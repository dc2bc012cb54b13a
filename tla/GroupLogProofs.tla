--------------------------- MODULE GroupLogProofs ---------------------------
(***************************************************************************)
(* What holds of the ordered room for every number of members, texts and   *)
(* streams and every size of its buffers: the types, the stay of a member, *)
(* and what it is delivered.                                               *)
(***************************************************************************)
EXTENDS GroupLog, FiniteSetTheorems, SequenceTheorems, TLAPS

-----------------------------------------------------------------------------
(* Frames and queues *)

\* Writing a frame keeps a family of queues well typed.
LEMMA PushType ==
    ASSUME NEW Frame, NEW q \in [Member -> [Stream -> Seq(Frame)]],
           NEW m \in Member, NEW s \in Stream \cup {0}, NEW f \in Frame
    PROVE  Push(q, m, s, f) \in [Member -> [Stream -> Seq(Frame)]]
<1>1. CASE s = 0 \/ s \in broken[m]
  BY <1>1 DEF Push
<1>2. CASE ~(s = 0 \/ s \in broken[m])
  <2>1. s \in Stream
    BY <1>2
  <2>2. q[m] \in [Stream -> Seq(Frame)] /\ Append(q[m][s], f) \in Seq(Frame)
    BY <2>1
  <2>3. [q[m] EXCEPT ![s] = Append(q[m][s], f)] \in [Stream -> Seq(Frame)]
    BY <2>1, <2>2
  <2>4. Push(q, m, s, f) = [q EXCEPT ![m] = [q[m] EXCEPT ![s] = Append(q[m][s], f)]]
    BY <1>2 DEF Push
  <2> QED BY <2>3, <2>4
<1> QED BY <1>1, <1>2

\* Closing or reading a stream keeps a family of queues well typed.
LEMMA QueueType ==
    ASSUME NEW Frame, NEW q \in [Member -> [Stream -> Seq(Frame)]],
           NEW m \in Member, NEW s, NEW t \in Seq(Frame)
    PROVE  [q EXCEPT ![m][s] = t] \in [Member -> [Stream -> Seq(Frame)]]
<1>1. [q[m] EXCEPT ![s] = t] \in [Stream -> Seq(Frame)]
  OBVIOUS
<1> QED BY <1>1

LEMMA EmptyQueue ==
    ASSUME NEW Frame
    PROVE  <<>> \in Seq(Frame)
OBVIOUS

\* Relaying a frame keeps the queues to the members well typed.
LEMMA RelayType ==
    ASSUME down \in [Member -> [Stream -> Seq(HostFrame)]],
           NEW f \in HostFrame, NEW st, NEW cn
    PROVE  Relay(f, st, cn) \in [Member -> [Stream -> Seq(HostFrame)]]
<1>1. ASSUME NEW m \in Member, NEW s \in Stream
      PROVE  Append(down[m][s], f) \in Seq(HostFrame) /\ down[m][s] \in Seq(HostFrame)
  <2>1. down[m][s] \in Seq(HostFrame)
    OBVIOUS
  <2> QED BY <2>1
<1> QED BY <1>1 DEF Relay

\* The relay of a committed event is well typed.
LEMMA RelayedType ==
    ASSUME TypeOK, NEW st, NEW cn
    PROVE  Relayed(st, cn) \in [Member -> [Stream -> Seq(HostFrame)]]
<1>1. RoomEvent(Len(log) + 1) \in HostFrame
  BY DEF TypeOK, HostTypeOK, RoomEvent, HostFrame
<1> QED BY <1>1, RelayType DEF Relayed, TypeOK, NetTypeOK

\* The first frame of a queue to the host.
LEMMA GuestHead ==
    ASSUME TypeOK, NEW m \in Member, NEW s \in Stream, up[m][s] # <<>>
    PROVE  /\ Head(up[m][s]) \in GuestFrame
           /\ Tail(up[m][s]) \in Seq(GuestFrame)
<1>1. up[m][s] \in Seq(GuestFrame)
  BY DEF TypeOK, HostTypeOK, NetTypeOK
<1> QED BY <1>1

\* The first frame of a queue to a member.
LEMMA HostHead ==
    ASSUME TypeOK, NEW m \in Member, NEW s \in Stream, down[m][s] # <<>>
    PROVE  /\ Head(down[m][s]) \in HostFrame
           /\ Tail(down[m][s]) \in Seq(HostFrame)
<1>1. down[m][s] \in Seq(HostFrame)
  BY DEF TypeOK, HostTypeOK, NetTypeOK
<1> QED BY <1>1

\* What the frames carry.
LEMMA GuestFields ==
    ASSUME NEW f \in GuestFrame
    PROVE  /\ f.type = "RESUME_REQUEST" => f.lastSeq \in Nat
           /\ f.type = "TEXT_SUBMIT" => f.id \in Text
BY DEF GuestFrame

LEMMA HostFields ==
    ASSUME NEW f \in HostFrame
    PROVE  /\ f.type \in {"JOIN_ACCEPT", "RESYNC_REQUIRED"} => f.seq \in Nat /\ f.roster \in Roster
           /\ f.type = "ROOM_EVENT" => f.seq \in Nat
           /\ f.type = "ACTION_REJECTED" => f.id \in Text
           /\ f.type \in {"ROOM_PAUSE", "RESUME_ACCEPT"} => f.paused \in BOOLEAN
BY DEF HostFrame

LEMMA RosterType ==
    ASSUME TypeOK
    PROVE  HostRoster \in Roster
BY DEF HostRoster, Listed, Roster, Presence, TypeOK, HostTypeOK

LEMMA ApplyType ==
    ASSUME NEW r \in Roster, NEW e
    PROVE  Apply(r, e) \in Roster
BY DEF Apply, Roster, Presence

LEMMA OwnerTextsFinite ==
    ASSUME TypeOK
    PROVE  Cardinality(OwnerTexts) \in Nat
<1>1. Len(log) \in Nat
  BY DEF TypeOK, HostTypeOK, NetTypeOK
<1>2. IsFiniteSet(1..Len(log))
  BY <1>1, FS_Interval
<1>3. OwnerTexts \subseteq 1..Len(log)
  BY DEF OwnerTexts
<1> QED BY <1>2, <1>3, FS_Subset, FS_CardinalityType

\* Committing an event keeps the log well typed.
LEMMA CommitType ==
    ASSUME TypeOK, NEW e \in Event, Commit(e)
    PROVE  log' \in Seq(Event)
BY DEF Commit, TypeOK, HostTypeOK

LEMMA StreamOne == 1 \in Stream
BY GroupLogAssumption DEF Stream

-----------------------------------------------------------------------------
(* Type correctness, action by action *)

LEMMA ApproveJoinType ==
    ASSUME TypeOK, NEW m \in Member, ApproveJoin(m)
    PROVE  TypeOK'
<1> USE StreamOne DEF ApproveJoin, TypeOK
<1>1. HostTypeOK'
  BY DEF HostTypeOK
<1>2. GuestTypeOK'
  BY DEF GuestTypeOK
<1>3. NetTypeOK'
  <2>1. [type |-> "JOIN_ACCEPT", seq |-> Len(log),
         roster |-> [HostRoster EXCEPT ![m] = "online"]] \in HostFrame
    BY RosterType DEF HostFrame, Roster, Presence, HostTypeOK
  <2> QED BY <2>1, PushType DEF NetTypeOK
<1> QED BY <1>1, <1>2, <1>3

LEMMA CommitAdmissionType ==
    ASSUME TypeOK, NEW m \in Member, CommitAdmission(m)
    PROVE  TypeOK'
<1> USE DEF CommitAdmission, TypeOK
<1>1. HostTypeOK'
  <2>1. [type |-> "MEMBER_JOINED", who |-> m, id |-> 0] \in Event
    BY DEF Event
  <2>2. log' \in Seq(Event)
    BY <2>1, CommitType
  <2> QED BY <2>2, StreamOne DEF HostTypeOK
<1>2. GuestTypeOK'
  BY DEF GuestTypeOK, guestVars
<1>3. NetTypeOK'
  BY RelayedType DEF NetTypeOK
<1> QED BY <1>1, <1>2, <1>3

LEMMA DropPendingType ==
    ASSUME TypeOK, NEW m \in Member, DropPending(m)
    PROVE  TypeOK'
<1> USE DEF DropPending, TypeOK
<1>1. HostTypeOK'
  BY DEF HostTypeOK
<1>2. GuestTypeOK'
  BY DEF GuestTypeOK, guestVars
<1>3. NetTypeOK'
  BY EmptyQueue, QueueType, StreamOne DEF NetTypeOK
<1> QED BY <1>1, <1>2, <1>3

LEMMA OwnerTextType ==
    ASSUME TypeOK, OwnerText
    PROVE  TypeOK'
<1> USE DEF OwnerText, TypeOK
<1>1. HostTypeOK'
  <2>1. [type |-> "TEXT", who |-> Owner, id |-> Cardinality(OwnerTexts) + 1] \in Event
    BY OwnerTextsFinite DEF Event
  <2>2. log' \in Seq(Event)
    BY <2>1, CommitType
  <2> QED BY <2>2 DEF HostTypeOK
<1>2. GuestTypeOK'
  BY DEF GuestTypeOK, guestVars
<1>3. NetTypeOK'
  BY RelayedType DEF NetTypeOK
<1> QED BY <1>1, <1>2, <1>3

LEMMA SetRoomPausedType ==
    ASSUME TypeOK, SetRoomPaused
    PROVE  TypeOK'
<1> USE DEF SetRoomPaused, TypeOK
<1>1. HostTypeOK'
  BY DEF HostTypeOK
<1>2. GuestTypeOK'
  BY DEF GuestTypeOK, guestVars
<1>3. NetTypeOK'
  <2>1. [type |-> "ROOM_PAUSE", paused |-> paused'] \in HostFrame
    BY DEF HostFrame, HostTypeOK
  <2>2. down' \in [Member -> [Stream -> Seq(HostFrame)]]
    BY <2>1, RelayType DEF NetTypeOK
  <2>3. up' \in [Member -> [Stream -> Seq(GuestFrame)]]
    BY EmptyQueue DEF NetTypeOK
  <2>4. broken' \in [Member -> SUBSET Stream]
    BY StreamOne DEF NetTypeOK
  <2> QED BY <2>2, <2>3, <2>4 DEF NetTypeOK
<1> QED BY <1>1, <1>2, <1>3

LEMMA LoseMemberType ==
    ASSUME TypeOK, NEW m \in Member, LoseMember(m)
    PROVE  TypeOK'
<1> USE DEF LoseMember, TypeOK
<1>1. HostTypeOK'
  <2>1. [type |-> "MEMBER_RECONNECTING", who |-> m, id |-> 0] \in Event
    BY DEF Event
  <2>2. log' \in Seq(Event)
    BY <2>1, CommitType
  <2> QED BY <2>2 DEF HostTypeOK
<1>2. GuestTypeOK'
  BY DEF GuestTypeOK, guestVars
<1>3. NetTypeOK'
  BY RelayedType, EmptyQueue, QueueType DEF NetTypeOK
<1> QED BY <1>1, <1>2, <1>3

LEMMA RemoveType ==
    ASSUME TypeOK, NEW m \in Member, NEW notify, Remove(m, notify)
    PROVE  TypeOK'
<1> USE DEF Remove, TypeOK
<1>1. HostTypeOK'
  <2>1. [type |-> "MEMBER_LEFT", who |-> m, id |-> 0] \in Event
    BY DEF Event
  <2>2. log' \in Seq(Event)
    BY <2>1, CommitType
  <2>3. NoResume \in [stream : Stream \cup {0}, cursor : Nat, upto : Nat]
    BY DEF NoResume
  <2> QED BY <2>2, <2>3 DEF HostTypeOK
<1>2. GuestTypeOK'
  BY DEF GuestTypeOK, guestVars
<1>3. NetTypeOK'
  <2> DEFINE told == Relayed(status', conn')
             mine == [s \in Stream |->
                        IF s \in {conn[m], resume[m].stream} THEN <<>> ELSE up[m][s]]
  <2>1. Push(told, m, conn[m], [type |-> "REMOVED"]) \in [Member -> [Stream -> Seq(HostFrame)]]
    <3>1. told \in [Member -> [Stream -> Seq(HostFrame)]]
      BY RelayedType
    <3>2. conn[m] \in Stream \cup {0} /\ [type |-> "REMOVED"] \in HostFrame
      BY DEF HostTypeOK, HostFrame
    <3> QED BY <3>1, <3>2, PushType
  <2>2. down' \in [Member -> [Stream -> Seq(HostFrame)]]
    BY <2>1, RelayedType
  <2>3. mine \in [Stream -> Seq(GuestFrame)] /\ up' = [up EXCEPT ![m] = mine]
    BY DEF NetTypeOK
  <2>4. {conn[m], resume[m].stream} \ {0} \subseteq Stream
    BY DEF HostTypeOK
  <2> QED BY <2>2, <2>3, <2>4 DEF NetTypeOK
<1> QED BY <1>1, <1>2, <1>3

LEMMA RejectResumeType ==
    ASSUME TypeOK, NEW m \in Member, NEW s \in Stream, RejectResume(m, s)
    PROVE  TypeOK'
<1> USE DEF RejectResume, TypeOK
<1>1. HostTypeOK'
  BY DEF HostTypeOK, hostVars
<1>2. GuestTypeOK'
  BY DEF GuestTypeOK, guestVars
<1>3. NetTypeOK'
  <2>1. [type |-> "RESUME_REJECT"] \in HostFrame
    BY DEF HostFrame
  <2> QED BY <2>1, PushType, EmptyQueue, QueueType DEF NetTypeOK
<1> QED BY <1>1, <1>2, <1>3

LEMMA AcceptResumeType ==
    ASSUME TypeOK, NEW m \in Member, NEW s \in Stream, AcceptResume(m, s)
    PROVE  TypeOK'
<1> USE DEF AcceptResume, TypeOK
<1> DEFINE accept(n) == [type |-> "RESUME_ACCEPT", currentSeq |-> n, paused |-> paused]
           last == Head(up[m][s]).lastSeq
<1>1. last \in Nat
  BY GuestHead, GuestFields DEF Opens
<1>2. Tail(up[m][s]) \in Seq(GuestFrame)
  BY GuestHead DEF Opens
<1>3. \A n \in Nat : accept(n) \in HostFrame
  BY DEF HostFrame, HostTypeOK
<1>4. Len(log) \in Nat
  BY DEF HostTypeOK
<1>5. HostTypeOK'
  <2>1. [type |-> "MEMBER_RECONNECTING", who |-> m, id |-> 0] \in Event
    BY DEF Event
  <2>2. log' \in Seq(Event)
    BY <2>1, CommitType DEF HostTypeOK
  <2>3. [stream |-> s, cursor |-> last, upto |-> last]
          \in [stream : Stream \cup {0}, cursor : Nat, upto : Nat]
    BY <1>1
  <2>4. resume' \in [Member -> [stream : Stream \cup {0}, cursor : Nat, upto : Nat]]
    BY <2>3 DEF HostTypeOK
  <2> QED BY <2>2, <2>4 DEF HostTypeOK
<1>6. GuestTypeOK'
  BY DEF GuestTypeOK, guestVars
<1>7. NetTypeOK'
  <2>1. CASE StillServed(m)
    <3>1. down' \in [Member -> [Stream -> Seq(HostFrame)]]
      <4>1. Relayed(status', conn') \in [Member -> [Stream -> Seq(HostFrame)]]
        BY RelayedType
      <4>2. accept(Len(log) + 1) \in HostFrame
        BY <1>3, <1>4
      <4>3. down' = Push(Relayed(status', conn'), m, s, accept(Len(log) + 1))
        BY <2>1
      <4> QED BY <4>1, <4>2, <4>3, PushType
    <3>2. up' \in [Member -> [Stream -> Seq(GuestFrame)]]
      <4> DEFINE q == [up EXCEPT ![m][s] = Tail(up[m][s])]
      <4>1. q \in [Member -> [Stream -> Seq(GuestFrame)]]
        BY <1>2, QueueType DEF NetTypeOK
      <4>2. up' = [q EXCEPT ![m][conn[m]] = <<>>]
        BY <2>1
      <4> QED BY <4>1, <4>2, EmptyQueue, QueueType
    <3>3. broken' = [broken EXCEPT ![m] = broken[m] \cup ({conn[m]} \ {0})]
      BY <2>1
    <3>4. {conn[m]} \ {0} \subseteq Stream
      BY DEF HostTypeOK
    <3>5. broken' \in [Member -> SUBSET Stream]
      BY <3>3, <3>4 DEF NetTypeOK
    <3> HIDE DEF AcceptResume
    <3> QED BY <3>1, <3>2, <3>5 DEF NetTypeOK
  <2>2. CASE ~StillServed(m)
    <3>1. down' = Push(down, m, s, accept(Len(log)))
      BY <2>2
    <3>2. down' \in [Member -> [Stream -> Seq(HostFrame)]]
      BY <1>3, <1>4, <3>1, PushType DEF NetTypeOK
    <3>3. up' = [up EXCEPT ![m][s] = Tail(up[m][s])] /\ broken' = broken
      BY <2>2
    <3> HIDE DEF AcceptResume
    <3>4. up' \in [Member -> [Stream -> Seq(GuestFrame)]]
      BY <1>2, <3>3, QueueType DEF NetTypeOK
    <3> QED BY <3>2, <3>3, <3>4 DEF NetTypeOK
  <2> QED BY <2>1, <2>2
<1> QED BY <1>5, <1>6, <1>7

\* The progress of a resume attempt.
LEMMA CursorType ==
    ASSUME TypeOK, NEW m \in Member, NEW c \in Nat, NEW u \in Nat
    PROVE  [resume EXCEPT ![m].cursor = c, ![m].upto = u]
             \in [Member -> [stream : Stream \cup {0}, cursor : Nat, upto : Nat]]
BY DEF TypeOK, HostTypeOK

LEMMA ReplayEventType ==
    ASSUME TypeOK, NEW m \in Member, ReplayEvent(m)
    PROVE  TypeOK'
<1> USE DEF ReplayEvent, TypeOK
<1>1. /\ resume[m].cursor \in Nat /\ resume[m].upto \in Nat /\ Len(log) \in Nat
      /\ resume[m].stream \in Stream \cup {0}
  BY DEF HostTypeOK
<1>2. HostTypeOK'
  <2> DEFINE batch == IF resume[m].cursor < resume[m].upto THEN resume[m].upto ELSE Len(log)
  <2>1. batch \in Nat /\ resume[m].cursor + 1 \in Nat
    BY <1>1
  <2>2. resume' = [resume EXCEPT ![m].cursor = resume[m].cursor + 1, ![m].upto = batch]
    OBVIOUS
  <2>3. resume' \in [Member -> [stream : Stream \cup {0}, cursor : Nat, upto : Nat]]
    <3> HIDE DEF batch, ReplayEvent
    <3> QED BY <2>1, <2>2, CursorType
  <2> QED BY <2>3 DEF HostTypeOK
<1>3. GuestTypeOK'
  BY DEF GuestTypeOK, guestVars
<1>4. NetTypeOK'
  <2>1. RoomEvent(resume[m].cursor + 1) \in HostFrame
    BY <1>1 DEF RoomEvent, HostFrame
  <2> QED BY <1>1, <2>1, PushType DEF NetTypeOK
<1> QED BY <1>2, <1>3, <1>4

LEMMA ReplayResyncType ==
    ASSUME TypeOK, NEW m \in Member, ReplayResync(m)
    PROVE  TypeOK'
<1> USE DEF ReplayResync, TypeOK
<1>1. Len(log) \in Nat /\ resume[m].stream \in Stream \cup {0}
  BY DEF HostTypeOK
<1>2. HostTypeOK'
  <2>1. resume' = [resume EXCEPT ![m].cursor = Len(log), ![m].upto = Len(log)]
    OBVIOUS
  <2>2. resume' \in [Member -> [stream : Stream \cup {0}, cursor : Nat, upto : Nat]]
    BY <1>1, <2>1, CursorType
  <2> QED BY <2>2 DEF HostTypeOK
<1>3. GuestTypeOK'
  BY DEF GuestTypeOK, guestVars
<1>4. NetTypeOK'
  <2>1. [type |-> "RESYNC_REQUIRED", seq |-> Len(log), roster |-> HostRoster] \in HostFrame
    BY <1>1, RosterType DEF HostFrame
  <2> QED BY <1>1, <2>1, PushType DEF NetTypeOK
<1> QED BY <1>2, <1>3, <1>4

LEMMA ActivateResumeType ==
    ASSUME TypeOK, NEW m \in Member, ActivateResume(m)
    PROVE  TypeOK'
<1> USE DEF ActivateResume, TypeOK
<1>1. HostTypeOK'
  <2>1. [type |-> "MEMBER_ONLINE", who |-> m, id |-> 0] \in Event
    BY DEF Event
  <2>2. log' \in Seq(Event)
    BY <2>1, CommitType
  <2>3. NoResume \in [stream : Stream \cup {0}, cursor : Nat, upto : Nat]
    BY DEF NoResume
  <2> QED BY <2>2, <2>3 DEF HostTypeOK
<1>2. GuestTypeOK'
  BY DEF GuestTypeOK, guestVars
<1>3. NetTypeOK'
  BY RelayedType DEF NetTypeOK
<1> QED BY <1>1, <1>2, <1>3

LEMMA AbandonResumeType ==
    ASSUME TypeOK, NEW m \in Member, AbandonResume(m)
    PROVE  TypeOK'
<1> USE DEF AbandonResume, TypeOK
<1>1. HostTypeOK'
  BY DEF HostTypeOK, NoResume
<1>2. GuestTypeOK'
  BY DEF GuestTypeOK, guestVars
<1>3. NetTypeOK'
  BY EmptyQueue, QueueType DEF NetTypeOK
<1> QED BY <1>1, <1>2, <1>3

\* What the host has in hand when it hears a submission.
LEMMA Heard ==
    ASSUME TypeOK, NEW m \in Member, Hears(m, "TEXT_SUBMIT")
    PROVE  /\ conn[m] \in Stream
           /\ Head(up[m][conn[m]]).id \in Text
           /\ Consume(m) => up' \in [Member -> [Stream -> Seq(GuestFrame)]]
<1>1. conn[m] \in Stream
  BY DEF Hears, TypeOK, HostTypeOK
<1>2. /\ Head(up[m][conn[m]]) \in GuestFrame
      /\ Tail(up[m][conn[m]]) \in Seq(GuestFrame)
  BY <1>1, GuestHead DEF Hears
<1>3. Head(up[m][conn[m]]).id \in Text
  BY <1>2, GuestFields DEF Hears
<1>4. Consume(m) => up' \in [Member -> [Stream -> Seq(GuestFrame)]]
  <2>1. up \in [Member -> [Stream -> Seq(GuestFrame)]]
    BY DEF TypeOK, NetTypeOK
  <2>2. [up EXCEPT ![m][conn[m]] = Tail(up[m][conn[m]])] \in [Member -> [Stream -> Seq(GuestFrame)]]
    BY <1>2, <2>1, QueueType
  <2> QED BY <2>2 DEF Consume
<1> QED BY <1>1, <1>3, <1>4

LEMMA RejectPausedTextType ==
    ASSUME TypeOK, NEW m \in Member, RejectPausedText(m)
    PROVE  TypeOK'
<1> USE DEF RejectPausedText, TypeOK
<1>1. HostTypeOK'
  BY DEF HostTypeOK, hostVars
<1>2. GuestTypeOK'
  BY DEF GuestTypeOK, guestVars
<1>3. NetTypeOK'
  <2>1. Rejection(Head(up[m][conn[m]]).id) \in HostFrame
    BY Heard DEF Rejection, HostFrame
  <2>2. down' \in [Member -> [Stream -> Seq(HostFrame)]]
    BY <2>1, Heard, PushType DEF NetTypeOK
  <2> QED BY <2>2, Heard DEF NetTypeOK
<1> QED BY <1>1, <1>2, <1>3

LEMMA AnswerDuplicateType ==
    ASSUME TypeOK, NEW m \in Member, AnswerDuplicate(m)
    PROVE  TypeOK'
<1> USE DEF AnswerDuplicate, TypeOK
<1>1. HostTypeOK'
  BY DEF HostTypeOK, hostVars
<1>2. GuestTypeOK'
  BY DEF GuestTypeOK, guestVars
<1>3. NetTypeOK'
  <2> DEFINE k == Head(up[m][conn[m]]).id
  <2>1. PICK e \in Prior(m, k) : down' = Push(down, m, conn[m], Again(k, e))
    OBVIOUS
  <2>2. k \in Text
    BY Heard
  <2>3. e \in [id : Text, seq : Nat]
    BY DEF Prior, HostTypeOK
  <2>4. Again(k, e) \in HostFrame
    BY <2>2, <2>3 DEF Again, RoomEvent, Rejection, HostFrame
  <2>5. down' \in [Member -> [Stream -> Seq(HostFrame)]]
    BY <2>1, <2>4, Heard, PushType DEF NetTypeOK
  <2> QED BY <2>5, Heard DEF NetTypeOK
<1> QED BY <1>1, <1>2, <1>3

\* The deduper holds entries only.
LEMMA RememberType ==
    ASSUME NEW d \in SUBSET [id : Text, seq : Nat], NEW k \in Text, NEW n \in Nat
    PROVE  Remember(d, k, n) \in SUBSET [id : Text, seq : Nat]
BY DEF Remember

LEMMA CommitTextType ==
    ASSUME TypeOK, NEW m \in Member, CommitText(m)
    PROVE  TypeOK'
<1> USE DEF CommitText, TypeOK
<1> DEFINE k == Head(up[m][conn[m]]).id
<1>1. k \in Text /\ k \in Nat
  BY Heard, GroupLogAssumption DEF Text
<1>2. HostTypeOK'
  <2>1. [type |-> "TEXT", who |-> m, id |-> k] \in Event
    BY <1>1 DEF Event
  <2>2. log' \in Seq(Event)
    BY <2>1, CommitType
  <2>3. Remember(dedupe[m], k, Len(log) + 1) \in SUBSET [id : Text, seq : Nat]
    BY <1>1, RememberType DEF HostTypeOK
  <2>4. dedupe' = [dedupe EXCEPT ![m] = Remember(dedupe[m], k, Len(log) + 1)]
    OBVIOUS
  <2> QED BY <2>2, <2>3, <2>4 DEF HostTypeOK
<1>3. GuestTypeOK'
  BY DEF GuestTypeOK, guestVars
<1>4. NetTypeOK'
  BY RelayedType, Heard DEF NetTypeOK
<1> QED BY <1>2, <1>3, <1>4

\* A member's state when it reads a frame, and its queue after it has.
LEMMA FrameRead ==
    ASSUME TypeOK, NEW m \in Member, NEW type, Reads(m, type)
    PROVE  /\ gconn[m] \in Stream
           /\ Received(m) \in HostFrame /\ Received(m).type = type
           /\ Advance(m) => down' \in [Member -> [Stream -> Seq(HostFrame)]]
<1>1. gconn[m] \in Stream
  BY DEF Reads, TypeOK, GuestTypeOK
<1>2. /\ Received(m) \in HostFrame
      /\ Tail(down[m][gconn[m]]) \in Seq(HostFrame)
  BY <1>1, HostHead DEF Reads, Received
<1>3. Advance(m) => down' \in [Member -> [Stream -> Seq(HostFrame)]]
  <2>1. down \in [Member -> [Stream -> Seq(HostFrame)]]
    BY DEF TypeOK, NetTypeOK
  <2>2. [down EXCEPT ![m][gconn[m]] = Tail(down[m][gconn[m]])] \in [Member -> [Stream -> Seq(HostFrame)]]
    BY <1>2, <2>1, QueueType
  <2> QED BY <2>2 DEF Advance
<1> QED BY <1>1, <1>2, <1>3 DEF Reads, Received

\* What becomes of a text.
LEMMA DraftType ==
    ASSUME TypeOK, NEW m \in Member, NEW k,
           NEW d \in {"unsent", "sending", "delivered", "failed"}
    PROVE  [draft EXCEPT ![m][k] = d]
             \in [Member -> [Text -> {"unsent", "sending", "delivered", "failed"}]]
<1>1. draft[m] \in [Text -> {"unsent", "sending", "delivered", "failed"}]
  BY DEF TypeOK, GuestTypeOK
<1>2. [draft[m] EXCEPT ![k] = d] \in [Text -> {"unsent", "sending", "delivered", "failed"}]
  BY <1>1
<1> QED BY <1>2 DEF TypeOK, GuestTypeOK

LEMMA JoinedType ==
    ASSUME TypeOK, NEW m \in Member, Joined(m)
    PROVE  TypeOK'
<1> USE DEF Joined, TypeOK
<1>1. Received(m).seq \in Nat /\ Received(m).roster \in Roster
  BY FrameRead, HostFields
<1>2. HostTypeOK'
  BY DEF HostTypeOK, hostVars
<1>3. GuestTypeOK'
  BY <1>1 DEF GuestTypeOK
<1>4. NetTypeOK'
  BY FrameRead DEF NetTypeOK
<1> QED BY <1>2, <1>3, <1>4

LEMMA ReadEventType ==
    ASSUME TypeOK, NEW m \in Member, ReadEvent(m)
    PROVE  TypeOK'
<1> USE DEF ReadEvent, TypeOK
<1>1. HostTypeOK'
  BY DEF HostTypeOK, hostVars
<1>2. GuestTypeOK'
  <2> DEFINE n == Received(m).seq
  <2>1. n \in Nat /\ Apply(roster[m], log[n]) \in Roster
    BY FrameRead, HostFields, ApplyType DEF GuestTypeOK
  <2>2. CASE UNCHANGED <<lastSeq, roster, draft>>
    BY <2>2 DEF GuestTypeOK
  <2>3. CASE /\ lastSeq' = [lastSeq EXCEPT ![m] = n]
             /\ roster' = [roster EXCEPT ![m] = Apply(roster[m], log[n])]
             /\ \/ draft' = [draft EXCEPT ![m][log[n].id] = "delivered"]
                \/ draft' = draft
    <3>1. CASE draft' = [draft EXCEPT ![m][log[n].id] = "delivered"]
      BY <2>1, <2>3, <3>1, DraftType DEF GuestTypeOK
    <3>2. CASE draft' = draft
      BY <2>1, <2>3, <3>2 DEF GuestTypeOK
    <3> QED BY <2>3, <3>1, <3>2
  <2> QED BY <2>2, <2>3
<1>3. NetTypeOK'
  BY FrameRead DEF NetTypeOK
<1> QED BY <1>1, <1>2, <1>3

LEMMA ReadUnusableEventType ==
    ASSUME TypeOK, NEW m \in Member, ReadUnusableEvent(m)
    PROVE  TypeOK'
<1> USE DEF ReadUnusableEvent, TypeOK
<1>1. HostTypeOK'
  BY DEF HostTypeOK, hostVars
<1>2. GuestTypeOK'
  BY DEF GuestTypeOK
<1>3. NetTypeOK'
  BY FrameRead, EmptyQueue, QueueType DEF NetTypeOK
<1> QED BY <1>1, <1>2, <1>3

LEMMA ReadResyncType ==
    ASSUME TypeOK, NEW m \in Member, ReadResync(m)
    PROVE  TypeOK'
<1> USE DEF ReadResync, TypeOK
<1>1. Received(m).seq \in Nat /\ Received(m).roster \in Roster
  BY FrameRead, HostFields
<1>2. HostTypeOK'
  BY DEF HostTypeOK, hostVars
<1>3. GuestTypeOK'
  <2>1. lastSeq[m] + 1 .. Received(m).seq \subseteq Nat
    BY <1>1 DEF GuestTypeOK
  <2> QED BY <1>1, <2>1 DEF GuestTypeOK
<1>4. NetTypeOK'
  BY FrameRead DEF NetTypeOK
<1> QED BY <1>2, <1>3, <1>4

LEMMA ReadRejectionType ==
    ASSUME TypeOK, NEW m \in Member, ReadRejection(m)
    PROVE  TypeOK'
<1> USE DEF ReadRejection, TypeOK
<1>1. HostTypeOK'
  BY DEF HostTypeOK, hostVars
<1>2. GuestTypeOK'
  <2>1. draft' \in [Member -> [Text -> {"unsent", "sending", "delivered", "failed"}]]
    BY DraftType DEF GuestTypeOK
  <2> QED BY <2>1 DEF GuestTypeOK
<1>3. NetTypeOK'
  BY FrameRead DEF NetTypeOK
<1> QED BY <1>1, <1>2, <1>3

LEMMA ReadPauseType ==
    ASSUME TypeOK, NEW m \in Member, ReadPause(m)
    PROVE  TypeOK'
<1> USE DEF ReadPause, TypeOK
<1>1. HostTypeOK'
  BY DEF HostTypeOK, hostVars
<1>2. GuestTypeOK'
  BY FrameRead, HostFields DEF GuestTypeOK
<1>3. NetTypeOK'
  BY FrameRead DEF NetTypeOK
<1> QED BY <1>1, <1>2, <1>3

\* close() on a member; leaving and being removed end with it.
LEMMA QuitType ==
    ASSUME TypeOK, NEW m \in Member, Quit(m),
           up' \in [Member -> [Stream -> Seq(GuestFrame)]]
    PROVE  TypeOK'
<1> USE DEF Quit, TypeOK
<1>1. HostTypeOK'
  BY DEF HostTypeOK, hostVars
<1>2. GuestTypeOK'
  BY DEF GuestTypeOK
<1>3. NetTypeOK'
  <2>1. 1..dials[m] \subseteq Stream
    <3>1. dials[m] \in 0..MaxStream
      BY GroupLogAssumption DEF GuestTypeOK, Stream
    <3> HIDE DEF Quit, TypeOK
    <3> QED BY <3>1, GroupLogAssumption DEF Stream
  <2>2. [s \in Stream |-> <<>>] \in [Stream -> Seq(HostFrame)]
    OBVIOUS
  <2> QED BY <2>1, <2>2 DEF NetTypeOK
<1> QED BY <1>1, <1>2, <1>3

LEMMA SubmitTextType ==
    ASSUME TypeOK, NEW m \in Member, SubmitText(m)
    PROVE  TypeOK'
<1> USE DEF SubmitText, TypeOK
<1>1. PICK k \in Text :
        \/ /\ draft' = [draft EXCEPT ![m][k] = "sending"]
           /\ up' = Push(up, m, gconn[m], [type |-> "TEXT_SUBMIT", id |-> k])
        \/ /\ draft' = [draft EXCEPT ![m][k] = "failed"]
           /\ UNCHANGED up
  BY DEF Unsent
<1>2. HostTypeOK'
  BY DEF HostTypeOK, hostVars
<1>3. GuestTypeOK'
  <2>1. draft' \in [Member -> [Text -> {"unsent", "sending", "delivered", "failed"}]]
    BY <1>1, DraftType
  <2> QED BY <2>1 DEF GuestTypeOK
<1>4. NetTypeOK'
  <2>1. [type |-> "TEXT_SUBMIT", id |-> k] \in GuestFrame /\ gconn[m] \in Stream \cup {0}
    BY DEF GuestFrame, GuestTypeOK
  <2>2. up' \in [Member -> [Stream -> Seq(GuestFrame)]]
    <3>1. CASE UNCHANGED up
      BY <3>1 DEF NetTypeOK
    <3>2. CASE up' = Push(up, m, gconn[m], [type |-> "TEXT_SUBMIT", id |-> k])
      <4> HIDE DEF SubmitText
      <4> QED BY <3>2, <2>1, PushType DEF NetTypeOK
    <3> QED BY <1>1, <3>1, <3>2
  <2> QED BY <2>2 DEF NetTypeOK
<1> QED BY <1>2, <1>3, <1>4

LEMMA LeaveType ==
    ASSUME TypeOK, NEW m \in Member, Leave(m)
    PROVE  TypeOK'
<1>1. [type |-> "LEAVE"] \in GuestFrame /\ gconn[m] \in Stream \cup {0}
  BY DEF GuestFrame, TypeOK, GuestTypeOK
<1>2. up' \in [Member -> [Stream -> Seq(GuestFrame)]]
  BY <1>1, PushType DEF Leave, TypeOK, NetTypeOK
<1> QED BY <1>2, QuitType DEF Leave

\* close() for any other reason: nothing is sent.
LEMMA QuitSilentlyType ==
    ASSUME TypeOK, NEW m \in Member, Quit(m), UNCHANGED up
    PROVE  TypeOK'
<1>1. up' \in [Member -> [Stream -> Seq(GuestFrame)]]
  BY DEF TypeOK, NetTypeOK
<1> QED BY <1>1, QuitType

LEMMA BeginRecoveryType ==
    ASSUME TypeOK, NEW m \in Member, BeginRecovery(m)
    PROVE  TypeOK'
BY DEF BeginRecovery, TypeOK, HostTypeOK, GuestTypeOK, NetTypeOK, hostVars, netVars

LEMMA DialAgainType ==
    ASSUME TypeOK, NEW m \in Member, DialAgain(m)
    PROVE  TypeOK'
<1> USE DEF TypeOK
<1>1. dials[m] + 1 \in Stream
  <2>1. dials[m] \in Stream \cup {0} /\ dials[m] < MaxStream
    BY DEF DialAgain, GuestTypeOK
  <2> QED BY <2>1, GroupLogAssumption DEF Stream
<1>2. HostTypeOK'
  BY DEF DialAgain, HostTypeOK, hostVars
<1>3. GuestTypeOK'
  BY <1>1 DEF DialAgain, GuestTypeOK
<1>4. NetTypeOK'
  <2>1. [type |-> "RESUME_REQUEST", lastSeq |-> lastSeq[m]] \in GuestFrame
    BY DEF GuestFrame, GuestTypeOK
  <2>2. up' \in [Member -> [Stream -> Seq(GuestFrame)]]
    BY <1>1, <2>1, PushType DEF DialAgain, NetTypeOK
  <2>3. down' \in [Member -> [Stream -> Seq(HostFrame)]]
    BY EmptyQueue, QueueType DEF DialAgain, NetTypeOK
  <2> QED BY <2>2, <2>3 DEF DialAgain, NetTypeOK
<1> QED BY <1>2, <1>3, <1>4

LEMMA ResumeAcceptedType ==
    ASSUME TypeOK, NEW m \in Member, ResumeAccepted(m)
    PROVE  TypeOK'
BY DEF ResumeAccepted, Pending, TypeOK, HostTypeOK, GuestTypeOK, NetTypeOK, hostVars, netVars

LEMMA ResubmitType ==
    ASSUME TypeOK, NEW m \in Member, Resubmit(m)
    PROVE  TypeOK'
<1> USE DEF Resubmit, TypeOK
<1>1. PICK k \in OldestOf(resubmit[m]) :
        /\ resubmit' = [resubmit EXCEPT ![m] = @ \ {k}]
        /\ up' = Push(up, m, dials[m], [type |-> "TEXT_SUBMIT", id |-> k])
  OBVIOUS
<1>2. k \in Text /\ dials[m] \in Stream \cup {0}
  BY DEF OldestOf, GuestTypeOK
<1>3. HostTypeOK'
  BY DEF HostTypeOK, hostVars
<1>4. GuestTypeOK'
  BY <1>1 DEF GuestTypeOK
<1>5. NetTypeOK'
  <2>1. [type |-> "TEXT_SUBMIT", id |-> k] \in GuestFrame
    BY <1>2 DEF GuestFrame
  <2>2. up' \in [Member -> [Stream -> Seq(GuestFrame)]]
    BY <1>1, <1>2, <2>1, PushType DEF NetTypeOK
  <2> QED BY <2>2 DEF NetTypeOK
<1> QED BY <1>3, <1>4, <1>5

LEMMA RecoveredType ==
    ASSUME TypeOK, NEW m \in Member, Recovered(m)
    PROVE  TypeOK'
<1> USE DEF Recovered, TypeOK
<1> DEFINE s == dials[m]
<1>1. s \in Stream
  BY DEF Answered, GuestTypeOK
<1>2. /\ Head(down[m][s]) \in HostFrame
      /\ Tail(down[m][s]) \in Seq(HostFrame)
      /\ Head(down[m][s]).type = "RESUME_ACCEPT"
  BY <1>1, HostHead DEF Answered
<1>3. Head(down[m][s]).paused \in BOOLEAN
  BY <1>2, HostFields
<1>4. HostTypeOK'
  BY DEF HostTypeOK, hostVars
<1>5. GuestTypeOK'
  BY <1>1, <1>3 DEF GuestTypeOK
<1>6. NetTypeOK'
  BY <1>2, QueueType DEF NetTypeOK
<1> QED BY <1>4, <1>5, <1>6

LEMMA ResumeFailedType ==
    ASSUME TypeOK, NEW m \in Member, ResumeFailed(m)
    PROVE  TypeOK'
<1> USE DEF ResumeFailed, TypeOK
<1>1. dials[m] \in Stream
  BY DEF Answered, GuestTypeOK, NetTypeOK
<1>2. HostTypeOK'
  BY DEF HostTypeOK, hostVars
<1>3. GuestTypeOK'
  BY DEF GuestTypeOK
<1>4. NetTypeOK'
  BY <1>1, EmptyQueue, QueueType DEF NetTypeOK
<1> QED BY <1>2, <1>3, <1>4

LEMMA NetworkType ==
    ASSUME TypeOK, NEW m \in Member, NEW s \in Stream, Break(m, s) \/ Drop(m, s)
    PROVE  TypeOK'
<1>1. CASE Break(m, s)
  BY <1>1 DEF Break, TypeOK, HostTypeOK, GuestTypeOK, NetTypeOK, hostVars, guestVars
<1>2. CASE Drop(m, s)
  <2> USE <1>2 DEF Drop, TypeOK
  <2>1. HostTypeOK'
    BY DEF HostTypeOK, hostVars
  <2>2. GuestTypeOK'
    BY DEF GuestTypeOK, guestVars
  <2>3. NetTypeOK'
    <3>1. up' = [up EXCEPT ![m][s] = <<>>] \/ up' = up
      OBVIOUS
    <3>2. down' = [down EXCEPT ![m][s] = <<>>] \/ down' = down
      OBVIOUS
    <3>3. broken' = broken
      OBVIOUS
    <3> HIDE <1>2 DEF Drop
    <3>4. [up EXCEPT ![m][s] = <<>>] \in [Member -> [Stream -> Seq(GuestFrame)]]
      BY EmptyQueue, QueueType DEF NetTypeOK
    <3>5. [down EXCEPT ![m][s] = <<>>] \in [Member -> [Stream -> Seq(HostFrame)]]
      BY EmptyQueue, QueueType DEF NetTypeOK
    <3> QED BY <3>1, <3>2, <3>3, <3>4, <3>5 DEF NetTypeOK
  <2> QED BY <2>1, <2>2, <2>3
<1> QED BY <1>1, <1>2

-----------------------------------------------------------------------------
LEMMA InitType == Init => TypeOK
<1> SUFFICES ASSUME Init PROVE TypeOK
  OBVIOUS
<1>1. HostTypeOK
  BY EmptyQueue DEF Init, HostTypeOK, NoResume
<1>2. GuestTypeOK
  BY DEF Init, GuestTypeOK, Roster, Presence
<1>3. NetTypeOK
  BY EmptyQueue DEF Init, NetTypeOK
<1> QED BY <1>1, <1>2, <1>3 DEF TypeOK

LEMMA NextType == TypeOK /\ [Next]_vars => TypeOK'
<1> SUFFICES ASSUME TypeOK, [Next]_vars PROVE TypeOK'
  OBVIOUS
<1>1. CASE OwnerText
  BY <1>1, OwnerTextType
<1>2. CASE SetRoomPaused
  BY <1>2, SetRoomPausedType
<1>3. ASSUME NEW m \in Member, HostAction(m) PROVE TypeOK'
  <2>1. CASE RemoveMember(m) \/ GraceTimeout(m) \/ HearLeave(m)
    BY <2>1, RemoveType DEF RemoveMember, GraceTimeout, HearLeave
  <2> QED
    BY <1>3, <2>1, ApproveJoinType, CommitAdmissionType, DropPendingType, LoseMemberType,
       RejectResumeType, AcceptResumeType, ReplayEventType, ReplayResyncType,
       ActivateResumeType, AbandonResumeType, RejectPausedTextType,
       AnswerDuplicateType, CommitTextType
       DEF HostAction
<1>4. ASSUME NEW m \in Member, GuestAction(m) PROVE TypeOK'
  <2>1. CASE ReadRemoved(m) \/ FailJoin(m) \/ RecoveryTimeout(m)
    BY <2>1, QuitSilentlyType DEF ReadRemoved, FailJoin, RecoveryTimeout
  <2> QED
    BY <1>4, <2>1, JoinedType, ReadEventType, ReadUnusableEventType, ReadResyncType,
       ReadRejectionType, ReadPauseType, SubmitTextType, LeaveType, BeginRecoveryType,
       DialAgainType, ResumeAcceptedType, ResubmitType, RecoveredType, ResumeFailedType
       DEF GuestAction
<1>5. ASSUME NEW m \in Member, NEW s \in Stream, Break(m, s) \/ Drop(m, s) PROVE TypeOK'
  BY <1>5, NetworkType
<1>6. CASE UNCHANGED vars
  BY <1>6 DEF vars, hostVars, guestVars, netVars, TypeOK, HostTypeOK, GuestTypeOK, NetTypeOK
<1> QED BY <1>1, <1>2, <1>3, <1>4, <1>5, <1>6 DEF Next

\* Every state of the room is well typed, whatever the members, the streams
\* and the sizes of the buffers: frames, queues, attempts and drafts are what
\* the handlers of group-room.js take them to be.
THEOREM TypeCorrect == Spec => []TypeOK
<1>1. Init => TypeOK
  BY InitType
<1>2. TypeOK /\ [Next]_vars => TypeOK'
  BY NextType
<1> QED BY <1>1, <1>2, PTL DEF Spec

-----------------------------------------------------------------------------
(* The stay of a member is one interval of the log *)

\* What the log says of somebody.
HasJoined(m) == \E i \in 1..Len(log) : log[i].type = "MEMBER_JOINED" /\ log[i].who = m
HasLeft(m)   == \E i \in 1..Len(log) : log[i].type = "MEMBER_LEFT" /\ log[i].who = m
Mentioned(m) == \E i \in 1..Len(log) : log[i].who = m

\* The host's books and the log agree on who is in the room.
StatusTold ==
    \A m \in Member :
        /\ status[m] \in {"out", "committing"} => ~Mentioned(m)
        /\ status[m] \in {"online", "reconnecting"} => HasJoined(m) /\ ~HasLeft(m)

\* Only a member that is away is being resumed: removing it, or taking it
\* over, ends the attempt.
ResumingAway == \A m \in Member : resume[m] # NoResume => status[m] = "reconnecting"

\* The inductive invariant behind MembershipInterval.
StayInv == StatusTold /\ ResumingAway /\ MembershipInterval

LEMMA Appended ==
    ASSUME TypeOK, NEW e \in Event, Commit(e)
    PROVE  /\ Len(log) \in Nat
           /\ Len(log') = Len(log) + 1
           /\ log'[Len(log) + 1] = e
           /\ \A i \in 1..Len(log) : log'[i] = log[i]
BY DEF Commit, TypeOK, HostTypeOK

\* What the log says after one more event.
LEMMA SaidAfter ==
    ASSUME TypeOK, NEW e \in Event, Commit(e), NEW m \in Member
    PROVE  /\ HasJoined(m)' <=> HasJoined(m) \/ (e.type = "MEMBER_JOINED" /\ e.who = m)
           /\ HasLeft(m)' <=> HasLeft(m) \/ (e.type = "MEMBER_LEFT" /\ e.who = m)
           /\ Mentioned(m)' <=> Mentioned(m) \/ e.who = m
<1>1. 1..Len(log') = 1..Len(log) \cup {Len(log) + 1}
  BY Appended
<1>2. HasJoined(m)' <=> HasJoined(m) \/ (e.type = "MEMBER_JOINED" /\ e.who = m)
  BY <1>1, Appended DEF HasJoined
<1>3. HasLeft(m)' <=> HasLeft(m) \/ (e.type = "MEMBER_LEFT" /\ e.who = m)
  BY <1>1, Appended DEF HasLeft
<1>4. Mentioned(m)' <=> Mentioned(m) \/ e.who = m
  BY <1>1, Appended DEF Mentioned
<1> QED BY <1>2, <1>3, <1>4

\* An event keeps the intervals if it opens one, or falls inside an open one.
LEMMA IntervalKept ==
    ASSUME TypeOK, MembershipInterval, NEW e \in Event, Commit(e),
           e.who \in Member =>
             IF e.type = "MEMBER_JOINED" THEN ~Mentioned(e.who)
                                         ELSE HasJoined(e.who) /\ ~HasLeft(e.who)
    PROVE  MembershipInterval'
<1> DEFINE n == Len(log) + 1
<1>1. 1..Len(log') = 1..Len(log) \cup {n} /\ n \notin 1..Len(log) /\ \A i \in 1..Len(log) : i <= n
  BY Appended
<1>2. \A i \in 1..Len(log) : log'[i] = log[i] /\ log[i] \in Event
  BY Appended DEF TypeOK, HostTypeOK
<1>3. log'[n] = e
  BY Appended
<1>4. \A f \in Event : f.type \in {"MEMBER_JOINED", "MEMBER_LEFT"} => f.who \in Member
  BY DEF Event
<1>5. \A f \in Event : f.who # Owner => f.who \in Member
  BY DEF Event
<1> HIDE DEF n
<1>6. ASSUME NEW i \in 1..Len(log'), NEW j \in 1..Len(log'), log'[j].who = log'[i].who
      PROVE  /\ log'[i].type = "MEMBER_JOINED" => i <= j
             /\ log'[i].type = "MEMBER_LEFT" => j <= i
  <2>1. CASE i \in 1..Len(log) /\ j \in 1..Len(log)
    BY <1>2, <1>6, <2>1 DEF MembershipInterval
  <2>2. CASE i = n /\ j = n
    BY <2>2, Appended DEF n
  <2>3. CASE i = n /\ j \in 1..Len(log)
    <3>1. log[j].who = e.who /\ log'[i] = e /\ j <= i
      BY <1>1, <1>2, <1>3, <1>6, <2>3
    <3>2. CASE e.type = "MEMBER_JOINED"
      BY <1>4, <2>3, <3>1, <3>2 DEF Mentioned
    <3> QED BY <3>1, <3>2
  <2>4. CASE i \in 1..Len(log) /\ j = n
    <3>1. log[i].who = e.who /\ log'[i] = log[i] /\ i <= j
      BY <1>1, <1>2, <1>3, <1>6, <2>4
    <3>2. CASE log[i].type = "MEMBER_LEFT"
      <4>1. e.who \in Member
        BY <1>2, <1>4, <2>4, <3>1, <3>2
      <4> QED BY <2>4, <3>1, <3>2, <4>1 DEF HasLeft, Mentioned
    <3> QED BY <3>1, <3>2
  <2> QED BY <1>1, <2>1, <2>2, <2>3, <2>4
<1>7. ASSUME NEW i \in 1..Len(log'), log'[i].who # Owner
      PROVE  \E j \in 1..Len(log') : log'[j].type = "MEMBER_JOINED" /\ log'[j].who = log'[i].who
  <2>1. CASE i \in 1..Len(log)
    <3>1. PICK j \in 1..Len(log) : log[j].type = "MEMBER_JOINED" /\ log[j].who = log[i].who
      BY <1>2, <1>7, <2>1 DEF MembershipInterval
    <3> QED BY <1>1, <1>2, <2>1, <3>1
  <2>2. CASE i = n
    <3>1. e.who \in Member
      BY <1>3, <1>5, <1>7, <2>2
    <3>2. CASE e.type = "MEMBER_JOINED"
      BY <1>3, <2>2, <3>2
    <3>3. CASE e.type # "MEMBER_JOINED"
      <4>1. PICK j \in 1..Len(log) : log[j].type = "MEMBER_JOINED" /\ log[j].who = e.who
        BY <3>1, <3>3 DEF HasJoined
      <4> QED BY <1>1, <1>2, <1>3, <2>2, <4>1
    <3> QED BY <3>2, <3>3
  <2> QED BY <1>1, <2>1, <2>2
<1> QED BY <1>6, <1>7 DEF MembershipInterval

\* A step that commits nothing: at most, applicants start or lose their
\* admission, and a resume attempt goes on or ends.
LEMMA QuietStep ==
    ASSUME TypeOK, StayInv, UNCHANGED log,
           \A m \in Member : \/ status'[m] = status[m]
                             \/ status[m] = "out" /\ status'[m] = "committing"
                             \/ status[m] = "committing" /\ status'[m] = "gone",
           \A m \in Member : resume'[m] # NoResume => resume[m] # NoResume
    PROVE  StayInv'
<1>1. \A m \in Member : /\ HasJoined(m)' <=> HasJoined(m)
                        /\ HasLeft(m)' <=> HasLeft(m)
                        /\ Mentioned(m)' <=> Mentioned(m)
  BY DEF HasJoined, HasLeft, Mentioned
<1>2. StatusTold'
  BY <1>1 DEF StayInv, StatusTold
<1>3. ResumingAway'
  BY DEF StayInv, StatusTold, ResumingAway
<1>4. MembershipInterval'
  BY DEF StayInv, MembershipInterval
<1> QED BY <1>2, <1>3, <1>4 DEF StayInv

\* A step that commits an event about m and changes the books of m only.
LEMMA CommitStep ==
    ASSUME TypeOK, StayInv, NEW e \in Event, Commit(e), NEW m \in Member, e.who = m,
           \A x \in Member \ {m} : status'[x] = status[x] /\ resume'[x] = resume[x],
           IF e.type = "MEMBER_JOINED" THEN status[m] \in {"out", "committing"}
                                       ELSE status[m] \in {"online", "reconnecting"},
           status'[m] \in (IF e.type = "MEMBER_LEFT" THEN {"gone"} ELSE {"online", "reconnecting"}),
           resume'[m] # NoResume => status'[m] = "reconnecting"
    PROVE  StayInv'
<1>1. IF e.type = "MEMBER_JOINED" THEN ~Mentioned(m) ELSE HasJoined(m) /\ ~HasLeft(m)
  BY DEF StayInv, StatusTold
<1>2. HasLeft(m) => Mentioned(m)
  BY DEF HasLeft, Mentioned
<1>3. StatusTold'
  <2>1. ASSUME NEW x \in Member \ {m}
        PROVE  /\ HasJoined(x)' <=> HasJoined(x)
               /\ HasLeft(x)' <=> HasLeft(x)
               /\ Mentioned(x)' <=> Mentioned(x)
    BY SaidAfter
  <2>2. status'[m] \in {"online", "reconnecting"} => HasJoined(m)' /\ ~HasLeft(m)'
    BY <1>1, <1>2, SaidAfter
  <2>3. status'[m] \notin {"out", "committing"}
    OBVIOUS
  <2> QED BY <2>1, <2>2, <2>3 DEF StayInv, StatusTold
<1>4. ResumingAway'
  BY DEF StayInv, ResumingAway
<1>5. MembershipInterval'
  BY <1>1, IntervalKept DEF StayInv
<1> QED BY <1>3, <1>4, <1>5 DEF StayInv

LEMMA OwnerTextStays ==
    ASSUME TypeOK, StayInv, OwnerText
    PROVE  StayInv'
<1> DEFINE e == [type |-> "TEXT", who |-> Owner, id |-> Cardinality(OwnerTexts) + 1]
<1>1. e \in Event /\ e.who = Owner /\ e.type = "TEXT"
  BY OwnerTextsFinite DEF Event
<1>2. Commit(e)
  BY DEF OwnerText
<1> HIDE DEF e
<1>3. \A m \in Member : /\ HasJoined(m)' <=> HasJoined(m)
                        /\ HasLeft(m)' <=> HasLeft(m)
                        /\ Mentioned(m)' <=> Mentioned(m)
  BY <1>1, <1>2, SaidAfter, GroupLogAssumption
<1>4. StatusTold'
  BY <1>3 DEF StayInv, StatusTold, OwnerText
<1>5. ResumingAway'
  BY DEF StayInv, ResumingAway, OwnerText
<1>6. MembershipInterval'
  BY <1>1, <1>2, IntervalKept, GroupLogAssumption DEF StayInv
<1> QED BY <1>4, <1>5, <1>6 DEF StayInv

LEMMA CommitAdmissionStays ==
    ASSUME TypeOK, StayInv, NEW m \in Member, CommitAdmission(m)
    PROVE  StayInv'
<1> DEFINE e == [type |-> "MEMBER_JOINED", who |-> m, id |-> 0]
<1>1. e \in Event /\ e.who = m /\ e.type = "MEMBER_JOINED" /\ Commit(e)
  BY DEF Event, CommitAdmission
<1>2. /\ status[m] = "committing" /\ status'[m] = "online"
      /\ \A x \in Member \ {m} : status'[x] = status[x] /\ resume'[x] = resume[x]
      /\ resume'[m] = resume[m]
  BY DEF CommitAdmission, TypeOK, HostTypeOK
<1>3. resume[m] = NoResume
  BY <1>2 DEF StayInv, ResumingAway
<1> HIDE DEF e
<1> QED BY <1>1, <1>2, <1>3, CommitStep

LEMMA LoseMemberStays ==
    ASSUME TypeOK, StayInv, NEW m \in Member, LoseMember(m)
    PROVE  StayInv'
<1> DEFINE e == [type |-> "MEMBER_RECONNECTING", who |-> m, id |-> 0]
<1>1. e \in Event /\ e.who = m /\ e.type = "MEMBER_RECONNECTING" /\ Commit(e)
  BY DEF Event, LoseMember
<1>2. /\ status[m] = "online" /\ status'[m] = "reconnecting"
      /\ \A x \in Member \ {m} : status'[x] = status[x] /\ resume'[x] = resume[x]
  BY DEF LoseMember, TypeOK, HostTypeOK
<1> HIDE DEF e
<1> QED BY <1>1, <1>2, CommitStep

\* A decision of the host, a LEAVE or the grace timer removes a member that
\* is in the room.
LEMMA RemoveStays ==
    ASSUME TypeOK, StayInv, NEW m \in Member, NEW notify, Remove(m, notify),
           status[m] \in {"online", "reconnecting"}
    PROVE  StayInv'
<1> DEFINE e == [type |-> "MEMBER_LEFT", who |-> m, id |-> 0]
<1>1. e \in Event /\ e.who = m /\ e.type = "MEMBER_LEFT" /\ Commit(e)
  BY DEF Event, Remove
<1>2. /\ status'[m] = "gone"
      /\ \A x \in Member \ {m} : status'[x] = status[x] /\ resume'[x] = resume[x]
      /\ resume'[m] = NoResume
  BY DEF Remove, TypeOK, HostTypeOK
<1> HIDE DEF e
<1> QED BY <1>1, <1>2, CommitStep

LEMMA ActivateResumeStays ==
    ASSUME TypeOK, StayInv, NEW m \in Member, ActivateResume(m)
    PROVE  StayInv'
<1> DEFINE e == [type |-> "MEMBER_ONLINE", who |-> m, id |-> 0]
<1>1. e \in Event /\ e.who = m /\ e.type = "MEMBER_ONLINE" /\ Commit(e)
  BY DEF Event, ActivateResume
<1>2. /\ status'[m] = "online"
      /\ \A x \in Member \ {m} : status'[x] = status[x] /\ resume'[x] = resume[x]
      /\ resume[m] # NoResume /\ resume'[m] = NoResume
  BY DEF ActivateResume, TypeOK, HostTypeOK
<1>3. status[m] = "reconnecting"
  BY <1>2 DEF StayInv, ResumingAway
<1> HIDE DEF e
<1> QED BY <1>1, <1>2, <1>3, CommitStep

LEMMA CommitTextStays ==
    ASSUME TypeOK, StayInv, NEW m \in Member, CommitText(m)
    PROVE  StayInv'
<1> DEFINE e == [type |-> "TEXT", who |-> m, id |-> Head(up[m][conn[m]]).id]
<1>1. Head(up[m][conn[m]]).id \in Nat
  BY Heard, GroupLogAssumption DEF CommitText, Text
<1>2. e \in Event /\ e.who = m /\ e.type = "TEXT" /\ Commit(e)
  BY <1>1 DEF Event, CommitText
<1>3. status[m] = "online" /\ UNCHANGED <<status, resume>>
  BY DEF CommitText, Hears
<1>4. resume[m] = NoResume
  BY <1>3 DEF StayInv, ResumingAway
<1> HIDE DEF e
<1> QED BY <1>2, <1>3, <1>4, CommitStep

LEMMA AcceptResumeStays ==
    ASSUME TypeOK, StayInv, NEW m \in Member, NEW s \in Stream, AcceptResume(m, s)
    PROVE  StayInv'
<1>1. /\ status[m] \in {"online", "reconnecting"} /\ status'[m] = "reconnecting"
      /\ \A x \in Member \ {m} : status'[x] = status[x] /\ resume'[x] = resume[x]
  BY DEF AcceptResume, Resumable, TypeOK, HostTypeOK
<1>2. CASE StillServed(m)
  <2> DEFINE e == [type |-> "MEMBER_RECONNECTING", who |-> m, id |-> 0]
  <2>1. e \in Event /\ e.who = m /\ e.type = "MEMBER_RECONNECTING" /\ Commit(e)
    BY <1>2 DEF Event, AcceptResume
  <2> HIDE DEF e
  <2> QED BY <1>1, <2>1, CommitStep
<1>3. CASE ~StillServed(m)
  <2>1. UNCHANGED log
    BY <1>3 DEF AcceptResume
  <2>2. status[m] = "reconnecting"
    BY <1>1, <1>3 DEF StillServed
  <2>3. \A x \in Member : status'[x] = status[x]
    BY <1>1, <2>2
  <2>4. StatusTold' /\ MembershipInterval'
    BY <2>1, <2>3 DEF StayInv, StatusTold, MembershipInterval, HasJoined, HasLeft, Mentioned
  <2>5. ResumingAway'
    BY <1>1 DEF StayInv, ResumingAway
  <2> QED BY <2>4, <2>5 DEF StayInv
<1> QED BY <1>2, <1>3

\* The host's steps that commit nothing.
LEMMA HostQuietStays ==
    ASSUME TypeOK, StayInv, NEW m \in Member,
           \/ ApproveJoin(m) \/ DropPending(m) \/ RejectPausedText(m) \/ AnswerDuplicate(m)
           \/ ReplayEvent(m) \/ ReplayResync(m) \/ AbandonResume(m)
           \/ \E s \in Stream : RejectResume(m, s)
    PROVE  StayInv'
<1>1. CASE ApproveJoin(m)
  BY <1>1, QuietStep DEF ApproveJoin, TypeOK, HostTypeOK
<1>2. CASE DropPending(m)
  BY <1>2, QuietStep DEF DropPending, TypeOK, HostTypeOK
<1>3. CASE RejectPausedText(m) \/ AnswerDuplicate(m) \/ \E s \in Stream : RejectResume(m, s)
  BY <1>3, QuietStep DEF RejectPausedText, AnswerDuplicate, RejectResume, hostVars
<1>4. CASE ReplayEvent(m)
  BY <1>4, QuietStep DEF ReplayEvent, TypeOK, HostTypeOK
<1>5. CASE ReplayResync(m)
  BY <1>5, QuietStep DEF ReplayResync, TypeOK, HostTypeOK
<1>6. CASE AbandonResume(m)
  BY <1>6, QuietStep DEF AbandonResume, TypeOK, HostTypeOK
<1> QED BY <1>1, <1>2, <1>3, <1>4, <1>5, <1>6

LEMMA SetRoomPausedStays ==
    ASSUME TypeOK, StayInv, SetRoomPaused
    PROVE  StayInv'
<1>1. UNCHANGED <<log, resume>>
  BY DEF SetRoomPaused
<1>2. \A m \in Member : \/ status'[m] = status[m]
                        \/ status[m] = "committing" /\ status'[m] = "gone"
  BY DEF SetRoomPaused
<1> QED BY <1>1, <1>2, QuietStep

LEMMA HostVarsStay ==
    ASSUME TypeOK, StayInv, UNCHANGED hostVars
    PROVE  StayInv'
BY QuietStep DEF hostVars

LEMMA GuestStays ==
    ASSUME TypeOK, StayInv, NEW m \in Member, GuestAction(m)
    PROVE  StayInv'
<1>1. UNCHANGED hostVars
  BY DEF GuestAction, Joined, ReadEvent, ReadUnusableEvent, ReadResync, ReadRejection,
         ReadPause, ReadRemoved, SubmitText, Leave, FailJoin, BeginRecovery, DialAgain,
         ResumeAccepted, Resubmit, Recovered, ResumeFailed, RecoveryTimeout, Quit
<1> QED BY <1>1, HostVarsStay

LEMMA InitStays == Init => StayInv
BY DEF Init, StayInv, StatusTold, ResumingAway, MembershipInterval, Mentioned

LEMMA NextStays == TypeOK /\ StayInv /\ [Next]_vars => StayInv'
<1> SUFFICES ASSUME TypeOK, StayInv, [Next]_vars PROVE StayInv'
  OBVIOUS
<1>1. CASE OwnerText
  BY <1>1, OwnerTextStays
<1>2. CASE SetRoomPaused
  BY <1>2, SetRoomPausedStays
<1>3. ASSUME NEW m \in Member, HostAction(m) PROVE StayInv'
  <2>1. CASE RemoveMember(m) \/ GraceTimeout(m) \/ HearLeave(m)
    BY <2>1, RemoveStays DEF RemoveMember, GraceTimeout, HearLeave, Hears
  <2>2. CASE CommitAdmission(m)
    BY <2>2, CommitAdmissionStays
  <2>3. CASE LoseMember(m)
    BY <2>3, LoseMemberStays
  <2>4. CASE \E s \in Stream : AcceptResume(m, s)
    BY <2>4, AcceptResumeStays
  <2>5. CASE ActivateResume(m)
    BY <2>5, ActivateResumeStays
  <2>6. CASE CommitText(m)
    BY <2>6, CommitTextStays
  <2> QED BY <1>3, <2>1, <2>2, <2>3, <2>4, <2>5, <2>6, HostQuietStays DEF HostAction
<1>4. ASSUME NEW m \in Member, GuestAction(m) PROVE StayInv'
  BY <1>4, GuestStays
<1>5. ASSUME NEW m \in Member, NEW s \in Stream, Break(m, s) \/ Drop(m, s) PROVE StayInv'
  BY <1>5, HostVarsStay DEF Break, Drop
<1>6. CASE UNCHANGED vars
  BY <1>6, HostVarsStay DEF vars, hostVars
<1> QED BY <1>1, <1>2, <1>3, <1>4, <1>5, <1>6 DEF Next

\* However streams fail, attempts to resume overlap with removals, and frames
\* arrive late, the log tells the stay of every member as one interval: it
\* joins once, is spoken of only afterwards, and never again after it left.
THEOREM StayIsInterval == Spec => []MembershipInterval
<1>1. Init => TypeOK /\ StayInv
  BY InitType, InitStays
<1>2. TypeOK /\ StayInv /\ [Next]_vars => (TypeOK /\ StayInv)'
  BY NextType, NextStays
<1>3. TypeOK /\ StayInv => MembershipInterval
  BY DEF StayInv
<1> QED BY <1>1, <1>2, <1>3, PTL DEF Spec

-----------------------------------------------------------------------------
(* The member lists that a log gives.  RosterAfter is a recursive function:  *)
(* what it is for a longer log follows from what it is for a shorter one.   *)

\* A set of numbers that holds 0 and, with a number, the next, holds them all.
LEMMA Induction ==
  ASSUME NEW S, S \subseteq Nat, 0 \in S, \A n \in S : n + 1 \in S
  PROVE  S = Nat
<1> DEFINE T == Nat \ S
           R == {p \in Nat \X Nat : p[1] < p[2]}
<1>1. SUFFICES ASSUME T # {}
               PROVE  FALSE
  OBVIOUS
<1>2. IsWellFoundedOn(R, Nat)
  BY NatLessThanWellFounded DEF OpToRel
<1>3. PICK x \in T : \A y \in T : <<y, x>> \notin R
  <2> HIDE DEF R
  <2>1. T \subseteq Nat /\ T # {}
    BY <1>1
  <2> QED BY <1>2, <2>1, WFMin
<1>4. x - 1 \in S
  <2>1. x \in Nat /\ x # 0
    BY <1>3
  <2>2. x - 1 \in Nat
    BY <2>1
  <2>3. <<x - 1, x>> \in Nat \X Nat /\ x - 1 < x
    BY <2>1, <2>2
  <2>4. <<x - 1, x>> \in R
    BY <2>3
  <2> QED BY <1>3, <2>2, <2>4
<1>5. x - 1 + 1 = x
  BY <1>3
<1> QED BY <1>3, <1>4, <1>5

\* The member lists the log L gives, as RosterAfter has them.
RosterOf(L) ==
  CHOOSE f : f = [n \in Nat |-> IF n = 0 THEN [x \in Member |-> "absent"]
                                ELSE Apply(f[n - 1], L[n])]

LEMMA RosterOfLog == RosterAfter = RosterOf(log)
BY DEF RosterAfter, RosterOf

LEMMA RosterOfNext == RosterAfter' = RosterOf(log')
BY DEF RosterAfter, RosterOf

\* Up to event n the recursion has one solution.
Solves(f, L, n) ==
  f = [k \in 0 .. n |-> IF k = 0 THEN [x \in Member |-> "absent"]
                        ELSE Apply(f[k - 1], L[k])]

LEMMA OneSolution ==
  ASSUME NEW L, NEW n \in Nat, NEW m \in Nat, NEW f, NEW g,
         Solves(f, L, n), Solves(g, L, m), NEW k \in 0 .. n, k <= m
  PROVE  f[k] = g[k]
<1> DEFINE S == {i \in Nat : i <= n /\ i <= m => f[i] = g[i]}
<1>1. 0 \in S
  BY DEF Solves
<1>2. ASSUME NEW i \in S
      PROVE  i + 1 \in S
  <2>1. SUFFICES ASSUME i + 1 <= n, i + 1 <= m
                 PROVE  f[i + 1] = g[i + 1]
    OBVIOUS
  <2>2. f[i] = g[i]
    BY <2>1
  <2>3. i + 1 \in 0 .. n /\ i + 1 \in 0 .. m /\ i + 1 # 0 /\ i + 1 - 1 = i
    BY <2>1
  <2>4. f[i + 1] = Apply(f[i + 1 - 1], L[i + 1]) /\ g[i + 1] = Apply(g[i + 1 - 1], L[i + 1])
    BY <2>3 DEF Solves
  <2> QED BY <2>2, <2>3, <2>4
<1> HIDE DEF S
<1>3. S = Nat
  <2>1. S \subseteq Nat
    BY DEF S
  <2> QED BY <1>1, <1>2, <2>1, Induction
<1> QED BY <1>3 DEF S

LEMMA SomeSolution ==
  ASSUME NEW L, NEW n \in Nat
  PROVE  \E f : Solves(f, L, n)
<1> DEFINE S == {i \in Nat : \E f : Solves(f, L, i)}
           Start == [x \in Member |-> "absent"]
<1>1. 0 \in S
  <2>1. Solves([k \in 0 .. 0 |-> Start], L, 0)
    BY DEF Solves
  <2> QED BY <2>1
<1>2. ASSUME NEW i \in S
      PROVE  i + 1 \in S
  <2>1. PICK f : Solves(f, L, i)
    OBVIOUS
  <2> DEFINE g == [k \in 0 .. i + 1 |-> IF k = i + 1 THEN Apply(f[i], L[i + 1]) ELSE f[k]]
  <2>2. ASSUME NEW k \in 0 .. i + 1
        PROVE  g[k] = IF k = 0 THEN Start ELSE Apply(g[k - 1], L[k])
    <3>1. CASE k = 0
      BY <2>1, <3>1 DEF Solves
    <3>2. CASE k = i + 1
      BY <3>2
    <3>3. CASE k # 0 /\ k # i + 1
      <4>1. k \in 0 .. i /\ k - 1 \in 0 .. i + 1 /\ k - 1 # i + 1
        BY <3>3
      <4>2. f[k] = Apply(f[k - 1], L[k])
        BY <2>1, <3>3, <4>1 DEF Solves
      <4> QED BY <3>3, <4>1, <4>2
    <3> QED BY <3>1, <3>2, <3>3
  <2>3. g = [k \in 0 .. i + 1 |-> IF k = 0 THEN Start ELSE Apply(g[k - 1], L[k])]
    <3> DEFINE h == [k \in 0 .. i + 1 |-> IF k = 0 THEN Start ELSE Apply(g[k - 1], L[k])]
    <3>1. \A k \in 0 .. i + 1 : g[k] = h[k]
      <4> HIDE DEF g
      <4> QED BY <2>2
    <3>2. g = [k \in 0 .. i + 1 |-> g[k]]
      OBVIOUS
    <3>3. h = [k \in 0 .. i + 1 |-> h[k]]
      <4> HIDE DEF g
      <4> QED OBVIOUS
    <3> HIDE DEF g, h
    <3>4. g = h
      BY <3>1, <3>2, <3>3
    <3> QED BY <3>4 DEF h
  <2> HIDE DEF g
  <2>4. Solves(g, L, i + 1)
    BY <2>3 DEF Solves
  <2> QED BY <2>4
<1> HIDE DEF S
<1>3. S = Nat
  <2>1. S \subseteq Nat
    BY DEF S
  <2> QED BY <1>1, <1>2, <2>1, Induction
<1> QED BY <1>3 DEF S

LEMMA RosterRecursion ==
  ASSUME NEW L
  PROVE  RosterOf(L) = [n \in Nat |-> IF n = 0 THEN [x \in Member |-> "absent"]
                                      ELSE Apply(RosterOf(L)[n - 1], L[n])]
<1> DEFINE Start == [x \in Member |-> "absent"]
           At(n) == CHOOSE f : Solves(f, L, n)
           g == [n \in Nat |-> At(n)[n]]
<1>1. \A n \in Nat : Solves(At(n), L, n)
  BY SomeSolution
<1> HIDE DEF At
<1>2. ASSUME NEW n \in Nat
      PROVE  g[n] = IF n = 0 THEN Start ELSE Apply(g[n - 1], L[n])
  <2>1. CASE n = 0
    BY <1>1, <2>1 DEF Solves
  <2>2. CASE n # 0
    <3>1. n - 1 \in Nat /\ n - 1 \in 0 .. n /\ n - 1 \in 0 .. n - 1 /\ n - 1 <= n - 1 /\ n \in 0 .. n
      BY <2>2
    <3>2. At(n)[n] = Apply(At(n)[n - 1], L[n])
      <4>1. Solves(At(n), L, n)
        BY <1>1
      <4> QED BY <2>2, <3>1, <4>1 DEF Solves
    <3>3. At(n)[n - 1] = At(n - 1)[n - 1]
      <4>1. Solves(At(n), L, n) /\ Solves(At(n - 1), L, n - 1)
        BY <1>1, <3>1
      <4> QED BY <3>1, <4>1, OneSolution
    <3>4. g[n] = At(n)[n] /\ g[n - 1] = At(n - 1)[n - 1]
      BY <3>1
    <3> HIDE DEF g
    <3> QED BY <2>2, <3>2, <3>3, <3>4
  <2> QED BY <2>1, <2>2
<1>3. g = [n \in Nat |-> IF n = 0 THEN Start ELSE Apply(g[n - 1], L[n])]
  <2> DEFINE h == [n \in Nat |-> IF n = 0 THEN Start ELSE Apply(g[n - 1], L[n])]
  <2>1. \A n \in Nat : g[n] = h[n]
    <3> HIDE DEF g
    <3> QED BY <1>2
  <2>2. g = [n \in Nat |-> g[n]]
    OBVIOUS
  <2>3. h = [n \in Nat |-> h[n]]
    <3> HIDE DEF g
    <3> QED OBVIOUS
  <2> HIDE DEF g, h
  <2>4. g = h
    BY <2>1, <2>2, <2>3
  <2> QED BY <2>4 DEF h
<1> HIDE DEF g
<1>4. \E f : f = [n \in Nat |-> IF n = 0 THEN Start ELSE Apply(f[n - 1], L[n])]
  BY <1>3
<1> QED BY <1>4 DEF RosterOf

LEMMA RosterOfType ==
    ASSUME NEW L, NEW n \in Nat
    PROVE  RosterOf(L)[n] \in Roster
<1> DEFINE R == RosterOf(L)
<1>1. \A i \in Nat : R[i] = IF i = 0 THEN [x \in Member |-> "absent"] ELSE Apply(R[i - 1], L[i])
  <2>1. R = [i \in Nat |-> IF i = 0 THEN [x \in Member |-> "absent"] ELSE Apply(R[i - 1], L[i])]
    BY RosterRecursion
  <2> HIDE DEF R
  <2> QED BY <2>1
<1> HIDE DEF R
<1>2. 0 \in {i \in Nat : R[i] \in Roster}
  BY <1>1 DEF Roster, Presence
<1>3. ASSUME NEW i \in Nat, R[i] \in Roster
      PROVE  R[i + 1] \in Roster
  <2>1. R[i + 1] = Apply(R[i + 1 - 1], L[i + 1]) /\ i + 1 - 1 = i
    BY <1>1
  <2> QED BY <1>3, <2>1, ApplyType
<1>4. {i \in Nat : R[i] \in Roster} = Nat
  <2> DEFINE T == {i \in Nat : R[i] \in Roster}
  <2>1. T \subseteq Nat /\ 0 \in T /\ \A i \in T : i + 1 \in T
    BY <1>2, <1>3
  <2> HIDE DEF T
  <2>2. T = Nat
    BY <2>1, Induction
  <2> QED BY <2>2 DEF T
<1> QED BY <1>4 DEF R

\* One more event leaves the lists up to the last one as they are.
LEMMA RosterOfAppend ==
    ASSUME NEW L \in Seq(Event), NEW e \in Event
    PROVE  /\ \A n \in 0 .. Len(L) : RosterOf(Append(L, e))[n] = RosterOf(L)[n]
           /\ RosterOf(Append(L, e))[Len(L) + 1] = Apply(RosterOf(L)[Len(L)], e)
<1>1. PICK M : M = Append(L, e)
  OBVIOUS
<1>2. Len(L) \in Nat /\ M[Len(L) + 1] = e /\ \A i \in 1 .. Len(L) : M[i] = L[i]
  BY <1>1
<1>3. PICK Q, R : Q = RosterOf(M) /\ R = RosterOf(L)
  OBVIOUS
<1>4. /\ \A i \in Nat : Q[i] = IF i = 0 THEN [x \in Member |-> "absent"] ELSE Apply(Q[i - 1], M[i])
      /\ \A i \in Nat : R[i] = IF i = 0 THEN [x \in Member |-> "absent"] ELSE Apply(R[i - 1], L[i])
  <2>1. Q = [i \in Nat |-> IF i = 0 THEN [x \in Member |-> "absent"] ELSE Apply(Q[i - 1], M[i])]
    BY <1>3, RosterRecursion
  <2>2. R = [i \in Nat |-> IF i = 0 THEN [x \in Member |-> "absent"] ELSE Apply(R[i - 1], L[i])]
    BY <1>3, RosterRecursion
  <2> QED BY <2>1, <2>2
<1>5. \A n \in 0 .. Len(L) : Q[n] = R[n]
  <2> DEFINE T == {i \in Nat : i <= Len(L) => Q[i] = R[i]}
  <2>1. 0 \in T
    BY <1>4
  <2>2. ASSUME NEW i \in T PROVE i + 1 \in T
    <3>1. SUFFICES ASSUME i + 1 <= Len(L) PROVE Q[i + 1] = R[i + 1]
      OBVIOUS
    <3>2. i \in Nat /\ i + 1 \in 1 .. Len(L) /\ i + 1 - 1 = i /\ i + 1 # 0 /\ i + 1 \in Nat
      BY <1>2, <3>1
    <3>3. Q[i] = R[i]
      BY <1>2, <3>1, <3>2
    <3>4. Q[i + 1] = Apply(Q[i + 1 - 1], M[i + 1]) /\ R[i + 1] = Apply(R[i + 1 - 1], L[i + 1])
      BY <1>4, <3>2
    <3> QED BY <1>2, <3>2, <3>3, <3>4
  <2>3. T \subseteq Nat
    OBVIOUS
  <2> HIDE DEF T
  <2>4. T = Nat
    BY <2>1, <2>2, <2>3, Induction
  <2> QED BY <1>2, <2>4 DEF T
<1>6. Q[Len(L) + 1] = Apply(R[Len(L)], e)
  <2>1. Len(L) + 1 \in Nat /\ Len(L) + 1 # 0 /\ Len(L) + 1 - 1 = Len(L) /\ Len(L) \in 0 .. Len(L)
    BY <1>2
  <2>2. Q[Len(L) + 1] = Apply(Q[Len(L) + 1 - 1], M[Len(L) + 1])
    BY <1>4, <2>1
  <2> QED BY <1>2, <1>5, <2>1, <2>2
<1> QED BY <1>1, <1>3, <1>5, <1>6

\* What an event makes of the presence of the one it is about.
Shown(type) ==
    CASE type = "MEMBER_JOINED"       -> "online"
      [] type = "MEMBER_LEFT"         -> "absent"
      [] type = "MEMBER_RECONNECTING" -> "reconnecting"
      [] type = "MEMBER_ONLINE"       -> "online"

LEMMA ApplyAt ==
    ASSUME NEW r \in Roster, NEW e \in Event, NEW x \in Member
    PROVE  Apply(r, e)[x] = IF e.type # "TEXT" /\ e.who = x THEN Shown(e.type) ELSE r[x]
<1>1. CASE e.type = "TEXT"
  BY <1>1 DEF Apply
<1>2. CASE e.type # "TEXT"
  BY <1>2 DEF Apply, Shown, Roster, Event
<1> QED BY <1>1, <1>2

-----------------------------------------------------------------------------
(* What a member is delivered: nothing is withheld and nothing is missing  *)
(* on a resumed stream.  Only the newest stream of a member can be intact, *)
(* and the frames on it, read in order, take the member from the last      *)
(* event it applied to where the host is.                                  *)

IsResync(f) == f.type = "RESYNC_REQUIRED"
Carries(f)  == f.type \in {"JOIN_ACCEPT", "ROOM_EVENT", "RESYNC_REQUIRED"}

\* Having read q, a member at event last has reached event k.
Reach(q, last, k) ==
    last >= k \/ \E i \in 1..Len(q) : Numbered(q[i]) /\ q[i].seq >= k

\* No event of q comes before the one that precedes it.
Chained(q, last) ==
    \A i \in 1..Len(q) : q[i].type = "ROOM_EVENT" =>
        \/ q[i].seq <= last + 1
        \/ \E j \in 1..(i - 1) : Numbered(q[j]) /\ q[j].seq >= q[i].seq - 1

\* q speaks of no more than n events.
Capped(q, n) == \A i \in 1..Len(q) : Carries(q[i]) => q[i].seq <= n

\* A resync leads nobody back: not from event last, and not from a number that
\* was sent before it, on the same stream or on an older one.
Forward(q, last) == \A i \in 1..Len(q) : IsResync(q[i]) => last <= q[i].seq
Rising(q) ==
    \A i \in 1..Len(q) : IsResync(q[i]) =>
        \A j \in 1..(i - 1) : Numbered(q[j]) => q[j].seq <= q[i].seq
Before(q, r) ==
    \A i \in 1..Len(r) : IsResync(r[i]) =>
        \A j \in 1..Len(q) : Numbered(q[j]) => q[j].seq <= r[i].seq

\* The streams of m: only the newest can be intact, and where m and the host are
\* with it.
Placed(m) ==
    /\ phase[m] = "out" <=> dials[m] = 0
    /\ status[m] = "out" <=> phase[m] = "out"
    /\ \A s \in Stream : s > dials[m] =>
          up[m][s] = <<>> /\ down[m][s] = <<>> /\ s \notin broken[m]
    /\ \A s \in Stream : s < dials[m] => s \in broken[m]
    /\ gconn[m] <= dials[m] /\ conn[m] <= dials[m] /\ resume[m].stream <= dials[m]
    /\ phase[m] \in {"joining", "member"} => gconn[m] = dials[m]
    /\ phase[m] = "joining" => dials[m] = 1
    /\ phase[m] \in {"recovering", "closed"} => dials[m] \in broken[m]
    /\ phase[m] \in {"waiting", "resubmitting"} => gconn[m] < dials[m]
    /\ status[m] = "online" <=> conn[m] # 0
    /\ resume[m] # NoResume => resume[m].stream # 0

\* What the frames under way say, compared with what m has applied.
Order(m) ==
    /\ lastSeq[m] <= Len(log)
    /\ phase[m] \in {"out", "joining"} => lastSeq[m] = 0
    /\ \A s \in Stream : Capped(down[m][s], Len(log)) /\ Rising(down[m][s])
    /\ \A s \in Stream : s >= gconn[m] => Forward(down[m][s], lastSeq[m])
    /\ \A s, t \in Stream : t < s => Before(down[m][t], down[m][s])
    /\ \A s \in Stream : s > 1 => Chained(down[m][s], lastSeq[m])
    /\ \A i \in 1..Len(down[m][1]) : ~IsResync(down[m][1][i])

\* What m asks for when it resumes, and never on its first stream.
Asked(m) ==
    /\ resume[m].stream # 1
    /\ \A s \in Stream : \A i \in 1..Len(up[m][s]) :
          up[m][s][i].type = "RESUME_REQUEST" => s > 1 /\ up[m][s][i].lastSeq <= lastSeq[m]

\* An intact stream leads to the end of the log, or to where its replay is.
Covered(m) ==
    /\ status[m] = "online" /\ conn[m] \notin broken[m]
          => Reach(down[m][conn[m]], lastSeq[m], Len(log))
    /\ resume[m] # NoResume /\ resume[m].stream \notin broken[m]
          => Reach(down[m][resume[m].stream], lastSeq[m], resume[m].cursor)

Flow(m) == Placed(m) /\ Order(m) /\ Asked(m) /\ Covered(m)

DeliveryInv == TypeOK /\ \A m \in Member : Flow(m)

-----------------------------------------------------------------------------
(* Queues *)

LEMMA NumberedType ==
    ASSUME NEW f \in HostFrame
    PROVE  /\ Carries(f) => f.seq \in Nat
           /\ Numbered(f) => Carries(f)
           /\ IsResync(f) => Numbered(f)
BY DEF HostFrame, Carries, Numbered, IsResync

\* An empty queue.
LEMMA EmptyFlow ==
    ASSUME NEW q \in Seq(HostFrame), NEW last \in Nat, NEW n \in Nat
    PROVE  /\ Chained(<<>>, last) /\ Capped(<<>>, n) /\ Forward(<<>>, last)
           /\ Rising(<<>>) /\ Before(<<>>, q) /\ Before(q, <<>>)
BY DEF Chained, Capped, Forward, Rising, Before

\* Writing a frame.
LEMMA AppendFlow ==
    ASSUME NEW q \in Seq(HostFrame), NEW f \in HostFrame, NEW last \in Nat, NEW n \in Nat
    PROVE  LET r == Append(q, f)
           IN  /\ r \in Seq(HostFrame)
               /\ Capped(q, n) /\ (Carries(f) => f.seq <= n) => Capped(r, n)
               /\ Forward(q, last) /\ (IsResync(f) => last <= f.seq) => Forward(r, last)
               /\ Rising(q) /\ (IsResync(f) => Capped(q, f.seq)) => Rising(r)
               /\ \A p \in Seq(HostFrame) :
                    Before(p, q) /\ (IsResync(f) => Capped(p, f.seq)) => Before(p, r)
               /\ Chained(q, last) /\ (f.type = "ROOM_EVENT" => Reach(q, last, f.seq - 1))
                    => Chained(r, last)
               /\ \A k \in Nat : Reach(q, last, k) => Reach(r, last, k)
               /\ \A k \in Nat : Numbered(f) /\ f.seq >= k => Reach(r, last, k)
<1> DEFINE r == Append(q, f)
<1>1. /\ r \in Seq(HostFrame) /\ Len(q) \in Nat /\ Len(r) = Len(q) + 1 /\ r[Len(r)] = f
      /\ \A i \in 1..Len(q) : r[i] = q[i] /\ q[i] \in HostFrame
  OBVIOUS
<1>2. \A g \in HostFrame : /\ Carries(g) => g.seq \in Nat
                           /\ Numbered(g) => Carries(g)
                           /\ IsResync(g) => Numbered(g)
  BY NumberedType
<1> HIDE DEF r
<1>3. Capped(q, n) /\ (Carries(f) => f.seq <= n) => Capped(r, n)
  BY <1>1 DEF Capped
<1>4. Forward(q, last) /\ (IsResync(f) => last <= f.seq) => Forward(r, last)
  BY <1>1 DEF Forward
<1>5. Rising(q) /\ (IsResync(f) => Capped(q, f.seq)) => Rising(r)
  BY <1>1, <1>2 DEF Rising, Capped
<1>6. \A p \in Seq(HostFrame) :
        Before(p, q) /\ (IsResync(f) => Capped(p, f.seq)) => Before(p, r)
  <2> SUFFICES ASSUME NEW p \in Seq(HostFrame), Before(p, q), IsResync(f) => Capped(p, f.seq),
                      NEW i \in 1..Len(r), IsResync(r[i]), NEW j \in 1..Len(p), Numbered(p[j])
               PROVE  p[j].seq <= r[i].seq
    BY DEF Before
  <2>1. p[j] \in HostFrame
    OBVIOUS
  <2>2. CASE i \in 1..Len(q)
    BY <1>1, <2>2 DEF Before
  <2>3. CASE i = Len(r)
    BY <1>1, <1>2, <2>1, <2>3 DEF Capped
  <2> QED BY <1>1, <2>2, <2>3
<1>7. Chained(q, last) /\ (f.type = "ROOM_EVENT" => Reach(q, last, f.seq - 1)) => Chained(r, last)
  <2> SUFFICES ASSUME Chained(q, last), f.type = "ROOM_EVENT" => Reach(q, last, f.seq - 1),
                      NEW i \in 1..Len(r), r[i].type = "ROOM_EVENT"
               PROVE  \/ r[i].seq <= last + 1
                      \/ \E j \in 1..(i - 1) : Numbered(r[j]) /\ r[j].seq >= r[i].seq - 1
    BY DEF Chained
  <2>1. CASE i \in 1..Len(q)
    BY <1>1, <2>1 DEF Chained
  <2>2. CASE i = Len(r)
    <3>1. f.seq \in Nat
      BY <1>1, <1>2, <2>2 DEF Carries
    <3>2. CASE last >= f.seq - 1
      BY <1>1, <2>2, <3>1, <3>2
    <3>3. ASSUME NEW j \in 1..Len(q), Numbered(q[j]), q[j].seq >= f.seq - 1
          PROVE  Numbered(r[j]) /\ r[j].seq >= r[i].seq - 1 /\ j \in 1..(i - 1)
      BY <1>1, <2>2, <3>3
    <3> QED BY <1>1, <2>2, <3>2, <3>3 DEF Reach
  <2> QED BY <1>1, <2>1, <2>2
<1>8. \A k \in Nat : Reach(q, last, k) => Reach(r, last, k)
  BY <1>1 DEF Reach
<1>9. \A k \in Nat : Numbered(f) /\ f.seq >= k => Reach(r, last, k)
  BY <1>1 DEF Reach
<1> QED BY <1>1, <1>3, <1>4, <1>5, <1>6, <1>7, <1>8, <1>9 DEF r

\* Having read the first frame of q, m is at event next.
Moves(q, last, next) ==
    /\ last <= next
    /\ Numbered(Head(q)) => Head(q).seq <= next
    /\ next = last \/ (Numbered(Head(q)) /\ next = Head(q).seq)

\* Reading a frame.
LEMMA ReadFlow ==
    ASSUME NEW q \in Seq(HostFrame), q # <<>>, NEW last \in Nat, NEW next \in Nat,
           NEW n \in Nat, Moves(q, last, next)
    PROVE  LET r == Tail(q)
           IN  /\ r \in Seq(HostFrame)
               /\ Capped(q, n) => Capped(r, n)
               /\ Rising(q) => Rising(r)
               /\ Rising(q) /\ Forward(q, last) => Forward(r, next)
               /\ Chained(q, last) => Chained(r, next)
               /\ \A k \in Nat : Reach(q, last, k) => Reach(r, next, k)
               /\ \A p \in Seq(HostFrame) : /\ Before(p, q) => Before(p, r)
                                            /\ Before(q, p) => Before(r, p)
<1> DEFINE r == Tail(q)
<1>1. /\ r \in Seq(HostFrame) /\ Len(q) \in Nat /\ Len(q) > 0 /\ Len(r) = Len(q) - 1
      /\ Head(q) = q[1]
      /\ \A i \in 1..Len(r) : r[i] = q[i + 1] /\ i + 1 \in 1..Len(q)
      /\ \A i \in 1..Len(q) : i # 1 => q[i] = r[i - 1] /\ i - 1 \in 1..Len(r)
      /\ \A i \in 1..Len(q) : q[i] \in HostFrame
  OBVIOUS
<1>2. \A g \in HostFrame : /\ Carries(g) => g.seq \in Nat
                           /\ Numbered(g) => Carries(g)
                           /\ IsResync(g) => Numbered(g)
  BY NumberedType
<1> HIDE DEF r
<1>3. Capped(q, n) => Capped(r, n)
  BY <1>1 DEF Capped
<1>4. Rising(q) => Rising(r)
  <2> SUFFICES ASSUME Rising(q), NEW i \in 1..Len(r), IsResync(r[i]),
                      NEW j \in 1..(i - 1), Numbered(r[j])
               PROVE  r[j].seq <= r[i].seq
    BY DEF Rising
  <2>1. i \in Nat /\ j \in Nat /\ j < i /\ j \in 1..Len(r)
    BY <1>1
  <2>2. r[i] = q[i + 1] /\ i + 1 \in 1..Len(q) /\ r[j] = q[j + 1]
    BY <1>1, <2>1
  <2>3. j + 1 \in 1..((i + 1) - 1)
    BY <2>1
  <2> QED BY <2>2, <2>3 DEF Rising
<1>5. Rising(q) /\ Forward(q, last) => Forward(r, next)
  <2> SUFFICES ASSUME Rising(q), Forward(q, last), NEW i \in 1..Len(r), IsResync(r[i])
               PROVE  next <= r[i].seq
    BY DEF Forward
  <2>1. r[i] = q[i + 1] /\ i + 1 \in 1..Len(q) /\ 1 \in 1..((i + 1) - 1)
    BY <1>1
  <2>2. CASE next = last
    BY <2>1, <2>2 DEF Forward
  <2>3. CASE Numbered(Head(q)) /\ next = Head(q).seq
    BY <1>1, <2>1, <2>3 DEF Rising
  <2> QED BY <2>2, <2>3 DEF Moves
<1>6. Chained(q, last) => Chained(r, next)
  <2> SUFFICES ASSUME Chained(q, last), NEW i \in 1..Len(r), r[i].type = "ROOM_EVENT"
               PROVE  \/ r[i].seq <= next + 1
                      \/ \E j \in 1..(i - 1) : Numbered(r[j]) /\ r[j].seq >= r[i].seq - 1
    BY DEF Chained
  <2>1. r[i] = q[i + 1] /\ i + 1 \in 1..Len(q) /\ r[i] \in HostFrame /\ r[i].seq \in Nat
    BY <1>1, <1>2 DEF Carries
  <2>2. CASE r[i].seq <= last + 1
    BY <2>1, <2>2 DEF Moves
  <2>3. ASSUME NEW j \in 1..((i + 1) - 1), Numbered(q[j]), q[j].seq >= r[i].seq - 1
        PROVE  \/ r[i].seq <= next + 1
               \/ \E l \in 1..(i - 1) : Numbered(r[l]) /\ r[l].seq >= r[i].seq - 1
    <3>1. CASE j = 1
      <4>1. Head(q).seq <= next /\ Head(q).seq >= r[i].seq - 1 /\ Head(q).seq \in Nat
        BY <1>1, <1>2, <2>3, <3>1 DEF Moves
      <4> QED BY <4>1, <2>1
    <3>2. CASE j # 1
      <4>1. j \in 1..Len(q) /\ q[j] = r[j - 1] /\ j - 1 \in 1..(i - 1)
        BY <1>1, <3>2
      <4> QED BY <4>1, <2>3
    <3> QED BY <3>1, <3>2
  <2> QED BY <2>1, <2>2, <2>3 DEF Chained
<1>7. \A k \in Nat : Reach(q, last, k) => Reach(r, next, k)
  <2> SUFFICES ASSUME NEW k \in Nat, Reach(q, last, k)
               PROVE  Reach(r, next, k)
    OBVIOUS
  <2>1. CASE last >= k
    BY <2>1 DEF Moves, Reach
  <2>2. ASSUME NEW i \in 1..Len(q), Numbered(q[i]), q[i].seq >= k
        PROVE  Reach(r, next, k)
    <3>1. CASE i = 1
      <4>1. Head(q).seq <= next /\ Head(q).seq >= k /\ Head(q).seq \in Nat
        BY <1>1, <1>2, <2>2, <3>1 DEF Moves
      <4> QED BY <4>1 DEF Reach
    <3>2. CASE i # 1
      BY <1>1, <2>2, <3>2 DEF Reach
    <3> QED BY <3>1, <3>2
  <2> QED BY <2>1, <2>2 DEF Reach
<1>8. ASSUME NEW p \in Seq(HostFrame)
      PROVE  (Before(p, q) => Before(p, r)) /\ (Before(q, p) => Before(r, p))
  BY <1>1 DEF Before
<1> QED BY <1>1, <1>3, <1>4, <1>5, <1>6, <1>7, <1>8 DEF r

\* The other streams, meanwhile.
LEMMA ElsewhereFlow ==
    ASSUME NEW q \in Seq(HostFrame), q # <<>>, NEW p \in Seq(HostFrame),
           NEW last \in Nat, NEW next \in Nat, Moves(q, last, next)
    PROVE  /\ Before(q, p) /\ Forward(p, last) => Forward(p, next)
           /\ Chained(p, last) => Chained(p, next)
           /\ \A k \in Nat : Reach(p, last, k) => Reach(p, next, k)
<1>1. /\ Len(q) \in Nat /\ Len(q) > 0 /\ Head(q) = q[1] /\ 1 \in 1..Len(q)
      /\ \A i \in 1..Len(p) : p[i] \in HostFrame
  OBVIOUS
<1>2. \A g \in HostFrame : /\ Carries(g) => g.seq \in Nat
                           /\ Numbered(g) => Carries(g)
                           /\ IsResync(g) => Numbered(g)
  BY NumberedType
<1>3. Before(q, p) /\ Forward(p, last) => Forward(p, next)
  BY <1>1 DEF Before, Forward, Moves
<1>4. Chained(p, last) => Chained(p, next)
  <2> SUFFICES ASSUME Chained(p, last), NEW i \in 1..Len(p), p[i].type = "ROOM_EVENT"
               PROVE  \/ p[i].seq <= next + 1
                      \/ \E j \in 1..(i - 1) : Numbered(p[j]) /\ p[j].seq >= p[i].seq - 1
    BY DEF Chained
  <2>1. p[i].seq \in Nat
    BY <1>1, <1>2 DEF Carries
  <2> QED BY <2>1 DEF Chained, Moves
<1>5. \A k \in Nat : Reach(p, last, k) => Reach(p, next, k)
  BY DEF Reach, Moves
<1> QED BY <1>3, <1>4, <1>5

\* A log that has grown.
LEMMA CapGrows ==
    ASSUME NEW q \in Seq(HostFrame), NEW n \in Nat, NEW k \in Nat, n <= k, Capped(q, n)
    PROVE  Capped(q, k)
<1>1. \A i \in 1..Len(q) : q[i] \in HostFrame
  OBVIOUS
<1> QED BY <1>1, NumberedType DEF Capped

-----------------------------------------------------------------------------
(* What a step does to one member *)

\* A frame for m on stream s: lost when the stream is not intact.
Sent(m, s, f) ==
    down'[m] = IF s = 0 \/ s \in broken[m] THEN down[m]
               ELSE [down[m] EXCEPT ![s] = Append(down[m][s], f)]

\* Nothing changes for m but what it is sent over the stream it is served on.
Bystander(m) ==
    /\ status'[m] = status[m] /\ conn'[m] = conn[m] /\ resume'[m] = resume[m]
    /\ phase'[m] = phase[m] /\ gconn'[m] = gconn[m] /\ dials'[m] = dials[m]
    /\ lastSeq'[m] = lastSeq[m] /\ up'[m] = up[m] /\ broken'[m] = broken[m]
    /\ \/ log' = log /\ down'[m] = down[m]
       \/ /\ Len(log') = Len(log) + 1
          /\ IF status[m] = "online" THEN Sent(m, conn[m], RoomEvent(Len(log) + 1))
                                     ELSE down'[m] = down[m]
       \/ /\ log' = log
          /\ status[m] = "online"
          /\ \E f \in HostFrame : ~Carries(f) /\ Sent(m, conn[m], f)

LEMMA RelayHere ==
    ASSUME TypeOK, NEW m \in Member, NEW f, NEW st, NEW cn, cn[m] \in Stream \cup {0}
    PROVE  Relay(f, st, cn)[m] =
             IF st[m] # "online" \/ cn[m] = 0 \/ cn[m] \in broken[m] THEN down[m]
             ELSE [down[m] EXCEPT ![cn[m]] = Append(down[m][cn[m]], f)]
<1>1. down[m] \in [Stream -> Seq(HostFrame)]
  BY DEF TypeOK, NetTypeOK
<1>2. Relay(f, st, cn)[m] = [s \in Stream |->
        IF st[m] = "online" /\ cn[m] = s /\ s \notin broken[m]
        THEN Append(down[m][s], f) ELSE down[m][s]]
  BY DEF Relay
<1>3. 0 \notin Stream
  BY DEF Stream
<1>4. CASE st[m] # "online" \/ cn[m] = 0 \/ cn[m] \in broken[m]
  <2>1. \A s \in Stream : Relay(f, st, cn)[m][s] = down[m][s]
    BY <1>2, <1>3, <1>4
  <2> QED BY <1>1, <1>2, <1>4, <2>1
<1>5. CASE ~(st[m] # "online" \/ cn[m] = 0 \/ cn[m] \in broken[m])
  BY <1>1, <1>2, <1>5
<1> QED BY <1>4, <1>5

\* The types of what belongs to m, now and after a step.
LEMMA MemberTypes ==
    ASSUME TypeOK, NEW m \in Member
    PROVE  /\ Len(log) \in Nat /\ lastSeq[m] \in Nat
           /\ conn[m] \in Nat /\ conn[m] \in Stream \cup {0}
           /\ gconn[m] \in Nat /\ gconn[m] \in Stream \cup {0}
           /\ dials[m] \in Nat /\ dials[m] \in Stream \cup {0}
           /\ resume[m].stream \in Nat /\ resume[m].stream \in Stream \cup {0}
           /\ resume[m].cursor \in Nat /\ resume[m].upto \in Nat
           /\ down[m] \in [Stream -> Seq(HostFrame)]
           /\ up[m] \in [Stream -> Seq(GuestFrame)]
           /\ broken[m] \subseteq Stream
<1>1. log \in Seq(Event) /\ conn[m] \in Stream \cup {0}
      /\ resume[m] \in [stream : Stream \cup {0}, cursor : Nat, upto : Nat]
  BY DEF TypeOK, HostTypeOK
<1>2. gconn[m] \in Stream \cup {0} /\ dials[m] \in Stream \cup {0} /\ lastSeq[m] \in Nat
  BY DEF TypeOK, GuestTypeOK
<1>3. /\ down[m] \in [Stream -> Seq(HostFrame)]
      /\ up[m] \in [Stream -> Seq(GuestFrame)]
      /\ broken[m] \subseteq Stream
  BY DEF TypeOK, NetTypeOK
<1>4. \A n \in Stream \cup {0} : n \in Nat
  BY DEF Stream
<1>5. Len(log) \in Nat /\ resume[m].stream \in Stream \cup {0}
      /\ resume[m].cursor \in Nat /\ resume[m].upto \in Nat
  BY <1>1
<1>6. conn[m] \in Nat /\ gconn[m] \in Nat /\ dials[m] \in Nat /\ resume[m].stream \in Nat
  BY <1>1, <1>2, <1>4, <1>5
<1> QED BY <1>1, <1>2, <1>3, <1>5, <1>6

LEMMA NextTypes ==
    ASSUME TypeOK', NEW m \in Member
    PROVE  /\ Len(log') \in Nat /\ lastSeq'[m] \in Nat
           /\ conn'[m] \in Nat /\ conn'[m] \in Stream \cup {0}
           /\ gconn'[m] \in Nat /\ gconn'[m] \in Stream \cup {0}
           /\ dials'[m] \in Nat /\ dials'[m] \in Stream \cup {0}
           /\ resume'[m].stream \in Nat /\ resume'[m].stream \in Stream \cup {0}
           /\ resume'[m].cursor \in Nat /\ resume'[m].upto \in Nat
           /\ down'[m] \in [Stream -> Seq(HostFrame)]
           /\ up'[m] \in [Stream -> Seq(GuestFrame)]
           /\ broken'[m] \subseteq Stream
<1>1. log' \in Seq(Event) /\ conn'[m] \in Stream \cup {0}
      /\ resume'[m] \in [stream : Stream \cup {0}, cursor : Nat, upto : Nat]
  BY DEF TypeOK, HostTypeOK
<1>2. gconn'[m] \in Stream \cup {0} /\ dials'[m] \in Stream \cup {0} /\ lastSeq'[m] \in Nat
  BY DEF TypeOK, GuestTypeOK
<1>3. /\ down'[m] \in [Stream -> Seq(HostFrame)]
      /\ up'[m] \in [Stream -> Seq(GuestFrame)]
      /\ broken'[m] \subseteq Stream
  BY DEF TypeOK, NetTypeOK
<1>4. \A n \in Stream \cup {0} : n \in Nat
  BY DEF Stream
<1>5. Len(log') \in Nat /\ resume'[m].stream \in Stream \cup {0}
      /\ resume'[m].cursor \in Nat /\ resume'[m].upto \in Nat
  BY <1>1
<1>6. conn'[m] \in Nat /\ gconn'[m] \in Nat /\ dials'[m] \in Nat /\ resume'[m].stream \in Nat
  BY <1>1, <1>2, <1>4, <1>5
<1> QED BY <1>1, <1>2, <1>3, <1>5, <1>6

\* Where the streams are, when m does not dial.
LEMMA PlacedKept ==
    ASSUME TypeOK, NEW m \in Member, Placed(m),
           dials'[m] = dials[m], gconn'[m] = gconn[m], broken[m] \subseteq broken'[m],
           \A s \in Stream : s > dials[m] =>
              up'[m][s] = <<>> /\ down'[m][s] = <<>> /\ s \notin broken'[m],
           conn'[m] <= dials[m], resume'[m].stream <= dials[m],
           status'[m] = "out" <=> status[m] = "out",
           status'[m] = "online" <=> conn'[m] # 0,
           resume'[m] # NoResume => resume'[m].stream # 0,
           \/ phase'[m] = phase[m]
           \/ phase[m] = "joining" /\ phase'[m] = "member"
           \/ phase[m] = "waiting" /\ phase'[m] = "resubmitting"
           \/ phase[m] # "out" /\ phase'[m] \in {"recovering", "closed"} /\ dials[m] \in broken'[m]
    PROVE  Placed(m)'
<1>1. \A s \in Stream : s < dials[m] => s \in broken'[m]
  BY DEF Placed
<1> QED BY <1>1 DEF Placed

\* The order of the frames, when m reads nothing: some queues are emptied.
LEMMA OrderQuiet ==
    ASSUME TypeOK, TypeOK', NEW m \in Member, Order(m),
           lastSeq'[m] = lastSeq[m], gconn'[m] >= gconn[m], Len(log') >= Len(log),
           phase'[m] \in {"out", "joining"} => phase[m] \in {"out", "joining"},
           \A s \in Stream : down'[m][s] \in {down[m][s], <<>>}
    PROVE  Order(m)'
<1>1. /\ lastSeq[m] \in Nat /\ Len(log) \in Nat /\ Len(log') \in Nat
      /\ gconn[m] \in Stream \cup {0} /\ gconn'[m] \in Stream \cup {0}
      /\ \A s \in Stream : down[m][s] \in Seq(HostFrame) /\ down'[m][s] \in Seq(HostFrame)
  BY DEF TypeOK, HostTypeOK, GuestTypeOK, NetTypeOK
<1>2. 1 \in Stream /\ Stream \subseteq Nat
  BY StreamOne DEF Stream
<1>3. lastSeq'[m] <= Len(log') /\ (phase'[m] \in {"out", "joining"} => lastSeq'[m] = 0)
  BY <1>1 DEF Order
<1>4. \A s \in Stream : Capped(down'[m][s], Len(log')) /\ Rising(down'[m][s])
  BY <1>1, EmptyFlow, CapGrows DEF Order
<1>5. ASSUME NEW s \in Stream, s >= gconn'[m]
      PROVE  Forward(down'[m][s], lastSeq'[m])
  <2>1. s >= gconn[m]
    <3>1. s \in Nat /\ gconn[m] \in Nat /\ gconn'[m] \in Nat
      BY <1>1 DEF Stream
    <3> QED BY <3>1, <1>5
  <2>2. Forward(down[m][s], lastSeq[m])
    BY <2>1 DEF Order
  <2>3. Forward(<<>>, lastSeq[m])
    BY <1>1, EmptyFlow
  <2> QED BY <2>2, <2>3
<1>6. \A s, t \in Stream : t < s => Before(down'[m][t], down'[m][s])
  BY <1>1, EmptyFlow DEF Order
<1>7. \A s \in Stream : s > 1 => Chained(down'[m][s], lastSeq'[m])
  BY <1>1, EmptyFlow DEF Order
<1>8. \A i \in 1..Len(down'[m][1]) : ~IsResync(down'[m][1][i])
  BY <1>1, <1>2 DEF Order
<1> QED BY <1>3, <1>4, <1>5, <1>6, <1>7, <1>8 DEF Order

\* The order of the frames, when m is sent one more.
LEMMA OrderSent ==
    ASSUME TypeOK, TypeOK', NEW m \in Member, Placed(m), Order(m),
           lastSeq'[m] = lastSeq[m], gconn'[m] = gconn[m], Len(log') >= Len(log),
           phase'[m] \in {"out", "joining"} => phase[m] \in {"out", "joining"},
           NEW s \in Stream \cup {0}, NEW f \in HostFrame, Sent(m, s, f), s <= dials[m],
           Carries(f) => f.seq <= Len(log'),
           f.type = "ROOM_EVENT" /\ s > 1 /\ s \notin broken[m]
             => Reach(down[m][s], lastSeq[m], f.seq - 1),
           IsResync(f) => s # 1 /\ f.seq = Len(log)
    PROVE  Order(m)'
<1>1. CASE s = 0 \/ s \in broken[m]
  <2>1. down'[m] = down[m]
    BY <1>1 DEF Sent
  <2>2. gconn[m] \in Stream \cup {0}
    BY DEF TypeOK, GuestTypeOK
  <2>3. gconn'[m] >= gconn[m]
    BY <2>2 DEF Stream
  <2> QED BY <2>1, <2>3, OrderQuiet
<1>2. CASE ~(s = 0 \/ s \in broken[m])
  <2> DEFINE r == Append(down[m][s], f)
  <2>1. /\ lastSeq[m] \in Nat /\ Len(log) \in Nat /\ Len(log') \in Nat
        /\ gconn[m] \in Stream \cup {0} /\ dials[m] \in Stream \cup {0} /\ s \in Stream
        /\ down[m] \in [Stream -> Seq(HostFrame)]
        /\ \A t \in Stream : down[m][t] \in Seq(HostFrame) /\ down'[m][t] \in Seq(HostFrame)
    BY <1>2 DEF TypeOK, HostTypeOK, GuestTypeOK, NetTypeOK
  <2>2. 1 \in Stream /\ Stream \subseteq Nat
    BY StreamOne DEF Stream
  <2>3. s = dials[m]
    BY <1>2, <2>1, <2>2 DEF Placed
  <2>4. down'[m][s] = r /\ \A t \in Stream \ {s} : down'[m][t] = down[m][t]
    BY <1>2, <2>1 DEF Sent
  <2>5. \A t \in Stream : t > s => down[m][t] = <<>>
    BY <2>3 DEF Placed
  <2>6. IsResync(f) => f.seq = Len(log) /\ lastSeq[m] <= Len(log)
                       /\ \A t \in Stream : Capped(down[m][t], Len(log))
    BY DEF Order
  <2>7. \A t \in Stream : Capped(down[m][t], Len(log'))
    BY <2>1, CapGrows DEF Order
  <2>8. /\ r \in Seq(HostFrame)
        /\ Capped(r, Len(log')) /\ Rising(r)
        /\ s >= gconn[m] => Forward(r, lastSeq[m])
        /\ s > 1 => Chained(r, lastSeq[m])
        /\ \A t \in Stream : t < s => Before(down[m][t], r)
    <3>1. Capped(down[m][s], Len(log')) /\ Rising(down[m][s])
          /\ (s >= gconn[m] => Forward(down[m][s], lastSeq[m]))
          /\ (s > 1 => Chained(down[m][s], lastSeq[m]))
          /\ \A t \in Stream : t < s => Before(down[m][t], down[m][s])
      BY <2>1, <2>7 DEF Order
    <3> HIDE DEF r
    <3> QED BY <1>2, <2>1, <2>6, <3>1, AppendFlow DEF r
  <2> HIDE DEF r
  <2>9. lastSeq'[m] <= Len(log') /\ (phase'[m] \in {"out", "joining"} => lastSeq'[m] = 0)
    BY <2>1 DEF Order
  <2>10. \A t \in Stream : Capped(down'[m][t], Len(log')) /\ Rising(down'[m][t])
    BY <2>4, <2>7, <2>8 DEF Order
  <2>11. \A t \in Stream : t >= gconn'[m] => Forward(down'[m][t], lastSeq'[m])
    BY <2>4, <2>8 DEF Order
  <2>12. \A t, u \in Stream : u < t => Before(down'[m][u], down'[m][t])
    <3> SUFFICES ASSUME NEW t \in Stream, NEW u \in Stream, u < t
                 PROVE  Before(down'[m][u], down'[m][t])
      OBVIOUS
    <3>1. CASE u # s /\ t # s
      BY <2>4, <3>1 DEF Order
    <3>2. CASE t = s
      BY <2>2, <2>4, <2>8, <3>2
    <3>3. CASE u = s
      BY <2>1, <2>2, <2>4, <2>5, <2>8, <3>3, EmptyFlow
    <3> QED BY <3>1, <3>2, <3>3
  <2>13. \A t \in Stream : t > 1 => Chained(down'[m][t], lastSeq'[m])
    BY <2>4, <2>8 DEF Order
  <2>14. \A i \in 1..Len(down'[m][1]) : ~IsResync(down'[m][1][i])
    <3>1. CASE s # 1
      BY <2>2, <2>4, <3>1 DEF Order
    <3>2. CASE s = 1
      <4>1. ~IsResync(f) /\ \A i \in 1..Len(down[m][1]) : ~IsResync(down[m][1][i])
        BY <3>2 DEF Order
      <4>2. down[m][1] \in Seq(HostFrame) /\ down'[m][1] = Append(down[m][1], f)
        BY <2>1, <2>4, <3>2 DEF r
      <4> QED BY <4>1, <4>2
    <3> QED BY <3>1, <3>2
  <2> QED BY <2>9, <2>10, <2>11, <2>12, <2>13, <2>14 DEF Order
<1> QED BY <1>1, <1>2

\* The order of the frames, when m has read one.
LEMMA OrderRead ==
    ASSUME TypeOK, TypeOK', NEW m \in Member, Order(m), NEW g \in Stream,
           g = gconn'[m], gconn'[m] >= gconn[m], log' = log, down[m][g] # <<>>,
           phase'[m] \in {"out", "joining"} => lastSeq'[m] = 0,
           lastSeq'[m] <= Len(log), Moves(down[m][g], lastSeq[m], lastSeq'[m]),
           down'[m] = [down[m] EXCEPT ![g] = Tail(down[m][g])]
    PROVE  Order(m)'
<1> DEFINE q == down[m][g]
           r == Tail(q)
<1>1. /\ lastSeq[m] \in Nat /\ Len(log) \in Nat /\ lastSeq'[m] \in Nat
      /\ down[m] \in [Stream -> Seq(HostFrame)] /\ q \in Seq(HostFrame)
      /\ \A t \in Stream : down[m][t] \in Seq(HostFrame) /\ down'[m][t] \in Seq(HostFrame)
  BY DEF TypeOK, HostTypeOK, GuestTypeOK, NetTypeOK
<1>2. 1 \in Stream /\ Stream \subseteq Nat
  BY StreamOne DEF Stream
<1>3. down'[m][g] = r /\ \A t \in Stream \ {g} : down'[m][t] = down[m][t]
  BY <1>1
<1>4. /\ Capped(q, Len(log)) /\ Rising(q) /\ Forward(q, lastSeq[m])
      /\ g > 1 => Chained(q, lastSeq[m])
  BY <1>2 DEF Order
<1>5. /\ r \in Seq(HostFrame) /\ Capped(r, Len(log)) /\ Rising(r) /\ Forward(r, lastSeq'[m])
      /\ g > 1 => Chained(r, lastSeq'[m])
      /\ \A p \in Seq(HostFrame) : (Before(p, q) => Before(p, r)) /\ (Before(q, p) => Before(r, p))
  <2> HIDE DEF q
  <2> QED BY <1>1, <1>4, ReadFlow DEF q
<1>6. \A p \in Seq(HostFrame) :
        /\ Before(q, p) /\ Forward(p, lastSeq[m]) => Forward(p, lastSeq'[m])
        /\ Chained(p, lastSeq[m]) => Chained(p, lastSeq'[m])
  BY <1>1, ElsewhereFlow
<1> HIDE DEF r
<1>7. \A t \in Stream : Capped(down'[m][t], Len(log')) /\ Rising(down'[m][t])
  BY <1>3, <1>5 DEF Order
<1>8. \A t \in Stream : t >= gconn'[m] => Forward(down'[m][t], lastSeq'[m])
  <2> SUFFICES ASSUME NEW t \in Stream, t >= g, t # g
               PROVE  Forward(down[m][t], lastSeq'[m])
    BY <1>3, <1>5
  <2>1. g < t /\ t >= gconn[m]
    <3>1. gconn[m] \in Nat /\ t \in Nat /\ g \in Nat
      BY <1>2, MemberTypes
    <3> QED BY <3>1
  <2>2. Before(q, down[m][t]) /\ Forward(down[m][t], lastSeq[m])
    BY <2>1 DEF Order
  <2> QED BY <1>1, <1>6, <2>2
<1>9. \A t, u \in Stream : u < t => Before(down'[m][u], down'[m][t])
  <2> SUFFICES ASSUME NEW t \in Stream, NEW u \in Stream, u < t
               PROVE  Before(down'[m][u], down'[m][t])
    OBVIOUS
  <2>1. u # t /\ Before(down[m][u], down[m][t])
    BY <1>2 DEF Order
  <2> QED BY <1>1, <1>3, <1>5, <2>1
<1>10. \A t \in Stream : t > 1 => Chained(down'[m][t], lastSeq'[m])
  <2> SUFFICES ASSUME NEW t \in Stream, t > 1
               PROVE  Chained(down'[m][t], lastSeq'[m])
    OBVIOUS
  <2>1. Chained(down[m][t], lastSeq[m])
    BY DEF Order
  <2> QED BY <1>1, <1>3, <1>5, <1>6, <2>1
<1>11. \A i \in 1..Len(down'[m][1]) : ~IsResync(down'[m][1][i])
  <2>1. CASE g # 1
    BY <1>2, <1>3, <2>1 DEF Order
  <2>2. CASE g = 1
    <3>1. q \in Seq(HostFrame) /\ q # <<>> /\ \A i \in 1..Len(q) : ~IsResync(q[i])
      BY <1>1, <2>2 DEF Order
    <3>2. \A i \in 1..Len(r) : ~IsResync(r[i])
      <4> HIDE DEF q
      <4> QED BY <3>1 DEF r
    <3> QED BY <1>3, <2>2, <3>2
  <2> QED BY <2>1, <2>2
<1>12. lastSeq'[m] <= Len(log')
  OBVIOUS
<1> QED BY <1>7, <1>8, <1>9, <1>10, <1>11, <1>12 DEF Order

\* What is covered, when the end is the same and nothing relevant is lost.
LEMMA CoveredQuiet ==
    ASSUME TypeOK, TypeOK', NEW m \in Member, Covered(m),
           lastSeq'[m] = lastSeq[m],
           status'[m] = "online" /\ conn'[m] \notin broken'[m] =>
              /\ status[m] = "online" /\ conn'[m] = conn[m] /\ conn[m] \notin broken[m]
              /\ Len(log') = Len(log) /\ down'[m][conn[m]] = down[m][conn[m]],
           resume'[m] # NoResume /\ resume'[m].stream \notin broken'[m] =>
              /\ resume'[m] = resume[m] /\ resume[m].stream \notin broken[m]
              /\ down'[m][resume[m].stream] = down[m][resume[m].stream]
    PROVE  Covered(m)'
BY DEF Covered

\* A queue to the host: read, emptied, or with another frame, that asks nothing.
Repeats(r, q) ==
    \A i \in 1..Len(r) : r[i].type = "RESUME_REQUEST" => \E j \in 1..Len(q) : q[j] = r[i]

LEMMA Requests ==
    ASSUME NEW q \in Seq(GuestFrame)
    PROVE  /\ Repeats(q, q) /\ Repeats(<<>>, q)
           /\ q # <<>> => Repeats(Tail(q), q)
           /\ \A f \in GuestFrame : f.type # "RESUME_REQUEST" => Repeats(Append(q, f), q)
<1>1. \A f \in GuestFrame : \A i \in 1..Len(Append(q, f)) :
        f.type # "RESUME_REQUEST" /\ Append(q, f)[i].type = "RESUME_REQUEST" =>
          i \in 1..Len(q) /\ q[i] = Append(q, f)[i]
  OBVIOUS
<1>2. q # <<>> => \A i \in 1..Len(Tail(q)) : i + 1 \in 1..Len(q) /\ q[i + 1] = Tail(q)[i]
  OBVIOUS
<1>3. Repeats(q, q) /\ Repeats(<<>>, q)
  BY DEF Repeats
<1>4. q # <<>> => Repeats(Tail(q), q)
  BY <1>2 DEF Repeats
<1>5. \A f \in GuestFrame : f.type # "RESUME_REQUEST" => Repeats(Append(q, f), q)
  BY <1>1 DEF Repeats
<1> QED BY <1>3, <1>4, <1>5

\* Requests under way, when none is added.
LEMMA AskedQuiet ==
    ASSUME NEW m \in Member, Asked(m), TypeOK, TypeOK', lastSeq'[m] >= lastSeq[m],
           resume'[m].stream # 1,
           \A s \in Stream : Repeats(up'[m][s], up[m][s])
    PROVE  Asked(m)'
<1> SUFFICES ASSUME NEW s \in Stream, NEW i \in 1..Len(up'[m][s]),
                    up'[m][s][i].type = "RESUME_REQUEST"
             PROVE  s > 1 /\ up'[m][s][i].lastSeq <= lastSeq'[m]
  BY DEF Asked
<1>1. PICK j \in 1..Len(up[m][s]) : up[m][s][j] = up'[m][s][i]
  BY DEF Repeats
<1>2. up[m][s] \in Seq(GuestFrame) /\ lastSeq[m] \in Nat /\ lastSeq'[m] \in Nat
  BY DEF TypeOK, GuestTypeOK, NetTypeOK
<1>3. up[m][s][j] \in GuestFrame
  BY <1>2
<1>4. up[m][s][j].lastSeq \in Nat /\ up[m][s][j].lastSeq <= lastSeq[m] /\ s > 1
  BY <1>1, <1>3, GuestFields DEF Asked
<1> QED BY <1>1, <1>2, <1>4

\* What is covered, when m is sent a frame.
LEMMA CoveredSent ==
    ASSUME TypeOK, TypeOK', NEW m \in Member, Placed(m)', lastSeq'[m] = lastSeq[m],
           NEW s \in Stream \cup {0}, NEW f \in HostFrame, Sent(m, s, f),
           broken[m] \subseteq broken'[m],
           status'[m] = "online" /\ conn'[m] \notin broken'[m] =>
              \/ Reach(down[m][conn'[m]], lastSeq[m], Len(log'))
              \/ s = conn'[m] /\ Numbered(f) /\ f.seq >= Len(log'),
           resume'[m] # NoResume /\ resume'[m].stream \notin broken'[m] =>
              \/ Reach(down[m][resume'[m].stream], lastSeq[m], resume'[m].cursor)
              \/ s = resume'[m].stream /\ Numbered(f) /\ f.seq >= resume'[m].cursor
    PROVE  Covered(m)'
<1>1. /\ lastSeq[m] \in Nat /\ Len(log') \in Nat /\ down[m] \in [Stream -> Seq(HostFrame)]
      /\ resume'[m].cursor \in Nat /\ conn'[m] \in Stream \cup {0}
      /\ resume'[m].stream \in Stream \cup {0}
  BY MemberTypes, NextTypes
<1>2. ASSUME NEW t \in Stream, t \notin broken'[m], NEW k \in Nat,
             \/ Reach(down[m][t], lastSeq[m], k)
             \/ s = t /\ Numbered(f) /\ f.seq >= k
      PROVE  Reach(down'[m][t], lastSeq[m], k)
  <2>1. CASE s = t
    <3>1. down'[m][t] = Append(down[m][t], f)
      <4>1. s # 0 /\ s \notin broken[m]
        BY <1>2, <2>1 DEF Stream
      <4> QED BY <1>1, <2>1, <4>1 DEF Sent
    <3>2. down[m][t] \in Seq(HostFrame)
      BY <1>1
    <3> QED BY <1>1, <1>2, <3>1, <3>2, AppendFlow
  <2>2. CASE s # t
    <3>1. down'[m][t] = down[m][t]
      BY <1>1, <2>2 DEF Sent
    <3> QED BY <1>2, <2>2, <3>1
  <2> QED BY <2>1, <2>2
<1>3. ASSUME status'[m] = "online", conn'[m] \notin broken'[m]
      PROVE  Reach(down'[m][conn'[m]], lastSeq'[m], Len(log'))
  <2>1. conn'[m] \in Stream
    BY <1>1, <1>3 DEF Placed
  <2> QED BY <1>1, <1>2, <1>3, <2>1
<1>4. ASSUME resume'[m] # NoResume, resume'[m].stream \notin broken'[m]
      PROVE  Reach(down'[m][resume'[m].stream], lastSeq'[m], resume'[m].cursor)
  <2>1. resume'[m].stream \in Stream
    BY <1>1, <1>4 DEF Placed
  <2> QED BY <1>1, <1>2, <1>4, <2>1
<1> QED BY <1>3, <1>4 DEF Covered

\* Who is only sent what everybody is sent keeps up.
LEMMA BystanderFlow ==
    ASSUME TypeOK, TypeOK', NEW m \in Member, Flow(m), Bystander(m)
    PROVE  Flow(m)'
<1> USE DEF Flow
<1>1. /\ Len(log) \in Nat /\ lastSeq[m] \in Nat /\ down[m] \in [Stream -> Seq(HostFrame)]
      /\ conn[m] \in Stream \cup {0} /\ gconn[m] \in Stream \cup {0}
      /\ dials[m] \in Stream \cup {0} /\ up[m] \in [Stream -> Seq(GuestFrame)]
      /\ gconn[m] \in Nat
      /\ \A s \in Stream \cup {0} : s \in Nat
  BY MemberTypes DEF Stream
<1>2. conn[m] <= dials[m]
  BY DEF Placed
<1>3. /\ lastSeq'[m] = lastSeq[m] /\ gconn'[m] = gconn[m] /\ gconn'[m] >= gconn[m]
      /\ phase'[m] = phase[m] /\ Len(log') >= Len(log) /\ conn'[m] = conn[m]
      /\ status'[m] = status[m] /\ resume'[m] = resume[m] /\ broken'[m] = broken[m]
  BY <1>1 DEF Bystander
<1>4. ASSUME NEW f, Sent(m, conn[m], f)
      PROVE  \A s \in Stream : s > dials[m] => down'[m][s] = down[m][s]
  <2>1. \A s \in Stream : s > dials[m] => s # conn[m]
    <3>1. conn[m] \in Nat /\ dials[m] \in Nat
      BY <1>1
    <3> QED BY <1>1, <1>2, <3>1
  <2> QED BY <1>1, <1>4, <2>1 DEF Sent
<1>5. \A s \in Stream : s > dials[m] => down'[m][s] = down[m][s]
  BY <1>4 DEF Bystander
<1>6. Placed(m)'
  BY <1>5, PlacedKept DEF Placed, Bystander
<1>7. Asked(m)'
  <2>1. \A s \in Stream : Repeats(up'[m][s], up[m][s])
    BY <1>1, Requests DEF Bystander
  <2> QED BY <1>1, <2>1, AskedQuiet DEF Asked, Bystander
<1>8. CASE log' = log /\ down'[m] = down[m]
  <2>1. Order(m)'
    BY <1>3, <1>8, OrderQuiet
  <2>2. Covered(m)'
    BY <1>3, <1>8, CoveredQuiet
  <2> QED BY <1>6, <1>7, <2>1, <2>2
<1>9. CASE /\ Len(log') = Len(log) + 1
           /\ IF status[m] = "online" THEN Sent(m, conn[m], RoomEvent(Len(log) + 1))
                                      ELSE down'[m] = down[m]
  <2> DEFINE f == RoomEvent(Len(log) + 1)
  <2>1. f \in HostFrame /\ f.type = "ROOM_EVENT" /\ f.seq = Len(log) + 1
        /\ Numbered(f) /\ ~IsResync(f)
    BY <1>1 DEF RoomEvent, HostFrame, Numbered, IsResync
  <2> HIDE DEF f
  <2>2. CASE status[m] # "online"
    <3>1. Order(m)'
      BY <1>3, <1>9, <2>2, OrderQuiet
    <3>2. Covered(m)'
      BY <1>3, <1>9, <2>2, CoveredQuiet
    <3> QED BY <1>6, <1>7, <3>1, <3>2
  <2>3. CASE status[m] = "online"
    <3>1. Sent(m, conn[m], f)
      BY <1>9, <2>3 DEF f
    <3>2. conn[m] \notin broken[m] => Reach(down[m][conn[m]], lastSeq[m], f.seq - 1)
      BY <1>1, <2>1, <2>3 DEF Covered
    <3>3. Order(m)'
      <4>1. Carries(f) => f.seq <= Len(log')
        BY <1>1, <1>9, <2>1
      <4> QED BY <1>3, <1>1, <1>2, <2>1, <3>1, <3>2, <4>1, OrderSent
    <3>4. Covered(m)'
      <4>1. f.seq >= Len(log')
        BY <1>1, <1>9, <2>1
      <4> QED BY <1>3, <1>1, <1>6, <2>1, <2>3, <3>1, <4>1, CoveredSent DEF Covered
    <3> QED BY <1>6, <1>7, <3>3, <3>4
  <2> QED BY <2>2, <2>3
<1>10. CASE /\ log' = log
           /\ status[m] = "online"
           /\ \E f \in HostFrame : ~Carries(f) /\ Sent(m, conn[m], f)
  <2>1. PICK f \in HostFrame : ~Carries(f) /\ Sent(m, conn[m], f)
    BY <1>10
  <2>2. ~IsResync(f) /\ f.type # "ROOM_EVENT"
    BY <2>1 DEF Carries, IsResync
  <2>3. Order(m)'
    BY <1>3, <1>1, <1>2, <2>1, <2>2, OrderSent
  <2>4. Covered(m)'
    BY <1>3, <1>1, <1>6, <1>10, <2>1, CoveredSent DEF Covered
  <2> QED BY <1>6, <1>7, <2>3, <2>4
<1> QED BY <1>8, <1>9, <1>10 DEF Bystander

\* Steps that give up streams or the place of m, and send m nothing.
LEMMA QuietFlow ==
    ASSUME TypeOK, TypeOK', NEW m \in Member, Flow(m),
           dials'[m] = dials[m], gconn'[m] = gconn[m], lastSeq'[m] = lastSeq[m],
           Len(log') >= Len(log), broken[m] \subseteq broken'[m],
           \A s \in Stream : s > dials[m] => up'[m][s] = <<>> /\ s \notin broken'[m],
           \A s \in Stream : Repeats(up'[m][s], up[m][s]),
           \A s \in Stream : \/ down'[m][s] = down[m][s]
                             \/ down'[m][s] = <<>> /\ s \in broken'[m],
           \/ status'[m] = status[m] /\ conn'[m] = conn[m] /\ log' = log
           \/ status'[m] \notin {"out", "online"} /\ conn'[m] = 0 /\ status[m] # "out",
           resume'[m] \in {resume[m], NoResume},
           \/ phase'[m] = phase[m]
           \/ phase[m] = "waiting" /\ phase'[m] = "resubmitting"
           \/ phase[m] # "out" /\ phase'[m] \in {"recovering", "closed"} /\ dials[m] \in broken'[m]
    PROVE  Flow(m)'
<1> USE DEF Flow
<1>1. /\ dials[m] \in Nat /\ conn[m] \in Nat /\ gconn[m] \in Nat
      /\ conn[m] \in Stream \cup {0} /\ resume[m].stream \in Stream \cup {0}
      /\ lastSeq[m] \in Nat /\ \A s \in Stream : s \in Nat
  BY MemberTypes DEF Stream
<1>2. NoResume.stream = 0
  BY DEF NoResume
<1>3. conn'[m] <= dials[m] /\ resume'[m].stream <= dials[m] /\ resume'[m].stream # 1
      /\ (resume'[m] # NoResume => resume'[m].stream # 0)
  BY <1>1, <1>2 DEF Placed, Asked
<1>4. \A s \in Stream : s > dials[m] =>
         up'[m][s] = <<>> /\ down'[m][s] = <<>> /\ s \notin broken'[m]
  BY DEF Placed
<1>5. (status'[m] = "out" <=> status[m] = "out") /\ (status'[m] = "online" <=> conn'[m] # 0)
  BY DEF Placed
<1>6. Placed(m)'
  BY <1>3, <1>4, <1>5, PlacedKept
<1>7. Order(m)'
  <2>1. gconn'[m] >= gconn[m]
    BY <1>1
  <2>2. phase'[m] \in {"out", "joining"} => phase[m] \in {"out", "joining"}
    OBVIOUS
  <2>3. \A s \in Stream : down'[m][s] \in {down[m][s], <<>>}
    OBVIOUS
  <2> QED BY <2>1, <2>2, <2>3, OrderQuiet
<1>8. Asked(m)'
  BY <1>1, <1>3, AskedQuiet
<1>9. Covered(m)'
  <2>1. ASSUME status'[m] = "online", conn'[m] \notin broken'[m]
        PROVE  /\ status[m] = "online" /\ conn'[m] = conn[m] /\ conn[m] \notin broken[m]
               /\ Len(log') = Len(log) /\ down'[m][conn[m]] = down[m][conn[m]]
    <3>1. status[m] = "online" /\ conn'[m] = conn[m] /\ log' = log
      BY <2>1
    <3>2. conn[m] \in Stream
      BY <1>1, <3>1 DEF Placed
    <3> QED BY <2>1, <3>1, <3>2
  <2>2. ASSUME resume'[m] # NoResume, resume'[m].stream \notin broken'[m]
        PROVE  /\ resume'[m] = resume[m] /\ resume[m].stream \notin broken[m]
               /\ down'[m][resume[m].stream] = down[m][resume[m].stream]
    <3>1. resume'[m] = resume[m]
      BY <2>2
    <3>2. resume[m].stream \in Stream
      BY <1>1, <1>3, <2>2, <3>1
    <3> QED BY <2>2, <3>1, <3>2
  <2> QED BY <2>1, <2>2, CoveredQuiet
<1> QED BY <1>6, <1>7, <1>8, <1>9

\* Steps that send m a frame.
LEMMA SentFlow ==
    ASSUME TypeOK, TypeOK', NEW m \in Member, Flow(m),
           dials'[m] = dials[m], gconn'[m] = gconn[m], lastSeq'[m] = lastSeq[m],
           phase'[m] = phase[m], Len(log') >= Len(log), broken[m] \subseteq broken'[m],
           \A s \in Stream : s > dials[m] => up'[m][s] = <<>> /\ s \notin broken'[m],
           \A s \in Stream : Repeats(up'[m][s], up[m][s]),
           status'[m] = "out" <=> status[m] = "out",
           status'[m] = "online" <=> conn'[m] # 0,
           conn'[m] <= dials[m], resume'[m].stream <= dials[m], resume'[m].stream # 1,
           resume'[m] # NoResume => resume'[m].stream # 0,
           NEW s \in Stream \cup {0}, NEW f \in HostFrame, Sent(m, s, f), s <= dials[m],
           Carries(f) => f.seq <= Len(log'),
           f.type = "ROOM_EVENT" /\ s > 1 /\ s \notin broken[m]
             => Reach(down[m][s], lastSeq[m], f.seq - 1),
           IsResync(f) => s # 1 /\ f.seq = Len(log),
           status'[m] = "online" /\ conn'[m] \notin broken'[m] =>
              \/ Reach(down[m][conn'[m]], lastSeq[m], Len(log'))
              \/ s = conn'[m] /\ Numbered(f) /\ f.seq >= Len(log'),
           resume'[m] # NoResume /\ resume'[m].stream \notin broken'[m] =>
              \/ Reach(down[m][resume'[m].stream], lastSeq[m], resume'[m].cursor)
              \/ s = resume'[m].stream /\ Numbered(f) /\ f.seq >= resume'[m].cursor
    PROVE  Flow(m)'
<1> USE DEF Flow
<1>1. /\ dials[m] \in Nat /\ gconn[m] \in Nat /\ lastSeq[m] \in Nat
      /\ down[m] \in [Stream -> Seq(HostFrame)] /\ s \in Nat
      /\ \A t \in Stream : t \in Nat
  BY MemberTypes DEF Stream
<1>2. \A t \in Stream : t > dials[m] => down'[m][t] = <<>>
  <2>1. \A t \in Stream : t > dials[m] => t # s /\ down[m][t] = <<>>
    BY <1>1 DEF Placed
  <2> QED BY <1>1, <2>1 DEF Sent
<1>3. Placed(m)'
  BY <1>2, PlacedKept
<1>4. Order(m)'
  BY OrderSent
<1>5. Asked(m)'
  BY <1>1, AskedQuiet
<1>6. Covered(m)'
  BY <1>3, CoveredSent
<1> QED BY <1>3, <1>4, <1>5, <1>6

-----------------------------------------------------------------------------
(* Steps that send nothing *)

\* Nothing at all changes for x.
Idle(x) ==
    /\ status'[x] = status[x] /\ resume'[x] = resume[x] /\ phase'[x] = phase[x]
    /\ up'[x] = up[x] /\ down'[x] = down[x] /\ broken'[x] = broken[x]

LEMMA StillFlow ==
    ASSUME DeliveryInv, TypeOK', NEW m \in Member, \A x \in Member \ {m} : Idle(x),
           log' = log, conn' = conn, dials' = dials, gconn' = gconn, lastSeq' = lastSeq,
           broken[m] \subseteq broken'[m],
           \A s \in Stream : s > dials[m] => up'[m][s] = <<>> /\ s \notin broken'[m],
           \A s \in Stream : Repeats(up'[m][s], up[m][s]),
           \A s \in Stream : \/ down'[m][s] = down[m][s]
                             \/ down'[m][s] = <<>> /\ s \in broken'[m],
           status'[m] = status[m] \/ (status[m] = "committing" /\ status'[m] = "gone"),
           resume'[m] \in {resume[m], NoResume},
           \/ phase'[m] = phase[m]
           \/ phase[m] = "waiting" /\ phase'[m] = "resubmitting"
           \/ phase[m] # "out" /\ phase'[m] \in {"recovering", "closed"} /\ dials[m] \in broken'[m]
    PROVE  \A x \in Member : Flow(x)'
<1>1. \A x \in Member \ {m} : Bystander(x)
  BY DEF Bystander, Idle
<1>2. Len(log') >= Len(log)
  BY MemberTypes DEF DeliveryInv
<1>3. \/ status'[m] = status[m] /\ conn'[m] = conn[m] /\ log' = log
      \/ status'[m] \notin {"out", "online"} /\ conn'[m] = 0 /\ status[m] # "out"
  BY DEF DeliveryInv, Flow, Placed
<1>4. Flow(m)'
  BY <1>2, <1>3, QuietFlow DEF DeliveryInv
<1> QED BY <1>1, <1>4, BystanderFlow DEF DeliveryInv

\* The streams that m has not opened.
LEMMA NotOpened ==
    ASSUME DeliveryInv, NEW m \in Member
    PROVE  \A s \in Stream : s > dials[m] =>
             up[m][s] = <<>> /\ down[m][s] = <<>> /\ s \notin broken[m]
BY DEF DeliveryInv, Flow, Placed

LEMMA Unasked ==
    ASSUME TypeOK, NEW m \in Member
    PROVE  \A s \in Stream : Repeats(up[m][s], up[m][s]) /\ Repeats(<<>>, up[m][s])
BY MemberTypes, Requests

\* A frame for the host that does not ask to resume.
LEMMA PushUnasked ==
    ASSUME DeliveryInv, NEW m \in Member, NEW s \in Stream \cup {0}, s <= dials[m],
           NEW f \in GuestFrame, f.type # "RESUME_REQUEST", up' = Push(up, m, s, f)
    PROVE  /\ \A x \in Member \ {m} : up'[x] = up[x]
           /\ \A t \in Stream : t > dials[m] => up'[m][t] = <<>>
           /\ \A t \in Stream : Repeats(up'[m][t], up[m][t])
<1>1. up \in [Member -> [Stream -> Seq(GuestFrame)]] /\ up[m] \in [Stream -> Seq(GuestFrame)]
  BY DEF DeliveryInv, TypeOK, NetTypeOK
<1>2. CASE s = 0 \/ s \in broken[m]
  BY <1>2, NotOpened, Unasked DEF Push, DeliveryInv
<1>3. CASE ~(s = 0 \/ s \in broken[m])
  <2>1. /\ \A x \in Member \ {m} : up'[x] = up[x]
        /\ \A t \in Stream \ {s} : up'[m][t] = up[m][t]
        /\ up'[m][s] = Append(up[m][s], f) /\ s \in Stream
    BY <1>1, <1>3 DEF Push
  <2>2. \A t \in Stream : t > dials[m] => t # s
    BY MemberTypes DEF Stream, DeliveryInv
  <2>3. Repeats(Append(up[m][s], f), up[m][s])
    BY <1>1, <2>1, Requests
  <2> QED BY <2>1, <2>2, <2>3, NotOpened, Unasked DEF DeliveryInv
<1> QED BY <1>2, <1>3

LEMMA BreakFlow ==
    ASSUME DeliveryInv, TypeOK', NEW m \in Member, NEW s \in Stream, Break(m, s)
    PROVE  \A x \in Member : Flow(x)'
<1> USE DEF DeliveryInv
<1>1. \A x \in Member \ {m} : Idle(x)
  BY DEF Break, Idle, hostVars, guestVars, TypeOK, NetTypeOK
<1>2. /\ broken'[m] = broken[m] \cup {s} /\ up' = up /\ down' = down /\ s <= dials[m]
      /\ log' = log /\ conn' = conn /\ dials' = dials /\ gconn' = gconn /\ lastSeq' = lastSeq
      /\ status' = status /\ resume' = resume /\ phase' = phase
  BY DEF Break, hostVars, guestVars, TypeOK, NetTypeOK
<1>3. \A t \in Stream : t > dials[m] => t # s
  BY <1>2, MemberTypes DEF Stream
<1> QED BY <1>1, <1>2, <1>3, NotOpened, Unasked, StillFlow

LEMMA DropFlow ==
    ASSUME DeliveryInv, TypeOK', NEW m \in Member, NEW s \in Stream, Drop(m, s)
    PROVE  \A x \in Member : Flow(x)'
<1> USE DEF DeliveryInv
<1>1. \A x \in Member \ {m} : Idle(x)
  BY DEF Drop, Idle, hostVars, guestVars, TypeOK, NetTypeOK
<1>2. /\ broken' = broken /\ s \in broken[m]
      /\ log' = log /\ conn' = conn /\ dials' = dials /\ gconn' = gconn /\ lastSeq' = lastSeq
      /\ status' = status /\ resume' = resume /\ phase' = phase
      /\ \A t \in Stream : t # s => up'[m][t] = up[m][t] /\ down'[m][t] = down[m][t]
      /\ up'[m][s] \in {up[m][s], <<>>} /\ down'[m][s] \in {down[m][s], <<>>}
  BY DEF Drop, hostVars, guestVars, TypeOK, NetTypeOK
<1> QED BY <1>1, <1>2, NotOpened, Unasked, StillFlow

LEMMA QuitFlow ==
    ASSUME DeliveryInv, TypeOK', NEW m \in Member, Quit(m), phase[m] # "out",
           \A x \in Member \ {m} : up'[x] = up[x],
           \A s \in Stream : s > dials[m] => up'[m][s] = <<>>,
           \A s \in Stream : Repeats(up'[m][s], up[m][s])
    PROVE  \A x \in Member : Flow(x)'
<1> USE DEF DeliveryInv
<1>1. \A x \in Member \ {m} : Idle(x)
  BY DEF Quit, Idle, hostVars, TypeOK, GuestTypeOK, NetTypeOK
<1>2. /\ log' = log /\ conn' = conn /\ dials' = dials /\ gconn' = gconn /\ lastSeq' = lastSeq
      /\ status' = status /\ resume' = resume
  BY DEF Quit, hostVars
<1>3. /\ phase'[m] = "closed" /\ broken'[m] = broken[m] \cup 1..dials[m]
      /\ \A s \in Stream : down'[m][s] = <<>>
  BY DEF Quit, TypeOK, GuestTypeOK, NetTypeOK
<1>4. /\ dials[m] \in 1..dials[m]
      /\ \A s \in Stream : s > dials[m] => s \notin broken'[m] /\ down[m][s] = <<>>
      /\ \A s \in Stream : ~(s > dials[m]) => s \in broken'[m]
  BY <1>3, NotOpened, MemberTypes DEF Stream, Flow, Placed
<1> QED BY <1>1, <1>2, <1>3, <1>4, StillFlow

LEMMA QuitSilentlyFlow ==
    ASSUME DeliveryInv, TypeOK', NEW m \in Member,
           ReadRemoved(m) \/ FailJoin(m) \/ RecoveryTimeout(m)
    PROVE  \A x \in Member : Flow(x)'
<1>1. Quit(m) /\ up' = up /\ phase[m] # "out"
  BY DEF ReadRemoved, FailJoin, RecoveryTimeout, Reads
<1> QED BY <1>1, NotOpened, Unasked, QuitFlow DEF DeliveryInv

LEMMA LeaveFlow ==
    ASSUME DeliveryInv, TypeOK', NEW m \in Member, Leave(m)
    PROVE  \A x \in Member : Flow(x)'
<1>1. gconn[m] \in Stream \cup {0} /\ gconn[m] <= dials[m] /\ [type |-> "LEAVE"] \in GuestFrame
  BY MemberTypes DEF DeliveryInv, Flow, Placed, GuestFrame
<1> QED BY <1>1, PushUnasked, QuitFlow DEF Leave

LEMMA SubmitTextFlow ==
    ASSUME DeliveryInv, TypeOK', NEW m \in Member, SubmitText(m)
    PROVE  \A x \in Member : Flow(x)'
<1> USE DEF DeliveryInv
<1>1. /\ log' = log /\ conn' = conn /\ dials' = dials /\ gconn' = gconn /\ lastSeq' = lastSeq
      /\ status' = status /\ resume' = resume /\ phase' = phase /\ down' = down /\ broken' = broken
  BY DEF SubmitText, hostVars
<1>2. PICK k \in Text : up' = Push(up, m, gconn[m], [type |-> "TEXT_SUBMIT", id |-> k]) \/ up' = up
  BY DEF SubmitText, Unsent
<1>3. /\ gconn[m] \in Stream \cup {0} /\ gconn[m] <= dials[m]
      /\ [type |-> "TEXT_SUBMIT", id |-> k] \in GuestFrame
  BY MemberTypes DEF Flow, Placed, GuestFrame
<1>4. /\ \A x \in Member \ {m} : up'[x] = up[x]
      /\ \A t \in Stream : t > dials[m] => up'[m][t] = <<>>
      /\ \A t \in Stream : Repeats(up'[m][t], up[m][t])
  BY <1>2, <1>3, PushUnasked, NotOpened, Unasked
<1> QED BY <1>1, <1>4, NotOpened, StillFlow DEF Idle

LEMMA ResubmitFlow ==
    ASSUME DeliveryInv, TypeOK', NEW m \in Member, Resubmit(m)
    PROVE  \A x \in Member : Flow(x)'
<1> USE DEF DeliveryInv
<1>1. /\ log' = log /\ conn' = conn /\ dials' = dials /\ gconn' = gconn /\ lastSeq' = lastSeq
      /\ status' = status /\ resume' = resume /\ phase' = phase /\ down' = down /\ broken' = broken
  BY DEF Resubmit, hostVars
<1>2. PICK k \in Text : up' = Push(up, m, dials[m], [type |-> "TEXT_SUBMIT", id |-> k])
  BY DEF Resubmit, OldestOf, TypeOK, GuestTypeOK
<1>3. /\ dials[m] \in Stream \cup {0} /\ dials[m] <= dials[m]
      /\ [type |-> "TEXT_SUBMIT", id |-> k] \in GuestFrame
  BY MemberTypes DEF GuestFrame
<1>4. /\ \A x \in Member \ {m} : up'[x] = up[x]
      /\ \A t \in Stream : t > dials[m] => up'[m][t] = <<>>
      /\ \A t \in Stream : Repeats(up'[m][t], up[m][t])
  BY <1>2, <1>3, PushUnasked
<1> QED BY <1>1, <1>4, NotOpened, StillFlow DEF Idle

LEMMA BeginRecoveryFlow ==
    ASSUME DeliveryInv, TypeOK', NEW m \in Member, BeginRecovery(m) \/ ResumeAccepted(m)
    PROVE  \A x \in Member : Flow(x)'
<1> USE DEF DeliveryInv
<1>1. /\ log' = log /\ conn' = conn /\ dials' = dials /\ gconn' = gconn /\ lastSeq' = lastSeq
      /\ status' = status /\ resume' = resume /\ up' = up /\ down' = down /\ broken' = broken
      /\ \A x \in Member \ {m} : phase'[x] = phase[x]
  BY DEF BeginRecovery, ResumeAccepted, hostVars, netVars, TypeOK, GuestTypeOK
<1>2. \/ phase[m] = "waiting" /\ phase'[m] = "resubmitting"
      \/ phase[m] # "out" /\ phase'[m] = "recovering" /\ dials[m] \in broken'[m]
  BY <1>1 DEF BeginRecovery, ResumeAccepted, TypeOK, GuestTypeOK, Flow, Placed
<1> QED BY <1>1, <1>2, NotOpened, Unasked, StillFlow DEF Idle

LEMMA ResumeFailedFlow ==
    ASSUME DeliveryInv, TypeOK', NEW m \in Member, ResumeFailed(m)
    PROVE  \A x \in Member : Flow(x)'
<1> USE DEF DeliveryInv
<1>1. /\ log' = log /\ conn' = conn /\ dials' = dials /\ gconn' = gconn /\ lastSeq' = lastSeq
      /\ status' = status /\ resume' = resume /\ up' = up
  BY DEF ResumeFailed, hostVars
<1>2. /\ phase[m] # "out" /\ phase'[m] = "recovering" /\ broken'[m] = broken[m] \cup {dials[m]}
      /\ \A s \in Stream : down'[m][s] = IF s = dials[m] THEN <<>> ELSE down[m][s]
  BY DEF ResumeFailed, TypeOK, GuestTypeOK, NetTypeOK
<1>3. \A x \in Member \ {m} : Idle(x)
  BY <1>1 DEF ResumeFailed, Idle, TypeOK, GuestTypeOK, NetTypeOK
<1>4. \A s \in Stream : s > dials[m] => s # dials[m]
  BY MemberTypes DEF Stream
<1> QED BY <1>1, <1>2, <1>3, <1>4, NotOpened, Unasked, StillFlow

LEMMA ReadUnusableEventFlow ==
    ASSUME DeliveryInv, TypeOK', NEW m \in Member, ReadUnusableEvent(m)
    PROVE  \A x \in Member : Flow(x)'
<1> USE DEF DeliveryInv
<1>1. /\ log' = log /\ conn' = conn /\ dials' = dials /\ gconn' = gconn /\ lastSeq' = lastSeq
      /\ status' = status /\ resume' = resume /\ up' = up
  BY DEF ReadUnusableEvent, hostVars
<1>2. /\ phase'[m] = IF phase[m] = "member" THEN "recovering" ELSE phase[m]
      /\ broken'[m] = broken[m] \cup {gconn[m]}
      /\ \A s \in Stream : down'[m][s] = IF s = gconn[m] THEN <<>> ELSE down[m][s]
  BY DEF ReadUnusableEvent, TypeOK, GuestTypeOK, NetTypeOK
<1>3. \A x \in Member \ {m} : Idle(x)
  BY <1>1 DEF ReadUnusableEvent, Idle, TypeOK, GuestTypeOK, NetTypeOK
<1>4. \A s \in Stream : s > dials[m] => s # gconn[m]
  BY MemberTypes DEF Stream, Flow, Placed
<1>5. phase[m] = "member" => gconn[m] = dials[m]
  BY DEF Flow, Placed
<1> QED BY <1>1, <1>2, <1>3, <1>4, <1>5, NotOpened, Unasked, StillFlow

LEMMA DropPendingFlow ==
    ASSUME DeliveryInv, TypeOK', NEW m \in Member, DropPending(m)
    PROVE  \A x \in Member : Flow(x)'
<1> USE DEF DeliveryInv
<1>1. /\ log' = log /\ conn' = conn /\ dials' = dials /\ gconn' = gconn /\ lastSeq' = lastSeq
      /\ phase' = phase /\ resume' = resume /\ down' = down
  BY DEF DropPending, guestVars
<1>2. /\ status[m] = "committing" /\ status'[m] = "gone" /\ broken'[m] = broken[m] \cup {1}
      /\ \A s \in Stream : up'[m][s] = IF s = 1 THEN <<>> ELSE up[m][s]
  BY StreamOne DEF DropPending, TypeOK, HostTypeOK, NetTypeOK
<1>3. \A x \in Member \ {m} : Idle(x)
  BY <1>1 DEF DropPending, Idle, TypeOK, HostTypeOK, NetTypeOK
<1>4. dials[m] \in Nat /\ dials[m] # 0
  BY <1>2, MemberTypes DEF Flow, Placed
<1>5. \A s \in Stream : s > dials[m] => s # 1
  BY <1>4 DEF Stream
<1> QED BY <1>1, <1>2, <1>3, <1>5, NotOpened, Unasked, StillFlow

LEMMA AbandonResumeFlow ==
    ASSUME DeliveryInv, TypeOK', NEW m \in Member, AbandonResume(m)
    PROVE  \A x \in Member : Flow(x)'
<1> USE DEF DeliveryInv
<1>1. /\ log' = log /\ conn' = conn /\ dials' = dials /\ gconn' = gconn /\ lastSeq' = lastSeq
      /\ phase' = phase /\ status' = status /\ down' = down /\ broken' = broken
  BY DEF AbandonResume, guestVars
<1>2. /\ resume'[m] = NoResume
      /\ \A s \in Stream : up'[m][s] = IF s = resume[m].stream THEN <<>> ELSE up[m][s]
  BY DEF AbandonResume, TypeOK, HostTypeOK, NetTypeOK
<1>3. \A x \in Member \ {m} : Idle(x)
  BY <1>1 DEF AbandonResume, Idle, TypeOK, HostTypeOK, NetTypeOK
<1> QED BY <1>1, <1>2, <1>3, NotOpened, Unasked, StillFlow

-----------------------------------------------------------------------------
(* Steps that read a frame of the host *)

\* What m's reader does with the first frame of g, whatever it is.
Advances(m, g) ==
    /\ g = gconn[m] /\ down[m][g] # <<>>
    /\ log' = log /\ status' = status /\ conn' = conn /\ resume' = resume
    /\ gconn' = gconn /\ dials' = dials /\ up' = up /\ broken' = broken
    /\ \A x \in Member \ {m} : lastSeq'[x] = lastSeq[x] /\ phase'[x] = phase[x]
    /\ phase'[m] = phase[m] \/ (phase[m] = "joining" /\ phase'[m] = "member")
    /\ down' = [down EXCEPT ![m][g] = Tail(@)]

LEMMA AdvancesFlow ==
    ASSUME DeliveryInv, TypeOK', NEW m \in Member, NEW g \in Stream, Advances(m, g),
           lastSeq'[m] >= lastSeq[m], Order(m)',
           \A s \in Stream : \A k \in Nat :
              Reach(down[m][s], lastSeq[m], k) => Reach(down'[m][s], lastSeq'[m], k)
    PROVE  \A x \in Member : Flow(x)'
<1> USE DEF DeliveryInv
<1>1. \A x \in Member \ {m} : Bystander(x)
  BY DEF Advances, Bystander, TypeOK, NetTypeOK
<1>2. /\ log' = log /\ status' = status /\ conn' = conn /\ resume' = resume
      /\ gconn' = gconn /\ dials' = dials /\ up' = up /\ broken' = broken
      /\ phase'[m] = phase[m] \/ (phase[m] = "joining" /\ phase'[m] = "member")
  BY DEF Advances
<1>3. \A s \in Stream : s > dials[m] => down'[m][s] = <<>>
  <2>1. \A s \in Stream : s # g => down'[m][s] = down[m][s]
    BY DEF Advances, TypeOK, NetTypeOK
  <2>2. \A s \in Stream : s > dials[m] => s # g
    BY MemberTypes DEF Stream, Advances, Flow, Placed
  <2> QED BY <2>1, <2>2, NotOpened
<1>4. Placed(m)'
  BY <1>2, <1>3, NotOpened, PlacedKept DEF Flow, Placed
<1>5. Asked(m)'
  BY <1>2, Unasked, AskedQuiet DEF Flow, Asked
<1>6. Covered(m)'
  <2>1. status[m] = "online" => conn[m] \in Stream
    BY MemberTypes DEF Flow, Placed
  <2>2. resume[m] # NoResume => resume[m].stream \in Stream
    BY MemberTypes DEF Flow, Placed
  <2> QED BY <1>2, <2>1, <2>2, MemberTypes DEF Flow, Covered
<1> QED BY <1>1, <1>4, <1>5, <1>6, BystanderFlow DEF Flow

LEMMA ReaderFlow ==
    ASSUME DeliveryInv, TypeOK', NEW m \in Member, NEW g \in Stream, Advances(m, g),
           Moves(down[m][g], lastSeq[m], lastSeq'[m]), lastSeq'[m] <= Len(log),
           phase'[m] \in {"out", "joining"} => lastSeq'[m] = 0
    PROVE  \A x \in Member : Flow(x)'
<1> USE DEF DeliveryInv
<1>1. /\ down[m] \in [Stream -> Seq(HostFrame)] /\ lastSeq[m] \in Nat /\ lastSeq'[m] \in Nat
      /\ down[m][g] # <<>> /\ Len(log) \in Nat
      /\ down'[m] = [down[m] EXCEPT ![g] = Tail(down[m][g])]
  BY MemberTypes, NextTypes DEF Advances, TypeOK, NetTypeOK
<1>2. Order(m)'
  <2>1. g = gconn'[m] /\ gconn'[m] >= gconn[m] /\ log' = log
    BY MemberTypes DEF Advances
  <2> QED BY <1>1, <2>1, OrderRead DEF Flow
<1>3. ASSUME NEW s \in Stream, NEW k \in Nat, Reach(down[m][s], lastSeq[m], k)
      PROVE  Reach(down'[m][s], lastSeq'[m], k)
  <2>1. CASE s = g
    BY <1>1, <1>3, <2>1, ReadFlow
  <2>2. CASE s # g
    BY <1>1, <1>3, <2>2, ElsewhereFlow
  <2> QED BY <2>1, <2>2
<1>4. lastSeq'[m] >= lastSeq[m]
  BY DEF Moves
<1> QED BY <1>2, <1>3, <1>4, AdvancesFlow

\* The frame that m reads speaks of no more than the log.
LEMMA ReadFrame ==
    ASSUME DeliveryInv, NEW m \in Member, NEW type, Reads(m, type)
    PROVE  /\ gconn[m] \in Stream /\ down[m][gconn[m]] # <<>>
           /\ Received(m) = Head(down[m][gconn[m]]) /\ Received(m) \in HostFrame
           /\ Received(m).type = type
           /\ Carries(Received(m)) => Received(m).seq \in Nat /\ Received(m).seq <= Len(log)
           /\ IsResync(Received(m)) => lastSeq[m] <= Received(m).seq /\ gconn[m] # 1
           /\ phase[m] # "out"
<1> USE DEF DeliveryInv
<1>1. gconn[m] \in Stream /\ Received(m) \in HostFrame /\ Received(m).type = type
  BY FrameRead
<1>2. /\ down[m][gconn[m]] # <<>> /\ Received(m) = Head(down[m][gconn[m]])
      /\ phase[m] # "out"
  BY DEF Reads, Received
<1> DEFINE q == down[m][gconn[m]]
<1>3. q \in Seq(HostFrame) /\ q # <<>> /\ gconn[m] \in Nat
  BY <1>1, <1>2, MemberTypes
<1>4. 1 \in 1..Len(q) /\ Head(q) = q[1]
  <2> HIDE DEF q
  <2> QED BY <1>3
<1>5. Capped(q, Len(log)) /\ Forward(q, lastSeq[m])
  BY <1>1, <1>3 DEF Flow, Order
<1>6. IsResync(Head(q)) => gconn[m] # 1
  BY <1>4 DEF Flow, Order
<1> QED BY <1>1, <1>2, <1>4, <1>5, <1>6, NumberedType DEF Capped, Forward

LEMMA JoinedFlow ==
    ASSUME DeliveryInv, TypeOK', NEW m \in Member, Joined(m)
    PROVE  \A x \in Member : Flow(x)'
<1> USE DEF DeliveryInv
<1> DEFINE g == gconn[m]
           q == down[m][g]
<1>1. /\ g \in Stream /\ q # <<>> /\ Received(m) = Head(q) /\ Head(q).type = "JOIN_ACCEPT"
      /\ Head(q).seq \in Nat /\ Head(q).seq <= Len(log)
  BY ReadFrame DEF Joined, Carries
<1>2. /\ down[m] \in [Stream -> Seq(HostFrame)] /\ lastSeq[m] \in Nat /\ lastSeq'[m] \in Nat
      /\ q \in Seq(HostFrame) /\ Len(log) \in Nat
      /\ down'[m] = [down[m] EXCEPT ![g] = Tail(q)]
      /\ \A s \in Stream : s \in Nat
  BY <1>1, MemberTypes, NextTypes DEF Joined, Advance, TypeOK, NetTypeOK, Stream
<1>3. lastSeq'[m] = Head(q).seq /\ phase'[m] = "member" /\ lastSeq[m] = 0 /\ dials[m] = 1 /\ g = 1
  BY <1>1 DEF Joined, Flow, Placed, Order, TypeOK, GuestTypeOK
<1>4. Advances(m, g)
  BY <1>1 DEF Joined, Advances, Advance, hostVars, TypeOK, GuestTypeOK
<1>5. Moves(q, lastSeq[m], lastSeq[m])
  BY <1>1, <1>2 DEF Moves, Numbered
<1>6. \A s \in Stream : s # g => down[m][s] = <<>>
  BY <1>2, <1>3, NotOpened DEF Stream
<1>7. \A s \in Stream : s # g => down'[m][s] = <<>>
  BY <1>2, <1>6
<1> HIDE DEF q
<1>8. /\ Tail(q) \in Seq(HostFrame) /\ Capped(Tail(q), Len(log))
      /\ \A k \in Nat : Reach(q, lastSeq[m], k) => Reach(Tail(q), lastSeq[m], k)
      /\ \A i \in 1..Len(Tail(q)) : ~IsResync(Tail(q)[i])
  <2>1. Capped(q, Len(log)) /\ \A i \in 1..Len(q) : ~IsResync(q[i])
    BY <1>1, <1>3 DEF Flow, Order, q
  <2>2. \A i \in 1..Len(Tail(q)) : i + 1 \in 1..Len(q) /\ Tail(q)[i] = q[i + 1]
    BY <1>1, <1>2
  <2> QED BY <1>1, <1>2, <1>5, <2>1, <2>2, ReadFlow
<1>9. down'[m][g] = Tail(q)
  BY <1>1, <1>2
<1>10. ASSUME NEW s \in Stream, NEW k \in Nat, Reach(down[m][s], lastSeq[m], k)
       PROVE  Reach(down'[m][s], lastSeq'[m], k)
  <2>1. CASE s = g
    <3>1. Reach(Tail(q), 0, k)
      BY <1>3, <1>8, <1>10, <2>1 DEF q
    <3>2. lastSeq'[m] >= 0 /\ down'[m][s] = Tail(q) /\ lastSeq'[m] \in Nat
      BY <1>2, <1>9, <2>1
    <3> QED BY <3>1, <3>2 DEF Reach
  <2>2. CASE s # g
    BY <1>2, <1>3, <1>6, <1>7, <1>10, <2>2 DEF Reach
  <2> QED BY <2>1, <2>2
<1>11. Order(m)'
  <2>1. \A s \in Stream : Capped(down'[m][s], Len(log)) /\ Rising(down'[m][s])
    BY <1>2, <1>7, <1>8, <1>9, EmptyFlow DEF Rising
  <2>2. \A s \in Stream : Forward(down'[m][s], lastSeq'[m])
    BY <1>2, <1>7, <1>8, <1>9, EmptyFlow DEF Forward
  <2>3. \A s, t \in Stream : t < s => Before(down'[m][t], down'[m][s])
    BY <1>2, <1>7, <1>8, <1>9 DEF Before
  <2>4. \A s \in Stream : s > 1 => Chained(down'[m][s], lastSeq'[m])
    BY <1>2, <1>3, <1>7, EmptyFlow
  <2>5. \A i \in 1..Len(down'[m][1]) : ~IsResync(down'[m][1][i])
    BY <1>3, <1>8, <1>9
  <2>6. log' = log
    BY DEF Joined, hostVars
  <2> QED BY <1>1, <1>3, <2>1, <2>2, <2>3, <2>4, <2>5, <2>6 DEF Order
<1>12. lastSeq'[m] >= lastSeq[m]
  BY <1>1, <1>3
<1> QED BY <1>1, <1>4, <1>10, <1>11, <1>12, AdvancesFlow

LEMMA ReadEventFlow ==
    ASSUME DeliveryInv, TypeOK', NEW m \in Member, ReadEvent(m)
    PROVE  \A x \in Member : Flow(x)'
<1> USE DEF DeliveryInv
<1>1. /\ gconn[m] \in Stream /\ down[m][gconn[m]] # <<>>
      /\ Received(m) = Head(down[m][gconn[m]]) /\ Received(m).type = "ROOM_EVENT"
      /\ Received(m).seq \in Nat /\ Received(m).seq <= Len(log) /\ phase[m] # "out"
  BY ReadFrame DEF ReadEvent, Carries
<1>2. Advances(m, gconn[m])
  BY <1>1 DEF ReadEvent, Advances, Advance, hostVars, TypeOK, GuestTypeOK
<1>3. \/ Received(m).seq <= lastSeq[m] /\ lastSeq'[m] = lastSeq[m]
      \/ Received(m).seq = lastSeq[m] + 1 /\ lastSeq'[m] = Received(m).seq
  BY DEF ReadEvent, TypeOK, GuestTypeOK
<1>4. Moves(down[m][gconn[m]], lastSeq[m], lastSeq'[m]) /\ lastSeq'[m] <= Len(log)
  BY <1>1, <1>3, MemberTypes DEF Moves, Numbered, Flow, Order
<1>5. phase'[m] \notin {"out", "joining"}
  BY <1>1 DEF ReadEvent
<1> QED BY <1>1, <1>2, <1>4, <1>5, ReaderFlow

LEMMA ReadResyncFlow ==
    ASSUME DeliveryInv, TypeOK', NEW m \in Member, ReadResync(m)
    PROVE  \A x \in Member : Flow(x)'
<1> USE DEF DeliveryInv
<1>1. /\ gconn[m] \in Stream /\ down[m][gconn[m]] # <<>> /\ gconn[m] # 1
      /\ Received(m) = Head(down[m][gconn[m]]) /\ Received(m).type = "RESYNC_REQUIRED"
      /\ Received(m).seq \in Nat /\ Received(m).seq <= Len(log) /\ phase[m] # "out"
      /\ lastSeq[m] <= Received(m).seq
  BY ReadFrame DEF ReadResync, Carries, IsResync
<1>2. Advances(m, gconn[m])
  BY <1>1 DEF ReadResync, Advances, Advance, hostVars, TypeOK, GuestTypeOK
<1>3. lastSeq'[m] = Received(m).seq
  BY DEF ReadResync, TypeOK, GuestTypeOK
<1>4. Moves(down[m][gconn[m]], lastSeq[m], lastSeq'[m]) /\ lastSeq'[m] <= Len(log)
  BY <1>1, <1>3, MemberTypes DEF Moves, Numbered
<1>5. phase'[m] \notin {"out", "joining"}
  BY <1>1 DEF ReadResync, Flow, Placed
<1> QED BY <1>1, <1>2, <1>4, <1>5, ReaderFlow

LEMMA ReadNoticeFlow ==
    ASSUME DeliveryInv, TypeOK', NEW m \in Member, ReadRejection(m) \/ ReadPause(m)
    PROVE  \A x \in Member : Flow(x)'
<1> USE DEF DeliveryInv
<1>1. /\ gconn[m] \in Stream /\ down[m][gconn[m]] # <<>>
      /\ Received(m) = Head(down[m][gconn[m]])
      /\ Received(m).type \in {"ACTION_REJECTED", "ROOM_PAUSE"}
  BY ReadFrame DEF ReadRejection, ReadPause
<1>2. Advances(m, gconn[m]) /\ lastSeq' = lastSeq /\ phase' = phase
  BY <1>1 DEF ReadRejection, ReadPause, Advances, Advance, hostVars
<1>3. Moves(down[m][gconn[m]], lastSeq[m], lastSeq'[m]) /\ lastSeq'[m] <= Len(log)
  BY <1>1, <1>2, MemberTypes DEF Moves, Numbered, Flow, Order
<1> QED BY <1>1, <1>2, <1>3, ReaderFlow DEF Flow, Order

-----------------------------------------------------------------------------
(* Opening a stream, and taking it over *)

LEMMA DialAgainFlow ==
    ASSUME DeliveryInv, TypeOK', NEW m \in Member, DialAgain(m)
    PROVE  \A x \in Member : Flow(x)'
<1> USE DEF DeliveryInv
<1> DEFINE d == dials[m]
           f == [type |-> "RESUME_REQUEST", lastSeq |-> lastSeq[m]]
<1>1. /\ log' = log /\ status' = status /\ conn' = conn /\ resume' = resume
      /\ gconn' = gconn /\ lastSeq' = lastSeq /\ broken' = broken
  BY DEF DialAgain, hostVars
<1>2. /\ d \in Nat /\ d + 1 \in Stream /\ d # 0 /\ d \in Stream /\ d \in broken[m]
      /\ \A s \in Stream : s \in Nat
  <2>1. d < MaxStream /\ d # 0 /\ d \in broken[m]
    BY DEF DialAgain, Flow, Placed
  <2>2. d \in Nat /\ d \in Stream
    BY <2>1, MemberTypes
  <2>3. d + 1 \in Stream /\ \A s \in Stream : s \in Nat
    BY <2>1, <2>2, GroupLogAssumption DEF Stream
  <2> QED BY <2>1, <2>2, <2>3
<1>3. phase[m] = "recovering" /\ phase'[m] = "waiting" /\ dials'[m] = d + 1
  BY DEF DialAgain, TypeOK, GuestTypeOK
<1>4. up[m][d + 1] = <<>> /\ d + 1 \notin broken[m]
  BY <1>2, NotOpened
<1>5. up'[m] = [up[m] EXCEPT ![d + 1] = <<f>>]
  <2>1. up'[m] = [up[m] EXCEPT ![d + 1] = Append(up[m][d + 1], f)]
    BY <1>2, <1>4 DEF DialAgain, Push, TypeOK, NetTypeOK
  <2> QED BY <1>4, <2>1
<1>6. /\ down' = [down EXCEPT ![m][gconn[m]] = <<>>]
      /\ \A s \in Stream : down'[m][s] \in {down[m][s], <<>>}
  BY DEF DialAgain, TypeOK, NetTypeOK
<1>7. \A x \in Member \ {m} : Bystander(x)
  <2>1. \A x \in Member \ {m} : up'[x] = up[x] /\ down'[x] = down[x]
                               /\ phase'[x] = phase[x] /\ dials'[x] = dials[x]
    BY DEF DialAgain, Push, TypeOK, GuestTypeOK, NetTypeOK
  <2> QED BY <1>1, <2>1 DEF Bystander
<1> HIDE DEF f
<1>8. Placed(m)'
  <2>1. \A s \in Stream : s < d + 1 => s \in broken[m]
    BY <1>2 DEF Flow, Placed
  <2>2. \A s \in Stream : s > d + 1 =>
          up'[m][s] = <<>> /\ down'[m][s] = <<>> /\ s \notin broken'[m]
    <3> SUFFICES ASSUME NEW s \in Stream, s > d + 1
                 PROVE  up'[m][s] = <<>> /\ down'[m][s] = <<>> /\ s \notin broken'[m]
      OBVIOUS
    <3>1. s > d /\ s # d + 1
      BY <1>2
    <3>2. up[m][s] = <<>> /\ down[m][s] = <<>> /\ s \notin broken[m]
      BY <3>1, NotOpened
    <3>3. up'[m][s] = up[m][s]
      BY <1>5, <3>1, MemberTypes
    <3> QED BY <1>1, <1>6, <3>2, <3>3
  <2>3. gconn[m] < d + 1 /\ conn[m] <= d + 1 /\ resume[m].stream <= d + 1 /\ gconn[m] <= d + 1
    BY <1>2, MemberTypes DEF Flow, Placed
  <2>4. status[m] # "out" /\ d + 1 # 0 /\ (status[m] = "online" <=> conn[m] # 0)
        /\ (resume[m] # NoResume => resume[m].stream # 0)
    BY <1>2, <1>3 DEF Flow, Placed
  <2> HIDE DEF d
  <2> QED BY <1>1, <1>3, <2>1, <2>2, <2>3, <2>4 DEF Placed
<1>9. Order(m)'
  <2>1. gconn'[m] >= gconn[m] /\ Len(log') >= Len(log)
    BY <1>1, MemberTypes
  <2> QED BY <1>1, <1>3, <1>6, <2>1, OrderQuiet DEF Flow
<1>10. Asked(m)'
  <2> SUFFICES ASSUME NEW s \in Stream, NEW i \in 1..Len(up'[m][s]),
                      up'[m][s][i].type = "RESUME_REQUEST"
               PROVE  s > 1 /\ up'[m][s][i].lastSeq <= lastSeq'[m]
    BY <1>1 DEF Flow, Asked
  <2>1. CASE s # d + 1
    <3>1. up'[m][s] = up[m][s]
      BY <1>5, <2>1, MemberTypes
    <3> QED BY <1>1, <3>1 DEF Flow, Asked
  <2>2. CASE s = d + 1
    <3>1. up'[m][s] = <<f>>
      BY <1>2, <1>5, <2>2, MemberTypes
    <3>2. i = 1 /\ up'[m][s][i] = f
      BY <3>1
    <3> QED BY <1>1, <1>2, <2>2, <3>2, MemberTypes DEF f
  <2> QED BY <2>1, <2>2
<1>11. Covered(m)'
  <2>1. \A s \in Stream : s <= d => s \in broken[m]
    BY <1>2 DEF Flow, Placed
  <2>2. status[m] = "online" => conn[m] \in broken[m]
    BY <2>1, MemberTypes DEF Flow, Placed
  <2>3. resume[m] # NoResume => resume[m].stream \in broken[m]
    BY <2>1, MemberTypes DEF Flow, Placed
  <2> QED BY <1>1, <2>2, <2>3 DEF Covered
<1> QED BY <1>7, <1>8, <1>9, <1>10, <1>11, BystanderFlow DEF Flow

LEMMA RecoveredFlow ==
    ASSUME DeliveryInv, TypeOK', NEW m \in Member, Recovered(m)
    PROVE  \A x \in Member : Flow(x)'
<1> USE DEF DeliveryInv
<1> DEFINE s == dials[m]
           q == down[m][s]
<1>1. /\ log' = log /\ status' = status /\ conn' = conn /\ resume' = resume
      /\ dials' = dials /\ lastSeq' = lastSeq /\ broken' = broken /\ up' = up
  BY DEF Recovered, hostVars
<1>2. /\ s \in Stream /\ s \in Nat /\ q # <<>> /\ Head(q).type = "RESUME_ACCEPT"
      /\ gconn[m] < s /\ gconn[m] \in Nat
  BY MemberTypes DEF Recovered, Answered, Flow, Placed
<1>3. /\ phase[m] = "resubmitting" /\ phase'[m] = "member" /\ gconn'[m] = s
      /\ down' = [down EXCEPT ![m][s] = Tail(q)]
  BY DEF Recovered, TypeOK, GuestTypeOK
<1>4. /\ down[m] \in [Stream -> Seq(HostFrame)] /\ q \in Seq(HostFrame) /\ lastSeq[m] \in Nat
      /\ down'[m] = [down[m] EXCEPT ![s] = Tail(q)] /\ Len(log) \in Nat
  BY <1>2, <1>3, MemberTypes DEF TypeOK, NetTypeOK
<1>5. Moves(q, lastSeq[m], lastSeq[m])
  BY <1>2, <1>4 DEF Moves, Numbered
<1>6. \A x \in Member \ {m} : Bystander(x)
  <2>1. \A x \in Member \ {m} : down'[x] = down[x] /\ phase'[x] = phase[x] /\ gconn'[x] = gconn[x]
    BY <1>3 DEF Recovered, TypeOK, GuestTypeOK, NetTypeOK
  <2> QED BY <1>1, <2>1 DEF Bystander
<1>7. Placed(m)'
  <2>1. \A t \in Stream : t > s => down'[m][t] = <<>>
    <3>1. \A t \in Stream : t > s => t # s
      BY <1>2 DEF Stream
    <3> QED BY <1>4, <3>1, NotOpened
  <2>2. gconn'[m] <= dials'[m]
    BY <1>1, <1>2, <1>3
  <2> QED BY <1>1, <1>3, <2>1, <2>2 DEF Flow, Placed
<1>8. Order(m)'
  <2>1. gconn'[m] >= gconn[m] /\ lastSeq[m] <= Len(log)
    BY <1>2, <1>3 DEF Flow, Order
  <2> QED BY <1>1, <1>2, <1>3, <1>4, <1>5, <2>1, OrderRead DEF Flow
<1>9. Asked(m)'
  BY <1>1 DEF Flow, Asked
<1>10. ASSUME NEW t \in Stream, NEW k \in Nat, Reach(down[m][t], lastSeq[m], k)
       PROVE  Reach(down'[m][t], lastSeq[m], k)
  <2>1. CASE t = s
    BY <1>2, <1>4, <1>5, <1>10, <2>1, ReadFlow
  <2>2. CASE t # s
    BY <1>4, <1>10, <2>2
  <2> QED BY <2>1, <2>2
<1>11. Covered(m)'
  <2>1. status[m] = "online" => conn[m] \in Stream
    BY MemberTypes DEF Flow, Placed
  <2>2. resume[m] # NoResume => resume[m].stream \in Stream
    BY MemberTypes DEF Flow, Placed
  <2> QED BY <1>1, <1>10, <2>1, <2>2, MemberTypes DEF Flow, Covered
<1> QED BY <1>6, <1>7, <1>8, <1>9, <1>11, BystanderFlow DEF Flow

-----------------------------------------------------------------------------
(* Steps of the host *)

\* The newest event, as a frame.
LEMMA NewestEvent ==
    ASSUME TypeOK
    PROVE  LET f == RoomEvent(Len(log) + 1)
           IN  /\ f \in HostFrame /\ f.type = "ROOM_EVENT" /\ f.seq = Len(log) + 1
               /\ Numbered(f) /\ ~IsResync(f)
BY DEF TypeOK, HostTypeOK, RoomEvent, HostFrame, Numbered, IsResync

LEMMA EventSent ==
    ASSUME TypeOK, NEW x \in Member, NEW st, NEW cn, cn[x] \in Stream \cup {0},
           down'[x] = Relayed(st, cn)[x]
    PROVE  IF st[x] = "online" THEN Sent(x, cn[x], RoomEvent(Len(log) + 1))
                               ELSE down'[x] = down[x]
<1>1. PICK f : f = RoomEvent(Len(log) + 1)
  OBVIOUS
<1>2. down'[x] = Relay(f, st, cn)[x]
  BY <1>1 DEF Relayed
<1>3. Relay(f, st, cn)[x] =
        IF st[x] # "online" \/ cn[x] = 0 \/ cn[x] \in broken[x] THEN down[x]
        ELSE [down[x] EXCEPT ![cn[x]] = Append(down[x][cn[x]], f)]
  BY RelayHere
<1> QED BY <1>1, <1>2, <1>3 DEF Sent

\* Who the event is not about, is a bystander.
LEMMA CommitBystander ==
    ASSUME TypeOK, NEW x \in Member, NEW e \in Event, Commit(e),
           NEW st, NEW cn, st[x] = status[x], cn[x] = conn[x], down'[x] = Relayed(st, cn)[x],
           status'[x] = status[x], conn'[x] = conn[x], resume'[x] = resume[x],
           phase'[x] = phase[x], gconn'[x] = gconn[x], dials'[x] = dials[x],
           lastSeq'[x] = lastSeq[x], up'[x] = up[x], broken'[x] = broken[x]
    PROVE  Bystander(x)
<1>1. Len(log') = Len(log) + 1
  BY Appended
<1>2. cn[x] \in Stream \cup {0}
  BY MemberTypes
<1>3. IF status[x] = "online" THEN Sent(x, conn[x], RoomEvent(Len(log) + 1))
                              ELSE down'[x] = down[x]
  BY <1>2, EventSent
<1> QED BY <1>1, <1>3 DEF Bystander

LEMMA OwnerTextFlow ==
    ASSUME DeliveryInv, TypeOK', OwnerText
    PROVE  \A x \in Member : Flow(x)'
<1> USE DEF DeliveryInv
<1>1. PICK e \in Event : Commit(e)
  BY OwnerTextsFinite DEF OwnerText, Event
<1>2. /\ down' = Relayed(status, conn) /\ status' = status /\ conn' = conn /\ resume' = resume
      /\ phase' = phase /\ gconn' = gconn /\ dials' = dials /\ lastSeq' = lastSeq
      /\ up' = up /\ broken' = broken
  BY DEF OwnerText, guestVars
<1>3. \A x \in Member : Bystander(x)
  BY <1>1, <1>2, CommitBystander
<1> QED BY <1>3, BystanderFlow

LEMMA SetRoomPausedFlow ==
    ASSUME DeliveryInv, TypeOK', SetRoomPaused
    PROVE  \A x \in Member : Flow(x)'
<1> USE DEF DeliveryInv
<1> SUFFICES ASSUME NEW x \in Member
             PROVE  Flow(x)'
  OBVIOUS
<1>1. /\ log' = log /\ conn' = conn /\ resume' = resume /\ paused' \in BOOLEAN
      /\ phase' = phase /\ gconn' = gconn /\ dials' = dials /\ lastSeq' = lastSeq
  BY DEF SetRoomPaused, guestVars
<1>2. PICK f : f = [type |-> "ROOM_PAUSE", paused |-> paused']
  OBVIOUS
<1>3. f \in HostFrame /\ ~Carries(f)
  BY <1>1, <1>2 DEF HostFrame, Carries
<1>4. down'[x] = IF status[x] # "online" \/ conn[x] = 0 \/ conn[x] \in broken[x] THEN down[x]
                 ELSE [down[x] EXCEPT ![conn[x]] = Append(down[x][conn[x]], f)]
  <2>1. down' = Relay(f, status, conn)
    BY <1>2 DEF SetRoomPaused
  <2>2. Relay(f, status, conn)[x] =
          IF status[x] # "online" \/ conn[x] = 0 \/ conn[x] \in broken[x] THEN down[x]
          ELSE [down[x] EXCEPT ![conn[x]] = Append(down[x][conn[x]], f)]
    <3>1. PICK st, cn : st = status /\ cn = conn
      OBVIOUS
    <3>2. cn[x] \in Stream \cup {0}
      BY <3>1, MemberTypes
    <3>3. Relay(f, st, cn)[x] =
            IF st[x] # "online" \/ cn[x] = 0 \/ cn[x] \in broken[x] THEN down[x]
            ELSE [down[x] EXCEPT ![cn[x]] = Append(down[x][cn[x]], f)]
      BY <3>2, RelayHere
    <3> QED BY <3>1, <3>3
  <2> QED BY <2>1, <2>2
<1>5. CASE status[x] = "committing" /\ paused'
  <2>1. /\ status'[x] = "gone" /\ broken'[x] = broken[x] \cup {1}
        /\ \A s \in Stream : up'[x][s] = IF s = 1 THEN <<>> ELSE up[x][s]
    BY <1>5, MemberTypes DEF SetRoomPaused
  <2>2. down'[x] = down[x] /\ conn[x] = 0
    BY <1>4, <1>5 DEF Flow, Placed
  <2>3. dials[x] \in Nat /\ dials[x] # 0 /\ Len(log') >= Len(log)
    BY <1>1, <1>5, MemberTypes DEF Flow, Placed
  <2>4. \A s \in Stream : s > dials[x] => s # 1
    BY <2>3 DEF Stream
  <2> QED BY <1>1, <1>5, <2>1, <2>2, <2>3, <2>4, NotOpened, Unasked, QuietFlow
<1>6. CASE ~(status[x] = "committing" /\ paused')
  <2>1. status'[x] = status[x] /\ broken'[x] = broken[x] /\ up'[x] = up[x]
    BY <1>6 DEF SetRoomPaused
  <2>2. Bystander(x)
    BY <1>1, <1>3, <1>4, <2>1 DEF Bystander, Sent
  <2> QED BY <2>2, BystanderFlow
<1> QED BY <1>5, <1>6

LEMMA CommitAdmissionFlow ==
    ASSUME DeliveryInv, TypeOK', NEW m \in Member, CommitAdmission(m)
    PROVE  \A x \in Member : Flow(x)'
<1> USE DEF DeliveryInv
<1>1. PICK e \in Event : Commit(e)
  BY DEF CommitAdmission, Event
<1>2. /\ resume' = resume /\ phase' = phase /\ gconn' = gconn /\ dials' = dials
      /\ lastSeq' = lastSeq /\ up' = up /\ broken' = broken
      /\ down' = Relayed(status', conn')
  BY DEF CommitAdmission, guestVars
<1>3. status[m] = "committing" /\ status'[m] = "online" /\ conn'[m] = 1
  BY DEF CommitAdmission, TypeOK, HostTypeOK
<1>4. \A x \in Member \ {m} : Bystander(x)
  <2>1. \A x \in Member \ {m} : status'[x] = status[x] /\ conn'[x] = conn[x]
    BY DEF CommitAdmission
  <2> QED BY <1>1, <1>2, <2>1, CommitBystander
<1> DEFINE f == RoomEvent(Len(log) + 1)
<1>5. f \in HostFrame /\ f.type = "ROOM_EVENT" /\ f.seq = Len(log) + 1 /\ Numbered(f) /\ ~IsResync(f)
  BY NewestEvent
<1>6. Sent(m, 1, f)
  BY <1>2, <1>3, StreamOne, EventSent
<1> HIDE DEF f
<1>7. /\ Len(log') = Len(log) + 1 /\ Len(log) \in Nat /\ 1 \in Stream \cup {0}
      /\ dials[m] \in Nat /\ dials[m] # 0
  BY <1>1, <1>3, Appended, StreamOne, MemberTypes DEF Flow, Placed
<1>8. /\ resume[m].stream <= dials[m] /\ resume[m].stream # 1
      /\ resume[m] # NoResume => resume[m].stream # 0
      /\ resume[m] # NoResume /\ resume[m].stream \notin broken[m] =>
           Reach(down[m][resume[m].stream], lastSeq[m], resume[m].cursor)
  BY DEF Flow, Placed, Asked, Covered
<1>9. Flow(m)'
  BY <1>2, <1>3, <1>5, <1>6, <1>7, <1>8, NotOpened, Unasked, SentFlow
<1> QED BY <1>4, <1>9, BystanderFlow

LEMMA LoseMemberFlow ==
    ASSUME DeliveryInv, TypeOK', NEW m \in Member, LoseMember(m)
    PROVE  \A x \in Member : Flow(x)'
<1> USE DEF DeliveryInv
<1>1. PICK e \in Event : Commit(e)
  BY DEF LoseMember, Event
<1>2. /\ resume' = resume /\ phase' = phase /\ gconn' = gconn /\ dials' = dials
      /\ lastSeq' = lastSeq /\ broken' = broken /\ down' = Relayed(status', conn')
  BY DEF LoseMember, guestVars
<1>3. /\ status[m] = "online" /\ status'[m] = "reconnecting" /\ conn'[m] = 0
      /\ \A s \in Stream : up'[m][s] \in {up[m][s], <<>>}
  BY DEF LoseMember, TypeOK, HostTypeOK, NetTypeOK
<1>4. \A x \in Member \ {m} : Bystander(x)
  <2>1. \A x \in Member \ {m} : status'[x] = status[x] /\ conn'[x] = conn[x] /\ up'[x] = up[x]
    BY DEF LoseMember
  <2> QED BY <1>1, <1>2, <2>1, CommitBystander
<1>5. down'[m] = down[m]
  BY <1>2, <1>3, EventSent
<1>6. Len(log') >= Len(log)
  BY <1>1, Appended
<1>7. Flow(m)'
  BY <1>2, <1>3, <1>5, <1>6, NotOpened, Unasked, QuietFlow
<1> QED BY <1>4, <1>7, BystanderFlow

LEMMA RemoveFlow ==
    ASSUME DeliveryInv, TypeOK', NEW m \in Member, NEW notify, Remove(m, notify),
           status[m] # "out"
    PROVE  \A x \in Member : Flow(x)'
<1> USE DEF DeliveryInv
<1>1. PICK e \in Event : Commit(e)
  BY DEF Remove, Event
<1>2. /\ phase' = phase /\ gconn' = gconn /\ dials' = dials /\ lastSeq' = lastSeq
  BY DEF Remove, guestVars
<1>3. /\ status'[m] = "gone" /\ conn'[m] = 0 /\ resume'[m] = NoResume
      /\ broken'[m] = broken[m] \cup ({conn[m], resume[m].stream} \ {0})
      /\ \A s \in Stream : up'[m][s] \in {up[m][s], <<>>}
  BY DEF Remove, TypeOK, HostTypeOK, NetTypeOK
<1>4. PICK told : told = Relayed(status', conn')
  OBVIOUS
<1>5. /\ told \in [Member -> [Stream -> Seq(HostFrame)]]
      /\ down' = IF notify THEN Push(told, m, conn[m], [type |-> "REMOVED"]) ELSE told
  BY <1>4, RelayedType DEF Remove
<1>6. \A x \in Member \ {m} : down'[x] = told[x]
  BY <1>5 DEF Push
<1>7. \A x \in Member \ {m} : Bystander(x)
  <2>1. \A x \in Member \ {m} :
          /\ status'[x] = status[x] /\ conn'[x] = conn[x] /\ resume'[x] = resume[x]
          /\ broken'[x] = broken[x] /\ up'[x] = up[x]
    BY DEF Remove
  <2> QED BY <1>1, <1>2, <1>4, <1>6, <2>1, CommitBystander
<1>8. told[m] = down[m]
  <2>1. \A s \in Stream : told[m][s] = down[m][s]
    BY <1>3, <1>4 DEF Relayed, Relay
  <2>2. told[m] \in [Stream -> Seq(HostFrame)] /\ down[m] \in [Stream -> Seq(HostFrame)]
    BY <1>5, MemberTypes
  <2> QED BY <2>1, <2>2
<1>9. Len(log') >= Len(log)
  BY <1>1, Appended
<1>10. \A s \in Stream : s > dials[m] => up'[m][s] = <<>> /\ s \notin broken'[m]
  <2>1. \A s \in Stream : s > dials[m] => s # conn[m] /\ s # resume[m].stream
    BY MemberTypes DEF Stream, Flow, Placed
  <2> QED BY <1>3, <2>1, NotOpened
<1>11. \A s \in Stream : Repeats(up'[m][s], up[m][s])
  BY <1>3, Unasked
<1>12. Flow(m)'
  <2>1. CASE notify
    <3>1. PICK f : f = [type |-> "REMOVED"]
      OBVIOUS
    <3>2. f \in HostFrame /\ ~Carries(f) /\ ~IsResync(f) /\ f.type # "ROOM_EVENT"
      BY <3>1 DEF HostFrame, Carries, IsResync
    <3>3. Sent(m, conn[m], f)
      BY <1>5, <1>8, <2>1, <3>1 DEF Sent, Push
    <3>4. /\ conn[m] \in Stream \cup {0} /\ conn[m] <= dials[m] /\ conn'[m] <= dials[m]
          /\ resume'[m].stream <= dials[m] /\ resume'[m].stream # 1
      BY <1>3, MemberTypes DEF NoResume, Flow, Placed
    <3> QED BY <1>2, <1>3, <1>9, <1>10, <1>11, <3>2, <3>3, <3>4, SentFlow
  <2>2. CASE ~notify
    <3>1. down'[m] = down[m]
      BY <1>5, <1>8, <2>2
    <3> QED BY <1>2, <1>3, <1>9, <1>10, <1>11, <3>1, QuietFlow
  <2> QED BY <2>1, <2>2
<1> QED BY <1>7, <1>12, BystanderFlow

LEMMA RemovalFlow ==
    ASSUME DeliveryInv, TypeOK', NEW m \in Member,
           RemoveMember(m) \/ GraceTimeout(m) \/ HearLeave(m)
    PROVE  \A x \in Member : Flow(x)'
BY RemoveFlow DEF RemoveMember, GraceTimeout, HearLeave, Hears

\* The streams on which m is served, and what has been written to them.
LEMMA Holding ==
    ASSUME DeliveryInv, NEW m \in Member
    PROVE  /\ status[m] = "online" <=> conn[m] # 0
           /\ conn[m] <= dials[m] /\ resume[m].stream <= dials[m] /\ resume[m].stream # 1
           /\ resume[m] # NoResume => resume[m].stream # 0
           /\ status[m] = "online" /\ conn[m] \notin broken[m] =>
                Reach(down[m][conn[m]], lastSeq[m], Len(log))
           /\ resume[m] # NoResume /\ resume[m].stream \notin broken[m] =>
                Reach(down[m][resume[m].stream], lastSeq[m], resume[m].cursor)
BY DEF DeliveryInv, Flow, Placed, Asked, Covered

\* The first frame of a stream that the host has not served.
LEMMA Opening ==
    ASSUME DeliveryInv, NEW m \in Member, NEW s \in Stream, Opens(m, s, "RESUME_REQUEST")
    PROVE  /\ s > 1 /\ s <= dials[m] /\ status[m] # "out"
           /\ Head(up[m][s]).lastSeq \in Nat /\ Head(up[m][s]).lastSeq <= lastSeq[m]
           /\ up[m][s] # <<>> /\ Repeats(Tail(up[m][s]), up[m][s])
<1> USE DEF DeliveryInv
<1> DEFINE q == up[m][s]
<1>1. q \in Seq(GuestFrame) /\ q # <<>> /\ Head(q).type = "RESUME_REQUEST"
  BY MemberTypes DEF Opens
<1>2. 1 \in 1..Len(q) /\ q[1] = Head(q) /\ Head(q) \in GuestFrame
  <2> HIDE DEF q
  <2> QED BY <1>1
<1>3. s > 1 /\ Head(q).lastSeq <= lastSeq[m] /\ Head(q).lastSeq \in Nat
  BY <1>1, <1>2, GuestFields DEF Flow, Asked
<1>4. s \in Nat /\ dials[m] \in Nat /\ ~(s > dials[m])
  BY <1>1, MemberTypes, NotOpened DEF Stream
<1>5. dials[m] # 0
  BY <1>3, <1>4
<1> QED BY <1>1, <1>3, <1>4, <1>5, Requests DEF Flow, Placed

LEMMA RejectResumeFlow ==
    ASSUME DeliveryInv, TypeOK', NEW m \in Member, NEW s \in Stream, RejectResume(m, s)
    PROVE  \A x \in Member : Flow(x)'
<1> USE DEF DeliveryInv
<1>1. /\ log' = log /\ status' = status /\ conn' = conn /\ resume' = resume
      /\ phase' = phase /\ gconn' = gconn /\ dials' = dials /\ lastSeq' = lastSeq
  BY DEF RejectResume, hostVars, guestVars
<1>2. PICK f : f = [type |-> "RESUME_REJECT"]
  OBVIOUS
<1>3. f \in HostFrame /\ ~Carries(f) /\ ~IsResync(f) /\ f.type # "ROOM_EVENT"
  BY <1>2 DEF HostFrame, Carries, IsResync
<1>4. Sent(m, s, f) /\ \A x \in Member \ {m} : down'[x] = down[x]
  <2>1. down' = Push(down, m, s, f)
    BY <1>2 DEF RejectResume
  <2> QED BY <2>1 DEF Sent, Push, TypeOK, NetTypeOK
<1>5. /\ broken'[m] = broken[m] \cup {s} /\ \A t \in Stream : up'[m][t] \in {up[m][t], <<>>}
      /\ \A x \in Member \ {m} : up'[x] = up[x] /\ broken'[x] = broken[x]
  BY DEF RejectResume, TypeOK, NetTypeOK
<1>6. \A x \in Member \ {m} : Bystander(x)
  BY <1>1, <1>4, <1>5 DEF Bystander
<1>7. s <= dials[m] /\ s \in Stream \cup {0} /\ Len(log') >= Len(log)
  BY <1>1, MemberTypes, Opening DEF RejectResume
<1>8. \A t \in Stream : t > dials[m] => up'[m][t] = <<>> /\ t \notin broken'[m]
  <2>1. \A t \in Stream : t > dials[m] => t # s
    BY <1>7, MemberTypes DEF Stream
  <2> QED BY <1>5, <2>1, NotOpened
<1>9. \A t \in Stream : Repeats(up'[m][t], up[m][t])
  BY <1>5, Unasked
<1>10. Flow(m)'
  BY <1>1, <1>3, <1>4, <1>5, <1>7, <1>8, <1>9, Holding, SentFlow
<1> QED BY <1>6, <1>10, BystanderFlow

LEMMA AcceptResumeFlow ==
    ASSUME DeliveryInv, TypeOK', NEW m \in Member, NEW s \in Stream, AcceptResume(m, s)
    PROVE  \A x \in Member : Flow(x)'
<1> USE DEF DeliveryInv
<1>1. /\ phase' = phase /\ gconn' = gconn /\ dials' = dials /\ lastSeq' = lastSeq
  BY DEF AcceptResume, guestVars
<1>2. PICK last : last = Head(up[m][s]).lastSeq
  OBVIOUS
<1>3. /\ s > 1 /\ s <= dials[m] /\ status[m] # "out" /\ last \in Nat /\ last <= lastSeq[m]
      /\ up[m][s] # <<>> /\ Repeats(Tail(up[m][s]), up[m][s])
  BY <1>2, Opening DEF AcceptResume
<1>4. /\ resume' = [resume EXCEPT ![m] = [stream |-> s, cursor |-> last, upto |-> last]]
      /\ status' = [status EXCEPT ![m] = "reconnecting"] /\ conn' = [conn EXCEPT ![m] = 0]
  BY <1>2 DEF AcceptResume
<1>5. /\ resume'[m].stream = s /\ resume'[m].cursor = last
      /\ status'[m] = "reconnecting" /\ conn'[m] = 0
  BY <1>4 DEF TypeOK, HostTypeOK
<1>6. PICK f, told :
        /\ f.type = "RESUME_ACCEPT" /\ f \in HostFrame /\ ~Carries(f) /\ ~IsResync(f)
        /\ down' = Push(told, m, s, f)
        /\ \/ /\ Commit([type |-> "MEMBER_RECONNECTING", who |-> m, id |-> 0])
              /\ told = Relayed(status', conn')
              /\ broken' = [broken EXCEPT ![m] = @ \cup ({conn[m]} \ {0})]
              /\ up' = [up EXCEPT ![m][s] = Tail(@), ![m][conn[m]] = <<>>]
           \/ /\ log' = log /\ told = down
              /\ broken' = broken
              /\ up' = [up EXCEPT ![m][s] = Tail(@)]
  <2>1. \A n \in Nat : LET f == [type |-> "RESUME_ACCEPT", currentSeq |-> n, paused |-> paused]
                       IN  /\ f.type = "RESUME_ACCEPT" /\ f \in HostFrame
                           /\ ~Carries(f) /\ ~IsResync(f)
    BY DEF HostFrame, Carries, IsResync, TypeOK, HostTypeOK
  <2>2. Len(log) \in Nat /\ Len(log) + 1 \in Nat
    BY MemberTypes
  <2>3. CASE StillServed(m)
    <3>1. /\ Commit([type |-> "MEMBER_RECONNECTING", who |-> m, id |-> 0])
          /\ down' = Push(Relayed(status', conn'), m, s,
                [type |-> "RESUME_ACCEPT", currentSeq |-> Len(log) + 1, paused |-> paused])
          /\ broken' = [broken EXCEPT ![m] = @ \cup ({conn[m]} \ {0})]
          /\ up' = [up EXCEPT ![m][s] = Tail(@), ![m][conn[m]] = <<>>]
      BY <2>3 DEF AcceptResume
    <3> QED BY <2>1, <2>2, <3>1
  <2>4. CASE ~StillServed(m)
    <3>1. /\ log' = log /\ broken' = broken
          /\ down' = Push(down, m, s,
                [type |-> "RESUME_ACCEPT", currentSeq |-> Len(log), paused |-> paused])
          /\ up' = [up EXCEPT ![m][s] = Tail(@)]
      BY <2>4 DEF AcceptResume
    <3> QED BY <2>1, <2>2, <3>1
  <2> QED BY <2>3, <2>4
<1>7. [type |-> "MEMBER_RECONNECTING", who |-> m, id |-> 0] \in Event
  BY DEF Event
<1>8. \A x \in Member \ {m} :
        /\ down'[x] = told[x] /\ up'[x] = up[x] /\ broken'[x] = broken[x]
        /\ resume'[x] = resume[x] /\ status'[x] = status[x] /\ conn'[x] = conn[x]
  <2>1. \A x \in Member \ {m} : down'[x] = told[x]
    BY <1>6, RelayedType DEF Push, TypeOK, NetTypeOK
  <2>2. \A x \in Member \ {m} : up'[x] = up[x] /\ broken'[x] = broken[x]
    BY <1>6 DEF TypeOK, NetTypeOK
  <2> QED BY <1>4, <2>1, <2>2 DEF TypeOK, HostTypeOK
<1>9. \A x \in Member \ {m} : Bystander(x)
  <2>1. CASE /\ Commit([type |-> "MEMBER_RECONNECTING", who |-> m, id |-> 0])
             /\ told = Relayed(status', conn')
    BY <1>1, <1>7, <1>8, <2>1, CommitBystander
  <2>2. CASE log' = log /\ told = down
    BY <1>1, <1>8, <2>2 DEF Bystander
  <2> QED BY <1>6, <2>1, <2>2
<1>10. told[m] = down[m]
  <2>1. CASE told = Relayed(status', conn')
    <3>1. \A t \in Stream : told[m][t] = down[m][t]
      BY <1>5, <2>1 DEF Relayed, Relay
    <3>2. told[m] \in [Stream -> Seq(HostFrame)] /\ down[m] \in [Stream -> Seq(HostFrame)]
      BY <2>1, RelayedType, MemberTypes
    <3> QED BY <3>1, <3>2
  <2> QED BY <1>6, <2>1
<1>11. Sent(m, s, f)
  <2>1. told \in [Member -> [Stream -> Seq(HostFrame)]]
    BY <1>6, RelayedType DEF TypeOK, NetTypeOK
  <2> QED BY <1>6, <1>10, <2>1 DEF Sent, Push
<1>12. \A t \in Stream : up'[m][t] \in {up[m][t], <<>>} \/ (t = s /\ up'[m][t] = Tail(up[m][t]))
  <2>1. up \in [Member -> [Stream -> Seq(GuestFrame)]] /\ up[m] \in [Stream -> Seq(GuestFrame)]
    BY DEF TypeOK, NetTypeOK
  <2>2. CASE up' = [up EXCEPT ![m][s] = Tail(@)]
    BY <2>1, <2>2
  <2>3. CASE up' = [up EXCEPT ![m][s] = Tail(@), ![m][conn[m]] = <<>>]
    <3>1. up'[m] = [[up[m] EXCEPT ![s] = Tail(@)] EXCEPT ![conn[m]] = <<>>]
      BY <2>1, <2>3
    <3>2. \A t \in Stream : up'[m][t] = IF t = conn[m] THEN <<>>
                                        ELSE IF t = s THEN Tail(up[m][t]) ELSE up[m][t]
      BY <2>1, <3>1
    <3> QED BY <3>2
  <2> QED BY <1>6, <2>2, <2>3
<1>13. \A t \in Stream : Repeats(up'[m][t], up[m][t])
  BY <1>3, <1>12, Unasked
<1>14. broken[m] \subseteq broken'[m] /\ broken'[m] \subseteq broken[m] \cup {conn[m]}
  BY <1>6 DEF TypeOK, NetTypeOK
<1>15. \A t \in Stream : t > dials[m] => up'[m][t] = <<>> /\ t \notin broken'[m]
  <2>1. \A t \in Stream : t > dials[m] => t # s /\ t # conn[m]
    BY <1>3, Holding, MemberTypes DEF Stream
  <2> QED BY <1>12, <1>14, <2>1, NotOpened
<1>16. Len(log') >= Len(log)
  BY <1>6, <1>7, Appended, MemberTypes
<1>17. s \in Stream \cup {0} /\ s # 1 /\ s # 0 /\ 0 <= dials[m]
  BY <1>3, MemberTypes DEF Stream
<1>18. Reach(down[m][s], lastSeq[m], last)
  BY <1>3, MemberTypes DEF Reach
<1>19. f.type # "ROOM_EVENT"
  BY <1>6
<1>20. Flow(m)'
  BY <1>1, <1>3, <1>5, <1>6, <1>11, <1>13, <1>14, <1>15, <1>16, <1>17, <1>18, <1>19, SentFlow
<1> QED BY <1>9, <1>20, BystanderFlow

\* One write of a resume attempt: nothing else moves but its cursor.
LEMMA ReplayFlow ==
    ASSUME DeliveryInv, TypeOK', NEW m \in Member, NEW f \in HostFrame,
           log' = log, status' = status, conn' = conn, guestVars' = guestVars,
           up' = up, broken' = broken, down' = Push(down, m, resume[m].stream, f),
           resume[m] # NoResume, \A x \in Member \ {m} : resume'[x] = resume[x],
           resume'[m].stream = resume[m].stream, Numbered(f),
           f.seq <= Len(log), f.seq >= resume'[m].cursor,
           f.type = "ROOM_EVENT" => f.seq = resume[m].cursor + 1,
           IsResync(f) => f.seq = Len(log)
    PROVE  \A x \in Member : Flow(x)'
<1> USE DEF DeliveryInv
<1>1. phase' = phase /\ gconn' = gconn /\ dials' = dials /\ lastSeq' = lastSeq
  BY DEF guestVars
<1>2. PICK s : s = resume[m].stream
  OBVIOUS
<1>3. s \in Stream /\ s # 1 /\ s <= dials[m] /\ resume[m].cursor \in Nat /\ resume'[m].cursor \in Nat
  BY <1>2, Holding, MemberTypes, NextTypes
<1>4. Sent(m, s, f) /\ \A x \in Member \ {m} : down'[x] = down[x]
  BY <1>2 DEF Sent, Push, TypeOK, NetTypeOK
<1>5. \A x \in Member \ {m} : Bystander(x)
  BY <1>1, <1>4 DEF Bystander
<1>6. s \notin broken[m] => Reach(down[m][s], lastSeq[m], resume[m].cursor)
  BY <1>2, Holding
<1>7. f.type = "ROOM_EVENT" => f.seq - 1 = resume[m].cursor
  BY <1>3
<1>8. s # 0 /\ s \in Stream \cup {0} /\ Len(log') >= Len(log)
  BY <1>3, MemberTypes DEF Stream
<1>9. Flow(m)'
  BY <1>1, <1>2, <1>3, <1>4, <1>6, <1>7, <1>8, Holding, NotOpened, Unasked, SentFlow
<1> QED BY <1>5, <1>9, BystanderFlow

LEMMA ReplayEventFlow ==
    ASSUME DeliveryInv, TypeOK', NEW m \in Member, ReplayEvent(m)
    PROVE  \A x \in Member : Flow(x)'
<1> USE DEF DeliveryInv
<1>1. PICK f : f = RoomEvent(resume[m].cursor + 1)
  OBVIOUS
<1>2. resume[m].cursor \in Nat /\ resume[m].cursor < Len(log) /\ Len(log) \in Nat
  BY MemberTypes DEF ReplayEvent
<1>3. /\ f \in HostFrame /\ f.type = "ROOM_EVENT" /\ f.seq = resume[m].cursor + 1
      /\ Numbered(f) /\ ~IsResync(f)
  BY <1>1, <1>2 DEF RoomEvent, HostFrame, Numbered, IsResync
<1>4. /\ log' = log /\ status' = status /\ conn' = conn /\ guestVars' = guestVars
      /\ up' = up /\ broken' = broken /\ down' = Push(down, m, resume[m].stream, f)
      /\ resume[m] # NoResume /\ \A x \in Member \ {m} : resume'[x] = resume[x]
      /\ resume'[m].stream = resume[m].stream /\ resume'[m].cursor = resume[m].cursor + 1
  BY <1>1 DEF ReplayEvent, TypeOK, HostTypeOK
<1>5. f.seq <= Len(log) /\ f.seq >= resume'[m].cursor
  BY <1>2, <1>3, <1>4
<1> QED BY <1>3, <1>4, <1>5, ReplayFlow

LEMMA ReplayResyncFlow ==
    ASSUME DeliveryInv, TypeOK', NEW m \in Member, ReplayResync(m)
    PROVE  \A x \in Member : Flow(x)'
<1> USE DEF DeliveryInv
<1>1. PICK f : f = [type |-> "RESYNC_REQUIRED", seq |-> Len(log), roster |-> HostRoster]
  OBVIOUS
<1>2. Len(log) \in Nat /\ HostRoster \in Roster
  BY MemberTypes, RosterType
<1>3. /\ f \in HostFrame /\ f.type = "RESYNC_REQUIRED" /\ f.seq = Len(log) /\ Numbered(f)
  BY <1>1, <1>2 DEF HostFrame, Numbered
<1>4. /\ log' = log /\ status' = status /\ conn' = conn /\ guestVars' = guestVars
      /\ up' = up /\ broken' = broken /\ down' = Push(down, m, resume[m].stream, f)
      /\ resume[m] # NoResume /\ \A x \in Member \ {m} : resume'[x] = resume[x]
      /\ resume'[m].stream = resume[m].stream /\ resume'[m].cursor = Len(log)
  BY <1>1 DEF ReplayResync, TypeOK, HostTypeOK
<1>5. f.seq <= Len(log) /\ f.seq >= resume'[m].cursor
  BY <1>2, <1>3, <1>4
<1> QED BY <1>3, <1>4, <1>5, ReplayFlow

LEMMA ActivateResumeFlow ==
    ASSUME DeliveryInv, TypeOK', NEW m \in Member, ActivateResume(m)
    PROVE  \A x \in Member : Flow(x)'
<1> USE DEF DeliveryInv
<1>1. PICK e \in Event : Commit(e)
  BY DEF ActivateResume, Event
<1>2. PICK s : s = resume[m].stream
  OBVIOUS
<1>3. /\ phase' = phase /\ gconn' = gconn /\ dials' = dials
      /\ lastSeq' = lastSeq /\ up' = up /\ broken' = broken
      /\ down' = Relayed(status', conn')
  BY DEF ActivateResume, guestVars
<1>4. /\ resume[m] # NoResume /\ resume[m].cursor = Len(log) /\ status'[m] = "online"
      /\ conn'[m] = s /\ resume'[m] = NoResume
  BY <1>2 DEF ActivateResume, CaughtUp, TypeOK, HostTypeOK
<1>5. \A x \in Member \ {m} : Bystander(x)
  <2>1. \A x \in Member \ {m} : status'[x] = status[x] /\ conn'[x] = conn[x]
                               /\ resume'[x] = resume[x]
    BY DEF ActivateResume
  <2> QED BY <1>1, <1>3, <2>1, CommitBystander
<1>6. /\ s \in Stream \cup {0} /\ s <= dials[m] /\ s # 0 /\ s # 1
      /\ s \notin broken[m] => Reach(down[m][s], lastSeq[m], Len(log))
      /\ status[m] # "out"
  <2>1. s \in Stream \cup {0} /\ s <= dials[m] /\ s # 0 /\ s # 1
        /\ (s \notin broken[m] => Reach(down[m][s], lastSeq[m], Len(log)))
    BY <1>2, <1>4, Holding, MemberTypes
  <2>2. dials[m] # 0
    BY <2>1, MemberTypes DEF Stream
  <2> QED BY <2>1, <2>2 DEF Flow, Placed
<1> DEFINE f == RoomEvent(Len(log) + 1)
<1>7. f \in HostFrame /\ f.type = "ROOM_EVENT" /\ f.seq = Len(log) + 1 /\ Numbered(f) /\ ~IsResync(f)
  BY NewestEvent
<1>8. Sent(m, s, f)
  BY <1>3, <1>4, <1>6, EventSent
<1> HIDE DEF f
<1>9. /\ Len(log') = Len(log) + 1 /\ Len(log) \in Nat
      /\ NoResume.stream = 0 /\ 0 <= dials[m]
      /\ f.seq - 1 = Len(log) /\ f.seq <= Len(log') /\ f.seq >= Len(log') /\ Len(log') >= Len(log)
  BY <1>1, <1>7, Appended, MemberTypes DEF NoResume
<1>10. Flow(m)'
  BY <1>3, <1>4, <1>6, <1>7, <1>8, <1>9, NotOpened, Unasked, SentFlow
<1> QED BY <1>5, <1>10, BystanderFlow

\* The host takes a text from the stream it serves m on.
LEMMA Hearing ==
    ASSUME DeliveryInv, NEW m \in Member, Hears(m, "TEXT_SUBMIT"), Consume(m)
    PROVE  /\ conn[m] \in Stream /\ conn[m] <= dials[m] /\ status[m] = "online"
           /\ Head(up[m][conn[m]]).id \in Text
           /\ \A x \in Member \ {m} : up'[x] = up[x]
           /\ \A t \in Stream : Repeats(up'[m][t], up[m][t])
           /\ \A t \in Stream : t > dials[m] => up'[m][t] = <<>> /\ t \notin broken[m]
<1> USE DEF DeliveryInv
<1>1. /\ conn[m] \in Stream /\ conn[m] <= dials[m] /\ status[m] = "online"
      /\ Head(up[m][conn[m]]).id \in Text
  BY Heard, Holding DEF Hears
<1>2. /\ up[m][conn[m]] # <<>> /\ up[m][conn[m]] \in Seq(GuestFrame)
      /\ \A x \in Member \ {m} : up'[x] = up[x]
      /\ \A t \in Stream : up'[m][t] = IF t = conn[m] THEN Tail(up[m][t]) ELSE up[m][t]
  BY <1>1 DEF Hears, Consume, TypeOK, NetTypeOK
<1>3. Repeats(Tail(up[m][conn[m]]), up[m][conn[m]])
  BY <1>2, Requests
<1>4. \A t \in Stream : t > dials[m] => t # conn[m]
  BY <1>1, MemberTypes DEF Stream
<1> QED BY <1>1, <1>2, <1>3, <1>4, Unasked, NotOpened

\* A text that is answered with something other than a new event.
LEMMA AnsweredFlow ==
    ASSUME DeliveryInv, TypeOK', NEW m \in Member, Hears(m, "TEXT_SUBMIT"), Consume(m),
           hostVars' = hostVars, guestVars' = guestVars, broken' = broken,
           NEW f \in HostFrame, down' = Push(down, m, conn[m], f),
           f.type = "ACTION_REJECTED" \/ (f.type = "ROOM_EVENT" /\ f.seq <= Len(log))
    PROVE  \A x \in Member : Flow(x)'
<1> USE DEF DeliveryInv
<1>1. /\ log' = log /\ status' = status /\ conn' = conn /\ resume' = resume
      /\ phase' = phase /\ gconn' = gconn /\ dials' = dials /\ lastSeq' = lastSeq
  BY DEF hostVars, guestVars
<1>2. PICK s : s = conn[m]
  OBVIOUS
<1>3. /\ s \in Stream \cup {0} /\ s <= dials[m] /\ status[m] = "online"
      /\ \A x \in Member \ {m} : up'[x] = up[x]
      /\ \A t \in Stream : Repeats(up'[m][t], up[m][t])
      /\ \A t \in Stream : t > dials[m] => up'[m][t] = <<>> /\ t \notin broken'[m]
  BY <1>2, Hearing
<1>4. Sent(m, s, f) /\ \A x \in Member \ {m} : down'[x] = down[x]
  BY <1>2 DEF Sent, Push, TypeOK, NetTypeOK
<1>5. \A x \in Member \ {m} : Bystander(x)
  BY <1>1, <1>3, <1>4 DEF Bystander
<1>6. s \notin broken[m] => Reach(down[m][s], lastSeq[m], Len(log))
  BY <1>2, <1>3, Holding
<1>7. f.type = "ROOM_EVENT" /\ s \notin broken[m] => Reach(down[m][s], lastSeq[m], f.seq - 1)
  <2> SUFFICES ASSUME f.type = "ROOM_EVENT", s \notin broken[m]
               PROVE  Reach(down[m][s], lastSeq[m], f.seq - 1)
    OBVIOUS
  <2>1. /\ f.seq \in Nat /\ Len(log) \in Nat /\ f.seq <= Len(log) /\ lastSeq[m] \in Nat
        /\ s \in Stream
    BY <1>2, <1>3, HostFields, MemberTypes, Hearing
  <2>2. \A i \in 1..Len(down[m][s]) : Numbered(down[m][s][i]) => down[m][s][i].seq \in Nat
    <3>1. down[m][s] \in Seq(HostFrame)
      BY <2>1, MemberTypes
    <3> QED BY <3>1, NumberedType
  <2> QED BY <1>6, <2>1, <2>2 DEF Reach
<1>8. ~IsResync(f) /\ (Carries(f) => f.seq <= Len(log')) /\ Len(log') >= Len(log)
  BY <1>1, MemberTypes DEF IsResync, Carries
<1>9. Flow(m)'
  BY <1>1, <1>2, <1>3, <1>4, <1>7, <1>8, Holding, SentFlow
<1> QED BY <1>5, <1>9, BystanderFlow

LEMMA RejectPausedTextFlow ==
    ASSUME DeliveryInv, TypeOK', NEW m \in Member, RejectPausedText(m)
    PROVE  \A x \in Member : Flow(x)'
<1>1. PICK f : f = Rejection(Head(up[m][conn[m]]).id)
  OBVIOUS
<1>2. f \in HostFrame /\ f.type = "ACTION_REJECTED"
  BY <1>1, Heard DEF RejectPausedText, DeliveryInv, Rejection, HostFrame
<1> QED BY <1>1, <1>2, AnsweredFlow DEF RejectPausedText

LEMMA AnswerDuplicateFlow ==
    ASSUME DeliveryInv, TypeOK', NEW m \in Member, AnswerDuplicate(m)
    PROVE  \A x \in Member : Flow(x)'
<1>1. PICK k, e : /\ k = Head(up[m][conn[m]]).id /\ e \in Prior(m, k)
                  /\ down' = Push(down, m, conn[m], Again(k, e))
  BY DEF AnswerDuplicate
<1>2. PICK f : f = Again(k, e)
  OBVIOUS
<1>3. f \in HostFrame /\ (f.type = "ACTION_REJECTED" \/ (f.type = "ROOM_EVENT" /\ f.seq <= Len(log)))
  <2>1. k \in Text /\ e.seq \in Nat /\ Len(log) \in Nat
    <3>1. k \in Text /\ Len(log) \in Nat
      BY <1>1, Heard, MemberTypes DEF AnswerDuplicate, DeliveryInv
    <3>2. e \in [id : Text, seq : Nat]
      BY <1>1 DEF Prior, DeliveryInv, TypeOK, HostTypeOK
    <3> QED BY <3>1, <3>2
  <2>2. CASE InReplay(e.seq)
    BY <1>2, <2>1, <2>2 DEF Again, InReplay, RoomEvent, HostFrame
  <2>3. CASE ~InReplay(e.seq)
    BY <1>2, <2>1, <2>3 DEF Again, Rejection, HostFrame
  <2> QED BY <2>2, <2>3
<1>4. /\ Hears(m, "TEXT_SUBMIT") /\ Consume(m) /\ hostVars' = hostVars
      /\ guestVars' = guestVars /\ broken' = broken /\ down' = Push(down, m, conn[m], f)
  BY <1>1, <1>2 DEF AnswerDuplicate
<1> QED BY <1>3, <1>4, AnsweredFlow

LEMMA CommitTextFlow ==
    ASSUME DeliveryInv, TypeOK', NEW m \in Member, CommitText(m)
    PROVE  \A x \in Member : Flow(x)'
<1> USE DEF DeliveryInv
<1>1. Head(up[m][conn[m]]).id \in Nat
  BY Heard, GroupLogAssumption DEF CommitText, Text
<1>2. PICK e \in Event : Commit(e)
  BY <1>1 DEF CommitText, Event
<1>3. /\ status' = status /\ conn' = conn /\ resume' = resume /\ broken' = broken
      /\ phase' = phase /\ gconn' = gconn /\ dials' = dials /\ lastSeq' = lastSeq
      /\ down' = Relayed(status, conn)
  BY DEF CommitText, guestVars
<1>4. PICK s : s = conn[m]
  OBVIOUS
<1>5. /\ s \in Stream \cup {0} /\ s <= dials[m] /\ status[m] = "online"
      /\ \A x \in Member \ {m} : up'[x] = up[x]
      /\ \A t \in Stream : Repeats(up'[m][t], up[m][t])
      /\ \A t \in Stream : t > dials[m] => up'[m][t] = <<>> /\ t \notin broken'[m]
  BY <1>3, <1>4, Hearing DEF CommitText
<1>6. \A x \in Member \ {m} : Bystander(x)
  BY <1>2, <1>3, <1>5, CommitBystander
<1> DEFINE f == RoomEvent(Len(log) + 1)
<1>7. f \in HostFrame /\ f.type = "ROOM_EVENT" /\ f.seq = Len(log) + 1 /\ Numbered(f) /\ ~IsResync(f)
  BY NewestEvent
<1>8. Sent(m, s, f)
  BY <1>3, <1>4, <1>5, EventSent
<1> HIDE DEF f
<1>9. /\ Len(log') = Len(log) + 1 /\ Len(log) \in Nat
      /\ f.seq - 1 = Len(log) /\ f.seq <= Len(log') /\ f.seq >= Len(log') /\ Len(log') >= Len(log)
  BY <1>2, <1>7, Appended, MemberTypes
<1>10. s \notin broken[m] => Reach(down[m][s], lastSeq[m], Len(log))
  BY <1>4, <1>5, Holding
<1>11. Flow(m)'
  BY <1>3, <1>4, <1>5, <1>7, <1>8, <1>9, <1>10, Holding, SentFlow
<1> QED BY <1>6, <1>11, BystanderFlow

\* The applicant's first stream, with JOIN_ACCEPT on it.
LEMMA ApproveJoinFlow ==
    ASSUME DeliveryInv, TypeOK', NEW m \in Member, ApproveJoin(m)
    PROVE  \A x \in Member : Flow(x)'
<1> USE DEF DeliveryInv
<1>1. /\ log' = log /\ conn' = conn /\ resume' = resume /\ lastSeq' = lastSeq
      /\ up' = up /\ broken' = broken
  BY DEF ApproveJoin
<1>2. PICK f : f = [type |-> "JOIN_ACCEPT", seq |-> Len(log),
                    roster |-> [HostRoster EXCEPT ![m] = "online"]]
  OBVIOUS
<1>3. f.type = "JOIN_ACCEPT" /\ f.seq = Len(log) /\ ~Numbered(f) /\ ~IsResync(f)
  BY <1>2 DEF Numbered, IsResync
<1>4. /\ status[m] = "out" /\ status'[m] = "committing" /\ phase'[m] = "joining"
      /\ gconn'[m] = 1 /\ dials'[m] = 1
  BY DEF ApproveJoin, TypeOK, HostTypeOK, GuestTypeOK
<1>5. phase[m] = "out" /\ dials[m] = 0 /\ conn[m] = 0 /\ lastSeq[m] = 0
      /\ resume[m].stream = 0 /\ resume[m] = NoResume
  <2>1. phase[m] = "out" /\ dials[m] = 0 /\ lastSeq[m] = 0
    BY <1>4 DEF Flow, Placed, Order
  <2>2. conn[m] <= 0 /\ resume[m].stream <= 0
    BY <2>1, Holding
  <2> QED BY <2>1, <2>2, Holding, MemberTypes
<1>6. \A s \in Stream : s \in Nat /\ s > 0 /\ up[m][s] = <<>> /\ down[m][s] = <<>> /\ s \notin broken[m]
  BY <1>5, NotOpened DEF Stream
<1>7. down' = Push(down, m, 1, f)
  BY <1>2 DEF ApproveJoin
<1>8. /\ \A x \in Member \ {m} : down'[x] = down[x]
      /\ \A s \in Stream : s # 1 => down'[m][s] = <<>>
      /\ down'[m][1] = <<f>>
  <2>1. down' = [down EXCEPT ![m][1] = Append(@, f)]
    BY <1>6, <1>7, StreamOne DEF Push
  <2>2. down'[m][1] = Append(<<>>, f)
    BY <1>6, <2>1, StreamOne DEF TypeOK, NetTypeOK
  <2> QED BY <1>6, <2>1, <2>2 DEF TypeOK, NetTypeOK
<1>9. \A x \in Member \ {m} : Bystander(x)
  <2>1. \A x \in Member \ {m} : status'[x] = status[x] /\ phase'[x] = phase[x]
                               /\ gconn'[x] = gconn[x] /\ dials'[x] = dials[x]
    BY DEF ApproveJoin, TypeOK, HostTypeOK, GuestTypeOK
  <2> QED BY <1>1, <1>8, <2>1 DEF Bystander
<1>10. Placed(m)'
  <2>1. \A s \in Stream : s > 1 => s # 1
    BY <1>6
  <2>2. \A s \in Stream : ~(s < 1)
    BY <1>6
  <2> QED BY <1>1, <1>4, <1>5, <1>6, <1>8, <2>1, <2>2 DEF Placed
<1>11. Order(m)'
  <2>1. Len(log) \in Nat /\ f \in HostFrame
    <3>1. [HostRoster EXCEPT ![m] = "online"] \in Roster
      BY RosterType DEF Roster, Presence
    <3> QED BY <1>2, <3>1, MemberTypes DEF HostFrame
  <2>2. \A i \in 1..Len(<<f>>) : <<f>>[i] = f
    OBVIOUS
  <2>3. /\ Capped(<<f>>, Len(log)) /\ Rising(<<f>>) /\ Forward(<<f>>, 0)
        /\ \A i \in 1..Len(<<f>>) : ~IsResync(<<f>>[i])
    BY <1>3, <2>1, <2>2 DEF Capped, Rising, Forward
  <2>4. \A s, t \in Stream : t < s => Before(down'[m][t], down'[m][s])
    <3>1. \A s, t \in Stream : t < s => s # 1
      BY <1>6
    <3>2. Before(<<f>>, <<>>) /\ Before(<<>>, <<>>)
      BY DEF Before
    <3> QED BY <1>8, <3>1, <3>2
  <2>5. \A s \in Stream : s > 1 => Chained(down'[m][s], 0)
    BY <1>8 DEF Chained
  <2>6. \A s \in Stream : Capped(down'[m][s], Len(log)) /\ Rising(down'[m][s])
                          /\ Forward(down'[m][s], 0)
    BY <1>8, <2>1, <2>3, EmptyFlow DEF Rising, Capped, Forward
  <2> QED BY <1>1, <1>5, <1>8, <2>1, <2>3, <2>4, <2>5, <2>6 DEF Order
<1>12. Asked(m)'
  BY <1>1 DEF Flow, Asked
<1>13. Covered(m)'
  BY <1>1, <1>4, <1>5 DEF Covered
<1> QED BY <1>9, <1>10, <1>11, <1>12, <1>13, BystanderFlow DEF Flow

-----------------------------------------------------------------------------
(* The invariant, and what it means *)

LEMMA InitDelivery == Init => DeliveryInv
<1> SUFFICES ASSUME Init PROVE DeliveryInv
  OBVIOUS
<1>1. TypeOK
  BY InitType
<1> SUFFICES ASSUME NEW m \in Member PROVE Flow(m)
  BY <1>1 DEF DeliveryInv
<1>2. \A s \in Stream : s \in Nat /\ ~(s < 0) /\ up[m][s] = <<>> /\ down[m][s] = <<>>
  BY DEF Init, Stream
<1>3. Placed(m)
  BY <1>2 DEF Init, Placed, NoResume
<1>4. Order(m)
  BY <1>2, StreamOne DEF Init, Order, Capped, Rising, Forward, Before, Chained
<1>5. Asked(m)
  BY <1>2 DEF Init, Asked, NoResume
<1>6. Covered(m)
  BY DEF Init, Covered
<1> QED BY <1>3, <1>4, <1>5, <1>6 DEF Flow

LEMMA NextDelivery == DeliveryInv /\ [Next]_vars => DeliveryInv'
<1> SUFFICES ASSUME DeliveryInv, [Next]_vars PROVE DeliveryInv'
  OBVIOUS
<1>1. TypeOK'
  BY NextType DEF DeliveryInv
<1> SUFFICES \A x \in Member : Flow(x)'
  BY <1>1 DEF DeliveryInv
<1>2. CASE OwnerText
  BY <1>1, <1>2, OwnerTextFlow
<1>3. CASE SetRoomPaused
  BY <1>1, <1>3, SetRoomPausedFlow
<1>4. ASSUME NEW m \in Member, HostAction(m) PROVE \A x \in Member : Flow(x)'
  BY <1>1, <1>4, ApproveJoinFlow, CommitAdmissionFlow, DropPendingFlow, LoseMemberFlow,
     RemovalFlow, RejectResumeFlow, AcceptResumeFlow, ReplayEventFlow, ReplayResyncFlow,
     ActivateResumeFlow, AbandonResumeFlow, RejectPausedTextFlow, AnswerDuplicateFlow,
     CommitTextFlow
     DEF HostAction
<1>5. ASSUME NEW m \in Member, GuestAction(m) PROVE \A x \in Member : Flow(x)'
  BY <1>1, <1>5, JoinedFlow, ReadEventFlow, ReadUnusableEventFlow, ReadResyncFlow,
     ReadNoticeFlow, QuitSilentlyFlow, SubmitTextFlow, LeaveFlow, BeginRecoveryFlow,
     DialAgainFlow, ResubmitFlow, RecoveredFlow, ResumeFailedFlow
     DEF GuestAction
<1>6. ASSUME NEW m \in Member, NEW s \in Stream, Break(m, s) \/ Drop(m, s)
      PROVE  \A x \in Member : Flow(x)'
  BY <1>1, <1>6, BreakFlow, DropFlow
<1>7. CASE UNCHANGED vars
  BY <1>7 DEF vars, hostVars, guestVars, netVars, DeliveryInv, Flow, Placed, Order, Asked, Covered
<1> QED BY <1>2, <1>3, <1>4, <1>5, <1>6, <1>7 DEF Next

\* The streams of commitEvent, acceptResume and guestLoop fit together: in every
\* reachable state only a member's newest stream can be intact, and its frames take
\* the member from lastSeq to the end of the log, or to where its replay stands.
THEOREM DeliveryInvariant == Spec => []DeliveryInv
<1>1. Init => DeliveryInv
  BY InitDelivery
<1>2. DeliveryInv /\ [Next]_vars => DeliveryInv'
  BY NextDelivery
<1> QED BY <1>1, <1>2, PTL DEF Spec

\* On a resumed stream no event number is missing, however many streams were
\* lost before, whatever is committed between two writes of acceptResume's
\* replay loop, and whichever buffer sizes are configured.
THEOREM ResumedStreamHasNoGap == Spec => []NoGapAfterResume
<1>1. DeliveryInv => NoGapAfterResume
  <2> SUFFICES ASSUME DeliveryInv, NEW m \in Member, gconn[m] > 1
               PROVE  LET q == down[m][gconn[m]]
                      IN  \A i \in DOMAIN q : q[i].type = "ROOM_EVENT" =>
                            \/ q[i].seq <= lastSeq[m] + 1
                            \/ \E j \in 1..(i - 1) : Numbered(q[j]) /\ q[j].seq >= q[i].seq - 1
    BY DEF NoGapAfterResume
  <2>1. gconn[m] \in Stream /\ down[m][gconn[m]] \in Seq(HostFrame)
    BY MemberTypes DEF DeliveryInv
  <2>2. PICK q : q = down[m][gconn[m]]
    OBVIOUS
  <2>3. q \in Seq(HostFrame) /\ Chained(q, lastSeq[m])
    BY <2>1, <2>2 DEF DeliveryInv, Flow, Order
  <2>4. DOMAIN q = 1..Len(q)
    BY <2>3
  <2>5. \A i \in DOMAIN q : q[i].type = "ROOM_EVENT" =>
          \/ q[i].seq <= lastSeq[m] + 1
          \/ \E j \in 1..(i - 1) : Numbered(q[j]) /\ q[j].seq >= q[i].seq - 1
    BY <2>3, <2>4 DEF Chained
  <2> QED BY <2>2, <2>5
<1> QED BY <1>1, DeliveryInvariant, PTL

\* The host withholds nothing from an online member whose stream is intact:
\* what it has applied, and what commitEvent, the replay and acceptResume have
\* written to its stream, reach the end of the log.
THEOREM HostWithholdsNothing == Spec => []NothingWithheld
<1>1. DeliveryInv => NothingWithheld
  <2> SUFFICES ASSUME DeliveryInv, NEW m \in Member, status[m] = "online",
                      conn[m] \notin broken[m], lastSeq[m] # Len(log)
               PROVE  \E i \in DOMAIN down[m][conn[m]] :
                        Numbered(down[m][conn[m]][i]) /\ down[m][conn[m]][i].seq = Len(log)
    BY DEF NothingWithheld
  <2>1. PICK q : q = down[m][conn[m]]
    OBVIOUS
  <2>2. conn[m] \in Stream /\ q \in Seq(HostFrame) /\ lastSeq[m] \in Nat /\ Len(log) \in Nat
    BY <2>1, MemberTypes DEF DeliveryInv, Flow, Placed
  <2>3. Reach(q, lastSeq[m], Len(log)) /\ Capped(q, Len(log)) /\ lastSeq[m] <= Len(log)
    BY <2>1, <2>2 DEF DeliveryInv, Flow, Order, Covered
  <2>4. PICK i \in 1..Len(q) : Numbered(q[i]) /\ q[i].seq >= Len(log)
    BY <2>2, <2>3 DEF Reach
  <2>5. Carries(q[i]) /\ q[i].seq \in Nat
    BY <2>2, <2>4, NumberedType
  <2>6. q[i].seq = Len(log) /\ i \in DOMAIN q
    BY <2>2, <2>3, <2>4, <2>5 DEF Capped
  <2> QED BY <2>1, <2>4, <2>6
<1> QED BY <1>1, DeliveryInvariant, PTL

\* What a step may do to the number of the last event m has applied.
Onward(m) == lastSeq[m] <= lastSeq'[m] /\ lastSeq'[m] <= Len(log')

\* A member only ever moves forward, and never past the log, although
\* handleOwnerFrame takes over the number of RESYNC_REQUIRED without comparing it
\* with lastSeq: neither a replay nor a late frame of an old stream leads back.
THEOREM NobodyGoesBack == Spec => [][\A m \in Member : Onward(m)]_vars
<1>1. DeliveryInv /\ DeliveryInv' /\ [Next]_vars => [\A m \in Member : Onward(m)]_vars
  <2> SUFFICES ASSUME DeliveryInv, DeliveryInv', Next, NEW m \in Member
               PROVE  Onward(m)
    OBVIOUS
  <2>1. lastSeq'[m] <= Len(log') /\ lastSeq[m] \in Nat
    BY MemberTypes DEF DeliveryInv, Flow, Order
  <2>2. lastSeq[m] <= lastSeq'[m]
    <3>1. CASE lastSeq' = lastSeq
      BY <2>1, <3>1
    <3>2. ASSUME NEW x \in Member, Joined(x) PROVE lastSeq[m] <= lastSeq'[m]
      <4>1. x = m => lastSeq[m] = 0 /\ lastSeq'[m] \in Nat
        BY <3>2, NextTypes DEF Joined, DeliveryInv, Flow, Order
      <4>2. x # m => lastSeq'[m] = lastSeq[m]
        BY <3>2 DEF Joined
      <4> QED BY <2>1, <4>1, <4>2
    <3>3. ASSUME NEW x \in Member, ReadEvent(x) PROVE lastSeq[m] <= lastSeq'[m]
      <4>1. \/ lastSeq' = lastSeq
            \/ lastSeq' = [lastSeq EXCEPT ![x] = Received(x).seq] /\ Received(x).seq = lastSeq[x] + 1
        BY <3>3 DEF ReadEvent
      <4>2. lastSeq \in [Member -> Nat] /\ lastSeq[x] \in Nat
        BY DEF DeliveryInv, TypeOK, GuestTypeOK
      <4>3. lastSeq'[m] = lastSeq[m] \/ (x = m /\ lastSeq'[m] = lastSeq[m] + 1)
        BY <4>1, <4>2
      <4> QED BY <2>1, <4>3
    <3>4. ASSUME NEW x \in Member, ReadResync(x) PROVE lastSeq[m] <= lastSeq'[m]
      <4>1. Received(x).seq >= lastSeq[x]
        <5>1. Received(x).type = "RESYNC_REQUIRED"
          BY <3>4 DEF ReadResync, Reads, Received
        <5> QED BY <3>4, <5>1, ReadFrame, MemberTypes DEF ReadResync, IsResync, Carries, DeliveryInv
      <4>2. lastSeq' = [lastSeq EXCEPT ![x] = Received(x).seq]
        BY <3>4 DEF ReadResync
      <4> QED BY <2>1, <4>1, <4>2 DEF DeliveryInv, TypeOK, GuestTypeOK
    <3>5. ASSUME NEW x \in Member, HostAction(x) PROVE lastSeq' = lastSeq
      BY <3>5 DEF HostAction, ApproveJoin, CommitAdmission, DropPending, LoseMember, RemoveMember,
                  GraceTimeout, Remove, RejectResume, AcceptResume, ReplayEvent, ReplayResync,
                  ActivateResume, AbandonResume, RejectPausedText, AnswerDuplicate, CommitText,
                  HearLeave, guestVars
    <3>6. ASSUME NEW x \in Member, GuestAction(x), lastSeq' # lastSeq
          PROVE  Joined(x) \/ ReadEvent(x) \/ ReadResync(x)
      BY <3>6 DEF GuestAction, ReadUnusableEvent, ReadRejection, ReadPause, ReadRemoved,
                  SubmitText, Leave, FailJoin, BeginRecovery, DialAgain, ResumeAccepted,
                  Resubmit, Recovered, ResumeFailed, RecoveryTimeout, Quit
    <3>7. ASSUME OwnerText \/ SetRoomPaused
                 \/ \E x \in Member, s \in Stream : Break(x, s) \/ Drop(x, s)
          PROVE  lastSeq' = lastSeq
      BY <3>7 DEF OwnerText, SetRoomPaused, Break, Drop, guestVars
    <3> QED BY <3>1, <3>2, <3>3, <3>4, <3>5, <3>6, <3>7 DEF Next
  <2> QED BY <2>1, <2>2 DEF Onward
<1> QED BY <1>1, DeliveryInvariant, PTL DEF Spec
=============================================================================
