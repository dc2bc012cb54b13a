------------------------ MODULE GroupAdmissionProofs ------------------------
(***************************************************************************)
(* Theorems about GroupAdmission, for any finite set of applicants and any *)
(* limits, and their proofs.  SeatBound is not inductive: an approval is   *)
(* only sound because the seats reserved by others are counted as well,    *)
(* which is what Reserved says.  A ghost member is excluded by a fact      *)
(* about everybody that is gone, whatever it believes (Sound).             *)
(***************************************************************************)
EXTENDS GroupAdmission, FiniteSetTheorems, TLAPS

HostType == [mode : {"owner", "closing", "none"}, roomPaused : BOOLEAN,
             joinsPaused : BOOLEAN, gen : 0 .. MaxToggle + 1, token : 0 .. MaxToggle]
EntryType == [st : {"none", "pending", "approving", "committing", "online",
                    "reconnecting", "gone"},
              token : 0 .. MaxToggle, gen : 0 .. MaxToggle + 1, proof : BOOLEAN]
GuestType == [mode : {"none", "pending", "member", "out"}, token : 0 .. MaxToggle,
              cancelling : BOOLEAN]
StreamType == [open : BOOLEAN, up : Seq({"JOIN", "CANCEL", "TEXT"}),
               down : Seq({"ACCEPT", "REJECT"})]

Types == /\ host \in HostType
         /\ entry \in [Guest -> EntryType]
         /\ guest \in [Guest -> GuestType]
         /\ stream \in [Guest -> StreamType]

\* Every pause and rotation counts, the beginning of the close once more.
Counted == /\ host.mode = "owner" => host.gen <= MaxToggle
           /\ host.token <= host.gen

Waiting == {"pending", "approving", "committing"}

\* What holds of one request, on its own.
Sound(g) ==
  /\ entry[g].st \notin Waiting => entry[g] = [NoEntry EXCEPT !.st = entry[g].st]
  /\ entry[g].st \in Waiting => entry[g].token = host.token
  /\ entry[g].st = "gone" => ~stream[g].open
  /\ guest[g].mode = "none" => entry[g].st = "none" /\ stream[g].up = <<>>

Occupied == In({"online", "reconnecting", "approving", "committing"})

Reserved == 1 + Cardinality(Occupied) <= MaxMembers
Listed == Cardinality(Pending) <= MaxPending

AdmissionInv == /\ Types
                /\ Counted
                /\ \A g \in Guest : Sound(g)
                /\ Reserved
                /\ Listed

-----------------------------------------------------------------------------
\* The requests that are counted are finitely many, and occupiedSeats is the
\* host with everybody who has a seat.
LEMMA Countable ==
  ASSUME AdmissionAssumption
  PROVE  /\ IsFiniteSet(Pending) /\ Cardinality(Pending) \in Nat
         /\ IsFiniteSet(Occupied) /\ Cardinality(Occupied) \in Nat
         /\ IsFiniteSet(Members) /\ Cardinality(Members) \in Nat
         /\ Cardinality(Members) <= Cardinality(Occupied)
         /\ OccupiedSeats = 1 + Cardinality(Occupied)
<1> DEFINE Approved == In({"approving", "committing"})
<1>1. /\ Pending \in SUBSET Guest
      /\ Occupied \in SUBSET Guest
      /\ Members \in SUBSET Guest
      /\ Approved \in SUBSET Guest
  BY DEF Pending, Occupied, Members, In
<1>2. /\ IsFiniteSet(Pending) /\ IsFiniteSet(Occupied)
      /\ IsFiniteSet(Members) /\ IsFiniteSet(Approved)
  BY <1>1, FS_Subset DEF AdmissionAssumption
<1>3. /\ Cardinality(Pending) \in Nat /\ Cardinality(Occupied) \in Nat
      /\ Cardinality(Members) \in Nat /\ Cardinality(Approved) \in Nat
  BY <1>2, FS_CardinalityType
<1>4. Occupied = Members \cup Approved /\ Members \cap Approved = {}
  BY DEF Occupied, Members, In
<1>5. Cardinality(Members \cap Approved) = 0
  BY <1>4, FS_EmptySet
<1>6. Cardinality(Occupied) = Cardinality(Members) + Cardinality(Approved)
                              - Cardinality(Members \cap Approved)
  BY <1>2, <1>4, FS_Union
<1>7. OccupiedSeats = 1 + Cardinality(Members) + Cardinality(Approved)
  BY DEF OccupiedSeats
<1> HIDE DEF Approved
<1> QED
  BY <1>2, <1>3, <1>5, <1>6, <1>7

\* A set of requests that only shrinks is not counted higher afterwards.
LEMMA Shrinks ==
  ASSUME NEW S, NEW T, IsFiniteSet(S), T \subseteq S
  PROVE  Cardinality(T) <= Cardinality(S)
  BY FS_Subset

\* One request more counts for one at most.
LEMMA OneMore ==
  ASSUME NEW S, NEW x, IsFiniteSet(S)
  PROVE  /\ IsFiniteSet(S \cup {x})
         /\ Cardinality(S \cup {x}) <= Cardinality(S) + 1
         /\ Cardinality(S \cup {x}) \in Nat
<1>1. Cardinality(S) \in Nat
  BY FS_CardinalityType
<1>2. IsFiniteSet(S \cup {x})
  BY FS_AddElement
<1>3. Cardinality(S \cup {x}) = IF x \in S THEN Cardinality(S) ELSE Cardinality(S) + 1
  BY FS_AddElement
<1>4. Cardinality(S \cup {x}) \in Nat
  BY <1>2, FS_CardinalityType
<1> QED
  BY <1>1, <1>2, <1>3, <1>4

\* Closing a stream, with or without last words, and reading or writing it,
\* keep its type.
LEMMA StreamOps ==
  ASSUME NEW s \in StreamType
  PROVE  /\ Closed(s) \in StreamType /\ ~Closed(s).open
         /\ Shut(s) \in StreamType /\ ~Shut(s).open
         /\ Told(s, "REJECT") \in StreamType /\ ~Told(s, "REJECT").open
         /\ s.up # <<>> => /\ [s EXCEPT !.up = Tail(@)] \in StreamType
                           /\ [s EXCEPT !.up = Tail(@)].open = s.open
         /\ s.down # <<>> => [s EXCEPT !.down = Tail(@)] \in StreamType
         /\ \A w \in {"ACCEPT", "REJECT"} :
              [s EXCEPT !.down = Append(@, w)] \in StreamType
         /\ [s EXCEPT !.up = Append(@, "CANCEL")] \in StreamType
         /\ [s EXCEPT !.up = <<"TEXT">>] \in StreamType
<1> DEFINE F == {"JOIN", "CANCEL", "TEXT"}
           D == {"ACCEPT", "REJECT"}
<1>1. s.open \in BOOLEAN /\ s.up \in Seq(F) /\ s.down \in Seq(D)
      /\ s = [open |-> s.open, up |-> s.up, down |-> s.down]
  BY DEF StreamType
<1>2. \A w \in D : Append(s.down, w) \in Seq(D)
  BY <1>1
<1>3. Append(s.up, "CANCEL") \in Seq(F) /\ <<>> \in Seq(F) /\ <<"TEXT">> \in Seq(F)
  BY <1>1
<1>4. s.up # <<>> => Tail(s.up) \in Seq(F)
  BY <1>1
<1>5. s.down # <<>> => Tail(s.down) \in Seq(D)
  BY <1>1
<1>6. Append(s.down, "REJECT") \in Seq(D)
  BY <1>2
<1> HIDE DEF F, D
<1>7. StreamType = [open : BOOLEAN, up : Seq(F), down : Seq(D)]
  BY DEF StreamType, F, D
<1> QED
  BY <1>1, <1>2, <1>3, <1>4, <1>5, <1>6, <1>7 DEF Closed, Shut, Told, D

-----------------------------------------------------------------------------
\* The room starts empty.
LEMMA InitInv ==
  ASSUME AdmissionAssumption, Init
  PROVE  AdmissionInv
<1>1. Types
  BY DEF Init, Types, HostType, EntryType, GuestType, StreamType, NoEntry, NoGuest,
         NoStream, AdmissionAssumption
<1>2. Counted /\ \A g \in Guest : Sound(g)
  BY DEF Init, Counted, Sound, NoEntry, NoGuest, NoStream, AdmissionAssumption, Waiting
<1>3. Pending = {} /\ Occupied = {}
  BY DEF Init, Pending, Occupied, In, NoEntry
<1>4. Cardinality(Pending) = 0 /\ Cardinality(Occupied) = 0
  BY <1>3, FS_EmptySet
<1>5. Reserved /\ Listed
  BY <1>4 DEF Reserved, Listed, AdmissionAssumption
<1> QED
  BY <1>1, <1>2, <1>5 DEF AdmissionInv

\* Most steps give nobody a seat or a place in the queue: what is left to show
\* of them is their types, and what holds of each request.
LEMMA NobodyEnters ==
  ASSUME AdmissionAssumption, AdmissionInv, Types', Counted', \A g \in Guest : Sound(g)',
         Pending' \subseteq Pending, Occupied' \subseteq Occupied
  PROVE  AdmissionInv'
<1>1. Cardinality(Pending') <= Cardinality(Pending)
  BY Countable, Shrinks
<1>2. Cardinality(Occupied') <= Cardinality(Occupied)
  BY Countable, Shrinks
<1>3. IsFiniteSet(Pending') /\ IsFiniteSet(Occupied')
  BY Countable, FS_Subset
<1>4. Cardinality(Pending') \in Nat /\ Cardinality(Occupied') \in Nat
  BY <1>3, FS_CardinalityType
<1>5. Listed'
  BY <1>1, <1>4, Countable DEF AdmissionInv, Listed, AdmissionAssumption
<1>6. Reserved'
  BY <1>2, <1>4, Countable DEF AdmissionInv, Reserved, AdmissionAssumption
<1> QED
  BY <1>5, <1>6 DEF AdmissionInv

\* The step touches the request of g only.
Only(g) == /\ host' = host
           /\ \A h \in Guest \ {g} : /\ entry'[h] = entry[h]
                                     /\ guest'[h] = guest[h]
                                     /\ stream'[h] = stream[h]

\* Nobody else can lose what holds of its request.
LEMMA OthersSound ==
  ASSUME AdmissionInv, NEW g \in Guest, Only(g), Sound(g)'
  PROVE  Counted' /\ \A h \in Guest : Sound(h)'
  BY DEF AdmissionInv, Only, Sound, Counted

\* A step of one request that takes no seat and no place in the queue.
LEMMA LocalStep ==
  ASSUME AdmissionAssumption, AdmissionInv, Types', NEW g \in Guest, Only(g), Sound(g)',
         entry'[g].st \in Waiting => entry[g].st \in Waiting,
         entry'[g].st \in {"online", "reconnecting", "approving", "committing"}
           => entry[g].st \in {"online", "reconnecting", "approving", "committing"}
  PROVE  AdmissionInv'
<1>1. Pending' \subseteq Pending /\ Occupied' \subseteq Occupied
  BY DEF Pending, Occupied, In, Only, Waiting
<1> QED
  BY <1>1, OthersSound, NobodyEnters

\* A request that is written: nobody has been counted before it is read.
LEMMA RequestInv ==
  ASSUME AdmissionAssumption, AdmissionInv, NEW g \in Guest, Request(g)
  PROVE  AdmissionInv'
<1>1. Only(g) /\ entry' = entry /\ guest'[g].mode = "pending"
  BY DEF Request, Only, AdmissionInv, Types, GuestType
<1>2. entry[g].st = "none"
  <2>1. guest[g].mode = "none"
    BY DEF Request, NoGuest
  <2> QED
    BY <2>1 DEF AdmissionInv, Sound
<1>3. [open |-> TRUE, up |-> <<"JOIN">>, down |-> <<>>] \in StreamType
  BY DEF StreamType
<1>4. Types'
  <2>1. host.token \in 0 .. MaxToggle /\ guest[g] \in GuestType
    BY DEF AdmissionInv, Types, HostType
  <2>2. guest' = [guest EXCEPT ![g] = [guest[g] EXCEPT !.mode = "pending",
                                                       !.token = host.token]]
    BY DEF Request
  <2>3. [guest[g] EXCEPT !.mode = "pending", !.token = host.token] \in GuestType
    BY <2>1 DEF GuestType
  <2> QED
    BY <1>1, <1>3, <2>1, <2>2, <2>3 DEF Request, AdmissionInv, Types
<1>5. Sound(g)'
  BY <1>1, <1>2 DEF AdmissionInv, Sound, Waiting, Only
<1> QED
  BY <1>1, <1>2, <1>4, <1>5, LocalStep DEF Waiting

\* The host lists a request only while maxPendingJoins allows one more, and
\* only with the token it holds itself.
LEMMA AcceptJoinRequestInv ==
  ASSUME AdmissionAssumption, AdmissionInv, NEW g \in Guest, AcceptJoinRequest(g)
  PROVE  AdmissionInv'
<1>1. Types /\ stream[g] \in StreamType /\ stream[g].up # <<>>
  BY DEF AcceptJoinRequest, HostReads, AdmissionInv, Types
<1>2. Read(g) \in StreamType /\ Read(g).open = stream[g].open
  BY <1>1, StreamOps DEF Read
<1>3. Told(Read(g), "REJECT") \in StreamType /\ ~Told(Read(g), "REJECT").open
  BY <1>2, StreamOps
<1>4. CASE TurnedAway(guest[g].token)
  <2>1. /\ Only(g) /\ entry' = entry /\ guest' = guest
        /\ stream' = [stream EXCEPT ![g] = Told(Read(g), "REJECT")]
    BY <1>4 DEF AcceptJoinRequest, Only, AdmissionInv, Types
  <2>2. Types'
    BY <1>3, <2>1 DEF Types, AdmissionInv, Only
  <2>3. Sound(g)'
    BY <1>1, <1>3, <2>1 DEF Sound, AdmissionInv, Types, Only
  <2> QED
    BY <2>1, <2>2, <2>3, LocalStep
<1>5. CASE ~TurnedAway(guest[g].token)
  <2>1. /\ Only(g) /\ host' = host /\ guest' = guest
        /\ stream' = [stream EXCEPT ![g] = Read(g)]
        /\ entry' = [entry EXCEPT ![g].st = "pending", ![g].token = guest[g].token]
    BY <1>5 DEF AcceptJoinRequest, Only, AdmissionInv, Types
  <2>2. entry[g] \in EntryType /\ guest[g].token \in 0 .. MaxToggle /\ guest[g] \in GuestType
    BY <1>1 DEF Types, GuestType
  <2> DEFINE e == [entry[g] EXCEPT !.st = "pending", !.token = guest[g].token]
  <2>3. entry' = [entry EXCEPT ![g] = e]
    BY <2>1
  <2>4. e \in EntryType /\ e.st = "pending" /\ e.token = guest[g].token
    BY <2>2 DEF EntryType
  <2> HIDE DEF e
  <2>5. Types'
    BY <1>1, <1>2, <2>1, <2>3, <2>4 DEF Types
  <2>6. entry'[g].st = "pending" /\ entry'[g].token = guest[g].token
    BY <1>1, <2>3, <2>4 DEF Types
  <2>7. guest[g].token = host.token /\ Cardinality(Pending) < MaxPending
    BY <1>5, Countable DEF TurnedAway, AdmissionAssumption
  <2>8. guest[g].mode # "none"
    BY <1>1 DEF AdmissionInv, Sound
  <2>9. Sound(g)'
    BY <2>1, <2>6, <2>7, <2>8 DEF Sound, Waiting
  <2>10. /\ Occupied' \subseteq Occupied
         /\ Pending' \subseteq Pending \cup {g}
    BY <2>1, <2>6 DEF Occupied, Pending, In, Only
  <2>11. Listed' /\ Reserved'
    <3>1. IsFiniteSet(Pending \cup {g})
          /\ Cardinality(Pending \cup {g}) <= Cardinality(Pending) + 1
      BY Countable, OneMore
    <3>2. Cardinality(Pending') <= Cardinality(Pending \cup {g})
          /\ Cardinality(Occupied') <= Cardinality(Occupied)
      BY <2>10, <3>1, Countable, Shrinks
    <3>3. /\ Cardinality(Pending') \in Nat /\ Cardinality(Occupied') \in Nat
          /\ Cardinality(Pending \cup {g}) \in Nat
      BY <2>10, <3>1, Countable, FS_Subset, FS_CardinalityType
    <3> QED
      BY <2>7, <3>1, <3>2, <3>3, Countable
      DEF AdmissionInv, Listed, Reserved, AdmissionAssumption
  <2> QED
    BY <2>1, <2>5, <2>9, <2>11, OthersSound DEF AdmissionInv
<1> QED
  BY <1>4, <1>5

-----------------------------------------------------------------------------
Gone == [NoEntry EXCEPT !.st = "gone"]

\* What is left of a request that was turned out: its state, and nothing of an
\* approval.
LEMMA GoneEntry ==
  ASSUME AdmissionAssumption
  PROVE  Gone \in EntryType /\ Gone.st = "gone" /\ Gone = [NoEntry EXCEPT !.st = Gone.st]
<1>1. 0 \in 0 .. MaxToggle /\ 0 \in 0 .. MaxToggle + 1
  BY DEF AdmissionAssumption
<1>2. Gone.st = "gone"
  BY DEF Gone, NoEntry
<1>3. Gone \in EntryType
  BY <1>1 DEF Gone, NoEntry, EntryType
<1>4. Gone = [NoEntry EXCEPT !.st = Gone.st]
  BY <1>2 DEF Gone
<1> QED
  BY <1>2, <1>3, <1>4

\* What a rejection with a notice and one without have in common: whoever is
\* turned out is gone and on a closed stream, and nobody else notices.
LEMMA TurnedOut ==
  ASSUME AdmissionAssumption, Types, NEW G \in SUBSET Guest, Rejected(G) \/ Dropped(G)
  PROVE  /\ entry' \in [Guest -> EntryType]
         /\ stream' \in [Guest -> StreamType]
         /\ \A g \in G : entry'[g] = Gone /\ ~stream'[g].open
         /\ \A g \in Guest \ G : entry'[g] = entry[g] /\ stream'[g] = stream[g]
<1>1. \A g \in Guest : entry[g] \in EntryType /\ stream[g] \in StreamType
  BY DEF Types
<1>2. entry' = [g \in Guest |-> IF g \in G THEN Gone ELSE entry[g]]
  BY DEF Rejected, Dropped, Gone
<1>3. entry' \in [Guest -> EntryType]
  BY <1>1, <1>2, GoneEntry
<1>4. CASE Rejected(G)
  <2>1. stream' = [g \in Guest |-> IF g \notin G THEN stream[g]
                                   ELSE IF entry[g].st = "committing" THEN Shut(stream[g])
                                   ELSE Told(stream[g], "REJECT")]
    BY <1>4 DEF Rejected
  <2> QED
    BY <1>1, <1>2, <1>3, <2>1, StreamOps
<1>5. CASE Dropped(G)
  <2>1. stream' = [g \in Guest |-> IF g \in G THEN Shut(stream[g]) ELSE stream[g]]
    BY <1>5 DEF Dropped
  <2> QED
    BY <1>1, <1>2, <1>3, <2>1, StreamOps
<1> QED
  BY <1>4, <1>5

\* A step that turns out the requests in G and does not move the token under
\* a request that still waits.
LEMMA TurnOutStep ==
  ASSUME AdmissionAssumption, AdmissionInv, NEW G \in SUBSET Guest,
         Rejected(G) \/ Dropped(G),
         \A g \in G : entry[g].st # "none",
         host' \in HostType, Counted', host'.token = host.token \/ Pending \subseteq G,
         guest' \in [Guest -> GuestType],
         \A g \in Guest : guest'[g].mode = "none" => guest[g].mode = "none"
  PROVE  AdmissionInv'
<1>1. Types /\ \A g \in Guest : Sound(g)
  BY DEF AdmissionInv
<1>2. /\ entry' \in [Guest -> EntryType]
      /\ stream' \in [Guest -> StreamType]
      /\ \A g \in G : entry'[g] = Gone /\ ~stream'[g].open
      /\ \A g \in Guest \ G : entry'[g] = entry[g] /\ stream'[g] = stream[g]
  BY <1>1, TurnedOut
<1>3. Types'
  BY <1>2 DEF Types
<1>4. ASSUME NEW g \in G PROVE Sound(g)'
  <2>1. entry'[g] = Gone /\ ~stream'[g].open
    BY <1>2
  <2>2. guest'[g].mode # "none"
    BY <1>1 DEF Sound
  <2> HIDE DEF Gone
  <2> QED
    BY <2>1, <2>2, GoneEntry DEF Sound, Waiting
<1>5. ASSUME NEW g \in Guest \ G PROVE Sound(g)'
  <2>1. entry'[g] = entry[g] /\ stream'[g] = stream[g]
    BY <1>2
  <2>2. entry[g].st \in Waiting => host'.token = host.token
    BY <1>5 DEF Pending, In, Waiting
  <2>3. Sound(g)
    BY <1>1
  <2> QED
    BY <2>1, <2>2, <2>3 DEF Sound
<1>6. \A g \in Guest : Sound(g)'
  BY <1>4, <1>5
<1>7. \A g \in Guest : entry'[g].st = "gone" \/ entry'[g] = entry[g]
  BY <1>2, GoneEntry
<1>8. Pending' \subseteq Pending /\ Occupied' \subseteq Occupied
  BY <1>7 DEF Pending, Occupied, In
<1> QED
  BY <1>3, <1>6, <1>8, NobodyEnters

\* The same when the step is about one request and the host stays as it is.
LEMMA TurnOutOne ==
  ASSUME AdmissionAssumption, AdmissionInv, NEW g \in Guest,
         Rejected({g}) \/ Dropped({g}), entry[g].st # "none",
         UNCHANGED <<host, guest>>
  PROVE  AdmissionInv'
<1>1. {g} \in SUBSET Guest
  OBVIOUS
<1>2. host' \in HostType /\ guest' \in [Guest -> GuestType] /\ Counted'
  BY DEF AdmissionInv, Types, Counted
<1> QED
  BY <1>1, <1>2, TurnOutStep

\* The host's user, a timer, a failed verification, a failed write and the
\* grace time end one request or stay.
LEMMA RejectInv ==
  ASSUME AdmissionAssumption, AdmissionInv, NEW g \in Guest,
         Reject(g) \/ VerifyFails(g) \/ CommitFails(g) \/ GraceTimeout(g)
  PROVE  AdmissionInv'
  BY TurnOutOne DEF Reject, VerifyFails, CommitFails, GraceTimeout

-----------------------------------------------------------------------------
\* An entry that changes its state, its generation or its proof keeps its type.
LEMMA EntryOps ==
  ASSUME AdmissionAssumption, NEW e \in EntryType, NEW n \in 0 .. MaxToggle + 1
  PROVE  /\ [e EXCEPT !.st = "approving", !.gen = n] \in EntryType
         /\ [e EXCEPT !.proof = TRUE] \in EntryType
         /\ [e EXCEPT !.st = "committing"] \in EntryType
         /\ [e EXCEPT !.st = "reconnecting"] \in EntryType
         /\ [e EXCEPT !.st = "online"] \in EntryType
         /\ [NoEntry EXCEPT !.st = "online"] \in EntryType
<1>1. 0 \in 0 .. MaxToggle /\ 0 \in 0 .. MaxToggle + 1
  BY DEF AdmissionAssumption
<1>2. [NoEntry EXCEPT !.st = "online"] \in EntryType
  BY <1>1 DEF NoEntry, EntryType
<1> QED
  BY <1>2 DEF EntryType

\* A seat is reserved only while one is free, and counted from then on.
LEMMA ApproveInv ==
  ASSUME AdmissionAssumption, AdmissionInv, NEW g \in Guest, Approve(g)
  PROVE  AdmissionInv'
<1> DEFINE allowed == ~host.roomPaused /\ ~host.joinsPaused /\ OccupiedSeats < MaxMembers
<1>1. entry[g].st = "pending" /\ UNCHANGED <<host, guest>>
  BY DEF Approve
<1>2. CASE ~allowed
  <2>1. Rejected({g})
    BY <1>2 DEF Approve
  <2> QED
    BY <1>1, <2>1, TurnOutOne
<1>3. CASE allowed
  <2>1. /\ entry' = [entry EXCEPT ![g].st = "approving", ![g].gen = host.gen]
        /\ stream' = stream
    BY <1>3 DEF Approve
  <2>2. entry[g] \in EntryType /\ host.gen \in 0 .. MaxToggle + 1 /\ Types
    BY DEF AdmissionInv, Types, HostType
  <2>3. Types'
    BY <1>1, <2>1, <2>2 DEF Types, EntryType
  <2>4. entry'[g].st = "approving" /\ entry'[g].token = entry[g].token
    BY <2>1, <2>2 DEF Types, EntryType
  <2>5. Only(g)
    BY <1>1, <2>1, <2>2 DEF Only, Types
  <2>6. Sound(g)'
    BY <1>1, <2>1, <2>4 DEF AdmissionInv, Sound, Waiting
  <2>7. Pending' \subseteq Pending /\ Occupied' \subseteq Occupied \cup {g}
    BY <1>1, <2>4, <2>5 DEF Pending, Occupied, In, Only
  <2>8. 1 + Cardinality(Occupied) < MaxMembers
    BY <1>3, Countable
  <2>9. Listed' /\ Reserved'
    <3>1. IsFiniteSet(Occupied \cup {g}) /\ Cardinality(Occupied \cup {g}) \in Nat
          /\ Cardinality(Occupied \cup {g}) <= Cardinality(Occupied) + 1
      BY Countable, OneMore
    <3>2. Cardinality(Occupied') <= Cardinality(Occupied \cup {g})
          /\ Cardinality(Pending') <= Cardinality(Pending)
      BY <2>7, <3>1, Countable, Shrinks
    <3>3. Cardinality(Pending') \in Nat /\ Cardinality(Occupied') \in Nat
      BY <2>7, <3>1, Countable, FS_Subset, FS_CardinalityType
    <3> QED
      BY <2>8, <3>1, <3>2, <3>3, Countable
      DEF AdmissionInv, Listed, Reserved, AdmissionAssumption
  <2> QED
    BY <2>3, <2>5, <2>6, <2>9, OthersSound DEF AdmissionInv
<1> QED
  BY <1>2, <1>3

\* The proof of the address changes nothing that is counted.
LEMMA AnswerInv ==
  ASSUME AdmissionAssumption, AdmissionInv, NEW g \in Guest, AnswerAddressChallenge(g)
  PROVE  AdmissionInv'
<1>1. /\ entry[g].st = "approving" /\ UNCHANGED <<host, guest, stream>>
      /\ entry' = [entry EXCEPT ![g].proof = TRUE] /\ entry[g] \in EntryType /\ Types
  BY DEF AnswerAddressChallenge, AdmissionInv, Types
<1>2. Types'
  BY <1>1 DEF Types, EntryType
<1>3. entry'[g].st = "approving" /\ entry'[g].token = entry[g].token
  BY <1>1 DEF Types, EntryType
<1>4. Only(g)
  BY <1>1 DEF Only, Types
<1>5. Sound(g)'
  BY <1>1, <1>3 DEF AdmissionInv, Sound, Waiting
<1> QED
  BY <1>1, <1>2, <1>3, <1>4, <1>5, LocalStep DEF Waiting

\* JOIN_ACCEPT is written in the name of a seat that is reserved already.
LEMMA VerifiedInv ==
  ASSUME AdmissionAssumption, AdmissionInv, NEW g \in Guest, Verified(g)
  PROVE  AdmissionInv'
<1>1. entry[g].st = "approving" /\ UNCHANGED <<host, guest>> /\ Types
      /\ entry[g] \in EntryType /\ stream[g] \in StreamType
  BY DEF Verified, AdmissionInv, Types
<1>2. CASE ~StillAllowed(g)
  <2>1. Rejected({g})
    BY <1>2 DEF Verified
  <2> QED
    BY <1>1, <2>1, TurnOutOne
<1>3. CASE StillAllowed(g)
  <2> DEFINE s == [stream[g] EXCEPT !.down =
                     IF stream[g].open THEN Append(@, "ACCEPT") ELSE @]
  <2>1. /\ entry' = [entry EXCEPT ![g].st = "committing"]
        /\ stream' = [stream EXCEPT ![g] = s]
    BY <1>3 DEF Verified
  <2>2. Append(stream[g].down, "ACCEPT") \in Seq({"ACCEPT", "REJECT"})
    BY <1>1 DEF StreamType
  <2>3. s \in StreamType
    BY <1>1, <2>2 DEF StreamType
  <2> HIDE DEF s
  <2>4. Types'
    BY <1>1, <2>1, <2>3 DEF Types, EntryType
  <2>5. entry'[g].st = "committing" /\ entry'[g].token = entry[g].token
    BY <1>1, <2>1 DEF Types, EntryType
  <2>6. Only(g)
    BY <1>1, <2>1 DEF Only, Types
  <2>7. Sound(g)'
    BY <1>1, <2>5 DEF AdmissionInv, Sound, Waiting
  <2> QED
    BY <1>1, <2>4, <2>5, <2>6, <2>7, LocalStep DEF Waiting
<1> QED
  BY <1>2, <1>3

\* The commit turns the reserved seat into a taken one.
LEMMA CommitInv ==
  ASSUME AdmissionAssumption, AdmissionInv, NEW g \in Guest, Commit(g)
  PROVE  AdmissionInv'
<1> DEFINE e == [NoEntry EXCEPT !.st = "online"]
<1>1. entry[g].st = "committing" /\ UNCHANGED <<host, guest, stream>> /\ Types
      /\ entry[g] \in EntryType /\ entry' = [entry EXCEPT ![g] = e]
  BY DEF Commit, AdmissionInv, Types
<1>2. e.st = "online"
  BY DEF NoEntry
<1>3. e \in EntryType
  BY <1>1, EntryOps DEF EntryType
<1>4. e = [NoEntry EXCEPT !.st = e.st]
  BY <1>2
<1> HIDE DEF e
<1>5. Types' /\ entry'[g] = e /\ Only(g)
  BY <1>1, <1>3 DEF Types, Only
<1>6. Sound(g)'
  BY <1>1, <1>2, <1>4, <1>5 DEF AdmissionInv, Sound, Waiting
<1> QED
  BY <1>1, <1>2, <1>5, <1>6, LocalStep DEF Waiting

\* The end of a stream turns out an applicant and makes a member wait.
LEMMA StreamEndsInv ==
  ASSUME AdmissionAssumption, AdmissionInv, NEW g \in Guest,
         entry[g].st # "none", StreamEnds(g), UNCHANGED <<host, guest>>
  PROVE  AdmissionInv'
<1>1. CASE g \in Members
  <2>1. /\ entry' = [entry EXCEPT ![g].st = "reconnecting"]
        /\ stream' = [stream EXCEPT ![g] = Shut(stream[g])]
        /\ entry[g] \in EntryType /\ stream[g] \in StreamType /\ Types
    BY <1>1 DEF StreamEnds, AdmissionInv, Types
  <2>2. entry[g].st \in {"online", "reconnecting"}
    BY <1>1 DEF Members, In
  <2>3. entry[g] = [NoEntry EXCEPT !.st = entry[g].st]
    BY <2>2 DEF AdmissionInv, Sound, Waiting
  <2> DEFINE e == [entry[g] EXCEPT !.st = "reconnecting"]
  <2>4. e \in EntryType /\ e.st = "reconnecting"
    BY <2>1 DEF EntryType
  <2>5. e = [NoEntry EXCEPT !.st = "reconnecting"]
    BY <2>2, <2>3 DEF NoEntry
  <2>6. entry' = [entry EXCEPT ![g] = e]
    BY <2>1
  <2> HIDE DEF e
  <2>7. Shut(stream[g]) \in StreamType
    BY <2>1, StreamOps
  <2>8. Types' /\ Only(g) /\ entry'[g] = e
    BY <2>1, <2>4, <2>6, <2>7 DEF Types, Only
  <2>9. guest[g].mode # "none"
    BY <2>2 DEF AdmissionInv, Sound
  <2>10. Sound(g)'
    BY <2>4, <2>5, <2>8, <2>9 DEF Sound, Waiting
  <2> QED
    BY <2>2, <2>4, <2>8, <2>10, LocalStep DEF Waiting
<1>2. CASE g \notin Members
  <2>1. Dropped({g})
    BY <1>2 DEF StreamEnds
  <2> QED
    BY <2>1, TurnOutOne
<1> QED
  BY <1>1, <1>2

\* The host reads: a text changes nothing here, all else ends the stream.
LEMMA ReadFrameInv ==
  ASSUME AdmissionAssumption, AdmissionInv, NEW g \in Guest, ReadFrame(g) \/ ReadEnd(g)
  PROVE  AdmissionInv'
<1>1. entry[g].st # "none" /\ UNCHANGED <<host, guest>>
  BY DEF ReadFrame, ReadEnd
<1>2. CASE StreamEnds(g)
  BY <1>1, <1>2, StreamEndsInv
<1>3. CASE ~StreamEnds(g)
  <2>1. stream' = [stream EXCEPT ![g] = Read(g)] /\ entry' = entry /\ stream[g].up # <<>>
    BY <1>3 DEF ReadFrame, ReadEnd
  <2>2. Types /\ stream[g] \in StreamType
    BY DEF AdmissionInv, Types
  <2>3. Read(g) \in StreamType /\ Read(g).open = stream[g].open
    BY <2>1, <2>2, StreamOps DEF Read
  <2>4. Types' /\ Only(g) /\ stream'[g].open = stream[g].open
    BY <1>1, <2>1, <2>2, <2>3 DEF Types, Only
  <2>5. Sound(g)'
    BY <1>1, <2>1, <2>4 DEF AdmissionInv, Sound, Only
  <2> QED
    BY <2>1, <2>4, <2>5, LocalStep
<1> QED
  BY <1>2, <1>3

\* A member that leaves or is removed is gone, and knows it.
LEMMA MemberGoneInv ==
  ASSUME AdmissionAssumption, AdmissionInv, NEW g \in Guest, MemberGone(g)
  PROVE  AdmissionInv'
<1>1. Dropped({g}) /\ host' = host /\ guest' = [guest EXCEPT ![g].mode = "out"]
      /\ entry[g].st # "none"
  BY DEF MemberGone, Members, In
<1>2. guest \in [Guest -> GuestType] /\ host \in HostType /\ Counted
  BY DEF AdmissionInv, Types
<1>3. guest' \in [Guest -> GuestType] /\ host' \in HostType /\ Counted'
  BY <1>1, <1>2 DEF GuestType, Counted
<1>4. \A h \in Guest : guest'[h].mode = "none" => guest[h].mode = "none"
  BY <1>1, <1>2 DEF GuestType
<1> QED
  BY <1>1, <1>3, <1>4, TurnOutStep

\* What the host keeps of the room keeps its type.
LEMMA HostOps ==
  ASSUME MaxToggle \in Nat, NEW h \in HostType
  PROVE  \A n \in 0 .. MaxToggle + 1 :
            /\ [h EXCEPT !.gen = n, !.joinsPaused = ~@] \in HostType
            /\ [h EXCEPT !.gen = n, !.roomPaused = ~@] \in HostType
            /\ [h EXCEPT !.mode = "closing", !.gen = n, !.roomPaused = TRUE,
                           !.joinsPaused = TRUE] \in HostType
            /\ \A t \in 0 .. MaxToggle : [h EXCEPT !.gen = n, !.token = t] \in HostType
<1>1. (~h.joinsPaused) \in BOOLEAN /\ (~h.roomPaused) \in BOOLEAN
  OBVIOUS
<1>2. ASSUME NEW n \in 0 .. MaxToggle + 1
      PROVE  /\ [h EXCEPT !.gen = n, !.joinsPaused = ~@] \in HostType
             /\ [h EXCEPT !.gen = n, !.roomPaused = ~@] \in HostType
  BY <1>1 DEF HostType
<1>3. ASSUME NEW n \in 0 .. MaxToggle + 1
      PROVE  [h EXCEPT !.mode = "closing", !.gen = n, !.roomPaused = TRUE,
                       !.joinsPaused = TRUE] \in HostType
  BY DEF HostType
<1>4. ASSUME NEW n \in 0 .. MaxToggle + 1, NEW t \in 0 .. MaxToggle
      PROVE  [h EXCEPT !.gen = n, !.token = t] \in HostType
  BY DEF HostType
<1> QED
  BY <1>2, <1>3, <1>4

\* Pauses, rotations and the close turn out whom they concern; a rotation, the
\* only one that changes the token, everybody who waits.
LEMMA HostInv ==
  ASSUME AdmissionAssumption, AdmissionInv,
         \/ SetJoinsPaused \/ SetRoomPaused \/ RotateInvitation
         \/ BeginClose \/ EndClose
  PROVE  AdmissionInv'
<1>1. /\ host \in HostType /\ Counted /\ MaxToggle \in Nat /\ Types
      /\ guest \in [Guest -> GuestType] /\ \A g \in Guest : Sound(g)
  BY DEF AdmissionInv, Types, AdmissionAssumption
<1>2. guest' = guest
  BY DEF SetJoinsPaused, SetRoomPaused, RotateInvitation, BeginClose, EndClose
<1>3. host' \in HostType /\ Counted'
  <2>1. /\ host.gen \in Nat /\ host.gen <= MaxToggle + 1 /\ host.token \in Nat
        /\ host.mode \in {"owner", "closing", "none"} /\ host.token <= MaxToggle
    BY <1>1 DEF HostType
  <2>2. CASE SetJoinsPaused
    <3>1. host.gen + 1 \in 0 .. MaxToggle /\ host.gen + 1 \in 0 .. MaxToggle + 1
      BY <1>1, <2>1, <2>2 DEF SetJoinsPaused, Toggle
    <3>2. host' \in HostType
      BY <1>1, <2>2, <3>1, HostOps DEF SetJoinsPaused
    <3>3. host'.gen = host.gen + 1 /\ host'.token = host.token
      BY <1>1, <2>2 DEF SetJoinsPaused, HostType
    <3> QED
      BY <1>1, <2>1, <3>1, <3>2, <3>3 DEF Counted
  <2>3. CASE SetRoomPaused
    <3>1. host.gen + 1 \in 0 .. MaxToggle /\ host.gen + 1 \in 0 .. MaxToggle + 1
      BY <1>1, <2>1, <2>3 DEF SetRoomPaused, Toggle
    <3>2. host' \in HostType
      BY <1>1, <2>3, <3>1, HostOps DEF SetRoomPaused
    <3>3. host'.gen = host.gen + 1 /\ host'.token = host.token
      BY <1>1, <2>3 DEF SetRoomPaused, HostType
    <3> QED
      BY <1>1, <2>1, <3>1, <3>2, <3>3 DEF Counted
  <2>4. CASE RotateInvitation
    <3>1. host.gen + 1 \in 0 .. MaxToggle + 1 /\ host.gen + 1 <= MaxToggle
          /\ host.token + 1 \in 0 .. MaxToggle
      BY <1>1, <2>1, <2>4 DEF RotateInvitation, Toggle, Counted
    <3>2. host' \in HostType
      BY <1>1, <2>4, <3>1, HostOps DEF RotateInvitation
    <3>3. host'.gen = host.gen + 1 /\ host'.token = host.token + 1
      BY <1>1, <2>4 DEF RotateInvitation, HostType
    <3> QED
      BY <1>1, <2>1, <3>1, <3>2, <3>3 DEF Counted
  <2>5. CASE BeginClose
    <3>1. host.gen + 1 \in 0 .. MaxToggle + 1
      BY <1>1, <2>1, <2>5 DEF BeginClose, Counted
    <3>2. host' \in HostType
      BY <1>1, <2>5, <3>1, HostOps DEF BeginClose
    <3>3. host'.gen = host.gen + 1 /\ host'.token = host.token /\ host'.mode = "closing"
      BY <1>1, <2>5 DEF BeginClose, HostType
    <3> QED
      BY <1>1, <2>1, <3>1, <3>2, <3>3 DEF Counted
  <2>6. CASE EndClose
    BY <1>1, <2>6 DEF EndClose, HostType, Counted
  <2> QED
    BY <2>2, <2>3, <2>4, <2>5, <2>6
<1>4. host'.token = host.token \/ RotateInvitation
  BY <1>1 DEF SetJoinsPaused, SetRoomPaused, BeginClose, EndClose, HostType
<1>5. CASE \E G \in SUBSET Guest : /\ Rejected(G) \/ Dropped(G)
                                   /\ \A g \in G : entry[g].st # "none"
                                   /\ RotateInvitation => Pending \subseteq G
  BY <1>1, <1>2, <1>3, <1>4, <1>5, TurnOutStep
<1>6. CASE UNCHANGED <<entry, stream>> /\ ~RotateInvitation
  <2>1. Types'
    BY <1>1, <1>2, <1>3, <1>6 DEF Types
  <2>2. \A g \in Guest : Sound(g)'
    BY <1>1, <1>2, <1>4, <1>6 DEF Sound
  <2>3. Pending' = Pending /\ Occupied' = Occupied
    BY <1>6 DEF Pending, Occupied, In
  <2> QED
    BY <1>3, <2>1, <2>2, <2>3, NobodyEnters
<1>7. \/ \E G \in SUBSET Guest : /\ Rejected(G) \/ Dropped(G)
                                 /\ \A g \in G : entry[g].st # "none"
                                 /\ RotateInvitation => Pending \subseteq G
      \/ UNCHANGED <<entry, stream>> /\ ~RotateInvitation
  <2>1. /\ Pending \in SUBSET Guest /\ \A g \in Pending : entry[g].st # "none"
        /\ In({"approving", "committing"}) \in SUBSET Guest
        /\ \A g \in In({"approving", "committing"}) : entry[g].st # "none"
        /\ Pending \cup Members \in SUBSET Guest
        /\ \A g \in Pending \cup Members : entry[g].st # "none"
    BY DEF Pending, Members, In
  <2>2. CASE RotateInvitation
    BY <2>1, <2>2 DEF RotateInvitation
  <2>3. CASE ~RotateInvitation /\ (SetJoinsPaused \/ SetRoomPaused)
    BY <2>1, <2>3 DEF SetJoinsPaused, SetRoomPaused, Revoked
  <2>4. CASE ~RotateInvitation /\ (BeginClose \/ EndClose)
    BY <2>1, <2>4 DEF BeginClose, EndClose
  <2> QED
    BY <2>2, <2>3, <2>4
<1> QED
  BY <1>5, <1>6, <1>7

-----------------------------------------------------------------------------
\* An applicant that gives up, or begins to, keeps its type.
LEMMA GuestOps ==
  ASSUME NEW a \in GuestType
  PROVE  /\ [a EXCEPT !.mode = "out"] \in GuestType
         /\ [a EXCEPT !.mode = "out"].mode = "out"
         /\ [a EXCEPT !.cancelling = TRUE] \in GuestType
         /\ [a EXCEPT !.cancelling = TRUE].mode = a.mode
  BY DEF GuestType

\* A step of an applicant: its own belief and its own stream may change, but a
\* closed stream stays closed and nothing becomes unwritten.
LEMMA GuestLocal ==
  ASSUME AdmissionAssumption, AdmissionInv, NEW g \in Guest,
         NEW a \in GuestType, NEW s \in StreamType,
         guest' = [guest EXCEPT ![g] = a], stream' = [stream EXCEPT ![g] = s],
         UNCHANGED <<host, entry>>,
         s.open => stream[g].open,
         a.mode = "none" => guest[g].mode = "none" /\ s.up = stream[g].up
  PROVE  AdmissionInv'
<1>1. Types
  BY DEF AdmissionInv
<1>2. Types' /\ Only(g) /\ entry' = entry /\ host' = host
      /\ guest'[g] = a /\ stream'[g] = s
  BY <1>1 DEF Types, Only
<1>3. Sound(g)'
  BY <1>2 DEF AdmissionInv, Sound
<1> QED
  BY <1>2, <1>3, LocalStep

\* The first answer is read.
LEMMA ReadAnswerInv ==
  ASSUME AdmissionAssumption, AdmissionInv, NEW g \in Guest, ReadAnswer(g)
  PROVE  AdmissionInv'
<1> DEFINE accepted == Head(stream[g].down) = "ACCEPT"
           rest == [stream[g] EXCEPT !.down = Tail(@)]
           m == IF accepted THEN "member" ELSE "out"
           a == [guest[g] EXCEPT !.mode = m]
           s == IF accepted THEN rest ELSE Closed(rest)
<1>1. /\ guest' = [guest EXCEPT ![g] = a] /\ stream' = [stream EXCEPT ![g] = s]
      /\ UNCHANGED <<host, entry>> /\ stream[g].down # <<>>
      /\ guest[g] \in GuestType /\ stream[g] \in StreamType
  BY DEF ReadAnswer, AdmissionInv, Types
<1>2. m \in {"none", "pending", "member", "out"} /\ m # "none"
  OBVIOUS
<1> HIDE DEF m
<1>3. a \in GuestType /\ a.mode = m
  BY <1>1, <1>2 DEF GuestType
<1>4. rest \in StreamType /\ rest.open = stream[g].open
  BY <1>1, StreamOps DEF StreamType
<1> HIDE DEF a, rest
<1>5. s \in StreamType /\ (s.open => stream[g].open)
  BY <1>4, StreamOps
<1> HIDE DEF s
<1> QED
  BY <1>1, <1>2, <1>3, <1>5, GuestLocal

\* The remaining steps of an applicant that do not concern the host's entry.
LEMMA GuestInv ==
  ASSUME AdmissionAssumption, AdmissionInv, NEW g \in Guest,
         \/ ReadNoAnswer(g) \/ Speak(g) \/ CancelJoin(g)
         \/ EndCancelJoin(g) \/ Break(g)
  PROVE  AdmissionInv'
<1>1. /\ guest \in [Guest -> GuestType] /\ stream \in [Guest -> StreamType]
      /\ guest[g] \in GuestType /\ stream[g] \in StreamType /\ Sound(g)
  BY DEF AdmissionInv, Types
<1>2. guest = [guest EXCEPT ![g] = guest[g]] /\ stream = [stream EXCEPT ![g] = stream[g]]
  BY <1>1
<1>3. CASE ReadNoAnswer(g)
  <2> DEFINE a == [guest[g] EXCEPT !.mode = "out"]
  <2>1. guest' = [guest EXCEPT ![g] = a] /\ UNCHANGED <<host, entry, stream>>
    BY <1>3 DEF ReadNoAnswer
  <2>2. a \in GuestType /\ a.mode = "out"
    BY <1>1, GuestOps
  <2> HIDE DEF a
  <2> QED
    BY <1>1, <1>2, <2>1, <2>2, GuestLocal
<1>4. CASE Speak(g)
  <2> DEFINE s == [stream[g] EXCEPT !.up = <<"TEXT">>]
  <2>1. stream' = [stream EXCEPT ![g] = s] /\ UNCHANGED <<host, entry, guest>>
        /\ guest[g].mode = "member" /\ stream[g].open
    BY <1>4 DEF Speak
  <2>2. s \in StreamType
    BY <1>1, StreamOps
  <2> HIDE DEF s
  <2> QED
    BY <1>1, <1>2, <2>1, <2>2, GuestLocal
<1>5. CASE CancelJoin(g)
  <2> DEFINE a == [guest[g] EXCEPT !.cancelling = TRUE]
             s == IF stream[g].open THEN [stream[g] EXCEPT !.up = Append(@, "CANCEL")]
                  ELSE stream[g]
  <2>1. /\ guest' = [guest EXCEPT ![g] = a] /\ UNCHANGED <<host, entry>>
        /\ guest[g].mode = "pending"
        /\ stream' = [stream EXCEPT ![g].up =
                        IF stream[g].open THEN Append(@, "CANCEL") ELSE @]
    BY <1>5 DEF CancelJoin
  <2>2. stream' = [stream EXCEPT ![g] = s]
    BY <1>1, <2>1 DEF StreamType
  <2>3. a \in GuestType /\ a.mode = guest[g].mode
    BY <1>1, GuestOps
  <2>4. s \in StreamType
    BY <1>1, StreamOps
  <2>5. s.open => stream[g].open
    BY <1>1 DEF StreamType
  <2> HIDE DEF a, s
  <2> QED
    BY <2>1, <2>2, <2>3, <2>4, <2>5, GuestLocal
<1>6. CASE EndCancelJoin(g)
  <2> DEFINE m == IF guest[g].mode = "pending" THEN "out" ELSE guest[g].mode
             a == [guest[g] EXCEPT !.cancelling = FALSE, !.mode = m]
  <2>1. /\ guest' = [guest EXCEPT ![g] = a]
        /\ stream' = [stream EXCEPT ![g] = Closed(stream[g])]
        /\ UNCHANGED <<host, entry>>
    BY <1>6 DEF EndCancelJoin
  <2>2. m \in {"none", "pending", "member", "out"} /\ (m = "none" => guest[g].mode = "none")
    BY <1>1 DEF GuestType
  <2> HIDE DEF m
  <2>3. a \in GuestType /\ a.mode = m
    BY <1>1, <2>2 DEF GuestType
  <2>4. Closed(stream[g]) \in StreamType /\ ~Closed(stream[g]).open
        /\ Closed(stream[g]).up = stream[g].up
    BY <1>1, StreamOps DEF Closed, StreamType
  <2> HIDE DEF a
  <2> QED
    BY <2>1, <2>2, <2>3, <2>4, GuestLocal
<1>7. CASE Break(g)
  <2>1. PICK quits \in BOOLEAN :
          guest' = [guest EXCEPT ![g].mode = IF quits THEN "out" ELSE @]
    BY <1>7 DEF Break
  <2> DEFINE m == IF quits THEN "out" ELSE guest[g].mode
             a == [guest[g] EXCEPT !.mode = m]
  <2>2. /\ guest' = [guest EXCEPT ![g] = a]
        /\ stream' = [stream EXCEPT ![g] = Closed(stream[g])]
        /\ UNCHANGED <<host, entry>>
    BY <1>7, <2>1 DEF Break
  <2>3. m \in {"none", "pending", "member", "out"} /\ (m = "none" => guest[g].mode = "none")
    BY <1>1 DEF GuestType
  <2> HIDE DEF m
  <2>4. a \in GuestType /\ a.mode = m
    BY <1>1, <2>3 DEF GuestType
  <2>5. Closed(stream[g]) \in StreamType /\ ~Closed(stream[g]).open
        /\ Closed(stream[g]).up = stream[g].up
    BY <1>1, StreamOps DEF Closed, StreamType
  <2> HIDE DEF a
  <2> QED
    BY <2>2, <2>3, <2>4, <2>5, GuestLocal
<1> QED
  BY <1>3, <1>4, <1>5, <1>6, <1>7

\* Whoever is taken back on a new stream still has its seat, so it is not gone.
LEMMA RecoverInv ==
  ASSUME AdmissionAssumption, AdmissionInv, NEW g \in Guest, Recover(g)
  PROVE  AdmissionInv'
<1>1. /\ Types /\ entry[g] \in EntryType /\ guest[g] \in GuestType
      /\ stream[g] \in StreamType /\ guest[g].mode = "member" /\ host' = host
  BY DEF Recover, AdmissionInv, Types
<1>2. CASE g \notin Members /\ UNCHANGED <<entry, stream>>
             /\ guest' = [guest EXCEPT ![g].mode = "out"]
  <2> DEFINE a == [guest[g] EXCEPT !.mode = "out"]
  <2>1. guest' = [guest EXCEPT ![g] = a] /\ stream' = [stream EXCEPT ![g] = stream[g]]
    BY <1>1, <1>2 DEF Types
  <2>2. a \in GuestType /\ a.mode = "out"
    BY <1>1, GuestOps
  <2> HIDE DEF a
  <2> QED
    BY <1>1, <1>2, <2>1, <2>2, GuestLocal
<1>3. CASE /\ entry[g].st = "reconnecting" /\ UNCHANGED guest
           /\ entry' = [entry EXCEPT ![g].st = "online"]
           /\ stream' = [stream EXCEPT ![g] = [NoStream EXCEPT !.open = TRUE]]
  <2> DEFINE e == [entry[g] EXCEPT !.st = "online"]
             s == [NoStream EXCEPT !.open = TRUE]
  <2>1. entry' = [entry EXCEPT ![g] = e] /\ stream' = [stream EXCEPT ![g] = s]
    BY <1>3
  <2>2. e \in EntryType /\ e.st = "online"
    BY <1>1 DEF EntryType
  <2>3. entry[g] = [NoEntry EXCEPT !.st = entry[g].st]
    BY <1>3 DEF AdmissionInv, Sound, Waiting
  <2>4. e = [NoEntry EXCEPT !.st = "online"]
    BY <1>3, <2>3 DEF NoEntry
  <2>5. s \in StreamType
    <3>1. /\ <<>> \in Seq({"JOIN", "CANCEL", "TEXT"})
          /\ <<>> \in Seq({"ACCEPT", "REJECT"})
      OBVIOUS
    <3>2. NoStream \in StreamType
      BY <3>1 DEF NoStream, StreamType
    <3> QED
      BY <3>2 DEF StreamType
  <2> HIDE DEF e, s
  <2>6. Types' /\ Only(g) /\ entry'[g] = e /\ guest'[g].mode = "member"
    BY <1>1, <1>3, <2>1, <2>2, <2>5 DEF Types, Only
  <2>7. Sound(g)'
    BY <2>2, <2>4, <2>6 DEF Sound, Waiting
  <2> QED
    BY <1>3, <2>2, <2>6, <2>7, LocalStep DEF Waiting
<1> QED
  BY <1>2, <1>3 DEF Recover

-----------------------------------------------------------------------------
\* Every step keeps the invariant.
LEMMA NextInv ==
  ASSUME AdmissionAssumption, AdmissionInv, [Next]_vars
  PROVE  AdmissionInv'
<1>1. CASE UNCHANGED vars
  BY <1>1 DEF vars, AdmissionInv, Types, Counted, Sound, Reserved, Listed, Occupied,
              Pending, In
<1>2. ASSUME NEW g \in Guest, HostStep(g)
      PROVE  AdmissionInv'
  BY <1>2, AcceptJoinRequestInv, ApproveInv, RejectInv, VerifiedInv, CommitInv,
     ReadFrameInv, MemberGoneInv DEF HostStep
<1>3. ASSUME NEW g \in Guest, GuestStep(g) \/ Break(g)
      PROVE  AdmissionInv'
  BY <1>3, RequestInv, AnswerInv, ReadAnswerInv, GuestInv, RecoverInv DEF GuestStep
<1> QED
  BY <1>1, <1>2, <1>3, HostInv DEF Next

\* The inductive invariant holds in every reachable state: seats are counted from
\* the reservation on, what waits holds the host's token, whoever is gone is cut
\* off (approvePending, rotateInvitation, rejectPending, dropPending).
THEOREM AdmissionInvariant == ASSUME AdmissionAssumption PROVE Spec => []AdmissionInv
<1>1. Init => AdmissionInv
  BY InitInv
<1>2. AdmissionInv /\ [Next]_vars => AdmissionInv'
  BY NextInv
<1> QED
  BY <1>1, <1>2, PTL DEF Spec

\* Every reachable state has its declared types, the host never lists more
\* requests than maxPendingJoins (acceptJoinRequest), and nothing of an approval
\* outlives it.
THEOREM AdmissionTypeCorrect == ASSUME AdmissionAssumption PROVE Spec => []TypeOK
<1>1. AdmissionInv => TypeOK
  <2> SUFFICES ASSUME AdmissionInv PROVE TypeOK
    OBVIOUS
  <2>1. \A g \in Guest \ Pending : entry[g] = [NoEntry EXCEPT !.st = entry[g].st]
    <3> SUFFICES ASSUME NEW g \in Guest \ Pending
                 PROVE  entry[g] = [NoEntry EXCEPT !.st = entry[g].st]
      OBVIOUS
    <3>1. entry[g].st \notin Waiting
      BY DEF Pending, In, Waiting
    <3> QED
      BY <3>1 DEF AdmissionInv, Sound
  <2> QED
    BY <2>1 DEF AdmissionInv, Types, Listed, TypeOK, HostType, EntryType, GuestType,
                StreamType
<1> QED
  BY <1>1, AdmissionInvariant, PTL

\* For any number of applicants, whose approvals overlap, fail and commit in any
\* order, the room never has more than maxMembers members: approvePending
\* reserves the seat before its first await.
THEOREM SeatsBounded == ASSUME AdmissionAssumption PROVE Spec => []SeatBound
<1>1. AdmissionInv => SeatBound
  BY Countable DEF AdmissionInv, Reserved, SeatBound, AdmissionAssumption
<1> QED
  BY <1>1, AdmissionInvariant, PTL

\* No request of an invitation that has been rotated away is still waiting, or
\* being approved, however rotateInvitation interleaves with the approvals.
THEOREM WaitingHoldTheToken == ASSUME AdmissionAssumption PROVE Spec => []PendingHasToken
<1>1. AdmissionInv => PendingHasToken
  BY DEF AdmissionInv, Sound, PendingHasToken, Pending, In, Waiting
<1> QED
  BY <1>1, AdmissionInvariant, PTL

\* Whoever believes to be a member although its admission was revoked sits on a
\* closed stream: each way out of the host's list closes the stream with it.
THEOREM NoGhosts == ASSUME AdmissionAssumption PROVE Spec => []NoGhostMember
<1>1. AdmissionInv => NoGhostMember
  BY DEF AdmissionInv, Sound, NoGhostMember
<1> QED
  BY <1>1, AdmissionInvariant, PTL
=============================================================================
