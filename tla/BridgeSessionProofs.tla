------------------------- MODULE BridgeSessionProofs -------------------------
(***************************************************************************)
(* Theorems about BridgeSession, for any finite set of dials and any       *)
(* bound, and their proofs.  The counters of the session are compared with *)
(* the dials and streams they count, so the proofs are about how one dial  *)
(* enters or leaves the finite sets Busy and Open.                         *)
(***************************************************************************)
EXTENDS BridgeSession, FiniteSetTheorems, TLAPS

\* What the theorems assume of the constants.
BridgeAssumption == /\ IsFiniteSet(Dial)
                    /\ maxSessionStreams \in Nat

State == {"idle", "dialing", "connected", "open", "closing", "closed", "failed"}

Busy == Is({"dialing", "connected"})
Open == Is({"open"})

Shape ==
  /\ closed \in BOOLEAN
  /\ connections \subseteq Dial
  /\ giveUp \subseteq Dial
  /\ client \in {"open", "closing", "closed"}
  /\ dial \in [Dial -> State]

\* Once closed, a stream that is still open is one close() has yet to reach,
\* and the client waits for all of them.
CloseOrder ==
  /\ closed => Open \subseteq giveUp
  /\ client # "open" => closed /\ giveUp = {}
  /\ giveUp # {} => closed

BridgeInv ==
  /\ Shape
  /\ CountersHonest
  /\ StreamBound
  /\ CloseOrder

-----------------------------------------------------------------------------
\* The dials and streams that are counted are finitely many.
LEMMA Countable ==
  ASSUME BridgeAssumption
  PROVE  /\ IsFiniteSet(Busy) /\ Cardinality(Busy) \in Nat
         /\ IsFiniteSet(Open) /\ Cardinality(Open) \in Nat
         /\ Cardinality(Busy) <= Cardinality(Dial)
<1>1. Busy \subseteq Dial /\ Open \subseteq Dial
  BY DEF Busy, Open, Is
<1> QED
  BY <1>1, FS_Subset, FS_CardinalityType DEF BridgeAssumption

\* An element that enters or leaves a finite set counts for one.
LEMMA OneMore ==
  ASSUME NEW S, NEW d, IsFiniteSet(S), d \notin S
  PROVE  /\ IsFiniteSet(S \cup {d})
         /\ Cardinality(S \cup {d}) = Cardinality(S) + 1
  BY FS_AddElement

LEMMA OneLess ==
  ASSUME NEW S, NEW d, IsFiniteSet(S), d \in S
  PROVE  /\ IsFiniteSet(S \ {d})
         /\ Cardinality(S \ {d}) = Cardinality(S) - 1
         /\ Cardinality(S) \in Nat
         /\ Cardinality(S) > 0
<1>1. /\ IsFiniteSet(S \ {d})
      /\ Cardinality(S \ {d}) = Cardinality(S) - 1
  BY FS_RemoveElement
<1>2. Cardinality(S) \in Nat /\ Cardinality(S \ {d}) \in Nat
  BY <1>1, FS_CardinalityType
<1> QED
  BY <1>1, <1>2

\* The session starts with nothing to count.
LEMMA InitInv ==
  ASSUME BridgeAssumption, Init
  PROVE  BridgeInv
<1>1. Busy = {} /\ Open = {}
  BY DEF Init, Busy, Open, Is
<1>2. Cardinality(Busy) = 0 /\ Cardinality(Open) = 0
  BY <1>1, FS_EmptySet
<1>3. Shape
  BY DEF Init, Shape, State
<1>4. CountersHonest
  BY <1>1, <1>2 DEF Init, CountersHonest, Busy, Open
<1>5. StreamBound
  BY <1>2 DEF StreamBound, Busy, Open, BridgeAssumption
<1>6. CloseOrder
  BY <1>1 DEF Init, CloseOrder
<1> QED
  BY <1>3, <1>4, <1>5, <1>6 DEF BridgeInv

\* A step that moves dial d to another state leaves every other dial alone, and
\* a set that d is in before and after, or neither, as it is.
LEMMA Moved ==
  ASSUME Shape, NEW d \in Dial, NEW st \in State,
         dial' = [dial EXCEPT ![d] = st]
  PROVE  /\ dial' \in [Dial -> State]
         /\ st \in {"dialing", "connected"} => Busy' = Busy \cup {d}
         /\ st \notin {"dialing", "connected"} => Busy' = Busy \ {d}
         /\ st \in {"dialing", "connected"} /\ d \in Busy => Busy' = Busy
         /\ st \notin {"dialing", "connected"} /\ d \notin Busy => Busy' = Busy
         /\ st = "open" => Open' = Open \cup {d}
         /\ st # "open" => Open' = Open \ {d}
         /\ st # "open" /\ d \notin Open => Open' = Open
<1>1. dial \in [Dial -> State]
  BY DEF Shape
<1>2. dial' \in [Dial -> State]
  BY <1>1
<1>3. st \in {"dialing", "connected"} => Busy' = Busy \cup {d}
  BY <1>1 DEF Busy, Is
<1>4. st \notin {"dialing", "connected"} => Busy' = Busy \ {d}
  BY <1>1 DEF Busy, Is
<1>5. st = "open" => Open' = Open \cup {d}
  BY <1>1 DEF Open, Is
<1>6. st # "open" => Open' = Open \ {d}
  BY <1>1 DEF Open, Is
<1> QED
  BY <1>2, <1>3, <1>4, <1>5, <1>6

\* What the invariant says of the counters, in the terms of this module.
LEMMA Counted ==
  ASSUME BridgeAssumption, BridgeInv
  PROVE  /\ Shape /\ CloseOrder
         /\ pending = Cardinality(Busy)
         /\ connections = (IF closed THEN {} ELSE Open)
         /\ Cardinality(Busy) + Cardinality(Open) <= maxSessionStreams
         /\ IsFiniteSet(Busy) /\ IsFiniteSet(Open)
         /\ Cardinality(Busy) \in Nat /\ Cardinality(Open) \in Nat
         /\ Cardinality(Busy) <= Cardinality(Dial)
         /\ maxSessionStreams \in Nat
  BY Countable DEF BridgeInv, CountersHonest, StreamBound, Busy, Open, BridgeAssumption

\* And what a step must leave true for the invariant to hold after it.
LEMMA Kept ==
  ASSUME Shape', CloseOrder',
         pending' = Cardinality(Busy)',
         connections' = (IF closed' THEN {} ELSE Open'),
         Cardinality(Busy)' + Cardinality(Open)' <= maxSessionStreams
  PROVE  BridgeInv'
  BY DEF BridgeInv, CountersHonest, StreamBound, Busy, Open

\* A dial that is admitted raises the count below the bound; one that is
\* refused changes nothing that is counted.
LEMMA ReserveDialInv ==
  ASSUME BridgeAssumption, BridgeInv, NEW d \in Dial, ReserveDial(d)
  PROVE  BridgeInv'
<1>1. d \notin Busy /\ d \notin Open
  BY DEF ReserveDial, Busy, Open, Is
<1>2. CASE closed \/ pending + Cardinality(connections) >= maxSessionStreams
  <2>1. To(d, "failed") /\ UNCHANGED <<pending, closed, connections, giveUp, client>>
    BY <1>2 DEF ReserveDial
  <2>2. dial' \in [Dial -> State] /\ Busy' = Busy /\ Open' = Open
    BY <1>1, <2>1, Moved, Counted DEF State, To
  <2>3. Shape'
    BY <2>1, <2>2, Counted DEF Shape
  <2>4. CloseOrder'
    BY <2>1, <2>2, Counted DEF CloseOrder
  <2> QED
    BY <2>1, <2>2, <2>3, <2>4, Counted, Kept
<1>3. CASE ~(closed \/ pending + Cardinality(connections) >= maxSessionStreams)
  <2>1. /\ To(d, "dialing") /\ pending' = pending + 1
        /\ UNCHANGED <<closed, connections, giveUp, client>>
    BY <1>3 DEF ReserveDial
  <2>2. dial' \in [Dial -> State] /\ Busy' = Busy \cup {d} /\ Open' = Open
    BY <1>1, <2>1, Moved, Counted DEF State, To
  <2>3. Cardinality(Busy') = Cardinality(Busy) + 1
    BY <1>1, <2>2, OneMore, Counted
  <2>4. ~closed /\ Cardinality(Busy) + Cardinality(Open) < maxSessionStreams
    BY <1>3, Counted
  <2>5. Shape'
    BY <2>1, <2>2, Counted DEF Shape
  <2>6. CloseOrder'
    BY <2>1, <2>2, Counted DEF CloseOrder
  <2>7. Cardinality(Busy)' + Cardinality(Open)' <= maxSessionStreams
    BY <2>2, <2>3, <2>4, Counted
  <2> QED
    BY <2>1, <2>2, <2>3, <2>5, <2>6, <2>7, Counted, Kept
<1> QED
  BY <1>2, <1>3

\* A dial that fails gives its reservation back.
LEMMA FinishFailedDialInv ==
  ASSUME BridgeAssumption, BridgeInv, NEW d \in Dial, FinishFailedDial(d)
  PROVE  BridgeInv'
<1>1. /\ To(d, "failed")
      /\ pending' = IF pending > 0 THEN pending - 1 ELSE pending
      /\ UNCHANGED <<closed, connections, giveUp, client>>
  BY DEF FinishFailedDial
<1>2. d \in Busy /\ d \notin Open
  BY DEF FinishFailedDial, Busy, Open, Is
<1>3. dial' \in [Dial -> State] /\ Busy' = Busy \ {d} /\ Open' = Open
  BY <1>1, <1>2, Moved, Counted DEF State, To
<1>4. Cardinality(Busy') = Cardinality(Busy) - 1 /\ Cardinality(Busy) > 0
  BY <1>2, <1>3, OneLess, Counted
<1>5. pending' = Cardinality(Busy')
  BY <1>1, <1>4, Counted
<1>6. Shape' /\ CloseOrder'
  BY <1>1, <1>3, Counted DEF Shape, CloseOrder
<1>7. Cardinality(Busy)' + Cardinality(Open)' <= maxSessionStreams
  BY <1>3, <1>4, Counted
<1> QED
  BY <1>1, <1>3, <1>5, <1>6, <1>7, Counted, Kept

\* A dial that has its connection is still counted as a dial.
LEMMA ConnectedInv ==
  ASSUME BridgeAssumption, BridgeInv, NEW d \in Dial, Connected(d)
  PROVE  BridgeInv'
<1>1. To(d, "connected") /\ UNCHANGED <<closed, pending, connections, giveUp, client>>
  BY DEF Connected
<1>2. d \in Busy /\ d \notin Open
  BY DEF Connected, Busy, Open, Is
<1>3. dial' \in [Dial -> State] /\ Busy' = Busy /\ Open' = Open
  BY <1>1, <1>2, Moved, Counted DEF State, To
<1>4. Shape' /\ CloseOrder'
  BY <1>1, <1>3, Counted DEF Shape, CloseOrder
<1> QED
  BY <1>1, <1>3, <1>4, Counted, Kept

\* A dial becomes a stream, so the sum stays the same, or is dropped when the
\* session was closed meanwhile.
LEMMA FinishSuccessfulDialInv ==
  ASSUME BridgeAssumption, BridgeInv, NEW d \in Dial, FinishSuccessfulDial(d)
  PROVE  BridgeInv'
<1>1. /\ pending' = IF pending > 0 THEN pending - 1 ELSE pending
      /\ UNCHANGED <<closed, giveUp, client>>
  BY DEF FinishSuccessfulDial
<1>2. d \in Busy /\ d \notin Open
  BY DEF FinishSuccessfulDial, Busy, Open, Is
<1>3. Cardinality(Busy \ {d}) = Cardinality(Busy) - 1 /\ Cardinality(Busy) > 0
  BY <1>2, OneLess, Counted
<1>4. CASE closed
  <2>1. To(d, "closing") /\ UNCHANGED connections
    BY <1>4 DEF FinishSuccessfulDial
  <2>2. dial' \in [Dial -> State] /\ Busy' = Busy \ {d} /\ Open' = Open
    BY <1>2, <2>1, Moved, Counted DEF State, To
  <2>3. Shape' /\ CloseOrder'
    BY <1>1, <2>1, <2>2, Counted DEF Shape, CloseOrder
  <2>4. /\ pending' = Cardinality(Busy)'
        /\ Cardinality(Busy)' + Cardinality(Open)' <= maxSessionStreams
    BY <1>1, <1>3, <2>2, Counted
  <2> QED
    BY <1>1, <1>4, <2>1, <2>2, <2>3, <2>4, Counted, Kept
<1>5. CASE ~closed
  <2>1. To(d, "open") /\ connections' = connections \cup {d}
    BY <1>5 DEF FinishSuccessfulDial
  <2>2. dial' \in [Dial -> State] /\ Busy' = Busy \ {d} /\ Open' = Open \cup {d}
    BY <1>2, <2>1, Moved, Counted DEF State, To
  <2>3. Cardinality(Open') = Cardinality(Open) + 1
    BY <1>2, <2>2, OneMore, Counted
  <2>4. Shape' /\ CloseOrder'
    BY <1>1, <1>5, <2>1, <2>2, Counted DEF Shape, CloseOrder
  <2>5. /\ pending' = Cardinality(Busy)'
        /\ Cardinality(Busy)' + Cardinality(Open)' <= maxSessionStreams
    BY <1>1, <1>3, <2>2, <2>3, Counted
  <2> QED
    BY <1>1, <1>5, <2>1, <2>2, <2>4, <2>5, Counted, Kept
<1> QED
  BY <1>4, <1>5

\* The page closes a stream: it leaves the list at once.
LEMMA CloseStreamInv ==
  ASSUME BridgeAssumption, BridgeInv, NEW d \in Dial, CloseStream(d)
  PROVE  BridgeInv'
<1>1. /\ To(d, "closing") /\ connections' = connections \ {d}
      /\ UNCHANGED <<closed, pending, giveUp, client>>
  BY DEF CloseStream
<1>2. d \in Open /\ d \notin Busy
  BY DEF CloseStream, Busy, Open, Is
<1>3. dial' \in [Dial -> State] /\ Busy' = Busy /\ Open' = Open \ {d}
  BY <1>1, <1>2, Moved, Counted DEF State, To
<1>4. Cardinality(Open') = Cardinality(Open) - 1
  BY <1>2, <1>3, OneLess, Counted
<1>5. Shape' /\ CloseOrder'
  BY <1>1, <1>3, Counted DEF Shape, CloseOrder
<1>6. Cardinality(Busy)' + Cardinality(Open)' <= maxSessionStreams
  BY <1>3, <1>4, Counted
<1> QED
  BY <1>1, <1>3, <1>5, <1>6, Counted, Kept

LEMMA StreamClosedInv ==
  ASSUME BridgeAssumption, BridgeInv, NEW d \in Dial, StreamClosed(d)
  PROVE  BridgeInv'
<1>1. To(d, "closed") /\ UNCHANGED <<closed, pending, connections, giveUp, client>>
  BY DEF StreamClosed
<1>2. d \notin Open /\ d \notin Busy
  BY DEF StreamClosed, Busy, Open, Is
<1>3. dial' \in [Dial -> State] /\ Busy' = Busy /\ Open' = Open
  BY <1>1, <1>2, Moved, Counted DEF State, To
<1>4. Shape' /\ CloseOrder'
  BY <1>1, <1>3, Counted DEF Shape, CloseOrder
<1> QED
  BY <1>1, <1>3, <1>4, Counted, Kept

\* close() takes over every stream that is open: the list says which.
LEMMA CloseInv ==
  ASSUME BridgeAssumption, BridgeInv, Close
  PROVE  BridgeInv'
<1>1. /\ ~closed /\ closed' = TRUE /\ connections' = {}
      /\ giveUp' = connections /\ UNCHANGED <<pending, client, dial>>
  BY DEF Close
<1>2. Busy' = Busy /\ Open' = Open
  BY <1>1 DEF Busy, Open, Is
<1>3. Shape'
  BY <1>1, Counted DEF Shape
<1>4. CloseOrder'
  BY <1>1, <1>2, Counted DEF CloseOrder
<1> QED
  BY <1>1, <1>2, <1>3, <1>4, Counted, Kept

\* One of them is given up; it is not open any more.
LEMMA GiveUpInv ==
  ASSUME BridgeAssumption, BridgeInv, NEW d \in Dial, GiveUp(d)
  PROVE  BridgeInv'
<1>1. /\ d \in giveUp /\ giveUp' = giveUp \ {d}
      /\ UNCHANGED <<closed, pending, connections, client>>
  BY DEF GiveUp
<1>2. closed /\ client = "open" /\ d \in Dial
  BY <1>1, Counted DEF CloseOrder
<1>3. CASE dial[d] = "open"
  <2>1. Shape /\ dial' = [dial EXCEPT ![d] = "closing"]
    BY <1>3, Counted DEF GiveUp
  <2>2. d \in Open /\ d \notin Busy
    BY <1>3 DEF Busy, Open, Is
  <2>3. dial' \in [Dial -> State] /\ Busy' = Busy /\ Open' = Open \ {d}
    BY <2>1, <2>2, Moved DEF State
  <2>4. Cardinality(Open') = Cardinality(Open) - 1
    BY <2>2, <2>3, OneLess, Counted
  <2>5. Shape' /\ CloseOrder'
    BY <1>1, <1>2, <2>3, Counted DEF Shape, CloseOrder
  <2>6. Cardinality(Busy)' + Cardinality(Open)' <= maxSessionStreams
    BY <2>3, <2>4, Counted
  <2> QED
    BY <1>1, <1>2, <2>3, <2>5, <2>6, Counted, Kept
<1>4. CASE dial[d] # "open"
  <2>1. dial' = dial
    BY <1>4, Counted DEF GiveUp, Shape
  <2>2. Busy' = Busy /\ Open' = Open /\ d \notin Open
    BY <1>4, <2>1 DEF Busy, Open, Is
  <2>3. Shape' /\ CloseOrder'
    BY <1>1, <1>2, <2>1, <2>2, Counted DEF Shape, CloseOrder
  <2> QED
    BY <1>1, <2>2, <2>3, Counted, Kept
<1> QED
  BY <1>3, <1>4

\* The client is closed after the last of them.
LEMMA CloseClientInv ==
  ASSUME BridgeAssumption, BridgeInv, CloseClient
  PROVE  BridgeInv'
<1>1. /\ closed /\ giveUp = {} /\ client' \in {"closing", "closed"}
      /\ UNCHANGED <<closed, pending, connections, giveUp, dial>>
  BY DEF CloseClient
<1>2. Busy' = Busy /\ Open' = Open
  BY <1>1 DEF Busy, Open, Is
<1>3. Shape'
  BY <1>1, Counted DEF Shape
<1>4. CloseOrder'
  BY <1>1, <1>2, Counted DEF CloseOrder
<1> QED
  BY <1>1, <1>2, <1>3, <1>4, Counted, Kept

LEMMA StutterInv ==
  ASSUME BridgeAssumption, BridgeInv, UNCHANGED vars
  PROVE  BridgeInv'
<1>1. Busy' = Busy /\ Open' = Open
  BY DEF vars, Busy, Open, Is
<1>2. Shape' /\ CloseOrder'
  BY <1>1, Counted DEF vars, Shape, CloseOrder
<1> QED
  BY <1>1, <1>2, Counted, Kept DEF vars

\* Every step keeps the invariant.
LEMMA NextInv ==
  ASSUME BridgeAssumption, BridgeInv, [Next]_vars
  PROVE  BridgeInv'
<1>1. ASSUME NEW d \in Dial, ReserveDial(d) PROVE BridgeInv'
  BY <1>1, ReserveDialInv
<1>2. ASSUME NEW d \in Dial, FinishFailedDial(d) PROVE BridgeInv'
  BY <1>2, FinishFailedDialInv
<1>3. ASSUME NEW d \in Dial, Connected(d) PROVE BridgeInv'
  BY <1>3, ConnectedInv
<1>4. ASSUME NEW d \in Dial, FinishSuccessfulDial(d) PROVE BridgeInv'
  BY <1>4, FinishSuccessfulDialInv
<1>5. ASSUME NEW d \in Dial, CloseStream(d) PROVE BridgeInv'
  BY <1>5, CloseStreamInv
<1>6. ASSUME NEW d \in Dial, StreamClosed(d) PROVE BridgeInv'
  BY <1>6, StreamClosedInv
<1>7. ASSUME NEW d \in Dial, GiveUp(d) PROVE BridgeInv'
  BY <1>7, GiveUpInv
<1>8. CASE Close
  BY <1>8, CloseInv
<1>9. CASE CloseClient
  BY <1>9, CloseClientInv
<1>10. CASE UNCHANGED vars
  BY <1>10, StutterInv
<1> QED
  BY <1>1, <1>2, <1>3, <1>4, <1>5, <1>6, <1>7, <1>8, <1>9, <1>10 DEF Next

\* The inductive invariant holds in every reachable state.
THEOREM BridgeInvariant == ASSUME BridgeAssumption PROVE Spec => []BridgeInv
<1>1. Init => BridgeInv
  BY InitInv
<1>2. BridgeInv /\ [Next]_vars => BridgeInv'
  BY NextInv
<1> QED
  BY <1>1, <1>2, PTL DEF Spec

\* What tailcatConnect documents, "at most maxSessionStreams streams may be
\* active or dialing at once", for any bound and any number of dials, with
\* failures and a close of the session at any point; and the counters the
\* admission of a dial goes by never drift from what they count.
THEOREM StreamsBounded ==
  ASSUME BridgeAssumption
  PROVE  Spec => []StreamBound /\ []CountersHonest
<1>1. BridgeInv => StreamBound /\ CountersHonest
  BY DEF BridgeInv
<1> QED
  BY <1>1, BridgeInvariant, PTL

\* Closing a session leaves no stream open behind its client, whenever a dial
\* that was in progress ends.
THEOREM SessionLeavesNothing ==
  ASSUME BridgeAssumption
  PROVE  Spec => []NothingOutlives
<1>1. BridgeInv => NothingOutlives
  BY DEF BridgeInv, CloseOrder, NothingOutlives, Open
<1> QED
  BY <1>1, BridgeInvariant, PTL

LEMMA BridgeTypes == ASSUME BridgeAssumption, BridgeInv PROVE TypeOK
<1>1. pending \in 0 .. Cardinality(Dial)
  <2>1. Cardinality(Dial) \in Nat
    BY FS_CardinalityType DEF BridgeAssumption
  <2> QED
    BY <2>1, Counted
<1>2. {connections, giveUp} \subseteq SUBSET Dial
  BY Counted DEF Shape
<1> QED
  BY <1>1, <1>2, Counted DEF TypeOK, Shape, State

\* Every reachable state has its declared types.
THEOREM BridgeTypeCorrect == ASSUME BridgeAssumption PROVE Spec => []TypeOK
BY BridgeTypes, BridgeInvariant, PTL

=============================================================================
