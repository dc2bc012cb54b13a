--------------------------- MODULE BridgeSession ---------------------------
(***************************************************************************)
(* A session of the WASM bridge (src/client_js.go): the page dials streams *)
(* through one client, at most maxSessionStreams dialing and open at once, *)
(* closes them, and closes the session, also while dials are in progress.  *)
(*                                                                         *)
(* A step is what a goroutine does under the mutex or between two calls    *)
(* into the network or JavaScript, where any other may run: close() gives  *)
(* up its streams one after the other, and a dial may still succeed after  *)
(* its context was cancelled.                                              *)
(***************************************************************************)
EXTENDS Integers, FiniteSets

CONSTANTS Dial,               \* dials of one session
          maxSessionStreams

VARIABLES closed,        \* jsSession.closed; its client is nil from then on
          pending,       \* jsSession.pending
          connections,   \* jsSession.connections
          giveUp,        \* the connections close() has yet to close
          client,        \* the client: "open", "closing" or "closed"
          dial           \* how far each dial has come, and its stream

vars == <<closed, pending, connections, giveUp, client, dial>>

Init == /\ closed = FALSE
        /\ pending = 0
        /\ connections = {}
        /\ giveUp = {}
        /\ client = "open"
        /\ dial = [d \in Dial |-> "idle"]

Is(st) == {d \in Dial : dial[d] \in st}
To(d, st) == dial' = [dial EXCEPT ![d] = st]

\* reserveDial.
ReserveDial(d) ==
  /\ dial[d] = "idle"
  /\ IF closed \/ pending + Cardinality(connections) >= maxSessionStreams
     THEN To(d, "failed") /\ UNCHANGED pending
     ELSE To(d, "dialing") /\ pending' = pending + 1
  /\ UNCHANGED <<closed, connections, giveUp, client>>

\* DialTCPPort returns an error, or nothing: finishFailedDial.
FinishFailedDial(d) ==
  /\ dial[d] = "dialing"
  /\ To(d, "failed")
  /\ pending' = IF pending > 0 THEN pending - 1 ELSE pending
  /\ UNCHANGED <<closed, connections, giveUp, client>>

\* It returns a connection, which is wrapped for the page.
Connected(d) ==
  /\ dial[d] = "dialing"
  /\ To(d, "connected")
  /\ UNCHANGED <<closed, pending, connections, giveUp, client>>

\* finishSuccessfulDial: the page is given the stream, unless the session was
\* closed meanwhile, when the stream is closed again.
FinishSuccessfulDial(d) ==
  /\ dial[d] = "connected"
  /\ pending' = IF pending > 0 THEN pending - 1 ELSE pending
  /\ IF closed
     THEN To(d, "closing") /\ UNCHANGED connections
     ELSE To(d, "open") /\ connections' = connections \cup {d}
  /\ UNCHANGED <<closed, giveUp, client>>

\* close() of a stream by the page: releaseConnection at once, the network
\* afterwards.
CloseStream(d) ==
  /\ dial[d] = "open"
  /\ To(d, "closing")
  /\ connections' = connections \ {d}
  /\ UNCHANGED <<closed, pending, giveUp, client>>

StreamClosed(d) ==
  /\ dial[d] = "closing"
  /\ To(d, "closed")
  /\ UNCHANGED <<closed, pending, connections, giveUp, client>>

\* close() of the session, under the mutex.
Close ==
  /\ ~closed
  /\ closed' = TRUE
  /\ connections' = {}
  /\ giveUp' = connections
  /\ UNCHANGED <<pending, client, dial>>

\* close() goes on to one of its streams, which may be closed already.
GiveUp(d) ==
  /\ d \in giveUp
  /\ giveUp' = giveUp \ {d}
  /\ dial' = [dial EXCEPT ![d] = IF @ = "open" THEN "closing" ELSE @]
  /\ UNCHANGED <<closed, pending, connections, client>>

\* With its streams given up, the client is closed in the background.
CloseClient ==
  /\ closed
  /\ giveUp = {}
  /\ \/ client = "open" /\ client' = "closing"
     \/ client = "closing" /\ client' = "closed"
  /\ UNCHANGED <<closed, pending, connections, giveUp, dial>>

Next == \/ \E d \in Dial : \/ ReserveDial(d)
                           \/ FinishFailedDial(d)
                           \/ Connected(d)
                           \/ FinishSuccessfulDial(d)
                           \/ CloseStream(d)
                           \/ StreamClosed(d)
                           \/ GiveUp(d)
        \/ Close
        \/ CloseClient

Spec == Init /\ [][Next]_vars

-----------------------------------------------------------------------------
TypeOK ==
  /\ closed \in BOOLEAN
  /\ pending \in 0 .. Cardinality(Dial)
  /\ {connections, giveUp} \subseteq SUBSET Dial
  /\ client \in {"open", "closing", "closed"}
  /\ dial \in [Dial -> {"idle", "dialing", "connected", "open", "closing",
                        "closed", "failed"}]

\* pending counts the dials under way and connections lists the streams the
\* page holds, through failures and a close at any point; a counter that
\* drifts refuses every later dial or lifts the bound.
CountersHonest ==
  /\ pending = Cardinality(Is({"dialing", "connected"}))
  /\ connections = (IF closed THEN {} ELSE Is({"open"}))

\* tailcatConnect: "At most maxSessionStreams streams may be active or dialing
\* at once", also while the session is being closed.
StreamBound ==
  Cardinality(Is({"dialing", "connected"})) + Cardinality(Is({"open"}))
    <= maxSessionStreams

\* Nothing outlives the session: once its client is being closed no stream is
\* open, and none opens later, whenever its dial ends.
NothingOutlives == client # "open" => Is({"open"}) = {}

=============================================================================
