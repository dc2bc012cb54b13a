---------------------------- MODULE PrivateText -----------------------------
(***************************************************************************)
(* Texts of a private room (src/web/app.js): sendText queues them behind   *)
(* each other, one queue per session; each is a stream of its own that the *)
(* receiver answers with TEXT_ACK.  Here one page writes and the other one *)
(* reads; either may leave the session or enter the next one at any time.  *)
(*                                                                         *)
(* Abstracted: texts and their sizes, and the wording of failures.  A      *)
(* stream whose sender has given up may still be read.                     *)
(***************************************************************************)
EXTENDS Integers, Sequences, FiniteSets

CONSTANTS MaxText,     \* bound: texts, numbered as they are submitted
          MaxFrames,   \* APP_CONFIG.group.sendQueueMaxFrames
          MaxSession   \* bound: sessions

VARIABLES session,     \* activeSession of the writer and of the reader, or 0
          last,        \* the last session each of them has joined
          text,        \* what the writer shows of each text, and its session
          line,        \* the stream of each text
          shown        \* the texts the reader has displayed, in order

vars == <<session, last, text, line, shown>>

Texts == 1 .. MaxText
Sides == {"writer", "reader"}
Unsent == [state |-> "none", session |-> 0, queued |-> FALSE]

Init == /\ session = [p \in Sides |-> 1]
        /\ last = [p \in Sides |-> 1]
        /\ text = [m \in Texts |-> Unsent]
        /\ line = [m \in Texts |-> "none"]
        /\ shown = <<>>

\* The texts of session s whose turn is not over: its queue, oldest first.
Queued(s) == {m \in Texts : text[m].session = s /\ text[m].queued}

\* sendText, up to the promise of its turn.
SendText(m) ==
  LET s == session["writer"] IN
  /\ \A k \in Texts : (text[k] = Unsent) <=> (k >= m)
  /\ s # 0
  /\ Cardinality(Queued(s)) < MaxFrames
  /\ text' = [text EXCEPT ![m] = [state |-> "sending", session |-> s, queued |-> TRUE]]
  /\ UNCHANGED <<session, last, line, shown>>

\* Mutation: a text does not wait for its turn.
StartAtOnce(m) ==
  LET s == text[m].session IN
  /\ text[m].queued
  /\ line[m] = "none"
  /\ s = session["writer"]
  /\ line' = [line EXCEPT ![m] = "written"]
  /\ UNCHANGED <<session, last, text, shown>>

\* Its turn comes when every older text of the queue is settled.
Start(m) ==
  LET s == text[m].session IN
  /\ text[m].queued
  /\ \A k \in Queued(s) : m <= k
  /\ line[m] = "none"
  /\ s = session["writer"]
  /\ line' = [line EXCEPT ![m] = "written"]
  /\ UNCHANGED <<session, last, text, shown>>

\* The room changed before its turn, or its stream failed or timed out.
Fail(m) ==
  /\ text[m].queued
  /\ \A k \in Queued(text[m].session) : m <= k
  /\ text' = [text EXCEPT ![m].state = "failed", ![m].queued = FALSE]
  /\ UNCHANGED <<session, last, line, shown>>

\* The acknowledgement is read; it counts even if the queue was closed.
ReadAck(m) ==
  /\ text[m].queued
  /\ line[m] = "acknowledged"
  /\ text' = [text EXCEPT ![m].state = "delivered", ![m].queued = FALSE]
  /\ UNCHANGED <<session, last, line, shown>>

\* receiveText: a text of the reader's session is displayed and acknowledged,
\* though the acknowledgement may not arrive; any other is refused.
ReceiveText(m) ==
  /\ line[m] = "written"
  /\ IF text[m].session = session["reader"]
     THEN /\ shown' = Append(shown, m)
          /\ \E arrives \in BOOLEAN :
               line' = [line EXCEPT ![m] = IF arrives THEN "acknowledged" ELSE "over"]
     ELSE /\ line' = [line EXCEPT ![m] = "over"]
          /\ UNCHANGED shown
  /\ UNCHANGED <<session, last, text>>

\* clearPeer: closePrivateTextQueue shows what is still on its way as failed.
Leave(p) ==
  /\ session[p] # 0
  /\ session' = [session EXCEPT ![p] = 0]
  /\ IF p = "writer"
     THEN text' = [m \in Texts |-> IF m \in Queued(session[p])
                                   THEN [text[m] EXCEPT !.state = "failed"]
                                   ELSE text[m]]
     ELSE UNCHANGED text
  /\ UNCHANGED <<last, line, shown>>

\* setPeerConnected: a session it has never been in.
Join(p) ==
  /\ session[p] = 0
  /\ \E s \in last[p] + 1 .. MaxSession :
       /\ session' = [session EXCEPT ![p] = s]
       /\ last' = [last EXCEPT ![p] = s]
  /\ UNCHANGED <<text, line, shown>>

Next == \/ \E m \in Texts : \/ SendText(m)
                            \/ Start(m)
                            \/ Fail(m)
                            \/ ReadAck(m)
                            \/ ReceiveText(m)
        \/ \E p \in Sides : Leave(p) \/ Join(p)

Spec == Init /\ [][Next]_vars

-----------------------------------------------------------------------------
TypeOK == /\ session \in [Sides -> 0 .. MaxSession]
          /\ last \in [Sides -> 1 .. MaxSession]
          /\ text \in [Texts -> [state : {"none", "sending", "delivered", "failed"},
                                 session : 0 .. MaxSession, queued : BOOLEAN]]
          /\ line \in [Texts -> {"none", "written", "acknowledged", "over"}]
          /\ shown \in Seq(Texts)

Delivered(m) == text[m].state = "delivered"

\* What the writer shows as delivered, the reader has displayed once, and in
\* the order of submission, although every text has a stream of its own.
DeliveredInOrder ==
  /\ \A m \in Texts : Delivered(m) => \E i \in DOMAIN shown : shown[i] = m
  /\ \A i, j \in DOMAIN shown :
       (i < j /\ Delivered(shown[i]) /\ Delivered(shown[j])) => shown[i] < shown[j]

=============================================================================
