---------------------------- MODULE PrivateFiles ----------------------------
(***************************************************************************)
(* Files between the two pages of a private room (src/web/app.js): the     *)
(* queue of outgoing files, the TCF1 exchange of one file on a stream of   *)
(* its own (OFFER, ACCEPT or REJECT, DATA, FINAL, DONE), the decision at   *)
(* the receiver, automatic within a budget or by the user, and the local   *)
(* file that comes of it.  A page moves one file at a time, in or out.     *)
(*                                                                         *)
(* Every await of the two handlers is a place where the step for that file *)
(* stops; in between anything else may happen: a cancel, a room that       *)
(* closes, a session that is dropped by HELLO_CANCEL or begun anew.        *)
(*                                                                         *)
(* Abstracted: the DATA frames and the FINAL that ends them are one frame, *)
(* BODY, and a sender that fails before it has sent only a part; sizes,    *)
(* names and hashes are right; a transport error and a deadline are the    *)
(* same step, possible at every await.  With this sender the CANCEL frame  *)
(* never reaches its peer (the cancel button closes the stream first), so  *)
(* none is sent.                                                           *)
(***************************************************************************)
EXTENDS Integers, Sequences, FiniteSets

CONSTANTS Pages,       \* the two pages, a set of two
          Files,       \* files that may be sent
          From,        \* From[f]: the page that sends f
          None,        \* no file
          MaxPending,  \* MAX_PENDING_FILES
          AutoItems,   \* limits.privateFileAutoReceiveSessionItems
          MaxSession   \* bound: sessions a page joins

VARIABLES session,  \* activeSession of each page, 0 for none
          joined,   \* sessions each page has joined so far
          queue,    \* outgoingFileQueue
          active,   \* activeFileTransfer
          budget,   \* privateAutoReceiveBudget: items taken in the session
          snd,      \* the sender of each file
          rcv,      \* the receiver of each file
          line,     \* the stream of each file
          taken,    \* history: session whose budget paid for the file, or 0
          file      \* what the receiver's disk holds of each file

vars == <<session, joined, queue, active, budget, snd, rcv, line, taken, file>>
quiet == <<session, joined, budget, taken>>

Other(p) == CHOOSE q \in Pages : q # p
To(f) == Other(From[f])
Outgoing(p) == active[p] # None /\ From[active[p]] = p

Idle == [st |-> "idle", session |-> 0]
Unoffered == [st |-> "none", auto |-> FALSE, making |-> FALSE, cancelled |-> FALSE]
NoLine == [down |-> <<>>, up |-> <<>>]

\* A cancelled sender runs until its await throws.
SenderRuns(f) == snd[f].st \in {"dialing", "offered", "sending", "finishing",
                                "cancelled"}
ReceiverRuns(f) == rcv[f].st \in {"checking", "checked", "deciding", "accepting",
                                  "receiving", "closing", "confirming", "ending"}

Init == /\ session = [p \in Pages |-> 1]
        /\ joined = [p \in Pages |-> 1]
        /\ queue = [p \in Pages |-> <<>>]
        /\ active = [p \in Pages |-> None]
        /\ budget = [p \in Pages |-> 0]
        /\ snd = [f \in Files |-> Idle]
        /\ rcv = [f \in Files |-> Unoffered]
        /\ line = [f \in Files |-> NoLine]
        /\ taken = [f \in Files |-> 0]
        /\ file = [f \in Files |-> "none"]

-----------------------------------------------------------------------------
\* processFileQueue on an idle page p, with q left to send and the senders
\* being s: the first file starts, or without a session all of them fail.
ProcessQueue(p, q, s) ==
  LET starts == q # <<>> /\ session[p] # 0
      listed == {q[i] : i \in DOMAIN q}
  IN /\ queue' = [queue EXCEPT ![p] = IF starts THEN Tail(q) ELSE <<>>]
     /\ active' = [active EXCEPT ![p] = IF starts THEN Head(q) ELSE None]
     /\ snd' = [f \in Files |->
          IF f \notin listed \/ (starts /\ f # Head(q)) THEN s[f]
          ELSE IF starts
               THEN [st |-> "dialing", session |-> session[p]]
               ELSE [s[f] EXCEPT !.st = "failed"]]

\* enqueueFiles, which calls processFileQueue.
Enqueue(f) ==
  LET p == From[f]
      s == [snd EXCEPT ![f].st = "queued"]
      q == Append(queue[p], f)
  IN /\ snd[f].st = "idle"
     /\ session[p] # 0
     /\ Len(queue[p]) + (IF Outgoing(p) THEN 1 ELSE 0) < MaxPending
     /\ IF active[p] = None THEN ProcessQueue(p, q, s)
        ELSE /\ queue' = [queue EXCEPT ![p] = q]
             /\ snd' = s
             /\ UNCHANGED active
     /\ UNCHANGED <<quiet, rcv, line, file>>

\* The sender of f ends with st; its finally clauses close the stream, whose
\* answers are then lost, free the page and go on with the queue.
SenderEnds(f, st) ==
  /\ ProcessQueue(From[f], queue[From[f]], [snd EXCEPT ![f].st = st])
  /\ line' = [line EXCEPT ![f].up = <<>>]
  /\ UNCHANGED <<quiet, rcv, file>>

\* The stream is open and the offer is written.
Offer(f) ==
  /\ snd[f].st = "dialing"
  /\ snd' = [snd EXCEPT ![f].st = "offered"]
  /\ line' = [line EXCEPT ![f].down = <<"OFFER">>]
  /\ UNCHANGED <<quiet, queue, active, rcv, file>>

\* The sender reads one frame of the receiver.
SenderReads(f, frame) ==
  /\ line[f].up # <<>>
  /\ Head(line[f].up) = frame

ReadAccept(f) ==
  /\ snd[f].st = "offered"
  /\ SenderReads(f, "ACCEPT")
  /\ snd' = [snd EXCEPT ![f].st = "sending"]
  /\ line' = [line EXCEPT ![f].up = Tail(@)]
  /\ UNCHANGED <<quiet, queue, active, rcv, file>>

\* The body is written as the receiver drains it, and FINAL.
WriteBody(f) ==
  /\ snd[f].st = "sending"
  /\ line' = [line EXCEPT ![f].down = IF ReceiverRuns(f) THEN Append(@, "BODY") ELSE @]
  /\ snd' = [snd EXCEPT ![f].st = "finishing"]
  /\ UNCHANGED <<quiet, queue, active, rcv, file>>

ReadDone(f) ==
  /\ snd[f].st = "finishing"
  /\ SenderReads(f, "DONE")
  /\ SenderEnds(f, "sent")

\* A refusal, an error or a close of the peer, a deadline, a cancel: the
\* sender's await throws.
SenderFails(f) ==
  /\ SenderRuns(f)
  /\ SenderEnds(f, "failed")

\* The cancel button of an outgoing file: one in progress is closed, and
\* while it still dials it is stopped when the dial returns.
CancelOutgoing(f) ==
  LET p == From[f] IN
  /\ \/ /\ active[p] = f
        /\ snd[f].st # "cancelled"
        /\ snd' = [snd EXCEPT ![f].st = "cancelled"]
        /\ UNCHANGED queue
     \/ /\ snd[f].st = "queued"
        /\ snd' = [snd EXCEPT ![f].st = "failed"]
        /\ \E i \in DOMAIN queue[p] :
             /\ queue[p][i] = f
             /\ queue' = [queue EXCEPT ![p] =
                            SubSeq(@, 1, i - 1) \o SubSeq(@, i + 1, Len(@))]
  /\ UNCHANGED <<quiet, active, rcv, line, file>>

-----------------------------------------------------------------------------
\* The receiver reads one frame; what the sender wrote before it closed may
\* still be read.
ReceiverReads(f, frame) ==
  /\ ~rcv[f].cancelled
  /\ line[f].down # <<>>
  /\ Head(line[f].down) = frame

\* Mutation: the page is taken by every offer.
ReadOfferAnyway(f) ==
  LET r == To(f)
      ours == session[r] # 0 /\ snd[f].session = session[r]
  IN /\ rcv[f].st = "none"
     /\ ReceiverReads(f, "OFFER")
     /\ rcv' = [rcv EXCEPT ![f].st = IF ours THEN "checking" ELSE "ending"]
     /\ active' = [active EXCEPT ![r] = IF ours THEN f ELSE @]
     /\ line' = [line EXCEPT ![f].down = Tail(@)]
     /\ UNCHANGED <<quiet, queue, snd, file>>

\* receiveFile up to its capacity check: a stranger's offer ends it, a page
\* that is moving a file answers BUSY, and otherwise the page is taken.
ReadOffer(f) ==
  LET r == To(f)
      ours == session[r] # 0 /\ snd[f].session = session[r]
      free == active[r] = None
  IN /\ rcv[f].st = "none"
     /\ ReceiverReads(f, "OFFER")
     /\ rcv' = [rcv EXCEPT ![f].st = IF ours /\ free THEN "checking" ELSE "ending"]
     /\ active' = [active EXCEPT ![r] = IF ours /\ free THEN f ELSE @]
     /\ line' = [line EXCEPT ![f].down = Tail(@),
                             ![f].up = IF ours /\ ~free /\ SenderRuns(f)
                                       THEN <<"REJECT">> ELSE @]
     /\ UNCHANGED <<quiet, queue, snd, file>>

\* canAutoReceivePrivateFile: what the session's budget and the staged files
\* allow.
Staged(p) == {f \in Files : To(f) = p /\ file[f] = "staged"}
CanAutoReceive(p) == budget[p] < AutoItems /\ Cardinality(Staged(p)) < AutoItems

\* The capacity check looks at the budget and awaits the disk.
CheckCapacity(f) ==
  LET r == To(f)
      sameSession == session[r] # 0 /\ session[r] = snd[f].session
  IN /\ rcv[f].st = "checking"
     /\ \E room \in BOOLEAN :
          rcv' = [rcv EXCEPT ![f].st = "checked",
                             ![f].auto = room /\ sameSession /\ CanAutoReceive(r)]
     /\ UNCHANGED <<quiet, queue, active, snd, line, file>>

\* After the check: is the offer still current?
Current(f) == /\ active[To(f)] = f
              /\ ~rcv[f].cancelled
              /\ session[To(f)] = snd[f].session

\* Mutation: every offer is charged.
BeginDecisionCharged(f) ==
  LET r == To(f)
      auto == rcv[f].auto /\ budget[r] < AutoItems
  IN /\ rcv[f].st = "checked"
     /\ Current(f)
     /\ rcv' = [rcv EXCEPT ![f].st = "deciding", ![f].auto = auto,
                           ![f].making = auto]
     /\ budget' = [budget EXCEPT ![r] = @ + 1]
     /\ taken' = [taken EXCEPT ![f] = IF auto THEN session[r] ELSE @]
     /\ UNCHANGED <<session, joined, queue, active, snd, line, file>>

\* Mutation: nothing is charged.
BeginDecisionFree(f) ==
  LET r == To(f)
      auto == rcv[f].auto /\ budget[r] < AutoItems
  IN /\ rcv[f].st = "checked"
     /\ Current(f)
     /\ rcv' = [rcv EXCEPT ![f].st = "deciding", ![f].auto = auto,
                           ![f].making = auto]
     /\ taken' = [taken EXCEPT ![f] = IF auto THEN session[r] ELSE @]
     /\ UNCHANGED <<session, joined, budget, queue, active, snd, line, file>>

\* The budget is consumed and the decision begins; an automatic one starts to
\* create its file at once.
BeginDecision(f) ==
  LET r == To(f)
      auto == rcv[f].auto /\ budget[r] < AutoItems
  IN /\ rcv[f].st = "checked"
     /\ Current(f)
     /\ rcv' = [rcv EXCEPT ![f].st = "deciding", ![f].auto = auto,
                           ![f].making = auto]
     /\ budget' = [budget EXCEPT ![r] = IF auto THEN @ + 1 ELSE @]
     /\ taken' = [taken EXCEPT ![f] = IF auto THEN session[r] ELSE @]
     /\ UNCHANGED <<session, joined, queue, active, snd, line, file>>

\* The user presses save.
PressSave(f) ==
  /\ rcv[f].st = "deciding"
  /\ ~rcv[f].auto
  /\ ~rcv[f].making
  /\ rcv' = [rcv EXCEPT ![f].making = TRUE]
  /\ UNCHANGED <<quiet, queue, active, snd, line, file>>

\* createSink resolves: the decision is claimed, or, if something else has
\* claimed it meanwhile, the new file is aborted.
SinkCreated(f) ==
  LET claimed == rcv[f].st # "deciding" IN
  /\ rcv[f].making
  /\ rcv' = [rcv EXCEPT ![f].making = FALSE,
                        ![f].st = IF claimed THEN @ ELSE "accepting"]
  /\ file' = [file EXCEPT ![f] = IF claimed THEN @ ELSE "partial"]
  /\ UNCHANGED <<quiet, queue, active, snd, line>>

\* createSink fails: the automatic decision is handed to the user, the
\* user's own is a refusal.
SinkFails(f) ==
  LET claimed == rcv[f].st # "deciding"
      refused == ~claimed /\ ~rcv[f].auto
  IN /\ rcv[f].making
     /\ rcv' = [rcv EXCEPT ![f].making = FALSE, ![f].auto = FALSE,
                           ![f].st = IF refused THEN "ending" ELSE @]
     /\ line' = [line EXCEPT ![f].up =
                   IF refused /\ SenderRuns(f) THEN Append(@, "REJECT") ELSE @]
     /\ UNCHANGED <<quiet, queue, active, snd, file>>

\* The file is accepted, unless the room changed while it was created.
Accept(f) ==
  /\ rcv[f].st = "accepting"
  /\ Current(f)
  /\ rcv' = [rcv EXCEPT ![f].st = "receiving"]
  /\ line' = [line EXCEPT ![f].up = IF SenderRuns(f) THEN Append(@, "ACCEPT") ELSE @]
  /\ UNCHANGED <<quiet, queue, active, snd, file>>

\* Mutation: the hash is confirmed before the file is closed.
ReadBodyConfirmed(f) ==
  /\ rcv[f].st = "receiving"
  /\ ReceiverReads(f, "BODY")
  /\ rcv' = [rcv EXCEPT ![f].st = "closing"]
  /\ line' = [line EXCEPT ![f].down = Tail(@), ![f].up = Append(@, "DONE")]
  /\ UNCHANGED <<quiet, queue, active, snd, file>>

\* The body is read and written to the local file, and FINAL matches it.
ReadBody(f) ==
  /\ rcv[f].st = "receiving"
  /\ ReceiverReads(f, "BODY")
  /\ rcv' = [rcv EXCEPT ![f].st = "closing"]
  /\ line' = [line EXCEPT ![f].down = Tail(@)]
  /\ UNCHANGED <<quiet, queue, active, snd, file>>

\* sink.close, and prepareExport for a staged file: from here the local file
\* is kept.
FileReady(f) ==
  /\ rcv[f].st = "closing"
  /\ \E kind \in {"saved", "staged"} :
       /\ rcv[f].auto => kind = "staged"
       /\ file' = [file EXCEPT ![f] = kind]
  /\ rcv' = [rcv EXCEPT ![f].st = "confirming"]
  /\ UNCHANGED <<quiet, queue, active, snd, line>>

\* DONE is written; a write that failed may still have reached the peer.
WriteDone(f) ==
  /\ rcv[f].st = "confirming"
  /\ \E reached \in BOOLEAN :
       line' = [line EXCEPT ![f].up =
                  IF reached /\ ~rcv[f].cancelled /\ SenderRuns(f)
                  THEN Append(@, "DONE") ELSE @]
  /\ rcv' = [rcv EXCEPT ![f].st = "ending"]
  /\ UNCHANGED <<quiet, queue, active, snd, file>>

\* Any other await of receiveFile throws: a deadline, a closed stream, a
\* lack of space, a refusal by the user, a disk error, a stale offer.
ReceiverFails(f) ==
  /\ rcv[f].st \in {"checking", "checked", "deciding", "accepting", "receiving",
                    "closing"}
  /\ rcv' = [rcv EXCEPT ![f].st = "ending"]
  /\ line' = [line EXCEPT ![f].up =
                IF ~rcv[f].cancelled /\ SenderRuns(f) THEN Append(@, "REJECT") ELSE @]
  /\ UNCHANGED <<quiet, queue, active, snd, file>>

\* The catch and finally clauses: an unfinished file is removed, the stream
\* closed and the page freed.
CloseReceive(f) ==
  LET r == To(f) IN
  /\ rcv[f].st = "ending"
  /\ file' = [file EXCEPT ![f] = IF @ = "partial" THEN "removed" ELSE @]
  /\ line' = [line EXCEPT ![f].down = <<>>]
  /\ active' = [active EXCEPT ![r] = IF @ = f THEN None ELSE @]
  /\ rcv' = [rcv EXCEPT ![f].st = "leaving", ![f].auto = FALSE,
                        ![f].cancelled = FALSE]
  /\ UNCHANGED <<quiet, queue, snd>>

\* Mutation: the outgoing queue is forgotten.
LeaveReceiveOnly(f) ==
  /\ rcv[f].st = "leaving"
  /\ rcv' = [rcv EXCEPT ![f].st = "done"]
  /\ UNCHANGED <<quiet, queue, active, snd, line, file>>

\* The last await of receiveFile is over: the outgoing queue goes on, unless
\* the page has been taken meanwhile.
LeaveReceive(f) ==
  LET r == To(f) IN
  /\ rcv[f].st = "leaving"
  /\ rcv' = [rcv EXCEPT ![f].st = "done"]
  /\ IF active[r] = None THEN ProcessQueue(r, queue[r], snd)
     ELSE UNCHANGED <<queue, active, snd>>
  /\ UNCHANGED <<quiet, line, file>>

\* The cancel button of an incoming file.
CancelIncoming(f) ==
  /\ active[To(f)] = f
  /\ ~rcv[f].cancelled
  /\ rcv[f].st \in {"deciding", "accepting", "receiving", "closing", "confirming"}
  /\ rcv' = [rcv EXCEPT ![f].cancelled = TRUE]
  /\ UNCHANGED <<quiet, queue, active, snd, line, file>>

\* The user deletes, or has exported, a staged file.
RemoveStaged(f) ==
  /\ file[f] = "staged"
  /\ rcv[f].st \in {"ending", "leaving", "done"}
  /\ file' = [file EXCEPT ![f] = "exported"]
  /\ UNCHANGED <<quiet, queue, active, snd, rcv, line>>

-----------------------------------------------------------------------------
\* cancelAllTransfers: the queue is emptied, the file in progress cancelled,
\* a pending decision refused and the stream closed.
Cancelled(p) ==
  LET a == active[p]
      listed == {queue[p][i] : i \in DOMAIN queue[p]}
      out == a # None /\ From[a] = p
      in == a # None /\ From[a] # p
  IN /\ queue' = [queue EXCEPT ![p] = <<>>]
     /\ snd' = [f \in Files |->
          IF f \in listed THEN [snd[f] EXCEPT !.st = "failed"]
          ELSE IF out /\ f = a THEN [snd[f] EXCEPT !.st = "cancelled"]
          ELSE snd[f]]
     /\ rcv' = [f \in Files |->
          IF in /\ f = a
          THEN [rcv[f] EXCEPT !.cancelled = TRUE,
                              !.st = IF @ = "deciding" THEN "ending" ELSE @]
          ELSE rcv[f]]

\* The room is stopped, the peer has ended it or is lost.
EndSession(p) ==
  /\ session[p] # 0
  /\ Cancelled(p)
  /\ session' = [session EXCEPT ![p] = 0]
  /\ budget' = [budget EXCEPT ![p] = 0]
  /\ UNCHANGED <<joined, active, line, taken, file>>

\* HELLO_CANCEL drops the session, and only the session.
DropSession(p) ==
  /\ session[p] # 0
  /\ session' = [session EXCEPT ![p] = 0]
  /\ budget' = [budget EXCEPT ![p] = 0]
  /\ UNCHANGED <<joined, queue, active, snd, rcv, line, taken, file>>

\* setPeerConnected: the next session, with a budget of its own.
Join(p) ==
  /\ session[p] = 0
  /\ joined[p] < MaxSession
  /\ joined' = [joined EXCEPT ![p] = @ + 1]
  /\ session' = [session EXCEPT ![p] = joined[p] + 1]
  /\ budget' = [budget EXCEPT ![p] = 0]
  /\ UNCHANGED <<queue, active, snd, rcv, line, taken, file>>

-----------------------------------------------------------------------------
SenderStep(f) == \/ Offer(f)
                 \/ ReadAccept(f)
                 \/ WriteBody(f)
                 \/ ReadDone(f)
                 \/ SenderFails(f)

ReceiverStep(f) == \/ CheckCapacity(f)
                   \/ BeginDecision(f)
                   \/ SinkCreated(f)
                   \/ SinkFails(f)
                   \/ Accept(f)
                   \/ ReadBody(f)
                   \/ FileReady(f)
                   \/ WriteDone(f)
                   \/ ReceiverFails(f)
                   \/ CloseReceive(f)
                   \/ LeaveReceive(f)

UserStep(f) == \/ Enqueue(f)
               \/ CancelOutgoing(f)
               \/ PressSave(f)
               \/ CancelIncoming(f)
               \/ RemoveStaged(f)

Next == \/ \E f \in Files : \/ SenderStep(f)
                            \/ ReadOffer(f)
                            \/ ReceiverStep(f)
                            \/ UserStep(f)
        \/ \E p \in Pages : EndSession(p) \/ DropSession(p) \/ Join(p)

Spec == Init /\ [][Next]_vars

-----------------------------------------------------------------------------
Frames == {"OFFER", "BODY", "ACCEPT", "REJECT", "DONE"}

\* Every variable keeps its shape, and no budget exceeds its limit.
TypeOK ==
  /\ session \in [Pages -> 0 .. MaxSession]
  /\ joined \in [Pages -> 1 .. MaxSession]
  /\ queue \in [Pages -> Seq(Files)]
  /\ active \in [Pages -> Files \cup {None}]
  /\ budget \in [Pages -> 0 .. AutoItems]
  /\ snd \in [Files -> [st : {"idle", "queued", "dialing", "offered", "sending",
                              "finishing", "cancelled", "sent", "failed"},
                        session : 0 .. MaxSession]]
  /\ rcv \in [Files -> [st : {"none", "checking", "checked", "deciding",
                              "accepting", "receiving", "closing", "confirming",
                              "ending", "leaving", "done"},
                        auto : BOOLEAN, making : BOOLEAN, cancelled : BOOLEAN]]
  /\ line \in [Files -> [down : Seq(Frames), up : Seq(Frames)]]
  /\ taken \in [Files -> 0 .. MaxSession]
  /\ file \in [Files -> {"none", "partial", "saved", "staged", "exported",
                         "removed"}]

\* A file the sender reports as sent is on the receiver's disk, or was until
\* its user took or deleted it.
SentMeansStored ==
  \A f \in Files :
    snd[f].st = "sent" => file[f] \in {"saved", "staged", "exported"}

\* A receiver that has ended leaves no half-written file, not even one whose
\* creation ended after the decision was taken elsewhere.
NoOrphanFile ==
  \A f \in Files : rcv[f].st \in {"leaving", "done"} => file[f] # "partial"

\* A page moves one file at a time, in or out, and its activeFileTransfer
\* names exactly that one: nothing else runs, and nothing that has ended is
\* left there to keep others out.
OneAtATime ==
  \A p \in Pages :
    /\ {f \in Files : \/ From[f] = p /\ SenderRuns(f)
                      \/ To(f) = p /\ ReceiverRuns(f) /\ rcv[f].st # "ending"}
         \subseteq {active[p]}
    /\ active[p] # None =>
         IF Outgoing(p) THEN SenderRuns(active[p]) ELSE ReceiverRuns(active[p])

\* However sessions change while offers are checked, no session pays for more
\* automatic files than its budget allows.
AutoBudget ==
  \A p \in Pages, s \in 1 .. MaxSession :
    Cardinality({f \in Files : To(f) = p /\ taken[f] = s}) <= AutoItems

\* A queue is never left behind: while files wait, the page moves one, or a
\* receiver is about to call processFileQueue.
QueueNotStranded ==
  \A p \in Pages : queue[p] # <<>> =>
    \/ active[p] # None
    \/ \E f \in Files : To(f) = p /\ rcv[f].st = "leaving"

=============================================================================
