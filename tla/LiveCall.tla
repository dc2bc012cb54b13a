------------------------------ MODULE LiveCall -------------------------------
(***************************************************************************)
(* Calls between the two pages of a private room (src/web/app.js).  One    *)
(* page asks for its camera, negotiates and sends RTC_OFFER; the other     *)
(* rings, and on `accept' does the same and sends RTC_ANSWER.  A connected *)
(* call that is disturbed is restarted once.  Control messages have a      *)
(* stream each, so they overtake one another, and whoever sends one awaits *)
(* the end of its stream; one that is lost is never taken.                 *)
(*                                                                         *)
(* liveGeneration, which every endLiveLink raises, appears where it is     *)
(* looked at: a suspended function and a timer are `fresh' as long as it   *)
(* is the one they began with.  Abstracted: media are granted or not, a    *)
(* description is a step that may fail, a connection changes as the        *)
(* browser likes; a session is not begun again.  Left out are switching    *)
(* cameras and RTC_RESTART_ANSWER, which changes no state of the page.     *)
(***************************************************************************)
EXTENDS Integers, Sequences

CONSTANTS Pages,      \* the two pages, a set of two
          MaxCall,    \* bound: calls, in all
          MaxTrouble  \* bound: disconnections, failures and lost sessions

VARIABLES phone,   \* what each page keeps of its call
          caller,  \* who began each call
          task,    \* startLiveLink or answerIncomingCall, per page and call
          redo,    \* attemptIceRestart, per page and call
          mail,    \* control messages under way
          on,      \* calls whose camera or microphone is on, per page
          trouble  \* of those bounded by MaxTrouble, so far

vars == <<phone, caller, task, redo, mail, on, trouble>>

Call == 1 .. MaxCall
Other(p) == CHOOSE q \in Pages : q # p

\* currentCallId, pendingCallOffer (0 is none of them), peerConnection and its
\* state, whose `new' has no remote description, localMediaStream as the call it
\* was got for, callSetupTimer, rtcDisconnectTimer, timers whose handle has been
\* overwritten, and iceRestartAttempted.
NoCall == [session |-> TRUE, current |-> 0, ringing |-> 0, pc |-> "none", media |-> 0,
           setup |-> FALSE, timer |-> "none", lost |-> {}, attempted |-> FALSE]
Nothing == [st |-> "none", fresh |-> FALSE]

Init == /\ phone = [p \in Pages |-> NoCall]
        /\ caller = <<>>
        /\ task = [p \in Pages |-> [c \in Call |-> Nothing]]
        /\ redo = [p \in Pages |-> [c \in Call |-> [st |-> "none", fresh |-> FALSE,
                                                    times |-> 0]]]
        /\ mail = {}
        /\ on = [p \in Pages |-> {}]
        /\ trouble = 0

-----------------------------------------------------------------------------
Message(type, p, c) == [type |-> type, to |-> Other(p), call |-> c]

\* sendControl, which without a session throws before it sends.
Sent(type, p, c) == IF phone[p].session THEN {Message(type, p, c)} ELSE {}

\* endLiveLink of page p: the page has no call, no connection and no stream any
\* more, and what awaits something for the old one is outdated.  Of a start or an
\* answer that negotiates or writes nothing more will be seen: it returns.
Ended(p) == [NoCall EXCEPT !.session = phone[p].session]
Outdated(tasks) ==
  [c \in Call |-> IF tasks[c].st \in {"negotiating", "writing"} THEN Nothing
                  ELSE [tasks[c] EXCEPT !.fresh = FALSE]]
OutdatedRestarts(p) == [c \in Call |-> [redo[p][c] EXCEPT !.fresh = FALSE]]

\* With notifyPeer: who was told of the call is told of its end.
Goodbye(p) ==
  LET call == IF phone[p].current # 0 THEN phone[p].current ELSE phone[p].ringing
      hadLink == \/ phone[p].pc # "none"
                 \/ phone[p].media # 0
                 \/ phone[p].ringing # 0
  IN IF hadLink /\ call # 0 THEN Sent("HANGUP", p, call) ELSE {}

\* endLiveLink, after which the page goes on as r, its tasks as t and d.
EndThen(p, r, t, d) ==
  /\ phone' = [phone EXCEPT ![p] = r]
  /\ task' = [task EXCEPT ![p] = t]
  /\ redo' = [redo EXCEPT ![p] = d]
  /\ on' = [on EXCEPT ![p] = @ \ {phone[p].media}]

EndLiveLink(p) == EndThen(p, Ended(p), Outdated(task[p]), OutdatedRestarts(p))

\* The call c begins on page p, under its timer.
Begin(p, c) ==
  EndThen(p, [Ended(p) EXCEPT !.current = c, !.setup = TRUE],
          [Outdated(task[p]) EXCEPT ![c] = [st |-> "media", fresh |-> TRUE]],
          OutdatedRestarts(p))

StartLiveLink(p) ==
  /\ phone[p].session
  /\ Len(caller) < MaxCall
  /\ caller' = Append(caller, p)
  /\ Begin(p, Len(caller) + 1)
  /\ UNCHANGED <<mail, trouble>>

\* The accept button.
AnswerIncomingCall(p) ==
  /\ phone[p].ringing # 0
  /\ Begin(p, phone[p].ringing)
  /\ UNCHANGED <<caller, mail, trouble>>

DeclineIncomingCall(p) ==
  /\ phone[p].ringing # 0
  /\ phone' = [phone EXCEPT ![p].ringing = 0]
  /\ mail' = mail \cup Sent("DECLINE", p, phone[p].ringing)
  /\ UNCHANGED <<caller, task, redo, on, trouble>>

-----------------------------------------------------------------------------
\* The user grants the camera: a call that is over stops it at once.
GotMedia(p, c) ==
  /\ task[p][c].st = "media"
  /\ IF task[p][c].fresh
     THEN /\ task' = [task EXCEPT ![p][c].st = "negotiating"]
          /\ phone' = [phone EXCEPT ![p].media = c, ![p].pc = "new"]
          /\ on' = [on EXCEPT ![p] = @ \cup {c}]
     ELSE task' = [task EXCEPT ![p][c] = Nothing] /\ UNCHANGED <<phone, on>>
  /\ UNCHANGED <<caller, redo, mail, trouble>>

\* The descriptions are there: the offer or the answer is sent.
Negotiated(p, c) ==
  LET calling == caller[c] = p IN
  /\ task[p][c].st = "negotiating"
  /\ phone[p].session
  /\ task' = [task EXCEPT ![p][c].st = "writing"]
  /\ mail' = mail \cup Sent(IF calling THEN "OFFER" ELSE "ANSWER", p, c)
  /\ phone' = [phone EXCEPT ![p].pc = IF calling THEN @ ELSE "ready"]
  /\ UNCHANGED <<caller, redo, on, trouble>>

\* The peer has closed the stream, whether it has used the message or not.
Written(p, c) ==
  /\ task[p][c].st = "writing"
  /\ task' = [task EXCEPT ![p][c] = Nothing]
  /\ UNCHANGED <<phone, caller, redo, mail, on, trouble>>

\* An await of it throws: the caller gives up, the callee refuses first.
TaskFails(p, c) ==
  LET refuses == task[p][c].fresh /\ caller[c] # p
      t == [task[p] EXCEPT ![c] = IF refuses THEN [@ EXCEPT !.st = "refusing"]
                                  ELSE Nothing]
  IN /\ task[p][c].st \in {"media", "negotiating", "writing"}
     /\ IF task[p][c].fresh /\ caller[c] = p
        THEN EndThen(p, Ended(p), Outdated(t), OutdatedRestarts(p)) /\ UNCHANGED mail
        ELSE /\ task' = [task EXCEPT ![p] = t]
             /\ mail' = IF refuses THEN mail \cup Sent("DECLINE", p, c) ELSE mail
             /\ UNCHANGED <<phone, redo, on>>
     /\ UNCHANGED <<caller, trouble>>

\* The refusal is sent or has failed; the generation is not looked at again.
Refused(p, c) ==
  /\ task[p][c].st = "refusing"
  /\ EndThen(p, Ended(p), Outdated([task[p] EXCEPT ![c] = Nothing]),
             OutdatedRestarts(p))
  /\ UNCHANGED <<caller, mail, trouble>>

-----------------------------------------------------------------------------
\* attemptIceRestart of page p, whose record is r: the first of a call.
AttemptIceRestart(p, r) ==
  IF r.attempted THEN EndLiveLink(p)
  ELSE /\ phone' = [phone EXCEPT ![p] = [r EXCEPT !.attempted = TRUE, !.timer = "none"]]
       /\ redo' = [redo EXCEPT ![p][r.current] =
                     [st |-> "negotiating", fresh |-> TRUE, times |-> @.times + 1]]
       /\ UNCHANGED <<task, on>>

Finished(d) == [d EXCEPT !.st = "none", !.fresh = FALSE]

RestartWritten(p, c) ==
  /\ redo[p][c].st = "negotiating"
  /\ IF redo[p][c].fresh
     THEN /\ phone[p].session
          /\ redo' = [redo EXCEPT ![p][c].st = "writing"]
          /\ mail' = mail \cup Sent("RESTART", p, c)
     ELSE redo' = [redo EXCEPT ![p][c] = Finished(@)] /\ UNCHANGED mail
  /\ UNCHANGED <<phone, caller, task, on, trouble>>

\* The message has been taken, and the last timer is set, on top of whichever
\* is set by then.
RestartSent(p, c) ==
  /\ redo[p][c].st = "writing"
  /\ redo' = [redo EXCEPT ![p][c] = Finished(@)]
  /\ phone' = [phone EXCEPT
       ![p].timer = IF redo[p][c].fresh THEN "giveUp" ELSE "none",
       ![p].lost = @ \cup ({phone[p].timer} \ {"none"})]
  /\ UNCHANGED <<caller, task, mail, on, trouble>>

\* An await of it throws, as it does on a closed connection; the generation is
\* not looked at.
RestartFails(p, c) ==
  /\ redo[p][c].st \in {"negotiating", "writing"}
  /\ EndThen(p, Ended(p), Outdated(task[p]), [OutdatedRestarts(p) EXCEPT ![c] = Finished(@)])
  /\ UNCHANGED <<caller, mail, trouble>>

\* A timer of the connection fires.
TimerFires(p, name) ==
  LET r == IF phone[p].timer = name THEN [phone[p] EXCEPT !.timer = "none"]
           ELSE [phone[p] EXCEPT !.lost = @ \ {name}]
  IN /\ phone[p].timer = name \/ name \in phone[p].lost
     /\ IF name = "retry" THEN AttemptIceRestart(p, r)
        ELSE IF r.pc # "connected" THEN EndLiveLink(p)
        ELSE phone' = [phone EXCEPT ![p] = r] /\ UNCHANGED <<task, redo, on>>
     /\ UNCHANGED <<caller, mail, trouble>>

\* The browser reports a connection; what the page does not know of is its
\* other end, which exists.
Connected(p) ==
  /\ phone[p].pc \in {"ready", "disconnected", "failed"}
  /\ phone[Other(p)].current = phone[p].current
  /\ phone[Other(p)].pc \notin {"none", "new"}
  /\ phone' = [phone EXCEPT ![p].pc = "connected", ![p].timer = "none",
                            ![p].setup = FALSE]
  /\ UNCHANGED <<caller, task, redo, mail, on, trouble>>

Troubled == trouble < MaxTrouble /\ trouble' = trouble + 1

Disconnected(p) ==
  /\ Troubled
  /\ phone[p].pc \notin {"none", "new"}
  /\ phone' = [phone EXCEPT ![p].pc = "disconnected", ![p].timer = "retry"]
  /\ UNCHANGED <<caller, task, redo, mail, on>>

Failed(p) ==
  /\ Troubled
  /\ phone[p].pc \notin {"none", "new"}
  /\ AttemptIceRestart(p, [phone[p] EXCEPT !.pc = "failed"])
  /\ UNCHANGED <<caller, mail>>

-----------------------------------------------------------------------------
\* A page takes a message; without a session it is rejected.
Take(m) == m \in mail /\ mail' = mail \ {m}

\* showIncomingCall: one call at a time.
ShowIncomingCall(m) ==
  LET r == phone[m.to]
      busy == r.pc # "none" \/ r.ringing # 0 \/ r.current # 0
  IN /\ m \in mail
     /\ m.type = "OFFER"
     /\ r.session
     /\ mail' = (mail \ {m}) \cup (IF busy THEN Sent("DECLINE", m.to, m.call) ELSE {})
     /\ phone' = [phone EXCEPT ![m.to].ringing = IF busy THEN @ ELSE m.call]
     /\ UNCHANGED <<caller, task, redo, on, trouble>>

\* acceptRTCAnswer, for the call in progress; acceptRTCRestartOffer, whose
\* awaits lead to an answer only, takes the timer away.
Accept(m) ==
  LET r == phone[m.to] IN
  /\ Take(m)
  /\ m.type \in {"ANSWER", "RESTART"}
  /\ r.session
  /\ r.pc # "none"
  /\ r.current = m.call
  /\ phone' = [phone EXCEPT ![m.to] =
                 IF m.type = "ANSWER" THEN [r EXCEPT !.pc = "ready"]
                 ELSE [r EXCEPT !.timer = "none"]]
  /\ UNCHANGED <<caller, task, redo, on, trouble>>

\* RTC_DECLINE and RTC_HANGUP.
PeerEnds(m) ==
  LET r == phone[m.to] IN
  /\ Take(m)
  /\ r.session
  /\ \/ m.type \in {"DECLINE", "HANGUP"} /\ m.call = r.current
     \/ m.type = "HANGUP" /\ m.call = r.ringing
  /\ EndLiveLink(m.to)
  /\ UNCHANGED <<caller, trouble>>

\* The hang-up button, or the timer of a call that does not come about.
Hangup(p) ==
  /\ phone[p].current # 0
  /\ EndLiveLink(p)
  /\ mail' = mail \cup Goodbye(p)
  /\ UNCHANGED <<caller, trouble>>

\* The session ends: stopRoom, SESSION_END and releaseLostPeer end the call
\* with it, receiveHelloCancel does not.
SessionEnds(p) ==
  /\ Troubled
  /\ phone[p].session
  /\ \/ /\ EndThen(p, [Ended(p) EXCEPT !.session = FALSE],
                   Outdated(task[p]), OutdatedRestarts(p))
     \/ /\ phone' = [phone EXCEPT ![p].session = FALSE]
        /\ UNCHANGED <<task, redo, on>>
  /\ UNCHANGED <<caller, mail>>

Next == \/ \E p \in Pages :
             \/ StartLiveLink(p)
             \/ AnswerIncomingCall(p)
             \/ DeclineIncomingCall(p)
             \/ Hangup(p)
             \/ Connected(p)
             \/ Disconnected(p)
             \/ Failed(p)
             \/ SessionEnds(p)
             \/ \E name \in {"retry", "giveUp"} : TimerFires(p, name)
             \/ \E c \in Call : \/ GotMedia(p, c)
                                \/ Negotiated(p, c)
                                \/ Written(p, c)
                                \/ TaskFails(p, c)
                                \/ Refused(p, c)
                                \/ RestartWritten(p, c)
                                \/ RestartSent(p, c)
                                \/ RestartFails(p, c)
        \/ \E m \in mail : ShowIncomingCall(m) \/ Accept(m) \/ PeerEnds(m)

Spec == Init /\ [][Next]_vars

-----------------------------------------------------------------------------
TypeOK ==
  /\ phone \in [Pages -> [session : BOOLEAN, current : Call \cup {0},
                          ringing : Call \cup {0}, media : Call \cup {0},
                          pc : {"none", "new", "ready", "connected", "disconnected",
                                "failed"},
                          setup : BOOLEAN, timer : {"none", "retry", "giveUp"},
                          lost : SUBSET {"retry", "giveUp"}, attempted : BOOLEAN]]
  /\ caller \in Seq(Pages)
  /\ Len(caller) <= MaxCall
  /\ task \in [Pages -> [Call -> [st : {"none", "media", "negotiating", "writing",
                                       "refusing"}, fresh : BOOLEAN]]]
  /\ redo \in [Pages -> [Call -> [st : {"none", "negotiating", "writing"},
                                  fresh : BOOLEAN, times : 0 .. MaxTrouble]]]
  /\ mail \subseteq [type : {"OFFER", "ANSWER", "DECLINE", "HANGUP", "RESTART"},
                     to : Pages, call : Call]
  /\ on \in [Pages -> SUBSET Call]
  /\ trouble \in 0 .. MaxTrouble

\* A camera or microphone is on only as the stream of the call in progress, and a
\* page without a call has no connection either: whatever a function suspended
\* in an ended call acquires, it gives back.
NothingLeftOn ==
  \A p \in Pages :
    /\ on[p] = {phone[p].media} \ {0}
    /\ phone[p].current = 0 => phone[p].media = 0 /\ phone[p].pc = "none"
    /\ phone[p].media \in {0, phone[p].current}

\* A page does not ring for one call while it is in another.
OneCall == \A p \in Pages : phone[p].ringing # 0 => phone[p].current = 0

\* A call that has not come about is under its timer, whichever call before it
\* ended meanwhile, so a page is never left dialling.
UnderTimer ==
  \A p \in Pages :
    phone[p].current # 0 /\ phone[p].pc \in {"none", "new", "ready"} => phone[p].setup

\* A call is restarted by itself at most once ("a disconnected mobile call
\* performs at most one automatic ICE restart"), whatever timers are lost.
RestartedOnce == \A p \in Pages, c \in Call : redo[p][c].times <= 1

=============================================================================
