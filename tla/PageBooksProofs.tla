-------------------------- MODULE PageBooksProofs ---------------------------
(***************************************************************************)
(* What the parts of a page store and count, for any bounds and limits:    *)
(* sinks, sessions of the bridge, the heartbeat, the frame queue and the   *)
(* scheduler; and at the end the types of all parts.                       *)
(***************************************************************************)
EXTENDS PagePartsProofs

-----------------------------------------------------------------------------
(* Sinks.  Of one that lost neither an answer nor a removal, the operation *)
(* in progress and the answer to it tell what is on disk and open, and the *)
(* worker has at most the one request that is awaited.                     *)

SinkFields == [st : {"none", "open", "closed", "aborted", "removed", "failed"},
               written : Nat, made : Nat, op : Storage!Ops,
               step : Storage!Steps \cup {"none"}, answer : {"none", "ok", "error"}]
SinkRecord == {c \in SinkFields : c.op # "none" => c.step \in Storage!Steps}
SinkRequest == [sink : Sinks, type : Storage!Steps, live : BOOLEAN]

SinkTyped ==
  /\ mode \in {"async", "worker"}
  /\ ready \in BOOLEAN /\ worker \in BOOLEAN
  /\ sink \in [Sinks -> SinkRecord]
  /\ calls \in [Sinks -> Seq({"write", "close", "abort", "remove"})]
  /\ inbox \in Seq(SinkRequest)
  /\ handle \in [Sinks -> BOOLEAN]
  /\ disk \in [Sinks -> Int]
  /\ reserved \in SUBSET Sinks /\ excused \in SUBSET Sinks

\* Nothing is under way before initializeFileSinks has ended.
NothingYet ==
  ~ready => /\ inbox = <<>>
            /\ reserved = {}
            /\ \A s \in Sinks : sink[s] = Storage!Fresh /\ ~handle[s] /\ calls[s] = <<>>

StepsOf(op) == CASE op = "create" -> {"INIT"}
                 [] op = "write" -> {"WRITE"}
                 [] op = "close" -> {"CLOSE"}
                 [] op \in {"undo", "abort"} -> {"ABORT"}
                 [] op = "remove" -> {"ABORT", "DELETE"}
                 [] OTHER -> Storage!Steps \cup {"none"}

NoTrace(s) == disk[s] = Storage!NoFile /\ ~handle[s]

\* What there is of sink s.
Sound(s) ==
  /\ sink[s].step \in StepsOf(sink[s].op)
  /\ sink[s].op = "none" =>
       /\ sink[s].st = "open" => handle[s] /\ disk[s] = sink[s].written
       /\ sink[s].st = "closed" => ~handle[s] /\ disk[s] = Size
       /\ sink[s].st \notin {"open", "closed"} => NoTrace(s) /\ s \notin reserved
  /\ sink[s].op = "create" =>
       /\ sink[s].written = 0
       /\ sink[s].answer = "none" => NoTrace(s)
       /\ sink[s].answer = "ok" => handle[s] /\ disk[s] = 0
  /\ sink[s].op = "write" =>
       /\ sink[s].st = "open"
       /\ sink[s].answer = "none" => handle[s] /\ disk[s] = sink[s].written
       /\ sink[s].answer = "ok" => handle[s] /\ disk[s] = sink[s].written + 1
  /\ sink[s].op = "close" =>
       /\ sink[s].answer = "none" => handle[s] /\ disk[s] = Size
       /\ sink[s].answer = "ok" => ~handle[s] /\ disk[s] = Size
  /\ sink[s].op \in {"undo", "abort", "remove"} =>
       /\ sink[s].answer # "error"
       /\ sink[s].answer = "ok" => NoTrace(s)

\* The request of s the worker has, if any, is the one its operation awaits.
Asked(s) ==
  \A i \in 1 .. Len(inbox) : inbox[i].sink = s =>
     /\ mode = "worker"
     /\ inbox[i].live
     /\ inbox[i].type = sink[s].step
     /\ sink[s].op \notin {"none", "clean"}
     /\ sink[s].answer = "none"
     /\ \A j \in 1 .. Len(inbox) : inbox[j].sink = s => i = j

Unasked(s) == \A i \in 1 .. Len(inbox) : inbox[i].sink # s

SinkInv == /\ SinkTyped
           /\ NothingYet
           /\ \A s \in Sinks : ready /\ s \notin excused => Sound(s) /\ Asked(s)

LEMMA SinkStarts == Storage!Init => SinkInv
<1> SUFFICES ASSUME Storage!Init PROVE SinkInv
  OBVIOUS
<1>1. Storage!Fresh \in SinkRecord
  BY DEF SinkRecord, SinkFields, Storage!Fresh, Storage!Ops, Storage!Steps
<1>2. /\ sink \in [Sinks -> SinkRecord]
      /\ calls \in [Sinks -> Seq({"write", "close", "abort", "remove"})]
      /\ inbox \in Seq(SinkRequest)
      /\ handle \in [Sinks -> BOOLEAN]
      /\ disk \in [Sinks -> Int]
  BY <1>1 DEF Storage!Init, Storage!NoFile
<1>3. SinkTyped
  BY <1>2 DEF Storage!Init, SinkTyped
<1> QED BY <1>3 DEF Storage!Init, SinkInv, NothingYet

\* What a step on one sink leaves of another one, t.
SameSink(t) == /\ sink'[t] = sink[t]
               /\ handle'[t] = handle[t]
               /\ disk'[t] = disk[t]
               /\ t \in reserved' <=> t \in reserved

LEMMA SoundKept ==
  ASSUME NEW t \in Sinks, Sound(t), SameSink(t)
  PROVE  Sound(t)'
BY DEF Sound, SameSink, NoTrace

LEMMA SettledUnasked ==
  ASSUME NEW s \in Sinks, Asked(s),
         sink[s].op \in {"none", "clean"} \/ sink[s].answer # "none"
  PROVE  Unasked(s)
BY DEF Asked, Unasked

LEMMA UnaskedAsked ==
  ASSUME NEW s \in Sinks, Unasked(s)' PROVE Asked(s)'
BY DEF Asked, Unasked

LEMMA InboxSame ==
  ASSUME NEW t \in Sinks, inbox' = inbox
  PROVE  /\ Unasked(t) => Unasked(t)'
         /\ Asked(t) /\ mode' = mode /\ sink'[t] = sink[t] => Asked(t)'
BY DEF Asked, Unasked

\* A request is posted.
LEMMA InboxMore ==
  ASSUME SinkTyped, NEW s \in Sinks, NEW step \in Storage!Steps, mode' = mode,
         inbox' = Append(inbox, [sink |-> s, type |-> step, live |-> TRUE])
  PROVE  /\ inbox' \in Seq(SinkRequest)
         /\ \A t \in Sinks : t # s /\ Asked(t) /\ sink'[t] = sink[t] => Asked(t)'
         /\ /\ Unasked(s)
            /\ mode = "worker"
            /\ sink'[s].step = step
            /\ sink'[s].op \notin {"none", "clean"}
            /\ sink'[s].answer = "none"
            => Asked(s)'
<1> DEFINE m == [sink |-> s, type |-> step, live |-> TRUE]
<1>1. m \in SinkRequest /\ inbox \in Seq(SinkRequest)
  BY DEF SinkRequest, SinkTyped
<1>2. /\ inbox' \in Seq(SinkRequest)
      /\ Len(inbox') = Len(inbox) + 1
      /\ \A i \in 1 .. Len(inbox) : inbox'[i] = inbox[i]
      /\ inbox'[Len(inbox) + 1] = m
      /\ Len(inbox) \in Nat
  BY <1>1
<1>3. \A i \in 1 .. Len(inbox') : i \in 1 .. Len(inbox) \/ i = Len(inbox) + 1
  BY <1>2
<1>4. ASSUME NEW t \in Sinks, t # s, Asked(t), sink'[t] = sink[t]
      PROVE  Asked(t)'
  <2>1. \A i \in 1 .. Len(inbox') : inbox'[i].sink = t =>
             i \in 1 .. Len(inbox) /\ inbox'[i] = inbox[i]
    BY <1>2, <1>3, <1>4
  <2> QED BY <1>4, <2>1 DEF Asked
<1>5. ASSUME Unasked(s), mode = "worker", sink'[s].step = step,
             sink'[s].op \notin {"none", "clean"}, sink'[s].answer = "none"
      PROVE  Asked(s)'
  <2>1. \A i \in 1 .. Len(inbox') : inbox'[i].sink = s => i = Len(inbox) + 1
    BY <1>2, <1>3, <1>5 DEF Unasked
  <2>2. inbox'[Len(inbox) + 1].live /\ inbox'[Len(inbox) + 1].type = step
    BY <1>2
  <2> QED BY <1>5, <2>1, <2>2 DEF Asked
<1> QED BY <1>2, <1>4, <1>5

\* The worker takes its oldest request.
LEMMA InboxLess ==
  ASSUME SinkTyped, inbox # <<>>, inbox' = Tail(inbox), mode' = mode
  PROVE  /\ inbox' \in Seq(SinkRequest)
         /\ Head(inbox) \in SinkRequest
         /\ \A t \in Sinks : /\ Unasked(t) => Unasked(t)'
                             /\ Asked(t) /\ sink'[t] = sink[t] => Asked(t)'
                             /\ Asked(t) /\ Head(inbox).sink = t => Unasked(t)'
<1>1. inbox \in Seq(SinkRequest) /\ Len(inbox) \in Nat /\ Len(inbox) # 0
  BY DEF SinkTyped
<1>2. /\ inbox' \in Seq(SinkRequest)
      /\ Head(inbox) = inbox[1] /\ inbox[1] \in SinkRequest
      /\ Len(inbox') = Len(inbox) - 1
      /\ \A i \in 1 .. Len(inbox') : inbox'[i] = inbox[i + 1]
  BY <1>1
<1>3. \A i \in 1 .. Len(inbox') : i + 1 \in 1 .. Len(inbox) /\ inbox'[i] = inbox[i + 1]
                                  /\ i + 1 # 1
  BY <1>1, <1>2
<1>4. ASSUME NEW t \in Sinks, Unasked(t)
      PROVE  Unasked(t)'
  BY <1>3, <1>4 DEF Unasked
<1>5. ASSUME NEW t \in Sinks, Asked(t), sink'[t] = sink[t]
      PROVE  Asked(t)'
  <2>1. ASSUME NEW i \in 1 .. Len(inbox'), NEW j \in 1 .. Len(inbox'),
               inbox'[i].sink = t, inbox'[j].sink = t
        PROVE  i = j
    <3>1. i + 1 = j + 1
      BY <1>3, <1>5, <2>1 DEF Asked
    <3> QED BY <3>1, <1>1, <1>2
  <2>2. ASSUME NEW i \in 1 .. Len(inbox'), inbox'[i].sink = t
        PROVE  /\ mode = "worker" /\ inbox'[i].live
               /\ inbox'[i].type = sink[t].step
               /\ sink[t].op \notin {"none", "clean"}
               /\ sink[t].answer = "none"
    BY <1>3, <1>5, <2>2 DEF Asked
  <2> QED BY <1>5, <2>1, <2>2 DEF Asked
<1>6. ASSUME NEW t \in Sinks, Asked(t), Head(inbox).sink = t
      PROVE  Unasked(t)'
  <2>1. 1 \in 1 .. Len(inbox)
    BY <1>1
  <2>2. \A i \in 1 .. Len(inbox) : inbox[i].sink = t => i = 1
    BY <1>2, <1>6, <2>1 DEF Asked
  <2> QED BY <1>3, <2>2 DEF Unasked
<1> QED BY <1>2, <1>4, <1>5, <1>6

\* An operation awaits the storage.
LEMMA AwaitEffect ==
  ASSUME SinkTyped, NEW s \in Sinks, NEW op \in Storage!Ops \ {"none", "clean"},
         NEW step \in Storage!Steps, Storage!Await(s, op, step), mode' = mode
  PROVE  /\ sink' \in [Sinks -> SinkRecord]
         /\ inbox' \in Seq(SinkRequest)
         /\ excused' \in SUBSET Sinks /\ excused \subseteq excused'
         /\ sink'[s].op = op /\ sink'[s].step = step
         /\ sink'[s].st = sink[s].st /\ sink'[s].written = sink[s].written
         /\ s \notin excused' => sink'[s].answer = "none"
         /\ Unasked(s) /\ s \notin excused' => Asked(s)'
         /\ \A t \in Sinks : t # s => /\ sink'[t] = sink[t]
                                      /\ Asked(t) => Asked(t)'
<1> DEFINE a == IF worker THEN "none" ELSE "error"
<1>1. sink \in [Sinks -> SinkRecord] /\ worker \in BOOLEAN /\ sink[s] \in SinkRecord
      /\ mode \in {"async", "worker"} /\ excused \in SUBSET Sinks
      /\ inbox \in Seq(SinkRequest)
  BY DEF SinkTyped
<1>2. PICK r : r = [sink[s] EXCEPT !.op = op, !.step = step, !.answer = a]
  OBVIOUS
<1>3. /\ r \in SinkRecord
      /\ r.op = op /\ r.step = step /\ r.answer = a
      /\ r.st = sink[s].st /\ r.written = sink[s].written
  BY <1>1, <1>2 DEF SinkRecord, SinkFields
<1>4. sink' = [sink EXCEPT ![s] = r]
  BY <1>1, <1>2 DEF Storage!Await
<1>5. sink' \in [Sinks -> SinkRecord] /\ sink'[s] = r
      /\ \A t \in Sinks : t # s => sink'[t] = sink[t]
  BY <1>1, <1>3, <1>4
<1>6. excused' = IF worker THEN excused ELSE excused \cup {s}
  BY DEF Storage!Await
<1>7. CASE mode = "worker" /\ worker
  <2>1. inbox' = Append(inbox, [sink |-> s, type |-> step, live |-> TRUE])
    BY <1>7 DEF Storage!Await
  <2>2. r.answer = "none"
    BY <1>3, <1>7
  <2>3. Unasked(s) => Asked(s)'
    BY <1>3, <1>5, <1>7, <2>1, <2>2, InboxMore
  <2>4. \A t \in Sinks : t # s /\ Asked(t) => Asked(t)'
    BY <1>5, <2>1, InboxMore
  <2>5. inbox' \in Seq(SinkRequest)
    BY <2>1, InboxMore
  <2> QED BY <1>1, <1>3, <1>5, <1>6, <2>2, <2>3, <2>4, <2>5
<1>8. CASE ~(mode = "worker" /\ worker)
  <2>1. inbox' = inbox
    BY <1>8 DEF Storage!Await
  <2>2. Unasked(s) => Asked(s)'
    BY <2>1, InboxSame, UnaskedAsked
  <2>3. \A t \in Sinks : t # s /\ Asked(t) => Asked(t)'
    BY <2>1, <1>5, InboxSame
  <2>4. s \notin excused' => r.answer = "none"
    BY <1>3, <1>6
  <2> QED BY <1>1, <1>3, <1>5, <1>6, <2>1, <2>2, <2>3, <2>4
<1> QED BY <1>7, <1>8

\* An operation is over.
LEMMA EndsEffect ==
  ASSUME SinkTyped, NEW s \in Sinks,
         NEW st \in {"none", "open", "closed", "aborted", "removed", "failed"},
         Storage!Ends(s, st), mode' = mode
  PROVE  /\ sink' \in [Sinks -> SinkRecord]
         /\ inbox' = inbox /\ excused' = excused
         /\ sink'[s].op = "none" /\ sink'[s].step = "none"
         /\ sink'[s].answer = "none" /\ sink'[s].st = st
         /\ sink'[s].written = sink[s].written
         /\ Unasked(s) => Asked(s)'
         /\ \A t \in Sinks : t # s => /\ sink'[t] = sink[t]
                                      /\ Asked(t) => Asked(t)'
<1>1. sink \in [Sinks -> SinkRecord] /\ sink[s] \in SinkRecord
  BY DEF SinkTyped
<1>2. PICK r : r = [sink[s] EXCEPT !.st = st, !.op = "none", !.step = "none",
                                   !.answer = "none"]
  OBVIOUS
<1>3. /\ r \in SinkRecord
      /\ r.op = "none" /\ r.step = "none" /\ r.answer = "none"
      /\ r.st = st /\ r.written = sink[s].written
  BY <1>1, <1>2 DEF SinkRecord, SinkFields, Storage!Ops, Storage!Steps
<1>4. sink' = [sink EXCEPT ![s] = r] /\ inbox' = inbox /\ excused' = excused
  BY <1>1, <1>2 DEF Storage!Ends
<1>5. sink' \in [Sinks -> SinkRecord] /\ sink'[s] = r
      /\ \A t \in Sinks : t # s => sink'[t] = sink[t]
  BY <1>1, <1>3, <1>4
<1>6. Unasked(s) => Asked(s)'
  BY <1>4, InboxSame, UnaskedAsked
<1>7. \A t \in Sinks : t # s /\ Asked(t) => Asked(t)'
  BY <1>4, <1>5, InboxSame
<1> QED BY <1>3, <1>4, <1>5, <1>6, <1>7

LEMMA CreateFileSinkInv ==
  ASSUME SinkInv, NEW s \in Sinks, Storage!CreateFileSink(s)
  PROVE  SinkInv'
<1>1. /\ SinkTyped /\ ready /\ sink[s] = Storage!Fresh /\ s \notin reserved
      /\ reserved' = reserved \cup {s}
      /\ Storage!Await(s, "create", "INIT")
      /\ mode' = mode /\ ready' = ready /\ worker' = worker
      /\ calls' = calls /\ handle' = handle /\ disk' = disk
  BY DEF SinkInv, Storage!CreateFileSink, Storage!stable
<1>2. /\ sink' \in [Sinks -> SinkRecord]
      /\ inbox' \in Seq(SinkRequest)
      /\ excused' \in SUBSET Sinks /\ excused \subseteq excused'
      /\ sink'[s].op = "create" /\ sink'[s].step = "INIT"
      /\ sink'[s].st = sink[s].st /\ sink'[s].written = sink[s].written
      /\ s \notin excused' => sink'[s].answer = "none"
      /\ Unasked(s) /\ s \notin excused' => Asked(s)'
      /\ \A t \in Sinks : t # s => /\ sink'[t] = sink[t]
                                   /\ Asked(t) => Asked(t)'
  BY <1>1, AwaitEffect DEF Storage!Ops, Storage!Steps
<1>3. SinkTyped'
  BY <1>1, <1>2 DEF SinkTyped
<1>4. NothingYet'
  BY <1>1 DEF NothingYet
<1>5. ASSUME s \notin excused'
      PROVE  Sound(s)' /\ Asked(s)'
  <2>1. Sound(s) /\ Asked(s)
    BY <1>1, <1>2, <1>5 DEF SinkInv
  <2>2. Unasked(s)
    BY <2>1, <1>1, SettledUnasked DEF Storage!Fresh
  <2>3. NoTrace(s)
    BY <2>1, <1>1 DEF Sound, Storage!Fresh
  <2>4. Sound(s)'
    BY <1>1, <1>2, <1>5, <2>3 DEF Sound, NoTrace, StepsOf, Storage!Fresh
  <2> QED BY <2>2, <2>4, <1>2, <1>5
<1>6. ASSUME NEW t \in Sinks, t # s, t \notin excused'
      PROVE  Sound(t)' /\ Asked(t)'
  <2>1. Sound(t) /\ Asked(t)
    BY <1>1, <1>2, <1>6 DEF SinkInv
  <2>2. SameSink(t)
    BY <1>1, <1>2, <1>6 DEF SameSink
  <2> QED BY <1>2, <1>6, <2>1, <2>2, SoundKept
<1> QED BY <1>3, <1>4, <1>5, <1>6 DEF SinkInv

LEMMA SinkCallInv ==
  ASSUME SinkInv, NEW s \in Sinks, NEW op \in {"write", "close", "abort", "remove"},
         Storage!Call(s, op)
  PROVE  SinkInv'
<1>1. /\ SinkTyped /\ sink[s] \in SinkRecord
      /\ sink[s].st \notin {"none", "failed"}
      /\ sink' = [sink EXCEPT ![s].made = @ + 1]
      /\ calls' = [calls EXCEPT ![s] = Append(@, op)]
      /\ mode' = mode /\ ready' = ready /\ worker' = worker /\ reserved' = reserved
      /\ inbox' = inbox /\ handle' = handle /\ disk' = disk /\ excused' = excused
  BY DEF SinkInv, Storage!Call, Storage!stable, Storage!storage, SinkTyped
<1>2. /\ sink' \in [Sinks -> SinkRecord]
      /\ sink'[s].st = sink[s].st /\ sink'[s].written = sink[s].written
      /\ sink'[s].op = sink[s].op /\ sink'[s].step = sink[s].step
      /\ sink'[s].answer = sink[s].answer
      /\ \A t \in Sinks : t # s => sink'[t] = sink[t]
  <2>1. PICK r : r = [sink[s] EXCEPT !.made = @ + 1]
    OBVIOUS
  <2>2. /\ r \in SinkRecord
        /\ r.st = sink[s].st /\ r.written = sink[s].written /\ r.op = sink[s].op
        /\ r.step = sink[s].step /\ r.answer = sink[s].answer
    BY <1>1, <2>1 DEF SinkRecord, SinkFields
  <2>3. sink' = [sink EXCEPT ![s] = r]
    BY <1>1, <2>1 DEF SinkTyped
  <2> QED BY <1>1, <2>2, <2>3 DEF SinkTyped
<1>3. calls' \in [Sinks -> Seq({"write", "close", "abort", "remove"})]
  BY <1>1 DEF SinkTyped
<1>4. SinkTyped'
  BY <1>1, <1>2, <1>3 DEF SinkTyped
<1>5. ready
  BY <1>1 DEF SinkInv, NothingYet, Storage!Fresh
<1>6. ASSUME s \notin excused'
      PROVE  Sound(s)' /\ Asked(s)'
  <2>1. Sound(s) /\ Asked(s)
    BY <1>1, <1>5, <1>6 DEF SinkInv
  <2>2. Sound(s)'
    BY <1>1, <1>2, <2>1 DEF Sound, NoTrace
  <2>3. Asked(s)'
    BY <1>1, <1>2, <2>1 DEF Asked
  <2> QED BY <2>2, <2>3
<1>7. ASSUME NEW t \in Sinks, t # s, t \notin excused'
      PROVE  Sound(t)' /\ Asked(t)'
  <2>1. Sound(t) /\ Asked(t)
    BY <1>1, <1>5, <1>7 DEF SinkInv
  <2>2. SameSink(t)
    BY <1>1, <1>2, <1>7 DEF SameSink
  <2> QED BY <1>1, <1>2, <1>7, <2>1, <2>2, SoundKept, InboxSame
<1> QED BY <1>1, <1>4, <1>5, <1>6, <1>7 DEF SinkInv, NothingYet

\* A step on s leaves the others as they are.
LEMMA OthersSound ==
  ASSUME SinkInv, ready, NEW s \in Sinks, excused \subseteq excused',
         \A t \in Sinks : t # s => SameSink(t) /\ (Asked(t) => Asked(t)')
  PROVE  \A t \in Sinks : t # s /\ t \notin excused' => Sound(t)' /\ Asked(t)'
<1> SUFFICES ASSUME NEW t \in Sinks, t # s, t \notin excused'
             PROVE  Sound(t)' /\ Asked(t)'
  OBVIOUS
<1>1. Sound(t) /\ Asked(t)
  BY DEF SinkInv
<1> QED BY <1>1, SoundKept

LEMMA NextCallInv ==
  ASSUME SinkInv, NEW s \in Sinks, Storage!NextCall(s)
  PROVE  SinkInv'
<1>1. /\ SinkTyped /\ sink[s] \in SinkRecord
      /\ sink[s].op = "none" /\ calls[s] # <<>>
      /\ Storage!Begin(s, Head(calls[s]))
      /\ calls' = [calls EXCEPT ![s] = Tail(@)]
      /\ mode' = mode /\ ready' = ready /\ worker' = worker /\ reserved' = reserved
      /\ handle' = handle /\ disk' = disk
  BY DEF SinkInv, Storage!NextCall, Storage!stable, SinkTyped
<1>2. ready
  BY <1>1 DEF SinkInv, NothingYet
<1>3. PICK call \in {"write", "close", "abort", "remove"} : call = Head(calls[s])
  BY <1>1 DEF SinkTyped
<1>4. calls' \in [Sinks -> Seq({"write", "close", "abort", "remove"})]
  BY <1>1 DEF SinkTyped
<1>5. Storage!Begin(s, call)
  BY <1>1, <1>3
<1>6. ASSUME Storage!Ends(s, sink[s].st)
      PROVE  SinkInv'
  <2>1. /\ sink' \in [Sinks -> SinkRecord]
        /\ inbox' = inbox /\ excused' = excused
        /\ sink'[s].op = "none" /\ sink'[s].step = "none"
        /\ sink'[s].answer = "none" /\ sink'[s].st = sink[s].st
        /\ sink'[s].written = sink[s].written
        /\ Unasked(s) => Asked(s)'
        /\ \A t \in Sinks : t # s => /\ sink'[t] = sink[t]
                                     /\ Asked(t) => Asked(t)'
    <3>1. sink[s].st \in {"none", "open", "closed", "aborted", "removed", "failed"}
      BY <1>1 DEF SinkRecord, SinkFields
    <3> QED BY <1>1, <1>6, <3>1, EndsEffect
  <2>2. SinkTyped'
    BY <1>1, <1>4, <2>1 DEF SinkTyped
  <2>3. ASSUME s \notin excused'
        PROVE  Sound(s)' /\ Asked(s)'
    <3>1. Sound(s) /\ Asked(s)
      BY <1>2, <2>1, <2>3 DEF SinkInv
    <3>2. Unasked(s)
      BY <1>1, <3>1, SettledUnasked
    <3>3. Sound(s)'
      BY <1>1, <2>1, <3>1 DEF Sound, NoTrace, StepsOf
    <3> QED BY <2>1, <3>2, <3>3
  <2>4. \A t \in Sinks : t # s => SameSink(t) /\ (Asked(t) => Asked(t)')
    BY <1>1, <2>1 DEF SameSink
  <2>5. \A t \in Sinks : t # s /\ t \notin excused' => Sound(t)' /\ Asked(t)'
    BY <1>2, <2>1, <2>4, OthersSound
  <2> QED BY <1>1, <1>2, <2>2, <2>3, <2>5 DEF SinkInv, NothingYet
<1>7. ASSUME NEW op \in {"write", "close", "undo", "abort", "remove"},
             NEW step \in Storage!Steps, Storage!Await(s, op, step),
             step \in StepsOf(op),
             op \in {"write", "close"} => sink[s].st = "open",
             op = "close" => sink[s].written = Size
      PROVE  SinkInv'
  <2>1. /\ sink' \in [Sinks -> SinkRecord]
        /\ inbox' \in Seq(SinkRequest)
        /\ excused' \in SUBSET Sinks /\ excused \subseteq excused'
        /\ sink'[s].op = op /\ sink'[s].step = step
        /\ sink'[s].st = sink[s].st /\ sink'[s].written = sink[s].written
        /\ s \notin excused' => sink'[s].answer = "none"
        /\ Unasked(s) /\ s \notin excused' => Asked(s)'
        /\ \A t \in Sinks : t # s => /\ sink'[t] = sink[t]
                                     /\ Asked(t) => Asked(t)'
    <3>1. op \in Storage!Ops \ {"none", "clean"}
      BY DEF Storage!Ops
    <3> QED BY <1>1, <1>7, <3>1, AwaitEffect
  <2>2. SinkTyped'
    BY <1>1, <1>4, <2>1 DEF SinkTyped
  <2>3. ASSUME s \notin excused'
        PROVE  Sound(s)' /\ Asked(s)'
    <3>1. Sound(s) /\ Asked(s)
      BY <1>2, <2>1, <2>3 DEF SinkInv
    <3>2. Unasked(s)
      BY <1>1, <3>1, SettledUnasked
    <3>3. op \in {"write", "close"} => handle[s] /\ disk[s] = sink[s].written
      BY <1>1, <1>7, <3>1 DEF Sound
    <3>4. Sound(s)'
      BY <1>1, <1>7, <2>1, <2>3, <3>3 DEF Sound
    <3> QED BY <2>1, <2>3, <3>2, <3>4
  <2>4. \A t \in Sinks : t # s => SameSink(t) /\ (Asked(t) => Asked(t)')
    BY <1>1, <2>1 DEF SameSink
  <2>5. \A t \in Sinks : t # s /\ t \notin excused' => Sound(t)' /\ Asked(t)'
    BY <1>2, <2>1, <2>4, OthersSound
  <2> QED BY <1>1, <1>2, <2>2, <2>3, <2>5 DEF SinkInv, NothingYet
<1>8. /\ StepsOf("write") = {"WRITE"} /\ StepsOf("close") = {"CLOSE"}
      /\ StepsOf("undo") = {"ABORT"} /\ StepsOf("abort") = {"ABORT"}
      /\ StepsOf("remove") = {"ABORT", "DELETE"}
      /\ {"WRITE", "CLOSE", "ABORT", "DELETE"} \subseteq Storage!Steps
  BY DEF StepsOf, Storage!Steps
<1>9. CASE call \in {"write", "close"} /\ sink[s].st # "open"
  <2>1. Storage!Ends(s, sink[s].st)
    BY <1>5, <1>9 DEF Storage!Begin
  <2> QED BY <1>6, <2>1
<1>10. CASE call = "write" /\ sink[s].st = "open"
  <2>1. Storage!BeginWrite(s)
    BY <1>5, <1>10 DEF Storage!Begin
  <2>2. CASE sink[s].written < Size
    <3>1. Storage!Await(s, "write", "WRITE")
      BY <2>1, <2>2 DEF Storage!BeginWrite
    <3> QED BY <1>7, <1>8, <1>10, <3>1
  <2>3. CASE ~(sink[s].written < Size)
    <3>1. Storage!Await(s, "undo", "ABORT")
      BY <2>1, <2>3 DEF Storage!BeginWrite
    <3> QED BY <1>7, <1>8, <3>1
  <2> QED BY <2>2, <2>3
<1>11. CASE call = "close" /\ sink[s].st = "open"
  <2>1. Storage!BeginClose(s)
    BY <1>5, <1>11 DEF Storage!Begin
  <2>2. CASE sink[s].written = Size
    <3>1. Storage!Await(s, "close", "CLOSE")
      BY <2>1, <2>2 DEF Storage!BeginClose
    <3> QED BY <1>7, <1>8, <1>11, <2>2, <3>1
  <2>3. CASE sink[s].written # Size
    <3>1. Storage!Await(s, "undo", "ABORT")
      BY <2>1, <2>3 DEF Storage!BeginClose
    <3> QED BY <1>7, <1>8, <3>1
  <2> QED BY <2>2, <2>3
<1>12. CASE call = "abort"
  <2>1. Storage!Ends(s, sink[s].st) \/ Storage!Await(s, "abort", "ABORT")
    BY <1>5, <1>12 DEF Storage!Begin
  <2> QED BY <1>6, <1>7, <1>8, <2>1
<1>13. CASE call = "remove"
  <2>1. CASE sink[s].st = "removed"
    <3>1. Storage!Ends(s, sink[s].st)
      BY <1>5, <1>13, <2>1 DEF Storage!Begin
    <3> QED BY <1>6, <3>1
  <2>2. CASE sink[s].st = "open"
    <3>1. Storage!Await(s, "remove", "ABORT")
      BY <1>5, <1>13, <2>2 DEF Storage!Begin
    <3> QED BY <1>7, <1>8, <3>1
  <2>3. CASE sink[s].st \notin {"removed", "open"}
    <3>1. Storage!Await(s, "remove", "DELETE")
      BY <1>5, <1>13, <2>3 DEF Storage!Begin
    <3> QED BY <1>7, <1>8, <3>1
  <2> QED BY <2>1, <2>2, <2>3
<1> QED BY <1>9, <1>10, <1>11, <1>12, <1>13

\* The answer has arrived, and the operation ends or goes on.
LEMMA ContinueInv ==
  ASSUME SinkInv, NEW s \in Sinks, Storage!Continue(s)
  PROVE  SinkInv'
<1> DEFINE ok == sink[s].answer = "ok"
           removal == sink[s].step \in {"ABORT", "DELETE"}
           released == IF mode = "async" THEN disk[s] = Storage!NoFile ELSE ok
<1>1. /\ SinkTyped /\ sink[s] \in SinkRecord /\ sink[s].answer # "none"
      /\ reserved' = (IF removal /\ released THEN reserved \ {s} ELSE reserved)
      /\ mode' = mode /\ ready' = ready /\ worker' = worker /\ calls' = calls
      /\ handle' = handle /\ disk' = disk
  BY DEF SinkInv, Storage!Continue, Storage!stable, SinkTyped
<1>2. ready
  BY <1>1 DEF SinkInv, NothingYet, Storage!Fresh
<1>3. /\ reserved' \in SUBSET Sinks
      /\ \A t \in Sinks : t # s => (t \in reserved' <=> t \in reserved)
  BY <1>1 DEF SinkTyped
<1>4. s \notin excused => Sound(s) /\ Asked(s) /\ Unasked(s)
  BY <1>1, <1>2, SettledUnasked DEF SinkInv
<1>5. ASSUME NEW st \in {"none", "open", "closed", "aborted", "removed", "failed"},
             Storage!Ends(s, st),
             s \notin excused =>
               /\ st = "open" => handle[s] /\ disk[s] = sink[s].written
               /\ st = "closed" => ~handle[s] /\ disk[s] = Size
               /\ st \notin {"open", "closed"} => NoTrace(s) /\ s \notin reserved'
      PROVE  SinkInv'
  <2>1. /\ sink' \in [Sinks -> SinkRecord]
        /\ inbox' = inbox /\ excused' = excused
        /\ sink'[s].op = "none" /\ sink'[s].step = "none"
        /\ sink'[s].answer = "none" /\ sink'[s].st = st
        /\ sink'[s].written = sink[s].written
        /\ Unasked(s) => Asked(s)'
        /\ \A t \in Sinks : t # s => /\ sink'[t] = sink[t]
                                     /\ Asked(t) => Asked(t)'
    BY <1>1, <1>5, EndsEffect
  <2>2. SinkTyped'
    BY <1>1, <1>3, <2>1 DEF SinkTyped
  <2>3. ASSUME s \notin excused'
        PROVE  Sound(s)' /\ Asked(s)'
    <3>1. Sound(s)'
      BY <1>1, <1>5, <2>1, <2>3 DEF Sound, NoTrace, StepsOf
    <3> QED BY <1>4, <2>1, <2>3, <3>1
  <2>4. \A t \in Sinks : t # s => SameSink(t) /\ (Asked(t) => Asked(t)')
    BY <1>1, <1>3, <2>1 DEF SameSink
  <2>5. \A t \in Sinks : t # s /\ t \notin excused' => Sound(t)' /\ Asked(t)'
    BY <1>2, <2>1, <2>4, OthersSound
  <2> QED BY <1>1, <1>2, <2>2, <2>3, <2>5 DEF SinkInv, NothingYet
<1>6. ASSUME NEW op \in {"undo", "remove"}, NEW step \in {"ABORT", "DELETE"},
             Storage!Await(s, op, step), step \in StepsOf(op)
      PROVE  SinkInv'
  <2>1. /\ sink' \in [Sinks -> SinkRecord]
        /\ inbox' \in Seq(SinkRequest)
        /\ excused' \in SUBSET Sinks /\ excused \subseteq excused'
        /\ sink'[s].op = op /\ sink'[s].step = step
        /\ sink'[s].st = sink[s].st /\ sink'[s].written = sink[s].written
        /\ s \notin excused' => sink'[s].answer = "none"
        /\ Unasked(s) /\ s \notin excused' => Asked(s)'
        /\ \A t \in Sinks : t # s => /\ sink'[t] = sink[t]
                                     /\ Asked(t) => Asked(t)'
    <3>1. op \in Storage!Ops \ {"none", "clean"} /\ step \in Storage!Steps
      BY DEF Storage!Ops, Storage!Steps
    <3> QED BY <1>1, <1>6, <3>1, AwaitEffect
  <2>2. SinkTyped'
    BY <1>1, <1>3, <2>1 DEF SinkTyped
  <2>3. ASSUME s \notin excused'
        PROVE  Sound(s)' /\ Asked(s)'
    <3>1. Sound(s)'
      BY <1>6, <2>1, <2>3 DEF Sound
    <3> QED BY <1>4, <2>1, <2>3, <3>1
  <2>4. \A t \in Sinks : t # s => SameSink(t) /\ (Asked(t) => Asked(t)')
    BY <1>1, <1>3, <2>1 DEF SameSink
  <2>5. \A t \in Sinks : t # s /\ t \notin excused' => Sound(t)' /\ Asked(t)'
    BY <1>2, <2>1, <2>4, OthersSound
  <2> QED BY <1>1, <1>2, <2>2, <2>3, <2>5 DEF SinkInv, NothingYet
<1>7. CASE sink[s].op = "create" /\ ok /\ Storage!Ends(s, "open")
  <2>1. s \notin excused => handle[s] /\ disk[s] = sink[s].written
    BY <1>4, <1>7 DEF Sound
  <2> QED BY <1>5, <1>7, <2>1
<1>8. CASE /\ sink[s].op = "create"
           /\ sink' = [sink EXCEPT ![s].op = "clean", ![s].answer = "none"]
           /\ excused' = IF ok THEN excused \cup {s} ELSE excused
           /\ inbox' = inbox
  <2>1. PICK r : r = [sink[s] EXCEPT !.op = "clean", !.answer = "none"]
    OBVIOUS
  <2>2. r \in SinkRecord /\ r.op = "clean" /\ r.step = sink[s].step
    BY <1>1, <1>8, <2>1 DEF SinkRecord, SinkFields, Storage!Ops
  <2>3. sink' = [sink EXCEPT ![s] = r]
    BY <1>1, <1>8, <2>1 DEF SinkTyped
  <2>4. /\ sink' \in [Sinks -> SinkRecord] /\ sink'[s] = r
        /\ \A t \in Sinks : t # s => sink'[t] = sink[t]
    BY <1>1, <2>2, <2>3 DEF SinkTyped
  <2>5. excused \subseteq excused' /\ excused' \in SUBSET Sinks
    BY <1>1, <1>8 DEF SinkTyped
  <2>6. SinkTyped'
    BY <1>1, <1>3, <1>8, <2>4, <2>5 DEF SinkTyped
  <2>7. ASSUME s \notin excused'
        PROVE  Sound(s)' /\ Asked(s)'
    <3>1. Sound(s)'
      BY <1>1, <2>2, <2>4 DEF Sound, StepsOf, SinkRecord, SinkFields
    <3> QED BY <1>4, <1>8, <2>5, <2>7, <3>1, InboxSame, UnaskedAsked
  <2>8. \A t \in Sinks : t # s => SameSink(t) /\ (Asked(t) => Asked(t)')
    BY <1>1, <1>3, <1>8, <2>4, InboxSame DEF SameSink
  <2>9. \A t \in Sinks : t # s /\ t \notin excused' => Sound(t)' /\ Asked(t)'
    BY <1>2, <2>5, <2>8, OthersSound
  <2> QED BY <1>1, <1>2, <2>6, <2>7, <2>9 DEF SinkInv, NothingYet
<1>9. CASE /\ sink[s].op = "write" /\ ok
           /\ sink' = [sink EXCEPT ![s].written = @ + 1, ![s].op = "none",
                                   ![s].step = "none", ![s].answer = "none"]
           /\ UNCHANGED <<inbox, excused>>
  <2>1. PICK r : r = [sink[s] EXCEPT !.written = @ + 1, !.op = "none",
                                     !.step = "none", !.answer = "none"]
    OBVIOUS
  <2>2. /\ r \in SinkRecord /\ r.op = "none" /\ r.step = "none"
        /\ r.st = sink[s].st /\ r.written = sink[s].written + 1
    <3>1. PICK n \in Nat : n = sink[s].written + 1
      BY <1>1 DEF SinkRecord, SinkFields
    <3>2. r = [sink[s] EXCEPT !.written = n, !.op = "none",
                              !.step = "none", !.answer = "none"]
      BY <2>1, <3>1
    <3> QED BY <1>1, <3>1, <3>2 DEF SinkRecord, SinkFields, Storage!Ops, Storage!Steps
  <2>3. sink' = [sink EXCEPT ![s] = r]
    BY <1>1, <1>9, <2>1 DEF SinkTyped
  <2>4. /\ sink' \in [Sinks -> SinkRecord] /\ sink'[s] = r
        /\ \A t \in Sinks : t # s => sink'[t] = sink[t]
    BY <1>1, <2>2, <2>3 DEF SinkTyped
  <2>5. SinkTyped'
    BY <1>1, <1>3, <1>9, <2>4 DEF SinkTyped
  <2>6. ASSUME s \notin excused'
        PROVE  Sound(s)' /\ Asked(s)'
    <3>1. Sound(s)'
      BY <1>1, <1>4, <1>9, <2>2, <2>4, <2>6 DEF Sound, StepsOf
    <3> QED BY <1>4, <1>9, <2>6, <3>1, InboxSame, UnaskedAsked
  <2>7. \A t \in Sinks : t # s => SameSink(t) /\ (Asked(t) => Asked(t)')
    BY <1>1, <1>3, <1>9, <2>4, InboxSame DEF SameSink
  <2>8. \A t \in Sinks : t # s /\ t \notin excused' => Sound(t)' /\ Asked(t)'
    BY <1>2, <1>9, <2>7, OthersSound
  <2> QED BY <1>1, <1>2, <2>5, <2>6, <2>8 DEF SinkInv, NothingYet
<1>10. CASE sink[s].op = "close" /\ ok /\ Storage!Ends(s, "closed")
  <2>1. s \notin excused => ~handle[s] /\ disk[s] = Size
    BY <1>4, <1>10 DEF Sound
  <2> QED BY <1>5, <1>10, <2>1
<1>11. CASE Storage!Fail(s)
  <2>1. Storage!Await(s, "undo", "ABORT")
    BY <1>11 DEF Storage!Fail
  <2> QED BY <1>6, <2>1 DEF StepsOf
<1>12. CASE sink[s].op \in {"undo", "abort"} /\ Storage!Ends(s, "aborted")
  <2>1. s \notin excused => NoTrace(s) /\ ok /\ removal
    BY <1>1, <1>4, <1>12 DEF Sound, SinkRecord, SinkFields, StepsOf
  <2>2. s \notin excused => NoTrace(s) /\ s \notin reserved'
    BY <1>1, <2>1 DEF NoTrace
  <2> QED BY <1>5, <1>12, <2>2
<1>13. CASE sink[s].op = "remove" /\ ok /\ Storage!Await(s, "remove", "DELETE")
  BY <1>6, <1>13 DEF StepsOf
<1>14. CASE sink[s].op = "remove" /\ ok /\ Storage!Ends(s, "removed")
  <2>1. s \notin excused => NoTrace(s) /\ ok /\ removal
    BY <1>1, <1>4, <1>14 DEF Sound, SinkRecord, SinkFields, StepsOf
  <2>2. s \notin excused => NoTrace(s) /\ s \notin reserved'
    BY <1>1, <2>1 DEF NoTrace
  <2> QED BY <1>5, <1>14, <2>2
<1>15. CASE sink[s].op = "remove" /\ ~ok /\ Storage!Ends(s, sink[s].st)
  <2>1. s \in excused
    BY <1>1, <1>4, <1>15 DEF Sound, SinkRecord, SinkFields
  <2>2. sink[s].st \in {"none", "open", "closed", "aborted", "removed", "failed"}
    BY <1>1 DEF SinkRecord, SinkFields
  <2> QED BY <1>5, <1>15, <2>1, <2>2
<1> QED
  BY <1>7, <1>8, <1>9, <1>10, <1>11, <1>12, <1>13, <1>14, <1>15
     DEF Storage!Continue

LEMMA CleanUpInv ==
  ASSUME SinkInv, NEW s \in Sinks, Storage!CleanUp(s)
  PROVE  SinkInv'
<1>1. PICK ok \in BOOLEAN :
        /\ ok => ~handle[s]
        /\ disk' = [disk EXCEPT ![s] = IF ok THEN Storage!NoFile ELSE @]
        /\ reserved' = IF ok THEN reserved \ {s} ELSE reserved
        /\ excused' = IF ok THEN excused ELSE excused \cup {s}
  BY DEF Storage!CleanUp
<1>2. PICK r : r = [Storage!Fresh EXCEPT !.st = "failed"]
  OBVIOUS
<1>3. r \in SinkRecord /\ r.op = "none" /\ r.step = "none" /\ r.st = "failed"
  BY <1>2 DEF SinkRecord, SinkFields, Storage!Fresh, Storage!Ops, Storage!Steps
<1>4. /\ SinkTyped /\ sink[s].op = "clean"
      /\ sink' = [sink EXCEPT ![s] = r]
      /\ mode' = mode /\ ready' = ready /\ worker' = worker /\ calls' = calls
      /\ inbox' = inbox /\ handle' = handle
  BY <1>2 DEF SinkInv, Storage!CleanUp, Storage!stable
<1>5. /\ sink' \in [Sinks -> SinkRecord] /\ sink'[s] = r
      /\ \A t \in Sinks : t # s => sink'[t] = sink[t]
  BY <1>3, <1>4 DEF SinkTyped
<1>6. /\ disk' \in [Sinks -> Int]
      /\ \A t \in Sinks : t # s => disk'[t] = disk[t] /\ (t \in reserved' <=> t \in reserved)
      /\ ok => disk'[s] = Storage!NoFile
  BY <1>1, <1>4 DEF SinkTyped, Storage!NoFile
<1>7. SinkTyped'
  BY <1>1, <1>4, <1>5, <1>6 DEF SinkTyped
<1>8. ready
  BY <1>4 DEF SinkInv, NothingYet, Storage!Fresh
<1>9. ASSUME s \notin excused'
      PROVE  Sound(s)' /\ Asked(s)'
  <2>1. ok /\ s \notin excused
    BY <1>1, <1>9
  <2>2. Unasked(s)
    BY <1>4, <1>8, <2>1, SettledUnasked DEF SinkInv
  <2>3. ~handle'[s] /\ disk'[s] = Storage!NoFile /\ s \notin reserved'
    BY <1>1, <1>4, <1>6, <2>1
  <2>4. Sound(s)'
    BY <1>3, <1>5, <2>3 DEF Sound, NoTrace, StepsOf
  <2> QED BY <1>4, <2>2, <2>4, InboxSame, UnaskedAsked
<1>10. \A t \in Sinks : t # s => SameSink(t) /\ (Asked(t) => Asked(t)')
  BY <1>4, <1>5, <1>6, InboxSame DEF SameSink
<1>11. \A t \in Sinks : t # s /\ t \notin excused' => Sound(t)' /\ Asked(t)'
  BY <1>1, <1>8, <1>10, OthersSound
<1> QED BY <1>4, <1>7, <1>8, <1>9, <1>11 DEF SinkInv, NothingYet

\* The storage has done step, or failed.
LEMMA PerformedEffect ==
  ASSUME SinkTyped, NEW s \in Sinks, NEW step \in Storage!Steps, NEW ok \in BOOLEAN,
         Storage!Performed(s, step, ok)
  PROVE  /\ handle' \in [Sinks -> BOOLEAN]
         /\ disk' \in [Sinks -> Int]
         /\ excused' \in SUBSET Sinks /\ excused \subseteq excused'
         /\ \A t \in Sinks : t # s => handle'[t] = handle[t] /\ disk'[t] = disk[t]
         /\ step = "INIT" /\ ok => handle'[s] /\ disk'[s] = 0
         /\ step = "WRITE" /\ ok =>
              handle'[s] = handle[s] /\ disk'[s] = disk[s] + 1
         /\ step = "CLOSE" /\ ok => ~handle'[s] /\ disk'[s] = disk[s]
         /\ step \in {"ABORT", "DELETE"} =>
              /\ ok => ~handle'[s] /\ disk'[s] = Storage!NoFile
              /\ ~ok => s \in excused'
<1> DEFINE removal == step \in {"ABORT", "DELETE"}
<1>1. /\ handle \in [Sinks -> BOOLEAN] /\ handle[s] \in BOOLEAN
      /\ disk \in [Sinks -> Int] /\ disk[s] \in Int
      /\ excused \in SUBSET Sinks
      /\ step \in {"INIT", "WRITE", "CLOSE", "ABORT", "DELETE"}
  BY DEF SinkTyped, Storage!Steps
<1>2. PICK h : h = (CASE step = "INIT" -> ok \/ handle[s]
                      [] step = "WRITE" -> handle[s]
                      [] step = "CLOSE" -> mode = "async" /\ handle[s] /\ ~ok
                      [] removal -> FALSE)
  OBVIOUS
<1>3. /\ step = "INIT" => h = (ok \/ handle[s])
      /\ step = "WRITE" => h = handle[s]
      /\ step = "CLOSE" => h = (mode = "async" /\ handle[s] /\ ~ok)
      /\ removal => h = FALSE
  BY <1>1, <1>2
<1>4. h \in BOOLEAN
  BY <1>1, <1>3
<1>5. handle' = [handle EXCEPT ![s] = h]
  BY <1>2 DEF Storage!Performed
<1>6. PICK n \in {disk[s], disk[s] + 1, 0, Storage!NoFile} :
        /\ CASE step = "INIT" -> IF ok THEN n = 0
                                 ELSE n = disk[s] \/ (mode = "async" /\ n = 0)
             [] step = "WRITE" -> n = disk[s] + (IF ok THEN 1 ELSE 0)
             [] step = "CLOSE" -> n = disk[s]
             [] removal -> n = Storage!NoFile \/ (~ok /\ n = disk[s])
        /\ disk' = [disk EXCEPT ![s] = n]
  BY DEF Storage!Performed
<1>7. n \in Int
  BY <1>1 DEF Storage!NoFile
<1>8. /\ step = "INIT" /\ ok => n = 0
      /\ step = "WRITE" /\ ok => n = disk[s] + 1
      /\ step = "CLOSE" => n = disk[s]
      /\ removal /\ ok => n = Storage!NoFile
  BY <1>1, <1>6
<1>9. excused' = IF removal /\ ~ok THEN excused \cup {s} ELSE excused
  BY DEF Storage!Performed
<1>10. /\ handle' \in [Sinks -> BOOLEAN] /\ handle'[s] = h
       /\ \A t \in Sinks : t # s => handle'[t] = handle[t]
  BY <1>1, <1>4, <1>5
<1>11. /\ disk' \in [Sinks -> Int] /\ disk'[s] = n
       /\ \A t \in Sinks : t # s => disk'[t] = disk[t]
  BY <1>1, <1>6, <1>7
<1>12. excused' \in SUBSET Sinks /\ excused \subseteq excused'
       /\ (removal /\ ~ok => s \in excused')
  BY <1>1, <1>9
<1>13. /\ step = "INIT" /\ ok => h
       /\ step = "WRITE" => h = handle[s]
       /\ step = "CLOSE" /\ ok => ~h
       /\ removal => ~h
  BY <1>3
<1> QED BY <1>8, <1>10, <1>11, <1>12, <1>13

\* Its answer to the operation.
LEMMA AnswerSound ==
  ASSUME SinkTyped, NEW s \in Sinks, NEW ok \in BOOLEAN, Sound(s),
         Storage!Performed(s, sink[s].step, ok), sink[s].step \in Storage!Steps,
         sink[s].op \notin {"none", "clean"}, sink[s].answer = "none",
         sink' = [sink EXCEPT ![s].answer = IF ok THEN "ok" ELSE "error"],
         s \notin excused'
  PROVE  Sound(s)'
<1>1. sink[s] \in SinkRecord /\ sink \in [Sinks -> SinkRecord]
  BY DEF SinkTyped
<1>2. PICK r : r = [sink[s] EXCEPT !.answer = IF ok THEN "ok" ELSE "error"]
  OBVIOUS
<1>3. /\ r.op = sink[s].op /\ r.step = sink[s].step /\ r.st = sink[s].st
      /\ r.written = sink[s].written /\ r.answer = IF ok THEN "ok" ELSE "error"
  BY <1>1, <1>2 DEF SinkRecord, SinkFields
<1>4. sink'[s] = r
  BY <1>1, <1>2
<1>5. /\ sink[s].step = "INIT" /\ ok => handle'[s] /\ disk'[s] = 0
      /\ sink[s].step = "WRITE" /\ ok =>
           handle'[s] = handle[s] /\ disk'[s] = disk[s] + 1
      /\ sink[s].step = "CLOSE" /\ ok => ~handle'[s] /\ disk'[s] = disk[s]
      /\ sink[s].step \in {"ABORT", "DELETE"} =>
           /\ ok => ~handle'[s] /\ disk'[s] = Storage!NoFile
           /\ ~ok => s \in excused'
  BY PerformedEffect
<1>6. sink[s].op \in {"create", "write", "close", "undo", "abort", "remove"}
  BY <1>1 DEF SinkRecord, SinkFields, Storage!Ops
<1>7. CASE sink[s].op = "create"
  <2>1. sink[s].step = "INIT" /\ sink[s].written = 0
    BY <1>7 DEF Sound, StepsOf
  <2> QED BY <1>3, <1>4, <1>5, <1>7, <2>1 DEF Sound, StepsOf
<1>8. CASE sink[s].op = "write"
  <2>1. /\ sink[s].step = "WRITE" /\ sink[s].st = "open"
        /\ handle[s] /\ disk[s] = sink[s].written
    BY <1>8 DEF Sound, StepsOf
  <2>2. ok => handle'[s] /\ disk'[s] = sink[s].written + 1
    BY <1>5, <2>1
  <2> QED BY <1>3, <1>4, <1>8, <2>1, <2>2 DEF Sound, StepsOf
<1>9. CASE sink[s].op = "close"
  <2>1. sink[s].step = "CLOSE" /\ handle[s] /\ disk[s] = Size
    BY <1>9 DEF Sound, StepsOf
  <2> QED BY <1>3, <1>4, <1>5, <1>9, <2>1 DEF Sound, StepsOf
<1>10. CASE sink[s].op \in {"undo", "abort", "remove"}
  <2>1. sink[s].step \in {"ABORT", "DELETE"} /\ sink[s].step \in StepsOf(sink[s].op)
    BY <1>10 DEF Sound, StepsOf
  <2>2. ok /\ ~handle'[s] /\ disk'[s] = Storage!NoFile
    BY <1>5, <2>1
  <2> QED BY <1>3, <1>4, <1>10, <2>1, <2>2 DEF Sound, NoTrace
<1> QED BY <1>6, <1>7, <1>8, <1>9, <1>10

LEMMA AnsweredTyped ==
  ASSUME SinkTyped, NEW s \in Sinks, NEW answer \in {"ok", "error"},
         sink' = [sink EXCEPT ![s].answer = answer]
  PROVE  /\ sink' \in [Sinks -> SinkRecord]
         /\ \A t \in Sinks : t # s => sink'[t] = sink[t]
<1>1. sink[s] \in SinkRecord /\ sink \in [Sinks -> SinkRecord]
  BY DEF SinkTyped
<1>2. PICK r : r = [sink[s] EXCEPT !.answer = answer]
  OBVIOUS
<1>3. r \in SinkRecord /\ sink' = [sink EXCEPT ![s] = r]
  BY <1>1, <1>2 DEF SinkRecord, SinkFields
<1> QED BY <1>1, <1>3

LEMMA StorageAnswersInv ==
  ASSUME SinkInv, NEW s \in Sinks, Storage!StorageAnswers(s)
  PROVE  SinkInv'
<1>1. /\ SinkTyped /\ mode = "async" /\ sink[s] \in SinkRecord
      /\ sink[s].op \notin {"none", "clean"} /\ sink[s].answer = "none"
      /\ mode' = mode /\ ready' = ready /\ worker' = worker /\ calls' = calls
      /\ inbox' = inbox /\ reserved' = reserved
  BY DEF SinkInv, Storage!StorageAnswers, Storage!stable, SinkTyped
<1>2. PICK ok \in BOOLEAN :
        /\ Storage!Performed(s, sink[s].step, ok)
        /\ sink' = [sink EXCEPT ![s].answer = IF ok THEN "ok" ELSE "error"]
  BY DEF Storage!StorageAnswers
<1>3. ready
  BY <1>1 DEF SinkInv, NothingYet, Storage!Fresh
<1>4. /\ sink' \in [Sinks -> SinkRecord]
      /\ \A t \in Sinks : t # s => sink'[t] = sink[t]
  <2>1. PICK answer \in {"ok", "error"} : answer = IF ok THEN "ok" ELSE "error"
    OBVIOUS
  <2> QED BY <1>1, <1>2, <2>1, AnsweredTyped
<1>5. CASE sink[s].step \in Storage!Steps
  <2>1. /\ handle' \in [Sinks -> BOOLEAN] /\ disk' \in [Sinks -> Int]
        /\ excused' \in SUBSET Sinks /\ excused \subseteq excused'
        /\ \A t \in Sinks : t # s => handle'[t] = handle[t] /\ disk'[t] = disk[t]
    BY <1>1, <1>2, <1>5, PerformedEffect
  <2>2. SinkTyped'
    BY <1>1, <1>4, <2>1 DEF SinkTyped
  <2>3. ASSUME s \notin excused'
        PROVE  Sound(s)' /\ Asked(s)'
    <3>1. Sound(s) /\ Asked(s)
      BY <1>3, <2>1, <2>3 DEF SinkInv
    <3>2. Unasked(s)
      BY <1>1, <3>1 DEF Asked, Unasked
    <3>3. Sound(s)'
      BY <1>1, <1>2, <1>5, <2>3, <3>1, AnswerSound
    <3> QED BY <1>1, <3>2, <3>3, InboxSame, UnaskedAsked
  <2>4. \A t \in Sinks : t # s => SameSink(t) /\ (Asked(t) => Asked(t)')
    BY <1>1, <1>4, <2>1, InboxSame DEF SameSink
  <2>5. \A t \in Sinks : t # s /\ t \notin excused' => Sound(t)' /\ Asked(t)'
    BY <1>3, <2>1, <2>4, OthersSound
  <2> QED BY <1>1, <1>3, <2>2, <2>3, <2>5 DEF SinkInv, NothingYet
<1> QED BY <1>1, <1>5 DEF SinkRecord, SinkFields

LEMMA WorkerHandlesInv ==
  ASSUME SinkInv, Storage!WorkerHandles
  PROVE  SinkInv'
<1> DEFINE m == Head(inbox)
<1>1. /\ SinkTyped /\ inbox # <<>> /\ inbox' = Tail(inbox)
      /\ mode' = mode /\ ready' = ready /\ worker' = worker /\ calls' = calls
      /\ reserved' = reserved
  BY DEF SinkInv, Storage!WorkerHandles, Storage!stable
<1>2. PICK ok \in BOOLEAN :
        /\ Storage!Performed(m.sink, m.type, ok)
        /\ sink' = IF m.live
                   THEN [sink EXCEPT ![m.sink].answer = IF ok THEN "ok" ELSE "error"]
                   ELSE sink
  BY DEF Storage!WorkerHandles
<1>3. ready
  BY <1>1 DEF SinkInv, NothingYet
<1>4. /\ inbox' \in Seq(SinkRequest) /\ m \in SinkRequest
      /\ \A t \in Sinks : /\ Unasked(t) => Unasked(t)'
                          /\ Asked(t) /\ sink'[t] = sink[t] => Asked(t)'
                          /\ Asked(t) /\ m.sink = t => Unasked(t)'
  BY <1>1, InboxLess
<1>5. PICK s \in Sinks : s = m.sink
  BY <1>4 DEF SinkRequest
<1>6. m.type \in Storage!Steps /\ m.live \in BOOLEAN
  BY <1>4 DEF SinkRequest
<1>7. /\ sink' \in [Sinks -> SinkRecord]
      /\ \A t \in Sinks : t # s => sink'[t] = sink[t]
  <2>1. PICK answer \in {"ok", "error"} : answer = IF ok THEN "ok" ELSE "error"
    OBVIOUS
  <2>2. CASE m.live
    BY <1>1, <1>2, <1>5, <2>1, <2>2, AnsweredTyped
  <2>3. CASE ~m.live
    BY <1>1, <1>2, <2>3 DEF SinkTyped
  <2> QED BY <2>2, <2>3
<1>8. /\ handle' \in [Sinks -> BOOLEAN] /\ disk' \in [Sinks -> Int]
      /\ excused' \in SUBSET Sinks /\ excused \subseteq excused'
      /\ \A t \in Sinks : t # s => handle'[t] = handle[t] /\ disk'[t] = disk[t]
  BY <1>1, <1>2, <1>5, <1>6, PerformedEffect
<1>9. SinkTyped'
  BY <1>1, <1>4, <1>7, <1>8 DEF SinkTyped
<1>10. ASSUME s \notin excused'
       PROVE  Sound(s)' /\ Asked(s)'
  <2>1. Sound(s) /\ Asked(s)
    BY <1>3, <1>8, <1>10 DEF SinkInv
  <2>2. 1 \in 1 .. Len(inbox) /\ m = inbox[1]
    BY <1>1 DEF SinkTyped
  <2>3. /\ m.live /\ m.type = sink[s].step
        /\ sink[s].op \notin {"none", "clean"} /\ sink[s].answer = "none"
    BY <1>5, <2>1, <2>2 DEF Asked
  <2>4. Sound(s)'
    BY <1>1, <1>2, <1>5, <1>6, <1>10, <2>1, <2>3, AnswerSound
  <2>5. Asked(s)'
    BY <1>4, <1>5, <2>1, UnaskedAsked
  <2> QED BY <2>4, <2>5
<1>11. \A t \in Sinks : t # s => SameSink(t) /\ (Asked(t) => Asked(t)')
  BY <1>1, <1>4, <1>7, <1>8 DEF SameSink
<1>12. \A t \in Sinks : t # s /\ t \notin excused' => Sound(t)' /\ Asked(t)'
  BY <1>3, <1>8, <1>11, OthersSound
<1> QED BY <1>1, <1>3, <1>9, <1>10, <1>12 DEF SinkInv, NothingYet

LEMMA RequestTimeoutInv ==
  ASSUME SinkInv, NEW s \in Sinks, Storage!RequestTimeout(s)
  PROVE  SinkInv'
<1>1. /\ SinkTyped /\ \E i \in DOMAIN inbox : inbox[i].sink = s /\ inbox[i].live
      /\ inbox' = [i \in DOMAIN inbox |-> IF inbox[i].sink = s
                                          THEN [inbox[i] EXCEPT !.live = FALSE] ELSE inbox[i]]
      /\ sink' = [sink EXCEPT ![s].answer = "error"]
      /\ excused' = excused \cup {s}
      /\ mode' = mode /\ ready' = ready /\ worker' = worker /\ calls' = calls
      /\ reserved' = reserved /\ handle' = handle /\ disk' = disk
  BY DEF SinkInv, Storage!RequestTimeout, Storage!stable
<1>2. ready
  <2>1. inbox # <<>>
    BY <1>1
  <2> QED BY <2>1 DEF SinkInv, NothingYet
<1>3. /\ sink' \in [Sinks -> SinkRecord]
      /\ \A t \in Sinks : t # s => sink'[t] = sink[t]
  BY <1>1, AnsweredTyped
<1>4. inbox \in Seq(SinkRequest) /\ DOMAIN inbox = 1 .. Len(inbox) /\ Len(inbox) \in Nat
  BY <1>1 DEF SinkTyped
<1>5. \A i \in 1 .. Len(inbox) :
        /\ inbox[i] \in SinkRequest
        /\ inbox'[i] = IF inbox[i].sink = s
                       THEN [inbox[i] EXCEPT !.live = FALSE] ELSE inbox[i]
  BY <1>1, <1>4
<1>6. \A i \in 1 .. Len(inbox) : inbox'[i] \in SinkRequest
                                 /\ inbox'[i].sink = inbox[i].sink
  <2> SUFFICES ASSUME NEW i \in 1 .. Len(inbox)
               PROVE  inbox'[i] \in SinkRequest /\ inbox'[i].sink = inbox[i].sink
    OBVIOUS
  <2>1. PICK r : r = [inbox[i] EXCEPT !.live = FALSE]
    OBVIOUS
  <2>2. r \in SinkRequest /\ r.sink = inbox[i].sink
    BY <1>5, <2>1 DEF SinkRequest
  <2> QED BY <1>5, <2>1, <2>2
<1>7. inbox' \in Seq(SinkRequest) /\ Len(inbox') = Len(inbox)
  BY <1>1, <1>4, <1>6
<1>8. SinkTyped'
  BY <1>1, <1>3, <1>7 DEF SinkTyped
<1>9. ASSUME NEW t \in Sinks, t # s
      PROVE  SameSink(t) /\ (Asked(t) => Asked(t)')
  <2>1. SameSink(t)
    BY <1>1, <1>3, <1>9 DEF SameSink
  <2>2. \A i \in 1 .. Len(inbox) : inbox'[i].sink = t => inbox'[i] = inbox[i]
    BY <1>5, <1>6, <1>9
  <2>3. ASSUME Asked(t)
        PROVE  Asked(t)'
    BY <1>1, <1>3, <1>6, <1>7, <1>9, <2>2, <2>3 DEF Asked
  <2> QED BY <2>1, <2>3
<1>10. \A t \in Sinks : t # s /\ t \notin excused' => Sound(t)' /\ Asked(t)'
  <2>1. excused \subseteq excused'
    BY <1>1
  <2> QED BY <1>2, <1>9, <2>1, OthersSound
<1> QED BY <1>1, <1>2, <1>8, <1>10 DEF SinkInv, NothingYet

LEMMA WorkerFailsInv ==
  ASSUME SinkInv, Storage!WorkerFails
  PROVE  SinkInv'
<1>1. /\ SinkTyped /\ worker' = FALSE /\ inbox' = <<>>
      /\ handle' = [s \in Sinks |-> FALSE] /\ excused' = Sinks
      /\ mode' = mode /\ ready' = ready /\ calls' = calls /\ disk' = disk
      /\ reserved' = reserved
  BY DEF SinkInv, Storage!WorkerFails
<1>2. ASSUME NEW s \in Sinks
      PROVE  /\ sink'[s] \in SinkRecord
             /\ sink[s].op = "none" => sink'[s] = sink[s]
  <2>1. sink[s] \in SinkRecord
    BY <1>1 DEF SinkTyped
  <2>2. PICK r : r = [sink[s] EXCEPT !.answer = "error"]
    OBVIOUS
  <2>3. r \in SinkRecord
    BY <2>1, <2>2 DEF SinkRecord, SinkFields
  <2>4. sink'[s] = IF sink[s].op \notin {"none", "clean"} /\ sink[s].answer = "none"
                   THEN r ELSE sink[s]
    BY <2>2 DEF Storage!WorkerFails
  <2> QED BY <2>1, <2>3, <2>4
<1>3. sink' \in [Sinks -> SinkRecord]
  <2>1. sink' = [s \in Sinks |-> sink'[s]]
    BY DEF Storage!WorkerFails
  <2> QED BY <1>2, <2>1
<1>4. inbox' \in Seq(SinkRequest) /\ handle' \in [Sinks -> BOOLEAN]
  BY <1>1
<1>5. SinkTyped'
  BY <1>1, <1>3, <1>4 DEF SinkTyped
<1>6. NothingYet'
  BY <1>1, <1>2 DEF NothingYet, SinkInv, Storage!Fresh
<1> QED BY <1>1, <1>5, <1>6 DEF SinkInv

LEMMA InitializeInv ==
  ASSUME SinkInv, Storage!Initialize
  PROVE  SinkInv'
<1>1. /\ SinkTyped /\ NothingYet /\ ~ready /\ ready' = TRUE
      /\ disk' = [s \in Sinks |-> Storage!NoFile] /\ excused' = {}
      /\ mode' = mode /\ sink' = sink /\ calls' = calls /\ inbox' = inbox
      /\ worker' = worker /\ handle' = handle /\ reserved' = reserved
  BY DEF SinkInv, Storage!Initialize
<1>2. SinkTyped'
  <2>1. disk' \in [Sinks -> Int]
    BY <1>1 DEF Storage!NoFile
  <2> QED BY <1>1, <2>1 DEF SinkTyped
<1>3. ASSUME NEW s \in Sinks
      PROVE  Sound(s)' /\ Asked(s)'
  <2>1. /\ sink'[s] = Storage!Fresh /\ ~handle'[s] /\ inbox' = <<>> /\ reserved' = {}
        /\ disk'[s] = Storage!NoFile
    BY <1>1 DEF NothingYet
  <2> QED BY <2>1 DEF Sound, Asked, NoTrace, StepsOf, Storage!Fresh
<1> QED BY <1>1, <1>2, <1>3 DEF SinkInv, NothingYet

LEMMA ReloadInv ==
  ASSUME SinkInv, Storage!Reload
  PROVE  SinkInv'
<1>1. /\ SinkTyped /\ ready' = FALSE /\ worker' = TRUE
      /\ sink' = [s \in Sinks |-> Storage!Fresh] /\ calls' = [s \in Sinks |-> <<>>]
      /\ inbox' = <<>> /\ handle' = [s \in Sinks |-> FALSE] /\ reserved' = {}
      /\ mode' = mode /\ disk' = disk /\ excused' = excused
  BY DEF SinkInv, Storage!Reload
<1>2. Storage!Fresh \in SinkRecord
  BY DEF SinkRecord, SinkFields, Storage!Fresh, Storage!Ops, Storage!Steps
<1>3. /\ sink' \in [Sinks -> SinkRecord]
      /\ calls' \in [Sinks -> Seq({"write", "close", "abort", "remove"})]
      /\ inbox' \in Seq(SinkRequest) /\ handle' \in [Sinks -> BOOLEAN]
  BY <1>1, <1>2
<1>4. SinkTyped'
  BY <1>1, <1>3 DEF SinkTyped
<1> QED BY <1>1, <1>4 DEF SinkInv, NothingYet

LEMMA SinkStep ==
  ASSUME SinkInv, Storage!Next PROVE SinkInv'
BY InitializeInv, ReloadInv, CreateFileSinkInv, SinkCallInv, NextCallInv, ContinueInv,
   CleanUpInv, StorageAnswersInv, RequestTimeoutInv, WorkerHandlesInv, WorkerFailsInv
   DEF Storage!Next

LEMMA SinkStutter ==
  ASSUME SinkInv, UNCHANGED sinkVars PROVE SinkInv'
BY DEF sinkVars, SinkInv, SinkTyped, NothingYet, Sound, Asked, NoTrace

LEMMA SinkPromises ==
  ASSUME SinkInv PROVE Storage!ClosedIsComplete /\ Storage!NothingLeft
<1>1. ASSUME NEW s \in Sinks, Storage!AtRest(s), s \notin excused
      PROVE  Sound(s) /\ sink[s].op = "none"
  BY <1>1 DEF SinkInv, Storage!AtRest
<1>2. Storage!ClosedIsComplete
  BY <1>1 DEF Storage!ClosedIsComplete, Sound
<1>3. Storage!NothingLeft
  BY <1>1 DEF Storage!NothingLeft, Sound, NoTrace
<1> QED BY <1>2, <1>3

SinksInv == part = "sinks" => SinkInv

LEMMA SinksHold == Spec => []SinksInv
<1>1. Init => SinksInv
  BY SinkStarts DEF Init, SinksInv
<1>2. SinksInv /\ [Next]_vars => SinksInv'
  <2> SUFFICES ASSUME SinksInv, [Next]_vars, part' = "sinks"
               PROVE  SinkInv'
    BY DEF SinksInv
  <2>1. CASE Next
    <3>1. part = "sinks" /\ Storage!Next
      BY <2>1 DEF Next
    <3> QED BY <3>1, SinkStep DEF SinksInv
  <2>2. CASE UNCHANGED vars
    <3>1. part = "sinks" /\ UNCHANGED sinkVars
      BY <2>2 DEF vars, deviceVars
    <3> QED BY <3>1, SinkStutter DEF SinksInv
  <2> QED BY <2>1, <2>2
<1> QED BY <1>1, <1>2, PTL DEF Spec

-----------------------------------------------------------------------------
(* Sessions of the bridge, whose inductive invariant is the one of         *)
(* BridgeSessionProofs.                                                    *)

Sessions == INSTANCE BridgeSessionProofs

BridgeHoldsInv == part = "bridge" => Sessions!BridgeInv

LEMMA SessionsAssumed == Sessions!BridgeAssumption
BY BridgeBounds DEF Sessions!BridgeAssumption, Sessions!IsFiniteSet, IsFiniteSet

LEMMA SessionsStart == Bridge!Init => Sessions!BridgeInv
<1>1. Bridge!Init => Sessions!Init
  BY DEF Bridge!Init, Sessions!Init
<1> QED BY <1>1, SessionsAssumed, Sessions!InitInv

LEMMA SessionsStep ==
  ASSUME Sessions!BridgeInv, Bridge!Next \/ UNCHANGED bridgeVars
  PROVE  Sessions!BridgeInv'
<1>1. Bridge!Next => Sessions!Next
  BY DEF Bridge!Next, Sessions!Next, Bridge!To, Sessions!To,
         Bridge!Cardinality, Sessions!Cardinality,
         Bridge!ReserveDial, Sessions!ReserveDial,
         Bridge!FinishFailedDial, Sessions!FinishFailedDial,
         Bridge!Connected, Sessions!Connected,
         Bridge!FinishSuccessfulDial, Sessions!FinishSuccessfulDial,
         Bridge!CloseStream, Sessions!CloseStream,
         Bridge!StreamClosed, Sessions!StreamClosed,
         Bridge!GiveUp, Sessions!GiveUp,
         Bridge!Close, Sessions!Close, Bridge!CloseClient, Sessions!CloseClient
<1>2. UNCHANGED bridgeVars => UNCHANGED Sessions!vars
  BY DEF bridgeVars, Sessions!vars
<1> QED BY <1>1, <1>2, SessionsAssumed, Sessions!NextInv

LEMMA SessionsPromise ==
  ASSUME Sessions!BridgeInv
  PROVE  Bridge!NothingOutlives /\ Bridge!CountersHonest /\ Bridge!StreamBound
<1>1. Sessions!NothingOutlives /\ Sessions!CountersHonest /\ Sessions!StreamBound
  BY DEF Sessions!BridgeInv, Sessions!CloseOrder, Sessions!NothingOutlives, Sessions!Open
<1> QED
  BY <1>1 DEF Bridge!NothingOutlives, Sessions!NothingOutlives,
              Bridge!CountersHonest, Sessions!CountersHonest,
              Bridge!StreamBound, Sessions!StreamBound, Bridge!Is, Sessions!Is,
              Bridge!Cardinality, Sessions!Cardinality

LEMMA BridgeHolds == Spec => []BridgeHoldsInv
<1>1. Init => BridgeHoldsInv
  BY SessionsStart DEF Init, BridgeHoldsInv
<1>2. BridgeHoldsInv /\ [Next]_vars => BridgeHoldsInv'
  <2> SUFFICES ASSUME BridgeHoldsInv, [Next]_vars, part' = "bridge"
               PROVE  Sessions!BridgeInv'
    BY DEF BridgeHoldsInv
  <2>1. part = "bridge" /\ (Bridge!Next \/ UNCHANGED bridgeVars)
    BY DEF Next, vars, streamVars
  <2> QED BY <2>1, SessionsStep DEF BridgeHoldsInv
<1> QED BY <1>1, <1>2, PTL DEF Spec

\* What processOutgoingFile shows as sent the receiver has stored, with a stream, a
\* decision and a storage that fail at any point between; and a sink that close()
\* has closed has every chunk on disk, however its operations were queued.
THEOREM StoredWhenSent == Spec => []SentMeansStored
<1>1. ASSUME FilesInv, SinksInv PROVE SentMeansStored
  <2>1. part = "sameWay" => Moving({x1, x2}, FromA, 2)!SentMeansStored
    BY <1>1, FilesAssumed, FilePromises DEF FilesInv
  <2>2. part = "bothWays" => Moving({x1, y}, FromBoth, 1)!SentMeansStored
    BY <1>1, FilesAssumed, FilePromises DEF FilesInv
  <2>3. part = "sinks" => Storage!ClosedIsComplete
    BY <1>1, SinkPromises DEF SinksInv
  <2> QED BY <2>1, <2>2, <2>3 DEF SentMeansStored
<1> QED BY <1>1, FilesHold, SinksHold, PTL

\* A receiver that has ended (receiveFile) and a sink that was aborted, removed or
\* never created (createFileSink, fail, remove) leave no unfinished file; no stream
\* outlives the close of its session (jsSession.close), whenever its dial ends; and
\* no camera is on but for the call in progress.
THEOREM NothingIsLeft == Spec => []NothingLeftBehind
<1>1. ASSUME FilesInv, SinksInv, BridgeHoldsInv, CallsInv PROVE NothingLeftBehind
  <2>1. part = "sameWay" => Moving({x1, x2}, FromA, 2)!NoOrphanFile
    BY <1>1, FilesAssumed, FilePromises DEF FilesInv
  <2>2. part = "bothWays" => Moving({x1, y}, FromBoth, 1)!NoOrphanFile
    BY <1>1, FilesAssumed, FilePromises DEF FilesInv
  <2>3. part = "sinks" => Storage!NothingLeft
    BY <1>1, SinkPromises DEF SinksInv
  <2>4. part = "bridge" => Bridge!NothingOutlives
    BY <1>1, SessionsPromise DEF BridgeHoldsInv
  <2>5. /\ part = "calls" => Calling(2, 1)!NothingLeftOn
        /\ part = "restarts" => Calling(1, 2)!NothingLeftOn
    BY <1>1, CallPromises, Apart DEF CallsInv
  <2> QED BY <2>1, <2>2, <2>3, <2>4, <2>5 DEF NothingLeftBehind
<1> QED BY <1>1, FilesHold, SinksHold, BridgeHolds, CallsHold, PTL

-----------------------------------------------------------------------------
(* The heartbeat.  The pings under way, to the member and back, are those  *)
(* that have become stale, in their order, and the outstanding one behind  *)
(* them; so the host knows each of them, and its list is never cut.        *)

UnderWay == up \o down

BeatOrder ==
  /\ \A i, j \in 1 .. Len(UnderWay) : i < j => UnderWay[i] < UnderWay[j]
  /\ \A i \in 1 .. Len(UnderWay) : UnderWay[i] <= sent

BeatBooks ==
  /\ Len(stale) <= failures
  /\ ~online => outstanding = {}
  /\ outstanding = {} => UnderWay = <<>> /\ stale = <<>>
  /\ outstanding # {} =>
       /\ Len(UnderWay) = Len(stale) + 1
       /\ outstanding = {UnderWay[Len(stale) + 1]}
       /\ \A i \in 1 .. Len(stale) : stale[i] = UnderWay[i]

BeatInv == Beat!TypeOK /\ BeatOrder /\ BeatBooks

LEMMA WayMoves ==
  ASSUME NEW S, NEW s \in Seq(S), NEW t \in Seq(S), NEW x \in S
  PROVE  /\ s \o Append(t, x) = Append(s \o t, x)
         /\ t # <<>> => Append(s, Head(t)) \o Tail(t) = s \o t
         /\ s # <<>> => Tail(s) \o t = Tail(s \o t) /\ Head(s) = (s \o t)[1]
                        /\ s \o t # <<>>
         /\ s \o t \in Seq(S)
<1> DEFINE n == Len(s)
           k == Len(t)
           u == s \o t
<1>1. /\ u \in Seq(S) /\ Len(u) = n + k /\ n \in Nat /\ k \in Nat
      /\ \A i \in 1 .. n + k : u[i] = IF i <= n THEN s[i] ELSE t[i - n]
  BY ConcatProperties, LenProperties
<1>2. s \o Append(t, x) = Append(u, x)
  <2>1. Append(t, x) = t \o <<x>> /\ Append(u, x) = u \o <<x>> /\ <<x>> \in Seq(S)
    BY <1>1
  <2> QED BY <2>1, ConcatAssociative
<1>3. ASSUME t # <<>>
      PROVE  Append(s, Head(t)) \o Tail(t) = u
  <2>1. /\ Head(t) \in S /\ Tail(t) \in Seq(S)
        /\ t = <<Head(t)>> \o Tail(t) /\ <<Head(t)>> \in Seq(S)
        /\ Append(s, Head(t)) = s \o <<Head(t)>>
    <3>1. /\ Head(t) \in S /\ Tail(t) \in Seq(S) /\ Len(Tail(t)) = k - 1
          /\ \A i \in 1 .. k - 1 : Tail(t)[i] = t[i + 1]
      BY <1>3, HeadTailProperties
    <3>2. <<Head(t)>> \in Seq(S)
      BY <3>1
    <3>3. t = <<Head(t)>> \o Tail(t)
      BY <1>3
    <3> QED BY <3>1, <3>2, <3>3
  <2> QED BY <2>1, ConcatAssociative
<1>4. ASSUME s # <<>>
      PROVE  Tail(s) \o t = Tail(u) /\ Head(s) = u[1] /\ u # <<>>
  <2>1. n # 0
    BY <1>4
  <2>2. u # <<>> /\ u[1] = s[1] /\ Head(s) = s[1]
    BY <1>1, <1>4, <2>1
  <2>3. /\ Tail(s) \in Seq(S) /\ Len(Tail(s)) = n - 1
        /\ \A i \in 1 .. n - 1 : Tail(s)[i] = s[i + 1]
    BY <1>4, HeadTailProperties
  <2>4. /\ Tail(u) \in Seq(S) /\ Len(Tail(u)) = n + k - 1
        /\ \A i \in 1 .. n + k - 1 : Tail(u)[i] = u[i + 1]
    BY <1>1, <2>2, HeadTailProperties
  <2>5. /\ Tail(s) \o t \in Seq(S) /\ Len(Tail(s) \o t) = n - 1 + k
        /\ \A i \in 1 .. n - 1 + k : (Tail(s) \o t)[i] =
              IF i <= n - 1 THEN Tail(s)[i] ELSE t[i - (n - 1)]
    BY <2>3, ConcatProperties
  <2>6. ASSUME NEW i \in 1 .. n - 1 + k
        PROVE  (Tail(s) \o t)[i] = Tail(u)[i]
    <3>1. Tail(u)[i] = u[i + 1] /\ i + 1 \in 1 .. n + k
      BY <1>1, <2>1, <2>4
    <3>2. CASE i <= n - 1
      BY <1>1, <2>1, <2>3, <2>5, <3>1, <3>2
    <3>3. CASE ~(i <= n - 1)
      <4>1. PICK j \in 1 .. n + k : j = i + 1
        BY <3>1
      <4>2. ~(j <= n) /\ j - n = i - (n - 1)
        BY <1>1, <3>3, <4>1
      <4>3. u[j] = t[j - n]
        BY <1>1, <4>2
      <4> QED BY <2>5, <3>1, <3>3, <4>1, <4>2, <4>3
    <3> QED BY <3>2, <3>3
  <2>7. Tail(s) \o t = Tail(u)
    <3> HIDE DEF u
    <3> QED BY <1>1, <2>4, <2>5, <2>6, SeqEqual
  <2> QED BY <2>2, <2>7
<1> QED BY <1>1, <1>2, <1>3, <1>4

LEMMA BeatQuiet ==
  ASSUME Beat!TypeOK, Beat!MarkMemberReconnecting, sent' = sent, stream' = stream
  PROVE  BeatInv'
<1>1. UnderWay' = <<>>
  BY DEF Beat!MarkMemberReconnecting, UnderWay
<1>2. Beat!TypeOK'
  <2>1. \A P : <<>> \in Seq(P)
    OBVIOUS
  <2>2. failures' \in 0 .. heartbeatFailureLimit - 1
    BY BeatBounds DEF Beat!MarkMemberReconnecting
  <2> QED BY <2>1, <2>2 DEF Beat!TypeOK, Beat!MarkMemberReconnecting
<1> QED BY <1>1, <1>2 DEF BeatInv, BeatOrder, BeatBooks, Beat!MarkMemberReconnecting

LEMMA BeatStarts == Beat!Init => BeatInv
<1> SUFFICES ASSUME Beat!Init PROVE BeatInv
  OBVIOUS
<1>1. UnderWay = <<>>
  BY DEF Beat!Init, UnderWay
<1> QED BY <1>1, BeatBounds DEF Beat!Init, BeatInv, BeatOrder, BeatBooks, Beat!TypeOK

LEMMA TickStep == ASSUME BeatInv, Beat!Tick PROVE BeatInv'
<1> DEFINE missed == outstanding # {}
           late == IF missed THEN Append(stale, CHOOSE n \in outstanding : TRUE) ELSE stale
           count == IF missed THEN failures + 1 ELSE failures
           limit == heartbeatFailureLimit
<1>1. CASE Beat!MarkMemberReconnecting /\ sent' = sent /\ stream' = stream
  BY <1>1, BeatQuiet DEF BeatInv
<1>2. CASE /\ count < limit
           /\ sent' = sent + 1
           /\ outstanding' = {sent + 1}
           /\ stale' = Beat!Newest(late, 2 * limit)
           /\ failures' = count
           /\ down' = Append(down, sent + 1)
           /\ UNCHANGED <<online, up>>
           /\ UNCHANGED stream
  <2>1. /\ sent \in 0 .. MaxPing /\ sent < MaxPing /\ sent + 1 \in 1 .. MaxPing
        /\ up \in Seq(1 .. MaxPing) /\ down \in Seq(1 .. MaxPing)
        /\ stale \in Seq(1 .. MaxPing) /\ failures \in Nat /\ online
        /\ limit \in Nat /\ outstanding \subseteq 1 .. MaxPing
    BY BeatBounds DEF BeatInv, Beat!TypeOK, Beat!Tick
  <2>2. /\ UnderWay' = Append(UnderWay, sent + 1)
        /\ UnderWay \in Seq(1 .. MaxPing)
    BY <1>2, <2>1, WayMoves DEF UnderWay
  <2>3. PICK n : n = Len(UnderWay)
    OBVIOUS
  <2>4. /\ n \in Nat /\ Len(UnderWay') = n + 1
        /\ UnderWay'[n + 1] = sent + 1
        /\ \A i \in 1 .. n : UnderWay'[i] = UnderWay[i] /\ UnderWay[i] \in 1 .. MaxPing
    <3>1. PICK P : P = 1 .. MaxPing
      OBVIOUS
    <3>2. UnderWay \in Seq(P) /\ sent + 1 \in P
      BY <2>1, <2>2, <3>1
    <3>3. PICK e : e = sent + 1
      OBVIOUS
    <3>4. /\ n \in Nat /\ \A i \in 1 .. n : UnderWay[i] \in P
          /\ UnderWay' = Append(UnderWay, e) /\ e \in P
      BY <2>2, <2>3, <3>2, <3>3, LenProperties, ElementOfSeq
    <3>5. Len(UnderWay') = n + 1 /\ UnderWay'[n + 1] = e
          /\ \A i \in 1 .. n : UnderWay'[i] = UnderWay[i]
      BY <2>3, <3>2, <3>4
    <3> QED BY <3>1, <3>3, <3>4, <3>5
  <2>5. BeatOrder'
    <3>1. \A i \in 1 .. n : UnderWay'[i] <= sent
      BY <2>3, <2>4 DEF BeatInv, BeatOrder
    <3>2. \A i \in 1 .. n + 1 : i \in 1 .. n \/ i = n + 1
      BY <2>4
    <3>3. \A i, j \in 1 .. n : i < j => UnderWay'[i] < UnderWay'[j]
      BY <2>3, <2>4 DEF BeatInv, BeatOrder
    <3>4. \A i \in 1 .. n + 1 : UnderWay'[i] <= sent'
      <4>1. \A i \in 1 .. n : UnderWay'[i] \in Int
        BY <2>4
      <4>2. \A i \in 1 .. n : UnderWay'[i] <= sent + 1
        BY <2>1, <3>1, <4>1
      <4> QED BY <1>2, <2>1, <2>4, <3>2, <4>2
    <3>5. ASSUME NEW i \in 1 .. n + 1, NEW j \in 1 .. n + 1, i < j
          PROVE  UnderWay'[i] < UnderWay'[j]
      <4>1. i \in 1 .. n
        BY <2>4, <3>5
      <4>2. CASE j \in 1 .. n
        BY <3>3, <3>5, <4>1, <4>2
      <4>3. CASE j = n + 1
        BY <2>1, <2>4, <3>1, <4>1, <4>3
      <4> QED BY <3>2, <4>2, <4>3
    <3> QED BY <2>4, <3>4, <3>5 DEF BeatOrder
  <2>6. /\ late \in Seq(1 .. MaxPing)
        /\ Len(late) = n /\ Len(late) <= count
        /\ \A i \in 1 .. n : late[i] = UnderWay[i]
    <3>1. CASE outstanding = {}
      <4>1. UnderWay = <<>> /\ stale = <<>> /\ late = <<>>
        BY <3>1 DEF BeatInv, BeatBooks
      <4> QED BY <2>1, <2>3, <3>1, <4>1
    <3>2. CASE outstanding # {}
      <4>1. /\ n = Len(stale) + 1 /\ outstanding = {UnderWay[n]}
            /\ \A i \in 1 .. Len(stale) : stale[i] = UnderWay[i]
            /\ Len(stale) <= failures
        BY <2>3, <3>2 DEF BeatInv, BeatBooks
      <4>2. late = Append(stale, UnderWay[n])
        BY <3>2, <4>1
      <4>3. UnderWay[n] \in 1 .. MaxPing
        BY <2>1, <4>1
      <4> QED BY <2>1, <3>2, <4>1, <4>2, <4>3
    <3> QED BY <3>1, <3>2
  <2>7. stale' = late
    <3>1. ~(Len(late) > 2 * limit)
      BY <1>2, <2>1, <2>4, <2>6
    <3>2. SubSeq(late, 1, Len(late)) = late
      BY <2>6
    <3> QED BY <1>2, <3>1, <3>2 DEF Beat!Newest
  <2>8. BeatBooks'
    <3>1. /\ Len(stale') = n /\ n <= failures'
          /\ \A i \in 1 .. n : stale'[i] = UnderWay'[i]
      BY <1>2, <2>4, <2>6, <2>7
    <3>2. outstanding' # {} /\ outstanding' = {UnderWay'[n + 1]}
      BY <1>2, <2>4
    <3> QED BY <1>2, <2>1, <2>4, <3>1, <3>2 DEF BeatBooks
  <2>9. Beat!TypeOK'
    <3>1. count \in 0 .. limit - 1
      BY <1>2, <2>1
    <3>2. down' \in Seq(1 .. MaxPing)
      <4>1. PICK P : P = 1 .. MaxPing
        OBVIOUS
      <4> QED BY <1>2, <2>1, <4>1
    <3>3. /\ outstanding' \subseteq 1 .. MaxPing /\ stale' \in Seq(1 .. MaxPing)
          /\ sent' \in 0 .. MaxPing /\ failures' \in 0 .. limit - 1
          /\ up' \in Seq(1 .. MaxPing)
      <4>1. stale' \in Seq(1 .. MaxPing) /\ up' \in Seq(1 .. MaxPing)
        BY <1>2, <2>1, <2>6, <2>7
      <4>2. outstanding' \subseteq 1 .. MaxPing
        BY <1>2, <2>1
      <4>3. sent' \in 0 .. MaxPing
        BY <1>2, <2>1
      <4> QED BY <1>2, <3>1, <4>1, <4>2, <4>3
    <3>4. online' \in BOOLEAN /\ stream' \in 1 .. MaxStream
      BY <1>2 DEF BeatInv, Beat!TypeOK
    <3> QED BY <3>2, <3>3, <3>4 DEF Beat!TypeOK
  <2> QED BY <2>5, <2>8, <2>9 DEF BeatInv
<1> QED BY <1>1, <1>2 DEF Beat!Tick

LEMMA ReadPingStep == ASSUME BeatInv, Beat!ReadPing PROVE BeatInv'
<1>1. /\ down # <<>> /\ up' = Append(up, Head(down)) /\ down' = Tail(down)
      /\ online' = online /\ outstanding' = outstanding /\ stale' = stale
      /\ failures' = failures /\ sent' = sent /\ stream' = stream
      /\ up \in Seq(1 .. MaxPing) /\ down \in Seq(1 .. MaxPing)
  BY DEF BeatInv, Beat!TypeOK, Beat!ReadPing
<1>2. Head(down) \in 1 .. MaxPing /\ Tail(down) \in Seq(1 .. MaxPing)
  BY <1>1, HeadTailProperties
<1>3. UnderWay' = UnderWay
  BY <1>1, <1>2, WayMoves DEF UnderWay
<1>4. up' \in Seq(1 .. MaxPing) /\ down' \in Seq(1 .. MaxPing)
  <2>1. PICK P : P = 1 .. MaxPing
    OBVIOUS
  <2> QED BY <1>1, <1>2, <2>1
<1> QED BY <1>1, <1>3, <1>4 DEF BeatInv, BeatOrder, BeatBooks, Beat!TypeOK

\* The oldest ping under way is the outstanding one, when it is the only one, or
\* the oldest stale one.
LEMMA ReadPongStep == ASSUME BeatInv, Beat!ReadPong PROVE BeatInv'
<1> DEFINE m == Head(up)
<1>1. /\ up # <<>> /\ sent' = sent /\ stream' = stream
      /\ up \in Seq(1 .. MaxPing) /\ down \in Seq(1 .. MaxPing)
      /\ stale \in Seq(1 .. MaxPing) /\ m \in 1 .. MaxPing
      /\ sent \in Nat /\ failures \in Nat
  <2>1. /\ up # <<>> /\ sent' = sent /\ stream' = stream
        /\ up \in Seq(1 .. MaxPing) /\ down \in Seq(1 .. MaxPing)
        /\ stale \in Seq(1 .. MaxPing) /\ sent \in Nat /\ failures \in Nat
    BY BeatBounds DEF BeatInv, Beat!TypeOK, Beat!ReadPong
  <2> QED BY <2>1, HeadTailProperties
<1>2. /\ UnderWay \in Seq(1 .. MaxPing) /\ UnderWay # <<>> /\ m = UnderWay[1]
      /\ Tail(up) \o down = Tail(UnderWay)
  BY <1>1, WayMoves DEF UnderWay
<1>3. PICK n \in Nat : n = Len(UnderWay)
  BY <1>2
<1>4. n >= 1
  BY <1>2, <1>3
<1>5. outstanding # {}
  BY <1>2 DEF BeatInv, BeatBooks
<1>6. /\ n = Len(stale) + 1 /\ outstanding = {UnderWay[n]}
      /\ \A i \in 1 .. Len(stale) : stale[i] = UnderWay[i]
      /\ Len(stale) <= failures /\ Len(stale) \in Nat
  BY <1>1, <1>3, <1>5 DEF BeatInv, BeatBooks
<1>7. \A i \in 1 .. n : UnderWay[i] \in Int /\ (i # 1 => UnderWay[i] # m)
  <2>1. \A i \in 1 .. n : UnderWay[i] \in Int
    <3>1. \A i \in 1 .. n : UnderWay[i] \in 1 .. MaxPing
      BY <1>2, <1>3, ElementOfSeq
    <3> QED BY <3>1
  <2>2. \A i \in 1 .. n : i # 1 => UnderWay[1] < UnderWay[i]
    BY <1>3, <1>4 DEF BeatInv, BeatOrder
  <2> QED BY <1>2, <1>4, <2>1, <2>2
<1>8. Beat!Known(m)
  <2>1. CASE n = 1
    BY <1>2, <1>6, <2>1 DEF Beat!Known
  <2>2. CASE n # 1
    <3>1. 1 \in 1 .. Len(stale) /\ DOMAIN stale = 1 .. Len(stale)
      BY <1>1, <1>4, <1>6, <2>2, LenProperties
    <3>2. 1 \in DOMAIN stale /\ stale[1] = m
      BY <1>2, <1>6, <3>1
    <3> QED BY <3>2 DEF Beat!Known
  <2> QED BY <2>1, <2>2
<1>9. /\ up' = Tail(up) /\ down' = down /\ online' = online
      /\ IF m \in outstanding
         THEN outstanding' = outstanding \ {m} /\ stale' = <<>> /\ failures' = 0
         ELSE /\ stale' = Beat!Deleted(stale, m)
              /\ outstanding' = outstanding /\ failures' = failures
  BY <1>8 DEF Beat!ReadPong
<1>10. UnderWay' = Tail(UnderWay)
  BY <1>2, <1>9 DEF UnderWay
<1>11. /\ Len(UnderWay') = n - 1
       /\ \A i \in 1 .. n - 1 : UnderWay'[i] = UnderWay[i + 1]
  BY <1>2, <1>3, <1>10
<1>12. BeatOrder'
  <2>1. \A i \in 1 .. n - 1 : i + 1 \in 1 .. n
    BY <1>4
  <2>2. \A i \in 1 .. n - 1 : UnderWay'[i] <= sent'
    BY <1>1, <1>3, <1>11, <2>1 DEF BeatInv, BeatOrder
  <2>3. \A i, j \in 1 .. n - 1 : i < j => UnderWay'[i] < UnderWay'[j]
    BY <1>3, <1>11, <2>1 DEF BeatInv, BeatOrder
  <2> QED BY <1>11, <2>2, <2>3 DEF BeatOrder
<1>13. up' \in Seq(1 .. MaxPing) /\ down' \in Seq(1 .. MaxPing)
  BY <1>1, <1>9
<1>14. CASE m \in outstanding
  <2>1. n = 1
    BY <1>4, <1>6, <1>7, <1>14
  <2>2. UnderWay' = <<>> /\ outstanding' = {}
    <3>1. Tail(UnderWay) \in Seq(1 .. MaxPing) /\ Len(Tail(UnderWay)) = 0
      <4>1. Len(Tail(UnderWay)) = n - 1 /\ Tail(UnderWay) \in Seq(1 .. MaxPing)
        BY <1>2, <1>3, HeadTailProperties
      <4> QED BY <2>1, <4>1
    <3>2. UnderWay' = <<>>
      BY <1>10, <3>1, EmptySeq
    <3>3. outstanding' = {}
      BY <1>2, <1>6, <1>9, <1>14, <2>1
    <3> QED BY <3>2, <3>3
  <2>3. BeatBooks'
    BY <1>9, <1>14, <2>2 DEF BeatBooks
  <2>4. Beat!TypeOK'
    BY <1>1, <1>9, <1>13, <1>14, <2>2, BeatBounds DEF BeatInv, Beat!TypeOK
  <2> QED BY <1>12, <2>3, <2>4 DEF BeatInv
<1>15. CASE m \notin outstanding
  <2>1. n # 1
    BY <1>2, <1>6, <1>15
  <2>2. /\ 1 \in DOMAIN stale /\ stale[1] = m
        /\ \A i \in DOMAIN stale : stale[i] = m => i = 1
    <3>1. 1 \in 1 .. Len(stale) /\ DOMAIN stale = 1 .. Len(stale)
      BY <1>1, <1>4, <1>6, <2>1, LenProperties
    <3>2. \A i \in 1 .. Len(stale) : i \in 1 .. n
      BY <1>6
    <3> QED BY <1>2, <1>6, <1>7, <3>1, <3>2
  <2>3. PICK k : k = (CHOOSE i \in DOMAIN stale : stale[i] = m)
    OBVIOUS
  <2>4. k = 1
    BY <2>2, <2>3
  <2>5. stale' = SubSeq(stale, 1, 1 - 1) \o SubSeq(stale, 1 + 1, Len(stale))
    BY <1>9, <1>15, <2>3, <2>4 DEF Beat!Deleted
  <2>6. stale' = Tail(stale)
    BY <1>1, <1>6, <2>1, <2>5
  <2>7. /\ Len(stale') = n - 2
        /\ \A i \in 1 .. n - 2 : stale'[i] = stale[i + 1]
        /\ stale' \in Seq(1 .. MaxPing)
    BY <1>1, <1>4, <1>6, <2>1, <2>6
  <2>8. BeatBooks'
    <3>1. Len(stale') <= failures'
      BY <1>1, <1>6, <1>9, <1>15, <2>7
    <3>2. outstanding' # {} /\ online' = online
      BY <1>5, <1>9, <1>15
    <3>3. /\ Len(UnderWay') = Len(stale') + 1
          /\ UnderWay'[Len(stale') + 1] = UnderWay[n]
      BY <1>4, <1>11, <2>1, <2>7
    <3>4. \A i \in 1 .. n - 2 : stale'[i] = UnderWay'[i]
      BY <1>4, <1>6, <1>11, <2>1, <2>7
    <3>5. ~online' => outstanding' = {}
      BY <1>9, <1>15 DEF BeatInv, BeatBooks
    <3> QED BY <1>6, <1>9, <1>15, <2>7, <3>1, <3>2, <3>3, <3>4, <3>5 DEF BeatBooks
  <2>9. Beat!TypeOK'
    BY <1>1, <1>9, <1>13, <1>15, <2>7 DEF BeatInv, Beat!TypeOK
  <2> QED BY <1>12, <2>8, <2>9 DEF BeatInv
<1> QED BY <1>14, <1>15

LEMMA ResumeStep == ASSUME BeatInv, Beat!Resume PROVE BeatInv'
<1>1. UnderWay = <<>> /\ UnderWay' = UnderWay
  BY DEF BeatInv, BeatBooks, Beat!Resume, UnderWay
<1>2. Beat!TypeOK'
  BY BeatBounds DEF BeatInv, Beat!TypeOK, Beat!Resume
<1> QED BY <1>1, <1>2 DEF BeatInv, BeatOrder, BeatBooks, Beat!Resume

LEMMA BeatStep == ASSUME BeatInv, Beat!Next PROVE BeatInv'
<1>1. CASE Beat!Lose
  BY <1>1, BeatQuiet DEF BeatInv, Beat!Lose
<1> QED
  BY <1>1, TickStep, ReadPingStep, ReadPongStep, ResumeStep DEF Beat!Next

LEMMA BeatStutter == ASSUME BeatInv, UNCHANGED beatVars PROVE BeatInv'
BY DEF beatVars, BeatInv, BeatOrder, BeatBooks, UnderWay, Beat!TypeOK

LEMMA BeatPromise == ASSUME BeatInv PROVE Beat!LateAnswersKnown
<1>1. up \in Seq(1 .. MaxPing) /\ down \in Seq(1 .. MaxPing) /\ stale \in Seq(1 .. MaxPing)
  BY DEF BeatInv, Beat!TypeOK
<1>2. ASSUME NEW i \in 1 .. Len(UnderWay)
      PROVE  Beat!Known(UnderWay[i])
  <2>1. outstanding # {}
    BY <1>2 DEF BeatInv, BeatBooks
  <2>2. /\ Len(UnderWay) = Len(stale) + 1
        /\ outstanding = {UnderWay[Len(stale) + 1]}
        /\ \A j \in 1 .. Len(stale) : stale[j] = UnderWay[j]
    BY <2>1 DEF BeatInv, BeatBooks
  <2>3. CASE i = Len(stale) + 1
    BY <2>2, <2>3 DEF Beat!Known
  <2>4. CASE i # Len(stale) + 1
    <3>1. i \in DOMAIN stale /\ stale[i] = UnderWay[i]
      BY <1>1, <1>2, <2>2, <2>4
    <3> QED BY <3>1 DEF Beat!Known
  <2> QED BY <2>3, <2>4
<1>3. ASSUME NEW n \in 1 .. MaxPing, NEW i \in DOMAIN up, up[i] = n
      PROVE  Beat!Known(n)
  <2>1. i \in 1 .. Len(UnderWay) /\ UnderWay[i] = n
    BY <1>1, <1>3 DEF UnderWay
  <2> QED BY <1>2, <2>1
<1>4. ASSUME NEW n \in 1 .. MaxPing, NEW i \in DOMAIN down, down[i] = n
      PROVE  Beat!Known(n)
  <2>1. Len(up) + i \in 1 .. Len(UnderWay) /\ UnderWay[Len(up) + i] = n
    BY <1>1, <1>4 DEF UnderWay
  <2> QED BY <1>2, <2>1
<1> QED BY <1>3, <1>4 DEF Beat!LateAnswersKnown

-----------------------------------------------------------------------------
(* What the writer counts: the frames that wait, and the one at the stream *)
(* until it is released, each with its length.                             *)

Held == Queue!In({"waiting"}) \cup ({writing} \ {-1, 0})

\* The bytes of the frames S of the queue q.
Volume(S, q) == {c \in S \X (1 .. ByteLimit) : c[2] <= q[c[1]].length}

QueueBooks ==
  /\ \A i \in 1 .. Len(frames) : frames[i].length \in 1 .. ByteLimit
  /\ counted = Cardinality(Held)
  /\ bytes = Cardinality(Volume(Held, frames))

LEMMA VolumeSame ==
  ASSUME NEW S, NEW q, NEW r, \A n \in S : r[n].length = q[n].length
  PROVE  Volume(S, r) = Volume(S, q)
BY DEF Volume

LEMMA VolumeMore ==
  ASSUME NEW S, IsFiniteSet(S), NEW n, n \notin S, NEW q,
         q[n].length \in 1 .. ByteLimit
  PROVE  /\ Cardinality(Volume(S, q)) \in Nat
         /\ Cardinality(Volume(S \cup {n}, q)) = Cardinality(Volume(S, q)) + q[n].length
<1> DEFINE block == {n} \X (1 .. q[n].length)
<1>1. ByteLimit \in Nat /\ q[n].length \in Nat /\ q[n].length >= 1
  BY QueueBounds
<1>2. IsFiniteSet(1 .. ByteLimit) /\ IsFiniteSet(1 .. q[n].length)
      /\ Cardinality(1 .. q[n].length) = q[n].length
  <2>1. ASSUME NEW l \in Nat, l >= 1
        PROVE  IsFiniteSet(1 .. l) /\ Cardinality(1 .. l) = l
    <3>1. Cardinality(1 .. l) = IF 1 > l THEN 0 ELSE l - 1 + 1
      BY <2>1, FS_Interval
    <3>2. IsFiniteSet(1 .. l)
      BY <2>1, FS_Interval
    <3>3. (IF 1 > l THEN 0 ELSE l - 1 + 1) = l
      BY <2>1
    <3> QED BY <3>1, <3>2, <3>3
  <2>2. PICK l \in Nat : l = q[n].length /\ l >= 1
    BY <1>1
  <2>3. ByteLimit >= 1
    BY <1>1
  <2> QED BY <1>1, <2>1, <2>2, <2>3
<1>3. IsFiniteSet(S \X (1 .. ByteLimit))
  BY <1>2, FS_Product
<1>4. Volume(S, q) \subseteq S \X (1 .. ByteLimit)
  BY DEF Volume
<1>5. IsFiniteSet(Volume(S, q)) /\ Cardinality(Volume(S, q)) \in Nat
  BY <1>3, <1>4, FS_Subset, FS_CardinalityType
<1>6. IsFiniteSet({n}) /\ Cardinality({n}) = 1
  BY FS_Singleton
<1>7. IsFiniteSet(block) /\ Cardinality(block) = 1 * q[n].length
  <2>1. PICK A : A = {n}
    OBVIOUS
  <2>2. PICK B : B = 1 .. q[n].length
    OBVIOUS
  <2>3. IsFiniteSet(A) /\ IsFiniteSet(B) /\ Cardinality(A) = 1
        /\ Cardinality(B) = q[n].length
    BY <1>2, <1>6, <2>1, <2>2
  <2>4. IsFiniteSet(A \X B) /\ Cardinality(A \X B) = Cardinality(A) * Cardinality(B)
    BY <2>3, FS_Product
  <2> QED BY <2>1, <2>2, <2>3, <2>4
<1>8. Volume(S \cup {n}, q) = Volume(S, q) \cup block
  <2>1. ASSUME NEW c \in Volume(S \cup {n}, q)
        PROVE  c \in Volume(S, q) \cup block
    <3>1. PICK a \in S \cup {n}, b \in 1 .. ByteLimit :
                 c = <<a, b>> /\ b <= q[a].length
      BY <2>1 DEF Volume
    <3>2. CASE a \in S
      BY <3>1, <3>2 DEF Volume
    <3>3. CASE a = n
      <4>1. b \in 1 .. q[n].length
        BY <1>1, <3>1, <3>3
      <4> QED BY <3>1, <3>3, <4>1
    <3> QED BY <3>2, <3>3
  <2>2. Volume(S, q) \subseteq Volume(S \cup {n}, q)
    BY DEF Volume
  <2>3. ASSUME NEW c \in block
        PROVE  c \in Volume(S \cup {n}, q)
    <3>1. PICK b \in 1 .. q[n].length : c = <<n, b>>
      BY <2>3
    <3>2. b \in 1 .. ByteLimit /\ b <= q[n].length
      BY <1>1, <3>1
    <3> QED BY <3>1, <3>2 DEF Volume
  <2> QED BY <2>1, <2>2, <2>3
<1>9. Volume(S, q) \cap block = {}
  BY DEF Volume
<1>10. Cardinality({}) = 0
  BY FS_EmptySet
<1>11. Cardinality(Volume(S, q) \cup block) =
         Cardinality(Volume(S, q)) + Cardinality(block) - Cardinality(Volume(S, q) \cap block)
  <2> HIDE DEF block
  <2> QED BY <1>5, <1>7, FS_Union
<1>12. Cardinality(Volume(S \cup {n}, q)) =
         Cardinality(Volume(S, q)) + 1 * q[n].length - 0
  BY <1>7, <1>8, <1>9, <1>10, <1>11
<1> QED BY <1>1, <1>5, <1>12

LEMMA HeldFinite ==
  ASSUME QueueInv
  PROVE  /\ Held \subseteq 1 .. Len(frames) /\ IsFiniteSet(Held)
         /\ Cardinality(Held) \in Nat
<1>1. frames \in Seq(Frame) /\ Len(frames) \in Nat /\ writing \in -1 .. Len(frames)
  BY DEF QueueInv, QueueShape, Queue!TypeOK, Frame, Fates
<1>2. Held \subseteq 1 .. Len(frames)
  <2>1. DOMAIN frames = 1 .. Len(frames)
    BY <1>1
  <2> QED BY <1>1, <2>1 DEF Held, Queue!In
<1>3. IsFiniteSet(1 .. Len(frames))
  BY <1>1, FS_Interval
<1> QED BY <1>2, <1>3, FS_Subset, FS_CardinalityType

LEMMA QueueBooksStart == ASSUME Queue!Init PROVE QueueBooks
<1>1. Held = {}
  BY DEF Queue!Init, Held, Queue!In
<1>2. Volume({}, frames) = {}
  BY DEF Volume
<1> QED BY <1>1, <1>2, FS_EmptySet DEF Queue!Init, QueueBooks

\* A step that leaves what is held, its lengths and the counters.
LEMMA HeldSame ==
  ASSUME QueueInv, QueueBooks, Held' = Held, counted' = counted, bytes' = bytes,
         Len(frames') = Len(frames),
         \A i \in 1 .. Len(frames) : frames'[i].length = frames[i].length
  PROVE  QueueBooks'
<1>1. Held \subseteq 1 .. Len(frames)
  BY HeldFinite
<1>2. Volume(Held, frames') = Volume(Held, frames)
  BY <1>1, VolumeSame
<1>3. Volume(Held, frames)' = Volume(Held, frames)
  BY <1>2 DEF Volume
<1> QED BY <1>3 DEF QueueBooks

LEMMA QueueBooksStep ==
  ASSUME QueueInv, QueueBooks, Queue!Next PROVE QueueBooks'
<1>1. /\ frames \in Seq(Frame) /\ Len(frames) \in Nat
      /\ writing \in -1 .. Len(frames)
      /\ DOMAIN frames = 1 .. Len(frames)
  BY DEF QueueInv, QueueShape, Queue!TypeOK, Frame, Fates
<1>2. /\ Held \subseteq 1 .. Len(frames) /\ IsFiniteSet(Held)
      /\ Cardinality(Held) \in Nat
  BY HeldFinite
<1>3. \A i \in 1 .. Len(frames) : frames[i].length \in 1 .. ByteLimit
  BY DEF QueueBooks
<1>4. ASSUME NEW length \in Length, Queue!Send(length)
      PROVE  QueueBooks'
  <2>1. CASE frames' = frames /\ counted' = counted /\ bytes' = bytes
    <3>1. Held' = Held
      BY <1>4, <2>1 DEF Queue!Send, Held, Queue!In
    <3> QED BY <2>1, <3>1, HeldSame
  <2>2. CASE /\ bytes + length <= ByteLimit
             /\ frames' = Append(frames, [length |-> length, fate |-> "waiting"])
             /\ counted' = counted + 1
             /\ bytes' = bytes + length
    <3> DEFINE n == Len(frames) + 1
               f == [length |-> length, fate |-> "waiting"]
    <3>1. f \in Frame
      BY DEF Frame, Fates
    <3>2. /\ frames' \in Seq(Frame) /\ Len(frames') = n /\ frames'[n] = f
          /\ \A i \in 1 .. Len(frames) : frames'[i] = frames[i]
          /\ DOMAIN frames' = 1 .. n
      BY <1>1, <2>2, <3>1
    <3>3. \A i \in 1 .. n : i \in 1 .. Len(frames) \/ i = n
      BY <1>1
    <3>4. n \notin 1 .. Len(frames) /\ n \in 1 .. n
      BY <1>1
    <3>5. Held' = Held \cup {n} /\ n \notin Held
      <4>1. Queue!In({"waiting"})' = Queue!In({"waiting"}) \cup {n}
        <5>1. \A i \in 1 .. Len(frames) : i \in 1 .. n
          BY <1>1
        <5>2. frames'[n].fate = "waiting"
          BY <3>2
        <5> QED BY <1>1, <3>2, <3>3, <3>4, <5>1, <5>2 DEF Queue!In
      <4>2. writing' = writing
        BY <1>4 DEF Queue!Send
      <4> QED BY <1>2, <3>4, <4>1, <4>2 DEF Held
    <3>6. length \in 1 .. ByteLimit
      <4>1. length \in Nat \ {0} /\ bytes \in Nat /\ ByteLimit \in Nat
        BY <1>4, QueueBounds DEF QueueInv, QueueShape, Queue!TypeOK
      <4> QED BY <2>2, <4>1
    <3>7. frames'[n].length = length
      BY <3>2
    <3>8. \A i \in 1 .. Len(frames') : frames'[i].length \in 1 .. ByteLimit
      BY <1>3, <3>2, <3>3, <3>6, <3>7
    <3>9. Cardinality(Held') = Cardinality(Held) + 1
      BY <1>2, <3>5, FS_AddElement
    <3>10. Cardinality(Volume(Held \cup {n}, frames')) =
             Cardinality(Volume(Held, frames')) + length
      BY <1>2, <3>5, <3>6, <3>7, VolumeMore
    <3>11. Volume(Held, frames') = Volume(Held, frames)
      BY <1>2, <3>2, VolumeSame
    <3>12. Volume(Held, frames)' = Volume(Held \cup {n}, frames')
      BY <3>5 DEF Volume
    <3>13. counted' = Cardinality(Held')
      BY <2>2, <3>9 DEF QueueBooks
    <3>14. bytes' = Cardinality(Volume(Held, frames)')
      <4>1. bytes' = bytes + length /\ bytes = Cardinality(Volume(Held, frames))
        BY <2>2 DEF QueueBooks
      <4> QED BY <4>1, <3>10, <3>11, <3>12
    <3> HIDE DEF n, f
    <3> QED BY <3>8, <3>13, <3>14 DEF QueueBooks
  <2>3. CASE bytes + length <= ByteLimit
    <3>1. \/ frames' = frames /\ counted' = counted /\ bytes' = bytes
          \/ /\ frames' = Append(frames, [length |-> length, fate |-> "waiting"])
             /\ counted' = counted + 1
             /\ bytes' = bytes + length
      BY <1>4 DEF Queue!Send
    <3>2. CASE frames' = frames /\ counted' = counted /\ bytes' = bytes
      BY <2>1, <3>2
    <3>3. CASE /\ frames' = Append(frames, [length |-> length, fate |-> "waiting"])
               /\ counted' = counted + 1
               /\ bytes' = bytes + length
      BY <2>2, <2>3, <3>3
    <3> QED BY <3>1, <3>2, <3>3
  <2>4. CASE ~(bytes + length <= ByteLimit)
    <3>1. length \in Nat /\ bytes \in Nat /\ ByteLimit \in Nat
      BY <1>4, QueueBounds DEF QueueInv, QueueShape, Queue!TypeOK
    <3>2. bytes + length > ByteLimit
      BY <2>4, <3>1
    <3> QED BY <1>4, <2>1, <3>2 DEF Queue!Send
  <2> QED BY <2>3, <2>4
<1>5. ASSUME NEW n \in 1 .. Len(frames), NEW fate \in Fates,
             frames[n].fate # "waiting", fate # "waiting", n = writing,
             frames' = [frames EXCEPT ![n].fate = fate], writing' = writing,
             counted' = counted, bytes' = bytes
      PROVE  QueueBooks'
  <2>1. /\ frames' \in Seq(Frame) /\ Len(frames') = Len(frames)
        /\ frames'[n].fate = fate /\ frames'[n].length = frames[n].length
        /\ \A i \in 1 .. Len(frames) : i # n => frames'[i] = frames[i]
    BY <1>1, <1>5, FateChanges
  <2>2. DOMAIN frames' = 1 .. Len(frames)
    BY <2>1
  <2>3. Held' = Held
    BY <1>1, <1>5, <2>1, <2>2 DEF Held, Queue!In
  <2> QED BY <1>5, <2>1, <2>3, HeldSame
<1>6. ASSUME writing = 0, writing' = -1, frames' = frames, counted' = counted,
             bytes' = bytes
      PROVE  QueueBooks'
  <2>1. Held' = Held
    BY <1>6 DEF Held, Queue!In
  <2> QED BY <1>6, <2>1, HeldSame
<1>7. CASE Queue!Written
  <2>1. CASE writing = 0
    BY <1>6, <1>7, <2>1 DEF Queue!Written
  <2>2. CASE writing # 0
    <3>1. writing \in 1 .. Len(frames) /\ frames[writing].fate = "writing"
      BY <1>1, <1>7, <2>2 DEF Queue!Written
    <3> QED BY <1>5, <1>7, <2>2, <3>1 DEF Queue!Written, Fates
  <2> QED BY <2>1, <2>2
<1>8. CASE Queue!WriteFails
  <2>1. CASE writing = 0
    BY <1>6, <1>8, <2>1 DEF Queue!WriteFails
  <2>2. CASE writing # 0
    <3>1. writing \in 1 .. Len(frames) /\ frames[writing].fate = "writing"
      BY <1>1, <1>8, <2>2 DEF Queue!WriteFails
    <3> QED BY <1>5, <1>8, <2>2, <3>1 DEF Queue!WriteFails, Fates
  <2> QED BY <2>1, <2>2
<1>9. CASE Queue!Turn
  <2>1. PICK n \in 1 .. Len(frames) :
          /\ frames[n].fate = "waiting"
          /\ writing = -1
          /\ frames' = [frames EXCEPT ![n].fate = IF shut THEN "lost" ELSE "writing"]
          /\ writing' = n
          /\ counted' = counted /\ bytes' = bytes
    BY <1>1, <1>9 DEF Queue!Turn, Queue!In
  <2>2. PICK fate \in {"lost", "writing"} : fate = IF shut THEN "lost" ELSE "writing"
    OBVIOUS
  <2>3. /\ frames' \in Seq(Frame) /\ Len(frames') = Len(frames)
        /\ frames'[n].fate = fate /\ frames'[n].length = frames[n].length
        /\ \A i \in 1 .. Len(frames) : i # n => frames'[i] = frames[i]
    <3>1. fate \in Fates /\ frames' = [frames EXCEPT ![n].fate = fate]
      BY <2>1, <2>2 DEF Fates
    <3> QED BY <1>1, <3>1, FateChanges
  <2>4. DOMAIN frames' = 1 .. Len(frames)
    BY <2>3
  <2>5. Queue!In({"waiting"})' = Queue!In({"waiting"}) \ {n}
    BY <1>1, <2>2, <2>3, <2>4 DEF Queue!In
  <2>6. n \in Queue!In({"waiting"})
    BY <1>1, <2>1 DEF Queue!In
  <2>7. n \notin {-1, 0}
    BY <1>1
  <2>8. Held' = Held
    BY <2>1, <2>5, <2>6, <2>7 DEF Held
  <2> QED BY <2>1, <2>3, <2>8, HeldSame
<1>10. CASE Queue!Release
  <2>1. /\ writing \in 1 .. Len(frames) /\ writing' = -1 /\ frames' = frames
        /\ frames[writing].fate # "waiting"
        /\ counted' = IF counted > 1 THEN counted - 1 ELSE 0
        /\ bytes' = IF bytes > frames[writing].length
                    THEN bytes - frames[writing].length ELSE 0
    BY <1>1, <1>10 DEF Queue!Release
  <2>2. PICK S : S = Held \ {writing}
    OBVIOUS
  <2>3. Held' = S /\ Held = S \cup {writing} /\ writing \notin S
    <3>1. writing \notin Queue!In({"waiting"}) /\ writing \notin {-1, 0}
      BY <1>1, <2>1 DEF Queue!In
    <3>2. Queue!In({"waiting"})' = Queue!In({"waiting"})
      BY <2>1 DEF Queue!In
    <3> QED BY <2>1, <2>2, <3>1, <3>2 DEF Held
  <2>4. /\ IsFiniteSet(S) /\ Cardinality(S) \in Nat
        /\ Cardinality(Held) = Cardinality(S) + 1
    <3>1. IsFiniteSet(S)
      BY <1>2, <2>2, FS_RemoveElement
    <3>2. Cardinality(S) \in Nat
      BY <3>1, FS_CardinalityType
    <3>3. Cardinality(S \cup {writing}) = Cardinality(S) + 1
      BY <2>3, <3>1, FS_AddElement
    <3> QED BY <2>3, <3>1, <3>2, <3>3
  <2>5. PICK l \in 1 .. ByteLimit : l = frames[writing].length
    BY <1>3, <2>1
  <2>6. /\ Cardinality(Volume(S, frames)) \in Nat
        /\ Cardinality(Volume(Held, frames)) = Cardinality(Volume(S, frames)) + l
    BY <2>3, <2>4, <2>5, VolumeMore
  <2>7. counted' = Cardinality(S)
    BY <2>1, <2>4 DEF QueueBooks
  <2>8. bytes' = Cardinality(Volume(S, frames))
    <3>1. bytes = Cardinality(Volume(S, frames)) + l
      BY <2>6 DEF QueueBooks
    <3>2. l \in Nat
      BY <2>5, QueueBounds
    <3> QED BY <2>1, <2>5, <2>6, <3>1, <3>2
  <2>9. Volume(Held, frames)' = Volume(S, frames)
    BY <2>1, <2>3 DEF Volume
  <2> QED BY <1>3, <2>1, <2>3, <2>7, <2>8, <2>9 DEF QueueBooks
<1>11. CASE Queue!CloseWrite \/ Queue!EndCloseWrite \/ Queue!CloseWriter
  <2>1. frames' = frames /\ writing' = writing /\ counted' = counted /\ bytes' = bytes
    BY <1>11 DEF Queue!CloseWrite, Queue!EndCloseWrite, Queue!CloseWriter
  <2>2. Held' = Held
    BY <2>1 DEF Held, Queue!In
  <2> QED BY <2>1, <2>2, HeldSame
<1> QED
  BY <1>4, <1>7, <1>8, <1>9, <1>10, <1>11 DEF Queue!Next

LEMMA QueueBooksStutter ==
  ASSUME QueueBooks, UNCHANGED queueVars PROVE QueueBooks'
BY DEF queueVars, QueueBooks, Held, Volume, Queue!In

LEMMA QueueBooksPromise ==
  ASSUME QueueBooks PROVE Queue!CountersHonest
<1>1. \A S : Queue!Cardinality(S) = Cardinality(S)
  BY DEF Queue!Cardinality, Cardinality
<1> QED BY <1>1 DEF QueueBooks, Held, Volume, Queue!CountersHonest, Queue!Bytes

-----------------------------------------------------------------------------
(* The scheduler's books.  A task is in the hands of the scheduler while it *)
(* runs or waits in the lane of its room and recipient, and nowhere else.  *)

Receivers == {Recipients[i] : i \in DOMAIN Recipients}
Lanes == (1 .. MaxRoom) \X Receivers
LaneRecord(B) == [exists : BOOLEAN, task : (B \X Receivers) \cup {<<>>},
                  queue : Seq(B \X Receivers)]
SchedRecord(B) == [lanes : [Lanes -> LaneRecord(B)], ready : Seq(Lanes),
                   active : 0 .. Maximum, pending : 0 .. MaximumPending]

Queues(lane, t) == \E i \in 1 .. Len(lane.queue) : lane.queue[i] = t
Has(lane, t) == lane.task = t \/ Queues(lane, t)

\* The tasks in hand, and the lanes that run one.
InHand(B, s) == {t \in B \X Receivers : \E k \in Lanes : Has(s.lanes[k], t)}
BusyLanes(s) == {k \in Lanes : s.lanes[k].task # <<>>}

LaneFits(B, k, lane, ent) ==
  /\ lane \in LaneRecord(B)
  /\ ~lane.exists => lane.task = <<>> /\ lane.queue = <<>>
  /\ lane.exists /\ lane.task = <<>> => lane.queue # <<>>
  /\ \A t \in B \X Receivers : Has(lane, t) => k = <<ent[t[1]].room, t[2]>>
  /\ \A i \in 1 .. Len(lane.queue) : lane.queue[i] # lane.task
  /\ \A i, j \in 1 .. Len(lane.queue) : lane.queue[i] = lane.queue[j] => i = j

\* A lane that waits for a slot is among the ready ones.
ReadyFits(s) ==
  \A k \in Lanes : s.lanes[k].exists /\ s.lanes[k].task = <<>> =>
    \E i \in 1 .. Len(s.ready) : s.ready[i] = k

Booked(B, s, ent) ==
  /\ s \in SchedRecord(B)
  /\ \A k \in Lanes : LaneFits(B, k, s.lanes[k], ent)
  /\ ReadyFits(s)
  /\ s.active = Cardinality(BusyLanes(s))
  /\ s.pending = Cardinality(InHand(B, s))

\* Nothing is ready while a slot is free.
FullIfReady(s) == s.ready # <<>> => s.active = Maximum

LEMMA Inductive ==
  ASSUME NEW S, S \subseteq Nat, 0 \in S, \A n \in S : n + 1 \in S
  PROVE  S = Nat
<1> DEFINE T == Nat \ S
           R == {p \in Nat \X Nat : p[1] < p[2]}
<1>1. SUFFICES ASSUME T # {}
               PROVE  FALSE
  OBVIOUS
<1>2. IsWellFoundedOn(R, Nat)
  BY NatLessThanWellFounded DEF OpToRel
<1>3. PICK x \in T : \A z \in T : <<z, x>> \notin R
  <2> HIDE DEF R
  <2>1. T \subseteq Nat /\ T # {}
    BY <1>1
  <2> QED BY <1>2, <2>1, WFMin
<1>4. x - 1 \in S
  <2>1. x \in Nat /\ x # 0
    BY <1>3
  <2>2. x - 1 \in Nat
    BY <2>1
  <2>3. <<x - 1, x>> \in R
    BY <2>1, <2>2
  <2> QED BY <1>3, <2>2, <2>3
<1>5. x - 1 + 1 = x
  BY <1>3
<1> QED BY <1>3, <1>4, <1>5

LEMMA Least ==
  ASSUME NEW S, S \subseteq Nat, S # {}
  PROVE  \E x \in S : \A z \in S : x <= z
<1> DEFINE R == {p \in Nat \X Nat : p[1] < p[2]}
<1>1. IsWellFoundedOn(R, Nat)
  BY NatLessThanWellFounded DEF OpToRel
<1>2. PICK x \in S : \A z \in S : <<z, x>> \notin R
  <2> HIDE DEF R
  <2> QED BY <1>1, WFMin
<1>3. \A z \in S : ~(z < x)
  BY <1>2
<1>4. \A z \in S : x <= z
  BY <1>3
<1> QED BY <1>4

LEMMA IntervalCount ==
  ASSUME NEW l \in Nat
  PROVE  IsFiniteSet(1 .. l) /\ Cardinality(1 .. l) = l
<1>1. IsFiniteSet(1 .. l) /\ Cardinality(1 .. l) = IF 1 > l THEN 0 ELSE l - 1 + 1
  BY FS_Interval
<1>2. (IF 1 > l THEN 0 ELSE l - 1 + 1) = l
  OBVIOUS
<1> QED BY <1>1, <1>2

LEMMA RecipientFacts ==
  /\ Len(Recipients) \in Nat
  /\ DOMAIN Recipients = 1 .. Len(Recipients)
  /\ IsFiniteSet(Receivers) /\ IsFiniteSet(Lanes)
<1>1. Recipients \in Seq(Receivers)
  BY BatchBounds DEF Receivers
<1>2. Len(Recipients) \in Nat /\ DOMAIN Recipients = 1 .. Len(Recipients)
  BY <1>1
<1>3. IsFiniteSet(1 .. Len(Recipients))
  BY <1>2, FS_Interval
<1>4. Recipients \in Surjection(1 .. Len(Recipients), Receivers)
  BY <1>1, <1>2 DEF Surjection, Receivers
<1>5. IsFiniteSet(Receivers)
  BY <1>3, <1>4, FS_Surjection
<1>6. IsFiniteSet(1 .. MaxRoom)
  BY BatchBounds, FS_Interval
<1>7. IsFiniteSet(Lanes)
  <2>1. PICK R : R = 1 .. MaxRoom
    OBVIOUS
  <2> QED BY <1>5, <1>6, <2>1, FS_Product DEF Lanes
<1> QED BY <1>2, <1>5, <1>7

LEMMA TaskIsNone == ASSUME NEW B, NEW t \in B \X Receivers PROVE t # <<>>
OBVIOUS

LEMMA HandFinite ==
  ASSUME NEW B, IsFiniteSet(B), NEW s
  PROVE  /\ IsFiniteSet(BusyLanes(s)) /\ Cardinality(BusyLanes(s)) \in Nat
         /\ IsFiniteSet(InHand(B, s)) /\ Cardinality(InHand(B, s)) \in Nat
<1>1. IsFiniteSet(B \X Receivers)
  BY RecipientFacts, FS_Product
<1>2. BusyLanes(s) \subseteq Lanes /\ InHand(B, s) \subseteq B \X Receivers
  BY DEF BusyLanes, InHand
<1> QED BY <1>1, <1>2, RecipientFacts, FS_Subset, FS_CardinalityType

\* Counting those before a place, up to a limit, takes a prefix.
UpTo(S, i) == {j \in 1 .. i : j \in S}
Below(S, a, M, N) == {i \in 1 .. N : a + Cardinality(UpTo(S, i - 1)) < M}

LEMMA PrefixCount ==
  ASSUME NEW a \in Nat, NEW M \in Nat, a <= M, NEW S, NEW N \in Nat
  PROVE  \E m \in 0 .. N :
           /\ Below(S, a, M, N) = 1 .. m
           /\ a + Cardinality(UpTo(S, m)) <= M
           /\ m < N => a + Cardinality(UpTo(S, m)) = M
<1> DEFINE P(i) == {j \in 1 .. i : j \in S}
           C(i) == Cardinality(P(i))
           Good(m, l) == /\ m \in 0 .. l
                         /\ \A i \in 1 .. l : a + C(i - 1) < M <=> i <= m
                         /\ a + C(m) <= M
                         /\ m < l => a + C(m) = M
<1>1. \A i \in Nat : IsFiniteSet(P(i)) /\ C(i) \in Nat
  <2>1. \A i \in Nat : IsFiniteSet(1 .. i) /\ P(i) \subseteq 1 .. i
    BY FS_Interval
  <2> HIDE DEF P
  <2> QED BY <2>1, FS_Subset, FS_CardinalityType
<1>2. C(0) = 0
  <2>1. P(0) = {}
    OBVIOUS
  <2> HIDE DEF P
  <2> QED BY <2>1, FS_EmptySet
<1>3. \A i, l \in Nat : i <= l => C(i) <= C(l)
  <2>1. \A i, l \in Nat : i <= l => P(i) \subseteq P(l)
    OBVIOUS
  <2> HIDE DEF P
  <2> QED BY <1>1, <2>1, FS_Subset
<1>4. \A i \in Nat : C(i + 1) <= C(i) + 1
  <2>1. ASSUME NEW i \in Nat
        PROVE  P(i + 1) = P(i) \/ P(i + 1) = P(i) \cup {i + 1}
    <3>1. \A j : j \in 1 .. i + 1 <=> j \in 1 .. i \/ j = i + 1
      OBVIOUS
    <3> QED BY <3>1
  <2> HIDE DEF P
  <2>2. ASSUME NEW i \in Nat
        PROVE  C(i + 1) <= C(i) + 1
    <3>1. Cardinality(P(i) \cup {i + 1}) = IF i + 1 \in P(i) THEN C(i) ELSE C(i) + 1
      BY <1>1, FS_AddElement
    <3>2. CASE P(i + 1) = P(i)
      BY <1>1, <3>2
    <3>3. CASE P(i + 1) = P(i) \cup {i + 1}
      BY <1>1, <3>1, <3>3
    <3> QED BY <2>1, <3>2, <3>3
  <2> QED BY <2>2
<1> HIDE DEF C
<1> DEFINE T == {l \in Nat : \E m \in 0 .. l : Good(m, l)}
<1>5. 0 \in T
  <2>1. Good(0, 0)
    BY <1>2
  <2> QED BY <2>1
<1>6. ASSUME NEW l \in T
      PROVE  l + 1 \in T
  <2>1. PICK m \in 0 .. l : Good(m, l)
    OBVIOUS
  <2>2. l \in Nat /\ m \in Nat /\ C(m) \in Nat /\ C(l) \in Nat /\ C(l + 1) \in Nat
    <3>1. l \in Nat
      OBVIOUS
    <3>2. m \in Nat /\ l + 1 \in Nat
      BY <3>1
    <3> HIDE DEF T
    <3> QED BY <1>1, <3>1, <3>2
  <2>3. \A i \in 1 .. l + 1 : i \in 1 .. l \/ i = l + 1
    BY <2>2
  <2>4. l + 1 - 1 = l
    BY <2>2
  <2>5. CASE m = l /\ a + C(l) < M
    <3>1. \A i \in 1 .. l + 1 : a + C(i - 1) < M
      <4>1. \A i \in 1 .. l : a + C(i - 1) < M
        BY <2>1, <2>2, <2>5
      <4> QED BY <2>3, <2>4, <2>5, <4>1
    <3>2. a + C(l + 1) <= M
      BY <1>4, <2>2, <2>5
    <3>3. Good(l + 1, l + 1)
      BY <2>2, <3>1, <3>2
    <3> QED BY <2>2, <3>3
  <2>6. CASE ~(m = l /\ a + C(l) < M)
    <3>1. a + C(m) = M
      BY <2>1, <2>2, <2>6
    <3>2. C(m) <= C(l)
      BY <1>3, <2>2
    <3>3. ~(a + C(l) < M)
      BY <2>2, <3>1, <3>2
    <3>4. \A i \in 1 .. l + 1 : a + C(i - 1) < M <=> i <= m
      <4>1. \A i \in 1 .. l : a + C(i - 1) < M <=> i <= m
        BY <2>1
      <4>2. ~(l + 1 <= m)
        BY <2>2
      <4> QED BY <2>3, <2>4, <3>3, <4>1, <4>2
    <3>5. Good(m, l + 1)
      BY <2>1, <2>2, <3>1, <3>4
    <3> QED BY <2>2, <3>5
  <2> QED BY <2>5, <2>6
<1>7. N \in T
  <2>1. T \subseteq Nat
    OBVIOUS
  <2> HIDE DEF T
  <2> QED BY <1>5, <1>6, <2>1, Inductive
<1>8. PICK m \in 0 .. N : Good(m, N)
  BY <1>7
<1>9. {i \in 1 .. N : a + C(i - 1) < M} = 1 .. m
  BY <1>8
<1>10. \A i : C(i) = Cardinality(UpTo(S, i))
  BY DEF C, UpTo
<1>11. Below(S, a, M, N) = 1 .. m
  BY <1>9, <1>10 DEF Below
<1> QED BY <1>8, <1>10, <1>11

\* pump, in other words: from the first m of the ready lanes it takes those
\* that can start, K.
CanStart(lane) == lane.exists /\ lane.task = <<>> /\ lane.queue # <<>>
StartsAt(s, i) == /\ CanStart(s.lanes[s.ready[i]])
                  /\ \A j \in 1 .. i - 1 : s.ready[j] # s.ready[i]
Started(lane) == [lane EXCEPT !.task = Head(lane.queue), !.queue = Tail(lane.queue)]
PumpedBy(s, m, K) ==
  [s EXCEPT !.ready = SubSeq(s.ready, m + 1, Len(s.ready)),
            !.active = s.active + Cardinality(K),
            !.lanes = [k \in Lanes |-> IF k \in K THEN Started(s.lanes[k]) ELSE s.lanes[k]]]

LEMMA PumpShape ==
  ASSUME NEW CONSTANT B, NEW CONSTANT n, NEW s \in SchedRecord(B), NEW a \in 0 .. Maximum,
         a = s.active
  PROVE  \E m \in 0 .. Len(s.ready) :
           LET K == {s.ready[j] : j \in {i \in 1 .. m : StartsAt(s, i)}} IN
           /\ Sending(B, n)!Pumped(s) = PumpedBy(s, m, K)
           /\ a + Cardinality(K) <= Maximum
           /\ m < Len(s.ready) => a + Cardinality(K) = Maximum
<1> DEFINE S == {i \in Nat : StartsAt(s, i)}
           N == Len(s.ready)
           F(i) == UpTo(S, i)
           shifted == Below(S, a, Maximum, N)
<1>1. N \in Nat /\ DOMAIN s.ready = 1 .. N
  BY DEF SchedRecord
<1>2. a \in Nat /\ Maximum \in Nat /\ a <= Maximum
  BY BatchBounds
<1>3. PICK m \in 0 .. N :
        /\ shifted = 1 .. m
        /\ a + Cardinality(F(m)) <= Maximum
        /\ m < N => a + Cardinality(F(m)) = Maximum
  <2> HIDE DEF S, N
  <2> QED BY <1>1, <1>2, PrefixCount
<1> DEFINE K == {s.ready[j] : j \in {i \in 1 .. m : StartsAt(s, i)}}
<1>4. m \in Nat /\ \A j \in 1 .. m : j \in Nat /\ j \in 1 .. N
  BY <1>1
<1>5. {i \in 1 .. m : StartsAt(s, i)} = F(m)
  BY <1>4 DEF UpTo
<1>6. Cardinality(K) = Cardinality(F(m))
  <2> DEFINE f == [j \in F(m) |-> s.ready[j]]
  <2>1. \A i, j \in F(m) : s.ready[i] = s.ready[j] => i = j
    <3>1. ASSUME NEW i \in F(m), NEW j \in F(m), s.ready[i] = s.ready[j], i < j
          PROVE  FALSE
      <4>1. StartsAt(s, j) /\ i \in Nat /\ j \in Nat /\ i >= 1
        BY <1>4 DEF UpTo
      <4>2. i \in 1 .. j - 1
        BY <3>1, <4>1
      <4> QED BY <3>1, <4>1, <4>2 DEF StartsAt
    <3>2. \A i \in F(m) : i \in Nat
      BY <1>4 DEF UpTo
    <3> HIDE DEF F
    <3>3. ASSUME NEW i \in F(m), NEW j \in F(m), s.ready[i] = s.ready[j]
          PROVE  i = j
      <4>1. ~(i < j) /\ ~(j < i)
        BY <3>1, <3>3
      <4>2. i \in Nat /\ j \in Nat
        BY <3>2
      <4> QED BY <4>1, <4>2
    <3> QED BY <3>3
  <2>2. K = {s.ready[j] : j \in F(m)}
    BY <1>5
  <2>3. IsFiniteSet(F(m))
    <3>1. F(m) \subseteq 1 .. m /\ IsFiniteSet(1 .. m)
      BY <1>4, FS_Interval DEF UpTo
    <3> HIDE DEF F
    <3> QED BY <3>1, FS_Subset
  <2> HIDE DEF F, K
  <2>4. f \in Surjection(F(m), K) /\ f \in Injection(F(m), K)
    <3>1. f \in [F(m) -> K]
      BY <2>2
    <3>2. \A k \in K : \E j \in F(m) : f[j] = k
      BY <2>2
    <3>3. \A i, j \in F(m) : f[i] = f[j] => i = j
      BY <2>1
    <3> HIDE DEF f
    <3> QED BY <3>1, <3>2, <3>3 DEF Surjection, Injection, IsInjective
  <2> HIDE DEF f
  <2> QED BY <2>3, <2>4, FS_Surjection
<1>7. Sending(B, n)!Pumped(s) = PumpedBy(s, m, K)
  <2>1. \A T : Sending(B, n)!Cardinality(T) = Cardinality(T)
    BY DEF Sending!Cardinality, Cardinality
  <2> DEFINE granted == Sending(B, n)!Shifted(s)
             started == {s.ready[i] : i \in {j \in granted : Sending(B, n)!Starts(s, j)}}
  <2>2. Sending(B, n)!Pumped(s) =
          [s EXCEPT !.ready = SubSeq(@, Sending(B, n)!Cardinality(granted) + 1, Len(@)),
               !.active = @ + Sending(B, n)!Cardinality(started),
               !.lanes = [k \in Sending(B, n)!Key |->
                 IF k \in started
                 THEN [s.lanes[k] EXCEPT !.task = Head(s.lanes[k].queue), !.queue = Tail(@)]
                 ELSE s.lanes[k]]]
    BY DEF Sending!Pumped
  <2>3. \A i : Sending(B, n)!Starts(s, i) <=> StartsAt(s, i)
    BY DEF Sending!Starts, Sending!NoTask, StartsAt, CanStart
  <2>4. \A i \in 1 .. N : {j \in 1 .. i - 1 : Sending(B, n)!Starts(s, j)} = UpTo(S, i - 1)
    <3>1. \A i \in 1 .. N : \A j \in 1 .. i - 1 : j \in Nat
      BY <1>1
    <3> QED BY <2>3, <3>1 DEF UpTo
  <2>5. granted = shifted
    <3>1. granted = {i \in DOMAIN s.ready :
            s.active + Cardinality({j \in 1 .. i - 1 : Sending(B, n)!Starts(s, j)}) < Maximum}
      BY <2>1 DEF Sending!Shifted
    <3> HIDE DEF granted, S
    <3> QED BY <1>1, <2>4, <3>1 DEF Below
  <2>6. Cardinality(granted) = m
    <3> HIDE DEF granted, shifted
    <3> QED BY <1>3, <1>4, <2>5, IntervalCount
  <2>7. started = K
    <3> HIDE DEF granted, shifted
    <3> QED BY <1>3, <2>3, <2>5
  <2>8. Sending(B, n)!Key = Lanes
    BY DEF Sending!Key, Sending!Member, Lanes, Receivers
  <2> HIDE DEF started, K, granted
  <2>9. [k \in Sending(B, n)!Key |->
                 IF k \in started
                 THEN [s.lanes[k] EXCEPT !.task = Head(s.lanes[k].queue), !.queue = Tail(@)]
                 ELSE s.lanes[k]] =
        [k \in Lanes |-> IF k \in K THEN Started(s.lanes[k]) ELSE s.lanes[k]]
    BY <2>7, <2>8 DEF Started
  <2>10. Sending(B, n)!Cardinality(granted) = m /\ Sending(B, n)!Cardinality(started) = Cardinality(K)
    BY <2>1, <2>6, <2>7
  <2> QED BY <2>2, <2>9, <2>10 DEF PumpedBy
<1> HIDE DEF K, F
<1>8. /\ Sending(B, n)!Pumped(s) = PumpedBy(s, m, K)
      /\ a + Cardinality(K) <= Maximum
      /\ m < N => a + Cardinality(K) = Maximum
  BY <1>3, <1>6, <1>7
<1> QED BY <1>8 DEF K

\* A lane starts its oldest task, the next one or the first.
LEMMA LaneStarts ==
  ASSUME NEW B, NEW k, NEW lane, NEW ent, LaneFits(B, k, lane, ent), lane.queue # <<>>
  PROVE  /\ LaneFits(B, k, Started(lane), ent)
         /\ Started(lane).exists /\ Started(lane).task # <<>>
         /\ \A t \in B \X Receivers :
              Has(Started(lane), t) <=> Queues(lane, t)
<1> DEFINE T == B \X Receivers
<1>1. PICK q \in Seq(T) : q = lane.queue /\ q # <<>>
  BY DEF LaneFits, LaneRecord
<1>2. PICK r, h : h = Head(q) /\ r = Tail(q)
  OBVIOUS
<1>3. /\ h \in T /\ r \in Seq(T) /\ h = q[1]
      /\ Len(q) \in Nat /\ Len(r) = Len(q) - 1
      /\ \A i \in 1 .. Len(r) : r[i] = q[i + 1]
  <2> HIDE DEF T
  <2> QED BY <1>1, <1>2, HeadTailProperties, LenProperties
<1>4. h # <<>>
  BY <1>3, TaskIsNone
<1>5. PICK l : l = Started(lane)
  OBVIOUS
<1>6. /\ l \in LaneRecord(B) /\ l.exists = lane.exists /\ l.task = h /\ l.queue = r
  <2>1. l = [lane EXCEPT !.task = h, !.queue = r]
    BY <1>1, <1>2, <1>5 DEF Started
  <2>2. lane \in LaneRecord(B)
    BY DEF LaneFits
  <2> HIDE DEF T
  <2> QED BY <1>3, <2>1, <2>2 DEF LaneRecord, T
<1>7. lane.exists
  BY <1>1 DEF LaneFits
<1>8. \A i \in 1 .. Len(r) : i + 1 \in 1 .. Len(q) /\ i + 1 # 1
  BY <1>3
<1>9. 1 \in 1 .. Len(q)
  <2> HIDE DEF T
  <2>1. Len(q) # 0
    BY <1>1, EmptySeq
  <2> QED BY <1>3, <2>1
<1>10. \A t : Has(l, t) <=> Queues(lane, t)
  <2>1. ASSUME NEW i \in 1 .. Len(q)
        PROVE  q[i] = h \/ \E j \in 1 .. Len(r) : r[j] = q[i]
    <3>1. CASE i = 1
      BY <1>3, <3>1
    <3>2. CASE i # 1
      <4>1. i - 1 \in 1 .. Len(r) /\ i - 1 + 1 = i
        BY <1>3, <3>2
      <4>2. r[i - 1] = q[i]
        BY <1>3, <4>1
      <4> QED BY <4>1, <4>2
    <3> QED BY <3>1, <3>2
  <2>2. ASSUME NEW t, Has(l, t)
        PROVE  \E i \in 1 .. Len(q) : q[i] = t
    <3>1. CASE t = h
      BY <1>3, <1>9, <3>1
    <3>2. CASE t # h
      <4>1. PICK i \in 1 .. Len(r) : r[i] = t
        BY <1>6, <2>2, <3>2 DEF Has, Queues
      <4>2. q[i + 1] = t
        BY <1>3, <4>1
      <4> QED BY <1>8, <4>2
    <3> QED BY <3>1, <3>2
  <2>3. ASSUME NEW t, NEW i \in 1 .. Len(q), q[i] = t
        PROVE  Has(l, t)
    BY <1>6, <2>1, <2>3 DEF Has, Queues
  <2>4. \A t : Queues(lane, t) <=> \E i \in 1 .. Len(q) : q[i] = t
    BY <1>1 DEF Queues
  <2> QED BY <2>2, <2>3, <2>4
<1>11. \A i, j \in 1 .. Len(q) : q[i] = q[j] => i = j
  BY <1>1 DEF LaneFits
<1>12. \A i \in 1 .. Len(r) : r[i] # h
  BY <1>3, <1>8, <1>9, <1>11
<1>13. \A i, j \in 1 .. Len(r) : r[i] = r[j] => i = j
  <2>1. ASSUME NEW i \in 1 .. Len(r), NEW j \in 1 .. Len(r), r[i] = r[j]
        PROVE  i = j
    <3>1. q[i + 1] = q[j + 1]
      BY <1>3, <2>1
    <3>2. i + 1 = j + 1
      BY <1>8, <1>11, <3>1
    <3> QED BY <3>2
  <2> QED BY <2>1
<1>14. \A t \in T : Has(l, t) => k = <<ent[t[1]].room, t[2]>>
  <2>1. \A t \in T : Has(l, t) => Has(lane, t)
    BY <1>1, <1>10 DEF Has, Queues
  <2> QED BY <2>1 DEF LaneFits
<1>15. LaneFits(B, k, l, ent)
  BY <1>4, <1>6, <1>7, <1>12, <1>13, <1>14 DEF LaneFits
<1> QED BY <1>1, <1>4, <1>5, <1>6, <1>7, <1>10, <1>15

\* What runs goes on.
GoesOnIn(s, p) ==
  \A k \in Lanes : s.lanes[k].task # <<>> => p.lanes[k].task = s.lanes[k].task

LEMMA PumpBooked ==
  ASSUME NEW CONSTANT B, NEW CONSTANT n, IsFiniteSet(B), NEW s, NEW ent,
         Booked(B, s, ent)
  PROVE  /\ Booked(B, Sending(B, n)!Pumped(s), ent)
         /\ FullIfReady(Sending(B, n)!Pumped(s))
         /\ InHand(B, Sending(B, n)!Pumped(s)) = InHand(B, s)
         /\ GoesOnIn(s, Sending(B, n)!Pumped(s))
<1>1. PICK a \in 0 .. Maximum : a = s.active
  BY DEF Booked, SchedRecord
<1>2. /\ s \in SchedRecord(B) /\ Len(s.ready) \in Nat /\ s.ready \in Seq(Lanes)
      /\ DOMAIN s.ready = 1 .. Len(s.ready)
  BY DEF Booked, SchedRecord
<1>3. PICK m \in 0 .. Len(s.ready) :
        LET K == {s.ready[j] : j \in {i \in 1 .. m : StartsAt(s, i)}} IN
        /\ Sending(B, n)!Pumped(s) = PumpedBy(s, m, K)
        /\ a + Cardinality(K) <= Maximum
        /\ m < Len(s.ready) => a + Cardinality(K) = Maximum
  BY <1>1, <1>2, PumpShape
<1>4. PICK K : K = {s.ready[j] : j \in {i \in 1 .. m : StartsAt(s, i)}}
  OBVIOUS
<1>5. PICK p : p = Sending(B, n)!Pumped(s)
  OBVIOUS
<1>6. /\ p = PumpedBy(s, m, K)
      /\ a + Cardinality(K) <= Maximum
      /\ m < Len(s.ready) => a + Cardinality(K) = Maximum
  BY <1>3, <1>4, <1>5
<1>7. /\ K \subseteq Lanes
      /\ \A k \in K : CanStart(s.lanes[k])
  BY <1>2, <1>4 DEF StartsAt
<1>8. \A k \in Lanes : LaneFits(B, k, s.lanes[k], ent)
  BY DEF Booked
<1>9. PICK rest : rest = SubSeq(s.ready, m + 1, Len(s.ready))
  OBVIOUS
<1>10. /\ rest \in Seq(Lanes)
       /\ \A i \in 1 .. Len(s.ready) : i > m =>
            i - m \in 1 .. Len(rest) /\ rest[i - m] = s.ready[i]
       /\ rest # <<>> => m < Len(s.ready)
  <2>1. m \in Nat /\ m <= Len(s.ready)
    BY <1>2
  <2>2. /\ rest \in Seq(Lanes)
        /\ Len(rest) = IF m + 1 <= Len(s.ready) THEN Len(s.ready) - (m + 1) + 1 ELSE 0
        /\ \A i \in 1 .. Len(s.ready) - (m + 1) + 1 : rest[i] = s.ready[m + 1 + i - 1]
    BY <1>2, <1>9, <2>1, SubSeqProperties
  <2>3. rest # <<>> => m < Len(s.ready)
    <3>1. ~(m < Len(s.ready)) => Len(rest) = 0
      BY <1>2, <2>1, <2>2
    <3> QED BY <2>2, <3>1, EmptySeq
  <2>4. ASSUME NEW i \in 1 .. Len(s.ready), i > m
        PROVE  i - m \in 1 .. Len(rest) /\ rest[i - m] = s.ready[i]
    <3>1. i - m \in 1 .. Len(s.ready) - (m + 1) + 1 /\ m + 1 + (i - m) - 1 = i
          /\ i - m \in 1 .. Len(rest)
      BY <1>2, <2>1, <2>2, <2>4
    <3> QED BY <2>2, <3>1
  <2> QED BY <2>2, <2>3, <2>4
<1>11. /\ p.ready = rest /\ p.active = a + Cardinality(K) /\ p.pending = s.pending
       /\ p.lanes = [k \in Lanes |-> IF k \in K THEN Started(s.lanes[k]) ELSE s.lanes[k]]
       /\ p = [s EXCEPT !.ready = rest, !.active = p.active, !.lanes = p.lanes]
  BY <1>1, <1>2, <1>6, <1>9 DEF PumpedBy, SchedRecord
<1>12. \A k \in Lanes : /\ k \in K => p.lanes[k] = Started(s.lanes[k])
                        /\ k \notin K => p.lanes[k] = s.lanes[k]
  BY <1>11
<1>13. \A k \in K : /\ LaneFits(B, k, p.lanes[k], ent)
                    /\ p.lanes[k].exists /\ p.lanes[k].task # <<>>
                    /\ \A t \in B \X Receivers : Has(p.lanes[k], t) <=> Has(s.lanes[k], t)
  <2>1. ASSUME NEW k \in K
        PROVE  /\ LaneFits(B, k, p.lanes[k], ent)
               /\ p.lanes[k].exists /\ p.lanes[k].task # <<>>
               /\ \A t \in B \X Receivers : Has(p.lanes[k], t) <=> Has(s.lanes[k], t)
    <3>1. k \in Lanes /\ p.lanes[k] = Started(s.lanes[k]) /\ LaneFits(B, k, s.lanes[k], ent)
          /\ s.lanes[k].queue # <<>> /\ s.lanes[k].task = <<>>
      BY <1>7, <1>8, <1>12 DEF CanStart
    <3>2. /\ LaneFits(B, k, p.lanes[k], ent)
          /\ p.lanes[k].exists /\ p.lanes[k].task # <<>>
          /\ \A t \in B \X Receivers :
              Has(p.lanes[k], t) <=> Queues(s.lanes[k], t)
      <4>1. PICK lane, l : lane = s.lanes[k] /\ l = p.lanes[k] /\ l = Started(lane)
        BY <3>1
      <4>2. LaneFits(B, k, lane, ent) /\ lane.queue # <<>>
        BY <3>1, <4>1
      <4>3. /\ LaneFits(B, k, Started(lane), ent)
            /\ Started(lane).exists /\ Started(lane).task # <<>>
            /\ \A t \in B \X Receivers :
                 Has(Started(lane), t) <=> Queues(lane, t)
        BY <4>2, LaneStarts
      <4> QED BY <4>1, <4>3
    <3>3. \A t \in B \X Receivers : s.lanes[k].task # t
      BY <3>1, TaskIsNone
    <3> QED BY <3>2, <3>3 DEF Has, Queues
  <2> QED BY <2>1
<1>14. \A k \in Lanes : LaneFits(B, k, p.lanes[k], ent)
  BY <1>8, <1>12, <1>13
<1>15. InHand(B, p) = InHand(B, s)
  BY <1>7, <1>12, <1>13 DEF InHand
<1>16. GoesOnIn(s, p)
  BY <1>7, <1>12 DEF GoesOnIn, CanStart
<1>17. IsFiniteSet(K) /\ Cardinality(K) \in Nat
  BY <1>7, RecipientFacts, FS_Subset, FS_CardinalityType
<1>18. p.active = Cardinality(BusyLanes(p))
  <2>1. BusyLanes(p) = BusyLanes(s) \cup K
    BY <1>7, <1>12, <1>13 DEF BusyLanes
  <2>2. BusyLanes(s) \cap K = {}
    BY <1>7 DEF BusyLanes, CanStart
  <2>3. Cardinality(BusyLanes(s) \cup K) =
          Cardinality(BusyLanes(s)) + Cardinality(K) - Cardinality(BusyLanes(s) \cap K)
    BY <1>17, HandFinite, FS_Union
  <2>4. a = Cardinality(BusyLanes(s))
    BY <1>1 DEF Booked
  <2>5. Cardinality(BusyLanes(s) \cap K) = 0
    BY <2>2, FS_EmptySet
  <2>6. Cardinality(BusyLanes(s)) \in Nat
    BY HandFinite
  <2>7. Cardinality(BusyLanes(p)) = a + Cardinality(K) - 0
    BY <2>1, <2>3, <2>4, <2>5
  <2> QED BY <1>11, <1>17, <2>4, <2>6, <2>7
<1>19. p \in SchedRecord(B)
  <2>1. p.lanes \in [Lanes -> LaneRecord(B)]
    BY <1>11, <1>12, <1>14 DEF LaneFits
  <2>2. p.active \in 0 .. Maximum
    BY <1>6, <1>11, <1>17, BatchBounds
  <2> QED BY <1>2, <1>10, <1>11, <2>1, <2>2 DEF SchedRecord
<1>20. ReadyFits(p)
  <2>1. ASSUME NEW k \in Lanes, p.lanes[k].exists, p.lanes[k].task = <<>>
        PROVE  \E i \in 1 .. Len(rest) : rest[i] = k
    <3>1. k \notin K /\ p.lanes[k] = s.lanes[k]
      BY <1>12, <1>13, <2>1
    <3>2. CanStart(s.lanes[k])
      BY <1>8, <2>1, <3>1 DEF CanStart, LaneFits
    <3>3. PICK i \in 1 .. Len(s.ready) : s.ready[i] = k
      BY <2>1, <3>1 DEF Booked, ReadyFits
    <3>4. CASE i > m
      BY <1>10, <3>3, <3>4
    <3>5. CASE ~(i > m)
      <4> DEFINE I == {j \in Nat : j \in 1 .. m /\ s.ready[j] = k}
      <4>1. i \in I
        BY <1>2, <3>3, <3>5
      <4>2. PICK j \in I : \A l \in I : j <= l
        <5>1. I \subseteq Nat /\ I # {}
          BY <4>1
        <5> HIDE DEF I
        <5> QED BY <5>1, Least
      <4>3. j \in 1 .. m /\ s.ready[j] = k
        OBVIOUS
      <4>4. \A l \in 1 .. j - 1 : s.ready[l] # k
        <5>1. \A l \in 1 .. j - 1 : l \in 1 .. m /\ l \in Nat /\ ~(j <= l)
          BY <1>2, <4>3
        <5> QED BY <4>2, <5>1
      <4>5. StartsAt(s, j)
        BY <3>2, <4>3, <4>4 DEF StartsAt
      <4>6. k \in K
        BY <1>4, <4>3, <4>5
      <4> QED BY <3>1, <4>6
    <3> QED BY <3>4, <3>5
  <2> QED BY <1>11, <2>1 DEF ReadyFits
<1>21. FullIfReady(p)
  BY <1>6, <1>10, <1>11 DEF FullIfReady
<1>22. p.pending = Cardinality(InHand(B, p))
  BY <1>11, <1>15 DEF Booked
<1> QED BY <1>5, <1>14, <1>15, <1>16, <1>18, <1>19, <1>20, <1>21, <1>22 DEF Booked

\* A task joins the queue of its lane.
Joined(lane, t) == [lane EXCEPT !.exists = TRUE, !.queue = Append(lane.queue, t)]

LEMMA LaneGrows ==
  ASSUME NEW B, NEW k, NEW lane, NEW ent, LaneFits(B, k, lane, ent),
         NEW t \in B \X Receivers, k = <<ent[t[1]].room, t[2]>>, ~Has(lane, t)
  PROVE  /\ LaneFits(B, k, Joined(lane, t), ent)
         /\ Joined(lane, t).exists /\ Joined(lane, t).task = lane.task
         /\ \A u : Has(Joined(lane, t), u) <=> Has(lane, u) \/ u = t
<1> DEFINE T == B \X Receivers
<1>1. PICK q \in Seq(T) : q = lane.queue
  BY DEF LaneFits, LaneRecord
<1>2. PICK r : r = Append(q, t)
  OBVIOUS
<1>3. PICK l : l = Joined(lane, t)
  OBVIOUS
<1>4. /\ r \in Seq(T) /\ r # <<>> /\ Len(q) \in Nat /\ Len(r) = Len(q) + 1
      /\ \A i \in 1 .. Len(q) : r[i] = q[i]
      /\ r[Len(q) + 1] = t
  <2>1. t \in T
    OBVIOUS
  <2> HIDE DEF T
  <2> QED BY <1>1, <1>2, <2>1, AppendProperties, LenProperties
<1>5. /\ l \in LaneRecord(B) /\ l.exists = TRUE /\ l.task = lane.task /\ l.queue = r
  <2>1. l = [lane EXCEPT !.exists = TRUE, !.queue = r]
    BY <1>1, <1>2, <1>3 DEF Joined
  <2>2. lane \in LaneRecord(B)
    BY DEF LaneFits
  <2> HIDE DEF T
  <2> QED BY <1>4, <2>1, <2>2 DEF LaneRecord, T
<1>6. /\ \A i \in 1 .. Len(r) : i \in 1 .. Len(q) \/ i = Len(q) + 1
      /\ \A i \in 1 .. Len(q) : i \in 1 .. Len(r)
      /\ Len(q) + 1 \in 1 .. Len(r)
  BY <1>4
<1>7. \A u : Queues(l, u) <=> Queues(lane, u) \/ u = t
  <2>1. \A u : Queues(l, u) <=> \E i \in 1 .. Len(r) : r[i] = u
    BY <1>5 DEF Queues
  <2>2. \A u : Queues(lane, u) <=> \E i \in 1 .. Len(q) : q[i] = u
    BY <1>1 DEF Queues
  <2> HIDE DEF T
  <2>3. ASSUME NEW u, \E i \in 1 .. Len(r) : r[i] = u, u # t
        PROVE  \E i \in 1 .. Len(q) : q[i] = u
    BY <1>4, <1>6, <2>3
  <2>4. ASSUME NEW u, \E i \in 1 .. Len(q) : q[i] = u
        PROVE  \E i \in 1 .. Len(r) : r[i] = u
    BY <1>4, <1>6, <2>4
  <2>5. \E i \in 1 .. Len(r) : r[i] = t
    BY <1>4, <1>6
  <2> QED BY <2>1, <2>2, <2>3, <2>4, <2>5
<1>8. \A u : Has(l, u) <=> Has(lane, u) \/ u = t
  BY <1>5, <1>7 DEF Has
<1>9. \A i \in 1 .. Len(q) : q[i] # t /\ q[i] # lane.task
  BY <1>1 DEF Has, Queues, LaneFits
<1>10. lane.task # t
  BY DEF Has
<1>11. \A i \in 1 .. Len(r) : r[i] # lane.task
  BY <1>4, <1>6, <1>9, <1>10
<1>12. \A i, j \in 1 .. Len(r) : r[i] = r[j] => i = j
  <2>1. \A i, j \in 1 .. Len(q) : q[i] = q[j] => i = j
    BY <1>1 DEF LaneFits
  <2> HIDE DEF T
  <2> QED BY <1>4, <1>6, <1>9, <2>1
<1>13. \A u \in T : Has(l, u) => k = <<ent[u[1]].room, u[2]>>
  BY <1>8 DEF LaneFits
<1>14. LaneFits(B, k, l, ent)
  BY <1>4, <1>5, <1>11, <1>12, <1>13 DEF LaneFits
<1> QED BY <1>3, <1>5, <1>8, <1>14

LEMMA EnqueueBooked ==
  ASSUME NEW CONSTANT B, NEW CONSTANT n, IsFiniteSet(B), NEW s, NEW ent,
         Booked(B, s, ent), FullIfReady(s),
         NEW k \in Lanes, NEW t \in B \X Receivers, k = <<ent[t[1]].room, t[2]>>,
         t \notin InHand(B, s), NEW x, x = Sending(B, n)!Enqueued(s, k, t)
  PROVE  /\ Booked(B, x, ent) /\ FullIfReady(x) /\ GoesOnIn(s, x)
         /\ InHand(B, s) \subseteq InHand(B, x)
         /\ InHand(B, x) \subseteq InHand(B, s) \cup {t}
<1>1. CASE s.pending >= MaximumPending
  <2>1. x = s
    BY <1>1 DEF Sending!Enqueued
  <2> QED BY <2>1 DEF GoesOnIn
<1>2. CASE ~(s.pending >= MaximumPending)
  <2> DEFINE lane == s.lanes[k]
             wait == IF s.lanes[k].exists THEN s.ready ELSE Append(s.ready, k)
  <2>1. PICK u : u = [s EXCEPT !.pending = @ + 1,
                        !.ready = IF s.lanes[k].exists THEN @ ELSE Append(@, k),
                        !.lanes[k].exists = TRUE,
                        !.lanes[k].queue = Append(@, t)]
    OBVIOUS
  <2>2. x = Sending(B, n)!Pumped(u)
    BY <1>2, <2>1 DEF Sending!Enqueued
  <2>3. /\ s \in SchedRecord(B) /\ s.lanes \in [Lanes -> LaneRecord(B)]
        /\ s.ready \in Seq(Lanes) /\ s.pending \in 0 .. MaximumPending
    BY DEF Booked, SchedRecord
  <2>4. PICK r : r = wait
    OBVIOUS
  <2>5. PICK L : L = [s.lanes EXCEPT ![k] = Joined(lane, t)]
    OBVIOUS
  <2>6. /\ u = [s EXCEPT !.pending = s.pending + 1, !.ready = r, !.lanes = L]
        /\ u.pending = s.pending + 1 /\ u.ready = r /\ u.lanes = L /\ u.active = s.active
    <3>1. PICK s1 : s1 = [s EXCEPT !.pending = @ + 1,
                                   !.ready = IF s.lanes[k].exists THEN @ ELSE Append(@, k)]
      OBVIOUS
    <3>2. s1 = [s EXCEPT !.pending = s.pending + 1, !.ready = r] /\ s1.lanes = s.lanes
      BY <2>3, <2>4, <3>1 DEF SchedRecord
    <3>3. PICK M : M = [s.lanes EXCEPT ![k].exists = TRUE]
      OBVIOUS
    <3>4. PICK s2 : s2 = [s1 EXCEPT !.lanes[k].exists = TRUE]
      OBVIOUS
    <3>5. s2 = [s1 EXCEPT !.lanes = M]
      BY <3>2, <3>3, <3>4
    <3>6. s2.lanes = M
      BY <2>3, <3>2, <3>5 DEF SchedRecord
    <3>7. u = [s2 EXCEPT !.lanes[k].queue = Append(s.lanes[k].queue, t)]
      BY <2>1, <3>1, <3>4
    <3>8. L = [M EXCEPT ![k].queue = Append(s.lanes[k].queue, t)]
      <4>1. M \in [Lanes -> LaneRecord(B)] /\ M[k] = [lane EXCEPT !.exists = TRUE]
            /\ \A j \in Lanes : j # k => M[j] = s.lanes[j]
        BY <2>3, <3>3 DEF LaneRecord
      <4>2. lane \in LaneRecord(B)
        BY <2>3
      <4>4. [M[k] EXCEPT !.queue = Append(lane.queue, t)] = Joined(lane, t)
        BY <4>1, <4>2 DEF Joined, LaneRecord
      <4>5. [M EXCEPT ![k].queue = Append(s.lanes[k].queue, t)] = [M EXCEPT ![k] = Joined(lane, t)]
        BY <4>4
      <4> QED BY <2>3, <2>5, <4>1, <4>5
    <3>9. u = [s2 EXCEPT !.lanes = L]
      BY <3>6, <3>7, <3>8
    <3>10. u = [s EXCEPT !.pending = s.pending + 1, !.ready = r, !.lanes = L]
      BY <2>3, <3>2, <3>5, <3>9 DEF SchedRecord
    <3> QED BY <2>3, <3>10 DEF SchedRecord
  <2>7. /\ LaneFits(B, k, lane, ent) /\ ~Has(lane, t)
    BY DEF Booked, InHand
  <2>8. PICK l : l = Joined(lane, t)
    OBVIOUS
  <2>9. /\ LaneFits(B, k, l, ent) /\ l.exists /\ l.task = lane.task
        /\ \A v : Has(l, v) <=> Has(lane, v) \/ v = t
    BY <2>7, <2>8, LaneGrows
  <2>10. L[k] = l /\ \A j \in Lanes : j # k => L[j] = s.lanes[j]
    BY <2>3, <2>5, <2>8
  <2>11. L \in [Lanes -> LaneRecord(B)]
    BY <2>3, <2>5, <2>8, <2>9 DEF LaneFits
  <2>12. /\ r \in Seq(Lanes)
         /\ \A i \in 1 .. Len(s.ready) : i \in 1 .. Len(r) /\ r[i] = s.ready[i]
         /\ ~lane.exists => \E i \in 1 .. Len(r) : r[i] = k
    <3>1. CASE s.lanes[k].exists
      BY <2>3, <2>4, <3>1
    <3>2. CASE ~s.lanes[k].exists
      <4>1. /\ r \in Seq(Lanes) /\ Len(r) = Len(s.ready) + 1 /\ Len(s.ready) \in Nat
            /\ \A i \in 1 .. Len(s.ready) : r[i] = s.ready[i]
            /\ r[Len(s.ready) + 1] = k
        BY <2>3, <2>4, <3>2, AppendProperties, LenProperties
      <4>2. /\ \A i \in 1 .. Len(s.ready) : i \in 1 .. Len(r)
            /\ Len(s.ready) + 1 \in 1 .. Len(r)
        BY <4>1
      <4> QED BY <4>1, <4>2
    <3> QED BY <3>1, <3>2
  <2>13. u \in SchedRecord(B)
    <3>1. s.pending + 1 \in 0 .. MaximumPending
      BY <1>2, <2>3, BatchBounds
    <3> HIDE DEF lane, wait
    <3> QED BY <2>3, <2>6, <2>11, <2>12, <3>1 DEF SchedRecord
  <2>14. \A j \in Lanes : LaneFits(B, j, u.lanes[j], ent)
    BY <2>6, <2>9, <2>10 DEF Booked
  <2>15. ReadyFits(u)
    <3>1. ASSUME NEW j \in Lanes, L[j].exists, L[j].task = <<>>
          PROVE  \E i \in 1 .. Len(r) : r[i] = j
      <4>1. CASE j = k /\ ~lane.exists
        BY <2>12, <4>1
      <4>2. CASE ~(j = k /\ ~lane.exists)
        <5>1. s.lanes[j].exists /\ s.lanes[j].task = <<>>
          BY <2>9, <2>10, <3>1, <4>2
        <5>2. PICK i \in 1 .. Len(s.ready) : s.ready[i] = j
          BY <5>1 DEF Booked, ReadyFits
        <5> QED BY <2>12, <5>2
      <4> QED BY <4>1, <4>2
    <3> QED BY <2>6, <3>1 DEF ReadyFits
  <2>16. BusyLanes(u) = BusyLanes(s)
    BY <2>6, <2>9, <2>10 DEF BusyLanes
  <2>17. InHand(B, u) = InHand(B, s) \cup {t}
    BY <2>6, <2>9, <2>10 DEF InHand
  <2>18. Cardinality(InHand(B, u)) = Cardinality(InHand(B, s)) + 1
    BY <2>17, HandFinite, FS_AddElement
  <2>19. Booked(B, u, ent)
    BY <2>6, <2>13, <2>14, <2>15, <2>16, <2>18 DEF Booked
  <2>20. GoesOnIn(s, u)
    BY <2>6, <2>9, <2>10 DEF GoesOnIn
  <2>21. /\ Booked(B, x, ent) /\ FullIfReady(x)
         /\ InHand(B, x) = InHand(B, u) /\ GoesOnIn(u, x)
    BY <2>2, <2>19, PumpBooked
  <2>22. GoesOnIn(s, x)
    BY <2>20, <2>21 DEF GoesOnIn
  <2> QED BY <2>17, <2>21, <2>22
<1> QED BY <1>1, <1>2

LEMMA OnlyLane ==
  ASSUME NEW B, NEW s, NEW ent, Booked(B, s, ent), NEW t \in B \X Receivers,
         NEW j \in Lanes, NEW k \in Lanes, Has(s.lanes[j], t), Has(s.lanes[k], t)
  PROVE  j = k
BY DEF Booked, LaneFits

LEMMA EmptyLane ==
  ASSUME NEW B, NEW k, NEW ent
  PROVE  LET none == [exists |-> FALSE, task |-> <<>>, queue |-> <<>>] IN
         /\ LaneFits(B, k, none, ent)
         /\ \A t \in B \X Receivers : ~Has(none, t)
<1> DEFINE T == B \X Receivers
<1>1. PICK none : none = [exists |-> FALSE, task |-> <<>>, queue |-> <<>>]
  OBVIOUS
<1>2. <<>> \in Seq(T) /\ Len(<<>>) = 0
  BY EmptySeq
<1>3. none \in LaneRecord(B) /\ ~none.exists /\ none.task = <<>> /\ none.queue = <<>>
  BY <1>1, <1>2 DEF LaneRecord
<1>4. \A i \in 1 .. Len(none.queue) : FALSE
  BY <1>2, <1>3
<1>5. \A t \in B \X Receivers : ~Has(none, t)
  BY <1>3, <1>4, TaskIsNone DEF Has, Queues
<1> QED BY <1>1, <1>3, <1>4, <1>5 DEF LaneFits

\* What the other lanes run goes on.
OthersGoOn(s, p, t) ==
  \A k \in Lanes : s.lanes[k].task \notin {<<>>, t} => p.lanes[k].task = s.lanes[k].task

LEMMA SettleBooked ==
  ASSUME NEW CONSTANT B, NEW CONSTANT n, IsFiniteSet(B), NEW s, NEW ent,
         Booked(B, s, ent), FullIfReady(s),
         NEW k \in Lanes, NEW t \in B \X Receivers, s.lanes[k].task = t,
         NEW x, x = Sending(B, n)!TaskOver(s, k)
  PROVE  /\ Booked(B, x, ent) /\ FullIfReady(x) /\ OthersGoOn(s, x, t)
         /\ InHand(B, x) = InHand(B, s) \ {t}
<1>1. /\ s \in SchedRecord(B) /\ s.lanes \in [Lanes -> LaneRecord(B)]
      /\ s.ready \in Seq(Lanes) /\ s.pending \in 0 .. MaximumPending
      /\ s.active \in 0 .. Maximum
  BY DEF Booked, SchedRecord
<1>2. PICK lane : lane = s.lanes[k]
  OBVIOUS
<1>3. LaneFits(B, k, lane, ent) /\ lane.task = t /\ Has(lane, t) /\ t # <<>>
  BY <1>2, TaskIsNone DEF Booked, Has
<1>4. t \in InHand(B, s) /\ k \in BusyLanes(s)
  BY <1>2, <1>3 DEF InHand, BusyLanes
<1>5. \A j \in Lanes : Has(s.lanes[j], t) => j = k
  BY <1>2, <1>3, OnlyLane
<1>6. /\ Cardinality(InHand(B, s) \ {t}) = Cardinality(InHand(B, s)) - 1
      /\ Cardinality(BusyLanes(s) \ {k}) = Cardinality(BusyLanes(s)) - 1
      /\ Cardinality(InHand(B, s) \ {t}) \in Nat
      /\ Cardinality(BusyLanes(s) \ {k}) \in Nat
  BY <1>4, HandFinite, FS_RemoveElement, FS_CardinalityType
<1>7. s.pending - 1 \in 0 .. MaximumPending /\ s.active - 1 \in 0 .. Maximum
  <2>1. s.pending - 1 \in Nat /\ s.active - 1 \in Nat
    BY <1>6 DEF Booked
  <2> QED BY <1>1, <2>1, BatchBounds
<1>8. ASSUME NEW l, NEW u, NEW v \in 0 .. Maximum,
             u \in SchedRecord(B), u.ready = s.ready,
             u.lanes = [s.lanes EXCEPT ![k] = l], u.pending = s.pending - 1,
             LaneFits(B, k, l, ent), l.exists => l.task # <<>>,
             \A w \in B \X Receivers : Has(l, w) <=> Has(lane, w) /\ w # t
      PROVE  /\ \A j \in Lanes : LaneFits(B, j, u.lanes[j], ent)
             /\ ReadyFits(u)
             /\ InHand(B, u) = InHand(B, s) \ {t}
             /\ u.pending = Cardinality(InHand(B, u))
             /\ OthersGoOn(s, u, t)
  <2>1. u.lanes[k] = l /\ \A j \in Lanes : j # k => u.lanes[j] = s.lanes[j]
    BY <1>1, <1>8
  <2>2. \A j \in Lanes : LaneFits(B, j, u.lanes[j], ent)
    BY <1>8, <2>1 DEF Booked
  <2>3. ReadyFits(u)
    <3>1. ASSUME NEW j \in Lanes, u.lanes[j].exists, u.lanes[j].task = <<>>
          PROVE  \E i \in 1 .. Len(s.ready) : s.ready[i] = j
      <4>1. u.lanes[j] = s.lanes[j]
        BY <1>8, <2>1, <3>1
      <4> QED BY <3>1, <4>1 DEF Booked, ReadyFits
    <3> QED BY <1>8, <3>1 DEF ReadyFits
  <2>4. InHand(B, u) = InHand(B, s) \ {t}
    <3>1. ASSUME NEW w \in B \X Receivers, NEW j \in Lanes
          PROVE  Has(u.lanes[j], w) <=> Has(s.lanes[j], w) /\ w # t
      <4>1. CASE j = k
        BY <1>2, <1>8, <2>1, <4>1
      <4>2. CASE j # k
        BY <1>5, <2>1, <4>2
      <4> QED BY <4>1, <4>2
    <3> QED BY <3>1 DEF InHand
  <2>5. OthersGoOn(s, u, t)
    BY <1>2, <1>3, <2>1 DEF OthersGoOn
  <2>6. u.pending = Cardinality(InHand(B, u))
    BY <1>6, <1>8, <2>4 DEF Booked
  <2> QED BY <2>2, <2>3, <2>4, <2>5, <2>6
<1>9. CASE lane.queue # <<>>
  <2>1. PICK l : l = Started(lane)
    OBVIOUS
  <2>2. /\ LaneFits(B, k, l, ent) /\ l.exists /\ l.task # <<>>
        /\ \A w \in B \X Receivers : Has(l, w) <=> Queues(lane, w)
    BY <1>3, <1>9, <2>1, LaneStarts
  <2>3. \A w \in B \X Receivers : Has(l, w) <=> Has(lane, w) /\ w # t
    <3>1. ~Queues(lane, t)
      BY <1>3 DEF Queues, LaneFits
    <3> QED BY <1>3, <2>2, <3>1 DEF Has
  <2>4. x = [s EXCEPT !.pending = @ - 1,
                      !.lanes[k].task = Head(lane.queue),
                      !.lanes[k].queue = Tail(@)]
    BY <1>2, <1>9 DEF Sending!TaskOver
  <2>5. PICK L : L = [s.lanes EXCEPT ![k] = l]
    OBVIOUS
  <2>6. x = [s EXCEPT !.pending = s.pending - 1, !.lanes = L]
    <3>1. PICK s1 : s1 = [s EXCEPT !.pending = @ - 1]
      OBVIOUS
    <3>2. s1 = [s EXCEPT !.pending = s.pending - 1] /\ s1.lanes = s.lanes
      BY <1>1, <3>1 DEF SchedRecord
    <3>3. PICK M : M = [s.lanes EXCEPT ![k].task = Head(lane.queue)]
      OBVIOUS
    <3>4. PICK s2 : s2 = [s1 EXCEPT !.lanes[k].task = Head(lane.queue)]
      OBVIOUS
    <3>5. s2 = [s1 EXCEPT !.lanes = M]
      BY <3>2, <3>3, <3>4
    <3>6. s2.lanes = M
      BY <1>1, <3>2, <3>5 DEF SchedRecord
    <3>7. x = [s2 EXCEPT !.lanes[k].queue = Tail(s.lanes[k].queue)]
      BY <2>4, <3>1, <3>4
    <3>8. L = [M EXCEPT ![k].queue = Tail(s.lanes[k].queue)]
      <4>1. M[k] = [lane EXCEPT !.task = Head(lane.queue)]
            /\ DOMAIN M = Lanes
            /\ \A j \in Lanes : j # k => M[j] = s.lanes[j]
        BY <1>1, <1>2, <3>3
      <4>2. lane \in LaneRecord(B)
        BY <1>1, <1>2
      <4>3. [M[k] EXCEPT !.queue = Tail(lane.queue)] = l
        BY <2>1, <4>1, <4>2 DEF Started, LaneRecord
      <4>4. [M EXCEPT ![k].queue = Tail(s.lanes[k].queue)] = [M EXCEPT ![k] = l]
        BY <1>2, <4>3
      <4>5. [M EXCEPT ![k] = l] = L
        BY <1>1, <2>5, <3>3
      <4> QED BY <4>4, <4>5
    <3>9. x = [s2 EXCEPT !.lanes = L]
      BY <3>6, <3>7, <3>8
    <3> QED BY <1>1, <3>2, <3>5, <3>9 DEF SchedRecord
  <2>7. /\ x.ready = s.ready /\ x.pending = s.pending - 1 /\ x.active = s.active
        /\ x.lanes = L
    BY <1>1, <2>6 DEF SchedRecord
  <2>8. L \in [Lanes -> LaneRecord(B)]
    BY <1>1, <2>2, <2>5 DEF LaneFits
  <2>9. x \in SchedRecord(B)
    BY <1>1, <1>7, <2>6, <2>8 DEF SchedRecord
  <2>10. /\ \A j \in Lanes : LaneFits(B, j, x.lanes[j], ent)
         /\ ReadyFits(x)
         /\ InHand(B, x) = InHand(B, s) \ {t}
         /\ x.pending = Cardinality(InHand(B, x))
         /\ OthersGoOn(s, x, t)
    BY <1>1, <1>8, <2>2, <2>3, <2>5, <2>7, <2>9
  <2>11. BusyLanes(x) = BusyLanes(s)
    BY <1>1, <1>4, <2>2, <2>5, <2>7 DEF BusyLanes
  <2> QED BY <2>7, <2>9, <2>10, <2>11 DEF Booked, FullIfReady
<1>10. CASE lane.queue = <<>>
  <2>1. PICK l : l = [exists |-> FALSE, task |-> <<>>, queue |-> <<>>]
    OBVIOUS
  <2>2. LaneFits(B, k, l, ent) /\ (\A w \in B \X Receivers : ~Has(l, w))
        /\ ~l.exists /\ l.task = <<>>
    BY <2>1, EmptyLane
  <2>3. PICK L : L = [s.lanes EXCEPT ![k] = l]
    OBVIOUS
  <2>4. PICK u : u = [s EXCEPT !.pending = s.pending - 1, !.active = s.active - 1,
                               !.lanes = L]
    OBVIOUS
  <2>5. x = Sending(B, n)!Pumped(u)
    <3>1. ~(lane.queue # <<>>)
      BY <1>10
    <3>2. u = [s EXCEPT !.pending = @ - 1, !.active = @ - 1, !.lanes[k] = l]
      BY <2>3, <2>4
    <3>3. x = Sending(B, n)!Pumped([s EXCEPT !.pending = @ - 1, !.active = @ - 1,
                                             !.lanes[k] = Sending(B, n)!NoLane])
      BY <1>2, <3>1 DEF Sending!TaskOver
    <3>4. Sending(B, n)!NoLane = l
      BY <2>1 DEF Sending!NoLane, Sending!NoTask
    <3> QED BY <3>2, <3>3, <3>4
  <2>6. /\ u.ready = s.ready /\ u.pending = s.pending - 1 /\ u.active = s.active - 1
        /\ u.lanes = L
    BY <1>1, <2>4 DEF SchedRecord
  <2>7. L \in [Lanes -> LaneRecord(B)]
    BY <1>1, <2>2, <2>3 DEF LaneFits
  <2>8. u \in SchedRecord(B)
    BY <1>1, <1>7, <2>4, <2>7 DEF SchedRecord
  <2>9. \A w \in B \X Receivers : Has(l, w) <=> Has(lane, w) /\ w # t
    <3>1. \A w : ~Queues(lane, w)
      <4>1. Len(<<>>) = 0
        BY EmptySeq
      <4> QED BY <1>10, <4>1 DEF Queues
    <3> QED BY <1>3, <2>2, <3>1 DEF Has
  <2>10. /\ \A j \in Lanes : LaneFits(B, j, u.lanes[j], ent)
         /\ ReadyFits(u)
         /\ InHand(B, u) = InHand(B, s) \ {t}
         /\ u.pending = Cardinality(InHand(B, u))
         /\ OthersGoOn(s, u, t)
    BY <1>1, <1>8, <2>2, <2>3, <2>6, <2>8, <2>9
  <2>11. BusyLanes(u) = BusyLanes(s) \ {k}
    BY <1>1, <2>2, <2>3, <2>6 DEF BusyLanes
  <2>12. Booked(B, u, ent)
    BY <1>6, <2>6, <2>8, <2>10, <2>11 DEF Booked
  <2>13. /\ Booked(B, x, ent) /\ FullIfReady(x)
         /\ InHand(B, x) = InHand(B, u) /\ GoesOnIn(u, x)
    BY <2>5, <2>12, PumpBooked
  <2>14. OthersGoOn(s, x, t)
    BY <2>10, <2>13 DEF OthersGoOn, GoesOnIn
  <2> QED BY <2>10, <2>13, <2>14
<1> QED BY <1>9, <1>10

LEMMA CancelBooked ==
  ASSUME NEW CONSTANT B, NEW CONSTANT n, IsFiniteSet(B), NEW s, NEW ent,
         Booked(B, s, ent), NEW scope \in 1 .. MaxRoom,
         NEW x, x = Sending(B, n)!CancelScope(s, scope)
  PROVE  /\ Booked(B, x, ent) /\ FullIfReady(x) /\ GoesOnIn(s, x)
         /\ InHand(B, x) = InHand(B, s) \ Sending(B, n)!Waiting(s, scope)
<1> DEFINE none == [exists |-> FALSE, task |-> <<>>, queue |-> <<>>]
           Emptied(k) == IF k[1] # scope \/ s.lanes[k].queue = <<>> THEN s.lanes[k]
                         ELSE IF s.lanes[k].task = <<>> THEN none
                         ELSE [s.lanes[k] EXCEPT !.queue = <<>>]
           W == Sending(B, n)!Waiting(s, scope)
<1>1. PICK L : L = [k \in Lanes |-> Emptied(k)]
  OBVIOUS
<1>2. PICK u : u = [s EXCEPT !.pending = s.pending - Cardinality(W), !.lanes = L]
  OBVIOUS
<1>3. /\ s \in SchedRecord(B) /\ s.lanes \in [Lanes -> LaneRecord(B)]
      /\ s.ready \in Seq(Lanes) /\ s.pending \in 0 .. MaximumPending
      /\ s.active \in 0 .. Maximum
      /\ \A k \in Lanes : LaneFits(B, k, s.lanes[k], ent)
  BY DEF Booked, SchedRecord
<1>4. x = Sending(B, n)!Pumped(u)
  <2>1. \A T : Sending(B, n)!Cardinality(T) = Cardinality(T)
    BY DEF Sending!Cardinality, Cardinality
  <2>2. Sending(B, n)!Key = Lanes
    BY DEF Sending!Key, Sending!Member, Lanes, Receivers
  <2>3. x = Sending(B, n)!Pumped(
              [s EXCEPT !.pending = @ - Sending(B, n)!Cardinality(W),
                        !.lanes = [k \in Sending(B, n)!Key |-> Emptied(k)]])
    BY DEF Sending!CancelScope, Sending!NoTask, Sending!NoLane
  <2> HIDE DEF Emptied, W
  <2> QED BY <1>1, <1>2, <2>1, <2>2, <2>3
<1>5. \A k \in Lanes : L[k] = Emptied(k)
  BY <1>1
<1>6. \A k \in Lanes, t \in B \X Receivers : Has(none, t) <=> FALSE
  BY EmptyLane
<1>7. \A t : t \in W <=> \E r \in Receivers : Queues(s.lanes[<<scope, r>>], t)
  <2>1. \A r \in Receivers : <<scope, r>> \in Lanes
    BY DEF Lanes
  <2>2. \A r \in Receivers :
          DOMAIN s.lanes[<<scope, r>>].queue = 1 .. Len(s.lanes[<<scope, r>>].queue)
    BY <1>3, <2>1 DEF LaneRecord
  <2> DEFINE Q(r) == s.lanes[<<scope, r>>].queue
  <2>3. W = UNION {{Q(r)[i] : i \in DOMAIN Q(r)} : r \in Receivers}
    BY DEF Sending!Waiting, Sending!Member, Receivers
  <2>4. \A t : \A r \in Receivers :
          Queues(s.lanes[<<scope, r>>], t) <=> \E i \in DOMAIN Q(r) : Q(r)[i] = t
    BY <2>2 DEF Queues
  <2> HIDE DEF Q, W
  <2>5. \A t : t \in W <=> \E r \in Receivers : \E i \in DOMAIN Q(r) : Q(r)[i] = t
    BY <2>3
  <2> QED BY <2>4, <2>5
<1>8. ASSUME NEW k \in Lanes
      PROVE  /\ LaneFits(B, k, L[k], ent)
             /\ s.lanes[k].task # <<>> <=> L[k].task # <<>>
             /\ s.lanes[k].task # <<>> => L[k].task = s.lanes[k].task
             /\ L[k].exists /\ L[k].task = <<>> => L[k] = s.lanes[k]
             /\ k[1] # scope => L[k] = s.lanes[k]
             /\ \A t \in B \X Receivers : k[1] = scope =>
                  (Has(L[k], t) <=> Has(s.lanes[k], t) /\ ~Queues(s.lanes[k], t))
  <2>1. PICK lane, l : lane = s.lanes[k] /\ l = L[k]
    OBVIOUS
  <2>2. l = IF k[1] # scope \/ lane.queue = <<>> THEN lane
            ELSE IF lane.task = <<>> THEN none
            ELSE [lane EXCEPT !.queue = <<>>]
    BY <1>5, <2>1
  <2>3. LaneFits(B, k, lane, ent) /\ lane \in LaneRecord(B)
    BY <1>3, <2>1 DEF LaneFits
  <2>4. Len(<<>>) = 0 /\ <<>> \in Seq(B \X Receivers)
    BY EmptySeq
  <2>5. lane.queue = <<>> => \A t : ~Queues(lane, t)
    BY <2>4 DEF Queues
  <2>6. CASE k[1] # scope \/ lane.queue = <<>>
    <3>1. l = lane
      BY <2>2, <2>6
    <3> QED BY <2>1, <2>3, <2>5, <2>6, <3>1
  <2>7. CASE k[1] = scope /\ lane.queue # <<>> /\ lane.task = <<>>
    <3>1. l = none
      BY <2>2, <2>7
    <3>2. /\ LaneFits(B, k, l, ent) /\ ~l.exists /\ l.task = <<>>
          /\ \A t \in B \X Receivers : ~Has(l, t)
      BY <3>1, EmptyLane
    <3>3. \A t \in B \X Receivers : Has(lane, t) => Queues(lane, t)
      BY <2>7, TaskIsNone DEF Has
    <3> QED BY <2>1, <2>7, <3>2, <3>3
  <2>8. CASE k[1] = scope /\ lane.queue # <<>> /\ lane.task # <<>>
    <3>1. l = [lane EXCEPT !.queue = <<>>]
      BY <2>2, <2>8
    <3>2. /\ l \in LaneRecord(B) /\ l.exists = lane.exists /\ l.task = lane.task
          /\ l.queue = <<>>
      BY <2>3, <2>4, <3>1 DEF LaneRecord
    <3>3. \A t : ~Queues(l, t)
      BY <2>4, <3>2 DEF Queues
    <3>4. \A t : lane.task = t => ~Queues(lane, t)
      BY <2>3 DEF LaneFits, Queues
    <3>5. \A t : Has(l, t) <=> Has(lane, t) /\ ~Queues(lane, t)
      BY <3>2, <3>3, <3>4 DEF Has
    <3>6. LaneFits(B, k, l, ent)
      <4>1. \A i \in 1 .. Len(l.queue) : FALSE
        BY <2>4, <3>2
      <4>2. \A t \in B \X Receivers : Has(l, t) => k = <<ent[t[1]].room, t[2]>>
        BY <2>3, <3>5 DEF LaneFits
      <4> QED BY <2>3, <2>8, <3>2, <4>1, <4>2 DEF LaneFits
    <3> QED BY <2>1, <2>8, <3>2, <3>5, <3>6
  <2> QED BY <2>6, <2>7, <2>8
<1> HIDE DEF Emptied, none, W
<1>9. InHand(B, s) \cap W = {t \in InHand(B, s) : t \in W}
  OBVIOUS
<1>10. W \subseteq InHand(B, s)
  <2>1. ASSUME NEW t \in W
        PROVE  t \in InHand(B, s)
    <3>1. PICK r \in Receivers : Queues(s.lanes[<<scope, r>>], t)
      BY <1>7
    <3>2. <<scope, r>> \in Lanes
      BY DEF Lanes
    <3>3. s.lanes[<<scope, r>>].queue \in Seq(B \X Receivers)
      BY <1>3, <3>2 DEF LaneRecord
    <3>4. t \in B \X Receivers
      BY <3>1, <3>3, ElementOfSeq DEF Queues
    <3> QED BY <3>1, <3>2, <3>4 DEF InHand, Has
  <2> QED BY <2>1
<1>11. /\ u.ready = s.ready /\ u.pending = s.pending - Cardinality(W)
       /\ u.active = s.active /\ u.lanes = L
  BY <1>2, <1>3 DEF SchedRecord
<1>12. InHand(B, u) = InHand(B, s) \ W
  <2>1. ASSUME NEW t \in B \X Receivers, NEW k \in Lanes, Has(L[k], t)
        PROVE  Has(s.lanes[k], t) /\ t \notin W
    <3>1. CASE k[1] = scope
      <4>1. Has(s.lanes[k], t) /\ ~Queues(s.lanes[k], t)
        BY <1>8, <2>1, <3>1
      <4>2. ASSUME NEW r \in Receivers, Queues(s.lanes[<<scope, r>>], t)
            PROVE  FALSE
        <5>1. <<scope, r>> \in Lanes
          BY DEF Lanes
        <5>2. Has(s.lanes[<<scope, r>>], t)
          BY <4>2 DEF Has
        <5>3. <<scope, r>> = k
          BY <4>1, <5>1, <5>2, OnlyLane
        <5> QED BY <4>1, <4>2, <5>3
      <4> QED BY <1>7, <4>1, <4>2
    <3>2. CASE k[1] # scope
      <4>1. Has(s.lanes[k], t)
        BY <1>8, <2>1, <3>2
      <4>2. ASSUME NEW r \in Receivers, Queues(s.lanes[<<scope, r>>], t)
            PROVE  FALSE
        <5>1. <<scope, r>> \in Lanes
          BY DEF Lanes
        <5>2. Has(s.lanes[<<scope, r>>], t)
          BY <4>2 DEF Has
        <5>3. <<scope, r>> = k
          BY <4>1, <5>1, <5>2, OnlyLane
        <5> QED BY <3>2, <5>3
      <4> QED BY <1>7, <4>1, <4>2
    <3> QED BY <3>1, <3>2
  <2>2. ASSUME NEW t \in B \X Receivers, NEW k \in Lanes, Has(s.lanes[k], t), t \notin W
        PROVE  Has(L[k], t)
    <3>1. CASE k[1] = scope
      <4>1. PICK r \in Receivers : k = <<scope, r>>
        BY <3>1 DEF Lanes
      <4>2. ~Queues(s.lanes[k], t)
        BY <1>7, <2>2, <4>1
      <4> QED BY <1>8, <2>2, <3>1, <4>2
    <3>2. CASE k[1] # scope
      BY <1>8, <2>2, <3>2
    <3> QED BY <3>1, <3>2
  <2> QED BY <1>11, <2>1, <2>2 DEF InHand
<1>13. /\ IsFiniteSet(W) /\ Cardinality(W) \in Nat /\ Cardinality(W) <= s.pending
       /\ Cardinality(InHand(B, s) \ W) = s.pending - Cardinality(W)
  <2>1. PICK H : H = InHand(B, s)
    OBVIOUS
  <2>2. IsFiniteSet(H) /\ W \subseteq H /\ Cardinality(H) = s.pending
    BY <1>10, <2>1, HandFinite DEF Booked
  <2>3. IsFiniteSet(W) /\ Cardinality(W) <= Cardinality(H)
    BY <2>2, FS_Subset
  <2>4. Cardinality(H \ W) = Cardinality(H) - Cardinality(H \cap W) /\ H \cap W = W
    BY <2>2, FS_Difference
  <2>5. Cardinality(W) \in Nat
    BY <2>3, FS_CardinalityType
  <2> QED BY <2>1, <2>2, <2>3, <2>4, <2>5
<1>14. u \in SchedRecord(B)
  <2>1. s.pending - Cardinality(W) \in 0 .. MaximumPending
    BY <1>3, <1>13, BatchBounds
  <2>2. L \in [Lanes -> LaneRecord(B)]
    <3>1. \A k \in Lanes : L[k] \in LaneRecord(B)
      BY <1>8 DEF LaneFits
    <3> QED BY <1>1, <3>1
  <2> QED BY <1>2, <1>3, <2>1, <2>2 DEF SchedRecord
<1>15. ReadyFits(u)
  <2>1. ASSUME NEW k \in Lanes, L[k].exists, L[k].task = <<>>
        PROVE  \E i \in 1 .. Len(s.ready) : s.ready[i] = k
    <3>1. L[k] = s.lanes[k]
      BY <1>8, <2>1
    <3> QED BY <2>1, <3>1 DEF Booked, ReadyFits
  <2> QED BY <1>11, <2>1 DEF ReadyFits
<1>16. BusyLanes(u) = BusyLanes(s)
  BY <1>8, <1>11 DEF BusyLanes
<1>17. Booked(B, u, ent)
  BY <1>8, <1>11, <1>12, <1>13, <1>14, <1>15, <1>16 DEF Booked
<1>18. GoesOnIn(s, u)
  BY <1>8, <1>11 DEF GoesOnIn
<1>19. /\ Booked(B, x, ent) /\ FullIfReady(x)
       /\ InHand(B, x) = InHand(B, u) /\ GoesOnIn(u, x)
  BY <1>4, <1>17, PumpBooked
<1>20. GoesOnIn(s, x)
  BY <1>18, <1>19 DEF GoesOnIn
<1> QED BY <1>12, <1>19, <1>20 DEF W

\* The recursion of AllEnqueued, up to recipient m, has a solution.
Enter(B, n, b, x, i) ==
  Sending(B, n)!Enqueued(x, <<room.id, Recipients[i]>>, <<b, Recipients[i]>>)
InTurn(B, n, b, f, m) ==
  f = [i \in 0 .. m |-> IF i = 0 THEN sched ELSE Enter(B, n, b, f[i - 1], i)]

LEMMA InTurnExists ==
  ASSUME NEW CONSTANT B, NEW CONSTANT n, NEW b, NEW m \in Nat
  PROVE  \E f : InTurn(B, n, b, f, m)
<1> DEFINE S == {i \in Nat : \E f : InTurn(B, n, b, f, i)}
<1>1. 0 \in S
  <2>1. InTurn(B, n, b, [i \in 0 .. 0 |-> sched], 0)
    BY DEF InTurn
  <2> QED BY <2>1
<1>2. ASSUME NEW i \in S
      PROVE  i + 1 \in S
  <2>1. PICK f : InTurn(B, n, b, f, i)
    OBVIOUS
  <2> DEFINE g == [j \in 0 .. i + 1 |-> IF j = i + 1 THEN Enter(B, n, b, f[i], i + 1) ELSE f[j]]
  <2>2. ASSUME NEW j \in 0 .. i + 1
        PROVE  g[j] = IF j = 0 THEN sched ELSE Enter(B, n, b, g[j - 1], j)
    <3>1. CASE j = 0
      BY <2>1, <3>1 DEF InTurn
    <3>2. CASE j = i + 1
      BY <3>2
    <3>3. CASE j # 0 /\ j # i + 1
      <4>1. j \in 0 .. i /\ j - 1 \in 0 .. i + 1 /\ j - 1 # i + 1
        BY <3>3
      <4>2. f[j] = Enter(B, n, b, f[j - 1], j)
        BY <2>1, <3>3, <4>1 DEF InTurn
      <4> QED BY <3>3, <4>1, <4>2
    <3> QED BY <3>1, <3>2, <3>3
  <2>3. g = [j \in 0 .. i + 1 |-> IF j = 0 THEN sched ELSE Enter(B, n, b, g[j - 1], j)]
    <3> DEFINE h == [j \in 0 .. i + 1 |-> IF j = 0 THEN sched ELSE Enter(B, n, b, g[j - 1], j)]
    <3>1. \A j \in 0 .. i + 1 : g[j] = h[j]
      <4> HIDE DEF g
      <4> QED BY <2>2
    <3>2. g = [j \in 0 .. i + 1 |-> g[j]]
      OBVIOUS
    <3>3. h = [j \in 0 .. i + 1 |-> h[j]]
      <4> HIDE DEF g
      <4> QED OBVIOUS
    <3> HIDE DEF g, h
    <3>4. g = h
      BY <3>1, <3>2, <3>3
    <3> QED BY <3>4 DEF h
  <2> HIDE DEF g
  <2>4. InTurn(B, n, b, g, i + 1)
    BY <2>3 DEF InTurn
  <2> QED BY <2>4
<1> HIDE DEF S
<1>3. S = Nat
  <2>1. S \subseteq Nat
    BY DEF S
  <2> QED BY <1>1, <1>2, <2>1, Inductive
<1> QED BY <1>3 DEF S

LEMMA EnqueuedInTurn ==
  ASSUME NEW CONSTANT B, NEW CONSTANT n, NEW b
  PROVE  \E f : /\ InTurn(B, n, b, f, Len(Recipients))
                /\ Sending(B, n)!AllEnqueued(b) = f[Len(Recipients)]
<1> DEFINE f == CHOOSE g : InTurn(B, n, b, g, Len(Recipients))
<1>1. InTurn(B, n, b, f, Len(Recipients))
  BY RecipientFacts, InTurnExists
<1>2. Sending(B, n)!AllEnqueued(b) = f[Len(Recipients)]
  BY DEF Sending!AllEnqueued, InTurn, Enter
<1> QED BY <1>1, <1>2

LEMMA BatchBooked ==
  ASSUME NEW CONSTANT B, NEW CONSTANT n, IsFiniteSet(B), NEW ent, NEW b \in B,
         Booked(B, sched, ent), FullIfReady(sched),
         room.id \in 1 .. MaxRoom, ent[b].room = room.id,
         \A t \in InHand(B, sched) : t[1] # b,
         NEW x, x = Sending(B, n)!AllEnqueued(b)
  PROVE  /\ Booked(B, x, ent) /\ FullIfReady(x) /\ GoesOnIn(sched, x)
         /\ InHand(B, sched) \subseteq InHand(B, x)
<1>1. PICK f : InTurn(B, n, b, f, Len(Recipients)) /\ x = f[Len(Recipients)]
  BY EnqueuedInTurn
<1>2. PICK N \in Nat : N = Len(Recipients) /\ DOMAIN Recipients = 1 .. N
  BY RecipientFacts
<1> DEFINE Good(i) == /\ Booked(B, f[i], ent) /\ FullIfReady(f[i]) /\ GoesOnIn(sched, f[i])
                      /\ InHand(B, sched) \subseteq InHand(B, f[i])
                      /\ \A t \in InHand(B, f[i]) : t[1] = b =>
                           \E j \in 1 .. i : t[2] = Recipients[j]
           S == {i \in Nat : i <= N => Good(i)}
<1>7. f[0] = sched /\ \A i \in 1 .. N : f[i] = Enter(B, n, b, f[i - 1], i)
  <2>1. f = [i \in 0 .. N |-> IF i = 0 THEN sched ELSE Enter(B, n, b, f[i - 1], i)]
    BY <1>1, <1>2 DEF InTurn
  <2>2. 0 \in 0 .. N /\ \A i \in 1 .. N : i \in 0 .. N /\ i # 0
    BY <1>2
  <2>3. \A i \in 0 .. N : f[i] = IF i = 0 THEN sched ELSE Enter(B, n, b, f[i - 1], i)
    BY <2>1
  <2> QED BY <2>2, <2>3
<1>3. 0 \in S
  <2>1. f[0] = sched
    BY <1>7
  <2> QED BY <2>1 DEF GoesOnIn
<1>4. ASSUME NEW i \in S
      PROVE  i + 1 \in S
  <2>1. i \in Nat /\ i + 1 \in Nat
    OBVIOUS
  <2>2. SUFFICES ASSUME i + 1 <= N
                 PROVE  Good(i + 1)
    BY <2>1
  <2>3. Good(i)
    BY <2>1, <2>2
  <2> HIDE DEF S
  <2> DEFINE r == Recipients[i + 1]
  <2>4. i + 1 \in 1 .. N /\ i + 1 \in 0 .. N /\ i + 1 # 0 /\ i + 1 - 1 = i
    BY <2>1, <2>2
  <2>5. f[i + 1] = Enter(B, n, b, f[i], i + 1)
    <3>1. PICK j : j = i + 1
      OBVIOUS
    <3>2. j \in 1 .. N /\ j - 1 = i
      BY <2>1, <2>4, <3>1
    <3>3. f[j] = Enter(B, n, b, f[j - 1], j)
      BY <1>7, <3>2
    <3> QED BY <3>1, <3>2, <3>3
  <2>6. r \in Receivers /\ <<b, r>> \in B \X Receivers /\ <<room.id, r>> \in Lanes
    BY <1>2, <2>4 DEF Receivers, Lanes
  <2>7. <<b, r>> \notin InHand(B, f[i])
    <3>1. \A j \in 1 .. i : j \in 1 .. N /\ j # i + 1
      BY <1>2, <2>1, <2>2
    <3>2. \A j \in 1 .. i : Recipients[j] # r
      BY <1>2, <2>4, <3>1, BatchBounds
    <3> QED BY <2>3, <3>2
  <2>8. PICK s, z, k, t : /\ s = f[i] /\ z = f[i + 1]
                          /\ k = <<room.id, r>> /\ t = <<b, r>>
    OBVIOUS
  <2>9. /\ z = Sending(B, n)!Enqueued(s, k, t)
        /\ k \in Lanes /\ t \in B \X Receivers /\ k = <<ent[t[1]].room, t[2]>>
        /\ t \notin InHand(B, s)
        /\ Booked(B, s, ent) /\ FullIfReady(s)
    BY <2>3, <2>5, <2>6, <2>7, <2>8 DEF Enter
  <2>10. /\ Booked(B, z, ent) /\ FullIfReady(z) /\ GoesOnIn(s, z)
         /\ InHand(B, s) \subseteq InHand(B, z)
         /\ InHand(B, z) \subseteq InHand(B, s) \cup {t}
    <3>1. k \in Lanes
      BY <2>9
    <3>2. t \in B \X Receivers
      BY <2>9
    <3>3. k = <<ent[t[1]].room, t[2]>>
      BY <2>9
    <3>4. Booked(B, s, ent) /\ FullIfReady(s) /\ t \notin InHand(B, s)
      BY <2>9
    <3>5. z = Sending(B, n)!Enqueued(s, k, t)
      BY <2>9
    <3> HIDE DEF Good
    <3> QED BY <3>1, <3>2, <3>3, <3>4, <3>5, EnqueueBooked
  <2>11. GoesOnIn(sched, z)
    BY <2>3, <2>8, <2>10 DEF GoesOnIn
  <2>12. ASSUME NEW u \in InHand(B, z), u[1] = b
         PROVE  \E j \in 1 .. i + 1 : u[2] = Recipients[j]
    <3>1. CASE u \in InHand(B, s)
      <4>1. PICK j \in 1 .. i : u[2] = Recipients[j]
        BY <2>3, <2>8, <2>12, <3>1
      <4>2. j \in 1 .. i + 1
        BY <2>1
      <4> QED BY <4>1, <4>2
    <3>2. CASE u = t
      <4>1. i + 1 \in 1 .. i + 1 /\ u[2] = Recipients[i + 1]
        BY <2>1, <2>8, <3>2
      <4> QED BY <4>1
    <3> QED BY <2>10, <2>12, <3>1, <3>2
  <2>13. InHand(B, sched) \subseteq InHand(B, z)
    BY <2>3, <2>8, <2>10
  <2> QED BY <2>8, <2>10, <2>11, <2>12, <2>13
<1>5. N \in S
  <2>1. S \subseteq Nat
    OBVIOUS
  <2> HIDE DEF S
  <2>2. S = Nat
    BY <1>3, <1>4, <2>1, Inductive
  <2> QED BY <2>2
<1>6. Good(N)
  BY <1>5
<1> QED BY <1>1, <1>2, <1>6

\* The books do not depend on the entries but for the room of a batch in hand.
LEMMA BookedElse ==
  ASSUME NEW B, NEW s, NEW ent, NEW alt, Booked(B, s, ent),
         \A t \in InHand(B, s) : alt[t[1]].room = ent[t[1]].room
  PROVE  Booked(B, s, alt)
<1>1. \A k \in Lanes : LaneFits(B, k, s.lanes[k], ent)
  BY DEF Booked
<1>2. \A k \in Lanes, t \in B \X Receivers : Has(s.lanes[k], t) => t \in InHand(B, s)
  BY DEF InHand
<1>3. ASSUME NEW k \in Lanes
      PROVE  LaneFits(B, k, s.lanes[k], alt)
  <2>1. \A t \in B \X Receivers : Has(s.lanes[k], t) => k = <<alt[t[1]].room, t[2]>>
    BY <1>1, <1>2 DEF LaneFits
  <2> QED BY <1>1, <2>1 DEF LaneFits
<1> QED BY <1>3 DEF Booked

LEMMA InHandElse ==
  ASSUME NEW B, NEW s, NEW ent, Booked(B, s, ent), NEW t \in InHand(B, s)
  PROVE  ent[t[1]].room \in 1 .. MaxRoom
<1>1. PICK k \in Lanes : Has(s.lanes[k], t) /\ t \in B \X Receivers
  BY DEF InHand
<1>2. k = <<ent[t[1]].room, t[2]>>
  BY <1>1 DEF Booked, LaneFits
<1> QED BY <1>2 DEF Lanes

\* A task that has begun and is not over runs in its lane.
Working == {"ticket", "dialing", "magic", "offered", "sending", "cut", "over"}
Runs(s, t) == \E k \in Lanes : s.lanes[k].task = t

SchedInv(B) ==
  /\ Booked(B, sched, entry)
  /\ FullIfReady(sched)
  /\ room.id \in 1 .. MaxRoom
  /\ \A t \in B \X Receivers : phase[t] \in Working => Runs(sched, t)

LEMMA SchedNext ==
  ASSUME NEW CONSTANT B, Booked(B, sched', entry'), FullIfReady(sched'),
         room'.id \in 1 .. MaxRoom,
         \A t \in B \X Receivers : phase'[t] \in Working => Runs(sched', t)
  PROVE  SchedInv(B)'
BY DEF SchedInv, Booked, SchedRecord, LaneRecord, LaneFits, ReadyFits, InHand, BusyLanes, Has, Queues, FullIfReady, Runs, Working, Lanes, Receivers

\* A step that leaves the lanes, the room and the rooms of the batches.
LEMMA LanesKept ==
  ASSUME NEW CONSTANT B, SchedInv(B), sched' = sched, room'.id = room.id,
         \A b \in B : entry'[b].room = entry[b].room,
         \A t \in B \X Receivers : phase'[t] \in Working => phase[t] \in Working
  PROVE  SchedInv(B)'
<1>1. Booked(B, sched, entry) /\ InHand(B, sched) \subseteq B \X Receivers
  BY DEF SchedInv, InHand
<1>2. \A t \in InHand(B, sched) : entry'[t[1]].room = entry[t[1]].room
  BY <1>1
<1>3. Booked(B, sched, entry')
  BY <1>1, <1>2, BookedElse
<1>4. \A t \in B \X Receivers : phase'[t] \in Working => Runs(sched, t)
  BY DEF SchedInv
<1>5. /\ Booked(B, sched', entry') /\ FullIfReady(sched') /\ room'.id \in 1 .. MaxRoom
      /\ \A t \in B \X Receivers : phase'[t] \in Working => Runs(sched', t)
  BY <1>3, <1>4 DEF SchedInv
<1> QED BY <1>5, SchedNext

LEMMA SchedulerKept ==
  ASSUME NEW CONSTANT B, NEW CONSTANT n, NEW s, NEW ent, NEW ph, NEW rejected,
         Sending(B, n)!Scheduled(s, ent, ph, rejected), entry' = ent,
         Booked(B, s, ent), FullIfReady(s), room'.id \in 1 .. MaxRoom,
         \A t \in B \X Receivers : ph[t] \in Working => Runs(s, t)
  PROVE  SchedInv(B)'
<1>1. PICK On : TRUE /\ \E begun :
        /\ sched' = s
        /\ phase' = [t \in Sending(B, n)!Task |->
                       IF t \in begun THEN On[t] ELSE IF t \in rejected THEN "settled" ELSE ph[t]]
        /\ begun \subseteq Sending(B, n)!Running(s)
  <2> DEFINE begun == Sending(B, n)!Running(s) \ Sending(B, n)!Running(sched)
             On(t) == Sending(B, n)!GoOn(t, ent[t[1]], 1, status[t]).phase
  <2>1. /\ sched' = s
        /\ phase' = [t \in Sending(B, n)!Task |->
                       IF t \in begun THEN On(t) ELSE IF t \in rejected THEN "settled" ELSE ph[t]]
    BY DEF Sending!Scheduled
  <2> HIDE DEF On
  <2> DEFINE F == [t \in Sending(B, n)!Task |-> On(t)]
  <2>2. \A t \in Sending(B, n)!Task : F[t] = On(t)
    OBVIOUS
  <2>3. begun \subseteq Sending(B, n)!Running(s)
    OBVIOUS
  <2> HIDE DEF F, begun
  <2>4. phase' = [t \in Sending(B, n)!Task |->
                    IF t \in begun THEN F[t] ELSE IF t \in rejected THEN "settled" ELSE ph[t]]
    BY <2>1, <2>2
  <2> QED BY <2>1, <2>3, <2>4
<1>2. PICK begun :
        /\ sched' = s
        /\ phase' = [t \in Sending(B, n)!Task |->
                       IF t \in begun THEN On[t] ELSE IF t \in rejected THEN "settled" ELSE ph[t]]
        /\ begun \subseteq Sending(B, n)!Running(s)
  BY <1>1
<1>3. Sending(B, n)!Task = B \X Receivers /\ Sending(B, n)!Key = Lanes
  BY DEF Sending!Task, Sending!Key, Sending!Member, Lanes, Receivers
<1>4. \A t \in begun : Runs(s, t)
  BY <1>2, <1>3 DEF Sending!Running, Runs
<1>5. \A t \in B \X Receivers : phase'[t] \in Working => Runs(s, t)
  BY <1>2, <1>3, <1>4 DEF Working
<1>6. /\ Booked(B, sched', entry') /\ FullIfReady(sched')
      /\ \A t \in B \X Receivers : phase'[t] \in Working => Runs(sched', t)
  BY <1>2, <1>5
<1> QED BY <1>6, SchedNext

LEMMA SchedStarts ==
  ASSUME NEW CONSTANT B, NEW CONSTANT n, Sending(B, n)!Init
  PROVE  SchedInv(B)
<1> DEFINE none == [exists |-> FALSE, task |-> <<>>, queue |-> <<>>]
<1>1. /\ sched = [lanes |-> [k \in Lanes |-> none], ready |-> <<>>, active |-> 0, pending |-> 0]
      /\ room.id = 1
      /\ \A t \in B \X Receivers : phase[t] = "none"
  BY DEF Sending!Init, Sending!Key, Sending!Member, Sending!NoLane, Sending!NoTask,
         Sending!Task, Lanes, Receivers
<1>2. /\ \A k \in Lanes : LaneFits(B, k, none, entry)
      /\ \A t \in B \X Receivers : ~Has(none, t)
      /\ ~none.exists /\ none.task = <<>>
  BY EmptyLane
<1> HIDE DEF none
<1>3. /\ sched.lanes = [k \in Lanes |-> none] /\ sched.ready = <<>> /\ sched.active = 0
      /\ sched.pending = 0
  BY <1>1
<1>4. InHand(B, sched) = {} /\ BusyLanes(sched) = {}
  BY <1>2, <1>3 DEF InHand, BusyLanes
<1>5. sched \in SchedRecord(B)
  <2>1. <<>> \in Seq(Lanes) /\ 0 \in 0 .. Maximum /\ 0 \in 0 .. MaximumPending
    BY EmptySeq, BatchBounds
  <2>2. [k \in Lanes |-> none] \in [Lanes -> LaneRecord(B)]
    BY <1>2 DEF LaneFits
  <2> QED BY <1>1, <2>1, <2>2 DEF SchedRecord
<1>6. Booked(B, sched, entry)
  BY <1>2, <1>3, <1>4, <1>5, FS_EmptySet DEF Booked, ReadyFits
<1> QED BY <1>1, <1>3, <1>6, BatchBounds DEF SchedInv, FullIfReady, Working

LEMMA CutWorks ==
  ASSUME NEW CONSTANT B, NEW CONSTANT n, NEW tasks, NEW t \in B \X Receivers,
         Sending(B, n)!Cut(tasks)[t] \in Working
  PROVE  phase[t] \in Working
<1>1. Sending(B, n)!Task = B \X Receivers
  BY DEF Sending!Task, Sending!Member, Receivers
<1> QED BY <1>1 DEF Sending!Cut, Sending!OnWire, Working

LEMMA SchedStep ==
  ASSUME NEW CONSTANT B, NEW CONSTANT n, IsFiniteSet(B),
         SchedTyped(B, n), SchedInv(B), Sending(B, n)!Next
  PROVE  SchedInv(B)'
<1>1. Sending(B, n)!Task = B \X Receivers /\ Sending(B, n)!Member = Receivers
  BY DEF Sending!Task, Sending!Member, Receivers
<1>2. /\ phase \in [B \X Receivers -> {"none", "waiting", "ticket", "dialing", "magic",
                                       "offered", "sending", "cut", "over", "settled"}]
      /\ room \in [id : Nat, open : BOOLEAN, gen : Nat]
      /\ entry \in [B -> [room : Nat, gen : Nat, listed : BOOLEAN,
                          cancelled : SUBSET (1 .. n), invalid : SUBSET Receivers]]
  BY <1>1 DEF SchedTyped
<1>3. /\ Booked(B, sched, entry) /\ FullIfReady(sched) /\ room.id \in 1 .. MaxRoom
      /\ \A t \in B \X Receivers : phase[t] \in Working => Runs(sched, t)
  BY DEF SchedInv
<1>4. ASSUME NEW t \in B \X Receivers, phase[t] \in Working,
             sched' = sched, room' = room, entry' = entry,
             NEW to, phase' = [phase EXCEPT ![t] = to]
      PROVE  SchedInv(B)'
  <2>1. \A u \in B \X Receivers : phase'[u] \in Working => phase[u] \in Working
    BY <1>2, <1>4
  <2> QED BY <1>4, <2>1, LanesKept
<1>5. ASSUME NEW t \in B \X Receivers, Sending(B, n)!Granted(t)
      PROVE  SchedInv(B)'
  BY <1>4, <1>5 DEF Sending!Granted, Sending!Proceed, Working
<1>6. ASSUME NEW t \in B \X Receivers, Sending(B, n)!Offer(t)
      PROVE  SchedInv(B)'
  BY <1>4, <1>6 DEF Sending!Offer, Working
<1>20. ASSUME NEW t \in B \X Receivers, Sending(B, n)!Dialled(t)
       PROVE  SchedInv(B)'
  BY <1>4, <1>20 DEF Sending!Dialled, Sending!Proceed, Working
<1>7. ASSUME NEW t \in B \X Receivers, Sending(B, n)!Accepted(t)
      PROVE  SchedInv(B)'
  BY <1>4, <1>7 DEF Sending!Accepted, Working
<1>8. ASSUME NEW t \in B \X Receivers, NEW st, phase[t] \in Working, Sending(B, n)!FileEnds(t, st)
      PROVE  SchedInv(B)'
  <2>1. /\ \E to : phase' = [phase EXCEPT ![t] = to]
        /\ sched' = sched /\ room' = room /\ entry' = entry
    BY <1>8 DEF Sending!FileEnds
  <2> QED BY <1>4, <1>8, <2>1
<1>9. ASSUME NEW t \in B \X Receivers,
             Sending(B, n)!Rejected(t) \/ Sending(B, n)!Done(t) \/ Sending(B, n)!Fails(t)
      PROVE  SchedInv(B)'
  <2>1. phase[t] \in Working /\ \E st : Sending(B, n)!FileEnds(t, st)
    BY <1>9 DEF Sending!Rejected, Sending!Done, Sending!Fails, Working
  <2> QED BY <1>8, <2>1
<1>10. ASSUME NEW t \in B \X Receivers, Sending(B, n)!TaskSettles(t)
       PROVE  SchedInv(B)'
  <2> DEFINE k == <<entry[t[1]].room, t[2]>>
             ph == [phase EXCEPT ![t] = "settled"]
  <2>1. PICK x : /\ x = Sending(B, n)!TaskOver(sched, k)
                 /\ Sending(B, n)!Scheduled(x, entry, ph, {})
                 /\ phase[t] = "over" /\ room' = room /\ entry' = entry
    BY <1>10 DEF Sending!TaskSettles, Sending!LaneOf
  <2>2. k \in Lanes /\ sched.lanes[k].task = t
    <3>1. PICK j \in Lanes : sched.lanes[j].task = t
      BY <1>3, <2>1 DEF Working, Runs
    <3>2. j = <<entry[t[1]].room, t[2]>>
      BY <1>3, <3>1 DEF Booked, LaneFits, Has
    <3> QED BY <3>1, <3>2
  <2>3. PICK s : s = sched
    OBVIOUS
  <2>4. Booked(B, x, entry) /\ FullIfReady(x) /\ OthersGoOn(s, x, t)
    <3> HIDE DEF k
    <3> QED BY <1>3, <2>1, <2>2, <2>3, SettleBooked
  <2>5. \A u \in B \X Receivers : ph[u] \in Working => Runs(x, u)
    <3>1. ASSUME NEW u \in B \X Receivers, ph[u] \in Working
          PROVE  Runs(x, u)
      <4>1. u # t /\ phase[u] \in Working
        BY <1>2, <3>1 DEF Working
      <4>2. PICK j \in Lanes : s.lanes[j].task = u
        BY <1>3, <2>3, <4>1 DEF Runs
      <4>3. x.lanes[j].task = u
        BY <2>4, <4>1, <4>2, TaskIsNone DEF OthersGoOn
      <4> QED BY <4>3 DEF Runs
    <3> QED BY <3>1
  <2>6. room'.id \in 1 .. MaxRoom
    BY <1>3, <2>1
  <2> HIDE DEF k, ph
  <2> QED BY <2>1, <2>4, <2>5, <2>6, SchedulerKept
<1>11. ASSUME NEW b \in B, Sending(B, n)!EnqueueGroupFiles(b)
       PROVE  SchedInv(B)'
  <2> DEFINE fresh == [Sending(B, n)!NoEntry EXCEPT !.room = room.id, !.gen = room.gen,
                                                    !.listed = TRUE]
             ent == [entry EXCEPT ![b] = fresh]
  <2>1. /\ room' = room /\ entry' = ent /\ entry[b] = Sending(B, n)!NoEntry
        /\ \E kept, rejected :
             Sending(B, n)!Scheduled(Sending(B, n)!AllEnqueued(b), ent,
               [t \in Sending(B, n)!Task |-> IF t \in kept THEN "waiting" ELSE phase[t]],
               rejected)
    BY <1>11 DEF Sending!EnqueueGroupFiles
  <2>2. fresh.room = room.id /\ entry[b].room = 0
    BY <2>1 DEF Sending!NoEntry
  <2>3. ent[b].room = room.id /\ \A c \in B : c # b => ent[c] = entry[c]
    BY <1>2, <2>2
  <2> HIDE DEF ent
  <2>4. \A t \in InHand(B, sched) : t \in B \X Receivers /\ t[1] # b
    <3>1. \A t \in InHand(B, sched) : entry[t[1]].room \in 1 .. MaxRoom
      BY <1>3, InHandElse
    <3> QED BY <2>2, <3>1 DEF InHand
  <2>5. Booked(B, sched, ent)
    <3>1. \A t \in InHand(B, sched) : ent[t[1]].room = entry[t[1]].room
      BY <2>3, <2>4
    <3> QED BY <1>3, <3>1, BookedElse
  <2>6. PICK x : x = Sending(B, n)!AllEnqueued(b)
    OBVIOUS
  <2>7. PICK kept, rejected :
          Sending(B, n)!Scheduled(x, ent,
            [t \in Sending(B, n)!Task |-> IF t \in kept THEN "waiting" ELSE phase[t]], rejected)
    BY <2>1, <2>6
  <2>8. Booked(B, x, ent) /\ FullIfReady(x) /\ GoesOnIn(sched, x)
    BY <1>3, <2>3, <2>4, <2>5, <2>6, BatchBooked
  <2> DEFINE ph == [t \in Sending(B, n)!Task |-> IF t \in kept THEN "waiting" ELSE phase[t]]
  <2>9. \A u \in B \X Receivers : ph[u] \in Working => Runs(x, u)
    <3>1. ASSUME NEW u \in B \X Receivers, ph[u] \in Working
          PROVE  Runs(x, u)
      <4>1. phase[u] \in Working
        BY <1>1, <3>1 DEF Working
      <4>2. PICK j \in Lanes : sched.lanes[j].task = u
        BY <1>3, <4>1 DEF Runs
      <4>3. x.lanes[j].task = u
        BY <2>8, <4>2, TaskIsNone DEF GoesOnIn
      <4> QED BY <4>3 DEF Runs
    <3> QED BY <3>1
  <2>10. room'.id \in 1 .. MaxRoom
    BY <1>3, <2>1
  <2>11. Sending(B, n)!Scheduled(x, ent, ph, rejected)
    BY <2>7
  <2> HIDE DEF ph
  <2> QED BY <2>1, <2>8, <2>9, <2>10, <2>11, SchedulerKept
<1>12. ASSUME NEW ent, \A b \in B : ent[b].room = entry[b].room,
              NEW ph, \A t \in B \X Receivers : ph[t] \in Working => phase[t] \in Working,
              Sending(B, n)!StopWaiting(ent, ph), room'.id \in 1 .. MaxRoom
       PROVE  SchedInv(B)'
  <2>1. PICK x, rejected :
          /\ x = Sending(B, n)!CancelScope(sched, room.id)
          /\ Sending(B, n)!Scheduled(x, ent, ph, rejected)
          /\ entry' = ent
    BY <1>12 DEF Sending!StopWaiting
  <2>2. PICK s, i : s = sched /\ i = room.id
    OBVIOUS
  <2>3. Booked(B, x, entry) /\ FullIfReady(x) /\ GoesOnIn(s, x)
    BY <1>3, <2>1, <2>2, CancelBooked
  <2>4. Booked(B, x, ent)
    <3>1. \A t \in InHand(B, x) : ent[t[1]].room = entry[t[1]].room
      BY <1>12 DEF InHand
    <3> QED BY <2>3, <3>1, BookedElse
  <2>5. \A u \in B \X Receivers : ph[u] \in Working => Runs(x, u)
    <3>1. ASSUME NEW u \in B \X Receivers, ph[u] \in Working
          PROVE  Runs(x, u)
      <4>1. PICK j \in Lanes : s.lanes[j].task = u
        BY <1>3, <1>12, <2>2, <3>1 DEF Runs
      <4>2. x.lanes[j].task = u
        BY <2>3, <4>1, TaskIsNone DEF GoesOnIn
      <4> QED BY <4>2 DEF Runs
    <3> QED BY <3>1
  <2> QED BY <1>12, <2>1, <2>3, <2>4, <2>5, SchedulerKept
<1>13. ASSUME Sending(B, n)!PauseRoom
       PROVE  SchedInv(B)'
  <2>1. /\ Sending(B, n)!StopWaiting(entry, phase)
        /\ room' = [room EXCEPT !.open = FALSE, !.gen = @ + 1]
    BY <1>13 DEF Sending!PauseRoom
  <2>2. room'.id = room.id
    BY <1>2, <2>1
  <2> QED BY <1>3, <1>12, <2>1, <2>2
<1>14. ASSUME Sending(B, n)!CloseRoom
       PROVE  SchedInv(B)'
  <2> DEFINE ent == [b \in B |-> IF entry[b].listed
                                 THEN [entry[b] EXCEPT !.cancelled = Sending(B, n)!FileNo]
                                 ELSE entry[b]]
             ph == Sending(B, n)!Cut(Sending(B, n)!Task)
  <2>1. /\ Sending(B, n)!StopWaiting(ent, ph) /\ room.id < MaxRoom
        /\ room'.id = room.id + 1
    BY <1>14 DEF Sending!CloseRoom
  <2>2. \A b \in B : ent[b].room = entry[b].room
    BY <1>2
  <2>3. room'.id \in 1 .. MaxRoom
    BY <1>3, <2>1, BatchBounds
  <2>4. \A t \in B \X Receivers : ph[t] \in Working => phase[t] \in Working
    BY CutWorks
  <2> HIDE DEF ent, ph
  <2> QED BY <1>12, <2>1, <2>2, <2>3, <2>4
<1>15. ASSUME sched' = sched, room'.id = room.id,
              phase' = phase \/ \E tasks : phase' = Sending(B, n)!Cut(tasks),
              \A b \in B : entry'[b].room = entry[b].room
       PROVE  SchedInv(B)'
  <2>1. \A t \in B \X Receivers : phase'[t] \in Working => phase[t] \in Working
    BY <1>15, CutWorks
  <2> QED BY <1>15, <2>1, LanesKept
<1>16. ASSUME NEW b \in B, Sending(B, n)!BatchEnds(b)
       PROVE  SchedInv(B)'
  <2>1. /\ entry' = [entry EXCEPT ![b].listed = FALSE]
        /\ sched' = sched /\ phase' = phase /\ room' = room
    BY <1>16 DEF Sending!BatchEnds
  <2>2. \A c \in B : entry'[c].room = entry[c].room
    BY <1>2, <2>1
  <2> QED BY <1>15, <2>1, <2>2
<1>17. ASSUME NEW r \in Receivers, Sending(B, n)!RevokeMember(r)
       PROVE  SchedInv(B)'
  <2>1. /\ entry' = [b \in B |-> IF entry[b].listed
                                 THEN [entry[b] EXCEPT !.invalid = @ \cup {r}]
                                 ELSE entry[b]]
        /\ sched' = sched /\ room' = room
        /\ \E tasks : phase' = Sending(B, n)!Cut(tasks)
    BY <1>17 DEF Sending!RevokeMember
  <2>2. \A c \in B : entry'[c].room = entry[c].room
    BY <1>2, <2>1
  <2> QED BY <1>15, <2>1, <2>2
<1>18. ASSUME NEW b \in B, NEW f, Sending(B, n)!CancelFile(b, f)
       PROVE  SchedInv(B)'
  <2>1. /\ entry' = [entry EXCEPT ![b].cancelled = @ \cup {f}]
        /\ sched' = sched /\ room' = room
        /\ \E tasks : phase' = Sending(B, n)!Cut(tasks)
    BY <1>18 DEF Sending!CancelFile
  <2>2. \A c \in B : entry'[c].room = entry[c].room
    BY <1>2, <2>1
  <2> QED BY <1>15, <2>1, <2>2
<1>19. ASSUME Sending(B, n)!ResumeRoom
       PROVE  SchedInv(B)'
  <2>1. /\ room' = [room EXCEPT !.open = TRUE]
        /\ sched' = sched /\ phase' = phase /\ entry' = entry
    BY <1>19 DEF Sending!ResumeRoom
  <2>2. room'.id = room.id
    BY <1>2, <2>1
  <2> QED BY <1>15, <2>1, <2>2
<1> QED
  BY <1>1, <1>5, <1>6, <1>7, <1>9, <1>10, <1>11, <1>13, <1>14, <1>16, <1>17, <1>18, <1>19,
     <1>20 DEF Sending!Next

LEMMA SchedPromise ==
  ASSUME NEW CONSTANT B, NEW CONSTANT n, IsFiniteSet(B), SchedInv(B)
  PROVE  Sending(B, n)!CountersHonest /\ Sending(B, n)!NoIdleSlot
<1>1. Sending(B, n)!Key = Lanes
  BY DEF Sending!Key, Sending!Member, Lanes, Receivers
<1>2. PICK R : R = Sending(B, n)!Running(sched)
  OBVIOUS
<1>3. PICK W : W = UNION {Sending(B, n)!Waiting(sched, i) : i \in 1 .. MaxRoom}
  OBVIOUS
<1>4. /\ Booked(B, sched, entry) /\ FullIfReady(sched) /\ sched \in SchedRecord(B)
      /\ \A k \in Lanes : LaneFits(B, k, sched.lanes[k], entry)
  BY DEF SchedInv, Booked
<1>5. \A t : t \in R <=> \E k \in BusyLanes(sched) : sched.lanes[k].task = t
  BY <1>1, <1>2 DEF Sending!Running, Sending!NoTask, BusyLanes
<1>6. \A t : t \in W <=> \E k \in Lanes : Queues(sched.lanes[k], t)
  <2> DEFINE Q(i, r) == sched.lanes[<<i, r>>].queue
  <2>1. \A i \in 1 .. MaxRoom, r \in Receivers :
          <<i, r>> \in Lanes /\ DOMAIN Q(i, r) = 1 .. Len(Q(i, r))
    <3>1. ASSUME NEW i \in 1 .. MaxRoom, NEW r \in Receivers
          PROVE  <<i, r>> \in Lanes /\ DOMAIN Q(i, r) = 1 .. Len(Q(i, r))
      <4>1. <<i, r>> \in Lanes
        BY DEF Lanes
      <4>2. sched.lanes[<<i, r>>] \in LaneRecord(B)
        BY <1>4, <4>1 DEF LaneFits
      <4> QED BY <4>1, <4>2 DEF LaneRecord
    <3> QED BY <3>1
  <2>2. \A i : Sending(B, n)!Waiting(sched, i) =
                 UNION {{Q(i, r)[j] : j \in DOMAIN Q(i, r)} : r \in Receivers}
    BY DEF Sending!Waiting, Sending!Member, Receivers
  <2>3. \A i \in 1 .. MaxRoom, r \in Receivers : \A t :
          Queues(sched.lanes[<<i, r>>], t) <=> \E j \in DOMAIN Q(i, r) : Q(i, r)[j] = t
    BY <2>1 DEF Queues
  <2> HIDE DEF Q
  <2>4. \A i \in 1 .. MaxRoom : \A t :
          t \in Sending(B, n)!Waiting(sched, i) <=>
            \E r \in Receivers : \E j \in DOMAIN Q(i, r) : Q(i, r)[j] = t
    BY <2>2
  <2>5. \A i \in 1 .. MaxRoom : \A t :
          t \in Sending(B, n)!Waiting(sched, i) <=>
            \E r \in Receivers : Queues(sched.lanes[<<i, r>>], t)
    <3>1. ASSUME NEW i \in 1 .. MaxRoom, NEW t
          PROVE  (\E r \in Receivers : \E j \in DOMAIN Q(i, r) : Q(i, r)[j] = t) <=>
                 (\E r \in Receivers : Queues(sched.lanes[<<i, r>>], t))
      <4>1. \A r \in Receivers :
              Queues(sched.lanes[<<i, r>>], t) <=> \E j \in DOMAIN Q(i, r) : Q(i, r)[j] = t
        BY <2>3
      <4> QED BY <4>1, Zenon
    <3>2. ASSUME NEW i \in 1 .. MaxRoom, NEW t
          PROVE  t \in Sending(B, n)!Waiting(sched, i) <=>
                 (\E r \in Receivers : Queues(sched.lanes[<<i, r>>], t))
      <4>1. t \in Sending(B, n)!Waiting(sched, i) <=>
              \E r \in Receivers : \E j \in DOMAIN Q(i, r) : Q(i, r)[j] = t
        BY <2>4
      <4> QED BY <3>1, <4>1
    <3> QED BY <3>2
  <2>6. \A t : t \in W <=> \E i \in 1 .. MaxRoom : t \in Sending(B, n)!Waiting(sched, i)
    BY <1>3
  <2>7. \A k \in Lanes : \E i \in 1 .. MaxRoom, r \in Receivers : k = <<i, r>>
    BY DEF Lanes
  <2>8. \A i \in 1 .. MaxRoom, r \in Receivers : <<i, r>> \in Lanes
    BY DEF Lanes
  <2> QED BY <2>5, <2>6, <2>7, <2>8
<1>7. R \subseteq InHand(B, sched) /\ W \subseteq InHand(B, sched)
      /\ InHand(B, sched) \subseteq R \cup W
  <2>1. ASSUME NEW t \in R
        PROVE  t \in InHand(B, sched)
    <3>1. PICK k \in Lanes : sched.lanes[k].task = t /\ t # <<>>
      BY <1>5, <2>1 DEF BusyLanes
    <3>2. t \in B \X Receivers
      BY <1>4, <3>1 DEF LaneFits, LaneRecord
    <3> QED BY <3>1, <3>2 DEF InHand, Has
  <2>2. ASSUME NEW t \in W
        PROVE  t \in InHand(B, sched)
    <3>1. PICK k \in Lanes : Queues(sched.lanes[k], t)
      BY <1>6, <2>2
    <3>2. sched.lanes[k].queue \in Seq(B \X Receivers)
      BY <1>4 DEF LaneFits, LaneRecord
    <3>3. t \in B \X Receivers
      BY <3>1, <3>2, ElementOfSeq DEF Queues
    <3> QED BY <3>1, <3>3 DEF InHand, Has
  <2>3. ASSUME NEW t \in InHand(B, sched)
        PROVE  t \in R \cup W
    BY <1>5, <1>6, TaskIsNone DEF InHand, Has, BusyLanes
  <2> QED BY <2>1, <2>2, <2>3
<1>8. R \cap W = {}
  <2>1. ASSUME NEW t \in R, t \in W
        PROVE  FALSE
    <3>1. PICK j \in Lanes : sched.lanes[j].task = t
      BY <1>5 DEF BusyLanes
    <3>2. PICK k \in Lanes : Queues(sched.lanes[k], t)
      BY <1>6, <2>1
    <3>3. t \in B \X Receivers
      BY <1>7 DEF InHand
    <3>4. j = k
      BY <1>4, <3>1, <3>2, <3>3, OnlyLane DEF Has
    <3> QED BY <1>4, <3>1, <3>2, <3>4 DEF LaneFits, Queues
  <2> QED BY <2>1
<1>9. IsFiniteSet(R) /\ Cardinality(R) = Cardinality(BusyLanes(sched))
  <2> DEFINE f == [k \in BusyLanes(sched) |-> sched.lanes[k].task]
  <2>1. f \in [BusyLanes(sched) -> R] /\ \A t \in R : \E k \in BusyLanes(sched) : f[k] = t
    BY <1>5
  <2>2. ASSUME NEW j \in BusyLanes(sched), NEW k \in BusyLanes(sched), f[j] = f[k]
        PROVE  j = k
    <3>1. f[j] \in B \X Receivers /\ j \in Lanes /\ k \in Lanes
      BY <1>7, <2>1 DEF InHand, BusyLanes
    <3>2. sched.lanes[j].task = f[j] /\ sched.lanes[k].task = f[j]
      BY <2>2
    <3> HIDE DEF f
    <3> QED BY <1>4, <3>1, <3>2, OnlyLane DEF Has
  <2> HIDE DEF f
  <2>3. f \in Surjection(BusyLanes(sched), R) /\ f \in Injection(BusyLanes(sched), R)
    BY <2>1, <2>2 DEF Surjection, Injection, IsInjective
  <2> QED BY <2>3, HandFinite, FS_Surjection
<1>10. IsFiniteSet(W)
  BY <1>7, HandFinite, FS_Subset
<1>11. Cardinality(R \cup W) = Cardinality(R) + Cardinality(W) - 0
  BY <1>8, <1>9, <1>10, FS_Union, FS_EmptySet
<1>12. R \cup W = InHand(B, sched)
  BY <1>7
<1>13. Cardinality(R) \in Nat /\ Cardinality(W) \in Nat
  BY <1>9, <1>10, FS_CardinalityType
<1>14. /\ sched.active = Cardinality(R) /\ sched.active <= Maximum
       /\ sched.pending = sched.active + Cardinality(W)
  <2>1. sched.active = Cardinality(R) /\ sched.active \in 0 .. Maximum
    BY <1>4, <1>9 DEF Booked, SchedRecord
  <2>2. sched.pending = Cardinality(R) + Cardinality(W)
    <3>1. sched.pending = Cardinality(InHand(B, sched))
      BY <1>4 DEF Booked
    <3>2. Cardinality(InHand(B, sched)) = Cardinality(R) + Cardinality(W) - 0
      BY <1>11, <1>12
    <3> QED BY <1>13, <3>1, <3>2
  <2> QED BY <2>1, <2>2, BatchBounds
<1>15. Sending(B, n)!CountersHonest
  <2>1. \A T : Sending(B, n)!Cardinality(T) = Cardinality(T)
    BY DEF Sending!Cardinality, Cardinality
  <2> QED BY <1>2, <1>3, <1>14, <2>1 DEF Sending!CountersHonest
<1>16. Sending(B, n)!NoIdleSlot
  <2>1. ASSUME NEW k \in Lanes, sched.lanes[k].queue # <<>>, sched.lanes[k].task = <<>>
        PROVE  sched.active = Maximum
    <3>1. sched.lanes[k].exists
      BY <1>4, <2>1 DEF LaneFits
    <3>2. PICK i \in 1 .. Len(sched.ready) : sched.ready[i] = k
      BY <1>4, <2>1, <3>1 DEF Booked, ReadyFits
    <3>3. sched.ready # <<>>
      <4>1. Len(<<>>) = 0
        BY EmptySeq
      <4> QED BY <3>2, <4>1
    <3> QED BY <1>4, <3>3 DEF FullIfReady
  <2> QED BY <1>1, <2>1 DEF Sending!NoIdleSlot, Sending!NoTask
<1> QED BY <1>15, <1>16

-----------------------------------------------------------------------------
(* What the parts keep count of.                                           *)

QueueBooksInv == part = "queue" => QueueInv /\ QueueBooks

LEMMA QueueBooksHold == Spec => []QueueBooksInv
<1> DEFINE Before == part = "queue" => QueueInv
           Books == part = "queue" => QueueBooks
<1>1. Init => Books
  BY QueueBooksStart DEF Init
<1>2. Before /\ Books /\ [Next]_vars => Books'
  <2> SUFFICES ASSUME Before, Books, [Next]_vars, part' = "queue"
               PROVE  QueueBooks'
    OBVIOUS
  <2>1. part = "queue" /\ (Queue!Next \/ UNCHANGED queueVars)
    BY DEF Next, vars, streamVars
  <2> QED BY <2>1, QueueBooksStep, QueueBooksStutter
<1>3. Before /\ Books => QueueBooksInv
  BY DEF QueueBooksInv
<1> HIDE DEF Books
<1> QED BY <1>1, <1>2, <1>3, QueueHolds, PTL DEF Spec

BeatHoldsInv == part = "heartbeat" => BeatInv

LEMMA BeatHolds == Spec => []BeatHoldsInv
<1>1. Init => BeatHoldsInv
  BY BeatStarts DEF Init, BeatHoldsInv
<1>2. BeatHoldsInv /\ [Next]_vars => BeatHoldsInv'
  <2> SUFFICES ASSUME BeatHoldsInv, [Next]_vars, part' = "heartbeat"
               PROVE  BeatInv'
    BY DEF BeatHoldsInv
  <2>1. part = "heartbeat" /\ (Beat!Next \/ UNCHANGED beatVars)
    BY DEF Next, vars, streamVars
  <2> QED BY <2>1, BeatStep, BeatStutter DEF BeatHoldsInv
<1> QED BY <1>1, <1>2, PTL DEF Spec

SchedulersInv == /\ part = "batches" => SchedInv({x1, x2})
                 /\ part = "files" => SchedInv({x1})

LEMMA BatchesFinite == IsFiniteSet({x1, x2}) /\ IsFiniteSet({x1})
<1>1. IsFiniteSet({x1})
  BY FS_Singleton
<1>2. IsFiniteSet({x1} \cup {x2})
  BY <1>1, FS_AddElement
<1>3. {x1} \cup {x2} = {x1, x2}
  OBVIOUS
<1> QED BY <1>1, <1>2, <1>3

LEMMA SchedStutter ==
  ASSUME NEW CONSTANT B, SchedInv(B), UNCHANGED schedVars
  PROVE  SchedInv(B)'
<1>1. sched' = sched /\ room' = room /\ entry' = entry /\ phase' = phase
  BY DEF schedVars
<1>2. \A b \in B : entry'[b].room = entry[b].room
  BY <1>1
<1> QED BY <1>1, <1>2, LanesKept

LEMMA SchedulersHold == Spec => []SchedulersInv
<1>1. Init => SchedulersInv
  BY SchedStarts DEF Init, SchedulersInv
<1>2. BatchesInv /\ SchedulersInv /\ [Next]_vars => SchedulersInv'
  <2> SUFFICES ASSUME BatchesInv, SchedulersInv, [Next]_vars
               PROVE  SchedulersInv'
    OBVIOUS
  <2>1. ASSUME part' = "batches"
        PROVE  SchedInv({x1, x2})'
    <3>1. part = "batches" /\ (Sending({x1, x2}, 1)!Next \/ UNCHANGED schedVars)
      BY <2>1 DEF Next, vars
    <3>2. SchedTyped({x1, x2}, 1) /\ SchedInv({x1, x2})
      BY <3>1 DEF BatchesInv, BatchInv, SchedulersInv
    <3> QED BY <3>1, <3>2, BatchesFinite, SchedStep, SchedStutter
  <2>2. ASSUME part' = "files"
        PROVE  SchedInv({x1})'
    <3>1. part = "files" /\ (Sending({x1}, 2)!Next \/ UNCHANGED schedVars)
      BY <2>2 DEF Next, vars
    <3>2. SchedTyped({x1}, 2) /\ SchedInv({x1})
      BY <3>1 DEF BatchesInv, BatchInv, SchedulersInv
    <3> QED BY <3>1, <3>2, BatchesFinite, SchedStep, SchedStutter
  <2> QED BY <2>1, <2>2 DEF SchedulersInv
<1> QED BY <1>1, <1>2, BatchesHold, PTL DEF Spec

\* What a part keeps count of, to admit or refuse, is what there is: the running
\* and pending counts of createKeyedTransferScheduler are those of its lanes, and
\* none waits while a slot is free, through cancelScope and a lane created anew;
\* the dials and streams of a jsSession are those under way, within their bound;
\* the frames and bytes of a ControlFrameWriter are those it holds; and every ping
\* that was not answered is in the host's lists, so that no late answer of a
\* member is taken for a forged one.
THEOREM BooksAreKept == Spec => []BooksAgree
<1>1. ASSUME SchedulersInv, BridgeHoldsInv, QueueBooksInv, BeatHoldsInv PROVE BooksAgree
  <2>1. part = "batches" => /\ Sending({x1, x2}, 1)!CountersHonest
                            /\ Sending({x1, x2}, 1)!NoIdleSlot
    BY <1>1, BatchesFinite, SchedPromise DEF SchedulersInv
  <2>2. part = "files" => Sending({x1}, 2)!CountersHonest /\ Sending({x1}, 2)!NoIdleSlot
    BY <1>1, BatchesFinite, SchedPromise DEF SchedulersInv
  <2>3. part = "bridge" => Bridge!CountersHonest /\ Bridge!StreamBound
    BY <1>1, SessionsPromise DEF BridgeHoldsInv
  <2>4. part = "queue" => Queue!CountersHonest
    BY <1>1, QueueBooksPromise DEF QueueBooksInv
  <2>5. part = "heartbeat" => Beat!LateAnswersKnown
    BY <1>1, BeatPromise DEF BeatHoldsInv
  <2> QED BY <2>1, <2>2, <2>3, <2>4, <2>5 DEF BooksAgree
<1> QED BY <1>1, SchedulersHold, BridgeHolds, QueueBooksHold, BeatHolds, PTL

-----------------------------------------------------------------------------
(* The sizes of the sinks, also of those that lost an answer: a chunk that *)
(* the worker writes late is the last one.                                 *)

\* What sink s counts, and what of it is on disk.
Fits(s) ==
  LET r == sink[s] IN
  /\ r.made <= MaxCalls
  /\ r.written <= Size
  /\ disk[s] \in Storage!NoFile .. Size
  /\ r.step \in StepsOf(r.op)
  /\ r.op \in {"create", "clean"} => r.st = "none"
  /\ r.op = "close" => r.st = "open"
  /\ r.op = "create" => r.written = 0 /\ (r.answer = "ok" => disk[s] <= 0)
  /\ r.op = "write" => /\ r.st = "open" /\ r.written < Size
                       /\ r.answer = "none" => disk[s] <= r.written
                       /\ r.answer = "ok" => disk[s] <= r.written + 1
  /\ r.st = "open" /\ r.op \in {"none", "remove"} => disk[s] <= r.written

\* What a request m of sink s says, as long as the worker has it.
Told(s, m) ==
  LET r == sink[s] IN
  /\ mode = "worker"
  /\ m.live => r.op \notin {"none", "clean"} /\ m.type = r.step /\ r.answer = "none"
  /\ m.type = "WRITE" => /\ disk[s] < Size /\ Size # 0
                         /\ \/ m.live
                            \/ r.op = "write" /\ r.answer = "error"
                            \/ r.op = "undo"
                            \/ r.st \in {"aborted", "removed"}

\* The worker has one request of s that is awaited, and one write.
InLine(s) ==
  /\ \A i \in 1 .. Len(inbox) : inbox[i].sink = s => Told(s, inbox[i])
  /\ \A i, j \in 1 .. Len(inbox) :
       /\ inbox[i].sink = s /\ inbox[j].sink = s
       /\ (inbox[i].live /\ inbox[j].live) \/ (inbox[i].type = "WRITE" /\ inbox[j].type = "WRITE")
       => i = j

SizesInv == /\ reloads \in 0 .. MaxReload
            /\ \A s \in Sinks : Fits(s) /\ InLine(s)

\* No write of s is left in the worker's hands.
Unwritten(s) == \A i \in 1 .. Len(inbox) : inbox[i].sink = s => inbox[i].type # "WRITE"
AwaitsNone(s) == sink[s].op \in {"none", "clean"} \/ sink[s].answer # "none"

LEMMA FitsKept ==
  ASSUME NEW t \in Sinks, Fits(t), sink'[t] = sink[t], disk'[t] = disk[t]
  PROVE  Fits(t)'
BY DEF Fits

LEMMA LineSame ==
  ASSUME NEW t \in Sinks, InLine(t), inbox' = inbox, mode' = mode,
         sink'[t] = sink[t], disk'[t] = disk[t]
  PROVE  InLine(t)'
BY DEF InLine, Told

LEMMA SizesNext ==
  ASSUME SizesInv, NEW s \in Sinks, reloads' = reloads, Fits(s)', InLine(s)',
         \A t \in Sinks : t # s => /\ sink'[t] = sink[t] /\ disk'[t] = disk[t]
                                   /\ InLine(t) => InLine(t)'
  PROVE  SizesInv'
<1>1. ASSUME NEW t \in Sinks PROVE Fits(t)' /\ InLine(t)'
  <2>1. CASE t = s
    BY <2>1
  <2>2. CASE t # s
    BY <2>2, FitsKept DEF SizesInv
  <2> QED BY <2>1, <2>2
<1> QED BY <1>1 DEF SizesInv

\* Who awaits nothing has no request that is awaited.
LEMMA IdleLine ==
  ASSUME NEW s \in Sinks, InLine(s), Fits(s), AwaitsNone(s)
  PROVE  /\ \A i \in 1 .. Len(inbox) : inbox[i].sink = s => ~inbox[i].live
         /\ /\ sink[s].op # "undo"
            /\ ~(sink[s].op = "write" /\ sink[s].answer = "error")
            /\ sink[s].st \notin {"aborted", "removed"}
            => Unwritten(s)
BY DEF InLine, Told, AwaitsNone, Unwritten

LEMMA LineMore ==
  ASSUME SinkTyped, NEW s \in Sinks, NEW step \in Storage!Steps, mode' = mode,
         inbox' = Append(inbox, [sink |-> s, type |-> step, live |-> TRUE]),
         disk' = disk
  PROVE  /\ \A t \in Sinks : t # s /\ InLine(t) /\ sink'[t] = sink[t] => InLine(t)'
         /\ /\ InLine(s) /\ Fits(s) /\ AwaitsNone(s) /\ mode = "worker"
            /\ sink'[s].op \notin {"none", "clean"} /\ sink'[s].step = step
            /\ sink'[s].answer = "none" /\ sink'[s].st = sink[s].st
            /\ \/ Unwritten(s) /\ (step = "WRITE" => disk[s] < Size /\ Size # 0)
               \/ /\ step # "WRITE"
                  /\ sink'[s].op = "undo" \/ sink[s].st \in {"aborted", "removed"}
            => InLine(s)'
<1> DEFINE m == [sink |-> s, type |-> step, live |-> TRUE]
<1>1. m \in SinkRequest /\ inbox \in Seq(SinkRequest)
  BY DEF SinkRequest, SinkTyped
<1>2. /\ Len(inbox') = Len(inbox) + 1
      /\ \A i \in 1 .. Len(inbox) : inbox'[i] = inbox[i]
      /\ inbox'[Len(inbox) + 1] = m
      /\ Len(inbox) \in Nat
  BY <1>1
<1>3. \A i \in 1 .. Len(inbox') : i \in 1 .. Len(inbox) \/ i = Len(inbox) + 1
  BY <1>2
<1>4. m.sink = s /\ m.type = step /\ m.live
  OBVIOUS
<1> HIDE DEF m
<1>5. ASSUME NEW t \in Sinks, t # s, InLine(t), sink'[t] = sink[t]
      PROVE  InLine(t)'
  <2>1. \A i \in 1 .. Len(inbox') : inbox'[i].sink = t =>
             i \in 1 .. Len(inbox) /\ inbox'[i] = inbox[i]
    BY <1>2, <1>3, <1>4, <1>5
  <2> QED BY <1>5, <2>1 DEF InLine, Told
<1>6. ASSUME InLine(s), Fits(s), AwaitsNone(s), mode = "worker",
             sink'[s].op \notin {"none", "clean"}, sink'[s].step = step,
             sink'[s].answer = "none", sink'[s].st = sink[s].st,
             \/ Unwritten(s) /\ (step = "WRITE" => disk[s] < Size /\ Size # 0)
             \/ /\ step # "WRITE"
                /\ sink'[s].op = "undo" \/ sink[s].st \in {"aborted", "removed"}
      PROVE  InLine(s)'
  <2>1. \A i \in 1 .. Len(inbox) : inbox[i].sink = s => ~inbox[i].live
    BY <1>6, IdleLine
  <2>2. ASSUME NEW i \in 1 .. Len(inbox'), inbox'[i].sink = s
        PROVE  Told(s, inbox[i])'
    <3>1. CASE i \in 1 .. Len(inbox)
      <4>1. /\ Told(s, inbox[i]) /\ ~inbox[i].live /\ inbox'[i] = inbox[i]
            /\ Unwritten(s) => inbox[i].type # "WRITE"
        BY <1>2, <1>6, <2>1, <2>2, <3>1 DEF InLine, Unwritten
      <4> QED BY <1>6, <4>1 DEF Told
    <3>2. CASE i = Len(inbox) + 1
      BY <1>2, <1>4, <1>6, <3>2 DEF Told
    <3> QED BY <1>3, <3>1, <3>2
  <2>3. ASSUME NEW i \in 1 .. Len(inbox'), NEW j \in 1 .. Len(inbox'),
               inbox'[i].sink = s, inbox'[j].sink = s,
               \/ inbox'[i].live /\ inbox'[j].live
               \/ inbox'[i].type = "WRITE" /\ inbox'[j].type = "WRITE"
        PROVE  i = j
    <3>1. CASE i \in 1 .. Len(inbox) /\ j \in 1 .. Len(inbox)
      BY <1>2, <1>6, <2>3, <3>1 DEF InLine
    <3>2. \A k \in 1 .. Len(inbox) : inbox'[k].sink = s =>
             ~inbox'[k].live /\ (step = "WRITE" => inbox'[k].type # "WRITE")
      BY <1>2, <1>6, <2>1 DEF Unwritten
    <3>3. CASE i \in 1 .. Len(inbox) /\ j = Len(inbox) + 1
      BY <1>2, <1>4, <2>3, <3>2, <3>3
    <3>4. CASE i = Len(inbox) + 1 /\ j \in 1 .. Len(inbox)
      BY <1>2, <1>4, <2>3, <3>2, <3>4
    <3> QED BY <1>3, <3>1, <3>3, <3>4
  <2> QED BY <2>2, <2>3 DEF InLine, Told
<1> QED BY <1>5, <1>6

LEMMA AwaitSizes ==
  ASSUME SinkTyped, NEW s \in Sinks, NEW op \in Storage!Ops \ {"none", "clean"},
         NEW step \in Storage!Steps, Storage!Await(s, op, step),
         mode' = mode, disk' = disk, InLine(s), Fits(s), AwaitsNone(s),
         \/ Unwritten(s) /\ (step = "WRITE" => disk[s] < Size /\ Size # 0)
         \/ step # "WRITE" /\ (op = "undo" \/ sink[s].st \in {"aborted", "removed"})
  PROVE  /\ InLine(s)'
         /\ sink'[s].op = op /\ sink'[s].step = step
         /\ sink'[s].st = sink[s].st /\ sink'[s].written = sink[s].written
         /\ sink'[s].made = sink[s].made
         /\ sink'[s].answer \in {"none", "error"}
         /\ \A t \in Sinks : t # s => /\ sink'[t] = sink[t]
                                      /\ InLine(t) => InLine(t)'
<1> DEFINE a == IF worker THEN "none" ELSE "error"
<1>1. sink \in [Sinks -> SinkRecord] /\ sink[s] \in SinkRecord
  BY DEF SinkTyped
<1>2. PICK r : r = [sink[s] EXCEPT !.op = op, !.step = step, !.answer = a]
  OBVIOUS
<1>3. /\ r.op = op /\ r.step = step /\ r.answer = a
      /\ r.st = sink[s].st /\ r.written = sink[s].written /\ r.made = sink[s].made
  BY <1>1, <1>2 DEF SinkRecord, SinkFields
<1>4. sink' = [sink EXCEPT ![s] = r]
  BY <1>1, <1>2 DEF Storage!Await
<1>5. sink'[s] = r /\ \A t \in Sinks : t # s => sink'[t] = sink[t]
  BY <1>1, <1>4
<1>6. CASE mode = "worker" /\ worker
  <2>1. inbox' = Append(inbox, [sink |-> s, type |-> step, live |-> TRUE])
    BY <1>6 DEF Storage!Await
  <2>2. r.answer = "none"
    BY <1>3, <1>6
  <2>3. InLine(s)'
    BY <1>3, <1>5, <1>6, <2>1, <2>2, LineMore
  <2>4. \A t \in Sinks : t # s /\ InLine(t) => InLine(t)'
    BY <1>5, <2>1, LineMore
  <2> QED BY <1>3, <1>5, <2>2, <2>3, <2>4
<1>7. CASE ~(mode = "worker" /\ worker)
  <2>1. inbox' = inbox
    BY <1>7 DEF Storage!Await
  <2>2. InLine(s)'
    <3>1. \A i \in 1 .. Len(inbox) : inbox[i].sink = s => ~inbox[i].live
      BY IdleLine
    <3> QED BY <1>3, <1>5, <2>1, <3>1 DEF InLine, Told, Unwritten
  <2>3. \A t \in Sinks : t # s /\ InLine(t) => InLine(t)'
    BY <1>5, <2>1, LineSame
  <2> QED BY <1>3, <1>5, <2>2, <2>3
<1> QED BY <1>6, <1>7

LEMMA EndsSizes ==
  ASSUME SinkTyped, NEW s \in Sinks,
         NEW st \in {"none", "open", "closed", "aborted", "removed", "failed"},
         Storage!Ends(s, st), mode' = mode, disk' = disk, InLine(s), Fits(s), AwaitsNone(s),
         Unwritten(s) \/ st \in {"aborted", "removed"}
  PROVE  /\ InLine(s)'
         /\ sink'[s].op = "none" /\ sink'[s].step = "none"
         /\ sink'[s].st = st /\ sink'[s].written = sink[s].written
         /\ sink'[s].made = sink[s].made
         /\ \A t \in Sinks : t # s => /\ sink'[t] = sink[t]
                                      /\ InLine(t) => InLine(t)'
<1>1. sink \in [Sinks -> SinkRecord] /\ sink[s] \in SinkRecord
  BY DEF SinkTyped
<1>2. PICK r : r = [sink[s] EXCEPT !.st = st, !.op = "none", !.step = "none",
                                   !.answer = "none"]
  OBVIOUS
<1>3. /\ r.op = "none" /\ r.step = "none" /\ r.st = st
      /\ r.written = sink[s].written /\ r.made = sink[s].made
  BY <1>1, <1>2 DEF SinkRecord, SinkFields
<1>4. sink' = [sink EXCEPT ![s] = r] /\ inbox' = inbox
  BY <1>1, <1>2 DEF Storage!Ends
<1>5. sink'[s] = r /\ \A t \in Sinks : t # s => sink'[t] = sink[t]
  BY <1>1, <1>4
<1>6. InLine(s)'
  <2>1. \A i \in 1 .. Len(inbox) : inbox[i].sink = s => ~inbox[i].live
    BY IdleLine
  <2> QED BY <1>3, <1>4, <1>5, <2>1 DEF InLine, Told, Unwritten
<1>7. \A t \in Sinks : t # s /\ InLine(t) => InLine(t)'
  BY <1>4, <1>5, LineSame
<1> QED BY <1>3, <1>5, <1>6, <1>7

LEMMA CreateSizes ==
  ASSUME SinkTyped, SizesInv, NEW s \in Sinks, Storage!CreateFileSink(s)
  PROVE  SizesInv'
<1>1. /\ sink[s] = Storage!Fresh /\ Storage!Await(s, "create", "INIT")
      /\ mode' = mode /\ disk' = disk /\ reloads' = reloads
      /\ Fits(s) /\ InLine(s)
  BY DEF SizesInv, Storage!CreateFileSink, Storage!stable
<1>2. AwaitsNone(s) /\ Unwritten(s)
  <2>1. AwaitsNone(s)
    BY <1>1 DEF AwaitsNone, Storage!Fresh
  <2> QED BY <1>1, <2>1, IdleLine DEF Storage!Fresh
<1>3. "create" \in Storage!Ops \ {"none", "clean"} /\ "INIT" \in Storage!Steps
  BY DEF Storage!Ops, Storage!Steps
<1>4. /\ InLine(s)'
      /\ sink'[s].op = "create" /\ sink'[s].step = "INIT"
      /\ sink'[s].st = sink[s].st /\ sink'[s].written = sink[s].written
      /\ sink'[s].made = sink[s].made
      /\ sink'[s].answer \in {"none", "error"}
      /\ \A t \in Sinks : t # s => /\ sink'[t] = sink[t]
                                   /\ InLine(t) => InLine(t)'
  BY <1>1, <1>2, <1>3, AwaitSizes
<1>5. Fits(s)'
  BY <1>1, <1>4 DEF Fits, StepsOf, Storage!Fresh
<1> QED BY <1>1, <1>4, <1>5, SizesNext

LEMMA CallSizes ==
  ASSUME SinkTyped, SizesInv, NEW s \in Sinks, NEW op, Storage!Call(s, op)
  PROVE  SizesInv'
<1>1. /\ sink[s] \in SinkRecord /\ sink \in [Sinks -> SinkRecord]
      /\ sink[s].made < MaxCalls
      /\ sink' = [sink EXCEPT ![s].made = @ + 1]
      /\ mode' = mode /\ disk' = disk /\ reloads' = reloads /\ inbox' = inbox
      /\ Fits(s) /\ InLine(s)
  BY DEF SizesInv, Storage!Call, Storage!stable, Storage!storage, SinkTyped
<1>2. PICK r : r = [sink[s] EXCEPT !.made = @ + 1]
  OBVIOUS
<1>3. /\ r.st = sink[s].st /\ r.written = sink[s].written /\ r.op = sink[s].op
      /\ r.step = sink[s].step /\ r.answer = sink[s].answer
      /\ r.made = sink[s].made + 1 /\ sink[s].made \in Nat
  BY <1>1, <1>2 DEF SinkRecord, SinkFields
<1>4. sink'[s] = r /\ \A t \in Sinks : t # s => sink'[t] = sink[t]
  BY <1>1, <1>2
<1>5. Fits(s)'
  <2>1. r.made <= MaxCalls
    BY <1>1, <1>3, SinkBounds
  <2> QED BY <1>1, <1>3, <1>4, <2>1 DEF Fits
<1>6. InLine(s)'
  BY <1>1, <1>3, <1>4 DEF InLine, Told
<1>7. \A t \in Sinks : t # s /\ InLine(t) => InLine(t)'
  BY <1>1, <1>4, LineSame
<1> QED BY <1>1, <1>4, <1>5, <1>6, <1>7, SizesNext

LEMMA NextCallSizes ==
  ASSUME SinkTyped, SizesInv, NEW s \in Sinks, Storage!NextCall(s)
  PROVE  SizesInv'
<1>1. /\ sink[s].op = "none" /\ Storage!Begin(s, Head(calls[s])) /\ calls[s] # <<>>
      /\ mode' = mode /\ disk' = disk /\ reloads' = reloads
      /\ Fits(s) /\ InLine(s) /\ sink[s] \in SinkRecord
  BY DEF SizesInv, Storage!NextCall, Storage!stable, SinkTyped
<1>2. PICK call \in {"write", "close", "abort", "remove"} : call = Head(calls[s])
  BY <1>1 DEF SinkTyped
<1>3. AwaitsNone(s) /\ (sink[s].st \notin {"aborted", "removed"} => Unwritten(s))
  <2>1. AwaitsNone(s)
    BY <1>1 DEF AwaitsNone
  <2> QED BY <1>1, <2>1, IdleLine
<1>4. /\ sink[s].st \in {"none", "open", "closed", "aborted", "removed", "failed"}
      /\ sink[s].written \in Nat /\ Size \in Nat
  BY <1>1, SinkBounds DEF SinkRecord, SinkFields
<1>5. ASSUME Storage!Ends(s, sink[s].st)
      PROVE  SizesInv'
  <2>1. /\ InLine(s)'
        /\ sink'[s].op = "none" /\ sink'[s].step = "none"
        /\ sink'[s].st = sink[s].st /\ sink'[s].written = sink[s].written
        /\ sink'[s].made = sink[s].made
        /\ \A t \in Sinks : t # s => /\ sink'[t] = sink[t]
                                     /\ InLine(t) => InLine(t)'
    BY <1>1, <1>3, <1>4, <1>5, EndsSizes DEF SinkInv
  <2>2. Fits(s)'
    BY <1>1, <2>1 DEF Fits, StepsOf
  <2> QED BY <1>1, <2>1, <2>2, SizesNext
<1>6. ASSUME NEW op \in {"write", "close", "undo", "abort", "remove"}, NEW step \in StepsOf(op),
             Storage!Await(s, op, step),
             op = "write" => sink[s].st = "open" /\ sink[s].written < Size,
             op \notin {"close", "undo"} \/ sink[s].st = "open",
             step = "WRITE" => op = "write"
      PROVE  SizesInv'
  <2>1. op \in Storage!Ops \ {"none", "clean"} /\ step \in Storage!Steps
    BY DEF Storage!Ops, Storage!Steps, StepsOf
  <2>2. \/ Unwritten(s) /\ (step = "WRITE" => disk[s] < Size /\ Size # 0)
        \/ step # "WRITE" /\ (op = "undo" \/ sink[s].st \in {"aborted", "removed"})
    <3>1. CASE step = "WRITE"
      <4>1. disk[s] <= sink[s].written /\ disk[s] \in Int
        BY <1>1, <1>4, <1>6, <3>1 DEF Fits, Storage!NoFile
      <4> QED BY <1>3, <1>4, <1>6, <3>1, <4>1
    <3>2. CASE step # "WRITE"
      BY <1>3, <3>2
    <3> QED BY <3>1, <3>2
  <2>3. /\ InLine(s)'
        /\ sink'[s].op = op /\ sink'[s].step = step
        /\ sink'[s].st = sink[s].st /\ sink'[s].written = sink[s].written
        /\ sink'[s].made = sink[s].made
        /\ sink'[s].answer \in {"none", "error"}
        /\ \A t \in Sinks : t # s => /\ sink'[t] = sink[t]
                                     /\ InLine(t) => InLine(t)'
    BY <1>1, <1>3, <1>6, <2>1, <2>2, AwaitSizes
  <2>4. Fits(s)'
    BY <1>1, <1>6, <2>3 DEF Fits
  <2> QED BY <1>1, <2>3, <2>4, SizesNext
<1>7. CASE call \in {"write", "close"} /\ sink[s].st # "open"
  BY <1>1, <1>2, <1>5, <1>7 DEF Storage!Begin
<1>8. CASE call = "write" /\ sink[s].st = "open"
  <2>1. Storage!BeginWrite(s)
    BY <1>1, <1>2, <1>8 DEF Storage!Begin
  <2>2. CASE sink[s].written < Size
    <3>1. Storage!Await(s, "write", "WRITE") /\ "WRITE" \in StepsOf("write")
      BY <2>1, <2>2 DEF Storage!BeginWrite, StepsOf
    <3> QED BY <1>6, <1>8, <2>2, <3>1
  <2>3. CASE ~(sink[s].written < Size)
    <3>1. Storage!Await(s, "undo", "ABORT") /\ "ABORT" \in StepsOf("undo")
      BY <2>1, <2>3 DEF Storage!BeginWrite, StepsOf
    <3> QED BY <1>6, <1>8, <3>1
  <2> QED BY <2>2, <2>3
<1>9. CASE call = "close" /\ sink[s].st = "open"
  <2>1. Storage!BeginClose(s)
    BY <1>1, <1>2, <1>9 DEF Storage!Begin
  <2>2. \/ Storage!Await(s, "close", "CLOSE") /\ "CLOSE" \in StepsOf("close")
        \/ Storage!Await(s, "undo", "ABORT") /\ "ABORT" \in StepsOf("undo")
    BY <2>1 DEF Storage!BeginClose, StepsOf
  <2> QED BY <1>6, <1>9, <2>2
<1>10. CASE call = "abort"
  <2>1. \/ Storage!Ends(s, sink[s].st)
        \/ Storage!Await(s, "abort", "ABORT") /\ "ABORT" \in StepsOf("abort")
    BY <1>1, <1>2, <1>10 DEF Storage!Begin, StepsOf
  <2> QED BY <1>5, <1>6, <2>1
<1>11. CASE call = "remove"
  <2>1. CASE sink[s].st = "removed"
    BY <1>1, <1>2, <1>5, <1>11, <2>1 DEF Storage!Begin
  <2>2. CASE sink[s].st # "removed"
    <3>1. PICK step \in {"ABORT", "DELETE"} : Storage!Await(s, "remove", step)
      BY <1>1, <1>2, <1>11, <2>2 DEF Storage!Begin
    <3>2. step \in StepsOf("remove")
      BY DEF StepsOf
    <3> QED BY <1>6, <3>1, <3>2
  <2> QED BY <2>1, <2>2
<1> QED BY <1>2, <1>7, <1>8, <1>9, <1>10, <1>11

LEMMA ContinueSizes ==
  ASSUME SinkTyped, SizesInv, NEW s \in Sinks, Storage!Continue(s)
  PROVE  SizesInv'
<1> DEFINE ok == sink[s].answer = "ok"
<1>1. /\ sink[s].answer # "none"
      /\ mode' = mode /\ disk' = disk /\ reloads' = reloads
      /\ Fits(s) /\ InLine(s) /\ sink[s] \in SinkRecord /\ sink \in [Sinks -> SinkRecord]
  BY DEF SizesInv, Storage!Continue, Storage!stable, SinkTyped
<1>2. AwaitsNone(s)
  BY <1>1 DEF AwaitsNone
<1>3. /\ sink[s].op # "undo"
      /\ ~(sink[s].op = "write" /\ sink[s].answer = "error")
      /\ sink[s].st \notin {"aborted", "removed"}
      => Unwritten(s)
  BY <1>1, <1>2, IdleLine
<1>4. /\ sink[s].st \in {"none", "open", "closed", "aborted", "removed", "failed"}
      /\ sink[s].written \in Nat /\ Size \in Nat /\ disk[s] \in Int
  BY <1>1, SinkBounds DEF SinkRecord, SinkFields, Fits, Storage!NoFile
<1>5. ASSUME NEW st \in {"none", "open", "closed", "aborted", "removed", "failed"},
             Storage!Ends(s, st), Unwritten(s) \/ st \in {"aborted", "removed"},
             st = "open" => disk[s] <= sink[s].written
      PROVE  SizesInv'
  <2>1. /\ InLine(s)'
        /\ sink'[s].op = "none" /\ sink'[s].step = "none"
        /\ sink'[s].st = st /\ sink'[s].written = sink[s].written
        /\ sink'[s].made = sink[s].made
        /\ \A t \in Sinks : t # s => /\ sink'[t] = sink[t]
                                     /\ InLine(t) => InLine(t)'
    BY <1>1, <1>2, <1>5, EndsSizes
  <2>2. Fits(s)'
    BY <1>1, <1>5, <2>1 DEF Fits, StepsOf
  <2> QED BY <1>1, <2>1, <2>2, SizesNext
<1>6. ASSUME NEW op \in {"undo", "remove"}, NEW step \in {"ABORT", "DELETE"},
             Storage!Await(s, op, step), step \in StepsOf(op),
             op = "remove" => sink[s].op = "remove"
      PROVE  SizesInv'
  <2>1. op \in Storage!Ops \ {"none", "clean"} /\ step \in Storage!Steps
    BY DEF Storage!Ops, Storage!Steps
  <2>2. \/ Unwritten(s) /\ (step = "WRITE" => disk[s] < Size /\ Size # 0)
        \/ step # "WRITE" /\ (op = "undo" \/ sink[s].st \in {"aborted", "removed"})
    BY <1>3, <1>6
  <2>3. /\ InLine(s)'
        /\ sink'[s].op = op /\ sink'[s].step = step
        /\ sink'[s].st = sink[s].st /\ sink'[s].written = sink[s].written
        /\ sink'[s].made = sink[s].made
        /\ sink'[s].answer \in {"none", "error"}
        /\ \A t \in Sinks : t # s => /\ sink'[t] = sink[t]
                                     /\ InLine(t) => InLine(t)'
    BY <1>1, <1>2, <1>6, <2>1, <2>2, AwaitSizes
  <2>4. Fits(s)'
    BY <1>1, <1>6, <2>3 DEF Fits
  <2> QED BY <1>1, <2>3, <2>4, SizesNext
<1>7. CASE sink[s].op = "create" /\ ok /\ Storage!Ends(s, "open")
  <2>1. Unwritten(s) /\ disk[s] <= sink[s].written
    BY <1>1, <1>3, <1>4, <1>7 DEF Fits
  <2> QED BY <1>5, <1>7, <2>1
<1>8. CASE /\ sink[s].op = "create"
           /\ sink' = [sink EXCEPT ![s].op = "clean", ![s].answer = "none"]
           /\ inbox' = inbox
  <2>1. PICK r : r = [sink[s] EXCEPT !.op = "clean", !.answer = "none"]
    OBVIOUS
  <2>2. /\ r.op = "clean" /\ r.step = sink[s].step /\ r.st = sink[s].st
        /\ r.written = sink[s].written /\ r.made = sink[s].made
    BY <1>1, <2>1 DEF SinkRecord, SinkFields
  <2>3. sink'[s] = r /\ \A t \in Sinks : t # s => sink'[t] = sink[t]
    BY <1>1, <1>8, <2>1
  <2>4. sink[s].step \in Storage!Steps
    BY <1>1, <1>8 DEF Fits, StepsOf, Storage!Steps
  <2>5. Fits(s)'
    BY <1>1, <1>8, <2>2, <2>3, <2>4 DEF Fits, StepsOf
  <2>6. InLine(s)'
    <3>1. \A i \in 1 .. Len(inbox) : inbox[i].sink = s =>
             ~inbox[i].live /\ inbox[i].type # "WRITE"
      <4>1. Unwritten(s)
        BY <1>1, <1>3, <1>8 DEF Fits
      <4> QED BY <1>1, <1>2, <4>1, IdleLine DEF Unwritten
    <3> QED BY <1>1, <1>8, <2>2, <2>3, <3>1 DEF InLine, Told
  <2>7. \A t \in Sinks : t # s /\ InLine(t) => InLine(t)'
    BY <1>1, <1>8, <2>3, LineSame
  <2> QED BY <1>1, <2>3, <2>5, <2>6, <2>7, SizesNext
<1>9. CASE /\ sink[s].op = "write" /\ ok
           /\ sink' = [sink EXCEPT ![s].written = @ + 1, ![s].op = "none",
                                   ![s].step = "none", ![s].answer = "none"]
           /\ inbox' = inbox
  <2>1. PICK r : r = [sink[s] EXCEPT !.written = @ + 1, !.op = "none",
                                     !.step = "none", !.answer = "none"]
    OBVIOUS
  <2>2. /\ r.op = "none" /\ r.step = "none" /\ r.answer = "none"
        /\ r.st = sink[s].st /\ r.written = sink[s].written + 1 /\ r.made = sink[s].made
    BY <1>1, <2>1 DEF SinkRecord, SinkFields
  <2>3. sink'[s] = r /\ \A t \in Sinks : t # s => sink'[t] = sink[t]
    BY <1>1, <1>9, <2>1
  <2>4. sink[s].st = "open" /\ sink[s].written < Size /\ disk[s] <= sink[s].written + 1
    BY <1>1, <1>9 DEF Fits
  <2>5. r.written <= Size
    BY <1>4, <2>2, <2>4
  <2>6. Fits(s)'
    BY <1>1, <2>2, <2>3, <2>4, <2>5 DEF Fits, StepsOf
  <2>7. InLine(s)'
    <3>1. \A i \in 1 .. Len(inbox) : inbox[i].sink = s =>
             ~inbox[i].live /\ inbox[i].type # "WRITE"
      <4>1. Unwritten(s)
        BY <1>3, <1>9, <2>4
      <4> QED BY <1>1, <1>2, <4>1, IdleLine DEF Unwritten
    <3> QED BY <1>1, <1>9, <2>2, <2>3, <3>1 DEF InLine, Told
  <2>8. \A t \in Sinks : t # s /\ InLine(t) => InLine(t)'
    BY <1>1, <1>9, <2>3, LineSame
  <2> QED BY <1>1, <2>3, <2>6, <2>7, <2>8, SizesNext
<1>10. CASE sink[s].op = "close" /\ ok /\ Storage!Ends(s, "closed")
  <2>1. Unwritten(s)
    BY <1>1, <1>3, <1>10 DEF Fits
  <2> QED BY <1>5, <1>10, <2>1
<1>11. CASE Storage!Fail(s)
  <2>1. Storage!Await(s, "undo", "ABORT")
    BY <1>11 DEF Storage!Fail
  <2> QED BY <1>6, <2>1 DEF StepsOf
<1>12. CASE sink[s].op \in {"undo", "abort"} /\ Storage!Ends(s, "aborted")
  BY <1>5, <1>12
<1>13. CASE sink[s].op = "remove" /\ ok /\ Storage!Await(s, "remove", "DELETE")
  BY <1>6, <1>13 DEF StepsOf
<1>14. CASE sink[s].op = "remove" /\ ok /\ Storage!Ends(s, "removed")
  BY <1>5, <1>14
<1>15. CASE sink[s].op = "remove" /\ ~ok /\ Storage!Ends(s, sink[s].st)
  <2>1. sink[s].st = "open" => disk[s] <= sink[s].written
    BY <1>1, <1>15 DEF Fits
  <2> QED BY <1>3, <1>4, <1>5, <1>15, <2>1
<1> QED
  BY <1>7, <1>8, <1>9, <1>10, <1>11, <1>12, <1>13, <1>14, <1>15
     DEF Storage!Continue

LEMMA CleanUpSizes ==
  ASSUME SinkTyped, SizesInv, NEW s \in Sinks, Storage!CleanUp(s)
  PROVE  SizesInv'
<1>1. PICK ok \in BOOLEAN : disk' = [disk EXCEPT ![s] = IF ok THEN Storage!NoFile ELSE @]
  BY DEF Storage!CleanUp
<1>2. /\ sink[s].op = "clean"
      /\ sink' = [sink EXCEPT ![s] = [Storage!Fresh EXCEPT !.st = "failed"]]
      /\ mode' = mode /\ inbox' = inbox /\ reloads' = reloads
      /\ Fits(s) /\ InLine(s)
      /\ sink \in [Sinks -> SinkRecord] /\ disk \in [Sinks -> Int]
  BY DEF SizesInv, Storage!CleanUp, Storage!stable, SinkTyped
<1>3. PICK r : r = [Storage!Fresh EXCEPT !.st = "failed"]
  OBVIOUS
<1>4. r = [st |-> "failed", written |-> 0, made |-> 0, op |-> "none", step |-> "none",
           answer |-> "none"]
  BY <1>3 DEF Storage!Fresh
<1>5. /\ sink'[s] = r /\ \A t \in Sinks : t # s => sink'[t] = sink[t] /\ disk'[t] = disk[t]
      /\ disk'[s] \in {disk[s], Storage!NoFile}
  BY <1>1, <1>2, <1>3
<1>6. Fits(s)'
  <2>1. disk'[s] \in Storage!NoFile .. Size
    BY <1>2, <1>5, SinkBounds DEF Fits, Storage!NoFile
  <2>2. r.made <= MaxCalls /\ r.written <= Size
    BY <1>4, SinkBounds
  <2> QED BY <1>4, <1>5, <2>1, <2>2 DEF Fits, StepsOf
<1>7. InLine(s)'
  <2>1. \A i \in 1 .. Len(inbox) : inbox[i].sink = s =>
           ~inbox[i].live /\ inbox[i].type # "WRITE"
    <3>1. AwaitsNone(s) /\ sink[s].st = "none"
      BY <1>2 DEF AwaitsNone, Fits
    <3> QED BY <1>2, <3>1, IdleLine DEF Unwritten
  <2> QED BY <1>2, <1>4, <1>5, <2>1 DEF InLine, Told
<1>8. \A t \in Sinks : t # s /\ InLine(t) => InLine(t)'
  BY <1>2, <1>5, LineSame
<1> QED BY <1>2, <1>5, <1>6, <1>7, <1>8, SizesNext

LEMMA PerformedSizes ==
  ASSUME SinkTyped, NEW s \in Sinks, NEW step \in Storage!Steps, NEW ok \in BOOLEAN,
         Storage!Performed(s, step, ok)
  PROVE  /\ disk'[s] \in {disk[s], Storage!NoFile, 0} \/ (step = "WRITE" /\ disk'[s] = disk[s] + 1)
         /\ step = "INIT" /\ ok => disk'[s] = 0
         /\ \A t \in Sinks : t # s => disk'[t] = disk[t]
<1>1. /\ disk \in [Sinks -> Int] /\ disk[s] \in Int
      /\ step \in {"INIT", "WRITE", "CLOSE", "ABORT", "DELETE"}
  BY DEF SinkTyped, Storage!Steps
<1>2. PICK n \in {disk[s], disk[s] + 1, 0, Storage!NoFile} :
        /\ CASE step = "INIT" -> IF ok THEN n = 0
                                 ELSE n = disk[s] \/ (mode = "async" /\ n = 0)
             [] step = "WRITE" -> n = disk[s] + (IF ok THEN 1 ELSE 0)
             [] step = "CLOSE" -> n = disk[s]
             [] step \in {"ABORT", "DELETE"} -> n = Storage!NoFile \/ (~ok /\ n = disk[s])
        /\ disk' = [disk EXCEPT ![s] = n]
  BY DEF Storage!Performed
<1>3. /\ n \in {disk[s], Storage!NoFile, 0} \/ (step = "WRITE" /\ n = disk[s] + 1)
      /\ step = "INIT" /\ ok => n = 0
  BY <1>1, <1>2
<1> QED BY <1>1, <1>2, <1>3

\* The storage has done what s awaits.
LEMMA AnsweredFits ==
  ASSUME SinkTyped, SinkTyped', NEW s \in Sinks, NEW ok \in BOOLEAN, Fits(s),
         sink[s].op \notin {"none", "clean"}, sink[s].answer = "none",
         Storage!Performed(s, sink[s].step, ok), sink[s].step \in Storage!Steps,
         sink' = [sink EXCEPT ![s].answer = IF ok THEN "ok" ELSE "error"]
  PROVE  Fits(s)'
<1>1. sink[s] \in SinkRecord /\ sink \in [Sinks -> SinkRecord] /\ disk[s] \in Int /\ disk'[s] \in Int
  BY DEF SinkTyped
<1>2. PICK r : r = [sink[s] EXCEPT !.answer = IF ok THEN "ok" ELSE "error"]
  OBVIOUS
<1>3. /\ r.op = sink[s].op /\ r.step = sink[s].step /\ r.st = sink[s].st
      /\ r.made = sink[s].made /\ r.written = sink[s].written
      /\ r.answer = IF ok THEN "ok" ELSE "error"
  BY <1>1, <1>2 DEF SinkRecord, SinkFields
<1>4. sink'[s] = r
  BY <1>1, <1>2
<1>5. /\ disk'[s] \in {disk[s], 0 - 1, 0} \/ (sink[s].step = "WRITE" /\ disk'[s] = disk[s] + 1)
      /\ sink[s].step = "INIT" /\ ok => disk'[s] = 0
  BY PerformedSizes DEF Storage!NoFile
<1>6. sink[s].written \in Nat /\ sink[s].written <= Size /\ Size \in Nat
      /\ disk[s] \in (0 - 1) .. Size
  BY <1>1, SinkBounds DEF SinkRecord, SinkFields, Fits, Storage!NoFile
<1>7. sink[s].op \in {"create", "write", "close", "undo", "abort", "remove"}
  BY <1>1 DEF SinkRecord, SinkFields, Storage!Ops
<1>8. CASE sink[s].op = "write"
  <2>1. sink[s].st = "open" /\ sink[s].written < Size /\ disk[s] <= sink[s].written
    BY <1>8 DEF Fits
  <2>2. disk'[s] \in (0 - 1) .. Size /\ disk'[s] <= sink[s].written + 1
    BY <1>1, <1>5, <1>6, <2>1
  <2> QED BY <1>3, <1>4, <1>8, <2>1, <2>2 DEF Fits, Storage!NoFile
<1>9. CASE sink[s].op # "write"
  <2>1. sink[s].step # "WRITE"
    BY <1>7, <1>9 DEF Fits, StepsOf
  <2>2. disk'[s] \in (0 - 1) .. Size /\ (disk[s] <= sink[s].written => disk'[s] <= sink[s].written)
    BY <1>1, <1>5, <1>6, <2>1
  <2>3. sink[s].op = "create" => sink[s].step = "INIT"
    BY DEF Fits, StepsOf
  <2> QED BY <1>3, <1>4, <1>5, <1>7, <1>9, <2>2, <2>3 DEF Fits, Storage!NoFile
<1> QED BY <1>8, <1>9

LEMMA StorageAnswersSizes ==
  ASSUME SinkTyped, SinkTyped', SizesInv, NEW s \in Sinks, Storage!StorageAnswers(s)
  PROVE  SizesInv'
<1>1. /\ mode = "async" /\ sink[s].op \notin {"none", "clean"} /\ sink[s].answer = "none"
      /\ mode' = mode /\ inbox' = inbox /\ reloads' = reloads
      /\ Fits(s) /\ InLine(s)
      /\ sink[s] \in SinkRecord /\ sink \in [Sinks -> SinkRecord]
  BY DEF SizesInv, Storage!StorageAnswers, Storage!stable, SinkTyped
<1>2. PICK ok \in BOOLEAN :
        /\ Storage!Performed(s, sink[s].step, ok)
        /\ sink' = [sink EXCEPT ![s].answer = IF ok THEN "ok" ELSE "error"]
  BY DEF Storage!StorageAnswers
<1>3. sink[s].step \in Storage!Steps
  BY <1>1 DEF SinkRecord, SinkFields
<1>4. \A t \in Sinks : t # s => sink'[t] = sink[t] /\ disk'[t] = disk[t]
  <2>1. \A t \in Sinks : t # s => disk'[t] = disk[t]
    BY <1>2, <1>3, PerformedSizes
  <2> QED BY <1>1, <1>2, <2>1
<1>5. Fits(s)'
  BY <1>1, <1>2, <1>3, AnsweredFits
<1>6. InLine(s)'
  BY <1>1 DEF InLine, Told
<1>7. \A t \in Sinks : t # s /\ InLine(t) => InLine(t)'
  BY <1>1, <1>4, LineSame
<1> QED BY <1>1, <1>4, <1>5, <1>6, <1>7, SizesNext

LEMMA RequestTimeoutSizes ==
  ASSUME SinkTyped, SizesInv, NEW s \in Sinks, Storage!RequestTimeout(s)
  PROVE  SizesInv'
<1>1. /\ inbox' = [i \in DOMAIN inbox |-> IF inbox[i].sink = s
                                          THEN [inbox[i] EXCEPT !.live = FALSE] ELSE inbox[i]]
      /\ sink' = [sink EXCEPT ![s].answer = "error"]
      /\ mode' = mode /\ disk' = disk /\ reloads' = reloads
      /\ Fits(s) /\ InLine(s)
      /\ sink[s] \in SinkRecord /\ sink \in [Sinks -> SinkRecord]
  BY DEF SizesInv, Storage!RequestTimeout, Storage!stable, SinkTyped
<1>2. PICK r : r = [sink[s] EXCEPT !.answer = "error"]
  OBVIOUS
<1>3. /\ r.op = sink[s].op /\ r.step = sink[s].step /\ r.st = sink[s].st
      /\ r.made = sink[s].made /\ r.written = sink[s].written /\ r.answer = "error"
  BY <1>1, <1>2 DEF SinkRecord, SinkFields
<1>4. sink'[s] = r /\ \A t \in Sinks : t # s => sink'[t] = sink[t]
  BY <1>1, <1>2
<1>5. inbox \in Seq(SinkRequest) /\ DOMAIN inbox = 1 .. Len(inbox) /\ Len(inbox) \in Nat
  BY DEF SinkTyped
<1>6. \A i \in 1 .. Len(inbox) :
        /\ inbox[i] \in SinkRequest
        /\ inbox'[i] = IF inbox[i].sink = s
                       THEN [inbox[i] EXCEPT !.live = FALSE] ELSE inbox[i]
  BY <1>1, <1>5
<1>7. \A i \in 1 .. Len(inbox) :
        /\ inbox'[i].sink = inbox[i].sink /\ inbox'[i].type = inbox[i].type
        /\ inbox[i].sink = s => ~inbox'[i].live
        /\ inbox[i].sink # s => inbox'[i] = inbox[i]
  <2> SUFFICES ASSUME NEW i \in 1 .. Len(inbox)
               PROVE  /\ inbox'[i].sink = inbox[i].sink /\ inbox'[i].type = inbox[i].type
                      /\ inbox[i].sink = s => ~inbox'[i].live
                      /\ inbox[i].sink # s => inbox'[i] = inbox[i]
    OBVIOUS
  <2>1. PICK q : q = [inbox[i] EXCEPT !.live = FALSE]
    OBVIOUS
  <2>2. ~q.live /\ q.sink = inbox[i].sink /\ q.type = inbox[i].type
    BY <1>6, <2>1 DEF SinkRequest
  <2> QED BY <1>6, <2>1, <2>2
<1>8. \A i \in 1 .. Len(inbox) : inbox'[i] \in SinkRequest
  <2> SUFFICES ASSUME NEW i \in 1 .. Len(inbox)
               PROVE  inbox'[i] \in SinkRequest
    OBVIOUS
  <2>1. PICK q : q = [inbox[i] EXCEPT !.live = FALSE]
    OBVIOUS
  <2>2. q \in SinkRequest
    BY <1>6, <2>1 DEF SinkRequest
  <2> QED BY <1>6, <2>1, <2>2
<1>9. Len(inbox') = Len(inbox)
  BY <1>1, <1>5, <1>8
<1>10. Fits(s)'
  BY <1>1, <1>3, <1>4 DEF Fits
<1>11. InLine(s)'
  <2>1. ASSUME NEW i \in 1 .. Len(inbox), inbox[i].sink = s
        PROVE  Told(s, inbox[i])'
    <3>1. Told(s, inbox[i]) /\ inbox'[i].type = inbox[i].type /\ ~inbox'[i].live
      BY <1>1, <1>7, <2>1 DEF InLine
    <3>2. inbox[i].live /\ inbox[i].type = "WRITE" => sink[s].op = "write"
      BY <1>1, <3>1 DEF Told, Fits, StepsOf, SinkRecord, SinkFields, Storage!Ops
    <3> QED BY <1>1, <1>3, <1>4, <3>1, <3>2 DEF Told
  <2>2. ASSUME NEW i \in 1 .. Len(inbox), NEW j \in 1 .. Len(inbox),
               inbox[i].sink = s, inbox[j].sink = s,
               inbox[i].type = "WRITE", inbox[j].type = "WRITE"
        PROVE  i = j
    BY <1>1, <2>2 DEF InLine
  <2> QED BY <1>7, <1>9, <2>1, <2>2 DEF InLine, Told
<1>12. \A t \in Sinks : t # s /\ InLine(t) => InLine(t)'
  <2> SUFFICES ASSUME NEW t \in Sinks, t # s, InLine(t)
               PROVE  InLine(t)'
    OBVIOUS
  <2>1. \A i \in 1 .. Len(inbox) : inbox'[i].sink = t => inbox'[i] = inbox[i] /\ inbox[i].sink = t
    BY <1>7
  <2> QED BY <1>1, <1>4, <1>9, <2>1 DEF InLine, Told
<1> QED BY <1>1, <1>4, <1>10, <1>11, <1>12, SizesNext

LEMMA WorkerHandlesSizes ==
  ASSUME SinkTyped, SinkTyped', SizesInv, Storage!WorkerHandles
  PROVE  SizesInv'
<1> DEFINE m == Head(inbox)
<1>1. /\ inbox # <<>> /\ inbox' = Tail(inbox) /\ mode' = mode /\ reloads' = reloads
      /\ inbox \in Seq(SinkRequest) /\ Len(inbox) \in Nat
  BY DEF Storage!WorkerHandles, Storage!stable, SinkTyped
<1>2. PICK ok \in BOOLEAN :
        /\ Storage!Performed(m.sink, m.type, ok)
        /\ sink' = IF m.live
                   THEN [sink EXCEPT ![m.sink].answer = IF ok THEN "ok" ELSE "error"]
                   ELSE sink
  BY DEF Storage!WorkerHandles
<1>3. m \in SinkRequest /\ m = inbox[1] /\ 1 \in 1 .. Len(inbox)
  BY <1>1
<1>4. PICK s \in Sinks : s = m.sink
  BY <1>3 DEF SinkRequest
<1>5. m.type \in Storage!Steps /\ m.live \in BOOLEAN
  BY <1>3 DEF SinkRequest
<1>6. Fits(s) /\ InLine(s) /\ Told(s, m)
  BY <1>3, <1>4 DEF SizesInv, InLine
<1>7. /\ sink[s] \in SinkRecord /\ sink \in [Sinks -> SinkRecord] /\ disk[s] \in Int
  BY DEF SinkTyped
<1>8. \A t \in Sinks : t # s => sink'[t] = sink[t] /\ disk'[t] = disk[t]
  <2>1. \A t \in Sinks : t # s => disk'[t] = disk[t]
    BY <1>2, <1>4, <1>5, PerformedSizes
  <2> QED BY <1>2, <1>4, <1>7, <2>1
<1>9. /\ disk'[s] \in {disk[s], 0 - 1, 0} \/ (m.type = "WRITE" /\ disk'[s] = disk[s] + 1)
  <2>1. disk'[s] \in {disk[s], Storage!NoFile, 0} \/ (m.type = "WRITE" /\ disk'[s] = disk[s] + 1)
    BY <1>2, <1>4, <1>5, PerformedSizes
  <2> QED BY <2>1 DEF Storage!NoFile
<1>10. sink[s].written \in Nat /\ sink[s].written <= Size /\ Size \in Nat
       /\ disk[s] \in (0 - 1) .. Size
  BY <1>6, <1>7, SinkBounds DEF SinkRecord, SinkFields, Fits, Storage!NoFile
<1>11. disk'[s] \in (0 - 1) .. Size
  <2>1. m.type = "WRITE" => disk[s] < Size
    BY <1>6 DEF Told
  <2> QED BY <1>9, <1>10, <2>1
<1>12. m.type # "WRITE" => \A n \in Nat : disk[s] <= n => disk'[s] <= n
  BY <1>9, <1>10
<1>13. Fits(s)'
  <2>1. CASE m.live
    <3>1. /\ sink[s].op \notin {"none", "clean"} /\ m.type = sink[s].step
          /\ sink[s].answer = "none"
      BY <1>6, <2>1 DEF Told
    <3>2. /\ Storage!Performed(s, sink[s].step, ok) /\ sink[s].step \in Storage!Steps
          /\ sink' = [sink EXCEPT ![s].answer = IF ok THEN "ok" ELSE "error"]
      BY <1>2, <1>4, <1>5, <2>1, <3>1
    <3> QED BY <1>6, <3>1, <3>2, AnsweredFits
  <2>2. CASE ~m.live
    <3>1. sink' = sink
      BY <1>2, <2>2
    <3>2. CASE m.type = "WRITE"
      <4>1. \/ sink[s].op = "write" /\ sink[s].answer = "error"
            \/ sink[s].op = "undo"
            \/ sink[s].st \in {"aborted", "removed"}
        BY <1>6, <2>2, <3>2 DEF Told
      <4> QED BY <1>6, <1>11, <3>1, <4>1 DEF Fits, Storage!NoFile
    <3>3. CASE m.type # "WRITE"
      BY <1>6, <1>10, <1>11, <1>12, <3>1, <3>3 DEF Fits, Storage!NoFile
    <3> QED BY <3>2, <3>3
  <2> QED BY <2>1, <2>2
<1>14. /\ Len(inbox') = Len(inbox) - 1
       /\ \A i \in 1 .. Len(inbox') : /\ i + 1 \in 1 .. Len(inbox) /\ i + 1 # 1
                                      /\ inbox'[i] = inbox[i + 1]
  BY <1>1
<1>15. InLine(s)'
  <2>1. ASSUME NEW i \in 1 .. Len(inbox), i # 1, inbox[i].sink = s
        PROVE  /\ Told(s, inbox[i])
               /\ m.live => ~inbox[i].live
               /\ m.type = "WRITE" => inbox[i].type # "WRITE"
    BY <1>3, <1>4, <1>6, <2>1 DEF InLine
  <2>2. ASSUME NEW i \in 1 .. Len(inbox'), inbox'[i].sink = s
        PROVE  Told(s, inbox[i])'
    <3>1. PICK q : q = inbox'[i]
      OBVIOUS
    <3>2. /\ Told(s, q)
          /\ m.live => ~q.live
          /\ m.type = "WRITE" => q.type # "WRITE"
      BY <1>14, <2>1, <2>2, <3>1
    <3>3. PICK r : r = [sink[s] EXCEPT !.answer = IF ok THEN "ok" ELSE "error"]
      OBVIOUS
    <3>4. r.op = sink[s].op /\ r.step = sink[s].step /\ r.st = sink[s].st
      BY <1>7, <3>3 DEF SinkRecord, SinkFields
    <3>5. sink'[s] = IF m.live THEN r ELSE sink[s]
      BY <1>2, <1>4, <1>7, <3>3
    <3>6. mode' = "worker" /\ (q.live => /\ sink'[s].op \notin {"none", "clean"}
                                         /\ q.type = sink'[s].step
                                         /\ sink'[s].answer = "none")
      BY <1>1, <3>2, <3>5 DEF Told
    <3>7. ASSUME q.type = "WRITE"
          PROVE  /\ disk'[s] < Size /\ Size # 0
                 /\ \/ q.live
                    \/ sink'[s].op = "write" /\ sink'[s].answer = "error"
                    \/ sink'[s].op = "undo"
                    \/ sink'[s].st \in {"aborted", "removed"}
      <4>1. disk[s] < Size /\ Size # 0
        BY <3>2, <3>7 DEF Told
      <4>2. disk'[s] < Size
        BY <1>9, <1>10, <3>2, <3>7, <4>1
      <4>3. CASE ~m.live
        BY <3>2, <3>5, <3>7, <4>1, <4>2, <4>3 DEF Told
      <4>4. CASE m.live
        <5>1. sink[s].answer = "none"
          BY <1>6, <4>4 DEF Told
        <5>2. \/ q.live \/ sink[s].op = "undo" \/ sink[s].st \in {"aborted", "removed"}
          BY <3>2, <3>7, <5>1 DEF Told
        <5> QED BY <3>4, <3>5, <4>1, <4>2, <4>4, <5>2
      <4> QED BY <4>3, <4>4
    <3> QED BY <3>1, <3>6, <3>7 DEF Told
  <2>3. ASSUME NEW i \in 1 .. Len(inbox'), NEW j \in 1 .. Len(inbox'),
               inbox'[i].sink = s, inbox'[j].sink = s,
               \/ inbox'[i].live /\ inbox'[j].live
               \/ inbox'[i].type = "WRITE" /\ inbox'[j].type = "WRITE"
        PROVE  i = j
    <3>1. i + 1 = j + 1
      BY <1>6, <1>14, <2>3 DEF InLine
    <3> QED BY <3>1
  <2> QED BY <2>2, <2>3 DEF InLine, Told
<1>16. \A t \in Sinks : t # s /\ InLine(t) => InLine(t)'
  <2> SUFFICES ASSUME NEW t \in Sinks, t # s, InLine(t)
               PROVE  InLine(t)'
    OBVIOUS
  <2>1. ASSUME NEW i \in 1 .. Len(inbox'), inbox'[i].sink = t
        PROVE  Told(t, inbox[i])'
    <3>1. Told(t, inbox'[i])
      BY <1>14, <2>1 DEF InLine
    <3> QED BY <1>1, <1>8, <3>1 DEF Told
  <2>2. ASSUME NEW i \in 1 .. Len(inbox'), NEW j \in 1 .. Len(inbox'),
               inbox'[i].sink = t, inbox'[j].sink = t,
               \/ inbox'[i].live /\ inbox'[j].live
               \/ inbox'[i].type = "WRITE" /\ inbox'[j].type = "WRITE"
        PROVE  i = j
    <3>1. i + 1 = j + 1
      BY <1>14, <2>2 DEF InLine
    <3> QED BY <3>1
  <2> QED BY <2>1, <2>2 DEF InLine, Told
<1> QED BY <1>1, <1>8, <1>13, <1>15, <1>16, SizesNext

LEMMA WorkerFailsSizes ==
  ASSUME SinkTyped, SizesInv, Storage!WorkerFails
  PROVE  SizesInv'
<1>1. inbox' = <<>> /\ disk' = disk /\ reloads' = reloads
  BY DEF Storage!WorkerFails
<1>2. ASSUME NEW s \in Sinks
      PROVE  Fits(s)'
  <2>1. sink[s] \in SinkRecord /\ Fits(s)
    BY DEF SinkTyped, SizesInv
  <2>2. PICK r : r = [sink[s] EXCEPT !.answer = "error"]
    OBVIOUS
  <2>3. /\ r.op = sink[s].op /\ r.step = sink[s].step /\ r.st = sink[s].st
        /\ r.made = sink[s].made /\ r.written = sink[s].written /\ r.answer = "error"
    BY <2>1, <2>2 DEF SinkRecord, SinkFields
  <2>4. sink'[s] = IF sink[s].op \notin {"none", "clean"} /\ sink[s].answer = "none"
                   THEN r ELSE sink[s]
    BY <2>2 DEF Storage!WorkerFails
  <2> QED BY <1>1, <2>1, <2>3, <2>4 DEF Fits
<1>3. ASSUME NEW s \in Sinks
      PROVE  InLine(s)'
  BY <1>1 DEF InLine
<1> QED BY <1>1, <1>2, <1>3 DEF SizesInv

\* Of a page that has just been loaded.
LEMMA FreshFits ==
  ASSUME NEW s \in Sinks, sink[s] = Storage!Fresh, disk[s] \in Storage!NoFile .. Size
  PROVE  Fits(s)
BY SinkBounds DEF Fits, Storage!Fresh, StepsOf

LEMMA InitializeSizes ==
  ASSUME SinkInv, SizesInv, Storage!Initialize
  PROVE  SizesInv'
<1>1. /\ NothingYet /\ ~ready /\ disk' = [s \in Sinks |-> Storage!NoFile]
      /\ sink' = sink /\ inbox' = inbox /\ reloads' = reloads
  BY DEF SinkInv, Storage!Initialize
<1>2. Storage!NoFile \in Storage!NoFile .. Size
  BY SinkBounds DEF Storage!NoFile
<1>3. ASSUME NEW s \in Sinks
      PROVE  Fits(s)' /\ InLine(s)'
  <2>1. sink'[s] = Storage!Fresh /\ disk'[s] \in Storage!NoFile .. Size /\ inbox' = <<>>
    BY <1>1, <1>2 DEF NothingYet
  <2>2. Fits(s)'
    BY <2>1, SinkBounds DEF Fits, Storage!Fresh, StepsOf
  <2> QED BY <2>1, <2>2 DEF InLine
<1> QED BY <1>1, <1>3 DEF SizesInv

LEMMA ReloadSizes ==
  ASSUME SizesInv, Storage!Reload
  PROVE  SizesInv'
<1>1. /\ sink' = [s \in Sinks |-> Storage!Fresh] /\ inbox' = <<>> /\ disk' = disk
      /\ reloads < MaxReload /\ reloads' = reloads + 1
  BY DEF Storage!Reload
<1>2. ASSUME NEW s \in Sinks
      PROVE  Fits(s)' /\ InLine(s)'
  <2>1. sink'[s] = Storage!Fresh /\ disk'[s] \in Storage!NoFile .. Size
    BY <1>1 DEF SizesInv, Fits, Storage!NoFile
  <2>2. Fits(s)'
    BY <2>1, SinkBounds DEF Fits, Storage!Fresh, StepsOf
  <2> QED BY <1>1, <2>2 DEF InLine
<1>3. reloads' \in 0 .. MaxReload
  BY <1>1, SinkBounds DEF SizesInv
<1> QED BY <1>2, <1>3 DEF SizesInv

LEMMA SizesStart == ASSUME Storage!Init PROVE SizesInv
<1>1. reloads \in 0 .. MaxReload
  BY SinkBounds DEF Storage!Init
<1>2. ASSUME NEW s \in Sinks
      PROVE  Fits(s) /\ InLine(s)
  <2>1. sink[s] = Storage!Fresh /\ disk[s] = Storage!NoFile /\ inbox = <<>>
    BY DEF Storage!Init
  <2>2. Storage!NoFile \in Storage!NoFile .. Size
    BY SinkBounds DEF Storage!NoFile
  <2> QED BY <2>1, <2>2, FreshFits DEF InLine
<1> QED BY <1>1, <1>2 DEF SizesInv

LEMMA SizesStep ==
  ASSUME SinkInv, SinkInv', SizesInv, Storage!Next
  PROVE  SizesInv'
BY InitializeSizes, ReloadSizes, CreateSizes, CallSizes, NextCallSizes, ContinueSizes,
   CleanUpSizes, StorageAnswersSizes, RequestTimeoutSizes, WorkerHandlesSizes,
   WorkerFailsSizes
   DEF Storage!Next, SinkInv

LEMMA SizesStutter ==
  ASSUME SizesInv, UNCHANGED sinkVars PROVE SizesInv'
BY DEF sinkVars, SizesInv, Fits, InLine, Told

LEMMA SinksTyped ==
  ASSUME SinkInv, SizesInv PROVE Storage!TypeOK
<1>1. SinkTyped
  BY DEF SinkInv
<1>2. ASSUME NEW s \in Sinks
      PROVE  /\ sink[s] \in [st : {"none", "open", "closed", "aborted", "removed", "failed"},
                             written : 0 .. Size, made : 0 .. MaxCalls, op : Storage!Ops,
                             step : Storage!Steps \cup {"none"},
                             answer : {"none", "ok", "error"}]
             /\ disk[s] \in Storage!NoFile .. Size
  <2>1. sink[s] \in SinkFields /\ sink[s].made <= MaxCalls /\ sink[s].written <= Size
    BY <1>1 DEF SinkTyped, SinkRecord, SizesInv, Fits
  <2>2. sink[s].made \in 0 .. MaxCalls /\ sink[s].written \in 0 .. Size
    BY <2>1, SinkBounds DEF SinkFields
  <2>3. disk[s] \in Storage!NoFile .. Size
    BY DEF SizesInv, Fits
  <2> QED BY <2>1, <2>2, <2>3 DEF SinkFields
<1>3. /\ sink \in [Sinks -> [st : {"none", "open", "closed", "aborted", "removed", "failed"},
                             written : 0 .. Size, made : 0 .. MaxCalls, op : Storage!Ops,
                             step : Storage!Steps \cup {"none"},
                             answer : {"none", "ok", "error"}]]
      /\ disk \in [Sinks -> Storage!NoFile .. Size]
  <2>1. sink = [s \in Sinks |-> sink[s]] /\ disk = [s \in Sinks |-> disk[s]]
    BY <1>1 DEF SinkTyped
  <2> QED BY <1>2, <2>1
<1>4. inbox \in Seq([sink : Sinks, type : Storage!Steps, live : BOOLEAN])
  BY <1>1 DEF SinkTyped, SinkRequest
<1>5. {ready, worker} \subseteq BOOLEAN /\ {reserved, excused} \subseteq SUBSET Sinks
  BY <1>1 DEF SinkTyped
<1> QED BY <1>1, <1>3, <1>4, <1>5 DEF SinkTyped, SizesInv, Storage!TypeOK

-----------------------------------------------------------------------------
(* The types of all parts.                                                 *)

SchedBounds(B, n) ==
  /\ events \in 0 .. MaxEvents
  /\ room.gen <= events
  /\ \A b \in B : entry[b].room <= MaxRoom /\ entry[b].gen <= MaxEvents
  /\ at \in [B \X Receivers -> 0 .. n + 1]

\* The first file that may start is a file, if there is one.
LEMMA GoesTo ==
  ASSUME NEW CONSTANT B, NEW CONSTANT n \in Nat, NEW t, NEW e, NEW f \in Nat \ {0}, NEW st
  PROVE  Sending(B, n)!GoOn(t, e, f, st).at \in 0 .. n + 1
<1> DEFINE S == {g \in f .. n : Sending(B, n)!MayStart(e, t[2], g)}
           L == CHOOSE g \in S : \A h \in S : g <= h
<1>1. Sending(B, n)!GoOn(t, e, f, st).at = IF S = {} THEN n + 1 ELSE L
  BY DEF Sending!GoOn
<1>2. S \subseteq Nat /\ S \subseteq 0 .. n + 1
  OBVIOUS
<1> HIDE DEF S
<1>3. S # {} => \E g \in S : \A h \in S : g <= h
  BY <1>2, Least
<1>4. S # {} => L \in S
  BY <1>3
<1> HIDE DEF L
<1>5. n + 1 \in 0 .. n + 1
  OBVIOUS
<1>6. (IF S = {} THEN n + 1 ELSE L) \in 0 .. n + 1
  BY <1>2, <1>4, <1>5, Zenon
<1> QED BY <1>1, <1>6, Zenon

LEMMA ScheduledTo ==
  ASSUME NEW CONSTANT B, NEW CONSTANT n \in Nat, NEW s, NEW ent, NEW ph, NEW rejected,
         at \in [B \X Receivers -> 0 .. n + 1], Sending(B, n)!Scheduled(s, ent, ph, rejected)
  PROVE  at' \in [B \X Receivers -> 0 .. n + 1]
<1> DEFINE On(t) == Sending(B, n)!GoOn(t, ent[t[1]], 1, status[t]).at
<1>1. PICK begun : at' = [t \in Sending(B, n)!Task |-> IF t \in begun THEN On(t) ELSE at[t]]
  BY DEF Sending!Scheduled
<1>2. Sending(B, n)!Task = B \X Receivers
  BY DEF Sending!Task, Sending!Member, Receivers
<1>3. \A t \in B \X Receivers : On(t) \in 0 .. n + 1
  BY GoesTo
<1> HIDE DEF On
<1> QED BY <1>1, <1>2, <1>3

LEMMA BoundsStep ==
  ASSUME NEW CONSTANT B, NEW CONSTANT n \in Nat, SchedTyped(B, n), SchedInv(B),
         SchedBounds(B, n), Sending(B, n)!Next
  PROVE  SchedBounds(B, n)'
<1>1. Sending(B, n)!Task = B \X Receivers /\ Sending(B, n)!Member = Receivers
  BY DEF Sending!Task, Sending!Member, Receivers
<1>2. /\ room \in [id : Nat, open : BOOLEAN, gen : Nat]
      /\ entry \in [B -> [room : Nat, gen : Nat, listed : BOOLEAN,
                          cancelled : SUBSET (1 .. n), invalid : SUBSET Receivers]]
      /\ at \in [B \X Receivers -> 0 .. n + 1]
      /\ room.id \in 1 .. MaxRoom /\ events \in 0 .. MaxEvents /\ room.gen <= events
      /\ MaxEvents \in Nat /\ MaxRoom \in Nat
  BY <1>1, BatchBounds DEF SchedTyped, SchedInv, SchedBounds
<1>3. ASSUME room' = room, events' = events, at' \in [B \X Receivers -> 0 .. n + 1], entry' = entry
      PROVE  SchedBounds(B, n)'
  BY <1>3 DEF SchedBounds
<1>4. ASSUME NEW t \in B \X Receivers,
             \/ Sending(B, n)!Granted(t) \/ Sending(B, n)!Dialled(t)
             \/ Sending(B, n)!Offer(t) \/ Sending(B, n)!Accepted(t)
      PROVE  SchedBounds(B, n)'
  <2>1. room' = room /\ events' = events /\ at' = at /\ entry' = entry
    BY <1>4 DEF Sending!Granted, Sending!Dialled, Sending!Offer, Sending!Accepted,
                Sending!Proceed
  <2> QED BY <1>2, <1>3, <2>1
<1>5. ASSUME NEW t \in B \X Receivers,
             Sending(B, n)!Rejected(t) \/ Sending(B, n)!Done(t) \/ Sending(B, n)!Fails(t)
      PROVE  SchedBounds(B, n)'
  <2>1. PICK st : Sending(B, n)!FileEnds(t, st)
    BY <1>5 DEF Sending!Rejected, Sending!Done, Sending!Fails
  <2>2. PICK e, f, o : /\ room' = room /\ events' = events /\ entry' = entry
                       /\ f = at[t] + 1
                       /\ at' = [at EXCEPT ![t] = Sending(B, n)!GoOn(t, e, f, o).at]
    BY <2>1 DEF Sending!FileEnds
  <2>3. f \in Nat \ {0}
    BY <1>2, <2>2
  <2>4. Sending(B, n)!GoOn(t, e, f, o).at \in 0 .. n + 1
    BY <2>3, GoesTo
  <2> QED BY <1>2, <1>3, <2>2, <2>4
<1>6. ASSUME NEW t \in B \X Receivers, Sending(B, n)!TaskSettles(t)
      PROVE  SchedBounds(B, n)'
  <2>1. /\ room' = room /\ events' = events /\ entry' = entry
        /\ \E s, ph : Sending(B, n)!Scheduled(s, entry, ph, {})
    BY <1>6 DEF Sending!TaskSettles
  <2> QED BY <1>2, <1>3, <2>1, ScheduledTo
<1>7. ASSUME NEW b \in B, Sending(B, n)!EnqueueGroupFiles(b)
      PROVE  SchedBounds(B, n)'
  <2> DEFINE fresh == [Sending(B, n)!NoEntry EXCEPT !.room = room.id, !.gen = room.gen,
                                                    !.listed = TRUE]
             ent == [entry EXCEPT ![b] = fresh]
  <2>1. /\ room' = room /\ events' = events /\ entry' = ent
        /\ \E s, ph, rejected : Sending(B, n)!Scheduled(s, ent, ph, rejected)
    BY <1>7 DEF Sending!EnqueueGroupFiles
  <2>2. fresh.room = room.id /\ fresh.gen = room.gen
    BY DEF Sending!NoEntry
  <2> HIDE DEF fresh
  <2>3. \A c \in B : entry'[c].room <= MaxRoom /\ entry'[c].gen <= MaxEvents
    <3>1. fresh.room <= MaxRoom /\ fresh.gen <= MaxEvents
      BY <1>2, <2>2
    <3> QED BY <1>2, <2>1, <3>1 DEF SchedBounds
  <2>4. at' \in [B \X Receivers -> 0 .. n + 1]
    BY <1>2, <2>1, ScheduledTo
  <2> QED BY <1>2, <2>1, <2>3, <2>4 DEF SchedBounds
<1>8. ASSUME entry' \in [B -> [room : Nat, gen : Nat, listed : BOOLEAN,
                               cancelled : SUBSET (1 .. n), invalid : SUBSET Receivers]],
             \A c \in B : entry'[c].room = entry[c].room /\ entry'[c].gen = entry[c].gen,
             at' \in [B \X Receivers -> 0 .. n + 1],
             \/ room' = room /\ events' = events
             \/ /\ events < MaxEvents /\ events' = events + 1
                /\ room' = room \/ room'.gen = room.gen + 1
      PROVE  SchedBounds(B, n)'
  <2>1. events' \in 0 .. MaxEvents /\ room'.gen <= events'
    BY <1>2, <1>8
  <2> QED BY <1>8, <2>1 DEF SchedBounds
<1>9. ASSUME NEW b \in B, Sending(B, n)!BatchEnds(b)
      PROVE  SchedBounds(B, n)'
  <2>1. /\ entry' = [entry EXCEPT ![b].listed = FALSE]
        /\ room' = room /\ at' = at /\ events' = events
    BY <1>9 DEF Sending!BatchEnds
  <2>2. PICK e : e = [entry[b] EXCEPT !.listed = FALSE]
    OBVIOUS
  <2>3. /\ e \in [room : Nat, gen : Nat, listed : BOOLEAN,
                  cancelled : SUBSET (1 .. n), invalid : SUBSET Receivers]
        /\ e.room = entry[b].room /\ e.gen = entry[b].gen
    BY <1>2, <2>2
  <2>4. entry' = [entry EXCEPT ![b] = e]
    BY <2>1, <2>2
  <2> QED BY <1>2, <1>8, <2>1, <2>3, <2>4
<1>10. ASSUME NEW b \in B, NEW f \in 1 .. n, Sending(B, n)!CancelFile(b, f)
       PROVE  SchedBounds(B, n)'
  <2>1. /\ entry' = [entry EXCEPT ![b].cancelled = @ \cup {f}]
        /\ room' = room /\ at' = at
        /\ events < MaxEvents /\ events' = events + 1
    BY <1>10 DEF Sending!CancelFile, Sending!Event
  <2>2. PICK e : e = [entry[b] EXCEPT !.cancelled = @ \cup {f}]
    OBVIOUS
  <2>3. /\ e \in [room : Nat, gen : Nat, listed : BOOLEAN,
                  cancelled : SUBSET (1 .. n), invalid : SUBSET Receivers]
        /\ e.room = entry[b].room /\ e.gen = entry[b].gen
    BY <1>2, <2>2
  <2>4. entry' = [entry EXCEPT ![b] = e]
    BY <2>1, <2>2
  <2> QED BY <1>2, <1>8, <2>1, <2>3, <2>4
<1>11. ASSUME NEW r \in Receivers, Sending(B, n)!RevokeMember(r)
       PROVE  SchedBounds(B, n)'
  <2>1. /\ entry' = [b \in B |-> IF entry[b].listed
                                 THEN [entry[b] EXCEPT !.invalid = @ \cup {r}]
                                 ELSE entry[b]]
        /\ room' = room /\ at' = at
        /\ events < MaxEvents /\ events' = events + 1
    BY <1>11 DEF Sending!RevokeMember, Sending!Event
  <2>2. ASSUME NEW c \in B
        PROVE  /\ entry'[c] \in [room : Nat, gen : Nat, listed : BOOLEAN,
                                 cancelled : SUBSET (1 .. n), invalid : SUBSET Receivers]
               /\ entry'[c].room = entry[c].room /\ entry'[c].gen = entry[c].gen
    BY <1>2, <2>1
  <2>3. entry' \in [B -> [room : Nat, gen : Nat, listed : BOOLEAN,
                          cancelled : SUBSET (1 .. n), invalid : SUBSET Receivers]]
    BY <2>1, <2>2
  <2> QED BY <1>2, <1>8, <2>1, <2>2, <2>3
<1>12. ASSUME Sending(B, n)!PauseRoom
       PROVE  SchedBounds(B, n)'
  <2>1. /\ \E s, rejected : Sending(B, n)!Scheduled(s, entry, phase, rejected)
        /\ entry' = entry /\ room'.gen = room.gen + 1
        /\ events < MaxEvents /\ events' = events + 1
    BY <1>2, <1>12 DEF Sending!PauseRoom, Sending!StopWaiting, Sending!Event
  <2> QED BY <1>2, <1>8, <2>1, ScheduledTo
<1>13. ASSUME Sending(B, n)!CloseRoom
       PROVE  SchedBounds(B, n)'
  <2> DEFINE ent == [b \in B |-> IF entry[b].listed
                                 THEN [entry[b] EXCEPT !.cancelled = 1 .. n]
                                 ELSE entry[b]]
  <2>1. /\ \E s, ph, rejected : Sending(B, n)!Scheduled(s, ent, ph, rejected)
        /\ entry' = ent /\ room'.gen = room.gen + 1
        /\ events < MaxEvents /\ events' = events + 1
    BY <1>13 DEF Sending!CloseRoom, Sending!StopWaiting, Sending!Event, Sending!FileNo
  <2>2. ASSUME NEW c \in B
        PROVE  /\ ent[c] \in [room : Nat, gen : Nat, listed : BOOLEAN,
                              cancelled : SUBSET (1 .. n), invalid : SUBSET Receivers]
               /\ ent[c].room = entry[c].room /\ ent[c].gen = entry[c].gen
    BY <1>2
  <2>3. ent \in [B -> [room : Nat, gen : Nat, listed : BOOLEAN,
                       cancelled : SUBSET (1 .. n), invalid : SUBSET Receivers]]
    BY <2>2
  <2>4. at' \in [B \X Receivers -> 0 .. n + 1]
    BY <1>2, <2>1, ScheduledTo
  <2> HIDE DEF ent
  <2> QED BY <1>8, <2>1, <2>2, <2>3, <2>4
<1>14. ASSUME Sending(B, n)!ResumeRoom
       PROVE  SchedBounds(B, n)'
  <2>1. /\ entry' = entry /\ at' = at /\ events' = events /\ room'.gen = room.gen
    BY <1>2, <1>14 DEF Sending!ResumeRoom
  <2> QED BY <2>1 DEF SchedBounds
<1> QED
  BY <1>1, <1>4, <1>5, <1>6, <1>7, <1>9, <1>10, <1>11, <1>12, <1>13, <1>14
     DEF Sending!Next, Sending!FileNo

LEMMA BoundsStart ==
  ASSUME NEW CONSTANT B, NEW CONSTANT n \in Nat, Sending(B, n)!Init
  PROVE  SchedBounds(B, n)
<1>1. Sending(B, n)!Task = B \X Receivers
  BY DEF Sending!Task, Sending!Member, Receivers
<1>2. /\ events = 0 /\ room.gen = 0
      /\ entry = [b \in B |-> Sending(B, n)!NoEntry]
      /\ at = [t \in B \X Receivers |-> 0]
  BY <1>1 DEF Sending!Init
<1> QED BY <1>2, BatchBounds DEF SchedBounds, Sending!NoEntry

LEMMA BoundsStutter ==
  ASSUME NEW CONSTANT B, NEW CONSTANT n, SchedBounds(B, n), UNCHANGED schedVars
  PROVE  SchedBounds(B, n)'
BY DEF SchedBounds, schedVars

LEMMA SchedTypes ==
  ASSUME NEW CONSTANT B, NEW CONSTANT n \in Nat, SchedTyped(B, n), SchedInv(B),
         SchedBounds(B, n)
  PROVE  Sending(B, n)!TypeOK
<1>1. /\ Sending(B, n)!Task = B \X Receivers /\ Sending(B, n)!Member = Receivers
      /\ Sending(B, n)!Key = Lanes /\ Sending(B, n)!NoTask = <<>> /\ Sending(B, n)!FileNo = 1 .. n
  BY DEF Sending!Task, Sending!Member, Sending!Key, Sending!NoTask, Sending!FileNo,
         Receivers, Lanes
<1>2. sched \in [lanes : [Lanes -> [exists : BOOLEAN, task : (B \X Receivers) \cup {<<>>},
                                    queue : Seq(B \X Receivers)]],
                 ready : Seq(Lanes), active : 0 .. Maximum, pending : 0 .. MaximumPending]
  BY DEF SchedInv, Booked, SchedRecord, LaneRecord
<1>3. room \in [id : 1 .. MaxRoom, open : BOOLEAN, gen : 0 .. MaxEvents]
  <2>1. /\ room \in [id : Nat, open : BOOLEAN, gen : Nat]
        /\ room.id \in 1 .. MaxRoom /\ room.gen <= events /\ events \in 0 .. MaxEvents
    BY DEF SchedTyped, SchedInv, SchedBounds
  <2>2. room.gen \in 0 .. MaxEvents
    BY <2>1, BatchBounds
  <2> QED BY <2>1, <2>2
<1>4. entry \in [B -> [room : 0 .. MaxRoom, gen : 0 .. MaxEvents, listed : BOOLEAN,
                       cancelled : SUBSET (1 .. n), invalid : SUBSET Receivers]]
  <2>1. entry \in [B -> [room : Nat, gen : Nat, listed : BOOLEAN,
                         cancelled : SUBSET (1 .. n), invalid : SUBSET Receivers]]
    BY <1>1 DEF SchedTyped
  <2>2. \A b \in B : entry[b].room \in 0 .. MaxRoom /\ entry[b].gen \in 0 .. MaxEvents
    BY <2>1, BatchBounds DEF SchedBounds
  <2> QED BY <2>1, <2>2
<1> QED BY <1>1, <1>2, <1>3, <1>4 DEF Sending!TypeOK, SchedTyped, SchedBounds

SizesHoldInv == part = "sinks" => SizesInv

LEMMA SizesHold == Spec => []SizesHoldInv
<1>1. Init => SizesHoldInv
  BY SizesStart DEF Init, SizesHoldInv
<1>2. SinksInv /\ SinksInv' /\ SizesHoldInv /\ [Next]_vars => SizesHoldInv'
  <2> SUFFICES ASSUME SinksInv, SinksInv', SizesHoldInv, [Next]_vars, part' = "sinks"
               PROVE  SizesInv'
    BY DEF SizesHoldInv
  <2>1. part = "sinks" /\ (Storage!Next \/ UNCHANGED sinkVars)
    BY DEF Next, vars, deviceVars
  <2>2. SinkInv /\ SinkInv' /\ SizesInv
    BY <2>1 DEF SinksInv, SizesHoldInv
  <2> QED BY <2>1, <2>2, SizesStep, SizesStutter
<1> QED BY <1>1, <1>2, SinksHold, PTL DEF Spec

BoundsInv == /\ part = "batches" => SchedBounds({x1, x2}, 1)
             /\ part = "files" => SchedBounds({x1}, 2)

LEMMA BoundsHold == Spec => []BoundsInv
<1>1. Init => BoundsInv
  BY BoundsStart DEF Init, BoundsInv
<1>2. BatchesInv /\ SchedulersInv /\ BoundsInv /\ [Next]_vars => BoundsInv'
  <2> SUFFICES ASSUME BatchesInv, SchedulersInv, BoundsInv, [Next]_vars
               PROVE  BoundsInv'
    OBVIOUS
  <2>1. ASSUME part' = "batches"
        PROVE  SchedBounds({x1, x2}, 1)'
    <3>1. part = "batches" /\ (Sending({x1, x2}, 1)!Next \/ UNCHANGED schedVars)
      BY <2>1 DEF Next, vars
    <3>2. SchedTyped({x1, x2}, 1) /\ SchedInv({x1, x2}) /\ SchedBounds({x1, x2}, 1)
      BY <3>1 DEF BatchesInv, BatchInv, SchedulersInv, BoundsInv
    <3> QED BY <3>1, <3>2, BoundsStep, BoundsStutter
  <2>2. ASSUME part' = "files"
        PROVE  SchedBounds({x1}, 2)'
    <3>1. part = "files" /\ (Sending({x1}, 2)!Next \/ UNCHANGED schedVars)
      BY <2>2 DEF Next, vars
    <3>2. SchedTyped({x1}, 2) /\ SchedInv({x1}) /\ SchedBounds({x1}, 2)
      BY <3>1 DEF BatchesInv, BatchInv, SchedulersInv, BoundsInv
    <3> QED BY <3>1, <3>2, BoundsStep, BoundsStutter
  <2> QED BY <2>1, <2>2 DEF BoundsInv
<1> QED BY <1>1, <1>2, BatchesHold, SchedulersHold, PTL DEF Spec

LEMMA FileTypes ==
  ASSUME NEW CONSTANT F, NEW CONSTANT from, NEW CONSTANT m, FileTyped(F, m)
  PROVE  Moving(F, from, m)!TypeOK
BY DEF FileTyped, Moving!TypeOK, Moving!Frames, Side, Sender, Receiver, FileFrame, FileLine,
       OnDisk

LEMMA CallTypes ==
  ASSUME NEW CONSTANT n, NEW CONSTANT k, CallTyped(n, k)
  PROVE  Calling(n, k)!TypeOK
BY DEF CallTyped, Calling!TypeOK, Calling!Call, Page, PhoneRecord, TaskRecord,
       RestartRecord, CallMessage

LEMMA SessionTypes == ASSUME Sessions!BridgeInv PROVE Bridge!TypeOK
<1>1. Sessions!TypeOK
  BY SessionsAssumed, Sessions!BridgeTypes
<1> QED BY <1>1 DEF Bridge!TypeOK, Sessions!TypeOK,
                    Bridge!Cardinality, Sessions!Cardinality

KnownPart ==
  part \in {"sameWay", "bothWays", "texts", "batches", "files", "sinks",
            "wakeLock", "bridge", "queue", "heartbeat", "calls", "restarts"}

LEMMA PartKnown == Spec => []KnownPart
<1>1. Init => KnownPart
  BY DEF Init, KnownPart
<1>2. KnownPart /\ [Next]_vars => KnownPart'
  BY DEF KnownPart, Next, vars
<1> QED BY <1>1, <1>2, PTL DEF Spec

\* Every part of a page stays within its declared types, and its counters within
\* what the code bounds them by: no budget exceeds AutoItems, no sink writes more
\* chunks than the file has, and the scheduler's counters keep their limits.
THEOREM PagesTyped == Spec => []TypeOK
<1> DEFINE TextsInv == part = "texts" => TextInv
           QueuesInv == part = "queue" => QueueInv
<1>1. ASSUME KnownPart, FilesInv, TextsInv, BatchesInv, SchedulersInv, BoundsInv, SinksInv,
             SizesHoldInv, LockInv, BridgeHoldsInv, QueuesInv, BeatHoldsInv, CallsInv
      PROVE  TypeOK
  <2>1. part = "sameWay" => Moving({x1, x2}, FromA, 2)!TypeOK
    BY <1>1, FileTypes DEF FilesInv, FileInv
  <2>2. part = "bothWays" => Moving({x1, y}, FromBoth, 1)!TypeOK
    BY <1>1, FileTypes DEF FilesInv, FileInv
  <2>3. part = "texts" => Texts!TypeOK
    BY <1>1 DEF TextInv
  <2>4. part = "batches" => Sending({x1, x2}, 1)!TypeOK
    BY <1>1, SchedTypes DEF BatchesInv, BatchInv, SchedulersInv, BoundsInv
  <2>5. part = "files" => Sending({x1}, 2)!TypeOK
    BY <1>1, SchedTypes DEF BatchesInv, BatchInv, SchedulersInv, BoundsInv
  <2>6. part = "sinks" => Storage!TypeOK
    BY <1>1, SinksTyped DEF SinksInv, SizesHoldInv
  <2>7. part = "wakeLock" => Lock!TypeOK
    BY <1>1 DEF LockInv
  <2>8. part = "bridge" => Bridge!TypeOK
    BY <1>1, SessionTypes DEF BridgeHoldsInv
  <2>9. part = "queue" => Queue!TypeOK
    BY <1>1 DEF QueueInv, QueueShape
  <2>10. part = "heartbeat" => Beat!TypeOK
    BY <1>1 DEF BeatHoldsInv, BeatInv
  <2>11. part = "calls" => Calling(2, 1)!TypeOK
    BY <1>1, CallTypes DEF CallsInv, CallInv
  <2>12. part = "restarts" => Calling(1, 2)!TypeOK
    BY <1>1, CallTypes DEF CallsInv, CallInv
  <2> QED
    BY <1>1, <2>1, <2>2, <2>3, <2>4, <2>5, <2>6, <2>7, <2>8, <2>9, <2>10, <2>11, <2>12, Zenon
       DEF TypeOK, KnownPart
<1> QED
  BY <1>1, PartKnown, FilesHold, TextsHold, BatchesHold, SchedulersHold, BoundsHold, SinksHold,
     SizesHold, LockHolds, BridgeHolds, QueueHolds, BeatHolds, CallsHold, PTL

-----------------------------------------------------------------------------
(* Which group files start, and which are written.                         *)

\* What the scheduler's step does to a task: one that begins comes to its first
\* file, one that is thrown away is settled, the others are as ph has them.
LEMMA ScheduledTask ==
  ASSUME NEW CONSTANT B, NEW CONSTANT n, NEW s, NEW ent, NEW ph, NEW rejected,
         Sending(B, n)!Scheduled(s, ent, ph, rejected), NEW t \in B \X Receivers
  PROVE  \/ Runs(s, t) /\ ~Runs(sched, t) /\ phase'[t] \in {"ticket", "over"}
         \/ /\ Runs(s, t) => Runs(sched, t)
            /\ phase'[t] = IF t \in rejected THEN "settled" ELSE ph[t]
            /\ at'[t] = at[t]
<1> DEFINE begun == Sending(B, n)!Running(s) \ Sending(B, n)!Running(sched)
           On(u) == Sending(B, n)!GoOn(u, ent[u[1]], 1, status[u])
<1>1. Sending(B, n)!Task = B \X Receivers /\ Sending(B, n)!Key = Lanes
  BY DEF Sending!Task, Sending!Key, Sending!Member, Lanes, Receivers
<1>2. /\ phase' = [u \in Sending(B, n)!Task |->
                     IF u \in begun THEN On(u).phase
                     ELSE IF u \in rejected THEN "settled" ELSE ph[u]]
      /\ at' = [u \in Sending(B, n)!Task |-> IF u \in begun THEN On(u).at ELSE at[u]]
  BY DEF Sending!Scheduled
<1>3. On(t).phase \in {"ticket", "over"}
  BY DEF Sending!GoOn
<1>4. t \in begun <=> Runs(s, t) /\ ~Runs(sched, t)
  <2>1. t # <<>>
    BY TaskIsNone
  <2> QED BY <1>1, <2>1 DEF Sending!Running, Sending!NoTask, Runs
<1> HIDE DEF begun, On
<1>5. CASE t \in begun
  BY <1>1, <1>2, <1>3, <1>4, <1>5
<1>6. CASE t \notin begun
  BY <1>1, <1>2, <1>4, <1>6
<1> QED BY <1>5, <1>6

LEMMA ScheduledSets ==
  ASSUME NEW CONSTANT B, NEW CONSTANT n, NEW s, NEW ent, NEW ph, NEW rejected,
         Sending(B, n)!Scheduled(s, ent, ph, rejected)
  PROVE  sched' = s
BY DEF Sending!Scheduled

\* A task in hand that does not run waits in the lane of its room; and what runs
\* or waits in a room is in hand.
LEMMA WaitsInLane ==
  ASSUME NEW CONSTANT B, NEW CONSTANT n, NEW s, NEW ent, Booked(B, s, ent),
         NEW t \in InHand(B, s), ~Runs(s, t), NEW scope, scope = ent[t[1]].room
  PROVE  t \in Sending(B, n)!Waiting(s, scope)
<1>1. t \in B \X Receivers
  BY DEF InHand
<1>2. PICK k \in Lanes : Has(s.lanes[k], t)
  BY DEF InHand
<1>3. k = <<scope, t[2]>> /\ t[2] \in Receivers
  BY <1>1, <1>2 DEF Booked, LaneFits
<1>4. PICK i \in 1 .. Len(s.lanes[k].queue) : s.lanes[k].queue[i] = t
  BY <1>2 DEF Has, Queues, Runs
<1>5. s.lanes[k].queue \in Seq(B \X Receivers)
  BY DEF Booked, LaneFits, LaneRecord
<1>6. i \in DOMAIN s.lanes[k].queue
  BY <1>4, <1>5
<1> DEFINE Q(r) == s.lanes[<<scope, r>>].queue
<1>7. t \in {Q(t[2])[j] : j \in DOMAIN Q(t[2])}
  BY <1>3, <1>4, <1>6
<1>8. Sending(B, n)!Waiting(s, scope) = UNION {{Q(r)[j] : j \in DOMAIN Q(r)} : r \in Receivers}
  BY DEF Sending!Waiting, Sending!Member, Receivers
<1> HIDE DEF Q
<1> QED BY <1>3, <1>7, <1>8

LEMMA KeptInHand ==
  ASSUME NEW CONSTANT B, NEW CONSTANT n, NEW s, NEW ent, Booked(B, s, ent),
         NEW scope \in 1 .. MaxRoom, NEW t,
         t \in Sending(B, n)!Running(s) \/ t \in Sending(B, n)!Waiting(s, scope)
  PROVE  t \in InHand(B, s)
<1>1. \A k \in Lanes : s.lanes[k] \in LaneRecord(B)
  BY DEF Booked, LaneFits
<1>2. CASE t \in Sending(B, n)!Running(s)
  <2>1. PICK k \in Lanes : s.lanes[k].task = t /\ t # <<>>
    BY <1>2 DEF Sending!Running, Sending!NoTask, Sending!Key, Sending!Member, Lanes, Receivers
  <2>2. t \in B \X Receivers
    BY <1>1, <2>1 DEF LaneRecord
  <2> QED BY <2>1, <2>2 DEF InHand, Has
<1>3. CASE t \in Sending(B, n)!Waiting(s, scope)
  <2>1. PICK r \in Receivers : t \in {s.lanes[<<scope, r>>].queue[j] :
                                        j \in DOMAIN s.lanes[<<scope, r>>].queue}
    BY <1>3 DEF Sending!Waiting, Sending!Member, Receivers
  <2>2. PICK k \in Lanes : k = <<scope, r>>
    BY DEF Lanes
  <2>3. PICK j \in DOMAIN s.lanes[k].queue : s.lanes[k].queue[j] = t
    BY <2>1, <2>2
  <2>4. s.lanes[k].queue \in Seq(B \X Receivers)
    BY <1>1 DEF LaneRecord
  <2>5. j \in 1 .. Len(s.lanes[k].queue) /\ t \in B \X Receivers
    BY <2>3, <2>4
  <2> QED BY <2>3, <2>5 DEF InHand, Has, Queues
<1> QED BY <1>2, <1>3

\* Every task that waits is in its queue, and belongs to the open room and its
\* generation: a pause and a closing leave none behind.
Waits(B) ==
  \A t \in B \X Receivers : phase[t] = "waiting" =>
    /\ t \in InHand(B, sched)
    /\ ~Runs(sched, t)
    /\ room.open
    /\ entry[t[1]].room = room.id
    /\ entry[t[1]].gen = room.gen

LEMMA WaitsNext ==
  ASSUME NEW CONSTANT B,
         \A t \in B \X Receivers : phase'[t] = "waiting" =>
           /\ t \in InHand(B, sched') /\ ~Runs(sched', t)
           /\ room'.open
           /\ entry'[t[1]].room = room'.id /\ entry'[t[1]].gen = room'.gen
  PROVE  Waits(B)'
BY DEF Waits, InHand, Has, Queues, Runs, Lanes, Receivers

\* A step that leaves the queues, and what a room or a batch is known by.
LEMMA WaitsKept ==
  ASSUME NEW CONSTANT B, NEW CONSTANT n, Waits(B), sched' = sched,
         room'.id = room.id /\ room'.gen = room.gen /\ (room.open => room'.open),
         \A b \in B : entry'[b].room = entry[b].room /\ entry'[b].gen = entry[b].gen,
         \A t \in B \X Receivers : phase'[t] = "waiting" <=> phase[t] = "waiting"
  PROVE  Waits(B)' /\ Sending(B, n)!StartsCurrent
<1>1. Sending(B, n)!Task = B \X Receivers
  BY DEF Sending!Task, Sending!Member, Receivers
<1>2. Sending(B, n)!StartsCurrent
  BY <1>1 DEF Sending!StartsCurrent
<1>3. ASSUME NEW t \in B \X Receivers, phase'[t] = "waiting"
      PROVE  /\ t \in InHand(B, sched') /\ ~Runs(sched', t)
             /\ room'.open
             /\ entry'[t[1]].room = room'.id /\ entry'[t[1]].gen = room'.gen
  <2>1. t[1] \in B
    OBVIOUS
  <2>2. /\ t \in InHand(B, sched) /\ ~Runs(sched, t) /\ room.open
        /\ entry[t[1]].room = room.id /\ entry[t[1]].gen = room.gen
    BY <1>3 DEF Waits
  <2> QED BY <2>1, <2>2
<1> QED BY <1>2, <1>3, WaitsNext

\* A batch is given to the scheduler: of its tasks those that were taken in are
\* `kept`, and wait.
LEMMA GivenOut ==
  ASSUME NEW CONSTANT B, NEW CONSTANT n, NEW b \in B, NEW x, NEW kept,
         Sending(B, n)!EnqueueGroupFiles(b),
         x = Sending(B, n)!AllEnqueued(b),
         kept = {t \in {b} \X Receivers : t \in Sending(B, n)!Running(x)
                                          \/ t \in Sending(B, n)!Waiting(x, room.id)}
  PROVE  \E ph, rejected :
           /\ Sending(B, n)!Scheduled(x, entry', ph, rejected)
           /\ \A t \in B \X Receivers :
                ph[t] = IF t \in kept THEN "waiting" ELSE phase[t]
<1> DEFINE ph == [t \in B \X Receivers |-> IF t \in kept THEN "waiting" ELSE phase[t]]
           rejected == ({b} \X Receivers) \ kept
<1>1. Sending(B, n)!Task = B \X Receivers /\ Sending(B, n)!Member = Receivers
  BY DEF Sending!Task, Sending!Member, Receivers
<1>2. Sending(B, n)!Scheduled(x, entry', ph, rejected)
  BY <1>1 DEF Sending!EnqueueGroupFiles
<1>3. \A t \in B \X Receivers : ph[t] = IF t \in kept THEN "waiting" ELSE phase[t]
  OBVIOUS
<1> HIDE DEF ph, rejected
<1> QED BY <1>2, <1>3

LEMMA CurrentStep ==
  ASSUME NEW CONSTANT B, NEW CONSTANT n, IsFiniteSet(B),
         SchedTyped(B, n), SchedInv(B), Waits(B), Sending(B, n)!Next
  PROVE  Waits(B)' /\ Sending(B, n)!StartsCurrent
<1>1. Sending(B, n)!Task = B \X Receivers /\ Sending(B, n)!Member = Receivers
  BY DEF Sending!Task, Sending!Member, Receivers
<1>2. /\ phase \in [B \X Receivers -> {"none", "waiting", "ticket", "dialing", "magic",
                                       "offered", "sending", "cut", "over", "settled"}]
      /\ room \in [id : Nat, open : BOOLEAN, gen : Nat]
      /\ entry \in [B -> [room : Nat, gen : Nat, listed : BOOLEAN,
                          cancelled : SUBSET (1 .. n), invalid : SUBSET Receivers]]
  BY <1>1 DEF SchedTyped
<1>3. /\ Booked(B, sched, entry) /\ FullIfReady(sched) /\ room.id \in 1 .. MaxRoom
      /\ \A t \in B \X Receivers : phase[t] \in Working => Runs(sched, t)
  BY DEF SchedInv
<1>4. \A t \in B \X Receivers : phase[t] = "waiting" =>
        /\ t \in InHand(B, sched) /\ ~Runs(sched, t)
        /\ room.open /\ entry[t[1]].room = room.id /\ entry[t[1]].gen = room.gen
  BY DEF Waits
<1>5. ASSUME NEW t \in B \X Receivers, phase[t] # "waiting",
             sched' = sched, room' = room, entry' = entry,
             NEW to, to # "waiting", phase' = [phase EXCEPT ![t] = to]
      PROVE  Waits(B)' /\ Sending(B, n)!StartsCurrent
  <2>1. \A u \in B \X Receivers : phase'[u] = "waiting" <=> phase[u] = "waiting"
    BY <1>2, <1>5
  <2> QED BY <1>5, <2>1, WaitsKept
<1>6. ASSUME NEW t \in B \X Receivers,
             \/ Sending(B, n)!Granted(t) \/ Sending(B, n)!Dialled(t)
             \/ Sending(B, n)!Offer(t) \/ Sending(B, n)!Accepted(t)
      PROVE  Waits(B)' /\ Sending(B, n)!StartsCurrent
  <2>1. /\ phase[t] # "waiting" /\ sched' = sched /\ room' = room /\ entry' = entry
        /\ \E to : to # "waiting" /\ phase' = [phase EXCEPT ![t] = to]
    BY <1>6 DEF Sending!Granted, Sending!Dialled, Sending!Proceed, Sending!Offer,
                Sending!Accepted
  <2> QED BY <1>5, <2>1
<1>7. ASSUME NEW t \in B \X Receivers,
             Sending(B, n)!Rejected(t) \/ Sending(B, n)!Done(t) \/ Sending(B, n)!Fails(t)
      PROVE  Waits(B)' /\ Sending(B, n)!StartsCurrent
  <2>1. PICK st : phase[t] # "waiting" /\ Sending(B, n)!FileEnds(t, st)
    BY <1>7 DEF Sending!Rejected, Sending!Done, Sending!Fails
  <2>2. PICK to : /\ to = Sending(B, n)!GoOn(t, entry[t[1]], at[t] + 1,
                                             [status[t] EXCEPT ![at[t]] = st]).phase
                  /\ sched' = sched /\ room' = room /\ entry' = entry
                  /\ phase' = [phase EXCEPT ![t] = to]
    BY <2>1 DEF Sending!FileEnds
  <2>3. to # "waiting"
    BY <2>2 DEF Sending!GoOn
  <2> QED BY <1>5, <2>1, <2>2, <2>3
<1>8. ASSUME NEW t \in B \X Receivers, Sending(B, n)!TaskSettles(t)
      PROVE  Waits(B)' /\ Sending(B, n)!StartsCurrent
  <2> DEFINE k == <<entry[t[1]].room, t[2]>>
             ph == [phase EXCEPT ![t] = "settled"]
  <2>1. PICK x : /\ x = Sending(B, n)!TaskOver(sched, k)
                 /\ Sending(B, n)!Scheduled(x, entry, ph, {})
                 /\ phase[t] = "over" /\ room' = room /\ entry' = entry
    BY <1>8 DEF Sending!TaskSettles, Sending!LaneOf
  <2>2. k \in Lanes /\ sched.lanes[k].task = t
    <3>1. PICK j \in Lanes : sched.lanes[j].task = t
      BY <1>3, <2>1 DEF Working, Runs
    <3>2. j = <<entry[t[1]].room, t[2]>>
      BY <1>3, <3>1 DEF Booked, LaneFits, Has
    <3> QED BY <3>1, <3>2
  <2>3. PICK s : s = sched
    OBVIOUS
  <2>4. InHand(B, x) = InHand(B, s) \ {t}
    <3> HIDE DEF k
    <3> QED BY <1>3, <2>1, <2>2, <2>3, SettleBooked
  <2>5. sched' = x
    <3> HIDE DEF k, ph
    <3> QED BY <2>1, ScheduledSets
  <2>6. ASSUME NEW u \in B \X Receivers, phase'[u] = "waiting"
        PROVE  /\ u \in InHand(B, sched') /\ ~Runs(sched', u)
               /\ room'.open
               /\ entry'[u[1]].room = room'.id /\ entry'[u[1]].gen = room'.gen
    <3>1. ph[u] = "waiting" /\ (Runs(x, u) => Runs(sched, u))
      <4> HIDE DEF k, ph
      <4> QED BY <2>1, <2>6, ScheduledTask
    <3>2. u # t /\ phase[u] = "waiting"
      BY <1>2, <3>1
    <3> QED BY <1>4, <2>1, <2>3, <2>4, <2>5, <3>1, <3>2
  <2>7. Sending(B, n)!StartsCurrent
    BY <1>1, <1>4, <2>1 DEF Sending!StartsCurrent
  <2> QED BY <2>6, <2>7, WaitsNext
<1>9. ASSUME NEW b \in B, Sending(B, n)!EnqueueGroupFiles(b)
      PROVE  Waits(B)' /\ Sending(B, n)!StartsCurrent
  <2> DEFINE fresh == [Sending(B, n)!NoEntry EXCEPT !.room = room.id, !.gen = room.gen,
                                                    !.listed = TRUE]
             ent == [entry EXCEPT ![b] = fresh]
  <2>1. PICK x : x = Sending(B, n)!AllEnqueued(b)
    OBVIOUS
  <2>2. PICK kept : kept = {t \in {b} \X Receivers :
                              t \in Sending(B, n)!Running(x)
                              \/ t \in Sending(B, n)!Waiting(x, room.id)}
    OBVIOUS
  <2>3. /\ room' = room /\ entry' = ent /\ room.open
        /\ entry[b] = Sending(B, n)!NoEntry
    BY <1>9 DEF Sending!EnqueueGroupFiles
  <2>4. fresh.room = room.id /\ fresh.gen = room.gen /\ entry[b].room = 0
    BY <2>3 DEF Sending!NoEntry
  <2>5. /\ ent[b].room = room.id /\ ent[b].gen = room.gen
        /\ \A c \in B : c # b => ent[c] = entry[c]
    BY <1>2, <2>4
  <2>6. PICK ph, rejected :
          /\ Sending(B, n)!Scheduled(x, entry', ph, rejected)
          /\ \A t \in B \X Receivers :
               ph[t] = IF t \in kept THEN "waiting" ELSE phase[t]
    BY <1>9, <2>1, <2>2, GivenOut
  <2> HIDE DEF ent
  <2>7. \A t \in InHand(B, sched) : t \in B \X Receivers /\ t[1] # b
    <3>1. \A t \in InHand(B, sched) : entry[t[1]].room \in 1 .. MaxRoom
      BY <1>3, InHandElse
    <3> QED BY <2>4, <3>1 DEF InHand
  <2>8. Booked(B, sched, ent)
    <3>1. \A t \in InHand(B, sched) : ent[t[1]].room = entry[t[1]].room
      BY <2>5, <2>7
    <3> QED BY <1>3, <3>1, BookedElse
  <2>9. Booked(B, x, ent) /\ InHand(B, sched) \subseteq InHand(B, x)
    BY <1>3, <2>1, <2>5, <2>7, <2>8, BatchBooked
  <2>10. sched' = x
    BY <2>6, ScheduledSets
  <2>11. ASSUME NEW u \in B \X Receivers, phase'[u] = "waiting"
         PROVE  /\ u \in InHand(B, sched') /\ ~Runs(sched', u)
                /\ room'.open
                /\ entry'[u[1]].room = room'.id /\ entry'[u[1]].gen = room'.gen
    <3>1. ph[u] = "waiting" /\ (Runs(x, u) => Runs(sched, u))
      BY <2>6, <2>11, ScheduledTask
    <3>2. CASE u \in kept
      <4>1. u[1] = b /\ u \in InHand(B, x)
        BY <1>3, <2>2, <2>9, <3>2, KeptInHand
      <4>2. ~Runs(sched, u)
        BY <2>7, <4>1 DEF Runs, InHand, Has
      <4> QED BY <2>3, <2>5, <2>10, <3>1, <4>1, <4>2
    <3>3. CASE u \notin kept
      <4>1. phase[u] = "waiting"
        BY <2>6, <3>1, <3>3
      <4>2. u[1] \in B /\ u[1] # b
        BY <1>4, <2>7, <4>1
      <4> QED BY <1>4, <2>3, <2>5, <2>9, <2>10, <3>1, <4>1, <4>2
    <3> QED BY <3>2, <3>3
  <2>12. ASSUME NEW u \in B \X Receivers, phase[u] = "waiting"
         PROVE  /\ room'.open
                /\ entry'[u[1]].room = room'.id /\ entry'[u[1]].gen = room'.gen
    <3>1. u[1] \in B /\ u[1] # b
      BY <1>4, <2>7, <2>12
    <3> QED BY <1>4, <2>3, <2>5, <2>12, <3>1
  <2>13. Sending(B, n)!StartsCurrent
    BY <1>1, <2>12 DEF Sending!StartsCurrent
  <2> QED BY <2>11, <2>13, WaitsNext
<1>10. ASSUME NEW ent, NEW ph, Sending(B, n)!StopWaiting(ent, ph),
              \A t \in B \X Receivers : ph[t] = "waiting" => phase[t] = "waiting"
       PROVE  Waits(B)' /\ Sending(B, n)!StartsCurrent
  <2>1. PICK x, s, scope : /\ s = sched /\ scope = room.id
                           /\ x = Sending(B, n)!CancelScope(s, scope)
    OBVIOUS
  <2>2. PICK W : W = Sending(B, n)!Waiting(s, scope)
    OBVIOUS
  <2>3. Sending(B, n)!Scheduled(x, ent, ph, W)
    BY <1>10, <2>1, <2>2 DEF Sending!StopWaiting
  <2>4. Booked(B, s, entry) /\ scope \in 1 .. MaxRoom
    BY <1>3, <2>1
  <2>5. InHand(B, x) = InHand(B, s) \ W
    BY <2>1, <2>2, <2>4, CancelBooked
  <2>6. ASSUME NEW u \in B \X Receivers, phase[u] = "waiting"
        PROVE  u \in W /\ ~Runs(x, u)
    <3>1. u \in InHand(B, s) /\ ~Runs(s, u) /\ scope = entry[u[1]].room
      BY <1>4, <2>1, <2>6
    <3>2. u \in W
      BY <2>2, <2>4, <3>1, WaitsInLane
    <3>3. u \notin InHand(B, x)
      BY <2>5, <3>2
    <3> QED BY <3>2, <3>3 DEF Runs, InHand, Has
  <2>7. \A u \in B \X Receivers : phase'[u] # "waiting"
    <3>1. ASSUME NEW u \in B \X Receivers, phase'[u] = "waiting"
          PROVE  FALSE
      <4>1. u \notin W /\ ph[u] = "waiting"
        BY <2>3, <3>1, ScheduledTask
      <4> QED BY <1>10, <2>6, <4>1
    <3> QED BY <3>1
  <2>8. \A u \in B \X Receivers : phase[u] = "waiting" => phase'[u] = "settled"
    <3>1. ASSUME NEW u \in B \X Receivers, phase[u] = "waiting"
          PROVE  phase'[u] = "settled"
      <4>1. u \in W /\ ~Runs(x, u)
        BY <2>6, <3>1
      <4> QED BY <2>3, <4>1, ScheduledTask
    <3> QED BY <3>1
  <2>9. Sending(B, n)!StartsCurrent
    BY <1>1, <2>8 DEF Sending!StartsCurrent
  <2> QED BY <2>7, <2>9, WaitsNext
<1>11. ASSUME NEW tasks, NEW t \in B \X Receivers
       PROVE  Sending(B, n)!Cut(tasks)[t] = "waiting" <=> phase[t] = "waiting"
  BY <1>1 DEF Sending!Cut, Sending!OnWire
<1>12. ASSUME Sending(B, n)!PauseRoom
       PROVE  Waits(B)' /\ Sending(B, n)!StartsCurrent
  <2>1. Sending(B, n)!StopWaiting(entry, phase)
    BY <1>12 DEF Sending!PauseRoom
  <2> QED BY <1>10, <2>1
<1>13. ASSUME Sending(B, n)!CloseRoom
       PROVE  Waits(B)' /\ Sending(B, n)!StartsCurrent
  <2>1. PICK ent, ph : /\ Sending(B, n)!StopWaiting(ent, ph)
                       /\ ph = Sending(B, n)!Cut(Sending(B, n)!Task)
    BY <1>13 DEF Sending!CloseRoom
  <2>2. \A t \in B \X Receivers : ph[t] = "waiting" => phase[t] = "waiting"
    BY <1>11, <2>1
  <2> QED BY <1>10, <2>1, <2>2
<1>14. ASSUME sched' = sched, room' = room,
              phase' = phase \/ \E tasks : phase' = Sending(B, n)!Cut(tasks),
              \A c \in B : entry'[c].room = entry[c].room /\ entry'[c].gen = entry[c].gen
       PROVE  Waits(B)' /\ Sending(B, n)!StartsCurrent
  <2>1. \A t \in B \X Receivers : phase'[t] = "waiting" <=> phase[t] = "waiting"
    BY <1>11, <1>14
  <2> QED BY <1>14, <2>1, WaitsKept
<1>15. ASSUME NEW b \in B, Sending(B, n)!BatchEnds(b)
       PROVE  Waits(B)' /\ Sending(B, n)!StartsCurrent
  <2>1. /\ entry' = [entry EXCEPT ![b].listed = FALSE]
        /\ sched' = sched /\ phase' = phase /\ room' = room
    BY <1>15 DEF Sending!BatchEnds
  <2>2. \A c \in B : entry'[c].room = entry[c].room /\ entry'[c].gen = entry[c].gen
    BY <1>2, <2>1
  <2> QED BY <1>14, <2>1, <2>2
<1>16. ASSUME NEW r \in Receivers, Sending(B, n)!RevokeMember(r)
       PROVE  Waits(B)' /\ Sending(B, n)!StartsCurrent
  <2>1. /\ entry' = [b \in B |-> IF entry[b].listed
                                 THEN [entry[b] EXCEPT !.invalid = @ \cup {r}]
                                 ELSE entry[b]]
        /\ sched' = sched /\ room' = room
        /\ \E tasks : phase' = Sending(B, n)!Cut(tasks)
    BY <1>16 DEF Sending!RevokeMember
  <2>2. \A c \in B : entry'[c].room = entry[c].room /\ entry'[c].gen = entry[c].gen
    BY <1>2, <2>1
  <2> QED BY <1>14, <2>1, <2>2
<1>17. ASSUME NEW b \in B, NEW f, Sending(B, n)!CancelFile(b, f)
       PROVE  Waits(B)' /\ Sending(B, n)!StartsCurrent
  <2>1. /\ entry' = [entry EXCEPT ![b].cancelled = @ \cup {f}]
        /\ sched' = sched /\ room' = room
        /\ \E tasks : phase' = Sending(B, n)!Cut(tasks)
    BY <1>17 DEF Sending!CancelFile
  <2>2. \A c \in B : entry'[c].room = entry[c].room /\ entry'[c].gen = entry[c].gen
    BY <1>2, <2>1
  <2> QED BY <1>14, <2>1, <2>2
<1>18. ASSUME Sending(B, n)!ResumeRoom
       PROVE  Waits(B)' /\ Sending(B, n)!StartsCurrent
  <2>1. /\ room' = [room EXCEPT !.open = TRUE]
        /\ sched' = sched /\ phase' = phase /\ entry' = entry
    BY <1>18 DEF Sending!ResumeRoom
  <2>2. room'.id = room.id /\ room'.gen = room.gen /\ room'.open
    BY <1>2, <2>1
  <2> QED BY <2>1, <2>2, WaitsKept
<1> QED
  BY <1>1, <1>6, <1>7, <1>8, <1>9, <1>12, <1>13, <1>15, <1>16, <1>17, <1>18
     DEF Sending!Next

\* A connection that is open is one for a file that nobody has withdrawn: whoever
\* withdraws a file closes the connections it is sent on.
WantedInv(B, n) ==
  \A t \in B \X Receivers :
    phase[t] \in {"magic", "offered", "sending"} => Sending(B, n)!Wanted(t)

\* A step that puts no task on the wire, and withdraws the file of none that is.
LEMMA WantedKept ==
  ASSUME NEW CONSTANT B, NEW CONSTANT n, WantedInv(B, n),
         \A t \in B \X Receivers : phase'[t] \in {"magic", "offered", "sending"} =>
           /\ phase'[t] = phase[t]
           /\ at'[t] = at[t]
           /\ at[t] \notin entry'[t[1]].cancelled
           /\ t[2] \notin entry'[t[1]].invalid
           /\ entry'[t[1]].room = room'.id
  PROVE  WantedInv(B, n)' /\ Sending(B, n)!WritesWanted
<1>1. Sending(B, n)!Task = B \X Receivers
  BY DEF Sending!Task, Sending!Member, Receivers
<1>2. Sending(B, n)!WritesWanted
  BY <1>1 DEF Sending!WritesWanted
<1>3. WantedInv(B, n)'
  BY DEF WantedInv, Sending!Wanted, Receivers
<1> QED BY <1>2, <1>3

LEMMA WantedStep ==
  ASSUME NEW CONSTANT B, NEW CONSTANT n \in Nat, SchedTyped(B, n), SchedBounds(B, n),
         WantedInv(B, n), Sending(B, n)!Next
  PROVE  WantedInv(B, n)' /\ Sending(B, n)!WritesWanted
<1> DEFINE Wire == {"magic", "offered", "sending"}
<1>1. Sending(B, n)!Task = B \X Receivers /\ Sending(B, n)!Member = Receivers
  BY DEF Sending!Task, Sending!Member, Receivers
<1>2. /\ phase \in [B \X Receivers -> {"none", "waiting", "ticket", "dialing", "magic",
                                       "offered", "sending", "cut", "over", "settled"}]
      /\ room \in [id : Nat, open : BOOLEAN, gen : Nat]
      /\ entry \in [B -> [room : Nat, gen : Nat, listed : BOOLEAN,
                          cancelled : SUBSET (1 .. n), invalid : SUBSET Receivers]]
      /\ at \in [B \X Receivers -> 0 .. n + 1]
  BY <1>1 DEF SchedTyped, SchedBounds
<1>3. \A t \in B \X Receivers : phase[t] \in Wire =>
        /\ at[t] \notin entry[t[1]].cancelled
        /\ t[2] \notin entry[t[1]].invalid
        /\ entry[t[1]].room = room.id
  BY DEF WantedInv, Sending!Wanted
\* One task moves on, to a file that is wanted if it is then on the wire.
<1>4. ASSUME NEW t \in B \X Receivers, NEW to, phase' = [phase EXCEPT ![t] = to],
             room' = room, entry' = entry, at' = at,
             to \in Wire => /\ at[t] \notin entry[t[1]].cancelled
                            /\ t[2] \notin entry[t[1]].invalid
                            /\ entry[t[1]].room = room.id,
             to \in {"offered", "sending"} => phase[t] \in Wire
      PROVE  WantedInv(B, n)' /\ Sending(B, n)!WritesWanted
  <2>1. phase'[t] = to /\ \A u \in B \X Receivers : u # t => phase'[u] = phase[u]
    BY <1>2, <1>4
  <2>2. \A u \in B \X Receivers : phase'[u] \in Wire =>
          /\ at'[u] \notin entry'[u[1]].cancelled
          /\ u[2] \notin entry'[u[1]].invalid
          /\ entry'[u[1]].room = room'.id
    BY <1>3, <1>4, <2>1
  <2>3. WantedInv(B, n)'
    BY <2>2 DEF WantedInv, Sending!Wanted, Receivers
  <2>4. \A u \in B \X Receivers : phase'[u] # phase[u] /\ phase'[u] \in {"offered", "sending"} =>
          Sending(B, n)!Wanted(u)
    BY <1>3, <1>4, <2>1 DEF Sending!Wanted
  <2>5. Sending(B, n)!WritesWanted
    BY <1>1, <2>4 DEF Sending!WritesWanted
  <2> QED BY <2>3, <2>5
<1>5. ASSUME NEW t \in B \X Receivers,
             Sending(B, n)!Granted(t) \/ Sending(B, n)!Dialled(t)
      PROVE  WantedInv(B, n)' /\ Sending(B, n)!WritesWanted
  <2>1. /\ \E to \in {"dialing", "magic"} : phase' = [phase EXCEPT ![t] = to]
        /\ room' = room /\ entry' = entry /\ at' = at
        /\ at[t] \notin entry[t[1]].cancelled /\ t[2] \notin entry[t[1]].invalid
        /\ entry[t[1]].room = room.id
    BY <1>5 DEF Sending!Granted, Sending!Dialled, Sending!Proceed, Sending!MayStart
  <2> QED BY <1>4, <2>1
<1>6. ASSUME NEW t \in B \X Receivers,
             Sending(B, n)!Offer(t) \/ Sending(B, n)!Accepted(t)
      PROVE  WantedInv(B, n)' /\ Sending(B, n)!WritesWanted
  <2>1. /\ \E to : phase' = [phase EXCEPT ![t] = to]
        /\ room' = room /\ entry' = entry /\ at' = at /\ phase[t] \in Wire
    BY <1>6 DEF Sending!Offer, Sending!Accepted
  <2> QED BY <1>3, <1>4, <2>1
<1>7. ASSUME NEW t \in B \X Receivers,
             Sending(B, n)!Rejected(t) \/ Sending(B, n)!Done(t) \/ Sending(B, n)!Fails(t)
      PROVE  WantedInv(B, n)' /\ Sending(B, n)!WritesWanted
  <2>1. PICK st : Sending(B, n)!FileEnds(t, st)
    BY <1>7 DEF Sending!Rejected, Sending!Done, Sending!Fails
  <2>2. PICK next :
          /\ next = Sending(B, n)!GoOn(t, entry[t[1]], at[t] + 1,
                                      [status[t] EXCEPT ![at[t]] = st])
          /\ phase' = [phase EXCEPT ![t] = next.phase]
          /\ at' = [at EXCEPT ![t] = next.at]
          /\ room' = room /\ entry' = entry
    BY <2>1 DEF Sending!FileEnds
  <2>3. next.phase \in {"ticket", "over"}
    BY <2>2 DEF Sending!GoOn
  <2>4. /\ phase'[t] = next.phase
        /\ \A u \in B \X Receivers : u # t => phase'[u] = phase[u] /\ at'[u] = at[u]
    BY <1>2, <2>2
  <2>5. \A u \in B \X Receivers : phase'[u] \in Wire =>
          /\ phase'[u] = phase[u] /\ at'[u] = at[u]
          /\ at[u] \notin entry'[u[1]].cancelled
          /\ u[2] \notin entry'[u[1]].invalid
          /\ entry'[u[1]].room = room'.id
    BY <1>3, <2>2, <2>3, <2>4
  <2> QED BY <2>5, WantedKept
\* The scheduler takes a step, and no task is put on the wire.
<1>8. ASSUME NEW s, NEW ent, NEW ph, NEW rejected,
             Sending(B, n)!Scheduled(s, ent, ph, rejected), entry' = ent,
             \A u \in B \X Receivers : ph[u] \in Wire =>
               /\ ph[u] = phase[u]
               /\ at[u] \notin ent[u[1]].cancelled
               /\ u[2] \notin ent[u[1]].invalid
               /\ ent[u[1]].room = room'.id
      PROVE  WantedInv(B, n)' /\ Sending(B, n)!WritesWanted
  <2>1. ASSUME NEW u \in B \X Receivers, phase'[u] \in Wire
        PROVE  /\ phase'[u] = phase[u] /\ at'[u] = at[u]
               /\ at[u] \notin entry'[u[1]].cancelled
               /\ u[2] \notin entry'[u[1]].invalid
               /\ entry'[u[1]].room = room'.id
    <3>1. phase'[u] = ph[u] /\ at'[u] = at[u]
      BY <1>8, <2>1, ScheduledTask
    <3> QED BY <1>8, <2>1, <3>1
  <2> QED BY <2>1, WantedKept
<1>9. ASSUME NEW t \in B \X Receivers, Sending(B, n)!TaskSettles(t)
      PROVE  WantedInv(B, n)' /\ Sending(B, n)!WritesWanted
  <2> DEFINE ph == [phase EXCEPT ![t] = "settled"]
  <2>1. PICK s : /\ Sending(B, n)!Scheduled(s, entry, ph, {})
                 /\ room' = room /\ entry' = entry
    BY <1>9 DEF Sending!TaskSettles
  <2>2. \A u \in B \X Receivers : ph[u] \in Wire => ph[u] = phase[u]
    BY <1>2
  <2> HIDE DEF ph
  <2> QED BY <1>3, <1>8, <2>1, <2>2
<1>10. ASSUME NEW b \in B, Sending(B, n)!EnqueueGroupFiles(b)
       PROVE  WantedInv(B, n)' /\ Sending(B, n)!WritesWanted
  <2> DEFINE fresh == [Sending(B, n)!NoEntry EXCEPT !.room = room.id, !.gen = room.gen,
                                                    !.listed = TRUE]
             ent == [entry EXCEPT ![b] = fresh]
  <2>1. PICK s : s = Sending(B, n)!AllEnqueued(b)
    OBVIOUS
  <2>2. PICK kept : kept = {t \in {b} \X Receivers :
                              t \in Sending(B, n)!Running(s)
                              \/ t \in Sending(B, n)!Waiting(s, room.id)}
    OBVIOUS
  <2>3. room' = room /\ entry' = ent
    BY <1>10 DEF Sending!EnqueueGroupFiles
  <2>4. fresh.room = room.id /\ fresh.cancelled = {} /\ fresh.invalid = {}
    BY DEF Sending!NoEntry
  <2>5. ent[b] = fresh /\ \A c \in B : c # b => ent[c] = entry[c]
    BY <1>2
  <2>6. PICK ph, rejected :
          /\ Sending(B, n)!Scheduled(s, entry', ph, rejected)
          /\ \A t \in B \X Receivers :
               ph[t] = IF t \in kept THEN "waiting" ELSE phase[t]
    BY <1>10, <2>1, <2>2, GivenOut
  <2> HIDE DEF fresh, ent
  <2>7. \A u \in B \X Receivers : ph[u] \in Wire =>
          /\ ph[u] = phase[u]
          /\ at[u] \notin ent[u[1]].cancelled
          /\ u[2] \notin ent[u[1]].invalid
          /\ ent[u[1]].room = room'.id
    BY <1>3, <2>3, <2>4, <2>5, <2>6
  <2> QED BY <1>8, <2>3, <2>6, <2>7
<1>11. ASSUME Sending(B, n)!PauseRoom
       PROVE  WantedInv(B, n)' /\ Sending(B, n)!WritesWanted
  <2>1. PICK s, rejected : Sending(B, n)!Scheduled(s, entry, phase, rejected)
    BY <1>11 DEF Sending!PauseRoom, Sending!StopWaiting
  <2>2. entry' = entry /\ room'.id = room.id
    BY <1>2, <1>11 DEF Sending!PauseRoom, Sending!StopWaiting
  <2> QED BY <1>3, <1>8, <2>1, <2>2
<1>12. ASSUME NEW tasks, NEW t \in B \X Receivers, Sending(B, n)!Cut(tasks)[t] \in Wire
       PROVE  phase[t] \in Wire /\ Sending(B, n)!Cut(tasks)[t] = phase[t] /\ t \notin tasks
  BY <1>1, <1>12 DEF Sending!Cut, Sending!OnWire
<1>13. ASSUME Sending(B, n)!CloseRoom
       PROVE  WantedInv(B, n)' /\ Sending(B, n)!WritesWanted
  <2>1. PICK s, ent, ph, rejected :
          /\ Sending(B, n)!Scheduled(s, ent, ph, rejected) /\ entry' = ent
          /\ ph = Sending(B, n)!Cut(Sending(B, n)!Task)
    BY <1>13 DEF Sending!CloseRoom, Sending!StopWaiting
  <2>2. \A u \in B \X Receivers : ph[u] \notin Wire
    BY <1>1, <1>12, <2>1
  <2> QED BY <1>8, <2>1, <2>2
<1>14. ASSUME NEW b \in B, Sending(B, n)!BatchEnds(b)
       PROVE  WantedInv(B, n)' /\ Sending(B, n)!WritesWanted
  <2>1. /\ entry' = [entry EXCEPT ![b].listed = FALSE]
        /\ phase' = phase /\ room' = room /\ at' = at
    BY <1>14 DEF Sending!BatchEnds
  <2>2. \A c \in B : /\ entry'[c].room = entry[c].room
                     /\ entry'[c].cancelled = entry[c].cancelled
                     /\ entry'[c].invalid = entry[c].invalid
    BY <1>2, <2>1
  <2> QED BY <1>3, <2>1, <2>2, WantedKept
<1>15. ASSUME NEW r \in Receivers, Sending(B, n)!RevokeMember(r)
       PROVE  WantedInv(B, n)' /\ Sending(B, n)!WritesWanted
  <2>1. /\ entry' = [b \in B |-> IF entry[b].listed
                                 THEN [entry[b] EXCEPT !.invalid = @ \cup {r}]
                                 ELSE entry[b]]
        /\ room' = room /\ at' = at
        /\ phase' = Sending(B, n)!Cut(B \X {r})
    BY <1>15 DEF Sending!RevokeMember
  <2>2. \A c \in B : /\ entry'[c].room = entry[c].room
                     /\ entry'[c].cancelled = entry[c].cancelled
                     /\ entry'[c].invalid \subseteq entry[c].invalid \cup {r}
    BY <1>2, <2>1
  <2>3. ASSUME NEW u \in B \X Receivers, phase'[u] \in Wire
        PROVE  phase[u] \in Wire /\ phase'[u] = phase[u] /\ u[2] # r
    BY <1>12, <2>1, <2>3
  <2>4. ASSUME NEW u \in B \X Receivers, phase'[u] \in Wire
        PROVE  /\ phase'[u] = phase[u] /\ at'[u] = at[u]
               /\ at[u] \notin entry'[u[1]].cancelled
               /\ u[2] \notin entry'[u[1]].invalid
               /\ entry'[u[1]].room = room'.id
    <3>1. u[1] \in B /\ phase[u] \in Wire /\ phase'[u] = phase[u] /\ u[2] # r
      BY <2>3, <2>4
    <3>2. /\ entry'[u[1]].room = entry[u[1]].room
          /\ entry'[u[1]].cancelled = entry[u[1]].cancelled
          /\ entry'[u[1]].invalid \subseteq entry[u[1]].invalid \cup {r}
      BY <2>2, <3>1
    <3>3. /\ at[u] \notin entry[u[1]].cancelled
          /\ u[2] \notin entry[u[1]].invalid
          /\ entry[u[1]].room = room.id
      BY <1>3, <3>1
    <3> QED BY <2>1, <3>1, <3>2, <3>3
  <2> QED BY <2>4, WantedKept
<1>16. ASSUME NEW b \in B, NEW f, Sending(B, n)!CancelFile(b, f)
       PROVE  WantedInv(B, n)' /\ Sending(B, n)!WritesWanted
  <2>1. /\ entry' = [entry EXCEPT ![b].cancelled = @ \cup {f}]
        /\ room' = room /\ at' = at
        /\ phase' = Sending(B, n)!Cut({t \in {b} \X Receivers : at[t] = f})
    BY <1>1, <1>16 DEF Sending!CancelFile
  <2>2. \A c \in B : /\ entry'[c].room = entry[c].room
                     /\ entry'[c].invalid = entry[c].invalid
                     /\ entry'[c].cancelled \subseteq entry[c].cancelled \cup {f}
                     /\ c # b => entry'[c].cancelled = entry[c].cancelled
    BY <1>2, <2>1
  <2>3. ASSUME NEW u \in B \X Receivers, phase'[u] \in Wire
        PROVE  phase[u] \in Wire /\ phase'[u] = phase[u] /\ (u[1] = b => at[u] # f)
    BY <1>12, <2>1, <2>3
  <2>4. \A u \in B \X Receivers : phase'[u] \in Wire =>
          /\ phase'[u] = phase[u] /\ at'[u] = at[u]
          /\ at[u] \notin entry'[u[1]].cancelled
          /\ u[2] \notin entry'[u[1]].invalid
          /\ entry'[u[1]].room = room'.id
    BY <1>3, <2>1, <2>2, <2>3
  <2> QED BY <2>4, WantedKept
<1>17. ASSUME Sending(B, n)!ResumeRoom
       PROVE  WantedInv(B, n)' /\ Sending(B, n)!WritesWanted
  <2>1. entry' = entry /\ phase' = phase /\ at' = at /\ room'.id = room.id
    BY <1>2, <1>17 DEF Sending!ResumeRoom
  <2> QED BY <1>3, <2>1, WantedKept
<1> QED
  BY <1>1, <1>5, <1>6, <1>7, <1>9, <1>10, <1>11, <1>13, <1>14, <1>15, <1>16, <1>17
     DEF Sending!Next

LEMMA TransferStarts ==
  ASSUME NEW CONSTANT B, NEW CONSTANT n, Sending(B, n)!Init
  PROVE  Waits(B) /\ WantedInv(B, n)
<1>1. \A t \in B \X Receivers : phase[t] = "none"
  BY DEF Sending!Init, Sending!Task, Sending!Member, Receivers
<1> QED BY <1>1 DEF Waits, WantedInv

LEMMA TransferStutter ==
  ASSUME NEW CONSTANT B, NEW CONSTANT n, Waits(B), WantedInv(B, n), UNCHANGED schedVars
  PROVE  Waits(B)' /\ WantedInv(B, n)'
<1>1. /\ sched' = sched /\ room' = room /\ entry' = entry /\ phase' = phase /\ at' = at
  BY DEF schedVars
<1>2. Waits(B)'
  BY <1>1, WaitsKept
<1>3. WantedInv(B, n)'
  BY <1>1 DEF WantedInv, Sending!Wanted, Receivers
<1> QED BY <1>2, <1>3

TransfersInv ==
  /\ part = "batches" => Waits({x1, x2}) /\ WantedInv({x1, x2}, 1)
  /\ part = "files" => Waits({x1}) /\ WantedInv({x1}, 2)

NoneStale ==
  /\ part = "batches" => Sending({x1, x2}, 1)!StartsCurrent /\ Sending({x1, x2}, 1)!WritesWanted
  /\ part = "files" => Sending({x1}, 2)!StartsCurrent /\ Sending({x1}, 2)!WritesWanted

LEMMA TransfersStep ==
  ASSUME BatchesInv, SchedulersInv, BoundsInv, TransfersInv, [Next]_vars
  PROVE  TransfersInv' /\ [NoneStale]_vars
<1>1. CASE UNCHANGED vars
  <2>1. part' = part /\ UNCHANGED schedVars
    BY <1>1 DEF vars
  <2>2. TransfersInv'
    BY <2>1, TransferStutter DEF TransfersInv
  <2> QED BY <1>1, <2>2
<1>2. CASE Next
  <2>1. part' = part
    BY <1>2 DEF Next
  <2>2. CASE part = "batches"
    <3>1. Sending({x1, x2}, 1)!Next
      BY <1>2, <2>2 DEF Next
    <3>2. /\ SchedTyped({x1, x2}, 1) /\ SchedInv({x1, x2}) /\ SchedBounds({x1, x2}, 1)
          /\ Waits({x1, x2}) /\ WantedInv({x1, x2}, 1)
      BY <2>2 DEF BatchesInv, BatchInv, SchedulersInv, BoundsInv, TransfersInv
    <3>3. Waits({x1, x2})' /\ Sending({x1, x2}, 1)!StartsCurrent
      BY <3>1, <3>2, BatchesFinite, CurrentStep
    <3>4. WantedInv({x1, x2}, 1)' /\ Sending({x1, x2}, 1)!WritesWanted
      BY <3>1, <3>2, WantedStep
    <3> QED BY <2>1, <2>2, <3>3, <3>4 DEF TransfersInv, NoneStale
  <2>3. CASE part = "files"
    <3>1. Sending({x1}, 2)!Next
      BY <1>2, <2>3 DEF Next
    <3>2. /\ SchedTyped({x1}, 2) /\ SchedInv({x1}) /\ SchedBounds({x1}, 2)
          /\ Waits({x1}) /\ WantedInv({x1}, 2)
      BY <2>3 DEF BatchesInv, BatchInv, SchedulersInv, BoundsInv, TransfersInv
    <3>3. Waits({x1})' /\ Sending({x1}, 2)!StartsCurrent
      BY <3>1, <3>2, BatchesFinite, CurrentStep
    <3>4. WantedInv({x1}, 2)' /\ Sending({x1}, 2)!WritesWanted
      BY <3>1, <3>2, WantedStep
    <3> QED BY <2>1, <2>3, <3>3, <3>4 DEF TransfersInv, NoneStale
  <2>4. CASE part # "batches" /\ part # "files"
    BY <2>1, <2>4 DEF TransfersInv, NoneStale
  <2> QED BY <2>2, <2>3, <2>4
<1> QED BY <1>1, <1>2

\* No group file that waited starts in a paused room or for one that was paused or
\* replaced since: cancelScope finds every task that handleGroupStatus and
\* handleGroupClosed must stop.  And from the registration of its connection on,
\* sendGroupFileTransfer writes no offer and no data for a file that is cancelled,
\* to a member that is revoked or for another room, although it does not look
\* between TCF_MAGIC and the offer: the connection is closed by then.
THEOREM TransfersAreWanted == Spec => NoStaleTransfer
<1> DEFINE Before == BatchesInv /\ SchedulersInv /\ BoundsInv
<1>1. Init => TransfersInv
  BY TransferStarts DEF Init, TransfersInv
<1>2. Before /\ TransfersInv /\ [Next]_vars => TransfersInv' /\ [NoneStale]_vars
  BY TransfersStep
<1>3. Spec => []Before
  BY BatchesHold, SchedulersHold, BoundsHold, PTL
<1> HIDE DEF Before
<1>4. Spec => [][NoneStale]_vars
  BY <1>1, <1>2, <1>3, PTL DEF Spec
<1> QED BY <1>4 DEF NoStaleTransfer, NoneStale

=============================================================================
