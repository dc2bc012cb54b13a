-------------------------- MODULE PagePartsProofs ---------------------------
(***************************************************************************)
(* Theorems about the parts of a page, for any bounds and limits, and      *)
(* their proofs.  A part does not see the others, so an inductive          *)
(* invariant of a part is one of PageParts while that part runs.           *)
(***************************************************************************)
EXTENDS PageParts, FiniteSetTheorems, SequenceTheorems, TLAPS

-----------------------------------------------------------------------------
(* The wake lock.                                                          *)

LockInv == part = "wakeLock" => Lock!TypeOK /\ Lock!NoUselessLock

LEMMA LockStep ==
  ASSUME Lock!TypeOK, Lock!NoUselessLock, Lock!Next
  PROVE  Lock!TypeOK' /\ Lock!NoUselessLock'
<1> USE LockBounds DEF Lock!TypeOK, Lock!NoUselessLock, Lock!Referenced
<1>1. ASSUME NEW r \in Reason, Lock!Acquire(r)
      PROVE  Lock!TypeOK' /\ Lock!NoUselessLock'
  BY <1>1 DEF Lock!Acquire, Lock!Request
<1>2. ASSUME NEW r \in Reason, Lock!Release(r)
      PROVE  Lock!TypeOK' /\ Lock!NoUselessLock'
  BY <1>2 DEF Lock!Release
<1>3. ASSUME Lock!Granted
      PROVE  Lock!TypeOK' /\ Lock!NoUselessLock'
  BY <1>3 DEF Lock!Granted
<1>4. ASSUME Lock!RequestEnds
      PROVE  Lock!TypeOK' /\ Lock!NoUselessLock'
  BY <1>4 DEF Lock!RequestEnds
<1>5. ASSUME Lock!Taken
      PROVE  Lock!TypeOK' /\ Lock!NoUselessLock'
  BY <1>5 DEF Lock!Taken
<1>6. ASSUME Lock!Retry
      PROVE  Lock!TypeOK' /\ Lock!NoUselessLock'
  BY <1>6 DEF Lock!Retry, Lock!Request
<1>7. ASSUME Lock!Hide
      PROVE  Lock!TypeOK' /\ Lock!NoUselessLock'
  BY <1>7 DEF Lock!Hide
<1>8. ASSUME Lock!Show
      PROVE  Lock!TypeOK' /\ Lock!NoUselessLock'
  BY <1>8 DEF Lock!Show, Lock!Request
<1>9. ASSUME Lock!Cleanup
      PROVE  Lock!TypeOK' /\ Lock!NoUselessLock'
  <2>1. refs' \in [Reason -> 0 .. MaxAcquire]
    BY <1>9 DEF Lock!Cleanup
  <2> QED
    BY <2>1, <1>9 DEF Lock!Cleanup
<1> QED
  BY <1>1, <1>2, <1>3, <1>4, <1>5, <1>6, <1>7, <1>8, <1>9 DEF Lock!Next

LEMMA LockHolds == Spec => []LockInv
<1>1. Init => LockInv
  <2>1. SUFFICES ASSUME Lock!Init
                 PROVE  Lock!TypeOK /\ Lock!NoUselessLock
    BY DEF Init, LockInv
  <2>2. refs \in [Reason -> 0 .. MaxAcquire]
    BY <2>1, LockBounds DEF Lock!Init
  <2> QED
    BY <2>1, <2>2 DEF Lock!Init, Lock!TypeOK, Lock!NoUselessLock
<1>2. ASSUME LockInv, [Next]_vars
      PROVE  LockInv'
  <2>1. CASE Next
    <3>1. CASE part = "wakeLock"
      <4>1. Lock!Next /\ part' = part
        BY <2>1, <3>1 DEF Next
      <4> QED
        BY <4>1, <3>1, <1>2, LockStep DEF LockInv
    <3>2. CASE part # "wakeLock"
      BY <2>1, <3>2 DEF Next, LockInv
    <3> QED BY <3>1, <3>2
  <2>2. CASE UNCHANGED vars
    BY <1>2, <2>2 DEF vars, deviceVars, lockVars, LockInv, Lock!TypeOK,
       Lock!NoUselessLock, Lock!Referenced
  <2> QED BY <1>2, <2>1, <2>2
<1> QED BY <1>1, <1>2, PTL DEF Spec

\* The screen is never kept awake for nobody: whatever happens between the
\* request of ScreenWakeLockManager and the grant of the browser, the manager
\* holds a lock only while a reason is referenced, the page is visible and the
\* manager is in use.
THEOREM LockIsWanted == Spec => []NoUselessLock
<1>1. LockInv => NoUselessLock
  BY DEF LockInv, NoUselessLock
<1> QED BY <1>1, LockHolds, PTL

-----------------------------------------------------------------------------
(* The send queue of a control stream.                                     *)

QueueShape ==
  /\ Queue!TypeOK
  /\ Len(frames) <= MaxSend
  /\ Len(written) <= Len(frames)

\* The frames at the stream are the first ones; one is lost only when the
\* writer is shut, and behind the one whose turn it is all of them wait.
QueueOrder ==
  \A i \in 1 .. Len(frames) :
    /\ frames[i].fate = "written" <=> i <= Len(written)
    /\ frames[i].fate = "writing" => i = writing /\ Len(written) = i - 1
    /\ frames[i].fate = "lost" => shut
    /\ writing = 0 => frames[i].fate = "waiting"
    /\ writing > 0 => IF i > writing THEN frames[i].fate = "waiting"
                                     ELSE frames[i].fate # "waiting"
    /\ frames[i].fate = "waiting" =>
         \A j \in 1 .. Len(frames) : i < j => frames[j].fate = "waiting"

QueueEnds ==
  /\ finish = "done" => /\ writing = -1
                        /\ \A i \in 1 .. Len(frames) : frames[i].fate # "waiting"
  /\ \A i \in 1 .. Len(written) : written[i] = i

QueueInv == QueueShape /\ QueueOrder /\ QueueEnds

Fates == {"waiting", "writing", "written", "lost"}
Frame == [length : Length, fate : Fates]

\* What becomes of a queue when the fate of one frame changes.
LEMMA FateChanges ==
  ASSUME NEW q \in Seq(Frame), NEW n \in 1 .. Len(q), NEW f \in Fates
  PROVE  /\ [q EXCEPT ![n].fate = f] \in Seq(Frame)
         /\ Len([q EXCEPT ![n].fate = f]) = Len(q)
         /\ [q EXCEPT ![n].fate = f][n].fate = f
         /\ [q EXCEPT ![n].fate = f][n].length = q[n].length
         /\ \A i \in 1 .. Len(q) : i # n => [q EXCEPT ![n].fate = f][i] = q[i]
<1> DEFINE r == [q EXCEPT ![n].fate = f]
<1>1. q \in [1 .. Len(q) -> Frame] /\ Len(q) \in Nat
  OBVIOUS
<1>2. [q[n] EXCEPT !.fate = f] \in Frame
  BY <1>1 DEF Frame
<1>3. r = [q EXCEPT ![n] = [q[n] EXCEPT !.fate = f]]
  OBVIOUS
<1>4. r \in [1 .. Len(q) -> Frame]
  BY <1>1, <1>2, <1>3
<1>5. r \in Seq(Frame) /\ Len(r) = Len(q)
  BY <1>1, <1>4
<1>6. r[n] = [q[n] EXCEPT !.fate = f]
  BY <1>1, <1>3
<1>7. r[n].fate = f /\ r[n].length = q[n].length
  BY <1>1, <1>6 DEF Frame
<1>8. \A i \in 1 .. Len(q) : i # n => r[i] = q[i]
  BY <1>1, <1>3
<1> QED
  BY <1>5, <1>7, <1>8

LEMMA QueueStep ==
  ASSUME QueueInv, Queue!Next
  PROVE  QueueInv'
<1>0. /\ frames \in Seq(Frame) /\ Len(frames) \in 0 .. MaxSend
      /\ writing \in -1 .. Len(frames)
      /\ counted \in 0 .. FrameLimit /\ bytes \in 0 .. ByteLimit
      /\ shut \in BOOLEAN /\ finish \in {"no", "asked", "done"}
      /\ written \in Seq(1 .. MaxSend) /\ Len(written) \in 0 .. Len(frames)
      /\ QueueOrder /\ QueueEnds
  BY DEF QueueInv, QueueShape, Queue!TypeOK, Frame, Fates
<1>F. frames \in Seq(Frame)
  BY <1>0
<1>00. \A i \in 1 .. Len(frames) : frames[i].fate \in Fates /\ frames[i].length \in Nat
  <2>1. \A i \in 1 .. Len(frames) : frames[i] \in Frame
    BY <1>F
  <2>2. \A f \in Frame : f.fate \in Fates /\ f.length \in Nat
    BY QueueBounds DEF Frame
  <2> QED BY <2>1, <2>2
<1>1. ASSUME NEW length \in Length, Queue!Send(length)
      PROVE  QueueInv'
  <2>0. /\ finish = "no" /\ finish' = finish /\ writing' = writing /\ written' = written
        /\ Len(frames) < MaxSend
        /\ length \in Nat
    BY <1>1, QueueBounds DEF Queue!Send
  <2>1. CASE frames' = frames /\ shut' = TRUE /\ counted' = counted /\ bytes' = bytes
    BY <1>0, <2>0, <2>1 DEF QueueInv, QueueShape, Queue!TypeOK, QueueOrder, QueueEnds, Frame, Fates
  <2>2. CASE /\ counted + 1 <= FrameLimit /\ bytes + length <= ByteLimit
             /\ frames' = Append(frames, [length |-> length, fate |-> "waiting"])
             /\ counted' = counted + 1
             /\ bytes' = bytes + length
             /\ shut' = shut
    <3>1. [length |-> length, fate |-> "waiting"] \in Frame
      BY DEF Frame, Fates
    <3>2. /\ frames' \in Seq(Frame) /\ Len(frames') = Len(frames) + 1
          /\ frames'[Len(frames) + 1].fate = "waiting"
          /\ \A i \in 1 .. Len(frames) : frames'[i] = frames[i]
      BY <1>0, <2>2, <3>1
    <3>3. QueueOrder'
      BY <1>0, <2>0, <2>2, <3>2 DEF QueueOrder
    <3>4. QueueEnds'
      BY <1>0, <2>0 DEF QueueEnds
    <3> QED
      BY <1>0, <2>0, <2>2, <3>2, <3>3, <3>4, QueueBounds
         DEF QueueInv, QueueShape, Queue!TypeOK, Frame, Fates
  <2> QED
    <3>1. \/ shut' = TRUE /\ UNCHANGED <<frames, counted, bytes>>
          \/ /\ ~(counted + 1 > FrameLimit \/ bytes + length > ByteLimit)
             /\ frames' = Append(frames, [length |-> length, fate |-> "waiting"])
             /\ counted' = counted + 1
             /\ bytes' = bytes + length
             /\ UNCHANGED shut
      BY <1>1 DEF Queue!Send
    <3>2. ~(counted + 1 > FrameLimit \/ bytes + length > ByteLimit) =>
            counted + 1 <= FrameLimit /\ bytes + length <= ByteLimit
      BY <1>0, <2>0, QueueBounds
    <3> QED
      BY <2>1, <2>2, <3>1, <3>2
<1>2. ASSUME Queue!Written
      PROVE  QueueInv'
  <2>0. /\ counted' = counted /\ bytes' = bytes /\ shut' = shut /\ finish' = finish
        /\ writing # -1
    BY <1>2 DEF Queue!Written
  <2>1. CASE writing = 0 /\ writing' = -1 /\ frames' = frames /\ written' = written
    BY <1>0, <2>0, <2>1 DEF QueueInv, QueueShape, Queue!TypeOK, QueueOrder, QueueEnds, Frame, Fates
  <2>2. CASE /\ writing # 0
             /\ frames[writing].fate = "writing"
             /\ written' = Append(written, writing)
             /\ frames' = [frames EXCEPT ![writing].fate = "written"]
             /\ writing' = writing
    <3>1. writing \in 1 .. Len(frames) /\ Len(written) = writing - 1
      BY <1>0, <2>0, <2>2 DEF QueueOrder
    <3>2. /\ frames' \in Seq(Frame) /\ Len(frames') = Len(frames)
          /\ frames'[writing].fate = "written"
          /\ \A i \in 1 .. Len(frames) : i # writing => frames'[i] = frames[i]
      <4>1. "written" \in Fates
        BY DEF Fates
      <4> QED
        BY <1>F, <2>2, <3>1, <4>1, FateChanges
    <3>3. /\ written' \in Seq(1 .. MaxSend) /\ Len(written') = writing
          /\ written'[writing] = writing
          /\ \A i \in 1 .. Len(written) : written'[i] = written[i]
      <4>1. written \in Seq(1 .. MaxSend) /\ writing \in 1 .. MaxSend
        BY <1>0, <3>1, QueueBounds
      <4>2. /\ Append(written, writing) \in Seq(1 .. MaxSend)
            /\ Len(Append(written, writing)) = Len(written) + 1
            /\ Append(written, writing)[Len(written) + 1] = writing
            /\ \A i \in 1 .. Len(written) : Append(written, writing)[i] = written[i]
        BY <4>1
      <4>3. Len(written) + 1 = writing
        BY <1>0, <3>1
      <4>4. written' = Append(written, writing)
        BY <2>2
      <4> QED
        BY <4>2, <4>3, <4>4
    <3>4. QueueOrder'
      BY <1>0, <2>0, <2>2, <3>1, <3>2, <3>3 DEF QueueOrder
    <3>5. QueueEnds'
      BY <1>0, <2>0, <2>2, <3>1, <3>2, <3>3 DEF QueueEnds
    <3> QED
      BY <1>0, <2>0, <2>2, <3>1, <3>2, <3>3, <3>4, <3>5
         DEF QueueInv, QueueShape, Queue!TypeOK, Frame, Fates
  <2> QED
    BY <1>0, <1>2, <2>0, <2>1, <2>2 DEF Queue!Written
<1>3. ASSUME Queue!WriteFails
      PROVE  QueueInv'
  <2>0. /\ counted' = counted /\ bytes' = bytes /\ shut' = TRUE /\ finish' = finish
        /\ written' = written /\ writing # -1
    BY <1>3 DEF Queue!WriteFails
  <2>1. CASE writing = 0 /\ writing' = -1 /\ frames' = frames
    BY <1>0, <2>0, <2>1 DEF QueueInv, QueueShape, Queue!TypeOK, QueueOrder, QueueEnds, Frame, Fates
  <2>2. CASE /\ writing # 0
             /\ frames[writing].fate = "writing"
             /\ frames' = [frames EXCEPT ![writing].fate = "lost"]
             /\ writing' = writing
    <3>1. writing \in 1 .. Len(frames) /\ Len(written) = writing - 1
      BY <1>0, <2>0, <2>2 DEF QueueOrder
    <3>2. /\ frames' \in Seq(Frame) /\ Len(frames') = Len(frames)
          /\ frames'[writing].fate = "lost"
          /\ \A i \in 1 .. Len(frames) : i # writing => frames'[i] = frames[i]
      <4>1. "lost" \in Fates
        BY DEF Fates
      <4> QED
        BY <1>F, <2>2, <3>1, <4>1, FateChanges
    <3>4. QueueOrder'
      BY <1>0, <2>0, <2>2, <3>1, <3>2 DEF QueueOrder
    <3>5. QueueEnds'
      BY <1>0, <2>0, <2>2, <3>1, <3>2 DEF QueueEnds
    <3> QED
      BY <1>0, <2>0, <2>2, <3>1, <3>2, <3>4, <3>5
         DEF QueueInv, QueueShape, Queue!TypeOK, Frame, Fates
  <2> QED
    BY <1>0, <1>3, <2>0, <2>1, <2>2 DEF Queue!WriteFails
<1>4. ASSUME Queue!Turn
      PROVE  QueueInv'
  <2>0. PICK n \in 1 .. Len(frames) :
          /\ frames[n].fate = "waiting"
          /\ writing = -1
          /\ \A m \in 1 .. Len(frames) : frames[m].fate = "waiting" => n <= m
          /\ frames' = [frames EXCEPT ![n].fate = IF shut THEN "lost" ELSE "writing"]
          /\ writing' = n
          /\ UNCHANGED <<counted, bytes, shut, finish, written>>
    <3>1. DOMAIN frames = 1 .. Len(frames)
      BY <1>F
    <3> QED
      BY <3>1, <1>4 DEF Queue!Turn, Queue!In
  <2>1. /\ frames' \in Seq(Frame) /\ Len(frames') = Len(frames)
        /\ frames'[n].fate = IF shut THEN "lost" ELSE "writing"
        /\ \A i \in 1 .. Len(frames) : i # n => frames'[i] = frames[i]
    <3>1. (IF shut THEN "lost" ELSE "writing") \in Fates
      BY DEF Fates
    <3> QED
      BY <1>F, <2>0, <3>1, FateChanges
  <2>2. Len(written) < n
    BY <1>0, <2>0 DEF QueueOrder
  <2>3. ~shut => Len(written) = n - 1
    <3>1. SUFFICES ASSUME ~shut, Len(written) # n - 1
                   PROVE  FALSE
      OBVIOUS
    <3>2. n - 1 \in 1 .. Len(frames) /\ Len(written) < n - 1
      BY <1>0, <2>2, <3>1
    <3>3. frames[n - 1].fate \notin {"waiting", "writing", "lost"}
      BY <1>0, <2>0, <3>1, <3>2 DEF QueueOrder
    <3>4. frames[n - 1].fate = "written"
      BY <1>00, <3>2, <3>3 DEF Fates
    <3> QED
      BY <1>0, <3>2, <3>4 DEF QueueOrder
  <2>4. QueueOrder'
    BY <1>0, <2>0, <2>1, <2>2, <2>3 DEF QueueOrder
  <2>5. QueueEnds'
    BY <1>0, <2>0 DEF QueueEnds
  <2> QED
    BY <1>0, <2>0, <2>1, <2>4, <2>5 DEF QueueInv, QueueShape, Queue!TypeOK, Frame, Fates
<1>5. ASSUME Queue!Release
      PROVE  QueueInv'
  <2>0. /\ writing \in 1 .. Len(frames) /\ writing' = -1
        /\ frames[writing].fate \in {"written", "lost"}
        /\ UNCHANGED <<frames, shut, finish, written>>
        /\ counted' = IF counted > 1 THEN counted - 1 ELSE 0
        /\ bytes' = IF bytes > frames[writing].length THEN bytes - frames[writing].length ELSE 0
    BY <1>0, <1>5 DEF Queue!Release
  <2>1. counted' \in 0 .. FrameLimit /\ bytes' \in 0 .. ByteLimit
    BY <1>0, <1>00, <2>0, QueueBounds
  <2>2. QueueOrder'
    BY <1>0, <2>0 DEF QueueOrder
  <2>3. QueueEnds'
    BY <1>0, <2>0 DEF QueueEnds
  <2> QED
    BY <1>0, <2>0, <2>1, <2>2, <2>3 DEF QueueInv, QueueShape, Queue!TypeOK, Frame, Fates
<1>6. ASSUME Queue!CloseWrite
      PROVE  QueueInv'
  BY <1>0, <1>6 DEF Queue!CloseWrite, QueueInv, QueueShape, Queue!TypeOK, QueueOrder,
     QueueEnds, Frame, Fates
<1>7. ASSUME Queue!EndCloseWrite
      PROVE  QueueInv'
  <2>1. QueueOrder' /\ QueueEnds'
    BY <1>0, <1>7 DEF Queue!EndCloseWrite, Queue!In, QueueOrder, QueueEnds
  <2> QED
    BY <1>0, <1>7, <2>1 DEF Queue!EndCloseWrite, QueueInv, QueueShape, Queue!TypeOK, Frame, Fates
<1>8. ASSUME Queue!CloseWriter
      PROVE  QueueInv'
  BY <1>0, <1>8 DEF Queue!CloseWriter, QueueInv, QueueShape, Queue!TypeOK, QueueOrder,
     QueueEnds, Frame, Fates
<1> QED
  BY <1>1, <1>2, <1>3, <1>4, <1>5, <1>6, <1>7, <1>8 DEF Queue!Next

\* The frames the stream took are the first ones, whole and in order.
LEMMA QueueInOrder ==
  ASSUME QueueInv
  PROVE  Queue!NoHoleWritten
<1> USE DEF QueueInv, QueueShape, Queue!TypeOK, QueueOrder, QueueEnds, Queue!In
<1>0. frames \in Seq(Frame)
  BY DEF Frame, Fates
<1>1. written = [i \in 1 .. Len(written) |-> i]
  OBVIOUS
<1>2. Queue!In({"written"}) = 1 .. Len(written)
  OBVIOUS
<1>3. (finish = "done" /\ ~shut) => Len(written) = Len(frames)
  <2>1. SUFFICES ASSUME finish = "done", ~shut, Len(written) # Len(frames)
                 PROVE  FALSE
    OBVIOUS
  <2>2. Len(frames) \in DOMAIN frames /\ Len(frames) > Len(written)
    BY <2>1
  <2>3. frames[Len(frames)].fate \in {"waiting", "writing", "written", "lost"}
    <3>1. frames[Len(frames)] \in Frame
      BY <2>2, <1>0
    <3> QED
      BY <3>1 DEF Frame, Fates
  <2> QED
    BY <2>1, <2>2, <2>3
<1> QED
  BY <1>1, <1>2, <1>3 DEF Queue!NoHoleWritten

-----------------------------------------------------------------------------
(* The texts of a private room.                                            *)

Displayed(m) == \E i \in DOMAIN shown : shown[i] = m

\* A page is in the last session it has joined, or in none.
TextSession ==
  /\ \A p \in Texts!Sides : writer[p] \in {0, last[p]}
  /\ \A m \in Texts!Texts : text[m].session <= last["writer"]
  /\ \A i \in DOMAIN shown : text[shown[i]].session <= last["reader"]

\* What has become of one text.
TextFate ==
  \A m \in Texts!Texts :
    /\ text[m].session = 0 <=> text[m] = Texts!Unsent
    /\ text[m].session = 0 => wire[m] = "none"
    /\ wire[m] = "acknowledged" => Displayed(m)
    /\ wire[m] \in {"none", "written"} => ~Displayed(m)
    /\ Texts!Delivered(m) => Displayed(m) /\ ~text[m].queued

\* Texts enter later sessions and queues in the order they are submitted; one
\* that is on its way has no older one behind it in its queue.
TextQueue ==
  \A m, k \in Texts!Texts : (k < m /\ text[m].session # 0) =>
    /\ text[k].session # 0
    /\ text[k].session <= text[m].session
    /\ (text[k].session = text[m].session /\ wire[m] # "none") => ~text[k].queued

\* A text is displayed once; one that is displayed behind a newer one has
\* failed for good.
TextOrder ==
  \A i, j \in DOMAIN shown : i < j =>
    /\ shown[i] # shown[j]
    /\ shown[i] > shown[j] => /\ ~Texts!Delivered(shown[j])
                              /\ ~text[shown[j]].queued

TextInv == Texts!TypeOK /\ TextSession /\ TextFate /\ TextQueue /\ TextOrder

TextRecord == [state : {"none", "sending", "delivered", "failed"},
               session : 0 .. TextSessions, queued : BOOLEAN]

LEMMA TextStep ==
  ASSUME TextInv, Texts!Next
  PROVE  TextInv'
<1> DEFINE Txt == Texts!Texts
<1>0. /\ writer \in [Texts!Sides -> 0 .. TextSessions]
      /\ last \in [Texts!Sides -> 1 .. TextSessions]
      /\ text \in [Txt -> TextRecord]
      /\ wire \in [Txt -> {"none", "written", "acknowledged", "over"}]
      /\ shown \in Seq(Txt)
      /\ TextSession /\ TextFate /\ TextQueue /\ TextOrder
  BY DEF TextInv, Texts!TypeOK, TextRecord
<1>01. /\ \A i \in DOMAIN shown : shown[i] \in Txt
       /\ DOMAIN shown = 1 .. Len(shown) /\ Len(shown) \in Nat
       /\ \A m \in Txt : /\ text[m].session \in 0 .. TextSessions
                         /\ text[m].queued \in BOOLEAN
                         /\ m \in Int
       /\ last["writer"] \in Nat /\ last["reader"] \in Nat
  <2>1. /\ \A i \in DOMAIN shown : shown[i] \in Txt
        /\ DOMAIN shown = 1 .. Len(shown) /\ Len(shown) \in Nat
    BY <1>0
  <2>2. \A m \in Txt : text[m] \in TextRecord /\ m \in Int
    BY <1>0 DEF Texts!Texts
  <2>3. \A r \in TextRecord : r.session \in 0 .. TextSessions /\ r.queued \in BOOLEAN
    BY DEF TextRecord
  <2>4. last["writer"] \in Nat /\ last["reader"] \in Nat
    BY <1>0 DEF Texts!Sides
  <2> QED
    BY <2>1, <2>2, <2>3, <2>4
<1>02. ASSUME /\ writer' \in [Texts!Sides -> 0 .. TextSessions]
              /\ last' \in [Texts!Sides -> 1 .. TextSessions]
              /\ text' \in [Txt -> TextRecord]
              /\ wire' \in [Txt -> {"none", "written", "acknowledged", "over"}]
              /\ shown' \in Seq(Txt)
              /\ TextSession' /\ TextFate' /\ TextQueue' /\ TextOrder'
       PROVE  TextInv'
  BY <1>02 DEF TextInv, Texts!TypeOK, TextRecord
<1>1. ASSUME NEW m \in Txt, Texts!SendText(m)
      PROVE  TextInv'
  <2>1. /\ text[m] = Texts!Unsent
        /\ \A k \in Txt : text[k] = Texts!Unsent <=> k >= m
        /\ writer["writer"] # 0
        /\ text' = [text EXCEPT ![m] = [state |-> "sending", session |-> writer["writer"],
                                        queued |-> TRUE]]
        /\ writer' = writer /\ last' = last /\ wire' = wire /\ shown' = shown
    BY <1>0, <1>01, <1>1 DEF Texts!SendText
  <2>2. writer["writer"] = last["writer"] /\ writer["writer"] \in 0 .. TextSessions
    BY <1>0, <2>1 DEF TextSession, Texts!Sides
  <2>3. text' \in [Txt -> TextRecord]
    <3>1. [state |-> "sending", session |-> writer["writer"], queued |-> TRUE] \in TextRecord
      BY <2>2 DEF TextRecord
    <3> QED
      BY <1>0, <2>1, <3>1
  <2>4. wire[m] = "none" /\ ~Displayed(m)
    BY <1>0, <2>1 DEF TextFate, Texts!Unsent
  <2>5. /\ text'[m].session = writer["writer"]
        /\ text'[m].state = "sending"
        /\ \A k \in Txt : k # m => text'[k] = text[k]
    BY <1>0, <2>1
  <2>6. TextSession'
    <3>0. /\ \A k \in Txt : text[k].session <= last["writer"]
          /\ \A i \in DOMAIN shown : text[shown[i]].session <= last["reader"]
          /\ \A q \in Texts!Sides : writer[q] \in {0, last[q]}
      BY <1>0 DEF TextSession
    <3>1. ASSUME NEW k \in Txt
          PROVE  text'[k].session <= last["writer"]
      <4>1. text'[m].session <= last["writer"]
        BY <1>01, <2>2, <2>5
      <4> QED
        BY <2>5, <3>0, <4>1
    <3>2. \A i \in DOMAIN shown : text'[shown[i]] = text[shown[i]]
      BY <1>01, <2>4, <2>5 DEF Displayed
    <3>3. \A i \in DOMAIN shown' : text'[shown'[i]].session <= last'["reader"]
      BY <2>1, <3>0, <3>2
    <3>4. \A q \in Texts!Sides : writer'[q] \in {0, last'[q]}
      BY <2>1, <3>0
    <3> QED
      BY <2>1, <3>1, <3>3, <3>4 DEF TextSession
  <2>7. TextFate'
    <3>1. \A k \in Txt : Displayed(k)' <=> Displayed(k)
      BY <2>1 DEF Displayed
    <3>2. ASSUME NEW k \in Txt
          PROVE  /\ text'[k].session = 0 <=> text'[k] = Texts!Unsent
                 /\ text'[k].session = 0 => wire'[k] = "none"
                 /\ wire'[k] = "acknowledged" => Displayed(k)
                 /\ wire'[k] \in {"none", "written"} => ~Displayed(k)
                 /\ text'[k].state = "delivered" => Displayed(k) /\ ~text'[k].queued
      <4>1. CASE k = m
        <5>1. text'[k] # Texts!Unsent
          BY <2>5, <4>1 DEF Texts!Unsent
        <5> QED
          BY <2>1, <2>2, <2>4, <2>5, <4>1, <5>1
      <4>2. CASE k # m
        BY <1>0, <2>1, <2>5, <4>2 DEF TextFate, Texts!Delivered
      <4> QED
        BY <4>1, <4>2
    <3> QED
      BY <3>1, <3>2 DEF TextFate, Texts!Delivered
  <2>8. TextQueue'
    <3>1. SUFFICES ASSUME NEW n \in Txt, NEW k \in Txt, k < n, text'[n].session # 0
                   PROVE  /\ text'[k].session # 0
                          /\ text'[k].session <= text'[n].session
                          /\ (text'[k].session = text'[n].session /\ wire'[n] # "none")
                               => ~text'[k].queued
      BY DEF TextQueue
    <3>2. CASE n = m
      <4>1. text'[k] = text[k] /\ text[k] # Texts!Unsent
        BY <1>01, <2>1, <2>5, <3>1, <3>2
      <4> QED
        BY <1>0, <2>1, <2>2, <2>4, <2>5, <3>2, <4>1 DEF TextFate, TextSession
    <3>3. CASE n # m
      <4>1. text[n] # Texts!Unsent /\ text'[n] = text[n]
        BY <1>0, <2>5, <3>1, <3>3 DEF TextFate
      <4>2. k # m
        BY <1>01, <2>1, <3>1, <4>1
      <4> QED
        BY <1>0, <2>1, <2>5, <3>1, <4>1, <4>2 DEF TextQueue
    <3> QED
      BY <3>2, <3>3
  <2>9. TextOrder'
    BY <1>0, <1>01, <2>1, <2>4, <2>5 DEF TextOrder, Texts!Delivered, Displayed
  <2> QED
    BY <1>0, <1>02, <2>1, <2>3, <2>6, <2>7, <2>8, <2>9
<1>2. ASSUME NEW m \in Txt, Texts!Start(m)
      PROVE  TextInv'
  <2>1. /\ text[m].queued
        /\ \A k \in Txt : (text[k].session = text[m].session /\ text[k].queued) => m <= k
        /\ wire[m] = "none"
        /\ wire' = [wire EXCEPT ![m] = "written"]
        /\ writer' = writer /\ last' = last /\ text' = text /\ shown' = shown
    BY <1>2 DEF Texts!Start, Texts!Queued
  <2>2. wire' \in [Txt -> {"none", "written", "acknowledged", "over"}]
    BY <1>0, <2>1
  <2>3. TextSession'
    BY <1>0, <2>1 DEF TextSession
  <2>4. TextFate'
    BY <1>0, <2>1 DEF TextFate, Texts!Delivered, Displayed, Texts!Unsent
  <2>5. TextQueue'
    BY <1>0, <1>01, <2>1 DEF TextQueue
  <2>6. TextOrder'
    BY <1>0, <2>1 DEF TextOrder, Texts!Delivered
  <2> QED
    BY <1>0, <1>02, <2>1, <2>2, <2>3, <2>4, <2>5, <2>6
<1>3. ASSUME NEW m \in Txt, NEW st \in {"delivered", "failed"},
             text[m].queued,
             st = "delivered" => wire[m] = "acknowledged",
             text' = [text EXCEPT ![m].state = st, ![m].queued = FALSE],
             UNCHANGED <<writer, last, wire, shown>>
      PROVE  TextInv'
  <2>1. writer' = writer /\ last' = last /\ wire' = wire /\ shown' = shown
    BY <1>3
  <2>2. text' = [text EXCEPT ![m] = [text[m] EXCEPT !.state = st, !.queued = FALSE]]
    BY <1>0, <1>3
  <2>3. [text[m] EXCEPT !.state = st, !.queued = FALSE] \in TextRecord
    BY <1>0 DEF TextRecord
  <2>4. text' \in [Txt -> TextRecord]
    BY <1>0, <2>2, <2>3
  <2>5. /\ text'[m].session = text[m].session
        /\ text'[m].state = st
        /\ text'[m].queued = FALSE
        /\ \A k \in Txt : k # m => text'[k] = text[k]
    BY <1>0, <2>2 DEF TextRecord
  <2>6. text[m].session # 0
    BY <1>0, <1>3 DEF TextFate, Texts!Unsent
  <2>7. st = "delivered" => Displayed(m)
    BY <1>0, <1>3 DEF TextFate
  <2>8. TextSession'
    <3>0. /\ \A k \in Txt : text[k].session <= last["writer"]
          /\ \A i \in DOMAIN shown : text[shown[i]].session <= last["reader"]
          /\ \A q \in Texts!Sides : writer[q] \in {0, last[q]}
      BY <1>0 DEF TextSession
    <3>1. \A k \in Txt : text'[k].session = text[k].session
      BY <2>5
    <3>2. \A k \in Txt : text'[k].session <= last'["writer"]
      BY <2>1, <3>0, <3>1
    <3>3. \A i \in DOMAIN shown' : text'[shown'[i]].session <= last'["reader"]
      BY <1>01, <2>1, <3>0, <3>1
    <3>4. \A q \in Texts!Sides : writer'[q] \in {0, last'[q]}
      BY <2>1, <3>0
    <3> QED
      BY <3>2, <3>3, <3>4 DEF TextSession
  <2>9. TextFate'
    <3>1. \A k \in Txt : Displayed(k)' <=> Displayed(k)
      BY <2>1 DEF Displayed
    <3>2. ASSUME NEW k \in Txt
          PROVE  /\ text'[k].session = 0 <=> text'[k] = Texts!Unsent
                 /\ text'[k].session = 0 => wire'[k] = "none"
                 /\ wire'[k] = "acknowledged" => Displayed(k)
                 /\ wire'[k] \in {"none", "written"} => ~Displayed(k)
                 /\ text'[k].state = "delivered" => Displayed(k) /\ ~text'[k].queued
      <4>1. CASE k = m
        <5>1. text'[k] # Texts!Unsent
          BY <2>5, <4>1 DEF Texts!Unsent
        <5>2. /\ wire[m] = "acknowledged" => Displayed(m)
              /\ wire[m] \in {"none", "written"} => ~Displayed(m)
          BY <1>0 DEF TextFate
        <5> QED
          BY <1>3, <2>1, <2>5, <2>6, <2>7, <4>1, <5>1, <5>2
      <4>2. CASE k # m
        BY <1>0, <2>1, <2>5, <4>2 DEF TextFate, Texts!Delivered
      <4> QED
        BY <4>1, <4>2
    <3> QED
      BY <3>1, <3>2 DEF TextFate, Texts!Delivered
  <2>10. TextQueue'
    BY <1>0, <2>1, <2>5 DEF TextQueue
  <2>11. TextOrder'
    BY <1>0, <1>01, <1>3, <2>1, <2>5 DEF TextOrder, Texts!Delivered
  <2> QED
    BY <1>0, <1>02, <2>1, <2>4, <2>8, <2>9, <2>10, <2>11
<1>4. ASSUME NEW m \in Txt, Texts!Fail(m)
      PROVE  TextInv'
  BY <1>4, <1>3 DEF Texts!Fail
<1>5. ASSUME NEW m \in Txt, Texts!ReadAck(m)
      PROVE  TextInv'
  BY <1>5, <1>3 DEF Texts!ReadAck
<1>6. ASSUME NEW m \in Txt, Texts!ReceiveText(m)
      PROVE  TextInv'
  <2>1. PICK st \in {"acknowledged", "over"} :
          /\ wire' = [wire EXCEPT ![m] = st]
          /\ \/ /\ text[m].session = writer["reader"]
                /\ shown' = Append(shown, m)
             \/ /\ st = "over"
                /\ shown' = shown
    BY <1>6 DEF Texts!ReceiveText
  <2>2. /\ wire[m] = "written"
        /\ writer' = writer /\ last' = last /\ text' = text
    BY <1>6 DEF Texts!ReceiveText
  <2>3. /\ wire' \in [Txt -> {"none", "written", "acknowledged", "over"}]
        /\ wire'[m] = st
        /\ \A k \in Txt : k # m => wire'[k] = wire[k]
    BY <1>0, <2>1
  <2>4. text[m].session # 0 /\ ~Displayed(m)
    BY <1>0, <2>2 DEF TextFate
  <2>5. TextQueue'
    BY <1>0, <2>2, <2>3 DEF TextQueue
  <2>6. CASE st = "over" /\ shown' = shown
    <3>1. TextSession'
      BY <1>0, <2>2, <2>6 DEF TextSession
    <3>2. TextFate'
      BY <1>0, <2>2, <2>3, <2>4, <2>6 DEF TextFate, Texts!Delivered, Displayed
    <3>3. TextOrder'
      BY <1>0, <2>2, <2>6 DEF TextOrder, Texts!Delivered
    <3> QED
      BY <1>0, <1>02, <2>2, <2>3, <2>5, <2>6, <3>1, <3>2, <3>3
  <2>7. CASE text[m].session = writer["reader"] /\ shown' = Append(shown, m)
    <3>1. /\ shown' \in Seq(Txt)
          /\ DOMAIN shown' = 1 .. Len(shown) + 1
          /\ shown'[Len(shown) + 1] = m
          /\ \A i \in 1 .. Len(shown) : shown'[i] = shown[i]
      BY <1>0, <2>7
    <3>2. \A k \in Txt : Displayed(k)' <=> (Displayed(k) \/ k = m)
      BY <1>01, <3>1 DEF Displayed
    <3>3. text[m].session = last["reader"]
      BY <1>0, <2>4, <2>7 DEF TextSession, Texts!Sides
    <3>4. TextSession'
      <4>1. text[m].session <= last["reader"]
        BY <1>01, <3>3
      <4>3. \A i \in DOMAIN shown : text[shown[i]].session <= last["reader"]
        BY <1>0 DEF TextSession
      <4>2. ASSUME NEW i \in 1 .. Len(shown) + 1
            PROVE  text[shown'[i]].session <= last["reader"]
        <5>1. CASE i = Len(shown) + 1
          BY <3>1, <4>1, <5>1
        <5>2. CASE i # Len(shown) + 1
          <6>1. i \in 1 .. Len(shown)
            BY <1>01, <5>2
          <6> QED
            BY <1>01, <3>1, <4>3, <6>1
        <5> QED
          BY <5>1, <5>2
      <4> QED
        BY <1>0, <2>2, <3>1, <4>2 DEF TextSession
    <3>5. TextFate'
      BY <1>0, <2>2, <2>3, <2>4, <3>2 DEF TextFate, Texts!Delivered
    <3>6. ~Texts!Delivered(m)
      BY <1>0, <2>4 DEF TextFate
    <3>7. \A i \in 1 .. Len(shown) : shown[i] # m
      BY <1>01, <2>4 DEF Displayed
    <3>8. ASSUME NEW i \in 1 .. Len(shown), shown[i] > m
          PROVE  ~text[m].queued
      <4> DEFINE k == shown[i]
      <4>1. k \in Txt /\ Displayed(k)
        BY <1>01 DEF Displayed
      <4>2. text[k].session <= text[m].session
        BY <1>0, <1>01, <3>3 DEF TextSession
      <4>3. wire[k] # "none" /\ text[k].session # 0
        BY <1>0, <4>1 DEF TextFate
      <4>4. k > m
        BY <3>8
      <4> HIDE DEF k
      <4>5. text[m].session <= text[k].session
        BY <1>0, <1>01, <4>1, <4>3, <4>4 DEF TextQueue
      <4>6. text[m].session = text[k].session
        BY <1>01, <4>1, <4>2, <4>5
      <4> QED
        BY <1>0, <1>01, <4>1, <4>3, <4>4, <4>6 DEF TextQueue
    <3>9. TextOrder'
      <4>1. SUFFICES ASSUME NEW i \in 1 .. Len(shown) + 1, NEW j \in 1 .. Len(shown) + 1,
                            i < j
                     PROVE  /\ shown'[i] # shown'[j]
                            /\ shown'[i] > shown'[j] =>
                                 /\ ~Texts!Delivered(shown'[j])
                                 /\ ~text[shown'[j]].queued
        BY <2>2, <3>1 DEF TextOrder, Texts!Delivered
      <4>2. CASE j = Len(shown) + 1
        <5>1. i \in 1 .. Len(shown)
          BY <1>01, <4>1, <4>2
        <5> QED
          BY <3>1, <3>6, <3>7, <3>8, <4>2, <5>1
      <4>3. CASE j # Len(shown) + 1
        <5>1. i \in 1 .. Len(shown) /\ j \in 1 .. Len(shown)
          BY <1>01, <4>1, <4>3
        <5> QED
          BY <1>0, <1>01, <3>1, <4>1, <5>1 DEF TextOrder
      <4> QED
        BY <4>2, <4>3
    <3> QED
      BY <1>0, <1>02, <2>2, <2>3, <2>5, <3>1, <3>4, <3>5, <3>9
  <2> QED
    BY <2>1, <2>6, <2>7
<1>7. ASSUME NEW p \in Texts!Sides, Texts!Leave(p)
      PROVE  TextInv'
  <2>1. /\ writer' = [writer EXCEPT ![p] = 0]
        /\ last' = last /\ wire' = wire /\ shown' = shown
        /\ \/ text' = text
           \/ text' = [m \in Txt |-> IF m \in Texts!Queued(writer[p])
                                     THEN [text[m] EXCEPT !.state = "failed"]
                                     ELSE text[m]]
    BY <1>7 DEF Texts!Leave
  <2>2. \A m \in Txt : \/ text'[m] = text[m]
                       \/ /\ text[m].queued
                          /\ text'[m] = [text[m] EXCEPT !.state = "failed"]
    BY <2>1 DEF Texts!Queued
  <2>3. \A m \in Txt : [text[m] EXCEPT !.state = "failed"] \in TextRecord
    BY <1>0 DEF TextRecord
  <2>4. text' \in [Txt -> TextRecord]
    BY <1>0, <2>1, <2>3
  <2>5. \A m \in Txt : /\ text'[m].session = text[m].session
                       /\ text'[m].queued = text[m].queued
                       /\ Texts!Delivered(m)' => Texts!Delivered(m)
                       /\ text'[m] = Texts!Unsent <=> text[m] = Texts!Unsent
    <3>1. SUFFICES ASSUME NEW m \in Txt
                   PROVE  /\ text'[m].session = text[m].session
                          /\ text'[m].queued = text[m].queued
                          /\ text'[m].state = "delivered" => text[m].state = "delivered"
                          /\ text'[m] = Texts!Unsent <=> text[m] = Texts!Unsent
      BY DEF Texts!Delivered
    <3>2. CASE text'[m] = text[m]
      BY <3>2
    <3>3. CASE text[m].queued /\ text'[m] = [text[m] EXCEPT !.state = "failed"]
      <4>1. text[m] \in TextRecord
        BY <1>0
      <4>2. /\ text'[m].session = text[m].session
            /\ text'[m].queued = text[m].queued
            /\ text'[m].state = "failed"
        BY <3>3, <4>1 DEF TextRecord
      <4>3. text'[m].queued = TRUE /\ text[m].queued = TRUE
        BY <1>01, <3>3, <4>2
      <4>4. Texts!Unsent.queued = FALSE
        BY DEF Texts!Unsent
      <4>5. text'[m] # Texts!Unsent /\ text[m] # Texts!Unsent
        BY <4>3, <4>4
      <4> QED
        BY <4>2, <4>5
    <3> QED
      BY <2>2, <3>2, <3>3
  <2>6. /\ writer' \in [Texts!Sides -> 0 .. TextSessions]
        /\ \A q \in Texts!Sides : writer'[q] \in {0, writer[q]}
    <3>1. 0 \in 0 .. TextSessions
      BY TextBounds
    <3> QED
      BY <1>0, <2>1, <3>1
  <2>7. TextSession'
    BY <1>0, <1>01, <2>1, <2>5, <2>6 DEF TextSession
  <2>8. TextFate'
    BY <1>0, <2>1, <2>5 DEF TextFate, Displayed
  <2>9. TextQueue'
    BY <1>0, <2>1, <2>5 DEF TextQueue
  <2>10. TextOrder'
    BY <1>0, <1>01, <2>1, <2>5 DEF TextOrder, Texts!Delivered
  <2> QED
    BY <1>0, <1>02, <2>1, <2>4, <2>6, <2>7, <2>8, <2>9, <2>10
<1>8. ASSUME NEW p \in Texts!Sides, Texts!Join(p)
      PROVE  TextInv'
  <2>1. PICK s \in last[p] + 1 .. TextSessions :
          /\ writer' = [writer EXCEPT ![p] = s]
          /\ last' = [last EXCEPT ![p] = s]
    BY <1>8 DEF Texts!Join
  <2>2. text' = text /\ wire' = wire /\ shown' = shown
    BY <1>8 DEF Texts!Join
  <2>3. last[p] \in 1 .. TextSessions /\ s \in 1 .. TextSessions /\ last[p] < s
    BY <1>0, <2>1, TextBounds
  <2>4. /\ writer' \in [Texts!Sides -> 0 .. TextSessions]
        /\ last' \in [Texts!Sides -> 1 .. TextSessions]
        /\ \A q \in Texts!Sides : /\ last[q] <= last'[q]
                                  /\ writer'[q] \in {0, last'[q]}
    BY <1>0, <2>1, <2>3 DEF TextSession
  <2>5. TextSession'
    <3>1. /\ \A m \in Txt : text[m].session <= last'["writer"]
          /\ \A i \in DOMAIN shown : text[shown[i]].session <= last'["reader"]
      BY <1>0, <1>01, <2>4 DEF TextSession, Texts!Sides
    <3> QED
      BY <2>2, <2>4, <3>1 DEF TextSession
  <2>6. TextFate'
    BY <1>0, <2>2 DEF TextFate, Texts!Delivered, Displayed
  <2>7. TextQueue'
    BY <1>0, <2>2 DEF TextQueue
  <2>8. TextOrder'
    BY <1>0, <2>2 DEF TextOrder, Texts!Delivered
  <2> QED
    BY <1>0, <1>02, <2>2, <2>4, <2>5, <2>6, <2>7, <2>8
<1> QED
  BY <1>1, <1>2, <1>4, <1>5, <1>6, <1>7, <1>8 DEF Texts!Next

LEMMA TextsInOrder ==
  ASSUME TextInv
  PROVE  Texts!DeliveredInOrder
<1>0. shown \in Seq(1 .. MaxText)
  BY DEF TextInv, Texts!TypeOK, Texts!Texts
<1>01. \A i \in DOMAIN shown : shown[i] \in Int
  BY <1>0, TextBounds
<1>1. \A m \in Texts!Texts : Texts!Delivered(m) => \E i \in DOMAIN shown : shown[i] = m
  BY DEF TextInv, TextFate, Displayed
<1>2. ASSUME NEW i \in DOMAIN shown, NEW j \in DOMAIN shown, i < j,
             Texts!Delivered(shown[j])
      PROVE  shown[i] < shown[j]
  <2>1. /\ shown[i] # shown[j]
        /\ ~(shown[i] > shown[j])
    BY <1>2 DEF TextInv, TextOrder
  <2> QED
    BY <1>01, <2>1
<1> QED
  BY <1>1, <1>2 DEF Texts!DeliveredInOrder


\* A behaviour of another part leaves the texts, or the queue, alone.
LEMMA TextsHold == Spec => [](part = "texts" => TextInv)
<1>1. Init => (part = "texts" => TextInv)
  <2>1. SUFFICES ASSUME Texts!Init
                 PROVE  TextInv
    BY DEF Init
  <2>2. /\ writer \in [Texts!Sides -> 0 .. TextSessions]
        /\ last \in [Texts!Sides -> 1 .. TextSessions]
        /\ \A p \in Texts!Sides : writer[p] = last[p] /\ last[p] = 1
    BY <2>1, TextBounds DEF Texts!Init
  <2>3. Texts!Unsent \in TextRecord
    BY TextBounds DEF Texts!Unsent, TextRecord
  <2>4. /\ text \in [Texts!Texts -> TextRecord]
        /\ wire \in [Texts!Texts -> {"none", "written", "acknowledged", "over"}]
        /\ shown = <<>> /\ shown \in Seq(Texts!Texts)
        /\ \A m \in Texts!Texts : text[m] = Texts!Unsent /\ wire[m] = "none"
    BY <2>1, <2>3 DEF Texts!Init
  <2>5. Texts!Unsent.session = 0 /\ Texts!Unsent.state = "none"
    BY DEF Texts!Unsent
  <2>6. TextSession
    BY <2>2, <2>4, <2>5 DEF TextSession, Texts!Sides
  <2>7. TextFate /\ TextQueue /\ TextOrder
    BY <2>4, <2>5 DEF TextFate, TextQueue, TextOrder, Texts!Delivered, Displayed
  <2> QED
    BY <2>2, <2>4, <2>6, <2>7 DEF TextInv, Texts!TypeOK, TextRecord
<1>2. ASSUME part = "texts" => TextInv, [Next]_vars
      PROVE  (part = "texts" => TextInv)'
  <2>1. CASE Next
    <3>1. CASE part = "texts"
      <4>1. Texts!Next /\ part' = part
        BY <2>1, <3>1 DEF Next
      <4> QED
        BY <4>1, <3>1, <1>2, TextStep
    <3>2. CASE part # "texts"
      BY <2>1, <3>2 DEF Next
    <3> QED BY <3>1, <3>2
  <2>2. CASE UNCHANGED vars
    <3>1. part' = part /\ UNCHANGED <<writer, last, text, wire, shown>>
      BY <2>2 DEF vars, textVars
    <3> QED
      BY <1>2, <3>1 DEF TextInv, Texts!TypeOK, TextSession, TextFate, TextQueue, TextOrder,
         Texts!Delivered, Displayed
  <2> QED BY <1>2, <2>1, <2>2
<1> QED BY <1>1, <1>2, PTL DEF Spec

LEMMA QueueHolds == Spec => [](part = "queue" => QueueInv)
<1>1. Init => (part = "queue" => QueueInv)
  <2>1. SUFFICES ASSUME Queue!Init
                 PROVE  QueueInv
    BY DEF Init
  <2>2. frames = <<>> /\ written = <<>> /\ Len(frames) = 0 /\ Len(written) = 0
    BY <2>1 DEF Queue!Init
  <2>3. frames \in Seq(Frame) /\ written \in Seq(1 .. MaxSend)
    BY <2>2
  <2>7. /\ writing = 0 /\ counted = 0 /\ bytes = 0
        /\ shut = FALSE /\ finish = "no"
    BY <2>1 DEF Queue!Init
  <2>8. /\ writing \in -1 .. Len(frames)
        /\ counted \in 0 .. FrameLimit
        /\ bytes \in 0 .. ByteLimit
        /\ Len(frames) <= MaxSend
        /\ Len(written) <= Len(frames)
    BY <2>2, <2>7, QueueBounds
  <2>4. QueueShape
    BY <2>3, <2>7, <2>8 DEF QueueShape, Queue!TypeOK, Frame, Fates
  <2>5. QueueOrder
    BY <2>2 DEF QueueOrder
  <2>6. QueueEnds
    BY <2>1, <2>2 DEF Queue!Init, QueueEnds
  <2> QED
    BY <2>4, <2>5, <2>6 DEF QueueInv
<1>2. ASSUME part = "queue" => QueueInv, [Next]_vars
      PROVE  (part = "queue" => QueueInv)'
  <2>1. CASE Next
    <3>1. CASE part = "queue"
      <4>1. Queue!Next /\ part' = part
        BY <2>1, <3>1 DEF Next
      <4> QED
        BY <4>1, <3>1, <1>2, QueueStep
    <3>2. CASE part # "queue"
      BY <2>1, <3>2 DEF Next
    <3> QED BY <3>1, <3>2
  <2>2. CASE UNCHANGED vars
    <3>1. part' = part /\ UNCHANGED <<frames, writing, counted, bytes, shut, finish, written>>
      BY <2>2 DEF vars, streamVars, queueVars
    <3> QED
      BY <1>2, <3>1 DEF QueueInv, QueueShape, Queue!TypeOK, QueueOrder, QueueEnds
  <2> QED BY <1>2, <2>1, <2>2
<1> QED BY <1>1, <1>2, PTL DEF Spec

\* Whatever sendText shows as delivered the reader has displayed once, and in
\* the order of submission, though each text is a stream of its own, sessions
\* end and begin on either page at any time and acknowledgements are lost; and
\* what ControlFrameWriter hands to its stream are the frames it accepted, in
\* order and without a hole, although the queue overflows or closes meanwhile.
THEOREM DeliveryIsInOrder == Spec => []DeliveredInOrder
<1>1. (part = "texts" => TextInv) /\ (part = "queue" => QueueInv) => DeliveredInOrder
  BY TextsInOrder, QueueInOrder DEF DeliveredInOrder
<1> QED BY <1>1, TextsHold, QueueHolds, PTL


-----------------------------------------------------------------------------
(* Group batches, of any number of files.                                  *)

SchedTyped(batches, count) ==
  /\ phase \in [Sending(batches, count)!Task ->
                  {"none", "waiting", "ticket", "dialing", "magic", "offered",
                   "sending", "cut", "over", "settled"}]
  /\ status \in [Sending(batches, count)!Task ->
                   [1 .. count -> {"none", "rejected", "complete", "failed"}]]
  /\ room \in [id : Nat, open : BOOLEAN, gen : Nat]
  /\ entry \in [batches -> [room : Nat, gen : Nat, listed : BOOLEAN,
                            cancelled : SUBSET (1 .. count),
                            invalid : SUBSET Sending(batches, count)!Member]]

BatchInv(batches, count) ==
  SchedTyped(batches, count) /\ Sending(batches, count)!BatchSettled

\* What every step of the tasks does to them: a file that has an outcome keeps
\* one.
TaskEffect(batches, count) ==
  /\ phase' \in [Sending(batches, count)!Task ->
                  {"none", "waiting", "ticket", "dialing", "magic", "offered",
                   "sending", "cut", "over", "settled"}]
  /\ status' \in [Sending(batches, count)!Task ->
                   [1 .. count -> {"none", "rejected", "complete", "failed"}]]
  /\ \A t \in Sending(batches, count)!Task, f \in 1 .. count :
       status'[t][f] = "none" => status[t][f] = "none"

LEMMA GoesOn ==
  ASSUME NEW CONSTANT B, NEW CONSTANT n, NEW t, NEW e, NEW f,
         NEW st \in [1 .. n -> {"none", "rejected", "complete", "failed"}]
  PROVE  /\ Sending(B, n)!GoOn(t, e, f, st).phase \in {"ticket", "over"}
         /\ Sending(B, n)!GoOn(t, e, f, st).status \in
              [1 .. n -> {"none", "rejected", "complete", "failed"}]
         /\ \A g \in 1 .. n :
              Sending(B, n)!GoOn(t, e, f, st).status[g] = "none" => st[g] = "none"
BY DEF Sending!GoOn, Sending!FileNo

LEMMA ScheduledEffect ==
  ASSUME NEW CONSTANT B, NEW CONSTANT n, SchedTyped(B, n),
         NEW s, NEW ent, NEW rejected, NEW ph,
         \A t \in Sending(B, n)!Task :
           ph[t] \in {"none", "waiting", "ticket", "dialing", "magic", "offered",
                      "sending", "cut", "over", "settled"},
         Sending(B, n)!Scheduled(s, ent, ph, rejected)
  PROVE  TaskEffect(B, n)
<1> DEFINE On(t) == Sending(B, n)!GoOn(t, ent[t[1]], 1, status[t])
<1>1. \A t \in Sending(B, n)!Task :
        /\ On(t).phase \in {"ticket", "over"}
        /\ On(t).status \in [1 .. n -> {"none", "rejected", "complete", "failed"}]
        /\ \A g \in 1 .. n : On(t).status[g] = "none" => status[t][g] = "none"
  BY GoesOn DEF SchedTyped
<1>2. PICK begun :
        /\ phase' = [t \in Sending(B, n)!Task |-> IF t \in begun THEN On(t).phase
                                  ELSE IF t \in rejected THEN "settled" ELSE ph[t]]
        /\ status' = [t \in Sending(B, n)!Task |-> IF t \in begun THEN On(t).status ELSE status[t]]
  BY DEF Sending!Scheduled
<1> HIDE DEF On
<1>3. status \in [Sending(B, n)!Task ->
                   [1 .. n -> {"none", "rejected", "complete", "failed"}]]
  BY DEF SchedTyped
<1>4. \A t \in Sending(B, n)!Task :
        phase'[t] \in {"none", "waiting", "ticket", "dialing", "magic", "offered",
                       "sending", "cut", "over", "settled"}
  BY <1>1, <1>2
<1>5. \A t \in Sending(B, n)!Task :
        /\ status'[t] \in [1 .. n -> {"none", "rejected", "complete", "failed"}]
        /\ \A f \in 1 .. n : status'[t][f] = "none" => status[t][f] = "none"
  BY <1>1, <1>2, <1>3
<1> QED
  BY <1>2, <1>4, <1>5 DEF TaskEffect


\* Every step of the tasks, of the room and of the files, but the end of a batch.
LEMMA BatchKept ==
  ASSUME NEW CONSTANT B, NEW CONSTANT n, BatchInv(B, n), TaskEffect(B, n),
         room' \in [id : Nat, open : BOOLEAN, gen : Nat],
         entry' \in [B -> [room : Nat, gen : Nat, listed : BOOLEAN,
                            cancelled : SUBSET (1 .. n),
                            invalid : SUBSET Sending(B, n)!Member]],
         \A b \in B : entry'[b] = entry[b] \/ entry'[b].listed
  PROVE  BatchInv(B, n)'
<1>1. SchedTyped(B, n)'
  BY DEF TaskEffect, SchedTyped
<1>2. ASSUME NEW t \in Sending(B, n)!Task,
             entry'[t[1]] # Sending(B, n)!NoEntry, ~entry'[t[1]].listed,
             NEW f \in 1 .. n
      PROVE  status'[t][f] # "none"
  <2>1. t[1] \in B
    BY DEF Sending!Task
  <2>2. entry'[t[1]] = entry[t[1]]
    BY <1>2, <2>1
  <2>3. status[t][f] # "none"
    BY <1>2, <2>2 DEF BatchInv, Sending!BatchSettled, Sending!FileNo
  <2> QED
    BY <2>3 DEF TaskEffect
<1>3. Sending(B, n)!BatchSettled'
  BY <1>2 DEF Sending!BatchSettled, Sending!FileNo, Sending!NoEntry
<1> QED
  BY <1>1, <1>3 DEF BatchInv

LEMMA FileEndsEffect ==
  ASSUME NEW CONSTANT B, NEW CONSTANT n, SchedTyped(B, n),
         NEW t \in Sending(B, n)!Task, NEW st \in {"rejected", "complete", "failed"},
         Sending(B, n)!FileEnds(t, st)
  PROVE  TaskEffect(B, n)
<1> DEFINE Outcome == [status[t] EXCEPT ![at[t]] = st]
           On == Sending(B, n)!GoOn(t, entry[t[1]], at[t] + 1, Outcome)
<1>1. /\ phase' = [phase EXCEPT ![t] = On.phase]
      /\ status' = [status EXCEPT ![t] = On.status]
  BY DEF Sending!FileEnds
<1>2. status[t] \in [1 .. n -> {"none", "rejected", "complete", "failed"}]
  BY DEF SchedTyped
<1>3. /\ Outcome \in [1 .. n -> {"none", "rejected", "complete", "failed"}]
      /\ \A g \in 1 .. n : Outcome[g] = "none" => status[t][g] = "none"
  BY <1>2
<1> HIDE DEF Outcome
<1>4. /\ On.phase \in {"ticket", "over"}
      /\ On.status \in [1 .. n -> {"none", "rejected", "complete", "failed"}]
      /\ \A g \in 1 .. n : On.status[g] = "none" => Outcome[g] = "none"
  <2> DEFINE e == entry[t[1]]
             f == at[t] + 1
  <2> HIDE DEF e, f
  <2>1. /\ Sending(B, n)!GoOn(t, e, f, Outcome).phase \in {"ticket", "over"}
        /\ Sending(B, n)!GoOn(t, e, f, Outcome).status \in
             [1 .. n -> {"none", "rejected", "complete", "failed"}]
        /\ \A g \in 1 .. n :
             Sending(B, n)!GoOn(t, e, f, Outcome).status[g] = "none" => Outcome[g] = "none"
    BY <1>3 DEF Sending!GoOn, Sending!FileNo
  <2> QED
    BY <2>1 DEF e, f
<1> HIDE DEF On
<1>5. /\ phase \in [Sending(B, n)!Task ->
                     {"none", "waiting", "ticket", "dialing", "magic", "offered",
                      "sending", "cut", "over", "settled"}]
      /\ status \in [Sending(B, n)!Task ->
                      [1 .. n -> {"none", "rejected", "complete", "failed"}]]
  BY DEF SchedTyped
<1>6. phase' \in [Sending(B, n)!Task ->
                  {"none", "waiting", "ticket", "dialing", "magic", "offered",
                   "sending", "cut", "over", "settled"}]
  BY <1>1, <1>4, <1>5
<1>7. status' \in [Sending(B, n)!Task ->
                    [1 .. n -> {"none", "rejected", "complete", "failed"}]]
  BY <1>1, <1>4, <1>5
<1>8. ASSUME NEW u \in Sending(B, n)!Task, NEW f \in 1 .. n, status'[u][f] = "none"
      PROVE  status[u][f] = "none"
  <2>1. CASE u = t
    <3>1. On.status[f] = "none"
      BY <1>1, <1>5, <1>8, <2>1
    <3> QED
      BY <1>3, <1>4, <2>1, <3>1
  <2>2. CASE u # t
    BY <1>1, <1>5, <1>8, <2>2
  <2> QED BY <2>1, <2>2
<1> QED
  BY <1>6, <1>7, <1>8 DEF TaskEffect

\* A step that only moves one task on.
LEMMA MovesEffect ==
  ASSUME NEW CONSTANT B, NEW CONSTANT n, SchedTyped(B, n),
         NEW t \in Sending(B, n)!Task, NEW to \in {"dialing", "magic", "offered", "sending"},
         phase' = [phase EXCEPT ![t] = to], status' = status
  PROVE  TaskEffect(B, n)
BY DEF SchedTyped, TaskEffect

LEMMA BatchStep ==
  ASSUME NEW CONSTANT B, NEW CONSTANT n, BatchInv(B, n), Sending(B, n)!Next
  PROVE  BatchInv(B, n)'
<1> DEFINE Task == Sending(B, n)!Task
           Member == Sending(B, n)!Member
           Entries == [B -> [room : Nat, gen : Nat, listed : BOOLEAN,
                            cancelled : SUBSET (1 .. n), invalid : SUBSET Member]]
           Phases == {"none", "waiting", "ticket", "dialing", "magic", "offered",
                      "sending", "cut", "over", "settled"}
<1>0. /\ SchedTyped(B, n)
      /\ phase \in [Task -> Phases]
      /\ room \in [id : Nat, open : BOOLEAN, gen : Nat]
      /\ entry \in Entries
  BY DEF BatchInv, SchedTyped
<1>01. \A t \in Task : phase[t] \in Phases
  BY <1>0
<1>03. ASSUME TaskEffect(B, n), room' = room, entry' = entry
       PROVE  BatchInv(B, n)'
  BY <1>0, <1>03, BatchKept
<1>1. ASSUME NEW t \in Task, Sending(B, n)!Granted(t)
      PROVE  BatchInv(B, n)'
  <2>1. /\ phase' = [phase EXCEPT ![t] = "dialing"]
        /\ status' = status /\ room' = room /\ entry' = entry
    BY <1>1 DEF Sending!Granted, Sending!Proceed
  <2> QED
    BY <1>0, <1>03, <2>1, MovesEffect
<1>17. ASSUME NEW t \in Task, Sending(B, n)!Dialled(t)
       PROVE  BatchInv(B, n)'
  <2>1. /\ phase' = [phase EXCEPT ![t] = "magic"]
        /\ status' = status /\ room' = room /\ entry' = entry
    BY <1>17 DEF Sending!Dialled, Sending!Proceed
  <2> QED
    BY <1>0, <1>03, <2>1, MovesEffect
<1>2. ASSUME NEW t \in Task, Sending(B, n)!Offer(t)
      PROVE  BatchInv(B, n)'
  <2>1. /\ phase' = [phase EXCEPT ![t] = "offered"]
        /\ status' = status /\ room' = room /\ entry' = entry
    BY <1>2 DEF Sending!Offer
  <2> QED
    BY <1>0, <1>03, <2>1, MovesEffect
<1>3. ASSUME NEW t \in Task, Sending(B, n)!Accepted(t)
      PROVE  BatchInv(B, n)'
  <2>1. /\ phase' = [phase EXCEPT ![t] = "sending"]
        /\ status' = status /\ room' = room /\ entry' = entry
    BY <1>3 DEF Sending!Accepted
  <2> QED
    BY <1>0, <1>03, <2>1, MovesEffect
<1>4. ASSUME NEW t \in Task, NEW st \in {"rejected", "complete", "failed"},
             Sending(B, n)!FileEnds(t, st)
      PROVE  BatchInv(B, n)'
  <2>1. room' = room /\ entry' = entry
    BY <1>4 DEF Sending!FileEnds
  <2> QED
    BY <1>0, <1>03, <1>4, <2>1, FileEndsEffect
<1>5. ASSUME NEW t \in Task,
             Sending(B, n)!Rejected(t) \/ Sending(B, n)!Done(t) \/ Sending(B, n)!Fails(t)
      PROVE  BatchInv(B, n)'
  BY <1>4, <1>5 DEF Sending!Rejected, Sending!Done, Sending!Fails
<1>6. ASSUME NEW t \in Task, Sending(B, n)!TaskSettles(t)
      PROVE  BatchInv(B, n)'
  <2> DEFINE ph == [phase EXCEPT ![t] = "settled"]
  <2>1. /\ room' = room /\ entry' = entry
        /\ \E s : Sending(B, n)!Scheduled(s, entry, ph, {})
    BY <1>6 DEF Sending!TaskSettles
  <2>2. \A u \in Task : ph[u] \in Phases
    BY <1>0
  <2>3. PICK s : Sending(B, n)!Scheduled(s, entry, ph, {})
    BY <2>1
  <2> HIDE DEF ph
  <2>4. TaskEffect(B, n)
    BY <1>0, <2>2, <2>3, ScheduledEffect
  <2> QED
    BY <1>03, <2>1, <2>4
<1>7. ASSUME NEW b \in B, Sending(B, n)!EnqueueGroupFiles(b)
      PROVE  BatchInv(B, n)'
  <2> DEFINE fresh == [Sending(B, n)!NoEntry EXCEPT !.room = room.id, !.gen = room.gen,
                                                    !.listed = TRUE]
             ent == [entry EXCEPT ![b] = fresh]
  <2>1. /\ room' = room /\ entry' = ent
        /\ \E s, kept, rejected :
             Sending(B, n)!Scheduled(s, ent,
               [t \in Task |-> IF t \in kept THEN "waiting" ELSE phase[t]], rejected)
    BY <1>7 DEF Sending!EnqueueGroupFiles
  <2>2. /\ fresh \in [room : Nat, gen : Nat, listed : BOOLEAN,
                      cancelled : SUBSET (1 .. n), invalid : SUBSET Member]
        /\ fresh.listed
    BY <1>0 DEF Sending!NoEntry
  <2>3. PICK s, kept, rejected :
          Sending(B, n)!Scheduled(s, ent,
            [t \in Task |-> IF t \in kept THEN "waiting" ELSE phase[t]], rejected)
    BY <2>1
  <2> HIDE DEF fresh
  <2>4. ent \in Entries /\ \A c \in B : ent[c] = entry[c] \/ ent[c].listed
    BY <1>0, <2>2
  <2> HIDE DEF ent
  <2> DEFINE ph == [t \in Task |-> IF t \in kept THEN "waiting" ELSE phase[t]]
  <2>5. \A t \in Task : ph[t] \in Phases
    BY <1>01
  <2>6. Sending(B, n)!Scheduled(s, ent, ph, rejected)
    BY <2>3
  <2> HIDE DEF ph
  <2>7. TaskEffect(B, n)
    BY <1>0, <2>5, <2>6, ScheduledEffect
  <2> QED
    BY <1>0, <2>1, <2>4, <2>7, BatchKept
<1>8. ASSUME NEW b \in B, Sending(B, n)!BatchEnds(b)
      PROVE  BatchInv(B, n)'
  <2>1. /\ phase' = phase /\ room' = room
        /\ entry' = [entry EXCEPT ![b].listed = FALSE]
        /\ status' = [t \in Task |-> [f \in 1 .. n |->
                        IF t[1] = b /\ status[t][f] = "none" THEN "failed" ELSE status[t][f]]]
    BY <1>8 DEF Sending!BatchEnds, Sending!FileNo
  <2>3. entry' \in Entries /\ \A c \in B : c # b => entry'[c] = entry[c]
    <3>1. [entry[b] EXCEPT !.listed = FALSE]
            \in [room : Nat, gen : Nat, listed : BOOLEAN,
                 cancelled : SUBSET (1 .. n), invalid : SUBSET Member]
      BY <1>0
    <3>2. entry' = [entry EXCEPT ![b] = [entry[b] EXCEPT !.listed = FALSE]]
      BY <2>1
    <3> QED
      BY <1>0, <3>1, <3>2
  <2>4. \A t \in Task, f \in 1 .. n :
          status[t][f] \in {"none", "rejected", "complete", "failed"}
    <3>1. status \in [Task -> [1 .. n -> {"none", "rejected", "complete", "failed"}]]
      BY <1>0 DEF SchedTyped
    <3> QED BY <3>1
  <2>5. status' \in [Task -> [1 .. n -> {"none", "rejected", "complete", "failed"}]]
    BY <2>1, <2>4
  <2>6. SchedTyped(B, n)'
    BY <1>0, <2>1, <2>3, <2>5 DEF SchedTyped
  <2>7. ASSUME NEW t \in Task,
               entry'[t[1]] # Sending(B, n)!NoEntry, ~entry'[t[1]].listed,
               NEW f \in 1 .. n
        PROVE  status'[t][f] # "none"
    <3>1. CASE t[1] = b
      BY <2>1, <3>1
    <3>2. CASE t[1] # b
      <4>1. t[1] \in B
        BY DEF Sending!Task
      <4>2. status[t][f] # "none"
        BY <2>3, <2>7, <3>2, <4>1 DEF BatchInv, Sending!BatchSettled, Sending!FileNo
      <4> QED
        BY <2>1, <4>2
    <3> QED BY <3>1, <3>2
  <2>8. Sending(B, n)!BatchSettled'
    BY <2>7 DEF Sending!BatchSettled, Sending!FileNo, Sending!NoEntry
  <2> QED
    BY <2>6, <2>8 DEF BatchInv
<1>9. ASSUME NEW ent, ent \in Entries, \A c \in B : ent[c] = entry[c] \/ ent[c].listed,
             NEW ph, \A t \in Task : ph[t] \in Phases,
             Sending(B, n)!StopWaiting(ent, ph),
             room' \in [id : Nat, open : BOOLEAN, gen : Nat]
      PROVE  BatchInv(B, n)'
  <2>1. /\ entry' = ent
        /\ \E s, rejected : Sending(B, n)!Scheduled(s, ent, ph, rejected)
    BY <1>9 DEF Sending!StopWaiting
  <2>2. TaskEffect(B, n)
    BY <1>0, <1>9, <2>1, ScheduledEffect
  <2> QED
    BY <1>9, <2>1, <2>2, BatchKept
<1>10. ASSUME Sending(B, n)!PauseRoom
       PROVE  BatchInv(B, n)'
  <2>1. /\ Sending(B, n)!StopWaiting(entry, phase)
        /\ room' = [room EXCEPT !.open = FALSE, !.gen = @ + 1]
    BY <1>10 DEF Sending!PauseRoom
  <2>2. room' \in [id : Nat, open : BOOLEAN, gen : Nat]
    <3>1. room' = [[room EXCEPT !.open = FALSE] EXCEPT !.gen = room.gen + 1]
      BY <1>0, <2>1
    <3>2. [room EXCEPT !.open = FALSE] \in [id : Nat, open : BOOLEAN, gen : Nat]
      BY <1>0
    <3>3. room.gen + 1 \in Nat
      BY <1>0
    <3> QED
      BY <3>1, <3>2, <3>3
  <2> QED
    BY <1>0, <1>01, <1>9, <2>1, <2>2
<1>11. ASSUME Sending(B, n)!CloseRoom
       PROVE  BatchInv(B, n)'
  <2> DEFINE ent == [b \in B |-> IF entry[b].listed
                                 THEN [entry[b] EXCEPT !.cancelled = 1 .. n]
                                 ELSE entry[b]]
             ph == Sending(B, n)!Cut(Task)
  <2>1. /\ Sending(B, n)!StopWaiting(ent, ph)
        /\ room' = [id |-> room.id + 1, open |-> TRUE, gen |-> room.gen + 1]
    BY <1>11 DEF Sending!CloseRoom, Sending!FileNo
  <2>2. ent \in Entries /\ \A c \in B : ent[c] = entry[c] \/ ent[c].listed
    <3>1. ASSUME NEW c \in B
          PROVE  LET e == [entry[c] EXCEPT !.cancelled = 1 .. n] IN
                 /\ e \in [room : Nat, gen : Nat, listed : BOOLEAN,
                           cancelled : SUBSET (1 .. n), invalid : SUBSET Member]
                 /\ e.listed = entry[c].listed
      BY <1>0
    <3> QED
      BY <1>0, <3>1
  <2>3. room' \in [id : Nat, open : BOOLEAN, gen : Nat]
    BY <1>0, <2>1
  <2>4. \A t \in Task : ph[t] \in Phases
    BY <1>01 DEF Sending!Cut
  <2> HIDE DEF ent, ph
  <2> QED
    BY <1>9, <2>1, <2>2, <2>3, <2>4
<1>12. ASSUME TaskEffect(B, n), room' = room, entry' \in Entries,
              \A c \in B : entry'[c] = entry[c] \/ entry'[c].listed
       PROVE  BatchInv(B, n)'
  BY <1>0, <1>12, BatchKept
<1>13. ASSUME phase' = phase \/ \E tasks : phase' = Sending(B, n)!Cut(tasks), status' = status
       PROVE  TaskEffect(B, n)
  <2>1. phase' \in [Task -> Phases]
    BY <1>0, <1>01, <1>13 DEF Sending!Cut
  <2> QED BY <1>0, <1>13, <2>1 DEF SchedTyped, TaskEffect
<1>14. ASSUME NEW r \in Member, Sending(B, n)!RevokeMember(r)
       PROVE  BatchInv(B, n)'
  <2>1. /\ \E tasks : phase' = Sending(B, n)!Cut(tasks)
        /\ status' = status /\ room' = room
        /\ entry' = [b \in B |-> IF entry[b].listed
                                 THEN [entry[b] EXCEPT !.invalid = @ \cup {r}]
                                 ELSE entry[b]]
    BY <1>14 DEF Sending!RevokeMember
  <2>2. entry' \in Entries /\ \A c \in B : entry'[c] = entry[c] \/ entry'[c].listed
    BY <1>0, <2>1
  <2> QED
    BY <1>12, <1>13, <2>1, <2>2
<1>15. ASSUME NEW b \in B, NEW f \in 1 .. n, Sending(B, n)!CancelFile(b, f)
       PROVE  BatchInv(B, n)'
  <2>1. /\ \E tasks : phase' = Sending(B, n)!Cut(tasks)
        /\ status' = status /\ room' = room
        /\ entry[b].listed
        /\ entry' = [entry EXCEPT ![b].cancelled = @ \cup {f}]
    BY <1>15 DEF Sending!CancelFile
  <2>2. entry' \in Entries /\ \A c \in B : entry'[c] = entry[c] \/ entry'[c].listed
    BY <1>0, <2>1
  <2> QED
    BY <1>12, <1>13, <2>1, <2>2
<1>16. ASSUME Sending(B, n)!ResumeRoom
       PROVE  BatchInv(B, n)'
  <2>1. /\ phase' = phase /\ status' = status /\ entry' = entry
        /\ room' = [room EXCEPT !.open = TRUE]
    BY <1>16 DEF Sending!ResumeRoom
  <2>2. room' \in [id : Nat, open : BOOLEAN, gen : Nat]
    BY <1>0, <2>1
  <2> QED
    BY <1>0, <1>13, <2>1, <2>2, BatchKept
<1> QED
  BY <1>1, <1>2, <1>3, <1>5, <1>6, <1>7, <1>8, <1>10, <1>11, <1>14, <1>15, <1>16,
     <1>17 DEF Sending!Next, Sending!FileNo


LEMMA BatchBegins ==
  ASSUME NEW CONSTANT B, NEW CONSTANT n, Sending(B, n)!Init
  PROVE  BatchInv(B, n)
<1>1. /\ phase = [t \in Sending(B, n)!Task |-> "none"]
      /\ status = [t \in Sending(B, n)!Task |-> [f \in 1 .. n |-> "none"]]
      /\ room = [id |-> 1, open |-> TRUE, gen |-> 0]
      /\ entry = [b \in B |-> Sending(B, n)!NoEntry]
  BY DEF Sending!Init, Sending!FileNo
<1>2. Sending(B, n)!NoEntry \in [room : Nat, gen : Nat, listed : BOOLEAN,
                                 cancelled : SUBSET (1 .. n),
                                 invalid : SUBSET Sending(B, n)!Member]
  BY DEF Sending!NoEntry
<1>3. SchedTyped(B, n)
  BY <1>1, <1>2 DEF SchedTyped
<1>4. \A t \in Sending(B, n)!Task : entry[t[1]] = Sending(B, n)!NoEntry
  BY <1>1 DEF Sending!Task
<1> QED
  BY <1>3, <1>4 DEF BatchInv, Sending!BatchSettled

LEMMA BatchStutter ==
  ASSUME NEW CONSTANT B, NEW CONSTANT n, BatchInv(B, n),
         phase' = phase, status' = status, room' = room, entry' = entry
  PROVE  BatchInv(B, n)'
BY DEF BatchInv, SchedTyped, Sending!BatchSettled

BatchesInv == /\ part = "batches" => BatchInv({x1, x2}, 1)
              /\ part = "files" => BatchInv({x1}, 2)

LEMMA BatchesStep ==
  ASSUME BatchesInv, [Next]_vars
  PROVE  BatchesInv'
<1>1. CASE Next
  <2>1. CASE part = "batches"
    <3>1. Sending({x1, x2}, 1)!Next /\ part' = part
      BY <1>1, <2>1 DEF Next
    <3>2. BatchInv({x1, x2}, 1)'
      BY <2>1, <3>1, BatchStep DEF BatchesInv
    <3> QED
      BY <2>1, <3>1, <3>2 DEF BatchesInv
  <2>2. CASE part = "files"
    <3>1. Sending({x1}, 2)!Next /\ part' = part
      BY <1>1, <2>2 DEF Next
    <3>2. BatchInv({x1}, 2)'
      BY <2>2, <3>1, BatchStep DEF BatchesInv
    <3> QED
      BY <2>2, <3>1, <3>2 DEF BatchesInv
  <2>3. CASE part # "batches" /\ part # "files"
    <3>1. part' = part
      BY <1>1 DEF Next
    <3> QED
      BY <2>3, <3>1 DEF BatchesInv
  <2> QED BY <2>1, <2>2, <2>3
<1>2. CASE UNCHANGED vars
  <2>1. part' = part /\ phase' = phase /\ status' = status /\ room' = room /\ entry' = entry
    BY <1>2 DEF vars, schedVars
  <2> QED BY <2>1, BatchStutter DEF BatchesInv
<1> QED BY <1>1, <1>2

LEMMA BatchesHold == Spec => []BatchesInv
<1>1. Init => BatchesInv
  BY BatchBegins DEF Init, BatchesInv
<1>2. BatchesInv /\ [Next]_vars => BatchesInv'
  BY BatchesStep
<1> QED BY <1>1, <1>2, PTL DEF Spec

\* When a batch is over, every recipient has an outcome for every file: a file
\* that is shown to be rejected, complete or failed never goes back, whatever
\* processGroupFileBatch awaits and whichever task is cancelled or refused.
THEOREM BatchesSettle == Spec => []BatchSettled
<1>1. BatchesInv => BatchSettled
  BY DEF BatchesInv, BatchInv, BatchSettled
<1> QED BY <1>1, BatchesHold, PTL

-----------------------------------------------------------------------------
(* Calls, of any number and with any disturbances.  A step moves one page. *)

Page == {x1, x2}
Peer(p) == IF p = x1 THEN x2 ELSE x1

PhoneRecord(n) ==
  [session : BOOLEAN, current : (1 .. n) \cup {0}, ringing : (1 .. n) \cup {0},
   media : (1 .. n) \cup {0},
   pc : {"none", "new", "ready", "connected", "disconnected", "failed"},
   setup : BOOLEAN, timer : {"none", "retry", "giveUp"},
   lost : SUBSET {"retry", "giveUp"}, attempted : BOOLEAN]
TaskRecord == [st : {"none", "media", "negotiating", "writing", "refusing"},
               fresh : BOOLEAN]
RestartRecord(k) == [st : {"none", "negotiating", "writing"}, fresh : BOOLEAN,
                     times : 0 .. k]
CallMessage(n) == [type : {"OFFER", "ANSWER", "DECLINE", "HANGUP", "RESTART"},
                   to : Page, call : 1 .. n]

CallTyped(n, k) ==
  /\ phone \in [Page -> PhoneRecord(n)]
  /\ caller \in Seq(Page)
  /\ Len(caller) <= n
  /\ task \in [Page -> [1 .. n -> TaskRecord]]
  /\ redo \in [Page -> [1 .. n -> RestartRecord(k)]]
  /\ mail \subseteq CallMessage(n)
  /\ on \in [Page -> SUBSET (1 .. n)]
  /\ trouble \in 0 .. k

\* What a page's own state says of its call: what of it is set belongs to a call
\* that the page is in, and timers of a connection to one that has been made.
Linked(p) ==
  LET r == phone[p] IN
  /\ r.ringing # 0 => r.current = 0
  /\ on[p] = {r.media} \ {0}
  /\ r.media \in {0, r.current}
  /\ r.current = 0 => r.media = 0 /\ r.pc = "none" /\ ~r.attempted
  /\ r.timer # "none" \/ r.lost # {} => r.pc \notin {"none", "new"}
  /\ r.current # 0 /\ r.pc \in {"none", "new", "ready"} => r.setup
  /\ r.attempted => r.pc \notin {"none", "new"}

\* A function that is suspended and not outdated is about the call the page is
\* in, whose connection is as far as the function has got.
InStep(p, c) ==
  LET t == task[p][c]
      d == redo[p][c]
      r == phone[p]
  IN /\ t.fresh => r.current = c
     /\ t.st \in {"negotiating", "writing"} => t.fresh
     /\ t.st = "media" /\ t.fresh => r.media = 0 /\ r.pc = "none"
     /\ t.st = "negotiating" => r.pc = "new"
     /\ d.fresh => r.current = c /\ r.attempted
     /\ r.current = c /\ ~r.attempted => d.times = 0
     /\ d.times <= 1

Preparing(p, c) == task[p][c].st \in {"media", "negotiating"}
Offered(c) == \E m \in mail : m.type = "OFFER" /\ m.call = c
Answered(c) == \E m \in mail : m.type = "ANSWER" /\ m.call = c

\* Page q has never been in the call c.
Untouched(q, c) ==
  /\ phone[q].current # c
  /\ task[q][c].st = "none"
  /\ redo[q][c].times = 0

\* The caller of c has no answer yet, and may still get one.
Unsettled(c) ==
  LET q == Peer(caller[c]) IN
  Offered(c) \/ Answered(c) \/ phone[q].ringing = c \/ Preparing(q, c)

\* A call passes from the caller's preparation to its offer, to the ringing, to the
\* callee's preparation and its answer, and is in one of them at a time.
Stages(c) ==
  LET p == caller[c]
      q == Peer(p)
  IN /\ \A m \in mail : m.call = c => /\ m.type = "OFFER" => m.to = q
                                      /\ m.type = "ANSWER" => m.to = p
     /\ phone[p].ringing # c
     /\ Preparing(p, c) => /\ ~Offered(c) /\ ~Answered(c)
                           /\ phone[q].ringing # c
                           /\ Untouched(q, c)
     /\ Offered(c) => ~Answered(c) /\ phone[q].ringing # c /\ Untouched(q, c)
     /\ phone[q].ringing = c => ~Answered(c) /\ Untouched(q, c)
     /\ Preparing(q, c) => ~Answered(c)
     /\ Unsettled(c) /\ phone[p].current = c => phone[p].pc \in {"none", "new"}

NotYet(c) ==
  /\ \A m \in mail : m.call # c
  /\ \A p \in Page : /\ Untouched(p, c)
                     /\ phone[p].ringing # c
                     /\ redo[p][c].st = "none"

Staged(c) == IF c <= Len(caller) THEN Stages(c) ELSE NotYet(c)

CallInv(n, k) ==
  /\ CallTyped(n, k)
  /\ \A p \in Page : Linked(p) /\ \A c \in 1 .. n : InStep(p, c)
  /\ \A c \in 1 .. n : Staged(c)

\* Nobody but p does anything.
Alone(p) ==
  \A q \in Page \ {p} : /\ phone'[q] = phone[q]
                        /\ task'[q] = task[q]
                        /\ redo'[q] = redo[q]
                        /\ on'[q] = on[q]

LEMMA Peers ==
  ASSUME NEW CONSTANT n, NEW CONSTANT k, NEW p \in Page
  PROVE  /\ Calling(n, k)!Other(p) = Peer(p)
         /\ Peer(p) \in Page \ {p}
         /\ Peer(Peer(p)) = p
         /\ Page = {p, Peer(p)}
BY Apart DEF Calling!Other, Peer, Page

LEMMA CallPieces ==
  ASSUME NEW CONSTANT n, NEW CONSTANT k, CallInv(n, k), CallTyped(n, k)',
         NEW p \in Page, Alone(p), Linked(p)',
         \A c \in 1 .. n : InStep(p, c)',
         \A c \in 1 .. n : Staged(c)'
  PROVE  CallInv(n, k)'
<1>1. ASSUME NEW q \in Page \ {p}, NEW c \in 1 .. n
      PROVE  InStep(q, c)'
  BY DEF CallInv, InStep, Alone
<1>2. ASSUME NEW q \in Page \ {p}
      PROVE  Linked(q)'
  BY DEF CallInv, Linked, Alone
<1> QED BY <1>1, <1>2 DEF CallInv

\* A step that takes the call c no further.
Quiet(c) ==
  /\ c <= Len(caller) <=> c <= Len(caller')
  /\ c <= Len(caller) => caller'[c] = caller[c]
  /\ \A m \in mail' : m.call = c =>
       m \in mail \/ (m.type \notin {"OFFER", "ANSWER"} /\ c <= Len(caller))
  /\ \A p \in Page :
       /\ phone'[p].ringing = c => phone[p].ringing = c
       /\ phone'[p].current = c => phone[p].current = c
       /\ phone'[p].current = c /\ phone[p].pc \in {"none", "new"} =>
            phone'[p].pc \in {"none", "new"}
       /\ Preparing(p, c)' => Preparing(p, c)
       /\ task[p][c].st = "none" => task'[p][c].st = "none"
       /\ phone[p].current # c => redo'[p][c].times = redo[p][c].times
       /\ phone[p].current # c /\ redo[p][c].st = "none" => redo'[p][c].st = "none"

LEMMA QuietStages ==
  ASSUME NEW CONSTANT n, NEW CONSTANT k, CallInv(n, k), NEW c \in 1 .. n, Quiet(c)
  PROVE  Staged(c)'
<1>1. \A q \in Page : Untouched(q, c) => Untouched(q, c)'
  BY DEF Untouched, Quiet
<1>2. (Offered(c)' => Offered(c)) /\ (Answered(c)' => Answered(c))
  BY DEF Offered, Answered, Quiet
<1>3. CASE c <= Len(caller)
  <2>1. caller'[c] = caller[c] /\ caller[c] \in Page /\ Peer(caller[c]) \in Page
    <3>1. caller \in Seq(Page) /\ c \in 1 .. Len(caller)
      BY <1>3 DEF CallInv, CallTyped
    <3>2. caller[c] \in Page
      BY <3>1
    <3> QED BY <1>3, <3>2 DEF Quiet, Peer, Page
  <2> DEFINE p == caller[c]
             q == Peer(caller[c])
  <2>2. Stages(c)
    BY <1>3 DEF CallInv, Staged
  <2>3. Unsettled(c)' => Unsettled(c)
    BY <1>2, <2>1 DEF Unsettled, Quiet
  <2>4. \A m \in mail' : m.call = c => /\ m.type = "OFFER" => m.to = q
                                       /\ m.type = "ANSWER" => m.to = p
    BY <2>2 DEF Stages, Quiet
  <2>5. phone'[p].ringing # c
    BY <2>1, <2>2 DEF Stages, Quiet
  <2>6. Preparing(p, c)' => /\ ~Offered(c)' /\ ~Answered(c)'
                            /\ phone'[q].ringing # c
                            /\ Untouched(q, c)'
    BY <1>1, <1>2, <2>1, <2>2 DEF Stages, Quiet
  <2>7. Offered(c)' => ~Answered(c)' /\ phone'[q].ringing # c /\ Untouched(q, c)'
    BY <1>1, <1>2, <2>1, <2>2 DEF Stages, Quiet
  <2>8. phone'[q].ringing = c => ~Answered(c)' /\ Untouched(q, c)'
    BY <1>1, <1>2, <2>1, <2>2 DEF Stages, Quiet
  <2>9. Preparing(q, c)' => ~Answered(c)'
    BY <1>1, <1>2, <2>1, <2>2 DEF Stages, Quiet
  <2>10. Unsettled(c)' /\ phone'[p].current = c => phone'[p].pc \in {"none", "new"}
    BY <2>1, <2>2, <2>3 DEF Stages, Quiet
  <2>11. Stages(c)'
    BY <2>1, <2>4, <2>5, <2>6, <2>7, <2>8, <2>9, <2>10 DEF Stages
  <2> QED BY <1>3, <2>11 DEF Quiet, Staged
<1>4. CASE ~(c <= Len(caller))
  <2>1. NotYet(c)
    BY <1>4 DEF CallInv, Staged
  <2>2. NotYet(c)'
    BY <1>1, <1>4, <2>1 DEF NotYet, Quiet, Untouched
  <2> QED BY <1>4, <2>2 DEF Quiet, Staged
<1> QED BY <1>3, <1>4


\* How a page and its functions are after endLiveLink.
Idle(r) == /\ r.current = 0
           /\ r.ringing = 0
           /\ r.media = 0
           /\ r.pc = "none"
           /\ r.timer = "none"
           /\ r.lost = {}
           /\ ~r.attempted

Stale(p, c, t) == /\ ~t.fresh
                  /\ t.st \notin {"negotiating", "writing"}
                  /\ t.st = "media" => task[p][c].st = "media"
                  /\ task[p][c].st = "none" => t.st = "none"

StaleRestart(p, c, d) == /\ ~d.fresh
                         /\ d.times = redo[p][c].times
                         /\ redo[p][c].st = "none" => d.st = "none"

\* Nobody is told anything that takes a call further.
Whispered(n) ==
  /\ mail' \subseteq CallMessage(n)
  /\ \A m \in mail' : m \in mail \/ (m.type \notin {"OFFER", "ANSWER"} /\ m.call <= Len(caller))

LEMMA IdlePage ==
  ASSUME NEW CONSTANT n \in Nat, NEW CONSTANT k \in Nat, CallInv(n, k), NEW p \in Page
  PROVE  /\ Calling(n, k)!Ended(p) \in PhoneRecord(n)
         /\ Idle(Calling(n, k)!Ended(p))
         /\ [Calling(n, k)!Ended(p) EXCEPT !.session = FALSE] \in PhoneRecord(n)
         /\ Idle([Calling(n, k)!Ended(p) EXCEPT !.session = FALSE])
BY DEF CallInv, CallTyped, Calling!Ended, Calling!NoCall, Idle, PhoneRecord

LEMMA StaleTasks ==
  ASSUME NEW CONSTANT n \in Nat, NEW CONSTANT k \in Nat, CallInv(n, k), NEW p \in Page,
         NEW t \in [1 .. n -> TaskRecord],
         \A c \in 1 .. n : t[c].st \in {"none", task[p][c].st}
  PROVE  /\ Calling(n, k)!Outdated(t) \in [1 .. n -> TaskRecord]
         /\ \A c \in 1 .. n : Stale(p, c, Calling(n, k)!Outdated(t)[c])
<1> DEFINE u == Calling(n, k)!Outdated(t)
<1>1. u = [c \in 1 .. n |-> IF t[c].st \in {"negotiating", "writing"}
                            THEN [st |-> "none", fresh |-> FALSE]
                            ELSE [t[c] EXCEPT !.fresh = FALSE]]
  BY DEF Calling!Outdated, Calling!Call, Calling!Nothing
<1> HIDE DEF u
<1>2. \A c \in 1 .. n : u[c] \in TaskRecord /\ ~u[c].fresh
                        /\ u[c].st = IF t[c].st \in {"negotiating", "writing"} THEN "none"
                                     ELSE t[c].st
  BY <1>1 DEF TaskRecord
<1>3. u \in [1 .. n -> TaskRecord]
  BY <1>1, <1>2
<1>4. \A c \in 1 .. n : Stale(p, c, u[c])
  BY <1>2 DEF Stale
<1> QED BY <1>3, <1>4 DEF u

LEMMA StaleRestarts ==
  ASSUME NEW CONSTANT n \in Nat, NEW CONSTANT k \in Nat, CallInv(n, k), NEW p \in Page
  PROVE  /\ Calling(n, k)!OutdatedRestarts(p) \in [1 .. n -> RestartRecord(k)]
         /\ \A c \in 1 .. n : StaleRestart(p, c, Calling(n, k)!OutdatedRestarts(p)[c])
<1> DEFINE u == Calling(n, k)!OutdatedRestarts(p)
<1>1. u = [c \in 1 .. n |-> [redo[p][c] EXCEPT !.fresh = FALSE]]
  BY DEF Calling!OutdatedRestarts, Calling!Call
<1>2. \A c \in 1 .. n : redo[p][c] \in RestartRecord(k)
  BY DEF CallInv, CallTyped
<1> HIDE DEF u
<1>3. \A c \in 1 .. n : u[c] \in RestartRecord(k) /\ ~u[c].fresh
                        /\ u[c].st = redo[p][c].st /\ u[c].times = redo[p][c].times
  BY <1>1, <1>2 DEF RestartRecord
<1>4. u \in [1 .. n -> RestartRecord(k)]
  BY <1>1, <1>3
<1> QED BY <1>3, <1>4 DEF StaleRestart, u

\* The call of page p ends, and nothing begins.
LEMMA CallEnds ==
  ASSUME NEW CONSTANT n \in Nat, NEW CONSTANT k \in Nat, CallInv(n, k), NEW p \in Page,
         NEW r \in PhoneRecord(n), NEW t \in [1 .. n -> TaskRecord],
         NEW d \in [1 .. n -> RestartRecord(k)],
         Calling(n, k)!EndThen(p, r, t, d), Idle(r),
         \A c \in 1 .. n : Stale(p, c, t[c]) /\ StaleRestart(p, c, d[c]),
         caller' = caller, trouble' \in 0 .. k, Whispered(n)
  PROVE  CallInv(n, k)'
<1>1. /\ phone' = [phone EXCEPT ![p] = r]
      /\ task' = [task EXCEPT ![p] = t]
      /\ redo' = [redo EXCEPT ![p] = d]
      /\ on' = [on EXCEPT ![p] = @ \ {phone[p].media}]
  BY DEF Calling!EndThen
<1>2. /\ phone \in [Page -> PhoneRecord(n)]
      /\ task \in [Page -> [1 .. n -> TaskRecord]]
      /\ redo \in [Page -> [1 .. n -> RestartRecord(k)]]
      /\ on \in [Page -> SUBSET (1 .. n)]
  BY DEF CallInv, CallTyped
<1>3. CallTyped(n, k)'
  <2>1. phone' \in [Page -> PhoneRecord(n)]
    BY <1>1, <1>2
  <2>2. task' \in [Page -> [1 .. n -> TaskRecord]]
    BY <1>1, <1>2
  <2>3. redo' \in [Page -> [1 .. n -> RestartRecord(k)]]
    BY <1>1, <1>2
  <2>4. on' \in [Page -> SUBSET (1 .. n)]
    BY <1>1, <1>2
  <2> QED BY <2>1, <2>2, <2>3, <2>4 DEF CallInv, CallTyped, Whispered
<1>4. /\ phone'[p] = r /\ task'[p] = t /\ redo'[p] = d
      /\ on'[p] = on[p] \ {phone[p].media}
      /\ Alone(p)
  BY <1>1, <1>2 DEF Alone
<1>5. Linked(p)'
  BY <1>4 DEF CallInv, Linked, Idle
<1>6. \A c \in 1 .. n : InStep(p, c)'
  BY <1>4 DEF CallInv, InStep, Idle, Stale, StaleRestart
<1>7. ASSUME NEW c \in 1 .. n
      PROVE  Staged(c)'
  <2>1. Quiet(c)
    <3>1. \A q \in Page \ {p} : phone'[q] = phone[q] /\ task'[q] = task[q] /\ redo'[q] = redo[q]
      BY <1>4 DEF Alone
    <3>2. /\ Stale(p, c, t[c]) /\ StaleRestart(p, c, d[c])
          /\ phone'[p] = r /\ task'[p][c] = t[c] /\ redo'[p][c] = d[c]
      BY <1>4
    <3> QED BY <3>1, <3>2 DEF Quiet, Idle, Stale, StaleRestart, Preparing, Whispered
  <2> QED BY <2>1, QuietStages
<1> QED BY <1>3, <1>4, <1>5, <1>6, <1>7, CallPieces


LEMMA LiveLinkEnds ==
  ASSUME NEW CONSTANT n \in Nat, NEW CONSTANT k \in Nat, CallInv(n, k), NEW p \in Page,
         Calling(n, k)!EndLiveLink(p),
         caller' = caller, trouble' \in 0 .. k, Whispered(n)
  PROVE  CallInv(n, k)'
<1> DEFINE r == Calling(n, k)!Ended(p)
           t == Calling(n, k)!Outdated(task[p])
           d == Calling(n, k)!OutdatedRestarts(p)
<1>1. Calling(n, k)!EndThen(p, r, t, d)
  BY DEF Calling!EndLiveLink
<1>2. r \in PhoneRecord(n) /\ Idle(r)
  BY IdlePage
<1>3. task[p] \in [1 .. n -> TaskRecord]
  BY DEF CallInv, CallTyped
<1>4. t \in [1 .. n -> TaskRecord] /\ \A c \in 1 .. n : Stale(p, c, t[c])
  BY <1>3, StaleTasks
<1>5. d \in [1 .. n -> RestartRecord(k)] /\ \A c \in 1 .. n : StaleRestart(p, c, d[c])
  BY StaleRestarts
<1> HIDE DEF r, t, d
<1> QED BY <1>1, <1>2, <1>4, <1>5, CallEnds

\* What page p does besides beginning, ending and restarting calls: its call stays,
\* and no function is resumed that was not about it.
Follows(p, n) ==
  LET r == phone[p]
      s == phone'[p]
  IN /\ s.current = r.current
     /\ s.media = r.media
     /\ s.ringing \in {0, r.ringing}
     /\ s.attempted = r.attempted
     /\ \/ s.pc = r.pc
        \/ /\ r.pc \notin {"none", "new"}
           /\ s.pc \in {"connected", "disconnected", "failed"}
     /\ s.timer # "none" \/ s.lost # {} => s.pc \notin {"none", "new"}
     /\ s.setup = r.setup \/ s.pc = "connected"
     /\ on'[p] = on[p]
     /\ \A c \in 1 .. n :
          /\ \/ task'[p][c] = task[p][c]
             \/ /\ task[p][c].st # "none"
                /\ task'[p][c].st \in {"none", "refusing"}
                /\ task'[p][c].fresh => task[p][c].fresh
          /\ redo'[p][c].times = redo[p][c].times
          /\ redo'[p][c].fresh => redo[p][c].fresh
          /\ redo[p][c].st = "none" => redo'[p][c].st = "none"

LEMMA CallGoesOn ==
  ASSUME NEW CONSTANT n \in Nat, NEW CONSTANT k \in Nat, CallInv(n, k), NEW p \in Page,
         CallTyped(n, k)', Alone(p), Follows(p, n), caller' = caller, Whispered(n)
  PROVE  CallInv(n, k)'
<1>1. Linked(p)'
  BY DEF CallInv, Linked, Follows
<1>2. ASSUME NEW c \in 1 .. n
      PROVE  InStep(p, c)'
  <2>1. InStep(p, c)
    BY DEF CallInv
  <2>2. CASE task'[p][c] = task[p][c]
    BY <2>1, <2>2 DEF InStep, Follows
  <2>3. CASE task'[p][c].st \in {"none", "refusing"} /\ (task'[p][c].fresh => task[p][c].fresh)
    BY <2>1, <2>3 DEF InStep, Follows
  <2> QED BY <2>2, <2>3 DEF Follows
<1>3. ASSUME NEW c \in 1 .. n
      PROVE  Staged(c)'
  <2>1. Quiet(c)
    <3>1. \A q \in Page \ {p} : phone'[q] = phone[q] /\ task'[q] = task[q] /\ redo'[q] = redo[q]
      BY DEF Alone
    <3>2. /\ phone'[p].ringing = c => phone[p].ringing = c
          /\ phone'[p].current = c => phone[p].current = c
          /\ phone'[p].current = c /\ phone[p].pc \in {"none", "new"} =>
               phone'[p].pc \in {"none", "new"}
          /\ Preparing(p, c)' => Preparing(p, c)
          /\ task[p][c].st = "none" => task'[p][c].st = "none"
          /\ redo'[p][c].times = redo[p][c].times
          /\ redo[p][c].st = "none" => redo'[p][c].st = "none"
      BY DEF Follows, Preparing
    <3> QED BY <3>1, <3>2 DEF Quiet, Preparing, Whispered
  <2> QED BY <2>1, QuietStages
<1> QED BY <1>1, <1>2, <1>3, CallPieces

\* The automatic restart of a call: r is the page's record by then.
LEMMA CallRestarts ==
  ASSUME NEW CONSTANT n \in Nat, NEW CONSTANT k \in Nat \ {0}, CallInv(n, k), NEW p \in Page,
         NEW r \in PhoneRecord(n),
         r.current = phone[p].current, r.media = phone[p].media,
         r.ringing = phone[p].ringing, r.attempted = phone[p].attempted,
         r.setup = phone[p].setup,
         phone[p].pc \notin {"none", "new"}, r.pc = phone[p].pc \/ r.pc = "failed",
         Calling(n, k)!AttemptIceRestart(p, r),
         caller' = caller, mail' = mail, trouble' \in 0 .. k
  PROVE  CallInv(n, k)'
<1>1. CASE r.attempted
  <2>1. Calling(n, k)!EndThen(p, Calling(n, k)!Ended(p), Calling(n, k)!Outdated(task[p]),
                              Calling(n, k)!OutdatedRestarts(p))
    BY <1>1 DEF Calling!AttemptIceRestart, Calling!EndLiveLink
  <2>2. task[p] \in [1 .. n -> TaskRecord] /\ Whispered(n)
    BY DEF CallInv, CallTyped, Whispered
  <2> QED BY <2>1, <2>2, LiveLinkEnds DEF Calling!EndLiveLink
<1>2. CASE ~r.attempted
  <2> DEFINE c == r.current
  <2>1. /\ phone' = [phone EXCEPT ![p] = [r EXCEPT !.attempted = TRUE, !.timer = "none"]]
        /\ redo' = [redo EXCEPT ![p] = [redo[p] EXCEPT ![c] =
                      [st |-> "negotiating", fresh |-> TRUE, times |-> redo[p][c].times + 1]]]
        /\ task' = task /\ on' = on
    BY <1>2 DEF Calling!AttemptIceRestart
  <2>2. /\ phone \in [Page -> PhoneRecord(n)]
        /\ redo \in [Page -> [1 .. n -> RestartRecord(k)]]
        /\ Linked(p)
    BY DEF CallInv, CallTyped
  <2>3. c \in 1 .. n
    BY <2>2 DEF Linked, PhoneRecord
  <2>4. redo[p][c].times = 0
    BY <1>2, <2>3 DEF CallInv, InStep
  <2> DEFINE s == [r EXCEPT !.attempted = TRUE, !.timer = "none"]
             a == [st |-> "negotiating", fresh |-> TRUE, times |-> redo[p][c].times + 1]
             d == [redo[p] EXCEPT ![c] = a]
  <2>5. s \in PhoneRecord(n)
    BY DEF PhoneRecord
  <2>6. a \in RestartRecord(k) /\ a.times = 1 /\ a.fresh
    BY <2>4 DEF RestartRecord
  <2>7. /\ s.current = c /\ s.media = phone[p].media /\ s.ringing = phone[p].ringing
        /\ s.attempted /\ s.timer = "none" /\ s.pc = r.pc /\ s.setup = phone[p].setup
        /\ s.lost = r.lost
    BY DEF PhoneRecord
  <2> HIDE DEF c, s, a
  <2>8. /\ d \in [1 .. n -> RestartRecord(k)] /\ d[c] = a
        /\ \A e \in 1 .. n \ {c} : d[e] = redo[p][e]
    BY <2>2, <2>3, <2>6
  <2> HIDE DEF d
  <2>9. /\ phone' = [phone EXCEPT ![p] = s] /\ redo' = [redo EXCEPT ![p] = d]
    BY <2>1 DEF c, s, a, d
  <2>10. /\ phone' \in [Page -> PhoneRecord(n)] /\ phone'[p] = s
         /\ redo' \in [Page -> [1 .. n -> RestartRecord(k)]] /\ redo'[p] = d
         /\ \A q \in Page \ {p} : phone'[q] = phone[q] /\ redo'[q] = redo[q]
    BY <2>2, <2>5, <2>8, <2>9
  <2>11. CallTyped(n, k)' /\ Alone(p)
    BY <2>1, <2>10 DEF CallInv, CallTyped, Alone
  <2>12. c = phone[p].current /\ c # 0 /\ s.pc \notin {"none", "new"} /\ (s.pc = "ready" => s.setup)
    BY <2>2, <2>7 DEF c, Linked
  <2>13. Linked(p)'
    BY <2>1, <2>2, <2>7, <2>10, <2>12 DEF Linked
  <2>14. ASSUME NEW e \in 1 .. n
         PROVE  InStep(p, e)'
    <3>1. InStep(p, e)
      BY DEF CallInv
    <3>2. CASE e = c
      BY <2>1, <2>6, <2>7, <2>8, <2>10, <2>12, <3>1, <3>2 DEF InStep
    <3>3. CASE e # c
      BY <2>1, <2>7, <2>8, <2>10, <2>12, <3>1, <3>3 DEF InStep
    <3> QED BY <3>2, <3>3
  <2>15. ASSUME NEW e \in 1 .. n
         PROVE  Staged(e)'
    <3>1. Quiet(e)
      BY <2>1, <2>7, <2>8, <2>10, <2>12 DEF Quiet, Preparing
    <3> QED BY <3>1, QuietStages
  <2> QED BY <2>11, <2>13, <2>14, <2>15, CallPieces
<1> QED BY <1>1, <1>2


\* The steps that end a call.
LEMMA EndingSteps ==
  ASSUME NEW CONSTANT n \in Nat, NEW CONSTANT k \in Nat, CallInv(n, k), NEW p \in Page,
         \/ Calling(n, k)!Hangup(p)
         \/ \E m \in mail : m.to = p /\ Calling(n, k)!PeerEnds(m)
         \/ \E c \in 1 .. n : Calling(n, k)!Refused(p, c) \/ Calling(n, k)!RestartFails(p, c)
  PROVE  CallInv(n, k)'
<1>1. /\ trouble \in 0 .. k
      /\ mail \subseteq CallMessage(n)
      /\ phone \in [Page -> PhoneRecord(n)]
      /\ task \in [Page -> [1 .. n -> TaskRecord]]
      /\ redo \in [Page -> [1 .. n -> RestartRecord(k)]]
  BY DEF CallInv, CallTyped
<1>2. ASSUME Calling(n, k)!Hangup(p) PROVE CallInv(n, k)'
  <2> DEFINE c == phone[p].current
  <2>1. c \in 1 .. n /\ c <= Len(caller)
    <3>1. c \in 1 .. n
      BY <1>1, <1>2 DEF Calling!Hangup, PhoneRecord
    <3>2. CASE ~(c <= Len(caller))
      <4>1. NotYet(c)
        BY <3>1, <3>2 DEF CallInv, Staged
      <4> QED BY <4>1 DEF NotYet, Untouched
    <3> QED BY <3>1, <3>2
  <2>2. mail' \subseteq mail \cup {[type |-> "HANGUP", to |-> Calling(n, k)!Other(p), call |-> c]}
    BY <1>2 DEF Calling!Hangup, Calling!Goodbye, Calling!Sent, Calling!Message
  <2>3. Calling(n, k)!Other(p) \in Page
    BY Peers
  <2>4. Whispered(n)
    BY <1>1, <2>1, <2>2, <2>3 DEF Whispered, CallMessage
  <2>5. Calling(n, k)!EndLiveLink(p) /\ caller' = caller /\ trouble' \in 0 .. k
    BY <1>1, <1>2 DEF Calling!Hangup
  <2> QED BY <2>4, <2>5, LiveLinkEnds
<1>3. ASSUME NEW m \in mail, m.to = p, Calling(n, k)!PeerEnds(m) PROVE CallInv(n, k)'
  <2>1. Calling(n, k)!EndLiveLink(p) /\ caller' = caller /\ trouble' \in 0 .. k
    BY <1>1, <1>3 DEF Calling!PeerEnds
  <2>2. Whispered(n)
    BY <1>1, <1>3 DEF Calling!PeerEnds, Calling!Take, Whispered
  <2> QED BY <2>1, <2>2, LiveLinkEnds
<1>4. ASSUME NEW c \in 1 .. n, Calling(n, k)!Refused(p, c) PROVE CallInv(n, k)'
  <2> DEFINE none == [st |-> "none", fresh |-> FALSE]
             u == [task[p] EXCEPT ![c] = none]
             r == Calling(n, k)!Ended(p)
             t == Calling(n, k)!Outdated(u)
             d == Calling(n, k)!OutdatedRestarts(p)
  <2>1. Calling(n, k)!EndThen(p, r, t, d) /\ caller' = caller /\ trouble' \in 0 .. k
    BY <1>1, <1>4 DEF Calling!Refused, Calling!Nothing
  <2>2. u \in [1 .. n -> TaskRecord] /\ \A e \in 1 .. n : u[e].st \in {"none", task[p][e].st}
    <3>1. none \in TaskRecord /\ none.st = "none"
      BY DEF TaskRecord
    <3>2. task[p] \in [1 .. n -> TaskRecord]
      BY <1>1
    <3> HIDE DEF none
    <3> QED BY <3>1, <3>2
  <2>3. r \in PhoneRecord(n) /\ Idle(r)
    BY IdlePage
  <2> HIDE DEF u
  <2>4. t \in [1 .. n -> TaskRecord] /\ \A e \in 1 .. n : Stale(p, e, t[e])
    BY <2>2, StaleTasks
  <2>5. d \in [1 .. n -> RestartRecord(k)] /\ \A e \in 1 .. n : StaleRestart(p, e, d[e])
    BY StaleRestarts
  <2>6. Whispered(n)
    BY <1>1, <1>4 DEF Calling!Refused, Whispered
  <2> HIDE DEF r, t, d
  <2> QED BY <2>1, <2>3, <2>4, <2>5, <2>6, CallEnds
<1>5. ASSUME NEW c \in 1 .. n, Calling(n, k)!RestartFails(p, c) PROVE CallInv(n, k)'
  <2> DEFINE r == Calling(n, k)!Ended(p)
             t == Calling(n, k)!Outdated(task[p])
             e == Calling(n, k)!OutdatedRestarts(p)
             f == [e[c] EXCEPT !.st = "none", !.fresh = FALSE]
             d == [e EXCEPT ![c] = f]
  <2>1. Calling(n, k)!EndThen(p, r, t, d) /\ caller' = caller /\ trouble' \in 0 .. k
    BY <1>1, <1>5 DEF Calling!RestartFails, Calling!Finished
  <2>2. r \in PhoneRecord(n) /\ Idle(r)
    BY IdlePage
  <2>3. task[p] \in [1 .. n -> TaskRecord]
    BY <1>1
  <2>4. t \in [1 .. n -> TaskRecord] /\ \A g \in 1 .. n : Stale(p, g, t[g])
    BY <2>3, StaleTasks
  <2>5. e \in [1 .. n -> RestartRecord(k)] /\ \A g \in 1 .. n : StaleRestart(p, g, e[g])
    BY StaleRestarts
  <2> HIDE DEF r, t, e
  <2>6. f \in RestartRecord(k) /\ StaleRestart(p, c, f)
    <3>1. e[c] \in RestartRecord(k) /\ StaleRestart(p, c, e[c])
      BY <2>5
    <3>2. /\ f \in RestartRecord(k) /\ f.st = "none" /\ f.fresh = FALSE
          /\ f.times = e[c].times
      BY <3>1 DEF RestartRecord
    <3> QED BY <3>1, <3>2 DEF StaleRestart
  <2> HIDE DEF f
  <2>7. d \in [1 .. n -> RestartRecord(k)] /\ \A g \in 1 .. n : StaleRestart(p, g, d[g])
    BY <2>5, <2>6
  <2>8. Whispered(n)
    BY <1>1, <1>5 DEF Calling!RestartFails, Whispered
  <2> HIDE DEF d
  <2> QED BY <2>1, <2>2, <2>4, <2>7, <2>8, CallEnds
<1> QED BY <1>2, <1>3, <1>4, <1>5

LEMMA TaskFailsStep ==
  ASSUME NEW CONSTANT n \in Nat, NEW CONSTANT k \in Nat, CallInv(n, k), NEW p \in Page,
         NEW c \in 1 .. n, Calling(n, k)!TaskFails(p, c)
  PROVE  CallInv(n, k)'
<1>1. /\ trouble \in 0 .. k
      /\ mail \subseteq CallMessage(n)
      /\ phone \in [Page -> PhoneRecord(n)]
      /\ task \in [Page -> [1 .. n -> TaskRecord]]
      /\ redo \in [Page -> [1 .. n -> RestartRecord(k)]]
  BY DEF CallInv, CallTyped
<1> DEFINE refuses == task[p][c].fresh /\ caller[c] # p
           one == IF refuses THEN [task[p][c] EXCEPT !.st = "refusing"]
                  ELSE [st |-> "none", fresh |-> FALSE]
           u == [task[p] EXCEPT ![c] = one]
<1>2. /\ task[p][c].st \in {"media", "negotiating", "writing"}
      /\ caller' = caller /\ trouble' \in 0 .. k
  BY <1>1 DEF Calling!TaskFails
<1>3. /\ one \in TaskRecord
      /\ one.st = IF refuses THEN "refusing" ELSE "none"
      /\ one.fresh => task[p][c].fresh
  BY <1>1 DEF TaskRecord
<1>4. /\ u \in [1 .. n -> TaskRecord] /\ u[c] = one
      /\ \A e \in 1 .. n \ {c} : u[e] = task[p][e]
  <2> HIDE DEF one
  <2> QED BY <1>1, <1>3
<1>5. c <= Len(caller)
  <2>1. CASE ~(c <= Len(caller))
    <3>1. NotYet(c)
      BY <2>1 DEF CallInv, Staged
    <3> QED BY <1>2, <3>1 DEF NotYet, Untouched
  <2> QED BY <2>1
<1>6. CASE task[p][c].fresh /\ caller[c] = p
  <2> DEFINE r == Calling(n, k)!Ended(p)
             t == Calling(n, k)!Outdated(u)
             d == Calling(n, k)!OutdatedRestarts(p)
  <2>1. Calling(n, k)!EndThen(p, r, t, d) /\ mail' = mail
    BY <1>6 DEF Calling!TaskFails, Calling!Nothing
  <2>2. \A e \in 1 .. n : u[e].st \in {"none", task[p][e].st}
    BY <1>3, <1>4, <1>6
  <2>3. r \in PhoneRecord(n) /\ Idle(r)
    BY IdlePage
  <2> HIDE DEF u
  <2>4. t \in [1 .. n -> TaskRecord] /\ \A e \in 1 .. n : Stale(p, e, t[e])
    BY <1>4, <2>2, StaleTasks
  <2>5. d \in [1 .. n -> RestartRecord(k)] /\ \A e \in 1 .. n : StaleRestart(p, e, d[e])
    BY StaleRestarts
  <2>6. Whispered(n)
    BY <1>1, <2>1 DEF Whispered
  <2> HIDE DEF r, t, d
  <2> QED BY <1>2, <2>1, <2>3, <2>4, <2>5, <2>6, CallEnds
<1>7. CASE ~(task[p][c].fresh /\ caller[c] = p)
  <2>1. /\ task' = [task EXCEPT ![p] = u]
        /\ phone' = phone /\ redo' = redo /\ on' = on
        /\ mail' \subseteq mail \cup {[type |-> "DECLINE", to |-> Calling(n, k)!Other(p), call |-> c]}
    BY <1>7 DEF Calling!TaskFails, Calling!Nothing, Calling!Sent, Calling!Message
  <2>2. Calling(n, k)!Other(p) \in Page
    BY Peers
  <2>3. Whispered(n)
    BY <1>1, <1>5, <2>1, <2>2 DEF Whispered, CallMessage
  <2> HIDE DEF u
  <2>4. /\ task' \in [Page -> [1 .. n -> TaskRecord]] /\ task'[p] = u
        /\ \A q \in Page \ {p} : task'[q] = task[q]
    BY <1>1, <1>4, <2>1
  <2>5. CallTyped(n, k)' /\ Alone(p)
    BY <1>2, <2>1, <2>3, <2>4 DEF CallInv, CallTyped, Alone, Whispered
  <2>6. Linked(p)
    BY DEF CallInv
  <2> HIDE DEF one
  <2>7. Follows(p, n)
    BY <1>2, <1>3, <1>4, <2>1, <2>4, <2>6 DEF Follows, Linked
  <2> QED BY <1>2, <2>3, <2>5, <2>7, CallGoesOn
<1> QED BY <1>6, <1>7


\* A step that changes the record of page p only.
LEMMA PhoneOnly ==
  ASSUME NEW CONSTANT n \in Nat, NEW CONSTANT k \in Nat, CallInv(n, k), NEW p \in Page,
         NEW s \in PhoneRecord(n), phone' = [phone EXCEPT ![p] = s],
         s.current = phone[p].current, s.media = phone[p].media,
         s.ringing \in {0, phone[p].ringing}, s.attempted = phone[p].attempted,
         \/ s.pc = phone[p].pc
         \/ /\ phone[p].pc \notin {"none", "new"}
            /\ s.pc \in {"connected", "disconnected", "failed"},
         s.timer # "none" \/ s.lost # {} => s.pc \notin {"none", "new"},
         s.setup = phone[p].setup \/ s.pc = "connected",
         caller' = caller, task' = task, redo' = redo, on' = on,
         trouble' \in 0 .. k, Whispered(n)
  PROVE  CallInv(n, k)'
<1>1. /\ phone' \in [Page -> PhoneRecord(n)] /\ phone'[p] = s
      /\ \A q \in Page \ {p} : phone'[q] = phone[q]
  BY DEF CallInv, CallTyped
<1>2. CallTyped(n, k)' /\ Alone(p)
  BY <1>1 DEF CallInv, CallTyped, Alone, Whispered
<1>3. Follows(p, n)
  BY <1>1 DEF Follows
<1> QED BY <1>2, <1>3, CallGoesOn

LEMMA PhoneSteps ==
  ASSUME NEW CONSTANT n \in Nat, NEW CONSTANT k \in Nat \ {0}, CallInv(n, k), NEW p \in Page,
         \/ Calling(n, k)!DeclineIncomingCall(p)
         \/ Calling(n, k)!Connected(p)
         \/ Calling(n, k)!Disconnected(p)
         \/ Calling(n, k)!Failed(p)
         \/ Calling(n, k)!SessionEnds(p)
         \/ \E name \in {"retry", "giveUp"} : Calling(n, k)!TimerFires(p, name)
  PROVE  CallInv(n, k)'
<1>1. /\ trouble \in 0 .. k
      /\ mail \subseteq CallMessage(n)
      /\ phone \in [Page -> PhoneRecord(n)] /\ phone[p] \in PhoneRecord(n)
      /\ Linked(p)
      /\ task[p] \in [1 .. n -> TaskRecord]
  BY DEF CallInv, CallTyped
<1>2. mail' = mail => Whispered(n)
  BY <1>1 DEF Whispered
<1>3. ASSUME Calling(n, k)!DeclineIncomingCall(p) PROVE CallInv(n, k)'
  <2> DEFINE c == phone[p].ringing
             s == [phone[p] EXCEPT !.ringing = 0]
  <2>1. c \in 1 .. n /\ c <= Len(caller)
    <3>1. c \in 1 .. n
      BY <1>1, <1>3 DEF Calling!DeclineIncomingCall, PhoneRecord
    <3>2. CASE ~(c <= Len(caller))
      <4>1. NotYet(c)
        BY <3>1, <3>2 DEF CallInv, Staged
      <4> QED BY <4>1 DEF NotYet, Untouched
    <3> QED BY <3>1, <3>2
  <2>2. /\ mail' \subseteq mail \cup {[type |-> "DECLINE", to |-> Calling(n, k)!Other(p), call |-> c]}
        /\ phone' = [phone EXCEPT ![p] = s]
        /\ caller' = caller /\ task' = task /\ redo' = redo /\ on' = on /\ trouble' \in 0 .. k
    BY <1>1, <1>3 DEF Calling!DeclineIncomingCall, Calling!Sent, Calling!Message
  <2>3. Calling(n, k)!Other(p) \in Page
    BY Peers
  <2>4. Whispered(n)
    BY <1>1, <2>1, <2>2, <2>3 DEF Whispered, CallMessage
  <2>5. /\ s \in PhoneRecord(n) /\ s.current = phone[p].current /\ s.media = phone[p].media
        /\ s.ringing = 0 /\ s.attempted = phone[p].attempted /\ s.pc = phone[p].pc
        /\ s.timer = phone[p].timer /\ s.lost = phone[p].lost /\ s.setup = phone[p].setup
    BY <1>1 DEF PhoneRecord
  <2>6. s.timer # "none" \/ s.lost # {} => s.pc \notin {"none", "new"}
    BY <1>1, <2>5 DEF Linked
  <2> HIDE DEF s
  <2> QED BY <2>2, <2>4, <2>5, <2>6, PhoneOnly
<1>4. ASSUME Calling(n, k)!Connected(p) PROVE CallInv(n, k)'
  <2> DEFINE s == [phone[p] EXCEPT !.pc = "connected", !.timer = "none", !.setup = FALSE]
  <2>1. /\ phone' = [phone EXCEPT ![p] = s]
        /\ caller' = caller /\ task' = task /\ redo' = redo /\ on' = on /\ mail' = mail
        /\ trouble' \in 0 .. k /\ phone[p].pc \notin {"none", "new"}
    BY <1>1, <1>4 DEF Calling!Connected
  <2>2. /\ s \in PhoneRecord(n) /\ s.current = phone[p].current /\ s.media = phone[p].media
        /\ s.ringing = phone[p].ringing /\ s.attempted = phone[p].attempted
        /\ s.pc = "connected"
    BY <1>1 DEF PhoneRecord
  <2> HIDE DEF s
  <2> QED BY <1>2, <2>1, <2>2, PhoneOnly
<1>5. ASSUME Calling(n, k)!Disconnected(p) PROVE CallInv(n, k)'
  <2> DEFINE s == [phone[p] EXCEPT !.pc = "disconnected", !.timer = "retry"]
  <2>1. /\ phone' = [phone EXCEPT ![p] = s]
        /\ caller' = caller /\ task' = task /\ redo' = redo /\ on' = on /\ mail' = mail
        /\ phone[p].pc \notin {"none", "new"}
    BY <1>1, <1>5 DEF Calling!Disconnected
  <2>2. trouble' \in 0 .. k
    BY <1>1, <1>5 DEF Calling!Disconnected, Calling!Troubled
  <2>3. /\ s \in PhoneRecord(n) /\ s.current = phone[p].current /\ s.media = phone[p].media
        /\ s.ringing = phone[p].ringing /\ s.attempted = phone[p].attempted
        /\ s.pc = "disconnected" /\ s.setup = phone[p].setup
    BY <1>1 DEF PhoneRecord
  <2> HIDE DEF s
  <2> QED BY <1>2, <2>1, <2>2, <2>3, PhoneOnly
<1>6. ASSUME Calling(n, k)!Failed(p) PROVE CallInv(n, k)'
  <2> DEFINE s == [phone[p] EXCEPT !.pc = "failed"]
  <2>1. /\ Calling(n, k)!AttemptIceRestart(p, s)
        /\ caller' = caller /\ mail' = mail
        /\ trouble' \in 0 .. k /\ phone[p].pc \notin {"none", "new"}
    BY <1>1, <1>6 DEF Calling!Failed, Calling!Troubled
  <2>2. /\ s \in PhoneRecord(n) /\ s.current = phone[p].current /\ s.media = phone[p].media
        /\ s.ringing = phone[p].ringing /\ s.attempted = phone[p].attempted
        /\ s.pc = "failed" /\ s.setup = phone[p].setup
    BY <1>1 DEF PhoneRecord
  <2> HIDE DEF s
  <2> QED BY <2>1, <2>2, CallRestarts
<1>7. ASSUME Calling(n, k)!SessionEnds(p) PROVE CallInv(n, k)'
  <2> DEFINE r == [Calling(n, k)!Ended(p) EXCEPT !.session = FALSE]
             t == Calling(n, k)!Outdated(task[p])
             d == Calling(n, k)!OutdatedRestarts(p)
             s == [phone[p] EXCEPT !.session = FALSE]
  <2>1. caller' = caller /\ mail' = mail /\ trouble' \in 0 .. k
    BY <1>1, <1>7 DEF Calling!SessionEnds, Calling!Troubled
  <2>2. CASE Calling(n, k)!EndThen(p, r, t, d)
    <3>1. r \in PhoneRecord(n) /\ Idle(r)
      BY IdlePage
    <3>2. t \in [1 .. n -> TaskRecord] /\ \A c \in 1 .. n : Stale(p, c, t[c])
      BY <1>1, StaleTasks
    <3>3. d \in [1 .. n -> RestartRecord(k)] /\ \A c \in 1 .. n : StaleRestart(p, c, d[c])
      BY StaleRestarts
    <3> HIDE DEF r, t, d
    <3> QED BY <1>2, <2>1, <2>2, <3>1, <3>2, <3>3, CallEnds
  <2>3. CASE phone' = [phone EXCEPT ![p].session = FALSE] /\ UNCHANGED <<task, redo, on>>
    <3>1. phone' = [phone EXCEPT ![p] = s] /\ task' = task /\ redo' = redo /\ on' = on
      BY <2>3
    <3>2. /\ s \in PhoneRecord(n) /\ s.current = phone[p].current /\ s.media = phone[p].media
          /\ s.ringing = phone[p].ringing /\ s.attempted = phone[p].attempted
          /\ s.pc = phone[p].pc /\ s.setup = phone[p].setup
          /\ s.timer = phone[p].timer /\ s.lost = phone[p].lost
      BY <1>1 DEF PhoneRecord
    <3>3. s.timer # "none" \/ s.lost # {} => s.pc \notin {"none", "new"}
      BY <1>1, <3>2 DEF Linked
    <3> HIDE DEF s
    <3> QED BY <1>2, <2>1, <3>1, <3>2, <3>3, PhoneOnly
  <2> QED BY <1>7, <2>2, <2>3 DEF Calling!SessionEnds
<1>8. ASSUME NEW name \in {"retry", "giveUp"}, Calling(n, k)!TimerFires(p, name)
      PROVE  CallInv(n, k)'
  <2> DEFINE r == IF phone[p].timer = name THEN [phone[p] EXCEPT !.timer = "none"]
                  ELSE [phone[p] EXCEPT !.lost = phone[p].lost \ {name}]
  <2>1. caller' = caller /\ mail' = mail /\ trouble' \in 0 .. k
    BY <1>1, <1>8 DEF Calling!TimerFires
  <2>2. phone[p].pc \notin {"none", "new"}
    BY <1>1, <1>8 DEF Calling!TimerFires, Linked
  <2>3. /\ r \in PhoneRecord(n) /\ r.current = phone[p].current /\ r.media = phone[p].media
        /\ r.ringing = phone[p].ringing /\ r.attempted = phone[p].attempted
        /\ r.pc = phone[p].pc /\ r.setup = phone[p].setup
    BY <1>1 DEF PhoneRecord
  <2>4. \/ Calling(n, k)!AttemptIceRestart(p, r)
        \/ Calling(n, k)!EndLiveLink(p)
        \/ phone' = [phone EXCEPT ![p] = r] /\ task' = task /\ redo' = redo /\ on' = on
    BY <1>8 DEF Calling!TimerFires
  <2> HIDE DEF r
  <2>5. CASE Calling(n, k)!AttemptIceRestart(p, r)
    BY <2>1, <2>2, <2>3, <2>5, CallRestarts
  <2>6. CASE Calling(n, k)!EndLiveLink(p)
    BY <1>2, <2>1, <2>6, LiveLinkEnds
  <2>7. CASE phone' = [phone EXCEPT ![p] = r] /\ task' = task /\ redo' = redo /\ on' = on
    BY <1>2, <2>1, <2>2, <2>3, <2>7, PhoneOnly
  <2> QED BY <2>4, <2>5, <2>6, <2>7
<1> QED BY <1>3, <1>4, <1>5, <1>6, <1>7, <1>8


\* The steps of functions that leave the call where it is.
LEMMA FunctionSteps ==
  ASSUME NEW CONSTANT n \in Nat, NEW CONSTANT k \in Nat, CallInv(n, k), NEW p \in Page,
         NEW c \in 1 .. n,
         \/ Calling(n, k)!Written(p, c)
         \/ Calling(n, k)!GotMedia(p, c) /\ ~task[p][c].fresh
         \/ Calling(n, k)!RestartWritten(p, c)
         \/ Calling(n, k)!RestartSent(p, c)
  PROVE  CallInv(n, k)'
<1>1. /\ trouble \in 0 .. k
      /\ mail \subseteq CallMessage(n)
      /\ phone \in [Page -> PhoneRecord(n)] /\ phone[p] \in PhoneRecord(n)
      /\ task \in [Page -> [1 .. n -> TaskRecord]] /\ task[p] \in [1 .. n -> TaskRecord]
      /\ redo \in [Page -> [1 .. n -> RestartRecord(k)]]
      /\ redo[p] \in [1 .. n -> RestartRecord(k)]
      /\ redo[p][c] \in RestartRecord(k)
      /\ Linked(p) /\ InStep(p, c)
  BY DEF CallInv, CallTyped
<1>2. mail' = mail => Whispered(n)
  BY <1>1 DEF Whispered
<1>3. ASSUME \/ Calling(n, k)!Written(p, c)
             \/ Calling(n, k)!GotMedia(p, c) /\ ~task[p][c].fresh
      PROVE  CallInv(n, k)'
  <2> DEFINE none == [st |-> "none", fresh |-> FALSE]
             u == [task[p] EXCEPT ![c] = none]
  <2>1. /\ task' = [task EXCEPT ![p] = u]
        /\ phone' = phone /\ redo' = redo /\ on' = on /\ caller' = caller
        /\ mail' = mail /\ trouble' = trouble
        /\ task[p][c].st # "none"
    BY <1>3 DEF Calling!Written, Calling!GotMedia, Calling!Nothing
  <2>2. none \in TaskRecord /\ none.st = "none" /\ ~none.fresh
    BY DEF TaskRecord
  <2> HIDE DEF none
  <2>3. u \in [1 .. n -> TaskRecord] /\ \A e \in 1 .. n : u[e] = IF e = c THEN none ELSE task[p][e]
    BY <1>1, <2>2
  <2> HIDE DEF u
  <2>4. /\ task' \in [Page -> [1 .. n -> TaskRecord]] /\ task'[p] = u
        /\ \A q \in Page \ {p} : task'[q] = task[q]
    BY <1>1, <2>1, <2>3
  <2>5. CallTyped(n, k)' /\ Alone(p)
    BY <2>1, <2>4 DEF CallInv, CallTyped, Alone
  <2>6. Follows(p, n)
    BY <1>1, <2>1, <2>2, <2>3, <2>4 DEF Follows, Linked
  <2> QED BY <1>2, <2>1, <2>5, <2>6, CallGoesOn
<1> DEFINE done == [redo[p][c] EXCEPT !.st = "none", !.fresh = FALSE]
<1>4. done \in RestartRecord(k) /\ done.st = "none" /\ done.fresh = FALSE
      /\ done.times = redo[p][c].times
  BY <1>1 DEF RestartRecord
<1>5. ASSUME Calling(n, k)!RestartWritten(p, c) PROVE CallInv(n, k)'
  <2> DEFINE a == IF redo[p][c].fresh THEN [redo[p][c] EXCEPT !.st = "writing"] ELSE done
             d == [redo[p] EXCEPT ![c] = a]
  <2>1. /\ redo' = [redo EXCEPT ![p] = d]
        /\ phone' = phone /\ task' = task /\ on' = on /\ caller' = caller
        /\ trouble' = trouble
        /\ redo[p][c].st = "negotiating"
        /\ mail' \subseteq mail \cup {[type |-> "RESTART", to |-> Calling(n, k)!Other(p), call |-> c]}
    BY <1>5 DEF Calling!RestartWritten, Calling!Finished, Calling!Sent, Calling!Message
  <2>2. a \in RestartRecord(k) /\ (a.fresh => redo[p][c].fresh) /\ a.times = redo[p][c].times
    BY <1>1, <1>4 DEF RestartRecord
  <2> HIDE DEF a
  <2>3. /\ d \in [1 .. n -> RestartRecord(k)]
        /\ \A e \in 1 .. n : d[e] = IF e = c THEN a ELSE redo[p][e]
    BY <1>1, <2>2
  <2> HIDE DEF d
  <2>4. /\ redo' \in [Page -> [1 .. n -> RestartRecord(k)]] /\ redo'[p] = d
        /\ \A q \in Page \ {p} : redo'[q] = redo[q]
    BY <1>1, <2>1, <2>3
  <2>5. c <= Len(caller)
    <3>1. CASE ~(c <= Len(caller))
      <4>1. NotYet(c)
        BY <3>1 DEF CallInv, Staged
      <4> QED BY <2>1, <4>1 DEF NotYet, Untouched
    <3> QED BY <3>1
  <2>6. Calling(n, k)!Other(p) \in Page
    BY Peers
  <2>7. Whispered(n)
    BY <1>1, <2>1, <2>5, <2>6 DEF Whispered, CallMessage
  <2>8. CallTyped(n, k)' /\ Alone(p)
    BY <2>1, <2>4, <2>7 DEF CallInv, CallTyped, Alone, Whispered
  <2>9. Follows(p, n)
    BY <1>1, <2>1, <2>2, <2>3, <2>4 DEF Follows, Linked
  <2> QED BY <2>1, <2>7, <2>8, <2>9, CallGoesOn
<1>6. ASSUME Calling(n, k)!RestartSent(p, c) PROVE CallInv(n, k)'
  <2> DEFINE d == [redo[p] EXCEPT ![c] = done]
             next == IF redo[p][c].fresh THEN "giveUp" ELSE "none"
             left == phone[p].lost \cup ({phone[p].timer} \ {"none"})
             s == [phone[p] EXCEPT !.timer = next, !.lost = left]
  <2>1. /\ redo' = [redo EXCEPT ![p] = d]
        /\ phone' = [phone EXCEPT ![p] = s]
        /\ task' = task /\ on' = on /\ caller' = caller /\ mail' = mail
        /\ trouble' = trouble
        /\ redo[p][c].st = "writing"
    BY <1>6 DEF Calling!RestartSent, Calling!Finished
  <2> HIDE DEF done
  <2>2. /\ d \in [1 .. n -> RestartRecord(k)]
        /\ \A e \in 1 .. n : d[e] = IF e = c THEN done ELSE redo[p][e]
    BY <1>1, <1>4
  <2> HIDE DEF d
  <2>3. next \in {"giveUp", "none"} /\ left \in SUBSET {"retry", "giveUp"}
    BY <1>1 DEF PhoneRecord
  <2>4. next # "none" \/ left # {} => phone[p].pc \notin {"none", "new"}
    BY <1>1 DEF Linked, InStep
  <2> HIDE DEF next, left
  <2>5. /\ s \in PhoneRecord(n) /\ s.current = phone[p].current /\ s.media = phone[p].media
        /\ s.ringing = phone[p].ringing /\ s.attempted = phone[p].attempted
        /\ s.pc = phone[p].pc /\ s.setup = phone[p].setup
        /\ s.timer = next /\ s.lost = left
    BY <1>1, <2>3 DEF PhoneRecord
  <2> HIDE DEF s
  <2>6. /\ redo' \in [Page -> [1 .. n -> RestartRecord(k)]] /\ redo'[p] = d
        /\ phone' \in [Page -> PhoneRecord(n)] /\ phone'[p] = s
        /\ \A q \in Page \ {p} : redo'[q] = redo[q] /\ phone'[q] = phone[q]
    BY <1>1, <2>1, <2>2, <2>5
  <2>7. CallTyped(n, k)' /\ Alone(p)
    BY <2>1, <2>6 DEF CallInv, CallTyped, Alone
  <2>8. Follows(p, n)
    BY <1>4, <2>1, <2>2, <2>4, <2>5, <2>6 DEF Follows
  <2> QED BY <1>2, <2>1, <2>7, <2>8, CallGoesOn
<1> QED BY <1>3, <1>5, <1>6

\* The call c begins on page p, which was in none.
LEMMA CallBegins ==
  ASSUME NEW CONSTANT n \in Nat, NEW CONSTANT k \in Nat, CallInv(n, k), NEW p \in Page,
         NEW c \in 1 .. n, Calling(n, k)!Begin(p, c),
         phone[p].current # c, redo[p][c].times = 0,
         caller' \in Seq(Page), Len(caller') <= n, mail' = mail, trouble' = trouble
  PROVE  /\ CallTyped(n, k)'
         /\ Alone(p)
         /\ Linked(p)'
         /\ \A e \in 1 .. n : InStep(p, e)'
         /\ phone'[p].current = c /\ phone'[p].ringing = 0 /\ phone'[p].pc = "none"
         /\ task'[p][c].st = "media" /\ redo'[p][c].times = 0
         /\ \A e \in 1 .. n \ {c} : /\ Preparing(p, e)' => Preparing(p, e)
                                    /\ task[p][e].st = "none" => task'[p][e].st = "none"
                                    /\ redo'[p][e].times = redo[p][e].times
                                    /\ redo[p][e].st = "none" => redo'[p][e].st = "none"
<1> DEFINE r == Calling(n, k)!Ended(p)
           s == [r EXCEPT !.current = c, !.setup = TRUE]
           t == Calling(n, k)!Outdated(task[p])
           a == [st |-> "media", fresh |-> TRUE]
           u == [t EXCEPT ![c] = a]
           d == Calling(n, k)!OutdatedRestarts(p)
<1>1. /\ phone \in [Page -> PhoneRecord(n)]
      /\ task \in [Page -> [1 .. n -> TaskRecord]] /\ task[p] \in [1 .. n -> TaskRecord]
      /\ redo \in [Page -> [1 .. n -> RestartRecord(k)]]
      /\ on \in [Page -> SUBSET (1 .. n)]
      /\ Linked(p)
  BY DEF CallInv, CallTyped
<1>2. r \in PhoneRecord(n) /\ Idle(r)
  BY IdlePage
<1>3. t \in [1 .. n -> TaskRecord] /\ \A e \in 1 .. n : Stale(p, e, t[e])
  BY <1>1, StaleTasks
<1>4. d \in [1 .. n -> RestartRecord(k)] /\ \A e \in 1 .. n : StaleRestart(p, e, d[e])
  BY StaleRestarts
<1>5. /\ phone' = [phone EXCEPT ![p] = s]
      /\ task' = [task EXCEPT ![p] = u]
      /\ redo' = [redo EXCEPT ![p] = d]
      /\ on' = [on EXCEPT ![p] = @ \ {phone[p].media}]
  BY DEF Calling!Begin, Calling!EndThen
<1> HIDE DEF r, t, d
<1>6. /\ s \in PhoneRecord(n) /\ s.current = c /\ s.setup /\ s.ringing = 0 /\ s.media = 0
      /\ s.pc = "none" /\ s.timer = "none" /\ s.lost = {} /\ ~s.attempted
  BY <1>2 DEF PhoneRecord, Idle
<1>7. a \in TaskRecord /\ a.st = "media" /\ a.fresh
  BY DEF TaskRecord
<1> HIDE DEF s, a
<1>8. u \in [1 .. n -> TaskRecord] /\ \A e \in 1 .. n : u[e] = IF e = c THEN a ELSE t[e]
  BY <1>3, <1>7
<1> HIDE DEF u
<1>9. /\ phone' \in [Page -> PhoneRecord(n)] /\ phone'[p] = s
      /\ task' \in [Page -> [1 .. n -> TaskRecord]] /\ task'[p] = u
      /\ redo' \in [Page -> [1 .. n -> RestartRecord(k)]] /\ redo'[p] = d
      /\ on' \in [Page -> SUBSET (1 .. n)] /\ on'[p] = on[p] \ {phone[p].media}
      /\ Alone(p)
  <2>1. phone' \in [Page -> PhoneRecord(n)] /\ phone'[p] = s
    BY <1>1, <1>5, <1>6
  <2>2. task' \in [Page -> [1 .. n -> TaskRecord]] /\ task'[p] = u
    BY <1>1, <1>5, <1>8
  <2>3. redo' \in [Page -> [1 .. n -> RestartRecord(k)]] /\ redo'[p] = d
    BY <1>1, <1>4, <1>5
  <2>4. on' \in [Page -> SUBSET (1 .. n)] /\ on'[p] = on[p] \ {phone[p].media}
    BY <1>1, <1>5
  <2>5. Alone(p)
    BY <1>1, <1>5 DEF Alone
  <2> QED BY <2>1, <2>2, <2>3, <2>4, <2>5
<1>10. CallTyped(n, k)'
  BY <1>9 DEF CallInv, CallTyped
<1>11. Linked(p)'
  BY <1>1, <1>6, <1>9 DEF Linked
<1>12. ASSUME NEW e \in 1 .. n
       PROVE  InStep(p, e)'
  <2>1. Stale(p, e, t[e]) /\ StaleRestart(p, e, d[e]) /\ InStep(p, e)
    BY <1>3, <1>4 DEF CallInv
  <2>2. CASE e = c
    BY <1>6, <1>7, <1>8, <1>9, <2>1, <2>2 DEF InStep, StaleRestart
  <2>3. CASE e # c
    BY <1>6, <1>8, <1>9, <2>1, <2>3 DEF InStep, Stale, StaleRestart
  <2> QED BY <2>2, <2>3
<1>13. ASSUME NEW e \in 1 .. n \ {c}
       PROVE  /\ Preparing(p, e)' => Preparing(p, e)
              /\ task[p][e].st = "none" => task'[p][e].st = "none"
              /\ redo'[p][e].times = redo[p][e].times
              /\ redo[p][e].st = "none" => redo'[p][e].st = "none"
  BY <1>3, <1>4, <1>8, <1>9 DEF Preparing, Stale, StaleRestart
<1>14. task'[p][c].st = "media" /\ redo'[p][c].times = 0
  BY <1>4, <1>7, <1>8, <1>9 DEF StaleRestart
<1> QED BY <1>6, <1>9, <1>10, <1>11, <1>12, <1>13, <1>14


LEMMA BeginningSteps ==
  ASSUME NEW CONSTANT n \in Nat, NEW CONSTANT k \in Nat, CallInv(n, k), NEW p \in Page,
         \/ Calling(n, k)!StartLiveLink(p)
         \/ Calling(n, k)!AnswerIncomingCall(p)
  PROVE  CallInv(n, k)'
<1> DEFINE q == Peer(p)
<1>0. q \in Page /\ q # p /\ Page = {p, q} /\ Peer(q) = p
  BY Peers
<1>1. /\ mail \subseteq CallMessage(n)
      /\ phone[p] \in PhoneRecord(n)
      /\ caller \in Seq(Page) /\ Len(caller) \in 0 .. n
  BY DEF CallInv, CallTyped
<1>2. ASSUME Calling(n, k)!StartLiveLink(p) PROVE CallInv(n, k)'
  <2>0. PICK c \in 1 .. n : c = Len(caller) + 1
    BY <1>1, <1>2 DEF Calling!StartLiveLink
  <2>1. /\ caller' = Append(caller, p) /\ mail' = mail /\ trouble' = trouble
        /\ Calling(n, k)!Begin(p, c)
    BY <1>2, <2>0 DEF Calling!StartLiveLink
  <2>2. /\ caller' \in Seq(Page) /\ Len(caller') = c
        /\ \A e \in 1 .. Len(caller) : caller'[e] = caller[e]
        /\ caller'[c] = p
    BY <1>1, <2>0, <2>1
  <2>3. NotYet(c)
    BY <1>1, <2>0 DEF CallInv, Staged
  <2>4. phone[p].current # c /\ redo[p][c].times = 0
    BY <2>3 DEF NotYet, Untouched
  <2>5. Len(caller') <= n
    BY <2>1, <2>2
  <2>6. /\ CallTyped(n, k)' /\ Alone(p) /\ Linked(p)'
        /\ \A e \in 1 .. n : InStep(p, e)'
        /\ phone'[p].current = c /\ phone'[p].ringing = 0 /\ phone'[p].pc = "none"
        /\ task'[p][c].st = "media" /\ redo'[p][c].times = 0
        /\ \A e \in 1 .. n \ {c} : /\ Preparing(p, e)' => Preparing(p, e)
                                   /\ task[p][e].st = "none" => task'[p][e].st = "none"
                                   /\ redo'[p][e].times = redo[p][e].times
                                   /\ redo[p][e].st = "none" => redo'[p][e].st = "none"
    BY <2>1, <2>2, <2>4, <2>5, CallBegins
  <2>7. phone'[q] = phone[q] /\ task'[q] = task[q] /\ redo'[q] = redo[q]
    BY <1>0, <1>1, <2>6 DEF Alone
  <2>8. Stages(c)'
    <3>1. ~Offered(c)' /\ ~Answered(c)'
      BY <2>1, <2>3 DEF NotYet, Offered, Answered
    <3>2. Untouched(q, c)' /\ phone'[q].ringing # c /\ ~Preparing(q, c)'
      BY <1>0, <1>1, <2>3, <2>7 DEF NotYet, Untouched, Preparing
    <3> QED
      BY <1>0, <1>1, <2>1, <2>2, <2>3, <2>6, <3>1, <3>2 DEF Stages, Unsettled, NotYet
  <2>9. ASSUME NEW e \in 1 .. n
        PROVE  Staged(e)'
    <3>1. CASE e = c
      BY <2>2, <2>8, <3>1 DEF Staged
    <3>2. CASE e # c
      <4>1. Quiet(e)
        <5>1. /\ e <= Len(caller) <=> e <= Len(caller')
              /\ e <= Len(caller) => caller'[e] = caller[e]
          BY <1>1, <2>0, <2>2, <3>2
        <5> QED
          BY <1>0, <1>1, <2>1, <2>6, <2>7, <3>2, <5>1 DEF Quiet, Preparing
      <4> QED BY <4>1, QuietStages
    <3> QED BY <3>1, <3>2
  <2> QED BY <2>6, <2>9, CallPieces
<1>3. ASSUME Calling(n, k)!AnswerIncomingCall(p) PROVE CallInv(n, k)'
  <2>0. PICK c \in 1 .. n : c = phone[p].ringing
    BY <1>1, <1>3 DEF Calling!AnswerIncomingCall, PhoneRecord
  <2>1. /\ caller' = caller /\ mail' = mail /\ trouble' = trouble
        /\ Calling(n, k)!Begin(p, c)
    BY <1>3, <2>0 DEF Calling!AnswerIncomingCall
  <2>2. c <= Len(caller)
    <3>1. CASE ~(c <= Len(caller))
      <4>1. NotYet(c)
        BY <3>1 DEF CallInv, Staged
      <4> QED BY <2>0, <4>1 DEF NotYet
    <3> QED BY <3>1
  <2>3. Stages(c)
    BY <2>2 DEF CallInv, Staged
  <2>4. caller[c] = q
    <3>1. caller[c] \in Page
      BY <1>1, <2>2
    <3> QED BY <1>0, <2>3, <2>0, <3>1 DEF Stages
  <2>5. ~Answered(c) /\ Untouched(p, c)
    BY <1>0, <2>3, <2>4, <2>0 DEF Stages
  <2>7. phone[p].current # c /\ redo[p][c].times = 0
    BY <2>5 DEF Untouched
  <2>8. caller' \in Seq(Page) /\ Len(caller') <= n
    BY <1>0, <1>1, <2>1
  <2>9. /\ CallTyped(n, k)' /\ Alone(p) /\ Linked(p)'
        /\ \A e \in 1 .. n : InStep(p, e)'
        /\ phone'[p].current = c /\ phone'[p].ringing = 0 /\ phone'[p].pc = "none"
        /\ task'[p][c].st = "media" /\ redo'[p][c].times = 0
        /\ \A e \in 1 .. n \ {c} : /\ Preparing(p, e)' => Preparing(p, e)
                                   /\ task[p][e].st = "none" => task'[p][e].st = "none"
                                   /\ redo'[p][e].times = redo[p][e].times
                                   /\ redo[p][e].st = "none" => redo'[p][e].st = "none"
    BY <2>1, <2>7, <2>8, CallBegins
  <2>10. phone'[q] = phone[q] /\ task'[q] = task[q] /\ redo'[q] = redo[q]
    BY <1>0, <1>1, <2>9 DEF Alone
  <2>11. Stages(c)'
    <3>1. ~Offered(c)' /\ ~Answered(c)' /\ ~Preparing(q, c)' /\ phone'[q].ringing # c
      BY <1>0, <1>1, <2>1, <2>3, <2>4, <2>5, <2>0, <2>10
      DEF Stages, Offered, Answered, Preparing
    <3>2. phone'[q].current = c => phone'[q].pc \in {"none", "new"}
      BY <1>0, <1>1, <2>3, <2>4, <2>0, <2>10 DEF Stages, Unsettled
    <3>3. \A m \in mail' : m.call = c => /\ m.type = "OFFER" => m.to = p
                                         /\ m.type = "ANSWER" => m.to = q
      BY <1>0, <1>1, <2>1, <2>3, <2>4 DEF Stages
    <3>4. caller'[c] = q /\ Peer(q) = p /\ phone'[p].ringing # c
      BY <1>0, <1>1, <2>1, <2>4, <2>9
    <3> QED
      BY <3>1, <3>2, <3>3, <3>4 DEF Stages, Unsettled
  <2>12. ASSUME NEW e \in 1 .. n
         PROVE  Staged(e)'
    <3>1. CASE e = c
      BY <2>1, <2>2, <2>11, <3>1 DEF Staged
    <3>2. CASE e # c
      <4>1. Quiet(e)
        BY <1>0, <1>1, <2>1, <2>9, <2>10, <3>2 DEF Quiet, Preparing
      <4> QED BY <4>1, QuietStages
    <3> QED BY <3>1, <3>2
  <2> QED BY <2>9, <2>12, CallPieces
<1> QED BY <1>2, <1>3


LEMMA GotMediaStep ==
  ASSUME NEW CONSTANT n \in Nat, NEW CONSTANT k \in Nat, CallInv(n, k), NEW p \in Page,
         NEW c \in 1 .. n, Calling(n, k)!GotMedia(p, c), task[p][c].fresh
  PROVE  CallInv(n, k)'
<1>1. /\ phone \in [Page -> PhoneRecord(n)] /\ phone[p] \in PhoneRecord(n)
      /\ task \in [Page -> [1 .. n -> TaskRecord]] /\ task[p] \in [1 .. n -> TaskRecord]
      /\ task[p][c] \in TaskRecord
      /\ on \in [Page -> SUBSET (1 .. n)]
      /\ Linked(p) /\ InStep(p, c)
  BY DEF CallInv, CallTyped
<1> DEFINE a == [task[p][c] EXCEPT !.st = "negotiating"]
           u == [task[p] EXCEPT ![c] = a]
           s == [phone[p] EXCEPT !.media = c, !.pc = "new"]
<1>2. /\ task[p][c].st = "media"
      /\ task' = [task EXCEPT ![p] = u]
      /\ phone' = [phone EXCEPT ![p] = s]
      /\ on' = [on EXCEPT ![p] = @ \cup {c}]
      /\ caller' = caller /\ redo' = redo /\ mail' = mail /\ trouble' = trouble
  BY DEF Calling!GotMedia
<1>3. a \in TaskRecord /\ a.st = "negotiating" /\ a.fresh
  BY <1>1 DEF TaskRecord
<1>4. /\ s \in PhoneRecord(n) /\ s.current = phone[p].current /\ s.ringing = phone[p].ringing
      /\ s.media = c /\ s.pc = "new" /\ s.setup = phone[p].setup /\ s.timer = phone[p].timer
      /\ s.lost = phone[p].lost /\ s.attempted = phone[p].attempted
  BY <1>1 DEF PhoneRecord
<1>5. /\ phone[p].current = c /\ phone[p].media = 0 /\ phone[p].pc = "none"
      /\ phone[p].setup /\ phone[p].timer = "none" /\ phone[p].lost = {}
      /\ ~phone[p].attempted /\ on[p] = {} /\ phone[p].ringing = 0
  BY <1>1, <1>2 DEF Linked, InStep
<1> HIDE DEF a, s
<1>6. /\ u \in [1 .. n -> TaskRecord]
      /\ \A e \in 1 .. n : u[e] = IF e = c THEN a ELSE task[p][e]
  BY <1>1, <1>3
<1> HIDE DEF u
<1>7. /\ phone' \in [Page -> PhoneRecord(n)] /\ phone'[p] = s
      /\ task' \in [Page -> [1 .. n -> TaskRecord]] /\ task'[p] = u
      /\ on' \in [Page -> SUBSET (1 .. n)] /\ on'[p] = {c}
      /\ \A q \in Page \ {p} : phone'[q] = phone[q] /\ task'[q] = task[q] /\ on'[q] = on[q]
  <2>1. /\ phone' \in [Page -> PhoneRecord(n)] /\ phone'[p] = s
        /\ \A q \in Page \ {p} : phone'[q] = phone[q]
    BY <1>1, <1>2, <1>4
  <2>2. /\ task' \in [Page -> [1 .. n -> TaskRecord]] /\ task'[p] = u
        /\ \A q \in Page \ {p} : task'[q] = task[q]
    BY <1>1, <1>2, <1>6
  <2>3. /\ on' \in [Page -> SUBSET (1 .. n)] /\ on'[p] = {c}
        /\ \A q \in Page \ {p} : on'[q] = on[q]
    BY <1>1, <1>2, <1>5
  <2> QED BY <2>1, <2>2, <2>3
<1>8. CallTyped(n, k)' /\ Alone(p)
  BY <1>2, <1>7 DEF CallInv, CallTyped, Alone
<1>9. Linked(p)'
  <2>1. on'[p] = {s.media} \ {0}
    BY <1>4, <1>7
  <2> QED BY <1>4, <1>5, <1>7, <2>1 DEF Linked
<1>10. ASSUME NEW e \in 1 .. n
       PROVE  InStep(p, e)'
  <2>1. InStep(p, e)
    BY DEF CallInv
  <2>2. CASE e = c
    BY <1>1, <1>2, <1>3, <1>4, <1>5, <1>6, <1>7, <2>2 DEF InStep
  <2>3. CASE e # c
    BY <1>2, <1>4, <1>5, <1>6, <1>7, <2>1, <2>3 DEF InStep
  <2> QED BY <2>2, <2>3
<1>11. ASSUME NEW e \in 1 .. n
       PROVE  Staged(e)'
  <2>1. /\ Preparing(p, e)' => Preparing(p, e)
        /\ task[p][e].st = "none" => task'[p][e].st = "none"
    BY <1>2, <1>3, <1>6, <1>7 DEF Preparing
  <2>2. Quiet(e)
    BY <1>2, <1>4, <1>5, <1>7, <2>1 DEF Quiet, Preparing
  <2> QED BY <2>2, QuietStages
<1> QED BY <1>8, <1>9, <1>10, <1>11, CallPieces

\* The offer or the answer of the call c is sent.
LEMMA NegotiatedStep ==
  ASSUME NEW CONSTANT n \in Nat, NEW CONSTANT k \in Nat, CallInv(n, k), NEW p \in Page,
         NEW c \in 1 .. n, Calling(n, k)!Negotiated(p, c)
  PROVE  CallInv(n, k)'
<1> DEFINE q == Peer(p)
<1>1. q \in Page /\ q # p /\ Page = {p, q} /\ Peer(q) = p
  BY Peers
<1>2. Calling(n, k)!Other(p) = q
  BY Peers
<1>3. /\ phone \in [Page -> PhoneRecord(n)] /\ phone[p] \in PhoneRecord(n)
      /\ task \in [Page -> [1 .. n -> TaskRecord]] /\ task[p] \in [1 .. n -> TaskRecord]
      /\ task[p][c] \in TaskRecord
      /\ caller \in Seq(Page)
      /\ mail \subseteq CallMessage(n)
      /\ Linked(p) /\ InStep(p, c)
  BY DEF CallInv, CallTyped
<1> DEFINE calling == caller[c] = p
           type == IF calling THEN "OFFER" ELSE "ANSWER"
           new == [type |-> type, to |-> q, call |-> c]
           a == [task[p][c] EXCEPT !.st = "writing"]
           u == [task[p] EXCEPT ![c] = a]
           s == [phone[p] EXCEPT !.pc = IF calling THEN phone[p].pc ELSE "ready"]
<1>4. /\ task[p][c].st = "negotiating"
      /\ task' = [task EXCEPT ![p] = u]
      /\ phone' = [phone EXCEPT ![p] = s]
      /\ mail' = mail \cup {new}
      /\ caller' = caller /\ redo' = redo /\ on' = on /\ trouble' = trouble
  BY <1>2 DEF Calling!Negotiated, Calling!Sent, Calling!Message
<1>5. a \in TaskRecord /\ a.st = "writing" /\ a.fresh = task[p][c].fresh
  BY <1>3 DEF TaskRecord
<1>6. /\ s \in PhoneRecord(n) /\ s.current = phone[p].current /\ s.ringing = phone[p].ringing
      /\ s.media = phone[p].media /\ s.setup = phone[p].setup /\ s.timer = phone[p].timer
      /\ s.lost = phone[p].lost /\ s.attempted = phone[p].attempted
      /\ s.pc = IF calling THEN phone[p].pc ELSE "ready"
  BY <1>3 DEF PhoneRecord
<1>7. phone[p].current = c /\ phone[p].pc = "new" /\ phone[p].setup /\ task[p][c].fresh
  BY <1>3, <1>4 DEF Linked, InStep
<1>8. new \in CallMessage(n) /\ new.call = c /\ new.type = type /\ new.to = q
  BY <1>1 DEF CallMessage
<1> HIDE DEF a, s, new
<1>9. /\ u \in [1 .. n -> TaskRecord]
      /\ \A e \in 1 .. n : u[e] = IF e = c THEN a ELSE task[p][e]
  BY <1>3, <1>5
<1> HIDE DEF u
<1>10. /\ phone' \in [Page -> PhoneRecord(n)] /\ phone'[p] = s
       /\ task' \in [Page -> [1 .. n -> TaskRecord]] /\ task'[p] = u
       /\ phone'[q] = phone[q] /\ task'[q] = task[q] /\ redo' = redo
  <2>1. phone' \in [Page -> PhoneRecord(n)] /\ phone'[p] = s /\ phone'[q] = phone[q]
    BY <1>1, <1>3, <1>4, <1>6
  <2>2. task' \in [Page -> [1 .. n -> TaskRecord]] /\ task'[p] = u /\ task'[q] = task[q]
    BY <1>1, <1>3, <1>4, <1>9
  <2> QED BY <1>4, <2>1, <2>2
<1>11. CallTyped(n, k)' /\ Alone(p)
  BY <1>1, <1>4, <1>8, <1>10 DEF CallInv, CallTyped, Alone
<1>12. Linked(p)'
  BY <1>3, <1>4, <1>6, <1>7, <1>10 DEF Linked
<1>13. ASSUME NEW e \in 1 .. n
       PROVE  InStep(p, e)'
  <2>1. InStep(p, e)
    BY DEF CallInv
  <2>2. CASE e = c
    BY <1>4, <1>5, <1>6, <1>7, <1>9, <1>10, <2>1, <2>2 DEF InStep
  <2>3. CASE e # c
    BY <1>4, <1>6, <1>7, <1>9, <1>10, <2>1, <2>3 DEF InStep
  <2> QED BY <2>2, <2>3
<1>14. c <= Len(caller)
  <2>1. CASE ~(c <= Len(caller))
    <3>1. NotYet(c)
      BY <2>1 DEF CallInv, Staged
    <3> QED BY <1>4, <3>1 DEF NotYet, Untouched
  <2> QED BY <2>1
<1>15. Stages(c)
  BY <1>14 DEF CallInv, Staged
<1>16. caller[c] \in {p, q} /\ caller'[c] = caller[c]
  <2>1. caller[c] \in Page
    BY <1>3, <1>14
  <2> QED BY <1>1, <1>4, <2>1
<1>17. Preparing(p, c) /\ ~Preparing(p, c)'
  BY <1>4, <1>5, <1>9, <1>10 DEF Preparing
<1>18. Preparing(q, c)' = Preparing(q, c)
  BY <1>10 DEF Preparing
<1>19. Stages(c)'
  <2>1. CASE caller[c] = p
    <3>1. ~Offered(c) /\ ~Answered(c) /\ phone[q].ringing # c /\ Untouched(q, c)
      BY <1>15, <1>17, <2>1 DEF Stages
    <3>2. type = "OFFER"
      BY <2>1
    <3>3. ~Answered(c)'
      BY <1>4, <1>8, <3>1, <3>2 DEF Answered
    <3>4. Untouched(q, c)' /\ phone'[q].ringing # c /\ ~Preparing(q, c)'
      BY <1>10, <3>1 DEF Untouched, Preparing
    <3>5. \A m \in mail' : m.call = c => /\ m.type = "OFFER" => m.to = q
                                         /\ m.type = "ANSWER" => m.to = p
      BY <1>4, <1>8, <1>15, <2>1, <3>2 DEF Stages
    <3>6. phone'[p].ringing # c /\ phone'[p].pc = "new"
      BY <1>6, <1>7, <1>10, <1>15, <2>1 DEF Stages
    <3> QED
      BY <1>16, <1>17, <2>1, <3>3, <3>4, <3>5, <3>6 DEF Stages, Unsettled
  <2>2. CASE caller[c] = q
    <3>1. ~Answered(c) /\ ~Offered(c) /\ phone[p].ringing # c /\ ~Preparing(q, c)
      BY <1>1, <1>4, <1>15, <1>17, <2>2 DEF Stages, Untouched
    <3>2. type = "ANSWER"
      BY <1>1, <2>2
    <3>3. ~Offered(c)'
      BY <1>4, <1>8, <3>1, <3>2 DEF Offered
    <3>4. phone'[p].ringing # c /\ phone'[q].ringing # c
      BY <1>1, <1>6, <1>10, <1>15, <2>2, <3>1 DEF Stages
    <3>5. \A m \in mail' : m.call = c => /\ m.type = "OFFER" => m.to = p
                                         /\ m.type = "ANSWER" => m.to = q
      BY <1>1, <1>4, <1>8, <1>15, <2>2, <3>2 DEF Stages
    <3>6. phone'[q].current = c => phone'[q].pc \in {"none", "new"}
      BY <1>1, <1>10, <1>15, <1>17, <2>2 DEF Stages, Unsettled
    <3> QED
      BY <1>1, <1>16, <1>17, <1>18, <2>2, <3>1, <3>3, <3>4, <3>5, <3>6 DEF Stages, Unsettled
  <2> QED BY <1>16, <2>1, <2>2
<1>20. ASSUME NEW e \in 1 .. n
       PROVE  Staged(e)'
  <2>1. CASE e = c
    BY <1>4, <1>14, <1>19, <2>1 DEF Staged
  <2>2. CASE e # c
    <3>1. /\ Preparing(p, e)' => Preparing(p, e)
          /\ task[p][e].st = "none" => task'[p][e].st = "none"
      BY <1>9, <1>10, <2>2 DEF Preparing
    <3>2. Quiet(e)
      BY <1>1, <1>4, <1>6, <1>7, <1>8, <1>10, <2>2, <3>1 DEF Quiet, Preparing
    <3> QED BY <3>2, QuietStages
  <2> QED BY <2>1, <2>2
<1> QED BY <1>11, <1>12, <1>13, <1>20, CallPieces


LEMMA ShowIncomingCallStep ==
  ASSUME NEW CONSTANT n \in Nat, NEW CONSTANT k \in Nat, CallInv(n, k),
         NEW m \in mail, Calling(n, k)!ShowIncomingCall(m)
  PROVE  CallInv(n, k)'
<1>1. PICK p \in Page, c \in 1 .. n :
        m = [type |-> "OFFER", to |-> p, call |-> c] /\ m.to = p /\ m.call = c
  BY DEF CallInv, CallTyped, CallMessage, Calling!ShowIncomingCall
<1> DEFINE busy == phone[p].pc # "none" \/ phone[p].ringing # 0 \/ phone[p].current # 0
           q == Peer(p)
           s == [phone[p] EXCEPT !.ringing = IF busy THEN phone[p].ringing ELSE c]
<1>2. q \in Page /\ q # p /\ Page = {p, q} /\ Peer(q) = p
  BY Peers
<1>3. /\ phone \in [Page -> PhoneRecord(n)] /\ phone[p] \in PhoneRecord(n)
      /\ caller \in Seq(Page) /\ mail \subseteq CallMessage(n) /\ Linked(p)
      /\ trouble \in 0 .. k
  BY DEF CallInv, CallTyped
<1>4. /\ mail' \subseteq (mail \ {m}) \cup {[type |-> "DECLINE", to |-> q, call |-> c]}
      /\ ~busy => mail' = mail \ {m}
      /\ phone' = [phone EXCEPT ![p] = s]
      /\ caller' = caller /\ task' = task /\ redo' = redo /\ on' = on /\ trouble' = trouble
  <2>1. Calling(n, k)!Other(p) = q
    BY Peers
  <2> QED
    BY <1>1, <2>1 DEF Calling!ShowIncomingCall, Calling!Sent, Calling!Message
<1>5. c <= Len(caller)
  <2>1. CASE ~(c <= Len(caller))
    <3>1. NotYet(c)
      BY <2>1 DEF CallInv, Staged
    <3> QED BY <1>1, <3>1 DEF NotYet
  <2> QED BY <2>1
<1>6. Whispered(n)
  BY <1>2, <1>3, <1>4, <1>5 DEF Whispered, CallMessage
<1>7. /\ s \in PhoneRecord(n) /\ s.current = phone[p].current /\ s.media = phone[p].media
      /\ s.setup = phone[p].setup /\ s.timer = phone[p].timer /\ s.lost = phone[p].lost
      /\ s.attempted = phone[p].attempted /\ s.pc = phone[p].pc
      /\ s.ringing = IF busy THEN phone[p].ringing ELSE c
  BY <1>3 DEF PhoneRecord
<1> HIDE DEF s
<1>8. CASE busy
  <2>1. s.timer # "none" \/ s.lost # {} => s.pc \notin {"none", "new"}
    BY <1>3, <1>7 DEF Linked
  <2> QED BY <1>3, <1>4, <1>6, <1>7, <1>8, <2>1, PhoneOnly
<1>9. CASE ~busy
  <2>1. /\ phone' \in [Page -> PhoneRecord(n)] /\ phone'[p] = s /\ phone'[q] = phone[q]
        /\ s.ringing = c /\ s.current = 0 /\ s.pc = "none"
    BY <1>2, <1>3, <1>4, <1>7, <1>9
  <2>2. CallTyped(n, k)' /\ Alone(p)
    BY <1>2, <1>4, <1>6, <2>1 DEF CallInv, CallTyped, Alone, Whispered
  <2>3. Linked(p)'
    BY <1>3, <1>4, <1>7, <2>1 DEF Linked
  <2>4. ASSUME NEW e \in 1 .. n
        PROVE  InStep(p, e)'
    <3>1. InStep(p, e)
      BY DEF CallInv
    <3> QED BY <1>4, <1>7, <2>1, <3>1 DEF InStep
  <2>5. Stages(c)
    BY <1>5 DEF CallInv, Staged
  <2>6. Offered(c)
    BY <1>1 DEF Offered
  <2>7. caller[c] = q
    <3>1. caller[c] \in Page
      BY <1>3, <1>5
    <3>2. p = Peer(caller[c])
      BY <1>1, <2>5 DEF Stages
    <3> QED BY <1>2, <3>1, <3>2
  <2>8. ~Answered(c) /\ Untouched(p, c) /\ ~Preparing(q, c)
    BY <1>2, <2>5, <2>6, <2>7 DEF Stages
  <2>9. ~Offered(c)'
    <3>1. ASSUME NEW w \in mail, w.type = "OFFER", w.call = c
          PROVE  w = m
      <4>1. w.to = p
        BY <1>2, <2>5, <2>7, <3>1 DEF Stages
      <4>2. w \in CallMessage(n)
        BY <1>3
      <4> QED BY <1>1, <3>1, <4>1, <4>2 DEF CallMessage
    <3> QED BY <1>4, <1>9, <3>1 DEF Offered
  <2>10. Stages(c)'
    <3>1. ~Answered(c)'
      BY <1>4, <1>9, <2>8 DEF Answered
    <3>2. Untouched(p, c)'
      BY <1>4, <2>1, <2>8 DEF Untouched
    <3>3. ~Preparing(q, c)' /\ ~Preparing(p, c)'
      BY <1>4, <2>8 DEF Preparing, Untouched
    <3>4. \A w \in mail' : w.call = c => /\ w.type = "OFFER" => w.to = p
                                         /\ w.type = "ANSWER" => w.to = q
      BY <1>2, <1>4, <1>9, <2>5, <2>7 DEF Stages
    <3>5. phone'[q].ringing # c
      BY <2>1, <2>5, <2>7 DEF Stages
    <3>6. phone'[q].current = c => phone'[q].pc \in {"none", "new"}
      BY <2>1, <2>5, <2>6, <2>7 DEF Stages, Unsettled
    <3>7. caller'[c] = q
      BY <1>4, <2>7
    <3> QED
      BY <1>2, <2>9, <3>1, <3>2, <3>3, <3>4, <3>5, <3>6, <3>7 DEF Stages, Unsettled
  <2>11. ASSUME NEW e \in 1 .. n
         PROVE  Staged(e)'
    <3>1. CASE e = c
      BY <1>4, <1>5, <2>10, <3>1 DEF Staged
    <3>2. CASE e # c
      <4>1. Quiet(e)
        BY <1>2, <1>4, <1>9, <2>1, <3>2 DEF Quiet, Preparing
      <4> QED BY <4>1, QuietStages
    <3> QED BY <3>1, <3>2
  <2> QED BY <2>2, <2>3, <2>4, <2>11, CallPieces
<1> QED BY <1>8, <1>9

LEMMA AcceptStep ==
  ASSUME NEW CONSTANT n \in Nat, NEW CONSTANT k \in Nat, CallInv(n, k),
         NEW m \in mail, Calling(n, k)!Accept(m)
  PROVE  CallInv(n, k)'
<1>1. PICK p \in Page, c \in 1 .. n : m.to = p /\ m.call = c /\ m \in CallMessage(n)
  BY DEF CallInv, CallTyped, CallMessage
<1> DEFINE q == Peer(p)
<1>2. q \in Page /\ q # p /\ Page = {p, q} /\ Peer(q) = p
  BY Peers
<1>3. /\ phone \in [Page -> PhoneRecord(n)] /\ phone[p] \in PhoneRecord(n)
      /\ caller \in Seq(Page) /\ mail \subseteq CallMessage(n) /\ Linked(p)
      /\ trouble \in 0 .. k
  BY DEF CallInv, CallTyped
<1>4. /\ m.type \in {"ANSWER", "RESTART"}
      /\ phone[p].pc # "none" /\ phone[p].current = c
      /\ mail' = mail \ {m}
      /\ caller' = caller /\ task' = task /\ redo' = redo /\ on' = on /\ trouble' = trouble
  BY <1>1 DEF Calling!Accept, Calling!Take
<1>5. Whispered(n)
  BY <1>3, <1>4 DEF Whispered
<1>6. CASE m.type = "RESTART"
  <2> DEFINE s == [phone[p] EXCEPT !.timer = "none"]
  <2>1. phone' = [phone EXCEPT ![p] = s]
    BY <1>1, <1>6 DEF Calling!Accept
  <2>2. /\ s \in PhoneRecord(n) /\ s.current = phone[p].current /\ s.media = phone[p].media
        /\ s.setup = phone[p].setup /\ s.timer = "none" /\ s.lost = phone[p].lost
        /\ s.attempted = phone[p].attempted /\ s.pc = phone[p].pc
        /\ s.ringing = phone[p].ringing
    BY <1>3 DEF PhoneRecord
  <2>3. s.timer # "none" \/ s.lost # {} => s.pc \notin {"none", "new"}
    BY <1>3, <2>2 DEF Linked
  <2> HIDE DEF s
  <2> QED BY <1>3, <1>4, <1>5, <2>1, <2>2, <2>3, PhoneOnly
<1>7. CASE m.type = "ANSWER"
  <2> DEFINE s == [phone[p] EXCEPT !.pc = "ready"]
  <2>1. phone' = [phone EXCEPT ![p] = s]
    BY <1>1, <1>7 DEF Calling!Accept
  <2>2. /\ s \in PhoneRecord(n) /\ s.current = phone[p].current /\ s.media = phone[p].media
        /\ s.setup = phone[p].setup /\ s.timer = phone[p].timer /\ s.lost = phone[p].lost
        /\ s.attempted = phone[p].attempted /\ s.pc = "ready"
        /\ s.ringing = phone[p].ringing
    BY <1>3 DEF PhoneRecord
  <2> HIDE DEF s
  <2>3. c <= Len(caller)
    <3>1. CASE ~(c <= Len(caller))
      <4>1. NotYet(c)
        BY <3>1 DEF CallInv, Staged
      <4> QED BY <1>1, <4>1 DEF NotYet
    <3> QED BY <3>1
  <2>4. Stages(c) /\ Answered(c)
    BY <1>1, <1>7, <2>3 DEF CallInv, Staged, Answered
  <2>5. caller[c] = p
    BY <1>1, <1>7, <2>4 DEF Stages
  <2>6. /\ phone[p].pc = "new" /\ ~Preparing(p, c) /\ ~Offered(c)
        /\ phone[q].ringing # c /\ ~Preparing(q, c) /\ phone[p].ringing # c
    BY <1>4, <2>4, <2>5 DEF Stages, Unsettled
  <2>7. /\ phone' \in [Page -> PhoneRecord(n)] /\ phone'[p] = s /\ phone'[q] = phone[q]
    BY <1>2, <1>3, <2>1, <2>2
  <2>8. CallTyped(n, k)' /\ Alone(p)
    BY <1>2, <1>4, <1>5, <2>7 DEF CallInv, CallTyped, Alone, Whispered
  <2>9. Linked(p)'
    BY <1>3, <1>4, <2>2, <2>6, <2>7 DEF Linked
  <2>10. ASSUME NEW e \in 1 .. n
         PROVE  InStep(p, e)'
    <3>1. InStep(p, e)
      BY DEF CallInv
    <3>2. task[p][e].st # "negotiating"
      BY <1>4, <2>6, <3>1 DEF InStep, Preparing
    <3> QED
      BY <1>4, <2>2, <2>6, <2>7, <3>1, <3>2 DEF InStep
  <2>11. ~Answered(c)'
    <3>1. ASSUME NEW w \in mail, w.type = "ANSWER", w.call = c
          PROVE  w = m
      <4>1. w.to = p
        BY <2>4, <2>5, <3>1 DEF Stages
      <4>2. w \in CallMessage(n)
        BY <1>3
      <4> QED BY <1>1, <1>7, <3>1, <4>1, <4>2 DEF CallMessage
    <3> QED BY <1>4, <3>1 DEF Answered
  <2>12. Stages(c)'
    <3>1. ~Offered(c)'
      BY <1>4, <2>6 DEF Offered
    <3>2. ~Preparing(q, c)' /\ ~Preparing(p, c)'
      BY <1>4, <2>6 DEF Preparing
    <3>3. \A w \in mail' : w.call = c => /\ w.type = "OFFER" => w.to = q
                                         /\ w.type = "ANSWER" => w.to = p
      BY <1>4, <2>4, <2>5 DEF Stages
    <3>4. caller'[c] = p /\ phone'[p].ringing # c /\ phone'[q].ringing # c
      BY <1>4, <2>2, <2>5, <2>6, <2>7
    <3> QED
      BY <2>11, <3>1, <3>2, <3>3, <3>4 DEF Stages, Unsettled
  <2>13. ASSUME NEW e \in 1 .. n
         PROVE  Staged(e)'
    <3>1. CASE e = c
      BY <1>4, <2>3, <2>12, <3>1 DEF Staged
    <3>2. CASE e # c
      <4>1. Quiet(e)
        BY <1>2, <1>4, <2>2, <2>6, <2>7, <3>2 DEF Quiet, Preparing
      <4> QED BY <4>1, QuietStages
    <3> QED BY <3>1, <3>2
  <2> QED BY <2>8, <2>9, <2>10, <2>13, CallPieces
<1> QED BY <1>4, <1>6, <1>7

\* Every step of a call keeps the invariant.
LEMMA CallStep ==
  ASSUME NEW CONSTANT n \in Nat, NEW CONSTANT k \in Nat \ {0}, CallInv(n, k),
         Calling(n, k)!Next
  PROVE  CallInv(n, k)'
<1>1. ASSUME NEW p \in Page,
             \/ Calling(n, k)!StartLiveLink(p)
             \/ Calling(n, k)!AnswerIncomingCall(p)
             \/ Calling(n, k)!DeclineIncomingCall(p)
             \/ Calling(n, k)!Hangup(p)
             \/ Calling(n, k)!Connected(p)
             \/ Calling(n, k)!Disconnected(p)
             \/ Calling(n, k)!Failed(p)
             \/ Calling(n, k)!SessionEnds(p)
             \/ \E name \in {"retry", "giveUp"} : Calling(n, k)!TimerFires(p, name)
      PROVE  CallInv(n, k)'
  BY <1>1, BeginningSteps, EndingSteps, PhoneSteps
<1>2. ASSUME NEW p \in Page, NEW c \in 1 .. n,
             \/ Calling(n, k)!GotMedia(p, c)
             \/ Calling(n, k)!Negotiated(p, c)
             \/ Calling(n, k)!Written(p, c)
             \/ Calling(n, k)!TaskFails(p, c)
             \/ Calling(n, k)!Refused(p, c)
             \/ Calling(n, k)!RestartWritten(p, c)
             \/ Calling(n, k)!RestartSent(p, c)
             \/ Calling(n, k)!RestartFails(p, c)
      PROVE  CallInv(n, k)'
  BY <1>2, GotMediaStep, NegotiatedStep, FunctionSteps, TaskFailsStep, EndingSteps
<1>3. ASSUME NEW m \in mail,
             \/ Calling(n, k)!ShowIncomingCall(m)
             \/ Calling(n, k)!Accept(m)
             \/ Calling(n, k)!PeerEnds(m)
      PROVE  CallInv(n, k)'
  <2>1. m.to \in Page
    BY DEF CallInv, CallTyped, CallMessage
  <2> QED
    BY <1>3, <2>1, ShowIncomingCallStep, AcceptStep, EndingSteps
<1> QED
  BY <1>1, <1>2, <1>3 DEF Calling!Next, Calling!Call, Page

LEMMA CallStarts ==
  ASSUME NEW CONSTANT n \in Nat, NEW CONSTANT k \in Nat \ {0}, Calling(n, k)!Init
  PROVE  CallInv(n, k)
<1> DEFINE idle == [session |-> TRUE, current |-> 0, ringing |-> 0, pc |-> "none", media |-> 0,
                    setup |-> FALSE, timer |-> "none", lost |-> {}, attempted |-> FALSE]
           none == [st |-> "none", fresh |-> FALSE]
           never == [st |-> "none", fresh |-> FALSE, times |-> 0]
<1>1. /\ phone = [p \in Page |-> idle]
      /\ caller = <<>>
      /\ task = [p \in Page |-> [c \in 1 .. n |-> none]]
      /\ redo = [p \in Page |-> [c \in 1 .. n |-> never]]
      /\ mail = {}
      /\ on = [p \in Page |-> {}]
      /\ trouble = 0
  BY DEF Calling!Init, Calling!NoCall, Calling!Nothing, Calling!Call, Page
<1>2. idle \in PhoneRecord(n) /\ Idle(idle)
  BY DEF PhoneRecord, Idle
<1>3. none \in TaskRecord /\ none.st = "none" /\ ~none.fresh
  BY DEF TaskRecord
<1>4. never \in RestartRecord(k) /\ never.st = "none" /\ ~never.fresh /\ never.times = 0
  BY DEF RestartRecord
<1> HIDE DEF idle, none, never
<1>5. CallTyped(n, k)
  BY <1>1, <1>2, <1>3, <1>4 DEF CallTyped
<1>6. \A p \in Page : Linked(p) /\ \A c \in 1 .. n : InStep(p, c)
  BY <1>1, <1>2, <1>3, <1>4 DEF Linked, InStep, Idle
<1>7. \A c \in 1 .. n : Staged(c)
  BY <1>1, <1>2, <1>3, <1>4 DEF Staged, NotYet, Untouched, Idle
<1> QED BY <1>5, <1>6, <1>7 DEF CallInv

LEMMA CallStutter ==
  ASSUME NEW CONSTANT n, NEW CONSTANT k, CallInv(n, k), callVars' = callVars
  PROVE  CallInv(n, k)'
<1>1. /\ phone' = phone /\ caller' = caller /\ task' = task /\ redo' = redo
      /\ mail' = mail /\ on' = on /\ trouble' = trouble
  BY DEF callVars
<1>2. CallTyped(n, k)'
  BY <1>1 DEF CallInv, CallTyped
<1>3. \A p \in Page : Linked(p)' /\ \A c \in 1 .. n : InStep(p, c)'
  BY <1>1 DEF CallInv, Linked, InStep
<1>4. ASSUME NEW c \in 1 .. n PROVE Staged(c)'
  <2>1. Quiet(c)
    BY <1>1 DEF Quiet, Preparing
  <2> QED BY <2>1, QuietStages
<1> QED BY <1>2, <1>3, <1>4 DEF CallInv

\* The conjuncts of the properties that are about calls.
LEMMA CallPromises ==
  ASSUME NEW CONSTANT n \in Nat, NEW CONSTANT k \in Nat, CallInv(n, k)
  PROVE  /\ Calling(n, k)!TypeOK
         /\ Calling(n, k)!NothingLeftOn
         /\ Calling(n, k)!OneCall
         /\ Calling(n, k)!UnderTimer
         /\ Calling(n, k)!RestartedOnce
<1>1. Calling(n, k)!TypeOK
  BY DEF CallInv, CallTyped, PhoneRecord, TaskRecord, RestartRecord, CallMessage, Page,
         Calling!TypeOK, Calling!Call
<1>2. Calling(n, k)!NothingLeftOn /\ Calling(n, k)!OneCall /\ Calling(n, k)!UnderTimer
  BY DEF CallInv, Linked, Page, Calling!NothingLeftOn, Calling!OneCall, Calling!UnderTimer
<1>3. Calling(n, k)!RestartedOnce
  BY DEF CallInv, InStep, Page, Calling!RestartedOnce, Calling!Call
<1> QED BY <1>1, <1>2, <1>3

CallsInv == /\ part = "calls" => CallInv(2, 1)
            /\ part = "restarts" => CallInv(1, 2)

LEMMA CallsHold == Spec => []CallsInv
<1>1. Init => CallsInv
  BY CallStarts DEF Init, CallsInv
<1>2. ASSUME CallsInv, [Next]_vars
      PROVE  CallsInv'
  <2>1. CASE Next
    <3>1. CASE part = "calls"
      <4>1. Calling(2, 1)!Next /\ part' = part
        BY <2>1, <3>1 DEF Next
      <4>2. CallInv(2, 1)'
        BY <1>2, <3>1, <4>1, CallStep DEF CallsInv
      <4> QED BY <3>1, <4>1, <4>2 DEF CallsInv
    <3>2. CASE part = "restarts"
      <4>1. Calling(1, 2)!Next /\ part' = part
        BY <2>1, <3>2 DEF Next
      <4>2. CallInv(1, 2)'
        BY <1>2, <3>2, <4>1, CallStep DEF CallsInv
      <4> QED BY <3>2, <4>1, <4>2 DEF CallsInv
    <3>3. CASE part # "calls" /\ part # "restarts"
      BY <2>1, <3>3 DEF Next, CallsInv
    <3> QED BY <3>1, <3>2, <3>3
  <2>2. CASE UNCHANGED vars
    <3>1. part' = part /\ callVars' = callVars
      BY <2>2 DEF vars, deviceVars
    <3> QED BY <1>2, <3>1, CallStutter DEF CallsInv
  <2> QED BY <1>2, <2>1, <2>2
<1> QED BY <1>1, <1>2, PTL DEF Spec


-----------------------------------------------------------------------------
(* Private files: any files, each of one of the pages, and any sessions.   *)

Side == {"a", "b"}
Mate(p) == IF p = "a" THEN "b" ELSE "a"

FileAssumption(F, from, m) == /\ IsFiniteSet(F)
                              /\ "none" \notin F
                              /\ from \in [F -> Side]
                              /\ m \in Nat \ {0}

Sender(m) == [st : {"idle", "queued", "dialing", "offered", "sending", "finishing",
                    "cancelled", "sent", "failed"},
              session : 0 .. m]
Receiver == [st : {"none", "checking", "checked", "deciding", "accepting", "receiving",
                   "closing", "confirming", "ending", "leaving", "done"},
             auto : BOOLEAN, making : BOOLEAN, cancelled : BOOLEAN]
FileFrame == {"OFFER", "BODY", "ACCEPT", "REJECT", "DONE"}
FileLine == [down : Seq(FileFrame), up : Seq(FileFrame)]
OnDisk == {"none", "partial", "saved", "staged", "exported", "removed"}

FileTyped(F, m) ==
  /\ session \in [Side -> 0 .. m]
  /\ joined \in [Side -> 1 .. m]
  /\ queue \in [Side -> Seq(F)]
  /\ active \in [Side -> F \cup {"none"}]
  /\ budget \in [Side -> 0 .. AutoItems]
  /\ snd \in [F -> Sender(m)]
  /\ rcv \in [F -> Receiver]
  /\ line \in [F -> FileLine]
  /\ taken \in [F -> 0 .. m]
  /\ file \in [F -> OnDisk]

Sends(f) == snd[f].st \in {"dialing", "offered", "sending", "finishing", "cancelled"}
Receives(f) == rcv[f].st \in {"checking", "checked", "deciding", "accepting", "receiving",
                              "closing", "confirming", "ending"}
Busy(f) == Receives(f) /\ rcv[f].st # "ending"

\* What the disk holds of a file follows its receiver, and whoever may think that
\* the file is there is right.
Confirms(l) == \E i \in 1 .. Len(l.up) : l.up[i] = "DONE"
KeptAs(s, r, l, d) ==
  LET stored == d \in {"saved", "staged", "exported"} IN
  /\ r.st \in {"none", "checking", "checked", "deciding"} => d = "none"
  /\ r.st \in {"accepting", "receiving", "closing"} => d = "partial"
  /\ r.st = "confirming" => d \in {"saved", "staged"}
  /\ r.st \in {"leaving", "done"} => d # "partial"
  /\ Confirms(l) => r.st \in {"ending", "leaving", "done"} /\ stored
  /\ s.st = "sent" => stored
Kept(f) == KeptAs(snd[f], rcv[f], line[f], file[f])

\* Nothing is paid for a file before its decision, and one that may be decided
\* was sent in a session.
DueAs(s, r, l, t) ==
  /\ r.st \in {"none", "checking", "checked"} => t = 0
  /\ \/ r.st \in {"checking", "checked"}
     \/ r.st = "none" /\ l.down # <<>>
     \/ s.st = "dialing"
     => s.session # 0
Due(f) == DueAs(snd[f], rcv[f], line[f], taken[f])

\* activeFileTransfer names what the page moves.
Occupied(F, from, p) ==
  /\ \A f \in F : \/ from[f] = p /\ Sends(f)
                  \/ from[f] # p /\ Busy(f)
                  => active[p] = f
  /\ active[p] # "none" =>
       IF from[active[p]] = p THEN Sends(active[p]) ELSE Receives(active[p])

\* The queue holds files of the page that wait, each once, and somebody will go
\* on with it.
Queued(F, from, p) ==
  /\ \A i \in 1 .. Len(queue[p]) : from[queue[p][i]] = p /\ snd[queue[p][i]].st = "queued"
  /\ \A i, j \in 1 .. Len(queue[p]) : queue[p][i] = queue[p][j] => i = j
  /\ queue[p] # <<>> =>
       \/ active[p] # "none"
       \/ \E f \in F : from[f] # p /\ rcv[f].st = "leaving"

\* What the budget of the session p is in says, and that of those before it.
Paid(F, from, p, s) == {f \in F : from[f] # p /\ taken[f] = s}
Charged(F, from, m, p) ==
  /\ session[p] \in {0, joined[p]}
  /\ budget[p] = IF session[p] = 0 THEN 0 ELSE Cardinality(Paid(F, from, p, session[p]))
  /\ \A s \in 1 .. m : /\ Cardinality(Paid(F, from, p, s)) <= AutoItems
                       /\ s > joined[p] => Paid(F, from, p, s) = {}

FileInv(F, from, m) ==
  /\ FileTyped(F, m)
  /\ \A f \in F : Kept(f) /\ Due(f)
  /\ \A p \in Side : /\ Occupied(F, from, p)
                     /\ Queued(F, from, p)
                     /\ Charged(F, from, m, p)

\* Whom a file is for.
LEMMA Ways ==
  ASSUME NEW CONSTANT F, NEW CONSTANT from, NEW CONSTANT m, FileAssumption(F, from, m),
         NEW f \in F
  PROVE  /\ Moving(F, from, m)!To(f) = Mate(from[f])
         /\ from[f] \in Side
         /\ Mate(from[f]) \in Side \ {from[f]}
         /\ Side = {from[f], Mate(from[f])}
BY DEF FileAssumption, Moving!To, Moving!Other, Side, Mate

LEMMA SameBudget ==
  ASSUME NEW CONSTANT F, NEW CONSTANT from, NEW CONSTANT m,
         NEW p, Charged(F, from, m, p),
         session' = session, joined' = joined, budget' = budget, taken' = taken
  PROVE  Charged(F, from, m, p)'
<1>1. \A s : Paid(F, from, p, s)' = Paid(F, from, p, s)
  BY DEF Paid
<1> QED BY <1>1 DEF Charged

\* A step about one file f that neither takes nor frees a page.
LEMMA OneFile ==
  ASSUME NEW CONSTANT F, NEW CONSTANT from, NEW CONSTANT m, FileAssumption(F, from, m),
         FileInv(F, from, m), FileTyped(F, m)',
         NEW f \in F, queue' = queue, active' = active,
         \A g \in F \ {f} : /\ snd'[g] = snd[g] /\ rcv'[g] = rcv[g] /\ line'[g] = line[g]
                            /\ file'[g] = file[g] /\ taken'[g] = taken[g],
         Sends(f)' <=> Sends(f),
         Busy(f)' => Busy(f), Receives(f) => Receives(f)',
         rcv[f].st = "leaving" => rcv'[f].st = "leaving",
         snd[f].st = "queued" => snd'[f].st = "queued",
         Kept(f)', Due(f)', \A p \in Side : Charged(F, from, m, p)'
  PROVE  FileInv(F, from, m)'
<1>1. \A g \in F : Kept(g)' /\ Due(g)'
  BY DEF FileInv, Kept, Due
<1>2. \A g \in F : /\ Sends(g)' <=> Sends(g)
                   /\ Busy(g)' => Busy(g)
                   /\ Receives(g) => Receives(g)'
                   /\ rcv[g].st = "leaving" => rcv'[g].st = "leaving"
                   /\ snd[g].st = "queued" => snd'[g].st = "queued"
  BY DEF Sends, Receives, Busy
<1>3. ASSUME NEW p \in Side
      PROVE  Occupied(F, from, p)'
  <2>1. Occupied(F, from, p) /\ active[p] \in F \cup {"none"}
    BY DEF FileInv, FileTyped
  <2> QED BY <1>2, <2>1 DEF Occupied
<1>4. ASSUME NEW p \in Side
      PROVE  Queued(F, from, p)'
  <2>1. Queued(F, from, p) /\ queue[p] \in Seq(F)
    BY DEF FileInv, FileTyped
  <2>2. \A i \in 1 .. Len(queue[p]) : queue[p][i] \in F
    BY <2>1
  <2> QED BY <1>2, <2>1, <2>2 DEF Queued
<1> QED BY <1>1, <1>3, <1>4 DEF FileInv


SendSteps == {"dialing", "offered", "sending", "finishing", "cancelled"}
BusySteps == {"checking", "checked", "deciding", "accepting", "receiving", "closing",
              "confirming"}

\* The same when no session changes: s, r, l and d are what the step makes of
\* sender, receiver, stream and disk.
LEMMA QuietFile ==
  ASSUME NEW CONSTANT F, NEW CONSTANT from, NEW CONSTANT m, FileAssumption(F, from, m),
         FileInv(F, from, m), NEW f \in F,
         NEW s \in Sender(m), NEW r \in Receiver, NEW l \in FileLine, NEW d \in OnDisk,
         (snd' = snd /\ s = snd[f]) \/ snd' = [snd EXCEPT ![f] = s],
         (rcv' = rcv /\ r = rcv[f]) \/ rcv' = [rcv EXCEPT ![f] = r],
         (line' = line /\ l = line[f]) \/ line' = [line EXCEPT ![f] = l],
         (file' = file /\ d = file[f]) \/ file' = [file EXCEPT ![f] = d],
         queue' = queue, active' = active,
         session' = session, joined' = joined, budget' = budget, taken' = taken,
         (s.st \in SendSteps) <=> Sends(f),
         snd[f].st = "queued" => s.st = "queued",
         r.st \in BusySteps => Busy(f),
         Receives(f) => r.st \in BusySteps \cup {"ending"},
         rcv[f].st = "leaving" => r.st = "leaving",
         KeptAs(s, r, l, d), DueAs(s, r, l, taken[f])
  PROVE  FileInv(F, from, m)'
<1>1. FileTyped(F, m)
  BY DEF FileInv
<1>2. /\ snd' \in [F -> Sender(m)] /\ snd'[f] = s
      /\ \A g \in F \ {f} : snd'[g] = snd[g]
  BY <1>1 DEF FileTyped
<1>3. /\ rcv' \in [F -> Receiver] /\ rcv'[f] = r
      /\ \A g \in F \ {f} : rcv'[g] = rcv[g]
  BY <1>1 DEF FileTyped
<1>4. /\ line' \in [F -> FileLine] /\ line'[f] = l
      /\ \A g \in F \ {f} : line'[g] = line[g]
  BY <1>1 DEF FileTyped
<1>5. /\ file' \in [F -> OnDisk] /\ file'[f] = d
      /\ \A g \in F \ {f} : file'[g] = file[g]
  BY <1>1 DEF FileTyped
<1>6. FileTyped(F, m)'
  BY <1>1, <1>2, <1>3, <1>4, <1>5 DEF FileTyped
<1>7. \A p \in Side : Charged(F, from, m, p)'
  BY SameBudget DEF FileInv
<1>8. Kept(f)' /\ Due(f)'
  BY <1>2, <1>3, <1>4, <1>5 DEF Kept, Due
<1>9. /\ Sends(f)' <=> Sends(f)
      /\ Busy(f)' => Busy(f)
      /\ Receives(f) => Receives(f)'
      /\ rcv[f].st = "leaving" => rcv'[f].st = "leaving"
      /\ snd[f].st = "queued" => snd'[f].st = "queued"
  BY <1>2, <1>3 DEF Sends, Busy, Receives, SendSteps, BusySteps
<1> QED
  BY <1>2, <1>3, <1>4, <1>5, <1>6, <1>7, <1>8, <1>9, OneFile

\* What is written to a stream and read from it.
LEMMA Streams ==
  ASSUME NEW l \in FileLine, NEW x \in FileFrame
  PROVE  /\ [l EXCEPT !.up = Append(l.up, x)] \in FileLine
         /\ [l EXCEPT !.up = Append(l.up, x)].down = l.down
         /\ Confirms([l EXCEPT !.up = Append(l.up, x)]) => Confirms(l) \/ x = "DONE"
         /\ [l EXCEPT !.down = Append(l.down, x)] \in FileLine
         /\ [l EXCEPT !.down = Append(l.down, x)].up = l.up
         /\ l.up # <<>> => /\ [l EXCEPT !.up = Tail(l.up)] \in FileLine
                           /\ [l EXCEPT !.up = Tail(l.up)].down = l.down
                           /\ Confirms([l EXCEPT !.up = Tail(l.up)]) => Confirms(l)
         /\ l.down # <<>> => /\ [l EXCEPT !.down = Tail(l.down)] \in FileLine
                             /\ [l EXCEPT !.down = Tail(l.down)].up = l.up
<1>1. /\ l.up \in Seq(FileFrame) /\ l.down \in Seq(FileFrame)
      /\ l = [down |-> l.down, up |-> l.up]
  BY DEF FileLine
<1>2. Append(l.up, x) \in Seq(FileFrame) /\ Append(l.down, x) \in Seq(FileFrame)
  BY <1>1
<1>3. /\ l.up # <<>> => Tail(l.up) \in Seq(FileFrame)
      /\ l.down # <<>> => Tail(l.down) \in Seq(FileFrame)
  BY <1>1
<1>4. PICK u : u = [l EXCEPT !.up = Append(l.up, x)]
  OBVIOUS
<1>5. u \in FileLine /\ u.down = l.down /\ u.up = Append(l.up, x)
  BY <1>1, <1>2, <1>4 DEF FileLine
<1>6. Confirms(u) => Confirms(l) \/ x = "DONE"
  <2>1. ASSUME NEW i \in 1 .. Len(u.up), u.up[i] = "DONE"
        PROVE  Confirms(l) \/ x = "DONE"
    <3>1. (i \in 1 .. Len(l.up) /\ u.up[i] = l.up[i]) \/ u.up[i] = x
      BY <1>1, <1>5
    <3> QED BY <2>1, <3>1 DEF Confirms
  <2> QED BY <2>1 DEF Confirms
<1>7. PICK v : v = [l EXCEPT !.up = Tail(l.up)]
  OBVIOUS
<1>8. l.up # <<>> => v \in FileLine /\ v.down = l.down /\ v.up = Tail(l.up)
  BY <1>1, <1>3, <1>7 DEF FileLine
<1>9. l.up # <<>> /\ Confirms(v) => Confirms(l)
  <2>1. ASSUME l.up # <<>>, NEW i \in 1 .. Len(v.up), v.up[i] = "DONE"
        PROVE  Confirms(l)
    <3>1. i + 1 \in 1 .. Len(l.up) /\ v.up[i] = l.up[i + 1]
      BY <1>1, <1>8, <2>1
    <3> QED BY <2>1, <3>1 DEF Confirms
  <2> QED BY <2>1 DEF Confirms
<1>10. /\ [l EXCEPT !.down = Append(l.down, x)] \in FileLine
       /\ [l EXCEPT !.down = Append(l.down, x)].up = l.up
       /\ l.down # <<>> => /\ [l EXCEPT !.down = Tail(l.down)] \in FileLine
                           /\ [l EXCEPT !.down = Tail(l.down)].up = l.up
  BY <1>1, <1>2, <1>3 DEF FileLine
<1> QED BY <1>4, <1>5, <1>6, <1>7, <1>8, <1>9, <1>10


LEMMA Rewritten ==
  ASSUME NEW l \in FileLine
  PROVE  [l EXCEPT !.up = l.up] = l /\ [l EXCEPT !.down = l.down] = l
BY DEF FileLine

\* The steps of a sender, of a receiver and of a user that leave pages and sessions
\* as they are.
LEMMA SenderSteps ==
  ASSUME NEW CONSTANT F, NEW CONSTANT from, NEW CONSTANT m, FileAssumption(F, from, m),
         FileInv(F, from, m), NEW f \in F,
         \/ Moving(F, from, m)!Offer(f)
         \/ Moving(F, from, m)!ReadAccept(f)
         \/ Moving(F, from, m)!WriteBody(f)
         \/ Moving(F, from, m)!CancelOutgoing(f) /\ active[from[f]] = f
  PROVE  FileInv(F, from, m)'
<1>1. /\ snd[f] \in Sender(m) /\ rcv[f] \in Receiver /\ line[f] \in FileLine
      /\ file[f] \in OnDisk /\ Kept(f) /\ Due(f)
      /\ Occupied(F, from, from[f])
  BY Ways DEF FileInv, FileTyped
<1> DEFINE Goes(st) == [snd[f] EXCEPT !.st = st]
<1>2. ASSUME NEW st \in SendSteps
      PROVE  /\ Goes(st) \in Sender(m) /\ Goes(st).st = st
             /\ Goes(st).session = snd[f].session
  BY <1>1 DEF Sender, SendSteps
<1>3. ASSUME NEW st \in SendSteps, NEW l \in FileLine,
             Sends(f), st # "dialing", Confirms(l) => Confirms(line[f]),
             l.down # <<>> => line[f].down # <<>> \/ snd[f].session # 0 \/ rcv[f].st # "none",
             snd' = [snd EXCEPT ![f] = Goes(st)],
             (line' = line /\ l = line[f]) \/ line' = [line EXCEPT ![f] = l],
             queue' = queue, active' = active, rcv' = rcv, file' = file,
             session' = session, joined' = joined, budget' = budget, taken' = taken
      PROVE  FileInv(F, from, m)'
  <2> DEFINE s == Goes(st)
  <2>1. s \in Sender(m) /\ s.st = st /\ s.session = snd[f].session
    BY <1>2, <1>3
  <2>2. snd' = [snd EXCEPT ![f] = s]
    BY <1>3
  <2> HIDE DEF s
  <2>3. /\ s.st # "sent" /\ s.st # "dialing" /\ s.st \in SendSteps /\ snd[f].st # "queued"
    BY <1>3, <2>1 DEF SendSteps, Sends
  <2>4. KeptAs(s, rcv[f], l, file[f])
    BY <1>1, <1>3, <2>3 DEF Kept, KeptAs
  <2>5. DueAs(s, rcv[f], l, taken[f])
    BY <1>1, <1>3, <2>1, <2>3 DEF Due, DueAs
  <2>6. /\ rcv[f].st \in BusySteps => Busy(f)
        /\ Receives(f) => rcv[f].st \in BusySteps \cup {"ending"}
    BY DEF BusySteps, Busy, Receives
  <2> QED BY <1>1, <1>3, <2>1, <2>2, <2>3, <2>4, <2>5, <2>6, QuietFile
<1>4. ASSUME Moving(F, from, m)!Offer(f) PROVE FileInv(F, from, m)'
  <2> DEFINE l == [line[f] EXCEPT !.down = <<"OFFER">>]
  <2>1. l \in FileLine /\ l.up = line[f].up
    <3>1. <<"OFFER">> \in Seq(FileFrame)
      BY DEF FileFrame
    <3> QED BY <1>1, <3>1 DEF FileLine
  <2>2. Confirms(l) => Confirms(line[f])
    BY <2>1 DEF Confirms
  <2>3. Sends(f) /\ snd[f].session # 0
    BY <1>1, <1>4 DEF Moving!Offer, Sends, Due, DueAs
  <2>4. /\ snd' = [snd EXCEPT ![f] = Goes("offered")]
        /\ line' = [line EXCEPT ![f] = l]
        /\ queue' = queue /\ active' = active /\ rcv' = rcv /\ file' = file
        /\ session' = session /\ joined' = joined /\ budget' = budget /\ taken' = taken
    BY <1>4 DEF Moving!Offer, Moving!quiet
  <2> HIDE DEF l, Goes
  <2> QED BY <1>3, <2>1, <2>2, <2>3, <2>4 DEF SendSteps
<1>5. ASSUME Moving(F, from, m)!ReadAccept(f) PROVE FileInv(F, from, m)'
  <2> DEFINE l == [line[f] EXCEPT !.up = Tail(line[f].up)]
  <2>1. /\ snd[f].st = "offered" /\ line[f].up # <<>>
        /\ snd' = [snd EXCEPT ![f] = Goes("sending")]
        /\ line' = [line EXCEPT ![f] = l]
        /\ queue' = queue /\ active' = active /\ rcv' = rcv /\ file' = file
        /\ session' = session /\ joined' = joined /\ budget' = budget /\ taken' = taken
    BY <1>5 DEF Moving!ReadAccept, Moving!SenderReads, Moving!quiet
  <2>2. l \in FileLine /\ l.down = line[f].down /\ (Confirms(l) => Confirms(line[f]))
    BY <1>1, <2>1, Streams DEF FileFrame
  <2> HIDE DEF l, Goes
  <2> QED BY <1>3, <2>1, <2>2 DEF SendSteps, Sends
<1>6. ASSUME Moving(F, from, m)!WriteBody(f) PROVE FileInv(F, from, m)'
  <2> DEFINE l == IF Receives(f) THEN [line[f] EXCEPT !.down = Append(line[f].down, "BODY")]
                  ELSE [line[f] EXCEPT !.down = line[f].down]
  <2>1. /\ snd[f].st = "sending"
        /\ snd' = [snd EXCEPT ![f] = Goes("finishing")]
        /\ line' = [line EXCEPT ![f] = l]
        /\ queue' = queue /\ active' = active /\ rcv' = rcv /\ file' = file
        /\ session' = session /\ joined' = joined /\ budget' = budget /\ taken' = taken
    BY <1>6 DEF Moving!WriteBody, Moving!ReceiverRuns, Moving!quiet, Receives
  <2>2. l \in FileLine /\ l.up = line[f].up
    <3>1. [line[f] EXCEPT !.down = line[f].down] = line[f]
      BY <1>1 DEF FileLine
    <3> QED BY <1>1, <3>1, Streams DEF FileFrame
  <2>3. Confirms(l) => Confirms(line[f])
    BY <2>2 DEF Confirms
  <2>4. l.down # <<>> => line[f].down # <<>> \/ rcv[f].st # "none"
    BY DEF Receives
  <2> HIDE DEF l, Goes
  <2> QED BY <1>3, <2>1, <2>2, <2>3, <2>4 DEF SendSteps, Sends
<1>7. ASSUME Moving(F, from, m)!CancelOutgoing(f), active[from[f]] = f
      PROVE  FileInv(F, from, m)'
  <2>1. Sends(f)
    BY <1>1, <1>7 DEF Occupied, FileAssumption
  <2>2. /\ snd' = [snd EXCEPT ![f] = Goes("cancelled")]
        /\ line' = line
        /\ queue' = queue /\ active' = active /\ rcv' = rcv /\ file' = file
        /\ session' = session /\ joined' = joined /\ budget' = budget /\ taken' = taken
    BY <1>7, <2>1 DEF Moving!CancelOutgoing, Moving!quiet, Sends
  <2> HIDE DEF Goes
  <2> QED BY <1>1, <1>3, <2>1, <2>2 DEF SendSteps
<1> QED BY <1>4, <1>5, <1>6, <1>7


LEMMA ReceiverSteps ==
  ASSUME NEW CONSTANT F, NEW CONSTANT from, NEW CONSTANT m, FileAssumption(F, from, m),
         FileInv(F, from, m), NEW f \in F,
         \/ Moving(F, from, m)!CheckCapacity(f)
         \/ Moving(F, from, m)!PressSave(f)
         \/ Moving(F, from, m)!SinkCreated(f)
         \/ Moving(F, from, m)!SinkFails(f)
         \/ Moving(F, from, m)!Accept(f)
         \/ Moving(F, from, m)!ReadBody(f)
         \/ Moving(F, from, m)!FileReady(f)
         \/ Moving(F, from, m)!WriteDone(f)
         \/ Moving(F, from, m)!ReceiverFails(f)
         \/ Moving(F, from, m)!CancelIncoming(f)
         \/ Moving(F, from, m)!RemoveStaged(f)
  PROVE  FileInv(F, from, m)'
<1> DEFINE Still == /\ snd' = snd /\ queue' = queue /\ active' = active
                    /\ session' = session /\ joined' = joined /\ budget' = budget
                    /\ taken' = taken
           Line(l) == (line' = line /\ l = line[f]) \/ line' = [line EXCEPT ![f] = l]
           Disk(d) == (file' = file /\ d = file[f]) \/ file' = [file EXCEPT ![f] = d]
           Receiving(r) == (rcv' = rcv /\ r = rcv[f]) \/ rcv' = [rcv EXCEPT ![f] = r]
<1>1. /\ snd[f] \in Sender(m) /\ rcv[f] \in Receiver /\ line[f] \in FileLine
      /\ file[f] \in OnDisk /\ Kept(f) /\ Due(f)
  BY DEF FileInv, FileTyped
<1>2. ASSUME NEW r \in Receiver, NEW l \in FileLine, NEW d \in OnDisk,
             Still, Receiving(r), Line(l), Disk(d),
             r.st \in BusySteps => Busy(f),
             Receives(f) => r.st \in BusySteps \cup {"ending"},
             rcv[f].st = "leaving" => r.st = "leaving",
             KeptAs(snd[f], r, l, d), DueAs(snd[f], r, l, taken[f])
      PROVE  FileInv(F, from, m)'
  <2>1. snd[f].st \in SendSteps <=> Sends(f)
    BY DEF SendSteps, Sends
  <2> QED BY <1>1, <1>2, <2>1, QuietFile
<1> HIDE DEF Still, Line, Disk, Receiving
<1>3. ASSUME Moving(F, from, m)!CheckCapacity(f) PROVE FileInv(F, from, m)'
  <2>1. PICK a \in BOOLEAN : rcv' = [rcv EXCEPT ![f].st = "checked", ![f].auto = a]
    BY <1>3 DEF Moving!CheckCapacity
  <2> DEFINE r == [rcv[f] EXCEPT !.st = "checked", !.auto = a]
  <2>2. r \in Receiver /\ r.st = "checked" /\ rcv[f].st = "checking"
    BY <1>1, <1>3 DEF Receiver, Moving!CheckCapacity
  <2>3. Still /\ Receiving(r) /\ Line(line[f]) /\ Disk(file[f])
    BY <1>3, <2>1 DEF Still, Receiving, Line, Disk, Moving!CheckCapacity, Moving!quiet
  <2> HIDE DEF r
  <2>4. KeptAs(snd[f], r, line[f], file[f]) /\ DueAs(snd[f], r, line[f], taken[f])
    BY <1>1, <2>2 DEF Kept, KeptAs, Due, DueAs
  <2> QED BY <1>1, <1>2, <2>2, <2>3, <2>4 DEF BusySteps, Busy, Receives
<1>4. ASSUME Moving(F, from, m)!PressSave(f) PROVE FileInv(F, from, m)'
  <2> DEFINE r == [rcv[f] EXCEPT !.making = TRUE]
  <2>1. r \in Receiver /\ r.st = rcv[f].st
    BY <1>1 DEF Receiver
  <2>2. Still /\ Receiving(r) /\ Line(line[f]) /\ Disk(file[f])
    BY <1>4 DEF Still, Receiving, Line, Disk, Moving!PressSave, Moving!quiet
  <2> HIDE DEF r
  <2>3. KeptAs(snd[f], r, line[f], file[f]) /\ DueAs(snd[f], r, line[f], taken[f])
    BY <1>1, <2>1 DEF Kept, KeptAs, Due, DueAs
  <2> QED BY <1>1, <1>2, <2>1, <2>2, <2>3 DEF BusySteps, Busy, Receives
<1>5. ASSUME Moving(F, from, m)!SinkCreated(f) PROVE FileInv(F, from, m)'
  <2> DEFINE claimed == rcv[f].st # "deciding"
             r == [rcv[f] EXCEPT !.making = FALSE,
                                 !.st = IF claimed THEN rcv[f].st ELSE "accepting"]
             d == IF claimed THEN file[f] ELSE "partial"
  <2>1. r \in Receiver /\ r.st = IF claimed THEN rcv[f].st ELSE "accepting"
    BY <1>1 DEF Receiver
  <2>2. Still /\ Receiving(r) /\ Line(line[f]) /\ Disk(d)
    BY <1>5 DEF Still, Receiving, Line, Disk, Moving!SinkCreated, Moving!quiet
  <2>3. d \in OnDisk
    BY <1>1 DEF OnDisk
  <2> HIDE DEF r
  <2>4. KeptAs(snd[f], r, line[f], d) /\ DueAs(snd[f], r, line[f], taken[f])
    BY <1>1, <2>1 DEF Kept, KeptAs, Due, DueAs
  <2> QED BY <1>1, <1>2, <2>1, <2>2, <2>3, <2>4 DEF BusySteps, Busy, Receives
<1>6. ASSUME Moving(F, from, m)!SinkFails(f) PROVE FileInv(F, from, m)'
  <2> DEFINE refused == rcv[f].st = "deciding" /\ ~rcv[f].auto
             r == [rcv[f] EXCEPT !.making = FALSE, !.auto = FALSE,
                                 !.st = IF refused THEN "ending" ELSE rcv[f].st]
  <2>1. r \in Receiver /\ r.st = IF refused THEN "ending" ELSE rcv[f].st
    BY <1>1 DEF Receiver
  <2>2. Still /\ Receiving(r) /\ Disk(file[f])
    BY <1>6 DEF Still, Receiving, Disk, Moving!SinkFails, Moving!quiet
  <2>3. \/ line' = [line EXCEPT ![f] = [line[f] EXCEPT !.up = line[f].up]]
        \/ line' = [line EXCEPT ![f] = [line[f] EXCEPT !.up = Append(line[f].up, "REJECT")]]
    BY <1>6 DEF Moving!SinkFails
  <2>4. PICK l \in FileLine : /\ line' = [line EXCEPT ![f] = l]
                              /\ l.down = line[f].down
                              /\ Confirms(l) => Confirms(line[f])
    BY <1>1, <2>3, Streams, Rewritten DEF FileFrame
  <2>5. Line(l)
    BY <2>4 DEF Line
  <2> HIDE DEF r
  <2>6. KeptAs(snd[f], r, l, file[f]) /\ DueAs(snd[f], r, l, taken[f])
    BY <1>1, <2>1, <2>4 DEF Kept, KeptAs, Due, DueAs
  <2> QED BY <1>1, <1>2, <2>1, <2>2, <2>5, <2>6 DEF BusySteps, Busy, Receives
<1>7. ASSUME Moving(F, from, m)!Accept(f) PROVE FileInv(F, from, m)'
  <2> DEFINE r == [rcv[f] EXCEPT !.st = "receiving"]
  <2>1. r \in Receiver /\ r.st = "receiving" /\ rcv[f].st = "accepting"
    BY <1>1, <1>7 DEF Receiver, Moving!Accept
  <2>2. Still /\ Receiving(r) /\ Disk(file[f])
    BY <1>7 DEF Still, Receiving, Disk, Moving!Accept, Moving!quiet
  <2>3. \/ line' = [line EXCEPT ![f] = [line[f] EXCEPT !.up = line[f].up]]
        \/ line' = [line EXCEPT ![f] = [line[f] EXCEPT !.up = Append(line[f].up, "ACCEPT")]]
    BY <1>7 DEF Moving!Accept
  <2>4. PICK l \in FileLine : /\ line' = [line EXCEPT ![f] = l]
                              /\ l.down = line[f].down
                              /\ Confirms(l) => Confirms(line[f])
    BY <1>1, <2>3, Streams, Rewritten DEF FileFrame
  <2>5. Line(l)
    BY <2>4 DEF Line
  <2> HIDE DEF r
  <2>6. KeptAs(snd[f], r, l, file[f]) /\ DueAs(snd[f], r, l, taken[f])
    BY <1>1, <2>1, <2>4 DEF Kept, KeptAs, Due, DueAs
  <2> QED BY <1>1, <1>2, <2>1, <2>2, <2>5, <2>6 DEF BusySteps, Busy, Receives
<1>8. ASSUME Moving(F, from, m)!ReadBody(f) PROVE FileInv(F, from, m)'
  <2> DEFINE r == [rcv[f] EXCEPT !.st = "closing"]
             l == [line[f] EXCEPT !.down = Tail(line[f].down)]
  <2>1. r \in Receiver /\ r.st = "closing" /\ rcv[f].st = "receiving"
    BY <1>1, <1>8 DEF Receiver, Moving!ReadBody
  <2>2. Still /\ Receiving(r) /\ Disk(file[f]) /\ Line(l)
    BY <1>8 DEF Still, Receiving, Disk, Line, Moving!ReadBody, Moving!quiet
  <2>3. line[f].down # <<>>
    BY <1>8 DEF Moving!ReadBody, Moving!ReceiverReads
  <2>4. l \in FileLine /\ l.up = line[f].up
    BY <1>1, <2>3, Streams DEF FileFrame
  <2> HIDE DEF r, l
  <2>5. KeptAs(snd[f], r, l, file[f]) /\ DueAs(snd[f], r, l, taken[f])
    BY <1>1, <2>1, <2>4 DEF Kept, KeptAs, Due, DueAs, Confirms
  <2> QED BY <1>1, <1>2, <2>1, <2>2, <2>4, <2>5 DEF BusySteps, Busy, Receives
<1>9. ASSUME Moving(F, from, m)!FileReady(f) PROVE FileInv(F, from, m)'
  <2> DEFINE r == [rcv[f] EXCEPT !.st = "confirming"]
  <2>1. r \in Receiver /\ r.st = "confirming" /\ rcv[f].st = "closing"
    BY <1>1, <1>9 DEF Receiver, Moving!FileReady
  <2>2. PICK d \in {"saved", "staged"} : file' = [file EXCEPT ![f] = d]
    BY <1>9 DEF Moving!FileReady
  <2>3. Still /\ Receiving(r) /\ Disk(d) /\ Line(line[f])
    BY <1>9, <2>2 DEF Still, Receiving, Disk, Line, Moving!FileReady, Moving!quiet
  <2> HIDE DEF r
  <2>4. KeptAs(snd[f], r, line[f], d) /\ DueAs(snd[f], r, line[f], taken[f])
    BY <1>1, <2>1 DEF Kept, KeptAs, Due, DueAs
  <2>5. d \in OnDisk
    BY DEF OnDisk
  <2> QED BY <1>1, <1>2, <2>1, <2>3, <2>4, <2>5 DEF BusySteps, Busy, Receives
<1>10. ASSUME Moving(F, from, m)!WriteDone(f) PROVE FileInv(F, from, m)'
  <2> DEFINE r == [rcv[f] EXCEPT !.st = "ending"]
  <2>1. r \in Receiver /\ r.st = "ending" /\ rcv[f].st = "confirming"
    BY <1>1, <1>10 DEF Receiver, Moving!WriteDone
  <2>2. Still /\ Receiving(r) /\ Disk(file[f])
    BY <1>10 DEF Still, Receiving, Disk, Moving!WriteDone, Moving!quiet
  <2>3. \/ line' = [line EXCEPT ![f] = [line[f] EXCEPT !.up = line[f].up]]
        \/ line' = [line EXCEPT ![f] = [line[f] EXCEPT !.up = Append(line[f].up, "DONE")]]
    BY <1>10 DEF Moving!WriteDone
  <2>4. PICK l \in FileLine : line' = [line EXCEPT ![f] = l] /\ l.down = line[f].down
    BY <1>1, <2>3, Streams, Rewritten DEF FileFrame
  <2>5. Line(l)
    BY <2>4 DEF Line
  <2> HIDE DEF r
  <2>6. KeptAs(snd[f], r, l, file[f]) /\ DueAs(snd[f], r, l, taken[f])
    BY <1>1, <2>1, <2>4 DEF Kept, KeptAs, Due, DueAs
  <2> QED BY <1>1, <1>2, <2>1, <2>2, <2>5, <2>6 DEF BusySteps, Busy, Receives
<1>11. ASSUME Moving(F, from, m)!ReceiverFails(f) PROVE FileInv(F, from, m)'
  <2> DEFINE r == [rcv[f] EXCEPT !.st = "ending"]
  <2>1. r \in Receiver /\ r.st = "ending" /\ Busy(f)
    BY <1>1, <1>11 DEF Receiver, Moving!ReceiverFails, Busy, Receives
  <2>2. Still /\ Receiving(r) /\ Disk(file[f])
    BY <1>11 DEF Still, Receiving, Disk, Moving!ReceiverFails, Moving!quiet
  <2>3. \/ line' = [line EXCEPT ![f] = [line[f] EXCEPT !.up = line[f].up]]
        \/ line' = [line EXCEPT ![f] = [line[f] EXCEPT !.up = Append(line[f].up, "REJECT")]]
    BY <1>11 DEF Moving!ReceiverFails
  <2>4. PICK l \in FileLine : /\ line' = [line EXCEPT ![f] = l]
                              /\ l.down = line[f].down
                              /\ Confirms(l) => Confirms(line[f])
    BY <1>1, <2>3, Streams, Rewritten DEF FileFrame
  <2>5. Line(l)
    BY <2>4 DEF Line
  <2> HIDE DEF r
  <2>6. KeptAs(snd[f], r, l, file[f]) /\ DueAs(snd[f], r, l, taken[f])
    BY <1>1, <1>11, <2>1, <2>4 DEF Kept, KeptAs, Due, DueAs, Moving!ReceiverFails
  <2> QED BY <1>1, <1>2, <2>1, <2>2, <2>5, <2>6 DEF BusySteps, Busy, Receives
<1>12. ASSUME Moving(F, from, m)!CancelIncoming(f) PROVE FileInv(F, from, m)'
  <2> DEFINE r == [rcv[f] EXCEPT !.cancelled = TRUE]
  <2>1. r \in Receiver /\ r.st = rcv[f].st
    BY <1>1 DEF Receiver
  <2>2. Still /\ Receiving(r) /\ Line(line[f]) /\ Disk(file[f])
    BY <1>12 DEF Still, Receiving, Line, Disk, Moving!CancelIncoming, Moving!quiet
  <2> HIDE DEF r
  <2>3. KeptAs(snd[f], r, line[f], file[f]) /\ DueAs(snd[f], r, line[f], taken[f])
    BY <1>1, <2>1 DEF Kept, KeptAs, Due, DueAs
  <2> QED BY <1>1, <1>2, <2>1, <2>2, <2>3 DEF BusySteps, Busy, Receives
<1>13. ASSUME Moving(F, from, m)!RemoveStaged(f) PROVE FileInv(F, from, m)'
  <2>1. Still /\ Receiving(rcv[f]) /\ Line(line[f]) /\ Disk("exported")
    BY <1>13 DEF Still, Receiving, Line, Disk, Moving!RemoveStaged, Moving!quiet
  <2>2. /\ KeptAs(snd[f], rcv[f], line[f], "exported")
        /\ DueAs(snd[f], rcv[f], line[f], taken[f])
    BY <1>1, <1>13 DEF Kept, KeptAs, Due, DueAs, Moving!RemoveStaged
  <2>3. "exported" \in OnDisk
    BY DEF OnDisk
  <2> QED BY <1>1, <1>2, <2>1, <2>2, <2>3 DEF BusySteps, Busy, Receives
<1> QED
  BY <1>3, <1>4, <1>5, <1>6, <1>7, <1>8, <1>9, <1>10, <1>11, <1>12, <1>13


\* An automatic decision is paid for by the session the file was sent in.
LEMMA BeginDecisionStep ==
  ASSUME NEW CONSTANT F, NEW CONSTANT from, NEW CONSTANT m, FileAssumption(F, from, m),
         FileInv(F, from, m), NEW f \in F, Moving(F, from, m)!BeginDecision(f)
  PROVE  FileInv(F, from, m)'
<1>1. /\ snd[f] \in Sender(m) /\ rcv[f] \in Receiver /\ line[f] \in FileLine
      /\ file[f] \in OnDisk /\ taken[f] \in 0 .. m /\ Kept(f) /\ Due(f)
      /\ FileTyped(F, m)
  BY DEF FileInv, FileTyped
<1>2. PICK r \in Side : r = Mate(from[f]) /\ r # from[f] /\ Side = {from[f], r}
  BY Ways
<1>3. PICK auto \in BOOLEAN : auto <=> rcv[f].auto /\ budget[r] < AutoItems
  OBVIOUS
<1>4. Moving(F, from, m)!To(f) = r
  BY <1>2, Ways
<1>5. /\ rcv[f].st = "checked" /\ session[r] = snd[f].session
      /\ rcv' = [rcv EXCEPT ![f].st = "deciding", ![f].auto = auto, ![f].making = auto]
      /\ budget' = [budget EXCEPT ![r] = IF auto THEN budget[r] + 1 ELSE budget[r]]
      /\ taken' = [taken EXCEPT ![f] = IF auto THEN session[r] ELSE taken[f]]
      /\ session' = session /\ joined' = joined /\ queue' = queue /\ active' = active
      /\ snd' = snd /\ line' = line /\ file' = file
  <2>1. (rcv[f].auto /\ budget[r] < AutoItems) = auto
    BY <1>1, <1>3 DEF Receiver
  <2> QED BY <1>4, <2>1 DEF Moving!BeginDecision, Moving!Current
<1>6. session[r] \in 1 .. m /\ taken[f] = 0 /\ Charged(F, from, m, r) /\ budget[r] \in 0 .. AutoItems
  BY <1>1, <1>5 DEF Due, DueAs, FileInv, FileTyped, FileAssumption
<1>7. session[r] = joined[r] /\ budget[r] = Cardinality(Paid(F, from, r, session[r]))
  BY <1>6 DEF Charged
<1>8. /\ rcv'[f] \in Receiver /\ rcv'[f].st = "deciding" /\ rcv' \in [F -> Receiver]
      /\ \A g \in F \ {f} : rcv'[g] = rcv[g]
  BY <1>1, <1>5 DEF FileTyped, Receiver
<1>9. /\ taken' \in [F -> 0 .. m] /\ taken'[f] = IF auto THEN session[r] ELSE 0
      /\ \A g \in F \ {f} : taken'[g] = taken[g]
  BY <1>1, <1>5, <1>6 DEF FileTyped
<1>10. /\ budget' \in [Side -> 0 .. AutoItems]
       /\ budget'[r] = IF auto THEN budget[r] + 1 ELSE budget[r]
       /\ budget'[from[f]] = budget[from[f]]
  <2>1. (IF auto THEN budget[r] + 1 ELSE budget[r]) \in 0 .. AutoItems
    BY <1>3, <1>6, FileBounds
  <2>2. budget \in [Side -> 0 .. AutoItems]
    BY <1>1 DEF FileTyped
  <2> QED BY <1>2, <1>5, <2>1, <2>2
<1>11. FileTyped(F, m)'
  BY <1>1, <1>5, <1>8, <1>9, <1>10 DEF FileTyped
<1>12. Kept(f)' /\ Due(f)'
  BY <1>1, <1>5, <1>8, <1>9 DEF Kept, KeptAs, Due, DueAs
<1>13. Charged(F, from, m, r)'
  <2>1. PICK n \in 1 .. m : n = session[r]
    BY <1>6
  <2>2. \A s \in 1 .. m : ~auto \/ s # n => Paid(F, from, r, s)' = Paid(F, from, r, s)
    BY <1>6, <1>9, <2>1 DEF Paid
  <2>3. CASE ~auto
    BY <1>5, <1>6, <1>10, <2>1, <2>2, <2>3 DEF Charged
  <2>4. CASE auto
    <3>1. Paid(F, from, r, n)' = Paid(F, from, r, n) \cup {f}
      BY <1>2, <1>9, <2>1, <2>4 DEF Paid
    <3>2. f \notin Paid(F, from, r, n)
      BY <1>6, <2>1 DEF Paid
    <3>3. IsFiniteSet(Paid(F, from, r, n))
      BY FS_Subset DEF Paid, FileAssumption
    <3>4. Cardinality(Paid(F, from, r, n)') = budget'[r]
      BY <1>7, <1>10, <2>1, <2>4, <3>1, <3>2, <3>3, FS_AddElement
    <3>5. session'[r] = n /\ joined'[r] = n /\ budget'[r] \in 0 .. AutoItems
      BY <1>2, <1>5, <1>7, <1>10, <2>1
    <3>6. ASSUME NEW s \in 1 .. m
          PROVE  /\ Cardinality(Paid(F, from, r, s)') <= AutoItems
                 /\ s > n => Paid(F, from, r, s)' = {}
      <4>1. CASE s = n
        BY <3>4, <3>5, <4>1, FileBounds
      <4>2. CASE s # n
        <5>1. /\ Cardinality(Paid(F, from, r, s)) <= AutoItems
              /\ s > n => Paid(F, from, r, s) = {}
          BY <1>6, <1>7, <2>1 DEF Charged
        <5> QED BY <2>2, <4>2, <5>1
      <4> QED BY <4>1, <4>2
    <3> QED BY <3>4, <3>5, <3>6 DEF Charged
  <2> QED BY <2>3, <2>4
<1>14. Charged(F, from, m, from[f])'
  <2>1. \A s : Paid(F, from, from[f], s)' = Paid(F, from, from[f], s)
    BY <1>9 DEF Paid
  <2> QED BY <1>5, <1>10, <2>1, Ways DEF Charged, FileInv
<1>15. \A p \in Side : Charged(F, from, m, p)'
  BY <1>2, <1>13, <1>14
<1>16. /\ Sends(f)' <=> Sends(f)
       /\ Busy(f)' => Busy(f)
       /\ Receives(f) => Receives(f)'
  BY <1>5, <1>8 DEF Sends, Busy, Receives
<1> QED
  BY <1>5, <1>8, <1>9, <1>11, <1>12, <1>15, <1>16, OneFile


\* A queue that page p may have, the senders being s.
Listed(F, from, p, q, s) ==
  /\ q \in Seq(F)
  /\ \A i \in 1 .. Len(q) : from[q[i]] = p /\ s[q[i]].st = "queued"
  /\ \A i, j \in 1 .. Len(q) : q[i] = q[j] => i = j

\* What processFileQueue does to an idle page: its first file dials, or all fail.
LEMMA ProcessQueueEffect ==
  ASSUME NEW CONSTANT F, NEW CONSTANT from, NEW CONSTANT m, FileAssumption(F, from, m),
         FileTyped(F, m), NEW p \in Side, NEW q, NEW s \in [F -> Sender(m)],
         Listed(F, from, p, q, s), Moving(F, from, m)!ProcessQueue(p, q, s)
  PROVE  /\ queue' \in [Side -> Seq(F)] /\ active' \in [Side -> F \cup {"none"}]
         /\ snd' \in [F -> Sender(m)]
         /\ \A o \in Side \ {p} : queue'[o] = queue[o] /\ active'[o] = active[o]
         /\ Listed(F, from, p, queue'[p], snd')
         /\ active'[p] = "none" => queue'[p] = <<>>
         /\ active'[p] # "none" => /\ from[active'[p]] = p
                                   /\ snd'[active'[p]].st = "dialing"
         /\ \A g \in F : \/ snd'[g] = s[g]
                         \/ /\ from[g] = p /\ s[g].st = "queued"
                            /\ \/ /\ snd'[g].st = "dialing" /\ snd'[g].session # 0
                                  /\ active'[p] = g
                               \/ snd'[g].st = "failed" /\ snd'[g].session = s[g].session
<1> DEFINE listed == {q[i] : i \in DOMAIN q}
<1>1. /\ q \in Seq(F) /\ DOMAIN q = 1 .. Len(q) /\ Len(q) \in Nat
      /\ session[p] \in 0 .. m
  BY DEF Listed, FileTyped
<1>2. CASE q # <<>> /\ session[p] # 0
  <2>1. /\ queue' = [queue EXCEPT ![p] = Tail(q)]
        /\ active' = [active EXCEPT ![p] = Head(q)]
    BY <1>2 DEF Moving!ProcessQueue
  <2>2. snd' = [g \in F |-> IF g \notin listed \/ g # Head(q) THEN s[g]
                            ELSE [st |-> "dialing", session |-> session[p]]]
    BY <1>2 DEF Moving!ProcessQueue
  <2>3. Head(q) = q[1] /\ 1 \in 1 .. Len(q) /\ q[1] \in F /\ Tail(q) \in Seq(F)
    BY <1>1, <1>2
  <2>4. [st |-> "dialing", session |-> session[p]] \in Sender(m)
    BY <1>1 DEF Sender
  <2>5. /\ snd' \in [F -> Sender(m)]
        /\ snd'[q[1]] = [st |-> "dialing", session |-> session[p]]
        /\ \A g \in F : g # q[1] => snd'[g] = s[g]
    BY <1>1, <2>2, <2>3, <2>4
  <2>6. /\ Len(Tail(q)) = Len(q) - 1
        /\ \A i \in 1 .. Len(Tail(q)) : /\ Tail(q)[i] = q[i + 1]
                                        /\ i + 1 \in 1 .. Len(q) /\ i + 1 # 1
    BY <1>1, <1>2
  <2>7. Listed(F, from, p, Tail(q), snd')
    <3>1. \A i \in 1 .. Len(Tail(q)) :
            /\ from[Tail(q)[i]] = p /\ Tail(q)[i] # q[1]
            /\ s[Tail(q)[i]].st = "queued" /\ Tail(q)[i] \in F
      BY <1>1, <2>3, <2>6 DEF Listed
    <3>2. \A i, j \in 1 .. Len(Tail(q)) : Tail(q)[i] = Tail(q)[j] => i = j
      <4>1. SUFFICES ASSUME NEW i \in 1 .. Len(Tail(q)), NEW j \in 1 .. Len(Tail(q)),
                            Tail(q)[i] = Tail(q)[j]
                     PROVE  i = j
        OBVIOUS
      <4>2. i + 1 = j + 1
        BY <2>6, <4>1 DEF Listed
      <4> QED BY <1>1, <2>6, <4>2
    <3> QED BY <2>3, <2>5, <3>1, <3>2 DEF Listed
  <2>8. /\ queue' \in [Side -> Seq(F)] /\ queue'[p] = Tail(q)
        /\ active' \in [Side -> F \cup {"none"}] /\ active'[p] = q[1]
        /\ \A o \in Side \ {p} : queue'[o] = queue[o] /\ active'[o] = active[o]
    BY <2>1, <2>3 DEF FileTyped
  <2>9. q[1] # "none" /\ from[q[1]] = p /\ s[q[1]].st = "queued"
    BY <2>3 DEF FileAssumption, Listed
  <2> QED BY <1>2, <2>5, <2>7, <2>8, <2>9
<1>3. CASE ~(q # <<>> /\ session[p] # 0)
  <2>1. /\ queue' = [queue EXCEPT ![p] = <<>>]
        /\ active' = [active EXCEPT ![p] = "none"]
    BY <1>3 DEF Moving!ProcessQueue
  <2>2. snd' = [g \in F |-> IF g \notin listed THEN s[g] ELSE [s[g] EXCEPT !.st = "failed"]]
    BY <1>3 DEF Moving!ProcessQueue
  <2>3. \A g \in F : /\ [s[g] EXCEPT !.st = "failed"] \in Sender(m)
                     /\ [s[g] EXCEPT !.st = "failed"].st = "failed"
                     /\ [s[g] EXCEPT !.st = "failed"].session = s[g].session
    BY DEF Sender
  <2>4. /\ snd' \in [F -> Sender(m)]
        /\ \A g \in F : /\ g \notin listed => snd'[g] = s[g]
                        /\ g \in listed => /\ snd'[g].st = "failed"
                                           /\ snd'[g].session = s[g].session
    BY <2>2, <2>3
  <2>5. \A g \in listed : from[g] = p /\ s[g].st = "queued"
    BY <1>1 DEF Listed
  <2>6. /\ queue' \in [Side -> Seq(F)] /\ queue'[p] = <<>>
        /\ active' \in [Side -> F \cup {"none"}] /\ active'[p] = "none"
        /\ \A o \in Side \ {p} : queue'[o] = queue[o] /\ active'[o] = active[o]
    <3>1. <<>> \in Seq(F)
      OBVIOUS
    <3> QED BY <2>1, <3>1 DEF FileTyped
  <2>7. Listed(F, from, p, queue'[p], snd')
    <3>1. <<>> \in Seq(F) /\ Len(<<>>) = 0
      OBVIOUS
    <3> QED BY <2>6, <3>1 DEF Listed
  <2> HIDE DEF listed
  <2> QED BY <2>4, <2>5, <2>6, <2>7
<1> QED BY <1>2, <1>3

\* So a page that moves nothing any more, the senders being s, may go on.
LEMMA PageGoesOn ==
  ASSUME NEW CONSTANT F, NEW CONSTANT from, NEW CONSTANT m, FileAssumption(F, from, m),
         FileInv(F, from, m), NEW p \in Side, NEW q, NEW s \in [F -> Sender(m)],
         Listed(F, from, p, q, s), Moving(F, from, m)!ProcessQueue(p, q, s),
         \A g \in F : from[g] # p => s[g] = snd[g],
         \A g \in F : from[g] = p => rcv'[g] = rcv[g] /\ s[g].st \notin SendSteps,
         \A g \in F : from[g] # p => ~Busy(g)',
         rcv' \in [F -> Receiver], line' \in [F -> FileLine], file' = file,
         session' = session, joined' = joined, budget' = budget, taken' = taken,
         \A g \in F : /\ KeptAs(s[g], rcv'[g], line'[g], file[g])
                      /\ DueAs(s[g], rcv'[g], line'[g], taken[g])
  PROVE  FileInv(F, from, m)'
<1>1. FileTyped(F, m)
  BY DEF FileInv
<1>2. /\ queue' \in [Side -> Seq(F)] /\ active' \in [Side -> F \cup {"none"}]
      /\ snd' \in [F -> Sender(m)]
      /\ \A o \in Side \ {p} : queue'[o] = queue[o] /\ active'[o] = active[o]
      /\ Listed(F, from, p, queue'[p], snd')
      /\ active'[p] = "none" => queue'[p] = <<>>
      /\ active'[p] # "none" => from[active'[p]] = p /\ snd'[active'[p]].st = "dialing"
  BY <1>1, ProcessQueueEffect
<1>3. \A g \in F : \/ snd'[g] = s[g]
                   \/ /\ from[g] = p /\ s[g].st = "queued"
                      /\ \/ /\ snd'[g].st = "dialing" /\ snd'[g].session # 0
                            /\ active'[p] = g
                         \/ snd'[g].st = "failed" /\ snd'[g].session = s[g].session
  BY <1>1, ProcessQueueEffect
<1>4. FileTyped(F, m)'
  BY <1>1, <1>2 DEF FileTyped
<1>5. ASSUME NEW g \in F
      PROVE  Kept(g)' /\ Due(g)'
  <2>1. KeptAs(snd'[g], rcv'[g], line'[g], file[g])
    BY <1>3 DEF KeptAs
  <2>2. DueAs(snd'[g], rcv'[g], line'[g], taken[g])
    BY <1>3 DEF DueAs
  <2> QED BY <2>1, <2>2 DEF Kept, Due
<1>6. \A g \in F : from[g] = p => (Sends(g)' <=> active'[p] = g)
  <2>1. SUFFICES ASSUME NEW g \in F, from[g] = p
                 PROVE  Sends(g)' <=> active'[p] = g
    OBVIOUS
  <2>2. active'[p] = g => Sends(g)'
    BY <1>2, <2>1 DEF Sends, FileAssumption
  <2>3. snd'[g] = s[g] => ~Sends(g)'
    BY <2>1 DEF Sends, SendSteps
  <2> QED BY <1>3, <2>1, <2>2, <2>3 DEF Sends
<1>7. Occupied(F, from, p)'
  BY <1>2, <1>6 DEF Occupied
<1>8. Queued(F, from, p)'
  BY <1>2 DEF Queued, Listed
<1>9. ASSUME NEW o \in Side, o # p
      PROVE  Occupied(F, from, o)' /\ Queued(F, from, o)'
  <2>1. \A g \in F : from[g] = o => snd'[g] = snd[g]
    BY <1>3, <1>9
  <2>2. \A g \in F : from[g] # o => from[g] = p /\ rcv'[g] = rcv[g]
    BY <1>9 DEF FileAssumption, Side
  <2>3. active'[o] = active[o] /\ queue'[o] = queue[o] /\ Occupied(F, from, o) /\ Queued(F, from, o)
    BY <1>2, <1>9 DEF FileInv
  <2>4. active[o] \in F \cup {"none"} /\ queue[o] \in Seq(F)
    BY <1>1 DEF FileTyped
  <2>5. Occupied(F, from, o)'
    BY <2>1, <2>2, <2>3, <2>4 DEF Occupied, Sends, Busy, Receives
  <2>6. \A i \in 1 .. Len(queue[o]) : queue[o][i] \in F
    BY <2>4
  <2>7. Queued(F, from, o)'
    BY <2>1, <2>2, <2>3, <2>6 DEF Queued
  <2> QED BY <2>5, <2>7
<1>10. \A o \in Side : Charged(F, from, m, o)'
  BY SameBudget DEF FileInv
<1> QED BY <1>4, <1>5, <1>7, <1>8, <1>9, <1>10 DEF FileInv


LEMMA SenderEndsStep ==
  ASSUME NEW CONSTANT F, NEW CONSTANT from, NEW CONSTANT m, FileAssumption(F, from, m),
         FileInv(F, from, m), NEW f \in F,
         Moving(F, from, m)!ReadDone(f) \/ Moving(F, from, m)!SenderFails(f)
  PROVE  FileInv(F, from, m)'
<1> DEFINE p == from[f]
<1>1. /\ snd[f] \in Sender(m) /\ snd \in [F -> Sender(m)] /\ line \in [F -> FileLine]
      /\ rcv \in [F -> Receiver] /\ queue[p] \in Seq(F) /\ p \in Side
      /\ Kept(f) /\ Due(f) /\ Occupied(F, from, p) /\ Queued(F, from, p)
  BY Ways DEF FileInv, FileTyped
<1>2. Sends(f)
  BY DEF Sends, Moving!ReadDone, Moving!SenderFails, Moving!SenderRuns
<1>3. PICK st \in {"sent", "failed"} :
        /\ Moving(F, from, m)!SenderEnds(f, st)
        /\ st = "sent" => file[f] \in {"saved", "staged", "exported"}
  <2>1. CASE Moving(F, from, m)!ReadDone(f)
    <3>1. line[f].up # <<>> /\ Head(line[f].up) = "DONE" /\ line[f].up \in Seq(FileFrame)
      BY <1>1, <2>1 DEF Moving!ReadDone, Moving!SenderReads, FileLine
    <3>2. 1 \in 1 .. Len(line[f].up) /\ line[f].up[1] = "DONE"
      BY <3>1
    <3>3. Confirms(line[f])
      BY <3>2 DEF Confirms
    <3> QED BY <1>1, <2>1, <3>3 DEF Kept, KeptAs, Moving!ReadDone
  <2>2. CASE Moving(F, from, m)!SenderFails(f)
    BY <2>2 DEF Moving!SenderFails
  <2> QED BY <2>1, <2>2
<1>4. PICK s : s = [snd EXCEPT ![f].st = st]
  OBVIOUS
<1>5. /\ s \in [F -> Sender(m)] /\ s[f].st = st /\ s[f].session = snd[f].session
      /\ \A g \in F \ {f} : s[g] = snd[g]
  BY <1>1, <1>4 DEF Sender
<1>6. /\ Moving(F, from, m)!ProcessQueue(p, queue[p], s)
      /\ line' = [line EXCEPT ![f].up = <<>>]
      /\ session' = session /\ joined' = joined /\ budget' = budget /\ taken' = taken
      /\ rcv' = rcv /\ file' = file
  BY <1>3, <1>4 DEF Moving!SenderEnds, Moving!quiet
<1>7. Listed(F, from, p, queue[p], s)
  <2>1. \A i \in 1 .. Len(queue[p]) : queue[p][i] \in F /\ queue[p][i] # f
    BY <1>1, <1>2 DEF Queued, Sends
  <2> QED BY <1>1, <1>5, <2>1 DEF Queued, Listed
<1>8. /\ line' \in [F -> FileLine] /\ line'[f].up = <<>> /\ line'[f].down = line[f].down
      /\ \A g \in F \ {f} : line'[g] = line[g]
  <2>1. <<>> \in Seq(FileFrame)
    OBVIOUS
  <2> QED BY <1>1, <1>6, <2>1 DEF FileLine
<1>9. active[p] = f
  BY <1>1, <1>2 DEF Occupied
<1>10. \A g \in F : from[g] = p => s[g].st \notin SendSteps
  <2>1. st \notin SendSteps
    BY DEF SendSteps
  <2>2. \A g \in F \ {f} : from[g] = p => ~Sends(g)
    BY <1>1, <1>9 DEF Occupied
  <2> QED BY <1>5, <2>1, <2>2 DEF Sends, SendSteps
<1>11. \A g \in F : from[g] # p => ~Busy(g)
  BY <1>1, <1>9 DEF Occupied
<1>12. \A g \in F : from[g] # p => ~Busy(g)'
  BY <1>6, <1>11 DEF Busy, Receives
<1>13. ASSUME NEW g \in F
       PROVE  /\ KeptAs(s[g], rcv'[g], line'[g], file[g])
              /\ DueAs(s[g], rcv'[g], line'[g], taken[g])
  <2>1. Kept(g) /\ Due(g)
    BY DEF FileInv
  <2>2. CASE g # f
    BY <1>5, <1>6, <1>8, <2>1, <2>2 DEF Kept, Due
  <2>3. CASE g = f
    <3>1. ~Confirms(line'[f])
      BY <1>8 DEF Confirms
    <3> QED BY <1>3, <1>5, <1>6, <1>8, <2>1, <2>3, <3>1 DEF Kept, Due, KeptAs, DueAs
  <2> QED BY <2>2, <2>3
<1> HIDE DEF p
<1>14. \A g \in F : from[g] # p => s[g] = snd[g]
  BY <1>5 DEF p
<1> QED
  BY <1>1, <1>5, <1>6, <1>7, <1>8, <1>10, <1>12, <1>13, <1>14, PageGoesOn

LEMMA LeaveReceiveStep ==
  ASSUME NEW CONSTANT F, NEW CONSTANT from, NEW CONSTANT m, FileAssumption(F, from, m),
         FileInv(F, from, m), NEW f \in F, Moving(F, from, m)!LeaveReceive(f)
  PROVE  FileInv(F, from, m)'
<1>1. PICK p \in Side : p = Mate(from[f]) /\ p # from[f] /\ Side = {from[f], p}
  BY Ways
<1>2. /\ snd \in [F -> Sender(m)] /\ line \in [F -> FileLine] /\ rcv \in [F -> Receiver]
      /\ queue[p] \in Seq(F) /\ Occupied(F, from, p) /\ Queued(F, from, p)
  BY DEF FileInv, FileTyped
<1>3. Moving(F, from, m)!To(f) = p
  BY <1>1, Ways
<1>4. /\ rcv[f].st = "leaving" /\ rcv' = [rcv EXCEPT ![f].st = "done"]
      /\ IF active[p] = "none" THEN Moving(F, from, m)!ProcessQueue(p, queue[p], snd)
         ELSE queue' = queue /\ active' = active /\ snd' = snd
      /\ session' = session /\ joined' = joined /\ budget' = budget /\ taken' = taken
      /\ line' = line /\ file' = file
  BY <1>3 DEF Moving!LeaveReceive, Moving!quiet
<1>5. /\ rcv' \in [F -> Receiver] /\ rcv'[f].st = "done"
      /\ \A g \in F \ {f} : rcv'[g] = rcv[g]
  BY <1>2, <1>4 DEF Receiver
<1>6. ASSUME NEW g \in F
      PROVE  /\ KeptAs(snd[g], rcv'[g], line'[g], file[g])
             /\ DueAs(snd[g], rcv'[g], line'[g], taken[g])
             /\ Busy(g)' <=> Busy(g)
             /\ Receives(g)' <=> Receives(g)
  <2>1. Kept(g) /\ Due(g)
    BY DEF FileInv
  <2>2. CASE g # f
    BY <1>4, <1>5, <2>1, <2>2 DEF Kept, Due, Busy, Receives
  <2>3. CASE g = f
    BY <1>4, <1>5, <2>1, <2>3 DEF Kept, Due, KeptAs, DueAs, Busy, Receives
  <2> QED BY <2>2, <2>3
<1>7. CASE active[p] = "none"
  <2>1. \A g \in F : /\ from[g] = p => snd[g].st \notin SendSteps
                     /\ from[g] # p => ~Busy(g)
    BY <1>2, <1>7 DEF Occupied, FileAssumption, Sends, SendSteps
  <2>2. \A g \in F : /\ from[g] = p => rcv'[g] = rcv[g] /\ snd[g].st \notin SendSteps
                     /\ from[g] # p => ~Busy(g)'
    BY <1>1, <1>5, <1>6, <2>1
  <2>3. Listed(F, from, p, queue[p], snd)
    BY <1>2 DEF Queued, Listed
  <2> QED BY <1>2, <1>4, <1>5, <1>6, <1>7, <2>2, <2>3, PageGoesOn
<1>8. CASE active[p] # "none"
  <2>1. queue' = queue /\ active' = active /\ snd' = snd
    BY <1>4, <1>8
  <2>2. FileTyped(F, m)'
    BY <1>4, <1>5, <2>1 DEF FileInv, FileTyped
  <2>3. \A g \in F : Kept(g)' /\ Due(g)'
    BY <1>4, <1>6, <2>1 DEF Kept, Due
  <2>4. ASSUME NEW o \in Side
        PROVE  Occupied(F, from, o)' /\ Queued(F, from, o)'
    <3>1. Occupied(F, from, o) /\ Queued(F, from, o) /\ active[o] \in F \cup {"none"}
      BY DEF FileInv, FileTyped
    <3>2. Occupied(F, from, o)'
      BY <1>6, <2>1, <3>1 DEF Occupied, Sends
    <3>3. o # p => \A g \in F : from[g] # o => rcv'[g] = rcv[g]
      BY <1>1, <1>5
    <3>4. Queued(F, from, o)'
      BY <1>8, <2>1, <3>1, <3>3 DEF Queued
    <3> QED BY <3>2, <3>4
  <2>5. \A o \in Side : Charged(F, from, m, o)'
    BY <1>4, SameBudget DEF FileInv
  <2> QED BY <2>2, <2>3, <2>4, <2>5 DEF FileInv
<1> QED BY <1>7, <1>8

LEMMA EnqueueStep ==
  ASSUME NEW CONSTANT F, NEW CONSTANT from, NEW CONSTANT m, FileAssumption(F, from, m),
         FileInv(F, from, m), NEW f \in F, Moving(F, from, m)!Enqueue(f)
  PROVE  FileInv(F, from, m)'
<1>1. PICK p \in Side : p = from[f]
  BY Ways
<1>2. /\ snd \in [F -> Sender(m)] /\ line \in [F -> FileLine] /\ rcv \in [F -> Receiver]
      /\ queue[p] \in Seq(F) /\ Occupied(F, from, p) /\ Queued(F, from, p)
      /\ FileTyped(F, m)
  BY DEF FileInv, FileTyped
<1>3. PICK s : s = [snd EXCEPT ![f].st = "queued"]
  OBVIOUS
<1>4. PICK q : q = Append(queue[p], f)
  OBVIOUS
<1>5. /\ snd[f].st = "idle"
      /\ IF active[p] = "none" THEN Moving(F, from, m)!ProcessQueue(p, q, s)
         ELSE queue' = [queue EXCEPT ![p] = q] /\ active' = active /\ snd' = s
      /\ session' = session /\ joined' = joined /\ budget' = budget /\ taken' = taken
      /\ rcv' = rcv /\ line' = line /\ file' = file
  BY <1>1, <1>3, <1>4 DEF Moving!Enqueue, Moving!quiet
<1>6. /\ s \in [F -> Sender(m)] /\ s[f].st = "queued" /\ s[f].session = snd[f].session
      /\ \A g \in F \ {f} : s[g] = snd[g]
  BY <1>2, <1>3 DEF Sender
<1>7. Listed(F, from, p, q, s)
  <2>1. /\ q \in Seq(F) /\ Len(q) = Len(queue[p]) + 1
        /\ \A i \in 1 .. Len(q) : \/ i \in 1 .. Len(queue[p]) /\ q[i] = queue[p][i]
                                  \/ i = Len(q) /\ q[i] = f
    BY <1>2, <1>4
  <2>2. \A i \in 1 .. Len(queue[p]) : /\ queue[p][i] \in F \ {f}
                                      /\ from[queue[p][i]] = p
                                      /\ snd[queue[p][i]].st = "queued"
    BY <1>2, <1>5 DEF Queued
  <2>3. \A i \in 1 .. Len(q) : from[q[i]] = p /\ s[q[i]].st = "queued"
    <3>1. ASSUME NEW i \in 1 .. Len(q)
          PROVE  from[q[i]] = p /\ s[q[i]].st = "queued"
      <4>1. CASE q[i] = f
        BY <1>1, <1>6, <4>1
      <4>2. CASE q[i] # f
        BY <1>6, <2>1, <2>2, <4>2
      <4> QED BY <4>1, <4>2
    <3> QED BY <3>1
  <2>4. \A i, j \in 1 .. Len(q) : q[i] = q[j] => i = j
    BY <1>2, <2>1, <2>2 DEF Queued
  <2> QED BY <2>1, <2>3, <2>4 DEF Listed
<1>8. ASSUME NEW g \in F
      PROVE  /\ KeptAs(s[g], rcv[g], line[g], file[g])
             /\ DueAs(s[g], rcv[g], line[g], taken[g])
             /\ s[g].st \in SendSteps <=> Sends(g)
  <2>1. Kept(g) /\ Due(g)
    BY DEF FileInv
  <2>2. CASE g # f
    BY <1>6, <2>1, <2>2 DEF Kept, Due, Sends, SendSteps
  <2>3. CASE g = f
    BY <1>5, <1>6, <2>1, <2>3 DEF Kept, Due, KeptAs, DueAs, Sends, SendSteps
  <2> QED BY <2>2, <2>3
<1>9. CASE active[p] = "none"
  <2>1. \A g \in F : /\ from[g] = p => ~Sends(g)
                     /\ from[g] # p => ~Busy(g)
    BY <1>2, <1>9 DEF Occupied, FileAssumption
  <2>2. \A g \in F : /\ from[g] = p => rcv'[g] = rcv[g] /\ s[g].st \notin SendSteps
                     /\ from[g] # p => ~Busy(g)'
    BY <1>5, <1>8, <2>1 DEF Busy, Receives
  <2>3. \A g \in F : from[g] # p => s[g] = snd[g]
    BY <1>1, <1>6
  <2>4. \A g \in F : /\ KeptAs(s[g], rcv'[g], line'[g], file[g])
                     /\ DueAs(s[g], rcv'[g], line'[g], taken[g])
    BY <1>5, <1>8
  <2> QED BY <1>2, <1>5, <1>6, <1>7, <1>9, <2>2, <2>3, <2>4, PageGoesOn
<1>10. CASE active[p] # "none"
  <2>1. queue' = [queue EXCEPT ![p] = q] /\ active' = active /\ snd' = s
    BY <1>5, <1>10
  <2>2. /\ queue' \in [Side -> Seq(F)] /\ queue'[p] = q
        /\ \A o \in Side \ {p} : queue'[o] = queue[o]
    BY <1>2, <1>7, <2>1 DEF FileTyped, Listed
  <2>3. FileTyped(F, m)'
    BY <1>2, <1>5, <1>6, <2>1, <2>2 DEF FileTyped
  <2>4. \A g \in F : Kept(g)' /\ Due(g)'
    BY <1>5, <1>8, <2>1 DEF Kept, Due
  <2>5. \A g \in F : Sends(g)' <=> Sends(g)
    BY <1>8, <2>1 DEF Sends, SendSteps
  <2>6. ASSUME NEW o \in Side
        PROVE  Occupied(F, from, o)'
    <3>1. Occupied(F, from, o) /\ active[o] \in F \cup {"none"}
      BY DEF FileInv, FileTyped
    <3> QED BY <1>5, <2>1, <2>5, <3>1 DEF Occupied, Busy, Receives
  <2>7. Queued(F, from, p)'
    BY <1>7, <1>10, <2>1, <2>2 DEF Queued, Listed
  <2>8. ASSUME NEW o \in Side, o # p
        PROVE  Queued(F, from, o)'
    <3>1. Queued(F, from, o) /\ queue[o] \in Seq(F)
      BY DEF FileInv, FileTyped
    <3>2. \A i \in 1 .. Len(queue[o]) : queue[o][i] \in F \ {f}
      BY <1>1, <2>8, <3>1 DEF Queued
    <3>3. \A i \in 1 .. Len(queue[o]) : /\ from[queue[o][i]] = o
                                        /\ snd'[queue[o][i]].st = "queued"
      BY <1>6, <2>1, <3>1, <3>2 DEF Queued
    <3>4. queue[o] # <<>> => \/ active'[o] # "none"
                             \/ \E g \in F : from[g] # o /\ rcv'[g].st = "leaving"
      BY <1>5, <2>1, <3>1 DEF Queued
    <3> QED BY <2>2, <2>8, <3>1, <3>3, <3>4 DEF Queued
  <2>9. \A o \in Side : Charged(F, from, m, o)'
    BY <1>5, SameBudget DEF FileInv
  <2> QED BY <2>3, <2>4, <2>6, <2>7, <2>8, <2>9 DEF FileInv
<1> QED BY <1>9, <1>10


LEMMA CancelQueuedStep ==
  ASSUME NEW CONSTANT F, NEW CONSTANT from, NEW CONSTANT m, FileAssumption(F, from, m),
         FileInv(F, from, m), NEW f \in F, Moving(F, from, m)!CancelOutgoing(f),
         active[from[f]] # f
  PROVE  FileInv(F, from, m)'
<1>1. PICK p \in Side : p = from[f]
  BY Ways
<1>2. /\ snd \in [F -> Sender(m)] /\ line \in [F -> FileLine] /\ rcv \in [F -> Receiver]
      /\ queue[p] \in Seq(F) /\ Queued(F, from, p) /\ FileTyped(F, m)
  BY DEF FileInv, FileTyped
<1>3. PICK i \in 1 .. Len(queue[p]) :
        /\ queue[p][i] = f
        /\ queue' = [queue EXCEPT ![p] = SubSeq(queue[p], 1, i - 1)
                                           \o SubSeq(queue[p], i + 1, Len(queue[p]))]
  <2>1. DOMAIN queue[p] = 1 .. Len(queue[p])
    BY <1>2
  <2>2. \E i \in DOMAIN queue[p] :
          /\ queue[p][i] = f
          /\ queue' = [queue EXCEPT ![p] = SubSeq(queue[p], 1, i - 1)
                                             \o SubSeq(queue[p], i + 1, Len(queue[p]))]
    BY <1>1 DEF Moving!CancelOutgoing
  <2> QED BY <2>1, <2>2
<1>4. /\ snd[f].st = "queued" /\ snd' = [snd EXCEPT ![f].st = "failed"]
      /\ session' = session /\ joined' = joined /\ budget' = budget /\ taken' = taken
      /\ active' = active /\ rcv' = rcv /\ line' = line /\ file' = file
  BY <1>1 DEF Moving!CancelOutgoing, Moving!quiet
<1>5. PICK q : q = SubSeq(queue[p], 1, i - 1) \o SubSeq(queue[p], i + 1, Len(queue[p]))
  OBVIOUS
<1>6. PICK n \in Nat : n = Len(queue[p])
  BY <1>2
<1>7. /\ q \in Seq(F) /\ Len(q) = n - 1
      /\ \A j \in 1 .. n - 1 : q[j] = IF j < i THEN queue[p][j] ELSE queue[p][j + 1]
  <2>1. PICK u, v : u = SubSeq(queue[p], 1, i - 1) /\ v = SubSeq(queue[p], i + 1, n)
    OBVIOUS
  <2>2. /\ u \in Seq(F) /\ Len(u) = i - 1
        /\ \A j \in 1 .. i - 1 : u[j] = queue[p][j]
    BY <1>2, <1>6, <2>1
  <2>3. /\ v \in Seq(F) /\ Len(v) = n - i
        /\ \A j \in 1 .. n - i : v[j] = queue[p][i + j]
    BY <1>2, <1>6, <2>1
  <2>4. q = u \o v
    BY <1>5, <1>6, <2>1
  <2>5. /\ q \in Seq(F) /\ Len(q) = n - 1
        /\ \A j \in 1 .. n - 1 : q[j] = IF j <= i - 1 THEN u[j] ELSE v[j - (i - 1)]
    <3>1. /\ u \o v \in Seq(F) /\ Len(u \o v) = Len(u) + Len(v)
          /\ \A j \in 1 .. Len(u) + Len(v) :
               (u \o v)[j] = IF j <= Len(u) THEN u[j] ELSE v[j - Len(u)]
      BY <2>2, <2>3, ConcatProperties
    <3>2. Len(u) + Len(v) = n - 1
      BY <1>6, <2>2, <2>3
    <3> QED BY <2>2, <2>4, <3>1, <3>2
  <2>6. ASSUME NEW j \in 1 .. n - 1
        PROVE  q[j] = IF j < i THEN queue[p][j] ELSE queue[p][j + 1]
    <3>1. CASE j < i
      BY <1>6, <2>2, <2>5, <3>1
    <3>2. CASE ~(j < i)
      <4>1. j - (i - 1) \in 1 .. n - i /\ i + (j - (i - 1)) = j + 1
        BY <1>6, <3>2
      <4> QED BY <2>3, <2>5, <3>2, <4>1
    <3> QED BY <3>1, <3>2
  <2> QED BY <2>5, <2>6
<1>8. /\ snd' \in [F -> Sender(m)] /\ snd'[f].st = "failed"
      /\ snd'[f].session = snd[f].session
      /\ \A g \in F \ {f} : snd'[g] = snd[g]
  BY <1>2, <1>4 DEF Sender
<1>9. /\ queue' \in [Side -> Seq(F)] /\ queue'[p] = q
      /\ \A o \in Side \ {p} : queue'[o] = queue[o]
  BY <1>2, <1>3, <1>5, <1>7 DEF FileTyped
<1>10. FileTyped(F, m)'
  BY <1>2, <1>4, <1>8, <1>9 DEF FileTyped
<1>11. ASSUME NEW g \in F
       PROVE  Kept(g)' /\ Due(g)' /\ (Sends(g)' <=> Sends(g))
  <2>1. Kept(g) /\ Due(g)
    BY DEF FileInv
  <2>2. CASE g # f
    BY <1>4, <1>8, <2>1, <2>2 DEF Kept, Due, Sends
  <2>3. CASE g = f
    BY <1>4, <1>8, <2>1, <2>3 DEF Kept, Due, KeptAs, DueAs, Sends
  <2> QED BY <2>2, <2>3
<1>12. ASSUME NEW o \in Side
       PROVE  Occupied(F, from, o)'
  <2>1. Occupied(F, from, o) /\ active[o] \in F \cup {"none"}
    BY DEF FileInv, FileTyped
  <2> QED BY <1>4, <1>11, <2>1 DEF Occupied, Busy, Receives
<1>13. \A o \in Side : Charged(F, from, m, o)'
  BY <1>4, SameBudget DEF FileInv
<1>14. Queued(F, from, p)'
  <2>1. \A j, k \in 1 .. n : queue[p][j] = queue[p][k] => j = k
    BY <1>2, <1>6 DEF Queued
  <2>2. ASSUME NEW j \in 1 .. n - 1
        PROVE  \E k \in 1 .. n : k # i /\ q[j] = queue[p][k] /\ k = IF j < i THEN j ELSE j + 1
    BY <1>6, <1>7
  <2>3. \A j \in 1 .. n - 1 : from[q[j]] = p /\ q[j] \in F \ {f} /\ snd[q[j]].st = "queued"
    <3>1. SUFFICES ASSUME NEW j \in 1 .. n - 1
                   PROVE  from[q[j]] = p /\ q[j] \in F \ {f} /\ snd[q[j]].st = "queued"
      OBVIOUS
    <3>2. PICK k \in 1 .. n : k # i /\ q[j] = queue[p][k]
      BY <2>2
    <3>3. queue[p][k] # f
      BY <1>3, <1>6, <2>1, <3>2
    <3> QED BY <1>2, <1>6, <3>2, <3>3 DEF Queued
  <2>4. \A j, k \in 1 .. n - 1 : q[j] = q[k] => j = k
    <3>1. SUFFICES ASSUME NEW j \in 1 .. n - 1, NEW k \in 1 .. n - 1, q[j] = q[k]
                   PROVE  j = k
      OBVIOUS
    <3>2. PICK u \in 1 .. n : q[j] = queue[p][u] /\ u = IF j < i THEN j ELSE j + 1
      BY <2>2
    <3>3. PICK v \in 1 .. n : q[k] = queue[p][v] /\ v = IF k < i THEN k ELSE k + 1
      BY <2>2
    <3>4. u = v
      BY <2>1, <3>1, <3>2, <3>3
    <3> QED BY <1>6, <3>2, <3>3, <3>4
  <2>5. \A j \in 1 .. Len(q) : from[q[j]] = p /\ snd'[q[j]].st = "queued"
    BY <1>7, <1>8, <2>3
  <2>6. q # <<>> => queue[p] # <<>>
    BY <1>2, <1>3, <1>6
  <2> QED BY <1>2, <1>4, <1>7, <1>9, <2>4, <2>5, <2>6 DEF Queued
<1>15. ASSUME NEW o \in Side, o # p
       PROVE  Queued(F, from, o)'
  <2>1. Queued(F, from, o) /\ queue[o] \in Seq(F)
    BY DEF FileInv, FileTyped
  <2>2. \A j \in 1 .. Len(queue[o]) : queue[o][j] \in F \ {f}
    BY <1>1, <1>15, <2>1 DEF Queued
  <2>3. \A j \in 1 .. Len(queue[o]) : from[queue[o][j]] = o /\ snd'[queue[o][j]].st = "queued"
    BY <1>8, <2>1, <2>2 DEF Queued
  <2> QED BY <1>4, <1>9, <1>15, <2>1, <2>3 DEF Queued
<1> QED BY <1>10, <1>11, <1>12, <1>13, <1>14, <1>15 DEF FileInv

\* A receiver takes or frees its page.
LEMMA ReceiverPage ==
  ASSUME NEW CONSTANT F, NEW CONSTANT from, NEW CONSTANT m, FileAssumption(F, from, m),
         FileInv(F, from, m), NEW f \in F, NEW p \in Side, p = Mate(from[f]),
         queue' = queue, snd' = snd,
         session' = session, joined' = joined, budget' = budget, taken' = taken,
         rcv' \in [F -> Receiver], line' \in [F -> FileLine], file' \in [F -> OnDisk],
         active' \in [Side -> F \cup {"none"}],
         \A g \in F \ {f} : rcv'[g] = rcv[g] /\ line'[g] = line[g] /\ file'[g] = file[g],
         \A o \in Side \ {p} : active'[o] = active[o],
         Kept(f)', Due(f)', Occupied(F, from, p)',
         rcv[f].st # "leaving",
         active'[p] = "none" => active[p] = "none" \/ rcv'[f].st = "leaving"
  PROVE  FileInv(F, from, m)'
<1>1. p # from[f] /\ Side = {from[f], p}
  BY Ways
<1>2. FileTyped(F, m)'
  BY DEF FileInv, FileTyped
<1>3. ASSUME NEW g \in F
      PROVE  Kept(g)' /\ Due(g)'
  <2>1. CASE g # f
    BY <2>1 DEF FileInv, Kept, Due
  <2> QED BY <2>1
<1>4. ASSUME NEW o \in Side
      PROVE  Occupied(F, from, o)'
  <2>1. CASE o = p
    BY <2>1
  <2>2. CASE o # p
    <3>1. Occupied(F, from, o) /\ active[o] \in F \cup {"none"} /\ active'[o] = active[o]
      BY <2>2 DEF FileInv, FileTyped
    <3>2. \A g \in F : from[g] # o => rcv'[g] = rcv[g]
      BY <1>1, <2>2
    <3> QED BY <3>1, <3>2 DEF Occupied, Sends, Busy, Receives
  <2> QED BY <2>1, <2>2
<1>5. ASSUME NEW o \in Side
      PROVE  Queued(F, from, o)'
  <2>1. Queued(F, from, o)
    BY DEF FileInv
  <2>2. queue[o] # <<>> => \/ active'[o] # "none"
                           \/ \E g \in F : from[g] # o /\ rcv'[g].st = "leaving"
    <3>1. CASE o = p
      <4>1. (\E g \in F : from[g] # o /\ rcv[g].st = "leaving")
              => \E g \in F : from[g] # o /\ rcv'[g].st = "leaving"
        OBVIOUS
      <4>2. from[f] # o
        BY <1>1, <3>1
      <4> QED BY <2>1, <3>1, <4>1, <4>2 DEF Queued
    <3>2. CASE o # p
      <4>1. \A g \in F : from[g] # o => rcv'[g] = rcv[g]
        BY <1>1, <3>2
      <4> QED BY <2>1, <3>2, <4>1 DEF Queued
    <3> QED BY <3>1, <3>2
  <2> QED BY <2>1, <2>2 DEF Queued
<1>6. \A o \in Side : Charged(F, from, m, o)'
  BY SameBudget DEF FileInv
<1> QED BY <1>2, <1>3, <1>4, <1>5, <1>6 DEF FileInv


LEMMA ReadOfferStep ==
  ASSUME NEW CONSTANT F, NEW CONSTANT from, NEW CONSTANT m, FileAssumption(F, from, m),
         FileInv(F, from, m), NEW f \in F, Moving(F, from, m)!ReadOffer(f)
  PROVE  FileInv(F, from, m)'
<1>1. PICK p \in Side : p = Mate(from[f]) /\ p # from[f] /\ Side = {from[f], p}
  BY Ways
<1>2. /\ snd \in [F -> Sender(m)] /\ line \in [F -> FileLine] /\ rcv \in [F -> Receiver]
      /\ active \in [Side -> F \cup {"none"}] /\ file \in [F -> OnDisk]
      /\ Occupied(F, from, p) /\ Kept(f) /\ Due(f)
  BY DEF FileInv, FileTyped
<1>3. Moving(F, from, m)!To(f) = p
  BY <1>1, Ways
<1>4. PICK takes \in BOOLEAN :
        /\ takes => active[p] = "none"
        /\ rcv' = [rcv EXCEPT ![f].st = IF takes THEN "checking" ELSE "ending"]
        /\ active' = [active EXCEPT ![p] = IF takes THEN f ELSE active[p]]
  <2>1. PICK ours \in BOOLEAN : ours = (session[p] # 0 /\ snd[f].session = session[p])
    OBVIOUS
  <2>2. /\ rcv' = [rcv EXCEPT ![f].st = IF ours /\ active[p] = "none" THEN "checking"
                                        ELSE "ending"]
        /\ active' = [active EXCEPT ![p] = IF ours /\ active[p] = "none" THEN f
                                           ELSE active[p]]
    BY <1>3, <2>1 DEF Moving!ReadOffer
  <2>3. PICK t \in BOOLEAN : t = (ours /\ active[p] = "none")
    OBVIOUS
  <2> QED BY <2>2, <2>3
<1>5. /\ rcv[f].st = "none" /\ line[f].down # <<>>
      /\ snd' = snd /\ queue' = queue /\ file' = file
      /\ session' = session /\ joined' = joined /\ budget' = budget /\ taken' = taken
  BY DEF Moving!ReadOffer, Moving!ReceiverReads, Moving!quiet
<1>6. \/ line' = [line EXCEPT ![f].down = Tail(line[f].down), ![f].up = line[f].up]
      \/ line' = [line EXCEPT ![f].down = Tail(line[f].down), ![f].up = <<"REJECT">>]
  BY DEF Moving!ReadOffer
<1>7. /\ line' \in [F -> FileLine]
      /\ Confirms(line'[f]) => Confirms(line[f])
      /\ \A g \in F \ {f} : line'[g] = line[g]
  <2>1. Tail(line[f].down) \in Seq(FileFrame) /\ line[f].up \in Seq(FileFrame)
    BY <1>2, <1>5 DEF FileLine
  <2>2. <<"REJECT">> \in Seq(FileFrame)
    BY DEF FileFrame
  <2>3. PICK u \in Seq(FileFrame) :
          /\ line' = [line EXCEPT ![f].down = Tail(line[f].down), ![f].up = u]
          /\ u = line[f].up \/ u = <<"REJECT">>
    BY <1>6, <2>1, <2>2
  <2>4. /\ line' \in [F -> FileLine] /\ line'[f].up = u
        /\ \A g \in F \ {f} : line'[g] = line[g]
    BY <1>2, <2>1, <2>3 DEF FileLine
  <2>5. u = <<"REJECT">> => ~Confirms(line'[f])
    BY <2>4 DEF Confirms
  <2>6. u = line[f].up => (Confirms(line'[f]) => Confirms(line[f]))
    BY <2>4 DEF Confirms
  <2> QED BY <2>3, <2>4, <2>5, <2>6
<1>8. /\ rcv' \in [F -> Receiver]
      /\ rcv'[f].st = IF takes THEN "checking" ELSE "ending"
      /\ \A g \in F \ {f} : rcv'[g] = rcv[g]
  <2>1. [rcv[f] EXCEPT !.st = IF takes THEN "checking" ELSE "ending"] \in Receiver
    BY <1>2 DEF Receiver
  <2>2. rcv' = [rcv EXCEPT ![f] = [rcv[f] EXCEPT !.st = IF takes THEN "checking" ELSE "ending"]]
    BY <1>4
  <2> QED BY <1>2, <2>1, <2>2 DEF Receiver
<1>9. /\ active' \in [Side -> F \cup {"none"}]
      /\ active'[p] = IF takes THEN f ELSE active[p]
      /\ \A o \in Side \ {p} : active'[o] = active[o]
  BY <1>2, <1>4
<1>10. Kept(f)'
  BY <1>2, <1>5, <1>7, <1>8 DEF Kept, KeptAs
<1>11. Due(f)'
  BY <1>2, <1>5, <1>8 DEF Due, DueAs
<1>12. Occupied(F, from, p)'
  <2>1. \A g \in F : Sends(g)' <=> Sends(g)
    BY <1>5 DEF Sends
  <2>2. \A g \in F \ {f} : (Busy(g)' <=> Busy(g)) /\ (Receives(g)' <=> Receives(g))
    BY <1>8 DEF Busy, Receives
  <2>3. Receives(f)' /\ (Busy(f)' <=> takes) /\ ~Receives(f)
    BY <1>5, <1>8 DEF Busy, Receives
  <2>4. CASE takes
    <3>1. \A g \in F : /\ from[g] = p => ~Sends(g)
                       /\ from[g] # p => ~Busy(g)
      BY <1>2, <1>4, <2>4 DEF Occupied, FileAssumption
    <3>2. active'[p] = f /\ from[f] # p
      BY <1>1, <1>9, <2>4
    <3>3. \A g \in F : \/ from[g] = p /\ Sends(g)'
                       \/ from[g] # p /\ Busy(g)'
                       => g = f
      BY <2>1, <2>2, <3>1
    <3>4. rcv'[active'[p]].st = "checking"
      BY <1>8, <2>4, <3>2
    <3> QED BY <3>2, <3>3, <3>4 DEF Occupied, Receives
  <2>5. CASE ~takes
    <3>1. active'[p] = active[p] /\ active[p] \in F \cup {"none"}
      BY <1>2, <1>9, <2>5
    <3>2. \A g \in F : Busy(g)' => Busy(g)
      BY <2>2, <2>3, <2>5
    <3>3. \A g \in F : Receives(g) => Receives(g)'
      BY <2>2, <2>3
    <3> QED BY <1>2, <2>1, <3>1, <3>2, <3>3 DEF Occupied
  <2> QED BY <2>4, <2>5
<1>13. active'[p] = "none" => active[p] = "none"
  BY <1>4, <1>9 DEF FileAssumption
<1> QED
  BY <1>1, <1>2, <1>5, <1>7, <1>8, <1>9, <1>10, <1>11, <1>12, <1>13, ReceiverPage

LEMMA CloseReceiveStep ==
  ASSUME NEW CONSTANT F, NEW CONSTANT from, NEW CONSTANT m, FileAssumption(F, from, m),
         FileInv(F, from, m), NEW f \in F, Moving(F, from, m)!CloseReceive(f)
  PROVE  FileInv(F, from, m)'
<1>1. PICK p \in Side : p = Mate(from[f]) /\ p # from[f] /\ Side = {from[f], p}
  BY Ways
<1>2. /\ snd \in [F -> Sender(m)] /\ line \in [F -> FileLine] /\ rcv \in [F -> Receiver]
      /\ active \in [Side -> F \cup {"none"}] /\ file \in [F -> OnDisk]
      /\ Occupied(F, from, p) /\ Kept(f) /\ Due(f)
  BY DEF FileInv, FileTyped
<1>3. Moving(F, from, m)!To(f) = p
  BY <1>1, Ways
<1>4. /\ rcv[f].st = "ending"
      /\ file' = [file EXCEPT ![f] = IF file[f] = "partial" THEN "removed" ELSE file[f]]
      /\ line' = [line EXCEPT ![f].down = <<>>]
      /\ active' = [active EXCEPT ![p] = IF active[p] = f THEN "none" ELSE active[p]]
      /\ rcv' = [rcv EXCEPT ![f].st = "leaving", ![f].auto = FALSE, ![f].cancelled = FALSE]
      /\ snd' = snd /\ queue' = queue
      /\ session' = session /\ joined' = joined /\ budget' = budget /\ taken' = taken
  BY <1>3 DEF Moving!CloseReceive, Moving!quiet
<1>5. /\ line' \in [F -> FileLine] /\ line'[f].up = line[f].up
      /\ \A g \in F \ {f} : line'[g] = line[g]
  <2>1. <<>> \in Seq(FileFrame)
    OBVIOUS
  <2> QED BY <1>2, <1>4, <2>1 DEF FileLine
<1>6. /\ rcv' \in [F -> Receiver] /\ rcv'[f].st = "leaving"
      /\ \A g \in F \ {f} : rcv'[g] = rcv[g]
  <2>1. PICK r : r = [rcv[f] EXCEPT !.st = "leaving", !.auto = FALSE, !.cancelled = FALSE]
    OBVIOUS
  <2>2. r \in Receiver /\ r.st = "leaving"
    BY <1>2, <2>1 DEF Receiver
  <2>3. rcv' = [rcv EXCEPT ![f] = r]
    BY <1>4, <2>1
  <2> QED BY <1>2, <2>2, <2>3
<1>7. /\ file' \in [F -> OnDisk]
      /\ file'[f] = IF file[f] = "partial" THEN "removed" ELSE file[f]
      /\ \A g \in F \ {f} : file'[g] = file[g]
  BY <1>2, <1>4 DEF OnDisk
<1>8. /\ active' \in [Side -> F \cup {"none"}]
      /\ active'[p] = IF active[p] = f THEN "none" ELSE active[p]
      /\ \A o \in Side \ {p} : active'[o] = active[o]
  BY <1>2, <1>4
<1>9. Kept(f)'
  BY <1>2, <1>4, <1>5, <1>6, <1>7 DEF Kept, KeptAs, Confirms
<1>10. Due(f)'
  BY <1>2, <1>4, <1>6 DEF Due, DueAs
<1>11. Occupied(F, from, p)'
  <2>1. \A g \in F : Sends(g)' <=> Sends(g)
    BY <1>4 DEF Sends
  <2>2. \A g \in F \ {f} : (Busy(g)' <=> Busy(g)) /\ (Receives(g)' <=> Receives(g))
    BY <1>6 DEF Busy, Receives
  <2>3. ~Busy(f)' /\ ~Busy(f)
    BY <1>4, <1>6 DEF Busy, Receives
  <2>4. CASE active[p] = f
    BY <1>1, <1>2, <1>8, <2>1, <2>2, <2>3, <2>4 DEF Occupied
  <2>5. CASE active[p] # f
    BY <1>2, <1>8, <2>1, <2>2, <2>3, <2>5 DEF Occupied
  <2> QED BY <2>4, <2>5
<1> QED
  BY <1>1, <1>2, <1>4, <1>5, <1>6, <1>7, <1>8, <1>9, <1>10, <1>11, ReceiverPage

LEMMA EndSessionStep ==
  ASSUME NEW CONSTANT F, NEW CONSTANT from, NEW CONSTANT m, FileAssumption(F, from, m),
         FileInv(F, from, m), NEW p \in Side, Moving(F, from, m)!EndSession(p)
  PROVE  FileInv(F, from, m)'
<1>1. /\ snd \in [F -> Sender(m)] /\ rcv \in [F -> Receiver]
      /\ queue \in [Side -> Seq(F)] /\ active \in [Side -> F \cup {"none"}]
      /\ session \in [Side -> 0 .. m] /\ budget \in [Side -> 0 .. AutoItems]
      /\ Occupied(F, from, p) /\ Queued(F, from, p) /\ Charged(F, from, m, p)
      /\ FileTyped(F, m)
  BY DEF FileInv, FileTyped
<1>2. /\ queue' = [queue EXCEPT ![p] = <<>>]
      /\ session' = [session EXCEPT ![p] = 0] /\ budget' = [budget EXCEPT ![p] = 0]
      /\ joined' = joined /\ active' = active /\ line' = line /\ taken' = taken
      /\ file' = file
  BY DEF Moving!EndSession, Moving!Cancelled
<1>3. /\ queue' \in [Side -> Seq(F)] /\ queue'[p] = <<>>
      /\ \A o \in Side \ {p} : queue'[o] = queue[o]
  <2>1. <<>> \in Seq(F)
    OBVIOUS
  <2> QED BY <1>1, <1>2, <2>1
<1>4. \A g \in F : (\E i \in DOMAIN queue[p] : g = queue[p][i])
                     => from[g] = p /\ snd[g].st = "queued"
  <2>1. DOMAIN queue[p] = 1 .. Len(queue[p])
    BY <1>1
  <2> QED BY <1>1, <2>1 DEF Queued
<1>5. \A g \in F : \/ snd'[g] = snd[g]
                   \/ /\ from[g] = p /\ snd[g].st = "queued"
                      /\ snd'[g] = [snd[g] EXCEPT !.st = "failed"]
                   \/ /\ from[g] = p /\ Sends(g)
                      /\ snd'[g] = [snd[g] EXCEPT !.st = "cancelled"]
  <2>1. SUFFICES ASSUME NEW g \in F
                 PROVE  \/ snd'[g] = snd[g]
                        \/ /\ from[g] = p /\ snd[g].st = "queued"
                           /\ snd'[g] = [snd[g] EXCEPT !.st = "failed"]
                        \/ /\ from[g] = p /\ Sends(g)
                           /\ snd'[g] = [snd[g] EXCEPT !.st = "cancelled"]
    OBVIOUS
  <2>2. snd'[g] = IF g \in {queue[p][i] : i \in DOMAIN queue[p]}
                  THEN [snd[g] EXCEPT !.st = "failed"]
                  ELSE IF active[p] # "none" /\ from[active[p]] = p /\ g = active[p]
                       THEN [snd[g] EXCEPT !.st = "cancelled"]
                       ELSE snd[g]
    BY DEF Moving!EndSession, Moving!Cancelled
  <2>3. CASE g \in {queue[p][i] : i \in DOMAIN queue[p]}
    <3>1. from[g] = p /\ snd[g].st = "queued"
      BY <1>4, <2>3
    <3> QED BY <2>2, <2>3, <3>1
  <2>4. CASE /\ g \notin {queue[p][i] : i \in DOMAIN queue[p]}
             /\ active[p] # "none" /\ from[active[p]] = p /\ g = active[p]
    BY <1>1, <2>2, <2>4 DEF Occupied
  <2> QED BY <2>2, <2>3, <2>4
<1>6. \A g \in F : \/ rcv'[g] = rcv[g]
                   \/ /\ from[g] # p /\ Receives(g)
                      /\ rcv'[g] = [rcv[g] EXCEPT !.cancelled = TRUE,
                                      !.st = IF rcv[g].st = "deciding" THEN "ending"
                                             ELSE rcv[g].st]
  <2>1. SUFFICES ASSUME NEW g \in F
                 PROVE  \/ rcv'[g] = rcv[g]
                        \/ /\ from[g] # p /\ Receives(g)
                           /\ rcv'[g] = [rcv[g] EXCEPT !.cancelled = TRUE,
                                           !.st = IF rcv[g].st = "deciding" THEN "ending"
                                                  ELSE rcv[g].st]
    OBVIOUS
  <2>2. rcv'[g] = IF active[p] # "none" /\ from[active[p]] # p /\ g = active[p]
                  THEN [rcv[g] EXCEPT !.cancelled = TRUE,
                                      !.st = IF rcv[g].st = "deciding" THEN "ending"
                                             ELSE rcv[g].st]
                  ELSE rcv[g]
    BY DEF Moving!EndSession, Moving!Cancelled
  <2>3. CASE active[p] # "none" /\ from[active[p]] # p /\ g = active[p]
    <3>1. Receives(g) /\ from[g] # p
      <4>1. Receives(active[p])
        BY <1>1, <2>3 DEF Occupied
      <4> QED BY <2>3, <4>1
    <3>2. rcv'[g] = [rcv[g] EXCEPT !.cancelled = TRUE,
                                   !.st = IF rcv[g].st = "deciding" THEN "ending"
                                          ELSE rcv[g].st]
      BY <2>2, <2>3
    <3> QED BY <3>1, <3>2
  <2> QED BY <2>2, <2>3
<1>7. snd' \in [F -> Sender(m)]
  <2>1. ASSUME NEW g \in F PROVE snd'[g] \in Sender(m)
    <3>1. snd[g] \in Sender(m)
      BY <1>1
    <3>2. /\ [snd[g] EXCEPT !.st = "failed"] \in Sender(m)
          /\ [snd[g] EXCEPT !.st = "cancelled"] \in Sender(m)
      BY <3>1 DEF Sender
    <3> QED BY <1>5, <3>1, <3>2
  <2>2. snd' = [g \in F |-> snd'[g]]
    BY DEF Moving!EndSession, Moving!Cancelled
  <2> QED BY <2>1, <2>2
<1>8. rcv' \in [F -> Receiver]
  <2>1. \A g \in F : rcv'[g] \in Receiver
    <3>1. SUFFICES ASSUME NEW g \in F PROVE rcv'[g] \in Receiver
      OBVIOUS
    <3>2. rcv[g] \in Receiver
      BY <1>1
    <3>3. [rcv[g] EXCEPT !.cancelled = TRUE,
             !.st = IF rcv[g].st = "deciding" THEN "ending" ELSE rcv[g].st] \in Receiver
      BY <3>2 DEF Receiver
    <3> QED BY <1>6, <3>2, <3>3
  <2>2. rcv' = [g \in F |-> rcv'[g]]
    BY DEF Moving!EndSession, Moving!Cancelled
  <2> QED BY <2>1, <2>2
<1>9. /\ session' \in [Side -> 0 .. m] /\ session'[p] = 0
      /\ budget' \in [Side -> 0 .. AutoItems] /\ budget'[p] = 0
      /\ \A o \in Side \ {p} : session'[o] = session[o] /\ budget'[o] = budget[o]
  BY <1>1, <1>2, FileBounds DEF FileAssumption
<1>10. FileTyped(F, m)'
  BY <1>1, <1>2, <1>3, <1>7, <1>8, <1>9 DEF FileTyped
<1>11. \A g \in F : /\ Sends(g)' <=> Sends(g)
                    /\ snd'[g].st \in {"sent", "dialing"} => snd'[g].st = snd[g].st
                    /\ snd'[g].session = snd[g].session
                    /\ from[g] # p => snd'[g] = snd[g]
  BY <1>1, <1>5 DEF Sends, Sender
<1>12. \A g \in F : /\ Busy(g)' => Busy(g)
                    /\ Receives(g) => Receives(g)'
                    /\ rcv[g].st = "leaving" => rcv'[g].st = "leaving"
                    /\ rcv'[g].st = rcv[g].st \/ (rcv[g].st = "deciding" /\ rcv'[g].st = "ending")
  BY <1>1, <1>6 DEF Receiver, Busy, Receives
<1>13. ASSUME NEW g \in F
       PROVE  Kept(g)' /\ Due(g)'
  <2>1. Kept(g) /\ Due(g)
    BY DEF FileInv
  <2>2. Kept(g)'
    BY <1>2, <1>11, <1>12, <2>1 DEF Kept, KeptAs
  <2>3. Due(g)'
    BY <1>2, <1>11, <1>12, <2>1 DEF Due, DueAs
  <2> QED BY <2>2, <2>3
<1>14. ASSUME NEW o \in Side
       PROVE  Occupied(F, from, o)'
  <2>1. Occupied(F, from, o) /\ active[o] \in F \cup {"none"}
    BY DEF FileInv, FileTyped
  <2> QED BY <1>2, <1>11, <1>12, <2>1 DEF Occupied
<1>15. ASSUME NEW o \in Side
       PROVE  Queued(F, from, o)'
  <2>1. CASE o = p
    <3>1. Len(<<>>) = 0
      OBVIOUS
    <3> QED BY <1>3, <2>1, <3>1 DEF Queued
  <2>2. CASE o # p
    <3>1. Queued(F, from, o) /\ queue[o] \in Seq(F) /\ queue'[o] = queue[o]
      BY <1>3, <2>2 DEF FileInv, FileTyped
    <3>2. \A i \in 1 .. Len(queue[o]) : queue[o][i] \in F
      BY <3>1
    <3>3. \A i \in 1 .. Len(queue[o]) : /\ from[queue[o][i]] = o
                                        /\ snd'[queue[o][i]].st = "queued"
      BY <1>11, <2>2, <3>1, <3>2 DEF Queued
    <3> QED BY <1>2, <1>12, <3>1, <3>3 DEF Queued
  <2> QED BY <2>1, <2>2
<1>16. ASSUME NEW o \in Side
       PROVE  Charged(F, from, m, o)'
  <2>1. \A s : Paid(F, from, o, s)' = Paid(F, from, o, s)
    BY <1>2 DEF Paid
  <2>2. Charged(F, from, m, o)
    BY DEF FileInv
  <2> QED BY <1>2, <1>9, <2>1, <2>2 DEF Charged
<1> QED BY <1>10, <1>13, <1>14, <1>15, <1>16 DEF FileInv


LEMMA SessionSteps ==
  ASSUME NEW CONSTANT F, NEW CONSTANT from, NEW CONSTANT m, FileAssumption(F, from, m),
         FileInv(F, from, m), NEW p \in Side,
         Moving(F, from, m)!DropSession(p) \/ Moving(F, from, m)!Join(p)
  PROVE  FileInv(F, from, m)'
<1>1. /\ session \in [Side -> 0 .. m] /\ joined \in [Side -> 1 .. m]
      /\ budget \in [Side -> 0 .. AutoItems] /\ Charged(F, from, m, p)
      /\ FileTyped(F, m)
  BY DEF FileInv, FileTyped
<1>2. /\ queue' = queue /\ active' = active /\ snd' = snd /\ rcv' = rcv /\ line' = line
      /\ taken' = taken /\ file' = file
      /\ budget' = [budget EXCEPT ![p] = 0]
  BY DEF Moving!DropSession, Moving!Join
<1>3. /\ budget' \in [Side -> 0 .. AutoItems] /\ budget'[p] = 0
      /\ \A o \in Side \ {p} : budget'[o] = budget[o]
  BY <1>1, <1>2, FileBounds
<1>4. PICK n \in 1 .. m : n = joined[p]
  BY <1>1
<1>5. \/ /\ session' \in [Side -> 0 .. m] /\ session'[p] = 0
         /\ joined' \in [Side -> 1 .. m] /\ joined'[p] = n
         /\ \A o \in Side \ {p} : session'[o] = session[o] /\ joined'[o] = joined[o]
      \/ /\ session' \in [Side -> 0 .. m] /\ session'[p] = n + 1 /\ n < m
         /\ joined' \in [Side -> 1 .. m] /\ joined'[p] = n + 1
         /\ \A o \in Side \ {p} : session'[o] = session[o] /\ joined'[o] = joined[o]
  <2>1. CASE Moving(F, from, m)!DropSession(p)
    <3>1. session' = [session EXCEPT ![p] = 0] /\ joined' = joined
      BY <2>1 DEF Moving!DropSession
    <3>2. 0 \in 0 .. m
      BY DEF FileAssumption
    <3> QED BY <1>1, <1>4, <3>1, <3>2
  <2>2. CASE Moving(F, from, m)!Join(p)
    <3>1. /\ session' = [session EXCEPT ![p] = n + 1]
          /\ joined' = [joined EXCEPT ![p] = n + 1]
          /\ n < m
      BY <1>1, <1>4, <2>2 DEF Moving!Join
    <3>2. n + 1 \in 1 .. m /\ n + 1 \in 0 .. m
      BY <3>1 DEF FileAssumption
    <3> QED BY <1>1, <1>4, <3>1, <3>2
  <2> QED BY <2>1, <2>2
<1>6. FileTyped(F, m)'
  BY <1>1, <1>2, <1>3, <1>5 DEF FileTyped
<1>7. \A g \in F : Kept(g)' /\ Due(g)'
  BY <1>2 DEF FileInv, Kept, Due
<1>8. \A o \in Side : Occupied(F, from, o)' /\ Queued(F, from, o)'
  <2>1. ASSUME NEW o \in Side
        PROVE  Occupied(F, from, o)' /\ Queued(F, from, o)'
    <3>1. Occupied(F, from, o) /\ Queued(F, from, o)
      BY DEF FileInv
    <3>2. Occupied(F, from, o)'
      BY <1>2, <3>1 DEF Occupied, Sends, Busy, Receives
    <3>3. Queued(F, from, o)'
      BY <1>2, <3>1 DEF Queued
    <3> QED BY <3>2, <3>3
  <2> QED BY <2>1
<1>9. \A o, s : Paid(F, from, o, s)' = Paid(F, from, o, s)
  BY <1>2 DEF Paid
<1>10. ASSUME NEW o \in Side, o # p
       PROVE  Charged(F, from, m, o)'
  <2>1. Charged(F, from, m, o)
    BY DEF FileInv
  <2> QED BY <1>3, <1>5, <1>9, <1>10, <2>1 DEF Charged
<1>11. Charged(F, from, m, p)'
  <2>1. \A s \in 1 .. m : /\ Cardinality(Paid(F, from, p, s)) <= AutoItems
                          /\ s > n => Paid(F, from, p, s) = {}
    BY <1>1, <1>4 DEF Charged
  <2>2. CASE session'[p] = 0 /\ joined'[p] = n
    BY <1>3, <1>9, <2>1, <2>2 DEF Charged
  <2>3. CASE session'[p] = n + 1 /\ joined'[p] = n + 1 /\ n < m
    <3>1. n + 1 \in 1 .. m /\ n + 1 # 0
      BY <2>3 DEF FileAssumption
    <3>2. Paid(F, from, p, n + 1)' = {}
      BY <1>9, <2>1, <3>1
    <3>3. Cardinality({}) = 0
      BY FS_EmptySet
    <3>4. budget'[p] = Cardinality(Paid(F, from, p, n + 1)')
      BY <1>3, <3>2, <3>3
    <3>5. \A s \in 1 .. m : /\ Cardinality(Paid(F, from, p, s)') <= AutoItems
                            /\ s > n + 1 => Paid(F, from, p, s)' = {}
      BY <1>9, <2>1
    <3> QED BY <2>3, <3>1, <3>4, <3>5 DEF Charged
  <2> QED BY <1>5, <2>2, <2>3
<1> QED BY <1>6, <1>7, <1>8, <1>10, <1>11 DEF FileInv

LEMMA FileStep ==
  ASSUME NEW CONSTANT F, NEW CONSTANT from, NEW CONSTANT m, FileAssumption(F, from, m),
         FileInv(F, from, m), Moving(F, from, m)!Next
  PROVE  FileInv(F, from, m)'
<1>1. \/ \E f \in F : \/ Moving(F, from, m)!SenderStep(f)
                      \/ Moving(F, from, m)!ReadOffer(f)
                      \/ Moving(F, from, m)!ReceiverStep(f)
                      \/ Moving(F, from, m)!UserStep(f)
      \/ \E p \in Side : \/ Moving(F, from, m)!EndSession(p)
                         \/ Moving(F, from, m)!DropSession(p)
                         \/ Moving(F, from, m)!Join(p)
  BY DEF Moving!Next, Side
<1>2. ASSUME NEW f \in F, Moving(F, from, m)!SenderStep(f)
      PROVE  FileInv(F, from, m)'
  BY <1>2, SenderSteps, SenderEndsStep DEF Moving!SenderStep
<1>3. ASSUME NEW f \in F, Moving(F, from, m)!ReceiverStep(f)
      PROVE  FileInv(F, from, m)'
  BY <1>3, ReceiverSteps, BeginDecisionStep, CloseReceiveStep, LeaveReceiveStep
     DEF Moving!ReceiverStep
<1>4. ASSUME NEW f \in F, Moving(F, from, m)!UserStep(f)
      PROVE  FileInv(F, from, m)'
  <2>1. Moving(F, from, m)!CancelOutgoing(f) => FileInv(F, from, m)'
    BY SenderSteps, CancelQueuedStep
  <2> QED BY <1>4, <2>1, ReceiverSteps, EnqueueStep DEF Moving!UserStep
<1> QED BY <1>1, <1>2, <1>3, <1>4, ReadOfferStep, EndSessionStep, SessionSteps

LEMMA FileStarts ==
  ASSUME NEW CONSTANT F, NEW CONSTANT from, NEW CONSTANT m, FileAssumption(F, from, m),
         Moving(F, from, m)!Init
  PROVE  FileInv(F, from, m)
<1>1. /\ session = [p \in Side |-> 1] /\ joined = [p \in Side |-> 1]
      /\ queue = [p \in Side |-> <<>>] /\ active = [p \in Side |-> "none"]
      /\ budget = [p \in Side |-> 0]
      /\ snd = [f \in F |-> [st |-> "idle", session |-> 0]]
      /\ rcv = [f \in F |-> [st |-> "none", auto |-> FALSE, making |-> FALSE,
                             cancelled |-> FALSE]]
      /\ line = [f \in F |-> [down |-> <<>>, up |-> <<>>]]
      /\ taken = [f \in F |-> 0] /\ file = [f \in F |-> "none"]
  BY DEF Moving!Init, Moving!Idle, Moving!Unoffered, Moving!NoLine, Side
<1>2. /\ <<>> \in Seq(F) /\ <<>> \in Seq(FileFrame) /\ Len(<<>>) = 0
      /\ 1 \in 1 .. m /\ 0 \in 0 .. m /\ 1 \in 0 .. m /\ 0 \in 0 .. AutoItems
  BY FileBounds DEF FileAssumption
<1>3. FileTyped(F, m)
  <2>1. [st |-> "idle", session |-> 0] \in Sender(m)
    BY <1>2 DEF Sender
  <2>2. [st |-> "none", auto |-> FALSE, making |-> FALSE, cancelled |-> FALSE] \in Receiver
    BY DEF Receiver
  <2>3. [down |-> <<>>, up |-> <<>>] \in FileLine
    BY <1>2 DEF FileLine
  <2> QED BY <1>1, <1>2, <2>1, <2>2, <2>3 DEF FileTyped, OnDisk
<1>4. ASSUME NEW f \in F
      PROVE  Kept(f) /\ Due(f) /\ ~Sends(f) /\ ~Receives(f)
  <2>1. /\ snd[f].st = "idle" /\ rcv[f].st = "none" /\ line[f].up = <<>>
        /\ line[f].down = <<>> /\ taken[f] = 0 /\ file[f] = "none"
    BY <1>1
  <2>2. ~Confirms(line[f])
    BY <1>2, <2>1 DEF Confirms
  <2> QED BY <2>1, <2>2 DEF Kept, KeptAs, Due, DueAs, Sends, Receives
<1>5. ASSUME NEW p \in Side
      PROVE  Occupied(F, from, p) /\ Queued(F, from, p) /\ Charged(F, from, m, p)
  <2>1. /\ session[p] = 1 /\ joined[p] = 1 /\ queue[p] = <<>> /\ active[p] = "none"
        /\ budget[p] = 0
    BY <1>1
  <2>2. \A s \in 1 .. m : Paid(F, from, p, s) = {}
    BY <1>1 DEF Paid
  <2>3. Occupied(F, from, p)
    BY <1>4, <2>1 DEF Occupied, Busy
  <2>4. Queued(F, from, p)
    BY <1>2, <2>1 DEF Queued
  <2>5. Charged(F, from, m, p)
    <3>1. Cardinality({}) = 0
      BY FS_EmptySet
    <3>2. \A s \in 1 .. m : Cardinality(Paid(F, from, p, s)) = 0
      BY <2>2, <3>1
    <3> QED BY <1>2, <2>1, <2>2, <3>2, FileBounds DEF Charged
  <2> QED BY <2>3, <2>4, <2>5
<1> QED BY <1>3, <1>4, <1>5 DEF FileInv

LEMMA FileStutter ==
  ASSUME NEW CONSTANT F, NEW CONSTANT from, NEW CONSTANT m,
         FileInv(F, from, m), UNCHANGED filesVars
  PROVE  FileInv(F, from, m)'
<1>1. /\ session' = session /\ joined' = joined /\ queue' = queue /\ active' = active
      /\ budget' = budget /\ snd' = snd /\ rcv' = rcv /\ line' = line /\ taken' = taken
      /\ file' = file
  BY DEF filesVars
<1>2. FileTyped(F, m)'
  BY <1>1 DEF FileInv, FileTyped
<1>3. \A g \in F : Kept(g)' /\ Due(g)'
  BY <1>1 DEF FileInv, Kept, Due
<1>4. ASSUME NEW p \in Side
      PROVE  Occupied(F, from, p)' /\ Queued(F, from, p)' /\ Charged(F, from, m, p)'
  <2>1. Occupied(F, from, p) /\ Queued(F, from, p) /\ Charged(F, from, m, p)
    BY DEF FileInv
  <2>2. Occupied(F, from, p)'
    BY <1>1, <2>1 DEF Occupied, Sends, Busy, Receives
  <2>3. Queued(F, from, p)'
    BY <1>1, <2>1 DEF Queued
  <2>4. Charged(F, from, m, p)'
    BY <1>1, <2>1, SameBudget
  <2> QED BY <2>2, <2>3, <2>4
<1> QED BY <1>2, <1>3, <1>4 DEF FileInv


LEMMA FilePromises ==
  ASSUME NEW CONSTANT F, NEW CONSTANT from, NEW CONSTANT m, FileAssumption(F, from, m),
         FileInv(F, from, m)
  PROVE  /\ Moving(F, from, m)!TypeOK
         /\ Moving(F, from, m)!SentMeansStored
         /\ Moving(F, from, m)!NoOrphanFile
         /\ Moving(F, from, m)!OneAtATime
         /\ Moving(F, from, m)!AutoBudget
         /\ Moving(F, from, m)!QueueNotStranded
<1>1. FileTyped(F, m) /\ (\A f \in F : Kept(f))
  BY DEF FileInv
<1>2. ASSUME NEW p \in Side
      PROVE  /\ Occupied(F, from, p) /\ Queued(F, from, p) /\ Charged(F, from, m, p)
             /\ \A f \in F : Moving(F, from, m)!To(f) = p <=> from[f] # p
  <2>1. \A f \in F : Moving(F, from, m)!To(f) = p <=> from[f] # p
    BY Ways DEF Mate, Side
  <2> QED BY <2>1 DEF FileInv
<1>3. Moving(F, from, m)!TypeOK
  BY <1>1 DEF FileTyped, Sender, Receiver, FileLine, FileFrame, OnDisk, Side,
              Moving!TypeOK, Moving!Frames
<1>4. Moving(F, from, m)!SentMeansStored
  BY <1>1 DEF Kept, KeptAs, Moving!SentMeansStored
<1>5. Moving(F, from, m)!NoOrphanFile
  BY <1>1 DEF Kept, KeptAs, Moving!NoOrphanFile
<1>6. \A f \in F : /\ Moving(F, from, m)!SenderRuns(f) <=> Sends(f)
                   /\ Moving(F, from, m)!ReceiverRuns(f) <=> Receives(f)
  BY DEF Moving!SenderRuns, Moving!ReceiverRuns, Sends, Receives
<1>7. Moving(F, from, m)!OneAtATime
  <2>1. ASSUME NEW p \in Side
        PROVE  /\ {f \in F : \/ from[f] = p /\ Moving(F, from, m)!SenderRuns(f)
                             \/ /\ Moving(F, from, m)!To(f) = p
                                /\ Moving(F, from, m)!ReceiverRuns(f)
                                /\ rcv[f].st # "ending"} \subseteq {active[p]}
               /\ active[p] # "none" =>
                    IF Moving(F, from, m)!Outgoing(p)
                    THEN Moving(F, from, m)!SenderRuns(active[p])
                    ELSE Moving(F, from, m)!ReceiverRuns(active[p])
    <3>1. Occupied(F, from, p) /\ active[p] \in F \cup {"none"}
      BY <1>1, <1>2 DEF FileTyped
    <3>2. \A f \in F : \/ from[f] = p /\ Moving(F, from, m)!SenderRuns(f)
                       \/ /\ Moving(F, from, m)!To(f) = p
                          /\ Moving(F, from, m)!ReceiverRuns(f)
                          /\ rcv[f].st # "ending"
                       => active[p] = f
      BY <1>2, <1>6, <3>1 DEF Occupied, Busy
    <3>3. active[p] # "none" =>
            IF Moving(F, from, m)!Outgoing(p)
            THEN Moving(F, from, m)!SenderRuns(active[p])
            ELSE Moving(F, from, m)!ReceiverRuns(active[p])
      BY <1>6, <3>1 DEF Occupied, Moving!Outgoing
    <3> QED BY <3>2, <3>3
  <2> QED BY <2>1 DEF Moving!OneAtATime, Side
<1>8. Moving(F, from, m)!AutoBudget
  <2>1. ASSUME NEW p \in Side, NEW s \in 1 .. m
        PROVE  Cardinality({f \in F : Moving(F, from, m)!To(f) = p /\ taken[f] = s}) <= AutoItems
    <3>1. {f \in F : Moving(F, from, m)!To(f) = p /\ taken[f] = s} = Paid(F, from, p, s)
      BY <1>2 DEF Paid
    <3> QED BY <1>2, <3>1 DEF Charged
  <2>2. \A S : Moving(F, from, m)!Cardinality(S) = Cardinality(S)
    BY DEF Moving!Cardinality, Cardinality
  <2> QED BY <2>1, <2>2, Zenon DEF Moving!AutoBudget, Side
<1>9. Moving(F, from, m)!QueueNotStranded
  BY <1>2 DEF Queued, Moving!QueueNotStranded, Side
<1> QED BY <1>3, <1>4, <1>5, <1>7, <1>8, <1>9

FilesInv == /\ part = "sameWay" => FileInv({x1, x2}, FromA, 2)
            /\ part = "bothWays" => FileInv({x1, y}, FromBoth, 1)

LEMMA FilesAssumed ==
  /\ FileAssumption({x1, x2}, FromA, 2)
  /\ FileAssumption({x1, y}, FromBoth, 1)
<1>1. IsFiniteSet({x1, x2}) /\ IsFiniteSet({x1, y})
  <2>1. IsFiniteSet({x1})
    BY FS_Singleton
  <2>2. {x1, x2} = {x1} \cup {x2} /\ {x1, y} = {x1} \cup {y}
    OBVIOUS
  <2> QED BY <2>1, <2>2, FS_AddElement
<1>2. /\ FromA \in [{x1, x2} -> Side] /\ FromBoth \in [{x1, y} -> Side]
  BY DEF FromA, FromBoth, Side
<1> QED BY <1>1, <1>2, Apart DEF FileAssumption

LEMMA FilesHold == Spec => []FilesInv
<1>1. Init => FilesInv
  BY FilesAssumed, FileStarts DEF Init, FilesInv
<1>2. FilesInv /\ [Next]_vars => FilesInv'
  <2> SUFFICES ASSUME FilesInv, [Next]_vars
               PROVE  FilesInv'
    OBVIOUS
  <2>1. CASE Next
    <3>1. CASE part = "sameWay"
      <4>1. Moving({x1, x2}, FromA, 2)!Next /\ part' = part
        BY <2>1, <3>1 DEF Next
      <4>2. FileInv({x1, x2}, FromA, 2)'
        BY <3>1, <4>1, FilesAssumed, FileStep DEF FilesInv
      <4> QED BY <3>1, <4>1, <4>2 DEF FilesInv
    <3>2. CASE part = "bothWays"
      <4>1. Moving({x1, y}, FromBoth, 1)!Next /\ part' = part
        BY <2>1, <3>2 DEF Next
      <4>2. FileInv({x1, y}, FromBoth, 1)'
        BY <3>2, <4>1, FilesAssumed, FileStep DEF FilesInv
      <4> QED BY <3>2, <4>1, <4>2 DEF FilesInv
    <3>3. CASE part # "sameWay" /\ part # "bothWays"
      BY <2>1, <3>3 DEF Next, FilesInv
    <3> QED BY <3>1, <3>2, <3>3
  <2>2. CASE UNCHANGED vars
    <3>1. part' = part /\ UNCHANGED filesVars
      BY <2>2 DEF vars
    <3> QED BY <3>1, FileStutter DEF FilesInv
  <2> QED BY <2>1, <2>2
<1> QED BY <1>1, <1>2, PTL DEF Spec

\* A page moves one private file at a time, in or out, and activeFileTransfer names
\* it (processFileQueue, receiveFile); and it does not ring while it is in a call
\* (showIncomingCall, startCall).
THEOREM OneTransferAtATime == Spec => []OneAtATime
<1>1. ASSUME FilesInv, CallsInv PROVE OneAtATime
  <2>1. part = "sameWay" => Moving({x1, x2}, FromA, 2)!OneAtATime
    BY <1>1, FilesAssumed, FilePromises DEF FilesInv
  <2>2. part = "bothWays" => Moving({x1, y}, FromBoth, 1)!OneAtATime
    BY <1>1, FilesAssumed, FilePromises DEF FilesInv
  <2>3. /\ part = "calls" => Calling(2, 1)!OneCall
        /\ part = "restarts" => Calling(1, 2)!OneCall
    BY <1>1, CallPromises, Apart DEF CallsInv
  <2> QED BY <2>1, <2>2, <2>3 DEF OneAtATime
<1> QED BY <1>1, FilesHold, CallsHold, PTL

\* No session pays for more automatic files than its budget, although
\* canAutoReceivePrivateFile looks at it before an await and it is charged after
\* that; and a call is restarted at most once by each page.
THEOREM BudgetsHold == Spec => []AutoBudget
<1>1. ASSUME FilesInv, CallsInv PROVE AutoBudget
  <2>1. part = "sameWay" => Moving({x1, x2}, FromA, 2)!AutoBudget
    BY <1>1, FilesAssumed, FilePromises DEF FilesInv
  <2>2. part = "bothWays" => Moving({x1, y}, FromBoth, 1)!AutoBudget
    BY <1>1, FilesAssumed, FilePromises DEF FilesInv
  <2>3. /\ part = "calls" => Calling(2, 1)!RestartedOnce
        /\ part = "restarts" => Calling(1, 2)!RestartedOnce
    BY <1>1, CallPromises, Apart DEF CallsInv
  <2> QED BY <2>1, <2>2, <2>3 DEF AutoBudget
<1> QED BY <1>1, FilesHold, CallsHold, PTL

\* While outgoing files wait, the page moves one or a receiver is about to call
\* processFileQueue; and a call that has not come about is under its timer.
THEOREM NobodyStranded == Spec => []NotStranded
<1>1. ASSUME FilesInv, CallsInv PROVE NotStranded
  <2>1. part = "sameWay" => Moving({x1, x2}, FromA, 2)!QueueNotStranded
    BY <1>1, FilesAssumed, FilePromises DEF FilesInv
  <2>2. part = "bothWays" => Moving({x1, y}, FromBoth, 1)!QueueNotStranded
    BY <1>1, FilesAssumed, FilePromises DEF FilesInv
  <2>3. /\ part = "calls" => Calling(2, 1)!UnderTimer
        /\ part = "restarts" => Calling(1, 2)!UnderTimer
    BY <1>1, CallPromises, Apart DEF CallsInv
  <2> QED BY <2>1, <2>2, <2>3 DEF NotStranded
<1> QED BY <1>1, FilesHold, CallsHold, PTL

=============================================================================
