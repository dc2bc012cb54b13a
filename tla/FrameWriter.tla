---------------------------- MODULE FrameWriter -----------------------------
(***************************************************************************)
(* GroupFrameWriter (src/web/group-protocol.js): senders queue frames for  *)
(* one stream, which are written one after the other behind the preamble.  *)
(* A queue at its limit, or a write that fails, closes the writer under    *)
(* the frames that still wait.                                             *)
(*                                                                         *)
(* A frame counts until its write is over and the `finally' behind it has  *)
(* run; whoever awaited the write goes on before that, and may send again. *)
(* Abstracted: a frame is its number, in the order they are accepted, and  *)
(* a length; frames over the limit of one frame are not sent.              *)
(***************************************************************************)
EXTENDS Integers, Sequences, FiniteSets

CONSTANTS Length,     \* lengths of frames
          maxFrames, maxBytes,
          MaxSend     \* bound: frames accepted

VARIABLES frames,      \* bytes and fate of each frame accepted so far
          writing,     \* the frame at the stream; 0 is the preamble
          counted,     \* pendingFrames
          bytes,       \* pendingBytes
          shut,        \* closed
          finish,      \* closeWrite: "no", "asked" or "done"
          written      \* what the stream took, in order

vars == <<frames, writing, counted, bytes, shut, finish, written>>

Init == /\ frames = <<>>
        /\ writing = 0
        /\ counted = 0
        /\ bytes = 0
        /\ shut = FALSE
        /\ finish = "no"
        /\ written = <<>>

In(fates) == {n \in DOMAIN frames : frames[n].fate \in fates}
Bytes(S) == Cardinality({c \in S \X (1 .. maxBytes) : c[2] <= frames[c[1]].length})

\* send, up to the promise it returns.
Send(length) ==
  /\ ~shut
  /\ finish = "no"
  /\ Len(frames) < MaxSend
  /\ IF counted + 1 > maxFrames \/ bytes + length > maxBytes
     THEN shut' = TRUE /\ UNCHANGED <<frames, counted, bytes>>
     ELSE /\ frames' = Append(frames, [length |-> length, fate |-> "waiting"])
          /\ counted' = counted + 1
          /\ bytes' = bytes + length
          /\ UNCHANGED shut
  /\ UNCHANGED <<writing, finish, written>>

\* The stream takes the preamble or a frame.
Written ==
  /\ writing \in 0 .. Len(frames)
  /\ writing > 0 => frames[writing].fate = "writing"
  /\ IF writing = 0 THEN writing' = -1 /\ UNCHANGED <<frames, written>>
     ELSE /\ written' = Append(written, writing)
          /\ frames' = [frames EXCEPT ![writing].fate = "written"]
          /\ UNCHANGED writing
  /\ UNCHANGED <<counted, bytes, shut, finish>>

\* Or it does not, and the writer closes itself and it.
WriteFails ==
  /\ writing \in 0 .. Len(frames)
  /\ writing > 0 => frames[writing].fate = "writing"
  /\ shut' = TRUE
  /\ IF writing = 0 THEN writing' = -1 /\ UNCHANGED frames
     ELSE frames' = [frames EXCEPT ![writing].fate = "lost"] /\ UNCHANGED writing
  /\ UNCHANGED <<counted, bytes, finish, written>>

\* Its turn comes: the frame is written, or dropped as the writer is closed.
Turn ==
  \E n \in In({"waiting"}) :
    /\ writing = -1
    /\ \A m \in In({"waiting"}) : n <= m
    /\ frames' = [frames EXCEPT ![n].fate = IF shut THEN "lost" ELSE "writing"]
    /\ writing' = n
    /\ UNCHANGED <<counted, bytes, shut, finish, written>>

\* The `finally' behind the write; the next one may begin.
Release ==
  /\ writing > 0
  /\ frames[writing].fate \in {"written", "lost"}
  /\ counted' = IF counted > 1 THEN counted - 1 ELSE 0
  /\ bytes' = IF bytes > frames[writing].length THEN bytes - frames[writing].length ELSE 0
  /\ writing' = -1
  /\ UNCHANGED <<frames, shut, finish, written>>

\* closeWrite awaits what is queued; nobody sends after it.
CloseWrite ==
  /\ ~shut
  /\ finish = "no"
  /\ finish' = "asked"
  /\ UNCHANGED <<frames, writing, counted, bytes, shut, written>>

EndCloseWrite ==
  /\ finish = "asked"
  /\ writing = -1
  /\ In({"waiting"}) = {}
  /\ finish' = "done"
  /\ UNCHANGED <<frames, writing, counted, bytes, shut, written>>

\* close, from anywhere.
CloseWriter ==
  /\ ~shut
  /\ shut' = TRUE
  /\ UNCHANGED <<frames, writing, counted, bytes, finish, written>>

Next == \/ \E length \in Length : Send(length)
        \/ Written
        \/ WriteFails
        \/ Turn
        \/ Release
        \/ CloseWrite
        \/ EndCloseWrite
        \/ CloseWriter

Spec == Init /\ [][Next]_vars

-----------------------------------------------------------------------------
TypeOK ==
  /\ frames \in Seq([length : Length,
                     fate : {"waiting", "writing", "written", "lost"}])
  /\ writing \in -1 .. Len(frames)
  /\ counted \in 0 .. maxFrames
  /\ bytes \in 0 .. maxBytes
  /\ shut \in BOOLEAN
  /\ finish \in {"no", "asked", "done"}
  /\ written \in Seq(1 .. MaxSend)

\* What counts against the limits is what waits, is being written, or has just
\* been and is not released: the counters neither drift when a writer is closed
\* under its queue nor let a frame count twice.
CountersHonest ==
  LET held == In({"waiting"}) \cup ({writing} \ {-1, 0})
  IN counted = Cardinality(held) /\ bytes = Bytes(held)

\* The stream carries the frames accepted, in order and from the first, and no
\* frame after one that was lost; a writer that ends well has written them all.
NoHoleWritten ==
  /\ written = [i \in 1 .. Len(written) |-> i]
  /\ In({"written"}) = 1 .. Len(written)
  /\ finish = "done" /\ ~shut => Len(written) = Len(frames)

=============================================================================
