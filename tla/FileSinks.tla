----------------------------- MODULE FileSinks ------------------------------
(***************************************************************************)
(* Where received files go (src/web/file-sinks.js and opfs-worker.js).  A  *)
(* sink runs its operations one after the other; each of them awaits the   *)
(* storage, which in some browsers is a worker that answers requests, late *)
(* ones too, or that dies.  A write or close that fails aborts the sink.   *)
(* When the page is loaded again, what the last one left is removed.       *)
(*                                                                         *)
(* Abstracted: chunks are counted, names and sizes are right, and a fresh  *)
(* storage id is the sink itself.  The worker handles a request in one     *)
(* step: those of one sink follow one another, except after a timeout,     *)
(* when they still arrive in order.  Left out are the sinks of the save    *)
(* picker, whose files are the user's, and other tabs, which the owner     *)
(* lock keeps away.                                                        *)
(***************************************************************************)
EXTENDS Integers, Sequences

CONSTANTS Sinks,       \* sinks of one page, by storage id
          Size,        \* chunks in a file
          MaxCalls,    \* bound: calls made to a sink
          MaxReload    \* bound: times the page is loaded again

VARIABLES mode,      \* opfsMode: "async" or "worker"
          ready,     \* initializeFileSinks has ended
          sink,      \* BaseFileSink: state, bytesWritten, current operation;
                     \* and the number of calls made to it
          calls,     \* the operations enqueued behind it
          inbox,     \* requests the worker has not handled yet
          worker,    \* FALSE when OPFSWorkerClient has failed
          handle,    \* access handle or writable stream that is open
          disk,      \* chunks in the file, or NoFile
          reserved,  \* reservedStorageIds
          excused,   \* history: sinks that lost an answer or a removal
          reloads

vars == <<mode, ready, sink, calls, inbox, worker, handle, disk, reserved,
          excused, reloads>>

NoFile == 0 - 1
Fresh == [st |-> "none", written |-> 0, made |-> 0, op |-> "none",
          step |-> "none", answer |-> "none"]

Init == /\ mode \in {"async", "worker"}
        /\ ready = FALSE
        /\ sink = [s \in Sinks |-> Fresh]
        /\ calls = [s \in Sinks |-> <<>>]
        /\ inbox = <<>>
        /\ worker = TRUE
        /\ handle = [s \in Sinks |-> FALSE]
        /\ disk = [s \in Sinks |-> NoFile]
        /\ reserved = {}
        /\ excused = {}
        /\ reloads = 0

storage == <<handle, disk, excused>>
stable == <<mode, ready, worker, reloads>>

-----------------------------------------------------------------------------
\* initializeFileSinks: whatever an earlier page left is removed first; if
\* that fails, no sink of this page is ever created.
Initialize ==
  /\ ~ready
  /\ ready' = TRUE
  /\ disk' = [s \in Sinks |-> NoFile]
  /\ excused' = {}
  /\ UNCHANGED <<mode, sink, calls, inbox, worker, handle, reserved, reloads>>

\* The page is closed or reloaded: everything in memory is gone, and open
\* files are closed.
Reload ==
  /\ reloads < MaxReload
  /\ reloads' = reloads + 1
  /\ ready' = FALSE
  /\ sink' = [s \in Sinks |-> Fresh]
  /\ calls' = [s \in Sinks |-> <<>>]
  /\ inbox' = <<>>
  /\ worker' = TRUE
  /\ handle' = [s \in Sinks |-> FALSE]
  /\ reserved' = {}
  /\ UNCHANGED <<mode, disk, excused>>

-----------------------------------------------------------------------------
\* The sink's operation op awaits the storage for step; a worker that has
\* failed refuses at once.
Await(s, op, step) ==
  /\ sink' = [sink EXCEPT ![s].op = op, ![s].step = step,
                          ![s].answer = IF worker THEN "none" ELSE "error"]
  /\ inbox' = IF mode = "worker" /\ worker
              THEN Append(inbox, [sink |-> s, type |-> step, live |-> TRUE])
              ELSE inbox
  /\ excused' = IF worker THEN excused ELSE excused \cup {s}

\* The operation ends and leaves the sink in state st.
Ends(s, st) ==
  /\ sink' = [sink EXCEPT ![s].st = st, ![s].op = "none", ![s].step = "none",
                          ![s].answer = "none"]
  /\ UNCHANGED <<inbox, excused>>

\* createFileSink, its capacity checked and its id allocated.
CreateFileSink(s) ==
  /\ ready
  /\ sink[s] = Fresh
  /\ s \notin reserved
  /\ disk[s] = NoFile
  /\ reserved' = reserved \cup {s}
  /\ Await(s, "create", "INIT")
  /\ UNCHANGED <<stable, calls, handle, disk>>

\* write(), close(), abort() or remove() of a sink that has been created.
Call(s, op) ==
  /\ sink[s].st \notin {"none", "failed"}
  /\ sink[s].made < MaxCalls
  /\ sink' = [sink EXCEPT ![s].made = @ + 1]
  /\ calls' = [calls EXCEPT ![s] = Append(@, op)]
  /\ UNCHANGED <<stable, inbox, storage, reserved>>

\* What each operation does first.
BeginClose(s) ==
  IF sink[s].written = Size THEN Await(s, "close", "CLOSE")
  ELSE Await(s, "undo", "ABORT")

BeginWrite(s) ==
  IF sink[s].written < Size THEN Await(s, "write", "WRITE")
  ELSE Await(s, "undo", "ABORT")

Begin(s, op) ==
  CASE op \in {"write", "close"} /\ sink[s].st # "open" -> Ends(s, sink[s].st)
    [] op = "write" /\ sink[s].st = "open" -> BeginWrite(s)
    [] op = "close" /\ sink[s].st = "open" -> BeginClose(s)
    [] op = "abort" -> IF sink[s].st \in {"removed", "aborted"}
                       THEN Ends(s, sink[s].st) ELSE Await(s, "abort", "ABORT")
    [] op = "remove" -> IF sink[s].st = "removed" THEN Ends(s, "removed")
                        ELSE Await(s, "remove", IF sink[s].st = "open" THEN "ABORT"
                                                ELSE "DELETE")

\* enqueue: the next operation begins when the last has ended.
NextCall(s) ==
  /\ sink[s].op = "none"
  /\ calls[s] # <<>>
  /\ Begin(s, Head(calls[s]))
  /\ calls' = [calls EXCEPT ![s] = Tail(@)]
  /\ UNCHANGED <<stable, handle, disk, reserved>>

\* Mutation: a failed write leaves the file where it is.
FailOnly(s) == Ends(s, "aborted")

\* fail(): the sink is aborted before the caller hears of the error.
Fail(s) == Await(s, "undo", "ABORT")

\* The answer to the current step arrives at the operation.  The page opens a
\* file its worker has created, or fails to.
Continue(s) ==
  LET op == sink[s].op
      ok == sink[s].answer = "ok"
      removal == sink[s].step \in {"ABORT", "DELETE"}
      released == IF mode = "async" THEN disk[s] = NoFile ELSE ok
  IN /\ sink[s].answer # "none"
     /\ \/ op = "create" /\ ok /\ Ends(s, "open")
        \/ /\ op = "create"
           /\ ok => mode = "worker"
           /\ sink' = [sink EXCEPT ![s].op = "clean", ![s].answer = "none"]
           /\ excused' = IF ok THEN excused \cup {s} ELSE excused
           /\ UNCHANGED inbox
        \/ /\ op = "write" /\ ok
           /\ sink' = [sink EXCEPT ![s].written = @ + 1, ![s].op = "none",
                                   ![s].step = "none", ![s].answer = "none"]
           /\ UNCHANGED <<inbox, excused>>
        \/ op = "close" /\ ok /\ Ends(s, "closed")
        \/ op \in {"write", "close"} /\ ~ok /\ Fail(s)
        \/ op \in {"undo", "abort"} /\ Ends(s, "aborted")
        \/ op = "remove" /\ ok /\ IF sink[s].step = "ABORT"
                                  THEN Await(s, "remove", "DELETE")
                                  ELSE Ends(s, "removed")
        \/ op = "remove" /\ ~ok /\ Ends(s, sink[s].st)
     /\ reserved' = IF removal /\ released THEN reserved \ {s} ELSE reserved
     /\ UNCHANGED <<stable, calls, handle, disk>>

\* The catch clause of createFileSink: the page itself removes the entry,
\* which it cannot while the worker holds it open.
CleanUp(s) ==
  /\ sink[s].op = "clean"
  /\ \E ok \in BOOLEAN :
       /\ ok => ~handle[s]
       /\ disk' = [disk EXCEPT ![s] = IF ok THEN NoFile ELSE @]
       /\ reserved' = IF ok THEN reserved \ {s} ELSE reserved
       /\ excused' = IF ok THEN excused ELSE excused \cup {s}
  /\ sink' = [sink EXCEPT ![s] = [Fresh EXCEPT !.st = "failed"]]
  /\ UNCHANGED <<stable, calls, inbox, handle>>

-----------------------------------------------------------------------------
\* The storage does step for s, well or not: what is open and on disk then.
\* An entry may have been created or removed although the step failed.  A
\* removal that fails is on record.
Performed(s, step, ok) ==
  LET removal == step \in {"ABORT", "DELETE"}
  IN /\ step = "INIT" /\ ok => disk[s] = NoFile /\ ~handle[s]
     /\ step \in {"WRITE", "CLOSE"} /\ ok => handle[s]
     /\ handle' = [handle EXCEPT ![s] = CASE step = "INIT" -> ok \/ @
                                          [] step = "WRITE" -> @
                                          [] step = "CLOSE" -> mode = "async" /\ @ /\ ~ok
                                          [] removal -> FALSE]
     /\ \E n \in {disk[s], disk[s] + 1, 0, NoFile} :
          /\ CASE step = "INIT" -> IF ok THEN n = 0
                                   ELSE n = disk[s] \/ (mode = "async" /\ n = 0)
               [] step = "WRITE" -> n = disk[s] + (IF ok THEN 1 ELSE 0)
               [] step = "CLOSE" -> n = disk[s]
               [] removal -> n = NoFile \/ (~ok /\ n = disk[s])
          /\ disk' = [disk EXCEPT ![s] = n]
     /\ excused' = IF removal /\ ~ok THEN excused \cup {s} ELSE excused

\* Without a worker the page awaits the storage itself.
StorageAnswers(s) ==
  /\ mode = "async"
  /\ sink[s].op \notin {"none", "clean"}
  /\ sink[s].answer = "none"
  /\ \E ok \in BOOLEAN :
       /\ Performed(s, sink[s].step, ok)
       /\ sink' = [sink EXCEPT ![s].answer = IF ok THEN "ok" ELSE "error"]
  /\ UNCHANGED <<stable, calls, inbox, reserved>>

\* The worker handles its oldest request; the answer to one that nobody
\* awaits any more is ignored.
WorkerHandles ==
  /\ inbox # <<>>
  /\ LET m == Head(inbox) IN
     \E ok \in BOOLEAN :
       /\ Performed(m.sink, m.type, ok)
       /\ sink' = IF m.live
                  THEN [sink EXCEPT ![m.sink].answer = IF ok THEN "ok" ELSE "error"]
                  ELSE sink
  /\ inbox' = Tail(inbox)
  /\ UNCHANGED <<stable, calls, reserved>>

\* WORKER_REQUEST_TIMEOUT_MS is over.
RequestTimeout(s) ==
  /\ \E i \in DOMAIN inbox : inbox[i].sink = s /\ inbox[i].live
  /\ inbox' = [i \in DOMAIN inbox |-> IF inbox[i].sink = s
                                      THEN [inbox[i] EXCEPT !.live = FALSE] ELSE inbox[i]]
  /\ sink' = [sink EXCEPT ![s].answer = "error"]
  /\ excused' = excused \cup {s}
  /\ UNCHANGED <<stable, calls, handle, disk, reserved>>

\* The worker stops: every request fails, now and from now on.
WorkerFails ==
  /\ mode = "worker"
  /\ worker
  /\ worker' = FALSE
  /\ inbox' = <<>>
  /\ handle' = [s \in Sinks |-> FALSE]
  /\ sink' = [s \in Sinks |->
       IF sink[s].op \notin {"none", "clean"} /\ sink[s].answer = "none"
       THEN [sink[s] EXCEPT !.answer = "error"] ELSE sink[s]]
  /\ excused' = Sinks
  /\ UNCHANGED <<mode, ready, calls, disk, reserved, reloads>>

Next == \/ Initialize
        \/ Reload
        \/ \E s \in Sinks : \/ CreateFileSink(s)
                            \/ \E op \in {"write", "close", "abort", "remove"} : Call(s, op)
                            \/ NextCall(s)
                            \/ Continue(s)
                            \/ CleanUp(s)
                            \/ StorageAnswers(s)
                            \/ RequestTimeout(s)
        \/ WorkerHandles
        \/ WorkerFails

Spec == Init /\ [][Next]_vars

-----------------------------------------------------------------------------
Ops == {"none", "create", "clean", "write", "close", "undo", "abort", "remove"}
Steps == {"INIT", "WRITE", "CLOSE", "ABORT", "DELETE"}

TypeOK ==
  /\ mode \in {"async", "worker"}
  /\ {ready, worker} \subseteq BOOLEAN
  /\ sink \in [Sinks -> [st : {"none", "open", "closed", "aborted", "removed", "failed"},
                         written : 0 .. Size, made : 0 .. MaxCalls, op : Ops, step : Steps \cup {"none"},
                         answer : {"none", "ok", "error"}]]
  /\ calls \in [Sinks -> Seq({"write", "close", "abort", "remove"})]
  /\ inbox \in Seq([sink : Sinks, type : Steps, live : BOOLEAN])
  /\ handle \in [Sinks -> BOOLEAN]
  /\ disk \in [Sinks -> NoFile .. Size]
  /\ {reserved, excused} \subseteq SUBSET Sinks
  /\ reloads \in 0 .. MaxReload

AtRest(s) == ready /\ sink[s].op = "none"

\* A closed sink, whose file is offered for export, has every chunk on disk
\* and nothing open, however its operations were queued, unless an answer of
\* the worker or a removal was lost since.
ClosedIsComplete ==
  \A s \in Sinks : AtRest(s) /\ sink[s].st = "closed" /\ s \notin excused =>
    disk[s] = Size /\ ~handle[s]

\* A sink that was aborted or removed, could not be created, or belonged to an
\* earlier page leaves no file, no open handle and no reserved id behind, with
\* the same exception.
NothingLeft ==
  \A s \in Sinks :
    AtRest(s) /\ sink[s].st \notin {"open", "closed"} /\ s \notin excused =>
      disk[s] = NoFile /\ ~handle[s] /\ s \notin reserved

=============================================================================
