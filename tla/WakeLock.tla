------------------------------ MODULE WakeLock ------------------------------
(***************************************************************************)
(* ScreenWakeLockManager (src/web/mobile-runtime.js): one lock of the      *)
(* screen for all the reasons to keep it awake.  The browser grants it     *)
(* after a while, refuses it, or takes it back; meanwhile reasons come and *)
(* go, the page is hidden and shown, and the manager is cleaned up.        *)
(*                                                                         *)
(* A lock is the state of its sentinel; giving one up is immediate except  *)
(* in `dropping', where the code awaits it while other calls still wait    *)
(* for the same request.                                                   *)
(***************************************************************************)
EXTENDS Integers, FiniteSets

CONSTANTS Reason,      \* what callers name when they acquire
          MaxAcquire   \* bound: references to one reason

VARIABLES refs,        \* reasons: the references to each
          visible,     \* documentRef.visibilityState
          held,        \* active: this.sentinel is set and not released
          request,     \* pendingRequest: "none", "asking" or "dropping"
          retry,       \* retryTimer is set
          disposed

vars == <<refs, visible, held, request, retry, disposed>>

Init == /\ refs = [r \in Reason |-> 0]
        /\ visible = TRUE
        /\ held = FALSE
        /\ request = "none"
        /\ retry = FALSE
        /\ disposed = FALSE

Referenced(f) == \E r \in Reason : f[r] > 0

\* request(): who finds a request under way is given its outcome, whatever
\* that will be, and so nothing new is asked for.
Request(f, v) ==
  request' = IF ~disposed /\ Referenced(f) /\ v /\ ~held /\ request = "none"
             THEN "asking" ELSE request

Acquire(r) ==
  /\ ~disposed
  /\ refs[r] < MaxAcquire
  /\ refs' = [refs EXCEPT ![r] = @ + 1]
  /\ Request(refs', visible)
  /\ UNCHANGED <<visible, held, retry, disposed>>

\* release(); the last reference takes the lock with it.
Release(r) ==
  /\ refs[r] > 0
  /\ refs' = [refs EXCEPT ![r] = @ - 1]
  /\ held' = (held /\ Referenced(refs'))
  /\ UNCHANGED <<visible, request, retry, disposed>>

\* Mutation: the lock is kept whatever has happened meanwhile.
GrantedBlindly ==
  /\ request = "asking"
  /\ held' = TRUE
  /\ request' = "none"
  /\ UNCHANGED <<refs, visible, retry, disposed>>

\* The browser grants the lock, which may no longer be wanted.
Granted ==
  LET shouldKeep == ~disposed /\ Referenced(refs) /\ visible
  IN /\ request = "asking"
     /\ held' = shouldKeep
     /\ request' = IF shouldKeep THEN "none" ELSE "dropping"
     /\ UNCHANGED <<refs, visible, retry, disposed>>

\* An unwanted lock is given up at last, or none was granted.
RequestEnds ==
  /\ request # "none"
  /\ request' = "none"
  /\ UNCHANGED <<refs, visible, held, retry, disposed>>

\* The browser takes the lock back: the manager tries again in a moment.
Taken ==
  /\ held
  /\ held' = FALSE
  /\ retry' = (retry \/ (~disposed /\ Referenced(refs) /\ visible))
  /\ UNCHANGED <<refs, visible, request, disposed>>

Retry ==
  /\ retry
  /\ retry' = FALSE
  /\ Request(refs, visible)
  /\ UNCHANGED <<refs, visible, held, disposed>>

\* handleVisibilityChange.
Hide ==
  /\ visible
  /\ visible' = FALSE
  /\ held' = FALSE
  /\ UNCHANGED <<refs, request, retry, disposed>>

Show ==
  /\ ~visible
  /\ visible' = TRUE
  /\ Request(refs, TRUE)
  /\ UNCHANGED <<refs, held, retry, disposed>>

\* cleanup(): no reason and no lock are left, and none will be granted.
Cleanup ==
  /\ ~disposed
  /\ disposed' = TRUE
  /\ refs' = [r \in Reason |-> 0]
  /\ held' = FALSE
  /\ retry' = FALSE
  /\ UNCHANGED <<visible, request>>

Next == \/ \E r \in Reason : Acquire(r) \/ Release(r)
        \/ Granted
        \/ RequestEnds
        \/ Taken
        \/ Retry
        \/ Hide
        \/ Show
        \/ Cleanup

Spec == Init /\ [][Next]_vars

\* The same with a browser that grants what is asked for.
Willing == \/ \E r \in Reason : Acquire(r) \/ Release(r)
           \/ Granted
           \/ request = "dropping" /\ RequestEnds
           \/ Taken
           \/ Retry
           \/ Hide
           \/ Show
           \/ Cleanup

WillingSpec == Init /\ [][Willing]_vars

-----------------------------------------------------------------------------
TypeOK == /\ refs \in [Reason -> 0 .. MaxAcquire]
          /\ {visible, held, retry, disposed} \subseteq BOOLEAN
          /\ request \in {"none", "asking", "dropping"}

\* The screen is never kept awake for nothing: whatever happens between a
\* request and its grant, a lock is held only while somebody wants it, the
\* page is visible and the manager in use.
NoUselessLock == held => Referenced(refs) /\ visible /\ ~disposed

\* The class comment of ScreenWakeLockManager: "The physical screen lock
\* exists while at least one reason remains. Locks are released when the
\* document becomes hidden and requested again after it becomes visible."
\* With nothing under way, a visible page that has a reason has the lock.
HeldAtRest ==
  (Referenced(refs) /\ visible /\ ~disposed /\ request = "none" /\ ~retry) => held

=============================================================================
