------------------------ MODULE PrivateSessionProofs ------------------------
(***************************************************************************)
(* Theorems about PrivateSession, for any pages and bounds, and their      *)
(* proofs.  The awaits of a handshake let other calls, other pages and     *)
(* late messages in between, so the invariant says whom each nonce and     *)
(* each session number belongs to, in the pages and in the messages.       *)
(***************************************************************************)
EXTENDS PrivateSession, FiniteSetTheorems, TLAPS

Posted == net \cup open

\* The session a message of the handshake is about, and the page that dialled.
SessionOf(m) == IF m.kind = "HELLO" THEN m.of ELSE m.session
Dialler(m)   == IF m.kind = "ACK" THEN m.to ELSE m.from

\* A call that has sent its HELLO.
Dialled(s) == s \in Calls /\ call[s].st \notin {"unused", "starting"}

\* A nonce drawn for a call of page p.
Drawn(n, p) == n \in Calls /\ call[n].st # "unused" /\ call[n].page = p

\* Calls are numbered in the order in which they are made.
Numbered ==
  /\ \E k \in Number : \A c \in Calls : call[c] = Unused <=> k < c
  /\ \A c \in Calls : call[c].st = "unused" => call[c] = Unused
  /\ \A c \in Calls : call[c].st # "unused" =>
       call[c].page \in Pages /\ call[c].to \in Pages /\ call[c].page # call[c].to

\* What is said in a handshake is about a call that was dialled.
Honest ==
  \A m \in Posted : m.kind \in {"HELLO", "ACK", "CONFIRM"} =>
    /\ m.from # m.to
    /\ Dialled(SessionOf(m)) /\ call[SessionOf(m)].page = Dialler(m)
    /\ m.nonce # 0 => Drawn(m.nonce, Dialler(m))
    /\ m.kind # "HELLO" => m.nonce # 0
    /\ m.kind = "CONFIRM" => m.of = m.session

\* The call that waits for an answer, and the nonce it waits under.
Waiting(p) ==
  LET w == page[p].waiter IN
  w # NoWaiter =>
    /\ w.call \in Calls /\ call[w.call].page = p /\ call[w.call].st = "waiting"
    /\ w.addr \in Pages
    /\ page[p].pendingNonce \in {0, w.nonce}
    /\ w.nonce # 0 => Drawn(w.nonce, p)

\* A nonce that is pending and not waited under is its own call's, which starts.
Pending(p) ==
  LET n == page[p].pendingNonce IN
  n # 0 =>
    /\ Drawn(n, p)
    /\ page[p].waiter = NoWaiter => call[n].st = "starting"

\* What page q has been offered.
Offered(q) ==
  LET d == page[q].candidate IN
  d # NoCandidate =>
    /\ d.peer \in Pages \ {q}
    /\ Dialled(d.session) /\ call[d.session].page = d.peer
    /\ d.nonce # 0 /\ Drawn(d.nonce, d.peer)
    /\ \/ InSession(q)
       \/ \E m \in open : m.kind = "ACK" /\ m.from = q /\ m.to = d.peer
                          /\ m.nonce = d.nonce /\ m.session = d.session

\* The session of page q is its peer's, or an attempt of its own that succeeded.
Settled(q) ==
  LET a == page[q].active
      p == call[a.session].page
  IN InSession(q) =>
       /\ a.peer \in Pages
       /\ Dialled(a.session) /\ a.nonce # 0 /\ Drawn(a.nonce, p)
       /\ IF p = q THEN call[a.session].st = "connected" ELSE p = a.peer

Mine(p) == {page[p].pendingNonce, page[p].waiter.nonce} \ {0}

\* While p waits under a nonce, whatever carries it is about the call that waits;
\* a nonce that no call waits under yet is carried by nothing.
Owned(p) ==
  \A n \in Mine(p) :
    /\ \A m \in Posted : m.kind \in {"HELLO", "ACK"} /\ m.nonce = n
                           => SessionOf(m) \in WaiterCall(p)
    /\ \A q \in Pages :
         /\ page[q].candidate.nonce = n => page[q].candidate.session \in WaiterCall(p)
         /\ page[q].active.nonce = n => page[q].active.session \in WaiterCall(p)

\* Whoever has seen a CONFIRM of the call that waits, the call has sent it.
Confirmed(p) ==
  LET w == page[p].waiter IN
  w # NoWaiter =>
    /\ w.confirm \in {0, w.call}
    /\ \A m \in Posted : m.kind = "CONFIRM" /\ m.session = w.call => w.confirm = w.call
    /\ \A q \in Pages \ {p} : page[q].active.session = w.call => w.confirm = w.call

PageInv(p) ==
  /\ Waiting(p)
  /\ Pending(p)
  /\ Offered(p)
  /\ Settled(p)
  /\ Owned(p)
  /\ Confirmed(p)

SessionInv ==
  /\ TypeOK
  /\ Numbered
  /\ Honest
  /\ \A p \in Pages : PageInv(p)

-----------------------------------------------------------------------------
(* Steps that take nothing up *)

\* Page p becomes ps and the calls of C fail: p may give up what it has.
GivesUp(p, ps, C) ==
  /\ page' = [page EXCEPT ![p] = ps]
  /\ call' = Failed(C)
  /\ \A c \in C : c \in Calls /\ call[c].page = p /\ call[c].st \in {"starting", "waiting"}
  /\ ps.candidate \in {page[p].candidate, NoCandidate}
  /\ ps.active \in {page[p].active, NoSession}
  /\ \/ /\ ps.waiter = page[p].waiter /\ ps.waiter.call \notin C
        /\ ps.pendingNonce \in {0, page[p].pendingNonce} /\ ps.pendingNonce \notin C
     \/ ps.waiter = NoWaiter /\ ps.pendingNonce = 0

\* Nothing is said that a handshake is about, and what p no longer waits for is
\* not the ACK of its candidate.
SaysNothing(p, ps) ==
  /\ \A m \in net' : m \in net \/ m.kind \in {"REJECT", "CANCEL", "END"}
  /\ open' \subseteq open
  /\ \A m \in open \ open' : m.kind = "ACK" => m.from = p
  /\ ps.candidate # NoCandidate /\ ps.active = NoSession =>
       /\ page[p].active = NoSession
       /\ \A m \in open \ open' : m.kind = "ACK" =>
            ~ (/\ m.to = ps.candidate.peer /\ m.nonce = ps.candidate.nonce
               /\ m.session = ps.candidate.session)

\* What becomes of the calls when some fail.
LEMMA FailedOf ==
  ASSUME TypeOK, NEW C, call' = Failed(C),
         \A c \in C : c \in Calls /\ call[c].st \in {"starting", "waiting"}
  PROVE  /\ call' \in [Calls -> [page : Pages \cup {NoPage}, to : Pages \cup {NoPage},
                                 st : {"unused", "starting", "waiting", "connected", "failed"}]]
         /\ \A c \in Calls : /\ call'[c].page = call[c].page /\ call'[c].to = call[c].to
                             /\ call'[c].st = IF c \in C THEN "failed" ELSE call[c].st
                             /\ call'[c] = Unused <=> call[c] = Unused
         /\ \A s : Dialled(s) => Dialled(s)'
         /\ \A n, q : Drawn(n, q) => Drawn(n, q)'
         /\ Numbered => Numbered'
<1>1. call \in [Calls -> [page : Pages \cup {NoPage}, to : Pages \cup {NoPage},
                          st : {"unused", "starting", "waiting", "connected", "failed"}]]
  BY DEF TypeOK
<1>2. \A c \in Calls : call'[c] = IF c \in C THEN [call[c] EXCEPT !.st = "failed"] ELSE call[c]
  BY DEF Failed
<1>3. \A c \in Calls : /\ call'[c].page = call[c].page /\ call'[c].to = call[c].to
                       /\ call'[c].st = IF c \in C THEN "failed" ELSE call[c].st
  BY <1>1, <1>2
<1>4. \A c \in Calls : call'[c] = Unused <=> call[c] = Unused
  <2> SUFFICES ASSUME NEW c \in Calls, c \in C PROVE call'[c] # Unused /\ call[c] # Unused
    BY <1>2
  <2>1. call'[c].st = "failed" /\ call[c].st # "unused"
    BY <1>3
  <2> QED
    BY <2>1 DEF Unused
<1>5. call' \in [Calls -> [page : Pages \cup {NoPage}, to : Pages \cup {NoPage},
                           st : {"unused", "starting", "waiting", "connected", "failed"}]]
  BY <1>1 DEF Failed
<1>6. \A s : Dialled(s) => Dialled(s)'
  BY <1>3 DEF Dialled
<1>7. \A n, q : Drawn(n, q) => Drawn(n, q)'
  BY <1>3 DEF Drawn
<1>8. Numbered => Numbered'
  <2>1. \A c \in Calls : call'[c].st = "unused" <=> call[c].st = "unused"
    BY <1>3
  <2>2. (\E k \in Number : \A c \in Calls : call[c] = Unused <=> k < c)
          => \E k \in Number : \A c \in Calls : call'[c] = Unused <=> k < c
    BY <1>4
  <2> QED
    BY <1>3, <1>4, <2>1, <2>2 DEF Numbered
<1> QED
  BY <1>3, <1>4, <1>5, <1>6, <1>7, <1>8

\* Such a step keeps the invariant.
LEMMA QuietInv ==
  ASSUME SessionInv, TypeOK', NEW p \in Pages, NEW ps, NEW C,
         GivesUp(p, ps, C), SaysNothing(p, ps)
  PROVE  SessionInv'
<1>1. TypeOK /\ Numbered /\ Honest
  BY DEF SessionInv
<1>2. \A q \in Pages : Waiting(q) /\ Pending(q) /\ Offered(q) /\ Settled(q) /\ Owned(q) /\ Confirmed(q)
  BY DEF SessionInv, PageInv
<1>3. page'[p] = ps /\ \A q \in Pages \ {p} : page'[q] = page[q]
  BY <1>1 DEF GivesUp, TypeOK
<1>4. /\ \A c \in Calls : /\ call'[c].page = call[c].page
                          /\ call'[c].st = IF c \in C THEN "failed" ELSE call[c].st
      /\ \A s : Dialled(s) => Dialled(s)'
      /\ \A n, q : Drawn(n, q) => Drawn(n, q)'
      /\ Numbered'
  BY <1>1, FailedOf DEF GivesUp
<1>5. \A c \in C : c \in Calls /\ call[c].page = p /\ call[c].st \in {"starting", "waiting"}
  BY DEF GivesUp
<1>6. \A m \in Posted' : m \in Posted \/ m.kind \in {"REJECT", "CANCEL", "END"}
  BY DEF SaysNothing, Posted
<1>7. Honest'
  <2> SUFFICES ASSUME NEW m \in Posted', m.kind \in {"HELLO", "ACK", "CONFIRM"}
               PROVE  /\ m.from # m.to
                      /\ Dialled(SessionOf(m))' /\ call'[SessionOf(m)].page = Dialler(m)
                      /\ m.nonce # 0 => Drawn(m.nonce, Dialler(m))'
                      /\ m.kind # "HELLO" => m.nonce # 0
                      /\ m.kind = "CONFIRM" => m.of = m.session
    BY DEF Honest, Dialler, SessionOf
  <2>1. m \in Posted
    BY <1>6
  <2>2. /\ Dialled(SessionOf(m)) /\ call[SessionOf(m)].page = Dialler(m)
        /\ m.nonce # 0 => Drawn(m.nonce, Dialler(m))
    BY <1>1, <2>1 DEF Honest
  <2>3. SessionOf(m) \in Calls
    BY <2>2 DEF Dialled
  <2> QED
    BY <1>1, <1>4, <2>1, <2>2, <2>3 DEF Honest
<1>8. ASSUME NEW q \in Pages PROVE PageInv(q)'
  <2> DEFINE w == page[q].waiter
  <2>1. /\ page'[q].candidate \in {page[q].candidate, NoCandidate}
        /\ page'[q].active \in {page[q].active, NoSession}
        /\ \/ /\ page'[q].waiter = w
              /\ page'[q].pendingNonce \in {0, page[q].pendingNonce}
              /\ w # NoWaiter => w.call \notin C
              /\ page'[q].pendingNonce # 0 => page[q].pendingNonce \notin C
           \/ page'[q].waiter = NoWaiter /\ page'[q].pendingNonce = 0
    <3>1. CASE q = p
      BY <1>3, <3>1 DEF GivesUp
    <3>2. CASE q # p
      <4>1. w # NoWaiter => w.call \notin C
        BY <1>2, <1>5, <3>2 DEF Waiting
      <4>2. page[q].pendingNonce # 0 => page[q].pendingNonce \notin C
        BY <1>2, <1>5, <3>2 DEF Pending, Drawn
      <4> QED
        BY <1>3, <3>2, <4>1, <4>2
    <3> QED
      BY <3>1, <3>2
  <2>2. Waiting(q)'
    BY <1>2, <1>4, <2>1 DEF Waiting
  <2>3. Pending(q)'
    <3> DEFINE n == page[q].pendingNonce
    <3>1. CASE page'[q].pendingNonce = 0
      BY <3>1 DEF Pending
    <3>2. CASE page'[q].pendingNonce = n /\ n # 0
      <4>1. page'[q].waiter = page[q].waiter /\ n \notin C
        BY <2>1, <3>2
      <4>2. Drawn(n, q) /\ (page[q].waiter = NoWaiter => call[n].st = "starting")
        BY <1>2, <3>2 DEF Pending
      <4>3. Drawn(n, q)' /\ (page'[q].waiter = NoWaiter => call'[n].st = "starting")
        BY <1>4, <3>2, <4>1, <4>2 DEF Drawn
      <4> QED
        BY <3>2, <4>3 DEF Pending, Drawn
    <3> QED
      BY <2>1, <3>1, <3>2
  <2>4. Offered(q)'
    <3> DEFINE d == page[q].candidate
    <3> SUFFICES ASSUME page'[q].candidate = d, d # NoCandidate
                 PROVE  /\ d.peer \in Pages \ {q}
                        /\ Dialled(d.session)' /\ call'[d.session].page = d.peer
                        /\ d.nonce # 0 /\ Drawn(d.nonce, d.peer)'
                        /\ \/ page'[q].active # NoSession
                           \/ \E m \in open' : m.kind = "ACK" /\ m.from = q /\ m.to = d.peer
                                               /\ m.nonce = d.nonce /\ m.session = d.session
      BY <2>1 DEF Offered, InSession
    <3>1. /\ d.peer \in Pages \ {q}
          /\ Dialled(d.session) /\ call[d.session].page = d.peer
          /\ d.nonce # 0 /\ Drawn(d.nonce, d.peer)
          /\ \/ page[q].active # NoSession
             \/ \E m \in open : m.kind = "ACK" /\ m.from = q /\ m.to = d.peer
                                /\ m.nonce = d.nonce /\ m.session = d.session
      BY <1>2 DEF Offered, InSession
    <3>2. call'[d.session].page = d.peer
      BY <1>4, <3>1 DEF Dialled
    <3>3. ASSUME page'[q].active = NoSession
          PROVE  \E m \in open' : m.kind = "ACK" /\ m.from = q /\ m.to = d.peer
                                  /\ m.nonce = d.nonce /\ m.session = d.session
      <4>1. CASE q = p
        BY <1>3, <3>1, <3>3, <4>1 DEF SaysNothing
      <4>2. CASE q # p
        BY <1>3, <3>1, <3>3, <4>2 DEF SaysNothing
      <4> QED
        BY <4>1, <4>2
    <3> QED
      BY <1>4, <3>1, <3>2, <3>3
  <2>5. Settled(q)'
    <3> DEFINE a == page[q].active
    <3>1. CASE page'[q].active = NoSession
      BY <3>1 DEF Settled, InSession
    <3>2. CASE page'[q].active = a /\ a # NoSession
      <4>1. /\ a.peer \in Pages
            /\ Dialled(a.session) /\ a.nonce # 0 /\ Drawn(a.nonce, call[a.session].page)
            /\ IF call[a.session].page = q THEN call[a.session].st = "connected"
               ELSE call[a.session].page = a.peer
        BY <1>2, <3>2 DEF Settled, InSession
      <4>2. a.session \in Calls
        BY <4>1 DEF Dialled
      <4>3. call'[a.session].page = call[a.session].page
            /\ (call[a.session].st = "connected" => call'[a.session].st = "connected")
        BY <1>4, <1>5, <4>2
      <4> QED
        BY <1>4, <3>2, <4>1, <4>3 DEF Settled, InSession
    <3> QED
      BY <2>1, <3>1, <3>2
  <2>6. Owned(q)'
    <3>1. CASE page'[q].waiter = NoWaiter /\ page'[q].pendingNonce = 0
      BY <3>1 DEF Owned, Mine, NoWaiter
    <3>2. CASE page'[q].waiter = w /\ page'[q].pendingNonce \in {0, page[q].pendingNonce}
      <4>1. Mine(q)' \subseteq Mine(q) /\ WaiterCall(q)' = WaiterCall(q) /\ 0 \notin Mine(q)
        BY <3>2 DEF Mine, WaiterCall
      <4>2. \A r \in Pages : /\ page'[r].candidate \in {page[r].candidate, NoCandidate}
                             /\ page'[r].active \in {page[r].active, NoSession}
        BY <1>3 DEF GivesUp
      <4>3. NoCandidate.nonce = 0 /\ NoSession.nonce = 0
        BY DEF NoCandidate, NoSession
      <4>4. \A n \in Mine(q) :
              /\ \A m \in Posted : m.kind \in {"HELLO", "ACK"} /\ m.nonce = n
                                     => SessionOf(m) \in WaiterCall(q)
              /\ \A r \in Pages :
                   /\ page[r].candidate.nonce = n => page[r].candidate.session \in WaiterCall(q)
                   /\ page[r].active.nonce = n => page[r].active.session \in WaiterCall(q)
        BY <1>2 DEF Owned
      <4>5. ASSUME NEW n \in Mine(q)', NEW m \in Posted', m.kind \in {"HELLO", "ACK"}, m.nonce = n
            PROVE  SessionOf(m) \in WaiterCall(q)'
        BY <1>6, <4>1, <4>4, <4>5
      <4>6. ASSUME NEW n \in Mine(q)', NEW r \in Pages
            PROVE  /\ page'[r].candidate.nonce = n => page'[r].candidate.session \in WaiterCall(q)'
                   /\ page'[r].active.nonce = n => page'[r].active.session \in WaiterCall(q)'
        BY <4>1, <4>2, <4>3, <4>4, <4>6
      <4> QED
        BY <4>5, <4>6 DEF Owned, SessionOf
    <3> QED
      BY <2>1, <3>1, <3>2
  <2>7. Confirmed(q)'
    <3>1. CASE page'[q].waiter = NoWaiter
      BY <3>1 DEF Confirmed
    <3>2. CASE page'[q].waiter = w /\ w # NoWaiter
      <4>1. \A r \in Pages : page'[r].active \in {page[r].active, NoSession}
        BY <1>3 DEF GivesUp
      <4>2. /\ w.confirm \in {0, w.call}
            /\ \A m \in Posted : m.kind = "CONFIRM" /\ m.session = w.call => w.confirm = w.call
            /\ \A r \in Pages \ {q} : page[r].active.session = w.call => w.confirm = w.call
        BY <1>2, <3>2 DEF Confirmed
      <4>3. w.call # 0 /\ NoSession.session = 0
        BY <1>2, <3>2 DEF Waiting, Calls, NoSession, NoCandidate
      <4>4. \A r \in Pages \ {q} : page'[r].active.session = w.call => w.confirm = w.call
        BY <4>1, <4>2, <4>3
      <4> QED
        BY <1>6, <3>2, <4>2, <4>4 DEF Confirmed
    <3> QED
      BY <2>1, <3>1, <3>2
  <2> QED
    BY <2>2, <2>3, <2>4, <2>5, <2>6, <2>7 DEF PageInv
<1> QED
  BY <1>4, <1>7, <1>8 DEF SessionInv

-----------------------------------------------------------------------------
(* What becomes of a page's state *)

\* settleHandshake drops the waiter and what is pending, and nothing else.
LEMMA UnwaitedIs ==
  ASSUME SessionAssumption, NEW ps \in PageStates
  PROVE  /\ Unwaited(ps) \in PageStates
         /\ Unwaited(ps).waiter = NoWaiter /\ Unwaited(ps).pendingNonce = 0
         /\ Unwaited(ps).candidate = ps.candidate /\ Unwaited(ps).active = ps.active
<1>1. NoWaiter \in [call : Number, addr : Pages \cup {NoPage}, nonce : Number, confirm : Number]
  BY DEF NoWaiter, Number, SessionAssumption
<1>2. 0 \in Number
  BY DEF Number, SessionAssumption
<1> QED
  BY <1>1, <1>2 DEF Unwaited, PageStates

\* clearPeer drops the candidate and the session as well.
LEMMA ClearedIs ==
  ASSUME SessionAssumption, NEW ps \in PageStates
  PROVE  /\ Cleared(ps) \in PageStates
         /\ Cleared(ps).waiter = NoWaiter /\ Cleared(ps).pendingNonce = 0
         /\ Cleared(ps).candidate = NoCandidate /\ Cleared(ps).active = NoSession
<1>1. NoCandidate \in Sessions /\ NoSession \in Sessions /\ NoPing \in Pings
  BY DEF NoCandidate, NoSession, NoPing, Sessions, Pings, Number, SessionAssumption
<1>2. 0 \in 0 .. (FailureLimit - 1)
  BY DEF SessionAssumption
<1>3. Unwaited(ps) \in PageStates /\ Unwaited(ps).waiter = NoWaiter /\ Unwaited(ps).pendingNonce = 0
  BY UnwaitedIs
<1> HIDE DEF Unwaited
<1> QED
  BY <1>1, <1>2, <1>3 DEF Cleared, PageStates

\* setPeerConnected takes the session up and leaves waiter and candidate alone.
LEMMA ConnectedIs ==
  ASSUME SessionAssumption, NEW ps \in PageStates,
         NEW peer \in Pages, NEW nonce \in Number, NEW session \in Number
  PROVE  LET to == Connected(ps, peer, nonce, session) IN
         /\ to \in PageStates
         /\ to.waiter = ps.waiter /\ to.pendingNonce = 0 /\ to.candidate = ps.candidate
         /\ to.active = [peer |-> peer, nonce |-> nonce, session |-> session]
<1>1. [peer |-> peer, nonce |-> nonce, session |-> session] \in Sessions /\ NoPing \in Pings
  BY DEF NoPing, Sessions, Pings, Number, SessionAssumption
<1>2. 0 \in 0 .. (FailureLimit - 1) /\ 0 \in Number
  BY DEF SessionAssumption, Number
<1> QED
  BY <1>1, <1>2 DEF Connected, PageStates

\* A page that opens keeps nothing.
LEMMA EmptyIs ==
  ASSUME SessionAssumption
  PROVE  /\ EmptyPage \in PageStates
         /\ [EmptyPage EXCEPT !.listening = TRUE] \in PageStates
         /\ EmptyPage.waiter = NoWaiter /\ EmptyPage.pendingNonce = 0
         /\ EmptyPage.candidate = NoCandidate /\ EmptyPage.active = NoSession
<1>1. NoWaiter \in [call : Number, addr : Pages \cup {NoPage}, nonce : Number, confirm : Number]
  BY DEF NoWaiter, Number, SessionAssumption
<1>2. 0 \in Number /\ 0 \in 0 .. (FailureLimit - 1)
  BY DEF Number, SessionAssumption
<1>3. NoCandidate \in Sessions /\ NoSession \in Sessions /\ NoPing \in Pings
  BY DEF NoCandidate, NoSession, NoPing, Sessions, Pings, Number, SessionAssumption
<1>4. EmptyPage \in PageStates
  BY <1>1, <1>2, <1>3 DEF EmptyPage, PageStates
<1>5. [EmptyPage EXCEPT !.listening = TRUE] \in PageStates
  BY <1>4 DEF PageStates
<1> QED
  BY <1>4, <1>5 DEF EmptyPage

\* No call fails: the calls stay as they are.
LEMMA FailedNone ==
  ASSUME TypeOK
  PROVE  Failed({}) = call
BY DEF TypeOK, Failed

\* Only a waiter withdraws anything, and only the calls it waits for.
LEMMA WithdrawalIs ==
  ASSUME SessionAssumption, SessionInv, NEW p \in Pages
  PROVE  /\ Withdrawal(p, page[p].waiter) \subseteq {m \in Messages : m.kind = "CANCEL"}
         /\ \A c \in WaiterCall(p) : c \in Calls /\ call[c].page = p /\ call[c].st = "waiting"
<1> DEFINE w == page[p].waiter
<1>1. TypeOK /\ Waiting(p) /\ Confirmed(p)
  BY DEF SessionInv, PageInv
<1>2. w \in [call : Number, addr : Pages \cup {NoPage}, nonce : Number, confirm : Number]
  BY <1>1 DEF TypeOK, PageStates
<1>3. ASSUME w # NoWaiter PROVE w.addr \in Pages /\ w.call \in Calls
                                /\ call[w.call].page = p /\ call[w.call].st = "waiting"
  BY <1>1, <1>3 DEF Waiting
<1>4. ASSUME w.confirm # 0
      PROVE Message("CANCEL", p, w.addr, w.nonce, w.confirm, w.call) \in Messages
  <2>1. w # NoWaiter
    BY <1>4 DEF NoWaiter
  <2>2. w.addr \in Pages
    BY <2>1, <1>3
  <2> QED
    BY <1>2, <2>2 DEF Message, Messages, Kinds
<1>5. Withdrawal(p, w) \subseteq {m \in Messages : m.kind = "CANCEL"}
  <2>1. Message("CANCEL", p, w.addr, w.nonce, w.confirm, w.call).kind = "CANCEL"
    BY DEF Message
  <2> QED
    BY <1>4, <2>1 DEF Withdrawal
<1>6. ASSUME NEW c \in WaiterCall(p)
      PROVE  c \in Calls /\ call[c].page = p /\ call[c].st = "waiting"
  <2>1. c = w.call /\ w # NoWaiter
    BY <1>6 DEF WaiterCall, NoWaiter
  <2> QED
    BY <2>1, <1>3
<1> QED
  BY <1>5, <1>6

\* A quiet step, with what it takes to stay in the types.
LEMMA QuietStep ==
  ASSUME SessionInv, NEW p \in Pages, NEW ps \in PageStates, NEW C,
         GivesUp(p, ps, C),
         net' \subseteq net \cup {m \in Messages : m.kind \in {"REJECT", "CANCEL", "END"}},
         open' \subseteq open,
         \A m \in open \ open' : m.kind = "ACK" => m.from = p,
         ps.candidate # NoCandidate /\ ps.active = NoSession =>
           page[p].active = NoSession
           /\ \A m \in open \ open' : m.kind = "ACK" =>
                ~ (/\ m.to = ps.candidate.peer /\ m.nonce = ps.candidate.nonce
                   /\ m.session = ps.candidate.session),
         events' \in 0 .. MaxEvents
  PROVE  SessionInv'
<1>1. TypeOK
  BY DEF SessionInv
<1>2. call' \in [Calls -> [page : Pages \cup {NoPage}, to : Pages \cup {NoPage},
                           st : {"unused", "starting", "waiting", "connected", "failed"}]]
  BY <1>1, FailedOf DEF GivesUp
<1>3. page' \in [Pages -> PageStates]
  BY <1>1 DEF TypeOK, GivesUp
<1>4. TypeOK'
  BY <1>1, <1>2, <1>3 DEF TypeOK
<1>5. SaysNothing(p, ps)
  BY DEF SaysNothing
<1> QED
  BY <1>4, <1>5, QuietInv

-----------------------------------------------------------------------------
(* The steps that take nothing up *)

\* Giving up the attempt, and with it the session or not.
LEMMA SettleGivesUp ==
  ASSUME SessionAssumption, SessionInv, NEW p \in Pages, NEW ps \in PageStates,
         Settle(p, ps), ps.waiter = NoWaiter, ps.pendingNonce = 0,
         ps.candidate \in {page[p].candidate, NoCandidate},
         ps.active \in {page[p].active, NoSession}
  PROVE  GivesUp(p, ps, WaiterCall(p))
BY WithdrawalIs DEF Settle, GivesUp

\* Only what page p keeps changes, and its attempt stays as it is.
LEMMA KeepsAttempt ==
  ASSUME SessionInv, NEW p \in Pages, NEW ps,
         page' = [page EXCEPT ![p] = ps], UNCHANGED call,
         ps.waiter = page[p].waiter,
         ps.pendingNonce \in {0, page[p].pendingNonce},
         ps.candidate \in {page[p].candidate, NoCandidate},
         ps.active \in {page[p].active, NoSession}
  PROVE  GivesUp(p, ps, {})
<1>1. call' = Failed({})
  BY FailedNone DEF SessionInv
<1> QED
  BY <1>1 DEF GivesUp

\* startRoom threw.
LEMMA StartFailsInv ==
  ASSUME SessionAssumption, SessionInv, NEW c \in Calls, StartFails(c)
  PROVE  SessionInv'
<1> DEFINE p == call[c].page
           ps == [page[p] EXCEPT !.pendingPeer = NoPage, !.pendingNonce = 0]
<1>1. TypeOK /\ Numbered
  BY DEF SessionInv
<1>2. p \in Pages
  BY <1>1 DEF StartFails, Numbered
<1>3. page[p] \in PageStates
  BY <1>1, <1>2 DEF TypeOK
<1>4. 0 \in Number
  BY DEF Number, SessionAssumption
<1>5. ps \in PageStates /\ ps.pendingNonce = 0 /\ ps.waiter = page[p].waiter
      /\ ps.candidate = page[p].candidate /\ ps.active = page[p].active
  BY <1>3, <1>4 DEF PageStates
<1>6. page' = [page EXCEPT ![p] = ps] /\ call' = Failed({c})
      /\ net' = net /\ open' = open /\ events' = events
  BY <1>1, <1>2, <1>3 DEF StartFails, TypeOK, PageStates
<1>7. page[p].waiter.call # c
  <2>1. CASE page[p].waiter = NoWaiter
    BY <2>1 DEF NoWaiter, Calls
  <2>2. CASE page[p].waiter # NoWaiter
    BY <1>2, <2>2 DEF SessionInv, PageInv, Waiting, StartFails
  <2> QED
    BY <2>1, <2>2
<1>8. c # 0
  BY DEF Calls
<1>9. call[c].st = "starting"
  BY DEF StartFails
<1> HIDE DEF ps
<1>10. GivesUp(p, ps, {c})
  BY <1>5, <1>6, <1>7, <1>8, <1>9 DEF GivesUp
<1> QED
  BY <1>1, <1>2, <1>5, <1>6, <1>10, QuietStep DEF TypeOK

\* The waiter is settled with an error.
LEMMA HandshakeFailsInv ==
  ASSUME SessionAssumption, SessionInv, NEW p \in Pages, HandshakeFails(p)
  PROVE  SessionInv'
<1> DEFINE ps == Unwaited(page[p])
<1>1. TypeOK /\ page[p] \in PageStates
  BY DEF SessionInv, TypeOK
<1>2. ps \in PageStates /\ ps.waiter = NoWaiter /\ ps.pendingNonce = 0
      /\ ps.candidate = page[p].candidate /\ ps.active = page[p].active
  BY <1>1, UnwaitedIs
<1>3. Settle(p, ps) /\ net' = net \cup Withdrawal(p, page[p].waiter)
      /\ open' = open /\ events' = events
  BY DEF HandshakeFails
<1> HIDE DEF ps
<1>4. GivesUp(p, ps, WaiterCall(p))
  BY <1>2, <1>3, SettleGivesUp
<1>5. Withdrawal(p, page[p].waiter) \subseteq {m \in Messages : m.kind = "CANCEL"}
  BY WithdrawalIs
<1>6. net' \subseteq net \cup {m \in Messages : m.kind \in {"REJECT", "CANCEL", "END"}}
  BY <1>3, <1>5
<1> QED
  BY <1>1, <1>2, <1>3, <1>4, <1>6, QuietStep DEF TypeOK

\* The CONFIRM stream failed under its sender.
LEMMA ConfirmFailsInv ==
  ASSUME SessionAssumption, SessionInv, NEW m \in open, ConfirmFails(m)
  PROVE  SessionInv'
<1> DEFINE p == m.from
           ps == Unwaited(page[p])
<1>1. TypeOK /\ p \in Pages /\ page[p] \in PageStates
  BY DEF SessionInv, TypeOK, Messages
<1>2. ps \in PageStates /\ ps.waiter = NoWaiter /\ ps.pendingNonce = 0
      /\ ps.candidate = page[p].candidate /\ ps.active = page[p].active
  BY <1>1, UnwaitedIs
<1>3. m.kind = "CONFIRM" /\ open' = open \ {m} /\ events' = events
  BY DEF ConfirmFails
<1>4. events' \in 0 .. MaxEvents
  BY <1>1, <1>3 DEF TypeOK
<1>5. CASE page[p].waiter.call = m.of
  <2>1. Settle(p, ps) /\ net' = net \cup Withdrawal(p, page[p].waiter)
    BY <1>5 DEF ConfirmFails
  <2> HIDE DEF ps
  <2>2. GivesUp(p, ps, WaiterCall(p))
    BY <1>1, <1>2, <2>1, SettleGivesUp
  <2>3. Withdrawal(p, page[p].waiter) \subseteq {x \in Messages : x.kind = "CANCEL"}
    BY <1>1, WithdrawalIs
  <2>4. net' \subseteq net \cup {x \in Messages : x.kind \in {"REJECT", "CANCEL", "END"}}
    BY <2>1, <2>3
  <2>5. \A x \in open \ open' : x.kind # "ACK"
    BY <1>3
  <2> QED
    BY <1>1, <1>2, <1>3, <1>4, <2>2, <2>4, <2>5, QuietStep
<1>6. CASE page[p].waiter.call # m.of
  <2>1. UNCHANGED <<page, call, net>>
    BY <1>6 DEF ConfirmFails
  <2>2. page' = [page EXCEPT ![p] = page[p]]
    BY <1>1, <2>1 DEF TypeOK
  <2>3. GivesUp(p, page[p], {})
    BY <1>1, <2>1, <2>2, KeepsAttempt
  <2>4. \A x \in open \ open' : x.kind # "ACK"
    BY <1>3
  <2> QED
    BY <1>1, <1>3, <1>4, <2>1, <2>3, <2>4, QuietStep
<1> QED
  BY <1>5, <1>6

\* receiveHello's finally clause forgets the candidate its ACK was for.
LEMMA AckEndsInv ==
  ASSUME SessionAssumption, SessionInv, NEW m \in open, AckEnds(m)
  PROVE  SessionInv'
<1> DEFINE p == m.from
           mine == page[p].candidate = [peer |-> m.to, nonce |-> m.nonce,
                                        session |-> m.session]
           kept == IF mine /\ ~InSession(p) THEN NoCandidate ELSE page[p].candidate
           ps == [page[p] EXCEPT !.candidate = kept]
<1>1. TypeOK /\ p \in Pages /\ page[p] \in PageStates
  BY DEF SessionInv, TypeOK, Messages
<1>2. NoCandidate \in Sessions
  BY DEF NoCandidate, Sessions, Number, SessionAssumption
<1>3. ps \in PageStates /\ ps.waiter = page[p].waiter /\ ps.pendingNonce = page[p].pendingNonce
      /\ ps.candidate = kept /\ ps.active = page[p].active
  BY <1>1, <1>2 DEF PageStates
<1>4. m.kind = "ACK" /\ open' = open \ {m} /\ page' = [page EXCEPT ![p] = ps]
      /\ call' = call /\ net' = net /\ events' = events
  BY <1>1 DEF AckEnds, TypeOK, PageStates
<1>5. page[p].candidate \in Sessions
  BY <1>1 DEF PageStates
<1>6. kept # NoCandidate /\ page[p].active = NoSession =>
        ~ (m.to = kept.peer /\ m.nonce = kept.nonce /\ m.session = kept.session)
  BY <1>5 DEF InSession, Sessions
<1>7. kept \in {page[p].candidate, NoCandidate}
  OBVIOUS
<1> HIDE DEF ps, kept
<1>8. GivesUp(p, ps, {})
  BY <1>1, <1>3, <1>4, <1>7, KeepsAttempt
<1>9. \A x \in open \ open' : x = m
  BY <1>4
<1> QED
  BY <1>1, <1>3, <1>4, <1>6, <1>8, <1>9, QuietStep DEF TypeOK

\* The candidate's own timer.
LEMMA CandidateTimeoutInv ==
  ASSUME SessionAssumption, SessionInv, NEW p \in Pages, CandidateTimeout(p)
  PROVE  SessionInv'
<1> DEFINE ps == [page[p] EXCEPT !.candidate = NoCandidate]
<1>1. TypeOK /\ page[p] \in PageStates
  BY DEF SessionInv, TypeOK
<1>2. NoCandidate \in Sessions
  BY DEF NoCandidate, Sessions, Number, SessionAssumption
<1>3. ps \in PageStates /\ ps.waiter = page[p].waiter /\ ps.pendingNonce = page[p].pendingNonce
      /\ ps.candidate = NoCandidate /\ ps.active = page[p].active
  BY <1>1, <1>2 DEF PageStates
<1>4. page' = [page EXCEPT ![p] = ps] /\ call' = call /\ net' = net /\ open' = open
      /\ events' = events
  BY <1>1 DEF CandidateTimeout, TypeOK, PageStates
<1> HIDE DEF ps
<1>5. GivesUp(p, ps, {})
  BY <1>3, <1>4, KeepsAttempt
<1> QED
  BY <1>1, <1>3, <1>4, <1>5, QuietStep DEF TypeOK

\* A page that gives its attempt up, and says at most that it leaves.
LEMMA LeavingInv ==
  ASSUME SessionAssumption, SessionInv, NEW p \in Pages, NEW ps \in PageStates,
         Settle(p, ps), ps.waiter = NoWaiter, ps.pendingNonce = 0,
         ps.candidate \in {page[p].candidate, NoCandidate},
         ps.active = page[p].active \/ (ps.active = NoSession /\ ps.candidate = NoCandidate),
         net' \subseteq net \cup Withdrawal(p, page[p].waiter)
                  \cup {m \in Messages : m.kind = "END"},
         open' = open, events' \in 0 .. MaxEvents
  PROVE  SessionInv'
<1>1. GivesUp(p, ps, WaiterCall(p))
  BY SettleGivesUp
<1>2. Withdrawal(p, page[p].waiter) \subseteq {m \in Messages : m.kind = "CANCEL"}
  BY WithdrawalIs
<1>3. net' \subseteq net \cup {m \in Messages : m.kind \in {"REJECT", "CANCEL", "END"}}
  BY <1>2
<1>4. \A m \in open \ open' : FALSE
  OBVIOUS
<1> QED
  BY <1>1, <1>3, <1>4, QuietStep

\* A page that keeps its attempt, and at most loses its candidate.
LEMMA StayingInv ==
  ASSUME SessionAssumption, SessionInv, NEW p \in Pages, NEW ps \in PageStates,
         page' = [page EXCEPT ![p] = ps], UNCHANGED call,
         ps.waiter = page[p].waiter, ps.pendingNonce = page[p].pendingNonce,
         ps.candidate \in {page[p].candidate, NoCandidate},
         ps.active = page[p].active,
         net' \subseteq net \cup {m \in Messages : m.kind = "REJECT"},
         open' = open, events' \in 0 .. MaxEvents
  PROVE  SessionInv'
<1>1. GivesUp(p, ps, {})
  BY KeepsAttempt
<1>2. net' \subseteq net \cup {m \in Messages : m.kind \in {"REJECT", "CANCEL", "END"}}
  OBVIOUS
<1>3. \A m \in open \ open' : FALSE
  OBVIOUS
<1> QED
  BY <1>1, <1>2, <1>3, QuietStep

\* A page that does nothing at all.
LEMMA IdleInv ==
  ASSUME SessionAssumption, SessionInv, NEW p \in Pages, UNCHANGED <<page, call, open, events>>,
         net' \subseteq net \cup {m \in Messages : m.kind = "REJECT"}
  PROVE  SessionInv'
<1>1. TypeOK /\ page[p] \in PageStates
  BY DEF SessionInv, TypeOK
<1>2. page' = [page EXCEPT ![p] = page[p]]
  BY <1>1 DEF TypeOK
<1> QED
  BY <1>1, <1>2, StayingInv DEF TypeOK

\* receiveHelloReject settles the attempt it refuses.
LEMMA ReceiveRejectInv ==
  ASSUME SessionAssumption, SessionInv, NEW p \in Pages, NEW m \in net, ReceiveReject(p, m)
  PROVE  SessionInv'
<1> DEFINE w == page[p].waiter
           mine == w # NoWaiter /\ m.nonce = page[p].pendingNonce /\ m.nonce = w.nonce
           ps == Unwaited(page[p])
<1>1. TypeOK /\ page[p] \in PageStates
  BY DEF SessionInv, TypeOK
<1>2. ps \in PageStates /\ ps.waiter = NoWaiter /\ ps.pendingNonce = 0
      /\ ps.candidate = page[p].candidate /\ ps.active = page[p].active
  BY <1>1, UnwaitedIs
<1>3. CASE mine
  <2>1. Settle(p, ps) /\ net' = (net \ {m}) \cup Withdrawal(p, page[p].waiter)
        /\ open' = open /\ events' = events
    BY <1>3 DEF ReceiveReject
  <2>2. net' \subseteq net \cup Withdrawal(p, page[p].waiter) \cup {x \in Messages : x.kind = "END"}
    BY <2>1
  <2> HIDE DEF ps
  <2>3. ps.active = page[p].active \/ (ps.active = NoSession /\ ps.candidate = NoCandidate)
    BY <1>2
  <2>4. ps.candidate \in {page[p].candidate, NoCandidate} /\ events' \in 0 .. MaxEvents
    BY <1>1, <1>2, <2>1 DEF TypeOK
  <2>5. open' = open /\ ps.waiter = NoWaiter /\ ps.pendingNonce = 0 /\ ps \in PageStates
    BY <1>2, <2>1
  <2> QED
    BY <2>1, <2>2, <2>3, <2>4, <2>5, LeavingInv
<1>4. CASE ~mine
  BY <1>4, IdleInv DEF ReceiveReject
<1> QED
  BY <1>3, <1>4

\* SESSION_END of the session in force clears the page.
LEMMA ReceiveEndInv ==
  ASSUME SessionAssumption, SessionInv, NEW p \in Pages, NEW m \in net, ReceiveEnd(p, m)
  PROVE  SessionInv'
<1> DEFINE mine == InSession(p) /\ page[p].active.session = m.session
           ps == Cleared(page[p])
<1>1. TypeOK /\ page[p] \in PageStates
  BY DEF SessionInv, TypeOK
<1>2. ps \in PageStates /\ ps.waiter = NoWaiter /\ ps.pendingNonce = 0
      /\ ps.candidate = NoCandidate /\ ps.active = NoSession
  BY <1>1, ClearedIs
<1>3. CASE mine
  <2>1. Settle(p, ps) /\ net' = (net \ {m}) \cup Withdrawal(p, page[p].waiter)
        /\ open' = open /\ events' = events
    BY <1>3 DEF ReceiveEnd
  <2>2. net' \subseteq net \cup Withdrawal(p, page[p].waiter) \cup {x \in Messages : x.kind = "END"}
    BY <2>1
  <2> HIDE DEF ps
  <2> QED
    BY <1>1, <1>2, <2>1, <2>2, LeavingInv DEF TypeOK
<1>4. CASE ~mine
  BY <1>4, IdleInv DEF ReceiveEnd
<1> QED
  BY <1>3, <1>4

\* receiveHelloCancel drops the candidate, or clears the session it became.
LEMMA ReceiveCancelInv ==
  ASSUME SessionAssumption, SessionInv, NEW p \in Pages, NEW m \in net, ReceiveCancel(p, m)
  PROVE  SessionInv'
<1> DEFINE named == [peer |-> m.from, nonce |-> m.nonce, session |-> m.session]
           candidate == page[p].candidate = named
           session == ~candidate /\ page[p].active = named
<1>1. TypeOK /\ page[p] \in PageStates
  BY DEF SessionInv, TypeOK
<1>2. CASE session
  <2> DEFINE ps == Cleared(page[p])
  <2>1. ps \in PageStates /\ ps.waiter = NoWaiter /\ ps.pendingNonce = 0
        /\ ps.candidate = NoCandidate /\ ps.active = NoSession
    BY <1>1, ClearedIs
  <2>2. Settle(p, ps) /\ net' = (net \ {m}) \cup Withdrawal(p, page[p].waiter)
        /\ open' = open /\ events' = events
    BY <1>2 DEF ReceiveCancel
  <2>3. net' \subseteq net \cup Withdrawal(p, page[p].waiter) \cup {x \in Messages : x.kind = "END"}
    BY <2>2
  <2> HIDE DEF ps
  <2> QED
    BY <1>1, <2>1, <2>2, <2>3, LeavingInv DEF TypeOK
<1>3. CASE ~session
  <2> DEFINE kept == IF candidate THEN NoCandidate ELSE page[p].candidate
             ps == [page[p] EXCEPT !.candidate = kept]
  <2>1. NoCandidate \in Sessions
    BY DEF NoCandidate, Sessions, Number, SessionAssumption
  <2>2. ps \in PageStates /\ ps.waiter = page[p].waiter /\ ps.pendingNonce = page[p].pendingNonce
        /\ ps.candidate = kept /\ ps.active = page[p].active
    BY <1>1, <2>1 DEF PageStates
  <2>3. page' = [page EXCEPT ![p] = ps] /\ call' = call /\ open' = open /\ events' = events
        /\ net' = net \ {m}
    BY <1>1, <1>3 DEF ReceiveCancel, TypeOK, PageStates
  <2>4. kept \in {page[p].candidate, NoCandidate}
    OBVIOUS
  <2> HIDE DEF ps, kept
  <2>5. net' \subseteq net \cup {x \in Messages : x.kind = "REJECT"}
    BY <2>3
  <2> QED
    BY <1>1, <2>2, <2>3, <2>4, <2>5, StayingInv DEF TypeOK
<1> QED
  BY <1>2, <1>3

\* startRoom alone changes whether the page listens.
LEMMA StartRoomInv ==
  ASSUME SessionAssumption, SessionInv, NEW p \in Pages, StartRoom(p)
  PROVE  SessionInv'
<1> DEFINE ps == [page[p] EXCEPT !.listening = TRUE]
<1>1. TypeOK /\ page[p] \in PageStates
  BY DEF SessionInv, TypeOK
<1>2. ps \in PageStates /\ ps.waiter = page[p].waiter /\ ps.pendingNonce = page[p].pendingNonce
      /\ ps.candidate = page[p].candidate /\ ps.active = page[p].active
  BY <1>1 DEF PageStates
<1>3. page' = [page EXCEPT ![p] = ps] /\ call' = call /\ net' = net /\ open' = open
      /\ events' = events
  BY <1>1 DEF StartRoom, TypeOK, PageStates
<1> HIDE DEF ps
<1> QED
  BY <1>1, <1>2, <1>3, StayingInv DEF TypeOK

\* stopRoom says so to the peer of the session and clears the page.
LEMMA StopInv ==
  ASSUME SessionAssumption, SessionInv, NEW p \in Pages, Stop(p)
  PROVE  SessionInv'
<1> DEFINE cleared == Cleared(page[p])
           ps == [cleared EXCEPT !.listening = FALSE]
           a == page[p].active
           said == Message("END", p, a.peer, a.nonce, a.session, 0)
<1>1. TypeOK /\ page[p] \in PageStates /\ Settled(p)
  BY DEF SessionInv, TypeOK, PageInv
<1>2. cleared \in PageStates /\ cleared.waiter = NoWaiter /\ cleared.pendingNonce = 0
      /\ cleared.candidate = NoCandidate /\ cleared.active = NoSession
  BY <1>1, ClearedIs
<1>3. Settle(p, ps) /\ open' = open /\ events' = events + 1 /\ events < MaxEvents
      /\ net' = net \cup (IF a = NoSession THEN {} ELSE {said}) \cup Withdrawal(p, page[p].waiter)
  BY DEF Stop
<1>4. a # NoSession => said \in Messages /\ said.kind = "END"
  <2>1. a \in Sessions
    BY <1>1 DEF PageStates
  <2>2. a # NoSession => a.peer \in Pages
    BY <1>1 DEF Settled, InSession
  <2>3. 0 \in Number
    BY DEF Number, SessionAssumption
  <2> QED
    BY <2>1, <2>2, <2>3 DEF Message, Messages, Kinds, Sessions
<1> HIDE DEF cleared, said
<1>5. ps \in PageStates /\ ps.waiter = NoWaiter /\ ps.pendingNonce = 0
      /\ ps.candidate = NoCandidate /\ ps.active = NoSession
  BY <1>2 DEF PageStates
<1>6. events' \in 0 .. MaxEvents
  BY <1>1, <1>3 DEF TypeOK, SessionAssumption
<1>7. net' \subseteq net \cup Withdrawal(p, page[p].waiter) \cup {m \in Messages : m.kind = "END"}
  BY <1>3, <1>4
<1> HIDE DEF ps
<1> QED
  BY <1>3, <1>5, <1>6, <1>7, LeavingInv

\* A page that closes loses what it kept, its calls and its streams.
LEMMA CrashInv ==
  ASSUME SessionAssumption, SessionInv, NEW p \in Pages, Crash(p)
  PROVE  SessionInv'
<1> DEFINE C == {c \in Calls : call[c].page = p /\ call[c].st \in {"starting", "waiting"}}
<1>1. TypeOK
  BY DEF SessionInv
<1>2. EmptyPage \in PageStates /\ EmptyPage.waiter = NoWaiter /\ EmptyPage.pendingNonce = 0
      /\ EmptyPage.candidate = NoCandidate /\ EmptyPage.active = NoSession
  BY EmptyIs
<1>3. page' = [page EXCEPT ![p] = EmptyPage] /\ call' = Failed(C) /\ net' = net
      /\ open' = {m \in open : m.from # p} /\ events' = events + 1 /\ events < MaxEvents
  BY DEF Crash
<1>4. GivesUp(p, EmptyPage, C)
  BY <1>2, <1>3 DEF GivesUp
<1>5. events' \in 0 .. MaxEvents
  BY <1>1, <1>3 DEF TypeOK, SessionAssumption
<1>6. \A m \in open \ open' : m.from = p
  BY <1>3
<1>7. open' \subseteq open /\ net' \subseteq net
  BY <1>3
<1> QED
  BY <1>2, <1>4, <1>5, <1>6, <1>7, QuietStep

\* A page that keeps its attempt and its session: pings and failures only.
LEMMA PingingInv ==
  ASSUME SessionAssumption, SessionInv, NEW p \in Pages, NEW ps \in PageStates,
         page' = [page EXCEPT ![p] = ps], UNCHANGED <<call, net, open>>,
         ps.waiter = page[p].waiter, ps.pendingNonce = page[p].pendingNonce,
         ps.candidate = page[p].candidate, ps.active = page[p].active,
         events' \in 0 .. MaxEvents
  PROVE  SessionInv'
BY StayingInv

\* SESSION_PING leaves.
LEMMA HeartbeatInv ==
  ASSUME SessionAssumption, SessionInv, NEW p \in Pages, Heartbeat(p) \/ ResumeCheck(p)
  PROVE  SessionInv'
<1> DEFINE asked == [session |-> page[p].active.session, answered |-> FALSE]
<1>1. TypeOK /\ page[p] \in PageStates
  BY DEF SessionInv, TypeOK
<1>2. asked \in Pings
  BY <1>1 DEF PageStates, Sessions, Pings
<1>3. ASSUME NEW k \in PingKinds, page' = [page EXCEPT ![p].ping[k] = asked],
             UNCHANGED <<call, net, open>>, events' \in 0 .. MaxEvents
      PROVE  SessionInv'
  <2> DEFINE ps == [page[p] EXCEPT !.ping[k] = asked]
  <2>1. ps \in PageStates /\ ps.waiter = page[p].waiter /\ ps.pendingNonce = page[p].pendingNonce
        /\ ps.candidate = page[p].candidate /\ ps.active = page[p].active
    BY <1>1, <1>2 DEF PageStates
  <2>2. page' = [page EXCEPT ![p] = ps]
    BY <1>1, <1>3 DEF TypeOK, PageStates
  <2> HIDE DEF ps
  <2> QED
    BY <1>3, <2>1, <2>2, PingingInv
<1>4. "heartbeat" \in PingKinds /\ "resume" \in PingKinds
  BY DEF PingKinds
<1>5. CASE Heartbeat(p)
  BY <1>1, <1>3, <1>4, <1>5 DEF Heartbeat, TypeOK
<1>6. CASE ResumeCheck(p)
  <2>1. events' \in 0 .. MaxEvents
    BY <1>1, <1>6 DEF ResumeCheck, TypeOK, SessionAssumption
  <2> QED
    BY <1>3, <1>4, <1>6, <2>1 DEF ResumeCheck
<1> QED
  BY <1>5, <1>6

\* A ping is answered, or its answer is read, or it is excused.
LEMMA AnsweredInv ==
  ASSUME SessionAssumption, SessionInv, NEW p \in Pages,
         \/ HeartbeatExcused(p)
         \/ \E k \in PingKinds : PingAnswered(p, k)
         \/ \E q \in Pages, k \in PingKinds : Pong(p, q, k)
  PROVE  SessionInv'
<1>1. TypeOK /\ page[p] \in PageStates
  BY DEF SessionInv, TypeOK
<1>2. NoPing \in Pings /\ "heartbeat" \in PingKinds
  BY DEF NoPing, Pings, Number, SessionAssumption, PingKinds
<1>3. 0 \in 0 .. (FailureLimit - 1)
  BY DEF SessionAssumption
<1>4. ASSUME NEW k \in PingKinds, NEW to \in Pings, NEW f \in 0 .. (FailureLimit - 1),
             page' = [page EXCEPT ![p].ping[k] = to, ![p].failures = f],
             UNCHANGED <<call, net, open, events>>
      PROVE  SessionInv'
  <2> DEFINE ps == [page[p] EXCEPT !.ping[k] = to, !.failures = f]
  <2>1. ps \in PageStates /\ ps.waiter = page[p].waiter /\ ps.pendingNonce = page[p].pendingNonce
        /\ ps.candidate = page[p].candidate /\ ps.active = page[p].active
    BY <1>1 DEF PageStates
  <2>2. page' = [page EXCEPT ![p] = ps]
    BY <1>1, <1>4 DEF TypeOK, PageStates
  <2> HIDE DEF ps
  <2> QED
    BY <1>1, <1>4, <2>1, <2>2, PingingInv DEF TypeOK
<1>5. CASE HeartbeatExcused(p)
  <2>1. page' = [page EXCEPT ![p].ping["heartbeat"] = NoPing, ![p].failures = 0]
        /\ UNCHANGED <<call, net, open, events>>
    BY <1>5 DEF HeartbeatExcused
  <2> QED
    BY <1>2, <1>3, <1>4, <2>1
<1>6. ASSUME NEW k \in PingKinds, PingAnswered(p, k) PROVE SessionInv'
  <2> DEFINE f == IF page[p].active.session = page[p].ping[k].session THEN 0 ELSE page[p].failures
  <2>1. f \in 0 .. (FailureLimit - 1)
    BY <1>1, <1>3 DEF PageStates
  <2>2. page' = [page EXCEPT ![p].ping[k] = NoPing, ![p].failures = f]
        /\ UNCHANGED <<call, net, open, events>>
    BY <1>1, <1>6 DEF PingAnswered, TypeOK, PageStates
  <2> HIDE DEF f
  <2> QED
    BY <1>2, <1>4, <2>1, <2>2
<1>7. ASSUME NEW q \in Pages, NEW k \in PingKinds, Pong(p, q, k) PROVE SessionInv'
  <2> DEFINE ps == [page[p] EXCEPT !.ping[k].answered = TRUE]
  <2>1. ps \in PageStates /\ ps.waiter = page[p].waiter /\ ps.pendingNonce = page[p].pendingNonce
        /\ ps.candidate = page[p].candidate /\ ps.active = page[p].active
    BY <1>1 DEF PageStates, Pings
  <2>2. page' = [page EXCEPT ![p] = ps] /\ UNCHANGED <<call, net, open, events>>
    BY <1>1, <1>7 DEF Pong, TypeOK, PageStates
  <2> HIDE DEF ps
  <2> QED
    BY <1>1, <2>1, <2>2, PingingInv DEF TypeOK
<1> QED
  BY <1>5, <1>6, <1>7

\* A ping failed: the page counts it, or releases the session that is lost.
LEMMA PingFailsInv ==
  ASSUME SessionAssumption, SessionInv, NEW p \in Pages, NEW k \in PingKinds, PingFails(p, k)
  PROVE  SessionInv'
<1> DEFINE current == InSession(p) /\ page[p].active.session = page[p].ping[k].session
           lost == current /\ (k = "resume" \/ page[p].failures + 1 >= FailureLimit)
           counts == current /\ k = "heartbeat"
           done == [page[p] EXCEPT !.ping[k] = NoPing]
<1>1. TypeOK /\ page[p] \in PageStates
  BY DEF SessionInv, TypeOK
<1>2. NoPing \in Pings
  BY DEF NoPing, Pings, Number, SessionAssumption
<1>3. done \in PageStates /\ done.waiter = page[p].waiter /\ done.failures = page[p].failures
      /\ done.pendingNonce = page[p].pendingNonce
      /\ done.candidate = page[p].candidate /\ done.active = page[p].active
  BY <1>1, <1>2 DEF PageStates
<1>4. CASE lost
  <2> DEFINE ps == Cleared(done)
  <2>1. Settle(p, ps) /\ net' = net \cup Withdrawal(p, page[p].waiter) /\ open' = open
        /\ events' = events
    BY <1>4 DEF PingFails
  <2> HIDE DEF done
  <2>2. ps \in PageStates /\ ps.waiter = NoWaiter /\ ps.pendingNonce = 0
        /\ ps.candidate = NoCandidate /\ ps.active = NoSession
    BY <1>3, ClearedIs
  <2> HIDE DEF ps
  <2>3. net' \subseteq net \cup Withdrawal(p, page[p].waiter) \cup {x \in Messages : x.kind = "END"}
    BY <2>1
  <2> QED
    BY <1>1, <2>1, <2>2, <2>3, LeavingInv DEF TypeOK
<1>5. CASE ~lost
  <2> DEFINE f == IF counts THEN done.failures + 1 ELSE done.failures
             ps == [done EXCEPT !.failures = f]
  <2>1. page' = [page EXCEPT ![p] = ps] /\ UNCHANGED <<call, net, open, events>>
    <3>1. page' = [page EXCEPT ![p] = IF counts THEN [done EXCEPT !.failures = @ + 1] ELSE done]
          /\ call' = call /\ open' = open /\ events' = events /\ net' = net \cup {}
      BY <1>5 DEF PingFails
    <3> HIDE DEF done
    <3>2. ps = IF counts THEN [done EXCEPT !.failures = @ + 1] ELSE done
      BY <1>3 DEF PageStates
    <3> QED
      BY <3>1, <3>2
  <2>2. f \in 0 .. (FailureLimit - 1)
    <3>1. page[p].failures \in 0 .. (FailureLimit - 1) /\ FailureLimit \in Nat
      BY <1>1 DEF PageStates, SessionAssumption
    <3>2. counts => page[p].failures + 1 < FailureLimit
      BY <1>5, <3>1
    <3> QED
      BY <1>3, <3>1, <3>2
  <2> HIDE DEF done, f
  <2>3. ps \in PageStates /\ ps.waiter = page[p].waiter /\ ps.pendingNonce = page[p].pendingNonce
        /\ ps.candidate = page[p].candidate /\ ps.active = page[p].active
    BY <1>3, <2>2 DEF PageStates
  <2> HIDE DEF ps
  <2> QED
    BY <1>1, <2>1, <2>3, PingingInv DEF TypeOK
<1> QED
  BY <1>4, <1>5

-----------------------------------------------------------------------------
(* Steps that take something up: what each part of the invariant needs *)

\* No call is forgotten, taken back or given to another page.
CallsGrow ==
  \A c \in Calls : call[c].st # "unused" =>
    /\ call'[c].page = call[c].page
    /\ call'[c].st # "unused"
    /\ call[c].st # "starting" => call'[c].st # "starting"
    /\ call[c].st = "connected" => call'[c].st = "connected"

\* What carries the nonce n of page r is about the call for which r waits.
OwnedBy(n, s, r) == n \in Mine(r) => s \in WaiterCall(r)

\* If page r waits for call s, it has sent its CONFIRM.
KnownTo(s, r) == page[r].waiter # NoWaiter /\ page[r].waiter.call = s => page[r].waiter.confirm = s

\* A nonce that page r waits under, or has pending, was drawn for a call of r.
LEMMA MineDrawn ==
  ASSUME SessionInv, NEW r \in Pages, NEW n \in Mine(r)
  PROVE  n # 0 /\ Drawn(n, r)
<1>1. Waiting(r) /\ Pending(r)
  BY DEF SessionInv, PageInv
<1>2. n # 0 /\ (n = page[r].pendingNonce \/ n = page[r].waiter.nonce)
  BY DEF Mine
<1>3. CASE n = page[r].pendingNonce
  BY <1>1, <1>2, <1>3 DEF Pending
<1>4. CASE n = page[r].waiter.nonce
  <2>1. page[r].waiter # NoWaiter
    BY <1>2, <1>4 DEF NoWaiter
  <2> QED
    BY <1>1, <1>2, <1>4, <2>1 DEF Waiting
<1> QED
  BY <1>2, <1>3, <1>4

\* What another page's call drew is no business of page r.
LEMMA Foreign ==
  ASSUME SessionInv, NEW r \in Pages, NEW q, q # r
  PROVE  /\ \A n, s : (n # 0 => Drawn(n, q)) => OwnedBy(n, s, r)
         /\ \A s : call[s].page = q => KnownTo(s, r)
<1>1. \A n, s : (n # 0 => Drawn(n, q)) => OwnedBy(n, s, r)
  BY MineDrawn DEF OwnedBy, Drawn
<1>2. Waiting(r)
  BY DEF SessionInv, PageInv
<1>3. \A s : call[s].page = q => KnownTo(s, r)
  BY <1>2 DEF KnownTo, Waiting
<1> QED
  BY <1>1, <1>3

\* What is in the messages and in the pages is page r's own, as the invariant says.
LEMMA OwnCarriers ==
  ASSUME SessionInv, NEW r \in Pages
  PROVE  /\ \A m \in Posted : m.kind \in {"HELLO", "ACK"} => OwnedBy(m.nonce, SessionOf(m), r)
         /\ \A q \in Pages :
              /\ OwnedBy(page[q].candidate.nonce, page[q].candidate.session, r)
              /\ OwnedBy(page[q].active.nonce, page[q].active.session, r)
         /\ \A m \in Posted : m.kind = "CONFIRM" => KnownTo(m.session, r)
         /\ \A q \in Pages \ {r} : KnownTo(page[q].active.session, r)
<1>1. Owned(r) /\ Confirmed(r)
  BY DEF SessionInv, PageInv
<1> QED
  BY <1>1 DEF Owned, Confirmed, OwnedBy, KnownTo

\* The messages stay honest if the new ones are.
LEMMA HonestKept ==
  ASSUME SessionInv, CallsGrow,
         \A m \in Posted' : \/ m \in Posted
                            \/ m.kind \in {"REJECT", "CANCEL", "END"}
                            \/ /\ m.from # m.to
                               /\ Dialled(SessionOf(m))' /\ call'[SessionOf(m)].page = Dialler(m)
                               /\ m.nonce # 0 => Drawn(m.nonce, Dialler(m))'
                               /\ m.kind # "HELLO" => m.nonce # 0
                               /\ m.kind = "CONFIRM" => m.of = m.session
  PROVE  Honest'
<1> SUFFICES ASSUME NEW m \in Posted, m.kind \in {"HELLO", "ACK", "CONFIRM"}
             PROVE  /\ m.from # m.to
                    /\ Dialled(SessionOf(m))' /\ call'[SessionOf(m)].page = Dialler(m)
                    /\ m.nonce # 0 => Drawn(m.nonce, Dialler(m))'
                    /\ m.kind # "HELLO" => m.nonce # 0
                    /\ m.kind = "CONFIRM" => m.of = m.session
  BY DEF Honest, SessionOf, Dialler
<1>1. /\ m.from # m.to
      /\ Dialled(SessionOf(m)) /\ call[SessionOf(m)].page = Dialler(m)
      /\ m.nonce # 0 => Drawn(m.nonce, Dialler(m))
      /\ m.kind # "HELLO" => m.nonce # 0
      /\ m.kind = "CONFIRM" => m.of = m.session
  BY DEF SessionInv, Honest
<1> QED
  BY <1>1 DEF CallsGrow, Dialled, Drawn

\* The attempt of page r is as it was.
LEMMA AttemptKept ==
  ASSUME SessionInv, CallsGrow, NEW r \in Pages,
         page'[r].waiter = page[r].waiter,
         page'[r].pendingNonce \in {0, page[r].pendingNonce},
         \A c \in Calls : call[c].st # "unused" /\ call[c].page = r => call'[c] = call[c]
  PROVE  Waiting(r)' /\ Pending(r)'
<1>1. Waiting(r) /\ Pending(r)
  BY DEF SessionInv, PageInv
<1> QED
  BY <1>1 DEF CallsGrow, Waiting, Pending, Drawn

\* The candidate of page r is as it was, or gone.
LEMMA OfferedKept ==
  ASSUME SessionInv, CallsGrow, NEW r \in Pages,
         page'[r].candidate \in {page[r].candidate, NoCandidate},
         page'[r].active = NoSession => page[r].active = NoSession,
         \A m \in open \ open' : m.kind = "ACK" => m.from # r
  PROVE  Offered(r)'
<1>1. Offered(r)
  BY DEF SessionInv, PageInv
<1> DEFINE d == page[r].candidate
<1> SUFFICES ASSUME page'[r].candidate = d, d # NoCandidate PROVE Offered(r)'
  BY DEF Offered
<1>2. /\ d.peer \in Pages \ {r}
      /\ Dialled(d.session) /\ call[d.session].page = d.peer
      /\ d.nonce # 0 /\ Drawn(d.nonce, d.peer)
      /\ \/ page[r].active # NoSession
         \/ \E m \in open : m.kind = "ACK" /\ m.from = r /\ m.to = d.peer
                            /\ m.nonce = d.nonce /\ m.session = d.session
  BY <1>1 DEF Offered, InSession
<1>3. Dialled(d.session)' /\ call'[d.session].page = d.peer /\ Drawn(d.nonce, d.peer)'
  BY <1>2 DEF CallsGrow, Dialled, Drawn
<1>4. \/ page'[r].active # NoSession
      \/ \E m \in open' : m.kind = "ACK" /\ m.from = r /\ m.to = d.peer
                          /\ m.nonce = d.nonce /\ m.session = d.session
  BY <1>2
<1> QED
  BY <1>2, <1>3, <1>4 DEF Offered, InSession

\* The session of page r is as it was, or left.
LEMMA SettledKept ==
  ASSUME SessionInv, CallsGrow, NEW r \in Pages,
         page'[r].active \in {page[r].active, NoSession}
  PROVE  Settled(r)'
<1>1. Settled(r)
  BY DEF SessionInv, PageInv
<1> DEFINE a == page[r].active
<1> SUFFICES ASSUME page'[r].active = a, a # NoSession PROVE Settled(r)'
  BY DEF Settled, InSession
<1>2. /\ a.peer \in Pages
      /\ Dialled(a.session) /\ a.nonce # 0 /\ Drawn(a.nonce, call[a.session].page)
      /\ IF call[a.session].page = r THEN call[a.session].st = "connected"
         ELSE call[a.session].page = a.peer
  BY <1>1 DEF Settled, InSession
<1>3. /\ Dialled(a.session)' /\ call'[a.session].page = call[a.session].page
      /\ Drawn(a.nonce, call[a.session].page)'
      /\ call[a.session].st = "connected" => call'[a.session].st = "connected"
  BY <1>2 DEF CallsGrow, Dialled, Drawn
<1> QED
  BY <1>2, <1>3 DEF Settled, InSession

\* What carries the nonces of page r is as it was, or as it should be.
LEMMA OwnedKept ==
  ASSUME SessionInv, NEW r \in Pages,
         page'[r].waiter = page[r].waiter,
         page'[r].pendingNonce \in {0, page[r].pendingNonce},
         \A m \in Posted' : m.kind \in {"HELLO", "ACK"} =>
            m \in Posted \/ OwnedBy(m.nonce, SessionOf(m), r),
         \A q \in Pages : \A d : d = page'[q].candidate =>
            d \in {page[q].candidate, NoCandidate} \/ OwnedBy(d.nonce, d.session, r),
         \A q \in Pages : \A a : a = page'[q].active =>
            a \in {page[q].active, NoSession} \/ OwnedBy(a.nonce, a.session, r)
  PROVE  Owned(r)'
<1>1. /\ \A m \in Posted : m.kind \in {"HELLO", "ACK"} => OwnedBy(m.nonce, SessionOf(m), r)
      /\ \A q \in Pages :
           /\ OwnedBy(page[q].candidate.nonce, page[q].candidate.session, r)
           /\ OwnedBy(page[q].active.nonce, page[q].active.session, r)
  BY OwnCarriers
<1>2. Mine(r)' \subseteq Mine(r) /\ WaiterCall(r)' = WaiterCall(r)
  BY DEF Mine, WaiterCall
<1>3. \A n, s : OwnedBy(n, s, r) => (n \in Mine(r)' => s \in WaiterCall(r)')
  BY <1>2 DEF OwnedBy
<1>4. OwnedBy(NoCandidate.nonce, NoCandidate.session, r) /\ OwnedBy(NoSession.nonce, NoSession.session, r)
  BY DEF OwnedBy, Mine, NoCandidate, NoSession
<1>5. \A m \in Posted' : m.kind \in {"HELLO", "ACK"} => OwnedBy(m.nonce, SessionOf(m), r)
  BY <1>1
<1>6. \A q \in Pages : \A d : d = page'[q].candidate => OwnedBy(d.nonce, d.session, r)
  BY <1>1, <1>4
<1>7. \A q \in Pages : \A a : a = page'[q].active => OwnedBy(a.nonce, a.session, r)
  BY <1>1, <1>4
<1> HIDE DEF OwnedBy, Mine, WaiterCall
<1> QED
  BY <1>3, <1>5, <1>6, <1>7 DEF Owned, SessionOf

\* Whoever newly has seen a CONFIRM of the call of page r, r has sent it.
LEMMA ConfirmedKept ==
  ASSUME SessionInv, NEW r \in Pages,
         page'[r].waiter = page[r].waiter,
         \A m \in Posted' : m.kind = "CONFIRM" => m \in Posted \/ KnownTo(m.session, r),
         \A q \in Pages \ {r} : \A a : a = page'[q].active =>
            a \in {page[q].active, NoSession} \/ KnownTo(a.session, r)
  PROVE  Confirmed(r)'
<1> DEFINE w == page[r].waiter
<1> SUFFICES ASSUME w # NoWaiter PROVE Confirmed(r)'
  BY DEF Confirmed
<1>1. Waiting(r) /\ Confirmed(r)
  BY DEF SessionInv, PageInv
<1>2. w.confirm \in {0, w.call}
  BY <1>1 DEF Confirmed
<1>3. KnownTo(NoSession.session, r)
  BY <1>1 DEF KnownTo, NoSession, NoCandidate, Waiting, Calls
<1>4. \A m \in Posted' : m.kind = "CONFIRM" => KnownTo(m.session, r)
  BY OwnCarriers
<1>5. \A q \in Pages \ {r} : \A a : a = page'[q].active => KnownTo(a.session, r)
  BY OwnCarriers, <1>3
<1>6. \A s : KnownTo(s, r) /\ s = w.call => w.confirm = w.call
  BY DEF KnownTo
<1> HIDE DEF KnownTo
<1> QED
  BY <1>2, <1>4, <1>5, <1>6 DEF Confirmed

\* A page that waits for nothing owns nothing.
LEMMA NothingOwned ==
  ASSUME NEW r \in Pages, page'[r].waiter = NoWaiter, page'[r].pendingNonce = 0
  PROVE  Waiting(r)' /\ Pending(r)' /\ Owned(r)' /\ Confirmed(r)'
BY DEF Waiting, Pending, Owned, Confirmed, Mine, NoWaiter

\* A page that keeps its waiter, its candidate and its session.
LEMMA PageKept ==
  ASSUME SessionInv, CallsGrow, NEW r \in Pages,
         page'[r].waiter = page[r].waiter,
         page'[r].pendingNonce = page[r].pendingNonce,
         page'[r].candidate = page[r].candidate,
         page'[r].active = page[r].active,
         \A c \in Calls : call[c].st # "unused" /\ call[c].page = r => call'[c] = call[c],
         \A m \in open \ open' : m.kind = "ACK" => m.from # r,
         \A m \in Posted' : m.kind \in {"HELLO", "ACK"} =>
            m \in Posted \/ OwnedBy(m.nonce, SessionOf(m), r),
         \A m \in Posted' : m.kind = "CONFIRM" => m \in Posted \/ KnownTo(m.session, r),
         \A q \in Pages : \A d : d = page'[q].candidate =>
            d \in {page[q].candidate, NoCandidate} \/ OwnedBy(d.nonce, d.session, r),
         \A q \in Pages : \A a : a = page'[q].active =>
            a \in {page[q].active, NoSession}
            \/ (OwnedBy(a.nonce, a.session, r) /\ KnownTo(a.session, r))
  PROVE  PageInv(r)'
<1>1. Waiting(r)' /\ Pending(r)'
  BY AttemptKept
<1>2. Offered(r)'
  BY OfferedKept
<1>3. Settled(r)'
  BY SettledKept
<1>4. Owned(r)'
  BY OwnedKept
<1>5. Confirmed(r)'
  BY ConfirmedKept
<1> QED
  BY <1>1, <1>2, <1>3, <1>4, <1>5 DEF PageInv

-----------------------------------------------------------------------------
(* The steps that take something up *)

\* connectToPeer draws a number that nothing carries yet.
LEMMA ConnectInv ==
  ASSUME SessionAssumption, SessionInv, NEW p \in Pages, NEW q \in Pages, Connect(p, q)
  PROVE  SessionInv'
<1>1. TypeOK /\ Numbered /\ Honest
  BY DEF SessionInv
<1>2. PICK c \in Calls :
        /\ c = 1 + Cardinality({d \in Calls : call[d] # Unused})
        /\ p # q /\ ~InSession(p) /\ page[p].waiter = NoWaiter /\ page[p].pendingNonce = 0
        /\ page' = [page EXCEPT ![p].pendingPeer = q, ![p].pendingNonce = c]
        /\ call' = [call EXCEPT ![c] = [page |-> p, to |-> q, st |-> "starting"]]
        /\ UNCHANGED <<net, open, events>>
  BY DEF Connect
<1>3. PICK k \in Number : \A d \in Calls : call[d] = Unused <=> k < d
  BY <1>1 DEF Numbered
<1>4. k \in Nat /\ k =< MaxCalls /\ MaxCalls \in Nat
  BY DEF Number, SessionAssumption
<1>5. c = 1 + k
  <2>1. {d \in Calls : call[d] # Unused} = 1 .. k
    BY <1>3, <1>4 DEF Calls
  <2>2. Cardinality(1 .. k) = k
    BY <1>4, FS_Interval
  <2> QED
    BY <1>2, <2>1, <2>2
<1>6. call[c] = Unused /\ call[c].st = "unused"
  BY <1>3, <1>4, <1>5 DEF Calls, Unused
<1>7. \A d \in Calls : call'[d] = IF d = c THEN [page |-> p, to |-> q, st |-> "starting"] ELSE call[d]
  BY <1>1, <1>2 DEF TypeOK
<1>8. /\ page'[p].pendingNonce = c
      /\ \A r \in Pages : /\ page'[r].waiter = page[r].waiter
                          /\ page'[r].candidate = page[r].candidate
                          /\ page'[r].active = page[r].active
                          /\ r # p => page'[r].pendingNonce = page[r].pendingNonce
      /\ page' \in [Pages -> PageStates]
  <2> DEFINE ps == [page[p] EXCEPT !.pendingPeer = q, !.pendingNonce = c]
  <2>1. c \in Number /\ page \in [Pages -> PageStates]
    BY <1>1 DEF Calls, Number, TypeOK
  <2>2. /\ ps \in PageStates /\ ps.pendingNonce = c /\ ps.waiter = page[p].waiter
        /\ ps.candidate = page[p].candidate /\ ps.active = page[p].active
    BY <2>1 DEF PageStates
  <2>3. page' = [page EXCEPT ![p] = ps]
    BY <1>2, <2>1 DEF PageStates
  <2> HIDE DEF ps
  <2>4. page'[p] = ps /\ \A r \in Pages \ {p} : page'[r] = page[r]
    BY <2>1, <2>3
  <2>5. page' \in [Pages -> PageStates]
    BY <2>1, <2>2, <2>3
  <2> QED
    BY <2>2, <2>4, <2>5
<1>9. TypeOK'
  <2>1. [page |-> p, to |-> q, st |-> "starting"] \in
          [page : Pages \cup {NoPage}, to : Pages \cup {NoPage},
           st : {"unused", "starting", "waiting", "connected", "failed"}]
    OBVIOUS
  <2> QED
    BY <1>1, <1>2, <1>8, <2>1 DEF TypeOK
<1>10. CallsGrow
  BY <1>6, <1>7 DEF CallsGrow
<1>11. Numbered'
  <2>1. c \in Number /\ \A d \in Calls : call'[d] = Unused <=> c < d
    <3>1. [page |-> p, to |-> q, st |-> "starting"] # Unused
      BY DEF Unused
    <3>2. c \in Number
      BY DEF Calls, Number
    <3>3. \A d \in Calls : call'[d] = Unused <=> c < d
      BY <1>3, <1>4, <1>5, <1>7, <3>1 DEF Calls
    <3> QED
      BY <3>2, <3>3
  <2>2. \E j \in Number : \A d \in Calls : call'[d] = Unused <=> j < d
    BY <2>1
  <2>3. \A d \in Calls : call'[d].st = "unused" => call'[d] = Unused
    BY <1>1, <1>7 DEF Numbered
  <2>4. \A d \in Calls : call'[d].st # "unused" =>
          call'[d].page \in Pages /\ call'[d].to \in Pages /\ call'[d].page # call'[d].to
    BY <1>1, <1>2, <1>7 DEF Numbered
  <2> QED
    BY <2>2, <2>3, <2>4 DEF Numbered
<1>12. Posted' = Posted /\ net' = net /\ open' = open
  BY <1>2 DEF Posted
<1>13. Honest'
  BY <1>10, <1>12, HonestKept
<1>14. ASSUME NEW r \in Pages, r # p PROVE PageInv(r)'
  BY <1>6, <1>7, <1>8, <1>10, <1>12, <1>14, PageKept
<1>15. PageInv(p)'
  <2>1. Waiting(p)' /\ Confirmed(p)'
    BY <1>2, <1>8 DEF Waiting, Confirmed
  <2>2. Pending(p)'
    BY <1>7, <1>8 DEF Pending, Drawn
  <2>3. Offered(p)'
    BY <1>8, <1>10, <1>12, OfferedKept
  <2>4. Settled(p)'
    BY <1>8, <1>10, SettledKept
  <2>5. Mine(p)' = {c}
    <3>1. page'[p].waiter.nonce = 0 /\ c # 0
      BY <1>2, <1>8 DEF NoWaiter, Calls
    <3> QED
      BY <1>8, <3>1 DEF Mine
  <2>6. \A x : ~Drawn(c, x)
    BY <1>6 DEF Drawn
  <2>7. \A m \in Posted : m.kind \in {"HELLO", "ACK"} => m.nonce # c
    BY <1>1, <2>6 DEF Honest, Calls
  <2>8. \A r \in Pages : page[r].candidate.nonce # c /\ page[r].active.nonce # c
    <3> TAKE r \in Pages
    <3>1. Offered(r) /\ Settled(r) /\ c # 0
      BY DEF SessionInv, PageInv, Calls
    <3>2. page[r].candidate.nonce # c
      BY <2>6, <3>1 DEF Offered, NoCandidate
    <3>3. page[r].active.nonce # c
      BY <2>6, <3>1 DEF Settled, InSession, NoSession, NoCandidate
    <3> QED
      BY <3>2, <3>3
  <2>9. Owned(p)'
    BY <1>8, <1>12, <2>5, <2>7, <2>8 DEF Owned
  <2> QED
    BY <2>1, <2>2, <2>3, <2>4, <2>9 DEF PageInv
<1> QED
  BY <1>9, <1>11, <1>13, <1>14, <1>15 DEF SessionInv

\* startRoom returned: the call waits, or settles the one that waits and itself.
LEMMA DialInv ==
  ASSUME SessionAssumption, SessionInv, NEW c \in Calls, Dial(c)
  PROVE  SessionInv'
<1>a. PICK p : p = call[c].page
  OBVIOUS
<1>b. PICK n : n = page[p].pendingNonce
  OBVIOUS
<1>c. PICK waiter : waiter = [call |-> c, addr |-> call[c].to, nonce |-> n, confirm |-> 0]
  OBVIOUS
<1>d. PICK hello : hello = Message("HELLO", p, call[c].to, n, 0, c)
  OBVIOUS
<1> USE <1>a, <1>b, <1>c, <1>d
<1> DEFINE superseded == page[p].waiter # NoWaiter
           open1 == [page[p] EXCEPT !.listening = TRUE]
           ps == IF superseded THEN Unwaited(open1) ELSE [open1 EXCEPT !.waiter = waiter]
           gone == IF superseded THEN {c} \cup WaiterCall(p) ELSE {}
<1>1. TypeOK /\ Numbered /\ Honest
  BY DEF SessionInv
<1>2. call[c].st = "starting" /\ p \in Pages /\ call[c].to \in Pages /\ p # call[c].to /\ c # 0
  BY <1>1 DEF Dial, Numbered, Calls
<1>3. /\ page' = [page EXCEPT ![p] = ps]
      /\ call' = IF superseded THEN Failed(gone) ELSE [call EXCEPT ![c].st = "waiting"]
      /\ net' = net \cup Withdrawal(p, page[p].waiter) \cup {hello}
      /\ open' = open /\ events' = events
  <2>1. page' = [page EXCEPT ![p] = ps]
    BY DEF Dial
  <2> HIDE DEF ps
  <2> QED
    BY <2>1 DEF Dial
<1>4. page[p] \in PageStates
  BY <1>1, <1>2 DEF TypeOK
<1>5. n \in Number /\ 0 \in Number /\ c \in Number
  BY <1>4 DEF PageStates, Number, Calls, SessionAssumption
<1>6. open1 \in PageStates /\ open1.waiter = page[p].waiter /\ open1.pendingNonce = n
      /\ open1.candidate = page[p].candidate /\ open1.active = page[p].active
  BY <1>4 DEF PageStates
<1> HIDE DEF open1
<1>7. /\ ps \in PageStates /\ ps.candidate = page[p].candidate /\ ps.active = page[p].active
      /\ superseded => ps.waiter = NoWaiter /\ ps.pendingNonce = 0
      /\ ~superseded => ps.waiter = waiter /\ ps.pendingNonce = n
  <2>1. CASE superseded
    BY <1>6, <2>1, UnwaitedIs
  <2>2. CASE ~superseded
    BY <1>2, <1>5, <1>6, <2>2 DEF PageStates
  <2> QED
    BY <2>1, <2>2
<1> HIDE DEF ps
<1>8. page' \in [Pages -> PageStates] /\ page'[p] = ps /\ \A r \in Pages \ {p} : page'[r] = page[r]
  BY <1>1, <1>2, <1>3, <1>7 DEF TypeOK
<1>9. \A d \in gone : d \in Calls /\ call[d].page = p /\ call[d].st \in {"starting", "waiting"}
  BY <1>2, WithdrawalIs
<1>10. /\ call' \in [Calls -> [page : Pages \cup {NoPage}, to : Pages \cup {NoPage},
                               st : {"unused", "starting", "waiting", "connected", "failed"}]]
       /\ \A d \in Calls :
            /\ call'[d].page = call[d].page /\ call'[d].to = call[d].to
            /\ call[d].page # p => call'[d] = call[d]
            /\ call'[d].st = IF d \in gone THEN "failed"
                             ELSE IF d = c THEN "waiting" ELSE call[d].st
       /\ Numbered'
       /\ c \in gone => superseded
  <2>1. CASE superseded
    <3>1. call' = Failed(gone) /\ c \in gone
      BY <1>3, <2>1
    <3> HIDE DEF gone
    <3>2. \A d \in Calls : call[d].page # p => call'[d] = call[d]
      BY <1>9, <3>1 DEF Failed
    <3> QED
      BY <1>1, <1>9, <2>1, <3>1, <3>2, FailedOf
  <2>2. CASE ~superseded
    <3>1. call' = [call EXCEPT ![c].st = "waiting"] /\ gone = {}
      BY <1>3, <2>2
    <3>2. \A d \in Calls : call'[d] = IF d = c THEN [call[c] EXCEPT !.st = "waiting"] ELSE call[d]
      BY <1>1, <3>1 DEF TypeOK
    <3>3. [call[c] EXCEPT !.st = "waiting"] \in
            [page : Pages \cup {NoPage}, to : Pages \cup {NoPage},
             st : {"unused", "starting", "waiting", "connected", "failed"}]
      BY <1>1 DEF TypeOK
    <3>4. /\ call'[c].page = call[c].page /\ call'[c].to = call[c].to /\ call'[c].st = "waiting"
          /\ call'[c] # Unused /\ call[c] # Unused
      BY <1>1, <1>2, <3>2, <3>3 DEF TypeOK, Unused
    <3>5. \A d \in Calls : call'[d] = Unused <=> call[d] = Unused
      BY <3>2, <3>4
    <3>6. (\E k \in Number : \A d \in Calls : call[d] = Unused <=> k < d)
            => \E k \in Number : \A d \in Calls : call'[d] = Unused <=> k < d
      BY <3>5
    <3>7. \A d \in Calls : call'[d].st = "unused" => call'[d] = Unused
      BY <1>1, <3>2, <3>4 DEF Numbered
    <3>8. \A d \in Calls : call'[d].st # "unused" =>
            call'[d].page \in Pages /\ call'[d].to \in Pages /\ call'[d].page # call'[d].to
      BY <1>1, <1>2, <3>2, <3>4 DEF Numbered
    <3>9. Numbered'
      BY <1>1, <3>6, <3>7, <3>8 DEF Numbered
    <3>10. call' \in [Calls -> [page : Pages \cup {NoPage}, to : Pages \cup {NoPage},
                      st : {"unused", "starting", "waiting", "connected", "failed"}]]
      BY <1>1, <3>1, <3>3 DEF TypeOK
    <3>11. \A d \in Calls : /\ call'[d].page = call[d].page /\ call'[d].to = call[d].to
                            /\ call[d].page # p => call'[d] = call[d]
                            /\ call'[d].st = IF d = c THEN "waiting" ELSE call[d].st
      BY <3>2, <3>4
    <3> QED
      BY <3>1, <3>9, <3>10, <3>11
  <2> QED
    BY <2>1, <2>2
<1>11. CallsGrow
  <2>1. \A d \in gone : call[d].st # "connected"
    BY <1>9
  <2> HIDE DEF gone
  <2> QED
    BY <1>2, <1>10, <2>1 DEF CallsGrow
<1>12. /\ hello \in Messages /\ hello.kind = "HELLO" /\ hello.from = p /\ hello.to = call[c].to
       /\ hello.nonce = n /\ SessionOf(hello) = c
  BY <1>2, <1>5 DEF Message, Messages, Kinds, SessionOf
<1>13. Withdrawal(p, page[p].waiter) \subseteq {m \in Messages : m.kind = "CANCEL"}
  BY <1>2, WithdrawalIs
<1>14. TypeOK'
  BY <1>1, <1>3, <1>8, <1>10, <1>12, <1>13 DEF TypeOK
<1>15. \A m \in Posted' : m \in Posted \/ m.kind = "CANCEL" \/ m = hello
  BY <1>3, <1>13 DEF Posted
<1>16. n # 0 => Drawn(n, p)
  BY <1>2 DEF SessionInv, PageInv, Pending
<1>17. Drawn(n, p) => Drawn(n, p)'
  BY <1>11 DEF CallsGrow, Drawn
<1>18. Dialled(c)'
  BY <1>10 DEF Dialled
<1>19. Honest'
  <2>1. /\ hello.from # hello.to
        /\ Dialled(SessionOf(hello))' /\ call'[SessionOf(hello)].page = Dialler(hello)
        /\ hello.nonce # 0 => Drawn(hello.nonce, Dialler(hello))'
    <3>1. Dialler(hello) = p
      BY <1>12 DEF Dialler
    <3>2. SessionOf(hello)' = c
      BY <1>12 DEF SessionOf
    <3>3. call'[c].page = p
      BY <1>10
    <3>4. hello.nonce # 0 => Drawn(hello.nonce, p)'
      BY <1>12, <1>16, <1>17
    <3> QED
      BY <1>2, <1>12, <1>18, <3>1, <3>2, <3>3, <3>4
  <2> QED
    BY <1>11, <1>12, <1>15, <2>1, HonestKept
<1>20. ASSUME NEW r \in Pages, r # p PROVE PageInv(r)'
  <2>1. OwnedBy(hello.nonce, SessionOf(hello), r)
    BY <1>12, <1>16, <1>20, Foreign
  <2>2. \A q \in Pages : page'[q].candidate = page[q].candidate /\ page'[q].active = page[q].active
    BY <1>7, <1>8
  <2>3. \A m \in Posted' : m.kind \in {"HELLO", "ACK"} =>
            m \in Posted \/ OwnedBy(m.nonce, SessionOf(m), r)
    BY <1>15, <2>1
  <2>4. \A m \in Posted' : m.kind = "CONFIRM" => m \in Posted
    BY <1>12, <1>15
  <2>5. \A d \in Calls : call[d].page = r => call'[d] = call[d]
    BY <1>10, <1>20
  <2>6. page'[r] = page[r]
    BY <1>8, <1>20
  <2> QED
    BY <1>3, <1>11, <2>2, <2>3, <2>4, <2>5, <2>6, PageKept
<1>21. PageInv(p)'
  <2>1. Offered(p)'
    BY <1>2, <1>3, <1>7, <1>8, <1>11, OfferedKept
  <2>2. Settled(p)'
    BY <1>2, <1>7, <1>8, <1>11, SettledKept
  <2>3. CASE superseded
    <3>1. page'[p].waiter = NoWaiter /\ page'[p].pendingNonce = 0
      BY <1>7, <1>8, <2>3
    <3> QED
      BY <1>2, <2>1, <2>2, <3>1, NothingOwned DEF PageInv
  <2>4. CASE ~superseded
    <3>1. page'[p].waiter = waiter /\ page'[p].pendingNonce = n /\ WaiterCall(p) = {}
      BY <1>7, <1>8, <2>4 DEF WaiterCall, NoWaiter
    <3>2. waiter.call = c /\ waiter.addr = call[c].to /\ waiter.nonce = n /\ waiter.confirm = 0
      OBVIOUS
    <3>3. waiter # NoWaiter
      BY <1>2, <3>2 DEF NoWaiter
    <3>4. call'[c].page = p /\ call'[c].st = "waiting"
      BY <1>10, <2>4
    <3>5. Mine(p)' = {n} \ {0} /\ WaiterCall(p)' = {c}
      BY <1>2, <3>1, <3>2 DEF Mine, WaiterCall
    <3>6. n # 0 => n \in Mine(p)
      BY DEF Mine
    <3>7. Owned(p)'
      <4>1. n # 0 => /\ \A m \in Posted : ~(m.kind \in {"HELLO", "ACK"} /\ m.nonce = n)
                     /\ \A q \in Pages : page[q].candidate.nonce # n /\ page[q].active.nonce # n
        BY <1>2, <3>1, <3>6, OwnCarriers DEF OwnedBy
      <4>2. \A m \in Posted' : m.kind \in {"HELLO", "ACK"} /\ m.nonce = n /\ n # 0
                                 => SessionOf(m) = c
        BY <1>12, <1>15, <4>1
      <4>3. \A q \in Pages : page'[q].candidate = page[q].candidate /\ page'[q].active = page[q].active
        BY <1>7, <1>8
      <4> QED
        BY <3>5, <4>1, <4>2, <4>3 DEF Owned, SessionOf
    <3>8. Confirmed(p)'
      <4>1. ~Dialled(c)
        BY <1>2 DEF Dialled
      <4>2. \A m \in Posted' : m.kind = "CONFIRM" => m.session # c
        BY <1>1, <1>12, <1>15, <4>1 DEF Honest, SessionOf
      <4>3. \A q \in Pages : page'[q].active.session # c
        <5> TAKE q \in Pages
        <5>1. Settled(q) /\ page'[q].active = page[q].active
          BY <1>7, <1>8 DEF SessionInv, PageInv
        <5> QED
          BY <1>2, <4>1, <5>1 DEF Settled, InSession, NoSession, NoCandidate
      <4> QED
        BY <3>1, <3>2, <4>2, <4>3 DEF Confirmed
    <3>9. Waiting(p)'
      <4> QED
        BY <1>2, <1>16, <1>17, <3>1, <3>2, <3>4 DEF Waiting
    <3>10. Pending(p)'
      <4> QED
        BY <1>16, <1>17, <3>1, <3>3 DEF Pending
    <3> QED
      BY <2>1, <2>2, <3>7, <3>8, <3>9, <3>10 DEF PageInv
  <2> QED
    BY <2>3, <2>4
<1> QED
  BY <1>10, <1>14, <1>19, <1>20, <1>21 DEF SessionInv

\* receiveHello refuses, answers again for its session, or offers a new one.
LEMMA ReceiveHelloInv ==
  ASSUME SessionAssumption, SessionInv, NEW p \in Pages, NEW m \in net, ReceiveHello(p, m)
  PROVE  SessionInv'
<1>a. PICK a : a = page[p].active
  OBVIOUS
<1>b. PICK candidate : candidate = [peer |-> m.from, nonce |-> m.nonce, session |-> m.of]
  OBVIOUS
<1>c. PICK answer : answer = HelloAnswer(p, m)
  OBVIOUS
<1>d. PICK acks : acks = {x \in answer : x.kind = "ACK"}
  OBVIOUS
<1> DEFINE kept == IF acks # {} /\ ~InSession(p) THEN candidate ELSE page[p].candidate
           ps == [page[p] EXCEPT !.candidate = kept]
<1>1. TypeOK /\ Honest /\ m \in Messages /\ page[p] \in PageStates
  BY DEF SessionInv, TypeOK
<1>2. m.kind = "HELLO" /\ m.to = p /\ m \in Posted /\ SessionOf(m) = m.of /\ Dialler(m) = m.from
  BY DEF ReceiveHello, Reads, Posted, SessionOf, Dialler
<1>3. /\ m.from \in Pages /\ m.from # p
      /\ Dialled(m.of) /\ call[m.of].page = m.from
      /\ m.nonce # 0 => Drawn(m.nonce, m.from)
  BY <1>1, <1>2 DEF Honest, Messages
<1>4. page' = [page EXCEPT ![p].candidate = IF acks # {} /\ ~InSession(p) THEN candidate ELSE @]
      /\ net' = (net \ {m}) \cup answer /\ open' = open \cup acks
      /\ call' = call /\ events' = events
  BY <1>b, <1>c, <1>d DEF ReceiveHello
<1>5. candidate \in Sessions
  BY <1>1, <1>3, <1>b DEF Messages, Sessions
<1>6. page' = [page EXCEPT ![p] = ps]
  BY <1>1, <1>4 DEF TypeOK, PageStates
<1>7. /\ ps \in PageStates /\ ps.waiter = page[p].waiter /\ ps.pendingNonce = page[p].pendingNonce
      /\ ps.candidate = kept /\ ps.active = page[p].active
  BY <1>1, <1>5 DEF PageStates
<1> HIDE DEF ps
<1>8. page'[p] = ps /\ \A r \in Pages \ {p} : page'[r] = page[r]
  BY <1>1, <1>6 DEF TypeOK
<1>9. CASE acks = {}
  <2>1. kept = page[p].candidate
    BY <1>9
  <2>2. answer \subseteq {x \in Messages : x.kind = "REJECT"}
    <3>1. Message("REJECT", p, m.from, m.nonce, 0, m.of) \in Messages
      BY <1>1, <1>3 DEF Message, Messages, Kinds, Number, SessionAssumption
    <3>2. \A x \in answer : x.kind # "ACK"
      BY <1>9, <1>d
    <3>3. answer \subseteq {Message("REJECT", p, m.from, m.nonce, 0, m.of)}
      BY <1>c, <3>2 DEF HelloAnswer, Message
    <3>4. Message("REJECT", p, m.from, m.nonce, 0, m.of).kind = "REJECT"
      BY DEF Message
    <3> QED
      BY <3>1, <3>3, <3>4
  <2>3. net' \subseteq net \cup {x \in Messages : x.kind = "REJECT"} /\ open' = open
    BY <1>4, <1>9, <2>2
  <2> QED
    BY <1>1, <1>4, <1>6, <1>7, <2>1, <2>3, StayingInv DEF TypeOK
<1>10. CASE acks # {}
  <2>1. PICK s, ack :
          /\ ack = Message("ACK", p, m.from, m.nonce, s, m.of)
          /\ answer = {ack} /\ acks = {ack} /\ m.nonce # 0
          /\ \/ a # NoSession /\ a.peer = m.from /\ a.nonce = m.nonce /\ s = a.session
             \/ a = NoSession /\ s = m.of /\ page[p].candidate = NoCandidate
                /\ page[p].pendingNonce = 0
    <3>1. m.nonce # 0
      BY <1>10, <1>c, <1>d DEF HelloAnswer
    <3>2. CASE a # NoSession
      <4>1. a.peer = m.from /\ a.nonce = m.nonce
            /\ answer = {Message("ACK", p, m.from, m.nonce, a.session, m.of)}
        BY <1>10, <1>a, <1>c, <1>d, <3>1, <3>2 DEF HelloAnswer, Message
      <4>2. Message("ACK", p, m.from, m.nonce, a.session, m.of).kind = "ACK"
        BY DEF Message
      <4>3. acks = answer
        BY <1>d, <4>1, <4>2
      <4> QED
        BY <3>1, <3>2, <4>1, <4>3
    <3>3. CASE a = NoSession
      <4>1. page[p].candidate = NoCandidate /\ page[p].pendingNonce = 0
            /\ answer = {Message("ACK", p, m.from, m.nonce, m.of, m.of)}
        BY <1>10, <1>a, <1>c, <1>d, <3>1, <3>3 DEF HelloAnswer, Message
      <4>2. Message("ACK", p, m.from, m.nonce, m.of, m.of).kind = "ACK"
        BY DEF Message
      <4>3. acks = answer
        BY <1>d, <4>1, <4>2
      <4> QED
        BY <3>1, <3>3, <4>1, <4>3
    <3> QED
      BY <3>2, <3>3
  <2>2. s \in Number /\ Dialled(s) /\ call[s].page = m.from
    <3>1. CASE a # NoSession
      <4>1. Settled(p) /\ InSession(p)
        BY <1>a, <3>1 DEF SessionInv, PageInv, InSession
      <4>2. Dialled(a.session) /\ Drawn(a.nonce, call[a.session].page)
        BY <1>a, <4>1 DEF Settled
      <4>3. s = a.session /\ a.nonce = m.nonce
        BY <2>1, <3>1
      <4>4. call[s].page = m.from
        BY <1>3, <2>1, <4>2, <4>3 DEF Drawn
      <4> QED
        BY <4>2, <4>3, <4>4 DEF Dialled, Calls, Number
    <3>2. CASE a = NoSession
      BY <1>3, <2>1, <3>2 DEF Dialled, Calls, Number
    <3> QED
      BY <3>1, <3>2
  <2>3. /\ ack \in Messages /\ ack.kind = "ACK" /\ ack.from = p /\ ack.to = m.from
        /\ ack.nonce = m.nonce /\ ack.session = s /\ SessionOf(ack) = s /\ Dialler(ack) = m.from
    BY <1>1, <1>3, <2>1, <2>2 DEF Message, Messages, Kinds, SessionOf, Dialler
  <2>4. net' = (net \ {m}) \cup {ack} /\ open' = open \cup {ack}
    BY <1>4, <2>1
  <2>5. page' \in [Pages -> PageStates]
    BY <1>1, <1>6, <1>7 DEF TypeOK
  <2>6. TypeOK'
    BY <1>1, <1>4, <2>3, <2>4, <2>5 DEF TypeOK
  <2>7. CallsGrow
    BY <1>4 DEF CallsGrow
  <2>8. Numbered'
    BY <1>4 DEF SessionInv, Numbered
  <2>9. \A x \in Posted' : x \in Posted \/ x = ack
    BY <2>4 DEF Posted
  <2>10. Honest'
    <3>1. Dialled(s)' /\ call'[s].page = m.from /\ Drawn(m.nonce, m.from)'
      BY <1>3, <1>4, <2>1, <2>2 DEF Dialled, Drawn
    <3>2. SessionOf(ack)' = s
      BY <2>3 DEF SessionOf
    <3>3. Dialled(SessionOf(ack))' /\ Drawn(ack.nonce, Dialler(ack))'
      BY <2>3, <3>1, <3>2 DEF Dialler
    <3> QED
      BY <1>3, <2>1, <2>3, <2>7, <2>9, <3>1, <3>3, HonestKept
  <2>11. kept = page[p].candidate \/ (kept = candidate /\ a = NoSession)
    BY <1>a DEF InSession
  <2>12. ASSUME NEW r \in Pages
         PROVE  /\ OwnedBy(m.nonce, s, r)
                /\ a = NoSession => OwnedBy(candidate.nonce, candidate.session, r)
    <3>1. OwnedBy(m.nonce, m.of, r) /\ OwnedBy(a.nonce, a.session, r)
      BY <1>2, <1>a, OwnCarriers
    <3> QED
      BY <1>b, <2>1, <3>1
  <2>13. ASSUME NEW r \in Pages
         PROVE  /\ \A x \in Posted' : x.kind \in {"HELLO", "ACK"} =>
                     x \in Posted \/ OwnedBy(x.nonce, SessionOf(x), r)
                /\ \A x \in Posted' : x.kind = "CONFIRM" => x \in Posted
                /\ \A q \in Pages : \A d : d = page'[q].candidate =>
                     d \in {page[q].candidate, NoCandidate} \/ OwnedBy(d.nonce, d.session, r)
                /\ \A q \in Pages : page'[q].active = page[q].active
                /\ page'[r].waiter = page[r].waiter /\ page'[r].pendingNonce = page[r].pendingNonce
    BY <1>7, <1>8, <2>3, <2>9, <2>11, <2>12
  <2>14. \A x \in open \ open' : FALSE
    BY <2>4
  <2> HIDE DEF kept
  <2>15. ASSUME NEW r \in Pages, page'[r].candidate = page[r].candidate PROVE PageInv(r)'
    <3>1. \A c \in Calls : call[c].st # "unused" /\ call[c].page = r => call'[c] = call[c]
      BY <1>4
    <3>2. \A q \in Pages : \A x : x = page'[q].active => x \in {page[q].active, NoSession}
      BY <2>13
    <3> QED
      BY <2>7, <2>13, <2>14, <2>15, <3>1, <3>2, PageKept
  <2>16. ASSUME kept = candidate, a = NoSession PROVE PageInv(p)'
    <3>1. Waiting(p)' /\ Pending(p)'
      BY <1>4, <2>7, <2>13, AttemptKept
    <3>2. Settled(p)'
      BY <2>7, <2>13, SettledKept
    <3>3. Owned(p)'
      BY <2>13, OwnedKept
    <3>4. Confirmed(p)'
      BY <2>13, ConfirmedKept
    <3>5. Offered(p)'
      <4>1. s = m.of
        BY <2>1, <2>16
      <4>2. page'[p].candidate = candidate
        BY <1>7, <1>8, <2>16
      <4>3. candidate.peer = m.from /\ candidate.nonce = m.nonce /\ candidate.session = m.of
        BY <1>b
      <4>4. Dialled(m.of)' /\ call'[m.of].page = m.from /\ Drawn(m.nonce, m.from)'
        BY <1>3, <1>4, <2>1 DEF Dialled, Drawn
      <4>5. \E x \in open' : x.kind = "ACK" /\ x.from = p /\ x.to = m.from
                             /\ x.nonce = m.nonce /\ x.session = m.of
        BY <2>3, <2>4, <4>1
      <4> QED
        BY <1>3, <2>1, <4>2, <4>3, <4>4, <4>5 DEF Offered
    <3> QED
      BY <3>1, <3>2, <3>3, <3>4, <3>5 DEF PageInv
  <2>17. \A r \in Pages : PageInv(r)'
    BY <1>7, <1>8, <2>11, <2>15, <2>16
  <2> QED
    BY <2>6, <2>8, <2>10, <2>17 DEF SessionInv
<1> QED
  BY <1>9, <1>10

\* receiveHelloAck sends CONFIRM for the call that waits, or does nothing.
LEMMA ReceiveAckInv ==
  ASSUME SessionAssumption, SessionInv, NEW p \in Pages, NEW m \in net, ReceiveAck(p, m)
  PROVE  SessionInv'
<1>a. PICK w : w = page[p].waiter
  OBVIOUS
<1>b. PICK confirm : confirm = Message("CONFIRM", p, m.from, m.nonce, m.session, w.call)
  OBVIOUS
<1> DEFINE wanted == /\ w # NoWaiter
                     /\ m.nonce = page[p].pendingNonce
                     /\ m.nonce = w.nonce
                     /\ m.from = page[p].pendingPeer
                     /\ m.from = w.addr
           ps == [page[p] EXCEPT !.waiter.confirm = m.session]
<1>1. TypeOK /\ Honest /\ m \in Messages /\ page[p] \in PageStates
  BY DEF SessionInv, TypeOK
<1>2. m.kind = "ACK" /\ m.to = p /\ m \in Posted /\ SessionOf(m) = m.session /\ Dialler(m) = p
  BY DEF ReceiveAck, Reads, Posted, SessionOf, Dialler
<1>3. page' = [page EXCEPT ![p].waiter.confirm = IF wanted THEN m.session ELSE @]
      /\ net' = (net \ {m}) \cup (IF wanted THEN {confirm} ELSE {})
      /\ open' = open \cup (IF wanted THEN {confirm} ELSE {})
      /\ call' = call /\ events' = events
  BY <1>a, <1>b DEF ReceiveAck
<1>4. CASE ~wanted
  <2>1. page' = page
    <3>1. page' = [page EXCEPT ![p].waiter.confirm = @]
      BY <1>3, <1>4
    <3> QED
      BY <1>1, <3>1 DEF TypeOK, PageStates
  <2>2. net' \subseteq net \cup {x \in Messages : x.kind = "REJECT"} /\ open' = open
    BY <1>3, <1>4
  <2> QED
    BY <1>3, <2>1, <2>2, IdleInv
<1>5. CASE wanted
  <2>1. m.from \in Pages /\ m.from # p /\ m.nonce # 0 /\ Drawn(m.nonce, p)
        /\ Dialled(m.session) /\ call[m.session].page = p
    BY <1>1, <1>2 DEF Honest, Messages
  <2>2. m.session = w.call
    <3>1. m.nonce \in Mine(p)
      BY <1>5, <1>a, <2>1 DEF Mine
    <3>2. m.session \in WaiterCall(p)
      BY <1>2, <3>1, OwnCarriers DEF OwnedBy
    <3> QED
      BY <1>a, <3>2 DEF WaiterCall
  <2>3. page' = [page EXCEPT ![p] = ps] /\ net' = (net \ {m}) \cup {confirm}
        /\ open' = open \cup {confirm}
    <3>1. page' = [page EXCEPT ![p].waiter.confirm = m.session]
      BY <1>3, <1>5
    <3>2. page' = [page EXCEPT ![p] = ps]
      BY <1>1, <3>1 DEF TypeOK, PageStates
    <3> QED
      BY <1>3, <1>5, <3>2
  <2>4. /\ ps \in PageStates /\ ps.pendingNonce = page[p].pendingNonce
        /\ ps.candidate = page[p].candidate /\ ps.active = page[p].active
        /\ ps.waiter.call = w.call /\ ps.waiter.addr = w.addr /\ ps.waiter.nonce = w.nonce
        /\ ps.waiter.confirm = w.call
    BY <1>1, <1>a, <2>2 DEF PageStates, Messages
  <2> HIDE DEF ps
  <2>5. page'[p] = ps /\ (\A r \in Pages \ {p} : page'[r] = page[r])
        /\ page' \in [Pages -> PageStates]
    BY <1>1, <2>3, <2>4 DEF TypeOK
  <2>6. /\ confirm \in Messages /\ confirm.kind = "CONFIRM" /\ confirm.from = p
        /\ confirm.to = m.from /\ confirm.nonce = m.nonce /\ confirm.session = w.call
        /\ confirm.of = w.call
    <3>1. w.call \in Number
      BY <1>1, <1>a DEF PageStates
    <3> QED
      BY <1>1, <1>b, <2>1, <2>2, <3>1 DEF Message, Messages, Kinds
  <2>7. TypeOK'
    BY <1>1, <1>3, <2>3, <2>5, <2>6 DEF TypeOK
  <2>8. CallsGrow
    BY <1>3 DEF CallsGrow
  <2>9. Numbered'
    BY <1>3 DEF SessionInv, Numbered
  <2>10. \A x \in Posted' : x \in Posted \/ x = confirm
    BY <2>3 DEF Posted
  <2>11. Honest'
    <3>1. Dialled(w.call)' /\ call'[w.call].page = p /\ Drawn(m.nonce, p)'
      BY <1>3, <2>1, <2>2 DEF Dialled, Drawn
    <3>2. SessionOf(confirm) = w.call /\ SessionOf(confirm)' = w.call /\ Dialler(confirm) = p
      BY <2>6 DEF SessionOf, Dialler
    <3>3. Dialled(SessionOf(confirm))' /\ Drawn(confirm.nonce, Dialler(confirm))'
      BY <2>6, <3>1, <3>2 DEF Dialler
    <3> QED
      BY <2>1, <2>6, <2>8, <2>10, <3>1, <3>2, <3>3, HonestKept
  <2>12. /\ \A q \in Pages : page'[q].candidate = page[q].candidate /\ page'[q].active = page[q].active
         /\ \A q \in Pages : page'[q].pendingNonce = page[q].pendingNonce
         /\ \A x \in open \ open' : FALSE
         /\ \A x \in Posted' : x.kind \in {"HELLO", "ACK"} => x \in Posted
         /\ \A c \in Calls : call'[c] = call[c]
    BY <1>3, <2>3, <2>4, <2>5, <2>6, <2>10
  <2>13. ASSUME NEW r \in Pages, r # p PROVE PageInv(r)'
    <3>1. KnownTo(w.call, r)
      BY <2>1, <2>2, <2>13, Foreign
    <3>2. \A x \in Posted' : x.kind = "CONFIRM" => x \in Posted \/ KnownTo(x.session, r)
      BY <2>6, <2>10, <3>1
    <3>3. page'[r].waiter = page[r].waiter
      BY <2>5, <2>13
    <3> QED
      BY <2>8, <2>12, <3>2, <3>3, PageKept
  <2>14. PageInv(p)'
    <3>1. Offered(p)' /\ Settled(p)'
      BY <2>8, <2>12, OfferedKept, SettledKept
    <3>2. /\ page'[p].waiter.call = w.call /\ page'[p].waiter.addr = w.addr
          /\ page'[p].waiter.nonce = w.nonce /\ page'[p].waiter.confirm = w.call
          /\ page'[p].pendingNonce = page[p].pendingNonce
      BY <2>4, <2>5
    <3>3. w # NoWaiter /\ page[p].waiter = w
      BY <1>5, <1>a
    <3>4. Waiting(p) /\ Pending(p) /\ Owned(p)
      BY DEF SessionInv, PageInv
    <3>5. Waiting(p)'
      BY <1>3, <3>2, <3>3, <3>4 DEF Waiting, Drawn
    <3>6. page'[p].waiter # NoWaiter
      BY <3>2, <3>3, <3>4 DEF Waiting, NoWaiter, Calls
    <3>7. Pending(p)'
      BY <1>3, <3>2, <3>4, <3>6 DEF Pending, Drawn
    <3>8. Mine(p)' = Mine(p) /\ WaiterCall(p)' = WaiterCall(p)
      BY <3>2, <3>3 DEF Mine, WaiterCall
    <3>9. Owned(p)'
      BY <2>12, <3>4, <3>8 DEF Owned, SessionOf
    <3>10. Confirmed(p)'
      BY <3>2 DEF Confirmed
    <3> QED
      BY <3>1, <3>5, <3>7, <3>9, <3>10 DEF PageInv
  <2> QED
    BY <2>7, <2>9, <2>11, <2>13, <2>14 DEF SessionInv
<1> QED
  BY <1>4, <1>5

\* receiveHelloAck resumes: the call that still waits has its session.
LEMMA ConfirmClosesInv ==
  ASSUME SessionAssumption, SessionInv, NEW m \in open, ConfirmCloses(m)
  PROVE  SessionInv'
<1>a. PICK p : p = m.from
  OBVIOUS
<1>b. PICK w : w = page[p].waiter
  OBVIOUS
<1> DEFINE current == /\ w.call = m.of
                      /\ w.nonce = page[p].pendingNonce
                      /\ w.addr = page[p].pendingPeer
                      /\ ~InSession(p)
           kept == [page[p] EXCEPT !.waiter = NoWaiter]
           ps == Connected(kept, m.to, m.nonce, m.session)
<1>1. TypeOK /\ Numbered /\ Honest /\ m \in Messages
  BY DEF SessionInv, TypeOK
<1>2. p \in Pages /\ m.to \in Pages /\ m.nonce \in Number /\ m.session \in Number
      /\ page[p] \in PageStates
  BY <1>1, <1>a DEF TypeOK, Messages
<1>3. /\ m.kind = "CONFIRM" /\ open' = open \ {m} /\ net' = net \ {m} /\ events' = events
      /\ current => page' = [page EXCEPT ![p] = ps]
                    /\ call' = [call EXCEPT ![w.call].st = "connected"]
      /\ ~current => UNCHANGED <<page, call>>
  BY <1>a, <1>b DEF ConfirmCloses
<1>4. \A x \in open \ open' : x.kind # "ACK"
  BY <1>3
<1>5. CASE ~current
  <2>1. page' = [page EXCEPT ![p] = page[p]] /\ call' = call
    BY <1>1, <1>2, <1>3, <1>5 DEF TypeOK
  <2>2. GivesUp(p, page[p], {})
    BY <1>2, <2>1, KeepsAttempt
  <2>3. net' \subseteq net \cup {x \in Messages : x.kind \in {"REJECT", "CANCEL", "END"}}
        /\ events' \in 0 .. MaxEvents
    BY <1>1, <1>3 DEF TypeOK
  <2> QED
    BY <1>2, <1>3, <1>4, <2>2, <2>3, QuietStep
<1>6. CASE current
  <2>1. /\ m.of = m.session /\ w.call = m.session /\ m.nonce # 0 /\ Drawn(m.nonce, p)
        /\ Dialled(m.session) /\ call[m.session].page = p /\ m.session \in Calls
    <3>1. SessionOf(m) = m.session /\ Dialler(m) = p /\ m \in Posted
      BY <1>3, <1>a DEF SessionOf, Dialler, Posted
    <3> QED
      BY <1>1, <1>3, <1>6, <3>1 DEF Honest, Dialled
  <2>2. ~InSession(p) /\ page' = [page EXCEPT ![p] = ps]
        /\ call' = [call EXCEPT ![m.session].st = "connected"]
    BY <1>3, <1>6, <2>1
  <2>3. /\ ps \in PageStates /\ ps.waiter = NoWaiter /\ ps.pendingNonce = 0
        /\ ps.candidate = page[p].candidate
        /\ ps.active = [peer |-> m.to, nonce |-> m.nonce, session |-> m.session]
    <3>1. NoWaiter \in [call : Number, addr : Pages \cup {NoPage}, nonce : Number, confirm : Number]
      BY DEF NoWaiter, Number, SessionAssumption
    <3>2. kept \in PageStates /\ kept.waiter = NoWaiter /\ kept.candidate = page[p].candidate
      BY <1>2, <3>1 DEF PageStates
    <3> HIDE DEF kept
    <3> QED
      BY <1>2, <3>2, ConnectedIs
  <2> HIDE DEF ps
  <2>4. page'[p] = ps /\ (\A r \in Pages \ {p} : page'[r] = page[r])
        /\ page' \in [Pages -> PageStates]
    BY <1>1, <1>2, <2>2, <2>3 DEF TypeOK
  <2>5. /\ \A c \in Calls : /\ call'[c].page = call[c].page /\ call'[c].to = call[c].to
                            /\ call'[c].st = IF c = m.session THEN "connected" ELSE call[c].st
                            /\ c # m.session => call'[c] = call[c]
        /\ call' \in [Calls -> [page : Pages \cup {NoPage}, to : Pages \cup {NoPage},
                       st : {"unused", "starting", "waiting", "connected", "failed"}]]
    BY <1>1, <2>1, <2>2 DEF TypeOK
  <2>6. TypeOK'
    BY <1>1, <1>3, <2>4, <2>5 DEF TypeOK
  <2>7. CallsGrow
    BY <2>1, <2>5 DEF CallsGrow, Dialled
  <2>8. Numbered'
    <3>1. \A c \in Calls : call'[c] = Unused <=> call[c] = Unused
      <4> SUFFICES call'[m.session] # Unused /\ call[m.session] # Unused
        BY <2>5
      <4> QED
        BY <2>1, <2>5 DEF Dialled, Unused
    <3>2. (\E k \in Number : \A d \in Calls : call[d] = Unused <=> k < d)
            => \E k \in Number : \A d \in Calls : call'[d] = Unused <=> k < d
      BY <3>1
    <3>3. \A d \in Calls : call'[d].st = "unused" => call'[d] = Unused
      BY <1>1, <2>5 DEF Numbered
    <3>4. \A d \in Calls : call'[d].st # "unused" =>
            call'[d].page \in Pages /\ call'[d].to \in Pages /\ call'[d].page # call'[d].to
      BY <1>1, <2>1, <2>5 DEF Numbered, Dialled
    <3> QED
      BY <1>1, <3>2, <3>3, <3>4 DEF Numbered
  <2>9. Posted' \subseteq Posted
    BY <1>3 DEF Posted
  <2>10. Honest'
    BY <2>7, <2>9, HonestKept
  <2>11. ASSUME NEW r \in Pages, r # p PROVE PageInv(r)'
    <3>1. OwnedBy(m.nonce, m.session, r) /\ KnownTo(m.session, r)
      BY <2>1, <2>11, Foreign
    <3>2. \A q \in Pages : \A a : a = page'[q].active =>
            a \in {page[q].active, NoSession}
            \/ (OwnedBy(a.nonce, a.session, r) /\ KnownTo(a.session, r))
      BY <2>3, <2>4, <3>1
    <3>3. \A q \in Pages : \A d : d = page'[q].candidate => d = page[q].candidate
      BY <2>3, <2>4
    <3>4. \A c \in Calls : call[c].st # "unused" /\ call[c].page = r => call'[c] = call[c]
      BY <2>1, <2>5, <2>11
    <3>5. page'[r] = page[r]
      BY <2>4, <2>11
    <3> QED
      BY <1>4, <2>7, <2>9, <3>2, <3>3, <3>4, <3>5, PageKept
  <2>12. PageInv(p)'
    <3>1. Waiting(p)' /\ Pending(p)' /\ Owned(p)' /\ Confirmed(p)'
      BY <1>2, <2>3, <2>4, NothingOwned
    <3>2. page'[p].active # NoSession
      BY <2>1, <2>3, <2>4 DEF NoSession, NoCandidate
    <3>3. Offered(p)'
      BY <1>2, <1>4, <2>3, <2>4, <2>7, <3>2, OfferedKept
    <3>4. Settled(p)'
      <4>1. page'[p].active.peer = m.to /\ page'[p].active.nonce = m.nonce
            /\ page'[p].active.session = m.session
        BY <2>3, <2>4
      <4>2. Dialled(m.session)' /\ call'[m.session].page = p
            /\ call'[m.session].st = "connected" /\ Drawn(m.nonce, p)'
        BY <2>1, <2>5 DEF Dialled, Drawn
      <4> QED
        BY <1>2, <2>1, <4>1, <4>2 DEF Settled
    <3> QED
      BY <3>1, <3>3, <3>4 DEF PageInv
  <2> QED
    BY <2>6, <2>8, <2>10, <2>11, <2>12 DEF SessionInv
<1> QED
  BY <1>5, <1>6

\* receiveHelloConfirm makes the candidate the session.
LEMMA ReceiveConfirmInv ==
  ASSUME SessionAssumption, SessionInv, NEW p \in Pages, NEW m \in net, ReceiveConfirm(p, m)
  PROVE  SessionInv'
<1>a. PICK chosen : chosen = [peer |-> m.from, nonce |-> m.nonce, session |-> m.session]
  OBVIOUS
<1> DEFINE repeated == page[p].active = chosen
           accepted == ~InSession(p) /\ page[p].candidate = chosen
           kept == [page[p] EXCEPT !.candidate = NoCandidate]
           heard == [page[p] EXCEPT !.failures = 0]
           ps == IF accepted THEN Connected(kept, m.from, m.nonce, m.session)
                 ELSE IF repeated THEN heard ELSE page[p]
<1>1. TypeOK /\ Honest /\ m \in Messages /\ page[p] \in PageStates
  BY DEF SessionInv, TypeOK
<1>2. m.kind = "CONFIRM" /\ m \in Posted /\ m.from \in Pages /\ m.nonce \in Number
      /\ m.session \in Number
  BY <1>1 DEF ReceiveConfirm, Posted, Messages
<1>3. page' = [page EXCEPT ![p] = ps] /\ net' = net \ {m} /\ call' = call /\ open' = open
      /\ events' = events
  BY <1>1, <1>a DEF ReceiveConfirm, TypeOK
<1>4. CASE ~accepted
  <2>1. heard \in PageStates /\ heard.waiter = page[p].waiter
        /\ heard.pendingNonce = page[p].pendingNonce
        /\ heard.candidate = page[p].candidate /\ heard.active = page[p].active
    BY <1>1 DEF PageStates, SessionAssumption
  <2>2. ps = heard \/ ps = page[p]
    BY <1>4
  <2> HIDE DEF ps, heard
  <2>3. ps \in PageStates /\ ps.waiter = page[p].waiter /\ ps.pendingNonce = page[p].pendingNonce
        /\ ps.candidate = page[p].candidate /\ ps.active = page[p].active
    BY <1>1, <2>1, <2>2
  <2>4. net' \subseteq net \cup {x \in Messages : x.kind = "REJECT"} /\ events' \in 0 .. MaxEvents
    BY <1>1, <1>3 DEF TypeOK
  <2> QED
    BY <1>3, <2>3, <2>4, StayingInv
<1>5. CASE accepted
  <2>1. page[p].candidate = chosen /\ page[p].active = NoSession
        /\ chosen.peer = m.from /\ chosen.nonce = m.nonce /\ chosen.session = m.session
    BY <1>5, <1>a DEF InSession
  <2>2. /\ ps \in PageStates /\ ps.waiter = page[p].waiter /\ ps.pendingNonce = 0
        /\ ps.candidate = NoCandidate /\ ps.active = chosen
    <3>1. NoCandidate \in Sessions
      BY DEF NoCandidate, Sessions, Number, SessionAssumption
    <3>2. kept \in PageStates /\ kept.waiter = page[p].waiter /\ kept.candidate = NoCandidate
      BY <1>1, <3>1 DEF PageStates
    <3>3. ps = Connected(kept, m.from, m.nonce, m.session)
      BY <1>5
    <3> HIDE DEF kept, ps
    <3> QED
      BY <1>2, <1>a, <3>2, <3>3, ConnectedIs
  <2> HIDE DEF ps
  <2>3. page'[p] = ps /\ (\A r \in Pages \ {p} : page'[r] = page[r])
        /\ page' \in [Pages -> PageStates]
    BY <1>1, <1>3, <2>2 DEF TypeOK
  <2>4. TypeOK'
    BY <1>1, <1>3, <2>3 DEF TypeOK
  <2>5. CallsGrow
    BY <1>3 DEF CallsGrow
  <2>6. Numbered'
    BY <1>3 DEF SessionInv, Numbered
  <2>7. Posted' \subseteq Posted
    BY <1>3 DEF Posted
  <2>8. Honest'
    BY <2>5, <2>7, HonestKept
  <2>9. /\ m.from # p /\ m.nonce # 0 /\ Drawn(m.nonce, m.from)
        /\ Dialled(m.session) /\ call[m.session].page = m.from
        /\ chosen # NoCandidate
    <3>1. m.nonce # 0
      BY <1>1, <1>2 DEF Honest
    <3>2. chosen # NoCandidate
      BY <2>1, <3>1 DEF NoCandidate
    <3>3. Offered(p)
      BY DEF SessionInv, PageInv
    <3> QED
      BY <2>1, <3>1, <3>2, <3>3 DEF Offered
  <2>10. ASSUME NEW r \in Pages
         PROVE  /\ OwnedBy(m.nonce, m.session, r)
                /\ KnownTo(m.session, r)
    BY <1>2, <2>1, OwnCarriers
  <2>11. /\ \A q \in Pages : \A d : d = page'[q].candidate => d \in {page[q].candidate, NoCandidate}
         /\ \A c \in Calls : call'[c] = call[c]
         /\ \A x \in open \ open' : FALSE
    BY <1>3, <2>2, <2>3
  <2>12. ASSUME NEW r \in Pages
         PROVE  \A q \in Pages : \A a : a = page'[q].active =>
                  a \in {page[q].active, NoSession}
                  \/ (OwnedBy(a.nonce, a.session, r) /\ KnownTo(a.session, r))
    BY <2>1, <2>2, <2>3, <2>10
  <2>13. ASSUME NEW r \in Pages, r # p PROVE PageInv(r)'
    <3>1. page'[r] = page[r]
      BY <2>3, <2>13
    <3> QED
      BY <2>5, <2>7, <2>11, <2>12, <3>1, PageKept
  <2>14. PageInv(p)'
    <3>1. page'[p].waiter = page[p].waiter /\ page'[p].pendingNonce = 0
      BY <2>2, <2>3
    <3>2. Waiting(p)' /\ Pending(p)'
      BY <2>5, <2>11, <3>1, AttemptKept
    <3>3. Offered(p)'
      BY <2>2, <2>3 DEF Offered
    <3>4. Settled(p)'
      <4>1. page'[p].active.peer = m.from /\ page'[p].active.nonce = m.nonce
            /\ page'[p].active.session = m.session
        BY <2>1, <2>2, <2>3
      <4>2. Dialled(m.session)' /\ call'[m.session].page = m.from /\ Drawn(m.nonce, m.from)'
        BY <1>3, <2>9 DEF Dialled, Drawn
      <4> QED
        BY <1>2, <2>9, <4>1, <4>2 DEF Settled
    <3>5. Owned(p)'
      BY <2>7, <2>11, <2>12, <3>1, OwnedKept
    <3>6. Confirmed(p)'
      BY <2>7, <2>12, <3>1, ConfirmedKept
    <3> QED
      BY <3>2, <3>3, <3>4, <3>5, <3>6 DEF PageInv
  <2> QED
    BY <2>4, <2>6, <2>8, <2>13, <2>14 DEF SessionInv
<1> QED
  BY <1>4, <1>5

-----------------------------------------------------------------------------
(* The invariant, and what follows from it *)

\* A step that changes nothing.
LEMMA StutterInv ==
  ASSUME SessionInv, UNCHANGED vars
  PROVE  SessionInv'
BY DEF vars, SessionInv, TypeOK, Numbered, Honest, PageInv, Waiting, Pending, Offered, Settled,
       Owned, Confirmed, Mine, WaiterCall, Posted, SessionOf, Dialler, Dialled, Drawn, InSession

\* Every step of the program keeps the invariant.
LEMMA NextInv ==
  ASSUME SessionAssumption, SessionInv, [Next]_vars
  PROVE  SessionInv'
<1>1. ASSUME NEW p \in Pages, NEW q \in Pages, Connect(p, q) PROVE SessionInv'
  BY <1>1, ConnectInv
<1>2. ASSUME NEW c \in Calls, StartFails(c) \/ Dial(c) PROVE SessionInv'
  BY <1>2, StartFailsInv, DialInv
<1>3. ASSUME NEW p \in Pages, HandshakeFails(p) \/ CandidateTimeout(p) PROVE SessionInv'
  BY <1>3, HandshakeFailsInv, CandidateTimeoutInv
<1>4. ASSUME NEW p \in Pages, StartRoom(p) \/ Stop(p) \/ Crash(p) PROVE SessionInv'
  BY <1>4, StartRoomInv, StopInv, CrashInv
<1>5. ASSUME Receive PROVE SessionInv'
  <2>1. PICK p \in Pages, m \in net :
          \/ ReceiveHello(p, m) \/ ReceiveAck(p, m) \/ ReceiveConfirm(p, m)
          \/ ReceiveCancel(p, m) \/ ReceiveReject(p, m) \/ ReceiveEnd(p, m)
    BY <1>5 DEF Receive
  <2> QED
    BY <2>1, ReceiveHelloInv, ReceiveAckInv, ReceiveConfirmInv, ReceiveCancelInv,
       ReceiveRejectInv, ReceiveEndInv
<1>6. ASSUME ControlEnds PROVE SessionInv'
  BY <1>6, AckEndsInv, ConfirmClosesInv, ConfirmFailsInv DEF ControlEnds
<1>7. ASSUME Pinging PROVE SessionInv'
  BY <1>7, HeartbeatInv, AnsweredInv, PingFailsInv DEF Pinging
<1>8. ASSUME UNCHANGED vars PROVE SessionInv'
  BY <1>8, StutterInv
<1> QED
  BY <1>1, <1>2, <1>3, <1>4, <1>5, <1>6, <1>7, <1>8 DEF Next

\* The pages open with nothing.
LEMMA InitInv ==
  ASSUME SessionAssumption, Init
  PROVE  SessionInv
<1> DEFINE ps == [EmptyPage EXCEPT !.listening = TRUE]
<1>1. /\ ps \in PageStates /\ ps.waiter = NoWaiter /\ ps.pendingNonce = 0
      /\ ps.candidate = NoCandidate /\ ps.active = NoSession
  BY EmptyIs DEF EmptyPage
<1>2. \A p \in Pages : page[p] = ps
  BY DEF Init
<1>3. page \in [Pages -> PageStates]
  BY <1>1 DEF Init
<1> HIDE DEF ps
<1>4. TypeOK
  <2>1. Unused \in [page : Pages \cup {NoPage}, to : Pages \cup {NoPage},
                    st : {"unused", "starting", "waiting", "connected", "failed"}]
    BY DEF Unused
  <2>2. events \in 0 .. MaxEvents /\ net = {} /\ open = {}
    BY DEF Init, SessionAssumption
  <2> QED
    BY <1>3, <2>1, <2>2 DEF Init, TypeOK
<1>5. Numbered
  <2>1. 0 \in Number /\ \A c \in Calls : call[c] = Unused <=> 0 < c
    BY DEF Init, Number, Calls, SessionAssumption
  <2>2. \E k \in Number : \A c \in Calls : call[c] = Unused <=> k < c
    BY <2>1
  <2> QED
    BY <2>2 DEF Init, Numbered, Unused
<1>6. Honest
  BY DEF Init, Honest, Posted
<1>7. \A p \in Pages : PageInv(p)
  BY <1>1, <1>2 DEF PageInv, Waiting, Pending, Offered, Settled, Owned, Confirmed, Mine,
     NoWaiter, InSession
<1> QED
  BY <1>4, <1>5, <1>6, <1>7 DEF SessionInv

\* Nonces and session numbers stay with the page and the call they were drawn
\* for (connectToPeer, receiveHello and the awaits of app.js), so that the
\* checks of the handlers identify the attempt.
THEOREM SessionInvariant ==
  ASSUME SessionAssumption
  PROVE  Spec => []SessionInv
<1>1. Init => SessionInv
  BY InitInv
<1>2. SessionInv /\ [Next]_vars => SessionInv'
  BY NextInv
<1> QED
  BY <1>1, <1>2, PTL DEF Spec

\* The pages, calls and streams keep their shape; in particular the heartbeat of
\* app.js never leaves a page in a session with HEARTBEAT_FAILURE_LIMIT failures.
THEOREM SessionTypeCorrect ==
  ASSUME SessionAssumption
  PROVE  Spec => []TypeOK
<1>1. SessionInv => TypeOK
  BY DEF SessionInv
<1> QED
  BY <1>1, SessionInvariant, PTL

\* A connectToPeer that was reported as failed never opens the page's session,
\* whatever ACK or close of a CONFIRM comes back later.
THEOREM FailedStaysClosed ==
  ASSUME SessionAssumption
  PROVE  Spec => []FailedNeverOpens
<1>1. SessionInv => FailedNeverOpens
  <2> SUFFICES ASSUME SessionInv, NEW c \in Calls, call[c].st = "failed",
                      page[call[c].page].active.session = c
               PROVE  FALSE
    BY DEF FailedNeverOpens
  <2>1. call[c].page \in Pages
    BY DEF SessionInv, Numbered
  <2>2. Settled(call[c].page) /\ InSession(call[c].page)
    BY <2>1 DEF SessionInv, PageInv, InSession, NoSession, NoCandidate, Calls
  <2> QED
    BY <2>2 DEF Settled
<1> QED
  BY <1>1, SessionInvariant, PTL

\* When no connectToPeer of a page is in progress, the page holds no nonce and
\* no waiter that would refuse the next one, and no candidate without its ACK.
THEOREM AttemptsLeaveNothing ==
  ASSUME SessionAssumption
  PROVE  Spec => []FreeAgain
<1>1. SessionInv => FreeAgain
  <2> SUFFICES ASSUME SessionInv, NEW p \in Pages
               PROVE  /\ ~Busy(p) => page[p].pendingNonce = 0 /\ page[p].waiter = NoWaiter
                      /\ page[p].candidate # NoCandidate =>
                           \/ InSession(p)
                           \/ \E m \in open : m.kind = "ACK" /\ m.from = p
                                              /\ m.session = page[p].candidate.session
    BY DEF FreeAgain
  <2>1. Waiting(p) /\ Pending(p) /\ Offered(p)
    BY DEF SessionInv, PageInv
  <2>2. page[p].waiter # NoWaiter => Busy(p)
    BY <2>1 DEF Waiting, Busy
  <2>3. page[p].waiter = NoWaiter /\ page[p].pendingNonce # 0 => Busy(p)
    BY <2>1 DEF Pending, Drawn, Busy
  <2> QED
    BY <2>1, <2>2, <2>3 DEF Offered
<1> QED
  BY <1>1, SessionInvariant, PTL

\* receiveHello opens nothing by itself: as long as the page that dialled has
\* not sent its CONFIRM, the other page is not in the session it offered.
THEOREM ConfirmOpens ==
  ASSUME SessionAssumption
  PROVE  Spec => []OpenedByConfirm
<1>1. SessionInv => OpenedByConfirm
  <2> SUFFICES ASSUME SessionInv, NEW p \in Pages, NEW q \in Pages, InSession(q), p # q,
                      page[p].waiter.call = page[q].active.session
               PROVE  page[p].waiter.confirm = page[q].active.session
    BY DEF OpenedByConfirm
  <2>1. Confirmed(p) /\ Settled(q)
    BY DEF SessionInv, PageInv
  <2>2. page[q].active.session \in Calls
    BY <2>1 DEF Settled, Dialled
  <2>3. page[p].waiter # NoWaiter
    BY <2>2 DEF NoWaiter, Calls
  <2> QED
    BY <2>1, <2>3 DEF Confirmed
<1> QED
  BY <1>1, SessionInvariant, PTL

\* One page changes, and its session only to none or from none.
LEMMA ActiveOf ==
  ASSUME TypeOK, NEW p \in Pages, NEW ps, page' = [page EXCEPT ![p] = ps],
         ps.active \in {page[p].active, NoSession} \/ ~InSession(p)
  PROVE  \A r \in Pages : InSession(r) => page'[r].active \in {page[r].active, NoSession}
BY DEF TypeOK

\* The handlers replace no session: setPeerConnected is reached only without one.
LEMMA ActiveStep ==
  ASSUME SessionAssumption, SessionInv, Next
  PROVE  \A r \in Pages : InSession(r) => page'[r].active \in {page[r].active, NoSession}
<1> DEFINE Goal == \A r \in Pages : InSession(r) => page'[r].active \in {page[r].active, NoSession}
<1>1. TypeOK /\ Numbered /\ \A p \in Pages : page[p] \in PageStates
  BY DEF SessionInv, TypeOK
<1>2. \A ps \in PageStates : Unwaited(ps).active = ps.active /\ Cleared(ps).active = NoSession
                             /\ Cleared(ps) \in PageStates
  BY UnwaitedIs, ClearedIs
<1>3. ASSUME NEW p \in Pages, NEW ps, Settle(p, ps),
             ps.active \in {page[p].active, NoSession}
      PROVE  Goal
  BY <1>1, <1>3, ActiveOf DEF Settle
<1>4. ASSUME UNCHANGED page PROVE Goal
  BY <1>4
<1>5. ASSUME NEW p \in Pages,
             \A r \in Pages : r # p => page'[r] = page[r],
             page'[p].active \in {page[p].active, NoSession} \/ ~InSession(p)
      PROVE  Goal
  BY <1>5
<1>6. ASSUME NEW p \in Pages, NEW q \in Pages, Connect(p, q) PROVE Goal
  <2>1. PICK c \in Calls : page' = [page EXCEPT ![p].pendingPeer = q, ![p].pendingNonce = c]
    BY <1>6 DEF Connect
  <2>2. page'[p].active = page[p].active
    BY <1>1, <2>1 DEF TypeOK, PageStates
  <2> QED
    BY <1>1, <1>5, <2>1, <2>2 DEF TypeOK
<1>7. ASSUME NEW c \in Calls, StartFails(c) PROVE Goal
  <2>1. call[c].page \in Pages
    BY <1>1, <1>7 DEF StartFails, Numbered
  <2>2. page' = [page EXCEPT ![call[c].page].pendingPeer = NoPage, ![call[c].page].pendingNonce = 0]
    BY <1>7 DEF StartFails
  <2>3. page'[call[c].page].active = page[call[c].page].active
    BY <1>1, <2>1, <2>2 DEF TypeOK, PageStates
  <2> QED
    BY <1>1, <1>5, <2>1, <2>2, <2>3 DEF TypeOK
<1>8. ASSUME NEW c \in Calls, Dial(c) PROVE Goal
  <2> DEFINE p == call[c].page
             opened == [page[p] EXCEPT !.listening = TRUE]
             waiter == [call |-> c, addr |-> call[c].to, nonce |-> page[p].pendingNonce, confirm |-> 0]
             ps == IF page[p].waiter # NoWaiter THEN Unwaited(opened)
                   ELSE [opened EXCEPT !.waiter = waiter]
  <2>1. p \in Pages
    BY <1>1, <1>8 DEF Dial, Numbered
  <2>2. page' = [page EXCEPT ![p] = ps]
    BY <1>8 DEF Dial
  <2>3. opened \in PageStates /\ opened.active = page[p].active
    BY <1>1, <2>1 DEF PageStates
  <2> HIDE DEF opened, waiter
  <2>4. [opened EXCEPT !.waiter = waiter].active = opened.active
    BY <2>3 DEF PageStates
  <2>5. ps.active = page[p].active
    BY <1>2, <2>3, <2>4
  <2> HIDE DEF ps, p
  <2> QED
    BY <1>1, <2>1, <2>2, <2>5, ActiveOf
<1>9. ASSUME NEW p \in Pages, HandshakeFails(p) PROVE Goal
  BY <1>1, <1>2, <1>3, <1>9 DEF HandshakeFails
<1>10. ASSUME NEW p \in Pages, CandidateTimeout(p) \/ StartRoom(p) PROVE Goal
  <2>1. page'[p].active = page[p].active /\ \A r \in Pages : r # p => page'[r] = page[r]
    BY <1>1, <1>10 DEF CandidateTimeout, StartRoom, TypeOK, PageStates
  <2> QED
    BY <1>5, <2>1
<1>11. ASSUME NEW p \in Pages, Stop(p) PROVE Goal
  <2>1. Settle(p, [Cleared(page[p]) EXCEPT !.listening = FALSE])
    BY <1>11 DEF Stop
  <2>2. Cleared(page[p]) \in PageStates /\ Cleared(page[p]).active = NoSession
    BY <1>1, <1>2
  <2> HIDE DEF Cleared
  <2>3. [Cleared(page[p]) EXCEPT !.listening = FALSE].active = NoSession
    BY <2>2 DEF PageStates
  <2> QED
    BY <1>3, <2>1, <2>3
<1>12. ASSUME NEW p \in Pages, Crash(p) PROVE Goal
  BY <1>1, <1>12, EmptyIs, ActiveOf DEF Crash
<1>13. ASSUME NEW p \in Pages, NEW m \in net, ReceiveHello(p, m) PROVE Goal
  <2>1. PICK kept : page' = [page EXCEPT ![p].candidate = kept]
    <3>1. page' = [page EXCEPT ![p].candidate =
                     IF {a \in HelloAnswer(p, m) : a.kind = "ACK"} # {} /\ ~InSession(p)
                     THEN [peer |-> m.from, nonce |-> m.nonce, session |-> m.of]
                     ELSE page[p].candidate]
      BY <1>1, <1>13 DEF ReceiveHello, TypeOK, PageStates
    <3> QED
      BY <3>1
  <2>2. page'[p].active = page[p].active /\ \A r \in Pages : r # p => page'[r] = page[r]
    BY <1>1, <2>1 DEF TypeOK, PageStates
  <2> QED
    BY <1>5, <2>2
<1>14. ASSUME NEW p \in Pages, NEW m \in net, ReceiveAck(p, m) PROVE Goal
  <2>1. page'[p].active = page[p].active /\ \A r \in Pages : r # p => page'[r] = page[r]
    BY <1>1, <1>14 DEF ReceiveAck, TypeOK, PageStates
  <2> QED
    BY <1>5, <2>1
<1>15. ASSUME NEW p \in Pages, NEW m \in net, ReceiveConfirm(p, m) PROVE Goal
  <2>1. page'[p].active = page[p].active \/ ~InSession(p)
    <3> SUFFICES ASSUME InSession(p) PROVE page'[p].active = page[p].active
      OBVIOUS
    <3>1. page' = [page EXCEPT ![p] =
             IF page[p].active = [peer |-> m.from, nonce |-> m.nonce, session |-> m.session]
             THEN [page[p] EXCEPT !.failures = 0] ELSE page[p]]
      BY <1>1, <1>15 DEF ReceiveConfirm, TypeOK
    <3>2. [page[p] EXCEPT !.failures = 0].active = page[p].active
      BY <1>1 DEF PageStates
    <3> QED
      BY <1>1, <3>1, <3>2 DEF TypeOK
  <2>2. \A r \in Pages : r # p => page'[r] = page[r]
    BY <1>1, <1>15 DEF ReceiveConfirm, TypeOK
  <2> QED
    BY <1>5, <2>1, <2>2
<1>16. ASSUME NEW p \in Pages, NEW m \in net, ReceiveCancel(p, m) PROVE Goal
  <2> DEFINE named == [peer |-> m.from, nonce |-> m.nonce, session |-> m.session]
             session == page[p].candidate # named /\ page[p].active = named
  <2>1. CASE session
    BY <1>1, <1>2, <1>3, <1>16, <2>1 DEF ReceiveCancel
  <2>2. CASE ~session
    <3>1. page'[p].active = page[p].active /\ \A r \in Pages : r # p => page'[r] = page[r]
      BY <1>1, <1>16, <2>2 DEF ReceiveCancel, TypeOK, PageStates
    <3> QED
      BY <1>5, <3>1
  <2> QED
    BY <2>1, <2>2
<1>17. ASSUME NEW p \in Pages, NEW m \in net, ReceiveReject(p, m) \/ ReceiveEnd(p, m) PROVE Goal
  <2>1. \/ Settle(p, Unwaited(page[p])) \/ Settle(p, Cleared(page[p])) \/ UNCHANGED page
    BY <1>17 DEF ReceiveReject, ReceiveEnd
  <2> QED
    BY <1>1, <1>2, <1>3, <1>4, <2>1
<1>18. ASSUME NEW m \in open, AckEnds(m) PROVE Goal
  <2>1. m.from \in Pages
    BY <1>1 DEF TypeOK, Messages
  <2>2. page'[m.from].active = page[m.from].active
        /\ \A r \in Pages : r # m.from => page'[r] = page[r]
    BY <1>1, <1>18, <2>1 DEF AckEnds, TypeOK, PageStates
  <2> QED
    BY <1>5, <2>1, <2>2
<1>19. ASSUME NEW m \in open, ConfirmCloses(m) PROVE Goal
  <2>1. m.from \in Pages
    BY <1>1 DEF TypeOK, Messages
  <2>2. UNCHANGED page \/ (~InSession(m.from) /\ \A r \in Pages : r # m.from => page'[r] = page[r])
    BY <1>1, <1>19, <2>1 DEF ConfirmCloses, TypeOK
  <2> QED
    BY <1>4, <1>5, <2>1, <2>2
<1>20. ASSUME NEW m \in open, ConfirmFails(m) PROVE Goal
  <2>1. m.from \in Pages
    BY <1>1 DEF TypeOK, Messages
  <2>2. Settle(m.from, Unwaited(page[m.from])) \/ UNCHANGED page
    BY <1>20 DEF ConfirmFails
  <2> QED
    BY <1>1, <1>2, <1>3, <1>4, <2>1, <2>2
<1>21. ASSUME NEW p \in Pages, Heartbeat(p) \/ ResumeCheck(p) \/ HeartbeatExcused(p) PROVE Goal
  <2>1. page'[p].active = page[p].active /\ \A r \in Pages : r # p => page'[r] = page[r]
    BY <1>1, <1>21 DEF Heartbeat, ResumeCheck, HeartbeatExcused, TypeOK, PageStates
  <2> QED
    BY <1>5, <2>1
<1>22. ASSUME NEW p \in Pages, NEW q \in Pages, NEW k \in PingKinds,
              PingAnswered(p, k) \/ Pong(p, q, k) PROVE Goal
  <2>1. page'[p].active = page[p].active /\ \A r \in Pages : r # p => page'[r] = page[r]
    BY <1>1, <1>22 DEF PingAnswered, Pong, TypeOK, PageStates
  <2> QED
    BY <1>5, <2>1
<1>23. ASSUME NEW p \in Pages, NEW k \in PingKinds, PingFails(p, k) PROVE Goal
  <2> DEFINE done == [page[p] EXCEPT !.ping[k] = NoPing]
  <2>1. NoPing \in Pings
    BY DEF NoPing, Pings, Number, SessionAssumption
  <2>2. done \in PageStates /\ done.active = page[p].active
        /\ [done EXCEPT !.failures = @ + 1].active = page[p].active
    BY <1>1, <2>1 DEF PageStates
  <2>3. \/ Settle(p, Cleared(done))
        \/ page' = [page EXCEPT ![p] = [done EXCEPT !.failures = @ + 1]]
        \/ page' = [page EXCEPT ![p] = done]
    BY <1>23 DEF PingFails
  <2> HIDE DEF done
  <2>4. CASE Settle(p, Cleared(done))
    BY <1>2, <1>3, <2>2, <2>4
  <2>5. CASE page' = [page EXCEPT ![p] = [done EXCEPT !.failures = @ + 1]]
    BY <1>1, <2>2, <2>5, ActiveOf
  <2>6. CASE page' = [page EXCEPT ![p] = done]
    BY <1>1, <2>2, <2>6, ActiveOf
  <2> QED
    BY <2>3, <2>4, <2>5, <2>6
<1> HIDE DEF Goal
<1>24. ASSUME Receive PROVE Goal
  BY <1>13, <1>14, <1>15, <1>16, <1>17, <1>24 DEF Receive
<1>25. ASSUME ControlEnds PROVE Goal
  BY <1>18, <1>19, <1>20, <1>25 DEF ControlEnds
<1>26. ASSUME Pinging PROVE Goal
  BY <1>21, <1>22, <1>23, <1>26 DEF Pinging
<1>27. Goal
  BY <1>6, <1>7, <1>8, <1>9, <1>10, <1>11, <1>12, <1>24, <1>25, <1>26 DEF Next
<1> QED
  BY <1>27 DEF Goal

\* setPeerConnected never runs over a session in force: whatever handshakes
\* cross, a page leaves its session before it begins another.
THEOREM SessionsAreNotReplaced ==
  ASSUME SessionAssumption
  PROVE  Spec => NeverReplaced
<1>1. SessionInv /\ Next =>
        \A p \in Pages : InSession(p) => page'[p].active \in {page[p].active, NoSession}
  BY ActiveStep
<1>2. SessionInv /\ [Next]_vars =>
        [\A p \in Pages : InSession(p) => page'[p].active \in {page[p].active, NoSession}]_vars
  BY <1>1
<1> QED
  BY <1>2, SessionInvariant, PTL DEF Spec, NeverReplaced
=============================================================================
