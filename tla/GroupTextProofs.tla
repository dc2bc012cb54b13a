--------------------------- MODULE GroupTextProofs ---------------------------
(***************************************************************************)
(* What becomes of a member's texts, for every number of members, texts    *)
(* and streams and every size of the buffers: a text enters the log again  *)
(* only after the deduper has had to forget it, and a sender is told of a  *)
(* failure only when the log does not hold the text, or a resync skipped   *)
(* it.  With these, and as long as no text is committed twice, the ordered *)
(* room keeps the promise of RoomLog, and the texts of a member their      *)
(* order.  In the end, that the list of members which a member keeps is    *)
(* the one of the log.                                                     *)
(***************************************************************************)
EXTENDS GroupLogProofs

-----------------------------------------------------------------------------
(* The deduper *)

By(n, m) == log[n].type = "TEXT" /\ log[n].who = m

\* The texts, other than the one of event i, that its sender committed before j.
Others(i, j) ==
    {log[n].id : n \in {x \in (i + 1)..(j - 1) : By(x, log[i].who)}} \ {log[i].id}

RepeatsApart ==
    \A m \in Member : \A i, j \in 1..Len(log) :
        By(i, m) /\ log[j] = log[i] /\ i < j => Cardinality(Others(i, j)) >= DedupeMax

\* The deduper of m holds the newest texts of m, each once.
Entries(m) ==
    \A e \in dedupe[m] : e.seq \in 1..Len(log) /\ IsText(e.seq, m, e.id)
Single(m) == \A e, f \in dedupe[m] : e.id = f.id => e = f
Newest(m) ==
    /\ Cardinality(dedupe[m]) <= DedupeMax
    /\ \A n \in 1..Len(log) : By(n, m) =>
          \/ \E e \in dedupe[m] : e.seq = n
          \/ /\ Cardinality(dedupe[m]) = DedupeMax
             /\ \A e \in dedupe[m] : n < e.seq

Kept(m) == IsFiniteSet(dedupe[m]) /\ Entries(m) /\ Single(m) /\ Newest(m)

\* What m submits are its texts.
Named(m) == \A n \in 1..Len(log) : By(n, m) => log[n].id \in Text

DedupeInv == TypeOK /\ (\A m \in Member : Kept(m) /\ Named(m)) /\ RepeatsApart

LEMMA Least ==
    ASSUME NEW S \in SUBSET Nat, S # {}
    PROVE  \E x \in S : \A y \in S : x <= y
<1> DEFINE T == {0..x : x \in S}
<1>1. \A x \in S : (0..x) \in FiniteSubsetsOf(Nat)
  BY FS_Interval DEF FiniteSubsetsOf
<1>2. T \subseteq FiniteSubsetsOf(Nat) /\ T # {}
  BY <1>1
<1>3. \E t \in T : \A u \in T : ~ (<<u, t>> \in StrictSubsetOrdering(Nat))
  <2> HIDE DEF T
  <2> QED BY <1>2, FS_StrictSubsetOrderingWellFounded, WFMin
<1>4. PICK x \in S : \A y \in S : ~ (<<0..y, 0..x>> \in StrictSubsetOrdering(Nat))
  BY <1>3
<1>5. ASSUME NEW y \in S PROVE x <= y
  <2> SUFFICES ASSUME y < x PROVE FALSE
    OBVIOUS
  <2>1. (0..y) \in SUBSET Nat /\ (0..x) \in SUBSET Nat
    OBVIOUS
  <2>2. 0..y \subseteq 0..x /\ 0..y # 0..x
    <3>1. x \in 0..x /\ x \notin 0..y
      OBVIOUS
    <3> QED BY <3>1
  <2> QED BY <1>4, <2>1, <2>2 DEF StrictSubsetOrdering
<1> QED BY <1>5

\* What Remember makes of d: the entry is in, and at most the oldest is out.
LEMMA Remembered ==
    ASSUME NEW d \in SUBSET [id : Text, seq : Nat], IsFiniteSet(d), Cardinality(d) <= DedupeMax,
           NEW k \in Text, NEW n \in Nat, \A e \in d : e.seq < n
    PROVE  LET new == [id |-> k, seq |-> n]
               r   == Remember(d, k, n)
           IN  /\ IsFiniteSet(r) /\ Cardinality(r) <= DedupeMax
               /\ new \in r /\ r \subseteq d \cup {new}
               /\ \/ r = d \cup {new}
                  \/ /\ Cardinality(r) = DedupeMax
                     /\ \E old \in d : r = (d \cup {new}) \ {old} /\ \A f \in r : old.seq <= f.seq
<1> DEFINE new == [id |-> k, seq |-> n]
           all == d \cup {new}
           oldest == CHOOSE e \in all : \A f \in all : e.seq <= f.seq
<1>1. Remember(d, k, n) = IF Cardinality(all) > DedupeMax THEN all \ {oldest} ELSE all
  BY DEF Remember
<1>2. new \notin d
  BY DEF Text
<1>3. /\ IsFiniteSet(all) /\ Cardinality(all) = Cardinality(d) + 1
      /\ Cardinality(d) \in Nat /\ DedupeMax \in Nat /\ DedupeMax # 0
  BY <1>2, FS_AddElement, FS_CardinalityType, GroupLogAssumption
<1>4. oldest \in all /\ \A f \in all : oldest.seq <= f.seq
  <2> DEFINE S == {e.seq : e \in all}
  <2>1. S \in SUBSET Nat /\ S # {}
    <3>1. \A e \in all : e.seq \in Nat
      OBVIOUS
    <3>2. new \in all
      OBVIOUS
    <3> HIDE DEF all
    <3> QED BY <3>1, <3>2
  <2>2. \E x \in S : \A y \in S : x <= y
    <3> HIDE DEF S
    <3> QED BY <2>1, Least
  <2>3. \E e \in all : \A f \in all : e.seq <= f.seq
    BY <2>2
  <2> QED BY <2>3
<1>5. new.seq = n
  OBVIOUS
<1>6. CASE Cardinality(all) > DedupeMax
  <2>1. Remember(d, k, n) = all \ {oldest} /\ Cardinality(d) = DedupeMax
    BY <1>1, <1>3, <1>6
  <2>2. oldest # new
    <3>1. d # {}
      BY <1>3, <2>1, FS_EmptySet
    <3>2. PICK e \in d : TRUE
      BY <3>1
    <3>3. e.seq < n /\ e.seq \in Nat /\ oldest.seq <= e.seq
      BY <1>4
    <3> HIDE DEF oldest
    <3>4. oldest = new => n <= e.seq
      BY <1>5, <3>3
    <3> QED BY <3>3, <3>4
  <2>3. IsFiniteSet(all \ {oldest}) /\ Cardinality(all \ {oldest}) = DedupeMax
    <3> HIDE DEF all, oldest
    <3> QED BY <1>3, <1>4, <2>1, FS_RemoveElement
  <2>4. oldest \in d /\ new \in all \ {oldest}
    <3> HIDE DEF oldest
    <3> QED BY <1>4, <2>2
  <2>5. Cardinality(all \ {oldest}) <= DedupeMax
    BY <1>3, <2>3
  <2> HIDE DEF oldest
  <2> QED BY <1>4, <2>1, <2>3, <2>4, <2>5
<1>7. CASE ~(Cardinality(all) > DedupeMax)
  BY <1>1, <1>3, <1>7
<1> QED BY <1>6, <1>7

\* A member of whom nothing is committed, while the log keeps what it has.
LEMMA KeptAlong ==
    ASSUME TypeOK, NEW m \in Member, Kept(m), dedupe'[m] = dedupe[m],
           \/ log' = log
           \/ \E e \in Event : Commit(e) /\ ~(e.type = "TEXT" /\ e.who = m)
    PROVE  Kept(m)'
<1>1. /\ Len(log) \in Nat /\ Len(log') >= Len(log)
      /\ Len(log') \in Nat
      /\ \A n \in 1..Len(log) : log'[n] = log[n]
      /\ \A n \in 1..Len(log') : By(n, m)' => n \in 1..Len(log)
  <2>1. CASE log' = log
    BY <2>1, MemberTypes
  <2>2. ASSUME NEW e \in Event, Commit(e), ~(e.type = "TEXT" /\ e.who = m)
        PROVE  /\ Len(log) \in Nat /\ Len(log') >= Len(log)
               /\ Len(log') \in Nat
               /\ \A n \in 1..Len(log) : log'[n] = log[n]
               /\ \A n \in 1..Len(log') : By(n, m)' => n \in 1..Len(log)
    <3>1. /\ Len(log) \in Nat /\ Len(log') = Len(log) + 1
          /\ log'[Len(log) + 1] = e /\ \A i \in 1..Len(log) : log'[i] = log[i]
      BY <2>2, Appended
    <3> QED BY <2>2, <3>1 DEF By
  <2> QED BY <2>1, <2>2
<1>2. Entries(m)'
  BY <1>1 DEF Kept, Entries, IsText
<1>3. Single(m)'
  BY DEF Kept, Single
<1>4. Newest(m)'
  BY <1>1 DEF Kept, Newest, By
<1> QED BY <1>2, <1>3, <1>4 DEF Kept

\* The texts between two events are finitely many, and stay the same.
LEMMA OthersKept ==
    ASSUME TypeOK, NEW i \in 1..Len(log), NEW j \in 1..(Len(log) + 1),
           \A n \in 1..Len(log) : log'[n] = log[n]
    PROVE  IsFiniteSet(Others(i, j)) /\ Others(i, j)' = Others(i, j)
<1>1. Len(log) \in Nat
  BY MemberTypes DEF TypeOK, HostTypeOK
<1> DEFINE B == {x \in (i + 1)..(j - 1) : By(x, log[i].who)}
           f == [n \in B |-> log[n].id]
           T == {log[n].id : n \in B}
<1>2. IsFiniteSet(B)
  <2>1. IsFiniteSet((i + 1)..(j - 1))
    BY <1>1, FS_Interval
  <2>2. B \in SUBSET ((i + 1)..(j - 1))
    OBVIOUS
  <2> HIDE DEF B
  <2> QED BY <2>1, <2>2, FS_Subset
<1>3. f \in Surjection(B, T)
  BY DEF Surjection
<1>4. IsFiniteSet(T)
  <2> HIDE DEF B, f, T
  <2> QED BY <1>2, <1>3, FS_Surjection
<1>5. IsFiniteSet(Others(i, j))
  <2>1. Others(i, j) = T \ {log[i].id}
    BY DEF Others
  <2> HIDE DEF T
  <2>2. IsFiniteSet(T \ {log[i].id})
    BY <1>4, FS_RemoveElement
  <2> QED BY <2>1, <2>2
<1>6. \A n \in (i + 1)..(j - 1) : n \in 1..Len(log)
  BY <1>1
<1>7. Others(i, j)' = Others(i, j)
  <2>1. log'[i] = log[i]
    OBVIOUS
  <2>2. Others(i, j)' = {log'[n].id : n \in {x \in (i + 1)..(j - 1) :
                             log'[x].type = "TEXT" /\ log'[x].who = log'[i].who}} \ {log'[i].id}
    BY DEF Others, By
  <2>3. {x \in (i + 1)..(j - 1) : log'[x].type = "TEXT" /\ log'[x].who = log'[i].who} = B
    BY <1>6, <2>1 DEF By
  <2>4. \A n \in B : log'[n].id = log[n].id
    BY <1>6
  <2>5. {log'[n].id : n \in B} = {log[n].id : n \in B}
    <3> HIDE DEF B
    <3> QED BY <2>4
  <2>6. Others(i, j)' = {log'[n].id : n \in B} \ {log[i].id}
    BY <2>1, <2>2, <2>3
  <2>7. Others(i, j) = {log[n].id : n \in B} \ {log[i].id}
    BY DEF Others
  <2> QED BY <2>5, <2>6, <2>7
<1> QED BY <1>5, <1>7

\* What the host has before it when it commits a text of m.
LEMMA Committing ==
    ASSUME TypeOK, NEW m \in Member, CommitText(m)
    PROVE  LET k == Head(up[m][conn[m]]).id
               n == Len(log) + 1
           IN  /\ k \in Text /\ n \in Nat
               /\ [type |-> "TEXT", who |-> m, id |-> k] \in Event
               /\ Commit([type |-> "TEXT", who |-> m, id |-> k])
               /\ \A e \in dedupe[m] : e.id # k
               /\ dedupe' = [dedupe EXCEPT ![m] = Remember(dedupe[m], k, n)]
               /\ dedupe'[m] = Remember(dedupe[m], k, n)
<1>1. Head(up[m][conn[m]]).id \in Text /\ Head(up[m][conn[m]]).id \in Nat
  BY Heard, GroupLogAssumption DEF CommitText, Text
<1>2. [type |-> "TEXT", who |-> m, id |-> Head(up[m][conn[m]]).id] \in Event
  BY <1>1 DEF Event
<1> QED BY <1>1, <1>2, MemberTypes DEF CommitText, Prior, TypeOK, HostTypeOK

LEMMA CommitTextKept ==
    ASSUME TypeOK, NEW m \in Member, Kept(m), CommitText(m)
    PROVE  Kept(m)'
<1> PICK k, n : k = Head(up[m][conn[m]]).id /\ n = Len(log) + 1
  OBVIOUS
<1>1. /\ k \in Text /\ n \in Nat /\ Len(log) \in Nat /\ n = Len(log) + 1
      /\ \A e \in dedupe[m] : e.id # k
      /\ dedupe'[m] = Remember(dedupe[m], k, n)
  BY Committing, MemberTypes
<1> PICK ev \in Event : ev = [type |-> "TEXT", who |-> m, id |-> k] /\ Commit(ev)
  BY Committing
<1>2. /\ Len(log') = n /\ log'[n] = ev
      /\ \A i \in 1..Len(log) : log'[i] = log[i]
      /\ \A i \in 1..n : i \in 1..Len(log) \/ i = n
  BY <1>1, Appended
<1> DEFINE d == dedupe[m]
           new == [id |-> k, seq |-> n]
           r == Remember(d, k, n)
<1>3. d \in SUBSET [id : Text, seq : Nat] /\ IsFiniteSet(d) /\ Cardinality(d) <= DedupeMax
  BY DEF TypeOK, HostTypeOK, Kept, Newest
<1>4. \A e \in d : e.seq \in 1..Len(log) /\ e.seq < n /\ e \in [id : Text, seq : Nat]
  BY <1>1, <1>3 DEF Kept, Entries
<1>5. /\ IsFiniteSet(r) /\ Cardinality(r) <= DedupeMax
      /\ new \in r /\ r \subseteq d \cup {new}
      /\ \/ r = d \cup {new}
         \/ /\ Cardinality(r) = DedupeMax
            /\ \E old \in d : r = (d \cup {new}) \ {old} /\ \A f \in r : old.seq <= f.seq
  BY <1>1, <1>3, <1>4, Remembered
<1> HIDE DEF r
<1>6. dedupe'[m] = r /\ new.id = k /\ new.seq = n
  BY <1>1 DEF r
<1>7. Entries(m)'
  <2> SUFFICES ASSUME NEW e \in r
               PROVE  e.seq \in 1..n /\ log'[e.seq].type = "TEXT" /\ log'[e.seq].who = m
                      /\ log'[e.seq].id = e.id
    BY <1>2, <1>6 DEF Entries, IsText
  <2>1. CASE e \in d
    BY <1>1, <1>2, <1>4, <2>1 DEF Kept, Entries, IsText
  <2>2. CASE e = new
    BY <1>1, <1>2, <2>2
  <2> QED BY <1>5, <2>1, <2>2
<1>8. Single(m)'
  <2> SUFFICES ASSUME NEW e \in r, NEW f \in r, e.id = f.id
               PROVE  e = f
    BY <1>6 DEF Single
  <2> QED BY <1>1, <1>5, <1>6 DEF Kept, Single
<1>9. Newest(m)'
  <2> SUFFICES ASSUME NEW x \in 1..n, By(x, m)'
               PROVE  \/ \E e \in r : e.seq = x
                      \/ Cardinality(r) = DedupeMax /\ \A e \in r : x < e.seq
    BY <1>2, <1>5, <1>6 DEF Newest
  <2>1. CASE x = n
    BY <1>5, <1>6, <2>1
  <2>2. CASE x \in 1..Len(log)
    <3>1. x < n /\ By(x, m)
      BY <1>1, <1>2, <2>2 DEF By
    <3>2. CASE r = d \cup {new}
      <4>1. new \notin d
        BY <1>1, <1>4, <1>6
      <4>2. Cardinality(r) = Cardinality(d) + 1 /\ Cardinality(d) \in Nat /\ DedupeMax \in Nat
        <5> HIDE DEF new, d
        <5> QED BY <1>3, <3>2, <4>1, FS_AddElement, FS_CardinalityType, GroupLogAssumption
      <4>3. Cardinality(d) # DedupeMax
        BY <1>5, <4>2
      <4>4. PICK e \in d : e.seq = x
        BY <2>2, <3>1, <4>3 DEF Kept, Newest
      <4> QED BY <3>2, <4>4
    <3>3. ASSUME Cardinality(r) = DedupeMax,
                 NEW old \in d, r = (d \cup {new}) \ {old}, \A f \in r : old.seq <= f.seq
          PROVE  \/ \E e \in r : e.seq = x
                 \/ Cardinality(r) = DedupeMax /\ \A e \in r : x < e.seq
      <4>1. CASE \A e \in d : x < e.seq
        <5>1. \A e \in r : x < e.seq
          BY <1>5, <1>6, <3>1, <4>1
        <5> QED BY <3>3, <5>1
      <4>2. ASSUME NEW e \in d, e.seq = x, e # old
            PROVE  e \in r
        BY <3>3, <4>2
      <4>3. ASSUME old.seq = x, NEW f \in r
            PROVE  x < f.seq
        <5>1. CASE f = new
          BY <1>6, <3>1, <5>1
        <5>2. CASE f \in d
          <6>1. f # old /\ f.id # old.id
            BY <3>3, <5>2 DEF Kept, Single
          <6>2. f.seq # old.seq
            BY <5>2, <6>1 DEF Kept, Entries, IsText
          <6>3. old.seq <= f.seq /\ f.seq \in Nat
            BY <1>4, <3>3, <5>2
          <6> QED BY <1>1, <2>2, <4>3, <6>2, <6>3
        <5> QED BY <1>5, <5>1, <5>2
      <4>4. (\E e \in d : e.seq = x) \/ \A e \in d : x < e.seq
        BY <2>2, <3>1 DEF Kept, Newest
      <4> QED BY <3>3, <4>1, <4>2, <4>3, <4>4
    <3> QED BY <1>5, <3>2, <3>3
  <2> QED BY <1>2, <2>1, <2>2
<1> QED BY <1>5, <1>6, <1>7, <1>8, <1>9 DEF Kept

LEMMA CommitTextApart ==
    ASSUME DedupeInv, NEW m \in Member, CommitText(m)
    PROVE  RepeatsApart'
<1> USE DEF DedupeInv
<1> PICK k, n : k = Head(up[m][conn[m]]).id /\ n = Len(log) + 1
  OBVIOUS
<1>1. /\ k \in Text /\ n \in Nat /\ Len(log) \in Nat /\ n = Len(log) + 1
      /\ \A e \in dedupe[m] : e.id # k
  BY Committing, MemberTypes
<1> PICK ev \in Event : ev = [type |-> "TEXT", who |-> m, id |-> k] /\ Commit(ev)
  BY Committing
<1>2. /\ Len(log') = n /\ log'[n] = ev
      /\ \A i \in 1..Len(log) : log'[i] = log[i]
      /\ \A i \in 1..n : i \in 1..Len(log) \/ i = n
  BY <1>1, Appended
<1> SUFFICES ASSUME NEW x \in Member, NEW i \in 1..n, NEW j \in 1..n,
                    By(i, x)', log'[j] = log'[i], i < j
             PROVE  Cardinality(Others(i, j)') >= DedupeMax
  BY <1>2 DEF RepeatsApart
<1>3. i \in 1..Len(log) /\ j \in 1..(Len(log) + 1) /\ By(i, x) /\ log'[i] = log[i]
  BY <1>1, <1>2 DEF By
<1>4. IsFiniteSet(Others(i, j)) /\ Others(i, j)' = Others(i, j)
  BY <1>2, <1>3, OthersKept
<1>5. CASE j \in 1..Len(log)
  BY <1>2, <1>3, <1>4, <1>5 DEF RepeatsApart
<1>6. CASE j = n
  <2>1. log[i] = ev /\ x = m /\ log[i].who = m /\ log[i].id = k
    BY <1>2, <1>3, <1>6 DEF By
  <2>2. ~\E e \in dedupe[m] : e.seq = i
    BY <1>1, <2>1 DEF Kept, Entries, IsText
  <2>3. Cardinality(dedupe[m]) = DedupeMax /\ \A e \in dedupe[m] : i < e.seq
    BY <1>3, <2>1, <2>2 DEF Kept, Newest
  <2> DEFINE f == [e \in dedupe[m] |-> e.id]
  <2>4. \A e \in dedupe[m] : e.id \in Others(i, j)
    <3> SUFFICES ASSUME NEW e \in dedupe[m]
                 PROVE  e.id \in Others(i, j)
      OBVIOUS
    <3>1. e.seq \in 1..Len(log) /\ By(e.seq, m) /\ log[e.seq].id = e.id /\ e.id # k /\ i < e.seq
      BY <1>1, <2>3 DEF Kept, Entries, IsText, By
    <3>2. e.seq \in (i + 1)..(j - 1)
      BY <1>1, <1>3, <1>6, <3>1
    <3> QED BY <2>1, <3>1, <3>2 DEF Others
  <2>5. f \in Injection(dedupe[m], Others(i, j))
    <3>1. f \in [dedupe[m] -> Others(i, j)]
      BY <2>4
    <3>2. \A a, b \in dedupe[m] : f[a] = f[b] => a = b
      BY DEF Kept, Single
    <3> QED BY <3>1, <3>2 DEF Injection, IsInjective
  <2> HIDE DEF f
  <2>6. Cardinality(dedupe[m]) <= Cardinality(Others(i, j))
    BY <1>4, <2>5, FS_Injection
  <2>7. Cardinality(Others(i, j)) \in Nat
    BY <1>4, FS_CardinalityType
  <2> QED BY <1>4, <2>3, <2>6, <2>7, GroupLogAssumption
<1> QED BY <1>3, <1>5, <1>6

\* The log keeps what it has, and commits at most one event.
LEMMA Growing ==
    ASSUME TypeOK, [Next]_vars
    PROVE  \/ log' = log /\ dedupe' = dedupe
           \/ /\ dedupe' = dedupe
              /\ \E e \in Event : Commit(e) /\ (e.type = "TEXT" => e.who = Owner)
           \/ \E m \in Member : CommitText(m)
<1>1. CASE OwnerText
  BY <1>1, OwnerTextsFinite DEF OwnerText, Event
<1>2. CASE SetRoomPaused \/ UNCHANGED vars
  BY <1>2 DEF SetRoomPaused, vars, hostVars
<1>3. ASSUME NEW m \in Member, HostAction(m), ~CommitText(m)
      PROVE  \/ log' = log /\ dedupe' = dedupe
             \/ /\ dedupe' = dedupe
                /\ \E e \in Event : Commit(e) /\ (e.type = "TEXT" => e.who = Owner)
  <2>1. CASE CommitAdmission(m)
    BY <2>1 DEF CommitAdmission, Event
  <2>2. CASE LoseMember(m)
    BY <2>2 DEF LoseMember, Event
  <2>3. CASE RemoveMember(m) \/ GraceTimeout(m) \/ HearLeave(m)
    <3>1. PICK notify : Remove(m, notify)
      BY <2>3 DEF RemoveMember, GraceTimeout, HearLeave
    <3> QED BY <3>1 DEF Remove, Event
  <2>4. ASSUME NEW s \in Stream, AcceptResume(m, s)
        PROVE  \/ log' = log /\ dedupe' = dedupe
               \/ /\ dedupe' = dedupe
                  /\ \E e \in Event : Commit(e) /\ (e.type = "TEXT" => e.who = Owner)
    BY <2>4 DEF AcceptResume, Event
  <2>5. CASE ActivateResume(m)
    BY <2>5 DEF ActivateResume, Event
  <2>6. CASE \/ ApproveJoin(m) \/ DropPending(m) \/ ReplayEvent(m) \/ ReplayResync(m)
             \/ AbandonResume(m) \/ RejectPausedText(m) \/ AnswerDuplicate(m)
             \/ \E s \in Stream : RejectResume(m, s)
    BY <2>6 DEF ApproveJoin, DropPending, ReplayEvent, ReplayResync, AbandonResume,
                RejectPausedText, AnswerDuplicate, RejectResume, hostVars
  <2> QED BY <1>3, <2>1, <2>2, <2>3, <2>4, <2>5, <2>6 DEF HostAction
<1>4. ASSUME NEW m \in Member, GuestAction(m)
      PROVE  log' = log /\ dedupe' = dedupe
  BY <1>4 DEF GuestAction, Joined, ReadEvent, ReadUnusableEvent, ReadResync, ReadRejection,
              ReadPause, ReadRemoved, SubmitText, Leave, FailJoin, BeginRecovery, DialAgain,
              ResumeAccepted, Resubmit, Recovered, ResumeFailed, RecoveryTimeout, Quit, hostVars
<1>5. ASSUME NEW m \in Member, NEW s \in Stream, Break(m, s) \/ Drop(m, s)
      PROVE  log' = log /\ dedupe' = dedupe
  BY <1>5 DEF Break, Drop, hostVars
<1> QED BY <1>1, <1>2, <1>3, <1>4, <1>5 DEF Next

\* An event of nobody's, or of one of m's texts.
LEMMA NamedKept ==
    ASSUME TypeOK, NEW m \in Member, Named(m),
           \/ log' = log
           \/ \E e \in Event : Commit(e) /\ (e.type = "TEXT" /\ e.who = m => e.id \in Text)
    PROVE  Named(m)'
<1>1. CASE log' = log
  BY <1>1 DEF Named, By
<1>2. ASSUME NEW e \in Event, Commit(e), e.type = "TEXT" /\ e.who = m => e.id \in Text
      PROVE  Named(m)'
  <2>1. /\ Len(log) \in Nat /\ Len(log') = Len(log) + 1 /\ log'[Len(log) + 1] = e
        /\ \A i \in 1..Len(log) : log'[i] = log[i]
    BY <1>2, Appended
  <2> QED BY <1>2, <2>1 DEF Named, By
<1> QED BY <1>1, <1>2

\* An event that is no member's text repeats none.
LEMMA ApartKept ==
    ASSUME TypeOK, RepeatsApart,
           \/ log' = log
           \/ \E e \in Event : Commit(e) /\ (e.type = "TEXT" => e.who = Owner)
    PROVE  RepeatsApart'
<1>1. /\ \A n \in 1..Len(log) : log'[n] = log[n]
      /\ \A n \in 1..Len(log') : \A m \in Member : By(n, m)' => n \in 1..Len(log)
      /\ Len(log) \in Nat
  <2>1. CASE log' = log
    BY <2>1 DEF TypeOK, HostTypeOK
  <2>2. ASSUME NEW e \in Event, Commit(e), e.type = "TEXT" => e.who = Owner
        PROVE  /\ \A n \in 1..Len(log) : log'[n] = log[n]
               /\ \A n \in 1..Len(log') : \A m \in Member : By(n, m)' => n \in 1..Len(log)
               /\ Len(log) \in Nat
    <3>1. /\ Len(log) \in Nat /\ Len(log') = Len(log) + 1 /\ log'[Len(log) + 1] = e
          /\ \A i \in 1..Len(log) : log'[i] = log[i]
      BY <2>2, Appended
    <3> QED BY <2>2, <3>1, GroupLogAssumption DEF By
  <2> QED BY <2>1, <2>2
<1> SUFFICES ASSUME NEW m \in Member, NEW i \in 1..Len(log'), NEW j \in 1..Len(log'),
                    By(i, m)', log'[j] = log'[i], i < j
             PROVE  Cardinality(Others(i, j)') >= DedupeMax
  BY DEF RepeatsApart
<1>2. i \in 1..Len(log) /\ j \in 1..Len(log)
  BY <1>1 DEF By
<1>3. By(i, m) /\ log[j] = log[i]
  BY <1>1, <1>2 DEF By
<1>4. j \in 1..(Len(log) + 1)
  BY <1>1, <1>2
<1>5. Others(i, j)' = Others(i, j)
  BY <1>1, <1>2, <1>4, OthersKept
<1> QED BY <1>2, <1>3, <1>5 DEF RepeatsApart

LEMMA InitDedupe == Init => DedupeInv
<1> SUFFICES ASSUME Init PROVE DedupeInv
  OBVIOUS
<1>1. log = <<>> /\ \A m \in Member : dedupe[m] = {}
  BY DEF Init
<1>2. IsFiniteSet({}) /\ Cardinality({}) <= DedupeMax /\ 1..Len(<<>>) = {}
  BY FS_EmptySet, GroupLogAssumption
<1>3. ASSUME NEW m \in Member PROVE Kept(m) /\ Named(m)
  BY <1>1, <1>2 DEF Kept, Entries, Single, Newest, Named
<1> QED BY <1>1, <1>2, <1>3, InitType DEF DedupeInv, RepeatsApart

LEMMA NextDedupe == DedupeInv /\ [Next]_vars => DedupeInv'
<1> SUFFICES ASSUME DedupeInv, [Next]_vars PROVE DedupeInv'
  OBVIOUS
<1> USE DEF DedupeInv
<1>1. TypeOK'
  BY NextType
<1>2. CASE log' = log /\ dedupe' = dedupe
  BY <1>1, <1>2, KeptAlong, NamedKept, ApartKept
<1>3. CASE /\ dedupe' = dedupe
           /\ \E e \in Event : Commit(e) /\ (e.type = "TEXT" => e.who = Owner)
  <2>1. PICK e \in Event : Commit(e) /\ (e.type = "TEXT" => e.who = Owner)
    BY <1>3
  <2>2. ASSUME NEW m \in Member PROVE Kept(m)' /\ Named(m)'
    <3>1. ~(e.type = "TEXT" /\ e.who = m)
      BY <2>1, GroupLogAssumption
    <3> QED BY <1>3, <2>1, <3>1, KeptAlong, NamedKept
  <2> QED BY <1>1, <2>1, <2>2, ApartKept
<1>4. ASSUME NEW x \in Member, CommitText(x) PROVE DedupeInv'
  <2>1. PICK k \in Text : \E e \in Event : /\ e = [type |-> "TEXT", who |-> x, id |-> k]
                                           /\ Commit(e)
    BY <1>4, Committing
  <2>2. PICK e \in Event : e = [type |-> "TEXT", who |-> x, id |-> k] /\ Commit(e)
    BY <2>1
  <2>3. Kept(x)'
    BY <1>4, CommitTextKept
  <2>4. ASSUME NEW m \in Member, m # x PROVE Kept(m)'
    <3>1. dedupe'[m] = dedupe[m]
      BY <1>4, <2>4 DEF CommitText, TypeOK, HostTypeOK
    <3> QED BY <2>2, <2>4, <3>1, KeptAlong
  <2>5. ASSUME NEW m \in Member PROVE Named(m)'
    BY <2>2, NamedKept
  <2> QED BY <1>1, <1>4, <2>3, <2>4, <2>5, CommitTextApart
<1> QED BY <1>2, <1>3, <1>4, Growing

\* A text may enter the log a second time, when a lost stream made its sender
\* write it again; but only once the deduper has had to forget it, which takes
\* dedupeMaxItems other texts of the same sender.
THEOREM RepeatsAreApart == Spec => []RepeatsApart
<1>1. Init => DedupeInv
  BY InitDedupe
<1>2. DedupeInv /\ [Next]_vars => DedupeInv'
  BY NextDedupe
<1>3. DedupeInv => RepeatsApart
  BY DEF DedupeInv
<1> QED BY <1>1, <1>2, <1>3, PTL DEF Spec

\* With no more texts than the deduper holds, nothing is committed twice.
LEMMA NoRoomToForget == DedupeInv /\ MaxText <= DedupeMax => NoDuplicateCommit
<1> SUFFICES ASSUME DedupeInv, MaxText <= DedupeMax, NEW m \in Member,
                    NEW i \in 1..Len(log), NEW j \in 1..Len(log),
                    By(i, m), log[j] = log[i], i < j
             PROVE  FALSE
  <2>1. ASSUME NEW m \in Member, NEW i \in 1..Len(log), NEW j \in 1..Len(log),
               log[i].type = "TEXT", log[i].who = m, log[j] = log[i], i # j
        PROVE  By(i, m) /\ By(j, m) /\ (i < j \/ j < i)
    BY <2>1 DEF By
  <2> QED BY <2>1 DEF NoDuplicateCommit
<1>1. Cardinality(Others(i, j)) >= DedupeMax
  BY DEF DedupeInv, RepeatsApart
<1>2. log[i].id \in Text /\ Len(log) \in Nat /\ log[i].who = m
  BY MemberTypes DEF DedupeInv, Named, By
<1>3. Others(i, j) \subseteq Text \ {log[i].id}
  <2>1. \A n \in (i + 1)..(j - 1) : n \in 1..Len(log)
    BY <1>2
  <2> QED BY <1>2, <2>1 DEF Others, DedupeInv, Named
<1>4. /\ IsFiniteSet(Text) /\ Cardinality(Text) = MaxText /\ MaxText \in Nat
      /\ DedupeMax \in Nat
  <2>1. MaxText \in Nat /\ DedupeMax \in Nat
    BY GroupLogAssumption
  <2>2. IsFiniteSet(1..MaxText)
        /\ Cardinality(1..MaxText) = IF 1 > MaxText THEN 0 ELSE MaxText - 1 + 1
    <3>1. 1 \in Int /\ MaxText \in Int
      BY <2>1
    <3> QED BY ONLY <3>1, FS_Interval
  <2>3. Cardinality(1..MaxText) = MaxText
    BY <2>1, <2>2
  <2> QED BY <2>1, <2>2, <2>3 DEF Text
<1>5. IsFiniteSet(Text \ {log[i].id}) /\ Cardinality(Text \ {log[i].id}) = MaxText - 1
  BY <1>2, <1>4, FS_RemoveElement
<1>6. Cardinality(Others(i, j)) <= MaxText - 1 /\ Cardinality(Others(i, j)) \in Nat
  BY <1>3, <1>5, FS_Subset, FS_CardinalityType
<1> QED BY <1>1, <1>4, <1>6

\* As long as a sender's texts fit into the deduper, each is committed at most
\* once, however often handleMemberFrame is given it.
THEOREM CommittedOnce == MaxText <= DedupeMax => (Spec => []NoDuplicateCommit)
<1> SUFFICES ASSUME MaxText <= DedupeMax
             PROVE  Spec => []NoDuplicateCommit
  OBVIOUS
<1>1. Init => DedupeInv
  BY InitDedupe
<1>2. DedupeInv /\ [Next]_vars => DedupeInv'
  BY NextDedupe
<1>3. DedupeInv => NoDuplicateCommit
  BY NoRoomToForget
<1> QED BY <1>1, <1>2, <1>3, PTL DEF Spec

-----------------------------------------------------------------------------
(* Texts, their refusals, and where they are *)

Submission(k) == [type |-> "TEXT_SUBMIT", id |-> k]

\* The texts on their way to the host, and the refusals on their way back.
Texts(q)    == {k \in Text : \E i \in 1..Len(q) : q[i] = Submission(k)}
Refusals(q) == {k \in Text : \E i \in 1..Len(q) : q[i] = Rejection(k)}
Accepts(q)  == \E i \in 1..Len(q) : q[i].type = "RESUME_ACCEPT"
Once(q) ==
    \A i, j \in 1..Len(q) : q[i].type = "TEXT_SUBMIT" /\ q[j] = q[i] => i = j

\* Who reads a refusal of k in q has read event n before.
Behind(q, last, k, n) ==
    \A i \in 1..Len(q) : q[i] = Rejection(k) =>
        last >= n \/ \E j \in 1..(i - 1) : Numbered(q[j]) /\ q[j].seq >= n

\* The host serves m on s, resumes it on s, or is about to admit it there.
Attached(m, s) ==
    s \in {conn[m], resume[m].stream} \/ (status[m] = "committing" /\ s = 1)

\* A text is on its way only where the host listens, and m writes only there.
Heeded(m) ==
    /\ \A s \in Stream : Texts(up[m][s]) # {} => Attached(m, s)
    /\ dials[m] \notin broken[m] =>
         /\ phase[m] \in {"joining", "member", "resubmitting"} => Attached(m, dials[m])
         /\ \A s \in Stream : s = dials[m] /\ Accepts(down[m][s]) => Attached(m, s)

\* Frames for m are on its newest stream, and none where a recovery has failed.
Cleared(m) ==
    /\ \A s \in Stream : s # dials[m] => down[m][s] = <<>>
    /\ phase[m] = "recovering" /\ gconn[m] # dials[m] => \A s \in Stream : down[m][s] = <<>>

\* A text has one copy on its way, or is about to be written again.
Written(m) ==
    /\ \A s \in Stream : Once(up[m][s])
    /\ \A s \in Stream : \A k \in Texts(up[m][s]) : draft[m][k] \in {"sending", "delivered"}
    /\ resubmit[m] # {} => phase[m] = "resubmitting"
    /\ resubmit[m] \subseteq Pending(m)
    /\ \A s \in Stream : s = dials[m] =>
         /\ Texts(up[m][s]) \cap resubmit[m] = {}
         /\ phase[m] = "waiting" => Texts(up[m][s]) = {}

\* A text that has been refused is not on its way any more.
Refused(m) ==
    \A s \in Stream : \A k \in Refusals(down[m][s]) :
        /\ draft[m][k] # "unsent" /\ k \notin resubmit[m] /\ phase[m] # "waiting"
        /\ \A t \in Stream : k \notin Texts(up[m][t])

\* When m reads a refusal, it has read the text's event, if there is one.
Settled(m) ==
    \A s \in Stream, k \in Text, n \in 1..Len(log) :
        IsText(n, m, k) => Behind(down[m][s], lastSeq[m], k, n)

\* What m is told of a text agrees with the log as far as m has read it.
Drafted(m) ==
    /\ phase[m] \in {"out", "joining"} => \A k \in Text : draft[m][k] = "unsent"
    /\ \A n \in 1..Len(log), k \in Text : IsText(n, m, k) =>
         /\ draft[m][k] # "unsent"
         /\ lastSeq[m] < n => draft[m][k] # "failed"
         /\ n <= lastSeq[m] => draft[m][k] = "delivered" \/ n \in skipped[m]

Letters(m) ==
    Heeded(m) /\ Cleared(m) /\ Written(m) /\ Refused(m) /\ Settled(m) /\ Drafted(m)

TextInv == DeliveryInv /\ StayInv /\ \A m \in Member : Letters(m)

-----------------------------------------------------------------------------
(* Queues of texts and refusals *)

\* A queue that lost frames at its head, or all, or got a frame that is no text.
Thins(r, q) ==
    \/ r = q
    \/ r = <<>>
    \/ q # <<>> /\ r = Tail(q)
    \/ \E f \in GuestFrame : f.type # "TEXT_SUBMIT" /\ r = Append(q, f)

LEMMA ThinTexts ==
    ASSUME NEW q \in Seq(GuestFrame), NEW r, Thins(r, q)
    PROVE  /\ Texts(r) \subseteq Texts(q)
           /\ Once(q) => Once(r)
<1>1. CASE r = q
  BY <1>1
<1>2. CASE r = <<>>
  BY <1>2 DEF Texts, Once
<1>3. CASE q # <<>> /\ r = Tail(q)
  <2>1. \A i \in 1..Len(r) : i \in Nat /\ i + 1 \in 1..Len(q) /\ r[i] = q[i + 1]
    BY <1>3
  <2>2. Texts(r) \subseteq Texts(q)
    BY <2>1 DEF Texts
  <2>3. Once(q) => Once(r)
    <3> SUFFICES ASSUME Once(q), NEW i \in 1..Len(r), NEW j \in 1..Len(r),
                        r[i].type = "TEXT_SUBMIT", r[j] = r[i]
                 PROVE  i = j
      BY DEF Once
    <3>1. i + 1 = j + 1
      BY <2>1 DEF Once
    <3> QED BY <2>1, <3>1
  <2> QED BY <2>2, <2>3
<1>4. ASSUME NEW f \in GuestFrame, f.type # "TEXT_SUBMIT", r = Append(q, f)
      PROVE  /\ Texts(r) \subseteq Texts(q)
             /\ Once(q) => Once(r)
  <2>1. /\ \A i \in 1..Len(r) : i \in 1..Len(q) \/ i = Len(q) + 1
        /\ \A i \in 1..Len(q) : r[i] = q[i]
        /\ r[Len(q) + 1] = f
    BY <1>4
  <2>2. \A k : Submission(k).type = "TEXT_SUBMIT"
    BY DEF Submission
  <2>3. Texts(r) \subseteq Texts(q)
    BY <1>4, <2>1, <2>2 DEF Texts
  <2>4. Once(q) => Once(r)
    BY <1>4, <2>1 DEF Once
  <2> QED BY <2>3, <2>4
<1> QED BY <1>1, <1>2, <1>3, <1>4 DEF Thins

LEMMA EmptyTexts ==
    /\ Texts(<<>>) = {} /\ Refusals(<<>>) = {} /\ ~Accepts(<<>>) /\ Once(<<>>)
    /\ \A last, k, n : Behind(<<>>, last, k, n)
BY DEF Texts, Refusals, Accepts, Once, Behind

\* Writing a text.
LEMMA WriteText ==
    ASSUME NEW q \in Seq(GuestFrame), NEW k \in Text, k \notin Texts(q), Once(q)
    PROVE  LET r == Append(q, Submission(k))
           IN  Texts(r) = Texts(q) \cup {k} /\ Once(r)
<1> DEFINE r == Append(q, Submission(k))
<1>1. Submission(k) \in GuestFrame /\ \A j : Submission(j) = Submission(k) => j = k
  BY DEF Submission, GuestFrame
<1>2. /\ \A i \in 1..Len(r) : i \in 1..Len(q) \/ i = Len(q) + 1
      /\ \A i \in 1..Len(q) : i \in 1..Len(r) /\ r[i] = q[i]
      /\ r[Len(q) + 1] = Submission(k) /\ Len(q) + 1 \in 1..Len(r)
  BY <1>1
<1> HIDE DEF r
<1>3. Texts(r) = Texts(q) \cup {k}
  BY <1>1, <1>2 DEF Texts
<1>4. Once(r)
  <2> SUFFICES ASSUME NEW i \in 1..Len(r), NEW j \in 1..Len(r),
                      r[i].type = "TEXT_SUBMIT", r[j] = r[i]
               PROVE  i = j
    BY DEF Once
  <2>1. \A l \in 1..Len(q) : q[l] # Submission(k)
    BY DEF Texts
  <2> QED BY <1>2, <2>1 DEF Once
<1> QED BY <1>3, <1>4 DEF r

\* Taking a text.
LEMMA TakeText ==
    ASSUME NEW q \in Seq(GuestFrame), q # <<>>, Head(q).type = "TEXT_SUBMIT", Once(q)
    PROVE  LET k == Head(q).id
           IN  k \in Text /\ k \in Texts(q) /\ k \notin Texts(Tail(q))
<1>1. Head(q) \in GuestFrame /\ 1 \in 1..Len(q) /\ q[1] = Head(q)
  OBVIOUS
<1>2. Head(q).id \in Text /\ Head(q) = Submission(Head(q).id)
  BY <1>1 DEF GuestFrame, Submission
<1>3. \A i \in 1..Len(Tail(q)) : i \in Nat /\ i # 0 /\ i + 1 \in 1..Len(q) /\ Tail(q)[i] = q[i + 1]
  OBVIOUS
<1>4. Head(q).id \notin Texts(Tail(q))
  BY <1>1, <1>2, <1>3 DEF Texts, Once
<1> QED BY <1>1, <1>2, <1>4 DEF Texts

\* A frame more for m.
LEMMA WriteAnswer ==
    ASSUME NEW q \in Seq(HostFrame), NEW f \in HostFrame
    PROVE  LET r == Append(q, f)
           IN  /\ f.type # "ACTION_REJECTED" => Refusals(r) = Refusals(q)
               /\ \A k \in Text : f = Rejection(k) => Refusals(r) = Refusals(q) \cup {k}
               /\ f.type # "RESUME_ACCEPT" => Accepts(r) = Accepts(q)
               /\ \A last, k, n : Behind(q, last, k, n) /\ (f = Rejection(k) => Reach(q, last, n))
                                    => Behind(r, last, k, n)
<1> DEFINE r == Append(q, f)
<1>1. /\ \A i \in 1..Len(r) : i \in 1..Len(q) \/ i = Len(q) + 1
      /\ \A i \in 1..Len(q) : i \in 1..Len(r) /\ r[i] = q[i]
      /\ r[Len(q) + 1] = f /\ Len(q) + 1 \in 1..Len(r) /\ Len(q) \in Nat
  OBVIOUS
<1> HIDE DEF r
<1>2. \A k, j : Rejection(k).type = "ACTION_REJECTED" /\ (Rejection(j) = Rejection(k) => j = k)
  BY DEF Rejection
<1>3. f.type # "ACTION_REJECTED" => Refusals(r) = Refusals(q)
  BY <1>1, <1>2 DEF Refusals
<1>4. \A k \in Text : f = Rejection(k) => Refusals(r) = Refusals(q) \cup {k}
  BY <1>1, <1>2 DEF Refusals
<1>5. f.type # "RESUME_ACCEPT" => Accepts(r) = Accepts(q)
  BY <1>1 DEF Accepts
<1>6. ASSUME NEW last, NEW k, NEW n, Behind(q, last, k, n), f = Rejection(k) => Reach(q, last, n)
      PROVE  Behind(r, last, k, n)
  <2> SUFFICES ASSUME NEW i \in 1..Len(r), r[i] = Rejection(k)
               PROVE  last >= n \/ \E j \in 1..(i - 1) : Numbered(r[j]) /\ r[j].seq >= n
    BY DEF Behind
  <2>1. CASE i \in 1..Len(q)
    <3>1. last >= n \/ \E j \in 1..(i - 1) : Numbered(q[j]) /\ q[j].seq >= n
      BY <1>1, <1>6, <2>1 DEF Behind
    <3>2. \A j \in 1..(i - 1) : j \in 1..Len(q)
      BY <1>1, <2>1
    <3> QED BY <1>1, <3>1, <3>2
  <2>2. CASE i = Len(q) + 1
    <3>1. Reach(q, last, n) /\ i - 1 = Len(q)
      BY <1>1, <1>6, <2>2
    <3> QED BY <1>1, <3>1 DEF Reach
  <2> QED BY <1>1, <2>1, <2>2
<1> QED BY <1>3, <1>4, <1>5, <1>6 DEF r

\* A frame less.
LEMMA ReadAnswer ==
    ASSUME NEW q \in Seq(HostFrame), q # <<>>
    PROVE  LET r == Tail(q)
           IN  /\ Refusals(r) \subseteq Refusals(q)
               /\ Accepts(r) => Accepts(q)
               /\ \A k \in Text : Head(q) = Rejection(k) => k \in Refusals(q)
               /\ Head(q).type = "RESUME_ACCEPT" => Accepts(q)
               /\ \A last, next, n \in Nat : \A k :
                    Moves(q, last, next) /\ Behind(q, last, k, n) => Behind(r, next, k, n)
               /\ \A last, k, n : Head(q) = Rejection(k) /\ Behind(q, last, k, n) => last >= n
<1> DEFINE r == Tail(q)
<1>1. /\ Len(q) \in Nat /\ Len(r) = Len(q) - 1 /\ Head(q) = q[1] /\ 1 \in 1..Len(q)
      /\ \A i \in 1..Len(r) : i \in Nat /\ r[i] = q[i + 1] /\ i + 1 \in 1..Len(q)
      /\ \A i \in 1..Len(q) : i # 1 => q[i] = r[i - 1] /\ i - 1 \in 1..Len(r)
      /\ \A i \in 1..Len(q) : q[i] \in HostFrame
  OBVIOUS
<1> HIDE DEF r
<1>2. Refusals(r) \subseteq Refusals(q) /\ (Accepts(r) => Accepts(q))
  BY <1>1 DEF Refusals, Accepts
<1>3. /\ \A k \in Text : Head(q) = Rejection(k) => k \in Refusals(q)
      /\ Head(q).type = "RESUME_ACCEPT" => Accepts(q)
  BY <1>1 DEF Refusals, Accepts
<1>4. \A last, k, n : Head(q) = Rejection(k) /\ Behind(q, last, k, n) => last >= n
  <2>1. 1..(1 - 1) = {}
    OBVIOUS
  <2> QED BY <1>1, <2>1 DEF Behind
<1>5. ASSUME NEW last \in Nat, NEW next \in Nat, NEW n \in Nat, NEW k,
             Moves(q, last, next), Behind(q, last, k, n)
      PROVE  Behind(r, next, k, n)
  <2> SUFFICES ASSUME NEW i \in 1..Len(r), r[i] = Rejection(k)
               PROVE  next >= n \/ \E j \in 1..(i - 1) : Numbered(r[j]) /\ r[j].seq >= n
    BY DEF Behind
  <2>1. last >= n \/ \E j \in 1..((i + 1) - 1) : Numbered(q[j]) /\ q[j].seq >= n
    BY <1>1, <1>5 DEF Behind
  <2>2. CASE last >= n
    BY <1>5, <2>2 DEF Moves
  <2>3. ASSUME NEW j \in 1..((i + 1) - 1), Numbered(q[j]), q[j].seq >= n
        PROVE  next >= n \/ \E l \in 1..(i - 1) : Numbered(r[l]) /\ r[l].seq >= n
    <3>1. CASE j = 1
      <4>1. Head(q).seq <= next /\ Head(q).seq >= n /\ Head(q).seq \in Nat
        BY <1>1, <1>5, <2>3, <3>1, NumberedType DEF Moves
      <4> QED BY <4>1
    <3>2. CASE j # 1
      <4>1. j \in 1..Len(q) /\ j - 1 \in 1..(i - 1)
        BY <1>1, <3>2
      <4> QED BY <1>1, <2>3, <3>2, <4>1
    <3> QED BY <3>1, <3>2
  <2> QED BY <2>1, <2>2, <2>3
<1> QED BY <1>2, <1>3, <1>4, <1>5 DEF r

-----------------------------------------------------------------------------
(* Steps that leave m's texts as they are *)

\* No text of m is committed.
NoText(m) ==
    \A n \in 1..Len(log'), k \in Text : IsText(n, m, k)' => n \in 1..Len(log) /\ IsText(n, m, k)

LEMMA NoTextCommitted ==
    ASSUME TypeOK, NEW m \in Member,
           \/ log' = log
           \/ \E e \in Event : Commit(e) /\ ~(e.type = "TEXT" /\ e.who = m)
    PROVE  NoText(m)
<1>1. CASE log' = log
  BY <1>1 DEF NoText, IsText
<1>2. ASSUME NEW e \in Event, Commit(e), ~(e.type = "TEXT" /\ e.who = m)
      PROVE  NoText(m)
  <2>1. /\ Len(log) \in Nat /\ Len(log') = Len(log) + 1 /\ log'[Len(log) + 1] = e
        /\ \A i \in 1..Len(log) : log'[i] = log[i]
    BY <1>2, Appended
  <2> QED BY <1>2, <2>1 DEF NoText, IsText
<1> QED BY <1>1, <1>2

LEMMA HeededKept ==
    ASSUME TypeOK, NEW m \in Member, Heeded(m), Placed(m),
           dials'[m] = dials[m], broken[m] \subseteq broken'[m],
           \A s \in Stream : Texts(up'[m][s]) \subseteq Texts(up[m][s]),
           \A s \in Stream : Attached(m, s) =>
              Attached(m, s)' \/ (Texts(up'[m][s]) = {} /\ s \in broken'[m]),
           \A s \in Stream : s \notin broken'[m] /\ Accepts(down'[m][s]) => Accepts(down[m][s]),
           phase'[m] \in {"joining", "member", "resubmitting"} /\ dials[m] \notin broken'[m]
              => phase[m] \in {"joining", "member", "resubmitting"}
    PROVE  Heeded(m)'
<1>1. \A s \in Stream : Texts(up'[m][s]) # {} => Attached(m, s)'
  BY DEF Heeded
<1>2. ASSUME dials[m] \notin broken'[m], phase'[m] \in {"joining", "member", "resubmitting"}
      PROVE  Attached(m, dials[m])'
  <2>1. Attached(m, dials[m]) /\ dials[m] \in Stream
    BY <1>2, MemberTypes DEF Heeded, Placed
  <2> PICK s \in Stream : s = dials[m]
    BY <2>1
  <2> QED BY <1>2, <2>1
<1>3. ASSUME dials[m] \notin broken'[m], NEW s \in Stream, s = dials[m], Accepts(down'[m][s])
      PROVE  Attached(m, s)'
  BY <1>3 DEF Heeded
<1>4. ASSUME dials'[m] \notin broken'[m], phase'[m] \in {"joining", "member", "resubmitting"}
      PROVE  Attached(m, dials[m])'
  BY <1>2, <1>4
<1>5. Attached(m, dials[m])' <=> ((dials'[m] \in {conn'[m], resume'[m].stream})
                                    \/ (status'[m] = "committing" /\ dials'[m] = 1))
  BY DEF Attached
<1> QED BY <1>1, <1>3, <1>4, <1>5 DEF Heeded, Attached

LEMMA ClearedKept ==
    ASSUME NEW m \in Member, Cleared(m), Placed(m),
           dials'[m] = dials[m], gconn'[m] = gconn[m],
           \A s \in Stream : s # dials[m] => down'[m][s] \in {down[m][s], <<>>},
           phase'[m] = "recovering" =>
              \/ phase[m] = "recovering" /\ \A s \in Stream : down'[m][s] \in {down[m][s], <<>>}
              \/ phase[m] = "member"
              \/ \A s \in Stream : down'[m][s] = <<>>
    PROVE  Cleared(m)'
<1>1. \A s \in Stream : s # dials[m] => down'[m][s] = <<>>
  BY DEF Cleared
<1>2. ASSUME phase'[m] = "recovering", gconn[m] # dials[m], NEW s \in Stream
      PROVE  down'[m][s] = <<>>
  <2>1. phase[m] # "member"
    BY <1>2 DEF Placed
  <2> QED BY <1>2, <2>1 DEF Cleared
<1> QED BY <1>1, <1>2 DEF Cleared

LEMMA WrittenKept ==
    ASSUME TypeOK, NEW m \in Member, Written(m),
           dials'[m] = dials[m], draft'[m] = draft[m],
           resubmit'[m] \in {resubmit[m], {}},
           resubmit'[m] # {} => phase'[m] = "resubmitting",
           phase'[m] = "waiting" => phase[m] = "waiting",
           \A s \in Stream : Thins(up'[m][s], up[m][s])
    PROVE  Written(m)'
<1>1. \A s \in Stream : up[m][s] \in Seq(GuestFrame)
  BY MemberTypes
<1>2. \A s \in Stream : /\ Texts(up'[m][s]) \subseteq Texts(up[m][s])
                        /\ Once(up[m][s]) => Once(up'[m][s])
  BY <1>1, ThinTexts
<1>3. Pending(m)' = Pending(m)
  BY DEF Pending
<1> QED BY <1>2, <1>3 DEF Written

LEMMA RefusedKept ==
    ASSUME NEW m \in Member, Refused(m), draft'[m] = draft[m],
           resubmit'[m] \subseteq resubmit[m], phase'[m] = "waiting" => phase[m] = "waiting",
           \A s \in Stream : Refusals(down'[m][s]) \subseteq Refusals(down[m][s]),
           \A s \in Stream : Texts(up'[m][s]) \subseteq Texts(up[m][s])
    PROVE  Refused(m)'
BY DEF Refused

LEMMA SettledKept ==
    ASSUME NEW m \in Member, Settled(m), NoText(m), lastSeq'[m] = lastSeq[m],
           \A s \in Stream, k \in Text, n \in 1..Len(log) :
              Behind(down[m][s], lastSeq[m], k, n) => Behind(down'[m][s], lastSeq[m], k, n)
    PROVE  Settled(m)'
BY DEF Settled, NoText

LEMMA DraftedKept ==
    ASSUME NEW m \in Member, Drafted(m), NoText(m),
           draft'[m] = draft[m], lastSeq'[m] = lastSeq[m], skipped'[m] = skipped[m],
           phase'[m] \in {"out", "joining"} => phase[m] \in {"out", "joining"}
    PROVE  Drafted(m)'
BY DEF Drafted, NoText

\* Frames for m that neither refuse a text nor accept a resumption.
Delivers(m) ==
    \A s \in Stream :
        \/ down'[m][s] \in {down[m][s], <<>>}
        \/ /\ s = dials[m] /\ s \notin broken[m]
           /\ \E f \in HostFrame : /\ f.type \notin {"ACTION_REJECTED", "RESUME_ACCEPT"}
                                   /\ down'[m][s] = Append(down[m][s], f)

\* What m's own side does in such a step: nothing, or it gives up its streams.
Endures(m) ==
    /\ dials'[m] = dials[m] /\ gconn'[m] = gconn[m] /\ lastSeq'[m] = lastSeq[m]
    /\ draft'[m] = draft[m] /\ skipped'[m] = skipped[m]
    /\ \/ phase'[m] = phase[m] /\ resubmit'[m] = resubmit[m]
       \/ phase'[m] = "closed" /\ resubmit'[m] = {}
       \/ /\ phase'[m] = "recovering" /\ resubmit'[m] \in {resubmit[m], {}}
          /\ phase[m] = "member" \/ resubmit'[m] = {}
          /\ phase[m] \in {"member", "recovering"} \/ \A s \in Stream : down'[m][s] = <<>>

\* The same, with an acceptance.
Supplies(m) ==
    \A s \in Stream :
        \/ down'[m][s] \in {down[m][s], <<>>}
        \/ /\ s = dials[m] /\ s \notin broken[m]
           /\ \E f \in HostFrame : /\ f.type # "ACTION_REJECTED"
                                   /\ down'[m][s] = Append(down[m][s], f)

LEMMA ConductKept ==
    ASSUME TextInv, NEW m \in Member, Supplies(m), Endures(m),
           \A s \in Stream : Thins(up'[m][s], up[m][s])
    PROVE  /\ Cleared(m)' /\ Written(m)' /\ Refused(m)'
           /\ NoText(m) => Settled(m)' /\ Drafted(m)'
           /\ \A s \in Stream : /\ Texts(up'[m][s]) \subseteq Texts(up[m][s])
                                /\ Refusals(down'[m][s]) \subseteq Refusals(down[m][s])
           /\ \A s \in Stream : \A last, k, n :
                Behind(down[m][s], last, k, n) => Behind(down'[m][s], last, k, n)
<1> USE DEF TextInv, DeliveryInv, Flow, Letters
<1>1. /\ \A s \in Stream : up[m][s] \in Seq(GuestFrame) /\ down[m][s] \in Seq(HostFrame)
      /\ gconn[m] \in Nat /\ dials[m] \in Nat
  BY MemberTypes
<1>2. \A s \in Stream : Texts(up'[m][s]) \subseteq Texts(up[m][s])
  BY <1>1, ThinTexts
<1>3. ASSUME NEW s \in Stream
      PROVE  /\ Refusals(down'[m][s]) \subseteq Refusals(down[m][s])
             /\ \A last, k, n : Behind(down[m][s], last, k, n) => Behind(down'[m][s], last, k, n)
  <2>1. CASE down'[m][s] \in {down[m][s], <<>>}
    BY <2>1, EmptyTexts
  <2>2. ASSUME NEW f \in HostFrame, f.type # "ACTION_REJECTED",
               down'[m][s] = Append(down[m][s], f)
        PROVE  /\ Refusals(down'[m][s]) \subseteq Refusals(down[m][s])
               /\ \A last, k, n : Behind(down[m][s], last, k, n) => Behind(down'[m][s], last, k, n)
    <3>1. \A k : f # Rejection(k)
      BY <2>2 DEF Rejection
    <3> QED BY <1>1, <2>2, <3>1, WriteAnswer
  <2> QED BY <2>1, <2>2 DEF Supplies
<1>4. Cleared(m)'
  <2>1. \A s \in Stream : s # dials[m] => down'[m][s] \in {down[m][s], <<>>}
    BY DEF Supplies
  <2>2. ASSUME phase'[m] = "recovering"
        PROVE  \/ phase[m] = "recovering" /\ \A s \in Stream : down'[m][s] \in {down[m][s], <<>>}
               \/ phase[m] = "member"
               \/ \A s \in Stream : down'[m][s] = <<>>
    <3>1. phase[m] = "recovering" => dials[m] \in broken[m]
      BY DEF Placed
    <3>2. phase[m] = "recovering" => \A s \in Stream : down'[m][s] \in {down[m][s], <<>>}
      BY <3>1 DEF Supplies
    <3>3. \/ phase[m] = "recovering" \/ phase[m] = "member"
          \/ \A s \in Stream : down'[m][s] = <<>>
      BY <2>2 DEF Endures
    <3> QED BY <3>2, <3>3
  <2> QED BY <2>1, <2>2, ClearedKept DEF Endures
<1>5. resubmit'[m] \in {resubmit[m], {}} /\ (phase'[m] = "waiting" => phase[m] = "waiting")
  BY DEF Endures
<1>6. Written(m)'
  <2>1. phase[m] = "member" => resubmit[m] = {}
    BY DEF Written
  <2>2. resubmit'[m] # {} => phase'[m] = "resubmitting"
    BY <2>1 DEF Endures, Written
  <2> QED BY <1>5, <2>2, WrittenKept DEF Endures
<1>7. Refused(m)'
  <2>1. resubmit'[m] \subseteq resubmit[m]
    BY <1>5
  <2> QED BY <1>2, <1>3, <1>5, <2>1, RefusedKept DEF Endures
<1>8. ASSUME NoText(m) PROVE Settled(m)' /\ Drafted(m)'
  <2>1. Settled(m)'
    BY <1>3, <1>8, SettledKept DEF Endures
  <2>2. phase'[m] \in {"out", "joining"} => phase[m] \in {"out", "joining"}
    BY DEF Endures
  <2> QED BY <1>8, <2>1, <2>2, DraftedKept DEF Endures
<1> QED BY <1>2, <1>3, <1>4, <1>6, <1>7, <1>8

\* Where the host and m stand, when no acceptance is sent.
LEMMA ListensOn ==
    ASSUME TextInv, NEW m \in Member, Delivers(m), Endures(m),
           broken[m] \subseteq broken'[m],
           \A s \in Stream : Thins(up'[m][s], up[m][s]),
           \A s \in Stream : Attached(m, s) =>
              Attached(m, s)' \/ (up'[m][s] = <<>> /\ s \in broken'[m])
    PROVE  Heeded(m)' /\ Supplies(m)
<1> USE DEF TextInv, DeliveryInv, Flow, Letters
<1>1. \A s \in Stream : up[m][s] \in Seq(GuestFrame) /\ down[m][s] \in Seq(HostFrame)
  BY MemberTypes
<1>2. \A s \in Stream : Texts(up'[m][s]) \subseteq Texts(up[m][s])
  BY <1>1, ThinTexts
<1>3. ASSUME NEW s \in Stream
      PROVE  Accepts(down'[m][s]) => Accepts(down[m][s])
  <2>1. CASE down'[m][s] \in {down[m][s], <<>>}
    BY <2>1, EmptyTexts
  <2>2. ASSUME NEW f \in HostFrame, f.type # "RESUME_ACCEPT",
               down'[m][s] = Append(down[m][s], f)
        PROVE  Accepts(down'[m][s]) => Accepts(down[m][s])
    BY <1>1, <2>2, WriteAnswer
  <2> QED BY <2>1, <2>2 DEF Delivers
<1>4. phase'[m] \in {"joining", "member", "resubmitting"} => phase'[m] = phase[m]
  BY DEF Endures
<1>5. \A s \in Stream : Attached(m, s) =>
         Attached(m, s)' \/ (Texts(up'[m][s]) = {} /\ s \in broken'[m])
  BY EmptyTexts
<1>6. Heeded(m)'
  BY <1>2, <1>3, <1>4, <1>5, HeededKept DEF Endures
<1>7. Supplies(m)
  BY DEF Delivers, Supplies
<1> QED BY <1>6, <1>7

LEMMA LettersKept ==
    ASSUME TextInv, NEW m \in Member, NoText(m), Delivers(m), Endures(m),
           broken[m] \subseteq broken'[m],
           \A s \in Stream : Thins(up'[m][s], up[m][s]),
           \A s \in Stream : Attached(m, s) =>
              Attached(m, s)' \/ (up'[m][s] = <<>> /\ s \in broken'[m])
    PROVE  Letters(m)'
<1>1. Heeded(m)' /\ Supplies(m)
  BY ListensOn
<1>2. /\ Cleared(m)' /\ Written(m)' /\ Refused(m)'
      /\ NoText(m) => Settled(m)' /\ Drafted(m)'
  BY <1>1, ConductKept
<1> QED BY <1>1, <1>2 DEF Letters

\* Nothing changes for x but what is on its way to it.
Still(x) ==
    /\ status'[x] = status[x] /\ conn'[x] = conn[x] /\ resume'[x] = resume[x]
    /\ phase'[x] = phase[x] /\ gconn'[x] = gconn[x] /\ dials'[x] = dials[x]
    /\ lastSeq'[x] = lastSeq[x] /\ up'[x] = up[x] /\ broken'[x] = broken[x]
    /\ draft'[x] = draft[x] /\ resubmit'[x] = resubmit[x] /\ skipped'[x] = skipped[x]

LEMMA StillLetters ==
    ASSUME TextInv, NEW x \in Member, Still(x), NoText(x), Delivers(x)
    PROVE  Letters(x)'
<1>1. Endures(x)
  BY DEF Still, Endures
<1>2. \A s \in Stream : Thins(up'[x][s], up[x][s]) /\ (Attached(x, s) => Attached(x, s)')
  BY DEF Still, Thins, Attached
<1>3. broken[x] \subseteq broken'[x]
  BY DEF Still
<1> QED BY <1>1, <1>2, <1>3, LettersKept

\* A step that is m's alone.
LEMMA OneLetters ==
    ASSUME TextInv, NEW m \in Member, log' = log, Letters(m)',
           \A x \in Member \ {m} : Still(x) /\ down'[x] = down[x]
    PROVE  \A x \in Member : Letters(x)'
<1>1. \A x \in Member \ {m} : NoText(x) /\ Delivers(x)
  BY NoTextCommitted DEF TextInv, DeliveryInv, Delivers
<1> QED BY <1>1, StillLetters

\* A frame sent on a stream of x, unless it is a refusal or an acceptance.
LEMMA SentDelivers ==
    ASSUME DeliveryInv, NEW x \in Member, NEW s \in Stream \cup {0}, s <= dials[x],
           NEW f \in HostFrame, f.type \notin {"ACTION_REJECTED", "RESUME_ACCEPT"}, Sent(x, s, f)
    PROVE  Delivers(x)
<1>1. CASE s = 0 \/ s \in broken[x]
  BY <1>1 DEF Sent, Delivers
<1>2. CASE ~(s = 0 \/ s \in broken[x])
  <2>1. s = dials[x] /\ s \in Stream
    <3>1. s \in Nat /\ dials[x] \in Nat /\ s \in Stream
      BY <1>2, MemberTypes DEF Stream, DeliveryInv
    <3> QED BY <1>2, <3>1 DEF DeliveryInv, Flow, Placed
  <2>2. down'[x] = [down[x] EXCEPT ![s] = Append(down[x][s], f)]
        /\ down[x] \in [Stream -> Seq(HostFrame)]
    BY <1>2, MemberTypes DEF Sent, DeliveryInv
  <2> QED BY <1>2, <2>1, <2>2 DEF Delivers
<1> QED BY <1>1, <1>2

\* The newest event, relayed.
LEMMA EventDelivers ==
    ASSUME DeliveryInv, NEW x \in Member, NEW st, NEW cn, cn[x] \in Stream \cup {0},
           cn[x] <= dials[x], down'[x] = Relayed(st, cn)[x]
    PROVE  Delivers(x)
<1>1. PICK f \in HostFrame : f = RoomEvent(Len(log) + 1) /\ f.type = "ROOM_EVENT"
  BY NewestEvent DEF DeliveryInv
<1>2. IF st[x] = "online" THEN Sent(x, cn[x], f) ELSE down'[x] = down[x]
  BY <1>1, EventSent DEF DeliveryInv
<1>3. PICK s \in Stream \cup {0} : s = cn[x]
  OBVIOUS
<1> QED BY <1>1, <1>2, <1>3, SentDelivers DEF Delivers

-----------------------------------------------------------------------------
(* Streams that end *)

LEMMA BreakLetters ==
    ASSUME TextInv, NEW m \in Member, NEW s \in Stream, Break(m, s) \/ Drop(m, s)
    PROVE  \A x \in Member : Letters(x)'
<1> USE DEF TextInv, DeliveryInv
<1>1. /\ log' = log /\ status' = status /\ conn' = conn /\ resume' = resume
      /\ phase' = phase /\ gconn' = gconn /\ dials' = dials /\ lastSeq' = lastSeq
      /\ draft' = draft /\ resubmit' = resubmit /\ skipped' = skipped
  BY DEF Break, Drop, hostVars, guestVars
<1>2. /\ \A x \in Member \ {m} : up'[x] = up[x] /\ down'[x] = down[x] /\ broken'[x] = broken[x]
      /\ broken[m] \subseteq broken'[m]
      /\ \A t \in Stream : up'[m][t] \in {up[m][t], <<>>} /\ down'[m][t] \in {down[m][t], <<>>}
  BY DEF Break, Drop, TypeOK, NetTypeOK
<1>3. NoText(m) /\ Delivers(m) /\ Endures(m)
  BY <1>1, <1>2, NoTextCommitted DEF Delivers, Endures
<1>4. \A t \in Stream : Thins(up'[m][t], up[m][t]) /\ (Attached(m, t) => Attached(m, t)')
  BY <1>1, <1>2 DEF Thins, Attached
<1>5. Letters(m)'
  BY <1>2, <1>3, <1>4, LettersKept
<1> QED BY <1>1, <1>2, <1>5, OneLetters DEF Still

LEMMA QuitLetters ==
    ASSUME TextInv, NEW m \in Member, Quit(m),
           \A x \in Member \ {m} : up'[x] = up[x],
           \A s \in Stream : Thins(up'[m][s], up[m][s])
    PROVE  \A x \in Member : Letters(x)'
<1> USE DEF TextInv, DeliveryInv
<1>1. /\ log' = log /\ status' = status /\ conn' = conn /\ resume' = resume
      /\ gconn' = gconn /\ dials' = dials /\ lastSeq' = lastSeq
      /\ draft' = draft /\ skipped' = skipped
  BY DEF Quit, hostVars
<1>2. /\ \A x \in Member \ {m} : /\ down'[x] = down[x] /\ broken'[x] = broken[x]
                                 /\ phase'[x] = phase[x] /\ resubmit'[x] = resubmit[x]
      /\ broken[m] \subseteq broken'[m] /\ phase'[m] = "closed" /\ resubmit'[m] = {}
      /\ \A t \in Stream : down'[m][t] = <<>>
  BY DEF Quit, TypeOK, GuestTypeOK, NetTypeOK
<1>3. NoText(m) /\ Delivers(m) /\ Endures(m)
  BY <1>1, <1>2, NoTextCommitted DEF Delivers, Endures
<1>4. \A t \in Stream : Attached(m, t) => Attached(m, t)'
  BY <1>1 DEF Attached
<1>5. Letters(m)'
  BY <1>2, <1>3, <1>4, LettersKept
<1> QED BY <1>1, <1>2, <1>5, OneLetters DEF Still

LEMMA QuitSilentlyLetters ==
    ASSUME TextInv, NEW m \in Member, ReadRemoved(m) \/ FailJoin(m) \/ RecoveryTimeout(m)
    PROVE  \A x \in Member : Letters(x)'
<1>1. Quit(m) /\ up' = up
  BY DEF ReadRemoved, FailJoin, RecoveryTimeout
<1> QED BY <1>1, QuitLetters DEF Thins

\* A queue to the host gets a frame, if its stream is intact.
LEMMA Pushed ==
    ASSUME TypeOK, NEW m \in Member, NEW s \in Stream \cup {0}, NEW f, up' = Push(up, m, s, f)
    PROVE  /\ \A x \in Member \ {m} : up'[x] = up[x]
           /\ \A t \in Stream : up'[m][t] = IF t = s /\ s \notin broken[m]
                                            THEN Append(up[m][t], f) ELSE up[m][t]
<1>1. up \in [Member -> [Stream -> Seq(GuestFrame)]] /\ 0 \notin Stream
  BY DEF TypeOK, NetTypeOK, Stream
<1>2. CASE s = 0 \/ s \in broken[m]
  BY <1>1, <1>2 DEF Push
<1>3. CASE ~(s = 0 \/ s \in broken[m])
  BY <1>1, <1>3 DEF Push
<1> QED BY <1>2, <1>3

LEMMA LeaveLetters ==
    ASSUME TextInv, NEW m \in Member, Leave(m)
    PROVE  \A x \in Member : Letters(x)'
<1>1. PICK f : f = [type |-> "LEAVE"]
  OBVIOUS
<1>2. PICK s : s = gconn[m]
  OBVIOUS
<1>3. /\ f \in GuestFrame /\ f.type # "TEXT_SUBMIT" /\ s \in Stream \cup {0} /\ TypeOK
      /\ up' = Push(up, m, s, f) /\ Quit(m)
  BY <1>1, <1>2, MemberTypes DEF TextInv, DeliveryInv, GuestFrame, Leave
<1>4. /\ \A x \in Member \ {m} : up'[x] = up[x]
      /\ \A t \in Stream : up'[m][t] = IF t = s /\ s \notin broken[m]
                                       THEN Append(up[m][t], f) ELSE up[m][t]
  BY <1>3, Pushed
<1>5. \A t \in Stream : Thins(up'[m][t], up[m][t])
  BY <1>3, <1>4 DEF Thins
<1> QED BY <1>3, <1>4, <1>5, QuitLetters

LEMMA RecoveryLetters ==
    ASSUME TextInv, NEW m \in Member,
           BeginRecovery(m) \/ ReadUnusableEvent(m) \/ ResumeFailed(m)
    PROVE  \A x \in Member : Letters(x)'
<1> USE DEF TextInv, DeliveryInv
<1>1. /\ log' = log /\ status' = status /\ conn' = conn /\ resume' = resume
      /\ gconn' = gconn /\ dials' = dials /\ lastSeq' = lastSeq
      /\ draft' = draft /\ skipped' = skipped /\ up' = up
  BY DEF BeginRecovery, ReadUnusableEvent, ResumeFailed, hostVars, netVars
<1>2. \A x \in Member \ {m} : /\ down'[x] = down[x] /\ broken'[x] = broken[x]
                              /\ phase'[x] = phase[x] /\ resubmit'[x] = resubmit[x]
  BY DEF BeginRecovery, ReadUnusableEvent, ResumeFailed, netVars, TypeOK, GuestTypeOK, NetTypeOK
<1>3. /\ broken[m] \subseteq broken'[m]
      /\ \A t \in Stream : down'[m][t] \in {down[m][t], <<>>}
  BY DEF BeginRecovery, ReadUnusableEvent, ResumeFailed, netVars, TypeOK, NetTypeOK
<1>4. NoText(m) /\ Delivers(m)
  BY <1>1, <1>3, NoTextCommitted DEF Delivers
<1>5. Endures(m)
  <2>1. CASE BeginRecovery(m)
    BY <1>1, <2>1 DEF BeginRecovery, Endures, TypeOK, GuestTypeOK
  <2>2. CASE ReadUnusableEvent(m)
    <3>1. resubmit' = resubmit /\ phase'[m] = (IF phase[m] = "member" THEN "recovering" ELSE phase[m])
      BY <2>2 DEF ReadUnusableEvent, TypeOK, GuestTypeOK
    <3> QED BY <1>1, <3>1 DEF Endures
  <2>3. CASE ResumeFailed(m)
    <3>1. /\ phase'[m] = "recovering" /\ resubmit'[m] = {}
          /\ \A t \in Stream : t = dials[m] => down'[m][t] = <<>>
      BY <2>3 DEF ResumeFailed, TypeOK, GuestTypeOK, NetTypeOK
    <3>2. \A t \in Stream : down'[m][t] = <<>>
      BY <1>3, <3>1 DEF Letters, Cleared
    <3> QED BY <1>1, <3>1, <3>2 DEF Endures
  <2> QED BY <2>1, <2>2, <2>3
<1>6. \A t \in Stream : Thins(up'[m][t], up[m][t]) /\ (Attached(m, t) => Attached(m, t)')
  BY <1>1 DEF Thins, Attached
<1>7. Letters(m)'
  BY <1>3, <1>4, <1>5, <1>6, LettersKept
<1> QED BY <1>1, <1>2, <1>7, OneLetters DEF Still

-----------------------------------------------------------------------------
(* Steps of the host that take no text *)

\* Who an event is not about is only sent the event.
LEMMA CommitStill ==
    ASSUME TextInv, NEW x \in Member, NEW e \in Event, Commit(e),
           ~(e.type = "TEXT" /\ e.who = x),
           NEW st, NEW cn, cn[x] \in Stream \cup {0}, cn[x] <= dials[x],
           down'[x] = Relayed(st, cn)[x], Still(x)
    PROVE  Letters(x)'
<1>1. Delivers(x)
  BY EventDelivers DEF TextInv
<1>2. NoText(x)
  BY NoTextCommitted DEF TextInv, DeliveryInv
<1> QED BY <1>1, <1>2, StillLetters

LEMMA OwnerTextLetters ==
    ASSUME TextInv, OwnerText
    PROVE  \A x \in Member : Letters(x)'
<1> USE DEF TextInv, DeliveryInv
<1>1. PICK e \in Event : Commit(e) /\ e.who = Owner
  BY OwnerTextsFinite DEF OwnerText, Event
<1>2. /\ down' = Relayed(status, conn) /\ status' = status /\ conn' = conn /\ resume' = resume
      /\ phase' = phase /\ gconn' = gconn /\ dials' = dials /\ lastSeq' = lastSeq
      /\ draft' = draft /\ resubmit' = resubmit /\ skipped' = skipped
      /\ up' = up /\ broken' = broken
  BY DEF OwnerText, guestVars
<1> SUFFICES ASSUME NEW x \in Member
             PROVE  Letters(x)'
  OBVIOUS
<1>3. conn[x] \in Stream \cup {0} /\ conn[x] <= dials[x]
  BY MemberTypes, Holding
<1>4. Still(x) /\ e.who # x
  BY <1>1, <1>2, GroupLogAssumption DEF Still
<1> QED BY <1>1, <1>2, <1>3, <1>4, CommitStill

LEMMA SetRoomPausedLetters ==
    ASSUME TextInv, SetRoomPaused
    PROVE  \A x \in Member : Letters(x)'
<1> USE DEF TextInv, DeliveryInv
<1> SUFFICES ASSUME NEW x \in Member
             PROVE  Letters(x)'
  OBVIOUS
<1>1. /\ log' = log /\ conn' = conn /\ resume' = resume /\ paused' \in BOOLEAN
      /\ phase' = phase /\ gconn' = gconn /\ dials' = dials /\ lastSeq' = lastSeq
      /\ draft' = draft /\ resubmit' = resubmit /\ skipped' = skipped
  BY DEF SetRoomPaused, guestVars
<1>2. PICK f : f = [type |-> "ROOM_PAUSE", paused |-> paused']
  OBVIOUS
<1>3. f \in HostFrame /\ f.type \notin {"ACTION_REJECTED", "RESUME_ACCEPT"}
  BY <1>1, <1>2 DEF HostFrame
<1>4. PICK st, cn : st = status /\ cn = conn
  OBVIOUS
<1>5. cn[x] \in Stream \cup {0} /\ cn[x] <= dials[x]
  BY <1>4, MemberTypes, Holding
<1>6. down'[x] = IF st[x] # "online" \/ cn[x] = 0 \/ cn[x] \in broken[x] THEN down[x]
                 ELSE [down[x] EXCEPT ![cn[x]] = Append(down[x][cn[x]], f)]
  <2>1. down' = Relay(f, st, cn)
    BY <1>2, <1>4 DEF SetRoomPaused
  <2>2. Relay(f, st, cn)[x] =
          IF st[x] # "online" \/ cn[x] = 0 \/ cn[x] \in broken[x] THEN down[x]
          ELSE [down[x] EXCEPT ![cn[x]] = Append(down[x][cn[x]], f)]
    <3>1. TypeOK /\ x \in Member /\ cn[x] \in Stream \cup {0}
      BY <1>5
    <3> QED BY ONLY <3>1, RelayHere
  <2> QED BY <2>1, <2>2
<1>7. Delivers(x)
  <2>1. PICK s \in Stream \cup {0} : s = cn[x]
    BY <1>5
  <2>2. CASE st[x] = "online"
    <3>1. Sent(x, s, f)
      BY <1>6, <2>1, <2>2 DEF Sent
    <3> QED BY <1>3, <1>5, <2>1, <3>1, SentDelivers
  <2>3. CASE st[x] # "online"
    BY <1>6, <2>3 DEF Delivers
  <2> QED BY <2>2, <2>3
<1>8. NoText(x) /\ Endures(x)
  BY <1>1, NoTextCommitted DEF Endures
<1>9. CASE status[x] = "committing" /\ paused'
  <2>1. /\ broken'[x] = broken[x] \cup {1}
        /\ \A s \in Stream : up'[x][s] = IF s = 1 THEN <<>> ELSE up[x][s]
    BY <1>9, MemberTypes DEF SetRoomPaused
  <2>2. \A s \in Stream : /\ Thins(up'[x][s], up[x][s])
                          /\ Attached(x, s) => Attached(x, s)' \/ (up'[x][s] = <<>> /\ s \in broken'[x])
    BY <1>1, <2>1 DEF Thins, Attached
  <2> QED BY <1>7, <1>8, <2>1, <2>2, LettersKept
<1>10. CASE ~(status[x] = "committing" /\ paused')
  <2>1. status'[x] = status[x] /\ broken'[x] = broken[x] /\ up'[x] = up[x]
    BY <1>10 DEF SetRoomPaused
  <2>2. Still(x)
    BY <1>1, <2>1 DEF Still
  <2> QED BY <1>7, <1>8, <2>2, StillLetters
<1> QED BY <1>9, <1>10

LEMMA CommitAdmissionLetters ==
    ASSUME TextInv, NEW m \in Member, CommitAdmission(m)
    PROVE  \A x \in Member : Letters(x)'
<1> USE DEF TextInv, DeliveryInv
<1>1. PICK e \in Event : Commit(e) /\ e.type = "MEMBER_JOINED"
  BY DEF CommitAdmission, Event
<1>2. /\ resume' = resume /\ phase' = phase /\ gconn' = gconn /\ dials' = dials
      /\ lastSeq' = lastSeq /\ up' = up /\ broken' = broken
      /\ draft' = draft /\ resubmit' = resubmit /\ skipped' = skipped
      /\ down' = Relayed(status', conn')
  BY DEF CommitAdmission, guestVars
<1>3. status[m] = "committing" /\ status'[m] = "online" /\ conn'[m] = 1
  BY DEF CommitAdmission, TypeOK, HostTypeOK
<1>4. \A x \in Member \ {m} : status'[x] = status[x] /\ conn'[x] = conn[x]
  BY DEF CommitAdmission
<1>5. conn[m] = 0 /\ 1 \in Stream /\ 1 <= dials[m]
  <2>1. dials[m] \in Stream
    BY <1>3, MemberTypes DEF Flow, Placed
  <2> QED BY <1>3, <2>1, StreamOne DEF Flow, Placed, Stream
<1>6. ASSUME NEW x \in Member
      PROVE  conn'[x] \in Stream \cup {0} /\ conn'[x] <= dials[x]
  BY <1>3, <1>4, <1>5, MemberTypes, Holding
<1>7. ASSUME NEW x \in Member \ {m}
      PROVE  Letters(x)'
  <2>1. Still(x)
    BY <1>2, <1>4 DEF Still
  <2> QED BY <1>1, <1>2, <1>6, <2>1, CommitStill
<1>8. Letters(m)'
  <2>1. Delivers(m)
    BY <1>2, <1>6, EventDelivers
  <2>2. NoText(m) /\ Endures(m)
    BY <1>1, <1>2, NoTextCommitted DEF Endures
  <2>3. \A s \in Stream : Thins(up'[m][s], up[m][s]) /\ (Attached(m, s) => Attached(m, s)')
    <3>1. \A s \in Stream : s # 0
      BY DEF Stream
    <3> QED BY <1>2, <1>3, <1>5, <3>1 DEF Thins, Attached
  <2> QED BY <1>2, <2>1, <2>2, <2>3, LettersKept
<1> QED BY <1>7, <1>8

LEMMA DropPendingLetters ==
    ASSUME TextInv, NEW m \in Member, DropPending(m)
    PROVE  \A x \in Member : Letters(x)'
<1> USE DEF TextInv, DeliveryInv
<1>1. /\ log' = log /\ conn' = conn /\ dials' = dials /\ gconn' = gconn /\ lastSeq' = lastSeq
      /\ phase' = phase /\ resume' = resume /\ down' = down
      /\ draft' = draft /\ resubmit' = resubmit /\ skipped' = skipped
  BY DEF DropPending, guestVars
<1>2. /\ broken'[m] = broken[m] \cup {1}
      /\ \A s \in Stream : up'[m][s] = IF s = 1 THEN <<>> ELSE up[m][s]
  BY StreamOne DEF DropPending, TypeOK, HostTypeOK, NetTypeOK
<1>3. \A x \in Member \ {m} : Still(x) /\ down'[x] = down[x]
  BY <1>1 DEF DropPending, Still, TypeOK, HostTypeOK, NetTypeOK
<1>4. NoText(m) /\ Delivers(m) /\ Endures(m)
  BY <1>1, NoTextCommitted DEF Delivers, Endures
<1>5. \A s \in Stream : /\ Thins(up'[m][s], up[m][s])
                        /\ Attached(m, s) => Attached(m, s)' \/ (up'[m][s] = <<>> /\ s \in broken'[m])
  BY <1>1, <1>2 DEF Thins, Attached
<1>6. Letters(m)'
  BY <1>2, <1>4, <1>5, LettersKept
<1> QED BY <1>1, <1>3, <1>6, OneLetters

LEMMA LoseMemberLetters ==
    ASSUME TextInv, NEW m \in Member, LoseMember(m)
    PROVE  \A x \in Member : Letters(x)'
<1> USE DEF TextInv, DeliveryInv
<1>1. PICK e \in Event : Commit(e) /\ e.type = "MEMBER_RECONNECTING"
  BY DEF LoseMember, Event
<1>2. /\ resume' = resume /\ phase' = phase /\ gconn' = gconn /\ dials' = dials
      /\ lastSeq' = lastSeq /\ broken' = broken /\ down' = Relayed(status', conn')
      /\ draft' = draft /\ resubmit' = resubmit /\ skipped' = skipped
  BY DEF LoseMember, guestVars
<1>3. /\ status[m] = "online" /\ status'[m] = "reconnecting" /\ conn'[m] = 0
      /\ conn[m] \in broken[m]
      /\ \A s \in Stream : up'[m][s] = IF s = conn[m] THEN <<>> ELSE up[m][s]
  BY DEF LoseMember, TypeOK, HostTypeOK, NetTypeOK
<1>4. \A x \in Member \ {m} : status'[x] = status[x] /\ conn'[x] = conn[x] /\ up'[x] = up[x]
  BY DEF LoseMember
<1>5. ASSUME NEW x \in Member \ {m}
      PROVE  Letters(x)'
  <2>1. Still(x)
    BY <1>2, <1>4 DEF Still
  <2>2. conn'[x] \in Stream \cup {0} /\ conn'[x] <= dials[x]
    BY <1>4, MemberTypes, Holding
  <2> QED BY <1>1, <1>2, <2>1, <2>2, CommitStill
<1>6. Letters(m)'
  <2>1. down'[m] = down[m]
    BY <1>2, <1>3, EventSent
  <2>2. NoText(m) /\ Endures(m) /\ Delivers(m)
    BY <1>1, <1>2, <2>1, NoTextCommitted DEF Endures, Delivers
  <2>3. \A s \in Stream : /\ Thins(up'[m][s], up[m][s])
                          /\ Attached(m, s) => Attached(m, s)' \/ (up'[m][s] = <<>> /\ s \in broken'[m])
    BY <1>2, <1>3 DEF Thins, Attached
  <2> QED BY <1>2, <2>2, <2>3, LettersKept
<1> QED BY <1>5, <1>6

LEMMA RemoveLetters ==
    ASSUME TextInv, NEW m \in Member, NEW notify, Remove(m, notify),
           status[m] \in {"online", "reconnecting"}
    PROVE  \A x \in Member : Letters(x)'
<1> USE DEF TextInv, DeliveryInv
<1>1. PICK e \in Event : Commit(e) /\ e.type = "MEMBER_LEFT"
  BY DEF Remove, Event
<1>2. /\ phase' = phase /\ gconn' = gconn /\ dials' = dials /\ lastSeq' = lastSeq
      /\ draft' = draft /\ resubmit' = resubmit /\ skipped' = skipped
  BY DEF Remove, guestVars
<1>3. /\ status'[m] = "gone" /\ conn'[m] = 0 /\ resume'[m] = NoResume
      /\ broken'[m] = broken[m] \cup ({conn[m], resume[m].stream} \ {0})
      /\ \A s \in Stream : up'[m][s] = IF s \in {conn[m], resume[m].stream} THEN <<>> ELSE up[m][s]
  BY DEF Remove, TypeOK, HostTypeOK, NetTypeOK
<1>4. PICK told : told = Relayed(status', conn')
  OBVIOUS
<1>5. /\ told \in [Member -> [Stream -> Seq(HostFrame)]]
      /\ down' = IF notify THEN Push(told, m, conn[m], [type |-> "REMOVED"]) ELSE told
  BY <1>4, RelayedType DEF Remove
<1>6. \A x \in Member \ {m} : down'[x] = told[x]
  BY <1>5 DEF Push
<1>7. ASSUME NEW x \in Member \ {m}
      PROVE  Letters(x)'
  <2>1. /\ status'[x] = status[x] /\ conn'[x] = conn[x] /\ resume'[x] = resume[x]
        /\ broken'[x] = broken[x] /\ up'[x] = up[x]
    BY DEF Remove
  <2>2. Still(x)
    BY <1>2, <2>1 DEF Still
  <2>3. conn'[x] \in Stream \cup {0} /\ conn'[x] <= dials[x]
    BY <2>1, MemberTypes, Holding
  <2>4. down'[x] = Relayed(status', conn')[x]
    BY <1>4, <1>6
  <2> QED BY <1>1, <2>2, <2>3, <2>4, CommitStill
<1>8. told[m] = down[m]
  <2>1. \A s \in Stream : told[m][s] = down[m][s]
    BY <1>3, <1>4 DEF Relayed, Relay
  <2>2. told[m] \in [Stream -> Seq(HostFrame)] /\ down[m] \in [Stream -> Seq(HostFrame)]
    BY <1>5, MemberTypes
  <2> QED BY <2>1, <2>2
<1>9. Delivers(m)
  <2>1. CASE notify
    <3>1. PICK f : f = [type |-> "REMOVED"]
      OBVIOUS
    <3>2. f \in HostFrame /\ f.type \notin {"ACTION_REJECTED", "RESUME_ACCEPT"}
      BY <3>1 DEF HostFrame
    <3>3. Sent(m, conn[m], f)
      BY <1>5, <1>8, <2>1, <3>1 DEF Sent, Push
    <3>4. PICK s \in Stream \cup {0} : s = conn[m] /\ s <= dials[m]
      BY MemberTypes, Holding
    <3> QED BY <3>2, <3>3, <3>4, SentDelivers
  <2>2. CASE ~notify
    BY <1>5, <1>8, <2>2 DEF Delivers
  <2> QED BY <2>1, <2>2
<1>10. NoText(m) /\ Endures(m)
  BY <1>1, <1>2, NoTextCommitted DEF Endures
<1>11. \A s \in Stream : /\ Thins(up'[m][s], up[m][s])
                         /\ Attached(m, s) => up'[m][s] = <<>> /\ s \in broken'[m]
  <2>1. \A s \in Stream : s # 0
    BY DEF Stream
  <2> QED BY <1>3, <2>1 DEF Thins, Attached
<1>12. Letters(m)'
  BY <1>3, <1>9, <1>10, <1>11, LettersKept
<1> QED BY <1>7, <1>12

LEMMA RemovalLetters ==
    ASSUME TextInv, NEW m \in Member,
           RemoveMember(m) \/ GraceTimeout(m) \/ HearLeave(m)
    PROVE  \A x \in Member : Letters(x)'
BY RemoveLetters DEF RemoveMember, GraceTimeout, HearLeave, Hears

\* A frame for m, and nothing else for anybody.
LEMMA FrameLetters ==
    ASSUME TextInv, NEW m \in Member, NEW s \in Stream \cup {0}, s <= dials[m],
           NEW f \in HostFrame, f.type \notin {"ACTION_REJECTED", "RESUME_ACCEPT"},
           down' = Push(down, m, s, f), log' = log, status' = status, conn' = conn,
           phase' = phase, gconn' = gconn, dials' = dials, lastSeq' = lastSeq,
           draft' = draft, resubmit' = resubmit, skipped' = skipped,
           broken[m] \subseteq broken'[m],
           resume'[m].stream = resume[m].stream,
           \A x \in Member \ {m} : /\ resume'[x] = resume[x] /\ up'[x] = up[x]
                                   /\ broken'[x] = broken[x],
           \A t \in Stream : Thins(up'[m][t], up[m][t])
    PROVE  \A x \in Member : Letters(x)'
<1> USE DEF TextInv, DeliveryInv
<1>1. Sent(m, s, f) /\ \A x \in Member \ {m} : down'[x] = down[x]
  BY DEF Sent, Push, TypeOK, NetTypeOK
<1>2. Delivers(m)
  BY <1>1, SentDelivers
<1>3. NoText(m) /\ Endures(m)
  BY NoTextCommitted DEF Endures
<1>4. \A t \in Stream : Attached(m, t) => Attached(m, t)'
  BY DEF Attached
<1>5. Letters(m)'
  BY <1>2, <1>3, <1>4, LettersKept
<1> QED BY <1>1, <1>5, OneLetters DEF Still

LEMMA RejectResumeLetters ==
    ASSUME TextInv, NEW m \in Member, NEW s \in Stream, RejectResume(m, s)
    PROVE  \A x \in Member : Letters(x)'
<1> USE DEF TextInv, DeliveryInv
<1>1. /\ log' = log /\ status' = status /\ conn' = conn /\ resume' = resume
      /\ phase' = phase /\ gconn' = gconn /\ dials' = dials /\ lastSeq' = lastSeq
      /\ draft' = draft /\ resubmit' = resubmit /\ skipped' = skipped
  BY DEF RejectResume, hostVars, guestVars
<1>2. PICK f : f = [type |-> "RESUME_REJECT"]
  OBVIOUS
<1>3. /\ f \in HostFrame /\ f.type \notin {"ACTION_REJECTED", "RESUME_ACCEPT"}
      /\ down' = Push(down, m, s, f)
  BY <1>2 DEF HostFrame, RejectResume
<1>4. /\ broken[m] \subseteq broken'[m] /\ \A t \in Stream : up'[m][t] \in {up[m][t], <<>>}
      /\ \A x \in Member \ {m} : up'[x] = up[x] /\ broken'[x] = broken[x]
  BY DEF RejectResume, TypeOK, NetTypeOK
<1>5. s <= dials[m]
  BY Opening DEF RejectResume
<1>6. \A t \in Stream : Thins(up'[m][t], up[m][t])
  BY <1>4 DEF Thins
<1> QED BY <1>1, <1>3, <1>4, <1>5, <1>6, FrameLetters

LEMMA ReplayLetters ==
    ASSUME TextInv, NEW m \in Member, ReplayEvent(m) \/ ReplayResync(m)
    PROVE  \A x \in Member : Letters(x)'
<1> USE DEF TextInv, DeliveryInv
<1>1. /\ log' = log /\ status' = status /\ conn' = conn /\ up' = up /\ broken' = broken
      /\ phase' = phase /\ gconn' = gconn /\ dials' = dials /\ lastSeq' = lastSeq
      /\ draft' = draft /\ resubmit' = resubmit /\ skipped' = skipped
      /\ \A x \in Member \ {m} : resume'[x] = resume[x]
      /\ resume'[m].stream = resume[m].stream
  BY DEF ReplayEvent, ReplayResync, guestVars, TypeOK, HostTypeOK
<1>2. PICK s \in Stream \cup {0} : s = resume[m].stream /\ s <= dials[m]
  BY MemberTypes, Holding
<1>3. PICK f \in HostFrame : /\ f.type \notin {"ACTION_REJECTED", "RESUME_ACCEPT"}
                             /\ down' = Push(down, m, s, f)
  <2>1. CASE ReplayEvent(m)
    <3>1. PICK f : f = RoomEvent(resume[m].cursor + 1)
      OBVIOUS
    <3>2. f \in HostFrame /\ f.type = "ROOM_EVENT"
      BY <3>1, MemberTypes DEF RoomEvent, HostFrame
    <3> QED BY <1>2, <2>1, <3>1, <3>2 DEF ReplayEvent
  <2>2. CASE ReplayResync(m)
    <3>1. PICK f : f = [type |-> "RESYNC_REQUIRED", seq |-> Len(log), roster |-> HostRoster]
      OBVIOUS
    <3>2. f \in HostFrame /\ f.type = "RESYNC_REQUIRED"
      BY <3>1, MemberTypes, RosterType DEF HostFrame
    <3> QED BY <1>2, <2>2, <3>1, <3>2 DEF ReplayResync
  <2> QED BY <2>1, <2>2
<1>4. \A t \in Stream : Thins(up'[m][t], up[m][t])
  BY <1>1 DEF Thins
<1> QED BY <1>1, <1>2, <1>3, <1>4, FrameLetters

LEMMA ActivateResumeLetters ==
    ASSUME TextInv, NEW m \in Member, ActivateResume(m)
    PROVE  \A x \in Member : Letters(x)'
<1> USE DEF TextInv, DeliveryInv
<1>1. PICK e \in Event : Commit(e) /\ e.type = "MEMBER_ONLINE"
  BY DEF ActivateResume, Event
<1>2. /\ phase' = phase /\ gconn' = gconn /\ dials' = dials
      /\ lastSeq' = lastSeq /\ up' = up /\ broken' = broken
      /\ draft' = draft /\ resubmit' = resubmit /\ skipped' = skipped
      /\ down' = Relayed(status', conn')
  BY DEF ActivateResume, guestVars
<1>3. /\ resume[m] # NoResume /\ conn'[m] = resume[m].stream /\ status[m] = "reconnecting"
      /\ conn[m] = 0
  BY DEF ActivateResume, StayInv, ResumingAway, TypeOK, HostTypeOK, Flow, Placed
<1>4. \A x \in Member \ {m} : status'[x] = status[x] /\ conn'[x] = conn[x] /\ resume'[x] = resume[x]
  BY DEF ActivateResume
<1>5. ASSUME NEW x \in Member
      PROVE  conn'[x] \in Stream \cup {0} /\ conn'[x] <= dials[x]
  BY <1>3, <1>4, MemberTypes, Holding
<1>6. ASSUME NEW x \in Member \ {m}
      PROVE  Letters(x)'
  <2>1. Still(x)
    BY <1>2, <1>4 DEF Still
  <2> QED BY <1>1, <1>2, <1>5, <2>1, CommitStill
<1>7. Letters(m)'
  <2>1. Delivers(m)
    BY <1>2, <1>5, EventDelivers
  <2>2. NoText(m) /\ Endures(m)
    BY <1>1, <1>2, NoTextCommitted DEF Endures
  <2>3. \A s \in Stream : Thins(up'[m][s], up[m][s]) /\ (Attached(m, s) => Attached(m, s)')
    <3>1. \A s \in Stream : s # 0
      BY DEF Stream
    <3> QED BY <1>2, <1>3, <3>1 DEF Thins, Attached
  <2> QED BY <1>2, <2>1, <2>2, <2>3, LettersKept
<1> QED BY <1>6, <1>7

LEMMA AbandonResumeLetters ==
    ASSUME TextInv, NEW m \in Member, AbandonResume(m)
    PROVE  \A x \in Member : Letters(x)'
<1> USE DEF TextInv, DeliveryInv
<1>1. /\ log' = log /\ conn' = conn /\ dials' = dials /\ gconn' = gconn /\ lastSeq' = lastSeq
      /\ phase' = phase /\ status' = status /\ down' = down /\ broken' = broken
      /\ draft' = draft /\ resubmit' = resubmit /\ skipped' = skipped
  BY DEF AbandonResume, guestVars
<1>2. /\ resume'[m] = NoResume /\ resume[m].stream \in broken[m]
      /\ \A s \in Stream : up'[m][s] = IF s = resume[m].stream THEN <<>> ELSE up[m][s]
  BY DEF AbandonResume, TypeOK, HostTypeOK, NetTypeOK
<1>3. \A x \in Member \ {m} : Still(x) /\ down'[x] = down[x]
  BY <1>1 DEF AbandonResume, Still, TypeOK, HostTypeOK, NetTypeOK
<1>4. NoText(m) /\ Delivers(m) /\ Endures(m)
  BY <1>1, NoTextCommitted DEF Delivers, Endures
<1>5. \A s \in Stream : /\ Thins(up'[m][s], up[m][s])
                        /\ Attached(m, s) => Attached(m, s)' \/ (up'[m][s] = <<>> /\ s \in broken'[m])
  BY <1>1, <1>2 DEF Thins, Attached
<1>6. Letters(m)'
  BY <1>1, <1>4, <1>5, LettersKept
<1> QED BY <1>1, <1>3, <1>6, OneLetters

-----------------------------------------------------------------------------
(* Steps of the host that admit and resume m, or take a text of m *)

LEMMA ApproveJoinLetters ==
    ASSUME TextInv, NEW m \in Member, ApproveJoin(m)
    PROVE  \A x \in Member : Letters(x)'
<1> USE DEF TextInv, DeliveryInv
<1>1. /\ log' = log /\ conn' = conn /\ resume' = resume /\ lastSeq' = lastSeq
      /\ draft' = draft /\ resubmit' = resubmit /\ skipped' = skipped
      /\ up' = up /\ broken' = broken
  BY DEF ApproveJoin
<1>2. PICK f : f = [type |-> "JOIN_ACCEPT", seq |-> Len(log),
                    roster |-> [HostRoster EXCEPT ![m] = "online"]]
  OBVIOUS
<1>3. /\ status[m] = "out" /\ status'[m] = "committing" /\ phase'[m] = "joining"
      /\ gconn'[m] = 1 /\ dials'[m] = 1
  BY DEF ApproveJoin, TypeOK, HostTypeOK, GuestTypeOK
<1>4. phase[m] = "out" /\ dials[m] = 0
  BY <1>3 DEF Flow, Placed
<1>5. \A s \in Stream : s \in Nat /\ s > 0 /\ up[m][s] = <<>> /\ down[m][s] = <<>> /\ s \notin broken[m]
  BY <1>4, NotOpened DEF Stream
<1>6. down' = Push(down, m, 1, f)
  BY <1>2 DEF ApproveJoin
<1>7. /\ \A x \in Member \ {m} : down'[x] = down[x]
      /\ \A s \in Stream : s # 1 => down'[m][s] = <<>>
      /\ down'[m][1] = <<f>>
  <2>1. down' = [down EXCEPT ![m][1] = Append(@, f)]
    BY <1>5, <1>6, StreamOne DEF Push
  <2>2. down'[m][1] = Append(<<>>, f)
    BY <1>5, <2>1, StreamOne DEF TypeOK, NetTypeOK
  <2> QED BY <1>5, <2>1, <2>2 DEF TypeOK, NetTypeOK
<1>8. \A k : f # Rejection(k)
  BY <1>2 DEF Rejection
<1>9. \A s \in Stream : \A i \in 1..Len(down'[m][s]) : \A k : down'[m][s][i] # Rejection(k)
  <2>1. \A i \in 1..Len(<<f>>) : <<f>>[i] = f
    OBVIOUS
  <2> QED BY <1>7, <1>8, <2>1
<1>10. \A s \in Stream : Refusals(down'[m][s]) = {}
  BY <1>9 DEF Refusals
<1>11. \A x \in Member \ {m} : Still(x)
  BY <1>1 DEF ApproveJoin, Still, TypeOK, HostTypeOK, GuestTypeOK
<1>12. Heeded(m)'
  <2>1. \A s \in Stream : Texts(up'[m][s]) = {}
    BY <1>1, <1>5, EmptyTexts
  <2>2. \A s \in Stream : s = dials'[m] => Attached(m, s)'
    BY <1>3 DEF Attached
  <2>3. Attached(m, dials[m])'
    BY <1>3 DEF Attached
  <2> QED BY <2>1, <2>2, <2>3 DEF Heeded
<1>13. Cleared(m)'
  BY <1>3, <1>7 DEF Cleared
<1>14. Written(m)'
  <2>1. \A s \in Stream : Texts(up'[m][s]) = {} /\ Once(up'[m][s])
    BY <1>1, <1>5, EmptyTexts
  <2>2. resubmit'[m] = {}
    BY <1>1, <1>4 DEF Letters, Written
  <2> QED BY <2>1, <2>2 DEF Written
<1>15. Refused(m)'
  BY <1>10 DEF Refused
<1>16. Settled(m)'
  BY <1>9 DEF Settled, Behind
<1>17. Drafted(m)'
  <2>1. NoText(m)
    BY <1>1, NoTextCommitted
  <2> QED BY <1>1, <1>3, <1>4, <2>1, DraftedKept DEF Letters
<1>18. Letters(m)'
  BY <1>12, <1>13, <1>14, <1>15, <1>16, <1>17 DEF Letters
<1> QED BY <1>1, <1>7, <1>11, <1>18, OneLetters

\* What acceptResume does to the queues and the log.
LEMMA Resuming ==
    ASSUME DeliveryInv, NEW m \in Member, NEW s \in Stream, AcceptResume(m, s)
    PROVE  \E f \in HostFrame : \E told \in [Member -> [Stream -> Seq(HostFrame)]] :
             /\ f.type = "RESUME_ACCEPT"
             /\ down' = Push(told, m, s, f)
             /\ \/ /\ status[m] = "online"
                   /\ Commit([type |-> "MEMBER_RECONNECTING", who |-> m, id |-> 0])
                   /\ told = Relayed(status', conn')
                   /\ broken' = [broken EXCEPT ![m] = @ \cup ({conn[m]} \ {0})]
                   /\ up' = [up EXCEPT ![m][s] = Tail(@), ![m][conn[m]] = <<>>]
                \/ /\ status[m] # "online" /\ log' = log /\ told = down
                   /\ broken' = broken
                   /\ up' = [up EXCEPT ![m][s] = Tail(@)]
<1> USE DEF DeliveryInv
<1>1. \A n \in Nat : LET f == [type |-> "RESUME_ACCEPT", currentSeq |-> n, paused |-> paused]
                     IN  f.type = "RESUME_ACCEPT" /\ f \in HostFrame
  BY DEF HostFrame, TypeOK, HostTypeOK
<1>2. Len(log) \in Nat /\ Len(log) + 1 \in Nat
  BY MemberTypes
<1>3. CASE StillServed(m)
  <2>1. PICK f \in HostFrame :
          /\ f = [type |-> "RESUME_ACCEPT", currentSeq |-> Len(log) + 1, paused |-> paused]
          /\ f.type = "RESUME_ACCEPT"
    BY <1>1, <1>2
  <2>2. PICK told : told = Relayed(status', conn')
    OBVIOUS
  <2>3. told \in [Member -> [Stream -> Seq(HostFrame)]]
    BY <2>2, RelayedType
  <2>4. /\ status[m] = "online"
        /\ Commit([type |-> "MEMBER_RECONNECTING", who |-> m, id |-> 0])
        /\ down' = Push(told, m, s, f)
        /\ broken' = [broken EXCEPT ![m] = @ \cup ({conn[m]} \ {0})]
        /\ up' = [up EXCEPT ![m][s] = Tail(@), ![m][conn[m]] = <<>>]
    BY <1>3, <2>1, <2>2 DEF AcceptResume, StillServed
  <2> QED BY <2>1, <2>2, <2>3, <2>4
<1>4. CASE ~StillServed(m)
  <2>1. PICK f \in HostFrame :
          /\ f = [type |-> "RESUME_ACCEPT", currentSeq |-> Len(log), paused |-> paused]
          /\ f.type = "RESUME_ACCEPT"
    BY <1>1, <1>2
  <2>2. /\ status[m] # "online" /\ log' = log /\ broken' = broken
        /\ down' = Push(down, m, s, f)
        /\ up' = [up EXCEPT ![m][s] = Tail(@)]
    BY <1>4, <2>1 DEF AcceptResume, StillServed
  <2>3. down \in [Member -> [Stream -> Seq(HostFrame)]]
    BY DEF TypeOK, NetTypeOK
  <2> QED BY <2>1, <2>2, <2>3
<1> QED BY <1>3, <1>4

LEMMA AcceptResumeLetters ==
    ASSUME TextInv, NEW m \in Member, NEW s \in Stream, AcceptResume(m, s)
    PROVE  \A x \in Member : Letters(x)'
<1> USE DEF TextInv, DeliveryInv
<1>1. /\ phase' = phase /\ gconn' = gconn /\ dials' = dials /\ lastSeq' = lastSeq
      /\ draft' = draft /\ resubmit' = resubmit /\ skipped' = skipped
  BY DEF AcceptResume, guestVars
<1>2. /\ s > 1 /\ s <= dials[m] /\ up[m][s] # <<>>
      /\ s \notin {conn[m], resume[m].stream}
  BY Opening DEF AcceptResume, Opens
<1>3. /\ status[m] \in {"online", "reconnecting"} /\ resume[m] = NoResume
      /\ resume'[m].stream = s /\ status'[m] = "reconnecting" /\ conn'[m] = 0
      /\ \A x \in Member \ {m} : /\ resume'[x] = resume[x] /\ status'[x] = status[x]
                                 /\ conn'[x] = conn[x]
  BY DEF AcceptResume, Resumable, TypeOK, HostTypeOK
<1>4. PICK f \in HostFrame, told \in [Member -> [Stream -> Seq(HostFrame)]] :
        /\ f.type = "RESUME_ACCEPT"
        /\ down' = Push(told, m, s, f)
        /\ \/ /\ status[m] = "online"
              /\ Commit([type |-> "MEMBER_RECONNECTING", who |-> m, id |-> 0])
              /\ told = Relayed(status', conn')
              /\ broken' = [broken EXCEPT ![m] = @ \cup ({conn[m]} \ {0})]
              /\ up' = [up EXCEPT ![m][s] = Tail(@), ![m][conn[m]] = <<>>]
           \/ /\ status[m] # "online" /\ log' = log /\ told = down
              /\ broken' = broken
              /\ up' = [up EXCEPT ![m][s] = Tail(@)]
  BY Resuming
<1>5. [type |-> "MEMBER_RECONNECTING", who |-> m, id |-> 0] \in Event
  BY DEF Event
<1>6. \A x \in Member \ {m} :
        /\ down'[x] = told[x] /\ up'[x] = up[x] /\ broken'[x] = broken[x]
  <2>1. \A x \in Member \ {m} : down'[x] = told[x]
    BY <1>4 DEF Push
  <2>2. \A x \in Member \ {m} : up'[x] = up[x] /\ broken'[x] = broken[x]
    BY <1>4 DEF TypeOK, NetTypeOK
  <2> QED BY <2>1, <2>2
<1>7. ASSUME NEW x \in Member \ {m}
      PROVE  Letters(x)'
  <2>1. Still(x)
    BY <1>1, <1>3, <1>6 DEF Still
  <2>2. CASE log' = log /\ told = down
    <3>1. NoText(x) /\ Delivers(x)
      BY <1>6, <2>2, NoTextCommitted DEF Delivers
    <3> QED BY <2>1, <3>1, StillLetters
  <2>3. CASE /\ Commit([type |-> "MEMBER_RECONNECTING", who |-> m, id |-> 0])
             /\ told = Relayed(status', conn')
    <3>1. conn'[x] \in Stream \cup {0} /\ conn'[x] <= dials[x]
      BY <1>3, MemberTypes, Holding
    <3>2. PICK e \in Event : Commit(e) /\ e.type = "MEMBER_RECONNECTING"
      BY <1>5, <2>3
    <3>3. down'[x] = Relayed(status', conn')[x]
      BY <1>6, <2>3
    <3> QED BY <2>1, <3>1, <3>2, <3>3, CommitStill
  <2> QED BY <1>4, <2>2, <2>3
<1>8. told[m] = down[m]
  <2>1. CASE told = Relayed(status', conn')
    <3>1. \A t \in Stream : told[m][t] = down[m][t]
      BY <1>3, <2>1 DEF Relayed, Relay
    <3> QED BY <1>4, <3>1, MemberTypes
  <2> QED BY <1>4, <2>1
<1>9. /\ s \notin broken[m] => s = dials[m]
      /\ \A t \in Stream : down'[m][t] = IF t = s /\ s \notin broken[m]
                                         THEN Append(down[m][t], f) ELSE down[m][t]
  <2>1. s \notin broken[m] => s = dials[m]
    BY <1>2, MemberTypes DEF Flow, Placed, Stream
  <2>2. s # 0
    BY DEF Stream
  <2> QED BY <1>4, <1>8, <2>1, <2>2 DEF Push
<1>10. Supplies(m)
  BY <1>4, <1>9 DEF Supplies
<1>11. \A t \in Stream :
          up'[m][t] = IF t = conn[m] /\ status[m] = "online" THEN <<>>
                      ELSE IF t = s THEN Tail(up[m][t]) ELSE up[m][t]
  <2>1. up \in [Member -> [Stream -> Seq(GuestFrame)]] /\ up[m] \in [Stream -> Seq(GuestFrame)]
    BY DEF TypeOK, NetTypeOK
  <2>2. CASE status[m] # "online" /\ up' = [up EXCEPT ![m][s] = Tail(@)]
    BY <2>1, <2>2
  <2>3. CASE status[m] = "online" /\ up' = [up EXCEPT ![m][s] = Tail(@), ![m][conn[m]] = <<>>]
    <3>1. up'[m] = [[up[m] EXCEPT ![s] = Tail(@)] EXCEPT ![conn[m]] = <<>>]
      BY <2>1, <2>3
    <3>2. \A t \in Stream : up'[m][t] = IF t = conn[m] THEN <<>>
                                        ELSE IF t = s THEN Tail(up[m][t]) ELSE up[m][t]
      BY <2>1, <3>1
    <3> QED BY <2>3, <3>2
  <2> QED BY <1>4, <2>2, <2>3
<1>12. \A t \in Stream : Thins(up'[m][t], up[m][t])
  BY <1>2, <1>11 DEF Thins
<1>13. NoText(m) /\ Endures(m)
  BY <1>1, <1>4, <1>5, NoTextCommitted DEF Endures
<1>14. /\ Cleared(m)' /\ Written(m)' /\ Refused(m)' /\ Settled(m)' /\ Drafted(m)'
       /\ \A t \in Stream : Texts(up'[m][t]) \subseteq Texts(up[m][t])
  BY <1>10, <1>12, <1>13, ConductKept
<1>15. \A t \in Stream : Attached(m, t) => t = conn[m] /\ status[m] = "online" /\ t \in broken'[m]
  <2>1. \A t \in Stream : t # 0
    BY DEF Stream
  <2>2. \A t \in Stream : Attached(m, t) => t = conn[m] /\ status[m] = "online"
    BY <1>3, <2>1 DEF Attached, NoResume, Flow, Placed
  <2>3. status[m] = "online" => broken'[m] = broken[m] \cup ({conn[m]} \ {0})
    BY <1>4 DEF TypeOK, NetTypeOK
  <2> QED BY <2>1, <2>2, <2>3
<1>16. broken[m] \subseteq broken'[m]
  BY <1>4 DEF TypeOK, NetTypeOK
<1>17. Heeded(m)'
  <2>1. \A t \in Stream : Texts(up'[m][t]) = {}
    <3> SUFFICES ASSUME NEW t \in Stream
                 PROVE  Texts(up'[m][t]) = {}
      OBVIOUS
    <3>1. CASE Attached(m, t)
      BY <1>11, <1>15, <3>1, EmptyTexts
    <3>2. CASE ~Attached(m, t)
      BY <1>14, <3>2 DEF Letters, Heeded
    <3> QED BY <3>1, <3>2
  <2>2. dials[m] \in Stream
    BY <1>2, MemberTypes DEF Stream
  <2>3. PICK d \in Stream : d = dials[m]
    BY <2>2
  <2>4. ASSUME d \notin broken'[m] PROVE ~Attached(m, d)
    BY <1>15, <2>4
  <2>5. ASSUME d \notin broken'[m] PROVE phase[m] \notin {"joining", "member", "resubmitting"}
    <3>1. ~Attached(m, dials[m])
      BY <2>3, <2>4, <2>5
    <3> QED BY <1>16, <2>3, <2>5, <3>1 DEF Letters, Heeded
  <2>6. ASSUME d \notin broken'[m], NEW t \in Stream, t = d, Accepts(down'[m][t])
        PROVE  Attached(m, t)'
    <3>1. CASE t = s
      BY <1>3, <3>1 DEF Attached
    <3>2. CASE t # s
      <4>1. Accepts(down[m][t])
        BY <1>9, <2>6, <3>2
      <4>2. d \notin broken[m]
        BY <1>16, <2>6
      <4> QED BY <2>3, <2>4, <2>6, <4>1, <4>2 DEF Letters, Heeded
    <3> QED BY <3>1, <3>2
  <2> QED BY <1>1, <2>1, <2>3, <2>5, <2>6 DEF Heeded
<1>18. Letters(m)'
  BY <1>14, <1>17 DEF Letters
<1> QED BY <1>7, <1>18

\* Who has reached event k has reached the events before it.
LEMMA ReachLess ==
    ASSUME NEW q \in Seq(HostFrame), NEW last \in Nat, NEW k \in Nat, NEW n \in Nat,
           n <= k, Reach(q, last, k)
    PROVE  Reach(q, last, n)
<1>1. \A i \in 1..Len(q) : q[i] \in HostFrame
  OBVIOUS
<1>2. \A i \in 1..Len(q) : Numbered(q[i]) => q[i].seq \in Nat
  BY <1>1, NumberedType
<1> QED BY <1>2 DEF Reach

\* The text the host takes, and those that are still on their way.
LEMMA Taking ==
    ASSUME TextInv, NEW m \in Member, Hears(m, "TEXT_SUBMIT"), Consume(m)
    PROVE  LET k == Head(up[m][conn[m]]).id
           IN  /\ conn[m] \in Stream /\ conn[m] <= dials[m] /\ status[m] = "online"
               /\ k \in Text /\ k \in Texts(up[m][conn[m]])
               /\ \A t \in Stream : Thins(up'[m][t], up[m][t])
               /\ \A t \in Stream : k \notin Texts(up'[m][t])
               /\ \A x \in Member \ {m} : up'[x] = up[x]
<1> USE DEF TextInv, DeliveryInv
<1> DEFINE s == conn[m]
           q == up[m][s]
<1>1. s \in Stream /\ s <= dials[m] /\ status[m] = "online"
      /\ \A x \in Member \ {m} : up'[x] = up[x]
  BY Hearing
<1>2. q # <<>> /\ Head(q).type = "TEXT_SUBMIT" /\ q \in Seq(GuestFrame)
  BY <1>1, MemberTypes DEF Hears
<1>3. \A t \in Stream : up'[m][t] = IF t = s THEN Tail(up[m][t]) ELSE up[m][t]
  BY <1>1 DEF Consume, TypeOK, NetTypeOK
<1>4. Once(q)
  BY <1>1 DEF Letters, Written
<1>5. Head(q).id \in Text /\ Head(q).id \in Texts(q) /\ Head(q).id \notin Texts(Tail(q))
  <2> HIDE DEF q
  <2> QED BY <1>2, <1>4, TakeText
<1>6. \A t \in Stream : t # s => Texts(up[m][t]) = {}
  <2>1. resume[m] = NoResume
    BY <1>1 DEF StayInv, ResumingAway
  <2>2. \A t \in Stream : t # 0
    BY DEF Stream
  <2>3. \A t \in Stream : Attached(m, t) => t = s
    BY <1>1, <2>1, <2>2 DEF Attached, NoResume
  <2> QED BY <2>3 DEF Letters, Heeded
<1>7. \A t \in Stream : Head(q).id \notin Texts(up'[m][t])
  BY <1>3, <1>5, <1>6
<1>8. \A t \in Stream : Thins(up'[m][t], up[m][t])
  BY <1>2, <1>3 DEF Thins
<1> QED BY <1>1, <1>5, <1>7, <1>8

LEMMA AnsweredLetters ==
    ASSUME TextInv, NEW m \in Member, Hears(m, "TEXT_SUBMIT"), Consume(m),
           hostVars' = hostVars, guestVars' = guestVars, broken' = broken,
           NEW f \in HostFrame, down' = Push(down, m, conn[m], f),
           f.type = "ROOM_EVENT" \/ f = Rejection(Head(up[m][conn[m]]).id)
    PROVE  \A x \in Member : Letters(x)'
<1> USE DEF TextInv, DeliveryInv
<1>1. /\ log' = log /\ status' = status /\ conn' = conn /\ resume' = resume
      /\ phase' = phase /\ gconn' = gconn /\ dials' = dials /\ lastSeq' = lastSeq
      /\ draft' = draft /\ resubmit' = resubmit /\ skipped' = skipped
  BY DEF hostVars, guestVars
<1>2. PICK k, s : k = Head(up[m][conn[m]]).id /\ s = conn[m]
  OBVIOUS
<1>3. /\ s \in Stream /\ s <= dials[m] /\ status[m] = "online"
      /\ k \in Text /\ k \in Texts(up[m][s])
      /\ \A t \in Stream : Thins(up'[m][t], up[m][t])
      /\ \A t \in Stream : k \notin Texts(up'[m][t])
      /\ \A x \in Member \ {m} : up'[x] = up[x]
  BY <1>2, Taking
<1>4. CASE f.type = "ROOM_EVENT"
  <2>1. down' = Push(down, m, s, f) /\ s \in Stream \cup {0}
    BY <1>2, <1>3
  <2> QED BY <1>1, <1>3, <1>4, <2>1, FrameLetters
<1>5. CASE f = Rejection(k)
  <2>1. /\ s \notin broken[m] => s = dials[m]
        /\ \A t \in Stream : down'[m][t] = IF t = s /\ s \notin broken[m]
                                           THEN Append(down[m][t], f) ELSE down[m][t]
        /\ \A x \in Member \ {m} : down'[x] = down[x]
    <3>1. s \notin broken[m] => s = dials[m]
      BY <1>3, MemberTypes DEF Flow, Placed, Stream
    <3>2. s # 0 /\ down' = Push(down, m, s, f)
      BY <1>2, <1>3 DEF Stream
    <3> QED BY <3>1, <3>2 DEF Push, TypeOK, NetTypeOK
  <2>2. /\ \A t \in Stream : up[m][t] \in Seq(GuestFrame) /\ down[m][t] \in Seq(HostFrame)
        /\ lastSeq[m] \in Nat /\ Len(log) \in Nat
    BY MemberTypes
  <2>3. \A t \in Stream : /\ Texts(up'[m][t]) \subseteq Texts(up[m][t])
                          /\ Once(up[m][t]) => Once(up'[m][t])
    BY <1>3, <2>2, ThinTexts
  <2>4. f.type # "RESUME_ACCEPT"
    BY <1>5 DEF Rejection
  <2>5. ASSUME NEW t \in Stream
        PROVE  /\ Accepts(down'[m][t]) => Accepts(down[m][t])
               /\ Refusals(down'[m][t]) \subseteq Refusals(down[m][t]) \cup {k}
               /\ Refusals(down'[m][t]) = Refusals(down[m][t]) \/ (s = dials[m] /\ s \notin broken[m])
    <3>1. CASE t = s /\ s \notin broken[m]
      <4>1. /\ Accepts(Append(down[m][t], f)) = Accepts(down[m][t])
            /\ Refusals(Append(down[m][t], f)) = Refusals(down[m][t]) \cup {k}
        BY <1>3, <1>5, <2>2, <2>4, WriteAnswer
      <4> QED BY <2>1, <3>1, <4>1
    <3>2. CASE ~(t = s /\ s \notin broken[m])
      BY <2>1, <3>2
    <3> QED BY <3>1, <3>2
  <2>6. Heeded(m)'
    <3>1. \A t \in Stream : Attached(m, t) => Attached(m, t)'
      BY <1>1 DEF Attached
    <3> QED BY <1>1, <2>3, <2>5, <3>1, HeededKept DEF Flow, Letters
  <2>7. Cleared(m)'
    <3>1. \A t \in Stream : t # dials[m] => down'[m][t] \in {down[m][t], <<>>}
      BY <2>1
    <3>2. phase[m] = "recovering" => \A t \in Stream : down'[m][t] \in {down[m][t], <<>>}
      BY <2>1 DEF Flow, Placed
    <3> QED BY <1>1, <3>1, <3>2, ClearedKept DEF Flow, Letters
  <2>8. Written(m)'
    BY <1>1, <1>3, WrittenKept DEF Letters, Written
  <2>9. Refused(m)'
    <3> SUFFICES ASSUME NEW t \in Stream, NEW j \in Refusals(down'[m][t])
                 PROVE  /\ draft[m][j] # "unsent" /\ j \notin resubmit[m] /\ phase[m] # "waiting"
                        /\ \A u \in Stream : j \notin Texts(up'[m][u])
      BY <1>1 DEF Refused
    <3>1. CASE j \in Refusals(down[m][t])
      BY <2>3, <3>1 DEF Letters, Refused
    <3>2. CASE j \notin Refusals(down[m][t])
      <4>1. j = k /\ s = dials[m]
        BY <2>5, <3>2
      <4>2. draft[m][k] \in {"sending", "delivered"}
        BY <1>3 DEF Letters, Written
      <4>3. k \notin resubmit[m] /\ phase[m] # "waiting"
        BY <1>3, <4>1 DEF Letters, Written
      <4> QED BY <1>3, <4>1, <4>2, <4>3
    <3> QED BY <3>1, <3>2
  <2>10. Settled(m)'
    <3> SUFFICES ASSUME NEW t \in Stream, NEW j \in Text, NEW n \in 1..Len(log), IsText(n, m, j)
                 PROVE  Behind(down'[m][t], lastSeq[m], j, n)
      BY <1>1 DEF Settled, IsText
    <3>1. Behind(down[m][t], lastSeq[m], j, n)
      BY DEF Letters, Settled
    <3>2. CASE t = s /\ s \notin broken[m]
      <4>1. Reach(down[m][s], lastSeq[m], Len(log))
        BY <1>2, <1>3, <3>2, Holding
      <4>2. n \in Nat /\ n <= Len(log)
        BY <2>2
      <4>3. Reach(down[m][s], lastSeq[m], n)
        BY <1>3, <2>2, <4>1, <4>2, ReachLess
      <4>4. Behind(Append(down[m][t], f), lastSeq[m], j, n)
        BY <2>2, <3>1, <3>2, <4>3, WriteAnswer
      <4> QED BY <2>1, <3>2, <4>4
    <3>3. CASE ~(t = s /\ s \notin broken[m])
      BY <2>1, <3>1, <3>3
    <3> QED BY <3>2, <3>3
  <2>11. Drafted(m)'
    <3>1. NoText(m)
      BY <1>1, NoTextCommitted
    <3> QED BY <1>1, <3>1, DraftedKept DEF Letters
  <2>12. Letters(m)'
    BY <2>6, <2>7, <2>8, <2>9, <2>10, <2>11 DEF Letters
  <2> QED BY <1>1, <1>3, <2>1, <2>12, OneLetters DEF Still
<1> QED BY <1>2, <1>4, <1>5

LEMMA RejectPausedTextLetters ==
    ASSUME TextInv, NEW m \in Member, RejectPausedText(m)
    PROVE  \A x \in Member : Letters(x)'
<1>1. PICK f : f = Rejection(Head(up[m][conn[m]]).id)
  OBVIOUS
<1>2. f \in HostFrame
  BY <1>1, Heard DEF RejectPausedText, TextInv, DeliveryInv, Rejection, HostFrame
<1> QED BY <1>1, <1>2, AnsweredLetters DEF RejectPausedText

LEMMA AnswerDuplicateLetters ==
    ASSUME TextInv, NEW m \in Member, AnswerDuplicate(m)
    PROVE  \A x \in Member : Letters(x)'
<1>1. PICK k, e : /\ k = Head(up[m][conn[m]]).id /\ e \in Prior(m, k)
                  /\ down' = Push(down, m, conn[m], Again(k, e))
  BY DEF AnswerDuplicate
<1>2. PICK f : f = Again(k, e)
  OBVIOUS
<1>3. f \in HostFrame /\ (f.type = "ROOM_EVENT" \/ f = Rejection(k))
  <2>1. k \in Text /\ e.seq \in Nat
    <3>1. k \in Text
      BY <1>1, Heard DEF AnswerDuplicate, TextInv, DeliveryInv
    <3>2. e \in [id : Text, seq : Nat]
      BY <1>1 DEF Prior, TextInv, DeliveryInv, TypeOK, HostTypeOK
    <3> QED BY <3>1, <3>2
  <2>2. CASE InReplay(e.seq)
    BY <1>2, <2>1, <2>2 DEF Again, RoomEvent, HostFrame
  <2>3. CASE ~InReplay(e.seq)
    BY <1>2, <2>1, <2>3 DEF Again, Rejection, HostFrame
  <2> QED BY <2>2, <2>3
<1>4. /\ Hears(m, "TEXT_SUBMIT") /\ Consume(m) /\ hostVars' = hostVars
      /\ guestVars' = guestVars /\ broken' = broken /\ down' = Push(down, m, conn[m], f)
  BY <1>1, <1>2 DEF AnswerDuplicate
<1> QED BY <1>1, <1>3, <1>4, AnsweredLetters

LEMMA CommitTextLetters ==
    ASSUME TextInv, NEW m \in Member, CommitText(m)
    PROVE  \A x \in Member : Letters(x)'
<1> USE DEF TextInv, DeliveryInv
<1>1. /\ status' = status /\ conn' = conn /\ resume' = resume /\ broken' = broken
      /\ phase' = phase /\ gconn' = gconn /\ dials' = dials /\ lastSeq' = lastSeq
      /\ draft' = draft /\ resubmit' = resubmit /\ skipped' = skipped
      /\ down' = Relayed(status, conn)
      /\ Hears(m, "TEXT_SUBMIT") /\ Consume(m)
  BY DEF CommitText, guestVars
<1>2. PICK k, s : k = Head(up[m][conn[m]]).id /\ s = conn[m]
  OBVIOUS
<1>3. /\ s \in Stream /\ s <= dials[m] /\ status[m] = "online"
      /\ k \in Text /\ k \in Texts(up[m][s])
      /\ \A t \in Stream : Thins(up'[m][t], up[m][t])
      /\ \A x \in Member \ {m} : up'[x] = up[x]
  BY <1>1, <1>2, Taking
<1>4. PICK e \in Event : e = [type |-> "TEXT", who |-> m, id |-> k] /\ Commit(e)
  <2>1. k \in Nat
    BY <1>3, GroupLogAssumption DEF Text
  <2> QED BY <1>2, <2>1 DEF CommitText, Event
<1>5. ASSUME NEW x \in Member
      PROVE  conn[x] \in Stream \cup {0} /\ conn[x] <= dials[x]
  BY MemberTypes, Holding
<1>6. ASSUME NEW x \in Member \ {m}
      PROVE  Letters(x)'
  <2>1. Still(x) /\ e.who # x
    BY <1>1, <1>3, <1>4 DEF Still
  <2> QED BY <1>1, <1>4, <1>5, <2>1, CommitStill
<1>7. Delivers(m)
  BY <1>1, <1>5, EventDelivers
<1>8. Endures(m) /\ \A t \in Stream : Attached(m, t) => Attached(m, t)'
  BY <1>1 DEF Endures, Attached
<1>9. Heeded(m)' /\ Supplies(m)
  BY <1>1, <1>3, <1>7, <1>8, ListensOn
<1>10. /\ Cleared(m)' /\ Written(m)' /\ Refused(m)'
       /\ \A t \in Stream : Refusals(down'[m][t]) \subseteq Refusals(down[m][t])
       /\ \A t \in Stream : \A last, j, n :
            Behind(down[m][t], last, j, n) => Behind(down'[m][t], last, j, n)
  BY <1>3, <1>8, <1>9, ConductKept
<1>11. /\ Len(log) \in Nat /\ Len(log') = Len(log) + 1 /\ log'[Len(log) + 1] = e
       /\ \A i \in 1..Len(log) : log'[i] = log[i]
  BY <1>4, Appended
<1>12. \A n \in 1..Len(log'), j \in Text : IsText(n, m, j)' =>
         (n \in 1..Len(log) /\ IsText(n, m, j)) \/ (n = Len(log) + 1 /\ j = k)
  BY <1>4, <1>11 DEF IsText
<1>13. Settled(m)'
  <2> SUFFICES ASSUME NEW t \in Stream, NEW j \in Text, NEW n \in 1..Len(log'), IsText(n, m, j)'
               PROVE  Behind(down'[m][t], lastSeq[m], j, n)
    BY <1>1 DEF Settled
  <2>1. CASE n \in 1..Len(log) /\ IsText(n, m, j)
    BY <1>10, <2>1 DEF Letters, Settled
  <2>2. CASE n = Len(log) + 1 /\ j = k
    <3>1. k \notin Refusals(down'[m][t])
      BY <1>3, <1>10 DEF Letters, Refused
    <3> QED BY <1>3, <2>2, <3>1 DEF Refusals, Behind
  <2> QED BY <1>12, <2>1, <2>2
<1>14. Drafted(m)'
  <2>1. draft[m][k] \in {"sending", "delivered"}
    BY <1>3 DEF Letters, Written
  <2>2. lastSeq[m] <= Len(log) /\ lastSeq[m] \in Nat
    BY MemberTypes DEF Flow, Order
  <2>3. ASSUME NEW n \in 1..Len(log'), NEW j \in Text, IsText(n, m, j)'
        PROVE  /\ draft[m][j] # "unsent"
               /\ lastSeq[m] < n => draft[m][j] # "failed"
               /\ n <= lastSeq[m] => draft[m][j] = "delivered" \/ n \in skipped[m]
    <3>1. CASE n \in 1..Len(log) /\ IsText(n, m, j)
      BY <3>1 DEF Letters, Drafted
    <3>2. CASE n = Len(log) + 1 /\ j = k
      BY <1>11, <2>1, <2>2, <3>2
    <3> QED BY <1>12, <2>3, <3>1, <3>2
  <2> QED BY <1>1, <2>3 DEF Letters, Drafted
<1>15. Letters(m)'
  BY <1>9, <1>10, <1>13, <1>14 DEF Letters
<1> QED BY <1>6, <1>15
-----------------------------------------------------------------------------
(* Steps of m that read a frame *)

LEMMA ReaderLetters ==
    ASSUME TextInv, NEW m \in Member, NEW g \in Stream, Advances(m, g),
           phase[m] \in {"joining", "member", "recovering"}, lastSeq'[m] \in Nat,
           Moves(down[m][g], lastSeq[m], lastSeq'[m]) \/ phase[m] = "joining",
           resubmit' = resubmit, Drafted(m)',
           \A x \in Member \ {m} : draft'[x] = draft[x] /\ skipped'[x] = skipped[x],
           \A k \in Text : \/ draft'[m][k] = draft[m][k]
                           \/ draft[m][k] = "sending" /\ draft'[m][k] = "delivered"
                           \/ /\ draft[m][k] = "sending" /\ draft'[m][k] = "failed"
                              /\ k \in Refusals(down[m][g])
    PROVE  \A x \in Member : Letters(x)'
<1> USE DEF TextInv, DeliveryInv
<1>1. /\ log' = log /\ status' = status /\ conn' = conn /\ resume' = resume
      /\ gconn' = gconn /\ dials' = dials /\ up' = up /\ broken' = broken
      /\ g = gconn[m] /\ down[m][g] # <<>>
      /\ phase'[m] = phase[m] \/ (phase[m] = "joining" /\ phase'[m] = "member")
  BY DEF Advances
<1>2. /\ down[m] \in [Stream -> Seq(HostFrame)] /\ lastSeq[m] \in Nat /\ Len(log) \in Nat
      /\ down'[m] = [down[m] EXCEPT ![g] = Tail(down[m][g])]
      /\ \A x \in Member \ {m} : down'[x] = down[x]
  BY MemberTypes DEF Advances, TypeOK, NetTypeOK
<1>3. g = dials[m]
  <2>1. CASE phase[m] \in {"joining", "member"}
    BY <1>1, <2>1 DEF Flow, Placed
  <2>2. CASE phase[m] = "recovering"
    BY <1>1, <2>2 DEF Letters, Cleared
  <2> QED BY <2>1, <2>2
<1>4. /\ resubmit[m] = {} /\ phase'[m] \notin {"waiting", "resubmitting"}
  BY <1>1 DEF Letters, Written
<1>5. \A s \in Stream : s # g => down'[m][s] = down[m][s] /\ down[m][s] = <<>>
  BY <1>2, <1>3 DEF Letters, Cleared
<1>6. down'[m][g] = Tail(down[m][g])
  BY <1>2
<1>7. /\ Refusals(Tail(down[m][g])) \subseteq Refusals(down[m][g])
      /\ Accepts(Tail(down[m][g])) => Accepts(down[m][g])
  BY <1>1, <1>2, ReadAnswer
<1>8. \A s \in Stream : /\ Refusals(down'[m][s]) \subseteq Refusals(down[m][s])
                        /\ Accepts(down'[m][s]) => Accepts(down[m][s])
  BY <1>5, <1>6, <1>7
<1>9. Heeded(m)'
  <2>1. \A s \in Stream : Attached(m, s) => Attached(m, s)'
    BY <1>1 DEF Attached
  <2> QED BY <1>1, <1>8, <2>1, HeededKept DEF Flow, Letters
<1>10. Cleared(m)'
  BY <1>1, <1>3, <1>5 DEF Cleared
<1>11. Written(m)'
  <2>1. \A s \in Stream : \A k \in Texts(up[m][s]) : draft'[m][k] \in {"sending", "delivered"}
    <3> SUFFICES ASSUME NEW s \in Stream, NEW k \in Texts(up[m][s])
                 PROVE  draft'[m][k] \in {"sending", "delivered"}
      OBVIOUS
    <3>1. k \in Text /\ draft[m][k] \in {"sending", "delivered"}
      BY DEF Letters, Written, Texts
    <3>2. k \notin Refusals(down[m][g])
      BY DEF Letters, Refused
    <3> QED BY <3>1, <3>2
  <2> QED BY <1>1, <1>4, <2>1 DEF Letters, Written
<1>12. Refused(m)'
  <2> SUFFICES ASSUME NEW s \in Stream, NEW k \in Refusals(down'[m][s])
               PROVE  /\ draft'[m][k] # "unsent" /\ k \notin resubmit[m] /\ phase'[m] # "waiting"
                      /\ \A t \in Stream : k \notin Texts(up[m][t])
    BY <1>1 DEF Refused
  <2>1. k \in Refusals(down[m][s]) /\ k \in Text
    BY <1>8 DEF Refusals
  <2> QED BY <1>4, <2>1 DEF Letters, Refused
<1>13. Settled(m)'
  <2> SUFFICES ASSUME NEW s \in Stream, NEW k \in Text, NEW n \in 1..Len(log), IsText(n, m, k)
               PROVE  Behind(down'[m][s], lastSeq'[m], k, n)
    BY <1>1 DEF Settled, IsText
  <2>1. CASE s # g
    BY <1>5, <2>1, EmptyTexts
  <2>2. CASE s = g
    <3>1. phase[m] # "joining"
      BY DEF Letters, Drafted
    <3>2. Behind(down[m][g], lastSeq[m], k, n)
      BY DEF Letters, Settled
    <3>3. down[m][g] \in Seq(HostFrame) /\ n \in Nat
      BY <1>2
    <3>4. Behind(Tail(down[m][g]), lastSeq'[m], k, n)
      BY <1>1, <1>2, <3>1, <3>2, <3>3, ReadAnswer
    <3> QED BY <1>6, <2>2, <3>4
  <2> QED BY <2>1, <2>2
<1>14. Letters(m)'
  BY <1>9, <1>10, <1>11, <1>12, <1>13 DEF Letters
<1>15. \A x \in Member \ {m} : lastSeq'[x] = lastSeq[x] /\ phase'[x] = phase[x]
  BY DEF Advances
<1> QED BY <1>1, <1>2, <1>14, <1>15, OneLetters DEF Still

LEMMA JoinedLetters ==
    ASSUME TextInv, TypeOK', NEW m \in Member, Joined(m)
    PROVE  \A x \in Member : Letters(x)'
<1> USE DEF TextInv, DeliveryInv
<1>1. /\ gconn[m] \in Stream /\ down[m][gconn[m]] # <<>> /\ phase[m] = "joining"
      /\ log' = log /\ draft' = draft /\ skipped' = skipped /\ resubmit' = resubmit
  BY ReadFrame DEF Joined, hostVars
<1>2. Advances(m, gconn[m]) /\ phase'[m] = "member"
  BY <1>1 DEF Joined, Advances, Advance, hostVars, TypeOK, GuestTypeOK
<1>3. Drafted(m)'
  <2>1. \A n \in 1..Len(log), k \in Text : ~IsText(n, m, k)
    BY <1>1 DEF Letters, Drafted
  <2> QED BY <1>1, <1>2, <2>1 DEF Drafted, IsText
<1> QED BY <1>1, <1>2, <1>3, NextTypes, ReaderLetters

LEMMA ReadEventLetters ==
    ASSUME TextInv, TypeOK', NEW m \in Member, ReadEvent(m)
    PROVE  \A x \in Member : Letters(x)'
<1> USE DEF TextInv, DeliveryInv
<1>1. /\ gconn[m] \in Stream /\ down[m][gconn[m]] # <<>>
      /\ Received(m) = Head(down[m][gconn[m]]) /\ Received(m).type = "ROOM_EVENT"
      /\ Received(m).seq \in Nat /\ Received(m).seq <= Len(log) /\ phase[m] # "out"
  BY ReadFrame DEF ReadEvent, Carries
<1>2. Advances(m, gconn[m])
  BY <1>1 DEF ReadEvent, Advances, Advance, hostVars, TypeOK, GuestTypeOK
<1>3. PICK n \in Nat : n = Received(m).seq
  BY <1>1
<1>4. /\ lastSeq[m] \in Nat /\ lastSeq'[m] \in Nat /\ Len(log) \in Nat
      /\ phase[m] \in {"joining", "member", "recovering"} /\ phase[m] # "joining"
      /\ log' = log /\ phase' = phase /\ skipped' = skipped /\ resubmit' = resubmit
  BY MemberTypes, NextTypes DEF ReadEvent, Reads, hostVars
<1>5. \/ n <= lastSeq[m] /\ lastSeq' = lastSeq /\ draft' = draft
      \/ /\ n = lastSeq[m] + 1
         /\ lastSeq' = [lastSeq EXCEPT ![m] = n]
         /\ draft' = IF log[n].type = "TEXT" /\ log[n].who = m /\ log[n].id \in Pending(m)
                     THEN [draft EXCEPT ![m][log[n].id] = "delivered"]
                     ELSE draft
  BY <1>3 DEF ReadEvent
<1>6. \/ n <= lastSeq[m] /\ lastSeq'[m] = lastSeq[m]
      \/ n = lastSeq[m] + 1 /\ lastSeq'[m] = n
  BY <1>5 DEF TypeOK, GuestTypeOK
<1>7. Moves(down[m][gconn[m]], lastSeq[m], lastSeq'[m])
  BY <1>1, <1>3, <1>4, <1>6 DEF Moves, Numbered
<1>8. /\ \A x \in Member \ {m} : draft'[x] = draft[x]
      /\ \A k \in Text : \/ draft'[m][k] = draft[m][k]
                         \/ /\ draft[m][k] = "sending" /\ draft'[m][k] = "delivered"
                            /\ n = lastSeq[m] + 1 /\ IsText(n, m, k)
  <2>1. draft \in [Member -> [Text -> {"unsent", "sending", "delivered", "failed"}]]
    BY DEF TypeOK, GuestTypeOK
  <2>2. CASE draft' = draft
    BY <2>2
  <2>3. CASE draft' # draft
    <3>1. PICK j \in Pending(m) : j = log[n].id
      BY <1>5, <2>3
    <3>2. /\ n = lastSeq[m] + 1 /\ IsText(n, m, j) /\ draft[m][j] = "sending" /\ j \in Text
          /\ draft' = [draft EXCEPT ![m][j] = "delivered"]
      BY <1>5, <2>3, <3>1, <1>4 DEF IsText, Pending
    <3> QED BY <2>1, <3>2
  <2> QED BY <2>2, <2>3
<1>9. Drafted(m)'
  <2> SUFFICES ASSUME NEW i \in 1..Len(log), NEW k \in Text, IsText(i, m, k)
               PROVE  /\ draft'[m][k] # "unsent"
                      /\ lastSeq'[m] < i => draft'[m][k] # "failed"
                      /\ i <= lastSeq'[m] => draft'[m][k] = "delivered" \/ i \in skipped[m]
    BY <1>4 DEF Drafted, IsText
  <2>1. /\ draft[m][k] # "unsent"
        /\ lastSeq[m] < i => draft[m][k] # "failed"
        /\ i <= lastSeq[m] => draft[m][k] = "delivered" \/ i \in skipped[m]
    BY DEF Letters, Drafted
  <2>2. draft'[m][k] = draft[m][k] \/ draft'[m][k] = "delivered"
    BY <1>8
  <2>3. CASE i <= lastSeq[m] \/ lastSeq'[m] < i
    BY <1>4, <1>6, <2>1, <2>2, <2>3
  <2>4. CASE ~(i <= lastSeq[m] \/ lastSeq'[m] < i)
    <3>1. i = n /\ n = lastSeq[m] + 1 /\ lastSeq'[m] = n
      BY <1>4, <1>6, <2>4
    <3>2. log[n].type = "TEXT" /\ log[n].who = m /\ log[n].id = k
      BY <3>1 DEF IsText
    <3>3. draft[m][k] \in {"sending", "delivered"}
      BY <1>4, <2>1, <3>1 DEF TypeOK, GuestTypeOK
    <3>4. CASE draft[m][k] = "sending"
      <4>1. k \in Pending(m)
        BY <3>4 DEF Pending
      <4>2. ~(n <= lastSeq[m])
        BY <1>4, <3>1
      <4>3. draft' = [draft EXCEPT ![m][k] = "delivered"]
        BY <1>5, <3>2, <4>1, <4>2
      <4>4. draft'[m][k] = "delivered"
        BY <4>3 DEF TypeOK, GuestTypeOK
      <4> QED BY <4>4
    <3>5. CASE draft[m][k] = "delivered"
      BY <2>2, <3>5
    <3> QED BY <3>3, <3>4, <3>5
  <2> QED BY <2>3, <2>4
<1> QED BY <1>1, <1>2, <1>4, <1>7, <1>8, <1>9, ReaderLetters

LEMMA ReadResyncLetters ==
    ASSUME TextInv, TypeOK', NEW m \in Member, ReadResync(m)
    PROVE  \A x \in Member : Letters(x)'
<1> USE DEF TextInv, DeliveryInv
<1>1. /\ gconn[m] \in Stream /\ down[m][gconn[m]] # <<>> /\ gconn[m] # 1
      /\ Received(m) = Head(down[m][gconn[m]]) /\ Received(m).type = "RESYNC_REQUIRED"
      /\ Received(m).seq \in Nat /\ Received(m).seq <= Len(log) /\ phase[m] # "out"
      /\ lastSeq[m] <= Received(m).seq
  BY ReadFrame DEF ReadResync, Carries, IsResync
<1>2. Advances(m, gconn[m])
  BY <1>1 DEF ReadResync, Advances, Advance, hostVars, TypeOK, GuestTypeOK
<1>3. PICK n \in Nat : n = Received(m).seq
  BY <1>1
<1>4. /\ lastSeq[m] \in Nat /\ Len(log) \in Nat
      /\ phase[m] \in {"joining", "member", "recovering"}
      /\ log' = log /\ phase' = phase /\ draft' = draft /\ resubmit' = resubmit
  BY MemberTypes DEF ReadResync, Reads, hostVars
<1>5. /\ lastSeq'[m] = n /\ skipped'[m] = skipped[m] \cup (lastSeq[m] + 1 .. n)
      /\ \A x \in Member \ {m} : skipped'[x] = skipped[x]
  BY <1>3 DEF ReadResync, TypeOK, GuestTypeOK
<1>6. Moves(down[m][gconn[m]], lastSeq[m], lastSeq'[m])
  BY <1>1, <1>3, <1>4, <1>5 DEF Moves, Numbered
<1>7. Drafted(m)'
  <2>1. ASSUME NEW i \in 1..Len(log), NEW k \in Text, IsText(i, m, k)
        PROVE  /\ draft[m][k] # "unsent"
               /\ n < i => draft[m][k] # "failed"
               /\ i <= n => draft[m][k] = "delivered" \/ i \in skipped'[m]
    <3>1. /\ draft[m][k] # "unsent"
          /\ lastSeq[m] < i => draft[m][k] # "failed"
          /\ i <= lastSeq[m] => draft[m][k] = "delivered" \/ i \in skipped[m]
      BY <2>1 DEF Letters, Drafted
    <3>2. lastSeq[m] <= n
      BY <1>1, <1>3
    <3> QED BY <1>4, <1>5, <3>1, <3>2
  <2> QED BY <1>4, <1>5, <2>1 DEF Letters, Drafted, IsText
<1> QED BY <1>1, <1>2, <1>4, <1>5, <1>6, <1>7, ReaderLetters

LEMMA ReadNoticeLetters ==
    ASSUME TextInv, TypeOK', NEW m \in Member, ReadRejection(m) \/ ReadPause(m)
    PROVE  \A x \in Member : Letters(x)'
<1> USE DEF TextInv, DeliveryInv
<1>1. /\ gconn[m] \in Stream /\ down[m][gconn[m]] # <<>>
      /\ Received(m) = Head(down[m][gconn[m]]) /\ Received(m) \in HostFrame
      /\ Received(m).type \in {"ACTION_REJECTED", "ROOM_PAUSE"}
  BY ReadFrame DEF ReadRejection, ReadPause
<1>2. /\ Advances(m, gconn[m]) /\ lastSeq' = lastSeq /\ phase' = phase /\ log' = log
      /\ skipped' = skipped /\ resubmit' = resubmit /\ lastSeq[m] \in Nat
      /\ phase[m] \in {"joining", "member", "recovering"}
  BY <1>1, MemberTypes DEF ReadRejection, ReadPause, Reads, Advances, Advance, hostVars
<1>3. Moves(down[m][gconn[m]], lastSeq[m], lastSeq'[m])
  BY <1>1, <1>2 DEF Moves, Numbered
<1>4. CASE draft' = draft
  <2>1. Drafted(m)'
    BY <1>2, <1>4 DEF Letters, Drafted, IsText
  <2> QED BY <1>1, <1>2, <1>3, <1>4, <2>1, ReaderLetters
<1>5. CASE draft' # draft
  <2>1. PICK k : /\ k = Received(m).id /\ Received(m).type = "ACTION_REJECTED" /\ k \in Pending(m)
                 /\ draft' = [draft EXCEPT ![m][k] = "failed"]
    BY <1>1, <1>5, ReadFrame DEF ReadRejection, ReadPause
  <2>2. k \in Text /\ draft[m][k] = "sending" /\ Received(m) = Rejection(k)
    BY <1>1, <2>1 DEF Pending, Rejection, HostFrame
  <2>3. /\ \A x \in Member \ {m} : draft'[x] = draft[x]
        /\ draft'[m][k] = "failed"
        /\ \A j \in Text : j # k => draft'[m][j] = draft[m][j]
    BY <2>1, <2>2 DEF TypeOK, GuestTypeOK
  <2>4. down[m][gconn[m]] \in Seq(HostFrame)
    BY <1>1, MemberTypes
  <2>5. k \in Refusals(down[m][gconn[m]])
    BY <1>1, <2>2, <2>4, ReadAnswer
  <2>6. phase[m] \notin {"out", "joining"}
    BY <2>2 DEF Letters, Drafted
  <2>7. Drafted(m)'
    <3> SUFFICES ASSUME NEW i \in 1..Len(log), NEW j \in Text, IsText(i, m, j)
                 PROVE  /\ draft'[m][j] # "unsent"
                        /\ lastSeq[m] < i => draft'[m][j] # "failed"
                        /\ i <= lastSeq[m] => draft'[m][j] = "delivered" \/ i \in skipped[m]
      BY <1>2, <2>6 DEF Drafted, IsText
    <3>1. /\ draft[m][j] # "unsent"
          /\ lastSeq[m] < i => draft[m][j] # "failed"
          /\ i <= lastSeq[m] => draft[m][j] = "delivered" \/ i \in skipped[m]
      BY DEF Letters, Drafted
    <3>2. CASE j # k
      BY <2>3, <3>1, <3>2
    <3>3. CASE j = k
      <4>1. Behind(down[m][gconn[m]], lastSeq[m], k, i)
        BY <1>1, <3>3 DEF Letters, Settled
      <4>2. lastSeq[m] >= i
        BY <1>1, <2>2, <2>4, <4>1, ReadAnswer
      <4> QED BY <1>2, <2>2, <2>3, <3>1, <3>3, <4>2, MemberTypes
    <3> QED BY <3>2, <3>3
  <2> QED BY <1>1, <1>2, <1>3, <2>2, <2>3, <2>5, <2>7, ReaderLetters
<1> QED BY <1>4, <1>5
-----------------------------------------------------------------------------
(* Steps of m that write a text, and those of its recovery *)

\* One more text of m on its newest stream.
LEMMA WritingLetters ==
    ASSUME TextInv, NEW m \in Member, NEW s \in Stream \cup {0}, s = dials[m],
           phase[m] \in {"member", "resubmitting"}, NEW k \in Text,
           \A t \in Stream : t = s => k \notin Texts(up[m][t]),
           up' = Push(up, m, s, Submission(k)),
           status' = status, conn' = conn, resume' = resume, phase' = phase,
           dials' = dials, down' = down, broken' = broken
    PROVE  /\ Heeded(m)'
           /\ \A t \in Stream : Once(up'[m][t])
           /\ \A t \in Stream : \/ Texts(up'[m][t]) = Texts(up[m][t])
                                \/ t = s /\ Texts(up'[m][t]) = Texts(up[m][t]) \cup {k}
           /\ \A x \in Member \ {m} : up'[x] = up[x]
<1> USE DEF TextInv, DeliveryInv
<1>1. /\ \A x \in Member \ {m} : up'[x] = up[x]
      /\ \A t \in Stream : up'[m][t] = IF t = s /\ s \notin broken[m]
                                       THEN Append(up[m][t], Submission(k)) ELSE up[m][t]
  BY Pushed
<1>2. \A t \in Stream : up[m][t] \in Seq(GuestFrame) /\ Once(up[m][t])
  BY MemberTypes DEF Letters, Written
<1>3. ASSUME NEW t \in Stream
      PROVE  /\ Once(up'[m][t])
             /\ \/ Texts(up'[m][t]) = Texts(up[m][t])
                \/ t = s /\ s \notin broken[m] /\ Texts(up'[m][t]) = Texts(up[m][t]) \cup {k}
  <2>1. CASE t = s /\ s \notin broken[m]
    <3>1. /\ Texts(Append(up[m][t], Submission(k))) = Texts(up[m][t]) \cup {k}
          /\ Once(Append(up[m][t], Submission(k)))
      BY <1>2, <2>1, WriteText
    <3> QED BY <1>1, <2>1, <3>1
  <2>2. CASE ~(t = s /\ s \notin broken[m])
    BY <1>1, <1>2, <2>2
  <2> QED BY <2>1, <2>2
<1>4. Heeded(m)'
  <2>1. \A t \in Stream : Attached(m, t)' = Attached(m, t)
    BY DEF Attached
  <2>2. ASSUME NEW t \in Stream, Texts(up'[m][t]) # {}
        PROVE  Attached(m, t)
    <3>1. CASE Texts(up[m][t]) # {}
      BY <3>1 DEF Letters, Heeded
    <3>2. CASE Texts(up[m][t]) = {}
      <4>1. t = dials[m] /\ dials[m] \notin broken[m]
        BY <1>3, <2>2, <3>2
      <4>2. Attached(m, dials[m])
        BY <4>1 DEF Letters, Heeded
      <4> QED BY <4>1, <4>2
    <3> QED BY <3>1, <3>2
  <2>3. dials'[m] \notin broken'[m] =>
         /\ phase'[m] \in {"joining", "member", "resubmitting"} => Attached(m, dials[m])'
         /\ \A t \in Stream : t = dials'[m] /\ Accepts(down'[m][t]) => Attached(m, t)'
    BY <2>1 DEF Letters, Heeded, Attached
  <2> QED BY <2>1, <2>2, <2>3 DEF Heeded, Attached
<1> QED BY <1>1, <1>3, <1>4

LEMMA SubmitTextLetters ==
    ASSUME TextInv, NEW m \in Member, SubmitText(m)
    PROVE  \A x \in Member : Letters(x)'
<1> USE DEF TextInv, DeliveryInv
<1>1. /\ log' = log /\ status' = status /\ conn' = conn /\ resume' = resume
      /\ phase' = phase /\ gconn' = gconn /\ dials' = dials /\ lastSeq' = lastSeq
      /\ resubmit' = resubmit /\ skipped' = skipped /\ down' = down /\ broken' = broken
      /\ phase[m] = "member"
  BY DEF SubmitText, hostVars
<1>2. PICK k \in Text : /\ draft[m][k] = "unsent"
                        /\ \/ /\ draft' = [draft EXCEPT ![m][k] = "sending"]
                              /\ up' = Push(up, m, gconn[m], Submission(k))
                           \/ /\ draft' = [draft EXCEPT ![m][k] = "failed"]
                              /\ up' = up
  BY DEF SubmitText, Unsent, Submission
<1>3. PICK s \in Stream \cup {0} : s = gconn[m]
  BY MemberTypes
<1>4. s = dials[m] /\ resubmit[m] = {}
  BY <1>1, <1>3 DEF Flow, Placed, Letters, Written
<1>5. /\ \A x \in Member \ {m} : draft'[x] = draft[x]
      /\ \A j \in Text : j # k => draft'[m][j] = draft[m][j]
      /\ draft'[m][k] \in {"sending", "failed"}
      /\ up' # up => draft'[m][k] = "sending"
  BY <1>2 DEF TypeOK, GuestTypeOK
<1>6. /\ \A t \in Stream : k \notin Texts(up[m][t]) /\ k \notin Refusals(down[m][t])
      /\ \A n \in 1..Len(log) : ~IsText(n, m, k)
  BY <1>2 DEF Letters, Written, Refused, Drafted
<1>7. /\ Heeded(m)'
      /\ \A t \in Stream : Once(up'[m][t])
      /\ \A t \in Stream : \/ Texts(up'[m][t]) = Texts(up[m][t])
                           \/ up' # up /\ Texts(up'[m][t]) = Texts(up[m][t]) \cup {k}
      /\ \A x \in Member \ {m} : up'[x] = up[x]
  <2>1. CASE up' = Push(up, m, gconn[m], Submission(k))
    <3>1. up' = Push(up, m, s, Submission(k))
      BY <1>3, <2>1
    <3>2. /\ Heeded(m)'
          /\ \A t \in Stream : Once(up'[m][t])
          /\ \A t \in Stream : \/ Texts(up'[m][t]) = Texts(up[m][t])
                               \/ t = s /\ Texts(up'[m][t]) = Texts(up[m][t]) \cup {k}
          /\ \A x \in Member \ {m} : up'[x] = up[x]
      BY <1>1, <1>4, <1>6, <3>1, WritingLetters
    <3> QED BY <3>2
  <2>2. CASE up' = up
    BY <1>1, <2>2 DEF Letters, Heeded, Written, Attached
  <2> QED BY <1>2, <2>1, <2>2
<1>8. Cleared(m)'
  BY <1>1 DEF Letters, Cleared
<1>9. Written(m)'
  <2>1. \A t \in Stream : \A j \in Texts(up'[m][t]) : draft'[m][j] \in {"sending", "delivered"}
    <3> SUFFICES ASSUME NEW t \in Stream, NEW j \in Texts(up'[m][t])
                 PROVE  draft'[m][j] \in {"sending", "delivered"}
      OBVIOUS
    <3>1. j \in Text
      BY DEF Texts
    <3>2. CASE j \in Texts(up[m][t])
      <4>1. draft[m][j] \in {"sending", "delivered"} /\ j # k
        BY <1>6, <3>2 DEF Letters, Written
      <4> QED BY <1>5, <3>1, <4>1
    <3>3. CASE j \notin Texts(up[m][t])
      BY <1>5, <1>7, <3>3
    <3> QED BY <3>2, <3>3
  <2> QED BY <1>1, <1>4, <1>7, <2>1 DEF Written
<1>10. Refused(m)'
  <2> SUFFICES ASSUME NEW t \in Stream, NEW j \in Refusals(down[m][t])
               PROVE  /\ draft'[m][j] # "unsent" /\ j \notin resubmit[m] /\ phase[m] # "waiting"
                      /\ \A u \in Stream : j \notin Texts(up'[m][u])
    BY <1>1 DEF Refused
  <2>1. j # k /\ j \in Text
    BY <1>6 DEF Refusals
  <2>2. /\ draft[m][j] # "unsent" /\ j \notin resubmit[m] /\ phase[m] # "waiting"
        /\ \A u \in Stream : j \notin Texts(up[m][u])
    BY DEF Letters, Refused
  <2> QED BY <1>5, <1>7, <2>1, <2>2
<1>11. Settled(m)'
  BY <1>1 DEF Letters, Settled, IsText
<1>12. Drafted(m)'
  <2>1. \A n \in 1..Len(log), j \in Text : IsText(n, m, j) => draft'[m][j] = draft[m][j]
    BY <1>5, <1>6
  <2> QED BY <1>1, <2>1 DEF Letters, Drafted, IsText
<1>13. Letters(m)'
  BY <1>7, <1>8, <1>9, <1>10, <1>11, <1>12 DEF Letters
<1> QED BY <1>1, <1>5, <1>7, <1>13, OneLetters DEF Still

LEMMA ResubmitLetters ==
    ASSUME TextInv, NEW m \in Member, Resubmit(m)
    PROVE  \A x \in Member : Letters(x)'
<1> USE DEF TextInv, DeliveryInv
<1>1. /\ log' = log /\ status' = status /\ conn' = conn /\ resume' = resume
      /\ phase' = phase /\ gconn' = gconn /\ dials' = dials /\ lastSeq' = lastSeq
      /\ draft' = draft /\ skipped' = skipped /\ down' = down /\ broken' = broken
      /\ phase[m] = "resubmitting"
  BY DEF Resubmit, hostVars
<1>2. PICK k \in resubmit[m] : /\ resubmit' = [resubmit EXCEPT ![m] = @ \ {k}]
                               /\ up' = Push(up, m, dials[m], Submission(k))
  BY DEF Resubmit, OldestOf, Submission
<1>3. PICK s \in Stream \cup {0} : s = dials[m]
  BY MemberTypes
<1>4. /\ k \in Text /\ draft[m][k] = "sending"
      /\ \A t \in Stream : t = s => k \notin Texts(up[m][t])
      /\ \A t \in Stream : k \notin Refusals(down[m][t])
  BY <1>3 DEF Letters, Written, Refused, Pending
<1>5. /\ Heeded(m)'
      /\ \A t \in Stream : Once(up'[m][t])
      /\ \A t \in Stream : \/ Texts(up'[m][t]) = Texts(up[m][t])
                           \/ t = s /\ Texts(up'[m][t]) = Texts(up[m][t]) \cup {k}
      /\ \A x \in Member \ {m} : up'[x] = up[x]
  <2>1. up' = Push(up, m, s, Submission(k))
    BY <1>2, <1>3
  <2> QED BY <1>1, <1>3, <1>4, <2>1, WritingLetters
<1>6. /\ resubmit'[m] = resubmit[m] \ {k}
      /\ \A x \in Member \ {m} : resubmit'[x] = resubmit[x]
  BY <1>2 DEF TypeOK, GuestTypeOK
<1>7. Cleared(m)'
  BY <1>1 DEF Letters, Cleared
<1>8. Written(m)'
  <2>1. \A t \in Stream : \A j \in Texts(up'[m][t]) : draft[m][j] \in {"sending", "delivered"}
    BY <1>4, <1>5 DEF Letters, Written
  <2>2. \A t \in Stream : t = dials[m] => Texts(up'[m][t]) \cap resubmit'[m] = {}
    BY <1>5, <1>6 DEF Letters, Written
  <2>3. resubmit'[m] \subseteq Pending(m)'
    BY <1>1, <1>6 DEF Letters, Written, Pending
  <2> QED BY <1>1, <1>5, <2>1, <2>2, <2>3 DEF Written
<1>9. Refused(m)'
  BY <1>1, <1>4, <1>5, <1>6 DEF Letters, Refused
<1>10. Settled(m)'
  BY <1>1 DEF Letters, Settled, IsText
<1>11. Drafted(m)'
  BY <1>1 DEF Letters, Drafted, IsText
<1>12. Letters(m)'
  BY <1>5, <1>7, <1>8, <1>9, <1>10, <1>11 DEF Letters
<1> QED BY <1>1, <1>5, <1>6, <1>12, OneLetters DEF Still

LEMMA ResumeAcceptedLetters ==
    ASSUME TextInv, NEW m \in Member, ResumeAccepted(m)
    PROVE  \A x \in Member : Letters(x)'
<1> USE DEF TextInv, DeliveryInv
<1>1. /\ log' = log /\ status' = status /\ conn' = conn /\ resume' = resume
      /\ gconn' = gconn /\ dials' = dials /\ lastSeq' = lastSeq /\ draft' = draft
      /\ skipped' = skipped /\ up' = up /\ down' = down /\ broken' = broken
  BY DEF ResumeAccepted, hostVars, netVars
<1>2. /\ phase[m] = "waiting" /\ phase'[m] = "resubmitting" /\ resubmit'[m] = Pending(m)
      /\ \A x \in Member \ {m} : phase'[x] = phase[x] /\ resubmit'[x] = resubmit[x]
  BY DEF ResumeAccepted, TypeOK, GuestTypeOK
<1>3. PICK s \in Stream : s = dials[m] /\ down[m][s] # <<>> /\ Head(down[m][s]).type = "RESUME_ACCEPT"
  BY MemberTypes DEF ResumeAccepted, Answered
<1>4. Accepts(down[m][s])
  <2>1. down[m][s] \in Seq(HostFrame)
    BY MemberTypes
  <2> QED BY <1>3, <2>1, ReadAnswer
<1>5. Heeded(m)'
  <2>1. \A t \in Stream : Attached(m, t)' = Attached(m, t)
    BY <1>1 DEF Attached
  <2>2. dials[m] \notin broken[m] => Attached(m, s)
    BY <1>3, <1>4 DEF Letters, Heeded
  <2>3. /\ \A t \in Stream : Texts(up[m][t]) # {} => Attached(m, t)
        /\ dials[m] \notin broken[m] =>
             \A t \in Stream : t = dials[m] /\ Accepts(down[m][t]) => Attached(m, t)
    BY DEF Letters, Heeded
  <2>4. dials'[m] \notin broken'[m] => Attached(m, dials[m])'
    BY <1>1, <1>3, <2>2 DEF Attached
  <2> QED BY <1>1, <2>1, <2>3, <2>4 DEF Heeded, Attached
<1>6. Cleared(m)'
  BY <1>1, <1>2 DEF Letters, Cleared
<1>7. Written(m)'
  <2>1. Pending(m)' = Pending(m)
    BY <1>1 DEF Pending
  <2> QED BY <1>1, <1>2, <2>1 DEF Letters, Written
<1>8. Refused(m)'
  BY <1>1, <1>2 DEF Letters, Refused
<1>9. Settled(m)'
  BY <1>1 DEF Letters, Settled, IsText
<1>10. Drafted(m)'
  BY <1>1, <1>2 DEF Letters, Drafted, IsText
<1>11. Letters(m)'
  BY <1>5, <1>6, <1>7, <1>8, <1>9, <1>10 DEF Letters
<1> QED BY <1>1, <1>2, <1>11, OneLetters DEF Still

LEMMA RecoveredLetters ==
    ASSUME TextInv, NEW m \in Member, Recovered(m)
    PROVE  \A x \in Member : Letters(x)'
<1> USE DEF TextInv, DeliveryInv
<1>1. /\ log' = log /\ status' = status /\ conn' = conn /\ resume' = resume
      /\ dials' = dials /\ lastSeq' = lastSeq /\ draft' = draft /\ resubmit' = resubmit
      /\ skipped' = skipped /\ up' = up /\ broken' = broken
      /\ phase[m] = "resubmitting" /\ resubmit[m] = {}
  BY DEF Recovered, hostVars
<1>2. PICK s \in Stream : s = dials[m] /\ down[m][s] # <<>> /\ Head(down[m][s]).type = "RESUME_ACCEPT"
  BY MemberTypes DEF Recovered, Answered
<1>3. /\ phase'[m] = "member" /\ gconn'[m] = s
      /\ \A x \in Member \ {m} : phase'[x] = phase[x] /\ gconn'[x] = gconn[x] /\ down'[x] = down[x]
      /\ down'[m] = [down[m] EXCEPT ![s] = Tail(down[m][s])]
  BY <1>2 DEF Recovered, TypeOK, GuestTypeOK, NetTypeOK
<1>4. /\ down[m] \in [Stream -> Seq(HostFrame)] /\ lastSeq[m] \in Nat /\ Len(log) \in Nat
  BY MemberTypes
<1>5. /\ down'[m][s] = Tail(down[m][s])
      /\ \A t \in Stream : t # s => down'[m][t] = down[m][t]
  BY <1>3, <1>4
<1>6. /\ Refusals(Tail(down[m][s])) \subseteq Refusals(down[m][s])
      /\ Accepts(Tail(down[m][s])) => Accepts(down[m][s])
  BY <1>2, <1>4, ReadAnswer
<1>7. Heeded(m)'
  <2>1. \A t \in Stream : Attached(m, t) => Attached(m, t)'
    BY <1>1 DEF Attached
  <2> QED BY <1>1, <1>3, <1>5, <1>6, <2>1, HeededKept DEF Flow, Letters
<1>8. Cleared(m)'
  BY <1>1, <1>2, <1>3, <1>5 DEF Letters, Cleared
<1>9. Written(m)'
  <2>1. Pending(m)' = Pending(m)
    BY <1>1 DEF Pending
  <2> QED BY <1>1, <1>3, <2>1 DEF Letters, Written
<1>10. Refused(m)'
  <2>1. \A t \in Stream : Refusals(down'[m][t]) \subseteq Refusals(down[m][t])
    BY <1>5, <1>6
  <2> QED BY <1>1, <1>3, <2>1 DEF Letters, Refused
<1>11. Settled(m)'
  <2> SUFFICES ASSUME NEW t \in Stream, NEW k \in Text, NEW n \in 1..Len(log), IsText(n, m, k)
               PROVE  Behind(down'[m][t], lastSeq[m], k, n)
    BY <1>1 DEF Settled, IsText
  <2>1. Behind(down[m][t], lastSeq[m], k, n)
    BY DEF Letters, Settled
  <2>2. CASE t = s
    <3>1. Moves(down[m][s], lastSeq[m], lastSeq[m]) /\ n \in Nat /\ down[m][s] \in Seq(HostFrame)
      BY <1>2, <1>4 DEF Moves, Numbered
    <3>2. Behind(Tail(down[m][s]), lastSeq[m], k, n)
      BY <1>2, <1>4, <2>1, <2>2, <3>1, ReadAnswer
    <3> QED BY <1>5, <2>2, <3>2
  <2>3. CASE t # s
    BY <1>5, <2>1, <2>3
  <2> QED BY <2>2, <2>3
<1>12. Drafted(m)'
  BY <1>1, <1>3 DEF Letters, Drafted, IsText
<1>13. Letters(m)'
  BY <1>7, <1>8, <1>9, <1>10, <1>11, <1>12 DEF Letters
<1> QED BY <1>1, <1>3, <1>13, OneLetters DEF Still

LEMMA DialAgainLetters ==
    ASSUME TextInv, NEW m \in Member, DialAgain(m)
    PROVE  \A x \in Member : Letters(x)'
<1> USE DEF TextInv, DeliveryInv
<1> DEFINE f == [type |-> "RESUME_REQUEST", lastSeq |-> lastSeq[m]]
<1>1. /\ log' = log /\ status' = status /\ conn' = conn /\ resume' = resume
      /\ gconn' = gconn /\ lastSeq' = lastSeq /\ draft' = draft /\ resubmit' = resubmit
      /\ skipped' = skipped /\ broken' = broken /\ phase[m] = "recovering"
  BY DEF DialAgain, hostVars
<1>2. PICK s \in Stream : s = dials[m] + 1
  <2>1. dials[m] < MaxStream /\ dials[m] \in Nat
    BY MemberTypes DEF DialAgain
  <2> QED BY <2>1, GroupLogAssumption DEF Stream
<1>3. /\ phase'[m] = "waiting" /\ dials'[m] = s
      /\ \A x \in Member \ {m} : phase'[x] = phase[x] /\ dials'[x] = dials[x] /\ down'[x] = down[x]
  BY <1>2 DEF DialAgain, TypeOK, GuestTypeOK, NetTypeOK
<1>4. f \in GuestFrame /\ f.type # "TEXT_SUBMIT" /\ up' = Push(up, m, s, f)
  BY <1>2, MemberTypes DEF DialAgain, GuestFrame
<1> HIDE DEF f
<1>5. /\ \A x \in Member \ {m} : up'[x] = up[x]
      /\ \A t \in Stream : up'[m][t] = IF t = s /\ s \notin broken[m]
                                       THEN Append(up[m][t], f) ELSE up[m][t]
  BY <1>4, Pushed
<1>6. \A t \in Stream : up[m][t] \in Seq(GuestFrame) /\ Thins(up'[m][t], up[m][t])
  BY <1>4, <1>5, MemberTypes DEF Thins
<1>7. \A t \in Stream : /\ Texts(up'[m][t]) \subseteq Texts(up[m][t])
                        /\ Once(up[m][t]) => Once(up'[m][t])
  BY <1>6, ThinTexts
<1>8. \A t \in Stream : down'[m][t] = <<>>
  <2>1. \A t \in Stream : down'[m][t] = <<>> \/ (t # gconn[m] /\ down'[m][t] = down[m][t])
    BY DEF DialAgain, TypeOK, NetTypeOK
  <2>2. \A t \in Stream : t # gconn[m] => down[m][t] = <<>>
    BY <1>1 DEF Letters, Cleared
  <2> QED BY <2>1, <2>2
<1>9. Texts(up[m][s]) = {}
  <2>1. s > dials[m]
    BY <1>2, MemberTypes
  <2> QED BY <2>1, NotOpened, EmptyTexts
<1>10. resubmit[m] = {}
  BY <1>1 DEF Letters, Written
<1>11. Heeded(m)'
  <2>1. \A t \in Stream : Texts(up'[m][t]) # {} => Attached(m, t)'
    BY <1>1, <1>7 DEF Letters, Heeded, Attached
  <2> QED BY <1>3, <1>8, <2>1, EmptyTexts DEF Heeded
<1>12. Cleared(m)'
  BY <1>8 DEF Cleared
<1>13. Written(m)'
  <2>1. /\ \A t \in Stream : Once(up'[m][t])
        /\ \A t \in Stream : \A k \in Texts(up'[m][t]) : draft[m][k] \in {"sending", "delivered"}
    BY <1>7 DEF Letters, Written
  <2>2. Texts(up'[m][s]) = {}
    BY <1>7, <1>9
  <2> QED BY <1>1, <1>3, <1>10, <2>1, <2>2 DEF Written
<1>14. Refused(m)' /\ Settled(m)'
  BY <1>8, EmptyTexts DEF Refused, Settled
<1>15. Drafted(m)'
  BY <1>1, <1>3 DEF Letters, Drafted, IsText
<1>16. Letters(m)'
  BY <1>11, <1>12, <1>13, <1>14, <1>15 DEF Letters
<1> QED BY <1>1, <1>3, <1>5, <1>16, OneLetters DEF Still
-----------------------------------------------------------------------------
(* The invariant, and what it means *)

LEMMA InitText == Init => TextInv
<1> SUFFICES ASSUME Init PROVE TextInv
  OBVIOUS
<1>1. DeliveryInv /\ StayInv
  BY InitDelivery, InitStays
<1> SUFFICES ASSUME NEW m \in Member PROVE Letters(m)
  BY <1>1 DEF TextInv
<1>2. /\ \A s \in Stream : up[m][s] = <<>> /\ down[m][s] = <<>>
      /\ dials[m] = 0 /\ 0 \notin Stream /\ log = <<>> /\ resubmit[m] = {} /\ phase[m] = "out"
      /\ \A k \in Text : draft[m][k] = "unsent"
  BY DEF Init, Stream
<1>3. Heeded(m) /\ Refused(m)
  BY <1>2, EmptyTexts DEF Heeded, Refused
<1>4. Cleared(m) /\ Written(m)
  BY <1>2, EmptyTexts DEF Cleared, Written
<1>5. Settled(m) /\ Drafted(m)
  BY <1>2 DEF Settled, Drafted
<1> QED BY <1>3, <1>4, <1>5 DEF Letters

LEMMA NextText == TextInv /\ [Next]_vars => TextInv'
<1> SUFFICES ASSUME TextInv, [Next]_vars PROVE TextInv'
  OBVIOUS
<1>1. DeliveryInv' /\ StayInv' /\ TypeOK'
  BY NextDelivery, NextStays, NextType DEF TextInv, DeliveryInv
<1> SUFFICES \A x \in Member : Letters(x)'
  BY <1>1 DEF TextInv
<1>2. CASE OwnerText
  BY <1>2, OwnerTextLetters
<1>3. CASE SetRoomPaused
  BY <1>3, SetRoomPausedLetters
<1>4. ASSUME NEW m \in Member, HostAction(m) PROVE \A x \in Member : Letters(x)'
  BY <1>4, ApproveJoinLetters, CommitAdmissionLetters, DropPendingLetters, LoseMemberLetters,
     RemovalLetters, RejectResumeLetters, AcceptResumeLetters, ReplayLetters,
     ActivateResumeLetters, AbandonResumeLetters, RejectPausedTextLetters,
     AnswerDuplicateLetters, CommitTextLetters
     DEF HostAction
<1>5. ASSUME NEW m \in Member, GuestAction(m) PROVE \A x \in Member : Letters(x)'
  BY <1>1, <1>5, JoinedLetters, ReadEventLetters, ReadResyncLetters, ReadNoticeLetters,
     QuitSilentlyLetters, SubmitTextLetters, LeaveLetters, RecoveryLetters, DialAgainLetters,
     ResumeAcceptedLetters, ResubmitLetters, RecoveredLetters
     DEF GuestAction
<1>6. ASSUME NEW m \in Member, NEW s \in Stream, Break(m, s) \/ Drop(m, s)
      PROVE  \A x \in Member : Letters(x)'
  BY <1>6, BreakLetters
<1>7. CASE UNCHANGED vars
  <2> SUFFICES ASSUME NEW x \in Member PROVE Letters(x)'
    OBVIOUS
  <2>1. /\ UNCHANGED <<log, status, conn, resume>>
        /\ UNCHANGED <<phase, gconn, dials, lastSeq, draft, resubmit, skipped>>
        /\ UNCHANGED <<up, down, broken>>
    BY <1>7 DEF vars, hostVars, guestVars, netVars
  <2>2. Still(x) /\ Delivers(x)
    BY <2>1 DEF Still, Delivers
  <2>3. NoText(x)
    BY <2>1, NoTextCommitted DEF TextInv, DeliveryInv
  <2> QED BY <2>2, <2>3, StillLetters
<1> QED BY <1>2, <1>3, <1>4, <1>5, <1>6, <1>7 DEF Next

\* What sendText, resubmitPending and handleMemberFrame do with a text fits
\* together: in every reachable state it has one copy on its way, to a host that
\* listens there, or is pending; once refused it is neither, and its sender has
\* read every event that the refusal was sent after.
THEOREM TextInvariant == Spec => []TextInv
<1>1. Init => TextInv
  BY InitText
<1>2. TextInv /\ [Next]_vars => TextInv'
  BY NextText
<1> QED BY <1>1, <1>2, PTL DEF Spec

\* A member's user is never told of the failure of a text that the others see:
\* however often the text was written again, refused while the room was paused
\* or expired from the replay buffer, a failed text is in the log only when a
\* resync made its sender jump over the event.
THEOREM FailureMeansSkipped == Spec => []FailedOnlyAfterResync
<1>1. TextInv => FailedOnlyAfterResync
  <2> SUFFICES ASSUME TextInv, NEW m \in Member, NEW k \in Text, draft[m][k] = "failed",
                      NEW n \in 1..Len(log), IsText(n, m, k)
               PROVE  n \in skipped[m]
    BY DEF FailedOnlyAfterResync
  <2>1. /\ lastSeq[m] < n => draft[m][k] # "failed"
        /\ n <= lastSeq[m] => draft[m][k] = "delivered" \/ n \in skipped[m]
    BY DEF TextInv, Letters, Drafted
  <2>2. lastSeq[m] \in Nat /\ n \in Nat
    BY MemberTypes DEF TextInv, DeliveryInv
  <2> QED BY <2>1, <2>2
<1>2. Init => TextInv
  BY InitText
<1>3. TextInv /\ [Next]_vars => TextInv'
  BY NextText
<1> QED BY <1>1, <1>2, <1>3, PTL DEF Spec

-----------------------------------------------------------------------------
(* The room as a whole: every step commits one admissible event, moves one *)
(* cursor, settles one text, or does nothing that RoomLog speaks of.       *)

\* n is the last that the log says of m's presence.
Latest(m, n) ==
    /\ n \in 1..Len(log) /\ log[n].who = m /\ log[n].type # "TEXT"
    /\ \A i \in 1..Len(log) : log[i].who = m /\ log[i].type # "TEXT" => i <= n

\* The host's books of m agree with it.
Announced(m) ==
    /\ status[m] = "online" =>
         \E n : Latest(m, n) /\ log[n].type \in {"MEMBER_JOINED", "MEMBER_ONLINE"}
    /\ status[m] = "reconnecting" =>
         \E n : Latest(m, n) /\ log[n].type = "MEMBER_RECONNECTING"

\* m submits its texts in their order.
InTurn(m) ==
    \A j, k \in Text : j <= k /\ draft[m][j] = "unsent" => draft[m][k] = "unsent"

RoomInv == DedupeInv /\ TextInv /\ \A m \in Member : Announced(m) /\ InTurn(m)

-----------------------------------------------------------------------------
(* What a step does to the log *)

\* Nothing is committed, and nobody enters the room or leaves it.
Quietly ==
    /\ log' = log
    /\ \A x \in Member :
          status'[x] = status[x] \/ {status[x], status'[x]} \cap {"online", "reconnecting"} = {}

\* e is committed, and the books are changed with it.
Announces(e) ==
    /\ Commit(e)
    /\ \A x \in Member : status'[x] = status[x] \/ (e.who = x /\ e.type # "TEXT")
    /\ e.type = "TEXT" =>
         \/ e.who = Owner
         \/ /\ e.who \in Member /\ status[e.who] = "online"
            /\ e.id \in Text /\ draft[e.who][e.id] # "unsent"
    /\ e.type = "MEMBER_JOINED" => status[e.who] = "committing" /\ status'[e.who] = "online"
    /\ e.type = "MEMBER_RECONNECTING" =>
         status[e.who] = "online" /\ status'[e.who] = "reconnecting"
    /\ e.type = "MEMBER_ONLINE" => status[e.who] = "reconnecting" /\ status'[e.who] = "online"
    /\ e.type = "MEMBER_LEFT" =>
         status[e.who] \in {"online", "reconnecting"} /\ status'[e.who] = "gone"

LEMMA Removes ==
    ASSUME TypeOK, NEW m \in Member, NEW notify, Remove(m, notify),
           status[m] \in {"online", "reconnecting"}
    PROVE  \E e \in Event : Announces(e)
<1>1. PICK e \in Event : e = [type |-> "MEMBER_LEFT", who |-> m, id |-> 0]
  BY DEF Event
<1>2. status' = [status EXCEPT ![m] = "gone"] /\ Commit(e)
  BY <1>1 DEF Remove
<1>3. Announces(e)
  BY <1>1, <1>2 DEF Announces, TypeOK, HostTypeOK
<1> QED BY <1>3

LEMMA Accepting ==
    ASSUME TypeOK, NEW m \in Member, NEW s \in Stream, AcceptResume(m, s)
    PROVE  Quietly \/ \E e \in Event : Announces(e)
<1>1. /\ status[m] \in {"online", "reconnecting"} /\ status'[m] = "reconnecting"
      /\ \A x \in Member \ {m} : status'[x] = status[x]
  BY DEF AcceptResume, Resumable, TypeOK, HostTypeOK
<1>2. CASE StillServed(m)
  <2>1. PICK e \in Event : e = [type |-> "MEMBER_RECONNECTING", who |-> m, id |-> 0]
    BY DEF Event
  <2>2. Commit(e) /\ status[m] = "online"
    BY <1>2, <2>1 DEF AcceptResume, StillServed
  <2>3. Announces(e)
    BY <1>1, <2>1, <2>2 DEF Announces
  <2> QED BY <2>3
<1>3. CASE ~StillServed(m)
  <2>1. log' = log /\ status[m] = "reconnecting"
    BY <1>1, <1>3 DEF AcceptResume, StillServed
  <2> QED BY <1>1, <2>1 DEF Quietly
<1> QED BY <1>2, <1>3

LEMMA Speaks ==
    ASSUME TextInv, NEW m \in Member, CommitText(m)
    PROVE  \E e \in Event : Announces(e)
<1> USE DEF TextInv, DeliveryInv
<1>1. Hears(m, "TEXT_SUBMIT") /\ Consume(m) /\ status' = status
  BY DEF CommitText
<1>2. PICK k, s : k = Head(up[m][conn[m]]).id /\ s = conn[m]
  OBVIOUS
<1>3. /\ s \in Stream /\ status[m] = "online" /\ k \in Text /\ k \in Texts(up[m][s])
  BY <1>1, <1>2, Taking
<1>4. PICK e \in Event : e = [type |-> "TEXT", who |-> m, id |-> k] /\ Commit(e)
  <2>1. k \in Nat
    BY <1>3, GroupLogAssumption DEF Text
  <2> QED BY <1>2, <2>1 DEF CommitText, Event
<1>5. draft[m][k] # "unsent"
  BY <1>3 DEF Letters, Written
<1>6. Announces(e)
  BY <1>1, <1>3, <1>4, <1>5 DEF Announces
<1> QED BY <1>6

\* Every step of the host, and what its members do besides.
LEMMA HostPosts ==
    ASSUME TextInv, OwnerText \/ SetRoomPaused \/ \E m \in Member : HostAction(m)
    PROVE  Quietly \/ \E e \in Event : Announces(e)
<1> USE DEF TextInv, DeliveryInv
<1>1. CASE OwnerText
  <2> DEFINE e == [type |-> "TEXT", who |-> Owner, id |-> Cardinality(OwnerTexts) + 1]
  <2>1. e \in Event /\ e.who = Owner /\ e.type = "TEXT"
    BY OwnerTextsFinite DEF Event
  <2>2. Commit(e) /\ status' = status
    BY <1>1 DEF OwnerText
  <2> HIDE DEF e
  <2>3. Announces(e)
    BY <2>1, <2>2 DEF Announces
  <2> QED BY <2>1, <2>3
<1>2. CASE SetRoomPaused
  BY <1>2 DEF SetRoomPaused, Quietly
<1>3. ASSUME NEW m \in Member, HostAction(m)
      PROVE  Quietly \/ \E e \in Event : Announces(e)
  <2>1. CASE \/ ApproveJoin(m) \/ DropPending(m)
    BY <2>1 DEF ApproveJoin, DropPending, Quietly, TypeOK, HostTypeOK
  <2>2. CASE \/ RejectPausedText(m) \/ AnswerDuplicate(m) \/ ReplayEvent(m) \/ ReplayResync(m)
             \/ AbandonResume(m) \/ \E s \in Stream : RejectResume(m, s)
    BY <2>2 DEF RejectPausedText, AnswerDuplicate, ReplayEvent, ReplayResync, AbandonResume,
                RejectResume, hostVars, Quietly
  <2>3. CASE RemoveMember(m) \/ GraceTimeout(m) \/ HearLeave(m)
    BY <2>3, Removes DEF RemoveMember, GraceTimeout, HearLeave, Hears
  <2>4. CASE \E s \in Stream : AcceptResume(m, s)
    BY <2>4, Accepting
  <2>5. CASE CommitText(m)
    BY <2>5, Speaks
  <2>6. CASE CommitAdmission(m)
    <3>1. PICK e \in Event : e = [type |-> "MEMBER_JOINED", who |-> m, id |-> 0]
      BY DEF Event
    <3>2. Announces(e)
      BY <2>6, <3>1 DEF CommitAdmission, Announces, TypeOK, HostTypeOK
    <3> QED BY <3>2
  <2>7. CASE LoseMember(m)
    <3>1. PICK e \in Event : e = [type |-> "MEMBER_RECONNECTING", who |-> m, id |-> 0]
      BY DEF Event
    <3>2. Announces(e)
      BY <2>7, <3>1 DEF LoseMember, Announces, TypeOK, HostTypeOK
    <3> QED BY <3>2
  <2>8. CASE ActivateResume(m)
    <3>1. PICK e \in Event : e = [type |-> "MEMBER_ONLINE", who |-> m, id |-> 0]
      BY DEF Event
    <3>2. status[m] = "reconnecting"
      BY <2>8 DEF ActivateResume, StayInv, ResumingAway
    <3>3. Announces(e)
      BY <2>8, <3>1, <3>2 DEF ActivateResume, Announces, TypeOK, HostTypeOK
    <3> QED BY <3>3
  <2> QED BY <1>3, <2>1, <2>2, <2>3, <2>4, <2>5, <2>6, <2>7, <2>8 DEF HostAction
<1> QED BY <1>1, <1>2, <1>3

-----------------------------------------------------------------------------
(* The books and the log *)

LEMMA QuietlyAnnounced ==
    ASSUME Quietly, NEW x \in Member, Announced(x)
    PROVE  Announced(x)'
<1>1. \A n : Latest(x, n) => Latest(x, n)'
  BY DEF Latest, Quietly
<1> QED BY <1>1 DEF Announced, Quietly

LEMMA AnnouncedKept ==
    ASSUME TypeOK, NEW e \in Event, Announces(e), NEW x \in Member, Announced(x)
    PROVE  Announced(x)'
<1>1. PICK last : /\ last = Len(log) + 1 /\ last \in Nat /\ Len(log') = last /\ log'[last] = e
                  /\ \A i \in 1..Len(log) : log'[i] = log[i]
  BY Appended DEF Announces
<1>2. /\ \A i \in 1..Len(log') : i \in 1..Len(log) \/ i = last
      /\ \A i \in 1..Len(log) : i \in 1..Len(log') /\ i <= last
      /\ last \in 1..Len(log')
  BY <1>1, MemberTypes
<1>3. CASE e.who = x /\ e.type # "TEXT"
  <2>1. Latest(x, last)'
    BY <1>1, <1>2, <1>3 DEF Latest
  <2>2. e.type \in {"MEMBER_JOINED", "MEMBER_LEFT", "MEMBER_RECONNECTING", "MEMBER_ONLINE"}
    BY <1>3 DEF Event
  <2>3. /\ status'[x] = "online" => e.type \in {"MEMBER_JOINED", "MEMBER_ONLINE"}
        /\ status'[x] = "reconnecting" => e.type = "MEMBER_RECONNECTING"
    BY <1>3, <2>2 DEF Announces
  <2> QED BY <1>1, <2>1, <2>3 DEF Announced
<1>4. CASE ~(e.who = x /\ e.type # "TEXT")
  <2>1. status'[x] = status[x]
    BY <1>4 DEF Announces
  <2>2. \A n : Latest(x, n) => Latest(x, n)' /\ log'[n] = log[n]
    BY <1>1, <1>2, <1>4 DEF Latest
  <2> QED BY <2>1, <2>2 DEF Announced
<1> QED BY <1>3, <1>4

\* What RoomLog reads from the log.
LEMMA PresenceRead ==
    ASSUME TypeOK, NEW m \in Member, NEW n, Latest(m, n)
    PROVE  Room!LastPresence(m) = n /\ n # 0
<1> DEFINE said == {i \in 1..Len(log) : log[i].who = m /\ log[i].type # "TEXT"}
<1>1. n \in said /\ \A j \in said : j <= n
  BY DEF Latest
<1>2. \A i, j \in said : i \in Nat /\ (i <= j /\ j <= i => i = j)
  BY MemberTypes
<1>3. (CHOOSE i \in said : \A j \in said : j <= i) = n
  <2>1. \A i \in said : (\A j \in said : j <= i) => i = n
    BY <1>1, <1>2
  <2> HIDE DEF said
  <2> QED BY <1>1, <2>1
<1>4. said # {} /\ n # 0
  BY <1>1
<1>5. Room!LastPresence(m) = IF said = {} THEN 0 ELSE CHOOSE i \in said : \A j \in said : j <= i
  BY DEF Room!LastPresence
<1> HIDE DEF said
<1> QED BY <1>3, <1>4, <1>5

LEMMA UnheardRead ==
    ASSUME NEW m \in Member, ~Mentioned(m)
    PROVE  Room!LastPresence(m) = 0
<1>1. {i \in 1..Len(log) : log[i].who = m /\ log[i].type # "TEXT"} = {}
  BY DEF Mentioned
<1> QED BY <1>1 DEF Room!LastPresence

LEMMA BooksRead ==
    ASSUME TypeOK, NEW m \in Member, Announced(m)
    PROVE  /\ status[m] = "online" => Room!Here(m)
           /\ status[m] = "reconnecting" => Room!Away(m)
<1>1. ASSUME status[m] = "online" PROVE Room!Here(m)
  <2>1. PICK n : Latest(m, n) /\ log[n].type \in {"MEMBER_JOINED", "MEMBER_ONLINE"}
    BY <1>1 DEF Announced
  <2> QED BY <2>1, PresenceRead DEF Room!Here
<1>2. ASSUME status[m] = "reconnecting" PROVE Room!Away(m)
  <2>1. PICK n : Latest(m, n) /\ log[n].type = "MEMBER_RECONNECTING"
    BY <1>2 DEF Announced
  <2> QED BY <2>1, PresenceRead DEF Room!Away
<1> QED BY <1>1, <1>2

-----------------------------------------------------------------------------
(* The steps of RoomLog *)

LEMMA Posts ==
    ASSUME RoomInv, NoDuplicateCommit', NEW e \in Event, Announces(e),
           lastSeq' = lastSeq, draft' = draft
    PROVE  Room!Post
<1> USE DEF RoomInv, TextInv, DeliveryInv
<1>1. PICK last : /\ last = Len(log) + 1 /\ last \in Nat /\ Len(log') = last /\ log'[last] = e
                  /\ \A i \in 1..Len(log) : log'[i] = log[i]
                  /\ log' = Append(log, e)
  BY Appended DEF Announces, Commit
<1>2. Room!Admissible(e)
  <2>1. CASE e.type = "TEXT" /\ e.who = Owner
    BY <2>1 DEF Room!Admissible
  <2>2. CASE e.type = "TEXT" /\ e.who # Owner
    <3>1. /\ e.who \in Member /\ status[e.who] = "online"
          /\ e.id \in Text /\ draft[e.who][e.id] # "unsent"
      BY <2>2 DEF Announces
    <3>2. ASSUME NEW i \in 1..Len(log), log[i] = e PROVE FALSE
      <4>1. /\ i \in 1..Len(log') /\ last \in 1..Len(log') /\ i # last
            /\ log'[i] = e /\ log'[last] = e
        BY <1>1, <3>2, MemberTypes
      <4> QED BY <2>2, <3>1, <4>1 DEF NoDuplicateCommit
    <3>3. Room!Here(e.who)
      BY <3>1, BooksRead
    <3>4. Room!Text = Text
      BY DEF Room!Text, Text
    <3> QED BY <2>2, <3>1, <3>2, <3>3, <3>4 DEF Room!Admissible
  <2>3. CASE e.type # "TEXT"
    <3>1. /\ e.who \in Member
          /\ e.type \in {"MEMBER_JOINED", "MEMBER_LEFT", "MEMBER_RECONNECTING", "MEMBER_ONLINE"}
      BY <2>3 DEF Event
    <3>2. CASE e.type = "MEMBER_JOINED"
      <4>1. ~Mentioned(e.who)
        BY <3>1, <3>2 DEF Announces, StayInv, StatusTold
      <4> QED BY <3>1, <3>2, <4>1, UnheardRead DEF Room!Admissible
    <3>3. CASE e.type \in {"MEMBER_LEFT", "MEMBER_RECONNECTING", "MEMBER_ONLINE"}
      <4>1. /\ status[e.who] = "online" => Room!Here(e.who)
            /\ status[e.who] = "reconnecting" => Room!Away(e.who)
        BY <3>1, BooksRead
      <4> QED BY <3>1, <3>3, <4>1 DEF Room!Admissible, Announces
    <3> QED BY <3>1, <3>2, <3>3
  <2> QED BY <2>1, <2>2, <2>3
<1>3. log'[Len(log')] = e /\ Len(log') = Len(log) + 1
  BY <1>1
<1> QED BY <1>1, <1>2, <1>3 DEF Room!Post

LEMMA JoinedJumps ==
    ASSUME RoomInv, NEW m \in Member, Joined(m) \/ ReadResync(m)
    PROVE  Room!Jump(m) /\ draft' = draft
<1> USE DEF RoomInv, TextInv, DeliveryInv
<1>1. PICK n : n = Received(m).seq
  OBVIOUS
<1>2. n \in lastSeq[m]..Len(log)
  <2>1. CASE Joined(m)
    <3>1. n \in Nat /\ n <= Len(log)
      BY <1>1, <2>1, ReadFrame DEF Joined, Carries
    <3>2. lastSeq[m] = 0
      BY <2>1 DEF Joined, Flow, Order
    <3> QED BY <3>1, <3>2, MemberTypes
  <2>2. CASE ReadResync(m)
    <3>1. n \in Nat /\ n <= Len(log) /\ lastSeq[m] <= n
      BY <1>1, <2>2, ReadFrame DEF ReadResync, Carries, IsResync
    <3> QED BY <3>1, MemberTypes
  <2> QED BY <2>1, <2>2
<1>3. lastSeq' = [lastSeq EXCEPT ![m] = n] /\ log' = log /\ draft' = draft
  BY <1>1 DEF Joined, ReadResync, hostVars
<1> QED BY <1>2, <1>3 DEF Room!Jump

LEMMA ReadEventDelivers ==
    ASSUME RoomInv, NEW m \in Member, ReadEvent(m)
    PROVE  Room!Deliver(m) \/ UNCHANGED <<log, lastSeq, draft>>
<1> USE DEF RoomInv, TextInv, DeliveryInv
<1>1. PICK n : n = Received(m).seq
  OBVIOUS
<1>2. n \in Nat /\ n <= Len(log) /\ lastSeq[m] \in Nat /\ Len(log) \in Nat /\ log' = log
  BY <1>1, ReadFrame, MemberTypes DEF ReadEvent, Carries, hostVars
<1>3. CASE n <= lastSeq[m] /\ UNCHANGED <<lastSeq, draft>>
  BY <1>2, <1>3
<1>4. CASE /\ n = lastSeq[m] + 1
           /\ lastSeq' = [lastSeq EXCEPT ![m] = n]
           /\ draft' = IF log[n].type = "TEXT" /\ log[n].who = m /\ log[n].id \in Pending(m)
                       THEN [draft EXCEPT ![m][log[n].id] = "delivered"]
                       ELSE draft
  <2>1. n \in 1..Len(log) /\ lastSeq[m] < Len(log)
    BY <1>2, <1>4
  <2>2. log[n].type = "TEXT" /\ log[n].who = m => log[n].id \in Text
    BY <2>1 DEF DedupeInv, Named, By
  <2>3. draft' = IF log[n].type = "TEXT" /\ log[n].who = m /\ draft[m][log[n].id] = "sending"
                 THEN [draft EXCEPT ![m][log[n].id] = "delivered"]
                 ELSE draft
    BY <1>4, <2>2 DEF Pending
  <2> QED BY <1>2, <1>4, <2>1, <2>3 DEF Room!Deliver
<1> QED BY <1>1, <1>3, <1>4 DEF ReadEvent

LEMMA SubmitTextSubmits ==
    ASSUME RoomInv, NEW m \in Member, SubmitText(m)
    PROVE  Room!Submit(m)
<1> USE DEF RoomInv, TextInv, DeliveryInv
<1>1. PICK k \in Text : /\ draft[m][k] = "unsent"
                        /\ \A j \in Text : draft[m][j] = "unsent" => k <= j
                        /\ \/ draft' = [draft EXCEPT ![m][k] = "sending"]
                           \/ draft' = [draft EXCEPT ![m][k] = "failed"]
  BY DEF SubmitText, Unsent
<1>2. \A j \in Text : draft[m][j] = "unsent" <=> j >= k
  BY <1>1 DEF InTurn, Text
<1>3. log' = log /\ lastSeq' = lastSeq /\ Room!Text = Text
  BY DEF SubmitText, hostVars, Room!Text, Text
<1> QED BY <1>1, <1>2, <1>3 DEF Room!Submit

LEMMA ReadRejectionFails ==
    ASSUME RoomInv, NEW m \in Member, ReadRejection(m)
    PROVE  Room!Fail(m) \/ UNCHANGED <<log, lastSeq, draft>>
<1>1. log' = log /\ lastSeq' = lastSeq /\ Room!Text = Text
  BY DEF ReadRejection, hostVars, Room!Text, Text
<1>2. \/ draft' = draft
      \/ \E k \in Pending(m) : draft' = [draft EXCEPT ![m][k] = "failed"]
  BY DEF ReadRejection
<1> QED BY <1>1, <1>2 DEF Room!Fail, Pending

LEMMA GuestMoves ==
    ASSUME RoomInv, NEW m \in Member, GuestAction(m)
    PROVE  Room!Next \/ UNCHANGED <<log, lastSeq, draft>>
<1>1. CASE Joined(m) \/ ReadResync(m)
  BY <1>1, JoinedJumps DEF Room!Next
<1>2. CASE ReadEvent(m)
  BY <1>2, ReadEventDelivers DEF Room!Next
<1>3. CASE SubmitText(m)
  BY <1>3, SubmitTextSubmits DEF Room!Next
<1>4. CASE ReadRejection(m)
  BY <1>4, ReadRejectionFails DEF Room!Next
<1>5. CASE ~(Joined(m) \/ ReadResync(m) \/ ReadEvent(m) \/ SubmitText(m) \/ ReadRejection(m))
  BY <1>5 DEF GuestAction, ReadUnusableEvent, ReadPause, ReadRemoved, Leave, FailJoin,
       BeginRecovery, DialAgain, ResumeAccepted, Resubmit, Recovered, ResumeFailed,
       RecoveryTimeout, Quit, hostVars
<1> QED BY <1>1, <1>2, <1>3, <1>4, <1>5

\* The host's steps are not those of its members.
LEMMA HostWaits ==
    ASSUME OwnerText \/ SetRoomPaused \/ \E m \in Member : HostAction(m)
    PROVE  lastSeq' = lastSeq /\ draft' = draft
<1>1. CASE OwnerText \/ SetRoomPaused
  BY <1>1 DEF OwnerText, SetRoomPaused, guestVars
<1>2. ASSUME NEW m \in Member, HostAction(m)
      PROVE  lastSeq' = lastSeq /\ draft' = draft
  BY <1>2 DEF HostAction, ApproveJoin, CommitAdmission, DropPending, LoseMember, RemoveMember,
       GraceTimeout, HearLeave, Remove, RejectResume, AcceptResume, ReplayEvent, ReplayResync,
       ActivateResume, AbandonResume, RejectPausedText, AnswerDuplicate, CommitText, guestVars
<1> QED BY <1>1, <1>2
-----------------------------------------------------------------------------
(* The invariant, and the refinement *)

LEMMA InTurnKept ==
    ASSUME RoomInv, [Next]_vars, NEW x \in Member
    PROVE  InTurn(x)'
<1> USE DEF RoomInv, TextInv, DeliveryInv
<1>1. draft \in [Member -> [Text -> {"unsent", "sending", "delivered", "failed"}]]
  BY DEF TypeOK, GuestTypeOK
<1>2. CASE \A k \in Text : draft'[x][k] = "unsent" <=> draft[x][k] = "unsent"
  BY <1>2 DEF InTurn
<1>3. CASE SubmitText(x)
  <2>1. PICK k \in Text : /\ draft[x][k] = "unsent"
                          /\ \A j \in Text : draft[x][j] = "unsent" => k <= j
                          /\ \/ draft' = [draft EXCEPT ![x][k] = "sending"]
                             \/ draft' = [draft EXCEPT ![x][k] = "failed"]
    BY <1>3 DEF SubmitText, Unsent
  <2>2. /\ draft'[x][k] # "unsent"
        /\ \A j \in Text : j # k => draft'[x][j] = draft[x][j]
    BY <1>1, <2>1
  <2>3. ASSUME NEW i \in Text, NEW j \in Text, i <= j, draft'[x][i] = "unsent"
        PROVE  draft'[x][j] = "unsent"
    <3>1. i # k /\ draft[x][i] = "unsent"
      BY <2>2, <2>3
    <3>2. k <= i /\ k \in Nat /\ i \in Nat /\ j \in Nat
      BY <2>1, <3>1 DEF Text
    <3>3. j # k /\ draft[x][j] = "unsent"
      BY <2>3, <3>1, <3>2 DEF InTurn
    <3> QED BY <2>2, <3>3
  <2> QED BY <2>3 DEF InTurn
<1>4. CASE OwnerText \/ SetRoomPaused \/ \E m \in Member : HostAction(m)
  BY <1>2, <1>4, HostWaits
<1>5. ASSUME NEW m \in Member, GuestAction(m), ~(m = x /\ SubmitText(m))
      PROVE  \A k \in Text : draft'[x][k] = "unsent" <=> draft[x][k] = "unsent"
  <2>1. CASE ReadEvent(m)
    <3>1. \/ draft' = draft
          \/ \E k \in Pending(m) : draft' = [draft EXCEPT ![m][k] = "delivered"]
      BY <2>1 DEF ReadEvent
    <3> QED BY <1>1, <3>1 DEF Pending
  <2>2. CASE ReadRejection(m)
    <3>1. \/ draft' = draft
          \/ \E k \in Pending(m) : draft' = [draft EXCEPT ![m][k] = "failed"]
      BY <2>2 DEF ReadRejection
    <3> QED BY <1>1, <3>1 DEF Pending
  <2>3. CASE SubmitText(m)
    <3>1. m # x
      BY <1>5, <2>3
    <3>2. PICK k \in Text : \/ draft' = [draft EXCEPT ![m][k] = "sending"]
                            \/ draft' = [draft EXCEPT ![m][k] = "failed"]
      BY <2>3 DEF SubmitText, Unsent
    <3>3. draft'[x] = draft[x]
      BY <1>1, <3>1, <3>2
    <3> QED BY <3>3
  <2>4. CASE ~(ReadEvent(m) \/ ReadRejection(m) \/ SubmitText(m))
    <3>1. draft' = draft
      BY <1>5, <2>4 DEF GuestAction, Joined, ReadResync, ReadUnusableEvent, ReadPause,
         ReadRemoved, Leave, FailJoin, BeginRecovery, DialAgain, ResumeAccepted, Resubmit,
         Recovered, ResumeFailed, RecoveryTimeout, Quit
    <3> QED BY <3>1
  <2> QED BY <2>1, <2>2, <2>3, <2>4
<1>6. CASE UNCHANGED vars \/ \E m \in Member, s \in Stream : Break(m, s) \/ Drop(m, s)
  BY <1>2, <1>6 DEF Break, Drop, guestVars, vars
<1> QED BY <1>2, <1>3, <1>4, <1>5, <1>6 DEF Next

\* What a step may do, as RoomLog and the books see it.
LEMMA EveryStep ==
    ASSUME RoomInv, [Next]_vars
    PROVE  \/ Quietly /\ UNCHANGED <<log, lastSeq, draft>>
           \/ Quietly /\ Room!Next
           \/ lastSeq' = lastSeq /\ draft' = draft /\ \E e \in Event : Announces(e)
<1>1. CASE OwnerText \/ SetRoomPaused \/ \E m \in Member : HostAction(m)
  BY <1>1, HostPosts, HostWaits DEF RoomInv, Quietly
<1>2. ASSUME NEW m \in Member, GuestAction(m)
      PROVE  Quietly /\ (Room!Next \/ UNCHANGED <<log, lastSeq, draft>>)
  <2>1. log' = log /\ status' = status
    BY <1>2 DEF GuestAction, Joined, ReadEvent, ReadUnusableEvent, ReadResync, ReadRejection,
       ReadPause, ReadRemoved, SubmitText, Leave, FailJoin, BeginRecovery, DialAgain,
       ResumeAccepted, Resubmit, Recovered, ResumeFailed, RecoveryTimeout, Quit, hostVars
  <2> QED BY <1>2, <2>1, GuestMoves DEF Quietly
<1>3. CASE UNCHANGED vars \/ \E m \in Member, s \in Stream : Break(m, s) \/ Drop(m, s)
  BY <1>3 DEF Break, Drop, hostVars, guestVars, vars, Quietly
<1> QED BY <1>1, <1>2, <1>3 DEF Next

LEMMA InitRoom == Init => RoomInv
<1> SUFFICES ASSUME Init PROVE RoomInv
  OBVIOUS
<1>1. DedupeInv /\ TextInv
  BY InitDedupe, InitText
<1>2. \A m \in Member : Announced(m) /\ InTurn(m)
  BY DEF Init, Announced, InTurn
<1> QED BY <1>1, <1>2 DEF RoomInv

LEMMA NextRoom == RoomInv /\ [Next]_vars => RoomInv'
<1> SUFFICES ASSUME RoomInv, [Next]_vars PROVE RoomInv'
  OBVIOUS
<1>1. DedupeInv' /\ TextInv'
  BY NextDedupe, NextText DEF RoomInv
<1>2. ASSUME NEW m \in Member PROVE Announced(m)'
  <2>1. TypeOK /\ Announced(m)
    BY DEF RoomInv, TextInv, DeliveryInv
  <2> QED BY <2>1, EveryStep, QuietlyAnnounced, AnnouncedKept
<1>3. \A m \in Member : InTurn(m)'
  BY InTurnKept
<1> QED BY <1>1, <1>2, <1>3 DEF RoomInv

\* What the host's members map says of somebody is what the log says last of
\* them, and a member's texts are submitted in their order.
THEOREM RoomInvariant == Spec => []RoomInv
<1>1. Init => RoomInv
  BY InitRoom
<1>2. RoomInv /\ [Next]_vars => RoomInv'
  BY NextRoom
<1> QED BY <1>1, <1>2, PTL DEF Spec

\* A step is one of RoomLog, unless it commits a text that is in the log.
LEMMA StepOfRoom ==
    RoomInv /\ NoDuplicateCommit' /\ [Next]_vars => [Room!Next]_(Room!vars)
<1> SUFFICES ASSUME RoomInv, NoDuplicateCommit', [Next]_vars
             PROVE  [Room!Next]_(Room!vars)
  OBVIOUS
<1>1. ASSUME NEW e \in Event, Announces(e), lastSeq' = lastSeq, draft' = draft
      PROVE  Room!Next
  BY <1>1, Posts DEF Room!Next
<1> QED BY <1>1, EveryStep DEF Room!vars

\* As long as no text is committed twice, the room with its streams, buffers,
\* replays and recoveries implements RoomLog: commitEvent appends only what the
\* books allow, acceptEvent moves lastSeq over the log one event at a time or as
\* a resync says, and a text is settled as its event is passed.
THEOREM RoomImplemented == Spec /\ []NoDuplicateCommit => ImplementsRoom
<1>1. Init => RoomInv
  BY InitRoom
<1>2. RoomInv /\ [Next]_vars => RoomInv'
  BY NextRoom
<1>3. Init => Room!Init
  BY DEF Init, Room!Init, Room!Text, Text
<1>4. RoomInv /\ NoDuplicateCommit' /\ [Next]_vars => [Room!Next]_(Room!vars)
  BY StepOfRoom
<1> QED BY <1>1, <1>2, <1>3, <1>4, PTL DEF Spec, ImplementsRoom, Room!Spec

\* And none is, as long as the texts of one member fit into its deduper.
THEOREM RoomImplementedInFull == MaxText <= DedupeMax => (Spec => ImplementsRoom)
<1> SUFFICES ASSUME MaxText <= DedupeMax PROVE Spec => ImplementsRoom
  OBVIOUS
<1>1. Spec => []NoDuplicateCommit
  BY CommittedOnce
<1> QED BY <1>1, RoomImplemented, PTL

-----------------------------------------------------------------------------
(* The order of a member's texts *)

\* What m's user is told has been delivered is in the log.
Confirmed(m) ==
    \A k \in Text : draft[m][k] = "delivered" => \E n \in 1..Len(log) : IsText(n, m, k)

\* The texts of m that wait for their commit.
Owed(m) == {k \in Text : draft[m][k] = "sending" /\ \A n \in 1..Len(log) : ~IsText(n, m, k)}

\* A text in q follows those of its sender that were submitted before it and
\* still wait.
Lined(q, owed) ==
    \A i \in 1..Len(q), k \in Text : q[i] = Submission(k) =>
        \A j \in owed : j < k => \E h \in 1..(i - 1) : q[h] = Submission(j)

\* What waits comes after all that the log holds.
Ahead(m) == \A n \in 1..Len(log) : By(n, m) => \A j \in Owed(m) : log[n].id < j

\* On the stream that m writes to, as long as it is intact, is all that waits.
Carried(m) ==
    \A s \in Stream : s = dials[m] /\ s \notin broken[m] =>
        /\ phase[m] = "member" => Owed(m) \subseteq Texts(up[m][s])
        /\ phase[m] = "resubmitting" => Owed(m) \ resubmit[m] \subseteq Texts(up[m][s])

Queued(m) ==
    Ahead(m) /\ Carried(m) /\ \A s \in Stream : Lined(up[m][s], Owed(m))

Ascending(m) ==
    \A i, j \in 1..Len(log) : By(i, m) /\ By(j, m) /\ i < j => log[i].id <= log[j].id

OrderInv ==
    /\ RoomInv
    /\ \A m \in Member : Confirmed(m)
    /\ toggles < 2 => /\ paused <=> toggles = 1
                      /\ \A m \in Member : Ascending(m)
    /\ toggles = 0 => \A m \in Member : Queued(m)

-----------------------------------------------------------------------------
(* What a step does to the frames that carry texts *)

\* From q to r no text of owed is lost, and no text is added.
Follows(r, q, owed) ==
    \/ r = q
    \/ q # <<>> /\ r = Tail(q) /\ \A j \in owed : Head(q) # Submission(j)
    \/ \E f \in GuestFrame : f.type # "TEXT_SUBMIT" /\ r = Append(q, f)

LEMMA FollowsLined ==
    ASSUME NEW q \in Seq(GuestFrame), NEW owed \in SUBSET Text, NEW left \in SUBSET owed,
           NEW r, Follows(r, q, left), Lined(q, owed)
    PROVE  Lined(r, left) /\ Texts(q) \cap left \subseteq Texts(r)
<1> USE DEF Lined, Texts
<1>1. CASE r = q
  BY <1>1
<1>2. CASE q # <<>> /\ r = Tail(q) /\ \A j \in left : Head(q) # Submission(j)
  <2>1. /\ Len(q) \in Nat \ {0} /\ Len(r) = Len(q) - 1 /\ q[1] = Head(q)
        /\ \A i \in 1..Len(r) : r[i] = q[i + 1]
    BY <1>2
  <2>2. ASSUME NEW i \in 1..Len(r), NEW k \in Text, r[i] = Submission(k),
               NEW j \in left, j < k
        PROVE  \E h \in 1..(i - 1) : r[h] = Submission(j)
    <3>1. i + 1 \in 1..Len(q) /\ q[i + 1] = Submission(k)
      BY <2>1, <2>2
    <3>2. PICK h \in 1..((i + 1) - 1) : q[h] = Submission(j)
      BY <2>2, <3>1
    <3>3. h # 1
      BY <1>2, <2>1, <3>2
    <3>4. h - 1 \in 1..(i - 1) /\ r[h - 1] = q[h]
      BY <2>1, <3>2, <3>3
    <3> QED BY <3>2, <3>4
  <2>3. ASSUME NEW k \in left, NEW i \in 1..Len(q), q[i] = Submission(k)
        PROVE  \E h \in 1..Len(r) : r[h] = Submission(k)
    <3>1. i # 1
      BY <1>2, <2>1, <2>3
    <3>2. i - 1 \in 1..Len(r) /\ r[i - 1] = q[i]
      BY <2>1, <3>1
    <3> QED BY <2>3, <3>2
  <2> QED BY <2>2, <2>3
<1>3. ASSUME NEW f \in GuestFrame, f.type # "TEXT_SUBMIT", r = Append(q, f)
      PROVE  Lined(r, left) /\ Texts(q) \cap left \subseteq Texts(r)
  <2>1. /\ Len(q) \in Nat /\ Len(r) = Len(q) + 1 /\ r[Len(q) + 1] = f
        /\ \A i \in 1..Len(q) : r[i] = q[i]
    BY <1>3
  <2>2. \A k \in Text : f # Submission(k)
    BY <1>3 DEF Submission
  <2>3. ASSUME NEW i \in 1..Len(r), NEW k \in Text, r[i] = Submission(k)
        PROVE  i \in 1..Len(q) /\ q[i] = Submission(k)
    BY <2>1, <2>2, <2>3
  <2>4. ASSUME NEW i \in 1..Len(r), NEW k \in Text, r[i] = Submission(k),
               NEW j \in left, j < k
        PROVE  \E h \in 1..(i - 1) : r[h] = Submission(j)
    <3>1. i \in 1..Len(q) /\ q[i] = Submission(k)
      BY <2>3, <2>4
    <3>2. PICK h \in 1..(i - 1) : q[h] = Submission(j)
      BY <2>4, <3>1
    <3>3. r[h] = q[h]
      BY <2>1, <3>1, <3>2
    <3> QED BY <3>2, <3>3
  <2>5. Texts(q) \subseteq Texts(r)
    BY <2>1
  <2> QED BY <2>4, <2>5
<1> QED BY <1>1, <1>2, <1>3 DEF Follows

\* Writing k, when all that waits and was submitted before it is there.
LEMMA WrittenLined ==
    ASSUME NEW q \in Seq(GuestFrame), NEW owed \in SUBSET Text, NEW k \in Text, Lined(q, owed),
           \A j \in owed : j < k => j \in Texts(q)
    PROVE  /\ Lined(Append(q, Submission(k)), owed)
           /\ Texts(Append(q, Submission(k))) = Texts(q) \cup {k}
<1> DEFINE r == Append(q, Submission(k))
<1>1. /\ Len(q) \in Nat /\ Len(r) = Len(q) + 1 /\ r[Len(q) + 1] = Submission(k)
      /\ \A i \in 1..Len(q) : r[i] = q[i]
  OBVIOUS
<1> HIDE DEF r
<1>2. \A j \in Text : Submission(j) = Submission(k) => j = k
  BY DEF Submission
<1>3. ASSUME NEW i \in 1..Len(r), NEW l \in Text, r[i] = Submission(l), NEW j \in owed, j < l
      PROVE  \E h \in 1..(i - 1) : r[h] = Submission(j)
  <2>1. CASE i \in 1..Len(q)
    <3>1. PICK h \in 1..(i - 1) : q[h] = Submission(j)
      BY <1>1, <1>3, <2>1 DEF Lined
    <3> QED BY <1>1, <2>1, <3>1
  <2>2. CASE i = Len(q) + 1
    <3>1. l = k
      BY <1>1, <1>2, <1>3, <2>2
    <3>2. PICK h \in 1..Len(q) : q[h] = Submission(j)
      BY <1>3, <3>1 DEF Texts
    <3> QED BY <1>1, <2>2, <3>2
  <2> QED BY <1>1, <2>1, <2>2
<1>4. Texts(r) = Texts(q) \cup {k}
  BY <1>1, <1>2 DEF Texts
<1>5. Lined(r, owed)
  BY <1>3 DEF Lined
<1> QED BY <1>4, <1>5 DEF r

-----------------------------------------------------------------------------
(* The steps in which nothing is submitted and nothing of m is committed *)

Calm(m) ==
    /\ \A k \in Text : draft'[m][k] = "sending" => draft[m][k] = "sending"
    /\ broken[m] \subseteq broken'[m]
    /\ phase'[m] \in {"member", "resubmitting"} =>
         phase'[m] = phase[m] /\ dials'[m] = dials[m] /\ resubmit'[m] = resubmit[m]
    /\ \A s \in Stream : \/ Follows(up'[m][s], up[m][s], Owed(m)')
                         \/ up'[m][s] = <<>> /\ s \in broken'[m]

LEMMA AheadKept ==
    ASSUME TypeOK, NEW m \in Member, Ahead(m),
           \A k \in Text : draft'[m][k] = "sending" => draft[m][k] = "sending",
           \/ log' = log
           \/ \E e \in Event : Commit(e) /\ ~(e.type = "TEXT" /\ e.who = m)
    PROVE  Ahead(m)' /\ Owed(m)' \subseteq Owed(m)
<1>1. CASE log' = log
  BY <1>1 DEF Ahead, Owed, By, IsText
<1>2. ASSUME NEW e \in Event, Commit(e), ~(e.type = "TEXT" /\ e.who = m)
      PROVE  Ahead(m)' /\ Owed(m)' \subseteq Owed(m)
  <2>1. /\ Len(log) \in Nat /\ Len(log') = Len(log) + 1 /\ log'[Len(log) + 1] = e
        /\ \A i \in 1..Len(log) : log'[i] = log[i]
    BY <1>2, Appended
  <2>2. Owed(m)' \subseteq Owed(m)
    BY <2>1 DEF Owed, IsText
  <2>3. ASSUME NEW n \in 1..Len(log'), By(n, m)'
        PROVE  n \in 1..Len(log) /\ By(n, m) /\ log'[n] = log[n]
    BY <1>2, <2>1, <2>3 DEF By
  <2> QED BY <2>2, <2>3 DEF Ahead
<1> QED BY <1>1, <1>2

LEMMA QueuedKept ==
    ASSUME TypeOK, NEW m \in Member, Queued(m), Calm(m), Ahead(m)', Owed(m)' \subseteq Owed(m)
    PROVE  Queued(m)'
<1>1. up \in [Member -> [Stream -> Seq(GuestFrame)]] /\ Owed(m) \in SUBSET Text
  BY DEF TypeOK, NetTypeOK, Owed
<1>2. ASSUME NEW s \in Stream, Follows(up'[m][s], up[m][s], Owed(m)')
      PROVE  /\ Lined(up'[m][s], Owed(m)')
             /\ Texts(up[m][s]) \cap Owed(m)' \subseteq Texts(up'[m][s])
  <2>1. PICK owed \in SUBSET Text : owed = Owed(m)
    BY <1>1
  <2>2. PICK left \in SUBSET owed : left = Owed(m)'
    BY <2>1
  <2>3. PICK q \in Seq(GuestFrame) : q = up[m][s]
    BY <1>1
  <2>4. PICK r : r = up'[m][s]
    OBVIOUS
  <2>5. Follows(r, q, left) /\ Lined(q, owed)
    BY <1>2, <2>1, <2>2, <2>3, <2>4 DEF Queued
  <2>6. Lined(r, left) /\ Texts(q) \cap left \subseteq Texts(r)
    BY <2>5, FollowsLined
  <2> QED BY <2>2, <2>3, <2>4, <2>6
<1>3. \A s \in Stream : Lined(up'[m][s], Owed(m)')
  BY <1>2 DEF Calm, Lined
<1>4. Carried(m)'
  <2> SUFFICES ASSUME NEW s \in Stream, s = dials'[m], s \notin broken'[m],
                      phase'[m] \in {"member", "resubmitting"}
               PROVE  /\ phase'[m] = "member" => Owed(m)' \subseteq Texts(up'[m][s])
                      /\ phase'[m] = "resubmitting" =>
                           Owed(m)' \ resubmit'[m] \subseteq Texts(up'[m][s])
    BY DEF Carried
  <2>1. /\ phase'[m] = phase[m] /\ dials'[m] = dials[m] /\ resubmit'[m] = resubmit[m]
        /\ s \notin broken[m]
    BY DEF Calm
  <2>2. Texts(up[m][s]) \cap Owed(m)' \subseteq Texts(up'[m][s])
    BY <1>2 DEF Calm
  <2> QED BY <2>1, <2>2 DEF Queued, Carried
<1> QED BY <1>3, <1>4 DEF Queued

LEMMA CalmQueued ==
    ASSUME TypeOK, NEW m \in Member, Queued(m), Calm(m),
           \/ log' = log
           \/ \E e \in Event : Commit(e) /\ ~(e.type = "TEXT" /\ e.who = m)
    PROVE  Queued(m)'
<1>1. Ahead(m)' /\ Owed(m)' \subseteq Owed(m)
  BY AheadKept DEF Queued, Calm
<1> QED BY <1>1, QueuedKept

\* A stream is as it was, or emptied and lost.
LEMMA HeldCalm ==
    ASSUME NEW m \in Member, draft'[m] = draft[m], broken[m] \subseteq broken'[m],
           \/ phase'[m] = phase[m] /\ dials'[m] = dials[m] /\ resubmit'[m] = resubmit[m]
           \/ phase'[m] \notin {"member", "resubmitting"},
           \A s \in Stream : up'[m][s] = up[m][s] \/ (up'[m][s] = <<>> /\ s \in broken'[m])
    PROVE  Calm(m)
BY DEF Calm, Follows

\* Another frame than a text is taken from s, or a text that waits no more.
LEMMA TakenCalm ==
    ASSUME NEW m \in Member, guestVars' = guestVars, broken[m] \subseteq broken'[m],
           NEW s \in Stream, up[m][s] # <<>>, up'[m][s] = Tail(up[m][s]),
           Head(up[m][s]).type = "TEXT_SUBMIT" => Head(up[m][s]).id \notin Owed(m)',
           \A t \in Stream \ {s} :
              up'[m][t] = up[m][t] \/ (up'[m][t] = <<>> /\ t \in broken'[m])
    PROVE  Calm(m)
<1>1. \A j \in Owed(m)' : Head(up[m][s]) # Submission(j)
  BY DEF Submission
<1> QED BY <1>1 DEF Calm, Follows, guestVars

LEMMA PushCalm ==
    ASSUME TypeOK, NEW m \in Member, NEW s \in Stream \cup {0}, NEW f \in GuestFrame,
           f.type # "TEXT_SUBMIT", up' = Push(up, m, s, f), draft' = draft,
           broken[m] \subseteq broken'[m], phase'[m] \notin {"member", "resubmitting"}
    PROVE  Calm(m) /\ \A x \in Member \ {m} : up'[x] = up[x]
<1>1. /\ \A x \in Member \ {m} : up'[x] = up[x]
      /\ \A t \in Stream : up'[m][t] = IF t = s /\ s \notin broken[m]
                                       THEN Append(up[m][t], f) ELSE up[m][t]
  BY Pushed
<1> QED BY <1>1 DEF Calm, Follows

LEMMA HostCalm ==
    ASSUME RoomInv, ~paused, NEW m \in Member, HostAction(m), ~CommitText(m), NEW x \in Member
    PROVE  Calm(x)
<1> USE DEF RoomInv, TextInv, DeliveryInv
<1>t. /\ up \in [Member -> [Stream -> Seq(GuestFrame)]] /\ broken \in [Member -> SUBSET Stream]
      /\ conn \in [Member -> Stream \cup {0}] /\ 0 \notin Stream
      /\ resume[m].stream \in Stream \cup {0} /\ 1 \in Stream
      /\ TypeOK
  <2>1. /\ up \in [Member -> [Stream -> Seq(GuestFrame)]] /\ broken \in [Member -> SUBSET Stream]
        /\ conn \in [Member -> Stream \cup {0}]
    BY DEF TypeOK, NetTypeOK, HostTypeOK
  <2>2. 0 \notin Stream /\ 1 \in Stream
    BY GroupLogAssumption DEF Stream
  <2>3. resume[m].stream \in Stream \cup {0}
    BY DEF TypeOK, HostTypeOK
  <2> QED BY <2>1, <2>2, <2>3
<1>g. CASE /\ guestVars' = guestVars /\ broken[x] \subseteq broken'[x]
           /\ \A s \in Stream : up'[x][s] = up[x][s] \/ (up'[x][s] = <<>> /\ s \in broken'[x])
  BY <1>g, HeldCalm DEF guestVars
<1>1. CASE ApproveJoin(m)
  <2>1. /\ draft' = draft /\ up' = up /\ broken' = broken /\ resubmit' = resubmit
        /\ x # m => phase'[x] = phase[x] /\ dials'[x] = dials[x]
        /\ phase'[m] = "joining"
    BY <1>1, <1>t DEF ApproveJoin, TypeOK, GuestTypeOK
  <2> QED BY <2>1, HeldCalm
<1>2. CASE CommitAdmission(m) \/ ReplayEvent(m) \/ ReplayResync(m) \/ ActivateResume(m)
  BY <1>2, <1>g DEF CommitAdmission, ReplayEvent, ReplayResync, ActivateResume
<1>3. CASE DropPending(m)
  BY <1>3, <1>g, <1>t DEF DropPending
<1>4. CASE LoseMember(m)
  BY <1>4, <1>g, <1>t DEF LoseMember
<1>5. ASSUME NEW notify, Remove(m, notify)
      PROVE  Calm(x)
  <2>1. /\ guestVars' = guestVars
        /\ broken' = [broken EXCEPT ![m] = @ \cup ({conn[m], resume[m].stream} \ {0})]
        /\ up' = [up EXCEPT ![m] = [s \in Stream |->
                    IF s \in {conn[m], resume[m].stream} THEN <<>> ELSE @[s]]]
    BY <1>5 DEF Remove
  <2>2. CASE x = m
    BY <2>1, <2>2, <1>g, <1>t
  <2>3. CASE x # m
    BY <2>1, <2>3, <1>g, <1>t
  <2> QED BY <2>2, <2>3
<1>6. CASE RemoveMember(m) \/ GraceTimeout(m) \/ HearLeave(m)
  BY <1>5, <1>6 DEF RemoveMember, GraceTimeout, HearLeave
<1>7. ASSUME NEW s \in Stream, RejectResume(m, s)
      PROVE  Calm(x)
  BY <1>7, <1>g, <1>t DEF RejectResume
<1>8. ASSUME NEW s \in Stream, AcceptResume(m, s)
      PROVE  Calm(x)
  <2>1. /\ guestVars' = guestVars /\ up[m][s] # <<>> /\ s \notin {conn[m], resume[m].stream}
        /\ Head(up[m][s]).type = "RESUME_REQUEST"
        /\ \/ /\ broken' = [broken EXCEPT ![m] = @ \cup ({conn[m]} \ {0})]
              /\ up' = [up EXCEPT ![m][s] = Tail(@), ![m][conn[m]] = <<>>]
           \/ broken' = broken /\ up' = [up EXCEPT ![m][s] = Tail(@)]
    BY <1>8 DEF AcceptResume, Opens
  <2>2. CASE x = m
    <3>1. /\ broken[m] \subseteq broken'[m] /\ up'[m][s] = Tail(up[m][s])
          /\ \A t \in Stream \ {s} :
               up'[m][t] = up[m][t] \/ (up'[m][t] = <<>> /\ t \in broken'[m])
      <4>1. CASE up' = [up EXCEPT ![m][s] = Tail(@)] /\ broken' = broken
        BY <4>1, <1>t
      <4>2. CASE /\ broken' = [broken EXCEPT ![m] = @ \cup ({conn[m]} \ {0})]
                 /\ up' = [up EXCEPT ![m][s] = Tail(@), ![m][conn[m]] = <<>>]
        <5>1. PICK q \in [Stream -> Seq(GuestFrame)] : q = up[m]
          BY <1>t
        <5>2. up'[m] = [[q EXCEPT ![s] = Tail(@)] EXCEPT ![conn[m]] = <<>>]
          BY <4>2, <5>1, <1>t
        <5>3. conn[m] # s
          BY <2>1
        <5>4. broken'[m] = broken[m] \cup ({conn[m]} \ {0})
          BY <4>2, <1>t
        <5> QED BY <5>1, <5>2, <5>3, <5>4, <1>t
      <4> QED BY <2>1, <4>1, <4>2
    <3> QED BY <2>1, <2>2, <3>1, TakenCalm
  <2>3. CASE x # m
    BY <2>1, <2>3, <1>g, <1>t
  <2> QED BY <2>2, <2>3
<1>9. CASE AbandonResume(m)
  BY <1>9, <1>g, <1>t DEF AbandonResume
<1>10. CASE AnswerDuplicate(m)
  <2>1. /\ guestVars' = guestVars /\ broken' = broken /\ log' = log
        /\ conn[m] \in Stream /\ up[m][conn[m]] # <<>>
        /\ up' = [up EXCEPT ![m][conn[m]] = Tail(@)]
    BY <1>10, <1>t DEF AnswerDuplicate, Hears, Consume, hostVars
  <2>2. PICK e \in dedupe[m] : e.id = Head(up[m][conn[m]]).id
    BY <1>10 DEF AnswerDuplicate, Prior
  <2>3. e.seq \in 1..Len(log) /\ IsText(e.seq, m, e.id)
    BY DEF DedupeInv, Kept, Entries
  <2>4. Head(up[m][conn[m]]).id \notin Owed(m)'
    BY <2>1, <2>2, <2>3 DEF Owed, IsText
  <2>5. CASE x = m
    <3>1. /\ up'[m][conn[m]] = Tail(up[m][conn[m]])
          /\ \A t \in Stream \ {conn[m]} : up'[m][t] = up[m][t]
      BY <2>1, <1>t
    <3> QED BY <2>1, <2>4, <2>5, <3>1, TakenCalm
  <2>6. CASE x # m
    BY <2>1, <2>6, <1>g, <1>t
  <2> QED BY <2>5, <2>6
<1>11. ~RejectPausedText(m)
  BY DEF RejectPausedText
<1> QED BY <1>1, <1>2, <1>3, <1>4, <1>6, <1>7, <1>8, <1>9, <1>10, <1>11 DEF HostAction

\* The text whose turn it is is committed.
LEMMA CommitTextQueued ==
    ASSUME RoomInv, NoDuplicateCommit', NEW m \in Member, CommitText(m), Confirmed(m),
           Queued(m), Ascending(m)
    PROVE  Queued(m)' /\ Ascending(m)'
<1> USE DEF RoomInv, TextInv, DeliveryInv
<1>1. PICK k \in Text, e \in Event :
        /\ k = Head(up[m][conn[m]]).id /\ e = [type |-> "TEXT", who |-> m, id |-> k]
        /\ Commit(e)
  BY Committing
<1>2. /\ Len(log) \in Nat /\ Len(log') = Len(log) + 1 /\ log'[Len(log) + 1] = e
      /\ \A i \in 1..Len(log) : log'[i] = log[i]
  BY <1>1, Appended
<1>3. /\ conn[m] \in Stream /\ up[m][conn[m]] # <<>> /\ up[m][conn[m]] \in Seq(GuestFrame)
      /\ Head(up[m][conn[m]]) = Submission(k)
      /\ guestVars' = guestVars /\ broken' = broken
      /\ up'[m][conn[m]] = Tail(up[m][conn[m]])
      /\ \A t \in Stream \ {conn[m]} : up'[m][t] = up[m][t]
  <2>1. /\ conn[m] \in Stream /\ up[m][conn[m]] # <<>>
        /\ up \in [Member -> [Stream -> Seq(GuestFrame)]]
    BY DEF CommitText, Hears, TypeOK, NetTypeOK, HostTypeOK
  <2>2. Head(up[m][conn[m]]) \in GuestFrame /\ Head(up[m][conn[m]]).type = "TEXT_SUBMIT"
    BY <2>1 DEF CommitText, Hears
  <2>3. Head(up[m][conn[m]]) = Submission(k)
    BY <1>1, <2>2 DEF GuestFrame, Submission
  <2> QED BY <2>1, <2>3 DEF CommitText, Consume
<1>4. \A n \in 1..Len(log) : ~IsText(n, m, k)
  <2> SUFFICES ASSUME NEW n \in 1..Len(log), IsText(n, m, k) PROVE FALSE
    OBVIOUS
  <2>1. log[n] \in Event /\ log[n] = e
    BY <1>1 DEF IsText, Event, TypeOK, HostTypeOK
  <2>2. /\ n \in 1..Len(log') /\ Len(log) + 1 \in 1..Len(log')
        /\ log'[n] = e /\ log'[Len(log) + 1] = e
    BY <1>2, <2>1
  <2>3. n = Len(log) + 1
    BY <1>1, <2>2 DEF NoDuplicateCommit
  <2> QED BY <1>2, <2>3
<1>5. up[m][conn[m]][1] = Submission(k) /\ 1 \in 1..Len(up[m][conn[m]])
  BY <1>3
<1>6. k \in Owed(m)
  <2>1. k \in Texts(up[m][conn[m]])
    BY <1>5 DEF Texts
  <2>2. draft[m][k] \in {"sending", "delivered"}
    BY <1>3, <2>1 DEF Letters, Written
  <2> QED BY <1>4, <2>2 DEF Owed, Confirmed
<1>7. ASSUME NEW j \in Owed(m), j # k PROVE k < j
  <2>1. Lined(up[m][conn[m]], Owed(m))
    BY <1>3 DEF Queued
  <2>2. ~(j < k)
    BY <1>5, <2>1 DEF Lined
  <2> QED BY <1>7, <2>2, GroupLogAssumption DEF Owed, Text
<1>8. Owed(m)' = Owed(m) \ {k}
  <2>1. \A j \in Text : (\E n \in 1..Len(log') : IsText(n, m, j)')
                         <=> j = k \/ \E n \in 1..Len(log) : IsText(n, m, j)
    BY <1>1, <1>2 DEF IsText
  <2>2. draft' = draft
    BY <1>3 DEF guestVars
  <2> QED BY <2>1, <2>2 DEF Owed
<1>9. ASSUME NEW n \in 1..Len(log'), By(n, m)'
      PROVE  \/ n \in 1..Len(log) /\ By(n, m) /\ log'[n] = log[n]
             \/ n = Len(log) + 1 /\ log'[n].id = k
  BY <1>1, <1>2, <1>9 DEF By
<1>10. Ahead(m)'
  BY <1>7, <1>8, <1>9 DEF Ahead, Queued
<1>11. Ascending(m)'
  <2> SUFFICES ASSUME NEW i \in 1..Len(log'), NEW j \in 1..Len(log'),
                      By(i, m)', By(j, m)', i < j
               PROVE  log'[i].id <= log'[j].id
    BY DEF Ascending
  <2>1. i \in 1..Len(log) /\ By(i, m) /\ log'[i] = log[i]
    BY <1>2, <1>9
  <2>2. CASE j \in 1..Len(log) /\ By(j, m) /\ log'[j] = log[j]
    BY <2>1, <2>2 DEF Ascending
  <2>3. CASE j = Len(log) + 1 /\ log'[j].id = k
    <3>1. log[i].id < k
      BY <1>6, <2>1 DEF Ahead, Queued
    <3>2. log[i].id \in Nat /\ k \in Nat
      BY <2>1, GroupLogAssumption DEF Named, DedupeInv, Text
    <3> QED BY <2>1, <2>3, <3>1, <3>2
  <2> QED BY <1>9, <2>2, <2>3
<1>12. Calm(m)
  <2>1. Head(up[m][conn[m]]).id \notin Owed(m)'
    BY <1>1, <1>8
  <2> QED BY <1>3, <2>1, TakenCalm
<1>13. Queued(m)'
  BY <1>8, <1>10, <1>12, QueuedKept
<1> QED BY <1>11, <1>13

LEMMA CommitTextElsewhere ==
    ASSUME RoomInv, NEW m \in Member, CommitText(m), NEW x \in Member \ {m}
    PROVE  /\ Calm(x)
           /\ \E e \in Event : Commit(e) /\ ~(e.type = "TEXT" /\ e.who = x)
<1> USE DEF RoomInv, TextInv, DeliveryInv
<1>1. \E e \in Event : Commit(e) /\ ~(e.type = "TEXT" /\ e.who = x)
  BY Committing
<1>2. up'[x] = up[x] /\ broken' = broken /\ guestVars' = guestVars
  BY DEF CommitText, Consume, TypeOK, NetTypeOK
<1> QED BY <1>1, <1>2, HeldCalm DEF guestVars

\* The member's side, but for the steps that write texts or end a recovery.
Writes(m) ==
    SubmitText(m) \/ Joined(m) \/ ResumeAccepted(m) \/ Resubmit(m) \/ Recovered(m)

LEMMA ElsewhereCalm ==
    ASSUME TypeOK, NEW m \in Member, GuestAction(m), NEW x \in Member \ {m}
    PROVE  Calm(x)
<1>t. /\ phase \in [Member -> {"out", "joining", "member", "recovering", "waiting",
                               "resubmitting", "closed"}]
      /\ dials \in [Member -> Stream \cup {0}]
      /\ draft \in [Member -> [Text -> {"unsent", "sending", "delivered", "failed"}]]
      /\ resubmit \in [Member -> SUBSET Text] /\ broken \in [Member -> SUBSET Stream]
      /\ up \in [Member -> [Stream -> Seq(GuestFrame)]]
  BY DEF TypeOK, GuestTypeOK, NetTypeOK
<1>1. up'[x] = up[x]
  <2>1. ASSUME NEW s, NEW f, up' = Push(up, m, s, f) PROVE up'[x] = up[x]
    BY <2>1, <1>t DEF Push
  <2>2. up' = up \/ \E s, f : up' = Push(up, m, s, f)
    BY DEF GuestAction, Joined, ReadEvent, ReadUnusableEvent, ReadResync, ReadRejection,
       ReadPause, ReadRemoved, SubmitText, Leave, FailJoin, BeginRecovery, DialAgain,
       ResumeAccepted, Resubmit, Recovered, ResumeFailed, RecoveryTimeout, netVars
  <2> QED BY <2>1, <2>2
<1>2. broken'[x] = broken[x] /\ dials'[x] = dials[x]
  BY <1>t DEF GuestAction, Joined, ReadEvent, ReadUnusableEvent, ReadResync, ReadRejection,
     ReadPause, ReadRemoved, SubmitText, Leave, FailJoin, BeginRecovery, DialAgain,
     ResumeAccepted, Resubmit, Recovered, ResumeFailed, RecoveryTimeout, netVars, Quit
<1>3. phase'[x] = phase[x] /\ resubmit'[x] = resubmit[x]
  BY <1>t DEF GuestAction, Joined, ReadEvent, ReadUnusableEvent, ReadResync, ReadRejection,
     ReadPause, ReadRemoved, SubmitText, Leave, FailJoin, BeginRecovery, DialAgain,
     ResumeAccepted, Resubmit, Recovered, ResumeFailed, RecoveryTimeout, netVars, Quit
<1>4. draft'[x] = draft[x]
  <2>1. draft' = draft \/ \E k, d : draft' = [draft EXCEPT ![m][k] = d]
    BY DEF GuestAction, Joined, ReadEvent, ReadUnusableEvent, ReadResync, ReadRejection,
       ReadPause, ReadRemoved, SubmitText, Leave, FailJoin, BeginRecovery, DialAgain,
       ResumeAccepted, Resubmit, Recovered, ResumeFailed, RecoveryTimeout, netVars, Quit
  <2> QED BY <2>1, <1>t
<1> QED BY <1>1, <1>2, <1>3, <1>4, HeldCalm

LEMMA GuestCalm ==
    ASSUME TypeOK, NEW m \in Member, GuestAction(m), ~Writes(m)
    PROVE  Calm(m)
<1>t. /\ phase \in [Member -> {"out", "joining", "member", "recovering", "waiting",
                               "resubmitting", "closed"}]
      /\ draft \in [Member -> [Text -> {"unsent", "sending", "delivered", "failed"}]]
      /\ resubmit \in [Member -> SUBSET Text] /\ broken \in [Member -> SUBSET Stream]
  BY DEF TypeOK, GuestTypeOK, NetTypeOK
<1>1. CASE ReadEvent(m) \/ ReadRejection(m)
  <2>1. /\ phase' = phase /\ dials' = dials /\ resubmit' = resubmit
        /\ up' = up /\ broken' = broken
    BY <1>1 DEF ReadEvent, ReadRejection
  <2>2. \/ draft' = draft
        \/ \E k \in Text : \E d \in {"delivered", "failed"} :
              draft' = [draft EXCEPT ![m][k] = d]
    BY <1>1 DEF ReadEvent, ReadRejection, Pending
  <2>3. \A k \in Text : draft'[m][k] = "sending" => draft[m][k] = "sending"
    BY <2>2, <1>t
  <2> QED BY <2>1, <2>3 DEF Calm, Follows
<1>2. CASE ReadResync(m) \/ ReadPause(m)
  <2>1. /\ phase' = phase /\ dials' = dials /\ resubmit' = resubmit
        /\ up' = up /\ broken' = broken /\ draft' = draft
    BY <1>2 DEF ReadResync, ReadPause
  <2> QED BY <2>1, HeldCalm
<1>3. CASE ReadUnusableEvent(m) \/ BeginRecovery(m) \/ ResumeFailed(m)
  <2>1. /\ up' = up /\ draft' = draft /\ dials' = dials /\ broken[m] \subseteq broken'[m]
        /\ \/ phase'[m] = "recovering"
           \/ phase'[m] = phase[m] /\ resubmit'[m] = resubmit[m]
    BY <1>3, <1>t DEF ReadUnusableEvent, BeginRecovery, ResumeFailed, netVars
  <2> QED BY <2>1, HeldCalm
<1>4. CASE ReadRemoved(m) \/ FailJoin(m) \/ RecoveryTimeout(m)
  <2>1. /\ up' = up /\ draft' = draft /\ broken[m] \subseteq broken'[m] /\ phase'[m] = "closed"
    BY <1>4, <1>t DEF ReadRemoved, FailJoin, RecoveryTimeout, Quit
  <2> QED BY <2>1, HeldCalm
<1>5. CASE Leave(m)
  <2>1. /\ draft' = draft /\ broken[m] \subseteq broken'[m] /\ phase'[m] = "closed"
        /\ up' = Push(up, m, gconn[m], [type |-> "LEAVE"])
    BY <1>5, <1>t DEF Leave, Quit
  <2>2. gconn[m] \in Stream \cup {0}
    BY DEF TypeOK, GuestTypeOK
  <2>3. [type |-> "LEAVE"] \in GuestFrame
    BY DEF GuestFrame
  <2> QED BY <2>1, <2>2, <2>3, PushCalm
<1>6. CASE DialAgain(m)
  <2>1. /\ draft' = draft /\ broken' = broken /\ phase'[m] = "waiting"
        /\ up' = Push(up, m, dials[m] + 1, [type |-> "RESUME_REQUEST", lastSeq |-> lastSeq[m]])
    BY <1>6, <1>t DEF DialAgain
  <2>2. dials[m] + 1 \in Stream
    <3>1. dials[m] \in 0..MaxStream /\ dials[m] < MaxStream
      BY <1>6, GroupLogAssumption DEF DialAgain, TypeOK, GuestTypeOK, Stream
    <3> QED BY <3>1, GroupLogAssumption DEF Stream
  <2>3. /\ [type |-> "RESUME_REQUEST", lastSeq |-> lastSeq[m]] \in GuestFrame
        /\ [type |-> "RESUME_REQUEST", lastSeq |-> lastSeq[m]].type # "TEXT_SUBMIT"
    BY DEF GuestFrame, TypeOK, GuestTypeOK
  <2> QED BY <2>1, <2>2, <2>3, PushCalm
<1> QED BY <1>1, <1>2, <1>3, <1>4, <1>5, <1>6 DEF GuestAction, Writes

LEMMA JoinedQueued ==
    ASSUME TextInv, NEW m \in Member, Joined(m)
    PROVE  Queued(m)'
<1>1. Owed(m)' = {}
  BY DEF Joined, Owed, TextInv, Letters, Drafted
<1> QED BY <1>1 DEF Queued, Ahead, Carried, Lined

LEMMA ResumeAcceptedQueued ==
    ASSUME TypeOK, NEW m \in Member, ResumeAccepted(m), Queued(m)
    PROVE  Queued(m)'
<1>1. /\ log' = log /\ draft' = draft /\ up' = up /\ broken' = broken
      /\ phase'[m] = "resubmitting" /\ resubmit'[m] = Pending(m)
  BY DEF ResumeAccepted, hostVars, netVars, TypeOK, GuestTypeOK
<1>2. Owed(m)' = Owed(m) /\ Owed(m) \subseteq Pending(m)
  BY <1>1 DEF Owed, Pending, IsText
<1>3. Ahead(m)'
  BY <1>1, <1>2 DEF Queued, Ahead, By
<1>4. \A s \in Stream : Lined(up'[m][s], Owed(m)')
  BY <1>1, <1>2 DEF Queued
<1>5. Carried(m)'
  BY <1>1, <1>2 DEF Carried
<1> QED BY <1>3, <1>4, <1>5 DEF Queued

LEMMA RecoveredQueued ==
    ASSUME TypeOK, NEW m \in Member, Recovered(m), Queued(m)
    PROVE  Queued(m)'
<1>1. /\ log' = log /\ draft' = draft /\ up' = up /\ broken' = broken /\ dials' = dials
      /\ phase[m] = "resubmitting" /\ phase'[m] = "member" /\ resubmit[m] = {}
  BY DEF Recovered, hostVars, TypeOK, GuestTypeOK
<1>2. Owed(m)' = Owed(m)
  BY <1>1 DEF Owed, IsText
<1>3. Ahead(m)'
  BY <1>1, <1>2 DEF Queued, Ahead, By
<1>4. \A s \in Stream : Lined(up'[m][s], Owed(m)')
  BY <1>1, <1>2 DEF Queued
<1>5. Carried(m)'
  BY <1>1, <1>2 DEF Queued, Carried
<1> QED BY <1>3, <1>4, <1>5 DEF Queued

LEMMA ResubmitQueued ==
    ASSUME TypeOK, NEW m \in Member, Resubmit(m), Queued(m)
    PROVE  Queued(m)'
<1>1. PICK k \in OldestOf(resubmit[m]) :
        /\ resubmit' = [resubmit EXCEPT ![m] = @ \ {k}]
        /\ up' = Push(up, m, dials[m], Submission(k))
  BY DEF Resubmit, Submission
<1>2. /\ log' = log /\ draft' = draft /\ broken' = broken /\ dials' = dials
      /\ phase[m] = "resubmitting" /\ phase' = phase
      /\ k \in Text /\ resubmit'[m] = resubmit[m] \ {k}
      /\ up \in [Member -> [Stream -> Seq(GuestFrame)]] /\ dials[m] \in Stream \cup {0}
  BY <1>1 DEF Resubmit, hostVars, OldestOf, TypeOK, GuestTypeOK, NetTypeOK
<1>3. Owed(m)' = Owed(m) /\ Owed(m) \in SUBSET Text
  BY <1>2 DEF Owed, IsText
<1>4. Ahead(m)'
  BY <1>2, <1>3 DEF Queued, Ahead, By
<1>5. \A t \in Stream : up'[m][t] = IF t = dials[m] /\ dials[m] \notin broken[m]
                                    THEN Append(up[m][t], Submission(k)) ELSE up[m][t]
  BY <1>1, <1>2, Pushed
<1>6. ASSUME NEW s \in Stream, s = dials[m], s \notin broken[m]
      PROVE  /\ Lined(up'[m][s], Owed(m))
             /\ Owed(m) \ resubmit'[m] \subseteq Texts(up'[m][s])
  <2>1. Owed(m) \ resubmit[m] \subseteq Texts(up[m][s]) /\ Lined(up[m][s], Owed(m))
    BY <1>2, <1>6 DEF Queued, Carried
  <2>2. ASSUME NEW j \in Owed(m), j < k PROVE j \in Texts(up[m][s])
    <3>1. j \notin resubmit[m]
      BY <1>1, <1>2, <1>3, <2>2, GroupLogAssumption DEF OldestOf, Text
    <3> QED BY <2>1, <3>1
  <2>3. PICK q \in Seq(GuestFrame), owed \in SUBSET Text : q = up[m][s] /\ owed = Owed(m)
    BY <1>2, <1>3
  <2>4. up'[m][s] = Append(q, Submission(k))
    BY <1>5, <1>6, <2>3
  <2>5. /\ Lined(Append(q, Submission(k)), owed)
        /\ Texts(Append(q, Submission(k))) = Texts(q) \cup {k}
    BY <1>2, <2>1, <2>2, <2>3, WrittenLined
  <2> QED BY <1>2, <2>1, <2>3, <2>4, <2>5
<1>7. \A s \in Stream : Lined(up'[m][s], Owed(m)')
  BY <1>3, <1>5, <1>6 DEF Queued
<1>8. Carried(m)'
  BY <1>2, <1>3, <1>6 DEF Carried
<1> QED BY <1>4, <1>7, <1>8 DEF Queued

LEMMA SubmitTextQueued ==
    ASSUME RoomInv, NEW m \in Member, SubmitText(m), Queued(m)
    PROVE  Queued(m)'
<1> USE DEF RoomInv, TextInv, DeliveryInv
<1>1. PICK k \in Unsent(m) :
        /\ \A j \in Unsent(m) : k <= j
        /\ \/ draft' = [draft EXCEPT ![m][k] = "sending"] /\ up' = Push(up, m, gconn[m], Submission(k))
           \/ draft' = [draft EXCEPT ![m][k] = "failed"] /\ up' = up
  BY DEF SubmitText, Submission
<1>2. /\ log' = log /\ broken' = broken /\ dials' = dials /\ resubmit' = resubmit
      /\ phase[m] = "member" /\ phase' = phase
      /\ k \in Text /\ draft[m][k] = "unsent"
      /\ up \in [Member -> [Stream -> Seq(GuestFrame)]] /\ gconn[m] \in Stream \cup {0}
      /\ draft \in [Member -> [Text -> {"unsent", "sending", "delivered", "failed"}]]
  BY <1>1 DEF SubmitText, hostVars, Unsent, TypeOK, GuestTypeOK, NetTypeOK
<1>3. CASE draft' = [draft EXCEPT ![m][k] = "failed"] /\ up' = up
  <2>1. \A j \in Text : draft'[m][j] = "sending" => draft[m][j] = "sending"
    BY <1>2, <1>3
  <2>2. Calm(m)
    BY <1>2, <1>3, <2>1 DEF Calm, Follows
  <2> QED BY <1>2, <2>2, CalmQueued
<1>4. CASE draft' = [draft EXCEPT ![m][k] = "sending"] /\ up' = Push(up, m, gconn[m], Submission(k))
  <2>1. /\ draft'[m][k] = "sending"
        /\ \A j \in Text \ {k} : draft'[m][j] = draft[m][j]
    BY <1>2, <1>4
  <2>2. \A n \in 1..Len(log) : ~IsText(n, m, k)
    BY <1>2 DEF Letters, Drafted
  <2>3. Owed(m)' = Owed(m) \cup {k} /\ Owed(m) \in SUBSET Text
    BY <1>2, <2>1, <2>2 DEF Owed, IsText
  <2>4. ASSUME NEW j \in Text, draft[m][j] # "unsent" PROVE j < k
    <3>1. ~(k <= j)
      BY <1>2, <2>4 DEF InTurn
    <3> QED BY <1>2, <3>1, GroupLogAssumption DEF Text
  <2>5. Ahead(m)'
    <3>1. ASSUME NEW n \in 1..Len(log), By(n, m) PROVE log[n].id < k
      <4>1. log[n].id \in Text
        BY <3>1 DEF DedupeInv, Named
      <4>2. draft[m][log[n].id] # "unsent"
        BY <3>1, <4>1 DEF Letters, Drafted, By, IsText
      <4> QED BY <2>4, <4>1, <4>2
    <3> QED BY <1>2, <2>3, <3>1 DEF Ahead, By, Queued
  <2>6. ASSUME NEW s \in Stream PROVE Lined(up[m][s], Owed(m) \cup {k})
    <3>1. ASSUME NEW i \in 1..Len(up[m][s]), NEW l \in Text, up[m][s][i] = Submission(l)
          PROVE  ~(k < l)
      <4>1. l \in Texts(up[m][s])
        BY <3>1 DEF Texts
      <4>2. draft[m][l] # "unsent"
        BY <4>1 DEF Letters, Written
      <4> QED BY <1>2, <2>4, <4>2, GroupLogAssumption DEF Text
    <3> QED BY <3>1 DEF Lined, Queued
  <2>7. \A t \in Stream : up'[m][t] = IF t = gconn[m] /\ gconn[m] \notin broken[m]
                                      THEN Append(up[m][t], Submission(k)) ELSE up[m][t]
    BY <1>2, <1>4, Pushed
  <2>8. gconn[m] = dials[m]
    BY <1>2 DEF Flow, Placed
  <2>9. ASSUME NEW s \in Stream, s = dials[m], s \notin broken[m]
        PROVE  Lined(up'[m][s], Owed(m)') /\ Owed(m)' \subseteq Texts(up'[m][s])
    <3>1. Owed(m) \subseteq Texts(up[m][s])
      BY <1>2, <2>9 DEF Queued, Carried
    <3>2. PICK q \in Seq(GuestFrame), owed \in SUBSET Text : q = up[m][s] /\ owed = Owed(m) \cup {k}
      BY <1>2, <2>3
    <3>3. ~(k < k)
      BY <1>2, GroupLogAssumption DEF Text
    <3>4. Lined(q, owed) /\ \A j \in owed : j < k => j \in Texts(q)
      BY <2>6, <3>1, <3>2, <3>3
    <3>5. /\ Lined(Append(q, Submission(k)), owed)
          /\ Texts(Append(q, Submission(k))) = Texts(q) \cup {k}
      BY <1>2, <3>4, WrittenLined
    <3>6. up'[m][s] = Append(q, Submission(k))
      BY <2>7, <2>8, <2>9, <3>2
    <3> QED BY <2>3, <3>1, <3>2, <3>5, <3>6
  <2>10. \A s \in Stream : Lined(up'[m][s], Owed(m)')
    BY <2>3, <2>6, <2>7, <2>8, <2>9
  <2>11. Carried(m)'
    BY <1>2, <2>9 DEF Carried
  <2> QED BY <2>5, <2>10, <2>11 DEF Queued
<1> QED BY <1>1, <1>3, <1>4

-----------------------------------------------------------------------------

\* Nobody is told of a delivery that has not happened.
LEMMA ConfirmedKept ==
    ASSUME RoomInv, [Next]_vars, NEW m \in Member, Confirmed(m)
    PROVE  Confirmed(m)'
<1> USE DEF RoomInv, TextInv, DeliveryInv
<1>1. draft \in [Member -> [Text -> {"unsent", "sending", "delivered", "failed"}]]
  BY DEF TypeOK, GuestTypeOK
<1>2. CASE draft' = draft /\ log' = log
  BY <1>2 DEF Confirmed, IsText
<1>3. ASSUME draft' = draft, NEW e \in Event, Commit(e)
      PROVE  Confirmed(m)'
  <2>1. /\ Len(log) \in Nat /\ Len(log') = Len(log) + 1
        /\ \A i \in 1..Len(log) : log'[i] = log[i]
    BY <1>3, Appended
  <2>2. ASSUME NEW k \in Text, draft'[m][k] = "delivered"
        PROVE  \E n \in 1..Len(log') : IsText(n, m, k)'
    <3>1. PICK n \in 1..Len(log) : IsText(n, m, k)
      BY <1>3, <2>2 DEF Confirmed
    <3>2. n \in 1..Len(log') /\ IsText(n, m, k)'
      BY <2>1, <3>1 DEF IsText
    <3> QED BY <3>2
  <2> QED BY <2>2 DEF Confirmed
<1>4. ASSUME log' = log,
             \A k \in Text : draft'[m][k] = "delivered" =>
                draft[m][k] = "delivered" \/ \E n \in 1..Len(log) : IsText(n, m, k)
      PROVE  Confirmed(m)'
  BY <1>4 DEF Confirmed, IsText
<1>5. CASE Room!Next
  <2>1. CASE Room!Post
    <3>1. draft' = draft /\ log' # log
      BY <2>1, MemberTypes DEF Room!Post
    <3>2. \E e \in Event : Commit(e)
      BY <3>1, Growing, Committing
    <3> QED BY <1>3, <3>1, <3>2
  <2>2. ASSUME NEW x \in Member, Room!Jump(x)
        PROVE  Confirmed(m)'
    BY <1>2, <2>2 DEF Room!Jump
  <2>3. ASSUME NEW x \in Member, Room!Submit(x)
        PROVE  Confirmed(m)'
    <3>1. PICK k \in Room!Text, d \in {"sending", "failed"} : draft' = [draft EXCEPT ![x][k] = d]
      BY <2>3 DEF Room!Submit
    <3>2. \A j \in Text : draft'[m][j] = "delivered" => draft[m][j] = "delivered"
      BY <1>1, <3>1
    <3> QED BY <1>4, <2>3, <3>2 DEF Room!Submit
  <2>4. ASSUME NEW x \in Member, Room!Fail(x)
        PROVE  Confirmed(m)'
    <3>1. PICK k \in Room!Text : draft' = [draft EXCEPT ![x][k] = "failed"]
      BY <2>4 DEF Room!Fail
    <3>2. \A j \in Text : draft'[m][j] = "delivered" => draft[m][j] = "delivered"
      BY <1>1, <3>1
    <3> QED BY <1>4, <2>4, <3>2 DEF Room!Fail
  <2>5. ASSUME NEW x \in Member, Room!Deliver(x)
        PROVE  Confirmed(m)'
    <3>1. PICK n : n = lastSeq[x] + 1
      OBVIOUS
    <3>2. /\ n \in 1..Len(log) /\ log' = log
          /\ \/ draft' = draft
             \/ /\ log[n].type = "TEXT" /\ log[n].who = x
                /\ draft' = [draft EXCEPT ![x][log[n].id] = "delivered"]
      BY <2>5, <3>1, MemberTypes DEF Room!Deliver
    <3>3. ASSUME NEW k \in Text, draft'[m][k] = "delivered", draft[m][k] # "delivered"
          PROVE  IsText(n, m, k)
      <4>1. x = m /\ log[n].id = k
        BY <1>1, <3>2, <3>3
      <4> QED BY <3>2, <3>3, <4>1 DEF IsText
    <3> QED BY <1>4, <3>2, <3>3
  <2> QED BY <1>5, <2>1, <2>2, <2>3, <2>4, <2>5 DEF Room!Next
<1>6. ASSUME NEW e \in Event, Announces(e), draft' = draft
      PROVE  Confirmed(m)'
  BY <1>3, <1>6 DEF Announces
<1> QED BY <1>2, <1>5, <1>6, EveryStep

\* The order is that of the log as long as nothing of m is added.
LEMMA AscendingKept ==
    ASSUME TypeOK, NEW m \in Member, Ascending(m),
           \/ log' = log
           \/ \E e \in Event : Commit(e) /\ ~(e.type = "TEXT" /\ e.who = m)
    PROVE  Ascending(m)'
<1>1. CASE log' = log
  BY <1>1 DEF Ascending, By
<1>2. ASSUME NEW e \in Event, Commit(e), ~(e.type = "TEXT" /\ e.who = m)
      PROVE  Ascending(m)'
  <2>1. /\ Len(log) \in Nat /\ Len(log') = Len(log) + 1 /\ log'[Len(log) + 1] = e
        /\ \A i \in 1..Len(log) : log'[i] = log[i]
    BY <1>2, Appended
  <2>2. ASSUME NEW n \in 1..Len(log'), By(n, m)'
        PROVE  n \in 1..Len(log) /\ By(n, m) /\ log'[n] = log[n]
    BY <1>2, <2>1, <2>2 DEF By
  <2> QED BY <2>2 DEF Ascending
<1> QED BY <1>1, <1>2

LEMMA OnlyPausing ==
    ASSUME [Next]_vars, ~SetRoomPaused
    PROVE  toggles' = toggles /\ paused' = paused
<1>1. CASE OwnerText \/ UNCHANGED vars
  BY <1>1 DEF OwnerText, vars, hostVars
<1>2. ASSUME NEW m \in Member, HostAction(m)
      PROVE  toggles' = toggles /\ paused' = paused
  BY <1>2 DEF HostAction, ApproveJoin, CommitAdmission, DropPending, LoseMember, RemoveMember,
     GraceTimeout, Remove, RejectResume, AcceptResume, ReplayEvent, ReplayResync, ActivateResume,
     AbandonResume, RejectPausedText, AnswerDuplicate, CommitText, HearLeave, hostVars
<1>3. ASSUME NEW m \in Member, GuestAction(m)
      PROVE  toggles' = toggles /\ paused' = paused
  BY <1>3 DEF GuestAction, Joined, ReadEvent, ReadUnusableEvent, ReadResync, ReadRejection,
     ReadPause, ReadRemoved, SubmitText, Leave, FailJoin, BeginRecovery, DialAgain,
     ResumeAccepted, Resubmit, Recovered, ResumeFailed, RecoveryTimeout, Quit, hostVars
<1>4. ASSUME NEW m \in Member, NEW s \in Stream, Break(m, s) \/ Drop(m, s)
      PROVE  toggles' = toggles /\ paused' = paused
  BY <1>4 DEF Break, Drop, hostVars
<1> QED BY <1>1, <1>2, <1>3, <1>4 DEF Next

LEMMA NextQueued ==
    ASSUME RoomInv, NoDuplicateCommit', [Next]_vars, ~SetRoomPaused, ~paused, NEW x \in Member,
           Confirmed(x), Queued(x), Ascending(x)
    PROVE  Queued(x)' /\ Ascending(x)'
<1> USE DEF RoomInv, TextInv, DeliveryInv
<1>1. CASE \E m \in Member : CommitText(m)
  <2>1. PICK m \in Member : CommitText(m)
    BY <1>1
  <2>2. CASE m = x
    BY <2>1, <2>2, CommitTextQueued
  <2>3. CASE m # x
    <3>1. /\ Calm(x)
          /\ \E e \in Event : Commit(e) /\ ~(e.type = "TEXT" /\ e.who = x)
      BY <2>1, <2>3, CommitTextElsewhere
    <3> QED BY <3>1, CalmQueued, AscendingKept
  <2> QED BY <2>2, <2>3
<1>2. CASE \A m \in Member : ~CommitText(m)
  <2>1. \/ log' = log
        \/ \E e \in Event : Commit(e) /\ ~(e.type = "TEXT" /\ e.who = x)
    BY <1>2, Growing, GroupLogAssumption
  <2>2. Ascending(x)'
    BY <2>1, AscendingKept
  <2>3. CASE Calm(x)
    BY <2>1, <2>2, <2>3, CalmQueued
  <2>4. CASE OwnerText \/ UNCHANGED vars
    <3>1. UNCHANGED <<guestVars, up, broken>>
      BY <2>4 DEF OwnerText, vars, netVars
    <3> QED BY <2>3, <3>1, HeldCalm DEF guestVars
  <2>5. ASSUME NEW m \in Member, HostAction(m)
        PROVE  Queued(x)'
    BY <1>2, <2>3, <2>5, HostCalm
  <2>6. ASSUME NEW m \in Member, GuestAction(m)
        PROVE  Queued(x)'
    <3>1. CASE m # x
      BY <2>3, <2>6, <3>1, ElsewhereCalm
    <3>2. CASE m = x /\ ~Writes(x)
      BY <2>3, <2>6, <3>2, GuestCalm
    <3>3. CASE m = x /\ Writes(x)
      BY <3>3, SubmitTextQueued, JoinedQueued, ResumeAcceptedQueued, ResubmitQueued,
         RecoveredQueued DEF Writes
    <3> QED BY <3>1, <3>2, <3>3
  <2>7. ASSUME NEW m \in Member, NEW s \in Stream, Break(m, s) \/ Drop(m, s)
        PROVE  Queued(x)'
    <3>1. up \in [Member -> [Stream -> Seq(GuestFrame)]] /\ broken \in [Member -> SUBSET Stream]
      BY DEF TypeOK, NetTypeOK
    <3>2. /\ guestVars' = guestVars /\ broken[x] \subseteq broken'[x]
          /\ \A t \in Stream : up'[x][t] = up[x][t] \/ (up'[x][t] = <<>> /\ t \in broken'[x])
      <4>1. CASE Break(m, s)
        BY <3>1, <4>1 DEF Break
      <4>2. CASE Drop(m, s)
        <5>1. /\ guestVars' = guestVars /\ broken' = broken /\ s \in broken[m]
              /\ up' = up \/ up' = [up EXCEPT ![m][s] = <<>>]
          BY <4>2 DEF Drop
        <5>2. CASE m = x
          BY <3>1, <5>1, <5>2
        <5>3. CASE m # x
          BY <3>1, <5>1, <5>3
        <5> QED BY <5>2, <5>3
      <4> QED BY <2>7, <4>1, <4>2
    <3> QED BY <2>3, <3>2, HeldCalm DEF guestVars
  <2> QED BY <2>2, <2>4, <2>5, <2>6, <2>7 DEF Next
<1> QED BY <1>1, <1>2

LEMMA NextOrder == OrderInv /\ NoDuplicateCommit' /\ [Next]_vars => OrderInv'
<1> SUFFICES ASSUME OrderInv, NoDuplicateCommit', [Next]_vars
             PROVE  OrderInv'
  OBVIOUS
<1> USE DEF OrderInv
<1>1. RoomInv' /\ \A m \in Member : Confirmed(m)'
  BY NextRoom, ConfirmedKept
<1>2. toggles \in Nat /\ paused \in BOOLEAN
  BY DEF RoomInv, TextInv, DeliveryInv, TypeOK, HostTypeOK
<1>3. CASE SetRoomPaused
  <2>1. log' = log /\ toggles' = toggles + 1 /\ paused' = ~paused
    BY <1>3 DEF SetRoomPaused
  <2>2. \A m \in Member : Ascending(m) => Ascending(m)'
    BY <2>1 DEF Ascending, By
  <2>3. toggles' # 0 /\ (toggles' < 2 => toggles = 0 /\ toggles' = 1)
    BY <1>2, <2>1
  <2>4. toggles' < 2 => (paused' <=> toggles' = 1)
    <3> SUFFICES ASSUME toggles' < 2 PROVE paused' /\ toggles' = 1
      OBVIOUS
    <3>1. toggles = 0 /\ toggles' = 1
      BY <2>3
    <3>2. ~paused
      BY <3>1
    <3>3. paused'
      BY <2>1, <3>2, Zenon
    <3> QED BY <3>1, <3>3
  <2> QED BY <1>1, <2>2, <2>3, <2>4
<1>4. CASE ~SetRoomPaused
  <2>1. toggles' = toggles /\ paused' = paused
    BY <1>4, OnlyPausing
  <2>2. CASE toggles = 0
    <3>1. ~paused
      BY <2>2
    <3>2. \A m \in Member : Queued(m)' /\ Ascending(m)'
      BY <1>4, <2>2, <3>1, NextQueued
    <3> QED BY <1>1, <2>1, <3>2
  <2>3. CASE toggles = 1
    <3>1. \A m \in Member : ~CommitText(m)
      BY <2>3 DEF CommitText
    <3>2. ASSUME NEW m \in Member PROVE Ascending(m)'
      <4>1. \/ log' = log
            \/ \E e \in Event : Commit(e) /\ ~(e.type = "TEXT" /\ e.who = m)
        BY <3>1, Growing, GroupLogAssumption DEF RoomInv, TextInv, DeliveryInv
      <4> QED BY <2>3, <4>1, AscendingKept DEF RoomInv, TextInv, DeliveryInv
    <3> QED BY <1>1, <2>1, <2>3, <3>2
  <2>4. CASE toggles # 0 /\ toggles # 1
    BY <1>1, <1>2, <2>1, <2>4
  <2> QED BY <2>2, <2>3, <2>4
<1> QED BY <1>3, <1>4

LEMMA InitOrder == Init => OrderInv
<1> SUFFICES ASSUME Init PROVE OrderInv
  OBVIOUS
<1>1. RoomInv
  BY InitRoom
<1>2. \A m \in Member : Confirmed(m) /\ Ascending(m) /\ Queued(m)
  BY DEF Init, Confirmed, Ascending, Queued, Ahead, Carried, Lined, Owed
<1>3. toggles = 0 /\ paused = FALSE
  BY DEF Init
<1> QED BY <1>1, <1>2, <1>3 DEF OrderInv

\* A member that is shown a text as delivered is right: acceptEvent confirms a
\* pending text only by its event, which the log holds, also after resyncs,
\* resumptions and repeated submissions.
THEOREM ConfirmedIsCommitted == Spec => [](\A m \in Member : Confirmed(m))
<1> DEFINE AllConfirmed == \A m \in Member : Confirmed(m)
<1>1. Init => RoomInv /\ AllConfirmed
  BY InitOrder DEF OrderInv
<1>2. RoomInv /\ AllConfirmed /\ [Next]_vars => RoomInv' /\ AllConfirmed'
  BY NextRoom, ConfirmedKept
<1> HIDE DEF AllConfirmed
<1>3. Spec => []AllConfirmed
  BY <1>1, <1>2, PTL DEF Spec
<1> QED BY <1>3 DEF AllConfirmed

\* As long as no text is committed twice, a member's texts enter the log in the
\* order of their sendText until the room is reopened after a pause, also when
\* resubmitPending has written some of them again on a new stream.
THEOREM TextsKeepTheirOrder == Spec /\ []NoDuplicateCommit => []SubmissionOrder
<1>1. Init => OrderInv
  BY InitOrder
<1>2. OrderInv /\ NoDuplicateCommit' /\ [Next]_vars => OrderInv'
  BY NextOrder
<1>3. OrderInv => SubmissionOrder
  BY DEF OrderInv, Ascending, By, SubmissionOrder
<1> QED BY <1>1, <1>2, <1>3, PTL DEF Spec

\* And none is, as long as the texts of one member fit into its deduper.
THEOREM TextsKeepTheirOrderInFull == MaxText <= DedupeMax => (Spec => []SubmissionOrder)
<1> SUFFICES ASSUME MaxText <= DedupeMax PROVE Spec => []SubmissionOrder
  OBVIOUS
<1>1. Spec => []NoDuplicateCommit
  BY CommittedOnce
<1> QED BY <1>1, TextsKeepTheirOrder, PTL

-----------------------------------------------------------------------------
(* The member lists that are sent, and those that are kept *)

Lists(f) == f.type \in {"JOIN_ACCEPT", "RESYNC_REQUIRED"}

\* The list in f, but for the one it is for, is the one of the log at its event.
Tells(f, m) ==
    Lists(f) => \A x \in Member \ {m} : f.roster[x] = RosterAfter[f.seq][x]

\* What m keeps is the list at the last event it applied.
Informed(m) ==
    phase[m] \in {"member", "recovering", "waiting", "resubmitting"} =>
        \A x \in Member \ {m} : roster[m][x] = RosterAfter[lastSeq[m]][x]

RosterInv ==
    /\ RoomInv
    /\ \A x \in Member : Listed(x) = RosterAfter[Len(log)][x]
    /\ \A m \in Member, s \in Stream : \A i \in 1..Len(down[m][s]) : Tells(down[m][s][i], m)
    /\ \A m \in Member : Informed(m)

\* The list at an event that is in the log stays what it is.
LEMMA RosterStays ==
    ASSUME TypeOK, log' = log \/ \E e \in Event : Commit(e), NEW n \in 0..Len(log)
    PROVE  RosterAfter'[n] = RosterAfter[n]
<1>1. log \in Seq(Event) /\ RosterAfter = RosterOf(log) /\ RosterAfter' = RosterOf(log')
  BY RosterOfLog, RosterOfNext DEF TypeOK, HostTypeOK
<1>2. CASE log' = log
  BY <1>1, <1>2
<1>3. ASSUME NEW e \in Event, Commit(e)
      PROVE  RosterAfter'[n] = RosterAfter[n]
  BY <1>1, <1>3, RosterOfAppend DEF Commit
<1> QED BY <1>2, <1>3

LEMMA RosterNext ==
    ASSUME TypeOK, NEW e \in Event, Commit(e)
    PROVE  RosterAfter'[Len(log')] = Apply(RosterAfter[Len(log)], e)
<1>1. log \in Seq(Event) /\ RosterAfter = RosterOf(log) /\ RosterAfter' = RosterOf(log')
  BY RosterOfLog, RosterOfNext DEF TypeOK, HostTypeOK
<1>2. log' = Append(log, e) /\ Len(log') = Len(log) + 1
  BY <1>1 DEF Commit
<1> QED BY <1>1, <1>2, RosterOfAppend

\* The host's books follow the log.
LEMMA BooksKept ==
    ASSUME RosterInv, [Next]_vars, NEW x \in Member
    PROVE  Listed(x)' = RosterAfter'[Len(log')][x]
<1> USE DEF RosterInv, RoomInv, TextInv, DeliveryInv
<1>1. CASE Quietly
  <2>1. Listed(x)' = Listed(x)
    BY <1>1 DEF Quietly, Listed
  <2>2. RosterAfter'[Len(log)] = RosterAfter[Len(log)] /\ log' = log
    <3>1. Len(log) \in 0..Len(log) /\ log' = log
      BY <1>1, MemberTypes DEF Quietly
    <3> QED BY <3>1, RosterStays
  <2> QED BY <2>1, <2>2
<1>2. ASSUME NEW e \in Event, Announces(e)
      PROVE  Listed(x)' = RosterAfter'[Len(log')][x]
  <2>1. RosterAfter'[Len(log')] = Apply(RosterAfter[Len(log)], e)
    BY <1>2, RosterNext DEF Announces
  <2>2. RosterAfter[Len(log)] \in Roster
    BY RosterOfLog, RosterOfType, MemberTypes
  <2>3. RosterAfter'[Len(log')][x] = IF e.type # "TEXT" /\ e.who = x THEN Shown(e.type)
                                     ELSE Listed(x)
    BY <2>1, <2>2, ApplyAt
  <2>4. CASE e.type # "TEXT" /\ e.who = x
    <3>1. e.type \in {"MEMBER_JOINED", "MEMBER_LEFT", "MEMBER_RECONNECTING", "MEMBER_ONLINE"}
      BY <2>4 DEF Event
    <3>2. Listed(x)' = Shown(e.type)
      BY <1>2, <2>4, <3>1 DEF Announces, Listed, Shown
    <3> QED BY <2>3, <2>4, <3>2
  <2>5. CASE ~(e.type # "TEXT" /\ e.who = x)
    <3>1. status'[x] = status[x]
      BY <1>2, <2>5 DEF Announces
    <3> QED BY <2>3, <2>5, <3>1 DEF Listed
  <2> QED BY <2>4, <2>5
<1> QED BY <1>1, <1>2, EveryStep

\* Every list in r was in q.
Passes(r, q) ==
    \A i \in 1..Len(r) : Lists(r[i]) => \E j \in 1..Len(q) : r[i] = q[j]

AllPass == \A x \in Member, s \in Stream : Passes(down'[x][s], down[x][s])

LEMMA PassesOn ==
    ASSUME NEW q \in Seq(HostFrame)
    PROVE  /\ Passes(q, q) /\ Passes(<<>>, q)
           /\ q # <<>> => Passes(Tail(q), q)
           /\ \A f \in HostFrame : ~Lists(f) => Passes(Append(q, f), q)
<1>1. Passes(q, q) /\ Passes(<<>>, q)
  BY DEF Passes
<1>2. ASSUME q # <<>> PROVE Passes(Tail(q), q)
  <2>1. \A i \in 1..Len(Tail(q)) : i + 1 \in 1..Len(q) /\ Tail(q)[i] = q[i + 1]
    BY <1>2
  <2> QED BY <2>1 DEF Passes
<1>3. ASSUME NEW f \in HostFrame, ~Lists(f) PROVE Passes(Append(q, f), q)
  <2>1. \A i \in 1..Len(Append(q, f)) :
          (i \in 1..Len(q) /\ Append(q, f)[i] = q[i]) \/ Append(q, f)[i] = f
    OBVIOUS
  <2> QED BY <1>3, <2>1 DEF Passes
<1> QED BY <1>1, <1>2, <1>3

LEMMA PassesOver ==
    ASSUME NEW p, NEW q, NEW r, Passes(r, q), Passes(q, p)
    PROVE  Passes(r, p)
<1> SUFFICES ASSUME NEW i \in 1..Len(r), Lists(r[i]) PROVE \E k \in 1..Len(p) : r[i] = p[k]
  BY DEF Passes
<1>1. PICK j \in 1..Len(q) : r[i] = q[j]
  BY DEF Passes
<1>2. PICK k \in 1..Len(p) : q[j] = p[k]
  BY <1>1 DEF Passes
<1> QED BY <1>1, <1>2

LEMMA PushPasses ==
    ASSUME NEW q \in [Member -> [Stream -> Seq(HostFrame)]], NEW m \in Member,
           NEW k \in Stream \cup {0}, NEW f \in HostFrame, ~Lists(f),
           NEW x \in Member, NEW s \in Stream
    PROVE  Passes(Push(q, m, k, f)[x][s], q[x][s])
<1>1. q[x][s] \in Seq(HostFrame)
  OBVIOUS
<1>2. Push(q, m, k, f)[x][s] \in {q[x][s], Append(q[x][s], f)}
  BY DEF Push
<1> QED BY <1>1, <1>2, PassesOn

LEMMA RelayPasses ==
    ASSUME TypeOK, NEW f \in HostFrame, ~Lists(f), NEW st, NEW cn,
           NEW x \in Member, NEW s \in Stream
    PROVE  Passes(Relay(f, st, cn)[x][s], down[x][s])
<1>1. down[x][s] \in Seq(HostFrame)
  BY DEF TypeOK, NetTypeOK
<1>2. Relay(f, st, cn)[x][s] \in {down[x][s], Append(down[x][s], f)}
  BY DEF Relay
<1> QED BY <1>1, <1>2, PassesOn

LEMMA RelayedPasses ==
    ASSUME TypeOK, NEW st, NEW cn
    PROVE  /\ Relayed(st, cn) \in [Member -> [Stream -> Seq(HostFrame)]]
           /\ \A x \in Member, s \in Stream : Passes(Relayed(st, cn)[x][s], down[x][s])
<1>1. PICK f \in HostFrame : f = RoomEvent(Len(log) + 1) /\ ~Lists(f)
  BY NewestEvent DEF Lists
<1> QED BY <1>1, RelayedType, RelayPasses DEF Relayed

LEMMA PushedOnRelayed ==
    ASSUME TypeOK, NEW st, NEW cn, NEW m \in Member, NEW k \in Stream \cup {0},
           NEW f \in HostFrame, ~Lists(f), down' = Push(Relayed(st, cn), m, k, f)
    PROVE  AllPass
<1>1. PICK q \in [Member -> [Stream -> Seq(HostFrame)]] :
        q = Relayed(st, cn) /\ \A x \in Member, s \in Stream : Passes(q[x][s], down[x][s])
  BY RelayedPasses
<1>2. \A x \in Member, s \in Stream : Passes(down'[x][s], q[x][s])
  BY <1>1, PushPasses
<1> QED BY <1>1, <1>2, PassesOver DEF AllPass

LEMMA PushedAlone ==
    ASSUME TypeOK, NEW m \in Member, NEW k \in Stream \cup {0},
           NEW f \in HostFrame, ~Lists(f), down' = Push(down, m, k, f)
    PROVE  AllPass
BY PushPasses DEF AllPass, TypeOK, NetTypeOK

\* What a step of the host writes, when it writes no list.
LEMMA HostPasses ==
    ASSUME DeliveryInv, NEW m \in Member, HostAction(m), ~ApproveJoin(m), ~ReplayResync(m)
    PROVE  AllPass
<1> USE DEF DeliveryInv
<1>1. CASE CommitAdmission(m) \/ LoseMember(m) \/ ActivateResume(m) \/ CommitText(m)
  <2>1. \E st, cn : down' = Relayed(st, cn)
    BY <1>1 DEF CommitAdmission, LoseMember, ActivateResume, CommitText
  <2> QED BY <2>1, RelayedPasses DEF AllPass
<1>2. CASE DropPending(m) \/ AbandonResume(m)
  <2>1. down' = down
    BY <1>2 DEF DropPending, AbandonResume
  <2> QED BY <2>1, PassesOn DEF AllPass, TypeOK, NetTypeOK
<1>3. CASE RemoveMember(m) \/ GraceTimeout(m) \/ HearLeave(m)
  <2>1. PICK notify : Remove(m, notify)
    BY <1>3 DEF RemoveMember, GraceTimeout, HearLeave
  <2>2. PICK f : f = [type |-> "REMOVED"]
    OBVIOUS
  <2>3. f \in HostFrame /\ ~Lists(f)
    BY <2>2 DEF HostFrame, Lists
  <2>4. \E st, cn : \/ down' = Relayed(st, cn)
                    \/ down' = Push(Relayed(st, cn), m, conn[m], f)
    BY <2>1, <2>2 DEF Remove
  <2>5. conn[m] \in Stream \cup {0}
    BY MemberTypes
  <2> QED BY <2>3, <2>4, <2>5, RelayedPasses, PushedOnRelayed DEF AllPass
<1>4. ASSUME NEW s \in Stream, RejectResume(m, s) PROVE AllPass
  <2>1. PICK f : f = [type |-> "RESUME_REJECT"]
    OBVIOUS
  <2>2. f \in HostFrame /\ ~Lists(f) /\ down' = Push(down, m, s, f)
    BY <1>4, <2>1 DEF HostFrame, Lists, RejectResume
  <2> QED BY <2>2, PushedAlone
<1>5. ASSUME NEW s \in Stream, AcceptResume(m, s) PROVE AllPass
  <2>1. \E n \in Nat : \E f :
          /\ f = [type |-> "RESUME_ACCEPT", currentSeq |-> n, paused |-> paused]
          /\ \/ down' = Push(down, m, s, f)
             \/ \E st, cn : down' = Push(Relayed(st, cn), m, s, f)
    <3>1. Len(log) \in Nat /\ Len(log) + 1 \in Nat
      BY MemberTypes
    <3> QED BY <1>5, <3>1 DEF AcceptResume
  <2>2. PICK f : /\ \E n \in Nat : f = [type |-> "RESUME_ACCEPT", currentSeq |-> n, paused |-> paused]
                 /\ \/ down' = Push(down, m, s, f)
                    \/ \E st, cn : down' = Push(Relayed(st, cn), m, s, f)
    BY <2>1
  <2>3. paused \in BOOLEAN
    BY DEF TypeOK, HostTypeOK
  <2>4. f \in HostFrame /\ ~Lists(f)
    BY <2>2, <2>3 DEF HostFrame, Lists
  <2> QED BY <2>2, <2>4, PushedAlone, PushedOnRelayed
<1>6. CASE ReplayEvent(m)
  <2>1. PICK f : f = RoomEvent(resume[m].cursor + 1)
    OBVIOUS
  <2>2. f \in HostFrame /\ ~Lists(f) /\ down' = Push(down, m, resume[m].stream, f)
    BY <1>6, <2>1, MemberTypes DEF RoomEvent, HostFrame, Lists, ReplayEvent
  <2>3. resume[m].stream \in Stream \cup {0}
    BY MemberTypes
  <2> QED BY <2>2, <2>3, PushedAlone
<1>7. CASE RejectPausedText(m) \/ AnswerDuplicate(m)
  <2>1. Hears(m, "TEXT_SUBMIT") /\ conn[m] \in Stream \cup {0}
    BY <1>7, MemberTypes DEF RejectPausedText, AnswerDuplicate
  <2>2. PICK k \in Text : k = Head(up[m][conn[m]]).id
    BY <2>1, Heard
  <2>3. Rejection(k) \in HostFrame /\ ~Lists(Rejection(k))
    BY DEF Rejection, HostFrame, Lists
  <2>4. ASSUME NEW e \in Prior(m, k)
        PROVE  Again(k, e) \in HostFrame /\ ~Lists(Again(k, e))
    <3>1. e.seq \in Nat
      BY DEF Prior, TypeOK, HostTypeOK
    <3>2. RoomEvent(e.seq) \in HostFrame /\ ~Lists(RoomEvent(e.seq))
      BY <3>1 DEF RoomEvent, HostFrame, Lists
    <3> QED BY <2>3, <3>2 DEF Again
  <2>5. \E f \in HostFrame : ~Lists(f) /\ down' = Push(down, m, conn[m], f)
    BY <1>7, <2>2, <2>3, <2>4 DEF RejectPausedText, AnswerDuplicate
  <2> QED BY <2>1, <2>5, PushedAlone
<1> QED BY <1>1, <1>2, <1>3, <1>4, <1>5, <1>6, <1>7 DEF HostAction

\* A member reads lists and loses them.
LEMMA GuestPasses ==
    ASSUME DeliveryInv, NEW m \in Member, GuestAction(m)
    PROVE  AllPass
<1> USE DEF DeliveryInv
<1>1. \A x \in Member, s \in Stream : down[x][s] \in Seq(HostFrame)
  BY DEF TypeOK, NetTypeOK
<1>2. down \in [Member -> [Stream -> Seq(HostFrame)]]
  BY DEF TypeOK, NetTypeOK
<1>3. CASE \A x \in Member, s \in Stream :
             \/ down'[x][s] \in {down[x][s], <<>>}
             \/ down[x][s] # <<>> /\ down'[x][s] = Tail(down[x][s])
  BY <1>1, <1>3, PassesOn DEF AllPass
<1>4. CASE down' = down
  BY <1>3, <1>4
<1>5. ASSUME NEW g, down' = [down EXCEPT ![m][g] = <<>>]
      PROVE  AllPass
  BY <1>2, <1>3, <1>5
<1>6. ASSUME NEW g, down[m][g] # <<>>, down' = [down EXCEPT ![m][g] = Tail(down[m][g])]
      PROVE  AllPass
  BY <1>2, <1>3, <1>6
<1>7. CASE Quit(m)
  <2>1. down' = [down EXCEPT ![m] = [s \in Stream |-> <<>>]]
    BY <1>7 DEF Quit
  <2>2. \A x \in Member, s \in Stream : down'[x][s] \in {down[x][s], <<>>}
    BY <1>2, <2>1
  <2> QED BY <1>3, <2>2
<1>8. CASE Joined(m) \/ ReadEvent(m) \/ ReadResync(m) \/ ReadRejection(m) \/ ReadPause(m)
  <2>1. down[m][gconn[m]] # <<>> /\ Advance(m)
    BY <1>8 DEF Joined, ReadEvent, ReadResync, ReadRejection, ReadPause, Reads
  <2> QED BY <1>6, <2>1 DEF Advance
<1>9. CASE Recovered(m)
  BY <1>6, <1>9 DEF Recovered, Answered
<1>10. CASE ReadUnusableEvent(m) \/ DialAgain(m) \/ ResumeFailed(m)
  BY <1>5, <1>10 DEF ReadUnusableEvent, DialAgain, ResumeFailed
<1>11. CASE ReadRemoved(m) \/ Leave(m) \/ FailJoin(m) \/ RecoveryTimeout(m)
  BY <1>7, <1>11 DEF ReadRemoved, Leave, FailJoin, RecoveryTimeout
<1>12. CASE SubmitText(m) \/ BeginRecovery(m) \/ ResumeAccepted(m) \/ Resubmit(m)
  BY <1>4, <1>12 DEF SubmitText, BeginRecovery, ResumeAccepted, Resubmit, netVars
<1> QED BY <1>8, <1>9, <1>10, <1>11, <1>12 DEF GuestAction

\* A list that is new on a stream is the host's, as it is.
Issued(f, m) ==
    /\ log' = log
    /\ f.seq = Len(log)
    /\ \A x \in Member \ {m} : f.roster[x] = Listed(x)

LEMMA PushedList ==
    ASSUME TypeOK, NEW m \in Member, NEW k \in Stream \cup {0}, NEW f \in HostFrame,
           down' = Push(down, m, k, f), Issued(f, m),
           NEW x \in Member, NEW s \in Stream, NEW i \in 1..Len(down'[x][s])
    PROVE  \/ \E j \in 1..Len(down[x][s]) : down'[x][s][i] = down[x][s][j]
           \/ Issued(down'[x][s][i], x)
<1>1. down[x][s] \in Seq(HostFrame) /\ down \in [Member -> [Stream -> Seq(HostFrame)]]
  BY DEF TypeOK, NetTypeOK
<1>2. CASE down'[x][s] = down[x][s]
  BY <1>2
<1>3. CASE x = m /\ down'[x][s] = Append(down[x][s], f)
  BY <1>1, <1>3
<1> QED BY <1>1, <1>2, <1>3 DEF Push

LEMMA ListsSent ==
    ASSUME DeliveryInv, [Next]_vars, NEW x \in Member, NEW s \in Stream,
           NEW i \in 1..Len(down'[x][s]), Lists(down'[x][s][i])
    PROVE  \/ \E j \in 1..Len(down[x][s]) : down'[x][s][i] = down[x][s][j]
           \/ Issued(down'[x][s][i], x)
<1> USE DEF DeliveryInv
<1>1. CASE AllPass
  BY <1>1 DEF AllPass, Passes
<1>2. CASE OwnerText
  <2>1. \E st, cn : down' = Relayed(st, cn)
    BY <1>2 DEF OwnerText
  <2>2. AllPass
    BY <2>1, RelayedPasses DEF AllPass
  <2> QED BY <1>1, <2>2
<1>3. CASE SetRoomPaused
  <2>1. PICK f : f = [type |-> "ROOM_PAUSE", paused |-> paused']
    OBVIOUS
  <2>2. ~Lists(f) /\ down' = Relay(f, status, conn)
    BY <1>3, <2>1 DEF SetRoomPaused, Lists
  <2>3. f \in HostFrame
    <3>1. paused' \in BOOLEAN
      BY NextType DEF TypeOK, HostTypeOK
    <3> QED BY <2>1, <3>1 DEF HostFrame
  <2> QED BY <1>1, <2>2, <2>3, RelayPasses DEF AllPass
<1>4. ASSUME NEW m \in Member, ApproveJoin(m)
      PROVE  \/ \E j \in 1..Len(down[x][s]) : down'[x][s][i] = down[x][s][j]
             \/ Issued(down'[x][s][i], x)
  <2>1. PICK f : f = [type |-> "JOIN_ACCEPT", seq |-> Len(log),
                      roster |-> [HostRoster EXCEPT ![m] = "online"]]
    OBVIOUS
  <2>2. HostRoster \in Roster /\ [HostRoster EXCEPT ![m] = "online"] \in Roster
    BY RosterType DEF Roster, Presence
  <2>3. f \in HostFrame
    BY <2>1, <2>2, MemberTypes DEF HostFrame
  <2>4. Issued(f, m)
    BY <1>4, <2>1, <2>2 DEF Issued, ApproveJoin, HostRoster
  <2>5. down' = Push(down, m, 1, f)
    BY <1>4, <2>1 DEF ApproveJoin
  <2>6. 1 \in Stream \cup {0}
    BY StreamOne
  <2> QED BY <2>3, <2>4, <2>5, <2>6, PushedList
<1>5. ASSUME NEW m \in Member, ReplayResync(m)
      PROVE  \/ \E j \in 1..Len(down[x][s]) : down'[x][s][i] = down[x][s][j]
             \/ Issued(down'[x][s][i], x)
  <2>1. PICK f : f = [type |-> "RESYNC_REQUIRED", seq |-> Len(log), roster |-> HostRoster]
    OBVIOUS
  <2>2. f \in HostFrame
    BY <2>1, RosterType, MemberTypes DEF HostFrame
  <2>3. Issued(f, m)
    BY <1>5, <2>1 DEF Issued, ReplayResync, HostRoster
  <2>4. down' = Push(down, m, resume[m].stream, f) /\ resume[m].stream \in Stream \cup {0}
    BY <1>5, <2>1, MemberTypes DEF ReplayResync
  <2> QED BY <2>2, <2>3, <2>4, PushedList
<1>6. ASSUME NEW m \in Member, HostAction(m), ~ApproveJoin(m), ~ReplayResync(m)
      PROVE  AllPass
  BY <1>6, HostPasses
<1>7. ASSUME NEW m \in Member, GuestAction(m)
      PROVE  AllPass
  BY <1>7, GuestPasses
<1>8. ASSUME NEW m \in Member, NEW t \in Stream, Break(m, t) \/ Drop(m, t)
      PROVE  AllPass
  <2>1. down' = down \/ down' = [down EXCEPT ![m][t] = <<>>]
    BY <1>8 DEF Break, Drop
  <2>2. \A y \in Member, u \in Stream : down'[y][u] \in {down[y][u], <<>>}
    <3>1. down \in [Member -> [Stream -> Seq(HostFrame)]]
      BY DEF TypeOK, NetTypeOK
    <3> QED BY <2>1, <3>1
  <2> QED BY <2>2, PassesOn DEF AllPass, TypeOK, NetTypeOK
<1>9. CASE UNCHANGED vars
  BY <1>9 DEF vars, netVars
<1> QED BY <1>1, <1>2, <1>3, <1>4, <1>5, <1>6, <1>7, <1>8, <1>9 DEF Next

-----------------------------------------------------------------------------
(* The invariant *)

LEMMA Growth ==
    ASSUME RoomInv, [Next]_vars
    PROVE  /\ log' = log \/ \E e \in Event : Commit(e)
           /\ Len(log) \in Nat
           /\ \A n \in 0..Len(log) : RosterAfter'[n] = RosterAfter[n]
<1> USE DEF RoomInv, TextInv, DeliveryInv
<1>1. log' = log \/ \E e \in Event : Commit(e)
  BY EveryStep DEF Quietly, Announces
<1> QED BY <1>1, RosterStays, MemberTypes, Growing DEF TypeOK, HostTypeOK

LEMMA TellsKept ==
    ASSUME RosterInv, [Next]_vars, NEW m \in Member, NEW s \in Stream,
           NEW i \in 1..Len(down'[m][s])
    PROVE  Tells(down[m][s][i], m)'
<1> USE DEF RosterInv, RoomInv, TextInv, DeliveryInv
<1>1. PICK f : f = down'[m][s][i]
  OBVIOUS
<1>2. SUFFICES ASSUME Lists(f), NEW x \in Member \ {m}
               PROVE  f.roster[x] = RosterAfter'[f.seq][x]
  BY <1>1 DEF Tells, Lists
<1>3. ASSUME NEW j \in 1..Len(down[m][s]), f = down[m][s][j]
      PROVE  f.roster[x] = RosterAfter'[f.seq][x]
  <2>1. Tells(f, m)
    BY <1>3
  <2>2. f.seq \in 0..Len(log)
    <3>1. Capped(down[m][s], Len(log)) /\ down[m][s] \in Seq(HostFrame)
      BY MemberTypes DEF Flow, Order
    <3>2. f \in HostFrame /\ Carries(f)
      BY <1>2, <1>3, <3>1 DEF Lists, Carries
    <3>3. f.seq \in Nat /\ f.seq <= Len(log)
      BY <1>3, <3>1, <3>2, NumberedType DEF Capped
    <3> QED BY <3>3, MemberTypes
  <2> QED BY <1>2, <2>1, <2>2, Growth DEF Tells
<1>4. CASE Issued(f, m)
  <2>1. f.roster[x] = Listed(x) /\ f.seq = Len(log)
    BY <1>2, <1>4 DEF Issued
  <2>2. Len(log) \in 0..Len(log)
    BY Growth
  <2>3. RosterAfter'[Len(log)] = RosterAfter[Len(log)]
    BY <2>2, Growth
  <2> QED BY <2>1, <2>3
<1> QED BY <1>1, <1>2, <1>3, <1>4, ListsSent

\* A list that m takes over.
LEMMA TakenOver ==
    ASSUME RosterInv, [Next]_vars, NEW m \in Member, Joined(m) \/ ReadResync(m)
    PROVE  \A x \in Member \ {m} : roster'[m][x] = RosterAfter'[lastSeq'[m]][x]
<1> USE DEF RosterInv, RoomInv, TextInv, DeliveryInv
<1>1. PICK f : f = Received(m)
  OBVIOUS
<1>2. roster'[m] = f.roster /\ lastSeq'[m] = f.seq
  BY <1>1 DEF Joined, ReadResync, TypeOK, GuestTypeOK
<1>3. /\ gconn[m] \in Stream /\ down[m][gconn[m]] # <<>> /\ f = Head(down[m][gconn[m]])
      /\ Lists(f) /\ f.seq \in Nat /\ f.seq <= Len(log)
  BY <1>1, ReadFrame DEF Joined, ReadResync, Lists, Carries
<1>4. 1 \in 1..Len(down[m][gconn[m]]) /\ f = down[m][gconn[m]][1]
  <2>1. PICK q \in Seq(HostFrame) : q = down[m][gconn[m]]
    BY <1>3, MemberTypes
  <2> QED BY <1>3, <2>1
<1>5. Tells(f, m)
  BY <1>3, <1>4
<1>6. f.seq \in 0..Len(log)
  BY <1>3, Growth
<1> QED BY <1>2, <1>3, <1>5, <1>6, Growth DEF Tells

\* An event that m applies.
LEMMA Applied ==
    ASSUME RosterInv, [Next]_vars, NEW m \in Member, ReadEvent(m)
    PROVE  Informed(m)'
<1> USE DEF RosterInv, RoomInv, TextInv, DeliveryInv
<1>1. PICK n : n = Received(m).seq
  OBVIOUS
<1>2. /\ n \in Nat /\ n <= Len(log) /\ lastSeq[m] \in Nat /\ lastSeq[m] <= Len(log)
      /\ Len(log) \in Nat /\ phase'[m] = phase[m]
  BY <1>1, ReadFrame, MemberTypes DEF ReadEvent, Carries, Flow, Order
<1>3. CASE UNCHANGED <<lastSeq, roster>>
  <2>1. lastSeq[m] \in 0..Len(log)
    BY <1>2
  <2>2. RosterAfter'[lastSeq'[m]] = RosterAfter[lastSeq[m]] /\ roster'[m] = roster[m]
    BY <1>3, <2>1, Growth
  <2> QED BY <1>2, <2>2 DEF Informed
<1>4. CASE /\ n = lastSeq[m] + 1
           /\ lastSeq' = [lastSeq EXCEPT ![m] = n]
           /\ roster' = [roster EXCEPT ![m] = Apply(@, log[n])]
  <2>1. n \in 1..Len(log) /\ n \in 0..Len(log) /\ n # 0 /\ n - 1 = lastSeq[m]
    BY <1>2, <1>4
  <2>2. lastSeq'[m] = n /\ roster'[m] = Apply(roster[m], log[n]) /\ roster[m] \in Roster
    BY <1>4 DEF TypeOK, GuestTypeOK
  <2>3. log[n] \in Event
    BY <2>1 DEF TypeOK, HostTypeOK
  <2>4. RosterAfter[n] = Apply(RosterAfter[lastSeq[m]], log[n])
    <3>1. PICK R : R = RosterOf(log)
      OBVIOUS
    <3>2. R = [k \in Nat |-> IF k = 0 THEN [x \in Member |-> "absent"]
                             ELSE Apply(R[k - 1], log[k])]
      BY <3>1, RosterRecursion
    <3>3. R[n] = Apply(R[n - 1], log[n])
      BY <1>2, <2>1, <3>2
    <3> QED BY <2>1, <3>1, <3>3, RosterOfLog
  <2>5. RosterAfter[lastSeq[m]] \in Roster
    BY <1>2, RosterOfLog, RosterOfType
  <2>6. RosterAfter'[n] = RosterAfter[n]
    BY <2>1, Growth
  <2>7. phase[m] \in {"member", "recovering"}
    BY DEF ReadEvent, Reads
  <2>8. ASSUME NEW x \in Member \ {m}
        PROVE  roster'[m][x] = RosterAfter'[lastSeq'[m]][x]
    <3>1. roster[m][x] = RosterAfter[lastSeq[m]][x]
      BY <2>7 DEF Informed
    <3>2. Apply(roster[m], log[n])[x] = Apply(RosterAfter[lastSeq[m]], log[n])[x]
      BY <2>2, <2>3, <2>5, <3>1, ApplyAt
    <3> QED BY <2>2, <2>4, <2>6, <3>2
  <2> QED BY <2>8 DEF Informed
<1> QED BY <1>1, <1>3, <1>4 DEF ReadEvent

\* Who neither reads a list nor applies an event keeps its list and its place.
LEMMA Uninformed ==
    ASSUME TypeOK, [Next]_vars, NEW m \in Member,
           ~Joined(m), ~ReadEvent(m), ~ReadResync(m)
    PROVE  /\ roster'[m] = roster[m] /\ lastSeq'[m] = lastSeq[m]
           /\ phase'[m] \in {"member", "recovering", "waiting", "resubmitting"} =>
                phase[m] \in {"member", "recovering", "waiting", "resubmitting"}
<1>1. /\ roster \in [Member -> Roster] /\ lastSeq \in [Member -> Nat]
      /\ phase \in [Member -> {"out", "joining", "member", "recovering", "waiting",
                               "resubmitting", "closed"}]
  BY DEF TypeOK, GuestTypeOK
<1>2. ASSUME NEW x \in Member, HostAction(x)
      PROVE  /\ roster' = roster /\ lastSeq' = lastSeq
             /\ phase' = phase \/ phase' = [phase EXCEPT ![x] = "joining"]
  BY <1>2 DEF HostAction, ApproveJoin, CommitAdmission, DropPending, LoseMember, RemoveMember,
       GraceTimeout, HearLeave, Remove, RejectResume, AcceptResume, ReplayEvent, ReplayResync,
       ActivateResume, AbandonResume, RejectPausedText, AnswerDuplicate, CommitText, guestVars
<1>3. CASE OwnerText \/ SetRoomPaused \/ UNCHANGED vars
           \/ \E x \in Member, s \in Stream : Break(x, s) \/ Drop(x, s)
  BY <1>3 DEF OwnerText, SetRoomPaused, Break, Drop, guestVars, vars
<1>4. ASSUME NEW x \in Member, Joined(x) \/ ReadEvent(x) \/ ReadResync(x)
      PROVE  roster'[m] = roster[m] /\ lastSeq'[m] = lastSeq[m] /\ phase'[m] = phase[m]
  <2>1. x # m
    BY <1>4
  <2>2. /\ \A y \in Member \ {x} : roster'[y] = roster[y]
        /\ \A y \in Member \ {x} : lastSeq'[y] = lastSeq[y]
        /\ \A y \in Member \ {x} : phase'[y] = phase[y]
    <3>1. CASE Joined(x)
      BY <1>1, <3>1 DEF Joined
    <3>2. CASE ReadEvent(x)
      BY <1>1, <3>2 DEF ReadEvent
    <3>3. CASE ReadResync(x)
      BY <1>1, <3>3 DEF ReadResync
    <3> QED BY <1>4, <3>1, <3>2, <3>3
  <2> QED BY <2>1, <2>2
<1>5. ASSUME NEW x \in Member, GuestAction(x), ~Joined(x), ~ReadEvent(x), ~ReadResync(x)
      PROVE  /\ roster' = roster /\ lastSeq' = lastSeq
             /\ \/ phase' = phase
                \/ phase' = [phase EXCEPT ![x] = "closed"]
                \/ /\ phase[x] \in {"member", "recovering", "waiting", "resubmitting"}
                   /\ \E p : phase' = [phase EXCEPT ![x] = p]
  <2>1. CASE ReadUnusableEvent(x)
    BY <1>1, <2>1 DEF ReadUnusableEvent
  <2>2. CASE ReadRejection(x) \/ ReadPause(x) \/ SubmitText(x) \/ Resubmit(x)
    BY <2>2 DEF ReadRejection, ReadPause, SubmitText, Resubmit
  <2>3. CASE ReadRemoved(x) \/ Leave(x) \/ FailJoin(x) \/ RecoveryTimeout(x)
    BY <2>3 DEF ReadRemoved, Leave, FailJoin, RecoveryTimeout, Quit
  <2>4. CASE BeginRecovery(x) \/ DialAgain(x) \/ ResumeAccepted(x) \/ Recovered(x)
    BY <2>4 DEF BeginRecovery, DialAgain, ResumeAccepted, Recovered
  <2>5. CASE ResumeFailed(x)
    BY <2>5 DEF ResumeFailed
  <2> QED BY <1>5, <2>1, <2>2, <2>3, <2>4, <2>5 DEF GuestAction
<1>6. ASSUME NEW x \in Member, GuestAction(x), ~Joined(x), ~ReadEvent(x), ~ReadResync(x)
      PROVE  /\ roster'[m] = roster[m] /\ lastSeq'[m] = lastSeq[m]
             /\ phase'[m] \in {"member", "recovering", "waiting", "resubmitting"} =>
                  phase[m] \in {"member", "recovering", "waiting", "resubmitting"}
  BY <1>1, <1>5, <1>6
<1> QED BY <1>1, <1>2, <1>3, <1>4, <1>6 DEF Next

LEMMA InformedKept ==
    ASSUME RosterInv, [Next]_vars, NEW m \in Member
    PROVE  Informed(m)'
<1> USE DEF RosterInv, RoomInv, TextInv, DeliveryInv
<1>1. CASE Joined(m) \/ ReadResync(m)
  BY <1>1, TakenOver DEF Informed
<1>2. CASE ReadEvent(m)
  BY <1>2, Applied
<1>3. CASE ~(Joined(m) \/ ReadEvent(m) \/ ReadResync(m))
  <2>1. lastSeq[m] \in 0..Len(log)
    BY Growth, MemberTypes DEF Flow, Order
  <2>2. RosterAfter'[lastSeq[m]] = RosterAfter[lastSeq[m]]
    BY <2>1, Growth
  <2> QED BY <1>3, <2>2, Uninformed DEF Informed
<1> QED BY <1>1, <1>2, <1>3

LEMMA InitRoster == Init => RosterInv
<1> SUFFICES ASSUME Init PROVE RosterInv
  OBVIOUS
<1>1. RoomInv
  BY InitRoom
<1>2. ASSUME NEW x \in Member PROVE Listed(x) = RosterAfter[Len(log)][x]
  <2>1. PICK R : R = RosterOf(log)
    OBVIOUS
  <2>2. R = [k \in Nat |-> IF k = 0 THEN [y \in Member |-> "absent"]
                           ELSE Apply(R[k - 1], log[k])]
    BY <2>1, RosterRecursion
  <2>3. R[0] = [y \in Member |-> "absent"] /\ Len(log) = 0 /\ status[x] = "out"
    BY <2>2 DEF Init
  <2> QED BY <2>1, <2>3, RosterOfLog DEF Listed
<1>3. \A m \in Member, s \in Stream : \A i \in 1..Len(down[m][s]) : Tells(down[m][s][i], m)
  BY DEF Init
<1>4. \A m \in Member : Informed(m)
  BY DEF Init, Informed
<1> QED BY <1>1, <1>2, <1>3, <1>4 DEF RosterInv

LEMMA NextRoster == RosterInv /\ [Next]_vars => RosterInv'
<1> SUFFICES ASSUME RosterInv, [Next]_vars PROVE RosterInv'
  OBVIOUS
<1>1. RoomInv'
  BY NextRoom DEF RosterInv
<1>2. \A x \in Member : Listed(x)' = RosterAfter'[Len(log')][x]
  BY BooksKept
<1>3. \A m \in Member, s \in Stream : \A i \in 1..Len(down'[m][s]) : Tells(down[m][s][i], m)'
  BY TellsKept
<1>4. \A m \in Member : Informed(m)'
  BY InformedKept
<1> QED BY <1>1, <1>2, <1>3, <1>4 DEF RosterInv

\* A member's list of the others is at all times the one the log gives at the
\* event it has got to: members() of JOIN_ACCEPT and RESYNC_REQUIRED agrees with
\* the events before it, and acceptEvent applies the ones that follow, whatever
\* was lost, replayed or skipped in between.
THEOREM RosterFollowsLog == Spec => []RosterAgrees
<1>1. Init => RosterInv
  BY InitRoster
<1>2. RosterInv /\ [Next]_vars => RosterInv'
  BY NextRoster
<1>3. RosterInv => RosterAgrees
  BY DEF RosterInv, Informed, RosterAgrees
<1> QED BY <1>1, <1>2, <1>3, PTL DEF Spec
=============================================================================
