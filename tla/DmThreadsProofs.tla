-------------------------- MODULE DmThreadsProofs --------------------------
(***************************************************************************)
(* Proofs about DmThreads, for any agents, threads, writers, hosts, clocks *)
(* and bounds.  The argument: the store-wide lock makes the counter of an  *)
(* open append pass the rows of its thread until it commits, and the first *)
(* column of both orders is that counter, so no clock decides anything.    *)
(* The last part is about the view state beside these tables.              *)
(***************************************************************************)
EXTENDS DmVisibility, FiniteSetTheorems, TLAPS

\* A set of rows has one with the highest counter, unless it is empty.
Topped(rows) == rows # {} => \E x \in rows : \A y \in rows : y.seq <= x.seq

Tops == /\ \A t \in Thread : Topped(In(t))
        /\ \A t \in Thread, a \in Agent : Topped(EventsOf(t, a))

\* Ids count the commits.
Counted ==
  /\ IsFiniteSet(messages)
  /\ \A m \in messages : m.id <= Cardinality(messages)
  /\ \A m, n \in messages : m.id = n.id => m = n

\* Within a thread the counters are in the order of the commits.
Ordered ==
  \A m, n \in messages : m.thread = n.thread => (m.seq < n.seq <=> m.id < n.id)

\* The counter of an open append is past the rows of its thread.
OpenIsPast ==
  \A w \in Writer : tx[w] # NoTx => \A m \in In(tx[w].thread) : m.seq < tx[w].seq

\* An open append has its group; a pair thread it brings along.
OpenExists ==
  \A w \in Writer : tx[w] # NoTx => tx[w].thread \in Pair \cup threads

\* A key has one message, and what was returned for it is that message.
Keyed ==
  /\ \A m, n \in messages :
       m.key # NoKey /\ m.sender = n.sender /\ m.key = n.key => m = n
  /\ \A p \in replies :
       \E m \in messages : m.sender = p[1] /\ m.key = p[2] /\ m.id = p[3]

IInv == TypeOK /\ Tops /\ Counted /\ Ordered /\ OpenIsPast /\ OpenExists /\ Keyed

-----------------------------------------------------------------------------
\* The orders.

\* Rows that differ in the first column are ordered by it, and no row
\* precedes itself.
LEMMA FirstColumn ==
  ASSUME NEW a \in Nat, NEW b \in Nat, NEW c \in Nat,
         NEW d \in Nat, NEW e \in Nat, NEW f \in Nat
  PROVE  /\ a # d => (Precedes(<<a, b, c>>, <<d, e, f>>) <=> a < d)
         /\ ~ Precedes(<<a, b, c>>, <<a, b, c>>)
<1> DEFINE k == <<a, b, c>>
           l == <<d, e, f>>
<1>1. /\ DOMAIN k = 1 .. 3 /\ k[1] = a /\ l[1] = d
      /\ \A i \in 1 .. 3 : k[i] \in Nat
  OBVIOUS
<1> HIDE DEF k, l
<1>2. a < d => Precedes(k, l)
  <2> SUFFICES ASSUME a < d PROVE Precedes(k, l)
    OBVIOUS
  <2>1. 1 \in DOMAIN k /\ k[1] < l[1] /\ \A j \in 1 .. 1 - 1 : k[j] = l[j]
    BY <1>1
  <2>2. QED
    BY <2>1 DEF Precedes
<1>3. a # d /\ Precedes(k, l) => a < d
  <2> SUFFICES ASSUME a # d, NEW i \in DOMAIN k, k[i] < l[i],
                      \A j \in 1 .. i - 1 : k[j] = l[j]
               PROVE  a < d
    BY DEF Precedes
  <2>1. i = 1
    BY <1>1
  <2>2. QED
    BY <1>1, <2>1
<1>4. ~ Precedes(k, k)
  BY <1>1 DEF Precedes
<1>5. QED
  BY <1>2, <1>3, <1>4 DEF k, l

\* The row that is counted past all others is the latest.
LEMMA CountedPastAllIsLatest ==
  ASSUME NEW rows, rows \subseteq MemberEvent, NEW n \in rows,
         \A e \in rows \ {n} : e.seq < n.seq
  PROVE  Latest(rows, FoldKey) = n
<1>1. \A e \in rows : e.ts \in Nat /\ e.seq \in Nat /\ e.host \in Nat
  BY DEF MemberEvent
<1>2. \A s \in rows : ~ Precedes(FoldKey(n), FoldKey(s))
  <2> SUFFICES ASSUME NEW s \in rows PROVE ~ Precedes(FoldKey(n), FoldKey(s))
    OBVIOUS
  <2>1. CASE s = n
    BY <1>1, <2>1, FirstColumn DEF FoldKey
  <2>2. CASE s # n
    <3>1. s.seq < n.seq /\ n.seq # s.seq /\ ~(n.seq < s.seq)
      BY <1>1, <2>2
    <3>2. QED
      BY <1>1, <3>1, FirstColumn DEF FoldKey
  <2>3. QED
    BY <2>1, <2>2
<1>3. \A r \in rows : (\A s \in rows : ~ Precedes(FoldKey(r), FoldKey(s))) => r = n
  <2> SUFFICES ASSUME NEW r \in rows, r # n PROVE Precedes(FoldKey(r), FoldKey(n))
    OBVIOUS
  <2>1. r.seq < n.seq /\ r.seq # n.seq
    BY <1>1
  <2>2. QED
    BY <1>1, <2>1, FirstColumn DEF FoldKey
<1>4. QED
  BY <1>2, <1>3 DEF Latest

LEMMA TopSeqIsTop ==
  ASSUME NEW rows, \A x \in rows : x.seq \in Nat, Topped(rows)
  PROVE  TopSeq(rows) \in Nat /\ \A x \in rows : x.seq <= TopSeq(rows)
<1>1. CASE rows = {}
  BY <1>1 DEF TopSeq
<1>2. CASE rows # {}
  <2> DEFINE seqs == {x.seq : x \in rows}
             IsTop(n) == \A x \in rows : x.seq <= n
             top == CHOOSE n \in seqs : IsTop(n)
  <2>1. \E n \in seqs : IsTop(n)
    BY <1>2 DEF Topped
  <2>2. top \in seqs /\ IsTop(top)
    BY <2>1
  <2>3. TopSeq(rows) = top
    BY <1>2 DEF TopSeq
  <2> HIDE DEF top
  <2>4. QED
    BY <2>2, <2>3
<1>3. QED
  BY <1>1, <1>2

\* A row counted past the others becomes the top.
LEMMA NewTop ==
  ASSUME NEW rows, NEW n, n.seq \in Nat, \A x \in rows : x.seq \in Nat /\ x.seq < n.seq
  PROVE  Topped(rows \cup {n})
<1>1. \A y \in rows \cup {n} : y.seq <= n.seq
  OBVIOUS
<1>2. QED
  BY <1>1 DEF Topped

-----------------------------------------------------------------------------
\* The member log.

LEMMA ClockReads ==
  ASSUME TypeOK, NEW w \in Writer
  PROVE  /\ Clock(w) \in Nat /\ Host[w] \in Nat
         /\ \A ts \in ReadSoFar(w) : ts \in Nat
<1>1. Skew[w] \in Nat /\ Host[w] \in Nat
  BY WriterAssumption
<1>2. now \in Nat
  BY BoundAssumption DEF TypeOK
<1>3. QED
  BY <1>1, <1>2 DEF Clock, ReadSoFar

\* RecordMembers appends one row per member at most.
LEMMA OneRecordEach ==
  ASSUME NEW t, NEW who, NEW action, NEW ts, NEW w,
         NEW e \in Recorded(t, who, action, ts, w),
         NEW f \in Recorded(t, who, action, ts, w), e.member = f.member
  PROVE  e = f
<1> DEFINE row(a) == [thread |-> t, member |-> a, action |-> action, ts |-> ts,
                      seq |-> 1 + TopSeq(EventsOf(t, a)), host |-> Host[w]]
<1>1. PICK a, b : e = row(a) /\ f = row(b)
  BY DEF Recorded
<1>2. a = b
  BY <1>1
<1>3. QED
  BY <1>1, <1>2

\* They are rows of the log, each counted past the rows of its member.
LEMMA RecordsArePast ==
  ASSUME TypeOK, Tops, NEW t \in Thread, NEW who \in SUBSET Agent,
         NEW action \in {"join", "leave"}, NEW ts \in Nat, NEW w \in Writer
  PROVE  /\ Recorded(t, who, action, ts, w) \subseteq MemberEvent
         /\ \A e \in Recorded(t, who, action, ts, w) :
              /\ e.thread = t /\ e.member \in who /\ e.action = action
              /\ \A f \in EventsOf(t, e.member) : f.seq \in Nat /\ f.seq < e.seq
<1> DEFINE seq(a) == 1 + TopSeq(EventsOf(t, a))
           row(a) == [thread |-> t, member |-> a, action |-> action, ts |-> ts,
                      seq |-> seq(a), host |-> Host[w]]
<1>1. ASSUME NEW a \in who
      PROVE  /\ TopSeq(EventsOf(t, a)) \in Nat
             /\ \A f \in EventsOf(t, a) : f.seq \in Nat /\ f.seq <= TopSeq(EventsOf(t, a))
  <2>1. \A f \in EventsOf(t, a) : f.seq \in Nat
    BY DEF TypeOK, EventsOf, MemberEvent
  <2>2. Topped(EventsOf(t, a))
    BY DEF Tops
  <2>3. QED
    BY <2>1, <2>2, TopSeqIsTop
<1>2. ASSUME NEW a \in who
      PROVE  /\ seq(a) \in Nat
             /\ \A f \in EventsOf(t, a) : f.seq \in Nat /\ f.seq < seq(a)
  <2> DEFINE top == TopSeq(EventsOf(t, a))
  <2>1. top \in Nat /\ \A f \in EventsOf(t, a) : f.seq \in Nat /\ f.seq <= top
    BY <1>1
  <2> HIDE DEF top
  <2>2. 1 + top \in Nat /\ \A f \in EventsOf(t, a) : f.seq \in Nat /\ f.seq < 1 + top
    BY <2>1
  <2>3. QED
    BY <2>2 DEF top
<1> HIDE DEF seq
<1>3. \A e \in Recorded(t, who, action, ts, w) : \E a \in who : e = row(a)
  BY DEF Recorded, seq
<1>4. Host[w] \in Nat
  BY ClockReads
<1>5. \A a \in who : /\ row(a) \in MemberEvent
                      /\ row(a).thread = t /\ row(a).member = a
                      /\ row(a).action = action /\ row(a).seq = seq(a)
  BY <1>2, <1>4 DEF MemberEvent
<1> HIDE DEF row
<1>6. QED
  BY <1>2, <1>3, <1>5

\* The log after it: each new row is the last of its member, and every fold
\* has a top again.
LEMMA RecordsDecide ==
  ASSUME TypeOK, Tops, NEW t \in Thread, NEW who \in SUBSET Agent,
         NEW action \in {"join", "leave"}, NEW ts \in Nat, NEW w \in Writer,
         RecordMembers(t, who, action, ts, w)
  PROVE  /\ memberEvents' \subseteq MemberEvent
         /\ \A e \in memberEvents' : e \in memberEvents \/ e.thread = t
         /\ asked' \in [Thread \X Agent -> {"none", "join", "leave"}]
         /\ \A y \in Thread, a \in Agent : Topped(EventsOf(y, a))'
         /\ \A e \in memberEvents' \ memberEvents :
              CurrentAction(e.thread, e.member)' = e.action
<1> DEFINE N == Recorded(t, who, action, ts, w)
<1>1. /\ N \subseteq MemberEvent
      /\ \A e \in N : /\ e.thread = t /\ e.member \in who /\ e.action = action
                      /\ \A f \in EventsOf(t, e.member) : f.seq \in Nat /\ f.seq < e.seq
      /\ \A e, f \in N : e.member = f.member => e = f
  <2>1. N \subseteq MemberEvent
    BY RecordsArePast
  <2>2. \A e \in N : /\ e.thread = t /\ e.member \in who /\ e.action = action
                     /\ \A f \in EventsOf(t, e.member) : f.seq \in Nat /\ f.seq < e.seq
    BY RecordsArePast
  <2>3. ASSUME NEW e \in N, NEW f \in N, e.member = f.member
        PROVE  e = f
    BY <2>3, OneRecordEach
  <2>4. QED
    BY <2>1, <2>2, <2>3
<1>2. memberEvents' = memberEvents \cup N
  BY DEF RecordMembers
<1> HIDE DEF N
<1>3. memberEvents' \subseteq MemberEvent
  BY <1>1, <1>2 DEF TypeOK
<1>4. \A e \in N : /\ EventsOf(t, e.member)' = EventsOf(t, e.member) \cup {e}
                   /\ e.seq \in Nat
  BY <1>1, <1>2 DEF EventsOf, MemberEvent
<1>5. ASSUME NEW y \in Thread, NEW a \in Agent
      PROVE  Topped(EventsOf(y, a))'
  <2>1. CASE \E e \in N : y = t /\ a = e.member
    <3>1. PICK e \in N : y = t /\ a = e.member
      BY <2>1
    <3>2. Topped(EventsOf(y, a) \cup {e})
      BY <1>1, <1>4, <3>1, NewTop
    <3>3. EventsOf(y, a)' = EventsOf(y, a) \cup {e}
      BY <1>4, <3>1
    <3>4. Topped(EventsOf(y, a)')
      BY <3>2, <3>3
    <3>5. QED
      BY <3>4 DEF Topped
  <2>2. CASE ~ \E e \in N : y = t /\ a = e.member
    <3>1. EventsOf(y, a)' = EventsOf(y, a)
      BY <1>1, <1>2, <2>2 DEF EventsOf
    <3>2. QED
      BY <3>1 DEF Tops, Topped
  <2>3. QED
    BY <2>1, <2>2
<1>6. ASSUME NEW e \in memberEvents' \ memberEvents
      PROVE  CurrentAction(e.thread, e.member)' = e.action
  <2>1. e \in N /\ e.thread = t
    BY <1>1, <1>2
  <2> DEFINE rows == EventsOf(t, e.member)'
  <2>2. rows = EventsOf(t, e.member) \cup {e}
    BY <1>4, <2>1
  <2>3. rows \subseteq MemberEvent
    BY <1>3 DEF EventsOf
  <2>4. \A f \in rows \ {e} : f.seq < e.seq
    BY <1>1, <2>1, <2>2
  <2> HIDE DEF rows
  <2>5. Latest(rows, FoldKey) = e
    BY <2>2, <2>3, <2>4, CountedPastAllIsLatest
  <2>6. rows # {}
    BY <2>2
  <2>7. CurrentAction(t, e.member)' = Latest(rows, FoldKey).action
    BY <2>6 DEF CurrentAction, rows
  <2>8. QED
    BY <2>1, <2>5, <2>7
<1>7. asked' \in [Thread \X Agent -> {"none", "join", "leave"}]
  BY DEF RecordMembers, TypeOK
<1>8. QED
  BY <1>1, <1>2, <1>3, <1>5, <1>6, <1>7
-----------------------------------------------------------------------------
\* Steps.

LEMMA MessagesUnmoved ==
  ASSUME IInv, UNCHANGED <<messages, replies>>, threads \subseteq threads',
         \A v \in Writer : tx'[v] # NoTx => tx[v] # NoTx /\ tx'[v] = tx[v]
  PROVE  /\ Counted' /\ Ordered' /\ OpenIsPast' /\ OpenExists' /\ Keyed'
         /\ \A t \in Thread : Topped(In(t))'
<1>1. Counted' /\ Ordered' /\ Keyed'
  BY DEF IInv, Counted, Ordered, Keyed
<1>2. OpenIsPast' /\ OpenExists'
  BY DEF IInv, OpenIsPast, OpenExists, In
<1>3. \A t \in Thread : Topped(In(t))'
  BY DEF IInv, Tops, Topped, In
<1>4. QED
  BY <1>1, <1>2, <1>3

LEMMA LogUnmoved ==
  ASSUME Tops, UNCHANGED memberEvents
  PROVE  \A t \in Thread, a \in Agent : Topped(EventsOf(t, a))'
BY DEF Tops, Topped, EventsOf

LEMMA BeginStep ==
  ASSUME IInv, NEW w \in Writer, NEW t \in Thread, NEW s \in Agent,
         NEW k \in Key \cup {NoKey}, AppendBegin(w, t, s, k)
  PROVE  IInv'
<1>1. PICK ts \in ReadSoFar(w) :
        tx' = [tx EXCEPT ![w] = [thread |-> t, sender |-> s, key |-> k,
                                 ts |-> ts, seq |-> 1 + TopSeq(In(t))]]
  BY DEF AppendBegin
<1> DEFINE top == TopSeq(In(t))
           c == [thread |-> t, sender |-> s, key |-> k, ts |-> ts, seq |-> 1 + top]
<1>2. UNCHANGED <<now, threads, memberEvents, messages, deleted, receipts, replies, asked>>
  BY DEF AppendBegin, store
<1>3. \A v \in Writer : v # w => tx'[v] = NoTx
  BY <1>1 DEF AppendBegin, LockFree, IInv, TypeOK
<1>4. tx' = [tx EXCEPT ![w] = c] /\ tx'[w] = c
  BY <1>1 DEF IInv, TypeOK
<1>5. top \in Nat /\ \A m \in In(t) : m.seq \in Nat /\ m.seq <= top
  <2>1. \A m \in In(t) : m.seq \in Nat
    BY DEF In, IInv, TypeOK, Message
  <2>2. Topped(In(t))
    BY DEF IInv, Tops
  <2>3. QED
    BY <2>1, <2>2, TopSeqIsTop
<1> HIDE DEF top
<1>6. ts \in Nat
  BY ClockReads DEF IInv
<1>7. c \in OpenAppend /\ c.thread = t /\ c.seq = 1 + top
  BY <1>5, <1>6 DEF OpenAppend
<1> HIDE DEF c
<1>8. TypeOK'
  BY <1>2, <1>3, <1>4, <1>7 DEF IInv, TypeOK
<1>9. Counted' /\ Ordered' /\ Keyed' /\ Tops'
  BY <1>2 DEF IInv, Counted, Ordered, Keyed, Tops, Topped, In, EventsOf
<1>10. OpenIsPast'
  <2> SUFFICES ASSUME NEW v \in Writer, tx'[v] # NoTx, NEW m \in messages',
                      m.thread = tx'[v].thread
               PROVE  m.seq < tx'[v].seq
    BY DEF OpenIsPast, In
  <2>1. v = w
    BY <1>3
  <2>2. m \in In(t)
    BY <1>2, <1>4, <1>7, <2>1 DEF In
  <2>3. QED
    BY <1>4, <1>5, <1>7, <2>1, <2>2
<1>11. OpenExists'
  BY <1>2, <1>3, <1>4, <1>7 DEF AppendBegin, OpenExists
<1>12. QED
  BY <1>8, <1>9, <1>10, <1>11 DEF IInv

\* A message gets in with the next id and a counter past its thread, or a
\* replay answers with the message that holds the key.
LEMMA CommitMessages ==
  ASSUME IInv, NEW w \in Writer, AppendCommit(w)
  PROVE  /\ Counted' /\ Ordered' /\ OpenIsPast' /\ Keyed'
         /\ \A t \in Thread : Topped(In(t))'
         /\ messages' \subseteq Message /\ messages \subseteq messages'
         /\ \A m \in messages' : m \in messages \/ m.thread = tx[w].thread
         /\ replies' \subseteq Agent \X Key \X {m.id : m \in messages'}
<1> DEFINE c == tx[w]
           id == Cardinality(messages) + 1
           old == Holding(c.sender, c.key)
           new == [id |-> id, thread |-> c.thread, sender |-> c.sender,
                   ts |-> c.ts, seq |-> c.seq, host |-> Host[w], key |-> c.key]
<1>1. /\ c # NoTx /\ c \in OpenAppend /\ id \in MessageId
      /\ messages' = IF old = {} THEN messages \cup {new} ELSE messages
      /\ replies' = IF c.key = NoKey THEN replies
                    ELSE replies \cup {<<c.sender, c.key, m.id>> :
                                         m \in IF old = {} THEN {new} ELSE old}
      /\ tx' = [tx EXCEPT ![w] = NoTx]
  BY DEF AppendCommit, IInv, TypeOK
<1>2. /\ c.thread \in Thread /\ c.sender \in Agent /\ c.key \in Key \cup {NoKey}
      /\ c.ts \in Nat /\ c.seq \in Nat /\ Host[w] \in Nat
  BY <1>1, ClockReads DEF OpenAppend, IInv
<1>3. /\ new \in Message /\ new.id = id /\ new.thread = c.thread /\ new.sender = c.sender
      /\ new.seq = c.seq /\ new.key = c.key
  BY <1>1, <1>2 DEF Message
<1>4. IsFiniteSet(messages) /\ Cardinality(messages) \in Nat
  BY FS_CardinalityType DEF IInv, Counted
<1>5. /\ \A m \in messages : /\ m.id \in Nat /\ m.id < id /\ m.seq \in Nat
                             /\ m.thread = c.thread => m.seq < c.seq
      /\ new \notin messages
  <2>1. \A m \in messages : m.id \in Nat /\ m.id < id /\ m.seq \in Nat
    BY <1>4, BoundAssumption DEF IInv, TypeOK, Message, Counted, MessageId
  <2>2. \A m \in messages : m.thread = c.thread => m.seq < c.seq
    BY <1>1 DEF IInv, OpenIsPast, In
  <2>3. new \notin messages
    BY <1>3, <1>4, <2>1
  <2>4. QED
    BY <2>1, <2>2, <2>3
<1>6. \A v \in Writer : tx'[v] = NoTx
  BY <1>1 DEF IInv, TypeOK
<1>7. OpenIsPast'
  BY <1>6 DEF OpenIsPast
<1>8. CASE old = {}
  <2>1. /\ messages' = messages \cup {new}
        /\ replies' \subseteq replies \cup {<<c.sender, c.key, id>>}
        /\ c.key = NoKey => replies' = replies
    BY <1>1, <1>3, <1>8
  <2> HIDE DEF new
  <2>2. IsFiniteSet(messages') /\ Cardinality(messages') = id
    BY <1>4, <1>5, <2>1, FS_AddElement
  <2>0. id \in Nat
    BY <1>4
  <2> HIDE DEF id, old, c
  <2>3. Counted'
    <3>1. \A m \in messages' : m.id <= id
      BY <1>3, <1>5, <2>1, <2>0
    <3>2. \A m, n \in messages' : m.id = n.id => m = n
      BY <1>3, <1>5, <2>1, <2>0 DEF IInv, Counted
    <3>3. QED
      BY <2>2, <3>1, <3>2 DEF Counted
  <2>4. Ordered'
    <3>1. ASSUME NEW m \in messages', NEW n \in messages', m.thread = n.thread
          PROVE  m.seq < n.seq <=> m.id < n.id
      <4>1. CASE m \in messages /\ n \in messages
        BY <3>1, <4>1 DEF IInv, Ordered
      <4>2. CASE m = new
        BY <1>2, <1>3, <1>5, <2>1, <2>0, <3>1, <4>2
      <4>3. CASE n = new
        BY <1>2, <1>3, <1>5, <2>1, <2>0, <3>1, <4>3
      <4>4. QED
        BY <2>1, <4>1, <4>2, <4>3
    <3>2. QED
      BY <3>1 DEF Ordered
  <2>5. \A m \in messages : c.key # NoKey => m.sender # c.sender \/ m.key # c.key
    BY <1>8 DEF Holding, old
  <2>6. Keyed'
    <3>1. \A m, n \in messages' :
            m.key # NoKey /\ m.sender = n.sender /\ m.key = n.key => m = n
      BY <1>3, <2>1, <2>5 DEF IInv, Keyed
    <3>2. \A p \in replies' :
            \E m \in messages' : m.sender = p[1] /\ m.key = p[2] /\ m.id = p[3]
      BY <1>3, <2>1 DEF IInv, Keyed
    <3>3. QED
      BY <3>1, <3>2 DEF Keyed
  <2>7. ASSUME NEW t \in Thread
        PROVE  Topped(In(t))'
    <3>1. CASE t = c.thread
      <4>1. Topped(In(t) \cup {new})
        BY <1>2, <1>3, <1>5, <3>1, NewTop DEF In
      <4>2. In(t)' = In(t) \cup {new}
        BY <1>3, <2>1, <3>1 DEF In
      <4>3. QED
        BY <4>1, <4>2 DEF Topped
    <3>2. CASE t # c.thread
      <4>1. In(t)' = In(t)
        BY <1>3, <2>1, <3>2 DEF In
      <4>2. QED
        BY <4>1 DEF Topped, IInv, Tops
    <3>3. QED
      BY <3>1, <3>2
  <2>8. replies' \subseteq Agent \X Key \X {m.id : m \in messages'}
    BY <1>2, <1>3, <2>1 DEF IInv, TypeOK
  <2>9. /\ messages' \subseteq Message
        /\ \A m \in messages' : m \in messages \/ m.thread = c.thread
    BY <1>3, <2>1 DEF IInv, TypeOK
  <2>10. QED
    BY <1>7, <2>1, <2>3, <2>4, <2>6, <2>7, <2>8, <2>9 DEF c
<1>9. CASE old # {}
  <2>1. messages' = messages /\ c.key # NoKey
    BY <1>1, <1>9 DEF Holding
  <2>2. \A p \in replies' :
          p \in replies \/ \E m \in messages : /\ p = <<c.sender, c.key, m.id>>
                                               /\ m.sender = c.sender /\ m.key = c.key
    BY <1>1, <1>9 DEF Holding
  <2>3. Keyed'
    BY <2>1, <2>2 DEF IInv, Keyed
  <2>4. Counted' /\ Ordered' /\ \A t \in Thread : Topped(In(t))'
    BY <2>1 DEF IInv, Counted, Ordered, Tops, Topped, In
  <2>5. replies' \subseteq Agent \X Key \X {m.id : m \in messages'}
    BY <1>2, <2>1, <2>2 DEF IInv, TypeOK
  <2>6. QED
    BY <1>7, <2>1, <2>3, <2>4, <2>5 DEF IInv, TypeOK
<1>10. QED
  BY <1>8, <1>9

LEMMA CommitStep ==
  ASSUME IInv, NEW w \in Writer, AppendCommit(w)
  PROVE  /\ IInv'
         /\ \A e \in memberEvents' \ memberEvents :
              CurrentAction(e.thread, e.member)' = e.action
<1> DEFINE c == tx[w]
<1>1. /\ Counted' /\ Ordered' /\ OpenIsPast' /\ Keyed'
      /\ \A t \in Thread : Topped(In(t))'
      /\ messages' \subseteq Message /\ messages \subseteq messages'
      /\ \A m \in messages' : m \in messages \/ m.thread = c.thread
      /\ replies' \subseteq Agent \X Key \X {m.id : m \in messages'}
  BY CommitMessages
<1>2. /\ c # NoTx /\ c \in OpenAppend /\ c.thread \in Thread /\ c.ts \in Nat
      /\ UNCHANGED <<now, deleted, receipts>> /\ tx' = [tx EXCEPT ![w] = NoTx]
  BY DEF AppendCommit, IInv, TypeOK, OpenAppend
<1>3. /\ memberEvents' \subseteq MemberEvent
      /\ asked' \in [Thread \X Agent -> {"none", "join", "leave"}]
      /\ \A y \in Thread, a \in Agent : Topped(EventsOf(y, a))'
      /\ \A e \in memberEvents' \ memberEvents :
           CurrentAction(e.thread, e.member)' = e.action
      /\ threads \subseteq threads' /\ threads' \subseteq Thread
      /\ \A e \in memberEvents' : e.thread \in threads'
      /\ c.thread \in Pair => c.thread \in threads'
  <2>1. CASE c.thread \in Pair
    <3>1. /\ threads' = threads \cup {c.thread}
          /\ RecordMembers(c.thread, Peers[c.thread], "join", c.ts, w)
      BY <2>1 DEF AppendCommit
    <3>2. Peers[c.thread] \in SUBSET Agent
      BY <2>1, ThreadAssumption
    <3>3. /\ memberEvents' \subseteq MemberEvent
          /\ \A e \in memberEvents' : e \in memberEvents \/ e.thread = c.thread
          /\ asked' \in [Thread \X Agent -> {"none", "join", "leave"}]
          /\ \A y \in Thread, a \in Agent : Topped(EventsOf(y, a))'
          /\ \A e \in memberEvents' \ memberEvents :
               CurrentAction(e.thread, e.member)' = e.action
      <4> HIDE DEF c
      <4>1. QED
        BY <1>2, <3>1, <3>2, RecordsDecide DEF IInv
    <3>4. QED
      BY <1>2, <3>1, <3>3 DEF IInv, TypeOK
  <2>2. CASE c.thread \notin Pair
    <3>1. UNCHANGED <<threads, memberEvents, asked>>
      BY <2>2 DEF AppendCommit
    <3>2. QED
      BY <2>2, <3>1, LogUnmoved DEF IInv, TypeOK
  <2>3. QED
    BY <2>1, <2>2
<1>4. c.thread \in threads'
  BY <1>2, <1>3 DEF IInv, OpenExists
<1>5. OpenExists'
  BY <1>2 DEF IInv, TypeOK, OpenExists
<1>6. TypeOK'
  <2>1. \A v \in Writer : tx'[v] = NoTx
    BY <1>2 DEF IInv, TypeOK
  <2>2. /\ tx' \in [Writer -> OpenAppend \cup {NoTx}]
        /\ \A v, u \in Writer : tx'[v] # NoTx /\ tx'[u] # NoTx => v = u
    BY <1>2, <2>1 DEF IInv, TypeOK
  <2>3. /\ deleted' \subseteq {m.id : m \in messages'}
        /\ receipts' \subseteq {m.id : m \in messages'} \X Agent
    BY <1>1, <1>2 DEF IInv, TypeOK
  <2>4. {m.thread : m \in messages' \cup memberEvents'} \subseteq threads'
    BY <1>1, <1>3, <1>4 DEF IInv, TypeOK
  <2>5. QED
    BY <1>1, <1>2, <1>3, <2>2, <2>3, <2>4 DEF IInv, TypeOK
<1>7. QED
  BY <1>1, <1>3, <1>5, <1>6 DEF IInv, Tops

LEMMA FailsStep ==
  ASSUME IInv, NEW w \in Writer, AppendFails(w)
  PROVE  IInv'
<1>1. /\ tx' = [tx EXCEPT ![w] = NoTx]
      /\ UNCHANGED <<now, threads, memberEvents, messages, deleted, receipts, replies, asked>>
  BY DEF AppendFails, store
<1>2. \A v \in Writer : tx'[v] # NoTx => tx[v] # NoTx /\ tx'[v] = tx[v]
  BY <1>1 DEF IInv, TypeOK
<1>3. TypeOK'
  BY <1>1, <1>2 DEF IInv, TypeOK
<1>4. QED
  BY <1>1, <1>2, <1>3, MessagesUnmoved, LogUnmoved DEF IInv, Tops

\* The verbs that record joins and leaves and nothing else.
LEMMA MembersStep ==
  ASSUME IInv, NEW w \in Writer, NEW t \in Thread, NEW who \in SUBSET Agent,
         NEW action \in {"join", "leave"}, NEW ts \in Nat,
         RecordMembers(t, who, action, ts, w), threads' = threads \cup {t},
         UNCHANGED <<now, messages, deleted, receipts, tx, replies>>
  PROVE  /\ IInv'
         /\ \A e \in memberEvents' \ memberEvents :
              CurrentAction(e.thread, e.member)' = e.action
<1>1. /\ memberEvents' \subseteq MemberEvent
      /\ \A e \in memberEvents' : e \in memberEvents \/ e.thread = t
      /\ asked' \in [Thread \X Agent -> {"none", "join", "leave"}]
      /\ \A y \in Thread, a \in Agent : Topped(EventsOf(y, a))'
      /\ \A e \in memberEvents' \ memberEvents :
           CurrentAction(e.thread, e.member)' = e.action
  BY RecordsDecide DEF IInv
<1>2. TypeOK'
  <2>1. {m.thread : m \in messages' \cup memberEvents'} \subseteq threads'
    BY <1>1 DEF IInv, TypeOK
  <2>2. QED
    BY <1>1, <2>1 DEF IInv, TypeOK
<1>3. QED
  BY <1>1, <1>2, MessagesUnmoved DEF IInv, Tops

LEMMA MembershipVerbs ==
  ASSUME IInv, NEW w \in Writer,
         \/ \E g \in Group, founders \in SUBSET Agent \ {{}},
              ts \in ReadSoFar(w) : CreateGroup(w, g, founders, ts)
         \/ \E t \in Thread, a \in Agent, action \in {"join", "leave"} :
              MemberChange(w, t, a, action)
  PROVE  /\ IInv'
         /\ \A e \in memberEvents' \ memberEvents :
              CurrentAction(e.thread, e.member)' = e.action
<1>1. ASSUME NEW g \in Group, NEW founders \in SUBSET Agent \ {{}},
             NEW ts \in ReadSoFar(w), CreateGroup(w, g, founders, ts)
      PROVE  /\ IInv'
             /\ \A e \in memberEvents' \ memberEvents :
                  CurrentAction(e.thread, e.member)' = e.action
  <2>1. g \in Thread /\ ts \in Nat /\ founders \in SUBSET Agent
    BY ClockReads DEF Thread, IInv
  <2>2. QED
    BY <1>1, <2>1, MembersStep DEF CreateGroup
<1>2. ASSUME NEW t \in Thread, NEW a \in Agent, NEW action \in {"join", "leave"},
             MemberChange(w, t, a, action)
      PROVE  /\ IInv'
             /\ \A e \in memberEvents' \ memberEvents :
                  CurrentAction(e.thread, e.member)' = e.action
  <2>1. Clock(w) \in Nat /\ {a} \in SUBSET Agent
    BY ClockReads DEF IInv
  <2>2. threads' = threads \cup {t}
    BY <1>2 DEF MemberChange
  <2>3. QED
    BY <1>2, <2>1, <2>2, MembersStep DEF MemberChange
<1>3. QED
  BY <1>1, <1>2

\* What writes neither the log nor messages.
LEMMA OtherSteps ==
  ASSUME IInv,
         \/ Tick
         \/ \E ids \in SUBSET StoredIds, r \in Agent : MarkRead(ids, r)
         \/ \E id \in StoredIds : Tombstone(id)
         \/ UNCHANGED vars
  PROVE  IInv'
<1>1. UNCHANGED <<threads, memberEvents, messages, tx, replies, asked>>
  BY DEF Tick, MarkRead, Tombstone, vars, store
<1>2. TypeOK'
  <2>1. now' \in 0 .. MaxTime
    BY BoundAssumption DEF Tick, MarkRead, Tombstone, vars, IInv, TypeOK
  <2>2. deleted' \subseteq {m.id : m \in messages}
    BY DEF Tick, MarkRead, Tombstone, vars, store, IInv, TypeOK, StoredIds
  <2>3. receipts' \subseteq {m.id : m \in messages} \X Agent
    BY DEF Tick, MarkRead, Tombstone, vars, store, IInv, TypeOK, StoredIds
  <2>4. QED
    BY <1>1, <2>1, <2>2, <2>3 DEF IInv, TypeOK
<1>3. QED
  BY <1>1, <1>2, MessagesUnmoved, LogUnmoved DEF IInv, Tops

-----------------------------------------------------------------------------
LEMMA InitInv == Init => IInv
<1> SUFFICES ASSUME Init PROVE IInv
  OBVIOUS
<1>1. (\A t \in Thread : In(t) = {}) /\ \A t \in Thread, a \in Agent : EventsOf(t, a) = {}
  BY DEF Init, In, EventsOf
<1>2. TypeOK
  BY BoundAssumption DEF Init, TypeOK
<1>3. Tops /\ Ordered /\ OpenIsPast /\ OpenExists /\ Keyed
  BY <1>1 DEF Init, Tops, Topped, Ordered, OpenIsPast, OpenExists, Keyed
<1>4. Counted
  BY FS_EmptySet DEF Init, Counted
<1>5. QED
  BY <1>2, <1>3, <1>4 DEF IInv

LEMMA NextInv ==
  ASSUME IInv, [Next]_vars
  PROVE  /\ IInv'
         /\ \A e \in memberEvents' \ memberEvents :
              CurrentAction(e.thread, e.member)' = e.action
<1>1. ASSUME \/ Tick
             \/ \E ids \in SUBSET StoredIds, r \in Agent : MarkRead(ids, r)
             \/ \E id \in StoredIds : Tombstone(id)
             \/ UNCHANGED vars
      PROVE  IInv' /\ UNCHANGED memberEvents
  <2>1. IInv'
    BY <1>1, OtherSteps
  <2>2. UNCHANGED memberEvents
    BY <1>1 DEF Tick, MarkRead, Tombstone, vars, store
  <2>3. QED
    BY <2>1, <2>2
<1>2. ASSUME NEW w \in Writer, AppendFails(w)
      PROVE  IInv' /\ UNCHANGED memberEvents
  BY <1>2, FailsStep DEF AppendFails, store
<1>3. ASSUME NEW w \in Writer, NEW t \in Thread, NEW s \in Agent,
             NEW k \in Key \cup {NoKey}, AppendBegin(w, t, s, k)
      PROVE  IInv' /\ UNCHANGED memberEvents
  BY <1>3, BeginStep DEF AppendBegin, store
<1>4. QED
  BY <1>1, <1>2, <1>3, CommitStep, MembershipVerbs DEF Next

\* IInv is inductive.
THEOREM Invariant == Spec => []IInv
<1>1. Init => IInv
  BY InitInv
<1>2. IInv /\ [Next]_vars => IInv'
  BY NextInv
<1>3. QED
  BY <1>1, <1>2, PTL DEF Spec

\* Types, the foreign keys, and one open append at a time.
THEOREM ThreadsTypeCorrect == Spec => []TypeOK
<1>1. IInv => TypeOK
  BY DEF IInv
<1>2. QED
  BY <1>1, Invariant, PTL

\* The order of a thread is the order of its commits, whatever the clocks of
\* the hosts show and however long an append waits for the lock.
THEOREM OrderStaysCommitOrder == Spec => []OrderIsCommitOrder
<1>1. IInv => OrderIsCommitOrder
  <2> SUFFICES ASSUME IInv, NEW t \in Thread, NEW m \in In(t), NEW n \in In(t)
               PROVE  Precedes(OrderKey(m), OrderKey(n)) <=> m.id < n.id
    BY DEF OrderIsCommitOrder
  <2>1. /\ m \in messages /\ n \in messages /\ m.thread = n.thread
        /\ m.seq \in Nat /\ m.ts \in Nat /\ m.host \in Nat /\ m.id \in Nat
        /\ n.seq \in Nat /\ n.ts \in Nat /\ n.host \in Nat /\ n.id \in Nat
    BY BoundAssumption DEF In, IInv, TypeOK, Message, MessageId
  <2>2. CASE m = n
    <3>1. ~ Precedes(OrderKey(m), OrderKey(n))
      BY <2>1, <2>2, FirstColumn DEF OrderKey
    <3>2. QED
      BY <2>1, <2>2, <3>1
  <2>3. CASE m # n
    <3>1. m.id # n.id
      BY <2>1, <2>3 DEF IInv, Counted
    <3>2. (m.seq < n.seq <=> m.id < n.id) /\ (n.seq < m.seq <=> n.id < m.id)
      BY <2>1 DEF IInv, Ordered
    <3>3. m.seq # n.seq
      BY <2>1, <3>1, <3>2
    <3>4. Precedes(OrderKey(m), OrderKey(n)) <=> m.seq < n.seq
      BY <2>1, <3>3, FirstColumn DEF OrderKey
    <3>5. QED
      BY <3>2, <3>4
  <2>4. QED
    BY <2>2, <2>3
<1>2. QED
  BY <1>1, Invariant, PTL

\* Appends of one sender with one key return one message, whatever fails in
\* between.
THEOREM RetriesStayAgreed == Spec => []RetriesAgree
<1>1. IInv => RetriesAgree
  <2> SUFFICES ASSUME IInv, NEW p \in replies, NEW q \in replies,
                      p[1] = q[1], p[2] = q[2]
               PROVE  p = q
    BY DEF RetriesAgree
  <2>1. /\ p \in Agent \X Key \X {m.id : m \in messages}
        /\ q \in Agent \X Key \X {m.id : m \in messages}
    BY DEF IInv, TypeOK
  <2>2. p[2] # NoKey
    BY <2>1, KeyAssumption
  <2>3. PICK m \in messages : m.sender = p[1] /\ m.key = p[2] /\ m.id = p[3]
    BY DEF IInv, Keyed
  <2>4. PICK n \in messages : n.sender = q[1] /\ n.key = q[2] /\ n.id = q[3]
    BY DEF IInv, Keyed
  <2>5. p[3] = q[3]
    BY <2>2, <2>3, <2>4 DEF IInv, Keyed
  <2>6. QED
    BY <2>1, <2>5
<1>2. QED
  BY <1>1, Invariant, PTL

\* A join or leave that got its row decides the membership at once, on
\* whichever host and with whatever clock it was written.
THEOREM RecordedEventsDecide == Spec => RecordedEventDecides
<1>1. IInv /\ [Next]_vars =>
        [\A e \in memberEvents' \ memberEvents :
           CurrentAction(e.thread, e.member)' = e.action]_vars
  BY NextInv
<1>2. QED
  BY <1>1, Invariant, PTL DEF Spec, RecordedEventDecides

\* Unread changes by an arrival, a join, a receipt, a tombstone or a leave, and
\* by nothing else.
THEOREM UnreadIsExplained == Spec => UnreadChangesForAReason
<1>1. IInv /\ [Next]_vars =>
        [\A r \in Agent :
           /\ \A m \in Unread(r)' \ Unread(r) :
                m \notin messages \/ ~ IsMember(m.thread, r)
           /\ \A m \in Unread(r) \ Unread(r)' :
                \/ <<m.id, r>> \in receipts'
                \/ m.id \in deleted'
                \/ ~ IsMember(m.thread, r)']_vars
  <2> SUFFICES ASSUME IInv, [Next]_vars
               PROVE  \A r \in Agent :
                        /\ \A m \in Unread(r)' \ Unread(r) :
                             m \notin messages \/ ~ IsMember(m.thread, r)
                        /\ \A m \in Unread(r) \ Unread(r)' :
                             \/ <<m.id, r>> \in receipts'
                             \/ m.id \in deleted'
                             \/ ~ IsMember(m.thread, r)'
    OBVIOUS
  <2>1. messages \subseteq messages' /\ deleted \subseteq deleted' /\ receipts \subseteq receipts'
    BY CommitMessages DEF Next, vars, store, Tick, AppendBegin, AppendCommit, AppendFails,
         CreateGroup, MemberChange, MarkRead, Tombstone
  <2>2. QED
    BY <2>1 DEF Unread
<1>2. QED
  BY <1>1, Invariant, PTL DEF Spec, UnreadChangesForAReason

-----------------------------------------------------------------------------
(* The view state of the same store: DmVisibility.  Its verbs leave the    *)
(* tables above alone, and the lock they share makes the counter of an     *)
(* open verb pass the rows of its thread and reader until it commits.  A   *)
(* commit in time is then the latest row of its thread and reader.         *)

\* Every thread and reader with rows has one with the highest counter.
ViewTop == \A t \in Thread, r \in Agent : Topped(RowsOf(t, r))

\* An open verb has read the current state, and its counter is past the rows
\* of its thread and reader.
ViewOpen ==
  \A w \in Writer : viewTx[w] # NoTx =>
    /\ viewTx[w].was =
         StateOf(viewTx[w].action, viewTx[w].thread, viewTx[w].reader)
    /\ \A e \in RowsOf(viewTx[w].thread, viewTx[w].reader) :
         e.seq < viewTx[w].seq

\* It holds whatever the clocks show.
ViewCounted == IInv /\ ViewTypeOK /\ ViewTop /\ ViewOpen

-----------------------------------------------------------------------------
\* What the two columns of the fold's order decide.
LEMMA TwoColumns ==
  ASSUME NEW a \in Nat, NEW b \in Nat, NEW c \in Nat, NEW d \in Nat
  PROVE  Precedes(<<a, b>>, <<c, d>>) <=> a < c \/ (a = c /\ b < d)
<1>1. DOMAIN <<a, b>> = 1 .. 2
  OBVIOUS
<1>2. Precedes(<<a, b>>, <<c, d>>) <=>
        \E i \in 1 .. 2 : /\ <<a, b>>[i] < <<c, d>>[i]
                          /\ \A j \in 1 .. i - 1 : <<a, b>>[j] = <<c, d>>[j]
  BY <1>1 DEF Precedes
<1>3. ASSUME a < c
      PROVE  \E i \in 1 .. 2 : /\ <<a, b>>[i] < <<c, d>>[i]
                               /\ \A j \in 1 .. i - 1 : <<a, b>>[j] = <<c, d>>[j]
  <2>1. WITNESS 1 \in 1 .. 2
  <2>2. QED
    BY <1>3
<1>4. ASSUME a = c, b < d
      PROVE  \E i \in 1 .. 2 : /\ <<a, b>>[i] < <<c, d>>[i]
                               /\ \A j \in 1 .. i - 1 : <<a, b>>[j] = <<c, d>>[j]
  <2>1. WITNESS 2 \in 1 .. 2
  <2>2. QED
    BY <1>4
<1>5. ASSUME NEW i \in 1 .. 2, <<a, b>>[i] < <<c, d>>[i],
             \A j \in 1 .. i - 1 : <<a, b>>[j] = <<c, d>>[j]
      PROVE  a < c \/ (a = c /\ b < d)
  <2>1. CASE i = 1
    BY <1>5, <2>1
  <2>2. CASE i = 2
    BY <1>5, <2>2
  <2>3. QED
    BY <2>1, <2>2
<1>6. QED
  BY <1>2, <1>3, <1>4, <1>5

\* The row that is stamped and counted past all others is the latest.
LEMMA PastAllIsLatest ==
  ASSUME NEW rows, rows \subseteq ViewRow, NEW n \in rows,
         \A e \in rows \ {n} : e.ts <= n.ts /\ e.seq < n.seq
  PROVE  Latest(rows, ViewFoldKey) = n
<1>1. \A e \in rows : e.ts \in Nat /\ e.seq \in Nat
  BY DEF ViewRow
<1>2. \A e, f \in rows : Precedes(ViewFoldKey(e), ViewFoldKey(f)) <=>
                           e.ts < f.ts \/ (e.ts = f.ts /\ e.seq < f.seq)
  BY <1>1, TwoColumns DEF ViewFoldKey
<1>3. \A s \in rows : ~ Precedes(ViewFoldKey(n), ViewFoldKey(s))
  BY <1>1, <1>2
<1>4. \A r \in rows :
        (\A s \in rows : ~ Precedes(ViewFoldKey(r), ViewFoldKey(s))) => r = n
  BY <1>1, <1>2
<1>5. QED
  BY <1>3, <1>4 DEF Latest

-----------------------------------------------------------------------------
LEMMA InitViewCounted == ViewInit => ViewCounted
<1> SUFFICES ASSUME ViewInit PROVE ViewCounted
  OBVIOUS
<1>1. \A t \in Thread, r \in Agent : RowsOf(t, r) = {}
  BY DEF ViewInit, RowsOf
<1>2. IInv
  BY InitInv DEF ViewInit
<1>3. ViewTypeOK
  BY <1>2 DEF ViewInit, ViewTypeOK, IInv
<1>4. ViewTop /\ ViewOpen
  BY <1>1 DEF ViewInit, ViewTop, Topped, ViewOpen
<1>5. QED
  BY <1>2, <1>3, <1>4 DEF ViewCounted

LEMMA ThreadStepIsNext == ThreadStep => Next
BY DEF ThreadStep, Next

\* What a step of DmThreads means to the view state.
LEMMA BesideViews ==
  ASSUME ViewCounted, ThreadStep
  PROVE  /\ IInv' /\ UNCHANGED viewStore
         /\ threads \subseteq threads'
         /\ \A v, w \in Writer : viewTx[v] # NoTx => tx'[w] = NoTx
<1>1. Next /\ UNCHANGED viewStore
  BY ThreadStepIsNext DEF ThreadStep
<1>2. IInv'
  BY <1>1, NextInv DEF ViewCounted
<1>3. threads \subseteq threads'
  BY <1>1 DEF Next, store, Tick, AppendBegin, AppendCommit, AppendFails,
       CreateGroup, MemberChange, MarkRead, Tombstone
<1>4. ASSUME NEW v \in Writer, NEW w \in Writer, viewTx[v] # NoTx
      PROVE  tx'[w] = NoTx
  <2>1. ~ ViewLockFree
    BY <1>4 DEF ViewLockFree
  <2>2. UNCHANGED tx
    BY <2>1 DEF ThreadStep, Tick, Tombstone
  <2>3. tx[w] = NoTx
    BY <1>4 DEF ViewCounted, ViewTypeOK
  <2>4. QED
    BY <2>2, <2>3
<1>5. QED
  BY <1>1, <1>2, <1>3, <1>4

\* A counter past all rows of its thread and reader.
LEMMA NextIsPast ==
  ASSUME ViewCounted, NEW t \in Thread, NEW r \in Agent
  PROVE  /\ 1 + TopSeq(RowsOf(t, r)) \in Nat
         /\ \A e \in RowsOf(t, r) : e.seq \in Nat /\ e.seq < 1 + TopSeq(RowsOf(t, r))
<1>1. \A e \in RowsOf(t, r) : e.seq \in Nat
  BY DEF ViewCounted, ViewTypeOK, RowsOf, ViewRow
<1>2. Topped(RowsOf(t, r))
  BY DEF ViewCounted, ViewTop
<1>3. /\ TopSeq(RowsOf(t, r)) \in Nat
      /\ \A x \in RowsOf(t, r) : x.seq <= TopSeq(RowsOf(t, r))
  BY <1>1, <1>2, TopSeqIsTop
<1>4. QED
  BY <1>1, <1>3

\* A step that appends no row and opens no verb.
LEMMA SameViewTable ==
  ASSUME ViewCounted, IInv', threads \subseteq threads',
         UNCHANGED viewEvents,
         viewTx' \in [Writer -> OpenView \cup {NoTx}],
         \A v \in Writer :
           viewTx'[v] # NoTx => viewTx'[v] = viewTx[v] /\ viewTx[v] # NoTx,
         \A v, w \in Writer : viewTx'[v] # NoTx => tx'[w] = NoTx
  PROVE  ViewCounted'
<1>1. ViewTop'
  BY DEF ViewCounted, ViewTop, Topped, RowsOf
<1>2. \A x \in ViewAction, y \in Thread, z \in Agent :
        /\ StateOf(x, y, z)' = StateOf(x, y, z)
        /\ RowsOf(y, z)' = RowsOf(y, z)
  BY DEF StateOf, Hidden, Pinned, CurrentView, RowsOf
<1>3. ViewOpen'
  <2> SUFFICES ASSUME NEW w \in Writer, (viewTx[w] # NoTx)'
               PROVE  (/\ viewTx[w].was =
                            StateOf(viewTx[w].action, viewTx[w].thread, viewTx[w].reader)
                       /\ \A e \in RowsOf(viewTx[w].thread, viewTx[w].reader) :
                            e.seq < viewTx[w].seq)'
    BY DEF ViewOpen
  <2>1. viewTx'[w] = viewTx[w] /\ viewTx[w] # NoTx /\ viewTx[w] \in OpenView
    BY DEF ViewCounted, ViewTypeOK
  <2>2. PICK x \in ViewAction, y \in Thread, z \in Agent :
          x = viewTx[w].action /\ y = viewTx[w].thread /\ z = viewTx[w].reader
    BY <2>1 DEF OpenView
  <2>3. /\ viewTx[w].was = StateOf(x, y, z)'
        /\ \A e \in RowsOf(y, z)' : e.seq < viewTx[w].seq
    BY <1>2, <2>1, <2>2 DEF ViewCounted, ViewOpen
  <2>4. QED
    BY <2>1, <2>2, <2>3
<1>4. ViewTypeOK'
  <2>1. \A v, w \in Writer : viewTx'[v] # NoTx =>
          /\ viewTx'[v].thread \in threads'
          /\ viewTx'[w] # NoTx => v = w
          /\ tx'[w] = NoTx
    BY DEF ViewCounted, ViewTypeOK
  <2>2. TypeOK'
    BY DEF IInv
  <2>3. QED
    BY <2>1, <2>2 DEF ViewCounted, ViewTypeOK
<1>5. QED
  BY <1>1, <1>3, <1>4 DEF ViewCounted

\* A verb reads the current state when it holds the lock.
LEMMA ViewBeginKeeps ==
  ASSUME ViewCounted, NEW w \in Writer, ViewBegin(w)
  PROVE  ViewCounted'
<1>1. PICK t \in threads, r \in Agent, a \in ViewAction :
        viewTx' = [viewTx EXCEPT ![w] = [thread |-> t, reader |-> r, action |-> a,
                                         was |-> StateOf(a, t, r),
                                         seq |-> 1 + TopSeq(RowsOf(t, r))]]
  BY DEF ViewBegin
<1> DEFINE c == [thread |-> t, reader |-> r, action |-> a,
                 was |-> StateOf(a, t, r), seq |-> 1 + TopSeq(RowsOf(t, r))]
<1>2. StateOf(a, t, r) \in BOOLEAN /\ t \in Thread
  BY DEF StateOf, ViewCounted, IInv, TypeOK
<1>3. /\ 1 + TopSeq(RowsOf(t, r)) \in Nat
      /\ \A e \in RowsOf(t, r) : e.seq < 1 + TopSeq(RowsOf(t, r))
  BY <1>2, NextIsPast
<1>4. c \in OpenView
  BY <1>2, <1>3 DEF OpenView
<1>5. UNCHANGED <<vars, viewEvents>> /\ StoreIsFree
  BY DEF ViewBegin
<1>6. IInv'
  BY <1>5, NextInv DEF ViewCounted
<1>7. \A v \in Writer : viewTx'[v] # NoTx => v = w /\ viewTx'[v] = c
  BY <1>1, <1>5 DEF StoreIsFree, ViewLockFree, ViewCounted, ViewTypeOK
<1>8. ViewTypeOK'
  <2>1. viewTx' \in [Writer -> OpenView \cup {NoTx}]
    BY <1>1, <1>4 DEF ViewCounted, ViewTypeOK
  <2>2. \A v \in Writer : tx'[v] = NoTx
    BY <1>5 DEF StoreIsFree, LockFree, vars
  <2>3. TypeOK'
    BY <1>6 DEF IInv
  <2>4. UNCHANGED <<threads, viewEvents>>
    BY <1>5 DEF vars, store
  <2>5. QED
    BY <1>7, <2>1, <2>2, <2>3, <2>4 DEF ViewCounted, ViewTypeOK
<1>9. ViewTop'
  BY <1>5 DEF ViewCounted, ViewTop, Topped, RowsOf
<1>10. \A x \in ViewAction, y \in Thread, z \in Agent :
         /\ StateOf(x, y, z)' = StateOf(x, y, z)
         /\ RowsOf(y, z)' = RowsOf(y, z)
  BY <1>5 DEF StateOf, Hidden, Pinned, CurrentView, RowsOf
<1>11. ViewOpen'
  <2>1. c.was = StateOf(c.action, c.thread, c.reader)'
    BY <1>2, <1>10
  <2>2. \A e \in RowsOf(c.thread, c.reader)' : e.seq < c.seq
    BY <1>2, <1>3, <1>10
  <2>3. QED
    BY <1>7, <2>1, <2>2 DEF ViewOpen
<1>12. QED
  BY <1>6, <1>8, <1>9, <1>11 DEF ViewCounted

\* A commit appends its row, which is counted past the others of its thread
\* and reader, and closes the only open verb.
LEMMA ViewAppends ==
  ASSUME ViewCounted, NEW w \in Writer, ViewCommit(w)
  PROVE  \E n \in ViewRow :
           /\ n = [thread |-> viewTx[w].thread, reader |-> viewTx[w].reader,
                   action |-> viewTx[w].action, ts |-> Clock(w),
                   seq |-> viewTx[w].seq]
           /\ n.thread \in threads
           /\ \A e \in RowsOf(n.thread, n.reader) : e.seq < n.seq
           /\ viewEvents' = viewEvents \cup {n}
           /\ viewTx' = [v \in Writer |-> NoTx]
<1>1. viewTx[w] \in OpenView /\ viewTx[w] # NoTx /\ viewTx[w].thread \in threads
  BY DEF ViewCommit, ViewCounted, ViewTypeOK
<1>2. Clock(w) \in Nat
  BY ClockReads DEF ViewCounted, IInv
<1>3. PICK n \in ViewRow :
        n = [thread |-> viewTx[w].thread, reader |-> viewTx[w].reader,
             action |-> viewTx[w].action, ts |-> Clock(w),
             seq |-> viewTx[w].seq]
  BY <1>1, <1>2 DEF ViewRow, OpenView
<1>4. \A e \in RowsOf(n.thread, n.reader) : e.seq < n.seq
  BY <1>1, <1>3 DEF ViewCounted, ViewOpen, RowsOf
<1>5. \A e \in viewEvents : EventId(e) # EventId(n)
  <2> SUFFICES ASSUME NEW e \in viewEvents, EventId(e) = EventId(n)
               PROVE  FALSE
    OBVIOUS
  <2>1. e.thread = n.thread /\ e.reader = n.reader /\ e.seq = n.seq
    BY DEF EventId
  <2>2. e.seq \in Nat
    BY DEF ViewCounted, ViewTypeOK, ViewRow
  <2>3. QED
    BY <1>4, <2>1, <2>2 DEF RowsOf
<1>6. viewEvents' = viewEvents \cup {n}
  BY <1>3, <1>5 DEF ViewCommit
<1>7. viewTx' = [v \in Writer |-> NoTx]
  <2>1. \A v \in Writer \ {w} : viewTx[v] = NoTx
    BY <1>1 DEF ViewCounted, ViewTypeOK
  <2>2. QED
    BY <2>1 DEF ViewCommit, ViewCounted, ViewTypeOK
<1>8. QED
  BY <1>1, <1>3, <1>4, <1>6, <1>7

LEMMA ViewCommitKeeps ==
  ASSUME ViewCounted, NEW w \in Writer, ViewCommit(w)
  PROVE  ViewCounted'
<1>1. PICK n \in ViewRow :
        /\ n = [thread |-> viewTx[w].thread, reader |-> viewTx[w].reader,
                action |-> viewTx[w].action, ts |-> Clock(w),
                seq |-> viewTx[w].seq]
        /\ n.thread \in threads
        /\ \A e \in RowsOf(n.thread, n.reader) : e.seq < n.seq
        /\ viewEvents' = viewEvents \cup {n}
        /\ viewTx' = [v \in Writer |-> NoTx]
  BY ViewAppends
<1>2. IInv' /\ UNCHANGED threads
  BY NextInv DEF ViewCounted, ViewCommit, vars, store
<1>3. ViewTypeOK'
  <2>1. TypeOK'
    BY <1>2 DEF IInv
  <2>2. QED
    BY <1>1, <1>2, <2>1 DEF ViewCounted, ViewTypeOK
<1>4. ViewTop'
  <2> SUFFICES ASSUME NEW t \in Thread, NEW r \in Agent
               PROVE  Topped(RowsOf(t, r))'
    BY DEF ViewTop
  <2>1. CASE t = n.thread /\ r = n.reader
    <3>1. RowsOf(t, r)' = RowsOf(t, r) \cup {n}
      BY <1>1, <2>1 DEF RowsOf
    <3>2. n.seq \in Nat /\ \A f \in RowsOf(t, r) : f.seq \in Nat /\ f.seq < n.seq
      BY <1>1, <2>1, NextIsPast DEF ViewRow
    <3>3. Topped(RowsOf(t, r) \cup {n})
      BY <3>2, NewTop
    <3>4. QED
      BY <3>1, <3>3 DEF Topped
  <2>2. CASE ~ (t = n.thread /\ r = n.reader)
    <3>1. RowsOf(t, r)' = RowsOf(t, r)
      BY <1>1, <2>2 DEF RowsOf
    <3>2. QED
      BY <3>1 DEF ViewCounted, ViewTop, Topped
  <2>3. QED
    BY <2>1, <2>2
<1>5. ViewOpen'
  BY <1>1 DEF ViewOpen
<1>6. QED
  BY <1>2, <1>3, <1>4, <1>5 DEF ViewCounted

\* The row of a commit in time is the latest of its thread and reader.
LEMMA ViewDecides ==
  ASSUME ViewCounted, NEW w \in Writer, ViewCommit(w), InTime(w),
         NEW t, t = viewTx[w].thread, NEW r, r = viewTx[w].reader
  PROVE  CurrentView(t, r)' = viewTx[w].action
<1>1. PICK n \in ViewRow :
        /\ n = [thread |-> viewTx[w].thread, reader |-> viewTx[w].reader,
                action |-> viewTx[w].action, ts |-> Clock(w),
                seq |-> viewTx[w].seq]
        /\ \A e \in RowsOf(n.thread, n.reader) : e.seq < n.seq
        /\ viewEvents' = viewEvents \cup {n}
        /\ viewTx' = [v \in Writer |-> NoTx]
  BY ViewAppends
<1>2. \A e \in RowsOf(n.thread, n.reader) : e.ts <= n.ts
  BY <1>1 DEF InTime
<1>3. RowsOf(n.thread, n.reader)' = RowsOf(n.thread, n.reader) \cup {n}
  BY <1>1 DEF RowsOf
<1>4. Latest(RowsOf(n.thread, n.reader)', ViewFoldKey) = n
  <2>1. RowsOf(n.thread, n.reader)' \subseteq ViewRow
    BY <1>3 DEF RowsOf, ViewCounted, ViewTypeOK
  <2>2. QED
    BY <1>1, <1>2, <1>3, <2>1, PastAllIsLatest
<1>5. QED
  BY <1>1, <1>3, <1>4 DEF CurrentView

-----------------------------------------------------------------------------
LEMMA ViewCountedStep == ViewCounted /\ [ViewNext]_viewVars => ViewCounted'
<1> SUFFICES ASSUME ViewCounted, [ViewNext]_viewVars PROVE ViewCounted'
  OBVIOUS
<1>1. CASE ThreadStep
  <2>1. /\ IInv' /\ UNCHANGED viewStore
        /\ threads \subseteq threads'
        /\ \A v, w \in Writer : viewTx[v] # NoTx => tx'[w] = NoTx
    BY <1>1, BesideViews
  <2>2. UNCHANGED viewEvents /\ UNCHANGED viewTx
    BY <2>1 DEF viewStore
  <2>3. viewTx' \in [Writer -> OpenView \cup {NoTx}]
    BY <2>2 DEF ViewCounted, ViewTypeOK
  <2>4. QED
    BY <2>1, <2>2, <2>3, SameViewTable
<1>2. ASSUME NEW w \in Writer, ViewBegin(w) PROVE ViewCounted'
  BY <1>2, ViewBeginKeeps
<1>3. ASSUME NEW w \in Writer, ViewCommit(w) PROVE ViewCounted'
  BY <1>3, ViewCommitKeeps
<1>4. ASSUME NEW w \in Writer, ViewFails(w) PROVE ViewCounted'
  <2>1. UNCHANGED viewEvents /\ UNCHANGED vars
    BY <1>4 DEF ViewFails
  <2>2. IInv' /\ UNCHANGED <<threads, tx>>
    BY <2>1, NextInv DEF ViewCounted, vars, store
  <2>3. /\ viewTx' \in [Writer -> OpenView \cup {NoTx}]
        /\ \A v \in Writer :
             viewTx'[v] # NoTx => viewTx'[v] = viewTx[v] /\ viewTx[v] # NoTx
    BY <1>4 DEF ViewFails, ViewCounted, ViewTypeOK
  <2>4. \A v, x \in Writer : viewTx'[v] # NoTx => tx'[x] = NoTx
    BY <2>2, <2>3 DEF ViewCounted, ViewTypeOK
  <2>5. QED
    BY <2>1, <2>2, <2>3, <2>4, SameViewTable
<1>5. CASE UNCHANGED viewVars
  <2>1. UNCHANGED viewEvents /\ UNCHANGED viewTx /\ UNCHANGED vars
    BY <1>5 DEF viewVars, viewStore
  <2>2. IInv' /\ UNCHANGED <<threads, tx>>
    BY <2>1, NextInv DEF ViewCounted, vars, store
  <2>3. viewTx' \in [Writer -> OpenView \cup {NoTx}]
    BY <2>1 DEF ViewCounted, ViewTypeOK
  <2>4. \A v, w \in Writer : viewTx'[v] # NoTx => tx'[w] = NoTx
    BY <2>1, <2>2 DEF ViewCounted, ViewTypeOK
  <2>5. QED
    BY <2>1, <2>2, <2>3, <2>4, SameViewTable
<1>6. QED
  BY <1>1, <1>2, <1>3, <1>4, <1>5 DEF ViewNext

-----------------------------------------------------------------------------
\* The view verbs leave the threads, their members and messages alone: the
\* store with them is still the store of DmThreads, and every theorem about
\* Spec above is one about ViewSpec.
THEOREM ViewsLeaveThreadsAlone == ViewSpec => Spec
<1>1. ViewInit => Init
  BY DEF ViewInit
<1>2. [ViewNext]_viewVars => [Next]_vars
  BY ThreadStepIsNext DEF ViewNext, ViewBegin, ViewCommit, ViewFails, viewVars
<1>3. QED
  BY <1>1, <1>2, PTL DEF ViewSpec, Spec

\* Whatever the clocks show, every variable keeps its type, a view row keeps
\* its thread, and at most one transaction is open, of a view verb or of an
\* append.
THEOREM VisibilityTypeCorrect == ViewSpec => []ViewTypeOK
<1>1. ViewCounted => ViewTypeOK
  BY DEF ViewCounted
<1>2. QED
  BY <1>1, InitViewCounted, ViewCountedStep, PTL DEF ViewSpec

\* Every verb that commits leaves a row, whatever the clocks show.
THEOREM TogglesAreKept == ViewSpec => EveryToggleIsKept
<1> DEFINE Kept ==
      \A w \in Writer :
        ViewCommit(w) => \E e \in viewEvents' \ viewEvents :
                           /\ e.thread = viewTx[w].thread
                           /\ e.reader = viewTx[w].reader
                           /\ e.action = viewTx[w].action
<1>1. ASSUME ViewCounted PROVE Kept
  <2> SUFFICES ASSUME NEW w \in Writer, ViewCommit(w)
               PROVE  \E e \in viewEvents' \ viewEvents :
                        /\ e.thread = viewTx[w].thread
                        /\ e.reader = viewTx[w].reader
                        /\ e.action = viewTx[w].action
    OBVIOUS
  <2>1. PICK n \in ViewRow :
          /\ n = [thread |-> viewTx[w].thread, reader |-> viewTx[w].reader,
                  action |-> viewTx[w].action, ts |-> Clock(w),
                  seq |-> viewTx[w].seq]
          /\ \A e \in RowsOf(n.thread, n.reader) : e.seq < n.seq
          /\ viewEvents' = viewEvents \cup {n}
    BY <1>1, ViewAppends
  <2>2. n \notin viewEvents
    BY <2>1 DEF RowsOf, ViewRow
  <2>3. QED
    BY <2>1, <2>2
<1>2. ViewInit /\ [][ViewNext]_viewVars => [][Kept]_viewVars
  <2> HIDE DEF Kept
  <2>1. QED
    BY <1>1, InitViewCounted, ViewCountedStep, PTL
<1>3. QED
  BY <1>2 DEF ViewSpec, EveryToggleIsKept

LEMMA StateIsWanted ==
  ASSUME ViewCounted, NEW w \in Writer, NEW t \in Thread, NEW r \in Agent,
         NEW a \in ViewAction, ViewCommit(w), InTime(w),
         viewTx[w].thread = t, viewTx[w].reader = r, viewTx[w].action = a
  PROVE  StateOf(a, t, r)' <=> Wanted(a)
<1>1. CurrentView(t, r)' = a
  BY ViewDecides
<1>2. QED
  BY <1>1 DEF StateOf, Hidden, Pinned, Wanted, ViewAction

\* A verb that commits in time brings about what it asked for, for any skew of
\* the clocks and any number of toggles in one second.
THEOREM TogglesTakeEffect == ViewSpec => ToggleTakesEffect
<1> DEFINE Takes ==
      \A w \in Writer, t \in Thread, r \in Agent, a \in ViewAction :
        /\ ViewCommit(w) /\ InTime(w)
        /\ viewTx[w].thread = t /\ viewTx[w].reader = r /\ viewTx[w].action = a
        => (StateOf(a, t, r)' <=> Wanted(a))
<1>1. ViewCounted => Takes
  BY StateIsWanted
<1>2. ViewInit /\ [][ViewNext]_viewVars => [][Takes]_viewVars
  <2> HIDE DEF Takes
  <2>1. QED
    BY <1>1, InitViewCounted, ViewCountedStep, PTL
<1>3. QED
  BY <1>2 DEF ViewSpec, ToggleTakesEffect

\* The change reported by a verb that commits in time is the change its commit
\* makes, for any skew of the clocks.
THEOREM ChangeIsReported == ViewSpec => ChangedIsFlip
<1>1. ASSUME ViewCounted, NEW w \in Writer, NEW t \in Thread, NEW r \in Agent,
             NEW a \in ViewAction, ViewCommit(w), InTime(w),
             viewTx[w].thread = t, viewTx[w].reader = r, viewTx[w].action = a
      PROVE  Changed(w) <=> (StateOf(a, t, r) # StateOf(a, t, r)')
  <2>1. StateOf(a, t, r)' <=> Wanted(a)
    BY <1>1, StateIsWanted
  <2>2. viewTx[w].was = StateOf(a, t, r)
    BY <1>1 DEF ViewCounted, ViewOpen, ViewCommit
  <2>3. Wanted(a) \in BOOLEAN /\ StateOf(a, t, r) \in BOOLEAN
        /\ StateOf(a, t, r)' \in BOOLEAN
    BY DEF StateOf, Wanted
  <2>4. QED
    BY <1>1, <2>1, <2>2, <2>3 DEF Changed
<1> DEFINE Flip ==
      \A w \in Writer, t \in Thread, r \in Agent, a \in ViewAction :
        /\ ViewCommit(w) /\ InTime(w)
        /\ viewTx[w].thread = t /\ viewTx[w].reader = r /\ viewTx[w].action = a
        => (Changed(w) <=> (StateOf(a, t, r) # StateOf(a, t, r)'))
<1>2. ViewCounted => Flip
  BY <1>1
<1>3. ViewInit /\ [][ViewNext]_viewVars => [][Flip]_viewVars
  <2> HIDE DEF Flip
  <2>1. QED
    BY <1>2, InitViewCounted, ViewCountedStep, PTL
<1>4. QED
  BY <1>3 DEF ViewSpec, ChangedIsFlip
=============================================================================
