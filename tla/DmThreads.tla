----------------------------- MODULE DmThreads -----------------------------
(***************************************************************************)
(* The DM tables of the store: threads, the append-only log of joins and   *)
(* leaves, messages with their tombstones, read receipts - and the verbs   *)
(* of _dm/write.py over the row primitives of _dm/write_rows.py, with the  *)
(* folds of _dm/read.py that answer who is a member and what is unread.    *)
(*                                                                         *)
(* Every verb but tombstone runs under the store-wide advisory lock.       *)
(* append is two steps, the read of the thread under the lock and the      *)
(* commit; the other verbs are one.  append and create_group_thread take   *)
(* their timestamp before they wait for the lock, so it is any reading of  *)
(* the host's clock so far.  Writers run on several hosts with clocks of   *)
(* their own, in whole seconds.  Message ids are random in the code; here  *)
(* they count the commits, and nothing orders by them.                     *)
(***************************************************************************)
EXTENDS RowOrder, FiniteSets

CONSTANTS
  Agent,
  Pair, Group,      \* thread ids "dm:a::b" and opaque ids "dmg:..."
  Peers,            \* [Pair -> the agents its id names]
  Writer,           \* processes that call the verbs
  Host,             \* [Writer -> origin_host, numbered in sort order]
  Skew,             \* [Writer -> how many seconds its host's clock is ahead]
  Key,              \* client_request_id values
  NoKey,            \* an append without one
  NoTx,             \* the transaction of a writer that has none
  MaxTime,          \* bound: seconds a behaviour lasts
  MaxMessages,      \* bound: messages appended
  MaxRows           \* bound: rows, tombstones counted as rows

Thread == Pair \cup Group
MessageId == 1 .. MaxMessages

ASSUME ThreadAssumption == /\ Peers \in [Pair -> SUBSET Agent]
                           /\ Pair \cap Group = {}
ASSUME WriterAssumption == /\ Host \in [Writer -> Nat]
                           /\ Skew \in [Writer -> Nat]
ASSUME BoundAssumption ==
  {MaxTime, MaxMessages, MaxRows} \subseteq Nat
ASSUME KeyAssumption == NoKey \notin Key

VARIABLES
  now,              \* the true time, in seconds
  threads,          \* dm_threads rows
  memberEvents,     \* dm_thread_member_events rows
  messages,         \* dm_messages rows
  deleted,          \* messages with deleted_at set
  receipts,         \* dm_receipts rows <<message, reader>>
  tx,               \* each writer's append
  replies,          \* history: <<sender, key, message>> an append returned
  asked             \* history: the last join or leave committed per member

store == <<threads, memberEvents, messages, deleted, receipts>>
vars == <<now, store, tx, replies, asked>>

MemberEvent == [thread : Thread, member : Agent, action : {"join", "leave"},
                ts : Nat, seq : Nat, host : Nat]

Message == [id : MessageId, thread : Thread, sender : Agent, ts : Nat,
            seq : Nat, host : Nat, key : Key \cup {NoKey}]

\* An append that holds the lock.
OpenAppend == [thread : Thread, sender : Agent, key : Key \cup {NoKey},
               ts : Nat, seq : Nat]

LockFree == \A w \in Writer : tx[w] = NoTx

\* Types, the lock, and the foreign keys.
TypeOK ==
  /\ now \in 0 .. MaxTime
  /\ threads \subseteq Thread
  /\ memberEvents \subseteq MemberEvent
  /\ messages \subseteq Message
  /\ deleted \subseteq {m.id : m \in messages}
  /\ receipts \subseteq {m.id : m \in messages} \X Agent
  /\ {m.thread : m \in messages \cup memberEvents} \subseteq threads
  /\ tx \in [Writer -> OpenAppend \cup {NoTx}]
  /\ \A v, w \in Writer : tx[v] # NoTx /\ tx[w] # NoTx => v = w
  /\ replies \subseteq Agent \X Key \X {m.id : m \in messages}
  /\ asked \in [Thread \X Agent -> {"none", "join", "leave"}]

Init ==
  /\ now = 0
  /\ threads = {} /\ memberEvents = {} /\ messages = {}
  /\ deleted = {} /\ receipts = {}
  /\ tx = [w \in Writer |-> NoTx]
  /\ replies = {}
  /\ asked = [p \in Thread \X Agent |-> "none"]

-----------------------------------------------------------------------------
\* Reads.

EventsOf(t, a) == {e \in memberEvents : e.thread = t /\ e.member = a}

\* Mutants: the wall clock leads the order.
MutFoldKey(e) == <<e.ts, e.seq, e.host>>
MutOrderKey(m) == <<m.ts, m.seq, m.host>>

\* CURRENT_MEMBERS_SQL: seq leads.
FoldKey(e) == <<e.seq, e.ts, e.host>>

CurrentAction(t, a) ==
  IF EventsOf(t, a) = {} THEN "none" ELSE Latest(EventsOf(t, a), FoldKey).action

IsMember(t, a) == CurrentAction(t, a) = "join"

\* MESSAGE_ORDER_SQL.
OrderKey(m) == <<m.seq, m.ts, m.host>>

In(t) == {m \in messages : m.thread = t}

\* A message the reader can see, did not send, and has no receipt for.
Unread(r) ==
  {m \in messages : /\ m.sender # r
                    /\ m.id \notin deleted
                    /\ <<m.id, r>> \notin receipts
                    /\ IsMember(m.thread, r)}

-----------------------------------------------------------------------------
\* Row primitives.

TopSeq(rows) == IF rows = {} THEN 0
                ELSE CHOOSE n \in {x.seq : x \in rows} :
                       \A x \in rows : x.seq <= n

MemberEventId(e) == <<e.thread, e.member, e.action, e.ts>>

\* record_member_event for each agent of who: the counter goes on from the
\* rows of its member, and ON CONFLICT DO NOTHING drops a row whose derived
\* id is taken.
Recorded(t, who, action, ts, w) ==
  LET row(a) == [thread |-> t, member |-> a, action |-> action, ts |-> ts,
                 seq |-> 1 + TopSeq(EventsOf(t, a)), host |-> Host[w]]
  IN {row(a) : a \in {b \in who : \A e \in memberEvents :
                                     MemberEventId(e) # MemberEventId(row(b))}}

RecordMembers(t, who, action, ts, w) ==
  /\ memberEvents' = memberEvents \cup Recorded(t, who, action, ts, w)
  /\ asked' = [p \in Thread \X Agent |->
                 IF p[1] = t /\ p[2] \in who THEN action ELSE asked[p]]

\* Mutant: no unique index behind the key.
MutHolding(s, k) == {}

\* The row that holds the unique (sender, client_request_id).
Holding(s, k) == {m \in messages : k # NoKey /\ m.sender = s /\ m.key = k}

-----------------------------------------------------------------------------
\* append.

Clock(w) == now + Skew[w]

\* What its clock has shown since some call began.
ReadSoFar(w) == Skew[w] .. Clock(w)

\* begin_write_transaction and the reads behind it.  On a group that does not
\* exist: KeyError, and nothing is written.
AppendBegin(w, t, s, k) ==
  /\ LockFree
  /\ t \in Pair \cup threads
  /\ \E ts \in ReadSoFar(w) :
       tx' = [tx EXCEPT ![w] = [thread |-> t, sender |-> s, key |-> k,
                                ts |-> ts, seq |-> 1 + TopSeq(In(t))]]
  /\ UNCHANGED <<now, store, replies, asked>>

\* A pair thread and its two joins come into being with the message, or with
\* the replay of an append that committed before.
AppendCommit(w) ==
  LET c == tx[w]
      id == Cardinality(messages) + 1
      old == Holding(c.sender, c.key)
      new == [id |-> id, thread |-> c.thread, sender |-> c.sender,
              ts |-> c.ts, seq |-> c.seq, host |-> Host[w], key |-> c.key]
  IN
  /\ c # NoTx
  /\ id \in MessageId
  /\ IF c.thread \in Pair
     THEN /\ threads' = threads \cup {c.thread}
          /\ RecordMembers(c.thread, Peers[c.thread], "join", c.ts, w)
     ELSE UNCHANGED <<threads, memberEvents, asked>>
  /\ messages' = IF old = {} THEN messages \cup {new} ELSE messages
  /\ replies' = IF c.key = NoKey THEN replies
                ELSE replies \cup {<<c.sender, c.key, m.id>> :
                                     m \in IF old = {} THEN {new} ELSE old}
  /\ tx' = [tx EXCEPT ![w] = NoTx]
  /\ UNCHANGED <<now, deleted, receipts>>

\* A failed statement or the death of the process: nothing is written.  A caller
\* may call again with its key.
AppendFails(w) ==
  /\ tx[w] # NoTx
  /\ tx' = [tx EXCEPT ![w] = NoTx]
  /\ UNCHANGED <<now, store, replies, asked>>

-----------------------------------------------------------------------------
\* The other verbs.

\* The id is new: ensure_thread inserts the row.  The timestamp is one the
\* host's clock showed before the call had the lock.
CreateGroup(w, g, founders, ts) ==
  /\ LockFree
  /\ g \in Group \ threads
  /\ threads' = threads \cup {g}
  /\ RecordMembers(g, founders, "join", ts, w)
  /\ UNCHANGED <<now, messages, deleted, receipts, tx, replies>>

\* add_member and remove_member.  On an unknown thread: KeyError.
MemberChange(w, t, a, action) ==
  /\ LockFree
  /\ t \in threads
  /\ RecordMembers(t, {a}, action, Clock(w), w)
  /\ UNCHANGED <<now, threads, messages, deleted, receipts, tx, replies>>

\* Mutant: mark_read writes the receipts of the reader anew.
MutMarkRead(ids, r) ==
  /\ LockFree
  /\ receipts' = {p \in receipts : p[2] # r} \cup (ids \X {r})
  /\ UNCHANGED <<now, threads, memberEvents, messages, deleted, tx, replies,
                 asked>>

\* mark_read of ids, those the store does not hold left out.
MarkRead(ids, r) ==
  /\ LockFree
  /\ receipts' = receipts \cup (ids \X {r})
  /\ UNCHANGED <<now, threads, memberEvents, messages, deleted, tx, replies,
                 asked>>

\* An UPDATE of its own, without the lock.
Tombstone(id) ==
  /\ deleted' = deleted \cup {id}
  /\ UNCHANGED <<now, threads, memberEvents, messages, receipts, tx, replies,
                 asked>>

Tick ==
  /\ now < MaxTime
  /\ now' = now + 1
  /\ UNCHANGED <<store, tx, replies, asked>>

StoredIds == {m.id : m \in messages}

Rows == Cardinality(memberEvents) + Cardinality(messages)
          + Cardinality(receipts) + Cardinality(deleted)

Next ==
  /\ \/ Tick
     \/ \E w \in Writer :
          \/ \E t \in Thread, s \in Agent, k \in Key \cup {NoKey} :
               AppendBegin(w, t, s, k)
          \/ AppendCommit(w) \/ AppendFails(w)
          \/ \E g \in Group, founders \in SUBSET Agent \ {{}},
                ts \in ReadSoFar(w) : CreateGroup(w, g, founders, ts)
          \/ \E t \in Thread, a \in Agent, action \in {"join", "leave"} :
               MemberChange(w, t, a, action)
     \/ \E ids \in SUBSET StoredIds, r \in Agent : MarkRead(ids, r)
     \/ \E id \in StoredIds : Tombstone(id)
  /\ Rows' <= MaxRows

Spec == Init /\ [][Next]_vars

-----------------------------------------------------------------------------
\* The order every reader computes for a thread is the order its messages were
\* committed in, though each took its timestamp before it had the lock, on a
\* clock of its own (MESSAGE_ORDER_SQL, next_seq).
OrderIsCommitOrder ==
  \A t \in Thread : \A m, n \in In(t) :
    Precedes(OrderKey(m), OrderKey(n)) <=> m.id < n.id

\* A join or a leave that got a row decides the membership from then on, in
\* whatever order the hosts' clocks put the rows (CURRENT_MEMBERS_SQL).
RecordedEventDecides ==
  [][\A e \in memberEvents' \ memberEvents :
       CurrentAction(e.thread, e.member)' = e.action]_vars

\* A message becomes unread for an agent when it arrives or when the agent
\* joins its thread, and stops being unread only when that agent reads it or
\* leaves, or the message is tombstoned: no replay, late append or reader of
\* the same message does either (unread_for_conn).
UnreadChangesForAReason ==
  [][\A r \in Agent :
       /\ \A m \in Unread(r)' \ Unread(r) :
            m \notin messages \/ ~ IsMember(m.thread, r)
       /\ \A m \in Unread(r) \ Unread(r)' :
            \/ <<m.id, r>> \in receipts'
            \/ m.id \in deleted'
            \/ ~ IsMember(m.thread, r)']_vars

\* Every append of one sender with one client_request_id that returned has
\* returned the same message: a retry after a failure nobody could tell from a
\* success sends no second one (the replay branch of append).
RetriesAgree ==
  \A p, q \in replies : p[1] = q[1] /\ p[2] = q[2] => p = q

\* Whether an agent is a member is what the last verb that committed for it
\* said: the counter "is what makes 'the latest event' a fact"
\* (record_member_event).
LastVerbDecides ==
  \A t \in Thread, a \in Agent : CurrentAction(t, a) = asked[<<t, a>>]
=============================================================================
