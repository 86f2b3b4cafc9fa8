-------------------------- MODULE FileInboxProofs --------------------------
(***************************************************************************)
(* Proofs about FileInbox, for any keys, requests, backlog, channels, caps *)
(* and faults.  The first part is about the rows (no pending snapshot is   *)
(* lost), the second about the gate: while the mtime is the one the tick   *)
(* saw, nobody has saved, so the drain works on the rows that are there.   *)
(***************************************************************************)
EXTENDS FileInbox, WellFoundedInduction, TLAPS

Taken == sent \cup owned

\* A drain has keys to poll, or rows of one key at hand; a row whose receipt
\* is about to be recorded has been sent.
Drains ==
  \A c \in Channel :
    /\ chan[c].pc = "poll" => chan[c].todo # <<>>
    /\ chan[c].pc \in {"send", "record"} =>
         /\ chan[c].key \in Key
         /\ chan[c].batch # {} /\ chan[c].batch \subseteq DOMAIN posted
    /\ chan[c].pc = "record" => FirstOf(chan[c].batch) \in sent

\* Row n stands for row id: it superseded it, or collapsing preferred it.
Succeeds(n, id) ==
  /\ posted[n].to = posted[id].to
  /\ posted[n].subject = posted[id].subject
  /\ (n > id /\ n > Len(Backlog)) \/ Newer(n, id)

Stands(n) == Pending(n) \/ n \in Taken

Survives ==
  \A id \in DOMAIN posted :
    \/ Stands(id)
    \/ /\ posted[id].snapshot
       /\ \E n \in DOMAIN posted : Succeeds(n, id) /\ Stands(n)

\* Only the backlog can hold several pending digests of one key.
Lone ==
  \A key \in Key : \A i, j \in PendingDigests(key) : i > Len(Backlog) => i = j

\* No row is numbered like one of the backlog.
Grown == Len(Backlog) <= Len(posted)

KeysIn(keys) == {keys[i] : i \in DOMAIN keys}

\* The keys a drain has still to look at or is working on.
Left(ch) ==
  IF ch.pc = "idle" THEN {}
  ELSE IF ch.pc = "poll" THEN KeysIn(ch.todo)
  ELSE KeysIn(ch.todo) \cup {ch.key}

\* A channel at rest or in a drain that has recorded nothing: rows wait only
\* under the keys it has left.
Knows(c, ch) ==
  /\ ch.pc # "idle" => ch.pushed = 0
  /\ ch.pc \in {"send", "record"} => ch.batch = Unseen(inbox[ch.key])
  /\ \A key \in KeysIn(ReadKeys[c]) : Unseen(inbox[key]) = {} \/ key \in Left(ch)

\* So it is while the mtime is the one that a clean tick saw.
Sees(g) == g.seeded /\ g.clean /\ mtime = g.last
GateKnows == \A c \in Channel : Sees(gate[c]) => Knows(c, chan[c])

Kept == TypeOK /\ Drains
RowsInv == Kept /\ Grown /\ Survives /\ Lone
GateInv == Kept /\ GateKnows
-----------------------------------------------------------------------------
\* Operators.

\* A set of numbers has a least one.
LEMMA LeastNumber ==
  ASSUME NEW S \in SUBSET Nat, S # {}
  PROVE  \E x \in S : \A y \in S : x <= y
<1>1. \A x, y \in Nat : y < x => <<y, x>> \in OpToRel(<, Nat)
  BY DEF OpToRel
<1>2. PICK x \in S : \A y \in S : ~ (<<y, x>> \in OpToRel(<, Nat))
  BY NatLessThanWellFounded, WFMin
<1>3. \A y \in S : ~ (y < x)
  BY <1>1, <1>2
<1>4. \A y \in S : y \in Nat /\ x \in Nat
  OBVIOUS
<1>5. QED
  BY <1>3, <1>4

\* A batch has a record at hand.
LEMMA FirstIsLeast ==
  ASSUME NEW ids \in SUBSET Nat, ids # {}
  PROVE  FirstOf(ids) \in ids
  BY LeastNumber DEF FirstOf

\* Of two ids of equal instant the later is newer, and newer is transitive.
LEMMA NewerIsAnOrder ==
  ASSUME TypeOK, NEW i \in DOMAIN posted, NEW j \in DOMAIN posted
  PROVE  /\ i # j => Newer(i, j) \/ Newer(j, i)
         /\ \A k \in DOMAIN posted : Newer(k, j) /\ Newer(j, i) => Newer(k, i)
         /\ ~ Newer(i, i)
<1>1. \A k \in DOMAIN posted : posted[k].instant \in Nat /\ k \in Nat
  BY RequestAssumption DEF TypeOK
<1>2. QED
  BY <1>1 DEF Newer

\* Some id of a set of posted rows is newer than all others: by induction on
\* the bound of the set, that is, there is no least bound for which it fails.
LEMMA NewestExists ==
  ASSUME TypeOK, NEW ids \in SUBSET DOMAIN posted, ids # {}
  PROVE  \E n \in ids : \A i \in ids : i # n => Newer(n, i)
<1> DEFINE Newest(n, set) == \A i \in set : i # n => Newer(n, i)
           Below(b) == {i \in ids : i <= b}
           Bad == {b \in Nat : Below(b) # {} /\ \A n \in Below(b) : ~ Newest(n, Below(b))}
<1>1. \A i \in ids : i \in Nat /\ 0 < i /\ i <= Len(posted)
  BY DEF TypeOK
<1>2. Bad = {}
  <2> SUFFICES ASSUME Bad # {} PROVE FALSE
    OBVIOUS
  <2>1. PICK b \in Bad : \A a \in Bad : b <= a
    <3> HIDE DEF Bad
    <3>1. Bad \subseteq Nat
      BY DEF Bad
    <3>2. QED
      BY <3>1, LeastNumber
  <2>2. b \in Nat /\ b # 0 /\ b - 1 \in Nat
    BY <1>1
  <2>3. b - 1 \notin Bad
    BY <2>1, <2>2
  <2> HIDE DEF Bad
  <2>9. \A i \in ids : i <= b <=> i <= b - 1 \/ i = b
    <3> SUFFICES ASSUME NEW i \in ids PROVE i <= b <=> i <= b - 1 \/ i = b
      OBVIOUS
    <3>1. i \in Nat /\ b \in Nat
      BY <1>1, <2>2
    <3>2. QED
      BY <3>1
  <2> USE DEF Bad
  <2>4. CASE b \notin ids
    <3>1. Below(b) = Below(b - 1)
      BY <2>4, <2>9
    <3>2. QED
      BY <2>2, <2>3, <3>1
  <2>5. CASE b \in ids
    <3>1. Below(b) = Below(b - 1) \cup {b} /\ Below(b) \subseteq DOMAIN posted
      BY <2>5, <2>9
    <3>2. CASE Below(b - 1) = {}
      <4>1. Newest(b, Below(b))
        BY <3>1, <3>2
      <4>2. QED
        BY <2>5, <3>1, <4>1
    <3>3. CASE Below(b - 1) # {}
      <4>1. PICK n \in Below(b - 1) : Newest(n, Below(b - 1))
        BY <2>2, <2>3, <3>3
      <4>2. n # b /\ n \in DOMAIN posted /\ b \in DOMAIN posted
        BY <1>1, <2>2, <2>5
      <4>3. CASE Newer(n, b)
        <5>1. Newest(n, Below(b))
          BY <3>1, <4>1, <4>3
        <5>2. QED
          BY <3>1, <5>1
      <4>4. CASE Newer(b, n)
        <5>1. Newest(b, Below(b))
          <6> SUFFICES ASSUME NEW i \in Below(b - 1), i # n PROVE Newer(b, i)
            BY <3>1, <4>4
          <6>1. Newer(n, i)
            BY <4>1
          <6>2. QED
            BY <4>2, <4>4, <6>1, NewerIsAnOrder
        <5>2. QED
          BY <3>1, <5>1
      <4>5. QED
        BY <4>2, <4>3, <4>4, NewerIsAnOrder
    <3>4. QED
      BY <3>2, <3>3
  <2>6. QED
    BY <2>4, <2>5
<1>3. Len(posted) \in Nat /\ Below(Len(posted)) = ids
  BY <1>1 DEF TypeOK
<1>4. QED
  BY <1>2, <1>3
-----------------------------------------------------------------------------
\* Rewriting the records of the file.

\* A step that rewrites records: none is added, none vanishes, no cursor moves
\* back and no receipt goes without the cursor.
Rewrites ==
  /\ posted' = posted
  /\ DOMAIN inbox' = Key
  /\ \A key \in Key :
       /\ inbox'[key] \in [DOMAIN inbox[key] -> RecordType]
       /\ \A id \in DOMAIN inbox[key] :
            /\ inbox'[key][id].req = inbox[key][id].req
            /\ inbox'[key][id].pushed => inbox'[key][id].seen
            /\ inbox[key][id].seen => inbox'[key][id].seen

\* What the three marks do to a record.
LEMMA MarkedRecord ==
  ASSUME NEW rec \in RecordType, rec.pushed => rec.seen
  PROVE  /\ \A m \in {MarkSeen(rec), MarkPushed(rec), MarkConfirmed(rec)} :
              /\ m \in RecordType /\ m.req = rec.req
              /\ m.pushed => m.seen
              /\ rec.seen => m.seen
         /\ MarkSeen(rec).seen /\ MarkPushed(rec).seen
         /\ MarkConfirmed(rec).seen = rec.seen
  BY DEF RecordType, MarkSeen, MarkPushed, MarkConfirmed

\* The records of a file that is typed.
LEMMA Records ==
  ASSUME TypeOK, NEW key \in Key, NEW id \in DOMAIN inbox[key]
  PROVE  /\ inbox[key][id] \in RecordType
         /\ inbox[key][id].req = posted[id]
         /\ inbox[key][id].pushed => inbox[key][id].seen
         /\ id \in DOMAIN posted /\ posted[id].to = key
  BY DEF TypeOK

LEMMA Untouched ==
  ASSUME TypeOK, UNCHANGED <<inbox, posted>>
  PROVE  Rewrites
  BY DEF TypeOK, Rewrites

\* One inbox is rewritten, outside of ids only with what it had.
LEMMA OneRewritten ==
  ASSUME TypeOK, NEW key \in Key, NEW ids,
         posted' = posted, DOMAIN inbox' = Key,
         \A k \in Key \ {key} : inbox'[k] = inbox[k],
         inbox'[key] \in [DOMAIN inbox[key] -> RecordType],
         \A id \in DOMAIN inbox[key] :
           /\ inbox'[key][id].req = inbox[key][id].req
           /\ inbox'[key][id].pushed => inbox'[key][id].seen
           /\ inbox[key][id].seen => inbox'[key][id].seen
           /\ id \notin ids => inbox'[key][id].seen = inbox[key][id].seen
  PROVE  /\ Rewrites
         /\ \A k \in Key : Unseen(inbox[k]) \ Unseen(inbox'[k]) \subseteq ids
<1>1. Rewrites
  <2> SUFFICES ASSUME NEW k \in Key
               PROVE  /\ inbox'[k] \in [DOMAIN inbox[k] -> RecordType]
                      /\ \A id \in DOMAIN inbox[k] :
                           /\ inbox'[k][id].req = inbox[k][id].req
                           /\ inbox'[k][id].pushed => inbox'[k][id].seen
                           /\ inbox[k][id].seen => inbox'[k][id].seen
    BY DEF Rewrites
  <2>1. CASE k = key
    BY <2>1
  <2>2. CASE k # key
    BY <2>2 DEF TypeOK
  <2>3. QED
    BY <2>1, <2>2
<1>2. ASSUME NEW k \in Key
      PROVE  Unseen(inbox[k]) \ Unseen(inbox'[k]) \subseteq ids
  <2>1. CASE k = key
    BY <2>1 DEF Unseen
  <2>2. CASE k # key
    BY <2>2 DEF Unseen
  <2>3. QED
    BY <2>1, <2>2
<1>3. QED
  BY <1>1, <1>2

LEMMA SeenStamped ==
  ASSUME TypeOK, NEW key \in Key, NEW ids, Stamp(key, ids, MarkSeen),
         posted' = posted
  PROVE  /\ Rewrites /\ mtime' = mtime + 1
         /\ \A k \in Key : Unseen(inbox[k]) \ Unseen(inbox'[k]) \subseteq ids
<1>1. mtime' = mtime + 1
      /\ inbox' = [inbox EXCEPT ![key] = Rewritten(inbox[key], ids, MarkSeen)]
  BY DEF Stamp, Save
<1>2. /\ DOMAIN inbox' = Key
      /\ \A k \in Key \ {key} : inbox'[k] = inbox[k]
      /\ inbox'[key] = [id \in DOMAIN inbox[key] |->
           IF id \in ids THEN MarkSeen(inbox[key][id]) ELSE inbox[key][id]]
  BY <1>1 DEF TypeOK, Rewritten
<1>3. \A id \in DOMAIN inbox[key] :
        /\ inbox'[key][id] \in RecordType
        /\ inbox'[key][id].req = inbox[key][id].req
        /\ inbox'[key][id].pushed => inbox'[key][id].seen
        /\ inbox[key][id].seen => inbox'[key][id].seen
        /\ id \notin ids => inbox'[key][id].seen = inbox[key][id].seen
  BY <1>2, Records, MarkedRecord
<1>4. inbox'[key] \in [DOMAIN inbox[key] -> RecordType]
  BY <1>2, <1>3
<1>5. Rewrites /\ \A k \in Key : Unseen(inbox[k]) \ Unseen(inbox'[k]) \subseteq ids
  BY <1>2, <1>3, <1>4, OneRewritten
<1>6. QED
  BY <1>1, <1>5

LEMMA PushStamped ==
  ASSUME TypeOK, NEW key \in Key, NEW ids, Stamp(key, ids, MarkPushed),
         posted' = posted
  PROVE  /\ Rewrites /\ mtime' = mtime + 1
         /\ \A k \in Key : Unseen(inbox[k]) \ Unseen(inbox'[k]) \subseteq ids
<1>1. mtime' = mtime + 1
      /\ inbox' = [inbox EXCEPT ![key] = Rewritten(inbox[key], ids, MarkPushed)]
  BY DEF Stamp, Save
<1>2. /\ DOMAIN inbox' = Key
      /\ \A k \in Key \ {key} : inbox'[k] = inbox[k]
      /\ inbox'[key] = [id \in DOMAIN inbox[key] |->
           IF id \in ids THEN MarkPushed(inbox[key][id]) ELSE inbox[key][id]]
  BY <1>1 DEF TypeOK, Rewritten
<1>3. \A id \in DOMAIN inbox[key] :
        /\ inbox'[key][id] \in RecordType
        /\ inbox'[key][id].req = inbox[key][id].req
        /\ inbox'[key][id].pushed => inbox'[key][id].seen
        /\ inbox[key][id].seen => inbox'[key][id].seen
        /\ id \notin ids => inbox'[key][id].seen = inbox[key][id].seen
  BY <1>2, Records, MarkedRecord
<1>4. inbox'[key] \in [DOMAIN inbox[key] -> RecordType]
  BY <1>2, <1>3
<1>5. Rewrites /\ \A k \in Key : Unseen(inbox[k]) \ Unseen(inbox'[k]) \subseteq ids
  BY <1>2, <1>3, <1>4, OneRewritten
<1>6. QED
  BY <1>1, <1>5

LEMMA ConfirmStamped ==
  ASSUME TypeOK, NEW key \in Key, NEW ids, Stamp(key, ids, MarkConfirmed),
         posted' = posted
  PROVE  /\ Rewrites /\ mtime' = mtime + 1
         /\ \A k \in Key : Unseen(inbox[k]) \subseteq Unseen(inbox'[k])
<1>1. mtime' = mtime + 1
      /\ inbox' = [inbox EXCEPT ![key] = Rewritten(inbox[key], ids, MarkConfirmed)]
  BY DEF Stamp, Save
<1>2. /\ DOMAIN inbox' = Key
      /\ \A k \in Key \ {key} : inbox'[k] = inbox[k]
      /\ inbox'[key] = [id \in DOMAIN inbox[key] |->
           IF id \in ids THEN MarkConfirmed(inbox[key][id]) ELSE inbox[key][id]]
  BY <1>1 DEF TypeOK, Rewritten
<1>3. \A id \in DOMAIN inbox[key] :
        /\ inbox'[key][id] \in RecordType
        /\ inbox'[key][id].req = inbox[key][id].req
        /\ inbox'[key][id].pushed => inbox'[key][id].seen
        /\ inbox[key][id].seen => inbox'[key][id].seen
        /\ id \notin {} => inbox'[key][id].seen = inbox[key][id].seen
  BY <1>2, Records, MarkedRecord
<1>4. inbox'[key] \in [DOMAIN inbox[key] -> RecordType]
  BY <1>2, <1>3
<1>5. Rewrites /\ \A k \in Key : Unseen(inbox[k]) \ Unseen(inbox'[k]) \subseteq {}
  BY <1>2, <1>3, <1>4, OneRewritten
<1>6. QED
  BY <1>1, <1>5

LEMMA DigestsCollapsed ==
  ASSUME TypeOK, Collapse
  PROVE  /\ Rewrites /\ mtime' = mtime + 1
         /\ \A k \in Key : Unseen(inbox[k]) \ Unseen(inbox'[k]) \subseteq Stale(k)
<1>1. /\ mtime' = mtime + 1 /\ posted' = posted
      /\ inbox' = [key \in Key |-> [id \in DOMAIN inbox[key] |->
           IF id \in Stale(key) THEN MarkSeen(inbox[key][id]) ELSE inbox[key][id]]]
  BY DEF Collapse, Save, Rewritten
<1>2. ASSUME NEW key \in Key, NEW id \in DOMAIN inbox[key]
      PROVE  /\ inbox'[key][id] \in RecordType
             /\ inbox'[key][id].req = inbox[key][id].req
             /\ inbox'[key][id].pushed => inbox'[key][id].seen
             /\ inbox[key][id].seen => inbox'[key][id].seen
             /\ id \notin Stale(key) => inbox'[key][id] = inbox[key][id]
  BY <1>1, Records, MarkedRecord
<1>3. \A key \in Key : inbox'[key] \in [DOMAIN inbox[key] -> RecordType]
  BY <1>1, <1>2
<1>4. Rewrites
  BY <1>1, <1>2, <1>3 DEF Rewrites
<1>5. ASSUME NEW k \in Key
      PROVE  Unseen(inbox[k]) \ Unseen(inbox'[k]) \subseteq Stale(k)
  BY <1>2, <1>3 DEF Unseen
<1>6. QED
  BY <1>1, <1>4, <1>5

\* An ack saves when it flips a record, and takes over what it names.
LEMMA AckRewrites ==
  ASSUME TypeOK, NEW key \in Key, NEW ids, Ack(key, ids)
  PROVE  /\ Rewrites /\ ids \subseteq DOMAIN posted
         /\ mtime' = mtime + 1 \/ UNCHANGED <<inbox, mtime>>
         /\ owned' = owned \cup ids
         /\ UNCHANGED <<posted, gate, chan, sent>>
         /\ \A k \in Key : Unseen(inbox[k]) \ Unseen(inbox'[k]) \subseteq ids
<1>1. /\ ids \subseteq DOMAIN posted /\ owned' = owned \cup ids
      /\ UNCHANGED <<posted, gate, chan, sent>>
  BY Records DEF Ack
<1>2. CASE Stamp(key, ids, MarkSeen)
  <2>1. posted' = posted
    BY <1>1
  <2>2. /\ Rewrites /\ mtime' = mtime + 1
        /\ \A k \in Key : Unseen(inbox[k]) \ Unseen(inbox'[k]) \subseteq ids
    BY <1>2, <2>1, SeenStamped
  <2>3. QED
    BY <1>1, <2>2
<1>3. CASE UNCHANGED <<inbox, mtime>>
  BY <1>1, <1>3, Untouched
<1>4. QED
  BY <1>2, <1>3 DEF Ack
-----------------------------------------------------------------------------
\* Types.

RowsTyped ==
  /\ posted \in Seq(Request) /\ Len(posted) <= MaxRows
  /\ DOMAIN inbox = Key
  /\ \A key \in Key :
       /\ DOMAIN inbox[key] \subseteq {id \in DOMAIN posted : posted[id].to = key}
       /\ inbox[key] \in [DOMAIN inbox[key] -> RecordType]
       /\ \A id \in DOMAIN inbox[key] :
            /\ inbox[key][id].req = posted[id]
            /\ inbox[key][id].pushed => inbox[key][id].seen

LEMMA RewritesTyped ==
  ASSUME TypeOK, Rewrites
  PROVE  RowsTyped'
<1>1. posted' = posted /\ DOMAIN inbox' = Key
  BY DEF Rewrites
<1>2. ASSUME NEW key \in Key
      PROVE  /\ DOMAIN inbox'[key] = DOMAIN inbox[key]
             /\ inbox'[key] \in [DOMAIN inbox'[key] -> RecordType]
             /\ \A id \in DOMAIN inbox'[key] :
                  /\ inbox'[key][id].req = posted[id]
                  /\ inbox'[key][id].pushed => inbox'[key][id].seen
  BY DEF TypeOK, Rewrites
<1>3. QED
  BY <1>1, <1>2 DEF TypeOK, RowsTyped

\* The ids an enqueue leaves standing.
KeptBy(r) ==
  {id \in DOMAIN inbox[r.to] : \/ ~ r.snapshot
                               \/ inbox[r.to][id].seen
                               \/ inbox[r.to][id].req.subject # r.subject}

\* What an append leaves: the kept records, and the new one.
LEMMA Inserted ==
  ASSUME TypeOK, NEW r \in Request, Enqueue(r)
  PROVE  /\ posted' = Append(posted, r) /\ Len(posted) + 1 \in Id
         /\ mtime' = mtime + 1 /\ UNCHANGED <<gate, chan, sent, owned>>
         /\ DOMAIN inbox' = Key
         /\ \A k \in Key \ {r.to} : inbox'[k] = inbox[k]
         /\ r.to \in Key
         /\ inbox'[r.to] = [id \in KeptBy(r) \cup {Len(posted) + 1} |->
              IF id = Len(posted) + 1 THEN Record(r) ELSE inbox[r.to][id]]
<1>1. r.to \in Key /\ r.snapshot \in BOOLEAN
  BY RequestAssumption
<1> DEFINE kept == AfterSupersede(inbox[r.to], r)
           next == Len(posted) + 1
<1>2. /\ posted' = Append(posted, r) /\ next \in Id
      /\ mtime' = mtime + 1 /\ UNCHANGED <<gate, chan, sent, owned>>
      /\ inbox' = [inbox EXCEPT ![r.to] = Appended(kept, next, r)]
  BY DEF Enqueue, Save
<1>3. /\ DOMAIN inbox' = Key
      /\ inbox'[r.to] = Appended(kept, next, r)
      /\ \A k \in Key \ {r.to} : inbox'[k] = inbox[k]
  BY <1>1, <1>2 DEF TypeOK
<1>4. /\ DOMAIN kept = KeptBy(r)
      /\ \A id \in DOMAIN kept : kept[id] = inbox[r.to][id]
  <2>1. CASE r.snapshot
    BY <2>1 DEF AfterSupersede, Restrict, KeptBy
  <2>2. CASE ~ r.snapshot
    BY <2>2 DEF AfterSupersede, KeptBy
  <2>3. QED
    BY <2>1, <2>2
<1>5. Appended(kept, next, r) =
        [id \in KeptBy(r) \cup {next} |-> IF id = next THEN Record(r) ELSE inbox[r.to][id]]
  <2> HIDE DEF kept
  <2>1. QED
    BY <1>4 DEF Appended
<1>6. QED
  BY <1>1, <1>2, <1>3, <1>5

\* The ids of a longer history, and what they name.
LEMMA Posts ==
  ASSUME TypeOK, NEW r \in Request
  PROVE  /\ Append(posted, r) \in Seq(Request)
         /\ Len(Append(posted, r)) = Len(posted) + 1
         /\ DOMAIN Append(posted, r) = DOMAIN posted \cup {Len(posted) + 1}
         /\ \A id \in DOMAIN posted : Append(posted, r)[id] = posted[id]
         /\ Append(posted, r)[Len(posted) + 1] = r
         /\ Len(posted) + 1 \notin DOMAIN posted
         /\ DOMAIN posted \subseteq Nat /\ Len(posted) \in Nat
         /\ \A id \in DOMAIN posted : id < Len(posted) + 1
  BY DEF TypeOK

LEMMA InsertTyped ==
  ASSUME TypeOK, NEW r \in Request, Enqueue(r)
  PROVE  RowsTyped'
<1> DEFINE next == Len(posted) + 1
<1>1. /\ posted' = Append(posted, r) /\ next \in Id /\ DOMAIN inbox' = Key
      /\ \A k \in Key \ {r.to} : inbox'[k] = inbox[k]
      /\ inbox'[r.to] = [id \in KeptBy(r) \cup {next} |->
           IF id = next THEN Record(r) ELSE inbox[r.to][id]]
  BY Inserted
<1>2. /\ posted' \in Seq(Request) /\ Len(posted') = next
      /\ DOMAIN posted' = DOMAIN posted \cup {next}
      /\ \A id \in DOMAIN posted : posted'[id] = posted[id]
      /\ posted'[next] = r
  BY <1>1, Posts
<1>3. Len(posted') <= MaxRows
  BY <1>1, <1>2, FileAssumption DEF Id
<1>4. ASSUME NEW id \in DOMAIN inbox[r.to]
      PROVE  /\ inbox[r.to][id] \in RecordType
             /\ inbox[r.to][id].req = posted'[id]
             /\ inbox[r.to][id].pushed => inbox[r.to][id].seen
             /\ id \in DOMAIN posted' /\ posted'[id].to = r.to
  BY <1>2, Records, RequestAssumption
<1>5. Record(r) \in RecordType /\ Record(r).req = r /\ ~ Record(r).pushed
  BY DEF Record, RecordType
<1>6. ASSUME NEW key \in Key
      PROVE  /\ DOMAIN inbox'[key] \subseteq {id \in DOMAIN posted' : posted'[id].to = key}
             /\ inbox'[key] \in [DOMAIN inbox'[key] -> RecordType]
             /\ \A id \in DOMAIN inbox'[key] :
                  /\ inbox'[key][id].req = posted'[id]
                  /\ inbox'[key][id].pushed => inbox'[key][id].seen
  <2>1. CASE key = r.to
    <3>1. /\ DOMAIN inbox'[key] = KeptBy(r) \cup {next}
          /\ KeptBy(r) \subseteq DOMAIN inbox[r.to]
      BY <1>1, <2>1 DEF KeptBy
    <3>2. ASSUME NEW id \in DOMAIN inbox'[key]
          PROVE  /\ id \in DOMAIN posted' /\ posted'[id].to = key
                 /\ inbox'[key][id] \in RecordType
                 /\ inbox'[key][id].req = posted'[id]
                 /\ inbox'[key][id].pushed => inbox'[key][id].seen
      <4>1. CASE id = next
        <5>1. inbox'[key][id] = Record(r)
          BY <1>1, <2>1, <4>1
        <5>2. QED
          BY <1>2, <1>5, <2>1, <4>1, <5>1
      <4>2. CASE id # next
        <5>1. inbox'[key][id] = inbox[r.to][id] /\ id \in DOMAIN inbox[r.to]
          BY <1>1, <2>1, <3>1, <4>2
        <5>2. QED
          BY <1>4, <2>1, <5>1
      <4>3. QED
        BY <4>1, <4>2
    <3>3. inbox'[key] = [id \in DOMAIN inbox'[key] |-> inbox'[key][id]]
      BY <1>1, <2>1
    <3>4. QED
      BY <3>2, <3>3
  <2>2. CASE key # r.to
    <3>1. inbox'[key] = inbox[key]
      BY <1>1, <2>2
    <3>2. \A id \in DOMAIN inbox[key] : posted'[id] = posted[id] /\ id \in DOMAIN posted'
      BY <1>2, Records
    <3>3. QED
      BY <3>1, <3>2 DEF TypeOK
  <2>3. QED
    BY <2>1, <2>2
<1>7. QED
  BY <1>1, <1>2, <1>3, <1>6 DEF RowsTyped
-----------------------------------------------------------------------------
\* The drains.

\* Where drain_once goes on after a poll or a record.
LEMMA AdvanceShape ==
  ASSUME NEW ch \in ChanState, NEW batch \in SUBSET Id, NEW pushed \in Nat
  PROVE  /\ Advance(ch, batch, pushed) \in ChanState
         /\ Advance(ch, batch, pushed).pc \in {"idle", "poll", "send"}
         /\ Advance(ch, batch, pushed).pc = "poll" =>
              /\ Advance(ch, batch, pushed).todo = ch.todo /\ ch.todo # <<>>
              /\ batch = {} \/ MaxPush <= pushed
         /\ Advance(ch, batch, pushed).pc = "send" =>
              /\ Advance(ch, batch, pushed).todo = ch.todo
              /\ Advance(ch, batch, pushed).key = ch.key
              /\ Advance(ch, batch, pushed).batch = batch /\ batch # {}
         /\ Advance(ch, batch, pushed).pc # "idle" =>
              Advance(ch, batch, pushed).pushed = pushed
         /\ Advance(ch, batch, pushed).pc = "idle" =>
              MaxPush <= pushed \/ (batch = {} /\ ch.todo = <<>>)
<1>0. MaxPush \in Nat
  BY FileAssumption
<1>1. CASE pushed < MaxPush /\ batch # {}
  BY <1>0, <1>1 DEF Advance, ChanState
<1>2. CASE pushed < MaxPush /\ batch = {} /\ ch.todo # <<>>
  BY <1>0, <1>2 DEF Advance, ChanState
<1>3. CASE ~(pushed < MaxPush) \/ (batch = {} /\ ch.todo = <<>>)
  <2>1. Advance(ch, batch, pushed) = Idle
    BY <1>3 DEF Advance
  <2>2. <<>> \in Seq(Key)
    OBVIOUS
  <2>3. QED
    BY <1>0, <1>3, <2>1, <2>2 DEF Idle, ChanState
<1>4. QED
  BY <1>1, <1>2, <1>3

\* A step of another process that saves the file.
LEMMA SaveKeeps ==
  ASSUME Kept, RowsTyped', mtime' = mtime + 1, UNCHANGED <<gate, chan, sent>>,
         DOMAIN posted \subseteq DOMAIN posted', owned' \subseteq DOMAIN posted'
  PROVE  Kept'
<1>1. mtime' \in Nat /\ 0 .. mtime \subseteq 0 .. mtime'
  BY DEF Kept, TypeOK
<1>2. gate' \in [Channel -> [seeded : BOOLEAN, last : 0 .. mtime', clean : BOOLEAN]]
  BY <1>1 DEF Kept, TypeOK
<1>3. TypeOK'
  BY <1>1, <1>2 DEF Kept, TypeOK, RowsTyped
<1>4. Drains'
  BY DEF Kept, Drains
<1>5. QED
  BY <1>3, <1>4 DEF Kept

\* A step of channel c.
LEMMA DrainKeeps ==
  ASSUME Kept, NEW c \in Channel, RowsTyped', UNCHANGED <<posted, owned>>,
         mtime' \in Nat, mtime <= mtime',
         sent \subseteq sent', sent' \subseteq DOMAIN posted,
         NEW g \in [seeded : BOOLEAN, last : 0 .. mtime', clean : BOOLEAN],
         gate' = [gate EXCEPT ![c] = g],
         NEW ch \in ChanState, chan' = [chan EXCEPT ![c] = ch],
         ch.pc = "poll" => ch.todo # <<>>,
         ch.pc \in {"send", "record"} =>
           ch.key \in Key /\ ch.batch # {} /\ ch.batch \subseteq DOMAIN posted,
         ch.pc = "record" => FirstOf(ch.batch) \in sent'
  PROVE  Kept'
<1>1. mtime \in Nat /\ 0 .. mtime \subseteq 0 .. mtime'
  BY DEF Kept, TypeOK
<1>2. gate' \in [Channel -> [seeded : BOOLEAN, last : 0 .. mtime', clean : BOOLEAN]]
  BY <1>1 DEF Kept, TypeOK
<1>3. TypeOK'
  BY <1>2 DEF Kept, TypeOK, RowsTyped
<1>4. chan'[c] = ch /\ \A d \in Channel \ {c} : chan'[d] = chan[d]
  BY DEF Kept, TypeOK
<1>5. Drains'
  <2> SUFFICES ASSUME NEW d \in Channel
               PROVE  /\ chan'[d].pc = "poll" => chan'[d].todo # <<>>
                      /\ chan'[d].pc \in {"send", "record"} =>
                           /\ chan'[d].key \in Key
                           /\ chan'[d].batch # {} /\ chan'[d].batch \subseteq DOMAIN posted'
                      /\ chan'[d].pc = "record" => FirstOf(chan'[d].batch) \in sent'
    BY DEF Drains
  <2>1. CASE d = c
    BY <1>4, <2>1
  <2>2. CASE d # c
    BY <1>4, <2>2 DEF Kept, Drains
  <2>3. QED
    BY <2>1, <2>2
<1>6. QED
  BY <1>3, <1>5 DEF Kept
-----------------------------------------------------------------------------
\* Every step keeps the types and the shape of the drains.

\* What is known of one channel.
LEMMA Found ==
  ASSUME Kept, NEW c \in Channel
  PROVE  /\ chan[c] \in ChanState
         /\ chan[c].pc \in {"idle", "poll", "send", "record"}
         /\ chan[c].todo \in Seq(Key) /\ chan[c].pushed \in Nat
         /\ chan[c].batch \in SUBSET Id
         /\ chan[c].pc = "poll" =>
              /\ chan[c].todo # <<>> /\ Head(chan[c].todo) \in Key
              /\ Tail(chan[c].todo) \in Seq(Key)
         /\ chan[c].pc \in {"send", "record"} =>
              /\ chan[c].key \in Key
              /\ chan[c].batch \subseteq DOMAIN posted
              /\ FirstOf(chan[c].batch) \in chan[c].batch
         /\ chan[c].pc = "record" => FirstOf(chan[c].batch) \in sent
         /\ gate[c] \in [seeded : BOOLEAN, last : 0 .. mtime, clean : BOOLEAN]
         /\ gate[c].last <= mtime /\ mtime \in Nat
<1>1. /\ chan[c] \in ChanState
      /\ gate[c] \in [seeded : BOOLEAN, last : 0 .. mtime, clean : BOOLEAN]
      /\ mtime \in Nat
  BY DEF Kept, TypeOK
<1>2. chan[c].pc = "poll" => chan[c].todo # <<>>
  BY DEF Kept, Drains
<1>3. chan[c].pc \in {"send", "record"} =>
        /\ chan[c].key \in Key
        /\ chan[c].batch \subseteq DOMAIN posted /\ chan[c].batch # {}
  BY DEF Kept, Drains
<1>4. chan[c].batch \in SUBSET Nat
  BY <1>1, FileAssumption DEF ChanState, Id
<1>5. chan[c].pc \in {"send", "record"} => FirstOf(chan[c].batch) \in chan[c].batch
  BY <1>3, <1>4, FirstIsLeast
<1>6. chan[c].todo \in Seq(Key)
  BY <1>1 DEF ChanState
<1>7. chan[c].pc = "poll" =>
        Head(chan[c].todo) \in Key /\ Tail(chan[c].todo) \in Seq(Key)
  BY <1>2, <1>6
<1>8. QED
  BY <1>1, <1>2, <1>3, <1>5, <1>6, <1>7 DEF ChanState, Kept, Drains

\* Posted ids are ids.
LEMMA PostedIds ==
  ASSUME TypeOK
  PROVE  DOMAIN posted \subseteq Id /\ DOMAIN posted \subseteq Nat
  BY FileAssumption DEF TypeOK, Id

\* A push receipt, of a record that is there or was dropped meanwhile.
LEMMA RecordRewrites ==
  ASSUME Kept, NEW c \in Channel, DrainRecord(c)
  PROVE  /\ Rewrites /\ chan[c].pc = "record"
         /\ \A k \in Key :
              Unseen(inbox[k]) \ Unseen(inbox'[k]) \subseteq {FirstOf(chan[c].batch)}
         /\ \/ mtime' = mtime + 1
            \/ /\ FirstOf(chan[c].batch) \notin DOMAIN inbox[chan[c].key]
               /\ UNCHANGED <<inbox, mtime>>
         /\ UNCHANGED <<posted, gate, sent, owned>>
         /\ chan' = [chan EXCEPT ![c] =
              Advance(@, @.batch \ {FirstOf(@.batch)}, @.pushed + 1)]
<1> DEFINE id == FirstOf(chan[c].batch)
           key == chan[c].key
<1>1. /\ chan[c].pc = "record" /\ UNCHANGED <<posted, gate, sent, owned>>
      /\ chan' = [chan EXCEPT ![c] =
           Advance(@, @.batch \ {FirstOf(@.batch)}, @.pushed + 1)]
      /\ IF id \in DOMAIN inbox[key] THEN Stamp(key, {id}, MarkPushed)
                                     ELSE UNCHANGED <<inbox, mtime>>
  BY DEF DrainRecord
<1>2. key \in Key /\ TypeOK
  BY <1>1, Found DEF Kept
<1>3. CASE id \in DOMAIN inbox[key]
  <2>0. PICK k \in Key : k = key
    BY <1>2
  <2>1. PICK i : k = key /\ i = id
    BY <2>0
  <2>2. Stamp(k, {i}, MarkPushed) /\ posted' = posted
    BY <1>1, <1>3, <2>1
  <2>3. /\ Rewrites /\ mtime' = mtime + 1
        /\ \A q \in Key : Unseen(inbox[q]) \ Unseen(inbox'[q]) \subseteq {i}
    BY <1>2, <2>2, PushStamped
  <2>4. QED
    BY <1>1, <2>1, <2>3
<1>4. CASE id \notin DOMAIN inbox[key]
  <2>1. Rewrites
    BY <1>1, <1>2, <1>4, Untouched
  <2>2. \A k \in Key : Unseen(inbox[k]) \ Unseen(inbox'[k]) \subseteq {}
    BY <1>1, <1>4
  <2>3. QED
    BY <1>1, <1>4, <2>1, <2>2
<1>5. QED
  BY <1>3, <1>4

LEMMA OthersKeep == Kept /\ Others => Kept'
<1> SUFFICES ASSUME Kept, Others PROVE Kept'
  OBVIOUS
<1>0. TypeOK /\ posted \in Seq(Request) /\ owned \subseteq DOMAIN posted
  BY DEF Kept, TypeOK
<1>1. ASSUME NEW r \in Request, Enqueue(r) PROVE Kept'
  <2>1. RowsTyped'
    BY <1>0, <1>1, InsertTyped
  <2>2. /\ posted' = Append(posted, r) /\ mtime' = mtime + 1
        /\ UNCHANGED <<gate, chan, sent, owned>>
    BY <1>0, <1>1, Inserted
  <2>3. DOMAIN posted \subseteq DOMAIN posted'
    BY <1>0, <2>2, Posts
  <2>4. QED
    BY <1>0, <2>1, <2>2, <2>3, SaveKeeps
<1>2. ASSUME NEW key \in Key, NEW ids \in SUBSET Id, Ack(key, ids) PROVE Kept'
  <2>1. /\ Rewrites /\ ids \subseteq DOMAIN posted
        /\ mtime' = mtime + 1 \/ UNCHANGED <<inbox, mtime>>
        /\ owned' = owned \cup ids
        /\ UNCHANGED <<posted, gate, chan, sent>>
    BY <1>0, <1>2, AckRewrites
  <2>2. CASE mtime' = mtime + 1
    BY <1>0, <2>1, <2>2, RewritesTyped, SaveKeeps
  <2>3. CASE UNCHANGED <<inbox, mtime>>
    BY <2>1, <2>3 DEF Kept, TypeOK, Drains
  <2>4. QED
    BY <2>1, <2>2, <2>3
<1>3. ASSUME NEW key \in Key, PollAck(key) PROVE Kept'
  <2>0. PICK ids : ids = Unseen(inbox[key])
    OBVIOUS
  <2>1. /\ Stamp(key, ids, MarkSeen) /\ posted' = posted
        /\ owned' = owned \cup ids /\ UNCHANGED <<gate, chan, sent>>
    BY <1>3, <2>0 DEF PollAck
  <2>2. Rewrites /\ mtime' = mtime + 1
    BY <1>0, <2>1, SeenStamped
  <2>3. ids \subseteq DOMAIN posted
    BY <1>0, <2>0, Records DEF Unseen
  <2>4. QED
    BY <1>0, <2>1, <2>2, <2>3, RewritesTyped, SaveKeeps
<1>4. ASSUME NEW key \in Key, NEW ids \in SUBSET Id, RecordConfirmation(key, ids)
      PROVE  Kept'
  <2>1. /\ Stamp(key, ids, MarkConfirmed)
        /\ UNCHANGED <<posted, gate, chan, sent, owned>>
    BY <1>4 DEF RecordConfirmation
  <2>2. Rewrites /\ mtime' = mtime + 1
    BY <1>0, <2>1, ConfirmStamped
  <2>3. QED
    BY <1>0, <2>1, <2>2, RewritesTyped, SaveKeeps
<1>5. CASE Collapse
  <2>1. Rewrites /\ mtime' = mtime + 1
    BY <1>0, <1>5, DigestsCollapsed
  <2>2. UNCHANGED <<posted, gate, chan, sent, owned>>
    BY <1>5 DEF Collapse
  <2>3. QED
    BY <1>0, <2>1, <2>2, RewritesTyped, SaveKeeps
<1>6. QED
  BY <1>1, <1>2, <1>3, <1>4, <1>5 DEF Others
\* The steps of a channel that leave the file alone.
LEMMA QuietKeeps ==
  ASSUME Kept, NEW c \in Channel, UNCHANGED <<inbox, mtime, posted, owned>>,
         sent \subseteq sent', sent' \subseteq DOMAIN posted,
         NEW g \in [seeded : BOOLEAN, last : 0 .. mtime, clean : BOOLEAN],
         gate' = [gate EXCEPT ![c] = g],
         NEW ch \in ChanState, chan' = [chan EXCEPT ![c] = ch],
         ch.pc = "poll" => ch.todo # <<>>,
         ch.pc \in {"send", "record"} =>
           ch.key \in Key /\ ch.batch # {} /\ ch.batch \subseteq DOMAIN posted,
         ch.pc = "record" => FirstOf(ch.batch) \in sent'
  PROVE  Kept'
<1>1. TypeOK /\ mtime \in Nat /\ mtime' \in Nat /\ mtime <= mtime'
  BY DEF Kept, TypeOK
<1>2. RowsTyped'
  BY <1>1, Untouched, RewritesTyped
<1>3. g \in [seeded : BOOLEAN, last : 0 .. mtime', clean : BOOLEAN]
  OBVIOUS
<1>4. QED
  BY <1>1, <1>2, <1>3, DrainKeeps

LEMMA IdleIsTyped == Idle \in ChanState /\ Idle.pc = "idle"
<1>1. <<>> \in Seq(Key)
  OBVIOUS
<1>2. QED
  BY <1>1 DEF Idle, ChanState

\* The gate of a channel with the failure noted, or as it is.
LEMMA GateNoted ==
  ASSUME Kept, NEW c \in Channel
  PROVE  /\ Failed(c) =>
              /\ [gate[c] EXCEPT !.clean = FALSE] \in
                   [seeded : BOOLEAN, last : 0 .. mtime, clean : BOOLEAN]
              /\ gate' = [gate EXCEPT ![c] = [gate[c] EXCEPT !.clean = FALSE]]
         /\ UNCHANGED gate => gate' = [gate EXCEPT ![c] = gate[c]]
<1>1. gate[c] \in [seeded : BOOLEAN, last : 0 .. mtime, clean : BOOLEAN]
  BY Found
<1>2. ASSUME Failed(c)
      PROVE  gate' = [gate EXCEPT ![c] = [gate[c] EXCEPT !.clean = FALSE]]
  BY <1>2 DEF Failed, Kept, TypeOK
<1>3. [gate[c] EXCEPT !.clean = FALSE] \in
        [seeded : BOOLEAN, last : 0 .. mtime, clean : BOOLEAN]
  BY <1>1
<1>4. UNCHANGED gate => gate' = [gate EXCEPT ![c] = gate[c]]
  BY DEF Kept, TypeOK
<1>5. QED
  BY <1>2, <1>3, <1>4

\* The state in which a tick leaves the drain.
LEMMA TickSets ==
  ASSUME Kept, NEW c \in Channel, NEW resolved \in BOOLEAN, Tick(c, resolved)
  PROVE  \E ch \in ChanState,
            g \in [seeded : BOOLEAN, last : 0 .. mtime, clean : BOOLEAN] :
           /\ chan' = [chan EXCEPT ![c] = ch] /\ gate' = [gate EXCEPT ![c] = g]
           /\ ch.pc = "poll" /\ ch.todo # <<>> /\ ch.pushed = 0
           /\ g.clean => ch.todo = ReadKeys[c]
           /\ UNCHANGED <<inbox, mtime, posted, sent, owned>>
<1>1. ReadKeys[c] \in Seq(Key) /\ ReadKeys[c] # <<>>
  BY FileAssumption
<1>2. KeysSeenBy(c, resolved) \in Seq(Key) /\ KeysSeenBy(c, resolved) # <<>>
  BY <1>1 DEF KeysSeenBy
<1>3. PICK ch : ch = [Idle EXCEPT !.pc = "poll", !.todo = KeysSeenBy(c, resolved)]
  OBVIOUS
<1>4. ch \in ChanState /\ ch.pc = "poll" /\ ch.pushed = 0
      /\ ch.todo = KeysSeenBy(c, resolved)
  BY <1>2, <1>3, IdleIsTyped DEF Idle, ChanState
<1>5. PICK g : g = [seeded |-> TRUE, last |-> mtime, clean |-> resolved]
  OBVIOUS
<1>6. mtime \in Nat
  BY DEF Kept, TypeOK
<1>7. g \in [seeded : BOOLEAN, last : 0 .. mtime, clean : BOOLEAN]
  BY <1>5, <1>6
<1>8. g.clean => ch.todo = ReadKeys[c]
  BY <1>4, <1>5 DEF KeysSeenBy
<1>9. /\ chan' = [chan EXCEPT ![c] = ch] /\ gate' = [gate EXCEPT ![c] = g]
      /\ UNCHANGED <<inbox, mtime, posted, sent, owned>>
  BY <1>3, <1>5 DEF Tick
<1>10. QED
  BY <1>2, <1>4, <1>7, <1>8, <1>9

\* The state in which a poll leaves the drain.
LEMMA PollSets ==
  ASSUME Kept, NEW c \in Channel, DrainPoll(c)
  PROVE  \E ch \in ChanState, key \in Key :
           /\ chan[c].pc = "poll" /\ chan[c].todo # <<>>
           /\ key = Head(chan[c].todo)
           /\ ch.key = key /\ ch.todo = Tail(chan[c].todo)
           /\ ch.pushed = chan[c].pushed
           /\ Unseen(inbox[key]) \subseteq DOMAIN posted
           /\ chan' = [chan EXCEPT ![c] = Advance(ch, Unseen(inbox[key]), ch.pushed)]
           /\ UNCHANGED <<inbox, mtime, posted, gate, sent, owned>>
<1>1. chan[c].pc = "poll"
  BY DEF DrainPoll
<1>2. PICK key \in Key : key = Head(chan[c].todo)
  BY <1>1, Found
<1>3. PICK ch : ch = [chan[c] EXCEPT !.key = key, !.todo = Tail(@)]
  OBVIOUS
<1>4. /\ ch \in ChanState /\ ch.key = key /\ ch.todo = Tail(chan[c].todo)
      /\ ch.pushed = chan[c].pushed
  BY <1>1, <1>3, Found DEF ChanState
<1>5. Unseen(inbox[key]) \subseteq DOMAIN posted
  BY Records DEF Kept, Unseen
<1>6. /\ chan' = [chan EXCEPT ![c] = Advance(ch, Unseen(inbox[key]), ch.pushed)]
      /\ UNCHANGED <<inbox, mtime, posted, gate, sent, owned>>
  BY <1>2, <1>3 DEF DrainPoll
<1>7. QED
  BY <1>1, <1>2, <1>4, <1>5, <1>6, Found

\* Where the drain is after a record is dealt with.
LEMMA RestSets ==
  ASSUME Kept, NEW c \in Channel, chan[c].pc \in {"send", "record"},
         NEW pushed \in Nat, NEW ch,
         ch = Advance(chan[c], chan[c].batch \ {FirstOf(chan[c].batch)}, pushed)
  PROVE  /\ ch \in ChanState /\ ch.pc # "record"
         /\ ch.pc = "poll" => ch.todo # <<>>
         /\ ch.pc = "send" =>
              ch.key \in Key /\ ch.batch # {} /\ ch.batch \subseteq DOMAIN posted
<1>1. PICK rest \in SUBSET Id : rest = chan[c].batch \ {FirstOf(chan[c].batch)}
  BY Found
<1>2. PICK old \in ChanState : old = chan[c]
  BY Found
<1>3. old.key \in Key /\ rest \subseteq DOMAIN posted
  BY <1>1, <1>2, Found
<1>4. ch = Advance(old, rest, pushed)
  BY <1>1, <1>2
<1>5. /\ ch \in ChanState
      /\ ch.pc \in {"idle", "poll", "send"}
      /\ ch.pc = "poll" => ch.todo # <<>>
      /\ ch.pc = "send" => ch.key = old.key /\ ch.batch = rest /\ rest # {}
  BY <1>4, AdvanceShape
<1>6. QED
  BY <1>3, <1>5

LEMMA DrainStepKeeps ==
  ASSUME Kept, NEW c \in Channel, Drain(c) \/ Restart(c)
  PROVE  Kept'
<1> DEFINE Gate == [seeded : BOOLEAN, last : 0 .. mtime, clean : BOOLEAN]
<1>0. /\ sent \subseteq DOMAIN posted /\ gate[c] \in Gate /\ chan[c].pushed \in Nat
      /\ chan[c].pushed + 1 \in Nat
  BY Found DEF Kept, TypeOK
<1>1. ASSUME NEW resolved \in BOOLEAN, Tick(c, resolved) PROVE Kept'
  <2>1. PICK ch \in ChanState, g \in Gate :
          /\ chan' = [chan EXCEPT ![c] = ch] /\ gate' = [gate EXCEPT ![c] = g]
          /\ ch.pc = "poll" /\ ch.todo # <<>>
          /\ UNCHANGED <<inbox, mtime, posted, sent, owned>>
    BY <1>1, TickSets
  <2>2. QED
    BY <1>0, <2>1, QuietKeeps
<1>2. CASE DrainPoll(c)
  <2>1. PICK old \in ChanState, key \in Key :
          /\ old.key = key
          /\ Unseen(inbox[key]) \subseteq DOMAIN posted /\ old.pushed \in Nat
          /\ chan' = [chan EXCEPT ![c] = Advance(old, Unseen(inbox[key]), old.pushed)]
          /\ UNCHANGED <<inbox, mtime, posted, gate, sent, owned>>
    BY <1>0, <1>2, PollSets
  <2>2. PICK batch \in SUBSET Id :
          batch = Unseen(inbox[key]) /\ batch \subseteq DOMAIN posted
    BY <2>1, PostedIds DEF Kept
  <2>3. PICK ch : ch = Advance(old, batch, old.pushed)
    OBVIOUS
  <2>4. /\ ch \in ChanState
        /\ ch.pc \in {"idle", "poll", "send"}
        /\ ch.pc = "poll" => ch.todo # <<>>
        /\ ch.pc = "send" => ch.key = old.key /\ ch.batch = batch /\ batch # {}
    BY <2>1, <2>3, AdvanceShape
  <2>5. /\ chan' = [chan EXCEPT ![c] = ch]
        /\ gate' = [gate EXCEPT ![c] = gate[c]]
    BY <2>1, <2>2, <2>3, GateNoted
  <2>6. /\ ch.pc # "record"
        /\ ch.pc \in {"send", "record"} =>
             ch.key \in Key /\ ch.batch # {} /\ ch.batch \subseteq DOMAIN posted
    BY <2>1, <2>2, <2>4
  <2>7. sent \subseteq sent' /\ sent' \subseteq DOMAIN posted
        /\ UNCHANGED <<inbox, mtime, posted, owned>>
    BY <1>0, <2>1
  <2>8. QED
    BY <1>0, <2>4, <2>5, <2>6, <2>7, QuietKeeps
<1>3. CASE DrainPollRaises(c)
  <2>1. /\ chan' = [chan EXCEPT ![c] = Idle] /\ Failed(c)
        /\ UNCHANGED <<inbox, mtime, posted, sent, owned>>
    BY <1>3 DEF DrainPollRaises
  <2>2. PICK g \in Gate : gate' = [gate EXCEPT ![c] = g]
    BY <2>1, GateNoted
  <2>3. PICK ch \in ChanState : ch = Idle /\ ch.pc = "idle"
    BY IdleIsTyped
  <2>4. chan' = [chan EXCEPT ![c] = ch]
    BY <2>1, <2>3
  <2>5. QED
    BY <1>0, <2>1, <2>2, <2>3, <2>4, QuietKeeps
<1>4. CASE DrainSend(c)
  <2>1. PICK ch : ch = [chan[c] EXCEPT !.pc = "record"]
    OBVIOUS
  <2>2. /\ chan[c].pc = "send" /\ sent' = sent \cup {FirstOf(chan[c].batch)}
        /\ chan' = [chan EXCEPT ![c] = ch]
        /\ UNCHANGED <<inbox, mtime, posted, gate, owned>>
    BY <1>4, <2>1 DEF DrainSend, Kept, TypeOK
  <2>3. /\ ch \in ChanState /\ ch.pc = "record"
        /\ ch.key = chan[c].key /\ ch.batch = chan[c].batch
    BY <2>1, Found DEF ChanState
  <2>4. /\ ch.key \in Key /\ ch.batch \subseteq DOMAIN posted
        /\ FirstOf(ch.batch) \in ch.batch
    BY <2>2, <2>3, Found
  <2>5. /\ sent \subseteq sent' /\ sent' \subseteq DOMAIN posted
        /\ FirstOf(ch.batch) \in sent' /\ ch.batch # {}
    BY <1>0, <2>2, <2>3, <2>4
  <2>6. gate' = [gate EXCEPT ![c] = gate[c]]
    BY <2>2, GateNoted
  <2>7. QED
    BY <1>0, <2>2, <2>3, <2>4, <2>5, <2>6, QuietKeeps
<1>5. CASE DrainSendFails(c) \/ DrainRecordFails(c)
  <2>1. PICK n \in Nat :
          /\ chan[c].pc \in {"send", "record"} /\ Failed(c)
          /\ chan' = [chan EXCEPT ![c] = Advance(@, @.batch \ {FirstOf(@.batch)}, n)]
          /\ UNCHANGED <<inbox, mtime, posted, sent, owned>>
    <3>1. CASE DrainSendFails(c)
      <4>1. /\ chan[c].pc = "send" /\ Failed(c)
            /\ chan' = [chan EXCEPT ![c] =
                 Advance(@, @.batch \ {FirstOf(@.batch)}, chan[c].pushed)]
            /\ UNCHANGED <<inbox, mtime, posted, sent, owned>>
        BY <3>1 DEF DrainSendFails
      <4>2. QED
        BY <1>0, <4>1
    <3>2. CASE DrainRecordFails(c)
      <4>1. /\ chan[c].pc = "record" /\ Failed(c)
            /\ chan' = [chan EXCEPT ![c] =
                 Advance(@, @.batch \ {FirstOf(@.batch)}, chan[c].pushed + 1)]
            /\ UNCHANGED <<inbox, mtime, posted, sent, owned>>
        BY <3>2 DEF DrainRecordFails
      <4>2. QED
        BY <1>0, <4>1
    <3>3. QED
      BY <1>5, <3>1, <3>2
  <2>2. PICK ch : ch = Advance(chan[c], chan[c].batch \ {FirstOf(chan[c].batch)}, n)
    OBVIOUS
  <2>3. /\ ch \in ChanState /\ ch.pc # "record"
        /\ ch.pc = "poll" => ch.todo # <<>>
        /\ ch.pc = "send" =>
             ch.key \in Key /\ ch.batch # {} /\ ch.batch \subseteq DOMAIN posted
    BY <2>1, <2>2, RestSets
  <2>4. chan' = [chan EXCEPT ![c] = ch]
    BY <2>1, <2>2
  <2>5. PICK g \in Gate : gate' = [gate EXCEPT ![c] = g]
    BY <2>1, GateNoted
  <2>6. QED
    BY <1>0, <2>1, <2>3, <2>4, <2>5, QuietKeeps
<1>6. CASE DrainRecord(c)
  <2>1. /\ Rewrites /\ chan[c].pc = "record"
        /\ mtime' = mtime + 1 \/ mtime' = mtime
        /\ UNCHANGED <<posted, gate, sent, owned>>
        /\ chan' = [chan EXCEPT ![c] =
             Advance(@, @.batch \ {FirstOf(@.batch)}, @.pushed + 1)]
    BY <1>6, RecordRewrites
  <2>2. PICK ch :
          ch = Advance(chan[c], chan[c].batch \ {FirstOf(chan[c].batch)},
                       chan[c].pushed + 1)
    OBVIOUS
  <2>3. /\ ch \in ChanState /\ ch.pc # "record"
        /\ ch.pc = "poll" => ch.todo # <<>>
        /\ ch.pc = "send" =>
             ch.key \in Key /\ ch.batch # {} /\ ch.batch \subseteq DOMAIN posted
    BY <1>0, <2>1, <2>2, RestSets
  <2>4. chan' = [chan EXCEPT ![c] = ch] /\ gate' = [gate EXCEPT ![c] = gate[c]]
    BY <2>1, <2>2, GateNoted
  <2>5. /\ mtime' \in Nat /\ mtime <= mtime'
        /\ gate[c] \in [seeded : BOOLEAN, last : 0 .. mtime', clean : BOOLEAN]
    <3>1. mtime \in Nat /\ 0 .. mtime \subseteq 0 .. mtime' /\ mtime <= mtime'
          /\ mtime' \in Nat
      BY <2>1, Found
    <3>2. QED
      BY <1>0, <3>1
  <2>6. RowsTyped'
    BY <2>1, RewritesTyped DEF Kept
  <2>7. QED
    BY <1>0, <2>1, <2>3, <2>4, <2>5, <2>6, DrainKeeps
<1>7. CASE Restart(c)
  <2>1. PICK ch \in ChanState : ch = Idle /\ ch.pc = "idle"
    BY IdleIsTyped
  <2>2. PICK g \in Gate : g = Unseeded
    <3>1. mtime \in Nat /\ 0 \in 0 .. mtime
      BY DEF Kept, TypeOK
    <3>2. Unseeded \in Gate
      BY <3>1 DEF Unseeded
    <3>3. QED
      BY <3>2
  <2>3. /\ chan' = [chan EXCEPT ![c] = ch] /\ gate' = [gate EXCEPT ![c] = g]
        /\ UNCHANGED <<inbox, mtime, posted, sent, owned>>
    BY <1>7, <2>1, <2>2 DEF Restart
  <2>4. QED
    BY <1>0, <2>1, <2>3, QuietKeeps
<1>8. QED
  BY <1>1, <1>2, <1>3, <1>4, <1>5, <1>6, <1>7 DEF Drain

\* The rows of the backlog are typed, and no drain has begun.
LEMMA InitKept == Init => Kept
<1> SUFFICES ASSUME Init PROVE Kept
  OBVIOUS
<1>1. posted = Backlog /\ Backlog \in Seq(Request) /\ Len(posted) <= MaxRows
  BY RequestAssumption, FileAssumption DEF Init
<1>2. ASSUME NEW r \in Request
      PROVE  Record(r) \in RecordType /\ Record(r).req = r /\ ~ Record(r).pushed
  BY DEF Record, RecordType
<1>3. DOMAIN inbox = Key
  BY DEF Init
<1>4. ASSUME NEW key \in Key
      PROVE  /\ DOMAIN inbox[key] \subseteq {id \in DOMAIN posted : posted[id].to = key}
             /\ inbox[key] \in [DOMAIN inbox[key] -> RecordType]
             /\ \A id \in DOMAIN inbox[key] :
                  /\ inbox[key][id].req = posted[id]
                  /\ inbox[key][id].pushed => inbox[key][id].seen
  <2>1. inbox[key] = [id \in {i \in DOMAIN posted : posted[i].to = key} |-> Record(posted[id])]
    BY <1>1 DEF Init
  <2>2. \A id \in DOMAIN posted : posted[id] \in Request
    BY <1>1
  <2>3. \A id \in DOMAIN inbox[key] :
          /\ id \in DOMAIN posted /\ posted[id].to = key
          /\ inbox[key][id] = Record(posted[id])
    BY <2>1
  <2>4. \A id \in DOMAIN inbox[key] :
          /\ inbox[key][id] \in RecordType
          /\ inbox[key][id].req = posted[id] /\ ~ inbox[key][id].pushed
    BY <1>2, <2>2, <2>3
  <2>5. inbox[key] \in [DOMAIN inbox[key] -> RecordType]
    BY <2>1, <2>4
  <2>6. QED
    BY <2>3, <2>4, <2>5
<1>5. mtime \in Nat /\ 0 \in 0 .. mtime
  BY DEF Init
<1>6. gate \in [Channel -> [seeded : BOOLEAN, last : 0 .. mtime, clean : BOOLEAN]]
  BY <1>5 DEF Init, Unseeded
<1>7. chan \in [Channel -> ChanState] /\ Drains
  BY IdleIsTyped DEF Init, Drains
<1>8. sent \subseteq DOMAIN posted /\ owned \subseteq DOMAIN posted
  BY DEF Init
<1>9. QED
  BY <1>1, <1>3, <1>4, <1>5, <1>6, <1>7, <1>8 DEF Kept, TypeOK

LEMMA KeptStep == Kept /\ [Next]_vars => Kept'
<1>1. CASE UNCHANGED vars
  BY <1>1 DEF vars, Kept, TypeOK, Drains
<1>2. QED
  BY <1>1, OthersKeep, DrainStepKeeps DEF Next

\* Every variable has the shape of what it stands for: an inbox holds posted
\* rows only, a push receipt implies the cursor, and no tick remembers an
\* mtime to come.  (_inbox._save_inboxes_unlocked, _channel_drain_state)
THEOREM FileTypeCorrect == Spec => []TypeOK
<1>1. Spec => []Kept
  BY InitKept, KeptStep, PTL DEF Spec
<1>2. Kept => TypeOK
  BY DEF Kept
<1>3. QED
  BY <1>1, <1>2, PTL
-----------------------------------------------------------------------------
\* The rows: which row stands for one that is gone.

\* In a typed state, a pending row.
LEMMA PendingRow ==
  ASSUME TypeOK, NEW id \in DOMAIN posted
  PROVE  posted[id].to \in Key /\ posted[id] \in Request
  BY RequestAssumption DEF TypeOK

\* Rewriting leaves every row standing that was, when the newly seen are taken.
LEMMA RewritingSurvives ==
  ASSUME TypeOK, Survives, Rewrites, Taken \subseteq Taken',
         \A k \in Key : Unseen(inbox[k]) \ Unseen(inbox'[k]) \subseteq Taken'
  PROVE  Survives'
<1>1. posted' = posted
  BY DEF Rewrites
<1>2. ASSUME NEW id \in DOMAIN posted, Stands(id)
      PROVE  Stands(id)'
  BY <1>1, <1>2, PendingRow DEF Stands, Pending
<1>3. ASSUME NEW id \in DOMAIN posted, NEW n \in DOMAIN posted
      PROVE  Succeeds(n, id) => Succeeds(n, id)'
  BY <1>1 DEF Succeeds, Newer
<1>4. QED
  BY <1>1, <1>2, <1>3 DEF Survives

\* It adds no pending digest either.
LEMMA RewritingLone ==
  ASSUME TypeOK, Lone, Rewrites
  PROVE  Lone'
<1>1. ASSUME NEW key \in Key
      PROVE  PendingDigests(key)' \subseteq PendingDigests(key)
  BY DEF Rewrites, PendingDigests, Unseen
<1>2. QED
  BY <1>1 DEF Lone

\* Pending digests are snapshots of their key.
LEMMA DigestRow ==
  ASSUME TypeOK, NEW key \in Key, NEW id \in PendingDigests(key)
  PROVE  /\ id \in DOMAIN posted /\ id \in Unseen(inbox[key])
         /\ posted[id].to = key /\ posted[id].subject = DigestSubject
         /\ posted[id].snapshot
<1>1. id \in DOMAIN inbox[key] /\ inbox[key][id].req.subject = DigestSubject
      /\ id \in Unseen(inbox[key])
  BY DEF PendingDigests, Unseen
<1>2. id \in DOMAIN posted /\ inbox[key][id].req = posted[id] /\ posted[id].to = key
  BY <1>1, Records
<1>3. posted[id] \in Request
  BY <1>2, PendingRow
<1>4. QED
  BY <1>1, <1>2, <1>3, RequestAssumption

\* The newest pending digest is not collapsed.
LEMMA NewestStays ==
  ASSUME TypeOK, NEW key \in Key, NEW id \in Stale(key)
  PROVE  \E n \in PendingDigests(key) \ Stale(key) : Newer(n, id)
<1>1. id \in PendingDigests(key)
  BY DEF Stale
<1>2. PICK ids : ids = PendingDigests(key)
  OBVIOUS
<1>3. ids \subseteq DOMAIN posted
  BY <1>2, DigestRow
<1>4. PICK n \in ids : \A i \in ids : i # n => Newer(n, i)
  BY <1>1, <1>2, <1>3, NewestExists
<1>5. ASSUME NEW other \in ids, Newer(other, n)
      PROVE  FALSE
  <2>1. other \in DOMAIN posted /\ n \in DOMAIN posted
    BY <1>3
  <2>2. other # n
    BY <1>5, <2>1, NewerIsAnOrder
  <2>3. Newer(n, other)
    BY <1>4, <2>2
  <2>4. Newer(n, n)
    BY <1>5, <2>1, <2>3, NewerIsAnOrder
  <2>5. QED
    BY <2>1, <2>4, NewerIsAnOrder
<1>6. n \notin Stale(key)
  BY <1>2, <1>5 DEF Stale
<1>7. n # id
  BY <1>6
<1>8. QED
  BY <1>1, <1>2, <1>4, <1>6, <1>7

\* What collapsing marks, the newest digest of the key stands for.
LEMMA CollapseSurvives ==
  ASSUME TypeOK, Survives, Lone, Collapse
  PROVE  Survives'
<1>1. /\ Rewrites
      /\ \A k \in Key : Unseen(inbox[k]) \ Unseen(inbox'[k]) \subseteq Stale(k)
  BY DigestsCollapsed
<1>2. posted' = posted /\ Taken' = Taken
  BY DEF Collapse, Taken
<1>3. ASSUME NEW id \in DOMAIN posted, NEW n \in DOMAIN posted
      PROVE  Succeeds(n, id)' <=> Succeeds(n, id)
  BY <1>2 DEF Succeeds, Newer
<1>4. ASSUME NEW n \in DOMAIN posted, Stands(n), ~ Stands(n)'
      PROVE  /\ posted[n].snapshot
             /\ n \in PendingDigests(posted[n].to)
             /\ \E m \in DOMAIN posted :
                  /\ m \in PendingDigests(posted[n].to)
                  /\ posted[m].to = posted[n].to /\ posted[m].subject = posted[n].subject
                  /\ Newer(m, n) /\ Stands(m)'
  <2>1. PICK key \in Key : key = posted[n].to
    BY PendingRow
  <2>2. n \in Unseen(inbox[key]) /\ n \notin Unseen(inbox'[key])
    BY <1>2, <1>4, <2>1 DEF Stands, Pending
  <2>3. n \in Stale(key) /\ n \in PendingDigests(key)
    BY <1>1, <2>2 DEF Stale
  <2>4. PICK m \in PendingDigests(key) : m \notin Stale(key) /\ Newer(m, n)
    BY <2>3, NewestStays
  <2>5. /\ m \in DOMAIN posted /\ m \in Unseen(inbox[key])
        /\ posted[m].to = key /\ posted[m].subject = DigestSubject
        /\ posted[n].subject = DigestSubject /\ posted[n].snapshot
    BY <2>3, <2>4, DigestRow
  <2>6. m \in Unseen(inbox'[key])
    BY <1>1, <2>4, <2>5
  <2>7. Stands(m)'
    BY <1>2, <2>5, <2>6 DEF Stands, Pending
  <2>8. QED
    BY <2>1, <2>3, <2>4, <2>5, <2>7
<1>5. SUFFICES ASSUME NEW id \in DOMAIN posted, ~ Stands(id)'
               PROVE  /\ posted[id].snapshot
                      /\ \E n \in DOMAIN posted : Succeeds(n, id) /\ Stands(n)'
  BY <1>2, <1>3 DEF Survives
<1>6. CASE Stands(id)
  <2>1. PICK m \in DOMAIN posted :
          /\ posted[m].to = posted[id].to /\ posted[m].subject = posted[id].subject
          /\ Newer(m, id) /\ Stands(m)'
    BY <1>4, <1>5, <1>6
  <2>2. QED
    BY <1>4, <1>5, <1>6, <2>1 DEF Succeeds
<1>7. CASE ~ Stands(id)
  <2>1. PICK n \in DOMAIN posted : Succeeds(n, id) /\ Stands(n) /\ posted[id].snapshot
    BY <1>7 DEF Survives
  <2>2. CASE Stands(n)'
    BY <2>1, <2>2
  <2>3. CASE ~ Stands(n)'
    <3>1. PICK m \in DOMAIN posted :
            /\ m \in PendingDigests(posted[n].to) /\ n \in PendingDigests(posted[n].to)
            /\ posted[m].to = posted[n].to /\ posted[m].subject = posted[n].subject
            /\ Newer(m, n) /\ Stands(m)'
      BY <1>4, <2>1, <2>3
    <3>2. posted[n].to \in Key
      BY PendingRow
    <3>3. ~ (n > Len(Backlog))
      <4>1. m # n
        BY <3>1, NewerIsAnOrder
      <4>2. QED
        BY <3>1, <3>2, <4>1 DEF Lone
    <3>4. Newer(n, id)
      BY <2>1, <3>3 DEF Succeeds
    <3>5. Newer(m, id)
      BY <3>1, <3>4, NewerIsAnOrder
    <3>6. Succeeds(m, id)
      BY <2>1, <3>1, <3>5 DEF Succeeds
    <3>7. QED
      BY <2>1, <3>1, <3>6
  <2>4. QED
    BY <2>2, <2>3
<1>8. QED
  BY <1>6, <1>7

\* The rows that an append drops are unseen rows of its subject.
LEMMA Dropped ==
  ASSUME TypeOK, NEW r \in Request, Enqueue(r), NEW id \in DOMAIN posted
  PROVE  /\ posted'[id] = posted[id] /\ id \in DOMAIN posted'
         /\ Pending(id) => \/ Pending(id)'
                           \/ /\ posted[id].to = r.to /\ posted[id].subject = r.subject
                              /\ posted[id].snapshot /\ r.snapshot
<1> DEFINE next == Len(posted) + 1
<1>1. /\ posted' = Append(posted, r) /\ DOMAIN inbox' = Key /\ r.to \in Key
      /\ \A k \in Key \ {r.to} : inbox'[k] = inbox[k]
      /\ inbox'[r.to] = [i \in KeptBy(r) \cup {next} |->
           IF i = next THEN Record(r) ELSE inbox[r.to][i]]
  BY Inserted
<1>2. posted'[id] = posted[id] /\ id \in DOMAIN posted' /\ id # next
  BY <1>1, Posts
<1>3. posted[id].to \in Key /\ posted[id] \in Request
  BY PendingRow
<1>4. ASSUME Pending(id), ~ Pending(id)'
      PROVE  /\ posted[id].to = r.to /\ posted[id].subject = r.subject
             /\ posted[id].snapshot /\ r.snapshot
  <2>1. posted[id].to = r.to
    BY <1>1, <1>2, <1>3, <1>4 DEF Pending
  <2>2. id \in DOMAIN inbox[r.to] /\ ~ inbox[r.to][id].seen
    BY <1>4, <2>1 DEF Pending, Unseen
  <2>3. id \notin KeptBy(r)
    <3>1. SUFFICES ASSUME id \in KeptBy(r) PROVE FALSE
      OBVIOUS
    <3>2. inbox'[r.to][id] = inbox[r.to][id] /\ id \in DOMAIN inbox'[r.to]
      BY <1>1, <1>2, <3>1
    <3>3. id \in Unseen(inbox'[r.to])
      BY <2>2, <3>2 DEF Unseen
    <3>4. QED
      BY <1>2, <1>4, <2>1, <3>3 DEF Pending
  <2>4. r.snapshot /\ inbox[r.to][id].req.subject = r.subject
    BY <2>2, <2>3 DEF KeptBy
  <2>5. posted[id].subject = r.subject
    BY <1>1, <2>2, <2>4, Records
  <2>6. posted[id].snapshot
    BY <1>3, <2>4, <2>5, RequestAssumption
  <2>7. QED
    BY <2>1, <2>4, <2>5, <2>6
<1>5. QED
  BY <1>2, <1>4

\* A new row is pending, and stands for what it dropped.
LEMMA EnqueueSurvives ==
  ASSUME TypeOK, Grown, Survives, NEW r \in Request, Enqueue(r)
  PROVE  Survives' /\ Grown'
<1>1. PICK next : next = Len(posted) + 1
  OBVIOUS
<1>2. /\ posted' = Append(posted, r) /\ Taken' = Taken /\ r.to \in Key
      /\ inbox'[r.to] = [i \in KeptBy(r) \cup {next} |->
           IF i = next THEN Record(r) ELSE inbox[r.to][i]]
  BY <1>1, Inserted DEF Taken
<1>3. /\ DOMAIN posted' = DOMAIN posted \cup {next} /\ posted'[next] = r
      /\ Len(posted') = next /\ next \in Nat /\ next \notin DOMAIN posted
      /\ \A id \in DOMAIN posted : posted'[id] = posted[id] /\ next > id
      /\ Len(posted) \in Nat
  BY <1>1, <1>2, Posts
<1>4. next > Len(Backlog) /\ Len(Backlog) <= Len(posted')
  <2>1. Len(Backlog) \in Nat
    BY RequestAssumption
  <2>2. QED
    BY <1>1, <1>3, <2>1 DEF Grown
<1>5. Stands(next)'
  <2>1. next \in Unseen(inbox'[r.to])
    BY <1>2 DEF Unseen, Record
  <2>2. QED
    BY <1>3, <2>1 DEF Stands, Pending
<1>6. ASSUME NEW id \in DOMAIN posted, Stands(id), ~ Stands(id)'
      PROVE  /\ posted[id].to = r.to /\ posted[id].subject = r.subject
             /\ posted[id].snapshot
  BY <1>2, <1>6, Dropped DEF Stands
<1>7. ASSUME NEW id \in DOMAIN posted,
             posted[id].to = r.to, posted[id].subject = r.subject
      PROVE  Succeeds(next, id)'
  <2>1. posted'[id].to = posted'[next].to /\ posted'[next].subject = posted'[id].subject
    BY <1>3, <1>7
  <2>2. next > id
    BY <1>3
  <2>3. QED
    BY <1>4, <2>1, <2>2 DEF Succeeds
<1>8. ASSUME NEW id \in DOMAIN posted, ~ Stands(id)'
      PROVE  /\ posted'[id].snapshot
             /\ \E n \in DOMAIN posted' : Succeeds(n, id)' /\ Stands(n)'
  <2>1. CASE Stands(id)
    BY <1>3, <1>5, <1>6, <1>7, <1>8, <2>1
  <2>2. CASE ~ Stands(id)
    <3>1. PICK n \in DOMAIN posted :
            posted[id].snapshot /\ Succeeds(n, id) /\ Stands(n)
      BY <2>2 DEF Survives
    <3>2. CASE Stands(n)'
      <4>1. Succeeds(n, id)'
        BY <1>3, <3>1 DEF Succeeds, Newer
      <4>2. QED
        BY <1>3, <3>1, <3>2, <4>1
    <3>3. CASE ~ Stands(n)'
      <4>1. posted[id].to = r.to /\ posted[id].subject = r.subject
        BY <1>6, <3>1, <3>3 DEF Succeeds
      <4>2. QED
        BY <1>3, <1>5, <1>7, <3>1, <4>1
    <3>4. QED
      BY <3>2, <3>3
  <2>3. QED
    BY <2>1, <2>2
<1>9. QED
  BY <1>3, <1>4, <1>5, <1>8 DEF Survives, Grown

\* A digest is appended after the pending ones of its key are dropped.
LEMMA EnqueueLone ==
  ASSUME TypeOK, Lone, NEW r \in Request, Enqueue(r)
  PROVE  Lone'
<1>1. PICK next : next = Len(posted) + 1
  OBVIOUS
<1>2. /\ \A k \in Key \ {r.to} : inbox'[k] = inbox[k]
      /\ inbox'[r.to] = [i \in KeptBy(r) \cup {next} |->
           IF i = next THEN Record(r) ELSE inbox[r.to][i]]
  BY <1>1, Inserted
<1>3. Record(r).req = r
  BY DEF Record
<1>4. ASSUME NEW key \in Key
      PROVE  \A i, j \in PendingDigests(key)' : i > Len(Backlog) => i = j
  <2>1. CASE key # r.to
    <3>1. PendingDigests(key)' = PendingDigests(key)
      BY <1>2, <2>1 DEF PendingDigests
    <3>2. QED
      BY <3>1 DEF Lone
  <2>2. CASE key = r.to /\ r.subject = DigestSubject
    <3>1. r.snapshot
      BY <2>2, RequestAssumption
    <3>2. PendingDigests(key)' \subseteq {next}
      BY <1>2, <2>2, <3>1 DEF PendingDigests, Unseen, KeptBy
    <3>3. QED
      BY <3>2
  <2>3. CASE key = r.to /\ r.subject # DigestSubject
    <3>1. PendingDigests(key)' \subseteq PendingDigests(key)
      BY <1>2, <1>3, <2>3 DEF PendingDigests, Unseen, KeptBy
    <3>2. QED
      BY <3>1 DEF Lone
  <2>4. QED
    BY <2>1, <2>2, <2>3
<1>5. QED
  BY <1>4 DEF Lone
-----------------------------------------------------------------------------
LEMMA InitRows == Init => RowsInv
<1> SUFFICES ASSUME Init PROVE RowsInv
  OBVIOUS
<1>1. Kept /\ posted = Backlog
  BY InitKept DEF Init
<1>2. Len(posted) \in Nat /\ DOMAIN posted = 1 .. Len(posted)
  BY <1>1 DEF Kept, TypeOK
<1>3. Grown
  BY <1>1, <1>2 DEF Grown
<1>4. ASSUME NEW id \in DOMAIN posted
      PROVE  Pending(id)
  <2>1. posted[id].to \in Key
    BY <1>1, PendingRow DEF Kept
  <2>2. /\ id \in DOMAIN inbox[posted[id].to]
        /\ inbox[posted[id].to][id] = Record(Backlog[id])
    BY <1>1, <2>1 DEF Init
  <2>3. QED
    BY <2>2 DEF Pending, Unseen, Record
<1>5. Survives
  BY <1>4 DEF Survives, Stands
<1>6. ASSUME NEW key \in Key, NEW i \in PendingDigests(key)
      PROVE  ~ (i > Len(Backlog))
  <2>1. i \in DOMAIN posted
    BY <1>1, <1>6, DigestRow DEF Kept
  <2>2. QED
    BY <1>1, <1>2, <2>1
<1>7. Lone
  BY <1>6 DEF Lone
<1>8. QED
  BY <1>1, <1>3, <1>5, <1>7 DEF RowsInv

\* A step that rewrites records keeps the rows when the newly seen are taken.
LEMMA RewritingRows ==
  ASSUME RowsInv, Kept', Rewrites, Taken \subseteq Taken',
         \A k \in Key : Unseen(inbox[k]) \ Unseen(inbox'[k]) \subseteq Taken'
  PROVE  RowsInv'
<1>1. TypeOK /\ Survives /\ Lone /\ Grown
  BY DEF RowsInv, Kept
<1>2. Survives' /\ Lone'
  BY <1>1, RewritingSurvives, RewritingLone
<1>3. Grown'
  BY <1>1 DEF Grown, Rewrites
<1>4. QED
  BY <1>2, <1>3 DEF RowsInv

LEMMA OthersRows == RowsInv /\ Others => RowsInv'
<1> SUFFICES ASSUME RowsInv, Others PROVE RowsInv'
  OBVIOUS
<1>0. Kept /\ TypeOK /\ Survives /\ Lone /\ Grown /\ Kept'
  BY OthersKeep DEF RowsInv, Kept
<1>1. ASSUME NEW r \in Request, Enqueue(r) PROVE RowsInv'
  BY <1>0, <1>1, EnqueueSurvives, EnqueueLone DEF RowsInv
<1>2. ASSUME NEW key \in Key, NEW ids \in SUBSET Id, Ack(key, ids) PROVE RowsInv'
  <2>1. /\ Rewrites /\ owned' = owned \cup ids /\ UNCHANGED sent
        /\ \A k \in Key : Unseen(inbox[k]) \ Unseen(inbox'[k]) \subseteq ids
    BY <1>0, <1>2, AckRewrites
  <2>2. Taken \subseteq Taken' /\ ids \subseteq Taken'
    BY <2>1 DEF Taken
  <2>3. QED
    BY <1>0, <2>1, <2>2, RewritingRows
<1>3. ASSUME NEW key \in Key, PollAck(key) PROVE RowsInv'
  <2>0. PICK ids : ids = Unseen(inbox[key])
    OBVIOUS
  <2>1. /\ Stamp(key, ids, MarkSeen) /\ posted' = posted
        /\ Taken \subseteq Taken' /\ ids \subseteq Taken'
    BY <1>3, <2>0 DEF PollAck, Taken
  <2>2. /\ Rewrites
        /\ \A k \in Key : Unseen(inbox[k]) \ Unseen(inbox'[k]) \subseteq ids
    BY <1>0, <2>1, SeenStamped
  <2>3. QED
    BY <1>0, <2>1, <2>2, RewritingRows
<1>4. ASSUME NEW key \in Key, NEW ids \in SUBSET Id, RecordConfirmation(key, ids)
      PROVE  RowsInv'
  <2>1. Stamp(key, ids, MarkConfirmed) /\ posted' = posted /\ Taken' = Taken
    BY <1>4 DEF RecordConfirmation, Taken
  <2>2. Rewrites /\ \A k \in Key : Unseen(inbox[k]) \subseteq Unseen(inbox'[k])
    BY <1>0, <2>1, ConfirmStamped
  <2>3. QED
    BY <1>0, <2>1, <2>2, RewritingRows
<1>5. CASE Collapse
  <2>1. Rewrites
    BY <1>0, <1>5, DigestsCollapsed
  <2>2. Survives' /\ Lone'
    BY <1>0, <1>5, <2>1, CollapseSurvives, RewritingLone
  <2>3. Grown'
    BY <1>0, <2>1 DEF Grown, Rewrites
  <2>4. QED
    BY <1>0, <2>2, <2>3 DEF RowsInv
<1>6. QED
  BY <1>1, <1>2, <1>3, <1>4, <1>5 DEF Others

LEMMA DrainRows ==
  ASSUME RowsInv, NEW c \in Channel, Drain(c) \/ Restart(c)
  PROVE  RowsInv'
<1>0. Kept /\ TypeOK /\ Kept'
  BY DrainStepKeeps DEF RowsInv, Kept
<1>1. CASE DrainRecord(c)
  <2>1. /\ Rewrites /\ chan[c].pc = "record" /\ Taken' = Taken
        /\ \A k \in Key :
             Unseen(inbox[k]) \ Unseen(inbox'[k]) \subseteq {FirstOf(chan[c].batch)}
    BY <1>0, <1>1, RecordRewrites DEF Taken
  <2>2. FirstOf(chan[c].batch) \in Taken'
    BY <1>0, <2>1, Found DEF Taken
  <2>3. QED
    BY <1>0, <2>1, <2>2, RewritingRows
<1>2. CASE ~ DrainRecord(c)
  <2>1. UNCHANGED <<inbox, posted, owned>> /\ sent \subseteq sent'
    BY <1>2 DEF Drain, Tick, DrainPoll, DrainPollRaises, DrainSend, DrainSendFails,
                DrainRecordFails, Restart
  <2>2. Rewrites /\ Taken \subseteq Taken'
    BY <1>0, <2>1, Untouched DEF Taken
  <2>3. \A k \in Key : Unseen(inbox[k]) \ Unseen(inbox'[k]) \subseteq Taken'
    BY <2>1
  <2>4. QED
    BY <1>0, <2>2, <2>3, RewritingRows
<1>3. QED
  BY <1>1, <1>2

LEMMA RowsStep == RowsInv /\ [Next]_vars => RowsInv'
<1>1. CASE UNCHANGED vars
  BY <1>1 DEF vars, RowsInv, Kept, TypeOK, Drains, Grown, Survives, Succeeds, Newer,
              Stands, Taken, Pending, Lone, PendingDigests
<1>2. QED
  BY <1>1, OthersRows, DrainRows DEF Next

\* No pending row is lost for any requests and backlog: superseding drops and
\* collapsing marks a row only where a newer one of its subject stands.
\* (_inbox.enqueue, _inbox_maint.collapse_digests)
THEOREM PendingSnapshotSurvives == Spec => []SnapshotSurvives
<1>1. Spec => []RowsInv
  BY InitRows, RowsStep, PTL DEF Spec
<1>2. RowsInv => SnapshotSurvives
  <2> SUFFICES ASSUME RowsInv, NEW id \in DOMAIN posted, id \notin Taken,
                      ~ Pending(id)
               PROVE  /\ posted[id].snapshot
                      /\ \E n \in DOMAIN posted :
                           /\ posted[n].to = posted[id].to
                           /\ posted[n].subject = posted[id].subject
                           /\ n > id \/ posted[n].instant > posted[id].instant
                           /\ Pending(n) \/ n \in Taken
    BY DEF SnapshotSurvives, Taken
  <2>1. PICK n \in DOMAIN posted : posted[id].snapshot /\ Succeeds(n, id) /\ Stands(n)
    BY DEF RowsInv, Survives, Stands
  <2>2. n > id \/ posted[n].instant > posted[id].instant
    BY <2>1 DEF Succeeds, Newer
  <2>3. QED
    BY <2>1, <2>2 DEF Succeeds, Stands
<1>3. QED
  BY <1>1, <1>2, PTL
-----------------------------------------------------------------------------
\* The gate.

\* A poll takes a key from those that are left.
LEMMA HeadAndTail ==
  ASSUME NEW keys \in Seq(Key), keys # <<>>
  PROVE  KeysIn(keys) = {Head(keys)} \cup KeysIn(Tail(keys))
<1>1. KeysIn(keys) \subseteq {Head(keys)} \cup KeysIn(Tail(keys))
  <2>1. SUFFICES ASSUME NEW i \in DOMAIN keys, i # 1
                 PROVE  \E j \in DOMAIN Tail(keys) : Tail(keys)[j] = keys[i]
    BY DEF KeysIn
  <2>2. i - 1 \in DOMAIN Tail(keys) /\ Tail(keys)[i - 1] = keys[i]
    BY <2>1
  <2>3. QED
    BY <2>2
<1>2. {Head(keys)} \cup KeysIn(Tail(keys)) \subseteq KeysIn(keys)
  <2>1. Head(keys) = keys[1] /\ 1 \in DOMAIN keys
    OBVIOUS
  <2>2. ASSUME NEW j \in DOMAIN Tail(keys)
        PROVE  j + 1 \in DOMAIN keys /\ keys[j + 1] = Tail(keys)[j]
    OBVIOUS
  <2>3. QED
    BY <2>1, <2>2 DEF KeysIn
<1>3. QED
  BY <1>1, <1>2

\* A save opens every gate: no tick has seen the mtime that it sets.
LEMMA SaveOpens ==
  ASSUME Kept, Kept', mtime' = mtime + 1, UNCHANGED gate
  PROVE  GateInv'
<1>1. ASSUME NEW c \in Channel
      PROVE  mtime' # gate'[c].last
  <2>1. gate[c].last <= mtime /\ gate[c].last \in Nat /\ mtime \in Nat
    BY Found
  <2>2. QED
    BY <2>1
<1>2. QED
  BY <1>1 DEF GateInv, GateKnows, Sees

\* A step of one channel that leaves the file alone is about that channel.
LEMMA OneKnows ==
  ASSUME GateInv, Kept', NEW c \in Channel, UNCHANGED <<inbox, mtime>>,
         NEW g, gate' = [gate EXCEPT ![c] = g],
         NEW ch, chan' = [chan EXCEPT ![c] = ch],
         Sees(g) => Knows(c, ch)
  PROVE  GateInv'
<1>1. /\ gate'[c] = g /\ chan'[c] = ch
      /\ \A d \in Channel \ {c} : gate'[d] = gate[d] /\ chan'[d] = chan[d]
  BY DEF GateInv, Kept, TypeOK
<1>2. ASSUME NEW d \in Channel, Sees(gate'[d])
      PROVE  Knows(d, chan'[d])
  <2>1. CASE d = c
    BY <1>1, <1>2, <2>1
  <2>2. CASE d # c
    BY <1>1, <1>2, <2>2 DEF GateInv, GateKnows
  <2>3. QED
    BY <2>1, <2>2
<1>3. QED
  BY <1>2 DEF GateInv, GateKnows, Sees, Knows

\* A failure is noted: the tick does not count as clean.
LEMMA FailureKnown ==
  ASSUME GateInv, Kept', NEW c \in Channel, UNCHANGED <<inbox, mtime>>, Failed(c),
         NEW ch, chan' = [chan EXCEPT ![c] = ch]
  PROVE  GateInv'
<1>1. PICK g : g = [gate[c] EXCEPT !.clean = FALSE]
  OBVIOUS
<1>2. gate' = [gate EXCEPT ![c] = g]
  BY <1>1, GateNoted DEF GateInv
<1>3. ~ g.clean
  BY <1>1, Found DEF GateInv
<1>4. ~ Sees(g)
  BY <1>3 DEF Sees
<1>5. QED
  BY <1>2, <1>4, OneKnows

\* A poll leaves the rows of its key at hand, or a key with none behind.
LEMMA PollKnows ==
  ASSUME GateInv, Kept', NEW c \in Channel, DrainPoll(c)
  PROVE  GateInv'
<1>0. Kept /\ gate' = [gate EXCEPT ![c] = gate[c]]
  BY GateNoted DEF GateInv, DrainPoll
<1>1. PICK old \in ChanState, key \in Key :
        /\ chan[c].pc = "poll" /\ chan[c].todo # <<>>
        /\ key = Head(chan[c].todo) /\ old.key = key
        /\ old.todo = Tail(chan[c].todo) /\ old.pushed = chan[c].pushed
        /\ Unseen(inbox[key]) \subseteq DOMAIN posted
        /\ chan' = [chan EXCEPT ![c] = Advance(old, Unseen(inbox[key]), old.pushed)]
        /\ UNCHANGED <<inbox, mtime>>
  BY <1>0, PollSets
<1>2. PICK batch \in SUBSET Id : batch = Unseen(inbox[key])
  BY <1>0, <1>1, PostedIds DEF Kept
<1>3. PICK ch : ch = Advance(old, batch, old.pushed)
  OBVIOUS
<1>4. chan' = [chan EXCEPT ![c] = ch]
  BY <1>1, <1>2, <1>3
<1>5. Left(chan[c]) = {key} \cup KeysIn(old.todo)
  <2>1. chan[c].todo \in Seq(Key)
    BY <1>0, Found
  <2>2. KeysIn(chan[c].todo) = {key} \cup KeysIn(old.todo)
    BY <1>1, <2>1, HeadAndTail
  <2>3. QED
    BY <1>1, <2>2 DEF Left
<1>6. ASSUME Sees(gate[c])
      PROVE  Knows(c, ch)
  <2>1. /\ chan[c].pushed = 0
        /\ \A k \in KeysIn(ReadKeys[c]) : Unseen(inbox[k]) = {} \/ k \in Left(chan[c])
    BY <1>1, <1>6 DEF GateInv, GateKnows, Knows
  <2>2. ~ (MaxPush <= old.pushed) /\ old.pushed = 0 /\ old.pushed \in Nat
    BY <1>1, <2>1, FileAssumption
  <2>3. /\ ch \in ChanState /\ ch.pc \in {"idle", "poll", "send"}
        /\ ch.pc = "poll" => ch.todo = old.todo /\ batch = {}
        /\ ch.pc = "send" => ch.todo = old.todo /\ ch.key = old.key /\ ch.batch = batch
        /\ ch.pc # "idle" => ch.pushed = 0
        /\ ch.pc = "idle" => batch = {} /\ old.todo = <<>>
    BY <1>3, <2>2, AdvanceShape
  <2>4. ASSUME NEW k \in KeysIn(ReadKeys[c]), Unseen(inbox[k]) # {}
        PROVE  k \in Left(ch)
    <3>1. k = key \/ k \in KeysIn(old.todo)
      BY <1>5, <2>1, <2>4
    <3>2. CASE ch.pc = "send"
      BY <1>1, <2>3, <3>1, <3>2 DEF Left
    <3>3. CASE ch.pc = "poll"
      <4>1. k # key
        BY <1>2, <2>3, <2>4, <3>3
      <4>2. QED
        BY <2>3, <3>1, <3>3, <4>1 DEF Left
    <3>4. CASE ch.pc = "idle"
      <4>1. k # key /\ KeysIn(old.todo) = {}
        BY <1>2, <2>3, <2>4, <3>4 DEF KeysIn
      <4>2. QED
        BY <3>1, <4>1
    <3>5. QED
      BY <2>3, <3>2, <3>3, <3>4
  <2>5. ch.pc \in {"send", "record"} => ch.batch = Unseen(inbox[ch.key])
    BY <1>1, <1>2, <2>3
  <2>6. QED
    BY <2>3, <2>4, <2>5 DEF Knows
<1>7. QED
  BY <1>0, <1>1, <1>4, <1>6, OneKnows

\* While the file is as the tick saw it, the row at hand is there: its receipt
\* is a save.
LEMMA RecordKnows ==
  ASSUME GateInv, Kept', NEW c \in Channel, DrainRecord(c)
  PROVE  GateInv'
<1>1. /\ Kept /\ chan[c].pc = "record" /\ UNCHANGED gate
      /\ \/ mtime' = mtime + 1
         \/ /\ FirstOf(chan[c].batch) \notin DOMAIN inbox[chan[c].key]
            /\ UNCHANGED <<inbox, mtime>>
      /\ chan' = [chan EXCEPT ![c] =
           Advance(@, @.batch \ {FirstOf(@.batch)}, @.pushed + 1)]
  BY RecordRewrites DEF GateInv
<1>2. CASE mtime' = mtime + 1
  BY <1>1, <1>2, SaveOpens
<1>3. CASE /\ FirstOf(chan[c].batch) \notin DOMAIN inbox[chan[c].key]
           /\ UNCHANGED <<inbox, mtime>>
  <2>1. ~ Sees(gate[c])
    <3>1. SUFFICES ASSUME Sees(gate[c]) PROVE FALSE
      OBVIOUS
    <3>2. chan[c].batch = Unseen(inbox[chan[c].key])
      BY <1>1, <3>1 DEF GateInv, GateKnows, Knows
    <3>3. FirstOf(chan[c].batch) \in chan[c].batch
      BY <1>1, Found
    <3>4. QED
      BY <1>3, <3>2, <3>3 DEF Unseen
  <2>2. PICK ch : ch = Advance(chan[c], chan[c].batch \ {FirstOf(chan[c].batch)},
                               chan[c].pushed + 1)
    OBVIOUS
  <2>3. chan' = [chan EXCEPT ![c] = ch] /\ gate' = [gate EXCEPT ![c] = gate[c]]
    BY <1>1, <2>2, GateNoted
  <2>4. QED
    BY <1>3, <2>1, <2>3, OneKnows
<1>4. QED
  BY <1>1, <1>2, <1>3

LEMMA DrainKnows ==
  ASSUME GateInv, NEW c \in Channel, Drain(c) \/ Restart(c)
  PROVE  GateInv'
<1>0. Kept /\ Kept'
  BY DrainStepKeeps DEF GateInv
<1>1. ASSUME NEW resolved \in BOOLEAN, Tick(c, resolved) PROVE GateInv'
  <2>1. PICK ch \in ChanState, g \in [seeded : BOOLEAN, last : 0 .. mtime, clean : BOOLEAN] :
          /\ chan' = [chan EXCEPT ![c] = ch] /\ gate' = [gate EXCEPT ![c] = g]
          /\ ch.pc = "poll" /\ ch.pushed = 0
          /\ g.clean => ch.todo = ReadKeys[c]
          /\ UNCHANGED <<inbox, mtime>>
    BY <1>0, <1>1, TickSets
  <2>2. Sees(g) => Knows(c, ch)
    BY <2>1 DEF Sees, Knows, Left
  <2>3. QED
    BY <1>0, <2>1, <2>2, OneKnows
<1>2. CASE DrainPoll(c)
  BY <1>0, <1>2, PollKnows
<1>3. CASE DrainPollRaises(c)
  <2>1. chan' = [chan EXCEPT ![c] = Idle] /\ Failed(c) /\ UNCHANGED <<inbox, mtime>>
    BY <1>3 DEF DrainPollRaises
  <2>2. PICK ch : ch = Idle
    OBVIOUS
  <2>3. QED
    BY <1>0, <2>1, <2>2, FailureKnown
<1>4. CASE DrainSend(c)
  <2>1. PICK ch : ch = [chan[c] EXCEPT !.pc = "record"]
    OBVIOUS
  <2>2. /\ chan[c].pc = "send" /\ chan' = [chan EXCEPT ![c] = ch]
        /\ UNCHANGED <<inbox, mtime, gate>>
    BY <1>0, <1>4, <2>1 DEF DrainSend, Kept, TypeOK
  <2>3. /\ ch.pc = "record" /\ ch.key = chan[c].key /\ ch.batch = chan[c].batch
        /\ ch.todo = chan[c].todo /\ ch.pushed = chan[c].pushed
    BY <1>0, <2>1, Found DEF ChanState
  <2>4. Left(ch) = Left(chan[c])
    BY <2>2, <2>3 DEF Left
  <2>5. Sees(gate[c]) => Knows(c, ch)
    BY <2>2, <2>3, <2>4 DEF GateInv, GateKnows, Knows
  <2>6. gate' = [gate EXCEPT ![c] = gate[c]]
    BY <1>0, <2>2, GateNoted
  <2>7. QED
    BY <1>0, <2>2, <2>5, <2>6, OneKnows
<1>5. CASE DrainSendFails(c)
  <2>1. PICK ch : ch = Advance(chan[c], chan[c].batch \ {FirstOf(chan[c].batch)},
                               chan[c].pushed)
    OBVIOUS
  <2>2. chan' = [chan EXCEPT ![c] = ch] /\ Failed(c) /\ UNCHANGED <<inbox, mtime>>
    BY <1>5, <2>1 DEF DrainSendFails
  <2>3. QED
    BY <1>0, <2>2, FailureKnown
<1>6. CASE DrainRecord(c)
  BY <1>0, <1>6, RecordKnows
<1>7. CASE DrainRecordFails(c)
  <2>1. PICK ch : ch = Advance(chan[c], chan[c].batch \ {FirstOf(chan[c].batch)},
                               chan[c].pushed + 1)
    OBVIOUS
  <2>2. chan' = [chan EXCEPT ![c] = ch] /\ Failed(c) /\ UNCHANGED <<inbox, mtime>>
    BY <1>7, <2>1 DEF DrainRecordFails
  <2>3. QED
    BY <1>0, <2>2, FailureKnown
<1>8. CASE Restart(c)
  <2>1. PICK ch, g : ch = Idle /\ g = Unseeded
    OBVIOUS
  <2>2. /\ chan' = [chan EXCEPT ![c] = ch] /\ gate' = [gate EXCEPT ![c] = g]
        /\ UNCHANGED <<inbox, mtime>>
    BY <1>8, <2>1 DEF Restart
  <2>3. ~ Sees(g)
    BY <2>1 DEF Sees, Unseeded
  <2>4. QED
    BY <1>0, <2>2, <2>3, OneKnows
<1>9. QED
  BY <1>1, <1>2, <1>3, <1>4, <1>5, <1>6, <1>7, <1>8 DEF Drain

LEMMA OthersKnow == GateInv /\ Others => GateInv'
<1> SUFFICES ASSUME GateInv, Others PROVE GateInv'
  OBVIOUS
<1>1. Kept /\ Kept'
  BY OthersKeep DEF GateInv
<1>2. /\ mtime' = mtime + 1 \/ UNCHANGED <<inbox, mtime, chan>>
      /\ UNCHANGED gate
  BY DEF Others, Enqueue, Ack, PollAck, RecordConfirmation, Collapse, Stamp, Save
<1>3. CASE mtime' = mtime + 1
  BY <1>1, <1>2, <1>3, SaveOpens
<1>4. CASE UNCHANGED <<inbox, mtime, chan>>
  BY <1>1, <1>2, <1>4 DEF GateInv, GateKnows, Sees, Knows
<1>5. QED
  BY <1>2, <1>3, <1>4

LEMMA GateStep == GateInv /\ [Next]_vars => GateInv'
<1> SUFFICES ASSUME GateInv, [Next]_vars PROVE GateInv'
  OBVIOUS
<1>1. CASE UNCHANGED vars
  <2>1. Kept'
    BY KeptStep DEF GateInv
  <2>2. QED
    BY <1>1, <2>1 DEF vars, GateInv, GateKnows, Sees, Knows
<1>2. QED
  BY <1>1, OthersKnow, DrainKnows DEF Next

\* A closed gate hides nothing, for any keys, burst cap and interleaving of
\* channels: while the mtime is the one of a clean tick, its drain has saved
\* nothing, so it has found nothing or has the rows still at hand.
\* (_channel_drain_state.should_drain, _mcp_channel.drain_once)
THEOREM ClosedGateIsEmpty == Spec => []ClosedGateHidesNothing
<1>1. Init => GateInv
  <2>1. Init => \A c \in Channel : ~ gate[c].seeded
    BY DEF Init, Unseeded
  <2>2. QED
    BY <2>1, InitKept DEF GateInv, GateKnows, Sees
<1>2. Spec => []GateInv
  BY <1>1, GateStep, PTL DEF Spec
<1>3. GateInv => ClosedGateHidesNothing
  <2> SUFFICES ASSUME GateInv, NEW c \in Channel, chan[c].pc = "idle", ~ GateOpen(c),
                      gate[c].clean, NEW i \in DOMAIN ReadKeys[c]
               PROVE  Unseen(inbox[ReadKeys[c][i]]) = {}
    BY DEF ClosedGateHidesNothing
  <2>1. Sees(gate[c])
    BY DEF GateOpen, Sees
  <2>2. ReadKeys[c][i] \in KeysIn(ReadKeys[c]) /\ Left(chan[c]) = {}
    BY DEF KeysIn, Left
  <2>3. QED
    BY <2>1, <2>2 DEF GateInv, GateKnows, Knows
<1>4. QED
  BY <1>2, <1>3, PTL
-----------------------------------------------------------------------------
\* The file keeps the promise of the rail.

\* What the recipient took is seen, and only that is confirmed.
RailInv ==
  /\ Kept
  /\ owned \cap PendingRows = {}
  /\ ConfirmedRows \subseteq owned

\* What the marks do to the cursor and to the receipts.
LEMMA MarkedFields ==
  ASSUME NEW rec \in RecordType
  PROVE  /\ MarkSeen(rec).seen /\ MarkSeen(rec).pushed = rec.pushed
         /\ MarkSeen(rec).confirmed = rec.confirmed
         /\ MarkPushed(rec).seen /\ MarkPushed(rec).pushed
         /\ MarkPushed(rec).confirmed = rec.confirmed
         /\ MarkConfirmed(rec).seen = rec.seen /\ MarkConfirmed(rec).confirmed
         /\ MarkConfirmed(rec).pushed = rec.pushed
  BY DEF RecordType, MarkSeen, MarkPushed, MarkConfirmed

\* The record of a filed row.
LEMMA FiledRecord ==
  ASSUME TypeOK, NEW id \in DOMAIN posted, Filed(id)
  PROVE  posted[id].to \in Key /\ inbox[posted[id].to][id] \in RecordType
  BY PendingRow, Records DEF Filed

\* The rows of a file of which no record was added or removed.
LEMMA RewrittenRows ==
  ASSUME TypeOK, Rewrites
  PROVE  /\ PendingRows' =
              {id \in DOMAIN posted : Filed(id) /\ ~ inbox'[posted[id].to][id].seen}
         /\ PushedRows' =
              {id \in DOMAIN posted : Filed(id) /\ inbox'[posted[id].to][id].pushed}
         /\ ConfirmedRows' =
              {id \in DOMAIN posted : Filed(id) /\ inbox'[posted[id].to][id].confirmed}
<1>1. posted' = posted
  BY DEF Rewrites
<1>2. ASSUME NEW id \in DOMAIN posted
      PROVE  DOMAIN inbox'[posted[id].to] = DOMAIN inbox[posted[id].to]
  BY PendingRow DEF Rewrites
<1>3. ASSUME NEW id \in DOMAIN posted
      PROVE  /\ Filed(id)' <=> Filed(id)
             /\ Pending(id)' <=> Filed(id) /\ ~ inbox'[posted[id].to][id].seen
  BY <1>1, <1>2 DEF Filed, Pending, Unseen
<1>4. QED
  BY <1>1, <1>3 DEF PendingRows, PushedRows, ConfirmedRows

\* The rows of a file in which only those in ids have other records.
LEMMA OtherRecords ==
  ASSUME TypeOK, NEW key \in Key, NEW ids \in SUBSET DOMAIN inbox[key],
         NEW id \in DOMAIN posted, Filed(id),
         \A k \in Key \ {key} : inbox'[k] = inbox[k],
         \A i \in DOMAIN inbox[key] \ ids : inbox'[key][i] = inbox[key][i]
  PROVE  /\ id \in ids => posted[id].to = key
         /\ id \notin ids => inbox'[posted[id].to][id] = inbox[posted[id].to][id]
<1>1. posted[id].to \in Key /\ id \in DOMAIN inbox[posted[id].to]
  BY FiledRecord DEF Filed
<1>2. id \in ids => posted[id].to = key
  BY Records
<1>3. CASE posted[id].to = key
  BY <1>1, <1>2, <1>3
<1>4. CASE posted[id].to # key
  BY <1>1, <1>2, <1>4
<1>5. QED
  BY <1>3, <1>4

LEMMA SeenRows ==
  ASSUME TypeOK, NEW key \in Key, NEW ids \in SUBSET DOMAIN inbox[key],
         Stamp(key, ids, MarkSeen), posted' = posted
  PROVE  /\ PendingRows' = PendingRows \ ids
         /\ PushedRows' = PushedRows /\ ConfirmedRows' = ConfirmedRows
<1>1. Rewrites
  BY SeenStamped
<1>2. /\ \A k \in Key \ {key} : inbox'[k] = inbox[k]
      /\ inbox'[key] = [id \in DOMAIN inbox[key] |->
           IF id \in ids THEN MarkSeen(inbox[key][id]) ELSE inbox[key][id]]
  BY DEF Stamp, Save, Rewritten, TypeOK
<1>3. ASSUME NEW id \in DOMAIN posted, Filed(id)
      PROVE  inbox'[posted[id].to][id] =
               IF id \in ids THEN MarkSeen(inbox[posted[id].to][id])
                             ELSE inbox[posted[id].to][id]
  <2>1. \A i \in DOMAIN inbox[key] \ ids : inbox'[key][i] = inbox[key][i]
    BY <1>2
  <2>2. /\ id \in ids => posted[id].to = key
        /\ id \notin ids => inbox'[posted[id].to][id] = inbox[posted[id].to][id]
    BY <1>2, <1>3, <2>1, OtherRecords
  <2>3. QED
    BY <1>2, <2>2
<1>4. ASSUME NEW id \in DOMAIN posted, Filed(id)
      PROVE  /\ inbox'[posted[id].to][id].seen
                  <=> inbox[posted[id].to][id].seen \/ id \in ids
             /\ inbox'[posted[id].to][id].pushed <=> inbox[posted[id].to][id].pushed
             /\ inbox'[posted[id].to][id].confirmed
                  <=> inbox[posted[id].to][id].confirmed
  BY <1>3, <1>4, FiledRecord, MarkedFields
<1>5. QED
  BY <1>1, <1>4, RewrittenRows
     DEF PendingRows, PushedRows, ConfirmedRows, Pending, Unseen, Filed

LEMMA RowsPushed ==
  ASSUME TypeOK, NEW key \in Key, NEW ids \in SUBSET DOMAIN inbox[key],
         Stamp(key, ids, MarkPushed), posted' = posted
  PROVE  /\ PendingRows' = PendingRows \ ids
         /\ PushedRows' = PushedRows \cup ids /\ ConfirmedRows' = ConfirmedRows
<1>1. Rewrites
  BY PushStamped
<1>2. /\ \A k \in Key \ {key} : inbox'[k] = inbox[k]
      /\ inbox'[key] = [id \in DOMAIN inbox[key] |->
           IF id \in ids THEN MarkPushed(inbox[key][id]) ELSE inbox[key][id]]
  BY DEF Stamp, Save, Rewritten, TypeOK
<1>3. ASSUME NEW id \in DOMAIN posted, Filed(id)
      PROVE  inbox'[posted[id].to][id] =
               IF id \in ids THEN MarkPushed(inbox[posted[id].to][id])
                             ELSE inbox[posted[id].to][id]
  <2>1. \A i \in DOMAIN inbox[key] \ ids : inbox'[key][i] = inbox[key][i]
    BY <1>2
  <2>2. /\ id \in ids => posted[id].to = key
        /\ id \notin ids => inbox'[posted[id].to][id] = inbox[posted[id].to][id]
    BY <1>2, <1>3, <2>1, OtherRecords
  <2>3. QED
    BY <1>2, <2>2
<1>4. ASSUME NEW id \in DOMAIN posted, Filed(id)
      PROVE  /\ inbox'[posted[id].to][id].seen
                  <=> inbox[posted[id].to][id].seen \/ id \in ids
             /\ inbox'[posted[id].to][id].pushed
                  <=> inbox[posted[id].to][id].pushed \/ id \in ids
             /\ inbox'[posted[id].to][id].confirmed
                  <=> inbox[posted[id].to][id].confirmed
  BY <1>3, <1>4, FiledRecord, MarkedFields
<1>5. \A id \in ids : id \in DOMAIN posted /\ Filed(id)
  BY Records DEF Filed
<1>6. QED
  BY <1>1, <1>4, <1>5, RewrittenRows
     DEF PendingRows, PushedRows, ConfirmedRows, Pending, Unseen, Filed

LEMMA RowsConfirmed ==
  ASSUME TypeOK, NEW key \in Key, NEW ids \in SUBSET DOMAIN inbox[key],
         Stamp(key, ids, MarkConfirmed), posted' = posted
  PROVE  /\ PendingRows' = PendingRows /\ PushedRows' = PushedRows
         /\ ConfirmedRows' = ConfirmedRows \cup ids
<1>1. Rewrites
  BY ConfirmStamped
<1>2. /\ \A k \in Key \ {key} : inbox'[k] = inbox[k]
      /\ inbox'[key] = [id \in DOMAIN inbox[key] |->
           IF id \in ids THEN MarkConfirmed(inbox[key][id]) ELSE inbox[key][id]]
  BY DEF Stamp, Save, Rewritten, TypeOK
<1>3. ASSUME NEW id \in DOMAIN posted, Filed(id)
      PROVE  inbox'[posted[id].to][id] =
               IF id \in ids THEN MarkConfirmed(inbox[posted[id].to][id])
                             ELSE inbox[posted[id].to][id]
  <2>1. \A i \in DOMAIN inbox[key] \ ids : inbox'[key][i] = inbox[key][i]
    BY <1>2
  <2>2. /\ id \in ids => posted[id].to = key
        /\ id \notin ids => inbox'[posted[id].to][id] = inbox[posted[id].to][id]
    BY <1>2, <1>3, <2>1, OtherRecords
  <2>3. QED
    BY <1>2, <2>2
<1>4. ASSUME NEW id \in DOMAIN posted, Filed(id)
      PROVE  /\ inbox'[posted[id].to][id].seen <=> inbox[posted[id].to][id].seen
             /\ inbox'[posted[id].to][id].pushed <=> inbox[posted[id].to][id].pushed
             /\ inbox'[posted[id].to][id].confirmed
                  <=> inbox[posted[id].to][id].confirmed \/ id \in ids
  BY <1>3, <1>4, FiledRecord, MarkedFields
<1>5. \A id \in ids : id \in DOMAIN posted /\ Filed(id)
  BY Records DEF Filed
<1>6. QED
  BY <1>1, <1>4, <1>5, RewrittenRows
     DEF PendingRows, PushedRows, ConfirmedRows, Pending, Unseen, Filed

\* What does not touch the file leaves its rows as they are.
LEMMA RowsUntouched ==
  ASSUME UNCHANGED <<inbox, posted>>
  PROVE  /\ PendingRows' = PendingRows /\ PushedRows' = PushedRows
         /\ ConfirmedRows' = ConfirmedRows
  BY DEF PendingRows, PushedRows, ConfirmedRows, Pending, Filed

\* An ack takes the rows it names out of the pending ones.
LEMMA RowsAcked ==
  ASSUME TypeOK, NEW key \in Key, NEW ids, Ack(key, ids)
  PROVE  /\ ids \subseteq DOMAIN posted /\ UNCHANGED <<posted, sent>>
         /\ owned' = owned \cup ids
         /\ PendingRows' = PendingRows \ ids
         /\ PushedRows' = PushedRows /\ ConfirmedRows' = ConfirmedRows
<1>1. /\ ids \subseteq DOMAIN posted /\ UNCHANGED <<posted, sent>>
      /\ owned' = owned \cup ids
  BY AckRewrites
<1>2. ids \in SUBSET DOMAIN inbox[key]
  BY DEF Ack
<1>3. CASE Stamp(key, ids, MarkSeen)
  <2>1. posted' = posted
    BY <1>1
  <2>2. /\ PendingRows' = PendingRows \ ids
        /\ PushedRows' = PushedRows /\ ConfirmedRows' = ConfirmedRows
    BY <1>2, <1>3, <2>1, SeenRows
  <2>3. QED
    BY <1>1, <2>2
<1>4. CASE ids \cap Unseen(inbox[key]) = {} /\ UNCHANGED <<inbox, mtime>>
  <2>1. PendingRows \ ids = PendingRows
    <3>1. ASSUME NEW id \in PendingRows, id \in ids
          PROVE  FALSE
      <4>1. posted[id].to = key
        BY <1>2, <3>1, Records
      <4>2. QED
        BY <1>4, <3>1, <4>1 DEF PendingRows, Pending
    <3>2. QED
      BY <3>1
  <2>2. QED
    BY <1>1, <1>4, <2>1, RowsUntouched
<1>5. QED
  BY <1>3, <1>4 DEF Ack

\* Of the pending digests of a key, collapsing leaves one that is newest.
LEMMA RowsCollapsed ==
  ASSUME TypeOK, Collapse
  PROVE  /\ PendingRows' \subseteq PendingRows
         /\ \A id \in PendingRows : \E kept \in PendingRows' :
              /\ kept \in DOMAIN posted
              /\ posted[kept].to = posted[id].to
              /\ posted[kept].subject = posted[id].subject
         /\ PushedRows' = PushedRows /\ ConfirmedRows' = ConfirmedRows
<1>1. /\ Rewrites /\ posted' = posted
      /\ \A k \in Key : Unseen(inbox[k]) \ Unseen(inbox'[k]) \subseteq Stale(k)
  BY DigestsCollapsed DEF Collapse
<1>2. \A key \in Key : \A id \in DOMAIN inbox[key] :
        /\ inbox'[key][id].pushed <=> inbox[key][id].pushed
        /\ inbox'[key][id].confirmed <=> inbox[key][id].confirmed
        /\ inbox[key][id].seen => inbox'[key][id].seen
  <2>1. inbox' = [key \in Key |-> [id \in DOMAIN inbox[key] |->
           IF id \in Stale(key) THEN MarkSeen(inbox[key][id]) ELSE inbox[key][id]]]
    BY DEF Collapse, Save, Rewritten
  <2>2. QED
    BY <2>1, Records, MarkedFields
<1>3. ASSUME NEW id \in DOMAIN posted, Filed(id)
      PROVE  posted[id].to \in Key /\ id \in DOMAIN inbox[posted[id].to]
  BY <1>3, FiledRecord DEF Filed
<1>4. PushedRows' = PushedRows /\ ConfirmedRows' = ConfirmedRows
  BY <1>1, <1>2, <1>3, RewrittenRows DEF PushedRows, ConfirmedRows
<1>5. PendingRows' \subseteq PendingRows
  BY <1>1, <1>2, <1>3, RewrittenRows DEF PendingRows, Pending, Unseen, Filed
<1>6. ASSUME NEW id \in PendingRows
      PROVE  \E kept \in PendingRows' :
               /\ kept \in DOMAIN posted
               /\ posted[kept].to = posted[id].to
               /\ posted[kept].subject = posted[id].subject
  <2>1. PICK key \in Key : key = posted[id].to
    BY PendingRow DEF PendingRows
  <2>2. id \in DOMAIN posted /\ id \in Unseen(inbox[key])
    BY <2>1 DEF PendingRows, Pending
  <2>3. ASSUME NEW n \in DOMAIN posted, n \in Unseen(inbox'[key]), posted[n].to = key
        PROVE  n \in PendingRows'
    BY <1>1, <2>3 DEF PendingRows, Pending
  <2>4. CASE id \in Unseen(inbox'[key])
    BY <2>1, <2>2, <2>3, <2>4
  <2>5. CASE id \notin Unseen(inbox'[key])
    <3>1. id \in Stale(key) /\ id \in PendingDigests(key)
      BY <1>1, <2>2, <2>5 DEF Stale
    <3>2. PICK n \in PendingDigests(key) : n \notin Stale(key)
      BY <3>1, NewestStays
    <3>3. /\ n \in DOMAIN posted /\ n \in Unseen(inbox[key])
          /\ posted[n].to = key /\ posted[n].subject = posted[id].subject
      BY <3>1, <3>2, DigestRow
    <3>4. n \in Unseen(inbox'[key])
      BY <1>1, <3>2, <3>3
    <3>5. QED
      BY <2>1, <2>3, <3>3, <3>4
  <2>6. QED
    BY <2>4, <2>5
<1>7. QED
  BY <1>4, <1>5, <1>6

\* An append drops waiting rows of its stream and adds one; what is seen stays.
LEMMA RowsInserted ==
  ASSUME RailInv, NEW r \in Request, Enqueue(r), NEW next, next = Len(posted) + 1
  PROVE  /\ PendingRows' = (PendingRows \ (PendingRows \ PendingRows')) \cup {next}
         /\ \A id \in PendingRows \ PendingRows' :
              posted[id].to = r.to /\ posted[id].subject = r.subject
         /\ PushedRows' = PushedRows /\ ConfirmedRows' = ConfirmedRows
<1>1. TypeOK /\ r.to \in Key
  BY RequestAssumption DEF RailInv, Kept
<1>2. /\ posted' = Append(posted, r) /\ DOMAIN inbox' = Key
      /\ \A k \in Key \ {r.to} : inbox'[k] = inbox[k]
      /\ inbox'[r.to] = [i \in KeptBy(r) \cup {next} |->
           IF i = next THEN Record(r) ELSE inbox[r.to][i]]
  BY <1>1, Inserted
<1>3. /\ DOMAIN posted' = DOMAIN posted \cup {next} /\ posted'[next] = r
      /\ next \notin DOMAIN posted
      /\ \A id \in DOMAIN posted : posted'[id] = posted[id]
  BY <1>1, <1>2, Posts
<1>4. /\ next \in PendingRows' /\ next \notin PushedRows' /\ next \notin ConfirmedRows'
  <2>1. next \in DOMAIN inbox'[r.to] /\ inbox'[r.to][next] = Record(r)
    BY <1>2
  <2>2. QED
    BY <1>3, <2>1 DEF PendingRows, PushedRows, ConfirmedRows, Pending, Unseen, Record
<1>5. ASSUME NEW id \in DOMAIN posted
      PROVE  /\ posted'[id].to = posted[id].to
             /\ Filed(id)' => Filed(id)
             /\ Filed(id)' => inbox'[posted[id].to][id] = inbox[posted[id].to][id]
             /\ Filed(id) /\ inbox[posted[id].to][id].seen => Filed(id)'
  <2>1. posted[id].to \in Key /\ id # next /\ posted'[id] = posted[id]
    BY <1>1, <1>3, PendingRow
  <2>2. CASE posted[id].to = r.to
    BY <1>2, <2>1, <2>2 DEF Filed, KeptBy
  <2>3. CASE posted[id].to # r.to
    BY <1>2, <2>1, <2>3 DEF Filed
  <2>4. QED
    BY <2>1, <2>2, <2>3
<1>6. ASSUME NEW id \in DOMAIN posted
      PROVE  /\ id \in PendingRows' => id \in PendingRows
             /\ id \in PushedRows' => id \in PushedRows
             /\ id \in ConfirmedRows' => id \in ConfirmedRows
  BY <1>3, <1>5 DEF PendingRows, PushedRows, ConfirmedRows, Pending, Unseen, Filed
<1>7. ASSUME NEW id \in DOMAIN posted, Filed(id), inbox[posted[id].to][id].seen
      PROVE  /\ id \in PushedRows => id \in PushedRows'
             /\ id \in ConfirmedRows => id \in ConfirmedRows'
  BY <1>3, <1>5, <1>7 DEF PushedRows, ConfirmedRows
<1>8. ASSUME NEW id \in PushedRows \cup ConfirmedRows
      PROVE  id \in DOMAIN posted /\ Filed(id) /\ inbox[posted[id].to][id].seen
  <2>1. id \in DOMAIN posted /\ Filed(id) /\ posted[id].to \in Key
    BY <1>1, PendingRow DEF PushedRows, ConfirmedRows
  <2>2. CASE id \in PushedRows
    BY <1>1, <2>1, <2>2, Records DEF PushedRows, Filed
  <2>3. CASE id \in ConfirmedRows
    <3>1. id \notin PendingRows
      BY <2>3 DEF RailInv
    <3>2. QED
      BY <2>1, <3>1 DEF PendingRows, Pending, Unseen, Filed
  <2>4. QED
    BY <2>2, <2>3
<1>9. PushedRows' = PushedRows /\ ConfirmedRows' = ConfirmedRows
  <2>1. PushedRows' \subseteq DOMAIN posted' /\ ConfirmedRows' \subseteq DOMAIN posted'
    BY DEF PushedRows, ConfirmedRows
  <2>2. PushedRows' \subseteq PushedRows /\ ConfirmedRows' \subseteq ConfirmedRows
    BY <1>3, <1>4, <1>6, <2>1
  <2>3. PushedRows \subseteq PushedRows' /\ ConfirmedRows \subseteq ConfirmedRows'
    BY <1>7, <1>8
  <2>4. QED
    BY <2>2, <2>3
<1>10. ASSUME NEW id \in PendingRows \ PendingRows'
       PROVE  posted[id].to = r.to /\ posted[id].subject = r.subject
  <2>1. id \in DOMAIN posted /\ Pending(id)
    BY DEF PendingRows
  <2>2. id \in DOMAIN posted' /\ ~ Pending(id)'
    BY <1>3, <2>1 DEF PendingRows
  <2>3. QED
    BY <1>1, <2>1, <2>2, Dropped
<1>11. PendingRows' \subseteq PendingRows \cup {next}
  BY <1>3, <1>6 DEF PendingRows
<1>12. QED
  BY <1>4, <1>9, <1>10, <1>11

LEMMA InitRail == Init => RailInv /\ Rail!Init
<1> SUFFICES ASSUME Init PROVE RailInv /\ Rail!Init
  OBVIOUS
<1>1. Kept /\ TypeOK /\ posted = Backlog
  BY InitKept DEF Init, Kept
<1>2. ASSUME NEW id \in DOMAIN posted
      PROVE  /\ posted[id] \in Request
             /\ id \in DOMAIN inbox[posted[id].to]
             /\ inbox[posted[id].to][id] = Record(posted[id])
  <2>1. posted[id] \in Request /\ posted[id].to \in Key
    BY <1>1, PendingRow
  <2>2. QED
    BY <1>1, <2>1 DEF Init
<1>3. /\ PendingRows = DOMAIN posted
      /\ PushedRows = {} /\ ConfirmedRows = {}
  <2>1. ASSUME NEW id \in DOMAIN posted
        PROVE  /\ Pending(id)
               /\ ~ inbox[posted[id].to][id].pushed
               /\ ~ inbox[posted[id].to][id].confirmed
    <3>1. /\ ~ inbox[posted[id].to][id].seen
          /\ ~ inbox[posted[id].to][id].pushed
          /\ ~ inbox[posted[id].to][id].confirmed
      <4>1. PICK r : r = posted[id]
        OBVIOUS
      <4>2. ~ Record(r).seen /\ ~ Record(r).pushed /\ ~ Record(r).confirmed
        BY DEF Record
      <4>3. inbox[posted[id].to][id] = Record(r)
        BY <1>2, <4>1
      <4>4. QED
        BY <4>2, <4>3
    <3>2. QED
      BY <1>2, <3>1 DEF Pending, Unseen
  <2>2. QED
    BY <2>1 DEF PendingRows, PushedRows, ConfirmedRows
<1>4. sent = {} /\ owned = {}
  BY DEF Init
<1>5. RailInv
  BY <1>1, <1>3, <1>4 DEF RailInv
<1>6. Rail!Posted = DOMAIN posted /\ DOMAIN posted \subseteq Id
  BY <1>1, PostedIds DEF Rail!Posted
<1>7. \A id \in DOMAIN posted :
        <<posted[id].to, posted[id].subject>> \in {<<r.to, r.subject>> : r \in Request}
  BY <1>2
<1>8. Rail!Init
  BY <1>3, <1>4, <1>6, <1>7 DEF Rail!Init
<1>9. QED
  BY <1>5, <1>8

\* A step that moves none of the latches leaves the rail alone.
LEMMA RailStutters ==
  ASSUME posted' = posted, UNCHANGED <<sent, owned>>, PendingRows' = PendingRows,
         PushedRows' = PushedRows, ConfirmedRows' = ConfirmedRows
  PROVE  UNCHANGED Rail!vars
  BY DEF Rail!vars

\* Superseding and collapsing are the rail's, in one stream.
LEMMA EnqueuePosts ==
  ASSUME RailInv, NEW r \in Request, Enqueue(r)
  PROVE  Rail!Next /\ owned' \cap PendingRows' = {} /\ ConfirmedRows' \subseteq owned'
<1>1. TypeOK /\ owned \subseteq DOMAIN posted
  BY DEF RailInv, Kept, TypeOK
<1>2. PICK next \in Id, stream \in {<<q.to, q.subject>> : q \in Request} :
        next = Len(posted) + 1 /\ stream = <<r.to, r.subject>>
  BY <1>1, Inserted
<1>3. /\ PendingRows' = (PendingRows \ (PendingRows \ PendingRows')) \cup {next}
      /\ \A id \in PendingRows \ PendingRows' :
           posted[id].to = r.to /\ posted[id].subject = r.subject
      /\ PushedRows' = PushedRows /\ ConfirmedRows' = ConfirmedRows
  BY <1>2, RowsInserted
<1>4. posted' = Append(posted, r) /\ UNCHANGED <<sent, owned>>
  BY <1>1, Inserted
<1>5. /\ DOMAIN posted' = DOMAIN posted \cup {next} /\ posted'[next] = r
      /\ next \notin DOMAIN posted
      /\ \A id \in DOMAIN posted : posted'[id] = posted[id]
  BY <1>1, <1>2, <1>4, Posts
<1>6. Rail!Posted = DOMAIN posted
  BY DEF Rail!Posted
<1> DEFINE rows == [id \in DOMAIN posted |-> <<posted[id].to, posted[id].subject>>]
<1>7. rows' = [i \in DOMAIN posted \cup {next} |-> IF i = next THEN stream ELSE rows[i]]
  BY <1>2, <1>5
<1>8. PICK replaced : replaced = PendingRows \ PendingRows'
  OBVIOUS
<1>9. replaced \in SUBSET Rail!Waiting(stream)
  BY <1>2, <1>3, <1>8 DEF Rail!Waiting, PendingRows
<1>10. \E gone \in SUBSET Rail!Waiting(stream) :
         PendingRows' = (PendingRows \ gone) \cup {next}
  BY <1>3, <1>8, <1>9
<1>11. Rail!Post(next, stream)
  BY <1>3, <1>4, <1>5, <1>6, <1>7, <1>10 DEF Rail!Post
<1>12. owned' \cap PendingRows' = {} /\ ConfirmedRows' \subseteq owned'
  BY <1>1, <1>3, <1>4, <1>5 DEF RailInv
<1>13. QED
  BY <1>11, <1>12 DEF Rail!Next

LEMMA CollapseCollapses ==
  ASSUME TypeOK, Collapse
  PROVE  Rail!Next
<1>1. /\ PendingRows' \subseteq PendingRows
      /\ \A id \in PendingRows : \E kept \in PendingRows' :
           /\ kept \in DOMAIN posted
           /\ posted[kept].to = posted[id].to
           /\ posted[kept].subject = posted[id].subject
      /\ PushedRows' = PushedRows /\ ConfirmedRows' = ConfirmedRows
  BY RowsCollapsed
<1>2. UNCHANGED <<posted, sent, owned>>
  BY DEF Collapse
<1>3. \A id \in PendingRows : id \in DOMAIN posted
  BY DEF PendingRows
<1>4. Rail!Collapse
  BY <1>1, <1>2, <1>3 DEF Rail!Collapse
<1>5. QED
  BY <1>4 DEF Rail!Next

\* The recipient's calls, with the ids that they reach.
LEMMA TakingOver ==
  ASSUME RailInv, NEW ids, ids \subseteq DOMAIN posted, UNCHANGED <<posted, sent>>,
         owned' = owned \cup ids, PendingRows' = PendingRows \ ids,
         PushedRows' = PushedRows, ConfirmedRows' = ConfirmedRows
  PROVE  Rail!Next /\ owned' \cap PendingRows' = {} /\ ConfirmedRows' \subseteq owned'
<1>1. ids \in SUBSET Id
  BY PostedIds DEF RailInv, Kept
<1>2. Rail!TakeOver(ids)
  BY DEF Rail!TakeOver, Rail!Posted
<1>3. QED
  BY <1>1, <1>2 DEF Rail!Next, RailInv

LEMMA OthersRail ==
  ASSUME RailInv, Others
  PROVE  Rail!Next /\ owned' \cap PendingRows' = {} /\ ConfirmedRows' \subseteq owned'
<1>0. TypeOK
  BY DEF RailInv, Kept
<1>1. ASSUME NEW r \in Request, Enqueue(r)
      PROVE  Rail!Next /\ owned' \cap PendingRows' = {} /\ ConfirmedRows' \subseteq owned'
  BY <1>1, EnqueuePosts
<1>2. ASSUME NEW key \in Key, NEW ids \in SUBSET Id, Ack(key, ids)
      PROVE  Rail!Next /\ owned' \cap PendingRows' = {} /\ ConfirmedRows' \subseteq owned'
  BY <1>0, <1>2, RowsAcked, TakingOver
<1>3. ASSUME NEW key \in Key, PollAck(key)
      PROVE  Rail!Next /\ owned' \cap PendingRows' = {} /\ ConfirmedRows' \subseteq owned'
  <2>1. PICK ids : ids = Unseen(inbox[key])
    OBVIOUS
  <2>2. /\ Stamp(key, ids, MarkSeen) /\ owned' = owned \cup ids
        /\ UNCHANGED <<posted, sent>>
    BY <1>3, <2>1 DEF PollAck
  <2>3. ids \in SUBSET DOMAIN inbox[key]
    BY <2>1 DEF Unseen
  <2>4. ids \subseteq DOMAIN posted
    BY <1>0, <2>3, Records
  <2>5. posted' = posted
    BY <2>2
  <2>6. /\ PendingRows' = PendingRows \ ids
        /\ PushedRows' = PushedRows /\ ConfirmedRows' = ConfirmedRows
    BY <1>0, <2>2, <2>3, <2>5, SeenRows
  <2>7. QED
    BY <2>2, <2>4, <2>6, TakingOver
<1>4. ASSUME NEW key \in Key, NEW ids \in SUBSET Id, RecordConfirmation(key, ids)
      PROVE  Rail!Next /\ owned' \cap PendingRows' = {} /\ ConfirmedRows' \subseteq owned'
  <2>1. /\ ids \subseteq owned /\ ids \in SUBSET DOMAIN inbox[key]
        /\ Stamp(key, ids, MarkConfirmed)
        /\ posted' = posted /\ UNCHANGED <<sent, owned>>
    BY <1>4 DEF RecordConfirmation
  <2>2. /\ PendingRows' = PendingRows /\ PushedRows' = PushedRows
        /\ ConfirmedRows' = ConfirmedRows \cup ids
    BY <1>0, <2>1, RowsConfirmed
  <2>3. Rail!Confirm(ids)
    BY <2>1, <2>2 DEF Rail!Confirm, RailInv
  <2>4. QED
    BY <2>1, <2>2, <2>3 DEF Rail!Next, RailInv
<1>5. CASE Collapse
  <2>1. PendingRows' \subseteq PendingRows /\ ConfirmedRows' = ConfirmedRows
        /\ UNCHANGED owned
    BY <1>0, <1>5, RowsCollapsed DEF Collapse
  <2>2. QED
    BY <1>0, <1>5, <2>1, CollapseCollapses DEF RailInv
<1>6. QED
  BY <1>1, <1>2, <1>3, <1>4, <1>5 DEF Others

LEMMA DrainRail ==
  ASSUME RailInv, NEW c \in Channel, Drain(c) \/ Restart(c)
  PROVE  /\ Rail!Next \/ UNCHANGED Rail!vars
         /\ owned' \cap PendingRows' = {} /\ ConfirmedRows' \subseteq owned'
<1>0. Kept /\ TypeOK /\ posted' = posted /\ owned' = owned
  BY DEF RailInv, Kept, Drain, Tick, DrainPoll, DrainPollRaises, DrainSend, DrainSendFails,
         DrainRecord, DrainRecordFails, Restart
<1>1. CASE DrainSend(c)
  <2>1. chan[c].pc = "send" /\ sent' = sent \cup {FirstOf(chan[c].batch)}
        /\ UNCHANGED inbox
    BY <1>1 DEF DrainSend
  <2>2. PICK id \in DOMAIN posted : id = FirstOf(chan[c].batch)
    BY <1>0, <2>1, Found
  <2>3. /\ PendingRows' = PendingRows /\ PushedRows' = PushedRows
        /\ ConfirmedRows' = ConfirmedRows
    BY <1>0, <2>1, RowsUntouched
  <2>4. id \in Id /\ Rail!Transmit(id)
    BY <1>0, <2>1, <2>2, <2>3, PostedIds DEF Rail!Transmit, Rail!Posted
  <2>5. QED
    BY <1>0, <2>3, <2>4 DEF Rail!Next, RailInv
<1>2. CASE DrainRecord(c)
  <2>1. chan[c].pc = "record" /\ UNCHANGED sent
    BY <1>2 DEF DrainRecord
  <2>2. PICK id \in DOMAIN posted, key \in Key :
          id = FirstOf(chan[c].batch) /\ key = chan[c].key /\ id \in sent
    BY <1>0, <2>1, Found
  <2>3. CASE id \in DOMAIN inbox[key]
    <3>1. Stamp(key, {id}, MarkPushed) /\ {id} \in SUBSET DOMAIN inbox[key]
      BY <1>2, <2>2, <2>3 DEF DrainRecord
    <3>2. /\ PendingRows' = PendingRows \ {id} /\ PushedRows' = PushedRows \cup {id}
          /\ ConfirmedRows' = ConfirmedRows
      BY <1>0, <3>1, RowsPushed
    <3>3. id \in Id /\ Rail!RecordPush(id)
      BY <1>0, <2>1, <2>2, <3>2, PostedIds DEF Rail!RecordPush
    <3>4. QED
      BY <1>0, <3>2, <3>3 DEF Rail!Next, RailInv
  <2>4. CASE id \notin DOMAIN inbox[key]
    <3>1. UNCHANGED inbox
      BY <1>2, <2>2, <2>4 DEF DrainRecord
    <3>2. /\ PendingRows' = PendingRows /\ PushedRows' = PushedRows
          /\ ConfirmedRows' = ConfirmedRows
      BY <1>0, <3>1, RowsUntouched
    <3>3. QED
      BY <1>0, <2>1, <3>2, RailStutters DEF RailInv
  <2>5. QED
    BY <2>3, <2>4
<1>3. CASE ~ DrainSend(c) /\ ~ DrainRecord(c)
  <2>1. UNCHANGED <<inbox, sent>>
    BY <1>3 DEF Drain, Tick, DrainPoll, DrainPollRaises, DrainSendFails,
                DrainRecordFails, Restart
  <2>2. /\ PendingRows' = PendingRows /\ PushedRows' = PushedRows
        /\ ConfirmedRows' = ConfirmedRows
    BY <1>0, <2>1, RowsUntouched
  <2>3. QED
    BY <1>0, <2>1, <2>2, RailStutters DEF RailInv
<1>4. QED
  BY <1>1, <1>2, <1>3

LEMMA RailStep == RailInv /\ [Next]_vars => RailInv' /\ [Rail!Next]_(Rail!vars)
<1> SUFFICES ASSUME RailInv, [Next]_vars
             PROVE  RailInv' /\ (Rail!Next \/ UNCHANGED Rail!vars)
  OBVIOUS
<1>1. Kept'
  BY KeptStep DEF RailInv
<1>2. CASE UNCHANGED vars
  <2>1. UNCHANGED <<inbox, posted, sent, owned>>
    BY <1>2 DEF vars
  <2>2. /\ PendingRows' = PendingRows /\ PushedRows' = PushedRows
        /\ ConfirmedRows' = ConfirmedRows
    BY <2>1, RowsUntouched
  <2>3. QED
    BY <1>1, <2>1, <2>2, RailStutters DEF RailInv
<1>3. CASE Others
  BY <1>1, <1>3, OthersRail DEF RailInv
<1>4. ASSUME NEW c \in Channel, Drain(c) \/ Restart(c)
      PROVE  RailInv' /\ (Rail!Next \/ UNCHANGED Rail!vars)
  BY <1>1, <1>4, DrainRail DEF RailInv
<1>5. QED
  BY <1>2, <1>3, <1>4 DEF Next

\* The break-glass file keeps the promise of the rail, for any requests,
\* backlog, channels, caps and faults: though rows are deleted by superseding
\* and marked by collapsing, and a receipt may come for a row that is gone, the
\* latches of a row are set in the promised order and none is taken back.
\* (_inbox, _inbox_receipt, _inbox_maint, _mcp_channel.drain_once)
THEOREM FileImplementsRail == Spec => ImplementsRail
  BY InitRail, RailStep, PTL DEF Spec, ImplementsRail, Rail!Spec
=============================================================================
