---------------------------- MODULE InboxProofs ----------------------------
(***************************************************************************)
(* Proofs about Inbox, for any number of producers, channel servers and    *)
(* callers, any keys and any requests.                                     *)
(***************************************************************************)
EXTENDS Inbox, TLAPS

(* Locals that the code only reads when it has something in them: an open  *)
(* transaction has a request, a poll has a key left, a send has a record.  *)
Shape ==
  /\ \A p \in Producer :
       /\ tx[p].pc # "idle" => tx[p].req \in Request
       /\ tx[p].pc = "commit" => tx[p].id \in Id
  /\ \A c \in Channel :
       /\ chan[c].pc = "poll" => chan[c].todo # <<>>
       /\ chan[c].pc \in {"send", "record"} => chan[c].batch # {}
  /\ \A k \in Caller :
       /\ conf[k].pc \in {"pending", "ack", "stamp", "look"} => conf[k].todo # <<>>
       /\ conf[k].pc = "receipt" => conf[k].todo = <<>>
       /\ conf[k].pc # "idle" => conf[k].keys # <<>>
       /\ \A id \in conf[k].known : notif[id] \in Request

LEMMA KeysSeenByType ==
  ASSUME NEW x \in Channel \cup Caller, NEW resolved \in BOOLEAN
  PROVE  /\ KeysSeenBy(x, resolved) \in Seq(Key)
         /\ KeysSeenBy(x, resolved) # <<>>
  BY ProcessAssumption DEF KeysSeenBy

LEMMA StampType ==
  ASSUME NEW S, NEW column \in [Id -> S \cup {Never}], NEW ids, NEW w \in S
  PROVE  Stamp(column, ids, w) \in [Id -> S \cup {Never}]
  BY DEF Stamp

LEMMA AdvanceType ==
  ASSUME NEW ch \in ChanState, NEW batch \in SUBSET Id, NEW pushed \in Nat
  PROVE  /\ Advance(ch, batch, pushed) \in ChanState
         /\ Advance(ch, batch, pushed).pc = "poll" =>
              Advance(ch, batch, pushed).todo # <<>>
         /\ Advance(ch, batch, pushed).pc \in {"send", "record"} =>
              Advance(ch, batch, pushed).batch # {}
<1>1. CASE pushed < MaxPush /\ batch # {}
  BY <1>1 DEF Advance, ChanState
<1>2. CASE pushed < MaxPush /\ batch = {} /\ ch.todo # <<>>
  BY <1>2 DEF Advance, ChanState
<1>3. CASE ~(pushed < MaxPush) \/ (batch = {} /\ ch.todo = <<>>)
  BY <1>3 DEF Advance, Idle, ChanState
<1>. QED  BY <1>1, <1>2, <1>3

LEMMA NullRecords == NoTx \in TxState /\ Idle \in ChanState /\ NoCall \in CallState
  BY DEF NoTx, TxState, Idle, ChanState, NoCall, CallState

LEMMA TypeInit == Init => TypeOK /\ Shape
<1> SUFFICES ASSUME Init PROVE TypeOK /\ Shape
  OBVIOUS
<1>1. nextId \in 1 .. MaxRows + 1
  BY BoundAssumption DEF Init
<1>2. Shape
  BY DEF Init, Shape, NoTx, Idle, NoCall
<1>. QED  BY <1>1, <1>2, NullRecords DEF Init, TypeOK

LEMMA ReadsIds ==
  ASSUME NEW key, NEW k \in Caller
  PROVE  /\ RowsFor(key) \in SUBSET Id
         /\ UnseenFor(key) \in SUBSET Id
         /\ Requested(k) \in SUBSET Id
  BY DEF RowsFor, UnseenFor, Requested, Present

LEMMA TypeStep == TypeOK /\ Shape /\ [Next]_vars => TypeOK' /\ Shape'
<1> SUFFICES ASSUME TypeOK, Shape, [Next]_vars PROVE TypeOK' /\ Shape'
  OBVIOUS
<1> USE DEF TypeOK, Shape, table, history
<1>1. ASSUME NEW p \in Producer, NEW r \in Request, EnqueueBegin(p, r)
      PROVE  TypeOK' /\ Shape'
  BY <1>1 DEF EnqueueBegin, TxState, Superseded, UnseenFor, RowsFor, Present, Id
<1>2. ASSUME NEW p \in Producer, EnqueueDuplicate(p) \/ EnqueueAbort(p)
      PROVE  TypeOK' /\ Shape'
  <2>1. tx' = [tx EXCEPT ![p] = NoTx] /\ seen' \subseteq Id /\ echoed' \subseteq Id
    BY <1>2 DEF EnqueueDuplicate, EnqueueAbort, TxState
  <2>. QED  BY <1>2, <2>1, NullRecords DEF EnqueueDuplicate, EnqueueAbort, NoTx
<1>3. ASSUME NEW p \in Producer, EnqueueInsert(p) PROVE TypeOK' /\ Shape'
  <2>1. nextId \in Id /\ nextId' \in 1 .. MaxRows + 1
    BY <1>3, BoundAssumption DEF EnqueueInsert, Id
  <2>2. [tx[p] EXCEPT !.pc = "commit", !.id = nextId] \in TxState
    <3>1. tx[p] \in TxState
      OBVIOUS
    <3>2. ASSUME NEW t \in TxState, NEW n \in Id
          PROVE  [t EXCEPT !.pc = "commit", !.id = n] \in TxState
      BY DEF TxState
    <3>. QED  BY <2>1, <3>1, <3>2
  <2>3. tx' \in [Producer -> TxState] /\ UNCHANGED <<table, chan, conf, history>>
    BY <1>3, <2>2 DEF EnqueueInsert
  <2>4. Shape'
    BY <1>3, <2>1, <2>3 DEF EnqueueInsert
  <2>. QED  BY <2>1, <2>3, <2>4
<1>4. ASSUME NEW p \in Producer, EnqueueCommit(p) PROVE TypeOK' /\ Shape'
  <2>1. tx[p].req \in Request
    BY <1>4 DEF EnqueueCommit
  <2>2. notif' \in [Id -> Request \cup {NoRow}]
    BY <1>4, <2>1 DEF EnqueueCommit
  <2>3. \A id \in Id : notif[id] \in Request => notif'[id] \in Request
    BY <1>4, <2>1 DEF EnqueueCommit
  <2>4. \A k \in Caller : \A id \in conf[k].known : notif'[id] \in Request
    BY <2>3 DEF CallState
  <2>5. tx' \in [Producer -> TxState]
    BY <1>4, NullRecords DEF EnqueueCommit
  <2>6. seen' \subseteq Id
    BY <1>4 DEF EnqueueCommit, TxState
  <2>7. raced' \subseteq SUBSET Id
    BY <1>4 DEF EnqueueCommit
  <2>. QED  BY <1>4, <2>2, <2>4, <2>5, <2>6, <2>7 DEF EnqueueCommit, NoTx
<1>5. ASSUME NEW c \in Channel, NEW resolved \in BOOLEAN, DrainStart(c, resolved)
      PROVE  TypeOK' /\ Shape'
  BY <1>5, KeysSeenByType DEF DrainStart, Idle, ChanState
<1>6. ASSUME NEW c \in Channel, DrainPoll(c) PROVE TypeOK' /\ Shape'
  <2> DEFINE ch == [chan[c] EXCEPT !.key = Head(chan[c].todo), !.todo = Tail(@)]
  <2>1. ch \in ChanState /\ ch.pushed \in Nat
    <3>1. chan[c] \in ChanState /\ chan[c].todo # <<>>
      BY <1>6 DEF DrainPoll
    <3>2. Head(chan[c].todo) \in Key /\ Tail(chan[c].todo) \in Seq(Key)
      BY <3>1 DEF ChanState
    <3>. QED  BY <3>1, <3>2 DEF ChanState
  <2>2. UnseenFor(Head(chan[c].todo)) \in SUBSET Id
    BY DEF UnseenFor, RowsFor, Present
  <2>3. chan' = [chan EXCEPT ![c] =
                   Advance(ch, UnseenFor(Head(chan[c].todo)), ch.pushed)]
    BY <1>6 DEF DrainPoll
  <2> HIDE DEF ch
  <2>. QED  BY <1>6, <2>1, <2>2, <2>3, AdvanceType DEF DrainPoll
<1>7. ASSUME NEW c \in Channel, NEW id \in Id, DrainSend(c, id)
      PROVE  TypeOK' /\ Shape'
  BY <1>7 DEF DrainSend, ChanState
<1>8. ASSUME NEW c \in Channel,
             DrainSendFails(c) \/ DrainRecord(c) \/ DrainRecordFails(c)
      PROVE  TypeOK' /\ Shape'
  <2> DEFINE rest == chan[c].batch \ {FirstOf(chan[c].batch)}
  <2>1. rest \in SUBSET Id /\ chan[c].pushed \in Nat /\ chan[c].pushed + 1 \in Nat
    BY DEF ChanState
  <2>2. \/ chan' = [chan EXCEPT ![c] = Advance(chan[c], rest, chan[c].pushed)]
        \/ chan' = [chan EXCEPT ![c] = Advance(chan[c], rest, chan[c].pushed + 1)]
    BY <1>8 DEF DrainSendFails, DrainRecord, DrainRecordFails
  <2> HIDE DEF rest
  <2>3. chan' \in [Channel -> ChanState] /\ Shape'
    BY <1>8, <2>1, <2>2, AdvanceType
    DEF DrainSendFails, DrainRecord, DrainRecordFails
  <2>4. pushedAt' \in [Id -> Channel \cup {Never}]
    <3>1. \A ids : Stamp(pushedAt, ids, c) \in [Id -> Channel \cup {Never}]
      BY StampType
    <3>. QED  BY <1>8, <3>1 DEF DrainSendFails, DrainRecord, DrainRecordFails
  <2>5. seen' \subseteq Id
    BY <1>8 DEF DrainSendFails, DrainRecord, DrainRecordFails, RowsFor, Present
  <2>. QED  BY <1>8, <2>3, <2>4, <2>5
            DEF DrainSendFails, DrainRecord, DrainRecordFails
<1>9. ASSUME NEW c \in Channel, DrainStops(c) PROVE TypeOK' /\ Shape'
  BY <1>9 DEF DrainStops, Idle, ChanState
<1>10. ASSUME NEW k \in Caller, NEW ids \in SUBSET Id, NEW resolved \in BOOLEAN,
              ConfirmStart(k, ids, resolved)
       PROVE  TypeOK' /\ Shape'
  BY <1>10, KeysSeenByType DEF ConfirmStart, NoCall, CallState
<1>11. ASSUME NEW k \in Caller, ConfirmPending(k) PROVE TypeOK' /\ Shape'
  <2> DEFINE open == {id \in Requested(k) : confirmedAt[id] = Never}
             rest == Tail(conf[k].todo)
             pcNext == IF rest = <<>> THEN "ack" ELSE "pending"
             todoNext == IF rest = <<>> THEN conf[k].keys ELSE rest
  <2>1. conf[k] \in CallState /\ conf[k].todo # <<>> /\ conf[k].keys # <<>>
    BY <1>11 DEF ConfirmPending
  <2>2. open \in SUBSET Id /\ rest \in Seq(Key)
    <3>1. open \in SUBSET Id
      BY ReadsIds
    <3>. QED  BY <2>1, <3>1 DEF CallState
  <2>3. todoNext \in Seq(Key) /\ todoNext # <<>>
    BY <2>1, <2>2 DEF CallState
  <2>4. conf' = [conf EXCEPT ![k].pending = @ \cup open, ![k].todo = todoNext,
                             ![k].pc = pcNext]
    BY <1>11 DEF ConfirmPending
  <2> HIDE DEF open, todoNext
  <2>5. conf'[k] \in CallState /\ conf'[k].todo # <<>> /\ conf'[k].keys # <<>>
    BY <2>1, <2>2, <2>3, <2>4 DEF CallState
  <2>6. conf'[k].known = conf[k].known /\ conf'[k].pc \in {"pending", "ack"}
    BY <2>1, <2>4 DEF CallState
  <2>7. conf' \in [Caller -> CallState] /\ \A l \in Caller \ {k} : conf'[l] = conf[l]
    BY <2>4, <2>5
  <2>8. /\ notif' = notif /\ tx' = tx /\ chan' = chan
        /\ UNCHANGED <<table, nextId, history>>
    BY <1>11 DEF ConfirmPending
  <2>9. Shape'
    BY <2>5, <2>6, <2>7, <2>8
  <2>. QED  BY <2>7, <2>8, <2>9
<1>a. ASSUME NEW k \in Caller, NEW pc \in {"stamp", "look"},
             conf[k].pc \in {"ack", "stamp"}, conf' = [conf EXCEPT ![k].pc = pc]
      PROVE  /\ conf' \in [Caller -> CallState]
             /\ conf'[k].pc = pc /\ conf'[k].todo = conf[k].todo
             /\ conf'[k].keys = conf[k].keys /\ conf'[k].known = conf[k].known
             /\ \A l \in Caller \ {k} : conf'[l] = conf[l]
  <2>1. conf[k] \in CallState
    OBVIOUS
  <2>2. conf'[k] = [conf[k] EXCEPT !.pc = pc]
    BY <1>a
  <2>3. [conf[k] EXCEPT !.pc = pc] \in CallState
    BY <2>1 DEF CallState
  <2>. QED  BY <1>a, <2>1, <2>2, <2>3 DEF CallState
<1>12. ASSUME NEW k \in Caller, ConfirmAck(k) PROVE TypeOK' /\ Shape'
  <2>1. /\ conf[k].pc = "ack" /\ conf' = [conf EXCEPT ![k].pc = "stamp"]
        /\ seen' = seen \cup Requested(k) /\ owned' = owned \cup Requested(k)
        /\ UNCHANGED <<notif, pushedAt, confirmedAt, dmReceipts, nextId, tx, chan, sent,
                      echoed, raced>>
    BY <1>12 DEF ConfirmAck
  <2>2. seen' \subseteq Id /\ owned' \subseteq Id
    BY <2>1, ReadsIds
  <2>3. /\ conf' \in [Caller -> CallState] /\ conf'[k].pc = "stamp"
        /\ conf'[k].todo = conf[k].todo /\ conf'[k].keys = conf[k].keys
        /\ conf'[k].known = conf[k].known
        /\ \A l \in Caller \ {k} : conf'[l] = conf[l]
    BY <1>a, <2>1
  <2>. QED  BY <2>1, <2>2, <2>3
<1>13. ASSUME NEW k \in Caller, ConfirmStamp(k) PROVE TypeOK' /\ Shape'
  <2>1. /\ conf[k].pc = "stamp" /\ conf' = [conf EXCEPT ![k].pc = "look"]
        /\ confirmedAt' = Stamp(confirmedAt, Requested(k), k)
        /\ UNCHANGED <<notif, seen, pushedAt, dmReceipts, nextId, tx, chan, history>>
    BY <1>13 DEF ConfirmStamp
  <2>2. confirmedAt' \in [Id -> Caller \cup {Never}]
    BY <2>1, StampType
  <2>3. /\ conf' \in [Caller -> CallState] /\ conf'[k].pc = "look"
        /\ conf'[k].todo = conf[k].todo /\ conf'[k].keys = conf[k].keys
        /\ conf'[k].known = conf[k].known
        /\ \A l \in Caller \ {k} : conf'[l] = conf[l]
    BY <1>a, <2>1
  <2>. QED  BY <2>1, <2>2, <2>3
<1>14. ASSUME NEW k \in Caller, ConfirmLook(k) PROVE TypeOK' /\ Shape'
  <2> DEFINE rest == Tail(conf[k].todo)
  <2>1. conf[k] \in CallState /\ conf[k].todo # <<>> /\ conf[k].keys # <<>>
    BY <1>14 DEF ConfirmLook
  <2>2. Requested(k) \in SUBSET Id /\ rest \in Seq(Key)
    <3>1. Requested(k) \in SUBSET Id
      BY ReadsIds
    <3>. QED  BY <2>1, <3>1 DEF CallState
  <2>3. conf' = [conf EXCEPT ![k].known = @ \cup Requested(k), ![k].todo = rest,
                             ![k].pc = IF rest = <<>> THEN "receipt" ELSE "ack"]
    BY <1>14 DEF ConfirmLook
  <2> HIDE DEF rest
  <2>4. /\ conf'[k] \in CallState /\ conf'[k].keys # <<>>
        /\ conf'[k].pc = "ack" => conf'[k].todo # <<>>
        /\ conf'[k].pc = "receipt" => conf'[k].todo = <<>>
        /\ conf'[k].pc \in {"ack", "receipt"}
    BY <2>1, <2>2, <2>3 DEF CallState
  <2>5. \A id \in conf'[k].known : notif[id] \in Request
    <3>1. \A id \in Requested(k) : notif[id] \in Request
      BY DEF Requested, RowsFor, Present, Row
    <3>. QED  BY <2>1, <2>3, <3>1 DEF CallState
  <2>. QED  BY <1>14, <2>3, <2>4, <2>5 DEF ConfirmLook
<1>15. ASSUME NEW k \in Caller, NEW mirrored \in BOOLEAN, ConfirmReturn(k, mirrored)
       PROVE  TypeOK' /\ Shape'
  <2>1. MessagesOf(conf[k].known) \subseteq Msg
    BY RequestAssumption DEF MessagesOf
  <2>. QED  BY <1>15, <2>1, NullRecords DEF ConfirmReturn, NoCall
<1>16. ASSUME NEW k \in Caller, ConfirmStops(k) PROVE TypeOK' /\ Shape'
  BY <1>16, NullRecords DEF ConfirmStops, NoCall
<1>17. ASSUME NEW k \in Caller, NEW key \in Key, PollAck(k, key)
       PROVE  TypeOK' /\ Shape'
  BY <1>17 DEF PollAck, UnseenFor, RowsFor, Present
<1>18. CASE UNCHANGED vars
  BY <1>18 DEF vars
<1>. QED
  BY <1>1, <1>2, <1>3, <1>4, <1>5, <1>6, <1>7, <1>8, <1>9, <1>10, <1>11, <1>12,
     <1>13, <1>14, <1>15, <1>16, <1>17, <1>18
  DEF Next, Enqueue, Drain, Recipient

(* Every reachable state is well typed. *)
THEOREM TypeCorrect == Spec => []TypeOK
<1>1. Init => TypeOK /\ Shape  BY TypeInit
<1>2. TypeOK /\ Shape /\ [Next]_vars => (TypeOK /\ Shape)'  BY TypeStep
<1>. QED  BY <1>1, <1>2, PTL DEF Spec

-----------------------------------------------------------------------------
(* Rows and the transactions that write them.                              *)

(* An id is used once, ids grow with the sequence, and what a transaction  *)
(* supersedes are older snapshots of the same subject in the same inbox.   *)
Rows ==
  /\ seen \subseteq Present
  /\ \A id \in Present : id < nextId
  /\ \A p \in Producer : tx[p].pc = "commit" =>
       /\ tx[p].id < nextId /\ tx[p].id \notin Present
       /\ \A q \in Producer \ {p} : tx[q].pc = "commit" => tx[q].id # tx[p].id
       /\ \A v \in tx[p].victims : v < tx[p].id
  /\ \A p \in Producer : tx[p].pc # "idle" => \A v \in tx[p].victims :
       /\ v \in Present
       /\ tx[p].req.snapshot
       /\ notif[v].to = tx[p].req.to /\ notif[v].subject = tx[p].req.subject

(* A row, once committed, and every latch stay what they are.              *)
Frame ==
  /\ seen \subseteq seen' /\ sent \subseteq sent' /\ owned \subseteq owned'
  /\ echoed \subseteq echoed' /\ raced \subseteq raced'
  /\ \A id \in Id :
       /\ notif[id] # NoRow => notif'[id] = notif[id]
       /\ pushedAt[id] # Never => pushedAt'[id] = pushedAt[id]
       /\ confirmedAt[id] # Never => confirmedAt'[id] = confirmedAt[id]

LEMMA FrameStep == TypeOK /\ Shape /\ Rows /\ [Next]_vars => Frame
<1> SUFFICES ASSUME TypeOK, Shape, Rows, [Next]_vars PROVE Frame
  OBVIOUS
<1> USE DEF TypeOK, Frame, table, history
<1>1. ASSUME NEW p \in Producer, Enqueue(p), ~EnqueueCommit(p) PROVE Frame
  BY <1>1 DEF Enqueue, EnqueueBegin, EnqueueDuplicate, EnqueueInsert, EnqueueAbort
<1>2. ASSUME NEW p \in Producer, EnqueueCommit(p) PROVE Frame
  BY <1>2 DEF EnqueueCommit, Rows, Present, Row
<1>3. ASSUME NEW c \in Channel, Drain(c), ~DrainRecord(c) PROVE Frame
  BY <1>3 DEF Drain, DrainStart, DrainPoll, DrainSend, DrainSendFails,
              DrainRecordFails, DrainStops
<1>4. ASSUME NEW c \in Channel, DrainRecord(c) PROVE Frame
  BY <1>4 DEF DrainRecord, Stamp
<1>5. ASSUME NEW k \in Caller, Recipient(k), ~ConfirmStamp(k) PROVE Frame
  BY <1>5 DEF Recipient, ConfirmStart, ConfirmPending, ConfirmAck, ConfirmLook,
              ConfirmReturn, ConfirmStops, PollAck
<1>6. ASSUME NEW k \in Caller, ConfirmStamp(k) PROVE Frame
  BY <1>6 DEF ConfirmStamp, Stamp
<1>7. CASE UNCHANGED vars
  BY <1>7 DEF vars
<1>. QED
  BY <1>1, <1>2, <1>3, <1>4, <1>5, <1>6, <1>7 DEF Next

LEMMA PresentGrows ==
  ASSUME TypeOK, TypeOK', Frame PROVE Present \subseteq Present'
  BY RequestAssumption DEF TypeOK, Frame, Present, Row

LEMMA RowsInit == Init => Rows
  BY DEF Init, Rows, Present, Row, NoTx

LEMMA RowsStep == TypeOK /\ TypeOK' /\ Shape /\ Rows /\ [Next]_vars => Rows'
<1> SUFFICES ASSUME TypeOK, TypeOK', Shape, Rows, [Next]_vars PROVE Rows'
  OBVIOUS
<1>1. Frame /\ Present \subseteq Present'
  BY FrameStep, PresentGrows
<1>2. ASSUME NEW p \in Producer, NEW r \in Request, EnqueueBegin(p, r) PROVE Rows'
  <2>1. notif' = notif /\ seen' = seen /\ nextId' = nextId /\ Present' = Present
    BY <1>2 DEF EnqueueBegin, table, Present, Row
  <2>2. \A v \in Superseded(r) : /\ v \in Present /\ r.snapshot
                                 /\ notif[v].to = r.to /\ notif[v].subject = r.subject
    BY DEF Superseded, UnseenFor, RowsFor
  <2>. QED  BY <1>2, <2>1, <2>2 DEF EnqueueBegin, Rows, TypeOK
<1>3. ASSUME NEW p \in Producer, EnqueueDuplicate(p) \/ EnqueueAbort(p) PROVE Rows'
  <2>1. notif' = notif /\ nextId' = nextId /\ Present' = Present
    BY <1>3 DEF EnqueueDuplicate, EnqueueAbort, table, Present, Row
  <2>2. seen' \subseteq Present /\ tx' = [tx EXCEPT ![p] = NoTx]
    BY <1>3 DEF EnqueueDuplicate, EnqueueAbort, table, Rows
  <2>. QED  BY <2>1, <2>2 DEF Rows, NoTx, TypeOK
<1>4. ASSUME NEW p \in Producer, EnqueueInsert(p) PROVE Rows'
  <2>1. notif' = notif /\ seen' = seen /\ Present' = Present /\ nextId' = nextId + 1
    BY <1>4 DEF EnqueueInsert, table, Present, Row
  <2>2. tx' = [tx EXCEPT ![p].pc = "commit", ![p].id = nextId] /\ tx[p].pc = "dedup"
    BY <1>4 DEF EnqueueInsert
  <2>3. nextId \in Int /\ Present \subseteq Int /\ Id \subseteq Int
    BY BoundAssumption DEF TypeOK, Present, Id
  <2>4. \A q \in Producer : tx[q].pc = "commit" => tx[q].id \in Int
    BY <2>3 DEF Shape
  <2>. QED  BY <2>1, <2>2, <2>3, <2>4 DEF Rows, TypeOK, TxState
<1>5. ASSUME NEW p \in Producer, EnqueueCommit(p) PROVE Rows'
  <2>1. /\ tx[p].pc = "commit" /\ tx[p].id \in Id /\ tx[p].req \in Request
        /\ notif' = [notif EXCEPT ![tx[p].id] = tx[p].req]
        /\ seen' = seen \cup tx[p].victims /\ nextId' = nextId
        /\ tx' = [tx EXCEPT ![p] = NoTx]
    BY <1>5 DEF EnqueueCommit, Shape
  <2>2. Present' = Present \cup {tx[p].id}
    BY <2>1, RequestAssumption DEF Present, Row, TypeOK
  <2>3. \A id \in Present : notif'[id] = notif[id]
    BY <2>1 DEF Rows, TypeOK
  <2>. QED  BY <2>1, <2>2, <2>3 DEF Rows, TypeOK, NoTx
<1>6. ASSUME notif' = notif, tx' = tx, nextId' = nextId, seen' \subseteq Present
      PROVE  Rows'
  BY <1>6 DEF Rows, Present, Row
<1>7. ASSUME NEW c \in Channel, Drain(c) PROVE Rows'
  <2>1. notif' = notif /\ tx' = tx /\ nextId' = nextId
    BY <1>7 DEF Drain, DrainStart, DrainPoll, DrainSend, DrainSendFails, DrainRecord,
                DrainRecordFails, DrainStops, table
  <2>2. seen' \subseteq Present
    BY <1>7 DEF Drain, DrainStart, DrainPoll, DrainSend, DrainSendFails, DrainRecord,
                DrainRecordFails, DrainStops, table, Rows, RowsFor
  <2>. QED  BY <1>6, <2>1, <2>2
<1>8. ASSUME NEW k \in Caller, Recipient(k) PROVE Rows'
  <2>1. notif' = notif /\ tx' = tx /\ nextId' = nextId
    BY <1>8 DEF Recipient, ConfirmStart, ConfirmPending, ConfirmAck, ConfirmStamp,
                ConfirmLook, ConfirmReturn, ConfirmStops, PollAck, table
  <2>2. seen' \subseteq Present
    BY <1>8 DEF Recipient, ConfirmStart, ConfirmPending, ConfirmAck, ConfirmStamp,
                ConfirmLook, ConfirmReturn, ConfirmStops, PollAck, table, Rows,
                Requested, UnseenFor, RowsFor
  <2>. QED  BY <1>6, <2>1, <2>2
<1>9. CASE UNCHANGED vars
  BY <1>6, <1>9 DEF vars, table, Rows
<1>. QED
  BY <1>2, <1>3, <1>4, <1>5, <1>7, <1>8, <1>9 DEF Next, Enqueue

(* A committed row never changes and no latch is ever taken back.          *)
THEOREM LatchesHoldForGood == Spec => LatchesHold
<1> DEFINE Inv == TypeOK /\ Shape /\ Rows
<1>1. Init => Inv  BY TypeInit, RowsInit
<1>2. Inv /\ [Next]_vars => Inv'  BY TypeStep, RowsStep
<1>3. Inv /\ [Next]_vars =>
        [ /\ seen \subseteq seen'
          /\ \A id \in Id :
               /\ notif[id] # NoRow => notif'[id] = notif[id]
               /\ pushedAt[id] # Never => pushedAt'[id] = pushedAt[id]
               /\ confirmedAt[id] # Never => confirmedAt'[id] = confirmedAt[id] ]_vars
  BY FrameStep DEF Frame
<1>. QED  BY <1>1, <1>2, <1>3, PTL DEF Spec, LatchesHold

-----------------------------------------------------------------------------
(* Nothing is consumed in silence.                                         *)

(* The receipt is written for the record that was just sent.               *)
Sending ==
  \A c \in Channel : chan[c].pc = "record" => FirstOf(chan[c].batch) \in sent

LEMMA AdvanceNeverRecords ==
  ASSUME NEW ch \in ChanState, NEW batch \in SUBSET Id, NEW pushed \in Nat
  PROVE  Advance(ch, batch, pushed).pc # "record"
<1>1. CASE pushed < MaxPush /\ batch # {}
  BY <1>1 DEF Advance, ChanState
<1>2. CASE ~(pushed < MaxPush /\ batch # {}) /\ pushed < MaxPush /\ ch.todo # <<>>
  BY <1>2 DEF Advance, ChanState
<1>3. CASE ~(pushed < MaxPush /\ batch # {}) /\ ~(pushed < MaxPush /\ ch.todo # <<>>)
  BY <1>3 DEF Advance, Idle
<1>. QED  BY <1>1, <1>2, <1>3

LEMMA SendingStep ==
  TypeOK /\ TypeOK' /\ Shape /\ Rows /\ Sending /\ [Next]_vars => Sending'
<1> SUFFICES ASSUME TypeOK, TypeOK', Shape, Rows, Sending, [Next]_vars PROVE Sending'
  OBVIOUS
<1>1. sent \subseteq sent'
  BY FrameStep DEF Frame
<1>2. ASSUME NEW c \in Channel, \A d \in Channel \ {c} : chan'[d] = chan[d],
             chan'[c].pc = "record" => FirstOf(chan'[c].batch) \in sent'
      PROVE  Sending'
  BY <1>1, <1>2 DEF Sending
<1>3. ASSUME NEW c \in Channel, NEW resolved \in BOOLEAN, DrainStart(c, resolved)
      PROVE  Sending'
  BY <1>2, <1>3 DEF DrainStart, Idle, TypeOK
<1>4. ASSUME NEW c \in Channel, DrainPoll(c) PROVE Sending'
  <2> DEFINE ch == [chan[c] EXCEPT !.key = Head(chan[c].todo), !.todo = Tail(@)]
  <2>1. ch \in ChanState /\ ch.pushed \in Nat
    <3>1. chan[c] \in ChanState /\ chan[c].todo # <<>>
      BY <1>4 DEF DrainPoll, TypeOK, Shape
    <3>2. Head(chan[c].todo) \in Key /\ Tail(chan[c].todo) \in Seq(Key)
      BY <3>1 DEF ChanState
    <3>. QED  BY <3>1, <3>2 DEF ChanState
  <2>2. UnseenFor(Head(chan[c].todo)) \in SUBSET Id
    BY DEF UnseenFor, RowsFor, Present
  <2>3. chan' = [chan EXCEPT ![c] =
                   Advance(ch, UnseenFor(Head(chan[c].todo)), ch.pushed)]
    BY <1>4 DEF DrainPoll
  <2> HIDE DEF ch
  <2>. QED  BY <1>2, <2>1, <2>2, <2>3, AdvanceNeverRecords DEF TypeOK
<1>5. ASSUME NEW c \in Channel, NEW id \in Id, DrainSend(c, id) PROVE Sending'
  <2>1. id \in sent' /\ id = FirstOf(chan[c].batch)
        /\ chan' = [chan EXCEPT ![c].pc = "record"]
    BY <1>5 DEF DrainSend
  <2>2. chan'[c].batch = chan[c].batch /\ \A d \in Channel \ {c} : chan'[d] = chan[d]
    BY <2>1 DEF TypeOK, ChanState
  <2>. QED  BY <1>2, <2>1, <2>2
<1>6. ASSUME NEW c \in Channel,
             DrainSendFails(c) \/ DrainRecord(c) \/ DrainRecordFails(c)
      PROVE  Sending'
  <2> DEFINE rest == chan[c].batch \ {FirstOf(chan[c].batch)}
  <2>1. rest \in SUBSET Id /\ chan[c] \in ChanState
        /\ chan[c].pushed \in Nat /\ chan[c].pushed + 1 \in Nat
    BY DEF TypeOK, ChanState
  <2>2. \/ chan' = [chan EXCEPT ![c] = Advance(chan[c], rest, chan[c].pushed)]
        \/ chan' = [chan EXCEPT ![c] = Advance(chan[c], rest, chan[c].pushed + 1)]
    BY <1>6 DEF DrainSendFails, DrainRecord, DrainRecordFails
  <2> HIDE DEF rest
  <2>. QED  BY <1>2, <2>1, <2>2, AdvanceNeverRecords DEF TypeOK
<1>7. ASSUME NEW c \in Channel, DrainStops(c) PROVE Sending'
  BY <1>2, <1>7 DEF DrainStops, Idle, TypeOK
<1>8. ASSUME chan' = chan PROVE Sending'
  BY <1>1, <1>8 DEF Sending
<1>9. ASSUME NEW p \in Producer, Enqueue(p) PROVE Sending'
  BY <1>8, <1>9 DEF Enqueue, EnqueueBegin, EnqueueDuplicate, EnqueueInsert,
                    EnqueueCommit, EnqueueAbort
<1>10. ASSUME NEW k \in Caller, Recipient(k) PROVE Sending'
  BY <1>8, <1>10 DEF Recipient, ConfirmStart, ConfirmPending, ConfirmAck,
       ConfirmStamp, ConfirmLook, ConfirmReturn, ConfirmStops, PollAck
<1>11. CASE UNCHANGED vars
  BY <1>8, <1>11 DEF vars
<1>. QED
  BY <1>3, <1>4, <1>5, <1>6, <1>7, <1>9, <1>10, <1>11 DEF Next, Drain

LEMMA ConsumedStep ==
  /\ TypeOK /\ TypeOK' /\ Shape /\ Rows /\ Sending
  /\ NothingSilentlyConsumed /\ [Next]_vars
  => NothingSilentlyConsumed'
<1> SUFFICES ASSUME TypeOK, TypeOK', Shape, Rows, Sending,
                    NothingSilentlyConsumed, [Next]_vars
             PROVE  NothingSilentlyConsumed'
  OBVIOUS
<1>1. Frame /\ Present \subseteq Present'
  BY FrameStep, PresentGrows
<1>2. \A id \in Present : notif'[id] = notif[id]
  BY <1>1 DEF Frame, Present, Row
<1>3. ASSUME \A id \in seen' \ seen :
               id \in sent' \cup owned' \cup echoed' \/ HasSuccessor(id)'
      PROVE  NothingSilentlyConsumed'
  <2> SUFFICES ASSUME NEW id \in seen, id \notin sent' \cup owned' \cup echoed'
               PROVE  HasSuccessor(id)'
    BY <1>3 DEF NothingSilentlyConsumed
  <2>1. id \in Present /\ HasSuccessor(id)
    BY <1>1 DEF NothingSilentlyConsumed, Frame, Rows
  <2>. QED  BY <1>1, <1>2, <2>1 DEF HasSuccessor
<1>4. ASSUME NEW p \in Producer, EnqueueDuplicate(p) PROVE NothingSilentlyConsumed'
  <2>1. seen' \ seen \subseteq echoed'
    BY <1>4 DEF EnqueueDuplicate
  <2>. QED  BY <1>3, <2>1
<1>5. ASSUME NEW p \in Producer, EnqueueCommit(p) PROVE NothingSilentlyConsumed'
  <2>1. /\ tx[p].pc = "commit" /\ tx[p].id \in Id /\ tx[p].req \in Request
        /\ notif' = [notif EXCEPT ![tx[p].id] = tx[p].req]
        /\ seen' = seen \cup tx[p].victims
    BY <1>5 DEF EnqueueCommit, Shape
  <2>2. tx[p].id \in Present' /\ notif'[tx[p].id] = tx[p].req
    BY <2>1, RequestAssumption DEF Present, Row, TypeOK
  <2>3. \A v \in tx[p].victims : /\ tx[p].id > v
                                /\ notif'[v].to = tx[p].req.to
                                /\ notif'[v].subject = tx[p].req.subject
    <3>1. \A v \in tx[p].victims : v < tx[p].id /\ v \in Id
      BY <2>1 DEF Rows, Present
    <3>2. \A v \in Id : v < tx[p].id => tx[p].id > v
      BY <2>1, BoundAssumption DEF Id
    <3>. QED  BY <1>2, <2>1, <3>1, <3>2 DEF Rows
  <2>. QED  BY <1>3, <2>1, <2>2, <2>3 DEF HasSuccessor
<1>6. ASSUME NEW c \in Channel, Drain(c) PROVE NothingSilentlyConsumed'
  <2>1. seen' \ seen \subseteq sent'
    <3>1. CASE DrainRecord(c)
      BY <3>1 DEF DrainRecord, history, Sending
    <3>2. CASE ~DrainRecord(c)
      BY <1>6, <3>2 DEF Drain, DrainStart, DrainPoll, DrainSend, DrainSendFails,
                        DrainRecordFails, DrainStops, table
    <3>. QED  BY <3>1, <3>2
  <2>. QED  BY <1>3, <2>1
<1>7. ASSUME NEW k \in Caller, Recipient(k) PROVE NothingSilentlyConsumed'
  <2>1. seen' \ seen \subseteq owned'
    BY <1>7 DEF Recipient, ConfirmStart, ConfirmPending, ConfirmAck, ConfirmStamp,
                ConfirmLook, ConfirmReturn, ConfirmStops, PollAck, table
  <2>. QED  BY <1>3, <2>1
<1>8. ASSUME seen' = seen PROVE NothingSilentlyConsumed'
  BY <1>3, <1>8
<1>9. ASSUME NEW p \in Producer, Enqueue(p), ~EnqueueDuplicate(p), ~EnqueueCommit(p)
      PROVE  NothingSilentlyConsumed'
  BY <1>8, <1>9 DEF Enqueue, EnqueueBegin, EnqueueInsert, EnqueueAbort, table
<1>10. CASE UNCHANGED vars
  BY <1>8, <1>10 DEF vars, table
<1>. QED
  BY <1>4, <1>5, <1>6, <1>7, <1>9, <1>10 DEF Next

(* A row only stops being pushed after the transport or its recipient has  *)
(* had it, or when a newer row of the same subject stands in its inbox, or *)
(* when a snapshot that repeats one superseded it.                         *)
THEOREM NothingLost == Spec => []NothingSilentlyConsumed
<1> DEFINE Inv == /\ TypeOK /\ Shape /\ Rows /\ Sending
                  /\ NothingSilentlyConsumed
<1>1. Init => Inv
  BY TypeInit, RowsInit DEF Init, Sending, NothingSilentlyConsumed, Idle
<1>2. Inv /\ [Next]_vars => Inv'
  BY TypeStep, RowsStep, SendingStep, ConsumedStep
<1>3. Inv => NothingSilentlyConsumed
  OBVIOUS
<1>. QED  BY <1>1, <1>2, <1>3, PTL DEF Spec

-----------------------------------------------------------------------------
(* One cause, one row.                                                     *)

(* A transaction past its dedup overlapped with every row of its cause and *)
(* with every row whose id it did not see.                                 *)
Overlaps ==
  \A p \in Producer : tx[p].pc = "commit" =>
    \A i \in Present :
      SameCause(tx[p].req, notif[i]) \/ tx[p].id < i => {i, tx[p].id} \in raced

LEMMA OverlapsStep ==
  /\ TypeOK /\ TypeOK' /\ Shape /\ Rows /\ Overlaps /\ OneRowPerCause /\ [Next]_vars
  => Overlaps' /\ OneRowPerCause'
<1> SUFFICES ASSUME TypeOK, TypeOK', Shape, Rows, Overlaps, OneRowPerCause, [Next]_vars
             PROVE  Overlaps' /\ OneRowPerCause'
  OBVIOUS
<1>1. Frame
  BY FrameStep
<1>2. ASSUME notif' = notif,
             \A p \in Producer : tx'[p].pc = "commit" => tx'[p] = tx[p]
      PROVE  Overlaps' /\ OneRowPerCause'
  <2>1. Present' = Present /\ raced \subseteq raced'
    BY <1>1, <1>2 DEF Present, Row, Frame
  <2>. QED  BY <1>2, <2>1 DEF Overlaps, OneRowPerCause, SameCause
<1>3. ASSUME NEW p \in Producer,
             (\E r \in Request : EnqueueBegin(p, r)) \/ EnqueueDuplicate(p) \/ EnqueueAbort(p)
      PROVE  Overlaps' /\ OneRowPerCause'
  <2>1. /\ notif' = notif
        /\ tx'[p].pc # "commit" /\ \A q \in Producer \ {p} : tx'[q] = tx[q]
    BY <1>3 DEF EnqueueBegin, EnqueueDuplicate, EnqueueAbort, NoTx, table, TypeOK
  <2>. QED  BY <1>2, <2>1
<1>4. ASSUME NEW p \in Producer, EnqueueInsert(p) PROVE Overlaps' /\ OneRowPerCause'
  <2>1. /\ notif' = notif /\ raced' = raced /\ Present' = Present
        /\ tx'[p].id = nextId /\ tx'[p].req = tx[p].req
        /\ \A q \in Producer \ {p} : tx'[q] = tx[q]
    BY <1>4 DEF EnqueueInsert, table, history, Present, Row, TypeOK, TxState
  <2>2. \A i \in Present : ~ SameCause(tx[p].req, notif[i])
    BY <1>4 DEF EnqueueInsert, Duplicate
  <2>3. \A i \in Present : ~ (nextId < i)
    BY BoundAssumption DEF Rows, Present, Id, TypeOK
  <2>. QED  BY <2>1, <2>2, <2>3 DEF Overlaps, OneRowPerCause, SameCause
<1>5. ASSUME NEW p \in Producer, EnqueueCommit(p) PROVE Overlaps' /\ OneRowPerCause'
  <2>1. PICK n \in Id, r \in Request :
          /\ n = tx[p].id /\ r = tx[p].req /\ tx[p].pc = "commit"
          /\ notif' = [notif EXCEPT ![n] = r] /\ n \notin Present
          /\ tx' = [tx EXCEPT ![p] = NoTx]
    BY <1>5 DEF EnqueueCommit, Shape, Rows
  <2>2. /\ Present' = Present \cup {n} /\ notif'[n] = r
        /\ \A i \in Present : notif'[i] = notif[i]
    BY <2>1, RequestAssumption DEF Present, Row, TypeOK
  <2>3. /\ raced \subseteq raced'
        /\ \A q \in Producer \ {p} : tx[q].pc = "commit" => {n, tx[q].id} \in raced'
    BY <1>5, <2>1 DEF EnqueueCommit
  <2>4. /\ tx'[p].pc # "commit" /\ \A q \in Producer \ {p} : tx'[q] = tx[q]
    BY <2>1 DEF NoTx, TypeOK
  <2>5. Overlaps'
    <3> SUFFICES ASSUME NEW q \in Producer, tx'[q].pc = "commit", NEW i \in Present',
                        SameCause(tx'[q].req, notif'[i]) \/ tx'[q].id < i
                 PROVE  {i, tx'[q].id} \in raced'
      BY DEF Overlaps, SameCause
    <3>1. q # p /\ tx'[q] = tx[q]
      BY <2>4
    <3>2. CASE i = n
      BY <2>3, <3>1, <3>2
    <3>3. CASE i \in Present
      BY <2>2, <2>3, <3>1, <3>3 DEF Overlaps
    <3>. QED  BY <2>2, <3>2, <3>3
  <2>6. OneRowPerCause'
    <3> SUFFICES ASSUME NEW i \in Present', NEW j \in Present', i < j,
                        SameCause(notif'[j], notif'[i])
                 PROVE  {i, j} \in raced'
      BY DEF OneRowPerCause, SameCause
    <3>1. CASE i \in Present /\ j \in Present
      BY <2>2, <2>3, <3>1 DEF OneRowPerCause
    <3>2. CASE i \in Present /\ j = n
      BY <2>1, <2>2, <2>3, <3>2 DEF Overlaps
    <3>3. CASE i = n /\ j \in Present
      <4>1. {j, n} \in raced
        BY <2>1, <3>3 DEF Overlaps
      <4>2. {i, j} = {j, n}
        BY <3>3
      <4>. QED  BY <2>3, <4>1, <4>2
    <3>4. ~ (n < n)
      BY BoundAssumption DEF Id
    <3>. QED  BY <2>2, <3>1, <3>2, <3>3, <3>4
  <2>. QED  BY <2>5, <2>6
<1>6. ASSUME NEW c \in Channel, Drain(c) PROVE notif' = notif /\ tx' = tx
  BY <1>6 DEF Drain, DrainStart, DrainPoll, DrainSend, DrainSendFails, DrainRecord,
              DrainRecordFails, DrainStops, table
<1>7. ASSUME NEW k \in Caller, Recipient(k) PROVE notif' = notif /\ tx' = tx
  BY <1>7 DEF Recipient, ConfirmStart, ConfirmPending, ConfirmAck, ConfirmStamp,
              ConfirmLook, ConfirmReturn, ConfirmStops, PollAck, table
<1>8. CASE UNCHANGED vars
  BY <1>2, <1>8 DEF vars, table
<1>. QED
  BY <1>2, <1>3, <1>4, <1>5, <1>6, <1>7, <1>8 DEF Next, Enqueue

(* However often a cause is enqueued, whatever has become of its row and   *)
(* whichever transactions fail, its inbox has one row of it, unless two    *)
(* calls were past their dedup at once.                                    *)
THEOREM CausesStaySingle == Spec => []OneRowPerCause
<1> DEFINE Inv == TypeOK /\ Shape /\ Rows /\ Overlaps /\ OneRowPerCause
<1>1. Init => Inv
  BY TypeInit, RowsInit DEF Init, Overlaps, OneRowPerCause, NoTx, Present, Row
<1>2. Inv /\ [Next]_vars => Inv'
  BY TypeStep, RowsStep, OverlapsStep
<1>3. Inv => OneRowPerCause
  OBVIOUS
<1>. QED  BY <1>1, <1>2, <1>3, PTL DEF Spec

-----------------------------------------------------------------------------
(* Recipients: what a confirm call knows between two of its transactions.  *)

Owns(x, keys) == \A i \in DOMAIN keys : Reads(x, keys[i])

Call(k) ==
  /\ conf[k].ids \subseteq Present
  /\ Owns(k, conf[k].keys) /\ Owns(k, conf[k].todo)
  /\ conf[k].pc = "stamp" => Requested(k) \subseteq seen \cap owned
  /\ conf[k].pc = "look" => \A id \in Requested(k) : confirmedAt[id] # Never
  /\ \A id \in conf[k].known : id \in Present /\ confirmedAt[id] # Never
  /\ conf[k].pc \in {"ack", "stamp", "look", "receipt"} =>
       \A i \in DOMAIN conf[k].keys :
         \/ \E j \in DOMAIN conf[k].todo : conf[k].todo[j] = conf[k].keys[i]
         \/ \A id \in conf[k].ids : notif[id].to = conf[k].keys[i] => id \in conf[k].known

Calls == \A k \in Caller : Call(k)

LEMMA OwnsTail ==
  ASSUME NEW x, NEW s \in Seq(Key), s # <<>>, Owns(x, s)
  PROVE  Owns(x, Tail(s)) /\ Reads(x, Head(s))
  BY DEF Owns

LEMMA OwnsStart ==
  ASSUME NEW x \in Channel \cup Caller, NEW resolved \in BOOLEAN
  PROVE  Owns(x, KeysSeenBy(x, resolved))
  BY ProcessAssumption DEF Owns, KeysSeenBy, Reads

LEMMA RequestedStays ==
  ASSUME TypeOK, TypeOK', Frame, NEW k \in Caller, conf[k].ids \subseteq Present,
         conf'[k].ids = conf[k].ids, Head(conf'[k].todo) = Head(conf[k].todo)
  PROVE  Requested(k)' = Requested(k)
  BY PresentGrows DEF Requested, RowsFor, Frame, Present, Row

LEMMA CallUnchanged ==
  ASSUME TypeOK, TypeOK', Frame, NEW k \in Caller, conf'[k] = conf[k], Call(k)
  PROVE  Call(k)'
<1>1. Present \subseteq Present' /\ \A id \in Present : notif'[id] = notif[id]
  BY PresentGrows DEF Frame, Present, Row
<1>2. Requested(k)' = Requested(k)
  BY RequestedStays DEF Call
<1>3. \A id \in Id : confirmedAt[id] # Never => confirmedAt'[id] # Never
  BY DEF Frame
<1>4. Requested(k) \subseteq Id /\ Present \subseteq Id
  BY DEF Requested, RowsFor, Present
<1>. QED  BY <1>1, <1>2, <1>3, <1>4 DEF Call, Frame, Owns

LEMMA CallsStep ==
  TypeOK /\ TypeOK' /\ Shape /\ Rows /\ Calls /\ [Next]_vars => Calls'
<1> SUFFICES ASSUME TypeOK, TypeOK', Shape, Rows, Calls, [Next]_vars PROVE Calls'
  OBVIOUS
<1>1. Frame /\ Present \subseteq Present'
  BY FrameStep, PresentGrows
<1>2. ASSUME conf' = conf PROVE Calls'
  BY <1>1, <1>2, CallUnchanged DEF Calls
<1>3. ASSUME NEW k \in Caller, \A l \in Caller \ {k} : conf'[l] = conf[l], Call(k)'
      PROVE  Calls'
  BY <1>1, <1>3, CallUnchanged DEF Calls
<1>4. ASSUME NEW k \in Caller, NEW ids \in SUBSET Id, NEW resolved \in BOOLEAN,
             ConfirmStart(k, ids, resolved)
      PROVE  Calls'
  <2>1. /\ conf'[k].ids = ids /\ conf'[k].known = {} /\ conf'[k].pc = "pending"
        /\ conf'[k].keys = KeysSeenBy(k, resolved)
        /\ conf'[k].todo = KeysSeenBy(k, resolved)
        /\ \A l \in Caller \ {k} : conf'[l] = conf[l]
        /\ ids \subseteq Present
    BY <1>4 DEF ConfirmStart, NoCall, TypeOK
  <2>2. Owns(k, conf'[k].keys) /\ Owns(k, conf'[k].todo)
    BY <2>1, OwnsStart
  <2>3. Call(k)'
    BY <1>1, <2>1, <2>2 DEF Call, Owns
  <2>. QED  BY <1>3, <2>1, <2>3
<1>5. ASSUME NEW k \in Caller, ConfirmPending(k) PROVE Calls'
  <2> DEFINE rest == Tail(conf[k].todo)
  <2>1. conf[k] \in CallState /\ conf[k].todo # <<>> /\ Call(k)
    BY <1>5 DEF ConfirmPending, TypeOK, Shape, Calls
  <2>2. /\ conf'[k].ids = conf[k].ids /\ conf'[k].known = conf[k].known
        /\ conf'[k].keys = conf[k].keys
        /\ \/ conf'[k].pc = "pending" /\ conf'[k].todo = rest
           \/ conf'[k].pc = "ack" /\ conf'[k].todo = conf[k].keys
        /\ \A l \in Caller \ {k} : conf'[l] = conf[l]
        /\ notif' = notif /\ confirmedAt' = confirmedAt
    BY <1>5, <2>1 DEF ConfirmPending, TypeOK, CallState, table
  <2>3. Owns(k, rest)
    BY <2>1, OwnsTail DEF CallState, Call
  <2>4. Call(k)'
    BY <1>1, <2>1, <2>2, <2>3 DEF Call, Owns
  <2>. QED  BY <1>3, <2>2, <2>4
<1>6. ASSUME NEW k \in Caller, ConfirmAck(k) PROVE Calls'
  <2>1. conf[k] \in CallState /\ Call(k)
    BY <1>6 DEF TypeOK, Calls
  <2>2. /\ conf' = [conf EXCEPT ![k].pc = "stamp"] /\ conf[k].pc = "ack"
        /\ seen' = seen \cup Requested(k) /\ owned' = owned \cup Requested(k)
        /\ notif' = notif /\ confirmedAt' = confirmedAt
    BY <1>6 DEF ConfirmAck
  <2>3. /\ conf'[k].ids = conf[k].ids /\ conf'[k].known = conf[k].known
        /\ conf'[k].keys = conf[k].keys /\ conf'[k].todo = conf[k].todo
        /\ conf'[k].pc = "stamp" /\ \A l \in Caller \ {k} : conf'[l] = conf[l]
    BY <2>1, <2>2 DEF TypeOK, CallState
  <2>4. Requested(k)' = Requested(k)
    BY <1>1, <2>1, <2>3, RequestedStays DEF Call
  <2>5. Call(k)'
    BY <1>1, <2>1, <2>2, <2>3, <2>4 DEF Call, Owns
  <2>. QED  BY <1>3, <2>3, <2>5
<1>7. ASSUME NEW k \in Caller, ConfirmStamp(k) PROVE Calls'
  <2>1. conf[k] \in CallState /\ Call(k)
    BY <1>7 DEF TypeOK, Calls
  <2>2. /\ conf' = [conf EXCEPT ![k].pc = "look"] /\ conf[k].pc = "stamp"
        /\ notif' = notif /\ confirmedAt' = Stamp(confirmedAt, Requested(k), k)
    BY <1>7 DEF ConfirmStamp
  <2>3. /\ conf'[k].ids = conf[k].ids /\ conf'[k].known = conf[k].known
        /\ conf'[k].keys = conf[k].keys /\ conf'[k].todo = conf[k].todo
        /\ conf'[k].pc = "look" /\ \A l \in Caller \ {k} : conf'[l] = conf[l]
    BY <2>1, <2>2 DEF TypeOK, CallState
  <2>4. Requested(k)' = Requested(k)
    BY <1>1, <2>1, <2>3, RequestedStays DEF Call
  <2>5. /\ \A id \in Requested(k) : confirmedAt'[id] # Never
        /\ \A id \in Id : confirmedAt[id] # Never => confirmedAt'[id] # Never
    BY <2>2, ProcessAssumption DEF Stamp, Requested, RowsFor, Present
  <2>6. \A id \in conf[k].known : id \in Id
    BY <2>1 DEF CallState
  <2>7. Call(k)'
    BY <1>1, <2>1, <2>2, <2>3, <2>4, <2>5, <2>6 DEF Call, Owns
  <2>. QED  BY <1>3, <2>3, <2>7
<1>8. ASSUME NEW k \in Caller, ConfirmLook(k) PROVE Calls'
  <2> DEFINE rest == Tail(conf[k].todo)
  <2>1. conf[k] \in CallState /\ conf[k].todo # <<>> /\ Call(k) /\ conf[k].pc = "look"
    BY <1>8 DEF ConfirmLook, TypeOK, Shape, Calls
  <2>2. /\ conf'[k].ids = conf[k].ids /\ conf'[k].known = conf[k].known \cup Requested(k)
        /\ conf'[k].keys = conf[k].keys /\ conf'[k].todo = rest
        /\ conf'[k].pc \in {"ack", "receipt"}
        /\ \A l \in Caller \ {k} : conf'[l] = conf[l]
        /\ notif' = notif /\ confirmedAt' = confirmedAt
    BY <1>8, <2>1 DEF ConfirmLook, TypeOK, CallState, table
  <2>3. Owns(k, rest)
    BY <2>1, OwnsTail DEF CallState, Call
  <2>4. \A id \in Requested(k) : id \in Present /\ confirmedAt[id] # Never
    BY <2>1 DEF Call, Requested, RowsFor
  <2>5. \A id \in conf[k].ids : notif[id].to = Head(conf[k].todo) => id \in Requested(k)
    BY <2>1 DEF Call, Requested, RowsFor
  <2>6. \A j \in DOMAIN conf[k].todo :
          \/ conf[k].todo[j] = Head(conf[k].todo)
          \/ \E i \in DOMAIN rest : rest[i] = conf[k].todo[j]
    <3>1. conf[k].todo \in Seq(Key) /\ conf[k].todo # <<>>
      BY <2>1 DEF CallState
    <3> SUFFICES ASSUME NEW j \in DOMAIN conf[k].todo, j # 1
                 PROVE  \E i \in DOMAIN rest : rest[i] = conf[k].todo[j]
      BY <3>1
    <3>2. j - 1 \in DOMAIN rest /\ rest[j - 1] = conf[k].todo[j]
      BY <3>1
    <3>. QED  BY <3>2
  <2> HIDE DEF rest
  <2>7. Call(k)'
    BY <1>1, <2>1, <2>2, <2>3, <2>4, <2>5, <2>6 DEF Call, Owns
  <2>. QED  BY <1>3, <2>2, <2>7
<1>9. ASSUME NEW k \in Caller, conf' = [conf EXCEPT ![k] = NoCall] PROVE Calls'
  <2>1. conf'[k] = NoCall /\ \A l \in Caller \ {k} : conf'[l] = conf[l]
    BY <1>9 DEF TypeOK
  <2>2. Call(k)'
    BY <2>1 DEF Call, NoCall, Owns
  <2>. QED  BY <1>3, <2>1, <2>2
<1>10. ASSUME NEW p \in Producer, Enqueue(p) PROVE Calls'
  BY <1>2, <1>10 DEF Enqueue, EnqueueBegin, EnqueueDuplicate, EnqueueInsert,
                     EnqueueCommit, EnqueueAbort
<1>11. ASSUME NEW c \in Channel, Drain(c) PROVE Calls'
  BY <1>2, <1>11 DEF Drain, DrainStart, DrainPoll, DrainSend, DrainSendFails,
                     DrainRecord, DrainRecordFails, DrainStops
<1>12. ASSUME NEW k \in Caller, NEW mirrored \in BOOLEAN,
              ConfirmReturn(k, mirrored) \/ ConfirmStops(k)
       PROVE  Calls'
  BY <1>9, <1>12 DEF ConfirmReturn, ConfirmStops
<1>13. ASSUME NEW k \in Caller, NEW key \in Key, PollAck(k, key) PROVE Calls'
  BY <1>2, <1>13 DEF PollAck
<1>14. CASE UNCHANGED vars
  BY <1>2, <1>14 DEF vars
<1>. QED
  BY <1>4, <1>5, <1>6, <1>7, <1>8, <1>10, <1>11, <1>12, <1>13, <1>14
  DEF Next, Recipient

(* What a drain knows: it only offers rows of its agent's own inboxes.     *)
Draining ==
  \A c \in Channel :
    /\ chan[c].batch \subseteq Present
    /\ Owns(c, chan[c].todo)
    /\ chan[c].pc \in {"send", "record"} => Reads(c, chan[c].key)

LEMMA AdvanceDraining ==
  ASSUME NEW c \in Channel, NEW ch \in ChanState, NEW batch \in SUBSET Id,
         NEW pushed \in Nat, Owns(c, ch.todo), Reads(c, ch.key)
  PROVE  /\ Advance(ch, batch, pushed).batch \subseteq batch
         /\ Owns(c, Advance(ch, batch, pushed).todo)
         /\ Advance(ch, batch, pushed).pc \in {"send", "record"} =>
              Reads(c, Advance(ch, batch, pushed).key)
<1>1. CASE pushed < MaxPush /\ batch # {}
  BY <1>1 DEF Advance, ChanState
<1>2. CASE ~(pushed < MaxPush /\ batch # {}) /\ pushed < MaxPush /\ ch.todo # <<>>
  BY <1>2 DEF Advance, ChanState
<1>3. CASE ~(pushed < MaxPush /\ batch # {}) /\ ~(pushed < MaxPush /\ ch.todo # <<>>)
  BY <1>3 DEF Advance, Idle, Owns
<1>. QED  BY <1>1, <1>2, <1>3

LEMMA DrainingStep ==
  TypeOK /\ TypeOK' /\ Shape /\ Rows /\ Draining /\ [Next]_vars => Draining'
<1> SUFFICES ASSUME TypeOK, TypeOK', Shape, Rows, Draining, [Next]_vars
             PROVE  Draining'
  OBVIOUS
<1>0. Present \subseteq Present'
  BY FrameStep, PresentGrows
<1>1. ASSUME chan' = chan PROVE Draining'
  BY <1>0, <1>1 DEF Draining
<1>2. ASSUME NEW c \in Channel, \A d \in Channel \ {c} : chan'[d] = chan[d],
             chan'[c].batch \subseteq Present, Owns(c, chan'[c].todo),
             chan'[c].pc \in {"send", "record"} => Reads(c, chan'[c].key)
      PROVE  Draining'
  BY <1>0, <1>2 DEF Draining
<1>3. ASSUME NEW c \in Channel, NEW resolved \in BOOLEAN, DrainStart(c, resolved)
      PROVE  Draining'
  BY <1>2, <1>3, OwnsStart DEF DrainStart, Idle, TypeOK
<1>4. ASSUME NEW c \in Channel, DrainPoll(c) PROVE Draining'
  <2> DEFINE ch == [chan[c] EXCEPT !.key = Head(chan[c].todo), !.todo = Tail(@)]
  <2>1. /\ chan[c] \in ChanState /\ chan[c].todo # <<>>
        /\ Head(chan[c].todo) \in Key /\ Tail(chan[c].todo) \in Seq(Key)
        /\ Owns(c, Tail(chan[c].todo)) /\ Reads(c, Head(chan[c].todo))
    <3>1. chan[c] \in ChanState /\ chan[c].todo # <<>> /\ Owns(c, chan[c].todo)
      BY <1>4 DEF DrainPoll, TypeOK, Shape, Draining
    <3>. QED  BY <3>1, OwnsTail DEF ChanState
  <2>2. ch \in ChanState /\ ch.pushed \in Nat /\ Owns(c, ch.todo) /\ Reads(c, ch.key)
    BY <2>1 DEF ChanState
  <2>3. /\ UnseenFor(Head(chan[c].todo)) \in SUBSET Id
        /\ UnseenFor(Head(chan[c].todo)) \subseteq Present
    BY DEF UnseenFor, RowsFor, Present
  <2>4. chan' = [chan EXCEPT ![c] =
                   Advance(ch, UnseenFor(Head(chan[c].todo)), ch.pushed)]
    BY <1>4 DEF DrainPoll
  <2> HIDE DEF ch
  <2>5. /\ chan'[c] = Advance(ch, UnseenFor(Head(chan[c].todo)), ch.pushed)
        /\ \A d \in Channel \ {c} : chan'[d] = chan[d]
    BY <2>4 DEF TypeOK
  <2> DEFINE batch == UnseenFor(Head(chan[c].todo))
             next  == Advance(ch, batch, ch.pushed)
  <2> HIDE DEF batch, ch
  <2>6. batch \in SUBSET Id
    BY <2>3 DEF batch
  <2>7. /\ next.batch \subseteq batch /\ Owns(c, next.todo)
        /\ next.pc \in {"send", "record"} => Reads(c, next.key)
    BY <2>2, <2>6, AdvanceDraining
  <2>8. chan'[c] = next /\ batch \subseteq Present
    BY <2>3, <2>5 DEF batch
  <2> HIDE DEF next
  <2>. QED  BY <1>2, <2>5, <2>7, <2>8
<1>5. ASSUME NEW c \in Channel, NEW id \in Id, DrainSend(c, id) PROVE Draining'
  <2>1. chan' = [chan EXCEPT ![c].pc = "record"] /\ chan[c].pc = "send"
    BY <1>5 DEF DrainSend
  <2>2. /\ chan'[c].todo = chan[c].todo /\ chan'[c].key = chan[c].key
        /\ chan'[c].batch = chan[c].batch
        /\ \A d \in Channel \ {c} : chan'[d] = chan[d]
    BY <2>1 DEF TypeOK, ChanState
  <2>. QED  BY <1>2, <2>1, <2>2 DEF Draining
<1>6. ASSUME NEW c \in Channel,
             DrainSendFails(c) \/ DrainRecord(c) \/ DrainRecordFails(c)
      PROVE  Draining'
  <2> DEFINE rest == chan[c].batch \ {FirstOf(chan[c].batch)}
  <2>1. /\ rest \in SUBSET Id /\ chan[c] \in ChanState
        /\ chan[c].pushed \in Nat /\ chan[c].pushed + 1 \in Nat
    BY DEF TypeOK, ChanState
  <2>2. Owns(c, chan[c].todo) /\ Reads(c, chan[c].key) /\ rest \subseteq Present
    BY <1>6 DEF Draining, DrainSendFails, DrainRecord, DrainRecordFails
  <2>3. \/ chan' = [chan EXCEPT ![c] = Advance(chan[c], rest, chan[c].pushed)]
        \/ chan' = [chan EXCEPT ![c] = Advance(chan[c], rest, chan[c].pushed + 1)]
    BY <1>6 DEF DrainSendFails, DrainRecord, DrainRecordFails
  <2> HIDE DEF rest
  <2>4. PICK pushed \in Nat : chan' = [chan EXCEPT ![c] = Advance(chan[c], rest, pushed)]
    BY <2>1, <2>3
  <2>5. /\ chan'[c] = Advance(chan[c], rest, pushed)
        /\ \A d \in Channel \ {c} : chan'[d] = chan[d]
    BY <2>4 DEF TypeOK
  <2>6. /\ chan'[c].batch \subseteq rest /\ Owns(c, chan'[c].todo)
        /\ chan'[c].pc \in {"send", "record"} => Reads(c, chan'[c].key)
    BY <2>1, <2>2, <2>5, AdvanceDraining
  <2>. QED  BY <1>2, <2>2, <2>5, <2>6
<1>7. ASSUME NEW c \in Channel, DrainStops(c) PROVE Draining'
  BY <1>2, <1>7 DEF DrainStops, Idle, TypeOK, Owns
<1>8. ASSUME NEW p \in Producer, Enqueue(p) PROVE Draining'
  BY <1>1, <1>8 DEF Enqueue, EnqueueBegin, EnqueueDuplicate, EnqueueInsert,
                    EnqueueCommit, EnqueueAbort
<1>9. ASSUME NEW k \in Caller, Recipient(k) PROVE Draining'
  BY <1>1, <1>9 DEF Recipient, ConfirmStart, ConfirmPending, ConfirmAck,
       ConfirmStamp, ConfirmLook, ConfirmReturn, ConfirmStops, PollAck
<1>10. CASE UNCHANGED vars
  BY <1>1, <1>10 DEF vars
<1>. QED
  BY <1>3, <1>4, <1>5, <1>6, <1>7, <1>8, <1>9, <1>10 DEF Next, Drain

(* The inductive invariant of the table, the drains and the calls.         *)
TableInv == TypeOK /\ Shape /\ Rows /\ Sending /\ Draining /\ Calls

LEMMA TableInit == Init => TableInv
<1> SUFFICES ASSUME Init PROVE Draining /\ Calls /\ Sending
  BY TypeInit, RowsInit DEF TableInv
<1>1. Draining /\ Sending
  BY DEF Init, Draining, Sending, Idle, Owns
<1>2. Calls
  BY DEF Init, Calls, Call, NoCall, Owns
<1>. QED  BY <1>1, <1>2

LEMMA TableStep == TableInv /\ [Next]_vars => TableInv'
  BY TypeStep, RowsStep, SendingStep, DrainingStep, CallsStep DEF TableInv

(* A confirmed row is never offered to a session again.                    *)
ConfirmedIsSeen == \A id \in Id : confirmedAt[id] # Never => id \in seen

LEMMA SeenOnly ==
  ASSUME ConfirmedIsSeen, Frame, TypeOK, confirmedAt' = confirmedAt
  PROVE  ConfirmedIsSeen'
  BY DEF ConfirmedIsSeen, Frame

LEMMA ConfirmedIsSeenStep ==
  TableInv /\ ConfirmedIsSeen /\ [Next]_vars => ConfirmedIsSeen'
<1> SUFFICES ASSUME TableInv, ConfirmedIsSeen, [Next]_vars PROVE ConfirmedIsSeen'
  OBVIOUS
<1>1. Frame /\ TypeOK
  BY FrameStep DEF TableInv
<1>2. ASSUME NEW k \in Caller, ConfirmStamp(k) PROVE ConfirmedIsSeen'
  <2>1. Requested(k) \subseteq seen
    BY <1>2 DEF TableInv, Calls, Call, ConfirmStamp
  <2>. QED  BY <1>2, <2>1 DEF ConfirmStamp, Stamp, ConfirmedIsSeen
<1>3. ASSUME NEW k \in Caller, Recipient(k), ~ConfirmStamp(k) PROVE ConfirmedIsSeen'
  BY <1>1, <1>3, SeenOnly DEF Recipient, ConfirmStart, ConfirmPending, ConfirmAck,
       ConfirmLook, ConfirmReturn, ConfirmStops, PollAck, table
<1>4. ASSUME NEW c \in Channel, Drain(c) PROVE ConfirmedIsSeen'
  BY <1>1, <1>4, SeenOnly DEF Drain, DrainStart, DrainPoll, DrainSend,
       DrainSendFails, DrainRecord, DrainRecordFails, DrainStops, table
<1>5. ASSUME NEW p \in Producer, Enqueue(p) PROVE ConfirmedIsSeen'
  BY <1>1, <1>5, SeenOnly DEF Enqueue, EnqueueBegin, EnqueueDuplicate,
       EnqueueInsert, EnqueueCommit, EnqueueAbort, table
<1>6. CASE UNCHANGED vars
  BY <1>1, <1>6, SeenOnly DEF vars, table
<1>. QED  BY <1>2, <1>3, <1>4, <1>5, <1>6 DEF Next

LEMMA ReceiptsStep ==
  /\ TableInv /\ TypeOK' /\ ConfirmedIsSeen /\ ReceiptsAreHonest /\ [Next]_vars
  => ReceiptsAreHonest'
<1> SUFFICES ASSUME TableInv, TypeOK', ConfirmedIsSeen, ReceiptsAreHonest, [Next]_vars
             PROVE  ReceiptsAreHonest'
  OBVIOUS
<1>1. /\ Frame /\ TypeOK /\ Sending /\ Draining /\ Calls
      /\ \A id \in seen : notif'[id] = notif[id]
  BY FrameStep DEF TableInv, Frame, Rows, Present, Row
<1>2. ASSUME NEW id \in Id, pushedAt[id] # Never
      PROVE  /\ pushedAt'[id] = pushedAt[id] /\ notif'[id] = notif[id]
             /\ id \in sent' \cap seen' /\ Reads(pushedAt'[id], notif'[id].to)
  BY <1>1, <1>2 DEF ReceiptsAreHonest, Frame
<1>3. ASSUME NEW id \in Id, confirmedAt[id] # Never
      PROVE  /\ confirmedAt'[id] = confirmedAt[id] /\ notif'[id] = notif[id]
             /\ id \in owned' \cap seen' /\ Reads(confirmedAt'[id], notif'[id].to)
  BY <1>1, <1>3 DEF ReceiptsAreHonest, ConfirmedIsSeen, Frame
<1>4. ASSUME pushedAt' = pushedAt, confirmedAt' = confirmedAt PROVE ReceiptsAreHonest'
  BY <1>2, <1>3, <1>4 DEF ReceiptsAreHonest
<1>5. ASSUME NEW c \in Channel, DrainRecord(c) PROVE ReceiptsAreHonest'
  <2> DEFINE hit == {FirstOf(chan[c].batch)} \cap RowsFor(chan[c].key)
  <2>1. /\ seen' = seen \cup hit /\ sent' = sent /\ notif' = notif
        /\ pushedAt' = Stamp(pushedAt, hit, c) /\ confirmedAt' = confirmedAt
        /\ hit \subseteq sent /\ Reads(c, chan[c].key)
    BY <1>1, <1>5 DEF DrainRecord, Sending, Draining, history
  <2>2. \A id \in hit : notif[id].to = chan[c].key
    BY DEF RowsFor
  <2> HIDE DEF hit
  <2>3. \A id \in Id : pushedAt'[id] # Never =>
          pushedAt[id] # Never \/ (id \in hit /\ pushedAt'[id] = c)
    BY <2>1 DEF Stamp
  <2>. QED  BY <1>2, <1>3, <2>1, <2>2, <2>3 DEF ReceiptsAreHonest
<1>6. ASSUME NEW k \in Caller, ConfirmStamp(k) PROVE ReceiptsAreHonest'
  <2>1. /\ owned' = owned /\ seen' = seen /\ notif' = notif /\ pushedAt' = pushedAt
        /\ confirmedAt' = Stamp(confirmedAt, Requested(k), k)
        /\ conf[k].pc = "stamp" /\ conf[k] \in CallState /\ conf[k].todo # <<>>
    BY <1>1, <1>6 DEF ConfirmStamp, history, TypeOK, TableInv, Shape
  <2>2. /\ Requested(k) \subseteq owned \cap seen /\ Reads(k, Head(conf[k].todo))
    BY <1>1, <2>1, OwnsTail DEF Calls, Call, CallState
  <2>3. \A id \in Requested(k) : notif[id].to = Head(conf[k].todo)
    BY DEF Requested, RowsFor
  <2>4. \A id \in Id : confirmedAt'[id] # Never =>
          confirmedAt[id] # Never \/ (id \in Requested(k) /\ confirmedAt'[id] = k)
    BY <2>1 DEF Stamp
  <2>. QED  BY <1>2, <1>3, <2>1, <2>2, <2>3, <2>4 DEF ReceiptsAreHonest
<1>7. ASSUME NEW c \in Channel, Drain(c), ~DrainRecord(c) PROVE ReceiptsAreHonest'
  BY <1>4, <1>7 DEF Drain, DrainStart, DrainPoll, DrainSend, DrainSendFails,
                    DrainRecordFails, DrainStops, table
<1>8. ASSUME NEW k \in Caller, Recipient(k), ~ConfirmStamp(k) PROVE ReceiptsAreHonest'
  BY <1>4, <1>8 DEF Recipient, ConfirmStart, ConfirmPending, ConfirmAck,
       ConfirmLook, ConfirmReturn, ConfirmStops, PollAck, table
<1>9. ASSUME NEW p \in Producer, Enqueue(p) PROVE ReceiptsAreHonest'
  BY <1>4, <1>9 DEF Enqueue, EnqueueBegin, EnqueueDuplicate, EnqueueInsert,
                    EnqueueCommit, EnqueueAbort, table
<1>10. CASE UNCHANGED vars
  BY <1>4, <1>10 DEF vars, table
<1>. QED  BY <1>5, <1>6, <1>7, <1>8, <1>9, <1>10 DEF Next

(* A push receipt means that the transport took the row, a confirmation    *)
(* that its recipient took it over and that no session is offered it       *)
(* again, whatever stopped between the statements that make it, and        *)
(* neither is ever stamped by a process that does not read the inbox the   *)
(* row is in.                                                              *)
THEOREM ReceiptsStayHonest == Spec => []ReceiptsAreHonest
<1> DEFINE Inv == TableInv /\ ConfirmedIsSeen /\ ReceiptsAreHonest
<1>1. Init => Inv
  BY TableInit DEF Init, ConfirmedIsSeen, ReceiptsAreHonest
<1>2. Inv /\ [Next]_vars => Inv'
  <2>1. TableInv /\ [Next]_vars => TypeOK'
    BY TableStep DEF TableInv
  <2>. QED  BY <2>1, TableStep, ConfirmedIsSeenStep, ReceiptsStep
<1>3. Inv => ReceiptsAreHonest
  OBVIOUS
<1>. QED  BY <1>1, <1>2, <1>3, PTL DEF Spec

(* What a finished confirm call reports is true of the table, although its *)
(* classification was read in another transaction than its stamps.         *)
THEOREM ReportStaysTrue == Spec => []ReportIsTrue
<1>1. TableInv => ReportIsTrue
  <2> SUFFICES ASSUME TableInv, NEW k \in Caller, conf[k].pc = "receipt"
               PROVE  /\ \A id \in ConfirmReport(k).confirmed \cup ConfirmReport(k).already :
                           confirmedAt[id] # Never
                      /\ \A id \in ConfirmReport(k).unknown, i \in DOMAIN conf[k].keys :
                           notif[id].to # conf[k].keys[i]
    BY DEF ReportIsTrue
  <2>1. Call(k) /\ conf[k].todo = <<>>
    BY DEF TableInv, Calls, Shape
  <2>2. conf[k] \in CallState
    BY DEF TableInv, TypeOK
  <2>. QED  BY <2>1, <2>2 DEF ConfirmReport, Call, CallState
<1>. QED  BY <1>1, TableInit, TableStep, PTL DEF Spec

LEMMA LampStep ==
  TableInv /\ TypeOK' /\ ReadLampFollowsConfirmation /\ [Next]_vars
  => ReadLampFollowsConfirmation'
<1> SUFFICES ASSUME TableInv, TypeOK', ReadLampFollowsConfirmation, [Next]_vars
             PROVE  ReadLampFollowsConfirmation'
  OBVIOUS
<1> DEFINE Lit(m) == \E id \in Present : notif[id].msg = m /\ confirmedAt[id] # Never
<1>1. /\ Calls /\ Present \subseteq Present'
      /\ \A id \in Present : notif'[id] = notif[id]
      /\ \A id \in Present : confirmedAt[id] # Never => confirmedAt'[id] # Never
  BY FrameStep, PresentGrows DEF TableInv, Frame, Present, Row
<1>2. \A m : Lit(m) => Lit(m)'
  BY <1>1
<1>3. ASSUME \A lamp \in dmReceipts' \ dmReceipts : Lit(lamp[1])
      PROVE  ReadLampFollowsConfirmation'
  BY <1>2, <1>3 DEF ReadLampFollowsConfirmation
<1>4. ASSUME NEW k \in Caller, NEW mirrored \in BOOLEAN, ConfirmReturn(k, mirrored)
      PROVE  ReadLampFollowsConfirmation'
  <2>1. \A m \in MessagesOf(conf[k].known) : Lit(m)
    BY <1>1 DEF Calls, Call, MessagesOf
  <2>2. dmReceipts' \ dmReceipts \subseteq MessagesOf(conf[k].known) \X {k}
    BY <1>4 DEF ConfirmReturn
  <2>. QED  BY <1>3, <2>1, <2>2
<1>5. ASSUME dmReceipts' = dmReceipts PROVE ReadLampFollowsConfirmation'
  BY <1>3, <1>5
<1>6. ASSUME NEW k \in Caller, Recipient(k),
             \A mirrored \in BOOLEAN : ~ConfirmReturn(k, mirrored)
      PROVE  ReadLampFollowsConfirmation'
  BY <1>5, <1>6 DEF Recipient, ConfirmStart, ConfirmPending, ConfirmAck,
       ConfirmStamp, ConfirmLook, ConfirmStops, PollAck, table
<1>7. ASSUME NEW c \in Channel, Drain(c) PROVE ReadLampFollowsConfirmation'
  BY <1>5, <1>7 DEF Drain, DrainStart, DrainPoll, DrainSend, DrainSendFails,
       DrainRecord, DrainRecordFails, DrainStops, table
<1>8. ASSUME NEW p \in Producer, Enqueue(p) PROVE ReadLampFollowsConfirmation'
  BY <1>5, <1>8 DEF Enqueue, EnqueueBegin, EnqueueDuplicate, EnqueueInsert,
                    EnqueueCommit, EnqueueAbort, table
<1>9. CASE UNCHANGED vars
  BY <1>5, <1>9 DEF vars, table
<1>. QED  BY <1>4, <1>6, <1>7, <1>8, <1>9 DEF Next

(* The read lamp of a message is lit only when a notification about it     *)
(* carries the recipient's confirmation.                                   *)
THEOREM LampFollowsConfirmation == Spec => []ReadLampFollowsConfirmation
<1> DEFINE Inv == TableInv /\ ReadLampFollowsConfirmation
<1>1. Init => Inv
  BY TableInit DEF Init, ReadLampFollowsConfirmation
<1>2. Inv /\ [Next]_vars => Inv'
  <2>1. TableInv /\ [Next]_vars => TypeOK'
    BY TableStep DEF TableInv
  <2>. QED  BY <2>1, TableStep, LampStep
<1>3. Inv => ReadLampFollowsConfirmation
  OBVIOUS
<1>. QED  BY <1>1, <1>2, <1>3, PTL DEF Spec

-----------------------------------------------------------------------------
(* The rail implements its promise.                                        *)

LEMMA RailInit == Init => Rail!Init
<1> SUFFICES ASSUME Init PROVE Rail!Init
  OBVIOUS
<1>1. Present = {}
  BY DEF Init, Present, Row
<1>. QED  BY <1>1 DEF Init, Rail!Init, Rail!Posted

LEMMA RailUnchanged ==
  ASSUME notif' = notif, seen' = seen, sent' = sent, owned' = owned,
         echoed' = echoed, pushedAt' = pushedAt, confirmedAt' = confirmedAt
  PROVE  UNCHANGED Rail!vars
  BY DEF Rail!vars, Present, Row

LEMMA RailStep == TableInv /\ TypeOK' /\ [Next]_vars => [Rail!Next]_(Rail!vars)
<1> SUFFICES ASSUME TableInv, TypeOK', [Next]_vars
             PROVE  Rail!Next \/ UNCHANGED Rail!vars
  OBVIOUS
<1>1. TypeOK /\ Shape /\ Rows /\ Sending /\ Draining /\ Calls
  BY DEF TableInv
<1>2. ASSUME NEW p \in Producer, EnqueueCommit(p) PROVE Rail!Next
  <2> DEFINE id == tx[p].id
  <2>1. /\ id \in Id \ Present /\ tx[p].victims \subseteq Present
        /\ notif' = [notif EXCEPT ![id] = tx[p].req] /\ tx[p].req \in Request
        /\ seen' = seen \cup tx[p].victims /\ seen \subseteq Present
        /\ UNCHANGED <<pushedAt, confirmedAt, sent, owned, echoed>>
    BY <1>1, <1>2 DEF EnqueueCommit, Shape, Rows, history
  <2> HIDE DEF id
  <2>2. Present' = Present \cup {id}
    BY <1>1, <2>1, RequestAssumption DEF Present, Row, TypeOK
  <2>3. Present' \ seen' = ((Present \ seen) \ (tx[p].victims \ seen)) \cup {id}
    BY <2>1, <2>2
  <2> DEFINE rows == [i \in Present |-> <<notif[i].to, notif[i].subject>>]
  <2>4. PICK new \in Id, stream \in {<<r.to, r.subject>> : r \in Request} :
          new = id /\ stream = <<tx[p].req.to, tx[p].req.subject>>
    BY <2>1
  <2>5. \A v \in tx[p].victims \ seen : v \in Present \ seen /\ rows[v] = stream
    BY <1>1, <1>2, <2>1, <2>4 DEF Rows, EnqueueCommit
  <2>6. rows' = [i \in Present \cup {new} |-> IF i = new THEN stream ELSE rows[i]]
    <3>1. /\ notif'[new] = tx[p].req
          /\ \A i \in Present : i # new /\ notif'[i] = notif[i]
      BY <1>1, <2>1, <2>4 DEF Present, TypeOK
    <3>. QED  BY <2>2, <2>4, <3>1
  <2>7. Rail!Post(new, stream)
    <3>1. tx[p].victims \ seen \in SUBSET Rail!Waiting(stream)
      BY <2>5 DEF Rail!Waiting
    <3>2. Rail!Posted = Present
      BY DEF Rail!Posted
    <3>3. \E replaced \in SUBSET Rail!Waiting(stream) :
            Present' \ seen' = ((Present \ seen) \ replaced) \cup {new}
      BY <2>3, <2>4, <3>1
    <3>4. UNCHANGED <<sent, owned, echoed, {i \in Id : pushedAt[i] # Never},
                      {i \in Id : confirmedAt[i] # Never}>>
      BY <2>1
    <3>. QED  BY <2>1, <2>4, <2>6, <3>2, <3>3, <3>4 DEF Rail!Post
  <2>. QED  BY <2>7 DEF Rail!Next
<1>3. ASSUME NEW p \in Producer, EnqueueDuplicate(p) PROVE Rail!Next
  <2>1. PICK stream \in {<<r.to, r.subject>> : r \in Request}, replaced \in SUBSET Id :
          /\ stream = <<tx[p].req.to, tx[p].req.subject>>
          /\ replaced = tx[p].victims \ seen
    BY <1>1, <1>3 DEF EnqueueDuplicate, Shape, TypeOK, TxState
  <2>2. /\ seen' = seen \cup tx[p].victims /\ echoed' = echoed \cup replaced
        /\ UNCHANGED <<notif, pushedAt, confirmedAt, sent, owned>>
    BY <1>3, <2>1 DEF EnqueueDuplicate
  <2>3. Present' = Present
    BY <2>2 DEF Present, Row
  <2> DEFINE rows == [i \in Present |-> <<notif[i].to, notif[i].subject>>]
  <2>4. \A v \in replaced : v \in Present \ seen /\ rows[v] = stream
    BY <1>1, <1>3, <2>1 DEF Rows, EnqueueDuplicate
  <2>5. replaced \in SUBSET Rail!Waiting(stream)
    BY <2>4 DEF Rail!Waiting
  <2>6. Present' \ seen' = (Present \ seen) \ replaced
    BY <2>1, <2>2, <2>3
  <2>7. rows' = rows
    BY <2>2, <2>3
  <2>8. UNCHANGED <<sent, owned, {i \in Id : pushedAt[i] # Never},
                    {i \in Id : confirmedAt[i] # Never}>>
    BY <2>2
  <2>9. Rail!Echo(stream)
    BY <2>2, <2>5, <2>6, <2>7, <2>8 DEF Rail!Echo
  <2>. QED  BY <2>9 DEF Rail!Next
<1>4. ASSUME NEW p \in Producer, Enqueue(p), ~EnqueueCommit(p), ~EnqueueDuplicate(p)
      PROVE  UNCHANGED Rail!vars
  BY <1>4, RailUnchanged
  DEF Enqueue, EnqueueBegin, EnqueueInsert, EnqueueAbort, table, history
<1>5. ASSUME NEW c \in Channel, NEW id \in Id, DrainSend(c, id) PROVE Rail!Next
  <2>1. id \in Present /\ sent' = sent \cup {id}
        /\ UNCHANGED <<notif, seen, pushedAt, confirmedAt, owned, echoed>>
    BY <1>1, <1>5 DEF DrainSend, Draining, table
  <2>2. Present' = Present
    BY <2>1 DEF Present, Row
  <2>3. Rail!Transmit(id)
    BY <2>1, <2>2 DEF Rail!Transmit, Rail!Posted
  <2>. QED  BY <2>3 DEF Rail!Next
<1>6. ASSUME NEW c \in Channel, DrainRecord(c) PROVE Rail!Next \/ UNCHANGED Rail!vars
  <2> DEFINE hit == {FirstOf(chan[c].batch)} \cap RowsFor(chan[c].key)
  <2>1. /\ hit \subseteq sent /\ seen' = seen \cup hit /\ pushedAt' = Stamp(pushedAt, hit, c)
        /\ UNCHANGED <<notif, confirmedAt, sent, owned, echoed>>
    BY <1>1, <1>6 DEF DrainRecord, Sending, history
  <2>2. hit \subseteq Present /\ Present' = Present
    BY <2>1 DEF RowsFor, Present, Row
  <2>3. CASE hit = {}
    <3>1. pushedAt' = pushedAt
      BY <1>1, <2>1, <2>3 DEF Stamp, TypeOK
    <3>. QED  BY <2>1, <2>3, <3>1, RailUnchanged
  <2>4. CASE hit # {}
    <3>1. PICK id \in Id : hit = {id}
      BY <2>2, <2>4 DEF Present
    <3> HIDE DEF hit
    <3>2. {i \in Id : pushedAt'[i] # Never} = {i \in Id : pushedAt[i] # Never} \cup {id}
      BY <2>1, <3>1, ProcessAssumption DEF Stamp
    <3>3. Rail!RecordPush(id)
      BY <2>1, <2>2, <3>1, <3>2 DEF Rail!RecordPush
    <3>. QED  BY <3>3 DEF Rail!Next
  <2>. QED  BY <2>3, <2>4
<1>7. ASSUME NEW c \in Channel, Drain(c), ~DrainRecord(c),
             \A id \in Id : ~DrainSend(c, id)
      PROVE  UNCHANGED Rail!vars
  BY <1>7, RailUnchanged DEF Drain, DrainStart, DrainPoll, DrainSendFails,
       DrainRecordFails, DrainStops, table, history
<1>8. ASSUME NEW ids \in SUBSET Present, seen' = seen \cup ids, owned' = owned \cup ids,
             UNCHANGED <<notif, pushedAt, confirmedAt, sent, echoed>>
      PROVE  Rail!Next
  <2>1. Present' = Present /\ ids \in SUBSET Id
    BY <1>8 DEF Present, Row
  <2>2. Rail!TakeOver(ids)
    BY <1>8, <2>1 DEF Rail!TakeOver, Rail!Posted
  <2>. QED  BY <2>1, <2>2 DEF Rail!Next
<1>9. ASSUME NEW k \in Caller, ConfirmAck(k) PROVE Rail!Next
  <2>1. Requested(k) \in SUBSET Present
    BY DEF Requested, RowsFor
  <2>. QED  BY <1>8, <1>9, <2>1 DEF ConfirmAck
<1>10. ASSUME NEW k \in Caller, NEW key \in Key, PollAck(k, key) PROVE Rail!Next
  <2>1. UnseenFor(key) \in SUBSET Present
    BY DEF UnseenFor, RowsFor
  <2>. QED  BY <1>8, <1>10, <2>1 DEF PollAck
<1>11. ASSUME NEW k \in Caller, ConfirmStamp(k) PROVE Rail!Next
  <2>1. Requested(k) \in SUBSET Id
    BY DEF Requested, RowsFor, Present
  <2>2. PICK ids \in SUBSET Id : ids = Requested(k)
    BY <2>1
  <2>3. /\ confirmedAt' = Stamp(confirmedAt, ids, k)
        /\ UNCHANGED <<notif, seen, pushedAt, sent, owned, echoed>>
        /\ ids \subseteq seen \cap owned
    BY <1>1, <1>11, <2>2 DEF ConfirmStamp, Calls, Call, history
  <2>4. Present' = Present
    BY <2>3 DEF Present, Row
  <2>5. {i \in Id : confirmedAt'[i] # Never} = {i \in Id : confirmedAt[i] # Never} \cup ids
    BY <2>3, ProcessAssumption DEF Stamp
  <2>6. Rail!Confirm(ids)
    BY <2>3, <2>4, <2>5 DEF Rail!Confirm
  <2>. QED  BY <2>6 DEF Rail!Next
<1>12. ASSUME NEW k \in Caller, Recipient(k), ~ConfirmAck(k), ~ConfirmStamp(k),
              \A key \in Key : ~PollAck(k, key)
       PROVE  UNCHANGED Rail!vars
  BY <1>12, RailUnchanged DEF Recipient, ConfirmStart, ConfirmPending, ConfirmLook,
       ConfirmReturn, ConfirmStops, table, history
<1>13. CASE UNCHANGED vars
  BY <1>13, RailUnchanged DEF vars, table, history
<1>. QED
  BY <1>2, <1>3, <1>4, <1>5, <1>6, <1>7, <1>9, <1>10, <1>11, <1>12, <1>13 DEF Next

(* Every step of producers, channel servers and recipients is a step of    *)
(* the promised rail or leaves it alone.                                   *)
THEOREM InboxImplementsRail == Spec => ImplementsRail
<1>1. TableInv /\ [Next]_vars => TableInv'
  BY TableStep
<1>2. TableInv /\ [Next]_vars => [Rail!Next]_(Rail!vars)
  <2>1. TableInv /\ [Next]_vars => TypeOK'
    BY TableStep DEF TableInv
  <2>. QED  BY <2>1, RailStep
<1>. QED  BY <1>1, <1>2, TableInit, RailInit, PTL DEF Spec, ImplementsRail, Rail!Spec
=============================================================================
