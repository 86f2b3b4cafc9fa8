------------------------------- MODULE Inbox -------------------------------
(***************************************************************************)
(* The shared PostgreSQL notification rail: producers that enqueue rows    *)
(* (_inbox_postgres.enqueue), channel servers that drain a recipient's     *)
(* unseen rows into an agent session (_mcp_channel.drain_once), recipients *)
(* that confirm rows by id (_inbox_confirm.confirm_notifications) or poll  *)
(* with the deprecated ack-on-read.                                        *)
(*                                                                         *)
(* Every SQL statement or transaction is one step and every process may    *)
(* stop between two of its steps.  The tables are READ COMMITTED: a        *)
(* statement sees what was committed when it ran.  Row locks are left out: *)
(* the UPDATEs only raise latches, so two of them on one row have the same *)
(* effect in either order.                                                 *)
(***************************************************************************)
EXTENDS Integers, Sequences, FiniteSets

CONSTANTS
  Key,                \* recipient_id values: a raw name or a "u_*" user id
  Msg,                \* ids of durable DM messages
  NoMsg,              \* the msg_id of a notification that has no message
  Request,            \* the enqueue calls the producers make: records of to,
                      \* subject (event and card), instant (ts and actor; ts has
                      \* second resolution), snapshot (supersede) and msg
  Producer, Channel, Caller,      \* processes
  ReadKeys,           \* [Channel \cup Caller -> keys of its agent, raw name first]
  MaxPush,            \* MAX_PUSH_PER_DRAIN
  MaxRows,            \* bound: the rows a behaviour may insert
  NoRow, Never        \* an id without a row, a stamp that is NULL

Id == 1 .. MaxRows

ASSUME RequestAssumption ==
  /\ \A r \in Request : /\ r.to \in Key
                        /\ r.snapshot \in BOOLEAN
                        /\ r.msg \in Msg \cup {NoMsg}
  /\ \A r \in Request : r.snapshot => r.msg = NoMsg
  /\ \A r, s \in Request : r.subject = s.subject => r.snapshot = s.snapshot
  /\ NoRow \notin Request

ASSUME ProcessAssumption ==
  /\ ReadKeys \in [Channel \cup Caller -> Seq(Key) \ {<<>>}]
  /\ Never \notin Channel \cup Caller

ASSUME BoundAssumption == MaxPush \in Nat \ {0} /\ MaxRows \in Nat

VARIABLES
  notif,              \* committed rows: [Id -> Request or NoRow]
  seen,               \* rows with seen = 1
  pushedAt,           \* pushed_at, abstracted to the channel that stamped it
  confirmedAt,        \* confirmed_at, abstracted to the caller that stamped it
  dmReceipts,         \* dm_receipts rows <<message, reader>>
  nextId,             \* the sequence behind notifications.seq
  tx,                 \* each producer's open transaction
  chan,               \* each channel server's drain
  conf,               \* each caller's confirm_notifications call
  sent,               \* rows some session stream has taken (the transport)
  owned,              \* history: rows a recipient named in a confirm or was
                      \* handed by an ack-on-read poll
  echoed,             \* history: rows a repeated snapshot superseded without
                      \* leaving a row of its own
  raced               \* history: pairs of rows whose transactions overlapped
                      \* past the dedup SELECT

table == <<notif, seen, pushedAt, confirmedAt, dmReceipts>>
history == <<sent, owned, echoed, raced>>
vars == <<table, nextId, tx, chan, conf, history>>

Row(id) == notif[id] # NoRow
Present == {id \in Id : Row(id)}
RowsFor(key) == {id \in Present : notif[id].to = key}
UnseenFor(key) == RowsFor(key) \ seen

(* Mut* operators are broken variants of the definition that follows them: *)
(* each is a slip the code could make, and each breaks a property below.   *)

(* Mutant: a later stamp overwrites.                                       *)
MutStamp(column, ids, writer) ==
  [id \in Id |-> IF id \in ids THEN writer ELSE column[id]]

(* COALESCE(column, stamp): the first stamp wins.                          *)
Stamp(column, ids, writer) ==
  [id \in Id |-> IF id \in ids /\ column[id] = Never THEN writer ELSE column[id]]

NoTx == [pc |-> "idle", req |-> NoRow, victims |-> {}, id |-> 0]
Idle == [pc |-> "idle", todo |-> <<>>, key |-> NoRow, batch |-> {}, pushed |-> 0]
NoCall == [pc |-> "idle", keys |-> <<>>, todo |-> <<>>, ids |-> {},
           pending |-> {}, known |-> {}]

Init ==
  /\ notif = [id \in Id |-> NoRow]
  /\ seen = {}
  /\ pushedAt = [id \in Id |-> Never]
  /\ confirmedAt = [id \in Id |-> Never]
  /\ dmReceipts = {}
  /\ nextId = 1
  /\ tx = [p \in Producer |-> NoTx]
  /\ chan = [c \in Channel |-> Idle]
  /\ conf = [k \in Caller |-> NoCall]
  /\ sent = {} /\ owned = {} /\ echoed = {} /\ raced = {}

-----------------------------------------------------------------------------
(* Producers: _inbox_postgres.enqueue, one transaction of three statements.*)

(* The superseding UPDATE: unseen rows with the same key, event and card.  *)
Superseded(r) ==
  IF r.snapshot THEN {id \in UnseenFor(r.to) : notif[id].subject = r.subject} ELSE {}

MutSupersedesAtOnce(p, r) ==
  /\ tx[p].pc = "idle"
  /\ seen' = seen \cup Superseded(r)
  /\ tx' = [tx EXCEPT ![p] = [pc |-> "dedup", req |-> r, victims |-> {}, id |-> 0]]
  /\ UNCHANGED <<notif, pushedAt, confirmedAt, dmReceipts, nextId, chan, conf,
                 history>>

EnqueueBegin(p, r) ==
  /\ tx[p].pc = "idle"
  /\ tx' = [tx EXCEPT ![p] = [pc |-> "dedup", req |-> r,
                              victims |-> Superseded(r), id |-> 0]]
  /\ UNCHANGED <<table, nextId, chan, conf, history>>

(* Mutant: the dedup looks at the rows that still wait.                    *)
MutDuplicate(r) ==
  \E id \in UnseenFor(r.to) :
    IF r.msg # NoMsg
      THEN notif[id].msg = r.msg
      ELSE notif[id].subject = r.subject /\ notif[id].instant = r.instant

(* One inbox, and one cause: the message when there is one.                *)
SameCause(r, s) ==
  /\ s.to = r.to
  /\ IF r.msg # NoMsg THEN s.msg = r.msg
                      ELSE s.subject = r.subject /\ s.instant = r.instant

(* The dedup SELECT.                                                       *)
Duplicate(r) == \E id \in Present : SameCause(r, notif[id])

(* A hit commits the superseding UPDATE alone: what it superseded has no   *)
(* successor.                                                              *)
EnqueueDuplicate(p) ==
  /\ tx[p].pc = "dedup"
  /\ Duplicate(tx[p].req)
  /\ seen' = seen \cup tx[p].victims
  /\ echoed' = echoed \cup (tx[p].victims \ seen)
  /\ tx' = [tx EXCEPT ![p] = NoTx]
  /\ UNCHANGED <<notif, pushedAt, confirmedAt, dmReceipts, nextId, chan, conf,
                 sent, owned, raced>>

(* A miss inserts: the sequence advances at once, the row is not yet       *)
(* visible to anyone else.                                                 *)
EnqueueInsert(p) ==
  /\ tx[p].pc = "dedup"
  /\ ~Duplicate(tx[p].req)
  /\ nextId <= MaxRows
  /\ tx' = [tx EXCEPT ![p].pc = "commit", ![p].id = nextId]
  /\ nextId' = nextId + 1
  /\ UNCHANGED <<table, chan, conf, history>>

EnqueueCommit(p) ==
  /\ tx[p].pc = "commit"
  /\ notif' = [notif EXCEPT ![tx[p].id] = tx[p].req]
  /\ seen' = seen \cup tx[p].victims
  /\ tx' = [tx EXCEPT ![p] = NoTx]
  /\ raced' = raced \cup {{tx[p].id, tx[q].id} :
                            q \in {q \in Producer \ {p} : tx[q].pc = "commit"}}
  /\ UNCHANGED <<pushedAt, confirmedAt, dmReceipts, nextId, chan, conf, sent,
                 owned, echoed>>

(* The connection or the producer dies: the transaction rolls back.        *)
MutAbortKeepsVictims(p) ==
  /\ tx[p].pc # "idle"
  /\ seen' = seen \cup tx[p].victims
  /\ tx' = [tx EXCEPT ![p] = NoTx]
  /\ UNCHANGED <<notif, pushedAt, confirmedAt, dmReceipts, nextId, chan, conf,
                 history>>

EnqueueAbort(p) ==
  /\ tx[p].pc # "idle"
  /\ tx' = [tx EXCEPT ![p] = NoTx]
  /\ UNCHANGED <<table, nextId, chan, conf, history>>

-----------------------------------------------------------------------------
(* Channel servers: one tick of _mcp_channel.drain_once.                   *)

FirstOf(ids) == CHOOSE id \in ids : \A other \in ids : id <= other

(* recipient_keys: when resolving the user id fails only the raw name is   *)
(* drained.                                                                *)
KeysSeenBy(proc, resolved) ==
  IF resolved THEN ReadKeys[proc] ELSE <<Head(ReadKeys[proc])>>

Reads(proc, key) == \E i \in DOMAIN ReadKeys[proc] : key = ReadKeys[proc][i]

DrainStart(c, resolved) ==
  /\ chan[c].pc = "idle"
  /\ chan' = [chan EXCEPT ![c] = [Idle EXCEPT !.pc = "poll",
                                              !.todo = KeysSeenBy(c, resolved)]]
  /\ UNCHANGED <<table, nextId, tx, conf, history>>

(* The state between two records: the next one, the next key, or the end   *)
(* of the tick when the burst cap is reached.                              *)
Advance(ch, batch, pushed) ==
  IF pushed < MaxPush /\ batch # {}
    THEN [ch EXCEPT !.pc = "send", !.batch = batch, !.pushed = pushed]
  ELSE IF pushed < MaxPush /\ ch.todo # <<>>
    THEN [ch EXCEPT !.pc = "poll", !.key = NoRow, !.batch = {}, !.pushed = pushed]
  ELSE Idle

DrainPoll(c) ==
  /\ chan[c].pc = "poll"
  /\ LET key == Head(chan[c].todo)
         ch  == [chan[c] EXCEPT !.key = key, !.todo = Tail(@)]
     IN chan' = [chan EXCEPT ![c] = Advance(ch, UnseenFor(key), ch.pushed)]
  /\ UNCHANGED <<table, nextId, tx, conf, history>>

DrainSend(c, id) ==
  /\ chan[c].pc = "send"
  /\ id \in chan[c].batch /\ id = FirstOf(chan[c].batch)
  /\ sent' = sent \cup {id}
  /\ chan' = [chan EXCEPT ![c].pc = "record"]
  /\ UNCHANGED <<table, nextId, tx, conf, owned, echoed, raced>>

MutSendFailureEndsTick(c) ==
  /\ chan[c].pc = "send"
  /\ chan' = [chan EXCEPT ![c] = Idle]
  /\ UNCHANGED <<table, nextId, tx, conf, history>>

(* send raised: this record stays unseen and the batch goes on.            *)
DrainSendFails(c) ==
  /\ chan[c].pc = "send"
  /\ LET rest == chan[c].batch \ {FirstOf(chan[c].batch)}
     IN chan' = [chan EXCEPT ![c] = Advance(@, rest, @.pushed)]
  /\ UNCHANGED <<table, nextId, tx, conf, history>>

(* record_push: pushed_at and seen in one UPDATE.                          *)
DrainRecord(c) ==
  /\ chan[c].pc = "record"
  /\ LET id   == FirstOf(chan[c].batch)
         hit  == {id} \cap RowsFor(chan[c].key)
     IN /\ seen' = seen \cup hit
        /\ pushedAt' = Stamp(pushedAt, hit, c)
        /\ chan' = [chan EXCEPT ![c] = Advance(@, @.batch \ {id}, @.pushed + 1)]
  /\ UNCHANGED <<notif, confirmedAt, dmReceipts, nextId, tx, conf, history>>

(* The receipt cannot be written: neither stamp nor cursor moves, and the  *)
(* push still counts against the cap.                                      *)
DrainRecordFails(c) ==
  /\ chan[c].pc = "record"
  /\ LET rest == chan[c].batch \ {FirstOf(chan[c].batch)}
     IN chan' = [chan EXCEPT ![c] = Advance(@, rest, @.pushed + 1)]
  /\ UNCHANGED <<table, nextId, tx, conf, history>>

(* A poll that raises or a server that dies: the tick ends where it stands.*)
DrainStops(c) ==
  /\ chan[c].pc # "idle"
  /\ chan' = [chan EXCEPT ![c] = Idle]
  /\ UNCHANGED <<table, nextId, tx, conf, history>>

-----------------------------------------------------------------------------
(* Recipients: _inbox_confirm.confirm_notifications, four transactions per *)
(* key, and the deprecated ack-on-read poll.                               *)

(* An id reaches a caller out of the inbox, so it names rows that exist:   *)
(* its own, or by mistake another recipient's.                             *)
ConfirmStart(k, ids, resolved) ==
  /\ conf[k].pc = "idle"
  /\ ids # {} /\ ids \subseteq Present
  /\ conf' = [conf EXCEPT ![k] = [NoCall EXCEPT !.pc = "pending", !.ids = ids,
                                    !.keys = KeysSeenBy(k, resolved),
                                    !.todo = KeysSeenBy(k, resolved)]]
  /\ UNCHANGED <<table, nextId, tx, chan, history>>

Requested(k) == conf[k].ids \cap RowsFor(Head(conf[k].todo))

(* unconfirmed_ids, one key at a time.                                     *)
ConfirmPending(k) ==
  /\ conf[k].pc = "pending"
  /\ LET open == {id \in Requested(k) : confirmedAt[id] = Never}
         rest == Tail(conf[k].todo)
     IN conf' = [conf EXCEPT ![k].pending = @ \cup open,
                             ![k].todo = IF rest = <<>> THEN conf[k].keys ELSE rest,
                             ![k].pc = IF rest = <<>> THEN "ack" ELSE "pending"]
  /\ UNCHANGED <<table, nextId, tx, chan, history>>

ConfirmAck(k) ==
  /\ conf[k].pc = "ack"
  /\ seen' = seen \cup Requested(k)
  /\ owned' = owned \cup Requested(k)
  /\ conf' = [conf EXCEPT ![k].pc = "stamp"]
  /\ UNCHANGED <<notif, pushedAt, confirmedAt, dmReceipts, nextId, tx, chan,
                 sent, echoed, raced>>

MutStampAnyKey(k) ==
  /\ conf[k].pc = "stamp"
  /\ confirmedAt' = Stamp(confirmedAt, conf[k].ids, k)
  /\ conf' = [conf EXCEPT ![k].pc = "look"]
  /\ UNCHANGED <<notif, seen, pushedAt, dmReceipts, nextId, tx, chan, history>>

ConfirmStamp(k) ==
  /\ conf[k].pc = "stamp"
  /\ confirmedAt' = Stamp(confirmedAt, Requested(k), k)
  /\ conf' = [conf EXCEPT ![k].pc = "look"]
  /\ UNCHANGED <<notif, seen, pushedAt, dmReceipts, nextId, tx, chan, history>>

MutKnownByAnyKey(k) ==
  /\ conf[k].pc = "look"
  /\ LET rest == Tail(conf[k].todo)
     IN conf' = [conf EXCEPT ![k].known = conf[k].ids,
                             ![k].todo = rest,
                             ![k].pc = IF rest = <<>> THEN "receipt" ELSE "ack"]
  /\ UNCHANGED <<table, nextId, tx, chan, history>>

(* poll_inbox over the whole key: which of the ids exist.                  *)
ConfirmLook(k) ==
  /\ conf[k].pc = "look"
  /\ LET rest == Tail(conf[k].todo)
     IN conf' = [conf EXCEPT
          ![k].known = @ \cup Requested(k),
          ![k].todo = rest,
          ![k].pc = IF rest = <<>> THEN "receipt" ELSE "ack"]
  /\ UNCHANGED <<table, nextId, tx, chan, history>>

(* What the call returns, once every key has been looked at.               *)
ConfirmReport(k) ==
  [confirmed |-> conf[k].known \cap conf[k].pending,
   already |-> conf[k].known \ conf[k].pending,
   unknown |-> conf[k].ids \ conf[k].known]

MessagesOf(ids) == {notif[id].msg : id \in ids} \ {NoMsg}

MutLampForRequested(k, mirrored) ==
  /\ conf[k].pc = "receipt"
  /\ dmReceipts' = IF mirrored THEN dmReceipts \cup (MessagesOf(conf[k].ids) \X {k})
                               ELSE dmReceipts
  /\ conf' = [conf EXCEPT ![k] = NoCall]
  /\ UNCHANGED <<notif, seen, pushedAt, confirmedAt, nextId, tx, chan, history>>

(* mark_read is a mirror: it may fail and the call still returns.          *)
ConfirmReturn(k, mirrored) ==
  /\ conf[k].pc = "receipt"
  /\ dmReceipts' = IF mirrored THEN dmReceipts \cup (MessagesOf(conf[k].known) \X {k})
                               ELSE dmReceipts
  /\ conf' = [conf EXCEPT ![k] = NoCall]
  /\ UNCHANGED <<notif, seen, pushedAt, confirmedAt, nextId, tx, chan, history>>

ConfirmStops(k) ==
  /\ conf[k].pc # "idle"
  /\ conf' = [conf EXCEPT ![k] = NoCall]
  /\ UNCHANGED <<table, nextId, tx, chan, history>>

(* poll_inbox(mark_seen=True): SELECT and UPDATE in one transaction.       *)
PollAck(k, key) ==
  /\ Reads(k, key)
  /\ UnseenFor(key) # {}
  /\ seen' = seen \cup UnseenFor(key)
  /\ owned' = owned \cup UnseenFor(key)
  /\ UNCHANGED <<notif, pushedAt, confirmedAt, dmReceipts, nextId, tx, chan, conf,
                 sent, echoed, raced>>

-----------------------------------------------------------------------------
Enqueue(p) ==
  \/ \E r \in Request : EnqueueBegin(p, r)
  \/ EnqueueDuplicate(p) \/ EnqueueInsert(p) \/ EnqueueCommit(p) \/ EnqueueAbort(p)

Drain(c) ==
  \/ \E resolved \in BOOLEAN : DrainStart(c, resolved)
  \/ DrainPoll(c)
  \/ \E id \in Id : DrainSend(c, id)
  \/ DrainSendFails(c) \/ DrainRecord(c) \/ DrainRecordFails(c) \/ DrainStops(c)

Recipient(k) ==
  \/ \E ids \in SUBSET Id, resolved \in BOOLEAN : ConfirmStart(k, ids, resolved)
  \/ ConfirmPending(k) \/ ConfirmAck(k) \/ ConfirmStamp(k) \/ ConfirmLook(k)
  \/ \E mirrored \in BOOLEAN : ConfirmReturn(k, mirrored)
  \/ ConfirmStops(k)
  \/ \E key \in Key : PollAck(k, key)

Next ==
  \/ \E p \in Producer : Enqueue(p)
  \/ \E c \in Channel : Drain(c)
  \/ \E k \in Caller : Recipient(k)

Spec == Init /\ [][Next]_vars

(* A drain step in which nothing fails, except that the transport may      *)
(* refuse the rows in Poison whenever they are offered.                    *)
HealthyDrain(c, Poison) ==
  \/ DrainStart(c, TRUE) \/ DrainPoll(c) \/ DrainRecord(c)
  \/ \E id \in Id : DrainSend(c, id)
  \/ DrainSendFails(c) /\ FirstOf(chan[c].batch) \in Poison

(* Scheduling the code provides: _poll_loop runs for as long as the session*)
(* lives and survives a failed tick.  Failures other than the refusal of   *)
(* poison rows are transient: from some point on they do not happen.       *)
Recovers(Poison) ==
  /\ \A c \in Channel : WF_vars(Drain(c))
  /\ <>[][ \/ \E p \in Producer : Enqueue(p)
          \/ \E c \in Channel : HealthyDrain(c, Poison)
          \/ \E k \in Caller : Recipient(k) ]_vars

-----------------------------------------------------------------------------
TxState == [pc : {"idle", "dedup", "commit"}, req : Request \cup {NoRow},
            victims : SUBSET Id, id : Id \cup {0}]
ChanState == [pc : {"idle", "poll", "send", "record"}, todo : Seq(Key),
              key : Key \cup {NoRow}, batch : SUBSET Id, pushed : Nat]
CallState == [pc : {"idle", "pending", "ack", "stamp", "look", "receipt"},
              keys : Seq(Key), todo : Seq(Key), ids : SUBSET Id,
              pending : SUBSET Id, known : SUBSET Id]

(* Every variable has the shape of the columns and locals it stands for.   *)
TypeOK ==
  /\ notif \in [Id -> Request \cup {NoRow}]
  /\ seen \subseteq Id
  /\ pushedAt \in [Id -> Channel \cup {Never}]
  /\ confirmedAt \in [Id -> Caller \cup {Never}]
  /\ dmReceipts \subseteq Msg \X Caller
  /\ nextId \in 1 .. MaxRows + 1
  /\ tx \in [Producer -> TxState]
  /\ chan \in [Channel -> ChanState]
  /\ conf \in [Caller -> CallState]
  /\ sent \subseteq Id /\ owned \subseteq Id /\ echoed \subseteq Id
  /\ raced \subseteq SUBSET Id

(* A newer row of the same subject stands in the same inbox.               *)
HasSuccessor(id) ==
  \E newer \in Present : /\ newer > id
                         /\ notif[newer].to = notif[id].to
                         /\ notif[newer].subject = notif[id].subject

(* No row leaves the unseen set in silence: the transport took it, the     *)
(* recipient named it or was handed it, a newer row of the same subject    *)
(* stands in the same inbox, or a snapshot enqueued twice with one         *)
(* timestamp superseded it and was then dropped as a duplicate.            *)
(* (_inbox_postgres.enqueue, ack, _inbox_receipt_postgres.stamp; the loss  *)
(* of 2026-07-29.)                                                         *)
NothingSilentlyConsumed ==
  \A id \in seen : id \in sent \cup owned \cup echoed \/ HasSuccessor(id)

(* The same without the last exception: superseding makes rows "redundant" *)
(* because a newer full-state notification replaces them (enqueue).  It    *)
(* fails: a snapshot enqueued again supersedes the row it is then found to *)
(* be a duplicate of.                                                      *)
SupersededIsReplaced ==
  \A id \in seen : id \in sent \cup owned \/ HasSuccessor(id)

(* One cause has one row in an inbox, whatever has become of the first:    *)
(* a repeated call adds none, unless the two calls were both past the      *)
(* dedup SELECT before either committed.  (_inbox_postgres.enqueue)        *)
OneRowPerCause ==
  \A i, j \in Present :
    i < j /\ SameCause(notif[j], notif[i]) => {i, j} \in raced

(* The receipts say what happened: a pushed_at only on a row the transport *)
(* took, a confirmed_at only on a row its recipient named and that no      *)
(* session is offered again (confirm advances the cursor before it stamps, *)
(* key by key), and each stamp only by a process that reads the row's own  *)
(* key.                                                                    *)
ReceiptsAreHonest ==
  \A id \in Id :
    /\ pushedAt[id] # Never =>
         id \in sent \cap seen /\ Reads(pushedAt[id], notif[id].to)
    /\ confirmedAt[id] # Never =>
         id \in owned \cap seen /\ Reads(confirmedAt[id], notif[id].to)

(* The operator's read lamp never runs ahead of the confirmation it        *)
(* mirrors, although the two are written in different transactions.        *)
ReadLampFollowsConfirmation ==
  \A lamp \in dmReceipts :
    \E id \in Present : notif[id].msg = lamp[1] /\ confirmedAt[id] # Never

(* What confirm_notifications returns is true of the table: what it calls *)
(* confirmed or already confirmed carries a stamp, and what it calls       *)
(* unknown is in none of the inboxes it looked at.                         *)
ReportIsTrue ==
  \A k \in Caller : conf[k].pc = "receipt" =>
    /\ \A id \in ConfirmReport(k).confirmed \cup ConfirmReport(k).already :
         confirmedAt[id] # Never
    /\ \A id \in ConfirmReport(k).unknown, i \in DOMAIN conf[k].keys :
         notif[id].to # conf[k].keys[i]

(* The rail implements its promise; see NotificationRail.                  *)
Rail == INSTANCE NotificationRail WITH
  Stream <- {<<r.to, r.subject>> : r \in Request},
  rows <- [id \in Present |-> <<notif[id].to, notif[id].subject>>],
  unseen <- Present \ seen,
  pushed <- {id \in Id : pushedAt[id] # Never},
  confirmed <- {id \in Id : confirmedAt[id] # Never}
ImplementsRail == Rail!Spec

(* The first push and the first confirmation date the row for good,        *)
(* whoever retries; the cursor never goes back.                            *)
LatchesHold ==
  [][ /\ seen \subseteq seen'
      /\ \A id \in Id :
           /\ notif[id] # NoRow => notif'[id] = notif[id]
           /\ pushedAt[id] # Never => pushedAt'[id] = pushedAt[id]
           /\ confirmedAt[id] # Never => confirmedAt'[id] = confirmedAt[id]
    ]_vars

=============================================================================
