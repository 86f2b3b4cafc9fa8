----------------------------- MODULE FileInbox -----------------------------
(***************************************************************************)
(* The break-glass file backend of the inbox: one inboxes.json sidecar,    *)
(* rewritten as a whole under a lock (_inbox.py, _inbox_receipt.py,        *)
(* _inbox_maint.py), and the channel drain that looks at the sidecar only  *)
(* when its mtime has changed (_channel_drain_state.py).                   *)
(*                                                                         *)
(* A locked read-modify-write is one step, as is the unlocked read: the    *)
(* file is replaced atomically.  Each save advances the mtime, that is,    *)
(* saves are further apart than the file system's timestamps are.  The     *)
(* list of an inbox keeps the order of its ids, which are given by the     *)
(* appends: it is a function from the ids it holds to their records.       *)
(***************************************************************************)
EXTENDS Integers, Sequences, Functions

CONSTANTS
  Key,                \* recipient_id values
  NoMsg,              \* the msg_id of a notification without a message
  Request,            \* enqueue calls: to, subject, instant (a number), snapshot, msg
  DigestSubject,      \* the subject of the owner digest, one of the snapshots
  Backlog,            \* unseen snapshots left by versions without superseding
  Channel,            \* channel servers
  ReadKeys,           \* [Channel -> keys of its agent, raw name first]
  MaxPush,            \* MAX_PUSH_PER_DRAIN
  MaxRows,            \* bound: rows ever appended, the backlog included
  MaxSaves,           \* bound: producers and recipients save up to this mtime
  Faults              \* what may fail: "resolve", "poll", "send", "record"

Id == 1 .. MaxRows

(* A caller supersedes for every row of a subject or for none, and for     *)
(* every digest.                                                           *)
ASSUME RequestAssumption ==
  /\ Backlog \in Seq(Request)
  /\ \A r \in Request : r.to \in Key /\ r.instant \in Nat /\ r.snapshot \in BOOLEAN
  /\ \A r, s \in Request : r.subject = s.subject => r.snapshot = s.snapshot
  /\ \A r \in Request : r.subject = DigestSubject => r.snapshot

ASSUME FileAssumption ==
  /\ ReadKeys \in [Channel -> Seq(Key) \ {<<>>}]
  /\ MaxPush \in Nat \ {0}
  /\ MaxRows \in Nat /\ MaxSaves \in Nat
  /\ Len(Backlog) <= MaxRows
  /\ Faults \subseteq {"resolve", "poll", "send", "record"}

VARIABLES
  inbox,              \* [Key -> records by id]
  mtime,              \* st_mtime of the sidecar, 0 while it does not exist
  posted,             \* history: the requests that were appended, by id
  gate,               \* each channel's _DrainState, and in clean (a history)
                      \* whether nothing has failed since its tick began
  chan,               \* each channel's drain
  sent,               \* rows some session stream has taken
  owned               \* history: rows the recipient acked or was handed

vars == <<inbox, mtime, posted, gate, chan, sent, owned>>

Idle == [pc |-> "idle", todo |-> <<>>, key |-> "none", batch |-> {}, pushed |-> 0]

Unseeded == [seeded |-> FALSE, last |-> 0, clean |-> TRUE]
Failed(c) == gate' = [gate EXCEPT ![c].clean = FALSE]

Record(r) == [req |-> r, seen |-> FALSE, pushed |-> FALSE, confirmed |-> FALSE]
Unseen(records) == {id \in DOMAIN records : ~records[id].seen}

Init ==
  /\ posted = Backlog
  /\ inbox = [key \in Key |->
       [id \in {i \in DOMAIN Backlog : Backlog[i].to = key} |-> Record(Backlog[id])]]
  /\ mtime = IF Backlog = <<>> THEN 0 ELSE 1
  /\ gate = [c \in Channel |-> Unseeded]
  /\ chan = [c \in Channel |-> Idle]
  /\ sent = {} /\ owned = {}

(* _save_inboxes_unlocked: the file is replaced, the mtime moves on.       *)
Save(newInbox) ==
  /\ mtime' = mtime + 1
  /\ inbox' = newInbox

WithinBound == mtime < MaxSaves

-----------------------------------------------------------------------------
(* The records a snapshot leaves standing, before the dedup looks at them. *)
AfterSupersede(records, r) ==
  IF r.snapshot
    THEN Restrict(records, {id \in DOMAIN records :
           records[id].seen \/ records[id].req.subject # r.subject})
    ELSE records

Duplicate(records, r) ==
  \E id \in DOMAIN records :
    IF r.msg # NoMsg
      THEN records[id].req.msg = r.msg
      ELSE records[id].req.subject = r.subject /\ records[id].req.instant = r.instant

Appended(records, id, r) ==
  [i \in DOMAIN records \cup {id} |-> IF i = id THEN Record(r) ELSE records[i]]

(* Mut* operators are broken variants of the definition that follows them: *)
(* here the superseding is saved even when the insert dedups.              *)
MutSavesBeforeDedup(r) ==
  LET kept == AfterSupersede(inbox[r.to], r)
      next == Len(posted) + 1
  IN /\ WithinBound /\ next \in Id
     /\ IF Duplicate(inbox[r.to], r)
          THEN Save([inbox EXCEPT ![r.to] = kept]) /\ UNCHANGED posted
          ELSE /\ Save([inbox EXCEPT ![r.to] = Appended(kept, next, r)])
               /\ posted' = Append(posted, r)
     /\ UNCHANGED <<gate, chan, sent, owned>>

(* A duplicate returns before the save and leaves the file as it was.      *)
Enqueue(r) ==
  LET kept == AfterSupersede(inbox[r.to], r)
      next == Len(posted) + 1
  IN /\ ~Duplicate(kept, r)
     /\ WithinBound /\ next \in Id
     /\ Save([inbox EXCEPT ![r.to] = Appended(kept, next, r)])
     /\ posted' = Append(posted, r)
     /\ UNCHANGED <<gate, chan, sent, owned>>

(* The records of one inbox with the ids in ids rewritten by change.       *)
Rewritten(records, ids, change(_)) ==
  [id \in DOMAIN records |-> IF id \in ids THEN change(records[id]) ELSE records[id]]

Stamp(key, ids, change(_)) ==
  Save([inbox EXCEPT ![key] = Rewritten(@, ids, change)])

MarkSeen(rec) == [rec EXCEPT !.seen = TRUE]
MarkPushed(rec) == [rec EXCEPT !.seen = TRUE, !.pushed = TRUE]
MarkConfirmed(rec) == [rec EXCEPT !.confirmed = TRUE]

(* ack, which saves only when it flips a record.                           *)
Ack(key, ids) ==
  /\ ids # {} /\ ids \subseteq DOMAIN inbox[key]
  /\ \/ WithinBound /\ ids \cap Unseen(inbox[key]) # {} /\ Stamp(key, ids, MarkSeen)
     \/ ids \cap Unseen(inbox[key]) = {} /\ UNCHANGED <<inbox, mtime>>
  /\ owned' = owned \cup ids
  /\ UNCHANGED <<posted, gate, chan, sent>>

(* poll_inbox(mark_seen=True) hands over every unseen record.              *)
PollAck(key) ==
  LET ids == Unseen(inbox[key])
  IN /\ WithinBound /\ ids # {}
     /\ Stamp(key, ids, MarkSeen)
     /\ owned' = owned \cup ids
     /\ UNCHANGED <<posted, gate, chan, sent>>

(* A broken variant: the call that names the ids does not ack them first.  *)
MutConfirmsUnasked(key, ids) ==
  /\ WithinBound
  /\ ids # {} /\ ids \subseteq DOMAIN inbox[key]
  /\ Stamp(key, ids, MarkConfirmed)
  /\ UNCHANGED <<posted, gate, chan, sent, owned>>

(* record_confirmation stamps and leaves the cursor alone: its one caller, *)
(* confirm_notifications, has acked the same ids.                          *)
RecordConfirmation(key, ids) ==
  /\ WithinBound
  /\ ids # {} /\ ids \subseteq DOMAIN inbox[key] \cap owned
  /\ Stamp(key, ids, MarkConfirmed)
  /\ UNCHANGED <<posted, gate, chan, sent, owned>>

(* collapse_digests: the unseen snapshot with the greatest ts, of equal    *)
(* ones the last, is kept; the older ones are marked seen.                 *)
PendingDigests(key) ==
  {id \in Unseen(inbox[key]) : inbox[key][id].req.subject = DigestSubject}

Newer(id, other) ==
  \/ posted[id].instant > posted[other].instant
  \/ posted[id].instant = posted[other].instant /\ id > other

Stale(key) ==
  {id \in PendingDigests(key) : \E other \in PendingDigests(key) : Newer(other, id)}

Collapse ==
  /\ WithinBound
  /\ \E key \in Key : Stale(key) # {}
  /\ Save([key \in Key |-> Rewritten(inbox[key], Stale(key), MarkSeen)])
  /\ UNCHANGED <<posted, gate, chan, sent, owned>>

-----------------------------------------------------------------------------
(* should_drain: skip while the mtime is the one of the last drained tick. *)
GateOpen(c) == ~gate[c].seeded \/ mtime = 0 \/ mtime # gate[c].last

KeysSeenBy(c, resolved) ==
  IF resolved THEN ReadKeys[c] ELSE <<Head(ReadKeys[c])>>

Tick(c, resolved) ==
  /\ chan[c].pc = "idle"
  /\ resolved \/ "resolve" \in Faults
  /\ GateOpen(c)
  /\ gate' = [gate EXCEPT ![c] = [seeded |-> TRUE, last |-> mtime,
                                    clean |-> resolved]]
  /\ chan' = [chan EXCEPT ![c] = [Idle EXCEPT !.pc = "poll",
                                              !.todo = KeysSeenBy(c, resolved)]]
  /\ UNCHANGED <<inbox, mtime, posted, sent, owned>>

(* The record of the batch that is at hand: the list keeps its order.      *)
FirstOf(ids) == CHOOSE id \in ids : \A other \in ids : id <= other

(* Between two records of drain_once: the next, the next key, or the end.  *)
Advance(ch, batch, pushed) ==
  IF pushed < MaxPush /\ batch # {}
    THEN [ch EXCEPT !.pc = "send", !.batch = batch, !.pushed = pushed]
  ELSE IF pushed < MaxPush /\ ch.todo # <<>>
    THEN [ch EXCEPT !.pc = "poll", !.key = "none", !.batch = {}, !.pushed = pushed]
  ELSE Idle

DrainPoll(c) ==
  /\ chan[c].pc = "poll"
  /\ LET key == Head(chan[c].todo)
         ch  == [chan[c] EXCEPT !.key = key, !.todo = Tail(@)]
     IN chan' = [chan EXCEPT ![c] = Advance(ch, Unseen(inbox[key]), ch.pushed)]
  /\ UNCHANGED <<inbox, mtime, posted, gate, sent, owned>>

(* The poll raises: drain_once ends, _poll_loop logs it and goes on.       *)
DrainPollRaises(c) ==
  /\ "poll" \in Faults
  /\ chan[c].pc = "poll"
  /\ chan' = [chan EXCEPT ![c] = Idle]
  /\ Failed(c)
  /\ UNCHANGED <<inbox, mtime, posted, sent, owned>>

DrainSend(c) ==
  /\ chan[c].pc = "send"
  /\ sent' = sent \cup {FirstOf(chan[c].batch)}
  /\ chan' = [chan EXCEPT ![c].pc = "record"]
  /\ UNCHANGED <<inbox, mtime, posted, gate, owned>>

DrainSendFails(c) ==
  /\ "send" \in Faults
  /\ chan[c].pc = "send"
  /\ chan' = [chan EXCEPT ![c] = Advance(@, @.batch \ {FirstOf(@.batch)}, @.pushed)]
  /\ Failed(c)
  /\ UNCHANGED <<inbox, mtime, posted, sent, owned>>

(* A broken variant: the gate takes the mtime of its own save as drained.  *)
MutGateTakesOwnSave(c) ==
  /\ chan[c].pc = "record"
  /\ Stamp(chan[c].key, {FirstOf(chan[c].batch)}, MarkPushed)
  /\ gate' = [gate EXCEPT ![c].last = mtime']
  /\ chan' = [chan EXCEPT ![c] = Advance(@, @.batch \ {FirstOf(@.batch)}, @.pushed + 1)]
  /\ UNCHANGED <<posted, sent, owned>>

(* record_push saves when the record is still there.                       *)
DrainRecord(c) ==
  /\ chan[c].pc = "record"
  /\ LET id == FirstOf(chan[c].batch)
         key == chan[c].key
     IN IF id \in DOMAIN inbox[key]
          THEN Stamp(key, {id}, MarkPushed)
          ELSE UNCHANGED <<inbox, mtime>>
  /\ chan' = [chan EXCEPT ![c] = Advance(@, @.batch \ {FirstOf(@.batch)}, @.pushed + 1)]
  /\ UNCHANGED <<posted, gate, sent, owned>>

DrainRecordFails(c) ==
  /\ "record" \in Faults
  /\ chan[c].pc = "record"
  /\ chan' = [chan EXCEPT ![c] = Advance(@, @.batch \ {FirstOf(@.batch)}, @.pushed + 1)]
  /\ Failed(c)
  /\ UNCHANGED <<inbox, mtime, posted, sent, owned>>

(* The server restarts: the _DrainState of the new loop is not seeded.     *)
Restart(c) ==
  /\ gate' = [gate EXCEPT ![c] = Unseeded]
  /\ chan' = [chan EXCEPT ![c] = Idle]
  /\ UNCHANGED <<inbox, mtime, posted, sent, owned>>

Drain(c) ==
  \/ \E resolved \in BOOLEAN : Tick(c, resolved)
  \/ DrainPoll(c) \/ DrainPollRaises(c)
  \/ DrainSend(c) \/ DrainSendFails(c)
  \/ DrainRecord(c) \/ DrainRecordFails(c)

Others ==
  \/ \E r \in Request : Enqueue(r)
  \/ \E key \in Key, ids \in SUBSET Id : Ack(key, ids) \/ RecordConfirmation(key, ids)
  \/ \E key \in Key : PollAck(key)
  \/ Collapse

Next == Others \/ \E c \in Channel : Drain(c) \/ Restart(c)

Spec == Init /\ [][Next]_vars

(* _poll_loop runs for as long as the session lives; from some point on    *)
(* nothing fails and the server is not restarted.                          *)
HealthyDrain(c) ==
  Tick(c, TRUE) \/ DrainPoll(c) \/ DrainSend(c) \/ DrainRecord(c)

LiveSpec ==
  /\ Spec
  /\ \A c \in Channel : WF_vars(Drain(c))
  /\ <>[][Others \/ \E c \in Channel : HealthyDrain(c)]_vars

-----------------------------------------------------------------------------
RecordType == [req : Request, seen : BOOLEAN, pushed : BOOLEAN, confirmed : BOOLEAN]

ChanState == [pc : {"idle", "poll", "send", "record"}, todo : Seq(Key),
              key : Key \cup {"none"}, batch : SUBSET Id, pushed : Nat]

(* Every variable has the shape of what it stands for: an inbox holds      *)
(* posted rows only, under the key they were posted to, a push receipt     *)
(* implies the cursor, and no tick remembers an mtime that is yet to come. *)
TypeOK ==
  /\ posted \in Seq(Request) /\ Len(posted) <= MaxRows
  /\ DOMAIN inbox = Key
  /\ \A key \in Key :
       /\ DOMAIN inbox[key] \subseteq {id \in DOMAIN posted : posted[id].to = key}
       /\ inbox[key] \in [DOMAIN inbox[key] -> RecordType]
       /\ \A id \in DOMAIN inbox[key] :
            /\ inbox[key][id].req = posted[id]
            /\ inbox[key][id].pushed => inbox[key][id].seen
  /\ mtime \in Nat
  /\ gate \in [Channel -> [seeded : BOOLEAN, last : 0 .. mtime, clean : BOOLEAN]]
  /\ chan \in [Channel -> ChanState]
  /\ sent \subseteq DOMAIN posted /\ owned \subseteq DOMAIN posted

Filed(id) == id \in DOMAIN inbox[posted[id].to]
Pending(id) == id \in Unseen(inbox[posted[id].to])

(* A pending row is never lost: a row that no one took is still pending,   *)
(* or, if it is a snapshot, a newer one of its subject is pending or was   *)
(* taken.  Superseding and collapsing delete and mark unread rows, so this *)
(* is about both.  (_inbox.enqueue, _inbox_maint.collapse_digests)         *)
SnapshotSurvives ==
  \A id \in DOMAIN posted \ (sent \cup owned) :
    \/ Pending(id)
    \/ /\ posted[id].snapshot
       /\ \E newer \in DOMAIN posted :
            /\ posted[newer].to = posted[id].to
            /\ posted[newer].subject = posted[id].subject
            /\ newer > id \/ posted[newer].instant > posted[id].instant
            /\ Pending(newer) \/ newer \in sent \cup owned

(* A closed gate hides nothing: when the mtime stands still since a tick   *)
(* in which nothing failed, no row waits for the session.  Rows that arrive*)
(* while a drain is under way, rows beyond the burst cap and the drain's   *)
(* own saves are what could hide one.  (_channel_drain_state.should_drain) *)
ClosedGateHidesNothing ==
  \A c \in Channel : chan[c].pc = "idle" /\ ~GateOpen(c) /\ gate[c].clean =>
    \A i \in DOMAIN ReadKeys[c] : Unseen(inbox[ReadKeys[c][i]]) = {}

(* The file keeps the promise of the rail, with rows that are deleted when *)
(* they are superseded and marked when they are collapsed; see             *)
(* NotificationRail.                                                       *)
PendingRows == {id \in DOMAIN posted : Pending(id)}
PushedRows ==
  {id \in DOMAIN posted : Filed(id) /\ inbox[posted[id].to][id].pushed}
ConfirmedRows ==
  {id \in DOMAIN posted : Filed(id) /\ inbox[posted[id].to][id].confirmed}

Rail == INSTANCE NotificationRail WITH
  Stream <- {<<r.to, r.subject>> : r \in Request},
  rows <- [id \in DOMAIN posted |-> <<posted[id].to, posted[id].subject>>],
  unseen <- PendingRows, echoed <- {}, pushed <- PushedRows,
  confirmed <- ConfirmedRows
ImplementsRail == Rail!Spec

(* "A drain that raises is logged and retried next tick": once failures    *)
(* cease, every row that waits for a live session is pushed, superseded or *)
(* taken.  (_mcp_channel._poll_loop)                                       *)
EventuallyPushed ==
  \A id \in Id : (id \in DOMAIN posted /\ Pending(id))
                   ~> (id \in DOMAIN posted /\ ~Pending(id))
=============================================================================
