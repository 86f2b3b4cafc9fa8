# scitex-cards: verification project

scitex-cards is a task board and a messaging system that a fleet of agents
shares through one PostgreSQL store. This directory models the parts of it that
several processes touch at once, model-checks them with TLC and proves the most
important properties with TLAPS: those of the notification rail and of its
file backend, of the DM threads, view state and exchange, of the card store and the life of a card, of the notify daemon
and of the reminder sweep. Paths below are relative to `src/src/scitex_cards/`.

## 1. The system

| Component | State it keeps | Operations | Talks to |
|---|---|---|---|
| Notification rail (`_inbox_postgres.py`, `_inbox_receipt*.py`) | table `notifications`: one row per notification with the cursor `seen`, the receipts `pushed_at`, `confirmed_at`, the order `seq` | `enqueue` (supersede, dedup, insert, doorbell), `poll_inbox`, `ack`, `record_push`, `record_confirmation` | every producer and consumer below |
| Channel server, one per agent (`_mcp_channel.py`, `_channel_guard.py`) | nothing durable; the batch of the current tick | `drain_once`: resolve keys, poll, send, record the push; `_poll_loop` | rail, the agent's MCP session |
| Recipient confirmation (`_inbox_confirm.py`) | nothing durable | `confirm_notifications`: read what is open, ack, stamp, look up, light the read lamp, report | rail, DM receipts |
| File inbox (`_inbox.py`, `_inbox_maint.py`, `_channel_drain_state.py`) | `inboxes.json`, and the mtime each poll loop last drained at | the same verbs over one locked file, `collapse_digests`, `should_drain` | channel server |
| DM threads (`_dm/write*.py`, `_dm/read.py`) | threads, member and visibility event logs, messages, receipts, tombstones | append, create group, add/remove member, hide, pin, mark read, tombstone; folds for members, unread, hidden, pinned | DM exchange, board, confirmation |
| DM exchange (`_dm/exchange.py`, `_dm/threads.py`) | the status ledger; `exchange_id` on messages and notifications | `persist_dm`, `rotate_failed_notification_exchange` | DM threads, rail, ledger |
| notifyd (`_delivery/_daemon.py`, `_tick.py`, `_liveness.py`, `_pidfile.py`) | pidfile with flock, liveness record with the failing streak | acquire, tick, record, release (which unlinks) | sweeps, delivery loop |
| Reminder sweep (`_reminders.py`, `_reminder/`, `_db_sweep_state.py`) | per owner a count, stamps and the fingerprint of the last digest; per card the escalation latches; one claim row | `claim_sweep`, `load_reminder_state`, `sweep_reminders`, `save_reminder_state` | cards, rail (digests, escalations) |
| Delivery loop (`_delivery/_loop.py`, `_ledger.py`) | JSON ledger of attempts per recipient, notification and channel | `deliver_pending`, `record` | rail (read only), external channels |
| Card store (`_db_mirror.py`, `_mirror_rows.py`, `_store_single_card.py`, `_store_rmw.py`) | `tasks` with a revision, `task_comments`, the hash ledger | single-card compare-and-set, incremental mirror of a whole document | GUI, CLI, MCP |
| Card lifecycle (`_store_lifecycle.py`, `_store_upsert.py`, `_store_clocks.py`, `_help_wait.py`, `_django/handlers/undo.py`, `reopen.py`) | a card's status, blocker and stamps; the Undo payload its caller holds | add, update, upsert, complete, resolve, reopen, comment, help, delete, restore | card store, the stale sweeps |
| Recovery and watch (`_notification_recovery.py`, `_notification_watch.py`) | a caller's cursor; a LISTEN connection | keyset pages, doorbell | rail |
| Users, store identity, schema, health, GUI, CLI, MCP server, hooks, attachments, card sync | registries, pins, DDL | reads and single calls | all of the above |

### What is hard

* Producers run `enqueue` in concurrent READ COMMITTED transactions; its
  superseding UPDATE, dedup SELECT and INSERT see different snapshots.
* A channel server sends first and records afterwards, so every crash and every
  lost receipt falls between the two.
* `confirm_notifications` is four transactions per key, and a notification can
  live under either of two keys (raw name, user id).
* Progress depends on polling loops that swallow errors, a burst cap, and on the
  file backend a gate that compares mtimes.
* DMs cross three stores (message, notification, status ledger) without one
  transaction; logs are ordered by counters because timestamps have second
  resolution.
* Sweeps of several hosts coordinate through a claim row and their own clocks; a sweep
  reads, visits owners and saves without a lock, and each step may fail softly.
* The daemon delivers first and records afterwards, against a file it rewrites from
  memory; its single instance hangs on a path that release unlinks.
* The lock around a card's verb belongs to one host: between hosts there is READ
  COMMITTED and a revision that only some verbs ask about.
* The ages the sweeps act on are derived from stamps that a dozen verbs set and clear.

### What must hold

* Rail: no row leaves the unseen set in silence; one cause, one row, as far as the code
  can see; a receipt says what happened; a confirmed row is never pushed again; first
  stamps stand; the report and the read lamp agree with the table; rows that can be
  delivered are delivered.
* File inbox: a pending snapshot survives superseding and collapsing; a closed
  gate hides nothing.
* DM threads: a verb leaves its row and, with clocks that agree, its effect; unread
  changes only for one of the four conditions; nothing is ever deleted.
* DM exchange: a retry with one client request id ends in one message, one
  notification and one status, or says which is missing.
* Sweeps: no claim locks a host out for good; what is suppressed is old news; a streak
  escalates once; whoever stays stuck is told again and reaches the operator.
* Daemon and delivery: one daemon, unless a pidfile was taken away; nothing delivered
  twice without a lost answer; the budget and the failing streak survive restarts; no
  snapshot after a newer one; what arrives is settled.
* Card store: an accepted comment is kept; a fenced write replaces what its caller saw;
  a refused one leaves no trace; the ledger claims no more than is stored; giving up has
  a reason.
* Lifecycle: no verb makes a card look younger than it is; a completion stamp means
  done; no verb trips the validator; an Undo gives the card back.

## 2. Plan

In the order of importance; each component is modelled, then checked, then proved.

| Component | Modules | Checked | Proved |
|---|---|---|---|
| Notification rail, drain, confirmation | `NotificationRail` (abstract), `Inbox`, `MCInbox` | yes, with liveness | `InboxProofs` |
| File inbox and gate | `FileInbox`, `MCFileInbox` | yes | `FileInboxProofs` |
| DM threads | `RowOrder`, `DmThreads` | yes, beside the view state | `DmThreadsProofs` |
| DM view state | `DmVisibility` (extends `DmThreads`), `MCDmVisibility` | yes | `DmThreadsProofs` |
| DM exchange | `DmExchange` | yes | `DmExchangeProofs` |
| Sweep claim and reminder sweep | `ReminderSweep`, `MCReminderSweep` | yes, with liveness | `ReminderSweepProofs` |
| Daemon, delivery loop and ledger | `Notifyd`, `MCNotifyd` | yes, with liveness | `NotifydProofs` |
| Card store | `CardStore`, `MCCardStore` | yes | `CardStoreProofs` |
| Card lifecycle | `CardLifecycle` | yes | `CardLifecycleProofs` |

What remains: recovery paging beside late commits; the WIP gate,
reassignment and relations of cards; reactions and imported rows of DM threads; writes of
several cards and the order of their locks; runs for the known disagreements listed under
Findings that have none.

## 3. Modules

### NotificationRail

The promise of the rail on either store, as a stack of latches. A row belongs to a
stream, the rows of one subject for one recipient. It is posted, leaves the unseen set
only when a newer row of its stream is posted in the same step, when another that waits
in its stream goes on waiting, when the transport took it and the push is recorded, or
when its recipient takes it over, and is confirmed only after that. One step is no promise
a reader would ask for, and is written down because the code takes it: in an `Echo` a
repeated post replaces the waiting rows of its stream and leaves none. Nothing is ever taken
back. `Inbox!Rail` maps the tables onto it, `FileInbox!Rail` the document, whose deleted
and collapsed rows are rows that no longer wait.

### Inbox

| TLA+ | Code |
|---|---|
| `notif`, `seen`, `pushedAt`, `confirmedAt` | committed rows of `notifications` and their latch columns; a stamp is abstracted to the process that wrote it |
| `nextId` | the sequence behind `seq`, advanced outside transactions |
| `tx[p]` | a producer's open `enqueue` transaction: after the superseding UPDATE (`victims`), after the INSERT (`id`) |
| `chan[c]` | `drain_once`: keys still to poll, the key in hand, the batch, the count against `MAX_PUSH_PER_DRAIN` |
| `conf[k]` | `confirm_notifications`: keys, ids, `pending`, `known`, and which transaction comes next |
| `dmReceipts` | the read lamp rows that `mark_read` inserts |
| `sent`, `owned` | history: rows a session stream took; rows a recipient named or was handed |
| `echoed`, `raced` | history: rows a repeated snapshot superseded without leaving one of its own; pairs of rows whose transactions overlapped past the dedup |

Actions are the statements or transactions of the code, one each, with the early
returns as guards or branches: `EnqueueBegin`, `EnqueueDuplicate`, `EnqueueInsert`,
`EnqueueCommit`, `EnqueueAbort`; `DrainStart`, `DrainPoll`, `DrainSend`,
`DrainSendFails`, `DrainRecord`, `DrainRecordFails`, `DrainStops`; `ConfirmStart`,
`ConfirmPending`, `ConfirmAck`, `ConfirmStamp`, `ConfirmLook`, `ConfirmReturn`,
`ConfirmStops`; `PollAck`. A request's body, actor and wording are abstracted to
`subject` (event and card) and `instant` (second-resolution timestamp and actor).
Row locks are left out, since the UPDATEs only raise latches.

Nothing restricts the producers: any request may be made at any moment, and again. That
is what the code does. Two owner names of one sweep may resolve to one recipient key, and
two hosts may sweep within one second, because `claim_sweep` answers True when its own
transaction fails (`_db_sweep_state.py:343-348`). Both repeat a snapshot with its
timestamp and actor, and `EnqueueDuplicate` then commits the superseding UPDATE alone.

### FileInbox

`inbox` is the document, `mtime` counts its replacements, `gate[c]` is `_DrainState`
and `chan[c]` the same drain as above. A locked read-modify-write is one step.
Superseding deletes and collapsing marks, unlike on PostgreSQL. `Backlog` is a
sidecar written by versions without superseding, the reason `collapse_digests`
exists; `DigestSubject` is the one kind of snapshot it collapses, while `enqueue`
supersedes digests and nudges. Ids count the appends, so a record list in the order of its
ids is a function from ids to records, and a batch is a set whose least id is at hand
(`FirstOf`). `ack` saves only when it flips a record; `record_confirmation` saves always
and asks nothing, so that what it is called for has been acked is the doing of its one
caller, `confirm_notifications`. `posted`, `sent` and `owned` are history, and so is
`clean` in the gate: did anything fail since the tick began.

### RowOrder

`ORDER BY` over several columns and "the last row of a group" (`Latest`), which is
what every fold of `_dm/read.py` is.

### DmThreads

| TLA+ | Code |
|---|---|
| `threads`, `memberEvents`, `messages`, `receipts` | the DM tables; `deleted` is the messages with `deleted_at`, the one column that is ever updated |
| `tx[w]` | an `append` that holds the store-wide advisory lock, after its reads and before its commit |
| `now`, `Skew`, `Host` | wall clocks in whole seconds, one per host; `origin_host` as a number in sort order |
| `replies`, `asked` | history: what keyed appends returned; the last join or leave committed per member |

`AppendBegin` and `AppendCommit` are `append`, with the replay branch and the pair
thread that comes into being with its first message; `AppendFails` is its rollback.
`CreateGroup`, `MemberChange`, `MarkRead` and `Tombstone` are the other verbs.
`append` and `create_group_thread` read the clock before they wait for the lock, so
their stamp is any reading so far (`ReadSoFar`). `RecordMembers` keeps the derived
row id of `record_member_event` and its `ON CONFLICT DO NOTHING`.

### DmVisibility

The view state in one store with `DmThreads`, which it extends: `viewEvents` is
`dm_visibility_events`, and `viewTx[w]` a view verb that holds the lock. `Hidden` and
`Pinned` are the folds of `hidden_for_conn` and `pinned_for_conn`. `ViewBegin`,
`ViewCommit` and `ViewFails` are `set_thread_visibility` and `set_thread_pinned`: the reads
under the lock, of a thread that exists; the insert with the commit; the rollback.
`ThreadStep` is a step of `DmThreads`; while a view verb is open only the clock and
`tombstone`, which takes no lock, can step. The folds order rows by timestamp before the
counter, so what a verb asked for is decided on its own row only when no row of its
thread and reader is stamped later than its host's clock shows: `InTime`, a condition of
two properties and not of the model. That the row is there at all needs no condition.

### DmExchange

| TLA+ | Code |
|---|---|
| `messages`, `notifs`, `ledger` | one DM in `dm_messages`, `notifications` and `status_exchanges`; an attempt's exchange id stands for its message id too |
| `call[c]` | `persist_dm` between its transactions: message, notification, ledger; or the replay's two reads |
| `poll[p]` | `poll_notifications`: rows still to look at, rows done, the row whose lock the rotation holds |
| `confirmed` | `confirmed_at` |
| `handed` | history: what polls returned |

Every transaction has a failing action beside it, in which the commit may or may not have
gone through (`MayFail`). `RotateLock` is the transaction of
`rotate_failed_notification_exchange` up to its checks, `RotateCommit` the successor and
the pointer to it. `Conclude` is external: the consumer's final status in the ledger
that scitex_dev keeps. A status is open (202, 102), failed or delivered. The append is
the one of `DmThreads` without its thread and order, the confirmation the one of `Inbox`.

### ReminderSweep

| TLA+ | Code |
|---|---|
| `claim` | the claim row of `sweep_state`: a stamp by its writer's clock, and the host |
| `owners`, `latches` | the stored reminder state: per owner `count`, `last`, fingerprint (`print`) and when it was sent; per card `creator_escalated` and `escalated` |
| `sweep[h]` | the sweep a daemon is in: its clock, the cards it read, its copy of the state, the owners still to visit |
| `class` | how the detectors class each card now: quiet, active or backlog |
| `told`, `raised`, `lapses` | history: the digest in each owner's inbox; escalations in this streak; whether a sweep was lost or overlapped |

`Claim` is `claim_sweep` (an error answers "claimed"); `ReadCards`, `LoadState`, one
`SweepOwner` per owner in sort order, and `Save` (prune and whole-scope replacement) are
`sweep_reminders`; `Crash`, `Tick` and `Work` are the world. Every enqueue, read and write
may fail softly, as the code lets it. Time is relative: a stamp is its distance from now,
and a stamp older than every interval reads like one never made, so both are `-Horizon`
and behaviours need no last second.

### Notifyd

| TLA+ | Code |
|---|---|
| `path`, `fresh`, `proc[d].fd` | the pidfile's name and inodes: `Open`, `Lock`, `Release` and `Unlink` are `_SingleInstanceLock`, in the order of the code |
| `proc[d]` | a daemon slot: where it is in its tick, the ledger it loaded, the notifications it still has to pass, the outcome in hand |
| `ledger` | the attempts file: status, attempts, backoff (`cool`) |
| `streakFile`, `streak`, `blind` | `consecutive_failures` in the liveness record; the real streak; whether a write of the record failed |
| `copies`, `tries`, `doubted` | what the recipient got; deliveries attempted; notifications whose answer or record was lost |

`StartTick`, `Load`, `ReadInbox`, `Attempt`, `Record` and `CloseTick` are one tick of
`run_notifyd` with `deliver_pending` inside; `Arrive` and `Elapse` are a new
notification and a backoff that has run out; `Crash` may come between any two. One
recipient on one channel stands for all pairs, which share nothing but the file. The
recipient has one inbox key. The code reads two, the raw name and the user id, and joins
their rows key by key (`_loop.py:258-273`), so its order is the order within each list;
between the lists an older row may come after a newer one. Snapshots of one card and event
share a key, so their order breaks there only when a name lookup also fails and a later
row is filed under the raw name.

### CardStore

| TLA+ | Code |
|---|---|
| `card`, `rows`, `ledger` | the row of `tasks` with its revision and `card_json`; its `task_comments`, each with the call that wrote it; the hash ledger |
| `referenced` | another card names this one in `depends_on` |
| `run[h]` | the verb a host is in: the document it edited, the revision it holds, the comment rows it merged and dropped, its attempt |
| `accepted`, `tombstoned`, `raced`, `purged` | history |

`Start` and `Read` come before the transaction. `Begin` is the diff against the ledger,
the check before the drop and the merge of comment rows nobody told the document about.
`Drop` and `DropWaits` are the DELETE, which in READ COMMITTED sees the rows committed
when it starts, waits for those another transaction has deleted, and never sees their
replacements. `Commit` is the upsert with its WHERE, the inserts, the ledger and the
commit: the upsert takes the lock of the card's row and nothing waits after it, so they
are one step. `Purge` is the board's removal, `Dies` a death at any point. One card
stands for all of them; the shrink guard cannot fire for one card, and the order in which
a write of several cards takes its locks is left out. A delete writes its tombstone with a comment
of its own, as `delete_task` does, so it never equals the ledger; the only write the diff
skips is a `save` of a document nobody changed. An unarmed write that is overtaken
inside its own transaction can lose or double comments (`raced`), and a revision starts
over when a removed card is created again (`purged`), whatever `_db_bootstrap.py:197-198`
says of revisions that never repeat: the properties name these two as their exceptions.

### CardLifecycle

`card` is the row: status, blocker, the stamps `_store_clocks.py` keeps, the tombstone.
Each verb is one step, since it holds the lock of the store from read to save: `Add`,
`Update`, `Upsert`, `Complete`, `Resolve`, `Reopen`, `Comment`, `HelpWait`, `HelpClear`,
`Delete`, `Restore` of the store, `BoardReopen`, `BoardDelete`, `BoardRestore` of the
GUI's handlers, which save without the store's stamping. `Tick` is the clock.
`Save` ends every verb: it validates, as every save does, and `refused` notes a verb that
is refused for a row it made itself. `undo` is the payload a caller holds after the
last deletion, `before` the row the deletion found, `since` when the card entered its status
and blocker. The model keeps what the code does not check: `HelpWait`, `HelpClear` and
`BoardReopen` act on tombstoned rows; `BoardReopen` and `BoardRestore` leave
`last_activity` alone; `BoardRestore` over a present row answers success and restores
nothing, which `undone` records like any other; `Upsert`, `Reopen` and `Resolve` leave a
cancellation stamp.

### MC modules

`MCInbox` has an agent with a raw name and a user id, a second agent known by its
raw name only, one digest at two instants and DMs; producers are interchangeable, and so
are channels. `MCFileInbox` has one agent, two
digest instants, a nudge, a DM and a backlog of two digests that lists the newest first, so
that arrival and age disagree. `MCDmVisibility` has two interchangeable agents, their
pair thread and a group; its two writers run on two hosts, one
clock a second ahead. `MCReminderSweep` has
two hosts with clocks a tick apart and one owner, whom the registry calls dead, with one
high-priority card. `MCNotifyd` has two daemon slots and two snapshots of one key.
`MCCardStore` has three interchangeable hosts. `DmExchange` and `CardLifecycle` need no MC
module: their constants are plain sets of strings.

## 4. Runs

| Run | Instance | Shows |
|---|---|---|
| `rail_producers` | 2 producers, 2 channels, 2 rows, cap 1 | `NothingSilentlyConsumed`, `OneRowPerCause`, `LatchesHold`, refinement of `NotificationRail` |
| `rail_recipients` | 1 producer, 1 channel, 1 caller, 2 rows, row 1 may be refused for ever | `ReceiptsAreHonest`, `ReadLampFollowsConfirmation`, `ReportIsTrue`, `EventuallyDelivered` |
| `file_inbox` | 1 channel, 4 rows of which 2 are backlog, 2 kinds of snapshot, all failures | `SnapshotSurvives`, `ClosedGateHidesNothing`, refinement of `NotificationRail` |
| `dm_visibility` | 2 hosts, one clock ahead, a pair thread and a group, a request key, 2 messages, 4 rows, 3 rows where view rows are among them | `OrderIsCommitOrder`, `RetriesAgree`, `RecordedEventDecides`, `UnreadChangesForAReason`, `EveryToggleIsKept`, `ToggleTakesEffect`, `ChangedIsFlip` |
| `dm_pin_unhides` | the same instance | a violation of `PinKeepsHidden` |
| `dm_exchange` | 2 callers, 1 request id, 2 letters, 2 pollers, 3 exchanges, all failures, a recipient with two keys | `AcceptedIsDurable`, `NoOrphanExchange`, `PollersConverge` |
| `dm_retry_after_rotation` | 1 caller, 1 poller, no failures | a violation of `CompleteRetryReturns` |
| `reminder_sweep` | 2 daemons, 1 owner, 1 card, 2 changes of its class, 1 fault | `SuppressesOnlyOldNews`, `OneEscalationPerStreak`, `StuckCardReachesOperator`, `StuckOwnerIsToldAgain` |
| `notifyd` | 2 slots, 3 starts, 2 snapshots, 2 attempts, 1 fault | `OneDaemonUnlessRobbed`, `DuplicatesHaveACause`, `BudgetHolds`, `StreakSurvivesRestart`, `SnapshotsInOrder`, `EventuallySettled` |
| `card_store` | 3 hosts, all nine kinds of call, 4 calls, 3 attempts | `CommentsSurvive`, `ReferencesGoWithTheCard`, `ArmedReplacesWhatItSaw`, `LedgerClaimsNoMore`, `GivesUpForAReason` |
| `card_lifecycle` | 6 writes in 3 seconds, 2 gates | `AlarmNotSilenced`, `CompletionStampOnlyOnDone`, `StampsAreFrozen`, `UndoGivesBack` |
| `undo_restores` | the same instance | a violation of `RestoredIsLive` |

Every module states a `TypeOK`; it is proved where the module has proofs and is not
repeated among the runs. The same goes for `LockHolds` of `DmExchange`, `SentIsTrue` of
`Notifyd` and `NoVerbTripsTheValidator` of `CardLifecycle`.

### Bounds

*Rail.* `MaxRows` bounds the rows inserted; `MaxPush` is 1 instead of 50. Two rows and a cap
of one are enough for a superseded row with its successor, a batch the cap cuts, two
channels that hold the same batch, and a poison row before another. The two rail runs
split producers from recipients because each property relates at most one of them to the
channel; the proofs cover all of them together, for any number of each. In particular
`rail_recipients` has one caller, whose ids may be another agent's; that callers confirm
in between one another is what `ReportStaysTrue` covers. With two rows a producer can
repeat a snapshot whose first copy waits, is open in another transaction, or is seen
(528,804 and 575,594 states, the first up to symmetry).

*File inbox.* Of four rows two are the backlog, so both a backlog digest and a new one can
stand for it, and a second subject can stay beside them. `MaxSaves` bounds the saves of
producers and recipients: five are two appends, a collapse, an ack and a stamp in any
order. The drain's own saves are not bounded, since each belongs to a row (445,979
states).

*DM.* The runs last one tick (`MaxTime` is 1), so that behaviours have rows in one second
and in two, and the skew of one second makes the later row carry the earlier stamp. Two
messages are enough for a replay, an order and a message that is read while another is
not; `MaxRows` admits the joins of a pair, a leave and a rejoin, or a
receipt and a tombstone among them. `MaxStoreRows` bounds the rows of a behaviour in which a
view verb commits: beside the group's founder row two toggles are left, in either order
and on either host, which is the least that can be in time or not, flip, or share a second.
More toggles add rows the folds do not look at; the theorems cover any number (1,200,861
states up to symmetry). Three exchanges are two attempts and a rotation, or one attempt
and a rotation by each poll.

*Sweep.* The cadence and the digest interval are one tick, the backlog interval, the floor
and the escalation threshold two: each comparison has a tick at which it fails and one
at which it holds. `MaxStall` 0 lets no tick pass within a sweep, so a sweep is timed by
one reading of its clock, as in the code. Two changes of class let a streak end and begin
again. There is no bound on time (302,324 states).

*Daemon.* Three starts are a daemon, its restart and a rival; two attempts are a retry
and the terminal status. The constraint `Unrobbed` stops a behaviour one step after a
release removed a rival's pidfile: beyond it only `OneDaemonUnlessRobbed` promises
anything (659,163 states).

*Cards.* Four calls on three hosts are a write, two that race it and a later one to see
what is left; three attempts of `comment_task` and three racing writes exhaust each
other (3,691,972 states). Six writes in three seconds take a card into a status, out,
back, away and back again with an instant before, between and after (581,262 states).

Deadlock is not checked in the DM, sweep, daemon and card runs: a behaviour that has used
the bounds up stops. `CardStore` has no lock cycle to find, since a write of one card
waits for one set of rows.

### Findings

* `dm_retry_after_rotation`. A replay looks its notification up by the exchange the message
  was sent with; a rotation has overwritten it, so the retry is refused for good though
  every store holds its part.
* `undo_restores`. `delete_task` hands out `dict(target)`, a shallow copy, and then stamps
  `deleted_at` into the `_log_meta` both share (`_store_lifecycle.py:233`). When the card
  had one, because it was completed or created by `upsert_task`, `restore_task` writes the
  stamp back, answers success, and leaves the card tombstoned. `UndoGivesBack` is what
  holds for all other cards.

* `dm_pin_unhides`. `hidden_for_conn` and `pinned_for_conn` each keep the latest row of any of
  the four actions and then ask for theirs, so pinning a hidden thread shows it again and
  hiding a pinned one unpins it. `_dm/read.py:248-251` says the two never read each other's
  actions, and `_dm/write.py:361` that hidden still hides beside a pin. What holds is
  `ToggleTakesEffect`: the verb itself gets what it asked for.

More properties are stated in the modules and are not among the runs. What reading the
code and TLC say of them:

* `SupersededIsReplaced` (rail). `enqueue` on PostgreSQL marks the unseen predecessors seen
  and then dedups against rows that include them. A snapshot that is repeated with its
  timestamp and actor, by two owner names with one key or by two hosts sweeping in one
  second, consumes the first copy, finds it as a duplicate, commits, and inserts nothing:
  the agent is never shown either. TLC finds it in six states. `_inbox.py:293-295` and
  `_inbox_postgres.py:172` promise that what supersedes replaces. The file backend drops
  predecessors before the dedup and does not save on a duplicate, so it keeps the pending
  digest. `NothingSilentlyConsumed` and `NotificationRail` admit this one loss, by name
  (`echoed`, `Echo`).
* `CounterIsTheOrder` (view state). `_dm/ids.py:155` and `_dm/read.py:205-208` say the counter
  per thread and reader is the order. The folds order by the timestamp first, so a host
  whose clock is behind can commit a toggle that has no effect.
* `EventuallyPushed` (file inbox). `should_drain` records the mtime before the drain. A
  drain that raises is not retried on the next tick, as `_poll_loop` says, but only after
  something else writes the sidecar. PostgreSQL has no gate and is not affected
  (`EventuallyDelivered`).
* `OwnRowsMatch`. The rotation wants the key of the row to equal the row's recipient and
  the ledger's responder; for a registered agent one is the user id and the other the
  name. Its polls raise while it has an unconfirmed DM, whatever the status.
* `LastVerbDecides`. The id of a membership row is derived from thread, member, action
  and second, without the counter, and the insert is `ON CONFLICT DO NOTHING`: of a
  join, a leave and a second join within one second the last is dropped, and the member
  stays out. The comment on the counter says it makes "the latest event" a fact. The
  visibility log had the same flaw and got the counter into its id.
  `RecordedEventDecides` is what holds: a join or leave that got its row decides.
* `OnlySendsInFlightRaise`. The notification commits before its exchange is in the ledger. A
  sender that fails in between leaves a row for which the rotation raises, and the poll
  passes that on: the recipient gets nothing at all until the row is confirmed.
* `ConfirmedKeepsExchange`. What is outstanding is read before the rotation and not again
  under its lock: a notification confirmed in between gets a new open exchange.

Disagreements that the properties name as exceptions or that no property is about:

* A card made by `upsert_task` keeps its birth only in `_log_meta.created_at`, which
  `_deferred_age_hours` does not read; its backlog age is that of its last touch, so a
  comment silences the alarm, which the header of `_store_clocks.py` calls "SILENCEABLE
  BY TYPING" and rules out. `AlarmNotSilenced` excepts these cards.
* `_db_sweep_state.py:29-32` says the hosts' saves merge; `save_sections` replaces the
  whole scope. This is why `StuckCardReachesOperator` excepts overlapping sweeps: a sweep
  that read before a peer pruned a latch writes it back.
* `_inbox_postgres.py:262` says ON CONFLICT DO NOTHING makes a retried insert idempotent even
  if two writers race. The id it would conflict on is new with every call, so two writers
  past the dedup both insert. `OneRowPerCause` excepts such pairs (`raced`) and says that
  nothing else makes two rows of one cause.
* `handle_restore` answers 200 with the id although the id was taken by a new card and nothing
  was restored (`_django/handlers/undo.py:183-208`). `UndoGivesBack` asks of an Undo by the
  board over such a row only that it leaves the new card alone.
* `release` of the pidfile unlocks, closes and then unlinks the path: a daemon that
  acquired in between keeps a lock on a file without a name, and a third one starts
  beside it. `OneDaemonUnlessRobbed` says that nothing else can do this.
* The docstring of `write_liveness` says its caller counts a failed write as a fault;
  `_close_tick` only logs it, and the streak of the next start is the older one
  (`StreakSurvivesRestart` excepts it). `observe` calls a tick failing in which
  deliveries succeeded when its ledger could not be written.

### Fairness

*Rail* (`LiveSpec` of `MCInbox`). Weak fairness of each channel's drain as a whole:
`_poll_loop` is a `while True` that swallows what a tick raises and lives as long as the
session. Nothing is assumed of producers and recipients. It also assumes that failures
are transient (`<>[]`: from some point on no poll raises, no receipt write fails, no
server stops), except that the transport may refuse the poison row forever: a
property about delivery would otherwise fail because the machine never works again.

*Sweep.* Weak fairness of `Tick`, of each host's steps once it sweeps, and of the claims of
some one host: one daemon stays up, nobody knows which, and the others may never come
back. The daemon's loop calls the sweep on every tick and nothing in a sweep waits. So a
claim stamped by a peer whose clock is ahead must not keep the one that stays from sweeping
(`StuckOwnerIsToldAgain`). Faults are only bounded, never excluded.

*Daemon.* Weak fairness of each daemon's steps once it runs, and of a backoff running
out. Starting, stopping and crashing are not fair; `EventuallySettled` is about a
behaviour in which some daemon stays.

No liveness is claimed of DMs and cards: their callers retry at will.

## 5. Proofs

`InboxProofs` proves, for any sets of keys, messages, requests, producers, channels
and callers and any bounds:

| Theorem | Property |
|---|---|
| `TypeCorrect` | `TypeOK` |
| `LatchesHoldForGood` | `LatchesHold` |
| `NothingLost` | `NothingSilentlyConsumed` |
| `CausesStaySingle` | `OneRowPerCause` |
| `ReceiptsStayHonest` | `ReceiptsAreHonest` |
| `ReportStaysTrue` | `ReportIsTrue` |
| `LampFollowsConfirmation` | `ReadLampFollowsConfirmation` |
| `InboxImplementsRail` | `ImplementsRail` |

from `RequestAssumption`, `ProcessAssumption` and `BoundAssumption`: requests are
well-typed, a snapshot names no message and a subject is either always or never a
snapshot, every process reads at least one key, the bounds are numbers.

None of the properties is inductive: each speaks of committed rows, and what decides
the next step is in a process's locals. `TableInv` adds what those locals know.
`Shape` (an idle process holds nothing, an active one has a key in hand), `Rows` (rows
below `nextId`, stamps and cursor only on rows that exist), `Sending` (the row a
channel is about to record is in `sent` and under its key), `Draining` (a batch is made
of rows of the key), `Calls` (what a caller calls known carries a stamp, keys already
passed are complete). `Overlaps` is for `OneRowPerCause`: an insert that is still open has
overlapped with every row of its cause and every row with a later id. No assumption is
made about what producers ask for. The refinement maps `EnqueueCommit` to `Post`,
`EnqueueDuplicate` to `Echo`, `DrainSend` to `Transmit`, `DrainRecord` to `RecordPush`,
`ConfirmAck` and `PollAck` to `TakeOver`, `ConfirmStamp` to `Confirm`, and every other step
to a stutter.

`FileInboxProofs`, for any keys, requests, backlog, channels, caps and faults:

| Theorem | Property |
|---|---|
| `FileTypeCorrect` | `TypeOK` |
| `PendingSnapshotSurvives` | `SnapshotSurvives` |
| `ClosedGateIsEmpty` | `ClosedGateHidesNothing` |
| `FileImplementsRail` | `ImplementsRail` |

from `RequestAssumption` and `FileAssumption`: requests go to keys, all rows of a subject
supersede or none does, and digests do; every channel reads some key. There are three
invariants, one per property, over the same types (`Kept`, with `Drains`: a row whose
receipt is about to be recorded has been sent).

The rows: `Survives` weakens nothing and is still not inductive, because the row that
stands for another may itself be dropped or marked. Superseding replaces it by a row that
is later than everything; collapsing replaces it by one that is newer by timestamp, and
"later" and "newer" do not compose. `Lone` closes the gap: only rows of the backlog can
be pending digests side by side, so a row that succeeded by being later is never
collapsed. `NewestExists`, that a set of pending digests has a newest, is the only place
where the argument is by induction, on the least bound for which it fails
(`LeastNumber`).

The gate: `GateKnows` says of a channel whose mtime is still that of a clean tick that
its drain has recorded nothing, holds all unseen rows of its key, and that the rows of
its other keys are in keys it has left. Every save makes the mtime one that no tick has
seen (`SaveOpens`), so only the drain's own quiet steps have to be looked at; a row at
hand that vanished means someone saved.

The refinement: `RailInv` says that what the recipient took is seen and that only that is
confirmed. A receipt therefore sits on a seen record, which superseding never drops, so
deletion takes back no latch. `Enqueue` maps to `Post` and replaces what it drops,
`Collapse` to `Collapse`, where `NewestStays` finds the digest that goes on waiting,
`Ack` and `PollAck` to `TakeOver`, `RecordConfirmation` to `Confirm`, `DrainSend` to
`Transmit`, and `DrainRecord` to `RecordPush`, or to a stutter when the row is gone; every
other step is a stutter.

`DmThreadsProofs`, for any agents, threads, writers, hosts, clocks and bounds:

| Theorem | Property |
|---|---|
| `ThreadsTypeCorrect` | `TypeOK` with the foreign keys of the tables |
| `OrderStaysCommitOrder` | `OrderIsCommitOrder` |
| `RetriesStayAgreed` | `RetriesAgree` |
| `RecordedEventsDecide` | `RecordedEventDecides` |
| `UnreadIsExplained` | `UnreadChangesForAReason` |

The counter of a thread is the first column of both orders. The store-wide lock makes
the counter an open append has read past every row of its thread (`OpenIsPast`), so a
commit comes last whatever the clocks show and however long it waited; `Tops` says a
highest counter exists, `Ordered` that within a thread counters and commits go up
together, `Counted` that ids count the commits, `Keyed` that a key has one message and
every replay returned it.

The same module proves of the store with the view verbs, `DmVisibility`:

| Theorem | Property |
|---|---|
| `ViewsLeaveThreadsAlone` | `ViewSpec => Spec`: every theorem above holds beside the view verbs |
| `VisibilityTypeCorrect` | `ViewTypeOK`: a view row keeps its thread, and the lock admits one transaction, of a view verb or of an append |
| `TogglesAreKept` | `EveryToggleIsKept` |
| `TogglesTakeEffect` | `ToggleTakesEffect` |
| `ChangeIsReported` | `ChangedIsFlip` |

`ViewCounted` is `IInv` and what holds of the views whatever the clocks show: an open verb has read the current
state and its counter is past every row of its thread and reader (`ViewOpen`), which needs
that a highest counter exists (`ViewTop`: the sets are not assumed finite). From it the
derived id of a commit is never taken, so `ON CONFLICT` drops nothing. Nothing is assumed
of the clocks: a verb that commits `InTime` has a row that comes last by timestamp or, in
the same second, by counter (`ViewDecides`), and decides the fold.

`DmExchangeProofs`, for any callers, pollers, keys, letters and exchanges:

| Theorem | Property |
|---|---|
| `ExchangeTypeCorrect` | `TypeOK`, and that a notification has its message |
| `AcceptedStaysDurable` | `AcceptedIsDurable` |
| `NoExchangeOrphaned` | `NoOrphanExchange` |
| `PollersStayConverged` | `PollersConverge` |
| `LockIsHeld` | `LockHolds`: no poll finds its exchange changed under the row lock |

`Apart` is the heart: an exchange belongs to the attempt or the rotation that minted it
until it is in the ledger, so no two steps ever write the same one. `Progress` says what
each call has left behind at the transaction it has reached, `Polling` and `Holds` that
the row a poll has locked keeps the failed exchange the poll has read, `OneHolder` that
the lock has one holder.

`CardStoreProofs`, for any hosts, verbs, attempts and calls:

| Theorem | Property |
|---|---|
| `StoreTypeCorrect` | `TypeOK` |
| `CommentsKept` | `CommentsSurvive` |
| `ReferencesGo` | `ReferencesGoWithTheCard` |
| `ArmedReplaces` | `ArmedReplacesWhatItSaw` |
| `LedgerIsCovered` | `LedgerClaimsNoMore` |
| `RetriesJustified` | `GivesUpForAReason` |

Each call carries four facts. `Shaped` is its record; `Fenced`: a revision seen is not
past the card's, and if it is the card's then so is the content seen with it; `Current`:
a write nobody has overtaken holds what the table holds, which is what makes the rows it
drops all rows there are; `Counting`: every attempt of a comment but the last was lost to
another write. `LedgerClaimsNoMore` itself is inductive beside
them: what the ledger says of body, tombstone and comments is in the table, since a write
that commits replaces both.

`CardLifecycleProofs`, for any gates, writes and seconds:

| Theorem | Property |
|---|---|
| `LifecycleTypeCorrect` | `TypeOK` |
| `NoAlarmSilenced` | `AlarmNotSilenced` |
| `StampMeansDone` | `CompletionStampOnlyOnDone` |
| `ValidatorNeverTripped` | `NoVerbTripsTheValidator` |
| `StampsStayFrozen` | `StampsAreFrozen` |
| `UndoIsFaithful` | `UndoGivesBack` |

`IInv` is type correctness, `refused = {}`, and of the row that it is `Sound` (it
validates, and a live row with a completion stamp is done), `Past` (no stamp the sweeps
read lies in the future) and, while it is live, `Aged` (the clocks the sweeps read are not
younger than `since`). `Payload` says as much of what an Undo will write back, since it
becomes a row again at any later time. An Undo by the board over a present row leaves the
card as it is, so `UndoIsFaithful` has two halves: there the card is unchanged, everywhere
else it is the one the deletion found.

`NotifydProofs`, for any daemons, notifications, starts, attempts and faults:

| Theorem | Property |
|---|---|
| `DaemonTypeCorrect` | `TypeOK` |
| `OneDaemon` | `OneDaemonUnlessRobbed` |
| `NoIdleDuplicate` | `DuplicatesHaveACause` |
| `SentWasReceived` | `SentIsTrue` |
| `BudgetIsKept` | `BudgetHolds` |
| `StreakIsKept` | `StreakSurvivesRestart` |
| `SnapshotsStayInOrder` | `SnapshotsInOrder` |

`Locks` says that an inode's lock has one holder and that, until a pidfile is taken away,
every open descriptor is of the file the name leads to; from it at most one daemon is
inside (lemma `Alone`).
For that one, `Agrees` says the ledger in memory is the file's, but for backoffs that ran
out since and for what is in doubt; `Newest` that nothing newer than a pending snapshot
was delivered; `Accounted` that a copy received is recorded or about to be, and that the
deliveries tried are the attempts recorded or one more. `File`, `Working`, `Received` and
`Passing` hold with any number of daemons.

`ReminderSweepProofs`, for any hosts, clocks, owners, cards, intervals and faults:

| Theorem | Property |
|---|---|
| `SweepTypeCorrect` | `TypeOK` |
| `OnlyOldNewsIsSuppressed` | `SuppressesOnlyOldNews` |
| `LatchesCountEscalations` | `OneEscalationPerStreak` |

`Calm` says that while nothing was lost and no sweeps overlapped, either the stored state
or the copy of the one sweep at its owners says what every owner was told and what was
raised (`Knows`): the two are never both current, which is why the stored state alone is
not an inductive invariant. `Typed` adds that an entry without a fingerprint was never
sent, and that a sweep visits owners with stale cards only.

Each proof module rests on the assumption of its component's constants and nothing else.
TLC has checked each inductive invariant on the instance of the component's run.

Model-checked only: the four liveness properties of the runs (fairness and ENABLED are out
of the proof system's reach). Every safety and action property that a run checks is a
theorem.

## 6. Not modelled

Presentation (GUI, CLI, MCP rendering, health reports), schema migrations, registries
and store identity keep no state that two actors race on, or are pure input and output.
Recovery paging and the LISTEN doorbell only read. Left out inside the components that
are modelled:

* DM threads: reactions, rows imported from another store, messages without an exchange,
  the computed receipt states.
* Reminder sweep: wording, the configuration of intervals per owner, the other sweeps of
  the daemon (they share the claim and the soft failures, not the state).
* Daemon: reading of the heartbeat from other namespaces, the tick summary, the terminal
  report.
* Card store: writes of several cards in one transaction and the order of their locks,
  the shrink guard, sections other than cards, exports.
* Card lifecycle: the WIP gate, reassignment (which, unlike the other verbs, does not
  skip tombstones), relations and rescoring.

`PROJECT.json` lists every component with its status and every hazard with the properties
that cover it.
