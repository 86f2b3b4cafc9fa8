--------------------------- MODULE CardLifecycle ---------------------------
(***************************************************************************)
(* The life of one card: every verb that moves its status, with the stamps *)
(* the sweeps and the throughput views believe.  The stale sweeps ask how  *)
(* long the card has been deferred, or blocked on what it names; the       *)
(* throughput views read the completion stamp and never the status; and    *)
(* the Undo of a deletion writes back the snapshot its caller was given.   *)
(*                                                                         *)
(* Each verb is one step: it holds the lock of the store from the read to  *)
(* the save.  What writers of several hosts do to each other is the        *)
(* subject of CardStore.  Every save validates the document first: a verb  *)
(* that leaves a blocker on a card that is not blocked is refused.         *)
(***************************************************************************)
EXTENDS Naturals

CONSTANTS
  Gates,              \* what a card can be blocked on
  OperatorDecision,   \* the one that reopening names
  MaxTime,            \* bound: the seconds that can be told apart
  MaxWrites,          \* bound: writes of the card
  NoCard

ASSUME CardLifecycleAssumption ==
  /\ OperatorDecision \in Gates /\ "none" \notin Gates
  /\ MaxTime \in Nat \ {0} /\ MaxWrites \in Nat

Status == {"deferred", "in_progress", "blocked", "done", "cancelled"}
NoStamp == 0
Time == 1 .. MaxTime
Blocker == Gates \cup {"none"}
Untouched == "untouched"

VARIABLES
  card,               \* the row, or NoCard
  now,
  undo,               \* the payload of the last deletion, and which door gave it
  before,             \* history: the row that deletion found
  undone,             \* history: its Undo answered success
  since,              \* history: when the card entered its status and blocker
  refused,            \* history: the verbs refused for a card they made themselves
  writes              \* writes so far

vars == <<card, now, undo, before, undone, since, refused, writes>>

NoUndo == [by |-> "nobody", row |-> NoCard]

Init ==
  /\ card = NoCard /\ now = 1
  /\ undo = NoUndo /\ before = NoCard
  /\ undone = FALSE /\ since = NoStamp /\ refused = {} /\ writes = 0

Present == card # NoCard
Live == Present /\ ~card.dead             \* _task._find_live_task

(* The pair the blocked sweep watches.                                     *)
Pair(c) == <<c.status, c.blocker>>

(* _validate_tasks, rule (b): a real blocker wants a blocked card.         *)
Validates(c) == c.blocker # "none" => c.status = "blocked"

Put(c) ==
  /\ card' = c
  /\ since' = IF Live /\ Pair(c) = Pair(card) THEN since ELSE now

Counted == writes < MaxWrites /\ writes' = writes + 1

(* A save the caller shaped; a bad one is refused, and nothing happens.    *)
SaveAsked(c) ==
  /\ Validates(c) /\ Put(c) /\ Counted
  /\ UNCHANGED <<now, undo, before, undone, refused>>

(* A save whose status and blocker the verb chose itself.                  *)
Save(verb, c) ==
  /\ \/ Validates(c) /\ Put(c) /\ UNCHANGED refused
     \/ ~Validates(c) /\ refused' = refused \cup {verb} /\ UNCHANGED <<card, since>>
  /\ Counted
  /\ undone' = (undone \/ verb \in {"restore", "board_restore"})
  /\ UNCHANGED <<now, undo, before>>

Tick ==
  /\ now < MaxTime /\ now' = now + 1
  /\ UNCHANGED <<card, undo, before, undone, since, refused, writes>>

-----------------------------------------------------------------------------
(* The clocks: stamped when a card enters or leaves a state.               *)

MutStampsEveryTouch(c, prior) ==
  IF c.status = "deferred" THEN [c EXCEPT !.deferred_at = now] ELSE c

StampDeferred(c, prior) ==
  IF c.status = "deferred" /\ prior.status # "deferred"
  THEN [c EXCEPT !.deferred_at = now] ELSE c

StampBlocked(c, prior) ==
  IF c.status = "blocked" /\ Pair(c) # Pair(prior)
  THEN [c EXCEPT !.blocked_at = now] ELSE c

ClearCompletion(c) == [c EXCEPT !.completed_at = NoStamp]

MutClearsOnReopenOnly(c, prior) ==
  IF prior.status = "done" /\ c.status = "blocked" THEN ClearCompletion(c) ELSE c

ClearOnLeavingDone(c, prior) ==
  IF prior.status = "done" /\ c.status # "done" THEN ClearCompletion(c) ELSE c

StampCancellation(c, prior) ==
  CASE c.status = "cancelled" /\ prior.status # "cancelled" ->
         [c EXCEPT !.cancelled_at = now]
    [] c.status # "cancelled" /\ prior.status = "cancelled" ->
         [c EXCEPT !.cancelled_at = NoStamp]
    [] OTHER -> c

(* The gate goes with the status.                                          *)
DropGate(c) == IF c.status = "blocked" THEN c ELSE [c EXCEPT !.blocker = "none"]

-----------------------------------------------------------------------------
(* The verbs of the store.                                                 *)

Born(s, b) ==
  [status |-> s, blocker |-> b, created_at |-> now, deferred_at |-> NoStamp,
   blocked_at |-> NoStamp, cancelled_at |-> NoStamp, completed_at |-> NoStamp,
   last_activity |-> now, dead |-> FALSE]

(* add_task; a tombstoned id counts as taken.                              *)
Add(s, b) ==
  /\ ~Present
  /\ SaveAsked(IF s = "blocked" THEN [Born(s, b) EXCEPT !.blocked_at = now]
               ELSE Born(s, b))

(* update_task: a field it is not given stays, a cleared one goes.         *)
Update(s, b) ==
  /\ Live
  /\ LET c == [card EXCEPT !.status = IF s = Untouched THEN @ ELSE s,
                           !.blocker = IF b = Untouched THEN @ ELSE b,
                           !.last_activity = now]
     IN  SaveAsked(StampCancellation(StampBlocked(
           StampDeferred(ClearOnLeavingDone(c, card), card), card), card))

(* upsert_task stamps neither backlog nor blocked clock, and a card it     *)
(* creates keeps its birth in _log_meta, where the sweeps do not look.     *)
Upsert(s, b) ==
  \/ /\ ~Present
     /\ SaveAsked([Born(s, b) EXCEPT !.created_at = NoStamp])
  \/ /\ Live
     /\ LET c == [card EXCEPT !.status = s, !.last_activity = now,
                    !.blocker = IF s = "blocked" /\ b # "none" THEN b ELSE @]
        IN  Save("upsert", DropGate(ClearOnLeavingDone(c, card)))

MutCompleteAgain ==
  /\ Live
  /\ Save("complete", [card EXCEPT !.status = "done", !.blocker = "none",
                         !.completed_at = now, !.last_activity = now])

(* complete_task: on a done card it returns before it writes.              *)
Complete ==
  /\ Live /\ card.status # "done"
  /\ Save("complete", [card EXCEPT !.status = "done", !.blocker = "none",
                         !.completed_at = now, !.last_activity = now])

(* resolve_task: to done, without a completion stamp.                      *)
Resolve ==
  /\ Live
  /\ Save("resolve", [card EXCEPT !.status = "done", !.blocker = "none",
                        !.last_activity = now])

Reopen ==
  /\ Live
  /\ Save("reopen", ClearCompletion([card EXCEPT !.status = "blocked",
                      !.blocker = OperatorDecision, !.last_activity = now]))

Comment ==
  /\ Live
  /\ Save("comment", [card EXCEPT !.last_activity = now])

(* The help card of an agent.  Neither verb looks at the tombstone.        *)
HelpWait ==
  Save("help_wait",
    IF Present
    THEN ClearOnLeavingDone([card EXCEPT !.status = "blocked",
           !.blocker = OperatorDecision, !.last_activity = now], card)
    ELSE Born("blocked", OperatorDecision))

HelpClear ==
  /\ Present
  /\ Save("help_clear", [card EXCEPT !.status = "done", !.blocker = "none",
                           !.last_activity = now])

(* reopen.handle_reopen restores whatever pair its caller names, on any    *)
(* row, and leaves last_activity alone.                                    *)
BoardReopen(s, b) ==
  /\ Present
  /\ Save("board_reopen", ClearOnLeavingDone(
       [card EXCEPT !.status = s,
          !.blocker = IF s # "blocked" THEN "none"
                      ELSE IF b = "none" THEN OperatorDecision ELSE b], card))

-----------------------------------------------------------------------------
(* Deletion and its Undo.                                                  *)

(* Does the row carry a _log_meta?                                         *)
HasMeta(c) == c.completed_at # NoStamp \/ c.created_at = NoStamp \/ c.dead

Tombstone(c) ==
  [c EXCEPT !.status = "cancelled", !.blocker = "none", !.dead = TRUE,
            !.last_activity = now]

MutSnapshotTooLate(c) == [Tombstone(c) EXCEPT !.dead = HasMeta(c)]

(* delete_task hands out dict(target): the copy shares _log_meta with the  *)
(* row, so a row that already has one takes the payload with it when it is *)
(* stamped deleted_at.                                                     *)
Snapshot(c) == [c EXCEPT !.dead = HasMeta(c)]

Delete ==
  /\ Live
  /\ undo' = [by |-> "delete", row |-> Snapshot(card)]
  /\ before' = card /\ undone' = FALSE
  /\ Put(Tombstone(card))
  /\ Counted
  /\ UNCHANGED <<now, refused>>

(* What both restores do to the snapshot.                                  *)
Restored(c) == IF c.status = "done" THEN DropGate(c) ELSE ClearCompletion(DropGate(c))

(* restore_task: raises over a live row, and replaces a tombstone.         *)
Restore ==
  /\ undo.by = "delete" /\ ~Live
  /\ Save("restore", [Restored(undo.row) EXCEPT !.last_activity = now])

(* undo.handle_delete: a physical removal.                                 *)
BoardDelete ==
  /\ Present
  /\ undo' = [by |-> "board", row |-> card]
  /\ before' = card /\ undone' = FALSE
  /\ card' = NoCard /\ since' = NoStamp
  /\ Counted
  /\ UNCHANGED <<now, refused>>

(* undo.handle_restore: appends, unless the id is there again; it answers  *)
(* success all the same.                                                   *)
BoardRestore ==
  /\ undo.by = "board"
  /\ \/ ~Present /\ Save("board_restore", Restored(undo.row))
     \/ /\ Present /\ Counted /\ undone' = TRUE
        /\ UNCHANGED <<card, now, undo, before, since, refused>>

Next ==
  \/ Tick
  \/ \E s \in Status, b \in Blocker : Add(s, b) \/ Upsert(s, b) \/ BoardReopen(s, b)
  \/ \E s \in Status \cup {Untouched}, b \in Blocker \cup {Untouched} : Update(s, b)
  \/ Complete \/ Resolve \/ Reopen \/ Comment
  \/ HelpWait \/ HelpClear
  \/ Delete \/ Restore \/ BoardDelete \/ BoardRestore

Spec == Init /\ [][Next]_vars

-----------------------------------------------------------------------------
Stamp == {NoStamp} \cup Time

Card ==
  [status : Status, blocker : Blocker, created_at : Stamp, deferred_at : Stamp,
   blocked_at : Stamp, cancelled_at : Stamp, completed_at : Stamp,
   last_activity : Time, dead : BOOLEAN]

TypeOK ==
  /\ card \in Card \cup {NoCard} /\ before \in Card \cup {NoCard}
  /\ now \in Time /\ since \in Stamp
  /\ undo.by \in {"nobody", "delete", "board"} /\ undo.row \in Card \cup {NoCard}

(* What the sweeps read (_stale/active_clocks.py): without a stamp, the    *)
(* oldest evidence; a blocked card without any is maximally stale.         *)
DeferredClock(c) ==
  IF c.deferred_at # NoStamp THEN c.deferred_at
  ELSE IF c.created_at # NoStamp /\ c.created_at < c.last_activity THEN c.created_at
  ELSE c.last_activity

BlockedClock(c) == IF c.blocked_at # NoStamp THEN c.blocked_at ELSE c.created_at

(* No verb makes a card look younger in its state than it is: neither a    *)
(* comment, nor a detour, nor an Undo silences the sweep that waits for    *)
(* it.  The exception is a deferred card that upsert_task created and      *)
(* nobody has deferred since: it is aged by its last touch.                *)
AlarmNotSilenced ==
  Live =>
    /\ card.status = "blocked" => BlockedClock(card) <= since
    /\ /\ card.status = "deferred"
       /\ card.created_at # NoStamp \/ card.deferred_at # NoStamp
       => DeferredClock(card) <= since

(* The throughput views never count a live card as delivered that is not   *)
(* done, whatever path took it out of done, deletions included.            *)
CompletionStampOnlyOnDone ==
  Live /\ card.completed_at # NoStamp => card.status = "done"

(* The validator never refuses a verb that chose the status itself: none   *)
(* forgets the gate, from any state, and so none holds up the other cards  *)
(* of its document.                                                        *)
NoVerbTripsTheValidator == refused = {}

(* Completing, resolving or restoring a card again never moves the moment  *)
(* it was delivered or cancelled while it stays so.                        *)
StampsAreFrozen ==
  [][Live /\ card' # NoCard /\ card'.status = card.status =>
       /\ card.completed_at # NoStamp => card'.completed_at = card.completed_at
       /\ card.status = "cancelled" => card'.cancelled_at = card.cancelled_at
                                       \/ card'.dead]_vars

(* The first Undo of the last deletion that answers success brings the     *)
(* card back as it was, also when a verb that does not see the tombstone   *)
(* has written the row since: through restore_task, a card without         *)
(* _log_meta.  The exception is an id that is taken again.  restore_task   *)
(* raises then; the board answers success and restores nothing, but the    *)
(* card that has taken the id stays as it is.                              *)
UndoGivesBack ==
  [][~undone /\ undone' /\ ~before.dead /\ (undo.by = "delete" => ~HasMeta(before)) =>
       IF undo.by = "board" /\ Present THEN card' = card
       ELSE card' = [before EXCEPT !.last_activity = card'.last_activity]]_vars

(* And for any card: until the next deletion, an Undo that answered        *)
(* success has left a live one.                                            *)
RestoredIsLive == undone /\ ~before.dead => Live
=============================================================================
