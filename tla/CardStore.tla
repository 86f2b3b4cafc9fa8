----------------------------- MODULE CardStore -----------------------------
(***************************************************************************)
(* Writes of one card by several hosts.  A verb reads the card, edits its  *)
(* copy and writes it back: through the whole-document mirror              *)
(* (_db_mirror.mirror_doc_incremental), or, for a comment, through the     *)
(* one-card path (_store_single_card).  The lock around a verb is a file   *)
(* of its host, and a transaction runs READ COMMITTED: what keeps hosts    *)
(* apart is the compare-and-set on the revision, for the verbs that ask.   *)
(*                                                                         *)
(* Inside its transaction a write merges the comment rows it has not heard *)
(* of, deletes the card's comment rows, and inserts card and comments      *)
(* again (_mirror_rows._write_card).  The upsert takes the lock on the     *)
(* card's row and nothing waits after it, so upsert and commit are a step. *)
(***************************************************************************)
EXTENDS Naturals, FiniteSets

CONSTANTS
  Host,
  Kinds,              \* the verbs the calls are drawn from
  CAS_ATTEMPTS,
  MaxCalls,           \* bound: calls, numbered as they start
  NoCard

Call == 1 .. MaxCalls

(* A card as its JSON, and the rows of its comments.                       *)
Json == [body : 0 .. MaxCalls, notes : SUBSET Call, dead : BOOLEAN]
Rows == [note : Call, by : Call]

(* What a verb asks of the write door.                                     *)
Armed == {"comment", "guarded_update", "guarded_delete"}
Creating == {"create", "guarded_create"}
(* Verbs that leave a comment of their own, a tombstone among them.        *)
Noting == {"comment", "delete", "guarded_delete"}

ASSUME CardStoreAssumption ==
  /\ MaxCalls \in Nat /\ CAS_ATTEMPTS \in Nat \ {0}
  /\ NoCard \notin Json /\ NoCard \notin [revision : Nat, json : Json]
  /\ Kinds \subseteq Armed \cup Creating \cup {"update", "delete", "save", "purge"}

VARIABLES
  card,               \* the row of tasks: its revision and its card_json
  rows,               \* task_comments: the comment, and the call that wrote the row
  ledger,             \* the hash ledger: the content it takes for the stored one
  referenced,         \* another card's depends_on names this one
  run,                \* the call each host is in
  calls,              \* calls started
  accepted,           \* history: comments their callers were told are stored
  tombstoned,         \* history: a tombstone was committed
  raced,              \* history: another write landed inside the transaction of
                      \* a write that carries no revision, and that one landed too
  purged              \* history: the row was removed

table == <<card, rows, ledger, referenced>>
history == <<accepted, tombstoned, raced, purged>>
vars == <<table, run, calls, history>>

Fresh(n) == [body |-> n, notes |-> {}, dead |-> FALSE]
Idle == [pc |-> "idle", kind |-> "none", id |-> 0, doc |-> NoCard, seen |-> 0,
         basis |-> NoCard, notes |-> {}, dropped |-> {}, attempt |-> 1,
         scrubs |-> FALSE, overtaken |-> FALSE, lost |-> 0]

Init ==
  /\ card = [revision |-> 0, json |-> Fresh(0)]
  /\ rows = {}
  /\ ledger = Fresh(0)
  /\ referenced = TRUE
  /\ run = [h \in Host |-> Idle]
  /\ calls = 0
  /\ accepted = {} /\ tombstoned = FALSE /\ raced = FALSE /\ purged = FALSE

Absent == card = NoCard
Writing(h) == run[h].pc \in {"drop", "wait", "write"}
Ends(h) == run' = [run EXCEPT ![h] = Idle]

-----------------------------------------------------------------------------
(* Before the transaction.                                                 *)

(* A caller that arms a verb hands over the revision it has seen.          *)
Start(h) ==
  /\ run[h].pc = "idle" /\ calls < MaxCalls
  /\ calls' = calls + 1
  /\ \E k \in Kinds :
       /\ k \in {"guarded_update", "guarded_delete"} => ~Absent
       /\ run' = [run EXCEPT ![h] =
            [Idle EXCEPT !.pc = "read", !.kind = k, !.id = calls + 1,
              !.seen = IF Absent THEN 0 ELSE card.revision,
              !.basis = IF Absent THEN NoCard ELSE card.json]]
  /\ UNCHANGED <<table, history>>

(* The verb's own edit of the card it read.  A comment, the tombstone's    *)
(* too, has an id of its own, and an update stamps last_activity: no two   *)
(* edits leave the same content.  Only a save hands back what it read.     *)
Edited(k, id, json) ==
  CASE k = "comment" -> [json EXCEPT !.notes = @ \cup {id}]
    [] k \in {"update", "guarded_update"} -> [json EXCEPT !.body = id]
    [] k \in {"delete", "guarded_delete"} ->
         [json EXCEPT !.notes = @ \cup {id}, !.dead = TRUE]
    [] k \in {"save", "purge"} -> json

(* _find_live_task, or the duplicate check of add_task: the verb may       *)
(* refuse what it read.                                                    *)
Refuses(k) ==
  IF k \in Creating THEN ~Absent
  ELSE Absent \/ (card.json.dead /\ k \notin {"save", "purge"})

MutRetriesStale(h) ==
  /\ run[h].pc = "read"
  /\ IF Refuses(run[h].kind) THEN Ends(h)
     ELSE LET r == run[h]
              json == IF r.kind \in Creating THEN Fresh(r.id)
                      ELSE Edited(r.kind, r.id, card.json)
          IN  run' = [run EXCEPT ![h].pc = "begin", ![h].doc = json,
                 ![h].scrubs = r.kind \in {"delete", "guarded_delete"} /\ referenced]
  /\ UNCHANGED <<table, calls, history>>

(* read_card_or_raise, or the export of the document.  comment_task arms   *)
(* itself with the revision of this read.                                  *)
Read(h) ==
  /\ run[h].pc = "read"
  /\ IF Refuses(run[h].kind) THEN Ends(h)
     ELSE LET r == run[h]
              json == IF r.kind \in Creating THEN Fresh(r.id)
                      ELSE Edited(r.kind, r.id, card.json)
              own == r.kind = "comment"
          IN  run' = [run EXCEPT ![h].pc = "begin", ![h].doc = json,
                 ![h].scrubs = r.kind \in {"delete", "guarded_delete"} /\ referenced,
                 ![h].seen = IF own THEN card.revision ELSE @,
                 ![h].basis = IF own THEN card.json ELSE @]
  /\ UNCHANGED <<table, calls, history>>

-----------------------------------------------------------------------------
(* The transaction.                                                        *)

(* RevisionConflictError: only comment_task reads again and re-applies.    *)
Conflict(h) ==
  LET r == run[h] IN
  IF r.kind = "comment" /\ r.attempt < CAS_ATTEMPTS
  THEN run' = [run EXCEPT ![h] =
         [Idle EXCEPT !.pc = "read", !.kind = r.kind, !.id = r.id, !.seen = r.seen,
           !.basis = r.basis, !.attempt = r.attempt + 1, !.lost = r.lost]]
  ELSE Ends(h)

(* The diff against the hash ledger.                                       *)
Changed(h) == ledger # run[h].doc

(* The compare-and-set as the transaction sees it now.                     *)
GuardHolds(h) ==
  LET r == run[h] IN
  /\ r.kind \in Armed => ~Absent /\ card.revision = r.seen
  /\ r.kind = "guarded_create" => Absent

(* _merge_unseen_comment_rows: the rows of the table lead.                 *)
MutMergesNothing(h) == run[h].doc.notes

Merged(h) == run[h].doc.notes \cup {r.note : r \in rows}

(* The ledger's diff, the check before the drop, and the merge.            *)
Begin(h) ==
  /\ run[h].pc = "begin"
  /\ CASE run[h].kind = "purge" ->
            run' = [run EXCEPT ![h].pc = "drop"]
       [] run[h].kind \notin {"purge", "comment"} \cup Creating /\ ~Changed(h) ->
            Ends(h)
       [] OTHER ->
            IF GuardHolds(h)
            THEN run' = [run EXCEPT ![h].pc = "drop", ![h].notes = Merged(h)]
            ELSE Conflict(h)
  /\ UNCHANGED <<table, calls, history>>

(* Rows that another open transaction has deleted are locked by it.        *)
Locked(set, h) ==
  \E g \in Host \ {h} : run[g].pc = "write" /\ run[g].dropped \cap set # {}

(* DELETE FROM task_comments: it sees the rows committed when it starts,   *)
(* waits for those that are locked, and never sees the rows that replaced  *)
(* them.                                                                   *)
Drop(h) ==
  /\ run[h].pc = "drop"
  /\ run' = [run EXCEPT ![h].dropped = rows,
               ![h].pc = IF Locked(rows, h) THEN "wait" ELSE "write"]
  /\ UNCHANGED <<table, calls, history>>

DropWaits(h) ==
  /\ run[h].pc = "wait" /\ ~Locked(run[h].dropped, h)
  /\ run' = [run EXCEPT ![h].dropped = @ \cap rows, ![h].pc = "write"]
  /\ UNCHANGED <<table, calls, history>>

(* The others learn that the card moved under them.                        *)
Overtake(h) ==
  [g \in Host |->
    IF g = h THEN Idle
    ELSE IF run[g].pc = "idle" THEN run[g]
    ELSE [run[g] EXCEPT !.overtaken = @ \/ Writing(g),
            !.lost = IF @ < CAS_ATTEMPTS THEN @ + 1 ELSE @]]

MutKeepsRevision(r) == IF r.kind = "update" THEN card.revision ELSE card.revision + 1

(* tasks_bump_revision fires on every UPDATE, whatever the writer knows;   *)
(* an INSERT starts at the default.                                        *)
Bumped(r) == card.revision + 1

MutLedgerOfRefused(h) == ledger' = run[h].doc /\ UNCHANGED <<card, rows, referenced>>
MutKeepsSiblings(h) ==
  /\ referenced' = (referenced /\ ~run[h].scrubs)
  /\ UNCHANGED <<card, rows, ledger>>

(* A refused guard rolls the whole batch back, the scrubbed references of  *)
(* other cards included.                                                   *)
RolledBack(h) == UNCHANGED table

(* The hash a write leaves: the one-card path hashes the merged card, the  *)
(* mirror hashed its document before the merge.                            *)
HashAfter(h) ==
  IF run[h].kind = "comment" THEN [run[h].doc EXCEPT !.notes = run[h].notes]
  ELSE run[h].doc

(* Upsert with its WHERE, comments, references, ledger, commit.            *)
Land(h) ==
  LET r == run[h] IN
  /\ card' = [revision |-> IF Absent THEN 0 ELSE Bumped(r),
              json |-> [r.doc EXCEPT !.notes = r.notes]]
  /\ rows' = (rows \ r.dropped) \cup {[note |-> n, by |-> r.id] : n \in r.notes}
  /\ ledger' = HashAfter(h)
  /\ referenced' = (referenced /\ ~r.scrubs)
  /\ run' = Overtake(h)
  /\ accepted' = IF r.kind \in Noting THEN accepted \cup {r.id} ELSE accepted
  /\ tombstoned' = (tombstoned \/ r.doc.dead)
  /\ raced' = (raced \/ (r.kind \notin Armed \cup {"guarded_create"} /\ r.overtaken))
  /\ UNCHANGED purged

Commit(h) ==
  /\ run[h].pc = "write" /\ run[h].kind # "purge"
  /\ \/ GuardHolds(h) /\ Land(h)
     \/ ~GuardHolds(h) /\ Conflict(h) /\ RolledBack(h) /\ UNCHANGED history
  /\ UNCHANGED calls

(* _delete_card, for a board delete: the cascade takes what rows are left. *)
Purge(h) ==
  /\ run[h].pc = "write" /\ run[h].kind = "purge"
  /\ ~Locked(rows, h)
  /\ card' = NoCard /\ rows' = {} /\ ledger' = NoCard
  /\ referenced' = FALSE
  /\ run' = Overtake(h)
  /\ purged' = TRUE
  /\ UNCHANGED <<calls, accepted, tombstoned, raced>>

(* The process dies, or the connection: nothing of the transaction stays.  *)
Dies(h) ==
  /\ run[h].pc # "idle"
  /\ Ends(h)
  /\ UNCHANGED <<table, calls, history>>

Step(h) == Read(h) \/ Begin(h) \/ Drop(h) \/ DropWaits(h) \/ Commit(h) \/ Purge(h)

Next == \E h \in Host : Start(h) \/ Step(h) \/ Dies(h)

Spec == Init /\ [][Next]_vars

-----------------------------------------------------------------------------
TypeOK ==
  /\ card \in [revision : Nat, json : Json] \cup {NoCard}
  /\ rows \subseteq Rows
  /\ ledger \in Json \cup {NoCard}
  /\ referenced \in BOOLEAN /\ accepted \subseteq Call
  /\ \A h \in Host :
       /\ run[h].pc \in {"idle", "read", "begin", "drop", "wait", "write"}
       /\ run[h].attempt \in 1 .. CAS_ATTEMPTS
       /\ run[h].dropped \subseteq Rows
       /\ run[h].doc = NoCard => run[h].pc \in {"idle", "read"}

(* Until an unarmed write is overtaken inside its transaction, an accepted *)
(* comment keeps exactly one row and stands in the card, however stale the *)
(* documents are that are written over it.                                 *)
(* (_merge_unseen_comment_rows: the table leads, and the doc only adds)    *)
CommentsSurvive ==
  ~raced /\ ~purged =>
    /\ accepted \subseteq card.json.notes
    /\ {r.note : r \in rows} = card.json.notes
    /\ \A r, s \in rows : r.note = s.note => r = s

(* An armed write replaces the very version its caller has seen, whatever  *)
(* the unarmed ones did to the card in between; a removed row, whose       *)
(* revisions start over, is the exception.  (WHERE tasks.revision = ?)     *)
Seen(h) == ~Absent /\ card.json = run[h].basis
ArmedReplacesWhatItSaw ==
  [][\A h \in Host :
       Commit(h) /\ card' # card /\ run[h].kind \in Armed => purged \/ Seen(h)]_vars

(* Other cards lose their reference only together with the card.           *)
(* (delete_task: a refused fence rolls the whole batch back)               *)
ReferencesGoWithTheCard == referenced \/ tombstoned \/ purged

(* A document that hashes like the ledger's entry is not written, and its  *)
(* save answers success: all the ledger stands for is in the card, however *)
(* writes were refused, merged or overtaken; it may lack comments that a   *)
(* write merged, never claim one, nor an edit, that the card has not.      *)
(* (mirror_doc_incremental: hashes are recorded for cards written)         *)
LedgerClaimsNoMore ==
  IF Absent THEN ledger = NoCard
  ELSE /\ ledger # NoCard
       /\ ledger.body = card.json.body /\ ledger.dead = card.json.dead
       /\ ledger.notes \subseteq card.json.notes

(* comment_task gives up only when as many other writes landed during the  *)
(* call as it has attempts: it reads again before each of them.            *)
GivesUpForAReason ==
  [][\A h \in Host :
       /\ run[h].kind = "comment" /\ (Begin(h) \/ Commit(h))
       /\ run'[h].pc = "idle" /\ run[h].id \notin accepted'
       => run[h].lost = CAS_ATTEMPTS]_vars
=============================================================================
