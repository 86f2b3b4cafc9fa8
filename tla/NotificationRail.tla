-------------------------- MODULE NotificationRail --------------------------
(***************************************************************************)
(* What the notification rail promises, on either store and whatever the   *)
(* number of producers, channel servers and recipients that share it.      *)
(*                                                                         *)
(* A row belongs to a stream, the rows of one subject for one recipient.   *)
(* It is a stack of latches: it is posted, its cursor moves from unseen to *)
(* seen, a push receipt and a confirmation may be stamped on it, and none  *)
(* of that is ever taken back.  The promise is about the order of the      *)
(* latches and about who may move the cursor: a newer row of the stream    *)
(* that is posted in the same instant, one that already waits beside it, a *)
(* push the transport has already taken, or the recipient itself.  What a  *)
(* post that was itself dropped replaced is kept apart as echoed.          *)
(***************************************************************************)
CONSTANTS
  Id,                         \* the ids rows can have
  Stream

VARIABLES
  rows,                       \* the stream of every row posted
  unseen,                     \* rows a drain still has to deliver
  sent,                       \* rows the transport has taken at least once
  owned,                      \* rows the recipient took out of its inbox itself
  echoed,                     \* rows a dropped post replaced
  pushed,                     \* rows with a push receipt
  confirmed                   \* rows with a confirmation by the recipient

vars == <<rows, unseen, sent, owned, echoed, pushed, confirmed>>

Posted == DOMAIN rows

(* A backlog may wait.                                                     *)
Init ==
  /\ Posted \subseteq Id
  /\ rows \in [Posted -> Stream]
  /\ unseen = Posted
  /\ sent = {} /\ owned = {} /\ echoed = {} /\ pushed = {} /\ confirmed = {}

Waiting(stream) == {id \in unseen : rows[id] = stream}

(* A new row; as a snapshot it replaces rows that wait in its stream.      *)
Post(id, stream) ==
  /\ id \notin Posted
  /\ rows' = [i \in Posted \cup {id} |-> IF i = id THEN stream ELSE rows[i]]
  /\ \E replaced \in SUBSET Waiting(stream) :
       unseen' = (unseen \ replaced) \cup {id}
  /\ UNCHANGED <<sent, owned, echoed, pushed, confirmed>>

(* A post that repeats one replaces rows that wait and leaves none.        *)
Echo(stream) ==
  /\ \E replaced \in SUBSET Waiting(stream) :
       /\ unseen' = unseen \ replaced
       /\ echoed' = echoed \cup replaced
  /\ UNCHANGED <<rows, sent, owned, pushed, confirmed>>

(* Rows that wait give way to another that goes on waiting in their stream.*)
Collapse ==
  /\ unseen' \subseteq unseen
  /\ \A id \in unseen : \E kept \in unseen' : rows[kept] = rows[id]
  /\ UNCHANGED <<rows, sent, owned, echoed, pushed, confirmed>>

(* The transport takes a row, again if the first receipt was lost.         *)
Transmit(id) ==
  /\ id \in Posted
  /\ sent' = sent \cup {id}
  /\ UNCHANGED <<rows, unseen, owned, echoed, pushed, confirmed>>

(* The push receipt moves the cursor, and only after the transport.        *)
RecordPush(id) ==
  /\ id \in sent
  /\ unseen' = unseen \ {id}
  /\ pushed' = pushed \cup {id}
  /\ UNCHANGED <<rows, sent, owned, echoed, confirmed>>

(* The recipient takes rows out of its inbox itself.                       *)
TakeOver(ids) ==
  /\ ids \subseteq Posted
  /\ unseen' = unseen \ ids
  /\ owned' = owned \cup ids
  /\ UNCHANGED <<rows, sent, echoed, pushed, confirmed>>

(* A confirmation lands only on rows the recipient took over, and never on *)
(* one that would still be pushed.                                         *)
Confirm(ids) ==
  /\ ids \subseteq owned \ unseen
  /\ confirmed' = confirmed \cup ids
  /\ UNCHANGED <<rows, unseen, sent, owned, echoed, pushed>>

Next ==
  \/ \E id \in Id, stream \in Stream : Post(id, stream)
  \/ \E stream \in Stream : Echo(stream)
  \/ Collapse
  \/ \E id \in Id : Transmit(id) \/ RecordPush(id)
  \/ \E ids \in SUBSET Id : TakeOver(ids) \/ Confirm(ids)

Spec == Init /\ [][Next]_vars
=============================================================================
