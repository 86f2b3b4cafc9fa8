----------------------------- MODULE DmExchange -----------------------------
(***************************************************************************)
(* One DM across three stores: the message (dm_messages), the notification *)
(* of its recipient (notifications) and the status of its delivery in the  *)
(* ledger that scitex_dev keeps (_dm/exchange.py).  persist_dm writes them *)
(* in three transactions; a sender whose call ended in doubt calls again   *)
(* with its client_request_id.  A poll of the inbox replaces the exchange  *)
(* of an unconfirmed notification whose delivery failed for good, in one   *)
(* transaction that holds the notification's row.                          *)
(*                                                                         *)
(* One recipient: inboxes do not touch each other.  An attempt mints one   *)
(* exchange id and one message id, so the exchange a message was sent with *)
(* stands for the message too.  The cursor is left out: what is unconfirmed*)
(* is on the page or among the outstanding records beside it.              *)
(***************************************************************************)
EXTENDS Integers

CONSTANTS
  Key,              \* client_request_id values of one sender
  Letter,           \* what is sent: recipient and body
  Caller,           \* processes in persist_dm
  Poller,           \* processes in poll_notifications for the recipient
  Registered,       \* has the recipient a user id beside its name?
  MayFail,          \* do statements fail and processes die?
  MaxExchange       \* bound: exchange ids minted

Exchange == 1 .. MaxExchange

\* The keys an inbox row can live under.
Address == {"name", "id"}

ASSUME FlagAssumption == Registered \in BOOLEAN /\ MayFail \in BOOLEAN
ASSUME BoundAssumption == MaxExchange \in Nat

VARIABLES
  minted,           \* exchange ids minted so far
  messages,         \* dm_messages rows
  notifs,           \* notifications, by the exchange the message was sent with
  confirmed,        \* those with confirmed_at set
  ledger,           \* status_exchanges: the status of each exchange
  call,             \* each caller's persist_dm
  poll,             \* each poller's poll_notifications
  handed            \* history: <<notification, exchange>> a poll returned

vars == <<minted, messages, notifs, confirmed, ledger, call, poll, handed>>

\* 202 and 102 are not final; 4xx and 5xx are final and not ok.
Status == {"open", "failed", "delivered"}

Message == [key : Key, letter : Letter, sent : Exchange]

Notification == [owner : Address, exchange : Exchange]

\* sent is the exchange of the attempt, and of the message in a replay.
Call == [at : {"append", "enqueue", "record", "fail", "ledger", "notification",
               "accepted", "raised", "refused"},
         key : Key, letter : Letter, sent : Exchange]

\* rows are still to be looked at; got is what the poll will return; row is
\* locked, with the exchange it had then.
Poll == [at : {"rows", "locked", "absent", "mismatch", "conflict"},
         rows : SUBSET Exchange, got : SUBSET (Exchange \X Exchange),
         row : Exchange \cup {0}, old : Exchange \cup {0}]

Idle == [at |-> "idle"]

\* Types; a notification has its message, a confirmation its notification.
TypeOK ==
  /\ minted \in 0 .. MaxExchange
  /\ messages \subseteq Message
  /\ DOMAIN notifs \subseteq {m.sent : m \in messages}
  /\ notifs \in [DOMAIN notifs -> Notification]
  /\ confirmed \subseteq DOMAIN notifs
  /\ DOMAIN ledger \subseteq 1 .. minted
  /\ ledger \in [DOMAIN ledger -> Status]
  /\ call \in [Caller -> Call \cup {Idle}]
  /\ poll \in [Poller -> Poll \cup {Idle}]
  /\ handed \subseteq Exchange \X Exchange

Empty == [x \in {} |-> 0]

Init ==
  /\ minted = 0
  /\ messages = {} /\ notifs = Empty /\ confirmed = {} /\ ledger = Empty
  /\ call = [c \in Caller |-> Idle]
  /\ poll = [p \in Poller |-> Idle]
  /\ handed = {}

\* f with v at x.
With(f, x, v) == [y \in DOMAIN f \cup {x} |-> IF y = x THEN v ELSE f[y]]

Goto(c, at) == call' = [call EXCEPT ![c].at = at]

-----------------------------------------------------------------------------
\* persist_dm.

\* The ledger is open.  A call may be the retry of another that died, raised,
\* returned, or is still on its way.
CallStart(c, k, l) ==
  /\ call[c].at \in {"idle", "accepted", "raised", "refused"}
  /\ minted < MaxExchange
  /\ minted' = minted + 1
  /\ call' = [call EXCEPT ![c] = [at |-> "append", key |-> k, letter |-> l,
                                  sent |-> minted + 1]]
  /\ UNCHANGED <<messages, notifs, confirmed, ledger, poll, handed>>

Holding(k) == {m \in messages : m.key = k}

New(c) == [key |-> call[c].key, letter |-> call[c].letter, sent |-> call[c].sent]

\* append_message up to the commit of the message.  The key of another letter
\* is refused; that of this one is a replay.
Append(c) ==
  /\ call[c].at = "append"
  /\ \/ /\ Holding(call[c].key) = {}
        /\ messages' = messages \cup {New(c)}
        /\ Goto(c, "enqueue")
     \/ \E m \in Holding(call[c].key) :
          /\ IF m.letter = call[c].letter
             THEN call' = [call EXCEPT ![c].at = "ledger", ![c].sent = m.sent]
             ELSE Goto(c, "fail")
          /\ UNCHANGED messages
  /\ UNCHANGED <<minted, notifs, confirmed, ledger, poll, handed>>

\* It raises, and the sender cannot tell whether the commit went through.
AppendRaises(c) ==
  /\ MayFail
  /\ call[c].at = "append"
  /\ messages' \in {messages, IF Holding(call[c].key) = {}
                              THEN messages \cup {New(c)} ELSE messages}
  /\ Goto(c, "fail")
  /\ UNCHANGED <<minted, notifs, confirmed, ledger, poll, handed>>

\* dispatch_to_inbox: the user id, or the name where it does not resolve.
Addressed == IF Registered
             THEN {"id"} \cup (IF MayFail THEN {"name"} ELSE {})
             ELSE {"name"}

WithNotification(c, owner) ==
  With(notifs, call[c].sent, [owner |-> owner, exchange |-> call[c].sent])

Enqueue(c) ==
  /\ call[c].at = "enqueue"
  /\ \E owner \in Addressed : notifs' = WithNotification(c, owner)
  /\ Goto(c, "record")
  /\ UNCHANGED <<minted, messages, confirmed, ledger, poll, handed>>

\* Mutant: the handoff is fail-soft, as it is for messages without exchange.
MutEnqueueRaises(c) ==
  /\ MayFail
  /\ call[c].at = "enqueue"
  /\ Goto(c, "record")
  /\ UNCHANGED <<minted, messages, notifs, confirmed, ledger, poll, handed>>

EnqueueRaises(c) ==
  /\ MayFail
  /\ call[c].at = "enqueue"
  /\ \/ UNCHANGED notifs
     \/ \E owner \in Addressed : notifs' = WithNotification(c, owner)
  /\ Goto(c, "fail")
  /\ UNCHANGED <<minted, messages, confirmed, ledger, poll, handed>>

\* record_exchange with the accepted status; it too may raise either way.
Record(c) ==
  /\ call[c].at = "record"
  /\ ledger' = With(ledger, call[c].sent, "open")
  /\ Goto(c, "accepted")
  /\ UNCHANGED <<minted, messages, notifs, confirmed, poll, handed>>

RecordRaises(c) ==
  /\ MayFail
  /\ call[c].at = "record"
  /\ ledger' \in {ledger, With(ledger, call[c].sent, "open")}
  /\ Goto(c, "raised")
  /\ UNCHANGED <<minted, messages, notifs, confirmed, poll, handed>>

\* _record_failure, whose own failure is swallowed.
RecordFailure(c) ==
  /\ call[c].at = "fail"
  /\ ledger' \in {With(ledger, call[c].sent, "failed")}
                 \cup (IF MayFail THEN {ledger} ELSE {})
  /\ Goto(c, "raised")
  /\ UNCHANGED <<minted, messages, notifs, confirmed, poll, handed>>

\* A replay answers with what the first attempt wrote, or raises.
ReplayLedger(c) ==
  /\ call[c].at = "ledger"
  /\ Goto(c, IF call[c].sent \in DOMAIN ledger THEN "notification" ELSE "refused")
  /\ UNCHANGED <<minted, messages, notifs, confirmed, ledger, poll, handed>>

\* notification_for_exchange
ForExchange(x) == {n \in DOMAIN notifs : notifs[n].exchange = x}

ReplayNotification(c) ==
  /\ call[c].at = "notification"
  /\ Goto(c, IF ForExchange(call[c].sent) = {} THEN "refused" ELSE "accepted")
  /\ UNCHANGED <<minted, messages, notifs, confirmed, ledger, poll, handed>>

CallDies(c) ==
  /\ MayFail
  /\ call[c].at \in {"append", "enqueue", "record", "fail", "ledger",
                     "notification"}
  /\ call' = [call EXCEPT ![c] = Idle]
  /\ UNCHANGED <<minted, messages, notifs, confirmed, ledger, poll, handed>>

-----------------------------------------------------------------------------
\* poll_notifications and rotate_failed_notification_exchange.

PollStart(p) ==
  /\ poll[p].at \in {"idle", "absent", "mismatch", "conflict"}
  /\ poll' = [poll EXCEPT ![p] = [at |-> "rows", got |-> {}, row |-> 0, old |-> 0,
                                  rows |-> DOMAIN notifs \ confirmed]]
  /\ UNCHANGED <<minted, messages, notifs, confirmed, ledger, call, handed>>

RowFree(n) == \A p \in Poller : poll[p].at = "locked" => poll[p].row # n

\* Mutant: only a success is left alone, a status that is not final is not.
MutReplaceable(x) == ledger[x] # "delivered"

\* Final and not ok.
Replaceable(x) == ledger[x] = "failed"

\* The checks under the row's lock.  The key the row was found under must be
\* its recipient, and the recipient the sender named must be that key: the
\* responder in the ledger is the name.  What raises fails the whole poll.
RotateLock(p) ==
  /\ poll[p].at = "rows"
  /\ \E n \in poll[p].rows :
       LET x == notifs[n].exchange IN
       /\ RowFree(n)
       /\ \/ /\ x \notin DOMAIN ledger
             /\ poll' = [poll EXCEPT ![p].at = "absent"]
          \/ /\ x \in DOMAIN ledger
             /\ notifs[n].owner # "name"
             /\ poll' = [poll EXCEPT ![p].at = "mismatch"]
          \/ /\ x \in DOMAIN ledger
             /\ notifs[n].owner = "name"
             /\ IF Replaceable(x)
                THEN poll' = [poll EXCEPT ![p].at = "locked", ![p].row = n,
                                          ![p].old = x]
                ELSE poll' = [poll EXCEPT ![p].rows = @ \ {n},
                                          ![p].got = @ \cup {<<n, x>>}]
  /\ UNCHANGED <<minted, messages, notifs, confirmed, ledger, call, handed>>

\* Mutant: the successor is published and the notification keeps its exchange.
MutRotateCommit(p) ==
  /\ poll[p].at = "locked"
  /\ minted < MaxExchange
  /\ minted' = minted + 1
  /\ ledger' = With(ledger, minted', "open")
  /\ poll' = [poll EXCEPT ![p].at = "rows", ![p].rows = @ \ {poll[p].row},
                          ![p].got = @ \cup {<<poll[p].row, minted + 1>>}]
  /\ UNCHANGED <<messages, notifs, confirmed, call, handed>>

\* The successor and the notification that points at it, in one commit.  An
\* UPDATE that finds another exchange raises and rolls both back.
RotateCommit(p) ==
  LET n == poll[p].row
      successor == minted + 1
  IN
  /\ poll[p].at = "locked"
  /\ minted < MaxExchange
  /\ minted' = successor
  /\ IF notifs[n].exchange = poll[p].old
     THEN /\ ledger' = With(ledger, successor, "open")
          /\ notifs' = [notifs EXCEPT ![n].exchange = successor]
          /\ poll' = [poll EXCEPT ![p].at = "rows", ![p].rows = @ \ {n},
                                  ![p].got = @ \cup {<<n, successor>>}]
     ELSE /\ poll' = [poll EXCEPT ![p].at = "conflict"]
          /\ UNCHANGED <<ledger, notifs>>
  /\ UNCHANGED <<messages, confirmed, call, handed>>

\* The poll returns what it got.
PollReturn(p) ==
  /\ poll[p].at = "rows"
  /\ poll[p].rows = {}
  /\ handed' = handed \cup poll[p].got
  /\ poll' = [poll EXCEPT ![p] = Idle]
  /\ UNCHANGED <<minted, messages, notifs, confirmed, ledger, call>>

\* A failed statement or the death of the process releases the row.
PollDies(p) ==
  /\ MayFail
  /\ poll[p].at \in {"rows", "locked"}
  /\ poll' = [poll EXCEPT ![p] = Idle]
  /\ UNCHANGED <<minted, messages, notifs, confirmed, ledger, call, handed>>

-----------------------------------------------------------------------------
\* The recipient.

\* ack_notifications waits for the row's lock.
Confirm(n) ==
  /\ n \in DOMAIN notifs
  /\ RowFree(n)
  /\ confirmed' = confirmed \cup {n}
  /\ UNCHANGED <<minted, messages, notifs, ledger, call, poll, handed>>

\* The consumer ends an exchange it was handed.  What is final stays.
Conclude(x) ==
  /\ x \in {h[2] : h \in handed}
  /\ x \in DOMAIN ledger
  /\ ledger[x] = "open"
  /\ \E s \in {"failed", "delivered"} : ledger' = [ledger EXCEPT ![x] = s]
  /\ UNCHANGED <<minted, messages, notifs, confirmed, call, poll, handed>>

Next ==
  \/ \E c \in Caller :
       \/ \E k \in Key, l \in Letter : CallStart(c, k, l)
       \/ Append(c) \/ AppendRaises(c)
       \/ Enqueue(c) \/ EnqueueRaises(c)
       \/ Record(c) \/ RecordRaises(c) \/ RecordFailure(c)
       \/ ReplayLedger(c) \/ ReplayNotification(c) \/ CallDies(c)
  \/ \E p \in Poller :
       \/ PollStart(p) \/ RotateLock(p) \/ RotateCommit(p)
       \/ PollReturn(p) \/ PollDies(p)
  \/ \E x \in Exchange : Confirm(x) \/ Conclude(x)

Spec == Init /\ [][Next]_vars

-----------------------------------------------------------------------------
\* A call that returned, first or again, leaves nothing to be written: its
\* message, the notification and the exchange are there (accepted_status:
\* "DM and its recipient notification persisted").
AcceptedIsDurable ==
  \A c \in Caller : call[c].at = "accepted" =>
    /\ call[c].sent \in DOMAIN notifs
    /\ call[c].sent \in DOMAIN ledger
    /\ \E m \in messages : /\ m.sent = call[c].sent
                           /\ m.key = call[c].key /\ m.letter = call[c].letter

\* An exchange that waits for its outcome is the one a single notification
\* points at: neither crashes, retries nor racing polls leave one that no
\* consumer will ever be handed (rotate_failed_notification_exchange: "no crash
\* window between publishing the successor and pointing delivery at it").
NoOrphanExchange ==
  \A x \in DOMAIN ledger :
    ledger[x] = "open" => \E n \in Exchange : ForExchange(x) = {n}

\* What pollers were handed for one notification differs only by exchanges
\* that have failed: they "converge on one new id".
PollersConverge ==
  \A h \in handed :
    /\ h[2] \in DOMAIN ledger
    /\ h[2] = notifs[h[1]].exchange \/ ledger[h[2]] = "failed"

\* No poll finds the exchange changed under its lock (the RuntimeError
\* "notification exchange changed despite its FOR UPDATE lock").
LockHolds == \A p \in Poller : poll[p].at # "conflict"

\* A retry is only refused when the first attempt did not write everything:
\* it "returns the original message, notification, and responder-issued
\* exchange ids" (dm_send).
CompleteRetryReturns ==
  [][\A c \in Caller :
       call[c].at # "refused" /\ call'[c].at = "refused" =>
         call[c].sent \notin DOMAIN notifs \/ call[c].sent \notin DOMAIN ledger]_vars

\* A poll raises for a notification whose exchange the ledger does not hold
\* only while its sender is still on the way to write it, so that what is not
\* confirmed "comes back on the next poll" (poll_notifications).
OnlySendsInFlightRaise ==
  [][\A p \in Poller :
       poll[p].at = "rows" /\ poll'[p].at = "absent" =>
         \E c \in Caller : call[c].at \in {"record", "fail"}]_vars

\* A poll by the recipient never takes a row of its own inbox for another's:
\* "every poller observes the same successor exchange" (poll_notifications).
OwnRowsMatch == \A p \in Poller : poll[p].at # "mismatch"

\* What the recipient has confirmed keeps its exchange: polling "must not
\* create fresh work for it" (test__dm_send.py).
ConfirmedKeepsExchange ==
  [][\A n \in confirmed : notifs'[n].exchange = notifs[n].exchange]_vars
=============================================================================
