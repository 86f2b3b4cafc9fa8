-------------------------- MODULE DmExchangeProofs --------------------------
(***************************************************************************)
(* Proofs about DmExchange, for any senders, pollers, keys, letters and    *)
(* any number of exchanges, whether or not statements fail and processes   *)
(* die.  The argument: an exchange belongs to the attempt or the rotation  *)
(* that minted it until it is in the ledger, and a poll that holds a row   *)
(* holds the exchange it read there.                                       *)
(***************************************************************************)
EXTENDS DmExchange, TLAPS

Under(c) == call[c].at # "idle"

\* Calls whose exchange is their own attempt's and not in the ledger yet.
Owns(c) == call[c].at \in {"append", "enqueue", "record", "fail"}

Written(c) == \E m \in messages : /\ m.sent = call[c].sent
                                  /\ m.key = call[c].key /\ m.letter = call[c].letter

\* What was handed out is current or has failed.
Right(h) ==
  /\ h[1] \in DOMAIN notifs /\ h[2] \in DOMAIN ledger
  /\ h[2] = notifs[h[1]].exchange \/ ledger[h[2]] = "failed"

\* Nothing is numbered past the last exchange minted.
Numbered ==
  /\ \A m \in messages : m.sent <= minted
  /\ \A c \in Caller : Under(c) => call[c].sent <= minted
  /\ \A n \in DOMAIN notifs : notifs[n].exchange <= minted

\* An exchange belongs to one attempt, and one notification points at it: the
\* one of its message, unless a rotation minted it.
Apart ==
  /\ \A c, d \in Caller : c # d /\ Owns(c) /\ Owns(d) => call[c].sent # call[d].sent
  /\ \A c \in Caller : Owns(c) => call[c].sent \notin DOMAIN ledger
  /\ \A n, o \in DOMAIN notifs : notifs[n].exchange = notifs[o].exchange => n = o
  /\ \A n \in DOMAIN notifs, m \in messages :
       notifs[n].exchange = m.sent => n = m.sent
  /\ \A n \in DOMAIN notifs, c \in Caller :
       Owns(c) /\ notifs[n].exchange = call[c].sent => n = call[c].sent

\* What a call that has come this far has written.
Progress(c) ==
  /\ call[c].at \in {"enqueue", "record", "ledger", "notification", "accepted"} => Written(c)
  /\ call[c].at \in {"append", "enqueue"} => call[c].sent \notin DOMAIN notifs
  /\ call[c].at = "record" => /\ call[c].sent \in DOMAIN notifs
                              /\ notifs[call[c].sent].exchange = call[c].sent
  /\ call[c].at \in {"notification", "accepted"} => call[c].sent \in DOMAIN ledger
  /\ call[c].at = "accepted" => call[c].sent \in DOMAIN notifs

\* A locked row keeps its failed exchange.
Holds(p) ==
  poll[p].at = "locked" =>
    /\ poll[p].row \in DOMAIN notifs /\ poll[p].old \in DOMAIN ledger
    /\ notifs[poll[p].row].exchange = poll[p].old /\ ledger[poll[p].old] = "failed"

Polling(p) ==
  /\ poll[p].at # "conflict"
  /\ poll[p].at \in {"rows", "locked"} =>
       poll[p].rows \subseteq DOMAIN notifs /\ \A h \in poll[p].got : Right(h)
  /\ Holds(p)

OneHolder ==
  \A p, q \in Poller :
    p # q /\ poll[p].at = "locked" /\ poll[q].at = "locked" => poll[p].row # poll[q].row

Waiting ==
  \A x \in DOMAIN ledger :
    ledger[x] = "open" => \E n \in DOMAIN notifs : notifs[n].exchange = x

IInv ==
  /\ TypeOK /\ Numbered /\ Apart /\ OneHolder /\ Waiting
  /\ \A c \in Caller : Progress(c)
  /\ \A p \in Poller : Polling(p)
  /\ \A h \in handed : Right(h)

-----------------------------------------------------------------------------
\* Steps of records.

Stages == {"append", "enqueue", "record", "fail", "ledger", "notification",
           "accepted", "raised", "refused"}

CallType == call \in [Caller -> Call \cup {Idle}]

LEMMA UnderIsCall ==
  ASSUME CallType, NEW c \in Caller
  PROVE  /\ Under(c) => call[c] \in Call
         /\ ~Under(c) => call[c] = Idle
         /\ call[c].at \in Stages => Under(c)
BY DEF CallType, Under, Call, Idle, Stages

\* A call that moves on keeps its request and its attempt.
LEMMA MovesOn ==
  ASSUME CallType, NEW c \in Caller, Under(c), NEW a \in Stages,
         NEW x \in Exchange,
         call' = [call EXCEPT ![c].at = a, ![c].sent = x]
  PROVE  /\ CallType'
         /\ call'[c].at = a /\ call'[c].sent = x
         /\ call'[c].key = call[c].key /\ call'[c].letter = call[c].letter
         /\ \A d \in Caller : d # c => call'[d] = call[d]
<1>1. call[c] \in Call
  BY UnderIsCall
<1>2. [call[c] EXCEPT !.at = a, !.sent = x] \in Call
  BY <1>1 DEF Call, Stages
<1>3. call' = [call EXCEPT ![c] = [call[c] EXCEPT !.at = a, !.sent = x]]
  BY <1>1 DEF CallType
<1>4. QED
  BY <1>1, <1>2, <1>3 DEF CallType, Call

LEMMA Goes ==
  ASSUME CallType, NEW c \in Caller, Under(c), NEW a \in Stages, Goto(c, a)
  PROVE  /\ CallType'
         /\ call'[c].at = a /\ call'[c].sent = call[c].sent
         /\ call'[c].key = call[c].key /\ call'[c].letter = call[c].letter
         /\ \A d \in Caller : d # c => call'[d] = call[d]
<1>1. call[c] \in Call
  BY UnderIsCall
<1>2. [call[c] EXCEPT !.at = a] \in Call
  BY <1>1 DEF Call, Stages
<1>3. call' = [call EXCEPT ![c] = [call[c] EXCEPT !.at = a]]
  BY <1>1 DEF CallType, Goto
<1>4. QED
  BY <1>1, <1>2, <1>3 DEF CallType, Call

LEMMA WithIsAt ==
  ASSUME NEW f, NEW x, NEW v
  PROVE  /\ DOMAIN With(f, x, v) = DOMAIN f \cup {x}
         /\ With(f, x, v)[x] = v
         /\ \A y \in DOMAIN f : y # x => With(f, x, v)[y] = f[y]
BY DEF With

\* What pollers know survives a step that adds notifications, exchanges and
\* outcomes.
Grows ==
  /\ DOMAIN notifs \subseteq DOMAIN notifs'
  /\ \A n \in DOMAIN notifs : notifs'[n] = notifs[n]
  /\ DOMAIN ledger \subseteq DOMAIN ledger'
  /\ \A x \in DOMAIN ledger : ledger[x] = "failed" => ledger'[x] = "failed"

PollInv ==
  /\ OneHolder /\ \A p \in Poller : Polling(p)
  /\ \A h \in handed : Right(h)

LEMMA PollersUnmoved ==
  ASSUME PollInv, Grows, UNCHANGED <<poll, handed>>
  PROVE  PollInv'
<1>1. \A h : Right(h) => Right(h)'
  BY DEF Grows, Right
<1>2. \A p \in Poller : Polling(p)'
  BY <1>1 DEF PollInv, Polling, Holds, Grows
<1>3. QED
  BY <1>1, <1>2 DEF PollInv, OneHolder

CallInv == Numbered /\ Apart /\ Waiting /\ \A c \in Caller : Progress(c)

LEMMA IInvParts ==
  IInv <=> TypeOK /\ CallInv /\ PollInv
BY DEF IInv, CallInv, PollInv
-----------------------------------------------------------------------------
\* Steps of the callers.

\* A call that moves on and gives nothing to own disturbs no one.
LEMMA Moves ==
  ASSUME IInv, NEW c \in Caller, CallType', Progress(c)',
         Owns(c)' => Owns(c) /\ call'[c].sent = call[c].sent,
         Under(c)' => call'[c].sent <= minted,
         \A d \in Caller : d # c => call'[d] = call[d],
         UNCHANGED <<minted, messages, notifs, confirmed, ledger, poll, handed>>
  PROVE  IInv'
<1>1. TypeOK'
  BY DEF IInv, TypeOK, CallType
<1>2. PollInv'
  BY PollersUnmoved, IInvParts DEF Grows
<1>3. Numbered'
  BY DEF IInv, Numbered, Under
<1>4. Apart'
  BY DEF IInv, Apart, Owns
<1>5. Waiting'
  BY DEF IInv, Waiting
<1>6. \A d \in Caller : Progress(d)'
  BY DEF IInv, Progress, Written
<1>7. CallInv'
  BY <1>3, <1>4, <1>5, <1>6 DEF CallInv
<1>8. QED
  BY <1>1, <1>2, <1>7, IInvParts DEF TypeOK, Numbered, Apart, Waiting, CallInv, PollInv, IInv

LEMMA StartStep ==
  ASSUME IInv, NEW c \in Caller, NEW k \in Key, NEW l \in Letter, CallStart(c, k, l)
  PROVE  IInv'
<1> DEFINE r == [at |-> "append", key |-> k, letter |-> l, sent |-> minted + 1]
<1>1. /\ minted' = minted + 1 /\ minted \in 0 .. MaxExchange /\ minted < MaxExchange
      /\ MaxExchange \in Nat /\ call \in [Caller -> Call \cup {Idle}]
      /\ call' = [call EXCEPT ![c] = r]
      /\ UNCHANGED <<messages, notifs, confirmed, ledger, poll, handed>>
  BY BoundAssumption DEF CallStart, IInv, TypeOK
<1>2. minted + 1 \in Exchange /\ minted' \in 0 .. MaxExchange
  BY <1>1 DEF Exchange
<1>3. r \in Call
  BY <1>2 DEF Call
<1>4. /\ CallType' /\ call'[c] = r
      /\ \A d \in Caller : d # c => call'[d] = call[d]
  BY <1>1, <1>3 DEF CallType
<1>5. /\ \A m \in messages : m.sent \in Int /\ m.sent <= minted
      /\ DOMAIN notifs \subseteq {m.sent : m \in messages}
      /\ DOMAIN ledger \subseteq 1 .. minted
      /\ \A n \in DOMAIN notifs : notifs[n].exchange \in Int /\ notifs[n].exchange <= minted
      /\ \A d \in Caller : Under(d) => call[d].sent \in Int /\ call[d].sent <= minted
  <2>1. \A d \in Caller : Under(d) => call[d].sent \in Exchange
    BY <1>1, UnderIsCall DEF Call, CallType
  <2>2. QED
    BY <2>1 DEF IInv, TypeOK, Numbered, Message, Notification, Exchange
<1>6. TypeOK'
  BY <1>1, <1>2, <1>4, <1>5 DEF IInv, TypeOK, CallType
<1>7. PollInv'
  BY <1>1, PollersUnmoved, IInvParts DEF Grows
<1>8. Numbered'
  BY <1>1, <1>4, <1>5 DEF Numbered, Under
<1>9. Apart'
  <2>1. /\ minted + 1 \notin DOMAIN ledger
        /\ \A d \in Caller : Owns(d) => call[d].sent # minted + 1
        /\ \A n \in DOMAIN notifs : notifs[n].exchange # minted + 1
    BY <1>1, <1>5 DEF Owns, Under
  <2>2. QED
    BY <1>1, <1>4, <2>1 DEF IInv, Apart, Owns
<1>10. Waiting'
  BY <1>1 DEF IInv, Waiting
<1>11. \A d \in Caller : Progress(d)'
  <2>1. minted + 1 \notin DOMAIN notifs
    BY <1>1, <1>5
  <2>2. QED
    BY <1>1, <1>4, <2>1 DEF IInv, Progress, Written
<1>12. QED
  BY <1>6, <1>7, <1>8, <1>9, <1>10, <1>11, IInvParts DEF IInv, PollInv

\* The message of an attempt gets in.
LEMMA MessageStep ==
  ASSUME IInv, NEW c \in Caller, call[c].at = "append", NEW a \in {"enqueue", "fail"},
         messages' = messages \cup {New(c)}, Goto(c, a),
         UNCHANGED <<minted, notifs, confirmed, ledger, poll, handed>>
  PROVE  IInv'
<1>1. CallType /\ Under(c)
  BY DEF IInv, TypeOK, CallType, Under
<1>2. call[c] \in Call
  BY <1>1, UnderIsCall
<1>3. New(c) \in Message /\ New(c).sent = call[c].sent /\ New(c).key = call[c].key
      /\ New(c).letter = call[c].letter
  BY <1>2 DEF New, Message, Call
<1>4. /\ CallType'
      /\ call'[c].at = a /\ call'[c].sent = call[c].sent
      /\ call'[c].key = call[c].key /\ call'[c].letter = call[c].letter
      /\ \A d \in Caller : d # c => call'[d] = call[d]
  BY <1>1, Goes DEF Stages
<1>5. TypeOK'
  BY <1>3, <1>4 DEF IInv, TypeOK, CallType
<1>6. PollInv'
  BY PollersUnmoved, IInvParts DEF Grows
<1>7. Numbered'
  BY <1>1, <1>3, <1>4 DEF IInv, Numbered, Under
<1>8. Apart'
  BY <1>3, <1>4 DEF IInv, Apart, Owns
<1>9. Waiting'
  BY DEF IInv, Waiting
<1>10. \A d \in Caller : Progress(d)'
  <2>1. Progress(c)'
    BY <1>3, <1>4 DEF IInv, Progress, Written
  <2>2. QED
    BY <1>4, <2>1 DEF IInv, Progress, Written
<1>11. QED
  BY <1>5, <1>6, <1>7, <1>8, <1>9, <1>10, IInvParts DEF IInv, PollInv

LEMMA AppendStep ==
  ASSUME IInv, NEW c \in Caller, Append(c)
  PROVE  IInv'
<1>1. CallType /\ Under(c) /\ call[c].at = "append"
  BY DEF IInv, TypeOK, CallType, Under, Append
<1>2. CASE messages' = messages \cup {New(c)} /\ Goto(c, "enqueue")
  BY <1>1, <1>2, MessageStep DEF Append
<1>3. ASSUME NEW m \in Holding(call[c].key), m.letter = call[c].letter,
             call' = [call EXCEPT ![c].at = "ledger", ![c].sent = m.sent],
             UNCHANGED messages
      PROVE  IInv'
  <2>1. m \in messages /\ m.key = call[c].key /\ m.sent \in Exchange /\ m.sent <= minted
    BY <1>3 DEF Holding, IInv, TypeOK, Message, Numbered
  <2>2. /\ CallType'
        /\ call'[c].at = "ledger" /\ call'[c].sent = m.sent
        /\ call'[c].key = call[c].key /\ call'[c].letter = call[c].letter
        /\ \A d \in Caller : d # c => call'[d] = call[d]
    BY <1>1, <1>3, <2>1, MovesOn DEF Stages
  <2>3. Progress(c)'
    BY <1>3, <2>1, <2>2 DEF Progress, Written
  <2>4. ~Owns(c)'
    BY <2>2 DEF Owns
  <2>5. QED
    BY <1>3, <2>1, <2>2, <2>3, <2>4, Moves DEF Append
<1>4. CASE Goto(c, "fail") /\ UNCHANGED messages
  <2>1. /\ CallType' /\ call'[c].at = "fail" /\ call'[c].sent = call[c].sent
        /\ \A d \in Caller : d # c => call'[d] = call[d]
    BY <1>1, <1>4, Goes DEF Stages
  <2>2. Progress(c)'
    BY <2>1 DEF Progress
  <2>3. call[c].sent <= minted
    BY <1>1 DEF IInv, Numbered
  <2>4. QED
    BY <1>1, <1>4, <2>1, <2>2, <2>3, Moves DEF Append, Owns
<1>5. QED
  BY <1>2, <1>3, <1>4 DEF Append

LEMMA AppendRaisesStep ==
  ASSUME IInv, NEW c \in Caller, AppendRaises(c)
  PROVE  IInv'
<1>1. CallType /\ Under(c) /\ call[c].at = "append" /\ Goto(c, "fail")
  BY DEF IInv, TypeOK, CallType, Under, AppendRaises
<1>2. CASE messages' = messages \cup {New(c)}
  BY <1>1, <1>2, MessageStep DEF AppendRaises
<1>3. CASE UNCHANGED messages
  <2>1. /\ CallType' /\ call'[c].at = "fail" /\ call'[c].sent = call[c].sent
        /\ \A d \in Caller : d # c => call'[d] = call[d]
    BY <1>1, Goes DEF Stages
  <2>2. Progress(c)'
    BY <2>1 DEF Progress
  <2>3. call[c].sent <= minted
    BY <1>1 DEF IInv, Numbered
  <2>4. QED
    BY <1>1, <1>3, <2>1, <2>2, <2>3, Moves DEF AppendRaises, Owns
<1>4. QED
  BY <1>2, <1>3 DEF AppendRaises
\* The notification of an attempt gets in, and points at the attempt's exchange.
LEMMA NotificationStep ==
  ASSUME IInv, NEW c \in Caller, call[c].at = "enqueue", NEW owner \in Address,
         NEW a \in {"record", "fail"},
         notifs' = WithNotification(c, owner), Goto(c, a),
         UNCHANGED <<minted, messages, confirmed, ledger, poll, handed>>
  PROVE  IInv'
<1> DEFINE x == call[c].sent
           v == [owner |-> owner, exchange |-> x]
<1>1. CallType /\ Under(c)
  BY DEF IInv, TypeOK, CallType, Under
<1>2. call[c] \in Call /\ x \in Exchange /\ v \in Notification
  BY <1>1, UnderIsCall DEF Call, Notification
<1>3. /\ CallType'
      /\ call'[c].at = a /\ call'[c].sent = x
      /\ call'[c].key = call[c].key /\ call'[c].letter = call[c].letter
      /\ \A d \in Caller : d # c => call'[d] = call[d]
  BY <1>1, Goes DEF Stages
<1>4. x \notin DOMAIN notifs /\ Written(c) /\ Owns(c) /\ x <= minted
  BY <1>1 DEF IInv, Progress, Owns, Numbered
<1>5. /\ DOMAIN notifs' = DOMAIN notifs \cup {x} /\ notifs'[x] = v
      /\ \A y \in DOMAIN notifs : notifs'[y] = notifs[y]
      /\ notifs' = [y \in DOMAIN notifs' |-> notifs'[y]]
  BY <1>4 DEF WithNotification, With
<1>6. v.exchange = x
  OBVIOUS
<1> HIDE DEF x, v
<1>7. TypeOK'
  <2>1. DOMAIN notifs' \subseteq {m.sent : m \in messages}
    BY <1>4, <1>5 DEF Written, IInv, TypeOK, x
  <2>2. notifs' \in [DOMAIN notifs' -> Notification]
    BY <1>2, <1>5 DEF IInv, TypeOK
  <2>3. QED
    BY <1>3, <1>5, <2>1, <2>2 DEF IInv, TypeOK, CallType
<1>8. PollInv'
  BY <1>5, PollersUnmoved, IInvParts DEF Grows
<1>9. Numbered'
  BY <1>1, <1>3, <1>4, <1>5, <1>6 DEF IInv, Numbered, Under
<1>10. Apart'
  <2>1. \A n \in DOMAIN notifs : notifs[n].exchange # x
    BY <1>4 DEF IInv, Apart, x
  <2>2. \A d \in Caller : Owns(d)' => Owns(d) /\ call'[d].sent = call[d].sent
    BY <1>3, <1>4 DEF Owns, x
  <2>3. /\ \A d, e \in Caller : d # e /\ Owns(d)' /\ Owns(e)' => call'[d].sent # call'[e].sent
        /\ \A d \in Caller : Owns(d)' => call'[d].sent \notin DOMAIN ledger'
    BY <2>2 DEF IInv, Apart
  <2>4. /\ \A n, o \in DOMAIN notifs' : notifs'[n].exchange = notifs'[o].exchange => n = o
        /\ \A n \in DOMAIN notifs', m \in messages' :
             notifs'[n].exchange = m.sent => n = m.sent
        /\ \A n \in DOMAIN notifs', d \in Caller :
             Owns(d)' /\ notifs'[n].exchange = call'[d].sent => n = call'[d].sent
    BY <1>5, <1>6, <2>1, <2>2 DEF IInv, Apart
  <2>5. QED
    BY <2>3, <2>4 DEF Apart
<1>11. Waiting'
  BY <1>5 DEF IInv, Waiting
<1>12. \A d \in Caller : Progress(d)'
  <2>1. Progress(c)'
    BY <1>3, <1>4, <1>5, <1>6 DEF Progress, Written, x
  <2>2. ASSUME NEW d \in Caller, d # c
        PROVE  Progress(d)'
    <3>1. call[d].at \in {"append", "enqueue"} => call[d].sent # x
      BY <1>4, <2>2 DEF IInv, Apart, Owns, x
    <3>2. QED
      BY <1>3, <1>5, <2>2, <3>1 DEF IInv, Progress, Written
  <2>3. QED
    BY <2>1, <2>2
<1>13. QED
  BY <1>7, <1>8, <1>9, <1>10, <1>11, <1>12, IInvParts DEF IInv, PollInv

LEMMA EnqueueStep ==
  ASSUME IInv, NEW c \in Caller, Enqueue(c) \/ EnqueueRaises(c)
  PROVE  IInv'
<1>1. CallType /\ Under(c) /\ call[c].at = "enqueue"
  BY DEF IInv, TypeOK, CallType, Under, Enqueue, EnqueueRaises
<1>2. Addressed \subseteq Address
  BY DEF Addressed, Address
<1>3. CASE Enqueue(c)
  BY <1>1, <1>2, <1>3, NotificationStep DEF Enqueue
<1>4. CASE EnqueueRaises(c) /\ \E owner \in Addressed : notifs' = WithNotification(c, owner)
  BY <1>1, <1>2, <1>4, NotificationStep DEF EnqueueRaises
<1>5. CASE EnqueueRaises(c) /\ UNCHANGED notifs
  <2>1. /\ CallType' /\ call'[c].at = "fail" /\ call'[c].sent = call[c].sent
        /\ \A d \in Caller : d # c => call'[d] = call[d]
    BY <1>1, <1>5, Goes DEF Stages, EnqueueRaises
  <2>2. Progress(c)'
    BY <2>1 DEF Progress
  <2>3. call[c].sent <= minted
    BY <1>1 DEF IInv, Numbered
  <2>4. QED
    BY <1>1, <1>5, <2>1, <2>2, <2>3, Moves DEF EnqueueRaises, Owns
<1>6. QED
  BY <1>3, <1>4, <1>5 DEF EnqueueRaises

\* The exchange of an attempt gets into the ledger, and is nobody's any more.
LEMMA LedgerStep ==
  ASSUME IInv, NEW c \in Caller, Owns(c), NEW s \in Status,
         NEW a \in {"accepted", "raised"}, a = "accepted" => call[c].at = "record",
         s = "open" => call[c].at = "record",
         ledger' = With(ledger, call[c].sent, s), Goto(c, a),
         UNCHANGED <<minted, messages, notifs, confirmed, poll, handed>>
  PROVE  IInv'
<1> DEFINE x == call[c].sent
<1>1. CallType /\ Under(c)
  BY DEF IInv, TypeOK, CallType, Under, Owns
<1>2. call[c] \in Call /\ x \in Exchange
  BY <1>1, UnderIsCall DEF Call
<1>3. /\ CallType'
      /\ call'[c].at = a /\ call'[c].sent = x
      /\ call'[c].key = call[c].key /\ call'[c].letter = call[c].letter
      /\ \A d \in Caller : d # c => call'[d] = call[d]
  BY <1>1, Goes DEF Stages
<1>4. x \notin DOMAIN ledger /\ x <= minted
  BY <1>1 DEF IInv, Apart, Numbered
<1>5. /\ DOMAIN ledger' = DOMAIN ledger \cup {x} /\ ledger'[x] = s
      /\ \A y \in DOMAIN ledger : ledger'[y] = ledger[y]
      /\ ledger' = [y \in DOMAIN ledger' |-> ledger'[y]]
  BY <1>4 DEF With
<1> HIDE DEF x
<1>6. TypeOK'
  <2>1. x \in 1 .. minted
    BY <1>2, <1>4 DEF Exchange, IInv, TypeOK
  <2>2. DOMAIN ledger' \subseteq 1 .. minted /\ ledger' \in [DOMAIN ledger' -> Status]
    BY <1>5, <2>1 DEF IInv, TypeOK
  <2>3. QED
    BY <1>3, <2>2 DEF IInv, TypeOK, CallType
<1>7. PollInv'
  BY <1>5, PollersUnmoved, IInvParts DEF Grows
<1>8. Numbered'
  BY <1>1, <1>3, <1>4 DEF IInv, Numbered, Under
<1>9. Apart'
  <2>1. \A d \in Caller : Owns(d)' => /\ Owns(d) /\ call'[d].sent = call[d].sent
                                       /\ call[d].sent # x
    BY <1>3 DEF Owns, x, IInv, Apart
  <2>2. \A d \in Caller : Owns(d)' => call'[d].sent \notin DOMAIN ledger'
    BY <1>5, <2>1 DEF IInv, Apart
  <2>3. QED
    BY <2>1, <2>2 DEF IInv, Apart
<1>10. Waiting'
  BY <1>5 DEF IInv, Waiting, Progress, x
<1>11. \A d \in Caller : Progress(d)'
  BY <1>3, <1>5 DEF IInv, Progress, Written, x
<1>12. QED
  BY <1>6, <1>7, <1>8, <1>9, <1>10, <1>11, IInvParts DEF IInv, PollInv

\* Whatever gives up without writing.
LEMMA GivesUp ==
  ASSUME IInv, NEW c \in Caller, Under(c), Goto(c, "raised"),
         UNCHANGED <<minted, messages, notifs, confirmed, ledger, poll, handed>>
  PROVE  IInv'
<1>1. CallType
  BY DEF IInv, TypeOK, CallType
<1>2. /\ CallType' /\ call'[c].at = "raised" /\ call'[c].sent = call[c].sent
      /\ \A d \in Caller : d # c => call'[d] = call[d]
  BY <1>1, Goes DEF Stages
<1>3. Progress(c)' /\ ~Owns(c)'
  BY <1>2 DEF Progress, Owns
<1>4. call[c].sent <= minted
  BY DEF IInv, Numbered
<1>5. QED
  BY <1>2, <1>3, <1>4, Moves

LEMMA RecordStep ==
  ASSUME IInv, NEW c \in Caller, Record(c) \/ RecordRaises(c) \/ RecordFailure(c)
  PROVE  IInv'
<1>1. Under(c) /\ Owns(c) /\ {"open", "failed"} \subseteq Status
  BY DEF Under, Owns, Record, RecordRaises, RecordFailure, Status
<1>2. CASE Record(c)
  BY <1>1, <1>2, LedgerStep DEF Record
<1>3. CASE RecordRaises(c)
  BY <1>1, <1>3, LedgerStep, GivesUp DEF RecordRaises
<1>4. CASE RecordFailure(c)
  BY <1>1, <1>4, LedgerStep, GivesUp DEF RecordFailure
<1>5. QED
  BY <1>2, <1>3, <1>4

LEMMA ReplayStep ==
  ASSUME IInv, NEW c \in Caller, ReplayLedger(c) \/ ReplayNotification(c)
  PROVE  IInv'
<1>1. /\ CallType /\ Under(c) /\ call[c].at \in {"ledger", "notification"}
      /\ UNCHANGED <<minted, messages, notifs, confirmed, ledger, poll, handed>>
  BY DEF IInv, TypeOK, CallType, Under, ReplayLedger, ReplayNotification
<1>2. Written(c) /\ call[c].sent <= minted
  BY <1>1 DEF IInv, Progress, Numbered
<1>3. PICK a \in {"notification", "accepted", "refused"} :
        /\ Goto(c, a)
        /\ a \in {"notification", "accepted"} => call[c].sent \in DOMAIN ledger
        /\ a = "accepted" => ForExchange(call[c].sent) # {}
  BY DEF ReplayLedger, ReplayNotification, IInv, Progress
<1>4. a = "accepted" => call[c].sent \in DOMAIN notifs
  BY <1>2, <1>3 DEF ForExchange, Written, IInv, Apart
<1>5. /\ CallType' /\ call'[c].at = a /\ call'[c].sent = call[c].sent
      /\ call'[c].key = call[c].key /\ call'[c].letter = call[c].letter
      /\ \A d \in Caller : d # c => call'[d] = call[d]
  BY <1>1, <1>3, Goes DEF Stages
<1>6. Progress(c)' /\ ~Owns(c)'
  BY <1>1, <1>2, <1>3, <1>4, <1>5 DEF Progress, Owns, Written
<1>7. QED
  BY <1>1, <1>2, <1>5, <1>6, Moves

LEMMA DeathStep ==
  ASSUME IInv, NEW c \in Caller, CallDies(c)
  PROVE  IInv'
<1>1. /\ CallType' /\ call'[c] = Idle
      /\ \A d \in Caller : d # c => call'[d] = call[d]
      /\ UNCHANGED <<minted, messages, notifs, confirmed, ledger, poll, handed>>
  BY DEF IInv, TypeOK, CallType, CallDies
<1>2. Progress(c)' /\ ~Owns(c)' /\ ~Under(c)'
  BY <1>1 DEF Progress, Owns, Under, Idle
<1>3. QED
  BY <1>1, <1>2, Moves
-----------------------------------------------------------------------------
\* Steps of the pollers.

PollType == poll \in [Poller -> Poll \cup {Idle}]

LEMMA CallersUnmoved ==
  ASSUME CallInv, UNCHANGED <<minted, messages, notifs, ledger, call>>
  PROVE  CallInv'
<1>1. \A c \in Caller : Progress(c)'
  BY DEF CallInv, Progress, Written
<1>2. Numbered' /\ Apart' /\ Waiting'
  BY DEF CallInv, Numbered, Apart, Waiting, Under, Owns
<1>3. QED
  BY <1>1, <1>2 DEF CallInv

\* A poll that takes a step of its own disturbs no one.
LEMMA PollMoves ==
  ASSUME IInv, NEW p \in Poller, NEW r \in Poll \cup {Idle},
         poll' = [poll EXCEPT ![p] = r], Polling(p)',
         r.at = "locked" => poll[p].at = "rows" /\ RowFree(r.row),
         UNCHANGED <<minted, messages, notifs, confirmed, ledger, call, handed>>
  PROVE  IInv'
<1>1. /\ PollType' /\ poll'[p] = r
      /\ \A q \in Poller : q # p => poll'[q] = poll[q]
  BY DEF IInv, TypeOK, PollType
<1>2. TypeOK'
  BY <1>1 DEF IInv, TypeOK, PollType
<1>3. \A q \in Poller : Polling(q)'
  BY <1>1 DEF IInv, Polling, Holds, Right
<1>4. OneHolder'
  BY <1>1 DEF IInv, OneHolder, RowFree
<1>5. \A h \in handed' : Right(h)'
  BY DEF IInv, Right
<1>6. CallInv'
  BY CallersUnmoved, IInvParts
<1>7. QED
  BY <1>2, <1>3, <1>4, <1>5, <1>6, IInvParts DEF PollInv, IInv, CallInv

\* A poll that is done with a row and got something for it.
LEMMA PollShape ==
  ASSUME NEW r \in Poll, NEW n \in Exchange, NEW x \in Exchange
  PROVE  LET s == [r EXCEPT !.at = "rows", !.rows = r.rows \ {n},
                            !.got = r.got \cup {<<n, x>>}]
         IN  /\ s \in Poll /\ s.at = "rows"
             /\ s.rows = r.rows \ {n} /\ s.got = r.got \cup {<<n, x>>}
<1>1. /\ r.rows \ {n} \in SUBSET Exchange
      /\ r.got \cup {<<n, x>>} \in SUBSET (Exchange \X Exchange)
  BY DEF Poll
<1>2. QED
  BY <1>1 DEF Poll

LEMMA PollStartStep ==
  ASSUME IInv, NEW p \in Poller, PollStart(p)
  PROVE  IInv'
<1> DEFINE r == [at |-> "rows", got |-> {}, row |-> 0, old |-> 0,
                 rows |-> DOMAIN notifs \ confirmed]
<1>1. poll' = [poll EXCEPT ![p] = r] /\ poll \in [Poller -> Poll \cup {Idle}]
      /\ UNCHANGED <<minted, messages, notifs, confirmed, ledger, call, handed>>
  BY DEF PollStart, IInv, TypeOK
<1>2. DOMAIN notifs \subseteq Exchange
  BY DEF IInv, TypeOK, Message
<1>3. r \in Poll
  BY <1>2 DEF Poll
<1>4. poll'[p] = r
  BY <1>1
<1>5. Polling(p)'
  BY <1>1, <1>4 DEF Polling, Holds
<1>6. QED
  BY <1>1, <1>3, <1>5, PollMoves

LEMMA RotateLockStep ==
  ASSUME IInv, NEW p \in Poller, RotateLock(p)
  PROVE  IInv'
<1>1. /\ poll \in [Poller -> Poll \cup {Idle}] /\ poll[p].at = "rows"
      /\ UNCHANGED <<minted, messages, notifs, confirmed, ledger, call, handed>>
  BY DEF RotateLock, IInv, TypeOK
<1>2. poll[p] \in Poll
  BY <1>1 DEF Idle
<1>3. poll[p].rows \subseteq DOMAIN notifs /\ \A h \in poll[p].got : Right(h)
  BY <1>1 DEF IInv, Polling
<1>4. ASSUME NEW a \in {"absent", "mismatch"}, poll' = [poll EXCEPT ![p].at = a]
      PROVE  IInv'
  <2> DEFINE r == [poll[p] EXCEPT !.at = a]
  <2>1. poll' = [poll EXCEPT ![p] = r] /\ r \in Poll /\ r.at = a
    BY <1>1, <1>2, <1>4 DEF Poll
  <2>2. poll'[p] = r
    BY <1>1, <2>1
  <2>3. Polling(p)'
    BY <2>1, <2>2 DEF Polling, Holds
  <2>4. QED
    BY <1>1, <2>1, <2>3, PollMoves
<1>5. ASSUME NEW n \in poll[p].rows, RowFree(n), notifs[n].exchange \in DOMAIN ledger,
             Replaceable(notifs[n].exchange),
             poll' = [poll EXCEPT ![p].at = "locked", ![p].row = n,
                                  ![p].old = notifs[n].exchange]
      PROVE  IInv'
  <2> DEFINE x == notifs[n].exchange
             r == [poll[p] EXCEPT !.at = "locked", !.row = n, !.old = x]
  <2>1. n \in Exchange /\ x \in Exchange
    BY <1>2, <1>3 DEF Poll, IInv, TypeOK, Notification
  <2>2. /\ poll' = [poll EXCEPT ![p] = r] /\ r \in Poll /\ r.at = "locked"
        /\ r.row = n /\ r.old = x /\ r.rows = poll[p].rows /\ r.got = poll[p].got
    BY <1>1, <1>2, <1>5, <2>1 DEF Poll
  <2>3. poll'[p] = r
    BY <1>1, <2>2
  <2> HIDE DEF r
  <2>4. Polling(p)'
    BY <1>1, <1>3, <1>5, <2>2, <2>3 DEF Polling, Holds, Right, Replaceable
  <2>5. QED
    BY <1>1, <1>5, <2>2, <2>4, PollMoves
<1>6. ASSUME NEW n \in poll[p].rows, notifs[n].exchange \in DOMAIN ledger,
             poll' = [poll EXCEPT ![p].rows = @ \ {n},
                                  ![p].got = @ \cup {<<n, notifs[n].exchange>>}]
      PROVE  IInv'
  <2> DEFINE x == notifs[n].exchange
             r == [poll[p] EXCEPT !.at = "rows", !.rows = poll[p].rows \ {n},
                                  !.got = poll[p].got \cup {<<n, x>>}]
  <2>1. n \in Exchange /\ x \in Exchange
    BY <1>2, <1>3 DEF Poll, IInv, TypeOK, Notification
  <2>2. /\ poll' = [poll EXCEPT ![p] = r] /\ r \in Poll /\ r.at = "rows"
        /\ r.rows = poll[p].rows \ {n} /\ r.got = poll[p].got \cup {<<n, x>>}
    <3>1. /\ r \in Poll /\ r.at = "rows"
          /\ r.rows = poll[p].rows \ {n} /\ r.got = poll[p].got \cup {<<n, x>>}
      <4> HIDE DEF x
      <4>1. QED
        BY <1>2, <2>1, PollShape
    <3> DEFINE s == [poll[p] EXCEPT !.rows = @ \ {n}, !.got = @ \cup {<<n, x>>}]
    <3>2. poll' = [poll EXCEPT ![p] = s]
      BY <1>1, <1>6
    <3>3. r = s
      BY <1>1, <1>2 DEF Poll
    <3>4. poll' = [poll EXCEPT ![p] = r]
      BY <3>2, <3>3
    <3>5. QED
      BY <3>1, <3>4
  <2>3. poll'[p] = r
    BY <1>1, <2>2
  <2>4. Right(<<n, x>>)
    BY <1>3, <1>6 DEF Right
  <2> HIDE DEF r
  <2>5. Polling(p)'
    BY <1>1, <1>3, <2>2, <2>3, <2>4 DEF Polling, Holds, Right
  <2>6. QED
    BY <1>1, <2>2, <2>5, PollMoves
<1>7. QED
  BY <1>4, <1>5, <1>6 DEF RotateLock

\* The lock held: the exchange is the one the poll read, and has failed.
LEMMA RotateCommitStep ==
  ASSUME IInv, NEW p \in Poller, RotateCommit(p)
  PROVE  IInv'
<1> DEFINE n == poll[p].row
           old == poll[p].old
           x == minted + 1
           r == [poll[p] EXCEPT !.at = "rows", !.rows = poll[p].rows \ {n},
                                !.got = poll[p].got \cup {<<n, x>>}]
<1>1. /\ poll \in [Poller -> Poll \cup {Idle}] /\ poll[p].at = "locked"
      /\ minted \in 0 .. MaxExchange /\ minted < MaxExchange /\ MaxExchange \in Nat
      /\ minted' = x
      /\ UNCHANGED <<messages, confirmed, call, handed>>
  BY BoundAssumption DEF RotateCommit, IInv, TypeOK
<1>2. poll[p] \in Poll
  BY <1>1 DEF Idle
<1>3. /\ n \in DOMAIN notifs /\ old \in DOMAIN ledger
      /\ notifs[n].exchange = old /\ ledger[old] = "failed"
      /\ poll[p].rows \subseteq DOMAIN notifs /\ \A h \in poll[p].got : Right(h)
  BY <1>1 DEF IInv, Polling, Holds
<1>4. /\ ledger' = With(ledger, x, "open")
      /\ notifs' = [notifs EXCEPT ![n].exchange = x]
      /\ poll' = [poll EXCEPT ![p].at = "rows", ![p].rows = @ \ {n},
                              ![p].got = @ \cup {<<n, x>>}]
  BY <1>1, <1>3 DEF RotateCommit
<1>5. n \in Exchange /\ x \in Exchange /\ minted' \in 0 .. MaxExchange
  BY <1>1, <1>3 DEF IInv, TypeOK, Message, Exchange
<1>6. /\ r \in Poll /\ r.at = "rows"
      /\ r.rows = poll[p].rows \ {n} /\ r.got = poll[p].got \cup {<<n, x>>}
      /\ poll' = [poll EXCEPT ![p] = r]
  <2>1. /\ r \in Poll /\ r.at = "rows"
        /\ r.rows = poll[p].rows \ {n} /\ r.got = poll[p].got \cup {<<n, x>>}
    <3> HIDE DEF x
    <3>1. QED
      BY <1>2, <1>5, PollShape
  <2>2. poll' = [poll EXCEPT ![p] = r]
    BY <1>1, <1>4
  <2>3. QED
    BY <2>1, <2>2
<1>7. /\ PollType' /\ poll'[p] = r
      /\ \A q \in Poller : q # p => poll'[q] = poll[q]
  BY <1>1, <1>6 DEF PollType
<1>8. /\ DOMAIN notifs' = DOMAIN notifs /\ notifs' \in [DOMAIN notifs -> Notification]
      /\ notifs'[n].exchange = x
      /\ \A o \in DOMAIN notifs : o # n => notifs'[o] = notifs[o]
  <2>1. notifs[n] \in Notification /\ notifs \in [DOMAIN notifs -> Notification]
    BY <1>3 DEF IInv, TypeOK
  <2>2. [notifs[n] EXCEPT !.exchange = x] \in Notification
    BY <2>1, <1>5 DEF Notification
  <2>3. notifs' = [notifs EXCEPT ![n] = [notifs[n] EXCEPT !.exchange = x]]
    BY <1>3, <1>4, <2>1
  <2>4. QED
    BY <1>3, <2>1, <2>2, <2>3 DEF Notification
<1>9. x \notin DOMAIN ledger
  BY <1>1 DEF IInv, TypeOK
<1>10. /\ DOMAIN ledger' = DOMAIN ledger \cup {x} /\ ledger'[x] = "open"
       /\ \A y \in DOMAIN ledger : ledger'[y] = ledger[y]
       /\ ledger' = [y \in DOMAIN ledger' |-> ledger'[y]]
  BY <1>4, <1>9 DEF With
<1> HIDE DEF r
<1>11. TypeOK'
  <2>1. DOMAIN ledger' \subseteq 1 .. minted' /\ ledger' \in [DOMAIN ledger' -> Status]
    BY <1>1, <1>10 DEF IInv, TypeOK, Status
  <2>2. QED
    BY <1>1, <1>5, <1>7, <1>8, <2>1 DEF IInv, TypeOK, PollType
<1>12. /\ \A m \in messages : m.sent \in Int /\ m.sent <= minted
       /\ \A o \in DOMAIN notifs : notifs[o].exchange \in Int /\ notifs[o].exchange <= minted
       /\ \A c \in Caller : Under(c) => call[c].sent \in Int /\ call[c].sent <= minted
  <2>1. \A c \in Caller : Under(c) => call[c].sent \in Exchange
    BY UnderIsCall DEF Call, CallType, IInv, TypeOK
  <2>2. QED
    BY <2>1 DEF IInv, TypeOK, Numbered, Message, Notification, Exchange
<1>13. Numbered'
  BY <1>1, <1>8, <1>12 DEF Numbered, Under
<1>14. Apart'
  <2>1. \A c \in Caller : Owns(c) => call[c].sent # x
    BY <1>1, <1>12 DEF Owns, Under
  <2>2. /\ \A o \in DOMAIN notifs : notifs[o].exchange # x
        /\ \A m \in messages : m.sent # x
    BY <1>1, <1>12
  <2>3. \A c \in Caller : Owns(c) => call[c].sent \notin DOMAIN ledger'
    BY <1>10, <2>1 DEF IInv, Apart
  <2>4. \A o, q \in DOMAIN notifs : notifs'[o].exchange = notifs'[q].exchange => o = q
    BY <1>8, <2>2 DEF IInv, Apart
  <2>5. \A o \in DOMAIN notifs, m \in messages :
          notifs'[o].exchange = m.sent => o = m.sent
    BY <1>8, <2>2 DEF IInv, Apart
  <2>6. \A o \in DOMAIN notifs, c \in Caller :
          Owns(c) /\ notifs'[o].exchange = call[c].sent => o = call[c].sent
    BY <1>8, <2>1 DEF IInv, Apart
  <2>7. QED
    BY <1>1, <1>8, <2>3, <2>4, <2>5, <2>6 DEF IInv, Apart, Owns
<1>15. Waiting'
  BY <1>3, <1>8, <1>10 DEF IInv, Waiting
<1>16. \A c \in Caller : Progress(c)'
  <2>1. \A c \in Caller : call[c].at = "record" => call[c].sent # n
    BY <1>3 DEF IInv, Progress, Apart, Owns
  <2>2. QED
    BY <1>1, <1>8, <1>10, <2>1 DEF IInv, Progress, Written
<1>17. \A h : Right(h) => Right(h)'
  BY <1>3, <1>8, <1>10 DEF Right
<1>18. \A h : h = <<n, x>> => Right(h)'
  BY <1>3, <1>8, <1>10 DEF Right
<1>19. \A q \in Poller : q # p /\ poll[q].at = "locked" => poll[q].row # n
  BY <1>1 DEF IInv, OneHolder
<1>20. \A q \in Poller : Polling(q)'
  <2>1. Polling(p)'
    BY <1>3, <1>6, <1>7, <1>8, <1>17, <1>18 DEF Polling, Holds
  <2>2. ASSUME NEW q \in Poller, q # p
        PROVE  Polling(q)'
    BY <1>7, <1>8, <1>10, <1>17, <1>19, <2>2 DEF IInv, Polling, Holds
  <2>3. QED
    BY <2>1, <2>2
<1>21. OneHolder'
  BY <1>6, <1>7 DEF IInv, OneHolder
<1>22. \A h \in handed' : Right(h)'
  BY <1>1, <1>17 DEF IInv
<1>23. QED
  BY <1>11, <1>13, <1>14, <1>15, <1>16, <1>20, <1>21, <1>22 DEF IInv

LEMMA PollEndStep ==
  ASSUME IInv, NEW p \in Poller, PollReturn(p) \/ PollDies(p)
  PROVE  IInv'
<1>1. /\ poll \in [Poller -> Poll \cup {Idle}] /\ poll[p].at \in {"rows", "locked"}
      /\ poll' = [poll EXCEPT ![p] = Idle]
      /\ UNCHANGED <<minted, messages, notifs, confirmed, ledger, call>>
  BY DEF PollReturn, PollDies, IInv, TypeOK
<1>2. poll[p] \in Poll /\ poll'[p] = Idle /\ \A q \in Poller : q # p => poll'[q] = poll[q]
  BY <1>1 DEF Idle
<1>3. handed' \subseteq handed \cup poll[p].got
  BY DEF PollReturn, PollDies
<1>4. TypeOK'
  BY <1>1, <1>2, <1>3 DEF IInv, TypeOK, Poll
<1>5. \A q \in Poller : Polling(q)'
  BY <1>1, <1>2 DEF IInv, Polling, Holds, Right, Idle
<1>6. OneHolder'
  BY <1>2 DEF IInv, OneHolder, Idle
<1>7. \A h \in handed' : Right(h)'
  BY <1>1, <1>3 DEF IInv, Polling, Right
<1>8. CallInv'
  BY <1>1, CallersUnmoved, IInvParts
<1>9. QED
  BY <1>4, <1>5, <1>6, <1>7, <1>8 DEF IInv, CallInv

-----------------------------------------------------------------------------
\* Steps of the recipient.

LEMMA RecipientStep ==
  ASSUME IInv, NEW x \in Exchange, Confirm(x) \/ Conclude(x)
  PROVE  IInv'
<1>1. CASE Confirm(x)
  <2>1. TypeOK'
    BY <1>1 DEF Confirm, IInv, TypeOK
  <2>2. CallInv' /\ PollInv'
    BY <1>1, CallersUnmoved, PollersUnmoved, IInvParts DEF Confirm, Grows
  <2>3. QED
    BY <2>1, <2>2 DEF IInv, CallInv, PollInv
<1>2. CASE Conclude(x)
  <2>1. PICK s \in {"failed", "delivered"} : ledger' = [ledger EXCEPT ![x] = s]
    BY <1>2 DEF Conclude
  <2>2. /\ x \in DOMAIN ledger /\ ledger[x] = "open"
        /\ UNCHANGED <<minted, messages, notifs, confirmed, call, poll, handed>>
    BY <1>2 DEF Conclude
  <2>3. /\ ledger' \in [DOMAIN ledger -> Status] /\ DOMAIN ledger' = DOMAIN ledger
        /\ ledger'[x] = s /\ \A y \in DOMAIN ledger : y # x => ledger'[y] = ledger[y]
    BY <2>1, <2>2 DEF IInv, TypeOK, Status
  <2>4. TypeOK'
    BY <2>2, <2>3 DEF IInv, TypeOK
  <2>5. PollInv'
    BY <2>2, <2>3, PollersUnmoved, IInvParts DEF Grows
  <2>6. Numbered' /\ Apart' /\ Waiting'
    BY <2>2, <2>3 DEF IInv, Numbered, Apart, Waiting, Under, Owns
  <2>7. \A c \in Caller : Progress(c)'
    BY <2>2, <2>3 DEF IInv, Progress, Written
  <2>8. QED
    BY <2>4, <2>5, <2>6, <2>7 DEF IInv, PollInv
<1>3. QED
  BY <1>1, <1>2

-----------------------------------------------------------------------------

LEMMA InitInv == Init => IInv
<1> SUFFICES ASSUME Init PROVE IInv
  OBVIOUS
<1>1. DOMAIN Empty = {}
  BY DEF Empty
<1>2. /\ \A c \in Caller : call[c] = Idle
      /\ \A p \in Poller : poll[p] = Idle
  BY DEF Init
<1>3. TypeOK
  <2>1. Empty \in [{} -> Notification] /\ Empty \in [{} -> Status]
    BY DEF Empty
  <2>2. QED
    BY <1>1, <2>1, BoundAssumption DEF Init, TypeOK
<1>4. Numbered /\ Apart /\ OneHolder /\ Waiting
  BY <1>1, <1>2 DEF Init, Numbered, Apart, OneHolder, Waiting, Under, Owns, Idle
<1>5. (\A c \in Caller : Progress(c)) /\ \A p \in Poller : Polling(p)
  BY <1>1, <1>2 DEF Progress, Polling, Holds, Idle
<1>6. QED
  BY <1>3, <1>4, <1>5 DEF Init, IInv

LEMMA NextInv == IInv /\ [Next]_vars => IInv'
<1> SUFFICES ASSUME IInv, [Next]_vars PROVE IInv'
  OBVIOUS
<1>1. ASSUME NEW c \in Caller, NEW k \in Key, NEW l \in Letter, CallStart(c, k, l)
      PROVE  IInv'
  BY <1>1, StartStep
<1>2. ASSUME NEW c \in Caller,
             \/ Append(c) \/ AppendRaises(c) \/ Enqueue(c) \/ EnqueueRaises(c)
             \/ Record(c) \/ RecordRaises(c) \/ RecordFailure(c)
             \/ ReplayLedger(c) \/ ReplayNotification(c) \/ CallDies(c)
      PROVE  IInv'
  BY <1>2, AppendStep, AppendRaisesStep, EnqueueStep, RecordStep, ReplayStep, DeathStep
<1>3. ASSUME NEW p \in Poller,
             \/ PollStart(p) \/ RotateLock(p) \/ RotateCommit(p)
             \/ PollReturn(p) \/ PollDies(p)
      PROVE  IInv'
  BY <1>3, PollStartStep, RotateLockStep, RotateCommitStep, PollEndStep
<1>4. ASSUME NEW x \in Exchange, Confirm(x) \/ Conclude(x)
      PROVE  IInv'
  BY <1>4, RecipientStep
<1>5. CASE UNCHANGED vars
  <2>1. TypeOK'
    BY <1>5 DEF vars, IInv, TypeOK
  <2>2. CallInv' /\ PollInv'
    BY <1>5, CallersUnmoved, PollersUnmoved, IInvParts DEF vars, Grows
  <2>3. QED
    BY <2>1, <2>2 DEF IInv, CallInv, PollInv
<1>6. QED
  BY <1>1, <1>2, <1>3, <1>4, <1>5 DEF Next

\* IInv is inductive.
THEOREM Invariant == Spec => []IInv
<1>1. Init => IInv
  BY InitInv
<1>2. IInv /\ [Next]_vars => IInv'
  BY NextInv
<1>3. QED
  BY <1>1, <1>2, PTL DEF Spec

\* The stores keep their types, and a notification has its message.
THEOREM ExchangeTypeCorrect == Spec => []TypeOK
<1>1. IInv => TypeOK
  BY DEF IInv
<1>2. QED
  BY <1>1, Invariant, PTL

\* A send that returned leaves message, notification and exchange behind,
\* whatever failed before and whoever else sends or polls.
THEOREM AcceptedStaysDurable == Spec => []AcceptedIsDurable
<1>1. IInv => AcceptedIsDurable
  BY DEF IInv, Progress, Written, AcceptedIsDurable
<1>2. QED
  BY <1>1, Invariant, PTL

\* An open exchange is the one of exactly one notification.
THEOREM NoExchangeOrphaned == Spec => []NoOrphanExchange
<1>1. IInv => NoOrphanExchange
  <2> SUFFICES ASSUME IInv, NEW x \in DOMAIN ledger, ledger[x] = "open"
               PROVE  \E n \in Exchange : ForExchange(x) = {n}
    BY DEF NoOrphanExchange
  <2>1. PICK n \in DOMAIN notifs : notifs[n].exchange = x
    BY DEF IInv, Waiting
  <2>2. n \in Exchange
    BY DEF IInv, TypeOK, Message
  <2>3. ForExchange(x) = {n}
    BY <2>1 DEF IInv, Apart, ForExchange
  <2>4. QED
    BY <2>2, <2>3
<1>2. QED
  BY <1>1, Invariant, PTL

\* Whatever polls return for a notification is its exchange or has failed.
THEOREM PollersStayConverged == Spec => []PollersConverge
<1>1. IInv => PollersConverge
  BY DEF IInv, Right, PollersConverge
<1>2. QED
  BY <1>1, Invariant, PTL

\* The RuntimeError about the FOR UPDATE lock is never raised.
THEOREM LockIsHeld == Spec => []LockHolds
<1>1. IInv => LockHolds
  BY DEF IInv, Polling, LockHolds
<1>2. QED
  BY <1>1, Invariant, PTL
=============================================================================
