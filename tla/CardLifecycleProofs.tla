------------------------ MODULE CardLifecycleProofs ------------------------
(***************************************************************************)
(* Proofs about CardLifecycle, for any gates and any number of writes and  *)
(* seconds.                                                                *)
(***************************************************************************)
EXTENDS CardLifecycle, TLAPS

\* A row the validator accepts and the throughput views do not misread.
Sound(c) ==
  /\ c \in Card /\ Validates(c)
  /\ ~c.dead /\ c.completed_at # NoStamp => c.status = "done"

\* No stamp the sweeps read is of the future, and no card is younger than
\* its last touch.
Past(c) ==
  /\ c.created_at <= c.last_activity /\ c.last_activity <= now
  /\ c.deferred_at <= now /\ c.blocked_at <= now

\* The sweeps see the card at least as old as t.
Aged(c, t) ==
  /\ c.status = "blocked" => BlockedClock(c) <= t
  /\ /\ c.status = "deferred"
     /\ c.created_at # NoStamp \/ c.deferred_at # NoStamp
     => DeferredClock(c) <= t

\* What the payload of a deletion knows of the row it found.
Payload ==
  /\ undo.by # "nobody" => Sound(before) /\ undo.row \in Card /\ Past(undo.row)
  /\ undo.by = "delete" => undo.row = Snapshot(before)
  /\ undo.by = "board" => undo.row = before

CardInv == Present => Sound(card) /\ Past(card) /\ (~card.dead => Aged(card, since))

IInv == TypeOK /\ CardInv /\ Payload /\ refused = {}

-----------------------------------------------------------------------------
\* Rows.

LEMMA PastIsAged ==
  ASSUME NEW c \in Card, Past(c), now \in Time
  PROVE  Aged(c, now)
BY CardLifecycleAssumption DEF Past, Aged, BlockedClock, DeferredClock, Card, Stamp, Time, NoStamp

\* A write that keeps the pair and the stamps keeps the age.
LEMMA SameStampsSameAge ==
  ASSUME NEW b \in Card, NEW c \in Card, NEW t \in Stamp, Past(b), Past(c), Aged(b, t),
         c.status = b.status, c.created_at = b.created_at,
         c.deferred_at = b.deferred_at, c.blocked_at = b.blocked_at
  PROVE  Aged(c, t)
<1>1. /\ b.created_at \in Stamp /\ b.deferred_at \in Stamp /\ b.blocked_at \in Stamp
      /\ b.last_activity \in Time /\ c.last_activity \in Time
  BY DEF Card
<1>2. Stamp \subseteq Nat /\ Time \subseteq Nat
  BY CardLifecycleAssumption DEF Stamp, Time, NoStamp
<1>3. BlockedClock(c) = BlockedClock(b)
  BY DEF BlockedClock
<1>4. ASSUME c.created_at # NoStamp \/ c.deferred_at # NoStamp
      PROVE  DeferredClock(c) = DeferredClock(b)
  <2>1. CASE c.deferred_at # NoStamp
    BY <2>1 DEF DeferredClock
  <2>2. CASE c.deferred_at = NoStamp /\ c.created_at # NoStamp
    <3>1. /\ b.created_at \in Nat /\ b.last_activity \in Nat /\ c.last_activity \in Nat
          /\ b.created_at <= b.last_activity /\ b.created_at <= c.last_activity
      BY <1>1, <1>2 DEF Past
    <3>2. DeferredClock(b) = b.created_at
      BY <2>2, <3>1 DEF DeferredClock
    <3>3. DeferredClock(c) = b.created_at
      BY <2>2, <3>1 DEF DeferredClock
    <3>4. QED
      BY <3>2, <3>3
  <2>3. QED
    BY <1>4, <2>1, <2>2
<1>5. QED
  BY <1>3, <1>4 DEF Aged

\* What the clocks may change of a row.
LEMMA ClocksKeepRest ==
  ASSUME NEW c \in Card, NEW prior \in Card, now \in Time
  PROVE  /\ StampDeferred(c, prior) \in
              {c, [c EXCEPT !.deferred_at = now]}
         /\ StampBlocked(c, prior) \in
              {c, [c EXCEPT !.blocked_at = now]}
         /\ StampCancellation(c, prior) \in
              {c, [c EXCEPT !.cancelled_at = now], [c EXCEPT !.cancelled_at = NoStamp]}
         /\ ClearOnLeavingDone(c, prior) \in
              {c, [c EXCEPT !.completed_at = NoStamp]}
BY DEF StampDeferred, StampBlocked, StampCancellation, ClearOnLeavingDone, ClearCompletion

\* The row a write leaves is sound, and if it keeps a live card's pair, it
\* keeps its age too.
Faithful(c) ==
  /\ Sound(c) /\ Past(c)
  /\ Live /\ Pair(c) = Pair(card) => Aged(c, since)

\* Every step that writes one faithful row keeps what is said of cards.
LEMMA PutKeeps ==
  ASSUME NEW c, IInv, Faithful(c), Put(c), now' = now
  PROVE  /\ card' = c /\ since' \in Stamp /\ since' \in {since, now}
         /\ CardInv'
<1>1. c \in Card /\ now \in Time /\ since \in Stamp /\ Time \subseteq Stamp
  BY DEF IInv, TypeOK, Faithful, Sound, Stamp
<1>2. card' = c /\ since' \in {since, now} /\ since' \in Stamp
  BY <1>1 DEF Put
<1>3. Aged(c, since')
  <2>1. CASE Live /\ Pair(c) = Pair(card)
    BY <2>1 DEF Put, Faithful
  <2>2. CASE ~(Live /\ Pair(c) = Pair(card))
    <3>1. since' = now
      BY <2>2 DEF Put
    <3>2. QED
      BY <1>1, <3>1, PastIsAged DEF Faithful
  <2>3. QED
    BY <2>1, <2>2
<1>4. CardInv'
  BY <1>2, <1>3 DEF CardInv, Faithful, Sound, Past, Aged, Validates, BlockedClock, DeferredClock
<1>5. QED
  BY <1>2, <1>4

\* The rest of the invariant through a save.
LEMMA SaveKeeps ==
  ASSUME NEW c, NEW verb, IInv, Faithful(c), Save(verb, c)
  PROVE  IInv' /\ card' = c
<1>1. now' = now /\ undo' = undo /\ before' = before /\ Put(c) /\ refused' = refused
  BY DEF Save, Faithful, Sound
<1>2. card' = c /\ since' \in Stamp /\ CardInv'
  BY <1>1, PutKeeps
<1>3. TypeOK'
  BY <1>1, <1>2 DEF IInv, TypeOK, Faithful, Sound
<1>4. Payload'
  BY <1>1 DEF IInv, Payload, Sound, Past, Validates, Snapshot, HasMeta
<1>5. QED
  BY <1>1, <1>2, <1>3, <1>4 DEF IInv

LEMMA SaveAskedKeeps ==
  ASSUME NEW c, IInv, Faithful(c), SaveAsked(c)
  PROVE  IInv' /\ card' = c
<1>1. now' = now /\ undo' = undo /\ before' = before /\ Put(c) /\ refused' = refused
  BY DEF SaveAsked
<1>2. card' = c /\ since' \in Stamp /\ CardInv'
  BY <1>1, PutKeeps
<1>3. TypeOK'
  BY <1>1, <1>2 DEF IInv, TypeOK, Faithful, Sound
<1>4. Payload'
  BY <1>1 DEF IInv, Payload, Sound, Past, Validates, Snapshot, HasMeta
<1>5. QED
  BY <1>1, <1>2, <1>3, <1>4 DEF IInv

-----------------------------------------------------------------------------
\* The verbs.

\* A row made from the stored one is faithful if it moves only what a touch
\* may move, and a clock only with the pair it belongs to.
LEMMA TouchIsFaithful ==
  ASSUME NEW c \in Card, IInv, Present, Validates(c), c.dead = card.dead,
         ~c.dead /\ c.completed_at # NoStamp => c.status = "done",
         c.created_at = card.created_at,
         c.last_activity \in {card.last_activity, now},
         c.deferred_at \in {card.deferred_at, now},
         c.blocked_at \in {card.blocked_at, now},
         Pair(c) = Pair(card) => /\ c.deferred_at = card.deferred_at
                                 /\ c.blocked_at = card.blocked_at
  PROVE  Faithful(c)
<1>1. /\ card \in Card /\ Past(card) /\ now \in Time /\ since \in Stamp
      /\ ~card.dead => Aged(card, since)
  BY DEF IInv, TypeOK, CardInv, Sound
<1>2. Stamp \subseteq Nat /\ Time \subseteq Nat
  BY CardLifecycleAssumption DEF Stamp, Time, NoStamp
<1>3. /\ card.created_at \in Nat /\ card.last_activity \in Nat /\ now \in Nat
      /\ card.deferred_at \in Nat /\ card.blocked_at \in Nat
  BY <1>1, <1>2 DEF Card
<1>4. Past(c)
  BY <1>1, <1>3 DEF Past
<1>5. ASSUME Live, Pair(c) = Pair(card)
      PROVE  Aged(c, since)
  <2>1. c.status = card.status
    BY <1>5 DEF Pair
  <2>2. QED
    BY <1>1, <1>4, <1>5, <2>1, SameStampsSameAge DEF Live
<1>6. QED
  BY <1>4, <1>5 DEF Faithful, Sound

\* A row written where no live card is.
LEMMA NewIsFaithful ==
  ASSUME NEW c, Sound(c), Past(c), ~Live
  PROVE  Faithful(c)
BY DEF Faithful

LEMMA BornIsSound ==
  ASSUME IInv, NEW s \in Status, NEW b \in Blocker, b # "none" => s = "blocked"
  PROVE  /\ Born(s, b) \in Card /\ Sound(Born(s, b)) /\ Past(Born(s, b))
         /\ Born(s, b).created_at = now /\ Born(s, b).last_activity = now
         /\ Born(s, b).status = s /\ Born(s, b).blocker = b
<1>1. now \in Time /\ now \in Nat /\ 1 <= now /\ Time \subseteq Stamp
  BY CardLifecycleAssumption DEF IInv, TypeOK, Time, Stamp
<1>2. Born(s, b) \in Card
  BY <1>1 DEF Born, Card, Stamp
<1>3. QED
  BY <1>1, <1>2 DEF Born, Sound, Past, Validates, NoStamp

LEMMA AddStep ==
  ASSUME IInv, NEW s \in Status, NEW b \in Blocker, Add(s, b)
  PROVE  IInv'
<1> DEFINE c == IF s = "blocked" THEN [Born(s, b) EXCEPT !.blocked_at = now] ELSE Born(s, b)
<1>1. Validates(c) /\ SaveAsked(c) /\ ~Present
  BY DEF Add, SaveAsked
<1>2. now \in Time /\ now \in Nat /\ 1 <= now /\ Time \subseteq Stamp
  BY CardLifecycleAssumption DEF IInv, TypeOK, Time, Stamp
<1>3. b # "none" => s = "blocked"
  BY <1>1 DEF Validates, Born
<1>4. Sound(Born(s, b)) /\ Past(Born(s, b)) /\ Born(s, b) \in Card
  BY <1>3, BornIsSound
<1>5. Sound(c) /\ Past(c)
  <2>1. c \in Card
    BY <1>2, <1>4 DEF Card
  <2>2. QED
    BY <1>1, <1>2, <1>4, <2>1 DEF Sound, Past, Card
<1>6. QED
  BY <1>1, <1>5, NewIsFaithful, SaveAskedKeeps DEF Live

\* The stored card as the verbs find it.
LEMMA Stored ==
  ASSUME IInv
  PROVE  /\ now \in Time /\ Time \subseteq Stamp /\ NoStamp \in Stamp
         /\ OperatorDecision \in Blocker /\ "none" \in Blocker
         /\ OperatorDecision # "none"
         /\ Present => card \in Card /\ Validates(card)
         /\ Live => /\ Present /\ ~card.dead
                    /\ card.completed_at # NoStamp => card.status = "done"
BY CardLifecycleAssumption
DEF IInv, TypeOK, CardInv, Sound, Live, Stamp, Blocker

LEMMA UpdateStep ==
  ASSUME IInv, NEW s \in Status \cup {Untouched}, NEW b \in Blocker \cup {Untouched}, Update(s, b)
  PROVE  IInv'
<1> DEFINE c0 == [card EXCEPT !.status = IF s = Untouched THEN @ ELSE s,
                             !.blocker = IF b = Untouched THEN @ ELSE b,
                             !.last_activity = now]
          c1 == ClearOnLeavingDone(c0, card)
          c2 == StampDeferred(c1, card)
          c3 == StampBlocked(c2, card)
          c == StampCancellation(c3, card)
<1>1. Live /\ SaveAsked(c)
  BY DEF Update
<1>2. Validates(c)
  BY <1>1 DEF SaveAsked
<1>3. /\ Present /\ ~card.dead /\ card \in Card /\ now \in Time /\ now \in Stamp
      /\ NoStamp \in Stamp
      /\ card.completed_at # NoStamp => card.status = "done"
  BY <1>1, Stored
<1>4. /\ c0 \in Card /\ c0.dead = card.dead /\ c0.created_at = card.created_at
      /\ c0.last_activity = now /\ c0.completed_at = card.completed_at
      /\ c0.deferred_at = card.deferred_at /\ c0.blocked_at = card.blocked_at
  BY <1>3 DEF Card
<1> HIDE DEF c0
<1>5. c1 \in Card /\ c1 \in {c0, [c0 EXCEPT !.completed_at = NoStamp]}
  BY <1>3, <1>4, ClocksKeepRest DEF Card
<1>a. c0.status # card.status /\ card.status = "done" => c1 = [c0 EXCEPT !.completed_at = NoStamp]
  BY DEF ClearOnLeavingDone, ClearCompletion
<1> HIDE DEF c1
<1>6. c2 \in Card /\ c2 \in {c1, [c1 EXCEPT !.deferred_at = now]}
  BY <1>3, <1>5, ClocksKeepRest DEF Card
<1>b. c1.status = card.status => c2 = c1
  BY DEF StampDeferred
<1> HIDE DEF c2
<1>7. c3 \in Card /\ c3 \in {c2, [c2 EXCEPT !.blocked_at = now]}
  BY <1>3, <1>6, ClocksKeepRest DEF Card
<1>c. Pair(c2) = Pair(card) => c3 = c2
  BY DEF StampBlocked
<1> HIDE DEF c3
<1>8. /\ c \in Card
      /\ c \in {c3, [c3 EXCEPT !.cancelled_at = now], [c3 EXCEPT !.cancelled_at = NoStamp]}
  BY <1>3, <1>7, ClocksKeepRest DEF Card
<1> HIDE DEF c
<1>d. /\ c1.status = c0.status /\ c1.blocker = c0.blocker /\ c1.dead = c0.dead
      /\ c1.created_at = c0.created_at /\ c1.last_activity = c0.last_activity
      /\ c1.deferred_at = c0.deferred_at /\ c1.blocked_at = c0.blocked_at
      /\ c1.completed_at \in {c0.completed_at, NoStamp}
  BY <1>4, <1>5 DEF Card
<1>e. /\ c2.status = c1.status /\ c2.blocker = c1.blocker /\ c2.dead = c1.dead
      /\ c2.created_at = c1.created_at /\ c2.last_activity = c1.last_activity
      /\ c2.deferred_at \in {c1.deferred_at, now} /\ c2.blocked_at = c1.blocked_at
      /\ c2.completed_at = c1.completed_at
  BY <1>5, <1>6 DEF Card
<1>f. /\ c3.status = c2.status /\ c3.blocker = c2.blocker /\ c3.dead = c2.dead
      /\ c3.created_at = c2.created_at /\ c3.last_activity = c2.last_activity
      /\ c3.deferred_at = c2.deferred_at /\ c3.blocked_at \in {c2.blocked_at, now}
      /\ c3.completed_at = c2.completed_at
  BY <1>6, <1>7 DEF Card
<1>g. /\ c.status = c3.status /\ c.blocker = c3.blocker /\ c.dead = c3.dead
      /\ c.created_at = c3.created_at /\ c.last_activity = c3.last_activity
      /\ c.deferred_at = c3.deferred_at /\ c.blocked_at = c3.blocked_at
      /\ c.completed_at = c3.completed_at
  BY <1>7, <1>8 DEF Card
<1>10. c.completed_at # NoStamp => c.status = "done"
  <2>1. CASE c0.status = card.status \/ card.status # "done"
    BY <1>3, <1>4, <1>d, <1>e, <1>f, <1>g, <2>1
  <2>2. CASE c0.status # card.status /\ card.status = "done"
    <3>1. c1.completed_at = NoStamp
      BY <1>4, <1>a, <2>2 DEF Card
    <3>2. QED
      BY <1>e, <1>f, <1>g, <3>1
  <2>3. QED
    BY <2>1, <2>2
<1>11. ASSUME Pair(c) = Pair(card)
       PROVE  c.deferred_at = card.deferred_at /\ c.blocked_at = card.blocked_at
  <2>1. c.status = card.status /\ c.blocker = card.blocker
    BY <1>11 DEF Pair
  <2>2. c2 = c1 /\ c3 = c2
    BY <1>b, <1>c, <1>d, <1>e, <1>f, <1>g, <2>1 DEF Pair
  <2>3. QED
    BY <1>4, <1>d, <1>g, <2>2
<1>12. Faithful(c)
  BY <1>2, <1>3, <1>4, <1>8, <1>10, <1>11, <1>d, <1>e, <1>f, <1>g, TouchIsFaithful
<1>13. QED
  BY <1>1, <1>12, SaveAskedKeeps

\* What clearing the completion stamp on the way out of done leaves.
LEMMA LeavingDone ==
  ASSUME NEW c \in Card, NEW prior \in Card, NEW r, r = ClearOnLeavingDone(c, prior),
         ~prior.dead => (prior.completed_at # NoStamp => prior.status = "done"),
         c.completed_at = prior.completed_at
  PROVE  /\ r \in Card /\ r.status = c.status /\ r.blocker = c.blocker /\ r.dead = c.dead
         /\ r.created_at = c.created_at /\ r.last_activity = c.last_activity
         /\ r.deferred_at = c.deferred_at /\ r.blocked_at = c.blocked_at
         /\ r.cancelled_at = c.cancelled_at
         /\ r.status = prior.status => r = c
         /\ ~prior.dead => (r.completed_at # NoStamp => r.status = "done")
<1>1. r \in {c, [c EXCEPT !.completed_at = NoStamp]}
  BY DEF ClearOnLeavingDone, ClearCompletion
<1>2. /\ r \in Card /\ r.status = c.status /\ r.blocker = c.blocker /\ r.dead = c.dead
      /\ r.created_at = c.created_at /\ r.last_activity = c.last_activity
      /\ r.deferred_at = c.deferred_at /\ r.blocked_at = c.blocked_at
      /\ r.cancelled_at = c.cancelled_at
  BY <1>1 DEF Card, Stamp
<1>3. r.status = prior.status => r = c
  BY <1>2 DEF ClearOnLeavingDone
<1>4. prior.status = "done" /\ r.status # "done" => r.completed_at = NoStamp
  <2>1. prior.status = "done" /\ c.status # "done" => r = [c EXCEPT !.completed_at = NoStamp]
    BY DEF ClearOnLeavingDone, ClearCompletion
  <2>2. QED
    BY <1>2, <2>1 DEF Card
<1>5. prior.status # "done" => r = c
  BY DEF ClearOnLeavingDone
<1>6. QED
  BY <1>2, <1>3, <1>4, <1>5

LEMMA UpsertStep ==
  ASSUME IInv, NEW s \in Status, NEW b \in Blocker, Upsert(s, b)
  PROVE  IInv'
<1>1. CASE ~Present /\ SaveAsked([Born(s, b) EXCEPT !.created_at = NoStamp])
  <2> DEFINE c == [Born(s, b) EXCEPT !.created_at = NoStamp]
  <2>1. Validates(c) /\ ~Live
    BY <1>1 DEF SaveAsked, Live
  <2>2. b # "none" => s = "blocked"
    BY <2>1 DEF Validates, Born
  <2>3. Sound(Born(s, b)) /\ Past(Born(s, b)) /\ Born(s, b) \in Card
    BY <2>2, BornIsSound
  <2>4. now \in Time /\ now \in Nat /\ 1 <= now /\ NoStamp \in Stamp
    BY CardLifecycleAssumption DEF IInv, TypeOK, Time, Stamp
  <2>5. c \in Card /\ Sound(c)
    BY <2>1, <2>3, <2>4 DEF Sound, Card
  <2>6. Past(c)
    BY <2>3, <2>4 DEF Past, Born, NoStamp
  <2>7. QED
    BY <1>1, <2>1, <2>5, <2>6, NewIsFaithful, SaveAskedKeeps
<1>2. ASSUME Live,
             Save("upsert", DropGate(ClearOnLeavingDone(
               [card EXCEPT !.status = s, !.last_activity = now,
                  !.blocker = IF s = "blocked" /\ b # "none" THEN b ELSE @], card)))
      PROVE  IInv'
  <2> DEFINE c0 == [card EXCEPT !.status = s, !.last_activity = now,
                      !.blocker = IF s = "blocked" /\ b # "none" THEN b ELSE @]
             c1 == ClearOnLeavingDone(c0, card)
             c == DropGate(c1)
  <2>1. /\ Present /\ ~card.dead /\ card \in Card /\ now \in Time /\ Validates(card)
        /\ "none" \in Blocker
        /\ card.completed_at # NoStamp => card.status = "done"
    BY <1>2, Stored
  <2>2. /\ c0 \in Card /\ c0.dead = card.dead /\ c0.created_at = card.created_at
        /\ c0.last_activity = now /\ c0.completed_at = card.completed_at
        /\ c0.deferred_at = card.deferred_at /\ c0.blocked_at = card.blocked_at
    BY <2>1 DEF Card
  <2> HIDE DEF c0
  <2>3. /\ c1 \in Card /\ c1.dead = card.dead /\ c1.created_at = card.created_at
        /\ c1.last_activity = now
        /\ c1.deferred_at = card.deferred_at /\ c1.blocked_at = card.blocked_at
        /\ c1.completed_at # NoStamp => c1.status = "done"
    BY <2>1, <2>2, LeavingDone
  <2> HIDE DEF c1
  <2>4. /\ c \in Card /\ c.dead = card.dead /\ c.created_at = card.created_at
        /\ c.last_activity = now /\ c.status = c1.status /\ c.completed_at = c1.completed_at
        /\ c.deferred_at = card.deferred_at /\ c.blocked_at = card.blocked_at
        /\ Validates(c)
    BY <2>1, <2>3 DEF DropGate, Card, Validates
  <2>5. Faithful(c)
    <3> HIDE DEF c
    <3>1. QED
      BY <2>1, <2>3, <2>4, TouchIsFaithful
  <2>6. QED
    <3>1. Save("upsert", c)
      BY <1>2 DEF c0, c1
    <3> HIDE DEF c
    <3>2. QED
      BY <2>5, <3>1, SaveKeeps
<1>3. QED
  BY <1>1, <1>2 DEF Upsert

\* The verbs that touch status, gate and completion stamp and nothing else.
LEMMA TouchStep ==
  ASSUME IInv, Present, NEW verb, NEW s \in Status, NEW b \in Blocker, NEW t \in Stamp,
         NEW l \in {card.last_activity, now},
         b # "none" => s = "blocked", ~card.dead /\ t # NoStamp => s = "done",
         NEW c, c = [card EXCEPT !.status = s, !.blocker = b, !.completed_at = t,
                                 !.last_activity = l],
         Save(verb, c)
  PROVE  IInv'
<1>1. card \in Card /\ now \in Time
  BY Stored
<1>2. /\ c \in Card /\ c.status = s /\ c.blocker = b /\ c.completed_at = t
      /\ c.dead = card.dead /\ c.created_at = card.created_at
      /\ c.last_activity = l
      /\ c.deferred_at = card.deferred_at /\ c.blocked_at = card.blocked_at
  BY <1>1 DEF Card
<1>3. Validates(c)
  BY <1>2 DEF Validates
<1>4. Faithful(c)
  BY <1>2, <1>3, TouchIsFaithful
<1>5. QED
  BY <1>4, SaveKeeps

LEMMA VerbStep ==
  ASSUME IInv, Complete \/ Resolve \/ Reopen \/ Comment \/ HelpClear
  PROVE  IInv'
<1>1. /\ now \in Time /\ now \in Stamp /\ NoStamp \in Stamp
      /\ OperatorDecision \in Blocker /\ "none" \in Blocker
      /\ Present => card \in Card /\ Validates(card)
      /\ Live => /\ Present /\ ~card.dead
                 /\ card.completed_at # NoStamp => card.status = "done"
  BY Stored
<1>2. CASE Complete
  <2>1. /\ Live
        /\ Save("complete", [card EXCEPT !.status = "done", !.blocker = "none",
                               !.completed_at = now, !.last_activity = now])
    BY <1>2 DEF Complete
  <2>2. QED
    BY <1>1, <2>1, TouchStep DEF Status
<1>3. CASE Resolve
  <2>1. /\ Live
        /\ Save("resolve", [card EXCEPT !.status = "done", !.blocker = "none",
                              !.last_activity = now])
    BY <1>3 DEF Resolve
  <2>2. [card EXCEPT !.status = "done", !.blocker = "none", !.last_activity = now]
          = [card EXCEPT !.status = "done", !.blocker = "none",
               !.completed_at = card.completed_at, !.last_activity = now]
    BY <1>1, <2>1 DEF Card
  <2>3. card.completed_at \in Stamp
    BY <1>1, <2>1 DEF Card
  <2>4. QED
    BY <1>1, <2>1, <2>2, <2>3, TouchStep DEF Status
<1>4. CASE Reopen
  <2>1. /\ Live
        /\ Save("reopen", ClearCompletion([card EXCEPT !.status = "blocked",
                            !.blocker = OperatorDecision, !.last_activity = now]))
    BY <1>4 DEF Reopen
  <2>2. ClearCompletion([card EXCEPT !.status = "blocked",
                            !.blocker = OperatorDecision, !.last_activity = now])
          = [card EXCEPT !.status = "blocked", !.blocker = OperatorDecision,
               !.completed_at = NoStamp, !.last_activity = now]
    BY <1>1, <2>1 DEF Card, ClearCompletion
  <2>3. QED
    BY <1>1, <2>1, <2>2, TouchStep DEF Status
<1>5. CASE Comment
  <2>1. Live /\ Save("comment", [card EXCEPT !.last_activity = now])
    BY <1>5 DEF Comment
  <2>2. [card EXCEPT !.last_activity = now]
          = [card EXCEPT !.status = card.status, !.blocker = card.blocker,
               !.completed_at = card.completed_at, !.last_activity = now]
    BY <1>1, <2>1 DEF Card
  <2>3. card.completed_at \in Stamp /\ card.status \in Status /\ card.blocker \in Blocker
    BY <1>1, <2>1 DEF Card
  <2>4. QED
    BY <1>1, <2>1, <2>2, <2>3, TouchStep DEF Validates
<1>6. CASE HelpClear
  <2>1. /\ Present
        /\ Save("help_clear", [card EXCEPT !.status = "done", !.blocker = "none",
                                 !.last_activity = now])
    BY <1>6 DEF HelpClear
  <2>2. [card EXCEPT !.status = "done", !.blocker = "none", !.last_activity = now]
          = [card EXCEPT !.status = "done", !.blocker = "none",
               !.completed_at = card.completed_at, !.last_activity = now]
    BY <1>1, <2>1 DEF Card
  <2>3. card.completed_at \in Stamp
    BY <1>1, <2>1 DEF Card
  <2>4. QED
    BY <1>1, <2>1, <2>2, <2>3, TouchStep DEF Status
<1>7. QED
  BY <1>2, <1>3, <1>4, <1>5, <1>6

LEMMA HelpWaitStep ==
  ASSUME IInv, HelpWait
  PROVE  IInv'
<1>1. /\ now \in Time /\ OperatorDecision \in Blocker /\ OperatorDecision # "none"
      /\ Present => card \in Card /\ Validates(card)
      /\ Live => /\ Present /\ ~card.dead
                 /\ card.completed_at # NoStamp => card.status = "done"
  BY Stored
<1>2. CASE Present
  <2> DEFINE c0 == [card EXCEPT !.status = "blocked", !.blocker = OperatorDecision,
                                !.last_activity = now]
             c == ClearOnLeavingDone(c0, card)
  <2>1. Save("help_wait", c)
    BY <1>2 DEF HelpWait
  <2>2. /\ c0 \in Card /\ c0.dead = card.dead /\ c0.created_at = card.created_at
        /\ c0.last_activity = now /\ c0.completed_at = card.completed_at
        /\ c0.deferred_at = card.deferred_at /\ c0.blocked_at = card.blocked_at
        /\ c0.status = "blocked"
    BY <1>1, <1>2 DEF Card, Status
  <2>3. ~card.dead => (card.completed_at # NoStamp => card.status = "done")
    BY <1>1, <1>2 DEF Live
  <2> HIDE DEF c0
  <2>4. /\ c \in Card /\ c.dead = card.dead /\ c.created_at = card.created_at
        /\ c.last_activity = now /\ c.status = "blocked"
        /\ c.deferred_at = card.deferred_at /\ c.blocked_at = card.blocked_at
        /\ ~card.dead => (c.completed_at # NoStamp => c.status = "done")
    BY <1>1, <1>2, <2>2, <2>3, LeavingDone
  <2> HIDE DEF c
  <2>5. Faithful(c)
    BY <1>1, <1>2, <2>4, TouchIsFaithful DEF Validates
  <2>6. QED
    BY <2>1, <2>5, SaveKeeps
<1>3. CASE ~Present
  <2>1. Save("help_wait", Born("blocked", OperatorDecision))
    BY <1>3 DEF HelpWait
  <2>2. Sound(Born("blocked", OperatorDecision)) /\ Past(Born("blocked", OperatorDecision))
    BY <1>1, BornIsSound DEF Status
  <2>3. QED
    BY <1>3, <2>1, <2>2, NewIsFaithful, SaveKeeps DEF Live
<1>4. QED
  BY <1>2, <1>3

LEMMA BoardReopenStep ==
  ASSUME IInv, NEW s \in Status, NEW b \in Blocker, BoardReopen(s, b)
  PROVE  IInv'
<1> DEFINE c0 == [card EXCEPT !.status = s,
                    !.blocker = IF s # "blocked" THEN "none"
                                ELSE IF b = "none" THEN OperatorDecision ELSE b]
           c == ClearOnLeavingDone(c0, card)
<1>1. Present /\ Save("board_reopen", c)
  BY DEF BoardReopen
<1>2. /\ now \in Time /\ OperatorDecision \in Blocker /\ "none" \in Blocker
      /\ card \in Card
      /\ ~card.dead => (card.completed_at # NoStamp => card.status = "done")
  BY <1>1, Stored DEF Live
<1>3. /\ c0 \in Card /\ c0.dead = card.dead /\ c0.created_at = card.created_at
      /\ c0.last_activity = card.last_activity /\ c0.completed_at = card.completed_at
      /\ c0.deferred_at = card.deferred_at /\ c0.blocked_at = card.blocked_at
      /\ Validates(c0)
  BY <1>2 DEF Card, Validates
<1> HIDE DEF c0
<1>4. /\ c \in Card /\ c.dead = card.dead /\ c.created_at = card.created_at
      /\ c.last_activity = card.last_activity
      /\ c.status = c0.status /\ c.blocker = c0.blocker
      /\ c.deferred_at = card.deferred_at /\ c.blocked_at = card.blocked_at
      /\ ~card.dead => (c.completed_at # NoStamp => c.status = "done")
  BY <1>2, <1>3, LeavingDone
<1> HIDE DEF c
<1>5. Faithful(c)
  BY <1>1, <1>3, <1>4, TouchIsFaithful DEF Validates
<1>6. QED
  BY <1>1, <1>5, SaveKeeps

-----------------------------------------------------------------------------
\* Deletion and its Undo.

LEMMA RestoredIsSound ==
  ASSUME IInv, NEW c \in Card, Past(c)
  PROVE  Sound(Restored(c)) /\ Past(Restored(c)) /\ Restored(c) \in Card
<1>1. NoStamp \in Stamp /\ "none" \in Blocker
  BY Stored
<1> DEFINE d == DropGate(c)
<1>2. /\ d \in Card /\ Validates(d) /\ d.status = c.status
      /\ d.created_at = c.created_at /\ d.last_activity = c.last_activity
      /\ d.deferred_at = c.deferred_at /\ d.blocked_at = c.blocked_at
  BY <1>1 DEF DropGate, Card, Validates
<1> HIDE DEF d
<1>3. Restored(c) = IF c.status = "done" THEN d ELSE [d EXCEPT !.completed_at = NoStamp]
  BY DEF Restored, ClearCompletion, d
<1>4. /\ Restored(c) \in Card /\ Validates(Restored(c)) /\ Past(Restored(c))
      /\ Restored(c).status = c.status
  BY <1>1, <1>2, <1>3 DEF Card, Validates, Past
<1>5. c.status # "done" => Restored(c).completed_at = NoStamp
  BY <1>2, <1>3 DEF Card
<1>6. QED
  BY <1>4, <1>5 DEF Sound

LEMMA RestoreStep ==
  ASSUME IInv, Restore \/ BoardRestore
  PROVE  IInv'
<1>1. CASE Restore
  <2> DEFINE r == Restored(undo.row)
             c == [r EXCEPT !.last_activity = now]
  <2>1. ~Live /\ Save("restore", c) /\ undo.by = "delete"
    BY <1>1 DEF Restore
  <2>2. undo.row \in Card /\ Past(undo.row) /\ now \in Time /\ now \in Nat /\ Time \subseteq Nat
        /\ Stamp \subseteq Nat
    BY <2>1, CardLifecycleAssumption DEF IInv, Payload, TypeOK, Time, Stamp, NoStamp
  <2>3. Sound(r) /\ Past(r) /\ r \in Card
    BY <2>2, RestoredIsSound
  <2> HIDE DEF r
  <2>4. /\ c \in Card /\ c.status = r.status /\ c.blocker = r.blocker /\ c.dead = r.dead
        /\ c.completed_at = r.completed_at /\ c.created_at = r.created_at
        /\ c.last_activity = now /\ c.deferred_at = r.deferred_at
        /\ c.blocked_at = r.blocked_at
    BY <2>2, <2>3 DEF Card
  <2>5. r.created_at \in Nat /\ r.last_activity \in Nat
    BY <2>2, <2>3 DEF Card
  <2>6. Sound(c) /\ Past(c)
    <3> HIDE DEF c
    <3>1. Sound(c)
      BY <2>3, <2>4 DEF Sound, Validates
    <3>2. Past(c)
      BY <2>2, <2>3, <2>4, <2>5 DEF Past
    <3>3. QED
      BY <3>1, <3>2
  <2>7. QED
    BY <2>1, <2>6, NewIsFaithful, SaveKeeps
<1>2. CASE BoardRestore
  <2>1. undo.by = "board" /\ undo.row \in Card /\ Past(undo.row)
    BY <1>2 DEF BoardRestore, IInv, Payload
  <2>2. CASE ~Present /\ Save("board_restore", Restored(undo.row))
    <3>1. Sound(Restored(undo.row)) /\ Past(Restored(undo.row))
      BY <2>1, RestoredIsSound
    <3>2. QED
      BY <2>2, <3>1, NewIsFaithful, SaveKeeps DEF Live
  <2>3. CASE undone' = TRUE /\ UNCHANGED <<card, now, undo, before, since, refused>>
    BY <2>3 DEF IInv, TypeOK, CardInv, Payload, Present, Sound, Past, Aged, Validates,
                BlockedClock, DeferredClock, Snapshot, HasMeta
  <2>4. QED
    BY <1>2, <2>2, <2>3 DEF BoardRestore
<1>3. QED
  BY <1>1, <1>2

LEMMA DeleteStep ==
  ASSUME IInv, Delete \/ BoardDelete
  PROVE  IInv'
<1>1. /\ Present /\ card \in Card /\ Sound(card) /\ Past(card) /\ now' = now
      /\ refused' = refused /\ before' = card
      /\ now \in Time /\ Time \subseteq Stamp /\ NoStamp \in Stamp /\ "none" \in Blocker
  BY Stored DEF Delete, BoardDelete, Live, Present, IInv, CardInv
<1>2. now \in Nat /\ Time \subseteq Nat /\ Stamp \subseteq Nat
  BY <1>1, CardLifecycleAssumption DEF Time, Stamp, NoStamp
<1>3. CASE Delete
  <2>1. /\ undo' = [by |-> "delete", row |-> Snapshot(card)]
        /\ card' = Tombstone(card) /\ since' \in {since, now}
    BY <1>3 DEF Delete, Put
  <2>2. Snapshot(card) \in Card /\ Past(Snapshot(card))
    BY <1>1 DEF Snapshot, HasMeta, Card, Past
  <2>3. Tombstone(card) \in Card /\ Sound(Tombstone(card)) /\ Tombstone(card).dead
    BY <1>1 DEF Tombstone, Sound, Validates, Card, Status
  <2>4. Past(Tombstone(card))
    BY <1>1, <1>2 DEF Tombstone, Past, Card
  <2>5. TypeOK'
    BY <1>1, <2>1, <2>2, <2>3 DEF IInv, TypeOK
  <2>6. CardInv'
    BY <1>1, <2>1, <2>3, <2>4 DEF CardInv, Sound, Past, Validates
  <2>7. Payload'
    BY <1>1, <2>1, <2>2 DEF Payload, Sound, Past, Validates, Snapshot, HasMeta
  <2>8. QED
    BY <1>1, <2>5, <2>6, <2>7 DEF IInv
<1>4. CASE BoardDelete
  <2>1. /\ undo' = [by |-> "board", row |-> card] /\ card' = NoCard /\ since' = NoStamp
    BY <1>4 DEF BoardDelete
  <2>2. TypeOK'
    BY <1>1, <2>1 DEF IInv, TypeOK
  <2>3. CardInv'
    BY <2>1 DEF CardInv, Present
  <2>4. Payload'
    BY <1>1, <2>1 DEF Payload, Sound, Past, Validates
  <2>5. QED
    BY <1>1, <2>2, <2>3, <2>4 DEF IInv
<1>5. QED
  BY <1>3, <1>4

LEMMA TickStep ==
  ASSUME IInv, Tick
  PROVE  IInv'
<1>1. /\ now \in Nat /\ now' = now + 1 /\ now' \in Time /\ Stamp \subseteq Nat /\ Time \subseteq Nat
  BY CardLifecycleAssumption DEF IInv, TypeOK, Tick, Time, Stamp, NoStamp
<1>2. UNCHANGED <<card, undo, before, undone, since, refused, writes>>
  BY DEF Tick
<1>3. ASSUME NEW c \in Card, Past(c)
      PROVE  Past(c)'
  <2>1. c.last_activity \in Nat /\ c.deferred_at \in Nat /\ c.blocked_at \in Nat
    BY <1>1 DEF Card
  <2>2. QED
    BY <1>1, <1>3, <2>1 DEF Past
<1>4. TypeOK'
  BY <1>1, <1>2 DEF IInv, TypeOK
<1>5. CardInv'
  <2>1. Present => Past(card)'
    BY <1>2, <1>3 DEF IInv, CardInv, Sound
  <2>2. QED
    BY <1>2, <2>1 DEF IInv, CardInv, Present, Sound, Past, Aged, Validates,
                      BlockedClock, DeferredClock
<1>6. Payload'
  <2>1. undo.by # "nobody" => Past(undo.row)'
    BY <1>2, <1>3 DEF IInv, Payload
  <2>2. QED
    BY <1>2, <2>1 DEF IInv, Payload, Sound, Past, Validates, Snapshot, HasMeta
<1>7. QED
  BY <1>2, <1>4, <1>5, <1>6 DEF IInv

-----------------------------------------------------------------------------
\* The theorems.

LEMMA Inductive ==
  IInv /\ [Next]_vars => IInv'
<1> SUFFICES ASSUME IInv, [Next]_vars
             PROVE  IInv'
  OBVIOUS
<1>1. CASE Tick
  BY <1>1, TickStep
<1>2. ASSUME NEW s \in Status, NEW b \in Blocker, Add(s, b)
      PROVE  IInv'
  BY <1>2, AddStep
<1>3. ASSUME NEW s \in Status, NEW b \in Blocker, Upsert(s, b)
      PROVE  IInv'
  BY <1>3, UpsertStep
<1>4. ASSUME NEW s \in Status, NEW b \in Blocker, BoardReopen(s, b)
      PROVE  IInv'
  BY <1>4, BoardReopenStep
<1>5. ASSUME NEW s \in Status \cup {Untouched}, NEW b \in Blocker \cup {Untouched}, Update(s, b)
      PROVE  IInv'
  BY <1>5, UpdateStep
<1>6. CASE Complete \/ Resolve \/ Reopen \/ Comment \/ HelpClear
  BY <1>6, VerbStep
<1>7. CASE HelpWait
  BY <1>7, HelpWaitStep
<1>8. CASE Delete \/ BoardDelete
  BY <1>8, DeleteStep
<1>9. CASE Restore \/ BoardRestore
  BY <1>9, RestoreStep
<1>10. CASE UNCHANGED vars
  BY <1>10 DEF vars, IInv, TypeOK, CardInv, Payload, Present, Sound, Past, Aged, Validates,
               BlockedClock, DeferredClock, Snapshot, HasMeta
<1>11. QED
  BY <1>1, <1>2, <1>3, <1>4, <1>5, <1>6, <1>7, <1>8, <1>9, <1>10 DEF Next

LEMMA InitInv ==
  Init => IInv
BY CardLifecycleAssumption
DEF Init, IInv, TypeOK, CardInv, Payload, Present, NoUndo, Time, Stamp, NoStamp

\* The invariant the properties follow from holds in every state.
THEOREM Invariant == Spec => []IInv
BY InitInv, Inductive, PTL DEF Spec

\* Every variable keeps its type, whatever order the verbs come in.
THEOREM LifecycleTypeCorrect == Spec => []TypeOK
<1>1. IInv => TypeOK
  BY DEF IInv
<1>2. QED
  BY <1>1, Invariant, PTL

\* No verb makes a card look younger in its state than it is: the sweeps that
\* wait for it are never silenced, but for the cards AlarmNotSilenced excepts.
THEOREM NoAlarmSilenced == Spec => []AlarmNotSilenced
<1>1. IInv => AlarmNotSilenced
  BY DEF IInv, CardInv, AlarmNotSilenced, Aged, Live
<1>2. QED
  BY <1>1, Invariant, PTL

\* A live card with a completion stamp is done, whatever path it took.
THEOREM StampMeansDone == Spec => []CompletionStampOnlyOnDone
<1>1. IInv => CompletionStampOnlyOnDone
  BY DEF IInv, CardInv, CompletionStampOnlyOnDone, Sound, Live
<1>2. QED
  BY <1>1, Invariant, PTL

\* No verb that chooses the status itself is ever refused by the validator.
THEOREM ValidatorNeverTripped == Spec => []NoVerbTripsTheValidator
<1>1. IInv => NoVerbTripsTheValidator
  BY DEF IInv, NoVerbTripsTheValidator
<1>2. QED
  BY <1>1, Invariant, PTL

\* Restoring a snapshot that shares nothing with its tombstone changes nothing.
LEMMA RestoredIsSame ==
  ASSUME NEW c \in Card, Sound(c), ~c.dead
  PROVE  Restored(c) = c
<1>1. DropGate(c) = c
  BY DEF DropGate, Sound, Validates, Card
<1>2. c.status # "done" => [c EXCEPT !.completed_at = NoStamp] = c
  BY DEF Sound, Card
<1>3. QED
  BY <1>1, <1>2 DEF Restored, ClearCompletion

\* An Undo that answers success brings the card back as it was, unless the
\* payload shares its _log_meta with the tombstone, or the board finds the id
\* taken: then it answers success too, and leaves the card it finds alone.
THEOREM UndoIsFaithful == Spec => UndoGivesBack
<1> DEFINE Outcome == IF undo.by = "board" /\ Present THEN card' = card
                      ELSE card' = [before EXCEPT !.last_activity = card'.last_activity]
           Back == ~undone /\ undone' /\ ~before.dead
                   /\ (undo.by = "delete" => ~HasMeta(before)) => Outcome
<1>1. ASSUME IInv, [Next]_vars, ~undone, undone', ~before.dead,
             undo.by = "delete" => ~HasMeta(before)
      PROVE  Outcome
  <2>1. Restore \/ BoardRestore
    <3>1. ~Tick /\ ~Delete /\ ~BoardDelete /\ ~UNCHANGED vars
      BY <1>1 DEF Tick, Delete, BoardDelete, vars
    <3>2. \A s \in Status, b \in Blocker : ~Add(s, b) /\ ~Upsert(s, b) /\ ~BoardReopen(s, b)
      BY <1>1 DEF Add, Upsert, BoardReopen, Save, SaveAsked
    <3>3. \A s \in Status \cup {Untouched}, b \in Blocker \cup {Untouched} : ~Update(s, b)
      BY <1>1 DEF Update, Save, SaveAsked
    <3>4. ~Complete /\ ~Resolve /\ ~Reopen /\ ~Comment /\ ~HelpWait /\ ~HelpClear
      BY <1>1 DEF Complete, Resolve, Reopen, Comment, HelpWait, HelpClear, Save
    <3>5. QED
      BY <1>1, <3>1, <3>2, <3>3, <3>4 DEF Next
  <2>2. undo.by # "nobody"
    BY <2>1 DEF Restore, BoardRestore
  <2>3. Sound(before) /\ before \in Card /\ Restored(before) = before /\ now \in Time
    BY <1>1, <2>2, RestoredIsSame DEF IInv, Payload, Sound, TypeOK
  <2>4. CASE Restore
    <3>1. undo.row = before
      BY <1>1, <2>3, <2>4 DEF Restore, IInv, Payload, Snapshot, Card
    <3>2. Save("restore", [before EXCEPT !.last_activity = now])
      BY <2>3, <2>4, <3>1 DEF Restore
    <3>3. Validates([before EXCEPT !.last_activity = now])
      BY <2>3 DEF Sound, Validates, Card
    <3>4. card' = [before EXCEPT !.last_activity = now]
      BY <3>2, <3>3 DEF Save, Put
    <3>5. undo.by = "delete"
      BY <2>4 DEF Restore
    <3>6. QED
      BY <2>3, <3>4, <3>5 DEF Card
  <2>5. CASE BoardRestore /\ ~Present
    <3>1. undo.row = before /\ Save("board_restore", Restored(undo.row))
      BY <1>1, <2>5 DEF BoardRestore, IInv, Payload, Present
    <3>2. card' = before
      BY <2>3, <3>1 DEF Save, Put, Sound
    <3>3. QED
      BY <2>3, <2>5, <3>2 DEF Card
  <2>6. CASE BoardRestore /\ Present
    BY <2>6 DEF BoardRestore
  <2>7. QED
    BY <2>1, <2>4, <2>5, <2>6
<1>2. IInv /\ [Next]_vars => [Back]_vars
  BY <1>1
<1>3. QED
  BY <1>2, Invariant, PTL DEF Spec, UndoGivesBack

\* Neither stamp of the stored card moves in c.
Frozen(c) ==
  /\ card.completed_at # NoStamp => c.completed_at = card.completed_at
  /\ card.status = "cancelled" => c.cancelled_at = card.cancelled_at \/ c.dead

LEMMA SaveFreezes ==
  ASSUME NEW c, NEW verb, Save(verb, c) \/ SaveAsked(c),
         c.status = card.status => Frozen(c), card'.status = card.status
  PROVE  Frozen(card')
BY DEF Save, SaveAsked, Put, Frozen

\* A done card that stays done keeps its stamp, and no other live one has any.
LEMMA UpdateFreezes ==
  ASSUME IInv, Live, NEW s \in Status \cup {Untouched}, NEW b \in Blocker \cup {Untouched},
         Update(s, b), card'.status = card.status
  PROVE  Frozen(card')
<1> DEFINE c0 == [card EXCEPT !.status = IF s = Untouched THEN @ ELSE s,
                             !.blocker = IF b = Untouched THEN @ ELSE b,
                             !.last_activity = now]
          c1 == ClearOnLeavingDone(c0, card)
          c2 == StampDeferred(c1, card)
          c3 == StampBlocked(c2, card)
          c == StampCancellation(c3, card)
<1>1. card' = c
  BY DEF Update, SaveAsked, Put
<1>2. /\ card \in Card /\ now \in Time /\ now \in Stamp /\ NoStamp \in Stamp
      /\ card.completed_at # NoStamp => card.status = "done"
  BY Stored
<1>3. /\ c0 \in Card /\ c0.completed_at = card.completed_at
      /\ c0.cancelled_at = card.cancelled_at
  BY <1>2 DEF Card
<1> HIDE DEF c0
<1>4. /\ c1 \in Card /\ c1.status = c0.status /\ c1.cancelled_at = c0.cancelled_at
      /\ c1.status = card.status => c1 = c0
  BY <1>2, <1>3, LeavingDone
<1> HIDE DEF c1
<1>5. c2 \in Card /\ c2 \in {c1, [c1 EXCEPT !.deferred_at = now]}
  BY <1>2, <1>4, ClocksKeepRest DEF Card
<1> HIDE DEF c2
<1>6. c3 \in Card /\ c3 \in {c2, [c2 EXCEPT !.blocked_at = now]}
  BY <1>2, <1>5, ClocksKeepRest DEF Card
<1>7. c3.status = card.status => c = c3
  BY DEF StampCancellation
<1>8. c.status = c3.status
  BY <1>2, <1>6 DEF StampCancellation, Card
<1> HIDE DEF c3, c
<1>9. /\ c2.status = c1.status /\ c2.completed_at = c1.completed_at
      /\ c2.cancelled_at = c1.cancelled_at
  BY <1>4, <1>5 DEF Card
<1>10. /\ c3.status = c2.status /\ c3.completed_at = c2.completed_at
       /\ c3.cancelled_at = c2.cancelled_at
  BY <1>5, <1>6 DEF Card
<1>11. QED
  BY <1>1, <1>3, <1>4, <1>7, <1>8, <1>9, <1>10 DEF Frozen

LEMMA OthersFreeze ==
  ASSUME IInv, Live, card' # NoCard, card'.status = card.status, Next,
         ~\E s \in Status \cup {Untouched}, b \in Blocker \cup {Untouched} : Update(s, b)
  PROVE  Frozen(card')
<1>1. /\ Present /\ ~card.dead /\ card \in Card /\ now \in Time /\ NoStamp \in Stamp
      /\ card.completed_at # NoStamp => card.status = "done"
  BY Stored
<1>2. ASSUME NEW s \in Status, NEW b \in Blocker, Upsert(s, b)
      PROVE  Frozen(card')
  <2> DEFINE c0 == [card EXCEPT !.status = s, !.last_activity = now,
                      !.blocker = IF s = "blocked" /\ b # "none" THEN b ELSE @]
             c1 == ClearOnLeavingDone(c0, card)
             c == DropGate(c1)
  <2>1. Save("upsert", c)
    BY <1>1, <1>2 DEF Upsert
  <2>2. /\ c0 \in Card /\ c0.completed_at = card.completed_at
        /\ c0.cancelled_at = card.cancelled_at
    BY <1>1 DEF Card
  <2> HIDE DEF c0
  <2>3. /\ c1 \in Card /\ c1.status = c0.status /\ c1.cancelled_at = c0.cancelled_at
        /\ c1.status = card.status => c1 = c0
    BY <1>1, <2>2, LeavingDone
  <2> HIDE DEF c1
  <2>4. /\ c.status = c1.status /\ c.completed_at = c1.completed_at
        /\ c.cancelled_at = c1.cancelled_at
    BY <2>3 DEF DropGate, Card
  <2> HIDE DEF c
  <2>5. QED
    BY <2>1, <2>2, <2>3, <2>4, SaveFreezes DEF Frozen
<1>3. ASSUME NEW s \in Status, NEW b \in Blocker, BoardReopen(s, b)
      PROVE  Frozen(card')
  <2> DEFINE c0 == [card EXCEPT !.status = s,
                      !.blocker = IF s # "blocked" THEN "none"
                                  ELSE IF b = "none" THEN OperatorDecision ELSE b]
             c == ClearOnLeavingDone(c0, card)
  <2>1. Save("board_reopen", c)
    BY <1>3 DEF BoardReopen
  <2>2. /\ c0 \in Card /\ c0.completed_at = card.completed_at
        /\ c0.cancelled_at = card.cancelled_at
    BY <1>1, Stored DEF Card
  <2> HIDE DEF c0
  <2>3. /\ c.status = c0.status /\ c.cancelled_at = c0.cancelled_at
        /\ c.status = card.status => c = c0
    BY <1>1, <2>2, LeavingDone
  <2> HIDE DEF c
  <2>4. QED
    BY <2>1, <2>2, <2>3, SaveFreezes DEF Frozen
<1>4. CASE HelpWait
  <2> DEFINE c0 == [card EXCEPT !.status = "blocked", !.blocker = OperatorDecision,
                                !.last_activity = now]
             c == ClearOnLeavingDone(c0, card)
  <2>1. Save("help_wait", c)
    BY <1>1, <1>4 DEF HelpWait
  <2>2. /\ c0 \in Card /\ c0.completed_at = card.completed_at
        /\ c0.cancelled_at = card.cancelled_at
    BY <1>1, Stored DEF Card, Status
  <2> HIDE DEF c0
  <2>3. /\ c.status = c0.status /\ c.cancelled_at = c0.cancelled_at
        /\ c.status = card.status => c = c0
    BY <1>1, <2>2, LeavingDone
  <2> HIDE DEF c
  <2>4. QED
    BY <2>1, <2>2, <2>3, SaveFreezes DEF Frozen
<1>5. CASE Complete
  BY <1>1, <1>5 DEF Complete, Save, Put, Frozen, Card
<1>6. CASE Resolve
  BY <1>1, <1>6 DEF Resolve, Save, Put, Frozen, Card
<1>7. CASE Reopen
  BY <1>1, <1>7 DEF Reopen, ClearCompletion, Save, Put, Frozen, Card
<1>8. CASE Comment
  BY <1>1, <1>8 DEF Comment, Save, Put, Frozen, Card
<1>9. CASE HelpClear
  BY <1>1, <1>9 DEF HelpClear, Save, Put, Frozen, Card
<1>10. CASE Delete
  BY <1>1, <1>10 DEF Delete, Tombstone, Put, Frozen, Card
<1>11. CASE Tick
  BY <1>11 DEF Tick, Frozen
<1>12. CASE BoardRestore
  BY <1>1, <1>12 DEF BoardRestore, Frozen
<1>13. ~Restore /\ ~BoardDelete /\ \A s \in Status, b \in Blocker : ~Add(s, b)
  BY <1>1 DEF Restore, BoardDelete, Add
<1>14. QED
  BY <1>2, <1>3, <1>4, <1>5, <1>6, <1>7, <1>8, <1>9, <1>10, <1>11, <1>12, <1>13 DEF Next

\* A card that stays done, or cancelled, keeps the moment it became so.
THEOREM StampsStayFrozen == Spec => StampsAreFrozen
<1> DEFINE Kept == Live /\ card' # NoCard /\ card'.status = card.status =>
                     /\ card.completed_at # NoStamp => card'.completed_at = card.completed_at
                     /\ card.status = "cancelled" => card'.cancelled_at = card.cancelled_at
                                                     \/ card'.dead
<1>1. ASSUME IInv, [Next]_vars
      PROVE  [Kept]_vars
  <2>1. CASE UNCHANGED vars
    BY <2>1
  <2>2. CASE \E s \in Status \cup {Untouched}, b \in Blocker \cup {Untouched} : Update(s, b)
    BY <1>1, <2>2, UpdateFreezes DEF Frozen
  <2>3. CASE Next /\ ~\E s \in Status \cup {Untouched}, b \in Blocker \cup {Untouched} : Update(s, b)
    BY <1>1, <2>3, OthersFreeze DEF Frozen
  <2>4. QED
    BY <1>1, <2>1, <2>2, <2>3
<1>2. QED
  BY <1>1, Invariant, PTL DEF Spec, StampsAreFrozen
=============================================================================
