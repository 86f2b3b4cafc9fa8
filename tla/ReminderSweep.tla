--------------------------- MODULE ReminderSweep ---------------------------
(***************************************************************************)
(* The reminder sweep of the notify daemons that share one PostgreSQL      *)
(* store: a host claims the sweep (_db_sweep_state.claim_sweep), reads the *)
(* cards, loads the reminder state, visits the owners in order             *)
(* (_reminders.sweep_reminders) and replaces the stored state.  No lock is *)
(* held between these steps; any of them may fail softly, and a host may   *)
(* die between two of them.                                                *)
(*                                                                         *)
(* Time is relative: a stamp holds its distance from now, so a tick of the *)
(* clock ages every stamp and a behaviour may run for ever.  A stamp older *)
(* than every interval and a stamp that was never made compare alike in    *)
(* the code, and are both -Horizon.                                        *)
(***************************************************************************)
EXTENDS Integers, FiniteSets

CONSTANTS
  Host, Skew,         \* daemons, and how far the clock of each is ahead
  Owner, Card,        \* owners are numbers: a sweep visits them in sort order
  OwnerOf,            \* [Card -> Owner]
  Alive,              \* owners the registry calls alive, or does not know
  High,               \* cards whose priority reaches the operator
  ClaimCadence,       \* DEFAULT_REMINDER_CLAIM_MINUTES
  Interval,           \* digest interval of an owner with an active card
  BacklogInterval,    \* and of one with backlog cards only
  Floor,              \* an unchanged digest is repeated after this long
  EscalateAfter,      \* digests before a card goes to the operator
  Horizon,            \* bound: the oldest age a stamp distinguishes
  MaxStall,           \* bound: the ticks that may pass during one sweep
  MaxWork,            \* bound: changes of the cards
  MaxFaults           \* bound: failed reads, writes and enqueues, and crashes

Kind == {"creator", "operator"}
Class == {"quiet", "active", "backlog"}
Never == -Horizon

ASSUME SweepAssumption ==
  /\ Host # {} /\ Owner \subseteq Nat /\ IsFiniteSet(Owner)
  /\ OwnerOf \in [Card -> Owner] /\ Alive \subseteq Owner /\ High \subseteq Card
  /\ Skew \in [Host -> Nat]
  /\ {ClaimCadence, Interval, BacklogInterval, Floor, EscalateAfter}
       \subseteq Nat \ {0}
  /\ Interval =< BacklogInterval
  /\ {MaxStall, MaxWork, MaxFaults} \subseteq Nat
  /\ Horizon \in Nat
  /\ \A d \in {ClaimCadence, BacklogInterval, Floor} : Horizon >= d + MaxStall

VARIABLES
  claim,              \* the claim row: its stamp and the host that wrote it
  class,              \* how the detectors class each card at this moment
  owners,             \* stored state: the entry of each owner
  latches,            \* stored state: the escalation latches of each card
  sweep,              \* the sweep each host is running
  told,               \* history: the last digest in each owner's inbox
  raised,             \* history: escalations of each kind in this stale streak
  lapses,             \* history: "lost" when a sweep died or lost its read or its
                      \* write of the stored state, "overlap" when two ran at once
  faults, work        \* how much of the bounds is used

stored == <<owners, latches>>
history == <<told, raised>>
vars == <<claim, class, owners, latches, sweep, told, raised, lapses, faults,
          work>>

NoDigest == {}
NoEntry == [count |-> 0, last |-> Never, print |-> NoDigest, sent |-> Never]
NoLatches == [c \in Card |-> {}]
Resting == [pc |-> "idle", now |-> 0, view |-> [c \in Card |-> "quiet"],
            owners |-> [o \in Owner |-> NoEntry], latches |-> NoLatches,
            todo |-> {}]
Running(h) == sweep[h].pc # "idle"

Init ==
  /\ claim = [at |-> Never, by |-> CHOOSE h \in Host : TRUE]
  /\ class \in [Card -> Class]
  /\ owners = [o \in Owner |-> NoEntry]
  /\ latches = NoLatches
  /\ sweep = [h \in Host |-> Resting]
  /\ told = [o \in Owner |-> NoDigest]
  /\ raised = [c \in Card |-> [k \in Kind |-> 0]]
  /\ lapses = {}
  /\ faults = 0 /\ work = 0

Fault == faults < MaxFaults /\ faults' = faults + 1
NoFault == UNCHANGED faults

-----------------------------------------------------------------------------
(* The world: time passes and cards are worked on.                         *)

Older(t) == IF t > -Horizon THEN t - 1 ELSE t
OlderEntry(e) == [e EXCEPT !.last = Older(@), !.sent = Older(@)]
OlderEntries(f) == [o \in Owner |-> OlderEntry(f[o])]

Tick ==
  /\ \A h \in Host : Running(h) => sweep[h].now > Skew[h] - MaxStall
  /\ claim' = [claim EXCEPT !.at = Older(@)]
  /\ owners' = OlderEntries(owners)
  /\ sweep' = [h \in Host |->
       IF Running(h)
       THEN [sweep[h] EXCEPT !.now = @ - 1, !.owners = OlderEntries(@)]
       ELSE sweep[h]]
  /\ UNCHANGED <<class, latches, history, lapses, faults, work>>

Work ==
  /\ work < MaxWork
  /\ work' = work + 1
  /\ \E c \in Card, k \in Class :
       class[c] # k /\ class' = [class EXCEPT ![c] = k]
  /\ UNCHANGED <<claim, stored, sweep, history, lapses, faults>>

-----------------------------------------------------------------------------
(* One sweep of host h.                                                    *)

(* Mutant: the claim stays with its winner, like a lock.                   *)
MutHeldClaim(h, cadence) == claim.by = h /\ Skew[h] - claim.at >= cadence

(* _cadence_elapsed: the claimer's clock against the stamp of another's.   *)
CadenceElapsed(h, cadence) == Skew[h] - claim.at >= cadence

(* claim_sweep: one transaction under an advisory lock.  An error answers  *)
(* "claimed", so a store that cannot say stops nobody.                     *)
Claim(h) ==
  /\ ~Running(h)
  /\ \/ /\ CadenceElapsed(h, ClaimCadence)
        /\ claim' = [at |-> Skew[h], by |-> h]
        /\ NoFault
     \/ Fault /\ UNCHANGED claim
  /\ sweep' = [sweep EXCEPT ![h] = [Resting EXCEPT !.pc = "cards", !.now = Skew[h]]]
  /\ lapses' = IF \E g \in Host \ {h} : Running(g)
                THEN lapses \cup {"overlap"} ELSE lapses
  /\ UNCHANGED <<class, stored, history, work>>

(* load_tasks; when it raises, the guard ends the sweep.                   *)
ReadCards(h) ==
  /\ sweep[h].pc = "cards"
  /\ \/ /\ sweep' = [sweep EXCEPT ![h].pc = "state", ![h].view = class]
        /\ NoFault
     \/ /\ sweep' = [sweep EXCEPT ![h] = Resting]
        /\ Fault
  /\ UNCHANGED <<claim, class, stored, history, lapses, work>>

CardsOf(s, o) == {c \in Card : OwnerOf[c] = o /\ s.view[c] # "quiet"}
StaleOwners(s) == {o \in Owner : CardsOf(s, o) # {}}

(* load_reminder_state; a failed read is an empty state, and a warning.    *)
LoadState(h) ==
  /\ sweep[h].pc = "state"
  /\ \/ /\ sweep' = [sweep EXCEPT ![h].pc = "owners", ![h].owners = owners,
                       ![h].latches = latches, ![h].todo = StaleOwners(sweep[h])]
        /\ NoFault /\ UNCHANGED lapses
     \/ /\ sweep' = [sweep EXCEPT ![h].pc = "owners",
                       ![h].todo = StaleOwners(sweep[h])]
        /\ Fault /\ lapses' = lapses \cup {"lost"}
  /\ UNCHANGED <<claim, class, stored, history, work>>

(* _digest_fingerprint: the stale cards and their status.                  *)
Fingerprint(s, o) == {<<c, s.view[c]>> : c \in CardsOf(s, o)}
Due(s, last, interval) == s.now - last >= interval

(* resolve_owner_interval: a backlog card never sets a faster pace.        *)
OwnerInterval(s, o) ==
  IF \E c \in CardsOf(s, o) : s.view[c] = "active" THEN Interval ELSE BacklogInterval

DigestDue(s, o) == Due(s, s.owners[o].last, OwnerInterval(s, o))

(* Deliver on change: the digest the owner has is not repeated before the  *)
(* floor.  Only the enqueue is skipped, never the count.                   *)
Suppressed(s, o) ==
  /\ Fingerprint(s, o) = s.owners[o].print
  /\ ~Due(s, s.owners[o].sent, Floor)

Unlatched(s, o, k) == {c \in CardsOf(s, o) : k \notin s.latches[c]}
CreatorAsked(s, o) == IF o \in Alive THEN {} ELSE Unlatched(s, o, "creator")

MutAsksOnce(s, o) ==
  IF DigestDue(s, o) /\ s.owners[o].count + 1 = EscalateAfter
  THEN Unlatched(s, o, "operator") \cap High ELSE {}

OperatorAsked(s, o) ==
  IF DigestDue(s, o) /\ s.owners[o].count + 1 >= EscalateAfter
  THEN Unlatched(s, o, "operator") \cap High ELSE {}

(* What the entry of a due owner becomes; counts past the threshold are    *)
(* one, and the entry of an owner that is not due is written as it was.    *)
MutRecordsUnsent(s, o, delivered) ==
  LET e == s.owners[o]
      n == IF e.count >= EscalateAfter THEN e.count ELSE e.count + 1
  IN  IF ~DigestDue(s, o) THEN e
      ELSE [e EXCEPT !.count = n, !.last = s.now, !.print = Fingerprint(s, o)]

EntryAfter(s, o, delivered) ==
  LET e == s.owners[o]
      n == IF e.count >= EscalateAfter THEN e.count ELSE e.count + 1
  IN  IF ~DigestDue(s, o) THEN e
      ELSE IF ~delivered THEN [e EXCEPT !.count = n, !.last = s.now]
      ELSE [count |-> n, last |-> s.now, print |-> Fingerprint(s, o), sent |-> s.now]

Latch(s, asked) ==
  [c \in Card |-> s.latches[c] \cup {k \in Kind : c \in asked[k]}]

(* One owner's turn, in sort order: ask the creators of a dead owner's     *)
(* cards; send the digest if it is due and not suppressed; ask the         *)
(* operator.  Every enqueue may fail, and only a row written is recorded.  *)
SweepOwner(h) ==
  LET s == sweep[h]
      o == CHOOSE n \in s.todo : \A m \in s.todo : n =< m
      digest == DigestDue(s, o) /\ ~Suppressed(s, o)
  IN
  /\ s.pc = "owners" /\ s.todo # {}
  /\ \E asked \in [Kind -> SUBSET Card], delivered \in BOOLEAN :
       /\ asked["creator"] \subseteq CreatorAsked(s, o)
       /\ asked["operator"] \subseteq OperatorAsked(s, o)
       /\ delivered => digest
       /\ IF /\ asked["creator"] = CreatorAsked(s, o)
             /\ asked["operator"] = OperatorAsked(s, o)
             /\ delivered = digest
          THEN NoFault ELSE Fault
       /\ told' = IF delivered THEN [told EXCEPT ![o] = Fingerprint(s, o)] ELSE told
       /\ raised' = [c \in Card |-> [k \in Kind |->
            IF c \in asked[k] /\ raised[c][k] < 2
            THEN raised[c][k] + 1 ELSE raised[c][k]]]
       /\ sweep' = [sweep EXCEPT ![h].todo = @ \ {o},
            ![h].owners[o] = EntryAfter(s, o, delivered),
            ![h].latches = Latch(s, asked)]
  /\ UNCHANGED <<claim, class, stored, lapses, work>>

MutPrunesWaiting(s, c) == s.view[c] = "quiet" \/ s.owners[OwnerOf[c]].last < s.now

(* A card the sweep did not find stale starts its next streak unlatched.   *)
StreakOver(s, c) == s.view[c] = "quiet"

(* Prune and save_reminder_state: the whole scope is replaced in one       *)
(* transaction, or a failed write leaves the old rows and only warns.      *)
Save(h) ==
  LET s == sweep[h] IN
  /\ s.pc = "owners" /\ s.todo = {}
  /\ \/ /\ owners' = [o \in Owner |-> IF o \in StaleOwners(s)
                                      THEN s.owners[o] ELSE NoEntry]
        /\ latches' = [c \in Card |-> IF StreakOver(s, c) THEN {} ELSE s.latches[c]]
        /\ NoFault /\ UNCHANGED lapses
        /\ raised' = [c \in Card |-> IF s.view[c] = "quiet" THEN [k \in Kind |-> 0]
                                     ELSE raised[c]]
     \/ Fault /\ lapses' = lapses \cup {"lost"} /\ UNCHANGED <<stored, raised>>
  /\ sweep' = [sweep EXCEPT ![h] = Resting]
  /\ UNCHANGED <<claim, class, told, work>>

Crash(h) ==
  /\ Running(h) /\ Fault
  /\ sweep' = [sweep EXCEPT ![h] = Resting]
  /\ lapses' = lapses \cup {"lost"}
  /\ UNCHANGED <<claim, class, stored, history, work>>

Step(h) == ReadCards(h) \/ LoadState(h) \/ SweepOwner(h) \/ Save(h)

Next ==
  \/ Tick \/ Work
  \/ \E h \in Host : Claim(h) \/ Step(h) \/ Crash(h)

(* Of one host at least the daemon stays up, whichever it is: its loop     *)
(* calls the sweep every tick, so it takes a claim that stays open to it.  *)
(* The others may never come back.  Time passes, and a sweep ends.         *)
Fairness ==
  /\ WF_vars(Tick)
  /\ \E h \in Host : WF_vars(Claim(h))
  /\ \A h \in Host : WF_vars(Step(h))

Spec == Init /\ [][Next]_vars /\ Fairness

-----------------------------------------------------------------------------
Digest == SUBSET (Card \X (Class \ {"quiet"}))
Entries == [count : 0 .. EscalateAfter, last : Int, print : Digest, sent : Int]

TypeOK ==
  /\ claim.by \in Host /\ claim.at >= -Horizon
  /\ class \in [Card -> Class]
  /\ \A o \in Owner :
       /\ owners[o] \in Entries
       /\ owners[o].last >= -Horizon /\ owners[o].sent >= -Horizon
       /\ owners[o].print = NoDigest => owners[o].sent = Never
       /\ told[o] \in Digest
  /\ latches \in [Card -> SUBSET Kind]
  /\ raised \in [Card -> [Kind -> 0 .. 2]]
  /\ \A h \in Host : sweep[h].pc \in {"idle", "cards", "state", "owners"}
  /\ lapses \subseteq {"lost", "overlap"}
  /\ faults \in 0 .. MaxFaults /\ work \in 0 .. MaxWork

Quiescent == \A h \in Host : ~Running(h)

(* While sweeps do not overlap, die or lose their state, the stored        *)
(* fingerprint is the digest the owner really has: what the next sweep     *)
(* suppresses is never news.  Enqueues may fail.                           *)
(* (sweep_reminders records the fingerprint only after _safe_enqueue)      *)
SuppressesOnlyOldNews ==
  lapses = {} /\ Quiescent =>
    \A o \in Owner : owners[o].print # NoDigest => told[o] = owners[o].print

(* Under the same condition a stale streak escalates at most once to each  *)
(* recipient, and a latch is only ever kept for an escalation that left.   *)
(* (the creator_escalated and escalated latches and their pruning)         *)
OneEscalationPerStreak ==
  lapses = {} /\ Quiescent =>
    \A c \in Card, k \in Kind : raised[c][k] = IF k \in latches[c] THEN 1 ELSE 0

(* A high-priority card that stays stale reaches the operator, however     *)
(* long its digest is suppressed and whatever failed, as long as no two    *)
(* sweeps overlap: a sweep that read before a peer pruned the latch writes *)
(* it back.  (sweep_reminders: the tick advances although the delivery is  *)
(* skipped)                                                                *)
StuckCardReachesOperator ==
  \A c \in High :
    ([]("overlap" \notin lapses) /\ <>[](class[c] # "quiet"))
      => <>[](raised[c]["operator"] > 0)

(* An owner who stays stuck is told again and again, faults and overlaps   *)
(* included.  (the floor of deliver-on-change, _reminder/enqueue.py)       *)
Digests(o) == \E h \in Host :
  SweepOwner(h) /\ sweep'[h].owners[o].sent # sweep[h].owners[o].sent
StuckOwnerIsToldAgain ==
  \A o \in Owner :
    (<>[](\E c \in Card : OwnerOf[c] = o /\ class[c] # "quiet"))
      => ([]<><<Digests(o)>>_vars)
=============================================================================
