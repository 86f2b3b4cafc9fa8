------------------------------ MODULE Notifyd ------------------------------
(***************************************************************************)
(* The notify daemon of one host: the pidfile lock that keeps it single    *)
(* (_daemon._SingleInstanceLock), the tick loop (run_notifyd) with its     *)
(* liveness record, and the delivery pass (_loop.deliver_pending) with the *)
(* attempt ledger (_ledger.Ledger).  One recipient on one channel: other   *)
(* pairs share nothing but the file.                                       *)
(*                                                                         *)
(* A daemon loads the ledger once per pass and rewrites the whole file on  *)
(* every record.  It may die between any two steps; the kernel then drops  *)
(* its flock, and the pidfile stays.                                       *)
(***************************************************************************)
EXTENDS Integers, FiniteSets

CONSTANTS
  Daemon,             \* process slots: a daemon that ended may start again
  MaxNote,            \* bound: notifications, numbered as they arrive
  Cumulative,         \* those that are snapshots under one key
  MaxAttempts,        \* MAX_ATTEMPTS
  MaxFaults,          \* bound: crashes, failed I/O, policy skips, late answers
  MaxStarts,          \* bound: attempts to start a daemon
  NoFile

Note == 1 .. MaxNote
Inode == 1 .. MaxStarts

ASSUME NotifydAssumption ==
  /\ MaxNote \in Nat /\ Cumulative \subseteq Note
  /\ MaxAttempts \in Nat \ {0} /\ MaxFaults \in Nat /\ MaxStarts \in Nat
  /\ NoFile \notin Inode

VARIABLES
  path,               \* the inode the pidfile's name leads to
  fresh,              \* inodes used so far
  starts,
  proc,               \* each daemon: where it is and what it holds in memory
  ledger,             \* the ledger file: an entry for each notification
  streakFile,         \* the liveness record's consecutive_failures
  arrived,            \* notifications in the inbox: 1 .. arrived
  copies,             \* transport: what the recipient received
  tries,              \* history: deliveries attempted
  doubted,            \* history: notifications whose outcome or record was lost
  streak,             \* history: failing ticks since the last clean one
  blind,              \* history: a write of the liveness record failed
  stolen,             \* history: a release removed the pidfile of another daemon
  faults

pidfile == <<path, fresh, starts>>
outcome == <<copies, tries, doubted>>
record == <<streakFile, streak, blind>>
vars == <<pidfile, proc, ledger, record, arrived, outcome, stolen, faults>>

NoEntry == [status |-> "none", attempts |-> 0, cool |-> FALSE]
NoLedger == [n \in Note |-> NoEntry]
Down == [pc |-> "down", fd |-> NoFile, ledger |-> NoLedger, todo |-> {},
         note |-> 0, result |-> "none", failed |-> FALSE, streak |-> 0]
Holders == {d \in Daemon : proc[d].pc \notin {"down", "opened", "leaving"}}
Holds(d, i) == d \in Holders /\ proc[d].fd = i

Init ==
  /\ path = NoFile /\ fresh = 0 /\ starts = 0
  /\ proc = [d \in Daemon |-> Down]
  /\ ledger = NoLedger
  /\ streakFile = 0 /\ streak = 0 /\ blind = FALSE
  /\ arrived = 0
  /\ copies = [n \in Note |-> 0] /\ tries = [n \in Note |-> 0] /\ doubted = {}
  /\ stolen = FALSE
  /\ faults = 0

Fault == faults < MaxFaults /\ faults' = faults + 1
NoFault == UNCHANGED faults
Goto(d, pc) == proc' = [proc EXCEPT ![d].pc = pc]

-----------------------------------------------------------------------------
(* The single-instance lock.                                               *)

(* acquire, first half: open(path, "a+") creates a missing file.           *)
Open(d) ==
  /\ proc[d].pc = "down" /\ starts < MaxStarts
  /\ starts' = starts + 1
  /\ IF path = NoFile
     THEN fresh' = fresh + 1 /\ path' = fresh + 1
     ELSE UNCHANGED <<fresh, path>>
  /\ proc' = [proc EXCEPT ![d] = [Down EXCEPT !.pc = "opened", !.fd = path']]
  /\ UNCHANGED <<ledger, record, arrived, outcome, stolen, faults>>

MutResumesNothing == 0

(* read_liveness: a restart resumes the failing streak.                    *)
Resumed == streakFile

MutLocksAnyway(d) == TRUE

LockIsFree(d) == \A e \in Daemon : ~Holds(e, proc[d].fd)

(* acquire, second half: LOCK_EX | LOCK_NB, or DaemonAlreadyRunning.       *)
Lock(d) ==
  /\ proc[d].pc = "opened"
  /\ proc' = [proc EXCEPT ![d] =
       IF LockIsFree(d) THEN [@ EXCEPT !.pc = "run", !.streak = Resumed] ELSE Down]
  /\ UNCHANGED <<pidfile, ledger, record, arrived, outcome, stolen, faults>>

(* release: unlock and close ...                                           *)
Release(d) ==
  /\ proc[d].pc = "run"
  /\ proc' = [proc EXCEPT ![d] = [Down EXCEPT !.pc = "leaving"]]
  /\ UNCHANGED <<pidfile, ledger, record, arrived, outcome, stolen, faults>>

(* ... and then remove whatever the name leads to.                         *)
Unlink(d) ==
  /\ proc[d].pc = "leaving"
  /\ path' = NoFile
  /\ stolen' = (stolen \/ \E e \in Daemon \ {d} :
                  proc[e].fd = path /\ proc[e].fd # NoFile)
  /\ Goto(d, "down")
  /\ UNCHANGED <<fresh, starts, ledger, record, arrived, outcome, faults>>

-----------------------------------------------------------------------------
(* The tick.                                                               *)

(* Heartbeat and sweeps: what they swallow is counted, and delivery runs.  *)
StartTick(d) ==
  /\ proc[d].pc = "run"
  /\ \E failed \in BOOLEAN :
       proc' = [proc EXCEPT ![d].pc = "load", ![d].failed = failed]
  /\ UNCHANGED <<pidfile, ledger, record, arrived, outcome, stolen, faults>>

(* Ledger.load: an unreadable file is an empty ledger.                     *)
Load(d) ==
  /\ proc[d].pc = "load"
  /\ \/ /\ NoFault /\ UNCHANGED doubted
        /\ proc' = [proc EXCEPT ![d].pc = "read", ![d].ledger = ledger]
     \/ /\ Fault /\ doubted' = doubted \cup {n \in Note : ledger[n] # NoEntry}
        /\ proc' = [proc EXCEPT ![d].pc = "read", ![d].ledger = NoLedger]
  /\ UNCHANGED <<pidfile, ledger, record, arrived, copies, tries, stolen>>

Inbox == 1 .. arrived
MutReplaysHistory(notes) == notes

(* _drop_superseded_snapshots: the newest of the snapshots, and the rest.  *)
Deliverable(notes) ==
  {n \in notes : n \in Cumulative => \A m \in notes \cap Cumulative : m =< n}

(* poll_inbox of the full history; an inbox that cannot be read is a fault *)
(* and its recipient is left out of the pass.                              *)
ReadInbox(d) ==
  /\ proc[d].pc = "read"
  /\ \/ NoFault /\ proc' = [proc EXCEPT ![d].pc = "pass", ![d].todo = Deliverable(Inbox)]
     \/ Fault /\ proc' = [proc EXCEPT ![d].pc = "pass", ![d].failed = TRUE]
  /\ UNCHANGED <<pidfile, ledger, record, arrived, outcome, stolen>>

MutGivesUpEarly(e) ==
  \/ e.status \in {"none", "skipped"}
  \/ e.status = "failed" /\ ~e.cool /\ e.attempts < MaxAttempts - 1

MutForgetsSent(e) ==
  \/ e.status \in {"none", "skipped", "sent"}
  \/ e.status = "failed" /\ ~e.cool /\ e.attempts < MaxAttempts

(* already_done, is_terminal, has_failure and retry_eligible.              *)
Attemptable(e) ==
  \/ e.status \in {"none", "skipped"}
  \/ e.status = "failed" /\ ~e.cool /\ e.attempts < MaxAttempts

Next1(d) == CHOOSE n \in proc[d].todo : \A m \in proc[d].todo : n =< m

(* One step of the pass: pass over a settled item, or ask the policy gate, *)
(* or deliver.  A channel that raises or answers late counts as failed,    *)
(* although the recipient may have the notification.                       *)
Attempt(d) ==
  LET n == Next1(d)
      took(r) == proc' = [proc EXCEPT ![d].pc = "record", ![d].todo = @ \ {n},
                            ![d].note = n, ![d].result = r]
      tried == tries' = [tries EXCEPT ![n] = @ + 1]
      arrives == copies' = [copies EXCEPT ![n] = @ + 1]
  IN
  /\ proc[d].pc = "pass" /\ proc[d].todo # {}
  /\ IF ~Attemptable(proc[d].ledger[n])
     THEN /\ proc' = [proc EXCEPT ![d].todo = @ \ {n}]
          /\ UNCHANGED <<outcome, faults>>
     ELSE \/ took("skipped") /\ Fault /\ UNCHANGED outcome
          \/ took("sent") /\ tried /\ arrives /\ NoFault /\ UNCHANGED doubted
          \/ took("failed") /\ tried /\ NoFault /\ UNCHANGED <<copies, doubted>>
          \/ /\ took("failed") /\ tried /\ arrives /\ Fault
             /\ doubted' = doubted \cup {n}
  /\ UNCHANGED <<pidfile, ledger, record, arrived, stolen>>

MutSkipResetsBudget(e, result) ==
  IF result = "skipped" THEN [status |-> "skipped", attempts |-> 0, cool |-> FALSE]
  ELSE LET n == e.attempts + 1 IN
       [status |-> IF result = "failed" /\ n >= MaxAttempts THEN "terminal" ELSE result,
        attempts |-> n, cool |-> result = "failed" /\ n < MaxAttempts]

(* Ledger.record.  A skip keeps the attempts and clears the backoff.       *)
Recorded(e, result) ==
  IF result = "skipped" THEN [e EXCEPT !.status = "skipped", !.cool = FALSE]
  ELSE LET n == e.attempts + 1 IN
       [status |-> IF result = "failed" /\ n >= MaxAttempts THEN "terminal" ELSE result,
        attempts |-> n, cool |-> result = "failed" /\ n < MaxAttempts]

(* record and _save: the whole map replaces the file; an error ends the    *)
(* pass and makes the tick a failed one.                                   *)
Record(d) ==
  LET n == proc[d].note
      map == [proc[d].ledger EXCEPT ![n] = Recorded(@, proc[d].result)]
  IN
  /\ proc[d].pc = "record"
  /\ \/ /\ NoFault /\ ledger' = map /\ UNCHANGED doubted
        /\ proc' = [proc EXCEPT ![d].pc = "pass", ![d].ledger = map,
                       ![d].note = 0, ![d].result = "none"]
     \/ /\ Fault /\ UNCHANGED ledger /\ doubted' = doubted \cup {n}
        /\ proc' = [proc EXCEPT ![d].pc = "pass", ![d].failed = TRUE,
                       ![d].ledger = NoLedger, ![d].todo = {},
                       ![d].note = 0, ![d].result = "none"]
  /\ UNCHANGED <<pidfile, record, arrived, copies, tries, stolen>>

Capped(n) == IF n > 2 THEN 2 ELSE n

(* DeliveryLiveness.observe: a tick with a fault extends the streak.       *)
Observed(s, failed) == IF failed THEN Capped(s + 1) ELSE 0

(* _close_tick: observe and write_liveness, whose failure is only logged.  *)
CloseTick(d) ==
  LET s == Observed(proc[d].streak, proc[d].failed) IN
  /\ proc[d].pc = "pass" /\ proc[d].todo = {}
  /\ \/ NoFault /\ streakFile' = s /\ UNCHANGED blind
     \/ Fault /\ UNCHANGED streakFile /\ blind' = TRUE
  /\ streak' = IF proc[d].failed THEN Capped(streak + 1) ELSE 0
  /\ proc' = [proc EXCEPT ![d] =
                 [Down EXCEPT !.pc = "run", !.fd = proc[d].fd, !.streak = s]]
  /\ UNCHANGED <<pidfile, ledger, arrived, outcome, stolen>>

-----------------------------------------------------------------------------
(* The world.                                                              *)

Arrive ==
  /\ arrived < MaxNote /\ arrived' = arrived + 1
  /\ UNCHANGED <<pidfile, proc, ledger, record, outcome, stolen, faults>>

(* now >= next_eligible_ts, for the passes that start from here on.        *)
Elapse(n) ==
  /\ ledger[n].cool /\ ledger' = [ledger EXCEPT ![n].cool = FALSE]
  /\ UNCHANGED <<pidfile, proc, record, arrived, outcome, stolen, faults>>

Crash(d) ==
  /\ proc[d].pc # "down" /\ Fault
  /\ doubted' = IF proc[d].pc = "record" THEN doubted \cup {proc[d].note} ELSE doubted
  /\ proc' = [proc EXCEPT ![d] = Down]
  /\ UNCHANGED <<pidfile, ledger, record, arrived, copies, tries, stolen>>

Step(d) == Lock(d) \/ Unlink(d) \/ StartTick(d) \/ Load(d) \/ ReadInbox(d)
             \/ Attempt(d) \/ Record(d) \/ CloseTick(d)

Next ==
  \/ Arrive \/ \E n \in Note : Elapse(n)
  \/ \E d \in Daemon : Open(d) \/ Release(d) \/ Step(d) \/ Crash(d)

Fairness ==
  /\ \A d \in Daemon : WF_vars(Step(d))
  /\ \A n \in Note : WF_vars(Elapse(n))

Spec == Init /\ [][Next]_vars /\ Fairness

-----------------------------------------------------------------------------
Status == {"none", "sent", "failed", "skipped", "terminal"}
LedgerType == [Note -> [status : Status, attempts : 0 .. MaxAttempts, cool : BOOLEAN]]

TypeOK ==
  /\ path \in Inode \cup {NoFile} /\ fresh \in 0 .. MaxStarts /\ starts \in 0 .. MaxStarts
  /\ ledger \in LedgerType
  /\ \A d \in Daemon :
       /\ proc[d].pc \in {"down", "opened", "run", "load", "read", "pass", "record",
                          "leaving"}
       /\ proc[d].fd \in Inode \cup {NoFile}
       /\ proc[d].ledger \in LedgerType
       /\ proc[d].todo \subseteq Note
  /\ streakFile \in 0 .. 2 /\ arrived \in 0 .. MaxNote
  /\ doubted \subseteq Note /\ faults \in 0 .. MaxFaults

(* Two daemons run at once only after a release that removed the pidfile   *)
(* another daemon had already opened.  (_SingleInstanceLock.release        *)
(* unlinks after it has unlocked)                                          *)
OneDaemonUnlessRobbed == stolen \/ Cardinality(Holders) =< 1

(* While one daemon runs at a time, a notification is delivered twice only *)
(* when the channel's answer or its record in the ledger was lost.         *)
(* (_attempt_one: already_done is asked before every delivery)             *)
DuplicatesHaveACause ==
  ~stolen => \A n \in Note \ doubted : copies[n] =< 1

(* A notification the ledger calls sent was handed to the recipient: no    *)
(* crash can record what did not happen.  (record follows deliver)         *)
SentIsTrue == \A n \in Note : ledger[n].status = "sent" => copies[n] > 0

(* The retry budget bounds the deliveries, whatever order skips, restarts  *)
(* and failures come in.  (Ledger.record: a skip keeps the attempts)       *)
BudgetHolds ==
  ~stolen => \A n \in Note \ doubted : tries[n] =< MaxAttempts

(* A snapshot is never delivered after a newer one of its key.             *)
(* (_drop_superseded_snapshots over the full inbox history)                *)
SnapshotsInOrder ==
  [][~stolen => \A n \in Cumulative :
       copies'[n] # copies[n] => \A m \in Cumulative : m > n => copies[m] = 0]_vars

(* Unless a write of the record failed, the stored failing streak is the   *)
(* real one, restarts and crashes included: a daemon that fails cannot     *)
(* clear its alarm by being restarted.  (run_notifyd: read_liveness)       *)
StreakSurvivesRestart == stolen \/ blind \/ streakFile = streak

(* What arrives is sent, superseded or given up on for good, as long as a  *)
(* single daemon is up: no order of failures, skips and backoffs leaves it *)
(* in between.  (retry_eligible and the terminal status)                   *)
Settled(n) ==
  \/ ledger[n].status \in {"sent", "terminal"}
  \/ n \in Cumulative /\ \E m \in Inbox \cap Cumulative : m > n
EventuallySettled ==
  ([]~stolen /\ <>[](Holders # {})) =>
    \A n \in Note : (n \in Inbox) ~> Settled(n)
=============================================================================
