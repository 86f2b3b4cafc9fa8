--------------------------- MODULE NotifydProofs ---------------------------
(***************************************************************************)
(* Proofs about Notifyd, for any number of daemons, notifications, starts, *)
(* attempts and faults.                                                    *)
(***************************************************************************)
EXTENDS Notifyd, FiniteSetTheorems, WellFoundedInduction, TLAPS

Results == {"sent", "failed", "skipped"}
Inner == {"run", "load", "read", "pass", "record"}
Places == Inner \cup {"down", "opened", "leaving"}

Procs == [pc : Places, fd : Inode \cup {NoFile}, ledger : LedgerType,
          todo : SUBSET Note, note : 0 .. MaxNote, result : Results \cup {"none"},
          failed : BOOLEAN, streak : 0 .. 2]

Types ==
  /\ path \in Inode \cup {NoFile} /\ fresh \in 0 .. MaxStarts
  /\ starts \in 0 .. MaxStarts /\ fresh <= starts
  /\ proc \in [Daemon -> Procs]
  /\ ledger \in LedgerType
  /\ streakFile \in 0 .. 2 /\ streak \in 0 .. 2 /\ blind \in BOOLEAN
  /\ arrived \in 0 .. MaxNote
  /\ copies \in [Note -> Nat] /\ tries \in [Note -> Nat]
  /\ doubted \subseteq Note /\ stolen \in BOOLEAN /\ faults \in 0 .. MaxFaults

\* The kernel's part: one holder for each inode.  Until a release robs
\* somebody, every open descriptor is of the file the name leads to.
Locks ==
  /\ \A d \in Daemon : (proc[d].fd = NoFile) <=> proc[d].pc \in {"down", "leaving"}
  /\ \A d, e \in Daemon :
       proc[d].pc \in Inner /\ proc[e].pc \in Inner /\ proc[d].fd = proc[e].fd => d = e
  /\ ~stolen => \A d \in Daemon : proc[d].fd \in {path, NoFile}

\* An entry that can be attempted has an attempt left; a pass is made of
\* what is on hand, and what is being recorded was attempted for a reason.
Unsettled(e) == e.status \in {"none", "failed", "skipped"}
Budgeted(e) == Unsettled(e) => e.attempts < MaxAttempts
Working(p) ==
  /\ \A n \in Note : Budgeted(p.ledger[n])
  /\ p.pc \notin {"pass", "record"} => p.todo = {}
  /\ p.pc \in {"down", "opened", "run", "leaving"} => p.ledger = NoLedger
  /\ p.pc = "record" => p.note \in Note /\ p.result \in Results /\ Unsettled(p.ledger[p.note])

\* Whatever any ledger calls sent has been received.
Received(p) ==
  /\ \A n \in Note : p.ledger[n].status = "sent" => copies[n] > 0
  /\ p.pc = "record" /\ p.result = "sent" => copies[p.note] > 0

\* The ledger a daemon works with is the file, but for backoffs that have
\* run out since, and for what is in doubt.
Same(e, f) == e.status = f.status /\ e.attempts = f.attempts
Reading(p) == p.pc \in {"read", "record"} \/ (p.pc = "pass" /\ p.todo # {})
Agrees(p) == Reading(p) => \A n \in Note \ doubted : Same(p.ledger[n], ledger[n])

\* A pass has one snapshot in hand, and nothing newer has been received.
Passing(p) ==
  /\ p.todo \subseteq Inbox
  /\ \A n, m \in p.todo \cap Cumulative : n = m
Newest(p) == \A n \in p.todo \cap Cumulative, m \in Cumulative : m > n => copies[m] = 0

\* What happened to a notification is in the file, or about to be recorded.
Pending(n) == {d \in Daemon : proc[d].pc = "record" /\ proc[d].note = n}
Accounted(n) ==
  /\ copies[n] <= 1
  /\ copies[n] = 1 =>
       ledger[n].status = "sent" \/ \E d \in Pending(n) : proc[d].result = "sent"
  /\ tries[n] <= ledger[n].attempts + 1
  /\ tries[n] = ledger[n].attempts + 1 => \E d \in Pending(n) : proc[d].result # "skipped"

\* A daemon carries on the streak it found.
Streaks == ~stolen /\ ~blind =>
  /\ streakFile = streak
  /\ \A d \in Daemon : proc[d].pc \in Inner => proc[d].streak = streak

File ==
  /\ \A n \in Note : Budgeted(ledger[n])
  /\ SentIsTrue
  /\ \A n \in Note : copies[n] > 0 => n <= arrived

IInv ==
  /\ Types /\ Locks /\ Streaks /\ File
  /\ \A d \in Daemon : Working(proc[d]) /\ Received(proc[d]) /\ Passing(proc[d])
  /\ ~stolen =>
       /\ \A d \in Daemon : Agrees(proc[d]) /\ Newest(proc[d])
       /\ \A n \in Note \ doubted : Accounted(n)

-----------------------------------------------------------------------------
\* What the process slots start from.
LEMMA DownIsProc ==
  /\ Down \in Procs /\ NoLedger \in LedgerType
  /\ \A n \in Note : Budgeted(NoLedger[n]) /\ NoLedger[n].status = "none"
                     /\ NoLedger[n].attempts = 0
<1>1. /\ MaxAttempts \in Nat /\ 0 < MaxAttempts /\ 0 \in 0 .. MaxAttempts
      /\ 0 \in 0 .. MaxNote /\ 0 \in 0 .. 2
  BY NotifydAssumption
<1>2. NoEntry \in [status : Status, attempts : 0 .. MaxAttempts, cool : BOOLEAN]
  BY <1>1 DEF NoEntry, Status
<1>3. NoLedger \in LedgerType
  BY <1>2 DEF NoLedger, LedgerType
<1>4. Down \in Procs
  BY <1>1, <1>3 DEF Down, Procs, Places, Inner, Results
<1>5. QED
  BY <1>1, <1>3, <1>4 DEF NoLedger, NoEntry, Budgeted, Unsettled

\* While nobody was robbed, one daemon is at work.
LEMMA Alone ==
  ASSUME Types, Locks, ~stolen, NEW d \in Daemon, NEW e \in Daemon,
         proc[d].pc \in Inner, proc[e].pc \in Inner
  PROVE  d = e
<1>1. proc[d].fd = path /\ proc[e].fd = path
  BY DEF Locks, Inner
<1>2. QED
  BY <1>1 DEF Locks

\* A pass has a next item.
LEMMA NextIsNext ==
  ASSUME Types, NEW d \in Daemon, proc[d].todo # {}
  PROVE  Next1(d) \in proc[d].todo
<1> DEFINE todo == proc[d].todo
           less == OpToRel(<, Nat)
<1>1. todo \subseteq Nat /\ todo # {}
  BY NotifydAssumption DEF Types, Procs, Note
<1>2. IsWellFoundedOn(less, Nat)
  BY NatLessThanWellFounded
<1>3. \A x, y \in Nat : <<y, x>> \in less <=> y < x
  BY DEF OpToRel
<1> HIDE DEF less, todo
<1>4. PICK x \in todo : \A y \in todo : ~ (<<y, x>> \in less)
  BY <1>1, <1>2, WFMin
<1>5. ASSUME NEW y \in todo PROVE x =< y
  <2>1. x \in Nat /\ y \in Nat /\ <<y, x>> \notin less
    BY <1>1, <1>4
  <2>2. ~(y < x)
    BY <1>3, <2>1
  <2>3. QED
    BY <2>1, <2>2
<1>6. \E n \in todo : \A m \in todo : n =< m
  BY <1>5
<1>7. QED
  BY <1>6 DEF todo, Next1

-----------------------------------------------------------------------------
\* Steps of one daemon that leave the file and the recipient alone.
Steady ==
  UNCHANGED <<ledger, arrived, copies, tries>>

\* What everybody else knows stays true when doubts only grow.
LEMMA OthersKeep ==
  ASSUME IInv, Steady, doubted \subseteq doubted', stolen => stolen', NEW p,
         Received(p), Passing(p), ~stolen => Agrees(p) /\ Newest(p)
  PROVE  /\ Received(p)' /\ Passing(p)'
         /\ ~stolen' => Agrees(p)' /\ Newest(p)'
BY DEF Steady, Received, Passing, Agrees, Newest, Reading, Same, Inbox

\* No record was pending of what is not in doubt, and none is afterwards.
LEMMA AccountsKeep ==
  ASSUME IInv, Steady, doubted \subseteq doubted', stolen => stolen',
         NEW d \in Daemon, NEW p \in Procs, proc' = [proc EXCEPT ![d] = p],
         proc[d].pc = "record" => proc[d].note \in doubted',
         NEW n \in Note \ doubted', ~stolen'
  PROVE  Accounted(n)'
<1>1. Accounted(n)
  BY DEF IInv
<1>2. \A e \in Pending(n) : e # d /\ e \in Daemon
  BY DEF Pending
<1>3. \A e \in Pending(n) : e \in Pending(n)' /\ proc'[e].result = proc[e].result
  BY <1>2 DEF Pending, IInv, Types
<1>4. copies' = copies /\ tries' = tries /\ ledger' = ledger
  BY DEF Steady
<1>5. QED
  BY <1>1, <1>3, <1>4 DEF Accounted

\* The same, of what a step leaves.
AgreesNext(p) == Reading(p) => \A n \in Note \ doubted' : Same(p.ledger[n], ledger'[n])

\* A step within the tick.
LEMMA WorkStep ==
  ASSUME IInv, Steady, UNCHANGED <<pidfile, record, stolen>>,
         doubted \subseteq doubted', doubted' \subseteq Note, faults' \in 0 .. MaxFaults,
         NEW d \in Daemon, NEW p \in Procs, proc' = [proc EXCEPT ![d] = p],
         proc[d].pc \in Inner, p.pc \in Inner,
         p.fd = proc[d].fd, p.streak = proc[d].streak,
         proc[d].pc = "record" => proc[d].note \in doubted',
         Working(p), Received(p), Passing(p), ~stolen => AgreesNext(p) /\ Newest(p)
  PROVE  IInv'
<1>1. UNCHANGED <<path, fresh, starts, streakFile, streak, blind, stolen,
                  ledger, arrived, copies, tries>>
  BY DEF pidfile, record, Steady
<1>2. Types'
  BY <1>1 DEF IInv, Types
<1>3. Locks'
  BY <1>1 DEF IInv, Types, Locks, Inner
<1>4. Streaks'
  BY <1>1 DEF IInv, Types, Streaks
<1>5. File'
  BY <1>1 DEF IInv, File, SentIsTrue
<1>6. ASSUME NEW e \in Daemon
      PROVE  /\ Working(proc[e])' /\ Received(proc[e])' /\ Passing(proc[e])'
             /\ ~stolen' => Agrees(proc[e])' /\ Newest(proc[e])'
  <2>1. CASE e = d
    <3>1. proc'[e] = p
      BY <2>1 DEF IInv, Types
    <3>2. /\ Received(p)' /\ Passing(p)'
          /\ ~stolen' => Newest(p)' /\ Agrees(p)'
      BY <1>1 DEF Received, Passing, Newest, Inbox, Agrees, AgreesNext, Reading, Same
    <3>3. QED
      BY <1>1, <3>1, <3>2 DEF Working, Received, Passing, Newest, Agrees
  <2>2. CASE e # d
    <3>1. proc'[e] = proc[e]
      BY <2>2 DEF IInv, Types
    <3>2. \A q : q = proc[e] =>
            /\ Working(q) /\ Received(q)' /\ Passing(q)'
            /\ ~stolen' => Agrees(q)' /\ Newest(q)'
      BY <1>1, OthersKeep DEF IInv
    <3>3. QED
      BY <3>1, <3>2
  <2>3. QED
    BY <2>1, <2>2
<1>7. ASSUME ~stolen', NEW n \in Note \ doubted'
      PROVE  Accounted(n)'
  <2>1. stolen => stolen'
    BY <1>1
  <2>2. QED
    BY <1>7, <2>1, AccountsKeep
<1>8. QED
  BY <1>2, <1>3, <1>4, <1>5, <1>6, <1>7 DEF IInv

\* A daemon that holds nothing in memory: it starts, ends, or waits.
LEMMA QuietStep ==
  ASSUME IInv, Steady, Types', Locks', Streaks', stolen => stolen',
         doubted \subseteq doubted', 
         NEW d \in Daemon, NEW p \in Procs, proc' = [proc EXCEPT ![d] = p],
         proc[d].pc = "record" => proc[d].note \in doubted',
         p.pc \in {"down", "opened", "run", "leaving"}, p.ledger = NoLedger, p.todo = {}
  PROVE  IInv'
<1>1. UNCHANGED <<ledger, arrived, copies, tries>>
  BY DEF Steady
<1>2. File'
  BY <1>1 DEF IInv, File, SentIsTrue
<1>3. /\ Working(p)' /\ Received(p)' /\ Passing(p)' /\ Agrees(p)' /\ Newest(p)'
  BY DownIsProc DEF Working, Received, Passing, Agrees, Newest, Reading
<1>4. ASSUME NEW e \in Daemon
      PROVE  /\ Working(proc[e])' /\ Received(proc[e])' /\ Passing(proc[e])'
             /\ ~stolen' => Agrees(proc[e])' /\ Newest(proc[e])'
  <2>1. CASE e = d
    <3>1. proc'[e] = p
      BY <2>1 DEF IInv, Types
    <3>2. QED
      BY <1>3, <3>1
  <2>2. CASE e # d
    <3>1. proc'[e] = proc[e]
      BY <2>2 DEF IInv, Types
    <3>2. \A q : q = proc[e] =>
            /\ Working(q) /\ Received(q)' /\ Passing(q)'
            /\ ~stolen' => Agrees(q)' /\ Newest(q)'
      BY <1>1, OthersKeep DEF IInv
    <3>3. QED
      BY <3>1, <3>2
  <2>3. QED
    BY <2>1, <2>2
<1>5. ASSUME ~stolen', NEW n \in Note \ doubted'
      PROVE  Accounted(n)'
  BY <1>5, AccountsKeep
<1>6. QED
  BY <1>2, <1>4, <1>5 DEF IInv

-----------------------------------------------------------------------------
\* The lock.

LEMMA OpenStep ==
  ASSUME IInv, NEW d \in Daemon, Open(d)
  PROVE  IInv'
<1> DEFINE p == [Down EXCEPT !.pc = "opened", !.fd = path']
<1>1. /\ proc[d].pc = "down" /\ proc' = [proc EXCEPT ![d] = p]
      /\ UNCHANGED <<ledger, record, arrived, outcome, stolen, faults>>
  BY DEF Open
<1>2. UNCHANGED <<ledger, streakFile, streak, blind, arrived, copies, tries, doubted, stolen, faults>>
  BY <1>1 DEF record, outcome
<1>3. /\ path' \in Inode /\ fresh' \in 0 .. MaxStarts /\ starts' \in 0 .. MaxStarts
      /\ fresh' <= starts'
      /\ path # NoFile => path' = path
  <2>1. starts < MaxStarts /\ starts' = starts + 1 /\ fresh \in Nat /\ starts \in Nat
        /\ fresh <= starts /\ MaxStarts \in Nat
    BY NotifydAssumption DEF Open, IInv, Types
  <2>2. CASE path = NoFile
    <3>1. fresh' = fresh + 1 /\ path' = fresh + 1
      BY <2>2 DEF Open
    <3>2. QED
      BY <2>1, <2>2, <3>1 DEF Inode
  <2>3. CASE path # NoFile
    <3>1. fresh' = fresh /\ path' = path
      BY <2>3 DEF Open
    <3>2. QED
      BY <2>1, <2>3, <3>1 DEF IInv, Types
  <2>4. QED
    BY <2>2, <2>3
<1>4. path' # NoFile
  BY <1>3, NotifydAssumption
<1>5. p \in Procs
  BY <1>3, DownIsProc DEF Procs, Places
<1>6. p.pc = "opened" /\ p.fd = path' /\ p.ledger = NoLedger /\ p.todo = {}
  BY DEF Down
<1> HIDE DEF p
<1>7. Types'
  BY <1>1, <1>2, <1>3, <1>5 DEF IInv, Types
<1>8. Locks'
  <2>1. \A e \in Daemon : proc'[e] = IF e = d THEN p ELSE proc[e]
    BY <1>1 DEF IInv, Types
  <2>2. \A e \in Daemon : (proc'[e].fd = NoFile) <=> proc'[e].pc \in {"down", "leaving"}
    BY <1>4, <1>6, <2>1 DEF IInv, Locks
  <2>3. \A e, f \in Daemon :
          proc'[e].pc \in Inner /\ proc'[f].pc \in Inner /\ proc'[e].fd = proc'[f].fd => e = f
    BY <1>6, <2>1 DEF IInv, Locks, Inner
  <2>4. ~stolen' => \A e \in Daemon : proc'[e].fd \in {path', NoFile}
    BY <1>2, <1>3, <1>6, <2>1 DEF IInv, Locks
  <2>5. QED
    BY <2>2, <2>3, <2>4 DEF Locks
<1>9. Streaks'
  BY <1>1, <1>2, <1>6 DEF IInv, Types, Streaks, Inner
<1>10. Steady /\ doubted \subseteq doubted' /\ (stolen => stolen')
  BY <1>2 DEF Steady
<1>11. QED
  BY <1>1, <1>5, <1>6, <1>7, <1>8, <1>9, <1>10, QuietStep

\* A daemon lets go of what it has.
LEMMA LeaveStep ==
  ASSUME IInv, NEW d \in Daemon, 
         NEW p \in {Down, [Down EXCEPT !.pc = "leaving"]}, proc' = [proc EXCEPT ![d] = p],
         UNCHANGED <<path, fresh, starts, ledger, streakFile, streak, blind, arrived, copies,
                     tries, stolen>>,
         doubted \subseteq doubted', doubted' \subseteq Note, faults' \in 0 .. MaxFaults,
         proc[d].pc = "record" => proc[d].note \in doubted'
  PROVE  IInv'
<1>1. /\ p \in Procs /\ p.pc \in {"down", "leaving"} /\ p.fd = NoFile
      /\ p.ledger = NoLedger /\ p.todo = {}
  <2>1. Down.pc = "down" /\ Down.fd = NoFile /\ Down.ledger = NoLedger /\ Down.todo = {}
    BY DEF Down
  <2>2. CASE p = Down
    BY <2>1, <2>2, DownIsProc
  <2>3. CASE p = [Down EXCEPT !.pc = "leaving"]
    <3>1. p \in Procs
      BY <2>3, DownIsProc DEF Procs, Places
    <3>2. /\ p.pc = "leaving" /\ p.fd = Down.fd
          /\ p.ledger = Down.ledger /\ p.todo = Down.todo
      BY <2>3, DownIsProc DEF Procs
    <3>3. QED
      BY <2>1, <3>1, <3>2
  <2>4. QED
    BY <2>2, <2>3
<1>2. \A e \in Daemon : proc'[e] = IF e = d THEN p ELSE proc[e]
  BY DEF IInv, Types
<1>3. Types'
  BY <1>1 DEF IInv, Types
<1>4. Locks'
  BY <1>1, <1>2 DEF IInv, Locks, Inner
<1>5. Streaks'
  BY <1>1, <1>2 DEF IInv, Streaks, Inner
<1>6. Steady /\ (stolen => stolen')
  BY DEF Steady
<1>7. QED
  BY <1>1, <1>3, <1>4, <1>5, <1>6, QuietStep

LEMMA LockStep ==
  ASSUME IInv, NEW d \in Daemon, Lock(d)
  PROVE  IInv'
<1>1. /\ proc[d].pc = "opened"
      /\ UNCHANGED <<pidfile, ledger, record, arrived, outcome, stolen, faults>>
  BY DEF Lock
<1>2. UNCHANGED <<path, fresh, starts, ledger, streakFile, streak, blind, arrived, copies,
                  tries, doubted, stolen, faults>>
  BY <1>1 DEF pidfile, record, outcome
<1>3. /\ Steady /\ doubted \subseteq doubted' /\ (stolen => stolen')
      /\ doubted' \subseteq Note /\ faults' \in 0 .. MaxFaults
  BY <1>2 DEF Steady, IInv, Types
<1>4. CASE LockIsFree(d)
  <2> DEFINE p == [proc[d] EXCEPT !.pc = "run", !.streak = streakFile]
  <2>1. proc' = [proc EXCEPT ![d] = p]
    BY <1>4 DEF Lock, Resumed
  <2>2. proc[d] \in Procs /\ streakFile \in 0 .. 2
    BY DEF IInv, Types
  <2>3. p \in Procs
    BY <2>2 DEF Procs, Places, Inner
  <2>4. p.pc = "run" /\ p.fd = proc[d].fd /\ p.todo = proc[d].todo /\ p.ledger = proc[d].ledger
        /\ p.streak = streakFile
    BY <2>2 DEF Procs
  <2>11. proc[d].todo = {} /\ proc[d].ledger = NoLedger
    BY <1>1 DEF IInv, Working
  <2> HIDE DEF p
  <2>5. \A e \in Daemon : proc'[e] = IF e = d THEN p ELSE proc[e]
    BY <2>1 DEF IInv, Types
  <2>6. Types'
    BY <1>2, <2>1, <2>3 DEF IInv, Types
  <2>7. \A e \in Daemon : proc[e].pc \in Inner => proc[e].fd # proc[d].fd
    BY <1>4 DEF LockIsFree, Holds, Holders, Inner
  <2>8. Locks'
    BY <1>1, <1>2, <2>4, <2>5, <2>7 DEF IInv, Locks, Inner
  <2>9. Streaks'
    BY <1>2, <2>4, <2>5 DEF IInv, Streaks
  <2>10. QED
    BY <1>1, <1>3, <2>11, <2>1, <2>3, <2>4, <2>6, <2>8, <2>9, QuietStep
<1>5. CASE ~LockIsFree(d)
  <2>1. proc' = [proc EXCEPT ![d] = Down]
    BY <1>5 DEF Lock
  <2>2. proc[d].pc # "record" /\ Down \in {Down, [Down EXCEPT !.pc = "leaving"]}
    BY <1>1
  <2>3. QED
    BY <1>2, <1>3, <2>1, <2>2, LeaveStep
<1>6. QED
  BY <1>4, <1>5

LEMMA ReleaseStep ==
  ASSUME IInv, NEW d \in Daemon, Release(d)
  PROVE  IInv'
<1>1. UNCHANGED <<path, fresh, starts, ledger, streakFile, streak, blind, arrived, copies,
                  tries, doubted, stolen, faults>>
  BY DEF Release, pidfile, record, outcome
<1>2. proc[d].pc = "run" /\ proc' = [proc EXCEPT ![d] = [Down EXCEPT !.pc = "leaving"]]
  BY DEF Release
<1>3. /\ doubted \subseteq doubted' /\ doubted' \subseteq Note /\ faults' \in 0 .. MaxFaults
      /\ proc[d].pc # "record"
      /\ [Down EXCEPT !.pc = "leaving"] \in {Down, [Down EXCEPT !.pc = "leaving"]}
  BY <1>1, <1>2 DEF IInv, Types
<1>4. QED
  BY <1>1, <1>2, <1>3, LeaveStep

LEMMA CrashStep ==
  ASSUME IInv, NEW d \in Daemon, Crash(d)
  PROVE  IInv'
<1>1. /\ UNCHANGED <<path, fresh, starts, ledger, streakFile, streak, blind, arrived, copies,
                  tries, stolen>>
      /\ faults' \in 0 .. MaxFaults
      /\ proc' = [proc EXCEPT ![d] = Down]
      /\ Down \in {Down, [Down EXCEPT !.pc = "leaving"]}
  BY NotifydAssumption DEF Crash, pidfile, record, Fault, IInv, Types
<1>2. /\ doubted \subseteq doubted' /\ doubted' \subseteq Note
      /\ proc[d].pc = "record" => proc[d].note \in doubted'
  BY DEF Crash, IInv, Types, Working
<1>3. QED
  BY <1>1, <1>2, LeaveStep

\* The name goes; whoever had the file open has been robbed.
LEMMA UnlinkStep ==
  ASSUME IInv, NEW d \in Daemon, Unlink(d)
  PROVE  IInv'
<1> DEFINE p == [proc[d] EXCEPT !.pc = "down"]
<1>1. /\ UNCHANGED <<fresh, starts, ledger, streakFile, streak, blind, arrived, copies,
                  tries, doubted, faults>>
      /\ path' = NoFile /\ proc[d].pc = "leaving"
      /\ stolen' = (stolen \/ \E e \in Daemon \ {d} : proc[e].fd = path /\ proc[e].fd # NoFile)
  BY DEF Unlink, record, outcome
<1>2. proc[d] \in Procs /\ proc' = [proc EXCEPT ![d] = p]
  BY DEF Unlink, Goto, IInv, Types
<1>3. /\ p \in Procs /\ p.pc = "down" /\ p.fd = proc[d].fd /\ p.fd = NoFile
      /\ p.ledger = NoLedger /\ p.todo = {}
  BY <1>1, <1>2 DEF Procs, Places, IInv, Locks, Working
<1> HIDE DEF p
<1>4. \A e \in Daemon : proc'[e] = IF e = d THEN p ELSE proc[e]
  BY <1>2 DEF IInv, Types
<1>5. Types'
  BY <1>1, <1>2, <1>3 DEF IInv, Types
<1>6. Locks'
  <2>1. \A e \in Daemon : (proc'[e].fd = NoFile) <=> proc'[e].pc \in {"down", "leaving"}
    BY <1>3, <1>4 DEF IInv, Locks
  <2>2. \A e, f \in Daemon :
          proc'[e].pc \in Inner /\ proc'[f].pc \in Inner /\ proc'[e].fd = proc'[f].fd => e = f
    BY <1>3, <1>4 DEF IInv, Locks, Inner
  <2>3. ASSUME ~stolen', NEW e \in Daemon PROVE proc'[e].fd = NoFile
    BY <1>1, <1>3, <1>4, <2>3 DEF IInv, Locks
  <2>4. QED
    BY <1>1, <2>1, <2>2, <2>3 DEF Locks
<1>7. Streaks'
  BY <1>1, <1>3, <1>4 DEF IInv, Streaks, Inner
<1>8. Steady /\ doubted \subseteq doubted' /\ (stolen => stolen')
  BY <1>1 DEF Steady
<1>9. QED
  BY <1>1, <1>2, <1>3, <1>5, <1>6, <1>7, <1>8, QuietStep

-----------------------------------------------------------------------------
\* The tick.

\* What a step within the tick finds.
LEMMA Found ==
  ASSUME IInv, NEW d \in Daemon
  PROVE  /\ proc[d] \in Procs /\ proc \in [Daemon -> Procs]
         /\ Working(proc[d]) /\ Received(proc[d]) /\ Passing(proc[d])
         /\ ~stolen => Agrees(proc[d]) /\ Newest(proc[d])
         /\ doubted \subseteq Note /\ faults \in 0 .. MaxFaults
BY DEF IInv, Types

LEMMA FaultsCounted ==
  ASSUME IInv, Fault \/ NoFault
  PROVE  faults' \in 0 .. MaxFaults
BY NotifydAssumption DEF Fault, NoFault, IInv, Types

LEMMA StartTickStep ==
  ASSUME IInv, NEW d \in Daemon, StartTick(d)
  PROVE  IInv'
<1>1. PICK failed \in BOOLEAN :
        proc' = [proc EXCEPT ![d] = [proc[d] EXCEPT !.pc = "load", !.failed = failed]]
  BY Found DEF StartTick
<1> DEFINE p == [proc[d] EXCEPT !.pc = "load", !.failed = failed]
<1>2. /\ proc[d].pc = "run" /\ UNCHANGED <<pidfile, record, stolen, doubted, faults>> /\ Steady
  BY DEF StartTick, outcome, Steady
<1>3. p \in Procs
  BY Found DEF Procs, Places, Inner
<1>4. /\ p.pc = "load" /\ p.fd = proc[d].fd /\ p.streak = proc[d].streak
      /\ p.todo = proc[d].todo /\ p.ledger = proc[d].ledger
  BY Found DEF Procs
<1> HIDE DEF p
<1>5. p.todo = {}
  BY <1>2, <1>4, Found DEF Working
<1>6. Working(p) /\ Received(p) /\ Passing(p) /\ AgreesNext(p) /\ Newest(p)
  BY <1>2, <1>4, <1>5, Found DEF Working, Received, Passing, Agrees, Newest, AgreesNext, Reading
<1>7. /\ doubted \subseteq doubted' /\ doubted' \subseteq Note /\ faults' \in 0 .. MaxFaults
      /\ proc[d].pc \in Inner /\ p.pc \in Inner /\ proc[d].pc # "record"
  BY <1>2, <1>4, Found DEF Inner
<1>8. QED
  BY <1>1, <1>2, <1>3, <1>4, <1>6, <1>7, WorkStep DEF p

LEMMA LoadStep ==
  ASSUME IInv, NEW d \in Daemon, Load(d)
  PROVE  IInv'
<1>1. PICK map \in {ledger, NoLedger} :
        /\ proc' = [proc EXCEPT ![d] = [proc[d] EXCEPT !.pc = "read", !.ledger = map]]
        /\ map = ledger \/ \A n \in Note \ doubted' : map[n] = ledger[n]
  <2>1. CASE NoFault /\ proc' = [proc EXCEPT ![d].pc = "read", ![d].ledger = ledger]
    BY <2>1, Found
  <2>2. CASE /\ doubted' = doubted \cup {n \in Note : ledger[n] # NoEntry}
             /\ proc' = [proc EXCEPT ![d].pc = "read", ![d].ledger = NoLedger]
    <3>1. \A n \in Note \ doubted' : NoLedger[n] = ledger[n]
      BY <2>2 DEF NoLedger
    <3>2. proc' = [proc EXCEPT ![d] = [proc[d] EXCEPT !.pc = "read", !.ledger = NoLedger]]
      BY <2>2, Found
    <3>3. QED
      BY <3>1, <3>2
  <2>3. QED
    BY <2>1, <2>2 DEF Load
<1> DEFINE p == [proc[d] EXCEPT !.pc = "read", !.ledger = map]
<1>2. /\ proc[d].pc = "load" /\ UNCHANGED <<pidfile, record, stolen>> /\ Steady
      /\ doubted \subseteq doubted' /\ doubted' \subseteq Note
  BY Found DEF Load, Steady
<1>3. faults' \in 0 .. MaxFaults
  BY FaultsCounted DEF Load
<1>4. /\ map \in LedgerType
      /\ \A n \in Note : Budgeted(map[n]) /\ (map[n].status = "sent" => copies[n] > 0)
  BY DownIsProc DEF IInv, Types, File, SentIsTrue
<1>5. p \in Procs
  BY <1>4, Found DEF Procs, Places, Inner
<1>6. /\ p.pc = "read" /\ p.fd = proc[d].fd /\ p.streak = proc[d].streak
      /\ p.todo = proc[d].todo /\ p.ledger = map
  BY Found DEF Procs
<1> HIDE DEF p
<1>7. p.todo = {}
  BY <1>2, <1>6, Found DEF Working
<1>8. Working(p) /\ Received(p) /\ Passing(p) /\ Newest(p)
  BY <1>4, <1>6, <1>7 DEF Working, Received, Passing, Newest
<1>9. AgreesNext(p)
  BY <1>1, <1>2, <1>6 DEF Agrees, AgreesNext, Same, Steady
<1>10. proc[d].pc \in Inner /\ p.pc \in Inner /\ proc[d].pc # "record"
  BY <1>2, <1>6 DEF Inner
<1>11. QED
  BY <1>1, <1>2, <1>3, <1>5, <1>6, <1>8, <1>9, <1>10, WorkStep DEF p

\* One snapshot at most is deliverable, and all newer ones are to come.
LEMMA OneSnapshot ==
  ASSUME IInv
  PROVE  /\ Deliverable(Inbox) \subseteq Inbox /\ Inbox \subseteq Note
         /\ \A n, m \in Deliverable(Inbox) \cap Cumulative : n = m
         /\ \A n \in Deliverable(Inbox) \cap Cumulative, m \in Cumulative :
              m > n => copies[m] = 0
<1>1. /\ Inbox \subseteq Note /\ Deliverable(Inbox) \subseteq Inbox
      /\ Note \subseteq Nat /\ Cumulative \subseteq Note
      /\ arrived \in Nat /\ copies \in [Note -> Nat]
  BY NotifydAssumption DEF IInv, Types, Inbox, Note, Deliverable
<1>2. ASSUME NEW n \in Deliverable(Inbox) \cap Cumulative, NEW m \in Inbox \cap Cumulative
      PROVE  m =< n
  BY <1>2 DEF Deliverable
<1>3. ASSUME NEW n \in Deliverable(Inbox) \cap Cumulative,
             NEW m \in Deliverable(Inbox) \cap Cumulative
      PROVE  n = m
  <2>1. n \in Nat /\ m \in Nat /\ n =< m /\ m =< n
    BY <1>1, <1>2
  <2>2. QED
    BY <2>1
<1>4. ASSUME NEW n \in Deliverable(Inbox) \cap Cumulative, NEW m \in Cumulative, m > n
      PROVE  copies[m] = 0
  <2>1. n \in Nat /\ m \in Nat /\ m \in Note
    BY <1>1
  <2>2. m \notin Inbox
    BY <1>2, <1>4, <2>1
  <2>3. ~(m <= arrived)
    BY <1>1, <2>1, <2>2, NotifydAssumption DEF Inbox, Note
  <2>4. ~(copies[m] > 0) /\ copies[m] \in Nat
    BY <1>1, <2>1, <2>3 DEF IInv, File
  <2>5. QED
    BY <2>4
<1>5. QED
  BY <1>1, <1>3, <1>4

\* A pass that begins.
LEMMA PassShape ==
  ASSUME NEW q \in Procs, NEW todo \in SUBSET Note, NEW failed \in BOOLEAN
  PROVE  [q EXCEPT !.pc = "pass", !.todo = todo, !.failed = failed] \in Procs
<1>1. "pass" \in Places
  BY DEF Places, Inner
<1>2. QED
  BY <1>1 DEF Procs

LEMMA ReadInboxStep ==
  ASSUME IInv, NEW d \in Daemon, ReadInbox(d)
  PROVE  IInv'
<1>1. PICK todo \in {{}, Deliverable(Inbox)}, failed \in BOOLEAN :
        proc' = [proc EXCEPT ![d] =
                   [proc[d] EXCEPT !.pc = "pass", !.todo = todo, !.failed = failed]]
  <2>1. proc[d].todo = {} /\ proc[d].failed \in BOOLEAN
    BY Found DEF ReadInbox, Working, Procs
  <2>2. CASE proc' = [proc EXCEPT ![d].pc = "pass", ![d].todo = Deliverable(Inbox)]
    <3>1. proc' = [proc EXCEPT ![d] = [proc[d] EXCEPT !.pc = "pass",
                     !.todo = Deliverable(Inbox), !.failed = proc[d].failed]]
      BY <2>2, Found DEF Procs
    <3>2. QED
      BY <2>1, <3>1
  <2>3. CASE proc' = [proc EXCEPT ![d].pc = "pass", ![d].failed = TRUE]
    <3>1. proc' = [proc EXCEPT ![d] = [proc[d] EXCEPT !.pc = "pass",
                     !.todo = {}, !.failed = TRUE]]
      BY <2>1, <2>3, Found DEF Procs
    <3>2. QED
      BY <3>1
  <2>4. QED
    BY <2>2, <2>3 DEF ReadInbox
<1> DEFINE p == [proc[d] EXCEPT !.pc = "pass", !.todo = todo, !.failed = failed]
<1>2. /\ proc[d].pc = "read" /\ UNCHANGED <<pidfile, record, stolen, doubted>> /\ Steady
      /\ doubted' \subseteq Note
  BY Found DEF ReadInbox, outcome, Steady
<1>3. faults' \in 0 .. MaxFaults
  BY FaultsCounted DEF ReadInbox
<1>4. /\ todo \in SUBSET Note /\ todo \subseteq Inbox
      /\ \A n, m \in todo \cap Cumulative : n = m
      /\ \A n \in todo \cap Cumulative, m \in Cumulative : m > n => copies[m] = 0
  BY OneSnapshot
<1>5. p \in Procs
  BY <1>4, Found, PassShape
<1>6. /\ p.pc = "pass" /\ p.fd = proc[d].fd /\ p.streak = proc[d].streak
      /\ p.todo = todo /\ p.ledger = proc[d].ledger
  BY Found DEF Procs
<1> HIDE DEF p
<1>7. Working(p) /\ Received(p) /\ Passing(p) /\ Newest(p)
  BY <1>4, <1>6, Found DEF Working, Received, Passing, Newest
<1>8. ~stolen => AgreesNext(p)
  BY <1>2, <1>6, Found DEF Agrees, AgreesNext, Same, Steady, Reading
<1>9. proc[d].pc \in Inner /\ p.pc \in Inner /\ proc[d].pc # "record"
  BY <1>2, <1>6 DEF Inner
<1>10. QED
  BY <1>1, <1>2, <1>3, <1>5, <1>6, <1>7, <1>8, <1>9, WorkStep DEF p

\* A pass with an answer in hand.
LEMMA AnswerShape ==
  ASSUME NEW q \in Procs, NEW n \in 0 .. MaxNote, NEW r \in Results
  PROVE  [q EXCEPT !.pc = "record", !.todo = @ \ {n}, !.note = n, !.result = r] \in Procs
<1>1. /\ "record" \in Places /\ q.todo \ {n} \in SUBSET Note
      /\ r \in Results \cup {"none"}
  BY DEF Procs, Places, Inner
<1>2. QED
  BY <1>1 DEF Procs

\* What a delivery changes: the copies, the tries, and what is in doubt.
LEMMA TakenStep ==
  ASSUME IInv, NEW d \in Daemon, proc[d].pc = "pass", NEW n \in proc[d].todo,
         Attemptable(proc[d].ledger[n]), NEW r \in Results,
         proc' = [proc EXCEPT ![d] = [proc[d] EXCEPT !.pc = "record", !.todo = @ \ {n},
                                                     !.note = n, !.result = r]],
         UNCHANGED <<pidfile, ledger, record, arrived, stolen>>, faults' \in 0 .. MaxFaults,
         copies' = copies \/ (copies' = [copies EXCEPT ![n] = @ + 1]
                              /\ (r = "sent" \/ n \in doubted')),
         tries' = tries \/ (tries' = [tries EXCEPT ![n] = @ + 1] /\ r # "skipped"),
         doubted' \in {doubted, doubted \cup {n}},
         r = "sent" => copies' = [copies EXCEPT ![n] = @ + 1]
  PROVE  IInv'
<1> DEFINE p == [proc[d] EXCEPT !.pc = "record", !.todo = @ \ {n}, !.note = n, !.result = r]
<1>1. UNCHANGED <<path, fresh, starts, ledger, streakFile, streak, blind, arrived, stolen>>
  BY DEF pidfile, record
<1>2. /\ n \in Note /\ n \in Inbox /\ n \in 0 .. MaxNote
      /\ Unsettled(proc[d].ledger[n])
  BY Found, NotifydAssumption DEF Procs, Passing, Note, Attemptable, Unsettled
<1>3. p \in Procs
  BY <1>2, Found, AnswerShape
<1>4. /\ p.pc = "record" /\ p.fd = proc[d].fd /\ p.streak = proc[d].streak
      /\ p.todo = proc[d].todo \ {n} /\ p.ledger = proc[d].ledger
      /\ p.note = n /\ p.result = r
  BY Found DEF Procs
<1>5. \A e \in Daemon : proc'[e] = IF e = d THEN p ELSE proc[e]
  BY Found
<1> HIDE DEF p
<1>6. /\ copies \in [Note -> Nat] /\ tries \in [Note -> Nat]
      /\ copies' \in [Note -> Nat] /\ tries' \in [Note -> Nat]
      /\ \A m \in Note : copies[m] <= copies'[m]
      /\ \A m \in Note \ {n} : copies'[m] = copies[m] /\ tries'[m] = tries[m]
      /\ copies'[n] = copies[n] \/ (copies'[n] = copies[n] + 1 /\ (r = "sent" \/ n \in doubted'))
      /\ tries'[n] = tries[n] \/ (tries'[n] = tries[n] + 1 /\ r # "skipped")
      /\ r = "sent" => copies'[n] > 0
  BY <1>2 DEF IInv, Types
<1>7. Types'
  <2>1. doubted' \subseteq Note
    BY <1>2, Found
  <2>2. proc' \in [Daemon -> Procs]
    BY <1>3, Found DEF p
  <2>3. QED
    BY <1>1, <1>6, <2>1, <2>2 DEF IInv, Types
<1>8. Locks'
  BY <1>1, <1>4, <1>5 DEF IInv, Locks, Inner
<1>9. Streaks'
  BY <1>1, <1>4, <1>5 DEF IInv, Streaks, Inner
<1>10. File'
  <2>1. ASSUME NEW m \in Note, copies'[m] > 0 PROVE m <= arrived
    <3>1. CASE m = n
      BY <1>2, <3>1 DEF Inbox
    <3>2. CASE m # n
      BY <1>6, <2>1, <3>2 DEF IInv, File
    <3>3. QED
      BY <3>1, <3>2
  <2>2. ASSUME NEW m \in Note, ledger[m].status = "sent" PROVE copies'[m] > 0
    <3>1. copies[m] > 0 /\ copies[m] <= copies'[m] /\ copies[m] \in Nat /\ copies'[m] \in Nat
      BY <1>6, <2>2 DEF IInv, File, SentIsTrue
    <3>2. QED
      BY <3>1
  <2>3. QED
    BY <1>1, <2>1, <2>2 DEF IInv, File, SentIsTrue
<1>11. \A m \in Note : copies[m] > 0 => copies'[m] > 0
  <2>1. SUFFICES ASSUME NEW m \in Note, copies[m] > 0 PROVE copies'[m] > 0
    OBVIOUS
  <2>2. copies[m] <= copies'[m] /\ copies[m] \in Nat /\ copies'[m] \in Nat
    BY <1>6
  <2>3. QED
    BY <2>1, <2>2
<1>12. ASSUME NEW e \in Daemon
       PROVE  Working(proc[e])' /\ Received(proc[e])' /\ Passing(proc[e])'
  <2>1. CASE e = d
    <3>1. proc'[e] = p
      BY <1>5, <2>1
    <3>2. Working(p)
      BY <1>2, <1>4, Found DEF Working
    <3>3. /\ \A m \in Note : p.ledger[m].status = "sent" => copies'[m] > 0
          /\ p.result = "sent" => copies'[p.note] > 0
      BY <1>4, <1>6, <1>11, Found DEF Received
    <3>4. /\ p.todo \subseteq 1 .. arrived
          /\ \A k, m \in p.todo \cap Cumulative : k = m
      BY <1>4, Found DEF Passing, Inbox
    <3>5. Working(proc[e])'
      BY <3>1, <3>2 DEF Working
    <3>6. Received(proc[e])' /\ Passing(proc[e])'
      BY <1>1, <3>1, <3>3, <3>4 DEF Received, Passing, Inbox
    <3>7. QED
      BY <3>5, <3>6
  <2>2. CASE e # d
    <3>1. proc'[e] = proc[e]
      BY <1>5, <2>2
    <3>2. /\ \A m \in Note : proc[e].ledger[m].status = "sent" => copies'[m] > 0
          /\ proc[e].pc = "record" /\ proc[e].result = "sent" => copies'[proc[e].note] > 0
      BY <1>11, Found DEF Received, Working
    <3>3. Working(proc[e])' /\ Passing(proc[e])'
      <4>1. \A q : q = proc[e] => Working(q) /\ Passing(q)'
        BY <1>1, Found DEF Passing, Inbox
      <4>2. QED
        BY <3>1, <4>1
    <3>4. Received(proc[e])'
      BY <3>1, <3>2 DEF Received
    <3>5. QED
      BY <3>3, <3>4
  <2>3. QED
    BY <2>1, <2>2
<1>13. ASSUME ~stolen, NEW e \in Daemon
       PROVE  Agrees(proc[e])' /\ Newest(proc[e])'
  <2>1. CASE e = d
    <3>1. proc'[e] = p
      BY <1>5, <2>1
    <3>2. \A m \in Note \ doubted' : Same(p.ledger[m], ledger[m])
      BY <1>4, <1>13, Found DEF Agrees, Reading
    <3>3. \A k \in p.todo \cap Cumulative, m \in Cumulative : m > k => copies'[m] = 0
      <4>1. SUFFICES ASSUME NEW k \in p.todo \cap Cumulative, NEW m \in Cumulative, m > k
                     PROVE  copies'[m] = 0
        OBVIOUS
      <4>2. m # n
        BY <1>4, <4>1, Found DEF Passing
      <4>3. copies[m] = 0 /\ m \in Note
        BY <1>4, <1>13, <4>1, Found, NotifydAssumption DEF Newest
      <4>4. QED
        BY <1>6, <4>2, <4>3
    <3>4. QED
      BY <1>1, <3>1, <3>2, <3>3 DEF Agrees, Newest, Same
  <2>2. CASE e # d
    <3>1. proc'[e] = proc[e] /\ proc[e].pc \notin Inner
      BY <1>5, <1>13, <2>2, Alone DEF Inner, IInv
    <3>2. proc[e].todo = {} /\ proc[e].pc \notin {"read", "record", "pass"}
      BY <3>1, Found DEF Working, Inner
    <3>3. QED
      BY <3>1, <3>2 DEF Agrees, Newest, Reading
  <2>3. QED
    BY <2>1, <2>2
<1>14. ASSUME ~stolen, NEW m \in Note \ doubted'
       PROVE  Accounted(m)'
  <2>1. Accounted(m)
    BY <1>14 DEF IInv
  <2>2. \A e \in Daemon : proc[e].pc # "record"
    BY <1>14, Alone DEF Inner, IInv
  <2>3. /\ copies[m] <= 1 /\ (copies[m] = 1 => ledger[m].status = "sent")
        /\ tries[m] <= ledger[m].attempts + 1 /\ tries[m] # ledger[m].attempts + 1
    BY <2>1, <2>2 DEF Accounted, Pending
  <2>4. ledger[m].attempts \in Nat /\ copies[m] \in Nat /\ tries[m] \in Nat
    BY <1>6, NotifydAssumption DEF IInv, Types, LedgerType
  <2>5. CASE m # n
    BY <1>1, <1>6, <2>3, <2>5 DEF Accounted
  <2>6. CASE m = n
    <3>1. ledger[n].status # "sent"
      BY <1>2, <1>14, <2>6, Found DEF Agrees, Reading, Same, Unsettled
    <3>2. copies[n] = 0 /\ tries[n] <= ledger[n].attempts
      BY <2>3, <2>4, <2>6, <3>1
    <3>3. d \in Pending(n)' /\ proc'[d].result = r
      BY <1>4, <1>5 DEF Pending
    <3>4. /\ copies'[n] <= 1 /\ (copies'[n] = 1 => r = "sent")
          /\ tries'[n] <= ledger[n].attempts + 1
          /\ tries'[n] = ledger[n].attempts + 1 => r # "skipped"
      BY <1>6, <1>14, <2>4, <2>6, <3>2
    <3>5. QED
      BY <1>1, <2>6, <3>3, <3>4 DEF Accounted
  <2>7. QED
    BY <2>5, <2>6
<1>15. QED
  BY <1>1, <1>7, <1>8, <1>9, <1>10, <1>12, <1>13, <1>14 DEF IInv

\* A status that can be attempted, and what its outcome makes of the entry.
LEMMA RecordedEntry ==
  ASSUME NEW e \in [status : Status, attempts : 0 .. MaxAttempts, cool : BOOLEAN],
         Unsettled(e), Budgeted(e), NEW r \in Results
  PROVE  /\ Recorded(e, r) \in [status : Status, attempts : 0 .. MaxAttempts, cool : BOOLEAN]
         /\ Budgeted(Recorded(e, r))
         /\ Recorded(e, r).status = "sent" <=> r = "sent"
         /\ Recorded(e, r).attempts = IF r = "skipped" THEN e.attempts ELSE e.attempts + 1
<1>1. e.attempts < MaxAttempts /\ e.attempts \in 0 .. MaxAttempts /\ MaxAttempts \in Nat
  BY NotifydAssumption DEF Budgeted
<1>2. e.attempts + 1 \in 0 .. MaxAttempts /\ e.attempts \in Nat
  BY <1>1
<1>3. CASE r = "skipped"
  <2>1. Recorded(e, r) = [e EXCEPT !.status = "skipped", !.cool = FALSE]
    BY <1>3 DEF Recorded
  <2>2. QED
    BY <1>1, <1>3, <2>1 DEF Status, Budgeted, Unsettled
<1>4. CASE r # "skipped"
  <2> DEFINE n == e.attempts + 1
             status == IF r = "failed" /\ n >= MaxAttempts THEN "terminal" ELSE r
             cool == r = "failed" /\ n < MaxAttempts
  <2>1. Recorded(e, r) = [status |-> status, attempts |-> n, cool |-> cool]
    BY <1>4 DEF Recorded
  <2>2. /\ status \in Status /\ cool \in BOOLEAN /\ n \in 0 .. MaxAttempts
        /\ status = "sent" <=> r = "sent"
        /\ status \in {"none", "failed", "skipped"} => n < MaxAttempts
    BY <1>1, <1>2, <1>4 DEF Status, Results
  <2> HIDE DEF n, status, cool
  <2>3. QED
    BY <1>4, <2>1, <2>2 DEF Budgeted, Unsettled, n
<1>5. QED
  BY <1>3, <1>4

LEMMA AttemptStep ==
  ASSUME IInv, NEW d \in Daemon, Attempt(d)
  PROVE  IInv'
<1> DEFINE n == Next1(d)
<1>1. /\ proc[d].pc = "pass" /\ proc[d].todo # {}
      /\ UNCHANGED <<pidfile, ledger, record, arrived, stolen>>
  BY DEF Attempt
<1>2. n \in proc[d].todo
  BY <1>1, NextIsNext DEF IInv
<1> HIDE DEF n
<1>3. CASE ~Attemptable(proc[d].ledger[n])
  <2> DEFINE p == [proc[d] EXCEPT !.todo = @ \ {n}]
  <2>1. proc' = [proc EXCEPT ![d] = p] /\ UNCHANGED <<copies, tries, doubted, faults>>
    BY <1>3, Found DEF Attempt, n, outcome
  <2>2. p \in Procs
    BY Found DEF Procs
  <2>3. /\ p.pc = "pass" /\ p.fd = proc[d].fd /\ p.streak = proc[d].streak
        /\ p.todo = proc[d].todo \ {n} /\ p.ledger = proc[d].ledger
    BY <1>1, Found DEF Procs
  <2> HIDE DEF p
  <2>4. Working(p) /\ Received(p) /\ Passing(p) /\ (~stolen => Newest(p))
    BY <2>3, Found DEF Working, Received, Passing, Newest
  <2>5. ~stolen => AgreesNext(p)
    BY <1>1, <2>1, <2>3, Found DEF Agrees, AgreesNext, Reading, Same
  <2>6. /\ Steady /\ doubted \subseteq doubted' /\ doubted' \subseteq Note
        /\ faults' \in 0 .. MaxFaults /\ UNCHANGED <<pidfile, record, stolen>>
        /\ proc[d].pc \in Inner /\ p.pc \in Inner /\ proc[d].pc # "record"
    BY <1>1, <2>1, <2>3, Found DEF Steady, Inner
  <2>7. QED
    BY <2>1, <2>2, <2>3, <2>4, <2>5, <2>6, WorkStep DEF p
<1>4. CASE Attemptable(proc[d].ledger[n])
  <2> DEFINE took(r) == proc' = [proc EXCEPT ![d] = [proc[d] EXCEPT
                          !.pc = "record", !.todo = @ \ {n}, !.note = n, !.result = r]]
             arrives == copies' = [copies EXCEPT ![n] = @ + 1]
             tried == tries' = [tries EXCEPT ![n] = @ + 1]
  <2>1. \/ took("skipped") /\ Fault /\ UNCHANGED <<copies, tries, doubted>>
        \/ took("sent") /\ tried /\ arrives /\ NoFault /\ UNCHANGED doubted
        \/ took("failed") /\ tried /\ NoFault /\ UNCHANGED <<copies, doubted>>
        \/ took("failed") /\ tried /\ arrives /\ Fault /\ doubted' = doubted \cup {n}
    BY <1>4, Found DEF Attempt, n, outcome
  <2>2. faults' \in 0 .. MaxFaults
    BY <2>1, FaultsCounted
  <2>3. CASE took("skipped") /\ UNCHANGED <<copies, tries, doubted>>
    BY <1>1, <1>2, <1>4, <2>2, <2>3, TakenStep DEF Results
  <2>4. CASE took("sent") /\ tried /\ arrives /\ UNCHANGED doubted
    BY <1>1, <1>2, <1>4, <2>2, <2>4, TakenStep DEF Results
  <2>5. CASE took("failed") /\ tried /\ UNCHANGED <<copies, doubted>>
    BY <1>1, <1>2, <1>4, <2>2, <2>5, TakenStep DEF Results
  <2>6. CASE took("failed") /\ tried /\ arrives /\ doubted' = doubted \cup {n}
    BY <1>1, <1>2, <1>4, <2>2, <2>6, TakenStep DEF Results
  <2>7. QED
    BY <2>1, <2>3, <2>4, <2>5, <2>6
<1>5. QED
  BY <1>3, <1>4

LEMMA RecordedIsProc ==
  ASSUME NEW q \in Procs, NEW map \in LedgerType
  PROVE  [q EXCEPT !.pc = "pass", !.ledger = map, !.note = 0, !.result = "none"] \in Procs
<1>1. 0 \in 0 .. MaxNote
  BY NotifydAssumption
<1>2. QED
  BY <1>1 DEF Procs, Places, Inner

\* The outcome reaches the file.
LEMMA RecordedStep ==
  ASSUME IInv, NEW d \in Daemon, proc[d].pc = "record",
         NEW n, n = proc[d].note, 
         NEW map, map = [proc[d].ledger EXCEPT ![n] = Recorded(@, proc[d].result)],
         ledger' = map, UNCHANGED <<pidfile, record, arrived, outcome, stolen>>,
         faults' \in 0 .. MaxFaults,
         proc' = [proc EXCEPT ![d] = [proc[d] EXCEPT !.pc = "pass", !.ledger = map,
                                        !.note = 0, !.result = "none"]]
  PROVE  IInv'
<1> DEFINE p == [proc[d] EXCEPT !.pc = "pass", !.ledger = map, !.note = 0, !.result = "none"]
           was == proc[d].ledger
           r == proc[d].result
<1>1. UNCHANGED <<path, fresh, starts, streakFile, streak, blind, arrived, copies, tries,
                  doubted, stolen>>
  BY DEF pidfile, record, outcome
<1>2. n \in Note /\ r \in Results /\ Unsettled(was[n]) /\ was \in LedgerType
      /\ \A m \in Note : Budgeted(was[m])
  BY Found DEF Working, Procs
<1>3. /\ map[n] = Recorded(was[n], r)
      /\ \A m \in Note \ {n} : map[m] = was[m]
      /\ map \in LedgerType /\ \A m \in Note : Budgeted(map[m])
      /\ map[n].status = "sent" <=> r = "sent"
      /\ map[n].attempts = IF r = "skipped" THEN was[n].attempts ELSE was[n].attempts + 1
  <2>1. was[n] \in [status : Status, attempts : 0 .. MaxAttempts, cool : BOOLEAN]
    BY <1>2 DEF LedgerType
  <2>2. /\ Recorded(was[n], r) \in [status : Status, attempts : 0 .. MaxAttempts, cool : BOOLEAN]
        /\ Budgeted(Recorded(was[n], r))
        /\ Recorded(was[n], r).status = "sent" <=> r = "sent"
        /\ Recorded(was[n], r).attempts =
             IF r = "skipped" THEN was[n].attempts ELSE was[n].attempts + 1
    BY <1>2, <2>1, RecordedEntry
  <2>3. map[n] = Recorded(was[n], r) /\ \A m \in Note \ {n} : map[m] = was[m]
    BY <1>2 DEF LedgerType
  <2>4. map \in LedgerType
    BY <1>2, <2>2 DEF LedgerType
  <2>5. QED
    BY <1>2, <2>2, <2>3, <2>4
<1>4. p \in Procs
  BY <1>3, Found, RecordedIsProc
<1>5. /\ p.pc = "pass" /\ p.fd = proc[d].fd /\ p.streak = proc[d].streak
      /\ p.todo = proc[d].todo /\ p.ledger = map
  BY Found DEF Procs
<1>6. \A e \in Daemon : proc'[e] = IF e = d THEN p ELSE proc[e]
  BY Found
<1> HIDE DEF p, was, r
<1>7. Types'
  <2>1. proc' \in [Daemon -> Procs]
    BY <1>4, Found DEF p
  <2>2. QED
    BY <1>1, <1>3, <2>1 DEF IInv, Types
<1>8. Locks'
  BY <1>1, <1>5, <1>6 DEF IInv, Locks, Inner
<1>9. Streaks'
  BY <1>1, <1>5, <1>6 DEF IInv, Streaks, Inner
<1>10. \A m \in Note : map[m].status = "sent" => copies[m] > 0
  <2>1. \A m \in Note : was[m].status = "sent" => copies[m] > 0
    BY Found DEF Received, was
  <2>2. r = "sent" => copies[n] > 0
    BY Found DEF Received, r
  <2>3. QED
    BY <1>3, <2>1, <2>2
<1>11. File'
  BY <1>1, <1>3, <1>10 DEF IInv, File, SentIsTrue
<1>12. ASSUME NEW e \in Daemon
       PROVE  Working(proc[e])' /\ Received(proc[e])' /\ Passing(proc[e])'
  <2>1. CASE e = d
    <3>1. proc'[e] = p
      BY <1>6, <2>1
    <3>2. Working(p)
      BY <1>3, <1>5 DEF Working
    <3>3. p.todo \subseteq Inbox /\ \A k, m \in p.todo \cap Cumulative : k = m
      BY <1>5, Found DEF Passing
    <3>4. \A q : q = p => Working(q) /\ Received(q)' /\ Passing(q)'
      BY ZenonT(60), <1>1, <1>5, <1>10, <3>2, <3>3 DEF Received, Passing, Inbox
    <3>5. QED
      BY <3>1, <3>4
  <2>2. CASE e # d
    <3>1. proc'[e] = proc[e]
      BY <1>6, <2>2
    <3>2. \A q : q = proc[e] => Working(q) /\ Received(q)' /\ Passing(q)'
      BY <1>1, Found DEF Received, Passing, Inbox
    <3>3. QED
      BY <3>1, <3>2
  <2>3. QED
    BY <2>1, <2>2
<1>13. ASSUME ~stolen, NEW e \in Daemon
       PROVE  Agrees(proc[e])' /\ Newest(proc[e])'
  <2>1. CASE e = d
    <3>1. proc'[e] = p
      BY <1>6, <2>1
    <3>2. \A m \in Note : Same(p.ledger[m], map[m])
      BY <1>5 DEF Same
    <3>3. \A k \in p.todo \cap Cumulative, m \in Cumulative : m > k => copies[m] = 0
      BY <1>5, <1>13, Found DEF Newest
    <3>4. QED
      BY ZenonT(60), <1>1, <3>1, <3>2, <3>3 DEF Agrees, Newest, Same
  <2>2. CASE e # d
    <3>1. proc'[e] = proc[e] /\ proc[e].pc \notin Inner
      BY <1>6, <1>13, <2>2, Alone DEF Inner, IInv
    <3>2. proc[e].todo = {} /\ proc[e].pc \notin {"read", "record", "pass"}
      BY <3>1, Found DEF Working, Inner
    <3>3. QED
      BY <3>1, <3>2 DEF Agrees, Newest, Reading
  <2>3. QED
    BY <2>1, <2>2
<1>14. ASSUME ~stolen, NEW m \in Note \ doubted
       PROVE  Accounted(m)'
  <2>1. Accounted(m) /\ Same(was[m], ledger[m])
    BY <1>14, Found DEF IInv, Agrees, Reading, was
  <2>2. \A e \in Pending(m) : e = d /\ m = n
    BY <1>14, Alone DEF Pending, Inner, IInv
  <2>3. /\ ledger[m].attempts \in Nat /\ copies[m] \in Nat /\ tries[m] \in Nat
        /\ ledger[m].attempts = was[m].attempts
    BY <2>1, NotifydAssumption DEF IInv, Types, LedgerType, Same
  <2>4. CASE m # n
    <3>1. /\ copies[m] <= 1 /\ (copies[m] = 1 => ledger[m].status = "sent")
          /\ tries[m] <= ledger[m].attempts + 1 /\ tries[m] # ledger[m].attempts + 1
      BY <2>1, <2>2, <2>4 DEF Accounted
    <3>2. ledger'[m].status = ledger[m].status /\ ledger'[m].attempts = ledger[m].attempts
      BY <1>3, <2>1, <2>4 DEF Same
    <3>3. QED
      BY <1>1, <3>1, <3>2 DEF Accounted
  <2>5. CASE m = n
    <3>1. /\ copies[n] <= 1 /\ (copies[n] = 1 => r = "sent")
          /\ tries[n] <= was[n].attempts + 1
          /\ tries[n] = was[n].attempts + 1 => r # "skipped"
      BY <1>2, <2>1, <2>2, <2>5 DEF Accounted, Same, Unsettled, r
    <3>2. copies[n] = 1 => map[n].status = "sent"
      BY <1>3, <3>1
    <3>3. tries[n] <= map[n].attempts
      BY <1>3, <2>3, <2>5, <3>1
    <3>4. tries[n] <= map[n].attempts + 1 /\ tries[n] # map[n].attempts + 1
      <4>1. map[n].attempts \in Nat
        BY <1>3, <2>3, <2>5
      <4>2. QED
        BY <2>3, <2>5, <3>3, <4>1
    <3>5. QED
      BY <1>1, <2>5, <3>1, <3>2, <3>4 DEF Accounted
  <2>6. QED
    BY <2>4, <2>5
<1>15. QED
  BY <1>1, <1>7, <1>8, <1>9, <1>11, <1>12, <1>13, <1>14 DEF IInv

LEMMA RecordStep ==
  ASSUME IInv, NEW d \in Daemon, Record(d)
  PROVE  IInv'
<1> DEFINE n == proc[d].note
           map == [proc[d].ledger EXCEPT ![n] = Recorded(@, proc[d].result)]
<1>1. /\ proc[d].pc = "record" /\ UNCHANGED <<pidfile, record, arrived, copies, tries, stolen>>
      /\ proc[d].note \in Note
  BY Found DEF Record, Working
<1>2. faults' \in 0 .. MaxFaults
  BY FaultsCounted DEF Record
<1>3. CASE ledger' = map /\ UNCHANGED doubted
           /\ proc' = [proc EXCEPT ![d].pc = "pass", ![d].ledger = map,
                          ![d].note = 0, ![d].result = "none"]
  <2>1. proc' = [proc EXCEPT ![d] = [proc[d] EXCEPT !.pc = "pass", !.ledger = map,
                                       !.note = 0, !.result = "none"]]
    BY <1>3, Found
  <2>2. UNCHANGED outcome
    BY <1>1, <1>3 DEF outcome
  <2>3. QED
    BY <1>1, <1>2, <1>3, <2>1, <2>2, RecordedStep
<1>4. CASE /\ UNCHANGED ledger /\ doubted' = doubted \cup {n}
           /\ proc' = [proc EXCEPT ![d].pc = "pass", ![d].failed = TRUE,
                          ![d].ledger = NoLedger, ![d].todo = {},
                          ![d].note = 0, ![d].result = "none"]
  <2> DEFINE q == [proc[d] EXCEPT !.pc = "pass", !.ledger = NoLedger, !.note = 0,
                                  !.result = "none"]
             p == [q EXCEPT !.failed = TRUE, !.todo = {}]
  <2>1. proc' = [proc EXCEPT ![d] = p]
    BY ZenonT(60), <1>4, Found DEF Procs
  <2>2. q \in Procs
    BY Found, DownIsProc, RecordedIsProc
  <2>3. /\ q.pc = "pass" /\ q.fd = proc[d].fd /\ q.streak = proc[d].streak
        /\ q.ledger = NoLedger
    BY Found DEF Procs
  <2> HIDE DEF q
  <2>4. p \in Procs
    BY <2>2 DEF Procs
  <2>5. /\ p.pc = "pass" /\ p.fd = proc[d].fd /\ p.streak = proc[d].streak
        /\ p.todo = {} /\ p.ledger = NoLedger
    BY <2>2, <2>3 DEF Procs
  <2> HIDE DEF p
  <2>6. Working(p) /\ Received(p) /\ Passing(p) /\ Newest(p) /\ AgreesNext(p)
    BY <2>5, DownIsProc DEF Working, Received, Passing, Newest, AgreesNext, Reading
  <2>7. /\ Steady /\ doubted \subseteq doubted' /\ doubted' \subseteq Note
        /\ UNCHANGED <<pidfile, record, stolen>>
        /\ proc[d].pc \in Inner /\ p.pc \in Inner /\ proc[d].note \in doubted'
    BY <1>1, <1>4, <2>5, Found DEF Steady, Inner
  <2>8. QED
    BY <1>2, <2>1, <2>4, <2>5, <2>6, <2>7, WorkStep
<1>5. QED
  BY <1>3, <1>4 DEF Record

LEMMA CloseTickStep ==
  ASSUME IInv, NEW d \in Daemon, CloseTick(d)
  PROVE  IInv'
<1> DEFINE s == Observed(proc[d].streak, proc[d].failed)
           p == [Down EXCEPT !.pc = "run", !.fd = proc[d].fd, !.streak = s]
<1>1. /\ proc[d].pc = "pass" /\ proc' = [proc EXCEPT ![d] = p]
      /\ \/ NoFault /\ streakFile' = s /\ UNCHANGED blind
         \/ Fault /\ UNCHANGED streakFile /\ blind' = TRUE
      /\ streak' = Observed(streak, proc[d].failed)
      /\ UNCHANGED <<path, fresh, starts, ledger, arrived, copies, tries, doubted, stolen>>
  BY DEF CloseTick, Observed, pidfile, outcome
<1>2. faults' \in 0 .. MaxFaults
  BY <1>1, FaultsCounted
<1>3. s \in 0 .. 2 /\ streak' \in 0 .. 2
  <2>1. \A k \in 0 .. 2, f \in BOOLEAN : Observed(k, f) \in 0 .. 2
    BY DEF Observed, Capped
  <2>2. QED
    BY <1>1, <2>1, Found DEF Procs, IInv, Types
<1> HIDE DEF s
<1>4. p \in Procs
  BY <1>3, Found, DownIsProc DEF Procs, Places, Inner
<1>5. /\ p.pc = "run" /\ p.fd = proc[d].fd /\ p.streak = s /\ p.todo = {} /\ p.ledger = NoLedger
  BY DEF Down
<1> HIDE DEF p
<1>6. \A e \in Daemon : proc'[e] = IF e = d THEN p ELSE proc[e]
  BY <1>1, Found
<1>7. Types'
  <2>1. proc' \in [Daemon -> Procs]
    BY <1>1, <1>4, Found
  <2>2. QED
    BY <1>1, <1>2, <1>3, <2>1 DEF IInv, Types
<1>8. Locks'
  BY <1>1, <1>5, <1>6 DEF IInv, Locks, Inner
<1>9. Streaks'
  <2>1. SUFFICES ASSUME ~stolen', ~blind'
        PROVE  streakFile' = streak' /\ \A e \in Daemon : proc'[e].pc \in Inner => proc'[e].streak = streak'
    BY DEF Streaks
  <2>2. ~stolen /\ ~blind /\ streakFile' = s
    BY <1>1, <2>1 DEF IInv, Types
  <2>3. streak' = s
    BY <1>1, <2>2 DEF IInv, Streaks, Inner, s
  <2>4. \A e \in Daemon \ {d} : proc[e].pc \notin Inner
    BY <1>1, <2>2, Alone DEF IInv, Inner
  <2>5. QED
    BY <1>5, <1>6, <2>2, <2>3, <2>4
<1>10. /\ Steady /\ doubted \subseteq doubted' /\ (stolen => stolen')
       /\ proc[d].pc # "record"
  BY <1>1 DEF Steady
<1>11. QED
  BY <1>1, <1>4, <1>5, <1>7, <1>8, <1>9, <1>10, QuietStep

-----------------------------------------------------------------------------
\* The world.

LEMMA ArriveStep ==
  ASSUME IInv, Arrive
  PROVE  IInv'
<1>1. /\ arrived' = arrived + 1 /\ arrived < MaxNote
      /\ UNCHANGED <<path, fresh, starts, proc, ledger, streakFile, streak, blind, copies,
                     tries, doubted, stolen, faults>>
  BY DEF Arrive, pidfile, record, outcome
<1>2. arrived \in Nat /\ arrived' \in 0 .. MaxNote /\ Inbox \subseteq Inbox'
  BY <1>1, NotifydAssumption DEF IInv, Types, Inbox
<1>3. Types' /\ Locks' /\ Streaks'
  BY <1>1, <1>2 DEF IInv, Types, Locks, Streaks
<1>4. File'
  BY <1>1, <1>2, NotifydAssumption DEF IInv, File, SentIsTrue, Note
<1>5. ASSUME NEW q
      PROVE  /\ Received(q) => Received(q)'
             /\ Passing(q) => Passing(q)'
             /\ Agrees(q) => Agrees(q)'
             /\ Newest(q) => Newest(q)'
  BY <1>1, <1>2 DEF Received, Passing, Agrees, Newest
<1>6. ASSUME NEW d \in Daemon
      PROVE  /\ Working(proc[d])' /\ Received(proc[d])' /\ Passing(proc[d])'
             /\ ~stolen' => Agrees(proc[d])' /\ Newest(proc[d])'
  <2>1. \A q : q = proc[d] => /\ Working(q) /\ Received(q)' /\ Passing(q)'
                              /\ ~stolen => Agrees(q)' /\ Newest(q)'
    BY <1>5, Found
  <2>2. QED
    BY <1>1, <2>1
<1>7. ASSUME ~stolen', NEW n \in Note \ doubted'
      PROVE  Accounted(n)'
  BY <1>1, <1>7 DEF IInv, Accounted, Pending
<1>8. QED
  BY <1>3, <1>4, <1>6, <1>7 DEF IInv

LEMMA ElapseStep ==
  ASSUME IInv, NEW n \in Note, Elapse(n)
  PROVE  IInv'
<1>1. /\ ledger' = [ledger EXCEPT ![n].cool = FALSE]
      /\ UNCHANGED <<path, fresh, starts, proc, streakFile, streak, blind, arrived, copies,
                     tries, doubted, stolen, faults>>
  BY DEF Elapse, pidfile, record, outcome
<1>2. /\ ledger' \in LedgerType
      /\ \A m \in Note : ledger'[m].status = ledger[m].status
                         /\ ledger'[m].attempts = ledger[m].attempts
  BY <1>1 DEF IInv, Types, LedgerType
<1>3. Types' /\ Locks' /\ Streaks'
  BY <1>1, <1>2 DEF IInv, Types, Locks, Streaks
<1>4. File'
  BY <1>1, <1>2 DEF IInv, File, SentIsTrue, Budgeted, Unsettled
<1>5. ASSUME NEW q
      PROVE  /\ Received(q) => Received(q)'
             /\ Passing(q) => Passing(q)'
             /\ Agrees(q) => Agrees(q)'
             /\ Newest(q) => Newest(q)'
  BY <1>1, <1>2 DEF Received, Passing, Agrees, Newest, Same, Inbox
<1>6. ASSUME NEW d \in Daemon
      PROVE  /\ Working(proc[d])' /\ Received(proc[d])' /\ Passing(proc[d])'
             /\ ~stolen' => Agrees(proc[d])' /\ Newest(proc[d])'
  <2>1. \A q : q = proc[d] => /\ Working(q) /\ Received(q)' /\ Passing(q)'
                              /\ ~stolen => Agrees(q)' /\ Newest(q)'
    BY <1>5, Found
  <2>2. QED
    BY <1>1, <2>1
<1>7. ASSUME ~stolen', NEW m \in Note \ doubted'
      PROVE  Accounted(m)'
  <2>1. Accounted(m)
    BY <1>1, <1>7 DEF IInv
  <2>2. QED
    BY <1>1, <1>2, <2>1 DEF Accounted, Pending
<1>8. QED
  BY <1>3, <1>4, <1>6, <1>7 DEF IInv

LEMMA NextStep ==
  ASSUME IInv, [Next]_vars
  PROVE  IInv'
<1>1. CASE UNCHANGED vars
  <2>1. UNCHANGED <<path, fresh, starts, proc, ledger, streakFile, streak, blind, arrived,
                    copies, tries, doubted, stolen, faults>>
    BY <1>1 DEF vars, pidfile, record, outcome
  <2>2. Types' /\ Locks' /\ Streaks' /\ File'
    BY <2>1 DEF IInv, Types, Locks, Streaks, File, SentIsTrue
  <2>3. ASSUME NEW d \in Daemon
        PROVE  /\ Working(proc[d])' /\ Received(proc[d])' /\ Passing(proc[d])'
               /\ ~stolen' => Agrees(proc[d])' /\ Newest(proc[d])'
    <3>1. \A q : q = proc[d] => /\ Working(q) /\ Received(q)' /\ Passing(q)'
                                /\ ~stolen => Agrees(q)' /\ Newest(q)'
      BY <2>1, Found DEF Received, Passing, Agrees, Newest, Inbox
    <3>2. QED
      BY <2>1, <3>1
  <2>4. ASSUME ~stolen', NEW n \in Note \ doubted'
        PROVE  Accounted(n)'
    BY <2>1, <2>4 DEF IInv, Accounted, Pending
  <2>5. QED
    BY <2>2, <2>3, <2>4 DEF IInv
<1>2. CASE Arrive
  BY <1>2, ArriveStep
<1>3. ASSUME NEW n \in Note, Elapse(n) PROVE IInv'
  BY <1>3, ElapseStep
<1>4. ASSUME NEW d \in Daemon, Open(d) \/ Release(d) \/ Step(d) \/ Crash(d)
      PROVE  IInv'
  <2>1. CASE Open(d)
    BY <2>1, OpenStep
  <2>2. CASE Release(d)
    BY <2>2, ReleaseStep
  <2>3. CASE Crash(d)
    BY <2>3, CrashStep
  <2>4. CASE Lock(d)
    BY <2>4, LockStep
  <2>5. CASE Unlink(d)
    BY <2>5, UnlinkStep
  <2>6. CASE StartTick(d)
    BY <2>6, StartTickStep
  <2>7. CASE Load(d)
    BY <2>7, LoadStep
  <2>8. CASE ReadInbox(d)
    BY <2>8, ReadInboxStep
  <2>9. CASE Attempt(d)
    BY <2>9, AttemptStep
  <2>10. CASE Record(d)
    BY <2>10, RecordStep
  <2>11. CASE CloseTick(d)
    BY <2>11, CloseTickStep
  <2>12. QED
    BY <1>4, <2>1, <2>2, <2>3, <2>4, <2>5, <2>6, <2>7, <2>8, <2>9, <2>10, <2>11 DEF Step
<1>5. QED
  BY <1>1, <1>2, <1>3, <1>4 DEF Next

-----------------------------------------------------------------------------
\* The daemon keeps its inductive invariant.
THEOREM Invariant == Spec => []IInv
<1>1. Init => IInv
  <2> SUFFICES ASSUME Init PROVE IInv
    OBVIOUS
  <2>1. /\ path = NoFile /\ fresh = 0 /\ starts = 0 /\ proc = [d \in Daemon |-> Down]
        /\ ledger = NoLedger /\ streakFile = 0 /\ streak = 0 /\ blind = FALSE /\ arrived = 0
        /\ copies = [n \in Note |-> 0] /\ tries = [n \in Note |-> 0] /\ doubted = {}
        /\ stolen = FALSE /\ faults = 0
    BY DEF Init
  <2>2. /\ Down.pc = "down" /\ Down.fd = NoFile /\ Down.ledger = NoLedger /\ Down.todo = {}
    BY DEF Down
  <2>3. /\ 0 \in 0 .. MaxStarts /\ 0 \in 0 .. MaxNote /\ 0 \in 0 .. MaxFaults /\ 0 <= 0
    BY NotifydAssumption
  <2>4. Types
    <3>1. proc \in [Daemon -> Procs] /\ ledger \in LedgerType
      BY <2>1, DownIsProc
    <3>2. copies \in [Note -> Nat] /\ tries \in [Note -> Nat]
      BY <2>1
    <3>3. 0 \in 0 .. 2
      OBVIOUS
    <3>4. QED
      BY <2>1, <2>3, <3>1, <3>2, <3>3 DEF Types
  <2>5. Locks /\ Streaks
    BY <2>1, <2>2 DEF Locks, Streaks, Inner
  <2>6. File
    BY <2>1, DownIsProc DEF File, SentIsTrue
  <2>7. ASSUME NEW d \in Daemon
        PROVE  /\ Working(proc[d]) /\ Received(proc[d]) /\ Passing(proc[d])
               /\ Agrees(proc[d]) /\ Newest(proc[d])
    <3>1. proc[d] = Down
      BY <2>1
    <3>2. QED
      BY <2>2, <3>1, DownIsProc DEF Working, Received, Passing, Agrees, Newest, Reading
  <2>8. ASSUME NEW n \in Note PROVE Accounted(n)
    BY <2>1, DownIsProc DEF Accounted
  <2>9. QED
    BY <2>4, <2>5, <2>6, <2>7, <2>8 DEF IInv
<1>2. IInv /\ [Next]_vars => IInv'
  BY NextStep
<1>3. QED
  BY <1>1, <1>2, PTL DEF Spec

\* Every variable keeps its type.
THEOREM DaemonTypeCorrect == Spec => []TypeOK
<1>1. IInv => TypeOK
  BY DEF IInv, Types, TypeOK, Procs, Places, Inner
<1>2. QED
  BY <1>1, Invariant, PTL

\* Until a release unlinks a file another daemon has open, the lock admits
\* one daemon, for any number of them and of restarts
\* (_SingleInstanceLock).
THEOREM OneDaemon == Spec => []OneDaemonUnlessRobbed
<1>1. IInv => OneDaemonUnlessRobbed
  <2> SUFFICES ASSUME IInv, ~stolen PROVE Cardinality(Holders) =< 1
    BY DEF OneDaemonUnlessRobbed
  <2>1. \A d \in Holders : d \in Daemon /\ proc[d].pc \in Inner
    BY Found DEF Holders, Procs, Places
  <2>2. \A d, e \in Holders : d = e
    BY <2>1, Alone DEF IInv
  <2>3. CASE Holders = {}
    BY <2>3, FS_EmptySet
  <2>4. CASE Holders # {}
    <3>1. PICK d \in Holders : TRUE
      BY <2>4
    <3>2. Holders = {d}
      BY <2>2, <3>1
    <3>3. QED
      BY <3>2, FS_Singleton
  <2>5. QED
    BY <2>3, <2>4
<1>2. QED
  BY <1>1, Invariant, PTL

\* No order of crashes, failures and skips delivers twice what is not in
\* doubt (_attempt_one asks already_done before every delivery).
THEOREM NoIdleDuplicate == Spec => []DuplicatesHaveACause
<1>1. IInv => DuplicatesHaveACause
  BY DEF IInv, Accounted, DuplicatesHaveACause
<1>2. QED
  BY <1>1, Invariant, PTL

\* What the ledger calls sent was received (record follows deliver).
THEOREM SentWasReceived == Spec => []SentIsTrue
<1>1. IInv => SentIsTrue
  BY DEF IInv, File
<1>2. QED
  BY <1>1, Invariant, PTL

\* The budget bounds the deliveries of what is not in doubt (Ledger.record).
THEOREM BudgetIsKept == Spec => []BudgetHolds
<1>1. IInv => BudgetHolds
  <2> SUFFICES ASSUME IInv, ~stolen, NEW n \in Note \ doubted
               PROVE  tries[n] =< MaxAttempts
    BY DEF BudgetHolds
  <2>1. /\ tries[n] \in Nat /\ ledger[n].attempts \in 0 .. MaxAttempts /\ MaxAttempts \in Nat
        /\ Accounted(n)
    BY NotifydAssumption DEF IInv, Types, LedgerType
  <2>2. CASE tries[n] # ledger[n].attempts + 1
    BY <2>1, <2>2 DEF Accounted
  <2>3. CASE tries[n] = ledger[n].attempts + 1
    <3>1. PICK d \in Pending(n) : TRUE
      BY <2>1, <2>3 DEF Accounted
    <3>2. d \in Daemon /\ proc[d].pc = "record" /\ proc[d].note = n
      BY <3>1 DEF Pending
    <3>3. proc[d].ledger[n].attempts < MaxAttempts
      BY <3>2, Found DEF Working, Budgeted
    <3>4. proc[d].ledger[n].attempts = ledger[n].attempts
      BY <3>2, Found DEF Agrees, Reading, Same
    <3>5. QED
      BY <2>1, <2>3, <3>3, <3>4
  <2>4. QED
    BY <2>2, <2>3
<1>2. QED
  BY <1>1, Invariant, PTL

\* The stored streak is the real one, restarts included (read_liveness).
THEOREM StreakIsKept == Spec => []StreakSurvivesRestart
<1>1. IInv => StreakSurvivesRestart
  BY DEF IInv, Streaks, StreakSurvivesRestart
<1>2. QED
  BY <1>1, Invariant, PTL

\* No snapshot is delivered after a newer one (_drop_superseded_snapshots).
THEOREM SnapshotsStayInOrder == Spec => SnapshotsInOrder
<1> DEFINE InOrder == ~stolen => \A n \in Cumulative :
      copies'[n] # copies[n] => \A m \in Cumulative : m > n => copies[m] = 0
<1>1. IInv /\ [Next]_vars => [InOrder]_vars
  <2> SUFFICES ASSUME IInv, Next, ~stolen, NEW n \in Cumulative, copies'[n] # copies[n],
                      NEW m \in Cumulative, m > n
               PROVE  copies[m] = 0
    OBVIOUS
  <2>1. PICK d \in Daemon : Attempt(d)
    <3>1. copies' # copies
      OBVIOUS
    <3>2. ~Arrive /\ \A k \in Note : ~Elapse(k)
      BY <3>1 DEF Arrive, Elapse, outcome
    <3>3. \A e \in Daemon : ~Open(e) /\ ~Lock(e) /\ ~Release(e) /\ ~Unlink(e)
      BY <3>1 DEF Open, Lock, Release, Unlink, outcome
    <3>4. \A e \in Daemon : ~StartTick(e) /\ ~Load(e) /\ ~ReadInbox(e)
      BY <3>1 DEF StartTick, Load, ReadInbox, outcome
    <3>5. \A e \in Daemon : ~Record(e) /\ ~CloseTick(e) /\ ~Crash(e)
      BY <3>1 DEF Record, CloseTick, Crash, outcome
    <3>6. QED
      BY <3>2, <3>3, <3>4, <3>5 DEF Next, Step
  <2>2. n = Next1(d)
    <3>1. n \in Note /\ copies \in [Note -> Nat]
      BY NotifydAssumption DEF IInv, Types
    <3>2. copies' = copies \/ copies' = [copies EXCEPT ![Next1(d)] = @ + 1]
      BY <2>1 DEF Attempt, outcome
    <3>3. QED
      BY <3>1, <3>2
  <2>3. n \in proc[d].todo
    BY <2>1, <2>2, NextIsNext DEF Attempt, IInv
  <2>4. QED
    BY <2>3, Found DEF Newest
<1>2. QED
  BY <1>1, Invariant, PTL DEF Spec, SnapshotsInOrder
=============================================================================
