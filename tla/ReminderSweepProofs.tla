------------------------ MODULE ReminderSweepProofs ------------------------
(***************************************************************************)
(* Proofs about ReminderSweep, for any daemons and clocks, owners, cards,  *)
(* intervals and any number of faults and changes of the cards.  The       *)
(* argument: while nothing was lost and no two sweeps overlapped, either   *)
(* the stored state or the copy of the one sweep under way says what every *)
(* owner has been told and what has been escalated.                        *)
(***************************************************************************)
EXTENDS ReminderSweep, WellFoundedInduction, TLAPS

Sweeps ==
  [pc : {"idle", "cards", "state", "owners"}, now : Int, view : [Card -> Class],
   owners : [Owner -> Entries], latches : [Card -> SUBSET Kind], todo : SUBSET Owner]

\* An entry without a digest was never sent, and no stamp is past the horizon.
Aged(e) ==
  /\ e.last >= -Horizon /\ e.sent >= -Horizon
  /\ e.print = NoDigest => e.sent = Never

\* A sweep looks back no further than it may stall, and visits stale owners.
Stamped(s) ==
  /\ s \in Sweeps /\ s.now >= -MaxStall
  /\ \A o \in Owner : Aged(s.owners[o])
  /\ s.pc = "owners" => s.todo \subseteq StaleOwners(s)

Typed ==
  /\ claim \in [at : Int, by : Host] /\ claim.at >= -Horizon
  /\ class \in [Card -> Class]
  /\ owners \in [Owner -> Entries] /\ \A o \in Owner : Aged(owners[o])
  /\ latches \in [Card -> SUBSET Kind]
  /\ told \in [Owner -> Digest]
  /\ raised \in [Card -> [Kind -> 0 .. 2]]
  /\ lapses \subseteq {"lost", "overlap"}
  /\ faults \in 0 .. MaxFaults /\ work \in 0 .. MaxWork
  /\ sweep \in [Host -> Sweeps] /\ \A h \in Host : Stamped(sweep[h])

\* These entries and latches say what was told and raised.
Knows(entries, locks) ==
  /\ \A o \in Owner : entries[o].print # NoDigest => told[o] = entries[o].print
  /\ \A c \in Card, k \in Kind : raised[c][k] = IF k \in locks[c] THEN 1 ELSE 0

AtOwners(h) == sweep[h].pc = "owners"

Calm ==
  lapses = {} =>
    /\ \A g, h \in Host : Running(g) /\ Running(h) => g = h
    /\ (\A h \in Host : ~AtOwners(h)) => Knows(owners, latches)
    /\ \A h \in Host : AtOwners(h) => Knows(sweep[h].owners, sweep[h].latches)

IInv == Typed /\ Calm

-----------------------------------------------------------------------------
\* Numbers and records.

LEMMA Bounds ==
  /\ Horizon \in Nat /\ MaxStall \in Nat /\ MaxStall <= Horizon
  /\ EscalateAfter \in Nat /\ 1 <= EscalateAfter
  /\ MaxWork \in Nat /\ MaxFaults \in Nat
  /\ \A h \in Host : Skew[h] \in Nat
<1>1. /\ ClaimCadence \in Nat /\ Horizon >= BacklogInterval + MaxStall
      /\ BacklogInterval \in Nat /\ MaxStall \in Nat /\ Horizon \in Nat
      /\ EscalateAfter \in Nat \ {0} /\ MaxWork \in Nat /\ MaxFaults \in Nat
      /\ Skew \in [Host -> Nat]
  BY SweepAssumption
<1>2. QED
  BY <1>1

LEMMA EntryFields ==
  ASSUME NEW e \in Entries
  PROVE  /\ e.count \in 0 .. EscalateAfter /\ e.last \in Int
         /\ e.print \in Digest /\ e.sent \in Int
BY DEF Entries

LEMMA FreshTypes ==
  /\ NoEntry \in Entries /\ Aged(NoEntry)
  /\ NoLatches \in [Card -> SUBSET Kind]
  /\ Stamped(Resting)
<1>1. NoEntry \in Entries /\ Aged(NoEntry)
  BY Bounds DEF NoEntry, Entries, Aged, Never, NoDigest, Digest
<1>2. NoLatches \in [Card -> SUBSET Kind]
  BY DEF NoLatches
<1>3. Resting \in Sweeps
  BY <1>1, <1>2 DEF Resting, Sweeps, Class
<1>4. Stamped(Resting)
  BY <1>1, <1>3, Bounds DEF Stamped, Resting
<1>5. QED
  BY <1>1, <1>2, <1>4

LEMMA OlderIsInt ==
  ASSUME NEW t \in Int
  PROVE  /\ Older(t) \in Int
         /\ t >= -Horizon => Older(t) >= -Horizon
         /\ t = -Horizon => Older(t) = -Horizon
BY Bounds DEF Older

\* Time passing leaves digests and counts alone.
LEMMA OlderIsAged ==
  ASSUME NEW e \in Entries, Aged(e)
  PROVE  /\ OlderEntry(e) \in Entries /\ Aged(OlderEntry(e))
         /\ OlderEntry(e).print = e.print
<1> DEFINE x == Older(e.last)
           y == Older(e.sent)
<1>1. e.last \in Int /\ e.sent \in Int
  BY EntryFields
<1>2. /\ x \in Int /\ y \in Int
      /\ e.last >= -Horizon => x >= -Horizon
      /\ e.sent >= -Horizon => y >= -Horizon
      /\ e.sent = -Horizon => y = -Horizon
  BY <1>1, OlderIsInt
<1>3. OlderEntry(e) = [e EXCEPT !.last = x, !.sent = y]
  BY DEF OlderEntry
<1> HIDE DEF x, y
<1>4. /\ OlderEntry(e) \in Entries
      /\ OlderEntry(e).last = x /\ OlderEntry(e).sent = y /\ OlderEntry(e).print = e.print
  BY <1>2, <1>3 DEF Entries
<1>5. Aged(OlderEntry(e))
  BY <1>2, <1>4 DEF Aged, Never
<1>6. QED
  BY <1>4, <1>5

LEMMA PrintIsDigest ==
  ASSUME NEW s \in Sweeps, NEW o \in Owner
  PROVE  /\ Fingerprint(s, o) \in Digest
         /\ o \in StaleOwners(s) => Fingerprint(s, o) # NoDigest
<1>1. \A c \in CardsOf(s, o) : c \in Card /\ s.view[c] \in Class \ {"quiet"}
  BY DEF CardsOf, Sweeps
<1>2. Fingerprint(s, o) \in Digest
  BY <1>1 DEF Fingerprint, Digest
<1>3. ASSUME o \in StaleOwners(s) PROVE Fingerprint(s, o) # NoDigest
  <2>1. PICK c \in CardsOf(s, o) : TRUE
    BY <1>3 DEF StaleOwners
  <2>2. <<c, s.view[c]>> \in Fingerprint(s, o)
    BY <2>1 DEF Fingerprint
  <2>3. QED
    BY <2>2 DEF NoDigest
<1>4. QED
  BY <1>2, <1>3

\* The owner a sweep visits next is one it has to visit.
LEMMA NextOwner ==
  ASSUME NEW todo \in SUBSET Owner, todo # {}
  PROVE  (CHOOSE n \in todo : \A m \in todo : n =< m) \in todo
<1> DEFINE less == OpToRel(<, Nat)
<1>1. todo \subseteq Nat
  BY SweepAssumption
<1>2. IsWellFoundedOn(less, Nat)
  BY NatLessThanWellFounded
<1>3. \A x, y \in Nat : <<y, x>> \in less <=> y < x
  BY DEF OpToRel
<1> HIDE DEF less
<1>4. PICK x \in todo : \A y \in todo : ~ (<<y, x>> \in less)
  BY <1>1, <1>2, WFMin
<1>5. ASSUME NEW y \in todo PROVE x =< y
  <2>1. x \in Nat /\ y \in Nat /\ <<y, x>> \notin less
    BY <1>1, <1>4
  <2>2. ~(y < x)
    BY <1>3, <2>1
  <2>3. QED
    BY <2>1, <2>2
<1>6. \E n \in todo : \A m \in todo : n =< m
  BY <1>5
<1>7. QED
  BY <1>6

\* One host changes its own sweep.
LEMMA HostMoves ==
  ASSUME Typed, NEW h \in Host, NEW p, Stamped(p), sweep' = [sweep EXCEPT ![h] = p]
  PROVE  /\ sweep'[h] = p /\ \A g \in Host : g # h => sweep'[g] = sweep[g]
         /\ sweep' \in [Host -> Sweeps] /\ \A g \in Host : Stamped(sweep'[g])
<1>1. p \in Sweeps
  BY DEF Stamped
<1>2. sweep'[h] = p /\ \A g \in Host : g # h => sweep'[g] = sweep[g]
  BY DEF Typed
<1>3. QED
  BY <1>1, <1>2 DEF Typed

\* Only the history decides what an entry and a latch should say.
LEMMA KnowsKept ==
  ASSUME UNCHANGED <<told, raised>>, NEW entries, NEW locks
  PROVE  Knows(entries, locks)' <=> Knows(entries, locks)
BY DEF Knows

LEMMA CalmFacts ==
  ASSUME IInv, lapses = {}
  PROVE  /\ \A g, k \in Host : Running(g) /\ Running(k) => g = k
         /\ (\A k \in Host : ~AtOwners(k)) => Knows(owners, latches)
         /\ \A k \in Host : AtOwners(k) => Knows(sweep[k].owners, sweep[k].latches)
BY DEF IInv, Calm

\* A sweep that moves between its steps without touching what is known.
LEMMA Passes ==
  ASSUME IInv, NEW h \in Host, NEW p, Stamped(p), sweep' = [sweep EXCEPT ![h] = p],
         claim' \in [at : Int, by : Host], claim'.at >= -Horizon,
         UNCHANGED <<class, stored, history, work>>,
         faults' \in 0 .. MaxFaults, lapses \subseteq lapses',
         lapses' \subseteq {"lost", "overlap"},
         lapses' = {} => /\ p.pc # "idle" => \A g \in Host : Running(g) => g = h
                         /\ ~AtOwners(h)
                         /\ p.pc = "owners" => p.owners = owners /\ p.latches = latches
  PROVE  IInv'
<1>1. /\ sweep'[h] = p /\ \A g \in Host : g # h => sweep'[g] = sweep[g]
      /\ sweep' \in [Host -> Sweeps] /\ \A g \in Host : Stamped(sweep'[g])
  BY HostMoves DEF IInv
<1>2. UNCHANGED <<class, owners, latches, told, raised, work>>
  BY DEF stored, history
<1>3. Typed'
  <2>1. \A g \in Host : Stamped(sweep[g])'
    BY <1>1 DEF Stamped, StaleOwners, CardsOf
  <2>2. QED
    BY <1>1, <1>2, <2>1 DEF IInv, Typed, Aged
<1>4. Calm'
  <2> SUFFICES ASSUME lapses' = {}
               PROVE  /\ \A g, k \in Host : Running(g)' /\ Running(k)' => g = k
                      /\ (\A k \in Host : ~AtOwners(k)') => Knows(owners, latches)'
                      /\ \A k \in Host : AtOwners(k)' =>
                           Knows(sweep[k].owners, sweep[k].latches)'
    BY DEF Calm
  <2>1. lapses = {}
    OBVIOUS
  <2>2. ~AtOwners(h) /\ (p.pc # "idle" => \A g \in Host : Running(g) => g = h)
    OBVIOUS
  <2>3. \A g, k \in Host : Running(g)' /\ Running(k)' => g = k
    BY <1>1, <2>1, <2>2, CalmFacts DEF Running
  <2>4. (\A k \in Host : ~AtOwners(k)') => Knows(owners, latches)'
    <3>1. (\A k \in Host : ~AtOwners(k)') => \A k \in Host : ~AtOwners(k)
      BY <1>1, <2>2 DEF AtOwners
    <3>2. Knows(owners, latches)' <=> Knows(owners, latches)
      BY <1>2 DEF Knows
    <3>3. QED
      BY <2>1, <3>1, <3>2, CalmFacts
  <2>5. ASSUME NEW k \in Host, AtOwners(k)'
        PROVE  Knows(sweep[k].owners, sweep[k].latches)'
    <3>1. CASE k = h
      <4>1. p.pc = "owners" /\ p.owners = owners /\ p.latches = latches
        BY <1>1, <2>5, <3>1 DEF AtOwners
      <4>2. \A g \in Host : ~AtOwners(g)
        BY <2>2, <4>1 DEF AtOwners, Running
      <4>3. Knows(owners, latches)
        BY <2>1, <4>2, CalmFacts
      <4>4. QED
        BY <1>1, <1>2, <3>1, <4>1, <4>3 DEF Knows
    <3>2. CASE k # h
      <4>1. sweep'[k] = sweep[k] /\ AtOwners(k)
        BY <1>1, <2>5, <3>2 DEF AtOwners
      <4>2. Knows(sweep[k].owners, sweep[k].latches)
        BY <2>1, <4>1, CalmFacts
      <4>3. QED
        BY <1>2, <4>1, <4>2 DEF Knows
    <3>3. QED
      BY <3>1, <3>2
  <2>6. QED
    BY <2>3, <2>4, <2>5
<1>5. QED
  BY <1>3, <1>4 DEF IInv

LEMMA FaultsCounted ==
  ASSUME IInv, Fault \/ NoFault
  PROVE  faults' \in 0 .. MaxFaults
BY Bounds DEF Fault, NoFault, IInv, Typed

\* The host at work, and what its fields may hold.
LEMMA Found ==
  ASSUME IInv, NEW h \in Host
  PROVE  /\ sweep[h] \in Sweeps /\ Stamped(sweep[h]) /\ sweep \in [Host -> Sweeps]
         /\ claim \in [at : Int, by : Host] /\ claim.at >= -Horizon
         /\ class \in [Card -> Class]
         /\ owners \in [Owner -> Entries] /\ \A o \in Owner : Aged(owners[o])
         /\ latches \in [Card -> SUBSET Kind]
         /\ lapses \subseteq {"lost", "overlap"}
BY DEF IInv, Typed

LEMMA SweepFields ==
  ASSUME NEW s \in Sweeps
  PROVE  /\ s.now \in Int /\ s.view \in [Card -> Class] /\ s.owners \in [Owner -> Entries]
         /\ s.latches \in [Card -> SUBSET Kind] /\ s.todo \subseteq Owner
BY DEF Sweeps

LEMMA SweepMoves ==
  ASSUME NEW s \in Sweeps, NEW view \in [Card -> Class], NEW todo \in SUBSET Owner,
         NEW entries \in [Owner -> Entries], NEW locks \in [Card -> SUBSET Kind],
         NEW now \in Int
  PROVE  /\ [s EXCEPT !.pc = "state", !.view = view] \in Sweeps
         /\ [s EXCEPT !.pc = "owners", !.todo = todo] \in Sweeps
         /\ [s EXCEPT !.pc = "owners", !.owners = entries, !.latches = locks,
                      !.todo = todo] \in Sweeps
         /\ [s EXCEPT !.todo = todo, !.owners = entries, !.latches = locks] \in Sweeps
         /\ [s EXCEPT !.now = now, !.owners = entries] \in Sweeps
<1>1. [s EXCEPT !.pc = "state", !.view = view] \in Sweeps
  BY DEF Sweeps
<1>2. [s EXCEPT !.pc = "owners", !.todo = todo] \in Sweeps
  BY DEF Sweeps
<1>3. [s EXCEPT !.pc = "owners", !.owners = entries, !.latches = locks,
                !.todo = todo] \in Sweeps
  BY DEF Sweeps
<1>4. [s EXCEPT !.todo = todo, !.owners = entries, !.latches = locks] \in Sweeps
  BY DEF Sweeps
<1>5. [s EXCEPT !.now = now, !.owners = entries] \in Sweeps
  BY DEF Sweeps
<1>6. QED
  BY <1>1, <1>2, <1>3, <1>4, <1>5

-----------------------------------------------------------------------------
\* The steps of a sweep.

LEMMA ClaimStep ==
  ASSUME IInv, NEW h \in Host, Claim(h)
  PROVE  IInv'
<1> DEFINE p == [Resting EXCEPT !.pc = "cards", !.now = Skew[h]]
<1>1. Skew[h] \in Nat /\ Resting \in Sweeps /\ Resting.owners = [o \in Owner |-> NoEntry]
  BY Bounds, FreshTypes DEF Stamped, Resting
<1>2. p \in Sweeps
  <2>1. "cards" \in {"idle", "cards", "state", "owners"} /\ Skew[h] \in Int
    BY <1>1
  <2>2. \A q \in Sweeps, x \in Int : [q EXCEPT !.pc = "cards", !.now = x] \in Sweeps
    BY DEF Sweeps
  <2>3. QED
    BY <1>1, <2>1, <2>2
<1>3. p.pc = "cards" /\ p.now = Skew[h] /\ p.owners = Resting.owners
  BY <1>1 DEF Resting
<1>4. Stamped(p)
  BY <1>1, <1>2, <1>3, Bounds, FreshTypes DEF Stamped
<1>5. sweep' = [sweep EXCEPT ![h] = p] /\ ~Running(h)
      /\ UNCHANGED <<class, stored, history, work>>
  BY DEF Claim
<1> HIDE DEF p
<1>6. claim' \in [at : Int, by : Host] /\ claim'.at >= -Horizon
  <2>1. CASE claim' = [at |-> Skew[h], by |-> h]
    BY <1>1, <2>1, Bounds
  <2>2. CASE UNCHANGED claim
    BY <2>2, Found
  <2>3. QED
    BY <2>1, <2>2 DEF Claim
<1>7. faults' \in 0 .. MaxFaults
  BY FaultsCounted DEF Claim
<1>8. /\ lapses \subseteq lapses' /\ lapses' \subseteq {"lost", "overlap"}
      /\ lapses' = {} => \A g \in Host : Running(g) => g = h
  <2>1. lapses' = IF \E g \in Host \ {h} : Running(g) THEN lapses \cup {"overlap"}
                  ELSE lapses
    BY DEF Claim
  <2>2. lapses' = lapses \/ lapses' = lapses \cup {"overlap"}
    BY <2>1
  <2>3. lapses \subseteq lapses' /\ lapses' \subseteq {"lost", "overlap"}
    BY <2>2, Found
  <2>4. lapses' = {} => ~ \E g \in Host \ {h} : Running(g)
    BY <2>1
  <2>5. QED
    BY <2>3, <2>4
<1>9. ~AtOwners(h)
  BY <1>5 DEF AtOwners, Running
<1>10. QED
  BY <1>3, <1>4, <1>5, <1>6, <1>7, <1>8, <1>9, Passes

LEMMA ReadCardsStep ==
  ASSUME IInv, NEW h \in Host, ReadCards(h)
  PROVE  IInv'
<1> DEFINE s == sweep[h]
           r == [s EXCEPT !.pc = "state", !.view = class]
<1>1. /\ s.pc = "cards" /\ UNCHANGED <<claim, class, stored, history, lapses, work>>
      /\ ~AtOwners(h) /\ Running(h)
  BY DEF ReadCards, AtOwners, Running
<1>2. faults' \in 0 .. MaxFaults
  BY FaultsCounted DEF ReadCards
<1>3. r \in Sweeps
  BY Found, SweepMoves, SweepFields
<1>4. r.pc = "state" /\ r.now = s.now /\ r.owners = s.owners
  BY Found DEF Sweeps
<1>5. Stamped(r)
  BY <1>3, <1>4, Found DEF Stamped
<1>6. lapses' = {} => \A g \in Host : Running(g) => g = h
  BY <1>1, CalmFacts
<1>7. sweep' = [sweep EXCEPT ![h] = r] \/ sweep' = [sweep EXCEPT ![h] = Resting]
  <2>1. CASE sweep' = [sweep EXCEPT ![h].pc = "state", ![h].view = class]
    BY <2>1, Found
  <2>2. QED
    BY <2>1 DEF ReadCards
<1> HIDE DEF r
<1>8. \A p : p = r \/ p = Resting => Stamped(p) /\ p.pc # "owners"
  <2>1. Resting.pc = "idle"
    BY DEF Resting
  <2>2. QED
    BY <1>4, <1>5, <2>1, FreshTypes
<1>9. \A p : (p = r \/ p = Resting) /\ sweep' = [sweep EXCEPT ![h] = p] => IInv'
  <2> TAKE p
  <2> HAVE (p = r \/ p = Resting) /\ sweep' = [sweep EXCEPT ![h] = p]
  <2> QED
    BY <1>1, <1>2, <1>6, <1>8, Found, Passes
<1>10. QED
  BY <1>7, <1>9

LEMMA LoadStateStep ==
  ASSUME IInv, NEW h \in Host, LoadState(h)
  PROVE  IInv'
<1> DEFINE s == sweep[h]
           todo == StaleOwners(s)
           read == [s EXCEPT !.pc = "owners", !.owners = owners, !.latches = latches,
                             !.todo = todo]
           lost == [s EXCEPT !.pc = "owners", !.todo = todo]
<1>1. /\ s.pc = "state" /\ UNCHANGED <<claim, class, stored, history, work>>
      /\ ~AtOwners(h) /\ Running(h)
  BY DEF LoadState, AtOwners, Running
<1>2. faults' \in 0 .. MaxFaults
  BY FaultsCounted DEF LoadState
<1>3. todo \in SUBSET Owner
  BY DEF StaleOwners
<1>4. read \in Sweeps /\ lost \in Sweeps
  BY <1>3, Found, SweepMoves, SweepFields
<1>5. /\ read.pc = "owners" /\ read.now = s.now /\ read.owners = owners
      /\ read.latches = latches /\ read.todo = todo /\ read.view = s.view
  BY Found DEF Sweeps
<1>6. /\ lost.pc = "owners" /\ lost.now = s.now /\ lost.owners = s.owners
      /\ lost.todo = todo /\ lost.view = s.view
  BY Found DEF Sweeps
<1>7. \A p : p.view = s.view => StaleOwners(p) = todo
  BY DEF StaleOwners, CardsOf
<1> HIDE DEF read, lost, todo
<1>8. Stamped(read) /\ Stamped(lost)
  BY <1>4, <1>5, <1>6, <1>7, Found DEF Stamped
<1>9. CASE sweep' = [sweep EXCEPT ![h] = read] /\ UNCHANGED lapses
  <2>1. lapses' = {} => \A g \in Host : Running(g) => g = h
    BY <1>1, <1>9, CalmFacts
  <2>2. QED
    BY <1>1, <1>2, <1>5, <1>8, <1>9, <2>1, Found, Passes
<1>10. CASE sweep' = [sweep EXCEPT ![h] = lost] /\ lapses' = lapses \cup {"lost"}
  BY <1>1, <1>2, <1>8, <1>10, Found, Passes
<1>11. \/ sweep' = [sweep EXCEPT ![h] = read] /\ UNCHANGED lapses
       \/ sweep' = [sweep EXCEPT ![h] = lost] /\ lapses' = lapses \cup {"lost"}
  BY Found DEF LoadState, read, lost, todo, Sweeps
<1>12. QED
  BY <1>9, <1>10, <1>11

LEMMA CrashStep ==
  ASSUME IInv, NEW h \in Host, Crash(h)
  PROVE  IInv'
<1>1. /\ sweep' = [sweep EXCEPT ![h] = Resting] /\ lapses' = lapses \cup {"lost"}
      /\ UNCHANGED <<claim, class, stored, history, work>> /\ faults' \in 0 .. MaxFaults
  BY FaultsCounted DEF Crash
<1>2. QED
  BY <1>1, FreshTypes, Found, Passes

LEMMA EntryIsAged ==
  ASSUME NEW s \in Sweeps, Stamped(s), NEW o \in StaleOwners(s), NEW delivered \in BOOLEAN
  PROVE  LET e == EntryAfter(s, o, delivered)
         IN  /\ e \in Entries /\ Aged(e)
             /\ e.print = IF delivered /\ DigestDue(s, o) THEN Fingerprint(s, o)
                          ELSE s.owners[o].print
<1> DEFINE e == s.owners[o]
           n == IF e.count >= EscalateAfter THEN e.count ELSE e.count + 1
<1>1. o \in Owner
  BY DEF StaleOwners
<1>2. e \in Entries /\ Aged(e) /\ s.now \in Int /\ s.now >= -Horizon
  BY <1>1, SweepFields, Bounds DEF Stamped
<1>3. Fingerprint(s, o) \in Digest /\ Fingerprint(s, o) # NoDigest
  BY <1>1, PrintIsDigest
<1>4. n \in 0 .. EscalateAfter
  BY <1>2, EntryFields, Bounds
<1>5. EntryAfter(s, o, delivered) =
        IF ~DigestDue(s, o) THEN e
        ELSE IF ~delivered THEN [e EXCEPT !.count = n, !.last = s.now]
        ELSE [count |-> n, last |-> s.now, print |-> Fingerprint(s, o), sent |-> s.now]
  BY DEF EntryAfter
<1> HIDE DEF e, n
<1>6. CASE ~DigestDue(s, o)
  BY <1>2, <1>5, <1>6 DEF e
<1>7. CASE DigestDue(s, o) /\ ~delivered
  <2>1. EntryAfter(s, o, delivered) = [e EXCEPT !.count = n, !.last = s.now]
    BY <1>5, <1>7
  <2>2. /\ EntryAfter(s, o, delivered) \in Entries
        /\ EntryAfter(s, o, delivered).last = s.now
        /\ EntryAfter(s, o, delivered).sent = e.sent
        /\ EntryAfter(s, o, delivered).print = e.print
    BY <1>2, <1>4, <2>1 DEF Entries
  <2>3. QED
    BY <1>2, <1>7, <2>2 DEF Aged, e
<1>8. CASE DigestDue(s, o) /\ delivered
  <2>1. EntryAfter(s, o, delivered) =
          [count |-> n, last |-> s.now, print |-> Fingerprint(s, o), sent |-> s.now]
    BY <1>5, <1>8
  <2>2. EntryAfter(s, o, delivered) \in Entries
    BY <1>2, <1>3, <1>4, <2>1 DEF Entries
  <2>3. /\ EntryAfter(s, o, delivered).last = s.now
        /\ EntryAfter(s, o, delivered).sent = s.now
        /\ EntryAfter(s, o, delivered).print = Fingerprint(s, o)
    BY <2>1
  <2>4. Aged(EntryAfter(s, o, delivered))
    BY <1>2, <1>3, <2>3 DEF Aged
  <2>5. QED
    BY <1>8, <2>2, <2>3, <2>4
<1>9. QED
  BY <1>6, <1>7, <1>8

LEMMA SaveStep ==
  ASSUME IInv, NEW h \in Host, Save(h)
  PROVE  IInv'
<1> DEFINE s == sweep[h]
<1>1. /\ s.pc = "owners" /\ sweep' = [sweep EXCEPT ![h] = Resting]
      /\ UNCHANGED <<claim, class, told, work>> /\ AtOwners(h) /\ Running(h)
  BY DEF Save, AtOwners, Running
<1>2. faults' \in 0 .. MaxFaults
  BY FaultsCounted DEF Save
<1>3. CASE lapses' = lapses \cup {"lost"} /\ UNCHANGED <<stored, raised>>
  BY <1>1, <1>2, <1>3, FreshTypes, Found, Passes DEF history
<1>4. CASE /\ owners' = [o \in Owner |-> IF o \in StaleOwners(s) THEN s.owners[o]
                                         ELSE NoEntry]
           /\ latches' = [c \in Card |-> IF StreakOver(s, c) THEN {} ELSE s.latches[c]]
           /\ UNCHANGED lapses
           /\ raised' = [c \in Card |-> IF s.view[c] = "quiet" THEN [k \in Kind |-> 0]
                                        ELSE raised[c]]
  <2>1. /\ sweep'[h] = Resting /\ \A g \in Host : g # h => sweep'[g] = sweep[g]
        /\ sweep' \in [Host -> Sweeps] /\ \A g \in Host : Stamped(sweep'[g])
    BY <1>1, FreshTypes, HostMoves DEF IInv
  <2>2. s.owners \in [Owner -> Entries] /\ s.latches \in [Card -> SUBSET Kind]
        /\ \A o \in Owner : Aged(s.owners[o])
    BY Found, SweepFields DEF Stamped
  <2>3. owners' \in [Owner -> Entries] /\ \A o \in Owner : Aged(owners'[o])
    BY <1>4, <2>2, FreshTypes
  <2>4. latches' \in [Card -> SUBSET Kind]
    BY <1>4, <2>2
  <2>5. raised' \in [Card -> [Kind -> 0 .. 2]]
    BY <1>4 DEF IInv, Typed
  <2>6. \A g \in Host : Stamped(sweep[g])'
    BY <2>1 DEF Stamped, StaleOwners, CardsOf
  <2>7. Typed'
    BY <1>1, <1>2, <1>4, <2>1, <2>3, <2>4, <2>5, <2>6 DEF IInv, Typed, Aged
  <2>8. Calm'
    <3> SUFFICES ASSUME lapses' = {}
                 PROVE  /\ \A g, k \in Host : Running(g)' /\ Running(k)' => g = k
                        /\ Knows(owners, latches)'
                        /\ \A k \in Host : ~AtOwners(k)'
      BY DEF Calm
    <3>1. lapses = {} /\ \A g \in Host : Running(g) => g = h
      BY <1>1, <1>4, CalmFacts
    <3>2. \A g \in Host : ~Running(g)'
      BY <2>1, <3>1 DEF Running, Resting
    <3>3. Knows(s.owners, s.latches)
      BY <1>1, <3>1, CalmFacts
    <3>4. ASSUME NEW o \in Owner, owners'[o].print # NoDigest
          PROVE  told'[o] = owners'[o].print
      <4>1. owners'[o] = s.owners[o]
        BY <1>4, <3>4 DEF NoEntry
      <4>2. QED
        BY <1>1, <3>3, <3>4, <4>1 DEF Knows
    <3>5. ASSUME NEW c \in Card, NEW k \in Kind
          PROVE  raised'[c][k] = IF k \in latches'[c] THEN 1 ELSE 0
      <4>1. CASE s.view[c] = "quiet"
        BY <1>4, <4>1 DEF StreakOver
      <4>2. CASE s.view[c] # "quiet"
        <5>1. raised'[c] = raised[c] /\ latches'[c] = s.latches[c]
          BY <1>4, <4>2 DEF StreakOver
        <5>2. QED
          BY <3>3, <5>1 DEF Knows
      <4>3. QED
        BY <4>1, <4>2
    <3>6. Knows(owners, latches)'
      BY <3>4, <3>5 DEF Knows
    <3>7. QED
      BY <3>2, <3>6 DEF Running, AtOwners
  <2>9. QED
    BY <2>7, <2>8 DEF IInv
<1>5. QED
  BY <1>3, <1>4 DEF Save

LEMMA SweepOwnerStep ==
  ASSUME IInv, NEW h \in Host, SweepOwner(h)
  PROVE  IInv'
<1> DEFINE s == sweep[h]
           o == CHOOSE n \in s.todo : \A m \in s.todo : n =< m
<1>1. /\ s.pc = "owners" /\ s.todo # {} /\ AtOwners(h) /\ Running(h)
      /\ UNCHANGED <<claim, class, owners, latches, lapses, work>>
  BY DEF SweepOwner, AtOwners, Running, stored
<1>2. s.todo \subseteq Owner /\ s.todo \subseteq StaleOwners(s)
  BY <1>1, Found, SweepFields DEF Stamped
<1>3. o \in s.todo
  BY <1>1, <1>2, NextOwner
<1>4. PICK asked \in [Kind -> SUBSET Card], delivered \in BOOLEAN :
        /\ asked["creator"] \subseteq CreatorAsked(s, o)
        /\ asked["operator"] \subseteq OperatorAsked(s, o)
        /\ delivered => DigestDue(s, o) /\ ~Suppressed(s, o)
        /\ Fault \/ NoFault
        /\ told' = IF delivered THEN [told EXCEPT ![o] = Fingerprint(s, o)] ELSE told
        /\ raised' = [c \in Card |-> [k \in Kind |->
             IF c \in asked[k] /\ raised[c][k] < 2
             THEN raised[c][k] + 1 ELSE raised[c][k]]]
        /\ sweep' = [sweep EXCEPT ![h].todo = @ \ {o},
             ![h].owners[o] = EntryAfter(s, o, delivered),
             ![h].latches = Latch(s, asked)]
  BY DEF SweepOwner
<1> DEFINE todo == s.todo \ {o}
           e == EntryAfter(s, o, delivered)
           entries == [s.owners EXCEPT ![o] = e]
           locks == Latch(s, asked)
           p == [s EXCEPT !.todo = todo, !.owners = entries, !.latches = locks]
<1>5. sweep' = [sweep EXCEPT ![h] = p]
  <2> HIDE DEF o
  <2>1. sweep' = [sweep EXCEPT ![h].todo = todo, ![h].owners[o] = e, ![h].latches = locks]
    BY <1>4
  <2> HIDE DEF e, todo, locks
  <2>2. QED
    BY ZenonT(60), <2>1, Found DEF Sweeps
<1> HIDE DEF o
<1>6. /\ e \in Entries /\ Aged(e)
      /\ e.print = IF delivered THEN Fingerprint(s, o) ELSE s.owners[o].print
  BY <1>2, <1>3, <1>4, Found, EntryIsAged
<1> HIDE DEF e
<1>7. /\ s \in Sweeps /\ s.owners \in [Owner -> Entries] /\ s.latches \in [Card -> SUBSET Kind]
      /\ \A n \in Owner : Aged(s.owners[n])
      /\ s.now >= -MaxStall /\ s.now \in Int /\ o \in Owner
  BY <1>2, <1>3, Found, SweepFields DEF Stamped
<1>8. /\ entries \in [Owner -> Entries] /\ \A n \in Owner : Aged(entries[n])
      /\ entries[o] = e /\ \A n \in Owner \ {o} : entries[n] = s.owners[n]
  BY <1>6, <1>7
<1>9. /\ locks \in [Card -> SUBSET Kind]
      /\ \A c \in Card : locks[c] = s.latches[c] \cup {k \in Kind : c \in asked[k]}
  BY <1>7 DEF Latch
<1>10. todo \in SUBSET Owner /\ todo \subseteq StaleOwners(s)
  BY <1>2
<1> HIDE DEF todo, entries, locks
<1>11. p \in Sweeps
  BY <1>7, <1>8, <1>9, <1>10, SweepMoves, SweepFields
<1>12. /\ p.pc = "owners" /\ p.now = s.now /\ p.view = s.view /\ p.owners = entries
       /\ p.latches = locks /\ p.todo = todo
  BY <1>1, <1>7 DEF Sweeps
<1> HIDE DEF p
<1>13. StaleOwners(p) = StaleOwners(s)
  BY <1>12 DEF StaleOwners, CardsOf
<1>14. Stamped(p)
  BY <1>7, <1>8, <1>10, <1>11, <1>12, <1>13 DEF Stamped
<1>15. /\ sweep'[h] = p /\ \A g \in Host : g # h => sweep'[g] = sweep[g]
       /\ sweep' \in [Host -> Sweeps] /\ \A g \in Host : Stamped(sweep'[g])
  BY <1>5, <1>14, HostMoves DEF IInv
<1>16. Fingerprint(s, o) \in Digest
  BY <1>7, PrintIsDigest
<1>17. \A c \in Card, k \in Kind : c \in asked[k] => k \notin s.latches[c]
  <2>1. \A k \in Kind : k = "creator" \/ k = "operator"
    BY DEF Kind
  <2>2. CreatorAsked(s, o) \subseteq Unlatched(s, o, "creator")
    BY DEF CreatorAsked
  <2>3. OperatorAsked(s, o) \subseteq Unlatched(s, o, "operator")
    BY DEF OperatorAsked
  <2>4. QED
    BY <1>4, <2>1, <2>2, <2>3 DEF Unlatched
<1>18. Typed'
  <2>1. told' \in [Owner -> Digest]
    BY <1>4, <1>7, <1>16 DEF IInv, Typed
  <2>2. raised' \in [Card -> [Kind -> 0 .. 2]]
    BY <1>4 DEF IInv, Typed
  <2>3. faults' \in 0 .. MaxFaults
    BY <1>4, FaultsCounted
  <2>4. \A g \in Host : Stamped(sweep[g])'
    BY <1>15 DEF Stamped, StaleOwners, CardsOf
  <2>5. QED
    BY <1>1, <1>15, <2>1, <2>2, <2>3, <2>4 DEF IInv, Typed, Aged
<1>19. Calm'
  <2> SUFFICES ASSUME lapses' = {}
               PROVE  /\ \A g, k \in Host : Running(g)' /\ Running(k)' => g = k
                      /\ AtOwners(h)'
                      /\ \A k \in Host : AtOwners(k)' => k = h
                      /\ Knows(sweep[h].owners, sweep[h].latches)'
    BY DEF Calm
  <2>1. lapses = {} /\ \A g \in Host : Running(g) => g = h
    BY <1>1, CalmFacts
  <2>2. \A g \in Host : Running(g)' => g = h
    BY <1>15, <2>1 DEF Running
  <2>3. AtOwners(h)' /\ \A k \in Host : AtOwners(k)' => k = h
    BY <1>12, <1>15, <2>1 DEF Running, AtOwners
  <2>4. Knows(s.owners, s.latches)
    BY <1>1, <2>1, CalmFacts
  <2>5. ASSUME NEW n \in Owner, entries[n].print # NoDigest
        PROVE  told'[n] = entries[n].print
    <3>1. CASE n = o /\ delivered
      <4>1. told'[n] = Fingerprint(s, o)
        BY <1>4, <1>7, <3>1 DEF IInv, Typed
      <4>2. QED
        BY <1>6, <1>8, <3>1, <4>1
    <3>2. CASE ~(n = o /\ delivered)
      <4>1. entries[n].print = s.owners[n].print
        BY <1>6, <1>8, <3>2
      <4>2. told'[n] = told[n]
        BY <1>4, <3>2 DEF IInv, Typed
      <4>3. QED
        BY <2>4, <2>5, <4>1, <4>2 DEF Knows
    <3>3. QED
      BY <3>1, <3>2
  <2>6. ASSUME NEW c \in Card, NEW k \in Kind
        PROVE  raised'[c][k] = IF k \in locks[c] THEN 1 ELSE 0
    <3>1. raised[c][k] = IF k \in s.latches[c] THEN 1 ELSE 0
      BY <2>4 DEF Knows
    <3>2. raised'[c][k] = IF c \in asked[k] /\ raised[c][k] < 2
                          THEN raised[c][k] + 1 ELSE raised[c][k]
      BY <1>4
    <3>3. k \in locks[c] <=> k \in s.latches[c] \/ c \in asked[k]
      BY <1>9
    <3>4. c \in asked[k] => k \notin s.latches[c]
      BY <1>17
    <3>5. QED
      BY <3>1, <3>2, <3>3, <3>4
  <2>7. Knows(sweep[h].owners, sweep[h].latches)'
    BY <1>12, <1>15, <2>5, <2>6 DEF Knows
  <2>8. QED
    BY <2>2, <2>3, <2>7
<1>20. QED
  BY <1>18, <1>19 DEF IInv

-----------------------------------------------------------------------------
\* The world, and the start.

LEMMA WorkStep ==
  ASSUME IInv, Work
  PROVE  IInv'
<1>1. UNCHANGED <<claim, owners, latches, told, raised, sweep, lapses, faults>>
  BY DEF Work, stored, history
<1>2. class' \in [Card -> Class] /\ work' \in 0 .. MaxWork
  BY Bounds DEF Work, IInv, Typed
<1>3. Typed'
  <2>1. \A h \in Host : Stamped(sweep[h])'
    BY <1>1 DEF IInv, Typed, Stamped, StaleOwners, CardsOf
  <2>2. QED
    BY <1>1, <1>2, <2>1 DEF IInv, Typed, Aged
<1>4. Calm'
  BY <1>1 DEF IInv, Calm, Knows, Running, AtOwners
<1>5. QED
  BY <1>3, <1>4 DEF IInv

LEMMA OlderEntriesAre ==
  ASSUME NEW f \in [Owner -> Entries], \A o \in Owner : Aged(f[o])
  PROVE  /\ OlderEntries(f) \in [Owner -> Entries]
         /\ \A o \in Owner : /\ Aged(OlderEntries(f)[o])
                             /\ OlderEntries(f)[o].print = f[o].print
<1>1. \A o \in Owner : /\ OlderEntry(f[o]) \in Entries /\ Aged(OlderEntry(f[o]))
                       /\ OlderEntry(f[o]).print = f[o].print
  BY OlderIsAged
<1>2. QED
  BY <1>1 DEF OlderEntries

\* A running sweep a tick later: its view and its latches stay.
LEMMA SweepAges ==
  ASSUME NEW h \in Host, NEW s \in Sweeps, Stamped(s), s.now > Skew[h] - MaxStall
  PROVE  LET r == [s EXCEPT !.now = s.now - 1, !.owners = OlderEntries(s.owners)]
         IN  /\ r \in Sweeps /\ Stamped(r) /\ r.pc = s.pc /\ r.latches = s.latches
             /\ \A o \in Owner : r.owners[o].print = s.owners[o].print
<1> DEFINE x == s.now - 1
           f == OlderEntries(s.owners)
           r == [s EXCEPT !.now = x, !.owners = f]
<1>1. /\ s.now \in Int /\ s.owners \in [Owner -> Entries]
      /\ \A o \in Owner : Aged(s.owners[o])
  BY SweepFields DEF Stamped
<1>2. x \in Int /\ x >= -MaxStall
  BY <1>1, Bounds
<1>3. /\ f \in [Owner -> Entries]
      /\ \A o \in Owner : Aged(f[o]) /\ f[o].print = s.owners[o].print
  BY <1>1, OlderEntriesAre
<1> HIDE DEF x, f
<1>4. r \in Sweeps
  BY <1>2, <1>3, SweepMoves, SweepFields
<1>5. /\ r.pc = s.pc /\ r.now = x /\ r.view = s.view /\ r.owners = f
      /\ r.latches = s.latches /\ r.todo = s.todo
  BY DEF Sweeps
<1> HIDE DEF r
<1>6. Stamped(r)
  BY <1>2, <1>3, <1>4, <1>5 DEF Stamped, StaleOwners, CardsOf
<1>7. QED
  BY <1>3, <1>4, <1>5, <1>6 DEF r, x, f

LEMMA TickStep ==
  ASSUME IInv, Tick
  PROVE  IInv'
<1>1. /\ UNCHANGED <<class, latches, told, raised, lapses, faults, work>>
      /\ claim' = [claim EXCEPT !.at = Older(claim.at)]
      /\ owners' = OlderEntries(owners)
  BY DEF Tick, history
<1>2. ASSUME NEW h \in Host
      PROVE  /\ sweep'[h] \in Sweeps /\ \A q : q = sweep'[h] => Stamped(q)
             /\ sweep'[h].pc = sweep[h].pc /\ sweep'[h].latches = sweep[h].latches
             /\ \A o \in Owner : sweep'[h].owners[o].print = sweep[h].owners[o].print
  <2>1. sweep[h] \in Sweeps /\ Stamped(sweep[h])
    BY Found
  <2>2. CASE Running(h)
    <3>1. sweep[h].now > Skew[h] - MaxStall
      BY <2>2 DEF Tick
    <3>2. sweep'[h] = [sweep[h] EXCEPT !.now = sweep[h].now - 1,
                                       !.owners = OlderEntries(sweep[h].owners)]
      BY <2>2 DEF Tick
    <3> DEFINE r == [sweep[h] EXCEPT !.now = sweep[h].now - 1,
                                     !.owners = OlderEntries(sweep[h].owners)]
    <3>3. /\ r \in Sweeps /\ Stamped(r) /\ r.pc = sweep[h].pc
          /\ r.latches = sweep[h].latches
          /\ \A o \in Owner : r.owners[o].print = sweep[h].owners[o].print
      BY <2>1, <3>1, SweepAges
    <3> HIDE DEF r
    <3>4. sweep'[h] = r
      BY <3>2 DEF r
    <3>5. QED
      BY <3>3, <3>4
  <2>3. CASE ~Running(h)
    <3>1. sweep'[h] = sweep[h]
      BY <2>3 DEF Tick
    <3>2. QED
      BY <2>1, <3>1
  <2>4. QED
    BY <2>2, <2>3
<1>3. sweep' \in [Host -> Sweeps] /\ \A h \in Host : Stamped(sweep[h])'
  <2>1. sweep' \in [Host -> Sweeps]
    BY <1>2 DEF Tick
  <2>2. ASSUME NEW h \in Host PROVE Stamped(sweep[h])'
    <3>1. \A q : q = sweep'[h] => Stamped(q)
      BY <1>2
    <3>2. QED
      BY <3>1 DEF Stamped, StaleOwners, CardsOf, Aged
  <2>3. QED
    BY <2>1, <2>2
<1>4. claim' \in [at : Int, by : Host] /\ claim'.at >= -Horizon
  <2>1. claim \in [at : Int, by : Host] /\ claim.at >= -Horizon
    BY DEF IInv, Typed
  <2>2. Older(claim.at) \in Int /\ Older(claim.at) >= -Horizon
    BY <2>1, OlderIsInt
  <2>3. QED
    BY <1>1, <2>1, <2>2
<1>5. /\ owners' \in [Owner -> Entries] /\ \A o \in Owner : Aged(owners'[o])
      /\ \A o \in Owner : owners'[o].print = owners[o].print
  BY <1>1, OlderEntriesAre DEF IInv, Typed
<1>6. Typed'
  BY <1>1, <1>3, <1>4, <1>5 DEF IInv, Typed, Aged
<1>7. Calm'
  <2> SUFFICES ASSUME lapses' = {}
               PROVE  /\ \A g, k \in Host : Running(g)' /\ Running(k)' => g = k
                      /\ (\A k \in Host : ~AtOwners(k)') => Knows(owners, latches)'
                      /\ \A k \in Host : AtOwners(k)' =>
                           Knows(sweep[k].owners, sweep[k].latches)'
    BY DEF Calm
  <2>1. lapses = {}
    BY <1>1
  <2>2. \A k \in Host : /\ Running(k)' <=> Running(k)
                        /\ AtOwners(k)' <=> AtOwners(k)
    BY <1>2 DEF Running, AtOwners
  <2>3. \A g, k \in Host : Running(g)' /\ Running(k)' => g = k
    BY <2>1, <2>2, CalmFacts
  <2>4. ASSUME \A k \in Host : ~AtOwners(k)' PROVE Knows(owners, latches)'
    <3>1. Knows(owners, latches)
      BY <2>1, <2>2, <2>4, CalmFacts
    <3>2. QED
      BY <1>1, <1>5, <3>1 DEF Knows
  <2>5. ASSUME NEW k \in Host, AtOwners(k)'
        PROVE  Knows(sweep[k].owners, sweep[k].latches)'
    <3>1. Knows(sweep[k].owners, sweep[k].latches)
      BY <2>1, <2>2, <2>5, CalmFacts
    <3>2. QED
      BY <1>1, <1>2, <3>1 DEF Knows
  <2>6. QED
    BY <2>3, <2>4, <2>5
<1>8. QED
  BY <1>6, <1>7 DEF IInv

LEMMA Starts ==
  ASSUME Init
  PROVE  IInv
<1>1. claim \in [at : Int, by : Host] /\ claim.at >= -Horizon
  <2>1. (CHOOSE h \in Host : TRUE) \in Host
    BY SweepAssumption
  <2>2. QED
    BY <2>1, Bounds DEF Init, Never
<1>2. \A h \in Host : sweep[h] = Resting
  BY DEF Init
<1>3. Typed
  <2>1. told \in [Owner -> Digest]
    BY DEF Init, NoDigest, Digest
  <2>2. raised \in [Card -> [Kind -> 0 .. 2]]
    BY DEF Init
  <2>3. QED
    BY <1>1, <1>2, <2>1, <2>2, FreshTypes, Bounds DEF Init, Typed, Stamped
<1>4. Calm
  BY <1>2 DEF Init, Calm, Running, AtOwners, Resting, Knows, NoEntry, NoLatches
<1>5. QED
  BY <1>3, <1>4 DEF IInv

LEMMA Keeps ==
  ASSUME IInv, [Next]_vars
  PROVE  IInv'
<1>1. ASSUME Next PROVE IInv'
  BY <1>1, TickStep, WorkStep, ClaimStep, ReadCardsStep, LoadStateStep, SweepOwnerStep,
     SaveStep, CrashStep DEF Next, Step
<1>2. ASSUME UNCHANGED vars PROVE IInv'
  <2>1. UNCHANGED <<claim, class, owners, latches, told, raised, sweep, lapses, faults, work>>
    BY <1>2 DEF vars
  <2>2. \A h \in Host : Stamped(sweep[h])'
    BY <2>1 DEF IInv, Typed, Stamped, StaleOwners, CardsOf
  <2>3. Typed'
    BY <2>1, <2>2 DEF IInv, Typed, Aged
  <2>4. Calm'
    BY <2>1 DEF IInv, Calm, Knows, Running, AtOwners
  <2>5. QED
    BY <2>3, <2>4 DEF IInv
<1>3. QED
  BY <1>1, <1>2

LEMMA Invariant == Spec => []IInv
<1>1. Init => IInv
  BY Starts
<1>2. IInv /\ [Next]_vars => IInv'
  BY Keeps
<1>3. QED
  BY <1>1, <1>2, PTL DEF Spec

-----------------------------------------------------------------------------
\* What the sweep promises.

\* Every variable keeps its type, and no stored stamp is past the horizon.
THEOREM SweepTypeCorrect == Spec => []TypeOK
<1>1. IInv => TypeOK
  <2> SUFFICES ASSUME IInv PROVE TypeOK
    OBVIOUS
  <2>1. \A h \in Host : sweep[h].pc \in {"idle", "cards", "state", "owners"}
    BY DEF IInv, Typed, Sweeps
  <2>2. QED
    BY <2>1 DEF IInv, Typed, TypeOK, Aged
<1>2. QED
  BY <1>1, Invariant, PTL

\* While nothing was lost and no sweeps overlapped, what the next sweep
\* suppresses is what the owner has (the fingerprint is recorded only after
\* _safe_enqueue, and saved with the scope).
THEOREM OnlyOldNewsIsSuppressed == Spec => []SuppressesOnlyOldNews
<1>1. IInv => SuppressesOnlyOldNews
  <2> SUFFICES ASSUME IInv, lapses = {}, Quiescent
               PROVE  \A o \in Owner : owners[o].print # NoDigest => told[o] = owners[o].print
    BY DEF SuppressesOnlyOldNews
  <2>1. \A h \in Host : ~AtOwners(h)
    BY DEF Quiescent, Running, AtOwners
  <2>2. QED
    BY <2>1, CalmFacts DEF Knows
<1>2. QED
  BY <1>1, Invariant, PTL

\* Under the same condition a latch stands for exactly one escalation of its
\* streak (creator_escalated and escalated, and their pruning).
THEOREM LatchesCountEscalations == Spec => []OneEscalationPerStreak
<1>1. IInv => OneEscalationPerStreak
  <2> SUFFICES ASSUME IInv, lapses = {}, Quiescent
               PROVE  \A c \in Card, k \in Kind :
                        raised[c][k] = IF k \in latches[c] THEN 1 ELSE 0
    BY DEF OneEscalationPerStreak
  <2>1. \A h \in Host : ~AtOwners(h)
    BY DEF Quiescent, Running, AtOwners
  <2>2. QED
    BY <2>1, CalmFacts DEF Knows
<1>2. QED
  BY <1>1, Invariant, PTL
=============================================================================
