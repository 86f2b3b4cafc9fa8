-------------------------- MODULE CardStoreProofs --------------------------
(***************************************************************************)
(* Proofs about CardStore, for any hosts, verbs, attempts and calls.       *)
(***************************************************************************)
EXTENDS CardStore, TLAPS

Notes(set) == {r.note : r \in set}

Runs ==
  [pc : {"idle", "read", "begin", "drop", "wait", "write"},
   kind : Armed \cup Creating \cup {"update", "delete", "save", "purge", "none"},
   id : 0 .. MaxCalls, doc : Json \cup {NoCard}, seen : Nat, basis : Json \cup {NoCard},
   notes : SUBSET Call, dropped : SUBSET Rows, attempt : 1 .. CAS_ATTEMPTS,
   scrubs : BOOLEAN, overtaken : BOOLEAN, lost : 0 .. CAS_ATTEMPTS]

\* A call under way has a number, and past its read a document.
Shaped(r) ==
  /\ r \in Runs
  /\ r.pc # "idle" => r.id \in Call /\ r.kind # "none"
  /\ r.pc \notin {"idle", "read"} => r.doc \in Json
  /\ r.scrubs => r.doc \in Json /\ r.doc.dead
  /\ r.kind \in Noting /\ r.pc \notin {"idle", "read"} => r.id \in r.doc.notes
  /\ r.kind # "purge" /\ r.pc \in {"drop", "wait", "write"} => r.doc.notes \subseteq r.notes
  /\ r.overtaken => r.pc \in {"drop", "wait", "write"}

\* An armed call has seen this revision or an older one, and what it saw with
\* it; once it is overtaken, the revision is past the one it has seen.
Fenced(r) ==
  r.pc # "idle" /\ r.kind \in Armed /\ ~purged =>
    /\ r.seen <= card.revision
    /\ r.seen = card.revision => r.basis = card.json
    /\ r.overtaken => r.seen # card.revision

\* Every attempt of a comment but the last was lost to another write.
Counting(r) ==
  r.pc # "idle" /\ r.kind = "comment" =>
    /\ r.attempt <= r.lost + 1
    /\ r.pc # "read" /\ (Absent \/ card.revision # r.seen) => r.attempt <= r.lost

\* What a write holds is what the table holds, until it is overtaken.
Current(r) ==
  /\ r.pc \in {"drop", "wait", "write"} /\ r.kind # "purge" /\ ~r.overtaken
       => r.notes = r.doc.notes \cup Notes(rows)
  /\ r.pc \in {"wait", "write"} /\ ~r.overtaken => r.dropped = rows

HostInv(r) == Shaped(r) /\ Fenced(r) /\ Counting(r) /\ Current(r)

TableType ==
  /\ card \in [revision : Nat, json : Json] \cup {NoCard}
  /\ rows \subseteq Rows
  /\ ledger \in Json \cup {NoCard}
  /\ referenced \in BOOLEAN /\ accepted \subseteq Call /\ tombstoned \in BOOLEAN
  /\ raced \in BOOLEAN /\ purged \in BOOLEAN /\ calls \in 0 .. MaxCalls

TableInv ==
  /\ TableType /\ LedgerClaimsNoMore
  /\ ~purged => ~Absent
  /\ ReferencesGoWithTheCard
  /\ CommentsSurvive

IInv ==
  /\ TableInv
  /\ run \in [Host -> Runs]
  /\ \A h \in Host : HostInv(run[h])

-----------------------------------------------------------------------------
\* Steps that leave the table alone.

LEMMA Shapes ==
  /\ Idle \in Runs /\ Fresh(0) \in Json
  /\ \A n \in Call : Fresh(n) \in Json
  /\ Call \subseteq 0 .. MaxCalls /\ Call \subseteq Nat
<1>1. /\ MaxCalls \in Nat /\ CAS_ATTEMPTS \in Nat /\ 1 <= CAS_ATTEMPTS
  BY CardStoreAssumption
<1>2. Call \subseteq 0 .. MaxCalls /\ Call \subseteq Nat
  BY <1>1 DEF Call
<1>3. Fresh(0) \in Json /\ \A n \in Call : Fresh(n) \in Json
  BY <1>1, <1>2 DEF Fresh, Json
<1>4. Idle \in Runs
  BY <1>1 DEF Idle, Runs
<1>5. QED
  BY <1>2, <1>3, <1>4

LEMMA IdleIsFine ==
  HostInv(Idle)
BY Shapes DEF HostInv, Shaped, Fenced, Counting, Current, Idle

\* The other hosts do not notice, and the table is what it was.
LEMMA LocalStep ==
  ASSUME IInv, NEW h \in Host, NEW r, run' = [run EXCEPT ![h] = r], HostInv(r),
         UNCHANGED <<table, history>>, calls' \in 0 .. MaxCalls
  PROVE  IInv'
<1>1. /\ UNCHANGED <<card, rows, ledger, referenced, accepted, tombstoned, raced, purged>>
  BY DEF table, history
<1>2. run' \in [Host -> Runs]
  BY DEF IInv, HostInv, Shaped
<1>3. TableInv'
  BY <1>1 DEF IInv, TableInv, TableType, LedgerClaimsNoMore, Absent, ReferencesGoWithTheCard, CommentsSurvive
<1>4. ASSUME NEW g \in Host
      PROVE  HostInv(run[g])'
  <2>1. HostInv(run'[g])
    BY <1>2 DEF IInv
  <2>2. QED
    BY <1>1, <2>1 DEF HostInv, Shaped, Fenced, Counting, Current, Absent
<1>5. QED
  BY <1>2, <1>3, <1>4 DEF IInv

LEMMA EndsStep ==
  ASSUME IInv, NEW h \in Host, Ends(h), UNCHANGED <<table, calls, history>>
  PROVE  IInv'
<1>1. calls' \in 0 .. MaxCalls /\ UNCHANGED <<table, history>>
  BY DEF IInv, TableInv, TableType
<1>2. QED
  BY <1>1, IdleIsFine, LocalStep DEF Ends

LEMMA StartedIsRun ==
  ASSUME NEW k \in Armed \cup Creating \cup {"update", "delete", "save", "purge"},
         NEW n \in 0 .. MaxCalls, NEW seen \in Nat, NEW basis \in Json \cup {NoCard}
  PROVE  [Idle EXCEPT !.pc = "read", !.kind = k, !.id = n, !.seen = seen,
                      !.basis = basis] \in Runs
BY Shapes DEF Runs

LEMMA StartStep ==
  ASSUME IInv, NEW h \in Host, Start(h)
  PROVE  IInv'
<1>1. PICK k \in Kinds :
        /\ k \in {"guarded_update", "guarded_delete"} => ~Absent
        /\ run' = [run EXCEPT ![h] =
             [Idle EXCEPT !.pc = "read", !.kind = k, !.id = calls + 1,
               !.seen = IF Absent THEN 0 ELSE card.revision,
               !.basis = IF Absent THEN NoCard ELSE card.json]]
  BY DEF Start
<1> DEFINE r == [Idle EXCEPT !.pc = "read", !.kind = k, !.id = calls + 1,
                   !.seen = IF Absent THEN 0 ELSE card.revision,
                   !.basis = IF Absent THEN NoCard ELSE card.json]
<1>2. calls + 1 \in Call /\ calls' = calls + 1 /\ UNCHANGED <<table, history>>
  BY CardStoreAssumption DEF Start, IInv, TableInv, TableType, Call
<1>3. k \in Armed \cup Creating \cup {"update", "delete", "save", "purge"} /\ k # "none"
  BY <1>1, CardStoreAssumption DEF Armed, Creating
<1>4. /\ ~Absent => card.revision \in Nat /\ card.json \in Json
      /\ ~purged => ~Absent
  BY DEF IInv, TableInv, TableType, Absent
<1>5. /\ r.pc = "read" /\ r.kind = k /\ r.id = calls + 1
      /\ r.attempt = 1 /\ r.lost = 0 /\ ~r.overtaken /\ ~r.scrubs
      /\ ~Absent => r.seen = card.revision /\ r.basis = card.json
  BY DEF Idle
<1>8. r \in Runs
  <2>1. /\ calls + 1 \in 0 .. MaxCalls
        /\ (IF Absent THEN 0 ELSE card.revision) \in Nat
        /\ (IF Absent THEN NoCard ELSE card.json) \in Json \cup {NoCard}
    BY <1>2, <1>4, Shapes
  <2>2. QED
    BY <1>3, <2>1, StartedIsRun
<1> HIDE DEF r
<1>6. HostInv(r)
  BY <1>2, <1>3, <1>4, <1>5, <1>8 DEF HostInv, Shaped, Fenced, Counting, Current
<1>7. QED
  BY <1>1, <1>2, <1>6, LocalStep, Shapes DEF r

LEMMA EditedIsJson ==
  ASSUME NEW k \in Armed \cup {"update", "delete", "save", "purge"}, NEW n \in Call,
         NEW json \in Json
  PROVE  /\ Edited(k, n, json) \in Json
         /\ k \in {"delete", "guarded_delete"} => Edited(k, n, json).dead
         /\ k \in Noting => n \in Edited(k, n, json).notes
<1>1. n \in 0 .. MaxCalls
  BY Shapes
<1>2. CASE k = "comment"
  BY <1>2 DEF Edited, Json
<1>3. CASE k \in {"update", "guarded_update"}
  BY <1>1, <1>3 DEF Edited, Json, Noting
<1>4. CASE k \in {"delete", "guarded_delete"}
  BY <1>4 DEF Edited, Json
<1>5. CASE k \in {"save", "purge"}
  BY <1>5 DEF Edited, Json, Noting
<1>6. QED
  BY <1>2, <1>3, <1>4, <1>5 DEF Armed

LEMMA ReadIsRun ==
  ASSUME NEW r \in Runs, NEW doc \in Json, NEW b \in BOOLEAN, NEW seen \in Nat,
         NEW basis \in Json \cup {NoCard}
  PROVE  [r EXCEPT !.pc = "begin", !.doc = doc, !.scrubs = b, !.seen = seen,
                   !.basis = basis] \in Runs
BY DEF Runs

LEMMA ReadStep ==
  ASSUME IInv, NEW h \in Host, Read(h)
  PROVE  IInv'
<1>1. /\ run[h] \in Runs /\ run[h].pc = "read" /\ HostInv(run[h])
      /\ run[h].id \in Call /\ run[h].kind # "none" /\ ~run[h].overtaken
      /\ calls' \in 0 .. MaxCalls /\ UNCHANGED <<table, calls, history>>
  BY DEF Read, IInv, TableInv, TableType, HostInv, Shaped
<1>2. CASE Refuses(run[h].kind)
  BY <1>1, <1>2, EndsStep DEF Read
<1>3. CASE ~Refuses(run[h].kind)
  <2> DEFINE json == IF run[h].kind \in Creating THEN Fresh(run[h].id)
                     ELSE Edited(run[h].kind, run[h].id, card.json)
             own == run[h].kind = "comment"
             scrubs == run[h].kind \in {"delete", "guarded_delete"} /\ referenced
             seen == IF own THEN card.revision ELSE run[h].seen
             basis == IF own THEN card.json ELSE run[h].basis
             r == [run[h] EXCEPT !.pc = "begin", !.doc = json, !.scrubs = scrubs,
                                 !.seen = seen, !.basis = basis]
  <2>1. run' = [run EXCEPT ![h] = r]
    BY <1>1, <1>3 DEF Read, IInv
  <2>2. ~Absent \/ run[h].kind \in Creating
    BY <1>3 DEF Refuses
  <2>3. ~Absent => card.revision \in Nat /\ card.json \in Json
    BY DEF IInv, TableInv, TableType, Absent
  <2>4. run[h].kind \in Creating =>
          run[h].kind \notin Noting \cup {"comment", "delete", "guarded_delete"}
    BY DEF Creating, Noting
  <2>5. /\ json \in Json
        /\ scrubs => json.dead
        /\ run[h].kind \in Noting => run[h].id \in json.notes
    <3>1. CASE run[h].kind \in Creating
      BY <1>1, <2>4, <3>1, Shapes
    <3>2. CASE run[h].kind \notin Creating
      <4>1. run[h].kind \in Armed \cup {"update", "delete", "save", "purge"}
        BY <1>1, <3>2 DEF Runs
      <4>2. QED
        BY <1>1, <2>2, <2>3, <3>2, <4>1, EditedIsJson
    <3>3. QED
      BY <3>1, <3>2
  <2>6. seen \in Nat /\ basis \in Json \cup {NoCard} /\ scrubs \in BOOLEAN
    BY <1>1, <2>2, <2>3, <2>4 DEF Runs, IInv, TableInv, TableType
  <2>7. own => ~Absent /\ seen = card.revision /\ basis = card.json
    BY <2>2, <2>4
  <2>8. ~own => seen = run[h].seen /\ basis = run[h].basis
    OBVIOUS
  <2> HIDE DEF json, scrubs, seen, basis
  <2>9. r \in Runs
    BY <1>1, <2>5, <2>6, ReadIsRun
  <2>10. /\ r.pc = "begin" /\ r.doc = json /\ r.scrubs = scrubs /\ r.seen = seen
         /\ r.basis = basis /\ r.kind = run[h].kind /\ r.id = run[h].id
         /\ r.attempt = run[h].attempt /\ r.lost = run[h].lost
         /\ r.overtaken = run[h].overtaken
    BY <1>1 DEF Runs
  <2> HIDE DEF r
  <2>11. Shaped(r)
    BY <1>1, <2>5, <2>9, <2>10 DEF Shaped
  <2>12. Fenced(r)
    <3>1. CASE own
      BY <1>1, <2>3, <2>7, <2>10, <3>1 DEF Fenced
    <3>2. CASE ~own
      BY <1>1, <2>8, <2>10, <3>2 DEF Fenced, HostInv
    <3>3. QED
      BY <3>1, <3>2
  <2>13. Counting(r)
    BY <1>1, <2>7, <2>10 DEF Counting, HostInv
  <2>14. Current(r)
    BY <2>10 DEF Current
  <2>15. QED
    BY <1>1, <2>1, <2>11, <2>12, <2>13, <2>14, LocalStep DEF HostInv
<1>4. QED
  BY <1>2, <1>3

\* A call that lost its fence: it ends, or reads again.
LEMMA ConflictStep ==
  ASSUME IInv, NEW h \in Host, run[h].pc \in {"begin", "drop", "wait", "write"},
         ~GuardHolds(h), Conflict(h), UNCHANGED <<table, calls, history>>
  PROVE  IInv'
<1>1. /\ run[h] \in Runs /\ HostInv(run[h])
      /\ run[h].id \in Call /\ run[h].kind # "none"
      /\ calls' \in 0 .. MaxCalls /\ UNCHANGED <<table, history>>
  BY DEF IInv, TableInv, TableType, HostInv, Shaped
<1>2. CASE run[h].kind = "comment" /\ run[h].attempt < CAS_ATTEMPTS
  <2> DEFINE r == [Idle EXCEPT !.pc = "read", !.kind = run[h].kind, !.id = run[h].id,
                     !.seen = run[h].seen, !.basis = run[h].basis,
                     !.attempt = run[h].attempt + 1, !.lost = run[h].lost]
  <2>1. run' = [run EXCEPT ![h] = r]
    BY <1>2 DEF Conflict
  <2>2. run[h].attempt <= run[h].lost
    BY <1>1, <1>2 DEF HostInv, Counting, GuardHolds, Armed, Creating
  <2>3. run[h].attempt + 1 \in 1 .. CAS_ATTEMPTS
    BY <1>1, <1>2, CardStoreAssumption DEF Runs
  <2>4. r \in Runs
    BY <1>1, <2>3, Shapes DEF Runs
  <2>5. /\ r.pc = "read" /\ r.kind = "comment" /\ r.id = run[h].id /\ ~r.scrubs
        /\ r.seen = run[h].seen /\ r.basis = run[h].basis /\ ~r.overtaken
        /\ r.attempt = run[h].attempt + 1 /\ r.lost = run[h].lost
    BY <1>2 DEF Idle
  <2> HIDE DEF r
  <2>6. run[h].attempt \in Nat /\ run[h].lost \in Nat
    BY <1>1, CardStoreAssumption DEF Runs
  <2>7. HostInv(r)
    BY <1>1, <1>2, <2>2, <2>4, <2>5, <2>6
       DEF HostInv, Shaped, Fenced, Counting, Current
  <2>8. QED
    BY <1>1, <2>1, <2>7, LocalStep
<1>3. CASE ~(run[h].kind = "comment" /\ run[h].attempt < CAS_ATTEMPTS)
  BY <1>3, EndsStep DEF Conflict
<1>4. QED
  BY <1>2, <1>3

LEMMA BegunIsRun ==
  ASSUME NEW r \in Runs, NEW pc \in {"drop", "wait", "write"}, NEW notes \in SUBSET Call,
         NEW dropped \in SUBSET Rows
  PROVE  /\ [r EXCEPT !.pc = pc] \in Runs
         /\ [r EXCEPT !.pc = pc, !.notes = notes] \in Runs
         /\ [r EXCEPT !.pc = pc, !.dropped = dropped] \in Runs
<1>1. [r EXCEPT !.pc = pc] \in Runs
  BY DEF Runs
<1>2. [r EXCEPT !.pc = pc, !.notes = notes] \in Runs
  BY DEF Runs
<1>3. [r EXCEPT !.pc = pc, !.dropped = dropped] \in Runs
  BY DEF Runs
<1>4. QED
  BY <1>1, <1>2, <1>3

\* What a call in its transaction keeps when it moves on with this record.
LEMMA MovesOn ==
  ASSUME IInv, NEW h \in Host, NEW r \in Runs, run' = [run EXCEPT ![h] = r],
         run[h].pc \in {"begin", "drop", "wait"}, r.pc \in {"drop", "wait", "write"},
         r.kind = run[h].kind, r.id = run[h].id, r.doc = run[h].doc,
         r.seen = run[h].seen, r.basis = run[h].basis, r.attempt = run[h].attempt,
         r.scrubs = run[h].scrubs, r.overtaken = run[h].overtaken, r.lost = run[h].lost,
         Current(r), r.kind # "purge" => r.doc.notes \subseteq r.notes,
         UNCHANGED <<table, calls, history>>
  PROVE  IInv'
<1>1. /\ HostInv(run[h])
      /\ calls' \in 0 .. MaxCalls /\ UNCHANGED <<table, history>>
  BY DEF IInv, TableInv, TableType
<1>2. Shaped(r) /\ Fenced(r) /\ Counting(r)
  BY <1>1 DEF HostInv, Shaped, Fenced, Counting
<1>3. QED
  BY <1>1, <1>2, LocalStep DEF HostInv

LEMMA BeginStep ==
  ASSUME IInv, NEW h \in Host, Begin(h)
  PROVE  IInv'
<1>1. /\ run[h] \in Runs /\ run[h].pc = "begin" /\ HostInv(run[h])
      /\ run[h].doc \in Json /\ ~run[h].overtaken
      /\ run \in [Host -> Runs] /\ UNCHANGED <<table, calls, history>>
  BY DEF Begin, IInv, HostInv, Shaped
<1>2. CASE run[h].kind = "purge"
  <2> DEFINE r == [run[h] EXCEPT !.pc = "drop"]
  <2>1. run' = [run EXCEPT ![h] = r]
    BY <1>1, <1>2 DEF Begin
  <2>2. r \in Runs
    BY <1>1, BegunIsRun
  <2>3. r.pc = "drop" /\ r.kind = "purge"
    BY <1>1, <1>2 DEF Runs
  <2>4. Current(r)
    BY <2>3 DEF Current
  <2>5. QED
    BY <1>1, <2>1, <2>2, <2>3, <2>4, MovesOn DEF Runs
<1>3. CASE run[h].kind # "purge" /\ Ends(h)
  BY <1>1, <1>3, EndsStep
<1>4. CASE run[h].kind # "purge" /\ ~GuardHolds(h) /\ Conflict(h)
  BY <1>1, <1>4, ConflictStep
<1>5. CASE /\ run[h].kind # "purge"
           /\ run' = [run EXCEPT ![h].pc = "drop", ![h].notes = Merged(h)]
  <2> DEFINE r == [run[h] EXCEPT !.pc = "drop", !.notes = Merged(h)]
  <2>1. run' = [run EXCEPT ![h] = r]
    BY <1>1, <1>5
  <2>2. Merged(h) = run[h].doc.notes \cup Notes(rows) /\ Merged(h) \in SUBSET Call
    BY <1>1 DEF Merged, Notes, Json, Rows, IInv, TableInv, TableType
  <2>3. r \in Runs
    BY <1>1, <2>2, BegunIsRun
  <2>4. r.pc = "drop" /\ r.notes = Merged(h) /\ r.doc = run[h].doc
    BY <1>1 DEF Runs
  <2>5. Current(r)
    BY <2>2, <2>4 DEF Current
  <2>6. r.doc.notes \subseteq r.notes
    BY <2>2, <2>4
  <2>7. QED
    BY <1>1, <2>1, <2>3, <2>4, <2>5, <2>6, MovesOn DEF Runs
<1>6. QED
  BY <1>2, <1>3, <1>4, <1>5 DEF Begin

LEMMA DropStep ==
  ASSUME IInv, NEW h \in Host, Drop(h) \/ DropWaits(h)
  PROVE  IInv'
<1>1. /\ run[h] \in Runs /\ run[h].pc \in {"drop", "wait"} /\ HostInv(run[h])
      /\ run \in [Host -> Runs] /\ UNCHANGED <<table, calls, history>>
  BY DEF Drop, DropWaits, IInv
<1>2. rows \in SUBSET Rows
  BY DEF IInv, TableInv, TableType
<1>3. PICK pc \in {"wait", "write"}, dropped \in SUBSET Rows :
        /\ run' = [run EXCEPT ![h] = [run[h] EXCEPT !.pc = pc, !.dropped = dropped]]
        /\ ~run[h].overtaken => dropped = rows
  <2>1. CASE Drop(h)
    <3> DEFINE pc == IF Locked(rows, h) THEN "wait" ELSE "write"
    <3>1. run' = [run EXCEPT ![h] = [run[h] EXCEPT !.pc = pc, !.dropped = rows]]
      BY <1>1, <2>1 DEF Drop
    <3>2. QED
      BY <1>2, <3>1
  <2>2. CASE DropWaits(h)
    <3> DEFINE dropped == run[h].dropped \cap rows
    <3>1. run' = [run EXCEPT ![h] = [run[h] EXCEPT !.pc = "write", !.dropped = dropped]]
      BY <1>1, <2>2 DEF DropWaits
    <3>2. dropped \in SUBSET Rows
      BY <1>2
    <3>3. ~run[h].overtaken => dropped = rows
      BY <1>1, <2>2 DEF DropWaits, HostInv, Current
    <3>4. QED
      BY <3>1, <3>2, <3>3
  <2>3. QED
    BY <2>1, <2>2
<1> DEFINE r == [run[h] EXCEPT !.pc = pc, !.dropped = dropped]
<1>4. r \in Runs
  BY <1>1, BegunIsRun
<1>5. /\ r.pc = pc /\ r.dropped = dropped /\ r.notes = run[h].notes /\ r.doc = run[h].doc
      /\ r.kind = run[h].kind /\ r.overtaken = run[h].overtaken
  BY <1>1 DEF Runs
<1>6. Current(r)
  BY <1>1, <1>3, <1>5 DEF Current, HostInv
<1>7. r.kind # "purge" => r.doc.notes \subseteq r.notes
  BY <1>1, <1>5 DEF HostInv, Shaped
<1>8. QED
  BY <1>1, <1>3, <1>4, <1>5, <1>6, <1>7, MovesOn DEF Runs

-----------------------------------------------------------------------------
\* Steps that move the card.

LEMMA OvertakenIsRun ==
  ASSUME NEW r \in Runs, NEW b \in BOOLEAN, NEW n \in 0 .. CAS_ATTEMPTS
  PROVE  [r EXCEPT !.overtaken = b, !.lost = n] \in Runs
BY DEF Runs

\* A call that is overtaken: the revision is past what it has seen.
LEMMA OvertakenIsFine ==
  ASSUME IInv, NEW g \in Host, run[g].pc # "idle",
         ~purged' => /\ ~purged /\ ~Absent /\ card'.revision = card.revision + 1,
         NEW b \in BOOLEAN, b <=> run[g].pc \in {"drop", "wait", "write"},
         NEW n \in 0 .. CAS_ATTEMPTS, run[g].kind = "comment" => run[g].attempt <= n,
         NEW r \in Runs, r = [run[g] EXCEPT !.overtaken = b, !.lost = n]
  PROVE  HostInv(r)'
<1>1. /\ run[g] \in Runs /\ HostInv(run[g])
      /\ run[g].attempt \in Nat /\ n \in Nat /\ run[g].seen \in Nat
  BY CardStoreAssumption DEF IInv, Runs
<1>2. /\ r.pc = run[g].pc /\ r.kind = run[g].kind /\ r.id = run[g].id
      /\ r.doc = run[g].doc /\ r.seen = run[g].seen /\ r.basis = run[g].basis
      /\ r.attempt = run[g].attempt /\ r.scrubs = run[g].scrubs
      /\ r.overtaken = b /\ r.lost = n /\ r.notes = run[g].notes
  BY <1>1 DEF Runs
<1>3. Shaped(r)
  BY <1>1, <1>2 DEF HostInv, Shaped
<1>4. Fenced(r)'
  <2>1. CASE purged'
    BY <2>1 DEF Fenced
  <2>2. CASE ~purged'
    <3>1. card.revision \in Nat
      BY <2>2 DEF IInv, TableInv, TableType, Absent
    <3>2. run[g].kind \in Armed => run[g].seen <= card.revision
      BY <1>1, <2>2 DEF HostInv, Fenced
    <3>3. run[g].kind \in Armed =>
            run[g].seen <= card'.revision /\ run[g].seen # card'.revision
      BY <1>1, <2>2, <3>1, <3>2
    <3>4. QED
      BY <1>2, <3>3 DEF Fenced
  <2>3. QED
    BY <2>1, <2>2
<1>5. n <= n + 1 /\ (run[g].kind = "comment" => run[g].attempt <= n + 1)
  BY <1>1
<1>6. Counting(r)'
  BY <1>1, <1>2, <1>5 DEF Counting
<1>7. Current(r)'
  BY <1>2 DEF Current
<1>8. QED
  BY <1>3, <1>4, <1>6, <1>7 DEF HostInv, Shaped

LEMMA OvertakenStep ==
  ASSUME IInv, NEW h \in Host, NEW g \in Host, run' = Overtake(h),
         ~purged' => /\ ~purged /\ ~Absent /\ card'.revision = card.revision + 1
  PROVE  run'[g] \in Runs /\ HostInv(run[g])'
<1>1. run[g] \in Runs /\ HostInv(run[g]) /\ Idle \in Runs
  BY Shapes DEF IInv
<1>2. HostInv(Idle)'
  BY Shapes DEF HostInv, Shaped, Fenced, Counting, Current, Idle
<1>3. CASE g = h \/ run[g].pc = "idle"
  <2>1. run'[g] = Idle \/ (run'[g] = run[g] /\ run[g].pc = "idle" /\ ~run[g].overtaken)
    BY <1>1, <1>3 DEF Overtake, HostInv, Shaped
  <2>2. ASSUME NEW r, r = run[g], r.pc = "idle"
        PROVE  HostInv(r)'
    BY <1>1, <2>2 DEF HostInv, Shaped, Fenced, Counting, Current
  <2>3. QED
    BY <1>1, <1>2, <2>1, <2>2
<1>4. CASE g # h /\ run[g].pc # "idle"
  <2> DEFINE b == run[g].overtaken \/ Writing(g)
             n == IF run[g].lost < CAS_ATTEMPTS THEN run[g].lost + 1 ELSE run[g].lost
             r == [run[g] EXCEPT !.overtaken = b, !.lost = n]
  <2>1. run'[g] = r
    BY <1>1, <1>4 DEF Overtake
  <2>2. b \in BOOLEAN /\ (b <=> run[g].pc \in {"drop", "wait", "write"})
    BY <1>1 DEF HostInv, Shaped, Runs, Writing
  <2>3. run[g].lost \in 0 .. CAS_ATTEMPTS /\ run[g].attempt \in 1 .. CAS_ATTEMPTS
    BY <1>1 DEF Runs
  <2>4. n \in 0 .. CAS_ATTEMPTS /\ (run[g].kind = "comment" => run[g].attempt <= n)
    BY <1>1, <1>4, <2>3, CardStoreAssumption DEF HostInv, Counting
  <2>5. r \in Runs
    BY <1>1, <2>2, <2>4, OvertakenIsRun
  <2> HIDE DEF b, n
  <2>6. \E q \in Runs : run'[g] = q /\ HostInv(q)'
    BY <1>4, <2>1, <2>2, <2>4, <2>5, OvertakenIsFine
  <2>7. QED
    BY <2>6
<1>5. QED
  BY <1>3, <1>4

\* Until the races, a write that lands holds all there is.
LEMMA LandsWhole ==
  ASSUME IInv, NEW h \in Host, run[h].pc = "write", run[h].kind # "purge",
         GuardHolds(h), Land(h), ~raced', ~purged
  PROVE  /\ ~raced /\ ~Absent
         /\ run[h].notes = run[h].doc.notes \cup Notes(rows) /\ run[h].dropped = rows
<1>1. HostInv(run[h]) /\ ~Absent
  BY DEF IInv, TableInv
<1>2. ~raced /\ (run[h].kind \notin Armed \cup {"guarded_create"} => ~run[h].overtaken)
  BY DEF Land, IInv, TableInv, TableType
<1>3. run[h].kind # "guarded_create"
  BY <1>1 DEF GuardHolds
<1>4. run[h].kind \in Armed => ~run[h].overtaken
  BY <1>1 DEF GuardHolds, HostInv, Fenced
<1>5. QED
  BY <1>1, <1>2, <1>3, <1>4 DEF HostInv, Current

LEMMA LandStep ==
  ASSUME IInv, NEW h \in Host, run[h].pc = "write", run[h].kind # "purge",
         GuardHolds(h), Land(h), UNCHANGED calls
  PROVE  IInv'
<1> DEFINE doc == run[h].doc
           notes == run[h].notes
           id == run[h].id
<1>1. /\ run[h] \in Runs /\ HostInv(run[h])
      /\ doc \in Json /\ notes \in SUBSET Call /\ id \in Call
      /\ run[h].dropped \subseteq Rows
      /\ calls' \in 0 .. MaxCalls /\ purged' = purged
  BY DEF Land, IInv, TableInv, TableType, HostInv, Shaped, Runs
<1>2. /\ card' = [revision |-> IF Absent THEN 0 ELSE card.revision + 1,
                  json |-> [doc EXCEPT !.notes = notes]]
      /\ rows' = (rows \ run[h].dropped) \cup {[note |-> n, by |-> id] : n \in notes}
      /\ ledger' = HashAfter(h)
      /\ referenced' = (referenced /\ ~run[h].scrubs)
      /\ accepted' = IF run[h].kind \in Noting THEN accepted \cup {id} ELSE accepted
      /\ tombstoned' = (tombstoned \/ doc.dead)
      /\ raced' = (raced \/ (run[h].kind \notin Armed \cup {"guarded_create"} /\ run[h].overtaken))
  BY DEF Land, Bumped
<1>3. /\ [doc EXCEPT !.notes = notes] \in Json
      /\ [doc EXCEPT !.notes = notes].notes = notes
      /\ [doc EXCEPT !.notes = notes].body = doc.body
      /\ [doc EXCEPT !.notes = notes].dead = doc.dead
  BY <1>1 DEF Json
<1>4. /\ card' \in [revision : Nat, json : Json] /\ card'.json = [doc EXCEPT !.notes = notes]
      /\ ~Absent => card'.revision = card.revision + 1
  BY <1>2, <1>3 DEF IInv, TableInv, TableType, Absent
<1>5. card' # NoCard
  <2>1. NoCard \notin [revision : Nat, json : Json]
    BY CardStoreAssumption
  <2>2. QED
    BY <1>4, <2>1
<1>6. /\ ledger' \in Json /\ ledger'.body = doc.body /\ ledger'.dead = doc.dead
      /\ ledger'.notes \subseteq notes /\ ledger' # NoCard
  BY <1>1, <1>2, <1>3, CardStoreAssumption DEF HashAfter, HostInv, Shaped
<1>7. rows' \subseteq Rows /\ accepted' \subseteq Call
  BY <1>1, <1>2 DEF IInv, TableInv, TableType, Rows
<1>8. TableType'
  BY <1>1, <1>2, <1>4, <1>6, <1>7 DEF IInv, TableInv, TableType, Runs, Json
<1>9. LedgerClaimsNoMore'
  BY <1>3, <1>4, <1>5, <1>6 DEF LedgerClaimsNoMore, Absent
<1>10. ReferencesGoWithTheCard'
  BY <1>1, <1>2 DEF IInv, TableInv, ReferencesGoWithTheCard, HostInv, Shaped
<1>11. CommentsSurvive'
  <2>1. SUFFICES ASSUME ~raced', ~purged'
        PROVE  /\ accepted' \subseteq notes
               /\ {r.note : r \in rows'} = notes
               /\ \A r, s \in rows' : r.note = s.note => r = s
    BY <1>3, <1>4 DEF CommentsSurvive
  <2>2. /\ ~raced /\ ~purged
        /\ notes = doc.notes \cup Notes(rows) /\ run[h].dropped = rows
    BY <1>1, <2>1, LandsWhole
  <2>3. accepted \subseteq Notes(rows)
    BY <2>2 DEF IInv, TableInv, CommentsSurvive, Notes
  <2>4. run[h].kind \in Noting => id \in doc.notes
    BY <1>1 DEF HostInv, Shaped
  <2>5. rows' = {[note |-> n, by |-> id] : n \in notes}
    BY <1>2, <2>2
  <2>6. accepted' \subseteq notes
    BY <1>2, <2>2, <2>3, <2>4
  <2>7. {r.note : r \in rows'} = notes
    <3>1. ASSUME NEW r \in rows' PROVE r.note \in notes
      BY <2>5
    <3>2. ASSUME NEW n \in notes PROVE \E r \in rows' : r.note = n
      <4>1. [note |-> n, by |-> id] \in rows' /\ [note |-> n, by |-> id].note = n
        BY <2>5
      <4>2. QED
        BY <4>1
    <3>3. QED
      BY <3>1, <3>2
  <2>8. \A r, s \in rows' : r.note = s.note => r = s
    BY <2>5
  <2>9. QED
    BY <2>6, <2>7, <2>8
<1>12. TableInv'
  BY <1>5, <1>8, <1>9, <1>10, <1>11 DEF TableInv, Absent
<1>13. run' = Overtake(h) /\ (~purged' => ~purged /\ ~Absent)
  BY <1>1 DEF Land, IInv, TableInv
<1>14. \A g \in Host : run'[g] \in Runs /\ HostInv(run[g])'
  BY <1>4, <1>13, OvertakenStep
<1>15. run' \in [Host -> Runs]
  BY <1>13, <1>14 DEF Overtake
<1>16. QED
  BY <1>12, <1>14, <1>15 DEF IInv

LEMMA PurgeStep ==
  ASSUME IInv, NEW h \in Host, Purge(h)
  PROVE  IInv'
<1>1. /\ card' = NoCard /\ rows' = {} /\ ledger' = NoCard /\ referenced' = FALSE
      /\ run' = Overtake(h) /\ purged' = TRUE
      /\ UNCHANGED <<calls, accepted, tombstoned, raced>>
  BY DEF Purge
<1>2. TableInv'
  BY <1>1 DEF IInv, TableInv, TableType, LedgerClaimsNoMore, Absent, ReferencesGoWithTheCard, CommentsSurvive
<1>3. \A g \in Host : run'[g] \in Runs /\ HostInv(run[g])'
  BY <1>1, OvertakenStep
<1>4. run' \in [Host -> Runs]
  BY <1>1, <1>3 DEF Overtake
<1>5. QED
  BY <1>2, <1>3, <1>4 DEF IInv

LEMMA CommitStep ==
  ASSUME IInv, NEW h \in Host, Commit(h)
  PROVE  IInv'
<1>1. CASE GuardHolds(h) /\ Land(h)
  BY <1>1, LandStep DEF Commit
<1>2. CASE ~GuardHolds(h) /\ Conflict(h) /\ RolledBack(h) /\ UNCHANGED history
  BY <1>2, ConflictStep DEF Commit, RolledBack
<1>3. QED
  BY <1>1, <1>2 DEF Commit

LEMMA NextStep ==
  ASSUME IInv, [Next]_vars
  PROVE  IInv'
<1>1. CASE UNCHANGED vars
  BY <1>1 DEF vars, table, history, IInv, TableInv, TableType, LedgerClaimsNoMore, Absent,
       ReferencesGoWithTheCard, CommentsSurvive, HostInv, Shaped, Fenced, Counting, Current
<1>2. ASSUME NEW h \in Host, Start(h) \/ Step(h) \/ Dies(h)
      PROVE  IInv'
  <2>1. CASE Start(h)
    BY <2>1, StartStep
  <2>2. CASE Read(h)
    BY <2>2, ReadStep
  <2>3. CASE Begin(h)
    BY <2>3, BeginStep
  <2>4. CASE Drop(h) \/ DropWaits(h)
    BY <2>4, DropStep
  <2>5. CASE Commit(h)
    BY <2>5, CommitStep
  <2>6. CASE Purge(h)
    BY <2>6, PurgeStep
  <2>7. CASE Dies(h)
    BY <2>7, EndsStep DEF Dies
  <2>8. QED
    BY <1>2, <2>1, <2>2, <2>3, <2>4, <2>5, <2>6, <2>7 DEF Step
<1>3. QED
  BY <1>1, <1>2 DEF Next

-----------------------------------------------------------------------------
\* The card store keeps its inductive invariant.
THEOREM Invariant == Spec => []IInv
<1>1. Init => IInv
  <2> SUFFICES ASSUME Init PROVE IInv
    OBVIOUS
  <2>1. card.revision = 0 /\ card.json = Fresh(0) /\ rows = {} /\ ledger = Fresh(0)
    BY DEF Init
  <2>2. card \in [revision : Nat, json : Json] /\ ~Absent /\ Fresh(0).notes = {}
    <3>1. card \in [revision : Nat, json : Json]
      BY Shapes DEF Init
    <3>2. card # NoCard
      BY <3>1, CardStoreAssumption
    <3>3. QED
      BY <3>1, <3>2 DEF Absent, Fresh
  <2>3. TableType
    <3>1. /\ rows = {} /\ accepted = {} /\ referenced = TRUE /\ tombstoned = FALSE
          /\ raced = FALSE /\ purged = FALSE /\ calls = 0 /\ 0 \in 0 .. MaxCalls
      BY CardStoreAssumption DEF Init
    <3>2. ledger \in Json
      BY <2>1, Shapes
    <3>3. QED
      BY <2>2, <3>1, <3>2 DEF TableType
  <2>4. LedgerClaimsNoMore /\ ReferencesGoWithTheCard /\ CommentsSurvive
    <3>1. Fresh(0) # NoCard
      BY Shapes, CardStoreAssumption
    <3>2. LedgerClaimsNoMore
      BY <2>1, <2>2, <3>1 DEF LedgerClaimsNoMore
    <3>3. ReferencesGoWithTheCard /\ CommentsSurvive
      BY <2>1, <2>2 DEF Init, ReferencesGoWithTheCard, CommentsSurvive
    <3>4. QED
      BY <3>2, <3>3
  <2>5. run \in [Host -> Runs] /\ \A h \in Host : HostInv(run[h])
    BY Shapes, IdleIsFine DEF Init
  <2>6. QED
    BY <2>2, <2>3, <2>4, <2>5 DEF IInv, TableInv
<1>2. IInv /\ [Next]_vars => IInv'
  BY NextStep
<1>3. QED
  BY <1>1, <1>2, PTL DEF Spec

\* Every variable keeps its type; a call past its read holds a document.
THEOREM StoreTypeCorrect == Spec => []TypeOK
<1>1. IInv => TypeOK
  <2> SUFFICES ASSUME IInv PROVE TypeOK
    OBVIOUS
  <2>1. ASSUME NEW h \in Host
        PROVE  /\ run[h].pc \in {"idle", "read", "begin", "drop", "wait", "write"}
               /\ run[h].attempt \in 1 .. CAS_ATTEMPTS
               /\ run[h].dropped \subseteq Rows
               /\ run[h].doc = NoCard => run[h].pc \in {"idle", "read"}
    <3>1. run[h] \in Runs /\ Shaped(run[h])
      BY DEF IInv, HostInv
    <3>2. QED
      BY <3>1, CardStoreAssumption DEF Runs, Shaped
  <2>2. QED
    BY <2>1 DEF IInv, TableInv, TableType, TypeOK
<1>2. QED
  BY <1>1, Invariant, PTL

\* However the hosts interleave and die, an accepted comment keeps its one
\* row and its place in the card (_merge_unseen_comment_rows), until an
\* unfenced write is overtaken inside its transaction.
THEOREM CommentsKept == Spec => []CommentsSurvive
<1>1. IInv => CommentsSurvive
  BY DEF IInv, TableInv
<1>2. QED
  BY <1>1, Invariant, PTL

\* A refused fence takes the scrubbed references back with it (delete_task).
THEOREM ReferencesGo == Spec => []ReferencesGoWithTheCard
<1>1. IInv => ReferencesGoWithTheCard
  BY DEF IInv, TableInv
<1>2. QED
  BY <1>1, Invariant, PTL

\* A fenced write replaces the very version its caller has seen, for any
\* number of hosts writing in between (the WHERE on the revision).
THEOREM ArmedReplaces == Spec => ArmedReplacesWhatItSaw
<1> DEFINE Replaces == \A h \in Host :
      Commit(h) /\ card' # card /\ run[h].kind \in Armed => purged \/ Seen(h)
<1>1. IInv /\ [Next]_vars => [Replaces]_vars
  <2> SUFFICES ASSUME IInv, NEW h \in Host, Commit(h), card' # card, run[h].kind \in Armed,
                      ~purged
               PROVE  Seen(h)
    OBVIOUS
  <2>1. GuardHolds(h)
    BY DEF Commit, RolledBack, table
  <2>2. HostInv(run[h]) /\ run[h].pc = "write"
    BY DEF IInv, Commit
  <2>3. ~Absent /\ card.revision = run[h].seen
    BY <2>1 DEF GuardHolds
  <2>4. QED
    BY <2>2, <2>3 DEF HostInv, Fenced, Seen
<1>2. QED
  BY <1>1, Invariant, PTL DEF Spec, ArmedReplacesWhatItSaw

\* What the hash ledger stands for is in the card, so a save it skips has
\* its content stored (mirror_doc_incremental).
THEOREM LedgerIsCovered == Spec => []LedgerClaimsNoMore
<1>1. IInv => LedgerClaimsNoMore
  BY DEF IInv, TableInv
<1>2. QED
  BY <1>1, Invariant, PTL

\* comment_task gives up only after as many lost races as it has attempts
\* (CAS_ATTEMPTS).
THEOREM RetriesJustified == Spec => GivesUpForAReason
<1> DEFINE Justified == \A h \in Host :
      /\ run[h].kind = "comment" /\ (Begin(h) \/ Commit(h))
      /\ run'[h].pc = "idle" /\ run[h].id \notin accepted'
      => run[h].lost = CAS_ATTEMPTS
<1>1. IInv /\ [Next]_vars => [Justified]_vars
  <2> SUFFICES ASSUME IInv, NEW h \in Host, run[h].kind = "comment", Begin(h) \/ Commit(h),
                      run'[h].pc = "idle", run[h].id \notin accepted'
               PROVE  run[h].lost = CAS_ATTEMPTS
    OBVIOUS
  <2>1. /\ run[h] \in Runs /\ run \in [Host -> Runs] /\ HostInv(run[h])
        /\ run[h].pc \in {"begin", "write"}
    BY DEF IInv, Begin, Commit
  <2>2. ~GuardHolds(h) /\ Conflict(h)
    <3>1. CASE Begin(h)
      <4>1. run' # [run EXCEPT ![h].pc = "drop", ![h].notes = Merged(h)]
        <5>1. SUFFICES ASSUME run' = [run EXCEPT ![h].pc = "drop", ![h].notes = Merged(h)]
                       PROVE  FALSE
          OBVIOUS
        <5>2. run'[h].pc = "drop"
          BY <2>1, <5>1 DEF Runs
        <5>3. QED
          BY <5>2
      <4>2. QED
        BY <3>1, <4>1 DEF Begin
    <3>2. CASE Commit(h)
      <4>1. ~Land(h)
        BY DEF Land, Noting
      <4>2. QED
        BY <3>2, <4>1 DEF Commit
    <3>3. QED
      BY <3>1, <3>2
  <2>3. run[h].attempt <= run[h].lost
    BY <2>1, <2>2 DEF HostInv, Counting, GuardHolds, Armed, Creating
  <2>4. ~(run[h].attempt < CAS_ATTEMPTS)
    <3>1. SUFFICES ASSUME run[h].attempt < CAS_ATTEMPTS PROVE FALSE
      OBVIOUS
    <3>2. run'[h].pc = "read"
      BY <2>1, <2>2, <3>1 DEF Conflict, Idle
    <3>3. QED
      BY <3>2
  <2>5. run[h].attempt \in 1 .. CAS_ATTEMPTS /\ run[h].lost \in 0 .. CAS_ATTEMPTS
    BY <2>1 DEF Runs
  <2>6. QED
    BY <2>3, <2>4, <2>5, CardStoreAssumption
<1>2. QED
  BY <1>1, Invariant, PTL DEF Spec, GivesUpForAReason
=============================================================================
