---------------------------- MODULE DmVisibility ----------------------------
(***************************************************************************)
(* The per-reader view state of the DM threads (hidden, pinned): an        *)
(* append-only table of hide / unhide / pin / unpin rows, the two verbs    *)
(* that append to it (_dm/write.py) and the two folds that read it         *)
(* (_dm/read.py), in one store with the tables of DmThreads.               *)
(*                                                                         *)
(* A verb needs a dm_threads row and runs under the same advisory lock as  *)
(* the verbs of DmThreads.  It is two steps: the reads it makes once it    *)
(* holds the lock, and the insert that commits and releases it.            *)
(***************************************************************************)
EXTENDS DmThreads

CONSTANT
  MaxStoreRows      \* bound: rows a behaviour with view rows writes

ViewAction == {"hide", "unhide", "pin", "unpin"}

ASSUME ViewBoundAssumption == MaxStoreRows \in Nat

VARIABLES
  viewEvents,       \* rows of dm_visibility_events
  viewTx            \* each writer's open verb

viewStore == <<viewEvents, viewTx>>
viewVars == <<vars, viewStore>>

ViewRow == [thread : Thread, reader : Agent, action : ViewAction,
            ts : Nat, seq : Nat]

\* A verb that holds the lock.
OpenView == [thread : Thread, reader : Agent, action : ViewAction,
             was : BOOLEAN, seq : Nat]

ViewLockFree == \A w \in Writer : viewTx[w] = NoTx

\* Types, the foreign key, and the lock: at most one transaction is open, be
\* it of a view verb or of an append.
ViewTypeOK ==
  /\ TypeOK
  /\ viewEvents \subseteq ViewRow
  /\ {e.thread : e \in viewEvents} \subseteq threads
  /\ viewTx \in [Writer -> OpenView \cup {NoTx}]
  /\ \A v, w \in Writer : viewTx[v] # NoTx =>
       /\ viewTx[v].thread \in threads
       /\ viewTx[w] # NoTx => v = w
       /\ tx[w] = NoTx

ViewInit ==
  /\ Init
  /\ viewEvents = {}
  /\ viewTx = [w \in Writer |-> NoTx]

-----------------------------------------------------------------------------
\* The folds.

RowsOf(t, r) == {e \in viewEvents : e.thread = t /\ e.reader = r}

\* Mutant: no counter, so rows of one second come in any order.
MutViewFoldKey(e) == <<e.ts>>

\* ORDER BY ts, seq, id: seq is already unique per thread and reader.
ViewFoldKey(e) == <<e.ts, e.seq>>

\* The latest row of any of the four actions decides both folds.
CurrentView(t, r) ==
  IF RowsOf(t, r) = {} THEN "none"
  ELSE Latest(RowsOf(t, r), ViewFoldKey).action

Hidden(r) == {t \in Thread : CurrentView(t, r) = "hide"}

Pinned(r) == {t \in Thread : CurrentView(t, r) = "pin"}

-----------------------------------------------------------------------------
\* The verbs.

\* Mutant: a verb starts beside another writer's open transaction.
MutStoreIsFree == \E w \in Writer : viewTx[w] = NoTx

\* begin_write_transaction gets the store-wide lock.
StoreIsFree == LockFree /\ ViewLockFree

\* The state the verb reports a change of.
StateOf(action, t, r) ==
  \/ action \in {"hide", "unhide"} /\ t \in Hidden(r)
  \/ action \in {"pin", "unpin"} /\ t \in Pinned(r)

Wanted(action) == action \in {"hide", "pin"}

\* set_thread_visibility and set_thread_pinned, up to the insert.  On an
\* unknown thread: KeyError.
ViewBegin(w) ==
  /\ StoreIsFree
  /\ Rows + Cardinality(viewEvents) < MaxStoreRows
  /\ \E t \in threads, r \in Agent, a \in ViewAction :
       viewTx' = [viewTx EXCEPT ![w] = [thread |-> t, reader |-> r, action |-> a,
                                        was |-> StateOf(a, t, r),
                                        seq |-> 1 + TopSeq(RowsOf(t, r))]]
  /\ UNCHANGED <<vars, viewEvents>>

\* What the verb returns as "changed".
Changed(w) == Wanted(viewTx[w].action) # viewTx[w].was

\* Mutant: the derived id of the first version, action instead of counter.
MutEventId(e) == <<e.thread, e.reader, e.action, e.ts>>

EventId(e) == <<e.thread, e.reader, e.ts, e.seq>>

\* record_visibility_event and the commit: ON CONFLICT DO NOTHING drops a
\* row whose derived id is taken.
ViewCommit(w) ==
  LET c == viewTx[w]
      row == [thread |-> c.thread, reader |-> c.reader, action |-> c.action,
              ts |-> Clock(w), seq |-> c.seq]
  IN
  /\ c # NoTx
  /\ viewEvents' = IF \E e \in viewEvents : EventId(e) = EventId(row)
                   THEN viewEvents ELSE viewEvents \cup {row}
  /\ viewTx' = [viewTx EXCEPT ![w] = NoTx]
  /\ UNCHANGED vars

\* The statement fails or the process dies: rollback frees the lock.
ViewFails(w) ==
  /\ viewTx[w] # NoTx
  /\ viewTx' = [viewTx EXCEPT ![w] = NoTx]
  /\ UNCHANGED <<vars, viewEvents>>

\* A step of DmThreads.  The clock and the tombstone need no lock.
ThreadStep ==
  /\ \/ ViewLockFree /\ Next
     \/ /\ Tick \/ \E id \in StoredIds : Tombstone(id)
        /\ Rows' <= MaxRows
  /\ viewEvents = {} \/ Rows' + Cardinality(viewEvents) <= MaxStoreRows
  /\ UNCHANGED viewStore

ViewNext == ThreadStep \/ \E w \in Writer :
                            ViewBegin(w) \/ ViewCommit(w) \/ ViewFails(w)

ViewSpec == ViewInit /\ [][ViewNext]_viewVars

-----------------------------------------------------------------------------
\* No row of the verb's thread and reader is stamped later than its host's
\* clock shows.  It fails when a host whose clock is ahead wrote before.
InTime(w) ==
  \A e \in RowsOf(viewTx[w].thread, viewTx[w].reader) : e.ts <= Clock(w)

\* Every verb that returned has left a row of its own, whatever the clocks show
\* and however many toggles share a second: no derived id is taken twice, so ON
\* CONFLICT DO NOTHING swallows none (derived_visibility_event_id).
EveryToggleIsKept ==
  [][\A w \in Writer :
       ViewCommit(w) => \E e \in viewEvents' \ viewEvents :
                          /\ e.thread = viewTx[w].thread
                          /\ e.reader = viewTx[w].reader
                          /\ e.action = viewTx[w].action]_viewVars

\* What a verb asked for is so once it has committed in time: a hidden thread is
\* hidden, an unpinned one not pinned, though earlier toggles share its second
\* (record_visibility_event's seq).
ToggleTakesEffect ==
  [][\A w \in Writer, t \in Thread, r \in Agent, a \in ViewAction :
       /\ ViewCommit(w) /\ InTime(w)
       /\ viewTx[w].thread = t /\ viewTx[w].reader = r /\ viewTx[w].action = a
       => (StateOf(a, t, r)' <=> Wanted(a))]_viewVars

\* What a verb that committed in time returns as "changed" is whether its commit
\* flipped the state it is about: the state it read under the lock is the one
\* its own row is appended to.
ChangedIsFlip ==
  [][\A w \in Writer, t \in Thread, r \in Agent, a \in ViewAction :
       /\ ViewCommit(w) /\ InTime(w)
       /\ viewTx[w].thread = t /\ viewTx[w].reader = r /\ viewTx[w].action = a
       => (Changed(w) <=> (StateOf(a, t, r) # StateOf(a, t, r)'))]_viewVars

\* The same without the condition on the clocks: "the per-(thread,reader)
\* counter is the order" (derived_visibility_event_id).  It fails on two hosts
\* whose clocks differ: the folds order by the timestamp first.
CounterIsTheOrder ==
  [][\A w \in Writer, t \in Thread, r \in Agent, a \in ViewAction :
       /\ ViewCommit(w)
       /\ viewTx[w].thread = t /\ viewTx[w].reader = r /\ viewTx[w].action = a
       => (StateOf(a, t, r)' <=> Wanted(a))]_viewVars

\* Pinning or unpinning a thread hides and unhides nothing: the two folds
\* "never read each other's actions" (pinned_for_conn).  It fails: a pin is the
\* latest row of a hidden thread, and unhides it.
PinKeepsHidden ==
  [][\A w \in Writer :
       ViewCommit(w) /\ viewTx[w].action \in {"pin", "unpin"} =>
         \A r \in Agent : Hidden(r)' = Hidden(r)]_viewVars
=============================================================================
