------------------------------ MODULE RowOrder ------------------------------
(***************************************************************************)
(* ORDER BY over several columns, and the row such an order ends with: the *)
(* folds of the DM event logs (_dm/read.py) are "the last row of a group". *)
(***************************************************************************)
EXTENDS Integers

\* Tuples of numbers of one length, compared column by column.
Precedes(k, l) ==
  \E i \in DOMAIN k : /\ k[i] < l[i]
                      /\ \A j \in 1 .. i - 1 : k[j] = l[j]

\* The row no other row of rows follows when they are ordered by Key.
Latest(rows, Key(_)) ==
  CHOOSE r \in rows : \A s \in rows : ~ Precedes(Key(r), Key(s))
=============================================================================
