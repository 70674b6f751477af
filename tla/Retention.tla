----------------------------- MODULE Retention -----------------------------
(***************************************************************************)
(* History.prune and History.reference_wall_ns as operators on the tables  *)
(* of the history.  A table is the sequence of its rows in the order of    *)
(* their ids, which AUTOINCREMENT makes the order of insertion; a row      *)
(* keeps the wall clock it was stamped with and its session.  Wall times   *)
(* are integers; retain_days and the row limits are scaled to them.        *)
(***************************************************************************)
EXTENDS Integers, Sequences, FiniteSetsExt

CONSTANTS
  Tables,          \* the tables of _PRUNABLE, "sessions" among them
  RobustRank,      \* ROBUST_RANK
  MinTable,        \* PRUNE_MIN_TABLE_ROWS
  Retain,          \* retain_days, in units of the wall clock; 0 disables
  MaxRows          \* max_rows; 0 disables

ASSUME RetentionAssumption ==
  /\ IsFiniteSet(Tables) /\ "sessions" \in Tables
  /\ {RobustRank, MinTable, Retain, MaxRows} \subseteq Nat

Row == [at : Int, session : Nat]

\* Where the rows of the file are.
Places(file) == UNION {{t} \X DOMAIN file[t] : t \in Tables}
StampAt(file, place) == file[place[1]][place[2]].at

Stamps(file) == {StampAt(file, place) : place \in Places(file)}

\* How many rows of the whole file are stamped later than an instant.
Later(file, instant) ==
  Cardinality({place \in Places(file) : StampAt(file, place) > instant})

Total(file) == Cardinality(Places(file))

\* Mutant of ReferenceWall: the newest stamp decides.
NewestWall(file) == Max(Stamps(file))

\* The stamp at OFFSET RobustRank of all stamps, newest first; the newest of
\* all when there are not that many rows.
ReferenceWall(file) ==
  IF Total(file) > RobustRank
  THEN CHOOSE s \in Stamps(file) : /\ Later(file, s) <= RobustRank
                                   /\ Later(file, s - 1) > RobustRank
  ELSE Max(Stamps(file))

Reference(file, now) ==
  IF Total(file) = 0 THEN now ELSE Min({now, ReferenceWall(file)})

\* The row budget: the newest MaxRows rows of each table by id.
Newest(rows) ==
  SubSeq(rows, Len(rows) - Min({MaxRows, Len(rows)}) + 1, Len(rows))

Budgeted(file) == [t \in Tables |-> Newest(file[t])]

\* The rows at the given places, in their order.  (SelectSeq, as a recursive
\* function of the places: its own definition cannot be expanded in a proof.)
Picked(rows, places) ==
  LET picked[i \in 0..Len(rows)] ==
        IF i = 0 THEN <<>>
        ELSE IF i \in places THEN Append(picked[i - 1], rows[i])
                             ELSE picked[i - 1]
  IN  picked[Len(rows)]

\* PRUNE_MAX_FRACTION is a quarter.
Refused(rows, cutoff) ==
  /\ Len(rows) >= MinTable
  /\ 4 * Len(SelectSeq(rows, LAMBDA r : r.at < cutoff)) > Len(rows)

Kept(rows, cutoff) ==
  IF Refused(rows, cutoff)
  THEN rows
  ELSE Picked(rows, {i \in DOMAIN rows : rows[i].at >= cutoff})

\* The wall-clock window.
Windowed(file, now) ==
  [t \in Tables |-> Kept(file[t], Reference(file, now) - Retain)]

\* Whether the window executes a DELETE at all.
WindowWrites(file, now) ==
  \E t \in Tables : /\ file[t] # <<>>
                    /\ ~Refused(file[t], Reference(file, now) - Retain)
=============================================================================
