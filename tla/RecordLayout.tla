---------------------------- MODULE RecordLayout ----------------------------
(***************************************************************************)
(* The POI database as inspect and poi_diff read it: a blob of bytes, the  *)
(* candidate layouts it may be laid out in, and the records that a later   *)
(* capture has and an earlier one has not.  The coordinates of a record    *)
(* and its distance from a reference are left out.                         *)
(***************************************************************************)
EXTENDS Naturals, Sequences, SequencesExt

\* CANDIDATE_LAYOUTS: the length of a record by its first byte.
Layouts ==
  [whole  |-> [kind \in 1..3 |-> <<13, 12, 10>>[kind]],
   header |-> [kind \in 1..3 |-> <<15, 14, 12>>[kind]]]

Entry(offset, bytes, known, fits) ==
  [offset |-> offset, bytes |-> bytes, known |-> known, fits |-> fits]

\* record_boundaries: the walk stops at an unknown type byte, or at a record
\* that runs off the end.
Walk(blob, table) ==
  LET from[o \in 0..Len(blob)] ==
        LET kind == blob[o + 1]
        IN CASE o = Len(blob) -> << >>
             [] o < Len(blob) /\ kind \notin DOMAIN table ->
                  <<Entry(o, << >>, FALSE, FALSE)>>
             [] OTHER ->
                  IF o + table[kind] > Len(blob)
                  THEN <<Entry(o, << >>, TRUE, FALSE)>>
                  ELSE <<Entry(o, SubSeq(blob, o + 1, o + table[kind]),
                               TRUE, TRUE)>> \o from[o + table[kind]]
  IN from[0]

\* evaluate_layouts: the walk met known types only and every record fits.
Exact(blob, table) ==
  LET walk == Walk(blob, table)
  IN walk # << >> /\ \A i \in DOMAIN walk : walk[i].known /\ walk[i].fits

\* _walk_with_offsets
Accounted(blob, table) ==
  {e \in ToSet(Walk(blob, table)) : e.known /\ e.fits}

\* Mutant of New: a record is new when it starts behind the earlier blob.
NewByOffset(before, after, table) ==
  {e \in Accounted(after, table) : e.offset >= Len(before)}

\* The records of the later blob whose content the earlier one has not.
New(before, after, table) ==
  LET earlier == {e.bytes : e \in Accounted(before, table)}
  IN {e \in Accounted(after, table) : e.bytes \notin earlier}

\* diff_payloads: the records added, under each layout that is exact.
RecordsAdded(before, after) ==
  [l \in {l \in DOMAIN Layouts : Exact(after, Layouts[l])} |->
     IF before = after THEN {} ELSE New(before, after, Layouts[l])]
=============================================================================
