------------------------------ MODULE Conflict ------------------------------
(***************************************************************************)
(* The last-write-wins rule of the sync server, in the two forms the code  *)
(* keeps side by side: the Go function store.Wins, which the divergence    *)
(* check calls, and the WHERE clause of the upsert, which decides what is  *)
(* stored.  The rule reads three ranks of an envelope or of a stored row:  *)
(*                                                                         *)
(*    edited   last_edited_at_ms                                           *)
(*    rev      revision                                                    *)
(*    src      source_id; only the byte order of these strings matters, so *)
(*             a source_id stands for its place in that order              *)
(***************************************************************************)
EXTENDS Integers

\* Any record that carries the three ranks: an envelope, a row, a diff item.
Ranked(x) == x.edited \in Int /\ x.rev \in Int /\ x.src \in Int

SameRanks(x, y) == x.edited = y.edited /\ x.rev = y.rev /\ x.src = y.src

\* Deviation of Wins: the tie-break on source_id is forgotten.
WinsWithoutSource(incoming, stored) ==
  IF incoming.edited # stored.edited THEN incoming.edited > stored.edited
  ELSE incoming.rev > stored.rev

\* store.Wins: the first rank that differs decides, a full tie is not a win.
Wins(incoming, stored) ==
  IF incoming.edited # stored.edited THEN incoming.edited > stored.edited
  ELSE IF incoming.rev # stored.rev THEN incoming.rev > stored.rev
  ELSE incoming.src > stored.src

\* Deviation of UpsertWhere: >= in place of > in the last comparison.
UpsertWhereOrEqual(excluded, row) ==
  \/ excluded.edited > row.edited
  \/ /\ excluded.edited = row.edited
     /\ \/ excluded.rev > row.rev
        \/ excluded.rev = row.rev /\ excluded.src >= row.src

\* The condition under which ON CONFLICT DO UPDATE overwrites the stored row.
UpsertWhere(excluded, row) ==
  \/ excluded.edited > row.edited
  \/ /\ excluded.edited = row.edited
     /\ \/ excluded.rev > row.rev
        \/ excluded.rev = row.rev /\ excluded.src > row.src
=============================================================================
