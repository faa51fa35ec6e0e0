------------------------------- MODULE MCFeed -------------------------------
(***************************************************************************)
(* A walk over the rows of concurrent writers: pages of one and two rows,  *)
(* with rows committed out of the order of their ids, deleted under the    *)
(* cursor, and returned by a query that breaks its contract.               *)
(***************************************************************************)
EXTENDS Feed

\* A clock that stands still or steps back, over two milliseconds, and one
\* before 1970, whose timestamp is past the id's bits and two mints from a wrap.
MCReadings == {-2, 1, 2, 4}

\* An id of version 4, between those of the two milliseconds.
MCAlien == 16 * Frac + 4 * Frac + 1

Symmetry == Permutations(Calls)

=============================================================================
