------------------------ MODULE MCAsyncBulkUpdater ------------------------
(* Instances of AsyncBulkUpdater for TLC. *)
EXTENDS AsyncBulkUpdater

CONSTANTS e1, e2, e3, e4, e5, e6, e7, e8

\* All entries but one are stored: the seen entries reach their limit before
\* the bulk reaches its own.
AlmostAll == {e1, e2, e3, e4, e5, e6, e7}

StoredAlike == Permutations(AlmostAll)

=============================================================================
