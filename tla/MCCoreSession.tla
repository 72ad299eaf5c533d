--------------------------- MODULE MCCoreSession ---------------------------
(* An instance of CoreSession for TLC.  A single operation is enough: the     *)
(* session layer treats the methods of the allowlist alike.                   *)
EXTENDS CoreSession

OneOperation == {"search.query"}

\* A small result, one that needs two units, and one above MaxResponse.
ResultSizes == {1, 2, 3}
=============================================================================
