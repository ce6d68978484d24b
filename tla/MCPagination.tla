---------------------------- MODULE MCPagination ----------------------------
(***************************************************************************)
(* Four rows, so that a walk may have four pages; some share a created_at;   *)
(* limits absent, invalid, in range and above the largest.                  *)
(***************************************************************************)
EXTENDS Pagination

Uuids  == 1..4
Times  == 1..3
Limits == {None, 0, 2, 9}
=============================================================================
