---------------------------- MODULE MCPagination ----------------------------
(***************************************************************************)
(* Pagination with pages of 2 characters and of 2 URIs: files of up to 3   *)
(* lines of up to 2 letters (texts up to 8 characters, 4 pages) and        *)
(* searches of up to 3 matches, so pages end exactly at, one before and    *)
(* one after the end of a result.                                          *)
(***************************************************************************)
EXTENDS Pagination

CONSTANTS m1, m2, m3

MCMatches == {m1, m2, m3}
====
