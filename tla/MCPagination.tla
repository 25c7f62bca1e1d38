----------------------------- MODULE MCPagination -----------------------------
(* The model-checked instance of Pagination.                               *)
EXTENDS Pagination

(* Three pages with PageSize 3 clamped to 2, the last of them short.  The  *)
(* iterators never look into an item.                                      *)
MCItem == {"a", "b", "c", "d", "e"}
===============================================================================
