----------------------------- MODULE MCPagination -----------------------------
(* Pagination for TLC: three accounts, an order with room between them.    *)
EXTENDS Pagination, TLC

(* In tenths of a row: not given, -1, -0.4, 0, 0.4, 1, 1.5 and 2.          *)
TenthsOfRows == {Unset, -10, -4, 0, 4, 10, 15, 20}
FourKeys == 1 .. 4
=============================================================================
