---------------------------- MODULE MCPagination ----------------------------
(* Pagination with both kinds of source and a server that may ask for less *)
(* or for more than max_delay.                                             *)
EXTENDS Pagination

BothSources  == {"generator", "resumable"}
ServerHints  == {0, 2, 5}
CallDurations == {0, 1}
=============================================================================
