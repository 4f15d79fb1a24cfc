------------------------------- MODULE MCPaging -------------------------------
(* A small instance of the paging for TLC: the first and the third gym are as *)
(* far from the client, the second and the third have one name.               *)
EXTENDS Paging

PagingNames == <<2, 1, 1>>
PagingDistances == <<2, 1, 2>>
PagingScan == <<3, 1, 2>>
=============================================================================
