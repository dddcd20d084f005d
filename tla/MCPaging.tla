------------------------------ MODULE MCPaging ------------------------------
(* Small instances of Paging: one code page, an image of one data page and a  *)
(* heap of two pages, a stack of two pages.                                   *)
EXTENDS Paging

MCImage == [a \in CodePages \cup DataImage |-> "v"]
=============================================================================
