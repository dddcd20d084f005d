----------------------------- MODULE MCRelaunch -----------------------------
(* The instance of MCPagingReliable, launched again after it stopped. *)
EXTENDS Relaunch

MCImage == [a \in CodePages \cup DataImage |-> "v"]
=============================================================================
