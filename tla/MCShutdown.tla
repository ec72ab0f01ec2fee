----------------------------- MODULE MCShutdown -----------------------------
(***************************************************************************)
(* Shutdown for TLC: two collections, one of them the links.               *)
(***************************************************************************)
EXTENDS Shutdown

CONSTANTS nodes, links

MCCollection == {nodes, links}
=============================================================================
