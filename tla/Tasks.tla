------------------------------- MODULE Tasks --------------------------------
(***************************************************************************)
(* The asyncio tasks of one process, which share its lazily made clients.  *)
(***************************************************************************)
CONSTANT Processes
=============================================================================
