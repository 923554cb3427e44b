------------------------------ MODULE MCProcQueue ------------------------------
(***************************************************************************)
(* Small instances of ProcQueue.                                           *)
(***************************************************************************)
EXTENDS ProcQueue

\* Any event, one's own kind of message, or the end of one of two others.
MCFilters == {{}, {Exit(1)}, {Exit(2)}}
===============================================================================
