----------------------------- MODULE MCConnections -----------------------------
(***************************************************************************)
(* Small instances of Connections.                                         *)
(***************************************************************************)
EXTENDS Connections, TLC

CONSTANTS line, web, here, ann, bob

MCHostOf == [c \in Conn |-> here]

Sym == Permutations({ann, bob}) \cup Permutations({line, web})
===============================================================================
