----------------------------- MODULE MCWorldEngine -----------------------------
(***************************************************************************)
(* Small instances of WorldEngine.                                         *)
(***************************************************************************)
EXTENDS WorldEngine, TLC

CONSTANTS sig, conn, root, thing, v1, v2, bad

\* The signal goroutine calls AnnounceShutdown, and a wizard types @dump.
MCUses == sig :> {"do"} @@ conn :> {"flush"}

\* A connection that both posts commands and waits for one.
MCUsesBoth == sig :> {"do"} @@ conn :> {"go", "do"}

Sym == Permutations({v1, v2})
===============================================================================
