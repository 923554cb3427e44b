----------------------------- MODULE DurableWorld -----------------------------
(***************************************************************************)
(* What persistence promises, without saying how: the game runs on `mem`,  *)
(* and `disk` is only ever replaced by the whole of `mem` as it stood at   *)
(* one instant.  A restart resumes from `disk`.  There is therefore no     *)
(* moment at which the store holds half of one operation, or one object    *)
(* from before another's change and one from after it.                     *)
(***************************************************************************)
CONSTANTS Item, Value

VARIABLES mem, disk

vars == <<mem, disk>>

Init == /\ mem \in [Item -> Value]
        /\ disk = mem

\* The game changes the world in memory.
Change == /\ mem' \in [Item -> Value]
          /\ UNCHANGED disk

\* A write lands: the store now holds the world as it is.
Sync == /\ disk' = mem
        /\ UNCHANGED mem

\* A process starts from what the store holds.
Recover == /\ mem' = disk
           /\ UNCHANGED disk

Next == Change \/ Sync \/ Recover

Spec == Init /\ [][Next]_vars
===============================================================================
