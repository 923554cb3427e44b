-------------------------------- MODULE Upkeep --------------------------------
(***************************************************************************)
(* The object graph under its commands and its upkeep: God edits a field   *)
(* by hand (@sanchange), a restart loads what was saved and repairs the    *)
(* lists, and @sanfix repairs the rest.                                    *)
(***************************************************************************)
EXTENDS Commands, Sanity

CONSTANTS
    MaxEdits,   \* how many fields God edits, in the worlds no command changes
    EditValues  \* the values God gives them

\* A field that holds a ref is edited as a number.
ASSUME UpkeepAssumption == EditValues \subseteq Int

\* Any object but garbage, any field of its own, any value.
CmdSanchange ==
    \E r \in DOMAIN world.objs, value \in EditValues,
       f \in {"loc", "owner", "next", "exits", "contents", "link"} :
        /\ world.edits > 0
        /\ Valid(world, r)
        /\ f = "link" => Type(world, r) \in {"player", "thing"}
        /\ world' = [world EXCEPT !.objs[r][f] = value, !.edits = @ - 1, !.damaged = TRUE]
        /\ actor' = God
        /\ UNCHANGED ops

CmdSanfix == Turn(God) /\ Does(God, Fix(world))

\* Shut down, and started again on what was written.
Restart == Turn(God) /\ Does(God, Load(world))

Upkeep == Next \/ CmdSanchange \/ CmdSanfix \/ Restart

-----------------------------------------------------------------------------
\* What a world owes its players.

Whole(g) ==
    \A r \in DOMAIN g.objs, list \in {"contents", "exits"} :
        LET chain == Chain(g, g.objs[r][list])
        IN  /\ Elems(chain) = Wanted(g, r, list) \ g.stranded
            /\ Len(chain) = Cardinality(Elems(chain))

CheckClean(g) == Check(g) = {<<r, "orphan">> : r \in Elems(g.free)}

\* The walk outward from an object.
Ends(g, r) == LET up == Outward(g, r) IN \E i \in DOMAIN up : up[i] = Nothing

\* Every object is on its container's list once, and on no other, whatever
\* moved, built, recycled and reused refs before (world.go:524, 593), but for
\* what a recycled container left behind; the walk outward from it always comes
\* to an end (MoveTo and parent_loop_check refuse what would close a ring, ref
\* reuse included); and nobody is in an object that is not there, or is garbage
\* and somewhere, with #0 always a room.
WorldIsSound ==
    ~world.damaged =>
        /\ Placed(world)
        /\ Whole(world)
        /\ \A r \in DOMAIN world.objs : Ends(world, r)

\* The free list is the garbage, each ref once: no ref is handed out twice,
\* and none is lost (world.go:224, 247, 306).
FreeListExact ==
    /\ Elems(world.free) = {r \in DOMAIN world.objs : Type(world, r) = "garbage"}
    /\ Len(world.free) = Cardinality(Elems(world.free))

\* Who is not a wizard, and not God either, who may be a quelled one: @sanfix
\* and @sanchange ask who gives them only for their ref.
Mortal(g, who) == ~Wizard(g, who) /\ who # God

\* What one player's command may change: what is theirs, an exit that nobody
\* has linked or nobody owns, a link to something of their own, what was left
\* for the taking (can_link, controls_link, permissions, chown_ok), and the
\* garbage, which is reused.
Reach(g, who) ==
    {o \in DOMAIN g.objs :
        \/ Controls(g, who, o)
        \/ ControlsLink(g, who, o)
        \/ Has(g, o, "chown_ok")
        \/ Type(g, o) = "exit" /\ (g.objs[o].dest = <<>> \/ g.objs[o].owner = Nothing)
        \/ Type(g, o) = "garbage"}

\* An object is what it was, whatever moved in or out of it.
Spared(g, h, o) ==
    /\ h.objs[o].type = g.objs[o].type
    /\ h.objs[o].owner = g.objs[o].owner
    /\ h.objs[o].link = g.objs[o].link
    /\ h.objs[o].dest = g.objs[o].dest
    /\ h.objs[o].flags = g.objs[o].flags

\* A mortal's command, whatever it runs into, leaves the kind, the owner, the
\* flags and the links of everything else alone (world.go:688, prim_db.go:2161).
MortalReach ==
    [][Mortal(world, actor') =>
          \A o \in DOMAIN world.objs \ Reach(world, actor') :
             o \in DOMAIN world'.objs /\ Spared(world, world', o)]_vars

\* Whatever was saved, the lists of a loaded world agree with what its
\* objects say (repair.go:18).
ReloadWhole == Whole(Load(world))

\* What @sanity finds nothing in, and @sanfix nothing to do.
Settled(fixed) ==
    /\ CheckClean(fixed)
    /\ Fix(fixed) = fixed

\* Garbage that threads nothing: an imported database may come with other, and
\* so may a list God edited, and @sanfix does not mend it (sanfix.go:191).
Swept(g) ==
    \A r \in DOMAIN g.objs : Type(g, r) = "garbage" => g.objs[r].next = Nothing

\* Once fixed, a world passes @sanity but for the garbage, which it calls
\* orphaned, and fixing it again changes nothing (sanfix.go:26): any world whose
\* fields nobody edited by hand, and any other that has no garbage on a list.
FixSettles == ~world.damaged \/ Swept(world) => Settled(Fix(world))

\* What a repair leaves is whole, be it the one a load makes or @sanfix.
RepairsSettle == ReloadWhole /\ FixSettles

\* So does a world no field of which was edited by hand pass, as long as nothing
\* named an object when it was recycled (sanity.go:35).
SanityPasses == world.damaged \/ world.loose \/ CheckClean(world)
===============================================================================
