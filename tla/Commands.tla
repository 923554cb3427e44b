------------------------------- MODULE Commands -------------------------------
(***************************************************************************)
(* The building, moving and wizard commands of internal/game, and the MUF  *)
(* primitives that do the same work, as steps on the object graph: each    *)
(* action is a whole command, with the checks it makes, in order, and the  *)
(* world it leaves.  A refused command leaves the world as it was.         *)
(*                                                                         *)
(* A name the player types is the object it matched: any ref that exists,  *)
(* garbage included (match.go:243).  A lock may pass (nobody is refused by *)
(* one here), whatever is bought is paid for, every player may build, and  *)
(* property queues and the autolook run no exit.                           *)
(***************************************************************************)
EXTENDS Movement

CONSTANTS
    Pairs,      \* the pairs of destinations an exit may be linked to at once
    Flags,      \* the flags @set may change in this instance
    MaxRef,     \* the highest ref an operation may allocate
    Actors,     \* the refs a player who gives commands may have
    MaxOps      \* how many commands a history has

\* A destination is a ref, or HOME or NIL, which are numbers, too.
ASSUME CommandsAssumption == Pairs \subseteq Seq(Int) /\ Flags \subseteq FlagNames

VARIABLES
    world,      \* the object graph
    actor,      \* the player who gave the last command
    ops         \* how many commands have run

vars == <<world, actor, ops>>

\* #0 is default_room_parent, player_start and lost_and_found; God is the
\* default recipient of a toaded player's things.
Tuned == {Root, God}

Players(g) == {r \in DOMAIN g.objs : Type(g, r) = "player"}

\* The arguments of @link: what one name or two may come to.
Destinations(g) == {<<d>> : d \in DOMAIN g.objs \cup {Home, Nil}} \cup Pairs

Controlled(g, who, what) ==
    /\ Controls(g, who, what)
    /\ Wizard(g, who) => (g.objs[what].owner = God => OwnerOf(g, who) = God)

Levels == {"m1", "m2", "m3"}

Level(flags) == CASE "m3" \in flags -> 3 [] "m2" \in flags -> 2
                  [] "m1" \in flags -> 1 [] OTHER -> 0

\* The level a player's program runs at: find_mlev, 4 for a wizard.
MLevel(g, who) ==
    IF Wizard(g, who) THEN 4 ELSE Level(g.objs[OwnerOf(g, who)].flags)

-----------------------------------------------------------------------------
\* Linking.

Linkable(g, where) ==
    IF Type(g, where) \in {"room", "thing"} THEN Has(g, where, "abode")
    ELSE Has(g, where, "link_ok")

\* Whether something of type what may be attached to where.
CanLinkTo(g, who, what, where) ==
    \/ where = Home
    \/ what = "exit" /\ where = Nil
    \/ /\ Valid(g, where)
       /\ CASE what = "player"  -> Type(g, where) = "room"
            [] what = "room"    -> Type(g, where) \in {"thing", "room"}
            [] what = "thing"   -> Type(g, where) \notin {"exit", "program"}
            [] what = "program" -> FALSE
            [] OTHER            -> TRUE
       /\ Controlled(g, who, where) \/ Linkable(g, where)

CanTeleportTo(g, who, where) ==
    \/ Controlled(g, who, where)
    \/ Has(g, where, "link_ok")
    \/ Type(g, where) # "thing" /\ Has(g, where, "abode")

\* What a destination's owner may do to an exit aimed at it.
ControlsLink(g, who, what) ==
    CASE Type(g, what) = "exit" ->
            \/ \E d \in Elems(g.objs[what].dest) : Controlled(g, who, d)
            \/ Exists(g, Loc(g, what)) /\ who = g.objs[Loc(g, what)].owner
      [] Type(g, what) \in {"room", "player", "thing"} ->
            Controlled(g, who, g.objs[what].link)
      [] OTHER -> FALSE

\* The exits an exit leads through, itself included.
Through(g, exit) ==
    LET n == Cardinality(DOMAIN g.objs)
        on[i \in 0 .. n] ==
            IF i = 0 THEN {exit}
            ELSE on[i - 1] \cup
                 UNION {{d \in Elems(g.objs[e].dest) : Type(g, d) = "exit"} :
                            e \in {x \in on[i - 1] : Type(g, x) = "exit"}}
    IN  on[n]

ExitLoopCheck(g, source, dest) == source \in Through(g, dest)

\* The destinations of an argument that are taken, in order; a second player,
\* room or program is skipped, and so is an exit that would close a ring.
Final(g, d) == Type(g, d) \in {"player", "room", "program"}
Taken(c, taken, d) ==
    IF /\ CanLinkTo(c.g, c.who, "exit", d)
       /\ d \notin {Home, Nil} => Exists(c.g, d)
       /\ ~(Final(c.g, d) /\ \E e \in Elems(taken) : Final(c.g, e))
       /\ ~(Type(c.g, d) = "exit" /\ ExitLoopCheck(c.g, c.exit, d))
    THEN Append(taken, d) ELSE taken
Taking == INSTANCE InTurn WITH Do <- Taken
LinkExitDests(g, who, exit, args) ==
    Taking!Over([g |-> g, who |-> who, exit |-> exit], <<>>, args)

\* @link's three operations, and @unlink's four.
LinkExit(g, who, exit, args) ==
    LET o == g.objs[exit]
        held == [g EXCEPT !.objs[exit].owner = OwnerOf(g, who)]
        dests == LinkExitDests(held, who, exit, args)
    IN  IF o.dest # <<>> /\ ~(Controlled(g, who, exit) /\ o.dest[1] = Nil) THEN g
        ELSE IF dests = <<>> THEN held
        ELSE [held EXCEPT !.objs[exit].dest = dests]

LinkHome(g, who, what, dest) ==
    IF /\ Controlled(g, who, what)
       /\ CanLinkTo(g, who, Type(g, what), dest)
       /\ ~ParentLoopCheck(g, what, dest)
    THEN [g EXCEPT !.objs[what].link = dest] ELSE g

LinkDropto(g, who, room, dest) ==
    IF Controlled(g, who, room) /\ CanLinkTo(g, who, "room", dest) /\ room # dest
    THEN [g EXCEPT !.objs[room].link = dest] ELSE g

Unlinked(g, what) ==
    CASE Type(g, what) = "exit"   -> [g EXCEPT !.objs[what].dest = <<>>]
      [] Type(g, what) = "room"   -> [g EXCEPT !.objs[what].link = Nothing]
      [] Type(g, what) = "thing"  -> [g EXCEPT !.objs[what].link = g.objs[what].owner]
      [] Type(g, what) = "player" -> [g EXCEPT !.objs[what].link = Root]
      [] OTHER                    -> g

-----------------------------------------------------------------------------
\* Rooms on the way.

\* A non-sticky room with a drop-to passes a thing straight through.
ThroughDropto(g, dest) ==
    IF Type(g, dest) = "room" /\ g.objs[dest].link # Nothing /\ ~Has(g, dest, "sticky")
    THEN g.objs[dest].link ELSE dest

\* The nearest ABODE object above the digger's own room.
DefaultRoomParent(g, who) ==
    LET up == Outward(g, Loc(g, Loc(g, who)))
        abodes == {i \in DOMAIN up : Has(g, up[i], "abode")}
    IN  IF abodes = {} THEN Root
        ELSE up[CHOOSE i \in abodes : \A j \in abodes : i <= j]

-----------------------------------------------------------------------------
\* Building.

Built(g, t, owner, parent, link) ==
    LET new == NextRef(g, t).ref
        made == [Create(g, t, owner) EXCEPT !.objs[new].link = link]
    IN  MoveTo(made, new, parent)

Spare(g) == NextRef(g, "thing").ref <= MaxRef

Turn(who) == ops < MaxOps /\ Type(world, who) = "player"

Does(who, after) ==
    /\ world' = [after EXCEPT !.loose = @ \/ Dangling(after)]
    /\ actor' = who
    /\ ops' = ops + 1

CmdCreate(who) ==
    /\ Turn(who)
    /\ Spare(world)
    /\ Does(who, Built(world, "thing", who, who, Loc(world, who)))

\* The room is made at the default parent, and moved to the one asked for if
\* that is allowed.
Rehung(dug, who, at, parent, asked) ==
    IF Loc(dug, at) = parent /\ asked # at /\ CanLinkTo(dug, who, "room", asked)
    THEN MoveTo(dug, at, asked) ELSE dug

CmdDig(who) == Turn(who) /\
    LET at == NextRef(world, "room").ref
        parent == DefaultRoomParent(world, who)
    IN  /\ Spare(world)
        /\ \E asked \in {Nothing} \cup DOMAIN world.objs :
              Does(who, Rehung(Built(world, "room", who, parent, Nothing), who, at, parent, asked))

Opened(made, who, at, here, args) ==
    IF Loc(made, at) = here
    THEN [made EXCEPT !.objs[at].dest = LinkExitDests(made, who, at, args)] ELSE made

CmdOpen(who) == Turn(who) /\
    LET at == NextRef(world, "exit").ref
        here == Loc(world, who)
    IN  /\ Spare(world)
        /\ Valid(world, here) /\ Controlled(world, who, here)
        /\ \E args \in {<<>>} \cup Destinations(world) :
              Does(who, Opened(Built(world, "exit", who, here, Nothing), who, at, here, args))

\* What an action may hang on.
Source(g, who, r) ==
    Controlled(g, who, r) /\ Type(g, r) \notin {"exit", "program"}

CmdAction(who) ==
    /\ Turn(who)
    /\ Spare(world)
    /\ \E source \in DOMAIN world.objs :
          /\ Source(world, who, source)
          /\ Does(who, [Built(world, "exit", who, source, Nothing) EXCEPT
                           !.loose = @ \/ Type(world, source) = "garbage"])

CmdAttach(who) == Turn(who) /\
    \E exit, source \in DOMAIN world.objs :
        /\ Type(world, exit) = "exit" /\ Controlled(world, who, exit)
        /\ Source(world, who, source)
        /\ Does(who, MoveTo(world, exit, source))

CmdClone(who) == Turn(who) /\
    \E thing \in DOMAIN world.objs :
        LET at == NextRef(world, "thing").ref
            made == Built(world, "thing", who, who, Loc(world, who))
        IN  /\ Spare(world)
            /\ Type(world, thing) = "thing" /\ Controlled(world, who, thing)
            /\ Does(who, [made EXCEPT !.objs[at].flags = world.objs[thing].flags])

CreateProgram(who) ==
    /\ Turn(who)
    /\ Spare(world)
    /\ Does(who, Built(world, "program", who, who, Nothing))

\* A player owns itself, and lives and starts in the start room.
CmdPcreate(who) == Turn(who) /\
    LET at == NextRef(world, "player").ref
        made == Create(world, "player", Nothing)
    IN  /\ IsWizard(world, who) /\ at <= MaxRef
        /\ Does(who, MoveTo([made EXCEPT !.objs[at].owner = at, !.objs[at].link = Root],
                            at, Root))

-----------------------------------------------------------------------------
\* Linking, owning, flags.

Linked(g, who, what, args) ==
    CASE Type(g, what) = "exit" -> LinkExit(g, who, what, args)
      [] Type(g, what) \in {"thing", "player"} /\ Len(args) = 1 /\ Exists(g, args[1]) ->
            LinkHome(g, who, what, args[1])
      [] Type(g, what) = "room" /\ Len(args) = 1 /\ args[1] # Nil ->
            LinkDropto(g, who, what, args[1])
      [] OTHER -> g

CmdLink(who) == Turn(who) /\
    \E what \in DOMAIN world.objs, args \in Destinations(world) :
        Does(who, Linked(world, who, what, args))

CmdUnlink(who) == Turn(who) /\
    \E what \in DOMAIN world.objs :
        /\ Controlled(world, who, what) \/ ControlsLink(world, who, what)
        /\ Does(who, Unlinked(world, what))

\* The new target is checked before the old link is broken.
CmdRelink(who) == Turn(who) /\
    \E what \in DOMAIN world.objs, args \in Destinations(world) :
        LET g == world
            would == LinkExitDests(g, who, what, args)
        IN  /\ CASE Type(g, what) = "exit" ->
                        /\ g.objs[what].dest = <<>> \/ Controlled(g, who, what)
                        /\ would # <<>>
                        /\ would = SelectSeq(args, LAMBDA d : CanLinkTo(g, who, "exit", d))
                 [] Type(g, what) \in {"thing", "player", "room"} ->
                        Linked(g, who, what, args) # g
                 [] OTHER -> FALSE
            /\ Does(who, Linked(Unlinked(g, what), who, what, args))

MutantAnyChown(who) ==
    \E what \in DOMAIN world.objs :
        /\ Type(world, what) \notin {"player", "garbage"}
        /\ Type(world, what) = "room" => Loc(world, who) = what
        /\ Type(world, what) = "thing" => Loc(world, what) = who
        /\ Does(who, [world EXCEPT !.objs[what].owner = who])

CmdChown(who) == Turn(who) /\
    \E what \in DOMAIN world.objs, to \in Players(world) :
        LET g == world
            wizard == Wizard(g, who)
            t == Type(g, what)
        IN  /\ ~wizard => to = who
            /\ \/ wizard
               \/ t = "exit" /\ (g.objs[what].dest = <<>> \/ ControlsLink(g, who, what))
               \/ Has(g, what, "chown_ok") /\ t # "program"
            /\ t \notin {"player", "garbage"}
            /\ t = "room" /\ ~wizard => Loc(g, who) = what
            /\ t = "thing" /\ ~wizard => Loc(g, what) = who
            /\ Does(who, [g EXCEPT !.objs[what].owner = to])

\* Which flags an asker may change, on what kind of object, and which way.
MaySetFlag(g, who, what, f, on) ==
    LET t == Type(g, what)
        own == OwnerOf(g, who)
        wizard == IsWizard(g, own)
    IN  CASE f \in Levels ->
                wizard \/ /\ own = OwnerOf(g, what) /\ t = "program"
                          /\ on => Level(g.objs[who].flags) >= Level({f})
          [] f = "abode" -> t = "program" => Has(g, own, "wizard")
          [] f = "guest" -> wizard
          [] f \in {"yield", "overt"} -> wizard /\ t \in {"thing", "room"}
          [] f = "zombie" ->
                (t = "player" \/ (t = "thing" /\ Has(g, own, "zombie"))) => wizard
          [] f = "vehicle" ->
                /\ (t = "player" \/ (t = "thing" /\ Has(g, who, "vehicle"))) => wizard
                \* passengers would be in something nothing can leave
                /\ (t = "thing" /\ ~on) =>
                      \A r \in Elems(Contents(g, what)) : Type(g, r) # "player"
          [] f = "dark" -> t = "player" => wizard
          [] f = "quell" ->
                (t = "player" /\ what # who /\ Has(g, what, "wizard")) => own = God
          [] f = "builder" ->
                IF t = "program" THEN MLevel(g, who) >= 2 ELSE wizard
          [] f = "wizard" ->
                /\ wizard
                /\ ~(~on /\ what = who)
                /\ t = "player" => who = God
          [] f = "xforcible" -> t = "exit" => wizard
          [] OTHER -> TRUE

CmdSet(who) == Turn(who) /\
    \E what \in DOMAIN world.objs, f \in Flags, on \in BOOLEAN :
        LET was == world.objs[what].flags \ (IF f \in Levels THEN Levels ELSE {})
        IN  /\ Controlled(world, who, what)
            /\ OwnerOf(world, what) = God => who = God
            /\ ~Has(world, who, "guest")
            /\ MaySetFlag(world, who, what, f, on)
            /\ Does(who, [world EXCEPT !.objs[what].flags =
                                           IF on THEN was \cup {f} ELSE was \ {f}])

-----------------------------------------------------------------------------
\* Destroying.

CmdRecycle(who) == Turn(who) /\
    \E what \in DOMAIN world.objs \ Tuned :
        /\ Controlled(world, who, what)
        /\ OwnerOf(world, what) = OwnerOf(world, who)
        /\ Type(world, what) \notin {"player", "garbage"}
        /\ Does(who, Recycle(world, what))

\* What a player carried goes home, what they owned changes hands, and what
\* lived with them moves to the lost-and-found; then they become a thing.
SentHome(victim, h, r) == SendHome(h, r)
SendingHome == INSTANCE InTurn WITH Do <- SentHome
Toaded(g, victim, recipient, by) ==
    LET emptied == SendingHome!Over(victim, g, Contents(g, victim))
        handed(o) ==
            [o EXCEPT
                !.owner = IF @ = victim /\ o.type \in {"program", "room", "thing", "exit"}
                          THEN recipient ELSE @,
                !.flags = IF /\ o.owner = victim /\ o.type = "program"
                             /\ Has(g, recipient, "wizard")
                          THEN (@ \ ({"abode", "wizard"} \cup Levels)) \cup {"m1"} ELSE @,
                !.link = IF o.type = "thing" /\ @ = victim THEN Root ELSE @]
        passed == [emptied EXCEPT !.objs =
                      [r \in DOMAIN @ |-> handed(@[r])]]
    IN  Toad(passed, victim, by)

\* toad_recycle may be set or not.
Recycled(toaded, victim, too) == IF too THEN Recycle(toaded, victim) ELSE toaded

CmdToad(who) == Turn(who) /\
    \E victim, recipient \in Players(world), recycle \in BOOLEAN :
        /\ IsWizard(world, who)
        /\ victim \notin Tuned \cup {who, recipient}
        /\ ~Has(world, victim, "wizard")
        /\ Does(who, Recycled(Toaded(world, victim, recipient, who), victim, recycle))

-----------------------------------------------------------------------------
\* Moving about.

\* Things in reach: here, carried, or inside something here or carried.
InReach(g, who) ==
    LET near == {r \in DOMAIN g.objs : Loc(g, r) \in {Loc(g, who), who}}
        boxes == {r \in near : Type(g, r) # "player"}
    IN  IF Wizard(g, who) THEN DOMAIN g.objs
        ELSE near \cup {r \in DOMAIN g.objs : Loc(g, r) \in boxes}

CmdGet(who) == Turn(who) /\
    \E what \in InReach(world, who) :
        /\ Type(world, what) \in {"thing", "program"}
        /\ Loc(world, what) # who
        /\ ~ParentLoopCheck(world, what, who)
        /\ Does(who, MoveThing(world, what, who))

\* Dropped here, put into something, or handed to somebody.
CmdDrop(who) == Turn(who) /\
    \E what \in Elems(Contents(world, who)), into \in DOMAIN world.objs :
        LET g == world IN
        /\ Type(g, what) \in {"thing", "program"}
        /\ Loc(g, what) = who
        /\ into = Loc(g, who) \/ into \in InReach(g, who)
        /\ Type(g, into) \in {"room", "player", "thing"}
        /\ ~ParentLoopCheck(g, what, into)
        /\ Does(who, MoveThing(g, what,
                        IF /\ Type(g, into) = "room"
                           /\ Type(g, what) = "thing" /\ Has(g, what, "sticky")
                        THEN HomeOf(g, what) ELSE ThroughDropto(g, into)))

\* Home, without possessions: each goes to its own home.
Moved(to, h, r) == MoveObject(h, r, to)
Emptying == INSTANCE InTurn WITH Do <- Moved
Emptied(g, who) == Emptying!Over(Home, g, Contents(g, who))

GoHome(who) == Turn(who) /\ Does(who, EnterRoom(Emptied(world, who), who, Home))

CmdLeave(who) == Turn(who) /\
    LET g == world
        vehicle == Loc(g, who)
        outside == Loc(g, vehicle)
    IN  /\ Exists(g, vehicle) /\ Type(g, vehicle) # "room" /\ Has(g, vehicle, "vehicle")
        /\ Type(g, outside) \in {"room", "thing"}
        /\ ~ParentLoopCheck(g, who, outside)
        /\ Does(who, EnterRoom(g, who, outside))

UseExit(who) == Turn(who) /\
    \E exit \in DOMAIN world.objs :
        /\ Type(world, exit) = "exit"
        /\ \/ Loc(world, exit) \in {who, Loc(world, who)}
           \/ Loc(world, Loc(world, exit)) \in {who, Loc(world, who)}
        /\ Does(who, Trigger(world, who, exit))

\* @teleport: HOME is resolved by the kind of victim first, and each kind has
\* rules of its own.
TeleportHome(g, victim) ==
    IF Type(g, victim) \in {"player", "thing", "program"} THEN FallbackHome(g, victim)
    ELSE Root

MayTeleport(g, who, victim, dest) ==
    LET t == Type(g, victim)
        d == Type(g, dest)
    IN  CASE t = "player" ->
                /\ Controlled(g, who, victim) /\ Controlled(g, who, dest)
                /\ Controlled(g, who, Loc(g, victim))
                /\ d = "thing" => Controlled(g, who, Loc(g, dest))
                /\ d \in {"room", "thing"}
                /\ d = "thing" => Has(g, victim, "wizard") \/ Has(g, dest, "vehicle")
                /\ ~ParentLoopCheck(g, victim, dest)
          [] t \in {"thing", "program"} ->
                /\ t = "thing" => ~ParentLoopCheck(g, victim, dest)
                /\ d \in {"room", "player", "thing"}
                /\ Controlled(g, who, dest) \/ CanTeleportTo(g, who, dest)
                /\ Controlled(g, who, victim) \/ Controlled(g, who, Loc(g, victim))
          [] t = "room" ->
                /\ d = "room"
                /\ Controlled(g, who, victim) /\ CanTeleportTo(g, who, dest)
                /\ victim # Root
                /\ ~ParentLoopCheck(g, victim, dest)
          [] OTHER -> FALSE

CmdTeleport(who) == Turn(who) /\
    \E victim \in DOMAIN world.objs, to \in DOMAIN world.objs \cup {Home} :
        LET g == world
            t == Type(g, victim)
            dest == IF to = Home THEN TeleportHome(g, victim) ELSE to
        IN  /\ OwnerOf(g, victim) = God => who = God
            /\ MayTeleport(g, who, victim, dest)
            /\ Does(who, Travel(g, victim,
                        IF t \in {"player", "room"} THEN dest ELSE ThroughDropto(g, dest),
                        t = "player" \/ Enters(g, victim)))

-----------------------------------------------------------------------------
\* The primitives a program moves, builds, links and destroys with.  A program
\* runs for who, at the level of who's owner; 3 is past most checks and 4 is
\* a wizard's.

Permissions(g, who, what) ==
    \/ what = who \/ what = Home
    \/ Type(g, what) = "exit" /\ g.objs[what].owner \in {OwnerOf(g, who), Nothing}
    \/ Type(g, what) \in {"room", "thing", "program"}
         /\ g.objs[what].owner = OwnerOf(g, who)

AtLeast(level, g, who, what) == MLevel(g, who) >= level \/ Permissions(g, who, what)

\* A player or thing must be let out of where it is and into where it goes.
MayLeaveFor(g, who, victim, dest) ==
    /\ Type(g, victim) = "player" =>
          Type(g, dest) = "room" \/ (Type(g, dest) = "thing" /\ Has(g, dest, "vehicle"))
    /\ ~ParentLoopCheck(g, victim, dest)
    /\ \/ MLevel(g, who) >= 3
       \/ /\ Has(g, Loc(g, victim), "jump_ok") \/ Permissions(g, who, Loc(g, victim))
          /\ Has(g, dest, "jump_ok") \/ Permissions(g, who, dest)
          /\ Type(g, dest) = "thing" => Loc(g, victim) = Loc(g, dest)

\* Below level 3 a thing or program the owner does not control leaves or enters
\* a place of the owner's only if that is jump_ok; where it is comes first.
MayBeContained(g, who, victim, dest) ==
    LET own == SelectSeq(<<Loc(g, victim), dest>>, LAMBDA r : Permissions(g, who, r))
    IN  \/ AtLeast(3, g, who, victim)
        \/ \A i \in DOMAIN own : i = 1 => Has(g, own[i], "jump_ok")

MayReparent(g, who, room, to) ==
    /\ room # Root
    /\ Type(g, to) = "room" \/ g.secure
    /\ IF to = Home
       THEN AtLeast(3, g, who, room) \/ AtLeast(3, g, who, Loc(g, room))
       ELSE /\ AtLeast(3, g, who, room)
            /\ MLevel(g, who) >= 3 \/ CanTeleportTo(g, who, to)
            /\ ~ParentLoopCheck(g, room, to)

\* HOME is a destination only a room can be given, and is #0.
PrimMoveTo(who) == Turn(who) /\
    \E victim \in DOMAIN world.objs, to \in DOMAIN world.objs \cup {Home} :
        LET g == world
            t == Type(g, victim)
            dest == IF to = Home /\ t = "room" THEN Root ELSE to
            d == Type(g, dest)
        IN  /\ Valid(g, victim) /\ Valid(g, dest) /\ d # "exit"
            /\ Has(g, victim, "jump_ok") \/ AtLeast(3, g, who, victim)
            /\ t = "exit" => MLevel(g, who) >= 3
            /\ t \in {"player", "thing"} => MayLeaveFor(g, who, victim, dest)
            /\ t \in {"thing", "program"} => MayBeContained(g, who, victim, dest)
            /\ t = "room" => MayReparent(g, who, victim, to)
            /\ t # "room" => d \in {"room", "player", "thing"}
            /\ Does(who, IF t = "player" \/ Enters(g, victim)
                         THEN EnterRoom(g, victim, dest)
                         ELSE [MoveTo(g, victim, dest) EXCEPT
                                  !.loose = @ \/ d = "program"])

\* What NEWOBJECT refuses is a room; anything else will do for a parent.
PrimNew(who) == Turn(who) /\
    \E t \in {"thing", "room", "exit"}, parent \in DOMAIN world.objs :
        /\ Spare(world)
        /\ Valid(world, parent)
        /\ t = "thing" => Type(world, parent) # "room"
        /\ t = "exit" => MLevel(world, who) >= 3
        /\ Does(who, [Built(world, t, who, parent, IF t = "thing" THEN parent ELSE Nothing)
                         EXCEPT !.loose = @ \/ Type(world, parent) \in {"exit", "program"}])

PrimCopyObj(who) == Turn(who) /\
    \E src \in DOMAIN world.objs :
        LET at == NextRef(world, "thing").ref IN
        /\ Spare(world)
        /\ Type(world, src) = "thing"
        /\ MLevel(world, who) >= 3 \/ world.objs[src].owner = OwnerOf(world, who)
        /\ Does(who, [Built(world, "thing", who, who, who) EXCEPT
                         !.objs[at].flags = world.objs[src].flags])

\* A copied player is put where the one copied lives.
PrimCopyPlayer(who) == Turn(who) /\
    \E src \in Players(world) :
        LET at == NextRef(world, "player").ref
            made == MoveTo(Create(world, "player", at), at, Root)
            home == world.objs[src].link
        IN  /\ MLevel(world, who) >= 4 /\ at <= MaxRef
            /\ Does(who, MoveTo([made EXCEPT !.objs[at].flags = world.objs[src].flags,
                                             !.objs[at].link = home],
                                at, home))

PrimRecycle(who) == Turn(who) /\
    \E what \in DOMAIN world.objs \ Tuned :
        /\ MLevel(world, who) >= 3 /\ AtLeast(4, world, who, what)
        /\ Valid(world, what) /\ Type(world, what) # "player"
        /\ Does(who, Recycle(world, what))

PrimSetLink(who) == Turn(who) /\
    \E what, dest \in DOMAIN world.objs :
        LET g == world
            t == Type(g, what)
        IN  /\ Valid(g, dest) /\ Valid(g, what) /\ t # "program"
            /\ CanLinkTo(g, who, t, dest)
            /\ AtLeast(4, g, who, what)
            /\ t = "exit" => /\ \A i \in DOMAIN g.objs[what].dest :
                                   i = 1 => g.objs[what].dest[i] = Nil
                             /\ ~ExitLoopCheck(g, what, dest)
            /\ t = "thing" => ~ParentLoopCheck(g, what, dest)
            /\ Does(who, IF t = "exit" THEN [g EXCEPT !.objs[what].dest = <<dest>>]
                         ELSE [g EXCEPT !.objs[what].link = dest])

\* Every destination is checked before any is written.
PrimSetLinksArray(who) == Turn(who) /\
    \E what \in DOMAIN world.objs, dests \in {<<>>} \cup Destinations(world) :
        LET g == world
            t == Type(g, what)
            final == {i \in DOMAIN dests : Type(g, dests[i]) \in {"player", "room", "program"}}
            fits(d) == CASE t = "exit" ->
                                \/ d = Nil
                                \/ Exists(g, d) /\ (Type(g, d) = "exit" =>
                                                       ~ExitLoopCheck(g, what, d))
                         [] t = "player" -> d # Home
                         [] t = "thing"  -> d # Home /\ ~ParentLoopCheck(g, what, d)
                         [] OTHER -> t = "room"
        IN  /\ Valid(g, what) /\ AtLeast(4, g, who, what)
            /\ Len(dests) > 1 => t = "exit"
            /\ dests = <<>> => t \in {"exit", "room"}
            /\ \A d \in Elems(dests) : CanLinkTo(g, who, t, d) /\ fits(d)
            /\ t = "exit" => Cardinality(final) <= 1
            /\ Does(who, IF t = "exit" THEN [g EXCEPT !.objs[what].dest = dests]
                         ELSE [g EXCEPT !.objs[what].link =
                                  IF dests = <<>> THEN Nothing ELSE dests[1]])

\* Below level 4: what is marked for the taking, carried or stood in.
PrimSetOwn(who) == Turn(who) /\
    \E what \in DOMAIN world.objs, to \in Players(world) :
        LET g == world IN
        /\ Valid(g, what) /\ Type(g, what) # "player"
        /\ \/ MLevel(g, who) >= 4
           \/ /\ to = who /\ Has(g, what, "chown_ok")
              /\ Type(g, what) = "room" => Loc(g, who) = what
              /\ Type(g, what) = "thing" => Loc(g, what) = who
        /\ Does(who, [g EXCEPT !.objs[what].owner = to])

-----------------------------------------------------------------------------
Building(who) ==
    \/ CmdCreate(who) \/ CmdDig(who) \/ CmdOpen(who) \/ CmdAction(who)
    \/ CmdAttach(who) \/ CmdClone(who) \/ CreateProgram(who) \/ CmdPcreate(who)

Changing(who) ==
    \/ CmdLink(who) \/ CmdUnlink(who) \/ CmdRelink(who) \/ CmdChown(who)
    \/ CmdSet(who) \/ CmdRecycle(who) \/ CmdToad(who)

Moving(who) ==
    \/ CmdGet(who) \/ CmdDrop(who) \/ GoHome(who) \/ CmdLeave(who)
    \/ UseExit(who) \/ CmdTeleport(who)

Programs(who) ==
    \/ PrimMoveTo(who) \/ PrimNew(who) \/ PrimCopyObj(who) \/ PrimCopyPlayer(who)
    \/ PrimRecycle(who) \/ PrimSetLink(who) \/ PrimSetLinksArray(who)
    \/ PrimSetOwn(who)

Next ==
    \E who \in Actors :
        Building(who) \/ Changing(who) \/ Moving(who) \/ Programs(who)
===============================================================================
