------------------------------- MODULE Objects --------------------------------
(***************************************************************************)
(* The object graph of internal/world: objects that name their container,  *)
(* and containers that thread their members onto two intrusive lists       *)
(* (Contents, Exits) through the members' Next fields.  A world is a       *)
(* record, and every operation of world.go is an operator from worlds to   *)
(* worlds, so a command that makes several calls composes them in the      *)
(* order the code makes them.                                              *)
(*                                                                         *)
(*   objs      the objects, by ref 0 .. top-1 (no ref is ever dropped)     *)
(*   free      the free list of recycled refs, reused from the end         *)
(*   secure    the secure_thing_movement parameter                         *)
(*   stranded  ghost: members left behind when their container was         *)
(*             recycled, or when a recycled container's ref was reused,    *)
(*             and not moved since                                         *)
(*   loose     ghost: some object has named garbage, or been put into it or *)
(*             into a program                                              *)
(*   edits     how many fields may yet be edited by hand (a bound)         *)
(*   damaged   ghost: some field has been edited by hand                   *)
(*                                                                         *)
(* An object's home (things, players) and drop-to (rooms) share one field, *)
(* link, as they share one slot in a dump (object.go:66).                  *)
(***************************************************************************)
EXTENDS Integers, FiniteSets, Sequences

Nothing == -1
Home    == -3
Nil     == -4

Root == 0      \* the global environment
God  == 1

Types == {"room", "thing", "player", "exit", "program", "garbage"}

\* A mucker level is two bits that are only set together: m1, m2 or m3.
FlagNames ==
    {"abode", "builder", "chown_ok", "dark", "guest", "haven", "jump_ok", "kill_ok",
     "link_ok", "listener", "overt", "quell", "sticky", "vehicle", "wizard",
     "xforcible", "yield", "zombie", "m1", "m2", "m3"}

Exists(g, r) == r \in DOMAIN g.objs
Type(g, r)   == IF Exists(g, r) THEN g.objs[r].type ELSE "none"
Valid(g, r)  == Exists(g, r) /\ g.objs[r].type # "garbage"
Loc(g, r)    == IF Exists(g, r) THEN g.objs[r].loc ELSE Nothing
Has(g, r, f) == Exists(g, r) /\ f \in g.objs[r].flags

NewObject(t, owner) ==
    [type |-> t, owner |-> owner, loc |-> Nothing, contents |-> Nothing,
     exits |-> Nothing, next |-> Nothing, link |-> Nothing, dest |-> <<>>,
     flags |-> {}]

\* All there are, in ref order.
Refs(g) == [i \in 1 .. Cardinality(DOMAIN g.objs) |-> i - 1]

\* Recycle leaves the home or drop-to in place; nothing reads it in garbage.
GarbageObject(link) == [NewObject("garbage", Nothing) EXCEPT !.link = link]

-----------------------------------------------------------------------------
\* Walks.  Each is bounded by the number of objects, as in the code.

\* The n-th container outward from r.
Outward(g, r) ==
    LET up[i \in 0 .. Cardinality(DOMAIN g.objs)] ==
            IF i = 0 THEN r ELSE Loc(g, up[i - 1])
    IN  up

Encloses(g, outer, inner) ==
    LET up == Outward(g, inner)
    IN  \E i \in DOMAIN up : up[i] = outer /\ up[i] # Nothing

\* The members threaded from a list head, in order.
NextOf(g, r) == IF Exists(g, r) THEN g.objs[r].next ELSE Nothing
Threaded(g, chain) ==
    LET next == NextOf(g, chain[Len(chain)])
    IN  IF next = Nothing THEN chain ELSE Append(chain, next)
Chain(g, head) ==
    LET from[i \in 0 .. Cardinality(DOMAIN g.objs)] ==
            IF i = 0 THEN <<head>> ELSE Threaded(g, from[i - 1])
    IN  IF head = Nothing THEN <<>> ELSE from[Cardinality(DOMAIN g.objs)]

\* Which of its container's lists an object of a type belongs on.
ListOf(t) == IF t = "exit" THEN "exits" ELSE "contents"

Contents(g, r) == IF Exists(g, r) THEN Chain(g, g.objs[r].contents) ELSE <<>>
Exits(g, r)    == IF Exists(g, r) THEN Chain(g, g.objs[r].exits) ELSE <<>>

Elems(s) == {s[i] : i \in DOMAIN s}

\* Some of a world's refs, in ref order.
Picked(S, taken, r) == IF r \in S THEN Append(taken, r) ELSE taken
Picking == INSTANCE InTurn WITH Do <- Picked
InOrder(g, S) == Picking!Over(S, <<>>, Refs(g))

Members(g, r) == Elems(Contents(g, r)) \cup Elems(Exits(g, r))

-----------------------------------------------------------------------------
\* Unlink member from its container's list.
RemoveFromChain(g, container, member) ==
    IF ~Exists(g, container) \/ ~Exists(g, member) THEN g
    ELSE LET list == ListOf(Type(g, member))
             after == g.objs[member].next
             chain == Chain(g, g.objs[container][list])
             before == {r \in Elems(chain) : Exists(g, r) /\ g.objs[r].next = member}
         IN  IF g.objs[container][list] = member
             THEN [g EXCEPT !.objs[container][list] = after]
             ELSE IF before = {} THEN g
             ELSE [g EXCEPT !.objs[CHOOSE r \in before : TRUE].next = after]

MutantIntoItself(g, what, dest) ==
    Exists(g, what) /\ (dest # Nothing => Exists(g, dest) /\ what # dest)

MayMove(g, what, dest) ==
    /\ Exists(g, what)
    /\ dest # Nothing => /\ Exists(g, dest)
                         /\ what # dest
                         /\ ~Encloses(g, what, dest)

\* A refused move leaves the world as it was.
MoveTo(g, what, dest) ==
    IF ~MayMove(g, what, dest) THEN g
    ELSE LET out == IF Loc(g, what) = Nothing THEN g
                    ELSE RemoveFromChain(g, Loc(g, what), what)
             list == ListOf(Type(g, what))
             head == IF dest = Nothing THEN Nothing ELSE out.objs[dest][list]
             placed == [out EXCEPT !.objs[what] = [@ EXCEPT !.loc = dest, !.next = head],
                                   !.stranded = @ \ {what}]
         IN  IF dest = Nothing THEN placed
             ELSE [placed EXCEPT !.objs[dest][list] = what]

MutantKeepsTop(g, t) ==
    LET top == Cardinality(DOMAIN g.objs)
    IN  IF t = "player" \/ g.free = <<>> THEN [ref |-> top, free |-> g.free]
        ELSE [ref |-> g.free[Len(g.free)], free |-> g.free]

\* What the next object gets: a player always a fresh ref, anything else the
\* last of the free list that is still garbage.
NextRef(g, t) ==
    LET usable == {i \in DOMAIN g.free : ~Valid(g, g.free[i])}
        top == Cardinality(DOMAIN g.objs)
    IN  IF t = "player" THEN [ref |-> top, free |-> g.free]
        ELSE IF usable = {} THEN [ref |-> top, free |-> <<>>]
        ELSE LET i == CHOOSE i \in usable : \A j \in usable : j <= i
             IN  [ref |-> g.free[i], free |-> SubSeq(g.free, 1, i - 1)]

Create(g, t, owner) ==
    LET new == NextRef(g, t)
    IN  [g EXCEPT
            !.objs = [r \in DOMAIN g.objs \cup {new.ref} |->
                         IF r = new.ref THEN NewObject(t, owner) ELSE g.objs[r]],
            !.free = new.free,
            !.stranded = (@ \ {new.ref}) \cup Members(g, new.ref)]

\* Some live object names garbage.
Dangling(g) ==
    \E o \in DOMAIN g.objs :
        /\ Valid(g, o)
        /\ \E r \in {g.objs[o].loc, g.objs[o].owner, g.objs[o].link} \cup Elems(g.objs[o].dest) :
              Type(g, r) = "garbage"

Recycle(g, r) ==
    IF ~Valid(g, r) THEN g
    ELSE LET out == IF Loc(g, r) = Nothing THEN g ELSE RemoveFromChain(g, Loc(g, r), r)
         IN  [out EXCEPT
                 !.objs[r] = GarbageObject(g.objs[r].link),
                 !.free = Append(@, r),
                 !.stranded = (@ \ {r}) \cup (Members(g, r) \ {r})]

\* The free list as a load or a repair rebuilds it: garbage, in ref order.
RebuildRecyclable(g) ==
    [g EXCEPT !.free = InOrder(g, {r \in DOMAIN g.objs : Type(g, r) = "garbage"})]

-----------------------------------------------------------------------------
\* Environments: a vehicle's parent is its home, and things are looked through.

ParentLink(g, r) ==
    IF ~Exists(g, r) THEN Nothing
    ELSE IF Type(g, r) = "thing" /\ Has(g, r, "vehicle")
         THEN LET home == g.objs[r].link
              IN  IF Type(g, home) = "player" THEN g.objs[home].link ELSE home
         ELSE Loc(g, r)

\* The walk keeps a second pointer at twice the speed: when the two meet on
\* an object the parent is the global environment.
Parent(g, r) ==
    LET walk[at \in Int, mid \in Int, far \in Int] ==
            IF at \in {mid, far} /\ at # Nothing THEN Root
            ELSE IF Type(g, at) # "thing" THEN at
            ELSE walk[ParentLink(g, at), ParentLink(g, far),
                      ParentLink(g, ParentLink(g, far))]
        from(a, b) == walk[a, b, ParentLink(g, b)]
    IN  IF g.secure THEN Loc(g, r)
        ELSE from(ParentLink(g, r), ParentLink(g, ParentLink(g, r)))

\* Walk outward from dest by a step function until the top, an object met
\* before, or HOME.
LoopsBack(g, source, dest, Up(_, _)) ==
    LET walk[at \in Int, seen \in SUBSET Int] ==
            /\ at \notin {Nothing, Root}
            /\ at = Home \/ at \in seen \/ walk[Up(g, at), seen \cup {at}]
    IN  walk[Up(g, dest), {source, dest}]

LocationLoopCheck(g, source, dest) ==
    source = dest \/ LoopsBack(g, source, dest, Loc)

ClosesLoop(g, source, dest) ==
    LocationLoopCheck(g, source, dest) \/ LoopsBack(g, source, dest, Parent)

\* Whether putting source into dest would close a loop, by location or by
\* environment; HOME is resolved by what source is.
ParentLoopCheck(g, source, dest) ==
    LET home == CASE Type(g, source) \in {"player", "thing"} -> g.objs[source].link
                  [] Type(g, source) = "room"                -> Root
                  [] Type(g, source) = "program"             -> g.objs[source].owner
                  [] OTHER                                   -> source
    IN  ClosesLoop(g, source, IF dest = Home THEN home ELSE dest)

-----------------------------------------------------------------------------
\* Where a thing or player goes when its container goes away (toad.go).
SendHome(g, r) ==
    LET home == IF Type(g, r) \in {"thing", "player"} THEN g.objs[r].link ELSE Root
        bad(d) == ~Valid(g, d) \/ Encloses(g, r, d)
    IN  MoveTo(g, r, IF bad(home) THEN Root ELSE home)

\* A player becomes a thing of newOwner's.
Toad(g, victim, newOwner) ==
    IF Type(g, victim) # "player" THEN g
    ELSE [g EXCEPT !.objs[victim].type = "thing",
                   !.objs[victim].owner = newOwner,
                   !.objs[victim].flags = {},
                   !.objs[victim].link =
                       IF Exists(g, newOwner) THEN g.objs[newOwner].link ELSE @]

\* Whose authority an object acts with, and whether it reaches an object.
OwnerOf(g, r) == IF Type(g, r) = "player" THEN r
                 ELSE IF Exists(g, r) THEN g.objs[r].owner ELSE Nothing

IsWizard(g, r) == Has(g, r, "wizard") /\ ~Has(g, r, "quell")

Wizard(g, who) == IsWizard(g, OwnerOf(g, who))

Controls(g, who, target) ==
    /\ Exists(g, target)
    /\ Exists(g, OwnerOf(g, who))
    /\ \/ Wizard(g, who)
       \/ who = target
       \/ g.objs[target].owner = OwnerOf(g, who)
===============================================================================
