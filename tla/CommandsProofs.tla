---------------------------- MODULE CommandsProofs ----------------------------
(***************************************************************************)
(* What holds of the object graph whatever the commands, the edits, the    *)
(* restarts and the repairs: each is put together from a few operations,   *)
(* and what these keep, it keeps.                                          *)
(***************************************************************************)
EXTENDS Upkeep, ObjectsProofs

-----------------------------------------------------------------------------
\* What building, moving, recycling and relabelling keep.

\* One world is another but for owners, links, flags and players no more.
Relabelled(g, h) ==
    /\ h \in World
    /\ DOMAIN h.objs = DOMAIN g.objs
    /\ h.free = g.free /\ h.stranded = g.stranded /\ h.secure = g.secure
    /\ h.edits = g.edits /\ h.damaged = g.damaged
    /\ \A r \in DOMAIN g.objs :
          /\ h.objs[r].loc = g.objs[r].loc
          /\ h.objs[r].contents = g.objs[r].contents
          /\ h.objs[r].exits = g.objs[r].exits
          /\ h.objs[r].next = g.objs[r].next
          /\ h.objs[r].type = g.objs[r].type \/
                (g.objs[r].type = "player" /\ h.objs[r].type = "thing")

Alike(g, h) == \A x : Type(h, x) = Type(g, x)

\* What someone holds goes home as it does when they are toaded.
HoldingsGo(W) ==
    \A g, h \in W : Alike(g, h) =>
        \A r, dest : \A m \in Elems(Contents(g, r)) : MoveTo(h, m, dest) \in W

Closed(W) ==
    /\ MovesKeep(W)
    /\ HoldingsGo(W)
    /\ \A g \in W : FreeExact(g)
    /\ \A g \in W, t \in Live, owner \in Int : Create(g, t, owner) \in W
    /\ \A g \in W : \A r : r # Root => Recycle(g, r) \in W
    /\ \A g \in W : \A h : Relabelled(g, h) => h \in W

\* A world with some labels changed.
LEMMA Relabel ==
  ASSUME NEW W, Closed(W), NEW g \in W, NEW r \in DOMAIN g.objs, NEW o \in Object,
         o.loc = g.objs[r].loc, o.contents = g.objs[r].contents,
         o.exits = g.objs[r].exits, o.next = g.objs[r].next,
         o.type = g.objs[r].type \/ (g.objs[r].type = "player" /\ o.type = "thing")
  PROVE  [g EXCEPT !.objs[r] = o] \in W
<1>1. g \in World
  BY DEF Closed, MovesKeep
<1>2. [g EXCEPT !.objs[r] = o] \in World
  BY <1>1, Written
<1>3. Relabelled(g, [g EXCEPT !.objs[r] = o])
  BY <1>1, <1>2 DEF Relabelled, World
<1> QED BY <1>3 DEF Closed

\* An owner given to an object, whoever it was, is a label.
LEMMA SetOwner ==
  ASSUME NEW W, Closed(W), NEW g \in W, NEW r \in DOMAIN g.objs, NEW v \in Int
  PROVE  [g EXCEPT !.objs[r].owner = v] \in W
<1>1. g.objs[r] \in Object
  BY Typed DEF Closed, MovesKeep
<1> DEFINE o == [g.objs[r] EXCEPT !.owner = v]
<1>2. [g EXCEPT !.objs[r] = o] \in W
  <2>1. /\ o \in Object /\ o.type = g.objs[r].type /\ o.loc = g.objs[r].loc
        /\ o.contents = g.objs[r].contents /\ o.exits = g.objs[r].exits
        /\ o.next = g.objs[r].next
    BY <1>1 DEF Object
  <2> HIDE DEF o
  <2> QED BY <2>1, Relabel
<1> QED BY <1>2

\* So is a link.
LEMMA SetLink ==
  ASSUME NEW W, Closed(W), NEW g \in W, NEW r \in DOMAIN g.objs, NEW v \in Int
  PROVE  [g EXCEPT !.objs[r].link = v] \in W
<1>1. g.objs[r] \in Object
  BY Typed DEF Closed, MovesKeep
<1> DEFINE o == [g.objs[r] EXCEPT !.link = v]
<1>2. [g EXCEPT !.objs[r] = o] \in W
  <2>1. /\ o \in Object /\ o.type = g.objs[r].type /\ o.loc = g.objs[r].loc
        /\ o.contents = g.objs[r].contents /\ o.exits = g.objs[r].exits
        /\ o.next = g.objs[r].next
    BY <1>1 DEF Object
  <2> HIDE DEF o
  <2> QED BY <2>1, Relabel
<1> QED BY <1>2

\* So are an exit's destinations.
LEMMA SetDest ==
  ASSUME NEW W, Closed(W), NEW g \in W, NEW r \in DOMAIN g.objs, NEW v \in Seq(Int)
  PROVE  [g EXCEPT !.objs[r].dest = v] \in W
<1>1. g.objs[r] \in Object
  BY Typed DEF Closed, MovesKeep
<1> DEFINE o == [g.objs[r] EXCEPT !.dest = v]
<1>2. [g EXCEPT !.objs[r] = o] \in W
  <2>1. /\ o \in Object /\ o.type = g.objs[r].type /\ o.loc = g.objs[r].loc
        /\ o.contents = g.objs[r].contents /\ o.exits = g.objs[r].exits
        /\ o.next = g.objs[r].next
    BY <1>1 DEF Object
  <2> HIDE DEF o
  <2> QED BY <2>1, Relabel
<1> QED BY <1>2

\* So are flags.
LEMMA SetFlags ==
  ASSUME NEW W, Closed(W), NEW g \in W, NEW r \in DOMAIN g.objs, NEW v \in SUBSET FlagNames
  PROVE  [g EXCEPT !.objs[r].flags = v] \in W
<1>1. g.objs[r] \in Object
  BY Typed DEF Closed, MovesKeep
<1> DEFINE o == [g.objs[r] EXCEPT !.flags = v]
<1>2. [g EXCEPT !.objs[r] = o] \in W
  <2>1. /\ o \in Object /\ o.type = g.objs[r].type /\ o.loc = g.objs[r].loc
        /\ o.contents = g.objs[r].contents /\ o.exits = g.objs[r].exits
        /\ o.next = g.objs[r].next
    BY <1>1 DEF Object
  <2> HIDE DEF o
  <2> QED BY <2>1, Relabel
<1> QED BY <1>2

\* That something named an object when it was recycled is only noted.
LEMMA SetLoose ==
  ASSUME NEW W, Closed(W), NEW g \in W, NEW b \in BOOLEAN
  PROVE  [g EXCEPT !.loose = b] \in W
<1>1. g \in World
  BY DEF Closed, MovesKeep
<1>2. Relabelled(g, [g EXCEPT !.loose = b])
  BY <1>1 DEF Relabelled, World
<1> QED BY <1>2 DEF Closed

-----------------------------------------------------------------------------
\* The operations commands are made of.

\* What is kept is a world of objects, and the free list of it exact.
LEMMA Inside ==
  ASSUME NEW W, Closed(W), NEW g \in W
  PROVE  g \in World /\ FreeExact(g) /\ \A r \in DOMAIN g.objs : g.objs[r] \in Object /\ r \in Int
BY Typed DEF Closed, MovesKeep

\* Whoever goes home leaves what they hold on the way: each to its own home.
LEMMA EmptiedKeeps ==
  ASSUME NEW W, MovesKeep(W), NEW g \in W, NEW who
  PROVE  Emptied(g, who) \in W
<1> DEFINE s == Contents(g, who)
<1>1. Len(s) \in Nat
  <2>1. s \in Seq(Int)
    BY ContentsAreRefs DEF MovesKeep
  <2> QED BY <2>1
<1>2. \A h \in W, i \in 1 .. Len(s) : Moved(Home, h, s[i]) \in W
  BY MoveObjectKeeps DEF Moved
<1> HIDE DEF s
<1>3. Emptying!Over(Home, g, s) \in W
  BY <1>1, <1>2, Emptying!Keeps
<1> QED BY <1>3 DEF Emptied, s

\* What is built is there, and is moved to where it goes.
LEMMA BuiltKeeps ==
  ASSUME NEW W, Closed(W), NEW g \in W, NEW t \in Live, NEW owner \in Int,
         NEW parent, NEW link \in Int
  PROVE  LET h == Built(g, t, owner, parent, link)
             at == NextRef(g, t).ref
         IN  h \in W /\ at \in DOMAIN h.objs /\ Valid(h, at)
<1> DEFINE new == NextRef(g, t).ref
           c == Create(g, t, owner)
           made == [c EXCEPT !.objs[new].link = link]
<1>1. c \in W
  BY DEF Closed
<1>2. new \in DOMAIN c.objs /\ c.objs[new].type = t /\ c \in World
  <2>1. g \in World /\ FreeExact(g)
    BY Inside
  <2>2. DOMAIN c.objs = DOMAIN g.objs \cup {new} /\ c.objs[new] = NewObject(t, owner)
        /\ c \in World
    BY <2>1, CreatedFrame
  <2> HIDE DEF c, new
  <2> QED BY <2>2 DEF NewObject
<1> HIDE DEF c, new
<1>3. made \in W
  BY <1>1, <1>2, SetLink
<1>4. Valid(made, new) /\ new \in DOMAIN made.objs
  <2>1. DOMAIN made.objs = DOMAIN c.objs /\ made.objs[new].type = t
    BY <1>2, Inside, <1>1 DEF Object, World
  <2> QED BY <1>2, <2>1 DEF Valid, Exists, Live
<1> HIDE DEF made
<1>5. MoveTo(made, new, parent) \in W
  BY <1>3, <1>4 DEF Closed, MovesKeep
<1>6. /\ new \in DOMAIN (MoveTo(made, new, parent)).objs
      /\ Valid(MoveTo(made, new, parent), new)
  <2>1. Relisted(made, MoveTo(made, new, parent))
    BY <1>3, MovedFrame, Inside
  <2> QED BY <1>4, <2>1 DEF Relisted, Valid, Exists
<1>7. Built(g, t, owner, parent, link) = MoveTo(made, new, parent)
  BY DEF Built, made, c, new
<1> QED BY <1>5, <1>6, <1>7 DEF new

\* The destinations taken are destinations.
LEMMA TakenAreRefs ==
  ASSUME NEW g, NEW who, NEW exit, NEW args \in Seq(Int)
  PROVE  LinkExitDests(g, who, exit, args) \in Seq(Int)
<1> DEFINE c == [g |-> g, who |-> who, exit |-> exit]
<1>1. \A taken \in Seq(Int), d \in Int : Taken(c, taken, d) \in Seq(Int)
  BY DEF Taken
<1>2. \A taken \in Seq(Int), i \in 1 .. Len(args) : Taken(c, taken, args[i]) \in Seq(Int)
  <2> HIDE DEF c
  <2>1. \A i \in 1 .. Len(args) : args[i] \in Int
    OBVIOUS
  <2> QED BY <1>1, <2>1
<1>3. Len(args) \in Nat /\ <<>> \in Seq(Int)
  OBVIOUS
<1>4. Taking!Over(c, <<>>, args) \in Seq(Int)
  <2> HIDE DEF c
  <2> QED BY <1>2, <1>3, Taking!Keeps
<1> QED BY <1>4 DEF LinkExitDests

\* What is typed after @link is refs.
LEMMA DestinationsAreRefs ==
  ASSUME NEW g \in World
  PROVE  Destinations(g) \subseteq Seq(Int)
<1>1. \A d \in DOMAIN g.objs \cup {Home, Nil} : <<d>> \in Seq(Int)
  BY Typed DEF Home, Nil
<1> QED BY <1>1, CommandsAssumption DEF Destinations

\* Labels of an object may be set: whose it is, where it leads, its flags.
Relabels(W, r) ==
    \A g \in W : r \in DOMAIN g.objs =>
        /\ \A v \in Int : [g EXCEPT !.objs[r].owner = v] \in W
        /\ \A v \in Int : [g EXCEPT !.objs[r].link = v] \in W
        /\ \A v \in Seq(Int) : [g EXCEPT !.objs[r].dest = v] \in W
        /\ \A v \in SUBSET FlagNames : [g EXCEPT !.objs[r].flags = v] \in W

\* In what the operations keep, any object's may.
LEMMA ClosedRelabels ==
  ASSUME NEW W, Closed(W), NEW r
  PROVE  W \subseteq World /\ Relabels(W, r)
BY SetOwner, SetLink, SetDest, SetFlags DEF Relabels, Closed, MovesKeep

\* @link gives an exit its destinations and an owner, and anything else a link.
LEMMA LinkedKeeps ==
  ASSUME NEW W \in SUBSET World, NEW g \in W, NEW who, OwnerOf(g, who) \in Int,
         NEW what \in DOMAIN g.objs, Relabels(W, what), NEW args \in Seq(Int)
  PROVE  Linked(g, who, what, args) \in W
<1>0. \A h \in W : what \in DOMAIN h.objs =>
        /\ \A v \in Int : [h EXCEPT !.objs[what].owner = v] \in W
        /\ \A v \in Int : [h EXCEPT !.objs[what].link = v] \in W
        /\ \A v \in Seq(Int) : [h EXCEPT !.objs[what].dest = v] \in W
  BY DEF Relabels
<1>1. LinkExit(g, who, what, args) \in W
  <2> DEFINE held == [g EXCEPT !.objs[what].owner = OwnerOf(g, who)]
             dests == LinkExitDests(held, who, what, args)
  <2>1. held \in W
    BY <1>0
  <2>2. dests \in Seq(Int)
    BY TakenAreRefs
  <2>3. DOMAIN held.objs = DOMAIN g.objs
    BY DEF World
  <2> HIDE DEF held
  <2>4. [held EXCEPT !.objs[what].dest = dests] \in W
    BY <1>0, <2>1, <2>2, <2>3
  <2>5. LinkExit(g, who, what, args) \in {g, held, [held EXCEPT !.objs[what].dest = dests]}
    BY DEF LinkExit, held
  <2> QED BY <2>1, <2>4, <2>5
<1>2. ASSUME NEW dest \in Int PROVE LinkHome(g, who, what, dest) \in W
  BY <1>0 DEF LinkHome
<1>3. ASSUME NEW dest \in Int PROVE LinkDropto(g, who, what, dest) \in W
  BY <1>0 DEF LinkDropto
<1>4. CASE Len(args) = 1
  <2>1. args[1] \in Int
    <3>1. \A i \in 1 .. Len(args) : args[i] \in Int
      OBVIOUS
    <3> QED BY <1>4, <3>1
  <2> QED BY <1>1, <1>2, <1>3, <2>1 DEF Linked
<1>5. CASE Len(args) # 1
  BY <1>1, <1>5 DEF Linked
<1> QED BY <1>4, <1>5

\* @unlink takes them away.
LEMMA UnlinkedKeeps ==
  ASSUME NEW W \in SUBSET World, NEW g \in W, NEW what \in DOMAIN g.objs, Relabels(W, what)
  PROVE  Unlinked(g, what) \in W /\ DOMAIN (Unlinked(g, what)).objs = DOMAIN g.objs
<1>1. g.objs[what].owner \in Int
  BY Typed DEF Object
<1>2. <<>> \in Seq(Int) /\ Nothing \in Int /\ Root \in Int
  BY DEF Nothing, Root
<1>3. /\ [g EXCEPT !.objs[what].dest = <<>>] \in W
      /\ \A v \in Int : [g EXCEPT !.objs[what].link = v] \in W
  BY <1>2 DEF Relabels
<1>4. Unlinked(g, what) \in W
  BY <1>1, <1>2, <1>3 DEF Unlinked
<1>5. DOMAIN (Unlinked(g, what)).objs = DOMAIN g.objs
  BY DEF Unlinked, World
<1> QED BY <1>4, <1>5

\* Toading moves what was held, and relabels.
LEMMA ToadedKeeps ==
  ASSUME NEW W, Closed(W), NEW g \in W, NEW victim \in DOMAIN g.objs,
         NEW recipient \in Int, NEW by \in Int
  PROVE  Toaded(g, victim, recipient, by) \in W
<1> DEFINE s == Contents(g, victim)
           V == {h \in W : Alike(g, h)}
           emptied == SendingHome!Over(victim, g, s)
<1>1. s \in Seq(Int)
  BY ContentsAreRefs, Inside
<1>2. ASSUME NEW h \in V, NEW i \in 1 .. Len(s)
      PROVE  SentHome(victim, h, s[i]) \in V
  <2>1. s[i] \in Elems(s)
    BY <1>1 DEF Elems
  <2>2. \A dest : MoveTo(h, s[i], dest) \in W
    BY <2>1 DEF Closed, HoldingsGo
  <2>3. \A dest : Alike(g, MoveTo(h, s[i], dest))
    <3> TAKE dest
    <3>1. Relisted(h, MoveTo(h, s[i], dest))
      BY MovedFrame, Inside
    <3> QED BY <3>1 DEF Relisted, Alike, Type, Exists
  <2> HIDE DEF s
  <2> QED BY <2>2, <2>3 DEF SentHome, SendHome
<1>3. emptied \in V
  <2>1. Len(s) \in Nat /\ g \in V
    BY <1>1 DEF Alike
  <2> HIDE DEF s, V
  <2> QED BY <1>2, <2>1, SendingHome!Keeps
<1> DEFINE handed(o) ==
            [o EXCEPT
                !.owner = IF @ = victim /\ o.type \in {"program", "room", "thing", "exit"}
                          THEN recipient ELSE @,
                !.flags = IF /\ o.owner = victim /\ o.type = "program"
                             /\ Has(g, recipient, "wizard")
                          THEN (@ \ ({"abode", "wizard"} \cup Levels)) \cup {"m1"} ELSE @,
                !.link = IF o.type = "thing" /\ @ = victim THEN Root ELSE @]
           e == emptied
           objs == [r \in DOMAIN e.objs |-> handed(e.objs[r])]
           passed == [e EXCEPT !.objs = objs]
<1>4. Toaded(g, victim, recipient, by) = Toad(passed, victim, by)
  BY DEF Toaded
<1> HIDE DEF emptied
<1>e. e \in W /\ e \in World /\ \A r \in DOMAIN e.objs : e.objs[r] \in Object
  BY <1>3, Inside
<1>5. ASSUME NEW o \in Object
      PROVE  /\ handed(o) \in Object /\ handed(o).type = o.type /\ handed(o).loc = o.loc
             /\ handed(o).contents = o.contents /\ handed(o).exits = o.exits
             /\ handed(o).next = o.next
  <2>1. "m1" \in FlagNames
    BY DEF FlagNames
  <2>2. (o.flags \ ({"abode", "wizard"} \cup Levels)) \cup {"m1"} \in SUBSET FlagNames
    BY <2>1 DEF Object
  <2> DEFINE flags == handed(o).flags
             owner == handed(o).owner
             link == handed(o).link
  <2>3. /\ flags \in SUBSET FlagNames /\ owner \in Int /\ link \in Int
        /\ handed(o) = [o EXCEPT !.owner = owner, !.flags = flags, !.link = link]
    BY <2>2 DEF Object, Root
  <2> HIDE DEF handed, flags, owner, link
  <2> QED BY <2>3 DEF Object
<1>6. passed \in W
  <2>1. /\ DOMAIN objs = DOMAIN e.objs /\ \A r \in DOMAIN objs : objs[r] \in Object
        /\ objs = [r \in DOMAIN objs |-> objs[r]]
        /\ \A r \in DOMAIN e.objs :
              /\ objs[r].type = e.objs[r].type /\ objs[r].loc = e.objs[r].loc
              /\ objs[r].contents = e.objs[r].contents /\ objs[r].exits = e.objs[r].exits
              /\ objs[r].next = e.objs[r].next
    BY <1>e, <1>5, ZenonT(60)
  <2> HIDE DEF objs
  <2>2. passed \in World
    BY <1>e, <2>1, Replaced
  <2>3. Relabelled(e, passed)
    BY <1>e, <2>1, <2>2 DEF Relabelled, World
  <2> QED BY <1>e, <2>3, Zenon DEF Closed
<1> HIDE DEF passed
<1>7. CASE Type(passed, victim) = "player"
  <2>1. victim \in DOMAIN passed.objs /\ passed.objs[victim].type = "player"
    BY <1>7 DEF Type, Exists
  <2>2. passed.objs[victim] \in Object /\ passed \in World
    BY <1>6, <2>1, Inside
  <2> DEFINE link == IF Exists(passed, by) THEN passed.objs[by].link
                     ELSE passed.objs[victim].link
             o == [passed.objs[victim] EXCEPT !.type = "thing", !.owner = by,
                                              !.flags = {}, !.link = link]
  <2>3. link \in Int
    BY <1>6, <2>2, Inside DEF Exists, Object
  <2>4. Toad(passed, victim, by) = [passed EXCEPT !.objs[victim] = o]
    BY <1>7, <2>1, ZenonT(60) DEF Toad
  <2> HIDE DEF link
  <2>5. /\ o \in Object /\ o.type = "thing" /\ o.loc = passed.objs[victim].loc
        /\ o.contents = passed.objs[victim].contents
        /\ o.exits = passed.objs[victim].exits /\ o.next = passed.objs[victim].next
    <3>1. {} \in SUBSET FlagNames
      OBVIOUS
    <3> QED BY <2>2, <2>3, <3>1 DEF Object, Types
  <2> HIDE DEF o
  <2>6. [passed EXCEPT !.objs[victim] = o] \in W
    BY <1>6, <2>1, <2>5, Relabel
  <2> QED BY <1>4, <2>4, <2>6
<1>8. CASE Type(passed, victim) # "player"
  BY <1>4, <1>6, <1>8 DEF Toad
<1> QED BY <1>7, <1>8

-----------------------------------------------------------------------------
\* Every command is made of those operations.

\* What a command leaves is what its operations left, marked if it is loose.
LEMMA Done ==
  ASSUME NEW W, Closed(W), NEW who, NEW after \in W, Does(who, after)
  PROVE  world' \in W
<1>1. after.loose \/ Dangling(after) \in BOOLEAN
  <2>1. after.loose \in BOOLEAN
    BY Inside DEF World
  <2>2. Dangling(after) \in BOOLEAN
    BY DEF Dangling
  <2> QED BY <2>1, <2>2
<1> DEFINE b == after.loose \/ Dangling(after)
<1>2. world' = [after EXCEPT !.loose = b]
  BY DEF Does
<1> HIDE DEF b
<1> QED BY <1>1, <1>2, SetLoose DEF b

\* Whoever has a turn is there, and acts as themselves.
LEMMA Takes ==
  ASSUME NEW W, Closed(W), world \in W, NEW who, Turn(who)
  PROVE  /\ world \in World /\ who \in DOMAIN world.objs /\ who \in Int
         /\ Type(world, who) = "player" /\ OwnerOf(world, who) = who
         /\ \A x : Loc(world, x) \in Int
         /\ \A x \in DOMAIN world.objs : world.objs[x] \in Object /\ x \in Int
<1>1. world \in World /\ \A x \in DOMAIN world.objs : world.objs[x] \in Object /\ x \in Int
  BY Inside
<1>2. who \in DOMAIN world.objs /\ Type(world, who) = "player"
  BY DEF Turn, Type, Exists
<1>3. \A x : Loc(world, x) \in Int
  BY <1>1 DEF Loc, Exists, Object, Nothing
<1> QED BY <1>1, <1>2, <1>3 DEF OwnerOf

\* Building makes an object, labels it and puts it where it goes.
LEMMA BuildingKeeps ==
  ASSUME NEW W, Closed(W), world \in W, NEW who, Building(who)
  PROVE  world' \in W
<1> DEFINE g == world
<1>0. Turn(who)
  BY DEF Building, CmdCreate, CmdDig, CmdOpen, CmdAction, CmdAttach, CmdClone,
         CreateProgram, CmdPcreate
<1>t. /\ g \in World /\ who \in DOMAIN g.objs /\ who \in Int
      /\ Type(g, who) = "player" /\ OwnerOf(g, who) = who
      /\ \A x : Loc(g, x) \in Int
      /\ \A x \in DOMAIN g.objs : g.objs[x] \in Object /\ x \in Int
  BY <1>0, Takes
<1>l. {"thing", "room", "exit", "program", "player"} \subseteq Live
  BY DEF Live, Types
<1>n. Nothing \in Int /\ Root \in Int /\ {} \in SUBSET FlagNames
  BY DEF Nothing, Root
<1>m. \A h \in W : \A what, dest : Valid(h, what) => MoveTo(h, what, dest) \in W
  BY DEF Closed, MovesKeep
<1>b. ASSUME NEW t \in Live, NEW parent, NEW link \in Int
      PROVE  LET h == Built(g, t, who, parent, link)
                 at == NextRef(g, t).ref
             IN  h \in W /\ at \in DOMAIN h.objs /\ Valid(h, at)
  BY <1>t, BuiltKeeps
<1>1. CASE CmdCreate(who)
  <2>1. Built(g, "thing", who, who, Loc(g, who)) \in W
    BY <1>t, <1>l, <1>b
  <2> QED BY <1>1, <2>1, Done DEF CmdCreate
<1>2. CASE CmdDig(who)
  <2> DEFINE at == NextRef(g, "room").ref
             parent == DefaultRoomParent(g, who)
             dug == Built(g, "room", who, parent, Nothing)
  <2>1. dug \in W /\ Valid(dug, at)
    BY <1>l, <1>n, <1>b
  <2>2. \A asked : Rehung(dug, who, at, parent, asked) \in W
    <3> HIDE DEF dug, at, parent
    <3> QED BY <2>1, <1>m DEF Rehung
  <2>3. PICK asked : Does(who, Rehung(dug, who, at, parent, asked))
    BY <1>2 DEF CmdDig
  <2> HIDE DEF dug, at, parent
  <2> QED BY <2>2, <2>3, Done
<1>3. CASE CmdOpen(who)
  <2> DEFINE at == NextRef(g, "exit").ref
             here == Loc(g, who)
             made == Built(g, "exit", who, here, Nothing)
  <2>1. made \in W /\ at \in DOMAIN made.objs
    BY <1>l, <1>n, <1>b
  <2>2. PICK args \in {<<>>} \cup Destinations(g) : Does(who, Opened(made, who, at, here, args))
    BY <1>3 DEF CmdOpen
  <2> HIDE DEF made, at, here
  <2>3. args \in Seq(Int)
    <3>1. <<>> \in Seq(Int)
      OBVIOUS
    <3> QED BY <1>t, <2>2, <3>1, DestinationsAreRefs
  <2>4. LinkExitDests(made, who, at, args) \in Seq(Int)
    BY <2>3, TakenAreRefs
  <2>5. Opened(made, who, at, here, args) \in W
    BY <2>1, <2>4, SetDest DEF Opened
  <2> QED BY <2>2, <2>5, Done
<1>4. CASE CmdAction(who)
  <2>1. PICK source : Does(who, [Built(g, "exit", who, source, Nothing) EXCEPT
                           !.loose = @ \/ Type(g, source) = "garbage"])
    BY <1>4 DEF CmdAction
  <2> DEFINE made == Built(g, "exit", who, source, Nothing)
             b == made.loose \/ Type(g, source) = "garbage"
  <2>2. made \in W
    BY <1>l, <1>n, <1>b
  <2>3. made.loose \in BOOLEAN
    <3> HIDE DEF made
    <3> QED BY <2>2, Inside DEF World
  <2>4. Does(who, [made EXCEPT !.loose = b])
    BY <2>1
  <2> HIDE DEF made
  <2>5. b \in BOOLEAN
    BY <2>3
  <2> HIDE DEF b
  <2>6. [made EXCEPT !.loose = b] \in W
    BY <2>2, <2>5, SetLoose
  <2> QED BY <2>4, <2>6, Done
<1>5. CASE CmdAttach(who)
  <2>1. PICK exit, source : Type(g, exit) = "exit" /\ Does(who, MoveTo(g, exit, source))
    BY <1>5 DEF CmdAttach
  <2>2. Valid(g, exit)
    BY <2>1 DEF Valid, Type, Exists
  <2>3. MoveTo(g, exit, source) \in W
    BY <2>2, <1>m
  <2> QED BY <2>1, <2>3, Done
<1>6. CASE CmdClone(who)
  <2> DEFINE at == NextRef(g, "thing").ref
             made == Built(g, "thing", who, who, Loc(g, who))
  <2>1. PICK thing \in DOMAIN g.objs :
            Does(who, [made EXCEPT !.objs[at].flags = g.objs[thing].flags])
    BY <1>6 DEF CmdClone
  <2>2. made \in W /\ at \in DOMAIN made.objs
    BY <1>l, <1>t, <1>b
  <2>3. g.objs[thing].flags \in SUBSET FlagNames
    BY <1>t DEF Object
  <2> HIDE DEF made, at
  <2>4. [made EXCEPT !.objs[at].flags = g.objs[thing].flags] \in W
    BY <2>2, <2>3, SetFlags
  <2> QED BY <2>1, <2>4, Done
<1>7. CASE CreateProgram(who)
  <2>1. Built(g, "program", who, who, Nothing) \in W
    BY <1>n, <1>l, <1>b
  <2> QED BY <1>7, <2>1, Done DEF CreateProgram
<1>8. CASE CmdPcreate(who)
  <2> DEFINE at == NextRef(g, "player").ref
             made == Create(g, "player", Nothing)
             owned == [made EXCEPT !.objs[at].owner = at]
             homed == [owned EXCEPT !.objs[at].link = Root]
  <2>1. made \in W
    BY <1>l, <1>n DEF Closed
  <2>2. at \in Int /\ at \in DOMAIN made.objs /\ made.objs[at].type = "player"
    <3>1. g \in World /\ FreeExact(g)
      BY Inside
    <3>2. at \in Nat /\ DOMAIN made.objs = DOMAIN g.objs \cup {at}
          /\ made.objs[at] = NewObject("player", Nothing)
      <4>1. "player" \in Live /\ Nothing \in Int
        BY <1>l, <1>n
      <4> QED BY <3>1, <4>1, CreatedFrame, ZenonT(60)
    <3> HIDE DEF made, at
    <3> QED BY <3>2 DEF NewObject
  <2> HIDE DEF made, at
  <2>3. owned \in W
    BY <2>1, <2>2, SetOwner
  <2>4. made \in World /\ \A x \in DOMAIN made.objs : made.objs[x] \in Object
    BY <2>1, Inside
  <2>5. DOMAIN owned.objs = DOMAIN made.objs /\ owned.objs[at].type = "player"
    BY <2>2, <2>4 DEF World, Object
  <2> HIDE DEF owned
  <2>6. homed \in W
    BY <1>n, <2>2, <2>3, <2>5, SetLink
  <2>7. owned \in World /\ owned.objs[at] \in Object
    BY <2>2, <2>3, <2>5, Inside
  <2>8. DOMAIN homed.objs = DOMAIN made.objs /\ homed.objs[at].type = "player"
    BY <2>2, <2>5, <2>7 DEF World, Object
  <2>9. [made EXCEPT !.objs[at].owner = at, !.objs[at].link = Root] = homed
    BY DEF owned
  <2> HIDE DEF homed
  <2>10. MoveTo(homed, at, Root) \in W
    BY <1>m, <2>2, <2>6, <2>8 DEF Valid, Exists
  <2>11. Does(who, MoveTo(homed, at, Root))
    BY <1>8, <2>9 DEF CmdPcreate, made, at
  <2> QED BY <2>10, <2>11, Done
<1> QED BY <1>1, <1>2, <1>3, <1>4, <1>5, <1>6, <1>7, <1>8 DEF Building

\* Who acts for an object of a world is a ref.
LEMMA OwnersAreRefs ==
  ASSUME NEW g \in World, NEW who \in Int
  PROVE  OwnerOf(g, who) \in Int
BY Typed DEF OwnerOf, Exists, Object, Nothing

\* Linking, chowning, flags, recycling and toading.
LEMMA ChangingKeeps ==
  ASSUME NEW W, Closed(W), world \in W, NEW who, Changing(who)
  PROVE  world' \in W
<1> DEFINE g == world
<1>0. Turn(who)
  BY DEF Changing, CmdLink, CmdUnlink, CmdRelink, CmdChown, CmdSet, CmdRecycle, CmdToad
<1>t. /\ g \in World /\ who \in DOMAIN g.objs /\ who \in Int
      /\ Type(g, who) = "player" /\ OwnerOf(g, who) = who
      /\ \A x \in DOMAIN g.objs : g.objs[x] \in Object /\ x \in Int
  BY <1>0, Takes
<1>p. Players(g) \subseteq DOMAIN g.objs
  BY DEF Players
<1>1. CASE CmdLink(who)
  <2>1. PICK what \in DOMAIN g.objs, args \in Destinations(g) :
            Does(who, Linked(g, who, what, args))
    BY <1>1 DEF CmdLink
  <2>2. args \in Seq(Int)
    BY <1>t, DestinationsAreRefs
  <2>3. Linked(g, who, what, args) \in W
    BY <1>t, <2>2, LinkedKeeps, ClosedRelabels
  <2> QED BY <2>1, <2>3, Done
<1>2. CASE CmdUnlink(who)
  <2>1. PICK what \in DOMAIN g.objs : Does(who, Unlinked(g, what))
    BY <1>2 DEF CmdUnlink
  <2>2. Unlinked(g, what) \in W
    BY UnlinkedKeeps, ClosedRelabels
  <2> QED BY <2>1, <2>2, Done
<1>3. CASE CmdRelink(who)
  <2>1. PICK what \in DOMAIN g.objs, args \in Destinations(g) :
            Does(who, Linked(Unlinked(g, what), who, what, args))
    BY <1>3 DEF CmdRelink
  <2>2. args \in Seq(Int)
    BY <1>t, DestinationsAreRefs
  <2> DEFINE h == Unlinked(g, what)
  <2>3. h \in W /\ DOMAIN h.objs = DOMAIN g.objs
    BY UnlinkedKeeps, ClosedRelabels
  <2> HIDE DEF h
  <2>5. OwnerOf(h, who) \in Int
    BY <1>t, <2>3, OwnersAreRefs, Inside
  <2>6. Linked(h, who, what, args) \in W
    BY <2>2, <2>3, <2>5, LinkedKeeps, ClosedRelabels
  <2> QED BY <2>1, <2>6, Done DEF h
<1>4. CASE CmdChown(who)
  <2>1. PICK what \in DOMAIN g.objs, to \in Players(g) :
            Does(who, [g EXCEPT !.objs[what].owner = to])
    BY <1>4 DEF CmdChown
  <2>2. [g EXCEPT !.objs[what].owner = to] \in W
    BY <1>t, <1>p, SetOwner
  <2> QED BY <2>1, <2>2, Done
<1>5. CASE CmdSet(who)
  <2> DEFINE left(what, f) == g.objs[what].flags \ (IF f \in Levels THEN Levels ELSE {})
  <2>1. PICK what \in DOMAIN g.objs, f \in Flags, on \in BOOLEAN :
            Does(who, [g EXCEPT !.objs[what].flags =
                          IF on THEN left(what, f) \cup {f} ELSE left(what, f) \ {f}])
    BY <1>5 DEF CmdSet
  <2> DEFINE v == IF on THEN left(what, f) \cup {f} ELSE left(what, f) \ {f}
  <2>2. v \in SUBSET FlagNames
    <3>1. g.objs[what].flags \in SUBSET FlagNames /\ f \in FlagNames
      BY <1>t, CommandsAssumption DEF Object
    <3> QED BY <3>1
  <2>3. Does(who, [g EXCEPT !.objs[what].flags = v])
    BY <2>1
  <2> HIDE DEF v, left
  <2>4. [g EXCEPT !.objs[what].flags = v] \in W
    BY <2>2, SetFlags
  <2> QED BY <2>3, <2>4, Done
<1>6. CASE CmdRecycle(who)
  <2>1. PICK what : what # Root /\ Does(who, Recycle(g, what))
    BY <1>6 DEF CmdRecycle, Tuned
  <2>2. Recycle(g, what) \in W
    BY <2>1 DEF Closed
  <2> QED BY <2>1, <2>2, Done
<1>7. CASE CmdToad(who)
  <2>1. PICK victim \in Players(g), recipient \in Players(g), recycle \in BOOLEAN :
            /\ victim # Root
            /\ Does(who, Recycled(Toaded(g, victim, recipient, who), victim, recycle))
    BY <1>7 DEF CmdToad, Tuned
  <2>2. Toaded(g, victim, recipient, who) \in W
    BY <1>t, <1>p, ToadedKeeps
  <2>3. Recycled(Toaded(g, victim, recipient, who), victim, recycle) \in W
    BY <2>1, <2>2 DEF Closed, Recycled
  <2> QED BY <2>1, <2>3, Done
<1> QED BY <1>1, <1>2, <1>3, <1>4, <1>5, <1>6, <1>7 DEF Changing

\* Moving about is moves, and sweeps of what is left behind.
LEMMA MovingKeeps ==
  ASSUME NEW W, MovesKeep(W), \A after \in W : \A by : Does(by, after) => world' \in W,
         world \in W, NEW who, Moving(who)
  PROVE  world' \in W
<1> DEFINE g == world
<1>d. \A after \in W : Does(who, after) => world' \in W
  OBVIOUS
<1>t. \A h \in W : \A what, dest, enters : Travel(h, what, dest, enters) \in W
  BY TravelKeeps
<1>1. CASE CmdGet(who)
  <2>1. PICK what : Does(who, MoveThing(g, what, who))
    BY <1>1 DEF CmdGet
  <2> QED BY <1>t, <2>1, <1>d DEF MoveThing
<1>2. CASE CmdDrop(who)
  <2>1. \E what, to : Does(who, MoveThing(g, what, to))
    BY <1>2 DEF CmdDrop
  <2>2. PICK what, to : Does(who, MoveThing(g, what, to))
    BY <2>1
  <2> QED BY <1>t, <2>2, <1>d DEF MoveThing
<1>3. CASE GoHome(who)
  <2>1. Emptied(g, who) \in W
    BY EmptiedKeeps
  <2>2. EnterRoom(Emptied(g, who), who, Home) \in W
    BY <1>t, <2>1 DEF EnterRoom
  <2> QED BY <1>3, <2>2, <1>d DEF GoHome
<1>4. CASE CmdLeave(who)
  <2>1. PICK outside : Does(who, EnterRoom(g, who, outside))
    BY <1>4 DEF CmdLeave
  <2> QED BY <1>t, <2>1, <1>d DEF EnterRoom
<1>5. CASE UseExit(who)
  <2>1. PICK exit \in DOMAIN g.objs : Does(who, Trigger(g, who, exit))
    BY <1>5 DEF UseExit
  <2>2. Trigger(g, who, exit) \in W
    BY TriggerKeeps
  <2> QED BY <2>1, <2>2, <1>d
<1>6. CASE CmdTeleport(who)
  <2>1. \E victim, to, enters : Does(who, Travel(g, victim, to, enters))
    BY <1>6 DEF CmdTeleport
  <2>2. PICK victim, to, enters : Does(who, Travel(g, victim, to, enters))
    BY <2>1
  <2> QED BY <1>t, <2>2, <1>d
<1> QED BY <1>1, <1>2, <1>3, <1>4, <1>5, <1>6 DEF Moving

\* The primitives of programs: moving, copying, destroying and linking.
LEMMA ProgramsKeep ==
  ASSUME NEW W, Closed(W), world \in W, NEW who, Programs(who)
  PROVE  world' \in W
<1> DEFINE g == world
<1>0. Turn(who)
  BY DEF Programs, PrimMoveTo, PrimNew, PrimCopyObj, PrimCopyPlayer, PrimRecycle,
         PrimSetLink, PrimSetLinksArray, PrimSetOwn
<1>t. /\ g \in World /\ who \in DOMAIN g.objs /\ who \in Int
      /\ Type(g, who) = "player" /\ OwnerOf(g, who) = who
      /\ \A x \in DOMAIN g.objs : g.objs[x] \in Object /\ x \in Int
  BY <1>0, Takes
<1>y. \A x : Type(g, x) \in Types \cup {"none"}
  BY <1>t DEF Type, Exists, Object
<1>p. Players(g) \subseteq DOMAIN g.objs
  BY DEF Players
<1>l. {"thing", "room", "exit", "program", "player"} \subseteq Live
  BY DEF Live, Types
<1>n. Nothing \in Int /\ Root \in Int
  BY DEF Nothing, Root
<1>m. MovesKeep(W) /\ \A h \in W : \A what, dest : Valid(h, what) => MoveTo(h, what, dest) \in W
  BY DEF Closed, MovesKeep
<1>b. ASSUME NEW t \in Live, NEW parent, NEW link \in Int
      PROVE  LET h == Built(g, t, who, parent, link)
                 at == NextRef(g, t).ref
             IN  h \in W /\ at \in DOMAIN h.objs /\ Valid(h, at)
  BY <1>t, BuiltKeeps
<1>1. CASE PrimMoveTo(who)
  <2>1. \E victim, dest, entering, d :
           /\ Valid(g, victim)
           /\ Does(who, IF entering THEN EnterRoom(g, victim, dest)
                        ELSE [MoveTo(g, victim, dest) EXCEPT !.loose = @ \/ d = "program"])
    BY <1>1 DEF PrimMoveTo
  <2>2. PICK victim, dest, entering, d :
           /\ Valid(g, victim)
           /\ Does(who, IF entering THEN EnterRoom(g, victim, dest)
                        ELSE [MoveTo(g, victim, dest) EXCEPT !.loose = @ \/ d = "program"])
    BY <2>1
  <2>3. EnterRoom(g, victim, dest) \in W
    BY <1>m, TravelKeeps DEF EnterRoom
  <2> DEFINE h == MoveTo(g, victim, dest)
             b == h.loose \/ d = "program"
  <2>4. h \in W
    BY <1>m, <2>2
  <2>5. h.loose \in BOOLEAN
    <3> HIDE DEF h
    <3> QED BY <2>4, Inside DEF World
  <2>6. Does(who, IF entering THEN EnterRoom(g, victim, dest) ELSE [h EXCEPT !.loose = b])
    BY <2>2
  <2> HIDE DEF h
  <2>7. b \in BOOLEAN
    BY <2>5
  <2> HIDE DEF b
  <2>8. [h EXCEPT !.loose = b] \in W
    BY <2>4, <2>7, SetLoose
  <2> QED BY <2>3, <2>6, <2>8, Done
<1>2. CASE PrimNew(who)
  <2>1. PICK t \in {"thing", "room", "exit"}, parent \in DOMAIN g.objs :
          Does(who, [Built(g, t, who, parent, IF t = "thing" THEN parent ELSE Nothing)
                        EXCEPT !.loose = @ \/ Type(g, parent) \in {"exit", "program"}])
    BY <1>2 DEF PrimNew
  <2> DEFINE h == Built(g, t, who, parent, IF t = "thing" THEN parent ELSE Nothing)
             b == h.loose \/ Type(g, parent) \in {"exit", "program"}
  <2>2. h \in W
    BY <1>b, <1>l, <1>n, <1>t
  <2>3. h.loose \in BOOLEAN
    <3> HIDE DEF h
    <3> QED BY <2>2, Inside DEF World
  <2>4. Does(who, [h EXCEPT !.loose = b])
    BY <2>1
  <2> HIDE DEF h
  <2>5. b \in BOOLEAN
    BY <2>3
  <2> HIDE DEF b
  <2>6. [h EXCEPT !.loose = b] \in W
    BY <2>2, <2>5, SetLoose
  <2> QED BY <2>4, <2>6, Done
<1>3. CASE PrimCopyObj(who)
  <2> DEFINE at == NextRef(g, "thing").ref
             made == Built(g, "thing", who, who, who)
  <2>1. PICK src \in DOMAIN g.objs :
            Does(who, [made EXCEPT !.objs[at].flags = g.objs[src].flags])
    BY <1>3 DEF PrimCopyObj
  <2>2. made \in W /\ at \in DOMAIN made.objs
    BY <1>l, <1>t, <1>b
  <2>3. g.objs[src].flags \in SUBSET FlagNames
    BY <1>t DEF Object
  <2> HIDE DEF made, at
  <2>4. [made EXCEPT !.objs[at].flags = g.objs[src].flags] \in W
    BY <2>2, <2>3, SetFlags
  <2> QED BY <2>1, <2>4, Done
<1>4. CASE PrimCopyPlayer(who)
  <2> DEFINE at == NextRef(g, "player").ref
             new == Create(g, "player", at)
             made == MoveTo(new, at, Root)
  <2>1. PICK src \in Players(g) :
            Does(who, MoveTo([made EXCEPT !.objs[at].flags = g.objs[src].flags,
                                          !.objs[at].link = g.objs[src].link],
                             at, g.objs[src].link))
    BY <1>4 DEF PrimCopyPlayer
  <2> DEFINE flags == g.objs[src].flags
             home == g.objs[src].link
             flagged == [made EXCEPT !.objs[at].flags = flags]
             linked == [flagged EXCEPT !.objs[at].link = home]
  <2>2. flags \in SUBSET FlagNames /\ home \in Int
    BY <1>t, <1>p DEF Object
  <2>3. at \in Int /\ at \in DOMAIN new.objs /\ Valid(new, at) /\ new \in W
    <3>1. g \in World /\ FreeExact(g)
      BY Inside
    <3>p. "player" \in Live
      BY <1>l
    <3>f. ASSUME NEW owner \in Int
          PROVE  /\ NextRef(g, "player").ref \in Nat
                 /\ DOMAIN (Create(g, "player", owner)).objs
                       = DOMAIN g.objs \cup {NextRef(g, "player").ref}
                 /\ (Create(g, "player", owner)).objs[NextRef(g, "player").ref]
                       = NewObject("player", owner)
      BY <3>1, <3>p, CreatedFrame
    <3>2. at \in Int
      BY <1>n, <3>f
    <3>3. DOMAIN new.objs = DOMAIN g.objs \cup {at} /\ new.objs[at] = NewObject("player", at)
      BY <3>2, <3>f
    <3>4. new \in W
      BY <1>l, <3>2 DEF Closed
    <3> HIDE DEF new, at
    <3> QED BY <3>2, <3>3, <3>4 DEF NewObject, Valid, Exists
  <2> HIDE DEF at, new
  <2>4. made \in W /\ at \in DOMAIN made.objs /\ Valid(made, at)
    <3>1. made \in W
      BY <1>m, <2>3
    <3>2. Relisted(new, made)
      BY <2>3, MovedFrame, Inside
    <3> HIDE DEF made
    <3> QED BY <2>3, <3>1, <3>2 DEF Relisted, Valid, Exists
  <2> HIDE DEF made, flags, home
  <2>5. flagged \in W
    BY <2>2, <2>4, SetFlags
  <2>6. DOMAIN flagged.objs = DOMAIN made.objs /\ Valid(flagged, at)
    BY <2>4, Inside DEF World, Object, Valid, Exists
  <2> HIDE DEF flagged
  <2>7. linked \in W
    BY <2>2, <2>4, <2>5, <2>6, SetLink
  <2>8. Valid(linked, at)
    BY <2>4, <2>5, <2>6, Inside DEF World, Object, Valid, Exists
  <2>9. [made EXCEPT !.objs[at].flags = flags, !.objs[at].link = home] = linked
    BY DEF flagged
  <2> HIDE DEF linked
  <2>10. MoveTo(linked, at, home) \in W
    BY <1>m, <2>7, <2>8
  <2>11. Does(who, MoveTo(linked, at, home))
    BY <2>1, <2>9 DEF flags, home
  <2> QED BY <2>10, <2>11, Done
<1>5. CASE PrimRecycle(who)
  <2>1. PICK what : what # Root /\ Does(who, Recycle(g, what))
    BY <1>5 DEF PrimRecycle, Tuned
  <2>2. Recycle(g, what) \in W
    BY <2>1 DEF Closed
  <2> QED BY <2>1, <2>2, Done
<1>6. CASE PrimSetLink(who)
  <2>1. PICK what \in DOMAIN g.objs, dest \in DOMAIN g.objs, t \in Types \cup {"none"} :
            Does(who, IF t = "exit" THEN [g EXCEPT !.objs[what].dest = <<dest>>]
                      ELSE [g EXCEPT !.objs[what].link = dest])
    BY <1>6, <1>y DEF PrimSetLink
  <2>2. <<dest>> \in Seq(Int) /\ dest \in Int
    BY <1>t
  <2>3. /\ [g EXCEPT !.objs[what].dest = <<dest>>] \in W
        /\ [g EXCEPT !.objs[what].link = dest] \in W
    BY <2>2, SetDest, SetLink
  <2> QED BY <2>1, <2>3, Done
<1>7. CASE PrimSetLinksArray(who)
  <2>1. PICK what \in DOMAIN g.objs, dests \in {<<>>} \cup Destinations(g),
             t \in Types \cup {"none"} :
            Does(who, IF t = "exit" THEN [g EXCEPT !.objs[what].dest = dests]
                      ELSE [g EXCEPT !.objs[what].link =
                               IF dests = <<>> THEN Nothing ELSE dests[1]])
    BY <1>7, <1>y DEF PrimSetLinksArray
  <2> DEFINE first == IF dests = <<>> THEN Nothing ELSE dests[1]
  <2>2. dests \in Seq(Int)
    <3>1. <<>> \in Seq(Int)
      OBVIOUS
    <3> QED BY <1>t, <3>1, DestinationsAreRefs
  <2>3. first \in Int
    BY <1>n, <2>2
  <2>4. Does(who, IF t = "exit" THEN [g EXCEPT !.objs[what].dest = dests]
                  ELSE [g EXCEPT !.objs[what].link = first])
    BY <2>1
  <2> HIDE DEF first
  <2>5. /\ [g EXCEPT !.objs[what].dest = dests] \in W
        /\ [g EXCEPT !.objs[what].link = first] \in W
    BY <2>2, <2>3, SetDest, SetLink
  <2> QED BY <2>4, <2>5, Done
<1>8. CASE PrimSetOwn(who)
  <2>1. PICK what \in DOMAIN g.objs, to \in Players(g) :
            Does(who, [g EXCEPT !.objs[what].owner = to])
    BY <1>8 DEF PrimSetOwn
  <2>2. [g EXCEPT !.objs[what].owner = to] \in W
    BY <1>t, <1>p, SetOwner
  <2> QED BY <2>1, <2>2, Done
<1> QED BY <1>1, <1>2, <1>3, <1>4, <1>5, <1>6, <1>7, <1>8, ZenonT(60) DEF Programs

\* Whatever the operations on the object graph keep, every command keeps.
THEOREM CommandsKeep ==
  ASSUME NEW W, Closed(W), world \in W, Next
  PROVE  world' \in W
<1>1. PICK who \in Actors : Building(who) \/ Changing(who) \/ Moving(who) \/ Programs(who)
  BY DEF Next
<1>2. MovesKeep(W) /\ \A after \in W : \A by : Does(by, after) => world' \in W
  BY Done DEF Closed
<1> QED BY <1>1, <1>2, BuildingKeeps, ChangingKeeps, MovingKeeps, ProgramsKeep

-----------------------------------------------------------------------------
\* The free list, under commands, edits, repairs and restarts.

FreeWorlds == {g \in World : FreeExact(g)}

\* Those edited by hand, and those not.
Marked(hand) == {g \in FreeWorlds : g.damaged = hand}

\* What garbage there is decides: a command's operations keep it exact.
LEMMA FreeClosed ==
  ASSUME NEW hand
  PROVE  Closed(Marked(hand))
<1>1. \A g \in Marked(hand) : \A what, dest : MoveTo(g, what, dest) \in Marked(hand)
  <2> TAKE g \in Marked(hand)
  <2> TAKE what, dest
  <2> DEFINE h == MoveTo(g, what, dest)
  <2>1. g \in World /\ FreeExact(g) /\ Relisted(g, h)
    BY MovedFrame DEF Marked, FreeWorlds
  <2> HIDE DEF h
  <2>2. h \in World /\ DOMAIN h.objs = DOMAIN g.objs /\ h.free = g.free
        /\ h.damaged = hand
    BY <2>1 DEF Relisted, Marked
  <2>3. \A r \in DOMAIN g.objs : Type(h, r) = Type(g, r)
    BY <2>1 DEF Relisted, Type, Exists
  <2>4. FreeExact(h)
    BY <2>1, <2>2, <2>3, FreeKept
  <2> QED BY <2>2, <2>4 DEF Marked, FreeWorlds, h
<1>2. \A g \in Marked(hand), t \in Live, owner \in Int : Create(g, t, owner) \in Marked(hand)
  BY CreatedFrame DEF Marked, FreeWorlds
<1>3. \A g \in Marked(hand) : \A r : Recycle(g, r) \in Marked(hand)
  <2> TAKE g \in Marked(hand)
  <2> TAKE r
  <2>1. CASE Valid(g, r)
    BY <2>1, RecycledFrame DEF Marked, FreeWorlds
  <2>2. CASE ~Valid(g, r)
    BY <2>2 DEF Recycle
  <2> QED BY <2>1, <2>2
<1>4. \A g \in Marked(hand) : \A h : Relabelled(g, h) => h \in Marked(hand)
  <2> TAKE g \in Marked(hand)
  <2> TAKE h
  <2> SUFFICES ASSUME Relabelled(g, h) PROVE h \in Marked(hand)
    OBVIOUS
  <2>1. h \in World /\ DOMAIN h.objs = DOMAIN g.objs /\ h.free = g.free
        /\ g \in World /\ FreeExact(g) /\ h.damaged = hand
    BY DEF Relabelled, Marked, FreeWorlds
  <2>2. \A r \in DOMAIN g.objs : Type(h, r) = "garbage" <=> Type(g, r) = "garbage"
    BY <2>1 DEF Relabelled, Type, Exists
  <2>3. FreeExact(h)
    BY <2>1, <2>2, FreeKept
  <2> QED BY <2>1, <2>3 DEF Marked, FreeWorlds
<1> QED BY <1>1, <1>2, <1>3, <1>4 DEF Closed, MovesKeep, HoldingsGo, Marked, FreeWorlds

RefFields == {"loc", "owner", "next", "exits", "contents", "link"}

\* A ref edited, in an object or in none, makes no garbage and ends none.
LEMMA Edited ==
  ASSUME NEW hand, NEW g \in Marked(hand), NEW r, NEW f \in RefFields, NEW v \in Int
  PROVE  LET h == [g EXCEPT !.objs[r][f] = v]
         IN  /\ h \in Marked(hand) /\ DOMAIN h.objs = DOMAIN g.objs
             /\ \A x \in DOMAIN g.objs :
                   /\ h.objs[x].type = g.objs[x].type
                   /\ h.objs[x].loc = IF x = r /\ f = "loc" THEN v ELSE g.objs[x].loc
<1>0. g \in World /\ FreeExact(g)
  BY DEF Marked, FreeWorlds
<1>1. CASE r \in DOMAIN g.objs
  <2> DEFINE o == [g.objs[r] EXCEPT ![f] = v]
             h == [g EXCEPT !.objs[r] = o]
  <2>1. g.objs[r] \in Object
    BY <1>0, <1>1, Typed
  <2>2. /\ o \in Object /\ o.type = g.objs[r].type
        /\ o.loc = IF f = "loc" THEN v ELSE g.objs[r].loc
    <3>1. CASE f = "loc"
      BY <2>1, <3>1 DEF Object
    <3>2. CASE f = "owner"
      BY <2>1, <3>2 DEF Object
    <3>3. CASE f = "next"
      BY <2>1, <3>3 DEF Object
    <3>4. CASE f = "exits"
      BY <2>1, <3>4 DEF Object
    <3>5. CASE f = "contents"
      BY <2>1, <3>5 DEF Object
    <3>6. CASE f = "link"
      BY <2>1, <3>6 DEF Object
    <3> QED BY <3>1, <3>2, <3>3, <3>4, <3>5, <3>6 DEF RefFields
  <2>3. [g EXCEPT !.objs[r][f] = v] = h
    OBVIOUS
  <2> HIDE DEF o
  <2>4. h \in World
    BY <1>0, <2>2, Written
  <2>5. h.free = g.free /\ h.objs = [g.objs EXCEPT ![r] = o] /\ h.damaged = hand
    BY <1>0 DEF World, Marked
  <2> HIDE DEF h
  <2>6. /\ DOMAIN h.objs = DOMAIN g.objs
        /\ \A x \in DOMAIN g.objs :
              /\ Type(h, x) = Type(g, x) /\ h.objs[x].type = g.objs[x].type
              /\ h.objs[x].loc = IF x = r /\ f = "loc" THEN v ELSE g.objs[x].loc
    BY <1>1, <2>2, <2>5 DEF Type, Exists
  <2>7. FreeExact(h)
    BY <1>0, <2>4, <2>5, <2>6, FreeKept
  <2>8. h \in Marked(hand)
    BY <2>4, <2>5, <2>7 DEF Marked, FreeWorlds
  <2> QED BY <2>3, <2>6, <2>8
<1>2. CASE r \notin DOMAIN g.objs
  <2>1. [g EXCEPT !.objs[r][f] = v] = g
    <3>1. [g.objs EXCEPT ![r][f] = v] = g.objs
      <4>1. g.objs = [x \in DOMAIN g.objs |-> g.objs[x]]
        BY <1>0, Tops
      <4> QED BY <1>2, <4>1
    <3> QED BY <1>0, <3>1 DEF World
  <2> QED BY <1>2, <2>1
<1> QED BY <1>1, <1>2

\* And destinations are no garbage's.
LEMMA Redirected ==
  ASSUME NEW hand, NEW g \in Marked(hand), NEW r \in DOMAIN g.objs, NEW v \in Seq(Int)
  PROVE  LET h == [g EXCEPT !.objs[r].dest = v]
         IN  /\ h \in Marked(hand) /\ DOMAIN h.objs = DOMAIN g.objs
             /\ \A x \in DOMAIN g.objs :
                   h.objs[x].type = g.objs[x].type /\ h.objs[x].loc = g.objs[x].loc
<1>1. [g EXCEPT !.objs[r].dest = v] \in Marked(hand)
  BY FreeClosed, SetDest
<1> DEFINE o == [g.objs[r] EXCEPT !.dest = v]
           h == [g EXCEPT !.objs[r] = o]
<1>2. g.objs[r] \in Object /\ g \in World
  BY Typed DEF Marked, FreeWorlds
<1>3. o.type = g.objs[r].type /\ o.loc = g.objs[r].loc
  BY <1>2 DEF Object
<1> HIDE DEF o
<1>4. h.objs = [g.objs EXCEPT ![r] = o]
  BY <1>2 DEF World
<1> HIDE DEF h
<1> QED BY <1>1, <1>3, <1>4 DEF h, o

\* The worlds that stay among themselves whatever ref is edited, whatever is
\* made and whichever links are mended, and @sanfix at work on one of them.
Editable(hand, V) ==
    /\ V \subseteq Marked(hand)
    /\ \A g \in V, t \in Live, owner \in Int : Create(g, t, owner) \in V
    /\ \A g \in V, f \in RefFields, v \in Int : \A r : [g EXCEPT !.objs[r][f] = v] \in V
    /\ \A g \in V : \A r : FixLinks(g, r) \in V

FixesOf(V) == [g : V, room : Int, player : Int]

\* The lost-and-found is two objects more.
LEMMA LostAndFound ==
  ASSUME NEW hand, NEW V, Editable(hand, V), NEW s \in FixesOf(V)
  PROVE  WithLostAndFound(s) \in FixesOf(V)
<1> DEFINE g1 == Create(s.g, "room", Nothing)
           room == NextRef(s.g, "room").ref
           player == NextRef(g1, "player").ref
           h == Create(g1, "player", player)
<1>n. Nothing \in Int /\ Root \in Int /\ "room" \in Live /\ "player" \in Live
  BY DEF Nothing, Root, Live, Types
<1>1. CASE s.room # Nothing
  BY <1>1 DEF WithLostAndFound
<1>2. CASE s.room = Nothing
  <2>0. \A g \in V : g \in World /\ FreeExact(g)
    BY DEF Editable, Marked, FreeWorlds
  <2>1. s.g \in World /\ FreeExact(s.g) /\ s.g \in V
    BY <2>0 DEF FixesOf
  <2>2. g1 \in V /\ g1 \in World /\ FreeExact(g1)
    BY <2>0, <2>1, <1>n DEF Editable
  <2>3. room \in Int
    <3> DEFINE c == Create(s.g, "room", Nothing)
    <3>1. NextRef(s.g, "room").ref \in Nat
      BY <2>1, <1>n, CreatedFrame
    <3> QED BY <3>1
  <2> HIDE DEF g1
  <2>4. player \in Int
    <3>1. NextRef(g1, "player").ref \in Nat
      BY <2>2, <1>n, CreatedFrame
    <3> QED BY <3>1
  <2> HIDE DEF player, room
  <2>5. h \in V
    BY <2>2, <2>4, <1>n DEF Editable
  <2> HIDE DEF h
  <2> DEFINE a == [h EXCEPT !.objs[room].loc = Root]
             b == [a EXCEPT !.objs[room].owner = player]
             c == [b EXCEPT !.objs[player].loc = room]
             d == [c EXCEPT !.objs[player].link = room]
  <2>6. a \in V
    BY <2>5, <1>n DEF Editable, RefFields
  <2> HIDE DEF a
  <2>7. b \in V
    BY <2>4, <2>6 DEF Editable, RefFields
  <2> HIDE DEF b
  <2>8. c \in V
    BY <2>3, <2>7 DEF Editable, RefFields
  <2> HIDE DEF c
  <2>9. d \in V
    BY <2>3, <2>8 DEF Editable, RefFields
  <2>10. [h EXCEPT !.objs[room].loc = Root, !.objs[room].owner = player,
                   !.objs[player].loc = room, !.objs[player].link = room] = d
    BY DEF a, b, c
  <2> HIDE DEF d
  <2>11. WithLostAndFound(s) = [s EXCEPT !.room = room, !.player = player, !.g = d]
    BY <1>2, <2>10 DEF WithLostAndFound, MakeLostAndFound, g1, room, player, h
  <2> QED BY <2>3, <2>4, <2>9, <2>11 DEF FixesOf
<1> QED BY <1>1, <1>2

\* Fixing an object gives it an owner, a place and links that work.
LEMMA FixObjectKeeps ==
  ASSUME NEW hand, NEW V, Editable(hand, V), NEW old, NEW s \in FixesOf(V), NEW r
  PROVE  FixObject(old, s, r) \in FixesOf(V)
<1>n. Nothing \in Int /\ Root \in Int
  BY DEF Nothing, Root
<1>e. ASSUME NEW t \in FixesOf(V), NEW f \in RefFields, NEW v \in Int
      PROVE  [t EXCEPT !.g.objs[r][f] = v] \in FixesOf(V)
  <2>1. [t.g EXCEPT !.objs[r][f] = v] \in V
    BY DEF FixesOf, Editable
  <2> DEFINE h == [t.g EXCEPT !.objs[r][f] = v]
  <2>2. [t EXCEPT !.g.objs[r][f] = v] = [t EXCEPT !.g = h]
    OBVIOUS
  <2> HIDE DEF h
  <2> QED BY <2>1, <2>2 DEF FixesOf, h
<1>1. ASSUME NEW t \in FixesOf(V) PROVE FixOwner(t, r) \in FixesOf(V)
  <2>1. WithLostAndFound(t) \in FixesOf(V)
    BY LostAndFound
  <2>2. ASSUME NEW x \in FixesOf(V) PROVE Own(x, r) \in FixesOf(V)
    <3>1. x.player \in Int
      BY DEF FixesOf
    <3> QED BY <1>e, <3>1 DEF Own, RefFields
  <2> QED BY <2>1, <2>2 DEF FixOwner
<1>2. ASSUME NEW t \in FixesOf(V) PROVE FixLocation(t, r) \in FixesOf(V)
  <2>1. WithLostAndFound(t) \in FixesOf(V)
    BY LostAndFound
  <2>2. ASSUME NEW x \in FixesOf(V) PROVE Hold(x, r) \in FixesOf(V)
    <3>1. x.room \in Int
      BY DEF FixesOf
    <3> QED BY <1>e, <3>1 DEF Hold, RefFields
  <2>3. [t EXCEPT !.g.objs[r].loc = Root] \in FixesOf(V)
    BY <1>e, <1>n DEF RefFields
  <2> QED BY <2>1, <2>2, <2>3 DEF FixLocation
<1>4. ASSUME NEW t \in FixesOf(V) PROVE [t EXCEPT !.g = FixLinks(@, r)] \in FixesOf(V)
  <2>1. t.g \in V
    BY DEF FixesOf
  <2>2. FixLinks(t.g, r) \in V
    BY <2>1 DEF Editable
  <2> QED BY <2>2 DEF FixesOf
<1>5. [s EXCEPT !.g.objs[r].owner = Nothing, !.g.objs[r].loc = Nothing] \in FixesOf(V)
  <2> DEFINE t == [s EXCEPT !.g.objs[r].owner = Nothing]
  <2>1. t \in FixesOf(V)
    BY <1>e, <1>n DEF RefFields
  <2> HIDE DEF t
  <2>2. [t EXCEPT !.g.objs[r].loc = Nothing] \in FixesOf(V)
    BY <1>e, <1>n, <2>1 DEF RefFields
  <2> QED BY <2>2 DEF t
<1>6. FixLocation(FixOwner(s, r), r) \in FixesOf(V)
  BY <1>1, <1>2
<1> DEFINE t == IF Type(s.g, r) = "garbage"
                THEN [s EXCEPT !.g.objs[r].owner = Nothing, !.g.objs[r].loc = Nothing]
                ELSE FixLocation(FixOwner(s, r), r)
<1>7. t \in FixesOf(V)
  BY <1>5, <1>6
<1>8. FixObject(old, s, r) = [t EXCEPT !.g = FixLinks(@, r)]
  BY DEF FixObject
<1> HIDE DEF t
<1> QED BY <1>4, <1>7, <1>8

\* Links that do not work are mended, and nothing else changes.
LEMMA RelinkedKeeps ==
  ASSUME NEW hand, NEW g \in Marked(hand), NEW r
  PROVE  LET h == FixLinks(g, r)
         IN  /\ h \in Marked(hand) /\ DOMAIN h.objs = DOMAIN g.objs
             /\ \A x \in DOMAIN g.objs :
                   h.objs[x].type = g.objs[x].type /\ h.objs[x].loc = g.objs[x].loc
<1> DEFINE Mended(h) ==
              /\ h \in Marked(hand) /\ DOMAIN h.objs = DOMAIN g.objs
              /\ \A x \in DOMAIN g.objs :
                    h.objs[x].type = g.objs[x].type /\ h.objs[x].loc = g.objs[x].loc
<1>0. Mended(g)
  OBVIOUS
<1>n. Nothing \in Int /\ Root \in Int
  BY DEF Nothing, Root
<1>1. /\ Mended([g EXCEPT !.objs[r].link = Nothing])
      /\ Mended([g EXCEPT !.objs[r].link = Root])
  BY <1>n, Edited, SMTT(40) DEF RefFields
<1>2. CASE r \in DOMAIN g.objs
  <2>1. g.objs[r] \in Object
    BY <1>2, Typed DEF Marked, FreeWorlds
  <2>2. Mended([g EXCEPT !.objs[r].link = g.objs[r].owner])
    <3>1. g.objs[r].owner \in Int
      BY <2>1 DEF Object
    <3> QED BY <3>1, Edited DEF RefFields
  <2> DEFINE d == g.objs[r].dest
             S == {x \in Elems(d) : Valid(g, x) \/ x \in {Home, Nil}}
             taken == Picking!Over(S, <<>>, d)
  <2>3. taken \in Seq(Int)
    <3>1. d \in Seq(Int) /\ Len(d) \in Nat /\ <<>> \in Seq(Int)
      BY <2>1 DEF Object
    <3>2. \A i \in 1 .. Len(d) : d[i] \in Int
      BY <3>1
    <3>3. \A s1 \in Seq(Int), i \in 1 .. Len(d) : Picked(S, s1, d[i]) \in Seq(Int)
      BY <3>2 DEF Picked
    <3> HIDE DEF d, S
    <3> QED BY <3>1, <3>3, Picking!Keeps
  <2>4. Mended([g EXCEPT !.objs[r].dest = taken])
    <3> HIDE DEF taken
    <3> QED BY <1>2, <2>3, Redirected
  <2> HIDE DEF Mended
  <2>5. Mended(FixLinks(g, r))
    BY <1>0, <1>1, <2>2, <2>4 DEF FixLinks
  <2> QED BY <2>5 DEF Mended
<1>3. CASE r \notin DOMAIN g.objs
  <2>1. \A o : [g EXCEPT !.objs[r] = o] = g
    <3>1. g.objs = [x \in DOMAIN g.objs |-> g.objs[x]] /\ g \in World
      BY Tops DEF Marked, FreeWorlds
    <3>2. \A o : [g.objs EXCEPT ![r] = o] = g.objs
      BY <1>3, <3>1
    <3> QED BY <3>1, <3>2 DEF World
  <2> QED BY <1>0, <2>1 DEF FixLinks
<1> QED BY <1>2, <1>3

\* The objects have their turns, and then those made on the way.
LEMMA FixAllKeeps ==
  ASSUME NEW hand, NEW V, Editable(hand, V), NEW g \in V
  PROVE  FixAll([g |-> g, room |-> Nothing, player |-> Nothing], g) \in FixesOf(V)
<1> DEFINE s == [g |-> g, room |-> Nothing, player |-> Nothing]
           all == FixAll(s, g)
<1>0. \A x \in V : x \in World
  BY DEF Editable, Marked, FreeWorlds
<1>1. s \in FixesOf(V)
  <2>1. Nothing \in Int
    BY DEF Nothing
  <2> QED BY <2>1 DEF FixesOf
<1>2. ASSUME NEW t \in FixesOf(V), NEW old \in World, NEW h \in World,
             NEW S \in SUBSET (DOMAIN h.objs)
      PROVE  Fixing!Over(old, t, InOrder(h, S)) \in FixesOf(V)
  <2> DEFINE list == InOrder(h, S)
  <2>1. Len(list) \in Nat
    <3>1. list \in Seq(S)
      BY InOrderIs
    <3> QED BY <3>1
  <2> HIDE DEF list
  <2>2. \A x \in FixesOf(V), i \in 1 .. Len(list) : FixObject(old, x, list[i]) \in FixesOf(V)
    BY FixObjectKeeps
  <2>3. Fixing!Over(old, t, list) \in FixesOf(V)
    BY <2>1, <2>2, Fixing!Keeps
  <2> QED BY <2>3 DEF list
<1> HIDE DEF s
<1> DEFINE t == Fixing!Over(g, s, InOrder(g, DOMAIN g.objs))
           late == DOMAIN t.g.objs \ DOMAIN g.objs
<1>3. t \in FixesOf(V)
  BY <1>0, <1>1, <1>2
<1> HIDE DEF t
<1>4. t.g \in World
  BY <1>0, <1>3 DEF FixesOf
<1>5. Fixing!Over(g, t, InOrder(t.g, late)) \in FixesOf(V)
  BY <1>0, <1>2, <1>3, <1>4
<1> QED BY <1>5 DEF FixAll, s, t

\* Any world will do.
FixStates(hand) == FixesOf(Marked(hand))

LEMMA AnyEditable ==
  ASSUME NEW hand
  PROVE  Editable(hand, Marked(hand))
BY FreeClosed, Edited, RelinkedKeeps DEF Editable, Closed

\* Loaded, a world's free list is exact, whatever was saved.
LEMMA LoadedKeeps ==
  ASSUME NEW g \in World
  PROVE  Load(g) \in Marked(g.damaged)
<1> DEFINE h == RepairChains(g)
           k == RebuildRecyclable(h)
<1>1. h \in World /\ h.damaged = g.damaged
  BY Repaired DEF Relisted
<1> HIDE DEF h
<1>2. k \in World /\ FreeExact(k) /\ k = [h EXCEPT !.free = k.free]
  BY <1>1, Rebuilt
<1> HIDE DEF k
<1>3. k.damaged = g.damaged
  BY <1>1, <1>2 DEF World
<1> QED BY <1>2, <1>3 DEF Load, Marked, FreeWorlds, k, h

\* Whatever @sanfix makes of a world, its free list is exact too.
LEMMA FixedKeeps ==
  ASSUME NEW hand, NEW g \in Marked(hand)
  PROVE  Fix(g) \in Marked(hand)
<1> DEFINE all == FixAll([g |-> g, room |-> Nothing, player |-> Nothing], g)
<1>n. Nothing \in Int
  BY DEF Nothing
<1>4. all \in FixStates(hand)
  BY AnyEditable, FixAllKeeps DEF FixStates, FixesOf
<1> HIDE DEF all
<1> DEFINE a == [all.g EXCEPT !.objs[Root].next = Nothing]
           b == [a EXCEPT !.objs[Root].loc = Nothing]
<1>5. a \in Marked(hand)
  BY <1>4, <1>n, Edited DEF FixStates, FixesOf, RefFields
<1> HIDE DEF a
<1>6. b \in Marked(hand)
  BY <1>5, <1>n, Edited DEF RefFields
<1>7. Fix(g) = RebuildRecyclable(RepairChains(b))
  BY DEF Fix, b, a, all
<1> HIDE DEF b
<1>8. Load(b) \in Marked(b.damaged)
  BY <1>6, LoadedKeeps DEF Marked, FreeWorlds
<1> QED BY <1>6, <1>7, <1>8 DEF Load, Marked

\* No command, edit, repair or restart, however many of them follow, hands a
\* ref out twice or loses one.
FreeStart == world \in FreeWorlds

\* One step of the upkeep leaves the free list exact.
LEMMA UpkeepStep ==
  ASSUME FreeStart, [Upkeep]_vars
  PROVE  FreeStart'
<1>0. world \in World /\ FreeExact(world)
  BY DEF FreeStart, FreeWorlds
<1>1. CASE Next
  <2>1. world \in Marked(world.damaged)
    BY DEF FreeStart, Marked
  <2>2. world' \in Marked(world.damaged)
    BY <1>1, <2>1, FreeClosed, CommandsKeep
  <2> QED BY <2>2 DEF Marked, FreeStart
<1>2. CASE CmdSanchange
  <2>0. PICK r \in DOMAIN world.objs, value \in EditValues,
             f \in {"loc", "owner", "next", "exits", "contents", "link"} :
           /\ world.edits > 0
           /\ Valid(world, r)
           /\ f = "link" => Type(world, r) \in {"player", "thing"}
           /\ world' = [world EXCEPT !.objs[r][f] = value, !.edits = @ - 1, !.damaged = TRUE]
           /\ actor' = God
           /\ UNCHANGED ops
    BY <1>2, Zenon DEF CmdSanchange
  <2>1. f \in RefFields
    BY DEF RefFields
  <2>2. value \in Int
    BY UpkeepAssumption
  <2> DEFINE h == [world EXCEPT !.objs[r][f] = value]
  <2>3. h \in FreeWorlds
    <3>1. world \in Marked(world.damaged)
      BY DEF FreeStart, Marked
    <3>2. h \in Marked(world.damaged)
      BY <2>1, <2>2, <3>1, Edited
    <3> QED BY <3>2 DEF Marked
  <2>4. world' = [h EXCEPT !.edits = @ - 1, !.damaged = TRUE]
    BY <1>0, <2>0 DEF World
  <2> HIDE DEF h
  <2>5. h \in World /\ FreeExact(h)
    BY <2>3 DEF FreeWorlds
  <2> DEFINE n == h.edits - 1
             w == [[h EXCEPT !.edits = n] EXCEPT !.damaged = TRUE]
  <2>n. n \in Int
    BY <2>5 DEF World
  <2> HIDE DEF n
  <2>w. w \in World /\ w.objs = h.objs /\ w.free = h.free
    BY <2>5, <2>n DEF World
  <2>6. /\ world' \in World /\ world'.objs = h.objs /\ world'.free = h.free
    BY <2>4, <2>w DEF n
  <2>7. FreeExact(world')
    BY <2>5, <2>6 DEF FreeExact, Type, Exists
  <2> QED BY <2>6, <2>7 DEF FreeStart, FreeWorlds
<1>3. CASE CmdSanfix
  <2>1. world \in Marked(world.damaged)
    BY DEF FreeStart, Marked
  <2>2. Fix(world) \in Marked(world.damaged)
    BY <2>1, FixedKeeps
  <2>3. world' \in Marked(world.damaged)
    BY <1>3, <2>2, FreeClosed, Done DEF CmdSanfix
  <2> QED BY <2>3 DEF Marked, FreeStart
<1>4. CASE Restart
  <2>1. Load(world) \in Marked(world.damaged)
    BY <1>0, LoadedKeeps
  <2>2. world' \in Marked(world.damaged)
    BY <1>4, <2>1, FreeClosed, Done DEF Restart
  <2> QED BY <2>2 DEF Marked, FreeStart
<1>5. CASE UNCHANGED vars
  BY <1>5 DEF FreeStart, vars
<1> QED BY <1>1, <1>2, <1>3, <1>4, <1>5 DEF Upkeep

\* No ref is handed out twice and none is lost, whatever world there was at
\* first, whoever gives the commands, edits fields by hand, repairs or restarts
\* (world.go:224, 247, 306).
THEOREM FreeList == FreeStart /\ [][Upkeep]_vars => []FreeListExact
<1>1. FreeStart => FreeListExact
  BY DEF FreeStart, FreeWorlds, FreeExact, FreeListExact
<1> QED BY <1>1, UpkeepStep, PTL

\* Whatever was saved, the lists of the world that is loaded agree with what
\* its objects say of where they are (repair.go:18).
THEOREM LoadIsWhole ==
  ASSUME NEW g \in World
  PROVE  Whole(Load(g))
<1> DEFINE h == RepairChains(g)
           k == RebuildRecyclable(h)
<1>1. /\ h \in World /\ DOMAIN h.objs = DOMAIN g.objs /\ h.stranded = {}
      /\ \A r \in DOMAIN g.objs : h.objs[r].loc = g.objs[r].loc /\ h.objs[r].type = g.objs[r].type
      /\ \A r \in DOMAIN g.objs, list \in {"contents", "exits"} : Holds(g, h, r, list)
  BY Repaired DEF Relisted
<1> HIDE DEF h
<1>2. k \in World /\ k.objs = h.objs /\ k.stranded = {}
  <2>1. k \in World /\ k = [h EXCEPT !.free = k.free]
    BY <1>1, Rebuilt
  <2> HIDE DEF k
  <2> QED BY <1>1, <2>1 DEF World
<1>3. Load(g) = k
  BY DEF Load, h
<1> HIDE DEF k
<1>4. ASSUME NEW r \in DOMAIN k.objs, NEW list \in {"contents", "exits"}
      PROVE  LET chain == Chain(k, k.objs[r][list])
             IN  /\ Elems(chain) = Wanted(k, r, list) \ k.stranded
                 /\ Len(chain) = Cardinality(Elems(chain))
  <2>1. PICK s : Thread(h, h.objs[r][list], s) /\ Elems(s) = Wanted(g, r, list)
    BY <1>1, <1>2 DEF Holds
  <2>2. Thread(k, k.objs[r][list], s)
    BY <1>2, <2>1 DEF Thread
  <2>3. Chain(k, k.objs[r][list]) = s
    BY <1>2, <2>2, ThreadIsChain
  <2>4. Wanted(k, r, list) = Wanted(g, r, list)
    BY <1>1, <1>2 DEF Wanted, Loc, Type, Exists
  <2>5. Len(s) = Cardinality(Elems(s))
    BY <2>1, DistinctCounts DEF Thread
  <2> QED BY <1>2, <2>1, <2>3, <2>4, <2>5
<1> QED BY <1>3, <1>4 DEF Whole

\* At any time, then, a restart would find the lists whole.
THEOREM Reloads == FreeStart /\ [][Upkeep]_vars => []ReloadWhole
<1>1. FreeStart => ReloadWhole
  BY LoadIsWhole DEF FreeStart, FreeWorlds, ReloadWhole
<1> QED BY <1>1, UpkeepStep, PTL

-----------------------------------------------------------------------------
\* The lists and the walks, of worlds nobody has edited by hand.

SoundWorlds == {g \in Marked(FALSE) : Sound(g)}

\* New labels leave everybody where they are, and on the same lists.
LEMMA RelabelledSound ==
  ASSUME NEW g, Sound(g), NEW h, Relabelled(g, h)
  PROVE  Sound(h)
<1>1. /\ g \in World /\ Placed(g) /\ NoRing(g)
      /\ \A r \in DOMAIN g.objs, list \in Lists : Listed(g, r, list)
  BY DEF Sound
<1>2. /\ h \in World /\ DOMAIN h.objs = DOMAIN g.objs /\ h.stranded = g.stranded
      /\ \A r \in DOMAIN g.objs :
            /\ h.objs[r].loc = g.objs[r].loc /\ h.objs[r].next = g.objs[r].next
            /\ \A list \in Lists : h.objs[r][list] = g.objs[r][list]
            /\ h.objs[r].type = g.objs[r].type \/
                  (g.objs[r].type = "player" /\ h.objs[r].type = "thing")
  BY DEF Relabelled, Lists
<1>3. ASSUME NEW r \in DOMAIN g.objs, NEW list \in Lists PROVE Listed(h, r, list)
  <2>1. PICK s : Thread(g, g.objs[r][list], s) /\ Elems(s) = Awaited(g, r, list)
    BY <1>1 DEF Listed
  <2>2. Awaited(h, r, list) = Awaited(g, r, list)
    BY <1>2 DEF Awaited, Wanted, Loc, Type, Exists
  <2>3. \A m \in Elems(s) : h.objs[m].next = g.objs[m].next
    BY <1>2, <2>1 DEF Awaited, Wanted
  <2>4. /\ Elems(s) = Awaited(h, r, list)
        /\ DOMAIN g.objs \subseteq DOMAIN h.objs
        /\ h.objs[r][list] = g.objs[r][list]
    BY <1>2, <2>1, <2>2
  <2> QED BY <2>1, <2>3, <2>4, StaysListed
<1>4. NoRing(h)
  BY <1>1, <1>2 DEF NoRing
<1>5. Placed(h)
  BY <1>1, <1>2 DEF Placed, Type, Exists
<1> QED BY <1>2, <1>3, <1>4, <1>5 DEF Sound

\* Every command keeps them: what it is made of does.
LEMMA SoundClosed == Closed(SoundWorlds)
<1>1. ASSUME NEW g \in SoundWorlds, NEW what, NEW dest, Valid(g, what)
      PROVE  MoveTo(g, what, dest) \in SoundWorlds
  <2>1. MoveTo(g, what, dest) \in Marked(FALSE)
    BY <1>1, FreeClosed DEF SoundWorlds, Closed, MovesKeep
  <2> QED BY <1>1, <2>1, MovedSound DEF SoundWorlds
<1>2. ASSUME NEW g \in SoundWorlds, NEW h \in SoundWorlds, Alike(g, h),
             NEW r, NEW dest, NEW m \in Elems(Contents(g, r))
      PROVE  MoveTo(h, m, dest) \in SoundWorlds
  <2>1. r \in DOMAIN g.objs
    <3>1. r \notin DOMAIN g.objs => Elems(Contents(g, r)) = {}
      BY DEF Contents, Exists, Elems
    <3> QED BY <1>2, <3>1
  <2>2. Sound(g) /\ g \in World /\ Placed(g)
    BY DEF SoundWorlds, Sound
  <2>3. m \in DOMAIN g.objs /\ g.objs[m].loc = r
    <3>1. m \in Members(g, r)
      BY <1>2 DEF Members
    <3> QED BY <2>1, <2>2, <3>1, MembersAre
  <2>4. g.objs[m].type # "garbage" /\ g.objs[m] \in Object
    BY <2>1, <2>2, <2>3, Typed DEF Placed
  <2>5. Type(h, m) = g.objs[m].type /\ g.objs[m].type # "none"
    BY <1>2, <2>3, <2>4 DEF Alike, Type, Exists, Object, Types
  <2>6. Valid(h, m)
    BY <2>4, <2>5 DEF Valid, Type, Exists
  <2> QED BY <1>1, <2>6
<1>3. ASSUME NEW g \in SoundWorlds PROVE FreeExact(g) /\ g \in World /\ Sound(g)
  BY DEF SoundWorlds, Marked, FreeWorlds
<1>4. ASSUME NEW g \in SoundWorlds, NEW t \in Live, NEW owner \in Int
      PROVE  Create(g, t, owner) \in SoundWorlds
  <2>1. Create(g, t, owner) \in Marked(FALSE)
    BY FreeClosed DEF SoundWorlds, Closed
  <2> QED BY <1>3, <2>1, CreatedSound DEF SoundWorlds
<1>5. ASSUME NEW g \in SoundWorlds, NEW r, r # Root PROVE Recycle(g, r) \in SoundWorlds
  <2>1. Recycle(g, r) \in Marked(FALSE)
    BY <1>5, FreeClosed DEF SoundWorlds, Closed
  <2> QED BY <1>3, <1>5, <2>1, RecycledSound DEF SoundWorlds
<1>6. ASSUME NEW g \in SoundWorlds, NEW h, Relabelled(g, h) PROVE h \in SoundWorlds
  <2>1. h \in Marked(FALSE)
    BY <1>6, FreeClosed DEF SoundWorlds, Closed
  <2> QED BY <1>3, <1>6, <2>1, RelabelledSound DEF SoundWorlds
<1> QED BY <1>1, <1>2, <1>3, <1>4, <1>5, <1>6 DEF Closed, MovesKeep, HoldingsGo

\* A load threads the lists anew, where everybody says they are.
LEMMA LoadedSound ==
  ASSUME NEW g \in World, Placed(g), NoRing(g)
  PROVE  Sound(Load(g))
<1> DEFINE h == RepairChains(g)
           k == RebuildRecyclable(h)
<1>1. /\ h \in World /\ DOMAIN h.objs = DOMAIN g.objs /\ h.stranded = {}
      /\ \A r \in DOMAIN g.objs : h.objs[r].loc = g.objs[r].loc /\ h.objs[r].type = g.objs[r].type
      /\ \A r \in DOMAIN g.objs, list \in Lists : Holds(g, h, r, list)
  BY Repaired DEF Relisted, Lists
<1> HIDE DEF h
<1>2. k \in World /\ k.objs = h.objs /\ k.stranded = {}
  <2>1. k \in World /\ k = [h EXCEPT !.free = k.free]
    BY <1>1, Rebuilt
  <2> HIDE DEF k
  <2> QED BY <1>1, <2>1 DEF World
<1>3. Load(g) = k
  BY DEF Load, h
<1> HIDE DEF k
<1>4. ASSUME NEW r \in DOMAIN k.objs, NEW list \in Lists PROVE Listed(k, r, list)
  <2>1. PICK s : Thread(h, h.objs[r][list], s) /\ Elems(s) = Wanted(g, r, list)
    BY <1>1, <1>2 DEF Holds
  <2>2. Thread(k, k.objs[r][list], s)
    BY <1>2, <2>1 DEF Thread
  <2>3. Awaited(k, r, list) = Wanted(g, r, list)
    BY <1>1, <1>2 DEF Awaited, Wanted, Loc, Type, Exists
  <2> QED BY <2>1, <2>2, <2>3 DEF Listed
<1>5. NoRing(k)
  BY <1>1, <1>2 DEF NoRing
<1>6. Placed(k)
  BY <1>1, <1>2 DEF Placed, Type, Exists
<1> QED BY <1>2, <1>3, <1>4, <1>5, <1>6 DEF Sound

-----------------------------------------------------------------------------
\* While @sanfix is at it only the root may be on a ring: it is moved to no
\* place at the end.
Grounded(g) ==
    /\ Placed(g)
    /\ \A S \in SUBSET (DOMAIN g.objs \ {Root}) :
          S # {} => \E r \in S : g.objs[r].loc \notin S

SoundFixes(hand, D) ==
    {s \in FixStates(hand) :
        /\ D \subseteq DOMAIN s.g.objs
        /\ Grounded(s.g)
        /\ s.room # Nothing =>
              /\ s.room \in DOMAIN s.g.objs \ {Root}
              /\ s.g.objs[s.room].type = "room" /\ s.g.objs[s.room].loc = Root}

\* Labels and links make no difference.
LEMMA LabelsFixed ==
  ASSUME NEW hand, NEW D, NEW s \in SoundFixes(hand, D), NEW h \in Marked(hand),
         DOMAIN h.objs = DOMAIN s.g.objs,
         \A x \in DOMAIN h.objs :
            h.objs[x].type = s.g.objs[x].type /\ h.objs[x].loc = s.g.objs[x].loc
  PROVE  [s EXCEPT !.g = h] \in SoundFixes(hand, D)
<1>1. s \in FixStates(hand) /\ D \subseteq DOMAIN h.objs /\ Grounded(s.g)
  BY DEF SoundFixes
<1>2. /\ [s EXCEPT !.g = h] \in FixStates(hand)
      /\ [s EXCEPT !.g = h].g = h /\ [s EXCEPT !.g = h].room = s.room
  BY <1>1 DEF FixStates, FixesOf
<1>3. Grounded(h)
  BY <1>1 DEF Grounded, Placed, Type, Exists
<1> HIDE DEF Grounded
<1>4. s.room # Nothing =>
         /\ s.room \in DOMAIN h.objs \ {Root}
         /\ h.objs[s.room].type = "room" /\ h.objs[s.room].loc = Root
  BY DEF SoundFixes
<1> DEFINE t == [s EXCEPT !.g = h]
<1> HIDE DEF t
<1> SUFFICES t \in SoundFixes(hand, D)
  BY DEF t
<1>5. t \in FixStates(hand) /\ t.g = h /\ t.room = s.room
  BY <1>2 DEF t
<1> QED BY <1>1, <1>3, <1>4, <1>5 DEF SoundFixes

Put(g, r, v) == [g EXCEPT !.objs[r].loc = v]

\* A location edited is a location, and nothing else.
LEMMA Relocated ==
  ASSUME NEW hand, NEW g \in Marked(hand), NEW r, NEW v \in Int
  PROVE  LET h == Put(g, r, v)
         IN  /\ h \in Marked(hand) /\ DOMAIN h.objs = DOMAIN g.objs
             /\ \A x \in DOMAIN g.objs :
                   /\ h.objs[x].type = g.objs[x].type
                   /\ h.objs[x].loc = IF x = r THEN v ELSE g.objs[x].loc
<1> DEFINE Moved1(h) ==
              /\ h \in Marked(hand) /\ DOMAIN h.objs = DOMAIN g.objs
              /\ \A x \in DOMAIN g.objs :
                    /\ h.objs[x].type = g.objs[x].type
                    /\ h.objs[x].loc = IF x = r THEN v ELSE g.objs[x].loc
<1>2. Moved1([g EXCEPT !.objs[r].loc = v])
  BY Edited DEF RefFields
<1> QED BY <1>2 DEF Put

PutOwner(g, r, v) == [g EXCEPT !.objs[r].owner = v]
PutLink(g, r, v)  == [g EXCEPT !.objs[r].link = v]

\* Everybody is what and where they were.
Same(hand, g, h) ==
    /\ h \in Marked(hand) /\ DOMAIN h.objs = DOMAIN g.objs
    /\ \A x \in DOMAIN g.objs :
          h.objs[x].type = g.objs[x].type /\ h.objs[x].loc = g.objs[x].loc

\* An owner or a link edited moves nobody.
LEMMA Labelled ==
  ASSUME NEW hand, NEW g \in Marked(hand), NEW r, NEW v \in Int
  PROVE  Same(hand, g, PutOwner(g, r, v)) /\ Same(hand, g, PutLink(g, r, v))
<1>1. Same(hand, g, [g EXCEPT !.objs[r].owner = v])
  BY Edited DEF RefFields, Same
<1>2. Same(hand, g, [g EXCEPT !.objs[r].link = v])
  BY Edited DEF RefFields, Same
<1> QED BY <1>1, <1>2 DEF PutOwner, PutLink

\* What is made is there, and the rest is as it was.
LEMMA Made ==
  ASSUME NEW hand, NEW g \in Marked(hand), NEW t \in Live, NEW owner \in Int,
         NEW new, new = NextRef(g, t).ref, NEW h, h = Create(g, t, owner)
  PROVE  /\ h \in Marked(hand) /\ new \in Int /\ new # Nothing /\ ~Valid(g, new)
         /\ DOMAIN h.objs = DOMAIN g.objs \cup {new}
         /\ h.objs[new].type = t
         /\ \A x \in DOMAIN g.objs \ {new} : h.objs[x] = g.objs[x]
<1>1. g \in World /\ FreeExact(g)
  BY DEF Marked, FreeWorlds
<1>2. /\ h \in World /\ FreeExact(h) /\ h.damaged = g.damaged
      /\ new \in Nat /\ ~Valid(g, new)
      /\ DOMAIN h.objs = DOMAIN g.objs \cup {new} /\ h.objs[new] = NewObject(t, owner)
      /\ \A x \in DOMAIN g.objs \ {new} : h.objs[x] = g.objs[x]
  BY <1>1, CreatedFrame
<1>3. h \in Marked(hand) /\ h.objs[new].type = t /\ new \in Int /\ new # Nothing
  BY <1>2 DEF Marked, FreeWorlds, NewObject, Nothing
<1> QED BY <1>2, <1>3

\* Put nowhere, in the root or in the lost-and-found, nothing is on a ring.
LEMMA PutFixed ==
  ASSUME NEW hand, NEW D, NEW s \in SoundFixes(hand, D), NEW r \in DOMAIN s.g.objs, r # s.room,
         NEW v \in {Nothing, Root, s.room},
         s.g.objs[r].type = "garbage" => v = Nothing
  PROVE  [s EXCEPT !.g.objs[r].loc = v] \in SoundFixes(hand, D)
<1>1. /\ s \in FixStates(hand) /\ D \subseteq DOMAIN s.g.objs /\ Grounded(s.g)
      /\ s.room # Nothing =>
            /\ s.room \in DOMAIN s.g.objs \ {Root}
            /\ s.g.objs[s.room].type = "room" /\ s.g.objs[s.room].loc = Root
  BY DEF SoundFixes
<1> DEFINE g == s.g
           h == Put(g, r, v)
           t == [s EXCEPT !.g = h]
<1>2. [s EXCEPT !.g.objs[r].loc = v] = t
  BY DEF Put
<1>3. g \in Marked(hand) /\ v \in Int /\ "loc" \in RefFields /\ g \in World
  BY <1>1 DEF FixStates, FixesOf, Nothing, Root, RefFields, Marked, FreeWorlds
<1>4. /\ h \in Marked(hand) /\ DOMAIN h.objs = DOMAIN g.objs
      /\ \A x \in DOMAIN g.objs :
            /\ h.objs[x].type = g.objs[x].type
            /\ h.objs[x].loc = IF x = r THEN v ELSE g.objs[x].loc
  <2> HIDE DEF g
  <2> QED BY <1>3, Relocated
<1> HIDE DEF h
<1>5. t \in FixStates(hand) /\ t.g = h /\ t.room = s.room
  BY <1>1, <1>4 DEF FixStates, FixesOf
<1> HIDE DEF t
<1>6. Root \in DOMAIN g.objs /\ \A x \in DOMAIN g.objs : x # Nothing
  BY <1>1, <1>3, Typed DEF Grounded, Placed, Type, Exists
<1>7. Placed(h)
  <2>1. v \in DOMAIN g.objs \cup {Nothing}
    BY <1>1, <1>6
  <2> QED BY <1>1, <1>4, <2>1 DEF Grounded, Placed, Type, Exists
<1>8. ASSUME NEW S \in SUBSET (DOMAIN h.objs \ {Root}), S # {},
             \A x \in S : h.objs[x].loc \in S
      PROVE  FALSE
  <2>1. r \notin S
    <3> SUFFICES ASSUME r \in S PROVE FALSE
      OBVIOUS
    <3>1. v \in S
      BY <1>4, <1>8
    <3>2. v # Nothing /\ v # Root
      BY <1>4, <1>6, <1>8, <3>1
    <3>3. v = s.room /\ h.objs[v].loc = Root
      BY <1>1, <1>4, <3>2
    <3> QED BY <1>8, <3>1, <3>3
  <2>2. \A x \in S : g.objs[x].loc \in S
    BY <1>4, <1>8, <2>1
  <2> QED BY <1>1, <1>4, <1>8, <2>2 DEF Grounded
<1>9. Grounded(h)
  BY <1>7, <1>8 DEF Grounded
<1>10. s.room # Nothing =>
          /\ s.room \in DOMAIN h.objs \ {Root}
          /\ h.objs[s.room].type = "room" /\ h.objs[s.room].loc = Root
  BY <1>1, <1>4
<1>11. D \subseteq DOMAIN h.objs
  BY <1>1, <1>4
<1>12. t \in SoundFixes(hand, D)
  BY <1>5, <1>9, <1>10, <1>11 DEF SoundFixes
<1> QED BY <1>2, <1>12

\* The lost-and-found is a room in the root with a player in it, and what
\* there was is where it was.
LEMMA LostAndFoundFixed ==
  ASSUME NEW hand, NEW D, NEW s \in SoundFixes(hand, D)
  PROVE  LET t == WithLostAndFound(s)
         IN  /\ t \in SoundFixes(hand, D) /\ t.room # Nothing
             /\ \A x : Valid(s.g, x) => /\ Valid(t.g, x) /\ Type(t.g, x) = Type(s.g, x)
                                        /\ s.room = Nothing => t.room # x
<1> DEFINE t == WithLostAndFound(s)
           g0 == s.g
           g1 == Create(g0, "room", Nothing)
           room == NextRef(g0, "room").ref
           player == NextRef(g1, "player").ref
           h == Create(g1, "player", player)
<1>n. Nothing \in Int /\ Root \in Int /\ "room" \in Live /\ "player" \in Live
  BY DEF Nothing, Root, Live, Types
<1>0. s \in FixStates(hand) /\ D \subseteq DOMAIN g0.objs /\ Grounded(g0)
  BY DEF SoundFixes
<1>1. CASE s.room # Nothing
  BY <1>1 DEF WithLostAndFound
<1>2. CASE s.room = Nothing
  <2>0. t \in FixStates(hand)
    BY <1>0, AnyEditable, LostAndFound DEF FixStates
  <2>1. g0 \in World /\ FreeExact(g0) /\ g0 \in Marked(hand)
    BY <1>0 DEF FixStates, FixesOf, Marked, FreeWorlds
  <2>2. /\ g1 \in Marked(hand) /\ room \in Int /\ room # Nothing /\ ~Valid(g0, room)
        /\ DOMAIN g1.objs = DOMAIN g0.objs \cup {room}
        /\ g1.objs[room].type = "room"
        /\ \A x \in DOMAIN g0.objs \ {room} : g1.objs[x] = g0.objs[x]
    <3>1. room = NextRef(g0, "room").ref /\ g1 = Create(g0, "room", Nothing)
      OBVIOUS
    <3> HIDE DEF g0, g1, room
    <3> QED BY <2>1, <1>n, <3>1, Made
  <2> HIDE DEF g0, room
  <2> HIDE DEF g1
  <2>3. player \in Int /\ player # Nothing /\ ~Valid(g1, player)
    <3> DEFINE k == Create(g1, "player", Nothing)
    <3>1. k = Create(g1, "player", Nothing) /\ player = NextRef(g1, "player").ref
      OBVIOUS
    <3> HIDE DEF k, player
    <3> QED BY <2>2, <1>n, <3>1, Made
  <2>4. /\ h \in Marked(hand)
        /\ DOMAIN h.objs = DOMAIN g1.objs \cup {player}
        /\ h.objs[player].type = "player"
        /\ \A x \in DOMAIN g1.objs \ {player} : h.objs[x] = g1.objs[x]
    <3>1. h = Create(g1, "player", player) /\ player = NextRef(g1, "player").ref
      OBVIOUS
    <3> HIDE DEF h, player
    <3> QED BY <2>2, <2>3, <1>n, <3>1, Made
  <2> HIDE DEF h, player
  <2> DEFINE a == Put(h, room, Root)
             b == PutOwner(a, room, player)
             c == Put(b, player, room)
             d == PutLink(c, player, room)
  <2>5. /\ a \in Marked(hand) /\ DOMAIN a.objs = DOMAIN h.objs
        /\ \A x \in DOMAIN h.objs :
              /\ a.objs[x].type = h.objs[x].type
              /\ a.objs[x].loc = IF x = room THEN Root ELSE h.objs[x].loc
    BY <2>4, <1>n, Relocated
  <2> HIDE DEF a
  <2>6. /\ b \in Marked(hand) /\ DOMAIN b.objs = DOMAIN a.objs
        /\ \A x \in DOMAIN a.objs :
              b.objs[x].type = a.objs[x].type /\ b.objs[x].loc = a.objs[x].loc
    <3>1. Same(hand, a, b)
      BY <2>3, <2>5, Labelled
    <3> HIDE DEF b
    <3> QED BY <3>1 DEF Same
  <2> HIDE DEF b
  <2>7. /\ c \in Marked(hand) /\ DOMAIN c.objs = DOMAIN b.objs
        /\ \A x \in DOMAIN b.objs :
              /\ c.objs[x].type = b.objs[x].type
              /\ c.objs[x].loc = IF x = player THEN room ELSE b.objs[x].loc
    BY <2>2, <2>6, Relocated
  <2> HIDE DEF c
  <2>8. /\ d \in Marked(hand) /\ DOMAIN d.objs = DOMAIN c.objs
        /\ \A x \in DOMAIN c.objs :
              d.objs[x].type = c.objs[x].type /\ d.objs[x].loc = c.objs[x].loc
    <3>1. Same(hand, c, d)
      BY <2>2, <2>7, Labelled
    <3> HIDE DEF d
    <3> QED BY <3>1 DEF Same
  <2>9. [h EXCEPT !.objs[room].loc = Root, !.objs[room].owner = player,
                  !.objs[player].loc = room, !.objs[player].link = room] = d
    BY SMTT(40) DEF a, b, c, Put, PutOwner, PutLink
  <2> HIDE DEF d
  <2>10. t = [s EXCEPT !.room = room, !.player = player, !.g = d]
    BY <1>2, <2>9 DEF WithLostAndFound, MakeLostAndFound, g0, g1, room, player, h
  <2>11. t.room = room /\ t.g = d
    BY <1>0, <2>10 DEF FixStates, FixesOf
  <2> HIDE DEF t
  <2>12. /\ Root \in DOMAIN g0.objs /\ g0.objs[Root].type = "room"
         /\ \A x \in DOMAIN g0.objs : x # Nothing /\ (x = room => g0.objs[x].type = "garbage")
         /\ room # Root /\ room # Nothing
    <3>1. Root \in DOMAIN g0.objs /\ g0.objs[Root].type = "room"
      BY <1>0 DEF Grounded, Placed, Type, Exists, g0
    <3>2. \A x \in DOMAIN g0.objs : x # Nothing
      BY <2>1, Typed
    <3>3. \A x \in DOMAIN g0.objs : x = room => g0.objs[x].type = "garbage"
      BY <2>2 DEF Valid, Exists
    <3> QED BY <2>2, <3>1, <3>2, <3>3
  <2>13. player # room /\ player # Root /\ player # Nothing
         /\ \A x \in DOMAIN g0.objs : x = player => g0.objs[x].type = "garbage"
    <3>1. \A x \in DOMAIN g1.objs : x = player => g1.objs[x].type = "garbage"
      BY <2>3 DEF Valid, Exists
    <3>2. player # room
      BY <2>2, <3>1
    <3>3. \A x \in DOMAIN g0.objs : x = player => g0.objs[x].type = "garbage"
      BY <2>2, <3>1, <3>2
    <3> QED BY <2>3, <2>12, <3>2, <3>3
  <2>14. /\ DOMAIN d.objs = DOMAIN g0.objs \cup {room, player}
         /\ d.objs[room].type = "room" /\ d.objs[room].loc = Root
         /\ d.objs[player].type = "player" /\ d.objs[player].loc = room
         /\ \A x \in DOMAIN g0.objs \ {room, player} :
               d.objs[x].type = g0.objs[x].type /\ d.objs[x].loc = g0.objs[x].loc
    BY <2>2, <2>4, <2>5, <2>6, <2>7, <2>8, <2>13
  <2>15. Placed(d)
    BY <1>0, <2>12, <2>13, <2>14 DEF Grounded, Placed, Type, Exists
  <2>16. ASSUME NEW S \in SUBSET (DOMAIN d.objs \ {Root}), S # {},
                \A x \in S : d.objs[x].loc \in S
         PROVE  FALSE
    <3>1. room \notin S
      BY <2>14, <2>16
    <3>2. player \notin S
      BY <2>14, <2>16, <3>1
    <3>3. S \in SUBSET (DOMAIN g0.objs \ {Root}) /\ \A x \in S : g0.objs[x].loc \in S
      BY <2>14, <2>16, <3>1, <3>2
    <3> QED BY <1>0, <2>16, <3>3 DEF Grounded
  <2>17. Grounded(d)
    BY <2>15, <2>16 DEF Grounded
  <2>18. t \in SoundFixes(hand, D)
    BY <1>0, <2>0, <2>11, <2>12, <2>14, <2>17 DEF SoundFixes
  <2>19. ASSUME NEW x, Valid(g0, x)
         PROVE  Valid(d, x) /\ Type(d, x) = Type(g0, x) /\ room # x
    <3>1. x \in DOMAIN g0.objs \ {room, player} /\ g0.objs[x].type # "garbage"
      BY <2>2, <2>13, <2>19 DEF Valid, Exists
    <3> QED BY <2>14, <3>1 DEF Valid, Type, Exists
  <2> QED BY <2>11, <2>12, <2>18, <2>19 DEF t, g0
<1> QED BY <1>1, <1>2

\* What is fixed owes itself to somebody and is somewhere, not round in a ring.
LEMMA FixObjectFixed ==
  ASSUME NEW hand, NEW D, NEW old, NEW s \in SoundFixes(hand, D), NEW r \in D
  PROVE  FixObject(old, s, r) \in SoundFixes(hand, D)
<1>n. Nothing \in Int /\ Root \in Int
  BY DEF Nothing, Root
<1>0. ASSUME NEW t \in SoundFixes(hand, D)
      PROVE  /\ t \in FixStates(hand) /\ t.g \in Marked(hand) /\ t.player \in Int
             /\ r \in DOMAIN t.g.objs
             /\ Root \in DOMAIN t.g.objs /\ t.g.objs[Root].type = "room"
             /\ t.room # Nothing => /\ t.g.objs[t.room].type = "room" /\ t.g.objs[t.room].loc = Root
                                    /\ t.room \in DOMAIN t.g.objs
  BY DEF SoundFixes, FixStates, FixesOf, Grounded, Placed, Type, Exists
<1>own. ASSUME NEW t \in SoundFixes(hand, D), NEW v \in Int
        PROVE  /\ [t EXCEPT !.g.objs[r].owner = v] \in SoundFixes(hand, D)
               /\ [t EXCEPT !.g.objs[r].owner = v].room = t.room
               /\ \A x \in DOMAIN t.g.objs :
                     [t EXCEPT !.g.objs[r].owner = v].g.objs[x].type = t.g.objs[x].type
  <2> DEFINE g == t.g
             h == PutOwner(g, r, v)
             u == [t EXCEPT !.g = h]
  <2>1. [t EXCEPT !.g.objs[r].owner = v] = u
    BY DEF PutOwner
  <2>2. g \in Marked(hand)
    BY <1>0
  <2>3. Same(hand, g, h)
    <3> HIDE DEF g
    <3> QED BY <2>2, Labelled
  <2> HIDE DEF h
  <2>4. u \in SoundFixes(hand, D)
    BY <2>3, LabelsFixed DEF Same
  <2>5. u.g = h /\ u.room = t.room
    BY <1>0 DEF FixStates, FixesOf
  <2> HIDE DEF u
  <2> QED BY <2>1, <2>3, <2>4, <2>5 DEF Same
<1>1. ASSUME Type(s.g, r) = "garbage"
      PROVE  [s EXCEPT !.g.objs[r].owner = Nothing, !.g.objs[r].loc = Nothing]
                \in SoundFixes(hand, D)
  <2> DEFINE t == [s EXCEPT !.g.objs[r].owner = Nothing]
  <2>1. /\ t \in SoundFixes(hand, D) /\ t.room = s.room
        /\ \A x \in DOMAIN s.g.objs : t.g.objs[x].type = s.g.objs[x].type
    BY <1>n, <1>own
  <2>2. [s EXCEPT !.g.objs[r].owner = Nothing, !.g.objs[r].loc = Nothing]
           = [t EXCEPT !.g.objs[r].loc = Nothing]
    OBVIOUS
  <2> HIDE DEF t
  <2>3. r \in DOMAIN t.g.objs
    BY <1>0, <2>1
  <2>4. r # t.room
    <3> SUFFICES ASSUME r = t.room PROVE FALSE
      OBVIOUS
    <3>1. r # Nothing
      BY <1>0, Typed DEF Marked, FreeWorlds
    <3>2. s.g.objs[r].type = "room"
      BY <1>0, <2>1, <3>1
    <3> QED BY <1>0, <1>1, <3>2 DEF Type, Exists
  <2>5. [t EXCEPT !.g.objs[r].loc = Nothing] \in SoundFixes(hand, D)
    BY <2>1, <2>3, <2>4, PutFixed
  <2> QED BY <2>2, <2>5
<1>2. ASSUME NEW t \in SoundFixes(hand, D), Type(t.g, r) # "garbage"
      PROVE  FixOwner(t, r) \in SoundFixes(hand, D) /\ Type(FixOwner(t, r).g, r) # "garbage"
  <2>1. CASE Type(t.g, t.g.objs[r].owner) = "player"
    BY <1>2, <2>1 DEF FixOwner
  <2>2. CASE Type(t.g, t.g.objs[r].owner) # "player"
    <3> DEFINE u == WithLostAndFound(t)
    <3>1. Valid(t.g, r)
      BY <1>0, <1>2 DEF Valid, Exists, Type
    <3>2. u \in SoundFixes(hand, D) /\ Type(u.g, r) # "garbage"
      BY <1>2, <3>1, LostAndFoundFixed
    <3>3. FixOwner(t, r) = Own(u, r)
      BY <2>2 DEF FixOwner
    <3> HIDE DEF u
    <3>4. u.player \in Int /\ r \in DOMAIN u.g.objs
      BY <1>0, <3>2
    <3> DEFINE v == u.player
               w == [u EXCEPT !.g.objs[r].owner = v]
    <3>5. Own(u, r) = w
      BY DEF Own
    <3> HIDE DEF v
    <3>6. w \in SoundFixes(hand, D) /\ w.g.objs[r].type = u.g.objs[r].type
      BY <1>own, <3>2, <3>4 DEF v
    <3> HIDE DEF w
    <3>7. Type(w.g, r) # "garbage"
      BY <1>0, <3>2, <3>6 DEF Type, Exists
    <3> QED BY <3>3, <3>5, <3>6, <3>7
  <2> QED BY <2>1, <2>2
<1>3. ASSUME NEW t \in SoundFixes(hand, D), Type(t.g, r) # "garbage"
      PROVE  FixLocation(t, r) \in SoundFixes(hand, D)
  <2>1. CASE r = Root \/ ~BadLocation(t.g, r)
    BY <2>1 DEF FixLocation
  <2>2. CASE ~(r = Root \/ ~BadLocation(t.g, r)) /\ Type(t.g, r) = "player"
    <3>1. FixLocation(t, r) = [t EXCEPT !.g.objs[r].loc = Root]
      BY <2>2 DEF FixLocation
    <3>2. t.g.objs[r].type = "player" /\ r \in DOMAIN t.g.objs
      BY <1>0, <2>2 DEF Type, Exists
    <3>3. r # t.room
      <4>1. r # Nothing
        BY <1>0, <3>2, Typed DEF Marked, FreeWorlds
      <4> QED BY <1>0, <3>2, <4>1
    <3>4. [t EXCEPT !.g.objs[r].loc = Root] \in SoundFixes(hand, D)
      BY <3>2, <3>3, PutFixed
    <3> QED BY <3>1, <3>4
  <2>3. CASE ~(r = Root \/ ~BadLocation(t.g, r)) /\ Type(t.g, r) # "player"
    <3> DEFINE u == WithLostAndFound(t)
    <3>1. Valid(t.g, r)
      BY <1>0, <1>3 DEF Valid, Exists, Type
    <3>2. /\ u \in SoundFixes(hand, D) /\ Type(u.g, r) # "garbage"
          /\ t.room = Nothing => u.room # r
      BY <1>3, <3>1, LostAndFoundFixed
    <3>3. r # u.room
      <4>1. CASE t.room = Nothing
        BY <3>2, <4>1
      <4>2. CASE t.room # Nothing
        <5>1. u = t
          BY <4>2 DEF WithLostAndFound
        <5>2. r = t.room => ~BadLocation(t.g, r)
          BY <1>0, <4>2 DEF BadLocation, Loc, Type, Exists, Holders
        <5> QED BY <2>3, <5>1, <5>2
      <4> QED BY <4>1, <4>2
    <3>4. FixLocation(t, r) = Hold(u, r)
      BY <2>3 DEF FixLocation
    <3> HIDE DEF u
    <3> DEFINE v == u.room
    <3>5. Hold(u, r) = [u EXCEPT !.g.objs[r].loc = v]
      BY DEF Hold
    <3>6. v \in {Nothing, Root, u.room} /\ r \in DOMAIN u.g.objs
          /\ u.g.objs[r].type # "garbage"
      BY <1>0, <3>2 DEF Type, Exists
    <3> HIDE DEF v
    <3>7. [u EXCEPT !.g.objs[r].loc = v] \in SoundFixes(hand, D)
      BY <3>2, <3>3, <3>6, PutFixed
    <3> QED BY <3>4, <3>5, <3>7
  <2> QED BY <2>1, <2>2, <2>3
<1>4. ASSUME NEW t \in SoundFixes(hand, D)
      PROVE  [t EXCEPT !.g = FixLinks(@, r)] \in SoundFixes(hand, D)
  <2> DEFINE h == FixLinks(t.g, r)
  <2>1. /\ h \in Marked(hand) /\ DOMAIN h.objs = DOMAIN t.g.objs
        /\ \A x \in DOMAIN t.g.objs :
              h.objs[x].type = t.g.objs[x].type /\ h.objs[x].loc = t.g.objs[x].loc
    <3> DEFINE g == t.g
    <3>1. g \in Marked(hand)
      BY <1>0
    <3> HIDE DEF g
    <3>2. LET k == FixLinks(g, r)
          IN  /\ k \in Marked(hand) /\ DOMAIN k.objs = DOMAIN g.objs
              /\ \A x \in DOMAIN g.objs :
                    k.objs[x].type = g.objs[x].type /\ k.objs[x].loc = g.objs[x].loc
      BY <3>1, RelinkedKeeps
    <3> QED BY <3>2 DEF g
  <2>2. [t EXCEPT !.g = FixLinks(@, r)] = [t EXCEPT !.g = h]
    OBVIOUS
  <2> HIDE DEF h
  <2> QED BY <2>1, <2>2, LabelsFixed
<1>5. ASSUME Type(s.g, r) # "garbage"
      PROVE  FixLocation(FixOwner(s, r), r) \in SoundFixes(hand, D)
  BY <1>2, <1>3, <1>5
<1> DEFINE t == IF Type(s.g, r) = "garbage"
                THEN [s EXCEPT !.g.objs[r].owner = Nothing, !.g.objs[r].loc = Nothing]
                ELSE FixLocation(FixOwner(s, r), r)
<1>6. t \in SoundFixes(hand, D)
  BY <1>1, <1>5
<1>7. FixObject(old, s, r) = [t EXCEPT !.g = FixLinks(@, r)]
  BY DEF FixObject
<1> HIDE DEF t
<1> QED BY <1>4, <1>6, <1>7

\* Once @sanfix is through, everybody is on the list of where they are, and
\* the walks outward end.
LEMMA FixedSound ==
  ASSUME NEW hand, NEW g \in Marked(hand), Sound(g)
  PROVE  Sound(Fix(g))
<1> DEFINE s == [g |-> g, room |-> Nothing, player |-> Nothing]
           all == FixAll(s, g)
<1>n. Nothing \in Int /\ Root \in Int
  BY DEF Nothing, Root
<1>0. g \in World /\ Placed(g) /\ NoRing(g)
  BY DEF Sound
<1>1. s \in SoundFixes(hand, DOMAIN g.objs)
  <2>1. s \in FixStates(hand)
    BY <1>n DEF FixStates, FixesOf
  <2>2. Grounded(g)
    BY <1>0 DEF Grounded, NoRing
  <2> QED BY <2>1, <2>2 DEF SoundFixes
<1>2. ASSUME NEW D, NEW t \in SoundFixes(hand, D), NEW old, NEW h \in World,
             NEW S \in SUBSET (DOMAIN h.objs), S \subseteq D
      PROVE  Fixing!Over(old, t, InOrder(h, S)) \in SoundFixes(hand, D)
  <2> DEFINE list == InOrder(h, S)
  <2>1. Len(list) \in Nat /\ \A i \in 1 .. Len(list) : list[i] \in D
    <3>1. list \in Seq(S)
      BY InOrderIs
    <3> HIDE DEF list
    <3> QED BY <1>2, <3>1
  <2> HIDE DEF list
  <2>2. \A x \in SoundFixes(hand, D), i \in 1 .. Len(list) :
           FixObject(old, x, list[i]) \in SoundFixes(hand, D)
    BY <2>1, FixObjectFixed
  <2>3. Fixing!Over(old, t, list) \in SoundFixes(hand, D)
    BY <2>1, <2>2, Fixing!Keeps
  <2> QED BY <2>3 DEF list
<1> HIDE DEF s
<1>3. all \in FixStates(hand) /\ Grounded(all.g)
  <2> DEFINE t == Fixing!Over(g, s, InOrder(g, DOMAIN g.objs))
             late == DOMAIN t.g.objs \ DOMAIN g.objs
             D == DOMAIN t.g.objs
  <2>1. t \in SoundFixes(hand, DOMAIN g.objs)
    BY <1>0, <1>1, <1>2
  <2> HIDE DEF t
  <2>2. t.g \in World /\ t \in SoundFixes(hand, D)
    BY <2>1 DEF SoundFixes, FixStates, FixesOf, Marked, FreeWorlds
  <2>3. late \in SUBSET (DOMAIN t.g.objs) /\ late \subseteq D
    OBVIOUS
  <2> HIDE DEF D, late
  <2>4. Fixing!Over(g, t, InOrder(t.g, late)) \in SoundFixes(hand, D)
    BY <1>2, <2>2, <2>3
  <2>5. all = Fixing!Over(g, t, InOrder(t.g, late))
    BY DEF FixAll, t, late
  <2> HIDE DEF all
  <2> QED BY <2>4, <2>5 DEF SoundFixes
<1> HIDE DEF all
<1> DEFINE c == all.g
           a == [c EXCEPT !.objs[Root].next = Nothing]
           b == Put(a, Root, Nothing)
<1>4. c \in Marked(hand) /\ Grounded(c)
  BY <1>3 DEF FixStates, FixesOf
<1> HIDE DEF c
<1>5. Same(hand, c, a)
  BY <1>4, <1>n, Edited, SMTT(40) DEF RefFields, Same
<1> HIDE DEF a
<1>6. /\ b \in Marked(hand) /\ DOMAIN b.objs = DOMAIN c.objs
      /\ \A x \in DOMAIN c.objs :
            /\ b.objs[x].type = c.objs[x].type
            /\ b.objs[x].loc = IF x = Root THEN Nothing ELSE c.objs[x].loc
  <2>1. /\ b \in Marked(hand) /\ DOMAIN b.objs = DOMAIN a.objs
        /\ \A x \in DOMAIN a.objs :
              /\ b.objs[x].type = a.objs[x].type
              /\ b.objs[x].loc = IF x = Root THEN Nothing ELSE a.objs[x].loc
    BY <1>5, <1>n, Relocated DEF Same
  <2> HIDE DEF b
  <2> QED BY <1>5, <2>1 DEF Same
<1>7. Fix(g) = RebuildRecyclable(RepairChains(b))
  BY DEF Fix, b, a, c, all, s, Put
<1> HIDE DEF b
<1>8. b \in World /\ Placed(b)
  BY <1>4, <1>6 DEF Marked, FreeWorlds, Grounded, Placed, Type, Exists
<1>9. ASSUME NEW S \in SUBSET (DOMAIN b.objs), S # {} PROVE \E r \in S : b.objs[r].loc \notin S
  <2>1. CASE Root \in S
    <3>1. b.objs[Root].loc = Nothing /\ Nothing \notin DOMAIN b.objs
      BY <1>6, <1>8, <2>1, Typed
    <3> QED BY <2>1, <3>1
  <2>2. CASE Root \notin S
    <3>1. S \in SUBSET (DOMAIN c.objs \ {Root})
      BY <1>6, <2>2
    <3>2. PICK r \in S : c.objs[r].loc \notin S
      BY <1>4, <1>9, <3>1 DEF Grounded
    <3> QED BY <1>6, <3>1, <3>2
  <2> QED BY <2>1, <2>2
<1>10. NoRing(b)
  BY <1>9 DEF NoRing
<1>11. Sound(Load(b))
  BY <1>8, <1>10, LoadedSound
<1> QED BY <1>7, <1>11 DEF Load

-----------------------------------------------------------------------------
\* Sound, seen from outside.

Walks(g) == \A r \in DOMAIN g.objs : Ends(g, r)

\* What is threaded is on its lists, and what is on no ring has its walk end.
LEMMA SoundIs ==
  ASSUME NEW g, Sound(g)
  PROVE  Placed(g) /\ Whole(g) /\ Walks(g)
<1>0. /\ g \in World /\ Placed(g) /\ NoRing(g)
      /\ \A r \in DOMAIN g.objs, list \in Lists : Listed(g, r, list)
  BY DEF Sound
<1>1. ASSUME NEW r \in DOMAIN g.objs, NEW list \in {"contents", "exits"}
      PROVE  LET chain == Chain(g, g.objs[r][list])
             IN  /\ Elems(chain) = Wanted(g, r, list) \ g.stranded
                 /\ Len(chain) = Cardinality(Elems(chain))
  <2> DEFINE head == g.objs[r][list]
  <2>1. PICK s : Thread(g, head, s) /\ Elems(s) = Awaited(g, r, list)
    BY <1>0 DEF Listed, Lists
  <2> HIDE DEF head
  <2>2. Chain(g, head) = s
    BY <1>0, <2>1, ThreadIsChain
  <2>3. Len(s) = Cardinality(Elems(s))
    BY <2>1, DistinctCounts DEF Thread
  <2> QED BY <2>1, <2>2, <2>3 DEF Awaited, head
<1>2. Whole(g)
  BY <1>1 DEF Whole
<1>3. Walks(g)
  BY <1>0, WalksEnd DEF Walks, Ends
<1> QED BY <1>0, <1>2, <1>3

\* A list that names everyone it should, and as often, is a thread.
LEMMA WholeIsThreaded ==
  ASSUME NEW g \in World, Whole(g), NEW r \in DOMAIN g.objs, NEW list \in Lists
  PROVE  Listed(g, r, list)
<1> DEFINE head == g.objs[r][list]
           chain == Chain(g, head)
<1>1. Elems(chain) = Wanted(g, r, list) \ g.stranded /\ Len(chain) = Cardinality(Elems(chain))
  BY DEF Whole, Lists
<1>2. head \in Int
  BY Typed DEF Object, Lists
<1> HIDE DEF head
<1>3. /\ chain \in Seq(Int)
      /\ (Elems(chain) \subseteq DOMAIN g.objs /\ Distinct(chain)) => Thread(g, head, chain)
  BY <1>2, ChainIsThread
<1> HIDE DEF chain
<1>4. Elems(chain) \subseteq DOMAIN g.objs
  BY <1>1 DEF Wanted
<1>5. Distinct(chain)
  BY <1>1, <1>3, DistinctCounts
<1>6. Thread(g, head, chain)
  BY <1>3, <1>4, <1>5
<1> QED BY <1>1, <1>6 DEF Listed, Awaited, head

\* Round a ring no walk would end.
LEMMA WalkedNoRing ==
  ASSUME NEW g \in World, Walks(g)
  PROVE  NoRing(g)
<1>1. ASSUME NEW S \in SUBSET (DOMAIN g.objs), NEW r \in S, \A x \in S : g.objs[x].loc \in S
      PROVE  FALSE
  <2> DEFINE up == Outward(g, r)
             n == Cardinality(DOMAIN g.objs)
             T == {i \in Nat : i <= n => up[i] \in S}
  <2>1. /\ n \in Nat /\ DOMAIN up = 0 .. n /\ up[0] = r
        /\ \A i \in 1 .. n : up[i] = Loc(g, up[i - 1])
    BY OutwardStep
  <2>2. PICK i \in DOMAIN up : up[i] = Nothing
    BY DEF Walks, Ends
  <2> HIDE DEF up, n
  <2>3. 0 \in T
    BY <2>1
  <2>4. ASSUME NEW j \in Nat, j \in T PROVE j + 1 \in T
    <3> SUFFICES ASSUME j + 1 <= n PROVE up[j + 1] \in S
      OBVIOUS
    <3>1. j + 1 \in 1 .. n /\ (j + 1) - 1 = j /\ j <= n
      BY <2>1
    <3>2. up[j] \in S /\ up[j + 1] = Loc(g, up[j])
      BY <2>1, <2>4, <3>1
    <3> QED BY <1>1, <3>2 DEF Loc, Exists
  <2>5. \A j \in Nat : j \in T
    <3> HIDE DEF T
    <3> QED BY <2>3, <2>4, GoingOut!Numbers
  <2>6. i \in Nat /\ i <= n
    BY <2>1, <2>2
  <2>7. up[i] \in S
    BY <2>5, <2>6
  <2> QED BY <2>2, <2>7, Typed
<1> QED BY <1>1 DEF NoRing

\* A world on which nothing was edited by hand is sound.
SoundStart == world \in FreeWorlds /\ (~world.damaged => Sound(world))

LEMMA SoundFirst ==
  ASSUME FreeStart, WorldIsSound
  PROVE  SoundStart
<1> SUFFICES ASSUME ~world.damaged PROVE Sound(world)
  BY DEF SoundStart, FreeStart
<1>1. world \in World /\ Placed(world) /\ Whole(world) /\ Walks(world)
  BY DEF FreeStart, FreeWorlds, WorldIsSound, Walks
<1> QED BY <1>1, WholeIsThreaded, WalkedNoRing DEF Sound

\* One step of the upkeep leaves it so.
LEMMA SoundStep ==
  ASSUME SoundStart, [Upkeep]_vars
  PROVE  SoundStart'
<1>0. FreeStart' /\ world \in World
  BY UpkeepStep DEF SoundStart, FreeStart, FreeWorlds
<1>1. CASE world.damaged
  <2>1. world'.damaged
    <3>1. world \in Marked(TRUE)
      BY <1>1 DEF SoundStart, Marked, FreeWorlds, World
    <3> DEFINE W == Marked(TRUE)
    <3>2. Closed(W) /\ world \in W
      BY <3>1, FreeClosed
    <3>3. ASSUME Next PROVE world' \in W
      <4> HIDE DEF W
      <4> QED BY <3>2, <3>3, CommandsKeep
    <3>4. ASSUME NEW after \in W, Does(God, after) PROVE world' \in W
      <4> HIDE DEF W
      <4> QED BY <3>2, <3>4, Done
    <3>5. ASSUME CmdSanfix PROVE world' \in W
      <4>1. Fix(world) \in W
        BY <3>1, FixedKeeps
      <4> QED BY <3>4, <3>5, <4>1 DEF CmdSanfix
    <3>6. ASSUME Restart PROVE world' \in W
      <4>1. Load(world) \in W
        BY <1>0, <3>1, LoadedKeeps DEF Marked
      <4> QED BY <3>4, <3>6, <4>1 DEF Restart
    <3>7. ASSUME world' \in W PROVE world'.damaged
      BY <3>7 DEF Marked
    <3>8. ASSUME CmdSanchange PROVE world'.damaged
      BY <1>0, <3>8 DEF CmdSanchange, World
    <3>9. ASSUME UNCHANGED vars PROVE world'.damaged
      BY <1>1, <3>9 DEF vars
    <3> HIDE DEF W
    <3> QED BY <3>3, <3>5, <3>6, <3>7, <3>8, <3>9 DEF Upkeep
  <2> QED BY <1>0, <2>1 DEF SoundStart, FreeStart
<1>2. CASE ~world.damaged
  <2>1. world \in SoundWorlds /\ world \in Marked(FALSE) /\ Sound(world)
    BY <1>2 DEF SoundStart, SoundWorlds, Marked, FreeWorlds, World
  <2>2. Placed(world) /\ NoRing(world)
    BY <2>1 DEF Sound
  <2>3. ASSUME Next PROVE world' \in SoundWorlds
    BY <2>1, <2>3, SoundClosed, CommandsKeep
  <2>4. ASSUME NEW after \in SoundWorlds, Does(God, after) PROVE world' \in SoundWorlds
    BY <2>1, <2>4, SoundClosed, Done
  <2>5. ASSUME CmdSanfix PROVE world' \in SoundWorlds
    <3>1. Fix(world) \in SoundWorlds
      BY <2>1, FixedKeeps, FixedSound DEF SoundWorlds
    <3> QED BY <2>4, <2>5, <3>1 DEF CmdSanfix
  <2>6. ASSUME Restart PROVE world' \in SoundWorlds
    <3>1. Load(world) \in Marked(FALSE)
      <4>1. world.damaged = FALSE
        BY <2>1 DEF Marked
      <4> QED BY <1>0, <4>1, LoadedKeeps
    <3>2. Load(world) \in SoundWorlds
      BY <1>0, <2>2, <3>1, LoadedSound DEF SoundWorlds
    <3> QED BY <2>4, <2>6, <3>2 DEF Restart
  <2>7. ASSUME CmdSanchange PROVE world'.damaged
    BY <1>0, <2>7 DEF CmdSanchange, World
  <2>8. ASSUME UNCHANGED vars PROVE world' = world
    BY <2>8 DEF vars
  <2>9. world' \in SoundWorlds \/ world'.damaged
    <3>1. CASE Next
      BY <2>3, <3>1
    <3>2. CASE CmdSanchange
      BY <2>7, <3>2
    <3>3. CASE CmdSanfix
      BY <2>5, <3>3
    <3>4. CASE Restart
      BY <2>6, <3>4
    <3>5. CASE UNCHANGED vars
      BY <2>1, <2>8, <3>5
    <3> QED BY <3>1, <3>2, <3>3, <3>4, <3>5 DEF Upkeep
  <2> QED BY <1>0, <2>9 DEF SoundStart, SoundWorlds, FreeStart
<1> QED BY <1>1, <1>2

\* Everybody is on the list of where they are, once, and on no other, and the
\* walk outward from anybody ends, whatever sound world there was at first and
\* whoever gives the commands, repairs it or restarts it, until God edits a
\* field by hand (world.go:524, 593; sanfix.go:26; repair.go:18).
THEOREM Soundness == FreeStart /\ WorldIsSound /\ [][Upkeep]_vars => []WorldIsSound
<1>1. SoundStart => WorldIsSound
  BY SoundIs DEF SoundStart, WorldIsSound, Walks
<1> QED BY <1>1, SoundFirst, SoundStep, PTL

-----------------------------------------------------------------------------
\* What a mortal's command may reach.

\* The worlds in which all of g but A is what it was.
Sparing(g, A) ==
    {h \in World : /\ DOMAIN g.objs \subseteq DOMAIN h.objs
                   /\ \A o \in DOMAIN g.objs \ A : Spared(g, h, o)}

\* Moves spare everything, of where things are no account being taken.
LEMMA SparingMoves ==
  ASSUME NEW g \in World, NEW A
  PROVE  /\ g \in Sparing(g, A)
         /\ MovesKeep(Sparing(g, A))
         /\ \A h \in Sparing(g, A) : \A what, dest : MoveTo(h, what, dest) \in Sparing(g, A)
<1>1. g \in Sparing(g, A)
  BY DEF Sparing, Spared
<1>2. ASSUME NEW h \in Sparing(g, A), NEW what, NEW dest
      PROVE  MoveTo(h, what, dest) \in Sparing(g, A)
  <2> DEFINE k == MoveTo(h, what, dest)
  <2>1. Relisted(h, k)
    BY MovedFrame DEF Sparing
  <2> HIDE DEF k
  <2>2. k \in Sparing(g, A)
    BY <2>1 DEF Relisted, Sparing, Spared
  <2> QED BY <2>2 DEF k
<1> QED BY <1>1, <1>2 DEF MovesKeep, Sparing

\* That something is loose is noted of the world, not of an object.
LEMMA SparingLoose ==
  ASSUME NEW g \in World, NEW A, NEW h \in Sparing(g, A), NEW b \in BOOLEAN
  PROVE  [h EXCEPT !.loose = b] \in Sparing(g, A)
<1> DEFINE k == [h EXCEPT !.loose = b]
<1>1. k \in World /\ k.objs = h.objs
  BY DEF Sparing, World
<1> HIDE DEF k
<1>2. k \in Sparing(g, A)
  BY <1>1 DEF Sparing, Spared
<1> QED BY <1>2 DEF k

\* So what a command leaves is what its operations left.
LEMMA SparingDone ==
  ASSUME NEW g \in World, NEW A, NEW who, NEW after \in Sparing(g, A), Does(who, after)
  PROVE  world' \in Sparing(g, A)
<1> DEFINE b == after.loose \/ Dangling(after)
<1>1. b \in BOOLEAN
  BY DEF Sparing, World, Dangling
<1>2. world' = [after EXCEPT !.loose = b]
  BY DEF Does
<1> HIDE DEF b
<1> QED BY <1>1, <1>2, SparingLoose

\* What is in A, or was not there, may be put in other words.
LEMMA SparingWritten ==
  ASSUME NEW g \in World, NEW A, NEW h \in Sparing(g, A), NEW r, r \in A \/ r \notin DOMAIN g.objs,
         NEW o \in Object
  PROVE  [h EXCEPT !.objs[r] = o] \in Sparing(g, A)
<1> DEFINE k == [h EXCEPT !.objs[r] = o]
<1>1. k \in World
  BY Written DEF Sparing
<1>2. DOMAIN k.objs = DOMAIN h.objs /\ \A x \in DOMAIN h.objs \ {r} : k.objs[x] = h.objs[x]
  BY DEF Sparing, World
<1> HIDE DEF k
<1>3. k \in Sparing(g, A)
  BY <1>1, <1>2 DEF Sparing, Spared
<1> QED BY <1>3 DEF k

\* Its labels in particular.
LEMMA SparingRelabels ==
  ASSUME NEW g \in World, NEW A, NEW r, r \in A \/ r \notin DOMAIN g.objs
  PROVE  Sparing(g, A) \in SUBSET World /\ Relabels(Sparing(g, A), r)
<1>1. Sparing(g, A) \in SUBSET World
  BY DEF Sparing
<1>2. ASSUME NEW h \in Sparing(g, A), r \in DOMAIN h.objs
      PROVE  /\ \A v \in Int : [h EXCEPT !.objs[r].owner = v] \in Sparing(g, A)
             /\ \A v \in Int : [h EXCEPT !.objs[r].link = v] \in Sparing(g, A)
             /\ \A v \in Seq(Int) : [h EXCEPT !.objs[r].dest = v] \in Sparing(g, A)
             /\ \A v \in SUBSET FlagNames : [h EXCEPT !.objs[r].flags = v] \in Sparing(g, A)
  <2> DEFINE was == h.objs[r]
  <2>1. was \in Object
    BY <1>1, <1>2, Typed
  <2>w. \A o \in Object : [h EXCEPT !.objs[r] = o] \in Sparing(g, A)
    BY SparingWritten
  <2>2. ASSUME NEW v \in Int PROVE [h EXCEPT !.objs[r].owner = v] \in Sparing(g, A)
    <3>1. [was EXCEPT !.owner = v] \in Object
      BY <2>1 DEF Object
    <3> QED BY <2>w, <3>1
  <2>3. ASSUME NEW v \in Int PROVE [h EXCEPT !.objs[r].link = v] \in Sparing(g, A)
    <3>1. [was EXCEPT !.link = v] \in Object
      BY <2>1 DEF Object
    <3> QED BY <2>w, <3>1
  <2>4. ASSUME NEW v \in Seq(Int) PROVE [h EXCEPT !.objs[r].dest = v] \in Sparing(g, A)
    <3>1. [was EXCEPT !.dest = v] \in Object
      BY <2>1 DEF Object
    <3> QED BY <2>w, <3>1
  <2>5. ASSUME NEW v \in SUBSET FlagNames PROVE [h EXCEPT !.objs[r].flags = v] \in Sparing(g, A)
    <3>1. [was EXCEPT !.flags = v] \in Object
      BY <2>1 DEF Object
    <3> QED BY <2>w, <3>1
  <2> QED BY <2>2, <2>3, <2>4, <2>5
<1> QED BY <1>1, <1>2 DEF Relabels

\* What is created takes a ref nobody has, or one of the garbage.
LEMMA SparingBuilt ==
  ASSUME NEW g \in World, FreeExact(g), NEW A,
         \A o \in DOMAIN g.objs : Type(g, o) = "garbage" => o \in A,
         NEW t \in Live, NEW owner \in Int, NEW parent, NEW link \in Int
  PROVE  LET at == NextRef(g, t).ref
             h == Built(g, t, owner, parent, link)
         IN  /\ h \in Sparing(g, A) /\ at \in DOMAIN h.objs
             /\ at \in A \/ at \notin DOMAIN g.objs
<1> DEFINE at == NextRef(g, t).ref
           c == Create(g, t, owner)
           made == [c EXCEPT !.objs[at].link = link]
<1>1. /\ c \in World /\ ~Valid(g, at)
      /\ DOMAIN c.objs = DOMAIN g.objs \cup {at}
      /\ \A r \in DOMAIN g.objs \ {at} : c.objs[r] = g.objs[r]
  BY CreatedFrame
<1>2. Built(g, t, owner, parent, link) = MoveTo(made, at, parent)
  BY DEF Built
<1> HIDE DEF c, at
<1>3. at \in A \/ at \notin DOMAIN g.objs
  BY <1>1 DEF Valid, Type, Exists
<1>4. c \in Sparing(g, A)
  BY <1>1, <1>3 DEF Sparing, Spared
<1>5. made \in Sparing(g, A) /\ made \in World
  BY <1>1, <1>3, <1>4, SparingRelabels DEF Relabels
<1>6. DOMAIN made.objs = DOMAIN c.objs
  BY <1>1 DEF World
<1> HIDE DEF made
<1>7. MoveTo(made, at, parent) \in Sparing(g, A)
  BY <1>5, SparingMoves
<1>8. at \in DOMAIN (MoveTo(made, at, parent)).objs
  <2>1. Relisted(made, MoveTo(made, at, parent))
    BY <1>5, MovedFrame
  <2> QED BY <1>1, <1>6, <2>1 DEF Relisted
<1> QED BY <1>2, <1>3, <1>7, <1>8 DEF at

\* What is recycled is the only thing that is not what it was.
LEMMA SparingRecycled ==
  ASSUME NEW g \in World, FreeExact(g), NEW A, NEW r \in A
  PROVE  Recycle(g, r) \in Sparing(g, A)
<1>1. CASE ~Valid(g, r)
  BY <1>1, SparingMoves DEF Recycle
<1>2. CASE Valid(g, r)
  <2> DEFINE out == IF Loc(g, r) = Nothing THEN g ELSE RemoveFromChain(g, Loc(g, r), r)
             h == Recycle(g, r)
  <2>1. /\ h \in World /\ Relisted(g, out)
        /\ h.objs = [out.objs EXCEPT ![r] = GarbageObject(g.objs[r].link)]
    BY <1>2, RecycledFrame
  <2> HIDE DEF out, h
  <2>2. h \in Sparing(g, A)
    BY <2>1 DEF Relisted, Sparing, Spared
  <2> QED BY <2>2 DEF h
<1> QED BY <1>1, <1>2

-----------------------------------------------------------------------------
\* A mortal's commands, one by one.

\* Who has a turn and is no wizard; what they may change.
LEMMA MortalTurn ==
  ASSUME FreeStart, NEW who, Turn(who), Mortal(world, who)
  PROVE  /\ world \in World /\ FreeExact(world)
         /\ who \in DOMAIN world.objs /\ who \in Int
         /\ OwnerOf(world, who) = who /\ ~IsWizard(world, who)
         /\ \A x : Loc(world, x) \in Int
         /\ \A x \in DOMAIN world.objs : world.objs[x] \in Object /\ x \in Int
         /\ \A o \in DOMAIN world.objs : Type(world, o) = "garbage" => o \in Reach(world, who)
         /\ MLevel(world, who) < 4
<1>1. world \in World /\ FreeExact(world)
  BY DEF FreeStart, FreeWorlds
<1>2. /\ who \in DOMAIN world.objs /\ OwnerOf(world, who) = who
  BY DEF Turn, Type, Exists, OwnerOf
<1>3. \A x \in DOMAIN world.objs : world.objs[x] \in Object /\ x \in Int
  BY <1>1, Typed
<1>4. \A x : Loc(world, x) \in Int
  BY <1>3 DEF Loc, Exists, Object, Nothing
<1>5. \A flags : Level(flags) < 4
  BY DEF Level
<1> QED BY <1>1, <1>2, <1>3, <1>4, <1>5 DEF Mortal, Wizard, MLevel, Reach

\* What they control or is permitted them is within their reach.
LEMMA Permitted ==
  ASSUME FreeStart, NEW who, Turn(who), Mortal(world, who), NEW what \in DOMAIN world.objs,
         \/ Controlled(world, who, what)
         \/ AtLeast(4, world, who, what)
  PROVE  what \in Reach(world, who)
<1>1. /\ who \in DOMAIN world.objs /\ OwnerOf(world, who) = who
      /\ MLevel(world, who) < 4 /\ MLevel(world, who) \in Int /\ what # Home
  <2>1. \A flags : Level(flags) \in Int
    BY DEF Level
  <2>2. what # Home
    BY Typed, MortalTurn DEF Home
  <2> QED BY <2>1, <2>2, MortalTurn DEF MLevel
<1>2. CASE Controlled(world, who, what)
  BY <1>2 DEF Controlled, Reach
<1>3. CASE AtLeast(4, world, who, what)
  <2>1. Permissions(world, who, what)
    BY <1>1, <1>3 DEF AtLeast
  <2>2. Controls(world, who, what) \/ (Type(world, what) = "exit" /\ world.objs[what].owner = Nothing)
    BY <1>1, <2>1 DEF Permissions, Controls, Exists
  <2> QED BY <2>2 DEF Reach
<1> QED BY <1>2, <1>3

\* @link leaves anything else as it was.
LEMMA Refused ==
  ASSUME FreeStart, NEW who, Turn(who), Mortal(world, who), NEW what \in DOMAIN world.objs,
         what \notin Reach(world, who), NEW args
  PROVE  Linked(world, who, what, args) = world
<1>1. ~Controlled(world, who, what)
  BY Permitted
<1>2. Type(world, what) = "exit" => world.objs[what].dest # <<>>
  BY DEF Reach
<1> QED BY <1>1, <1>2 DEF Linked, LinkExit, LinkHome, LinkDropto

\* Building.
LEMMA MortalBuilds ==
  ASSUME FreeStart, NEW who, Mortal(world, who), Building(who)
  PROVE  world' \in Sparing(world, Reach(world, who))
<1> DEFINE g == world
           A == Reach(g, who)
           W == Sparing(g, A)
<1>0. Turn(who)
  BY DEF Building, CmdCreate, CmdDig, CmdOpen, CmdAction, CmdAttach, CmdClone,
         CreateProgram, CmdPcreate
<1>t. /\ g \in World /\ FreeExact(g) /\ who \in DOMAIN g.objs /\ who \in Int
      /\ ~IsWizard(g, who)
      /\ \A x : Loc(g, x) \in Int
      /\ \A x \in DOMAIN g.objs : g.objs[x] \in Object /\ x \in Int
      /\ \A o \in DOMAIN g.objs : Type(g, o) = "garbage" => o \in A
  BY <1>0, MortalTurn
<1> HIDE DEF A
<1>l. {"thing", "room", "exit", "program", "player"} \subseteq Live
  BY DEF Live, Types
<1>n. Nothing \in Int
  BY DEF Nothing
<1>m. /\ g \in W /\ \A h \in W : \A what, dest : MoveTo(h, what, dest) \in W
      /\ \A h \in W : h.loose \in BOOLEAN
  BY <1>t, SparingMoves DEF Sparing, World
<1>d. \A after \in W : Does(who, after) => world' \in W
  BY <1>t, SparingDone
<1>b. ASSUME NEW t \in Live, NEW parent, NEW link \in Int
      PROVE  LET h == Built(g, t, who, parent, link)
                 at == NextRef(g, t).ref
             IN  h \in W /\ at \in DOMAIN h.objs /\ Relabels(W, at)
  <2> DEFINE h == Built(g, t, who, parent, link)
             at == NextRef(g, t).ref
  <2>1. h \in W /\ at \in DOMAIN h.objs /\ (at \in A \/ at \notin DOMAIN g.objs)
    BY <1>t, SparingBuilt
  <2> HIDE DEF h, at
  <2>2. Relabels(W, at)
    BY <1>t, <2>1, SparingRelabels
  <2> QED BY <2>1, <2>2 DEF h, at
<1>e. \A h \in W : \A b \in BOOLEAN : [h EXCEPT !.loose = b] \in W
  BY <1>t, SparingLoose
<1> HIDE DEF W
<1> SUFFICES world' \in W
  BY DEF W, A
<1>1. CASE CmdCreate(who)
  <2>1. Built(g, "thing", who, who, Loc(g, who)) \in W
    BY <1>t, <1>l, <1>b
  <2> QED BY <1>1, <1>d, <2>1 DEF CmdCreate
<1>2. CASE CmdDig(who)
  <2> DEFINE at == NextRef(g, "room").ref
             parent == DefaultRoomParent(g, who)
             dug == Built(g, "room", who, parent, Nothing)
  <2>1. dug \in W
    BY <1>l, <1>n, <1>b
  <2>2. \A asked : Rehung(dug, who, at, parent, asked) \in W
    <3> HIDE DEF dug, at, parent
    <3> QED BY <2>1, <1>m DEF Rehung
  <2>3. PICK asked : Does(who, Rehung(dug, who, at, parent, asked))
    BY <1>2 DEF CmdDig
  <2> HIDE DEF dug, at, parent
  <2> QED BY <1>d, <2>2, <2>3
<1>3. CASE CmdOpen(who)
  <2> DEFINE at == NextRef(g, "exit").ref
             here == Loc(g, who)
             made == Built(g, "exit", who, here, Nothing)
  <2>1. made \in W /\ at \in DOMAIN made.objs /\ Relabels(W, at)
    BY <1>l, <1>n, <1>b
  <2>2. PICK args \in {<<>>} \cup Destinations(g) : Does(who, Opened(made, who, at, here, args))
    BY <1>3 DEF CmdOpen
  <2> HIDE DEF made, at, here
  <2>3. args \in Seq(Int)
    <3>1. <<>> \in Seq(Int)
      OBVIOUS
    <3> QED BY <1>t, <2>2, <3>1, DestinationsAreRefs
  <2>4. LinkExitDests(made, who, at, args) \in Seq(Int)
    BY <2>3, TakenAreRefs
  <2>5. Opened(made, who, at, here, args) \in W
    BY <2>1, <2>4 DEF Opened, Relabels
  <2> QED BY <1>d, <2>2, <2>5
<1>4. CASE CmdAction(who)
  <2>1. PICK source : Does(who, [Built(g, "exit", who, source, Nothing) EXCEPT
                           !.loose = @ \/ Type(g, source) = "garbage"])
    BY <1>4 DEF CmdAction
  <2> DEFINE made == Built(g, "exit", who, source, Nothing)
             b == made.loose \/ Type(g, source) = "garbage"
  <2>2. made \in W
    BY <1>l, <1>n, <1>b
  <2>3. Does(who, [made EXCEPT !.loose = b])
    BY <2>1
  <2> HIDE DEF made
  <2>4. b \in BOOLEAN
    BY <1>m, <2>2
  <2> HIDE DEF b
  <2> QED BY <1>d, <1>e, <2>2, <2>3, <2>4
<1>5. CASE CmdAttach(who)
  <2>1. PICK exit, source : Does(who, MoveTo(g, exit, source))
    BY <1>5 DEF CmdAttach
  <2> QED BY <1>d, <1>m, <2>1
<1>6. CASE CmdClone(who)
  <2> DEFINE at == NextRef(g, "thing").ref
             made == Built(g, "thing", who, who, Loc(g, who))
  <2>1. PICK thing \in DOMAIN g.objs :
            Does(who, [made EXCEPT !.objs[at].flags = g.objs[thing].flags])
    BY <1>6 DEF CmdClone
  <2>2. made \in W /\ at \in DOMAIN made.objs /\ Relabels(W, at)
    BY <1>l, <1>t, <1>b
  <2>3. g.objs[thing].flags \in SUBSET FlagNames
    BY <1>t DEF Object
  <2> HIDE DEF made, at
  <2>4. [made EXCEPT !.objs[at].flags = g.objs[thing].flags] \in W
    BY <2>2, <2>3 DEF Relabels
  <2> QED BY <1>d, <2>1, <2>4
<1>7. CASE CreateProgram(who)
  <2>1. Built(g, "program", who, who, Nothing) \in W
    BY <1>n, <1>l, <1>b
  <2> QED BY <1>7, <1>d, <2>1 DEF CreateProgram
<1>8. ~CmdPcreate(who)
  BY <1>t DEF CmdPcreate
<1> QED BY <1>1, <1>2, <1>3, <1>4, <1>5, <1>6, <1>7, <1>8 DEF Building

\* Linking, owning, flags and recycling.
LEMMA MortalChanges ==
  ASSUME FreeStart, NEW who, Mortal(world, who), Changing(who)
  PROVE  world' \in Sparing(world, Reach(world, who))
<1> DEFINE g == world
           A == Reach(g, who)
           W == Sparing(g, A)
<1>0. Turn(who)
  BY DEF Changing, CmdLink, CmdUnlink, CmdRelink, CmdChown, CmdSet, CmdRecycle, CmdToad
<1>t. /\ g \in World /\ FreeExact(g) /\ who \in DOMAIN g.objs /\ who \in Int
      /\ OwnerOf(g, who) = who /\ ~IsWizard(g, who)
      /\ \A x \in DOMAIN g.objs : g.objs[x] \in Object /\ x \in Int
  BY <1>0, MortalTurn
<1>c. \A what \in DOMAIN g.objs : Controlled(g, who, what) => what \in A
  BY <1>0, Permitted
<1>f. \A what \in DOMAIN g.objs : what \notin A => \A args : Linked(g, who, what, args) = g
  BY <1>0, Refused
<1>o. \A what \in DOMAIN g.objs :
         \/ ControlsLink(g, who, what)
         \/ Has(g, what, "chown_ok")
         \/ Type(g, what) = "exit" /\ g.objs[what].dest = <<>>
         => what \in A
  BY DEF Reach
<1> HIDE DEF A
<1>m. g \in W
  BY <1>t, SparingMoves
<1>r. W \in SUBSET World /\ \A what \in A : Relabels(W, what)
  BY <1>t, SparingRelabels DEF Sparing
<1>x. \A what \in A : Recycle(g, what) \in W
  BY <1>t, SparingRecycled
<1>d. \A after \in W : Does(who, after) => world' \in W
  BY <1>t, SparingDone
<1>p. Players(g) \subseteq DOMAIN g.objs
  BY DEF Players
<1>a. \A args \in Destinations(g) : args \in Seq(Int)
  BY <1>t, DestinationsAreRefs
<1> HIDE DEF W
<1> SUFFICES world' \in W
  BY DEF W, A
<1>1. CASE CmdLink(who)
  <2>1. PICK what \in DOMAIN g.objs, args \in Destinations(g) :
            Does(who, Linked(g, who, what, args))
    BY <1>1 DEF CmdLink
  <2>2. CASE what \in A
    <3>1. Linked(g, who, what, args) \in W
      BY <1>t, <1>m, <1>r, <1>a, <2>2, LinkedKeeps
    <3> QED BY <1>d, <2>1, <3>1
  <2>3. CASE what \notin A
    <3>1. Linked(g, who, what, args) = g
      BY <1>f, <2>3
    <3> QED BY <1>d, <1>m, <2>1, <3>1
  <2> QED BY <2>2, <2>3
<1>2. CASE CmdUnlink(who)
  <2>1. PICK what \in DOMAIN g.objs :
            /\ Controlled(g, who, what) \/ ControlsLink(g, who, what)
            /\ Does(who, Unlinked(g, what))
    BY <1>2 DEF CmdUnlink
  <2>2. Unlinked(g, what) \in W
    BY <1>m, <1>r, <1>c, <1>o, <2>1, UnlinkedKeeps
  <2> QED BY <1>d, <2>1, <2>2
<1>3. CASE CmdRelink(who)
  <2>1. PICK what \in DOMAIN g.objs, args \in Destinations(g) :
            /\ \/ Type(g, what) = "exit" /\ (g.objs[what].dest = <<>> \/ Controlled(g, who, what))
               \/ Linked(g, who, what, args) # g
            /\ Does(who, Linked(Unlinked(g, what), who, what, args))
    BY <1>3 DEF CmdRelink
  <2>2. what \in A
    BY <1>c, <1>f, <1>o, <2>1
  <2> DEFINE h == Unlinked(g, what)
  <2>3. h \in W /\ DOMAIN h.objs = DOMAIN g.objs
    BY <1>m, <1>r, <2>2, UnlinkedKeeps
  <2> HIDE DEF h
  <2>4. OwnerOf(h, who) \in Int
    BY <1>t, <1>r, <2>3, OwnersAreRefs
  <2>5. Linked(h, who, what, args) \in W
    BY <1>r, <1>a, <2>2, <2>3, <2>4, LinkedKeeps
  <2> QED BY <1>d, <2>1, <2>5 DEF h
<1>4. CASE CmdChown(who)
  <2>0. ~Wizard(g, who)
    BY DEF Mortal
  <2>1. PICK what \in DOMAIN g.objs, to \in Players(g) :
            /\ \/ Type(g, what) = "exit"
                  /\ (g.objs[what].dest = <<>> \/ ControlsLink(g, who, what))
               \/ Has(g, what, "chown_ok")
            /\ Does(who, [g EXCEPT !.objs[what].owner = to])
    BY <1>4, <2>0 DEF CmdChown
  <2>2. [g EXCEPT !.objs[what].owner = to] \in W
    <3>1. what \in A /\ to \in Int
      BY <1>o, <1>p, <1>t, <2>1
    <3> QED BY <1>m, <1>r, <3>1 DEF Relabels
  <2> QED BY <1>d, <2>1, <2>2
<1>5. CASE CmdSet(who)
  <2> DEFINE left(what, f) == g.objs[what].flags \ (IF f \in Levels THEN Levels ELSE {})
  <2>1. PICK what \in DOMAIN g.objs, f \in Flags, on \in BOOLEAN :
            /\ Controlled(g, who, what)
            /\ Does(who, [g EXCEPT !.objs[what].flags =
                             IF on THEN left(what, f) \cup {f} ELSE left(what, f) \ {f}])
    BY <1>5 DEF CmdSet
  <2> DEFINE v == IF on THEN left(what, f) \cup {f} ELSE left(what, f) \ {f}
  <2>2. v \in SUBSET FlagNames
    <3>1. g.objs[what].flags \in SUBSET FlagNames /\ f \in FlagNames
      BY <1>t, CommandsAssumption DEF Object
    <3> QED BY <3>1
  <2>3. Does(who, [g EXCEPT !.objs[what].flags = v])
    BY <2>1
  <2> HIDE DEF v, left
  <2>4. [g EXCEPT !.objs[what].flags = v] \in W
    BY <1>m, <1>r, <1>c, <2>1, <2>2 DEF Relabels
  <2> QED BY <1>d, <2>3, <2>4
<1>6. CASE CmdRecycle(who)
  <2>1. PICK what \in DOMAIN g.objs : Controlled(g, who, what) /\ Does(who, Recycle(g, what))
    BY <1>6 DEF CmdRecycle
  <2> QED BY <1>c, <1>d, <1>x, <2>1
<1>7. ~CmdToad(who)
  BY <1>t DEF CmdToad
<1> QED BY <1>1, <1>2, <1>3, <1>4, <1>5, <1>6, <1>7 DEF Changing

\* The primitives of the programs they run.
LEMMA MortalPrograms ==
  ASSUME FreeStart, NEW who, Mortal(world, who), Programs(who)
  PROVE  world' \in Sparing(world, Reach(world, who))
<1> DEFINE g == world
           A == Reach(g, who)
           W == Sparing(g, A)
<1>0. Turn(who)
  BY DEF Programs, PrimMoveTo, PrimNew, PrimCopyObj, PrimCopyPlayer, PrimRecycle,
         PrimSetLink, PrimSetLinksArray, PrimSetOwn
<1>t. /\ g \in World /\ FreeExact(g) /\ who \in DOMAIN g.objs /\ who \in Int
      /\ OwnerOf(g, who) = who /\ ~IsWizard(g, who)
      /\ \A x \in DOMAIN g.objs : g.objs[x] \in Object /\ x \in Int
      /\ \A o \in DOMAIN g.objs : Type(g, o) = "garbage" => o \in A
  BY <1>0, MortalTurn
<1>v. ~(MLevel(g, who) >= 4)
  <2>1. MLevel(g, who) < 4 /\ MLevel(g, who) \in Int
    <3>1. \A flags : Level(flags) \in Int
      BY DEF Level
    <3> QED BY <1>0, <3>1, MortalTurn DEF MLevel
  <2> QED BY <2>1
<1>c. \A what \in DOMAIN g.objs : AtLeast(4, g, who, what) => what \in A
  BY <1>0, Permitted
<1>o. \A what \in DOMAIN g.objs : Has(g, what, "chown_ok") => what \in A
  BY DEF Reach
<1> HIDE DEF A
<1>y. \A x : Type(g, x) \in Types \cup {"none"}
  BY <1>t DEF Type, Exists, Object
<1>l. {"thing", "room", "exit", "program", "player"} \subseteq Live
  BY DEF Live, Types
<1>n. Nothing \in Int
  BY DEF Nothing
<1>p. Players(g) \subseteq DOMAIN g.objs
  BY DEF Players
<1>m. /\ g \in W /\ MovesKeep(W)
      /\ \A h \in W : \A what, dest : MoveTo(h, what, dest) \in W
      /\ \A h \in W : h.loose \in BOOLEAN
  BY <1>t, SparingMoves DEF Sparing, World
<1>r. \A what \in A : Relabels(W, what)
  BY <1>t, SparingRelabels
<1>x. \A what \in A : Recycle(g, what) \in W
  BY <1>t, SparingRecycled
<1>d. \A after \in W : Does(who, after) => world' \in W
  BY <1>t, SparingDone
<1>b. ASSUME NEW t \in Live, NEW parent, NEW link \in Int
      PROVE  LET h == Built(g, t, who, parent, link)
                 at == NextRef(g, t).ref
             IN  h \in W /\ at \in DOMAIN h.objs /\ Relabels(W, at)
  <2> DEFINE h == Built(g, t, who, parent, link)
             at == NextRef(g, t).ref
  <2>1. h \in W /\ at \in DOMAIN h.objs /\ (at \in A \/ at \notin DOMAIN g.objs)
    BY <1>t, SparingBuilt
  <2> HIDE DEF h, at
  <2>2. Relabels(W, at)
    BY <1>t, <2>1, SparingRelabels
  <2> QED BY <2>1, <2>2 DEF h, at
<1>e. \A h \in W : \A b \in BOOLEAN : [h EXCEPT !.loose = b] \in W
  BY <1>t, SparingLoose
<1> HIDE DEF W
<1> SUFFICES world' \in W
  BY DEF W, A
<1>1. CASE PrimMoveTo(who)
  <2>1. \E victim, dest, entering, d :
           /\ Valid(g, victim)
           /\ Does(who, IF entering THEN EnterRoom(g, victim, dest)
                        ELSE [MoveTo(g, victim, dest) EXCEPT !.loose = @ \/ d = "program"])
    BY <1>1 DEF PrimMoveTo
  <2>2. PICK victim, dest, entering, d :
           /\ Valid(g, victim)
           /\ Does(who, IF entering THEN EnterRoom(g, victim, dest)
                        ELSE [MoveTo(g, victim, dest) EXCEPT !.loose = @ \/ d = "program"])
    BY <2>1
  <2>3. EnterRoom(g, victim, dest) \in W
    BY <1>m, TravelKeeps DEF EnterRoom
  <2> DEFINE h == MoveTo(g, victim, dest)
             b == h.loose \/ d = "program"
  <2>4. h \in W
    BY <1>m
  <2>5. Does(who, IF entering THEN EnterRoom(g, victim, dest) ELSE [h EXCEPT !.loose = b])
    BY <2>2
  <2> HIDE DEF h
  <2>6. b \in BOOLEAN
    BY <1>m, <2>4
  <2> HIDE DEF b
  <2> QED BY <1>d, <1>e, <2>3, <2>4, <2>5, <2>6
<1>2. CASE PrimNew(who)
  <2>1. PICK t \in {"thing", "room", "exit"}, parent \in DOMAIN g.objs :
          Does(who, [Built(g, t, who, parent, IF t = "thing" THEN parent ELSE Nothing)
                        EXCEPT !.loose = @ \/ Type(g, parent) \in {"exit", "program"}])
    BY <1>2 DEF PrimNew
  <2> DEFINE h == Built(g, t, who, parent, IF t = "thing" THEN parent ELSE Nothing)
             b == h.loose \/ Type(g, parent) \in {"exit", "program"}
  <2>2. h \in W
    BY <1>b, <1>l, <1>n, <1>t
  <2>3. Does(who, [h EXCEPT !.loose = b])
    BY <2>1
  <2> HIDE DEF h
  <2>4. b \in BOOLEAN
    BY <1>m, <2>2
  <2> HIDE DEF b
  <2> QED BY <1>d, <1>e, <2>2, <2>3, <2>4
<1>3. CASE PrimCopyObj(who)
  <2> DEFINE at == NextRef(g, "thing").ref
             made == Built(g, "thing", who, who, who)
  <2>1. PICK src \in DOMAIN g.objs :
            Does(who, [made EXCEPT !.objs[at].flags = g.objs[src].flags])
    BY <1>3 DEF PrimCopyObj
  <2>2. made \in W /\ at \in DOMAIN made.objs /\ Relabels(W, at)
    BY <1>l, <1>t, <1>b
  <2>3. g.objs[src].flags \in SUBSET FlagNames
    BY <1>t DEF Object
  <2> HIDE DEF made, at
  <2>4. [made EXCEPT !.objs[at].flags = g.objs[src].flags] \in W
    BY <2>2, <2>3 DEF Relabels
  <2> QED BY <1>d, <2>1, <2>4
<1>4. ~PrimCopyPlayer(who)
  BY <1>v DEF PrimCopyPlayer
<1>5. CASE PrimRecycle(who)
  <2>1. PICK what \in DOMAIN g.objs : AtLeast(4, g, who, what) /\ Does(who, Recycle(g, what))
    BY <1>5 DEF PrimRecycle
  <2> QED BY <1>c, <1>d, <1>x, <2>1
<1>6. CASE PrimSetLink(who)
  <2>1. PICK what \in DOMAIN g.objs, dest \in DOMAIN g.objs, t \in Types \cup {"none"} :
            /\ AtLeast(4, g, who, what)
            /\ Does(who, IF t = "exit" THEN [g EXCEPT !.objs[what].dest = <<dest>>]
                         ELSE [g EXCEPT !.objs[what].link = dest])
    BY <1>6, <1>y DEF PrimSetLink
  <2>2. <<dest>> \in Seq(Int) /\ dest \in Int
    BY <1>t
  <2>3. /\ [g EXCEPT !.objs[what].dest = <<dest>>] \in W
        /\ [g EXCEPT !.objs[what].link = dest] \in W
    BY <1>m, <1>r, <1>c, <2>1, <2>2 DEF Relabels
  <2> QED BY <1>d, <2>1, <2>3
<1>7. CASE PrimSetLinksArray(who)
  <2>1. PICK what \in DOMAIN g.objs, dests \in {<<>>} \cup Destinations(g),
             t \in Types \cup {"none"} :
            /\ AtLeast(4, g, who, what)
            /\ Does(who, IF t = "exit" THEN [g EXCEPT !.objs[what].dest = dests]
                         ELSE [g EXCEPT !.objs[what].link =
                                  IF dests = <<>> THEN Nothing ELSE dests[1]])
    BY <1>7, <1>y DEF PrimSetLinksArray
  <2> DEFINE first == IF dests = <<>> THEN Nothing ELSE dests[1]
  <2>2. dests \in Seq(Int)
    <3>1. <<>> \in Seq(Int)
      OBVIOUS
    <3> QED BY <1>t, <2>1, <3>1, DestinationsAreRefs
  <2>3. first \in Int
    BY <1>n, <2>2
  <2>4. Does(who, IF t = "exit" THEN [g EXCEPT !.objs[what].dest = dests]
                  ELSE [g EXCEPT !.objs[what].link = first])
    BY <2>1
  <2> HIDE DEF first
  <2>5. /\ [g EXCEPT !.objs[what].dest = dests] \in W
        /\ [g EXCEPT !.objs[what].link = first] \in W
    BY <1>m, <1>r, <1>c, <2>1, <2>2, <2>3 DEF Relabels
  <2> QED BY <1>d, <2>4, <2>5
<1>8. CASE PrimSetOwn(who)
  <2>1. PICK what \in DOMAIN g.objs, to \in Players(g) :
            Has(g, what, "chown_ok") /\ Does(who, [g EXCEPT !.objs[what].owner = to])
    BY <1>8, <1>v DEF PrimSetOwn
  <2>2. [g EXCEPT !.objs[what].owner = to] \in W
    <3>1. what \in A /\ to \in Int
      BY <1>o, <1>p, <1>t, <2>1
    <3> QED BY <1>m, <1>r, <3>1 DEF Relabels
  <2> QED BY <1>d, <2>1, <2>2
<1> QED BY <1>1, <1>2, <1>3, <1>4, <1>5, <1>6, <1>7, <1>8, ZenonT(60) DEF Programs

\* A mortal's command reaches no further than that.
LEMMA MortalStep ==
  ASSUME FreeStart, [Upkeep]_vars, Mortal(world, actor')
  PROVE  world' \in Sparing(world, Reach(world, actor'))
<1>0. world \in World
  BY DEF FreeStart, FreeWorlds
<1>1. CASE Next
  <2>1. PICK who \in Actors : Building(who) \/ Changing(who) \/ Moving(who) \/ Programs(who)
    BY <1>1 DEF Next
  <2>2. actor' = who
    <3>1. CASE Building(who)
      BY <3>1, Zenon DEF Building, CmdCreate, CmdDig, CmdOpen, CmdAction, CmdAttach,
           CmdClone, CreateProgram, CmdPcreate, Does
    <3>2. CASE Changing(who)
      BY <3>2, Zenon DEF Changing, CmdLink, CmdUnlink, CmdRelink, CmdChown, CmdSet,
           CmdRecycle, CmdToad, Does
    <3>3. CASE Moving(who)
      BY <3>3, Zenon DEF Moving, CmdGet, CmdDrop, GoHome, CmdLeave, UseExit, CmdTeleport, Does
    <3>4. CASE Programs(who)
      BY <3>4, ZenonT(60) DEF Programs, PrimMoveTo, PrimNew, PrimCopyObj, PrimCopyPlayer,
           PrimRecycle, PrimSetLink, PrimSetLinksArray, PrimSetOwn, Does
    <3> QED BY <2>1, <3>1, <3>2, <3>3, <3>4
  <2> DEFINE W == Sparing(world, Reach(world, who))
  <2>3. CASE Moving(who)
    <3>1. MovesKeep(W) /\ world \in W
      BY <1>0, SparingMoves
    <3>2. \A after \in W : \A by : Does(by, after) => world' \in W
      BY <1>0, SparingDone
    <3> HIDE DEF W
    <3>3. world' \in W
      BY <2>3, <3>1, <3>2, MovingKeeps
    <3> QED BY <2>2, <3>3 DEF W
  <2>4. CASE Building(who) \/ Changing(who) \/ Programs(who)
    BY <2>2, <2>4, MortalBuilds, MortalChanges, MortalPrograms
  <2> QED BY <2>1, <2>3, <2>4
<1>2. CASE CmdSanchange \/ CmdSanfix \/ Restart
  <2>1. actor' = God
    BY <1>2 DEF CmdSanchange, CmdSanfix, Restart, Does
  <2> QED BY <2>1 DEF Mortal
<1>3. CASE UNCHANGED vars
  BY <1>0, <1>3, SparingMoves DEF vars
<1> QED BY <1>1, <1>2, <1>3 DEF Upkeep

\* A mortal's command, in whatever world, leaves everything outside their reach
\* what it was (world.go:688, prim_db.go:2161).
THEOREM Reaching == FreeStart /\ [][Upkeep]_vars => MortalReach
<1>1. ASSUME FreeStart, [Upkeep]_vars
      PROVE  [Mortal(world, actor') =>
                \A o \in DOMAIN world.objs \ Reach(world, actor') :
                   o \in DOMAIN world'.objs /\ Spared(world, world', o)]_vars
  BY <1>1, MortalStep DEF Sparing
<1> QED BY <1>1, UpkeepStep, PTL DEF MortalReach

-----------------------------------------------------------------------------
\* What @sanfix is done with.

\* An object @sanfix has nothing to do to.
Mended(g, r) ==
    LET o == g.objs[r]
    IN  /\ o.type = "garbage" => o.owner = Nothing /\ o.loc = Nothing
        /\ o.type # "garbage" => /\ Type(g, o.owner) = "player"
                                 /\ r = Root \/ ~BadLocation(g, r)
        /\ ~LinkProblems(g, r)

\* Everything alive is there later, and what it was.
Follows(g, h) == \A x : Valid(g, x) => Valid(h, x) /\ Type(h, x) = Type(g, x)

\* A mended object needs nothing of others but that they stay what they are.
LEMMA MendedStays ==
  ASSUME NEW g \in World, NEW h \in World, Follows(g, h), Swept(h),
         NEW x \in DOMAIN g.objs, x \in DOMAIN h.objs, h.objs[x] = g.objs[x],
         Mended(g, x)
  PROVE  Mended(h, x)
<1> DEFINE o == g.objs[x]
<1>1. o \in Object /\ h.objs[x] = o /\ Type(g, x) = o.type /\ Type(h, x) = o.type
  BY Typed DEF Type, Exists
<1>2. \A y : Type(g, y) \in {"room", "thing", "player"} => Type(h, y) = Type(g, y)
  BY DEF Follows, Valid, Type
<1>3. Loc(g, x) = o.loc /\ Loc(h, x) = o.loc
  BY DEF Loc, Exists
<1>4. o.type = "garbage" => o.owner = Nothing /\ o.loc = Nothing
  BY DEF Mended
<1>5. ASSUME o.type # "garbage"
      PROVE  Type(h, o.owner) = "player" /\ (x = Root \/ ~BadLocation(h, x))
  <2>1. Type(g, o.owner) = "player" /\ (x = Root \/ ~BadLocation(g, x))
    BY <1>5 DEF Mended
  <2> QED BY <1>1, <1>2, <1>3, <2>1 DEF BadLocation, Holders
<1>6. ~LinkProblems(h, x)
  <2>0. ~LinkProblems(g, x)
    BY DEF Mended
  <2>1. CASE o.type = "room"
    BY <1>1, <1>2, <2>0, <2>1 DEF LinkProblems
  <2>2. CASE o.type = "thing"
    BY <1>1, <1>2, <2>0, <2>2 DEF LinkProblems, Holders
  <2>3. CASE o.type = "player"
    BY <1>1, <1>2, <2>0, <2>3 DEF LinkProblems
  <2>4. CASE o.type = "exit"
    <3>1. \A d : Valid(g, d) => Valid(h, d)
      BY DEF Follows
    <3> QED BY <1>1, <2>0, <2>4, <3>1 DEF LinkProblems
  <2>5. CASE o.type = "garbage"
    <3>1. o.next = Nothing
      BY <1>1, <2>5 DEF Swept
    <3>2. ~Valid(h, Nothing)
      BY Typed DEF Valid, Exists
    <3> QED BY <1>1, <2>5, <3>1, <3>2 DEF LinkProblems
  <2>6. CASE o.type = "program"
    BY <1>1, <2>6 DEF LinkProblems
  <2> QED BY <1>1, <2>1, <2>2, <2>3, <2>4, <2>5, <2>6 DEF Object, Types
<1> QED BY <1>1, <1>4, <1>5, <1>6 DEF Mended

\* While it works, the lost-and-found it made is mended.
Fixes(hand) ==
    {s \in FixStates(hand) :
        /\ Type(s.g, Root) = "room"
        /\ Swept(s.g)
        /\ s.room # Nothing =>
              /\ Type(s.g, s.room) = "room" /\ s.room # Root
              /\ Type(s.g, s.player) = "player"
              /\ Mended(s.g, s.room) /\ Mended(s.g, s.player)}

\* Who is not of the lost-and-found.
Apart(s, r) == s.room # Nothing => r # s.room /\ r # s.player

Rewrite(s, r, o) == [s EXCEPT !.g.objs[r] = o]

\* An object written anew, of the kind it was, disturbs no other.
Rewrites(hand, s, t, r, o) ==
    /\ t \in Fixes(hand) /\ t.room = s.room /\ t.player = s.player
    /\ DOMAIN t.g.objs = DOMAIN s.g.objs
    /\ t.g.objs[r] = o
    /\ \A x \in DOMAIN s.g.objs \ {r} : t.g.objs[x] = s.g.objs[x]
    /\ \A x : Type(t.g, x) = Type(s.g, x)
    /\ \A x \in DOMAIN s.g.objs \ {r} : Mended(s.g, x) => Mended(t.g, x)

\* A write of an object apart from Lost and Found's, keeping its kind and its
\* place on the list, is such a rewriting.
LEMMA Rewritten ==
  ASSUME NEW hand, NEW s \in Fixes(hand), NEW r \in DOMAIN s.g.objs, Apart(s, r),
         NEW o \in Object, o.type = s.g.objs[r].type, o.next = s.g.objs[r].next
  PROVE  Rewrites(hand, s, Rewrite(s, r, o), r, o)
<1> DEFINE t == Rewrite(s, r, o)
<1> DEFINE g == s.g
           h == [g EXCEPT !.objs[r] = o]
<1>1. s \in FixStates(hand) /\ g \in Marked(hand) /\ g \in World /\ FreeExact(g)
      /\ Type(g, Root) = "room" /\ Swept(g)
  BY DEF Fixes, FixStates, FixesOf, Marked, FreeWorlds
<1>2. h \in World /\ h.objs = [g.objs EXCEPT ![r] = o] /\ h.free = g.free
      /\ h.damaged = g.damaged
  <2> HIDE DEF g
  <2>1. h \in World
    BY <1>1, Written
  <2> QED BY <1>1, <2>1 DEF World
<1>3. t = [s EXCEPT !.g = h]
  BY DEF Rewrite
<1> HIDE DEF h, t
<1>4. /\ DOMAIN h.objs = DOMAIN g.objs /\ h.objs[r] = o
      /\ \A x \in DOMAIN g.objs \ {r} : h.objs[x] = g.objs[x]
      /\ \A x \in DOMAIN g.objs : h.objs[x].type = g.objs[x].type
  BY <1>2
<1>5. \A x : Type(h, x) = Type(g, x)
  BY <1>4 DEF Type, Exists
<1>6. h \in Marked(hand)
  <2>1. FreeExact(h)
    BY <1>1, <1>2, <1>4, <1>5, FreeKept
  <2> QED BY <1>1, <1>2, <2>1 DEF Marked, FreeWorlds
<1>7. t.g = h /\ t.room = s.room /\ t.player = s.player /\ t \in FixStates(hand)
  BY <1>1, <1>3, <1>6 DEF FixStates, FixesOf
<1>8. Follows(g, h)
  BY <1>4, <1>5 DEF Follows, Valid, Exists, Type
<1>9. Swept(h)
  BY <1>1, <1>4, <1>5 DEF Swept
<1>10. \A x \in DOMAIN g.objs \ {r} : Mended(g, x) => Mended(h, x)
  BY <1>1, <1>2, <1>4, <1>8, <1>9, MendedStays
<1>11. t \in Fixes(hand)
  <2>1. ASSUME s.room # Nothing
        PROVE  /\ Type(h, s.room) = "room" /\ s.room # Root
               /\ Type(h, s.player) = "player"
               /\ Mended(h, s.room) /\ Mended(h, s.player)
    <3>1. /\ Type(g, s.room) = "room" /\ s.room # Root
          /\ Type(g, s.player) = "player"
          /\ Mended(g, s.room) /\ Mended(g, s.player)
          /\ r # s.room /\ r # s.player
      BY <2>1 DEF Fixes, Apart
    <3>2. s.room \in DOMAIN g.objs /\ s.player \in DOMAIN g.objs
      BY <3>1 DEF Type, Exists
    <3> QED BY <1>5, <1>10, <3>1, <3>2
  <2> QED BY <1>1, <1>5, <1>7, <1>9, <2>1 DEF Fixes
<1> QED BY <1>4, <1>5, <1>7, <1>10, <1>11 DEF Rewrites, t

\* What is made is new in all its fields.
LEMMA NewOne ==
  ASSUME NEW g \in World, FreeExact(g), NEW t \in Live, NEW owner \in Int,
         NEW new, new = NextRef(g, t).ref, NEW h, h = Create(g, t, owner)
  PROVE  /\ h \in World
         /\ DOMAIN h.objs = DOMAIN g.objs \cup {new} /\ h.objs[new] = NewObject(t, owner)
         /\ \A x \in DOMAIN g.objs \ {new} : h.objs[x] = g.objs[x]
BY CreatedFrame

\* The lost-and-found is mended from the first, and nothing alive is touched.
LEMMA LostAndFoundMended ==
  ASSUME NEW hand, NEW s \in Fixes(hand)
  PROVE  LET t == WithLostAndFound(s)
         IN  /\ t \in Fixes(hand) /\ t.room # Nothing
             /\ DOMAIN s.g.objs \subseteq DOMAIN t.g.objs
             /\ Follows(s.g, t.g)
             /\ \A x \in DOMAIN t.g.objs \ {t.room, t.player} :
                   x \in DOMAIN s.g.objs /\ t.g.objs[x] = s.g.objs[x]
             /\ \A x : Valid(s.g, x) /\ Apart(s, x) =>
                   Apart(t, x) /\ t.g.objs[x] = s.g.objs[x]
<1> DEFINE t == WithLostAndFound(s)
           g0 == s.g
           g1 == Create(g0, "room", Nothing)
           room == NextRef(g0, "room").ref
           player == NextRef(g1, "player").ref
           h == Create(g1, "player", player)
<1>n. Nothing \in Int /\ Root \in Int /\ "room" \in Live /\ "player" \in Live
  BY DEF Nothing, Root, Live, Types
<1>0. s \in FixStates(hand) /\ Type(g0, Root) = "room" /\ Swept(g0)
  BY DEF Fixes
<1>1. CASE s.room # Nothing
  <2>1. t = s
    BY <1>1 DEF WithLostAndFound
  <2> QED BY <1>1, <2>1 DEF Follows, Valid, Exists, Apart
<1>2. CASE s.room = Nothing
  <2>0. t \in FixStates(hand)
    BY <1>0, AnyEditable, LostAndFound DEF FixStates
  <2>1. g0 \in World /\ FreeExact(g0) /\ g0 \in Marked(hand)
    BY <1>0 DEF FixStates, FixesOf, Marked, FreeWorlds
  <2>2. /\ g1 \in World /\ FreeExact(g1) /\ room \in Nat /\ ~Valid(g0, room)
        /\ DOMAIN g1.objs = DOMAIN g0.objs \cup {room}
        /\ g1.objs[room] = NewObject("room", Nothing)
        /\ \A x \in DOMAIN g0.objs \ {room} : g1.objs[x] = g0.objs[x]
    <3> HIDE DEF g0
    <3> QED BY <2>1, <1>n, CreatedFrame, ZenonT(60)
  <2> HIDE DEF g0, room
  <2> HIDE DEF g1
  <2>3. player \in Int /\ ~Valid(g1, player)
    BY <2>2, <1>n, CreatedFrame
  <2> HIDE DEF player
  <2>4. /\ h \in World
        /\ DOMAIN h.objs = DOMAIN g1.objs \cup {player}
        /\ h.objs[player] = NewObject("player", player)
        /\ \A x \in DOMAIN g1.objs \ {player} : h.objs[x] = g1.objs[x]
    <3>1. NextRef(g1, "player").ref = player
      BY DEF player
    <3>2. h = Create(g1, "player", player)
      OBVIOUS
    <3> HIDE DEF h
    <3> QED BY <2>2, <2>3, <1>n, <3>1, <3>2, NewOne
  <2> HIDE DEF h
  <2> DEFINE d == [h EXCEPT !.objs[room].loc = Root, !.objs[room].owner = player,
                            !.objs[player].loc = room, !.objs[player].link = room]
             ro == [NewObject("room", Nothing) EXCEPT !.loc = Root, !.owner = player]
             po == [NewObject("player", player) EXCEPT !.loc = room, !.link = room]
             k == [h.objs EXCEPT ![room] = ro, ![player] = po]
  <2>5. player # room /\ room # Root /\ player # Root
        /\ \A x : Valid(g0, x) => x # room /\ x # player
    <3>1. g1.objs[room].type = "room" /\ room \in DOMAIN g1.objs
      BY <2>2 DEF NewObject
    <3>2. player # room
      BY <2>3, <3>1 DEF Valid, Exists
    <3>3. \A x : Valid(g0, x) => x # room /\ x # player
      BY <2>2, <2>3 DEF Valid, Exists
    <3>4. Valid(g0, Root)
      BY <1>0 DEF g0, Valid, Exists, Type
    <3> QED BY <3>2, <3>3, <3>4
  <2>6. h.objs[room] = NewObject("room", Nothing) /\ room \in DOMAIN h.objs
        /\ player \in DOMAIN h.objs
    BY <2>2, <2>4, <2>5
  <2>7. d.objs = k
    <3>1. d = [h EXCEPT !.objs = k]
      BY <2>4, <2>5, <2>6
    <3> HIDE DEF d, k
    <3> QED BY <2>4, <3>1 DEF World
  <2>8. t = [s EXCEPT !.room = room, !.player = player, !.g = d]
    BY <1>2 DEF WithLostAndFound, MakeLostAndFound, g0, g1, room, player, h
  <2> HIDE DEF d
  <2>9. t.room = room /\ t.player = player /\ t.g = d /\ room # Nothing
    BY <1>0, <2>2, <2>8 DEF FixStates, FixesOf, Nothing
  <2>10. d \in World
    BY <2>0, <2>9 DEF FixStates, FixesOf, Marked, FreeWorlds
  <2> HIDE DEF t
  <2>11. /\ DOMAIN d.objs = DOMAIN g0.objs \cup {room, player}
         /\ d.objs[room] = ro /\ d.objs[player] = po
         /\ \A x \in DOMAIN d.objs \ {room, player} :
               x \in DOMAIN g0.objs /\ d.objs[x] = g0.objs[x]
    <3> HIDE DEF ro, po
    <3> QED BY <2>2, <2>4, <2>5, <2>6, <2>7
  <2>12. /\ ro.type = "room" /\ ro.owner = player /\ ro.loc = Root /\ ro.link = Nothing
         /\ po.type = "player" /\ po.owner = player /\ po.loc = room /\ po.link = room
    BY DEF NewObject
  <2> HIDE DEF ro, po
  <2>13. \A x : Valid(g0, x) => /\ x \in DOMAIN d.objs \ {room, player}
                                /\ d.objs[x] = g0.objs[x]
    BY <2>5, <2>11 DEF Valid, Exists
  <2>14. Follows(g0, d)
    <3>1. \A x : Valid(g0, x) => x \in DOMAIN g0.objs /\ g0.objs[x].type # "garbage"
      BY DEF Valid, Exists
    <3> QED BY <2>13, <3>1 DEF Follows, Valid, Type, Exists
  <2>15. Type(d, Root) = "room" /\ Type(d, room) = "room" /\ Type(d, player) = "player"
    <3>1. Valid(g0, Root) /\ Type(g0, Root) = "room"
      BY <1>0 DEF g0, Valid, Type, Exists
    <3>2. Type(d, Root) = "room"
      BY <2>14, <3>1 DEF Follows
    <3> QED BY <2>11, <2>12, <3>2 DEF Type, Exists
  <2>16. Swept(d)
    <3> SUFFICES ASSUME NEW x \in DOMAIN d.objs, Type(d, x) = "garbage"
                 PROVE  d.objs[x].next = Nothing
      BY DEF Swept
    <3>1. x \in DOMAIN g0.objs /\ d.objs[x] = g0.objs[x]
      BY <2>11, <2>15
    <3>2. Type(g0, x) = "garbage"
      BY <3>1 DEF Type, Exists
    <3> QED BY <1>0, <3>1, <3>2 DEF Swept, g0
  <2>17. Mended(d, room) /\ Mended(d, player)
    <3>1. Loc(d, room) = Root /\ Loc(d, player) = room
      BY <2>11, <2>12 DEF Loc, Exists
    <3>2. ~BadLocation(d, room) /\ ~BadLocation(d, player)
      BY <2>15, <3>1 DEF BadLocation, Holders
    <3>3. ~LinkProblems(d, room)
      BY <2>11, <2>12 DEF LinkProblems
    <3>4. ~LinkProblems(d, player)
      BY <2>11, <2>12, <2>15 DEF LinkProblems
    <3> QED BY <2>11, <2>12, <2>15, <3>2, <3>3, <3>4 DEF Mended
  <2>18. t \in Fixes(hand)
    BY <2>0, <2>5, <2>9, <2>15, <2>16, <2>17 DEF Fixes
  <2>19. \A x : Valid(g0, x) => Apart(t, x) /\ t.g.objs[x] = g0.objs[x]
    BY <2>9, <2>13 DEF Apart
  <2> QED BY <2>9, <2>11, <2>14, <2>18, <2>19 DEF t, g0
<1> QED BY <1>1, <1>2

\* A mended object is left alone.
LEMMA MendedIdle ==
  ASSUME NEW hand, NEW old, NEW s \in FixStates(hand), NEW r \in DOMAIN s.g.objs, Mended(s.g, r)
  PROVE  FixObject(old, s, r) = s
<1> DEFINE g == s.g
           o == g.objs[r]
<1>1. g \in World /\ o \in Object /\ Type(g, r) = o.type
  BY Typed DEF FixStates, FixesOf, Marked, FreeWorlds, Type, Exists
<1>2. ~LinkProblems(g, r)
  BY DEF Mended
<1>3. [s EXCEPT !.g = FixLinks(@, r)] = s
  <2>1. FixLinks(g, r) = g
    BY <1>2 DEF FixLinks
  <2> QED BY <2>1 DEF FixStates, FixesOf
<1>4. CASE o.type = "garbage"
  <2>1. o.owner = Nothing /\ o.loc = Nothing
    BY <1>4 DEF Mended
  <2> DEFINE p == [o EXCEPT !.owner = Nothing, !.loc = Nothing]
             objs == [g.objs EXCEPT ![r] = p]
             h == [g EXCEPT !.objs = objs]
  <2>2. p = o
    BY <1>1, <2>1 DEF Object
  <2> HIDE DEF p
  <2>3. objs = g.objs
    <3>1. g.objs = [x \in DOMAIN g.objs |-> g.objs[x]]
      BY <1>1, Tops
    <3> QED BY <2>2, <3>1
  <2> HIDE DEF objs
  <2>4. h = g
    BY <1>1, <2>3 DEF World
  <2>5. [s EXCEPT !.g.objs[r].owner = Nothing, !.g.objs[r].loc = Nothing]
           = [s EXCEPT !.g = h]
    BY DEF objs, p
  <2> HIDE DEF h
  <2>6. [s EXCEPT !.g = h] = s
    BY <2>4 DEF FixStates, FixesOf
  <2> QED BY <1>1, <1>3, <1>4, <2>5, <2>6 DEF FixObject
<1>5. CASE o.type # "garbage"
  <2>1. Type(g, o.owner) = "player" /\ (r = Root \/ ~BadLocation(g, r))
    BY <1>5 DEF Mended
  <2>2. FixOwner(s, r) = s
    BY <2>1 DEF FixOwner
  <2>3. FixLocation(s, r) = s
    BY <2>1 DEF FixLocation
  <2> QED BY <1>1, <1>3, <1>5, <2>2, <2>3 DEF FixObject
<1> QED BY <1>4, <1>5

\* From s to t everything but r is left alone, or mended by then.
Along(hand, s, t, r) ==
    /\ t \in Fixes(hand)
    /\ Apart(t, r)
    /\ Valid(s.g, r) /\ Follows(s.g, t.g)
    /\ DOMAIN s.g.objs \subseteq DOMAIN t.g.objs
    /\ \A x \in DOMAIN t.g.objs \ {r} :
          Mended(t.g, x) \/ (x \in DOMAIN s.g.objs /\ ~Mended(s.g, x))

\* The lost-and-found may be made on the way,
LEMMA AlongFound ==
  ASSUME NEW hand, NEW s, NEW r, NEW t, Along(hand, s, t, r)
  PROVE  LET u == WithLostAndFound(t)
         IN  /\ Along(hand, s, u, r) /\ u.room # Nothing
             /\ r \in DOMAIN u.g.objs /\ u.g.objs[r] = t.g.objs[r] /\ Follows(t.g, u.g)
             /\ Type(u.g, u.room) = "room" /\ Type(u.g, u.player) = "player"
             /\ Type(u.g, Root) = "room"
<1> DEFINE u == WithLostAndFound(t)
<1>1. /\ t \in Fixes(hand) /\ Apart(t, r) /\ Valid(s.g, r) /\ Follows(s.g, t.g)
      /\ DOMAIN s.g.objs \subseteq DOMAIN t.g.objs
      /\ \A x \in DOMAIN t.g.objs \ {r} :
            Mended(t.g, x) \/ (x \in DOMAIN s.g.objs /\ ~Mended(s.g, x))
  BY DEF Along
<1>2. Valid(t.g, r) /\ r \in DOMAIN t.g.objs
  BY <1>1 DEF Follows, Valid, Exists
<1>3. /\ u \in Fixes(hand) /\ u.room # Nothing
      /\ DOMAIN t.g.objs \subseteq DOMAIN u.g.objs
      /\ Follows(t.g, u.g)
      /\ \A x \in DOMAIN u.g.objs \ {u.room, u.player} :
            x \in DOMAIN t.g.objs /\ u.g.objs[x] = t.g.objs[x]
      /\ Apart(u, r) /\ u.g.objs[r] = t.g.objs[r]
  BY <1>1, <1>2, LostAndFoundMended
<1> HIDE DEF u
<1>4. /\ Mended(u.g, u.room) /\ Mended(u.g, u.player) /\ Swept(u.g)
      /\ Type(u.g, u.room) = "room" /\ Type(u.g, u.player) = "player"
      /\ Type(u.g, Root) = "room"
  BY <1>3 DEF Fixes
<1>5. u.g \in World /\ t.g \in World
  BY <1>1, <1>3 DEF Fixes, FixStates, FixesOf, Marked, FreeWorlds
<1>6. Follows(s.g, u.g)
  BY <1>1, <1>3 DEF Follows
<1>7. ASSUME NEW x \in DOMAIN u.g.objs \ {r}
      PROVE  Mended(u.g, x) \/ (x \in DOMAIN s.g.objs /\ ~Mended(s.g, x))
  <2>1. CASE x \in {u.room, u.player}
    BY <1>4, <2>1
  <2>2. CASE x \notin {u.room, u.player}
    <3>1. x \in DOMAIN t.g.objs /\ u.g.objs[x] = t.g.objs[x]
      BY <1>3, <2>2
    <3>2. Mended(t.g, x) => Mended(u.g, x)
      BY <1>3, <1>4, <1>5, <3>1, MendedStays
    <3> QED BY <1>1, <3>1, <3>2
  <2> QED BY <2>1, <2>2
<1> QED BY <1>1, <1>2, <1>3, <1>4, <1>6, <1>7 DEF Along, u

\* and r written anew.
Writes(hand, s, t, u, r, o) ==
    /\ Along(hand, s, u, r) /\ r \in DOMAIN u.g.objs /\ u.g.objs[r] = o
    /\ \A x : Type(u.g, x) = Type(t.g, x)

\* A write to an object the fixer has come along to is one more such step.
LEMMA AlongWritten ==
  ASSUME NEW hand, NEW s, NEW r, NEW t, Along(hand, s, t, r),
         NEW o \in Object, o.type = t.g.objs[r].type, o.next = t.g.objs[r].next
  PROVE  Writes(hand, s, t, Rewrite(t, r, o), r, o)
<1> DEFINE u == Rewrite(t, r, o)
<1>1. /\ t \in Fixes(hand) /\ Apart(t, r) /\ Valid(s.g, r) /\ Follows(s.g, t.g)
      /\ DOMAIN s.g.objs \subseteq DOMAIN t.g.objs
      /\ \A x \in DOMAIN t.g.objs \ {r} :
            Mended(t.g, x) \/ (x \in DOMAIN s.g.objs /\ ~Mended(s.g, x))
  BY DEF Along
<1>2. r \in DOMAIN t.g.objs
  BY <1>1 DEF Follows, Valid, Exists
<1>3. /\ u \in Fixes(hand) /\ u.room = t.room /\ u.player = t.player
      /\ DOMAIN u.g.objs = DOMAIN t.g.objs
      /\ u.g.objs[r] = o
      /\ \A x : Type(u.g, x) = Type(t.g, x)
      /\ \A x \in DOMAIN t.g.objs \ {r} : Mended(t.g, x) => Mended(u.g, x)
  <2>1. Rewrites(hand, t, u, r, o)
    BY <1>1, <1>2, Rewritten
  <2> QED BY <2>1 DEF Rewrites
<1> HIDE DEF u
<1>4. Apart(u, r)
  BY <1>1, <1>3 DEF Apart
<1>5. Follows(s.g, u.g)
  <2>1. \A x : Valid(u.g, x) <=> Valid(t.g, x)
    <3>1. \A x : Valid(u.g, x) <=> x \in DOMAIN u.g.objs /\ Type(u.g, x) # "garbage"
      BY DEF Valid, Type, Exists
    <3>2. \A x : Valid(t.g, x) <=> x \in DOMAIN t.g.objs /\ Type(t.g, x) # "garbage"
      BY DEF Valid, Type, Exists
    <3> QED BY <1>3, <3>1, <3>2
  <2> QED BY <1>1, <1>3, <2>1 DEF Follows
<1> QED BY <1>1, <1>2, <1>3, <1>4, <1>5 DEF Along, Writes, u

\* It is given an owner,
LEMMA OwnerMended ==
  ASSUME NEW hand, NEW s, NEW r, NEW t, Along(hand, s, t, r)
  PROVE  LET u == FixOwner(t, r)
         IN  /\ Along(hand, s, u, r) /\ r \in DOMAIN u.g.objs
             /\ Type(u.g, u.g.objs[r].owner) = "player"
<1>0. t \in Fixes(hand) /\ r \in DOMAIN t.g.objs
  BY DEF Along, Follows, Valid, Exists
<1>1. CASE Type(t.g, t.g.objs[r].owner) = "player"
  BY <1>0, <1>1 DEF FixOwner
<1>2. CASE Type(t.g, t.g.objs[r].owner) # "player"
  <2> DEFINE u == WithLostAndFound(t)
             o == u.g.objs[r]
             p == [o EXCEPT !.owner = u.player]
             w == Rewrite(u, r, p)
  <2>1. /\ Along(hand, s, u, r) /\ r \in DOMAIN u.g.objs
        /\ Type(u.g, u.player) = "player"
    BY AlongFound
  <2>2. FixOwner(t, r) = w
    BY <1>2 DEF FixOwner, Own, Rewrite
  <2> HIDE DEF u
  <2>3. o \in Object /\ u.player \in Int
    BY <2>1, Typed DEF Along, Fixes, FixStates, FixesOf, Marked, FreeWorlds
  <2>4. p \in Object /\ p.type = o.type /\ p.next = o.next /\ p.owner = u.player
    BY <2>3 DEF Object
  <2> HIDE DEF p
  <2>5. w = Rewrite(u, r, p)
    OBVIOUS
  <2> HIDE DEF w
  <2>6. /\ Along(hand, s, w, r) /\ r \in DOMAIN w.g.objs /\ w.g.objs[r] = p
        /\ \A x : Type(w.g, x) = Type(u.g, x)
    <3>1. Writes(hand, s, u, w, r, p)
      BY <2>1, <2>4, <2>5, AlongWritten
    <3> QED BY <3>1 DEF Writes
  <2> QED BY <2>1, <2>2, <2>4, <2>6
<1> QED BY <1>1, <1>2

\* a place,
LEMMA LocationMended ==
  ASSUME NEW hand, NEW s, NEW r, NEW t, Along(hand, s, t, r),
         Type(t.g, t.g.objs[r].owner) = "player"
  PROVE  LET u == FixLocation(t, r)
         IN  /\ Along(hand, s, u, r) /\ r \in DOMAIN u.g.objs
             /\ Type(u.g, u.g.objs[r].owner) = "player"
             /\ r = Root \/ ~BadLocation(u.g, r)
<1>0. t \in Fixes(hand) /\ r \in DOMAIN t.g.objs
  BY DEF Along, Follows, Valid, Exists
<1>a. ASSUME NEW u, Along(hand, s, u, r), r \in DOMAIN u.g.objs, NEW v \in Int,
             Type(u.g, u.g.objs[r].owner) = "player", Type(u.g, v) = "room",
             NEW w, w = Rewrite(u, r, [u.g.objs[r] EXCEPT !.loc = v])
      PROVE  /\ Along(hand, s, w, r) /\ r \in DOMAIN w.g.objs
             /\ Type(w.g, w.g.objs[r].owner) = "player"
             /\ ~BadLocation(w.g, r)
  <2> DEFINE o == u.g.objs[r]
             p == [o EXCEPT !.loc = v]
  <2>3. o \in Object
    BY <1>a, Typed DEF Along, Fixes, FixStates, FixesOf, Marked, FreeWorlds
  <2>4. p \in Object /\ p.type = o.type /\ p.next = o.next /\ p.owner = o.owner /\ p.loc = v
    BY <2>3 DEF Object
  <2>5. w = Rewrite(u, r, p)
    BY <1>a
  <2> HIDE DEF p
  <2>6. /\ Along(hand, s, w, r) /\ r \in DOMAIN w.g.objs /\ w.g.objs[r] = p
        /\ \A x : Type(w.g, x) = Type(u.g, x)
    <3>1. Writes(hand, s, u, w, r, p)
      BY <1>a, <2>4, <2>5, AlongWritten
    <3> QED BY <3>1 DEF Writes
  <2>7. Loc(w.g, r) = v
    BY <2>4, <2>6 DEF Loc, Exists
  <2> QED BY <1>a, <2>4, <2>6, <2>7 DEF BadLocation, Holders
<1>1. CASE r = Root \/ ~BadLocation(t.g, r)
  BY <1>0, <1>1 DEF FixLocation
<1>2. CASE ~(r = Root \/ ~BadLocation(t.g, r)) /\ Type(t.g, r) = "player"
  <2> DEFINE w == FixLocation(t, r)
  <2>1. w = Rewrite(t, r, [t.g.objs[r] EXCEPT !.loc = Root])
    BY <1>2 DEF FixLocation, Rewrite
  <2>2. Root \in Int /\ Type(t.g, Root) = "room"
    BY <1>0 DEF Fixes, Root
  <2> HIDE DEF w
  <2>3. /\ Along(hand, s, w, r) /\ r \in DOMAIN w.g.objs
        /\ Type(w.g, w.g.objs[r].owner) = "player"
        /\ ~BadLocation(w.g, r)
    BY <1>0, <1>a, <2>1, <2>2
  <2> QED BY <2>3 DEF w
<1>3. CASE ~(r = Root \/ ~BadLocation(t.g, r)) /\ Type(t.g, r) # "player"
  <2> DEFINE u == WithLostAndFound(t)
             w == FixLocation(t, r)
  <2>1. /\ Along(hand, s, u, r) /\ r \in DOMAIN u.g.objs
        /\ u.g.objs[r] = t.g.objs[r] /\ Follows(t.g, u.g)
        /\ Type(u.g, u.room) = "room"
    BY AlongFound
  <2>2. w = Rewrite(u, r, [u.g.objs[r] EXCEPT !.loc = u.room])
    BY <1>3 DEF FixLocation, Hold, Rewrite
  <2> HIDE DEF u, w
  <2>3. u.room \in Int
    BY <2>1 DEF Along, Fixes, FixStates, FixesOf
  <2>4. Type(u.g, u.g.objs[r].owner) = "player"
    BY <2>1 DEF Follows, Valid, Type
  <2>5. /\ Along(hand, s, w, r) /\ r \in DOMAIN w.g.objs
        /\ Type(w.g, w.g.objs[r].owner) = "player"
        /\ ~BadLocation(w.g, r)
    BY <1>a, <2>1, <2>2, <2>3, <2>4
  <2> QED BY <2>5 DEF w
<1> QED BY <1>1, <1>2, <1>3

\* A sequence of some is a sequence of more.
LEMMA Wider ==
  ASSUME NEW S, NEW T, S \subseteq T, NEW s \in Seq(S)
  PROVE  s \in Seq(T)
<1>1. s = [i \in 1 .. Len(s) |-> s[i]] /\ Len(s) \in Nat /\ \A i \in 1 .. Len(s) : s[i] \in S
  OBVIOUS
<1>2. s \in [1 .. Len(s) -> T]
  BY <1>1
<1> QED BY <1>1, <1>2

\* Some of a sequence, and no other.
LEMMA PickedFrom ==
  ASSUME NEW S, NEW s, Len(s) \in Nat
  PROVE  Picking!Over(S, <<>>, s) \in Seq(S)
<1>1. \A y \in Seq(S), i \in 1 .. Len(s) : Picked(S, y, s[i]) \in Seq(S)
  BY DEF Picked
<1>2. <<>> \in Seq(S)
  OBVIOUS
<1> QED BY <1>1, <1>2, Picking!Keeps

\* and links.
LEMMA LinksMended ==
  ASSUME NEW hand, NEW s, NEW r, NEW t, Along(hand, s, t, r),
         Type(t.g, t.g.objs[r].owner) = "player", r = Root \/ ~BadLocation(t.g, r)
  PROVE  LET u == [t EXCEPT !.g = FixLinks(@, r)]
         IN  Along(hand, s, u, r) /\ r \in DOMAIN u.g.objs /\ Mended(u.g, r)
<1> DEFINE g == t.g
           o == g.objs[r]
           u == [t EXCEPT !.g = FixLinks(@, r)]
<1>0. /\ t \in Fixes(hand) /\ r \in DOMAIN g.objs /\ Valid(g, r)
      /\ Type(g, Root) = "room" /\ t \in FixStates(hand) /\ g \in World
  BY DEF Along, Follows, Valid, Exists, Fixes, FixStates, FixesOf, Marked, FreeWorlds
<1>1. o \in Object /\ o.type # "garbage" /\ Type(g, r) = o.type
  BY <1>0, Typed DEF Valid, Type, Exists
<1>2. CASE ~LinkProblems(g, r)
  <2>1. u = t
    BY <1>0, <1>2 DEF FixLinks, FixStates, FixesOf
  <2> QED BY <1>0, <1>1, <1>2, <2>1 DEF Mended
<1>3. CASE LinkProblems(g, r)
  <2> DEFINE S == {d \in Elems(o.dest) : Valid(g, d) \/ d \in {Home, Nil}}
             dest == Picking!Over(S, <<>>, o.dest)
  <2>1. PICK p \in Object :
           /\ u = Rewrite(t, r, p)
           /\ p.type = o.type /\ p.next = o.next /\ p.owner = o.owner /\ p.loc = o.loc
           /\ o.type = "room" => p.link = Nothing
           /\ o.type = "thing" => p.link = o.owner
           /\ o.type = "player" => p.link = Root
           /\ o.type = "exit" => p.dest = dest
           /\ o.type # "program"
    <3>1. o.type \in {"room", "thing", "player", "exit"}
      BY <1>0, <1>1, <1>3 DEF LinkProblems, Object, Types
    <3>2. CASE o.type = "room"
      <4> DEFINE p == [o EXCEPT !.link = Nothing]
      <4>1. p \in Object /\ p.type = o.type /\ p.next = o.next /\ p.owner = o.owner
            /\ p.loc = o.loc /\ p.link = Nothing
        <5>1. Nothing \in Int
          BY DEF Nothing
        <5> QED BY <1>1, <5>1 DEF Object
      <4>2. u = Rewrite(t, r, p)
        BY <1>3, <3>2 DEF FixLinks, Rewrite
      <4> HIDE DEF p, u, dest
      <4> QED BY <3>2, <4>1, <4>2
    <3>3. CASE o.type = "thing"
      <4> DEFINE p == [o EXCEPT !.link = o.owner]
      <4>1. p \in Object /\ p.type = o.type /\ p.next = o.next /\ p.owner = o.owner
            /\ p.loc = o.loc /\ p.link = o.owner
        BY <1>1 DEF Object
      <4>2. u = Rewrite(t, r, p)
        BY <1>3, <3>3 DEF FixLinks, Rewrite
      <4> HIDE DEF p, u, dest
      <4> QED BY <3>3, <4>1, <4>2
    <3>4. CASE o.type = "player"
      <4> DEFINE p == [o EXCEPT !.link = Root]
      <4>1. p \in Object /\ p.type = o.type /\ p.next = o.next /\ p.owner = o.owner
            /\ p.loc = o.loc /\ p.link = Root
        <5>1. Root \in Int
          BY DEF Root
        <5> QED BY <1>1, <5>1 DEF Object
      <4>2. u = Rewrite(t, r, p)
        BY <1>3, <3>4 DEF FixLinks, Rewrite
      <4> HIDE DEF p, u, dest
      <4> QED BY <3>4, <4>1, <4>2
    <3>5. CASE o.type = "exit"
      <4> DEFINE p == [o EXCEPT !.dest = dest]
      <4>0. dest \in Seq(Int)
        <5>1. Len(o.dest) \in Nat /\ S \subseteq Int
          <6>1. o.dest \in Seq(Int)
            BY <1>1 DEF Object
          <6> QED BY <6>1, SMTT(40) DEF Elems
        <5> HIDE DEF S
        <5>2. dest \in Seq(S)
          BY <5>1, PickedFrom
        <5> HIDE DEF dest
        <5> QED BY <5>1, <5>2, Wider
      <4>2. u = Rewrite(t, r, p)
        BY <1>3, <3>5 DEF FixLinks, Rewrite
      <4> HIDE DEF dest
      <4>1. p \in Object /\ p.type = o.type /\ p.next = o.next /\ p.owner = o.owner
            /\ p.loc = o.loc /\ p.dest = dest
        BY <1>1, <4>0 DEF Object
      <4> HIDE DEF p, u
      <4> QED BY <3>5, <4>1, <4>2
    <3> QED BY <3>1, <3>2, <3>3, <3>4, <3>5
  <2> HIDE DEF u
  <2>2. /\ Along(hand, s, u, r) /\ r \in DOMAIN u.g.objs /\ u.g.objs[r] = p
        /\ \A x : Type(u.g, x) = Type(g, x)
    <3>1. Writes(hand, s, t, u, r, p)
      BY <1>1, <2>1, AlongWritten
    <3> QED BY <3>1 DEF Writes
  <2>3. Loc(u.g, r) = p.loc /\ Loc(g, r) = p.loc
    BY <1>0, <2>1, <2>2 DEF Loc, Exists
  <2>4. r = Root \/ ~BadLocation(u.g, r)
    BY <2>2, <2>3 DEF BadLocation
  <2>5. \A x : Valid(g, x) => Valid(u.g, x)
    <3>1. \A x : Valid(u.g, x) <=> Type(u.g, x) \notin {"none", "garbage"}
      <4>1. \A x \in DOMAIN u.g.objs : u.g.objs[x].type # "none"
        BY <2>2, Typed DEF Along, Fixes, FixStates, FixesOf, Marked, FreeWorlds, Object, Types
      <4> QED BY <4>1 DEF Valid, Type, Exists
    <3>2. \A x : Valid(g, x) <=> Type(g, x) \notin {"none", "garbage"}
      <4>1. \A x \in DOMAIN g.objs : g.objs[x].type # "none"
        BY <1>0, Typed DEF Object, Types
      <4> QED BY <4>1 DEF Valid, Type, Exists
    <3> QED BY <2>2, <3>1, <3>2
  <2>6. ~LinkProblems(u.g, r)
    <3>1. CASE o.type = "room"
      BY <2>1, <2>2, <3>1 DEF LinkProblems
    <3>2. CASE o.type = "thing"
      BY <2>1, <2>2, <3>2 DEF LinkProblems, Holders
    <3>3. CASE o.type = "player"
      BY <1>0, <2>1, <2>2, <3>3 DEF LinkProblems
    <3>4. CASE o.type = "exit"
      <4>1. Len(o.dest) \in Nat
        <5>1. o.dest \in Seq(Int)
          BY <1>1 DEF Object
        <5> QED BY <5>1, SMTT(40)
      <4> HIDE DEF S
      <4>2. dest \in Seq(S)
        BY <4>1, PickedFrom
      <4> HIDE DEF dest
      <4>3. Elems(dest) \subseteq S
        BY <4>2 DEF Elems
      <4>4. \A d \in Elems(p.dest) : Valid(u.g, d) \/ d \in {Home, Nil}
        BY <2>1, <2>5, <3>4, <4>3 DEF S
      <4> QED BY <2>1, <2>2, <3>4, <4>4 DEF LinkProblems
    <3> QED BY <1>1, <2>1, <3>1, <3>2, <3>3, <3>4 DEF Object, Types
  <2>7. Type(u.g, p.owner) = "player" /\ p.type # "garbage"
    BY <1>1, <2>1, <2>2
  <2>8. Mended(u.g, r)
    BY <2>2, <2>4, <2>6, <2>7 DEF Mended
  <2> QED BY <2>2, <2>8 DEF u
<1> QED BY <1>2, <1>3

\* One turn mends an object, and leaves the others alone or mends them too.
LEMMA FixObjectMends ==
  ASSUME NEW hand, NEW old, NEW s \in Fixes(hand), NEW r \in DOMAIN s.g.objs
  PROVE  LET t == FixObject(old, s, r)
         IN  /\ t \in Fixes(hand) /\ DOMAIN s.g.objs \subseteq DOMAIN t.g.objs
             /\ Mended(t.g, r)
             /\ \A x \in DOMAIN t.g.objs :
                   Mended(t.g, x) \/ (x \in DOMAIN s.g.objs /\ ~Mended(s.g, x))
<1> DEFINE g == s.g
           o == g.objs[r]
           t == FixObject(old, s, r)
<1>0. s \in FixStates(hand) /\ g \in World /\ o \in Object /\ Type(g, r) = o.type /\ Swept(g)
  BY Typed DEF Fixes, FixStates, FixesOf, Marked, FreeWorlds, Type, Exists
<1>1. CASE Mended(g, r)
  <2>1. t = s
    BY <1>0, <1>1, MendedIdle
  <2> QED BY <1>1, <2>1
<1>2. CASE ~Mended(g, r)
  <2>0. Apart(s, r)
    BY <1>2 DEF Fixes, Apart
  <2>1. CASE o.type = "garbage"
    <3> DEFINE p == [o EXCEPT !.owner = Nothing, !.loc = Nothing]
               u == Rewrite(s, r, p)
    <3>1. p \in Object /\ p.type = o.type /\ p.next = o.next
          /\ p.owner = Nothing /\ p.loc = Nothing
      <4>1. Nothing \in Int
        BY DEF Nothing
      <4> QED BY <1>0, <4>1 DEF Object
    <3>2. [s EXCEPT !.g.objs[r].owner = Nothing, !.g.objs[r].loc = Nothing] = u
      BY DEF Rewrite
    <3>3. t = [u EXCEPT !.g = FixLinks(@, r)]
      BY <1>0, <2>1, <3>2 DEF FixObject
    <3> HIDE DEF p
    <3>4. Rewrites(hand, s, u, r, p)
      BY <2>0, <3>1, Rewritten
    <3> HIDE DEF u
    <3>5. /\ u \in Fixes(hand) /\ DOMAIN u.g.objs = DOMAIN g.objs /\ u.g.objs[r] = p
          /\ \A x \in DOMAIN g.objs \ {r} : Mended(g, x) => Mended(u.g, x)
      BY <3>4 DEF Rewrites
    <3>6. u \in FixStates(hand) /\ u.g \in World /\ p.next = Nothing
      BY <1>0, <2>1, <3>1, <3>5 DEF Fixes, FixStates, FixesOf, Marked, FreeWorlds, Swept
    <3>7. ~LinkProblems(u.g, r)
      <4>1. ~Valid(u.g, Nothing)
        BY <3>6, Typed DEF Valid, Exists
      <4> QED BY <2>1, <3>1, <3>5, <3>6, <4>1 DEF LinkProblems
    <3>8. Mended(u.g, r)
      BY <2>1, <3>1, <3>5, <3>7 DEF Mended
    <3>9. t = u
      <4>1. FixLinks(u.g, r) = u.g
        BY <3>7 DEF FixLinks
      <4> QED BY <3>3, <3>6, <4>1 DEF FixStates, FixesOf
    <3> QED BY <3>5, <3>8, <3>9
  <2>2. CASE o.type # "garbage"
    <3> DEFINE u == FixOwner(s, r)
               v == FixLocation(u, r)
               w == [v EXCEPT !.g = FixLinks(@, r)]
    <3>1. Along(hand, s, s, r)
      BY <1>0, <2>0, <2>2 DEF Along, Follows, Valid, Exists
    <3>2. t = w
      BY <1>0, <2>2 DEF FixObject
    <3>3. /\ Along(hand, s, u, r) /\ r \in DOMAIN u.g.objs
          /\ Type(u.g, u.g.objs[r].owner) = "player"
      BY <3>1, OwnerMended
    <3> HIDE DEF u
    <3>4. /\ Along(hand, s, v, r) /\ r \in DOMAIN v.g.objs
          /\ Type(v.g, v.g.objs[r].owner) = "player"
          /\ r = Root \/ ~BadLocation(v.g, r)
      BY <3>3, LocationMended
    <3> HIDE DEF v
    <3>5. Along(hand, s, w, r) /\ r \in DOMAIN w.g.objs /\ Mended(w.g, r)
      BY <3>4, LinksMended
    <3> HIDE DEF w
    <3>6. /\ w \in Fixes(hand) /\ DOMAIN g.objs \subseteq DOMAIN w.g.objs
          /\ Mended(w.g, r)
          /\ \A x \in DOMAIN w.g.objs :
                Mended(w.g, x) \/ (x \in DOMAIN g.objs /\ ~Mended(g, x))
      <4>1. /\ w \in Fixes(hand) /\ DOMAIN g.objs \subseteq DOMAIN w.g.objs
            /\ \A x \in DOMAIN w.g.objs \ {r} :
                  Mended(w.g, x) \/ (x \in DOMAIN g.objs /\ ~Mended(g, x))
        BY <3>5 DEF Along
      <4> QED BY <3>5, <4>1
    <3> QED BY <3>2, <3>6
  <2> QED BY <2>1, <2>2 DEF t
<1> QED BY <1>1, <1>2

\* Once everything had its turn, everything is mended, what was made included.
LEMMA AllMended ==
  ASSUME NEW hand, NEW g \in Marked(hand), Type(g, Root) = "room", Swept(g)
  PROVE  LET t == Fixing!Over(g, [g |-> g, room |-> Nothing, player |-> Nothing],
                              InOrder(g, DOMAIN g.objs))
         IN  t \in Fixes(hand) /\ \A x \in DOMAIN t.g.objs : Mended(t.g, x)
<1> DEFINE s == [g |-> g, room |-> Nothing, player |-> Nothing]
           list == InOrder(g, DOMAIN g.objs)
           t == Fixing!Over(g, s, list)
<1>0. g \in World
  BY DEF Marked, FreeWorlds
<1>1. s \in Fixes(hand) /\ s.g = g
  <2>1. Nothing \in Int
    BY DEF Nothing
  <2> QED BY <2>1 DEF Fixes, FixStates, FixesOf
<1>2. /\ Len(list) \in Nat /\ \A i \in 1 .. Len(list) : list[i] \in DOMAIN g.objs
      /\ \A x \in DOMAIN g.objs : \E i \in 1 .. Len(list) : list[i] = x
  <2>1. list \in Seq(DOMAIN g.objs) /\ Elems(list) = DOMAIN g.objs
    BY <1>0, InOrderIs
  <2> HIDE DEF list
  <2> QED BY <2>1 DEF Elems
<1> HIDE DEF list, s
<1>3. PICK f : Fixing!After(f, g, s, list)
  BY <1>2, Fixing!Unfolds
<1>4. /\ f[0] = s
      /\ \A i \in 1 .. Len(list) : f[i] = FixObject(g, f[i - 1], list[i])
      /\ t = f[Len(list)]
  BY <1>3 DEF Fixing!After
<1> HIDE DEF t
<1> DEFINE Good(i) ==
              /\ f[i] \in Fixes(hand) /\ DOMAIN g.objs \subseteq DOMAIN f[i].g.objs
              /\ \A x \in DOMAIN f[i].g.objs :
                    Mended(f[i].g, x) \/
                       (x \in DOMAIN g.objs /\ \A j \in 1 .. i : list[j] # x)
           T == {i \in Nat : i <= Len(list) => Good(i)}
<1>5. 0 \in T
  BY <1>1, <1>4
<1>6. ASSUME NEW i \in Nat, i \in T PROVE i + 1 \in T
  <2> SUFFICES ASSUME i + 1 <= Len(list) PROVE Good(i + 1)
    OBVIOUS
  <2> DEFINE r == list[i + 1]
             y == f[i]
             z == f[i + 1]
  <2>1. Good(i) /\ i + 1 \in 1 .. Len(list) /\ (i + 1) - 1 = i
    <3>1. i <= Len(list) /\ i + 1 \in 1 .. Len(list) /\ (i + 1) - 1 = i
      BY <1>2
    <3> HIDE DEF Good
    <3> QED BY <1>6, <3>1
  <2>2. z = FixObject(g, y, r) /\ r \in DOMAIN g.objs
    BY <1>2, <1>4, <2>1
  <2>3. /\ y \in Fixes(hand) /\ DOMAIN g.objs \subseteq DOMAIN y.g.objs
        /\ \A x \in DOMAIN y.g.objs :
              Mended(y.g, x) \/ (x \in DOMAIN g.objs /\ \A j \in 1 .. i : list[j] # x)
    BY <2>1
  <2>4. /\ z \in Fixes(hand) /\ DOMAIN y.g.objs \subseteq DOMAIN z.g.objs
        /\ Mended(z.g, r)
        /\ \A x \in DOMAIN z.g.objs :
              Mended(z.g, x) \/ (x \in DOMAIN y.g.objs /\ ~Mended(y.g, x))
    <3> HIDE DEF y, z, r
    <3>1. r \in DOMAIN y.g.objs
      BY <2>2, <2>3
    <3> QED BY <2>2, <2>3, <3>1, FixObjectMends
  <2>5. \A j \in 1 .. i + 1 : j \in 1 .. i \/ j = i + 1
    OBVIOUS
  <2>6. ASSUME NEW x \in DOMAIN z.g.objs, ~Mended(z.g, x)
        PROVE  x \in DOMAIN g.objs /\ \A j \in 1 .. i + 1 : list[j] # x
    <3>1. x # r /\ x \in DOMAIN y.g.objs /\ ~Mended(y.g, x)
      BY <2>4, <2>6
    <3>2. x \in DOMAIN g.objs /\ \A j \in 1 .. i : list[j] # x
      BY <2>3, <3>1
    <3> QED BY <2>5, <3>1, <3>2
  <2> QED BY <2>3, <2>4, <2>6
<1>7. Good(Len(list))
  <2>1. Len(list) \in T
    <3> HIDE DEF T
    <3> QED BY <1>2, <1>5, <1>6, Fixing!Numbers
  <2> HIDE DEF Good
  <2> QED BY <1>2, <2>1
<1>8. t \in Fixes(hand) /\ \A x \in DOMAIN t.g.objs : Mended(t.g, x)
  BY <1>2, <1>4, <1>7
<1> QED BY <1>8 DEF t, s, list

\* Nothing changes when everything is mended.
LEMMA MendedRests ==
  ASSUME NEW hand, NEW old, NEW s \in FixStates(hand), NEW h \in World, NEW S \in SUBSET (DOMAIN h.objs),
         S \subseteq DOMAIN s.g.objs, \A x \in DOMAIN s.g.objs : Mended(s.g, x)
  PROVE  Fixing!Over(old, s, InOrder(h, S)) = s
<1> DEFINE list == InOrder(h, S)
           W == {s}
<1>1. Len(list) \in Nat /\ \A i \in 1 .. Len(list) : list[i] \in DOMAIN s.g.objs
  <2>1. list \in Seq(S)
    BY InOrderIs
  <2> HIDE DEF list
  <2> QED BY <2>1
<1> HIDE DEF list
<1>2. \A y \in W, i \in 1 .. Len(list) : FixObject(old, y, list[i]) \in W
  BY <1>1, MendedIdle
<1>3. s \in W
  OBVIOUS
<1>4. Fixing!Over(old, s, list) \in W
  <2> HIDE DEF W
  <2> QED BY <1>1, <1>2, <1>3, Fixing!Keeps
<1> QED BY <1>4 DEF list

\* So one pass through the objects there were is enough.
LEMMA FixAllMends ==
  ASSUME NEW hand, NEW g \in Marked(hand), Type(g, Root) = "room", Swept(g)
  PROVE  LET t == FixAll([g |-> g, room |-> Nothing, player |-> Nothing], g)
         IN  t \in Fixes(hand) /\ \A x \in DOMAIN t.g.objs : Mended(t.g, x)
<1> DEFINE s == [g |-> g, room |-> Nothing, player |-> Nothing]
           t == Fixing!Over(g, s, InOrder(g, DOMAIN g.objs))
           late == DOMAIN t.g.objs \ DOMAIN g.objs
<1>1. t \in Fixes(hand) /\ \A x \in DOMAIN t.g.objs : Mended(t.g, x)
  BY AllMended
<1>2. FixAll(s, g) = Fixing!Over(g, t, InOrder(t.g, late))
  BY DEF FixAll
<1> HIDE DEF t
<1>3. t \in FixStates(hand) /\ t.g \in World
  BY <1>1 DEF Fixes, FixStates, FixesOf, Marked, FreeWorlds
<1>4. Fixing!Over(g, t, InOrder(t.g, late)) = t
  <2>1. late \in SUBSET (DOMAIN t.g.objs)
    OBVIOUS
  <2> HIDE DEF late
  <2> QED BY <1>1, <1>3, <2>1, MendedRests
<1> QED BY <1>1, <1>2, <1>4

\* Whoever is nowhere is threaded on no list, and keeps what was next.
LEMMA RepairedNext ==
  ASSUME NEW g \in World, NEW m \in DOMAIN g.objs, g.objs[m].loc \notin DOMAIN g.objs
  PROVE  RepairChains(g).objs[m].next = g.objs[m].next
<1> DEFINE s == InOrder(g, DOMAIN g.objs)
           all == Repairing!Over(g, g, s)
           W == {h \in World : Rethreaded(g, h) /\ h.objs[m].next = g.objs[m].next}
<1>1. Len(s) \in Nat /\ \A i \in 1 .. Len(s) : s[i] \in DOMAIN g.objs
  <2>1. s \in Seq(DOMAIN g.objs)
    BY InOrderIs
  <2> HIDE DEF s
  <2> QED BY <2>1
<1> HIDE DEF s
<1>2. g \in W
  BY DEF Rethreaded, Relisted
<1>3. ASSUME NEW h \in W, NEW r \in DOMAIN g.objs, NEW list \in {"contents", "exits"}
      PROVE  RepairList(g, h, r, list) \in W
  <2> DEFINE k == RepairList(g, h, r, list)
             wanted == Wanted(g, r, list)
             members == InOrder(g, wanted)
  <2>1. Rethreaded(g, k) /\ k \in World
    <3>1. Rethreaded(g, h)
      OBVIOUS
    <3>2. Rethreaded(g, k)
      BY <3>1, RepairedList
    <3> QED BY <3>2 DEF Rethreaded, Relisted
  <2>2. CASE SameMembers(Chain(h, h.objs[r][list]), wanted)
    <3>1. k = h
      BY <2>2 DEF RepairList
    <3> QED BY <3>1
  <2>3. CASE ~SameMembers(Chain(h, h.objs[r][list]), wanted)
    <3>1. k = Relink(h, r, list, members)
      BY <2>3 DEF RepairList
    <3>2. members \in Seq(wanted) /\ Elems(members) = wanted /\ Distinct(members)
      <4>1. wanted \in SUBSET (DOMAIN g.objs)
        BY DEF Wanted
      <4> HIDE DEF wanted
      <4> QED BY <4>1, InOrderIs
    <3> HIDE DEF members
    <3>3. h \in World /\ DOMAIN h.objs = DOMAIN g.objs /\ r \in DOMAIN h.objs
          /\ wanted \subseteq DOMAIN h.objs
      BY DEF Rethreaded, Relisted, Wanted
    <3>4. members \in Seq(DOMAIN h.objs)
      <4>1. \A i \in 1 .. Len(members) : members[i] \in DOMAIN h.objs
        BY <3>2, <3>3
      <4> QED BY <3>2, <4>1
    <3>5. m \notin wanted
      BY DEF Wanted, Loc, Exists
    <3> HIDE DEF k, wanted
    <3>6. \A x \in DOMAIN h.objs \ Elems(members) : k.objs[x].next = h.objs[x].next
      BY <3>1, <3>2, <3>3, <3>4, Relinked
    <3> QED BY <2>1, <3>2, <3>3, <3>5, <3>6 DEF k
  <2> QED BY <2>2, <2>3
<1>4. \A h \in W, i \in 1 .. Len(s) : RepairBoth(g, h, s[i]) \in W
  <2> HIDE DEF W
  <2> QED BY <1>1, <1>3 DEF RepairBoth
<1>5. all \in W
  <2> HIDE DEF W
  <2> QED BY <1>1, <1>2, <1>4, Repairing!Keeps
<1>6. RepairChains(g) = [all EXCEPT !.stranded = {}]
  BY DEF RepairChains, s
<1> HIDE DEF all
<1> QED BY <1>5, <1>6 DEF World

\* What a mended object says of itself is what counts, not its lists.
LEMMA MendedAlike ==
  ASSUME NEW g \in World, NEW h \in World, DOMAIN h.objs = DOMAIN g.objs,
         \A y \in DOMAIN g.objs :
            /\ h.objs[y].type = g.objs[y].type /\ h.objs[y].owner = g.objs[y].owner
            /\ h.objs[y].link = g.objs[y].link /\ h.objs[y].dest = g.objs[y].dest
            /\ y = Root \/ h.objs[y].loc = g.objs[y].loc,
         Type(g, Root) = "room", Swept(h), NEW x \in DOMAIN g.objs, Mended(g, x)
  PROVE  Mended(h, x)
<1> DEFINE o == g.objs[x]
           p == h.objs[x]
<1>1. /\ o \in Object /\ p.type = o.type /\ p.owner = o.owner
      /\ p.link = o.link /\ p.dest = o.dest
      /\ Type(g, x) = o.type /\ Type(h, x) = o.type
      /\ x = Root \/ p.loc = o.loc
  BY Typed DEF Type, Exists
<1>2. \A y : Type(h, y) = Type(g, y) /\ (Valid(h, y) <=> Valid(g, y))
  BY DEF Type, Valid, Exists
<1>3. x = Root \/ Loc(h, x) = Loc(g, x)
  BY DEF Loc, Exists
<1>4. x = Root => o.type = "room"
  BY DEF Type, Exists
<1>5. o.type = "garbage" => p.owner = Nothing /\ p.loc = Nothing
  BY <1>1, <1>4 DEF Mended
<1>6. ASSUME o.type # "garbage"
      PROVE  Type(h, p.owner) = "player" /\ (x = Root \/ ~BadLocation(h, x))
  BY <1>1, <1>2, <1>3, <1>6 DEF Mended, BadLocation
<1>7. ~LinkProblems(h, x)
  <2>0. ~LinkProblems(g, x)
    BY DEF Mended
  <2>1. CASE o.type = "garbage"
    <3>1. p.next = Nothing
      BY <1>1, <2>1 DEF Swept
    <3>2. ~Valid(h, Nothing)
      BY Typed DEF Valid, Exists
    <3> QED BY <1>1, <2>1, <3>1, <3>2 DEF LinkProblems
  <2>2. CASE o.type # "garbage"
    BY <1>1, <1>2, <2>0, <2>2 DEF LinkProblems
  <2> QED BY <2>1, <2>2
<1> QED BY <1>1, <1>5, <1>6, <1>7 DEF Mended

\* What @sanfix leaves behind.
Sane(g) ==
    /\ g \in World /\ FreeExact(g) /\ g.stranded = {} /\ RebuildRecyclable(g) = g
    /\ Type(g, Root) = "room" /\ g.objs[Root].loc = Nothing /\ g.objs[Root].next = Nothing
    /\ Swept(g)
    /\ \A x \in DOMAIN g.objs : Mended(g, x)
    /\ \A r \in DOMAIN g.objs, list \in Lists : Holds(g, g, r, list)

\* A load leaves the free list in ref order, and the objects as the repair did.
LEMMA Reloaded ==
  ASSUME NEW g \in World
  PROVE  LET h == RepairChains(g)
             k == Load(g)
         IN  /\ k \in World /\ k.objs = h.objs /\ k.stranded = {} /\ FreeExact(k)
             /\ DOMAIN k.objs = DOMAIN g.objs
             /\ \A x \in DOMAIN g.objs :
                   /\ k.objs[x].type = g.objs[x].type /\ k.objs[x].owner = g.objs[x].owner
                   /\ k.objs[x].link = g.objs[x].link /\ k.objs[x].dest = g.objs[x].dest
                   /\ k.objs[x].loc = g.objs[x].loc
             /\ RebuildRecyclable(k) = k
             /\ \A r \in DOMAIN k.objs, list \in Lists : Holds(k, k, r, list)
<1> DEFINE h == RepairChains(g)
           k == RebuildRecyclable(h)
<1>1. /\ h \in World /\ DOMAIN h.objs = DOMAIN g.objs /\ h.stranded = {}
      /\ \A x \in DOMAIN g.objs :
            /\ h.objs[x].type = g.objs[x].type /\ h.objs[x].owner = g.objs[x].owner
            /\ h.objs[x].link = g.objs[x].link /\ h.objs[x].dest = g.objs[x].dest
            /\ h.objs[x].loc = g.objs[x].loc
      /\ \A r \in DOMAIN g.objs, list \in Lists : Holds(g, h, r, list)
  BY Repaired DEF Relisted, Lists
<1>l. Load(g) = k
  BY DEF Load
<1> HIDE DEF h
<1>2. k \in World /\ FreeExact(k) /\ k = [h EXCEPT !.free = k.free]
  BY <1>1, Rebuilt
<1>r. k = [h EXCEPT !.free = InOrder(h, {x \in DOMAIN h.objs : Type(h, x) = "garbage"})]
  BY DEF RebuildRecyclable
<1> HIDE DEF k
<1>3. k.objs = h.objs /\ k.stranded = {}
      /\ k.free = InOrder(h, {x \in DOMAIN h.objs : Type(h, x) = "garbage"})
  BY <1>1, <1>2, <1>r DEF World
<1>4. RebuildRecyclable(k) = k
  <2>1. {x \in DOMAIN k.objs : Type(k, x) = "garbage"} = {x \in DOMAIN h.objs : Type(h, x) = "garbage"}
    BY <1>3 DEF Type, Exists
  <2>2. \A S : InOrder(k, S) = InOrder(h, S)
    BY <1>3 DEF InOrder, Refs
  <2>3. RebuildRecyclable(k) = [k EXCEPT !.free = k.free]
    BY <1>3, <2>1, <2>2 DEF RebuildRecyclable
  <2> QED BY <1>2, <2>3 DEF World
<1>5. ASSUME NEW r \in DOMAIN k.objs, NEW list \in Lists PROVE Holds(k, k, r, list)
  <2>1. PICK s : Thread(h, h.objs[r][list], s) /\ Elems(s) = Wanted(g, r, list)
    BY <1>1, <1>3 DEF Holds
  <2>2. Thread(k, k.objs[r][list], s)
    BY <1>3, <2>1 DEF Thread
  <2>3. Wanted(k, r, list) = Wanted(g, r, list)
    BY <1>1, <1>3 DEF Wanted, Loc, Type, Exists
  <2> QED BY <2>1, <2>2, <2>3 DEF Holds
<1>6. /\ DOMAIN k.objs = DOMAIN g.objs
      /\ \A x \in DOMAIN g.objs :
            /\ k.objs[x].type = g.objs[x].type /\ k.objs[x].owner = g.objs[x].owner
            /\ k.objs[x].link = g.objs[x].link /\ k.objs[x].dest = g.objs[x].dest
            /\ k.objs[x].loc = g.objs[x].loc
  BY <1>1, <1>3
<1> QED BY <1>2, <1>3, <1>4, <1>5, <1>6, <1>l DEF h

\* Fixed, a world is sane: what was mended says where it is, and the lists
\* are threaded by that.
LEMMA FixIsSane ==
  ASSUME NEW hand, NEW g \in Marked(hand), Type(g, Root) = "room", Swept(g)
  PROVE  Sane(Fix(g))
<1> DEFINE all == FixAll([g |-> g, room |-> Nothing, player |-> Nothing], g)
           c == all.g
           a == [c EXCEPT !.objs[Root].next = Nothing]
           b == [a EXCEPT !.objs[Root].loc = Nothing]
           o == [c.objs[Root] EXCEPT !.next = Nothing, !.loc = Nothing]
<1>n. Nothing \in Int
  BY DEF Nothing
<1>1. all \in Fixes(hand) /\ \A x \in DOMAIN c.objs : Mended(c, x)
  BY FixAllMends
<1>2. Fix(g) = Load(b)
  BY DEF Fix, Load
<1> HIDE DEF all
<1>3. c \in World /\ Type(c, Root) = "room" /\ Swept(c) /\ c.objs[Root] \in Object
      /\ Root \in DOMAIN c.objs
  BY <1>1, Typed DEF Fixes, FixStates, FixesOf, Marked, FreeWorlds, Type, Exists
<1> HIDE DEF c
<1>4. b = [c EXCEPT !.objs[Root] = o]
  BY <1>3
<1>5. o \in Object /\ o.loc = Nothing /\ o.next = Nothing
      /\ o.type = c.objs[Root].type /\ o.owner = c.objs[Root].owner
      /\ o.link = c.objs[Root].link /\ o.dest = c.objs[Root].dest
  BY <1>3, <1>n DEF Object
<1> HIDE DEF a, b, o
<1>6. b \in World /\ b.objs = [c.objs EXCEPT ![Root] = o]
  <2>1. b \in World
    BY <1>3, <1>4, <1>5, Written
  <2> QED BY <1>3, <1>4, <2>1 DEF World
<1>7. /\ DOMAIN b.objs = DOMAIN c.objs /\ b.objs[Root] = o
      /\ \A x \in DOMAIN c.objs \ {Root} : b.objs[x] = c.objs[x]
  BY <1>3, <1>6
<1> DEFINE k == Load(b)
           h == RepairChains(b)
<1>8. /\ k \in World /\ k.objs = h.objs /\ k.stranded = {} /\ FreeExact(k)
      /\ DOMAIN k.objs = DOMAIN b.objs
      /\ \A x \in DOMAIN b.objs :
            /\ k.objs[x].type = b.objs[x].type /\ k.objs[x].owner = b.objs[x].owner
            /\ k.objs[x].link = b.objs[x].link /\ k.objs[x].dest = b.objs[x].dest
            /\ k.objs[x].loc = b.objs[x].loc
      /\ RebuildRecyclable(k) = k
      /\ \A r \in DOMAIN k.objs, list \in Lists : Holds(k, k, r, list)
  BY <1>6, Reloaded
<1>9. \A x \in DOMAIN b.objs : b.objs[x].loc = Nothing => h.objs[x].next = b.objs[x].next
  <2>1. Nothing \notin DOMAIN b.objs
    BY <1>6, Typed
  <2> QED BY <1>6, <2>1, RepairedNext
<1> HIDE DEF k, h
<1>10. /\ Type(k, Root) = "room" /\ k.objs[Root].loc = Nothing /\ k.objs[Root].next = Nothing
  <2>1. k.objs[Root].loc = Nothing /\ k.objs[Root].next = Nothing
    BY <1>3, <1>5, <1>7, <1>8, <1>9
  <2> QED BY <1>3, <1>5, <1>7, <1>8, <2>1 DEF Type, Exists
<1>11. \A y \in DOMAIN c.objs :
          /\ k.objs[y].type = c.objs[y].type /\ k.objs[y].owner = c.objs[y].owner
          /\ k.objs[y].link = c.objs[y].link /\ k.objs[y].dest = c.objs[y].dest
          /\ y = Root \/ k.objs[y].loc = c.objs[y].loc
  <2> TAKE y \in DOMAIN c.objs
  <2>1. CASE y = Root
    BY <1>3, <1>5, <1>7, <1>8, <2>1
  <2>2. CASE y # Root
    BY <1>7, <1>8, <2>2
  <2> QED BY <2>1, <2>2
<1>12. Swept(k)
  <2> SUFFICES ASSUME NEW x \in DOMAIN k.objs, Type(k, x) = "garbage"
               PROVE  k.objs[x].next = Nothing
    BY DEF Swept
  <2>1. x \in DOMAIN c.objs /\ Type(c, x) = "garbage" /\ x # Root
    BY <1>3, <1>7, <1>8, <1>11 DEF Type, Exists
  <2>2. c.objs[x].next = Nothing /\ c.objs[x].loc = Nothing
    BY <1>1, <1>3, <2>1 DEF Swept, Mended, Type, Exists
  <2> QED BY <1>7, <1>8, <1>9, <2>1, <2>2
<1>13. \A x \in DOMAIN k.objs : Mended(k, x)
  BY <1>1, <1>3, <1>7, <1>8, <1>11, <1>12, MendedAlike
<1>14. Sane(k)
  BY <1>8, <1>10, <1>12, <1>13 DEF Sane
<1> QED BY <1>2, <1>14 DEF k

\* What is sane is repaired no further.
LEMMA SaneUnrepaired ==
  ASSUME NEW g, Sane(g)
  PROVE  RepairChains(g) = g
<1>0. g \in World /\ g.stranded = {}
      /\ \A r \in DOMAIN g.objs, list \in {"contents", "exits"} : Holds(g, g, r, list)
  BY DEF Sane, Lists
<1> DEFINE s == InOrder(g, DOMAIN g.objs)
           W == {g}
<1>1. Len(s) \in Nat /\ \A i \in 1 .. Len(s) : s[i] \in DOMAIN g.objs
  <2>1. s \in Seq(DOMAIN g.objs)
    BY <1>0, InOrderIs
  <2> HIDE DEF s
  <2> QED BY <2>1
<1> HIDE DEF s
<1>2. ASSUME NEW r \in DOMAIN g.objs, NEW list \in {"contents", "exits"}
      PROVE  RepairList(g, g, r, list) = g
  <2>1. PICK t : Thread(g, g.objs[r][list], t) /\ Elems(t) = Wanted(g, r, list)
    BY <1>0 DEF Holds
  <2>2. Chain(g, g.objs[r][list]) = t
    BY <1>0, <2>1, ThreadIsChain
  <2>3. Len(t) = Cardinality(Elems(t))
    BY <2>1, DistinctCounts DEF Thread
  <2>4. SameMembers(t, Wanted(g, r, list))
    BY <2>1, <2>3 DEF SameMembers
  <2> QED BY <2>2, <2>4 DEF RepairList
<1>3. \A h \in W, i \in 1 .. Len(s) : RepairBoth(g, h, s[i]) \in W
  BY <1>1, <1>2 DEF RepairBoth
<1>4. Repairing!Over(g, g, s) \in W
  <2>1. g \in W
    OBVIOUS
  <2> HIDE DEF W
  <2> QED BY <1>1, <1>3, <2>1, Repairing!Keeps
<1>5. RepairChains(g) = [g EXCEPT !.stranded = {}]
  BY <1>4 DEF RepairChains, s
<1> QED BY <1>0, <1>5 DEF World

\* Nor is it fixed any further.
LEMMA SaneStays ==
  ASSUME NEW hand, NEW g \in Marked(hand), Sane(g)
  PROVE  Fix(g) = g
<1> DEFINE s == [g |-> g, room |-> Nothing, player |-> Nothing]
           a == [s.g EXCEPT !.objs[Root].next = Nothing]
           b == [a EXCEPT !.objs[Root].loc = Nothing]
           o == [g.objs[Root] EXCEPT !.next = Nothing, !.loc = Nothing]
<1>0. /\ g \in World /\ RebuildRecyclable(g) = g
      /\ Root \in DOMAIN g.objs /\ g.objs[Root].loc = Nothing /\ g.objs[Root].next = Nothing
      /\ \A x \in DOMAIN g.objs : Mended(g, x)
  BY DEF Sane, Type, Exists
<1>1. s \in FixStates(hand) /\ s.g = g
  <2>1. Nothing \in Int
    BY DEF Nothing
  <2> QED BY <2>1 DEF FixStates, FixesOf
<1>2. FixAll(s, g) = s
  <2> HIDE DEF s
  <2>1. ASSUME NEW S \in SUBSET (DOMAIN g.objs)
        PROVE  Fixing!Over(g, s, InOrder(g, S)) = s
    BY <1>0, <1>1, MendedRests
  <2>2. Fixing!Over(g, s, InOrder(g, DOMAIN g.objs)) = s
        /\ Fixing!Over(g, s, InOrder(g, DOMAIN g.objs \ DOMAIN g.objs)) = s
    BY <2>1
  <2> QED BY <1>1, <2>2 DEF FixAll
<1>3. Fix(g) = RebuildRecyclable(RepairChains(b))
  BY <1>2 DEF Fix
<1>4. b = g
  <2> HIDE DEF s
  <2>1. o = g.objs[Root]
    <3>1. g.objs[Root] \in Object
      BY <1>0, Typed
    <3> QED BY <1>0, <3>1 DEF Object
  <2>2. b = [g EXCEPT !.objs[Root] = o]
    BY <1>0, <1>1
  <2> HIDE DEF o
  <2>3. [g.objs EXCEPT ![Root] = o] = g.objs
    <3>1. g.objs = [x \in DOMAIN g.objs |-> g.objs[x]]
      BY <1>0, Tops
    <3> QED BY <2>1, <3>1
  <2> HIDE DEF a, b
  <2> DEFINE objs == [g.objs EXCEPT ![Root] = o]
  <2>4. b = [g EXCEPT !.objs = objs]
    BY <2>2
  <2> HIDE DEF objs
  <2> QED BY <1>0, <2>3, <2>4 DEF World, objs
<1> HIDE DEF b
<1> QED BY <1>0, <1>3, <1>4, SaneUnrepaired

\* In a sane world each list is a thread of those who say they are there.
LEMMA SaneThread ==
  ASSUME NEW g, Sane(g), NEW r \in DOMAIN g.objs, NEW list \in Lists
  PROVE  LET s == Chain(g, g.objs[r][list])
         IN  /\ Thread(g, g.objs[r][list], s) /\ Elems(s) = Wanted(g, r, list)
             /\ Len(s) \in Nat /\ \A i \in 1 .. Len(s) : s[i] \in Wanted(g, r, list)
             /\ \A m \in Wanted(g, r, list) : \E i \in 1 .. Len(s) : s[i] = m
<1> DEFINE head == g.objs[r][list]
<1>0. g \in World /\ Holds(g, g, r, list)
  BY DEF Sane
<1>1. PICK s : Thread(g, head, s) /\ Elems(s) = Wanted(g, r, list)
  BY <1>0 DEF Holds
<1>2. Chain(g, head) = s
  BY <1>0, <1>1, ThreadIsChain
<1>3. Len(s) \in Nat /\ DOMAIN s = 1 .. Len(s)
  BY <1>1 DEF Thread
<1>4. \A i \in 1 .. Len(s) : s[i] \in Wanted(g, r, list)
  BY <1>1, <1>3 DEF Elems
<1>5. \A m \in Wanted(g, r, list) : \E i \in 1 .. Len(s) : s[i] = m
  BY <1>1, <1>3 DEF Elems
<1> QED BY <1>1, <1>2, <1>3, <1>4, <1>5

\* Whoever is alive is somewhere that holds things, but for the root, which is
\* nowhere, as garbage is.
LEMMA SanePlace ==
  ASSUME NEW g, Sane(g), NEW m \in DOMAIN g.objs
  PROVE  \/ /\ Valid(g, m) /\ m # Root
            /\ Loc(g, m) = g.objs[m].loc /\ g.objs[m].loc \in DOMAIN g.objs
            /\ Type(g, g.objs[m].loc) \in Holders
            /\ m \in Wanted(g, g.objs[m].loc, ListOf(Type(g, m)))
            /\ ListOf(Type(g, m)) \in Lists
         \/ /\ m = Root \/ g.objs[m].type = "garbage"
            /\ g.objs[m].loc = Nothing /\ g.objs[m].next = Nothing
<1>0. /\ g \in World /\ Mended(g, m)
      /\ Type(g, Root) = "room" /\ g.objs[Root].loc = Nothing /\ g.objs[Root].next = Nothing
      /\ Swept(g)
  BY DEF Sane
<1>1. Loc(g, m) = g.objs[m].loc /\ Type(g, m) = g.objs[m].type
  BY DEF Loc, Type, Exists
<1>2. CASE m = Root
  BY <1>0, <1>2
<1>3. CASE g.objs[m].type = "garbage"
  <2>1. g.objs[m].loc = Nothing
    BY <1>0, <1>3 DEF Mended
  <2>2. g.objs[m].next = Nothing
    BY <1>0, <1>1, <1>3 DEF Swept
  <2> QED BY <1>3, <2>1, <2>2
<1>4. CASE m # Root /\ g.objs[m].type # "garbage"
  <2>1. ~BadLocation(g, m)
    BY <1>0, <1>4 DEF Mended
  <2>2. Type(g, g.objs[m].loc) \in Holders
    BY <1>1, <2>1 DEF BadLocation
  <2>3. g.objs[m].loc \in DOMAIN g.objs
    BY <2>2 DEF Type, Exists, Holders
  <2>4. Valid(g, m) /\ ListOf(Type(g, m)) \in Lists
    BY <1>4 DEF Valid, Exists, ListOf, Lists
  <2>5. m \in Wanted(g, g.objs[m].loc, ListOf(Type(g, m)))
    BY <1>1 DEF Wanted, ListOf
  <2> QED BY <1>1, <1>4, <2>2, <2>3, <2>4, <2>5
<1> QED BY <1>2, <1>3, <1>4

\* @sanity finds nothing wrong in any object of a sane world.
LEMMA SaneObject ==
  ASSUME NEW g, Sane(g), NEW r \in DOMAIN g.objs
  PROVE  CheckObject(g, r) = {}
<1> DEFINE o == g.objs[r]
<1>0. g \in World /\ Mended(g, r) /\ Nothing \notin DOMAIN g.objs
  BY Typed DEF Sane
<1>1. ASSUME NEW list \in Lists PROVE ListProblems(g, r, list) = {}
  <2> DEFINE s == Chain(g, o[list])
  <2>1. /\ Thread(g, o[list], s) /\ Elems(s) = Wanted(g, r, list)
        /\ Len(s) \in Nat /\ \A i \in 1 .. Len(s) : s[i] \in Wanted(g, r, list)
    BY SaneThread
  <2>2. CASE o.type \in Holders
    <3>1. DOMAIN s = 1 .. Len(s)
      BY <2>1 DEF Thread
    <3>2. \A i \in DOMAIN s : /\ Exists(g, s[i]) /\ Loc(g, s[i]) = r
                              /\ (Type(g, s[i]) = "exit") = (list = "exits")
      BY <2>1, <3>1 DEF Wanted, Exists
    <3>3. s \in Seq(Int) /\ Elems(s) \subseteq DOMAIN g.objs /\ Distinct(s)
      <4>1. \A i \in 1 .. Len(s) : s[i] \in Int
        BY <1>0, <2>1, Typed, SMTT(40) DEF Wanted
      <4>2. s \in Seq(DOMAIN g.objs) /\ Distinct(s)
        BY <2>1 DEF Thread
      <4> HIDE DEF s
      <4> QED BY <2>1, <4>1, <4>2 DEF Wanted
    <3>4. Len(s) <= Cardinality(DOMAIN g.objs)
      BY <1>0, <3>3, Short
    <3>5. ~(Len(s) > Cardinality(DOMAIN g.objs))
      <4>1. Cardinality(DOMAIN g.objs) \in Nat
        BY <1>0, Tops
      <4> HIDE DEF s
      <4> QED BY <2>1, <3>4, <4>1
    <3> QED BY <2>2, <3>2, <3>5 DEF ListProblems, Found
  <2>3. CASE o.type \notin Holders
    <3>1. Type(g, r) \notin Holders
      BY <2>3 DEF Type, Exists
    <3>2. \A m \in DOMAIN g.objs : Loc(g, m) # r
      BY <1>0, <3>1, SanePlace DEF Loc, Exists
    <3>3. Wanted(g, r, list) = {}
      BY <3>2 DEF Wanted
    <3>4. o[list] = Nothing
      <4>1. s = <<>>
        BY <2>1, <3>3 DEF Thread
      <4> QED BY <2>1, <4>1 DEF Thread
    <3> QED BY <2>3, <3>4 DEF ListProblems, Found
  <2> QED BY <2>2, <2>3
<1>2. ~(o.type # "garbage" /\ Type(g, o.owner) # "player") /\ ~LinkProblems(g, r)
  BY <1>0 DEF Mended
<1>3. /\ ~(o.type # "garbage" /\ ~Valid(g, o.loc) /\ ~(r = Root /\ o.loc = Nothing))
      /\ ~(Type(g, o.loc) \in {"garbage", "exit", "program"})
      /\ ~(~(o.type # "garbage") /\ o.loc # Nothing)
  <2>1. CASE Type(g, o.loc) \in Holders
    <3>1. Valid(g, o.loc) /\ o.loc \in DOMAIN g.objs
      BY <2>1 DEF Valid, Type, Exists, Holders
    <3>2. o.type # "garbage"
      BY <1>0, <3>1 DEF Mended
    <3> QED BY <2>1, <3>1, <3>2 DEF Holders
  <2>2. CASE Type(g, o.loc) \notin Holders
    <3>1. o.loc = Nothing /\ (r = Root \/ o.type = "garbage")
      BY <2>2, SanePlace
    <3>2. Type(g, o.loc) = "none"
      BY <1>0, <3>1 DEF Type, Exists
    <3> QED BY <3>1, <3>2
  <2> QED BY <2>1, <2>2
<1>4. "contents" \in Lists /\ "exits" \in Lists
  BY DEF Lists
<1>5. \A p, x, k : ~p => Found(p, x, k) = {}
  BY Zenon DEF Found
<1> QED BY <1>1, <1>2, <1>3, <1>4, <1>5 DEF CheckObject

\* The fields that name an object.
Claims(g, r) ==
    {c \in (DOMAIN g.objs) \X {"exits", "contents", "next"} : g.objs[c[1]][c[2]] = r}

\* Whoever heads a list, or comes next, is on the list of where it is.
LEMMA SaneClaim ==
  ASSUME NEW g, Sane(g), NEW r \in DOMAIN g.objs, NEW c \in Claims(g, r)
  PROVE  LET list == ListOf(Type(g, r))
             s == Chain(g, g.objs[g.objs[r].loc][list])
         IN  /\ g.objs[r].loc \in DOMAIN g.objs
             /\ \/ c = <<g.objs[r].loc, list>> /\ Len(s) >= 1 /\ s[1] = r
                \/ \E i \in 1 .. Len(s) : /\ i + 1 \in 1 .. Len(s)
                                          /\ c = <<s[i], "next">> /\ s[i + 1] = r
<1>0. g \in World /\ Nothing \notin DOMAIN g.objs /\ Loc(g, r) = g.objs[r].loc
  BY Typed DEF Sane, Loc, Exists
<1>1. PICK m \in DOMAIN g.objs, f \in {"exits", "contents", "next"} :
         c = <<m, f>> /\ g.objs[m][f] = r
  BY DEF Claims
<1>w. ASSUME NEW L \in DOMAIN g.objs, NEW list \in Lists, r \in Wanted(g, L, list)
      PROVE  L = g.objs[r].loc /\ list = ListOf(Type(g, r))
  BY <1>0, <1>w, Zenon DEF Wanted, ListOf, Lists
<1>2. CASE f \in Lists
  <2> DEFINE s == Chain(g, g.objs[m][f])
  <2>1. /\ Thread(g, r, s) /\ Len(s) \in Nat
        /\ \A i \in 1 .. Len(s) : s[i] \in Wanted(g, m, f)
    BY <1>1, <1>2, SaneThread
  <2>2. s # <<>> /\ r = s[1]
    BY <1>0, <2>1 DEF Thread
  <2>3. Len(s) >= 1
    <3>1. s \in Seq(DOMAIN g.objs)
      BY <2>1 DEF Thread
    <3> HIDE DEF s
    <3> QED BY <2>2, <3>1
  <2>4. r \in Wanted(g, m, f)
    BY <2>1, <2>2, <2>3
  <2>5. m = g.objs[r].loc /\ f = ListOf(Type(g, r))
    BY <1>2, <1>w, <2>4, Zenon
  <2> QED BY <1>1, <2>2, <2>3, <2>5
<1>3. CASE f \notin Lists
  <2>1. f = "next" /\ g.objs[m].next = r
    BY <1>1, <1>3 DEF Lists
  <2> DEFINE L == g.objs[m].loc
             list == ListOf(Type(g, m))
             s == Chain(g, g.objs[L][list])
  <2>2. L \in DOMAIN g.objs /\ list \in Lists /\ m \in Wanted(g, L, list)
    BY <1>0, <2>1, SanePlace
  <2>3. /\ Thread(g, g.objs[L][list], s) /\ Len(s) \in Nat
        /\ \A i \in 1 .. Len(s) : s[i] \in Wanted(g, L, list)
        /\ \E i \in 1 .. Len(s) : s[i] = m
    <3> HIDE DEF L, list
    <3> QED BY <2>2, SaneThread
  <2>4. PICK i \in 1 .. Len(s) : s[i] = m
    BY <2>3, Zenon
  <2>5. g.objs[m].next = IF i = Len(s) THEN Nothing ELSE s[i + 1]
    BY <2>3, <2>4 DEF Thread
  <2>6. i # Len(s) /\ s[i + 1] = r
    BY <1>0, <2>1, <2>5
  <2> HIDE DEF s
  <2>7. i + 1 \in 1 .. Len(s)
    BY <2>3, <2>4, <2>6
  <2>8. r \in Wanted(g, L, list)
    BY <2>3, <2>6, <2>7
  <2>9. L = g.objs[r].loc /\ list = ListOf(Type(g, r))
    BY <1>w, <2>2, <2>8
  <2>10. L \in DOMAIN g.objs /\ c = <<s[i], "next">>
    BY <1>1, <2>1, <2>2, <2>4
  <2> QED BY <2>4, <2>6, <2>7, <2>9, <2>10 DEF s
<1> QED BY <1>2, <1>3

\* Once, if it is anywhere: by the one before it, or by its container.
LEMMA SaneClaims ==
  ASSUME NEW g, Sane(g), NEW r \in DOMAIN g.objs
  PROVE  Cardinality(Claims(g, r)) = IF Valid(g, r) /\ r # Root THEN 1 ELSE 0
<1>0. g \in World /\ Nothing \notin DOMAIN g.objs
  BY Typed DEF Sane
<1>1. CASE Valid(g, r) /\ r # Root
  <2> DEFINE L == g.objs[r].loc
             list == ListOf(Type(g, r))
             s == Chain(g, g.objs[L][list])
  <2>1. L \in DOMAIN g.objs /\ list \in Lists /\ r \in Wanted(g, L, list)
    BY <1>1, SanePlace DEF Valid
  <2>2. /\ Thread(g, g.objs[L][list], s) /\ Len(s) \in Nat
        /\ \A i \in 1 .. Len(s) : s[i] \in Wanted(g, L, list)
        /\ \E i \in 1 .. Len(s) : s[i] = r
    <3> HIDE DEF L, list
    <3> QED BY <2>1, SaneThread
  <2>3. PICK j \in 1 .. Len(s) : s[j] = r
    BY <2>2, Zenon
  <2>4. \A i \in 1 .. Len(s) : s[i] = r => i = j
    BY <2>2, <2>3, ZenonT(60) DEF Thread, Distinct
  <2>5. \A c \in Claims(g, r) :
           \/ c = <<L, list>> /\ Len(s) >= 1 /\ s[1] = r
           \/ \E i \in 1 .. Len(s) : i + 1 \in 1 .. Len(s) /\ c = <<s[i], "next">> /\ s[i + 1] = r
    BY SaneClaim, Zenon
  <2>6. g.objs[L][list] = (IF s = <<>> THEN Nothing ELSE s[1])
        /\ \A i \in 1 .. Len(s) : g.objs[s[i]].next = IF i = Len(s) THEN Nothing ELSE s[i + 1]
    BY <2>2 DEF Thread
  <2>7. list \in {"exits", "contents", "next"}
    BY <2>1, Zenon DEF Lists
  <2>8. \A i \in 1 .. Len(s) : s[i] \in DOMAIN g.objs
    BY <2>2, Zenon DEF Wanted
  <2>s. s # <<>> /\ Len(s) >= 1 /\ 1 \in 1 .. Len(s)
    <3>1. s \in Seq(DOMAIN g.objs)
      BY <2>2, Zenon DEF Thread
    <3>2. j \in 1 .. Len(s) /\ Len(s) \in Nat
      BY <2>2, Zenon
    <3> HIDE DEF s
    <3> QED BY <3>1, <3>2
  <2> HIDE DEF L, list, s
  <2>9. \E c : Claims(g, r) = {c}
    <3>1. CASE j = 1
      <4>1. <<L, list>> \in Claims(g, r)
        BY <2>1, <2>3, <2>6, <2>7, <2>s, <3>1 DEF Claims
      <4>2. \A c \in Claims(g, r) : c = <<L, list>>
        <5>1. \A i \in 1 .. Len(s) : i + 1 # 1
          OBVIOUS
        <5> QED BY <2>4, <2>5, <3>1, <5>1
      <4>3. Claims(g, r) = {<<L, list>>}
        BY <4>1, <4>2
      <4> QED BY <4>3
    <3>2. CASE j # 1
      <4>1. j - 1 \in 1 .. Len(s) /\ (j - 1) + 1 = j /\ j - 1 # Len(s)
        BY <2>2, <3>2
      <4>2. <<s[j - 1], "next">> \in Claims(g, r)
        BY <2>3, <2>6, <2>8, <4>1 DEF Claims
      <4>3. \A c \in Claims(g, r) : c = <<s[j - 1], "next">>
        <5> TAKE c \in Claims(g, r)
        <5>1. s[1] # r
          BY <2>4, <2>s, <3>2
        <5>2. PICK i \in 1 .. Len(s) : i + 1 \in 1 .. Len(s) /\ c = <<s[i], "next">> /\ s[i + 1] = r
          BY <2>5, <5>1
        <5>3. i = j - 1
          BY <2>2, <2>4, <5>2
        <5> QED BY <5>2, <5>3
      <4>4. Claims(g, r) = {<<s[j - 1], "next">>}
        BY <4>2, <4>3
      <4> QED BY <4>4
    <3> QED BY <3>1, <3>2
  <2> QED BY <1>1, <2>9, FS_Singleton
<1>2. CASE ~(Valid(g, r) /\ r # Root)
  <2>1. g.objs[r].loc = Nothing
    BY <1>2, SanePlace
  <2>2. Claims(g, r) = {}
    BY <1>0, <2>1, SaneClaim
  <2> QED BY <1>2, <2>2, FS_EmptySet
<1> QED BY <1>1, <1>2

\* @sanity passes a sane world, but for the garbage.
LEMMA SaneIsClean ==
  ASSUME NEW g, Sane(g)
  PROVE  CheckClean(g)
<1> DEFINE free == {r \in DOMAIN g.objs : Type(g, r) = "garbage"}
           times(r) == Cardinality(Claims(g, r)) + (IF r = Root THEN 1 ELSE 0)
           found(r) == Found(times(r) > 1, r, "twice") \cup Found(times(r) = 0, r, "orphan")
<1>0. g \in World /\ FreeExact(g) /\ Type(g, Root) = "room"
  BY DEF Sane
<1>1. UNION {CheckObject(g, r) : r \in DOMAIN g.objs} = {}
  BY SaneObject
<1>2. FindOrphans(g) = UNION {found(r) : r \in DOMAIN g.objs}
  BY DEF FindOrphans, Claims
<1>3. ASSUME NEW r \in DOMAIN g.objs
      PROVE  found(r) = IF r \in free THEN {<<r, "orphan">>} ELSE {}
  <2>1. CASE r \in free
    <3>1. r # Root /\ ~Valid(g, r)
      BY <1>0, <2>1 DEF Valid, Type
    <3>2. Cardinality(Claims(g, r)) = 0
      BY <3>1, SaneClaims
    <3> QED BY <2>1, <3>1, <3>2 DEF Found
  <2>2. CASE r \notin free
    <3>1. Valid(g, r)
      BY <2>2 DEF Valid, Type, Exists
    <3>2. Cardinality(Claims(g, r)) = IF r # Root THEN 1 ELSE 0
      BY <3>1, SaneClaims
    <3>3. times(r) = 1
      BY <3>2
    <3> QED BY <2>2, <3>3 DEF Found
  <2> QED BY <2>1, <2>2
<1>4. UNION {found(r) : r \in DOMAIN g.objs} = {<<r, "orphan">> : r \in free}
  <2> HIDE DEF found
  <2>1. \A r \in free : r \in DOMAIN g.objs
    OBVIOUS
  <2> HIDE DEF free
  <2> QED BY <1>3, <2>1
<1>5. Check(g) = {<<r, "orphan">> : r \in free}
  <2>1. FindOrphans(g) = {<<r, "orphan">> : r \in free}
    BY <1>2, <1>4
  <2> HIDE DEF free
  <2> QED BY <1>1, <2>1 DEF Check
<1>6. Elems(g.free) = free
  BY <1>0 DEF FreeExact
<1> QED BY <1>5, <1>6 DEF CheckClean

-----------------------------------------------------------------------------
\* There is always a room at the top, and no command threads garbage.

Topped(hand) == {g \in Marked(hand) : Type(g, Root) = "room"}

\* What is garbage is all the free list tells.
LEMMA RelistedFree ==
  ASSUME NEW hand, NEW g \in Marked(hand), NEW h, Relisted(g, h)
  PROVE  h \in Marked(hand)
<1>1. g \in World /\ FreeExact(g) /\ h \in World /\ DOMAIN h.objs = DOMAIN g.objs
      /\ h.free = g.free /\ h.damaged = hand
  BY DEF Relisted, Marked, FreeWorlds
<1>2. \A r \in DOMAIN g.objs : Type(h, r) = Type(g, r)
  BY DEF Relisted, Type, Exists
<1>3. FreeExact(h)
  BY <1>1, <1>2, FreeKept
<1> QED BY <1>1, <1>3 DEF Marked, FreeWorlds

\* No move, recycling or making unmakes the global environment room.
LEMMA TopClosed ==
  ASSUME NEW hand
  PROVE  Closed(Topped(hand))
<1>0. \A g \in Topped(hand) : g \in Marked(hand) /\ g \in World /\ FreeExact(g)
                              /\ Valid(g, Root) /\ Root \in DOMAIN g.objs
                              /\ g.objs[Root].type = "room"
  BY DEF Topped, Marked, FreeWorlds, Valid, Type, Exists
<1>1. ASSUME NEW g \in Topped(hand), NEW what, NEW dest
      PROVE  MoveTo(g, what, dest) \in Topped(hand)
  <2>1. MoveTo(g, what, dest) \in Marked(hand)
    <3>1. Relisted(g, MoveTo(g, what, dest))
      BY <1>0, MovedFrame
    <3> QED BY <1>0, <3>1, RelistedFree
  <2>2. Relisted(g, MoveTo(g, what, dest))
    BY <1>0, MovedFrame
  <2> QED BY <1>0, <2>1, <2>2 DEF Relisted, Topped, Type, Exists
<1>2. ASSUME NEW g \in Topped(hand), NEW t \in Live, NEW owner \in Int
      PROVE  Create(g, t, owner) \in Topped(hand)
  <2> DEFINE h == Create(g, t, owner)
             new == NextRef(g, t).ref
  <2>1. h \in Marked(hand)
    BY <1>0, FreeClosed DEF Closed
  <2>2. /\ ~Valid(g, new) /\ DOMAIN h.objs = DOMAIN g.objs \cup {new}
        /\ \A r \in DOMAIN g.objs \ {new} : h.objs[r] = g.objs[r]
    BY <1>0, CreatedFrame
  <2> HIDE DEF h, new
  <2>3. Root # new
    BY <1>0, <2>2
  <2>4. Type(h, Root) = "room"
    BY <1>0, <2>2, <2>3 DEF Type, Exists
  <2> QED BY <2>1, <2>4 DEF Topped, h
<1>3. ASSUME NEW g \in Topped(hand), NEW r, r # Root
      PROVE  Recycle(g, r) \in Topped(hand)
  <2>1. CASE Valid(g, r)
    <3> DEFINE h == Recycle(g, r)
               out == IF Loc(g, r) = Nothing THEN g ELSE RemoveFromChain(g, Loc(g, r), r)
    <3>1. h \in Marked(hand)
      BY <1>0, <1>3, FreeClosed DEF Closed
    <3>2. Relisted(g, out) /\ h.objs = [out.objs EXCEPT ![r] = GarbageObject(g.objs[r].link)]
      <4>1. g \in World /\ FreeExact(g)
        BY <1>0
      <4> QED BY <2>1, <4>1, RecycledFrame, Zenon
    <3> HIDE DEF h, out
    <3>3. Type(h, Root) = "room"
      BY <1>0, <1>3, <3>2 DEF Relisted, Type, Exists
    <3> QED BY <3>1, <3>3 DEF Topped, h
  <2>2. CASE ~Valid(g, r)
    BY <2>2 DEF Recycle
  <2> QED BY <2>1, <2>2
<1>4. ASSUME NEW g \in Topped(hand), NEW h, Relabelled(g, h) PROVE h \in Topped(hand)
  <2>1. h \in Marked(hand)
    BY <1>0, <1>4, FreeClosed DEF Closed
  <2> QED BY <1>0, <1>4, <2>1 DEF Relabelled, Topped, Type, Exists
<1> QED BY <1>0, <1>1, <1>2, <1>3, <1>4 DEF Closed, MovesKeep, HoldingsGo

\* Unlinking writes the next of nothing that is garbage.
LEMMA UnlinkedSwept ==
  ASSUME NEW g, Sound(g), NEW what \in DOMAIN g.objs
  PROVE  LET out == IF Loc(g, what) = Nothing THEN g
                    ELSE RemoveFromChain(g, Loc(g, what), what)
         IN  \A m \in DOMAIN g.objs :
                g.objs[m].type = "garbage" => out.objs[m].next = g.objs[m].next
<1> DEFINE c == Loc(g, what)
           list == ListOf(Type(g, what))
           after == g.objs[what].next
           chain == Chain(g, g.objs[c][list])
           before == {r \in Elems(chain) : Exists(g, r) /\ g.objs[r].next = what}
           out == RemoveFromChain(g, c, what)
<1>0. g \in World /\ Placed(g) /\ \A r \in DOMAIN g.objs, l \in Lists : Listed(g, r, l)
  BY DEF Sound
<1>1. list \in {"contents", "exits"}
  BY DEF ListOf
<1> SUFFICES ASSUME c # Nothing, NEW m \in DOMAIN g.objs, g.objs[m].type = "garbage"
             PROVE  out.objs[m].next = g.objs[m].next
  OBVIOUS
<1>2. CASE c \notin DOMAIN g.objs
  BY <1>2 DEF RemoveFromChain, Exists
<1>3. CASE c \in DOMAIN g.objs /\ g.objs[c][list] = what
  <2>1. out = [g EXCEPT !.objs[c][list] = after]
    BY <1>3 DEF RemoveFromChain, Exists
  <2> HIDE DEF list, c, out
  <2>2. g.objs[c] \in Object /\ after \in Int
    BY <1>0, <1>3, Typed DEF Object
  <2> HIDE DEF after
  <2> DEFINE p == [g.objs[c] EXCEPT ![list] = after]
  <2>3. p.next = g.objs[c].next
    BY <1>1, <2>2, ListField
  <2>4. out.objs = [g.objs EXCEPT ![c] = p]
    BY <1>0, <1>3, <2>1 DEF World
  <2> HIDE DEF p
  <2> QED BY <1>3, <2>3, <2>4
<1>4. CASE c \in DOMAIN g.objs /\ g.objs[c][list] # what
  <2>1. CASE before = {}
    BY <1>4, <2>1 DEF RemoveFromChain
  <2>2. CASE before # {}
    <3> DEFINE b == CHOOSE r \in before : TRUE
    <3>1. out = [g EXCEPT !.objs[b].next = after]
      BY <1>4, <2>2 DEF RemoveFromChain, Exists
    <3>2. b \in before
      BY <2>2
    <3>3. Elems(chain) = Awaited(g, c, list)
      <4>1. PICK s : Thread(g, g.objs[c][list], s) /\ Elems(s) = Awaited(g, c, list)
        BY <1>0, <1>1, <1>4 DEF Listed, Lists
      <4> QED BY <1>0, <4>1, ThreadIsChain
    <3> HIDE DEF b, chain, list, after
    <3>4. b \in DOMAIN g.objs /\ g.objs[b].loc = c
      BY <3>2, <3>3 DEF Awaited, Wanted, Loc, Exists
    <3>5. b # m
      BY <1>0, <3>4 DEF Placed
    <3> HIDE DEF c, out, before
    <3> QED BY <1>0, <3>1, <3>5 DEF World
  <2> QED BY <2>1, <2>2
<1> QED BY <1>2, <1>3, <1>4

\* Nor does a move of what is there, a recycling or a making.
SweptWorlds == {g \in SoundWorlds : Swept(g)}

\* The operations thread no garbage, if none was threaded.
LEMMA SweptClosed == Closed(SweptWorlds)
<1>0. \A g \in SweptWorlds : /\ g \in SoundWorlds /\ g \in World /\ FreeExact(g)
                             /\ Sound(g) /\ Swept(g)
  BY DEF SweptWorlds, SoundWorlds, Marked, FreeWorlds
<1>1. ASSUME NEW g \in SweptWorlds, NEW what, NEW dest, Valid(g, what)
      PROVE  MoveTo(g, what, dest) \in SweptWorlds
  <2> DEFINE h == MoveTo(g, what, dest)
             out == IF Loc(g, what) = Nothing THEN g
                    ELSE RemoveFromChain(g, Loc(g, what), what)
  <2>1. h \in SoundWorlds
    BY <1>0, <1>1, SoundClosed DEF Closed, MovesKeep
  <2>2. CASE ~MayMove(g, what, dest)
    <3>1. MoveTo(g, what, dest) = g
      BY <2>2, MoveRefused
    <3> HIDE DEF h, out
    <3> QED BY <1>1, <3>1, Zenon
  <2>3. CASE MayMove(g, what, dest)
    <3>1. what \in DOMAIN g.objs /\ g.objs[what].type # "garbage"
      BY <1>1 DEF Valid, Exists
    <3>2. \A m \in DOMAIN g.objs :
             g.objs[m].type = "garbage" => out.objs[m].next = g.objs[m].next
      BY <1>0, <3>1, UnlinkedSwept
    <3>3. \A m \in DOMAIN g.objs \ {what} : h.objs[m].next = out.objs[m].next
      BY <1>0, <2>3, MovedLists
    <3>4. DOMAIN h.objs = DOMAIN g.objs
          /\ \A m \in DOMAIN g.objs : h.objs[m].type = g.objs[m].type
      BY <1>0, MovedFrame DEF Relisted
    <3> HIDE DEF h, out
    <3>5. Swept(h)
      <4> SUFFICES ASSUME NEW m \in DOMAIN h.objs, Type(h, m) = "garbage"
                   PROVE  h.objs[m].next = Nothing
        BY DEF Swept
      <4>1. m \in DOMAIN g.objs \ {what} /\ g.objs[m].type = "garbage"
        BY <3>1, <3>4 DEF Type, Exists
      <4>2. g.objs[m].next = Nothing
        BY <1>0, <4>1 DEF Swept, Type, Exists
      <4> QED BY <3>2, <3>3, <4>1, <4>2
    <3> QED BY <2>1, <3>5 DEF SweptWorlds, h
  <2> QED BY <2>2, <2>3
<1>2. ASSUME NEW g \in SweptWorlds, NEW h \in SweptWorlds, Alike(g, h),
             NEW r, NEW dest, NEW m \in Elems(Contents(g, r))
      PROVE  MoveTo(h, m, dest) \in SweptWorlds
  <2>1. r \in DOMAIN g.objs
    <3>1. r \notin DOMAIN g.objs => Elems(Contents(g, r)) = {}
      BY DEF Contents, Exists, Elems
    <3> QED BY <1>2, <3>1
  <2>2. Sound(g) /\ g \in World /\ Placed(g)
    BY <1>0 DEF Sound
  <2>3. m \in DOMAIN g.objs /\ g.objs[m].loc = r
    <3>1. m \in Members(g, r)
      BY <1>2 DEF Members
    <3> QED BY <2>1, <2>2, <3>1, MembersAre
  <2>4. g.objs[m].type # "garbage" /\ g.objs[m] \in Object
    BY <2>1, <2>2, <2>3, Typed DEF Placed
  <2>5. Type(h, m) = g.objs[m].type /\ g.objs[m].type # "none"
    BY <1>2, <2>3, <2>4 DEF Alike, Type, Exists, Object, Types
  <2>6. Valid(h, m)
    BY <2>4, <2>5 DEF Valid, Type, Exists
  <2> QED BY <1>1, <2>6
<1>3. ASSUME NEW g \in SweptWorlds, NEW t \in Live, NEW owner \in Int
      PROVE  Create(g, t, owner) \in SweptWorlds
  <2> DEFINE h == Create(g, t, owner)
             new == NextRef(g, t).ref
  <2>1. h \in SoundWorlds
    BY <1>0, SoundClosed DEF Closed
  <2>2. /\ DOMAIN h.objs = DOMAIN g.objs \cup {new} /\ h.objs[new] = NewObject(t, owner)
        /\ \A r \in DOMAIN g.objs \ {new} : h.objs[r] = g.objs[r]
    BY <1>0, CreatedFrame
  <2> HIDE DEF h, new
  <2>3. Swept(h)
    <3> SUFFICES ASSUME NEW m \in DOMAIN h.objs, Type(h, m) = "garbage"
                 PROVE  h.objs[m].next = Nothing
      BY DEF Swept
    <3>1. CASE m = new
      BY <2>2, <3>1 DEF NewObject
    <3>2. CASE m # new
      <4>1. m \in DOMAIN g.objs /\ h.objs[m] = g.objs[m]
        BY <2>2, <3>2
      <4> QED BY <1>0, <4>1 DEF Swept, Type, Exists
    <3> QED BY <3>1, <3>2
  <2> QED BY <2>1, <2>3 DEF SweptWorlds, h
<1>4. ASSUME NEW g \in SweptWorlds, NEW r, r # Root PROVE Recycle(g, r) \in SweptWorlds
  <2>1. CASE Valid(g, r)
    <3> DEFINE h == Recycle(g, r)
               out == IF Loc(g, r) = Nothing THEN g ELSE RemoveFromChain(g, Loc(g, r), r)
               o == GarbageObject(g.objs[r].link)
    <3>1. h \in SoundWorlds
      BY <1>0, <1>4, SoundClosed DEF Closed
    <3>2. Relisted(g, out) /\ h.objs = [out.objs EXCEPT ![r] = o]
      <4>1. g \in World /\ FreeExact(g)
        BY <1>0
      <4> QED BY <2>1, <4>1, RecycledFrame, Zenon
    <3>3. r \in DOMAIN g.objs
      BY <2>1 DEF Valid, Exists
    <3>4. \A m \in DOMAIN g.objs :
             g.objs[m].type = "garbage" => out.objs[m].next = g.objs[m].next
      BY <1>0, <3>3, UnlinkedSwept
    <3>5. o.next = Nothing
      BY DEF GarbageObject, NewObject
    <3> HIDE DEF h, out, o
    <3>6. /\ DOMAIN h.objs = DOMAIN g.objs /\ h.objs[r] = o
          /\ \A m \in DOMAIN g.objs \ {r} : h.objs[m] = out.objs[m]
          /\ \A m \in DOMAIN g.objs : out.objs[m].type = g.objs[m].type
      BY <3>2, <3>3 DEF Relisted
    <3>7. Swept(h)
      <4> SUFFICES ASSUME NEW m \in DOMAIN h.objs, Type(h, m) = "garbage", m # r
                   PROVE  h.objs[m].next = Nothing
        BY <3>5, <3>6 DEF Swept
      <4>1. m \in DOMAIN g.objs \ {r} /\ g.objs[m].type = "garbage"
        BY <3>6 DEF Type, Exists
      <4>2. g.objs[m].next = Nothing
        BY <1>0, <4>1 DEF Swept, Type, Exists
      <4> QED BY <3>4, <3>6, <4>1, <4>2
    <3> QED BY <3>1, <3>7 DEF SweptWorlds, h
  <2>2. CASE ~Valid(g, r)
    BY <2>2 DEF Recycle
  <2> QED BY <2>1, <2>2
<1>5. ASSUME NEW g \in SweptWorlds, NEW h, Relabelled(g, h) PROVE h \in SweptWorlds
  <2>1. h \in SoundWorlds
    BY <1>0, <1>5, SoundClosed DEF Closed
  <2>2. Swept(h)
    BY <1>0, <1>5 DEF Relabelled, Swept, Type, Exists
  <2> QED BY <2>1, <2>2 DEF SweptWorlds
<1> QED BY <1>0, <1>1, <1>2, <1>3, <1>4, <1>5 DEF Closed, MovesKeep, HoldingsGo

\* A load leaves garbage be, and the room at the top.
LEMMA LoadedSwept ==
  ASSUME NEW g \in World
  PROVE  /\ Type(Load(g), Root) = Type(g, Root)
         /\ Placed(g) /\ Swept(g) => Swept(Load(g))
<1> DEFINE k == Load(g)
           h == RepairChains(g)
<1>1. /\ k.objs = h.objs /\ DOMAIN k.objs = DOMAIN g.objs
      /\ \A x \in DOMAIN g.objs : k.objs[x].type = g.objs[x].type
  BY Reloaded
<1>2. ASSUME NEW x \in DOMAIN g.objs, g.objs[x].loc = Nothing
      PROVE  h.objs[x].next = g.objs[x].next
  <2>1. Nothing \notin DOMAIN g.objs
    BY Typed
  <2> QED BY <1>2, <2>1, RepairedNext
<1> HIDE DEF k, h
<1>3. Type(k, Root) = Type(g, Root)
  BY <1>1 DEF Type, Exists
<1>4. ASSUME Placed(g), Swept(g) PROVE Swept(k)
  <2> SUFFICES ASSUME NEW m \in DOMAIN k.objs, Type(k, m) = "garbage"
               PROVE  k.objs[m].next = Nothing
    BY DEF Swept
  <2>1. m \in DOMAIN g.objs /\ g.objs[m].type = "garbage" /\ Type(g, m) = "garbage"
    BY <1>1 DEF Type, Exists
  <2>2. g.objs[m].loc = Nothing /\ g.objs[m].next = Nothing
    BY <1>4, <2>1 DEF Placed, Swept
  <2> QED BY <1>1, <1>2, <2>1, <2>2
<1> QED BY <1>3, <1>4 DEF k

\* Nor does an edit of a reference.
LEMMA TopEdited ==
  ASSUME NEW hand, NEW g \in Marked(hand), NEW r, NEW f \in RefFields, NEW v \in Int,
         Type(g, Root) = "room"
  PROVE  [g EXCEPT !.objs[r][f] = v] \in Topped(hand)
<1> DEFINE h == [g EXCEPT !.objs[r][f] = v]
<1>1. h \in Marked(hand)
  BY Edited
<1>2. DOMAIN h.objs = DOMAIN g.objs
  BY Edited
<1>3. \A x \in DOMAIN g.objs : h.objs[x].type = g.objs[x].type
  <2> DEFINE p == [g.objs[r] EXCEPT ![f] = v]
  <2>1. h.objs = [g.objs EXCEPT ![r] = p]
    BY DEF Marked, FreeWorlds, World
  <2>2. r \in DOMAIN g.objs => p.type = g.objs[r].type
    <3>1. r \in DOMAIN g.objs => g.objs[r] \in Object
      BY Typed DEF Marked, FreeWorlds
    <3>2. f # "type"
      BY DEF RefFields
    <3> QED BY <3>1, <3>2 DEF Object
  <2> HIDE DEF p, h
  <2> QED BY <2>1, <2>2
<1> HIDE DEF h
<1>4. Type(h, Root) = "room"
  BY <1>2, <1>3 DEF Type, Exists
<1> QED BY <1>1, <1>4 DEF Topped, h

\* So whatever God edits, the global environment stays a room.
LEMMA TopEditable ==
  ASSUME NEW hand
  PROVE  Editable(hand, Topped(hand))
<1>0. \A g \in Topped(hand) : g \in Marked(hand) /\ Type(g, Root) = "room"
  BY DEF Topped
<1>1. \A g \in Topped(hand), f \in RefFields, v \in Int : \A r :
         [g EXCEPT !.objs[r][f] = v] \in Topped(hand)
  BY <1>0, TopEdited
<1>2. ASSUME NEW g \in Topped(hand), NEW r PROVE FixLinks(g, r) \in Topped(hand)
  <2> DEFINE h == FixLinks(g, r)
  <2>1. /\ h \in Marked(hand) /\ DOMAIN h.objs = DOMAIN g.objs
        /\ \A x \in DOMAIN g.objs : h.objs[x].type = g.objs[x].type
    BY <1>0, RelinkedKeeps
  <2> HIDE DEF h
  <2>2. Type(h, Root) = "room"
    BY <1>0, <2>1 DEF Type, Exists
  <2> QED BY <2>1, <2>2 DEF Topped, h
<1>3. \A g \in Topped(hand), t \in Live, owner \in Int : Create(g, t, owner) \in Topped(hand)
  BY TopClosed DEF Closed
<1> QED BY <1>0, <1>1, <1>2, <1>3 DEF Editable

\* @sanfix leaves the room at the top, whatever world it was given.
LEMMA FixedTop ==
  ASSUME NEW hand, NEW g \in Topped(hand)
  PROVE  Fix(g) \in Topped(hand)
<1> DEFINE all == FixAll([g |-> g, room |-> Nothing, player |-> Nothing], g)
           a == [all.g EXCEPT !.objs[Root].next = Nothing]
           b == [a EXCEPT !.objs[Root].loc = Nothing]
<1>n. Nothing \in Int /\ "next" \in RefFields /\ "loc" \in RefFields
  BY DEF Nothing, RefFields
<1>1. all.g \in Topped(hand)
  BY TopEditable, FixAllKeeps DEF FixesOf
<1>2. Fix(g) = Load(b)
  BY DEF Fix, Load
<1> HIDE DEF all
<1>3. a \in Topped(hand)
  BY <1>1, <1>n, TopEditable DEF Editable
<1> HIDE DEF a
<1>4. b \in Topped(hand)
  BY <1>3, <1>n, TopEditable DEF Editable
<1> HIDE DEF b
<1>5. b \in World /\ Type(b, Root) = "room"
  BY <1>4 DEF Topped, Marked, FreeWorlds
<1>6. Type(Load(b), Root) = "room"
  BY <1>5, LoadedSwept
<1>7. g \in Marked(hand)
  BY DEF Topped
<1>8. Fix(g) \in Marked(hand)
  BY <1>7, FixedKeeps
<1> QED BY <1>2, <1>6, <1>8 DEF Topped

\* A world on which nothing was edited by hand has no garbage threaded.
Mendable == Type(world, Root) = "room" /\ (~world.damaged => Swept(world))

\* No step threads garbage on a world whose fields nobody edited.
LEMMA MendableStep ==
  ASSUME SoundStart, Mendable, [Upkeep]_vars
  PROVE  Mendable'
<1>0. /\ world \in World /\ world \in Topped(world.damaged)
      /\ world \in Marked(world.damaged) /\ SoundStart'
  BY SoundStep DEF SoundStart, FreeWorlds, Marked, Topped, Mendable
<1>1. ASSUME NEW W, Closed(W), world \in W,
             CmdSanfix => Fix(world) \in W, Restart => Load(world) \in W,
             Next \/ CmdSanfix \/ Restart
      PROVE  world' \in W
  <2>1. CASE Next
    BY <1>1, <2>1, CommandsKeep
  <2>2. CASE CmdSanfix
    BY <1>1, <2>2, Done DEF CmdSanfix
  <2>3. CASE Restart
    BY <1>1, <2>3, Done DEF Restart
  <2> QED BY <1>1, <2>1, <2>2, <2>3
<1>2. Load(world) \in Topped(world.damaged) /\ Fix(world) \in Topped(world.damaged)
  <2>1. Load(world) \in Marked(world.damaged) /\ Type(Load(world), Root) = "room"
    BY <1>0, LoadedKeeps, LoadedSwept DEF Mendable
  <2> QED BY <1>0, <2>1, FixedTop DEF Topped
<1>3. CASE Next \/ CmdSanfix \/ Restart
  <2>1. world' \in Topped(world.damaged)
    BY <1>0, <1>1, <1>2, <1>3, TopClosed
  <2>2. Type(world', Root) = "room" /\ world'.damaged = world.damaged
    BY <2>1 DEF Topped, Marked
  <2>3. ASSUME ~world.damaged PROVE Swept(world')
    <3>1. world \in SweptWorlds /\ Sound(world) /\ Swept(world) /\ Placed(world)
          /\ world \in Marked(FALSE) /\ world.damaged = FALSE
      BY <1>0, <2>3 DEF SoundStart, Mendable, SweptWorlds, SoundWorlds, Sound, Marked, FreeWorlds, World
    <3>2. Load(world) \in SweptWorlds
      <4>1. Load(world) \in SoundWorlds
        BY <1>0, <3>1, LoadedKeeps, LoadedSound DEF SoundWorlds, Sound
      <4> QED BY <1>0, <3>1, <4>1, LoadedSwept DEF SweptWorlds
    <3>3. Fix(world) \in SweptWorlds
      <4>1. Fix(world) \in SoundWorlds
        BY <3>1, FixedKeeps, FixedSound DEF SoundWorlds
      <4>2. Sane(Fix(world))
        BY <3>1, FixIsSane DEF Mendable
      <4> QED BY <4>1, <4>2 DEF SweptWorlds, Sane
    <3>4. world' \in SweptWorlds
      BY <1>1, <1>3, <3>1, <3>2, <3>3, SweptClosed
    <3> QED BY <3>4 DEF SweptWorlds
  <2> QED BY <2>2, <2>3 DEF Mendable
<1>4. CASE CmdSanchange
  <2>1. PICK r \in DOMAIN world.objs, value \in EditValues,
             f \in {"loc", "owner", "next", "exits", "contents", "link"} :
           /\ world.edits > 0
           /\ Valid(world, r)
           /\ f = "link" => Type(world, r) \in {"player", "thing"}
           /\ world' = [world EXCEPT !.objs[r][f] = value, !.edits = @ - 1, !.damaged = TRUE]
           /\ actor' = God
           /\ UNCHANGED ops
    BY <1>4, Zenon DEF CmdSanchange
  <2>2. f \in RefFields /\ value \in Int
    BY UpkeepAssumption DEF RefFields
  <2> DEFINE h == [world EXCEPT !.objs[r][f] = value]
             objs == [world.objs EXCEPT ![r][f] = value]
  <2>3. h \in Topped(world.damaged)
    BY <1>0, <2>2, TopEditable DEF Editable
  <2>4. Type(h, Root) = "room"
    BY <2>3 DEF Topped
  <2>5. h.objs = objs
    BY <1>0 DEF World
  <2>6. world' = [world EXCEPT !.objs = objs, !.edits = @ - 1, !.damaged = TRUE]
    BY <2>1
  <2> HIDE DEF h, objs
  <2>7. world'.objs = h.objs /\ world'.damaged = TRUE
    BY <1>0, <2>5, <2>6 DEF World
  <2> QED BY <2>4, <2>7 DEF Mendable, Type, Exists
<1>5. CASE UNCHANGED vars
  BY <1>5 DEF Mendable, vars
<1> QED BY <1>3, <1>4, <1>5 DEF Upkeep

\* Whatever edits, commands, repairs and restarts came before: a load would
\* find the lists whole, and @sanfix would leave a world that @sanity passes but
\* for the garbage and a second @sanfix leaves alone, unless an edit put garbage
\* on a list (repair.go:18; sanfix.go:10, 26).
THEOREM Repairs ==
  FreeStart /\ WorldIsSound /\ Mendable /\ [][Upkeep]_vars => []RepairsSettle
<1>1. FreeStart /\ WorldIsSound => SoundStart
  BY SoundFirst
<1>2. ASSUME SoundStart, Mendable PROVE RepairsSettle
  <2>0. world \in Marked(world.damaged) /\ world \in World /\ Type(world, Root) = "room"
    BY <1>2 DEF SoundStart, Marked, FreeWorlds, Mendable
  <2>1. ReloadWhole
    BY <2>0, LoadIsWhole DEF ReloadWhole
  <2>2. ASSUME ~world.damaged \/ Swept(world) PROVE Settled(Fix(world))
    <3>1. Swept(world)
      BY <1>2, <2>2 DEF Mendable
    <3>2. Sane(Fix(world))
      BY <2>0, <3>1, FixIsSane
    <3>3. Fix(world) \in Marked(world.damaged)
      BY <2>0, FixedKeeps
    <3>4. Fix(Fix(world)) = Fix(world)
      BY <3>2, <3>3, SaneStays
    <3>5. CheckClean(Fix(world))
      BY <3>2, SaneIsClean
    <3> QED BY <3>4, <3>5 DEF Settled
  <2> QED BY <2>1, <2>2 DEF RepairsSettle, FixSettles
<1>3. SoundStart /\ Mendable /\ [Upkeep]_vars => SoundStart' /\ Mendable'
  BY SoundStep, MendableStep
<1> QED BY <1>1, <1>2, <1>3, PTL
===============================================================================
