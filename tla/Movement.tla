------------------------------- MODULE Movement -------------------------------
(***************************************************************************)
(* How anything changes place in internal/game: moveto's redirection away  *)
(* from loops (enter.go), rooms that are swept when their last player      *)
(* leaves, and what an exit does for each of its destinations (move.go).   *)
(* Nothing here can fail; a world that refuses a move is left as it was.   *)
(***************************************************************************)
EXTENDS Objects

OwnersHome(g, what) ==
    IF Exists(g, g.objs[what].owner) THEN g.objs[g.objs[what].owner].link ELSE Nothing

\* The first of two homes a thing can go to.
FirstHome(g, what, home, other) ==
    LET open == {h \in {home, other} : ~ParentLoopCheck(g, what, h)}
    IN  IF home \in open THEN home ELSE IF other \in open THEN other ELSE Root

\* Where something goes that cannot go where it was sent.
FallbackHome(g, what) ==
    CASE Type(g, what) = "player"  -> g.objs[what].link
      [] Type(g, what) = "thing"   -> FirstHome(g, what, g.objs[what].link, OwnersHome(g, what))
      [] Type(g, what) = "room"    -> Root
      [] Type(g, what) = "program" -> g.objs[what].owner
      [] OTHER                     -> Nothing

\* A destination, or where to go instead when it would close a loop.
OrElsewhere(g, what, where) ==
    IF ParentLoopCheck(g, what, where) THEN FallbackHome(g, what) ELSE where

\* Out of the world when even the last resort is refused.
MoveOrDrop(g, what, to) == MoveTo(g, what, IF MayMove(g, what, to) THEN to ELSE Nothing)

\* moveto: redirected rather than refused.
MoveObject(g, what, where) ==
    IF ~Valid(g, what) THEN g
    ELSE MoveOrDrop(g, what, CASE where = Nothing -> Nothing
                               [] where = Home    -> FallbackHome(g, what)
                               [] OTHER           -> OrElsewhere(g, what, where))

\* Everything loose in loc goes to dest, or home when it is sticky; what
\* cannot go stays where it is.
Sent(dest, h, r) ==
    LET to == IF Has(h, r, "sticky") THEN Home ELSE dest
    IN  IF Type(h, r) \in {"thing", "program"} /\ ~ParentLoopCheck(h, r, to)
        THEN MoveObject(h, r, to) ELSE h
Sending == INSTANCE InTurn WITH Do <- Sent
SendContents(g, loc, dest) == Sending!Over(dest, g, Contents(g, loc))

\* A sticky room with a drop-to is swept when its last player has left.
Sweep(g, room) ==
    IF /\ Type(g, room) = "room"
       /\ Has(g, room, "sticky")
       /\ g.objs[room].link \notin {Nothing, room}
       /\ \A r \in Elems(Contents(g, room)) : Type(g, r) # "player"
    THEN SendContents(g, room, g.objs[room].link) ELSE g

\* A player or a travelling thing enters a room: redirected like moveto, and
\* the room it leaves is swept.  Anything else is moved, and that is all.
Travel(g, what, dest, enters) ==
    LET to == IF ~enters THEN dest
              ELSE OrElsewhere(g, what, IF dest = Home THEN g.objs[what].link ELSE dest)
    IN  IF enters /\ to = Loc(g, what) THEN g
        ELSE Sweep(MoveObject(g, what, to), IF enters THEN Loc(g, what) ELSE Nothing)

EnterRoom(g, who, loc) == Travel(g, who, loc, TRUE)

\* Under secure_thing_movement things enter rooms as players do.
Enters(g, what) == g.secure /\ Type(g, what) = "thing"
MoveThing(g, what, dest) == Travel(g, what, dest, Enters(g, what))

-----------------------------------------------------------------------------
\* Going through an exit: what it does for each destination, exits it leads
\* to included, as a list of <<"go" | "bring" | "back", exit, destination>>;
\* a program among the destinations runs, and what follows it is not done.

\* What a destination x of exit e adds, on the way through c.exit, when the
\* exits e leads to do what deeper says.
Errand(c, done, x) ==
    done \o (IF Type(c.g, x) = "thing" /\ ~(x = Loc(c.g, c.e) /\ Has(c.g, x, "vehicle"))
             THEN <<<<"bring", c.e, x>>>>
             ELSE IF Type(c.g, x) = "exit" THEN c.deeper[x]
             ELSE IF c.e = c.exit THEN <<<<"go", c.e, x>>>>
             ELSE <<>>)
Adding == INSTANCE InTurn WITH Do <- Errand

ErrandsOf(g, exit, deeper, e) ==
    LET dest == g.objs[e].dest
        runs == {i \in DOMAIN dest : Type(g, dest[i]) = "program"}
        before(d) == Adding!Over([g |-> g, exit |-> exit, deeper |-> deeper, e |-> e], <<>>, d)
    IN  IF runs = {} THEN Append(before(dest), <<"back", e, Nothing>>)
        ELSE before(SubSeq(dest, 1, (CHOOSE i \in runs : \A j \in runs : i <= j) - 1))

\* From the innermost exits outward, as many deep as there are objects.
Deepened(c, deeper, depth) ==
    [e \in DOMAIN c.g.objs |-> ErrandsOf(c.g, c.exit, deeper, e)]
Deepening == INSTANCE InTurn WITH Do <- Deepened
Errands(g, exit) ==
    Deepening!Over([g |-> g, exit |-> exit], [e \in DOMAIN g.objs |-> <<>>],
                   Refs(g))[exit]

\* A thing goes home (send_home).
HomeOf(g, thing) == IF g.secure THEN g.objs[thing].link ELSE Home
ThingHome(g, thing) == MoveThing(g, thing, HomeOf(g, thing))

\* A thing is fetched to where the exit is, or to where the thing the exit
\* hangs on is, which is then itself sent home (acted) unless it is sticky.
BringTo(g, exit) ==
    LET source == Loc(g, exit) IN IF Type(g, source) = "thing" THEN Loc(g, source) ELSE source

\* Where going through leads, or Nothing: a player is gone to if jump_ok.
GoTo(g, who, dest) ==
    LET place == IF dest = Home THEN g.objs[who].link ELSE dest
    IN  CASE Type(g, place) = "room" -> place
          [] Type(g, place) = "thing" /\ dest # Home -> place
          [] /\ Type(g, place) = "player" /\ Has(g, place, "jump_ok")
             /\ ~ParentLoopCheck(g, who, place) -> Loc(g, place)
          [] OTHER -> Nothing

\* The player, what is fetched and what is sent home each go on, the first two
\* unless that would be a paradox.
RunErrand(who, s, errand) ==
    LET job   == errand[1]
        exit  == errand[2]
        mover == CASE job = "bring" -> errand[3] [] job = "go" -> who [] OTHER -> Loc(s.g, exit)
        to    == CASE job = "bring" -> BringTo(s.g, exit)
                   [] job = "go"    -> GoTo(s.g, who, errand[3])
                   [] OTHER         -> HomeOf(s.g, mover)
        goes  == IF job = "back" THEN exit \in s.acted
                 ELSE /\ job = "go" => to # Nothing
                      /\ ~ParentLoopCheck(s.g, mover, to)
        acts  == /\ job = "bring" /\ Type(s.g, Loc(s.g, exit)) = "thing"
                 /\ ~Has(s.g, exit, "sticky")
    IN  IF ~goes THEN s
        ELSE [g |-> Travel(s.g, mover, to, job = "go" \/ Enters(s.g, mover)),
              acted |-> IF acts THEN s.acted \cup {exit} ELSE s.acted]

Running == INSTANCE InTurn WITH Do <- RunErrand
Trigger(g, who, exit) ==
    Running!Over(who, [g |-> g, acted |-> {}], Errands(g, exit)).g
===============================================================================
