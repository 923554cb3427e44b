-------------------------------- MODULE Sanity --------------------------------
(***************************************************************************)
(* What @sanity looks for in the object graph (sanity.go), what @sanfix    *)
(* changes (sanfix.go), and the repair of the lists a load makes           *)
(* (repair.go), as operators on the worlds of Objects.                     *)
(***************************************************************************)
EXTENDS Objects

Holders == {"room", "thing", "player"}

-----------------------------------------------------------------------------
\* Checking: the problems found, as pairs of a ref and a kind.

Found(problem, r, kind) == IF problem THEN {<<r, kind>>} ELSE {}

\* A list is walked while its members agree about where they are.
ListProblems(g, r, list) ==
    LET o == g.objs[r]
        chain == Chain(g, o[list])
        agrees(m) == /\ Exists(g, m) /\ Loc(g, m) = r
                     /\ (Type(g, m) = "exit") = (list = "exits")
        stray == \E i \in DOMAIN chain : ~agrees(chain[i])
        loops == Len(chain) > Cardinality(DOMAIN g.objs)
    IN  IF o.type \in Holders
        THEN Found(stray, r, "member") \cup Found(~stray /\ loops, r, "loop")
        ELSE Found(o[list] # Nothing, r, "list of a non-container")

LinkProblems(g, r) ==
    LET o == g.objs[r]
        t == Type(g, o.link)
    IN  CASE o.type = "room"    -> o.link \notin {Nothing, Home} /\ t \notin {"room", "thing"}
          [] o.type = "thing"   -> t \notin Holders
          [] o.type = "player"  -> t # "room"
          [] o.type = "exit"    -> \E d \in Elems(o.dest) : ~Valid(g, d) /\ d \notin {Home, Nil}
          [] o.type = "garbage" -> Valid(g, o.next)
          [] OTHER -> FALSE

CheckObject(g, r) ==
    LET o == g.objs[r]
        live == o.type # "garbage"
        at == Type(g, o.loc)
    IN  Found(live /\ Type(g, o.owner) # "player", r, "owner")
        \cup Found(live /\ ~Valid(g, o.loc) /\ ~(r = Root /\ o.loc = Nothing), r, "location")
        \cup Found(at \in {"garbage", "exit", "program"}, r, "in a non-container")
        \cup Found(~live /\ o.loc # Nothing, r, "garbage with a location")
        \cup ListProblems(g, r, "contents")
        \cup ListProblems(g, r, "exits")
        \cup Found(LinkProblems(g, r), r, "link")

\* Every object but the root is named exactly once by the lists.
FindOrphans(g) ==
    LET fields == (DOMAIN g.objs) \X {"exits", "contents", "next"}
        claims(r) == Cardinality({c \in fields : g.objs[c[1]][c[2]] = r})
        times(r) == claims(r) + (IF r = Root THEN 1 ELSE 0)
    IN  UNION {Found(times(r) > 1, r, "twice") \cup Found(times(r) = 0, r, "orphan") :
                  r \in DOMAIN g.objs}

Check(g) == FindOrphans(g) \cup UNION {CheckObject(g, r) : r \in DOMAIN g.objs}

-----------------------------------------------------------------------------
\* Repairing the lists.

\* What a container should hold, by what the objects say.
Wanted(g, r, list) ==
    {m \in DOMAIN g.objs : /\ Loc(g, m) = r
                           /\ (Type(g, m) = "exit") = (list = "exits")}

\* There is a room to be at the top, and everybody is somewhere there is or
\* nowhere, garbage nowhere.
Placed(g) ==
    /\ Type(g, Root) = "room"
    /\ \A r \in DOMAIN g.objs :
          /\ g.objs[r].loc \in DOMAIN g.objs \cup {Nothing}
          /\ g.objs[r].type = "garbage" => g.objs[r].loc = Nothing

MutantAsSets(chain, wanted) == Elems(chain) = wanted

SameMembers(chain, wanted) ==
    Len(chain) = Cardinality(wanted) /\ Elems(chain) = wanted

Relink(g, r, list, members) ==
    LET next(m) == LET i == CHOOSE i \in DOMAIN members : members[i] = m
                   IN  IF i = Len(members) THEN Nothing ELSE members[i + 1]
        head == IF members = <<>> THEN Nothing ELSE members[1]
    IN  [g EXCEPT !.objs =
            [m \in DOMAIN g.objs |->
                [g.objs[m] EXCEPT !.next = IF m \in Elems(members) THEN next(m) ELSE @,
                                  ![list] = IF m = r THEN head ELSE @]]]

\* Containers in ref order, each list on what the earlier ones left.  The
\* refs a list should hold are taken down once, before anything is changed.
RepairList(g, h, r, list) ==
    IF SameMembers(Chain(h, h.objs[r][list]), Wanted(g, r, list)) THEN h
    ELSE Relink(h, r, list, InOrder(g, Wanted(g, r, list)))
RepairBoth(g, h, r) == RepairList(g, RepairList(g, h, r, "contents"), r, "exits")
Repairing == INSTANCE InTurn WITH Do <- RepairBoth
RepairChains(g) ==
    [Repairing!Over(g, g, InOrder(g, DOMAIN g.objs)) EXCEPT !.stranded = {}]

\* A load reads the objects as they were written and then repairs.
Load(g) == RebuildRecyclable(RepairChains(g))

-----------------------------------------------------------------------------
\* Fixing.

\* The lost-and-found room and player, made when the first object needs them.
MakeLostAndFound(s, g1, room, player) ==
    [s EXCEPT
        !.room = room, !.player = player,
        !.g = [Create(g1, "player", player) EXCEPT
                  !.objs[room].loc = Root, !.objs[room].owner = player,
                  !.objs[player].loc = room, !.objs[player].link = room]]

WithLostAndFound(s) ==
    LET made(g1) == MakeLostAndFound(s, g1, NextRef(s.g, "room").ref,
                                     NextRef(g1, "player").ref)
    IN  IF s.room # Nothing THEN s ELSE made(Create(s.g, "room", Nothing))

\* It owns what nobody does, and holds what is nowhere.
Own(s, r)  == [s EXCEPT !.g.objs[r].owner = s.player]
Hold(s, r) == [s EXCEPT !.g.objs[r].loc = s.room]

FixOwner(s, r) ==
    IF Type(s.g, s.g.objs[r].owner) = "player" THEN s ELSE Own(WithLostAndFound(s), r)

\* A location that no longer works; #0 is left for the end.
BadLocation(g, r) ==
    LET t == Type(g, Loc(g, r))
    IN  t \notin Holders \/ (t = "player" /\ Type(g, r) = "player")

MutantRootToo(s, r) ==
    IF ~BadLocation(s.g, r) THEN s ELSE Hold(WithLostAndFound(s), r)

FixLocation(s, r) ==
    IF r = Root \/ ~BadLocation(s.g, r) THEN s
    ELSE IF Type(s.g, r) = "player" THEN [s EXCEPT !.g.objs[r].loc = Root]
    ELSE Hold(WithLostAndFound(s), r)

FixLinks(g, r) ==
    LET o == g.objs[r]
    IN  IF ~LinkProblems(g, r) THEN g
        ELSE CASE o.type = "room"   -> [g EXCEPT !.objs[r].link = Nothing]
               [] o.type = "thing"  -> [g EXCEPT !.objs[r].link = o.owner]
               [] o.type = "player" -> [g EXCEPT !.objs[r].link = Root]
               [] o.type = "exit"   ->
                    [g EXCEPT !.objs[r].dest =
                        Picking!Over({d \in Elems(@) : Valid(g, d) \/ d \in {Home, Nil}},
                                     <<>>, @)]
               [] OTHER -> g

FixObject(old, s, r) ==
    LET linked(t) == [t EXCEPT !.g = FixLinks(@, r)]
    IN  linked(IF Type(s.g, r) = "garbage"
               THEN [s EXCEPT !.g.objs[r].owner = Nothing, !.g.objs[r].loc = Nothing]
               ELSE FixLocation(FixOwner(s, r), r))

\* The objects of old first, then those made on the way.
Fixing == INSTANCE InTurn WITH Do <- FixObject
FixAll(s, old) ==
    LET late(t) == Fixing!Over(old, t, InOrder(t.g, DOMAIN t.g.objs \ DOMAIN old.objs))
    IN  late(Fixing!Over(old, s, InOrder(old, DOMAIN old.objs)))

\* Every object in ref order, then the root, the lists and the free list.
Fix(g) ==
    LET rooted(h) == [h EXCEPT !.objs[Root].next = Nothing, !.objs[Root].loc = Nothing]
    IN  RebuildRecyclable(RepairChains(
            rooted(FixAll([g |-> g, room |-> Nothing, player |-> Nothing], g).g)))
===============================================================================
