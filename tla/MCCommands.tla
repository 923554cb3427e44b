------------------------------ MODULE MCCommands ------------------------------
(***************************************************************************)
(* Histories of commands on small worlds, and the repair of damaged ones.  *)
(***************************************************************************)
EXTENDS Upkeep, SequencesExt

CONSTANTS
    Depth,    \* how many commands a history has, by the world it starts from
              \* and whether things move securely there
    Damaged   \* the worlds that God edits by hand instead

ann == 2
bob == 3

-----------------------------------------------------------------------------
\* The worlds a history starts from, put together by the operations.

Empty(secure) ==
    [objs |-> (Root :> [NewObject("room", God) EXCEPT !.flags = {}])
              @@ (God :> [NewObject("player", God) EXCEPT !.link = Root,
                                                          !.flags = {"wizard"}])
              @@ (ann :> [NewObject("player", ann) EXCEPT !.link = Root,
                                                          !.flags = {"m3"}])
              @@ (bob :> [NewObject("player", bob) EXCEPT !.link = Root,
                                                          !.flags = {"m2"}]),
     free |-> <<>>, secure |-> secure, stranded |-> {}, loose |-> FALSE,
     edits |-> 0, damaged |-> FALSE]

\* One step of putting a world together.
Make(type, owner, loc, home) == [do |-> "make", type |-> type, owner |-> owner, at |-> loc, home |-> home]
Move(what, to)    == [do |-> "move", what |-> what, to |-> to]
Link(what, dest)  == [do |-> "link", what |-> what, dest |-> dest]
Flag(what, flags) == [do |-> "flag", what |-> what, flags |-> flags]
Gone(what)        == [do |-> "gone", what |-> what]

Step(g, s) ==
    CASE s.do = "make" -> Built(g, s.type, s.owner, s.at, s.home)
      [] s.do = "move" -> MoveTo(g, s.what, s.to)
      [] s.do = "link" -> [g EXCEPT !.objs[s.what].dest = s.dest]
      [] s.do = "flag" -> [g EXCEPT !.objs[s.what].flags = s.flags]
      [] s.do = "gone" -> Recycle(g, s.what)

People == <<Move(God, Root), Move(ann, Root), Move(bob, Root)>>

\* Ann's car, with bob aboard, in a room of ann's that sends what is left in
\* it through to #0; an exit of ann's leads there.
Car == << Make("room", ann, Root, Root), Make("thing", ann, 4, ann),
          Make("exit", ann, Root, Nothing), Move(bob, 5), Move(ann, 4),
          Flag(5, {"vehicle", "abode"}), Flag(4, {"sticky", "abode", "link_ok"}),
          Link(6, <<4>>) >>

\* Things inside things, recycled ones, and an exit to fetch one of them.
Boxes == << Make("thing", ann, ann, Root), Make("thing", bob, 4, bob),
            Make("thing", ann, Root, ann), Make("exit", bob, bob, Nothing),
            Link(7, <<5>>), Flag(5, {"chown_ok"}), Gone(6) >>

\* A box of ann's with bob's gem in it has been recycled, and bob's exit and
\* the gem still name its ref, which is next to be reused.
Heap == Boxes \o <<Link(7, <<5, 4>>), Gone(4)>>

MCEditValues == {Nothing, 0, 4, 6}
MCPairs == {<<0, 4>>, <<4, 5>>, <<6, 5>>}

\* Each world with and without secure_thing_movement, two commands deep one way
\* and one the other.
MCDepth == [start \in 1 .. 4 |-> [secure \in BOOLEAN |-> IF secure = (start \in {2, 4}) THEN 2 ELSE 1]]
Started(start, secure) ==
    FoldLeft(Step, Empty(secure), People \o <<<<>>, Car, Boxes, Heap>>[start])

MCInit ==
    /\ \E start \in DOMAIN Depth, secure \in BOOLEAN, byHand \in BOOLEAN :
          /\ IF byHand THEN start \in Damaged /\ ~secure ELSE secure \in DOMAIN Depth[start]
          /\ world = [Started(start, secure) EXCEPT
                         !.edits = IF byHand THEN MaxEdits ELSE 0,
                         !.loose = start = 4]
          /\ ops = MaxOps - IF byHand THEN 0 ELSE Depth[start][secure]
    /\ actor = God
===============================================================================
