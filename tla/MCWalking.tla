------------------------------- MODULE MCWalking ------------------------------
(***************************************************************************)
(* Walking in a hall and a yard, with what the names, the locks and the    *)
(* hooks there must do said in other words.                                *)
(***************************************************************************)
EXTENDS Walking

Hall == 2
Yard == 3
Ann  == 4
Sack == 5       \* Ann's, carried
Box  == 6       \* in the hall
Door == 7       \* from the hall
Flap == 8       \* on the sack
Arch == 9       \* of the whole world
Imp  == 10      \* Ann's program
Chest == 11     \* in the hall, called box too
Bob  == 12
Ring == 13      \* an exit of the yard

Thing(type, owner, loc, link, dest, flags) ==
    [NewObject(type, owner) EXCEPT !.loc = loc, !.link = link, !.dest = dest, !.flags = flags]

Furniture ==
    <<Thing("room", God, Nothing, Nothing, <<>>, {}),
      Thing("player", God, Root, Root, <<>>, {"wizard", "m3"}),
      Thing("room", God, Root, Yard, <<>>, {"sticky"}),
      Thing("room", God, Root, Nothing, <<>>, {}),
      Thing("player", Ann, Hall, Hall, <<>>, {"m1"}),
      Thing("thing", Ann, Ann, Ann, <<>>, {}),
      Thing("thing", God, Hall, Yard, <<>>, {"sticky"}),
      Thing("exit", God, Hall, Nothing, <<Yard>>, {}),
      Thing("exit", Ann, Sack, Nothing, <<Box>>, {}),
      Thing("exit", God, Root, Nothing, <<Home>>, {}),
      Thing("program", Ann, Ann, Nothing, <<>>, {"m1"}),
      Thing("thing", God, Hall, Hall, <<>>, {}),
      Thing("player", Bob, Yard, Hall, <<>>, {"jump_ok"}),
      Thing("exit", Ann, Yard, Nothing, <<Ring, Nil>>, {})>>

\* The lists are threaded by putting everything in its place.
Placed(objs) ==
    LET refs == 0 .. Len(objs) - 1
        bare == [objs |-> [r \in refs |-> [objs[r + 1] EXCEPT !.loc = Nothing]], free |-> <<>>,
                 secure |-> FALSE, stranded |-> {}, loose |-> FALSE, edits |-> 0, damaged |-> FALSE]
        put(g, i) == MoveTo(g, i - 1, objs[i].loc)
    IN  FoldLeft(put, bare, [i \in DOMAIN objs |-> i])

No(g) == [r \in DOMAIN g.objs |-> [k \in {} |-> Nothing]]

Base ==
    LET g == Placed(Furniture)
        names == <<<<"world">>, <<"one">>, <<"hall">>, <<"yard">>, <<"ann">>, <<"sack">>, <<"box">>,
                   <<"out">>, <<"out">>, <<"out", "o">>, <<"imp">>, <<"box">>, <<"bob">>, <<"ring">>>>
        called == [r \in DOMAIN g.objs |-> [i \in DOMAIN names[r + 1] |-> <<names[r + 1][i]>>]]
    IN  [f \in DOMAIN g \cup {"names", "regs", "tune", "poor", "locks", "props", "does", "listen_mlev"} |->
            CASE f = "names" -> called
              [] f \in {"regs", "props"} -> No(g)
              [] f = "tune" -> {"compatible_priorities", "enable_home", "allow_listeners",
                                "allow_listeners_env", "allow_listeners_obj"}
              [] f = "poor" -> {}
              [] f = "locks" -> [k \in {} |-> <<>>]
              [] f = "does" -> [p \in {Imp} |-> <<"none">>]
              [] f = "listen_mlev" -> 1
              [] OTHER -> g[f]]

With(g, r, name, value) == [g EXCEPT !.props[r] = (name :> value) @@ @]
Flagged(g, r, f) == [g EXCEPT !.objs[r].flags = @ \cup f]

\* The arch counts for more than the door, the flap for less.
Arches == {Base, Flagged(Base, Arch, {"m2"}), Flagged(Base, Flap, {"m1"}),
           [Flagged(Base, Door, {"abode"}) EXCEPT !.tune = @ \ {"compatible_priorities"}]}

\* The chest is locked, and the imp asks about it.
Locked ==
    {[Base EXCEPT !.locks = (<<Chest, "@lock">> :> <<<<"name", <<"#1">>>>>>)
                                @@ (<<Box, "@conlock">> :> <<<<"name", <<"#4">>>>>>),
                  !.does = (Imp :> <<"testlock", Chest>>)]}

\* Whoever leaves the hall is brought back, whoever comes to the yard sent on.
Haunted ==
    {LET hooked == With(With(Base, Hall, "_depart", <<<<"runs", Imp>>>>),
                        Ann, "_arrive", <<<<"text">>, <<"reg", "imp">>>>)
         known == [hooked EXCEPT !.regs[Ann] = ("imp" :> Imp)]
     IN  [known EXCEPT !.does = (Imp :> <<"moves", place>>), !.secure = s] :
        place \in {Hall, Yard}, s \in BOOLEAN}

\* The hall and the chest both hear, and what they run speaks.
Talking ==
    {LET heard == With(With(Base, Hall, "_listen", <<<<"runs", Imp>>>>),
                       Chest, "~listen", <<<<"runs", Imp>>>>)
     IN  [Flagged(Flagged(heard, Hall, {"listener"}), Chest, {"listener"})
              EXCEPT !.does = (Imp :> <<"says">>)]}

\* An exit answers in the yard for what is no command.
Answering ==
    {[Flagged(Base, Ring, {"m2"}) EXCEPT !.tune = @ \cup {"m3_huh"}, !.names[Ring] = <<<<"HUH?">>>>]}

MCWorlds == Answering \cup Arches \cup Locked \cup Haunted \cup Talking

MCShort == {<<"o", "out">>}
MCSize == ("HUH?" :> 4) @@ [o |-> 1, out |-> 3, ring |-> 4, box |-> 3]
MCNumber == [i \in {"#1", "#2", "#3", "#4", "#5", "#6", "#11", "#10", "#12"} |->
                CASE i = "#1" -> 1 [] i = "#2" -> 2 [] i = "#3" -> 3 [] i = "#4" -> 4
                  [] i = "#5" -> 5 [] i = "#6" -> 6 [] i = "#11" -> 11 [] i = "#12" -> 12
                  [] OTHER -> 10]
MCStar == ("*bob" :> "bob")

MCLines == {<<"out">>, <<"o">>, <<"ring">>, <<"home">>, <<"get", "box">>, <<"say", "o">>}

Name(word) == <<<<"name", <<word>>>>>>
And(a, b) == a \o <<<<"&">>>> \o b
Or(a, b)  == a \o <<<<"|">>>> \o b
Not(a)    == <<<<"!">>>> \o a
In(a)     == <<<<"(">>>> \o a \o <<<<")">>>>

MCKeys == {Not(In(Or(Name("me"), Name("imp")))), Or(And(Name("me"), Name("box")), Not(Name("*bob"))),
           And(Name("sack"), In(Or(Name("imp"), Name("me")))), <<>>}

MCExpansion == [k \in {} |-> <<>>]
MCOverride  == ("!out" :> "out")
MCAutoLook  == <<>>

-----------------------------------------------------------------------------
\* Names.

Searched(places) == FlattenSeq([i \in DOMAIN places |-> Exits(w, places[i])])

Fitting(who, line) ==
    SelectSeq(Searched(ExitPlaces(w, who, Loc(w, who))),
              LAMBDA e : MatchAlias(w, e, line).fits)

\* An exit of a mucker counts for what the mucker does, one with the ABODE
\* bit for nothing, and any other for as much as an apprentice's (with
\* compatible_priorities) unless it is carried about by somebody who has no
\* say in the room.
Counts(who, e) ==
    LET has(f) == Has(w, e, f)
        carried == Type(w, Loc(w, e)) = "thing"
        say == \/ IsWizard(w, w.objs[e].owner)
               \/ w.objs[Loc(w, who)].owner = w.objs[e].owner
    IN  CASE has("m3") -> 4 [] has("m2") -> 3 [] has("m1") -> 2 [] has("abode") -> 0
          [] OTHER -> IF "compatible_priorities" \in w.tune /\ (carried => say) THEN 2 ELSE 1

BestExit(who, line) ==
    LET fit == Fitting(who, line)
        rank(i) == Counts(who, fit[i]) * 100 + MatchAlias(w, fit[i], line).length
        best == {i \in DOMAIN fit : \A j \in DOMAIN fit : rank(j) <= rank(i)}
    IN  IF fit = <<>> THEN Nothing ELSE fit[Min(best)]

\* The same words always mean the exit that counts for most of all those the
\* player could mean, the longest of these, and the first met among equals
\* (match/match.go matchExitsOn), and the thing nobody could want more.
NamesFindTheBest ==
    agenda = <<>> =>
    \A who \in {r \in DOMAIN w.objs : Type(w, r) = "player"} :
        /\ \A line \in MCLines : ExitFor(w, who, line, 0) = BestExit(who, line)
        /\ \A lucky \in {Box, Chest} :
              LET near == Elems(Contents(w, Loc(w, who))) \cup Elems(Contents(w, who))
                  all == {r \in near : w.names[r] = <<<<"box">>>>}
                  got == ForGet(w, Reaching(who, <<"box">>, Usable(w, who), lucky))
                  free == {r \in all : CouldDoit(w, who, r)}
              IN  all # {} => /\ got \in all
                              /\ free # {} => got \in free
                              /\ (free \in {{}, all} /\ Elems(Contents(w, who)) \cap all # {}
                                      /\ Type(w, Loc(w, who)) = "room")
                                     => Loc(w, got) = who

-----------------------------------------------------------------------------
\* Locks.

\* Where a sign stands outside all brackets.
Outside(text, sign) ==
    LET deep(i) == Cardinality({j \in 1 .. i : text[j] = <<"(">>})
                       - Cardinality({j \in 1 .. i : text[j] = <<")">>})
    IN  {i \in DOMAIN text : text[i] = <<sign>> /\ deep(i) = 0}

\* What a lock's text says of a player: "or" divides it first, then "and".
RECURSIVE Says(_, _, _)
Says(who, on, text) ==
    LET split(sign) == Min(Outside(text, sign))
        left(sign)  == SubSeq(text, 1, split(sign) - 1)
        right(sign) == SubSeq(text, split(sign) + 1, Len(text))
    IN  CASE Outside(text, "|") # {} -> Says(who, on, left("|")) \/ Says(who, on, right("|"))
          [] Outside(text, "|") = {} /\ Outside(text, "&") # {} ->
                 Says(who, on, left("&")) /\ Says(who, on, right("&"))
          [] OTHER -> IF text[1] = <<"!">> THEN ~Says(who, on, Tail(text))
                      ELSE IF text[1] = <<"(">> THEN Says(who, on, SubSeq(text, 2, Len(text) - 1))
                      ELSE Eval(w, who, text[1], on, 1)

\* A lock lets through exactly those its text spoke of when it was typed,
\* however it is written down, read back and moved about in
\* (boolexp.Parse, Unparse and Eval agree).
LocksMeanWhatWasTyped ==
    \A k \in DOMAIN meant, who \in {God, Ann, Bob} :
        LockPasses(w, who, k[1], k[2], TRUE) <=> Says(who, k[1], meant[k])
===============================================================================
