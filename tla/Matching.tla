------------------------------- MODULE Matching -------------------------------
(***************************************************************************)
(* internal/match: which object a typed name means.  A search is a record  *)
(* (Matcher) that each stage passes on, having looked in one place; what   *)
(* it found is Result.                                                     *)
(*                                                                         *)
(* A name, and a line, is a sequence of words.  Beside the object graph a  *)
(* world here has                                                          *)
(*   names   what each object is called: one name, or an exit's aliases    *)
(*   regs    the _reg registrations on each object: word |-> ref           *)
(*   tune    the parameters that are set                                   *)
(*   poor    the players who cannot pay lookup_cost (the charge itself is  *)
(*           left out)                                                     *)
(***************************************************************************)
EXTENDS Movement, SequencesExt

CONSTANTS
    Short,      \* the pairs <<a, b>> of different words with a a prefix of b
    Size,       \* how many letters each word has
    Number,     \* the ref each "#N" word names
    Star        \* the player's name behind each "*name" word

Ambiguous == -2

Prefixed(a, b) == a = b \/ <<a, b>> \in Short

\* Whether the name begins at one of the words of src, the last word of it
\* perhaps cut short.
StringMatch(src, name) ==
    \E at \in 1 .. Len(src) - Len(name) + 1 :
        /\ name # <<>>
        /\ \A i \in 1 .. Len(name) - 1 : src[at + i - 1] = name[i]
        /\ Prefixed(name[Len(name)], src[at + Len(name) - 1])

Letters(name) == FoldLeft(LAMBDA n, word : n + 1 + Size[word], -1, name)

-----------------------------------------------------------------------------
\* A search: exact is what is settled on; of the inexact finds, last is the
\* latest and count how many there were.  An exit's rank is level, then
\* longest.  prefer is the wanted type, usable the objects the searcher could
\* use (every object, where the command does not ask), lucky the object that
\* wins a toss of the coin.

New(who, name) ==
    [who |-> who, from |-> who, name |-> name, exact |-> Nothing, last |-> Nothing,
     count |-> 0, level |-> 0, longest |-> 0, arg |-> <<>>, verb |-> <<>>,
     prefer |-> "any", usable |-> Int, lucky |-> Nothing]

Result(m) ==
    IF m.exact # Nothing THEN m.exact
    ELSE IF m.count = 0 THEN Nothing
    ELSE IF m.count = 1 THEN m.last
    ELSE Ambiguous

\* How many containers up from an object another's container is; off the top
\* of the world when it is not above it at all.
StepsTo(up, dest) ==
    LET ends == {i \in DOMAIN up : up[i] = dest \/ (i > 0 /\ up[i] = Nothing)}
    IN  IF ends = {} THEN Cardinality(DOMAIN up) ELSE Min(ends)

EnvDistance(w, from, to) ==
    LET up[i \in 0 .. Cardinality(DOMAIN w.objs)] ==
            IF i = 0 THEN from ELSE Parent(w, up[i - 1])
    IN  StepsTo(up, Parent(w, to))

\* The one of the wanted type, else the one the searcher can use, else the
\* nearer, else either.
Better(x, y) ==
    \/ x.wanted /\ ~y.wanted
    \/ x.wanted = y.wanted /\ x.opens /\ ~y.opens
    \/ x.wanted = y.wanted /\ x.opens = y.opens /\ x.distance < y.distance

Preferred(m, a, b, rank) ==
    IF Better(rank[a], rank[b]) THEN a
    ELSE IF Better(rank[b], rank[a]) \/ b = m.lucky THEN b
    ELSE a

\* Which of two exact finds is meant.
ChooseThing(w, m, a, b) ==
    LET rank(r) == [wanted |-> Type(w, r) = m.prefer, opens |-> r \in m.usable,
                    distance |-> EnvDistance(w, m.from, r)]
    IN  IF a = Nothing THEN b
        ELSE IF ~Exists(w, a) \/ ~Exists(w, b) THEN IF Exists(w, a) THEN a ELSE b
        ELSE Preferred(m, a, b, [r \in {a, b} |-> rank(r)])

AddExact(w, m, r) == [m EXCEPT !.exact = ChooseThing(w, m, m.exact, r)]

\* The same object found twice is not ambiguity.
Add(m, r) == IF r = m.last THEN m ELSE [m EXCEPT !.last = r, !.count = @ + 1]

\* One of the words that name something wherever the searcher is.
Literal(w, m, word, r) ==
    IF m.name = <<word>> /\ r # Nothing THEN AddExact(w, m, r) ELSE m

Me(w, m)   == Literal(w, m, "me", m.who)
Here(w, m) == Literal(w, m, "here", Loc(w, m.who))

IsNumber(name) == Len(name) = 1 /\ name[1] \in DOMAIN Number

\* "#N", of anything there is, garbage included.
Absolute(w, m) ==
    IF IsNumber(m.name) /\ Exists(w, Number[m.name[1]])
    THEN AddExact(w, m, Number[m.name[1]]) ELSE m

\* The "#N" inside two other stages: only what the searcher's owner controls.
AbsoluteIn(w, m) ==
    IF IsNumber(m.name) /\ Controls(w, OwnerOf(w, m.from), Number[m.name[1]])
    THEN Number[m.name[1]] ELSE Nothing

\* The nearest registration of a word, walking out from an object.
Registration(w, r, word) ==
    LET find[at \in Int, left \in Nat] ==
            IF at = Nothing \/ left = 0 THEN Nothing
            ELSE IF Exists(w, at) /\ word \in DOMAIN w.regs[at] THEN w.regs[at][word]
            ELSE find[Parent(w, at), left - 1]
    IN  find[r, Cardinality(DOMAIN w.objs)]

Registered(w, m) ==
    LET r == IF Len(m.name) = 1 THEN Registration(w, m.from, m.name[1]) ELSE Nothing
    IN  IF r \in {Home, Nil} \/ Valid(w, r) THEN AddExact(w, m, r) ELSE m

\* "*name", of any player: the searcher pays first, for a miss as for a hit.
Player(w, m) ==
    LET found == {p \in DOMAIN w.objs : /\ Type(w, p) = "player"
                                        /\ w.names[p] = <<<<Star[m.name[1]]>>>>}
    IN  IF Len(m.name) # 1 \/ m.name[1] \notin DOMAIN Star THEN m
        ELSE IF OwnerOf(w, m.from) \in w.poor \/ found = {} THEN m
        ELSE AddExact(w, m, CHOOSE p \in found : TRUE)

\* Everything in a container, in order, up to a "#N" that is there.
MatchUpTo(w, m, all, abs) ==
    LET at   == SelectInSeq(all, LAMBDA r : r = abs)
        upTo == IF at = 0 THEN all ELSE SubSeq(all, 1, at - 1)
        try(s, r) ==
            IF w.names[r] = <<s.name>> THEN AddExact(w, s, r)
            ELSE IF \E n \in Elems(w.names[r]) : StringMatch(n, s.name) THEN Add(s, r)
            ELSE s
    IN  [FoldLeft(try, m, upTo) EXCEPT !.exact = IF at = 0 THEN @ ELSE abs]

MatchContents(w, m, container) ==
    MatchUpTo(w, m, Contents(w, container), AbsoluteIn(w, m))

Neighbor(w, m)   == MatchContents(w, m, Loc(w, m.from))
Possession(w, m) == MatchContents(w, m, m.from)

-----------------------------------------------------------------------------
\* Exits.

\* An exit that takes an argument matches the first word of a line.
RunsProgram(w, e) ==
    \/ Has(w, e, "haven")
    \/ \E d \in Elems(w.objs[e].dest) : d = Nil \/ Type(w, d) = "program"

\* The first alias that matches, and what of the line it leaves over.
MatchAlias(w, e, name) ==
    LET fits(a) == a = name \/ (RunsProgram(w, e) /\ a = <<name[1]>>)
        at == SelectInSeq(w.names[e], fits)
        alias == w.names[e][at]
    IN  IF at = 0 THEN [fits |-> FALSE]
        ELSE [fits |-> TRUE, length |-> Letters(alias), verb |-> alias,
              rest |-> IF alias = name THEN <<>> ELSE Tail(name)]

Priority(w, e) ==
    CASE Has(w, e, "m3") -> 4 [] Has(w, e, "m2") -> 3 [] Has(w, e, "m1") -> 2
      [] Has(w, e, "abode") -> 0 [] OTHER -> 1

\* A plain exit counts as 2, unless it hangs on a thing and its owner does not
\* control the place the searcher is in.
ExitLevel(w, m, e) ==
    LET foreign == /\ Type(w, Loc(w, e)) = "thing"
                   /\ ~Controls(w, OwnerOf(w, e), Loc(w, m.from))
    IN  IF Priority(w, e) = 1 /\ "compatible_priorities" \in w.tune /\ ~foreign
        THEN 2 ELSE Priority(w, e)

MutantLatestWins(m, level, length) == level > m.level \/ (level = m.level /\ length >= m.longest)

\* Whether an exit takes over from the one settled on so far.
Outranks(m, level, length) == level > m.level \/ (level = m.level /\ length > m.longest)

MatchExitsOn(w, m, on) ==
    LET abs == AbsoluteIn(w, m)
        take(s, e, found, level) ==
            IF Outranks(s, level, found.length)
            THEN [s EXCEPT !.level = level, !.longest = found.length, !.exact = e,
                           !.last = e, !.count = 1, !.verb = found.verb, !.arg = found.rest]
            ELSE IF level = s.level /\ found.length = s.longest /\ e # s.last
            THEN [s EXCEPT !.count = @ + 1]
            ELSE s
        taken(s, e, found) == IF found.fits THEN take(s, e, found, ExitLevel(w, s, e)) ELSE s
        try(s, e) ==
            IF e = abs THEN [s EXCEPT !.exact = e] ELSE taken(s, e, MatchAlias(w, e, s.name))
    IN  IF Loc(w, m.from) = Nothing THEN m ELSE FoldLeft(try, m, Exits(w, on))

Holder(w, r) == Type(w, r) \in {"room", "player", "thing"}

MatchRoomExits(w, m, r) == IF Holder(w, r) THEN MatchExitsOn(w, m, r) ELSE m

\* The things in a container, whose actions are asked for.
ActionsIn(w, container) == SelectSeq(Contents(w, container), LAMBDA r : Type(w, r) = "thing")

\* The rooms outward of base, as far as a YIELD room on the way, the searcher's
\* own place loc included, lets them be seen.
Outer(w, loc, base) ==
    LET up == Outward(w, base)
        yields(i) == Has(w, loc, "yield") \/ \E j \in 1 .. i - 1 : Has(w, up[j], "yield")
        seen(i) == Exists(w, up[i]) /\ (yields(i) => Has(w, up[i], "overt"))
        at == SelectSeq([i \in 1 .. Cardinality(DOMAIN w.objs) |-> i], seen)
    IN  [k \in DOMAIN at |-> up[at[k]]]

\* The room, the actions on what is carried and on what lies about, the
\* searcher's own, and then outward; from inside a vehicle, from its home on.
ExitPlaces(w, from, loc) ==
    LET near == <<loc>> \o ActionsIn(w, from) \o ActionsIn(w, loc) \o <<from>>
        home == w.objs[loc].link
    IN  IF Type(w, loc) = "thing" THEN near \o <<home>> \o Outer(w, loc, home)
        ELSE near \o Outer(w, loc, loc)

ExitStage(w, m) ==
    FoldLeft(LAMBDA s, r : MatchRoomExits(w, s, r), m, ExitPlaces(w, m.from, Loc(w, m.from)))

Inside(w, m, container) ==
    IF Holder(w, container)
    THEN MatchExitsOn(w, MatchContents(w, m, container), container) ELSE m

WizardSearcher(w, m) ==
    \E r \in {m.from, m.who} : IsWizard(w, r) \/ IsWizard(w, w.objs[r].owner)

Everything(w, m) ==
    LET found == Absolute(w, Registered(w, Here(w, Me(w, Possession(w, Neighbor(w,
                     ExitStage(w, m)))))))
    IN  IF WizardSearcher(w, m) THEN Player(w, found) ELSE found
===============================================================================
