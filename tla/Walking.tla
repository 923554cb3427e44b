------------------------------- MODULE Walking --------------------------------
(***************************************************************************)
(* One line of a player, from the words typed to the last hook it set off: *)
(* internal/game's command.go, move.go, enter.go, exec.go, propqueue.go,   *)
(* and the commands that reach for something by name.                      *)
(*                                                                         *)
(* The world goroutine handles a line in one go, as a stack of calls that  *)
(* is here an agenda of tasks, what is to be done next at its head.  Only  *)
(* the programs that messages and hooks call can change the world between  *)
(* two tasks, and each may move the player (a program's act is <<"moves",  *)
(* to>>) or speak for the player (<<"says">>).  Text, and MPI, which here  *)
(* only makes text, are left out; so is what a program does after a READ   *)
(* or a SLEEP (ProcQueue).                                                 *)
(*                                                                         *)
(* A message property holds one value, a hook property the value of its    *)
(* own and those of the properties filed under it, in order.  A value is   *)
(* <<"text">>, <<"runs", program>> or <<"reg", word>>, a registration on   *)
(* the object or above it.                                                 *)
(***************************************************************************)
EXTENDS Locks

CONSTANTS
    Worlds,         \* the worlds a server may have loaded
    Lines,          \* what may be typed
    Keys,           \* the locks that may be typed
    Expansion,      \* what the words beginning '"', ':' and ';' stand for
    Override,       \* the words beginning '!', and what follows the '!'
    AutoLook,       \* autolook_cmd, as words
    PropqLimit, LookLimit, MetaLimit,   \* all eight in the code
    MaxOps, MaxWaiting                  \* bounds on a run

VARIABLES
    w,          \* the world
    agenda,     \* what the world goroutine has yet to do of this line or tick
    depth,      \* how deep it is in hooks, looks and metalinks
    waiting,    \* the listeners' programs filed for the next tick
    meant,      \* ghost: the text behind each lock, names resolved
    ops         \* how many lines have been typed

vars == <<w, agenda, depth, waiting, meant, ops>>

Limit == [hooks |-> PropqLimit, looks |-> LookLimit, metas |-> MetaLimit]

Init ==
    /\ w \in Worlds
    /\ agenda = <<>>
    /\ depth = [k \in DOMAIN Limit |-> 0]
    /\ waiting = <<>>
    /\ meant = [k \in {} |-> <<>>]
    /\ ops = 0

-----------------------------------------------------------------------------
\* What a value names, and the tasks that come of it.

Called(g, on, v) ==
    CASE v[1] = "runs" -> v[2]
      [] v[1] = "reg"  -> Result(Registered(g, New(on, <<v[2]>>)))
      [] OTHER         -> Nothing

Values(g, r, prop) == IF Exists(g, r) /\ prop \in DOMAIN g.props[r] THEN g.props[r][prop] ELSE <<>>

Run(who, prog) == [do |-> "run", who |-> who, prog |-> prog]

\* exec_or_notify: a message that names a program runs it, whoever owns it
\* and however deep.
Mesg(who, thing, prop) == [do |-> "mesg", who |-> who, thing |-> thing, prop |-> prop]

\* Something is said in a room; Nothing is the speaker's own, by then.
Hear(who, room) == [do |-> "hear", who |-> who, room |-> room]

\* An "o" message, which a DARK speaker does not make.
OMesg(g, who, room, thing, prop) ==
    IF Has(g, who, "dark") \/ Values(g, thing, prop) = <<>> THEN <<>> ELSE <<Hear(who, room)>>

\* A hook, on the object alone or on all its environment too.
Hook(who, on, prop, env) ==
    [do |-> "hook", who |-> who, on |-> on, prop |-> prop, env |-> env]

Enter(who, loc, exit) == [do |-> "enter", who |-> who, loc |-> loc, exit |-> exit]
Move(what, to)        == [do |-> "move", what |-> what, to |-> to]
CanDoit(who, thing, after) ==
    [do |-> "can_doit", who |-> who, thing |-> thing, after |-> after]
TriggerExit(g, who, exit, enters) ==
    [do |-> "trigger", who |-> who, exit |-> exit, rest |-> g.objs[exit].dest,
     enters |-> enters, back |-> FALSE]
UseExit(g, who, exit) == CanDoit(who, exit, <<TriggerExit(g, who, exit, TRUE)>>)

\* One level up again.
Leave(kind) == [do |-> "leave", kind |-> kind]

-----------------------------------------------------------------------------
\* A step of the world goroutine: the task at the head is done, and those it
\* calls for come before the rest.

Doing(kind) == agenda # <<>> /\ agenda[1].do = kind

Then(tasks) == agenda' = tasks \o Tail(agenda)

\* A task that leaves the world alone.
Calls(tasks) == Then(tasks) /\ UNCHANGED <<w, depth, waiting, meant, ops>>

\* What nests is refused beyond a limit.
Nested(kind, tasks) ==
    /\ Then(IF depth[kind] < Limit[kind] THEN tasks \o <<Leave(kind)>> ELSE <<>>)
    /\ depth' = [depth EXCEPT ![kind] = IF @ < Limit[kind] THEN @ + 1 ELSE @]
    /\ UNCHANGED <<w, waiting, meant, ops>>

LeaveLevel == Doing("leave") /\
    /\ Then(<<>>)
    /\ depth' = [depth EXCEPT ![agenda[1].kind] = @ - 1]
    /\ UNCHANGED <<w, waiting, meant, ops>>

RunMesg == Doing("mesg") /\
    LET t == agenda[1]
        vals == Values(w, t.thing, t.prop)
        prog == IF vals = <<>> THEN Nothing ELSE Called(w, t.thing, vals[1])
    IN  Calls(IF Type(w, prog) = "program" THEN <<Run(t.who, prog)>> ELSE <<>>)

RunProgram == Doing("run") /\
    LET t == agenda[1]
        act == w.does[t.prog]
    IN  Calls(CASE act[1] = "moves" -> <<Enter(t.who, act[2], Nothing)>>
                [] act[1] = "says"  -> <<Hear(t.who, Nothing)>>
                [] OTHER            -> <<>>)

-----------------------------------------------------------------------------
\* Hooks and listeners.

MuckerLevel(g, r) ==
    LET raw == CASE Has(g, r, "m3") -> 3 [] Has(g, r, "m2") -> 2 [] Has(g, r, "m1") -> 1
                 [] OTHER -> 0
    IN  IF Has(g, r, "wizard") /\ raw > 0 THEN 4 ELSE raw

\* Nobody's hook runs a private program of somebody else's.
Runnable(g, who, prog, floor) ==
    /\ Type(g, prog) = "program"
    /\ g.objs[prog].owner = OwnerOf(g, who) \/ Has(g, prog, "link_ok")
    /\ \A r \in {prog, g.objs[prog].owner} : MuckerLevel(g, r) >= floor

RunHook == Doing("hook") /\
    LET t == agenda[1]
        vals == Values(w, t.on, t.prop)
        call(i) == [do |-> "call", who |-> t.who, on |-> t.on, value |-> vals[i]]
    IN  Calls([i \in DOMAIN vals |-> call(i)]
                  \o IF t.env THEN <<[t EXCEPT !.do = "climb"]>> ELSE <<>>)

ClimbHook == Doing("climb") /\
    LET t == agenda[1]
        above == Parent(w, t.on)
    IN  Calls(IF above = Nothing THEN <<>> ELSE <<Hook(t.who, above, t.prop, TRUE)>>)

CallHook == Doing("call") /\
    LET t == agenda[1]
        prog == Called(w, t.on, t.value)
    IN  IF Runnable(w, t.who, prog, 1) THEN Nested("hooks", <<Run(t.who, prog)>>)
        ELSE Calls(<<>>)

\* The objects a line in a room is offered to.  The first step out of a room
\* is its location, the others its parents.
Audience(g, who, room) ==
    LET up[i \in 0 .. Cardinality(DOMAIN g.objs)] ==
            IF i = 0 THEN Loc(g, room) ELSE Parent(g, up[i - 1])
        env == SelectSeq([i \in 1 .. Cardinality(DOMAIN g.objs) |-> up[i - 1]],
                         LAMBDA r : r # Nothing)
        here == SelectSeq(Contents(g, room), LAMBDA r : Type(g, r) # "room" /\ r # who)
        all == <<room>> \o (IF "allow_listeners_env" \in g.tune THEN env ELSE <<>>) \o here
    IN  IF "allow_listeners" \notin g.tune THEN <<>>
        ELSE SelectSeq(all, LAMBDA r : "allow_listeners_obj" \in g.tune \/ Type(g, r) = "room")

\* What a listener files: nothing runs before the line has been delivered.
Filed(g, who, listener) ==
    LET gate == Has(g, listener, "listener") \/ Has(g, OwnerOf(g, listener), "zombie")
        vals == Values(g, listener, "_listen") \o Values(g, listener, "~listen")
                    \o Values(g, listener, "~olisten")
        progs == [i \in DOMAIN vals |-> Called(g, listener, vals[i])]
        runs == SelectSeq(progs, LAMBDA p : Runnable(g, who, p, g.listen_mlev))
    IN  IF gate THEN [i \in DOMAIN runs |-> Run(who, runs[i])] ELSE <<>>

HearLine == Doing("hear") /\
    LET t == agenda[1]
        room == IF t.room = Nothing THEN Loc(w, t.who) ELSE t.room
        file(s, r) == s \o Filed(w, t.who, r)
    IN  /\ Then(<<>>)
        /\ waiting' = FoldLeft(file, waiting, Audience(w, t.who, room))
        /\ UNCHANGED <<w, depth, meant, ops>>

MutantDrains(events) == IF events = <<>> THEN <<>> ELSE events \o <<[do |-> "fire"]>>

\* What a tick runs of what was filed before it.
Due(events) == events

Tick ==
    /\ agenda = <<>>
    /\ waiting # <<>>
    /\ Len(waiting) <= MaxWaiting
    /\ agenda' = <<[do |-> "fire"]>>
    /\ UNCHANGED <<w, depth, waiting, meant, ops>>

FireDeferred == Doing("fire") /\
    /\ Then(Due(waiting))
    /\ waiting' = <<>>
    /\ UNCHANGED <<w, depth, meant, ops>>

-----------------------------------------------------------------------------
\* Going somewhere.

\* can_doit: the lock, and the messages its answer calls for.
TryLock == Doing("can_doit") /\
    LET t == agenda[1]
        zombie == /\ Type(w, t.who) = "thing"
                  /\ Has(w, t.thing, "zombie")
                  /\ "allow_zombies" \in w.tune
                  /\ ~Wizard(w, t.who)
        says(own, others) == <<Mesg(t.who, t.thing, own)>> \o OMesg(w, t.who, Nothing, t.thing, others)
    IN  Calls(IF Loc(w, t.who) = Nothing \/ zombie THEN <<>>
              ELSE IF CouldDoit(w, t.who, t.thing) THEN says("@succ", "@osucc") \o t.after
              ELSE says("@fail", "@ofail"))

Guest(g, who) == Has(g, who, "guest") /\ who # God

\* Through an exit into a room, a vehicle or beside a player.
ViaExit(g, who, exit, dest) ==
    LET either(f) == Has(g, dest, f) \/ Has(g, exit, f)
        barred == \/ ParentLoopCheck(g, who, dest)
                  \/ ~Wizard(g, who) /\ Type(g, who) = "thing" /\ Has(g, dest, "zombie")
                  \/ Has(g, who, "vehicle") /\ either("vehicle")
                  \/ Guest(g, who) /\ either("guest")
    IN  IF barred THEN <<>>
        ELSE <<Mesg(who, exit, "@drop")>> \o OMesg(g, who, dest, exit, "@odrop")
                 \o <<Enter(who, dest, exit)>>

\* Where an exit fetches things to.
Fetched(g, exit) ==
    LET on == Loc(g, exit) IN IF Type(g, on) = "thing" THEN Loc(g, on) ELSE on

\* send_home, of what an exit hangs on.
SentHome(g, r) ==
    CASE Type(g, r) = "thing" ->
            IF g.secure \/ Has(g, r, "zombie") \/ Has(g, r, "listener")
            THEN <<Enter(r, g.objs[r].link, Loc(g, r))>> ELSE <<Move(r, Home)>>
      [] OTHER -> <<>>

\* One destination of an exit; a player's home stands for HOME.  A metalink
\* nests, and a program ends the list.
TriggerExits == Doing("trigger") /\
    LET t    == agenda[1]
        exit == t.exit
        home == t.rest[1] = Home
        d    == IF home THEN w.objs[t.who].link ELSE t.rest[1]
        type == Type(w, d)
        next == [t EXCEPT !.rest = Tail(@)]
        boards == d = Loc(w, exit) /\ Has(w, d, "vehicle")
        brings == ~ParentLoopCheck(w, d, Fetched(w, exit))
        enter(to) == (IF t.enters THEN ViaExit(w, t.who, exit, to) ELSE <<>>) \o <<next>>
        guest == Guest(w, t.who) /\ (Has(w, d, "guest") \/ Has(w, exit, "guest"))
    IN  IF t.rest = <<>>
        THEN Calls(IF t.back THEN SentHome(w, Loc(w, exit)) ELSE <<>>)
        ELSE CASE type = "room" -> Calls(enter(d))
               [] type = "thing" /\ ~home /\ boards -> Calls(enter(d))
               [] type = "thing" /\ ~home /\ ~boards ->
                      Calls(IF brings
                            THEN <<Move(d, Fetched(w, exit)),
                                   [next EXCEPT !.back = @ \/ (/\ Type(w, Loc(w, exit)) = "thing"
                                                               /\ ~Has(w, exit, "sticky"))]>>
                            ELSE <<next>>)
               [] type = "player" ->
                      Calls(IF /\ Loc(w, d) # Nothing
                               /\ ~ParentLoopCheck(w, t.who, d)
                               /\ Has(w, d, "jump_ok")
                            THEN enter(Loc(w, d)) ELSE <<next>>)
               [] type = "exit" ->
                      IF depth.metas >= MetaLimit THEN Calls(<<next>>)
                      ELSE /\ Then(<<TriggerExit(w, t.who, d, FALSE), Leave("metas"), next>>)
                           /\ depth' = [depth EXCEPT !.metas = @ + 1]
                           /\ UNCHANGED <<w, waiting, meant, ops>>
               [] type = "program" -> Calls(IF guest THEN <<next>> ELSE <<Run(t.who, d)>>)
               [] OTHER -> Calls(<<next>>)

\* moveThing, moveto, and send_contents, which leaves what cannot go.
MoveThings == Doing("move") /\
    LET t == agenda[1]
        enters == w.secure /\ Type(w, t.what) = "thing"
    IN  /\ Then(IF enters THEN <<Enter(t.what, t.to, Loc(w, t.what))>> ELSE <<>>)
        /\ w' = IF enters THEN w ELSE MoveObject(w, t.what, t.to)
        /\ UNCHANGED <<depth, waiting, meant, ops>>

SweptTo(g, r, dropto) == IF Has(g, r, "sticky") THEN Home ELSE dropto

\* A STICKY room with a drop-to, once nobody is left in it.
SweepRoom == Doing("sweep") /\
    LET room == agenda[1].room
        dropto == w.objs[room].link
        stays(r) == \/ Type(w, r) = "player"
                    \/ "allow_zombies" \in w.tune /\ Type(w, r) = "thing" /\ Has(w, r, "zombie")
        swept == /\ Type(w, room) = "room"
                 /\ Has(w, room, "sticky")
                 /\ dropto \notin {Nothing, room}
                 /\ ~ \E r \in Elems(Contents(w, room)) : stays(r)
        loose == SelectSeq(Contents(w, room), LAMBDA r : Type(w, r) \in {"thing", "program"})
    IN  Calls(IF swept THEN [i \in DOMAIN loose |-> [do |-> "send", what |-> loose[i], to |-> dropto]]
              ELSE <<>>)

SendThing == Doing("send") /\
    LET t == agenda[1]
        to == SweptTo(w, t.what, t.to)
    IN  Calls(IF ParentLoopCheck(w, t.what, to) THEN <<>> ELSE <<Move(t.what, to)>>)

Announced(g, who, room, exit) ==
    /\ Exists(g, room)
    /\ "quiet_moves" \notin g.tune
    /\ ~Has(g, room, "dark") /\ ~Has(g, who, "dark")
    /\ Type(g, who) = "thing" => Has(g, who, "zombie") \/ Has(g, who, "vehicle")
    /\ ~(Type(g, exit) = "exit" /\ Has(g, exit, "dark"))

\* enter_room: out of the old place, its hooks and its sweep, into the new
\* one, a look at it, and the hooks of whatever place the mover is in then.
EnterRooms == Doing("enter") /\
    LET t   == agenda[1]
        who == t.who
        old == Loc(w, who)
        loc == OrElsewhere(w, who, IF t.loc = Home THEN w.objs[who].link ELSE t.loc)
        depart(prop) == <<Hook(who, who, prop, FALSE), Hook(who, old, prop, TRUE)>>
        heard(room) == IF Announced(w, who, room, t.exit) THEN <<Hear(who, room)>> ELSE <<>>
        leaves == depart("_depart") \o depart("_odepart") \o heard(old)
                      \o <<[do |-> "sweep", room |-> old]>>
        look == <<[do |-> "autolook", who |-> who]>>
        arrives == <<Hook(who, who, "_arrive", TRUE), Hook(who, who, "_oarrive", TRUE)>>
    IN  /\ Then(IF loc = old THEN look
                ELSE (IF old = Nothing THEN <<>> ELSE leaves) \o heard(loc) \o look \o arrives)
        /\ w' = IF loc = old THEN w ELSE MoveObject(w, who, loc)
        /\ UNCHANGED <<depth, waiting, meant, ops>>

ExitFor(g, who, line, level) ==
    Result(ExitStage(g, [New(who, line) EXCEPT !.level = level, !.prefer = "exit"]))

Found(r) == r \notin {Nothing, Ambiguous}

\* A look at where one is: its description, whether one may be there, and
\* the look hooks all the way out.
LookRoom(g, who, loc) ==
    IF Type(g, loc) = "room"
    THEN <<Mesg(who, loc, "@desc"), CanDoit(who, loc, <<>>), Hook(who, loc, "_lookq", TRUE)>>
    ELSE <<Mesg(who, loc, "@idesc"), Hook(who, loc, "_lookq", TRUE)>>

\* The world's own look, if it has one.
Looks(g, who, exit) == IF Found(exit) THEN <<UseExit(g, who, exit)>> ELSE LookRoom(g, who, Loc(g, who))

AutoLooks == Doing("autolook") /\
    LET who == agenda[1].who
        blind == Type(w, who) = "thing" /\ ~Has(w, who, "zombie") /\ ~Has(w, who, "vehicle")
    IN  IF blind THEN Calls(<<>>)
        ELSE Nested("looks", Looks(w, who, IF AutoLook = <<>> THEN Nothing
                                           ELSE ExitFor(w, who, AutoLook, 0)))

-----------------------------------------------------------------------------
\* Lines.

\* Home first, while it is enabled, then the exits.
Homeward(g, line) == line = <<"home">> /\ "enable_home" \in g.tune

GoHome(g, who) ==
    LET loc == Loc(g, who)
        held == Contents(g, who)
    IN  (IF Valid(g, loc) THEN <<Hear(who, loc)>> ELSE <<>>)
            \o [i \in DOMAIN held |-> [do |-> "home", what |-> held[i]]]
            \o <<Enter(who, g.objs[who].link, loc)>>

\* What is carried goes home quietly, whatever it is.
EmptyHands == Doing("home") /\
    /\ Then(<<>>)
    /\ w' = MoveObject(w, agenda[1].what, Home)
    /\ UNCHANGED <<depth, waiting, meant, ops>>

GoThere(g, who, exit) == IF Found(exit) THEN <<UseExit(g, who, exit)>> ELSE <<>>

\* What a line does as a direction: nothing, when it is none.
TryMove(g, who, line, level) ==
    IF Homeward(g, line) THEN GoHome(g, who) ELSE GoThere(g, who, ExitFor(g, who, line, level))

Dispatched(who, line) == <<[do |-> "dispatch", who |-> who, line |-> line]>>
Unknown(who, verb)    == <<[do |-> "huh", who |-> who, verb |-> verb]>>

\* An exit may answer for what is no command.
Huh == Doing("huh") /\
    LET t == agenda[1]
    IN  Calls(IF "m3_huh" \in w.tune THEN TryMove(w, t.who, <<"HUH?", t.verb>>, 3) ELSE <<>>)

CmdGo(g, who, name) == IF name = <<>> THEN <<>> ELSE TryMove(g, who, name, 0)

\* What get means by a name: of two things, the one not locked against who
\* reaches for it.
Usable(g, who) == {r \in DOMAIN g.objs : CouldDoit(g, who, r)}

Reaching(who, name, usable, lucky) ==
    [New(who, name) EXCEPT !.prefer = "thing", !.usable = usable, !.lucky = lucky]

WizardToo(g, who, m) == IF Wizard(g, who) THEN Absolute(g, m) ELSE m

ForGet(g, m) == Result(WizardToo(g, m.who, Possession(g, Neighbor(g, m))))

\* get thing, or get container = thing.
Take(g, who, from, thing, out, usable) ==
    LET place == Loc(g, thing)
        thief == /\ Type(g, who) # "player"
                 /\ Type(g, place) \notin {"none", "room"}
                 /\ OwnerOf(g, who) # g.objs[thing].owner
        may == /\ Found(from) /\ Found(thing) /\ Exists(g, thing)
               /\ out => LockPasses(g, who, from, "@conlock", FALSE)
               /\ ~thief
               /\ place # who
               /\ Type(g, from) # "player"
               /\ ~ParentLoopCheck(g, thing, who)
               /\ Type(g, thing) \in {"thing", "program"}
    IN  IF ~may THEN <<>>
        ELSE IF ~out THEN <<CanDoit(who, thing, <<Move(thing, who)>>)>>
        ELSE IF thing \in usable THEN <<Move(thing, who)>>
        ELSE <<>>

TakeInner(g, who, from, m) ==
    Take(g, who, from,
         IF m.name = <<>> THEN from ELSE Result(WizardToo(g, who, Inside(g, m, from))),
         m.name # <<>>, m.usable)

CmdGet(g, who, args, m) ==
    LET eq    == SelectInSeq(args, LAMBDA x : x = "=")
        name  == IF eq = 0 THEN args ELSE SubSeq(args, 1, eq - 1)
        inner == IF eq = 0 THEN <<>> ELSE SubSeq(args, eq + 1, Len(args))
    IN  TakeInner(g, who, ForGet(g, [m EXCEPT !.name = name]), [m EXCEPT !.name = inner])

\* The dispatcher's own table.
Dispatch == Doing("dispatch") /\
    \E lucky \in DOMAIN w.objs :
        LET who == agenda[1].who
            line == agenda[1].line
        IN  Calls(CASE line[1] \in {"goto", "move"} -> CmdGo(w, who, Tail(line))
                    [] line[1] \in {"get", "take"}  -> 
                           CmdGet(w, who, Tail(line), Reaching(who, <<>>, Usable(w, who), lucky))
                    [] line[1] = "say"              -> <<Hear(who, Nothing)>>
                    [] OTHER                        -> Unknown(who, line[1]))

Expanded(line) ==
    IF line[1] \in DOMAIN Expansion THEN Expansion[line[1]] \o Tail(line) ELSE line

OrElse(tasks, others) == IF tasks # <<>> THEN tasks ELSE others

\* With enable_prefix the exits are asked for the line as it was typed, too.
CommandAs(g, who, line) ==
    LET full == Expanded(line)
        first == IF "enable_prefix" \in g.tune THEN line ELSE full
        direct == first[1] \in DOMAIN Override /\ Has(g, OwnerOf(g, who), "wizard")
    IN  IF direct THEN Dispatched(who, <<Override[first[1]]>> \o Tail(first))
        ELSE OrElse(TryMove(g, who, first, 0),
             OrElse(TryMove(g, who, full, 0),
                    IF "cmd_only_overrides" \in g.tune THEN Unknown(who, line[1])
                    ELSE Dispatched(who, full)))

TypeLine ==
    /\ agenda = <<>>
    /\ ops < MaxOps
    /\ \E who \in DOMAIN w.objs, line \in Lines :
          /\ Type(w, who) = "player"
          /\ agenda' = CommandAs(w, who, line)
    /\ ops' = ops + 1
    /\ UNCHANGED <<w, depth, waiting, meant>>

\* @lock and its kin, on what the player controls.
CmdSetLock ==
    /\ agenda = <<>>
    /\ ops < MaxOps
    /\ \E who \in DOMAIN w.objs, on \in DOMAIN w.objs, text \in Keys :
       \E words \in {TypedKey(w, who, text)}, k \in {<<on, "@lock">>} :
          /\ Type(w, who) = "player"
          /\ ~Guest(w, who)
          /\ Controls(w, who, on)
          /\ w' = SetLock(w, k, words)
          /\ LET rest == [l \in DOMAIN meant \ {k} |-> meant[l]]
             IN  meant' = IF words = <<>> THEN rest
                          ELSE IF Parse(words).ok THEN (k :> words) @@ rest
                          ELSE meant
    /\ ops' = ops + 1
    /\ UNCHANGED <<agenda, depth, waiting>>

-----------------------------------------------------------------------------
\* The world goroutine goes on with what it has begun.
Step ==
    \/ LeaveLevel \/ RunMesg \/ RunProgram
    \/ RunHook \/ ClimbHook \/ CallHook
    \/ HearLine \/ FireDeferred
    \/ TryLock \/ TriggerExits \/ MoveThings \/ SweepRoom \/ SendThing
    \/ EnterRooms \/ AutoLooks \/ EmptyHands
    \/ Dispatch \/ Huh

Next == Step \/ Tick \/ TypeLine \/ CmdSetLock

\* Weak fairness of Step, which can be taken whenever there is a task and is
\* the only thing that can then change the agenda.
Fair == []<>(agenda = <<>>) \/ []<><<agenda # <<>>>>_agenda

Spec == Init /\ [][Next]_vars /\ Fair

-----------------------------------------------------------------------------
\* A line or a tick comes to its end, though rooms have hooks, hooks move
\* players and listeners answer each other (propqLevel, lookDepth, metaDepth,
\* and what is filed while a tick runs waits for the next one).
TurnsEnd == []<>(agenda = <<>>)
===============================================================================
