------------------------------- MODULE McpServer -------------------------------
(***************************************************************************)
(* MCP in the game server: what the connections send goes through the      *)
(* world's queue, the world goroutine reads it with the connection's       *)
(* frame, and the handlers of the packages act on dialogs, on programs'    *)
(* bindings and on the editor's desk, some of them through the queue once  *)
(* more (game/mcp.go, game/mcppkg.go, game/mcpedit.go, mcp/gui.go and the  *)
(* primitives of muf/prim_mcp.go).                                         *)
(*                                                                         *)
(* The packages offered are one Go slice the frames and the hub share: an  *)
(* array, and how much of it each sees.  A scene is what the clients and   *)
(* the programs of one history may send, how many lines a client sends     *)
(* ahead of the server, and how many there are in all.                     *)
(***************************************************************************)
EXTENDS McpFrame, Editors

CONSTANTS
    Conns,       \* the connections
    PlayerOf,    \* who is logged in on each, or Nobody
    RefOf,       \* what each reference that parses names: [obj, category]
    HelpTypes,   \* the help types there are
    QueueDepth,  \* the world's queue
    Builtin,     \* the packages the server offers itself
    Scenes,      \* [name, lines, asks, hangups, pending, most, kept]
    Begin        \* how the scene of each name begins: what the connections are
                 \* and their frame, the packages, the programs' owners and
                 \* sources, and who is in the editor for one, if anybody is:
                 \* [status, frame, packages, owner, source, editing]

\* A list of anything; the arguments of a message.
IsList(s) == s \in Seq(Range(s))
IsArgs(args) ==
    args \in Seq([name : {a.name : a \in Range(args)},
                  lines : Seq(UNION {Range(a.lines) : a \in Range(args)})])

\* What stands after the editor's "i" and "d" is numbers, and what stands on the
\* first line of a message is a list.
Numbered(words) == words.cmd \in {"i", "d"} => words.args \in Seq(Int)
Typed(line)     == line.kind = "text" => Numbered(line.text)
Sendable(line) ==
    /\ Typed(line)
    /\ line.kind = "quoted" => Typed(line.line)
    /\ line.kind = "start" => IsList(line.args)

ASSUME McpAssumption ==
    /\ PlayerOf \in [Conns -> Authors \cup {Nobody}]
    /\ QueueDepth \in Nat \ {0}
    /\ IsList(Builtin)
    /\ \A s \in Scenes :
          /\ \A line \in s.lines : Sendable(line)
          /\ \A a \in s.asks : a.ask = "setlines" => IsList(a.lines)
          /\ LET b == Begin[s.name]
             IN  /\ IsList(b.packages)
                 /\ \A p \in Programs : IsList(b.source[p])
                 /\ "partial" \in DOMAIN b.frame
                 /\ \A t \in DOMAIN b.frame.partial :
                       /\ "args" \in DOMAIN b.frame.partial[t]
                       /\ IsArgs(b.frame.partial[t].args)

VARIABLES
    conns,     \* each connection: its status (new, open or gone), its frame, its
               \* slice of the packages; ghosts: the lines read and the messages
               \* made, where the scene has them kept
    ops,       \* the world's queue
    running,   \* the operation the world goroutine has taken
    arrays,    \* the arrays packages have been kept in
    offered,   \* the slice new connections are given
    bound,     \* the messages programs have claimed, and for which program
    dialogs,   \* the open dialogs
    owners,    \* dialogOwner's keys
    issued,    \* how many dialog ids have been handed out
    desk,      \* the programs and who edits them
    scene,     \* what may be sent in this history
    spent      \* how much of it has been

vars == <<conns, ops, running, arrays, offered, bound, dialogs, owners, issued,
          desk, scene, spent>>

GuiPackage       == <<"gui">>
HelpPackage      == <<"help">>
LanguagesPackage == <<"languages">>
EditPackages     == {<<"simpleedit">>, <<"moo", "simpleedit">>, NotifyPackage}
MooEdit          == <<"moo", "simpleedit">>

Open(c)     == conns[c].status = "open"
Packages(s) == SubSeq(arrays[s.array], 1, s.len)
Reg(c)      == Packages(conns[c].slice)

-----------------------------------------------------------------------------
\* Handlers.  Each takes the world as it is, a connection and a message, and
\* gives the world as it leaves it, with the operation it queues, if any.

Now == [conns |-> conns, dialogs |-> dialogs, owners |-> owners, desk |-> desk, then |-> <<>>]

Frame(w, c)          == w.conns[c].frame
OnFrame(w, c, f)     == [w EXCEPT !.conns[c].frame = f]
Tell(w, c, msg)      == OnFrame(w, c, SendMessage(Frame(w, c), msg, "t"))
Refuse(w, c, topic)  == OnFrame(w, c, SendError(Frame(w, c), topic))
Later(w, op)         == [w EXCEPT !.then = <<op>>]
Supported(w, c, pkg) == Supports(Frame(w, c), pkg) # Null

GuiError(w, c, msg) == Tell(w, c, Message(GuiPackage, <<"error">>, <<Arg("errtext", "no")>>))

Remember(dlg, ctrl, lines) ==
    [dlg EXCEPT !.values = [x \in DOMAIN @ \cup {ctrl} |-> IF x = ctrl THEN lines ELSE @[x]],
                !.order = IF ctrl \in DOMAIN dlg.values THEN @ ELSE Append(@, ctrl)]

GUIHandler(w, c, msg) ==
    LET id        == ArgOf(msg, "dlogid")
        ctrl      == ArgOf(msg, "id")
        dismissed == ~(HasArg(msg, "dismissed") /\ ArgOf(msg, "dismissed") \in {"false", "0"})
    IN  IF \/ id \notin DOMAIN w.dialogs
           \/ msg.name \in {<<"ctrl", "value">>, <<"ctrl", "event">>} /\ ctrl = ""
        THEN GuiError(w, c, msg)
        ELSE CASE msg.name = <<"ctrl", "value">> ->
                    [w EXCEPT !.dialogs[id] = Remember(@, ctrl, LinesIn(msg, "value"))]
               [] msg.name = <<"ctrl", "event">> ->
                    Later([w EXCEPT !.dialogs[id].dismissed = @ \/ dismissed],
                          [kind |-> "event", dialog |-> id, dismissed |-> dismissed])
               [] msg.name = <<"error">> -> Later(w, [kind |-> "report"])
               [] OTHER -> w

LanguagesHandler(w, c, msg) ==
    IF Supported(w, c, LanguagesPackage) /\ msg.name = <<"request">>
    THEN Tell(w, c, Message(LanguagesPackage, <<"supported">>, <<Arg("languages", "muf")>>))
    ELSE w

HelpHandler(w, c, msg) ==
    CASE ~Supported(w, c, HelpPackage) \/ msg.name # <<"request">> -> w
      [] ArgOf(msg, "type") \notin HelpTypes ->
           Tell(w, c, Message(HelpPackage, <<"error">>, <<Arg("text", "sorry")>>))
      [] OTHER -> Later(w, [kind |-> "help", conn |-> c])

SimpleEditHandler(w, c, msg) ==
    CASE msg.name # <<"set">>                         -> w
      [] ArgOf(msg, "reference") \notin DOMAIN RefOf  -> Refuse(w, c, "simpleedit-set")
      [] OTHER -> Later(w, [kind |-> "save", conn |-> c,
                            ref |-> RefOf[ArgOf(msg, "reference")],
                            content |-> LinesIn(msg, "content")])

ProgramHandler(w, c, msg) ==
    Later(w, [kind |-> "bound", conn |-> c, name |-> FullName(msg)])

\* dispatch: the handler of the package, agreed or not.
Dispatch(w, c, msg) ==
    LET reg == Reg(c)
    IN  CASE msg.pkg = InitPackage ->
               OnFrame(w, c, HandleInit(Frame(w, c), reg, msg, "new"))
          [] msg.pkg # InitPackage /\ ~(\E i \in DOMAIN reg : reg[i].name = msg.pkg) -> w
          [] msg.pkg = NegotiatePackage ->
               OnFrame(w, c, NegotiateHandler(Frame(w, c), reg, msg))
          [] msg.pkg = GuiPackage       -> GUIHandler(w, c, msg)
          [] msg.pkg = LanguagesPackage -> LanguagesHandler(w, c, msg)
          [] msg.pkg = HelpPackage      -> HelpHandler(w, c, msg)
          [] msg.pkg \in EditPackages   -> SimpleEditHandler(w, c, msg)
          [] OTHER                      -> ProgramHandler(w, c, msg)

\* @mcpedit: the line editor, unless the client can be sent the source.
McpEdit(w, c, p) ==
    LET who  == PlayerOf[c]
        name == Message(MooEdit, <<"content">>, <<Arg("reference", "ref"), Arg("type", "muf-code")>>)
    IN  CASE who \notin Muckers -> w
          [] who \in Muckers /\ (~Frame(w, c).enabled \/ ~Supported(w, c, MooEdit)) ->
               [w EXCEPT !.desk = OpenEditor(@, who, p)]
          [] ~MayEdit(w.desk, who, p) \/ w.desk.prog[p].internal -> Refuse(w, c, "edit program")
          [] OTHER -> Tell(w, c, [name EXCEPT
                                    !.args = Append(@, Multiline("content", w.desk.prog[p].source))])

\* The text of a line: the editor's, if its player is in the editor, or a
\* command.  @force goes to the command parser whatever its player is doing.
TextHandler(w, c, line) ==
    LET who == PlayerOf[c]
    IN  CASE who = Nobody             -> w
          [] Editing(w.desk, who)     -> [w EXCEPT !.desk = EditInput(@, who, line)]
          [] line.cmd = "@mcpedit"    -> McpEdit(w, c, line.args[1])
          [] line.cmd = "@force" /\ who \in Masters ->
               [w EXCEPT !.desk = ProgramCommand(@, line.args[1], line.args[2])]
          [] OTHER                    -> [w EXCEPT !.desk = ProgramCommand(@, who, line)]

-----------------------------------------------------------------------------
\* The operations of the queue.

\* ProcessInput, and what is left of the line.
HandleLine(c, line) ==
    LET f    == conns[c].frame
        done == Completed(f, Reg(c), line)
        next == [Now EXCEPT !.conns[c].frame = ReadLine(f, Reg(c), line)]
        read == IF scene.kept
                THEN [next EXCEPT !.conns[c].heard = Append(@, line), !.conns[c].got = @ \o done]
                ELSE next
        text == Passed(f, Reg(c), line)
        words == IF text[1].kind = "text" THEN text[1].text ELSE [cmd |-> "#$#", args |-> <<>>]
    IN  CASE done # <<>>                  -> Dispatch(read, c, done[1])
          [] done = <<>> /\ text # <<>>  -> TextHandler(read, c, words)
          [] OTHER                        -> read

MutantLeavesDialogs(w, c) == [w EXCEPT !.conns[c].status = "gone"]
Gone(w, c) ==
    LET left == {id \in DOMAIN w.dialogs : w.dialogs[id].conn # c}
    IN  [w EXCEPT !.conns[c].status = "gone", !.dialogs = Restrict(@, left),
                  !.owners = @ \ (DOMAIN w.dialogs \ left)]

CloseDialog(w, id) ==
    [w EXCEPT !.dialogs = Restrict(@, DOMAIN @ \ {id}), !.owners = @ \ {id}]

SimpleEditSet(w, c, op) ==
    LET who == PlayerOf[c]
        p   == op.ref.obj
        lines == [i \in DOMAIN op.content |-> IF op.content[i] = "" THEN Blank ELSE op.content[i]]
    IN  CASE op.ref.category = "user" -> w
          [] op.ref.category # "prog" -> Refuse(w, c, "simpleedit-set")
          [] SaveProgram(w.desk, who, p, lines) = w.desk -> Refuse(w, c, "simpleedit-set")
          [] OTHER -> [w EXCEPT !.desk = SaveProgram(@, who, p, lines)]

\* A connection that has gone, or has nobody logged in, is not found.
Reaches(c) == Open(c) /\ PlayerOf[c] # Nobody

Perform(op) ==
    CASE op.kind = "line"   -> HandleLine(op.conn, op.line)
      [] op.kind = "hangup" -> Gone(Now, op.conn)
      [] op.kind = "event"  -> IF op.dismissed THEN CloseDialog(Now, op.dialog) ELSE Now
      [] op.kind = "save"   -> IF Reaches(op.conn) THEN SimpleEditSet(Now, op.conn, op) ELSE Now
      [] op.kind = "help"   -> Tell(Now, op.conn, Message(HelpPackage, <<"entry">>,
                                                          <<Multiline("text", <<"one", "two">>)>>))
      [] op.kind = "bound"  -> IF Reaches(op.conn) /\ op.name \in DOMAIN bound
                               THEN [Now EXCEPT !.desk = CompileProgram(@, bound[op.name])] ELSE Now
      [] op.kind = "report" -> Now

-----------------------------------------------------------------------------
\* Steps.

Become(w) ==
    /\ conns' = w.conns
    /\ dialogs' = w.dialogs
    /\ owners' = w.owners
    /\ desk' = w.desk

Idle == running = <<>>

BuiltinSlice == [array |-> 1, len |-> Len(Builtin)]
NewConn == [status |-> "new", slice |-> BuiltinSlice, frame |-> NewFrame,
            heard |-> <<>>, got |-> <<>>]

HungUp(c) == [kind |-> "hangup", conn |-> c] \in Range(ops \o running)

\* A transport hands on a line its client sent, or its hanging up.
Input(c) ==
    /\ spent < scene.most
    /\ Open(c) /\ ~HungUp(c)
    /\ Len(ops) < QueueDepth
    /\ Len(SelectSeq(ops \o running, LAMBDA op : op.kind = "line")) < scene.pending
    /\ \E line \in scene.lines : ops' = Append(ops, [kind |-> "line", conn |-> c, line |-> line])
    /\ spent' = spent + 1
    /\ UNCHANGED <<conns, running, arrays, offered, bound, dialogs, owners, issued, desk, scene>>

Hangup(c) ==
    /\ scene.hangups
    /\ Open(c) /\ ~HungUp(c)
    /\ Len(ops) < QueueDepth
    /\ ops' = Append(ops, [kind |-> "hangup", conn |-> c])
    /\ UNCHANGED <<conns, running, arrays, offered, bound, dialogs, owners, issued, desk, scene, spent>>

\* The world goroutine takes an operation, and runs it; one that queues
\* another waits while the queue is full.
TakeOp ==
    /\ Idle
    /\ ops # <<>>
    /\ running' = <<Head(ops)>>
    /\ ops' = Tail(ops)
    /\ UNCHANGED <<conns, arrays, offered, bound, dialogs, owners, issued, desk, scene, spent>>

Run ==
    /\ ~Idle
    /\ LET w == Perform(running[1])
       IN  /\ w.then # <<>> => Len(ops) < QueueDepth
           /\ Become(w)
           /\ ops' = ops \o w.then
    /\ running' = <<>>
    /\ UNCHANGED <<arrays, offered, bound, issued, scene, spent>>

\* A connection arrives.
Connect(c) ==
    /\ Idle
    /\ conns[c].status = "new"
    /\ spent < scene.most
    /\ spent' = spent + 1
    /\ conns' = [conns EXCEPT ![c] = [NewConn EXCEPT !.status = "open", !.slice = offered,
                                              !.frame = StartNegotiation(@)]]
    /\ UNCHANGED <<ops, running, arrays, offered, bound, dialogs, owners, issued, desk, scene>>

-----------------------------------------------------------------------------
\* The primitives, run by a program that may use MCP.

Asked(a) ==
    /\ Idle
    /\ spent < scene.most
    /\ a \in scene.asks
    /\ spent' = spent + 1

\* registerMCPPackage: a name there is already changes for every frame that
\* shares the array; a new one is appended where there is room, or to a copy.
Register(a) ==
    LET now == Packages(offered)
        i   == SelectInSeq(now, LAMBDA p : p.name = a.pkg.name)
        room == Len(Builtin) * 2 ^ (offered.array - 1)
    IN  /\ Asked(a)
        /\ a.ask = "register"
        /\ IF i # 0
           THEN /\ arrays' = [arrays EXCEPT ![offered.array][i].min = a.pkg.min,
                                            ![offered.array][i].max = a.pkg.max]
                /\ offered' = offered
           ELSE /\ arrays' = IF offered.len < room
                             THEN [arrays EXCEPT ![offered.array] = Append(now, a.pkg)]
                             ELSE Append(arrays, Append(now, a.pkg))
                /\ offered' = [array |-> Len(arrays'), len |-> offered.len + 1]
        /\ UNCHANGED <<conns, ops, running, bound, dialogs, owners, issued, desk, scene>>

Bind(a) ==
    /\ Asked(a)
    /\ a.ask = "bind"
    /\ bound' = [m \in DOMAIN bound \cup {a.name} |-> IF m = a.name THEN a.program ELSE bound[m]]
    /\ UNCHANGED <<conns, ops, running, arrays, offered, dialogs, owners, issued, desk, scene>>

Send(a, c) ==
    /\ Asked(a)
    /\ a.ask = "send"
    /\ Open(c)
    /\ Become(Tell(Now, c, a.msg))
    /\ UNCHANGED <<ops, running, arrays, offered, bound, issued, scene>>

\* GUI_DLOG_CREATE: the dialog is open before its arguments are looked at.
CreateDialog(a, c) ==
    LET id  == ToString(issued + 1)
        dlg == [conn |-> c, values |-> <<>>, order |-> <<>>, dismissed |-> FALSE]
        w   == [Now EXCEPT !.dialogs = [d \in DOMAIN @ \cup {id} |-> IF d = id THEN dlg ELSE @[d]],
                           !.owners = @ \cup {id}]
    IN  /\ Asked(a)
        /\ a.ask = "create"
        /\ Open(c)
        /\ Supports(conns[c].frame, GuiPackage)[1] # 0
        /\ issued' = issued + 1
        /\ Become(IF a.sound THEN Tell(w, c, Message(GuiPackage, <<"dlog", "create">>,
                                                     <<Arg("title", "title"), Arg("dlogid", id)>>))
                  ELSE w)
        /\ UNCHANGED <<ops, running, arrays, offered, bound, scene>>

\* GUI_DLOG_SHOW and GUI_DLOG_CLOSE: only a message that could be sent closes.
DialogCommand(a, id) ==
    LET c    == dialogs[id].conn
        name == IF a.closing THEN <<"dlog", "close">> ELSE <<"dlog", "show">>
        msg  == Message(GuiPackage, name, <<Arg("dlogid", id)>>)
    IN  /\ Asked(a)
        /\ a.ask = "dialog"
        /\ MaySend(conns[c].frame, msg)
        /\ Become(IF a.closing THEN CloseDialog(Tell(Now, c, msg), id) ELSE Tell(Now, c, msg))
        /\ UNCHANGED <<ops, running, arrays, offered, bound, issued, scene>>

\* GUI_VALUE_SET and GUI_CTRL_CREATE remember a value here as well as send it;
\* GUI_CTRL_COMMAND sends, and is the one any program may use.
Control(a, id) ==
    LET msg == Message(GuiPackage, a.name,
                       <<Arg("dlogid", id), Arg("id", a.ctrl), Multiline("value", a.lines)>>)
        w   == IF a.keeps THEN [Now EXCEPT !.dialogs[id] = Remember(@, a.ctrl, a.lines)] ELSE Now
    IN  /\ Asked(a)
        /\ a.ask = "control"
        /\ Become(Tell(w, dialogs[id].conn, msg))
        /\ UNCHANGED <<ops, running, arrays, offered, bound, issued, scene>>

\* DESCRBOOT does on the world goroutine what a hangup does.
Boot(a, c) ==
    /\ Asked(a)
    /\ a.ask = "boot"
    /\ Open(c)
    /\ Become(Gone(Now, c))
    /\ UNCHANGED <<ops, running, arrays, offered, bound, issued, scene>>

\* PROGRAM_SETLINES, COMPILE, UNCOMPILE and NEWPROGRAM.
Script(a, p) ==
    /\ Asked(a)
    /\ desk' = CASE a.ask = "setlines"  -> SetLines(desk, a.who, p, a.lines)
                 [] a.ask = "compile"   -> IF p \in Live(desk)
                                           THEN CompileProgram(Invalidate(desk, p), p) ELSE desk
                 [] a.ask = "uncompile" -> IF p \in Live(desk) THEN Invalidate(desk, p) ELSE desk
                 [] a.ask = "new"       -> CreateProgram(desk, a.who, p)
                 [] OTHER               -> desk
    /\ desk' # desk
    /\ UNCHANGED <<conns, ops, running, arrays, offered, bound, dialogs, owners, issued, scene>>

\* The server stops, everything saved, and starts again: connections, dialogs, bindings and what
\* programs registered are gone.
Restart(a) ==
    /\ Asked(a)
    /\ a.ask = "restart"
    /\ conns' = [c \in Conns |-> NewConn]
    /\ arrays' = <<Builtin>>
    /\ offered' = BuiltinSlice
    /\ ops' = <<>>
    /\ bound' = <<>>
    /\ dialogs' = <<>>
    /\ owners' = {}
    /\ issued' = 0
    /\ desk' = Reloaded(desk)
    /\ UNCHANGED <<running, scene>>

\* A scene begins where a server that has loaded its programs may have come to.
Init ==
    /\ scene \in Scenes
    /\ LET b == Begin[scene.name]
           loaded == Loaded(b.owner, b.source)
       IN  /\ arrays = <<b.packages>>
           /\ offered = [array |-> 1, len |-> Len(b.packages)]
           /\ conns = [c \in Conns |-> [NewConn EXCEPT !.status = b.status[c], !.slice = offered,
                                                        !.frame = b.frame]]
           /\ desk = IF b.editing = <<>> THEN loaded
                     ELSE OpenEditor(loaded, b.editing[1], b.editing[2])
    /\ ops = <<>> /\ running = <<>> /\ bound = <<>>
    /\ dialogs = <<>> /\ owners = {} /\ issued = 0 /\ spent = 0

Next ==
    \/ \E c \in Conns : Input(c) \/ Hangup(c) \/ Connect(c)
    \/ TakeOp
    \/ Run
    \/ \E a \in scene.asks :
          \/ Register(a)
          \/ Bind(a)
          \/ \E c \in Conns : Send(a, c) \/ CreateDialog(a, c) \/ Boot(a, c)
          \/ \E id \in DOMAIN dialogs : DialogCommand(a, id) \/ Control(a, id)
          \/ \E p \in Programs : Script(a, p)
          \/ Restart(a)

Spec == Init /\ [][Next]_vars

-----------------------------------------------------------------------------
\* A dialog is forgotten with its connection and with its dismissal, in both
\* tables, whether the client hung up, a program booted it or the event is
\* still in the queue; and it lists each control that has a value once.
DialogsAgree ==
    /\ owners = DOMAIN dialogs
    /\ \A id \in DOMAIN dialogs :
          LET dlg == dialogs[id]
          IN  /\ Open(dlg.conn)
              /\ Range(dlg.order) = DOMAIN dlg.values /\ IsInjective(dlg.order)
              /\ dlg.dismissed =>
                   [kind |-> "event", dialog |-> id, dismissed |-> TRUE] \in Range(ops \o running)

\* Whatever is typed, forced, sent by a client or run, each program has one
\* editor at most, and the editor's buffer is what was typed where it was typed.
EditedByOne == OneEditor(desk) /\ TwoHalves(desk)

\* And what runs is what is stored, but in the two cases StoredIsRun names.
RunsWhatIsStored == StoredIsRun(desk)
=============================================================================
