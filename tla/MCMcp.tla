--------------------------------- MODULE MCMcp ---------------------------------
(***************************************************************************)
(* MCP, dialogs and editors checked on one history at a time: a client     *)
(* that negotiates while a program registers packages, one that sends      *)
(* messages in pieces, two that have dialogs and hang up, one that types   *)
(* in the editor, and two players who edit and save the same programs.     *)
(***************************************************************************)
EXTENDS McpServer, TLC

CONSTANTS c1, c2, Ann, Wiz, p1, p2

VARIABLES stream, place, decoder, line, taken, resized, answered   \* as in TelnetLine

\* A client's bytes: two pieces, of text, of negotiation and of what is neither,
\* and the end of a line.
Pieces == { <<>>, <<97>>, <<97, 98, 99, 100>>, <<10>>, <<13, 10>>, <<97, 13, 13, 10>>,
            <<255, 255>>, <<255, 241>>, <<255, 240>>,
            <<255, 251, 31>>, <<255, 251, 1>>, <<255, 253, 31>>, <<255, 252, 31>>, <<255, 254, 1>>,
            <<255, 250, 31, 0, 80, 0, 24, 255, 240>>,
            <<255, 250, 31, 255, 255, 80, 0, 24, 255, 240>>,
            <<255, 250, 31, 0, 80, 255, 240>>, <<255, 250, 24, 1, 2, 3, 4, 255, 240>>,
            <<255, 250, 31, 0, 255, 251>>, <<255, 250, 31, 1, 2, 3, 4, 5, 6, 255, 240>> }
L == INSTANCE TelnetLine WITH
        Streams <- {<<97>> \o p \o q \o <<98, 10>> : p, q \in Pieces},
        MaxRead <- 4, ReadLimit <- 3, MaxSub <- 5
bytes == <<stream, place, decoder, line, taken, resized, answered>>
Texts == { <<>>, <<97>>, <<255>>, <<255, 97, 255>> }

MCPlayerOf == (c1 :> Ann) @@ (c2 :> Wiz)
MCRefOf == ("p1.prog" :> [obj |-> p1, category |-> "prog"])
           @@ ("p2.prog" :> [obj |-> p2, category |-> "prog"])
           @@ ("p1.user" :> [obj |-> p1, category |-> "user"])
           @@ ("p1.what" :> [obj |-> p1, category |-> "what"])
MCVersionOf == ("1.0" :> <<1, 0>>) @@ ("1.3" :> <<1, 3>>) @@ ("2.0" :> <<2, 0>>)
               @@ ("2.1" :> <<2, 1>>) @@ ("3.0" :> <<3, 0>>)
MCLinesOf == "broken" :> <<"one", "two">>

Package(name, label, min, max) == [name |-> name, label |-> label, min |-> min, max |-> max]
MCBuiltin ==
    << Package(NegotiatePackage, "mcp-negotiate", "1.0", "2.0"),
       Package(NotifyPackage, "notify", "1.0", "1.0"),
       Package(HelpPackage, "help", "1.0", "1.0"),
       Package(LanguagesPackage, "languages", "1.0", "1.0"),
       Package(MooEdit, "moo-simpleedit", "1.0", "1.0"),
       Package(GuiPackage, "gui", "1.0", "1.3") >>

-----------------------------------------------------------------------------
\* Lines clients send.

Plain(name, args) == Start(name, "k", [i \in DOMAIN args |-> Keyval(args[i][1], FALSE, args[i][2])])
Type(cmd, args)   == Text([cmd |-> cmd, args |-> args])
Opening(args)     == Start(InitPackage, "", [i \in DOMAIN args |-> Keyval(args[i][1], FALSE, args[i][2])])
Later_(name, tag, args) ==
    Start(name, "k", <<Keyval("content", TRUE, "")>> \o args \o <<Keyval(DataTag, FALSE, tag)>>)

GreetingLines ==
    { Opening(<< <<"version", "2.1">>, <<"to", "3.0">> >>),
      Opening(<< <<"version", "1.0">> >>),
      Opening(<< <<"version", "1.0">>, <<"to", "2.1">>, <<"authentication-key", "k">> >>),
      Plain(<<"mcp", "negotiate", "can">>, << <<"package", "gui">>, <<"min-version", "1.0">>,
                                              <<"max-version", "2.0">> >>),
      Plain(<<"mcp", "negotiate", "can">>, << <<"package", "toy">>, <<"min-version", "1.3">> >>),
      Plain(<<"mcp", "negotiate", "end">>, <<>>),
      Garbled,
      Quoted(Text([cmd |-> "#$#", args |-> <<>>])) }

StreamLines ==
    { Later_(<<"toy", "cut">>, "t1", <<Keyval("topic", FALSE, "x")>>),
      Later_(<<"toy", "big", "cut">>, "t1", <<>>),
      Later_(<<"toy", "cut">>, "t2", <<>>),
      Continuation("t1", "content", "one"),
      Continuation("t1", "topic", "two"),
      Continuation("t2", "content", "two"),
      End("t1"), End("t2"),
      Plain(<<"toy", "big", "cut">>, << <<"content", "two">> >>),
      [Later_(<<"toy", "cut">>, "t1", <<>>) EXCEPT !.key = "forged"] }

DialogLines ==
    { Plain(<<"gui", "ctrl", "value">>, << <<"dlogid", "1">>, <<"id", "x">>, <<"value", "one">> >>),
      Plain(<<"gui", "ctrl", "value">>, << <<"dlogid", "1">>, <<"id", "y">>, <<"value", "two">> >>),
      Plain(<<"gui", "ctrl", "value">>, << <<"dlogid", "1">> >>),
      Plain(<<"gui", "ctrl", "event">>, << <<"dlogid", "1">>, <<"id", "x">> >>),
      Plain(<<"gui", "ctrl", "event">>, << <<"dlogid", "2">>, <<"id", "x">>, <<"dismissed", "0">> >>),
      Plain(<<"gui", "error">>, << <<"dlogid", "1">> >>),
      Plain(<<"help", "request">>, << <<"topic", "x">>, <<"type", "man">> >>),
      Plain(<<"help", "request">>, << <<"topic", "x">>, <<"type", "none">> >>),
      Plain(<<"languages", "request">>, <<>>) }

TypingLines ==
    { Type("i", <<>>), Type("i", <<0>>), Type("i", <<1>>), Type("i", <<3>>),
      Type("a", <<>>), Type("b", <<>>), Type("", <<>>), Type(".", <<>>),
      Type("d", <<>>), Type("d", <<1>>), Type("d", <<2, 5>>), Type("q", <<>>) }

Save(ref, content) ==
    Plain(MooEdit \o <<"set">>, << <<"reference", ref>>, <<"content", content>> >>)
EditLines ==
    { Type("@edit", <<p1>>), Type("@edit", <<p2>>), Type("@mcpedit", <<p1>>),
      Type("@program", <<p2>>), Type("@recycle", <<p1>>), Type("run", <<p1>>),
      Type("run", <<p2>>),
      Type("@force", <<Ann, [cmd |-> "@edit", args |-> <<p2>>]>>),
      Type("d", <<1>>), Type("c", <<>>), Type("q", <<>>), Type("x", <<>>),
      Save("p1.prog", "bad"), Save("p2.prog", "") , Save("p1.user", "a"), Save("p1.what", "a"),
      Save("nothing", "a"), Plain(<<"toy", "cut">>, <<>>) }

-----------------------------------------------------------------------------
\* What programs ask.

Toy(min, max) == Package(<<"toy">>, "toy", min, max)
BigToy        == Package(<<"toy", "big">>, "toy-big", "1.0", "1.0")
Asking(msg)   == [ask |-> "send", msg |-> msg]

GreetingAsks ==
    { [ask |-> "register", pkg |-> Toy("1.0", "1.3")], [ask |-> "register", pkg |-> Toy("1.3", "1.3")],
      [ask |-> "register", pkg |-> BigToy],
      Asking(Message(<<"toy">>, <<"cut">>, <<Arg("x", "one"), Arg("y", "broken"),
                                            Multiline("z", <<>>)>>)),
      Asking(Message(GuiPackage, <<"show">>, <<Arg("x", "long"), Multiline("y", <<"one", "two">>)>>)) }
DialogAsks ==
    { [ask |-> "create", sound |-> TRUE], [ask |-> "create", sound |-> FALSE],
      [ask |-> "dialog", closing |-> FALSE], [ask |-> "dialog", closing |-> TRUE],
      [ask |-> "control", name |-> <<"ctrl", "value">>, ctrl |-> "x", lines |-> <<"one", "two">>,
       keeps |-> TRUE],
      [ask |-> "control", name |-> <<"ctrl", "command">>, ctrl |-> "y", lines |-> <<>>, keeps |-> FALSE],
      [ask |-> "boot"] }
EditAsks ==
    { [ask |-> "bind", name |-> <<"toy", "cut">>, program |-> p1],
      [ask |-> "setlines", who |-> Ann, lines |-> <<"b", "b">>],
      [ask |-> "compile"], [ask |-> "uncompile"], [ask |-> "new", who |-> Wiz],
      [ask |-> "restart"] }

Scene(name, lines, asks, hangups, pending, most) ==
    [name |-> name, lines |-> lines, asks |-> asks, hangups |-> hangups,
     pending |-> pending, most |-> most, kept |-> name = "stream"]
MCScenes ==
    { Scene("greeting", GreetingLines, GreetingAsks, FALSE, 1, 7),
      Scene("stream", StreamLines, {}, FALSE, 1, 5),
      Scene("dialogs", DialogLines, DialogAsks, TRUE, 1, 4),
      Scene("typing", TypingLines, {}, FALSE, 1, 6),
      Scene("edits", EditLines, EditAsks, FALSE, 1, 4),
      Scene("bytes", {}, {}, FALSE, 1, 0) }

-----------------------------------------------------------------------------
Agreed ==
    [NewFrame EXCEPT !.enabled = TRUE, !.key = "k", !.version = <<2, 1>>,
                     !.packages = [p \in {NotifyPackage, HelpPackage, MooEdit} |-> <<1, 0>>]
                                  @@ (GuiPackage :> <<1, 3>>)]
Toys == Append(Append(MCBuiltin, Toy("1.0", "1.3")), BigToy)

Status(s) == [c \in Conns |-> CASE s = "greeting" /\ c = c1                -> "new"
                                [] s \in {"dialogs", "edits", "bytes"} \/ c = c1 -> "open"
                                [] OTHER                                     -> "gone"]
MCBegin ==
    [s \in {scn.name : scn \in MCScenes} |->
        [status |-> Status(s), frame |-> IF s = "greeting" THEN NewFrame ELSE Agreed,
         packages |-> IF s \in {"greeting", "dialogs"} THEN MCBuiltin ELSE Toys,
         owner |-> [p \in {p1, p2} |-> Ann],
         source |-> (p1 :> <<"a", "b">>) @@ (p2 :> <<>>),
         editing |-> IF s = "typing" THEN <<Ann, p1>> ELSE <<>>]]

MCInit ==
    /\ Init
    /\ IF scene.name = "bytes" THEN L!WireInit
       ELSE /\ stream = <<>> /\ place = 0 /\ decoder = L!NewDecoder /\ line = <<>>
            /\ taken = <<>> /\ resized = <<>> /\ answered = <<>>
MCNext ==
    \/ Next /\ UNCHANGED bytes
    \/ L!ReadStream /\ UNCHANGED vars
MCSpec == MCInit /\ [][MCNext]_<<vars, bytes>>

-----------------------------------------------------------------------------
\* What a whole list of lines says, line by line: the reference for ReadLine.
Values(args, name) ==
    FlattenSeq([i \in DOMAIN args |-> IF args[i].name = name THEN args[i].lines ELSE <<>>])
AsValues(msg) == [name |-> FullName(msg),
                  args |-> [n \in {msg.args[i].name : i \in DOMAIN msg.args} |-> Values(msg.args, n)]]
Begins(l, tag) ==
    /\ l.kind = "start" /\ l.key = "k"
    /\ Incomplete(l)
    /\ \E i \in DOMAIN l.args : l.args[i].name = DataTag /\ l.args[i].value = tag
MadeBy(heard, n) ==
    LET last  == heard[n]
        first == {i \in 1 .. n - 1 : /\ Begins(heard[i], last.tag)
                                     /\ \A j \in i + 1 .. n - 1 : ~Begins(heard[j], last.tag)
                                     /\ \A j \in i + 1 .. n - 1 : heard[j] # last}
        i     == CHOOSE i \in first : TRUE
        given == SelectSeq(heard[i].args, LAMBDA a : a.name # DataTag)
        rest  == SelectSeq(SubSeq(heard, i, n),
                           LAMBDA l : l.kind = "continuation" /\ l.tag = last.tag)
        names == {given[j].name : j \in DOMAIN given} \cup {rest[j].arg : j \in DOMAIN rest}
        value(x) == LET one == SelectSeq(given, LAMBDA a : a.name = x /\ ~a.deferred)
                        more == SelectSeq(rest, LAMBDA l : l.arg = x)
                    IN  [j \in 1 .. Len(one) + Len(more) |-> (one \o more)[j].value]
    IN  IF last.kind = "start" /\ last.key = "k" /\ ~Incomplete(last)
        THEN <<[name |-> last.name,
                args |-> [x \in {last.args[j].name : j \in DOMAIN last.args} |->
                            <<last.args[CHOOSE j \in DOMAIN last.args : last.args[j].name = x].value>>]]>>
        ELSE IF last.kind = "end" /\ first # {}
        THEN <<[name |-> heard[i].name, args |-> [x \in names |-> value(x)]]>>
        ELSE <<>>

\* A client that reads what it is sent with the same frame.
Reader(key) == [NewFrame EXCEPT !.enabled = TRUE, !.key = key]
ReadBy(reg, lines, key) ==
    LET frames[i \in 0 .. Len(lines)] ==
            IF i = 0 THEN Reader(key) ELSE ReadLine(frames[i - 1], reg, lines[i])
    IN  [frame |-> frames[Len(lines)],
         got |-> FlattenSeq([i \in DOMAIN lines |-> Completed(frames[i - 1], reg, lines[i])])]
Cut(msg) == AsValues([msg EXCEPT !.args =
                [i \in DOMAIN @ |-> [@[i] EXCEPT !.lines = IF @ = <<>> THEN <<"">> ELSE SplitLines(@)]]])

\* Messages arrive whole, in both directions.  A message that came in pieces,
\* whatever came between them, is the one its first line began, every later line
\* of its tag and no other added to it, up to its end: the messages a
\* connection's lines made are those the whole list of its lines says they are.
\* And what the server writes, a client that agreed to it reads as the message
\* that was sent: one message, its values cut at their line breaks, and nothing
\* left over, however long a value is and however many lines it has.
MessagesArriveWhole ==
    \A c \in Conns :
        /\ scene.name = "stream" =>
             [i \in DOMAIN conns[c].got |-> AsValues(conns[c].got[i])]
               = FlattenSeq([n \in DOMAIN conns[c].heard |-> MadeBy(conns[c].heard, n)])
        /\ \A s \in Range(conns[c].frame.sent) :
             LET r == ReadBy(Toys, s.lines, s.key)
             IN  /\ Len(r.got) = 1
                 /\ AsValues(r.got[1]) = Cut(s.msg)
                 /\ r.frame.partial = <<>>

\* What a stream of bytes says, read all at once: text, the options that are
\* offered and asked for, and the subnegotiations that are finished.  An option
\* 0 is left out: the decoder takes the byte after it for the option.
Said(s) ==
    LET end[j \in 1 .. Len(s) + 2] ==       \* the IAC that ends what is at j
            CASE j + 1 > Len(s) -> 0
              [] s[j] # 255     -> end[j + 1]
              [] OTHER          -> IF s[j + 1] = 255 THEN end[j + 2] ELSE j
        once[j \in 1 .. Len(s) + 2, e \in 0 .. Len(s)] ==   \* the bytes from j up to e
            IF j >= e THEN <<>>
            ELSE <<s[j]>> \o once[IF s[j] = 255 THEN j + 2 ELSE j + 1, e]
        from[i \in 1 .. Len(s) + 3] ==
            CASE i > Len(s)       -> <<>>
              [] i <= Len(s) /\ s[i] # 255 -> <<[is |-> "text", byte |-> s[i]]>> \o from[i + 1]
              [] i = Len(s) /\ s[i] = 255 -> <<>>
              [] OTHER ->
                   CASE s[i + 1] = 255 -> <<[is |-> "text", byte |-> 255]>> \o from[i + 2]
                     [] s[i + 1] \in 251 .. 254 ->
                          IF i + 2 > Len(s) THEN <<>>
                          ELSE <<[is |-> "option", verb |-> s[i + 1], byte |-> s[i + 2]]>> \o from[i + 3]
                     [] s[i + 1] = 250 ->
                          IF end[i + 2] = 0 THEN <<>>
                          ELSE (IF s[end[i + 2] + 1] = 240
                                THEN <<[is |-> "sub", body |-> once[i + 2, end[i + 2]]]>> ELSE <<>>)
                               \o from[end[i + 2] + 2]
                     [] OTHER -> from[i + 2]
    IN  from[1]
Of(said, is)   == SelectSeq(said, LAMBDA t : t.is = is)
TextOf(said)   == [i \in DOMAIN Of(said, "text") |-> Of(said, "text")[i].byte]
AnswerTo(t)    == CASE t.verb = 251 -> <<255, IF t.byte = 31 THEN 253 ELSE 254, t.byte>>
                    [] t.verb = 253 -> <<255, 252, t.byte>>
                    [] OTHER        -> <<>>
AnswersTo(said) == LET o == Of(said, "option") IN FlattenSeq([i \in DOMAIN o |-> AnswerTo(o[i])])
SizesIn(said)  ==
    LET naws == SelectSeq(Of(said, "sub"), LAMBDA t : t.body[1] = 31 /\ Len(t.body) >= 5)
    IN  [i \in DOMAIN naws |-> <<naws[i].body[2] * 256 + naws[i].body[3],
                                 naws[i].body[4] * 256 + naws[i].body[5]>>]

\* However the network cuts a client's bytes into reads, in the middle of a
\* command, of a doubled 255, of a window size or of a line's end, the lines,
\* the answers and the window sizes are those of the whole stream; and a line
\* the server writes reads back as its text.
ReadsDoNotMatter ==
    scene.name = "bytes" =>
        LET said == Said(SubSeq(stream, 1, place))
        IN  /\ taken = L!Lines(<<>>, TextOf(said)).lines
            /\ answered = <<255, 253, 31>> \o AnswersTo(said)
            /\ resized = SizesIn(said)
            /\ decoder.telnet <=> Of(said, "option") # <<>>
            /\ \A t \in Texts : TextOf(Said(L!EncodeLine(t))) = t \o <<13, 10>>

\* The world goroutine never waits for room in its own queue.
WorldNeverWaitsOnItself ==
    running # <<>> /\ Perform(running[1]).then # <<>> => Len(ops) < QueueDepth
=============================================================================
