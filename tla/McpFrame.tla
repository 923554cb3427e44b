------------------------------- MODULE McpFrame -------------------------------
(***************************************************************************)
(* One connection's MCP state (mcp.Frame): reading the lines a client      *)
(* sends, putting messages that come in several lines together, and        *)
(* writing messages out.                                                   *)
(*                                                                         *)
(* A line is a record: text; something that begins like a message and is   *)
(* not one; the first line of a message; a continuation of one; its end;   *)
(* or a line the client has quoted.  A package or message name is the      *)
(* sequence of its words, so that one name begins another exactly when a   *)
(* hyphen follows.  Names and keys are already folded.                     *)
(*                                                                         *)
(* A frame is a record:                                                    *)
(*   enabled   negotiation has succeeded                                   *)
(*   key       the authentication key                                      *)
(*   version   the protocol version settled on                             *)
(*   packages  the version agreed for each package                         *)
(*   partial   the messages still arriving, by data tag                    *)
(*   sent      ghost: the last message sent, and the lines it took         *)
(***************************************************************************)
EXTENDS Integers, FiniteSets, Sequences, SequencesExt, Functions

CONSTANTS
    VersionOf,   \* what each string that is a version means, as <<major, minor>>
    Long,        \* the values too long for a message's first line
    LinesOf      \* the lines of each value that holds a line break

InitPackage      == <<"mcp">>
NegotiatePackage == <<"mcp", "negotiate">>
NotifyPackage    == <<"notify">>
DataTag          == "_data-tag"

Null == <<0, 0>>
Less(v, w) == v[1] < w[1] \/ (v[1] = w[1] /\ v[2] < w[2])

ServerVersion == "2.1"

SelectVersion(minA, maxA, minB, maxB) ==
    IF Less(maxA, minB) \/ Less(maxB, minA) THEN Null
    ELSE IF Less(maxA, maxB) THEN maxA ELSE maxB

-----------------------------------------------------------------------------
\* Messages.

Message(pkg, name, args) == [pkg |-> pkg, name |-> name, args |-> args]
Arg(name, value)    == [name |-> name, lines |-> <<value>>]
Multiline(name, lines) == [name |-> name, lines |-> lines]
FullName(msg)       == msg.pkg \o msg.name

\* Arg: the first line of the first argument of that name that has one.
Valued(msg, name) == SelectSeq(msg.args, LAMBDA a : a.name = name /\ a.lines # <<>>)
HasArg(msg, name) == Valued(msg, name) # <<>>
ArgOf(msg, name)  == IF HasArg(msg, name) THEN Head(Head(Valued(msg, name)).lines) ELSE ""

\* Where the first argument of that name is, if there is one.
Named(args, name) == SelectInSeq(args, LAMBDA a : a.name = name)

\* Lines: all of its lines.
LinesIn(msg, name) ==
    LET i == Named(msg.args, name) IN IF i = 0 THEN <<>> ELSE msg.args[i].lines

AppendLine(args, name, value) ==
    LET i == Named(args, name)
    IN  IF i = 0 THEN Append(args, Arg(name, value))
        ELSE [args EXCEPT ![i].lines = Append(@, value)]

\* removeArg: every argument of that name, one after the other.
Left(name, kept, a) == IF a.name = name THEN kept ELSE Append(kept, a)
Removing == INSTANCE InTurn WITH Do <- Left
RemoveArg(args, name) == Removing!Over(name, <<>>, args)

-----------------------------------------------------------------------------
\* The lines of the protocol.

Start(name, key, args) == [kind |-> "start", name |-> name, key |-> key, args |-> args]
Continuation(tag, arg, value) ==
    [kind |-> "continuation", tag |-> tag, arg |-> arg, value |-> value]
End(tag)        == [kind |-> "end", tag |-> tag]
Text(t)         == [kind |-> "text", text |-> t]
Garbled         == [kind |-> "garbled"]
Quoted(line)    == [kind |-> "quoted", line |-> line]

\* A line that begins with the message prefix.
Prefixed(line) == line.kind \in {"start", "continuation", "end", "garbled"}

Keyval(name, deferred, value) == [name |-> name, deferred |-> deferred, value |-> value]

NewFrame ==
    [enabled |-> FALSE, key |-> "", version |-> Null, packages |-> <<>>,
     partial |-> <<>>, sent |-> <<>>]

Supports(f, pkg) == IF pkg \in DOMAIN f.packages THEN f.packages[pkg] ELSE Null

\* splitPackage: the longest registered name wins; without one, what begins
\* like the negotiation package is of it, and "mcp" alone opens.
Owners(reg, name) ==
    IF name = InitPackage THEN {}
    ELSE {p \in {reg[i].name : i \in DOMAIN reg} : IsPrefix(p, name)}
Belongs(reg, name) ==
    Owners(reg, name) # {} \/ name = InitPackage \/ IsPrefix(NegotiatePackage, name)
PackageOf(reg, name) ==
    IF Owners(reg, name) # {}
    THEN CHOOSE p \in Owners(reg, name) : \A q \in Owners(reg, name) : Len(q) <= Len(p)
    ELSE IF name = InitPackage THEN InitPackage ELSE NegotiatePackage

\* The message a first line starts: an argument whose value comes later has
\* no lines yet.
ReadKeyval(line, args, kv) ==
    IF kv.deferred THEN Append(args, Multiline(kv.name, <<>>))
    ELSE AppendLine(args, kv.name, kv.value)
Reading == INSTANCE InTurn WITH Do <- ReadKeyval
Started(reg, line) ==
    LET pkg == PackageOf(reg, line.name)
    IN  Message(pkg, SubSeq(line.name, Len(pkg) + 1, Len(line.name)),
                Reading!Over(line, <<>>, line.args))
Incomplete(line) == \E i \in DOMAIN line.args : line.args[i].deferred
TagOf(reg, line) == ArgOf(Started(reg, line), DataTag)

\* Whether readLine takes the line as a message's, or hands it on as text.
Understood(f, reg, line) ==
    \/ /\ f.enabled
       /\ line.kind \in {"continuation", "end"}
       /\ line.tag \in DOMAIN f.partial
    \/ /\ line.kind = "start"
       /\ line.name = InitPackage \/ (f.enabled /\ line.key = f.key)
       /\ f.enabled \/ line.args # <<>>
       /\ Belongs(reg, line.name)

\* A first line whose values come later is kept under its data tag, in place
\* of whatever was arriving under it.
Keep(f, reg, line) ==
    LET tag == TagOf(reg, line)
        msg == [Started(reg, line) EXCEPT !.args = RemoveArg(@, DataTag)]
    IN  [f EXCEPT !.partial = [t \in DOMAIN @ \cup {tag} |-> IF t = tag THEN msg ELSE @[t]]]

MutantTagKept(f, reg, line) ==
    IF ~Understood(f, reg, line) THEN f
    ELSE CASE line.kind = "continuation" ->
                [f EXCEPT !.partial[line.tag].args = AppendLine(@, line.arg, line.value)]
           [] line.kind = "start" /\ Incomplete(line) -> Keep(f, reg, line)
           [] OTHER                                   -> f

\* The frame once it has read the line.
ReadLine(f, reg, line) ==
    IF ~Understood(f, reg, line) THEN f
    ELSE CASE line.kind = "continuation" ->
                [f EXCEPT !.partial[line.tag].args = AppendLine(@, line.arg, line.value)]
           [] line.kind = "end" -> [f EXCEPT !.partial = Restrict(@, DOMAIN @ \ {line.tag})]
           [] line.kind = "start" /\ Incomplete(line) -> Keep(f, reg, line)
           [] OTHER                                   -> f

\* The message the line completes, if it completes one.
Completed(f, reg, line) ==
    IF ~Understood(f, reg, line) THEN <<>>
    ELSE CASE line.kind = "end"                         -> <<f.partial[line.tag]>>
           [] line.kind = "start" /\ ~Incomplete(line) -> <<Started(reg, line)>>
           [] OTHER                                    -> <<>>

\* What is left of the line for the game, if anything.
Passed(f, reg, line) ==
    IF Understood(f, reg, line) THEN <<>>
    ELSE IF line.kind = "quoted" /\ f.enabled THEN <<line.line>> ELSE <<line>>

-----------------------------------------------------------------------------
\* Writing.

SplitLines(lines) ==
    FlattenSeq([i \in DOMAIN lines |->
        IF lines[i] \in DOMAIN LinesOf THEN LinesOf[lines[i]] ELSE <<lines[i]>>])

Deferred(a) == Len(a.lines) > 1 \/ (a.lines # <<>> /\ a.lines[1] \in Long)

\* The first line's arguments, and the lines of those that did not fit on it,
\* tied to it by a data tag.
Inline(args) ==
    [i \in DOMAIN args |->
        Keyval(args[i].name, Deferred(args[i]),
               IF Deferred(args[i]) \/ args[i].lines = <<>> THEN "" ELSE args[i].lines[1])]
Tagged(args, tag) ==
    FlattenSeq([i \in DOMAIN args |->
        IF Deferred(args[i])
        THEN [j \in DOMAIN args[i].lines |-> Continuation(tag, args[i].name, args[i].lines[j])]
        ELSE <<>>])

Split(msg) == [i \in DOMAIN msg.args |-> [msg.args[i] EXCEPT !.lines = SplitLines(@)]]

WireLines(f, msg, tag) ==
    LET args == Split(msg)
        key == IF FullName(msg) = InitPackage THEN "" ELSE f.key
        first(more) == <<Start(FullName(msg), key, Inline(args) \o more)>>
    IN  IF \E i \in DOMAIN args : Deferred(args[i])
        THEN first(<<Keyval(DataTag, FALSE, tag)>>) \o Tagged(args, tag) \o <<End(tag)>>
        ELSE first(<<>>)

\* errNotEnabled and errNoPackage.
MaySend(f, msg) ==
    /\ f.enabled \/ msg.pkg = InitPackage
    /\ \/ FullName(msg) = InitPackage
       \/ msg.pkg = NegotiatePackage
       \/ Supports(f, msg.pkg) # Null

SendMessage(f, msg, tag) ==
    IF MaySend(f, msg)
    THEN [f EXCEPT !.sent = <<[msg |-> msg, key |-> f.key, lines |-> WireLines(f, msg, tag)]>>]
    ELSE f

\* What ordinary text is written as: quoted when the client would take it for
\* a message.
SendInband(f, line) == IF f.enabled /\ Prefixed(line) THEN Quoted(line) ELSE line

\* SendError's message; a client that does not support the package is sent
\* the text.
SendError(f, topic) ==
    SendMessage(f, Message(NotifyPackage, <<"error">>,
                           <<Arg("text", "sorry"), Arg("topic", topic)>>), "")

-----------------------------------------------------------------------------
\* Negotiation.

InitMessage(args) ==
    Message(InitPackage, <<>>, <<Arg("version", ServerVersion), Arg("to", ServerVersion)>> \o args)

StartNegotiation(f) == SendMessage(f, InitMessage(<<>>), "")

Can(p) == Message(NegotiatePackage, <<"can">>,
                  <<Arg("package", p.label), Arg("min-version", p.min), Arg("max-version", p.max)>>)

Offer(reg, f, p) == IF p.name = InitPackage THEN f ELSE SendMessage(f, Can(p), "")
Offering == INSTANCE InTurn WITH Do <- Offer

\* The range a message names, where "to" is what it is called, or none.
Range2(msg, from, to) ==
    LET top == IF HasArg(msg, to) THEN ArgOf(msg, to) ELSE ArgOf(msg, from)
    IN  IF ArgOf(msg, from) \in DOMAIN VersionOf /\ top \in DOMAIN VersionOf
        THEN <<VersionOf[ArgOf(msg, from)], VersionOf[top]>> ELSE <<>>

\* handleInit: the client's key or a new one, whatever comes of the rest; the
\* version both speak; and the packages this server offers, last first.
HandleInit(f, reg, msg, new) ==
    LET given == HasArg(msg, "authentication-key")
        keyed == [f EXCEPT !.key = IF given THEN ArgOf(msg, "authentication-key") ELSE new]
        told == IF given THEN keyed
                ELSE SendMessage(keyed, InitMessage(<<Arg("authentication-key", new)>>), "")
        range == Range2(msg, "version", "to")
        own == VersionOf[ServerVersion]
        settled == IF range = <<>> THEN told
                   ELSE [told EXCEPT !.version = SelectVersion(own, own, range[1], range[2])]
    IN  IF msg.name # <<>> THEN f
        ELSE IF range = <<>> \/ settled.version = Null THEN settled
        ELSE SendMessage(Offering!Over(reg, [settled EXCEPT !.enabled = TRUE], Reverse(reg)),
                         Message(NegotiatePackage, <<"end">>, <<>>), "")

\* NegotiateHandler: the best version both can speak of a package offered.
NegotiateHandler(f, reg, msg) ==
    LET i == SelectInSeq(reg, LAMBDA p : p.label = ArgOf(msg, "package"))
        range == Range2(msg, "min-version", "max-version")
        best == SelectVersion(VersionOf[reg[i].min], VersionOf[reg[i].max], range[1], range[2])
    IN  IF msg.name = <<"can">> /\ i # 0 /\ range # <<>> /\ best # Null
        THEN [f EXCEPT !.packages = [p \in DOMAIN @ \cup {reg[i].name} |->
                                       IF p = reg[i].name THEN best ELSE @[p]]]
        ELSE f
===============================================================================
