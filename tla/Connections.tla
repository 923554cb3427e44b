------------------------------ MODULE Connections ------------------------------
(***************************************************************************)
(* A connection from the socket to the hub: the admission gate             *)
(* (internal/admit), the reader and writer goroutines of a transport       *)
(* (internal/transport), the descriptor, its spam quota and the hub        *)
(* (internal/session), and what the world goroutine does to them           *)
(* (internal/game).                                                        *)
(*                                                                         *)
(* A line is not told from another: what it makes the world do is chosen   *)
(* when the world handles it.  Lines of the MCP protocol, which cost no    *)
(* quota and stay within the descriptor, are left out; so is a stopped     *)
(* engine, which is WorldEngine's subject.  Each of the three limits is    *)
(* set.                                                                    *)
(***************************************************************************)
EXTENDS Naturals, Sequences, FiniteSets, SequencesExt

CONSTANTS
    Conn,        \* attempts to connect: each is one descriptor at most
    Wss,         \* those over WebSockets, whose writes have a deadline
    Host, HostOf,
    Player, Nobody,
    Wizard,      \* players no limit keeps out
    Total, PerHost, Rate, \* admit.Limits
    ForgetAbove, \* admit.forgetAbove
    PlayerMax,   \* tune playermax_limit
    Burst,       \* tune command_burst_size
    OutputDepth, \* session.outputDepth
    MaxLines,    \* bound: lines ever typed
    MaxTroubled  \* bound: clients that stop reading or go

ASSUME ConnectionsAssumption ==
    /\ Wss \subseteq Conn /\ HostOf \in [Conn -> Host]
    /\ Nobody \notin Player /\ Wizard \subseteq Player
    /\ {Total, PerHost, Rate, Burst, OutputDepth} \subseteq Nat \ {0}
    /\ {ForgetAbove, PlayerMax, MaxLines, MaxTroubled} \subseteq Nat

VARIABLES
    at,       \* where the transport's handler of each connection is
    writer,   \* where its writer goroutine is
    peer,     \* the client: "ok", "stuck" (it reads no more), or "lost"
    sock,     \* "open", or "shut" from this side
    total, held, \* admit.Gate
    recent,   \* Gate.recent: openings still in the window, of the hosts it knows
    out,      \* Descriptor.out
    closed,   \* Descriptor.done is closed
    bound,    \* Descriptor.Player; Connected is that it is somebody
    tokens,   \* Quota.tokens
    wait,     \* the refill channel a Take waits on: "open", or "closed" since
    byID, byPlayer, \* Hub
    ops,      \* Engine.ops, as what each operation is of which connection
    program,  \* the players with a foreground program
    lines,    \* the counter MaxLines bounds
    bye       \* history: the line a QUIT is answered with

gateVars  == <<total, held, recent>>
transVars == <<at, writer, peer, sock>>
hubVars   == <<byID, byPlayer, bound, program>>
vars == <<transVars, gateVars, out, closed, tokens, wait, hubVars, ops, lines, bye>>

-------------------------------------------------------------------------------

ReaderAt == {"away", "handshake", "connecting", "welcomed", "reading", "chunk",
             "quota", "closing", "departing", "gone"}
WriterAt == {"none", "select", "writing", "parting", "done"}

Op(what, c) == [what |-> what, conn |-> c]
Ops == [what : {"connect", "line", "disconnect"}, conn : Conn]

Init ==
    /\ at = [c \in Conn |-> "away"] /\ writer = [c \in Conn |-> "none"]
    /\ peer = [c \in Conn |-> "ok"] /\ sock = [c \in Conn |-> "open"]
    /\ total = 0 /\ held = [h \in Host |-> 0] /\ recent = [h \in {} |-> 0]
    /\ out = [c \in Conn |-> <<>>] /\ closed = [c \in Conn |-> FALSE]
    /\ bound = [c \in Conn |-> Nobody]
    /\ tokens = [c \in Conn |-> 0] /\ wait = [c \in Conn |-> "closed"]
    /\ byID = {} /\ byPlayer = [p \in Player |-> <<>>] /\ program = {}
    /\ ops = <<>> /\ lines = 0 /\ bye = [c \in Conn |-> "none"]

-------------------------------------------------------------------------------
(* The gate, and the transport's handler up to the first read.             *)

RecentOf(h) == IF h \in DOMAIN recent THEN recent[h] ELSE 0

Admissible(h) == total < Total /\ held[h] < PerHost /\ RecentOf(h) < Rate

Admit(h) ==
    /\ Admissible(h)
    /\ total' = total + 1 /\ held' = [held EXCEPT ![h] = @ + 1]
    /\ recent' = [g \in DOMAIN recent \cup {h} |->
                     IF g = h THEN RecentOf(h) + 1 ELSE recent[g]]

\* Release; with nobody left it forgets the hosts that have been quiet.
Release(h) ==
    /\ total' = total - 1 /\ held' = [held EXCEPT ![h] = @ - 1]
    /\ recent' = IF total = 1 /\ Cardinality(DOMAIN recent) > ForgetAbove
                 THEN [g \in {k \in DOMAIN recent : recent[k] > 0} |-> recent[g]]
                 ELSE recent

\* An opening leaves the window of the rate limit.
Age(h) ==
    /\ RecentOf(h) > 0
    /\ recent' = [recent EXCEPT ![h] = @ - 1]
    /\ UNCHANGED <<transVars, total, held, out, closed, tokens, wait, hubVars,
                   ops, lines, bye>>

Dial(c) ==
    /\ at[c] = "away"
    /\ \/ Admit(HostOf[c]) /\ at' = [at EXCEPT ![c] = "handshake"]
       \/ /\ ~Admissible(HostOf[c])
          /\ at' = [at EXCEPT ![c] = "gone"]
          /\ UNCHANGED gateVars
    /\ UNCHANGED <<writer, peer, sock, out, closed, tokens, wait, hubVars, ops,
                   lines, bye>>

\* A refused handshake that returns before its slot is the deferred Release's.
MutantSlotKept(c) ==
    /\ at[c] = "handshake"
    /\ at' = [at EXCEPT ![c] = "gone"]
    /\ UNCHANGED <<writer, peer, sock, gateVars, out, closed, tokens, wait,
                   hubVars, ops, lines, bye>>

\* TLS or the upgrade failed, or took longer than handshakeTimeout.
HandshakeFails(c) ==
    /\ at[c] = "handshake"
    /\ at' = [at EXCEPT ![c] = "gone"]
    /\ Release(HostOf[c])
    /\ UNCHANGED <<writer, peer, sock, out, closed, tokens, wait, hubVars, ops,
                   lines, bye>>

\* Server.Connect, up to its wait for the world.
Connect(c) ==
    /\ at[c] = "handshake"
    /\ at' = [at EXCEPT ![c] = "connecting"]
    /\ ops' = Append(ops, Op("connect", c))
    /\ UNCHANGED <<writer, peer, sock, gateVars, out, closed, tokens, wait,
                   hubVars, lines, bye>>

\* The writer starts, and the reader says what telnet options it wants; a
\* client that has gone by then ends the handler without a wait.
Begin(c) ==
    /\ at[c] = "welcomed"
    /\ writer' = [writer EXCEPT ![c] = "select"]
    /\ \/ at' = [at EXCEPT ![c] = "reading"]
       \/ /\ peer[c] = "lost" /\ c \notin Wss
          /\ at' = [at EXCEPT ![c] = "departing"]
    /\ UNCHANGED <<peer, sock, gateVars, out, closed, tokens, wait, hubVars, ops,
                   lines, bye>>

-------------------------------------------------------------------------------
(* The reader, and Server.Input with its Quota.Take.                       *)

Typed(c) == ops' = Append(ops, Op("line", c))

\* Read returns some bytes.
ReadChunk(c) ==
    /\ at[c] = "reading" /\ peer[c] # "lost" /\ sock[c] = "open"
    /\ at' = [at EXCEPT ![c] = "chunk"]
    /\ UNCHANGED <<writer, peer, sock, gateVars, out, closed, tokens, wait,
                   hubVars, ops, lines, bye>>

\* A line of them.  Take looks at the tokens and keeps the channel to wait on
\* in one critical section.
Input(c) ==
    /\ at[c] = "chunk" /\ lines < MaxLines
    /\ lines' = lines + 1
    /\ IF tokens[c] > 0
       THEN /\ tokens' = [tokens EXCEPT ![c] = @ - 1]
            /\ Typed(c)
            /\ UNCHANGED <<at, wait>>
       ELSE /\ at' = [at EXCEPT ![c] = "quota"]
            /\ wait' = [wait EXCEPT ![c] = "open"]
            /\ UNCHANGED <<tokens, ops>>
    /\ UNCHANGED <<writer, peer, sock, gateVars, out, closed, hubVars, bye>>

TakeAgain(c) ==
    /\ at[c] = "quota" /\ wait[c] = "closed"
    /\ IF tokens[c] > 0
       THEN /\ tokens' = [tokens EXCEPT ![c] = @ - 1]
            /\ Typed(c)
            /\ at' = [at EXCEPT ![c] = "chunk"]
            /\ UNCHANGED wait
       ELSE /\ wait' = [wait EXCEPT ![c] = "open"]
            /\ UNCHANGED <<at, tokens, ops>>
    /\ UNCHANGED <<writer, peer, sock, gateVars, out, closed, hubVars, lines, bye>>

TakeGivesUp(c) ==
    /\ at[c] = "quota" /\ closed[c]
    /\ at' = [at EXCEPT ![c] = "chunk"]
    /\ UNCHANGED <<writer, peer, sock, gateVars, out, closed, tokens, wait,
                   hubVars, ops, lines, bye>>

\* Only between reads does the reader look at whether it has been closed.
EndChunk(c) ==
    /\ at[c] = "chunk"
    /\ at' = [at EXCEPT ![c] = IF closed[c] THEN "closing" ELSE "reading"]
    /\ UNCHANGED <<writer, peer, sock, gateVars, out, closed, tokens, wait,
                   hubVars, ops, lines, bye>>

ReadFails(c) ==
    /\ at[c] = "reading"
    /\ peer[c] = "lost" \/ sock[c] = "shut"
    /\ closed' = [closed EXCEPT ![c] = TRUE]
    /\ at' = [at EXCEPT ![c] = "closing"]
    /\ UNCHANGED <<writer, peer, sock, gateVars, out, tokens, wait, hubVars, ops,
                   lines, bye>>

\* A handler that does not wait for its writer before it closes the socket.
MutantNoWriteDone(c) ==
    /\ at[c] \in {"closing", "departing"}
    /\ at' = [at EXCEPT ![c] = "gone"] /\ sock' = [sock EXCEPT ![c] = "shut"]
    /\ ops' = Append(ops, Op("disconnect", c))
    /\ Release(HostOf[c])
    /\ UNCHANGED <<writer, peer, out, closed, tokens, wait, hubVars, lines, bye>>

\* The deferred calls: Disconnect, the socket, and the slot at the gate.
Depart(c) ==
    /\ \/ at[c] = "closing" /\ writer[c] = "done"
       \/ at[c] = "departing"
    /\ at' = [at EXCEPT ![c] = "gone"] /\ sock' = [sock EXCEPT ![c] = "shut"]
    /\ ops' = Append(ops, Op("disconnect", c))
    /\ Release(HostOf[c])
    /\ UNCHANGED <<writer, peer, out, closed, tokens, wait, hubVars, lines, bye>>

-------------------------------------------------------------------------------
(* The writer.                                                             *)

\* The output it has just taken is the parting line.
Carried(c, m) == IF m = "bye" THEN [bye EXCEPT ![c] = "carried"] ELSE bye
Heard(c) == IF bye[c] = "carried" THEN [bye EXCEPT ![c] = "heard"] ELSE bye

TakeLine(c) ==
    /\ writer[c] = "select" /\ out[c] # <<>>
    /\ writer' = [writer EXCEPT ![c] = "writing"]
    /\ out' = [out EXCEPT ![c] = Tail(@)]
    /\ bye' = Carried(c, Head(out[c]))
    /\ UNCHANGED <<at, peer, sock, gateVars, closed, tokens, wait, hubVars, ops, lines>>

Writable(c) == peer[c] = "ok" /\ sock[c] = "open"

WriteOk(c) ==
    /\ writer[c] = "writing" /\ Writable(c)
    /\ writer' = [writer EXCEPT ![c] = "select"]
    /\ bye' = Heard(c)
    /\ UNCHANGED <<at, peer, sock, gateVars, out, closed, tokens, wait, hubVars,
                   ops, lines>>

\* An error, or for WebSockets the deadline: the writer gives the socket up.
WriteFails(c) ==
    /\ writer[c] \in {"writing", "parting"}
    /\ peer[c] = "lost" \/ sock[c] = "shut" \/ (c \in Wss /\ peer[c] = "stuck")
    /\ writer' = [writer EXCEPT ![c] = "done"] /\ sock' = [sock EXCEPT ![c] = "shut"]
    /\ UNCHANGED <<at, peer, gateVars, out, closed, tokens, wait, hubVars, ops,
                   lines, bye>>

\* A writer that returns when the descriptor closes, and leaves the socket.
MutantSocketLeft(c) ==
    /\ writer[c] = "select" /\ closed[c]
    /\ writer' = [writer EXCEPT ![c] = "done"]
    /\ UNCHANGED <<at, peer, sock, gateVars, out, closed, tokens, wait, hubVars,
                   ops, lines, bye>>

\* Done: Drain takes what is queued, and with nothing to write it closes.
Part(c) ==
    /\ writer[c] = "select" /\ closed[c]
    /\ IF out[c] = <<>>
       THEN /\ writer' = [writer EXCEPT ![c] = "done"]
            /\ sock' = [sock EXCEPT ![c] = "shut"]
            /\ UNCHANGED <<out, bye>>
       ELSE /\ writer' = [writer EXCEPT ![c] = "parting"]
            /\ out' = [out EXCEPT ![c] = <<>>]
            /\ bye' = Carried(c, IF bye[c] = "queued" THEN "bye" ELSE "line")
            /\ UNCHANGED sock
    /\ UNCHANGED <<at, peer, gateVars, closed, tokens, wait, hubVars, ops, lines>>

Parted(c) ==
    /\ writer[c] = "parting" /\ Writable(c)
    /\ writer' = [writer EXCEPT ![c] = "done"] /\ sock' = [sock EXCEPT ![c] = "shut"]
    /\ bye' = Heard(c)
    /\ UNCHANGED <<at, peer, gateVars, out, closed, tokens, wait, hubVars, ops, lines>>

\* The client stops reading, or goes.
PeerChanges(c) ==
    /\ at[c] \notin {"away", "gone"}
    /\ Cardinality({d \in Conn \ {c} : peer[d] # "ok"}) < MaxTroubled
    /\ \/ peer[c] = "ok" /\ peer' = [peer EXCEPT ![c] = "stuck"]
       \/ peer[c] # "lost" /\ peer' = [peer EXCEPT ![c] = "lost"]
    /\ UNCHANGED <<at, writer, sock, gateVars, out, closed, tokens, wait, hubVars,
                   ops, lines, bye>>

-------------------------------------------------------------------------------
(* The world goroutine: what an operation sends, closes and rebinds.       *)

\* Room in the output queue.
HasRoom(c) == Len(out[c]) < OutputDepth

\* sendRaw to each of S, the last of them being m; whoever has no room is
\* closed, as are the ones in C after it.
SendThenClose(S, m, C) ==
    LET open == {c \in S : ~closed[c]}
        full == {c \in open : ~HasRoom(c)}
    IN  /\ out' = [c \in Conn |-> IF c \in open \ full THEN Append(out[c], m)
                                  ELSE out[c]]
        /\ closed' = [c \in Conn |-> closed[c] \/ c \in full \cup C]
        /\ bye' = [c \in Conn |-> IF m = "bye" /\ c \in open \ full
                                  THEN "queued" ELSE bye[c]]

Send(S) == SendThenClose(S, "line", {})

On(p) == ToSet(byPlayer[p])

\* Who hears that p has come or gone: everyone else, in one room.
Others(p) == UNION {On(q) : q \in Player \ {p}}

\* unindex: the first that is this descriptor goes from its player's list.
Unindexed(c) ==
    IF bound[c] = Nobody THEN byPlayer
    ELSE [byPlayer EXCEPT ![bound[c]] = RemoveFirst(@, c)]

Bind(c, p) ==
    /\ byPlayer' = [Unindexed(c) EXCEPT ![p] = Append(@, c)]
    /\ bound' = [bound EXCEPT ![c] = p]

Unbind(c) ==
    /\ byPlayer' = Unindexed(c)
    /\ bound' = [bound EXCEPT ![c] = Nobody]

\* Hub.Remove, whose Close is left to the caller.  It does not unbind.
RemoveFromHub(c) ==
    /\ byID' = byID \ {c}
    /\ byPlayer' = Unindexed(c)
    /\ UNCHANGED bound

Handles(what, c) == ops # <<>> /\ Head(ops) = Op(what, c) /\ ops' = Tail(ops)

\* The operation of Server.Connect.
Welcome(c) ==
    /\ Handles("connect", c)
    /\ byID' = byID \cup {c}
    /\ tokens' = [tokens EXCEPT ![c] = Burst]
    /\ Send({c})
    /\ at' = [at EXCEPT ![c] = "welcomed"]
    /\ UNCHANGED <<writer, peer, sock, gateVars, wait, byPlayer, bound, program, lines>>

\* serverFull, with the exemption.
LetIn(p) == p \in Wizard \/ Cardinality({d \in byID : bound[d] # Nobody}) < PlayerMax

\* login: quit, refused, or in; and nothing, for a wrong password.
Login(c) ==
    /\ bound[c] = Nobody
    /\ UNCHANGED <<byID, program>>
    /\ \/ SendThenClose({c}, "bye", {c}) /\ UNCHANGED <<byPlayer, bound>>
       \/ \E p \in Player : ~LetIn(p) /\ SendThenClose({c}, "line", {c})
                                      /\ UNCHANGED <<byPlayer, bound>>
       \/ \E p \in Player : LetIn(p) /\ Bind(c, p) /\ Send({c} \cup Others(p))
       \/ Send({c}) /\ UNCHANGED <<byPlayer, bound>>

\* QUIT
Quit(c) == /\ SendThenClose({c}, "bye", {c})
           /\ UNCHANGED hubVars

\* Something said to a player.
Tell(p) == Send(On(p)) /\ UNCHANGED hubVars

\* @boot closes the newest connection of a player, boot and @toad all.
Boot(p) ==
    /\ byPlayer[p] # <<>>
    /\ \/ SendThenClose(On(p), "line", {Last(byPlayer[p])})
       \/ SendThenClose(On(p), "line", On(p))
    /\ UNCHANGED hubVars

\* DESCRBOOT, by the program of somebody permitted.
DescrBoot(d) ==
    /\ d \in byID
    /\ SendThenClose(IF bound[d] = Nobody THEN {} ELSE Others(bound[d]), "line", {d})
    /\ RemoveFromHub(d)
    /\ UNCHANGED program

\* DESCR_SETUSER
SetUser(d, p) ==
    /\ d \in byID
    /\ IF p = Nobody THEN Unbind(d) ELSE Bind(d, p)
    /\ Send((IF bound[d] = Nobody THEN {} ELSE Others(bound[d]))
               \cup (IF p # Nobody /\ On(p) = {} THEN {d} \cup Others(p) ELSE {}))
    /\ UNCHANGED <<byID, program>>

\* The operation of Server.Input.
Line(c) ==
    /\ Handles("line", c)
    /\ \/ Login(c)
       \/ /\ bound[c] # Nobody
          /\ \/ Quit(c)
             \/ \E p \in Player : Tell(p) \/ Boot(p)
             \/ \E d \in Conn : DescrBoot(d) \/ \E p \in Player \cup {Nobody} : SetUser(d, p)
             \/ /\ program' = program \cup {bound[c]}
                /\ UNCHANGED <<out, closed, bye, byID, byPlayer, bound>>
    /\ UNCHANGED <<transVars, gateVars, tokens, wait, lines>>

\* The operation of Server.Disconnect.
Disconnect(c) ==
    /\ Handles("disconnect", c)
    /\ program' = IF bound[c] # Nobody /\ Len(byPlayer[bound[c]]) < 2
                  THEN program \ {bound[c]} ELSE program
    /\ SendThenClose(IF bound[c] = Nobody THEN {} ELSE Others(bound[c]), "line", {c})
    /\ RemoveFromHub(c)
    /\ UNCHANGED <<transVars, gateVars, tokens, wait, lines>>

\* A refill that does not tell those who wait for it.
MutantQuietRefill ==
    /\ tokens' = [c \in Conn |-> IF c \in byID THEN Burst ELSE tokens[c]]
    /\ UNCHANGED wait

\* refillQuotas, when a slice has gone by: a slice is worth a burst here.
Refill ==
    /\ tokens' = [c \in Conn |-> IF c \in byID THEN Burst ELSE tokens[c]]
    /\ wait' = [c \in Conn |-> IF c \in byID THEN "closed" ELSE wait[c]]

\* Tick, which is run after every operation and at every interval: a refill
\* if it is time, and then sweepDescriptors, which closes those in idle.
Tick(refill, idle) ==
    /\ \A c \in idle : ~closed[c]
    /\ IF refill THEN Refill ELSE UNCHANGED <<tokens, wait>>
    /\ SendThenClose({c \in idle : bound[c] # Nobody}, "line", idle)
    /\ UNCHANGED <<transVars, gateVars, hubVars, ops, lines>>

-------------------------------------------------------------------------------

Reader(c) == \/ HandshakeFails(c) \/ Connect(c) \/ Begin(c)
             \/ Input(c) \/ TakeAgain(c) \/ TakeGivesUp(c)
             \/ EndChunk(c) \/ ReadFails(c) \/ Depart(c)

Writer(c) == \/ TakeLine(c) \/ WriteOk(c) \/ WriteFails(c) \/ Part(c) \/ Parted(c)

Operation(c) == Welcome(c) \/ Line(c) \/ Disconnect(c)

Next == \/ \E c \in Conn : \/ Dial(c) \/ ReadChunk(c) \/ PeerChanges(c)
                           \/ Reader(c) \/ Writer(c) \/ Operation(c)
        \/ \E h \in Host : Age(h)
        \/ \E refill \in BOOLEAN : \E idle \in SUBSET byID : Tick(refill, idle)

Spec == Init /\ [][Next]_vars

\* Goroutines run, operations are handled, time passes; nothing makes a
\* client connect, type, or go.
FairSpec ==
    /\ Spec
    /\ \A c \in Conn : /\ WF_vars(Reader(c)) /\ WF_vars(Writer(c))
                       /\ WF_vars(Operation(c))
    /\ WF_vars(Tick(TRUE, {}))

-------------------------------------------------------------------------------
(* Properties.                                                             *)

\* Every variable holds what the code's types say it can; the output queue
\* is a channel of fixed capacity.
TypeOK ==
    /\ at \in [Conn -> ReaderAt] /\ writer \in [Conn -> WriterAt]
    /\ peer \in [Conn -> {"ok", "stuck", "lost"}] /\ sock \in [Conn -> {"open", "shut"}]
    /\ total \in 0..Total /\ held \in [Host -> 0..PerHost]
    /\ DOMAIN recent \subseteq Host /\ \A h \in DOMAIN recent : recent[h] \in 0..Rate
    /\ out \in [Conn -> Seq({"line", "bye"})]
    /\ \A c \in Conn : Len(out[c]) <= OutputDepth
    /\ closed \in [Conn -> BOOLEAN] /\ bound \in [Conn -> Player \cup {Nobody}]
    /\ tokens \in [Conn -> 0..Burst] /\ wait \in [Conn -> {"open", "closed"}]
    /\ byID \subseteq Conn /\ byPlayer \in [Player -> Seq(Conn)]
    /\ ops \in Seq(Ops) /\ program \subseteq Player /\ lines \in 0..MaxLines
    /\ bye \in [Conn -> {"none", "queued", "carried", "heard"}]

Inside == {c \in Conn : at[c] \notin {"away", "gone"}}

GateCountsTheLiving ==
    /\ total = Cardinality(Inside)
    /\ \A h \in Host : held[h] = Cardinality({c \in Inside : HostOf[c] = h})

HubIndexSound ==
    /\ \A p \in Player : /\ IsInjective(byPlayer[p])
                         /\ \A c \in On(p) : bound[c] = p
    /\ \A c \in byID : bound[c] # Nobody => c \in On(bound[c])

GoneIsForgotten ==
    \A c \in Conn :
        at[c] = "gone" /\ (\A k \in DOMAIN ops : ops[k].conn # c) =>
            c \notin byID /\ \A p \in Player : c \notin On(p)

\* "A caller that is admitted must call Release exactly once": on every way out
\* of a handler the gate's counts stay those of the connections there are.  The
\* hub's two maps agree, each connection listed once and under its player,
\* through logins, DESCR_SETUSER, boots and disconnections; and one whose
\* Disconnect has been handled is in neither, whatever lines of it were still
\* queued when it went.
NothingLeftBehind == TypeOK /\ GateCountsTheLiving /\ HubIndexSound /\ GoneIsForgotten

\* "Deliver whatever is still queued, so a parting message is not lost to the
\* race between it and the disconnect": a client that goes on reading hears
\* the answer to its QUIT.
PartingHeard ==
    \A c \in Conn : writer[c] = "done" /\ peer[c] = "ok" =>
                        bye[c] \in {"none", "heard"}

\* What makes the two above inductive.  The operations a connection has in the
\* engine's queue are those of where its handler is: the first of them connects,
\* the last disconnects, and whoever is in the hub's maps, or may get there by a
\* line still queued, has its disconnection to come.
OpsOf(c) == {k \in DOMAIN ops : ops[k].conn = c}

InHub(c) == c \in byID \/ \E p \in Player : c \in On(p)

OpsFollowTheHandler ==
    \A c \in Conn :
        /\ at[c] \in {"away", "handshake"} => OpsOf(c) = {}
        /\ at[c] \in {"away", "handshake", "connecting"} =>
              ~InHub(c) /\ bound[c] = Nobody
        /\ \A k \in OpsOf(c) :
              /\ ops[k].what = "connect" => at[c] = "connecting" /\ OpsOf(c) = {k}
              /\ ops[k].what = "line" => at[c] # "connecting"
              /\ ops[k].what = "disconnect" =>
                    at[c] = "gone" /\ \A j \in OpsOf(c) : j <= k
              /\ at[c] = "gone" =>
                    \E j \in OpsOf(c) : j >= k /\ ops[j].what = "disconnect"
        /\ InHub(c) /\ at[c] = "gone" =>
              \E j \in OpsOf(c) : ops[j].what = "disconnect"

FewInside == IsFiniteSet(Inside)

\* A socket is shut by its own writer, or because its client has gone; nobody
\* writes before the handler begins.
SocketIsTheWriters ==
    \A c \in Conn :
        /\ at[c] \in {"away", "handshake", "connecting", "welcomed"} =>
              writer[c] = "none" /\ sock[c] = "open"
        /\ at[c] = "departing" => peer[c] = "lost"
        /\ sock[c] = "shut" => writer[c] = "done" \/ peer[c] = "lost"

\* A parting line is the last that a descriptor queues, and stays queued until
\* its writer has it in hand.
ByeIsLast ==
    \A c \in Conn :
        /\ bye[c] # "none" => closed[c]
        /\ bye[c] = "queued" => out[c] # <<>>
        /\ \A k \in DOMAIN out[c] :
              out[c][k] = "bye" => bye[c] = "queued" /\ k = Len(out[c])
        /\ bye[c] = "queued" => out[c][Len(out[c])] = "bye"
        /\ writer[c] = "parting" => closed[c] /\ bye[c] # "queued"
        /\ bye[c] = "carried" /\ peer[c] = "ok" => writer[c] \in {"writing", "parting"}
        /\ writer[c] = "done" /\ peer[c] = "ok" => closed[c] /\ bye[c] # "queued"

PlaceInv == OpsFollowTheHandler /\ FewInside

PartInv == SocketIsTheWriters /\ ByeIsLast

\* Spending the allowance "does not ... lose what they typed: the connection
\* simply waits for its next allowance", and does not wait for ever.
HeldUpGoesOn == \A c \in Conn : at[c] = "quota" ~> at[c] # "quota"

\* A descriptor that is closed, by whichever goroutine, gives its socket and
\* its slot back, unless its TLS client neither reads nor goes.
ClosedDeparts ==
    \A c \in Conn : closed[c] ~> (at[c] = "gone" \/ (c \notin Wss /\ peer[c] = "stuck"))
===============================================================================
