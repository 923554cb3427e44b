------------------------------ MODULE TelnetLine ------------------------------
(***************************************************************************)
(* The line protocol of one TLS connection (internal/transport/tlsline)    *)
(* and its telnet decoder (internal/session): the client's bytes come in   *)
(* reads that end anywhere, the decoder takes the protocol out of them and *)
(* answers it, and the read loop makes lines of the rest.                  *)
(***************************************************************************)
EXTENDS Integers, Sequences, SequencesExt

CONSTANTS
    Streams,     \* what a client may send, from its connection to its end
    MaxRead,     \* the bytes one read may return
    ReadLimit,   \* readLimit, the length a line is cut at
    MaxSub       \* maxSub, the length a subnegotiation is cut at

VARIABLES
    stream,   \* what this client sends
    place,    \* how much of it has been read
    decoder,  \* the telnetDecoder
    line,     \* the line that has begun
    taken,    \* the lines given to Server.Input
    resized,  \* the window sizes given to Server.Resize
    answered  \* the bytes the read loop has written back

wire == <<stream, place, decoder, line, taken, resized, answered>>

IAC  == 255
DONT == 254
DO   == 253
WONT == 252
WILL == 251
SB   == 250
NOP  == 241
SE   == 240
NAWS == 31
CR   == 13
LF   == 10

-----------------------------------------------------------------------------
\* The decoder (telnet.go).

NewDecoder == [state |-> "normal", option |-> 0, sub |-> <<>>, out |-> <<>>,
               reply |-> <<>>, sizes |-> <<>>, telnet |-> FALSE]

To(d, s)       == [d EXCEPT !.state = s]
Gives(d, c)    == [d EXCEPT !.out = Append(@, c)]
Owes(d, bytes) == [d EXCEPT !.reply = @ \o bytes]
Speaks(d)      == [d EXCEPT !.state = "normal", !.telnet = TRUE]
AppendSub(d, c) == IF Len(d.sub) < MaxSub THEN [d EXCEPT !.sub = Append(@, c)] ELSE d

OnWill(d, option) ==
    Owes(d, IF option = NAWS THEN <<IAC, DO, NAWS>> ELSE <<IAC, DONT, option>>)

EndSubneg(d) ==
    [d EXCEPT !.sub = <<>>, !.option = 0, !.state = "normal",
              !.sizes = IF d.option = NAWS /\ Len(d.sub) >= 4
                        THEN Append(@, <<d.sub[1] * 256 + d.sub[2], d.sub[3] * 256 + d.sub[4]>>)
                        ELSE @]

AfterIAC(d, c) ==
    CASE c = IAC  -> To(Gives(d, IAC), "normal")
      [] c = WILL -> To(d, "will")
      [] c = WONT -> To(d, "wont")
      [] c = DO   -> To(d, "do")
      [] c = DONT -> To(d, "dont")
      [] c = SB   -> [d EXCEPT !.state = "subneg", !.option = 0, !.sub = <<>>]
      [] OTHER    -> To(d, "normal")

InSubneg(d, c) ==
    IF c = IAC THEN To(d, "subneg iac")
    ELSE IF d.option = 0 /\ d.sub = <<>> THEN [d EXCEPT !.option = c]
    ELSE AppendSub(d, c)

DecodeByte(d, c) ==
    CASE d.state = "normal"     -> IF c = IAC THEN To(d, "iac") ELSE Gives(d, c)
      [] d.state = "iac"        -> AfterIAC(d, c)
      [] d.state = "will"       -> Speaks(OnWill(d, c))
      [] d.state = "do"         -> Speaks(Owes(d, <<IAC, WONT, c>>))
      [] d.state \in {"wont", "dont"} -> Speaks(d)
      [] d.state = "subneg"     -> InSubneg(d, c)
      [] d.state = "subneg iac" -> IF c = IAC THEN To(AppendSub(d, IAC), "subneg")
                                   ELSE IF c = SE THEN EndSubneg(d)
                                   ELSE To(d, "normal")

MutantForgetsState(d, bytes) == FoldLeft(DecodeByte, To([d EXCEPT !.out = <<>>], "normal"), bytes)

Decode(d, bytes) == FoldLeft(DecodeByte, [d EXCEPT !.out = <<>>], bytes)

\* What the writer puts out: a line with its 255s doubled, and for an idle
\* connection a NOP, if the client has spoken telnet.
EscapeIAC(text)   == FlattenSeq([i \in DOMAIN text |-> IF text[i] = IAC THEN <<IAC, IAC>> ELSE <<text[i]>>])
EncodeLine(text)  == EscapeIAC(text) \o <<CR, LF>>
Keepalive(telnet) == IF telnet THEN <<IAC, NOP>> ELSE <<>>

-----------------------------------------------------------------------------
\* The read loop (tlsline.go).

RECURSIVE TrimRight(_)
TrimRight(text) == IF text # <<>> /\ Last(text) = CR THEN TrimRight(Front(text)) ELSE text

LineByte(l, c) ==
    IF c = LF THEN [begun |-> <<>>, lines |-> Append(l.lines, TrimRight(l.begun))]
    ELSE IF Len(l.begun) < ReadLimit THEN [l EXCEPT !.begun = Append(@, c)]
    ELSE l
Lines(begun, bytes) == FoldLeft(LineByte, [begun |-> begun, lines |-> <<>>], bytes)

WireInit ==
    /\ stream \in Streams /\ place = 0
    /\ decoder = NewDecoder /\ line = <<>>
    /\ taken = <<>> /\ resized = <<>> /\ answered = <<IAC, DO, NAWS>>

\* One read: decode it, write the answers, then hand over the lines.
Takes(d, l) ==
    /\ decoder' = [d EXCEPT !.out = <<>>, !.reply = <<>>, !.sizes = <<>>]
    /\ answered' = answered \o d.reply
    /\ resized' = resized \o d.sizes
    /\ taken' = taken \o l.lines
    /\ line' = l.begun
ReadStream ==
    /\ \E n \in 1 .. MaxRead :
          /\ place + n <= Len(stream)
          /\ LET d == Decode(decoder, SubSeq(stream, place + 1, place + n))
             IN  Takes(d, Lines(line, d.out))
          /\ place' = place + n
    /\ UNCHANGED stream
=============================================================================
