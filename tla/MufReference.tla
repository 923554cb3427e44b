---------------------------- MODULE MufReference ------------------------------
(***************************************************************************)
(* What a MUF program means, by its structure alone: loops are left by     *)
(* BREAK and WHILE, a guarded block by an error, a procedure by EXIT, and  *)
(* nothing else is disturbed.  There are no addresses, jumps or hidden     *)
(* stacks here; the compiler and the machine are compared with it.         *)
(*                                                                         *)
(* A program is two procedures, sub and main, each with a variable x, and  *)
(* each a sequence of statements:                                          *)
(*   say k, push k, pop, set k, get, doze, throw, exit, break, continue,   *)
(*   while, call, preempt, background, if A B, loop A, until A, for n A,   *)
(*   foruntil n A, each A, try n A B                                       *)
(* where while, if, until and foruntil read a line and go by it.           *)
(***************************************************************************)
EXTENDS MufMachine

-----------------------------------------------------------------------------
\* As a programmer writes it.

W(list) == [i \in DOMAIN list |-> Word(list[i])]

RECURSIVE Words(_)
Words(body) ==
    IF body = <<>> THEN <<>>
    ELSE LET s == Head(body)
             counted(n) == <<Num(1), Num(n), Num(1)>> \o W(<<"for", "pop">>)
             each == W(<<"{">>) \o <<Num(7), Num(8)>>
                     \o W(<<"}", "array_make", "foreach", "pop", "pop">>)
         IN  (CASE s[1] = "say"  -> W(<<"me", "@">>) \o <<Text(s[2])>> \o W(<<"notify">>)
                [] s[1] = "push" -> <<Num(s[2])>>
                [] s[1] = "set"  -> <<Num(s[2])>> \o W(<<"x", "!">>)
                [] s[1] = "get"  -> W(<<"x", "@">>)
                [] s[1] = "doze" -> <<Num(0)>> \o W(<<"sleep">>)
                [] s[1] = "throw" -> <<Text(9)>> \o W(<<"abort">>)
                [] s[1] = "while" -> W(<<"read", "while">>)
                [] s[1] = "call" -> W(<<"sub">>)
                [] s[1] = "if" -> W(<<"read", "if">>) \o Words(s[2]) \o W(<<"else">>)
                                  \o Words(s[3]) \o W(<<"then">>)
                [] s[1] = "loop"  -> W(<<"begin">>) \o Words(s[2]) \o W(<<"repeat">>)
                [] s[1] = "until" -> W(<<"begin">>) \o Words(s[2]) \o W(<<"read", "until">>)
                [] s[1] = "for"   -> counted(s[2]) \o Words(s[3]) \o W(<<"repeat">>)
                [] s[1] = "foruntil" -> counted(s[2]) \o Words(s[3]) \o W(<<"read", "until">>)
                [] s[1] = "each" -> each \o Words(s[2]) \o W(<<"repeat">>)
                [] s[1] = "try" -> <<Num(s[2])>> \o W(<<"try">>) \o Words(s[3])
                                   \o W(<<"catch", "pop">>) \o Words(s[4]) \o W(<<"endcatch">>)
                [] OTHER -> W(<<s[1]>>))   \* pop, exit, break, continue, preempt, background
             \o Words(Tail(body))

Written(source) ==
    W(<<":", "sub", "var", "x">>) \o Words(source.sub) \o W(<<";">>)
    \o W(<<":", "main", "var", "x">>) \o Words(source.main) \o W(<<";">>)

-----------------------------------------------------------------------------
\* As it is meant: say is what has been said, st the stack, x the variable,
\* tape the lines still to be read, and how the way control goes on.  guard
\* is how much of the stack a guarded block may not touch, tries how many are
\* open, here how many of those in this procedure, fors and handlers how many
\* loops over values and handlers the program is in.  wild says that it did
\* something the implementation is known to answer differently.

Begin(tape) ==
    [say |-> <<>>, st |-> <<Str_(1)>>, x |-> Unset, tape |-> tape, how |-> "on",
     guard |-> 0, tries |-> 0, here |-> 0, fors |-> 0, handlers |-> 0, called |-> FALSE,
     wild |-> FALSE, fuel |-> MaxCount]

Ends(e, how) == [e EXCEPT !.how = how]
Wild(e, yes) == [e EXCEPT !.wild = @ \/ yes]

\* A line is read, and told to whoever asked whether it was an empty one.
Asked(e, Use(_, _)) ==
    IF e.tape = <<>> THEN Ends(e, "wait")
    ELSE Use([e EXCEPT !.tape = Tail(@)], Head(e.tape) # 0)

\* Leaving a handler for the loop around it drops a handler too many.
Leaves(e, how) == Ends(Wild(e, e.handlers > 0 /\ e.tries > 0), how)

RECURSIVE Do(_, _, _), All(_, _, _), Passes(_, _, _, _)

All(sub, body, e) ==
    IF body = <<>> \/ e.how # "on" THEN e ELSE All(sub, Tail(body), Do(sub, Head(body), e))

\* Pass number i of a loop, and those after it.
Passes(sub, s, i, e) ==
    LET over == s[1] \in {"for", "foruntil", "each"}
        body == IF s[1] \in {"for", "foruntil"} THEN s[3] ELSE s[2]
        last == CASE s[1] = "each" -> 2 [] over -> s[2] [] OTHER -> MaxCount
        r == All(sub, body, [e EXCEPT !.fuel = @ - 1])
        on == [r EXCEPT !.how = "on"]
    IN  IF i > last THEN e
        ELSE IF e.fuel = 0 THEN Ends(e, "spent")
        ELSE CASE r.how = "break" -> on
               [] r.how = "on" /\ s[1] \in {"until", "foruntil"} ->
                    Asked(on, LAMBDA d, yes : IF yes THEN d ELSE Passes(sub, s, i + 1, d))
               [] r.how \in {"on", "continue"} -> Passes(sub, s, i + 1, on)
               [] OTHER -> r

Loop(sub, s, e) ==
    LET over == s[1] \in {"for", "foruntil", "each"}
        r == Passes(sub, s, 1,
                    [Wild(e, over /\ e.fors > 0) EXCEPT
                        !.fors = IF over THEN @ + 1 ELSE @, !.handlers = 0])
    IN  [r EXCEPT !.fors = e.fors, !.handlers = e.handlers]

Guarded(sub, s, e) ==
    LET depth == Len(e.st) - s[2]
        r == All(sub, s[3], [e EXCEPT !.guard = depth, !.tries = @ + 1, !.here = @ + 1])
        out == [r EXCEPT !.guard = e.guard, !.tries = e.tries, !.here = e.here]
        handled == All(sub, s[4], [out EXCEPT !.how = "on", !.handlers = @ + 1,
                                              !.st = SubSeq(@, 1, Min({depth, Len(@)}))])
    IN  IF depth < (IF e.tries > 0 THEN e.guard ELSE 0) THEN Ends(e, "throw")
        ELSE IF r.how # "throw" THEN out
        ELSE [handled EXCEPT !.handlers = e.handlers]

Called(sub, e) ==
    LET r == All(sub, sub, [e EXCEPT !.x = Unset, !.here = 0, !.handlers = 0, !.called = TRUE])
    IN  [r EXCEPT !.x = e.x, !.here = e.here, !.handlers = e.handlers, !.called = e.called,
                  !.how = IF @ = "exit" THEN "on" ELSE @]

Do(sub, s, e) ==
    CASE e.fuel = 0 -> Ends(e, "spent")
      [] s[1] = "say"  -> [e EXCEPT !.say = Append(@, s[2])]
      [] s[1] = "push" -> [e EXCEPT !.st = Append(@, Int_(s[2]))]
      [] s[1] = "pop"  -> IF e.st = <<>> THEN Ends(e, "throw")
                          ELSE Wild([e EXCEPT !.st = Front(@)],
                                    e.tries > 0 /\ Len(e.st) <= e.guard)
      [] s[1] = "set"  -> [e EXCEPT !.x = Int_(s[2])]
      [] s[1] = "get"  -> [e EXCEPT !.st = Append(@, e.x)]
      [] s[1] \in {"doze", "preempt", "background"} -> e
      [] s[1] = "throw" -> Ends(e, "throw")
      [] s[1] = "exit"  -> Ends(Wild(e, e.called /\ e.here > 0), "exit")
      [] s[1] \in {"break", "continue"} -> Leaves(e, s[1])
      [] s[1] = "while" -> Asked(e, LAMBDA d, yes : IF yes THEN Wild(d, d.handlers > 0 /\ d.tries > 0)
                                                    ELSE Leaves(d, "break"))
      [] s[1] = "call" -> Called(sub, e)
      [] s[1] = "if" -> Asked(e, LAMBDA d, yes : All(sub, IF yes THEN s[2] ELSE s[3], d))
      [] s[1] = "try" -> Guarded(sub, s, e)
      [] OTHER -> Loop(sub, s, e)

Meant(source, tape) == All(source.sub, source.main, Begin(tape))
===============================================================================
