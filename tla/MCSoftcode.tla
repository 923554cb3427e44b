------------------------------ MODULE MCSoftcode -------------------------------
(***************************************************************************)
(* The two languages people program the server in: a behaviour is about a  *)
(* MUF program, as in MCMuf, or about an MPI message, as in MCMpi.         *)
(***************************************************************************)
EXTENDS MCMuf, MCMpi

\* While a message is shown, no program runs.
NoProgram ==
    /\ source = Plainest /\ lim = Free
    /\ prog = Compile(Written(Plainest)) /\ frame = NewFrame(prog)
    /\ told = <<>> /\ status = "message" /\ local = 0 /\ heard = <<>>

SoftInit ==
    \/ Init /\ NoMessage
    \/ NoProgram /\ MessageInit

RunsOn == (Halt \/ Stop \/ Yield \/ Execute \/ Resume) /\ Kept /\ UNCHANGED mpivars

SoftNext ==
    \/ Next /\ UNCHANGED mpivars
    \/ Look /\ UNCHANGED mcvars

softvars == <<mcvars, mpivars>>

\* The server keeps running what is its turn; a user need never answer, nor look.
SoftSpec == SoftInit /\ [][SoftNext]_softvars /\ WF_softvars(RunsOn)
===============================================================================
