------------------------------ MODULE ArgShell ------------------------------
(***************************************************************************)
(* Pipelines of the shell of asgn1 (argshell.c).  The commands of a        *)
(* pipeline are numbered 1 .. N.  isolateRun runs in the process S(1) that *)
(* forknRun forks; at a "|" the process S(i) makes the pipe i, forks       *)
(* S(i + 1) for the rest of the line and W(i), which executes command i,   *)
(* and waits for both.  S(N) executes the last command itself.             *)
(*                                                                         *)
(* A command is external: it copies its input to its output until the end  *)
(* of the input, or, if it is in Head, ends after one item.  The first     *)
(* command writes Output items.                                            *)
(***************************************************************************)
EXTENDS Integers, FiniteSets

CONSTANTS
    N,                  \* commands of the line
    Head,               \* those that do not read all of their input
    Output, PipeSize    \* items the first command writes; items a pipe holds

Stage == 1 .. N
Pipe  == 1 .. N - 1

VARIABLES
    main,               \* the shell: "prompt", "wait" for S(1), or "left" after exit
    S, W,               \* what the processes do
    writers, readers,   \* of a pipe: the processes that hold an open end
    buf,                \* of a pipe: the items in it
    left                \* what the first command has still to write

vars == <<main, S, W, writers, readers, buf, left>>

Init ==
    /\ main = "prompt"
    /\ S = [i \in Stage |-> "none"] /\ W = [i \in Stage |-> "none"]
    /\ writers = [k \in Pipe |-> {}] /\ readers = [k \in Pipe |-> {}] /\ buf = [k \in Pipe |-> 0]
    /\ left = Output

-----------------------------------------------------------------------------
(* main, forknRun.                                                         *)

forknRun ==
    /\ main = "prompt" /\ main' = "wait" /\ S[1] = "none" /\ S' = [S EXCEPT ![1] = "start"]
    /\ UNCHANGED <<W, writers, readers, buf, left>>

\* waitpid in forknRun.
Prompt ==
    /\ main = "wait" /\ S[1] = "done" /\ main' = "prompt"
    /\ UNCHANGED <<S, W, writers, readers, buf, left>>

exit ==
    /\ main = "prompt" /\ main' = "left"
    /\ UNCHANGED <<S, W, writers, readers, buf, left>>

-----------------------------------------------------------------------------
(* isolateRun.                                                             *)

\* pipe, fork of pid1, pipe_input_stdin in the child, pipe_output_stdout in the parent:
\* its standard output is the write end from now on.
MakePipe(i) ==
    /\ i < N /\ S[i] = "start" /\ S' = [S EXCEPT ![i] = "fork", ![i + 1] = "start"]
    /\ writers' = [writers EXCEPT ![i] = {<<"S", i>>}]
    /\ readers' = [readers EXCEPT ![i] = {<<"S", i + 1>>}]
    /\ UNCHANGED <<main, W, buf, left>>

\* fork of pid2: the child inherits both ends.
Fork(i) ==
    /\ S[i] = "fork" /\ S' = [S EXCEPT ![i] = "wait2"] /\ W' = [W EXCEPT ![i] = "exec"]
    /\ writers' = [writers EXCEPT ![i] = @ \cup {<<"W", i>>}]
    /\ readers' = [k \in Pipe |-> IF k = i - 1 THEN readers[k] \cup {<<"W", i>>} ELSE readers[k]]
    /\ UNCHANGED <<main, buf, left>>

\* waitpid(pid2), and close(fd[1]), which pipe_output_stdout has closed before.
Wait2(i) ==
    /\ S[i] = "wait2" /\ W[i] = "done" /\ S' = [S EXCEPT ![i] = "wait1"]
    /\ UNCHANGED <<main, W, writers, readers, buf, left>>

\* The ends that a process has open are closed when it ends.
Closed(p) ==
    /\ writers' = [k \in Pipe |-> writers[k] \ {p}] /\ readers' = [k \in Pipe |-> readers[k] \ {p}]

\* waitpid(pid1), and exit(0).
Wait1(i) ==
    /\ S[i] = "wait1" /\ S[i + 1] = "done" /\ S' = [S EXCEPT ![i] = "done"] /\ Closed(<<"S", i>>)
    /\ UNCHANGED <<main, W, buf, left>>

\* execute: execvp finds every command here.
Execute(p) ==
    LET i == p[2]
    IN  /\ \/ p[1] = "S" /\ i = N /\ S[i] = "start" /\ S' = [S EXCEPT ![i] = "run"] /\ UNCHANGED W
           \/ p[1] = "W" /\ W[i] = "exec" /\ W' = [W EXCEPT ![i] = "run"] /\ UNCHANGED S
        /\ UNCHANGED <<main, writers, readers, buf, left>>

-----------------------------------------------------------------------------
(* The commands.                                                           *)

Runs(p) == IF p[1] = "S" THEN S[p[2]] = "run" ELSE W[p[2]] = "run"

Ends(p) ==
    /\ IF p[1] = "S" THEN S' = [S EXCEPT ![p[2]] = "done"] /\ UNCHANGED W
       ELSE W' = [W EXCEPT ![p[2]] = "done"] /\ UNCHANGED S
    /\ Closed(p)

Stays == UNCHANGED <<S, W, writers, readers>>

\* One item is read, if there is a pipe to read, and written, if there is a pipe with
\* room to write to.
Copy(p) ==
    LET i == p[2]
    IN  /\ Runs(p) /\ IF i = 1 THEN left > 0 ELSE buf[i - 1] > 0
        /\ i < N => buf[i] < PipeSize /\ readers[i] # {}
        /\ left' = IF i = 1 THEN left - 1 ELSE left
        /\ buf' = [k \in Pipe |-> CASE k = i - 1 -> buf[k] - 1 [] k = i -> buf[k] + 1 [] OTHER -> buf[k]]
        /\ IF i \in Head THEN Ends(p) ELSE Stays
        /\ UNCHANGED main

\* The end of the input: nothing in the pipe, and nobody has its write end open.
Eof(p) ==
    LET i == p[2]
    IN  /\ Runs(p) /\ IF i = 1 THEN left = 0 ELSE buf[i - 1] = 0 /\ writers[i - 1] = {}
        /\ Ends(p) /\ UNCHANGED <<main, buf, left>>

\* SIGPIPE: there is something to write, and nobody has the read end open.
SigPipe(p) ==
    LET i == p[2]
    IN  /\ Runs(p) /\ i < N /\ readers[i] = {} /\ (IF i = 1 THEN left > 0 ELSE buf[i - 1] > 0)
        /\ Ends(p) /\ UNCHANGED <<main, buf, left>>

-----------------------------------------------------------------------------
Process == {"S", "W"} \X Stage

SStep(i) == MakePipe(i) \/ Fork(i) \/ Wait2(i) \/ Wait1(i)
PStep(p) == Execute(p) \/ Copy(p) \/ Eof(p) \/ SigPipe(p)

Next == forknRun \/ Prompt \/ exit \/ (\E i \in Stage : SStep(i)) \/ (\E p \in Process : PStep(p))

\* Every process runs; nobody has to type anything.
Spec ==
    /\ Init /\ [][Next]_vars /\ WF_vars(Prompt)
    /\ \A i \in Stage : WF_vars(SStep(i))
    /\ \A p \in Process : WF_vars(PStep(p))

\* designDoc.txt: "pipe commands together", "several commands piped together": the shell
\* runs the commands of a line to their end and asks for the next one.
PipelinesEnd == main = "wait" ~> main = "prompt"
=============================================================================
