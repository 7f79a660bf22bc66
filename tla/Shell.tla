------------------------------- MODULE Shell --------------------------------
(***************************************************************************)
(* The shell running one line (user/sh.c: main, runcmd, fork1): the        *)
(* processes it forks, their descriptors and the pipes between them.  The  *)
(* system calls fork, exit, wait, pipe, dup, close and open are steps with *)
(* the effect they have on descriptor tables and children; a program that  *)
(* runcmd starts reads its input to the end unless it exits before.        *)
(***************************************************************************)
EXTENDS ShellParser

CONSTANTS
    Input,      \* the lines that are typed
    NPROC,      \* the process ids: 1 .. NPROC, 1 is the shell
    Limits,     \* how many of them fork may use
    NOFILE      \* descriptors of a process

VARIABLES
    proc,       \* pid -> the process
    pipes,      \* pipes created so far
    limit

vars == <<proc, pipes, limit>>

Pids == 1 .. NPROC
InitProc == 0
Closed == <<"closed", 0>>
Console == <<"console", 0>>
File == <<"file", 0>>
RdEnd(k) == <<"read", k>>
WrEnd(k) == <<"write", k>>
NoCmd == <<"EXEC", <<>>>>

Unused == [pc |-> "unused", cmd |-> NoCmd, fd |-> [d \in 0 .. NOFILE - 1 |-> Closed],
           p |-> <<0, 0>>, parent |-> InitProc]

(* main opens the console until 0, 1 and 2 are open, then runs the line.   *)
Init ==
    /\ limit \in Limits
    /\ pipes = 0
    /\ \E s \in Input :
          /\ ParseCmd(s).ok
          /\ proc = [q \in Pids |-> IF q = 1 THEN
                [Unused EXCEPT !.pc = "main", !.cmd = ParseCmd(s).cmd,
                               !.fd = [d \in 0 .. NOFILE - 1 |-> IF d < 3 THEN Console ELSE Closed]]
                ELSE Unused]

----------------------------------------------------------------------------
(* Descriptors.                                                            *)
Lowest(fd) == Min({d \in DOMAIN fd : fd[d] = Closed})
Open(fd, f) == [fd EXCEPT ![Lowest(fd)] = f]
Close(fd, d) == [fd EXCEPT ![d] = Closed]
Holds(q, f) == \E d \in 0 .. NOFILE - 1 : proc[q].fd[d] = f
Held(f) == \E q \in Pids : Holds(q, f)

(* Fork: the child gets a copy of the descriptors and starts at pc with    *)
(* command cmd; the parent goes to next.  fork1 exits when it fails.       *)
Spare == {q \in Pids : proc[q].pc = "unused"}
CanFork == Cardinality(Pids \ Spare) < limit /\ Spare # {}
Fork(q, cmd, pc, next) ==
    /\ proc' = IF CanFork
               THEN [proc EXCEPT ![q].pc = next,
                                 ![Min(Spare)] = [proc[q] EXCEPT !.pc = pc, !.cmd = cmd, !.parent = q]]
               ELSE [proc EXCEPT ![q].pc = "exit"]
    /\ UNCHANGED <<pipes, limit>>

(* wait: reaps a child, or returns at once when there is none.             *)
Children(q) == {c \in Pids : proc[c].pc # "unused" /\ proc[c].parent = q}
Wait(q, new) ==
    /\ \/ /\ Children(q) = {}
          /\ proc' = [proc EXCEPT ![q] = new]
       \/ \E c \in Children(q) :
             /\ proc[c].pc = "zombie"
             /\ proc' = [proc EXCEPT ![q] = new, ![c] = Unused]
    /\ UNCHANGED <<pipes, limit>>

(* exit closes the descriptors and gives the children to init.             *)
Exit(q) ==
    /\ proc[q].pc = "exit"
    /\ proc' = [c \in Pids |->
                  IF c = q THEN [Unused EXCEPT !.pc = "zombie", !.parent = proc[q].parent]
                  ELSE IF proc[c].parent = q THEN [proc[c] EXCEPT !.parent = InitProc]
                  ELSE proc[c]]
    /\ UNCHANGED <<pipes, limit>>

Reap(q) ==
    /\ proc[q].pc = "zombie" /\ proc[q].parent = InitProc
    /\ proc' = [proc EXCEPT ![q] = Unused]
    /\ UNCHANGED <<pipes, limit>>

----------------------------------------------------------------------------
(* main: one line.                                                         *)
Main(q) == proc[q].pc = "main" /\ Fork(q, proc[q].cmd, "run", "main_wait")
MainWait(q) == proc[q].pc = "main_wait" /\ Wait(q, [proc[q] EXCEPT !.pc = "prompt"])

(* runcmd, one action per kind of command.                                 *)
At(q, pc, kind) == proc[q].pc = pc /\ proc[q].cmd[1] = kind

RunExec(q) ==
    /\ At(q, "run", "EXEC")
    /\ proc' = [proc EXCEPT ![q].pc = IF proc[q].cmd[2] = <<>> THEN "exit" ELSE "program"]
    /\ UNCHANGED <<pipes, limit>>

RunRedir(q) ==
    /\ At(q, "run", "REDIR")
    /\ LET d == IF proc[q].cmd[4] = "<" THEN 0 ELSE 1
       IN  \/ proc' = [proc EXCEPT ![q].fd = Open(Close(proc[q].fd, d), File), ![q].cmd = proc[q].cmd[2]]
           \/ proc' = [proc EXCEPT ![q].fd = Close(proc[q].fd, d), ![q].pc = "exit"]
    /\ UNCHANGED <<pipes, limit>>

RunList(q) == At(q, "run", "LIST") /\ Fork(q, proc[q].cmd[2], "run", "list_wait")
ListWait(q) ==
    /\ proc[q].pc = "list_wait"
    /\ Wait(q, [proc[q] EXCEPT !.pc = "run", !.cmd = proc[q].cmd[3]])

RunBack(q) == At(q, "run", "BACK") /\ Fork(q, proc[q].cmd[2], "run", "exit")

(* The two descriptors of a new pipe, or panic("pipe").                    *)
RunPipe(q) ==
    /\ At(q, "run", "PIPE")
    /\ \/ LET fd0 == proc[q].fd
              fd1 == Open(fd0, RdEnd(pipes + 1))
          IN  /\ proc' = [proc EXCEPT ![q].fd = Open(fd1, WrEnd(pipes + 1)),
                                      ![q].p = <<Lowest(fd0), Lowest(fd1)>>, ![q].pc = "pipe_left"]
              /\ pipes' = pipes + 1
       \/ proc' = [proc EXCEPT ![q].pc = "exit"] /\ UNCHANGED pipes
    /\ UNCHANGED limit

PipeLeft(q) == proc[q].pc = "pipe_left" /\ Fork(q, proc[q].cmd[2], "left", "pipe_right")
PipeRight(q) == proc[q].pc = "pipe_right" /\ Fork(q, proc[q].cmd[3], "right", "pipe_close")

CloseLeft(fd, p) == Close(fd, p[1])
CloseEnds(fd, p) == Close(Close(fd, p[1]), p[2])

(* The children: close d, dup the end of the pipe, close both ends.        *)
Plumb(q, pc, d, end) ==
    /\ proc[q].pc = pc
    /\ LET fd == proc[q].fd
       IN  proc' = [proc EXCEPT ![q].fd = CloseEnds(Open(Close(fd, d), fd[proc[q].p[end]]), proc[q].p),
                                ![q].pc = "run"]
    /\ UNCHANGED <<pipes, limit>>
ChildLeft(q) == Plumb(q, "left", 1, 2)
ChildRight(q) == Plumb(q, "right", 0, 1)

PipeClose(q) ==
    /\ proc[q].pc = "pipe_close"
    /\ proc' = [proc EXCEPT ![q].fd = CloseEnds(proc[q].fd, proc[q].p), ![q].pc = "pipe_wait"]
    /\ UNCHANGED <<pipes, limit>>
PipeWait(q) == proc[q].pc = "pipe_wait" /\ Wait(q, [proc[q] EXCEPT !.pc = "pipe_wait2"])
PipeWait2(q) == proc[q].pc = "pipe_wait2" /\ Wait(q, [proc[q] EXCEPT !.pc = "exit"])

(* A program.  It has its input when that is no pipe or nobody can write   *)
(* to the pipe any more; its output goes on when somebody reads it or      *)
(* nobody can (the write then fails).  It may also exit before.            *)
InputEnds(q) == \A k \in 1 .. pipes : proc[q].fd[0] = RdEnd(k) => ~Held(WrEnd(k))
OutputGoes(q) ==
    \A k \in 1 .. pipes : proc[q].fd[1] = WrEnd(k) =>
        \/ ~Held(RdEnd(k))
        \/ \E r \in Pids : proc[r].pc = "program" /\ proc[r].fd[0] = RdEnd(k)
Leave(q) == proc' = [proc EXCEPT ![q].pc = "exit"] /\ UNCHANGED <<pipes, limit>>
Finish(q) == proc[q].pc = "program" /\ InputEnds(q) /\ OutputGoes(q) /\ Leave(q)
Quit(q) == proc[q].pc = "program" /\ Leave(q)

----------------------------------------------------------------------------
Step(q) ==
    \/ Main(q) \/ MainWait(q) \/ Exit(q) \/ Reap(q)
    \/ RunExec(q) \/ RunRedir(q) \/ RunList(q) \/ ListWait(q) \/ RunBack(q)
    \/ RunPipe(q) \/ PipeLeft(q) \/ PipeRight(q) \/ ChildLeft(q) \/ ChildRight(q)
    \/ PipeClose(q) \/ PipeWait(q) \/ PipeWait2(q) \/ Finish(q)

Next == \E q \in Pids : Step(q) \/ Quit(q)

(* As long as a process can go on, one does; a program that has read all   *)
(* its input exits, but none need exit before.                             *)
Fairness == WF_vars(\E q \in Pids : Step(q))
Spec == Init /\ [][Next]_vars /\ Fairness

----------------------------------------------------------------------------
(* Every line comes to an end: the shell prompts again, or has exited      *)
(* because fork failed, and no process of the line is left.                *)
LineEnds ==
    <>[](/\ proc[1].pc \in {"prompt", "unused"}
         /\ \A q \in Pids \ {1} : proc[q].pc = "unused")
=============================================================================
