------------------------------- MODULE Launch -------------------------------
(***************************************************************************)
(* Process::launch and Process::attach (process.cpp): the forked child on  *)
(* its way to execlp, the pipe (pipe.cpp) on which it reports a failure,   *)
(* the parent that waits for the end of that pipe before it builds a       *)
(* Process, and the first wait_on_signal.  The state in which a call       *)
(* returns a live process is the one module Process starts from.           *)
(***************************************************************************)
EXTENDS Naturals

VARIABLES
    mode,       \* "debug": launch, "run": launch(debug = false), "attach"
    redirect,   \* stdout_replacement.has_value()
    parent,     \* where the calling debugger is
    child,      \* the child or the target, by where it is
    traced,     \* it has a tracer
    execd,      \* it runs the program, not the debugger's image
    killed,     \* a SIGKILL ended it
    writers,    \* who holds the write end of the pipe open
    message,    \* what was written to the pipe: the step that failed
    failed,     \* the child's step that failed
    pid, state  \* pid_ and state_ of the Process, pid = 0 before it is built

vars == <<mode, redirect, parent, child, traced, execd, killed, writers,
          message, failed, pid, state>>

ChildStep == {"redirect", "traceme", "exec"}
Running   == ChildStep \cup {"report", "exit", "program"}

\* In ptrace-stop: on the way to its exec or to its message, between its message
\* and its exit, or in the program.
Stopped   == {"early", "late", "trap"}

TypeOK ==
    /\ mode \in {"debug", "run", "attach"}
    /\ redirect \in BOOLEAN
    /\ parent \in {"fork", "close_write", "read", "reap", "construct",
                   "attach", "wait", "load", "destroy", "returned", "threw"}
    /\ child \in Running \cup Stopped \cup {"none", "zombie", "reaped"}
    /\ traced \in BOOLEAN /\ execd \in BOOLEAN /\ killed \in BOOLEAN
    /\ writers \subseteq {"parent", "child"}
    /\ message \in ChildStep \cup {"none"}
    /\ failed \in ChildStep \cup {"none"}
    /\ pid \in {0, 1}
    /\ state \in {"RUNNING", "STOPPED"}

\* launch starts with the pipe it made, attach with a target, if there is one.
Init ==
    /\ mode \in {"debug", "run", "attach"}
    /\ redirect \in BOOLEAN
    /\ parent = IF mode = "attach" THEN "attach" ELSE "fork"
    /\ child \in IF mode = "attach" THEN {"program", "none"} ELSE {"none"}
    /\ execd = (child = "program")
    /\ traced = FALSE /\ killed = FALSE
    /\ writers = {}
    /\ message = "none" /\ failed = "none"
    /\ pid = 0 /\ state = "STOPPED"

-----------------------------------------------------------------------------
(* The child.                                                              *)

AfterRedirect == IF mode = "debug" THEN "traceme" ELSE "exec"

childVars == <<child, traced, execd, writers, message, failed>>

Fails(step) ==
    /\ failed' = step
    /\ child' = "report"
    /\ UNCHANGED <<traced, execd, writers, message>>

RedirectStdout ==
    /\ child = "redirect"
    /\ \/ child' = AfterRedirect /\ UNCHANGED <<traced, execd, writers, message, failed>>
       \/ Fails("redirect")

TraceMe ==
    /\ child = "traceme"
    /\ \/ /\ traced' = TRUE /\ child' = "exec"
          /\ UNCHANGED <<execd, writers, message, failed>>
       \/ Fails("traceme")

\* O_CLOEXEC closes the child's write end; a traced process stops.
Exec ==
    /\ child = "exec"
    /\ \/ /\ execd' = TRUE
          /\ writers' = writers \ {"child"}
          /\ child' = IF traced THEN "trap" ELSE "program"
          /\ UNCHANGED <<traced, message, failed>>
       \/ Fails("exec")

\* Seeded fault: the child exits without a word.
Report_Silent ==
    /\ child = "report"
    /\ child' = "exit"
    /\ UNCHANGED <<traced, execd, writers, message, failed>>

\* exit_with_perror: the message, then exit.
Report ==
    /\ child = "report"
    /\ message' = failed
    /\ child' = "exit"
    /\ UNCHANGED <<traced, execd, writers, failed>>

Exit ==
    /\ child = "exit"
    /\ child' = "zombie"
    /\ writers' = writers \ {"child"}
    /\ UNCHANGED <<traced, execd, message, failed>>

ChildNext ==
    /\ RedirectStdout \/ TraceMe \/ Exec \/ Report \/ Exit
    /\ UNCHANGED <<mode, redirect, parent, killed, pid, state>>

-----------------------------------------------------------------------------
(* Signals and the target of attach.                                       *)

\* Any signal stops a process that has asked to be traced: before its exec, and
\* when that has failed before its message and before its exit.  launch resumes
\* none of these.  The SIGSTOP of PTRACE_ATTACH stops the target.
SignalStop ==
    /\ traced
    /\ \/ child \in {"exec", "report"} /\ child' = "early"
       \/ child = "exit" /\ child' = "late"
       \/ child = "program" /\ child' = "trap"
    /\ UNCHANGED <<mode, redirect, parent, traced, execd, killed, writers,
                   message, failed, pid, state>>

ProgramExits ==
    /\ child = "program"
    /\ child' = "zombie"
    /\ UNCHANGED <<mode, redirect, parent, traced, execd, killed, writers,
                   message, failed, pid, state>>

Kill ==
    /\ child \in Running \cup Stopped
    /\ child' = "zombie"
    /\ killed' = TRUE
    /\ writers' = writers \ {"child"}
    /\ UNCHANGED <<mode, redirect, parent, traced, execd, message, failed,
                   pid, state>>

-----------------------------------------------------------------------------
(* The caller.                                                             *)

Fork ==
    /\ parent = "fork"
    /\ \/ /\ parent' = "close_write"
          /\ child' = IF redirect THEN "redirect" ELSE AfterRedirect
          /\ writers' = {"parent", "child"}
       \/ parent' = "threw" /\ UNCHANGED <<child, writers>>
    /\ UNCHANGED <<traced, execd, message, failed, pid, state>>

\* Seeded fault: the parent keeps its write end while it reads.
CloseWrite_Forgotten ==
    /\ parent = "close_write"
    /\ parent' = "read"
    /\ UNCHANGED <<childVars, pid, state>>

CloseWrite ==
    /\ parent = "close_write"
    /\ writers' = writers \ {"parent"}
    /\ parent' = "read"
    /\ UNCHANGED <<child, traced, execd, message, failed, pid, state>>

\* Seeded fault: what was read is not looked at.
Read_Ignored ==
    /\ parent = "read"
    /\ message # "none" \/ writers = {}
    /\ parent' = "construct"
    /\ UNCHANGED <<childVars, pid, state>>

\* read(2) blocks until there are bytes or nobody is left to write any.
Read ==
    /\ parent = "read"
    /\ message # "none" \/ writers = {}
    /\ parent' = IF message # "none" THEN "reap" ELSE "construct"
    /\ UNCHANGED <<childVars, pid, state>>

\* Seeded fault: the error is thrown without the waitpid.
Reap_NoWait ==
    /\ parent = "reap"
    /\ parent' = "threw"
    /\ UNCHANGED <<childVars, pid, state>>

\* This waitpid returns for a stop of the traced child too, and its status is
\* not looked at.
Reap ==
    /\ parent = "reap"
    /\ \/ child = "zombie"   /\ child' = "reaped"
       \/ child \in Stopped /\ child' = child
    /\ parent' = "threw"
    /\ UNCHANGED <<traced, execd, writers, message, failed, pid, state>>

\* Seeded fault: launch does not wait for the first stop.
Construct_NoWait ==
    /\ parent = "construct"
    /\ pid' = 1
    /\ parent' = "returned"
    /\ UNCHANGED <<childVars, state>>

Construct ==
    /\ parent = "construct"
    /\ pid' = 1
    /\ parent' = IF mode = "debug" THEN "wait" ELSE "returned"
    /\ UNCHANGED <<childVars, state>>

\* PTRACE_ATTACH is refused for a process that is gone, traced or not ours.
Attach ==
    /\ parent = "attach"
    /\ \/ /\ child = "program"
          /\ traced' = TRUE /\ pid' = 1
          /\ parent' = "wait"
       \/ parent' = "threw" /\ UNCHANGED <<traced, pid>>
    /\ UNCHANGED <<child, execd, writers, message, failed, state>>

\* Seeded fault: state_ takes the reason of an exit too.
WaitOnSignal_StateExited ==
    /\ parent = "wait"
    /\ \/ /\ child = "zombie"
          /\ child' = "reaped" /\ pid' = 0
          /\ parent' = "returned" /\ state' = "EXITED"
       \/ /\ child \in Stopped
          /\ state' = "STOPPED" /\ parent' = "load"
          /\ UNCHANGED <<child, pid>>
    /\ UNCHANGED <<traced, execd, writers, message, failed>>

WaitOnSignal ==
    /\ parent = "wait"
    /\ \/ /\ child = "zombie"
          /\ child' = "reaped" /\ pid' = 0
          /\ parent' = "returned" /\ state' = state
       \/ /\ child \in Stopped
          /\ state' = "STOPPED" /\ parent' = "load"
          /\ UNCHANGED <<child, pid>>
    /\ UNCHANGED <<traced, execd, writers, message, failed>>

\* A load that fails throws out of launch or attach and destroys the Process.
LoadRegisters ==
    /\ parent = "load"
    /\ parent' = IF child \in Stopped THEN "returned" ELSE "destroy"
    /\ UNCHANGED <<childVars, pid, state>>

\* Its destructor detaches in vain, then kills and reaps what was launched.
DestroyProcess ==
    /\ parent = "destroy"
    /\ child' = IF mode = "debug" THEN "reaped" ELSE child
    /\ parent' = "threw"
    /\ UNCHANGED <<traced, execd, writers, message, failed, pid, state>>

ParentNext ==
    /\ \/ Fork \/ CloseWrite \/ Read \/ Reap \/ Construct
       \/ Attach \/ WaitOnSignal \/ LoadRegisters \/ DestroyProcess
    /\ UNCHANGED <<mode, redirect, killed>>

Terminated == parent \in {"returned", "threw"} /\ UNCHANGED vars

Next == ChildNext \/ SignalStop \/ ProgramExits \/ Kill \/ ParentNext \/ Terminated

\* The child's own steps and the caller's run on; so does the stop that
\* PTRACE_ATTACH asked for.  Nobody has to kill or signal anything.
Fairness ==
    /\ WF_vars(ChildNext)
    /\ WF_vars(ParentNext)
    /\ WF_vars(SignalStop /\ mode = "attach")

Spec == Init /\ [][Next]_vars /\ Fairness

-----------------------------------------------------------------------------
(* Properties.                                                             *)

\* launch never takes a child that failed before its execlp for a program:
\* what it returns has been exec'd, or somebody killed it on the way (the
\* empty read is then the kernel closing a dead writer's end).
OnlyProgramsReturned == parent = "returned" => execd \/ killed

\* When launch throws it has reaped its child (its waitpid after the read, the
\* destructor of a Process whose first load failed), with one exception: a
\* signal that stops the child between its message and its exit, whose stop
\* that waitpid takes for the end.
NoZombieLeft ==
    [][parent' = "threw" /\ parent # "threw" /\ mode # "attach" =>
        child' \in {"none", "reaped"} \/ child = "late"]_vars

\* What a traced launch or an attach returns is what the rest of the library
\* starts from: a process stopped after its exec (or killed since), or pid_
\* cleared because the first wait reaped it.
HandedOver ==
    parent = "returned" /\ mode # "run" =>
        \/ /\ pid = 1 /\ state = "STOPPED" /\ traced /\ execd
           /\ child = "trap" \/ (child = "zombie" /\ killed)
        \/ pid = 0 /\ child = "reaped"

\* A step of the child that fails becomes an exception in the parent, unless
\* the child is killed, or stopped before it has written its message.
\* (exit_with_perror, launch)
FailureReported ==
    (failed # "none") ~> (parent = "threw" \/ killed \/ child = "early")

\* launch and attach come back, unless a signal stops the traced child on its
\* way to its execlp or, when that failed, to its message: nobody then resumes
\* it and the pipe never ends.
LaunchReturns == <>(parent \in {"returned", "threw"} \/ child = "early")

-----------------------------------------------------------------------------
(* What a document says of launch and the code does not do; checked by a   *)
(* run of its own that finds it violated.                                  *)

\* docs/memory-context.md, of the pipe: "Child writes error string to pipe then
\* exits; parent reads before returning".  A traced child whose execlp failed
\* may be stopped by a signal before its write: the parent, in read and not in
\* waitpid, never learns of it.
FailureAlwaysReported == (failed # "none") ~> (parent = "threw" \/ killed)
=============================================================================
