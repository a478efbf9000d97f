----------------------------- MODULE TimedCommand -----------------------------
(***************************************************************************)
(* run_command_with_timeout: a child process is polled while two threads   *)
(* read its output to the end, and is killed when it takes too long.       *)
(*                                                                         *)
(* A child is a script of writes to its two pipes, after which it exits or *)
(* goes on for ever; each pipe holds so much and blocks who writes more.   *)
(* The children of the child, when it has any, inherit the pipes' write    *)
(* ends and are not killed with it: CMake starts compilers, for one.       *)
(***************************************************************************)
EXTENDS Integers, Sequences

Pipes == {"stdout", "stderr"}

CONSTANTS
    Scripts,      \* what children write: sequences of pipes, one unit each
    Capacity,     \* how many units a pipe holds
    MayFork,      \* whether a child may leave a child of its own behind
    timeout,      \* in units of the clock
    MaxElapsed    \* bound: how far the clock is followed

ASSUME CommandAssumption ==
    /\ Scripts \subseteq Seq(Pipes)
    /\ Capacity \in Nat \ {0}
    /\ MayFork \in BOOLEAN
    /\ timeout \in Nat /\ MaxElapsed \in Nat /\ MaxElapsed > timeout

VARIABLES
    child,        \* "running", "exited" or "killed"
    script,       \* what the child has still to write
    heirs,        \* how many processes besides the child hold the pipes open
    pipe,         \* what each pipe holds
    buf,          \* what each reader thread has read
    reader,       \* "reading", "done" or "joined"
    elapsed,      \* since the child was started
    main,         \* where the calling thread is
    status,       \* what it knows of the child
    result,       \* what it returned
    written       \* history: how much the child wrote to each pipe

commandVars == <<child, script, heirs, pipe, buf, reader, elapsed, main, status, result, written>>

process == <<child, script, heirs, written>>
threads == <<buf, reader>>
caller == <<main, status, result>>

CommandInit ==
    /\ child = "running"
    /\ script \in Scripts
    /\ heirs = 0
    /\ pipe = [p \in Pipes |-> 0]
    /\ buf = [p \in Pipes |-> 0]
    /\ reader = [p \in Pipes |-> "reading"]
    /\ elapsed = 0
    /\ main = "poll"
    /\ status = "unknown"
    /\ result = "none"
    /\ written = [p \in Pipes |-> 0]

-----------------------------------------------------------------------------
(* The child writes in its own order, and waits when a pipe is full.       *)
ChildWrites ==
    /\ child = "running" /\ script # << >>
    /\ LET p == Head(script)
       IN  /\ pipe[p] < Capacity
           /\ pipe' = [pipe EXCEPT ![p] = @ + 1]
           /\ written' = [written EXCEPT ![p] = @ + 1]
    /\ script' = Tail(script)
    /\ UNCHANGED <<child, heirs, threads, elapsed, caller>>

ChildForks ==
    /\ MayFork /\ child = "running" /\ heirs = 0
    /\ heirs' = 1
    /\ UNCHANGED <<child, script, written, pipe, threads, elapsed, caller>>

ChildExits ==
    /\ child = "running" /\ script = << >>
    /\ child' = "exited"
    /\ UNCHANGED <<script, heirs, written, pipe, threads, elapsed, caller>>

HeirExits ==
    /\ heirs = 1
    /\ heirs' = 0
    /\ UNCHANGED <<child, script, written, pipe, threads, elapsed, caller>>

WriteEndOpen == child = "running" \/ heirs > 0

(* A reader thread, in read_to_end.                                        *)
ReaderReads(p) ==
    /\ reader[p] = "reading" /\ pipe[p] > 0
    /\ buf' = [buf EXCEPT ![p] = @ + pipe[p]]
    /\ pipe' = [pipe EXCEPT ![p] = 0]
    /\ UNCHANGED <<process, reader, elapsed, caller>>

Mut_EndWithChild(p) ==
    /\ reader[p] = "reading" /\ child # "running"
    /\ reader' = [reader EXCEPT ![p] = "done"]
    /\ UNCHANGED <<process, pipe, buf, elapsed, caller>>

ReaderEnds(p) ==
    /\ reader[p] = "reading" /\ pipe[p] = 0 /\ ~WriteEndOpen
    /\ reader' = [reader EXCEPT ![p] = "done"]
    /\ UNCHANGED <<process, pipe, buf, elapsed, caller>>

-----------------------------------------------------------------------------
(* The calling thread: try_wait, then the clock, then a short sleep.       *)
TryWait ==
    /\ main = "poll"
    /\ IF child = "running"
       THEN main' = "clock" /\ status' = status
       ELSE main' = "join_stdout" /\ status' = "exited"
    /\ UNCHANGED <<process, pipe, threads, elapsed, result>>

Mut_GiveUpWithoutKill ==
    /\ main = "clock"
    /\ IF elapsed > timeout
       THEN main' = "join_stdout" /\ status' = "timed_out"
       ELSE main' = "poll" /\ status' = status
    /\ UNCHANGED <<process, pipe, threads, elapsed, result>>

(* Too late: kill and wait.  Neither matters to a child that has exited.   *)
CheckClock ==
    /\ main = "clock"
    /\ IF elapsed > timeout
       THEN /\ child' = IF child = "running" THEN "killed" ELSE child
            /\ main' = "join_stdout" /\ status' = "timed_out"
       ELSE main' = "poll" /\ UNCHANGED <<child, status>>
    /\ UNCHANGED <<script, heirs, written, pipe, threads, elapsed, result>>

Mut_JoinStdoutOnly(p) ==
    /\ main = IF p = "stdout" THEN "join_stdout" ELSE "join_stderr"
    /\ p = "stdout" => reader[p] = "done"
    /\ reader' = [reader EXCEPT ![p] = IF p = "stdout" THEN "joined" ELSE @]
    /\ main' = IF p = "stdout" THEN "join_stderr" ELSE "return"
    /\ UNCHANGED <<process, pipe, buf, elapsed, status, result>>

(* Either way both threads are joined, one after the other.                *)
Join(p) ==
    /\ main = IF p = "stdout" THEN "join_stdout" ELSE "join_stderr"
    /\ reader[p] = "done"
    /\ reader' = [reader EXCEPT ![p] = "joined"]
    /\ main' = IF p = "stdout" THEN "join_stderr" ELSE "return"
    /\ UNCHANGED <<process, pipe, buf, elapsed, status, result>>

Return ==
    /\ main = "return"
    /\ result' = IF status = "exited" THEN "output" ELSE "timeout"
    /\ main' = "returned"
    /\ UNCHANGED <<process, pipe, threads, elapsed, status>>

-----------------------------------------------------------------------------
Tick ==
    /\ main # "returned" /\ elapsed < MaxElapsed
    /\ elapsed' = elapsed + 1
    /\ UNCHANGED <<process, pipe, threads, caller>>

CommandNext ==
    \/ ChildWrites
    \/ ChildForks
    \/ ChildExits
    \/ HeirExits
    \/ \E p \in Pipes : ReaderReads(p)
    \/ \E p \in Pipes : ReaderEnds(p)
    \/ TryWait
    \/ CheckClock
    \/ \E p \in Pipes : Join(p)
    \/ Return
    \/ Tick

CommandSpec == CommandInit /\ [][CommandNext]_commandVars

Program == TryWait \/ CheckClock \/ (\E p \in Pipes : Join(p)) \/ Return

(* Threads of the program are scheduled; a child that has something to     *)
(* write and room for it writes.  It need not exit, nor what it leaves     *)
(* behind, nor need time pass.                                             *)
FairSpec ==
    /\ CommandSpec
    /\ WF_commandVars(Program) /\ WF_commandVars(ChildWrites)
    /\ \A p \in Pipes : WF_commandVars(ReaderReads(p)) /\ WF_commandVars(ReaderEnds(p))

-----------------------------------------------------------------------------
(* TimedOutput: whoever gets an output gets all that the child wrote, to   *)
(* both pipes, in whatever order the child, the readers and the caller ran.*)
OutputIsWhole == result = "output" => script = << >> /\ buf = written

(* "join them so this function never leaks threads": no reader is left     *)
(* when the call returns, nor a child.                                     *)
NothingIsLeft ==
    result # "none" =>
        /\ \A p \in Pipes : reader[p] = "joined"
        /\ child # "running"

(* After the timeout the call returns, whatever the child writes, however  *)
(* full its pipes are and whether it ever exits, unless a process that the *)
(* child left behind keeps the pipes open for ever.                        *)
OnlyHeirsHoldTheCall == <>[](heirs > 0) \/ (elapsed > timeout ~> result # "none")

(* SDH-LLR-036: a call fails "(not hang indefinitely)" after the timeout,  *)
(* without more.  The code joins its readers first, so such a process      *)
(* holds the call for as long as it runs.                                  *)
CallReturns == elapsed > timeout ~> result # "none"
=============================================================================
