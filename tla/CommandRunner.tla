----------------------------- MODULE CommandRunner -----------------------------
(***************************************************************************)
(* One external command at a time (runner/base.py, BaseRunner), as the     *)
(* handler of a task runs it: the thread that starts and watches the       *)
(* process, the readers of its output, the process group (the command and  *)
(* a helper it may start, as yt-dlp starts ffmpeg), and the threads that   *)
(* ask for a cancel: the heartbeat, once, and the shutdown of the worker,  *)
(* again and again (tasks/worker.py).                                      *)
(*                                                                         *)
(* Time is counted in polls of the watching thread.                        *)
(***************************************************************************)
EXTENDS Integers, FiniteSets

CONSTANTS
    Commands,       \* commands the handler runs, one after the other
    AbsoluteLimit,  \* polls until a command is ended; 0 is never
    IdleLimit,      \* polls without output until it is ended; 0 is never
    MaxLines        \* bound: lines waiting in the pipe

ASSUME RunnerAssumption ==
    /\ {Commands, AbsoluteLimit, IdleLimit} \subseteq Nat
    /\ MaxLines \in Nat \ {0}

VARIABLES
    phase,     \* where the watching thread is
    command,   \* number of the command
    group,     \* living processes of its group
    pipe,      \* lines nobody has read yet
    elapsed, quiet,   \* polls since the start, and since the last line
    flag,      \* _cancel_requested
    verdict,   \* terminated_by
    heartbeat, \* the heartbeat has asked for a cancel
    shutdown,  \* the worker is stopping
    asked      \* history: commands that were asked to end while they ran

vars == <<phase, command, group, pipe, elapsed, quiet, flag, verdict,
          heartbeat, shutdown, asked>>
process == <<group, pipe>>
clock == <<elapsed, quiet>>
requests == <<flag, heartbeat, shutdown, asked>>

Group == {"leader", "helper"}
Under == {"start", "wait", "check", "term", "grace", "kill", "join"}

TypeOK ==
    /\ phase \in Under \cup {"idle", "over"}
    /\ command \in 0 .. Commands
    /\ group \subseteq Group
    /\ pipe \in 0 .. MaxLines
    /\ flag \in BOOLEAN /\ heartbeat \in BOOLEAN /\ shutdown \in BOOLEAN
    /\ elapsed \in 0 .. AbsoluteLimit
    /\ quiet \in 0 .. IdleLimit
    /\ verdict \in {"none", "cancel", "absolute", "idle", "interrupted"}
    /\ asked \subseteq 1 .. Commands
    /\ phase \in {"idle", "start"} => verdict = "none"
    /\ phase # "idle" => command >= 1

Init ==
    /\ phase = "idle" /\ command = 0 /\ verdict = "none"
    /\ group = {} /\ pipe = 0
    /\ elapsed = 0 /\ quiet = 0
    /\ flag = FALSE /\ heartbeat = FALSE /\ shutdown = FALSE /\ asked = {}

-----------------------------------------------------------------------------
(* The thread that runs the command. *)

\* Mutant: the request of the command before is still there.
FaultyCleared == flag

Cleared == FALSE

\* _run_process forgets an earlier request, whoever made it.
Begin ==
    /\ phase = "idle" /\ command < Commands
    /\ phase' = "start" /\ command' = command + 1
    /\ flag' = Cleared
    /\ elapsed' = 0 /\ quiet' = 0
    /\ UNCHANGED <<process, verdict, heartbeat, shutdown, asked>>

\* The process is started in a session of its own, or cannot be.
Spawn ==
    /\ phase = "start"
    /\ \/ group' = group \cup {"leader"} /\ phase' = "wait"
       \/ UNCHANGED group /\ phase' = "over"
    /\ UNCHANGED <<command, pipe, clock, verdict, requests>>

Expired(limit, polls) == limit > 0 /\ polls >= limit

\* A poll: wait(0.5) returns when the leader has ended.
Poll ==
    /\ phase = "wait"
    /\ phase' = IF "leader" \in group THEN "check" ELSE "join"
    /\ elapsed' = IF elapsed < AbsoluteLimit THEN elapsed + 1 ELSE elapsed
    /\ quiet' = IF quiet < IdleLimit THEN quiet + 1 ELSE quiet
    /\ UNCHANGED <<command, process, verdict, requests>>

\* A cancel goes before the limits.
Reason ==
    IF flag THEN "cancel"
    ELSE IF Expired(AbsoluteLimit, elapsed) THEN "absolute"
    ELSE IF Expired(IdleLimit, quiet) THEN "idle" ELSE "none"

Check ==
    /\ phase = "check"
    /\ verdict' = Reason
    /\ phase' = IF Reason = "none" THEN "wait" ELSE "term"
    /\ UNCHANGED <<command, process, clock, requests>>

\* SIGINT to a command line ends the command before the exception goes on.
Interrupt ==
    /\ phase \in {"wait", "check", "term", "grace"} /\ verdict # "interrupted"
    /\ verdict' = "interrupted"
    /\ phase' = IF "leader" \in group THEN "term" ELSE "join"
    /\ UNCHANGED <<command, process, clock, requests>>

\* SIGTERM to the group: each process obeys or not.
Terminate ==
    /\ phase = "term"
    /\ group' \in SUBSET group
    /\ phase' = "grace"
    /\ UNCHANGED <<command, pipe, clock, verdict, requests>>

\* Mutant: who does not obey is waited for.
FaultyGraceEnds == "leader" \notin group

\* wait(term_grace_sec) ends with the leader or with the time.
GraceEnds == TRUE

\* A leader that has ended ends the matter; only a living one is killed.
Escalation == IF "leader" \in group THEN "kill" ELSE "join"

Grace ==
    /\ phase = "grace" /\ GraceEnds
    /\ phase' = Escalation
    /\ UNCHANGED <<command, process, clock, verdict, requests>>

\* SIGKILL to the group.
Kill ==
    /\ phase = "kill"
    /\ group' = {}
    /\ phase' = "join"
    /\ UNCHANGED <<command, pipe, clock, verdict, requests>>

\* The readers end with the output; a helper that keeps the pipe open, or a
\* reader that is slow, is waited for five seconds.
Join ==
    /\ phase = "join"
    /\ phase' = "over"
    /\ UNCHANGED <<command, process, clock, verdict, requests>>

\* The handler has its result and may run a further command (an adapter cleans
\* up after a cancel too).  What still lives and writes is nobody's concern.
Return ==
    /\ phase = "over" /\ verdict # "interrupted"
    /\ phase' = "idle" /\ verdict' = "none"
    /\ group' = {} /\ pipe' = 0
    /\ UNCHANGED <<command, clock, requests>>

-----------------------------------------------------------------------------
(* The processes and the readers of their output. *)

\* Each process ends when it likes.
Fork ==
    /\ "leader" \in group /\ group' = group \cup {"helper"}
    /\ UNCHANGED <<phase, command, pipe, clock, verdict, requests>>

Exit(p) ==
    /\ p \in group /\ group' = group \ {p}
    /\ UNCHANGED <<phase, command, pipe, clock, verdict, requests>>

Write ==
    /\ group # {} /\ pipe < MaxLines
    /\ pipe' = pipe + 1
    /\ UNCHANGED <<phase, command, group, clock, verdict, requests>>

\* Both readers touch the time of the last line.
Read ==
    /\ pipe > 0
    /\ pipe' = pipe - 1 /\ quiet' = 0
    /\ UNCHANGED <<phase, command, group, elapsed, verdict, requests>>

-----------------------------------------------------------------------------
(* Who asks for a cancel. *)

Requested ==
    /\ flag' = TRUE
    /\ asked' = IF phase \in Under THEN asked \cup {command} ELSE asked

\* The heartbeat sees cancel_requested, calls handler.cancel() once and ends.
HeartbeatCancel ==
    /\ ~heartbeat /\ heartbeat' = TRUE
    /\ Requested
    /\ UNCHANGED <<phase, command, process, clock, verdict, shutdown>>

ShutdownBegins ==
    /\ ~shutdown /\ shutdown' = TRUE
    /\ UNCHANGED <<phase, command, process, clock, verdict, flag, heartbeat, asked>>

\* The thread that waits for the handler repeats the request.
ShutdownCancel ==
    /\ shutdown
    /\ Requested
    /\ UNCHANGED <<phase, command, process, clock, verdict, heartbeat, shutdown>>

Watch ==
    \/ Begin \/ Spawn \/ Poll \/ Check \/ Terminate \/ Grace \/ Kill \/ Join \/ Return

Next ==
    \/ Watch \/ Interrupt
    \/ Fork \/ Write \/ Read \/ \E p \in Group : Exit(p)
    \/ HeartbeatCancel \/ ShutdownBegins \/ ShutdownCancel

\* The threads go on; nothing is asked of the processes.
Fairness == WF_vars(Watch) /\ WF_vars(Read) /\ WF_vars(ShutdownCancel)

Spec == Init /\ [][Next]_vars /\ Fairness

-----------------------------------------------------------------------------
(* Properties. *)

\* The process that was started has ended when its command is over, however
\* the command came to its end.
LeaderHasEnded == phase \in {"idle", "over"} => "leader" \notin group

\* A command is reported as cancelled only if the request came while it ran: a
\* request for the command before does not end this one.
CancelWasAsked == [][verdict' = "cancel" => command \in asked]_vars

\* A command with a limit is over at some time, whatever its processes do.
CommandEnds == phase \in Under ~> phase = "over"

=============================================================================
