------------------------------- MODULE WorkerStop -------------------------------
(***************************************************************************)
(* The end of a worker process (tasks/worker.py, cli.py): the thread of a  *)
(* handler, which runs its commands one after the other (CommandRunner)    *)
(* and reports what it did in between, other threads that report too, and  *)
(* the queue of these reports (EventQueue), which the main thread flushes  *)
(* when worker.run() has come back.                                        *)
(***************************************************************************)
EXTENDS CommandRunner, EventQueue

CONSTANT Handler    \* the emitter that runs the commands

ASSUME HandlerAssumption == Handler \in Emitters

stopVars == <<vars, queueVars>>

StopTypeOK == TypeOK /\ QueueTypeOK

StopInit == Init /\ QueueInit

-----------------------------------------------------------------------------
\* The handler begins a command when it is out of its last emit.
Command ==
    /\ Next
    /\ command' # command => ~Inside(Handler)
    /\ UNCHANGED queueVars

\* The handler has nothing to report while it waits for a command.
Report(e) ==
    /\ e = Handler => phase \notin Under
    /\ Emit(e) \/ EmitStep(e)
    /\ UNCHANGED vars

Recorder == Executor /\ UNCHANGED vars

\* worker.run() comes back after request_shutdown, with the handler's thread
\* joined or, after shutdown_grace_sec, without it.
WorkerReturns ==
    /\ shutdown
    /\ Stop /\ UNCHANGED vars

FlushPendingHooks == (Flush \/ FlushEnds) /\ UNCHANGED vars

StopNext ==
    \/ Command \/ Recorder \/ WorkerReturns \/ FlushPendingHooks
    \/ \E e \in Emitters : Report(e)

StopSpec == StopInit /\ [][StopNext]_stopVars /\ Fairness /\ QueueFairness
=============================================================================
