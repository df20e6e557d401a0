------------------------------ MODULE EventQueue ------------------------------
(***************************************************************************)
(* The queue of the event hook (hooks/eventlog.py): any thread of a        *)
(* process emits events, one thread records them, a semaphore bounds what  *)
(* is under way, and the end of the process waits for it.  Nothing of this *)
(* may fail or stop the emitter.                                           *)
(***************************************************************************)
EXTENDS Integers, FiniteSets, Sequences

CONSTANTS
    Emitters,   \* threads that emit
    Capacity,   \* permits of the semaphore
    MaxEvents   \* bound: events of one emitter

ASSUME QueueAssumption ==
    /\ IsFiniteSet(Emitters)
    /\ {Capacity, MaxEvents} \subseteq Nat \ {0}

VARIABLES
    emitter,   \* step and number of each emitter's event
    permits,   \* free permits
    queue,     \* events submitted and not taken
    state,     \* of each event; "ended" is over with the callback still due
    watched,   \* events whose completion is reported to _completed
    completed, \* events in the executor whose permit is back
    pending,   \* _PENDING
    flush,     \* the flush at the end: its step, its snapshot, and who was emitting then
    stopped,   \* the emitters get no further work
    log        \* event_log: the recorded events in their order

queueVars == <<emitter, permits, queue, state, watched, completed, pending, flush,
          stopped, log>>

Events == Emitters \X (1 .. MaxEvents)
Current(e) == <<e, emitter[e].event>>
Inside(e) == emitter[e].step # "idle"
IdleFlush == [step |-> "no", waits |-> {}, busy |-> {}]

QueueTypeOK ==
    /\ emitter \in [Emitters -> [step : {"idle", "submit", "add", "watch"},
                                 event : 0 .. MaxEvents]]
    /\ permits \in 0 .. Capacity
    /\ queue \in Seq(Events)
    /\ state \in [Events -> {"new", "dropped", "queued", "running", "ended", "done"}]
    /\ watched \subseteq Events /\ completed \subseteq Events /\ pending \subseteq Events
    /\ flush \in [step : {"no", "wait", "clean", "late"}, waits : SUBSET Events,
                 busy : SUBSET Emitters]
    /\ stopped \in BOOLEAN
    /\ log \in Seq(Events)

QueueInit ==
    /\ emitter = [e \in Emitters |-> [step |-> "idle", event |-> 0]]
    /\ permits = Capacity
    /\ queue = << >>
    /\ state = [v \in Events |-> "new"]
    /\ watched = {} /\ completed = {} /\ pending = {}
    /\ flush = IdleFlush
    /\ stopped = FALSE
    /\ log = << >>

-----------------------------------------------------------------------------
(* emit, in the thread of whoever has something to report. *)

\* acquire(blocking=False): without a permit the event is dropped.
Emit(e) ==
    /\ ~stopped /\ emitter[e].step = "idle" /\ emitter[e].event < MaxEvents
    /\ LET event == <<e, emitter[e].event + 1>>
       IN IF permits > 0
            THEN /\ permits' = permits - 1
                 /\ emitter' = [emitter EXCEPT ![e] = [step |-> "submit", event |-> @.event + 1]]
                 /\ UNCHANGED state
            ELSE /\ state' = [state EXCEPT ![event] = "dropped"]
                 /\ emitter' = [emitter EXCEPT ![e].event = @ + 1]
                 /\ UNCHANGED permits
    /\ UNCHANGED <<queue, watched, completed, pending, flush, stopped, log>>

\* Mutant: a refused event keeps its permit.
FaultyGivenBack == permits

GivenBack == permits + 1

\* Events whose submit has raised when the executor had them already.  Nobody
\* waits for them or is told of their end.
Stray == completed \ watched

\* The executor has its thread, which the first submit starts.
Started == \E v \in Events \ Stray : state[v] \in {"queued", "running", "ended", "done"}

\* The executor takes the event, or refuses because it is shut down; or it
\* has put the event into its queue and cannot start the thread.
Submit(e) ==
    /\ emitter[e].step = "submit"
    /\ \/ /\ queue' = Append(queue, Current(e))
          /\ state' = [state EXCEPT ![Current(e)] = "queued"]
          /\ emitter' = [emitter EXCEPT ![e].step = "add"]
          /\ UNCHANGED <<permits, completed>>
       \/ /\ state' = [state EXCEPT ![Current(e)] = "dropped"]
          /\ permits' = GivenBack
          /\ emitter' = [emitter EXCEPT ![e].step = "idle"]
          /\ UNCHANGED <<queue, completed>>
       \/ /\ ~Started
          /\ queue' = Append(queue, Current(e))
          /\ state' = [state EXCEPT ![Current(e)] = "queued"]
          /\ permits' = GivenBack
          /\ completed' = completed \cup {Current(e)}
          /\ emitter' = [emitter EXCEPT ![e].step = "idle"]
    /\ UNCHANGED <<watched, pending, flush, stopped, log>>

\* _PENDING.add, when the event may be running or recorded already.
Add(e) ==
    /\ emitter[e].step = "add"
    /\ pending' = pending \cup {Current(e)}
    /\ emitter' = [emitter EXCEPT ![e].step = "watch"]
    /\ UNCHANGED <<permits, queue, state, watched, completed, flush, stopped, log>>

\* _completed: out of _PENDING, the permit back.
Complete(v) ==
    /\ completed' = completed \cup {v}
    /\ pending' = pending \ {v}
    /\ permits' = permits + 1

IsOver(v) == state[v] = "done"

\* add_done_callback calls at once when the event is over.
WatchFor(e) ==
    /\ emitter[e].step = "watch"
    /\ watched' = watched \cup {Current(e)}
    /\ IF IsOver(Current(e)) THEN Complete(Current(e))
       ELSE UNCHANGED <<completed, pending, permits>>
    /\ emitter' = [emitter EXCEPT ![e].step = "idle"]
    /\ UNCHANGED <<queue, state, flush, stopped, log>>

-----------------------------------------------------------------------------
(* The one thread of the executor. *)

Take ==
    /\ Started /\ queue # << >>
    /\ \A v \in Events : state[v] \notin {"running", "ended"}
    /\ state' = [state EXCEPT ![Head(queue)] = "running"]
    /\ queue' = Tail(queue)
    /\ UNCHANGED <<emitter, permits, watched, completed, pending, flush, stopped, log>>

\* The row is written, or the database refuses; the waiters are told, and the
\* callback comes if there is one by now.
Record(v) ==
    /\ state[v] = "running"
    /\ log' \in {log, Append(log, v)}
    /\ state' = [state EXCEPT ![v] = IF v \in watched THEN "ended" ELSE "done"]
    /\ UNCHANGED <<emitter, permits, queue, watched, completed, pending, flush, stopped>>

Callback(v) ==
    /\ state[v] = "ended"
    /\ Complete(v)
    /\ state' = [state EXCEPT ![v] = "done"]
    /\ UNCHANGED <<emitter, queue, watched, flush, stopped, log>>

-----------------------------------------------------------------------------
(* The end of the process: no more work for the emitters, then the flush. *)

Stop ==
    /\ ~stopped /\ stopped' = TRUE
    /\ UNCHANGED <<emitter, permits, queue, state, watched, completed, pending, flush, log>>

\* Mutant: the snapshot has what still waits in the executor.
FaultySnapshot == {v \in pending : state[v] = "queued"}

Snapshot == pending

Flush ==
    /\ stopped /\ flush.step = "no"
    /\ flush' = [step |-> "wait", waits |-> Snapshot, busy |-> {e \in Emitters : Inside(e)}]
    /\ UNCHANGED <<emitter, permits, queue, state, watched, completed, pending, stopped, log>>

\* wait() comes back with everything, or after its time.
FlushEnds ==
    /\ flush.step = "wait"
    /\ \/ flush' = [flush EXCEPT !.step = "late"]
       \/ /\ \A v \in flush.waits : state[v] \in {"ended", "done"}
          /\ flush' = [flush EXCEPT !.step = "clean"]
    /\ UNCHANGED <<emitter, permits, queue, state, watched, completed, pending, stopped, log>>

EmitStep(e) == Submit(e) \/ Add(e) \/ WatchFor(e)
Executor == Take \/ \E v \in Events : Record(v) \/ Callback(v)

QueueNext ==
    \/ \E e \in Emitters : Emit(e) \/ EmitStep(e)
    \/ Executor \/ Stop \/ Flush \/ FlushEnds

\* Threads go on with what they have begun.
QueueFairness == WF_queueVars(Executor) /\ \A e \in Emitters : WF_queueVars(EmitStep(e))

QueueSpec == QueueInit /\ [][QueueNext]_queueVars /\ QueueFairness

-----------------------------------------------------------------------------
(* Properties. *)

\* Every permit is free or held by exactly one event that was accepted and not
\* reported back or refused: none is lost and none is given back twice, whatever fails.
PermitsAreAccounted ==
    permits + Cardinality({v \in Events : state[v] \in {"queued", "running", "ended", "done"}}
                            \ completed)
            + Cardinality({e \in Emitters : emitter[e].step = "submit"}) = Capacity

\* A flush that says everything is done is right about every event whose emit
\* had returned before without a refusal.
CleanFlushMissesNothing ==
    flush.step = "clean" =>
        \A v \in Events \ Stray : state[v] \in {"queued", "running"} => v[1] \in flush.busy

\* _PENDING does not grow: an event stays there only until it is reported.
PendingIsUnderWay ==
    \A v \in pending : state[v] \in {"queued", "running", "ended", "done"} /\ v \notin completed

\* Events of one emitter are recorded in the order in which they were emitted,
\* and each at most once (design D-059).
OrderIsKept ==
    \A i, j \in 1 .. Len(log) :
        i < j => ~(log[i][1] = log[j][1] /\ log[i][2] >= log[j][2])

=============================================================================
