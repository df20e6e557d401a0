--------------------------- MODULE WorkerStopProofs ---------------------------
(***************************************************************************)
(* Proofs about the end of a worker, for any number of commands, limits,   *)
(* emitting threads, permits and events: first CommandRunner, then the     *)
(* queue of the event hook, then the two together in WorkerStop.           *)
(*                                                                         *)
(* For the queue, IInv ties the four places an event is known in (its      *)
(* emitter, the queue of the executor, _PENDING and the callback) to its   *)
(* state, and orders the states of one emitter's events.                   *)
(***************************************************************************)
EXTENDS WorkerStop, FiniteSetTheorems, TLAPS

LEMMA RunnerLimits == Commands \in Nat /\ AbsoluteLimit \in Nat /\ IdleLimit \in Nat /\ MaxLines \in Nat
  BY RunnerAssumption DEF RunnerAssumption

LEMMA RunnerTypeInit == Init => TypeOK
<1> SUFFICES ASSUME Init PROVE TypeOK
  OBVIOUS
<1>1. command \in 0 .. Commands /\ pipe \in 0 .. MaxLines
      /\ elapsed \in 0 .. AbsoluteLimit /\ quiet \in 0 .. IdleLimit
  BY RunnerLimits DEF Init
<1> QED BY <1>1 DEF Init, TypeOK, Under

LEMMA RunnerTypeStep == TypeOK /\ [Next]_vars => TypeOK'
<1> SUFFICES ASSUME TypeOK, [Next]_vars PROVE TypeOK'
  OBVIOUS
<1> USE RunnerLimits DEF TypeOK, Under, Group, process, clock, requests
<1>1. CASE Begin
  <2>1. command' \in 0 .. Commands
    BY <1>1 DEF Begin
  <2>2. elapsed' \in 0 .. AbsoluteLimit /\ quiet' \in 0 .. IdleLimit
    BY <1>1 DEF Begin
  <2>3. command' >= 1
    BY <1>1 DEF Begin
  <2> QED BY <1>1, <2>1, <2>2, <2>3 DEF Begin, Cleared
<1>2. CASE Spawn
  BY <1>2 DEF Spawn
<1>3. CASE Poll
  <2>1. elapsed' \in 0 .. AbsoluteLimit
    BY <1>3 DEF Poll
  <2>2. quiet' \in 0 .. IdleLimit
    BY <1>3 DEF Poll
  <2> QED BY <1>3, <2>1, <2>2 DEF Poll
<1>4. CASE Check
  BY <1>4 DEF Check, Reason
<1>5. CASE Interrupt
  BY <1>5 DEF Interrupt
<1>6. CASE Terminate
  BY <1>6 DEF Terminate
<1>7. CASE Grace
  BY <1>7 DEF Grace, Escalation
<1>8. CASE Kill \/ Join \/ Return
  <2>1. CASE Kill
    BY <2>1 DEF Kill
  <2>2. CASE Join
    BY <2>2 DEF Join
  <2>3. CASE Return
    <3>1. pipe' \in 0 .. MaxLines
      BY <2>3 DEF Return
    <3> QED BY <2>3, <3>1 DEF Return
  <2> QED BY <1>8, <2>1, <2>2, <2>3
<1>9. CASE Fork \/ \E p \in Group : Exit(p)
  BY <1>9 DEF Fork, Exit
<1>10. CASE Write
  <2>1. pipe' \in 0 .. MaxLines
    BY <1>10 DEF Write
  <2> QED BY <1>10, <2>1 DEF Write
<1>11. CASE Read
  <2>1. pipe' \in 0 .. MaxLines /\ quiet' \in 0 .. IdleLimit
    BY <1>11 DEF Read
  <2> QED BY <1>11, <2>1 DEF Read
<1>12. CASE HeartbeatCancel \/ ShutdownCancel
  <2>1. CASE phase \in Under
    <3>1. command \in 1 .. Commands
      BY <2>1
    <3> QED BY <1>12, <2>1, <3>1 DEF HeartbeatCancel, ShutdownCancel, Requested
  <2>2. CASE phase \notin Under
    BY <1>12, <2>2 DEF HeartbeatCancel, ShutdownCancel, Requested
  <2> QED BY <2>1, <2>2
<1>13. CASE ShutdownBegins
  BY <1>13 DEF ShutdownBegins
<1>14. CASE UNCHANGED vars
  BY <1>14 DEF vars
<1> QED BY <1>1, <1>2, <1>3, <1>4, <1>5, <1>6, <1>7, <1>8, <1>9, <1>10, <1>11, <1>12, <1>13, <1>14
        DEF Next, Watch

\* The types, and no verdict before a command runs.
THEOREM RunnerTypeCorrect == Spec => []TypeOK
<1> QED BY RunnerTypeInit, RunnerTypeStep, PTL DEF Spec

-----------------------------------------------------------------------------
(* The leader of the group.                                                *)

\* The watching thread waits for the output only of a leader that has ended.
LeaderInv == phase \in {"idle", "start", "join", "over"} => "leader" \notin group

LEMMA LeaderStep == ASSUME TypeOK, LeaderInv, [Next]_vars PROVE LeaderInv'
<1> USE DEF LeaderInv, process, clock, requests
<1>1. CASE Begin \/ Spawn \/ Poll \/ Check
  BY <1>1 DEF Begin, Spawn, Poll, Check
<1>2. CASE Terminate \/ Grace
  BY <1>2 DEF Terminate, Grace, Escalation
<1>3. CASE Kill \/ Join \/ Return \/ Interrupt
  BY <1>3 DEF Kill, Join, Return, Interrupt
<1>4. CASE Fork \/ Write \/ Read \/ \E p \in Group : Exit(p)
  BY <1>4 DEF Fork, Write, Read, Exit
<1>5. CASE HeartbeatCancel \/ ShutdownBegins \/ ShutdownCancel
  BY <1>5 DEF HeartbeatCancel, ShutdownBegins, ShutdownCancel
<1>6. CASE UNCHANGED vars
  BY <1>6 DEF vars
<1> QED BY <1>1, <1>2, <1>3, <1>4, <1>5, <1>6 DEF Next, Watch

\* The process that was started has ended when its command is over, whichever
\* limit, request or signal ended it and at whatever moment.
THEOREM LeaderEnds == Spec => []LeaderHasEnded
<1>1. Init => LeaderInv
  BY DEF Init, LeaderInv
<1>2. LeaderInv => LeaderHasEnded
  BY DEF LeaderInv, LeaderHasEnded
<1> QED BY <1>1, <1>2, RunnerTypeCorrect, LeaderStep, PTL DEF Spec

-----------------------------------------------------------------------------
(* Requests for a cancel.                                                  *)

\* A request that is still there, and a verdict that came of one, belong to
\* the command at work.
RequestInv ==
    /\ flag /\ phase \in Under => command \in asked
    /\ verdict = "cancel" => command \in asked

LEMMA RequestStep ==
    ASSUME TypeOK, RequestInv, [Next]_vars
    PROVE  RequestInv' /\ (verdict' = "cancel" => command \in asked \/ verdict' = verdict)
<1> USE DEF TypeOK, RequestInv, Under, process, clock, requests
<1>1. CASE Begin
  BY <1>1 DEF Begin, Cleared
<1>2. CASE Spawn \/ Poll
  BY <1>2 DEF Spawn, Poll
<1>3. CASE Check
  BY <1>3 DEF Check, Reason
<1>4. CASE Terminate \/ Grace
  BY <1>4 DEF Terminate, Grace, Escalation
<1>5. CASE Kill \/ Join \/ Return \/ Interrupt
  BY <1>5 DEF Kill, Join, Return, Interrupt
<1>6. CASE Fork \/ Write \/ Read \/ \E p \in Group : Exit(p)
  BY <1>6 DEF Fork, Write, Read, Exit
<1>7. CASE HeartbeatCancel \/ ShutdownCancel
  BY <1>7 DEF HeartbeatCancel, ShutdownCancel, Requested
<1>8. CASE ShutdownBegins
  BY <1>8 DEF ShutdownBegins
<1>9. CASE UNCHANGED vars
  BY <1>9 DEF vars
<1> QED BY <1>1, <1>2, <1>3, <1>4, <1>5, <1>6, <1>7, <1>8, <1>9 DEF Next, Watch

\* A command is reported as cancelled only if the request came while it ran:
\* one for the command before, or before the start, never ends it.
THEOREM CancelsWereAsked == Spec => CancelWasAsked
<1>1. Init => RequestInv
  BY DEF Init, RequestInv
<1>2. TypeOK /\ RequestInv /\ [Next]_vars => RequestInv'
  BY RequestStep
<1>3. TypeOK /\ RequestInv /\ [Next]_vars => [verdict' = "cancel" => command \in asked]_vars
  BY RequestStep DEF RequestInv
<1> QED BY <1>1, <1>2, <1>3, RunnerTypeCorrect, PTL DEF Spec, CancelWasAsked

-----------------------------------------------------------------------------
(* The queue of the event hook.                                            *)

\* Events that were handed to the executor.
Accepted == {"queued", "running", "ended", "done"}

\* An event is new until its emitter has submitted it.
NewIsAhead ==
    \A v \in Events :
        state[v] = "new" <=> \/ v[2] > emitter[v[1]].event
                             \/ v = Current(v[1]) /\ emitter[v[1]].step = "submit"

\* An emitter that is inside emit has an event; after submit it is accepted
\* and nobody else reports it.
EmitterHasItsEvent ==
    \A e \in Emitters :
        /\ Inside(e) => emitter[e].event >= 1
        /\ emitter[e].step \in {"add", "watch"} =>
              state[Current(e)] \in Accepted /\ Current(e) \notin watched \cup completed

\* The callback belongs to accepted events, and comes once, at the end.  A
\* stray event has none.
CallbackIsLast ==
    /\ \A v \in watched \cup completed : state[v] \in Accepted
    /\ \A v \in completed : v \in watched => state[v] = "done"
    /\ \A v \in Events : state[v] = "ended" => v \in watched

\* What is queued or running is in _PENDING, or about to be put there, unless
\* its submit has raised.
QueuedIsPending ==
    \A v \in Events \ Stray :
        state[v] \in {"queued", "running"} =>
            v \in pending \/ (v = Current(v[1]) /\ emitter[v[1]].step = "add")

\* The executor's queue holds the queued events in the order of their emitters.
QueueInOrder ==
    /\ \A i \in 1 .. Len(queue) : state[queue[i]] = "queued"
    /\ \A v \in Events : state[v] = "queued" => \E i \in 1 .. Len(queue) : queue[i] = v
    /\ \A i, j \in 1 .. Len(queue) :
          i < j /\ queue[i][1] = queue[j][1] => queue[i][2] < queue[j][2]

\* The thread has one event at a time, and has taken all the earlier ones of
\* its emitter before.
TakenInOrder ==
    /\ \A v, w \in Events :
          state[v] \in {"running", "ended"} /\ state[w] \in {"running", "ended"} => v = w
    /\ \A v, w \in Events :
          v[1] = w[1] /\ v[2] < w[2] /\ state[w] \in {"running", "ended", "done"} =>
              state[v] \in {"ended", "done", "dropped"}

\* Only finished events are in the log.
LogIsOver == \A i \in 1 .. Len(log) : state[log[i]] \in {"ended", "done"}

\* Once the flush has taken its snapshot, what is not in it belongs to a thread
\* that was inside emit at that moment.
FlushKnows ==
    /\ flush.step # "no" => stopped /\ \A e \in Emitters : Inside(e) => e \in flush.busy
    /\ flush.step = "wait" =>
          \A v \in Events \ Stray : state[v] \in {"queued", "running"} =>
              v \in flush.waits \/ v[1] \in flush.busy

Held == {v \in Events : state[v] \in Accepted} \ completed
Submitting == {e \in Emitters : emitter[e].step = "submit"}

Control == NewIsAhead /\ EmitterHasItsEvent /\ CallbackIsLast
Pending == QueuedIsPending /\ PendingIsUnderWay
Order == QueueInOrder /\ TakenInOrder /\ LogIsOver /\ OrderIsKept
Flushed == FlushKnows /\ CleanFlushMissesNothing

IInv == QueueTypeOK /\ Control /\ Pending /\ Order /\ Flushed /\ PermitsAreAccounted

LEMMA QueueLimits == Capacity \in Nat /\ Capacity # 0 /\ MaxEvents \in Nat /\ MaxEvents # 0
BY QueueAssumption DEF QueueAssumption

\* What a pair of Events is.
LEMMA EventFacts ==
    /\ \A v \in Events : v[1] \in Emitters /\ v[2] \in 1 .. MaxEvents /\ v = <<v[1], v[2]>>
    /\ \A e \in Emitters, n \in 1 .. MaxEvents :
          <<e, n>> \in Events /\ <<e, n>>[1] = e /\ <<e, n>>[2] = n
BY DEF Events

\* The event of an emitter that is inside emit.
LEMMA CurrentFacts ==
    ASSUME QueueTypeOK, EmitterHasItsEvent, NEW e \in Emitters, Inside(e)
    PROVE  /\ Current(e) \in Events /\ Current(e)[1] = e /\ Current(e)[2] = emitter[e].event
           /\ emitter[e].event \in 1 .. MaxEvents
<1>1. emitter[e].event \in 1 .. MaxEvents
    BY QueueLimits DEF QueueTypeOK, EmitterHasItsEvent
<1> QED BY <1>1, EventFacts DEF Current

-----------------------------------------------------------------------------
(* Permits: the two sets that hold them are finite, and a step moves one. *)

LEMMA HoldersAreFinite ==
    ASSUME QueueTypeOK
    PROVE  /\ IsFiniteSet(Held) /\ IsFiniteSet(Submitting)
           /\ Cardinality(Held) \in Nat /\ Cardinality(Submitting) \in Nat
<1>1. IsFiniteSet(Emitters) /\ IsFiniteSet(1 .. MaxEvents)
    BY QueueAssumption, QueueLimits, FS_Interval DEF QueueAssumption
<1>2. IsFiniteSet(Events)
    BY <1>1, FS_Product DEF Events
<1>3. Held \in SUBSET Events /\ Submitting \in SUBSET Emitters
    BY DEF Held, Submitting
<1>4. IsFiniteSet(Held) /\ IsFiniteSet(Submitting)
    BY <1>1, <1>2, <1>3, FS_Subset
<1> QED BY <1>4, FS_CardinalityType

LEMMA Accounted == PermitsAreAccounted <=> permits + Cardinality(Held) + Cardinality(Submitting) = Capacity
BY DEF PermitsAreAccounted, Held, Submitting, Accepted

LEMMA AccountedNext ==
    PermitsAreAccounted' <=> permits' + Cardinality(Held') + Cardinality(Submitting') = Capacity
BY DEF PermitsAreAccounted, Held, Submitting, Accepted

\* Nobody gives a permit back or takes one.
LEMMA PermitsKept ==
    ASSUME PermitsAreAccounted, permits' = permits, Held' = Held, Submitting' = Submitting
    PROVE  PermitsAreAccounted'
BY Accounted, AccountedNext

\* _completed gives back the permit of an event that held one.
LEMMA PermitReturned ==
    ASSUME QueueTypeOK, PermitsAreAccounted, NEW v \in Held, permits' = permits + 1,
           Held' = Held \ {v}, Submitting' = Submitting
    PROVE  PermitsAreAccounted' /\ permits' \in 0 .. Capacity
<1>1. Cardinality(Held') = Cardinality(Held) - 1
    BY HoldersAreFinite, FS_RemoveElement
<1>2. Cardinality(Held) # 0
    BY HoldersAreFinite, FS_EmptySet
<1>3. permits \in Nat
    BY QueueLimits DEF QueueTypeOK
<1> QED BY <1>1, <1>2, <1>3, Accounted, AccountedNext, HoldersAreFinite, QueueLimits

-----------------------------------------------------------------------------
(* One lemma per action. *)

LEMMA InitIInv == QueueInit => IInv
<1> SUFFICES ASSUME QueueInit PROVE IInv
    OBVIOUS
<1>1. QueueTypeOK
    <2>1. << >> \in Seq(Events)
        OBVIOUS
    <2>2. permits \in 0 .. Capacity /\ 0 \in 0 .. MaxEvents
        BY QueueLimits DEF QueueInit
    <2>3. emitter \in [Emitters -> [step : {"idle", "submit", "add", "watch"},
                                   event : 0 .. MaxEvents]]
        BY <2>2 DEF QueueInit
    <2>4. state \in [Events -> {"new", "dropped", "queued", "running", "ended", "done"}]
        BY DEF QueueInit
    <2>5. queue \in Seq(Events) /\ log \in Seq(Events)
        BY <2>1 DEF QueueInit
    <2> QED BY <2>2, <2>3, <2>4, <2>5 DEF QueueInit, QueueTypeOK, IdleFlush
<1>2. Control
    BY EventFacts DEF QueueInit, Control, NewIsAhead, EmitterHasItsEvent, CallbackIsLast, Inside, Current
<1>3. Pending /\ Flushed
    BY DEF QueueInit, Pending, QueuedIsPending, PendingIsUnderWay, Stray, Flushed, FlushKnows,
           CleanFlushMissesNothing, IdleFlush
<1>4. Order
    BY DEF QueueInit, Order, QueueInOrder, TakenInOrder, LogIsOver, OrderIsKept
<1>5. PermitsAreAccounted
    <2>1. Held = {} /\ Submitting = {}
        BY DEF QueueInit, Held, Submitting, Accepted
    <2> QED BY <2>1, Accounted, FS_EmptySet, QueueLimits DEF QueueInit
<1> QED BY <1>1, <1>2, <1>3, <1>4, <1>5 DEF IInv

LEMMA EmitStepIInv == ASSUME IInv, NEW e \in Emitters, Emit(e) PROVE IInv'
<1> DEFINE new == <<e, emitter[e].event + 1>>
<1>0. new \in Events /\ new[1] = e /\ new[2] = emitter[e].event + 1 /\ state[new] = "new"
    BY EventFacts, QueueLimits DEF IInv, QueueTypeOK, Emit, Control, NewIsAhead
<1>1. CASE /\ permits > 0 /\ permits' = permits - 1 /\ state' = state
           /\ emitter' = [emitter EXCEPT ![e] = [step |-> "submit", event |-> @.event + 1]]
    <2>1. QueueTypeOK'
        BY <1>1, QueueLimits DEF IInv, QueueTypeOK, Emit
    <2>2. /\ emitter'[e].step = "submit" /\ emitter'[e].event = emitter[e].event + 1
          /\ \A x \in Emitters : x # e => emitter'[x] = emitter[x]
        BY <1>1 DEF IInv, QueueTypeOK
    <2>3. Control'
        <3>1. NewIsAhead'
            BY <1>0, <1>1, <2>2, EventFacts DEF IInv, QueueTypeOK, Emit, Control, NewIsAhead, Current
        <3>2. EmitterHasItsEvent'
            BY <2>2, <1>1 DEF IInv, QueueTypeOK, Emit, Control, EmitterHasItsEvent, Current, Inside
        <3>3. CallbackIsLast'
            BY <1>1 DEF IInv, Emit, Control, CallbackIsLast
        <3> QED BY <3>1, <3>2, <3>3 DEF Control
    <2>4. Pending'
        BY <1>1, <2>2 DEF IInv, Emit, Pending, QueuedIsPending, PendingIsUnderWay, Stray, Current, Events
    <2>5. Order'
        BY <1>1 DEF IInv, Emit, Order, QueueInOrder, TakenInOrder, LogIsOver, OrderIsKept
    <2>6. Flushed'
        BY <1>1 DEF IInv, Emit, Flushed, FlushKnows, CleanFlushMissesNothing, Stray
    <2>7. PermitsAreAccounted'
        <3>1. Held' = Held
            BY <1>1 DEF Held, Emit
        <3>2. Submitting' = Submitting \cup {e} /\ e \notin Submitting
            BY <2>2 DEF Submitting, Emit
        <3>3. Cardinality(Submitting') = Cardinality(Submitting) + 1
            BY <3>2, HoldersAreFinite, FS_AddElement DEF IInv
        <3> QED BY <1>1, <3>1, <3>3, Accounted, AccountedNext, HoldersAreFinite, QueueLimits DEF IInv, QueueTypeOK
    <2> QED BY <2>1, <2>3, <2>4, <2>5, <2>6, <2>7 DEF IInv
<1>2. CASE /\ permits' = permits /\ state' = [state EXCEPT ![new] = "dropped"]
           /\ emitter' = [emitter EXCEPT ![e].event = @ + 1]
    <2>1. QueueTypeOK'
        BY <1>0, <1>2, QueueLimits DEF IInv, QueueTypeOK, Emit
    <2>2. /\ emitter'[e].step = "idle" /\ emitter'[e].event = emitter[e].event + 1
          /\ \A x \in Emitters : x # e => emitter'[x] = emitter[x]
        BY <1>2 DEF IInv, QueueTypeOK, Emit
    <2>3. state'[new] = "dropped" /\ \A v \in Events : v # new => state'[v] = state[v]
        BY <1>0, <1>2 DEF IInv, QueueTypeOK
    <2>4. Control'
        <3>1. NewIsAhead'
            <4> SUFFICES ASSUME NEW v \in Events
                         PROVE  state'[v] = "new" <=>
                                  \/ v[2] > emitter'[v[1]].event
                                  \/ v = Current(v[1])' /\ emitter'[v[1]].step = "submit"
                BY DEF NewIsAhead
            <4>1. CASE v = new
                BY <4>1, <1>0, <2>2, <2>3, QueueLimits DEF IInv, QueueTypeOK
            <4>2. CASE v # new /\ v[1] = e
                <5>1. v[2] # emitter[e].event + 1 /\ v[2] \in Nat /\ emitter[e].event \in Nat
                    BY <4>2, EventFacts, QueueLimits DEF IInv, QueueTypeOK
                <5>2. state[v] = "new" <=> v[2] > emitter[e].event
                    BY <4>2 DEF IInv, Emit, Control, NewIsAhead
                <5> QED BY <4>2, <5>1, <5>2, <2>2, <2>3
            <4>3. CASE v # new /\ v[1] # e
                BY <4>3, <2>2, <2>3, EventFacts DEF IInv, Control, NewIsAhead, Current
            <4> QED BY <4>1, <4>2, <4>3
        <3>2. EmitterHasItsEvent'
            <4> SUFFICES ASSUME NEW x \in Emitters
                         PROVE  /\ Inside(x)' => emitter'[x].event >= 1
                                /\ emitter'[x].step \in {"add", "watch"} =>
                                     state'[Current(x)'] \in Accepted /\ Current(x)' \notin watched' \cup completed'
                BY DEF EmitterHasItsEvent
            <4>1. CASE x = e
                BY <4>1, <2>2 DEF Inside
            <4>2. CASE x # e
                BY <1>0, <4>2, <2>2, <2>3, CurrentFacts
                DEF IInv, Emit, Control, EmitterHasItsEvent, Current, Inside
            <4> QED BY <4>1, <4>2
        <3>3. CallbackIsLast'
            BY <1>0, <2>3 DEF IInv, QueueTypeOK, Emit, Control, CallbackIsLast, Accepted
        <3> QED BY <3>1, <3>2, <3>3 DEF Control
    <2>5. Pending'
        <3>1. QueuedIsPending'
            <4> SUFFICES ASSUME NEW v \in Events, v \notin Stray', state'[v] \in {"queued", "running"},
                                v \notin pending'
                         PROVE  v = Current(v[1])' /\ emitter'[v[1]].step = "add"
                BY DEF QueuedIsPending
            <4>1. state'[v] = state[v] /\ pending' = pending /\ v \notin Stray
                BY <2>3 DEF Emit, Stray
            <4>2. v = Current(v[1]) /\ emitter[v[1]].step = "add"
                BY <4>1 DEF IInv, Pending, QueuedIsPending
            <4>3. v[1] # e
                BY <4>2 DEF Emit
            <4> QED BY <4>2, <4>3, <2>2, EventFacts DEF Current
        <3>2. PendingIsUnderWay'
            BY <1>0, <2>3 DEF IInv, QueueTypeOK, Emit, Pending, PendingIsUnderWay, Stray
        <3> QED BY <3>1, <3>2 DEF Pending
    <2>6. Order'
        <3>0. /\ queue' = queue /\ log' = log
              /\ \A i \in 1 .. Len(queue) : queue[i] \in Events /\ queue[i] # new
              /\ \A i \in 1 .. Len(log) : log[i] \in Events /\ log[i] # new
            <4>1. queue' = queue /\ log' = log
                BY DEF Emit
            <4>2. queue \in Seq(Events) /\ log \in Seq(Events)
                BY DEF IInv, QueueTypeOK
            <4>3. \A i \in 1 .. Len(queue) : queue[i] \in Events /\ queue[i] # new
                <5>1. \A i \in 1 .. Len(queue) : queue[i] \in Events
                    BY <4>2
                <5>2. \A i \in 1 .. Len(queue) : state[queue[i]] = "queued"
                    BY DEF IInv, Order, QueueInOrder
                <5> HIDE DEF new
                <5> QED BY <1>0, <5>1, <5>2
            <4>4. \A i \in 1 .. Len(log) : log[i] \in Events /\ log[i] # new
                <5>1. \A i \in 1 .. Len(log) : log[i] \in Events
                    BY <4>2
                <5>2. \A i \in 1 .. Len(log) : state[log[i]] \in {"ended", "done"}
                    BY DEF IInv, Order, LogIsOver
                <5> HIDE DEF new
                <5> QED BY <1>0, <5>1, <5>2
            <4> QED BY <4>1, <4>3, <4>4
        <3>1. QueueInOrder'
            BY <2>3, <3>0 DEF IInv, Order, QueueInOrder
        <3>2. TakenInOrder'
            BY <1>0, <2>3 DEF IInv, QueueTypeOK, Emit, Order, TakenInOrder
        <3>3. LogIsOver' /\ OrderIsKept'
            BY <2>3, <3>0 DEF IInv, Order, LogIsOver, OrderIsKept
        <3> QED BY <3>1, <3>2, <3>3 DEF Order
    <2>7. Flushed'
        BY <2>3 DEF IInv, Emit, Flushed, FlushKnows, CleanFlushMissesNothing, Stray
    <2>8. PermitsAreAccounted'
        <3>1. Held' = Held
            BY <1>0, <2>3 DEF Held, Emit, Accepted
        <3>2. Submitting' = Submitting
            BY <2>2 DEF Submitting, Emit
        <3> QED BY <1>2, <3>1, <3>2, PermitsKept DEF IInv
    <2> QED BY <2>1, <2>4, <2>5, <2>6, <2>7, <2>8 DEF IInv
<1> QED BY <1>1, <1>2 DEF Emit

\* The executor takes the event.
LEMMA SubmitTaken ==
    ASSUME IInv, NEW e \in Emitters, emitter[e].step = "submit",
           queue' = Append(queue, Current(e)), state' = [state EXCEPT ![Current(e)] = "queued"],
           emitter' = [emitter EXCEPT ![e].step = "add"],
           UNCHANGED <<permits, watched, completed, pending, flush, stopped, log>>
    PROVE  IInv'
<1> DEFINE c == Current(e)
<1>0. /\ c \in Events /\ c[1] = e /\ c[2] = emitter[e].event /\ state[c] = "new"
      /\ c \notin watched /\ c \notin completed /\ c \notin pending
    <2>1. c \in Events /\ c[1] = e /\ c[2] = emitter[e].event
        BY CurrentFacts DEF IInv, Control, Inside
    <2>2. state[c] = "new"
        BY <2>1 DEF IInv, Control, NewIsAhead
    <2> QED BY <2>1, <2>2 DEF IInv, Control, CallbackIsLast, Pending, PendingIsUnderWay, Stray, Accepted
<1>1. QueueTypeOK'
    BY <1>0 DEF IInv, QueueTypeOK
<1>2. /\ emitter'[e].step = "add" /\ emitter'[e].event = emitter[e].event
      /\ \A x \in Emitters : x # e => emitter'[x] = emitter[x]
      /\ \A x \in Emitters : Current(x)' = Current(x)
    BY DEF IInv, QueueTypeOK, Current
<1>3. state'[c] = "queued" /\ \A v \in Events : v # c => state'[v] = state[v]
    BY <1>0 DEF IInv, QueueTypeOK
<1>4. Control'
    <2>1. NewIsAhead'
        BY <1>0, <1>2, <1>3, EventFacts DEF IInv, QueueTypeOK, Control, NewIsAhead
    <2>2. EmitterHasItsEvent'
        BY <1>0, <1>2, <1>3, CurrentFacts
        DEF IInv, QueueTypeOK, Control, EmitterHasItsEvent, Inside, Accepted
    <2>3. CallbackIsLast'
        BY <1>0, <1>3 DEF IInv, QueueTypeOK, Control, CallbackIsLast, Accepted
    <2> QED BY <2>1, <2>2, <2>3 DEF Control
<1>5. Pending'
    BY <1>0, <1>2, <1>3, EventFacts DEF IInv, QueueTypeOK, Pending, QueuedIsPending, PendingIsUnderWay, Stray
<1>6. Order'
    <2>0. /\ queue \in Seq(Events) /\ Len(queue') = Len(queue) + 1 /\ queue'[Len(queue')] = c
          /\ \A i \in 1 .. Len(queue) : queue'[i] = queue[i] /\ queue[i] \in Events /\ queue[i] # c
        BY <1>0 DEF IInv, QueueTypeOK, Order, QueueInOrder
    <2>1. QueueInOrder'
        <3>1. \A i \in 1 .. Len(queue') : state'[queue'[i]] = "queued"
            BY <2>0, <1>3 DEF IInv, QueueTypeOK, Order, QueueInOrder
        <3>2. \A v \in Events : state'[v] = "queued" => \E i \in 1 .. Len(queue') : queue'[i] = v
            <4> SUFFICES ASSUME NEW v \in Events, state'[v] = "queued"
                         PROVE  \E i \in 1 .. Len(queue') : queue'[i] = v
                OBVIOUS
            <4>1. CASE v = c
                BY <4>1, <2>0
            <4>2. CASE v # c
                <5>1. PICK i \in 1 .. Len(queue) : queue[i] = v
                    BY <4>2, <1>3 DEF IInv, Order, QueueInOrder
                <5> QED BY <5>1, <2>0
            <4> QED BY <4>1, <4>2
        <3>3. \A i \in 1 .. Len(queue) : queue[i][1] = e => queue[i][2] < c[2]
            <4> SUFFICES ASSUME NEW i \in 1 .. Len(queue), queue[i][1] = e, ~(queue[i][2] < c[2])
                         PROVE  FALSE
                OBVIOUS
            <4>1. queue[i] \in Events /\ queue[i] # c /\ state[queue[i]] = "queued"
                BY <2>0 DEF IInv, Order, QueueInOrder
            <4>2. queue[i][2] # c[2]
                BY <4>1, <1>0, EventFacts
            <4>3. queue[i][2] > emitter[e].event
                BY <4>1, <4>2, <1>0, EventFacts
            <4> QED BY <4>1, <4>3 DEF IInv, Control, NewIsAhead
        <3>4. \A i, j \in 1 .. Len(queue') :
                 i < j /\ queue'[i][1] = queue'[j][1] => queue'[i][2] < queue'[j][2]
            <4> SUFFICES ASSUME NEW i \in 1 .. Len(queue'), NEW j \in 1 .. Len(queue'),
                                i < j, queue'[i][1] = queue'[j][1]
                         PROVE  queue'[i][2] < queue'[j][2]
                OBVIOUS
            <4>1. i \in 1 .. Len(queue) /\ queue'[i] = queue[i]
                BY <2>0
            <4>2. CASE j = Len(queue')
                BY <4>1, <4>2, <2>0, <1>0, <3>3
            <4>3. CASE j # Len(queue')
                BY <4>1, <4>3, <2>0 DEF IInv, Order, QueueInOrder
            <4> QED BY <4>2, <4>3
        <3> QED BY <3>1, <3>2, <3>4 DEF QueueInOrder
    <2>2. TakenInOrder'
        BY <1>0, <1>3 DEF IInv, QueueTypeOK, Order, TakenInOrder
    <2>3. LogIsOver' /\ OrderIsKept'
        BY <1>0, <1>3 DEF IInv, QueueTypeOK, Order, LogIsOver, OrderIsKept
    <2> QED BY <2>1, <2>2, <2>3 DEF Order
<1>7. Flushed'
    BY <1>0, <1>2, <1>3 DEF IInv, Flushed, FlushKnows, CleanFlushMissesNothing, Stray, Inside
<1>8. PermitsAreAccounted'
    <2>1. Held' = Held \cup {c} /\ c \notin Held
        BY <1>0, <1>3 DEF Held, Accepted
    <2>2. Submitting' = Submitting \ {e} /\ e \in Submitting
        BY <1>2 DEF Submitting
    <2>3. /\ Cardinality(Held') = Cardinality(Held) + 1
          /\ Cardinality(Submitting') = Cardinality(Submitting) - 1
        BY <2>1, <2>2, HoldersAreFinite, FS_AddElement, FS_RemoveElement DEF IInv
    <2> QED BY <2>3, Accounted, AccountedNext, HoldersAreFinite, QueueLimits DEF IInv, QueueTypeOK
<1> QED BY <1>1, <1>4, <1>5, <1>6, <1>7, <1>8 DEF IInv

\* The executor refuses it: the permit comes back.
LEMMA SubmitRefused ==
    ASSUME IInv, NEW e \in Emitters, emitter[e].step = "submit",
           state' = [state EXCEPT ![Current(e)] = "dropped"], permits' = permits + 1,
           emitter' = [emitter EXCEPT ![e].step = "idle"],
           UNCHANGED <<queue, watched, completed, pending, flush, stopped, log>>
    PROVE  IInv'
<1> DEFINE c == Current(e)
<1>0. /\ c \in Events /\ c[1] = e /\ c[2] = emitter[e].event /\ state[c] = "new"
      /\ c \notin watched /\ c \notin completed /\ c \notin pending
    <2>1. c \in Events /\ c[1] = e /\ c[2] = emitter[e].event
        BY CurrentFacts DEF IInv, Control, Inside
    <2>2. state[c] = "new"
        BY <2>1 DEF IInv, Control, NewIsAhead
    <2> QED BY <2>1, <2>2 DEF IInv, Control, CallbackIsLast, Pending, PendingIsUnderWay, Stray, Accepted
<1>1. PermitsAreAccounted' /\ permits' \in 0 .. Capacity
    <2>1. state'[c] = "dropped" /\ \A v \in Events : v # c => state'[v] = state[v]
        BY <1>0 DEF IInv, QueueTypeOK
    <2>2. Held' = Held
        BY <1>0, <2>1 DEF Held, Accepted
    <2>3. Submitting' = Submitting \ {e} /\ e \in Submitting
        BY DEF IInv, QueueTypeOK, Submitting
    <2>4. Cardinality(Submitting') = Cardinality(Submitting) - 1
        BY <2>3, HoldersAreFinite, FS_RemoveElement DEF IInv
    <2>5. Cardinality(Submitting) # 0
        <3>1. IsFiniteSet(Submitting)
            BY HoldersAreFinite DEF IInv
        <3>2. Submitting # {}
            BY <2>3
        <3> QED BY <3>1, <3>2, FS_EmptySet
    <2>6. /\ permits \in Nat /\ permits' = permits + 1
          /\ Cardinality(Held) \in Nat /\ Cardinality(Submitting) \in Nat
          /\ permits + Cardinality(Held) + Cardinality(Submitting) = Capacity
        BY Accounted, HoldersAreFinite, QueueLimits DEF IInv, QueueTypeOK
    <2> QED BY <2>2, <2>4, <2>5, <2>6, AccountedNext, QueueLimits
<1>2. QueueTypeOK'
    BY <1>0, <1>1 DEF IInv, QueueTypeOK
<1>3. /\ emitter'[e].step = "idle" /\ emitter'[e].event = emitter[e].event
      /\ \A x \in Emitters : x # e => emitter'[x] = emitter[x]
      /\ \A x \in Emitters : Current(x)' = Current(x)
    BY DEF IInv, QueueTypeOK, Current
<1>4. state'[c] = "dropped" /\ \A v \in Events : v # c => state'[v] = state[v]
    BY <1>0 DEF IInv, QueueTypeOK
<1>5. Control'
    <2>1. NewIsAhead'
        BY <1>0, <1>3, <1>4, EventFacts DEF IInv, QueueTypeOK, Control, NewIsAhead
    <2>2. EmitterHasItsEvent'
        BY <1>0, <1>3, <1>4, CurrentFacts
        DEF IInv, QueueTypeOK, Control, EmitterHasItsEvent, Inside, Accepted
    <2>3. CallbackIsLast'
        BY <1>0, <1>4 DEF IInv, QueueTypeOK, Control, CallbackIsLast, Accepted
    <2> QED BY <2>1, <2>2, <2>3 DEF Control
<1>6. Pending'
    BY <1>0, <1>3, <1>4, EventFacts DEF IInv, QueueTypeOK, Pending, QueuedIsPending, PendingIsUnderWay, Stray
<1>7. Order'
    <2>1. queue \in Seq(Events) /\ log \in Seq(Events)
        BY DEF IInv, QueueTypeOK
    <2>2. \A i \in 1 .. Len(queue) : queue[i] \in Events /\ queue[i] # c
        BY <1>0, <2>1 DEF IInv, Order, QueueInOrder
    <2>3. \A i \in 1 .. Len(log) : log[i] \in Events /\ log[i] # c
        <3>1. \A i \in 1 .. Len(log) : log[i] \in Events
            BY <2>1
        <3>2. \A i \in 1 .. Len(log) : state[log[i]] \in {"ended", "done"}
            BY DEF IInv, Order, LogIsOver
        <3> HIDE DEF c
        <3> QED BY <1>0, <3>1, <3>2
    <2>4. QueueInOrder'
        BY <1>4, <2>2 DEF IInv, Order, QueueInOrder
    <2>5. TakenInOrder'
        BY <1>0, <1>4 DEF IInv, QueueTypeOK, Order, TakenInOrder
    <2>6. LogIsOver' /\ OrderIsKept'
        BY <1>4, <2>3 DEF IInv, Order, LogIsOver, OrderIsKept
    <2> QED BY <2>4, <2>5, <2>6 DEF Order
<1>8. Flushed'
    BY <1>3, <1>4 DEF IInv, Flushed, FlushKnows, CleanFlushMissesNothing, Stray, Inside
<1> QED BY <1>1, <1>2, <1>5, <1>6, <1>7, <1>8 DEF IInv

\* It has the event, and raises: the permit comes back.
LEMMA SubmitStray ==
    ASSUME IInv, NEW e \in Emitters, emitter[e].step = "submit",
           queue' = Append(queue, Current(e)), state' = [state EXCEPT ![Current(e)] = "queued"],
           emitter' = [emitter EXCEPT ![e].step = "idle"], permits' = permits + 1,
           completed' = completed \cup {Current(e)},
           UNCHANGED <<watched, pending, flush, stopped, log>>
    PROVE  IInv'
<1> DEFINE c == Current(e)
<1>0. /\ c \in Events /\ c[1] = e /\ c[2] = emitter[e].event /\ state[c] = "new"
      /\ c \notin watched /\ c \notin completed /\ c \notin pending
    <2>1. c \in Events /\ c[1] = e /\ c[2] = emitter[e].event
        BY CurrentFacts DEF IInv, Control, Inside
    <2>2. state[c] = "new"
        BY <2>1 DEF IInv, Control, NewIsAhead
    <2> QED BY <2>1, <2>2 DEF IInv, Control, CallbackIsLast, Pending, PendingIsUnderWay, Stray, Accepted
<1>2. /\ emitter'[e].step = "idle" /\ emitter'[e].event = emitter[e].event
      /\ \A x \in Emitters : x # e => emitter'[x] = emitter[x]
      /\ \A x \in Emitters : Current(x)' = Current(x)
    BY DEF IInv, QueueTypeOK, Current
<1>3. state'[c] = "queued" /\ \A v \in Events : v # c => state'[v] = state[v]
    BY <1>0 DEF IInv, QueueTypeOK
<1>4. Control'
    <2>1. NewIsAhead'
        BY <1>0, <1>2, <1>3, EventFacts DEF IInv, QueueTypeOK, Control, NewIsAhead
    <2>2. EmitterHasItsEvent'
        BY <1>0, <1>2, <1>3, CurrentFacts
        DEF IInv, QueueTypeOK, Control, EmitterHasItsEvent, Inside, Accepted
    <2>3. CallbackIsLast'
        BY <1>0, <1>3 DEF IInv, QueueTypeOK, Control, CallbackIsLast, Accepted
    <2> QED BY <2>1, <2>2, <2>3 DEF Control
<1>5. Pending'
    BY <1>0, <1>2, <1>3, EventFacts DEF IInv, QueueTypeOK, Pending, QueuedIsPending, PendingIsUnderWay, Stray
<1>6. Order'
    <2>0. /\ queue \in Seq(Events) /\ Len(queue') = Len(queue) + 1 /\ queue'[Len(queue')] = c
          /\ \A i \in 1 .. Len(queue) : queue'[i] = queue[i] /\ queue[i] \in Events /\ queue[i] # c
        BY <1>0 DEF IInv, QueueTypeOK, Order, QueueInOrder
    <2>1. QueueInOrder'
        <3>1. \A i \in 1 .. Len(queue') : state'[queue'[i]] = "queued"
            BY <2>0, <1>3 DEF IInv, QueueTypeOK, Order, QueueInOrder
        <3>2. \A v \in Events : state'[v] = "queued" => \E i \in 1 .. Len(queue') : queue'[i] = v
            <4> SUFFICES ASSUME NEW v \in Events, state'[v] = "queued"
                         PROVE  \E i \in 1 .. Len(queue') : queue'[i] = v
                OBVIOUS
            <4>1. CASE v = c
                BY <4>1, <2>0
            <4>2. CASE v # c
                <5>1. PICK i \in 1 .. Len(queue) : queue[i] = v
                    BY <4>2, <1>3 DEF IInv, Order, QueueInOrder
                <5> QED BY <5>1, <2>0
            <4> QED BY <4>1, <4>2
        <3>3. \A i \in 1 .. Len(queue) : queue[i][1] = e => queue[i][2] < c[2]
            <4> SUFFICES ASSUME NEW i \in 1 .. Len(queue), queue[i][1] = e, ~(queue[i][2] < c[2])
                         PROVE  FALSE
                OBVIOUS
            <4>1. queue[i] \in Events /\ queue[i] # c /\ state[queue[i]] = "queued"
                BY <2>0 DEF IInv, Order, QueueInOrder
            <4>2. queue[i][2] # c[2]
                BY <4>1, <1>0, EventFacts
            <4>3. queue[i][2] > emitter[e].event
                BY <4>1, <4>2, <1>0, EventFacts
            <4> QED BY <4>1, <4>3 DEF IInv, Control, NewIsAhead
        <3>4. \A i, j \in 1 .. Len(queue') :
                 i < j /\ queue'[i][1] = queue'[j][1] => queue'[i][2] < queue'[j][2]
            <4> SUFFICES ASSUME NEW i \in 1 .. Len(queue'), NEW j \in 1 .. Len(queue'),
                                i < j, queue'[i][1] = queue'[j][1]
                         PROVE  queue'[i][2] < queue'[j][2]
                OBVIOUS
            <4>1. i \in 1 .. Len(queue) /\ queue'[i] = queue[i]
                BY <2>0
            <4>2. CASE j = Len(queue')
                BY <4>1, <4>2, <2>0, <1>0, <3>3
            <4>3. CASE j # Len(queue')
                BY <4>1, <4>3, <2>0 DEF IInv, Order, QueueInOrder
            <4> QED BY <4>2, <4>3
        <3> QED BY <3>1, <3>2, <3>4 DEF QueueInOrder
    <2>2. TakenInOrder'
        BY <1>0, <1>3 DEF IInv, QueueTypeOK, Order, TakenInOrder
    <2>3. LogIsOver' /\ OrderIsKept'
        BY <1>0, <1>3 DEF IInv, QueueTypeOK, Order, LogIsOver, OrderIsKept
    <2> QED BY <2>1, <2>2, <2>3 DEF Order
<1>7. Flushed'
    BY <1>0, <1>2, <1>3 DEF IInv, Flushed, FlushKnows, CleanFlushMissesNothing, Stray, Inside
<1>8. PermitsAreAccounted' /\ permits' \in 0 .. Capacity
    <2>2. Held' = Held
        BY <1>0, <1>3 DEF Held, Accepted
    <2>3. Submitting' = Submitting \ {e} /\ e \in Submitting
        BY DEF IInv, QueueTypeOK, Submitting
    <2>4. Cardinality(Submitting') = Cardinality(Submitting) - 1
        BY <2>3, HoldersAreFinite, FS_RemoveElement DEF IInv
    <2>5. Cardinality(Submitting) # 0
        <3>1. IsFiniteSet(Submitting)
            BY HoldersAreFinite DEF IInv
        <3>2. Submitting # {}
            BY <2>3
        <3> QED BY <3>1, <3>2, FS_EmptySet
    <2>6. /\ permits \in Nat /\ permits' = permits + 1
          /\ Cardinality(Held) \in Nat /\ Cardinality(Submitting) \in Nat
          /\ permits + Cardinality(Held) + Cardinality(Submitting) = Capacity
        BY Accounted, HoldersAreFinite, QueueLimits DEF IInv, QueueTypeOK
    <2> QED BY <2>2, <2>4, <2>5, <2>6, AccountedNext, QueueLimits
<1>9. QueueTypeOK'
    BY <1>0, <1>8 DEF IInv, QueueTypeOK
<1> QED BY <1>4, <1>5, <1>6, <1>7, <1>8, <1>9 DEF IInv

LEMMA SubmitIInv == ASSUME IInv, NEW e \in Emitters, Submit(e) PROVE IInv'
BY SubmitTaken, SubmitRefused, SubmitStray DEF Submit, GivenBack

LEMMA AddIInv == ASSUME IInv, NEW e \in Emitters, Add(e) PROVE IInv'
<1> DEFINE c == Current(e)
<1>0. /\ c \in Events /\ c[1] = e /\ state[c] \in Accepted
      /\ c \notin watched /\ c \notin completed
    BY CurrentFacts DEF IInv, Control, Inside, Add, EmitterHasItsEvent, CallbackIsLast
<1>1. /\ emitter'[e].step = "watch" /\ emitter'[e].event = emitter[e].event
      /\ \A x \in Emitters : x # e => emitter'[x] = emitter[x]
      /\ \A x \in Emitters : Current(x)' = Current(x)
    BY DEF IInv, QueueTypeOK, Current, Add
<1>2. QueueTypeOK'
    BY <1>0 DEF IInv, QueueTypeOK, Add
<1>3. Control'
    <2>1. NewIsAhead'
        BY <1>1, EventFacts DEF IInv, Add, Control, NewIsAhead
    <2>2. EmitterHasItsEvent' /\ CallbackIsLast'
        BY <1>1 DEF IInv, Add, Control, EmitterHasItsEvent, CallbackIsLast, Inside
    <2> QED BY <2>1, <2>2 DEF Control
<1>4. Pending'
    BY <1>0, <1>1, EventFacts
    DEF IInv, Add, Pending, QueuedIsPending, PendingIsUnderWay, Stray, Accepted
<1>5. Order'
    BY DEF IInv, Add, Order, QueueInOrder, TakenInOrder, LogIsOver, OrderIsKept
<1>6. Flushed'
    BY <1>1 DEF IInv, Add, Flushed, FlushKnows, CleanFlushMissesNothing, Stray, Inside
<1>7. PermitsAreAccounted'
    <2>1. Held' = Held /\ Submitting' = Submitting
        BY <1>1 DEF Held, Submitting, Add
    <2> QED BY <2>1, PermitsKept DEF IInv, Add
<1> QED BY <1>2, <1>3, <1>4, <1>5, <1>6, <1>7 DEF IInv

-----------------------------------------------------------------------------
\* What _completed does to the permits, and that a report ends with the event.
LEMMA CompletePermits ==
    ASSUME IInv, NEW v \in Events, state[v] \in Accepted, v \notin completed, Complete(v),
           \A w \in Events : state'[w] \in Accepted <=> state[w] \in Accepted,
           Submitting' = Submitting
    PROVE  PermitsAreAccounted' /\ permits' \in 0 .. Capacity
<1>1. v \in Held
    BY DEF Held
<1>2. Held' = Held \ {v}
    BY DEF Held, Complete
<1> QED BY <1>1, <1>2, PermitReturned DEF IInv, Complete

LEMMA WatchForIInv == ASSUME IInv, NEW e \in Emitters, WatchFor(e) PROVE IInv'
<1> DEFINE c == Current(e)
<1>0. /\ c \in Events /\ c[1] = e /\ state[c] \in Accepted
      /\ c \notin watched /\ c \notin completed
    BY CurrentFacts DEF IInv, Control, Inside, WatchFor, EmitterHasItsEvent, CallbackIsLast
<1>1. /\ emitter'[e].step = "idle" /\ emitter'[e].event = emitter[e].event
      /\ emitter[e].step = "watch"
      /\ \A x \in Emitters : x # e => emitter'[x] = emitter[x]
      /\ \A x \in Emitters : Current(x)' = Current(x)
    BY DEF IInv, QueueTypeOK, Current, WatchFor
<1>2. Submitting' = Submitting /\ state' = state /\ watched' = watched \cup {c}
    BY <1>1 DEF Submitting, WatchFor
<1>3. \/ state[c] = "done" /\ Complete(c)
      \/ state[c] # "done" /\ UNCHANGED <<completed, pending, permits>>
    BY DEF WatchFor, IsOver
<1>4. PermitsAreAccounted' /\ permits' \in 0 .. Capacity
    <2>1. CASE state[c] = "done" /\ Complete(c)
        BY <1>0, <1>2, <2>1, CompletePermits DEF IInv
    <2>2. CASE UNCHANGED <<completed, pending, permits>>
        <3>1. Held' = Held
            BY <1>2, <2>2 DEF Held
        <3> QED BY <1>2, <2>2, <3>1, PermitsKept DEF IInv, QueueTypeOK
    <2> QED BY <1>3, <2>1, <2>2
<1>5. QueueTypeOK'
    <2>1. emitter' \in [Emitters -> [step : {"idle", "submit", "add", "watch"},
                                     event : 0 .. MaxEvents]]
        BY DEF IInv, QueueTypeOK, WatchFor
    <2> QED BY <1>0, <1>2, <1>3, <1>4, <2>1 DEF IInv, QueueTypeOK, WatchFor, Complete
<1>6. Control'
    <2>1. NewIsAhead'
        BY <1>1, <1>2, EventFacts DEF IInv, Control, NewIsAhead
    <2>2. EmitterHasItsEvent'
        <3> SUFFICES ASSUME NEW x \in Emitters
                     PROVE  /\ Inside(x)' => emitter'[x].event >= 1
                            /\ emitter'[x].step \in {"add", "watch"} =>
                                 state'[Current(x)'] \in Accepted /\ Current(x)' \notin watched' \cup completed'
            BY DEF EmitterHasItsEvent
        <3>1. CASE x = e
            BY <1>1, <3>1 DEF Inside
        <3>2. CASE x # e
            <4>1. Inside(x) => Current(x)[1] = x
                BY CurrentFacts DEF IInv, Control
            <4>2. completed' \subseteq completed \cup {c}
                BY <1>3 DEF Complete
            <4> QED BY <1>0, <1>1, <1>2, <3>2, <4>1, <4>2
                DEF IInv, Control, EmitterHasItsEvent, Inside
        <3> QED BY <3>1, <3>2
    <2>3. CallbackIsLast'
        BY <1>0, <1>2, <1>3 DEF IInv, Control, CallbackIsLast, Complete
    <2> QED BY <2>1, <2>2, <2>3 DEF Control
<1>7. Pending'
    <2>1. QueuedIsPending'
        <3> SUFFICES ASSUME NEW v \in Events, v \notin Stray', state'[v] \in {"queued", "running"},
                            v \notin pending'
                     PROVE  v = Current(v[1])' /\ emitter'[v[1]].step = "add"
            BY DEF QueuedIsPending
        <3>1. v \notin pending /\ v \notin Stray
            BY <1>0, <1>2, <1>3 DEF Complete, Stray
        <3>2. v = Current(v[1]) /\ emitter[v[1]].step = "add"
            BY <1>2, <3>1 DEF IInv, Pending, QueuedIsPending
        <3> QED BY <1>1, <3>2, EventFacts
    <2>2. PendingIsUnderWay'
        BY <1>2, <1>3 DEF IInv, Pending, PendingIsUnderWay, Stray, Complete
    <2> QED BY <2>1, <2>2 DEF Pending
<1>8. Order'
    BY <1>2 DEF IInv, WatchFor, Order, QueueInOrder, TakenInOrder, LogIsOver, OrderIsKept
<1>9. Flushed'
    <2>1. Stray' = Stray
        BY <1>0, <1>2, <1>3 DEF Stray, Complete
    <2> QED BY <1>1, <1>2, <2>1 DEF IInv, WatchFor, Flushed, FlushKnows, CleanFlushMissesNothing, Inside
<1> QED BY <1>4, <1>5, <1>6, <1>7, <1>8, <1>9 DEF IInv

LEMMA CallbackIInv == ASSUME IInv, NEW v \in Events, Callback(v) PROVE IInv'
<1>0. /\ state[v] = "ended" /\ state'[v] = "done" /\ v \in watched /\ v \notin completed
      /\ \A w \in Events : w # v => state'[w] = state[w]
      /\ completed' = completed \cup {v} /\ pending' = pending \ {v}
      /\ UNCHANGED <<emitter, queue, watched, flush, stopped, log>>
    BY DEF IInv, QueueTypeOK, Control, CallbackIsLast, Callback, Complete
<1>1. PermitsAreAccounted' /\ permits' \in 0 .. Capacity
    <2>1. Submitting' = Submitting
        BY <1>0 DEF Submitting
    <2> QED BY <1>0, <2>1, CompletePermits DEF Callback, Accepted
<1>2. QueueTypeOK'
    BY <1>0, <1>1 DEF IInv, QueueTypeOK, Callback
<1>3. Control'
    <2>1. NewIsAhead'
        BY <1>0 DEF IInv, Control, NewIsAhead, Current
    <2>2. EmitterHasItsEvent'
        <3>1. \A x \in Emitters : Inside(x) => Current(x) \in Events
            BY CurrentFacts DEF IInv, Control
        <3> QED BY <1>0, <3>1 DEF IInv, Control, EmitterHasItsEvent, Inside, Current, Accepted
    <2>3. CallbackIsLast'
        BY <1>0 DEF IInv, QueueTypeOK, Control, CallbackIsLast, Accepted
    <2> QED BY <2>1, <2>2, <2>3 DEF Control
<1>4. Pending'
    BY <1>0 DEF IInv, QueueTypeOK, Pending, QueuedIsPending, PendingIsUnderWay, Stray, Current
<1>5. Order'
    <2>1. QueueInOrder'
        <3>1. \A i \in 1 .. Len(queue) : queue[i] \in Events /\ queue[i] # v
            BY <1>0 DEF IInv, QueueTypeOK, Order, QueueInOrder
        <3> QED BY <1>0, <3>1 DEF IInv, Order, QueueInOrder
    <2>2. TakenInOrder'
        BY <1>0 DEF IInv, Order, TakenInOrder
    <2>3. LogIsOver' /\ OrderIsKept'
        <3>1. \A i \in 1 .. Len(log) : log[i] \in Events
            BY DEF IInv, QueueTypeOK
        <3> QED BY <1>0, <3>1 DEF IInv, Order, LogIsOver, OrderIsKept
    <2> QED BY <2>1, <2>2, <2>3 DEF Order
<1>6. Flushed'
    BY <1>0 DEF IInv, Flushed, FlushKnows, CleanFlushMissesNothing, Stray, Inside
<1> QED BY <1>1, <1>2, <1>3, <1>4, <1>5, <1>6 DEF IInv

\* The thread takes the oldest event of the queue.
LEMMA TakeIInv == ASSUME IInv, Take PROVE IInv'
<1> DEFINE h == Head(queue)
<1>0. /\ queue \in Seq(Events) /\ queue # << >> /\ Len(queue) \in Nat /\ 1 \in 1 .. Len(queue)
      /\ h = queue[1] /\ h \in Events /\ state[h] = "queued"
    BY DEF IInv, QueueTypeOK, Take, Order, QueueInOrder
<1>1. /\ state'[h] = "running" /\ \A v \in Events : v # h => state'[v] = state[v]
      /\ queue' = Tail(queue)
      /\ UNCHANGED <<emitter, permits, watched, completed, pending, flush, stopped, log>>
    BY <1>0 DEF IInv, QueueTypeOK, Take
<1>2. QueueTypeOK'
    BY <1>0, <1>1 DEF IInv, QueueTypeOK, Take
<1>3. Control'
    <2>1. NewIsAhead'
        BY <1>0, <1>1 DEF IInv, Control, NewIsAhead, Current
    <2>2. EmitterHasItsEvent'
        <3>1. \A x \in Emitters : Inside(x) => Current(x) \in Events
            BY CurrentFacts DEF IInv, Control
        <3> HIDE DEF h
        <3> QED BY <1>0, <1>1, <3>1 DEF IInv, Control, EmitterHasItsEvent, Inside, Current, Accepted
    <2>3. CallbackIsLast'
        BY <1>0, <1>1 DEF IInv, QueueTypeOK, Control, CallbackIsLast, Accepted
    <2> QED BY <2>1, <2>2, <2>3 DEF Control
<1>4. Pending'
    <2> HIDE DEF h
    <2> QED BY <1>0, <1>1 DEF IInv, QueueTypeOK, Pending, QueuedIsPending, PendingIsUnderWay, Stray, Current
<1>5. QueueInOrder'
    <2>1. /\ Len(queue') = Len(queue) - 1
          /\ \A i \in 1 .. Len(queue') : queue'[i] = queue[i + 1] /\ i + 1 \in 1 .. Len(queue)
        BY <1>0, <1>1
    <2>2. \A i \in 1 .. Len(queue) : queue[i] \in Events
        BY <1>0
    <2>3. \A i \in 1 .. Len(queue) : i # 1 => queue[i] # h
        <3> SUFFICES ASSUME NEW i \in 1 .. Len(queue), i # 1, queue[i] = h PROVE FALSE
            OBVIOUS
        <3>1. queue[1][1] = queue[i][1] /\ 1 < i
            BY <1>0
        <3>2. queue[1][2] < queue[i][2]
            BY <1>0, <3>1 DEF IInv, Order, QueueInOrder
        <3>3. queue[1][2] = queue[i][2] /\ queue[1][2] \in Nat
            BY <1>0, EventFacts
        <3> QED BY <3>2, <3>3
    <2>4. \A i \in 1 .. Len(queue') : state'[queue'[i]] = "queued"
        <3> SUFFICES ASSUME NEW i \in 1 .. Len(queue') PROVE state'[queue'[i]] = "queued"
            OBVIOUS
        <3>1. i + 1 \in 1 .. Len(queue) /\ i + 1 # 1 /\ queue'[i] = queue[i + 1]
            BY <1>0, <2>1
        <3>2. state[queue[i + 1]] = "queued"
            BY <3>1 DEF IInv, Order, QueueInOrder
        <3> QED BY <1>1, <2>2, <2>3, <3>1, <3>2
    <2>5. \A v \in Events : state'[v] = "queued" => \E i \in 1 .. Len(queue') : queue'[i] = v
        <3> SUFFICES ASSUME NEW v \in Events, state'[v] = "queued"
                     PROVE  \E i \in 1 .. Len(queue') : queue'[i] = v
            OBVIOUS
        <3>1. v # h /\ state[v] = "queued"
            BY <1>0, <1>1
        <3>2. PICK j \in 1 .. Len(queue) : queue[j] = v
            BY <3>1 DEF IInv, Order, QueueInOrder
        <3>3. j # 1
            BY <1>0, <3>1, <3>2
        <3>4. j - 1 \in 1 .. Len(queue') /\ (j - 1) + 1 = j
            BY <1>0, <2>1, <3>3
        <3>5. queue'[j - 1] = v
            BY <2>1, <3>2, <3>4
        <3> QED BY <3>4, <3>5
    <2>6. \A i, j \in 1 .. Len(queue') :
             i < j /\ queue'[i][1] = queue'[j][1] => queue'[i][2] < queue'[j][2]
        <3> SUFFICES ASSUME NEW i \in 1 .. Len(queue'), NEW j \in 1 .. Len(queue'),
                            i < j, queue'[i][1] = queue'[j][1]
                     PROVE  queue'[i][2] < queue'[j][2]
            OBVIOUS
        <3>1. /\ i + 1 \in 1 .. Len(queue) /\ j + 1 \in 1 .. Len(queue) /\ i + 1 < j + 1
              /\ queue'[i] = queue[i + 1] /\ queue'[j] = queue[j + 1]
            BY <1>0, <2>1
        <3> QED BY <3>1 DEF IInv, Order, QueueInOrder
    <2> QED BY <2>4, <2>5, <2>6 DEF QueueInOrder
<1>6. TakenInOrder'
    <2>1. \A v \in Events : state[v] \notin {"running", "ended"}
        BY DEF Take
    <2>2. \A v, w \in Events : state'[v] \in {"running", "ended"}
                               /\ state'[w] \in {"running", "ended"} => v = w
        BY <1>1, <2>1
    <2>3. ASSUME NEW v \in Events, NEW w \in Events, v[1] = w[1], v[2] < w[2],
                 state'[w] \in {"running", "ended", "done"}
          PROVE  state'[v] \in {"ended", "done", "dropped"}
        <3>1. CASE w = h
            \* Earlier events are neither new nor behind it in the queue.
            <4>1. v # h /\ state'[v] = state[v] /\ v[2] \in Nat /\ w[2] \in Nat
                BY <1>1, <2>3, <3>1, EventFacts
            <4>2. state[v] # "queued"
                <5> SUFFICES ASSUME state[v] = "queued" PROVE FALSE
                    OBVIOUS
                <5>1. PICK i \in 1 .. Len(queue) : queue[i] = v
                    BY DEF IInv, Order, QueueInOrder
                <5>2. 1 < i /\ queue[1][1] = queue[i][1]
                    BY <1>0, <2>3, <3>1, <4>1, <5>1
                <5>3. queue[1][2] < queue[i][2]
                    BY <1>0, <5>2 DEF IInv, Order, QueueInOrder
                <5> QED BY <1>0, <2>3, <3>1, <4>1, <5>1, <5>3
            <4>3. state[v] # "new"
                <5> SUFFICES ASSUME state[v] = "new" PROVE FALSE
                    OBVIOUS
                <5>1. v[2] > emitter[v[1]].event \/ (v[2] = emitter[v[1]].event)
                    BY EventFacts DEF IInv, Control, NewIsAhead, Current
                <5>2. emitter[w[1]].event \in Nat
                    BY EventFacts, QueueLimits DEF IInv, QueueTypeOK
                <5>3. state[w] = "new"
                    BY <2>3, <4>1, <5>1, <5>2 DEF IInv, Control, NewIsAhead
                <5> QED BY <1>0, <3>1, <5>3
            <4> QED BY <2>1, <4>1, <4>2, <4>3 DEF IInv, QueueTypeOK
        <3>2. CASE w # h
            <4>1. state[w] \in {"running", "ended", "done"}
                BY <1>1, <2>3, <3>2
            <4>2. state[v] \in {"ended", "done", "dropped"}
                BY <2>3, <4>1 DEF IInv, Order, TakenInOrder
            <4> QED BY <1>0, <1>1, <4>2
        <3> QED BY <3>1, <3>2
    <2> QED BY <2>2, <2>3 DEF TakenInOrder
<1>7. LogIsOver' /\ OrderIsKept'
    <2>1. \A i \in 1 .. Len(log) : log[i] \in Events
        BY DEF IInv, QueueTypeOK
    <2>2. \A i \in 1 .. Len(log) : state[log[i]] \in {"ended", "done"}
        BY DEF IInv, Order, LogIsOver
    <2>3. LogIsOver'
        <3> HIDE DEF h
        <3> QED BY <1>0, <1>1, <2>1, <2>2 DEF LogIsOver
    <2> QED BY <1>1, <2>3 DEF IInv, Order, OrderIsKept
<1>8. Flushed'
    <2> HIDE DEF h
    <2> QED BY <1>0, <1>1 DEF IInv, Flushed, FlushKnows, CleanFlushMissesNothing, Stray, Inside
<1>9. PermitsAreAccounted'
    <2>1. Held' = Held /\ Submitting' = Submitting
        <3> HIDE DEF h
        <3> QED BY <1>0, <1>1 DEF Held, Submitting, Accepted
    <2> QED BY <1>1, <2>1, PermitsKept DEF IInv
<1> QED BY <1>2, <1>3, <1>4, <1>5, <1>6, <1>7, <1>8, <1>9 DEF IInv, Order

\* The row is written or not; either way the event is over.
LEMMA RecordIInv == ASSUME IInv, NEW v \in Events, Record(v) PROVE IInv'
<1>0. /\ state[v] = "running"
      /\ state'[v] = IF v \in watched THEN "ended" ELSE "done"
      /\ \A w \in Events : w # v => state'[w] = state[w]
      /\ log' \in {log, Append(log, v)}
      /\ UNCHANGED <<emitter, permits, queue, watched, completed, pending, flush, stopped>>
    BY DEF IInv, QueueTypeOK, Control, CallbackIsLast, Record
<1>1. state'[v] \in {"ended", "done"}
    BY <1>0
<1>2. QueueTypeOK'
    <2>1. log' \in Seq(Events)
        <3>1. log \in Seq(Events)
            BY DEF IInv, QueueTypeOK
        <3>2. Append(log, v) \in Seq(Events)
            BY <3>1
        <3> QED BY <1>0, <3>1, <3>2
    <2>2. state' \in [Events -> {"new", "dropped", "queued", "running", "ended", "done"}]
        <3>1. \A x \in {"ended", "done"} :
                 [state EXCEPT ![v] = x]
                    \in [Events -> {"new", "dropped", "queued", "running", "ended", "done"}]
            BY DEF IInv, QueueTypeOK
        <3> QED BY <3>1 DEF Record
    <2> QED BY <1>0, <2>1, <2>2 DEF IInv, QueueTypeOK
<1>3. Control'
    <2>1. NewIsAhead'
        BY <1>0, <1>1 DEF IInv, Control, NewIsAhead, Current
    <2>2. EmitterHasItsEvent'
        <3>1. \A x \in Emitters : Inside(x) => Current(x) \in Events
            BY CurrentFacts DEF IInv, Control
        <3> QED BY <1>0, <1>1, <3>1 DEF IInv, Control, EmitterHasItsEvent, Inside, Current, Accepted
    <2>3. CallbackIsLast'
        BY <1>0 DEF IInv, QueueTypeOK, Control, CallbackIsLast, Accepted
    <2> QED BY <2>1, <2>2, <2>3 DEF Control
<1>4. Pending'
    BY <1>0, <1>1 DEF IInv, QueueTypeOK, Pending, QueuedIsPending, PendingIsUnderWay, Stray, Current
<1>5. QueueInOrder'
    <2>1. \A i \in 1 .. Len(queue) : queue[i] \in Events
        BY DEF IInv, QueueTypeOK
    <2>2. \A i \in 1 .. Len(queue) : queue[i] # v
        BY <1>0 DEF IInv, Order, QueueInOrder
    <2> QED BY <1>0, <1>1, <2>1, <2>2 DEF IInv, Order, QueueInOrder
<1>6. TakenInOrder'
    BY <1>0, <1>1 DEF IInv, Order, TakenInOrder
<1>7. LogIsOver' /\ OrderIsKept'
    <2>1. log \in Seq(Events) /\ Len(log) \in Nat /\ \A i \in 1 .. Len(log) : log[i] \in Events
        BY DEF IInv, QueueTypeOK
    <2>2. \A i \in 1 .. Len(log) : state[log[i]] \in {"ended", "done"} /\ log[i] # v
        BY <1>0 DEF IInv, Order, LogIsOver
    <2>3. CASE log' = log
        BY <1>0, <2>1, <2>2, <2>3 DEF IInv, Order, LogIsOver, OrderIsKept
    <2>4. CASE log' = Append(log, v)
        <3>1. /\ Len(log') = Len(log) + 1 /\ log'[Len(log')] = v
              /\ \A i \in 1 .. Len(log) : log'[i] = log[i]
            BY <2>1, <2>4
        <3>2. LogIsOver'
            BY <1>0, <1>1, <2>1, <2>2, <3>1 DEF LogIsOver
        <3>3. \A i \in 1 .. Len(log) : log[i][1] = v[1] => log[i][2] < v[2]
            <4> SUFFICES ASSUME NEW i \in 1 .. Len(log), log[i][1] = v[1], ~(log[i][2] < v[2])
                         PROVE  FALSE
                OBVIOUS
            <4>1. log[i][2] # v[2]
                <5>1. log[i] = <<log[i][1], log[i][2]>> /\ v = <<v[1], v[2]>>
                    BY <2>1, EventFacts
                <5> QED BY <2>2, <5>1
            <4>2. v[2] < log[i][2]
                BY <2>1, <4>1, EventFacts
            <4>3. state[v] \in {"ended", "done", "dropped"}
                BY <2>1, <2>2, <4>2 DEF IInv, Order, TakenInOrder
            <4> QED BY <1>0, <4>3
        <3>4. OrderIsKept'
            <4> SUFFICES ASSUME NEW i \in 1 .. Len(log'), NEW j \in 1 .. Len(log'), i < j,
                                log'[i][1] = log'[j][1]
                         PROVE  ~(log'[i][2] >= log'[j][2])
                BY DEF OrderIsKept
            <4>1. i \in 1 .. Len(log) /\ log'[i] = log[i] /\ log[i] \in Events
                BY <2>1, <3>1
            <4>2. CASE j = Len(log')
                <5>1. log[i][2] < v[2] /\ log[i][2] \in Nat /\ v[2] \in Nat
                    BY <3>1, <3>3, <4>1, <4>2, EventFacts
                <5> QED BY <3>1, <4>1, <4>2, <5>1
            <4>3. CASE j # Len(log')
                <5>1. j \in 1 .. Len(log) /\ log'[j] = log[j]
                    BY <2>1, <3>1, <4>3
                <5> QED BY <4>1, <5>1 DEF IInv, Order, OrderIsKept
            <4> QED BY <4>2, <4>3
        <3> QED BY <3>2, <3>4
    <2> QED BY <1>0, <2>3, <2>4
<1>8. Flushed'
    BY <1>0, <1>1 DEF IInv, Flushed, FlushKnows, CleanFlushMissesNothing, Stray, Inside
<1>9. PermitsAreAccounted'
    <2>1. Held' = Held /\ Submitting' = Submitting
        BY <1>0, <1>1 DEF Held, Submitting, Accepted
    <2> QED BY <1>0, <2>1, PermitsKept DEF IInv
<1> QED BY <1>2, <1>3, <1>4, <1>5, <1>6, <1>7, <1>8, <1>9 DEF IInv, Order

\* The end of the process touches the flush only.
LEMMA EndIInv == ASSUME IInv, Stop \/ Flush \/ FlushEnds PROVE IInv'
<1>1. UNCHANGED <<emitter, permits, queue, state, watched, completed, pending, log>>
    BY DEF Stop, Flush, FlushEnds
<1>2. QueueTypeOK'
    <2>1. \A s \in {"late", "clean"} :
             [flush EXCEPT !.step = s]
                \in [step : {"no", "wait", "clean", "late"}, waits : SUBSET Events,
                    busy : SUBSET Emitters]
        BY DEF IInv, QueueTypeOK
    <2>2. flush' \in [step : {"no", "wait", "clean", "late"}, waits : SUBSET Events,
                      busy : SUBSET Emitters]
          /\ stopped' \in BOOLEAN
        <3>1. CASE Stop
            BY <3>1 DEF IInv, QueueTypeOK, Stop
        <3>2. CASE Flush
            BY <3>2 DEF IInv, QueueTypeOK, Flush, Snapshot
        <3>3. CASE FlushEnds
            BY <3>3, <2>1 DEF IInv, QueueTypeOK, FlushEnds
        <3> QED BY <3>1, <3>2, <3>3
    <2> QED BY <1>1, <2>2 DEF IInv, QueueTypeOK
<1>3. Control' /\ Pending' /\ Order'
    BY <1>1 DEF IInv, Control, NewIsAhead, EmitterHasItsEvent, CallbackIsLast, Pending,
                QueuedIsPending, PendingIsUnderWay, Stray, Order, QueueInOrder, TakenInOrder, LogIsOver,
                OrderIsKept, Inside, Current
<1>4. Flushed'
    <2>1. CASE Stop
        BY <1>1, <2>1 DEF IInv, Stop, Flushed, FlushKnows, CleanFlushMissesNothing, Stray, Inside
    <2>2. CASE Flush
        <3>1. \A v \in Events \ Stray : state[v] \in {"queued", "running"} =>
                 v \in pending \/ v[1] \in {e \in Emitters : Inside(e)}
            BY EventFacts DEF IInv, Pending, QueuedIsPending, Stray, Inside
        <3>2. /\ flush'.step = "wait" /\ flush'.waits = pending /\ stopped' = stopped /\ stopped
              /\ flush'.busy = {e \in Emitters : Inside(e)}
            BY <2>2 DEF Flush, Snapshot
        <3> QED BY <1>1, <3>1, <3>2 DEF Flushed, FlushKnows, CleanFlushMissesNothing, Stray, Inside
    <2>3. CASE FlushEnds
        <3>1. /\ flush.step = "wait" /\ flush'.step \in {"late", "clean"}
              /\ flush'.waits = flush.waits /\ flush'.busy = flush.busy /\ stopped' = stopped
              /\ flush'.step = "clean" =>
                    \A v \in flush.waits : state[v] \in {"ended", "done"}
            BY <2>3 DEF IInv, QueueTypeOK, FlushEnds
        <3> QED BY <1>1, <3>1 DEF IInv, Flushed, FlushKnows, CleanFlushMissesNothing, Stray, Inside
    <2> QED BY <2>1, <2>2, <2>3
<1>5. PermitsAreAccounted'
    BY <1>1 DEF IInv, PermitsAreAccounted
<1> QED BY <1>2, <1>3, <1>4, <1>5 DEF IInv

LEMMA StutterIInv == ASSUME IInv, UNCHANGED queueVars PROVE IInv'
<1>1. QueueTypeOK' /\ PermitsAreAccounted'
    BY DEF IInv, QueueTypeOK, PermitsAreAccounted, queueVars
<1>2. Control' /\ Pending' /\ Order' /\ Flushed'
    BY DEF IInv, queueVars, Control, NewIsAhead, EmitterHasItsEvent, CallbackIsLast, Pending,
           QueuedIsPending, PendingIsUnderWay, Stray, Order, QueueInOrder, TakenInOrder, LogIsOver,
           OrderIsKept, Flushed, FlushKnows, CleanFlushMissesNothing, Inside, Current
<1> QED BY <1>1, <1>2 DEF IInv

LEMMA NextIInv == IInv /\ [QueueNext]_queueVars => IInv'
BY EmitStepIInv, SubmitIInv, AddIInv, WatchForIInv, TakeIInv, RecordIInv, CallbackIInv, EndIInv,
   StutterIInv
DEF QueueNext, EmitStep, Executor

LEMMA Invariance == QueueSpec => []IInv
BY InitIInv, NextIInv, PTL DEF QueueSpec

-----------------------------------------------------------------------------
\* The type invariant, for every number of threads, permits and events.
THEOREM QueueTypeCorrect == QueueSpec => []QueueTypeOK
<1>1. IInv => QueueTypeOK BY DEF IInv
<1> QED BY <1>1, Invariance, PTL

\* Refusals, failing rows and early ends lose no permit and return none twice.
THEOREM PermitsBalance == QueueSpec => []PermitsAreAccounted
<1>1. IInv => PermitsAreAccounted BY DEF IInv
<1> QED BY <1>1, Invariance, PTL

\* _PENDING holds nothing that was reported, although an event may be over
\* before it is put there.
THEOREM PendingIsCurrent == QueueSpec => []PendingIsUnderWay
<1>1. IInv => PendingIsUnderWay BY DEF IInv, Pending
<1> QED BY <1>1, Invariance, PTL

\* A flush that ends in time covers every event whose emit had returned.
THEOREM CleanFlushIsComplete == QueueSpec => []CleanFlushMissesNothing
<1>1. IInv => CleanFlushMissesNothing BY DEF IInv, Flushed
<1> QED BY <1>1, Invariance, PTL

\* The events of one thread are recorded in their order, none twice.
THEOREM RecordedInOrder == QueueSpec => []OrderIsKept
<1>1. IInv => OrderIsKept BY DEF IInv, Order
<1> QED BY <1>1, Invariance, PTL

-----------------------------------------------------------------------------
(* A handler that runs commands beside the queue it reports to.            *)

LEMMA StopStep == [StopNext]_stopVars => [Next]_vars /\ [QueueNext]_queueVars
<1> SUFFICES ASSUME [StopNext]_stopVars PROVE (Next \/ UNCHANGED vars) /\ (QueueNext \/ UNCHANGED queueVars)
  OBVIOUS
<1>1. CASE Command
  BY <1>1 DEF Command
<1>2. CASE Recorder \/ WorkerReturns \/ FlushPendingHooks
  BY <1>2 DEF Recorder, WorkerReturns, FlushPendingHooks, QueueNext
<1>3. CASE \E e \in Emitters : Report(e)
  BY <1>3 DEF Report, QueueNext
<1>4. CASE UNCHANGED stopVars
  BY <1>4 DEF stopVars
<1> QED BY <1>1, <1>2, <1>3, <1>4 DEF StopNext

\* The end of a worker is made of the two components' steps and keeps the
\* fairness of both: all that is proved of them holds while a handler runs
\* commands, other threads report and the main thread stops and flushes.
THEOREM StopIsBoth == StopSpec => Spec /\ QueueSpec
<1>1. StopInit => Init /\ QueueInit
  BY DEF StopInit
<1> QED BY <1>1, StopStep, PTL DEF StopSpec, Spec, QueueSpec

\* Rows and threads of both keep their types.
THEOREM StopTypeCorrect == StopSpec => []StopTypeOK
<1>1. TypeOK /\ QueueTypeOK => StopTypeOK
  BY DEF StopTypeOK
<1> QED BY <1>1, StopIsBoth, RunnerTypeCorrect, QueueTypeCorrect, PTL

\* A worker that stops in the middle of a command or of an emit loses no permit
\* of the hook's queue, a flush that ends in time has missed nothing, and no
\* command is reported as cancelled that nobody asked to cancel.
THEOREM StopIsClean ==
    StopSpec => [](PermitsAreAccounted /\ CleanFlushMissesNothing) /\ CancelWasAsked
BY StopIsBoth, PermitsBalance, CleanFlushIsComplete, CancelsWereAsked, PTL
=============================================================================
