------------------------------- MODULE EventQueue -------------------------------
(***************************************************************************)
(* The queue between the threads of a process and its event loop: classes   *)
(* EventQueue and EventLoop of src/lib/event.cpp.  A critical section of    *)
(* m_mutex is one step; a wait on m_cond ends one and begins another.       *)
(*                                                                         *)
(* What an event is and what handling one does is up to the module that     *)
(* extends this one.                                                        *)
(***************************************************************************)
EXTENDS Naturals, Sequences

CONSTANTS Worker    \* the threads of the event loop; the program starts one

VARIABLES
    events,     \* m_events
    stopped,    \* m_stopped
    worker,     \* where each thread of the loop is
    taken       \* the event a thread of the loop got from pop, or <<>>

queueVars == <<events, stopped, worker, taken>>

\* "popping": about to take m_mutex; "waiting": on m_cond; "handling" an event;
\* "left": run has returned.
WorkerState == {"popping", "waiting", "handling", "left"}

QueueInit ==
    /\ events = <<>>
    /\ stopped = FALSE
    /\ worker = [w \in Worker |-> "popping"]
    /\ taken = [w \in Worker |-> <<>>]

Waiting == {w \in Worker : worker[w] = "waiting"}

\* Mutant of NotifyOne: a notification only when there were events already.
NotifyIfBusy ==
    IF events # <<>> /\ Waiting # {}
    THEN \E w \in Waiting : worker' = [worker EXCEPT ![w] = "popping"]
    ELSE UNCHANGED worker

NotifyOne ==
    IF Waiting # {}
    THEN \E w \in Waiting : worker' = [worker EXCEPT ![w] = "popping"]
    ELSE UNCHANGED worker

\* append, also after stop.
QueueAppend(event) ==
    /\ events' = Append(events, event)
    /\ NotifyOne
    /\ UNCHANGED <<stopped, taken>>

\* The loop of pop with m_mutex held: nullptr once the queue is stopped, events
\* or not, and then run ends.
Pop(w) ==
    /\ worker[w] = "popping"
    /\ \/ /\ stopped
          /\ worker' = [worker EXCEPT ![w] = "left"]
          /\ UNCHANGED <<events, taken>>
       \/ /\ ~stopped /\ events # <<>>
          /\ events' = Tail(events)
          /\ taken' = [taken EXCEPT ![w] = Head(events)]
          /\ worker' = [worker EXCEPT ![w] = "handling"]
       \/ /\ ~stopped /\ events = <<>>
          /\ worker' = [worker EXCEPT ![w] = "waiting"]
          /\ UNCHANGED <<events, taken>>
    /\ UNCHANGED stopped

\* A condition variable may wake its waiters for no reason.
WakeSpuriously(w) ==
    /\ worker[w] = "waiting"
    /\ worker' = [worker EXCEPT ![w] = "popping"]
    /\ UNCHANGED <<events, stopped, taken>>

\* The handler has returned true, as ClusterLoop::handle always does.
Handled(w) ==
    /\ worker[w] = "handling"
    /\ worker' = [worker EXCEPT ![w] = "popping"]
    /\ taken' = [taken EXCEPT ![w] = <<>>]
    /\ UNCHANGED <<events, stopped>>

\* Mutant of Stop: the waiting threads are not woken.
StopSilently ==
    /\ stopped' = TRUE
    /\ UNCHANGED <<events, worker, taken>>

\* stop, with notify_all.
Stop ==
    /\ stopped' = TRUE
    /\ worker' = [w \in Worker |-> IF w \in Waiting THEN "popping" ELSE worker[w]]
    /\ UNCHANGED <<events, taken>>

\* waitForThreads can return.
ThreadsEnded == \A w \in Worker : worker[w] = "left"

\* ~EventQueue: what nobody popped is deleted.
Drained ==
    /\ events' = <<>>
    /\ UNCHANGED <<stopped, worker, taken>>

=============================================================================
