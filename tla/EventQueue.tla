----------------------------- MODULE EventQueue -----------------------------
(***************************************************************************)
(* ConcreteEventQueue (src/src/core/event_queue.hpp): a deque under a      *)
(* mutex, and a condition variable on which Pop waits. The mutex is never  *)
(* held across a step of another thread (cv.wait gives it up), so each     *)
(* critical section is one action; Push notifies after its unlock, and     *)
(* wakeups may be spurious.                                                *)
(***************************************************************************)
EXTENDS Integers, Sequences

CONSTANTS
  Producers,  \* threads that call Push
  Consumers,  \* threads that call Pop, again and again
  Event,      \* what is pushed
  MaxPushes   \* bound: Push calls

ASSUME QueueAssumption == Consumers # {} /\ MaxPushes \in Nat

VARIABLES
  events,     \* the deque
  notifying,  \* producers between the unlock and notify_one
  waiting,    \* consumers blocked in cv.wait
  pushed,     \* history: the events in the order of Push
  popped      \* history: the events in the order of Pop

queueVars == <<events, notifying, waiting, pushed, popped>>

QueueInit ==
  /\ events = <<>> /\ notifying = {} /\ waiting = {}
  /\ pushed = <<>> /\ popped = <<>>

-----------------------------------------------------------------------------
\* Mutant: nobody is notified.
PushSilently(p, e) ==
  /\ p \notin notifying
  /\ Len(pushed) < MaxPushes
  /\ events' = Append(events, e)
  /\ pushed' = Append(pushed, e)
  /\ UNCHANGED <<notifying, waiting, popped>>

\* Push: the critical section
Push(p, e) ==
  /\ p \notin notifying
  /\ Len(pushed) < MaxPushes
  /\ events' = Append(events, e)
  /\ pushed' = Append(pushed, e)
  /\ notifying' = notifying \cup {p}
  /\ UNCHANGED <<waiting, popped>>

\* and notify_one: some waiting consumer, if there is one, wakes up.
NotifyOne(p) ==
  /\ p \in notifying
  /\ notifying' = notifying \ {p}
  /\ IF waiting = {} THEN UNCHANGED waiting ELSE \E c \in waiting : waiting' = waiting \ {c}
  /\ UNCHANGED <<events, pushed, popped>>

\* Mutant: the last event is taken.
TakeBack(q) == [event |-> q[Len(q)], rest |-> SubSeq(q, 1, Len(q) - 1)]

\* events.front(), events.pop_front()
Take(q) == [event |-> Head(q), rest |-> Tail(q)]

\* Pop, first called or woken up: the predicate decides.
Pop(c) ==
  /\ c \notin waiting
  /\ events # <<>>
  /\ events' = Take(events).rest
  /\ popped' = Append(popped, Take(events).event)
  /\ UNCHANGED <<notifying, waiting, pushed>>

Wait(c) ==
  /\ c \notin waiting
  /\ events = <<>>
  /\ waiting' = waiting \cup {c}
  /\ UNCHANGED <<events, notifying, pushed, popped>>

SpuriousWakeup(c) ==
  /\ c \in waiting
  /\ waiting' = waiting \ {c}
  /\ UNCHANGED <<events, notifying, pushed, popped>>

-----------------------------------------------------------------------------
QueueNext ==
  \/ \E p \in Producers : NotifyOne(p) \/ \E e \in Event : Push(p, e)
  \/ \E c \in Consumers : Pop(c) \/ Wait(c) \/ SpuriousWakeup(c)

QueueSpec == QueueInit /\ [][QueueNext]_queueVars

\* Threads run. Nothing is assumed of spurious wakeups, nor that anything
\* is ever pushed.
FairQueue ==
  /\ QueueSpec
  /\ \A p \in Producers : WF_queueVars(NotifyOne(p))
  /\ \A c \in Consumers : WF_queueVars(Pop(c) \/ Wait(c))

-----------------------------------------------------------------------------
\* Consumers together take each event once and in the order of the pushes.
Fifo == pushed = popped \o events

\* No lost wakeup: if there is an event, some consumer is on its way to it,
\* or a notification that will wake one is.
NoLostWakeup == events # <<>> => waiting # Consumers \/ notifying # {}

\* Every event pushed is popped, with no further Push and no luck.
EventsPopped == \A n \in 1..MaxPushes : Len(pushed) >= n ~> Len(popped) >= n
=============================================================================
