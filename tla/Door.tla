------------------------------- MODULE Door ---------------------------------
(***************************************************************************)
(* The door controller: door_task, the three signals it waits for, and the *)
(* tasks that raise them (the HTTP handlers and button_task).              *)
(*                                                                         *)
(* Firmware tasks share one cooperative executor.  A task that is polled   *)
(* runs until every future it awaits is pending, so the HTTP handlers and  *)
(* the button can raise signals only while door_task is not being polled   *)
(* (cpu = "other"); timers and pins change at any time.                    *)
(***************************************************************************)
EXTENDS Naturals

CONSTANT Delay      \* DOOR_OPEN_ONCE_DELAY, in timer ticks

ASSUME DelayAssumption == Delay \in Nat

VARIABLES
  state,            \* DoorState; the lock pin is written with it
  pc,               \* the select3 door_task waits in: "outer" or "inner"
  pending,          \* the signals that hold a value
  remaining,        \* ticks left of the with_timeout of the inner select3
  cpu,              \* "door" while door_task is being polled, else "other"
  level,            \* level of the button pin (pulled up)
  button,           \* button_task: awaits an "edge", has "fired", awaits "high"
  served            \* history: the signals door_task took in its last poll

vars == <<state, pc, pending, remaining, cpu, level, button, served>>

doorVars == <<state, pc, remaining>>
buttonVars == <<level, button>>

Requests == {"open", "once", "lock"}

\* select3 polls its futures in argument order and takes the first ready one.
LockFirst == [open |-> 2, once |-> 3, lock |-> 1]      \* mutant
SelectOrder == [open |-> 1, once |-> 2, lock |-> 3]

Mode == IF state = "Lock" THEN "locked"
        ELSE IF pc = "outer" THEN "held" ELSE "timed"

Init ==
  /\ state = "Lock" /\ pc = "outer" /\ remaining = 0
  /\ pending = {} /\ cpu = "other" /\ served = {}
  /\ level \in {"low", "high"} /\ button = "edge"

-----------------------------------------------------------------------------
(* The sources of requests *)

\* GET /setopen?state=1, GET /open and GET /setopen?state=0 raise one signal
\* each; a signal that is raised twice before it is taken is taken once.
HttpRequest(r) ==
  /\ cpu = "other"
  /\ pending' = pending \cup {r}
  /\ UNCHANGED <<doorVars, cpu, buttonVars, served>>

\* The falling edge is caught only while button_task waits for one.
Press ==
  /\ level = "high"
  /\ level' = "low"
  /\ button' = IF button = "edge" THEN "fired" ELSE button
  /\ UNCHANGED <<doorVars, pending, cpu, served>>

Release ==
  /\ level = "low"
  /\ level' = "high"
  /\ UNCHANGED <<doorVars, pending, cpu, button, served>>

ButtonSignal ==
  /\ cpu = "other" /\ button = "fired"
  /\ button' = "high"
  /\ pending' = pending \cup {"once"}
  /\ UNCHANGED <<doorVars, cpu, level, served>>

ButtonNoWait ==      \* mutant: waits for a low level, not for release and edge
  /\ cpu = "other" /\ button = "high"
  /\ button' = IF level = "low" THEN "fired" ELSE "edge"
  /\ UNCHANGED <<doorVars, pending, cpu, level, served>>

ButtonRearm ==
  /\ cpu = "other" /\ button = "high" /\ level = "high"
  /\ button' = "edge"
  /\ UNCHANGED <<doorVars, pending, cpu, level, served>>

-----------------------------------------------------------------------------
(* door_task *)

Expired == pc = "inner" /\ remaining = 0

WakeBySignal ==      \* mutant: the inner select3 waits without a timeout
  /\ cpu = "other" /\ pending # {}
  /\ cpu' = "door" /\ served' = {}
  /\ UNCHANGED <<doorVars, pending, buttonVars>>

\* The executor polls door_task once a signal or its timer has woken it.
Wake ==
  /\ cpu = "other"
  /\ pending # {} \/ Expired
  /\ cpu' = "door" /\ served' = {}
  /\ UNCHANGED <<doorVars, pending, buttonVars>>

Take(r) ==
  /\ cpu = "door" /\ r \in pending
  /\ \A q \in pending : SelectOrder[r] <= SelectOrder[q]
  /\ pending' = pending \ {r}
  /\ served' = served \cup {r}
  /\ UNCHANGED <<cpu, buttonVars>>

OuterOpen ==
  /\ pc = "outer" /\ Take("open")
  /\ state' = "Open"
  /\ UNCHANGED <<pc, remaining>>

OuterOnceUnguarded ==      \* mutant: no test of the status
  /\ pc = "outer" /\ Take("once")
  /\ state' = "Open" /\ pc' = "inner" /\ remaining' = Delay

\* The guard of the second arm fails when the door is held: the signal is gone.
OuterOnce ==
  /\ pc = "outer" /\ Take("once")
  /\ IF state = "Lock"
       THEN state' = "Open" /\ pc' = "inner" /\ remaining' = Delay
       ELSE UNCHANGED doorVars

OuterLockDropped ==      \* mutant: the third arm is missing
  /\ pc = "outer" /\ Take("lock")
  /\ UNCHANGED doorVars

OuterLock ==
  /\ pc = "outer" /\ Take("lock")
  /\ state' = "Lock"
  /\ UNCHANGED <<pc, remaining>>

\* continue 'door, without locking: the door stays open.
InnerOpen ==
  /\ pc = "inner" /\ Take("open")
  /\ pc' = "outer" /\ remaining' = 0
  /\ UNCHANGED state

InnerOnceExtends ==      \* mutant: the rest of the old window is added
  /\ pc = "inner" /\ Take("once")
  /\ remaining' = remaining + Delay
  /\ UNCHANGED <<state, pc>>

InnerOnceKeepsTimer ==      \* mutant: one with_timeout for the whole loop
  /\ pc = "inner" /\ Take("once")
  /\ UNCHANGED doorVars

\* continue: the loop builds a new with_timeout.
InnerOnce ==
  /\ pc = "inner" /\ Take("once")
  /\ remaining' = Delay
  /\ UNCHANGED <<state, pc>>

InnerLock ==
  /\ pc = "inner" /\ Take("lock")
  /\ state' = "Lock" /\ pc' = "outer" /\ remaining' = 0

\* with_timeout polls the lock signal before its timer.
InnerTimeout ==
  /\ cpu = "door" /\ Expired /\ pending = {}
  /\ state' = "Lock" /\ pc' = "outer"
  /\ UNCHANGED <<remaining, pending, cpu, buttonVars, served>>

\* Every future is pending: the poll ends.
Sleep ==
  /\ cpu = "door" /\ pending = {} /\ ~Expired
  /\ cpu' = "other"
  /\ UNCHANGED <<doorVars, pending, buttonVars, served>>

-----------------------------------------------------------------------------
Tick ==
  /\ pc = "inner" /\ remaining > 0
  /\ remaining' = remaining - 1
  /\ UNCHANGED <<state, pc, pending, cpu, buttonVars, served>>

\* A panic or a power cut: main drives the pin low and starts the tasks anew.
Restart ==
  /\ state' = "Lock" /\ pc' = "outer" /\ remaining' = 0
  /\ pending' = {} /\ cpu' = "other" /\ served' = {}
  /\ button' = "edge" /\ UNCHANGED level

DoorStep == OuterOpen \/ OuterOnce \/ OuterLock
              \/ InnerOpen \/ InnerOnce \/ InnerLock \/ InnerTimeout \/ Sleep

Next ==
  \/ \E r \in Requests : HttpRequest(r)
  \/ Press \/ Release \/ ButtonSignal \/ ButtonRearm
  \/ Wake \/ DoorStep \/ Tick \/ Restart

\* The executor polls every task that was woken, and time passes.
Fairness == WF_vars(Wake) /\ WF_vars(DoorStep) /\ WF_vars(Tick)

Spec == Init /\ [][Next]_vars /\ Fairness

-----------------------------------------------------------------------------
(* Properties *)

\* The variables have their types, and the timer runs only in a window.
TypeOK ==
  /\ state \in {"Lock", "Open"} /\ pc \in {"outer", "inner"}
  /\ pending \subseteq Requests /\ served \subseteq Requests
  /\ remaining \in 0..Delay /\ (pc = "outer" => remaining = 0)
  /\ cpu \in {"door", "other"}
  /\ level \in {"low", "high"} /\ button \in {"edge", "fired", "high"}

\* A poll of door_task that took a lock request leaves the door locked, no
\* matter what else was pending: select3 polls lock_signal last in both loops.
LockWins == cpu = "other" /\ "lock" \in served => state = "Lock"

\* A door that is held is released from that only by a lock request or a
\* restart: neither an expired window nor a spent open-once relocks it.
HeldUntilLocked ==
  [][Mode = "held" /\ Mode' # "held" => "lock" \in pending \/ Restart]_vars

\* The controller implements the abstract door.
Abstract == INSTANCE DoorAbstract
              WITH mode <- Mode, window <- remaining, wanted <- pending
ImplementsDoor == Abstract!AbsSpec

\* A lock request is obeyed, however often the other requests are repeated.
LockObeyed == "lock" \in pending ~> state = "Lock"

\* Once open-once requests stop coming, a window ends: the inner loop has a
\* timeout, and it is only restarted by another request.
WindowCloses == <>[]("once" \notin pending) => []<>(Mode # "timed")

\* A button that is kept down (or stuck) is one request: it cannot hold the
\* door in its window once the other source of open-once requests is quiet.
StuckButtonCloses ==
  <>[](level = "low") /\ <>[][~HttpRequest("once")]_vars => []<>(Mode # "timed")
=============================================================================
