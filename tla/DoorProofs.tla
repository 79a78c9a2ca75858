----------------------------- MODULE DoorProofs -----------------------------
(***************************************************************************)
(* Proofs about Door for every length of the open-once window.             *)
(***************************************************************************)
EXTENDS Door, TLAPS

\* door_task waits in its inner loop only while the door is open.
WindowIsOpen == pc = "inner" => state = "Open"

\* A poll that has taken the lock request has nothing left to take: the lock
\* signal comes last in the order of select3.
LockTakenLast ==
  cpu = "door" /\ "lock" \in served =>
    pending = {} /\ state = "Lock" /\ pc = "outer"

IInv == TypeOK /\ WindowIsOpen /\ LockTakenLast /\ LockWins

-----------------------------------------------------------------------------
\* What select3 resolves to is a pending request before which no other comes.
LEMMA LockIsLast ==
  ASSUME pending \subseteq Requests, Take("lock")
  PROVE  pending' = {}
<1>1. SelectOrder["lock"] = 3 /\ SelectOrder["open"] = 1 /\ SelectOrder["once"] = 2
  BY DEF SelectOrder
<1>2. "open" \notin pending /\ "once" \notin pending
  BY <1>1 DEF Take
<1> QED BY <1>2 DEF Take, Requests

\* The controller starts with its invariant.
LEMMA InitIInv == Init => IInv
  BY DelayAssumption
     DEF Init, IInv, TypeOK, WindowIsOpen, LockTakenLast, LockWins, Requests

\* Every step of the controller keeps it.
LEMMA NextIInv == IInv /\ [Next]_vars => IInv'
<1> SUFFICES ASSUME IInv, [Next]_vars PROVE IInv'
  OBVIOUS
<1> USE DEF IInv, WindowIsOpen, LockTakenLast, LockWins, doorVars, buttonVars
<1>1. TypeOK'
  <2> USE DelayAssumption DEF TypeOK, Requests
  <2>1. CASE \E r \in Requests : HttpRequest(r)
    BY <2>1 DEF HttpRequest
  <2>2. CASE Press
    BY <2>2 DEF Press
  <2>3. CASE Release
    BY <2>3 DEF Release
  <2>4. CASE ButtonSignal
    BY <2>4 DEF ButtonSignal
  <2>5. CASE ButtonRearm
    BY <2>5 DEF ButtonRearm
  <2>6. CASE Wake
    BY <2>6 DEF Wake
  <2>7. CASE OuterOpen
    BY <2>7 DEF OuterOpen, Take
  <2>8. CASE OuterOnce
    <3>1. CASE state = "Lock"
      BY <2>8, <3>1 DEF OuterOnce, Take
    <3>2. CASE state # "Lock"
      BY <2>8, <3>2 DEF OuterOnce, Take
    <3> QED BY <3>1, <3>2
  <2>9. CASE OuterLock
    BY <2>9 DEF OuterLock, Take
  <2>10. CASE InnerOpen
    BY <2>10 DEF InnerOpen, Take
  <2>11. CASE InnerOnce
    BY <2>11 DEF InnerOnce, Take
  <2>12. CASE InnerLock
    BY <2>12 DEF InnerLock, Take
  <2>13. CASE InnerTimeout
    BY <2>13 DEF InnerTimeout, Expired
  <2>14. CASE Sleep
    BY <2>14 DEF Sleep
  <2>15. CASE Tick
    BY <2>15 DEF Tick
  <2>16. CASE Restart
    BY <2>16 DEF Restart
  <2>17. CASE UNCHANGED vars
    BY <2>17 DEF vars
  <2> QED BY <2>1, <2>2, <2>3, <2>4, <2>5, <2>6, <2>7, <2>8, <2>9,
             <2>10, <2>11, <2>12, <2>13, <2>14, <2>15, <2>16, <2>17
          DEF Next, DoorStep
<1>2. (WindowIsOpen /\ LockTakenLast /\ LockWins)'
  <2>1. CASE \E r \in Requests : HttpRequest(r)
    BY <2>1 DEF HttpRequest
  <2>2. CASE Press \/ Release \/ ButtonSignal \/ ButtonRearm
    BY <2>2 DEF Press, Release, ButtonSignal, ButtonRearm
  <2>3. CASE Wake \/ Sleep \/ Tick \/ Restart
    BY <2>3 DEF Wake, Sleep, Tick, Restart
  <2>4. CASE OuterOpen \/ OuterOnce
    BY <2>4 DEF OuterOpen, OuterOnce, Take
  <2>5. CASE OuterLock
    BY <2>5, LockIsLast DEF OuterLock, Take, TypeOK
  <2>6. CASE InnerOpen \/ InnerOnce \/ InnerTimeout
    BY <2>6 DEF InnerOpen, InnerOnce, InnerTimeout, Take, Expired
  <2>7. CASE InnerLock
    BY <2>7, LockIsLast DEF InnerLock, Take, TypeOK
  <2>8. CASE UNCHANGED vars
    BY <2>8 DEF vars
  <2> QED BY <2>1, <2>2, <2>3, <2>4, <2>5, <2>6, <2>7, <2>8 DEF Next, DoorStep
<1> QED BY <1>1, <1>2

\* It holds in every reachable state.
LEMMA Invariance == Spec => []IInv
  BY InitIInv, NextIInv, PTL DEF Spec

\* The variables of the controller keep their types.
THEOREM DoorTypeCorrect == Spec => []TypeOK
<1>1. IInv => TypeOK  BY DEF IInv
<1> QED BY <1>1, Invariance, PTL

\* A poll of door_task that takes a lock request ends with the door locked,
\* whatever requests arrived with it and in whatever order.
THEOREM DoorLockWins == Spec => []LockWins
<1>1. IInv => LockWins  BY DEF IInv
<1> QED BY <1>1, Invariance, PTL

\* A held door is released from that only by a lock request or a restart.
THEOREM DoorHeldUntilLocked == Spec => HeldUntilLocked
<1>1. ASSUME IInv, [Next]_vars
      PROVE  [Mode = "held" /\ Mode' # "held" => "lock" \in pending \/ Restart]_vars
  <2> SUFFICES ASSUME Mode = "held", Mode' # "held", ~Restart
               PROVE  "lock" \in pending
    BY <1>1
  <2>1. pc = "outer" /\ state = "Open"
    BY <1>1 DEF Mode, IInv, TypeOK
  <2>2. ~UNCHANGED <<pc, state>>
    BY DEF Mode
  <2> USE <1>1, <2>1, <2>2 DEF doorVars, buttonVars
  <2>3. CASE DoorStep
    BY <2>3 DEF DoorStep, OuterOpen, OuterOnce, OuterLock, InnerOpen, InnerOnce,
                InnerLock, InnerTimeout, Sleep, Take, Expired, Mode
  <2>4. CASE ~DoorStep
    BY <2>4 DEF Next, vars, HttpRequest, Press, Release, ButtonSignal,
                ButtonRearm, Wake, Tick
  <2> QED BY <2>3, <2>4
<1> QED BY <1>1, Invariance, PTL DEF Spec, HeldUntilLocked

-----------------------------------------------------------------------------
\* The controller starts where the abstract door does.
LEMMA InitAbstract == Init => Abstract!AbsInit
  BY DEF Init, Mode, Abstract!AbsInit

\* Every step is one of the abstract door, or leaves it as it is.
LEMMA StepAbstract ==
  IInv /\ [Next]_vars => [Abstract!AbsNext]_(Abstract!absVars)
<1> SUFFICES ASSUME IInv, [Next]_vars,
                    ~UNCHANGED <<Mode, remaining, pending>>
             PROVE  Abstract!AbsNext
  BY DEF Abstract!absVars
<1> USE DelayAssumption DEF IInv, TypeOK, WindowIsOpen, Mode, doorVars, buttonVars
<1>1. ASSUME NEW r \in Requests, HttpRequest(r) PROVE Abstract!AbsNext
  BY <1>1 DEF HttpRequest, Requests, Abstract!AbsNext, Abstract!Want
<1>2. ASSUME ButtonSignal PROVE Abstract!AbsNext
  BY <1>2 DEF ButtonSignal, Abstract!AbsNext, Abstract!Want
<1>3. ASSUME OuterOpen \/ InnerOpen PROVE Abstract!AbsNext
  <2>1. Abstract!Hold
    BY <1>3 DEF OuterOpen, InnerOpen, Take, Abstract!Hold, Abstract!Served
  <2> QED BY <2>1 DEF Abstract!AbsNext
<1>4. ASSUME OuterOnce \/ InnerOnce PROVE Abstract!AbsNext
  <2>1. Abstract!Pulse
    BY <1>4 DEF OuterOnce, InnerOnce, Take, Abstract!Pulse, Abstract!Served
  <2> QED BY <2>1 DEF Abstract!AbsNext
<1>5. ASSUME OuterLock \/ InnerLock PROVE Abstract!AbsNext
  <2>1. Abstract!Relock
    BY <1>5 DEF OuterLock, InnerLock, Take, Abstract!Relock, Abstract!Served
  <2> QED BY <2>1 DEF Abstract!AbsNext
<1>6. ASSUME InnerTimeout PROVE Abstract!AbsNext
  <2>1. Abstract!Close
    BY <1>6 DEF InnerTimeout, Expired, Abstract!Close
  <2> QED BY <2>1 DEF Abstract!AbsNext
<1>7. ASSUME Tick PROVE Abstract!AbsNext
  <2>1. Abstract!Lapse
    BY <1>7 DEF Tick, Abstract!Lapse
  <2> QED BY <2>1 DEF Abstract!AbsNext
<1>8. ASSUME Restart PROVE Abstract!AbsNext
  <2>1. Abstract!PowerUp
    BY <1>8 DEF Restart, Abstract!PowerUp
  <2> QED BY <2>1 DEF Abstract!AbsNext
<1>9. ~(Press \/ Release \/ ButtonRearm \/ Wake \/ Sleep \/ UNCHANGED vars)
  BY DEF Press, Release, ButtonRearm, Wake, Sleep, vars
<1> QED BY <1>1, <1>2, <1>3, <1>4, <1>5, <1>6, <1>7, <1>8, <1>9 DEF Next, DoorStep

\* The controller implements the abstract door: task switches, poll order and
\* timers never show as anything but one of its steps.
THEOREM DoorImplementsAbstract == Spec => ImplementsDoor
  BY InitAbstract, StepAbstract, Invariance, PTL
     DEF Spec, ImplementsDoor, Abstract!AbsSpec
=============================================================================
