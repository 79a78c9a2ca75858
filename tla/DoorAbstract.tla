---------------------------- MODULE DoorAbstract ----------------------------
(***************************************************************************)
(* What the door promises, without tasks, signals or timers: it is locked, *)
(* held open, or open for a window of Delay ticks.  Requests wait until    *)
(* they are served; nothing is said about the order in which requests that *)
(* wait together are served.                                               *)
(***************************************************************************)
EXTENDS Naturals

CONSTANT Delay      \* length of an open-once window

VARIABLES
  mode,             \* "locked", "held" or "timed"
  window,           \* ticks the window still lasts, 0 unless timed
  wanted            \* requests that wait to be served

absVars == <<mode, window, wanted>>

AbsInit == mode = "locked" /\ window = 0 /\ wanted = {}

Want(r) == wanted' = wanted \cup {r} /\ UNCHANGED <<mode, window>>

Served(r) == r \in wanted /\ wanted' = wanted \ {r}

Hold  == Served("open") /\ mode' = "held" /\ window' = 0

\* A door that is held is already open: the request is spent without effect.
Pulse == /\ Served("once")
         /\ IF mode = "held" THEN UNCHANGED <<mode, window>>
                             ELSE mode' = "timed" /\ window' = Delay

Relock == Served("lock") /\ mode' = "locked" /\ window' = 0

Lapse == mode = "timed" /\ window > 0 /\ window' = window - 1 /\ UNCHANGED <<mode, wanted>>

Close == mode = "timed" /\ window = 0 /\ mode' = "locked" /\ UNCHANGED <<window, wanted>>

\* A restarted device comes up locked and has forgotten every request.
PowerUp == mode' = "locked" /\ window' = 0 /\ wanted' = {}

AbsNext == \/ \E r \in {"open", "once", "lock"} : Want(r)
           \/ Hold \/ Pulse \/ Relock \/ Lapse \/ Close \/ PowerUp

AbsSpec == AbsInit /\ [][AbsNext]_absVars
=============================================================================
