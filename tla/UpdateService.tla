--------------------------- MODULE UpdateService ---------------------------
(***************************************************************************)
(* What updates promise, without sectors, tasks, inspections and records:  *)
(* a slot holds a whole image or none.  An upload takes its slot's image   *)
(* away as it begins, puts its own there whole or not at all, and excludes *)
(* other uploads and the countdown that ends in a boot of the selection.   *)
(***************************************************************************)
EXTENDS Naturals

CONSTANTS
  Slots,              \* the slots, 0 is factory
  Images,
  Startable,          \* images the bootloader starts
  CountdownSeconds,
  None

VARIABLES
  holds,              \* the image in each slot, None without a whole one
  jobs,               \* the uploads: a slot and the image to come, None after that
  next,               \* the slot selected for the next boot
  booted,             \* the slot known to be running, or None
  countdown           \* seconds to the reset, or None

svcVars == <<holds, jobs, next, booted, countdown>>

Starts(i) == holds[i] \in Startable

SvcInit ==
  /\ holds \in [Slots -> Images \cup {None}] /\ Starts(0)
  /\ jobs = {} /\ next = 0 /\ booted \in {0, None} /\ countdown = None

Quiet == jobs = {} /\ countdown = None

Open(i) == Quiet /\ i # 0 /\ i # booted /\ UNCHANGED <<next, booted, countdown>>

Begin(i, img) ==
  /\ Open(i) /\ jobs' = {[slot |-> i, image |-> img]}
  /\ holds' = [holds EXCEPT ![i] = None]

\* The slot could not be erased and is looked at again.
BeginInVain(i) == Open(i) /\ jobs' = {[slot |-> i, image |-> None]} /\ UNCHANGED holds

Commit(j) ==
  /\ j.image # None /\ jobs' = {[slot |-> j.slot, image |-> None]}
  /\ holds' = [holds EXCEPT ![j.slot] = j.image]
  /\ UNCHANGED <<next, booted, countdown>>

\* It fails, or it has nothing left to do.
Abandon(j) ==
  /\ jobs' = {[slot |-> j.slot, image |-> None]} \/ jobs' = {}
  /\ UNCHANGED <<holds, next, booted, countdown>>

Select(i) ==
  /\ Quiet /\ next' = i /\ countdown' = CountdownSeconds
  /\ UNCHANGED <<holds, jobs, booted>>

SelectFails(i) == Quiet /\ next' = i /\ UNCHANGED <<holds, jobs, booted, countdown>>

Count ==
  /\ countdown # None /\ countdown > 1 /\ countdown' = countdown - 1
  /\ UNCHANGED <<holds, jobs, next, booted>>

GiveUp == countdown = 1 /\ countdown' = None /\ UNCHANGED <<holds, jobs, next, booted>>

\* At the end of a countdown, or at any time, with the selection or without it.
StartUp(choice) ==
  /\ next' = choice
  /\ \E i \in Slots : /\ IF Starts(choice) THEN i = choice ELSE Starts(i)
                      /\ booted' \in {i, None}
  /\ jobs' = {} /\ countdown' = None /\ UNCHANGED holds

SvcNext ==
  \/ \E i \in Slots : Select(i) \/ SelectFails(i) \/ BeginInVain(i)
                        \/ \E img \in Images : Begin(i, img)
  \/ \E j \in jobs : Commit(j) \/ Abandon(j)
  \/ Count \/ GiveUp \/ StartUp(next) \/ StartUp(0)

SvcSpec == SvcInit /\ [][SvcNext]_svcVars
=============================================================================
