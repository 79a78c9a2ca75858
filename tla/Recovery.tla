------------------------------ MODULE Recovery ------------------------------
(***************************************************************************)
(* Which image the device boots: the OTA data that activate and the panic  *)
(* handler write, the panic counter in the RTC register, and the way up    *)
(* through bootloader, factory_request and System::init, with panics,      *)
(* power cuts and failing flash at any step.                               *)
(*                                                                         *)
(* The OTA data are two sectors, each blank or holding a sequence number;  *)
(* the greater one selects the OTA slot it stands for modulo the number of *)
(* slots.  An entry is written in two operations, its number and then its  *)
(* state.  A power cut comes between two operations or spoils the sector   *)
(* of one; one that fails leaves its sector as it was or erased.           *)
(***************************************************************************)
EXTENDS Integers, Sequences

CONSTANTS
  OtaSlots,           \* number of OTA slots; slot 0 is the factory image
  PanicRetry,         \* PANIC_RETRY
  Refused,            \* OTA slots whose image the bootloader refuses
  Crashing,           \* OTA slots whose image panics whenever it runs
  MaxSeq,             \* bound on the sequence numbers, for model checking
  Blank, Garbage,     \* an erased sector; one whose entry cannot be read
  Request, Unset      \* FACTORY_REQUEST; any other value of the register

\* A PANIC_RETRY of 0 would leave custom_halt with an empty range pattern.
ASSUME RecoveryAssumption ==
  /\ OtaSlots \in Nat \ {0} /\ PanicRetry \in Nat \ {0} /\ MaxSeq \in Nat
  /\ Refused \subseteq 1..OtaSlots /\ Crashing \subseteq 1..OtaSlots
  /\ {Blank, Garbage, Request, Unset} \cap Int = {}
  /\ Blank # Garbage /\ Request # Unset

VARIABLES
  count,              \* store7, the panic counter
  ota,                \* the two sectors of the OTA data
  running,            \* the slot the bootloader started
  stage,              \* how far the device has come, see below
  ops,                \* flash operations still to do in this stage
  target,             \* the slot being activated
  usable,             \* ota_entry is Some
  checked,            \* history: System::init was able to look at the OTA data
  panics,             \* history: panics since the counter was last cleared
  old,                \* history: the selection before the latest activation
  fresh,              \* history: switched, and not booted since
  cut                 \* history: flips with every power cut

hist == <<checked, panics, old, fresh, cut>>
vars == <<count, ota, running, stage, ops, target, usable, hist>>

\* loader: the bootloader is next.  request, wipe: factory_request reads the
\* counter, or erases the OTA data.  init, repair: System::init checks the OTA
\* data, or erases them.  run: the server runs.  switch: activate writes the OTA
\* data.  count: the countdown of an accepted activation.
Stages == {"loader", "request", "wipe", "init", "repair", "run", "switch", "count"}

-----------------------------------------------------------------------------
(* The OTA data *)

\* The number of the entry in a sector, if it can be read.
Readable(sector) == sector \notin {Blank, Garbage}
Number(sector) == IF Readable(sector) THEN sector ELSE 0

SlotOf(seq) == ((seq - 1) % OtaSlots) + 1

\* What the bootloader reads from the two sectors: 0 stands for the factory.
Selection(data) ==
  LET read == {s \in 0..1 : Readable(data[s])}
  IN  IF read = {} THEN 0
      ELSE SlotOf(data[CHOOSE s \in read : \A t \in read : data[s] >= data[t]])

Erase(e) == [at |-> e, value |-> Blank]
EraseAll == <<Erase(0), Erase(1)>>

SpareNewest(data) ==      \* mutant: the comparison is the other way round
  IF data[0] = Blank THEN {0}
  ELSE IF Garbage \in {data[0], data[1]} THEN {0, 1}
  ELSE IF data[1] = Blank THEN {1}
  ELSE IF data[0] > data[1] THEN {0} ELSE {1}

\* The sector activate erases: a blank one, else the one with the smaller number.
\* It reads no checksum, so what it takes for the number of a broken one is open.
Spare(data) ==
  IF data[0] = Blank THEN {0}
  ELSE IF Garbage \in {data[0], data[1]} THEN {0, 1}
  ELSE IF data[1] = Blank THEN {1}
  ELSE IF data[0] > data[1] THEN {1} ELSE {0}

\* The next number that stands for slot i.
NextSeq(last, i) ==
  CHOOSE n \in last+1..last+OtaSlots : SlotOf(n) = i

SwitchOpsHalf(i, e) ==      \* mutant: the factory is not told from the others
  IF i = 0 THEN <<Erase(e)>>
  ELSE LET entry == [at |-> e, value |-> NextSeq(Number(ota[1 - e]), i)]
       IN  <<Erase(e), entry, entry>>

\* activate: the spare sector e is erased.  set_current_app_partition writes a number
\* for slot i there unless the other sector already selects it, and
\* set_current_ota_state writes the entry that selects i once more, with its state.
SwitchOps(i, e) ==
  LET kept == ota[1 - e]
      same == [at |-> 1 - e, value |-> kept]
      entry == [at |-> e, value |-> NextSeq(Number(kept), i)]
  IN  IF i = 0 THEN EraseAll
      ELSE IF Readable(kept) /\ SlotOf(kept) = i THEN <<Erase(e), same>>
      ELSE <<Erase(e), entry, entry>>

-----------------------------------------------------------------------------
(* The way up *)

\* The bootloader falls back to the factory image when it refuses the selected one.
Loader ==
  /\ stage = "loader"
  /\ running' = IF Selection(ota) \in Refused THEN 0 ELSE Selection(ota)
  /\ stage' = "request" /\ fresh' = FALSE
  /\ UNCHANGED <<count, ota, ops, target, usable, checked, panics, old, cut>>

FactoryRequestHalf ==      \* mutant: one sector is erased instead of the region
  /\ stage = "request"
  /\ IF count = Request THEN stage' = "wipe" /\ ops' = <<Head(EraseAll)>>
                        ELSE stage' = "init" /\ UNCHANGED ops
  /\ UNCHANGED <<count, ota, running, target, usable, hist>>

FactoryRequest ==
  /\ stage = "request"
  /\ IF count = Request THEN stage' = "wipe" /\ ops' = EraseAll
                        ELSE stage' = "init" /\ UNCHANGED ops
  /\ UNCHANGED <<count, ota, running, target, usable, hist>>

\* The partition table or the OTA partition is not found: the request stays.
FactoryRequestFails ==
  /\ stage = "request" /\ count = Request
  /\ stage' = "init"
  /\ UNCHANGED <<count, ota, running, ops, target, usable, hist>>

\* System::init erases OTA data it cannot read.
InitSystem ==
  /\ stage = "init"
  /\ usable' = TRUE /\ checked' = TRUE
  /\ IF Garbage \in {ota[0], ota[1]} THEN stage' = "repair" /\ ops' = EraseAll
                                     ELSE stage' = "run" /\ UNCHANGED ops
  /\ UNCHANGED <<count, ota, running, target, panics, old, fresh, cut>>

\* A read of the entries that fails passes for OTA data that are broken.
InitReadFails ==
  /\ stage = "init"
  /\ usable' = TRUE /\ checked' = TRUE
  /\ stage' = "repair" /\ ops' = EraseAll
  /\ UNCHANGED <<count, ota, running, target, panics, old, fresh, cut>>

\* The check is passed over when the updater cannot be made: the OTA data stay, and
\* activation is enabled.
InitUnchecked ==
  /\ stage = "init"
  /\ usable' = TRUE /\ checked' = FALSE /\ stage' = "run"
  /\ UNCHANGED <<count, ota, running, ops, target, panics, old, fresh, cut>>

\* Without a partition table there is nothing to activate with.
InitWithoutTable ==
  /\ stage = "init"
  /\ usable' = FALSE /\ checked' = FALSE /\ stage' = "run"
  /\ UNCHANGED <<count, ota, running, ops, target, panics, old, fresh, cut>>

-----------------------------------------------------------------------------
(* Activation *)

\* The slot states and the upload flag are System's; here any slot may pass.
Activate(i) ==
  /\ stage = "run" /\ usable
  /\ \E e \in Spare(ota) :
       /\ \A n \in DOMAIN SwitchOps(i, e) : SwitchOps(i, e)[n].value \in {Blank} \cup 1..MaxSeq
       /\ ops' = SwitchOps(i, e)
  /\ stage' = "switch" /\ target' = i
  /\ old' = Selection(ota)
  /\ UNCHANGED <<count, ota, running, usable, checked, panics, fresh, cut>>

\* The library writes no entry while it cannot read both.
Accepted == Head(ops).value # Blank => Garbage \notin {ota[0], ota[1]}

\* One flash operation, and what follows the last one.
FlashOp ==
  /\ ops # <<>> /\ Accepted
  /\ ota' = [ota EXCEPT ![Head(ops).at] = Head(ops).value]
  /\ ops' = Tail(ops)
  /\ IF Tail(ops) # <<>> THEN UNCHANGED <<stage, count, hist>>
     ELSE CASE stage = "wipe" -> /\ stage' = "loader" /\ count' = 0 /\ panics' = 0
                                 /\ UNCHANGED <<checked, old, fresh, cut>>
            [] stage = "repair" -> stage' = "run" /\ UNCHANGED <<count, hist>>
            [] OTHER -> /\ stage' = "count" /\ fresh' = TRUE
                        /\ UNCHANGED <<count, checked, panics, old, cut>>
  /\ UNCHANGED <<running, target, usable>>

\* What becomes of the sector of an operation that does not get through.
Lost(sector) == ota' = [ota EXCEPT ![Head(ops).at] = sector]

FlashFailsQuietly ==      \* mutant: a failed repair leaves activation enabled
  /\ ops # <<>>
  /\ ops' = <<>>
  /\ UNCHANGED ota \/ (Accepted /\ Lost(Blank))
  /\ stage' = IF stage = "wipe" THEN "init" ELSE "run"
  /\ UNCHANGED <<count, running, target, usable, hist>>

\* The operation fails: factory_request goes on booting, init gives up on the OTA
\* data, activate answers with the error.
FlashFails ==
  /\ ops # <<>>
  /\ ops' = <<>>
  /\ UNCHANGED ota \/ (Accepted /\ Lost(Blank))
  /\ stage' = IF stage = "wipe" THEN "init" ELSE "run"
  /\ usable' = (usable /\ stage # "repair")
  /\ UNCHANGED <<count, running, target, hist>>

\* system_task at the end of the countdown: the counter is cleared, then reset.
CountdownResets ==
  /\ stage = "count"
  /\ count' = 0 /\ panics' = 0 /\ stage' = "loader"
  /\ UNCHANGED <<ota, running, ops, target, usable, checked, old, fresh, cut>>

\* The final guard fails: the OTA data stay as they are.
CountdownGivesUp ==
  /\ stage = "count"
  /\ stage' = "run"
  /\ UNCHANGED <<count, ota, running, ops, target, usable, hist>>

-----------------------------------------------------------------------------
(* Panics and power cuts *)

HaltEarly(n) ==      \* mutant: the count is compared after the increment
  IF n \in 0..PanicRetry-2 THEN n + 1
  ELSE IF n \in {PanicRetry - 1, PanicRetry, Request} THEN Request ELSE 1

HaltInclusive(n) ==      \* mutant: the first range includes its end
  IF n \in 0..PanicRetry THEN n + 1 ELSE IF n = Request THEN Request ELSE 1

\* custom_halt
Halt(n) ==
  IF n \in 0..PanicRetry-1 THEN n + 1
  ELSE IF n \in {PanicRetry, Request} THEN Request ELSE 1

\* A panic of the firmware, in whatever it is doing.
Panic ==
  /\ stage # "loader"
  /\ count' = Halt(count)
  /\ panics' = IF panics > PanicRetry THEN panics ELSE panics + 1
  /\ stage' = "loader" /\ ops' = <<>>
  /\ UNCHANGED <<ota, running, target, usable, checked, old, fresh, cut>>

\* The RTC register does not survive, nor does a sector just being written.
PowerCut ==
  /\ count' \in {0, Unset} /\ panics' = 0 /\ cut' = ~cut
  /\ stage' = "loader" /\ ops' = <<>>
  /\ UNCHANGED ota \/ (ops # <<>> /\ Accepted /\ Lost(Garbage))
  /\ UNCHANGED <<running, target, usable, checked, old, fresh>>

Init ==
  /\ count \in {0, Unset} /\ ota \in [0..1 -> {Blank, Garbage}]
  /\ running = 0 /\ stage = "loader" /\ ops = <<>> /\ target = 0
  /\ usable = TRUE /\ checked = FALSE
  /\ panics = 0 /\ old = 0 /\ fresh = FALSE /\ cut = FALSE

Boot == Loader \/ FactoryRequest \/ InitSystem

Next ==
  \/ Boot \/ FactoryRequestFails \/ InitReadFails \/ InitUnchecked \/ InitWithoutTable
  \/ \E i \in 0..OtaSlots : Activate(i)
  \/ FlashOp \/ FlashFails \/ CountdownResets \/ CountdownGivesUp
  \/ Panic \/ PowerCut

\* A booting device gets on, an operation that is tried again and again succeeds
\* some day, one that is refused ends, and an image that crashes does so.
Fairness ==
  /\ WF_vars(Boot) /\ SF_vars(FactoryRequest)
  /\ \A left \in 1..3 : SF_vars(FlashOp /\ Len(ops) = left)
  /\ WF_vars(FlashFails /\ ~Accepted)
  /\ WF_vars(CountdownResets \/ CountdownGivesUp)
  /\ WF_vars(Panic /\ stage = "run" /\ running \in Crashing)

Spec == Init /\ [][Next]_vars /\ Fairness

-----------------------------------------------------------------------------
(* Properties *)

TypeOK ==
  /\ count \in 0..PanicRetry \cup {Request, Unset}
  /\ ota \in [0..1 -> 1..MaxSeq \cup {Blank, Garbage}]
  /\ running \in 0..OtaSlots /\ target \in 0..OtaSlots /\ old \in 0..OtaSlots
  /\ stage \in Stages /\ usable \in BOOLEAN /\ checked \in BOOLEAN
  /\ fresh \in BOOLEAN /\ cut \in BOOLEAN
  /\ panics \in 0..PanicRetry+1
  /\ (ops # <<>>) <=> stage \in {"wipe", "repair", "switch"}

\* An OTA image gets PanicRetry + 1 panics in a row, no more: after that many the
\* register holds the request.
GivesUpInTime == panics > PanicRetry => count = Request

\* ... and the OTA data are not erased before as many panics, of whichever images, since
\* the counter was cleared.
NeverGivesUpEarly == stage = "wipe" => panics > PanicRetry

\* activate compares sequence numbers, whatever was cut off or failed before: when
\* System::init could look at them, OTA data that cannot be read are gone, or activation
\* is disabled.
NumbersReadable == stage = "run" /\ usable /\ checked => Garbage \notin {ota[0], ota[1]}

\* While an OTA slot is being selected, and whenever a panic, a fault or a power cut
\* ends that, the OTA data select the slot they selected before or the new one: never
\* a third slot, and the factory only when the slot was selected already, so that its
\* one entry is written again, or when the OTA data had not been checked.
SwitchIsAtomic ==
  [][stage = "switch" /\ target # 0 =>
       \/ Selection(ota') \in {old, target}
       \/ Selection(ota') = 0 /\ (target = old \/ ~checked)]_vars

\* The countdown runs only when the OTA data select the slot it is for.
CountdownMeansSwitched == stage = "count" => Selection(ota) = target

\* The device never loops for ever in an image that crashes: without power cuts and
\* activations it ends up in another one, however often the erase fails.
CrashLoopEnds ==
  <>[][cut' = cut /\ \A i \in 0..OtaSlots : ~Activate(i)]_vars
    => []<>(running \notin Crashing)

\* "When it reaches device.panic_retry, the next boot erases the OTA boot
\* selection" (README, panic handling).
ErasedWhenReached == stage = "init" /\ count # Request => panics < PanicRetry

\* "The counter is cleared when an update is activated, so a freshly activated
\* image starts counting from zero" (README, panic handling).
FreshImageCountsFromZero ==
  [][Loader /\ fresh /\ target # 0 /\ running' = target => count \in {0, Unset}]_vars
=============================================================================
