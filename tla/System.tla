------------------------------- MODULE System -------------------------------
(***************************************************************************)
(* The image slots: uploads, inspections, activation, the countdown to the *)
(* reset and the reset itself, as System and system_task run them for the  *)
(* server tasks, behind the maintenance layer.                             *)
(*                                                                         *)
(* The tasks share one cooperative executor, so an action is the code from *)
(* one await to the next: a request handler up to its first yield, one     *)
(* erase, one buffer of the body, one sector of a digest.  A slot is a row *)
(* of sectors, each erased or holding a sector of some image; the header,  *)
(* the segment table and the descriptor of an image are in its sector 0.   *)
(***************************************************************************)
EXTENDS Naturals, FiniteSets

CONSTANTS
  Conns,              \* server tasks, MAX_CONNECTIONS of them
  Slots,              \* indexes of the app partitions in the table, 0 is factory
  Absent,             \* indexes that parse but have no partition
  Images,             \* application images, the files clients upload
  Kind,               \* what an image is, see Verdict
  Len,                \* its length in sectors
  Sectors,            \* the capacity of a slot
  FactoryImage,       \* the image in the factory slot
  CountdownSeconds,   \* COUNTDOWN_SECONDS
  Erased, None

Kinds == {"good", "foreign", "raw", "padded", "bad", "torn", "junk", "alien"}

\* The state an inspection gives to an intact copy of an image of each kind:
\* raw images carry no digest, bad ones a wrong digest, padded ones are followed
\* by bytes that belong to no segment, torn ones have a broken segment table,
\* junk has no image magic and alien no application descriptor.
Verdict == [good |-> "Available", foreign |-> "Foreign", raw |-> "Unverified",
            padded |-> "Available", bad |-> "Broken", torn |-> "Broken",
            junk |-> "Empty", alien |-> "Unknown"]

States == {"Unchecked", "ReadFailed", "Empty", "Unknown", "Broken",
           "Unverified", "Foreign", "Available"}

Activatable(s) == s \in {"Available", "Foreign", "Unverified"}

ASSUME SystemAssumption ==
  /\ Slots \subseteq Nat /\ 0 \in Slots /\ Absent \subseteq Nat \ Slots
  /\ None \notin Nat \cup Images /\ Erased \notin Images
  /\ Kind \in [Images -> Kinds] /\ Len \in [Images -> Nat \ {0}]
  /\ Sectors \in Nat \ {0}
  /\ FactoryImage \in Images /\ Kind[FactoryImage] = "good"
  /\ Len[FactoryImage] <= Sectors
  /\ CountdownSeconds \in Nat \ {0}

VARIABLES
  flash,              \* the contents of every slot, sector by sector
  selected,           \* the slot the OTA data selects, 0 when they are blank
  running,            \* the slot the running firmware was booted from
  booted,             \* what System knows of that, or None
  cache,              \* PartitionInfo::state of every slot
  uploading,          \* the upload flag
  process,            \* UploadProcess
  countdown,          \* activate_countdown, None for u32::MAX
  signal,             \* activate_signal, None when it holds no index
  task,               \* system_task: the index and the seconds it has left
  conns,              \* what each server task is suspended in
  overlapped,         \* history: inspections whose slot was written meanwhile
  suspect             \* history: slots whose cached state such a one published

image == <<flash, selected, running, booted>>
act == <<countdown, signal, task>>
hist == <<overlapped, suspect>>
vars == <<image, cache, uploading, process, act, conns, hist>>

Idle == [pc |-> "idle", slot |-> 0, image |-> FactoryImage, done |-> 0,
         total |-> 0, intact |-> TRUE]

NoProcess == [state |-> "Idle", message |-> None, erase |-> <<0, 0>>, write |-> <<0, 0>>]

Waiting == [index |-> None, left |-> 0]

\* Images that fit into a slot: no other is ever written or read back.
Fitting == {img \in Images : Len[img] <= Sectors}

Blank == [s \in 0..Sectors-1 |-> Erased]
Holding(img) == [s \in 0..Sectors-1 |-> IF s < Len[img] THEN img ELSE Erased]

-----------------------------------------------------------------------------
(* What an inspection sees *)

\* Settled before the first sector is hashed: the header or the segment walk.
Immediate(content, purpose) ==
  IF content[0] = Erased THEN {"Empty"}
  ELSE IF Kind[content[0]] \in {"junk", "alien", "torn"} THEN {Verdict[Kind[content[0]]]}
  ELSE IF Kind[content[0]] = "padded" /\ purpose = "identify" THEN {"Broken"}
  ELSE {}

\* A read that fails, of the header or of what follows it, settles it too.
Unread(content) ==
  IF content[0] = Erased \/ Kind[content[0]] \in {"junk", "alien"} THEN {"ReadFailed"}
  ELSE {"ReadFailed", "Broken"}

\* The whole image is there.
Intact(content) ==
  /\ content[0] # Erased
  /\ Len[content[0]] <= Sectors
  /\ \A s \in 0..Len[content[0]]-1 : content[s] = content[0]

\* The state an undisturbed inspection gives to a slot with this content.
Truth(content) ==
  IF content[0] = Erased THEN "Empty"
  ELSE IF Kind[content[0]] \in {"junk", "alien", "torn", "raw"} \/ Intact(content)
    THEN Verdict[Kind[content[0]]]
  ELSE "Broken"

\* The bootloader verifies the image it is told to start.
Bootable(content) == Intact(content) /\ Activatable(Verdict[Kind[content[0]]])

-----------------------------------------------------------------------------
(* Inspections.  purpose is "inspect" for GET /system/inspect, "identify" at *)
(* the end of an upload, "reinspect" after a failed one; p and known are the *)
(* progress record and the slot states as the caller leaves them.            *)

ConcludeHoldsFlag(c, purpose, i, v, p, known) ==      \* mutant: no UploadGuard
  /\ cache' = [known EXCEPT ![i] = v]
  /\ conns' = [conns EXCEPT ![c] = Idle]
  /\ uploading' = (purpose = "reinspect" \/ (purpose = "inspect" /\ uploading))
  /\ process' = IF purpose = "identify"
                  THEN [p EXCEPT !.state = IF Activatable(v) THEN "Ready" ELSE "Failed"]
                  ELSE p
  /\ suspect' = IF c \in overlapped THEN suspect \cup {i} ELSE suspect \ {i}
  /\ overlapped' = overlapped \ {c}

\* UploadGuard is dropped when the upload returns, on every path.
Conclude(c, purpose, i, v, p, known) ==
  /\ cache' = [known EXCEPT ![i] = v]
  /\ conns' = [conns EXCEPT ![c] = Idle]
  /\ uploading' = (purpose = "inspect" /\ uploading)
  /\ process' = IF purpose = "identify"
                  THEN [p EXCEPT !.state = IF Activatable(v) THEN "Ready" ELSE "Failed"]
                  ELSE p
  /\ suspect' = IF c \in overlapped THEN suspect \cup {i} ELSE suspect \ {i}
  /\ overlapped' = overlapped \ {c}

\* inspect up to the first yield: a verdict, or the first sector is hashed.
Inspect(c, purpose, i, p, known) ==
  \/ \E v \in Immediate(flash[i], purpose) \cup Unread(flash[i]) :
       Conclude(c, purpose, i, v, p, known)
  \/ /\ Immediate(flash[i], purpose) = {}
     /\ conns' = [conns EXCEPT ![c] =
          [pc |-> purpose, slot |-> i, image |-> flash[i][0], done |-> 1,
           total |-> Len[flash[i][0]], intact |-> TRUE]]
     /\ uploading' = (purpose # "inspect" \/ uploading)
     /\ process' = p /\ cache' = known
     /\ UNCHANGED hist

Inspecting(c) == conns[c].pc \in {"inspect", "identify", "reinspect"}

DigestPastEnd(c) ==      \* mutant: the loop runs once too often
  /\ Inspecting(c) /\ conns[c].done <= conns[c].total
  /\ conns' = [conns EXCEPT ![c].done = @ + 1]
  /\ UNCHANGED <<image, act, cache, uploading, process, hist>>

\* One turn of the loop in digest.
Digest(c) ==
  /\ Inspecting(c) /\ conns[c].done < conns[c].total
  /\ \/ /\ conns' = [conns EXCEPT
             ![c].done = @ + 1,
             ![c].intact = @ /\ flash[conns[c].slot][conns[c].done] = conns[c].image]
        /\ UNCHANGED <<cache, uploading, process, hist>>
     \/ Conclude(c, conns[c].pc, conns[c].slot, "Broken", process, cache)
  /\ UNCHANGED <<image, act>>

\* The appended digest is read after the last yield, if it can be; an image
\* without one is not looked at again.
Digested(c) ==
  /\ Inspecting(c) /\ conns[c].done = conns[c].total
  /\ LET r == conns[c]
         matches == r.intact /\ flash[r.slot][r.total - 1] = r.image
         verdicts == IF Kind[r.image] = "raw" THEN {"Unverified"}
                     ELSE {"Broken"} \cup (IF matches THEN {Verdict[Kind[r.image]]} ELSE {})
     IN  \E v \in verdicts : Conclude(c, r.pc, r.slot, v, process, cache)
  /\ UNCHANGED <<image, act>>

-----------------------------------------------------------------------------
(* Requests.  MaintenanceLayer lets them through only while no countdown     *)
(* runs; it and the handler run without an await in between.                 *)

PassesAlways(c) == conns[c].pc = "idle"      \* mutant: no layer

Passes(c) == conns[c].pc = "idle" /\ countdown = None

InspectRequest(c, i) ==
  /\ Passes(c)
  /\ Inspect(c, "inspect", i, process, cache)
  /\ UNCHANGED <<image, act>>

UploadAnyTarget(i) == i # 0 /\ ~uploading      \* mutant: the booted slot too
UploadNoSwap(i) == i # 0 /\ booted # i          \* mutant: the flag is not tested

UploadAllowed(i) == i # 0 /\ booted # i /\ ~uploading

\* Accepted, and given up before the erase: no partition, or a file that is
\* too large for it.  The slot keeps its contents and its state.
UploadTurnedAway(c, i, img) ==
  /\ Passes(c) /\ UploadAllowed(i)
  /\ \E e \in {"Invalid", "OutOfMemory"} :
       /\ IF e = "Invalid" THEN i \in Absent ELSE i \in Slots /\ Len[img] > Sectors
       /\ process' = [NoProcess EXCEPT !.state = "Received", !.message = e]
  /\ UNCHANGED <<image, cache, uploading, act, conns, hist>>

\* A server task erases or writes a slot under the inspections of the others.
Disturb(i) ==
  /\ overlapped' = overlapped \cup {d \in Conns : conns[d].pc = "inspect" /\ conns[d].slot = i}
  /\ UNCHANGED suspect

EraseSector(i, s) == flash' = [flash EXCEPT ![i][s] = Erased]

FailedSilently(c, i, e, p, known) ==      \* mutant: no message
  Inspect(c, "reinspect", i, p, known)

FailedUnread(c, i, e, p, known) ==        \* mutant: the slot is not read again
  Conclude(c, "reinspect", i, known[i], [p EXCEPT !.message = e], known)

Failed(c, i, e, p, known) == Inspect(c, "reinspect", i, [p EXCEPT !.message = e], known)

\* From the request to the first erase.  The distribution covers the file and
\* may round up to the capacity.
UploadRequest(c, i, img, total) ==
  /\ Passes(c) /\ i \in Slots /\ UploadAllowed(i)
  /\ Len[img] <= total
  /\ LET p == [NoProcess EXCEPT !.state = "Erasing", !.erase = <<0, total>>]
         known == [cache EXCEPT ![i] = "Unchecked"]
     IN \/ /\ EraseSector(i, 0) /\ Disturb(i)
           /\ uploading' = TRUE /\ cache' = known
           /\ process' = [p EXCEPT !.erase[1] = 1]
           /\ conns' = [conns EXCEPT ![c] =
                [pc |-> "erase", slot |-> i, image |-> img, done |-> 1,
                 total |-> total, intact |-> TRUE]]
           /\ UNCHANGED <<selected, running, booted>>
        \/ Failed(c, i, "StorageError", p, known) /\ UNCHANGED image
  /\ UNCHANGED act

\* A block is erased sector by sector, so what lies between two blocks is a state here
\* too; an erase that fails half way is one sector more, and a failure at the next.
Erase(c) ==
  /\ conns[c].pc = "erase" /\ conns[c].done < conns[c].total
  /\ LET r == conns[c] IN
     \/ /\ EraseSector(r.slot, r.done) /\ Disturb(r.slot)
        /\ conns' = [conns EXCEPT ![c].done = @ + 1]
        /\ process' = [process EXCEPT !.erase[1] = r.done + 1]
        /\ UNCHANGED <<selected, running, booted, cache, uploading>>
     \/ Failed(c, r.slot, "StorageError", process, cache) /\ UNCHANGED image
  /\ UNCHANGED act

\* The first read of the body is awaited.
ErasedAll(c) ==
  /\ conns[c].pc = "erase" /\ conns[c].done = conns[c].total
  /\ LET len == Len[conns[c].image] IN
     /\ process' = [process EXCEPT !.state = "Writing", !.write = <<0, len>>]
     /\ conns' = [conns EXCEPT ![c].pc = "write", ![c].done = 0, ![c].total = len]
  /\ UNCHANGED <<image, cache, uploading, act, hist>>

\* A full buffer: one sector of the file is written.
Write(c) ==
  /\ conns[c].pc = "write" /\ conns[c].done < conns[c].total
  /\ LET r == conns[c] IN
     \/ /\ flash' = [flash EXCEPT ![r.slot][r.done] = r.image] /\ Disturb(r.slot)
        /\ conns' = [conns EXCEPT ![c].done = @ + 1]
        /\ process' = [process EXCEPT !.write[1] = r.done + 1]
        /\ UNCHANGED <<selected, running, booted, cache, uploading>>
     \/ Failed(c, r.slot, "StorageError", process, cache) /\ UNCHANGED image
  /\ UNCHANGED act

\* The reader ended before the whole file came, gave more, or failed.
StreamFails(c) ==
  /\ conns[c].pc = "write"
  /\ \E e \in {"Incomplete", "OutOfMemory", "WriteFailure"} :
       /\ e = "Incomplete" => conns[c].done < conns[c].total
       /\ Failed(c, conns[c].slot, e, process, cache)
  /\ UNCHANGED <<image, act>>

StreamEndsEarly(c) ==      \* mutant: a short body is not an error
  /\ conns[c].pc = "write"
  /\ Inspect(c, "identify", conns[c].slot, [process EXCEPT !.state = "Identifying"], cache)
  /\ UNCHANGED <<image, act>>

StreamEnds(c) ==
  /\ conns[c].pc = "write" /\ conns[c].done = conns[c].total
  /\ Inspect(c, "identify", conns[c].slot, [process EXCEPT !.state = "Identifying"], cache)
  /\ UNCHANGED <<image, act>>

CheckImageOnly(i) == Activatable(cache[i])      \* mutant
CheckActivatable(i) == Activatable(cache[i]) /\ ~uploading

\* The OTA data are written and the countdown starts in one critical section.
Activate(c, i) ==
  /\ Passes(c) /\ i \in Slots
  /\ CheckActivatable(i)
  /\ selected' = i
  /\ countdown' = CountdownSeconds /\ signal' = i
  /\ UNCHANGED <<flash, running, booted, cache, uploading, process, task, conns, hist>>

\* An OTA sector cannot be read, erased or written: no countdown, and what is
\* left of the OTA data may select another slot.
ActivateFails(c, i) ==
  /\ Passes(c) /\ CheckActivatable(i)
  /\ selected' \in Slots
  /\ UNCHANGED <<flash, running, booted, cache, uploading, process, act, conns, hist>>

-----------------------------------------------------------------------------
(* system_task, the reset and the boot *)

\* System::init inspects every slot before the server tasks exist.  A read that
\* fails there leaves what a request does whose inspection fails right after.  Without
\* a partition table there would be no slot to speak of.
Boot(choice) ==
  /\ selected' = choice
  /\ \E i \in Slots :
       /\ IF Bootable(flash[choice]) THEN i = choice ELSE Bootable(flash[i])
       /\ running' = i /\ booted' \in {i, None}
  /\ cache' = [i \in Slots |-> Truth(flash[i])]
  /\ uploading' = FALSE /\ process' = NoProcess
  /\ countdown' = None /\ signal' = None /\ task' = Waiting
  /\ conns' = [c \in Conns |-> Idle]
  /\ overlapped' = {} /\ suspect' = {}
  /\ UNCHANGED flash

TaskWake ==
  /\ task = Waiting /\ signal # None
  /\ signal' = None
  /\ task' = IF countdown = None THEN Waiting
                                 ELSE [index |-> signal, left |-> countdown]
  /\ UNCHANGED <<image, cache, uploading, process, countdown, conns, hist>>

\* fetch_sub on an AtomicU32 whose u32::MAX means None.
FetchSub(n) ==
  IF n = None THEN CountdownSeconds + 1 ELSE IF n = 0 THEN None ELSE n - 1

Tick ==
  /\ task.left > 1
  /\ countdown' = FetchSub(countdown)
  /\ task' = [task EXCEPT !.left = @ - 1]
  /\ UNCHANGED <<image, cache, uploading, process, signal, conns, hist>>

\* The last second, the final guard and the reset follow without an await.
TaskReset == task.left = 1 /\ CheckActivatable(task.index) /\ Boot(selected)

TaskGoesOn ==      \* mutant: the countdown is not cleared
  /\ task.left = 1 /\ ~CheckActivatable(task.index)
  /\ task' = Waiting
  /\ UNCHANGED <<image, cache, uploading, process, countdown, signal, conns, hist>>

TaskGivesUp ==
  /\ task.left = 1 /\ ~CheckActivatable(task.index)
  /\ countdown' = None /\ task' = Waiting
  /\ UNCHANGED <<image, cache, uploading, process, signal, conns, hist>>

\* A panic or a power cut, at any moment; after too many panics, or when the OTA
\* data cannot be read, the selection is cleared on the way up.
Restart == Boot(selected) \/ Boot(0)

-----------------------------------------------------------------------------
Init ==
  /\ flash \in [Slots -> {Blank} \cup {Holding(img) : img \in Fitting}]
  /\ flash[0] = Holding(FactoryImage)
  /\ selected = 0 /\ running = 0 /\ booted \in {0, None}
  /\ cache = [i \in Slots |-> Truth(flash[i])]
  /\ uploading = FALSE /\ process = NoProcess
  /\ countdown = None /\ signal = None /\ task = Waiting
  /\ conns = [c \in Conns |-> Idle]
  /\ overlapped = {} /\ suspect = {}

Request(c) ==
  \/ \E i \in Slots : InspectRequest(c, i) \/ Activate(c, i) \/ ActivateFails(c, i)
  \/ \E i \in Slots \cup Absent, img \in Images : UploadTurnedAway(c, i, img)
  \/ \E i \in Slots, img \in Images, total \in 1..Sectors : UploadRequest(c, i, img, total)

Step(c) == Erase(c) \/ ErasedAll(c) \/ Write(c) \/ StreamFails(c) \/ StreamEnds(c)
             \/ Digest(c) \/ Digested(c)

TaskStep == TaskWake \/ Tick \/ TaskReset \/ TaskGivesUp

Next == \/ \E c \in Conns : Request(c) \/ Step(c)
        \/ TaskStep \/ Restart

\* A yielding task is polled again, a body that stalls fails when the reader
\* times out, and the timer of the countdown fires.  Nobody has to send a
\* request, and nothing makes the device restart.
Fairness == WF_vars(TaskStep) /\ \A c \in Conns : WF_vars(Step(c))

Spec == Init /\ [][Next]_vars /\ Fairness

-----------------------------------------------------------------------------
(* Properties *)

Pcs == {"idle", "inspect", "erase", "write", "identify", "reinspect"}
UploadPcs == {"erase", "write", "identify", "reinspect"}

UploadStates == {"Idle", "Received", "Erasing", "Writing", "Identifying", "Ready", "Failed"}

Errors == {"Invalid", "OutOfMemory", "Incomplete", "WriteFailure", "StorageError"}

ASSUME ErrorsAssumption == None \notin Errors

\* Every variable has its type, whatever is uploaded; a digest stays within the
\* slot and the countdown within its range.
TypeOK ==
  /\ flash \in [Slots -> [0..Sectors-1 -> Fitting \cup {Erased}]]
  /\ selected \in Slots /\ running \in Slots /\ booted \in {running, None}
  /\ cache \in [Slots -> States] /\ uploading \in BOOLEAN
  /\ process \in [state : UploadStates, message : Errors \cup {None},
                  erase : (0..Sectors) \X (0..Sectors), write : (0..Sectors) \X (0..Sectors)]
  /\ countdown \in 0..CountdownSeconds \cup {None}
  /\ signal \in Slots \cup {None}
  /\ task \in [index : Slots \cup {None}, left : 0..CountdownSeconds]
  /\ conns \in [Conns -> [pc : Pcs, slot : Slots, image : Fitting, done : 0..Sectors,
                          total : 0..Sectors, intact : BOOLEAN]]
  /\ overlapped \subseteq Conns /\ suspect \subseteq Slots

\* The upload flag is up exactly while one server task is inside an upload, and
\* no second one is ever inside with it.
OneUpload ==
  /\ \A c, d \in Conns : {conns[c].pc, conns[d].pc} \subseteq UploadPcs => c = d
  /\ uploading <=> \E c \in Conns : conns[c].pc \in UploadPcs

\* No upload is in progress during a countdown: the final guard cannot find one,
\* and the reset cannot cut an erase or a write short.
QuietCountdown == countdown # None => ~uploading

\* The shared counter is the one system_task counts, it never wraps, and there
\* is never a second activation under way.
CountdownExact ==
  IF countdown = None THEN task = Waiting /\ signal = None
  ELSE \/ task = Waiting /\ signal = selected /\ countdown = CountdownSeconds
       \/ task = [index |-> selected, left |-> countdown] /\ signal = None /\ countdown > 0

\* The factory image and, when the device knows it, the running one survive
\* whatever is uploaded.
RunningIntact ==
  /\ flash[0] = Holding(FactoryImage)
  /\ booted # None => Bootable(flash[booted])

\* What /system/status answers for a slot nobody is uploading to is what an
\* inspection would find there, a failed read aside, unless the inspection it
\* comes from ran while the slot was being written.
StatusHonest ==
  \A i \in Slots :
    (i \notin suspect /\ ~\E c \in Conns : conns[c].pc \in UploadPcs /\ conns[c].slot = i)
      => cache[i] \in {Truth(flash[i]), "ReadFailed", "Broken"}

\* A client that polls /system/progress can tell how an upload ended: only Ready
\* and Failed are final, and a message explains any other state but Idle.
ProgressExplained ==
  ~uploading =>
    CASE process.state = "Ready" -> process.message = None /\ process.write[1] = process.write[2]
      [] process.state = "Failed" -> process.message = None
      [] process.state = "Idle" -> process = NoProcess
      [] OTHER -> process.message # None

\* An upload is reported Ready only when all of its image is in the slot, also for
\* an image without a digest, which the last inspection cannot tell from a part.
ReadyIsComplete ==
  [][process'.state = "Ready" /\ process.state # "Ready" =>
       \E c \in Conns : conns[c].pc \in UploadPcs /\ Bootable(flash'[conns[c].slot])
                      /\ flash'[conns[c].slot][0] = conns[c].image]_vars

\* An accepted activation ends: in a reset, or with the countdown cleared.
ActivationEnds == countdown # None ~> countdown = None

\* An upload ends, whatever the client does.
UploadEnds == uploading ~> ~uploading

\* "OTA(InvalidImage) when the slot holds something that cannot boot" (http-api,
\* activate): a slot whose activation is accepted holds an image that an
\* inspection would find activatable now.
AcceptedCanBoot ==
  [][\A i \in Slots : (\E c \in Conns : Activate(c, i)) => Activatable(Truth(flash[i]))]_vars

\* The whole image in a slot, if there is one.
Whole(content) == IF Intact(content) THEN content[0] ELSE None
Holds == [i \in Slots |-> Whole(flash[i])]

\* The image an upload has still to bring.
ToCome(r) == IF r.pc = "erase" \/ (r.pc = "write" /\ r.done < r.total) THEN r.image ELSE None

Jobs == {[slot |-> conns[c].slot, image |-> ToCome(conns[c])] :
           c \in {d \in Conns : conns[d].pc \in UploadPcs}}

Service == INSTANCE UpdateService
  WITH holds <- Holds, jobs <- Jobs, next <- selected,
       Startable <- {img \in Images : Activatable(Verdict[Kind[img]])}

\* An upload of many steps, among those of the other tasks, is one that takes the old
\* image away as it begins and brings the new one at once: a slot never holds another
\* whole image in between, and neither a second upload nor a countdown meets it.
ImplementsService == Service!SvcSpec
=============================================================================
