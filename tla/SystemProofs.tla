---------------------------- MODULE SystemProofs ----------------------------
(***************************************************************************)
(* Theorems about System, for any number of server tasks, slots, images    *)
(* and sectors.  The invariants support each other: the countdown's type   *)
(* needs CountdownExact, QuietCountdown needs the upload flag to be up     *)
(* during an upload, and RunningIntact that nobody uploads into the slots  *)
(* it speaks of.  What the progress record and the slot states say follows *)
(* from two more invariants, on how much of a slot an upload has written   *)
(* and an inspection has seen.  A third, on how much of it an upload has   *)
(* cleared, is what it takes to implement UpdateService.                   *)
(***************************************************************************)
EXTENDS System, TLAPS

ConnType == [pc : Pcs, slot : Slots, image : Fitting, done : 0..Sectors,
             total : 0..Sectors, intact : BOOLEAN]

Pairs == (0..Sectors) \X (0..Sectors)

ProcessType == [state : UploadStates, message : Errors \cup {None},
                erase : Pairs, write : Pairs]

\* Nobody uploads into the factory slot or into the one known to be running.
TargetsSafe ==
  \A c \in Conns : conns[c].pc \in UploadPcs => conns[c].slot # 0 /\ conns[c].slot # booted

IInv == TypeOK /\ OneUpload /\ QuietCountdown /\ CountdownExact /\ TargetsSafe /\ RunningIntact

-----------------------------------------------------------------------------
(* Operators *)

\* Every kind of image has a state.
LEMMA VerdictState == \A k \in Kinds : Verdict[k] \in States
BY DEF Kinds, Verdict, States

\* A server task may be idle.
LEMMA IdleType == Idle \in ConnType /\ Idle.pc = "idle"
BY SystemAssumption DEF Idle, ConnType, Pcs, Fitting

\* The progress record of a device that was never uploaded to is one.
LEMMA NoProcessType == NoProcess \in ProcessType
BY SystemAssumption DEF NoProcess, ProcessType, Pairs, UploadStates, Errors

\* Counting up in a pair of sectors gives such a pair.
LEMMA FirstReplaced ==
  ASSUME NEW t \in Pairs, NEW n \in 0..Sectors PROVE [t EXCEPT ![1] = n] \in Pairs
BY DEF Pairs

\* An inspection gives a state to whatever a slot may hold.
LEMMA TruthState ==
  ASSUME NEW content \in [0..Sectors-1 -> Fitting \cup {Erased}]
  PROVE  Truth(content) \in States
<1>1. 0 \in 0..Sectors-1  BY SystemAssumption
<1>2. content[0] # Erased => content[0] \in Images  BY <1>1 DEF Fitting
<1>3. content[0] # Erased => Verdict[Kind[content[0]]] \in States
  BY <1>2, SystemAssumption, VerdictState
<1> QED  BY <1>3 DEF Truth, States

\* A slot that holds a fitting good image boots.
LEMMA FactoryBoots == Bootable(Holding(FactoryImage))
<1> DEFINE f == Holding(FactoryImage)
<1>1. \A s \in 0..Len[FactoryImage]-1 : f[s] = FactoryImage
  BY SystemAssumption DEF Holding
<1>2. f[0] = FactoryImage /\ FactoryImage # Erased  BY <1>1, SystemAssumption
<1> QED  BY <1>1, <1>2, SystemAssumption DEF Bootable, Intact, Activatable, Verdict

-----------------------------------------------------------------------------
(* What an inspection leaves behind, whatever asked for it *)

\* An inspection ends at once or leaves the task in it, and sets the flag accordingly.
LEMMA InspectEffect ==
  ASSUME TypeOK, NEW c \in Conns, NEW i \in Slots,
         NEW purpose \in {"inspect", "identify", "reinspect"},
         NEW p \in ProcessType, NEW known \in [Slots -> States],
         Inspect(c, purpose, i, p, known)
  PROVE  /\ \E r \in ConnType :
              /\ conns' = [conns EXCEPT ![c] = r]
              /\ \/ r.pc = "idle" /\ uploading' = (purpose = "inspect" /\ uploading)
                 \/ /\ r.pc = purpose /\ r.slot = i
                    /\ uploading' = (purpose # "inspect" \/ uploading)
         /\ cache' \in [Slots -> States] /\ process' \in ProcessType
         /\ overlapped' \subseteq Conns /\ suspect' \subseteq Slots
<1> DEFINE content == flash[i]
<1>1. content \in [0..Sectors-1 -> Fitting \cup {Erased}] /\ 0 \in 0..Sectors-1
  BY SystemAssumption DEF TypeOK
<1>2. content[0] \in Fitting \cup {Erased}  BY <1>1
<1>3. Immediate(content, purpose) \subseteq States
  <2>1. content[0] # Erased => Verdict[Kind[content[0]]] \in States
    BY <1>2, SystemAssumption, VerdictState DEF Fitting
  <2> QED  BY <2>1 DEF Immediate, States
<1>7. Unread(content) \subseteq States  BY DEF Unread, States
<1>4. ASSUME NEW v \in Immediate(content, purpose) \cup Unread(content),
             Conclude(c, purpose, i, v, p, known)
      PROVE  /\ conns' = [conns EXCEPT ![c] = Idle]
             /\ uploading' = (purpose = "inspect" /\ uploading)
             /\ cache' \in [Slots -> States] /\ process' \in ProcessType
             /\ overlapped' \subseteq Conns /\ suspect' \subseteq Slots
  <2>1. v \in States  BY <1>3, <1>7
  <2>2. cache' \in [Slots -> States]  BY <1>4, <2>1 DEF Conclude
  <2>3. process' \in ProcessType  BY <1>4 DEF Conclude, ProcessType, UploadStates
  <2> QED  BY <1>4, <2>2, <2>3 DEF Conclude, TypeOK
<1>5. CASE \E v \in Immediate(content, purpose) \cup Unread(content) :
             Conclude(c, purpose, i, v, p, known)
  BY <1>4, <1>5, IdleType
<1>6. CASE /\ Immediate(content, purpose) = {}
           /\ conns' = [conns EXCEPT ![c] =
                [pc |-> purpose, slot |-> i, image |-> content[0], done |-> 1,
                 total |-> Len[content[0]], intact |-> TRUE]]
           /\ uploading' = (purpose # "inspect" \/ uploading)
           /\ process' = p /\ cache' = known
           /\ UNCHANGED hist
  <2> DEFINE r == [pc |-> purpose, slot |-> i, image |-> content[0], done |-> 1,
                   total |-> Len[content[0]], intact |-> TRUE]
  <2>1. content[0] # Erased  BY <1>6 DEF Immediate
  <2>2. content[0] \in Fitting /\ Len[content[0]] \in 0..Sectors
    BY <1>2, <2>1, SystemAssumption DEF Fitting
  <2>3. r \in ConnType  BY <2>2, SystemAssumption DEF ConnType, Pcs
  <2> QED  BY <1>6, <2>3 DEF hist, TypeOK
<1> QED  BY <1>5, <1>6 DEF Inspect

\* A verdict published by a digest: the flag goes down if it ended an upload.
LEMMA ConcludeEffect ==
  ASSUME TypeOK, NEW c \in Conns, Inspecting(c), NEW v \in States,
         Conclude(c, conns[c].pc, conns[c].slot, v, process, cache)
  PROVE  /\ conns' = [conns EXCEPT ![c] = Idle]
         /\ uploading' = (conns[c].pc = "inspect" /\ uploading)
         /\ cache' \in [Slots -> States] /\ process' \in ProcessType
         /\ overlapped' \subseteq Conns /\ suspect' \subseteq Slots
<1>1. conns[c].slot \in Slots  BY DEF TypeOK
<1>2. process \in ProcessType  BY DEF TypeOK, ProcessType, Pairs
<1>3. cache' \in [Slots -> States]  BY <1>1 DEF Conclude, TypeOK
<1>4. process' \in ProcessType  BY <1>2 DEF Conclude, ProcessType, UploadStates
<1> QED  BY <1>1, <1>3, <1>4 DEF Conclude, TypeOK

-----------------------------------------------------------------------------
(* The steps of the server tasks *)

\* The task goes on as r; the flag is up if r is inside an upload, and goes down
\* with the upload r was inside of.
Resumes(c, r) ==
  /\ conns' = [conns EXCEPT ![c] = r]
  /\ uploading' = (r.pc \in UploadPcs \/ (uploading /\ conns[c].pc \notin UploadPcs))
  /\ r.pc \in UploadPcs =>
       /\ r.slot # 0 /\ r.slot # booted /\ countdown = None
       /\ conns[c].pc \in UploadPcs \/ ~uploading

FlashType == [Slots -> [0..Sectors-1 -> Fitting \cup {Erased}]]

\* What every step of a server task but Activate does.
ServerStep(c) ==
  /\ \E r \in ConnType : Resumes(c, r)
  /\ cache' \in [Slots -> States] /\ process' \in ProcessType
  /\ overlapped' \subseteq Conns /\ suspect' \subseteq Slots
  /\ flash' \in FlashType
  /\ \A i \in Slots : i = 0 \/ i = booted => flash'[i] = flash[i]
  /\ UNCHANGED <<selected, running, booted, countdown, signal, task>>

\* A step of that shape keeps the invariant.
LEMMA ServerStepKeeps ==
  ASSUME IInv, NEW c \in Conns, ServerStep(c) PROVE IInv'
<1>1. PICK r \in ConnType : Resumes(c, r)  BY DEF ServerStep
<1>2. conns' \in [Conns -> ConnType]
  BY <1>1 DEF Resumes, IInv, TypeOK, ConnType
<1>3. \A d \in Conns : conns'[d] = IF d = c THEN r ELSE conns[d]
  BY <1>1 DEF Resumes, IInv, TypeOK
<1>4. uploading' \in BOOLEAN  BY <1>1 DEF Resumes
<1>5. TypeOK'
  BY <1>2, <1>4 DEF ServerStep, IInv, TypeOK, ConnType, ProcessType, Pairs, FlashType
<1>6. OneUpload'
  <2>1. \A d \in Conns : conns[d].pc \in UploadPcs => uploading
    BY DEF IInv, OneUpload
  <2>2. \A d \in Conns : conns[c].pc \in UploadPcs /\ conns[d].pc \in UploadPcs => d = c
    BY DEF IInv, OneUpload
  <2>3. CASE r.pc \in UploadPcs
    <3>1. \A d \in Conns : conns[d].pc \in UploadPcs => d = c
      BY <1>1, <2>1, <2>2, <2>3 DEF Resumes
    <3> QED  BY <1>1, <1>3, <2>3, <3>1 DEF Resumes, OneUpload
  <2>4. CASE r.pc \notin UploadPcs
    <3>1. \A d \in Conns : conns'[d].pc \in UploadPcs <=> d # c /\ conns[d].pc \in UploadPcs
      BY <1>3, <2>4
    <3>2. uploading' <=> uploading /\ conns[c].pc \notin UploadPcs
      BY <1>1, <2>4 DEF Resumes
    <3>3. uploading <=> \E d \in Conns : conns[d].pc \in UploadPcs
      BY DEF IInv, OneUpload
    <3>4. uploading' <=> \E d \in Conns : conns'[d].pc \in UploadPcs
      BY <2>2, <3>1, <3>2, <3>3
    <3>5. \A d, e \in Conns : {conns'[d].pc, conns'[e].pc} \subseteq UploadPcs => d = e
      BY <3>1 DEF IInv, OneUpload
    <3> QED  BY <3>4, <3>5 DEF OneUpload
  <2> QED  BY <2>3, <2>4
<1>7. QuietCountdown'
  BY <1>1 DEF Resumes, ServerStep, IInv, QuietCountdown
<1>8. CountdownExact'
  BY DEF ServerStep, IInv, CountdownExact
<1>9. TargetsSafe'
  BY <1>1, <1>3 DEF Resumes, ServerStep, IInv, TargetsSafe
<1>10. RunningIntact'
  <2>1. 0 \in Slots /\ (booted # None => booted \in Slots)
    BY SystemAssumption DEF IInv, TypeOK
  <2> QED  BY <2>1 DEF ServerStep, IInv, RunningIntact
<1> QED  BY <1>5, <1>6, <1>7, <1>8, <1>9, <1>10 DEF IInv

\* A step that starts or resumes an inspection.
LEMMA InspectStep ==
  ASSUME IInv, NEW c \in Conns, NEW i \in Slots,
         NEW purpose \in {"inspect", "identify", "reinspect"},
         NEW p \in ProcessType, NEW known \in [Slots -> States],
         Inspect(c, purpose, i, p, known), UNCHANGED image, UNCHANGED act,
         \/ purpose = "inspect" /\ conns[c].pc = "idle"
         \/ /\ purpose # "inspect" /\ i # 0 /\ i # booted /\ countdown = None
            /\ conns[c].pc \in UploadPcs \/ ~uploading
  PROVE  ServerStep(c)
<1>1. TypeOK  BY DEF IInv
<1>2. PICK r \in ConnType :
        /\ conns' = [conns EXCEPT ![c] = r]
        /\ \/ r.pc = "idle" /\ uploading' = (purpose = "inspect" /\ uploading)
           \/ /\ r.pc = purpose /\ r.slot = i
              /\ uploading' = (purpose # "inspect" \/ uploading)
  BY <1>1, InspectEffect
<1>3. \A d \in Conns : conns[d].pc \in UploadPcs => uploading
  BY DEF IInv, OneUpload
<1>4. uploading \in BOOLEAN  BY <1>1 DEF TypeOK
<1>5. Resumes(c, r)
  <2>1. CASE purpose = "inspect"
    BY <1>2, <1>4, <2>1 DEF Resumes, UploadPcs
  <2>2. CASE purpose # "inspect"
    <3>1. uploading /\ conns[c].pc \notin UploadPcs => FALSE
      BY <2>2
    <3> QED  BY <1>2, <2>2, <3>1 DEF Resumes, UploadPcs
  <2> QED  BY <2>1, <2>2
<1>6. /\ cache' \in [Slots -> States] /\ process' \in ProcessType
      /\ overlapped' \subseteq Conns /\ suspect' \subseteq Slots
  BY <1>1, InspectEffect
<1> QED  BY <1>1, <1>5, <1>6 DEF ServerStep, image, act, TypeOK, FlashType

\* A request comes to a task that is not inside an upload.
LEMMA IdleOutside == \A c \in Conns : Passes(c) => conns[c].pc \notin UploadPcs
BY DEF Passes, UploadPcs

\* An upload under way is into a safe slot, and no countdown runs.
LEMMA UploadUnderWay ==
  ASSUME IInv, NEW c \in Conns, conns[c].pc \in UploadPcs
  PROVE  /\ uploading /\ countdown = None
         /\ conns[c].slot \in Slots /\ conns[c].slot # 0 /\ conns[c].slot # booted
BY DEF IInv, TypeOK, OneUpload, QuietCountdown, TargetsSafe

\* GET /system/inspect is such a step: it leaves flag and flash alone.
LEMMA InspectRequestStep ==
  ASSUME IInv, NEW c \in Conns, NEW i \in Slots, InspectRequest(c, i) PROVE ServerStep(c)
<1>1. process \in ProcessType /\ cache \in [Slots -> States]
  BY DEF IInv, TypeOK, ProcessType, Pairs
<1> QED  BY <1>1, InspectStep DEF InspectRequest, Passes

\* So is an upload that is given up before the erase.
LEMMA UploadTurnedAwayStep ==
  ASSUME IInv, NEW c \in Conns, NEW i, NEW img, UploadTurnedAway(c, i, img) PROVE ServerStep(c)
<1>1. conns[c] \in ConnType /\ conns \in [Conns -> ConnType]
  BY DEF IInv, TypeOK, ConnType
<1>2. Resumes(c, conns[c])
  <2>1. conns[c].pc \notin UploadPcs  BY IdleOutside DEF UploadTurnedAway
  <2>2. conns' = [conns EXCEPT ![c] = conns[c]]  BY <1>1 DEF UploadTurnedAway
  <2>3. uploading' = uploading /\ uploading \in BOOLEAN
    BY DEF UploadTurnedAway, IInv, TypeOK
  <2> QED  BY <2>1, <2>2, <2>3 DEF Resumes
<1>3. process' \in ProcessType
  <2>1. PICK e \in {"Invalid", "OutOfMemory"} :
          process' = [NoProcess EXCEPT !.state = "Received", !.message = e]
    BY DEF UploadTurnedAway
  <2> QED  BY <2>1, NoProcessType DEF ProcessType, UploadStates, Errors
<1> QED
  BY <1>1, <1>2, <1>3
     DEF UploadTurnedAway, ServerStep, image, act, hist, IInv, TypeOK, FlashType

\* A write or an erase keeps the type of the flash, and the slots but one.
LEMMA FlashReplaced ==
  ASSUME flash \in FlashType, NEW i \in Slots, NEW s \in 0..Sectors-1,
         NEW v \in Fitting \cup {Erased},
         flash' = [flash EXCEPT ![i][s] = v]
  PROVE  flash' \in FlashType /\ \A j \in Slots : j # i => flash'[j] = flash[j]
BY DEF FlashType

\* An upload that fails: its slot is read again.
LEMMA FailedStep ==
  ASSUME IInv, NEW c \in Conns, NEW i \in Slots, NEW e \in Errors,
         NEW p \in ProcessType, NEW known \in [Slots -> States],
         Failed(c, i, e, p, known), UNCHANGED image, UNCHANGED act,
         i # 0, i # booted, countdown = None, conns[c].pc \in UploadPcs \/ ~uploading
  PROVE  ServerStep(c)
<1>1. [p EXCEPT !.message = e] \in ProcessType  BY DEF ProcessType
<1> QED  BY <1>1, InspectStep DEF Failed

\* So is one that goes on: it found the flag down, and the slot is a safe one.
LEMMA UploadRequestStep ==
  ASSUME IInv, NEW c \in Conns, NEW i \in Slots, NEW img \in Images, NEW total \in 1..Sectors,
         UploadRequest(c, i, img, total)
  PROVE  ServerStep(c)
<1> DEFINE p == [NoProcess EXCEPT !.state = "Erasing", !.erase = <<0, total>>]
           known == [cache EXCEPT ![i] = "Unchecked"]
           r == [pc |-> "erase", slot |-> i, image |-> img, done |-> 1,
                 total |-> total, intact |-> TRUE]
<1>1. TypeOK  BY DEF IInv
<1>2. i # 0 /\ i # booted /\ ~uploading /\ countdown = None /\ conns[c].pc \notin UploadPcs
  BY IdleOutside DEF UploadRequest, UploadAllowed, Passes
<1>3. <<0, total>> \in Pairs  BY SystemAssumption DEF Pairs
<1>4. p \in ProcessType
  BY <1>3, NoProcessType DEF ProcessType, UploadStates
<1>5. known \in [Slots -> States]  BY <1>1 DEF TypeOK, States
<1>6. CASE /\ EraseSector(i, 0) /\ Disturb(i)
           /\ uploading' = TRUE /\ cache' = known
           /\ process' = [p EXCEPT !.erase[1] = 1]
           /\ conns' = [conns EXCEPT ![c] = r]
           /\ UNCHANGED <<selected, running, booted>>
  <2>1. flash' \in FlashType /\ \A j \in Slots : j # i => flash'[j] = flash[j]
    <3>1. 0 \in 0..Sectors-1 /\ flash \in FlashType
      BY <1>1, SystemAssumption DEF TypeOK, FlashType
    <3> QED  BY <1>6, <3>1, FlashReplaced DEF EraseSector
  <2>2. process' \in ProcessType
    <3>1. 1 \in 0..Sectors  BY SystemAssumption
    <3>2. [p.erase EXCEPT ![1] = 1] \in Pairs
      BY <1>4, <3>1, FirstReplaced DEF ProcessType
    <3>3. process' = [p EXCEPT !.erase = [p.erase EXCEPT ![1] = 1]]  BY <1>6
    <3> QED  BY <1>4, <3>2, <3>3 DEF ProcessType
  <2>3. r \in ConnType
    BY SystemAssumption DEF UploadRequest, ConnType, Pcs, Fitting
  <2>4. Resumes(c, r)  BY <1>2, <1>6 DEF Resumes, UploadPcs
  <2>5. overlapped' \subseteq Conns /\ suspect' \subseteq Slots
    BY <1>1, <1>6 DEF Disturb, TypeOK
  <2> QED
    BY <1>2, <1>5, <1>6, <2>1, <2>2, <2>3, <2>4, <2>5 DEF ServerStep, UploadRequest, act
<1>7. CASE Failed(c, i, "StorageError", p, known) /\ UNCHANGED image
  BY <1>2, <1>4, <1>5, <1>7, FailedStep DEF UploadRequest, Errors
<1> QED  BY <1>6, <1>7 DEF UploadRequest

\* A step of an upload or of a digest that stays where it is.
LEMMA StaysStep ==
  ASSUME IInv, NEW c \in Conns, NEW r \in ConnType,
         conns' = [conns EXCEPT ![c] = r], uploading' = uploading,
         r.slot = conns[c].slot, r.pc \in UploadPcs <=> conns[c].pc \in UploadPcs
  PROVE  Resumes(c, r)
<1>1. uploading \in BOOLEAN  BY DEF IInv, TypeOK
<1>2. conns[c].pc \in UploadPcs =>
        uploading /\ countdown = None /\ r.slot # 0 /\ r.slot # booted
  BY UploadUnderWay
<1> QED  BY <1>1, <1>2 DEF Resumes

\* The progress record after one more sector.
LEMMA Progress ==
  ASSUME process \in ProcessType, NEW n \in 0..Sectors
  PROVE  /\ [process EXCEPT !.erase[1] = n] \in ProcessType
         /\ [process EXCEPT !.write[1] = n] \in ProcessType
<1>1. process.erase \in Pairs /\ process.write \in Pairs  BY DEF ProcessType
<1>2. /\ [process.erase EXCEPT ![1] = n] \in Pairs
      /\ [process.write EXCEPT ![1] = n] \in Pairs
  BY <1>1, FirstReplaced
<1>3. /\ [process EXCEPT !.erase[1] = n]
           = [process EXCEPT !.erase = [process.erase EXCEPT ![1] = n]]
      /\ [process EXCEPT !.write[1] = n]
           = [process EXCEPT !.write = [process.write EXCEPT ![1] = n]]
  OBVIOUS
<1> QED  BY <1>2, <1>3 DEF ProcessType

\* So is one more sector erased, or a failed erase.
LEMMA EraseStep == ASSUME IInv, NEW c \in Conns, Erase(c) PROVE ServerStep(c)
<1> DEFINE old == conns[c]  r == [old EXCEPT !.done = @ + 1]
<1>1. TypeOK /\ old \in ConnType /\ process \in ProcessType /\ flash \in FlashType
  BY DEF IInv, TypeOK, ConnType, ProcessType, Pairs, FlashType
<1>2. old.pc \in UploadPcs  BY DEF Erase, UploadPcs
<1>3. /\ uploading /\ countdown = None
      /\ old.slot \in Slots /\ old.slot # 0 /\ old.slot # booted
  BY <1>2, UploadUnderWay
<1>4. old.done \in 0..Sectors-1 /\ old.done + 1 \in 0..Sectors
  BY <1>1, SystemAssumption DEF Erase, ConnType
<1>5. CASE /\ EraseSector(old.slot, old.done) /\ Disturb(old.slot)
           /\ conns' = [conns EXCEPT ![c].done = @ + 1]
           /\ process' = [process EXCEPT !.erase[1] = old.done + 1]
           /\ UNCHANGED <<selected, running, booted, cache, uploading>>
  <2>1. flash' \in FlashType /\ \A j \in Slots : j # old.slot => flash'[j] = flash[j]
    BY <1>1, <1>3, <1>4, <1>5, FlashReplaced DEF EraseSector
  <2>2. process' \in ProcessType  BY <1>1, <1>4, <1>5, Progress
  <2>3. r \in ConnType /\ r.pc = old.pc /\ r.slot = old.slot  BY <1>1, <1>4 DEF ConnType
  <2>4. conns' = [conns EXCEPT ![c] = r]  BY <1>1, <1>5 DEF TypeOK
  <2>5. Resumes(c, r)  BY <1>5, <2>3, <2>4, StaysStep
  <2>6. overlapped' \subseteq Conns /\ suspect' \subseteq Slots
    BY <1>1, <1>5 DEF Disturb, TypeOK
  <2> QED
    BY <1>1, <1>3, <1>5, <2>1, <2>2, <2>3, <2>5, <2>6 DEF ServerStep, Erase, act, TypeOK
<1>6. CASE Failed(c, old.slot, "StorageError", process, cache) /\ UNCHANGED image
  BY <1>1, <1>2, <1>3, <1>6, FailedStep DEF Erase, Errors, TypeOK
<1> QED  BY <1>5, <1>6 DEF Erase

\* So is the turn from erasing to writing.
LEMMA ErasedAllStep == ASSUME IInv, NEW c \in Conns, ErasedAll(c) PROVE ServerStep(c)
<1> DEFINE old == conns[c]
           len == Len[old.image]
           r == [old EXCEPT !.pc = "write", !.done = 0, !.total = len]
<1>1. TypeOK /\ old \in ConnType /\ process \in ProcessType
  BY DEF IInv, TypeOK, ConnType, ProcessType, Pairs
<1>2. len \in 0..Sectors  BY <1>1, SystemAssumption DEF ConnType, Fitting
<1>3. r \in ConnType /\ r.pc = "write" /\ r.slot = old.slot
  <2>1. 0 \in 0..Sectors /\ "write" \in Pcs  BY SystemAssumption DEF Pcs
  <2>2. ASSUME NEW n \in 0..Sectors
        PROVE  LET s == [old EXCEPT !.pc = "write", !.done = 0, !.total = n]
               IN  s \in ConnType /\ s.pc = "write" /\ s.slot = old.slot
    BY <1>1, <2>1 DEF ConnType
  <2> QED  BY <1>2, <2>2
<1>4. conns' = [conns EXCEPT ![c] = r]  BY <1>1 DEF ErasedAll, TypeOK
<1>5. Resumes(c, r)
  BY <1>3, <1>4, StaysStep DEF ErasedAll, UploadPcs
<1>6. process' \in ProcessType
  <2>1. <<0, len>> \in Pairs  BY <1>2, SystemAssumption DEF Pairs
  <2> QED  BY <1>1, <2>1 DEF ErasedAll, ProcessType, UploadStates
<1> QED
  BY <1>1, <1>3, <1>5, <1>6 DEF ServerStep, ErasedAll, image, act, hist, TypeOK, FlashType

\* So is one more sector written, or a failed write.
LEMMA WriteStep == ASSUME IInv, NEW c \in Conns, Write(c) PROVE ServerStep(c)
<1> DEFINE old == conns[c]  r == [old EXCEPT !.done = @ + 1]
<1>1. TypeOK /\ old \in ConnType /\ process \in ProcessType /\ flash \in FlashType
  BY DEF IInv, TypeOK, ConnType, ProcessType, Pairs, FlashType
<1>2. old.pc \in UploadPcs  BY DEF Write, UploadPcs
<1>3. /\ uploading /\ countdown = None
      /\ old.slot \in Slots /\ old.slot # 0 /\ old.slot # booted
  BY <1>2, UploadUnderWay
<1>4. old.done \in 0..Sectors-1 /\ old.done + 1 \in 0..Sectors
  BY <1>1, SystemAssumption DEF Write, ConnType
<1>5. CASE /\ flash' = [flash EXCEPT ![old.slot][old.done] = old.image] /\ Disturb(old.slot)
           /\ conns' = [conns EXCEPT ![c].done = @ + 1]
           /\ process' = [process EXCEPT !.write[1] = old.done + 1]
           /\ UNCHANGED <<selected, running, booted, cache, uploading>>
  <2>1. flash' \in FlashType /\ \A j \in Slots : j # old.slot => flash'[j] = flash[j]
    <3>1. old.image \in Fitting \cup {Erased}  BY <1>1 DEF ConnType
    <3> QED  BY <1>1, <1>3, <1>4, <1>5, <3>1, FlashReplaced
  <2>2. process' \in ProcessType  BY <1>1, <1>4, <1>5, Progress
  <2>3. r \in ConnType /\ r.pc = old.pc /\ r.slot = old.slot  BY <1>1, <1>4 DEF ConnType
  <2>4. conns' = [conns EXCEPT ![c] = r]  BY <1>1, <1>5 DEF TypeOK
  <2>5. Resumes(c, r)  BY <1>5, <2>3, <2>4, StaysStep
  <2>6. overlapped' \subseteq Conns /\ suspect' \subseteq Slots
    BY <1>1, <1>5 DEF Disturb, TypeOK
  <2> QED
    BY <1>1, <1>3, <1>5, <2>1, <2>2, <2>3, <2>5, <2>6 DEF ServerStep, Write, act, TypeOK
<1>6. CASE Failed(c, old.slot, "StorageError", process, cache) /\ UNCHANGED image
  BY <1>1, <1>2, <1>3, <1>6, FailedStep DEF Write, Errors, TypeOK
<1> QED  BY <1>5, <1>6 DEF Write

\* So is the end of the body, good or bad.
LEMMA StreamStep ==
  ASSUME IInv, NEW c \in Conns, StreamFails(c) \/ StreamEnds(c) PROVE ServerStep(c)
<1>1. TypeOK /\ process \in ProcessType /\ cache \in [Slots -> States]
  BY DEF IInv, TypeOK, ProcessType, Pairs
<1>2. conns[c].pc \in UploadPcs  BY DEF StreamFails, StreamEnds, UploadPcs
<1>3. /\ countdown = None
      /\ conns[c].slot \in Slots /\ conns[c].slot # 0 /\ conns[c].slot # booted
  BY <1>2, UploadUnderWay
<1>4. CASE StreamFails(c)
  <2>1. PICK e \in {"Incomplete", "OutOfMemory", "WriteFailure"} :
          Failed(c, conns[c].slot, e, process, cache)
    BY <1>4 DEF StreamFails
  <2>2. e \in Errors  BY DEF Errors
  <2> QED  BY <1>1, <1>2, <1>3, <1>4, <2>1, <2>2, FailedStep DEF StreamFails
<1>5. CASE StreamEnds(c)
  <2>1. [process EXCEPT !.state = "Identifying"] \in ProcessType
    BY <1>1 DEF ProcessType, UploadStates
  <2> QED  BY <1>1, <1>2, <1>3, <1>5, <2>1, InspectStep DEF StreamEnds
<1> QED  BY <1>4, <1>5

\* A digest that ends, with whatever verdict.
LEMMA ConcludeStep ==
  ASSUME IInv, NEW c \in Conns, Inspecting(c), NEW v \in States,
         Conclude(c, conns[c].pc, conns[c].slot, v, process, cache),
         UNCHANGED image, UNCHANGED act
  PROVE  ServerStep(c)
<1>1. TypeOK  BY DEF IInv
<1>2. /\ conns' = [conns EXCEPT ![c] = Idle]
      /\ uploading' = (conns[c].pc = "inspect" /\ uploading)
      /\ cache' \in [Slots -> States] /\ process' \in ProcessType
      /\ overlapped' \subseteq Conns /\ suspect' \subseteq Slots
  BY <1>1, ConcludeEffect
<1>3. conns[c].pc = "inspect" <=> conns[c].pc \notin UploadPcs
  BY DEF Inspecting, UploadPcs
<1>4. Resumes(c, Idle)
  BY <1>1, <1>2, <1>3, IdleType DEF Resumes, TypeOK, UploadPcs
<1> QED  BY <1>1, <1>2, <1>4, IdleType DEF ServerStep, image, act, TypeOK, FlashType

\* So is one more sector hashed, or a failed read.
LEMMA DigestStep == ASSUME IInv, NEW c \in Conns, Digest(c) PROVE ServerStep(c)
<1> DEFINE old == conns[c]
           r == [old EXCEPT !.done = @ + 1,
                            !.intact = @ /\ flash[old.slot][old.done] = old.image]
<1>1. TypeOK /\ old \in ConnType /\ process \in ProcessType
  BY DEF IInv, TypeOK, ConnType, ProcessType, Pairs
<1>2. CASE conns' = [conns EXCEPT ![c].done = @ + 1,
                                  ![c].intact = @ /\ flash[old.slot][old.done] = old.image]
           /\ UNCHANGED <<cache, uploading, process, hist>>
  <2>1. old.done + 1 \in 0..Sectors  BY <1>1, SystemAssumption DEF Digest, ConnType
  <2>2. r \in ConnType /\ r.pc = old.pc /\ r.slot = old.slot  BY <1>1, <2>1 DEF ConnType
  <2>3. conns' = [conns EXCEPT ![c] = r]  BY <1>1, <1>2 DEF TypeOK
  <2>4. Resumes(c, r)  BY <1>2, <2>2, <2>3, StaysStep
  <2> QED
    BY <1>1, <1>2, <2>2, <2>4 DEF ServerStep, Digest, image, act, hist, TypeOK, FlashType
<1>3. CASE Conclude(c, old.pc, old.slot, "Broken", process, cache)
  BY <1>3, ConcludeStep DEF Digest, States
<1> QED  BY <1>2, <1>3 DEF Digest

\* So is the verdict at the end of the digest.
LEMMA DigestedStep == ASSUME IInv, NEW c \in Conns, Digested(c) PROVE ServerStep(c)
<1> DEFINE r == conns[c]
<1>1. r.image \in Images  BY DEF IInv, TypeOK, Fitting
<1>2. Verdict[Kind[r.image]] \in States  BY <1>1, SystemAssumption, VerdictState
<1>4. PICK v : /\ v \in {"Unverified", "Broken", Verdict[Kind[r.image]]}
               /\ Inspecting(c) /\ Conclude(c, r.pc, r.slot, v, process, cache)
  BY DEF Digested
<1>3. v \in States  BY <1>2, <1>4 DEF States
<1> QED  BY <1>3, <1>4, ConcludeStep DEF Digested

-----------------------------------------------------------------------------
(* Activation, the countdown and the boot *)

\* A boot keeps the invariant: what runs then is bootable, and nothing else is under way.
LEMMA BootKeeps ==
  ASSUME IInv, NEW choice \in Slots, Boot(choice) PROVE IInv'
<1>1. PICK i \in Slots :
        /\ Bootable(flash[i]) /\ running' = i /\ booted' \in {i, None}
  BY DEF Boot
<1>2. \A j \in Slots : Truth(flash[j]) \in States
  BY TruthState DEF IInv, TypeOK
<1>3. TypeOK'
  <2>1. cache' \in [Slots -> States]  BY <1>2 DEF Boot
  <2>2. process' \in ProcessType  BY NoProcessType DEF Boot
  <2>3. conns' \in [Conns -> ConnType]  BY IdleType DEF Boot
  <2>4. task' \in [index : Slots \cup {None}, left : 0..CountdownSeconds]
    BY SystemAssumption DEF Boot, Waiting
  <2> QED
    BY <1>1, <2>1, <2>2, <2>3, <2>4
       DEF Boot, IInv, TypeOK, ConnType, ProcessType, Pairs
<1>4. \A c \in Conns : conns'[c].pc \notin UploadPcs
  BY IdleType DEF Boot, UploadPcs
<1>5. OneUpload' /\ TargetsSafe'
  BY <1>4 DEF Boot, OneUpload, TargetsSafe
<1>6. QuietCountdown' /\ CountdownExact'
  BY DEF Boot, QuietCountdown, CountdownExact
<1>7. RunningIntact'
  BY <1>1 DEF Boot, IInv, RunningIntact
<1> QED  BY <1>3, <1>5, <1>6, <1>7 DEF IInv

\* An accepted activation keeps it: it found no countdown and no upload.
LEMMA ActivateKeeps ==
  ASSUME IInv, NEW c \in Conns, NEW i \in Slots, Activate(c, i) PROVE IInv'
<1>1. TypeOK'
  <2>1. CountdownSeconds \in 0..CountdownSeconds  BY SystemAssumption
  <2> QED  BY <2>1 DEF Activate, hist, IInv, TypeOK
<1>2. OneUpload' /\ TargetsSafe' /\ RunningIntact'
  BY DEF Activate, IInv, OneUpload, TargetsSafe, RunningIntact
<1>3. QuietCountdown'
  BY DEF Activate, CheckActivatable, QuietCountdown
<1>4. CountdownExact'
  BY SystemAssumption DEF Activate, Passes, IInv, CountdownExact
<1> QED  BY <1>1, <1>2, <1>3, <1>4 DEF IInv

\* An activation that fails keeps it too: no countdown starts.
LEMMA ActivateFailsKeeps ==
  ASSUME IInv, NEW c \in Conns, NEW i \in Slots, ActivateFails(c, i) PROVE IInv'
<1>1. TypeOK'
  BY DEF ActivateFails, act, hist, IInv, TypeOK
<1>2. OneUpload' /\ TargetsSafe' /\ RunningIntact'
  BY DEF ActivateFails, IInv, OneUpload, TargetsSafe, RunningIntact
<1>3. QuietCountdown' /\ CountdownExact'
  BY DEF ActivateFails, Passes, act, IInv, QuietCountdown, CountdownExact
<1> QED  BY <1>1, <1>2, <1>3 DEF IInv

\* system_task takes the signal together with the whole countdown.
LEMMA TaskWakeKeeps == ASSUME IInv, TaskWake PROVE IInv'
<1>1. /\ countdown = CountdownSeconds /\ signal = selected /\ countdown # None
  BY DEF TaskWake, IInv, CountdownExact, Waiting
<1>2. task' = [index |-> selected, left |-> countdown]
  BY <1>1 DEF TaskWake
<1>3. TypeOK'
  BY <1>1, <1>2, SystemAssumption DEF TaskWake, image, hist, IInv, TypeOK
<1>4. OneUpload' /\ TargetsSafe' /\ RunningIntact' /\ QuietCountdown'
  BY DEF TaskWake, image, IInv, OneUpload, TargetsSafe, RunningIntact, QuietCountdown
<1>5. CountdownExact'
  BY <1>1, <1>2, SystemAssumption DEF TaskWake, image, CountdownExact
<1> QED  BY <1>3, <1>4, <1>5 DEF IInv

\* It counts its copy and the shared counter down together, never from zero.
LEMMA TickKeeps == ASSUME IInv, Tick PROVE IInv'
<1>1. /\ countdown # None /\ signal = None /\ countdown \in Nat /\ countdown > 1
      /\ task = [index |-> selected, left |-> countdown] /\ countdown <= CountdownSeconds
  BY SystemAssumption DEF Tick, IInv, TypeOK, CountdownExact, Waiting
<1>2. countdown' = countdown - 1 /\ task' = [index |-> selected, left |-> countdown - 1]
  BY <1>1 DEF Tick, FetchSub
<1>3. countdown' # None  BY <1>1, <1>2, SystemAssumption
<1>4. TypeOK'
  <2>1. countdown - 1 \in 0..CountdownSeconds  BY <1>1, SystemAssumption
  <2>2. task' \in [index : Slots \cup {None}, left : 0..CountdownSeconds]
    BY <1>2, <2>1 DEF IInv, TypeOK
  <2> QED  BY <1>2, <2>1, <2>2 DEF Tick, image, hist, IInv, TypeOK
<1>5. OneUpload' /\ TargetsSafe' /\ RunningIntact'
  BY DEF Tick, image, IInv, OneUpload, TargetsSafe, RunningIntact
<1>6. QuietCountdown'
  BY <1>1 DEF Tick, IInv, QuietCountdown
<1>7. CountdownExact'
  BY <1>1, <1>2, <1>3 DEF Tick, image, CountdownExact
<1> QED  BY <1>4, <1>5, <1>6, <1>7 DEF IInv

\* When it gives up, both are cleared.
LEMMA TaskGivesUpKeeps == ASSUME IInv, TaskGivesUp PROVE IInv'
<1>1. signal = None  BY DEF TaskGivesUp, IInv, CountdownExact, Waiting
<1>2. TypeOK'
  <2>1. task' \in [index : Slots \cup {None}, left : 0..CountdownSeconds]
    BY SystemAssumption DEF TaskGivesUp, Waiting
  <2> QED  BY <2>1 DEF TaskGivesUp, image, hist, IInv, TypeOK
<1>3. OneUpload' /\ TargetsSafe' /\ RunningIntact' /\ QuietCountdown'
  BY DEF TaskGivesUp, image, IInv, OneUpload, TargetsSafe, RunningIntact, QuietCountdown
<1>4. CountdownExact'  BY <1>1 DEF TaskGivesUp, CountdownExact
<1> QED  BY <1>2, <1>3, <1>4 DEF IInv

-----------------------------------------------------------------------------
(* The invariant *)

\* The device starts with the invariant.
LEMMA InitIInv == Init => IInv
<1> SUFFICES ASSUME Init PROVE IInv  OBVIOUS
<1>1. flash \in FlashType
  <2>1. Blank \in [0..Sectors-1 -> Fitting \cup {Erased}]  BY DEF Blank
  <2>2. \A img \in Fitting : Holding(img) \in [0..Sectors-1 -> Fitting \cup {Erased}]
    BY DEF Holding
  <2> QED  BY <2>1, <2>2 DEF Init, FlashType
<1>2. cache \in [Slots -> States]
  BY <1>1, TruthState DEF Init, FlashType
<1>3. TypeOK
  <2>1. task \in [index : Slots \cup {None}, left : 0..CountdownSeconds]
    BY SystemAssumption DEF Init, Waiting
  <2>2. conns \in [Conns -> ConnType] /\ process \in ProcessType
    BY IdleType, NoProcessType DEF Init
  <2> QED
    BY <1>1, <1>2, <2>1, <2>2, SystemAssumption
       DEF Init, TypeOK, FlashType, ConnType, ProcessType, Pairs
<1>4. OneUpload /\ TargetsSafe
  <2>1. \A c \in Conns : conns[c].pc \notin UploadPcs
    BY IdleType DEF Init, UploadPcs
  <2> QED  BY <2>1 DEF Init, OneUpload, TargetsSafe
<1>5. QuietCountdown /\ CountdownExact  BY DEF Init, QuietCountdown, CountdownExact
<1>6. RunningIntact  BY FactoryBoots DEF Init, RunningIntact
<1> QED  BY <1>3, <1>4, <1>5, <1>6 DEF IInv

\* Every step keeps it.
LEMMA NextIInv == IInv /\ [Next]_vars => IInv'
<1> SUFFICES ASSUME IInv, [Next]_vars PROVE IInv'  OBVIOUS
<1>1. ASSUME NEW c \in Conns, Request(c) PROVE IInv'
  <2>1. CASE \E i \in Slots : InspectRequest(c, i)
    BY <2>1, InspectRequestStep, ServerStepKeeps
  <2>2. CASE \E i \in Slots : Activate(c, i)
    BY <2>2, ActivateKeeps
  <2>5. CASE \E i \in Slots : ActivateFails(c, i)
    BY <2>5, ActivateFailsKeeps
  <2>3. CASE \E i \in Slots \cup Absent, img \in Images : UploadTurnedAway(c, i, img)
    BY <2>3, UploadTurnedAwayStep, ServerStepKeeps
  <2>4. CASE \E i \in Slots, img \in Images, total \in 1..Sectors :
               UploadRequest(c, i, img, total)
    BY <2>4, UploadRequestStep, ServerStepKeeps
  <2> QED  BY <1>1, <2>1, <2>2, <2>3, <2>4, <2>5 DEF Request
<1>2. ASSUME NEW c \in Conns, Step(c) PROVE IInv'
  <2>1. ServerStep(c)
    BY <1>2, EraseStep, ErasedAllStep, WriteStep, StreamStep, DigestStep, DigestedStep
       DEF Step
  <2> QED  BY <2>1, ServerStepKeeps
<1>3. CASE TaskStep
  <2>1. selected \in Slots  BY DEF IInv, TypeOK
  <2> QED
    BY <1>3, <2>1, TaskWakeKeeps, TickKeeps, TaskGivesUpKeeps, BootKeeps
       DEF TaskStep, TaskReset
<1>4. CASE Restart
  <2>1. selected \in Slots /\ 0 \in Slots  BY SystemAssumption DEF IInv, TypeOK
  <2> QED  BY <1>4, <2>1, BootKeeps DEF Restart
<1>5. CASE UNCHANGED vars
  BY <1>5
     DEF IInv, TypeOK, OneUpload, QuietCountdown, CountdownExact, TargetsSafe,
         RunningIntact, vars, image, act, hist
<1> QED  BY <1>1, <1>2, <1>3, <1>4, <1>5 DEF Next

\* The inductive invariant holds in every reachable state.
THEOREM SystemInvariant == Spec => []IInv
<1>1. Init => IInv  BY InitIInv
<1>2. IInv /\ [Next]_vars => IInv'  BY NextIInv
<1> QED  BY <1>1, <1>2, PTL DEF Spec

\* Every variable keeps its type: whatever is uploaded, a digest or a write stays
\* within its slot and the shared countdown never wraps.
THEOREM SystemTypeCorrect == Spec => []TypeOK
<1>1. IInv => TypeOK  BY DEF IInv
<1> QED  BY <1>1, SystemInvariant, PTL

\* At most one server task is inside an upload, and the flag says so.
THEOREM SystemOneUpload == Spec => []OneUpload
<1>1. IInv => OneUpload  BY DEF IInv
<1> QED  BY <1>1, SystemInvariant, PTL

\* No upload and no countdown at the same time.
THEOREM SystemQuietCountdown == Spec => []QuietCountdown
<1>1. IInv => QuietCountdown  BY DEF IInv
<1> QED  BY <1>1, SystemInvariant, PTL

\* The shared counter is the one system_task counts.
THEOREM SystemCountdownExact == Spec => []CountdownExact
<1>1. IInv => CountdownExact  BY DEF IInv
<1> QED  BY <1>1, SystemInvariant, PTL

\* The factory image and the image known to be running survive every upload.
THEOREM SystemRunningIntact == Spec => []RunningIntact
<1>1. IInv => RunningIntact  BY DEF IInv
<1> QED  BY <1>1, SystemInvariant, PTL

-----------------------------------------------------------------------------
(* The progress of an upload *)

\* The slot holds the first n sectors of the image that task r uploads.
Written(r, n) == \A s \in 0..n-1 : flash[r.slot][s] = r.image

\* What the progress record says while a task is in a phase of an upload, and what
\* its slot holds then.
Phase(r) ==
  /\ r.pc = "erase" => process.state = "Erasing" /\ process.message = None
  /\ r.pc = "write" => /\ process.state = "Writing" /\ process.message = None
                       /\ process.write = <<r.done, r.total>>
                       /\ r.total = Len[r.image] /\ Written(r, r.done)
  /\ r.pc = "identify" => /\ process.state = "Identifying" /\ process.message = None
                          /\ process.write = <<r.total, r.total>>
                          /\ r.total = Len[r.image] /\ Written(r, r.total)
  /\ r.pc = "reinspect" => process.state \in {"Erasing", "Writing"} /\ process.message # None

PInv == ProgressExplained /\ \A c \in Conns : Phase(conns[c])

\* While a task is inside an upload, only its phase matters.
LEMMA PhaseOfOne ==
  ASSUME IInv', NEW c \in Conns, conns'[c].pc \in UploadPcs, Phase(conns[c])'
  PROVE  PInv'
<1>1. uploading' /\ \A d \in Conns : conns'[d].pc \in UploadPcs => d = c
  BY DEF IInv, OneUpload
<1>2. \A d \in Conns : conns'[d].pc \notin UploadPcs => Phase(conns[d])'
  BY DEF Phase, UploadPcs
<1> QED
  BY <1>1, <1>2 DEF PInv, ProgressExplained

\* Between uploads, only the record matters.
LEMMA PhaseOfNone ==
  ASSUME IInv', ~uploading', ProgressExplained'
  PROVE  PInv'
<1>1. \A d \in Conns : conns'[d].pc \notin UploadPcs
  BY DEF IInv, OneUpload
<1> QED
  BY <1>1 DEF PInv, Phase, UploadPcs

\* What another task does, or system_task, is no business of an upload.
LEMMA PhaseOfOthers ==
  ASSUME IInv, IInv', PInv, UNCHANGED <<flash, process, uploading>>,
         NEW c \in Conns, NEW r, conns' = [conns EXCEPT ![c] = r],
         r.pc \notin UploadPcs, conns[c].pc \notin UploadPcs
  PROVE  PInv'
<1>1. \A d \in Conns : conns'[d] = IF d = c THEN r ELSE conns[d]
  BY DEF IInv, TypeOK
<1>2. \A d \in Conns : Phase(conns[d])'
  BY <1>1 DEF PInv, Phase, Written, UploadPcs
<1> QED
  BY <1>2 DEF PInv, ProgressExplained

\* An upload that failed keeps its message, whatever is found in its slot.
LEMMA FailedPhase ==
  ASSUME IInv, IInv', NEW c \in Conns, NEW i \in Slots, NEW e \in Errors,
         NEW p \in ProcessType, p.state \in {"Erasing", "Writing"}, NEW known,
         Failed(c, i, e, p, known)
  PROVE  PInv'
<1> DEFINE q == [p EXCEPT !.message = e]
<1>1. q.state = p.state /\ q.message = e /\ e # None
  BY ErrorsAssumption DEF ProcessType
<1>2. Inspect(c, "reinspect", i, q, known)
  BY DEF Failed
<1> HIDE DEF q
<1>3. CASE \E v : Conclude(c, "reinspect", i, v, q, known)
  <2>1. ~uploading' /\ process' = q
    BY <1>3 DEF Conclude
  <2>2. ProgressExplained'
    BY <1>1, <2>1 DEF ProgressExplained
  <2> QED
    BY <2>1, <2>2, PhaseOfNone
<1>4. CASE /\ conns' = [conns EXCEPT ![c] =
                [pc |-> "reinspect", slot |-> i, image |-> flash[i][0], done |-> 1,
                 total |-> Len[flash[i][0]], intact |-> TRUE]]
           /\ process' = q
  <2>1. conns'[c].pc = "reinspect"
    BY <1>4 DEF IInv, TypeOK
  <2>2. Phase(conns[c])'
    BY <1>1, <1>4, <2>1 DEF Phase
  <2> QED
    BY <2>1, <2>2, PhaseOfOne DEF UploadPcs
<1> QED
  BY <1>2, <1>3, <1>4 DEF Inspect

\* A failed upload keeps its state.
LEMMA FailedState ==
  ASSUME NEW c, NEW i, NEW e, NEW p \in ProcessType, p.state \in {"Erasing", "Writing"},
         NEW known, Failed(c, i, e, p, known)
  PROVE  process'.state # "Ready"
<1> DEFINE q == [p EXCEPT !.message = e]
<1>1. q.state = p.state
  BY DEF ProcessType
<1> HIDE DEF q
<1>2. Inspect(c, "reinspect", i, q, known)
  BY DEF Failed, q
<1>3. process' = q
  BY <1>2 DEF Inspect, Conclude
<1> QED
  BY <1>1, <1>3

\* An upload that comes to its end is identified: it cannot be Ready at once.
LEMMA IdentifyPhase ==
  ASSUME IInv, IInv', PInv, NEW c \in Conns, StreamEnds(c)
  PROVE  PInv' /\ process'.state # "Ready"
<1> DEFINE old == conns[c]
           q == [process EXCEPT !.state = "Identifying"]
<1>1. /\ old.pc = "write" /\ old.done = old.total /\ flash' = flash
      /\ old.slot \in Slots /\ old.image \in Fitting /\ old.image \in Images
      /\ Len[old.image] \in Nat \ {0} /\ Len[old.image] <= Sectors
      /\ flash[old.slot] \in [0..Sectors-1 -> Fitting \cup {Erased}]
      /\ process \in ProcessType
  BY SystemAssumption
  DEF StreamEnds, image, IInv, TypeOK, Fitting, ProcessType, Pairs
<1>2. /\ process.message = None /\ process.write = <<old.total, old.total>>
      /\ old.total = Len[old.image] /\ Written(old, old.total)
  BY <1>1 DEF PInv, Phase
<1>3. q.state = "Identifying" /\ q.message = None /\ q.write = <<old.total, old.total>>
  BY <1>1, <1>2 DEF ProcessType
<1>4. flash[old.slot][0] = old.image
  BY <1>1, <1>2 DEF Written
<1>5. Inspect(c, "identify", old.slot, q, cache)
  BY DEF StreamEnds
<1>6. q \in ProcessType
  BY <1>1 DEF ProcessType, UploadStates
<1> HIDE DEF q, old
<1>7. ASSUME NEW v \in Immediate(flash[old.slot], "identify") \cup Unread(flash[old.slot]),
             Conclude(c, "identify", old.slot, v, q, cache)
      PROVE  PInv' /\ process'.state # "Ready"
  <2>1. ~Activatable(v)
    BY <1>7 DEF Immediate, Unread, Activatable, Verdict
  <2>2. process' = [q EXCEPT !.state = "Failed"] /\ ~uploading'
    BY <1>7, <2>1 DEF Conclude
  <2>3. process'.state = "Failed" /\ process'.message = None
    BY <1>3, <1>6, <2>2 DEF ProcessType
  <2>4. ProgressExplained'
    BY <2>3 DEF ProgressExplained
  <2> QED
    BY <2>2, <2>3, <2>4, PhaseOfNone
<1>8. CASE /\ conns' = [conns EXCEPT ![c] =
                [pc |-> "identify", slot |-> old.slot, image |-> flash[old.slot][0],
                 done |-> 1, total |-> Len[flash[old.slot][0]], intact |-> TRUE]]
           /\ process' = q
  <2>1. conns'[c] = [pc |-> "identify", slot |-> old.slot, image |-> old.image,
                     done |-> 1, total |-> old.total, intact |-> TRUE]
    BY <1>2, <1>4, <1>8 DEF IInv, TypeOK
  <2>2. Phase(conns[c])'
    BY <1>1, <1>2, <1>3, <1>8, <2>1 DEF Phase, Written
  <2>3. conns'[c].pc \in UploadPcs
    BY <2>1 DEF UploadPcs
  <2> QED
    BY <1>3, <1>8, <2>2, <2>3, PhaseOfOne
<1> QED
  BY <1>5, <1>7, <1>8 DEF Inspect

\* The last verdict on an upload: Ready only when the slot holds the whole image.
LEMMA VerdictPhase ==
  ASSUME IInv, IInv', PInv, NEW c \in Conns, Inspecting(c), NEW v \in States,
         Conclude(c, conns[c].pc, conns[c].slot, v, process, cache), flash' = flash,
         Activatable(v) => v = Verdict[Kind[conns[c].image]]
  PROVE  /\ PInv'
         /\ process'.state = "Ready" /\ process.state # "Ready" =>
              /\ conns[c].pc = "identify" /\ Bootable(flash'[conns[c].slot])
              /\ flash'[conns[c].slot][0] = conns[c].image
<1> DEFINE old == conns[c]
<1>1. process \in ProcessType /\ old \in ConnType
  BY DEF IInv, TypeOK, ProcessType, Pairs, ConnType
<1>2. CASE old.pc = "inspect"
  <2>1. process' = process /\ uploading' = uploading /\ conns' = [conns EXCEPT ![c] = Idle]
    BY <1>2 DEF Conclude, IInv, TypeOK
  <2> QED
    BY <1>2, <2>1, IdleType, PhaseOfOthers DEF UploadPcs
<1>3. CASE old.pc = "reinspect"
  <2>1. process' = process /\ ~uploading'
    BY <1>3 DEF Conclude
  <2>2. process.state \in {"Erasing", "Writing"} /\ process.message # None
    BY <1>3 DEF PInv, Phase
  <2>3. ProgressExplained'
    BY <2>1, <2>2 DEF ProgressExplained
  <2> QED
    BY <2>1, <2>3, PhaseOfNone
<1>4. CASE old.pc = "identify"
  <2>1. /\ process' = [process EXCEPT !.state = IF Activatable(v) THEN "Ready" ELSE "Failed"]
        /\ ~uploading'
    BY <1>4 DEF Conclude
  <2>2. /\ process.message = None /\ process.write = <<old.total, old.total>>
        /\ old.total = Len[old.image] /\ Written(old, old.total)
    BY <1>4 DEF PInv, Phase
  <2>3. /\ process'.state = IF Activatable(v) THEN "Ready" ELSE "Failed"
        /\ process'.message = None /\ process'.write = <<old.total, old.total>>
    BY <1>1, <2>1, <2>2 DEF ProcessType
  <2>4. ProgressExplained'
    BY <2>3 DEF ProgressExplained
  <2>5. ASSUME process'.state = "Ready"
        PROVE  Bootable(flash'[old.slot]) /\ flash'[old.slot][0] = old.image
    <3>1. v = Verdict[Kind[old.image]] /\ Activatable(v)
      BY <2>3, <2>5
    <3>2. /\ old.image \in Images /\ old.image # Erased
          /\ Len[old.image] \in Nat \ {0} /\ Len[old.image] <= Sectors
      BY <1>1, SystemAssumption DEF ConnType, Fitting
    <3>3. \A s \in 0..Len[old.image]-1 : flash[old.slot][s] = old.image
      BY <2>2 DEF Written
    <3>4. flash[old.slot][0] = old.image
      BY <3>2, <3>3
    <3> QED
      BY <3>1, <3>2, <3>3, <3>4 DEF Bootable, Intact
  <2> QED
    BY <1>4, <2>1, <2>4, <2>5, PhaseOfNone
<1> QED
  BY <1>2, <1>3, <1>4 DEF Inspecting

\* The first erase, or a failed one.
LEMMA UploadRequestPhase ==
  ASSUME IInv, IInv', PInv, NEW c \in Conns, NEW i \in Slots, NEW img \in Images,
         NEW total \in 1..Sectors, UploadRequest(c, i, img, total)
  PROVE  PInv' /\ process'.state # "Ready"
<1> DEFINE p == [NoProcess EXCEPT !.state = "Erasing", !.erase = <<0, total>>]
           known == [cache EXCEPT ![i] = "Unchecked"]
<1>1. <<0, total>> \in Pairs  BY SystemAssumption DEF Pairs
<1>2. /\ p \in ProcessType /\ p.state = "Erasing" /\ p.message = None
      /\ p.erase = <<0, total>>
  BY <1>1, NoProcessType DEF NoProcess, ProcessType, UploadStates
<1>3. CASE /\ process' = [p EXCEPT !.erase[1] = 1]
           /\ conns' = [conns EXCEPT ![c] =
                [pc |-> "erase", slot |-> i, image |-> img, done |-> 1,
                 total |-> total, intact |-> TRUE]]
  <2>1. process'.state = "Erasing" /\ process'.message = None
    BY <1>2, <1>3 DEF ProcessType
  <2>2. conns'[c].pc = "erase"
    BY <1>3 DEF IInv, TypeOK
  <2>3. Phase(conns[c])' /\ conns'[c].pc \in UploadPcs
    BY <2>1, <2>2 DEF Phase, UploadPcs
  <2> QED
    BY <2>1, <2>3, PhaseOfOne
<1>4. CASE Failed(c, i, "StorageError", p, known)
  BY <1>2, <1>4, FailedPhase, FailedState DEF Errors
<1> QED
  BY <1>3, <1>4 DEF UploadRequest

\* The steps inside an upload that end in no verdict.
LEMMA UploadStepPhase ==
  ASSUME IInv, IInv', PInv, NEW c \in Conns,
         Erase(c) \/ ErasedAll(c) \/ Write(c) \/ StreamFails(c)
  PROVE  PInv' /\ process'.state # "Ready"
<1> DEFINE old == conns[c]
<1>1. /\ process \in ProcessType /\ old \in ConnType /\ conns \in [Conns -> ConnType]
      /\ old.slot \in Slots /\ old.done \in Nat /\ old.total \in Nat /\ Phase(old)
      /\ flash \in FlashType /\ cache \in [Slots -> States]
  <2>1. process \in ProcessType /\ flash \in FlashType /\ cache \in [Slots -> States]
    BY DEF IInv, TypeOK, ProcessType, Pairs, FlashType
  <2>2. conns \in [Conns -> ConnType] /\ old \in ConnType
    BY DEF IInv, TypeOK, ConnType
  <2>3. old.slot \in Slots /\ old.done \in Nat /\ old.total \in Nat
    BY <2>2, SystemAssumption DEF ConnType
  <2> QED
    BY <2>1, <2>2, <2>3 DEF PInv
<1>2. ASSUME NEW e \in Errors, Failed(c, old.slot, e, process, cache),
             old.pc \in {"erase", "write"}
      PROVE  PInv' /\ process'.state # "Ready"
  <2>1. process.state \in {"Erasing", "Writing"}
    BY <1>1, <1>2 DEF Phase
  <2> QED
    BY <1>1, <1>2, <2>1, FailedPhase, FailedState
<1>3. ASSUME conns'[c].pc \in UploadPcs, Phase(conns[c])',
             process'.state \in {"Erasing", "Writing"}
      PROVE  PInv' /\ process'.state # "Ready"
  BY <1>3, PhaseOfOne
<1>4. CASE Erase(c)
  <2>1. CASE /\ conns' = [conns EXCEPT ![c].done = @ + 1]
             /\ process' = [process EXCEPT !.erase[1] = old.done + 1]
    <3>1. conns'[c].pc = "erase"
      BY <1>1, <1>4, <2>1 DEF Erase, ConnType
    <3>2. process'.state = "Erasing" /\ process'.message = None
      BY <1>1, <1>4, <2>1 DEF Erase, Phase, ProcessType
    <3> QED
      BY <1>3, <3>1, <3>2 DEF Phase, UploadPcs
  <2>2. CASE Failed(c, old.slot, "StorageError", process, cache)
    BY <1>2, <1>4, <2>2 DEF Erase, Errors
  <2> QED
    BY <1>4, <2>1, <2>2 DEF Erase
<1>5. CASE ErasedAll(c)
  <2> DEFINE len == Len[old.image]
  <2>1. /\ process' = [process EXCEPT !.state = "Writing", !.write = <<0, len>>]
        /\ conns' = [conns EXCEPT ![c].pc = "write", ![c].done = 0, ![c].total = len]
        /\ process.message = None
    BY <1>1, <1>5 DEF ErasedAll, Phase
  <2>2. /\ conns'[c].pc = "write" /\ conns'[c].done = 0 /\ conns'[c].total = len
        /\ conns'[c].image = old.image
    BY <1>1, <2>1 DEF ConnType
  <2>3. process'.state = "Writing" /\ process'.message = None /\ process'.write = <<0, len>>
    BY <1>1, <2>1 DEF ProcessType
  <2>4. Phase(conns[c])'
    BY <2>2, <2>3 DEF Phase, Written
  <2> QED
    BY <1>3, <2>2, <2>3, <2>4 DEF UploadPcs
<1>6. CASE Write(c)
  <2>1. CASE /\ flash' = [flash EXCEPT ![old.slot][old.done] = old.image]
             /\ conns' = [conns EXCEPT ![c].done = @ + 1]
             /\ process' = [process EXCEPT !.write[1] = old.done + 1]
    <3>1. /\ conns'[c].pc = "write" /\ conns'[c].done = old.done + 1
          /\ conns'[c].total = old.total /\ conns'[c].image = old.image
          /\ conns'[c].slot = old.slot
      BY <1>1, <1>6, <2>1 DEF Write, ConnType
    <3>2. /\ process.state = "Writing" /\ process.message = None
          /\ process.write = <<old.done, old.total>>
          /\ old.total = Len[old.image] /\ Written(old, old.done)
          /\ old.done < old.total /\ old.total <= Sectors
      BY <1>1, <1>6, SystemAssumption DEF Write, Phase, ConnType
    <3>3. /\ process'.state = "Writing" /\ process'.message = None
          /\ process'.write = <<old.done + 1, old.total>>
      BY <1>1, <2>1, <3>2 DEF ProcessType, Pairs
    <3>4. \A s \in 0..old.done : flash'[old.slot][s] = old.image
      <4>1. \A s \in 0..Sectors-1 :
              flash'[old.slot][s] = IF s = old.done THEN old.image ELSE flash[old.slot][s]
        BY <1>1, <2>1, <3>2 DEF FlashType
      <4>2. \A s \in 0..old.done-1 : flash[old.slot][s] = old.image
        BY <3>2 DEF Written
      <4> QED  BY <1>1, <3>2, <4>1, <4>2, SystemAssumption
    <3>5. \A s \in 0..conns'[c].done-1 : flash'[conns'[c].slot][s] = conns'[c].image
      BY <1>1, <3>1, <3>4
    <3>6. Phase(conns[c])'
      BY <3>1, <3>2, <3>3, <3>5 DEF Phase, Written
    <3> QED
      BY <1>3, <3>1, <3>3, <3>6 DEF UploadPcs
  <2>2. CASE Failed(c, old.slot, "StorageError", process, cache)
    BY <1>2, <1>6, <2>2 DEF Write, Errors
  <2> QED
    BY <1>6, <2>1, <2>2 DEF Write
<1>7. CASE StreamFails(c)
  BY <1>2, <1>7 DEF StreamFails, Errors
<1> QED
  BY <1>4, <1>5, <1>6, <1>7

\* One sector hashed, or a failed read.
LEMMA DigestPhase ==
  ASSUME IInv, IInv', PInv, NEW c \in Conns, Digest(c)
  PROVE  PInv' /\ (process'.state = "Ready" => process.state = "Ready")
<1> DEFINE old == conns[c]
<1>1. CASE /\ conns' = [conns EXCEPT
                ![c].done = @ + 1,
                ![c].intact = @ /\ flash[conns[c].slot][conns[c].done] = conns[c].image]
           /\ UNCHANGED <<cache, uploading, process, hist>>
  <2>1. conns \in [Conns -> ConnType] /\ old \in ConnType
    BY DEF IInv, TypeOK, ConnType
  <2>2. \A d \in Conns : /\ conns'[d].pc = conns[d].pc /\ conns'[d].slot = conns[d].slot
                         /\ conns'[d].total = conns[d].total
                         /\ conns'[d].image = conns[d].image
                         /\ conns[d].pc = "write" => conns'[d].done = conns[d].done
    BY <1>1, <2>1 DEF ConnType, Digest, Inspecting
  <2>3. flash' = flash /\ process' = process /\ uploading' = uploading
    BY <1>1 DEF Digest, image
  <2>4. \A d \in Conns : Phase(conns[d])'
    BY <2>2, <2>3 DEF PInv, Phase, Written
  <2> QED
    BY <2>3, <2>4 DEF PInv, ProgressExplained
<1>2. CASE Conclude(c, old.pc, old.slot, "Broken", process, cache)
  <2>1. flash' = flash /\ Inspecting(c) /\ ~Activatable("Broken") /\ "Broken" \in States
    BY DEF Digest, image, Activatable, States
  <2>2. PInv'
    BY <1>2, <2>1, VerdictPhase
  <2>3. process' = process \/ process' = [process EXCEPT !.state = "Failed"]
    BY <1>2, <2>1 DEF Conclude
  <2>4. process \in ProcessType
    BY DEF IInv, TypeOK, ProcessType, Pairs
  <2> QED
    BY <2>2, <2>3, <2>4 DEF ProcessType
<1> QED
  BY <1>1, <1>2 DEF Digest

\* The verdict on a slot.
LEMMA DigestedPhase ==
  ASSUME IInv, IInv', PInv, NEW c \in Conns, Digested(c)
  PROVE  /\ PInv'
         /\ process'.state = "Ready" /\ process.state # "Ready" =>
              /\ conns[c].pc = "identify" /\ Bootable(flash'[conns[c].slot])
              /\ flash'[conns[c].slot][0] = conns[c].image
<1> DEFINE r == conns[c]
<1>1. r.image \in Images  BY DEF IInv, TypeOK, Fitting
<1>2. Verdict[Kind[r.image]] \in States  BY <1>1, SystemAssumption, VerdictState
<1>4. PICK v : /\ v \in {"Broken", Verdict[Kind[r.image]]}
               /\ Inspecting(c) /\ Conclude(c, r.pc, r.slot, v, process, cache)
               /\ flash' = flash
  BY DEF Digested, Verdict, image
<1>3. v \in States  BY <1>2, <1>4 DEF States
<1>5. Activatable(v) => v = Verdict[Kind[r.image]]
  BY <1>4 DEF Activatable
<1> QED
  BY <1>3, <1>4, <1>5, VerdictPhase

\* A request that begins no upload.
LEMMA RequestPhase ==
  ASSUME IInv, IInv', PInv, NEW c \in Conns,
         \/ \E i \in Slots : InspectRequest(c, i) \/ Activate(c, i) \/ ActivateFails(c, i)
         \/ \E i \in Slots \cup Absent, img \in Images : UploadTurnedAway(c, i, img)
  PROVE  PInv' /\ (process'.state = "Ready" => process.state = "Ready")
<1>1. CASE \E i \in Slots : InspectRequest(c, i)
  <2>1. PICK i \in Slots : Inspect(c, "inspect", i, process, cache)
    BY <1>1 DEF InspectRequest
  <2>2. conns[c].pc = "idle" /\ flash' = flash
    BY <1>1 DEF InspectRequest, Passes, image
  <2>3. /\ process' = process /\ uploading' = uploading
        /\ \E r : conns' = [conns EXCEPT ![c] = r] /\ r.pc \notin UploadPcs
    <3>1. uploading \in BOOLEAN
      BY DEF IInv, TypeOK
    <3>2. CASE \E v : Conclude(c, "inspect", i, v, process, cache)
      BY <3>1, <3>2, IdleType DEF Conclude, UploadPcs
    <3>3. CASE /\ conns' = [conns EXCEPT ![c] =
                    [pc |-> "inspect", slot |-> i, image |-> flash[i][0], done |-> 1,
                     total |-> Len[flash[i][0]], intact |-> TRUE]]
               /\ uploading' = ("inspect" # "inspect" \/ uploading) /\ process' = process
      <4> DEFINE r == [pc |-> "inspect", slot |-> i, image |-> flash[i][0], done |-> 1,
                       total |-> Len[flash[i][0]], intact |-> TRUE]
      <4>1. r.pc \notin UploadPcs
        BY DEF UploadPcs
      <4>2. conns' = [conns EXCEPT ![c] = r]
        BY <3>3
      <4>3. uploading' = uploading /\ process' = process
        BY <3>1, <3>3
      <4> HIDE DEF r
      <4> QED
        BY <4>1, <4>2, <4>3
    <3> QED
      BY <2>1, <3>2, <3>3 DEF Inspect
  <2> QED
    BY <2>2, <2>3, PhaseOfOthers DEF UploadPcs
<1>2. CASE \E i \in Slots : Activate(c, i) \/ ActivateFails(c, i)
  <2>1. UNCHANGED <<flash, process, uploading, conns>>
    BY <1>2 DEF Activate, ActivateFails
  <2> QED
    BY <2>1 DEF PInv, ProgressExplained, Phase, Written
<1>3. CASE \E i \in Slots \cup Absent, img \in Images : UploadTurnedAway(c, i, img)
  <2>1. PICK e \in {"Invalid", "OutOfMemory"} :
          /\ process' = [NoProcess EXCEPT !.state = "Received", !.message = e]
          /\ uploading' = uploading /\ ~uploading
    BY <1>3 DEF UploadTurnedAway, UploadAllowed
  <2>2. process'.state = "Received" /\ process'.message = e /\ e # None
    BY <2>1, ErrorsAssumption DEF NoProcess, Errors
  <2>3. ProgressExplained'
    BY <2>2 DEF ProgressExplained
  <2> QED
    BY <2>1, <2>2, <2>3, PhaseOfNone
<1> QED
  BY <1>1, <1>2, <1>3

\* A boot begins anew; system_task alone touches no progress.
LEMMA TaskPhase ==
  ASSUME IInv, IInv', PInv, TaskStep \/ Restart
  PROVE  PInv' /\ (process'.state = "Ready" => process.state = "Ready")
<1>1. CASE \E s : Boot(s)
  <2>1. process' = NoProcess /\ ~uploading'
    BY <1>1 DEF Boot
  <2>2. process'.state = "Idle"
    BY <2>1 DEF NoProcess
  <2>3. ProgressExplained'
    BY <2>1, <2>2 DEF ProgressExplained, NoProcess
  <2> QED
    BY <2>1, <2>2, <2>3, PhaseOfNone
<1>2. CASE TaskWake \/ Tick \/ TaskGivesUp
  <2>1. UNCHANGED <<flash, process, uploading, conns>>
    BY <1>2 DEF TaskWake, Tick, TaskGivesUp, image
  <2> QED
    BY <2>1 DEF PInv, ProgressExplained, Phase, Written
<1> QED
  BY <1>1, <1>2 DEF TaskStep, TaskReset, Restart

\* Ready is reported of a slot that holds the whole image.
ReadyStep ==
  process'.state = "Ready" /\ process.state # "Ready" =>
    \E c \in Conns : conns[c].pc \in UploadPcs /\ Bootable(flash'[conns[c].slot])
                   /\ flash'[conns[c].slot][0] = conns[c].image

\* Every step keeps the record in step with the upload, and reports no part Ready.
LEMMA NextPhase ==
  ASSUME IInv, IInv', PInv, [Next]_vars
  PROVE  PInv' /\ ReadyStep
<1>1. ASSUME NEW c \in Conns, Request(c) PROVE PInv' /\ ReadyStep
  BY <1>1, RequestPhase, UploadRequestPhase DEF Request, ReadyStep
<1>2. ASSUME NEW c \in Conns, Step(c) PROVE PInv' /\ ReadyStep
  <2>1. CASE Erase(c) \/ ErasedAll(c) \/ Write(c) \/ StreamFails(c)
    BY <2>1, UploadStepPhase DEF ReadyStep
  <2>2. CASE StreamEnds(c)
    BY <2>2, IdentifyPhase DEF ReadyStep
  <2>3. CASE Digest(c)
    BY <2>3, DigestPhase DEF ReadyStep
  <2>4. CASE Digested(c)
    BY <2>4, DigestedPhase DEF ReadyStep, UploadPcs
  <2> QED
    BY <1>2, <2>1, <2>2, <2>3, <2>4 DEF Step
<1>3. CASE TaskStep \/ Restart
  BY <1>3, TaskPhase DEF ReadyStep
<1>4. CASE UNCHANGED vars
  <2>1. UNCHANGED <<flash, process, uploading, conns>>
    BY <1>4 DEF vars, image
  <2> QED
    BY <2>1 DEF PInv, ProgressExplained, Phase, Written, ReadyStep
<1> QED
  BY <1>1, <1>2, <1>3, <1>4 DEF Next

\* Nothing was uploaded yet.
LEMMA InitPhase == Init => PInv
<1> SUFFICES ASSUME Init PROVE PInv
  OBVIOUS
<1>1. \A c \in Conns : conns[c].pc = "idle"
  BY IdleType DEF Init
<1>2. process = NoProcess /\ process.state = "Idle"
  BY DEF Init, NoProcess
<1> QED
  BY <1>1, <1>2 DEF PInv, Phase, ProgressExplained

\* A client that polls the progress can tell how an upload ended.
THEOREM SystemProgressExplained == Spec => []ProgressExplained
<1>1. IInv /\ PInv /\ [Next]_vars => (IInv /\ PInv)'
  BY NextIInv, NextPhase
<1>2. PInv => ProgressExplained
  BY DEF PInv
<1> QED
  BY InitIInv, InitPhase, <1>1, <1>2, PTL DEF Spec

\* An upload is reported Ready only when its whole image is in the slot, for images
\* that an inspection cannot tell from a part of them too.
THEOREM SystemReadyIsComplete == Spec => ReadyIsComplete
<1>1. IInv /\ PInv /\ [Next]_vars => (IInv /\ PInv)' /\ [ReadyStep]_vars
  BY NextIInv, NextPhase
<1> QED
  BY InitIInv, InitPhase, <1>1, PTL DEF Spec, ReadyIsComplete, ReadyStep

-----------------------------------------------------------------------------
(* The states of the slots *)

\* What an inspection has seen so far is what its slot holds.
Seen(r) ==
  /\ r.image = flash[r.slot][0] /\ r.total = Len[r.image]
  /\ Kind[r.image] \notin {"junk", "alien", "torn"}
  /\ r.done >= 1
  /\ r.intact <=> \A s \in 1..r.done-1 : flash[r.slot][s] = r.image

\* An inspection that was not overlapped is right, and only those of clients are.
Inspections ==
  \A c \in Conns : /\ c \in overlapped => conns[c].pc = "inspect"
                   /\ Inspecting(c) /\ c \notin overlapped => Seen(conns[c])

HInv == StatusHonest /\ Inspections

Honest(v, content) == v \in {Truth(content), "ReadFailed", "Broken"}

\* What is settled before the digest is the truth, or that the image is broken.
LEMMA ImmediateHonest ==
  ASSUME NEW content, NEW purpose, NEW v \in Immediate(content, purpose)
  PROVE  Honest(v, content)
  BY DEF Immediate, Honest, Truth, Verdict

\* What the other tasks do is not affected.
LEMMA OtherInspections ==
  ASSUME IInv, NEW c \in Conns, NEW r, conns' = [conns EXCEPT ![c] = r], Inspections,
         flash' = flash, overlapped' \in {overlapped, overlapped \ {c}},
         NEW d \in Conns, d # c
  PROVE  /\ d \in overlapped' => conns'[d].pc = "inspect"
         /\ Inspecting(d)' /\ d \notin overlapped' => Seen(conns[d])'
<1>1. conns'[d] = conns[d]
  BY DEF IInv, TypeOK
<1> QED
  BY <1>1 DEF Inspections, Inspecting, Seen

\* A verdict that is honest, or of an inspection that was overlapped, may be published.
LEMMA ConcludeHonest ==
  ASSUME IInv, HInv, NEW c \in Conns, NEW purpose, NEW i \in Slots, NEW v, NEW p,
         NEW known \in [Slots -> States],
         Conclude(c, purpose, i, v, p, known), flash' = flash,
         \A j \in Slots : j # i => known[j] = cache[j],
         conns[c].pc \in UploadPcs => conns[c].slot = i,
         c \notin overlapped => Honest(v, flash[i])
  PROVE  HInv'
<1>1. conns' = [conns EXCEPT ![c] = Idle] /\ conns \in [Conns -> ConnType]
  BY DEF Conclude, IInv, TypeOK, ConnType
<1>2. \A d \in Conns : conns'[d] = IF d = c THEN Idle ELSE conns[d]
  BY <1>1
<1>3. Inspections'
  <2>1. overlapped' = overlapped \ {c} /\ Idle.pc = "idle"
    BY IdleType DEF Conclude
  <2>2. conns'[c].pc = "idle" /\ c \notin overlapped'
    BY <1>2, <2>1
  <2> QED
    BY <1>1, <2>1, <2>2, OtherInspections DEF HInv, Inspections, Inspecting
<1>4. StatusHonest'
  <2> SUFFICES ASSUME NEW j \in Slots, j \notin suspect',
                      ~\E d \in Conns : conns'[d].pc \in UploadPcs /\ conns'[d].slot = j
               PROVE  cache'[j] \in {Truth(flash'[j]), "ReadFailed", "Broken"}
    BY DEF StatusHonest
  <2>1. cache'[j] = IF j = i THEN v ELSE known[j]
    BY DEF Conclude
  <2>2. CASE j = i
    <3>1. c \notin overlapped
      BY <2>2 DEF Conclude
    <3> QED
      BY <2>1, <2>2, <3>1 DEF Honest
  <2>3. CASE j # i
    <3>1. j \notin suspect
      BY <2>3 DEF Conclude
    <3>2. ~\E d \in Conns : conns[d].pc \in UploadPcs /\ conns[d].slot = j
      BY <1>2, <2>3
    <3> QED
      BY <2>1, <2>3, <3>1, <3>2 DEF HInv, StatusHonest
  <2> QED
    BY <2>2, <2>3
<1> QED
  BY <1>3, <1>4 DEF HInv

\* An inspection begins with what its slot holds.
LEMMA InspectHonest ==
  ASSUME IInv, HInv, NEW c \in Conns, NEW purpose \in {"inspect", "identify", "reinspect"},
         NEW i \in Slots, NEW p, NEW known \in [Slots -> States],
         Inspect(c, purpose, i, p, known), flash' = flash,
         \A j \in Slots : j # i => known[j] = cache[j],
         \/ conns[c].pc \in UploadPcs /\ conns[c].slot = i /\ purpose # "inspect"
         \/ conns[c].pc = "idle" /\ (purpose = "inspect" => known = cache)
  PROVE  HInv'
<1>1. ASSUME NEW v \in Immediate(flash[i], purpose) \cup Unread(flash[i]),
             Conclude(c, purpose, i, v, p, known)
      PROVE  HInv'
  <2>1. Honest(v, flash[i])
    BY ImmediateHonest DEF Honest, Unread
  <2>2. conns[c].pc \in UploadPcs => conns[c].slot = i
    BY DEF UploadPcs
  <2> QED
    BY <1>1, <2>1, <2>2, ConcludeHonest
<1> DEFINE r == [pc |-> purpose, slot |-> i, image |-> flash[i][0], done |-> 1,
                 total |-> Len[flash[i][0]], intact |-> TRUE]
<1>2. CASE /\ Immediate(flash[i], purpose) = {}
           /\ conns' = [conns EXCEPT ![c] = r]
           /\ process' = p /\ cache' = known /\ UNCHANGED hist
  <2>1. conns \in [Conns -> ConnType] /\ UNCHANGED <<overlapped, suspect>>
    BY <1>2 DEF IInv, TypeOK, ConnType, hist
  <2>2. \A d \in Conns : conns'[d] = IF d = c THEN r ELSE conns[d]
    BY <1>2, <2>1
  <2>3. /\ r.pc = purpose /\ r.slot = i /\ r.image = flash[i][0] /\ r.done = 1
        /\ r.total = Len[r.image] /\ r.intact = TRUE
    OBVIOUS
  <2>4. Kind[flash[i][0]] \notin {"junk", "alien", "torn"}
    BY <1>2 DEF Immediate
  <2> HIDE DEF r
  <2>6. c \notin overlapped
    BY DEF HInv, Inspections, UploadPcs
  <2>7. Inspections'
    <3>1. Seen(conns[c])'
      BY <2>2, <2>3, <2>4 DEF Seen
    <3> QED
      BY <1>2, <2>1, <2>6, <3>1, OtherInspections DEF HInv, Inspections
  <2>8. StatusHonest'
    <3> SUFFICES ASSUME NEW j \in Slots, j \notin suspect,
                        ~\E d \in Conns : conns'[d].pc \in UploadPcs /\ conns'[d].slot = j
                 PROVE  cache'[j] \in {Truth(flash[j]), "ReadFailed", "Broken"}
      BY <2>1 DEF StatusHonest
    <3>1. cache'[j] = cache[j]
      <4>1. CASE j # i
        BY <1>2, <4>1
      <4>2. CASE j = i
        <5>1. purpose = "inspect"
          BY <2>2, <2>3, <4>2 DEF UploadPcs
        <5> QED
          BY <1>2, <5>1 DEF UploadPcs
      <4> QED
        BY <4>1, <4>2
    <3>2. ~\E d \in Conns : conns[d].pc \in UploadPcs /\ conns[d].slot = j
      <4>1. conns[c].pc \in UploadPcs => conns[c].slot # j
        BY <2>2, <2>3 DEF UploadPcs
      <4> QED
        BY <2>2, <4>1
    <3> QED
      BY <3>1, <3>2 DEF HInv, StatusHonest
  <2> QED
    BY <2>7, <2>8 DEF HInv
<1> QED
  BY <1>1, <1>2 DEF Inspect

\* An erase or a write is seen by nobody but the inspections it marks.
LEMMA FlashHonest ==
  ASSUME IInv, IInv', HInv, NEW c \in Conns, NEW i \in Slots, NEW r,
         conns' = [conns EXCEPT ![c] = r], r.pc \in {"erase", "write"}, r.slot = i,
         \A j \in Slots : j # i => flash'[j] = flash[j] /\ cache'[j] = cache[j],
         Disturb(i), \/ conns[c].pc \in UploadPcs /\ conns[c].slot = i
                     \/ conns[c].pc = "idle"
  PROVE  HInv'
<1>1. \A d \in Conns : conns'[d] = IF d = c THEN r ELSE conns[d]
  BY DEF IInv, TypeOK
<1>2. /\ suspect' = suspect
      /\ overlapped' = overlapped \cup {d \in Conns : conns[d].pc = "inspect" /\ conns[d].slot = i}
  BY DEF Disturb
<1>3. \A d \in Conns : conns'[d].pc \in UploadPcs => d = c
  BY <1>1 DEF IInv, OneUpload, UploadPcs
<1>4. c \notin overlapped' /\ ~Inspecting(c)'
  BY <1>1, <1>2 DEF HInv, Inspections, Inspecting, UploadPcs
<1>5. Inspections'
  <2> SUFFICES ASSUME NEW d \in Conns, d # c
               PROVE  /\ d \in overlapped' => conns'[d].pc = "inspect"
                      /\ Inspecting(d)' /\ d \notin overlapped' => Seen(conns[d])'
    BY <1>4 DEF Inspections
  <2>1. conns'[d] = conns[d] /\ conns[d].slot \in Slots
    BY <1>1 DEF IInv, TypeOK
  <2>2. d \in overlapped' => conns'[d].pc = "inspect"
    BY <1>2, <2>1 DEF HInv, Inspections
  <2>3. ASSUME Inspecting(d)', d \notin overlapped' PROVE Seen(conns[d])'
    <3>1. conns[d].pc = "inspect" /\ Inspecting(d)
      BY <1>3, <2>1, <2>3 DEF Inspecting, UploadPcs
    <3>2. conns[d].slot # i /\ d \notin overlapped
      BY <1>2, <2>3, <3>1
    <3>3. flash'[conns[d].slot] = flash[conns[d].slot] /\ Seen(conns[d])
      BY <2>1, <3>1, <3>2 DEF HInv, Inspections
    <3> QED
      BY <2>1, <3>3 DEF Seen
  <2> QED
    BY <2>2, <2>3
<1>6. StatusHonest'
  <2> SUFFICES ASSUME NEW j \in Slots, j \notin suspect,
                      ~\E d \in Conns : conns'[d].pc \in UploadPcs /\ conns'[d].slot = j
               PROVE  cache'[j] \in {Truth(flash'[j]), "ReadFailed", "Broken"}
    BY <1>2 DEF StatusHonest
  <2>1. j # i
    BY <1>1 DEF UploadPcs
  <2>2. ~\E d \in Conns : conns[d].pc \in UploadPcs /\ conns[d].slot = j
    BY <1>1, <2>1 DEF UploadPcs
  <2> QED
    BY <2>1, <2>2 DEF HInv, StatusHonest
<1> QED
  BY <1>5, <1>6 DEF HInv

\* One sector hashed, or a failed read.
LEMMA DigestHonest == ASSUME IInv, HInv, NEW c \in Conns, Digest(c) PROVE HInv'
<1> DEFINE old == conns[c]
           same == flash[old.slot][old.done] = old.image
           r == [old EXCEPT !.done = @ + 1, !.intact = @ /\ same]
<1>1. /\ conns \in [Conns -> ConnType] /\ old \in ConnType /\ old.done \in Nat
      /\ old.slot \in Slots /\ flash' = flash /\ Inspecting(c)
  BY SystemAssumption DEF IInv, TypeOK, ConnType, Digest, image
<1>2. CASE /\ conns' = [conns EXCEPT ![c].done = @ + 1, ![c].intact = @ /\ same]
           /\ UNCHANGED <<cache, hist>>
  <2>1. conns' = [conns EXCEPT ![c] = r]
    BY <1>1, <1>2
  <2>2. \A d \in Conns : conns'[d] = IF d = c THEN r ELSE conns[d]
    BY <1>1, <2>1
  <2>3. /\ r.pc = old.pc /\ r.slot = old.slot /\ r.image = old.image
        /\ r.total = old.total /\ r.done = old.done + 1
    BY <1>1 DEF ConnType
  <2>4. r.intact <=> old.intact /\ same
    BY <1>1 DEF ConnType
  <2> HIDE DEF r
  <2>5. overlapped' = overlapped /\ suspect' = suspect /\ cache' = cache
    BY <1>2 DEF hist
  <2>6. Inspections'
    <3>1. c \in overlapped => conns'[c].pc = "inspect"
      BY <2>2, <2>3 DEF HInv, Inspections
    <3>2. ASSUME c \notin overlapped PROVE Seen(conns[c])'
      <4>1. Seen(old)
        BY <1>1, <3>2 DEF HInv, Inspections
      <4>2. (\A s \in 1..old.done : flash[old.slot][s] = old.image)
              <=> same /\ \A s \in 1..old.done-1 : flash[old.slot][s] = old.image
        BY <1>1, <4>1 DEF Seen
      <4>3. r.intact <=> \A s \in 1..old.done : flash[old.slot][s] = old.image
        BY <2>4, <4>1, <4>2 DEF Seen
      <4>4. r.done - 1 = old.done /\ r.done >= 1
        BY <1>1, <2>3
      <4>5. r.intact <=> \A s \in 1..r.done-1 : flash[r.slot][s] = r.image
        BY <2>3, <4>3, <4>4
      <4>6. conns'[c] = r
        BY <2>2
      <4> QED
        BY <1>1, <2>3, <4>1, <4>4, <4>5, <4>6 DEF Seen
    <3> QED
      BY <1>1, <2>1, <2>5, <3>1, <3>2, OtherInspections DEF HInv, Inspections
  <2>7. \A d \in Conns : conns'[d].pc = conns[d].pc /\ conns'[d].slot = conns[d].slot
    BY <2>2, <2>3
  <2>8. StatusHonest'
    BY <1>1, <2>5, <2>7 DEF HInv, StatusHonest
  <2> QED
    BY <2>6, <2>8 DEF HInv
<1>3. CASE Conclude(c, old.pc, old.slot, "Broken", process, cache)
  BY <1>1, <1>3, ConcludeHonest DEF Honest, IInv, TypeOK
<1> QED
  BY <1>2, <1>3 DEF Digest

\* The verdict at the end of the digest is the truth, or that the image is broken.
LEMMA DigestedHonest == ASSUME IInv, HInv, NEW c \in Conns, Digested(c) PROVE HInv'
<1> DEFINE r == conns[c]
           content == flash[r.slot]
           matches == r.intact /\ content[r.total - 1] = r.image
           verdicts == IF Kind[r.image] = "raw" THEN {"Unverified"}
                       ELSE {"Broken"} \cup (IF matches THEN {Verdict[Kind[r.image]]} ELSE {})
<1>6. PICK v \in verdicts :
        /\ Inspecting(c) /\ Conclude(c, r.pc, r.slot, v, process, cache)
        /\ flash' = flash /\ r.done = r.total
  BY DEF Digested, image
<1>1. /\ Inspecting(c) /\ Conclude(c, r.pc, r.slot, v, process, cache) /\ flash' = flash
      /\ r.done = r.total /\ r.slot \in Slots /\ r.image \in Images /\ Len[r.image] <= Sectors
      /\ Len[r.image] \in Nat \ {0} /\ r.image # Erased /\ cache \in [Slots -> States]
  <2>2. r.slot \in Slots /\ r.image \in Fitting /\ cache \in [Slots -> States]
    BY DEF IInv, TypeOK
  <2> QED
    BY <1>6, <2>2, SystemAssumption DEF Fitting
<1>2. ASSUME c \notin overlapped PROVE Honest(v, content)
  <2>1. Seen(r)
    BY <1>1, <1>2 DEF HInv, Inspections
  <2>2. content[0] = r.image /\ r.total = Len[r.image]
    BY <2>1 DEF Seen
  <2>3. CASE Kind[r.image] = "raw"
    BY <1>1, <1>6, <2>2, <2>3 DEF Honest, Truth, Verdict
  <2>4. CASE Kind[r.image] # "raw" /\ matches
    <3>1. \A s \in 1..Len[r.image]-1 : content[s] = r.image
      BY <1>1, <2>1, <2>2, <2>4 DEF Seen
    <3>2. \A s \in 0..Len[content[0]]-1 : content[s] = content[0]
      BY <1>1, <2>2, <3>1
    <3>3. Intact(content)
      BY <1>1, <2>2, <3>2 DEF Intact
    <3> QED
      BY <1>1, <1>6, <2>2, <2>4, <3>3 DEF Honest, Truth
  <2>5. CASE Kind[r.image] # "raw" /\ ~matches
    BY <1>6, <2>5 DEF Honest
  <2> QED
    BY <2>3, <2>4, <2>5
<1> HIDE DEF verdicts
<1> QED
  BY <1>1, <1>2, ConcludeHonest

\* A request that is not an upload, or one that begins.
LEMMA RequestHonest == ASSUME IInv, IInv', HInv, NEW c \in Conns, Request(c) PROVE HInv'
<1>1. cache \in [Slots -> States] /\ flash \in FlashType
  BY DEF IInv, TypeOK, FlashType
<1>2. ASSUME NEW i \in Slots, InspectRequest(c, i) PROVE HInv'
  BY <1>1, <1>2, InspectHonest DEF InspectRequest, Passes, image
<1>3. CASE \/ \E i \in Slots : Activate(c, i) \/ ActivateFails(c, i)
           \/ \E i \in Slots \cup Absent, img \in Images : UploadTurnedAway(c, i, img)
  <2>1. UNCHANGED <<flash, cache, conns, hist>>
    BY <1>3 DEF Activate, ActivateFails, UploadTurnedAway, image
  <2> QED
    BY <2>1 DEF HInv, StatusHonest, Inspections, Inspecting, Seen, hist
<1>4. ASSUME NEW i \in Slots, NEW img \in Images, NEW total \in 1..Sectors,
             UploadRequest(c, i, img, total)
      PROVE  HInv'
  <2> DEFINE p == [NoProcess EXCEPT !.state = "Erasing", !.erase = <<0, total>>]
             known == [cache EXCEPT ![i] = "Unchecked"]
             r == [pc |-> "erase", slot |-> i, image |-> img, done |-> 1,
                   total |-> total, intact |-> TRUE]
  <2>1. /\ conns[c].pc = "idle" /\ known \in [Slots -> States]
        /\ \A j \in Slots : j # i => known[j] = cache[j]
    BY <1>1, <1>4 DEF UploadRequest, Passes, States
  <2>2. CASE EraseSector(i, 0) /\ Disturb(i) /\ cache' = known /\ conns' = [conns EXCEPT ![c] = r]
    <3>1. \A j \in Slots : j # i => flash'[j] = flash[j]
      BY <1>1, <2>2 DEF EraseSector, FlashType
    <3>2. r.pc = "erase" /\ r.slot = i
      OBVIOUS
    <3> HIDE DEF r, known
    <3> QED
      BY <2>1, <2>2, <3>1, <3>2, FlashHonest
  <2>3. CASE Failed(c, i, "StorageError", p, known) /\ UNCHANGED image
    <3> HIDE DEF known, p
    <3> QED
      BY <2>1, <2>3, InspectHonest DEF Failed, image
  <2> QED
    BY <1>4, <2>2, <2>3 DEF UploadRequest
<1> QED
  BY <1>2, <1>3, <1>4 DEF Request

\* The steps inside an upload.
LEMMA UploadStepHonest ==
  ASSUME IInv, IInv', HInv, NEW c \in Conns,
         Erase(c) \/ ErasedAll(c) \/ Write(c) \/ StreamFails(c) \/ StreamEnds(c)
  PROVE  HInv'
<1> DEFINE old == conns[c]
<1>1. /\ cache \in [Slots -> States] /\ flash \in FlashType /\ old.slot \in Slots
      /\ conns \in [Conns -> ConnType] /\ old \in ConnType
      /\ old.pc \in {"erase", "write"} /\ old.pc \in UploadPcs
  BY DEF IInv, TypeOK, FlashType, ConnType, UploadPcs,
         Erase, ErasedAll, Write, StreamFails, StreamEnds
<1>2. ASSUME NEW e, Failed(c, old.slot, e, process, cache), flash' = flash
      PROVE  HInv'
  BY <1>1, <1>2, InspectHonest DEF Failed
<1>3. ASSUME NEW s, NEW w, flash' = [flash EXCEPT ![old.slot][s] = w], Disturb(old.slot),
             conns' = [conns EXCEPT ![c].done = @ + 1], cache' = cache
      PROVE  HInv'
  <2> DEFINE r == [old EXCEPT !.done = @ + 1]
  <2>1. conns' = [conns EXCEPT ![c] = r] /\ r.pc = old.pc /\ r.slot = old.slot
    BY <1>1, <1>3 DEF ConnType
  <2>2. \A j \in Slots : j # old.slot => flash'[j] = flash[j] /\ cache'[j] = cache[j]
    BY <1>1, <1>3 DEF FlashType
  <2> HIDE DEF r
  <2> QED
    BY <1>1, <1>3, <2>1, <2>2, FlashHonest
<1>4. CASE Erase(c)
  BY <1>2, <1>3, <1>4 DEF Erase, EraseSector, image
<1>5. CASE ErasedAll(c)
  <2> DEFINE r == [old EXCEPT !.pc = "write", !.done = 0, !.total = Len[old.image]]
  <2>1. conns' = [conns EXCEPT ![c] = r] /\ r.pc = "write" /\ r.slot = old.slot
    BY <1>1, <1>5 DEF ErasedAll, ConnType
  <2>2. flash' = flash /\ cache' = cache /\ overlapped' = overlapped /\ suspect' = suspect
    BY <1>5 DEF ErasedAll, image, hist
  <2> HIDE DEF r
  <2>3. \A d \in Conns : conns'[d] = IF d = c THEN r ELSE conns[d]
    BY <1>1, <2>1
  <2>4. Inspections'
    <3>1. c \notin overlapped /\ ~Inspecting(c)'
      BY <1>1, <2>1, <2>3 DEF HInv, Inspections, Inspecting
    <3> QED
      BY <2>1, <2>2, <3>1, OtherInspections DEF HInv, Inspections
  <2>5. \A d \in Conns : /\ conns[d].pc \in UploadPcs => conns'[d].pc \in UploadPcs
                         /\ conns'[d].slot = conns[d].slot
    BY <2>1, <2>3 DEF UploadPcs
  <2>6. StatusHonest'
    BY <2>2, <2>5 DEF HInv, StatusHonest
  <2> QED
    BY <2>4, <2>6 DEF HInv
<1>6. CASE Write(c)
  BY <1>2, <1>3, <1>6 DEF Write, image
<1>7. CASE StreamFails(c)
  BY <1>2, <1>7 DEF StreamFails, image
<1>8. CASE StreamEnds(c)
  BY <1>1, <1>8, InspectHonest DEF StreamEnds, image
<1> QED
  BY <1>4, <1>5, <1>6, <1>7, <1>8

\* A boot inspects every slot; system_task alone touches none.
LEMMA TaskHonest == ASSUME HInv, TaskStep \/ Restart PROVE HInv'
<1>1. CASE \E s : Boot(s)
  <2>1. flash' = flash /\ cache' = [i \in Slots |-> Truth(flash[i])] /\ overlapped' = {}
    BY <1>1 DEF Boot
  <2>2. \A c \in Conns : conns'[c].pc = "idle"
    BY <1>1, IdleType DEF Boot
  <2> QED
    BY <2>1, <2>2 DEF HInv, StatusHonest, Inspections, Inspecting
<1>2. CASE TaskWake \/ Tick \/ TaskGivesUp
  <2>1. UNCHANGED <<flash, cache, conns, hist>>
    BY <1>2 DEF TaskWake, Tick, TaskGivesUp, image
  <2> QED
    BY <2>1 DEF HInv, StatusHonest, Inspections, Inspecting, Seen, hist
<1> QED
  BY <1>1, <1>2 DEF TaskStep, TaskReset, Restart

\* Every step keeps the states honest.
LEMMA NextHonest == ASSUME IInv, IInv', HInv, [Next]_vars PROVE HInv'
<1>1. ASSUME NEW c \in Conns, Step(c) PROVE HInv'
  BY <1>1, UploadStepHonest, DigestHonest, DigestedHonest DEF Step
<1>2. CASE UNCHANGED vars
  <2>1. UNCHANGED <<flash, cache, conns, hist>>
    BY <1>2 DEF vars, image
  <2> QED
    BY <2>1 DEF HInv, StatusHonest, Inspections, Inspecting, Seen, hist
<1> QED
  BY <1>1, <1>2, RequestHonest, TaskHonest DEF Next

\* The device begins with every slot inspected.
LEMMA InitHonest == Init => HInv
<1> SUFFICES ASSUME Init PROVE HInv
  OBVIOUS
<1>1. \A c \in Conns : conns[c].pc = "idle"
  BY IdleType DEF Init
<1> QED
  BY <1>1 DEF Init, HInv, StatusHonest, Inspections, Inspecting

\* The state /system/status answers for a slot nobody writes to is what an
\* inspection would find there, unless the one it comes from was overlapped.
THEOREM SystemStatusHonest == Spec => []StatusHonest
<1>1. IInv /\ HInv /\ [Next]_vars => (IInv /\ HInv)'
  BY NextIInv, NextHonest
<1>2. HInv => StatusHonest
  BY DEF HInv
<1> QED
  BY InitIInv, InitHonest, <1>1, <1>2, PTL DEF Spec
-----------------------------------------------------------------------------
(* System implements UpdateService *)

\* What an upload has erased of its slot, and not yet written.
Cleared(r) ==
  /\ r.pc = "erase" => /\ Len[r.image] <= r.total /\ 1 <= r.done
                       /\ \A s \in 0..r.done-1 : flash[r.slot][s] = Erased
  /\ r.pc = "write" => \A s \in r.done..r.total-1 : flash[r.slot][s] = Erased

ClearInv == \A c \in Conns : Cleared(conns[c])

\* What the slot of the only upload is cleared of is all that counts.
LEMMA ClearedOfOne ==
  ASSUME IInv', NEW c \in Conns, conns'[c].pc \in UploadPcs, Cleared(conns[c])'
  PROVE  ClearInv'
<1>1. \A d \in Conns : conns'[d].pc \in UploadPcs => d = c
  BY DEF IInv, OneUpload
<1> QED  BY <1>1 DEF ClearInv, Cleared, UploadPcs

\* A task that neither erases nor writes leaves cleared what was.
LEMMA ClearedKept ==
  ASSUME IInv, ClearInv, UNCHANGED flash, NEW c \in Conns, NEW r,
         conns' = [conns EXCEPT ![c] = r], r.pc \notin {"erase", "write"}
  PROVE  ClearInv'
<1>1. \A d \in Conns : conns'[d] = IF d = c THEN r ELSE conns[d]
  BY DEF IInv, TypeOK
<1> QED  BY <1>1 DEF ClearInv, Cleared

\* An inspection leaves its task idle or in it.
LEMMA InspectGoesOn ==
  ASSUME NEW c, NEW purpose, NEW i, NEW p, NEW known, Inspect(c, purpose, i, p, known)
  PROVE  \E r : /\ conns' = [conns EXCEPT ![c] = r]
                /\ r.pc = "idle" \/ (r.pc = purpose /\ r.slot = i)
<1> DEFINE r == [pc |-> purpose, slot |-> i, image |-> flash[i][0], done |-> 1,
                 total |-> Len[flash[i][0]], intact |-> TRUE]
<1>1. CASE \E v : Conclude(c, purpose, i, v, p, known)
  <2>1. conns' = [conns EXCEPT ![c] = Idle]  BY <1>1 DEF Conclude
  <2> QED  BY <2>1, IdleType
<1>2. CASE conns' = [conns EXCEPT ![c] = r]
  <2>1. r.pc = purpose /\ r.slot = i  OBVIOUS
  <2> HIDE DEF r
  <2> QED  BY <1>2, <2>1
<1> QED  BY <1>1, <1>2 DEF Inspect

\* A request clears what it erases.
LEMMA RequestClears ==
  ASSUME IInv, IInv', ClearInv, NEW c \in Conns, Request(c) PROVE ClearInv'
<1>1. ASSUME NEW i \in Slots, InspectRequest(c, i) PROVE ClearInv'
  BY <1>1, InspectGoesOn, ClearedKept DEF InspectRequest, image
<1>2. ASSUME NEW i, Activate(c, i) \/ ActivateFails(c, i) PROVE ClearInv'
  BY <1>2 DEF Activate, ActivateFails, ClearInv, Cleared
<1>3. ASSUME NEW i, NEW img, UploadTurnedAway(c, i, img) PROVE ClearInv'
  BY <1>3 DEF UploadTurnedAway, image, ClearInv, Cleared
<1>4. ASSUME NEW i \in Slots, NEW img \in Images, NEW total \in 1..Sectors,
             UploadRequest(c, i, img, total)
      PROVE  ClearInv'
  <2> DEFINE r == [pc |-> "erase", slot |-> i, image |-> img, done |-> 1,
                   total |-> total, intact |-> TRUE]
  <2>1. CASE EraseSector(i, 0) /\ conns' = [conns EXCEPT ![c] = r]
    <3>1. conns'[c] = r /\ 0 \in 0..Sectors-1  BY <2>1, SystemAssumption DEF IInv, TypeOK
    <3>2. flash'[i][0] = Erased  BY <2>1, <3>1 DEF EraseSector, IInv, TypeOK
    <3>3. Cleared(conns[c])'  BY <1>4, <3>1, <3>2 DEF Cleared, UploadRequest
    <3> QED  BY <3>1, <3>3, ClearedOfOne DEF UploadPcs
  <2>2. ASSUME NEW p, NEW known, Failed(c, i, "StorageError", p, known), UNCHANGED image
        PROVE  ClearInv'
    BY <2>2, InspectGoesOn, ClearedKept DEF Failed, image
  <2> QED  BY <1>4, <2>1, <2>2 DEF UploadRequest
<1> QED  BY <1>1, <1>2, <1>3, <1>4 DEF Request

\* Every step of an upload or an inspection knows what is cleared.
LEMMA StepClears ==
  ASSUME IInv, IInv', PInv, ClearInv, NEW c \in Conns, Step(c) PROVE ClearInv'
<1> DEFINE old == conns[c]
<1>1. /\ conns \in [Conns -> ConnType] /\ old \in ConnType /\ Cleared(old) /\ Phase(old)
      /\ flash \in FlashType
  BY DEF IInv, TypeOK, ConnType, FlashType, ClearInv, PInv
<1>2. /\ old.slot \in Slots /\ old.done \in Nat /\ old.total \in Nat
      /\ old.done <= Sectors /\ old.total <= Sectors
  BY <1>1, SystemAssumption DEF ConnType
<1>3. ASSUME NEW p, NEW purpose, NEW known, Inspect(c, purpose, old.slot, p, known),
             purpose \in {"reinspect", "identify"}, UNCHANGED flash
      PROVE  ClearInv'
  BY <1>3, InspectGoesOn, ClearedKept
<1>4. CASE Erase(c)
  <2>1. CASE EraseSector(old.slot, old.done) /\ conns' = [conns EXCEPT ![c].done = @ + 1]
    <3>1. /\ conns'[c].pc = "erase" /\ conns'[c].slot = old.slot
          /\ conns'[c].image = old.image /\ conns'[c].total = old.total
          /\ conns'[c].done = old.done + 1
      BY <1>1, <1>4, <2>1 DEF Erase, ConnType
    <3>2. old.done \in 0..Sectors-1  BY <1>2, <1>4, SystemAssumption DEF Erase
    <3>3. \A s \in 0..Sectors-1 :
            flash'[old.slot][s] = IF s = old.done THEN Erased ELSE flash[old.slot][s]
      BY <1>1, <1>2, <2>1, <3>2 DEF EraseSector, FlashType
    <3>4. \A s \in 0..old.done : flash'[old.slot][s] = Erased
      <4>1. \A s \in 0..old.done-1 : flash[old.slot][s] = Erased
        BY <1>1, <1>4 DEF Cleared, Erase
      <4> QED  BY <1>2, <3>2, <3>3, <4>1, SystemAssumption
    <3>5. Cleared(conns[c])'
      BY <1>1, <1>2, <1>4, <3>1, <3>4 DEF Cleared, Erase
    <3> QED  BY <3>1, <3>5, ClearedOfOne DEF UploadPcs
  <2>2. CASE Failed(c, old.slot, "StorageError", process, cache) /\ UNCHANGED image
    BY <1>3, <2>2 DEF Failed, image
  <2> QED  BY <1>4, <2>1, <2>2 DEF Erase
<1>5. CASE ErasedAll(c)
  <2>1. /\ conns'[c].pc = "write" /\ conns'[c].slot = old.slot
        /\ conns'[c].done = 0 /\ conns'[c].total = Len[old.image]
    BY <1>1, <1>5 DEF ErasedAll, ConnType
  <2>2. Len[old.image] \in Nat  BY <1>1, SystemAssumption DEF ConnType, Fitting
  <2>3. \A s \in 0..Len[old.image]-1 : flash'[old.slot][s] = Erased
    BY <1>1, <1>2, <1>5, <2>2 DEF Cleared, ErasedAll, image
  <2>4. Cleared(conns[c])'  BY <2>1, <2>3 DEF Cleared
  <2> QED  BY <2>1, <2>4, ClearedOfOne DEF UploadPcs
<1>6. CASE Write(c)
  <2>1. CASE /\ flash' = [flash EXCEPT ![old.slot][old.done] = old.image]
             /\ conns' = [conns EXCEPT ![c].done = @ + 1]
    <3>1. /\ conns'[c].pc = "write" /\ conns'[c].slot = old.slot
          /\ conns'[c].total = old.total /\ conns'[c].done = old.done + 1
      BY <1>1, <1>6, <2>1 DEF Write, ConnType
    <3>2. \A s \in old.done+1..old.total-1 : flash'[old.slot][s] = flash[old.slot][s]
      BY <1>1, <1>2, <2>1 DEF FlashType
    <3>3. \A s \in old.done+1..old.total-1 : flash[old.slot][s] = Erased
      BY <1>1, <1>2, <1>6 DEF Cleared, Write
    <3>4. Cleared(conns[c])'  BY <3>1, <3>2, <3>3 DEF Cleared
    <3> QED  BY <3>1, <3>4, ClearedOfOne DEF UploadPcs
  <2>2. CASE Failed(c, old.slot, "StorageError", process, cache) /\ UNCHANGED image
    BY <1>3, <2>2 DEF Failed, image
  <2> QED  BY <1>6, <2>1, <2>2 DEF Write
<1>7. CASE StreamFails(c) \/ StreamEnds(c)
  BY <1>3, <1>7 DEF StreamFails, StreamEnds, Failed, image
<1>8. CASE Digest(c)
  <2>1. CASE conns' = [conns EXCEPT ![c].done = @ + 1,
                                    ![c].intact = @ /\ flash[old.slot][old.done] = old.image]
    <3> DEFINE r == [old EXCEPT !.done = @ + 1,
                                !.intact = @ /\ flash[old.slot][old.done] = old.image]
    <3>1. conns' = [conns EXCEPT ![c] = r]  BY <1>1, <2>1
    <3>2. r.pc = old.pc  BY <1>1 DEF ConnType
    <3>3. r.pc \notin {"erase", "write"}  BY <1>8, <3>2 DEF Digest, Inspecting
    <3> HIDE DEF r
    <3> QED  BY <1>8, <3>1, <3>3, ClearedKept DEF Digest, image
  <2>2. CASE Conclude(c, old.pc, old.slot, "Broken", process, cache)
    BY <1>8, <2>2, IdleType, ClearedKept DEF Digest, Conclude, image
  <2> QED  BY <1>8, <2>1, <2>2 DEF Digest
<1>9. CASE Digested(c)
  BY <1>9, IdleType, ClearedKept DEF Digested, Conclude, image
<1> QED  BY <1>4, <1>5, <1>6, <1>7, <1>8, <1>9 DEF Step

\* So does everything else.
LEMMA NextClears == IInv /\ IInv' /\ PInv /\ ClearInv /\ [Next]_vars => ClearInv'
<1> SUFFICES ASSUME IInv, IInv', PInv, ClearInv, [Next]_vars PROVE ClearInv'
  OBVIOUS
<1>1. ASSUME NEW c \in Conns, Request(c) \/ Step(c) PROVE ClearInv'
  BY <1>1, RequestClears, StepClears
<1>2. ASSUME NEW choice, Boot(choice) PROVE ClearInv'
  BY <1>2, IdleType DEF Boot, ClearInv, Cleared
<1>3. CASE TaskStep \/ Restart
  BY <1>2, <1>3
  DEF TaskStep, TaskWake, Tick, TaskReset, TaskGivesUp, Restart, image, ClearInv, Cleared
<1>4. CASE UNCHANGED vars
  BY <1>4 DEF vars, image, ClearInv, Cleared
<1> QED  BY <1>1, <1>3, <1>4 DEF Next

\* Nothing is cleared before the first upload.
LEMMA InitClears == Init => ClearInv
BY IdleType DEF Init, ClearInv, Cleared

\* What an inspection and UpdateService see of the contents of a slot is the same.
LEMMA WholeStarts ==
  ASSUME flash \in FlashType, NEW i \in Slots
  PROVE  /\ Holds[i] \in Images \cup {None}
         /\ Holds[i] \in {img \in Images : Activatable(Verdict[Kind[img]])}
              <=> Bootable(flash[i])
<1>1. flash[i][0] \in Fitting \cup {Erased}
  BY SystemAssumption DEF FlashType
<1>2. Intact(flash[i]) => flash[i][0] \in Images
  BY <1>1 DEF Intact, Fitting
<1> QED  BY <1>2, SystemAssumption DEF Holds, Whole, Bootable

\* An upload leaves the images in the other slots alone.
LEMMA HoldsOneChanged ==
  ASSUME NEW i \in Slots, \A j \in Slots : j # i => flash'[j] = flash[j]
  PROVE  Holds' = [Holds EXCEPT ![i] = Whole(flash'[i])]
BY DEF Holds

\* The jobs, seen in the tasks f.
JobsIn(f) == {[slot |-> f[c].slot, image |-> ToCome(f[c])] :
                c \in {d \in Conns : f[d].pc \in UploadPcs}}

\* One task inside an upload is one job.
LEMMA JobsOfOne ==
  ASSUME NEW f, NEW c \in Conns, f[c].pc \in UploadPcs,
         \A d \in Conns : f[d].pc \in UploadPcs => d = c
  PROVE  JobsIn(f) = {[slot |-> f[c].slot, image |-> ToCome(f[c])]}
BY DEF JobsIn

\* No task inside an upload is no job.
LEMMA JobsOfNone ==
  ASSUME NEW f, \A d \in Conns : f[d].pc \notin UploadPcs PROVE JobsIn(f) = {}
BY DEF JobsIn

\* A task outside of the uploads is no job, and becomes none.
LEMMA JobsOfOthers ==
  ASSUME IInv, NEW c \in Conns, NEW r, conns' = [conns EXCEPT ![c] = r],
         conns[c].pc \notin UploadPcs, r.pc \notin UploadPcs
  PROVE  Jobs' = Jobs
<1>1. \A d \in Conns : conns'[d] = IF d = c THEN r ELSE conns[d]
  BY DEF IInv, TypeOK
<1>2. {d \in Conns : conns'[d].pc \in UploadPcs} = {d \in Conns : conns[d].pc \in UploadPcs}
  BY <1>1
<1>3. \A d \in Conns : conns[d].pc \in UploadPcs => conns'[d] = conns[d]
  BY <1>1
<1> QED  BY <1>2, <1>3 DEF Jobs

\* The upload of a task is the only one.
LEMMA JobOf ==
  ASSUME IInv, NEW c \in Conns, conns[c].pc \in UploadPcs
  PROVE  Jobs = {[slot |-> conns[c].slot, image |-> ToCome(conns[c])]}
<1>1. \A d \in Conns : conns[d].pc \in UploadPcs => d = c
  BY DEF IInv, OneUpload
<1> QED  BY <1>1, JobsOfOne DEF Jobs, JobsIn

\* It still is the only one when the task goes on with it.
LEMMA JobNext ==
  ASSUME IInv', NEW c \in Conns, conns'[c].pc \in UploadPcs
  PROVE  Jobs' = {[slot |-> conns'[c].slot, image |-> ToCome(conns'[c])]}
<1>1. \A d \in Conns : conns'[d].pc \in UploadPcs => d = c
  BY DEF IInv, OneUpload
<1> QED  BY <1>1, JobsOfOne DEF Jobs, JobsIn

\* No upload, no jobs.
LEMMA NoJobs == ASSUME IInv, ~uploading PROVE Jobs = {}
<1>1. \A d \in Conns : conns[d].pc \notin UploadPcs
  BY DEF IInv, OneUpload
<1> QED  BY <1>1, JobsOfNone DEF Jobs, JobsIn

\* An inspection at the end of an upload is all that is left of its job, if it is not
\* over at once.
LEMMA InspectJobs ==
  ASSUME IInv, NEW c \in Conns, conns[c].pc \in UploadPcs \/ ~uploading,
         NEW purpose \in {"identify", "reinspect"}, NEW i \in Slots, NEW p, NEW known,
         Inspect(c, purpose, i, p, known)
  PROVE  Jobs' = {} \/ Jobs' = {[slot |-> i, image |-> None]}
<1>1. PICK r : /\ conns' = [conns EXCEPT ![c] = r]
               /\ r.pc = "idle" \/ (r.pc = purpose /\ r.slot = i)
  BY InspectGoesOn
<1>2. \A d \in Conns : conns'[d] = IF d = c THEN r ELSE conns[d]
  BY <1>1 DEF IInv, TypeOK
<1>3. \A d \in Conns : conns[d].pc \in UploadPcs => d = c
  BY DEF IInv, OneUpload
<1>4. CASE r.pc = "idle"
  <2>1. \A d \in Conns : conns'[d].pc \notin UploadPcs
    BY <1>2, <1>3, <1>4 DEF UploadPcs
  <2> QED  BY <2>1, JobsOfNone DEF Jobs, JobsIn
<1>5. CASE r.pc = purpose /\ r.slot = i
  <2>1. conns'[c].pc \in UploadPcs /\ conns'[c].slot = i /\ ToCome(conns'[c]) = None
    BY <1>2, <1>5 DEF UploadPcs, ToCome
  <2>2. \A d \in Conns : conns'[d].pc \in UploadPcs => d = c
    BY <1>2, <1>3
  <2> QED  BY <2>1, <2>2, JobsOfOne DEF Jobs, JobsIn
<1> QED  BY <1>1, <1>4, <1>5

ServiceVars == <<Holds, Jobs, selected, booted, countdown>>

\* Requests: an upload begins, an activation selects, anything else is nothing to the
\* service.
LEMMA RequestServes ==
  ASSUME IInv, IInv', NEW c \in Conns, Request(c)
  PROVE  Service!SvcNext \/ UNCHANGED ServiceVars
<1>1. flash \in FlashType /\ conns \in [Conns -> ConnType]
  BY DEF IInv, TypeOK, FlashType, ConnType
<1>2. ASSUME NEW i \in Slots, InspectRequest(c, i) PROVE UNCHANGED ServiceVars
  <2>1. PICK r : /\ conns' = [conns EXCEPT ![c] = r]
                 /\ r.pc = "idle" \/ (r.pc = "inspect" /\ r.slot = i)
    BY <1>2, InspectGoesOn DEF InspectRequest
  <2>2. r.pc \notin UploadPcs /\ conns[c].pc \notin UploadPcs
    BY <1>2, <2>1, IdleOutside DEF InspectRequest, UploadPcs
  <2>3. Jobs' = Jobs  BY <2>1, <2>2, JobsOfOthers
  <2> QED  BY <1>2, <2>3 DEF InspectRequest, image, act, ServiceVars, Holds
<1>3. ASSUME NEW i \in Slots, Activate(c, i) PROVE Service!SvcNext
  <2>1. Jobs = {} /\ Jobs' = Jobs /\ Holds' = Holds
    BY <1>3, NoJobs DEF Activate, CheckActivatable, Jobs, Holds
  <2>2. Service!Select(i)
    BY <1>3, <2>1 DEF Activate, Passes, Service!Select, Service!Quiet
  <2> QED  BY <2>2 DEF Service!SvcNext
<1>4. ASSUME NEW i \in Slots, ActivateFails(c, i) PROVE Service!SvcNext
  <2>1. Jobs = {} /\ Jobs' = Jobs /\ Holds' = Holds
    BY <1>4, NoJobs DEF ActivateFails, CheckActivatable, Jobs, Holds
  <2>2. Service!SelectFails(selected') /\ selected' \in Slots
    BY <1>4, <2>1 DEF ActivateFails, Passes, act, Service!SelectFails, Service!Quiet
  <2> QED  BY <2>2 DEF Service!SvcNext
<1>5. ASSUME NEW i, NEW img, UploadTurnedAway(c, i, img) PROVE UNCHANGED ServiceVars
  BY <1>5 DEF UploadTurnedAway, image, act, ServiceVars, Jobs, Holds
<1>6. ASSUME NEW i \in Slots, NEW img \in Images, NEW total \in 1..Sectors,
             UploadRequest(c, i, img, total)
      PROVE  Service!SvcNext \/ UNCHANGED ServiceVars
  <2> DEFINE r == [pc |-> "erase", slot |-> i, image |-> img, done |-> 1,
                   total |-> total, intact |-> TRUE]
  <2>1. ~uploading /\ Jobs = {} /\ i # 0 /\ i # booted /\ countdown = None
    BY <1>6, NoJobs DEF UploadRequest, UploadAllowed, Passes
  <2>2. CASE EraseSector(i, 0) /\ conns' = [conns EXCEPT ![c] = r]
             /\ UNCHANGED <<selected, running, booted>>
    <3>1. conns'[c] = r /\ r.pc \in UploadPcs  BY <1>1, <2>2 DEF UploadPcs
    <3>2. Jobs' = {[slot |-> i, image |-> img]}  BY <3>1, JobNext DEF ToCome
    <3>3. 0 \in 0..Sectors-1  BY SystemAssumption
    <3>4. flash'[i][0] = Erased /\ \A j \in Slots : j # i => flash'[j] = flash[j]
      BY <1>1, <2>2, <3>3 DEF EraseSector, FlashType
    <3>5. Holds' = [Holds EXCEPT ![i] = None]
      BY <3>4, HoldsOneChanged DEF Whole, Intact
    <3>6. Service!Begin(i, img)
      BY <1>6, <2>1, <2>2, <3>2, <3>5
      DEF UploadRequest, act, Service!Begin, Service!Open, Service!Quiet
    <3> QED  BY <3>6 DEF Service!SvcNext
  <2>3. ASSUME NEW p, NEW known, Failed(c, i, "StorageError", p, known), UNCHANGED image
        PROVE  Service!SvcNext \/ UNCHANGED ServiceVars
    <3>1. Jobs' = {} \/ Jobs' = {[slot |-> i, image |-> None]}
      BY <2>1, <2>3, InspectJobs DEF Failed
    <3>2. UNCHANGED <<Holds, selected, booted, countdown>>
      BY <1>6, <2>3 DEF UploadRequest, image, act, Holds
    <3>3. CASE Jobs' = {}  BY <2>1, <3>2, <3>3 DEF ServiceVars
    <3>4. CASE Jobs' = {[slot |-> i, image |-> None]}
      <4>1. Service!BeginInVain(i)
        BY <2>1, <3>2, <3>4 DEF Service!BeginInVain, Service!Open, Service!Quiet
      <4> QED  BY <4>1 DEF Service!SvcNext
    <3> QED  BY <3>1, <3>3, <3>4
  <2> QED  BY <1>6, <2>2, <2>3 DEF UploadRequest
<1> QED  BY <1>2, <1>3, <1>4, <1>5, <1>6 DEF Request

\* An upload that is over, or has nothing left but to look at its slot.
LEMMA AbandonServes ==
  ASSUME IInv, NEW c \in Conns, conns[c].pc \in UploadPcs,
         Jobs' = {} \/ Jobs' = {[slot |-> conns[c].slot, image |-> None]},
         UNCHANGED image, UNCHANGED act
  PROVE  Service!SvcNext
<1> DEFINE j == [slot |-> conns[c].slot, image |-> ToCome(conns[c])]
<1>1. j \in Jobs  BY JobOf
<1>2. j.slot = conns[c].slot  OBVIOUS
<1> HIDE DEF j
<1>3. Service!Abandon(j)  BY <1>2 DEF Service!Abandon, image, act, Holds
<1> QED  BY <1>1, <1>3 DEF Service!SvcNext

\* The image is there, whole, with the last sector of it.
LEMMA WriteServes ==
  ASSUME IInv, IInv', PInv, ClearInv, NEW c \in Conns, Write(c)
  PROVE  Service!SvcNext \/ UNCHANGED ServiceVars
<1> DEFINE old == conns[c]
           i == old.slot
           img == old.image
           len == Len[img]
<1>1. /\ conns \in [Conns -> ConnType] /\ old \in ConnType /\ Cleared(old) /\ Phase(old)
      /\ flash \in FlashType
  BY DEF IInv, TypeOK, ConnType, FlashType, ClearInv, PInv
<1>2. old.pc = "write" /\ old.pc \in UploadPcs  BY DEF Write, UploadPcs
<1>3. /\ i \in Slots /\ img \in Fitting /\ img \in Images /\ img # Erased
      /\ len \in Nat \ {0} /\ len <= Sectors /\ old.done \in Nat /\ old.done < len
      /\ old.total = len
  BY <1>1, <1>2, SystemAssumption DEF ConnType, Fitting, Phase, Write
<1>4. CASE Failed(c, i, "StorageError", process, cache) /\ UNCHANGED image
  <2>1. Jobs' = {} \/ Jobs' = {[slot |-> i, image |-> None]}
    BY <1>2, <1>3, <1>4, InspectJobs DEF Failed
  <2> QED  BY <1>2, <1>4, <2>1, AbandonServes DEF Write
<1>5. CASE /\ flash' = [flash EXCEPT ![i][old.done] = img]
           /\ conns' = [conns EXCEPT ![c].done = @ + 1]
           /\ UNCHANGED <<selected, running, booted, cache, uploading>>
  <2>1. /\ conns'[c].pc = "write" /\ conns'[c].slot = i /\ conns'[c].image = img
        /\ conns'[c].total = len /\ conns'[c].done = old.done + 1
    BY <1>1, <1>2, <1>3, <1>5 DEF ConnType
  <2>2. /\ Jobs = {[slot |-> i, image |-> img]}
        /\ Jobs' = {[slot |-> i, image |-> IF old.done + 1 < len THEN img ELSE None]}
    <3>1. ToCome(old) = img  BY <1>2, <1>3 DEF ToCome
    <3>2. ToCome(conns'[c]) = IF old.done + 1 < len THEN img ELSE None
      BY <2>1 DEF ToCome
    <3> QED  BY <1>2, <2>1, <3>1, <3>2, JobOf, JobNext DEF UploadPcs
  <2>3. \A s \in 0..Sectors-1 :
          flash'[i][s] = IF s = old.done THEN img ELSE flash[i][s]
    BY <1>1, <1>3, <1>5 DEF FlashType
  <2>4. \A s \in 0..old.done-1 : flash[i][s] = img
    BY <1>1, <1>2 DEF Phase, Written
  <2>5. \A s \in old.done..len-1 : flash[i][s] = Erased
    BY <1>1, <1>2, <1>3 DEF Cleared
  <2>6. \A s \in 0..old.done : flash'[i][s] = img
    BY <1>3, <2>3, <2>4, SystemAssumption
  <2>7. flash'[i][0] = img  BY <1>3, <2>6
  <2>8. \A j \in Slots : j # i => flash'[j] = flash[j]  BY <1>1, <1>5 DEF FlashType
  <2>9. Holds' = [Holds EXCEPT ![i] = Whole(flash'[i])]  BY <1>3, <2>8, HoldsOneChanged
  <2>10. UNCHANGED <<selected, booted, countdown>>  BY <1>5 DEF Write, act
  <2>11. CASE old.done + 1 < len
    <3>1. flash[i][len-1] = Erased /\ flash'[i][len-1] = Erased
      BY <1>3, <2>3, <2>5, <2>11, SystemAssumption
    <3>2. Whole(flash'[i]) = None
      BY <1>3, <2>7, <3>1 DEF Whole, Intact
    <3>3. flash[i][0] \in {img, Erased}
      BY <1>3, <2>4, <2>5
    <3>4. Whole(flash[i]) = None
      BY <1>3, <3>1, <3>3 DEF Whole, Intact
    <3>5. Holds \in [Slots -> {Whole(flash[k]) : k \in Slots}] /\ Holds[i] = None
      BY <1>3, <3>4 DEF Holds
    <3>6. Holds' = Holds  BY <2>9, <3>2, <3>5
    <3> QED  BY <2>2, <2>10, <2>11, <3>6 DEF ServiceVars
  <2>12. CASE ~(old.done + 1 < len)
    <3>1. \A s \in 0..len-1 : flash'[i][s] = img  BY <1>3, <2>6, <2>12
    <3>2. Whole(flash'[i]) = img  BY <1>3, <2>7, <3>1 DEF Whole, Intact
    <3> DEFINE j == [slot |-> i, image |-> img]
    <3>3. j.slot = i /\ j.image = img /\ j \in Jobs  BY <2>2
    <3>4. img # None  BY <1>3, SystemAssumption
    <3> HIDE DEF j
    <3>5. Service!Commit(j)
      BY <2>2, <2>9, <2>10, <2>12, <3>2, <3>3, <3>4 DEF Service!Commit
    <3> QED  BY <3>3, <3>5 DEF Service!SvcNext
  <2> QED  BY <2>11, <2>12
<1> QED  BY <1>4, <1>5 DEF Write

\* The other steps of an upload or an inspection.
LEMMA StepServes ==
  ASSUME IInv, IInv', PInv, ClearInv, NEW c \in Conns, Step(c)
  PROVE  Service!SvcNext \/ UNCHANGED ServiceVars
<1> DEFINE old == conns[c]
           i == old.slot
<1>1. /\ conns \in [Conns -> ConnType] /\ old \in ConnType /\ Cleared(old)
      /\ flash \in FlashType /\ i \in Slots /\ old.done \in Nat
  <2>1. conns \in [Conns -> ConnType] /\ flash \in FlashType /\ Cleared(old)
    BY DEF IInv, TypeOK, ConnType, FlashType, ClearInv
  <2> QED  BY <2>1 DEF ConnType
<1>2. ASSUME NEW purpose \in {"identify", "reinspect"}, NEW p, NEW known,
             Inspect(c, purpose, i, p, known), old.pc \in UploadPcs,
             UNCHANGED image, UNCHANGED act
      PROVE  Service!SvcNext
  <2>1. Jobs' = {} \/ Jobs' = {[slot |-> i, image |-> None]}
    BY <1>1, <1>2, InspectJobs
  <2> QED  BY <1>2, <2>1, AbandonServes
<1>3. CASE Erase(c)
  <2>1. old.pc = "erase" /\ old.pc \in UploadPcs  BY <1>3 DEF Erase, UploadPcs
  <2>2. CASE /\ EraseSector(i, old.done) /\ conns' = [conns EXCEPT ![c].done = @ + 1]
             /\ UNCHANGED <<selected, running, booted, cache, uploading>>
    <3>1. /\ conns'[c].pc = "erase" /\ conns'[c].slot = i /\ conns'[c].image = old.image
      BY <1>1, <2>1, <2>2 DEF ConnType
    <3>2. Jobs = {[slot |-> i, image |-> old.image]} /\ Jobs' = Jobs
      BY <2>1, <3>1, JobOf, JobNext DEF ToCome, UploadPcs
    <3>3. flash[i][0] = Erased /\ flash'[i][0] = Erased
      <4>1. flash[i][0] = Erased /\ 0 \in 0..Sectors-1
        BY <1>1, <2>1, SystemAssumption DEF Cleared
      <4> QED  BY <1>1, <2>2, <4>1 DEF EraseSector, FlashType
    <3>4. \A j \in Slots : j # i => flash'[j] = flash[j]
      BY <1>1, <2>2 DEF EraseSector, FlashType
    <3>5. \A j \in Slots : Whole(flash'[j]) = Whole(flash[j])
      BY <3>3, <3>4 DEF Whole, Intact
    <3>6. Holds' = Holds  BY <3>5 DEF Holds
    <3> QED  BY <1>3, <2>2, <3>2, <3>6 DEF Erase, act, ServiceVars
  <2>3. CASE Failed(c, i, "StorageError", process, cache) /\ UNCHANGED image
    BY <1>2, <1>3, <2>1, <2>3 DEF Failed, Erase
  <2> QED  BY <1>3, <2>2, <2>3 DEF Erase
<1>4. CASE ErasedAll(c)
  <2>1. old.pc = "erase" /\ old.pc \in UploadPcs /\ Len[old.image] > 0
    BY <1>1, <1>4, SystemAssumption DEF ErasedAll, UploadPcs, ConnType, Fitting
  <2>2. /\ conns'[c].pc = "write" /\ conns'[c].slot = i /\ conns'[c].image = old.image
        /\ conns'[c].done = 0 /\ conns'[c].total = Len[old.image]
    BY <1>1, <1>4 DEF ErasedAll, ConnType
  <2>3. ToCome(old) = old.image /\ ToCome(conns'[c]) = old.image
    BY <2>1, <2>2 DEF ToCome
  <2>4. Jobs' = Jobs
    BY <2>1, <2>2, <2>3, JobOf, JobNext DEF UploadPcs
  <2> QED  BY <1>4, <2>4 DEF ErasedAll, image, act, ServiceVars, Holds
<1>5. CASE Write(c)
  BY <1>5, WriteServes
<1>6. CASE StreamFails(c) \/ StreamEnds(c)
  BY <1>2, <1>6 DEF StreamFails, StreamEnds, Failed, UploadPcs
<1>7. ASSUME Inspecting(c), NEW v, Conclude(c, old.pc, i, v, process, cache),
             UNCHANGED image, UNCHANGED act
      PROVE  Service!SvcNext \/ UNCHANGED ServiceVars
  <2>1. conns' = [conns EXCEPT ![c] = Idle]  BY <1>7 DEF Conclude
  <2>2. CASE old.pc \notin UploadPcs
    <3>1. Jobs' = Jobs  BY <2>1, <2>2, IdleType, JobsOfOthers DEF UploadPcs
    <3> QED  BY <1>7, <3>1 DEF image, act, ServiceVars, Holds
  <2>3. CASE old.pc \in UploadPcs
    <3>1. \A d \in Conns : conns'[d].pc \notin UploadPcs
      <4>1. \A d \in Conns : conns[d].pc \in UploadPcs => d = c
        BY <2>3 DEF IInv, OneUpload
      <4> QED  BY <1>1, <2>1, <4>1, IdleType DEF UploadPcs
    <3>2. Jobs' = {}  BY <3>1, JobsOfNone DEF Jobs, JobsIn
    <3> QED  BY <1>7, <2>3, <3>2, AbandonServes
  <2> QED  BY <2>2, <2>3
<1>8. CASE Digest(c)
  <2>1. CASE conns' = [conns EXCEPT ![c].done = @ + 1,
                                    ![c].intact = @ /\ flash[i][old.done] = old.image]
    <3> DEFINE r == [old EXCEPT !.done = @ + 1,
                                !.intact = @ /\ flash[i][old.done] = old.image]
    <3>1. conns' = [conns EXCEPT ![c] = r]  BY <1>1, <2>1
    <3>2. r.pc = old.pc /\ r.slot = i /\ r.image = old.image  BY <1>1 DEF ConnType
    <3> HIDE DEF r
    <3>3. conns'[c] = r  BY <1>1, <3>1
    <3>4. CASE old.pc \notin UploadPcs
      <4>1. Jobs' = Jobs  BY <3>1, <3>2, <3>4, JobsOfOthers
      <4> QED  BY <1>8, <4>1 DEF Digest, image, act, ServiceVars, Holds
    <3>5. CASE old.pc \in UploadPcs
      <4>1. ToCome(old) = None /\ ToCome(conns'[c]) = None
        BY <1>8, <3>2, <3>3 DEF Digest, Inspecting, ToCome
      <4>2. Jobs = {[slot |-> i, image |-> None]}  BY <3>5, <4>1, JobOf
      <4>3. Jobs' = {[slot |-> i, image |-> None]}  BY <3>2, <3>3, <3>5, <4>1, JobNext
      <4> QED  BY <1>8, <4>2, <4>3 DEF Digest, image, act, ServiceVars, Holds
    <3> QED  BY <3>4, <3>5
  <2>2. CASE Conclude(c, old.pc, i, "Broken", process, cache)
    BY <1>7, <1>8, <2>2 DEF Digest
  <2> QED  BY <1>8, <2>1, <2>2 DEF Digest
<1>9. CASE Digested(c)
  BY <1>7, <1>9 DEF Digested
<1> QED  BY <1>3, <1>4, <1>5, <1>6, <1>8, <1>9 DEF Step

\* A boot finds the slots as they are and starts what UpdateService starts.
LEMMA BootServes ==
  ASSUME IInv, NEW choice \in Slots, Boot(choice) PROVE Service!StartUp(choice)
<1>1. flash \in FlashType /\ flash' = flash
  BY DEF IInv, TypeOK, FlashType, Boot
<1>2. Jobs' = {}
  <2>1. \A d \in Conns : conns'[d].pc \notin UploadPcs
    BY IdleType DEF Boot, UploadPcs
  <2> QED  BY <2>1, JobsOfNone DEF Jobs, JobsIn
<1>3. \A i \in Slots : Service!Starts(i) <=> Bootable(flash[i])
  BY <1>1, WholeStarts DEF Service!Starts
<1>4. PICK i \in Slots :
        /\ IF Bootable(flash[choice]) THEN i = choice ELSE Bootable(flash[i])
        /\ booted' \in {i, None}
  BY DEF Boot
<1>5. IF Service!Starts(choice) THEN i = choice ELSE Service!Starts(i)
  BY <1>3, <1>4
<1>6. selected' = choice /\ countdown' = None /\ Holds' = Holds
  BY <1>1 DEF Boot, Holds
<1> QED  BY <1>2, <1>4, <1>5, <1>6 DEF Service!StartUp

\* system_task counts the countdown, gives up at its end or starts the device again.
LEMMA TaskServes ==
  ASSUME IInv, IInv', TaskStep \/ Restart PROVE Service!SvcNext \/ UNCHANGED ServiceVars
<1>1. selected \in Slots /\ 0 \in Slots
  BY SystemAssumption DEF IInv, TypeOK
<1>2. task.left > 0 => countdown = task.left /\ countdown # None
  <2>1. Waiting.left = 0  BY DEF Waiting
  <2>2. ASSUME task.left > 0, task = [index |-> selected, left |-> countdown]
        PROVE  countdown = task.left
    BY <2>2
  <2> QED  BY <2>1, <2>2 DEF IInv, CountdownExact
<1>3. CASE TaskWake
  BY <1>3 DEF TaskWake, image, ServiceVars, Jobs, Holds
<1>4. CASE Tick
  <2>1. countdown # None /\ countdown > 1 /\ countdown \in Nat
    BY <1>2, <1>4, SystemAssumption DEF Tick, IInv, TypeOK
  <2>2. countdown' = countdown - 1  BY <1>4, <2>1 DEF Tick, FetchSub
  <2>3. Service!Count
    BY <1>4, <2>1, <2>2 DEF Tick, image, Service!Count, Jobs, Holds
  <2> QED  BY <2>3 DEF Service!SvcNext
<1>5. CASE TaskGivesUp
  <2>1. Service!GiveUp
    BY <1>2, <1>5 DEF TaskGivesUp, image, Service!GiveUp, Jobs, Holds
  <2> QED  BY <2>1 DEF Service!SvcNext
<1>6. CASE TaskReset \/ Restart
  <2>1. Service!StartUp(selected) \/ Service!StartUp(0)
    BY <1>1, <1>6, BootServes DEF TaskReset, Restart
  <2> QED  BY <2>1 DEF Service!SvcNext
<1> QED  BY <1>3, <1>4, <1>5, <1>6 DEF TaskStep

\* Every step is one of UpdateService, or none.
LEMMA NextServes ==
  IInv /\ IInv' /\ PInv /\ ClearInv /\ [Next]_vars => [Service!SvcNext]_(Service!svcVars)
<1> SUFFICES ASSUME IInv, IInv', PInv, ClearInv, [Next]_vars
             PROVE  Service!SvcNext \/ UNCHANGED ServiceVars
  BY DEF Service!svcVars, ServiceVars
<1>1. CASE UNCHANGED vars
  BY <1>1 DEF vars, image, act, ServiceVars, Jobs, Holds
<1> QED  BY <1>1, RequestServes, StepServes, TaskServes DEF Next

\* A device starts with whole images, or none, and no upload.
LEMMA InitServes == Init => Service!SvcInit
<1> SUFFICES ASSUME Init PROVE Service!SvcInit
  OBVIOUS
<1>1. IInv  BY InitIInv
<1>2. flash \in FlashType /\ 0 \in Slots
  BY <1>1, SystemAssumption DEF IInv, TypeOK, FlashType
<1>3. Holds \in [Slots -> Images \cup {None}]
  <2>1. \A i \in Slots : Holds[i] \in Images \cup {None}  BY <1>2, WholeStarts
  <2> QED  BY <2>1 DEF Holds
<1>4. Service!Starts(0)
  <2>1. Bootable(flash[0])  BY FactoryBoots DEF Init
  <2> QED  BY <1>2, <2>1, WholeStarts DEF Service!Starts
<1>5. Jobs = {}
  <2>1. ~uploading  BY DEF Init
  <2> QED  BY <1>1, <2>1, NoJobs
<1> QED  BY <1>3, <1>4, <1>5 DEF Init, Service!SvcInit

\* System implements UpdateService: to whoever looks at the slots, the uploads, the
\* selection and the countdown alone, a slot changes at once as a whole image or not at
\* all, however the server tasks, system_task, failures and restarts interleave.
THEOREM SystemImplementsService == Spec => ImplementsService
<1>1. Init => IInv /\ PInv /\ ClearInv
  BY InitIInv, InitPhase, InitClears
<1>2. IInv /\ PInv /\ ClearInv /\ [Next]_vars => (IInv /\ PInv /\ ClearInv)'
  BY NextIInv, NextPhase, NextClears
<1>3. IInv /\ PInv /\ ClearInv /\ [Next]_vars => [Service!SvcNext]_(Service!svcVars)
  BY NextIInv, NextServes
<1> QED
  BY <1>1, <1>2, <1>3, InitServes, PTL DEF Spec, ImplementsService, Service!SvcSpec
=============================================================================
