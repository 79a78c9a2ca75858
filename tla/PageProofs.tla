----------------------------- MODULE PageProofs -----------------------------
(***************************************************************************)
(* Page for any slots and any number of requests on the way: every         *)
(* variable has its type, what the card shows is about the selected slot,  *)
(* an image shown as doubtful is activated only after a confirmation of    *)
(* it, and what upload() reports of an upload is what became of it.        *)
(***************************************************************************)
EXTENDS Page, FiniteSetTheorems, TLAPS

\* A conclusion is about the target, and what is confirmed is the conclusion shown.
CardOfTarget ==
  /\ slotInfo # None => slotInfo = [slot |-> target, state |-> slotInfo.state]
  /\ confirm # None => confirm = slotInfo

\* A message is a record with a kind and a code.
IsMessage(m) == m = [field \in DOMAIN m |-> m[field]] /\ {"kind", "code"} \subseteq DOMAIN m

\* A request to activate carries a conclusion about its slot, confirmed if need be;
\* only the page's requests wait for an answer, and only an upload for a late one.
Sound(m) ==
  /\ IsMessage(m)
  /\ m.kind = "activate" /\ m.code = "asked" =>
       /\ m.shown = [slot |-> m.slot, state |-> m.shown.state]
       /\ NeedsConfirm(m.shown.state) => m.confirmed = m.shown
  /\ m.kind \in {"poll", "read", "after", "upload", "activate"}
  /\ m.kind = "upload" => m = [kind |-> "upload", slot |-> m.slot, code |-> m.code]
  /\ m.kind \in {"poll", "read", "after"} => m.code \in {"ok", "redirect"}
  /\ m.kind # "poll" => m.slot \in Slots
  /\ m.kind \in {"read", "after"} /\ m.code = "ok" => m.state \in States
  /\ m.code = "taken" => m.kind = "upload"

AllSound == \A m \in net : Sound(m)

\* The requests upload() waits for.
Awaited == {m \in net : m.kind \in {"upload", "after"}}

\* There is one while it waits, for what it waits for.
OneRequest ==
  /\ \A m \in Awaited : flow = IF m.kind = "upload" THEN "post" ELSE "slot"
  /\ \A m, n \in Awaited : m = n
  /\ flow \in {"post", "slot"} => Awaited # {}

\* The device.
DeviceTyped ==
  /\ cache \in [Slots -> States]
  /\ process \in [state : {"Idle", "Received", "Writing", "Ready", "Failed"},
                  mine : BOOLEAN]
  /\ up \in Slots \cup {None}
  /\ up # None => process.state = "Writing"
  /\ counting \in BOOLEAN

\* The page.
PageTyped ==
  /\ target \in Slots /\ slotInfo \in [slot : Slots, state : States] \cup {None}
  /\ readAfterUpload \in BOOLEAN /\ pressed \in BOOLEAN
  /\ flow \in {"none", "post", "uploaded", "told", "slot"}
  /\ uploaded \subseteq {"page", "other"} /\ result \in {"none", "taken", "ready", "failed"}

NetBounded == IsFiniteSet(net) /\ Cardinality(net) <= MaxInFlight

IInv == CardOfTarget /\ DeviceTyped /\ PageTyped /\ AllSound /\ OneRequest /\ NetBounded

-----------------------------------------------------------------------------
(* The card *)

\* A new conclusion, or none, leaves the card about the target.
LEMMA ConcludeKeepsCard ==
  ASSUME NEW info, Conclude(info),
         info # None => info = [slot |-> target', state |-> info.state]
  PROVE  CardOfTarget'
  BY DEF Conclude, CardOfTarget

\* So does a progress line, whatever it says.
LEMMA ProgressKeepsCard ==
  ASSUME CardOfTarget, NEW m, RenderProgress(m)
  PROVE  CardOfTarget'
<1>1. target' = target
  BY DEF RenderProgress
<1>2. CASE UNCHANGED card
  BY <1>1, <1>2 DEF card, CardOfTarget
<1>3. CASE Conclude(None)
  BY <1>3, ConcludeKeepsCard
<1> QED
  BY <1>2, <1>3 DEF RenderProgress

\* And the answer about a slot: it is drawn only if that is the target.
LEMMA SlotKeepsCard ==
  ASSUME CardOfTarget, NEW m, RenderSlot(m)
  PROVE  CardOfTarget'
<1>1. target' = target
  BY DEF RenderSlot
<1>2. CASE UNCHANGED card
  BY <1>1, <1>2 DEF card, CardOfTarget
<1>3. CASE Conclude(None)
  BY <1>3, ConcludeKeepsCard
<1>4. CASE m.slot = target /\ Conclude([slot |-> m.slot, state |-> m.state])
  BY <1>1, <1>4, ConcludeKeepsCard
<1> QED
  BY <1>2, <1>3, <1>4 DEF RenderSlot

\* What no callback and no click touches stays.
LEMMA SameCard ==
  ASSUME CardOfTarget, UNCHANGED <<target, slotInfo, confirm>>
  PROVE  CardOfTarget'
  BY DEF CardOfTarget

\* Every step keeps the card about the target.
LEMMA NextCard == CardOfTarget /\ [Next]_vars => CardOfTarget'
<1> SUFFICES ASSUME CardOfTarget, [Next]_vars PROVE CardOfTarget'
  OBVIOUS
<1>1. CASE Device \/ Others
  BY <1>1, SameCard
  DEF Device, Others, Handle, Inspected, UploadEnds, UploadFails, OtherUpload, OtherActivate,
      page, card
<1>2. CASE Read \/ Upload \/ Activate \/ Poll \/ AskSlot
  BY <1>2, SameCard DEF Read, Upload, Activate, Poll, AskSlot, page, card
<1>3. CASE Confirm
  BY <1>3 DEF Confirm, CardOfTarget
<1>4. ASSUME NEW s \in Slots, SelectTarget(s) PROVE CardOfTarget'
  BY <1>4, ConcludeKeepsCard DEF SelectTarget
<1>5. CASE AskProgress
  BY <1>5, ProgressKeepsCard DEF AskProgress
<1>6. ASSUME NEW m, PollArrives(m) PROVE CardOfTarget'
  BY <1>6, ProgressKeepsCard DEF PollArrives
<1>7. ASSUME NEW m, SlotArrives(m) PROVE CardOfTarget'
  BY <1>7, SlotKeepsCard DEF SlotArrives
<1>8. ASSUME NEW m, UploadArrives(m) PROVE CardOfTarget'
  BY <1>8, SameCard DEF UploadArrives, card
<1>9. ASSUME NEW m, ActivateArrives(m) PROVE CardOfTarget'
  <2>1. target' = target
    BY <1>9 DEF ActivateArrives
  <2>2. CASE UNCHANGED card
    BY <2>1, <2>2, SameCard DEF card
  <2>3. CASE Conclude(None)
    BY <2>3, ConcludeKeepsCard
  <2> QED
    BY <1>9, <2>2, <2>3 DEF ActivateArrives
<1>10. ASSUME NEW m, LoseSlot(m) PROVE CardOfTarget'
  BY <1>10, SameCard DEF LoseSlot, page, card
<1>11. ASSUME NEW m, LoseOther(m) PROVE CardOfTarget'
  BY <1>11, <1>6, <1>8, <1>9 DEF LoseOther
<1>12. CASE UNCHANGED vars
  BY <1>12, SameCard DEF vars, page, card
<1> QED
  BY <1>1, <1>2, <1>3, <1>4, <1>5, <1>6, <1>7, <1>8, <1>9, <1>10, <1>11, <1>12
  DEF Next, User, Callback, Arrive, Lose

\* Whatever answers are on the way, for however long, the conclusion on the card is
\* about the slot that is selected.
THEOREM PageConclusionIsTargets == Spec => []ConclusionIsTargets
<1>1. Init => CardOfTarget
  BY DEF Init, CardOfTarget
<1>2. CardOfTarget => ConclusionIsTargets
  <2> SUFFICES ASSUME CardOfTarget, slotInfo # None PROVE slotInfo.slot = target
    BY DEF ConclusionIsTargets
  <2>1. slotInfo = [slot |-> target, state |-> slotInfo.state]
    BY DEF CardOfTarget
  <2> QED
    BY <2>1
<1> QED
  BY <1>1, <1>2, NextCard, PTL DEF Spec

-----------------------------------------------------------------------------
(* What is on the way *)

\* One more message that is sound, and maybe fewer of the others.
LEMMA OneMore ==
  ASSUME AllSound, NEW a, Sound(a), net' \subseteq net \cup {a}
  PROVE  AllSound'
  BY DEF AllSound

\* What the device tells is no request to activate, and is not answered late.
LEMMA ToldIsSound ==
  ASSUME DeviceTyped
  PROVE  /\ Sound(Progress)
         /\ \A s \in Slots : \A kind \in {"read", "after"} : Sound(Status(kind, s))
  BY DEF DeviceTyped, Sound, Progress, Status, Answer, IsMessage

\* What the device gets is a request of the page, for a slot.
LEMMA AskedIsRequest ==
  ASSUME NEW m, Sound(m), m.code = "asked"
  PROVE  m.kind \in {"upload", "activate"} /\ m.slot \in Slots
  BY DEF Sound

\* The device only ever gives a request one of three codes, and the late one only to
\* an upload.
LEMMA HandleReplies ==
  ASSUME NEW r \in net, Handle(r)
  PROVE  \E code \in {"ok", "refused", "taken"} :
           Reply(r, code) /\ (code = "taken" => r.kind = "upload")
  BY DEF Handle, TakeUpload, TakeActivate, Refuse

\* So what is on the way stays sound.
LEMMA HandleIsSound ==
  ASSUME AllSound, NEW r \in net, Handle(r)
  PROVE  AllSound'
<1>1. PICK code \in {"ok", "refused", "taken"} :
         Reply(r, code) /\ (code = "taken" => r.kind = "upload")
  BY HandleReplies
<1>2. net' \subseteq net \cup {[kind |-> r.kind, slot |-> r.slot, code |-> code]}
  BY <1>1 DEF Reply, Answered
<1>3. r.kind \in {"upload", "activate"} /\ r.slot \in Slots
  BY AskedIsRequest DEF AllSound, Handle
<1>4. Sound([kind |-> r.kind, slot |-> r.slot, code |-> code])
  <2>1. code = "taken" => r.kind = "upload"
    BY <1>1
  <2> QED
    BY <1>3, <2>1 DEF Sound, IsMessage
<1> QED
  BY <1>2, <1>4, OneMore

\* The end of an upload answers its request, if that is still waiting.
LEMMA LateIsAnswer ==
  ASSUME AllSound, OneRequest, net' = ReplyLate
  PROVE  \/ net' = net
         \/ \E m \in net :
              /\ process.mine /\ m.code = "taken" /\ m.kind = "upload" /\ m.slot \in Slots
              /\ Answered(m, [kind |-> "upload", slot |-> m.slot, code |-> "ok"])
<1> DEFINE waiting == {m \in net : process.mine /\ m.code = "taken"}
<1>1. net' = (net \ waiting) \cup {[m EXCEPT !.code = "ok"] : m \in waiting}
  BY DEF ReplyLate
<1>2. CASE waiting = {}
  BY <1>1, <1>2
<1>3. ASSUME NEW w \in waiting PROVE
        /\ process.mine /\ w.code = "taken" /\ w.kind = "upload" /\ w.slot \in Slots
        /\ Answered(w, [kind |-> "upload", slot |-> w.slot, code |-> "ok"])
  <2>1. process.mine /\ w \in net /\ w.code = "taken"
    OBVIOUS
  <2>2. w.kind = "upload" /\ w.slot \in Slots
        /\ w = [kind |-> "upload", slot |-> w.slot, code |-> w.code]
    BY <2>1 DEF AllSound, Sound
  <2>3. \A m \in waiting : m \in Awaited
    BY DEF AllSound, Sound, Awaited
  <2>4. waiting = {w}
    BY <2>3 DEF OneRequest
  <2>5. [w EXCEPT !.code = "ok"] = [kind |-> "upload", slot |-> w.slot, code |-> "ok"]
    BY <2>2
  <2> HIDE DEF waiting
  <2>6. net' = (net \ {w}) \cup {[w EXCEPT !.code = "ok"]}
    BY <1>1, <2>4
  <2> QED
    BY <2>1, <2>2, <2>5, <2>6 DEF Answered
<1> QED
  BY <1>2, <1>3

\* So what is on the way stays sound.
LEMMA LateIsSound ==
  ASSUME AllSound, OneRequest, net' = ReplyLate
  PROVE  AllSound'
<1>1. CASE net' = net
  BY <1>1 DEF AllSound
<1>2. ASSUME NEW m \in net, m.slot \in Slots,
             Answered(m, [kind |-> "upload", slot |-> m.slot, code |-> "ok"])
      PROVE  AllSound'
  <2>1. Sound([kind |-> "upload", slot |-> m.slot, code |-> "ok"])
    BY <1>2 DEF Sound, IsMessage
  <2>2. net' \subseteq net \cup {[kind |-> "upload", slot |-> m.slot, code |-> "ok"]}
    BY <1>2 DEF Answered
  <2> QED
    BY <2>1, <2>2, OneMore
<1> QED
  BY <1>1, <1>2, LateIsAnswer

\* A request to activate is sent with the conclusion on the card.
LEMMA ActivateIsSound ==
  ASSUME CardOfTarget, PageTyped, AllSound, Activate
  PROVE  AllSound'
<1> DEFINE a == [kind |-> "activate", slot |-> target, code |-> "asked",
                 shown |-> slotInfo, confirmed |-> confirm]
<1>1. slotInfo = [slot |-> target, state |-> slotInfo.state]
  BY DEF Activate, CardOfTarget
<1>2. NeedsConfirm(slotInfo.state) => confirm = slotInfo
  BY DEF Activate, CardOfTarget
<1>3. Sound(a)
  BY <1>1, <1>2 DEF Sound, PageTyped, IsMessage
<1>4. net' \subseteq net \cup {a}
  BY DEF Activate, Send
<1> QED
  BY <1>3, <1>4, OneMore

\* Every step keeps what is on the way sound.
LEMMA NextSound ==
  CardOfTarget /\ DeviceTyped /\ PageTyped /\ AllSound /\ OneRequest /\ [Next]_vars => AllSound'
<1> SUFFICES ASSUME CardOfTarget, DeviceTyped, PageTyped, AllSound, OneRequest, [Next]_vars
             PROVE  AllSound'
  OBVIOUS
<1>0. target \in Slots
  BY DEF PageTyped
<1>1. ASSUME NEW r \in net, Handle(r) PROVE AllSound'
  BY <1>1, HandleIsSound
<1>2. ASSUME NEW s, UploadEnds(s) \/ UploadFails(s) PROVE AllSound'
  BY <1>2, LateIsSound DEF UploadEnds, UploadFails
<1>3. CASE net' \subseteq net
  BY <1>3 DEF AllSound
<1>4. ASSUME NEW s \in Slots, OtherUpload(s) \/ OtherActivate(s) PROVE net' \subseteq net
  BY <1>4 DEF OtherUpload, OtherActivate
<1>5. CASE Activate
  BY <1>5, ActivateIsSound
<1>6. CASE Upload
  <2> DEFINE a == [kind |-> "upload", slot |-> target, code |-> "asked"]
  <2>1. Sound(a) /\ net' \subseteq net \cup {a}
    BY <1>0, <1>6 DEF Upload, Send, Sound, IsMessage
  <2> QED
    BY <2>1, OneMore
<1>7. CASE Read \/ AskSlot
  <2>1. PICK kind \in {"read", "after"} : net' \subseteq net \cup {Status(kind, target)}
    BY <1>7 DEF Read, AskSlot, Send
  <2> QED
    BY <1>0, <2>1, ToldIsSound, OneMore
<1>8. CASE Poll
  BY <1>8, ToldIsSound, OneMore DEF Poll, Send
<1>9. ASSUME Confirm \/ AskProgress \/ \E s \in Slots : SelectTarget(s) PROVE net' \subseteq net
  BY <1>9 DEF Confirm, AskProgress, SelectTarget
<1>10. ASSUME NEW m \in net, Arrive(m) \/ LoseOther(m) PROVE net' \subseteq net
  BY <1>10 DEF Arrive, LoseOther
<1>11. ASSUME NEW r \in net, LoseSlot(r) PROVE AllSound'
  <2>1. CASE r.kind \in {"read", "after"} /\ Answered(r, Status(r.kind, target))
    <3>1. net' \subseteq net \cup {Status(r.kind, target)}
      BY <2>1 DEF Answered
    <3>2. Sound(Status(r.kind, target))
      BY <1>0, <2>1, ToldIsSound
    <3> QED
      BY <3>1, <3>2, OneMore
  <2> QED
    BY <1>11, <2>1, <1>3 DEF LoseSlot
<1>12. CASE UNCHANGED vars \/ \E s \in States : Inspected(s)
  BY <1>12 DEF vars, Inspected, AllSound
<1> QED
  BY <1>1, <1>2, <1>3, <1>4, <1>5, <1>6, <1>7, <1>8, <1>9, <1>10, <1>11, <1>12
  DEF Next, Device, Others, User, Callback, Lose

-----------------------------------------------------------------------------
(* Types *)

\* An upload begins in a slot, in one phase.
LEMMA AcceptTyped ==
  ASSUME DeviceTyped, NEW mine \in BOOLEAN, NEW s \in Slots, Accept(mine, s)
  PROVE  DeviceTyped'
  BY PageAssumption DEF DeviceTyped, Accept, States

\* Every step keeps the device typed.
LEMMA NextDeviceTyped == AllSound /\ DeviceTyped /\ [Next]_vars => DeviceTyped'
<1> SUFFICES ASSUME AllSound, DeviceTyped, [Next]_vars PROVE DeviceTyped'
  OBVIOUS
<1>1. CASE UNCHANGED device
  BY <1>1 DEF device, DeviceTyped
<1>2. ASSUME NEW r \in net, Handle(r) PROVE DeviceTyped'
  <2>1. r.slot \in Slots
    BY <1>2, AskedIsRequest DEF AllSound, Handle
  <2>2. CASE TakeUpload(r)
    BY <2>1, <2>2, AcceptTyped DEF TakeUpload
  <2>3. CASE TakeActivate(r)
    BY <2>3 DEF TakeActivate, DeviceTyped
  <2>4. CASE Refuse(r)
    BY <1>1, <2>4 DEF Refuse
  <2> QED
    BY <1>2, <2>2, <2>3, <2>4 DEF Handle
<1>3. ASSUME NEW s \in States, UploadEnds(s) \/ UploadFails(s) PROVE DeviceTyped'
  <2>1. /\ up' = None /\ up \in Slots /\ cache' = [cache EXCEPT ![up] = s]
        /\ counting' = counting
    BY <1>3 DEF DeviceTyped, UploadEnds, UploadFails
  <2>2. /\ process'.state \in {"Idle", "Received", "Writing", "Ready", "Failed"}
        /\ process' \in [state : {"Idle", "Received", "Writing", "Ready", "Failed"},
                         mine : BOOLEAN]
    BY <1>3 DEF DeviceTyped, UploadEnds, UploadFails
  <2> QED
    BY <2>1, <2>2 DEF DeviceTyped
<1>4. ASSUME NEW s \in Slots, OtherUpload(s) \/ OtherActivate(s) PROVE DeviceTyped'
  <2>1. CASE OtherUpload(s)
    BY <2>1, AcceptTyped DEF OtherUpload
  <2>2. CASE OtherActivate(s)
    BY <2>2 DEF OtherActivate, DeviceTyped
  <2> QED
    BY <1>4, <2>1, <2>2
<1>5. CASE User \/ Callback \/ \E m \in net : Lose(m)
  BY <1>1, <1>5 DEF User, Read, Confirm, Upload, Activate, SelectTarget, Callback, Poll,
                    AskProgress, AskSlot, Arrive, Lose
<1>6. CASE UNCHANGED vars
  BY <1>1, <1>6 DEF vars
<1>7. ASSUME NEW s \in States, Inspected(s) PROVE DeviceTyped'
  BY <1>7 DEF Inspected, DeviceTyped
<1> QED
  BY <1>2, <1>3, <1>4, <1>5, <1>6, <1>7 DEF Next, Device, Others

\* Whatever a progress line says, the page stays typed,
LEMMA ProgressTyped ==
  ASSUME PageTyped, NEW m, RenderProgress(m), UNCHANGED history,
         flow' \in {"none", "post", "uploaded", "told", "slot"}
  PROVE  PageTyped'
  BY DEF PageTyped, RenderProgress, Conclude, card, history

\* and so it does with an answer about a slot.
LEMMA SlotTyped ==
  ASSUME PageTyped, NEW m, m.slot \in Slots, m.code = "ok" => m.state \in States,
         RenderSlot(m), UNCHANGED history,
         flow' \in {"none", "post", "uploaded", "told", "slot"}
  PROVE  PageTyped'
<1>1. CASE UNCHANGED <<card, readAfterUpload>>
  BY <1>1 DEF PageTyped, RenderSlot, card, history
<1>2. CASE m.code = "ok" /\ Conclude([slot |-> m.slot, state |-> m.state]) /\ readAfterUpload' = TRUE
  <2>1. slotInfo' \in [slot : Slots, state : States] /\ pressed' \in BOOLEAN
    BY <1>2 DEF Conclude
  <2> QED
    BY <1>2, <2>1 DEF PageTyped, RenderSlot, history
<1>3. CASE Conclude(None) /\ UNCHANGED readAfterUpload
  BY <1>3 DEF PageTyped, RenderSlot, Conclude, history
<1> QED
  BY <1>1, <1>2, <1>3 DEF RenderSlot

\* Every step keeps the page typed.
LEMMA NextPageTyped == AllSound /\ DeviceTyped /\ PageTyped /\ [Next]_vars => PageTyped'
<1> SUFFICES ASSUME AllSound, DeviceTyped, PageTyped, [Next]_vars PROVE PageTyped'
  OBVIOUS
<1>1. ASSUME UNCHANGED page, uploaded' \subseteq {"page", "other"},
             result' \in {"none", "taken", "ready", "failed"}
      PROVE  PageTyped'
  BY <1>1 DEF page, card, PageTyped
<1>2. result \in {"none", "taken", "ready", "failed"} /\ uploaded \subseteq {"page", "other"}
  BY DEF PageTyped
<1>3. CASE Device \/ Others
  <2>1. ASSUME NEW mine, NEW s, Accept(mine, s)
        PROVE  result' \in {"none", "taken", "ready", "failed"}
    BY <1>2, <2>1 DEF Accept, Over
  <2>2. ASSUME NEW r \in net, Handle(r) PROVE PageTyped'
    BY <1>1, <1>2, <2>1, <2>2 DEF Handle, TakeUpload, TakeActivate, Refuse, history
  <2>3. ASSUME NEW s, UploadEnds(s) \/ UploadFails(s) PROVE PageTyped'
    BY <1>1, <1>2, <2>3 DEF UploadEnds, UploadFails, Over
  <2>5. ASSUME NEW s, Inspected(s) PROVE PageTyped'
    BY <1>1, <1>2, <2>5 DEF Inspected, history
  <2>4. ASSUME NEW s, OtherUpload(s) \/ OtherActivate(s) PROVE PageTyped'
    BY <1>1, <1>2, <2>1, <2>4 DEF OtherUpload, OtherActivate, history
  <2> QED
    BY <1>3, <2>2, <2>3, <2>4, <2>5 DEF Device, Others
<1>4. CASE Read \/ Poll
  BY <1>1, <1>2, <1>4 DEF Read, Poll, history
<1>5. CASE Upload
  BY <1>5 DEF Upload, card, PageTyped
<1>6. CASE Confirm \/ Activate
  BY <1>6 DEF Confirm, Activate, history, PageTyped
<1>7. ASSUME NEW s \in Slots, SelectTarget(s) PROVE PageTyped'
  BY <1>7 DEF SelectTarget, Conclude, history, PageTyped
<1>8. CASE AskSlot
  BY <1>8 DEF AskSlot, card, history, PageTyped
<1>9. CASE AskProgress
  BY <1>9, ProgressTyped DEF AskProgress
<1>10. flow \in {"none", "post", "uploaded", "told", "slot"}
  BY DEF PageTyped
<1>11. ASSUME NEW m, PollArrives(m), UNCHANGED history PROVE PageTyped'
  BY <1>10, <1>11, ProgressTyped DEF PollArrives
<1>12. ASSUME NEW m, UploadArrives(m), UNCHANGED history PROVE PageTyped'
  BY <1>12 DEF UploadArrives, card, history, PageTyped
<1>13. ASSUME NEW m, ActivateArrives(m), UNCHANGED history PROVE PageTyped'
  BY <1>13 DEF ActivateArrives, Conclude, card, history, PageTyped
<1>14. ASSUME NEW m \in net, SlotArrives(m), UNCHANGED history PROVE PageTyped'
  <2>1. m.slot \in Slots /\ (m.code = "ok" => m.state \in States)
    BY <1>14 DEF SlotArrives, AllSound, Sound
  <2>2. flow' \in {"none", "post", "uploaded", "told", "slot"}
    BY <1>10, <1>14 DEF SlotArrives, Continue
  <2> QED
    BY <1>14, <2>1, <2>2, SlotTyped DEF SlotArrives
<1>15. ASSUME NEW m \in net, LoseSlot(m), UNCHANGED history PROVE PageTyped'
  BY <1>10, <1>15 DEF LoseSlot, Continue, page, card, history, PageTyped
<1>16. CASE UNCHANGED vars
  BY <1>1, <1>2, <1>16 DEF vars, history
<1> QED
  BY <1>3, <1>4, <1>5, <1>6, <1>7, <1>8, <1>9, <1>11, <1>12, <1>13, <1>14, <1>15, <1>16
  DEF Next, User, Callback, Arrive, Lose, LoseOther

-----------------------------------------------------------------------------
(* What upload() waits for *)

\* An answer of the kind of its request takes the place of it.
LEMMA AnswerKeepsRequest ==
  ASSUME OneRequest, NEW m \in net, NEW a, a.kind = m.kind, Answered(m, a), flow' = flow
  PROVE  OneRequest'
<1>1. CASE m \in Awaited
  <2>1. Awaited = {m}
    BY <1>1 DEF OneRequest
  <2>2. Awaited' = {a}
    BY <1>1, <2>1 DEF Awaited, Answered
  <2>3. flow = IF m.kind = "upload" THEN "post" ELSE "slot"
    BY <1>1 DEF OneRequest
  <2> QED
    BY <2>2, <2>3 DEF OneRequest
<1>2. CASE m \notin Awaited
  <2>1. Awaited' = Awaited
    BY <1>2 DEF Awaited, Answered
  <2> QED
    BY <2>1 DEF OneRequest
<1> QED
  BY <1>1, <1>2

\* Nothing upload() waits for is sent or arrives.
LEMMA OthersKeepRequest ==
  ASSUME OneRequest, Awaited' = Awaited,
         flow' = flow \/ {flow, flow'} \cap {"post", "slot"} = {}
  PROVE  OneRequest'
  BY DEF OneRequest

\* upload() sends a request and waits for it.
LEMMA RequestIsSent ==
  ASSUME OneRequest, flow \notin {"post", "slot"}, NEW a, net' = net \cup {a},
         \/ a.kind = "upload" /\ flow' = "post"
         \/ a.kind = "after" /\ flow' = "slot"
  PROVE  OneRequest'
<1>1. Awaited = {}
  BY DEF OneRequest
<1>2. Awaited' = {a}
  BY <1>1 DEF Awaited
<1> QED
  BY <1>2 DEF OneRequest

\* What it waits for has arrived, or is lost.
LEMMA RequestIsOver ==
  ASSUME OneRequest, NEW m \in Awaited, net' = net \ {m}, flow' \notin {"post", "slot"}
  PROVE  OneRequest'
<1>1. Awaited' = {}
  BY DEF Awaited, OneRequest
<1> QED
  BY <1>1 DEF OneRequest

\* A message is gone that upload() waits for, and it goes on, or one it does not.
LEMMA MessageIsGone ==
  ASSUME OneRequest, NEW m \in net, net' = net \ {m},
         \/ m.kind \notin {"upload", "after"} /\ flow' = flow
         \/ m.kind \in {"upload", "after"} /\ flow' \notin {"post", "slot"}
  PROVE  OneRequest'
<1>1. CASE m \notin Awaited
  <2>1. Awaited' = Awaited
    BY <1>1 DEF Awaited
  <2> QED
    BY <1>1, <2>1, OthersKeepRequest DEF Awaited
<1>2. CASE m \in Awaited
  BY <1>2, RequestIsOver DEF Awaited
<1> QED
  BY <1>1, <1>2

\* upload() waits for one request at a time.
LEMMA NextOneRequest == AllSound /\ OneRequest /\ [Next]_vars => OneRequest'
<1> SUFFICES ASSUME AllSound, OneRequest, [Next]_vars PROVE OneRequest'
  OBVIOUS
<1>1. ASSUME UNCHANGED <<net, flow>> PROVE OneRequest'
  BY <1>1, OthersKeepRequest DEF Awaited
<1>2. ASSUME NEW r \in net, Handle(r) PROVE OneRequest'
  <2>1. PICK code \in {"ok", "refused", "taken"} : Reply(r, code)
    BY <1>2, HandleReplies
  <2>2. flow' = flow
    BY <1>2 DEF Handle, page
  <2> QED
    BY <2>1, <2>2, AnswerKeepsRequest DEF Reply
<1>3. ASSUME NEW s, UploadEnds(s) \/ UploadFails(s) PROVE OneRequest'
  <2>1. net' = ReplyLate /\ flow' = flow
    BY <1>3 DEF UploadEnds, UploadFails, page
  <2>2. CASE net' = net
    BY <1>1, <2>1, <2>2
  <2>3. CASE net' # net
    <3>1. PICK m \in net :
            /\ m.kind = "upload"
            /\ Answered(m, [kind |-> "upload", slot |-> m.slot, code |-> "ok"])
      BY <2>1, <2>3, LateIsAnswer
    <3> QED
      BY <2>1, <3>1, AnswerKeepsRequest
  <2> QED
    BY <2>2, <2>3
<1>4. CASE Others
  BY <1>1, <1>4 DEF Others, OtherUpload, OtherActivate, page
<1>5. CASE Read \/ Poll \/ Activate
  <2>1. PICK a : a.kind \notin {"upload", "after"} /\ net' = net \cup {a}
    BY <1>5 DEF Read, Poll, Activate, Send, Status, Progress, Answer
  <2>2. Awaited' = Awaited
    BY <2>1 DEF Awaited
  <2>3. flow' = flow
    BY <1>5 DEF Read, Poll, Activate, page
  <2> QED
    BY <2>2, <2>3, OthersKeepRequest
<1>6. CASE Upload
  BY <1>6, RequestIsSent DEF Upload, Send
<1>7. CASE AskSlot
  <2>1. PICK a : a.kind = "after" /\ net' = net \cup {a}
    BY <1>7 DEF AskSlot, Send, Status, Answer
  <2> QED
    BY <1>7, <2>1, RequestIsSent DEF AskSlot
<1>8. CASE AskProgress
  BY <1>8, OthersKeepRequest DEF AskProgress, Awaited
<1>9. CASE Confirm \/ \E s \in Slots : SelectTarget(s)
  BY <1>1, <1>9 DEF Confirm, SelectTarget
<1>10. ASSUME NEW m \in net, Arrive(m) PROVE OneRequest'
  <2>1. \/ m.kind \notin {"upload", "after"} /\ flow' = flow
        \/ m.kind \in {"upload", "after"} /\ flow' \notin {"post", "slot"}
    BY <1>10 DEF Arrive, PollArrives, SlotArrives, UploadArrives, ActivateArrives, Continue
  <2> QED
    BY <1>10, <2>1, MessageIsGone DEF Arrive
<1>11. ASSUME NEW m \in net, LoseOther(m) PROVE OneRequest'
  <2>1. m.kind = [m EXCEPT !.code = "lost"].kind
    BY DEF AllSound, Sound, IsMessage
  <2>2. \/ m.kind \notin {"upload", "after"} /\ flow' = flow
        \/ m.kind \in {"upload", "after"} /\ flow' \notin {"post", "slot"}
    BY <1>11, <2>1 DEF LoseOther, PollArrives, UploadArrives, ActivateArrives
  <2> QED
    BY <1>11, <2>2, MessageIsGone DEF LoseOther
<1>12. ASSUME NEW m \in net, LoseSlot(m) PROVE OneRequest'
  <2>1. CASE Answered(m, Status(m.kind, target)) /\ UNCHANGED page
    <3>1. Status(m.kind, target).kind = m.kind
      BY DEF Status, Answer
    <3> QED
      BY <2>1, <3>1, AnswerKeepsRequest DEF page
  <2>2. CASE net' = net \ {m} /\ Continue(m)
    <3>1. \/ m.kind \notin {"upload", "after"} /\ flow' = flow
          \/ m.kind \in {"upload", "after"} /\ flow' \notin {"post", "slot"}
      BY <1>12, <2>2 DEF LoseSlot, Continue
    <3> QED
      BY <2>2, <3>1, MessageIsGone
  <2> QED
    BY <1>12, <2>1, <2>2 DEF LoseSlot
<1>13. CASE UNCHANGED vars \/ \E s \in States : Inspected(s)
  BY <1>1, <1>13 DEF vars, Inspected, page
<1> QED
  BY <1>2, <1>3, <1>4, <1>5, <1>6, <1>7, <1>8, <1>9, <1>10, <1>11, <1>12, <1>13
  DEF Next, Device, User, Callback, Lose

-----------------------------------------------------------------------------
(* How much is on the way *)

\* An answer is no more than its request.
LEMMA AnswerKeepsBound ==
  ASSUME NetBounded, NEW m \in net, NEW a, Answered(m, a)
  PROVE  NetBounded'
<1> DEFINE rest == net \ {m}
<1>1. /\ IsFiniteSet(rest) /\ Cardinality(rest) = Cardinality(net) - 1
      /\ Cardinality(net) \in Nat
  BY FS_RemoveElement, FS_CardinalityType DEF NetBounded
<1> HIDE DEF rest
<1>2. IsFiniteSet(rest \cup {a}) /\ Cardinality(rest \cup {a}) <= Cardinality(net)
  <2>1. CASE a \in rest
    <3>1. rest \cup {a} = rest
      BY <2>1
    <3> QED
      BY <1>1, <3>1
  <2>2. CASE a \notin rest
    <3>1. IsFiniteSet(rest \cup {a}) /\ Cardinality(rest \cup {a}) = Cardinality(rest) + 1
      BY <1>1, <2>2, FS_AddElement
    <3> QED
      BY <1>1, <3>1
  <2> QED
    BY <2>1, <2>2
<1>3. net' = rest \cup {a}
  BY DEF Answered, rest
<1>4. Cardinality(net) <= MaxInFlight /\ MaxInFlight \in Nat
        /\ Cardinality(net) \in Nat /\ Cardinality(rest \cup {a}) \in Nat
  BY <1>1, <1>2, FS_CardinalityType, PageAssumption DEF NetBounded
<1> QED
  BY <1>2, <1>3, <1>4 DEF NetBounded

\* A request is sent only if there is room for it.
LEMMA SendKeepsBound ==
  ASSUME NetBounded, NEW a, Send(a)
  PROVE  NetBounded'
<1>1. /\ a \notin net /\ Cardinality(net) < MaxInFlight /\ net' = net \cup {a}
      /\ IsFiniteSet(net) /\ Cardinality(net) \in Nat
  BY FS_CardinalityType DEF NetBounded, Send
<1>2. IsFiniteSet(net \cup {a}) /\ Cardinality(net \cup {a}) = Cardinality(net) + 1
  BY <1>1, FS_AddElement
<1> QED
  BY <1>1, <1>2, PageAssumption DEF NetBounded

\* Fewer messages are no more.
LEMMA FewerKeepBound ==
  ASSUME NetBounded, net' \subseteq net
  PROVE  NetBounded'
<1>1. /\ IsFiniteSet(net') /\ Cardinality(net') <= Cardinality(net)
      /\ Cardinality(net') \in Nat /\ Cardinality(net) \in Nat
  BY FS_Subset, FS_CardinalityType DEF NetBounded
<1> QED
  BY <1>1, PageAssumption DEF NetBounded

\* Every step keeps the bound: the end of an upload answers one request.
LEMMA NextNetBounded == AllSound /\ OneRequest /\ NetBounded /\ [Next]_vars => NetBounded'
<1> SUFFICES ASSUME AllSound, OneRequest, NetBounded, [Next]_vars PROVE NetBounded'
  OBVIOUS
<1>1. CASE net' \subseteq net
  BY <1>1, FewerKeepBound
<1>2. ASSUME NEW r \in net, Handle(r) PROVE NetBounded'
  <2>1. PICK code \in {"ok", "refused", "taken"} : Reply(r, code)
    BY <1>2, HandleReplies
  <2> QED
    BY <2>1, AnswerKeepsBound DEF Reply
<1>3. ASSUME NEW s, UploadEnds(s) \/ UploadFails(s) PROVE NetBounded'
  <2>1. net' = ReplyLate
    BY <1>3 DEF UploadEnds, UploadFails
  <2> QED
    BY <1>1, <2>1, LateIsAnswer, AnswerKeepsBound
<1>4. CASE Read \/ Poll \/ Activate \/ Upload \/ AskSlot
  BY <1>4, SendKeepsBound DEF Read, Poll, Activate, Upload, AskSlot
<1>5. ASSUME NEW m \in net, LoseSlot(m) PROVE NetBounded'
  BY <1>1, <1>5, AnswerKeepsBound DEF LoseSlot
<1>6. CASE Others \/ Confirm \/ AskProgress \/ \E s \in Slots : SelectTarget(s)
  BY <1>1, <1>6 DEF Others, OtherUpload, OtherActivate, Confirm, AskProgress, SelectTarget
<1>7. ASSUME NEW m \in net, Arrive(m) \/ LoseOther(m) PROVE NetBounded'
  BY <1>1, <1>7 DEF Arrive, LoseOther
<1>8. CASE UNCHANGED vars \/ \E s \in States : Inspected(s)
  BY <1>1, <1>8 DEF vars, Inspected
<1> QED
  BY <1>2, <1>3, <1>4, <1>5, <1>6, <1>7, <1>8 DEF Next, Device, User, Callback, Lose

-----------------------------------------------------------------------------
(* The invariant *)

\* It holds at the start: nothing is on the way.
LEMMA InitInv == Init => IInv
<1> SUFFICES ASSUME Init PROVE IInv
  OBVIOUS
<1>1. CardOfTarget
  BY DEF Init, CardOfTarget
<1>2. DeviceTyped
  BY PageAssumption DEF Init, DeviceTyped
<1>3. PageTyped
  BY DEF Init, PageTyped
<1>4. AllSound /\ OneRequest
  BY DEF Init, AllSound, OneRequest, Awaited
<1>5. NetBounded
  BY FS_EmptySet, PageAssumption DEF Init, NetBounded
<1> QED
  BY <1>1, <1>2, <1>3, <1>4, <1>5 DEF IInv

\* And always.
LEMMA SpecInv == Spec => []IInv
<1>1. IInv /\ [Next]_vars => IInv'
  BY NextCard, NextDeviceTyped, NextPageTyped, NextSound, NextOneRequest, NextNetBounded DEF IInv
<1> QED
  BY <1>1, InitInv, PTL DEF Spec

\* For any slots and any number of requests on the way, what the device answers and the
\* page keeps has its type, and upload() waits for exactly one request whenever it
\* waits, through lost, late and dropped answers.
THEOREM PageTypeCorrect == Spec => []TypeOK
<1>1. IInv => TypeOK
  <2> SUFFICES ASSUME IInv PROVE TypeOK
    OBVIOUS
  <2>1. Cardinality(Awaited) = IF flow \in {"post", "slot"} THEN 1 ELSE 0
    <3>1. CASE Awaited = {}
      BY <3>1, FS_EmptySet DEF IInv, OneRequest
    <3>2. ASSUME NEW m \in Awaited PROVE Cardinality(Awaited) = 1 /\ flow \in {"post", "slot"}
      <4>1. Awaited = {m}
        BY DEF IInv, OneRequest
      <4>2. Cardinality({m}) = 1
        BY FS_Singleton
      <4>3. flow \in {"post", "slot"}
        BY DEF IInv, OneRequest
      <4> QED
        BY <4>1, <4>2, <4>3
    <3> QED
      BY <3>1, <3>2
  <2> QED
    BY <2>1 DEF IInv, TypeOK, DeviceTyped, PageTyped, NetBounded, Awaited
<1> QED
  BY <1>1, SpecInv, PTL

-----------------------------------------------------------------------------
(* The confirmation *)

\* Only handling it makes the device accept a request of the page.
LEMMA AcceptedIsHandled ==
  ASSUME [Next]_vars, NEW m, Accepts(m)
  PROVE  m.code = "asked"
<1>1. m \in net /\ m \notin net' /\ counting' # counting
  BY DEF Accepts
<1>2. ASSUME NEW r \in net, Handle(r) PROVE m = r
  BY <1>1, <1>2 DEF Handle, TakeUpload, TakeActivate, Refuse, Reply, Answered
<1>3. ASSUME NEW s, UploadEnds(s) \/ UploadFails(s) PROVE FALSE
  BY <1>1, <1>3 DEF UploadEnds, UploadFails
<1>4. CASE Others
  BY <1>1, <1>4 DEF Others, OtherUpload, OtherActivate, Accept
<1>5. CASE User
  BY <1>1, <1>5 DEF User, Read, Confirm, Upload, Activate, SelectTarget, device
<1>6. CASE Callback
  BY <1>1, <1>6 DEF Callback, Poll, AskProgress, AskSlot, Arrive, device
<1>7. ASSUME NEW r \in net, Lose(r) PROVE FALSE
  BY <1>1, <1>7 DEF Lose, device
<1>8. CASE UNCHANGED vars \/ \E s \in States : Inspected(s)
  BY <1>1, <1>8 DEF vars, Inspected
<1> QED
  BY <1>2, <1>3, <1>4, <1>5, <1>6, <1>7, <1>8 DEF Next, Device, Handle

\* Whatever else happens in between, an image that needs a confirmation and is what
\* the card shows is only ever activated after a confirmation of exactly that.
THEOREM PageConfirmedAsShown == Spec => ConfirmedAsShown
<1>3. IInv /\ [Next]_vars =>
      \A m \in net : Accepts(m) /\ NeedsConfirm(cache[m.slot]) =>
        cache[m.slot] # m.shown.state \/ m.confirmed = [slot |-> m.slot, state |-> cache[m.slot]]
  <2> SUFFICES ASSUME IInv, [Next]_vars, NEW m \in net, Accepts(m),
                      NeedsConfirm(cache[m.slot]), cache[m.slot] = m.shown.state
               PROVE  m.confirmed = [slot |-> m.slot, state |-> cache[m.slot]]
    OBVIOUS
  <2>1. m.kind = "activate" /\ m.code = "asked"
    BY AcceptedIsHandled DEF Accepts
  <2>2. /\ m.shown = [slot |-> m.slot, state |-> m.shown.state]
        /\ NeedsConfirm(m.shown.state) => m.confirmed = m.shown
    BY <2>1 DEF IInv, AllSound, Sound
  <2> QED
    BY <2>2
<1>4. IInv /\ [Next]_vars =>
      [\A m \in net : Accepts(m) /\ NeedsConfirm(cache[m.slot]) =>
         cache[m.slot] # m.shown.state
           \/ m.confirmed = [slot |-> m.slot, state |-> cache[m.slot]]]_vars
  BY <1>3
<1> QED
  BY <1>4, SpecInv, PTL DEF Spec, ConfirmedAsShown

-----------------------------------------------------------------------------
(* The verdict *)

\* The page's upload is in progress.
Running == process.mine /\ up # None

\* No request for it is still to be handled.
Unasked == \A m \in net : m.kind = "upload" => m.code # "asked"

\* A state of the progress record tells what became of the upload, as long as the
\* page waits to know.
Fits(state) ==
  /\ state # "Idle"
  /\ flow # "none" => (state = "Ready" <=> result = "ready")

\* It is the last one the record will have of that upload.
LastTrue(state) == ~Running /\ "page" \in uploaded /\ Unasked /\ Fits(state)

\* An answer says what has become of its request.
UploadTrue(m) ==
  /\ m.code = "taken" => Running /\ result # "none"
  /\ m.code = "ok" => ~Running /\ result # "none"

\* A progress answer that claims to be the last one is.
TellsTrue(m) == m.code = "ok" /\ m.last => LastTrue(m.state) /\ ~m.uploading

\* The line tells, from now on, a state that is true if it is said to be the last.
LineTells(s) ==
  /\ lastProgress'.state = s
  /\ lastProgress'.last => LastTrue(s) /\ lastProgress'.stuck = ~Terminal(s)

\* So does the line.
LineTrue ==
  lastProgress # None /\ lastProgress.last =>
    /\ LastTrue(lastProgress.state)
    /\ lastProgress.stuck = ~Terminal(lastProgress.state)

\* The page's upload, as the device has it, as it is told of it, and as it goes on.
Reported ==
  /\ "page" \notin uploaded => flow = "none" /\ ~process.mine
  /\ flow \in {"uploaded", "told", "slot"} => ~Running /\ result # "none"
  /\ \A m \in net : m.kind = "upload" => UploadTrue(m)
  /\ process.mine => Unasked /\ Fits(process.state)
  /\ \A m \in net : m.kind = "poll" => TellsTrue(m)
  /\ LineTrue

\* Where the device goes on as before, the page goes on with its upload only when that
\* is over, and whatever is new on the way or on the progress line is true.
LEMMA TrueStep ==
  ASSUME Reported, UNCHANGED <<process, up, uploaded, result>>,
         \/ flow' \in {flow, "none"}
         \/ flow # "none" /\ flow' \in {"uploaded", "told", "slot"} /\ ~Running /\ result # "none",
         \A m \in net' :
           \/ m \in net
           \/ /\ m.kind = "upload" => m.code \notin {"asked", "taken", "ok"}
              /\ m.kind = "poll" => TellsTrue(m),
         lastProgress' \in {lastProgress, None} \/ \E s : LineTells(s)
  PROVE  Reported'
<1>1. Running' = Running
  BY DEF Running
<1>2. Unasked => Unasked'
  BY DEF Unasked
<1>3. ASSUME NEW s, Fits(s), "page" \in uploaded PROVE Fits(s)'
  BY <1>3 DEF Fits
<1>4. ASSUME NEW s, LastTrue(s) PROVE LastTrue(s)'
  BY <1>1, <1>2, <1>3, <1>4 DEF LastTrue
<1>5. "page" \notin uploaded' => flow' = "none" /\ ~process'.mine
  BY DEF Reported
<1>6. flow' \in {"uploaded", "told", "slot"} => ~Running' /\ result' # "none"
  BY <1>1 DEF Reported
<1>7. ASSUME NEW m \in net', m.kind = "upload" PROVE UploadTrue(m)'
  <2>1. CASE m \in net
    BY <1>1, <1>7, <2>1 DEF Reported, UploadTrue
  <2>2. CASE m.code \notin {"asked", "taken", "ok"}
    BY <2>2 DEF UploadTrue
  <2> QED
    BY <1>7, <2>1, <2>2
<1>8. process'.mine => Unasked' /\ Fits(process.state)'
  BY <1>2, <1>3 DEF Reported
<1>9. ASSUME NEW m \in net', m.kind = "poll" PROVE TellsTrue(m)'
  <2>1. TellsTrue(m)
    BY <1>9 DEF Reported
  <2> QED
    BY <1>4, <2>1 DEF TellsTrue
<1>10. LineTrue'
  <2>1. CASE lastProgress' = lastProgress
    <3>1. LineTrue
      BY DEF Reported
    <3> QED
      BY <1>4, <2>1, <3>1 DEF LineTrue
  <2>2. CASE lastProgress' = None
    BY <2>2 DEF LineTrue
  <2>3. ASSUME NEW s, LineTells(s) PROVE LineTrue'
    <3>1. CASE ~lastProgress'.last
      BY <3>1 DEF LineTrue
    <3>2. CASE lastProgress'.last
      <4>1. LastTrue(s)' /\ lastProgress'.state = s /\ lastProgress'.stuck = ~Terminal(s)
        BY <1>4, <2>3, <3>2 DEF LineTells
      <4>2. LastTrue(lastProgress.state)'
        BY <4>1 DEF LastTrue, Fits
      <4> QED
        BY <4>1, <4>2 DEF LineTrue
    <3> QED
      BY <3>1, <3>2
  <2> QED
    BY <2>1, <2>2, <2>3
<1> QED
  BY <1>5, <1>6, <1>7, <1>8, <1>9, <1>10 DEF Reported

\* Another client's upload begins or ends: nothing is told of the page's any more.
LEMMA NotMine ==
  ASSUME Reported, ~Running, ~process'.mine, UNCHANGED <<net, flow, result, lastProgress>>,
         "page" \in uploaded' <=> "page" \in uploaded
  PROVE  Reported'
<1>1. ~Running'
  BY DEF Running
<1>2. ASSUME NEW s, LastTrue(s) PROVE LastTrue(s)'
  BY <1>1, <1>2 DEF LastTrue, Unasked, Fits
<1>3. ASSUME NEW m \in net', m.kind = "upload" PROVE UploadTrue(m)'
  BY <1>1, <1>3 DEF Reported, UploadTrue
<1>4. ASSUME NEW m \in net', m.kind = "poll" PROVE TellsTrue(m)'
  <2>1. TellsTrue(m)
    BY <1>4 DEF Reported
  <2> QED
    BY <1>2, <2>1 DEF TellsTrue
<1>5. LineTrue'
  <2>1. LineTrue
    BY DEF Reported
  <2> QED
    BY <1>2, <2>1 DEF LineTrue
<1> QED
  BY <1>1, <1>3, <1>4, <1>5 DEF Reported

\* The device says of the last progress that it is, when it is.
LEMMA ProgressTrue ==
  ASSUME Reported
  PROVE  TellsTrue(Progress)
<1> SUFFICES ASSUME Progress.code = "ok", Progress.last
             PROVE  LastTrue(Progress.state) /\ ~Progress.uploading
  BY DEF TellsTrue
<1>1. ~counting
  BY DEF Progress, Answer
<1>2. /\ Progress.state = process.state /\ Progress.last = (process.mine /\ up = None)
      /\ Progress.uploading = (up # None)
  BY <1>1 DEF Progress, Answer
<1> QED
  BY <1>2 DEF Reported, LastTrue, Running

\* The progress line shows what an answer says.
LEMMA RenderTrue ==
  ASSUME NEW m, m # None => TellsTrue(m), RenderProgress(m)
  PROVE  lastProgress' \in {lastProgress, None} \/ \E s : LineTells(s)
<1>1. CASE m = None \/ m.code # "ok"
  BY <1>1 DEF RenderProgress
<1>2. CASE m # None /\ m.code = "ok"
  <2>1. /\ lastProgress'.state = m.state /\ lastProgress'.last = m.last
        /\ lastProgress'.stuck = (~m.uploading /\ ~Terminal(m.state))
    BY <1>2 DEF RenderProgress
  <2>2. m.last => LastTrue(m.state) /\ ~m.uploading
    BY <1>2 DEF TellsTrue
  <2> QED
    BY <2>1, <2>2 DEF LineTells
<1> QED
  BY <1>1, <1>2

\* Accepting the page's upload: nothing has been told of it before, and the answer
\* says whether it is over already.
LEMMA TakeUploadTrue ==
  ASSUME IInv, Reported, NEW r \in net, r.kind = "upload", r.code = "asked", TakeUpload(r),
         UNCHANGED <<page, uploaded>>
  PROVE  Reported'
<1>0. PICK code : code = IF up' = None THEN "ok" ELSE "taken"
  OBVIOUS
<1> DEFINE a == [kind |-> "upload", slot |-> r.slot, code |-> code]
<1>1. Awaited = {r} /\ flow = "post" /\ flow' = "post" /\ net' = (net \ {r}) \cup {a}
  <2>1. r \in Awaited
    BY DEF Awaited
  <2>2. net' = (net \ {r}) \cup {a} /\ flow' = flow
    BY <1>0 DEF TakeUpload, Reply, Answered, page
  <2> QED
    BY <2>1, <2>2 DEF IInv, OneRequest
<1>2. LineTrue' /\ ~Unasked /\ "page" \in uploaded'
  <2>1. ~Unasked
    BY DEF Unasked
  <2>2. lastProgress # None => ~lastProgress.last
    BY <2>1 DEF Reported, LineTrue, LastTrue
  <2>3. LineTrue'
    BY <2>2 DEF LineTrue, page, line
  <2> QED
    BY <1>1, <2>1, <2>3 DEF Reported
<1>3. \A m \in net' : m.kind = "upload" => m = a
  BY <1>1 DEF Awaited
<1>4. Unasked'
  BY <1>0, <1>3 DEF Unasked
<1>5. \A m \in net' : m.kind = "poll" => ~(m.code = "ok" /\ m.last)
  <2>1. \A m \in net : m.kind = "poll" => ~(m.code = "ok" /\ m.last)
    BY <1>2 DEF Reported, TellsTrue, LastTrue
  <2> QED
    BY <1>1, <2>1
<1>6. /\ process'.mine /\ process'.state \in {"Received", "Writing"}
      /\ result' \in {"failed", "taken"}
  <2>1. CASE process' = [state |-> "Received", mine |-> TRUE] /\ Over("failed")
    BY <1>1, <2>1 DEF Over
  <2>2. CASE process' = [state |-> "Writing", mine |-> TRUE] /\ Over("taken")
    BY <1>1, <2>2 DEF Over
  <2> QED
    BY <2>1, <2>2 DEF TakeUpload, Accept
<1>7. Fits(process.state)'
  BY <1>6 DEF Fits
<1>8. UploadTrue(a)'
  BY <1>0, <1>6 DEF UploadTrue, Running
<1> HIDE DEF a
<1>9. \A m \in net' : m.kind = "upload" => UploadTrue(m)'
  BY <1>3, <1>8
<1>10. \A m \in net' : m.kind = "poll" => TellsTrue(m)'
  BY <1>5 DEF TellsTrue
<1>11. "page" \notin uploaded' => flow' = "none" /\ ~process'.mine
  BY <1>2
<1>12. flow' \in {"uploaded", "told", "slot"} => ~Running' /\ result' # "none"
  BY <1>1
<1> QED
  BY <1>2, <1>4, <1>7, <1>9, <1>10, <1>11, <1>12 DEF Reported

\* The page's upload comes to its end: its request is answered, and the record says how
\* it ended.
LEMMA OverTrue ==
  ASSUME IInv, Reported, Running, net' = ReplyLate, up' = None, process'.mine,
         UNCHANGED <<page, uploaded>>,
         NEW r \in {"ready", "failed"}, Over(r),
         process'.state # "Idle", process'.state = "Ready" <=> r = "ready"
  PROVE  Reported'
<1>1. process.mine /\ up # None /\ ~Running' /\ flow' = flow /\ flow \in {"none", "post"}
  BY DEF Running, Reported, IInv, PageTyped, page
<1>2. flow = "post" => result' = r
  BY DEF Over
<1>3. Unasked
  BY <1>1 DEF Reported
<1>4. /\ \A m \in net' : m.kind = "poll" => m \in net
      /\ \A m \in net' : m.kind = "upload" => flow = "post" /\ m.code \notin {"asked", "taken"}
  <2>1. /\ AllSound /\ OneRequest
        /\ \A m \in net : m.kind = "upload" => flow = "post"
    BY DEF IInv, OneRequest, Awaited
  <2>2. ASSUME NEW m \in net', m \notin net PROVE m.kind = "upload" /\ m.code = "ok" /\ flow = "post"
    BY <2>1, <2>2, LateIsAnswer DEF Answered
  <2>3. ASSUME NEW m \in net', m \in net PROVE m.code # "taken"
    <3>1. CASE m \in {[n EXCEPT !.code = "ok"] : n \in {n \in net : process.mine /\ n.code = "taken"}}
      <4>1. PICK n \in net : n.code = "taken" /\ m = [n EXCEPT !.code = "ok"]
        BY <3>1
      <4>2. n = [kind |-> "upload", slot |-> n.slot, code |-> n.code]
        BY <2>1, <4>1 DEF AllSound, Sound
      <4> QED
        BY <4>1, <4>2
    <3>2. CASE m \notin {n \in net : process.mine /\ n.code = "taken"}
      BY <1>1, <2>3, <3>2
    <3> QED
      BY <3>1, <3>2 DEF ReplyLate
  <2> QED
    BY <1>3, <2>1, <2>2, <2>3 DEF Unasked
<1>5. Unasked'
  BY <1>4 DEF Unasked
<1>6. \A m \in net' : m.kind = "upload" => UploadTrue(m)'
  BY <1>1, <1>2, <1>4 DEF UploadTrue
<1>7. Fits(process.state)'
  BY <1>1, <1>2 DEF Fits
<1>8. \A m \in net' : m.kind = "poll" => TellsTrue(m)'
  BY <1>4 DEF Reported, TellsTrue, LastTrue
<1>9. LineTrue'
  BY DEF Reported, LineTrue, LastTrue, page, line
<1>10. "page" \in uploaded'
  BY <1>1 DEF Reported
<1> QED
  BY <1>1, <1>5, <1>6, <1>7, <1>8, <1>9, <1>10 DEF Reported

\* The steps of the device.
LEMMA DeviceTrue ==
  ASSUME IInv, Reported, Device \/ Others
  PROVE  Reported'
<1>1. ASSUME NEW r \in net, Handle(r) PROVE Reported'
  <2>1. CASE r.kind = "upload" /\ TakeUpload(r)
    BY <1>1, <2>1, TakeUploadTrue DEF Handle
  <2>2. CASE \/ r.kind = "activate" /\ TakeActivate(r)
             \/ Refuse(r)
    <3>1. r.kind \in {"upload", "activate"}
      BY <1>1, AskedIsRequest DEF Handle, IInv, AllSound
    <3>2. UNCHANGED <<process, up, uploaded, result, flow, lastProgress>>
      BY <1>1, <2>2 DEF Handle, TakeActivate, Refuse, device, history, page, line
    <3>3. \A m \in net' : m \in net \/ (/\ m.kind = "upload" => m.code \notin {"asked", "taken", "ok"}
                                        /\ m.kind = "poll" => TellsTrue(m))
      BY <2>2, <3>1 DEF TakeActivate, Refuse, Reply, Answered
    <3> QED
      BY <3>2, <3>3, TrueStep
  <2> QED
    BY <1>1, <2>1, <2>2 DEF Handle
<1>2. ASSUME NEW s \in States, UploadEnds(s) PROVE Reported'
  <2> DEFINE r == IF Activatable(s) THEN "ready" ELSE "failed"
  <2>1. /\ up # None /\ up' = None /\ net' = ReplyLate /\ Over(r)
        /\ UNCHANGED <<page, uploaded>>
        /\ process' = [process EXCEPT !.state = IF Activatable(s) THEN "Ready" ELSE "Failed"]
    BY <1>2 DEF UploadEnds
  <2>2. /\ process'.mine = process.mine
        /\ process'.state = IF Activatable(s) THEN "Ready" ELSE "Failed"
    BY <2>1 DEF IInv, DeviceTyped
  <2>3. CASE process.mine
    <3>1. r \in {"ready", "failed"} /\ (process'.state = "Ready" <=> r = "ready")
      BY <2>2
    <3>2. Running /\ process'.state # "Idle" /\ process'.mine
      BY <2>1, <2>2, <2>3 DEF Running
    <3> HIDE DEF r
    <3> QED
      BY <2>1, <3>1, <3>2, OverTrue
  <2>4. CASE ~process.mine
    BY <2>1, <2>2, <2>4, NotMine DEF ReplyLate, Over, Running, page, line
  <2> QED
    BY <2>3, <2>4
<1>3. ASSUME NEW s, UploadFails(s) PROVE Reported'
  <2>1. /\ up # None /\ up' = None /\ net' = ReplyLate /\ Over("failed")
        /\ UNCHANGED <<page, uploaded, process>> /\ process.state = "Writing"
    BY <1>3 DEF UploadFails, IInv, DeviceTyped
  <2>2. CASE process.mine
    BY <2>1, <2>2, OverTrue DEF Running
  <2>3. CASE ~process.mine
    BY <2>1, <2>3, NotMine DEF ReplyLate, Over, Running, page, line
  <2> QED
    BY <2>2, <2>3
<1>4. ASSUME NEW s, OtherUpload(s) PROVE Reported'
  <2>1. /\ up = None /\ ~process'.mine /\ UNCHANGED <<page, net, result>>
        /\ uploaded' = uploaded \cup {"other"}
    BY <1>4 DEF OtherUpload, Accept, Over
  <2> QED
    BY <2>1, NotMine DEF Running, page, line
<1>5. ASSUME NEW s, OtherActivate(s) PROVE Reported'
  BY <1>5, TrueStep DEF OtherActivate, page, line, history
<1>6. ASSUME NEW s, Inspected(s) PROVE Reported'
  BY <1>6, TrueStep DEF Inspected, page, line, history
<1> QED
  BY <1>1, <1>2, <1>3, <1>4, <1>5, <1>6 DEF Device, Others

\* The steps of the page and of the network: the verdict is only asked for when the
\* upload has been answered, and what arrives was true when it was told.
LEMMA PageTrue ==
  ASSUME IInv, Reported, User \/ Callback \/ \E m \in net : Lose(m)
  PROVE  Reported'
<1>1. ASSUME UNCHANGED <<device, history, flow, lastProgress>>,
             \A m \in net' : \/ m \in net
                             \/ /\ m.kind = "upload" => m.code \notin {"asked", "taken", "ok"}
                                /\ m.kind = "poll" => TellsTrue(m)
      PROVE  Reported'
  BY <1>1, TrueStep DEF device, history
<1>2. ASSUME NEW a, a.kind \notin {"upload", "poll"}, net' \subseteq net \cup {a},
             UNCHANGED <<device, history, flow, lastProgress>>
      PROVE  Reported'
  BY <1>1, <1>2
<1>3. ASSUME NEW kind \in {"read", "after"}, NEW s
      PROVE  Status(kind, s).kind \notin {"upload", "poll"}
  BY DEF Status, Answer
<1>4. CASE Read
  BY <1>2, <1>3, <1>4 DEF Read, Send, page, line
<1>5. CASE Activate
  BY <1>2, <1>5 DEF Activate, Send, line
<1>6. CASE Confirm \/ \E s \in Slots : SelectTarget(s)
  BY <1>1, <1>6 DEF Confirm, SelectTarget, line
<1>7. CASE Upload
  <2>1. /\ flow = "none" /\ "page" \notin uploaded /\ uploaded' = uploaded \cup {"page"}
        /\ net' = net \cup {[kind |-> "upload", slot |-> target, code |-> "asked"]}
        /\ flow' = "post" /\ UNCHANGED <<device, lastProgress, result>>
    BY <1>7 DEF Upload, Send, line
  <2>2. ~process.mine /\ Awaited = {}
    BY <2>1 DEF Reported, IInv, OneRequest
  <2>3. ~process'.mine /\ ~Running'
    BY <2>1, <2>2 DEF device, Running
  <2>4. \A m \in net' : m.kind = "upload" => m.code = "asked"
    BY <2>1, <2>2 DEF Awaited
  <2>5. \A m \in net' : m.kind = "poll" => TellsTrue(m)'
    <3>1. \A m \in net' : m.kind = "poll" => m \in net
      BY <2>1
    <3> QED
      BY <2>1, <3>1 DEF Reported, TellsTrue, LastTrue
  <2>6. LineTrue'
    BY <2>1 DEF Reported, LineTrue, LastTrue
  <2>7. \A m \in net' : m.kind = "upload" => UploadTrue(m)'
    BY <2>4 DEF UploadTrue
  <2> QED
    BY <2>1, <2>3, <2>5, <2>6, <2>7 DEF Reported
<1>8. CASE Poll
  <2>1. net' = net \cup {Progress} /\ UNCHANGED <<device, history, flow, lastProgress>>
    BY <1>8 DEF Poll, Send, page, line
  <2>2. TellsTrue(Progress) /\ Progress.kind = "poll"
    BY ProgressTrue DEF Progress, Answer
  <2> QED
    BY <1>1, <2>1, <2>2
<1>9. CASE AskProgress
  <2>1. /\ flow = "uploaded" /\ flow' = "told" /\ ~Running /\ result # "none"
        /\ UNCHANGED <<process, up, uploaded, result, net>>
    BY <1>9 DEF AskProgress, Reported, device, history
  <2>2. lastProgress' \in {lastProgress, None} \/ \E s : LineTells(s)
    BY <1>9, ProgressTrue, RenderTrue DEF AskProgress
  <2> QED
    BY <2>1, <2>2, TrueStep
<1>10. CASE AskSlot
  <2>1. /\ flow = "told" /\ flow' = "slot" /\ ~Running /\ result # "none"
        /\ UNCHANGED <<process, up, uploaded, result, lastProgress>>
    BY <1>10 DEF AskSlot, Reported, device, history, line
  <2>2. \A m \in net' : m \in net \/ m.kind \notin {"upload", "poll"}
    BY <1>3, <1>10 DEF AskSlot, Send
  <2> QED
    BY <2>1, <2>2, TrueStep
<1>11. ASSUME NEW m, PollArrives(m), m.code = "ok" /\ m.last => TellsTrue(m), net' \subseteq net,
              UNCHANGED <<device, history>>
       PROVE  Reported'
  <2>1. TellsTrue(m)
    BY <1>11 DEF TellsTrue
  <2>2. lastProgress' \in {lastProgress, None} \/ \E s : LineTells(s)
    BY <1>11, <2>1, RenderTrue DEF PollArrives
  <2> QED
    BY <1>11, <2>2, TrueStep DEF PollArrives, device, history
<1>12. ASSUME NEW m, UploadArrives(m), m.code = "ok" => m \in net, net' \subseteq net,
              UNCHANGED <<device, history>>
       PROVE  Reported'
  <2>1. UNCHANGED <<process, up, uploaded, result, lastProgress>>
    BY <1>12 DEF UploadArrives, device, history, line
  <2>2. CASE m.code # "ok"
    BY <1>12, <2>1, <2>2, TrueStep DEF UploadArrives
  <2>3. CASE m.code = "ok"
    <3>1. m \in net /\ m.kind = "upload" /\ flow' = "uploaded"
      BY <1>12, <2>3 DEF UploadArrives
    <3>2. flow = "post" /\ ~Running /\ result # "none"
      BY <2>3, <3>1 DEF IInv, OneRequest, Awaited, Reported, UploadTrue
    <3> QED
      BY <1>12, <2>1, <3>1, <3>2, TrueStep
  <2> QED
    BY <2>2, <2>3
<1>13. ASSUME NEW m, SlotArrives(m) \/ ActivateArrives(m), net' \subseteq net,
              UNCHANGED <<device, history>>
       PROVE  Reported'
  <2>1. flow' \in {flow, "none"} /\ lastProgress' = lastProgress
    BY <1>13 DEF SlotArrives, ActivateArrives, RenderSlot, Continue, line
  <2> QED
    BY <1>13, <2>1, TrueStep DEF device, history
<1>14. ASSUME NEW m \in net, Arrive(m) PROVE Reported'
  <2>1. m.kind = "poll" => TellsTrue(m)
    BY DEF Reported
  <2>2. net' \subseteq net /\ UNCHANGED <<device, history>>
    BY <1>14 DEF Arrive
  <2>3. PollArrives(m) => m.kind = "poll"
    BY DEF PollArrives
  <2> QED
    BY <1>11, <1>12, <1>13, <1>14, <2>1, <2>2, <2>3 DEF Arrive
<1>15. ASSUME NEW m \in net, LoseOther(m), UNCHANGED <<device, history>> PROVE Reported'
  <2> DEFINE lost == [m EXCEPT !.code = "lost"]
  <2>1. net' \subseteq net /\ (PollArrives(lost) \/ UploadArrives(lost) \/ ActivateArrives(lost))
    BY <1>15 DEF LoseOther
  <2>2. lost.code # "ok"
    BY DEF IInv, AllSound, Sound, IsMessage
  <2> HIDE DEF lost
  <2> QED
    BY <1>11, <1>12, <1>13, <1>15, <2>1, <2>2
<1>16. ASSUME NEW m \in net, LoseSlot(m), UNCHANGED <<device, history>> PROVE Reported'
  <2>1. CASE m.kind \in {"read", "after"} /\ Answered(m, Status(m.kind, target)) /\ UNCHANGED page
    <3>1. net' \subseteq net \cup {Status(m.kind, target)}
            /\ UNCHANGED <<device, history, flow, lastProgress>>
      BY <1>16, <2>1 DEF Answered, page, line
    <3>2. Status(m.kind, target).kind \notin {"upload", "poll"}
      BY <1>3, <2>1
    <3> QED
      BY <1>2, <3>1, <3>2
  <2>2. CASE net' = net \ {m} /\ Continue(m) /\ UNCHANGED line
    <3>1. flow' \in {flow, "none"} /\ lastProgress' = lastProgress /\ net' \subseteq net
      BY <2>2 DEF Continue, line
    <3> QED
      BY <1>16, <3>1, TrueStep DEF device, history
  <2> QED
    BY <1>16, <2>1, <2>2 DEF LoseSlot
<1> QED
  BY <1>4, <1>5, <1>6, <1>7, <1>8, <1>9, <1>10, <1>14, <1>15, <1>16 DEF User, Callback, Lose

\* Every step keeps what is told of the upload true.
LEMMA NextReported == IInv /\ Reported /\ [Next]_vars => Reported'
<1> SUFFICES ASSUME IInv, Reported, [Next]_vars PROVE Reported'
  OBVIOUS
<1>1. CASE UNCHANGED vars
  BY <1>1, TrueStep DEF vars, device, page, line, history
<1> QED
  BY <1>1, DeviceTrue, PageTrue DEF Next

\* Through late, lost and dropped answers, redirects and the uploads of other clients:
\* the page reports its upload as done only if the device has taken it, and when it
\* judges by the last progress of that upload, as done only if it reached Ready and as
\* failed only if it did not.
THEOREM PageReportTrue == Spec => ReportTrue
<1> DEFINE Judged == JudgesUpload =>
              /\ Verdict = "done" => result # "none"
              /\ lastProgress # None /\ lastProgress.last =>
                   /\ Verdict = "done" => result = "ready"
                   /\ Verdict = "failed" => result # "ready"
<1>1. Init => Reported
  BY DEF Init, Reported, LineTrue
<1>2. Reported => Judged
  <2> SUFFICES ASSUME Reported, JudgesUpload PROVE Judged
    OBVIOUS
  <2>1. flow = "slot" /\ result # "none"
    BY DEF JudgesUpload, Reported
  <2>2. ASSUME lastProgress # None, lastProgress.last
        PROVE  /\ Verdict = "done" => result = "ready"
               /\ Verdict = "failed" => result # "ready"
    <3>1. /\ lastProgress.state # "Idle"
          /\ lastProgress.state = "Ready" <=> result = "ready"
          /\ lastProgress.stuck = ~Terminal(lastProgress.state)
      BY <2>1, <2>2 DEF Reported, LineTrue, LastTrue, Fits
    <3>2. Verdict = "failed" <=> lastProgress.state = "Failed" \/ lastProgress.stuck
      BY <2>2 DEF Verdict
    <3>3. Verdict = "done" => Verdict # "failed"
      OBVIOUS
    <3> QED
      BY <3>1, <3>2, <3>3 DEF Terminal
  <2> QED
    BY <2>1, <2>2
<1>3. Reported /\ [Next]_vars => [Judged]_vars
  BY <1>2
<1> QED
  BY <1>1, <1>3, NextReported, SpecInv, PTL DEF Spec, ReportTrue
=============================================================================
