-------------------------------- MODULE Page --------------------------------
(***************************************************************************)
(* The maintenance page in a browser, the device that answers it through   *)
(* MaintenanceLayer and the handlers, and other clients of the device.     *)
(*                                                                         *)
(* The page runs one callback at a time.  Its requests are on the way      *)
(* together, and each of them and each answer may be late or lost.  The    *)
(* device answers in one step, and an upload goes on while it answers      *)
(* others; what happens inside an upload or an inspection is System's.     *)
(***************************************************************************)
EXTENDS Naturals, FiniteSets

CONSTANTS
  Slots,              \* the slots a client may upload into: not the running one
  AtFirst,            \* states the slots may have before any upload
  MaxInFlight,        \* requests of the page that are on the way at a time
  None

\* Slot states as far as the page acts on them: Foreign stands for Unverified
\* too, and Unfit for every state that cannot be activated.
States == {"Unfit", "Foreign", "Available"}

ASSUME PageAssumption ==
  MaxInFlight \in Nat /\ None \notin Slots /\ AtFirst \subseteq States

Activatable(s) == s \in {"Foreign", "Available"}
NeedsConfirm(s) == s = "Foreign"

VARIABLES
  cache,              \* the state the device has of each slot
  up,                 \* the slot of the upload in progress
  process,            \* UploadProcess, and whether it is about the page's upload
  counting,           \* a countdown to the reset runs
  net,                \* requests and answers on the way
  target,             \* TARGET
  slotInfo,           \* slotInfo, and the slot it is about
  confirm,            \* the conclusion for which the user has ticked the box
  pressed,            \* the activation button was pressed and is disabled since
  readAfterUpload,
  lastPhase,
  lastProgress,       \* lastProgress, and whether it is the last of the page's upload
  uploaded,           \* clients that have sent their upload: each has one
  flow,               \* what upload() waits for
  result              \* history: what became of the page's upload

device == <<cache, up, process, counting>>
card == <<slotInfo, confirm, pressed>>
line == <<lastPhase, lastProgress>>
page == <<target, card, readAfterUpload, line, flow>>
history == <<uploaded, result>>
vars == <<device, net, page, history>>

Send(m) == m \notin net /\ Cardinality(net) < MaxInFlight /\ net' = net \cup {m}

Answered(m, a) == net' = (net \ {m}) \cup {a}

-----------------------------------------------------------------------------
(* What the device tells.  Nothing the properties tell apart changes in the  *)
(* device, so it does not matter how late the request is: the answer is sent *)
(* with it.                                                                  *)

\* MaintenanceLayer redirects everything in a countdown.
Answer(a) == IF counting THEN [kind |-> a.kind, slot |-> a.slot, code |-> "redirect"] ELSE a

Progress ==
  Answer([kind |-> "poll", slot |-> None, code |-> "ok", state |-> process.state,
          uploading |-> up # None, last |-> process.mine /\ up = None])

\* /system/status tells the cached state, /system/inspect what it has just stored
\* there, see Inspected.
Status(kind, s) == Answer([kind |-> kind, slot |-> s, code |-> "ok", state |-> cache[s]])

-----------------------------------------------------------------------------
(* What the device does *)

Reply(m, code) == Answered(m, [kind |-> m.kind, slot |-> m.slot, code |-> code])

\* The request of the page's upload is answered once the upload is over.
ReplyLate ==
  LET waiting == {m \in net : process.mine /\ m.code = "taken"}
  IN  (net \ waiting) \cup {[m EXCEPT !.code = "ok"] : m \in waiting}

Over(r) == result' = IF process'.mine /\ flow = "post" THEN r ELSE result

AcceptAlways(mine, s) ==      \* mutant: the flag is not tested
  /\ \/ /\ process' = [state |-> "Received", mine |-> mine]
        /\ UNCHANGED <<cache, up>> /\ Over("failed")
     \/ /\ process' = [state |-> "Writing", mine |-> mine]
        /\ up' = s /\ cache' = [cache EXCEPT ![s] = "Unfit"] /\ Over("taken")
  /\ UNCHANGED counting

\* Accepted and given up before anything is erased, or begun.  Writing stands for
\* every phase of an upload that goes on.
Accept(mine, s) ==
  /\ up = None
  /\ \/ /\ process' = [state |-> "Received", mine |-> mine]
        /\ UNCHANGED <<cache, up>> /\ Over("failed")
     \/ /\ process' = [state |-> "Writing", mine |-> mine]
        /\ up' = s /\ cache' = [cache EXCEPT ![s] = "Unfit"] /\ Over("taken")
  /\ UNCHANGED counting

TakeUpload(m) ==
  /\ ~counting /\ Accept(TRUE, m.slot)
  /\ Reply(m, IF up' = None THEN "ok" ELSE "taken")

Switches(s) == up = None /\ Activatable(cache[s])

TakeActivate(m) ==
  /\ ~counting /\ Switches(m.slot)
  /\ counting' = TRUE /\ Reply(m, "ok")
  /\ UNCHANGED <<cache, up, process, history>>

\* MaintenanceLayer redirects, or the handler answers with an error, which needs no
\* state of the slot: the size of the file is one, or OTA data that cannot be written.
Refuse(m) == Reply(m, "refused") /\ UNCHANGED <<device, history>>

Handle(m) ==
  /\ m \in net /\ m.code = "asked"
  /\ \/ m.kind = "upload" /\ TakeUpload(m)
     \/ m.kind = "activate" /\ TakeActivate(m)
     \/ Refuse(m)
  /\ UNCHANGED <<page, uploaded>>

\* The last inspection: Ready or Failed.
UploadEnds(s) ==
  /\ up # None /\ s \in States
  /\ process' = [process EXCEPT !.state = IF Activatable(s) THEN "Ready" ELSE "Failed"]
  /\ cache' = [cache EXCEPT ![up] = s]
  /\ up' = None /\ net' = ReplyLate /\ Over(IF Activatable(s) THEN "ready" ELSE "failed")
  /\ UNCHANGED <<counting, page, uploaded>>

\* An inspection of the slot ends during the upload, and stores what it has read:
\* the image of before, or a part of one, which is Unverified without a digest.
Inspected(s) ==
  /\ up # None /\ cache' = [cache EXCEPT ![up] = s]
  /\ UNCHANGED <<up, process, counting, net, page, history>>

\* Any step before that fails, and the slot is inspected: the image of before is there
\* if it was the first erase, the whole new one if only reading on failed, and a
\* part of one is Unverified without a digest.
UploadFails(s) ==
  /\ up # None /\ s \in States
  /\ cache' = [cache EXCEPT ![up] = s]
  /\ up' = None /\ net' = ReplyLate /\ process' = process /\ Over("failed")
  /\ UNCHANGED <<counting, page, uploaded>>

OtherUpload(s) ==
  /\ ~counting /\ Accept(FALSE, s)
  /\ "other" \notin uploaded /\ uploaded' = uploaded \cup {"other"}
  /\ UNCHANGED <<net, page>>

OtherActivate(s) ==
  /\ ~counting /\ Switches(s) /\ counting' = TRUE
  /\ UNCHANGED <<cache, up, process, net, page, history>>

-----------------------------------------------------------------------------
(* The page: what the user does *)

\* renderConclusion clears the box whenever there is another conclusion.
ConcludeKeepsBox(info) ==      \* mutant
  slotInfo' = info /\ pressed' = FALSE /\ UNCHANGED confirm

Conclude(info) == slotInfo' = info /\ confirm' = None /\ pressed' = FALSE

SelectTarget(s) ==
  /\ s # target /\ target' = s /\ Conclude(None)
  /\ UNCHANGED <<device, net, readAfterUpload, line, flow, history>>

\* One read of the user at a time, a bound: the other button for it stays enabled.
Read ==
  /\ ~\E m \in net : m.kind = "read"
  /\ Send(Status("read", target))
  /\ UNCHANGED <<device, page, history>>

Confirm ==
  /\ slotInfo # None /\ NeedsConfirm(slotInfo.state)
  /\ confirm' = IF confirm = None THEN slotInfo ELSE None
  /\ pressed' = FALSE
  /\ UNCHANGED <<device, net, target, slotInfo, readAfterUpload, line, flow, history>>

Upload ==
  /\ flow = "none" /\ slotInfo # None
  /\ "page" \notin uploaded /\ uploaded' = uploaded \cup {"page"}
  /\ Send([kind |-> "upload", slot |-> target, code |-> "asked"])
  /\ flow' = "post" /\ readAfterUpload' = FALSE
  /\ UNCHANGED <<device, target, card, line, result>>

\* The request, with the conclusion the user sees and what was confirmed.
Activate ==
  /\ slotInfo # None /\ Activatable(slotInfo.state) /\ ~pressed
  /\ NeedsConfirm(slotInfo.state) => confirm # None
  /\ Send([kind |-> "activate", slot |-> target, code |-> "asked",
           shown |-> slotInfo, confirmed |-> confirm])
  /\ pressed' = TRUE
  /\ UNCHANGED <<device, target, slotInfo, confirm, readAfterUpload, line, flow, history>>

-----------------------------------------------------------------------------
(* The page: what it does by itself *)

Poll ==
  /\ Send(Progress)
  /\ UNCHANGED <<device, page, history>>

AskSlot ==
  /\ flow = "told" /\ flow' = "slot"
  /\ Send(Status("after", target))
  /\ UNCHANGED <<device, target, card, readAfterUpload, line, history>>

Terminal(s) == s \in {"Idle", "Ready", "Failed"}

\* refreshProgress and renderProgress, for an answer that may be lost or a redirect.
RenderProgress(m) ==
  /\ IF m = None \/ m.code # "ok"
       THEN lastProgress' = None /\ UNCHANGED <<lastPhase, card, readAfterUpload>>
       ELSE LET new == m.state # lastPhase IN
         /\ lastPhase' = m.state
         /\ lastProgress' = [state |-> m.state, last |-> m.last,
                             stuck |-> ~m.uploading /\ ~Terminal(m.state)]
         /\ IF new /\ m.state \in {"Ready", "Failed"} /\ ~readAfterUpload
              THEN Conclude(None) ELSE UNCHANGED card
         /\ readAfterUpload' = (readAfterUpload /\ ~(new /\ ~Terminal(m.state)))
  /\ UNCHANGED target

VerdictByState ==      \* mutant: an upload that got stuck is none that failed
  IF lastProgress # None /\ lastProgress.state = "Failed" THEN "failed"
  ELSE IF slotInfo' = None THEN "unread"
  ELSE IF Activatable(slotInfo'.state) THEN "done" ELSE "unfit"

\* uploadVerdict, and what upload() makes of it.
Verdict ==
  IF lastProgress # None /\ (lastProgress.state = "Failed" \/ lastProgress.stuck) THEN "failed"
  ELSE IF slotInfo' = None THEN "unread"
  ELSE IF Activatable(slotInfo'.state) THEN "done" ELSE "unfit"

RenderSlotUnchecked(m) ==      \* mutant: whatever the target is by now
  /\ IF m.code = "ok"
       THEN Conclude([slot |-> m.slot, state |-> m.state]) /\ readAfterUpload' = TRUE
       ELSE Conclude(None) /\ UNCHANGED readAfterUpload
  /\ UNCHANGED <<target, line>>

\* The answer is dropped when the target has changed meanwhile.
RenderSlot(m) ==
  /\ IF m.slot # target THEN UNCHANGED <<card, readAfterUpload>>
     ELSE IF m.code = "ok"
       THEN Conclude([slot |-> m.slot, state |-> m.state]) /\ readAfterUpload' = TRUE
       ELSE Conclude(None) /\ UNCHANGED readAfterUpload
  /\ UNCHANGED <<target, line>>

\* What upload() does when refreshSlot has returned.
Continue(m) ==
  flow' = IF m.kind = "after" THEN "none" ELSE flow

\* The question of upload() itself, answered or failed at once.
AskProgress ==
  /\ flow = "uploaded" /\ flow' = "told"
  /\ \E m \in {Progress, None} : RenderProgress(m)
  /\ UNCHANGED <<device, net, history>>

PollArrives(m) ==
  /\ m.kind = "poll" /\ RenderProgress(m) /\ UNCHANGED flow

SlotArrives(m) ==
  /\ m.kind \in {"read", "after"}
  /\ RenderSlot(m) /\ Continue(m)

UploadArrives(m) ==
  /\ m.kind = "upload"
  /\ flow' = IF m.code = "ok" THEN "uploaded" ELSE "none"
  /\ UNCHANGED <<target, card, readAfterUpload, line>>

\* After the switch the page is left for that of the reset.
ActivateArrives(m) ==
  /\ m.kind = "activate"
  /\ IF m.code = "ok" THEN UNCHANGED card ELSE Conclude(None)
  /\ UNCHANGED <<target, readAfterUpload, line, flow>>

Arrive(m) ==
  /\ m \in net /\ m.code \notin {"asked", "taken"}
  /\ net' = net \ {m}
  /\ PollArrives(m) \/ SlotArrives(m) \/ UploadArrives(m) \/ ActivateArrives(m)
  /\ UNCHANGED <<device, history>>

\* A request or its answer is lost and fetch rejects.  refreshSlot drops it if the
\* target has changed, or asks again a while after for what is the target then.
LoseSlot(m) ==
  /\ m.kind \in {"read", "after"}
  /\ \/ Answered(m, Status(m.kind, target)) /\ UNCHANGED page
     \/ /\ m.slot # target /\ net' = net \ {m} /\ Continue(m)
        /\ UNCHANGED <<target, card, readAfterUpload, line>>

LoseOther(m) ==
  /\ net' = net \ {m}
  /\ LET lost == [m EXCEPT !.code = "lost"]
     IN  PollArrives(lost) \/ UploadArrives(lost) \/ ActivateArrives(lost)

Lose(m) ==
  /\ m \in net
  /\ LoseSlot(m) \/ LoseOther(m)
  /\ UNCHANGED <<device, history>>

-----------------------------------------------------------------------------
Init ==
  /\ cache \in [Slots -> AtFirst]
  /\ up = None /\ process = [state |-> "Idle", mine |-> FALSE] /\ counting = FALSE
  /\ net = {} /\ target \in Slots /\ slotInfo = None /\ confirm = None /\ pressed = FALSE
  /\ readAfterUpload = FALSE /\ lastPhase = None /\ lastProgress = None
  /\ flow = "none" /\ uploaded = {} /\ result = "none"

Device ==
  \/ \E m \in net : Handle(m)
  \/ \E s \in States : Inspected(s) \/ UploadEnds(s) \/ UploadFails(s)

Others == \E s \in Slots : OtherUpload(s) \/ OtherActivate(s)

User == Read \/ Confirm \/ Upload \/ Activate \/ \E s \in Slots : SelectTarget(s)

Callback ==
  \/ Poll \/ AskProgress \/ AskSlot
  \/ \E m \in net : Arrive(m)

Next == Device \/ Others \/ User \/ Callback \/ \E m \in net : Lose(m)

Spec == Init /\ [][Next]_vars

-----------------------------------------------------------------------------
(* Properties *)

\* Every variable has its type, an upload in progress is what UploadProcess tells of,
\* and upload() waits for one request at a time.
TypeOK ==
  /\ cache \in [Slots -> States]
  /\ process \in [state : {"Idle", "Received", "Writing", "Ready", "Failed"},
                  mine : BOOLEAN]
  /\ up \in Slots \cup {None} /\ (up # None => process.state = "Writing")
  /\ counting \in BOOLEAN /\ readAfterUpload \in BOOLEAN /\ pressed \in BOOLEAN
  /\ Cardinality(net) <= MaxInFlight
  /\ target \in Slots /\ slotInfo \in [slot : Slots, state : States] \cup {None}
  /\ flow \in {"none", "post", "uploaded", "told", "slot"}
  /\ uploaded \subseteq {"page", "other"} /\ result \in {"none", "taken", "ready", "failed"}
  /\ Cardinality({m \in net : m.kind \in {"upload", "after"}})
       = IF flow \in {"post", "slot"} THEN 1 ELSE 0

\* The conclusion on the card, with its activation button, is about the slot that is
\* selected, however late the answers to earlier questions come.
ConclusionIsTargets == slotInfo # None => slotInfo.slot = target

JudgesUpload == flow = "slot" /\ flow' = "none"

\* upload() reports an upload as done only if the device has taken it, never when
\* it was redirected; and when the progress line it judges by is the last one of
\* that upload, it reports it as done only if it reached Ready, and as failed only
\* if it did not.
ReportTrue ==
  [][JudgesUpload =>
       /\ Verdict = "done" => result # "none"
       /\ lastProgress # None /\ lastProgress.last =>
            /\ Verdict = "done" => result = "ready"
            /\ Verdict = "failed" => result # "ready"]_vars

Accepts(m) == counting' # counting /\ m \in net /\ m.kind = "activate" /\ m \notin net'

\* An image that needs it is only ever activated by this page, if it is what the
\* card shows, after a confirmation of what the card shows.
ConfirmedAsShown ==
  [][\A m \in net : Accepts(m) /\ NeedsConfirm(cache[m.slot]) =>
       cache[m.slot] # m.shown.state \/ m.confirmed = [slot |-> m.slot, state |-> cache[m.slot]]]_vars

\* "Both pages ask for an explicit confirmation before activating an image that is
\* not one this project built, or one it could not verify" (README): at least while
\* nobody else uploads.
DoubtfulIsConfirmed ==
  [][\A m \in net : Accepts(m) /\ NeedsConfirm(cache[m.slot]) =>
       m.confirmed # None \/ "other" \in uploaded]_vars
=============================================================================
