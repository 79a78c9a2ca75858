# Door access controller: TLA+ models and proofs

The firmware in `src/` runs on one core of an ESP32-S3: it drives a door lock,
serves a web interface over Wi-Fi, and replaces its own image over the air. This
directory holds TLA+ modules of the parts that carry its logic, the TLC
configurations that check them on small instances, and TLAPS proofs of the
results that matter most. Paths below are those of the repository; `door.rs`,
`system.rs` and so on are in `src/ayachi_core/`.

    tlc -config Door.cfg Door          # any run of the table below
    tlapm SystemProofs.tla             # any module of proofs

## The system

All tasks share one cooperative embassy executor, so code runs undisturbed from
one `await` to the next. What can come between two steps is therefore: another
task at an `await`, a timer, a pin, the network, a panic, or a power cut.

| Component | State | Operations | Talks to |
|---|---|---|---|
| Door controller (`door.rs`) | `DoorState`, the lock pin, which of its two loops it waits in, the open-once timer | `open`, `open_once`, `lock`, expiry of the window | signals from HTTP handlers and button; the pin |
| Door button (`main.rs:139-148`) | where `button_task` waits | falling edge, release | raises open-once |
| Slot uploads and inspections (`system.rs`) | slot contents, upload flag, `UploadProcess`, `PartitionInfo` of each slot | `upload`, `inspect_partition`, `get_process`, `get_partition_info` | called by the server tasks; flash |
| Activation and reset (`system.rs`) | shared countdown, `activate_signal`, the local count of `system_task` | `activate`, the countdown, the final guard, the reset | server tasks, OTA data, bootloader |
| Upload stream (`system.rs:302-389, 627-653`) | erase counters, sector buffer, bytes written | erase distribution, buffered writes | body reader, flash |
| Panic recovery and OTA data (`mod.rs`, `system.rs`) | RTC register `store7`, two OTA sectors | `custom_halt`, `factory_request`, the check in `System::init`, the writes of `activate` | bootloader |
| HTTP routes, authorisation (`server.rs`) | none of its own | maintenance gate, Basic Auth, dispatch | door, system |
| Wi-Fi and DHCP loop (`main.rs:41-136`, `network.rs`) | where `main` is, its pending wait for a disconnect | spawn, connect, wait, retry | radio, DHCP, mDNS |
| mDNS responder (`mdns.rs`) | one address, one signal, the socket | `update_ipv4`, announcements | written by `main` |
| Text helpers (`utils.rs`) | none | formatting | everything |
| Build configuration (`build.rs`) | none | assertions, constants from TOML, the runner | the constants of every module |
| Flashing tool (`tools/ayachi_runner.rs`) | the ELF copy, the image and the table on disk | age check, copy, layout, flashing | `build.rs`, `espflash` |
| Browser pages (`assets/`) | in the browser: target, conclusion, confirmation, progress | read, upload, confirm, activate, poll | HTTP handlers |

### What is hard in each of them, and what makes it correct

* **Door.** Signals raised in one order are taken in another; a timeout races a
  lock request and a repeated open-once; an open-once must mean different things
  in the two loops. Correct when a lock request always wins its poll, a held door
  is released by nothing else, every window ends, and a restart locks.
* **Uploads and inspections.** Up to `MAX_CONNECTIONS` tasks erase, write and
  hash slots over many awaits, and only uploads take the flag. Any erase, write
  or read may fail, bodies may be short, and the device may restart anywhere.
  Correct when one upload runs at a time, the factory and running images
  survive, and what is reported of a slot is what it holds.
* **Activation.** The exclusion of uploads and activations rests on two tests in
  two places. The countdown exists twice, in `system_task` and in an atomic.
  Correct when they agree and the countdown always ends.
* **Upload stream.** Block, sector and write units, the end of the slot, and a
  buffer that is filled in pieces of any size. Correct when the file arrives
  whole, over erased bytes, and inside its slot.
* **Recovery.** An off-by-one in the counter, a cut between erase, number and state,
  a failing erase, OTA data that cannot be looked at. Correct when a crashing image is
  always left in the end, never too early, and a cut-off activation selects the old
  slot or the new one.
* **Wi-Fi and mDNS.** The link goes down between any two steps of `main`, and the
  stack may notice it late or never. Correct when every way out of the waits leads
  back to a connection, the address answered is the one held, and a new one is
  announced.
* **Flashing tool.** Rounding in two directions, presets in every slot, steps that are
  skipped because an earlier run did them, and a table whose write may be cut short.
  Correct when a table is sound for its configuration and the firmware is flashed with
  its own.
* **Maintenance page.** Several requests are on the way at once, answers are late,
  lost, redirected, or about another slot by now, and a 200 says little about an
  upload. Correct when the card is about the selected slot, `upload()` tells the
  truth, and nothing doubtful is activated without a confirmation of it.

## Modules

| Module | Models | Proofs |
|---|---|---|
| `DoorAbstract` | what the door promises: locked, held, or open for a window | |
| `Door` | `door_task`, its signals, `button_task`; implements `DoorAbstract` | `DoorProofs` |
| `UpdateService` | what updates promise: whole images, one upload, a countdown that ends in a boot | |
| `System` | uploads, inspections, activation, countdown, reset, restart; implements `UpdateService` | `SystemProofs` |
| `MCSystem` | images, kinds and lengths for the runs of `System` | |
| `Upload` | one upload byte by byte, and `calculate_erase_distribution` | `UploadProofs` |
| `Recovery` | panic counter, OTA data and the way up | `RecoveryProofs` |
| `Network` | `main`'s start and loop, link, lease and mDNS | `NetworkProofs` |
| `Flasher`, `MCFlasher` | `build.rs`, the runner and its layout; configurations for its runs | `FlasherProofs` |
| `Page`, `MCPage` | the maintenance page, the network and the device it talks to; symmetry | `PageProofs` |
| `Arithmetic` | least numbers, induction up to a number, rounded division | holds its own proofs |

`Page` meets `System` at the HTTP handlers: the device in `Page` is `System` with
what happens inside an upload folded into its begin and its end.

### Door

One action is one arm of a `select3`. `cpu = "door"` while `door_task` is polled:
the handlers and the button raise signals only outside a poll, so every pending
signal is taken in the order of `SelectOrder` before anybody else runs. `pc` is
the loop it waits in; `pc = "inner"` is the window, and `remaining` its timer,
which each turn builds anew (`InnerOnce`). A signal holds one value, so `pending`
is a set. `state` stands for the lock pin too: both are written in one critical
section. Contact bounce during one wait is not modelled. The refinement maps
`state` and `pc` to the abstract mode, and `pending` to the requests that wait.

### System

A slot is a row of sectors, each erased or holding a sector of some image. What
`inspect` can tell of an image is its `Kind`: hashed, hashed but for another
device, without a digest, followed by foreign bytes, with a wrong digest, with a
broken segment table, without a descriptor, without a magic; `Verdict` is the
state `inspect` gives to an intact copy. A server task is idle or suspended in
`conns[c]`: `pc` is the await it is at (`erase`, `write`, or one of three kinds of
inspection), `done` and `total` how far it is. An action is the code from there
to the next await, with every failure as a disjunct. `Inspect` and `Conclude` are
the start and the end every inspection shares; they take the progress record and
the slot states as their caller leaves them, since no await lies between.

`Passes` is the maintenance layer: its test of the countdown and the handler run
without an await in between. `Unread` is what a failing read makes of a slot:
`ReadFailed` at the header, `Broken` at the segments and in the digest, where the slot
has such reads. `TaskWake`, `Tick`, `TaskReset` and `TaskGivesUp` are `system_task`;
the last second, the final guard and the reset are one step. `FetchSub` keeps the wrap
of the `AtomicU32` whose `u32::MAX` means no countdown. `Boot` starts the image the
bootloader accepts and runs `System::init`, which has inspected every slot before
there is a server task. A read that fails in those inspections is not taken: what it
leaves is what the first inspection a client asks for leaves when it fails. So right
after a restart the cached states are the truth by construction, and it is the work
after it that puts `StatusHonest` to the test. A device whose partition table cannot
be read has no slots and is left out. A block is erased sector by sector: an erase
that fails half way is one that went on for some sectors and failed at the next. The
OTA data are one variable, `selected`, here; `Recovery` has their sectors.

`overlapped` and `suspect` are history variables: an inspection whose slot was
erased or written meanwhile, and a slot whose state such a one published.

The refinement reads a slot as the whole image in it, or none (`Whole`), and a task
inside an upload as a job with the image it has still to bring (`ToCome`). The erase of
a slot's first sector is then `Begin`, the write of the image's last one `Commit`; what
comes between them, and every inspection of a client, is nothing to `UpdateService`.

### Upload

The flash is a function from bytes to what they hold, byte k of the file being the
number k, so a misplaced, lost or doubled byte shows. The body may be shorter or
longer than announced and comes in pieces of any size that fits in the buffer.
The flash stays from one upload to the next, so the second meets what the first
left; a write to a byte that is not erased does not put there what it was to. `System`
takes the same steps one sector at a time, beside other tasks.

### Recovery

`stage` is how far the device has come; `ops` the flash operations it still has to
do there, so that a panic, a fault or a power cut may come before each of them.
A power cut may also spoil the sector being written, and an operation that fails leaves
its sector as it was or erased. Bootloader and `esp_bootloader_esp_idf` are outside
`src/`: that the greater sequence number selects, that a refused image falls back to the
factory, and which number `set_current_app_partition` writes, is taken from how the code
uses them.

`SwitchOps` has what an activation writes: one sector is erased, a number is written
there, and then, over the same entry, the state of `set_current_ota_state`. When the
entry that was kept selects the slot already, no number is written, and the state goes
into that one entry. An operation after which the device answers with an error
(`FlashFails`) leaves what was written before it, so the number may have switched the
slot without a countdown. The library reads both entries before it writes one:
`Accepted` lets no write through while one of them cannot be read, and all that is left
is the error.

`System::init` looks at the OTA data in a chain of conditions (`system.rs:148`).
`InitSystem` is the check that found out; `InitReadFails` one that could not read the
entries, which passes for broken data and erases them; `InitUnchecked` the chain that
ended before, since the updater could not be made: the data stay, and activation is
enabled; `InitWithoutTable` the device that found no partition table. `checked` is a
history variable for the first two, since only they give what `NumbersReadable` says.

### Network

`main` is where `main` waits; `watch` is its pending `wait_for_disconnect_async`,
which answers `NotConnected` at once when there is no link, and else hears of the
next loss. Every turn of the inner loop drops the three waits of `select3` and
begins them anew (`DhcpTimeout`, `Watch`), and the first arm wins when several are
ready. The ten seconds are not counted: the timer may fire whenever there is no
lease. Radio and stack are external: the link is lost at any time, the lease is
granted, expires or moves, and `LossNoticed` may come late or not at all before the
next connection. `announced` is the address in the last broadcast of the responder;
queries, packets and the port are left out. `moved` is a history variable.

### Flasher

`cargo build` writes the `[memory]` section into the firmware and, in a release build
only, into the runner. `pc` is the step the runner is at; `copied` is the outcome of
its age check, `csv` the table on disk with what it was laid out for. `Fails` stops it
at any step: an error, a panic, a failing command, an interrupt. The table is
truncated before it is written (`ayachi_runner.rs:108`), so what stops the runner
there may leave a part of it (`CutsTable`): the first partitions only, the last of
them perhaps without digits of its size. The next run skips the layout and flashes
with that part, unless `espflash` refuses it. Sizes are in units of a quarter block,
so rounding matters and the numbers stay small. Running the older output of another
profile is left out, and so are names and arguments.

### Page

Requests and answers are messages in `net`; any of them may arrive late or be lost,
and each callback of the page is one action. Asking for progress or a slot changes
nothing in the device, so these answers are sent together with the request. The answer
to an upload comes when the upload is over, and the upload goes on while the device
answers others. `flow` is the `then` that `upload()` is at; `confirm` is the
conclusion for which the box was ticked, which is how a box that stays ticked would
show. An upload that fails leaves its slot in any state: before anything is erased it
holds the old image, after the last inspection the whole new one (`UploadFails`). An
inspection that a client asks for while an upload writes may store what it finds in
the half-written slot (`Inspected`), and a request may be turned away for reasons the
page does not see (`Refuse`). `Foreign` stands for `Unverified` too, and `Unfit` for
every state that cannot be activated; `Writing` stands for every phase of an upload
that goes on. The list of slots (`loadTargets`), the gate for a device that does not
know its running slot, expired logins, truncated answers, restarts, and the wish to
upload a second time are left out; `result` and `uploaded` are history variables. An
image is its slot and its state: another foreign image under the same conclusion is
not told apart.

## Runs

| Run | Config | Shows |
|---|---|---|
| `door` | `Door.cfg` | a lock request wins its poll (`LockWins`), a held door is only released by one (`HeldUntilLocked`), the abstract door is implemented, lock requests are obeyed whatever else repeats (`LockObeyed`), windows end also with a stuck button (`WindowCloses`, `StuckButtonCloses`) |
| `system` | `System.cfg` | one upload at a time, an exact countdown, intact factory and running images, honest slot states, an explained end of every upload, Ready only for a complete image, an end to every upload and countdown, and that a slot changes at once and never during a countdown (`ImplementsService`) |
| `upload` | `Upload.cfg` | the erase covers the file and stays in the slot, a finished file is complete, faults say what happened, every upload ends |
| `recovery` | `Recovery.cfg` | the request comes after exactly `PANIC_RETRY + 1` panics since the counter was cleared, of whichever images; a cut-off activation selects the old slot or the new one, the factory only when that slot was selected already or the OTA data were not checked; a countdown runs for the selected slot; OTA data that were checked hold no numbers that cannot be read; crash loops end |
| `network` | `Network.cfg` | the address answered is the lease held, an update is announced, and the loop comes back whenever the network does, unless `main` has returned |
| `flasher` | `Flasher.cfg` | every table on disk has its partitions in place, and all of them when it was written to its end; until a run fails the firmware is flashed with its own |
| `page` | `Page.cfg` | the card is about the selected slot, `upload()` tells the truth, and what is shown as doubtful is confirmed as it is shown |
| `system_stale` | `SystemStale.cfg` | **violated**: an accepted activation is of a slot that can boot |
| `recovery_reached` | `RecoveryReached.cfg` | **violated**: the OTA data are erased once the counter reaches `panic_retry` |
| `recovery_fresh` | `RecoveryFresh.cfg` | **violated**: a freshly activated image starts counting from zero |
| `flasher_stale` | `FlasherStale.cfg` | **violated**: every firmware is flashed with its own table |
| `page_confirm` | `PageConfirm.cfg` | **violated**: a doubtful image is never activated without a confirmation |

A violated run states what a document of the repository says:

* `system_stale`: "`OTA(InvalidImage)` when the slot holds something that cannot
  boot" (`docs/http-api.md:116-117`). An inspection that is still hashing when an
  upload erases part of its slot publishes its older verdict over the newer one
  (`system.rs:288`); the slot can then be activated.
* `recovery_reached`: "when it reaches `device.panic_retry`, the next boot erases
  the OTA boot selection" (`README.md:437-438`). It takes one panic more.
* `recovery_fresh`: "The counter is cleared when an update is activated"
  (`README.md:440-442`). It is cleared when the countdown ends; a panic before that
  boots the new slot with the old count.

* `flasher_stale`: "building through `cargo run` keeps the two in step"
  (`README.md:134-136`). The ELF file is copied first (`ayachi_runner.rs:43`), and the
  age of the copy is the proof that image and table were generated too (`:36-40`):
  when one of these fails, the next run skips them and flashes the new firmware with
  the old table. An impossible layout is so reported once only; with presets in every
  slot the division at `:97` panics and leads there.
* `page_confirm`: "Both pages ask for an explicit confirmation before activating an
  image that is *not* one this project built, or one it could not verify"
  (`README.md:363-365`). After an upload the card keeps the conclusion of before it,
  with its button enabled, until a poll or the read after the upload is drawn; the
  device itself activates all three states (`system.rs:526-536`). `ConfirmedAsShown`
  is what remains true: the confirmation is of what the card shows.

Seen on the way, and not runs:

* "Holds the lock released until told otherwise" (`README.md:311`): Lock and then Stay
  unlocked, both before one poll of `door_task`, leave the door locked, since signals
  are taken in a fixed order. The failure is on the safe side.
* "The device keeps no per-slot information until it is asked" (`README.md:329`):
  `System::init` inspects every slot at boot (`system.rs:172-177`).
* `panic_retry = 0`, which `server_config_template.toml:56-57` allows, leaves
  `custom_halt` with an empty range pattern and does not compile;
  `RecoveryAssumption` excludes it.
* Activating the slot that is selected already has no number to write, and writes its
  state into the one entry that is left (`system.rs:250-257`): a power cut in that write
  leaves no entry, and the factory image boots. `SwitchIsAtomic` has the exception.
* The check of the OTA data is passed over when the updater cannot be made
  (`system.rs:148`): broken data stay and activation is enabled. `checked` makes the
  exception explicit.
* A table that was cut short is flashed by the next run all the same, when `espflash`
  takes it (`ayachi_runner.rs:36-40, 108`): the slots that are missing in it are missing
  on the board.
* When the final guard gives up, the OTA data stay switched, so the next restart boots
  the slot after all.
* Any `WifiError` but `NotConnected` while online ends `main` (`main.rs:131`): the
  door and the server run on, and the next loss of Wi-Fi is for good. `ComesBack`
  makes the exception explicit.
* A lease that moves while the link stays up leaves the old address in every mDNS
  answer (`main.rs:118`), the exception in `AnswersHeldLease`.
* `uploadVerdict` is meant to draw no conclusion without a progress line
  (`maintenance.html:447`), but its `null` lets the slot speak: when that one answer
  is lost, an upload that failed before the erase is reported as done from the cached
  state of the old image. `ReportTrue` therefore speaks of the case with the line; a
  late poll, or an upload of another client, that replaces the line is outside of it.
* `refreshSlot` retries without end where its comment says once
  (`maintenance.html:590`), and the read button stays disabled when the target changes
  during a read (`:597`).
* A debug build after a release build is laid out by the runner of the release build,
  and the age check compares with the copy of whichever profile was run last.
* `docs/http-api.md` counts twelve fields of a slot status, the device sends fifteen.

### Bounds

* `Door.cfg`: a window of three ticks, enough for a request before, during and
  after it and for a restart of the timer halfway. The state space is otherwise
  complete.
* `System.cfg`: two tasks (every pairwise interference), the factory and one OTA slot
  of two sectors, an index without a partition, an image of one sector with a digest,
  one of two without, and one with trailing bytes. Two sectors are the least with a
  half-erased slot, a half-written one, and a hash with an await in it; an image
  without a digest is the one that a cut-off upload could pass for. A countdown of two
  has a first second and a last one. Broken and foreign images are in the proofs and
  not in the run.
* `Upload.cfg`: blocks of eight bytes, sectors of four, write units of two, as small
  as the proportions allow; slots of 12, 16 and 18 bytes are no whole number of
  blocks, one, and no whole number of sectors. `MaxSize` bounds files and bodies.
* `Recovery.cfg`: three OTA slots, so that a stale entry, the old and the new one
  are different slots; one is refused by the bootloader and one crashes.
  `PanicRetry = 2` has a first, a middle and a last count. `MaxSeq` bounds the
  sequence numbers, hence the activations between two wipes.

* `Network.cfg`: two addresses, so that a lease can differ from the last one, and two
  server tasks. The state space is otherwise complete.
* `Flasher.cfg`: ten configurations: with and without presets, shares with and without a
  rest, presets in every slot, too little memory at each of the three checks, and two
  that `build.rs` refuses; images of less than a block, one, and more than two.
* `Page.cfg`: two slots, the target and another. Two requests on the way are the least
  with an answer that overtakes another one. One upload of the page and one of
  somebody else, since a second one meets what the first one left; at most one read of
  the user at a time. Every slot starts with an image that needs no confirmation, the
  conclusion that can go stale.

Deadlock is checked in every run.

### Fairness

The executor polls every task that was woken, and timers fire: weak fairness of
`Wake`, `DoorStep`, `Tick`, `TaskStep` and each task's `Step`. An upload's `Step`
includes the failing read: the reader times out when a client stalls. No client has to
send a request, no button has to be pressed or released, and nothing makes the device
restart. In `Recovery` an erase that is tried again and again succeeds some day
(strong fairness, for each number of operations left by itself), one that the library
refuses ends with its error (weak fairness of `FlashFails /\ ~Accepted`), and the
image that crashes does so; no fairness is put on panics otherwise. In `Network` main
and the responder are polled when they were woken (weak fairness of `MainStep` and
`MdnsStep`); that the radio connects and an address is leased is no fairness of the
specification but the premise `NetworkRecovers` of `ComesBack`: troubles cease some
day. `Flasher` and `Page` promise safety only: a user may stop, and an answer may
never come.

## Proofs

TLAPS checks these for every value of the constants, under the named assumptions of
each module (`DelayAssumption`, `SystemAssumption`, `ErrorsAssumption`,
`UploadAssumption`, `RecoveryAssumption`, `NetworkAssumption`, `FlasherAssumption`,
`PageAssumption`).

* **`DoorProofs`**: `DoorTypeCorrect`, `DoorLockWins`, `DoorHeldUntilLocked`,
  `DoorImplementsAbstract`. The inductive invariant adds to type and property that
  the inner loop is entered only with the door open (`WindowIsOpen`), and that
  after a lock request is taken in a poll nothing is left to take (`LockTakenLast`),
  which follows from the order of `select3`.
* **`SystemProofs`**: `SystemTypeCorrect`, `SystemOneUpload`, `SystemQuietCountdown`,
  `SystemCountdownExact`, `SystemRunningIntact`, for any number of tasks, slots,
  images and sectors. They are proved as one invariant because each needs the others:
  the countdown's type needs `CountdownExact`, without which `FetchSub` could wrap;
  `QuietCountdown` needs that a task inside an upload means the flag is up
  (`OneUpload`); `RunningIntact` needs `TargetsSafe`, that nobody uploads into the
  factory or the booted slot, which in turn holds because a boot leaves no task inside
  an upload. `ServerStep` is what every step of a server task but `Activate` does: it
  resumes one task (`Resumes`), moves the flag with it, and leaves the safe slots and
  the countdown alone. One lemma per action shows that it is such a step, and
  `ServerStepKeeps` that such a step keeps the invariant. On top of it,
  `SystemProgressExplained` and `SystemReadyIsComplete` rest on `Phase`: what the
  progress record says in each phase of an upload, and that the slot holds every
  sector written so far (`Written`), which nobody else touches. So even an image
  without a digest is whole when it becomes Ready. `SystemStatusHonest` rests on
  `Seen`: an inspection that was not overlapped agrees, sector by sector, with what
  its slot holds, since a write marks the inspections of clients in the same slot and
  an upload's own inspection is the only upload there is. `SystemImplementsService`
  maps every step to one of `UpdateService` or to none. Besides `IInv` and `Phase` it
  needs `Cleared`: an upload has erased what it will write and has not written yet, so
  no image but its own can become whole under it, and its own not before the last
  sector. One lemma maps requests (`RequestServes`), the steps of an upload
  (`StepServes`, with `WriteServes` for the commit), boots (`BootServes`) and
  `system_task` (`TaskServes`).
* **`UploadProofs`**: `UploadTypeCorrect`, `UploadEraseFits`, `UploadFileComplete`,
  `UploadFaultsTrue`, for all units, slots, files and pieces of a body. What an erase
  covers is a lemma on division alone (`DistributionFits`, from `Arithmetic`). The
  invariant adds that what is erased and what is left to erase make up the plan
  (`Counted`), and that what was read is what is written and what is in the buffer,
  each byte in its place (`Gathered`). Every byte still to be written is erased
  (`Cleared`, kept by `EraseCleared`), without which a write would not leave the byte
  of the file.
* **`RecoveryProofs`**: `RecoveryGivesUpInTime` and `RecoveryNeverEarly` for every
  `PANIC_RETRY`. The invariant `CountsPanics` relates the register to the panics since
  it was cleared; `WipesOnRequest` says that only the request wipes.
  `RecoveryTypeCorrect`, `RecoveryNumbersReadable`, `RecoverySwitchIsAtomic` and
  `RecoveryCountdownMeansSwitched` rest on `DataInv`: which operations are left in
  each stage, that the sector `activate` erases selects nothing the other one does not
  (`SpareKeeps`), that the entry it will write is newer than the other (`Newer`), and
  that no selection but the allowed ones can be left (`Allowed`). They say what holds of OTA data that `System::init` could look at (`checked`), through
  every cut and every operation that fails or leaves its sector erased;
  `SwitchIsAtomic` says what remains of it otherwise. `NextSeqFound` shows that such a
  number exists for every slot.
* **`NetworkProofs`**: `NetworkTypeCorrect`, `NetworkAnswersHeldLease`. The property
  is not inductive: a lease that is missing could be replaced by another.
  `HeldWhileLinked` adds that while `main` is online a lease is missing only after a
  change of it or with the link down, and the link comes up only where `main` is not
  online.
* **`FlasherProofs`**: `FlasherTypeCorrect`, `FlasherCleanRunsInStep`,
  `FlasherTableSound`, for any configurations, images and blocks. `TableIsOfBuild`
  says what a run may rely on when it skips the layout. Every table on disk is sound
  because it is what `Partitions` lays out for an admitted configuration, or a part of
  it (`TableOfLayout`), and that is sound (`PartitionsSound`, `CutsInPlace`). Where a partition
  begins is a recursive sum of the sizes before it; that the sums add up and stay
  aligned for any number of slots (`OffsetsAdd`, `OffsetsAligned`) is proved by
  induction up to the slot (`InductionUpTo`).
* **`PageProofs`**: `PageTypeCorrect`, `PageConclusionIsTargets`,
  `PageConfirmedAsShown`, `PageReportTrue`, for any slots and any number of requests
  on the way. `CardOfTarget` ties conclusion and confirmation to the target;
  `AllSound` says the same of a request to activate that is on the way, and that only
  an upload is answered late; `AcceptedIsHandled` that nothing else than handling such
  a request makes the device accept it. The type needs a bound on the messages
  (`NetBounded`), and that one needs that `upload()` waits for one request at a time
  (`OneRequest`), which the end of an upload answers in the same step. `upload()`
  tells the truth (`PageReportTrue`) because of `Reported`, which follows the outcome
  from the device to the page: an answer to the upload says how far it has come
  (`UploadTrue`), a progress answer that claims to be the last is (`TellsTrue`), and
  so is the one the page has kept (`LineTrue`).
* **`Arithmetic`** has what the others need of numbers. Induction cannot be cited from
  the library, whose theorems take a predicate; `InductionUpTo` takes the set of
  numbers it holds for, and is proved from the least one outside of it
  (`LeastNumber`).

Every invariant and every action property of the passing runs has a theorem, and both
refinements have one. Model-checked only is every liveness property: fairness and
`ENABLED` are out of the prover's reach. `QuietCountdown`, which no run lists by
itself, is proved by itself, and is part of what `ImplementsService` says:
`UpdateService` begins an upload only without a countdown, and a countdown only
without an upload.

## Not modelled

Basic Auth, routing and status texts and the text helpers, which keep no state the
device acts on; of `build.rs` everything but the assertions, the `[memory]` constants
and the runner; the pages but the maintenance page, which show what they read and send
single requests. Hashing, segment walks and descriptors are reduced to what kind of
image they find. Flash wear and spontaneous bit errors are left out.

## Plan

Done: every component that keeps state; abstractions of `Door` and `System`; the
proofs above. What is left: that `Upload`, byte by byte, implements the upload that
`System` takes sector by sector, and that the OTA data of `Recovery` implement the one
variable `selected` of `System`.
