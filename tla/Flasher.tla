------------------------------ MODULE Flasher ------------------------------
(***************************************************************************)
(* cargo run: build.rs writes the [memory] section of the configuration    *)
(* into the firmware and into the runner, and the runner lays out the      *)
(* partition table and flashes both.  It skips what it has done for this   *)
(* build before, judging by the age of its copy of the ELF file; any of    *)
(* its steps may fail or be interrupted, the writing of the table in the   *)
(* middle of it, and the user runs it again.                               *)
(***************************************************************************)
EXTENDS Integers, Sequences

CONSTANTS
  Configs,            \* [memory] sections: slots, flash_size and the preset sizes
  ImageSizes,         \* sizes of the application image
  Profiles,           \* cargo profiles the user builds with
  MaxSlots,           \* the ceiling of build.rs
  BlockSize,          \* BLOCK_SIZE
  FirstOffset,        \* the offset of the factory partition
  None

ASSUME FlasherAssumption ==
  /\ BlockSize \in Nat \ {0} /\ FirstOffset \in Nat /\ MaxSlots \in Nat
  /\ Configs \subseteq [slots : Nat, flash : Nat \ {0}, preset : Seq(Nat \ {0})]
  /\ ImageSizes \subseteq Nat \ {0} /\ Profiles \subseteq {"release", "debug"}
  /\ None \notin Configs

VARIABLES
  elf,                \* the build output: configuration, image size, profile
  tool,               \* the configuration compiled into the runner
  copied,             \* the copy of the ELF file is as new as the build output
  csv,                \* memory_partitions.csv, and what it was laid out for
  pc,                 \* where the runner is
  clean               \* history: no run of a runner of this build has failed

vars == <<elf, tool, copied, csv, pc, clean>>

-----------------------------------------------------------------------------
(* The layout *)

BlocksUp(n) == ((n + BlockSize - 1) \div BlockSize) * BlockSize
BlocksDown(n) == (n \div BlockSize) * BlockSize

\* The factory partition and the presets.
FixedSizes(c, image) ==
  <<BlocksUp(image)>> \o [i \in 1..Len(c.preset) |-> BlocksUp(c.preset[i])]

\* Where each partition of these sizes begins, and where the last one ends.
OffsetsOf(sizes) ==
  LET at[i \in 1..Len(sizes) + 1] ==
        IF i = 1 THEN FirstOffset ELSE at[i - 1] + sizes[i - 1]
  IN  at

EndOf(sizes) == OffsetsOf(sizes)[Len(sizes) + 1]

LeftMemory(c, image) == c.flash - EndOf(FixedSizes(c, image))
LeftSlots(c) == c.slots - Len(c.preset)

ShareUp(c, image) == BlocksUp(LeftMemory(c, image) \div LeftSlots(c))      \* mutant
Share(c, image) == BlocksDown(LeftMemory(c, image) \div LeftSlots(c))

\* The checks in the order of the runner; with no slot left to share among, the
\* division by zero is a panic.
CanLayOut(c, image) ==
  /\ EndOf(FixedSizes(c, image)) <= c.flash
  /\ LeftSlots(c) # 0
  /\ Share(c, image) > 0

Partitions(c, image) ==
  LET sizes == FixedSizes(c, image) \o [i \in 1..LeftSlots(c) |-> Share(c, image)]
  IN  [i \in 1..Len(sizes) |-> [offset |-> OffsetsOf(sizes)[i], size |-> sizes[i]]]

\* What a write of these partitions leaves that does not get to its end: the first of
\* them, the last one perhaps without hexadecimal digits of its size.
Cut(parts, n, lost) ==
  [i \in 1..n |-> IF i < n THEN parts[i]
                  ELSE [offset |-> parts[n].offset, size |-> parts[n].size \div lost]]
Places == {1, 16, 256, 4096, 65536, 1048576}
Cuts(parts) == {<<>>} \cup {Cut(parts, n, lost) : n \in 1..Len(parts), lost \in Places}

-----------------------------------------------------------------------------
(* cargo build *)

ValidSlots(c) == c.slots <= MaxSlots      \* mutant: more presets than slots

\* What build.rs asserts of the configuration.
Valid(c) == c.slots <= MaxSlots /\ c.slots >= Len(c.preset)

\* Only a release build compiles the runner anew, and a new version has a directory
\* of its own for the artifacts.
Build(c, image, profile) ==
  /\ pc = "idle" /\ Valid(c)
  /\ elf' = [config |-> c, image |-> image]
  /\ tool' = IF profile = "release" THEN c ELSE tool
  /\ copied' = FALSE /\ csv' \in {csv, None}
  /\ clean' = (profile = "release")
  /\ UNCHANGED pc

-----------------------------------------------------------------------------
(* The runner *)

BeginIfMissing ==      \* mutant: an existing table is good enough
  /\ pc = "idle" /\ elf # None /\ tool # None
  /\ pc' = IF csv # None THEN "flash" ELSE "copy"
  /\ UNCHANGED <<elf, tool, copied, csv, clean>>

\* Everything up to the flashing is skipped for a build that was copied before.
Begin ==
  /\ pc = "idle" /\ elf # None /\ tool # None
  /\ pc' = IF copied THEN "flash" ELSE "copy"
  /\ UNCHANGED <<elf, tool, copied, csv, clean>>

CopyElf ==
  /\ pc = "copy" /\ pc' = "image"
  /\ copied' = TRUE
  /\ UNCHANGED <<elf, tool, csv, clean>>

SaveImage ==
  /\ pc = "image" /\ pc' = "table"
  /\ UNCHANGED <<elf, tool, copied, csv, clean>>

LayOut ==
  /\ pc = "table" /\ CanLayOut(tool, elf.image)
  /\ csv' = [config |-> tool, image |-> elf.image, whole |-> TRUE,
             parts |-> Partitions(tool, elf.image)]
  /\ pc' = "flash"
  /\ UNCHANGED <<elf, tool, copied, clean>>

\* The firmware and the table reach the board; espflash wants a table, and an
\* image that fits into its factory partition.
Flash ==
  /\ pc = "flash" /\ csv # None
  /\ csv.parts # <<>> /\ elf.image <= csv.parts[1].size
  /\ pc' = "idle"
  /\ UNCHANGED <<elf, tool, copied, csv, clean>>

\* The table is truncated before it is written.
CutsTable ==
  /\ pc = "table" /\ CanLayOut(tool, elf.image)
  /\ \E parts \in Cuts(Partitions(tool, elf.image)) :
       csv' = [config |-> tool, image |-> elf.image, whole |-> FALSE, parts |-> parts]

\* A step fails, its command does, the layout is impossible, or the user
\* interrupts the runner; a file that was being copied is new all the same.
Fails ==
  /\ pc # "idle" /\ pc' = "idle"
  /\ clean' = FALSE
  /\ IF pc = "copy" THEN copied' \in BOOLEAN ELSE UNCHANGED copied
  /\ UNCHANGED csv \/ CutsTable
  /\ UNCHANGED <<elf, tool>>

-----------------------------------------------------------------------------
Init ==
  /\ elf = None /\ tool = None /\ copied = FALSE /\ csv = None
  /\ pc = "idle" /\ clean = FALSE

Next ==
  \/ \E c \in Configs, image \in ImageSizes, profile \in Profiles : Build(c, image, profile)
  \/ Begin \/ CopyElf \/ SaveImage \/ LayOut \/ Flash \/ Fails

Spec == Init /\ [][Next]_vars

-----------------------------------------------------------------------------
(* Properties *)

\* As far as a table goes, its partitions lie one after the other without an overlap,
\* at block boundaries and inside the flash.
InPlace(t) ==
  LET p == t.parts
  IN
  /\ \A i \in 1..Len(p) : /\ p[i].offset % BlockSize = FirstOffset % BlockSize
                          /\ p[i].offset + p[i].size <= t.config.flash
  /\ \A i \in 1..Len(p) - 1 : p[i].offset + p[i].size = p[i + 1].offset
  /\ p # <<>> => p[1].offset = FirstOffset

\* What a table must be for the configuration it was laid out for: the factory
\* image and one partition for every slot, each of whole blocks and not empty; the
\* presets are as large as asked, and the others share what is left evenly, to the
\* last block that all of them can have.
Complete(t) ==
  LET p == t.parts
      last == p[Len(p)]
      presets == 2..Len(t.config.preset) + 1
      shares == Len(t.config.preset) + 2..Len(p)
  IN
  /\ Len(p) = t.config.slots + 1
  /\ \A i \in 1..Len(p) : p[i].size > 0 /\ p[i].size % BlockSize = 0
  /\ t.image <= p[1].size /\ \A i \in presets : t.config.preset[i - 1] <= p[i].size
  /\ \A i, j \in shares : p[i].size = p[j].size
  /\ t.config.flash - last.offset - last.size < LeftSlots(t.config) * BlockSize

\* Whatever is built and wherever the runner stops, the partitions of a table on disk
\* are in place, and one that was written to its end is complete.
TableSound == csv # None => InPlace(csv) /\ (csv.whole => Complete(csv))

\* Every variable has its type, and the runner can subtract the presets from its
\* slots.
TypeOK ==
  /\ elf \in [config : Configs, image : ImageSizes] \cup {None}
  /\ tool \in Configs \cup {None}
  /\ copied \in BOOLEAN /\ clean \in BOOLEAN
  /\ csv # None => csv.config \in Configs /\ csv.image \in ImageSizes /\ csv.whole \in BOOLEAN
  /\ pc \in {"idle", "copy", "image", "table", "flash"}
  /\ pc # "idle" => elf # None /\ tool # None
  /\ tool # None => LeftSlots(tool) \in 0..MaxSlots

\* The table laid out for the firmware that is flashed.
InStep == csv.parts = Partitions(elf.config, elf.image)

\* As long as no run of the runner has failed since the last release build, what
\* it flashes is that build with the table for it.
CleanRunsInStep == [][Flash /\ clean => InStep]_vars

\* "building through `cargo run` keeps the two in step" (README, [memory]): every
\* firmware is flashed with the table for it, even leaving aside tables cut short.
AlwaysInStep == [][Flash /\ csv.whole => InStep]_vars
=============================================================================
