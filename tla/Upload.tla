------------------------------- MODULE Upload -------------------------------
(***************************************************************************)
(* One upload byte by byte: how much of the slot is erased, how the body,  *)
(* which the reader hands over in pieces of any size, is gathered in the   *)
(* sector buffer, and where each buffer is written.  System takes the same *)
(* steps sector by sector, with everything that runs beside them.          *)
(*                                                                         *)
(* The device keeps its flash from one upload to the next.  Byte k of the  *)
(* file being uploaded is the number k; whatever an earlier one left, and  *)
(* what the slot held before that, is Old.                                 *)
(***************************************************************************)
EXTENDS Naturals, Sequences

CONSTANTS
  BlockSize, EraseSize, SectorSize, WriteSize,    \* of FlashStorage
  Capacities,         \* the sizes a slot may have
  MaxSize,            \* bound on the size of a file and of a body
  Old, Erased, None

ASSUME UploadAssumption ==
  /\ WriteSize \in Nat \ {0} /\ SectorSize \in Nat \ {0}
  /\ EraseSize \in Nat \ {0} /\ BlockSize \in Nat \ {0}
  /\ SectorSize % WriteSize = 0 /\ BlockSize % EraseSize = 0
  /\ Capacities \subseteq Nat \ {0} /\ MaxSize \in Nat
  /\ {Old, Erased} \cap Nat = {} /\ Old # Erased
  /\ None \notin {"OutOfMemory", "NotSupported", "Incomplete", "StorageError", "WriteFailure"}

VARIABLES
  capacity,           \* of the slot
  size,               \* file_size, the content-length
  body,               \* the bytes the client really sends
  flash,              \* the slot, byte by byte
  state, message,     \* UploadProcess
  erase, write,       \* UploadProcess: bytes done and to do
  left,               \* block erases and sector erases still to do
  read,               \* bytes taken from the reader
  buffer,             \* write_buffer up to buffer_length
  written             \* written

progress == <<state, message, erase, write>>
vars == <<capacity, size, body, flash, progress, left, read, buffer, written>>

Running(s) == state = s /\ message = None

-----------------------------------------------------------------------------
(* calculate_erase_distribution *)

RoundUp(n, unit) == ((n + unit - 1) \div unit) * unit

DistributionUnbounded(n, max) ==      \* mutant: the last block may not fit
  IF n > max THEN [error |-> "OutOfMemory", blocks |-> 0, sectors |-> 0]
  ELSE [error |-> None, blocks |-> (n + BlockSize - 1) \div BlockSize, sectors |-> 0]

Distribution(n, max) ==
  LET blocks == n \div BlockSize
      base == blocks * BlockSize
      rest == RoundUp(n - base, EraseSize)
  IN  IF n > max THEN [error |-> "OutOfMemory", blocks |-> 0, sectors |-> 0]
      ELSE IF n > base /\ base + BlockSize < max
        THEN [error |-> None, blocks |-> blocks + 1, sectors |-> 0]
      ELSE IF base + rest > max
        THEN [error |-> "NotSupported", blocks |-> 0, sectors |-> 0]
      ELSE [error |-> None, blocks |-> blocks, sectors |-> rest \div EraseSize]

-----------------------------------------------------------------------------
\* upload and the start of system_upload: a size that is zero or cannot be
\* written is refused before anything is touched.
Request(n, length) ==
  /\ \A s \in {"Erasing", "Writing"} : ~Running(s)
  /\ n > 0 /\ n % WriteSize = 0
  /\ size' = n /\ body' = length /\ read' = 0 /\ buffer' = <<>> /\ written' = 0
  /\ flash' = [a \in DOMAIN flash |-> IF flash[a] = Erased THEN Erased ELSE Old]
  /\ LET d == Distribution(n, capacity) IN
     /\ state' = IF d.error = None THEN "Erasing" ELSE "Received"
     /\ message' = d.error
     /\ left' = <<d.blocks, d.sectors>>
     /\ erase' = <<0, d.blocks * BlockSize + d.sectors * EraseSize>>
     /\ write' = <<0, 0>>
  /\ UNCHANGED capacity

\* The region refuses what does not lie in the slot.
EraseNext(unit) ==
  /\ erase[1] + unit <= capacity
  /\ flash' = [a \in DOMAIN flash |->
                 IF a \in erase[1]..erase[1]+unit-1 THEN Erased ELSE flash[a]]
  /\ erase' = [erase EXCEPT ![1] = @ + unit]
  /\ UNCHANGED <<capacity, size, body, state, message, write, read, buffer, written>>

EraseBlock ==
  /\ Running("Erasing") /\ left[1] > 0
  /\ EraseNext(BlockSize)
  /\ left' = [left EXCEPT ![1] = @ - 1]

EraseSector ==
  /\ Running("Erasing") /\ left[1] = 0 /\ left[2] > 0
  /\ EraseNext(EraseSize)
  /\ left' = [left EXCEPT ![2] = @ - 1]

Fail(e) ==
  /\ message' = e
  /\ UNCHANGED <<capacity, size, body, flash, state, erase, write, left, read, buffer, written>>

EraseFails == Running("Erasing") /\ left # <<0, 0>> /\ Fail("StorageError")

StartWriting ==
  /\ Running("Erasing") /\ left = <<0, 0>>
  /\ state' = "Writing" /\ write' = <<0, size>>
  /\ UNCHANGED <<capacity, size, body, flash, message, erase, left, read, buffer, written>>

-----------------------------------------------------------------------------
(* The loop over the body *)

\* Programming clears bits: a byte that was not erased does not become the new one.
WriteAt(offset, bytes) ==
  flash' = [a \in DOMAIN flash |->
              IF a \notin offset..offset+Len(bytes)-1 THEN flash[a]
              ELSE IF flash[a] = Erased THEN bytes[a - offset + 1] ELSE Old]

ReceiveUnreset(n) ==      \* mutant: the buffer is not emptied after a write
  /\ Running("Writing") /\ n \in 1..body - read
  /\ LET full == buffer \o [k \in 1..n |-> read + k - 1] IN
     /\ read' = read + n
     /\ IF Len(full) >= SectorSize
          THEN /\ WriteAt(written, full) /\ written' = written + Len(full)
               /\ write' = [write EXCEPT ![1] = written + Len(full)] /\ buffer' = full
          ELSE buffer' = full /\ UNCHANGED <<flash, write, written>>
  /\ UNCHANGED <<capacity, size, body, state, message, erase, left>>

\* The reader fills a part of what is free in the buffer; a full one is written.
Receive(n) ==
  /\ Running("Writing") /\ n \in 1..SectorSize - Len(buffer) /\ read + n <= body
  /\ LET full == buffer \o [k \in 1..n |-> read + k - 1] IN
     /\ read' = read + n
     /\ \/ /\ written + Len(full) > size
           /\ message' = "OutOfMemory" /\ buffer' = full
           /\ UNCHANGED <<flash, write, written>>
        \/ /\ written + Len(full) <= size /\ Len(full) < SectorSize
           /\ buffer' = full
           /\ UNCHANGED <<flash, message, write, written>>
        \/ /\ written + Len(full) <= size /\ Len(full) = SectorSize
           /\ WriteAt(written, full)
           /\ written' = written + SectorSize /\ buffer' = <<>>
           /\ write' = [write EXCEPT ![1] = written + SectorSize]
           /\ UNCHANGED message
        \/ /\ written + Len(full) <= size /\ Len(full) = SectorSize
           /\ message' = "StorageError" /\ buffer' = full
           /\ UNCHANGED <<flash, write, written>>
  /\ UNCHANGED <<capacity, size, body, state, erase, left>>

EndForgetsBuffer ==      \* mutant: what is in the buffer is not counted
  /\ Running("Writing") /\ read = body
  /\ IF written < size THEN message' = "Incomplete" /\ UNCHANGED <<flash, state, write>>
     ELSE state' = "Identifying" /\ UNCHANGED <<flash, message, write>>
  /\ UNCHANGED <<capacity, size, body, erase, left, read, buffer, written>>

EndKeepsBuffer ==        \* mutant: the last part is not written
  /\ Running("Writing") /\ read = body
  /\ IF written + Len(buffer) < size
       THEN message' = "Incomplete" /\ UNCHANGED state
       ELSE state' = "Identifying" /\ UNCHANGED message
  /\ UNCHANGED <<capacity, size, body, flash, write, erase, left, read, buffer, written>>

EndGoesOn ==             \* mutant: the loop is not left
  /\ Running("Writing") /\ read = body
  /\ IF written + Len(buffer) < size THEN Fail("Incomplete") ELSE UNCHANGED vars

\* Ok(0): the reader has nothing more.
End ==
  /\ Running("Writing") /\ read = body
  /\ \/ /\ written + Len(buffer) < size
        /\ message' = "Incomplete" /\ UNCHANGED <<flash, state, write>>
     \/ /\ written + Len(buffer) >= size
        /\ WriteAt(written, buffer)
        /\ write' = [write EXCEPT ![1] = written + Len(buffer)]
        /\ state' = "Identifying" /\ UNCHANGED message
     \/ /\ written + Len(buffer) >= size /\ buffer # <<>>
        /\ message' = "StorageError" /\ UNCHANGED <<flash, state, write>>
  /\ UNCHANGED <<capacity, size, body, erase, left, read, buffer, written>>

\* The connection breaks or times out; the reader is done after size bytes.
ReadFails == Running("Writing") /\ read < size /\ Fail("WriteFailure")

-----------------------------------------------------------------------------
Init ==
  /\ capacity \in Capacities
  /\ flash = [a \in 0..capacity-1 |-> Old]
  /\ size = 0 /\ body = 0 /\ read = 0 /\ buffer = <<>> /\ written = 0 /\ left = <<0, 0>>
  /\ state = "Idle" /\ message = None /\ erase = <<0, 0>> /\ write = <<0, 0>>

Step ==
  \/ EraseBlock \/ EraseSector \/ EraseFails \/ StartWriting
  \/ \E n \in 1..SectorSize : Receive(n)
  \/ End \/ ReadFails

Next == \/ \E n, length \in 0..MaxSize : Request(n, length)
        \/ Step

\* The flash answers, and the reader answers or times out.
Spec == Init /\ [][Next]_vars /\ WF_vars(Step)

-----------------------------------------------------------------------------
(* Properties *)

\* Every variable has its type: the buffer never holds a full sector across an
\* await, so the reader is never asked to fill an empty slice, which would answer
\* Ok(0) and pass for the end of the body.
TypeOK ==
  /\ capacity \in Capacities /\ size \in 0..MaxSize /\ body \in 0..MaxSize
  /\ flash \in [0..capacity-1 -> 0..MaxSize \cup {Old, Erased}]
  /\ state \in {"Idle", "Received", "Erasing", "Writing", "Identifying"}
  /\ message \in {None, "OutOfMemory", "NotSupported", "Incomplete", "StorageError", "WriteFailure"}
  /\ erase \in Nat \X Nat /\ write \in Nat \X Nat /\ left \in Nat \X Nat
  /\ read \in 0..MaxSize /\ written \in 0..MaxSize
  /\ buffer \in Seq(0..MaxSize) /\ Len(buffer) <= SectorSize
  /\ Running("Writing") => Len(buffer) < SectorSize

\* What is erased covers the file, by less than a block more, and lies in the slot;
\* a file is turned away only when its erase sectors do not fit.
EraseFits ==
  /\ state \in {"Erasing", "Writing"} => size <= erase[2] /\ erase[2] < size + BlockSize
                                           /\ erase[2] <= capacity
  /\ state = "Received" => RoundUp(size, EraseSize) > capacity

\* An upload that comes to its inspection has put every byte of the file in its
\* place, and its progress counts are full.
FileComplete ==
  state = "Identifying" =>
    /\ \A a \in 0..size-1 : flash[a] = a
    /\ erase[1] = erase[2] /\ write = <<size, size>>

\* The faults say what happened: Incomplete that the body is shorter than the file,
\* OutOfMemory in the loop that it is longer.
FaultsTrue ==
  state = "Writing" => /\ message = "Incomplete" => body < size
                       /\ message = "OutOfMemory" => body > size

\* Every upload comes to its inspection or to a message.
Ends == \A s \in {"Erasing", "Writing"} : Running(s) ~> ~Running(s)
=============================================================================
