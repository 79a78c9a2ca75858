---------------------------- MODULE UploadProofs ----------------------------
(***************************************************************************)
(* Upload for every size of block, sector and write unit, every slot and   *)
(* every file: the erase fits, and what is finished is complete.           *)
(***************************************************************************)
EXTENDS Upload, Arithmetic

-----------------------------------------------------------------------------
(* Rounding *)

\* Rounding up adds less than a unit, and gives a multiple of it.
LEMMA RoundUpBounds ==
  ASSUME NEW n \in Nat, NEW unit \in Nat \ {0}
  PROVE  /\ RoundUp(n, unit) \in Nat
         /\ n <= RoundUp(n, unit) /\ RoundUp(n, unit) < n + unit
         /\ RoundUp(n, unit) \div unit \in Nat
         /\ (RoundUp(n, unit) \div unit) * unit = RoundUp(n, unit)
<1> DEFINE q == (n + unit - 1) \div unit
<1>1. q \in Nat /\ q * unit <= n + unit - 1 /\ n + unit - 1 < q * unit + unit
  BY DivBounds
<1>2. RoundUp(n, unit) = q * unit
  BY DEF RoundUp
<1> HIDE DEF q
<1>3. q * unit \in Nat
  BY <1>1
<1>4. (q * unit) \div unit = q
  BY <1>1, <1>3, DivUnique
<1> QED
  BY <1>1, <1>2, <1>3, <1>4

\* Rounding up leaves a multiple alone.
LEMMA RoundUpMultiple ==
  ASSUME NEW k \in Nat, NEW m \in Nat, NEW unit \in Nat \ {0}
  PROVE  RoundUp(k * unit + m, unit) = k * unit + RoundUp(m, unit)
<1> DEFINE e == m + unit - 1
           q == e \div unit
<1>1. e \in Nat
  OBVIOUS
<1>2. q \in Nat
  BY <1>1, DivBounds
<1>3. k * unit \in Nat /\ k * unit + m + unit - 1 = k * unit + e
  OBVIOUS
<1> HIDE DEF e
<1>4. (k * unit + e) \div unit = k + q
  BY <1>1, DivMultiple
<1>5. (k * unit + m + unit - 1) \div unit = k + q
  BY <1>3, <1>4
<1> HIDE DEF q
<1>6. (k + q) * unit = k * unit + q * unit
  BY <1>2
<1> QED
  BY <1>5, <1>6 DEF RoundUp, q, e

-----------------------------------------------------------------------------
(* calculate_erase_distribution *)

\* A block is a whole number of erase sectors.
LEMMA BlockIsSectors ==
  \E b \in Nat \ {0} : BlockSize = b * EraseSize
<1> DEFINE b == BlockSize \div EraseSize
<1>1. EraseSize \in Nat \ {0} /\ BlockSize \in Nat \ {0} /\ BlockSize % EraseSize = 0
  BY UploadAssumption
<1>2. b \in Nat /\ BlockSize = b * EraseSize
  BY <1>1
<1>3. b # 0
  BY <1>1, <1>2
<1> QED
  BY <1>2, <1>3

\* What is to be erased covers the file, by less than a block more, and lies in the
\* slot; an error means that the file's sectors do not fit.
LEMMA DistributionFits ==
  ASSUME NEW n \in Nat, NEW max \in Nat
  PROVE  LET d == Distribution(n, max)
             total == d.blocks * BlockSize + d.sectors * EraseSize
         IN  /\ d.blocks \in Nat /\ d.sectors \in Nat
             /\ d.error \in {None, "OutOfMemory", "NotSupported"}
             /\ d.error = None => n <= total /\ total < n + BlockSize /\ total <= max
             /\ d.error # None => RoundUp(n, EraseSize) > max
<1> DEFINE blocks == n \div BlockSize
           base == blocks * BlockSize
           rest == RoundUp(n - base, EraseSize)
           d == Distribution(n, max)
<1>1. /\ EraseSize \in Nat \ {0} /\ BlockSize \in Nat \ {0}
      /\ None \notin {"OutOfMemory", "NotSupported"}
  BY UploadAssumption
<1>2. PICK b \in Nat \ {0} : BlockSize = b * EraseSize
  BY BlockIsSectors
<1>3. EraseSize <= BlockSize
  <2>1. 1 * EraseSize <= b * EraseSize
    BY <1>1, <1>2, TimesMonotonic
  <2> QED
    BY <1>1, <1>2, <2>1
<1>4. blocks \in Nat /\ base \in Nat /\ base <= n /\ n < base + BlockSize
  BY <1>1, DivBounds
<1>5. (blocks + 1) * BlockSize = base + BlockSize
  BY <1>1, <1>4
<1>6. /\ rest \in Nat /\ n - base <= rest /\ rest < n - base + EraseSize
      /\ rest \div EraseSize \in Nat /\ (rest \div EraseSize) * EraseSize = rest
  BY <1>1, <1>4, RoundUpBounds
<1>7. RoundUp(n, EraseSize) = base + rest
  <2> DEFINE k == blocks * b
             m == n - base
  <2>1. base = k * EraseSize /\ k \in Nat
    BY <1>1, <1>2, <1>4
  <2>2. m \in Nat /\ n = base + m
    BY <1>4
  <2> HIDE DEF k, m
  <2>3. RoundUp(k * EraseSize + m, EraseSize) = k * EraseSize + RoundUp(m, EraseSize)
    BY <1>1, <2>1, <2>2, RoundUpMultiple
  <2> QED
    BY <2>1, <2>2, <2>3 DEF m
<1>8. n <= RoundUp(n, EraseSize)
  BY <1>1, RoundUpBounds
<1>9. d = IF n > max THEN [error |-> "OutOfMemory", blocks |-> 0, sectors |-> 0]
          ELSE IF n > base /\ base + BlockSize < max
            THEN [error |-> None, blocks |-> blocks + 1, sectors |-> 0]
          ELSE IF base + rest > max
            THEN [error |-> "NotSupported", blocks |-> 0, sectors |-> 0]
          ELSE [error |-> None, blocks |-> blocks, sectors |-> rest \div EraseSize]
  BY DEF Distribution
<1> HIDE DEF blocks, base, rest, d
<1>10. CASE n > max
  <2>1. d.error = "OutOfMemory" /\ d.blocks = 0 /\ d.sectors = 0
    BY <1>9, <1>10
  <2>2. RoundUp(n, EraseSize) > max
    BY <1>1, <1>8, <1>10, RoundUpBounds
  <2> QED
    BY <1>1, <2>1, <2>2 DEF d
<1>11. CASE ~(n > max) /\ n > base /\ base + BlockSize < max
  <2>1. d.error = None /\ d.blocks = blocks + 1 /\ d.sectors = 0
    BY <1>9, <1>11
  <2>2. d.blocks * BlockSize + d.sectors * EraseSize = base + BlockSize
    BY <1>1, <1>4, <1>5, <2>1
  <2> QED
    BY <1>1, <1>4, <1>11, <2>1, <2>2 DEF d
<1>12. CASE ~(n > max) /\ ~(n > base /\ base + BlockSize < max) /\ base + rest > max
  BY <1>1, <1>7, <1>9, <1>12 DEF d
<1>13. CASE ~(n > max) /\ ~(n > base /\ base + BlockSize < max) /\ ~(base + rest > max)
  <2>1. d.error = None /\ d.blocks = blocks /\ d.sectors = rest \div EraseSize
    BY <1>9, <1>13
  <2>2. d.blocks * BlockSize + d.sectors * EraseSize = base + rest
    BY <1>6, <2>1 DEF base
  <2>3. base + rest <= max /\ n <= base + rest /\ base + rest < n + BlockSize
    BY <1>1, <1>3, <1>4, <1>6, <1>13
  <2> QED
    BY <1>4, <1>6, <2>1, <2>2, <2>3 DEF d
<1> QED
  BY <1>10, <1>11, <1>12, <1>13
-----------------------------------------------------------------------------
(* The invariant *)

\* An accepted upload has an erase that covers it and lies in the slot; one that
\* is turned away does not fit.
Planned ==
  /\ state \in {"Erasing", "Writing", "Identifying"} =>
       size <= erase[2] /\ erase[2] < size + BlockSize /\ erase[2] <= capacity
  /\ state = "Received" => RoundUp(size, EraseSize) > capacity

\* What is erased and what is left to erase add up, and nothing is read before.
Counted ==
  state = "Erasing" =>
    /\ erase[1] + left[1] * BlockSize + left[2] * EraseSize = erase[2]
    /\ read = 0 /\ written = 0 /\ buffer = <<>>

\* What is read is what is written and what is in the buffer, each byte in place.
Gathered ==
  state = "Writing" =>
    /\ erase[1] = erase[2] /\ write = <<written, size>>
    /\ read = written + Len(buffer) /\ read <= body /\ written <= size
    /\ \A k \in 1..Len(buffer) : buffer[k] = written + k - 1
    /\ \A a \in 0..written-1 : flash[a] = a
    /\ message = None => written + Len(buffer) <= size

\* What has been erased is not written before its turn.
Cleared ==
  /\ state = "Erasing" => \A a \in 0..erase[1]-1 : flash[a] = Erased
  /\ state = "Writing" => \A a \in written..erase[2]-1 : flash[a] = Erased

Inv == TypeOK /\ Planned /\ Counted /\ Cleared /\ Gathered /\ FileComplete /\ FaultsTrue
-----------------------------------------------------------------------------
(* Pairs and buffers *)

\* A pair with another first part.
LEMMA PairExcept ==
  ASSUME NEW p \in Nat \X Nat, NEW v \in Nat
  PROVE  /\ [p EXCEPT ![1] = v] \in Nat \X Nat
         /\ [p EXCEPT ![1] = v] = <<v, p[2]>>
  OBVIOUS

\* A pair with another second part.
LEMMA PairExceptSecond ==
  ASSUME NEW p \in Nat \X Nat, NEW v \in Nat
  PROVE  /\ [p EXCEPT ![2] = v] \in Nat \X Nat
         /\ [p EXCEPT ![2] = v] = <<p[1], v>>
  OBVIOUS

\* What a read adds to the buffer are the next bytes of the body.
LEMMA BufferGrows ==
  ASSUME NEW b \in Seq(0..MaxSize), NEW n \in Nat \ {0}, NEW r \in Nat, r + n <= MaxSize
  PROVE  LET full == b \o [k \in 1..n |-> r + k - 1]
         IN  /\ full \in Seq(0..MaxSize) /\ Len(full) = Len(b) + n
             /\ \A k \in 1..Len(b) : full[k] = b[k]
             /\ \A k \in Len(b)+1..Len(full) : full[k] = r + (k - Len(b)) - 1
<1> DEFINE t == [k \in 1..n |-> r + k - 1]
<1>1. MaxSize \in Nat
  BY UploadAssumption
<1>2. \A k \in 1..n : r + k - 1 \in 0..MaxSize
  BY <1>1
<1>3. t \in Seq(0..MaxSize) /\ Len(t) = n
  BY <1>2
<1>4. \A k \in 1..n : t[k] = r + k - 1
  OBVIOUS
<1> HIDE DEF t
<1>5. /\ b \o t \in Seq(0..MaxSize) /\ Len(b \o t) = Len(b) + n
      /\ \A k \in 1..Len(b) : (b \o t)[k] = b[k]
  BY <1>3
<1>6. \A k \in Len(b)+1..Len(b \o t) : (b \o t)[k] = t[k - Len(b)]
  BY <1>3
<1>7. \A k \in Len(b)+1..Len(b \o t) : k - Len(b) \in 1..n
  BY <1>3, <1>5
<1> QED
  BY <1>4, <1>5, <1>6, <1>7 DEF t

\* The elements of a sequence.
LEMMA ElementsTyped ==
  ASSUME NEW S, NEW s \in Seq(S)
  PROVE  \A k \in 1..Len(s) : s[k] \in S
  OBVIOUS

\* A write puts the buffer's bytes where they belong, if that is erased, and keeps the
\* rest.
LEMMA WriteTyped ==
  ASSUME TypeOK, NEW bytes \in Seq(0..MaxSize), NEW offset \in Nat, WriteAt(offset, bytes),
         \A a \in offset..offset+Len(bytes)-1 : flash[a] = Erased
  PROVE  /\ flash' \in [0..capacity-1 -> 0..MaxSize \cup {Old, Erased}]
         /\ \A a \in 0..offset-1 : a < capacity => flash'[a] = flash[a]
         /\ \A a \in offset..offset+Len(bytes)-1 :
              a < capacity => flash'[a] = bytes[a - offset + 1]
         /\ \A a \in offset+Len(bytes)..capacity-1 : flash'[a] = flash[a]
<1>1. capacity \in Nat /\ Len(bytes) \in Nat
  BY UploadAssumption DEF TypeOK
<1>2. flash \in [0..capacity-1 -> 0..MaxSize \cup {Old, Erased}]
  BY DEF TypeOK
<1>3. \A a \in offset..offset+Len(bytes)-1 : bytes[a - offset + 1] \in 0..MaxSize
  <2>1. \A k \in 1..Len(bytes) : bytes[k] \in 0..MaxSize
    BY ElementsTyped
  <2>2. \A a \in offset..offset+Len(bytes)-1 : a - offset + 1 \in 1..Len(bytes)
    BY <1>1
  <2> QED
    BY <2>1, <2>2
<1>4. flash' = [a \in 0..capacity-1 |->
                  IF a \notin offset..offset+Len(bytes)-1 THEN flash[a]
                  ELSE bytes[a - offset + 1]]
  BY <1>2 DEF WriteAt
<1> QED
  BY <1>1, <1>2, <1>3, <1>4

-----------------------------------------------------------------------------
(* The steps *)

\* The slot, empty, before any upload.
LEMMA InitInv == Init => Inv
<1> SUFFICES ASSUME Init PROVE Inv
  OBVIOUS
<1>1. TypeOK
  BY UploadAssumption DEF Init, TypeOK, Running
<1> QED
  BY <1>1 DEF Init, Inv, Planned, Counted, Cleared, Gathered, FileComplete, FaultsTrue

\* A request plans its erase.
LEMMA RequestInv ==
  ASSUME Inv, NEW n \in 0..MaxSize, NEW length \in 0..MaxSize, Request(n, length)
  PROVE  Inv'
<1> DEFINE d == Distribution(n, capacity)
           total == d.blocks * BlockSize + d.sectors * EraseSize
<1>1. /\ n \in Nat /\ capacity \in Nat /\ BlockSize \in Nat \ {0} /\ EraseSize \in Nat \ {0}
      /\ SectorSize \in Nat \ {0} /\ MaxSize \in Nat /\ TypeOK
  BY UploadAssumption DEF Inv, TypeOK
<1>2. /\ d.blocks \in Nat /\ d.sectors \in Nat
      /\ d.error \in {None, "OutOfMemory", "NotSupported"}
      /\ d.error = None => n <= total /\ total < n + BlockSize /\ total <= capacity
      /\ d.error # None => RoundUp(n, EraseSize) > capacity
  BY <1>1, DistributionFits
<1>3. /\ size' = n /\ body' = length /\ read' = 0 /\ buffer' = <<>> /\ written' = 0
      /\ capacity' = capacity
      /\ state' = IF d.error = None THEN "Erasing" ELSE "Received"
      /\ message' = d.error
      /\ left' = <<d.blocks, d.sectors>>
      /\ erase' = <<0, total>>
      /\ write' = <<0, 0>>
      /\ flash' = [a \in DOMAIN flash |-> IF flash[a] = Erased THEN Erased ELSE Old]
  BY DEF Request
<1> HIDE DEF d
<1>4. total \in Nat
  BY <1>1, <1>2
<1>5. total = left'[1] * BlockSize + left'[2] * EraseSize
  BY <1>3
<1> HIDE DEF total
<1>6. TypeOK'
  <2>1. flash' \in [0..capacity'-1 -> 0..MaxSize \cup {Old, Erased}]
    BY <1>1, <1>3 DEF TypeOK
  <2>2. erase' \in Nat \X Nat /\ left' \in Nat \X Nat /\ write' \in Nat \X Nat
    BY <1>2, <1>3, <1>4
  <2>3. buffer' \in Seq(0..MaxSize) /\ Len(buffer') <= SectorSize
    BY <1>1, <1>3
  <2>4. capacity' \in Capacities
    BY <1>1, <1>3 DEF TypeOK
  <2>5. state' \in {"Received", "Erasing"}
    BY <1>3
  <2>6. message' \in {None, "OutOfMemory", "NotSupported"}
    BY <1>2, <1>3
  <2> QED
    BY <1>1, <1>3, <2>1, <2>2, <2>3, <2>4, <2>5, <2>6 DEF TypeOK, Running
<1>7. Planned'
  BY <1>1, <1>2, <1>3 DEF Planned, total
<1>8. Counted'
  BY <1>1, <1>2, <1>3, <1>4, <1>5 DEF Counted
<1>9. Gathered' /\ FileComplete' /\ FaultsTrue'
  BY <1>3 DEF Gathered, FileComplete, FaultsTrue
<1>10. Cleared'
  <2>1. state' # "Writing" /\ erase'[1] = 0
    BY <1>3
  <2> QED
    BY <2>1 DEF Cleared
<1> QED
  BY <1>6, <1>7, <1>8, <1>9, <1>10 DEF Inv

\* An erase keeps the flash a slot of bytes.
LEMMA EraseTyped ==
  ASSUME TypeOK, NEW unit \in Nat \ {0}, EraseNext(unit)
  PROVE  /\ flash' \in [0..capacity'-1 -> 0..MaxSize \cup {Old, Erased}]
         /\ erase' = <<erase[1] + unit, erase[2]>> /\ erase' \in Nat \X Nat
<1>1. erase \in Nat \X Nat /\ erase[1] + unit \in Nat
  BY DEF TypeOK
<1>2. erase' = [erase EXCEPT ![1] = erase[1] + unit]
  BY DEF EraseNext
<1>3. erase' = <<erase[1] + unit, erase[2]>> /\ erase' \in Nat \X Nat
  BY <1>1, <1>2, PairExcept
<1>4. flash' \in [0..capacity'-1 -> 0..MaxSize \cup {Old, Erased}]
  BY DEF EraseNext, TypeOK
<1> QED
  BY <1>3, <1>4

\* What an erase has come to is erased.
LEMMA EraseCleared ==
  ASSUME TypeOK, Cleared, state = "Erasing", state' = state,
         NEW unit \in Nat \ {0}, EraseNext(unit)
  PROVE  Cleared'
<1>1. erase'[1] = erase[1] + unit /\ erase[1] \in Nat /\ capacity \in Nat
  BY EraseTyped, UploadAssumption DEF TypeOK
<1>2. erase[1] + unit <= capacity
  BY DEF EraseNext
<1>3. \A a \in 0..capacity-1 :
        flash'[a] = IF a \in erase[1]..erase[1]+unit-1 THEN Erased ELSE flash[a]
  BY DEF EraseNext, TypeOK
<1>4. ASSUME NEW a \in 0..erase'[1]-1 PROVE flash'[a] = Erased
  <2>1. a \in 0..capacity-1 /\ (a \in 0..erase[1]-1 \/ a \in erase[1]..erase[1]+unit-1)
    BY <1>1, <1>2
  <2> QED
    BY <1>3, <2>1 DEF Cleared
<1> QED
  BY <1>4 DEF Cleared

\* A block erased is one less to erase.
LEMMA EraseBlockInv == Inv /\ EraseBlock => Inv'
<1> SUFFICES ASSUME Inv, EraseBlock PROVE Inv'
  OBVIOUS
<1>1. TypeOK /\ BlockSize \in Nat \ {0} /\ EraseSize \in Nat \ {0} /\ MaxSize \in Nat
  BY UploadAssumption DEF Inv
<1>2. EraseNext(BlockSize) /\ left[1] > 0 /\ state = "Erasing" /\ message = None
  BY DEF EraseBlock, Running
<1>3. /\ flash' \in [0..capacity'-1 -> 0..MaxSize \cup {Old, Erased}]
      /\ erase' = <<erase[1] + BlockSize, erase[2]>> /\ erase' \in Nat \X Nat
  BY <1>1, <1>2, EraseTyped
<1>4. left \in Nat \X Nat /\ left[1] - 1 \in Nat
  BY <1>1, <1>2 DEF TypeOK
<1>5. left' = [left EXCEPT ![1] = left[1] - 1]
  BY DEF EraseBlock
<1>6. left' = <<left[1] - 1, left[2]>> /\ left' \in Nat \X Nat
  BY <1>4, <1>5, PairExcept
<1>7. UNCHANGED <<capacity, size, body, state, message, write, read, buffer, written>>
  BY <1>2 DEF EraseNext
<1>8. TypeOK'
  BY <1>1, <1>3, <1>6, <1>7 DEF TypeOK, Running
<1>9. Counted'
  <2>1. (left[1] - 1) * BlockSize = left[1] * BlockSize - BlockSize
    BY <1>1, <1>4
  <2>2. left[1] * BlockSize \in Nat /\ left[2] * EraseSize \in Nat /\ erase[1] \in Nat
    BY <1>1, <1>4 DEF TypeOK
  <2>3. erase'[1] + left'[1] * BlockSize + left'[2] * EraseSize
          = erase[1] + BlockSize + (left[1] - 1) * BlockSize + left[2] * EraseSize
    BY <1>3, <1>6
  <2>4. erase'[1] + left'[1] * BlockSize + left'[2] * EraseSize
          = erase[1] + left[1] * BlockSize + left[2] * EraseSize
    BY <1>1, <2>1, <2>2, <2>3
  <2> QED
    BY <1>2, <1>3, <1>7, <2>4 DEF Inv, Counted
<1>10. Planned'
  BY <1>2, <1>3, <1>7 DEF Inv, Planned
<1>11. Gathered' /\ FileComplete' /\ FaultsTrue'
  BY <1>2, <1>7 DEF Gathered, FileComplete, FaultsTrue
<1>12. Cleared'
  BY <1>1, <1>2, <1>7, EraseCleared DEF Inv
<1> QED
  BY <1>8, <1>9, <1>10, <1>11, <1>12 DEF Inv

\* So is an erase sector.
LEMMA EraseSectorInv == Inv /\ EraseSector => Inv'
<1> SUFFICES ASSUME Inv, EraseSector PROVE Inv'
  OBVIOUS
<1>1. TypeOK /\ BlockSize \in Nat \ {0} /\ EraseSize \in Nat \ {0} /\ MaxSize \in Nat
  BY UploadAssumption DEF Inv
<1>2. EraseNext(EraseSize) /\ left[2] > 0 /\ state = "Erasing" /\ message = None
  BY DEF EraseSector, Running
<1>3. /\ flash' \in [0..capacity'-1 -> 0..MaxSize \cup {Old, Erased}]
      /\ erase' = <<erase[1] + EraseSize, erase[2]>> /\ erase' \in Nat \X Nat
  BY <1>1, <1>2, EraseTyped
<1>4. left \in Nat \X Nat /\ left[2] - 1 \in Nat
  BY <1>1, <1>2 DEF TypeOK
<1>5. left' = [left EXCEPT ![2] = left[2] - 1]
  BY DEF EraseSector
<1>6. left' = <<left[1], left[2] - 1>> /\ left' \in Nat \X Nat
  BY <1>4, <1>5, PairExceptSecond
<1>7. UNCHANGED <<capacity, size, body, state, message, write, read, buffer, written>>
  BY <1>2 DEF EraseNext
<1>8. TypeOK'
  BY <1>1, <1>3, <1>6, <1>7 DEF TypeOK, Running
<1>9. Counted'
  <2>1. (left[2] - 1) * EraseSize = left[2] * EraseSize - EraseSize
    BY <1>1, <1>4
  <2>2. left[1] * BlockSize \in Nat /\ left[2] * EraseSize \in Nat /\ erase[1] \in Nat
    BY <1>1, <1>4 DEF TypeOK
  <2>3. erase'[1] + left'[1] * BlockSize + left'[2] * EraseSize
          = erase[1] + EraseSize + left[1] * BlockSize + (left[2] - 1) * EraseSize
    BY <1>3, <1>6
  <2>4. erase'[1] + left'[1] * BlockSize + left'[2] * EraseSize
          = erase[1] + left[1] * BlockSize + left[2] * EraseSize
    BY <1>1, <2>1, <2>2, <2>3
  <2> QED
    BY <1>2, <1>3, <1>7, <2>4 DEF Inv, Counted
<1>10. Planned'
  BY <1>2, <1>3, <1>7 DEF Inv, Planned
<1>11. Gathered' /\ FileComplete' /\ FaultsTrue'
  BY <1>2, <1>7 DEF Gathered, FileComplete, FaultsTrue
<1>12. Cleared'
  BY <1>1, <1>2, <1>7, EraseCleared DEF Inv
<1> QED
  BY <1>8, <1>9, <1>10, <1>11, <1>12 DEF Inv

\* A fault changes only the message.
LEMMA FailInv ==
  ASSUME Inv, NEW e \in {"StorageError", "WriteFailure"}, Fail(e)
  PROVE  Inv'
<1>1. /\ message' = e
      /\ UNCHANGED <<capacity, size, body, flash, state, erase, write, left, read, buffer,
                     written>>
  BY DEF Fail
<1>2. None # e
  BY UploadAssumption
<1>3. TypeOK'
  BY <1>1, <1>2 DEF Inv, TypeOK, Running
<1>4. Planned' /\ Counted' /\ Cleared' /\ FileComplete'
  BY <1>1 DEF Inv, Planned, Counted, Cleared, FileComplete
<1>5. Gathered' /\ FaultsTrue'
  BY <1>1, <1>2 DEF Inv, Gathered, FaultsTrue
<1> QED
  BY <1>3, <1>4, <1>5 DEF Inv

\* With nothing left to erase, the whole file's place is erased.
LEMMA StartWritingInv == Inv /\ StartWriting => Inv'
<1> SUFFICES ASSUME Inv, StartWriting PROVE Inv'
  OBVIOUS
<1>1. /\ state = "Erasing" /\ message = None /\ left = <<0, 0>>
      /\ state' = "Writing" /\ write' = <<0, size>>
      /\ UNCHANGED <<capacity, size, body, flash, message, erase, left, read, buffer, written>>
  BY DEF StartWriting, Running
<1>2. /\ TypeOK /\ SectorSize \in Nat \ {0} /\ BlockSize \in Nat /\ EraseSize \in Nat
      /\ None \notin {"Incomplete", "OutOfMemory"}
  BY UploadAssumption DEF Inv
<1>3. read = 0 /\ written = 0 /\ buffer = <<>>
  BY <1>1 DEF Inv, Counted
<1>4. erase[1] = erase[2]
  BY <1>1, <1>2 DEF Inv, Counted, TypeOK
<1>5. TypeOK'
  <2>1. size \in Nat /\ write' \in Nat \X Nat
    BY <1>1, <1>2, UploadAssumption DEF TypeOK
  <2>2. Len(buffer') < SectorSize
    BY <1>1, <1>2, <1>3
  <2> QED
    BY <1>1, <1>2, <2>1, <2>2 DEF TypeOK, Running
<1>6. Gathered'
  BY <1>1, <1>2, <1>3, <1>4 DEF Gathered, TypeOK
<1>7. Planned'
  BY <1>1 DEF Inv, Planned
<1>8. Counted' /\ FileComplete' /\ FaultsTrue'
  BY <1>1, <1>2 DEF Counted, FileComplete, FaultsTrue
<1>9. Cleared'
  BY <1>1, <1>3, <1>4 DEF Inv, Cleared
<1> QED
  BY <1>5, <1>6, <1>7, <1>8, <1>9 DEF Inv

\* What is read goes on in the buffer, to its place, or to a true message.
LEMMA ReceiveInv ==
  ASSUME Inv, NEW n \in 1..SectorSize, Receive(n)
  PROVE  Inv'
<1> DEFINE full == buffer \o [k \in 1..n |-> read + k - 1]
<1>1. /\ TypeOK /\ SectorSize \in Nat \ {0} /\ MaxSize \in Nat
      /\ None \notin {"Incomplete", "OutOfMemory", "StorageError"}
  BY UploadAssumption DEF Inv
<1>2. /\ size \in Nat /\ size <= MaxSize /\ body \in Nat /\ body <= MaxSize
      /\ read \in Nat /\ written \in Nat
      /\ buffer \in Seq(0..MaxSize) /\ Len(buffer) \in Nat /\ n \in Nat \ {0}
      /\ capacity \in Nat
  BY <1>1, UploadAssumption DEF TypeOK
<1>3. /\ state = "Writing" /\ message = None
      /\ n \in 1..SectorSize - Len(buffer) /\ read + n <= body
      /\ read' = read + n
      /\ UNCHANGED <<capacity, size, body, state, erase, left>>
  BY DEF Receive, Running
<1>4. /\ erase[1] = erase[2] /\ write = <<written, size>>
      /\ read = written + Len(buffer) /\ read <= body /\ written <= size
      /\ \A k \in 1..Len(buffer) : buffer[k] = written + k - 1
      /\ \A a \in 0..written-1 : flash[a] = a
      /\ size <= erase[2] /\ erase[2] <= capacity /\ erase[2] \in Nat
      /\ size <= capacity
      /\ \A a \in written..erase[2]-1 : flash[a] = Erased
  <2>1. size <= erase[2] /\ erase[2] <= capacity /\ erase[2] \in Nat
    BY <1>1, <1>3 DEF Inv, Planned, TypeOK
  <2> QED
    BY <1>2, <1>3, <2>1 DEF Inv, Gathered, Cleared
<1>5. /\ full \in Seq(0..MaxSize) /\ Len(full) = Len(buffer) + n
      /\ \A k \in 1..Len(full) : full[k] = written + k - 1
  <2>1. read + n <= MaxSize
    BY <1>1, <1>2, <1>3
  <2>2. /\ full \in Seq(0..MaxSize) /\ Len(full) = Len(buffer) + n
        /\ \A k \in 1..Len(buffer) : full[k] = buffer[k]
        /\ \A k \in Len(buffer)+1..Len(full) : full[k] = read + (k - Len(buffer)) - 1
    <3>1. buffer \in Seq(0..MaxSize) /\ n \in Nat \ {0} /\ read \in Nat
      BY <1>2
    <3> QED
      BY <2>1, <3>1, BufferGrows
  <2> HIDE DEF full
  <2>3. \A k \in Len(buffer)+1..Len(full) : full[k] = written + k - 1
    BY <1>2, <1>4, <2>2
  <2>4. \A k \in 1..Len(buffer) : full[k] = written + k - 1
    BY <1>4, <2>2
  <2>5. \A k \in 1..Len(full) : k \in 1..Len(buffer) \/ k \in Len(buffer)+1..Len(full)
    BY <1>2, <2>2
  <2> QED
    BY <2>2, <2>3, <2>4, <2>5
<1>6. \/ /\ written + Len(full) > size
         /\ message' = "OutOfMemory" /\ buffer' = full
         /\ UNCHANGED <<flash, write, written>>
      \/ /\ written + Len(full) <= size /\ Len(full) < SectorSize
         /\ buffer' = full
         /\ UNCHANGED <<flash, message, write, written>>
      \/ /\ written + Len(full) <= size /\ Len(full) = SectorSize
         /\ WriteAt(written, full)
         /\ written' = written + SectorSize /\ buffer' = <<>>
         /\ write' = [write EXCEPT ![1] = written + SectorSize]
         /\ UNCHANGED message
      \/ /\ written + Len(full) <= size /\ Len(full) = SectorSize
         /\ message' = "StorageError" /\ buffer' = full
         /\ UNCHANGED <<flash, write, written>>
  BY DEF Receive
<1> HIDE DEF full
<1>7. Planned'
  BY <1>3 DEF Inv, Planned
<1>8. Counted' /\ FileComplete'
  BY <1>3 DEF Counted, FileComplete
<1>9. Len(full) <= SectorSize /\ Len(full) \in Nat /\ read' \in 0..MaxSize
  BY <1>1, <1>2, <1>3, <1>5
<1>10. ASSUME buffer' = full, UNCHANGED <<flash, write, written>>,
              message' \in {None, "OutOfMemory", "StorageError"},
              message' = None => Len(full) < SectorSize /\ written + Len(full) <= size,
              message' = "OutOfMemory" => written + Len(full) > size
       PROVE  Inv'
  <2>1. TypeOK'
    BY <1>1, <1>3, <1>5, <1>9, <1>10 DEF TypeOK, Running
  <2>2. Gathered'
    <3>1. read' = written' + Len(buffer')
      <4>1. written' = written /\ Len(buffer') = Len(full) /\ read' = read + n
        BY <1>3, <1>10
      <4> QED
        BY <1>2, <1>4, <1>5, <4>1
    <3>2. read' <= body'
      BY <1>3
    <3>3. \A k \in 1..Len(buffer') : buffer'[k] = written' + k - 1
      BY <1>5, <1>10
    <3>4. message' = None => written' + Len(buffer') <= size'
      BY <1>3, <1>10
    <3> QED
      BY <1>3, <1>4, <1>10, <3>1, <3>2, <3>3, <3>4 DEF Gathered
  <2>3. FaultsTrue'
    <3>1. message' = "OutOfMemory" => body > size
      BY <1>2, <1>3, <1>4, <1>5, <1>10
    <3>2. message' # "Incomplete"
      BY <1>1, <1>10
    <3> QED
      BY <1>3, <3>1, <3>2 DEF FaultsTrue
  <2>4. Cleared'
    BY <1>3, <1>4, <1>10 DEF Cleared
  <2> QED
    BY <1>7, <1>8, <2>1, <2>2, <2>3, <2>4 DEF Inv
<1>11. CASE /\ written + Len(full) > size
            /\ message' = "OutOfMemory" /\ buffer' = full
            /\ UNCHANGED <<flash, write, written>>
  BY <1>1, <1>10, <1>11
<1>12. CASE /\ written + Len(full) <= size /\ Len(full) < SectorSize
            /\ buffer' = full
            /\ UNCHANGED <<flash, message, write, written>>
  BY <1>1, <1>3, <1>10, <1>12
<1>13. CASE /\ written + Len(full) <= size /\ Len(full) = SectorSize
            /\ message' = "StorageError" /\ buffer' = full
            /\ UNCHANGED <<flash, write, written>>
  BY <1>1, <1>10, <1>13
<1>14. CASE /\ written + Len(full) <= size /\ Len(full) = SectorSize
            /\ WriteAt(written, full)
            /\ written' = written + SectorSize /\ buffer' = <<>>
            /\ write' = [write EXCEPT ![1] = written + SectorSize]
            /\ UNCHANGED message
  <2>1. /\ flash' \in [0..capacity-1 -> 0..MaxSize \cup {Old, Erased}]
        /\ \A a \in 0..written-1 : a < capacity => flash'[a] = flash[a]
        /\ \A a \in written..written+Len(full)-1 :
             a < capacity => flash'[a] = full[a - written + 1]
        /\ \A a \in written+Len(full)..capacity-1 : flash'[a] = flash[a]
    <3>1. \A a \in written..written+Len(full)-1 : flash[a] = Erased
      <4>1. written + Len(full) <= erase[2] /\ Len(full) \in Nat /\ erase[2] \in Nat
        BY <1>2, <1>4, <1>9, <1>14
      <4>2. \A a \in written..erase[2]-1 : flash[a] = Erased
        BY <1>4
      <4> QED
        BY <1>2, <4>1, <4>2
    <3>2. full \in Seq(0..MaxSize) /\ written \in Nat /\ WriteAt(written, full)
      BY <1>2, <1>5, <1>14
    <3>3. TypeOK
      BY <1>1
    <3> QED
      BY <3>1, <3>2, <3>3, WriteTyped, Zenon
  <2>2. written' \in 0..MaxSize /\ written' <= size
    BY <1>1, <1>2, <1>14
  <2>3. write' = <<written', size>> /\ write' \in Nat \X Nat
    <3>1. write \in Nat \X Nat /\ written + SectorSize \in Nat /\ write[2] = size
      BY <1>1, <1>2, <1>4 DEF TypeOK
    <3> QED
      BY <1>14, <3>1, PairExcept
  <2>4. \A a \in 0..written'-1 : flash'[a] = a
    <3> SUFFICES ASSUME NEW a \in 0..written'-1 PROVE flash'[a] = a
      OBVIOUS
    <3>1. written' = written + Len(full) /\ a \in Nat /\ a < written' /\ a < capacity
      BY <1>1, <1>2, <1>4, <1>14, <2>2
    <3>2. CASE a < written
      <4>1. a \in 0..written-1
        BY <1>2, <3>1, <3>2
      <4> QED
        BY <1>4, <2>1, <3>1, <4>1
    <3>3. CASE a >= written
      <4>1. a \in written..written+Len(full)-1 /\ a - written + 1 \in 1..Len(full)
        BY <1>2, <1>9, <3>1, <3>3
      <4>2. full[a - written + 1] = written + (a - written + 1) - 1
        BY <1>5, <4>1
      <4> QED
        BY <1>2, <2>1, <3>1, <4>1, <4>2
    <3> QED
      BY <1>2, <3>1, <3>2, <3>3
  <2>5. buffer' \in Seq(0..MaxSize) /\ Len(buffer') = 0
    BY <1>14
  <2>6. TypeOK'
    BY <1>1, <1>3, <1>9, <1>14, <2>1, <2>2, <2>3, <2>5 DEF TypeOK, Running
  <2>7. Gathered'
    <3>1. read' = written' + Len(buffer') /\ read' <= body'
      <4>1. /\ read' = read + n /\ body' = body /\ read + n <= body
            /\ written' = written + SectorSize /\ Len(buffer') = 0
        BY <1>3, <1>14, <2>5
      <4>2. Len(buffer) + n = SectorSize /\ read = written + Len(buffer)
        BY <1>4, <1>5, <1>14
      <4> QED
        BY <1>1, <1>2, <4>1, <4>2
    <3>2. \A k \in 1..Len(buffer') : buffer'[k] = written' + k - 1
      BY <2>5
    <3>3. written' + Len(buffer') <= size' /\ written' <= size'
      <4>1. written' = written + SectorSize /\ Len(buffer') = 0 /\ size' = size
        BY <1>3, <1>14, <2>5
      <4> QED
        BY <1>1, <1>2, <2>2, <4>1
    <3> QED
      BY <1>3, <1>4, <2>3, <2>4, <3>1, <3>2, <3>3 DEF Gathered
  <2>8. FaultsTrue'
    BY <1>1, <1>3, <1>14 DEF FaultsTrue
  <2>9. Cleared'
    <3>1. written' = written + Len(full) /\ erase'[2] = erase[2] /\ state' = "Writing"
      BY <1>3, <1>14
    <3>2. ASSUME NEW a \in written + Len(full)..erase[2]-1 PROVE flash'[a] = Erased
      <4>1. a \in written + Len(full)..capacity-1 /\ a \in written..erase[2]-1
        BY <1>2, <1>4, <1>9
      <4> QED
        BY <1>4, <2>1, <4>1
    <3> QED
      BY <3>1, <3>2 DEF Cleared
  <2> QED
    BY <1>7, <1>8, <2>6, <2>7, <2>8, <2>9 DEF Inv
<1> QED
  BY <1>6, <1>11, <1>12, <1>13, <1>14

\* The end of the body is the end of the file, or the file is not complete.
LEMMA EndInv == Inv /\ End => Inv'
<1> SUFFICES ASSUME Inv, End PROVE Inv'
  OBVIOUS
<1>1. /\ TypeOK /\ MaxSize \in Nat
      /\ None \notin {"Incomplete", "OutOfMemory", "StorageError"}
  BY UploadAssumption DEF Inv
<1>2. /\ size \in 0..MaxSize /\ body \in Nat /\ read \in Nat /\ written \in Nat
      /\ buffer \in Seq(0..MaxSize) /\ Len(buffer) \in Nat /\ capacity \in Nat
  BY <1>1, UploadAssumption DEF TypeOK
<1>3. /\ state = "Writing" /\ message = None /\ read = body
      /\ UNCHANGED <<capacity, size, body, erase, left, read, buffer, written>>
  BY DEF End, Running
<1>4. /\ erase[1] = erase[2] /\ write = <<written, size>>
      /\ read = written + Len(buffer) /\ written + Len(buffer) <= size
      /\ \A k \in 1..Len(buffer) : buffer[k] = written + k - 1
      /\ \A a \in 0..written-1 : flash[a] = a
      /\ size <= erase[2] /\ erase[2] <= capacity /\ erase[2] \in Nat
      /\ size <= capacity
      /\ \A a \in written..erase[2]-1 : flash[a] = Erased
  <2>1. size <= erase[2] /\ erase[2] <= capacity /\ erase[2] \in Nat
    BY <1>1, <1>3 DEF Inv, Planned, TypeOK
  <2> QED
    BY <1>2, <1>3, <2>1 DEF Inv, Gathered, Cleared
<1>5. Planned'
  <2>1. state' \in {"Writing", "Identifying"}
    BY <1>3 DEF End
  <2> QED
    BY <1>3, <2>1 DEF Inv, Planned
<1>6. ASSUME message' \in {"Incomplete", "StorageError"}, UNCHANGED <<flash, state, write>>,
             message' = "Incomplete" => written + Len(buffer) < size
      PROVE  Inv'
  <2>1. TypeOK'
    BY <1>1, <1>3, <1>6 DEF TypeOK, Running
  <2>2. Gathered'
    BY <1>3, <1>6 DEF Inv, Gathered
  <2>3. Counted' /\ FileComplete'
    BY <1>3, <1>6 DEF Counted, FileComplete
  <2>4. FaultsTrue'
    BY <1>3, <1>4, <1>6 DEF FaultsTrue
  <2>5. Cleared'
    BY <1>3, <1>6 DEF Inv, Cleared
  <2> QED
    BY <1>5, <2>1, <2>2, <2>3, <2>4, <2>5 DEF Inv
<1>7. CASE /\ written + Len(buffer) < size
           /\ message' = "Incomplete" /\ UNCHANGED <<flash, state, write>>
  BY <1>6, <1>7
<1>8. CASE /\ written + Len(buffer) >= size /\ buffer # <<>>
           /\ message' = "StorageError" /\ UNCHANGED <<flash, state, write>>
  BY <1>6, <1>8
<1>9. CASE /\ written + Len(buffer) >= size
           /\ WriteAt(written, buffer)
           /\ write' = [write EXCEPT ![1] = written + Len(buffer)]
           /\ state' = "Identifying" /\ UNCHANGED message
  <2>1. /\ flash' \in [0..capacity-1 -> 0..MaxSize \cup {Old, Erased}]
        /\ \A a \in 0..written-1 : a < capacity => flash'[a] = flash[a]
        /\ \A a \in written..written+Len(buffer)-1 :
             a < capacity => flash'[a] = buffer[a - written + 1]
    <3>1. \A a \in written..written+Len(buffer)-1 : flash[a] = Erased
      BY <1>2, <1>4
    <3> QED
      BY <1>1, <1>2, <1>9, <3>1, WriteTyped
  <2>2. written + Len(buffer) = size
    BY <1>2, <1>4, <1>9
  <2>3. write' = <<size, size>> /\ write' \in Nat \X Nat
    <3>1. write \in Nat \X Nat /\ written + Len(buffer) \in Nat /\ write[2] = size
      BY <1>1, <1>2, <1>4 DEF TypeOK
    <3> QED
      BY <1>9, <2>2, <3>1, PairExcept
  <2>4. \A a \in 0..size-1 : flash'[a] = a
    <3>1. \A a \in written..written+Len(buffer)-1 : buffer[a - written + 1] = a
      BY <1>2, <1>4
    <3>2. SUFFICES ASSUME NEW a \in 0..size-1 PROVE flash'[a] = a
      OBVIOUS
    <3>3. a < capacity /\ (a \in 0..written-1 \/ a \in written..written+Len(buffer)-1)
      BY <1>2, <1>4, <2>2
    <3>4. \A b \in 0..written-1 : flash[b] = b
      BY <1>4
    <3> QED
      BY <2>1, <3>1, <3>3, <3>4
  <2>5. TypeOK'
    BY <1>1, <1>3, <1>9, <2>1, <2>3 DEF TypeOK, Running
  <2>6. Counted' /\ Cleared' /\ Gathered' /\ FaultsTrue'
    BY <1>9 DEF Counted, Cleared, Gathered, FaultsTrue
  <2>7. FileComplete'
    BY <1>3, <1>4, <2>3, <2>4 DEF FileComplete
  <2> QED
    BY <1>5, <2>5, <2>6, <2>7 DEF Inv
<1>10. \/ /\ written + Len(buffer) < size
          /\ message' = "Incomplete" /\ UNCHANGED <<flash, state, write>>
       \/ /\ written + Len(buffer) >= size
          /\ WriteAt(written, buffer)
          /\ write' = [write EXCEPT ![1] = written + Len(buffer)]
          /\ state' = "Identifying" /\ UNCHANGED message
       \/ /\ written + Len(buffer) >= size /\ buffer # <<>>
          /\ message' = "StorageError" /\ UNCHANGED <<flash, state, write>>
  BY DEF End
<1> QED
  BY <1>7, <1>8, <1>9, <1>10

\* Every step keeps the invariant.
LEMMA NextInv == Inv /\ [Next]_vars => Inv'
<1> SUFFICES ASSUME Inv, [Next]_vars PROVE Inv'
  OBVIOUS
<1>1. ASSUME NEW n \in 0..MaxSize, NEW length \in 0..MaxSize, Request(n, length) PROVE Inv'
  BY <1>1, RequestInv
<1>2. CASE EraseBlock
  BY <1>2, EraseBlockInv
<1>3. CASE EraseSector
  BY <1>3, EraseSectorInv
<1>4. CASE EraseFails
  BY <1>4, FailInv DEF EraseFails
<1>5. CASE StartWriting
  BY <1>5, StartWritingInv
<1>6. ASSUME NEW n \in 1..SectorSize, Receive(n) PROVE Inv'
  BY <1>6, ReceiveInv
<1>7. CASE End
  BY <1>7, EndInv
<1>8. CASE ReadFails
  BY <1>8, FailInv DEF ReadFails
<1>9. CASE UNCHANGED vars
  BY <1>9 DEF vars, progress, Inv, TypeOK, Running, Planned, Counted, Cleared, Gathered,
              FileComplete, FaultsTrue
<1> QED
  BY <1>1, <1>2, <1>3, <1>4, <1>5, <1>6, <1>7, <1>8, <1>9 DEF Next, Step

\* The invariant, of every behaviour.
LEMMA SpecInv == Spec => []Inv
<1> QED
  BY InitInv, NextInv, PTL DEF Spec

-----------------------------------------------------------------------------
(* Theorems *)

\* Types: whatever the sizes, the reader is never asked to fill a full buffer, so an
\* answer of zero bytes is the end of the body.
THEOREM UploadTypeCorrect == Spec => []TypeOK
<1>1. Inv => TypeOK
  BY DEF Inv
<1> QED
  BY <1>1, SpecInv, PTL

\* Whatever the file, the slot and the units, what is erased covers the file and lies
\* in the slot, and no file that fits is turned away.
THEOREM UploadEraseFits == Spec => []EraseFits
<1>1. Inv => EraseFits
  BY DEF Inv, Planned, EraseFits
<1> QED
  BY <1>1, SpecInv, PTL

\* However the body is cut into reads, an upload that comes to its inspection has
\* every byte in its place.
THEOREM UploadFileComplete == Spec => []FileComplete
<1>1. Inv => FileComplete
  BY DEF Inv
<1> QED
  BY <1>1, SpecInv, PTL

\* The faults of the loop say what happened.
THEOREM UploadFaultsTrue == Spec => []FaultsTrue
<1>1. Inv => FaultsTrue
  BY DEF Inv
<1> QED
  BY <1>1, SpecInv, PTL
=============================================================================
