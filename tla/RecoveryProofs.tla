--------------------------- MODULE RecoveryProofs ---------------------------
(***************************************************************************)
(* Theorems about the panic counter in Recovery, for every PANIC_RETRY and *)
(* any number of OTA slots.                                                *)
(***************************************************************************)
EXTENDS Recovery, TLAPS

\* The register holds the panics since it was last cleared, the request once they
\* are more than PANIC_RETRY, or what a power cut left there.
CountsPanics ==
  \/ count \in 0..PanicRetry /\ panics = count
  \/ count = Request /\ panics = PanicRetry + 1
  \/ count = Unset /\ panics = 0

\* The OTA data are erased on request only.
WipesOnRequest == stage = "wipe" => count = Request

CInv == CountsPanics /\ WipesOnRequest

\* The request and a register that was never written are no counts.
LEMMA Values == Request \notin Int /\ Unset \notin Int /\ Request # Unset
BY RecoveryAssumption

\* custom_halt keeps the register in step with the panics.
LEMMA PanicCounts == ASSUME CInv, Panic PROVE CInv'
<1>1. PanicRetry \in Nat \ {0}  BY RecoveryAssumption
<1>2. CASE count \in 0..PanicRetry-1 /\ panics = count
  BY <1>1, <1>2, Values DEF Panic, Halt, CInv, CountsPanics, WipesOnRequest
<1>3. CASE count = PanicRetry /\ panics = count
  BY <1>1, <1>3, Values DEF Panic, Halt, CInv, CountsPanics, WipesOnRequest
<1>4. CASE count = Request /\ panics = PanicRetry + 1
  BY <1>1, <1>4, Values DEF Panic, Halt, CInv, CountsPanics, WipesOnRequest
<1>5. CASE count = Unset /\ panics = 0
  <2>1. Halt(count) = 1
    BY <1>1, <1>5, Values DEF Halt
  <2> QED  BY <1>1, <1>5, <2>1 DEF Panic, CInv, CountsPanics, WipesOnRequest
<1> QED  BY <1>1, <1>2, <1>3, <1>4, <1>5 DEF CInv, CountsPanics

\* The register and the history start together.
LEMMA InitCInv == Init => CInv
BY RecoveryAssumption DEF Init, CInv, CountsPanics, WipesOnRequest

\* Every step keeps them together.
LEMMA NextCInv == CInv /\ [Next]_vars => CInv'
<1> SUFFICES ASSUME CInv, [Next]_vars PROVE CInv'  OBVIOUS
<1> USE DEF CInv, CountsPanics, WipesOnRequest
<1>0. 0 \in 0..PanicRetry  BY RecoveryAssumption
<1>1. CASE Loader             BY <1>1 DEF Loader
<1>2. CASE FactoryRequest     BY <1>2 DEF FactoryRequest, hist
<1>3. CASE FactoryRequestFails  BY <1>3 DEF FactoryRequestFails, hist
<1>4. CASE InitSystem         BY <1>4 DEF InitSystem
<1>5. CASE InitReadFails \/ InitUnchecked \/ InitWithoutTable
  BY <1>5 DEF InitReadFails, InitUnchecked, InitWithoutTable
<1>6. CASE \E i \in 0..OtaSlots : Activate(i)  BY <1>6 DEF Activate
<1>7. CASE FlashOp
  <2>1. CASE Tail(ops) # <<>>  BY <1>7, <2>1 DEF FlashOp, hist
  <2>2. CASE Tail(ops) = <<>>
    <3>1. CASE stage = "wipe"  BY <1>0, <1>7, <2>2, <3>1 DEF FlashOp
    <3>2. CASE stage # "wipe"
      <4>1. stage' # "wipe" /\ UNCHANGED <<count, panics>>
        BY <1>7, <2>2, <3>2 DEF FlashOp, hist
      <4> QED  BY <4>1
    <3> QED  BY <3>1, <3>2
  <2> QED  BY <2>1, <2>2
<1>8. CASE FlashFails         BY <1>8 DEF FlashFails, hist
<1>9. CASE CountdownResets    BY <1>0, <1>9 DEF CountdownResets
<1>10. CASE CountdownGivesUp  BY <1>10 DEF CountdownGivesUp, hist
<1>11. CASE Panic             BY <1>11, PanicCounts
<1>12. CASE PowerCut          BY <1>0, <1>12 DEF PowerCut
<1>13. CASE UNCHANGED vars    BY <1>13 DEF vars, hist
<1> QED
  BY <1>1, <1>2, <1>3, <1>4, <1>5, <1>6, <1>7, <1>8, <1>9, <1>10, <1>11, <1>12, <1>13
     DEF Next, Boot

\* The register is in step with the panics in every reachable state.
THEOREM CounterInvariant == Spec => []CInv
<1> QED  BY InitCInv, NextCInv, PTL DEF Spec

\* After PANIC_RETRY + 1 panics in a row the register holds the request.
THEOREM RecoveryGivesUpInTime == Spec => []GivesUpInTime
<1>1. CInv => GivesUpInTime
  BY RecoveryAssumption DEF CInv, CountsPanics, GivesUpInTime
<1> QED  BY <1>1, CounterInvariant, PTL

\* The OTA data are never erased before that many.
THEOREM RecoveryNeverEarly == Spec => []NeverGivesUpEarly
<1>1. CInv => NeverGivesUpEarly
  BY RecoveryAssumption, Values DEF CInv, CountsPanics, WipesOnRequest, NeverGivesUpEarly
<1> QED  BY <1>1, CounterInvariant, PTL
-----------------------------------------------------------------------------
(* Sequence numbers and the OTA data *)

Sectors == 1..MaxSeq \cup {Blank, Garbage}

\* What the code compares are numbers.
LEMMA NotNumbers ==
  /\ OtaSlots \in Nat \ {0} /\ PanicRetry \in Nat \ {0} /\ MaxSeq \in Nat
  /\ \A n \in Int : n # Blank /\ n # Garbage
  /\ Blank # Garbage
BY RecoveryAssumption

\* What a number leaves over whole rounds of slots.
LEMMA Remainder ==
  ASSUME NEW q \in Nat, NEW n \in Nat \ {0}, NEW j \in Nat, j < n
  PROVE  (q * n + j) % n = j
OBVIOUS

\* A number stands for an OTA slot.
LEMMA SlotOfType ==
  ASSUME NEW n \in Nat \ {0}
  PROVE  SlotOf(n) \in 1..OtaSlots
<1>1. OtaSlots \in Nat \ {0} /\ n - 1 \in Nat
  BY NotNumbers
<1>2. (n - 1) % OtaSlots \in 0..OtaSlots-1
  BY <1>1
<1> QED
  BY <1>1, <1>2 DEF SlotOf

\* Among the next numbers, as many as there are slots, one stands for each slot.
LEMMA NextSeqFound ==
  ASSUME NEW last \in Nat, NEW i \in 1..OtaSlots
  PROVE  NextSeq(last, i) \in last+1..last+OtaSlots /\ SlotOf(NextSeq(last, i)) = i
<1> DEFINE N == OtaSlots
           q == last \div N
           r == last - q * N
<1>1. N \in Nat \ {0} /\ i \in 1..N
  BY NotNumbers
<1>2. q \in Nat /\ r \in 0..N-1 /\ last = q * N + r
  BY <1>1
<1> HIDE DEF N, q, r
<1>3. \E n \in last+1..last+N : (n - 1) % N = i - 1
  <2>1. CASE i - 1 >= r
    <3> DEFINE n == q * N + i
    <3>1. q * N \in Nat /\ n - 1 = q * N + (i - 1) /\ i - 1 \in Nat /\ i - 1 < N
      BY <1>1, <1>2
    <3>2. n \in last+1..last+N
      BY <1>1, <1>2, <2>1, <3>1
    <3>3. (q * N + (i - 1)) % N = i - 1
      BY <1>1, <1>2, <3>1, Remainder
    <3> QED
      BY <3>1, <3>2, <3>3
  <2>2. CASE i - 1 < r
    <3> DEFINE n == (q + 1) * N + i
    <3>1. (q + 1) * N = q * N + N /\ q * N \in Nat
      BY <1>1, <1>2
    <3>2. n - 1 = (q + 1) * N + (i - 1) /\ i - 1 \in Nat /\ i - 1 < N /\ q + 1 \in Nat
      BY <1>1, <1>2, <3>1
    <3>3. n \in last+1..last+N
      BY <1>1, <1>2, <2>2, <3>1
    <3>4. ((q + 1) * N + (i - 1)) % N = i - 1
      BY <1>1, <3>2, Remainder
    <3> QED
      BY <3>2, <3>3, <3>4
  <2> QED
    BY <1>1, <1>2, <2>1, <2>2
<1>4. PICK n \in last+1..last+N : (n - 1) % N = i - 1
  BY <1>3
<1>5. SlotOf(n) = i
  BY <1>1, <1>4 DEF SlotOf, N
<1> QED
  BY <1>4, <1>5 DEF NextSeq, N

\* The number that is not smaller selects.
LEMMA SelectionOf ==
  ASSUME NEW data \in [0..1 -> Sectors], NEW e \in 0..1, data[1 - e] \notin {Blank, Garbage},
         data[e] \notin {Blank, Garbage} => data[e] <= data[1 - e]
  PROVE  Selection(data) = SlotOf(data[1 - e])
<1> DEFINE read == {s \in 0..1 : data[s] \notin {Blank, Garbage}}
           ch == CHOOSE s \in read : \A t \in read : data[s] >= data[t]
<1>1. 1 - e \in read /\ \A t \in read : t = e \/ t = 1 - e
  OBVIOUS
<1>2. \A s \in read : data[s] \in Nat
  BY NotNumbers DEF Sectors
<1>3. \A t \in read : data[1 - e] >= data[t]
  BY <1>1, <1>2
<1>4. ch \in read /\ \A t \in read : data[ch] >= data[t]
  BY <1>1, <1>3
<1>5. data[ch] = data[1 - e]
  BY <1>1, <1>2, <1>3, <1>4
<1>6. read # {}
  BY <1>1
<1>7. Selection(data) = IF read = {} THEN 0 ELSE SlotOf(data[ch])
  BY DEF Selection, Readable
<1> QED
  BY <1>5, <1>6, <1>7

\* Without a number the factory is selected.
LEMMA SelectionNone ==
  ASSUME NEW data \in [0..1 -> Sectors], data[0] \in {Blank, Garbage}, data[1] \in {Blank, Garbage}
  PROVE  Selection(data) = 0
<1>1. {s \in 0..1 : data[s] \notin {Blank, Garbage}} = {}
  OBVIOUS
<1> QED
  BY <1>1 DEF Selection, Readable

\* A slot is selected, or the factory.
LEMMA SelectionType ==
  ASSUME NEW data \in [0..1 -> Sectors]
  PROVE  Selection(data) \in 0..OtaSlots
<1>1. ASSUME NEW e \in 0..1, data[1 - e] \notin {Blank, Garbage},
             data[e] \notin {Blank, Garbage} => data[e] <= data[1 - e]
      PROVE  Selection(data) \in 0..OtaSlots
  <2>1. data[1 - e] \in Nat \ {0}
    BY <1>1, NotNumbers DEF Sectors
  <2> QED
    BY <1>1, <2>1, SelectionOf, SlotOfType, NotNumbers
<1>2. CASE data[0] \in {Blank, Garbage} /\ data[1] \in {Blank, Garbage}
  BY <1>2, SelectionNone, NotNumbers
<1>3. CASE data[0] \notin {Blank, Garbage} /\ data[1] \in {Blank, Garbage}
  BY <1>1, <1>3
<1>4. CASE data[0] \in {Blank, Garbage} /\ data[1] \notin {Blank, Garbage}
  BY <1>1, <1>4
<1>5. CASE data[0] \notin {Blank, Garbage} /\ data[1] \notin {Blank, Garbage}
  <2>1. data[0] \in Nat /\ data[1] \in Nat
    BY <1>5, NotNumbers DEF Sectors
  <2>2. data[0] <= data[1] \/ data[1] <= data[0]
    BY <2>1
  <2> QED
    BY <1>1, <1>5, <2>2
<1> QED
  BY <1>2, <1>3, <1>4, <1>5

\* What one sector selects when nothing can be read in the other.
Alone(sector) == IF Readable(sector) THEN SlotOf(sector) ELSE 0

\* A sector that is erased or spoiled leaves the selection to the other one.
LEMMA AloneSelects ==
  ASSUME NEW data \in [0..1 -> Sectors], NEW e \in 0..1, NEW w \in {Blank, Garbage}
  PROVE  Selection([data EXCEPT ![e] = w]) = Alone(data[1 - e])
<1> DEFINE new == [data EXCEPT ![e] = w]
<1>1. new \in [0..1 -> Sectors] /\ new[e] = w /\ new[1 - e] = data[1 - e]
  BY DEF Sectors
<1> HIDE DEF new
<1>2. CASE Readable(data[1 - e])
  <2>1. Selection(new) = SlotOf(new[1 - e])
    BY <1>1, <1>2, SelectionOf DEF Readable
  <2> QED
    BY <1>1, <1>2, <2>1 DEF Alone, new
<1>3. CASE ~Readable(data[1 - e])
  <2>1. new[0] \in {Blank, Garbage} /\ new[1] \in {Blank, Garbage}
    BY <1>1, <1>3 DEF Readable
  <2>2. Selection(new) = 0
    BY <1>1, <2>1, SelectionNone
  <2> QED
    BY <1>3, <2>2 DEF Alone, new
<1> QED
  BY <1>2, <1>3

\* The sector that is not spare selects what both select, if it can be read or both can.
LEMMA SpareKeeps ==
  ASSUME NEW data \in [0..1 -> Sectors], NEW e \in Spare(data)
  PROVE  /\ e \in 0..1
         /\ Readable(data[1 - e]) => Selection(data) = SlotOf(data[1 - e])
         /\ Garbage \notin {data[0], data[1]} => Selection(data) = Alone(data[1 - e])
<1>1. /\ e \in 0..1
      /\ Readable(data[1 - e]) /\ Readable(data[e]) => data[e] <= data[1 - e]
      /\ Garbage \notin {data[0], data[1]} /\ ~Readable(data[1 - e]) => data[e] = Blank
  <2>1. \A s \in 0..1 : Readable(data[s]) => data[s] \in Nat
    BY NotNumbers DEF Readable, Sectors
  <2> QED
    BY <2>1 DEF Spare, Readable
<1>2. Readable(data[1 - e]) => Selection(data) = SlotOf(data[1 - e])
  BY <1>1, SelectionOf DEF Readable
<1>3. ASSUME Garbage \notin {data[0], data[1]}
      PROVE  Selection(data) = Alone(data[1 - e])
  <2>1. CASE Readable(data[1 - e])
    BY <1>2, <2>1 DEF Alone
  <2>2. CASE ~Readable(data[1 - e])
    <3>1. data[0] = Blank /\ data[1] = Blank
      BY <1>1, <1>3, <2>2 DEF Readable
    <3>2. Selection(data) = 0
      BY <3>1, SelectionNone
    <3> QED
      BY <2>2, <3>2 DEF Alone
  <2> QED
    BY <2>1, <2>2
<1> QED
  BY <1>1, <1>2, <1>3

\* v is newer than the entry of the other sector.
Newer(data, e, v) == Readable(data[1 - e]) => v > data[1 - e]

\* The entry that is written selects its slot.
LEMMA EntrySelects ==
  ASSUME NEW data \in [0..1 -> Sectors], NEW e \in 0..1, NEW v \in 1..MaxSeq,
         Newer(data, e, v)
  PROVE  Selection([data EXCEPT ![e] = v]) = SlotOf(v)
<1> DEFINE new == [data EXCEPT ![e] = v]
           f == 1 - e
<1>1. new \in [0..1 -> Sectors] /\ f \in 0..1 /\ 1 - f = e
  BY DEF Sectors
<1>2. new[1 - f] = v /\ new[f] = data[f]
  OBVIOUS
<1>3. v \notin {Blank, Garbage} /\ v \in Nat
  BY NotNumbers
<1>4. new[f] \notin {Blank, Garbage} => new[f] <= v
  <2>1. new[f] \notin {Blank, Garbage} => new[f] \in Nat
    BY <1>1, NotNumbers DEF Sectors
  <2> QED
    BY <1>2, <1>3, <2>1 DEF Newer, Readable
<1> HIDE DEF new, f
<1>5. Selection(new) = SlotOf(new[1 - f])
  BY <1>1, <1>2, <1>3, <1>4, SelectionOf
<1> QED
  BY <1>2, <1>5 DEF new

Write(e, k) == [at |-> e, value |-> k]

\* activate erases the spare sector e; it writes the state of the other entry if that
\* stands for the slot already, or else a newer number that does, and its state.
LEMMA SwitchOpsPlan ==
  ASSUME NEW i \in 1..OtaSlots, ota \in [0..1 -> Sectors], NEW e \in 0..1,
         \A n \in DOMAIN SwitchOps(i, e) : SwitchOps(i, e)[n].value \in {Blank} \cup 1..MaxSeq
  PROVE  \/ /\ Readable(ota[1 - e]) /\ SlotOf(ota[1 - e]) = i
            /\ SwitchOps(i, e) = <<Erase(e), Write(1 - e, ota[1 - e])>>
         \/ \E v \in 1..MaxSeq :
              /\ SlotOf(v) = i /\ Newer(ota, e, v)
              /\ SwitchOps(i, e) = <<Erase(e), Write(e, v), Write(e, v)>>
<1> DEFINE kept == ota[1 - e]
           last == Number(kept)
           v == NextSeq(last, i)
<1>1. i # 0
  BY NotNumbers
<1>2. SwitchOps(i, e) = IF Readable(kept) /\ SlotOf(kept) = i
                        THEN <<Erase(e), Write(1 - e, kept)>>
                        ELSE <<Erase(e), Write(e, v), Write(e, v)>>
  BY <1>1 DEF SwitchOps, Write
<1>3. last \in Nat /\ (Readable(kept) => last = kept)
  <2>1. Readable(kept) => kept \in Nat
    BY NotNumbers DEF Readable, Sectors
  <2> QED
    BY <2>1 DEF Number
<1> HIDE DEF kept, last
<1>4. v \in last+1..last+OtaSlots /\ SlotOf(v) = i
  BY <1>3, NextSeqFound
<1> HIDE DEF v
<1>5. CASE Readable(kept) /\ SlotOf(kept) = i
  BY <1>2, <1>5 DEF kept
<1>6. CASE ~(Readable(kept) /\ SlotOf(kept) = i)
  <2>1. SwitchOps(i, e) = <<Erase(e), Write(e, v), Write(e, v)>>
    BY <1>2, <1>6
  <2>2. 2 \in DOMAIN SwitchOps(i, e) /\ SwitchOps(i, e)[2].value = v
    BY <2>1 DEF Write
  <2>3. v \in {Blank} \cup 1..MaxSeq
    BY <2>2
  <2>4. v \in 1..MaxSeq
    BY <1>3, <1>4, <2>3, NotNumbers
  <2>5. Newer(ota, e, v)
    BY <1>3, <1>4, NotNumbers DEF Newer, kept
  <2> QED
    BY <1>4, <2>1, <2>4, <2>5
<1> QED
  BY <1>5, <1>6
-----------------------------------------------------------------------------
(* The invariant of the OTA data *)

\* What TypeOK says of all but the register and its history.
DataTyped ==
  /\ ota \in [0..1 -> Sectors]
  /\ running \in 0..OtaSlots /\ target \in 0..OtaSlots /\ old \in 0..OtaSlots
  /\ stage \in Stages /\ usable \in BOOLEAN /\ checked \in BOOLEAN
  /\ fresh \in BOOLEAN /\ cut \in BOOLEAN
  /\ (ops # <<>>) <=> stage \in {"wipe", "repair", "switch"}

\* Both sectors are still to be erased, or the second one is.
Erasing ==
  \/ ops = EraseAll
  \/ ota[0] = Blank /\ ops = <<Erase(1)>>

\* What may be selected while an OTA slot is being selected.
Allowed(slot) == slot \in {old, target} \/ (slot = 0 /\ (target = old \/ ~checked))

\* What an entry k in sector e does, and the other sector if this one is lost.
Selects(e, k) ==
  SlotOf(k) = target /\ Newer(ota, e, k) /\ Allowed(Alone(ota[1 - e]))

\* The slot is selected already: the spare sector is to be erased, and the state of the
\* other one written.
Reselecting ==
  \E e \in 0..1, k \in 1..MaxSeq :
    /\ SlotOf(k) = target /\ target = old /\ ota[1 - e] = k
    /\ ops = <<Erase(e), Write(1 - e, k)>>

\* The spare sector is to be erased, and the number and the state of a new entry written.
Starting ==
  \E e \in 0..1, k \in 1..MaxSeq :
    Selects(e, k) /\ ops = <<Erase(e), Write(e, k), Write(e, k)>>

\* The spare sector is erased.
Halfway ==
  \E e \in 0..1, k \in 1..MaxSeq :
    Selects(e, k) /\ ota[e] = Blank /\ ops = <<Write(e, k), Write(e, k)>>

\* The number is there, and its state is to be written.
Finishing ==
  \E e \in 0..1, k \in 1..MaxSeq :
    Selects(e, k) /\ ota[e] = k /\ ops = <<Write(e, k)>>

Switching == Allowed(Selection(ota)) /\ (Reselecting \/ Starting \/ Halfway \/ Finishing)

BothReadable == Garbage \notin {ota[0], ota[1]}

\* What is left to do in a stage.
OpsOfStage ==
  /\ stage \in {"wipe", "repair"} => Erasing
  /\ stage = "switch" => (target = 0 => Erasing) /\ (target # 0 => Switching)

\* What System::init has checked can be read from then on.
StaysReadable == stage \in {"run", "switch", "count"} /\ usable /\ checked => BothReadable

DataInv == DataTyped /\ OpsOfStage /\ StaysReadable /\ CountdownMeansSwitched

\* The first of one operation, of two, and of three.
LEMMA HeadAndTail ==
  ASSUME NEW a, NEW b, NEW c
  PROVE  /\ Head(<<a>>) = a /\ Tail(<<a>>) = <<>> /\ <<a>> # <<>>
         /\ Head(<<a, b>>) = a /\ Tail(<<a, b>>) = <<b>> /\ <<a, b>> # <<>>
         /\ Head(<<a, b, c>>) = a /\ Tail(<<a, b, c>>) = <<b, c>> /\ <<a, b, c>> # <<>>
OBVIOUS

\* The two operations of an erase.
LEMMA EraseAllParts ==
  /\ Head(EraseAll) = Erase(0) /\ Tail(EraseAll) = <<Erase(1)>>
  /\ EraseAll # <<>> /\ Tail(EraseAll) # <<>>
BY DEF EraseAll

\* What the sector in hand may lose, the selection may.
LEMMA SpareInHand ==
  ASSUME ota \in [0..1 -> Sectors], Switching, NEW w \in {Blank, Garbage}
  PROVE  Allowed(Selection([ota EXCEPT ![Head(ops).at] = w]))
<1>1. ASSUME NEW e \in 0..1, Allowed(Alone(ota[1 - e])), Head(ops).at = e
      PROVE  Allowed(Selection([ota EXCEPT ![Head(ops).at] = w]))
  <2>1. Selection([ota EXCEPT ![e] = w]) = Alone(ota[1 - e])
    BY AloneSelects
  <2>2. Allowed(Selection([ota EXCEPT ![e] = w]))
    BY <1>1, <2>1
  <2> QED
    BY <1>1, <2>2, Zenon
<1>2. CASE Reselecting
  <2>1. PICK e \in 0..1, k \in 1..MaxSeq :
          /\ SlotOf(k) = target /\ ota[1 - e] = k /\ ops = <<Erase(e), Write(1 - e, k)>>
    BY <1>2 DEF Reselecting
  <2>2. Head(ops) = Erase(e)
    BY <2>1, HeadAndTail
  <2>3. Readable(k)
    BY NotNumbers DEF Readable
  <2>4. Allowed(Alone(ota[1 - e]))
    BY <2>1, <2>3 DEF Alone, Allowed
  <2> QED
    BY <1>1, <2>2, <2>4 DEF Erase
<1>3. CASE Starting
  <2>1. PICK e \in 0..1, k \in 1..MaxSeq :
          Selects(e, k) /\ ops = <<Erase(e), Write(e, k), Write(e, k)>>
    BY <1>3 DEF Starting
  <2>2. Head(ops) = Erase(e)
    BY <2>1, HeadAndTail
  <2> QED
    BY <1>1, <2>1, <2>2 DEF Erase, Selects
<1>4. CASE Halfway \/ Finishing
  <2>1. PICK e \in 0..1, k \in 1..MaxSeq :
          /\ Selects(e, k)
          /\ ops = <<Write(e, k), Write(e, k)>> \/ ops = <<Write(e, k)>>
    BY <1>4 DEF Halfway, Finishing
  <2>2. Head(ops) = Write(e, k)
    BY <2>1, HeadAndTail
  <2> QED
    BY <1>1, <2>1, <2>2 DEF Write, Selects
<1> QED
  BY <1>2, <1>3, <1>4 DEF Switching

\* What one operation does to the sectors.
LEMMA OpWrites ==
  ASSUME NEW e \in 0..1, NEW w \in Sectors, ota \in [0..1 -> Sectors],
         NEW op, op = [at |-> e, value |-> w], ota' = [ota EXCEPT ![op.at] = op.value]
  PROVE  /\ ota' = [ota EXCEPT ![e] = w] /\ ota' \in [0..1 -> Sectors]
         /\ ota'[e] = w /\ ota'[1 - e] = ota[1 - e]
<1>1. op.at = e /\ op.value = w
  OBVIOUS
<1>2. ota' = [ota EXCEPT ![e] = w]
  BY <1>1, Zenon
<1>3. \A x \in 0..1 : ota'[x] = IF x = e THEN w ELSE ota[x]
  BY <1>2
<1>4. ota' \in [0..1 -> Sectors]
  BY <1>2
<1>5. 1 - e \in 0..1 /\ 1 - e # e
  OBVIOUS
<1> QED
  BY <1>2, <1>3, <1>4, <1>5

\* An erase goes on with the second sector, or has left both blank.
LEMMA EraseGoesOn ==
  ASSUME DataTyped, Erasing, ota' = [ota EXCEPT ![Head(ops).at] = Head(ops).value],
         ops' = Tail(ops)
  PROVE  /\ ota' \in [0..1 -> Sectors]
         /\ Tail(ops) # <<>> => Erasing' /\ (BothReadable => BothReadable')
         /\ Tail(ops) = <<>> => ota'[0] = Blank /\ ota'[1] = Blank
<1>1. ota \in [0..1 -> Sectors] /\ Blank \in Sectors /\ Blank # Garbage
  BY NotNumbers DEF DataTyped, Sectors
<1>2. CASE ops = EraseAll
  <2>1. /\ Head(ops) = Erase(0)
        /\ ops' = <<Erase(1)>> /\ Tail(ops) # <<>>
    BY <1>2, EraseAllParts
  <2>2. ota' \in [0..1 -> Sectors] /\ ota'[0] = Blank /\ ota'[1 - 0] = ota[1 - 0]
    BY <1>1, <2>1, OpWrites DEF Erase
  <2>3. ota'[0] = Blank /\ ota'[1] = ota[1]
    BY <2>2
  <2>4. Erasing'
    BY <2>1, <2>3 DEF Erasing
  <2>5. BothReadable => BothReadable'
    BY <1>1, <2>3 DEF BothReadable
  <2> QED
    BY <2>1, <2>2, <2>4, <2>5
<1>3. CASE ota[0] = Blank /\ ops = <<Erase(1)>>
  <2>1. Head(ops) = Erase(1) /\ Tail(ops) = <<>>
    BY <1>3, HeadAndTail
  <2>2. ota' \in [0..1 -> Sectors] /\ ota'[1] = Blank /\ ota'[1 - 1] = ota[1 - 1]
    BY <1>1, <2>1, OpWrites DEF Erase
  <2> QED
    BY <1>3, <2>1, <2>2
<1> QED
  BY <1>2, <1>3 DEF Erasing

\* A switch goes on with its entry, or has selected the target.
LEMMA SwitchGoesOn ==
  ASSUME ota \in [0..1 -> Sectors], Switching,
         ota' = [ota EXCEPT ![Head(ops).at] = Head(ops).value], ops' = Tail(ops),
         UNCHANGED <<target, old, checked>>
  PROVE  /\ ota' \in [0..1 -> Sectors] /\ (BothReadable => BothReadable')
         /\ Allowed(Selection(ota'))
         /\ Tail(ops) # <<>> => Switching'
         /\ Tail(ops) = <<>> => Selection(ota') = target
<1>1. Blank \in Sectors /\ Blank # Garbage /\ \A v \in 1..MaxSeq : v \in Sectors /\ v # Garbage
  BY NotNumbers DEF Sectors
<1>2. \A w \in {Blank, Garbage} : Allowed(Selection([ota EXCEPT ![Head(ops).at] = w]))
  BY SpareInHand
<1>3. ASSUME NEW e \in 0..1, NEW w \in Sectors \ {Garbage}, Head(ops) = Write(e, w)
      PROVE  /\ ota' = [ota EXCEPT ![e] = w] /\ ota' \in [0..1 -> Sectors]
             /\ BothReadable => BothReadable'
             /\ ota'[e] = w /\ ota'[1 - e] = ota[1 - e]
             /\ w = Blank => Allowed(Selection(ota'))
  <2>1. /\ ota' = [ota EXCEPT ![e] = w] /\ ota' \in [0..1 -> Sectors]
        /\ ota'[e] = w /\ ota'[1 - e] = ota[1 - e]
    BY <1>3, OpWrites DEF Write
  <2>2. BothReadable => BothReadable'
    BY <2>1 DEF BothReadable
  <2>3. w = Blank => Allowed(Selection(ota'))
    <3>1. Head(ops).at = e /\ Head(ops).value = w
      BY <1>3 DEF Write
    <3>2. w = Blank => Allowed(Selection([ota EXCEPT ![Head(ops).at] = Head(ops).value]))
      BY <1>2, <3>1
    <3> QED
      BY <3>2
  <2> QED
    BY <2>1, <2>2, <2>3
<1>4. \A e : Erase(e) = Write(e, Blank)
  BY DEF Erase, Write
<1>5. CASE Reselecting
  <2>1. PICK e \in 0..1, k \in 1..MaxSeq :
          /\ SlotOf(k) = target /\ target = old /\ ota[1 - e] = k
          /\ ops = <<Erase(e), Write(1 - e, k)>>
    BY <1>5 DEF Reselecting
  <2>2. Head(ops) = Write(e, Blank) /\ ops' = <<Write(1 - e, k)>> /\ Tail(ops) # <<>>
    BY <1>4, <2>1, HeadAndTail
  <2>3. /\ ota' = [ota EXCEPT ![e] = Blank] /\ ota' \in [0..1 -> Sectors]
        /\ BothReadable => BothReadable'
        /\ ota'[e] = Blank /\ ota'[1 - e] = k /\ Allowed(Selection(ota'))
    BY <1>1, <1>3, <2>1, <2>2
  <2>4. Finishing'
    <3> DEFINE f == 1 - e
    <3>1. f \in 0..1 /\ 1 - f = e
      OBVIOUS
    <3>2. ota'[f] = k /\ ota'[1 - f] = Blank /\ ops' = <<Write(f, k)>>
      BY <2>2, <2>3, <3>1
    <3> HIDE DEF f
    <3>3. Selects(f, k)'
      BY <2>1, <3>2 DEF Selects, Newer, Alone, Readable, Allowed
    <3> QED
      BY <3>1, <3>2, <3>3 DEF Finishing
  <2>5. Switching'
    BY <2>3, <2>4 DEF Switching, Allowed
  <2> QED
    BY <2>2, <2>3, <2>5
<1>6. CASE Starting
  <2>1. PICK e \in 0..1, k \in 1..MaxSeq :
          Selects(e, k) /\ ops = <<Erase(e), Write(e, k), Write(e, k)>>
    BY <1>6 DEF Starting
  <2>2. Head(ops) = Write(e, Blank) /\ ops' = <<Write(e, k), Write(e, k)>> /\ Tail(ops) # <<>>
    BY <1>4, <2>1, HeadAndTail
  <2>3. /\ ota' = [ota EXCEPT ![e] = Blank] /\ ota' \in [0..1 -> Sectors]
        /\ BothReadable => BothReadable'
        /\ ota'[e] = Blank /\ ota'[1 - e] = ota[1 - e] /\ Allowed(Selection(ota'))
    BY <1>1, <1>3, <2>2
  <2>4. Selects(e, k)'
    BY <2>1, <2>3 DEF Selects, Newer, Allowed
  <2>5. Switching'
    BY <2>2, <2>3, <2>4 DEF Switching, Halfway, Allowed
  <2> QED
    BY <2>2, <2>3, <2>5
<1>7. CASE Halfway
  <2>1. PICK e \in 0..1, k \in 1..MaxSeq :
          Selects(e, k) /\ ops = <<Write(e, k), Write(e, k)>>
    BY <1>7 DEF Halfway
  <2>2. Head(ops) = Write(e, k) /\ ops' = <<Write(e, k)>> /\ Tail(ops) # <<>>
    BY <2>1, HeadAndTail
  <2>3. /\ ota' = [ota EXCEPT ![e] = k] /\ ota' \in [0..1 -> Sectors]
        /\ BothReadable => BothReadable'
        /\ ota'[e] = k /\ ota'[1 - e] = ota[1 - e]
    BY <1>1, <1>3, <2>2
  <2>4. Selection([ota EXCEPT ![e] = k]) = SlotOf(k)
    BY <2>1, EntrySelects DEF Selects
  <2>5. Selection(ota') = target
    BY <2>1, <2>3, <2>4 DEF Selects
  <2>6. Selects(e, k)'
    BY <2>1, <2>3 DEF Selects, Newer, Allowed
  <2>7. Switching'
    BY <2>2, <2>3, <2>5, <2>6 DEF Switching, Finishing, Allowed
  <2> QED
    BY <2>2, <2>3, <2>5, <2>7 DEF Allowed
<1>8. CASE Finishing
  <2>1. PICK e \in 0..1, k \in 1..MaxSeq :
          Selects(e, k) /\ ota[e] = k /\ ops = <<Write(e, k)>>
    BY <1>8 DEF Finishing
  <2>2. Head(ops) = Write(e, k) /\ Tail(ops) = <<>>
    BY <2>1, HeadAndTail
  <2>3. /\ ota' = [ota EXCEPT ![e] = k] /\ ota' \in [0..1 -> Sectors]
        /\ BothReadable => BothReadable'
    BY <1>1, <1>3, <2>2
  <2>4. Selection([ota EXCEPT ![e] = k]) = SlotOf(k)
    BY <2>1, EntrySelects DEF Selects
  <2>5. Selection(ota') = target
    BY <2>1, <2>3, <2>4 DEF Selects
  <2> QED
    BY <2>2, <2>3, <2>5 DEF Allowed
<1> QED
  BY <1>5, <1>6, <1>7, <1>8 DEF Switching

\* Before the first boot nothing can be read and nothing is selected.
LEMMA InitDataInv == Init => DataInv
<1> SUFFICES ASSUME Init PROVE DataInv
  OBVIOUS
<1>1. DataTyped
  BY NotNumbers DEF Init, DataTyped, Sectors, Stages
<1> QED
  BY <1>1 DEF Init, DataInv, OpsOfStage, StaysReadable, CountdownMeansSwitched

\* What leaves the activation alone and enters no stage with work.
LEMMA QuietDataInv ==
  ASSUME DataInv, ota' \in [0..1 -> Sectors], UNCHANGED target, old' \in 0..OtaSlots,
         running' \in 0..OtaSlots, usable' \in BOOLEAN, checked' \in BOOLEAN,
         fresh' \in BOOLEAN, cut' \in BOOLEAN,
         ops' = <<>>, stage' \in {"loader", "request", "init", "run"},
         stage' = "run" /\ usable' /\ checked' => BothReadable'
  PROVE  DataInv'
<1>1. DataTyped'
  BY DEF DataInv, DataTyped, Stages
<1> QED
  BY <1>1 DEF DataInv, OpsOfStage, StaysReadable, CountdownMeansSwitched

\* A stage without work, and what the sectors hold there.
LEMMA Resting ==
  ASSUME DataInv
  PROVE  /\ stage \in {"loader", "request", "init", "run", "count"} => ops = <<>>
         /\ ops # <<>> => stage \in {"wipe", "repair", "switch"}
  BY DEF DataInv, DataTyped

\* An erase is begun.
LEMMA EraseBegins ==
  ASSUME DataInv, UNCHANGED <<ota, target, old, running, fresh, cut>>, usable' \in BOOLEAN,
         checked' \in BOOLEAN, stage' \in {"wipe", "repair"}, ops' = EraseAll
  PROVE  DataInv'
<1>1. DataTyped'
  BY EraseAllParts DEF DataInv, DataTyped, Stages
<1> QED
  BY <1>1 DEF DataInv, OpsOfStage, Erasing, StaysReadable, CountdownMeansSwitched

\* What System::init finds of the OTA data, and what it does about it.
LEMMA InitSystemDataInv ==
  DataInv /\ (InitSystem \/ InitReadFails \/ InitUnchecked \/ InitWithoutTable) => DataInv'
<1> SUFFICES ASSUME DataInv, InitSystem \/ InitReadFails \/ InitUnchecked \/ InitWithoutTable
             PROVE  DataInv'
  OBVIOUS
<1>1. DataTyped
  BY DEF DataInv
<1>2. CASE InitSystem
  <2>1. CASE Garbage \in {ota[0], ota[1]}
    BY <1>1, <1>2, <2>1, EraseBegins DEF InitSystem, DataTyped
  <2>2. CASE Garbage \notin {ota[0], ota[1]}
    <3>1. BothReadable'
      BY <1>2, <2>2 DEF InitSystem, BothReadable
    <3> QED
      BY <1>1, <1>2, <2>2, <3>1, QuietDataInv, Resting DEF InitSystem, DataTyped
  <2> QED
    BY <2>1, <2>2
<1>3. CASE InitReadFails
  BY <1>1, <1>3, EraseBegins DEF InitReadFails, DataTyped
<1>4. CASE InitUnchecked
  BY <1>1, <1>4, QuietDataInv, Resting DEF InitUnchecked, DataTyped
<1>5. CASE InitWithoutTable
  BY <1>1, <1>5, QuietDataInv, Resting DEF InitWithoutTable, DataTyped
<1> QED
  BY <1>2, <1>3, <1>4, <1>5

\* The steps of the boot before that.
LEMMA BootDataInv == DataInv /\ (Loader \/ FactoryRequest \/ FactoryRequestFails) => DataInv'
<1> SUFFICES ASSUME DataInv, Loader \/ FactoryRequest \/ FactoryRequestFails PROVE DataInv'
  OBVIOUS
<1>1. DataTyped
  BY DEF DataInv
<1>2. CASE Loader
  <2>1. running' \in 0..OtaSlots
    <3>1. Selection(ota) \in 0..OtaSlots /\ 0 \in 0..OtaSlots
      BY <1>1, SelectionType, NotNumbers DEF DataTyped
    <3> QED
      BY <1>2, <3>1 DEF Loader
  <2> QED
    BY <1>1, <1>2, <2>1, QuietDataInv, Resting DEF Loader, DataTyped
<1>3. CASE FactoryRequest
  <2>1. CASE count = Request
    BY <1>1, <1>3, <2>1, EraseBegins DEF FactoryRequest, DataTyped, hist
  <2>2. CASE count # Request
    BY <1>1, <1>3, <2>2, QuietDataInv, Resting DEF FactoryRequest, DataTyped, hist
  <2> QED
    BY <2>1, <2>2
<1>4. CASE FactoryRequestFails
  BY <1>1, <1>4, QuietDataInv, Resting DEF FactoryRequestFails, DataTyped, hist
<1> QED
  BY <1>2, <1>3, <1>4

\* An activation plans its operations.
LEMMA ActivateDataInv ==
  ASSUME DataInv, NEW i \in 0..OtaSlots, Activate(i)
  PROVE  DataInv'
<1>1. /\ ota \in [0..1 -> Sectors] /\ OtaSlots \in Nat
      /\ stage = "run" /\ usable /\ stage' = "switch" /\ target' = i /\ old' = Selection(ota)
      /\ UNCHANGED <<ota, running, usable, checked, fresh, cut>>
  BY NotNumbers DEF DataInv, DataTyped, Activate
<1>2. PICK e \in Spare(ota) :
        /\ \A n \in DOMAIN SwitchOps(i, e) : SwitchOps(i, e)[n].value \in {Blank} \cup 1..MaxSeq
        /\ ops' = SwitchOps(i, e)
  BY DEF Activate
<1>3. StaysReadable'
  BY <1>1 DEF DataInv, StaysReadable, BothReadable
<1>4. Selection(ota) \in 0..OtaSlots
  BY <1>1, SelectionType
<1>5. CASE i = 0
  <2>1. ops' = EraseAll
    BY <1>2, <1>5 DEF SwitchOps
  <2>2. DataTyped'
    BY <1>1, <1>4, <2>1, EraseAllParts DEF DataInv, DataTyped, Stages
  <2> QED
    BY <1>1, <1>3, <1>5, <2>1, <2>2 DEF DataInv, OpsOfStage, Erasing, CountdownMeansSwitched
<1>6. CASE i # 0
  <2>1. i \in 1..OtaSlots
    BY <1>1, <1>6
  <2>2. /\ e \in 0..1
        /\ Readable(ota[1 - e]) => Selection(ota) = SlotOf(ota[1 - e])
        /\ Garbage \notin {ota[0], ota[1]} => Selection(ota) = Alone(ota[1 - e])
    BY <1>1, SpareKeeps
  <2>3. checked => Garbage \notin {ota[0], ota[1]}
    BY <1>1 DEF DataInv, StaysReadable, BothReadable
  <2>4. Alone(ota[1 - e]) = Selection(ota) \/ (Alone(ota[1 - e]) = 0 /\ ~checked)
    BY <1>1, <2>2, <2>3 DEF Alone, DataInv, DataTyped
  <2>5. /\ ops' # <<>>
        /\ Reselecting' \/ Starting'
    <3>1. CASE /\ Readable(ota[1 - e]) /\ SlotOf(ota[1 - e]) = i
               /\ SwitchOps(i, e) = <<Erase(e), Write(1 - e, ota[1 - e])>>
      <4> DEFINE k == ota[1 - e]
      <4>1. 1 - e \in 0..1
        BY <2>2
      <4>2. k \in 1..MaxSeq
        BY <1>1, <3>1, <4>1 DEF Readable, Sectors
      <4>3. /\ SlotOf(k) = target' /\ target' = old' /\ ota'[1 - e] = k
            /\ ops' = <<Erase(e), Write(1 - e, k)>>
        BY <1>1, <1>2, <2>2, <3>1
      <4> HIDE DEF k
      <4>4. Reselecting'
        BY <2>2, <4>2, <4>3 DEF Reselecting
      <4> QED
        BY <4>3, <4>4, HeadAndTail
    <3>2. CASE \E v \in 1..MaxSeq :
                 /\ SlotOf(v) = i /\ Newer(ota, e, v)
                 /\ SwitchOps(i, e) = <<Erase(e), Write(e, v), Write(e, v)>>
      <4>1. PICK v \in 1..MaxSeq :
                 /\ SlotOf(v) = i /\ Newer(ota, e, v)
                 /\ SwitchOps(i, e) = <<Erase(e), Write(e, v), Write(e, v)>>
        BY <3>2
      <4>2. ops' = <<Erase(e), Write(e, v), Write(e, v)>>
        BY <1>2, <4>1
      <4>3. Selects(e, v)'
        BY <1>1, <2>4, <4>1 DEF Selects, Newer, Allowed
      <4>4. Starting'
        BY <2>2, <4>2, <4>3 DEF Starting
      <4> QED
        BY <4>2, <4>4, HeadAndTail
    <3> QED
      BY <1>1, <1>2, <2>1, <2>2, <3>1, <3>2, SwitchOpsPlan
  <2>6. Switching'
    BY <1>1, <2>5 DEF Switching, Allowed
  <2>7. DataTyped'
    BY <1>1, <1>4, <2>5 DEF DataInv, DataTyped, Stages
  <2> QED
    BY <1>1, <1>3, <1>6, <2>6, <2>7 DEF DataInv, OpsOfStage, CountdownMeansSwitched
<1> QED
  BY <1>5, <1>6

\* An operation succeeds.
LEMMA FlashOpDataInv == DataInv /\ FlashOp => DataInv'
<1> SUFFICES ASSUME DataInv, FlashOp PROVE DataInv'
  OBVIOUS
<1>1. /\ DataTyped /\ ops # <<>>
      /\ ota' = [ota EXCEPT ![Head(ops).at] = Head(ops).value] /\ ops' = Tail(ops)
      /\ UNCHANGED <<running, target, usable, checked, old, cut>>
      /\ Blank # Garbage
  BY NotNumbers DEF DataInv, FlashOp, hist
<1>2. fresh' \in BOOLEAN
  BY <1>1 DEF FlashOp, hist, DataTyped
<1>3. stage \in {"wipe", "repair", "switch"}
  BY <1>1, Resting
<1>4. CASE Tail(ops) # <<>>
  <2>1. stage' = stage /\ ops' # <<>>
    BY <1>1, <1>4 DEF FlashOp
  <2>2. ASSUME ota' \in [0..1 -> Sectors], BothReadable => BothReadable',
               IF stage \in {"wipe", "repair"} \/ target = 0 THEN Erasing' ELSE Switching'
        PROVE  DataInv'
    <3>1. DataTyped'
      BY <1>1, <1>2, <2>1, <2>2 DEF DataTyped
    <3>2. OpsOfStage'
      BY <1>1, <1>3, <2>1, <2>2 DEF OpsOfStage
    <3>3. StaysReadable' /\ CountdownMeansSwitched'
      BY <1>1, <1>3, <2>1, <2>2 DEF DataInv, StaysReadable, CountdownMeansSwitched
    <3> QED
      BY <3>1, <3>2, <3>3 DEF DataInv
  <2>3. CASE stage \in {"wipe", "repair"} \/ target = 0
    <3>1. Erasing
      BY <1>3, <2>3 DEF DataInv, OpsOfStage
    <3>2. ota' \in [0..1 -> Sectors] /\ Erasing' /\ (BothReadable => BothReadable')
      BY <1>1, <1>4, <3>1, EraseGoesOn
    <3> QED
      BY <2>2, <2>3, <3>2
  <2>4. CASE stage = "switch" /\ target # 0
    <3>1. Switching
      BY <2>4 DEF DataInv, OpsOfStage
    <3>2. ota' \in [0..1 -> Sectors] /\ Switching' /\ (BothReadable => BothReadable')
      BY <1>1, <1>4, <3>1, SwitchGoesOn DEF DataTyped
    <3> QED
      BY <2>2, <2>4, <3>2
  <2> QED
    BY <1>3, <2>3, <2>4
<1>5. CASE Tail(ops) = <<>>
  <2>1. /\ stage' = IF stage = "wipe" THEN "loader"
                    ELSE IF stage = "repair" THEN "run" ELSE "count"
        /\ ops' = <<>>
    BY <1>1, <1>3, <1>5 DEF FlashOp
  <2>2. ASSUME ota' \in [0..1 -> Sectors],
               stage = "switch" => Selection(ota') = target /\ (BothReadable => BothReadable'),
               stage = "repair" => BothReadable'
        PROVE  DataInv'
    <3>1. DataTyped'
      BY <1>1, <1>2, <1>3, <2>1, <2>2 DEF DataTyped, Stages
    <3>2. OpsOfStage' /\ CountdownMeansSwitched'
      BY <1>1, <1>3, <2>1, <2>2 DEF OpsOfStage, CountdownMeansSwitched
    <3>3. StaysReadable'
      BY <1>1, <1>3, <2>1, <2>2 DEF DataInv, StaysReadable
    <3> QED
      BY <3>1, <3>2, <3>3 DEF DataInv
  <2>3. CASE stage \in {"wipe", "repair"} \/ target = 0
    <3>1. Erasing
      BY <1>3, <2>3 DEF DataInv, OpsOfStage
    <3>2. ota' \in [0..1 -> Sectors] /\ ota'[0] = Blank /\ ota'[1] = Blank
      BY <1>1, <1>5, <3>1, EraseGoesOn
    <3>3. BothReadable'
      BY <1>1, <3>2 DEF BothReadable
    <3>4. Selection(ota') = 0
      BY <3>2, SelectionNone
    <3> QED
      BY <1>3, <2>2, <2>3, <3>2, <3>3, <3>4
  <2>4. CASE stage = "switch" /\ target # 0
    <3>1. Switching
      BY <2>4 DEF DataInv, OpsOfStage
    <3> QED
      BY <1>1, <1>5, <2>2, <2>4, <3>1, SwitchGoesOn DEF DataTyped
  <2> QED
    BY <1>3, <2>3, <2>4
<1> QED
  BY <1>4, <1>5

\* A sector that does not get its operation keeps its type.
LEMMA LostTyped ==
  ASSUME DataTyped, NEW w \in {Blank, Garbage}, Lost(w)
  PROVE  ota' \in [0..1 -> Sectors] /\ (w = Blank /\ BothReadable => BothReadable')
<1>1. ota' = [ota EXCEPT ![Head(ops).at] = w] /\ ota \in [0..1 -> Sectors] /\ w \in Sectors
  BY DEF Lost, DataTyped, Sectors
<1>2. ota' \in [0..1 -> Sectors]
  BY <1>1
<1>3. \A x \in 0..1 : ota'[x] = ota[x] \/ ota'[x] = w
  BY <1>1
<1>4. 0 \in 0..1 /\ 1 \in 0..1
  OBVIOUS
<1> QED
  BY <1>2, <1>3, <1>4, NotNumbers DEF BothReadable

\* An operation fails.
LEMMA FlashFailsDataInv == DataInv /\ FlashFails => DataInv'
<1> SUFFICES ASSUME DataInv, FlashFails PROVE DataInv'
  OBVIOUS
<1>1. DataTyped /\ stage \in {"wipe", "repair", "switch"}
  BY Resting DEF DataInv, FlashFails
<1>2. ota' \in [0..1 -> Sectors] /\ (BothReadable => BothReadable')
  <2>1. CASE UNCHANGED ota
    BY <1>1, <2>1 DEF DataTyped, BothReadable
  <2>2. CASE Lost(Blank)
    BY <1>1, <2>2, LostTyped
  <2> QED
    BY <2>1, <2>2 DEF FlashFails
<1>3. /\ ops' = <<>> /\ stage' = IF stage = "wipe" THEN "init" ELSE "run"
      /\ usable' = (usable /\ stage # "repair")
      /\ UNCHANGED <<running, target, checked, old, fresh, cut>>
  BY DEF FlashFails, hist
<1>4. stage' = "run" /\ usable' /\ checked' => BothReadable'
  BY <1>1, <1>2, <1>3 DEF DataInv, StaysReadable
<1> QED
  BY <1>1, <1>2, <1>3, <1>4, QuietDataInv DEF DataTyped

\* The countdown ends.
LEMMA CountdownDataInv == DataInv /\ (CountdownResets \/ CountdownGivesUp) => DataInv'
<1> SUFFICES ASSUME DataInv, CountdownResets \/ CountdownGivesUp PROVE DataInv'
  OBVIOUS
<1>1. DataTyped
  BY DEF DataInv
<1>2. CASE CountdownResets
  BY <1>1, <1>2, QuietDataInv, Resting DEF CountdownResets, DataTyped
<1>3. CASE CountdownGivesUp
  <2>1. usable' /\ checked' => BothReadable'
    BY <1>3 DEF CountdownGivesUp, DataInv, StaysReadable, BothReadable, hist
  <2> QED
    BY <1>1, <1>3, <2>1, QuietDataInv, Resting DEF CountdownGivesUp, DataTyped, hist
<1> QED
  BY <1>2, <1>3

\* The firmware panics, or the power fails.
LEMMA CrashDataInv == DataInv /\ (Panic \/ PowerCut) => DataInv'
<1> SUFFICES ASSUME DataInv, Panic \/ PowerCut PROVE DataInv'
  OBVIOUS
<1>1. DataTyped
  BY DEF DataInv
<1>2. CASE Panic
  BY <1>1, <1>2, QuietDataInv DEF Panic, DataTyped
<1>3. CASE PowerCut
  <2>1. ota' \in [0..1 -> Sectors]
    BY <1>1, <1>3, LostTyped DEF PowerCut, DataTyped
  <2>2. /\ stage' = "loader" /\ ops' = <<>> /\ cut' \in BOOLEAN
        /\ UNCHANGED <<running, target, usable, checked, old, fresh>>
    BY <1>1, <1>3 DEF PowerCut, DataTyped
  <2> QED
    BY <1>1, <2>1, <2>2, QuietDataInv DEF DataTyped
<1> QED
  BY <1>2, <1>3

\* Every step keeps the invariant of the OTA data.
LEMMA NextDataInv == DataInv /\ [Next]_vars => DataInv'
<1> SUFFICES ASSUME DataInv, [Next]_vars PROVE DataInv'
  OBVIOUS
<1>1. CASE Loader \/ FactoryRequest \/ FactoryRequestFails
  BY <1>1, BootDataInv
<1>2. CASE InitSystem \/ InitReadFails \/ InitUnchecked \/ InitWithoutTable
  BY <1>2, InitSystemDataInv
<1>3. ASSUME NEW i \in 0..OtaSlots, Activate(i) PROVE DataInv'
  BY <1>3, ActivateDataInv
<1>4. CASE FlashOp
  BY <1>4, FlashOpDataInv
<1>5. CASE FlashFails
  BY <1>5, FlashFailsDataInv
<1>6. CASE CountdownResets \/ CountdownGivesUp
  BY <1>6, CountdownDataInv
<1>7. CASE Panic \/ PowerCut
  BY <1>7, CrashDataInv
<1>8. CASE UNCHANGED vars
  BY <1>8 DEF vars, hist, DataInv, DataTyped, OpsOfStage, Erasing, BothReadable, Switching,
              Reselecting, Starting, Halfway, Finishing, Selects, Allowed, Newer,
              StaysReadable, CountdownMeansSwitched
<1> QED
  BY <1>1, <1>2, <1>3, <1>4, <1>5, <1>6, <1>7, <1>8 DEF Next, Boot

\* The invariant of the OTA data holds in every reachable state.
THEOREM DataInvariant == Spec => []DataInv
<1> QED
  BY InitDataInv, NextDataInv, PTL DEF Spec

\* Types: the register holds a count, the request or what a power cut left, the OTA
\* data hold what can be written there, and there is work in the right stages only.
THEOREM RecoveryTypeCorrect == Spec => []TypeOK
<1>1. CInv /\ DataInv => TypeOK
  <2> SUFFICES ASSUME CInv, DataInv PROVE TypeOK
    OBVIOUS
  <2>1. count \in 0..PanicRetry \cup {Request, Unset} /\ panics \in 0..PanicRetry+1
    BY NotNumbers DEF CInv, CountsPanics
  <2> QED
    BY <2>1 DEF DataInv, DataTyped, Sectors, TypeOK
<1> QED
  BY <1>1, CounterInvariant, DataInvariant, PTL

\* Wherever activate may compare sequence numbers that System::init was able to check,
\* both sectors can be read.
THEOREM RecoveryNumbersReadable == Spec => []NumbersReadable
<1>1. DataInv => NumbersReadable
  BY DEF DataInv, StaysReadable, BothReadable, NumbersReadable
<1> QED
  BY <1>1, DataInvariant, PTL

\* A countdown runs only when the OTA data select the slot it is for.
THEOREM RecoveryCountdownMeansSwitched == Spec => []CountdownMeansSwitched
<1>1. DataInv => CountdownMeansSwitched
  BY DEF DataInv
<1> QED
  BY <1>1, DataInvariant, PTL

\* A panic, a fault or a power cut at any point of the selection of an OTA slot leaves
\* the selection of before or the new one; it leaves the factory if they are the same,
\* or if the OTA data had not been checked, and never any other slot.
THEOREM RecoverySwitchIsAtomic == Spec => SwitchIsAtomic
<1> DEFINE Atomic == stage = "switch" /\ target # 0 =>
                       \/ Selection(ota') \in {old, target}
                       \/ Selection(ota') = 0 /\ (target = old \/ ~checked)
<1>1. DataInv /\ [Next]_vars => [Atomic]_vars
  <2> SUFFICES ASSUME DataInv, Next, stage = "switch", target # 0
               PROVE  Allowed(Selection(ota'))
    BY DEF Allowed
  <2>1. ota \in [0..1 -> Sectors] /\ Switching /\ Allowed(Selection(ota))
    BY DEF DataInv, DataTyped, OpsOfStage, Switching
  <2>2. CASE UNCHANGED ota
    BY <2>1, <2>2
  <2>3. CASE FlashOp
    BY <2>1, <2>3, SwitchGoesOn DEF FlashOp, hist
  <2>4. ASSUME NEW w \in {Blank, Garbage}, Lost(w) PROVE Allowed(Selection(ota'))
    <3>1. Allowed(Selection([ota EXCEPT ![Head(ops).at] = w]))
      BY <2>1, SpareInHand
    <3> QED
      BY <2>4, <3>1 DEF Lost
  <2> QED
    BY <2>2, <2>3, <2>4
    DEF Next, Boot, Loader, FactoryRequest, FactoryRequestFails, InitSystem, InitReadFails,
        InitUnchecked, InitWithoutTable, Activate, FlashFails, CountdownResets,
        CountdownGivesUp, Panic, PowerCut
<1> QED
  BY <1>1, DataInvariant, PTL DEF Spec, SwitchIsAtomic
=============================================================================
