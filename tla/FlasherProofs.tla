---------------------------- MODULE FlasherProofs ----------------------------
(***************************************************************************)
(* Flasher for any configurations, image sizes and blocks: its type, that  *)
(* a run after a release build flashes that build's table as long as none  *)
(* has failed, and that the layout, and what is left of one that is cut    *)
(* short, is sound.                                                        *)
(***************************************************************************)
EXTENDS Flasher, Arithmetic

\* build.rs leaves the runner no fewer slots than presets.
LEMMA ValidLeavesSlots ==
  ASSUME NEW c \in Configs, Valid(c)
  PROVE  LeftSlots(c) \in 0..MaxSlots
<1>1. c \in [slots : Nat, flash : Nat \ {0}, preset : Seq(Nat \ {0})]
  BY FlasherAssumption
<1>2. c.slots \in Nat /\ Len(c.preset) \in Nat
  BY <1>1
<1> QED
  BY <1>2, FlasherAssumption DEF Valid, LeftSlots

-----------------------------------------------------------------------------
(* Type correctness *)

\* Every step keeps the type: no runner is built for a configuration with more
\* presets than slots.
LEMMA NextTypeOK == TypeOK /\ [Next]_vars => TypeOK'
<1> SUFFICES ASSUME TypeOK, [Next]_vars PROVE TypeOK'
  OBVIOUS
<1> USE DEF TypeOK
<1>1. ASSUME NEW c \in Configs, NEW image \in ImageSizes, NEW profile \in Profiles,
             Build(c, image, profile)
      PROVE  TypeOK'
  <2>1. LeftSlots(c) \in 0..MaxSlots
    BY <1>1, ValidLeavesSlots DEF Build
  <2>2. /\ elf' \in [config : Configs, image : ImageSizes] \cup {None}
        /\ copied' \in BOOLEAN /\ clean' \in BOOLEAN
        /\ pc' = "idle"
    BY <1>1 DEF Build
  <2>3. tool' \in Configs \cup {None} /\ (tool' # None => LeftSlots(tool') \in 0..MaxSlots)
    BY <1>1, <2>1 DEF Build
  <2>4. csv' # None => csv'.config \in Configs /\ csv'.image \in ImageSizes /\ csv'.whole \in BOOLEAN
    BY <1>1 DEF Build
  <2> QED
    BY <2>2, <2>3, <2>4
<1>2. CASE Begin
  BY <1>2 DEF Begin
<1>3. CASE CopyElf \/ SaveImage
  BY <1>3 DEF CopyElf, SaveImage
<1>4. CASE LayOut
  <2>1. elf # None /\ tool # None
    BY <1>4 DEF LayOut
  <2>2. elf.image \in ImageSizes /\ tool \in Configs
    BY <2>1
  <2>3. csv'.config = tool /\ csv'.image = elf.image /\ csv'.whole \in BOOLEAN
    BY <1>4 DEF LayOut
  <2> QED
    BY <1>4, <2>1, <2>2, <2>3 DEF LayOut
<1>5. CASE Flash
  BY <1>5 DEF Flash
<1>6. CASE Fails
  <2>1. CASE UNCHANGED csv
    BY <1>6, <2>1 DEF Fails
  <2>2. CASE CutsTable
    <3>1. elf # None /\ tool # None
      BY <2>2 DEF CutsTable
    <3>2. elf.image \in ImageSizes /\ tool \in Configs
      BY <3>1
    <3>3. csv'.config = tool /\ csv'.image = elf.image /\ csv'.whole \in BOOLEAN
      BY <2>2 DEF CutsTable
    <3> QED
      BY <1>6, <3>1, <3>2, <3>3 DEF Fails
  <2> QED
    BY <1>6, <2>1, <2>2 DEF Fails
<1>7. CASE UNCHANGED vars
  BY <1>7 DEF vars
<1> QED
  BY <1>1, <1>2, <1>3, <1>4, <1>5, <1>6, <1>7 DEF Next

\* Every variable of build and runner keeps its type, and the runner can subtract the
\* presets from its slots.
THEOREM FlasherTypeCorrect == Spec => []TypeOK
<1>1. Init => TypeOK
  BY DEF Init, TypeOK
<1> QED
  BY <1>1, NextTypeOK, PTL DEF Spec

-----------------------------------------------------------------------------
(* Firmware and table *)

\* Without a failure the runner is that of the build, and what it flashes, or skips
\* to flash, is the table it has laid out for it.
TableIsOfBuild ==
  clean =>
    /\ tool = elf.config
    /\ pc = "flash" \/ (pc = "idle" /\ copied) => InStep

\* Every step keeps that: the copy of the ELF file is older than the table only for
\* the rest of one run.
LEMMA NextTableIsOfBuild == TypeOK /\ TableIsOfBuild /\ [Next]_vars => TableIsOfBuild'
<1> SUFFICES ASSUME TypeOK, TableIsOfBuild, [Next]_vars PROVE TableIsOfBuild'
  OBVIOUS
<1> USE DEF TableIsOfBuild, InStep
<1>1. ASSUME NEW c \in Configs, NEW image \in ImageSizes, NEW profile \in Profiles,
             Build(c, image, profile)
      PROVE  TableIsOfBuild'
  BY <1>1 DEF Build
<1>2. CASE Begin
  BY <1>2 DEF Begin
<1>3. CASE CopyElf \/ SaveImage
  BY <1>3 DEF CopyElf, SaveImage
<1>4. CASE LayOut
  <2>1. csv'.parts = Partitions(tool, elf.image)
    BY <1>4 DEF LayOut
  <2> QED
    BY <1>4, <2>1 DEF LayOut
<1>5. CASE Flash
  BY <1>5 DEF Flash
<1>6. CASE Fails
  BY <1>6 DEF Fails
<1>7. CASE UNCHANGED vars
  BY <1>7 DEF vars
<1> QED
  BY <1>1, <1>2, <1>3, <1>4, <1>5, <1>6, <1>7 DEF Next

\* For every configuration and any order of builds and runs: as long as no run has
\* failed since the last release build, that build is flashed with its own table.
THEOREM FlasherCleanRunsInStep == Spec => CleanRunsInStep
<1>1. Init => TableIsOfBuild
  BY DEF Init, TableIsOfBuild
<1>2. TableIsOfBuild => (Flash /\ clean => InStep)
  BY DEF TableIsOfBuild, Flash
<1>3. TableIsOfBuild /\ [Next]_vars => [Flash /\ clean => InStep]_vars
  BY <1>2
<1> QED
  BY <1>1, <1>3, NextTableIsOfBuild, FlasherTypeCorrect, PTL DEF Spec, CleanRunsInStep

-----------------------------------------------------------------------------
(* The offsets *)

\* The recursion of OffsetsOf, as an equation.
Recurrence(sizes, at) ==
  at = [i \in 1..Len(sizes) + 1 |-> IF i = 1 THEN FirstOffset ELSE at[i - 1] + sizes[i - 1]]

\* It has a solution.
LEMMA RecurrenceSolved ==
  ASSUME NEW sizes \in Seq(Nat)
  PROVE  \E at : Recurrence(sizes, at)
<1> DEFINE n == Len(sizes)
           Solves(g, k) == /\ g[1] = FirstOffset
                           /\ \A i \in 2..k+1 : g[i] = g[i - 1] + sizes[i - 1]
           S == {k \in Nat : \E g \in [1..k+1 -> Nat] : Solves(g, k)}
<1>1. n \in Nat /\ FirstOffset \in Nat /\ \A i \in 1..n : sizes[i] \in Nat
  BY FlasherAssumption
<1>2. 0 \in S
  <2> DEFINE g == [i \in 1..1 |-> FirstOffset]
  <2>1. g \in [1..0+1 -> Nat] /\ Solves(g, 0)
    BY <1>1
  <2> QED
    BY <2>1
<1>3. ASSUME NEW k \in 0..n-1, k \in S PROVE k + 1 \in S
  <2>1. PICK g \in [1..k+1 -> Nat] : Solves(g, k)
    BY <1>3
  <2> DEFINE h == [i \in 1..k+1+1 |-> IF i = k + 2 THEN g[k+1] + sizes[k+1] ELSE g[i]]
  <2>2. k \in Nat /\ sizes[k+1] \in Nat /\ g[k+1] \in Nat
    BY <1>1
  <2>3. h \in [1..k+1+1 -> Nat]
    BY <2>2
  <2>4. h[1] = FirstOffset
    BY <2>1, <2>2
  <2>5. ASSUME NEW i \in 2..k+1+1 PROVE h[i] = h[i - 1] + sizes[i - 1]
    <3>1. CASE i = k + 2
      BY <2>2, <3>1
    <3>2. CASE i # k + 2
      BY <2>1, <2>2, <3>2
    <3> QED
      BY <3>1, <3>2
  <2>6. Solves(h, k + 1)
    BY <2>4, <2>5
  <2> HIDE DEF h, Solves
  <2> QED
    BY <2>2, <2>3, <2>6
<1>4. n \in S
  <2> HIDE DEF S, n
  <2>1. 0..n \subseteq S
    BY <1>1, <1>2, <1>3, InductionUpTo
  <2> QED
    BY <1>1, <2>1
<1>5. PICK g \in [1..n+1 -> Nat] : Solves(g, n)
  BY <1>4
<1>6. Recurrence(sizes, g)
  BY <1>1, <1>5 DEF Recurrence
<1> QED
  BY <1>6

\* Each partition begins where the one before it ends.
LEMMA OffsetsAdd ==
  ASSUME NEW sizes \in Seq(Nat)
  PROVE  LET at == OffsetsOf(sizes)
         IN  /\ at \in [1..Len(sizes) + 1 -> Nat] /\ at[1] = FirstOffset
             /\ \A i \in 1..Len(sizes) : at[i + 1] = at[i] + sizes[i]
<1> DEFINE n == Len(sizes)
           at == OffsetsOf(sizes)
           S == {k \in Nat : at[k + 1] \in Nat}
<1>1. n \in Nat /\ FirstOffset \in Nat /\ \A i \in 1..n : sizes[i] \in Nat
  BY FlasherAssumption
<1>2. Recurrence(sizes, at)
  BY RecurrenceSolved DEF Recurrence, OffsetsOf
<1> HIDE DEF at
<1>3. \A i \in 1..n+1 : at[i] = IF i = 1 THEN FirstOffset ELSE at[i - 1] + sizes[i - 1]
  BY <1>2 DEF Recurrence
<1>4. at[1] = FirstOffset /\ \A i \in 1..n : at[i + 1] = at[i] + sizes[i]
  <2>1. at[1] = FirstOffset
    BY <1>1, <1>3
  <2>2. ASSUME NEW i \in 1..n PROVE at[i + 1] = at[i] + sizes[i]
    <3>1. i + 1 \in 1..n+1 /\ i + 1 # 1 /\ (i + 1) - 1 = i
      BY <1>1
    <3> QED
      BY <1>3, <3>1
  <2> QED
    BY <2>1, <2>2
<1>5. 0..n \subseteq S
  <2>1. 0 \in S
    BY <1>1, <1>4
  <2>2. ASSUME NEW k \in 0..n-1, k \in S PROVE k + 1 \in S
    <3>1. k + 1 \in 1..n /\ at[k + 1] \in Nat /\ sizes[k + 1] \in Nat
      BY <1>1, <2>2
    <3>2. at[k + 1 + 1] = at[k + 1] + sizes[k + 1]
      BY <1>4, <3>1
    <3> QED
      BY <3>1, <3>2
  <2> HIDE DEF S
  <2> QED
    BY <1>1, <2>1, <2>2, InductionUpTo
<1>6. \A i \in 1..n+1 : at[i] \in Nat
  <2> SUFFICES ASSUME NEW i \in 1..n+1 PROVE at[i] \in Nat
    OBVIOUS
  <2>1. i - 1 \in 0..n /\ (i - 1) + 1 = i
    BY <1>1
  <2>2. i - 1 \in S
    BY <1>5, <2>1
  <2> QED
    BY <2>1, <2>2
<1>7. at \in [1..n+1 -> Nat]
  BY <1>2, <1>6 DEF Recurrence
<1> QED
  BY <1>4, <1>7 DEF at

\* Where a partition begins depends on the ones before it only.
LEMMA OffsetsAgree ==
  ASSUME NEW s \in Seq(Nat), NEW t \in Seq(Nat), NEW n \in Nat, n <= Len(s), n <= Len(t),
         \A i \in 1..n : s[i] = t[i]
  PROVE  OffsetsOf(s)[n + 1] = OffsetsOf(t)[n + 1]
<1> DEFINE a == OffsetsOf(s)
           b == OffsetsOf(t)
           S == {k \in Nat : a[k + 1] = b[k + 1]}
<1>1. /\ a[1] = FirstOffset /\ \A i \in 1..n : a[i + 1] = a[i] + s[i]
      /\ b[1] = FirstOffset /\ \A i \in 1..n : b[i + 1] = b[i] + t[i]
  BY OffsetsAdd
<1> HIDE DEF a, b
<1>2. 0 \in S
  BY <1>1
<1>3. ASSUME NEW k \in 0..n-1, k \in S PROVE k + 1 \in S
  <2>1. k + 1 \in 1..n /\ k + 1 \in Nat /\ a[k + 1] = b[k + 1] /\ s[k + 1] = t[k + 1]
    BY <1>3
  <2>2. a[k + 1 + 1] = b[k + 1 + 1]
    BY <1>1, <2>1
  <2> QED
    BY <2>1, <2>2
<1>4. n \in S
  <2> HIDE DEF S
  <2>1. 0..n \subseteq S
    BY <1>2, <1>3, InductionUpTo
  <2> QED
    BY <2>1
<1> QED
  BY <1>4 DEF a, b

\* Partitions of one size lie at multiples of it.
LEMMA OffsetsOfShares ==
  ASSUME NEW sizes \in Seq(Nat), NEW f \in Nat, NEW n \in Nat, Len(sizes) = f + n,
         NEW share \in Nat, \A i \in f+1..f+n : sizes[i] = share
  PROVE  OffsetsOf(sizes)[f + n + 1] = OffsetsOf(sizes)[f + 1] + n * share
<1> DEFINE a == OffsetsOf(sizes)
           S == {k \in Nat : a[f + k + 1] = a[f + 1] + k * share}
<1>1. /\ \A i \in 1..f+n+1 : a[i] \in Nat
      /\ \A i \in 1..f+n : a[i + 1] = a[i] + sizes[i]
  BY OffsetsAdd
<1> HIDE DEF a
<1>2. 0 \in S
  <2>1. a[f + 1] \in Nat /\ 0 * share = 0 /\ f + 0 + 1 = f + 1
    BY <1>1
  <2> QED
    BY <2>1
<1>3. ASSUME NEW k \in 0..n-1, k \in S PROVE k + 1 \in S
  <2>1. /\ k \in Nat /\ f + k + 1 \in 1..f+n /\ f + (k + 1) + 1 = (f + k + 1) + 1
        /\ sizes[f + k + 1] = share /\ a[f + k + 1] = a[f + 1] + k * share
        /\ a[f + 1] \in Nat
    BY <1>1, <1>3
  <2>2. a[f + (k + 1) + 1] = a[f + 1] + k * share + share
    BY <1>1, <2>1
  <2>3. (k + 1) * share = k * share + share
    BY <2>1
  <2>4. k * share \in Nat
    BY <2>1
  <2> QED
    BY <2>1, <2>2, <2>3, <2>4
<1>4. n \in S
  <2> HIDE DEF S
  <2>1. 0..n \subseteq S
    BY <1>2, <1>3, InductionUpTo
  <2> QED
    BY <2>1
<1> QED
  BY <1>4 DEF a

\* A whole number of blocks.
Whole(size) == \E q \in Nat : size = q * BlockSize

\* Partitions of whole blocks leave the alignment of the first one.
LEMMA OffsetsAligned ==
  ASSUME NEW sizes \in Seq(Nat), \A i \in 1..Len(sizes) : Whole(sizes[i]),
         NEW j \in 1..Len(sizes)
  PROVE  OffsetsOf(sizes)[j] % BlockSize = FirstOffset % BlockSize
<1> DEFINE a == OffsetsOf(sizes)
           n == Len(sizes)
           S == {k \in Nat : \E q \in Nat : a[k + 1] = FirstOffset + q * BlockSize}
<1>1. /\ n \in Nat /\ FirstOffset \in Nat /\ BlockSize \in Nat \ {0} /\ a[1] = FirstOffset
      /\ \A i \in 1..n : a[i + 1] = a[i] + sizes[i] /\ Whole(sizes[i])
  BY OffsetsAdd, FlasherAssumption
<1> HIDE DEF a, n
<1>2. 0 \in S
  <2>1. a[0 + 1] = FirstOffset + 0 * BlockSize
    BY <1>1
  <2> QED
    BY <2>1
<1>3. ASSUME NEW k \in 0..n-1, k \in S PROVE k + 1 \in S
  <2>1. PICK q \in Nat : a[k + 1] = FirstOffset + q * BlockSize
    BY <1>3
  <2>2. k + 1 \in 1..n /\ k + 1 \in Nat
    BY <1>1
  <2>3. PICK p \in Nat : sizes[k + 1] = p * BlockSize
    BY <1>1, <2>2 DEF Whole
  <2>4. a[k + 1 + 1] = FirstOffset + q * BlockSize + p * BlockSize
    BY <1>1, <2>1, <2>2, <2>3
  <2>5. (q + p) * BlockSize = q * BlockSize + p * BlockSize
    BY <1>1
  <2>6. q * BlockSize \in Nat /\ p * BlockSize \in Nat /\ q + p \in Nat
    BY <1>1
  <2>7. a[k + 1 + 1] = FirstOffset + (q + p) * BlockSize
    BY <1>1, <2>4, <2>5, <2>6
  <2> QED
    BY <2>2, <2>6, <2>7
<1>4. j - 1 \in S
  <2> HIDE DEF S
  <2>1. 0..n \subseteq S
    BY <1>1, <1>2, <1>3, InductionUpTo
  <2>2. j - 1 \in 0..n
    BY <1>1 DEF n
  <2> QED
    BY <2>1, <2>2
<1>5. PICK q \in Nat : a[j] = FirstOffset + q * BlockSize
  <2>1. (j - 1) + 1 = j
    OBVIOUS
  <2> QED
    BY <1>4, <2>1
<1>6. (FirstOffset + q * BlockSize) % BlockSize = FirstOffset % BlockSize
  BY <1>1, ModMultiple
<1> QED
  BY <1>5, <1>6 DEF a

-----------------------------------------------------------------------------
(* The layout *)

\* Rounding up to blocks.
LEMMA BlocksUpBounds ==
  ASSUME NEW n \in Nat \ {0}
  PROVE  BlocksUp(n) \in Nat \ {0} /\ n <= BlocksUp(n) /\ Whole(BlocksUp(n))
<1> DEFINE q == (n + BlockSize - 1) \div BlockSize
<1>1. BlockSize \in Nat \ {0}
  BY FlasherAssumption
<1>2. n + BlockSize - 1 \in Nat
  BY <1>1
<1>3. q \in Nat /\ q * BlockSize <= n + BlockSize - 1
        /\ n + BlockSize - 1 < q * BlockSize + BlockSize
  BY <1>1, <1>2, DivBounds
<1>4. BlocksUp(n) = q * BlockSize
  BY DEF BlocksUp
<1> HIDE DEF q
<1>5. q * BlockSize \in Nat
  BY <1>1, <1>3
<1> QED
  BY <1>1, <1>3, <1>4, <1>5 DEF Whole

\* A function of the first numbers is a sequence.
LEMMA FunctionIsSeq ==
  \A n \in Nat : \A f \in [1..n -> Nat] : f \in Seq(Nat) /\ Len(f) = n
  OBVIOUS

\* The factory partition and the presets: whole blocks, none of them too small.
LEMMA FixedSizesFit ==
  ASSUME NEW c \in Configs, NEW img \in ImageSizes
  PROVE  LET s == FixedSizes(c, img)
         IN  /\ s \in Seq(Nat) /\ Len(s) = 1 + Len(c.preset) /\ Len(c.preset) \in Nat
             /\ \A i \in 1..Len(s) : s[i] > 0 /\ Whole(s[i])
             /\ img <= s[1]
             /\ \A i \in 2..Len(s) : c.preset[i - 1] <= s[i]
<1> DEFINE up == [i \in 1..Len(c.preset) |-> BlocksUp(c.preset[i])]
           s == <<BlocksUp(img)>> \o up
<1>1. /\ c.preset \in Seq(Nat \ {0}) /\ img \in Nat \ {0} /\ Len(c.preset) \in Nat
      /\ \A i \in 1..Len(c.preset) : c.preset[i] \in Nat \ {0}
  BY FlasherAssumption
<1>2. BlocksUp(img) \in Nat \ {0} /\ img <= BlocksUp(img) /\ Whole(BlocksUp(img))
  BY <1>1, BlocksUpBounds
<1>3. \A i \in 1..Len(c.preset) : /\ up[i] \in Nat \ {0} /\ c.preset[i] <= up[i]
                                  /\ Whole(up[i])
  BY <1>1, BlocksUpBounds
<1>4. up \in Seq(Nat) /\ Len(up) = Len(c.preset)
  <2>1. up \in [1..Len(c.preset) -> Nat]
    BY <1>3
  <2> HIDE DEF up
  <2>2. Len(c.preset) \in Nat
    BY <1>1
  <2> QED
    BY <2>1, <2>2, FunctionIsSeq
<1> HIDE DEF up
<1>5. s \in Seq(Nat) /\ Len(s) = 1 + Len(up) /\ s[1] = BlocksUp(img)
      /\ \A i \in 2..Len(s) : s[i] = up[i - 1]
  BY <1>2, <1>4
<1> HIDE DEF s
<1>6. \A i \in 2..Len(s) : i - 1 \in 1..Len(c.preset)
  BY <1>1, <1>4, <1>5
<1>7. /\ \A i \in 1..Len(s) : s[i] > 0 /\ Whole(s[i])
      /\ \A i \in 2..Len(s) : c.preset[i - 1] <= s[i]
  <2>1. ASSUME NEW i \in 2..Len(s)
        PROVE  s[i] > 0 /\ Whole(s[i]) /\ c.preset[i - 1] <= s[i]
    <3>1. s[i] = up[i - 1] /\ i - 1 \in 1..Len(c.preset)
      BY <1>5, <1>6
    <3>2. up[i - 1] \in Nat \ {0} /\ c.preset[i - 1] <= up[i - 1] /\ Whole(up[i - 1])
      BY <1>3, <3>1
    <3> QED
      BY <3>1, <3>2
  <2>2. s[1] > 0 /\ Whole(s[1])
    BY <1>2, <1>5
  <2>3. \A i \in 1..Len(s) : i = 1 \/ i \in 2..Len(s)
    BY <1>1, <1>4, <1>5
  <2> QED
    BY <2>1, <2>2, <2>3
<1> QED
  BY <1>1, <1>2, <1>4, <1>5, <1>7 DEF FixedSizes, s, up

\* What the slots without a preset get of the memory that is left: as many blocks
\* as all of them can have.
LEMMA ShareFits ==
  ASSUME NEW left \in Nat, NEW n \in Nat \ {0}
  PROVE  LET share == BlocksDown(left \div n)
         IN  /\ share \in Nat /\ Whole(share)
             /\ n * share \in Nat /\ n * share <= left /\ left - n * share < n * BlockSize
<1> DEFINE avg == left \div n
           q == avg \div BlockSize
           share == q * BlockSize
<1>1. BlockSize \in Nat \ {0}
  BY FlasherAssumption
<1>2. avg \in Nat /\ avg * n <= left /\ left < avg * n + n
  BY DivBounds
<1> HIDE DEF avg
<1>3. q \in Nat /\ share <= avg /\ avg < share + BlockSize
  BY <1>1, <1>2, DivBounds
<1> HIDE DEF q
<1>4. share \in Nat
  BY <1>1, <1>3
<1>5. share * n <= avg * n
  <2> HIDE DEF share
  <2> QED
    BY <1>2, <1>3, <1>4, TimesMonotonic
<1>6. avg * n + n <= share * n + BlockSize * n
  <2> HIDE DEF share
  <2>1. avg + 1 \in Nat /\ share + BlockSize \in Nat /\ avg + 1 <= share + BlockSize
    BY <1>1, <1>2, <1>3, <1>4
  <2>2. (avg + 1) * n <= (share + BlockSize) * n
    BY <2>1, TimesMonotonic
  <2>3. (avg + 1) * n = avg * n + n /\ (share + BlockSize) * n = share * n + BlockSize * n
    BY <1>1, <1>2, <1>4
  <2> QED
    BY <2>2, <2>3
<1>7. Whole(share)
  BY <1>3 DEF Whole
<1> HIDE DEF share
<1>8. share * n \in Nat /\ avg * n \in Nat /\ BlockSize * n \in Nat
      /\ n * share = share * n /\ n * BlockSize = BlockSize * n
  BY <1>1, <1>2, <1>4
<1>9. n * share \in Nat /\ n * share <= left /\ left - n * share < n * BlockSize
  BY <1>2, <1>5, <1>6, <1>8
<1> QED
  BY <1>4, <1>7, <1>9 DEF BlocksDown, share, q, avg

\* One sequence behind another.
LEMMA Joined ==
  ASSUME NEW s \in Seq(Nat), NEW t \in Seq(Nat)
  PROVE  /\ s \o t \in Seq(Nat) /\ Len(s \o t) = Len(s) + Len(t)
         /\ \A i \in 1..Len(s) : (s \o t)[i] = s[i]
         /\ \A i \in Len(s)+1..Len(s)+Len(t) : (s \o t)[i] = t[i - Len(s)]
  OBVIOUS

\* Every partition begins before the end of the last one.
LEMMA OffsetsGrow ==
  ASSUME NEW sizes \in Seq(Nat), NEW j \in 1..Len(sizes) + 1
  PROVE  OffsetsOf(sizes)[j] <= OffsetsOf(sizes)[Len(sizes) + 1]
<1> DEFINE a == OffsetsOf(sizes)
           n == Len(sizes)
           S == {k \in Nat : a[n + 1 - k] <= a[n + 1]}
<1>1. /\ n \in Nat /\ \A i \in 1..n+1 : a[i] \in Nat
      /\ \A i \in 1..n : a[i + 1] = a[i] + sizes[i] /\ sizes[i] \in Nat
  <2>1. n \in Nat /\ \A i \in 1..n : sizes[i] \in Nat
    OBVIOUS
  <2>2. a \in [1..n+1 -> Nat] /\ \A i \in 1..n : a[i + 1] = a[i] + sizes[i]
    BY OffsetsAdd
  <2> HIDE DEF a, n
  <2> QED
    BY <2>1, <2>2
<1> HIDE DEF a, n
<1>2. 0 \in S
  <2>1. n + 1 - 0 = n + 1 /\ a[n + 1] \in Nat
    BY <1>1
  <2> QED
    BY <2>1
<1>3. ASSUME NEW k \in 0..n-1, k \in S PROVE k + 1 \in S
  <2>1. n - k \in 1..n /\ (n - k) + 1 = n + 1 - k /\ n + 1 - (k + 1) = n - k
    BY <1>1
  <2>2. a[n + 1 - k] = a[n - k] + sizes[n - k] /\ sizes[n - k] \in Nat
    BY <1>1, <2>1
  <2>3. a[n - k] \in Nat /\ a[n + 1] \in Nat /\ a[n + 1 - k] <= a[n + 1]
    BY <1>1, <1>3, <2>1
  <2> QED
    BY <2>1, <2>2, <2>3
<1> HIDE DEF S
<1>4. 0..n \subseteq S
  BY <1>1, <1>2, <1>3, InductionUpTo
<1>5. n + 1 - j \in 0..n /\ n + 1 - (n + 1 - j) = j
  BY <1>1 DEF n
<1>6. n + 1 - j \in S
  BY <1>4, <1>5
<1>7. a[n + 1 - (n + 1 - j)] <= a[n + 1]
  BY <1>6 DEF S
<1> QED
  BY <1>5, <1>7 DEF a, n

\* The table of a layout.
Laid(c, img) ==
  [config |-> c, image |-> img, whole |-> TRUE, parts |-> Partitions(c, img)]

\* What the runner lays out is sound.
LEMMA PartitionsSound ==
  ASSUME NEW c \in Configs, NEW img \in ImageSizes, LeftSlots(c) \in Nat, CanLayOut(c, img)
  PROVE  /\ InPlace(Laid(c, img)) /\ Complete(Laid(c, img))
         /\ Len(Partitions(c, img)) \in Nat
         /\ \A i \in 1..Len(Partitions(c, img)) :
              Partitions(c, img)[i].offset \in Nat /\ Partitions(c, img)[i].size \in Nat
<1> DEFINE fixed == FixedSizes(c, img)
           f == Len(fixed)
           n == LeftSlots(c)
           share == Share(c, img)
           rest == [i \in 1..n |-> share]
           sizes == fixed \o rest
           at == OffsetsOf(sizes)
           p == Partitions(c, img)
           t == Laid(c, img)
<1>1. /\ c.slots \in Nat /\ c.flash \in Nat /\ c.preset \in Seq(Nat \ {0}) /\ img \in Nat
      /\ FirstOffset \in Nat /\ BlockSize \in Nat \ {0}
  BY FlasherAssumption
<1>2. /\ fixed \in Seq(Nat) /\ f = 1 + Len(c.preset) /\ Len(c.preset) \in Nat /\ f \in Nat
      /\ \A i \in 1..f : fixed[i] > 0 /\ Whole(fixed[i])
      /\ img <= fixed[1]
      /\ \A i \in 2..f : c.preset[i - 1] <= fixed[i]
  BY FixedSizesFit
<1>3. /\ OffsetsOf(fixed)[f + 1] \in Nat
      /\ OffsetsOf(fixed)[f + 1] = EndOf(fixed)
  <2> HIDE DEF fixed, f
  <2>1. f + 1 \in 1..f+1 /\ f = Len(fixed)
    BY <1>2 DEF f
  <2>2. OffsetsOf(fixed) \in [1..Len(fixed) + 1 -> Nat]
    BY <1>2, OffsetsAdd
  <2> QED
    BY <2>1, <2>2 DEF EndOf
<1>4. /\ EndOf(fixed) <= c.flash /\ n \in Nat \ {0} /\ share > 0
      /\ c.slots = n + Len(c.preset)
  BY <1>1, <1>2 DEF CanLayOut, LeftSlots
<1>5. /\ share \in Nat /\ Whole(share) /\ n * share \in Nat
      /\ EndOf(fixed) + n * share <= c.flash
      /\ c.flash - (EndOf(fixed) + n * share) < n * BlockSize
  <2> DEFINE left == c.flash - EndOf(fixed)
  <2>1. left \in Nat
    BY <1>1, <1>3, <1>4
  <2>2. share = BlocksDown(left \div n)
    BY DEF Share, LeftMemory
  <2> HIDE DEF left, n, share
  <2>3. /\ share \in Nat /\ Whole(share)
        /\ n * share \in Nat /\ n * share <= left /\ left - n * share < n * BlockSize
    BY <1>4, <2>1, <2>2, ShareFits
  <2>4. n * BlockSize \in Nat
    BY <1>1, <1>4
  <2> QED
    BY <1>1, <1>3, <2>3, <2>4 DEF left
<1> HIDE DEF fixed, n, share
<1>6. rest \in Seq(Nat) /\ Len(rest) = n
  <2>1. rest \in [1..n -> Nat]
    BY <1>5
  <2> HIDE DEF rest
  <2>2. n \in Nat
    BY <1>4
  <2> QED
    BY <2>1, <2>2, FunctionIsSeq
<1>7. \A i \in 1..n : rest[i] = share
  OBVIOUS
<1> HIDE DEF rest, f
<1>8. /\ sizes \in Seq(Nat) /\ Len(sizes) = f + n
      /\ \A i \in 1..f : sizes[i] = fixed[i]
      /\ \A i \in f+1..f+n : sizes[i] = share
  <2>1. fixed \in Seq(Nat) /\ Len(fixed) = f /\ f \in Nat
    BY <1>2 DEF f
  <2>2. /\ sizes \in Seq(Nat) /\ Len(sizes) = f + n
        /\ \A i \in 1..f : sizes[i] = fixed[i]
        /\ \A i \in f+1..f+n : sizes[i] = rest[i - f]
    BY <1>6, <2>1, Joined
  <2>3. \A i \in f+1..f+n : i - f \in 1..n
    BY <1>4, <2>1
  <2> QED
    BY <1>7, <2>2, <2>3
<1> HIDE DEF sizes
<1>9. \A i \in 1..f+n : sizes[i] \in Nat /\ sizes[i] > 0 /\ Whole(sizes[i])
  <2>1. \A i \in 1..f+n : i \in 1..f \/ i \in f+1..f+n
    BY <1>2, <1>4
  <2>2. \A i \in 1..f+n : sizes[i] \in Nat
    BY <1>8
  <2> QED
    BY <1>2, <1>4, <1>5, <1>8, <2>1, <2>2
<1>10. /\ at \in [1..f+n+1 -> Nat] /\ at[1] = FirstOffset
       /\ \A i \in 1..f+n : at[i + 1] = at[i] + sizes[i]
  BY <1>8, OffsetsAdd
<1>11. \A j \in 1..f+n : at[j] % BlockSize = FirstOffset % BlockSize
  BY <1>8, <1>9, OffsetsAligned
<1>12. at[f + n + 1] = EndOf(fixed) + n * share
  <2>1. at[f + n + 1] = at[f + 1] + n * share
    <3> HIDE DEF at
    <3>1. OffsetsOf(sizes)[f + n + 1] = OffsetsOf(sizes)[f + 1] + n * share
      <4>1. f \in Nat /\ n \in Nat /\ share \in Nat
        BY <1>2, <1>4, <1>5
      <4>2. sizes \in Seq(Nat)
        BY <1>8
      <4>3. Len(sizes) = f + n
        BY <1>8
      <4>4. \A i \in f+1..f+n : sizes[i] = share
        BY <1>8
      <4> HIDE DEF f, n, share, sizes
      <4> QED
        BY <4>1, <4>2, <4>3, <4>4, OffsetsOfShares, Zenon
    <3> QED
      BY <3>1 DEF at
  <2>2. at[f + 1] = OffsetsOf(fixed)[f + 1]
    <3>1. f <= Len(sizes) /\ f <= Len(fixed)
      BY <1>2, <1>4, <1>8 DEF f
    <3> QED
      BY <1>2, <1>8, <3>1, OffsetsAgree
  <2> QED
    BY <1>3, <2>1, <2>2
<1> HIDE DEF at
<1>13. p = [i \in 1..f+n |-> [offset |-> at[i], size |-> sizes[i]]]
  BY <1>8 DEF p, Partitions, at, sizes, rest, fixed, n, share
<1>14. /\ Len(p) = f + n
       /\ \A i \in 1..f+n : p[i].offset = at[i] /\ p[i].size = sizes[i]
  BY <1>2, <1>4, <1>13
<1> HIDE DEF p
<1>15. /\ t.parts = p /\ t.config = c /\ t.image = img
  BY DEF Laid, p
<1> HIDE DEF t
<1>16. Len(p) = c.slots + 1
  BY <1>2, <1>4, <1>14
<1>17. \A i \in 1..Len(p) : p[i].size > 0 /\ p[i].size % BlockSize = 0
                            /\ p[i].offset % BlockSize = FirstOffset % BlockSize
  <2>1. ASSUME NEW i \in 1..f+n PROVE sizes[i] % BlockSize = 0
    <3>1. PICK q \in Nat : sizes[i] = q * BlockSize
      BY <1>9 DEF Whole
    <3>2. (0 + q * BlockSize) % BlockSize = 0 % BlockSize
      BY <1>1, ModMultiple
    <3>3. 0 % BlockSize = 0 /\ 0 + q * BlockSize = q * BlockSize
      BY <1>1
    <3> QED
      BY <3>1, <3>2, <3>3
  <2> QED
    BY <1>9, <1>11, <1>14, <2>1
<1>18. \A i \in 1..Len(p) - 1 : p[i].offset + p[i].size = p[i + 1].offset
  <2>1. \A i \in 1..Len(p) - 1 : i \in 1..f+n /\ i + 1 \in 1..f+n
    BY <1>2, <1>4, <1>14
  <2> QED
    BY <1>10, <1>14, <2>1
<1>19. /\ p[1].offset = FirstOffset
       /\ p[Len(p)].offset + p[Len(p)].size = EndOf(fixed) + n * share
       /\ p[Len(p)].offset \in Nat /\ p[Len(p)].size \in Nat
  <2>1. 1 \in 1..f+n /\ f + n \in 1..f+n /\ f + n \in 1..f+n+1
    BY <1>2, <1>4
  <2> QED
    BY <1>9, <1>10, <1>12, <1>14, <2>1
<1>20. img <= p[1].size /\ \A i \in 2..Len(c.preset) + 1 : c.preset[i - 1] <= p[i].size
  <2>1. 1 \in 1..f /\ \A i \in 1..f : i \in 1..f+n
    BY <1>2, <1>4
  <2>2. \A i \in 2..Len(c.preset) + 1 : i \in 2..f /\ i \in 1..f
    BY <1>2
  <2> QED
    BY <1>2, <1>8, <1>14, <2>1, <2>2
<1>21. \A i, j \in Len(c.preset) + 2..Len(p) : p[i].size = p[j].size
  <2>1. \A i \in Len(c.preset) + 2..Len(p) : i \in f+1..f+n /\ i \in 1..f+n
    BY <1>2, <1>4, <1>14
  <2> QED
    BY <1>8, <1>14, <2>1
<1>22. c.flash - p[Len(p)].offset - p[Len(p)].size < n * BlockSize
  <2>1. n * BlockSize \in Nat
    BY <1>1, <1>4
  <2> QED
    <3> DEFINE e == EndOf(fixed) + n * share
    <3>1. e \in Nat /\ c.flash - e < n * BlockSize
      BY <1>3, <1>5
    <3>2. p[Len(p)].offset + p[Len(p)].size = e
      BY <1>19
    <3> HIDE DEF e
    <3>3. \A m, a, b \in Nat : m - a - b = m - (a + b)
      OBVIOUS
    <3>4. c.flash \in Nat /\ p[Len(p)].offset \in Nat /\ p[Len(p)].size \in Nat
      BY <1>1, <1>19
    <3>5. c.flash - p[Len(p)].offset - p[Len(p)].size = c.flash - e
      BY <3>2, <3>3, <3>4
    <3> QED
      BY <3>1, <3>5
<1>23. \A i \in 1..Len(p) : /\ p[i].offset \in Nat /\ p[i].size \in Nat
                            /\ p[i].offset + p[i].size <= c.flash
  <2> SUFFICES ASSUME NEW i \in 1..f+n
               PROVE  /\ p[i].offset \in Nat /\ p[i].size \in Nat
                      /\ p[i].offset + p[i].size <= c.flash
    BY <1>14
  <2>1. i \in 1..f+n+1 /\ i + 1 \in 1..f+n+1 /\ f + n + 1 \in 1..f+n+1
    BY <1>2, <1>4
  <2>2. at[i + 1] = at[i] + sizes[i] /\ at[i] \in Nat /\ at[i + 1] \in Nat /\ sizes[i] \in Nat
    BY <1>9, <1>10, <2>1
  <2>3. at[i + 1] <= at[f + n + 1]
    BY <1>8, <2>1, OffsetsGrow DEF at
  <2>4. at[f + n + 1] <= c.flash /\ at[f + n + 1] \in Nat
    <3> DEFINE e == EndOf(fixed) + n * share
    <3>1. e <= c.flash
      BY <1>5
    <3> HIDE DEF e
    <3>2. at[f + n + 1] = e
      BY <1>12 DEF e
    <3>3. at[f + n + 1] \in Nat
      BY <1>10, <2>1
    <3> QED
      BY <3>1, <3>2, <3>3
  <2>5. p[i].offset = at[i] /\ p[i].size = sizes[i] /\ c.flash \in Nat
    BY <1>1, <1>14
  <2>6. at[i] + sizes[i] <= c.flash
    BY <2>2, <2>3, <2>4, <2>5
  <2> QED
    BY <2>2, <2>5, <2>6
<1>24. InPlace(t)
  BY <1>15, <1>17, <1>18, <1>19, <1>23 DEF InPlace
<1>25. Complete(t)
  BY <1>15, <1>16, <1>17, <1>20, <1>21, <1>22 DEF Complete, n
<1>26. Len(p) \in Nat
  BY <1>2, <1>4, <1>14
<1> QED
  BY <1>23, <1>24, <1>25, <1>26 DEF t, p

\* What is left of a table that is cut short is in place.
LEMMA CutsInPlace ==
  ASSUME NEW t, NEW u, t.config = u.config, u.parts \in Cuts(t.parts), InPlace(t),
         Len(t.parts) \in Nat,
         \A i \in 1..Len(t.parts) : t.parts[i].offset \in Nat /\ t.parts[i].size \in Nat,
         t.config.flash \in Nat
  PROVE  InPlace(u)
<1>1. CASE u.parts = <<>>
  BY <1>1 DEF InPlace
<1>2. ASSUME NEW n \in 1..Len(t.parts), NEW lost \in Places, u.parts = Cut(t.parts, n, lost)
      PROVE  InPlace(u)
  <2> DEFINE p == t.parts
             q == u.parts
             size == p[n].size \div lost
  <2>1. n \in Nat /\ n \in 1..Len(p) /\ Len(p) \in Nat /\ lost \in Nat \ {0} /\ p[n].size \in Nat
    BY <1>2 DEF Places
  <2>2. size \in Nat /\ size <= p[n].size
    BY <2>1, DivShrinks
  <2> HIDE DEF size
  <2>3. /\ Len(q) = n /\ q # <<>>
        /\ \A i \in 1..n-1 : q[i] = p[i]
        /\ q[n].offset = p[n].offset /\ q[n].size = size
    <3>1. q = [i \in 1..n |-> IF i < n THEN p[i] ELSE [offset |-> p[n].offset, size |-> size]]
      BY <1>2 DEF size, Cut
    <3>2. n \in 1..n /\ ~(n < n) /\ \A i \in 1..n-1 : i \in 1..n /\ i < n
      BY <2>1
    <3> HIDE DEF p, q
    <3>3. q \in Seq({q[i] : i \in 1..n}) /\ Len(q) = n
      BY <2>1, <3>1
    <3> QED
      BY <2>1, <3>1, <3>2, <3>3
  <2>4. /\ \A i \in 1..Len(p) : /\ p[i].offset % BlockSize = FirstOffset % BlockSize
                               /\ p[i].offset + p[i].size <= t.config.flash
        /\ \A i \in 1..Len(p) - 1 : p[i].offset + p[i].size = p[i + 1].offset
        /\ p # <<>> => p[1].offset = FirstOffset
    BY DEF InPlace
  <2> HIDE DEF p, q
  <2>5. \A i \in 1..n : /\ i \in 1..Len(p) /\ (i = n \/ i \in 1..n-1)
                        /\ q[i].offset = p[i].offset /\ p[i].offset \in Nat
    BY <2>1, <2>3 DEF p
  <2>6. ASSUME NEW i \in 1..n
        PROVE  /\ q[i].offset % BlockSize = FirstOffset % BlockSize
               /\ q[i].offset + q[i].size <= u.config.flash
    <3>1. i \in 1..Len(p) /\ p[i].offset \in Nat /\ q[i].offset = p[i].offset
      BY <2>5
    <3>2. p[i].offset + p[i].size <= t.config.flash /\ p[i].size \in Nat
      BY <2>4, <3>1 DEF p
    <3>3. q[i].size \in Nat /\ q[i].size <= p[i].size
      BY <2>2, <2>3, <2>5, <3>2
    <3> QED
      BY <2>4, <3>1, <3>2, <3>3
  <2>7. ASSUME NEW i \in 1..n-1 PROVE q[i].offset + q[i].size = q[i + 1].offset
    <3>1. i \in 1..n /\ i + 1 \in 1..n /\ i \in 1..Len(p) - 1
      BY <2>1
    <3> QED
      BY <2>3, <2>4, <2>5, <3>1
  <2>8. q[1].offset = FirstOffset
    <3>1. 1 \in 1..n /\ p # <<>>
      BY <2>1
    <3> QED
      BY <2>4, <2>5, <3>1
  <2> QED
    BY <2>3, <2>6, <2>7, <2>8 DEF InPlace, q
<1>3. \/ u.parts = <<>>
      \/ \E n \in 1..Len(t.parts), lost \in Places : u.parts = Cut(t.parts, n, lost)
  BY DEF Cuts
<1> QED
  BY <1>1, <1>2, <1>3

-----------------------------------------------------------------------------
(* The table on disk *)

\* A table is the layout of a configuration that has passed the checks, or what is left
\* of one.
TableOfLayout ==
  csv # None =>
    /\ LeftSlots(csv.config) \in Nat /\ CanLayOut(csv.config, csv.image)
    /\ IF csv.whole THEN csv = Laid(csv.config, csv.image)
                    ELSE csv.parts \in Cuts(Partitions(csv.config, csv.image))

\* Only the runner writes it, and only after the checks; a build keeps it or not.
LEMMA NextTableOfLayout == TypeOK /\ TableOfLayout /\ [Next]_vars => TableOfLayout'
<1> SUFFICES ASSUME TypeOK, TableOfLayout, [Next]_vars PROVE TableOfLayout'
  OBVIOUS
<1>1. CASE LayOut
  <2> DEFINE t == Laid(tool, elf.image)
  <2>1. csv' = t /\ CanLayOut(tool, elf.image)
    BY <1>1 DEF LayOut, Laid
  <2>2. LeftSlots(tool) \in Nat
    BY <1>1, FlasherAssumption DEF TypeOK, LayOut
  <2>3. t.config = tool /\ t.image = elf.image /\ t.whole
    BY DEF Laid
  <2> QED
    BY <2>1, <2>2, <2>3 DEF TableOfLayout
<1>2. CASE csv' \in {csv, None}
  BY <1>2 DEF TableOfLayout
<1>3. CASE CutsTable
  <2>1. LeftSlots(tool) \in Nat /\ CanLayOut(tool, elf.image)
    BY <1>3, FlasherAssumption DEF TypeOK, CutsTable
  <2>2. /\ csv'.config = tool /\ csv'.image = elf.image /\ ~csv'.whole
        /\ csv'.parts \in Cuts(Partitions(tool, elf.image))
    BY <1>3 DEF CutsTable
  <2> QED
    BY <2>1, <2>2 DEF TableOfLayout
<1>4. CASE ~LayOut /\ ~CutsTable
  BY <1>2, <1>4 DEF Next, Build, Begin, CopyElf, SaveImage, Flash, Fails, vars
<1> QED
  BY <1>1, <1>3, <1>4

\* For all configurations, image and block sizes: whatever is built and wherever the
\* runner stops, the partitions of a table on disk lie one after the other at block
\* boundaries inside the flash; one written to its end holds every partition asked for,
\* in whole blocks, and wastes no block that all slots could have.
THEOREM FlasherTableSound == Spec => []TableSound
<1>1. Init => TableOfLayout
  BY DEF Init, TableOfLayout
<1>2. TypeOK /\ TableOfLayout => TableSound
  <2> SUFFICES ASSUME TypeOK, TableOfLayout, csv # None
               PROVE  InPlace(csv) /\ (csv.whole => Complete(csv))
    BY DEF TableSound
  <2> DEFINE t == Laid(csv.config, csv.image)
  <2>1. /\ csv.config \in Configs /\ csv.image \in ImageSizes
        /\ LeftSlots(csv.config) \in Nat /\ CanLayOut(csv.config, csv.image)
    BY DEF TypeOK, TableOfLayout
  <2>2. /\ InPlace(t) /\ Complete(t)
        /\ Len(Partitions(csv.config, csv.image)) \in Nat
        /\ \A i \in 1..Len(Partitions(csv.config, csv.image)) :
             /\ Partitions(csv.config, csv.image)[i].offset \in Nat
             /\ Partitions(csv.config, csv.image)[i].size \in Nat
    BY <2>1, PartitionsSound
  <2>3. CASE csv.whole
    <3>1. csv = t
      BY <2>3 DEF TableOfLayout
    <3> QED
      BY <2>2, <3>1
  <2>4. CASE ~csv.whole
    <3>1. csv.parts \in Cuts(Partitions(csv.config, csv.image))
      BY <2>4 DEF TableOfLayout
    <3>2. t.config = csv.config /\ t.parts = Partitions(csv.config, csv.image)
      BY DEF Laid
    <3>3. csv.config.flash \in Nat
      BY <2>1, FlasherAssumption
    <3> HIDE DEF t
    <3>4. InPlace(csv)
      BY <2>2, <3>1, <3>2, <3>3, CutsInPlace
    <3> QED
      BY <2>4, <3>4
  <2> QED
    BY <2>3, <2>4
<1> QED
  BY <1>1, <1>2, NextTableOfLayout, FlasherTypeCorrect, PTL DEF Spec
=============================================================================
