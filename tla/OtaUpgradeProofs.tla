--------------------------- MODULE OtaUpgradeProofs ---------------------------
(***************************************************************************)
(* An upgrade that is not broken off leaves the file that was sent, and    *)
(* the old firmware boots until it is there, for every file and flash.     *)
(***************************************************************************)
EXTENDS OtaUpgrade, TLAPS

Area == AreaSectors * FLASH_SECTOR_SIZE
FirstUnit(s) == s * FLASH_SECTOR_SIZE

\* The first n units of an area are those of the file.
Prefix(area, n) == \A a \in Addr : a < n => area[a] = Image(sending)[a]

\* The buffer holds the units of the file behind the sectors written.
Buffered == \A o \in Offset :
    o < WritePtr => OtaDataBuf[o] = Image(sending)[FirstUnit(upgradeSector) + o]

\* Between two upgrades.
Waiting ==
    /\ upgradeFlag \in {"off", "start"} /\ upgradeSector = 0 /\ i = 0 /\ Bootable
    /\ upgradeFlag = "start" => fileSize = Size(sending)

\* While a file is received.
Receiving ==
    /\ fileSize = Size(sending) /\ i = 0 /\ Bootable
    /\ \/ /\ upgradeFlag = "start" /\ pc = "turn"
          /\ sent = 0 /\ upgradeSector = 0
       \/ /\ upgradeFlag = "doing" /\ recvFileSize = sent
          /\ sent = FirstUnit(upgradeSector) + WritePtr
          /\ WritePtr < FLASH_SECTOR_SIZE /\ sent < Size(sending)
          /\ Prefix(bak, FirstUnit(upgradeSector)) /\ Buffered

\* While it is copied.
Copying ==
    /\ i <= upgradeSector /\ Size(sending) <= FirstUnit(upgradeSector)
    /\ Holds(bak, sending)
    /\ \A a \in Addr : a < FirstUnit(i) => main[a] = bak[a]

Undisturbed ==
    aborts = 0 => /\ pc = "wait" => Waiting
                  /\ pc \in {"turn", "recv"} => Receiving
                  /\ pc = "copy" => Copying
                  /\ pc = "done" => Holds(main, sending)

OtaInv == TypeOK /\ Undisturbed
-----------------------------------------------------------------------------
(* Sectors and units. *)

LEMMA AreaFacts ==
    /\ FLASH_SECTOR_SIZE \in Nat \ {0} /\ Area \in Nat
    /\ Addr = 0..(Area - 1) /\ Offset = 0..(FLASH_SECTOR_SIZE - 1)
    /\ \A f \in File : Size(f) \in 1..Area
<1>1. FLASH_SECTOR_SIZE \in Nat /\ AreaSectors \in Nat
  BY OtaConstants
<1>2. Area \in Nat
  BY <1>1 DEF Area
<1> QED
  BY <1>2, OtaConstants DEF Area, Addr, Offset

\* The units of sector s, and their places in it.
LEMMA SectorUnits ==
    ASSUME NEW w \in Nat \ {0}, NEW a \in Nat, NEW s \in Nat
    PROVE  /\ s * w \in Nat /\ (s + 1) * w = s * w + w
           /\ a \div w = s <=> (s * w <= a /\ a < s * w + w)
           /\ a \div w = s => a % w = a - s * w
           /\ a % w \in 0..(w - 1)
<1>1. s * w \in Nat /\ (s + 1) * w = s * w + w
  BY SMT
<1>2. a % w \in 0..(w - 1)
  BY SMT
<1>3. PICK q \in Nat : q = a \div w
  BY SMT
<1>4. q * w \in Nat /\ a = q * w + (a % w)
  <2>1. a = w * (a \div w) + (a % w)
    BY SMT
  <2>2. w * q = q * w /\ q * w \in Nat
    BY SMT
  <2> QED
    BY <1>3, <2>1, <2>2
<1>5. q * w <= a /\ a < q * w + w
  BY <1>2, <1>4
<1>6. ASSUME s * w <= a, a < s * w + w
      PROVE  q = s
  <2>1. ASSUME s < q PROVE FALSE
    <3>1. (s + 1) * w <= q * w
      BY <2>1, SMT
    <3> QED
      BY <1>1, <1>5, <1>6, <3>1
  <2>2. ASSUME q < s PROVE FALSE
    <3>1. (q + 1) * w <= s * w /\ (q + 1) * w = q * w + w
      BY <2>2, SMT
    <3> QED
      BY <1>1, <1>5, <1>6, <3>1
  <2> QED
    BY <2>1, <2>2
<1> QED
  BY <1>1, <1>2, <1>3, <1>4, <1>5, <1>6

LEMMA FirstUnitFacts ==
    ASSUME NEW s \in Nat
    PROVE  FirstUnit(s) \in Nat /\ FirstUnit(s + 1) = FirstUnit(s) + FLASH_SECTOR_SIZE
BY AreaFacts, SectorUnits DEF FirstUnit

LEMMA FirstOfAll == FirstUnit(0) = 0
BY AreaFacts DEF FirstUnit

\* The write of a sector changes the units of this sector.
LEMMA WrittenUnits ==
    ASSUME NEW s \in Nat, NEW area, NEW buf, NEW o, o # "bad", NEW a \in Addr
    PROVE  Written(area, s, buf, o)[a] =
             IF FirstUnit(s) <= a /\ a < FirstUnit(s) + FLASH_SECTOR_SIZE
             THEN buf[a - FirstUnit(s)] ELSE area[a]
<1>1. a \in Nat
  BY AreaFacts
<1>2. /\ a \div FLASH_SECTOR_SIZE = s
           <=> (FirstUnit(s) <= a /\ a < FirstUnit(s) + FLASH_SECTOR_SIZE)
      /\ a \div FLASH_SECTOR_SIZE = s => a % FLASH_SECTOR_SIZE = a - FirstUnit(s)
  BY <1>1, AreaFacts, SectorUnits DEF FirstUnit
<1>3. Written(area, s, buf, o)[a] =
        IF a \div FLASH_SECTOR_SIZE # s THEN area[a] ELSE buf[a % FLASH_SECTOR_SIZE]
  BY DEF Written
<1> QED
  BY <1>2, <1>3

LEMMA WrittenType ==
    ASSUME NEW s, NEW area \in [Addr -> Unit], NEW buf \in [Offset -> Unit], NEW o
    PROVE  Written(area, s, buf, o) \in [Addr -> Unit]
<1>1. \A a \in Addr : a % FLASH_SECTOR_SIZE \in Offset
  <2> TAKE a \in Addr
  <2>1. a \in Nat
    BY AreaFacts
  <2> QED
    BY <2>1, AreaFacts, SectorUnits
<1>2. Junk \in Unit
  BY DEF Unit
<1> QED
  BY <1>1, <1>2 DEF Written

LEMMA SectorType ==
    ASSUME NEW s \in Nat, NEW area \in [Addr -> Unit]
    PROVE  SectorOf(area, s) \in [Offset -> Unit]
<1>1. ASSUME s \in Sector, NEW o \in Offset
      PROVE  s * FLASH_SECTOR_SIZE + o \in Addr
  <2>1. (s + 1) * FLASH_SECTOR_SIZE <= AreaSectors * FLASH_SECTOR_SIZE
    <3>1. s + 1 <= AreaSectors /\ s + 1 \in Nat /\ AreaSectors \in Nat
          /\ FLASH_SECTOR_SIZE \in Nat
      BY <1>1, OtaConstants DEF Sector
    <3>2. \A x, y, z \in Nat : x <= y => x * z <= y * z
      BY SMT
    <3> QED
      BY <3>1, <3>2
  <2>2. FirstUnit(s) \in Nat /\ FirstUnit(s) + FLASH_SECTOR_SIZE <= Area
    BY <2>1, FirstUnitFacts DEF FirstUnit, Area
  <2>3. FirstUnit(s) + o \in Addr
    BY <2>2, <1>1, AreaFacts
  <2> QED
    BY <2>3 DEF FirstUnit
<1>2. Junk \in Unit
  BY DEF Unit
<1> QED
  BY <1>1, <1>2 DEF SectorOf

LEMMA ImageType == \A f \in File : Image(f) \in [Addr -> Unit]
BY DEF Image, Unit
-----------------------------------------------------------------------------
(* Types. *)

\* What a piece of data leaves in the buffer.
LEMMA BufferType ==
    ASSUME TypeOK, NEW n \in 1..FLASH_SECTOR_SIZE, Recv(n)
    PROVE  OtaDataBuf' \in [Offset -> Unit]
<1>1. sending \in File /\ sent \in Nat /\ WritePtr \in Nat /\ n \in Nat
      /\ n <= Size(sending) - sent /\ Size(sending) \in 1..Area /\ Area \in Nat
  BY AreaFacts DEF TypeOK, Recv
<1>2. ASSUME NEW o \in Offset, o \in WritePtr..(WritePtr + n - 1)
      PROVE  sent + o - WritePtr \in Addr
  BY <1>1, <1>2, AreaFacts
<1>3. ASSUME NEW o \in Offset, o \in WritePtr..(WritePtr + n - 1)
      PROVE  Image(sending)[sent + o - WritePtr] \in Unit
  BY <1>1, <1>2, <1>3, ImageType
<1> QED
  BY <1>3 DEF TypeOK, Recv

LEMMA NextType ==
    ASSUME TypeOK, [Next]_vars
    PROVE  TypeOK'
<1> USE AreaFacts DEF TypeOK
<1>1. ASSUME NEW f \in File, Command(f) PROVE TypeOK'
  BY <1>1, OtaConstants DEF Command, flash
<1>2. CASE Accept
  BY <1>2 DEF Accept, download, flash
<1>3. CASE Turn
  <2>1. CASE upgradeFlag = "off"
    BY <1>3, <2>1 DEF Turn, BreakOff, download, updater, flash
  <2>2. CASE upgradeFlag = "start"
    BY <1>3, <2>2 DEF Turn, download, updater, flash
  <2>3. CASE upgradeFlag = "doing"
    BY <1>3, <2>3 DEF Turn, download, updater, flash
  <2> QED
    BY <1>3, <2>1, <2>2, <2>3 DEF Turn
<1>4. ASSUME NEW n \in 1..FLASH_SECTOR_SIZE, Recv(n) PROVE TypeOK'
  <2>1. OtaDataBuf' \in [Offset -> Unit]
    BY <1>4, BufferType
  <2>2. bak' \in [Addr -> Unit]
    <3>1. bak' = bak \/ \E o \in FlashOutcome : bak' = Written(bak, upgradeSector, OtaDataBuf', o)
      BY <1>4 DEF Recv
    <3> QED
      BY <2>1, <3>1, WrittenType
  <2>3. WritePtr' \in 0..FLASH_SECTOR_SIZE
    <3>1. WritePtr' \in {0, WritePtr + n} /\ n <= FLASH_SECTOR_SIZE - WritePtr
      BY <1>4 DEF Recv, RoomLeft
    <3> QED
      BY <3>1
  <2>4. /\ upgradeSector' \in {upgradeSector, upgradeSector + 1}
        /\ pc' \in {"copy", "turn", "wait"} /\ upgradeFlag' \in {upgradeFlag, "off"}
        /\ i' \in {i, 0} /\ sent' = sent + n /\ recvFileSize' = recvFileSize + n
        /\ aborts' = aborts \/ (aborts < Aborts /\ aborts' = aborts + 1)
        /\ UNCHANGED <<fileSize, sending, commands, main>>
    BY <1>4 DEF Recv, BreakOff
  <2> QED
    BY <2>1, <2>2, <2>3, <2>4, OtaConstants
<1>5. CASE RecvFails
  BY <1>5, OtaConstants DEF RecvFails, BreakOff, download, updater, flash
<1>6. CASE Copy
  <2>1. OtaDataBuf' \in [Offset -> Unit]
    BY <1>6, SectorType DEF Copy
  <2>2. main' \in [Addr -> Unit]
    BY <1>6, <2>1, WrittenType DEF Copy
  <2> QED
    BY <1>6, <2>1, <2>2, OtaConstants DEF Copy, BreakOff, updater
<1>7. CASE Finish
  BY <1>7 DEF Finish, updater, flash
<1>8. CASE Reset
  <2>1. bak' \in [Addr -> Unit] /\ main' \in [Addr -> Unit]
    BY <1>8, WrittenType DEF Reset, TornWrite, flash
  <2>2. OtaDataBuf' \in [Offset -> Unit]
    BY <1>8 DEF Reset, Unit
  <2>3. pc' \in {"wait", "dead"} /\ aborts' \in 0..Aborts
    BY <1>8, OtaConstants DEF Reset
  <2>4. upgradeFlag' = "off" /\ i' = 0 /\ fileSize' = 0 /\ recvFileSize' = 0
        /\ WritePtr' = 0 /\ upgradeSector' = 0 /\ UNCHANGED updater
    BY <1>8 DEF Reset
  <2> QED
    BY <2>1, <2>2, <2>3, <2>4 DEF updater
<1>9. CASE UNCHANGED vars
  BY <1>9 DEF vars, download, updater, flash
<1> QED
  BY <1>1, <1>2, <1>3, <1>4, <1>5, <1>6, <1>7, <1>8, <1>9 DEF Next

LEMMA InitType == Init => TypeOK
BY OtaConstants, AreaFacts, ImageType DEF Init, TypeOK, Unit
-----------------------------------------------------------------------------
(* The download. *)

\* A unit that arrives is put in its place, and the others stay.
LEMMA BufferAfter ==
    ASSUME OtaInv, aborts = 0, NEW n \in 1..FLASH_SECTOR_SIZE, Recv(n)
    PROVE  /\ sent = FirstUnit(upgradeSector) + WritePtr /\ recvFileSize = sent
           /\ fileSize = Size(sending) /\ FirstUnit(upgradeSector) \in Nat
           /\ sent + n <= Size(sending) /\ WritePtr + n <= FLASH_SECTOR_SIZE
           /\ Prefix(bak, FirstUnit(upgradeSector)) /\ Bootable
           /\ upgradeFlag = "doing" /\ i = 0
           /\ \A o \in Offset : o < WritePtr + n =>
                OtaDataBuf'[o] = Image(sending)[FirstUnit(upgradeSector) + o]
<1>1. Receiving /\ pc = "recv" /\ TypeOK
  BY DEF OtaInv, Undisturbed, Recv
<1>2. /\ sent = FirstUnit(upgradeSector) + WritePtr /\ recvFileSize = sent
      /\ fileSize = Size(sending) /\ Prefix(bak, FirstUnit(upgradeSector))
      /\ Buffered /\ Bootable /\ upgradeFlag = "doing" /\ i = 0
  BY <1>1 DEF Receiving
<1>3. /\ FirstUnit(upgradeSector) \in Nat /\ sent \in Nat /\ WritePtr \in Nat
      /\ Size(sending) \in Nat
  <2>1. upgradeSector \in Nat /\ sending \in File /\ sent \in Nat
        /\ WritePtr \in 0..FLASH_SECTOR_SIZE
    BY <1>1 DEF TypeOK
  <2>2. FirstUnit(upgradeSector) \in Nat
    BY <2>1, FirstUnitFacts
  <2>3. Size(sending) \in Nat /\ WritePtr \in Nat
    BY <2>1, AreaFacts
  <2> QED
    BY <2>1, <2>2, <2>3
<1>4. sent + n <= Size(sending) /\ WritePtr + n <= FLASH_SECTOR_SIZE
  BY <1>3, AreaFacts DEF Recv, RoomLeft
<1>5. ASSUME NEW o \in Offset, o < WritePtr + n
      PROVE  OtaDataBuf'[o] = Image(sending)[FirstUnit(upgradeSector) + o]
  <2>1. OtaDataBuf'[o] = IF o \in WritePtr..(WritePtr + n - 1)
                         THEN Image(sending)[sent + o - WritePtr] ELSE OtaDataBuf[o]
    BY DEF Recv
  <2>2. CASE o < WritePtr
    BY <1>2, <1>3, <2>1, <2>2 DEF Buffered
  <2>3. CASE o >= WritePtr
    <3>1. o \in WritePtr..(WritePtr + n - 1)
          /\ sent + o - WritePtr = FirstUnit(upgradeSector) + o
      BY <1>2, <1>3, <1>5, <2>3, AreaFacts
    <3> QED
      BY <2>1, <3>1
  <2> QED
    BY <1>3, <2>2, <2>3, AreaFacts
<1> QED
  BY <1>2, <1>3, <1>4, <1>5

\* A sector written from the buffer makes the prefix in the backup area
\* longer by the units of the buffer.
LEMMA LongerPrefix ==
    ASSUME NEW u \in Nat, NEW area, NEW buf, NEW o, o # "bad", NEW m \in 0..FLASH_SECTOR_SIZE,
           \A a \in Addr : a < FirstUnit(u) => area[a] = Image(sending)[a],
           \A x \in Offset : x < m => buf[x] = Image(sending)[FirstUnit(u) + x],
           NEW a \in Addr, a < FirstUnit(u) + m
    PROVE  Written(area, u, buf, o)[a] = Image(sending)[a]
<1>1. FirstUnit(u) \in Nat /\ a \in Nat /\ m \in Nat
  BY FirstUnitFacts, AreaFacts
<1>2. CASE a < FirstUnit(u)
  BY <1>1, <1>2, WrittenUnits
<1>3. CASE FirstUnit(u) <= a
  <2>1. Written(area, u, buf, o)[a] = buf[a - FirstUnit(u)]
    BY <1>1, <1>3, WrittenUnits, AreaFacts
  <2>2. a - FirstUnit(u) \in Offset /\ a - FirstUnit(u) < m
        /\ FirstUnit(u) + (a - FirstUnit(u)) = a
    BY <1>1, <1>3, AreaFacts
  <2> QED
    BY <2>1, <2>2
<1> QED
  BY <1>1, <1>2, <1>3

LEMMA RecvUndisturbed ==
    ASSUME OtaInv, "bad" \notin FlashOutcome, NEW n \in 1..FLASH_SECTOR_SIZE, Recv(n)
    PROVE  Undisturbed'
<1> SUFFICES ASSUME aborts' = 0
             PROVE  /\ pc' \in {"turn", "recv"} => Receiving'
                    /\ pc' = "copy" => Copying'
                    /\ pc' \notin {"wait", "done"}
  BY DEF Undisturbed
<1>1. aborts = 0 /\ aborts' = aborts
  BY DEF Recv, OtaInv, TypeOK
<1> DEFINE u == upgradeSector
           m == WritePtr + n
<1>2. /\ sent = FirstUnit(u) + WritePtr /\ recvFileSize = sent
      /\ fileSize = Size(sending) /\ FirstUnit(u) \in Nat
      /\ sent + n <= Size(sending) /\ m <= FLASH_SECTOR_SIZE
      /\ Prefix(bak, FirstUnit(u)) /\ Bootable /\ upgradeFlag = "doing" /\ i = 0
      /\ \A o \in Offset : o < m => OtaDataBuf'[o] = Image(sending)[FirstUnit(u) + o]
  BY <1>1, BufferAfter
<1>3. /\ u \in Nat /\ m \in 1..FLASH_SECTOR_SIZE /\ sent \in Nat /\ WritePtr \in Nat
      /\ Size(sending) \in Nat
  BY <1>2, AreaFacts DEF OtaInv, TypeOK
<1>4. /\ sending' = sending /\ fileSize' = fileSize /\ main' = main
      /\ sent' = sent + n /\ recvFileSize' = recvFileSize + n /\ Bootable'
      /\ sent' = FirstUnit(u) + m
  BY <1>2, <1>3 DEF Recv, Bootable, Holds
<1>5. CASE Complete(n) \/ m = FLASH_SECTOR_SIZE
  <2>1. PICK o \in FlashOutcome :
          /\ bak' = Written(bak, u, OtaDataBuf', o)
          /\ WriteResult[o] = 0 /\ u' = u + 1 /\ WritePtr' = 0
          /\ pc' = IF Complete(n) THEN "copy" ELSE "turn"
          /\ upgradeFlag' = upgradeFlag /\ i' = i
    BY <1>1, <1>5 DEF Recv, OtaInv, TypeOK
  <2>2. \A a \in Addr : a < FirstUnit(u) + m => bak'[a] = Image(sending)[a]
    <3> HIDE DEF u, m
    <3> QED
      BY <1>2, <1>3, <2>1, LongerPrefix DEF Prefix
  <2>3. FirstUnit(u') = FirstUnit(u) + FLASH_SECTOR_SIZE /\ FirstUnit(u') \in Nat
    BY <1>3, <2>1, FirstUnitFacts
  <2>4. CASE Complete(n)
    <3>1. FirstUnit(u) + m = Size(sending)
      BY <1>2, <1>4, <2>4 DEF Complete
    <3>2. Holds(bak', sending')
      BY <1>4, <2>2, <3>1 DEF Holds
    <3>3. Size(sending') <= FirstUnit(u')
      BY <1>2, <1>3, <1>4, <2>3, <3>1, AreaFacts
    <3>4. i' <= u' /\ \A a \in Addr : a < FirstUnit(i') => main'[a] = bak'[a]
      BY <1>2, <1>3, <2>1, FirstOfAll, AreaFacts
    <3> QED
      BY <2>1, <2>4, <3>2, <3>3, <3>4 DEF Copying
  <2>5. CASE ~Complete(n)
    <3>1. m = FLASH_SECTOR_SIZE /\ FirstUnit(u') = FirstUnit(u) + m
      BY <1>5, <2>3, <2>5
    <3>2. Prefix(bak, FirstUnit(u))'
      BY <1>4, <2>2, <3>1 DEF Prefix
    <3>3. sent' = FirstUnit(u') + WritePtr'
      <4> HIDE DEF u, m
      <4> QED
        BY <1>2, <1>3, <1>4, <2>1, <3>1
    <3>4. sent' < Size(sending')
      BY <1>2, <1>3, <1>4, <2>5 DEF Complete
    <3>5. Buffered'
      BY <2>1, AreaFacts DEF Buffered
    <3> QED
      BY <1>2, <1>4, <2>1, <2>5, <3>2, <3>3, <3>4, <3>5, AreaFacts DEF Receiving
  <2> QED
    BY <2>4, <2>5
<1>6. CASE ~Complete(n) /\ m # FLASH_SECTOR_SIZE
  <2>1. /\ WritePtr' = m /\ pc' = "turn" /\ u' = u /\ bak' = bak
        /\ upgradeFlag' = upgradeFlag /\ i' = i
    BY <1>6 DEF Recv
  <2>2. Prefix(bak, FirstUnit(u))' /\ Buffered'
    BY <1>2, <1>4, <2>1 DEF Prefix, Buffered
  <2>3. sent' < Size(sending') /\ m < FLASH_SECTOR_SIZE
    BY <1>2, <1>3, <1>4, <1>6, AreaFacts DEF Complete
  <2> QED
    BY <1>2, <1>4, <2>1, <2>2, <2>3 DEF Receiving
<1> QED
  BY <1>5, <1>6
-----------------------------------------------------------------------------
(* The copy, and the rest. *)

LEMMA CopyUndisturbed ==
    ASSUME OtaInv, "bad" \notin FlashOutcome, Copy
    PROVE  Undisturbed'
<1> SUFFICES ASSUME aborts' = 0 PROVE pc' = "copy" /\ Copying'
  BY DEF Undisturbed
<1>1. aborts = 0 /\ TypeOK /\ Copying
  BY DEF Copy, OtaInv, TypeOK, Undisturbed
<1>2. PICK o \in FlashOutcome :
        main' = Written(main, i, OtaDataBuf', o) /\ WriteResult[o] = 0 /\ i' = i + 1 /\ pc' = pc
  BY <1>1 DEF Copy, TypeOK
<1>3. i \in Nat /\ FirstUnit(i) \in Nat /\ FirstUnit(i') = FirstUnit(i) + FLASH_SECTOR_SIZE
  BY <1>1, <1>2, FirstUnitFacts DEF TypeOK
<1>4. ASSUME NEW a \in Addr, a < FirstUnit(i')
      PROVE  main'[a] = bak[a]
  <2>1. a \in Nat
    BY AreaFacts
  <2>2. CASE a < FirstUnit(i)
    BY <1>1, <1>2, <1>3, <2>1, <2>2, WrittenUnits DEF Copying
  <2>3. CASE FirstUnit(i) <= a
    <3>1. main'[a] = OtaDataBuf'[a - FirstUnit(i)] /\ a - FirstUnit(i) \in Offset
      BY <1>2, <1>3, <1>4, <2>1, <2>3, WrittenUnits, AreaFacts
    <3>2. i \in Sector
      <4>1. FirstUnit(i) < Area
        BY <1>3, <2>1, <2>3, AreaFacts
      <4>2. \A x, y, z \in Nat : x >= y => x * z >= y * z
        BY SMT
      <4>3. ~(i >= AreaSectors)
        BY <1>3, <4>1, <4>2, OtaConstants, AreaFacts DEF FirstUnit, Area
      <4> QED
        BY <1>3, <4>3, OtaConstants DEF Sector
    <3>3. OtaDataBuf'[a - FirstUnit(i)] = bak[FirstUnit(i) + (a - FirstUnit(i))]
      BY <3>1, <3>2 DEF Copy, SectorOf, FirstUnit
    <3>4. FirstUnit(i) + (a - FirstUnit(i)) = a
      BY <1>3, <2>1
    <3> QED
      BY <3>1, <3>3, <3>4
  <2> QED
    BY <1>3, <2>1, <2>2, <2>3
<1> QED
  BY <1>1, <1>2, <1>4 DEF Copy, Copying, Holds, TypeOK, CopyCount, updater

LEMMA NextUndisturbed ==
    ASSUME OtaInv, "bad" \notin FlashOutcome, [Next]_vars
    PROVE  Undisturbed'
<1>a. TypeOK /\ Undisturbed
  BY DEF OtaInv
<1>1. ASSUME NEW f \in File, Command(f) PROVE Undisturbed'
  <2> SUFFICES ASSUME aborts' = 0 PROVE Undisturbed'
    BY DEF Undisturbed
  <2>1. aborts = 0 /\ upgradeFlag' = IF upgradeFlag = "off" THEN "start" ELSE upgradeFlag
    BY <1>a, <1>1 DEF Command, Misannounced, TypeOK
  <2>2. CASE pc = "wait"
    BY <1>a, <1>1, <2>1, <2>2 DEF Undisturbed, Waiting, Command, Bootable, Holds, flash
  <2>3. CASE pc # "wait"
    <3>1. /\ sending' = sending
          /\ pc \in {"turn", "recv"} => fileSize' = Size(sending)
      BY <1>a, <1>1, <2>1, <2>3 DEF Command, Misannounced, TypeOK
    <3> QED
      BY <1>a, <1>1, <2>1, <2>3, <3>1
         DEF Undisturbed, Receiving, Copying, Command, Bootable, Holds, Prefix, Buffered, flash
  <2> QED
    BY <2>2, <2>3
<1>2. CASE Accept
  BY <1>a, <1>2 DEF Undisturbed, Waiting, Receiving, Accept, Bootable, Holds, download, flash
<1>3. CASE Turn
  <2> SUFFICES ASSUME aborts = 0, aborts' = 0 PROVE pc' = "recv" /\ Receiving'
    BY <1>3 DEF Turn, Undisturbed
  <2>1. Receiving /\ pc' = "recv" /\ upgradeFlag' = "doing"
    BY <1>a, <1>3 DEF Undisturbed, Turn, Receiving
  <2>2. CASE upgradeFlag = "start"
    <3>1. /\ sent' = 0 /\ WritePtr' = 0 /\ recvFileSize' = 0 /\ upgradeSector' = 0
          /\ fileSize' = fileSize /\ sending' = sending /\ bak' = bak /\ main' = main /\ i' = i
      BY <1>3, <2>1, <2>2 DEF Turn, Receiving, updater, flash
    <3>2. Prefix(bak, FirstUnit(upgradeSector))' /\ Buffered'
      BY <3>1, FirstOfAll, AreaFacts DEF Prefix, Buffered
    <3>3. Size(sending) \in 1..Area
      BY <1>a, AreaFacts DEF TypeOK
    <3> QED
      BY <2>1, <3>1, <3>2, <3>3, FirstOfAll, AreaFacts DEF Receiving, Bootable, Holds
  <2>3. CASE upgradeFlag # "start"
    BY <1>3, <2>1, <2>3 DEF Turn, Receiving, Prefix, Buffered, Bootable, Holds, download, updater, flash
  <2> QED
    BY <2>2, <2>3
<1>4. ASSUME NEW n \in 1..FLASH_SECTOR_SIZE, Recv(n) PROVE Undisturbed'
  BY <1>4, RecvUndisturbed
<1>5. CASE RecvFails
  BY <1>a, <1>5 DEF RecvFails, Undisturbed, TypeOK
<1>6. CASE Copy
  BY <1>6, CopyUndisturbed
<1>7. CASE Finish
  <2> SUFFICES ASSUME aborts = 0 PROVE Holds(main, sending)
    BY <1>7 DEF Finish, Undisturbed, Holds, updater, flash
  <2>1. Copying /\ i = upgradeSector
    BY <1>a, <1>7 DEF Finish, Undisturbed, CopyCount
  <2>2. i \in Nat /\ sending \in File
    BY <1>a DEF TypeOK
  <2>3. FirstUnit(i) \in Nat
    BY <2>2, FirstUnitFacts
  <2>4. Size(sending) \in Nat
    BY <2>2, AreaFacts
  <2> QED
    BY <2>1, <2>3, <2>4, AreaFacts DEF Copying, Holds
<1>8. CASE Reset
  BY <1>8 DEF Reset, Undisturbed, Waiting
<1>9. CASE UNCHANGED vars
  BY <1>a, <1>9 DEF vars, download, updater, flash, Undisturbed, Waiting, Receiving, Copying, Bootable,
     Holds, Prefix, Buffered
<1> QED
  BY <1>1, <1>2, <1>3, <1>4, <1>5, <1>6, <1>7, <1>8, <1>9 DEF Next

LEMMA InitUndisturbed == Init => Undisturbed
BY OtaConstants DEF Init, Undisturbed, Waiting, Bootable, Holds, Image
-----------------------------------------------------------------------------
(* The theorems. *)

\* Whatever recv returns, power does and the updater asks for, the sector
\* buffer never overflows and every counter keeps its type.
THEOREM TypeCorrect == Spec => []TypeOK
BY InitType, NextType, PTL DEF Spec

LEMMA OtaInvariant == ASSUME "bad" \notin FlashOutcome PROVE Spec => []OtaInv
<1>1. Init => OtaInv
  BY InitType, InitUndisturbed DEF OtaInv
<1>2. OtaInv /\ [Next]_vars => OtaInv'
  BY NextType, NextUndisturbed DEF OtaInv
<1> QED
  BY <1>1, <1>2, PTL DEF Spec

\* If flash reports its failures (QSpiWriteOneSector does not always), an
\* upgrade that reports success, with none disturbed since the last reset, has
\* put the whole file into the main area.
THEOREM SuccessTheorem ==
    ASSUME "bad" \notin FlashOutcome PROVE Spec => []SuccessSinceReset
<1>1. OtaInv => SuccessSinceReset
  BY DEF OtaInv, Undisturbed, SuccessSinceReset, SuccessIsTheFile
<1> QED
  BY <1>1, OtaInvariant, PTL

\* Under the same assumption, and again as long as no upgrade was disturbed
\* since the last reset, the main area boots until the backup area holds all
\* of the new firmware, whenever power fails.
THEOREM OldFirmwareTheorem ==
    ASSUME "bad" \notin FlashOutcome PROVE Spec => []OldFirmwareUntilDownloaded
<1>1. OtaInv => OldFirmwareUntilDownloaded
  BY DEF OtaInv, TypeOK, Undisturbed, Waiting, Receiving, Copying, Bootable,
         OldFirmwareUntilDownloaded
<1> QED
  BY <1>1, OtaInvariant, PTL
=============================================================================
