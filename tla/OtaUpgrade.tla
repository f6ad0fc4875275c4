------------------------------ MODULE OtaUpgrade ------------------------------
(***************************************************************************)
(* The firmware upgrade over the local network.  A UDP command announces   *)
(* the size of the file; the next TCP connection carries it.  The TCP      *)
(* server thread collects the file in a sector buffer, writes full sectors *)
(* to the backup area, and when all of it is there copies the backup area  *)
(* over the running firmware and resets.  (DUAL_LAUNCHER, which boots from *)
(* the backup area instead, is not defined in this build.)                 *)
(*                                                                         *)
(* The unit of the model is a piece of a file that recv never splits; what *)
(* recv returns is any number of them.  Power may fail between any steps,  *)
(* and in the middle of the write of a sector.                             *)
(***************************************************************************)
EXTENDS Integers

CONSTANTS
    FLASH_SECTOR_SIZE, \* units in a sector
    AreaSectors,       \* sectors of the main and of the backup area (48)
    File,              \* the firmware files
    Factory,           \* the one the device starts with, in File
    Size(_),           \* number of units of a file
    FlashOutcome,      \* what the write of a sector may do, see WriteResult
    SecondUpdater,     \* another updater may send commands during an upgrade
    Aborts,            \* bound: upgrades disturbed between two resets
    MaxCommands        \* bound: upgrade commands

Sector == 0..(AreaSectors - 1)
Addr   == 0..(AreaSectors * FLASH_SECTOR_SIZE - 1)
Offset == 0..(FLASH_SECTOR_SIZE - 1)

\* Content of a unit of flash or RAM: unit k of a file, or junk.
Junk    == [file |-> "junk", k |-> 0]
Unit    == [file : File, k : Addr] \union {Junk}
Image(f) == [a \in Addr |-> IF a < Size(f) THEN [file |-> f, k |-> a]
                            ELSE Junk]

ASSUME OtaConstants ==
    /\ FLASH_SECTOR_SIZE \in Nat \ {0} /\ AreaSectors \in Nat \ {0}
    /\ \A f \in File :
          Size(f) \in 1..(AreaSectors * FLASH_SECTOR_SIZE)
    /\ Factory \in File
    /\ FlashOutcome \subseteq {"good", "late", "bad"}
    /\ SecondUpdater \in BOOLEAN /\ Aborts \in Nat /\ MaxCommands \in Nat

VARIABLES
    upgradeFlag,   \* "off", "start" (UPGRADE_START) or "doing"
    fileSize, recvFileSize, WritePtr, upgradeSector, OtaDataBuf,
    pc,            \* "wait" for a connection, head of the loop ("turn"),
                   \* "recv", "copy", "done", or "dead": nothing boots
    i,             \* index of the copy loop
    sending,       \* the file the updater sends
    sent,          \* units of it on their way or received
    bak, main,     \* the two flash areas (writes past them are not followed)
    commands,      \* upgrade commands so far
    aborts         \* history: upgrades that were broken off, or given another
                   \* file size on the way, since the last reset

download == <<fileSize, recvFileSize, WritePtr, upgradeSector, OtaDataBuf>>
updater  == <<sending, sent, commands>>
flash    == <<bak, main>>
vars == <<upgradeFlag, download, pc, i, updater, flash, aborts>>

Init ==
    /\ upgradeFlag = "off" /\ pc = "wait" /\ i = 0
    /\ fileSize = 0 /\ recvFileSize = 0 /\ WritePtr = 0
    /\ upgradeSector = 0 /\ OtaDataBuf = [o \in Offset |-> Junk]
    /\ bak = [a \in Addr |-> Junk] /\ main = Image(Factory)
    /\ sending = Factory /\ sent = 0
    /\ commands = 0 /\ aborts = 0

\* The device runs if the main area starts with one whole firmware.
Holds(area, f) == \A a \in Addr : a < Size(f) => area[a] = Image(f)[a]
Bootable == \E f \in File : Holds(main, f)
-----------------------------------------------------------------------------
(* Flash. *)

\* QSpiWriteOneSector tries every page ten times.  If the tenth try is the
\* first to succeed it reports an error ("late"), and if all of them fail
\* it reports success ("bad"): j has wrapped to 2^32 - 1 by then.
WriteResult == [good |-> 0, late |-> -1, bad |-> 0]

Written(area, s, buf, outcome) ==
    [a \in Addr |-> IF a \div FLASH_SECTOR_SIZE # s THEN area[a]
                    ELSE IF outcome = "bad" THEN Junk
                    ELSE buf[a % FLASH_SECTOR_SIZE]]
-----------------------------------------------------------------------------
(* The upgrade command, handled by the UDP task (FwUpgradeProcess). *)

\* Another updater announces its file while this one is received: the size
\* of the file is overwritten, and the connection stays.
Misannounced(f) == pc \in {"turn", "recv"} /\ Size(f) # Size(sending)

\* If the acknowledgement cannot be sent the upgrade is called off, also
\* one that is going on: the server thread finds the flag cleared.
Command(f) ==
    /\ pc \in {"wait", "turn", "recv", "copy"} /\ commands < MaxCommands
    /\ pc = "wait" \/ f = sending \/ SecondUpdater
    /\ commands' = commands + 1
    /\ fileSize' = Size(f)
    /\ sending' = IF pc = "wait" THEN f ELSE sending
    /\ \/ /\ ~Misannounced(f)
          /\ upgradeFlag' = IF upgradeFlag = "off" THEN "start"
                            ELSE upgradeFlag
          /\ UNCHANGED aborts
       \/ /\ Misannounced(f) /\ aborts < Aborts /\ aborts' = aborts + 1
          /\ upgradeFlag' = IF upgradeFlag = "off" THEN "start"
                            ELSE upgradeFlag
       \/ /\ aborts < Aborts /\ aborts' = aborts + 1
          /\ upgradeFlag' = "off"
    /\ UNCHANGED <<recvFileSize, WritePtr, upgradeSector, OtaDataBuf, pc, i,
                   sent, flash>>
-----------------------------------------------------------------------------
(* The download, in the TCP server thread. *)

\* The connection after the command is taken for the upgrade's.
Accept ==
    /\ pc = "wait" /\ upgradeFlag # "off" /\ pc' = "turn" /\ sent' = 0
    /\ UNCHANGED <<upgradeFlag, download, i, sending, commands, flash, aborts>>

\* The loop ends: the server thread waits for the next connection.
BreakOff ==
    /\ upgradeFlag' = "off" /\ pc' = "wait" /\ i' = 0

\* The head of the loop: the first turn of an upgrade resets the counters of
\* the file, but not the sector number.  Then recv blocks.
Turn ==
    /\ pc = "turn"
    /\ \/ upgradeFlag = "off" /\ BreakOff /\ UNCHANGED download
       \/ /\ upgradeFlag = "start" /\ upgradeFlag' = "doing" /\ pc' = "recv"
          /\ WritePtr' = 0 /\ recvFileSize' = 0
          /\ UNCHANGED <<fileSize, upgradeSector, OtaDataBuf, i>>
       \/ /\ upgradeFlag = "doing" /\ pc' = "recv"
          /\ UNCHANGED <<upgradeFlag, download, i>>
    /\ UNCHANGED <<updater, flash, aborts>>

\* What recv is asked for, and the test for the end of the file.
RoomLeft_Whole == FLASH_SECTOR_SIZE
RoomLeft == FLASH_SECTOR_SIZE - WritePtr
Complete_Early(n) == recvFileSize + n >= fileSize - 1
Complete(n) == recvFileSize + n = fileSize

\* The rest of a turn that gets n units.  A complete file is written out
\* and copied; otherwise a full buffer is written.
Recv(n) ==
    /\ pc = "recv"
    /\ n <= Size(sending) - sent /\ n <= RoomLeft
    /\ sent' = sent + n /\ recvFileSize' = recvFileSize + n
    /\ OtaDataBuf' = [o \in Offset |->
                         IF o \in WritePtr..(WritePtr + n - 1)
                         THEN Image(sending)[sent + o - WritePtr]
                         ELSE OtaDataBuf[o]]
    /\ LET full == WritePtr + n = FLASH_SECTOR_SIZE IN
       \/ /\ Complete(n) \/ full
          /\ \E o \in FlashOutcome :
                /\ bak' = Written(bak, upgradeSector, OtaDataBuf', o)
                /\ \/ /\ WriteResult[o] = 0
                      /\ upgradeSector' = upgradeSector + 1 /\ WritePtr' = 0
                      /\ pc' = IF Complete(n) THEN "copy" ELSE "turn"
                      /\ UNCHANGED <<upgradeFlag, i, aborts>>
                   \/ /\ WriteResult[o] # 0
                      /\ aborts < Aborts /\ aborts' = aborts + 1
                      /\ BreakOff /\ WritePtr' = WritePtr + n
                      /\ UNCHANGED upgradeSector
       \/ /\ ~Complete(n) /\ ~full /\ WritePtr' = WritePtr + n
          /\ pc' = "turn"
          /\ UNCHANGED <<upgradeSector, bak, upgradeFlag, i, aborts>>
    /\ UNCHANGED <<fileSize, sending, commands, main>>

\* recv fails or the updater closes.
RecvFails ==
    /\ pc = "recv" /\ aborts < Aborts /\ aborts' = aborts + 1
    /\ BreakOff /\ UNCHANGED <<download, updater, flash>>
-----------------------------------------------------------------------------
(* The copy. *)

SectorOf(area, s) ==
    [o \in Offset |-> IF s \in Sector THEN area[s * FLASH_SECTOR_SIZE + o]
                      ELSE Junk]

CopyCount_Short == upgradeSector - 1
CopyCount == upgradeSector

\* The copy loop does not look at the flag.
Copy ==
    /\ pc = "copy" /\ i < CopyCount
    /\ OtaDataBuf' = SectorOf(bak, i)
    /\ \E o \in FlashOutcome :
          /\ main' = Written(main, i, OtaDataBuf', o)
          /\ \/ /\ WriteResult[o] = 0 /\ i' = i + 1
                /\ UNCHANGED <<pc, upgradeFlag, aborts>>
             \/ /\ WriteResult[o] # 0 /\ aborts < Aborts
                /\ aborts' = aborts + 1 /\ BreakOff
    /\ UNCHANGED <<fileSize, recvFileSize, WritePtr, upgradeSector, updater,
                   bak>>

\* "Firmware update success", acknowledged to the updater.
Finish ==
    /\ pc = "copy" /\ i = CopyCount /\ pc' = "done"
    /\ upgradeFlag' = "off" /\ upgradeSector' = 0 /\ recvFileSize' = 0
    /\ UNCHANGED <<fileSize, WritePtr, OtaDataBuf, i, updater, flash, aborts>>
-----------------------------------------------------------------------------
\* A sector that was being written when the power failed.
TornWrite ==
    \/ UNCHANGED flash
    \/ /\ pc = "copy" /\ i < CopyCount
       /\ main' = Written(main, i, OtaDataBuf, "bad")
       /\ UNCHANGED bak
    \/ /\ pc = "recv" /\ bak' = Written(bak, upgradeSector, OtaDataBuf, "bad")
       /\ UNCHANGED main

\* nl6621_Reset after an upgrade, or a power failure.
Reset ==
    /\ pc # "dead"
    /\ TornWrite
    /\ upgradeFlag' = "off" /\ i' = 0 /\ OtaDataBuf' = [o \in Offset |-> Junk]
    /\ fileSize' = 0 /\ recvFileSize' = 0 /\ WritePtr' = 0
    /\ upgradeSector' = 0
    /\ pc' = IF Bootable' THEN "wait" ELSE "dead"
    /\ aborts' = 0 /\ UNCHANGED updater

Next ==
    \/ \E f \in File : Command(f)
    \/ \E n \in 1..FLASH_SECTOR_SIZE : Recv(n)
    \/ Accept \/ Turn \/ RecvFails \/ Copy \/ Finish \/ Reset

Spec == Init /\ [][Next]_vars
-----------------------------------------------------------------------------
(* Properties. *)

\* Every variable keeps its type; the sector buffer never overflows.
TypeOK ==
    /\ upgradeFlag \in {"off", "start", "doing"}
    /\ fileSize \in Nat /\ recvFileSize \in Nat /\ upgradeSector \in Nat
    /\ WritePtr \in 0..FLASH_SECTOR_SIZE
    /\ OtaDataBuf \in [Offset -> Unit]
    /\ pc \in {"wait", "turn", "recv", "copy", "done", "dead"} /\ i \in Nat
    /\ sending \in File /\ sent \in Nat
    /\ bak \in [Addr -> Unit] /\ main \in [Addr -> Unit]
    /\ commands \in 0..MaxCommands /\ aborts \in 0..Aborts

\* When the device reports success (Socket.c:391) the main area holds the
\* file that was sent, all of it.
SuccessIsTheFile == pc = "done" => Holds(main, sending)

\* The same, unless an upgrade was disturbed since the last reset (broken off,
\* or given another file size): power failures and repeated commands of the
\* updater do no harm.  Without the condition it is false, as a retry after a
\* broken-off download shows.
SuccessSinceReset == aborts = 0 => SuccessIsTheFile

\* As long as no upgrade was disturbed since the last reset, the firmware is
\* overwritten only from a backup area that holds all of the new one: a power
\* failure before the copy leaves the old one to boot.  After a broken-off
\* download the next one may be copied from a backup area that is wrong.
OldFirmwareUntilDownloaded ==
    aborts = 0 /\ pc # "dead" =>
        Bootable \/ (pc = "copy" /\ Holds(bak, sending))
=============================================================================
