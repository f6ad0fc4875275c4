-------------------------- MODULE LanSessionsProofs --------------------------
(***************************************************************************)
(* The tables of the LAN server keep to the sockets they name, for every   *)
(* number of clients and descriptors.                                      *)
(***************************************************************************)
EXTENDS LanSessions, WellFoundedInduction, TLAPS

\* Where the server thread is, its variables are set.
Place ==
    /\ newFd \in Fds <=> pc \in {"register", "ota", "otaRecv", "arm"}
    /\ pc \in {"arm", "recv", "received", "fin", "closed", "out"} => slot \in Slots
    /\ pc = "recv" => SocketFD[slot] = -1 \/ SocketFD[slot] \in ready
    /\ upgrades = 0 => upgrade = "off" /\ pc \notin {"ota", "otaRecv"}

\* A connection about to be registered is open and not yet in the table.
Registering ==
    upgrades = 0 /\ pc = "register" => owner[newFd] = "lan" /\ newFd \notin ClientFds

\* The descriptor of a phone that has gone is free or another task's.
Gone ==
    upgrades = 0 /\ pc \in {"closed", "out"} /\ SocketFD[slot] # -1
        => owner[SocketFD[slot]] # "lan"

\* The slots that the scan has still to look at.
ToScan == CASE pc \in {"scan", "recv"}    -> {i \in Slots : i >= slot}
            [] pc \in {"received", "fin", "closed", "out"} -> {i \in Slots : i > slot}
            [] OTHER -> {}

\* What select has found readable is so until the scan gets there.
ReadyHasData ==
    \A i \in ToScan : upgrades = 0 /\ SocketFD[i] # -1 /\ SocketFD[i] \in ready
                        => inbox[SocketFD[i]] # "empty"

\* When the slot of a phone that has gone is freed, its login is no more.
LoggedOut ==
    pc = "out" => \A j \in Slots : g_SocketLogin[j] \in Fds
                                     => g_SocketLogin[j] # SocketFD[slot]

LanInv ==
    /\ TypeOK /\ Place /\ Registering /\ Gone /\ LoggedOut
    /\ SlotsOwnTheirSockets /\ NoSocketLeak
    /\ LoginIsInTable /\ LoginBelongsToPhone /\ ReadyHasData
-----------------------------------------------------------------------------
\* A set of naturals that is not empty has a least element, which Min takes.
LEMMA LeastFirst ==
    ASSUME NEW S \in SUBSET Nat, S # {}
    PROVE  Min(S) \in S
<1>1. ASSUME NEW a \in Nat, NEW b \in Nat, a < b
      PROVE  <<a, b>> \in OpToRel(<, Nat)
  <2>1. <<a, b>> \in {p \in Nat \X Nat : p[1] < p[2]}
    BY <1>1
  <2> QED
    BY <2>1, Zenon DEF OpToRel
<1>2. PICK x \in S : \A y \in S : ~(<<y, x>> \in OpToRel(<, Nat))
  BY WFMin, NatLessThanWellFounded, Zenon
<1>3. \A y \in S : x <= y
  <2> SUFFICES ASSUME NEW y \in S, y < x PROVE FALSE
    OBVIOUS
  <2> QED
    BY <1>1, <1>2, Zenon
<1> QED
  BY <1>3 DEF Min

\* The searches for the first free descriptor, slot and entry find one.
LEMMA Searches ==
    ASSUME TypeOK
    PROVE  /\ FreeFds # {} => Min(FreeFds) \in FreeFds
           /\ FreeSlots # {} => Min(FreeSlots) \in FreeSlots
           /\ FreeLogins # {} => Min(FreeLogins) \in FreeLogins
           /\ ReadySlots # {} => Min(ReadySlots) \in ReadySlots
           /\ \A f : {i \in Slots : SocketFD[i] = f} # {}
                       => Min({i \in Slots : SocketFD[i] = f}) \in Slots
<1>1. FreeFds \in SUBSET Nat /\ FreeSlots \in SUBSET Nat
      /\ FreeLogins \in SUBSET Nat /\ ReadySlots \in SUBSET Nat
  BY LanConstants DEF TypeOK, FreeFds, FreeSlots, FreeLogins, ReadySlots, Slots, Fds
<1>2. ASSUME NEW f, {i \in Slots : SocketFD[i] = f} # {}
      PROVE  Min({i \in Slots : SocketFD[i] = f}) \in Slots
  <2>1. {i \in Slots : SocketFD[i] = f} \in SUBSET Nat
    BY DEF Slots
  <2>2. Min({i \in Slots : SocketFD[i] = f}) \in {i \in Slots : SocketFD[i] = f}
    BY <1>2, <2>1, LeastFirst
  <2> QED
    BY <2>2
<1> QED
  BY <1>1, <1>2, LeastFirst

LEMMA InitInv == Init => LanInv
BY LanConstants
   DEF Init, LanInv, TypeOK, Place, Registering, Gone, LoggedOut, ToScan,
       ReadyHasData,
       SlotsOwnTheirSockets, NoSocketLeak, LoginIsInTable, LoginBelongsToPhone,
       ServerPc, Request, ClientFds, Slots, Fds
-----------------------------------------------------------------------------
(* Types. *)

LEMMA NextType ==
    ASSUME LanInv, [Next]_vars
    PROVE  TypeOK' /\ Place'
<1> USE LanConstants DEF LanInv, TypeOK, Place, ServerPc, Request, Slots, Fds
<1>1. CASE NobodyNew
  BY <1>1 DEF NobodyNew, table, ota, sockets
<1>2. CASE Accept
  BY <1>2, Searches DEF Accept, Opens, FreeFds, table, ota
<1>3. CASE AcceptFails
  BY <1>3 DEF AcceptFails, table, ota, sockets
<1>4. CASE OtaRound
  BY <1>4 DEF OtaRound, Closes, table, ota
<1>26. CASE OtaFlagCleared \/ OtaMoreData
  BY <1>26 DEF OtaFlagCleared, OtaMoreData, table, ota, sockets
<1>5. CASE OtaAborts
  BY <1>5 DEF OtaAborts, Closes, table, ota
<1>6. CASE OtaWriteFails
  BY <1>6 DEF OtaWriteFails, Closes, table, ota
<1>7. CASE OtaDone
  BY <1>7 DEF OtaDone
<1>8. CASE Register
  <2>1. slot' \in Slots
    BY <1>8, Searches DEF Register, FreeSlots
  <2>2. newFd \in Fds /\ SocketFD' = [SocketFD EXCEPT ![slot'] = newFd]
    BY <1>8 DEF Register
  <2>3. SocketFD' \in [Slots -> Fds \union {-1}]
    BY <2>1, <2>2
  <2>4. TypeOK'
    BY <1>8, <2>1, <2>3 DEF Register, ota, sockets
  <2>5. Place'
    BY <1>8, <2>1 DEF Register, ota, sockets
  <2> QED
    BY <2>4, <2>5
<1>9. CASE TableFull
  BY <1>9 DEF TableFull, Closes, table, ota
<1>10. CASE Arm
  BY <1>10 DEF Arm, ota, sockets
<1>11. CASE Select
  BY <1>11 DEF Select, ClientFds, table, ota, sockets
<1>12. CASE ScanNext
  <2>1. slot' \in ReadySlots
    BY <1>12, Searches DEF ScanNext
  <2>2. slot' \in Slots /\ SocketFD[slot'] \in ready
    BY <2>1 DEF ReadySlots
  <2>3. TypeOK'
    BY <1>12, <2>2 DEF ScanNext, table, ota, sockets
  <2>4. Place'
    BY <1>12, <2>2 DEF ScanNext, table, ota, sockets
  <2> QED
    BY <2>3, <2>4
<1>13. CASE ScanDone
  BY <1>13 DEF ScanDone, table, ota, sockets
<1>14. CASE RecvFails
  BY <1>14 DEF RecvFails, NextSlot, table, ota, sockets
<1>15. CASE Recv
  BY <1>15 DEF Recv, OpenFds, FreeFds, table, ota
<1>16. CASE PhoneGone
  BY <1>16 DEF PhoneGone, Closes, table, ota
<1>27. CASE LogsOut
  BY <1>27 DEF LogsOut, LogoutOf, ota, sockets
<1>28. CASE FreesSlot
  BY <1>28 DEF FreesSlot, NextSlot, ota, sockets
<1>29. CASE InvalidLength
  BY <1>29 DEF InvalidLength, NextSlot, table, ota, sockets
<1>17. CASE Received
  <2>1. SocketFD[slot] \in Fds \union {-1} /\ slot \in Slots
    BY <1>17 DEF Received
  <2>2. TimeOut' \in [Slots -> 0..LAN_CLIENT_MAXLIVETIME]
    <3> DEFINE found == {k \in Slots : SocketFD[k] = SocketFD[slot]}
    <3>1. found # {} /\ Min(found) \in Slots
      BY <2>1, Searches
    <3>2. TimeOut' = [TimeOut EXCEPT ![Min(found)] = LAN_CLIENT_MAXLIVETIME]
      BY <1>17, <3>1 DEF Received, ResetClientTimeout
    <3> HIDE DEF found
    <3> QED
      BY <3>1, <3>2
  <2>3. g_SocketLogin' \in [Slots -> Fds \union {-1, 0}]
    <3>1. CASE pkt = "login" /\ FreeLogins # {}
      <4>1. Min(FreeLogins) \in Slots
        BY <3>1, Searches DEF FreeLogins
      <4> QED
        BY <1>17, <2>1, <3>1, <4>1 DEF Received, HandleLogin
    <3> QED
      BY <1>17, <3>1 DEF Received, HandleLogin
  <2>4. passed' \in [Fds -> {"no", "yes"}]
    BY <1>17 DEF Received
  <2>5. /\ pc = "received" /\ pc' = "scan" /\ slot' = slot + 1 /\ pkt' = "other"
        /\ UNCHANGED <<SocketFD, newFd, ready, ota, owner, inbox, pending>>
    BY <1>17 DEF Received, NextSlot
  <2>6. TypeOK'
    BY <2>1, <2>2, <2>3, <2>4, <2>5 DEF ota
  <2>7. Place'
    BY <2>5 DEF ota
  <2> QED
    BY <2>6, <2>7
<1>18. CASE ClientTimeoutTimer
  BY <1>18 DEF ClientTimeoutTimer, CountDown, Closes, LogoutOf, server, ota
<1>19. CASE FwUpgradeProcess
  BY <1>19 DEF FwUpgradeProcess, table, server, sockets
<1>20. CASE PhoneConnects
  BY <1>20 DEF PhoneConnects, table, server, ota, sockets
<1>21. ASSUME NEW f \in Fds, NEW r \in Request, PhoneSends(f, r)
       PROVE  TypeOK' /\ Place'
  BY <1>21 DEF PhoneSends, table, server, ota
<1>22. ASSUME NEW f \in Fds, PhoneCloses(f) \/ OtherReceives(f)
       PROVE  TypeOK' /\ Place'
  BY <1>22 DEF PhoneCloses, OtherReceives, table, server, ota
<1>23. ASSUME NEW f \in Fds, OtherCloses(f)
       PROVE  TypeOK' /\ Place'
  BY <1>23 DEF OtherCloses, Closes, table, server, ota
<1>24. CASE OtherOpens
  BY <1>24 DEF OtherOpens, Opens, table, server, ota
<1>25. CASE UNCHANGED vars
  BY <1>25 DEF vars, table, server, ota, sockets
<1> QED
  BY <1>1, <1>2, <1>3, <1>4, <1>5, <1>6, <1>7, <1>8, <1>9, <1>10, <1>11, <1>12,
     <1>13, <1>14, <1>15, <1>16, <1>17, <1>18, <1>19, <1>20, <1>21, <1>22,
     <1>23, <1>24, <1>25, <1>26, <1>27, <1>28, <1>29
     DEF Next, TcpServerThread, Environment
-----------------------------------------------------------------------------
(* Sockets. *)

\* Upgrades are only counted, so there was none before a step that ends
\* without one.
LEMMA NotBefore == TypeOK /\ [Next]_vars /\ upgrades' = 0 => upgrades = 0
<1> SUFFICES ASSUME TypeOK, [Next]_vars PROVE upgrades' \in {upgrades, upgrades + 1}
  BY DEF TypeOK
<1> QED
  BY DEF Next, TcpServerThread, Environment, NobodyNew, Accept, AcceptFails,
     OtaRound, OtaFlagCleared, OtaMoreData, OtaAborts, OtaWriteFails, OtaDone,
     Register, TableFull, Arm, Select, ScanNext, ScanDone, RecvFails, Recv,
     PhoneGone, LogsOut, FreesSlot, Received, InvalidLength,
     ClientTimeoutTimer, FwUpgradeProcess, PhoneConnects, PhoneSends,
     PhoneCloses, OtherOpens, OtherReceives, OtherCloses, ota, vars

\* Slots, descriptors and the connection to be registered stay together.
Owned == Registering /\ Gone /\ SlotsOwnTheirSockets /\ NoSocketLeak

LEMMA NextOwned ==
    ASSUME LanInv, [Next]_vars
    PROVE  Owned'
<1> SUFFICES ASSUME upgrades' = 0 PROVE Owned'
  BY DEF Owned, Registering, Gone, SlotsOwnTheirSockets, NoSocketLeak
<1> USE DEF LanInv, Owned, Registering, Gone, SlotsOwnTheirSockets, Going,
       NoSocketLeak, ClientFds
<1>a. upgrades = 0 /\ pc \notin {"ota", "otaRecv"} /\ upgrade = "off"
  BY NotBefore DEF Place
<1>b. TypeOK /\ Place
  OBVIOUS
<1>1. CASE NobodyNew \/ AcceptFails \/ Arm \/ Select \/ ScanNext \/ ScanDone
           \/ RecvFails \/ InvalidLength \/ LogsOut \/ PhoneConnects \/ UNCHANGED vars
  BY <1>1, <1>a DEF NobodyNew, AcceptFails, Arm, Select, ScanNext, ScanDone, RecvFails,
     InvalidLength, LogsOut, NextSlot, PhoneConnects, vars, table, server, ota, sockets
<1>2. CASE Accept
  <2>1. newFd' \in FreeFds
    BY <1>2, Searches DEF Accept
  <2> QED
    BY <1>2, <1>a, <1>b, <2>1 DEF Accept, Opens, FreeFds, table, ota, TypeOK
<1>3. CASE Register
  <2>1. slot' \in FreeSlots
    BY <1>3, Searches DEF Register
  <2>2. /\ slot' \in Slots /\ SocketFD[slot'] = -1 /\ newFd \in Fds
        /\ SocketFD' = [SocketFD EXCEPT ![slot'] = newFd]
        /\ pc' = "arm" /\ owner' = owner /\ newFd # -1
    BY <1>3, <2>1, LanConstants DEF Register, FreeSlots, sockets, Place, Fds
  <2>3. owner[newFd] = "lan" /\ \A k \in Slots : SocketFD[k] # newFd
    BY <1>3, <1>a, <2>2 DEF Register
  <2>4. SlotsOwnTheirSockets'
    BY <1>a, <1>b, <2>2, <2>3 DEF TypeOK
  <2>5. \A f \in ClientFds \union {newFd} : f \in ClientFds'
    BY <1>b, <2>2 DEF TypeOK
  <2>6. NoSocketLeak'
    BY <1>3, <1>a, <2>2, <2>5 DEF Register
  <2> QED
    BY <2>2, <2>4, <2>6
<1>4. CASE TableFull
  BY <1>4, <1>a, <1>b DEF TableFull, Closes, table, ota, TypeOK, Place
<1>5. CASE Recv \/ Received
  BY <1>5, <1>a DEF Recv, Received, NextSlot, table, ota
<1>6. CASE PhoneGone
  BY <1>6, <1>a, <1>b DEF PhoneGone, Closes, table, ota, TypeOK, Place
<1>13. CASE FreesSlot
  BY <1>13, <1>a, <1>b DEF FreesSlot, NextSlot, ota, sockets, TypeOK, Place
<1>7. CASE ClientTimeoutTimer
  BY <1>7, <1>a, <1>b DEF ClientTimeoutTimer, Closes, Expired, ExpiredFds, server, ota, TypeOK, Place
<1>8. ASSUME NEW f \in Fds, NEW r \in Request, PhoneSends(f, r) PROVE Owned'
  BY <1>8, <1>a DEF PhoneSends, table, server, ota
<1>9. ASSUME NEW f \in Fds, PhoneCloses(f) \/ OtherReceives(f) PROVE Owned'
  BY <1>9, <1>a DEF PhoneCloses, OtherReceives, table, server, ota
<1>10. ASSUME NEW f \in Fds, OtherCloses(f) PROVE Owned'
  BY <1>10, <1>a, <1>b DEF OtherCloses, Closes, table, server, ota, TypeOK, Place
<1>11. CASE OtherOpens
  <2>1. Min(FreeFds) \in FreeFds
    BY <1>11, Searches DEF OtherOpens
  <2> QED
    BY <1>11, <1>a, <1>b, <2>1 DEF OtherOpens, Opens, FreeFds, table, server, ota, TypeOK, Place
<1>12. CASE OtaRound \/ OtaFlagCleared \/ OtaMoreData \/ OtaAborts \/ OtaWriteFails
            \/ OtaDone \/ FwUpgradeProcess
  BY <1>12, <1>a DEF OtaRound, OtaFlagCleared, OtaMoreData, OtaAborts, OtaWriteFails,
     OtaDone, FwUpgradeProcess, TypeOK
<1> QED
  BY <1>1, <1>2, <1>3, <1>4, <1>5, <1>6, <1>7, <1>8, <1>9, <1>10, <1>11, <1>12, <1>13
     DEF Next, TcpServerThread, Environment
-----------------------------------------------------------------------------
(* Logins. *)

LEMMA NextInTable ==
    ASSUME LanInv, [Next]_vars
    PROVE  LoginIsInTable' /\ LoggedOut'
<1> USE DEF LanInv, LoginIsInTable, LoggedOut, ClientFds
<1>a. TypeOK /\ Place
  OBVIOUS
<1>b. -1 \notin Fds /\ 0 \notin Fds
  BY LanConstants DEF Fds
<1>1. CASE /\ UNCHANGED <<SocketFD, g_SocketLogin>>
           /\ pc' = "out" => pc = "out" /\ slot' = slot
  BY <1>1
<1>2. CASE OtaDone
  BY <1>2, <1>b DEF OtaDone
<1>3. CASE Register
  <2>1. slot' \in FreeSlots
    BY <1>3, Searches DEF Register
  <2>2. slot' \in Slots /\ SocketFD[slot'] = -1
    BY <2>1 DEF FreeSlots
  <2> QED
    BY <1>3, <1>a, <1>b, <2>2 DEF Register, TypeOK
<1>4. CASE LogsOut
  BY <1>4, <1>a, <1>b DEF LogsOut, LogoutOf, TypeOK, Place
<1>7. CASE FreesSlot
  BY <1>7, <1>a, <1>b DEF FreesSlot, NextSlot, TypeOK, Place
<1>5. CASE Received
  <2>1. ASSUME NEW j \in Slots
        PROVE  g_SocketLogin'[j] \in {g_SocketLogin[j], SocketFD[slot]}
    BY <1>5, <1>a DEF Received, HandleLogin, TypeOK
  <2> QED
    BY <1>5, <1>a, <1>b, <2>1 DEF Received, NextSlot, TypeOK, Place
<1>6. CASE ClientTimeoutTimer
  BY <1>6, <1>a, <1>b DEF ClientTimeoutTimer, LogoutOf, Expired, ExpiredFds, server,
     TypeOK, Place
<1> QED
  BY <1>1, <1>2, <1>3, <1>4, <1>5, <1>6, <1>7
  DEF Next, TcpServerThread, Environment, NobodyNew, Accept, AcceptFails,
       OtaRound, OtaFlagCleared, OtaMoreData, OtaAborts, OtaWriteFails, TableFull, Arm,
       Select, ScanNext, ScanDone, RecvFails, Recv, PhoneGone, InvalidLength, NextSlot,
       FwUpgradeProcess, PhoneConnects, PhoneSends, PhoneCloses, OtherOpens,
       OtherReceives, OtherCloses, table, server, vars

LEMMA NextBelongs ==
    ASSUME LanInv, [Next]_vars, TypeOK', Owned', LoginIsInTable', LoggedOut'
    PROVE  LoginBelongsToPhone'
<1> SUFFICES ASSUME NEW j \in Slots, upgrades' = 0, g_SocketLogin'[j] \in Fds,
                    ~(pc' = "closed" /\ g_SocketLogin'[j] = SocketFD'[slot'])
             PROVE  passed'[g_SocketLogin'[j]] = "yes"
  <2>1. ASSUME NEW j \in Slots, upgrades' = 0, g_SocketLogin'[j] \in Fds,
               ~(pc' = "closed" /\ g_SocketLogin'[j] = SocketFD'[slot'])
        PROVE  owner'[g_SocketLogin'[j]] = "lan"
    <3>1. PICK i \in Slots : SocketFD'[i] = g_SocketLogin'[j] /\ SocketFD'[i] # -1
      BY <2>1 DEF LoginIsInTable, ClientFds
    <3>2. ~Going(i)'
      BY <2>1, <3>1 DEF Going, LoggedOut
    <3> QED
      BY <2>1, <3>1, <3>2 DEF Owned, SlotsOwnTheirSockets
  <2> QED
    BY <2>1 DEF LoginBelongsToPhone
<1>a. upgrades = 0 /\ pc \notin {"ota", "otaRecv"}
  BY NotBefore DEF LanInv, Place
<1>b. /\ TypeOK /\ Place
      /\ -1 \notin Fds /\ 0 \notin Fds
  BY LanConstants DEF LanInv, Fds
<1>c. ASSUME NEW f \in Fds, g_SocketLogin[j] = f, ~(pc = "closed" /\ f = SocketFD[slot])
      PROVE  owner[f] = "lan" /\ passed[f] = "yes" /\ f \in ClientFds
  BY <1>a, <1>c DEF LanInv, LoginBelongsToPhone, LoginIsInTable
<1>1. CASE /\ UNCHANGED <<g_SocketLogin, passed>>
           /\ pc = "closed" => pc' = "closed" /\ SocketFD'[slot'] = SocketFD[slot]
  BY <1>1, <1>c
<1>2. CASE OtaDone
  BY <1>2, <1>a DEF OtaDone
<1>3. CASE Accept \/ OtherOpens
  <2>1. Min(FreeFds) \in FreeFds
    BY <1>3, <1>b, Searches DEF Accept, OtherOpens
  <2>2. /\ passed' = [passed EXCEPT ![Min(FreeFds)] = "no"] /\ g_SocketLogin' = g_SocketLogin
        /\ pc = "closed" => pc' = "closed" /\ SocketFD'[slot'] = SocketFD[slot]
    BY <1>3 DEF Accept, OtherOpens, Opens, table, server
  <2>3. owner[g_SocketLogin[j]] = "lan" /\ passed[g_SocketLogin[j]] = "yes"
    BY <1>c, <2>2
  <2> QED
    BY <1>b, <2>1, <2>2, <2>3 DEF FreeFds, TypeOK
<1>4. CASE PhoneGone
  BY <1>4, <1>b, <1>c DEF PhoneGone, Closes, table, TypeOK
<1>10. CASE LogsOut
  BY <1>10, <1>b, <1>c DEF LogsOut, LogoutOf, sockets, TypeOK
<1>5. CASE Received
  <2>1. \/ g_SocketLogin'[j] = g_SocketLogin[j]
        \/ pkt = "login" /\ g_SocketLogin'[j] = SocketFD[slot]
    BY <1>5, <1>b DEF Received, HandleLogin, TypeOK
  <2> QED
    BY <1>5, <1>b, <1>c, <2>1 DEF Received, TypeOK
<1>6. CASE ClientTimeoutTimer
  <2>1. g_SocketLogin'[j] = g_SocketLogin[j] /\ g_SocketLogin[j] \notin ExpiredFds
    BY <1>6, <1>b DEF ClientTimeoutTimer, LogoutOf
  <2>2. ~(pc = "closed" /\ g_SocketLogin[j] = SocketFD[slot])
    BY <1>6, <1>b, <2>1 DEF ClientTimeoutTimer, ExpiredFds, server, Place, TypeOK
  <2> QED
    BY <1>6, <1>b, <1>c, <2>1, <2>2 DEF ClientTimeoutTimer, Closes
<1>7. CASE TableFull
  <2>1. newFd \notin ClientFds
    BY <1>7, <1>a DEF TableFull, LanInv, Registering
  <2> QED
    BY <1>7, <1>b, <1>c, <2>1 DEF TableFull, Closes, table
<1>8. ASSUME NEW f \in Fds, OtherCloses(f)
      PROVE  passed'[g_SocketLogin'[j]] = "yes"
  BY <1>8, <1>b, <1>c DEF OtherCloses, Closes, table, server
<1>9. CASE OtaRound \/ OtaFlagCleared \/ OtaMoreData \/ OtaAborts \/ OtaWriteFails
  BY <1>9, <1>a DEF OtaRound, OtaFlagCleared, OtaMoreData, OtaAborts, OtaWriteFails
<1> QED
  BY <1>1, <1>2, <1>3, <1>4, <1>5, <1>6, <1>7, <1>8, <1>9, <1>10
  DEF Next, TcpServerThread, Environment, NobodyNew, AcceptFails, Register,
       Arm, Select, ScanNext, ScanDone, RecvFails, Recv, FreesSlot, InvalidLength,
       FwUpgradeProcess, PhoneConnects, PhoneSends,
       PhoneCloses, OtherReceives, table, server, sockets, vars
-----------------------------------------------------------------------------
(* The scan. *)

LEMMA NextReady ==
    ASSUME LanInv, [Next]_vars
    PROVE  ReadyHasData'
<1> SUFFICES ASSUME upgrades' = 0, NEW i \in ToScan', SocketFD'[i] # -1,
                    SocketFD'[i] \in ready'
             PROVE  inbox'[SocketFD'[i]] # "empty"
  BY DEF ReadyHasData
<1>a. upgrades = 0 /\ pc \notin {"ota", "otaRecv"}
  BY NotBefore DEF LanInv, Place
<1>b. TypeOK /\ Place /\ i \in Slots /\ -1 \notin Fds
  BY LanConstants DEF LanInv, ToScan, Fds
<1>c. ASSUME i \in ToScan, SocketFD[i] # -1, SocketFD[i] \in ready
      PROVE  inbox[SocketFD[i]] # "empty"
  BY <1>a, <1>c DEF LanInv, ReadyHasData
<1>d. ASSUME SocketFD[i] # -1, i \in ToScan
      PROVE  /\ SocketFD[i] \in Fds /\ owner[SocketFD[i]] = "lan"
             /\ \A k \in Slots \ {i} : SocketFD[k] # SocketFD[i]
  <2>1. ~Going(i)
    BY <1>b, <1>d DEF Going, ToScan, TypeOK, Slots
  <2> QED
    BY <1>a, <1>b, <1>d, <2>1 DEF LanInv, SlotsOwnTheirSockets, TypeOK
<1>1. CASE pc' \notin {"scan", "recv", "received", "fin", "closed", "out"}
  BY <1>1 DEF ToScan
<1>2. CASE Select
  BY <1>2, <1>b DEF Select, table, sockets, TypeOK, ClientFds
<1>3. CASE ScanNext
  <2>1. slot' \in ReadySlots
    BY <1>3, <1>b, Searches DEF ScanNext
  <2> QED
    BY <1>3, <1>b, <1>c, <2>1 DEF ScanNext, ReadySlots, ToScan, table, sockets, TypeOK, Slots
<1>4. CASE RecvFails
  BY <1>4, <1>b, <1>c DEF RecvFails, NextSlot, ToScan, table, sockets, TypeOK, Slots
<1>5. CASE Recv
  <2>1. i \in ToScan /\ i # slot
    BY <1>5, <1>b DEF Recv, ToScan, TypeOK, Slots
  <2> QED
    BY <1>5, <1>b, <1>c, <1>d, <2>1 DEF Recv, table, TypeOK, Place
<1>6. CASE PhoneGone
  <2>1. i \in ToScan /\ i # slot
    BY <1>6, <1>b DEF PhoneGone, ToScan, TypeOK, Slots
  <2> QED
    BY <1>6, <1>b, <1>c, <1>d, <2>1 DEF PhoneGone, Closes, table, TypeOK, Place
<1>14. CASE LogsOut
  BY <1>14, <1>b, <1>c DEF LogsOut, ToScan, sockets
<1>15. CASE FreesSlot
  BY <1>15, <1>b, <1>c DEF FreesSlot, NextSlot, ToScan, sockets, TypeOK, Slots
<1>7. CASE Received
  BY <1>7, <1>b, <1>c DEF Received, NextSlot, ToScan, TypeOK, Slots
<1>16. CASE InvalidLength
  BY <1>16, <1>b, <1>c DEF InvalidLength, NextSlot, ToScan, table, sockets, TypeOK, Slots
<1>8. CASE ClientTimeoutTimer
  <2>1. i \in ToScan /\ i \notin Expired
    BY <1>8, <1>b DEF ClientTimeoutTimer, ToScan, server
  <2>2. SocketFD'[i] = SocketFD[i] /\ SocketFD[i] \notin ExpiredFds /\ ready' = ready
    BY <1>8, <1>b, <1>d, <2>1 DEF ClientTimeoutTimer, ExpiredFds, Expired, server
  <2> QED
    BY <1>8, <1>c, <1>d, <2>1, <2>2 DEF ClientTimeoutTimer, Closes
<1>9. CASE UNCHANGED vars \/ FwUpgradeProcess \/ PhoneConnects
  BY <1>9, <1>a, <1>c DEF FwUpgradeProcess, PhoneConnects, ToScan, vars, table, server, sockets
<1>10. ASSUME UNCHANGED <<table, server>>, NEW f \in Fds,
              \A g \in Fds \ {f} : inbox'[g] = inbox[g],
              owner[f] = "lan" => inbox'[f] # "empty"
       PROVE  inbox'[SocketFD'[i]] # "empty"
  BY <1>10, <1>b, <1>c, <1>d DEF ToScan, table, server
<1>11. ASSUME NEW f \in Fds, NEW r \in Request, PhoneSends(f, r)
       PROVE  inbox'[SocketFD'[i]] # "empty"
  BY <1>b, <1>10, <1>11 DEF PhoneSends, Request, TypeOK
<1>12. ASSUME NEW f \in Fds, PhoneCloses(f) \/ OtherReceives(f) \/ OtherCloses(f)
       PROVE  inbox'[SocketFD'[i]] # "empty"
  BY <1>b, <1>10, <1>12 DEF PhoneCloses, OtherReceives, OtherCloses, Closes, TypeOK
<1>13. CASE OtherOpens
  <2>1. Min(FreeFds) \in FreeFds
    BY <1>13, <1>b, Searches DEF OtherOpens
  <2> QED
    BY <1>b, <1>10, <1>13, <2>1 DEF OtherOpens, Opens, FreeFds, TypeOK
<1> QED
  BY <1>a, <1>1, <1>2, <1>3, <1>4, <1>5, <1>6, <1>7, <1>8, <1>9, <1>11, <1>12, <1>13,
     <1>14, <1>15, <1>16
     DEF Next, TcpServerThread, Environment, NobodyNew, Accept, AcceptFails, OtaRound,
         OtaFlagCleared, OtaMoreData, OtaAborts, OtaWriteFails, OtaDone, Register, TableFull, Arm, ScanDone
-----------------------------------------------------------------------------
(* The theorems. *)

LEMMA LanInvariant == Spec => []LanInv
<1>1. LanInv /\ [Next]_vars => LanInv'
  BY NextType, NextOwned, NextInTable, NextBelongs, NextReady DEF LanInv, Owned
<1> QED
  BY <1>1, InitInv, PTL DEF Spec

\* Both tables hold descriptors or their free marks, and all indices of the
\* server thread stay inside them.
THEOREM TypeCorrect == Spec => []TypeOK
BY LanInvariant, PTL DEF LanInv

\* Without upgrades a slot of the table names an open connection of a phone,
\* and no other slot names the same one.
THEOREM SlotsTheorem == Spec => []SlotsOwnTheirSockets
BY LanInvariant, PTL DEF LanInv

\* Without upgrades TcpServerThread and the timer leave no accepted
\* connection open outside the table.
THEOREM LeakTheorem == Spec => []NoSocketLeak
BY LanInvariant, PTL DEF LanInv

\* Without upgrades the login of a phone ends with its connection, however
\* the timer, the end of the connection and new connections meet.
THEOREM LoginTheorem == Spec => []LoginBelongsToPhone
BY LanInvariant, PTL DEF LanInv

\* Whatever upgrades do, a login entry names the descriptor of some slot.
THEOREM TableTheorem == Spec => []LoginIsInTable
BY LanInvariant, PTL DEF LanInv

\* Without upgrades the server never calls recv on an open connection with
\* nothing to read, although the timer may close any while it scans.
THEOREM RecvTheorem == Spec => []RecvDoesNotBlock
<1>1. LanInv => RecvDoesNotBlock
  <2> SUFFICES ASSUME LanInv, upgrades = 0, pc = "recv", SocketFD[slot] # -1
               PROVE  owner[SocketFD[slot]] # "free" /\ inbox[SocketFD[slot]] # "empty"
    BY DEF RecvDoesNotBlock
  <2>1. slot \in ToScan /\ SocketFD[slot] \in ready
    BY DEF LanInv, Place, ToScan, Slots
  <2> QED
    BY <2>1 DEF LanInv, ReadyHasData, SlotsOwnTheirSockets, Going, ToScan
<1> QED
  BY <1>1, LanInvariant, PTL
=============================================================================
