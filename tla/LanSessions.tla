----------------------------- MODULE LanSessions -----------------------------
(***************************************************************************)
(* The phones on the local network: TcpServerThread accepts up to eight    *)
(* TCP clients (g_stTCPSocketClients), reads their packets, and remembers  *)
(* who has given the passcode (g_SocketLogin, by descriptor).  The main    *)
(* task counts every client down once a second and closes the silent ones; *)
(* it has the highest priority and may run between any two stores of the   *)
(* server thread, so the server's handlers are cut where its table can     *)
(* change under them.  Descriptors are shared with all other sockets of    *)
(* the firmware and reused, lowest first.                                  *)
(*                                                                         *)
(* A firmware upgrade, started over UDP, takes the next TCP connection for *)
(* its data and closes the descriptors of all clients first.               *)
(***************************************************************************)
EXTENDS Integers, FiniteSetsExt

CONSTANTS
    SOCKET_MAXTCPCLENT,      \* size of both tables (8)
    LAN_CLIENT_MAXLIVETIME,  \* seconds a silent client is kept (12)
    MaxFd,                   \* bound: descriptors of lwIP are 1..MaxFd
    MaxUpgrades              \* bound: upgrade commands

ASSUME LanConstants ==
    /\ SOCKET_MAXTCPCLENT \in Nat \ {0}
    /\ LAN_CLIENT_MAXLIVETIME \in Nat \ {0}
    /\ MaxFd \in Nat \ {0} /\ MaxUpgrades \in Nat

Slots == 1..SOCKET_MAXTCPCLENT
Fds   == 1..MaxFd

\* What a phone sends: a login with the right passcode, or anything else,
\* none of which changes the tables.
Request == {"login", "other"}
ServerPc == {"check", "ota", "otaRecv", "register", "arm", "select", "scan", "recv",
             "received", "fin", "closed", "out"}

VARIABLES
    SocketFD,  \* g_stTCPSocketClients[i].SocketFD, -1 if free
    TimeOut,   \* g_stTCPSocketClients[i].TimeOut
    g_SocketLogin, \* descriptors that have logged in, 0 if free
    pc,        \* where TcpServerThread is
    newFd,     \* the descriptor just accepted (-1 once it is dealt with)
    slot,      \* the loop index i (1 outside the loops)
    ready,     \* readfds after select
    pkt,       \* g_stSocketRecBuffer
    upgrade,   \* upgradeFlag: "off" or "start"
    upgrades,  \* upgrade commands so far
    owner,     \* lwIP: who holds a descriptor: "free", "lan" or "other"
    inbox,     \* what can be read from it: "empty", "fin" or a Request
    passed,    \* history: "yes" if the connection gave the right passcode
    pending    \* phones waiting to be accepted (0 or 1)

table   == <<SocketFD, TimeOut, g_SocketLogin>>
server  == <<pc, newFd, slot, ready, pkt>>
ota     == <<upgrade, upgrades>>
sockets == <<owner, inbox, passed>>
vars == <<table, server, ota, sockets, pending>>

Init ==  \* Init_Service
    /\ SocketFD = [i \in Slots |-> -1] /\ TimeOut = [i \in Slots |-> 0]
    /\ g_SocketLogin = [i \in Slots |-> 0]
    /\ pc = "check" /\ newFd = -1 /\ slot = 1 /\ ready = {} /\ pkt = "other"
    /\ upgrade = "off" /\ upgrades = 0
    /\ owner = [f \in Fds |-> "free"] /\ inbox = [f \in Fds |-> "empty"]
    /\ passed = [f \in Fds |-> "no"]
    /\ pending = 0
-----------------------------------------------------------------------------
(* lwIP. *)

FreeFds == {f \in Fds : owner[f] = "free"}
OpenFds == Fds \ FreeFds

\* A new socket takes the lowest free descriptor.
Opens(f, who) ==
    /\ f = Min(FreeFds)
    /\ owner' = [owner EXCEPT ![f] = who]
    /\ inbox' = [inbox EXCEPT ![f] = "empty"]
    /\ passed' = [passed EXCEPT ![f] = "no"]

\* close() of a set of descriptors, whoever holds them.
Closes(fs) ==
    /\ owner' = [f \in Fds |-> IF f \in fs THEN "free" ELSE owner[f]]
    /\ inbox' = [f \in Fds |-> IF f \in fs THEN "empty" ELSE inbox[f]]
    /\ passed' = [f \in Fds |-> IF f \in fs THEN "no" ELSE passed[f]]

\* Every login entry of the descriptors in fs is freed.
LogoutOf(fs) == [j \in Slots |-> IF g_SocketLogin[j] \in fs THEN 0
                                 ELSE g_SocketLogin[j]]
-----------------------------------------------------------------------------
(* TcpServerThread: Socket_CheckNewTCPClient. *)

NobodyNew ==
    /\ pc = "check" /\ pending = 0
    /\ pc' = "select"
    /\ UNCHANGED <<table, newFd, slot, ready, pkt, ota, sockets, pending>>

Accept ==
    /\ pc = "check" /\ pending = 1 /\ FreeFds # {}
    /\ pending' = 0
    /\ newFd' = Min(FreeFds) /\ Opens(newFd', "lan")
    /\ pc' = IF upgrade = "start" THEN "ota" ELSE "register"
    /\ UNCHANGED <<table, slot, ready, pkt, ota>>

\* No descriptor is left: lwIP drops the connection.
AcceptFails ==
    /\ pc = "check" /\ pending = 1 /\ FreeFds = {}
    /\ pending' = 0
    /\ pc' = "select"
    /\ UNCHANGED <<table, newFd, slot, ready, pkt, ota, sockets>>

\* A round of the upgrade loop: the clients' descriptors are closed, but stay
\* in the table; then data is received and written to flash.
ClientFds == {SocketFD[i] : i \in Slots} \ {-1}

OtaRound ==
    /\ pc = "ota" /\ upgrade = "start"
    /\ Closes(ClientFds)
    /\ pc' = "otaRecv"
    /\ UNCHANGED <<table, newFd, slot, ready, pkt, ota, pending>>

\* Another command has cleared the flag: the loop is left with break, on to
\* the registration of the connection, which is still open.
OtaFlagCleared ==
    /\ pc = "ota" /\ upgrade = "off"
    /\ pc' = "register"
    /\ UNCHANGED <<table, newFd, slot, ready, pkt, ota, sockets, pending>>

OtaMoreData ==
    /\ pc = "otaRecv" /\ newFd \in OpenFds
    /\ pc' = "ota"
    /\ UNCHANGED <<table, newFd, slot, ready, pkt, ota, sockets, pending>>

\* The sender leaves, or recv fails: give up and return.
OtaAborts ==
    /\ pc = "otaRecv"
    /\ Closes({newFd})
    /\ upgrade' = "off"
    /\ pc' = "select" /\ newFd' = -1
    /\ UNCHANGED <<table, slot, ready, pkt, upgrades, pending>>

\* Writing the flash fails: the connection is closed, and the loop left with
\* break, on to the registration of the closed descriptor.
OtaWriteFails ==
    /\ pc = "otaRecv" /\ newFd \in OpenFds
    /\ Closes({newFd})
    /\ upgrade' = "off"
    /\ pc' = "register"
    /\ UNCHANGED <<table, newFd, slot, ready, pkt, upgrades, pending>>

\* All data received and written: the chip is reset.
OtaDone ==
    /\ pc = "otaRecv" /\ newFd \in OpenFds
    /\ SocketFD' = [i \in Slots |-> -1] /\ TimeOut' = [i \in Slots |-> 0]
    /\ g_SocketLogin' = [i \in Slots |-> 0]
    /\ pc' = "check" /\ newFd' = -1 /\ slot' = 1 /\ ready' = {} /\ pkt' = "other"
    /\ upgrade' = "off"
    /\ owner' = [f \in Fds |-> "free"] /\ inbox' = [f \in Fds |-> "empty"]
    /\ passed' = [f \in Fds |-> "no"]
    /\ pending' = 0
    /\ UNCHANGED upgrades

FreeSlots == {i \in Slots : SocketFD[i] = -1}

\* The client is entered in the first free slot ...
Register ==
    /\ pc = "register" /\ FreeSlots # {}
    /\ slot' = Min(FreeSlots)
    /\ SocketFD' = [SocketFD EXCEPT ![slot'] = newFd]
    /\ pc' = "arm"
    /\ UNCHANGED <<TimeOut, g_SocketLogin, newFd, ready, pkt, ota, sockets,
                   pending>>

\* Faulty variant: with a full table the connection is forgotten.
TableFull_Forgets ==
    /\ pc = "register" /\ FreeSlots = {}
    /\ pc' = "select" /\ newFd' = -1
    /\ UNCHANGED <<table, slot, ready, pkt, ota, sockets, pending>>

\* ... or closed if there is none.
TableFull ==
    /\ pc = "register" /\ FreeSlots = {}
    /\ Closes({newFd})
    /\ pc' = "select" /\ newFd' = -1
    /\ UNCHANGED <<table, slot, ready, pkt, ota, pending>>

\* Faulty variant: the count-down is not started.
Arm_NotStarted ==
    /\ pc = "arm"
    /\ TimeOut' = [TimeOut EXCEPT ![slot] = 0]
    /\ pc' = "select" /\ newFd' = -1 /\ slot' = 1
    /\ UNCHANGED <<SocketFD, g_SocketLogin, ready, pkt, ota, sockets, pending>>

\* The count-down of the slot starts, one store after the descriptor.
Arm ==
    /\ pc = "arm"
    /\ TimeOut' = [TimeOut EXCEPT ![slot] = LAN_CLIENT_MAXLIVETIME]
    /\ pc' = "select" /\ newFd' = -1 /\ slot' = 1
    /\ UNCHANGED <<SocketFD, g_SocketLogin, ready, pkt, ota, sockets, pending>>
-----------------------------------------------------------------------------
(* TcpServerThread: Socket_DoTCPServer. *)

\* select on all descriptors of the table; it returns when one is readable
\* or after a second.
Select ==
    /\ pc = "select"
    /\ ready' = {f \in ClientFds : inbox[f] # "empty"}
    /\ pc' = "scan" /\ slot' = 1
    /\ UNCHANGED <<table, newFd, pkt, ota, sockets, pending>>

\* Slots from the current one on that hold a readable descriptor.
ReadySlots == {i \in slot..SOCKET_MAXTCPCLENT :
                 SocketFD[i] # -1 /\ SocketFD[i] \in ready}

\* Faulty variant: every client is read, readable or not.
ScanNext_IgnoresSelect ==
    /\ pc = "scan"
    /\ \E i \in slot..SOCKET_MAXTCPCLENT :
         /\ SocketFD[i] # -1
         /\ \A j \in slot..(i - 1) : SocketFD[j] = -1
         /\ slot' = i
    /\ pc' = "recv"
    /\ UNCHANGED <<table, newFd, ready, pkt, ota, sockets, pending>>

ScanNext ==
    /\ pc = "scan" /\ ReadySlots # {}
    /\ slot' = Min(ReadySlots)
    /\ pc' = "recv"
    /\ UNCHANGED <<table, newFd, ready, pkt, ota, sockets, pending>>

ScanDone ==
    /\ pc = "scan" /\ ReadySlots = {}
    /\ pc' = "check" /\ slot' = 1 /\ ready' = {}
    /\ UNCHANGED <<table, newFd, pkt, ota, sockets, pending>>

\* The loop goes on with the next slot.
NextSlot == pc' = "scan" /\ slot' = slot + 1

\* Faulty variant: after an error the same client is tried again.
RecvFails_Retries ==
    /\ pc = "recv"
    /\ SocketFD[slot] \notin OpenFds
    /\ UNCHANGED vars

\* recv on a descriptor the timer has closed in between returns -1.
RecvFails ==
    /\ pc = "recv"
    /\ SocketFD[slot] \notin OpenFds
    /\ NextSlot
    /\ UNCHANGED <<table, newFd, ready, pkt, ota, sockets, pending>>

\* recv returns 0, the phone has closed the connection, or data.  With
\* nothing to read it blocks: no step is possible.
Recv ==
    /\ pc = "recv" /\ SocketFD[slot] \in OpenFds
    /\ LET f == SocketFD[slot] IN
         \/ inbox[f] = "fin" /\ pc' = "fin" /\ UNCHANGED <<pkt, inbox>>
         \/ /\ inbox[f] \in Request
            /\ pc' = "received" /\ pkt' = inbox[f]
            /\ inbox' = [inbox EXCEPT ![f] = "empty"]
    /\ UNCHANGED <<table, newFd, slot, ready, ota, owner, passed, pending>>

\* The phone has gone: its descriptor is closed, ...
PhoneGone ==
    /\ pc = "fin"
    /\ Closes({SocketFD[slot]} \ {-1})
    /\ pc' = "closed"
    /\ UNCHANGED <<table, newFd, slot, ready, pkt, ota, pending>>

\* Faulty variant: the login entry of the descriptor is left behind.
LogsOut_KeepsLogin ==
    /\ pc = "closed" /\ pc' = "out"
    /\ UNCHANGED <<table, newFd, slot, ready, pkt, ota, sockets, pending>>

\* ... logged out, ...
LogsOut ==
    /\ pc = "closed"
    /\ g_SocketLogin' = LogoutOf({SocketFD[slot]})
    /\ pc' = "out"
    /\ UNCHANGED <<SocketFD, TimeOut, newFd, slot, ready, pkt, ota, sockets, pending>>

\* ... and its slot freed.  The table is read anew in each step, and TimeOut
\* keeps counting.
FreesSlot ==
    /\ pc = "out"
    /\ SocketFD' = [SocketFD EXCEPT ![slot] = -1]
    /\ NextSlot
    /\ UNCHANGED <<TimeOut, g_SocketLogin, newFd, ready, pkt, ota, sockets, pending>>

\* Socket_ResetClientTimeout: the first slot with this descriptor.  A client
\* the timer has just closed is looked up as -1.
ResetClientTimeout(f) ==
    LET found == {i \in Slots : SocketFD[i] = f}
    IN  TimeOut' = IF found = {} THEN TimeOut
                   ELSE [TimeOut EXCEPT ![Min(found)] = LAN_CLIENT_MAXLIVETIME]

FreeLogins == {j \in Slots : g_SocketLogin[j] = 0}

\* Faulty variant: the search for a free entry runs past the end.
HandleLogin_PastEnd(f) ==
    g_SocketLogin' = IF FreeLogins # {}
                     THEN [g_SocketLogin EXCEPT ![Min(FreeLogins)] = f]
                     ELSE [j \in 1..(SOCKET_MAXTCPCLENT + 1) |->
                             IF j \in Slots THEN g_SocketLogin[j] ELSE f]

\* handleLogin with the right passcode: the first free entry, and no answer
\* if there is none.  A client that logs in again takes another entry.
HandleLogin(f) ==
    g_SocketLogin' = IF FreeLogins # {}
                     THEN [g_SocketLogin EXCEPT ![Min(FreeLogins)] = f]
                     ELSE g_SocketLogin

\* Socket_DoTCPServer on received data, and DispatchTCPData.  The other
\* requests only send answers; commands are the device's business.
Received ==
    /\ pc = "received"
    /\ LET f == SocketFD[slot] IN
         /\ ResetClientTimeout(f)
         /\ IF pkt = "login"
            THEN /\ HandleLogin(f)
                 /\ passed' = IF f \in Fds THEN [passed EXCEPT ![f] = "yes"]
                              ELSE passed
            ELSE UNCHANGED <<g_SocketLogin, passed>>
    /\ NextSlot /\ pkt' = "other"
    /\ UNCHANGED <<SocketFD, newFd, ready, ota, owner, inbox, pending>>

\* Data that fills the whole buffer is dropped; the count-down is not reset.
InvalidLength ==
    /\ pc = "received" /\ pkt = "other"
    /\ NextSlot
    /\ UNCHANGED <<table, newFd, ready, pkt, ota, sockets, pending>>
-----------------------------------------------------------------------------
(* The main task: Socket_ClientTimeoutTimer, once a second. *)

Expired == {i \in Slots : TimeOut[i] = 1}
ExpiredFds == {SocketFD[i] : i \in Expired} \ {-1}

CountDown == TimeOut' = [i \in Slots |-> IF TimeOut[i] > 0 THEN TimeOut[i] - 1 ELSE 0]

\* Faulty variant: the descriptor stays in the table after the close.
ClientTimeoutTimer_KeepsFd ==
    /\ CountDown /\ Closes(ExpiredFds)
    /\ g_SocketLogin' = LogoutOf(ExpiredFds)
    /\ UNCHANGED <<SocketFD, server, ota, pending>>

\* Faulty variant: a timed-out client stays logged in.
ClientTimeoutTimer_KeepsLogin ==
    /\ CountDown /\ Closes(ExpiredFds)
    /\ SocketFD' = [i \in Slots |-> IF i \in Expired THEN -1 ELSE SocketFD[i]]
    /\ UNCHANGED <<g_SocketLogin, server, ota, pending>>

ClientTimeoutTimer ==
    /\ CountDown /\ Closes(ExpiredFds)
    /\ g_SocketLogin' = LogoutOf(ExpiredFds)
    /\ SocketFD' = [i \in Slots |-> IF i \in Expired THEN -1 ELSE SocketFD[i]]
    /\ UNCHANGED <<server, ota, pending>>
-----------------------------------------------------------------------------
(* UDP task, phones and the other sockets of the firmware. *)

\* FwUpgradeProcess; if its answer cannot be sent the flag is cleared.
FwUpgradeProcess ==
    /\ upgrades < MaxUpgrades
    /\ upgrades' = upgrades + 1
    /\ upgrade' \in {"start", "off"}
    /\ UNCHANGED <<table, server, sockets, pending>>

PhoneConnects ==
    /\ pending = 0
    /\ pending' = 1
    /\ UNCHANGED <<table, server, ota, sockets>>

PhoneSends(f, request) ==
    /\ owner[f] = "lan" /\ inbox[f] = "empty"
    /\ ~(pc \in {"ota", "otaRecv"} /\ f = newFd)   \* that one sends firmware
    /\ inbox' = [inbox EXCEPT ![f] = request]
    /\ UNCHANGED <<table, server, ota, owner, passed, pending>>

PhoneCloses(f) ==
    /\ owner[f] = "lan" /\ inbox[f] = "empty"
    /\ ~(pc \in {"ota", "otaRecv"} /\ f = newFd)
    /\ inbox' = [inbox EXCEPT ![f] = "fin"]
    /\ UNCHANGED <<table, server, ota, owner, passed, pending>>

\* The cloud or the NTP task opens a socket, gets data on it, closes it.
OtherOpens ==
    /\ FreeFds # {}
    /\ Opens(Min(FreeFds), "other")
    /\ UNCHANGED <<table, server, ota, pending>>

OtherReceives(f) ==
    /\ owner[f] = "other"
    /\ inbox' = [inbox EXCEPT ![f] = IF @ = "empty" THEN "other" ELSE "empty"]
    /\ UNCHANGED <<table, server, ota, owner, passed, pending>>

OtherCloses(f) ==
    /\ owner[f] = "other"
    /\ Closes({f})
    /\ UNCHANGED <<table, server, ota, pending>>
-----------------------------------------------------------------------------
TcpServerThread ==
    \/ NobodyNew \/ Accept \/ AcceptFails
    \/ OtaRound \/ OtaFlagCleared \/ OtaMoreData \/ OtaAborts \/ OtaWriteFails
    \/ OtaDone
    \/ Register \/ TableFull \/ Arm
    \/ Select \/ ScanNext \/ ScanDone \/ RecvFails \/ Recv
    \/ PhoneGone \/ LogsOut \/ FreesSlot \/ Received \/ InvalidLength

Environment ==
    \/ FwUpgradeProcess \/ PhoneConnects
    \/ \E f \in Fds : \/ \E r \in Request : PhoneSends(f, r)
                      \/ PhoneCloses(f)
                      \/ OtherReceives(f) \/ OtherCloses(f)
    \/ OtherOpens

Next == TcpServerThread \/ ClientTimeoutTimer \/ Environment

Spec == Init /\ [][Next]_vars

\* Both tasks keep running.
FairSpec == Spec /\ WF_vars(TcpServerThread) /\ WF_vars(ClientTimeoutTimer)
-----------------------------------------------------------------------------
(* Properties. *)

\* Every variable keeps its type; both tables hold descriptors or their free
\* marks (-1 and 0), and a login of a client closed meanwhile is the entry -1.
TypeOK ==
    /\ SocketFD \in [Slots -> Fds \union {-1}]
    /\ TimeOut \in [Slots -> 0..LAN_CLIENT_MAXLIVETIME]
    /\ g_SocketLogin \in [Slots -> Fds \union {-1, 0}]
    /\ pc \in ServerPc /\ newFd \in Fds \union {-1}
    /\ slot \in 1..(SOCKET_MAXTCPCLENT + 1) /\ ready \subseteq Fds
    /\ pkt \in Request /\ upgrade \in {"off", "start"} /\ upgrades \in Nat
    /\ owner \in [Fds -> {"free", "lan", "other"}]
    /\ inbox \in [Fds -> Request \union {"empty", "fin"}]
    /\ passed \in [Fds -> {"no", "yes"}] /\ pending \in {0, 1}

\* The slot of a phone that has gone, from the close to the store of -1.
Going(i) == pc \in {"closed", "out"} /\ i = slot

\* As long as no upgrade was started, a slot never names a descriptor that is
\* closed or belongs to another task, and no other slot names the same one;
\* otherwise the timer would close, and the server read, somebody else's
\* socket.  The exception is the slot whose phone has just gone: its descriptor
\* is closed before the slot is freed, so a time-out at this very moment closes
\* it twice.  (An upgrade closes all clients and leaves them in the table.)
SlotsOwnTheirSockets ==
    \A i \in Slots : upgrades = 0 /\ SocketFD[i] # -1 /\ ~Going(i) =>
        /\ owner[SocketFD[i]] = "lan"
        /\ \A k \in Slots \ {i} : SocketFD[k] # SocketFD[i]

\* Every socket the server has accepted is in the table, or about to be
\* entered or closed: none is forgotten and kept open for ever.
NoSocketLeak ==
    \A f \in Fds : upgrades = 0 /\ owner[f] = "lan" =>
        \/ f \in ClientFds
        \/ pc = "register" /\ f = newFd

\* A descriptor counts as logged in only while the connection that gave the
\* passcode is open on it: whoever gets the number next starts logged out.  Only
\* between the close of the server and its next store the login is still there;
\* no phone can connect in that time.
LoginBelongsToPhone ==
    \A j \in Slots :
        upgrades = 0 /\ g_SocketLogin[j] \in Fds
          /\ ~(pc = "closed" /\ g_SocketLogin[j] = SocketFD[slot]) =>
        owner[g_SocketLogin[j]] = "lan" /\ passed[g_SocketLogin[j]] = "yes"

\* The server calls recv only with something to read (or on a descriptor the
\* timer has taken away): it never blocks there, for that would stop the
\* service of all phones.
RecvDoesNotBlock ==
    upgrades = 0 /\ pc = "recv" /\ SocketFD[slot] # -1
        => owner[SocketFD[slot]] # "free" /\ inbox[SocketFD[slot]] # "empty"

\* Also after an upgrade has been started, aborted or failed: a login entry
\* is always the descriptor of some slot, so that the timer or the end of
\* the connection can free it.
LoginIsInTable ==
    \A j \in Slots : g_SocketLogin[j] \in Fds => g_SocketLogin[j] \in ClientFds

\* A phone that connects is accepted, or dropped for lack of descriptors.
PhoneIsAnswered == pending = 1 ~> pending = 0

\* A connection does not stay open without ever being used: sooner or later
\* the phone sends something or the connection is closed.
SilentPhoneIsDropped ==
    \A f \in Fds : owner[f] = "lan" ~> (owner[f] # "lan" \/ inbox[f] # "empty")
=============================================================================
