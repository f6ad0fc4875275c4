# A TLA+ model of the Gizwits Wi-Fi socket on the NL6621

The repository is the firmware of a Wi-Fi wall socket: a NL6621 SoC running
uC/OS-II and lwIP, with the Gizwits "GAgent" on top of it. GAgent registers
the device with the Gizwits cloud, keeps an MQTT session open, serves phones
on the local network, joins a Wi-Fi network chosen by the user, upgrades the
firmware and switches the relay.

Paths below are relative to `src/Gizwits_WIFI-Socket_SDK/Source/App/GizWitsWifi/`
unless they start with `Source/`.

## 1. Inventory

### Tasks

uC/OS-II schedules strictly by priority (`Source/Include/app_cfg.h:56-69`,
`gizwits_main.c:76-141`). From high to low:

| task | code | loop |
|---|---|---|
| timer task | uC/OS-II | counts the one-second tick, fires the schedule timers |
| SysMng | `Source/Sys/sys_mgmt.c` | turns Wi-Fi events into callbacks, starts and stops the DHCP server |
| main | `gizwits_main.c`, `system/core_gagent.c` | software timers (heart beat, client time-outs), buttons |
| tcpip | lwIP | network stack; DHCP and DNS server callbacks |
| SysStatus | `system/nl6621_drv.c` | LED |
| UDP | `system/xpgmain.c`, `lan/Socket.c` | onboarding, discovery, upgrade command |
| DevDiscover | `lan/Socket.c` | answers scans |
| UdpBCT | `system/xpgmain.c` | announces a finished onboarding, resets |
| TcpServer | `system/xpgmain.c`, `lan/Socket.c` | phones on TCP 12416, upgrade data |
| TcpCloud | `system/xpgmain.c` | `GAgent_Login_Cloud` |
| NTP | `lib/ntp_client.c` | sets the clock |

There are no locks: shared globals are safe only as far as priorities and
blocking calls make them so. That is where most of the hazards come from.

### Components

| component | state | operations | interacts with | what makes it correct |
|---|---|---|---|---|
| Cloud login (`system/gagent_login_cloud.c`, `cloud/http.c`, `cloud/mqttxpg.c`, `cloud/MqttSTM.c`) | `g_ConCloud_Status`, `g_MQTTStatus`, the HTTP and MQTT sockets, DID, M2M server, message ids, heart-beat counters | register, provision, connect, subscribe, ping, give up | main task (heart beat), NTP (clock), flash (DID), everyone who publishes | no login without an identity; running means subscribed on this connection; one identity; every failure is left again |
| LAN sessions (`lan/Socket.c`, `lan/lan.c`) | client table, login table, count-downs | accept, select, receive, log in, close, time out | main task (count-down), every user of lwIP descriptors, upgrade | tables match the sockets behind them; a login does not outlive its connection; nobody blocks the server |
| Firmware upgrade (`lan/Socket.c`, `Source/BSP/flash.c`) | `upgradeFlag`, sizes, sector buffer and number, two flash areas | command, receive, write, copy, reset | LAN sessions (closes their sockets) | success means the file is there; the old firmware survives until the new one is complete |
| DHCP server (`../DhcpServer/dhcp_server.c`) | table of entries, leases, offers | DISCOVER, REQUEST, RELEASE, DECLINE, tick, start, stop | Wi-Fi link events | an address has one user; leases are not forgotten early |
| MQTT codec (`cloud/mqttlib.c`, `lan/mcu_common.c`) | none | build and recognise packets | cloud login | lengths round-trip |
| Name resolution (`lib/adapter_ucos.c`) | semaphore, `domain_flag`, `domain_ipaddr` | resolve, callback | cloud login | an answer belongs to its question |
| Onboarding (`wifi/`, `system/nl6621_drv.c:143-189`, `lan/lan.c:108-139`) | `wifiStatus`, `sys_status`, two semaphores, `TestDirectCfgFlag` | boot, link events, onboarding packet, direct config | SysMng, UDP, UdpBCT, flash | a network that works is saved and used after the reset |
| Configuration store (`system/nl6621_drv.c:13-114`, `system/xpgmain.c:37-125`) | one flash sector, its copy in RAM | load, save, factory reset | cloud login, onboarding, buttons | what the boot accepts is whole; the device comes up with whatever is there |
| Dynamic memory (`Source/Ports/Cortex-M3/os_dmem.c`) | block headers in a circular list, search pointer, byte count | create, allocate, release | everyone | memory has one owner; a request fails only if there is no room; a search ends |
| Socket relay (`dev/strip.c`, `system/nl6621_drv.c:326-390`) | relay, LED, schedule, two timers, `repeat_flag` | command, timer, button, report | cloud, LAN, main, timer task | relay, LED and reported status agree; a schedule that is off does nothing |
| Software timers (`system/core_gagent.c`) | timer table, tick counter | create, tick, run | timer task, main | every handler once per period |
| Time (`lib/ntp_client.c`) | OS time | request, set | everything that measures time | |
| Protocol and reports (`lan/mcu_v4.c`, `lan/lan.c`) | the status frame | build, send, dispatch | all | |
| DNS server, discovery, text helpers | none | | | |
| `Source/Sys`, `Source/BSP`, `Source/Ports`, `Source/LwIP/port` | parameters, registers | | | |
| vendored: `Source/uCOS-II`, `Source/LwIP/src`; binaries: `Source/Lib`, apps, PDFs, Keil projects | | | | not modelled |

The hard behaviours, each with its line in `PROJECT.json` under "hazards":
the heart-beat timer that closes the MQTT socket in the middle of a login; two
status variables stored one after the other; a port and a status byte changed by
read-modify-write in five tasks; three tasks that save one flash sector at once; state that survives a
reconnection; TCP that glues and cuts packets; descriptors that are closed by
one task and reused by another; half-finished upgrades; lost DHCP replies and
expiring offers; a clock that jumps; power failures.

## 2. What is modelled

### CloudLogin (with MCCloudLogin, CloudLoginProofs)

`conCloud` is `g_ConCloud_Status`, `mqttStatus` is `g_MQTTStatus`, `socketid`
the MQTT socket, `http` the HTTP one; `did`, `didLen`, `flashDid`, `m2m` are
the identity in RAM and in flash and the server's address. The broker's side
of the connection is `link`, `session`, `connDid`, `acked`, `down`, `arrived`.

The cloud thread is the lowest but one in priority: it is preempted anywhere.
Every branch of `GAgent_Login_Cloud` is therefore cut at its blocking calls and
between two stores of shared state (`pc`): `ReqDid` ... `SaveDid`,
`ReqM2mInfo` ... `Http_Recive_M2minfo`, `ReqLogin`, `CloseOldSocket`,
`Connect`, `SendConnect`, `EnterRunning`, `EnterLogin`, then
`MQTT_readPacket`/`ReadShort` and `Handle...`. The heart beat
(`HbCount`, `HbClose`) runs in the main task, above all of them, and is one
step. Publications by other tasks, NTP setting the clock and a chip reset are
actions of their own; `Deliver`, `Break`, `BrokerPublish` and `Stabilise` are
the network.

Abstractions. A timestamp is only used as "now - then >= limit" on unsigned
seconds, so it is an age that saturates at the limit; a jump of the clock makes
all ages maximal (or leaves them). A packet is its type, message id and topic;
what is left of a cut packet has type OTHER. A descriptor of 0 counts as "not
created" in the code and is never handed out here. `wifiStatus` is fixed:
`GAgent_Login_Cloud` runs only in station mode and the mode changes only
through a reset. `close()` in the heart beat does not block. The call of
`MQTT_handlePacket` at `cloud/MqttSTM.c:89` has no effect, because it follows
a close. `IdentityBeforeLogin` also shows that the branch for an empty DID in
`cloud/mqttxpg.c:472-482` is never taken.

### LanSessions (with MCLanSessions, LanSessionsProofs)

`SocketFD`, `TimeOut`, `g_SocketLogin` are the two tables; `owner`, `inbox`
are lwIP's descriptors, handed out lowest first to the server and to other
tasks (`OtherOpens`, `OtherReceives`, `OtherCloses`). The server thread is cut
where the timer of the main task can change its table: accept (`Accept`,
`AcceptFails`), the two stores of a new client (`Register`, `Arm`), `Select`,
the scan of the ready ones, `Recv`, and what is done with the data
(`Received`, `InvalidLength`). A phone that has gone takes three steps:
`PhoneGone` closes its descriptor, `LogsOut` removes its login, `FreesSlot`
clears its slot, each reading the table anew. Between them the slot names a
closed descriptor that another task may have got already; `Going` names that
window, and `SlotsOwnTheirSockets` and `LoginBelongsToPhone` excuse this slot
for as long as it lasts. `ClientTimeoutTimer` is the whole count-down of one
second. The upgrade loop is followed as far as it concerns the tables: each turn
(`OtaRound`) looks at the flag, which the UDP task may have cleared
(`OtaFlagCleared`: the loop is left with the socket open, and it is registered
like a phone's), closes the descriptors of all clients and receives
(`OtaMoreData`, `OtaAborts`, `OtaWriteFails`, `OtaDone`). The numbers stay in the
table, so that an upgrade that is aborted leaves a table that is wrong;
`LoginIsInTable` is what stays true all the same, and the other properties say
`upgrades = 0`.

Abstractions. A packet is a login with the right passcode or something that
changes no table; one that fills the buffer is dropped (`InvalidLength`).
`close()` is one step although lwIP may yield in it; a
blocking `send` to a stuck phone and a second close of a descriptor are left
out. One phone that repeats its login can fill the login table
(`lan/lan.c:55`); later logins are then dropped silently, which the model does
too. A slot freed by its phone keeps its old count-down, and `SocketFD` is stored
before `TimeOut`: a tick between the two stores closes a phone that has just
connected (`lan/Socket.c:432`).

### DhcpServer (with MCDhcpServer, DhcpServerProofs)

`State`, `Timeout`, `MacAddr`, `Lease` are the fields of the entries. Each
message is one action, since `DHCPS_RecvCb` and the tick both run in lwIP's
task; the lookup of `_ClientTableLookup` is split into named sets (`Idle`,
`ReqClient`, `NewClient`, ...). A reply may be lost. The phones are the
environment: `holds` and `left` say which address a phone believes it may use
and for how long, `offered` and `offerLeft` which offer it was sent last and how
much of the offer's time is left. `PromiseKept` is stated from this side: it looks
at the table only after the REQUEST. Once an offer has run out its entry may
belong to another phone and the REQUEST is refused; nothing is promised then.

Assumptions. The pool fits its subnet (`DhcpConstants`): the default server
address 10.10.100.254/24 gives the pool .1 to .8. A server with host part 248
to 253 would put host 1 into the pool twice (line 838). Phones count their
lease as fast as the server's tick, and no phone has the all-zero MAC address.
`DHCPS_ClientDelete` has no caller. `DHCPS_Stop` called by SysMng in the middle
of a receive callback is not modelled. Observed and modelled as it is: an
INFORM is answered with a NAK although a comment (line 425) says such frames
are dropped, and a phone that asks for an address outside the pool may get an
ACK for its own entry.

### OtaUpgrade (with MCOtaUpgrade, OtaUpgradeProofs)

`upgradeFlag`, `fileSize`, `recvFileSize`, `WritePtr`, `upgradeSector`,
`OtaDataBuf` keep their names; `bak` and `main` are the two flash areas, unit
by unit. `Command` is the UDP packet, `Accept`, `Turn`, `Recv`, `RecvFails`
the download loop, `Copy`, `Finish` the copy over the running firmware,
`Reset` a reset or power failure at any moment, also in the middle of a sector
(`TornWrite`). `WriteResult` is what `QSpiWriteOneSector` returns: the
tenth try's success is reported as a failure ("late"), ten failures as a
success ("bad").

A command during a download overwrites `fileSize`, as the code does. If it comes
from another updater, with another size (`Misannounced`, allowed by
`SecondUpdater`), the download ends too early or never; such an upgrade counts as
disturbed, like one that is broken off, and `aborts` counts both since the last
reset. `SuccessSinceReset` and `OldFirmwareUntilDownloaded` hold only with
`aborts = 0`: after a disturbed upgrade the next one may be copied from a backup
area that is wrong, as `ota_retry` shows.

Assumptions. The connection that is accepted carries the file that was announced
last; writes past the end of an area are not followed.

### DynMem and MemoryPool (with MCDynMem, DynMemProofs, SetSums)

`MemoryPool` says what a caller of `OSMMalloc` and `OSMFree` relies on: `held`
are the stretches of the pool that are given out, `pending` the request in
progress. A grant is unused memory, long enough and without more waste than a
block that cannot be split; a refusal means that no stretch of unused bytes is
long enough.

`DynMem` is `os_dmem.c`: `dm_next` and `dm_previous` are the links of the
headers (their common domain are the blocks), `dm_memory_free`,
`dm_search_ptr`, `dm_available` keep their names. The search of `OS_GetMem` is
one step per block (`SearchOn`) although interrupts are off, so that its end is
a property and not an assumption. `TakePart` and `TakeWhole` are the two ways
to give a block out, `FreeMem` is a release with its two merges. The refinement
mapping takes the blocks that are not free, each up to the next header, for
`held`, and the rounded size for `pending`: the abstract pool is as long as
everything before the trailer, headers included. Releasing what was not given
out, and a size so large that the rounding overflows 32 bits, are outside the
model.

### Onboarding (with MCOnboarding, OnboardingProofs)

`flash` is the configuration sector and `ram` its copy `g_stGAgentConfigData`,
both field by field in the order of their addresses; `saver` says where each of
three tasks is in `WriteFlash`. Programming flash only clears bits (`Over`), so
a save that meets another one may leave a field that is neither's value
("mix"). The 154 bytes lie in one page and are written in address order;
`PowerFails` may cut the write between two fields. `main` is the main task from
`GAgent_Config_Status_Init` to its loop, `sysmng` the delivery of events with
the wait for DHCP and the save inside it, `udp` and `bct` the onboarding packet
and `UdpBCTThread`. The two semaphores keep their counts, which matters: the
link-up of the soft AP leaves a count in `pLinkUpSem`, so the wait of
`Udp_Onboarding` returns at once and `onboarding` is SUCCESS before the new
link is up. `radio` and `events` are the Wi-Fi stack in ROM.

Assumptions. Associating takes seconds, so a task that can run has run before
the stack reports (`Quiet`). The DHCP server of the soft AP starts. A phone
sends an onboarding packet only over a soft AP that serves addresses. The
passcode, and how SSID and key are cut out of the packet, are left out. The cloud
thread runs `GAgent_Login_Cloud` only as a station (`WifiStation`), so a
registration saves nothing between an onboarding in the soft AP and the reset.
The loops that repeat an announcement until it has been sent are one step that
may be delayed for any time (`DirectConfigSaved`, `BroadcastResets`).

What the model shows beside its properties. A network without a DHCP server
keeps the boot waiting for ever, and with it the reset button
(`system/nl6621_drv.c:157,170`, `DhcpTryTimes = 0`). `UdpBCTThread` resets the
chip without looking whether a save is under way. `ResetFindsNetwork` says that
when it may do so the new network is in flash, except in one place: the link was
lost and came up again, and the system management task has erased the sector for
the save of the second link-up and not yet written it. A reset there loses the
configuration (`system/xpgmain.c:176`).
The save of the reset button may pick up the network of an onboarding packet
that arrives in the middle of it (`known`). A device whose identity was lost
registers again and keeps its network only if `flag` is exactly 1.

### StripControl (with MCStripControl, StripControlProofs)

`port` is the output register, `onoff` the status byte, `week_repeat`,
`repeat_flag`, `minute` the schedule; `remaining` are the two uC/OS-II timers.
What a task has still to do is a list of accesses (`todo`), made by `Program`
from a command in the order of `strip_data_parse`; a read-modify-write is two
accesses and the value in between is in `reg`. Setting a timer is three steps
(`at`): `CallTimingValue` reads minute and clock and keeps the delay in `timing`,
`SetDelay` stores it in the timer (`OSTmrDly`), `StartTimer` starts the timer with
what is stored there by then. Tasks of higher priority preempt between any two
accesses, and ticks and the timer task come in at any point; `held` bounds the
ticks while a task is at its accesses (`MaxHeld`, in the run only one). The first
answer to a ping (`PingResp`) and the LED task write the same port. `armedFor`,
`late`, `byMinute`, `torn` and `crossed` are history variables that the
properties need.

Assumptions. `strip_data_parse` takes any 16-bit minute; so does the model
(`StripConstants`), while the run, and `FiresInMinute`, are about minutes below
1440, which is what the app sends. Of the count-down attributes
`CountDown_OnOff` is the bit "count" of the status byte; `CountDown_Minute`
only stores a value (its timer calls are commented out) and is left out, as is
`strip_stop`, which has no caller. `timing_value` reads the minute and the clock
in one step.

What the model shows beside its properties. A task that is preempted between
`timing_value` and `OSTmrStart` while another task sets the same timer starts a
stale delay last: minute and timer part, and without the exception for `crossed`
`ScheduleIsCurrent` is violated. A start that is held up by a few ticks at the end
of a minute makes the timer run out in the next minute: without `late`
`FiresInMinute` is violated. An LED blink that is preempted
between reading and writing the port undoes a relay switch, while the status
says it has happened: without the exception for `torn`, `StatusIsTrue` is
violated. Setting a minute starts its timer although the schedule is off
(`dev/strip.c:222,229`). Setting the days after a timer has fired leaves a
schedule that is enabled and not running. A timer that fires between the stores
of `week_repeat` and `repeat_flag` neither switches nor repeats. Seconds since
November 2014 times 100 overflow 32 bits in April 2016, so that NTP then sets a
wrong time (`lib/ntp_client.c:152`); the properties are about the device's clock.

## 3. Runs

| run | constants | shows |
|---|---|---|
| `cloud_safety` | 2 DIDs, 2 packets in flight, HTTP time-out 1, connect time-out 2, heart beat 2/2/1, 1 reset, segmented TCP, failing sends, refusals | the five safety properties of the login |
| `cloud_live` | 1 DID, 3 packets, 1 clock jump, no cut packets, no failing sends, no refusals | `EventuallyLoggedIn`, for a registered device after broken connections, heart-beat closes and a clock jump |
| `cloud_register` | an unregistered device | violation: `RegistrationResent` |
| `lan_safety` | 2 slots, 3 descriptors, time-out 1, 2 upgrades | tables match sockets, nothing leaks or blocks; `LoginIsInTable` with upgrades |
| `lan_live` | 2 slots, 2 descriptors | `PhoneIsAnswered`, `SilentPhoneIsDropped` |
| `dhcp` | 3 phones, 2 entries, lease 2, offer 2 | the safety properties of the table, `PromiseKept`, and `AbsentStationFreesEntry` |
| `ota_safety` | 3 sectors of 2 units, files of 3, 5 and 4 units, 4 commands, a second updater, 1 disturbed upgrade | `SuccessSinceReset`, `OldFirmwareUntilDownloaded`, both while no upgrade was disturbed since the reset |
| `ota_retry` | 2 commands, 1 broken-off upgrade | violation: `SuccessIsTheFile` |
| `ota_flash` | a page may fail for good | violation: `SuccessIsTheFile` |
| `heap` | words and headers of 2 bytes, smallest block 4, pool 32, requests up to 9 bytes | the list is the pool, `SearchEnds`, and the refinement `ImplementsMemoryPool` |
| `onboarding` | 2 networks, 1 lost link, 2 packets, 1 use of the reset button, 1 power failure | the configuration is whole, only networks that worked are kept, the onboarding and every boot end |
| `strip` | 1 tick a second, 2 seconds a minute, 2 minutes a day, 2 days a week, `OSTime` wraps after 9 ticks; 2 commands, presses or blinks, 1 tick while tasks are busy, 1 set clock (to tick 3) | schedule, relay and status under preemption |

Why the bounds are enough. Two DIDs tell a new identity from the old one. Two
packets in flight make recv return one, two, or part of one. A connect time-out
of 2 leaves a tick between arming and expiry; the heart beat goes through ping,
second ping and give-up. Two slots and three descriptors let a descriptor be
held by the server, by a phone being accepted and by another task, and be
reused. Three phones over two addresses leave one without, and leases and
offers of two ticks let every expiry meet every message, and a REQUEST come before
the last tick, at it and after it. Files of 3, 5 and 4
units over sectors of 2 end inside and at the end of a sector. A pool of sixteen
words holds up to five blocks: two merges at once, a rest that is too short to
be split off, a request that no block can serve, and a search that wraps. Two
networks tell the new one from the old; two packets let an onboarding meet a
direct config or a second onboarding. Two starts in `strip` are two
tasks that meet, with the timers as third actor; a wrap of 9 ticks is longer
than two days of 4, so that a timer runs out again on the second day, and on a
day after the wrap. One tick among the accesses of a task is enough to move the
start of a timer into the next minute. The three
`ota` runs and `onboarding` turn the deadlock check off: a device whose firmware
is destroyed, or that waits for a phone when the bounds are used up, does stop.

What the violations show.

* `cloud_register`: `gagent_login_cloud.c:110` assigns `CONCLOUD_REQ_DID_ACK`
  in the state `CONCLOUD_REQ_DID_ACK`. A registration whose answer is lost is
  never repeated, against the comment four lines above.
* `ota_retry`: `upgradeSector` is reset only after a success. A download that
  breaks off and is repeated without a reset lands behind the old sectors, and
  the device reports success.
* `ota_flash`: `while (j--)` leaves `j` at 2^32-1 after ten failures, so the
  test `j == 0` takes them for a success.

`ota_safety` states what is true in spite of the last two: with the flash
working, and as long as no upgrade was disturbed since the last reset, success
means the file is there and the old firmware boots until the copy begins.

Fairness. CloudLogin: weak fairness of the cloud thread (every task above
it blocks or sleeps again and again, so it is never starved), strong fairness of the two clock actions,
because the polling thread disables and enables them again and again while the
seconds pass all the same, weak fairness of delivery on a live TCP connection.
LanSessions: weak fairness of the server thread and of the timer. DhcpServer:
weak fairness of the tick, which re-arms itself. Nothing is assumed of phones.
DynMem: weak fairness of the search, which runs with interrupts off. Onboarding:
weak fairness of every task and of each save, of the Wi-Fi stack's report on an
association (`InfConTryTimesSet(5)` bounds its tries), and of a DHCP answer
while the link is up; nothing of users, phones and power. The announcements are
fair only while the station has an address (`Sending`): without one `sendto` may
fail for ever, and the code repeats it.
`cloud_live` excludes cut packets, failing sends and refusals because the code
does not recover from them: a SUBACK that is lost or glued to another packet
leaves the login at its topic for ever while the pings are answered
(`gagent_login_cloud.c:182` only times the CONNACK), and a refused device
registers again and may end in the state of `cloud_register`. A device that has
not registered yet is excluded for the same reason (`StoredDids`).

## 4. Proofs

All theorems hold for every value of the constants that satisfies the named
assumptions (`CloudConstants`, `LanConstants`, `DhcpConstants`, `OtaConstants`,
`HeapConstants`, `OnboardingConstants`, `StripConstants`), so for eight entries,
ten years, any number of phones, every command and the real pool as well. TLC has
checked every inductive invariant below on the instance of its run as well. Three theorems have a further hypothesis, which they name.

**CloudLoginProofs.** `TypeCorrect`; `IdentityTheorem`, `DeadSocketTheorem`,
`SessionDidTheorem`, `SilenceTheorem`, `SubscribedTheorem`. None of the
properties is inductive.

* `LoginInv` adds to `DeadSocketIsTimed` where the thread can be while the
  status is RUNNING (`PcOfRunning`) and names all the places where the device
  must know its DID (`HasDid`, `NewDid`) and its server (`HasM2m`). It is
  needed because the timer sets REQ_LOGIN whatever the thread is doing: the
  argument is that the timer does so only with a socket, and a socket exists
  only after both are known.
* `SessionInv` follows the DID from RAM through the CONNECT to the session
  (`RamDid`, `NewSession`, `SessionDid`, `RealDid`): the DID in RAM is blank or
  the stored one except just before it is saved, and no session is open then
  under another one.
* `SilenceInv` relates the two counters of the heart beat to the true silence;
  `TimesMonotonic` is the arithmetic for the product of two variables.
* `SubscriptionInv` is what makes RUNNING mean subscribed on this connection.
  `Confirmed` says how far `g_MQTTStatus` may be for what the broker has
  confirmed; to keep it, every packet in flight must be `Sound`: message ids
  grow, so a SUBACK with the id of the last SUBSCRIBE is for the topic the login
  waits for, and one of an earlier connection is never read on this one. A
  SUBSCRIBE that fails to be sent takes an id too and does no harm.

**LanSessionsProofs.** `TypeCorrect`, `SlotsTheorem`, `LeakTheorem`,
`LoginTheorem`, `TableTheorem`, `RecvTheorem`: every safety property of the run,
for any number of clients and descriptors. To the properties `LanInv` adds `Place`
(which variables of the thread are set at each of its steps), `Registering` (a
connection between accept and its slot is open and in no slot: the timer cannot
have closed it), `Gone` and `LoggedOut` (the descriptor of a phone that has gone is free or
another task's, and its login is removed before its slot is freed) and
`ReadyHasData`. The last is the argument for
`RecvDoesNotBlock`: select has long returned when the scan gets to a slot, and
the timer may have closed that slot and another task have got the descriptor.
It says that the slots *still to be scanned* (`ToScan`) whose descriptor select
reported have data, and survives because a closed slot holds no descriptor and
no other slot gets one before the next accept. `LeastFirst`, that `Min` of a set
of naturals is one of them, is a least counterexample by `WFMin`.

**DhcpServerProofs.** `TypeCorrect`, `OneEntryTheorem`, `LeaseTheorem`,
`ExclusiveTheorem`, `HistoryTheorem`, `PromiseTheorem`. The
inductive invariant `DhcpInv` is `TypeOK`, `OneEntryEach`, `LeaseIsBacked`, and
that phones with an address are in the network (`HoldersAreJoined`), and that an
offer that has not run out has its entry, with no less time left (`OfferIsBacked`). The heart is `MessageOnlyOwn`: whatever
path the lookup takes, a message of one station leaves the offered and bound
entries of all others alone. `OthersKeep`, `OwnLease` and `OwnOffer` then give the leases and offers;
`PoolAddresses` (the pool does not wrap onto itself) turns distinct entries
into distinct addresses, so exclusive use follows from backed leases.

`OneHistoryEach` is about the MAC addresses that entries keep after they are
freed. `FreedHistory`, `OfferHistory` and `AckHistory` say what each part of a
reply does to them, `MessageHistory` what a whole message does: an idle entry
keeps a station's address beside another entry only while the other is an offer.
`PromiseTheorem` is an action property: a phone that asks for the address it was
offered, before the offer runs out, or for the one it uses, gets it for a full
lease. `OfferIsBacked` and `LeaseIsBacked` say that the table still has its entry
whatever the others did, `OneEntryEach` that it has no other, so the lookup finds
this one, the address is available and the entry is bound.

**OtaUpgradeProofs.** `TypeCorrect`; `SuccessTheorem` and `OldFirmwareTheorem`
for every file, flash size and sequence of commands and resets, both under the
hypothesis that no page fails for good (`"bad" \notin FlashOutcome`): `ota_flash`
shows that success means nothing otherwise. `OtaInv` says, while no upgrade has
been disturbed since the reset, what is true at each place of the loop: in
`Receiving` the written sectors of the backup are a prefix of the file (`Prefix`)
and the buffer holds what follows (`Buffered`), in `Copying` the backup is the
file and the sectors before `i` have been copied. `SectorUnits` is the division
of an address into sector and offset.

**DynMemProofs.** `TypeCorrect`, `ListTheorem`, `AvailableTheorem` and
`Refinement`: the heap
implements MemoryPool for every pool, header and word size, from
`HeapConstants` alone. The inductive invariant `HeapInv` is

* `Links`: `dm_next` and `dm_previous` are inverse to each other, every block but
  the trailer ends where the next one begins and has room for the smallest
  payload. The lemmas `Insertion` and `Removal` say that putting one header in
  (a split) or taking one out (a merge) keeps this; `FreeMem` is up to two
  removals, and `Aligned` is the arithmetic of word addresses.
* `Covers`: every byte before the trailer is in a block, and `Merged`: no two
  free blocks are neighbours. Both are needed for a refusal: bytes that nobody
  holds are in free blocks, and a stretch of them cannot run over the end of a
  free block because its neighbour is in use (`BytesInUse`).
* `Searched`: the blocks between the search pointer and the one that is looked
  at are too small. When the search is back where it began this is every block
  (`NothingFits`), which is what makes a refusal honest although the search
  starts in the middle of the list.
* `Pointers` and `CallOK`: where the variables point, and what is known of the
  request in progress.

`AvailableTheorem` says that `dm_available` is the sum of the free payloads
(`Counted`), so that neither a split nor any of the four kinds of release loses a
byte. The sum is a recursion over sets, and the module **SetSums** proves what is
needed of it without an induction rule, by taking a smallest set for which the
statement fails (`SmallestSet`, from the library's `WFMin`): the recursion has a
solution (`SumExists`: the least relation closed under it is a function), the
solution is unique, and the total changes with the set and its terms as it should
(`TotalRemove`, `TotalAdd`, `TotalReplace`, `TotalSame`). `FreeBytes` shows that
the library's `MapThenSumSet` is that total.

**OnboardingProofs.** `WholeTheorem`, `KnownTheorem`, `ResetTheorem`, for any set
of networks and any number of lost links, packets, presses and power failures.

* `Consistent`: the fields of a configuration are programmed in their order, so
  what a power failure leaves is cut off somewhere, and an identity is there only
  if everything before it is. A write meets an erased sector, or one that holds
  the same values or zeros (`Writing`): that is why two saves that meet leave no
  mixed field.
* `Alone`: up to the first link as a station only the main task saves, so the
  boot may trust what it has written (`MainSaves`).
* `Station`, `RamNet`, `SavesKnown`: the network in RAM is the one the station is
  in, and a save starts only when that one has given an address.
* `Onboarded`, `Announced`: from the save after an onboarding to the reset by
  `UdpBCTThread` no task but the system management saves, and the flash has the
  new network or is erased and about to be written with it.
* `DirectMode`, `ApMode`, `RadioOff`: which events the stack can have
  outstanding in each mode.

**StripControlProofs.** `StatusTheorem`, `OffTheorem`, `ScheduleTheorem`, and
`FiresTheorem` under `MinutesOfDay`: every minute that a command sets is a minute
of a day. The code does not check it; with a larger minute the timer runs for
more than a day and fires in some other minute.

* The clock: `TimingValueIsRight` and `DayPasses` say that the number of seconds
  `timing_value` computes leads from now to the minute asked for, today or
  tomorrow, and that a day later the same minute comes round. They rest on
  uniqueness of quotient and remainder (`DivModUnique`), since the provers know
  little about products of two constants. `Computed` says it of a delay that a task
  holds or has stored, with the tick it counts from, and `Counting` carries it
  through the ticks once the timer runs.
* The tasks: what a task has still to do is a list, so the invariant says what
  such a list can look like. `Shape` does so by windows of a fixed length (a
  write follows its read, a relay switch is followed by its LED and status, a
  minute by its timer), which `JoinShape` and `TailShape` show to be kept when
  two lists are joined and when the first access is done. `ProgramPart` is then
  the only lemma that looks at `strip_data_parse`.
* Preemption: a bit that is not `torn` has one task that updates it, and every
  other task at work has preempted that one (`OneWriter`). So when it writes it
  is alone, and what the others have read of this bit is still true when they
  write their copy back (`PortRead`, `OnoffRead`). From this follow `RelayDone` and `AllTold` (relay,
  LED and status agree as soon as their writer is done), `SwitchDone` and
  `Allowed` (a timer that runs while the schedule is off was started by a minute
  or is about to be cancelled).
* Setting a timer: a timer that is not `crossed` has one task that sets it
  (`OneSetter`); a task between the three steps has the start of the timer next
  (`Setting`), and `Current` says that the timer was started for the minute stored or is about to
  be started again for it.

Only model-checked: the liveness properties `EventuallyLoggedIn`,
`PhoneIsAnswered`, `SilentPhoneIsDropped`, `AbsentStationFreesEntry`, `SearchEnds`,
`OnboardingEnds` and `ComesUp`, since fairness and ENABLED are outside the prover.
Every safety property of a passing run has a theorem.

## 5. Plan

Done: CloudLogin, LanSessions, DhcpServer, OtaUpgrade, Onboarding with the
configuration store, StripControl, DynMem with MemoryPool, in the order of their
importance for the device.

Left, each of them small: `DomainLookup` (late callbacks and left-over semaphore
counts of `lib/adapter_ucos.c`; CloudLogin's `ResolveFails` is its abstraction),
`SoftTimers` (the shared tick counter of `system/core_gagent.c`), `MqttCodec`
(the remaining-length code as pure operators over bounded inputs), and
`DHCPS_Stop` in the middle of a receive callback.

Proofs to add: that `dm_available` is never negative (a sum of payloads), and for
each new module its type and safety properties.

## 6. Not modelled, and why

Most lines of the repository are not the program's own: vendored uC/OS-II and
lwIP (with SNMP, PPP and IPv6, which this build leaves out), register
definitions and drivers, constants for the Wi-Fi stack. They make up about
nine tenths of the source, their behaviour is taken as documented, and the
share of the repository that the modules cover is small for that reason; of
GAgent and the DHCP server, which are the firmware's own logic, most of the code
that changes state is covered.

The Wi-Fi stack is in ROM and has no source. Board drivers other than the flash
and the output port: register access. DNS server, discovery, text helpers: no
state. The light device (`dev/light.c`): not compiled in this build. The apps,
documents, Keil projects and libraries: no source. Byte layouts of packets and
reports: no property is about them yet.
