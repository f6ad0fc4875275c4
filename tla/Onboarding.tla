----------------------------- MODULE Onboarding -----------------------------
(***************************************************************************)
(* From power-on to a network: the stored configuration and its sector in  *)
(* flash, the choice of station, soft AP or direct config at boot, the     *)
(* link events that the system management task delivers, the onboarding    *)
(* packet of a phone and the reset that ends it.                           *)
(*                                                                         *)
(* Three tasks save the same RAM structure.  A save reads the sector,      *)
(* erases it, sleeps two ticks, and writes: other tasks run in between,    *)
(* and power may fail at any time.  A write can only clear bits.           *)
(***************************************************************************)
EXTENDS Integers, Sequences, FiniteSets

CONSTANTS
    Nets,          \* Wi-Fi networks a phone may name
    MaxDrops,      \* bound: links lost
    MaxPackets,    \* bound: onboarding packets and direct configs
    MaxPresses,    \* bound: uses of the reset button
    MaxPowerFails  \* bound: power failures

ASSUME OnboardingConstants ==
    /\ Nets \cap {"FF", "0", "mix"} = {}
    /\ {MaxDrops, MaxPackets, MaxPresses, MaxPowerFails} \subseteq Nat

\* GAgent_CONFIG_S in the order of its bytes; "ssid" stands for ssid and key.
\* A field is erased ("FF"), zero ("0") or holds a value; "mix" is the
\* conjunction of the bits of two values.
Fields == <<"magic", "flag", "ssid", "did">>
Field == {Fields[k] : k \in DOMAIN Fields}
Value == {"FF", "0", "mix", "ok", "1", "did"} \union Nets
Erased == [x \in Field |-> "FF"]
Zero == [x \in Field |-> "0"]

Saver == {"main", "sysmng", "cloud"}

VARIABLES
    flash,      \* the sector with the configuration
    ram,        \* g_stGAgentConfigData
    saver,      \* task -> where it is in WriteFlash: "no", "read", "erase", "write"
    main,       \* where nl6621_gizwits_entry is
    status,     \* sys_status.status
    onboarding, \* sys_status.onboarding
    joinFailed, \* wifi_sta_connect_ap_flag
    TestDirectCfgFlag,
    pLinkUpSem, pSoftApSem,
    sysmng,     \* DefaultProc: "idle", "dhcp" (waits for an address), "save"
    udp,        \* UDP task: "idle" or "pend" (in Udp_Onboarding)
    bct,        \* UdpBCTThread: "pend" or "respond"
    radio,      \* ROM: [mode, net, phase]
    events,     \* its messages to the system management task
    left,       \* what is left of the bounds
    known       \* history: networks that may be in flash, see NetworkIsKnown

config == <<flash, ram, saver>>
flags == <<status, onboarding, joinFailed, TestDirectCfgFlag>>
sems == <<pLinkUpSem, pSoftApSem>>
vars == <<config, main, flags, sems, sysmng, udp, bct, radio, events, left, known>>

Radio(mode, net) == [mode |-> mode, net |-> net, phase |-> "starting"]
Off == [mode |-> "off", net |-> "0", phase |-> "starting"]

\* Everything but the flash starts anew.
Boots ==
    /\ ram' = Zero /\ saver' = [t \in Saver |-> "no"] /\ main' = "start"
    /\ status' = "STOP" /\ onboarding' = "FAILED" /\ joinFailed' = 0
    /\ TestDirectCfgFlag' = 0 /\ pLinkUpSem' = 0 /\ pSoftApSem' = 0
    /\ sysmng' = "idle" /\ udp' = "idle" /\ bct' = "pend"
    /\ radio' = Off /\ events' = <<>>

\* A blank device, or one that has a network and an identity.
Init ==
    /\ \/ flash = Erased /\ known = {}
       \/ \E n \in Nets :
            /\ flash = [Zero EXCEPT !["magic"] = "ok", !["flag"] = "1",
                                    !["ssid"] = n, !["did"] = "did"]
            /\ known = {n}
    /\ ram = Zero /\ saver = [t \in Saver |-> "no"] /\ main = "start"
    /\ status = "STOP" /\ onboarding = "FAILED" /\ joinFailed = 0
    /\ TestDirectCfgFlag = 0 /\ pLinkUpSem = 0 /\ pSoftApSem = 0
    /\ sysmng = "idle" /\ udp = "idle" /\ bct = "pend"
    /\ radio = Off /\ events = <<>>
    /\ left = [drops |-> MaxDrops, packets |-> MaxPackets,
               presses |-> MaxPresses, power |-> MaxPowerFails]

Spends(what) == left[what] > 0 /\ left' = [left EXCEPT ![what] = @ - 1]
-----------------------------------------------------------------------------
(* nl6621_SaveConfigData: WriteFlash, step by step. *)

Saves(t) == saver' = [saver EXCEPT ![t] = "read"]
Saved(t) == saver[t] = "no"

\* Faulty variant: the sector is not erased.
SaveReads_NoErase(t) ==
    /\ saver[t] = "read" /\ saver' = [saver EXCEPT ![t] = "write"]
    /\ UNCHANGED <<flash, ram, main, flags, sems, sysmng, udp, bct, radio, events,
                   left, known>>

SaveReads(t) ==
    /\ saver[t] = "read"
    /\ saver' = [saver EXCEPT ![t] = IF flash = Erased THEN "write" ELSE "erase"]
    /\ UNCHANGED <<flash, ram, main, flags, sems, sysmng, udp, bct, radio, events,
                   left, known>>

SaveErases(t) ==
    /\ saver[t] = "erase"
    /\ flash' = Erased /\ saver' = [saver EXCEPT ![t] = "write"]
    /\ UNCHANGED <<ram, main, flags, sems, sysmng, udp, bct, radio, events, left,
                   known>>

\* Writing y over x.
Over(x, y) == CASE x = "FF" \/ x = y -> y
                [] y = "FF" -> x
                [] "0" \in {x, y} -> "0"
                [] OTHER -> "mix"

\* The first k fields are written.
Written(k) == [x \in Field |-> IF \E i \in 1..k : Fields[i] = x
                               THEN Over(flash[x], ram[x]) ELSE flash[x]]

\* What is written while the reset button is handled, see NetworkIsKnown.
Excused == known' = IF main = "clear" THEN known \union {ram["ssid"]} ELSE known

SaveWrites(t) ==
    /\ saver[t] = "write"
    /\ flash' = Written(Len(Fields)) /\ saver' = [saver EXCEPT ![t] = "no"]
    /\ Excused
    /\ UNCHANGED <<ram, main, flags, sems, sysmng, udp, bct, radio, events, left>>

\* Power fails, in the middle of a write or elsewhere.
PowerFails ==
    /\ Spends("power")
    /\ \/ flash' = flash /\ UNCHANGED known
       \/ /\ \E t \in Saver : saver[t] = "write"
          /\ \E k \in 1..(Len(Fields) - 1) : flash' = Written(k)
          /\ Excused
    /\ Boots
-----------------------------------------------------------------------------
(* The main task: GAgent_Init and the main loop. *)

\* GAgent_Config_Status_Init: only a configuration with an identity is valid.
Accepts(c) == c["magic"] = "ok" /\ c["did"] = "did"

ConfigInit ==
    /\ main = "start"
    /\ IF Accepts(flash) THEN ram' = flash /\ main' = "network" /\ UNCHANGED saver
       ELSE /\ ram' = [(IF flash["flag"] = "1" THEN flash ELSE Zero)
                          EXCEPT !["magic"] = "ok"]
            /\ Saves("main") /\ main' = "init"
    /\ UNCHANGED <<flash, flags, sems, sysmng, udp, bct, radio, events, left, known>>

ConfigInitDone ==
    /\ main = "init" /\ Saved("main") /\ main' = "network"
    /\ UNCHANGED <<config, flags, sems, sysmng, udp, bct, radio, events, left, known>>

\* GAgent_SetDevNetWork without the button: the configuration is read again.
SetDevNetWork ==
    /\ main = "network" /\ ram' = flash
    /\ IF flash["flag"] = "1"
       THEN /\ status' = "DIRECTCONFING" /\ radio' = Radio("sta", flash["ssid"])
            /\ main' = "link"
       ELSE radio' = Radio("ap", "0") /\ status' = "SOFTAP" /\ main' = "loop"
    /\ UNCHANGED <<flash, saver, onboarding, joinFailed, TestDirectCfgFlag, sems,
                   sysmng, udp, bct, events, left, known>>

\* ... DRV_WiFi_StationCustomModeStart returns.
StationStarted ==
    /\ main = "link" /\ pLinkUpSem > 0 /\ pLinkUpSem' = pLinkUpSem - 1
    /\ main' = "loop"
    /\ IF joinFailed # 0 THEN radio' = Radio("ap", "0") /\ status' = "SOFTAP"
       ELSE status' = "STA_CONNECTED" /\ UNCHANGED radio
    /\ UNCHANGED <<config, onboarding, joinFailed, TestDirectCfgFlag, pSoftApSem,
                   sysmng, udp, bct, events, left, known>>

\* The button is held at boot: TestDirectConfig.
DirectConfig ==
    /\ main = "network" /\ Spends("packets")
    /\ status' = "DIRECTCONFING" /\ radio' = Radio("dc", "0") /\ main' = "dc"
    /\ UNCHANGED <<config, onboarding, joinFailed, TestDirectCfgFlag, sems, sysmng,
                   udp, bct, events, known>>

DirectConfigReceived ==
    /\ main = "dc" /\ TestDirectCfgFlag = 1 /\ TestDirectCfgFlag' = 0
    /\ radio' = Radio("sta", radio.net) /\ main' = "dcLink"
    /\ UNCHANGED <<config, status, onboarding, joinFailed, sems, sysmng, udp, bct,
                   events, left, known>>

\* Faulty variant: the received network is saved whatever the link says.
DirectConfigLinked_AnyEvent ==
    /\ main = "dcLink"
    /\ TestDirectCfgFlag' = 0 /\ Saves("main") /\ main' = "dcSave"
    /\ ram' = [ram EXCEPT !["ssid"] = radio.net, !["flag"] = "1"]
    /\ UNCHANGED <<flash, status, onboarding, joinFailed, sems, sysmng, udp, bct,
                   radio, events, left, known>>

DirectConfigLinked ==
    /\ main = "dcLink" /\ TestDirectCfgFlag = 1
    /\ TestDirectCfgFlag' = 0 /\ Saves("main") /\ main' = "dcSave"
    /\ ram' = [ram EXCEPT !["ssid"] = radio.net, !["flag"] = "1"]
    /\ UNCHANGED <<flash, status, onboarding, joinFailed, sems, sysmng, udp, bct,
                   radio, events, left, known>>

DirectConfigFails ==
    /\ main = "dcLink" /\ TestDirectCfgFlag = 2
    /\ Boots /\ UNCHANGED <<flash, left, known>>

\* RespondSoftAPBroadcast ends, and the configuration is saved once more.  Its
\* loop repeats a send that fails for as long as it fails: see Sending.
DirectConfigSaved ==
    /\ main = "dcSave" /\ Saved("main")
    /\ onboarding' = "FAILED" /\ Saves("main") /\ main' = "dcSave2"
    /\ UNCHANGED <<flash, ram, status, joinFailed, TestDirectCfgFlag, sems, sysmng,
                   udp, bct, radio, events, left, known>>

DirectConfigDone ==
    /\ main = "dcSave2" /\ Saved("main")
    /\ status' = "STA_CONNECTED" /\ main' = "loop"
    /\ UNCHANGED <<config, onboarding, joinFailed, TestDirectCfgFlag, sems, sysmng,
                   udp, bct, radio, events, left, known>>

\* check_system_reset: the button was held for 3.5 s.
ResetButton ==
    /\ main = "loop" /\ Spends("presses")
    /\ ram' = [ram EXCEPT !["ssid"] = "0", !["flag"] = "0"]
    /\ Saves("main") /\ main' = "clear"
    /\ UNCHANGED <<flash, flags, sems, sysmng, udp, bct, radio, events, known>>

ResetButtonDone ==
    /\ main = "clear" /\ Saved("main")
    /\ Boots /\ UNCHANGED <<flash, left, known>>
-----------------------------------------------------------------------------
(* The system management task: DefaultProc, L2LinkUp and AppEvtCallBack. *)

\* SYS_EVT_LINK_UP, once the configuration is saved if need be.
LinkUpPosts(n) ==
    /\ pLinkUpSem' = pLinkUpSem + 1 /\ pSoftApSem' = pSoftApSem + n
    /\ TestDirectCfgFlag' = 1 /\ sysmng' = "idle"

\* Faulty variant: the onboarding goes on without the save.
LinkUpEvent_NoSave ==
    joinFailed' = 0 /\ LinkUpPosts(IF onboarding = "SUCCESS" THEN 1 ELSE 0) /\ UNCHANGED saver

LinkUpEvent ==
    /\ joinFailed' = 0
    /\ IF onboarding = "SUCCESS"
       THEN Saves("sysmng") /\ sysmng' = "save" /\ UNCHANGED <<sems, TestDirectCfgFlag>>
       ELSE LinkUpPosts(0) /\ UNCHANGED saver

\* A soft AP has a fixed address; a station waits for DHCP without limit.
LinkUp ==
    /\ sysmng = "idle" /\ events # <<>> /\ Head(events) = "LINK_UP"
    /\ events' = Tail(events)
    /\ IF radio.mode = "sta"
       THEN sysmng' = "dhcp" /\ UNCHANGED <<saver, joinFailed, TestDirectCfgFlag, sems>>
       ELSE LinkUpEvent
    /\ UNCHANGED <<flash, ram, main, status, onboarding, udp, bct, radio, left, known>>

DhcpBound ==
    /\ sysmng = "dhcp" /\ radio.phase = "up"
    /\ radio' = [radio EXCEPT !.phase = "bound"]
    /\ known' = known \union {radio.net}
    /\ LinkUpEvent
    /\ UNCHANGED <<flash, ram, main, status, onboarding, udp, bct, events, left>>

\* The link is lost meanwhile; the DHCP_FAIL event only writes to the log.
DhcpGivesUp ==
    /\ sysmng = "dhcp" /\ radio.phase # "up" /\ sysmng' = "idle"
    /\ UNCHANGED <<config, main, flags, sems, udp, bct, radio, events, left, known>>

LinkUpSaved ==
    /\ sysmng = "save" /\ Saved("sysmng")
    /\ LinkUpPosts(1)
    /\ UNCHANGED <<config, main, status, onboarding, joinFailed, udp, bct, radio,
                   events, left, known>>

\* Faulty variant: a failed onboarding does not reset the chip.
JoinFail_NoReset ==
    /\ sysmng = "idle" /\ events # <<>> /\ Head(events) = "JOIN_FAIL"
    /\ events' = Tail(events) /\ joinFailed' = 1
    /\ TestDirectCfgFlag' = IF status = "DIRECTCONFING" THEN 2
                            ELSE TestDirectCfgFlag
    /\ pLinkUpSem' = pLinkUpSem + 1
    /\ UNCHANGED <<config, main, status, onboarding, pSoftApSem, sysmng, udp,
                   bct, radio, left, known>>

\* Faulty variant: only a link that is up wakes the waiting task.
JoinFail_NoPost ==
    /\ sysmng = "idle" /\ events # <<>> /\ Head(events) = "JOIN_FAIL"
    /\ events' = Tail(events) /\ joinFailed' = 1
    /\ UNCHANGED <<config, main, status, onboarding, TestDirectCfgFlag, sems, sysmng,
                   udp, bct, radio, left, known>>

JoinFail ==
    /\ sysmng = "idle" /\ events # <<>> /\ Head(events) = "JOIN_FAIL"
    /\ IF status = "SOFTAP" THEN Boots /\ UNCHANGED flash
       ELSE /\ events' = Tail(events) /\ joinFailed' = 1
            /\ TestDirectCfgFlag' = IF status = "DIRECTCONFING" THEN 2
                                    ELSE TestDirectCfgFlag
            /\ pLinkUpSem' = pLinkUpSem + 1
            /\ UNCHANGED <<config, main, status, onboarding, pSoftApSem, sysmng, udp,
                           bct, radio>>
    /\ UNCHANGED <<left, known>>

\* SYS_EVT_DIRECT_CFG_DONE; SYS_EVT_LINK_DOWN is only logged.
OtherEvent ==
    /\ sysmng = "idle" /\ events # <<>> /\ Head(events) \in {"CFG_DONE", "LINK_DOWN"}
    /\ events' = Tail(events)
    /\ TestDirectCfgFlag' = IF Head(events) = "CFG_DONE" THEN 1 ELSE TestDirectCfgFlag
    /\ UNCHANGED <<config, main, status, onboarding, joinFailed, sems, sysmng, udp, bct,
                   radio, left, known>>
-----------------------------------------------------------------------------
(* The UDP, broadcast and cloud tasks, which start with the main loop. *)

Running == main \in {"loop", "clear"}

\* Socket_DispatchUDPRecvData.
OnboardingAllowed == onboarding = "FAILED" /\ status = "SOFTAP"

\* A phone, linked to the soft AP, names a network: Udp_Onboarding up to its wait.
OnboardingPacket(n) ==
    /\ Running /\ udp = "idle" /\ radio.mode = "ap" /\ radio.phase = "up"
    /\ events = <<>> /\ sysmng = "idle"  \* the soft AP serves addresses
    /\ OnboardingAllowed /\ Spends("packets")
    /\ ram' = [ram EXCEPT !["ssid"] = n, !["flag"] = "1"]
    /\ radio' = Radio("sta", n) /\ udp' = "pend"
    /\ UNCHANGED <<flash, saver, main, flags, sems, sysmng, bct, events, known>>

\* ... the wait ends, the answer is sent.
OnboardingStarted ==
    /\ udp = "pend" /\ pLinkUpSem > 0 /\ pLinkUpSem' = pLinkUpSem - 1
    /\ onboarding' = "SUCCESS" /\ udp' = "idle"
    /\ UNCHANGED <<config, main, status, joinFailed, TestDirectCfgFlag, pSoftApSem,
                   sysmng, bct, radio, events, left, known>>

\* UdpBCTThread: five seconds later the new state is broadcast ...
BroadcastStarts ==
    /\ Running /\ bct = "pend" /\ pSoftApSem > 0 /\ pSoftApSem' = pSoftApSem - 1
    /\ bct' = "respond"
    /\ UNCHANGED <<config, main, flags, pLinkUpSem, sysmng, udp, radio, events, left,
                   known>>

\* ... and, when RespondSoftAPBroadcast ends, the chip reset.
BroadcastResets ==
    /\ bct = "respond"
    /\ Boots /\ UNCHANGED <<flash, left, known>>

\* wifiStatus says station: GAgent_SetDevNetWork sets it where it sets the
\* status, and a device that is onboarded from its soft AP keeps it until the
\* reset.
WifiStation == status = "STA_CONNECTED"

\* The cloud has sent the identity (CONCLOUD_REQ_DID_ACK).
Registered ==
    /\ Running /\ WifiStation /\ radio.phase = "bound"
    /\ ram["did"] # "did" /\ Saved("cloud")
    /\ ram' = [ram EXCEPT !["did"] = "did"] /\ Saves("cloud")
    /\ UNCHANGED <<flash, main, flags, sems, sysmng, udp, bct, radio, events, left,
                   known>>
-----------------------------------------------------------------------------
(* The Wi-Fi stack in ROM and the world. *)

\* Associating takes seconds: a task that can run has run by then.
Quiet == events = <<>> /\ ~(pLinkUpSem > 0 /\ udp = "pend")

Posts(e) == events' = Append(events, e)

ApUp ==
    /\ Quiet /\ radio.mode = "ap" /\ radio.phase = "starting"
    /\ radio' = [radio EXCEPT !.phase = "up"] /\ Posts("LINK_UP")
    /\ UNCHANGED <<config, main, flags, sems, sysmng, udp, bct, left, known>>

StationJoins ==
    /\ Quiet /\ radio.mode = "sta" /\ radio.phase = "starting" /\ radio.net \in Nets
    /\ radio' = [radio EXCEPT !.phase = "up"] /\ Posts("LINK_UP")
    /\ UNCHANGED <<config, main, flags, sems, sysmng, udp, bct, left, known>>

StationFails ==
    /\ Quiet /\ radio.mode = "sta" /\ radio.phase = "starting"
    /\ radio' = [radio EXCEPT !.phase = "failed"] /\ Posts("JOIN_FAIL")
    /\ UNCHANGED <<config, main, flags, sems, sysmng, udp, bct, left, known>>

\* The link is lost, the stack tries again.
StationLost ==
    /\ Quiet /\ Spends("drops") /\ radio.mode = "sta" /\ radio.phase \in {"up", "bound"}
    /\ radio' = [radio EXCEPT !.phase = "starting"] /\ Posts("LINK_DOWN")
    /\ UNCHANGED <<config, main, flags, sems, sysmng, udp, bct, known>>

\* The phone's direct config frames have been received.
DirectCfgDone(n) ==
    /\ radio.mode = "dc" /\ radio.phase = "starting"
    /\ radio' = [radio EXCEPT !.phase = "up", !.net = n] /\ Posts("CFG_DONE")
    /\ UNCHANGED <<config, main, flags, sems, sysmng, udp, bct, left, known>>
-----------------------------------------------------------------------------
MainTask ==
    \/ ConfigInit \/ ConfigInitDone \/ SetDevNetWork \/ StationStarted
    \/ DirectConfigReceived \/ DirectConfigLinked \/ DirectConfigFails
    \/ DirectConfigDone \/ ResetButtonDone
SysMngTask == LinkUp \/ DhcpGivesUp \/ LinkUpSaved \/ JoinFail \/ OtherEvent
Save(t) == SaveReads(t) \/ SaveErases(t) \/ SaveWrites(t)
Associate == ApUp \/ StationJoins \/ StationFails

Next ==
    \/ MainTask \/ SysMngTask \/ \E t \in Saver : Save(t)
    \/ DhcpBound \/ Associate \/ StationLost
    \/ DirectConfig \/ DirectConfigSaved \/ ResetButton \/ PowerFails
    \/ \E n \in Nets : OnboardingPacket(n) \/ DirectCfgDone(n)
    \/ OnboardingStarted \/ BroadcastStarts \/ BroadcastResets \/ Registered

Spec == Init /\ [][Next]_vars

\* Broadcasts are sure to be sent only while the device has an address.
Sending(A) == radio.phase = "bound" /\ A

\* Every task that can run does; the stack reports how an association ended,
\* and the network has a DHCP server.  Nothing is assumed of users or phones,
\* nor of broadcasts sent without an address.
FairSpec ==
    /\ Spec /\ WF_vars(MainTask) /\ WF_vars(SysMngTask)
    /\ WF_vars(Sending(DirectConfigSaved)) /\ WF_vars(Sending(BroadcastResets))
    /\ \A t \in Saver : WF_vars(Save(t))
    /\ WF_vars(OnboardingStarted) /\ WF_vars(BroadcastStarts)
    /\ WF_vars(Associate) /\ WF_vars(DhcpBound)
-----------------------------------------------------------------------------
(* Properties. *)

\* A configuration that the next boot accepts was written as a whole: two
\* tasks that save at once, or a power failure between any two steps, never
\* leave one whose identity is there and whose other fields are not.
AcceptedIsWhole ==
    Accepts(flash) => flash["flag"] \in {"0", "1"} /\ flash["ssid"] \in Nets \union {"0"}

\* The network in flash is one the device has been linked to: a mistyped one
\* is tried and forgotten.  The only other writer is the reset button, whose
\* save may pick up a network that a phone names in the middle of it.
NetworkIsKnown ==
    flash["flag"] = "1" /\ flash["ssid"] \in Nets => flash["ssid"] \in known

\* Whenever UdpBCTThread may reset the chip to finish the onboarding, the
\* network is in flash.  One window is left: the link went down and came up
\* again during the five seconds or the broadcasts, and the save of the second
\* link-up is between its erase and its write.  (The reset button clears the
\* network on purpose.)
ResetFindsNetwork ==
    bct = "respond" /\ main = "loop" =>
        \/ flash["flag"] = "1" /\ flash["ssid"] = ram["ssid"]
        \/ flash = Erased /\ sysmng = "save" /\ saver["sysmng"] = "write"

\* An onboarding that was answered ends with a reset: into the network if it
\* could be joined, into the soft AP if not.
OnboardingEnds == onboarding = "SUCCESS" ~> main = "start"

\* Whatever is in flash, after a power failure or a reset the device comes
\* up: it reaches the main loop, or waits for direct config.
ComesUp == main = "start" ~> main \in {"loop", "dc"}
=============================================================================
