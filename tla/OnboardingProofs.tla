--------------------------- MODULE OnboardingProofs ---------------------------
(***************************************************************************)
(* Proofs about Onboarding, for any set of networks and any number of lost *)
(* links, packets, uses of the button and power failures.                  *)
(***************************************************************************)
EXTENDS Onboarding, TLAPS

Main == {"start", "init", "network", "link", "dc", "dcLink", "dcSave", "dcSave2",
         "loop", "clear"}

\* A configuration in flash or in RAM: the fields are written in their order,
\* and the identity only together with all others.
Consistent(c) ==
    /\ c \in [Field -> Value]
    /\ c["magic"] \in {"FF", "ok"} /\ c["flag"] \in {"FF", "0", "1"}
    /\ c["ssid"] \in Nets \union {"FF", "0"} /\ c["did"] \in {"FF", "0", "did"}
    /\ c["magic"] = "FF" => c["flag"] = "FF"
    /\ c["flag"] = "FF" => c["ssid"] = "FF"
    /\ c["did"] = "did" => c["flag"] # "FF" /\ c["ssid"] # "FF"

\* One that a boot has loaded or completed.
Loaded(c) == Consistent(c) /\ c["magic"] = "ok" /\ c["flag"] # "FF"

Types ==
    /\ Consistent(flash) /\ ram \in [Field -> Value]
    /\ main # "start" => Loaded(ram)
    /\ saver \in [Saver -> {"no", "read", "erase", "write"}]
    /\ main \in Main
    /\ onboarding \in {"FAILED", "SUCCESS"} /\ joinFailed \in {0, 1}
    /\ TestDirectCfgFlag \in {0, 1, 2} /\ pSoftApSem \in Nat
    /\ sysmng \in {"idle", "dhcp", "save"} /\ udp \in {"idle", "pend"}
    /\ bct \in {"pend", "respond"}
    /\ radio \in [mode : {"off", "sta", "ap", "dc"}, net : Value,
                  phase : {"starting", "up", "bound", "failed"}]
    /\ \/ events = <<>>
       \/ \E e \in {"LINK_UP", "LINK_DOWN", "JOIN_FAIL", "CFG_DONE"} : events = <<e>>

\* Where the main task saves, and what it has saved before it goes on.
MainSaves ==
    /\ saver["main"] # "no" => main \in {"init", "dcSave", "dcSave2", "clear"}
    /\ main = "network" \/ (main = "init" /\ saver["main"] = "no") => Loaded(flash)

\* Up to the first link as a station of the network in RAM no other task saves.
Early == radio.mode # "sta" \/ ~Running

Alone ==
    Early =>
      /\ saver["sysmng"] = "no" /\ saver["cloud"] = "no"
      /\ onboarding = "FAILED" /\ sysmng # "save" /\ udp = "idle"
      /\ pSoftApSem = 0 /\ bct = "pend"
      /\ saver["main"] = "write" => flash = Erased

\* Nothing is under way in the stack before the main task has started it.
RadioOff ==
    IF main \notin {"start", "init", "network"} THEN radio.mode # "off"
    ELSE
      /\ radio = Off /\ events = <<>> /\ sysmng = "idle"
      /\ TestDirectCfgFlag = 0 /\ joinFailed = 0

\* While the phone's frames are received the stack has one event to report.
DirectMode ==
    /\ radio.mode = "dc" <=> main = "dc"
    /\ main = "dc" =>
         /\ sysmng = "idle" /\ joinFailed = 0
         /\ radio.phase = "starting" => events = <<>> /\ TestDirectCfgFlag = 0
         /\ events \in {<<>>, <<"CFG_DONE">>}
         /\ TestDirectCfgFlag = 1 => events = <<>>
    /\ main # "dc" => events # <<"CFG_DONE">>
    /\ main \in {"dcLink", "dcSave", "dcSave2"} =>
         /\ radio.mode = "sta"
         /\ main # "dcLink" \/ TestDirectCfgFlag = 1 => radio.net \in Nets \cap known

\* The soft AP comes up with one event, which takes back an earlier failure.
ApMode ==
    radio.mode = "ap" =>
      /\ \/ radio.phase = "starting" /\ events = <<>>
         \/ radio.phase = "up" /\ events = <<"LINK_UP">>
         \/ radio.phase = "up" /\ events = <<>> /\ joinFailed = 0
      /\ sysmng = "idle"

\* A station that waits for an address is linked, or about to learn that it
\* is not; one that has failed to join is left alone.
Station ==
    /\ main = "link" => radio.mode = "sta"
    /\ radio.phase = "bound" => radio.mode = "sta"
    /\ radio.phase = "bound" \/ sysmng = "save" => radio.net \in known
    /\ radio.mode = "sta" =>
         /\ radio.phase \in {"up", "bound"} => radio.net \in Nets
         /\ radio.phase = "starting" /\ sysmng # "idle" => events = <<"LINK_DOWN">>
         /\ radio.phase = "failed" =>
              sysmng = "idle" /\ events \in {<<>>, <<"JOIN_FAIL">>}
         /\ events = <<"LINK_UP">> => radio.phase \in {"up", "bound"}
         /\ events = <<"JOIN_FAIL">> => radio.phase = "failed"
         /\ joinFailed = 1 => radio.phase = "failed" /\ events = <<>>

\* The network in RAM is the one the station is in, or has been cleared.
RamNet ==
    radio.mode = "sta" /\ main \in {"link", "dcSave", "dcSave2", "loop", "clear"} =>
      \/ ram["flag"] = "1" /\ ram["ssid"] = radio.net
      \/ main = "clear" /\ ram["flag"] = "0" /\ ram["ssid"] = "0"

\* What a task is about to write over.
Writing ==
    (\E t \in Saver : saver[t] = "write") =>
      /\ main # "clear" => /\ flash["flag"] \in {"FF", ram["flag"]}
                           /\ flash["ssid"] \in {"FF", ram["ssid"]}
      /\ flash["ssid"] \in {"FF", "0", ram["ssid"]} \/ ram["ssid"] = "0"

\* What is being saved is a network the device has been linked to.
SavesKnown ==
    (\E t \in Saver : saver[t] # "no") /\ main # "clear"
      /\ ram["flag"] = "1" /\ ram["ssid"] \in Nets => ram["ssid"] \in known

\* Until the reset, a device that is onboarded from its soft AP has the
\* status of one: the cloud task, which saves only as a station, is idle.
Onboarded ==
    /\ udp = "pend" \/ onboarding = "SUCCESS" => status = "SOFTAP"
    /\ saver["cloud"] # "no" => status = "STA_CONNECTED"
    /\ saver["sysmng"] # "no" => sysmng = "save"
    /\ sysmng = "save" \/ pSoftApSem > 0 \/ bct = "respond" => onboarding = "SUCCESS"

\* From the save of the new network to the reset.
Announced ==
    /\ main = "loop"
    /\ bct = "respond" \/ pSoftApSem > 0 \/ (sysmng = "save" /\ saver["sysmng"] = "no")
    => \/ flash["flag"] = "1" /\ flash["ssid"] = ram["ssid"]
       \/ flash = Erased /\ saver["sysmng"] = "write"

OnbInv == /\ Types /\ MainSaves /\ Alone /\ RadioOff /\ DirectMode /\ ApMode
          /\ Station /\ RamNet /\ Writing /\ SavesKnown /\ NetworkIsKnown
          /\ Onboarded /\ Announced
-----------------------------------------------------------------------------
(* The fields of a configuration and what a write makes of them. *)

\* GAgent_CONFIG_S has four fields.
LEMMA FieldNames == Field = {"magic", "flag", "ssid", "did"}
<1>1. DOMAIN Fields = {1, 2, 3, 4}
  BY DEF Fields
<1>2. Fields[1] = "magic" /\ Fields[2] = "flag" /\ Fields[3] = "ssid" /\ Fields[4] = "did"
  BY DEF Fields
<1> QED
  BY <1>1, <1>2 DEF Field

\* A write of k fields replaces the first k.
LEMMA WrittenFields ==
    ASSUME NEW k \in 1..4
    PROVE  /\ Written(k)["magic"] = Over(flash["magic"], ram["magic"])
           /\ Written(k)["flag"] = IF k >= 2 THEN Over(flash["flag"], ram["flag"])
                                   ELSE flash["flag"]
           /\ Written(k)["ssid"] = IF k >= 3 THEN Over(flash["ssid"], ram["ssid"])
                                   ELSE flash["ssid"]
           /\ Written(k)["did"] = IF k >= 4 THEN Over(flash["did"], ram["did"])
                                  ELSE flash["did"]
           /\ Written(k) = [x \in Field |-> Written(k)[x]]
<1>1. Fields[1] = "magic" /\ Fields[2] = "flag" /\ Fields[3] = "ssid" /\ Fields[4] = "did"
  BY DEF Fields
<1>2. /\ \E i \in 1..k : Fields[i] = "magic"
      /\ (\E i \in 1..k : Fields[i] = "flag") <=> k >= 2
      /\ (\E i \in 1..k : Fields[i] = "ssid") <=> k >= 3
      /\ (\E i \in 1..k : Fields[i] = "did") <=> k >= 4
  <2>1. \A i \in 1..k : i \in {1, 2, 3, 4}
    OBVIOUS
  <2> QED
    BY <1>1, <2>1
<1> QED
  BY <1>2, FieldNames DEF Written

\* A write, whole or cut off by a power failure, leaves a consistent
\* configuration with a network the device has been linked to.
LEMMA WriteKeeps ==
    ASSUME OnbInv, NEW k \in 1..4, NEW t \in Saver, saver[t] = "write"
    PROVE  /\ main # "start"
           /\ Consistent(Written(k)) /\ Written(k)["magic"] = "ok"
           /\ k = 4 => Written(k)["flag"] # "FF"
           /\ k = 4 /\ main # "clear" => /\ Written(k)["flag"] = ram["flag"]
                                         /\ Written(k)["ssid"] = ram["ssid"]
           /\ k = 4 => \/ Written(k)["ssid"] \in {"FF", "0", ram["ssid"]}
                       \/ ram["ssid"] = "0"
           /\ Written(k)["flag"] = "1" /\ Written(k)["ssid"] \in Nets =>
                Written(k)["ssid"] \in IF main = "clear" THEN known \union {ram["ssid"]}
                                       ELSE known
<1> DEFINE w == Written(k)
<1>1. main # "start"
  BY DEF OnbInv, MainSaves, Alone, Early, Running, Saver
<1>2. Consistent(flash) /\ Loaded(ram)
  BY <1>1 DEF OnbInv, Types
<1>3. /\ main # "clear" => /\ flash["flag"] \in {"FF", ram["flag"]}
                           /\ flash["ssid"] \in {"FF", ram["ssid"]}
      /\ flash["ssid"] \in {"FF", "0", ram["ssid"]} \/ ram["ssid"] = "0"
  BY DEF OnbInv, Writing
<1>4. /\ w["magic"] = Over(flash["magic"], ram["magic"])
      /\ w["flag"] = IF k >= 2 THEN Over(flash["flag"], ram["flag"]) ELSE flash["flag"]
      /\ w["ssid"] = IF k >= 3 THEN Over(flash["ssid"], ram["ssid"]) ELSE flash["ssid"]
      /\ w["did"] = IF k >= 4 THEN Over(flash["did"], ram["did"]) ELSE flash["did"]
      /\ w = [x \in Field |-> w[x]]
  BY WrittenFields
<1> HIDE DEF w
<1>5. /\ w["magic"] = "ok"
      /\ w["flag"] \in {"FF", "0", "1"} /\ (k >= 2 => w["flag"] # "FF")
      /\ w["did"] \in {"FF", "0", "did"}
  BY <1>2, <1>4, OnboardingConstants DEF Consistent, Loaded, Over
<1>6. /\ w["ssid"] \in Nets \union {"FF", "0"}
      /\ w["ssid"] \in {flash["ssid"], ram["ssid"]}
      /\ k < 3 => w["ssid"] = flash["ssid"]
      /\ k >= 3 /\ flash["ssid"] # "FF" => w["ssid"] # "FF"
      /\ k >= 3 /\ ram["ssid"] # "FF" => w["ssid"] # "FF"
      /\ k >= 3 /\ w["ssid"] \in Nets => w["ssid"] = ram["ssid"]
  BY <1>2, <1>3, <1>4, OnboardingConstants DEF Consistent, Loaded, Over
<1>7. w \in [Field -> Value]
  BY <1>4, <1>5, <1>6, FieldNames DEF Value
<1>8. w["flag"] = "FF" => w["ssid"] = "FF"
  BY <1>2, <1>4, <1>5, <1>6 DEF Consistent
<1>9. w["did"] = "did" => w["flag"] # "FF" /\ w["ssid"] # "FF"
  <2>1. w["did"] = "did" => flash["did"] = "did" \/ (k = 4 /\ ram["did"] = "did")
    BY <1>2, <1>4 DEF Consistent, Loaded, Over
  <2>2. flash["did"] = "did" => w["flag"] # "FF" /\ w["ssid"] # "FF"
    BY <1>2, <1>4, <1>5, <1>6 DEF Consistent
  <2>3. k = 4 /\ ram["did"] = "did" => w["flag"] # "FF" /\ w["ssid"] # "FF"
    BY <1>2, <1>5, <1>6 DEF Consistent, Loaded
  <2> QED
    BY <2>1, <2>2, <2>3
<1>10. Consistent(w)
  BY <1>5, <1>6, <1>7, <1>8, <1>9 DEF Consistent
<1>11. k = 4 /\ main # "clear" => w["flag"] = ram["flag"] /\ w["ssid"] = ram["ssid"]
  BY <1>2, <1>3, <1>4 DEF Loaded, Over
<1>12. ASSUME w["flag"] = "1", w["ssid"] \in Nets
       PROVE  w["ssid"] \in IF main = "clear" THEN known \union {ram["ssid"]} ELSE known
  <2>1. CASE k < 3
    <3>1. flash["ssid"] \in Nets
      BY <1>6, <1>12, <2>1
    <3>2. flash["flag"] # "FF"
      BY <1>2, <3>1, OnboardingConstants DEF Consistent
    <3>3. flash["flag"] = "1"
      BY <1>2, <1>4, <1>12, <3>2 DEF Consistent, Loaded, Over
    <3> QED
      BY <1>6, <2>1, <3>1, <3>3 DEF OnbInv, NetworkIsKnown
  <2>2. CASE k >= 3
    <3>1. w["ssid"] = ram["ssid"]
      BY <1>6, <1>12, <2>2
    <3>2. ram["flag"] = "1"
      BY <1>2, <1>4, <1>12, <2>2 DEF Consistent, Loaded, Over
    <3> QED
      BY <1>12, <3>1, <3>2 DEF OnbInv, SavesKnown
  <2> QED
    BY <2>1, <2>2
<1> QED
  BY <1>1, <1>5, <1>6, <1>10, <1>11, <1>12, <1>3 DEF w

\* The queue of the system management task never holds more than one event.
LEMMA OneEvent ==
    ASSUME Types, events # <<>>
    PROVE  events = <<Head(events)>> /\ Tail(events) = <<>>
           /\ Head(events) \in {"LINK_UP", "LINK_DOWN", "JOIN_FAIL", "CFG_DONE"}
<1>1. PICK e \in {"LINK_UP", "LINK_DOWN", "JOIN_FAIL", "CFG_DONE"} : events = <<e>>
  BY DEF Types
<1> QED
  BY <1>1

\* An event posted to the empty queue.
LEMMA Posted ==
    ASSUME NEW e PROVE Append(<<>>, e) = <<e>> /\ <<e>> # <<>>
OBVIOUS
-----------------------------------------------------------------------------
(* Each step keeps the invariant. *)

\* After a reset nothing is left but the flash.
LEMMA BootsStep ==
    ASSUME OnbInv, Boots, Consistent(flash'), NetworkIsKnown'
    PROVE  OnbInv'
BY FieldNames
DEF OnbInv, Types, MainSaves, Alone, RadioOff, DirectMode, ApMode, Station, RamNet,
    Writing, SavesKnown, Onboarded, Announced, Boots, Off, Early, Running, Main, Value, Zero,
    Saver

\* Saving, as far as it goes: WriteFlash of any task, and power failures.
LEMMA SaveStep ==
    ASSUME OnbInv, (\E t \in Saver : Save(t)) \/ PowerFails
    PROVE  OnbInv'
<1> USE OnboardingConstants, FieldNames
    DEF OnbInv, Types, MainSaves, Alone, RadioOff, DirectMode, ApMode, Station,
        RamNet, Writing, SavesKnown, Onboarded, Announced, Early, Running, Main, Saver, flags,
        sems
<1>1. ASSUME NEW t \in Saver, SaveReads(t)
      PROVE  OnbInv'
  <2>1. Types' /\ RadioOff' /\ DirectMode' /\ ApMode' /\ Station' /\ RamNet'
    BY <1>1 DEF SaveReads
  <2>2. MainSaves' /\ Alone' /\ Onboarded' /\ Announced'
    BY <1>1 DEF SaveReads
  <2>3. Writing'
    BY <1>1 DEF SaveReads, Erased
  <2>4. SavesKnown' /\ NetworkIsKnown'
    BY <1>1 DEF SaveReads, NetworkIsKnown
  <2> QED
    BY <2>1, <2>2, <2>3, <2>4
<1>2. ASSUME NEW t \in Saver, SaveErases(t)
      PROVE  OnbInv'
  BY <1>2 DEF SaveErases, NetworkIsKnown, Erased, Consistent, Loaded, Value
<1>3. ASSUME NEW t \in Saver, SaveWrites(t)
      PROVE  OnbInv'
  <2> DEFINE w == Written(4)
  <2>1. Len(Fields) = 4
    BY DEF Fields
  <2>2. /\ saver[t] = "write" /\ saver' = [saver EXCEPT ![t] = "no"]
        /\ flash' = w
        /\ known' = IF main = "clear" THEN known \union {ram["ssid"]} ELSE known
        /\ UNCHANGED <<ram, main, flags, sems, sysmng, udp, bct, radio, events, left>>
    BY <1>3, <2>1 DEF SaveWrites, Excused
  <2>3. /\ main # "start"
        /\ Consistent(w) /\ w["magic"] = "ok" /\ w["flag"] # "FF"
        /\ main # "clear" => w["flag"] = ram["flag"] /\ w["ssid"] = ram["ssid"]
        /\ w["ssid"] \in {"FF", "0", ram["ssid"]} \/ ram["ssid"] = "0"
        /\ w["flag"] = "1" /\ w["ssid"] \in Nets => w["ssid"] \in known'
    BY <2>2, WriteKeeps
  <2> HIDE DEF w
  <2>4. Types' /\ RadioOff' /\ DirectMode' /\ ApMode' /\ Station' /\ RamNet'
    BY <2>2, <2>3
  <2>5. MainSaves' /\ Alone'
    BY <2>2, <2>3 DEF Loaded
  <2>6. Writing' /\ NetworkIsKnown'
    BY <2>2, <2>3 DEF NetworkIsKnown
  <2>7. SavesKnown'
    BY <2>2
  <2>8. Onboarded' /\ Announced'
    BY <2>2, <2>3
  <2> QED
    BY <2>4, <2>5, <2>6, <2>7, <2>8
<1>4. ASSUME PowerFails
      PROVE  OnbInv'
  <2>1. Boots
    BY <1>4 DEF PowerFails
  <2>2. CASE flash' = flash /\ UNCHANGED known
    BY <2>1, <2>2, BootsStep DEF NetworkIsKnown
  <2>3. CASE flash' # flash \/ ~UNCHANGED known
    <3>1. Len(Fields) = 4
      BY DEF Fields
    <3>2. PICK t \in Saver, k \in 1..3 : saver[t] = "write" /\ flash' = Written(k) /\ Excused
      BY <1>4, <2>3, <3>1 DEF PowerFails
    <3>3. /\ Consistent(Written(k))
          /\ Written(k)["flag"] = "1" /\ Written(k)["ssid"] \in Nets =>
               Written(k)["ssid"] \in known'
      BY <3>2, WriteKeeps DEF Excused
    <3> QED
      BY <2>1, <3>2, <3>3, BootsStep DEF NetworkIsKnown
  <2> QED
    BY <2>2, <2>3
<1> QED
  BY <1>1, <1>2, <1>3, <1>4 DEF Save

\* The main task: GAgent_Init, TestDirectConfig and the reset button.
LEMMA MainStep ==
    ASSUME OnbInv, MainTask \/ DirectConfig \/ DirectConfigSaved \/ ResetButton
    PROVE  OnbInv'
<1> USE OnboardingConstants, FieldNames
    DEF OnbInv, Types, MainSaves, Alone, RadioOff, DirectMode, ApMode, Station,
        RamNet, Writing, SavesKnown, Onboarded, Announced, Early, Running, Main, Saver, Saves,
        Saved, config, flags, sems
<1>1. CASE ConfigInit
  BY <1>1 DEF ConfigInit, Accepts, NetworkIsKnown, Consistent, Loaded, Value, Zero, Off
<1>2. CASE ConfigInitDone
  BY <1>2 DEF ConfigInitDone, NetworkIsKnown, Off
<1>3. CASE SetDevNetWork
  BY <1>3 DEF SetDevNetWork, Radio, NetworkIsKnown, Consistent, Loaded, Value, Off
<1>4. CASE StationStarted
  BY <1>4 DEF StationStarted, Radio, NetworkIsKnown, Value
<1>5. CASE DirectConfig
  BY <1>5 DEF DirectConfig, Radio, NetworkIsKnown, Value, Off
<1>6. CASE DirectConfigReceived
  BY <1>6 DEF DirectConfigReceived, Radio, NetworkIsKnown
<1>7. CASE DirectConfigLinked
  <2>1. radio.net \in Nets /\ radio.net \in known
    BY <1>7 DEF DirectConfigLinked
  <2>2. Loaded(ram)'
    BY <1>7, <2>1 DEF DirectConfigLinked, Loaded, Consistent, Value
  <2>3. Types' /\ MainSaves' /\ Alone'
    BY <1>7, <2>2 DEF DirectConfigLinked, Loaded, Consistent
  <2>4. RadioOff' /\ DirectMode' /\ ApMode' /\ Station' /\ RamNet'
    BY <1>7 DEF DirectConfigLinked
  <2>5. Writing' /\ SavesKnown' /\ NetworkIsKnown' /\ Onboarded'
        /\ Announced'
    BY <1>7, <2>1 DEF DirectConfigLinked, NetworkIsKnown
  <2> QED
    BY <2>3, <2>4, <2>5
<1>8. CASE DirectConfigFails
  BY <1>8, BootsStep DEF DirectConfigFails, NetworkIsKnown
<1>9. CASE DirectConfigSaved
  <2>1. Types' /\ MainSaves' /\ Alone'
    BY <1>9 DEF DirectConfigSaved
  <2>2. RadioOff' /\ DirectMode' /\ ApMode' /\ Station' /\ RamNet'
    BY <1>9 DEF DirectConfigSaved
  <2>3. Writing' /\ SavesKnown' /\ NetworkIsKnown' /\ Onboarded'
        /\ Announced'
    BY <1>9 DEF DirectConfigSaved, NetworkIsKnown
  <2> QED
    BY <2>1, <2>2, <2>3
<1>10. CASE DirectConfigDone
  BY <1>10 DEF DirectConfigDone, NetworkIsKnown
<1>11. CASE ResetButton
  BY <1>11 DEF ResetButton, Spends, NetworkIsKnown, Consistent, Loaded, Value
<1>12. CASE ResetButtonDone
  BY <1>12, BootsStep DEF ResetButtonDone, NetworkIsKnown
<1> QED
  BY <1>1, <1>2, <1>3, <1>4, <1>5, <1>6, <1>7, <1>8, <1>9, <1>10, <1>11, <1>12
  DEF MainTask

\* The system management task: link events and the wait for an address.
LEMMA SysMngStep ==
    ASSUME OnbInv, SysMngTask \/ DhcpBound
    PROVE  OnbInv'
<1> USE OnboardingConstants
    DEF OnbInv, Types, MainSaves, Alone, RadioOff, DirectMode, ApMode, Station,
        RamNet, Writing, SavesKnown, Onboarded, Announced, Early, Running, Saver, Saves,
        Saved, LinkUpPosts, config, flags, sems
<1>1. CASE LinkUp
  <2>1. sysmng = "idle" /\ events = <<"LINK_UP">> /\ events' = <<>>
    BY <1>1, OneEvent DEF LinkUp
  <2>2. CASE radio.mode = "sta"
    <3>1. /\ sysmng' = "dhcp"
          /\ UNCHANGED <<saver, joinFailed, TestDirectCfgFlag, sems, flash, ram, main,
                         status, onboarding, udp, bct, radio, left, known>>
      BY <1>1, <2>2 DEF LinkUp
    <3>2. main \notin {"dc", "start", "init", "network"} /\ radio.phase \in {"up", "bound"}
      BY <2>1, <2>2
    <3>3. Types' /\ MainSaves' /\ Alone' /\ Onboarded' /\ Announced'
      BY <2>1, <3>1
    <3>4. RadioOff' /\ DirectMode' /\ ApMode' /\ Station' /\ RamNet'
      BY <2>1, <2>2, <3>1, <3>2
    <3>5. Writing' /\ SavesKnown' /\ NetworkIsKnown'
      BY <3>1 DEF NetworkIsKnown
    <3> QED
      BY <3>3, <3>4, <3>5
  <2>3. CASE radio.mode # "sta"
    <3>1. /\ joinFailed' = 0 /\ TestDirectCfgFlag' = 1 /\ sysmng' = "idle"
          /\ pSoftApSem' = pSoftApSem
          /\ UNCHANGED <<saver, flash, ram, main, status, onboarding, udp, bct, radio,
                         left, known>>
      BY <1>1, <2>3 DEF LinkUp, LinkUpEvent
    <3>2. main \notin {"dc", "start", "init", "network", "dcLink", "dcSave", "dcSave2"}
      BY <2>1, <2>3
    <3>3. Types' /\ MainSaves' /\ Alone' /\ Onboarded' /\ Announced'
      BY <2>1, <2>3, <3>1, <3>2
    <3>4. RadioOff' /\ DirectMode' /\ ApMode' /\ Station' /\ RamNet'
      BY <2>1, <2>3, <3>1, <3>2
    <3>5. Writing' /\ SavesKnown' /\ NetworkIsKnown'
      BY <3>1 DEF NetworkIsKnown
    <3> QED
      BY <3>3, <3>4, <3>5
  <2> QED
    BY <2>2, <2>3
<1>2. CASE DhcpBound
  <2>1. /\ sysmng = "dhcp" /\ radio.phase = "up" /\ radio.mode = "sta" /\ radio.net \in Nets
        /\ radio' = [radio EXCEPT !.phase = "bound"]
        /\ known' = known \union {radio.net} /\ joinFailed' = 0
        /\ UNCHANGED <<flash, ram, main, status, onboarding, udp, bct, events, left>>
    BY <1>2 DEF DhcpBound, LinkUpEvent
  <2>2. radio'.mode = "sta" /\ radio'.net = radio.net /\ radio'.phase = "bound"
    BY <2>1
  <2>3. \/ /\ onboarding = "SUCCESS" /\ saver' = [saver EXCEPT !["sysmng"] = "read"]
           /\ sysmng' = "save" /\ UNCHANGED <<sems, TestDirectCfgFlag>>
        \/ /\ onboarding # "SUCCESS" /\ TestDirectCfgFlag' = 1 /\ sysmng' = "idle"
           /\ pSoftApSem' = pSoftApSem /\ UNCHANGED saver
    BY <1>2 DEF DhcpBound, LinkUpEvent
  <2>4. main \notin {"start", "init", "network", "dc"}
    BY <2>1
  <2>5. events \in {<<>>, <<"LINK_UP">>, <<"LINK_DOWN">>}
    BY <2>1, <2>4
  <2>6. Types'
    BY <2>1, <2>3
  <2>7. MainSaves' /\ Alone' /\ Onboarded' /\ Announced' /\ RamNet'
    BY <2>1, <2>2, <2>3
  <2>8. RadioOff' /\ DirectMode' /\ ApMode' /\ Station'
    BY <2>1, <2>2, <2>3, <2>4, <2>5
  <2>9. Writing' /\ SavesKnown' /\ NetworkIsKnown'
    BY <2>1, <2>3 DEF NetworkIsKnown
  <2> QED
    BY <2>6, <2>7, <2>8, <2>9
<1>3. CASE DhcpGivesUp
  BY <1>3 DEF DhcpGivesUp, NetworkIsKnown
<1>4. CASE LinkUpSaved
  BY <1>4 DEF LinkUpSaved, NetworkIsKnown
<1>5. CASE JoinFail
  <2>1. CASE status = "SOFTAP"
    BY <1>5, <2>1, BootsStep DEF JoinFail, NetworkIsKnown
  <2>2. CASE status # "SOFTAP"
    <3>1. events = <<"JOIN_FAIL">> /\ events' = <<>> /\ sysmng = "idle"
      BY <1>5, <2>2, OneEvent DEF JoinFail
    <3>2. main \notin {"start", "init", "network", "dc"} /\ radio.mode # "ap"
      BY <3>1
    <3>3. /\ joinFailed' = 1 /\ TestDirectCfgFlag' \in {2, TestDirectCfgFlag}
          /\ UNCHANGED <<config, main, status, onboarding, pSoftApSem, sysmng, udp,
                         bct, radio, left, known>>
      BY <1>5, <2>2 DEF JoinFail
    <3>4. Types' /\ MainSaves' /\ Alone' /\ RamNet' /\ Writing'
      BY <3>1, <3>3
    <3>5. RadioOff' /\ DirectMode' /\ ApMode' /\ Station'
      BY <3>1, <3>2, <3>3
    <3>6. SavesKnown' /\ NetworkIsKnown' /\ Onboarded' /\ Announced'
      BY <3>3 DEF NetworkIsKnown
    <3> QED
      BY <3>4, <3>5, <3>6
  <2> QED
    BY <2>1, <2>2
<1>6. CASE OtherEvent
  <2>1. /\ \/ events = <<"CFG_DONE">> /\ TestDirectCfgFlag' = 1
           \/ events = <<"LINK_DOWN">> /\ UNCHANGED TestDirectCfgFlag
        /\ events' = <<>> /\ sysmng = "idle"
        /\ UNCHANGED <<config, main, status, onboarding, joinFailed, sems, sysmng, udp,
                       bct, radio, left, known>>
    BY <1>6, OneEvent DEF OtherEvent
  <2>2. Types' /\ MainSaves' /\ Alone' /\ RamNet' /\ Writing'
    BY <2>1
  <2>3. RadioOff' /\ DirectMode' /\ ApMode' /\ Station'
    <3>1. CASE events = <<"CFG_DONE">>
      <4>1. main = "dc" /\ radio.mode = "dc" /\ radio.phase # "starting"
        BY <3>1
      <4> QED
        BY <2>1, <4>1
    <3>2. CASE events = <<"LINK_DOWN">>
      <4>1. radio.mode = "sta" /\ main \notin {"start", "init", "network", "dc"}
        BY <3>2
      <4>2. UNCHANGED TestDirectCfgFlag
        BY <2>1, <3>2
      <4> QED
        BY <2>1, <4>1, <4>2
    <3> QED
      BY <2>1, <3>1, <3>2
  <2>4. SavesKnown' /\ NetworkIsKnown' /\ Onboarded' /\ Announced'
    BY <2>1 DEF NetworkIsKnown
  <2> QED
    BY <2>2, <2>3, <2>4
<1> QED
  BY <1>1, <1>2, <1>3, <1>4, <1>5, <1>6 DEF SysMngTask

\* The UDP, broadcast and cloud tasks.
LEMMA TasksStep ==
    ASSUME OnbInv,
           \/ \E n \in Nets : OnboardingPacket(n)
           \/ OnboardingStarted \/ BroadcastStarts \/ BroadcastResets \/ Registered
    PROVE  OnbInv'
<1> USE OnboardingConstants, FieldNames
    DEF OnbInv, Types, MainSaves, Alone, RadioOff, DirectMode, ApMode, Station,
        RamNet, Writing, SavesKnown, Onboarded, Announced, Early, Running, Saver, Saves,
        Saved, NetworkIsKnown, config, flags, sems
<1>1. ASSUME NEW n \in Nets, OnboardingPacket(n)
      PROVE  OnbInv'
  <2>1. Types' /\ MainSaves' /\ Alone' /\ RadioOff'
    BY <1>1 DEF OnboardingPacket, Spends, Radio, Loaded, Consistent, Value, Erased
  <2>2. DirectMode' /\ ApMode' /\ Station' /\ RamNet'
    BY <1>1 DEF OnboardingPacket, Radio
  <2>3. Writing' /\ SavesKnown' /\ NetworkIsKnown'
    BY <1>1 DEF OnboardingPacket, Radio, Erased
  <2>4. Onboarded' /\ Announced'
    BY <1>1 DEF OnboardingPacket, OnboardingAllowed
  <2> QED
    BY <2>1, <2>2, <2>3, <2>4
<1>2. CASE OnboardingStarted
  BY <1>2 DEF OnboardingStarted
<1>3. CASE BroadcastStarts
  BY <1>3 DEF BroadcastStarts
<1>4. CASE BroadcastResets
  BY <1>4, BootsStep DEF BroadcastResets
<1>5. CASE Registered
  <2>1. onboarding = "FAILED" /\ bct = "pend" /\ pSoftApSem = 0 /\ sysmng # "save"
    BY <1>5 DEF Registered, WifiStation
  <2>2. Types' /\ MainSaves' /\ Alone' /\ RadioOff'
    BY <1>5 DEF Registered, Loaded, Consistent, Value
  <2>3. DirectMode' /\ ApMode' /\ Station' /\ RamNet'
    BY <1>5 DEF Registered
  <2>4. Writing' /\ SavesKnown' /\ NetworkIsKnown'
    BY <1>5 DEF Registered
  <2>5. Onboarded' /\ Announced'
    BY <1>5, <2>1 DEF Registered, WifiStation
  <2> QED
    BY <2>2, <2>3, <2>4, <2>5
<1> QED
  BY <1>1, <1>2, <1>3, <1>4, <1>5

\* The Wi-Fi stack.
LEMMA RadioStep ==
    ASSUME OnbInv, Associate \/ StationLost \/ \E n \in Nets : DirectCfgDone(n)
    PROVE  OnbInv'
<1> USE OnboardingConstants
    DEF OnbInv, Types, MainSaves, Alone, RadioOff, DirectMode, ApMode, Station,
        RamNet, Writing, SavesKnown, Onboarded, Announced, Early, Running, Saver, Posts, Off,
        NetworkIsKnown, config, flags, sems
<1>1. CASE ApUp
  BY <1>1, Posted DEF ApUp, Quiet
<1>2. CASE StationJoins
  BY <1>2, Posted DEF StationJoins, Quiet
<1>3. CASE StationFails
  BY <1>3, Posted DEF StationFails, Quiet
<1>4. CASE StationLost
  BY <1>4, Posted DEF StationLost, Quiet, Spends
<1>5. ASSUME NEW n \in Nets, DirectCfgDone(n)
      PROVE  OnbInv'
  <2>1. /\ radio.mode = "dc" /\ radio.phase = "starting" /\ main = "dc" /\ events = <<>>
        /\ radio' = [radio EXCEPT !.phase = "up", !.net = n]
        /\ events' = Append(events, "CFG_DONE")
        /\ UNCHANGED <<config, main, flags, sems, sysmng, udp, bct, left, known>>
    BY <1>5 DEF DirectCfgDone
  <2>0. events' = <<"CFG_DONE">>
    BY <2>1, Posted
  <2>2. radio'.mode = "dc" /\ radio'.phase = "up" /\ radio'.net = n
    BY <2>1
  <2>3. Types'
    BY <2>1, <2>0, <2>2 DEF Value
  <2>4. MainSaves' /\ Alone' /\ RamNet' /\ Writing' /\ SavesKnown'
    BY <2>1, <2>2
  <2>5. RadioOff' /\ DirectMode' /\ ApMode' /\ Station' /\ NetworkIsKnown'
        /\ Onboarded' /\ Announced'
    BY <2>1, <2>0, <2>2
  <2> QED
    BY <2>3, <2>4, <2>5
<1> QED
  BY <1>1, <1>2, <1>3, <1>4, <1>5 DEF Associate
-----------------------------------------------------------------------------
(* The theorems. *)

\* The invariant holds in every reachable state.
LEMMA OnboardingInvariant == Spec => []OnbInv
<1>1. Init => OnbInv
  BY OnboardingConstants, FieldNames
  DEF Init, OnbInv, Types, MainSaves, Alone, RadioOff, DirectMode, ApMode, Station,
      RamNet, Writing, SavesKnown, Onboarded, Announced, NetworkIsKnown, Consistent, Early,
      Running, Main, Saver, Value, Zero, Erased, Off
<1>2. OnbInv /\ [Next]_vars => OnbInv'
  <2> SUFFICES ASSUME OnbInv, [Next]_vars PROVE OnbInv'
    OBVIOUS
  <2>1. CASE Next
    BY <2>1, SaveStep, MainStep, SysMngStep, TasksStep, RadioStep DEF Next
  <2>2. CASE UNCHANGED vars
    BY <2>2
    DEF vars, config, flags, sems, OnbInv, Types, MainSaves, Alone, RadioOff,
        DirectMode, ApMode, Station, RamNet, Writing, SavesKnown, Onboarded, Announced,
        NetworkIsKnown, Early, Running
  <2> QED
    BY <2>1, <2>2
<1> QED
  BY <1>1, <1>2, PTL DEF Spec

\* GAgent_Config_Status_Init never accepts a configuration that is not
\* whole: saves of several tasks that overlap, and power failures between
\* any two steps of WriteFlash or within its write, leave the identity in
\* flash only together with a network or none.
THEOREM WholeTheorem == Spec => []AcceptedIsWhole
<1>1. OnbInv => AcceptedIsWhole
  BY DEF OnbInv, Types, Consistent, AcceptedIsWhole, Accepts
<1> QED
  BY <1>1, OnboardingInvariant, PTL

\* The network in flash is one the device has been linked to (L2LinkUp saves
\* only after DHCP), or one that the save of the reset button picked up.
THEOREM KnownTheorem == Spec => []NetworkIsKnown
<1>1. OnbInv => NetworkIsKnown
  BY DEF OnbInv
<1> QED
  BY <1>1, OnboardingInvariant, PTL

\* The reset of UdpBCTThread that ends an onboarding finds the network in
\* flash, except between the erase and the write of a second link-up's save.
THEOREM ResetTheorem == Spec => []ResetFindsNetwork
<1>1. OnbInv => ResetFindsNetwork
  BY DEF OnbInv, Types, Alone, RamNet, Onboarded, Announced, ResetFindsNetwork
<1> QED
  BY <1>1, OnboardingInvariant, PTL
=============================================================================
