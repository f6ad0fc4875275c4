-------------------------- MODULE CloudLoginProofs --------------------------
(***************************************************************************)
(* Proofs about CloudLogin, for all values of the timeouts and bounds, all *)
(* stored DIDs, with or without segmentation, refusals and failing sends.  *)
(***************************************************************************)
EXTENDS CloudLogin, TLAPS

\* What Pkt builds is a packet.
LEMMA PktType ==
    ASSUME NEW t \in {"CONNACK", "SUBACK", "PINGRESP", "PUBLISH", "OTHER"},
           NEW n \in Nat, NEW k \in 0..3
    PROVE  Pkt(t, n, k) \in Packet
BY DEF Pkt, Packet

\* Answer only ever lengthens the queue, by one packet at most.
LEMMA AnswerType ==
    ASSUME TypeOK, NEW p \in Packet, NEW ok \in BOOLEAN
    PROVE  /\ Answer(ok, p) \in Seq(Packet)
           /\ Len(Answer(ok, p)) >= Len(down)
           /\ arrived \in 0..Len(Answer(ok, p))
BY DEF Answer, TypeOK

\* The answer to a ping leaves the queue of packets well formed.
LEMMA PingType ==
    ASSUME TypeOK, \E ok \in SendResult : Mqtt_ping(ok)
    PROVE  down' \in Seq(Packet) /\ arrived \in 0..Len(down')
<1>1. PICK ok \in BOOLEAN : Mqtt_ping(ok)
  BY DEF SendResult
<1>2. Pkt("PINGRESP", 0, 0) \in Packet
  BY PktType
<1> QED
  BY <1>1, <1>2, AnswerType DEF Mqtt_ping

\* So does the answer to a SUBSCRIBE, and the message ids stay numbers.
LEMMA SubscribeType ==
    ASSUME TypeOK, Mqtt_SubLoginTopic
    PROVE  /\ mqttStatus' \in MqttStatus
           /\ seq' \in Nat /\ msgsubId' \in Nat
           /\ down' \in Seq(Packet) /\ arrived \in 0..Len(down')
<1> DEFINE Good == /\ seq' \in Nat /\ msgsubId' \in Nat
                   /\ down' \in Seq(Packet) /\ arrived \in 0..Len(down')
<1>1. ASSUME NEW topic \in 1..3, NEW ok \in SendResult, Mqtt_subscribe(topic, ok)
      PROVE  Good
  <2>1. ok \in BOOLEAN
    BY DEF SendResult
  <2>2. Pkt("SUBACK", seq, topic) \in Packet
    BY PktType DEF TypeOK
  <2> QED
    BY <1>1, <2>1, <2>2, AnswerType DEF Mqtt_subscribe, TypeOK
<1>2. ASSUME UNCHANGED <<seq, msgsubId>>, \E ok \in SendResult : Mqtt_ping(ok)
      PROVE  Good
  BY <1>2, PingType DEF TypeOK
<1>3. ASSUME UNCHANGED <<seq, msgsubId, down>>
      PROVE  Good
  BY <1>3 DEF TypeOK
<1>4. Good
  BY <1>1, <1>2, <1>3 DEF Mqtt_SubLoginTopic
<1>5. mqttStatus' \in MqttStatus
  BY DEF Mqtt_SubLoginTopic, MqttStatus, TypeOK
<1> QED
  BY <1>4, <1>5

\* Every variable stays within its type (the base of all other proofs).
LEMMA TypeStep == TypeOK /\ [Next]_vars => TypeOK'
<1> SUFFICES ASSUME TypeOK, [Next]_vars PROVE TypeOK'
  OBVIOUS
<1> USE CloudConstants
    DEF TypeOK, ConCloudStatus, MqttStatus, CloudPc, Topics, NoMqttChange,
        NoHttpChange, Polls, GAGENT_DID_LEN, cloudVars, linkVars, envVars, conn
<1>1. CASE ReqDid
  BY <1>1
  DEF ReqDid
<1>2. CASE Mqtt_Register2Server
  BY <1>2
  DEF Mqtt_Register2Server, HttpInitFails, HttpSent
<1>3. CASE ReqDidAckTimeout
  BY <1>3
  DEF ReqDidAckTimeout
<1>4. CASE ReqDidAck
  BY <1>4
  DEF ReqDidAck
<1>5. CASE Http_Recive_Did
  BY <1>5
  DEF Http_Recive_Did, HttpSilent
<1>6. CASE SaveDid
  BY <1>6
  DEF SaveDid
<1>7. CASE ReqM2mInfo
  BY <1>7
  DEF ReqM2mInfo
<1>8. CASE Http_Sent_Provision
  BY <1>8
  DEF Http_Sent_Provision, HttpInitFails, HttpSent
<1>9. CASE ReqM2mInfoAckTimeout
  BY <1>9
  DEF ReqM2mInfoAckTimeout
<1>10. CASE ReqM2mInfoAck
  BY <1>10
  DEF ReqM2mInfoAck
<1>11. CASE Http_Recive_M2minfo
  BY <1>11
  DEF Http_Recive_M2minfo, HttpSilent
<1>12. CASE ReqLogin
  BY <1>12
  DEF ReqLogin
<1>13. CASE ResolveFails
  BY <1>13
  DEF ResolveFails
<1>14. CASE CloseOldSocket
  BY <1>14
  DEF CloseOldSocket, FreshConn
<1>15. CASE ConnectFails
  BY <1>15
  DEF ConnectFails
<1>16. CASE Connect
  BY <1>16
  DEF Connect, FreshConn
<1>17. CASE SendConnect
  <2>1. PICK ok \in SendResult, code \in {0, 1} :
          down' = Answer(ok, Pkt("CONNACK", code, 0))
    BY <1>17 DEF SendConnect
  <2>2. ok \in BOOLEAN /\ Pkt("CONNACK", code, 0) \in Packet
    <3>1. ok \in BOOLEAN
      BY DEF SendResult
    <3> QED
      BY <3>1, PktType
  <2>3. down' \in Seq(Packet) /\ arrived \in 0..Len(down')
    BY <2>1, <2>2, AnswerType
  <2>4. /\ pc' \in CloudPc /\ session' \in {"new", "accepted", "refused"}
        /\ connDid' \in 0..MaxDid
    BY <1>17 DEF SendConnect
  <2> QED
    BY <1>17, <2>3, <2>4 DEF SendConnect
<1>18. CASE EnterRunning
  BY <1>18
  DEF EnterRunning
<1>19. CASE EnterLogin
  BY <1>19
  DEF EnterLogin
<1>20. CASE RunningTimeout
  BY <1>20
  DEF RunningTimeout
<1>21. CASE MQTT_readPacket
  <2>1. PICK n \in 1..arrived :
          /\ pkt' = Head(down)
          /\ down' = SubSeq(down, n + 1, Len(down))
          /\ arrived' = arrived - n
          /\ acked' = IF Head(down).type = "SUBACK"
                      THEN acked \union {Head(down).topic} ELSE acked
    BY <1>21 DEF MQTT_readPacket
  <2>2. Head(down) \in Packet
    BY <2>1
  <2>3. down' \in Seq(Packet) /\ arrived' \in 0..Len(down')
    BY <2>1
  <2>4. acked' \subseteq 0..3
    BY <2>1, <2>2 DEF Packet
  <2> QED
    BY <1>21, <2>1, <2>2, <2>3, <2>4 DEF MQTT_readPacket
<1>22. CASE ReadShort
  BY <1>22, PktType
  DEF ReadShort
<1>23. CASE HandleConnackRefused
  BY <1>23, PktType
  DEF HandleConnackRefused, Handles, NoSubscription
<1>24. CASE HandleConnackAccepted
  <2>1. CASE mqttStatus = "LOGIN"
    BY <1>24, <2>1, PktType, SubscribeType
    DEF HandleConnackAccepted, Handles
  <2>2. CASE mqttStatus # "LOGIN"
    BY <1>24, <2>2, PktType
    DEF HandleConnackAccepted, Handles, NoSubscription
  <2> QED
    BY <2>1, <2>2
<1>25. CASE HandleSuback
  <2>1. CASE pkt.n = msgsubId
    BY <1>25, <2>1, PktType, SubscribeType
    DEF HandleSuback, Handles
  <2>2. CASE pkt.n # msgsubId
    BY <1>25, <2>2, PktType
    DEF HandleSuback, Handles, NoSubscription
  <2> QED
    BY <2>1, <2>2
<1>26. CASE HandleOther
  <2>1. PICK t \in {"PINGRESP", "PUBLISH", "OTHER"} : Handles(t)
    BY <1>26 DEF HandleOther
  <2>2. Pkt("OTHER", 0, 0) \in Packet
    BY PktType
  <2>3. UNCHANGED <<conCloud, mqttStatus, seq, msgsubId, down>>
    BY <1>26 DEF HandleOther, NoSubscription
  <2> QED
    BY <2>1, <2>2, <2>3 DEF Handles
<1>27. CASE HbCount
  <2>1. pingTime' \in Nat /\ loseTime' \in Nat /\ silence' \in Nat
    BY <1>27 DEF HbCount, HbPing, HbLose, HbDue
  <2>2. down' \in Seq(Packet) /\ arrived \in 0..Len(down')
    <3>1. CASE HbDue
      BY <1>27, <3>1, PingType DEF HbCount
    <3>2. CASE ~HbDue
      BY <1>27, <3>2 DEF HbCount
    <3> QED
      BY <3>1, <3>2
  <2> QED
    BY <1>27, <2>1, <2>2 DEF HbCount
<1>28. CASE HbClose
  BY <1>28
  DEF HbClose, FreshConn
<1>29. CASE ClockTick
  BY <1>29
  DEF ClockTick, Older
<1>30. CASE ModifyLocalTime
  BY <1>30
  DEF ModifyLocalTime
<1>31. CASE MCU_SendPublishPacket
  BY <1>31
  DEF MCU_SendPublishPacket
<1>32. CASE Reboot
  <2>1. pkt' \in Packet
    BY <1>32, PktType DEF Reboot
  <2>2. down' \in Seq(Packet) /\ arrived' \in 0..Len(down') /\ acked' \subseteq 0..3
    BY <1>32 DEF Reboot, FreshConn
  <2>3. /\ conCloud' \in ConCloudStatus
        /\ didLen' \in {0, GAGENT_DID_LEN}
    BY <1>32 DEF Reboot, BootStatus, BootDidLen
  <2> QED
    BY <1>32, <2>1, <2>2, <2>3 DEF Reboot, FreshConn
<1>33. CASE Deliver
  BY <1>33
  DEF Deliver
<1>34. CASE Break
  BY <1>34
  DEF Break
<1>35. CASE BrokerPublish
  BY <1>35, PktType
  DEF BrokerPublish
<1>36. CASE Stabilise
  BY <1>36
  DEF Stabilise
<1>37. CASE UNCHANGED vars
  BY <1>37 DEF vars
<1> QED
  BY <1>1, <1>2, <1>3, <1>4, <1>5, <1>6, <1>7, <1>8, <1>9, <1>10, <1>11,
     <1>12, <1>13, <1>14, <1>15, <1>16, <1>17, <1>18, <1>19, <1>20, <1>21,
     <1>22, <1>23, <1>24, <1>25, <1>26, <1>27, <1>28, <1>29, <1>30, <1>31,
     <1>32, <1>33, <1>34, <1>35, <1>36, <1>37
  DEF Next, CloudThread, OtherTasks, Network

\* TypeOK is an invariant: no interleaving of the tasks takes a status, an
\* age, a counter or a packet out of its range.
THEOREM TypeCorrect == Spec => []TypeOK
<1>1. Init => TypeOK
  BY CloudConstants, PktType
  DEF Init, TypeOK, BootStatus, BootDidLen, ConCloudStatus, MqttStatus, CloudPc, Topics,
      GAGENT_DID_LEN
<1> QED
  BY <1>1, TypeStep, PTL DEF Spec
-----------------------------------------------------------------------------
(* The identity and the session. *)

\* Where the cloud thread can be while the state is RUNNING.
PcOfRunning ==
    conCloud = "RUNNING" => pc \in {"idle", "handle", "enterLogin"}

\* The places in the login where the device must know who it is, and those
\* where it must know its server too.
HasDid ==
    (\/ conCloud \notin {"REQ_DID", "REQ_DID_ACK"}
     \/ socketid # -1
     \/ pc \in {"provision", "recvM2m", "initSocket", "connect",
               "sendConnect", "enterRunning", "enterLogin"})
        => didLen > 0 /\ flashDid # 0
HasM2m ==
    (\/ conCloud \in {"REQ_LOGIN", "RUNNING"}
     \/ socketid # -1
     \/ pc \in {"initSocket", "connect", "sendConnect", "enterRunning",
               "enterLogin"})
        => m2m # "unknown"
NewDid == pc = "saveDid" => did # 0 /\ didLen > 0

\* The DID in RAM is blank or the stored one, except just before it is saved;
\* the session was opened with the DID in RAM.
RamDid     == did \in {0, flashDid} \/ pc = "saveDid"
NewSession == pc \in {"connect", "sendConnect"} => session = "new"
SessionDid == (/\ conCloud = "RUNNING" \/ pc = "enterRunning"
               /\ socketid # -1 /\ session # "new") => connDid = did
RealDid    == session = "accepted" => connDid # 0

\* The counters of the heart beat stay below the point where the timer acts.
HbRange == /\ pingTime < CLOUD_HB_TIMEOUT_ONESHOT
           /\ \/ loseTime < CLOUD_HB_TIMEOUT_CNT_MAX
              \/ /\ loseTime = CLOUD_HB_TIMEOUT_CNT_MAX
                 /\ pingTime < CLOUD_HB_TIMEOUT_REDUNDANCE
Silence == socketid # -1 =>
             silence <= loseTime * CLOUD_HB_TIMEOUT_ONESHOT + pingTime


LoginInv == PcOfRunning /\ HasDid /\ HasM2m /\ NewDid /\ DeadSocketIsTimed

SessionInv == RamDid /\ NewSession /\ SessionDid /\ RealDid

SilenceInv == HbRange /\ Silence

\* Each step keeps the conditions on the way to a login.
LEMMA LoginInvStep ==
    TypeOK /\ LoginInv /\ [Next]_vars => LoginInv'
<1> SUFFICES ASSUME TypeOK, LoginInv, [Next]_vars PROVE LoginInv'
  OBVIOUS
<1> USE CloudConstants
    DEF TypeOK, LoginInv, PcOfRunning, HasDid, HasM2m, NewDid, DeadSocketIsTimed,
        NoMqttChange, NoHttpChange, Polls, GAGENT_DID_LEN, cloudVars, linkVars,
        envVars, conn
<1>1. CASE ReqDid
  BY <1>1
  DEF ReqDid
<1>2. CASE Mqtt_Register2Server
  BY <1>2
  DEF Mqtt_Register2Server, HttpInitFails, HttpSent
<1>3. CASE ReqDidAckTimeout
  BY <1>3
  DEF ReqDidAckTimeout
<1>4. CASE ReqDidAck
  BY <1>4
  DEF ReqDidAck
<1>5. CASE Http_Recive_Did
  BY <1>5
  DEF Http_Recive_Did, HttpSilent, HttpSilent
<1>6. CASE SaveDid
  BY <1>6
  DEF SaveDid
<1>7. CASE ReqM2mInfo
  BY <1>7
  DEF ReqM2mInfo
<1>8. CASE Http_Sent_Provision
  BY <1>8
  DEF Http_Sent_Provision, HttpInitFails, HttpSent
<1>9. CASE ReqM2mInfoAckTimeout
  BY <1>9
  DEF ReqM2mInfoAckTimeout
<1>10. CASE ReqM2mInfoAck
  BY <1>10
  DEF ReqM2mInfoAck
<1>11. CASE Http_Recive_M2minfo
  BY <1>11
  DEF Http_Recive_M2minfo, HttpSilent
<1>12. CASE ReqLogin
  BY <1>12
  DEF ReqLogin
<1>13. CASE ResolveFails
  BY <1>13
  DEF ResolveFails
<1>14. CASE CloseOldSocket
  BY <1>14
  DEF CloseOldSocket, FreshConn
<1>15. CASE ConnectFails
  BY <1>15
  DEF ConnectFails
<1>16. CASE Connect
  BY <1>16
  DEF Connect, FreshConn
<1>17. CASE SendConnect
  BY <1>17
  DEF SendConnect, SendResult
<1>18. CASE EnterRunning
  BY <1>18
  DEF EnterRunning
<1>19. CASE EnterLogin
  BY <1>19
  DEF EnterLogin
<1>20. CASE RunningTimeout
  BY <1>20
  DEF RunningTimeout
<1>21. CASE MQTT_readPacket
  BY <1>21
  DEF MQTT_readPacket
<1>22. CASE ReadShort
  BY <1>22
  DEF ReadShort
<1>23. CASE HandleConnackRefused
  BY <1>23
  DEF HandleConnackRefused, Handles, NoSubscription
<1>24. CASE HandleConnackAccepted
  BY <1>24
  DEF HandleConnackAccepted, Handles, NoSubscription, Mqtt_SubLoginTopic, SendResult, Mqtt_subscribe, Mqtt_ping
<1>25. CASE HandleSuback
  BY <1>25
  DEF HandleSuback, Handles, NoSubscription, Mqtt_SubLoginTopic, SendResult, Mqtt_subscribe, Mqtt_ping
<1>26. CASE HandleOther
  BY <1>26
  DEF HandleOther, Handles, NoSubscription
<1>27. CASE HbCount
  BY <1>27
  DEF HbCount, HbPing, HbLose, HbDue, Mqtt_ping, SendResult
<1>28. CASE HbClose
  BY <1>28
  DEF HbClose, FreshConn
<1>29. CASE ClockTick
  BY <1>29
  DEF ClockTick, Older
<1>30. CASE ModifyLocalTime
  BY <1>30
  DEF ModifyLocalTime
<1>31. CASE MCU_SendPublishPacket
  BY <1>31
  DEF MCU_SendPublishPacket
<1>32. CASE Reboot
  BY <1>32
  DEF Reboot, BootStatus, BootDidLen, FreshConn
<1>33. CASE Deliver
  BY <1>33
  DEF Deliver
<1>34. CASE Break
  BY <1>34
  DEF Break
<1>35. CASE BrokerPublish
  BY <1>35
  DEF BrokerPublish
<1>36. CASE Stabilise
  BY <1>36
  DEF Stabilise
<1>37. CASE UNCHANGED vars
  BY <1>37 DEF vars
<1> QED
  BY <1>1, <1>2, <1>3, <1>4, <1>5, <1>6, <1>7, <1>8, <1>9, <1>10, <1>11,
     <1>12, <1>13, <1>14, <1>15, <1>16, <1>17, <1>18, <1>19, <1>20, <1>21,
     <1>22, <1>23, <1>24, <1>25, <1>26, <1>27, <1>28, <1>29, <1>30, <1>31,
     <1>32, <1>33, <1>34, <1>35, <1>36, <1>37
  DEF Next, CloudThread, OtherTasks, Network

\* Each step keeps the session under the stored identity.
LEMMA SessionInvStep ==
    TypeOK /\ PcOfRunning /\ SessionInv /\ [Next]_vars => SessionInv'
<1> SUFFICES ASSUME TypeOK, PcOfRunning, SessionInv, [Next]_vars PROVE SessionInv'
  OBVIOUS
<1> USE CloudConstants
    DEF TypeOK, SessionInv, PcOfRunning, RamDid, NewSession, SessionDid, RealDid,
        NoMqttChange, NoHttpChange, Polls, GAGENT_DID_LEN, cloudVars, linkVars,
        envVars, conn
<1>1. CASE ReqDid
  BY <1>1
  DEF ReqDid
<1>2. CASE Mqtt_Register2Server
  BY <1>2
  DEF Mqtt_Register2Server, HttpInitFails, HttpSent
<1>3. CASE ReqDidAckTimeout
  BY <1>3
  DEF ReqDidAckTimeout
<1>4. CASE ReqDidAck
  BY <1>4
  DEF ReqDidAck
<1>5. CASE Http_Recive_Did
  BY <1>5
  DEF Http_Recive_Did, HttpSilent
<1>6. CASE SaveDid
  BY <1>6
  DEF SaveDid
<1>7. CASE ReqM2mInfo
  BY <1>7
  DEF ReqM2mInfo
<1>8. CASE Http_Sent_Provision
  BY <1>8
  DEF Http_Sent_Provision, HttpInitFails, HttpSent
<1>9. CASE ReqM2mInfoAckTimeout
  BY <1>9
  DEF ReqM2mInfoAckTimeout
<1>10. CASE ReqM2mInfoAck
  BY <1>10
  DEF ReqM2mInfoAck
<1>11. CASE Http_Recive_M2minfo
  BY <1>11
  DEF Http_Recive_M2minfo, HttpSilent
<1>12. CASE ReqLogin
  BY <1>12
  DEF ReqLogin
<1>13. CASE ResolveFails
  BY <1>13
  DEF ResolveFails
<1>14. CASE CloseOldSocket
  BY <1>14
  DEF CloseOldSocket, FreshConn
<1>15. CASE ConnectFails
  BY <1>15
  DEF ConnectFails
<1>16. CASE Connect
  BY <1>16
  DEF Connect, FreshConn
<1>17. CASE SendConnect
  BY <1>17
  DEF SendConnect, SendResult
<1>18. CASE EnterRunning
  BY <1>18
  DEF EnterRunning
<1>19. CASE EnterLogin
  BY <1>19
  DEF EnterLogin
<1>20. CASE RunningTimeout
  BY <1>20
  DEF RunningTimeout
<1>21. CASE MQTT_readPacket
  BY <1>21
  DEF MQTT_readPacket
<1>22. CASE ReadShort
  BY <1>22
  DEF ReadShort
<1>23. CASE HandleConnackRefused
  BY <1>23
  DEF HandleConnackRefused, Handles, NoSubscription
<1>24. CASE HandleConnackAccepted
  BY <1>24
  DEF HandleConnackAccepted, Handles, NoSubscription, Mqtt_SubLoginTopic, SendResult, Mqtt_subscribe, Mqtt_ping
<1>25. CASE HandleSuback
  BY <1>25
  DEF HandleSuback, Handles, NoSubscription, Mqtt_SubLoginTopic, SendResult, Mqtt_subscribe, Mqtt_ping
<1>26. CASE HandleOther
  BY <1>26
  DEF HandleOther, Handles, NoSubscription
<1>27. CASE HbCount
  BY <1>27
  DEF HbCount, HbPing, HbLose, HbDue, Mqtt_ping, SendResult
<1>28. CASE HbClose
  BY <1>28
  DEF HbClose, FreshConn
<1>29. CASE ClockTick
  BY <1>29
  DEF ClockTick, Older
<1>30. CASE ModifyLocalTime
  BY <1>30
  DEF ModifyLocalTime
<1>31. CASE MCU_SendPublishPacket
  BY <1>31
  DEF MCU_SendPublishPacket
<1>32. CASE Reboot
  BY <1>32
  DEF Reboot, BootStatus, BootDidLen, FreshConn
<1>33. CASE Deliver
  BY <1>33
  DEF Deliver
<1>34. CASE Break
  BY <1>34
  DEF Break
<1>35. CASE BrokerPublish
  BY <1>35
  DEF BrokerPublish
<1>36. CASE Stabilise
  BY <1>36
  DEF Stabilise
<1>37. CASE UNCHANGED vars
  BY <1>37 DEF vars
<1> QED
  BY <1>1, <1>2, <1>3, <1>4, <1>5, <1>6, <1>7, <1>8, <1>9, <1>10, <1>11,
     <1>12, <1>13, <1>14, <1>15, <1>16, <1>17, <1>18, <1>19, <1>20, <1>21,
     <1>22, <1>23, <1>24, <1>25, <1>26, <1>27, <1>28, <1>29, <1>30, <1>31,
     <1>32, <1>33, <1>34, <1>35, <1>36, <1>37
  DEF Next, CloudThread, OtherTasks, Network

\* Each step keeps the counters of the heart beat in range.
LEMMA SilenceInvStep ==
    TypeOK /\ SilenceInv /\ [Next]_vars => SilenceInv'
<1> SUFFICES ASSUME TypeOK, SilenceInv, [Next]_vars PROVE SilenceInv'
  OBVIOUS
<1> USE CloudConstants
    DEF TypeOK, SilenceInv, HbRange, Silence,
        NoMqttChange, NoHttpChange, Polls, GAGENT_DID_LEN, cloudVars, linkVars,
        envVars, conn
<1>1. CASE ReqDid
  BY <1>1
  DEF ReqDid
<1>2. CASE Mqtt_Register2Server
  BY <1>2
  DEF Mqtt_Register2Server, HttpInitFails, HttpSent
<1>3. CASE ReqDidAckTimeout
  BY <1>3
  DEF ReqDidAckTimeout
<1>4. CASE ReqDidAck
  BY <1>4
  DEF ReqDidAck
<1>5. CASE Http_Recive_Did
  BY <1>5
  DEF Http_Recive_Did, HttpSilent
<1>6. CASE SaveDid
  BY <1>6
  DEF SaveDid
<1>7. CASE ReqM2mInfo
  BY <1>7
  DEF ReqM2mInfo
<1>8. CASE Http_Sent_Provision
  BY <1>8
  DEF Http_Sent_Provision, HttpInitFails, HttpSent
<1>9. CASE ReqM2mInfoAckTimeout
  BY <1>9
  DEF ReqM2mInfoAckTimeout
<1>10. CASE ReqM2mInfoAck
  BY <1>10
  DEF ReqM2mInfoAck
<1>11. CASE Http_Recive_M2minfo
  BY <1>11
  DEF Http_Recive_M2minfo, HttpSilent
<1>12. CASE ReqLogin
  BY <1>12
  DEF ReqLogin
<1>13. CASE ResolveFails
  BY <1>13
  DEF ResolveFails
<1>14. CASE CloseOldSocket
  BY <1>14
  DEF CloseOldSocket, FreshConn
<1>15. CASE ConnectFails
  BY <1>15
  DEF ConnectFails
<1>16. CASE Connect
  BY <1>16
  DEF Connect, FreshConn
<1>17. CASE SendConnect
  BY <1>17
  DEF SendConnect, SendResult
<1>18. CASE EnterRunning
  BY <1>18
  DEF EnterRunning
<1>19. CASE EnterLogin
  BY <1>19
  DEF EnterLogin
<1>20. CASE RunningTimeout
  BY <1>20
  DEF RunningTimeout
<1>21. CASE MQTT_readPacket
  BY <1>21
  DEF MQTT_readPacket
<1>22. CASE ReadShort
  BY <1>22
  DEF ReadShort
<1>23. CASE HandleConnackRefused
  BY <1>23
  DEF HandleConnackRefused, Handles, NoSubscription
<1>24. CASE HandleConnackAccepted
  BY <1>24
  DEF HandleConnackAccepted, Handles, NoSubscription, Mqtt_SubLoginTopic, SendResult, Mqtt_subscribe, Mqtt_ping
<1>25. CASE HandleSuback
  BY <1>25
  DEF HandleSuback, Handles, NoSubscription, Mqtt_SubLoginTopic, SendResult, Mqtt_subscribe, Mqtt_ping
<1>26. CASE HandleOther
  BY <1>26
  DEF HandleOther, Handles, NoSubscription
<1>27. CASE HbCount
  <2>1. /\ pingTime' = HbPing /\ loseTime' = HbLose /\ ~HbDead
        /\ silence' = silence + 1 /\ UNCHANGED socketid
    BY <1>27 DEF HbCount
  <2>2. HbRange'
    BY <2>1 DEF HbDead, HbPing, HbLose, HbDue
  <2>3. Silence'
    <3>1. CASE HbDue
      <4>1. pingTime + 1 = CLOUD_HB_TIMEOUT_ONESHOT
        BY <3>1 DEF HbDue
      <4>2. /\ loseTime' = loseTime + 1 /\ pingTime' = 0
        BY <2>1, <3>1 DEF HbPing, HbLose
      <4>3. (loseTime + 1) * CLOUD_HB_TIMEOUT_ONESHOT =
              loseTime * CLOUD_HB_TIMEOUT_ONESHOT + pingTime + 1
        BY <4>1
      <4> QED
        BY <2>1, <4>2, <4>3
    <3>2. CASE ~HbDue
      BY <2>1, <3>2 DEF HbPing, HbLose
    <3> QED
      BY <3>1, <3>2
  <2> QED
    BY <2>2, <2>3
<1>28. CASE HbClose
  BY <1>28
  DEF HbClose, FreshConn
<1>29. CASE ClockTick
  BY <1>29
  DEF ClockTick, Older
<1>30. CASE ModifyLocalTime
  BY <1>30
  DEF ModifyLocalTime
<1>31. CASE MCU_SendPublishPacket
  BY <1>31
  DEF MCU_SendPublishPacket
<1>32. CASE Reboot
  BY <1>32
  DEF Reboot, BootStatus, BootDidLen, FreshConn
<1>33. CASE Deliver
  BY <1>33
  DEF Deliver
<1>34. CASE Break
  BY <1>34
  DEF Break
<1>35. CASE BrokerPublish
  BY <1>35
  DEF BrokerPublish
<1>36. CASE Stabilise
  BY <1>36
  DEF Stabilise
<1>37. CASE UNCHANGED vars
  BY <1>37 DEF vars
<1> QED
  BY <1>1, <1>2, <1>3, <1>4, <1>5, <1>6, <1>7, <1>8, <1>9, <1>10, <1>11,
     <1>12, <1>13, <1>14, <1>15, <1>16, <1>17, <1>18, <1>19, <1>20, <1>21,
     <1>22, <1>23, <1>24, <1>25, <1>26, <1>27, <1>28, <1>29, <1>30, <1>31,
     <1>32, <1>33, <1>34, <1>35, <1>36, <1>37
  DEF Next, CloudThread, OtherTasks, Network

\* Multiplication is monotonic.
LEMMA TimesMonotonic ==
    ASSUME NEW a \in Nat, NEW b \in Nat, NEW c \in Nat, a <= b
    PROVE  a * c <= b * c
<1>1. PICK d \in Nat : b = a + d
  BY b - a \in Nat
<1>2. b * c = a * c + d * c /\ d * c \in Nat /\ a * c \in Nat
  BY <1>1
<1> QED
  BY <1>2
-----------------------------------------------------------------------------
(* The subscriptions. *)

\* The cloud thread serves an open connection.
Serving == conCloud = "RUNNING" /\ socketid # -1 /\ pc # "enterLogin"

\* It has one, or is about to have one, and has not yet read from it.
Connecting == pc \in {"connect", "sendConnect", "enterRunning", "enterLogin"}

\* The topic whose SUBACK takes the login one step further.
WaitsFor == CASE mqttStatus = "TOPIC1" -> 1
              [] mqttStatus = "TOPIC2" -> 2
              [] OTHER -> 3

\* What a packet of the broker says is true of this connection: a CONNACK
\* with code 0 is from a session that was accepted, and a SUBACK with the id
\* of the last SUBSCRIBE confirms the topic g_MQTTStatus waits for.
Sound(p) ==
    /\ p.type = "CONNACK" /\ p.n = 0 => session = "accepted"
    /\ p.type = "SUBACK" =>
         /\ p.topic # 0
         /\ ~Connecting
         /\ Serving => /\ mqttStatus \notin {"START", "LOGIN"}
                       /\ p.n < seq
                       /\ p.n = msgsubId => p.topic = WaitsFor

\* The packet being handled is sound, and its SUBACK has been counted.
SoundPkt == Serving /\ pc = "handle" =>
              Sound(pkt) /\ (pkt.type = "SUBACK" => pkt.topic \in acked)

\* g_MQTTStatus never runs ahead of what the broker has confirmed.
Confirmed ==
    Serving =>
      /\ mqttStatus \in {"TOPIC1", "TOPIC2", "TOPIC3", "RUNNING"}
           => session = "accepted"
      /\ mqttStatus \in {"TOPIC2", "TOPIC3", "RUNNING"} => 1 \in acked
      /\ mqttStatus \in {"TOPIC3", "RUNNING"} => 2 \in acked
      /\ mqttStatus = "RUNNING" => 3 \in acked

SubscriptionInv ==
    /\ 0 \notin acked
    /\ \A i \in 1..Len(down) : Sound(down[i])
    /\ SoundPkt
    /\ Confirmed

Harmless(p) == p.type \notin {"CONNACK", "SUBACK"}

\* A step that leaves the session alone, and brings nothing but packets that
\* say nothing about it, keeps the invariant.
LEMMA QuietStep ==
    ASSUME SubscriptionInv,
           UNCHANGED <<session, acked>>,
           \A i \in 1..Len(down') :
             \/ \E j \in 1..Len(down) : down'[i] = down[j]
             \/ Harmless(down'[i]),
           Connecting' => Connecting,
           Serving' => /\ Serving
                       /\ UNCHANGED <<mqttStatus, seq, msgsubId>>
                       /\ pc' = "handle" => pc = "handle" /\ pkt' = pkt
    PROVE  SubscriptionInv'
<1>1. ASSUME NEW p, Sound(p)
      PROVE  Sound(p)'
  BY <1>1 DEF Sound, WaitsFor
<1>2. ASSUME NEW i \in 1..Len(down')
      PROVE  Sound(down[i])'
  <2>1. CASE \E j \in 1..Len(down) : down'[i] = down[j]
    BY <1>1, <2>1 DEF SubscriptionInv, Sound
  <2>2. CASE Harmless(down'[i])
    BY <2>2 DEF Harmless, Sound
  <2> QED
    BY <1>2, <2>1, <2>2
<1>3. SoundPkt'
  BY DEF SubscriptionInv, SoundPkt, Sound, WaitsFor
<1>4. Confirmed'
  BY DEF SubscriptionInv, Confirmed
<1> QED
  BY <1>2, <1>3, <1>4 DEF SubscriptionInv

\* So does a step that drops the connection or opens a new one.
LEMMA FreshStep ==
    ASSUME down' = <<>>, acked' = {}, ~Serving'
    PROVE  SubscriptionInv'
BY DEF SubscriptionInv, SoundPkt, Confirmed

\* Packets added at the end of the queue, or left of it.
LEMMA AnswerElements ==
    ASSUME TypeOK, NEW p \in Packet, NEW ok \in BOOLEAN
    PROVE  \A i \in 1..Len(Answer(ok, p)) :
             \/ \E j \in 1..Len(down) : Answer(ok, p)[i] = down[j]
             \/ Answer(ok, p)[i] = p
BY DEF Answer, TypeOK

\* A ping brings nothing that could be taken for a CONNACK or a SUBACK.
LEMMA PingElements ==
    ASSUME TypeOK, \E ok \in SendResult : Mqtt_ping(ok)
    PROVE  \A i \in 1..Len(down') :
             \/ \E j \in 1..Len(down) : down'[i] = down[j]
             \/ Harmless(down'[i])
<1>1. PICK ok \in BOOLEAN : Mqtt_ping(ok)
  BY DEF SendResult
<1>2. Pkt("PINGRESP", 0, 0) \in Packet
  BY PktType
<1>3. Harmless(Pkt("PINGRESP", 0, 0))
  BY DEF Harmless, Pkt
<1> QED
  BY <1>1, <1>2, <1>3, AnswerElements DEF Mqtt_ping

\* The broker confirmed the topic g_MQTTStatus waited for, or accepted the
\* session: the next SUBSCRIBE, or the end of the login, keeps the invariant.
\* A SUBSCRIBE that was not sent takes an id all the same, so that no SUBACK
\* still on its way can be mistaken for its answer.
LEMMA SubscribeStep ==
    ASSUME TypeOK, SubscriptionInv, Mqtt_SubLoginTopic,
           UNCHANGED <<session, acked, conCloud, socketid>>,
           pc = "handle", pc' = "idle",
           Serving => /\ session = "accepted"
                      /\ mqttStatus = "LOGIN" \/ WaitsFor \in acked
    PROVE  SubscriptionInv'
<1>1. ASSUME NEW topic \in 1..3, NEW ok \in SendResult, NEW next,
             Mqtt_subscribe(topic, ok),
             mqttStatus' = IF ok THEN next ELSE mqttStatus,
             \/ mqttStatus = "LOGIN" /\ topic = 1 /\ next = "TOPIC1"
             \/ mqttStatus = "TOPIC1" /\ topic = 2 /\ next = "TOPIC2"
             \/ mqttStatus = "TOPIC2" /\ topic = 3 /\ next = "TOPIC3"
      PROVE  SubscriptionInv'
  <2> DEFINE p == Pkt("SUBACK", seq, topic)
  <2>1. ok \in BOOLEAN /\ p \in Packet
    <3>1. ok \in BOOLEAN
      BY DEF SendResult
    <3> QED
      BY <3>1, PktType DEF TypeOK
  <2>2. msgsubId' = seq /\ seq' = seq + 1 /\ down' = Answer(ok, p) /\ seq \in Nat
    BY <1>1 DEF Mqtt_subscribe, TypeOK
  <2>3. ~Connecting' /\ Serving' = Serving
    BY DEF Connecting, Serving
  <2>4. Confirmed'
    BY <1>1, <2>1, <2>3 DEF SubscriptionInv, Confirmed, WaitsFor
  <2>5. ASSUME NEW i \in 1..Len(down')
        PROVE  Sound(down[i])'
    <3>1. CASE \E j \in 1..Len(down) : down'[i] = down[j]
      <4>1. PICK j \in 1..Len(down) : down'[i] = down[j]
        BY <3>1
      <4>2. Sound(down[j]) /\ down[j] \in Packet
        BY DEF SubscriptionInv, TypeOK
      <4>3. down[j].n \in Nat
        BY <4>2 DEF Packet
      <4> QED
        BY <1>1, <2>1, <2>2, <2>3, <4>1, <4>2, <4>3 DEF Sound
    <3>2. CASE down'[i] = p /\ down' # down
      <4>1. ok
        BY <2>2, <3>2 DEF Answer
      <4>2. p.type = "SUBACK" /\ p.n = seq /\ p.topic = topic
        BY DEF Pkt
      <4>3. mqttStatus' = next /\ topic # 0
        BY <1>1, <4>1
      <4>4. WaitsFor' = topic /\ mqttStatus' \notin {"START", "LOGIN"}
        BY <1>1, <4>3 DEF WaitsFor
      <4> QED
        BY <2>2, <2>3, <3>2, <4>2, <4>3, <4>4 DEF Sound
    <3>3. \/ \E j \in 1..Len(down) : down'[i] = down[j]
          \/ down'[i] = p /\ down' # down
      BY <2>1, <2>2, <2>5, AnswerElements
    <3> QED
      BY <3>1, <3>2, <3>3
  <2>6. SoundPkt'
    BY DEF SoundPkt
  <2> QED
    BY <2>4, <2>5, <2>6 DEF SubscriptionInv
<1>2. ASSUME mqttStatus = "TOPIC3", mqttStatus' = "RUNNING",
             \E ok \in SendResult : Mqtt_ping(ok),
             UNCHANGED <<seq, msgsubId>>
      PROVE  SubscriptionInv'
  <2>1. ~Connecting' /\ Serving' = Serving
    BY DEF Connecting, Serving
  <2>2. Confirmed'
    BY <1>2, <2>1 DEF SubscriptionInv, Confirmed, WaitsFor
  <2>3. ASSUME NEW i \in 1..Len(down')
        PROVE  Sound(down[i])'
    <3>1. CASE \E j \in 1..Len(down) : down'[i] = down[j]
      BY <1>2, <2>1, <3>1 DEF SubscriptionInv, Sound, WaitsFor
    <3>2. CASE Harmless(down'[i])
      BY <3>2 DEF Sound, Harmless
    <3> QED
      BY <1>2, <2>3, <3>1, <3>2, PingElements
  <2>4. SoundPkt'
    BY DEF SoundPkt
  <2> QED
    BY <2>2, <2>3, <2>4 DEF SubscriptionInv
<1>3. ASSUME UNCHANGED <<mqttStatus, seq, msgsubId, down>>
      PROVE  SubscriptionInv'
  BY <1>3, QuietStep DEF Connecting, Serving
<1> QED
  BY <1>1, <1>2, <1>3 DEF Mqtt_SubLoginTopic

\* Each step keeps what the broker has confirmed ahead of g_MQTTStatus.
LEMMA SubscriptionStep ==
    TypeOK /\ PcOfRunning /\ NewSession /\ SubscriptionInv /\ [Next]_vars
        => SubscriptionInv'
<1> SUFFICES ASSUME TypeOK, PcOfRunning, NewSession, SubscriptionInv, [Next]_vars
             PROVE  SubscriptionInv'
  OBVIOUS
<1> DEFINE Frame == /\ UNCHANGED <<session, acked>>
                    /\ Connecting' => Connecting
                    /\ Serving' =>
                         /\ Serving
                         /\ UNCHANGED <<mqttStatus, seq, msgsubId>>
                         /\ pc' = "handle" => pc = "handle" /\ pkt' = pkt
           Same == Frame /\ UNCHANGED down
<1>same. ASSUME Same PROVE SubscriptionInv'
  BY <1>same, QuietStep
<1>1. CASE \/ ReqDid \/ Mqtt_Register2Server \/ ReqDidAckTimeout \/ ReqDidAck
           \/ Http_Recive_Did \/ SaveDid
           \/ ReqM2mInfo \/ Http_Sent_Provision \/ ReqM2mInfoAckTimeout
           \/ ReqM2mInfoAck \/ Http_Recive_M2minfo
  <2>1. ~Serving' /\ ~Connecting' /\ UNCHANGED <<session, acked, down>>
    BY <1>1
    DEF ReqDid, Mqtt_Register2Server, ReqDidAckTimeout, ReqDidAck,
        Http_Recive_Did, SaveDid, ReqM2mInfo, Http_Sent_Provision,
        ReqM2mInfoAckTimeout, ReqM2mInfoAck, Http_Recive_M2minfo, Polls,
        linkVars, conn, PcOfRunning, Serving, Connecting
  <2> QED
    BY <2>1, <1>same
<1>2. CASE ReqLogin \/ ResolveFails \/ ConnectFails \/ EnterRunning
  <2>1. ~Serving' /\ (Connecting' => Connecting) /\ UNCHANGED <<session, acked, down>>
    BY <1>2
    DEF ReqLogin, ResolveFails, ConnectFails, EnterRunning, Polls, linkVars,
        conn, PcOfRunning, Serving, Connecting
  <2> QED
    BY <2>1, <1>same
<1>3. CASE CloseOldSocket \/ Connect \/ HbClose \/ Reboot
  <2>1. down' = <<>> /\ acked' = {} /\ ~Serving'
    BY <1>3
    DEF CloseOldSocket, Connect, HbClose, Reboot, FreshConn, PcOfRunning, Serving
  <2> QED
    BY <2>1, FreshStep
<1>4. CASE SendConnect
  <2>1. PICK ok \in SendResult, code \in {0, 1} :
          /\ IF ok /\ link = "up"
             THEN session' = IF code = 0 THEN "accepted" ELSE "refused"
             ELSE UNCHANGED session
          /\ down' = Answer(ok, Pkt("CONNACK", code, 0))
    BY <1>4 DEF SendConnect
  <2> DEFINE p == Pkt("CONNACK", code, 0)
  <2>2. ok \in BOOLEAN /\ p \in Packet
    <3>1. ok \in BOOLEAN
      BY DEF SendResult
    <3> QED
      BY <3>1, PktType
  <2>3. ~Serving' /\ pc = "sendConnect" /\ session = "new" /\ UNCHANGED acked
    BY <1>4 DEF SendConnect, PcOfRunning, Serving, NewSession
  <2>4. ASSUME NEW i \in 1..Len(down')
        PROVE  Sound(down[i])'
    <3>1. CASE \E j \in 1..Len(down) : down'[i] = down[j]
      BY <2>3, <3>1 DEF SubscriptionInv, Sound, Connecting
    <3>2. CASE down'[i] = p /\ down' # down
      <4>1. p.type = "CONNACK" /\ p.n = code
        BY DEF Pkt
      <4>2. code = 0 => session' = "accepted"
        BY <2>1, <3>2 DEF Answer
      <4> QED
        BY <3>2, <4>1, <4>2 DEF Sound
    <3>3. \/ \E j \in 1..Len(down) : down'[i] = down[j]
          \/ down'[i] = p /\ down' # down
      BY <2>1, <2>2, <2>4, AnswerElements
    <3> QED
      BY <3>1, <3>2, <3>3
  <2> QED
    BY <2>3, <2>4 DEF SubscriptionInv, SoundPkt, Confirmed
<1>5. CASE EnterLogin
  <2>1. /\ pc = "enterLogin" /\ pc' = "idle" /\ mqttStatus' = "LOGIN"
        /\ UNCHANGED <<session, acked, down>>
    BY <1>5 DEF EnterLogin, linkVars, conn
  <2>2. ASSUME NEW i \in 1..Len(down')
        PROVE  Sound(down[i])'
    BY <2>1, <2>2 DEF SubscriptionInv, Sound, Connecting
  <2> QED
    BY <2>1, <2>2 DEF SubscriptionInv, SoundPkt, Confirmed
<1>6. CASE RunningTimeout
  BY <1>6, <1>same
  DEF RunningTimeout, NoMqttChange, Polls, linkVars, conn, Serving, Connecting
<1>7. CASE MQTT_readPacket
  <2>1. PICK n \in 1..arrived :
          /\ pkt' = Head(down)
          /\ down' = SubSeq(down, n + 1, Len(down))
          /\ acked' = IF Head(down).type = "SUBACK"
                      THEN acked \union {Head(down).topic} ELSE acked
    BY <1>7 DEF MQTT_readPacket
  <2>2. /\ Serving /\ Serving' /\ ~Connecting'
        /\ UNCHANGED <<session, mqttStatus, seq, msgsubId>>
    BY <1>7 DEF MQTT_readPacket, Polls, Serving, Connecting
  <2>3. Head(down) = down[1] /\ 1 \in 1..Len(down)
    BY <2>1 DEF TypeOK
  <2>4. ASSUME NEW q, Sound(q) PROVE Sound(q)'
    BY <2>2, <2>4 DEF Sound, WaitsFor
  <2>5. Sound(Head(down))
    BY <2>3 DEF SubscriptionInv
  <2>6. 0 \notin acked'
    BY <2>1, <2>5 DEF SubscriptionInv, Sound
  <2>7. \A i \in 1..Len(down') : Sound(down[i])'
    <3> SUFFICES ASSUME NEW i \in 1..Len(down') PROVE Sound(down[i])'
      OBVIOUS
    <3>1. /\ n \in Nat /\ n + 1 \in 1..(Len(down) + 1) /\ Len(down) \in Nat
          /\ down \in Seq(Packet)
      BY <2>1 DEF TypeOK
    <3>2. Len(down') = Len(down) - n
      BY <2>1, <3>1
    <3>3. i + n \in 1..Len(down) /\ i \in 1..(Len(down) - n)
      BY <3>1, <3>2
    <3>4. down'[i] = down[i + n]
      <4>1. SubSeq(down, n + 1, Len(down))[i] = down[i + (n + 1) - 1]
        BY <3>1, <3>3
      <4>2. i + (n + 1) - 1 = i + n
        BY <3>1
      <4> QED
        BY <2>1, <4>1, <4>2
    <3> QED
      BY <2>4, <3>3, <3>4 DEF SubscriptionInv, Sound
  <2>8. SoundPkt'
    BY <2>1, <2>4, <2>5 DEF SoundPkt, Sound
  <2>9. Confirmed'
    BY <2>1, <2>2 DEF SubscriptionInv, Confirmed
  <2> QED
    BY <2>6, <2>7, <2>8, <2>9 DEF SubscriptionInv
<1>8. CASE ReadShort
  <2>1. Frame
    BY <1>8 DEF ReadShort, NoMqttChange, conn, Serving, Connecting
  <2>2. ASSUME NEW i \in 1..Len(down')
        PROVE  (\E j \in 1..Len(down) : down'[i] = down[j]) \/ Harmless(down'[i])
    <3> DEFINE o == Pkt("OTHER", 0, 0)
    <3>1. o \in Packet
      BY PktType
    <3>2. Harmless(o)
      BY DEF Harmless, Pkt
    <3>3. down' = <<o>> \o Tail(down) /\ down # <<>>
      BY <1>8 DEF ReadShort, TypeOK
    <3> HIDE DEF o
    <3>4. CASE i = 1
      BY <3>1, <3>2, <3>3, <3>4 DEF TypeOK
    <3>5. CASE i # 1
      BY <2>2, <3>1, <3>3, <3>5 DEF TypeOK
    <3> QED
      BY <3>4, <3>5
  <2> QED
    BY <2>1, <2>2, QuietStep
<1>9. CASE HandleConnackRefused \/ HandleOther
  BY <1>9, <1>same
  DEF HandleConnackRefused, HandleOther, Handles, NoSubscription, conn, Serving,
      Connecting, PcOfRunning
<1>10. CASE HandleConnackAccepted
  <2>1. /\ pc = "handle" /\ pc' = "idle" /\ pkt.type = "CONNACK" /\ pkt.n = 0
        /\ UNCHANGED <<session, acked, conCloud, socketid>>
    BY <1>10 DEF HandleConnackAccepted, Handles, conn
  <2>2. CASE mqttStatus = "LOGIN"
    <3>1. Serving => session = "accepted"
      BY <2>1 DEF SubscriptionInv, SoundPkt, Sound
    <3> QED
      BY <1>10, <2>1, <2>2, <3>1, SubscribeStep DEF HandleConnackAccepted
  <2>3. CASE mqttStatus # "LOGIN"
    BY <1>10, <2>1, <2>3, <1>same
    DEF HandleConnackAccepted, NoSubscription, Serving, Connecting
  <2> QED
    BY <2>2, <2>3
<1>11. CASE HandleSuback
  <2>1. /\ pc = "handle" /\ pc' = "idle" /\ pkt.type = "SUBACK"
        /\ UNCHANGED <<session, acked, conCloud, socketid>>
    BY <1>11 DEF HandleSuback, Handles, conn
  <2>2. CASE pkt.n = msgsubId
    <3>1. Serving => /\ mqttStatus \notin {"START", "LOGIN"}
                     /\ pkt.topic = WaitsFor /\ pkt.topic \in acked
      BY <2>1, <2>2 DEF SubscriptionInv, SoundPkt, Sound
    <3>2. Serving => session = "accepted"
      BY <3>1 DEF SubscriptionInv, Confirmed, TypeOK, MqttStatus
    <3> QED
      BY <1>11, <2>1, <2>2, <3>1, <3>2, SubscribeStep DEF HandleSuback
  <2>3. CASE pkt.n # msgsubId
    BY <1>11, <2>1, <2>3, <1>same
    DEF HandleSuback, NoSubscription, Serving, Connecting
  <2> QED
    BY <2>2, <2>3
<1>12. CASE HbCount
  <2>1. Frame
    BY <1>12 DEF HbCount, cloudVars, conn, Serving, Connecting
  <2>2. CASE HbDue
    BY <1>12, <2>1, <2>2, PingElements, QuietStep DEF HbCount
  <2>3. CASE ~HbDue
    BY <1>12, <2>1, <2>3, <1>same DEF HbCount
  <2> QED
    BY <2>2, <2>3
<1>13. CASE \/ ClockTick \/ ModifyLocalTime \/ MCU_SendPublishPacket
            \/ Deliver \/ Stabilise
  BY <1>13, <1>same
  DEF ClockTick, ModifyLocalTime, MCU_SendPublishPacket, Deliver, Stabilise,
      cloudVars, linkVars, conn, Serving, Connecting
<1>14. CASE Break
  <2>1. Frame
    BY <1>14 DEF Break, cloudVars, Serving, Connecting
  <2>2. \A i \in 1..Len(down') : i \in 1..Len(down) /\ down'[i] = down[i]
    <3> HIDE DEF Frame, Same
    <3>1. down' = SubSeq(down, 1, arrived)
      BY <1>14 DEF Break
    <3>2. down \in Seq(Packet) /\ arrived \in 0..Len(down)
      BY DEF TypeOK
    <3> QED
      BY ONLY <3>1, <3>2, SMT
  <2> QED
    BY <2>1, <2>2, QuietStep
<1>15. CASE BrokerPublish
  <2>1. Frame
    BY <1>15 DEF BrokerPublish, cloudVars, conn, Serving, Connecting
  <2> DEFINE p == Pkt("PUBLISH", 0, 0)
  <2>2. p \in Packet
    BY PktType
  <2>3. Harmless(p)
    BY DEF Harmless, Pkt
  <2>4. down' = Append(down, p)
    BY <1>15 DEF BrokerPublish
  <2> HIDE DEF p
  <2>5. \A i \in 1..Len(down') : down'[i] = p \/ (i \in 1..Len(down) /\ down'[i] = down[i])
    BY <2>2, <2>4 DEF TypeOK
  <2> QED
    BY <2>1, <2>3, <2>5, QuietStep
<1>16. CASE UNCHANGED vars
  BY <1>16, <1>same DEF vars, cloudVars, linkVars, conn, Serving, Connecting
<1> QED
  BY <1>1, <1>2, <1>3, <1>4, <1>5, <1>6, <1>7, <1>8, <1>9, <1>10, <1>11,
     <1>12, <1>13, <1>14, <1>15, <1>16
  DEF Next, CloudThread, OtherTasks, Network
-----------------------------------------------------------------------------
(* The theorems. *)

\* No task asks for an MQTT login, and no MQTT socket exists, before the
\* DID is in flash and the M2M server known (gagent_login_cloud.c), although
\* the heart-beat timer may force REQ_LOGIN at any time.
THEOREM IdentityTheorem == Spec => []IdentityBeforeLogin
<1>1. Init => LoginInv
  BY CloudConstants
  DEF Init, BootStatus, BootDidLen, LoginInv, PcOfRunning, HasDid, HasM2m,
      NewDid, DeadSocketIsTimed, GAGENT_DID_LEN
<1>2. LoginInv => IdentityBeforeLogin
  BY DEF LoginInv, HasDid, HasM2m, IdentityBeforeLogin
<1> QED
  BY <1>1, <1>2, TypeCorrect, LoginInvStep, PTL DEF Spec

\* RUNNING without a socket is always under the connect timeout: no
\* interleaving of HbClose with the login leaves the cloud thread in RUNNING
\* with nothing that could get it out.
THEOREM DeadSocketTheorem == Spec => []DeadSocketIsTimed
<1>1. Init => LoginInv
  BY CloudConstants
  DEF Init, BootStatus, BootDidLen, LoginInv, PcOfRunning, HasDid, HasM2m,
      NewDid, DeadSocketIsTimed, GAGENT_DID_LEN
<1>2. LoginInv => DeadSocketIsTimed
  BY DEF LoginInv
<1> QED
  BY <1>1, <1>2, TypeCorrect, LoginInvStep, PTL DEF Spec

\* An accepted session always runs under the DID in flash, so that a reset
\* at any moment keeps the identity the users are bound to.
THEOREM SessionDidTheorem == Spec => []SessionDidIsStored
<1>1. Init => LoginInv /\ SessionInv
  BY CloudConstants
  DEF Init, BootStatus, BootDidLen, LoginInv, PcOfRunning, HasDid, HasM2m,
      NewDid, DeadSocketIsTimed, GAGENT_DID_LEN, SessionInv, RamDid,
      NewSession, SessionDid, RealDid
<1>2. LoginInv => PcOfRunning
  BY DEF LoginInv
<1>3. PcOfRunning /\ SessionInv => SessionDidIsStored
  BY DEF PcOfRunning, SessionInv, RamDid, SessionDid, RealDid,
         SessionDidIsStored
<1> QED
  BY <1>1, <1>2, <1>3, TypeCorrect, LoginInvStep, SessionInvStep, PTL
  DEF Spec

\* When the device takes the session for running and carries out commands,
\* the broker has accepted this very connection and confirmed all three
\* topics on it (MQTT_handlePacket, Mqtt_SubLoginTopic), whatever packets
\* were lost, cut or joined, and whatever SUBSCRIBE was not sent.
THEOREM SubscribedTheorem == Spec => []RunningIsSubscribed
<1>1. Init => LoginInv /\ SessionInv /\ SubscriptionInv
  <2>1. Init => LoginInv /\ SessionInv
    BY CloudConstants
    DEF Init, BootStatus, BootDidLen, LoginInv, PcOfRunning, HasDid, HasM2m,
        NewDid, DeadSocketIsTimed, GAGENT_DID_LEN, SessionInv, RamDid,
        NewSession, SessionDid, RealDid
  <2>2. Init => SubscriptionInv
    BY DEF Init, SubscriptionInv, SoundPkt, Confirmed, Serving
  <2> QED
    BY <2>1, <2>2
<1>2. LoginInv => PcOfRunning
  BY DEF LoginInv
<1>3. SessionInv => NewSession
  BY DEF SessionInv
<1>4. TypeOK /\ SubscriptionInv => RunningIsSubscribed
  <2> SUFFICES ASSUME TypeOK, SubscriptionInv, Serving, mqttStatus = "RUNNING"
               PROVE  session = "accepted" /\ acked = 1..3
    BY DEF RunningIsSubscribed, Serving, Topics
  <2>1. session = "accepted" /\ {1, 2, 3} \subseteq acked /\ 0 \notin acked
    BY DEF SubscriptionInv, Confirmed
  <2>2. \A k \in acked : k \in 1..3
    BY <2>1 DEF TypeOK
  <2>3. \A k \in 1..3 : k \in acked
    BY <2>1
  <2> QED
    BY <2>1, <2>2, <2>3
<1> QED
  BY <1>1, <1>2, <1>3, <1>4, TypeCorrect, LoginInvStep, SessionInvStep,
     SubscriptionStep, PTL DEF Spec

\* A silent connection is given up in time whatever the interleaving of the
\* timer's counting with the resets by the cloud thread.
THEOREM SilenceTheorem == Spec => []SilenceIsBounded
<1>1. Init => SilenceInv
  BY CloudConstants DEF Init, SilenceInv, HbRange, Silence
<1>2. TypeOK /\ SilenceInv => SilenceIsBounded
  <2> SUFFICES ASSUME TypeOK, SilenceInv, socketid # -1
               PROVE  /\ silence <= loseTime * CLOUD_HB_TIMEOUT_ONESHOT + pingTime
                      /\ silence < CLOUD_HB_TIMEOUT_CNT_MAX
                                     * CLOUD_HB_TIMEOUT_ONESHOT
                                   + CLOUD_HB_TIMEOUT_REDUNDANCE
    BY DEF SilenceIsBounded
  <2> DEFINE one == CLOUD_HB_TIMEOUT_ONESHOT
             max == CLOUD_HB_TIMEOUT_CNT_MAX
  <2>1. silence <= loseTime * one + pingTime
    BY DEF SilenceInv, Silence
  <2>2. /\ one \in Nat /\ max \in Nat \ {0} /\ loseTime \in Nat
        /\ pingTime \in Nat /\ silence \in Nat
        /\ CLOUD_HB_TIMEOUT_REDUNDANCE \in Nat
    BY CloudConstants DEF TypeOK
  <2>3. CASE loseTime < max
    <3>1. (loseTime + 1) * one <= max * one
      BY <2>2, <2>3, TimesMonotonic
    <3>2. (loseTime + 1) * one = loseTime * one + one
      BY <2>2
    <3>3. pingTime < one
      BY DEF SilenceInv, HbRange
    <3> HIDE DEF one, max
    <3>4. loseTime * one \in Nat /\ max * one \in Nat
      BY <2>2
    <3>5. silence < max * one + CLOUD_HB_TIMEOUT_REDUNDANCE
      BY <2>1, <2>2, <3>1, <3>2, <3>3, <3>4
    <3> QED
      BY <2>1, <3>5 DEF one, max
  <2>4. CASE ~(loseTime < max)
    <3>1. loseTime = max /\ pingTime < CLOUD_HB_TIMEOUT_REDUNDANCE
      BY <2>4 DEF SilenceInv, HbRange
    <3> QED
      BY <2>1, <2>2, <3>1
  <2> QED
    BY <2>3, <2>4
<1> QED
  BY <1>1, <1>2, TypeCorrect, SilenceInvStep, PTL DEF Spec
=============================================================================
