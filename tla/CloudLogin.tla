----------------------------- MODULE CloudLogin -----------------------------
(***************************************************************************)
(* How the socket gets and keeps its cloud connection:                     *)
(*   - TcpCloudThread polls GAgent_Login_Cloud: register over HTTP         *)
(*     (REQ_DID), ask for the M2M server (REQ_M2MINFO), connect and log in *)
(*     over MQTT (REQ_LOGIN), then serve MQTT packets (RUNNING);           *)
(*   - the main task runs Cloud_Mqtt_HB_Timer once a second and may close  *)
(*     the MQTT socket and force REQ_LOGIN under the cloud thread's feet;  *)
(*   - other tasks publish on the MQTT socket; NTPThread sets the clock;   *)
(*     the chip may be reset at any time.                                  *)
(*                                                                         *)
(* The main task has the highest application priority (app_cfg.h), so its  *)
(* timer handler is one step; the cloud thread is preempted at every       *)
(* blocking call and between any two writes of shared state, so each of    *)
(* its handlers is cut there (variable pc).                                *)
(*                                                                         *)
(* Every timestamp of the code is used only in "now - then >= limit" on    *)
(* unsigned seconds, so it is kept as an age that saturates at the limit.  *)
(***************************************************************************)
EXTENDS Integers, Sequences

CONSTANTS
    HTTP_TIMEOUT,               \* seconds to wait for an HTTP reply (60)
    MQTT_CONNECT_TIMEOUT,       \* seconds to wait for the CONNACK (300)
    CLOUD_HB_TIMEOUT_ONESHOT,   \* seconds of silence before a ping (50)
    CLOUD_HB_TIMEOUT_CNT_MAX,   \* pings before giving up (2)
    CLOUD_HB_TIMEOUT_REDUNDANCE,\* seconds to wait after the last ping (20)
    StoredDids,   \* what the flash may hold at the first boot (0: no DID)
    MaxDid,       \* bound: DIDs the cloud hands out are 1..MaxDid
    MaxInFlight,  \* bound: packets on their way from the broker
    MaxJumps,     \* bound: clock changes by NTP
    MaxReboots,   \* bound: chip resets
    Segmented,    \* TRUE: recv may return several packets or part of one,
                  \*       and an HTTP reply may arrive without its body
    SendFails,    \* TRUE: allocating or sending may fail on a live socket
    Refuses       \* TRUE: the broker may refuse a DID it knew before

ASSUME CloudConstants ==
    /\ HTTP_TIMEOUT \in Nat \ {0}
    /\ MQTT_CONNECT_TIMEOUT \in Nat \ {0}
    /\ CLOUD_HB_TIMEOUT_ONESHOT \in Nat \ {0}
    /\ CLOUD_HB_TIMEOUT_CNT_MAX \in Nat \ {0}
    /\ CLOUD_HB_TIMEOUT_REDUNDANCE \in Nat
    /\ CLOUD_HB_TIMEOUT_REDUNDANCE < CLOUD_HB_TIMEOUT_ONESHOT
    /\ MaxDid \in Nat \ {0}
    /\ StoredDids \subseteq 0..MaxDid
    /\ MaxInFlight \in Nat /\ MaxJumps \in Nat /\ MaxReboots \in Nat
    /\ Segmented \in BOOLEAN /\ SendFails \in BOOLEAN
    /\ Refuses \in BOOLEAN

VARIABLES
    conCloud,    \* g_ConCloud_Status
    mqttStatus,  \* g_MQTTStatus
    pc,          \* where TcpCloudThread is inside GAgent_Login_Cloud
    connAge,     \* now - connect2CloudLastTime
    httpAge,     \* now - send2HttpLastTime
    http,        \* http_socketid: "none" (<= 0), or open: "did" or "m2m" is
                 \* the request the server will answer, "lost" if it will not
    did,         \* g_Xpg_GlobalVar.DID in RAM (0: blank)
    didLen,      \* DIdLen: 0 or GAGENT_DID_LEN
    flashDid,    \* Cloud_DId of the configuration saved in flash
    m2m,         \* m2m_SERVER and m2m_Port: "unknown" since the reset,
                 \* "known", or "blank" after an incomplete reply
    socketid,    \* g_stMQTTBroker.socketid: -1, or 1 for an open socket
    seq,         \* g_stMQTTBroker.seq, the next MQTT message id
    msgsubId,    \* g_Msgsub_id, the id of the last SUBSCRIBE
    pkt,         \* g_MQTTBuffer, the packet the cloud thread works on
    pingTime,    \* Gagent_Cloud_status.pingTime
    loseTime,    \* Gagent_Cloud_status.loseTime
    link,        \* the TCP connection behind socketid: "up" or "down"
    session,     \* at the broker: "new" before the CONNECT, then
                 \* "accepted" or "refused"
    connDid,     \* the DID in the CONNECT
    acked,       \* topics whose SUBACK the device has received on it
    down,        \* packets the broker has sent on it, oldest first
    arrived,     \* how many of them wait in the receive buffer
    silence,     \* history: timer ticks since this connection brought data
    net,         \* "flaky", or "good" from some point on
    jumps,       \* clock changes so far
    reboots      \* chip resets so far

cloudVars == <<conCloud, mqttStatus, pc, connAge, httpAge, http, did, didLen,
               flashDid, m2m, socketid, seq, msgsubId, pkt>>
conn      == <<link, session, connDid, acked>>
linkVars  == <<pingTime, loseTime, conn, down, arrived, silence>>
envVars   == <<net, jumps, reboots>>
vars == <<cloudVars, linkVars, envVars>>

Topics == 1..3

ConCloudStatus == {"REQ_DID", "REQ_DID_ACK", "REQ_M2MINFO",
                   "REQ_M2MINFO_ACK", "REQ_LOGIN", "RUNNING"}
MqttStatus == {"START", "LOGIN", "TOPIC1", "TOPIC2", "TOPIC3", "RUNNING"}
CloudPc == {"idle", "register", "recvDid", "saveDid", "provision", "recvM2m",
            "initSocket", "connect", "sendConnect", "enterRunning",
            "enterLogin", "handle"}

\* Packets of the broker.  n is the CONNACK return code, or the message id
\* of a SUBACK; topic is the subscription a SUBACK confirms.
Packet == [type : {"CONNACK", "SUBACK", "PINGRESP", "PUBLISH", "OTHER"},
           n : Nat, topic : 0..3]
Pkt(type, n, topic) == [type |-> type, n |-> n, topic |-> topic]

Older(age, limit) == IF age < limit THEN age + 1 ELSE limit
-----------------------------------------------------------------------------
\* GAgent_Init: the stored configuration decides where the login starts.
GAGENT_DID_LEN == 22
BootDidLen(stored) == IF stored = 0 THEN 0 ELSE GAGENT_DID_LEN

\* Faulty variant: a registered device skips the M2M request after a reset.
BootStatus_SkipsM2m(stored) == IF stored = 0 THEN "REQ_DID" ELSE "REQ_LOGIN"

BootStatus(stored) == IF stored = 0 THEN "REQ_DID" ELSE "REQ_M2MINFO"

Init ==
    /\ flashDid \in StoredDids
    /\ conCloud = BootStatus(flashDid)
    /\ did = flashDid /\ didLen = BootDidLen(flashDid)
    /\ mqttStatus = "START" /\ pc = "idle"
    /\ connAge = 0 /\ httpAge = HTTP_TIMEOUT
    /\ http = "none" /\ m2m = "unknown"
    /\ socketid = -1 /\ seq = 1 /\ msgsubId = 0
    /\ pkt = Pkt("OTHER", 0, 0)
    /\ pingTime = 0 /\ loseTime = 0 /\ silence = 0
    /\ link = "down" /\ session = "new" /\ connDid = 0 /\ acked = {}
    /\ down = <<>> /\ arrived = 0
    /\ net = "flaky" /\ jumps = 0 /\ reboots = 0
-----------------------------------------------------------------------------
\* A connection as it starts, or none.
FreshConn(up) == /\ link' = up /\ session' = "new" /\ connDid' = 0
                 /\ acked' = {}

(* Sending on the MQTT socket. *)

\* The result of send(): -1 on a closed descriptor; on a connection the peer
\* has left the data may still be queued, so either result is possible.
SendResult == IF socketid = -1 THEN {FALSE}
              ELSE IF link = "up" /\ ~SendFails THEN {TRUE}
              ELSE BOOLEAN

\* What the broker answers reaches the device if the request was sent on a
\* live connection.
Answer(ok, p) == IF ok /\ link = "up" THEN Append(down, p) ELSE down

\* mqtt_ping
Mqtt_ping(ok) == down' = Answer(ok, Pkt("PINGRESP", 0, 0))

\* mqtt_subscribe: the id is taken and seq advanced before anything can fail.
Mqtt_subscribe(topic, ok) ==
    /\ msgsubId' = seq
    /\ seq' = seq + 1
    /\ down' = Answer(ok, Pkt("SUBACK", seq, topic))
-----------------------------------------------------------------------------
(* TcpCloudThread: registration and provisioning over HTTP. *)

Polls(status) == pc = "idle" /\ conCloud = status

NoMqttChange == UNCHANGED <<mqttStatus, socketid, seq, msgsubId, pkt>>

\* case CONCLOUD_REQ_DID, up to the blocking Mqtt_Register2Server
ReqDid ==
    /\ Polls("REQ_DID") /\ connAge >= 1
    /\ connAge' = 0
    /\ pc' = "register"
    /\ NoMqttChange
    /\ UNCHANGED <<conCloud, httpAge, http, did, didLen, flashDid, m2m>>
    /\ UNCHANGED <<linkVars, envVars>>

\* Http_InitSocket fails: the name is not resolved (the old socket is kept),
\* or the socket is not created or connected (the old one is closed).
HttpInitFails ==
    /\ net = "flaky"
    /\ \/ UNCHANGED http
       \/ http' = "none"

\* A request went out on a fresh socket; it may never be answered.
HttpSent(request) == http' \in {request} \union
                              (IF net = "flaky" THEN {"lost"} ELSE {})

\* Nothing usable comes back on the HTTP socket, now or ever.
HttpSilent == net = "flaky" \/ http = "lost"

\* Mqtt_Register2Server returns: it fails if the socket could not be opened
\* or the request not be allocated; a failed send goes unnoticed.
Mqtt_Register2Server ==
    /\ pc = "register"
    /\ pc' = "idle"
    /\ \/ HttpInitFails /\ UNCHANGED <<conCloud, httpAge>>
       \/ http' = "lost" /\ SendFails /\ UNCHANGED <<conCloud, httpAge>>
       \/ HttpSent("did") /\ conCloud' = "REQ_DID_ACK" /\ httpAge' = 0
    /\ NoMqttChange
    /\ UNCHANGED <<connAge, did, didLen, flashDid, m2m>>
    /\ UNCHANGED <<linkVars, envVars>>

\* case CONCLOUD_REQ_DID_ACK: after the timeout, or without a socket, the
\* state is assigned itself.
ReqDidAckTimeout ==
    /\ Polls("REQ_DID_ACK")
    /\ httpAge >= HTTP_TIMEOUT \/ http = "none"
    /\ conCloud' = "REQ_DID_ACK"
    /\ NoMqttChange
    /\ UNCHANGED <<pc, connAge, httpAge, http, did, didLen, flashDid, m2m>>
    /\ UNCHANGED <<linkVars, envVars>>

\* case CONCLOUD_REQ_DID_ACK: wait up to a second in Http_ReadSocket.
ReqDidAck ==
    /\ Polls("REQ_DID_ACK")
    /\ httpAge < HTTP_TIMEOUT /\ http # "none"
    /\ pc' = "recvDid"
    /\ NoMqttChange
    /\ UNCHANGED <<conCloud, connAge, httpAge, http, did, didLen, flashDid,
                   m2m>>
    /\ UNCHANGED <<linkVars, envVars>>

\* Http_Recive_Did: nothing arrived or the code is not 201; the peer closed;
\* a 201 without "did=" (the DID has been blanked by then); or a DID.
Http_Recive_Did ==
    /\ pc = "recvDid"
    /\ \/ pc' = "idle" /\ HttpSilent /\ UNCHANGED <<http, did, didLen>>
       \/ /\ pc' = "idle" /\ net = "flaky" /\ http' = "none"
          /\ UNCHANGED <<did, didLen>>
       \/ /\ pc' = "idle" /\ Segmented /\ http = "did" /\ did' = 0
          /\ UNCHANGED <<http, didLen>>
       \/ \E d \in 1..MaxDid :
            /\ http = "did" /\ pc' = "saveDid" /\ did' = d /\ didLen' = GAGENT_DID_LEN
            /\ UNCHANGED http
    /\ NoMqttChange
    /\ UNCHANGED <<conCloud, connAge, httpAge, flashDid, m2m>>
    /\ UNCHANGED <<linkVars, envVars>>

\* Faulty variant: the new DID is used without being saved.
SaveDid_NotSaved ==
    /\ pc = "saveDid"
    /\ conCloud' = "REQ_M2MINFO"
    /\ pc' = "idle"
    /\ NoMqttChange
    /\ UNCHANGED <<connAge, httpAge, http, did, didLen, flashDid, m2m>>
    /\ UNCHANGED <<linkVars, envVars>>

\* nl6621_SaveConfigData with the new DID, then on to the M2M request.
SaveDid ==
    /\ pc = "saveDid"
    /\ flashDid' = did
    /\ conCloud' = "REQ_M2MINFO"
    /\ pc' = "idle"
    /\ NoMqttChange
    /\ UNCHANGED <<connAge, httpAge, http, did, didLen, m2m>>
    /\ UNCHANGED <<linkVars, envVars>>

\* case CONCLOUD_REQ_M2MINFO, up to the blocking Http_Sent_Provision
ReqM2mInfo ==
    /\ Polls("REQ_M2MINFO") /\ connAge >= 1
    /\ connAge' = 0
    /\ pc' = "provision"
    /\ NoMqttChange
    /\ UNCHANGED <<conCloud, httpAge, http, did, didLen, flashDid, m2m>>
    /\ UNCHANGED <<linkVars, envVars>>

\* Http_Sent_Provision returns: no DID, no socket, the GET not sent, or sent.
Http_Sent_Provision ==
    /\ pc = "provision"
    /\ pc' = "idle"
    /\ \/ didLen = 0 /\ UNCHANGED <<conCloud, httpAge, http>>
       \/ didLen > 0 /\ HttpInitFails /\ UNCHANGED <<conCloud, httpAge>>
       \/ /\ didLen > 0 /\ (SendFails \/ net = "flaky")
          /\ http' = "lost" /\ UNCHANGED <<conCloud, httpAge>>
       \/ /\ didLen > 0
          /\ HttpSent("m2m") /\ conCloud' = "REQ_M2MINFO_ACK" /\ httpAge' = 0
    /\ NoMqttChange
    /\ UNCHANGED <<connAge, did, didLen, flashDid, m2m>>
    /\ UNCHANGED <<linkVars, envVars>>

\* case CONCLOUD_REQ_M2MINFO_ACK: timeout or no socket, ask again.
ReqM2mInfoAckTimeout ==
    /\ Polls("REQ_M2MINFO_ACK")
    /\ httpAge >= HTTP_TIMEOUT \/ http = "none"
    /\ conCloud' = "REQ_M2MINFO"
    /\ NoMqttChange
    /\ UNCHANGED <<pc, connAge, httpAge, http, did, didLen, flashDid, m2m>>
    /\ UNCHANGED <<linkVars, envVars>>

ReqM2mInfoAck ==
    /\ Polls("REQ_M2MINFO_ACK")
    /\ httpAge < HTTP_TIMEOUT /\ http # "none"
    /\ pc' = "recvM2m"
    /\ NoMqttChange
    /\ UNCHANGED <<conCloud, connAge, httpAge, http, did, didLen, flashDid,
                   m2m>>
    /\ UNCHANGED <<linkVars, envVars>>

\* Http_Recive_M2minfo: nothing usable, the peer closed, a reply without
\* host or port (the server name has been blanked by then), or both.
Http_Recive_M2minfo ==
    /\ pc = "recvM2m"
    /\ pc' = "idle"
    /\ \/ HttpSilent /\ UNCHANGED <<http, m2m, conCloud>>
       \/ net = "flaky" /\ http' = "none" /\ UNCHANGED <<m2m, conCloud>>
       \/ /\ Segmented /\ http = "m2m" /\ m2m' \in {m2m, "blank"}
          /\ UNCHANGED <<http, conCloud>>
       \/ /\ http = "m2m" /\ m2m' = "known" /\ conCloud' = "REQ_LOGIN"
          /\ UNCHANGED http
    /\ NoMqttChange
    /\ UNCHANGED <<connAge, httpAge, did, didLen, flashDid>>
    /\ UNCHANGED <<linkVars, envVars>>
-----------------------------------------------------------------------------
(* TcpCloudThread: the MQTT connection. *)

NoHttpChange == UNCHANGED <<httpAge, http, did, didLen, flashDid, m2m>>

\* case CONCLOUD_REQ_LOGIN: Mqtt_SendConnetPacket starts with mqtt_init.
ReqLogin ==
    /\ Polls("REQ_LOGIN") /\ connAge >= 1
    /\ connAge' = 0
    /\ seq' = 1
    /\ pc' = "initSocket"
    /\ NoHttpChange
    /\ UNCHANGED <<conCloud, mqttStatus, socketid, msgsubId, pkt>>
    /\ UNCHANGED <<linkVars, envVars>>

\* Cloud_MQTT_initSocket: the broker's name is not resolved ...
ResolveFails ==
    /\ pc = "initSocket" /\ (net = "flaky" \/ m2m # "known")
    /\ pc' = "idle"
    /\ NoHttpChange /\ NoMqttChange
    /\ UNCHANGED <<conCloud, connAge, linkVars, envVars>>

\* ... or it is, and a socket that is still open is closed first.
CloseOldSocket ==
    /\ pc = "initSocket" /\ m2m = "known"
    /\ pc' = "connect"
    /\ socketid' = -1
    /\ FreshConn("down") /\ down' = <<>> /\ arrived' = 0
    /\ NoHttpChange
    /\ UNCHANGED <<conCloud, mqttStatus, connAge, seq, msgsubId, pkt>>
    /\ UNCHANGED <<pingTime, loseTime, silence, envVars>>

\* socket() or connect() fails, and the new descriptor is closed again.
ConnectFails ==
    /\ pc = "connect" /\ net = "flaky"
    /\ pc' = "idle"
    /\ NoHttpChange /\ NoMqttChange
    /\ UNCHANGED <<conCloud, connAge, linkVars, envVars>>

\* Connected: the descriptor becomes visible to the other tasks.  The
\* heart-beat counters keep the values they had.
Connect ==
    /\ pc = "connect"
    /\ pc' = "sendConnect"
    /\ socketid' = 1
    /\ FreshConn("up") /\ down' = <<>> /\ arrived' = 0 /\ silence' = 0
    /\ NoHttpChange
    /\ UNCHANGED <<conCloud, mqttStatus, connAge, seq, msgsubId, pkt>>
    /\ UNCHANGED <<pingTime, loseTime, envVars>>

\* mqtt_connect with the DID in RAM.  The broker never accepts a blank DID,
\* and may refuse any other while the network is flaky.  On failure the socket is
\* left open.
SendConnect ==
    /\ pc = "sendConnect"
    /\ \E ok \in SendResult, code \in {0, 1} :
         /\ code = 0 => did # 0
         /\ code = 1 => did = 0 \/ (Refuses /\ net = "flaky")
         /\ pc' = IF ok THEN "enterRunning" ELSE "idle"
         /\ IF ok /\ link = "up"
            THEN /\ session' = IF code = 0 THEN "accepted" ELSE "refused"
                 /\ connDid' = did
            ELSE UNCHANGED <<session, connDid>>
         /\ down' = Answer(ok, Pkt("CONNACK", code, 0))
    /\ NoHttpChange /\ NoMqttChange
    /\ UNCHANGED <<conCloud, connAge, pingTime, loseTime, link, acked, arrived>>
    /\ UNCHANGED <<silence, envVars>>

\* GAgent_Login_Cloud after a successful Mqtt_Login2Server: two stores.
EnterRunning ==
    /\ pc = "enterRunning"
    /\ conCloud' = "RUNNING"
    /\ pc' = "enterLogin"
    /\ NoHttpChange /\ NoMqttChange
    /\ UNCHANGED <<connAge, linkVars, envVars>>

\* Faulty variant: a session that was running is taken to be running still.
EnterLogin_KeepsRunning ==
    /\ pc = "enterLogin"
    /\ mqttStatus' = IF mqttStatus = "RUNNING" THEN "RUNNING" ELSE "LOGIN"
    /\ pc' = "idle"
    /\ NoHttpChange
    /\ UNCHANGED <<conCloud, connAge, socketid, seq, msgsubId, pkt>>
    /\ UNCHANGED <<linkVars, envVars>>

EnterLogin ==
    /\ pc = "enterLogin"
    /\ mqttStatus' = "LOGIN"
    /\ pc' = "idle"
    /\ NoHttpChange
    /\ UNCHANGED <<conCloud, connAge, socketid, seq, msgsubId, pkt>>
    /\ UNCHANGED <<linkVars, envVars>>

ConnectTimedOut == mqttStatus = "LOGIN" /\ connAge >= MQTT_CONNECT_TIMEOUT

\* case CONCLOUD_RUNNING: no CONNACK in time, log in again.
RunningTimeout ==
    /\ Polls("RUNNING") /\ ConnectTimedOut
    /\ conCloud' = "REQ_LOGIN"
    /\ NoHttpChange /\ NoMqttChange
    /\ UNCHANGED <<pc, connAge, linkVars, envVars>>

\* MQTT_readPacket: recv returns the bytes of the first n packets that have
\* arrived; only the first is looked at, the others are lost with the buffer.
MQTT_readPacket ==
    /\ Polls("RUNNING") /\ ~ConnectTimedOut
    /\ socketid # -1
    /\ \E n \in 1..arrived :
         /\ n = 1 \/ Segmented
         /\ pkt' = Head(down)
         /\ down' = SubSeq(down, n + 1, Len(down))
         /\ arrived' = arrived - n
         /\ acked' = IF Head(down).type = "SUBACK"
                     THEN acked \union {Head(down).topic} ELSE acked
    /\ pc' = "handle"
    /\ NoHttpChange
    /\ UNCHANGED <<conCloud, mqttStatus, connAge, socketid, seq, msgsubId>>
    /\ UNCHANGED <<link, session, connDid>>
    /\ UNCHANGED <<pingTime, loseTime, silence, envVars>>

\* MQTT_readPacket returns -3: less than the packet was there.  The part is
\* dropped, and the rest will be read as a packet of its own.
ReadShort ==
    /\ Polls("RUNNING") /\ ~ConnectTimedOut
    /\ socketid # -1 /\ Segmented /\ arrived > 0
    /\ Head(down).type # "OTHER"
    /\ down' = <<Pkt("OTHER", 0, 0)>> \o Tail(down)
    /\ NoHttpChange /\ NoMqttChange
    /\ UNCHANGED <<pc, conCloud, connAge, pingTime, loseTime, conn, arrived>>
    /\ UNCHANGED <<silence, envVars>>
-----------------------------------------------------------------------------
(* MQTT_handlePacket: what the cloud thread does with the packet it read. *)

\* Mqtt_SubLoginTopic: subscribe to the three topics one after the other;
\* each SUBACK starts the next, the last one makes the session running.
Mqtt_SubLoginTopic ==
    LET Sub(topic, next) ==
          \E ok \in SendResult :
            /\ Mqtt_subscribe(topic, ok)
            /\ mqttStatus' = IF ok THEN next ELSE mqttStatus
    IN  \/ mqttStatus = "LOGIN"  /\ Sub(1, "TOPIC1")
        \/ mqttStatus = "TOPIC1" /\ Sub(2, "TOPIC2")
        \/ mqttStatus = "TOPIC2" /\ Sub(3, "TOPIC3")
        \/ /\ mqttStatus = "TOPIC3"   \* Mqtt_IntoRunning
           /\ mqttStatus' = "RUNNING"
           /\ \E ok \in SendResult : Mqtt_ping(ok)
           /\ UNCHANGED <<seq, msgsubId>>
        \/ /\ mqttStatus \in {"START", "RUNNING"}
           /\ UNCHANGED <<mqttStatus, seq, msgsubId, down>>

\* Handling any packet starts with Cloud_HB_Status_init.
Handles(type) ==
    /\ pc = "handle" /\ pkt.type = type
    /\ pc' = "idle"
    /\ pingTime' = 0 /\ loseTime' = 0 /\ silence' = 0
    /\ pkt' = Pkt("OTHER", 0, 0)   \* the next read clears the buffer
    /\ NoHttpChange
    /\ UNCHANGED <<connAge, socketid, conn, arrived, envVars>>

NoSubscription == UNCHANGED <<mqttStatus, seq, msgsubId, down>>

\* Mqtt_DoLogin: the broker refuses the DID, register again.  The socket is
\* left open and g_MQTTStatus stays LOGIN.
HandleConnackRefused ==
    /\ Handles("CONNACK") /\ pkt.n # 0
    /\ conCloud' = IF mqttStatus = "LOGIN" THEN "REQ_DID" ELSE conCloud
    /\ NoSubscription

HandleConnackAccepted ==
    /\ Handles("CONNACK") /\ pkt.n = 0
    /\ IF mqttStatus = "LOGIN" THEN Mqtt_SubLoginTopic ELSE NoSubscription
    /\ UNCHANGED conCloud

HandleSuback ==
    /\ Handles("SUBACK")
    /\ IF pkt.n = msgsubId THEN Mqtt_SubLoginTopic ELSE NoSubscription
    /\ UNCHANGED conCloud

\* The packets that leave the login alone: PINGRESP (the LED and sys_status
\* are not part of this model), PUBLISH (carried out in RUNNING and dropped
\* otherwise; the device itself is not part of it either), unknown types.
HandleOther ==
    /\ Handles("PINGRESP") \/ Handles("PUBLISH") \/ Handles("OTHER")
    /\ NoSubscription
    /\ UNCHANGED conCloud
-----------------------------------------------------------------------------
(* Other tasks.  Once the network is good everybody is prompt: a second only *)
(* passes when the cloud thread has nothing left to do.                      *)

Prompt ==
    net = "good" => /\ pc = "idle"
                    /\ conCloud = "RUNNING" => down = <<>>
                    /\ conCloud \in {"REQ_DID", "REQ_M2MINFO", "REQ_LOGIN"}
                         => connAge = 0
                    /\ conCloud \in {"REQ_DID_ACK", "REQ_M2MINFO_ACK"}
                         => http \in {"none", "lost"} \/ httpAge = HTTP_TIMEOUT

\* Cloud_Mqtt_HB_Timer, once a second in the main task.  Its next values:
HbDue   == pingTime + 1 >= CLOUD_HB_TIMEOUT_ONESHOT
HbPing  == IF HbDue THEN 0 ELSE pingTime + 1
HbLose  == IF HbDue THEN loseTime + 1 ELSE loseTime
HbDead  == /\ HbLose >= CLOUD_HB_TIMEOUT_CNT_MAX
           /\ HbPing >= CLOUD_HB_TIMEOUT_REDUNDANCE

\* ... nothing received for a while: ping the broker every so often ...
HbCount ==
    /\ socketid # -1 /\ Prompt /\ ~HbDead
    /\ Len(down) < MaxInFlight
    /\ pingTime' = HbPing /\ loseTime' = HbLose
    /\ IF HbDue THEN \E ok \in SendResult : Mqtt_ping(ok) ELSE UNCHANGED down
    /\ silence' = silence + 1
    /\ UNCHANGED <<cloudVars, conn, arrived, envVars>>

\* Faulty variant: the socket is closed, but no new login is asked for.
HbClose_NoRelogin ==
    /\ socketid # -1 /\ Prompt /\ HbDead
    /\ socketid' = -1
    /\ FreshConn("down") /\ down' = <<>> /\ arrived' = 0 /\ silence' = 0
    /\ pingTime' = 0 /\ loseTime' = 0
    /\ UNCHANGED <<conCloud, mqttStatus, pc, connAge, seq, msgsubId, pkt>>
    /\ NoHttpChange /\ UNCHANGED envVars

\* Faulty variant: the counters are not looked at, the broken connection
\* is kept.
HbClose_Never ==
    /\ socketid # -1 /\ Prompt /\ HbDead
    /\ pingTime' = HbPing /\ loseTime' = HbLose
    /\ silence' = silence + 1
    /\ UNCHANGED <<cloudVars, conn, down, arrived, envVars>>

\* Faulty variant: the closed socket is marked with 0 instead of -1.
HbClose_ZeroSocket ==
    /\ socketid # -1 /\ Prompt /\ HbDead
    /\ conCloud' = "REQ_LOGIN"
    /\ socketid' = 0
    /\ FreshConn("down") /\ down' = <<>> /\ arrived' = 0 /\ silence' = 0
    /\ pingTime' = 0 /\ loseTime' = 0
    /\ UNCHANGED <<mqttStatus, pc, connAge, seq, msgsubId, pkt>>
    /\ NoHttpChange /\ UNCHANGED envVars

\* ... and in the end close the socket and log in again, whatever the cloud
\* thread is doing.  g_MQTTStatus is not touched.
HbClose ==
    /\ socketid # -1 /\ Prompt /\ HbDead
    /\ conCloud' = "REQ_LOGIN"
    /\ socketid' = -1
    /\ FreshConn("down") /\ down' = <<>> /\ arrived' = 0 /\ silence' = 0
    /\ pingTime' = 0 /\ loseTime' = 0
    /\ UNCHANGED <<mqttStatus, pc, connAge, seq, msgsubId, pkt>>
    /\ NoHttpChange /\ UNCHANGED envVars

\* A second passes on the system clock.
ClockTick ==
    /\ Prompt
    /\ connAge' = Older(connAge, MQTT_CONNECT_TIMEOUT)
    /\ httpAge' = Older(httpAge, HTTP_TIMEOUT)
    /\ UNCHANGED <<conCloud, mqttStatus, pc, http, did, didLen, flashDid, m2m,
                   socketid, seq, msgsubId, pkt>>
    /\ UNCHANGED <<linkVars, envVars>>

\* ModifyLocalTime: NTP sets the clock; unsigned differences to earlier
\* times become huge, forwards as well as backwards.
ModifyLocalTime ==
    /\ jumps < MaxJumps
    /\ jumps' = jumps + 1
    /\ connAge' = MQTT_CONNECT_TIMEOUT /\ httpAge' = HTTP_TIMEOUT
    /\ UNCHANGED <<conCloud, mqttStatus, pc, http, did, didLen, flashDid, m2m,
                   socketid, seq, msgsubId, pkt>>
    /\ UNCHANGED <<linkVars, net, reboots>>

\* MCU_SendPublishPacket by another task.  g_MQTTStatus may still be RUNNING
\* from the previous session: a PUBLISH that precedes the CONNECT makes the
\* broker drop the connection.  (A prompt cloud thread leaves no such gap.)
MCU_SendPublishPacket ==
    /\ mqttStatus = "RUNNING" /\ socketid # -1
    /\ link = "up" /\ session = "new" /\ net = "flaky"
    /\ link' = "down"
    /\ UNCHANGED <<session, connDid, acked, down, arrived, silence>>
    /\ UNCHANGED <<cloudVars, envVars, pingTime, loseTime>>

\* BSP_ChipReset or a power failure: only the flash survives.
Reboot ==
    /\ reboots < MaxReboots
    /\ reboots' = reboots + 1
    /\ conCloud' = BootStatus(flashDid)
    /\ did' = flashDid /\ didLen' = BootDidLen(flashDid)
    /\ mqttStatus' = "START" /\ pc' = "idle"
    /\ connAge' = 0 /\ httpAge' = HTTP_TIMEOUT
    /\ http' = "none" /\ m2m' = "unknown"
    /\ socketid' = -1 /\ seq' = 1 /\ msgsubId' = 0
    /\ pkt' = Pkt("OTHER", 0, 0)
    /\ pingTime' = 0 /\ loseTime' = 0 /\ silence' = 0
    /\ FreshConn("down") /\ down' = <<>> /\ arrived' = 0
    /\ UNCHANGED <<flashDid, net, jumps>>
-----------------------------------------------------------------------------
(* The network and the broker. *)

Deliver ==
    /\ arrived < Len(down)
    /\ arrived' = arrived + 1
    /\ UNCHANGED <<cloudVars, envVars, pingTime, loseTime, conn, down, silence>>

\* The connection breaks; what has not arrived is lost.
Break ==
    /\ net = "flaky" /\ link = "up"
    /\ link' = "down"
    /\ UNCHANGED <<session, connDid, acked>>
    /\ down' = SubSeq(down, 1, arrived)
    /\ UNCHANGED <<cloudVars, envVars, pingTime, loseTime, arrived, silence>>

\* A phone's command for the device, sent through the broker.
BrokerPublish ==
    /\ link = "up" /\ session = "accepted" /\ acked = Topics
    /\ Len(down) + 1 < MaxInFlight
    /\ down' = Append(down, Pkt("PUBLISH", 0, 0))
    /\ UNCHANGED <<cloudVars, envVars, pingTime, loseTime, conn, arrived, silence>>

Stabilise ==
    /\ net = "flaky"
    /\ net' = "good"
    /\ UNCHANGED <<cloudVars, linkVars, jumps, reboots>>
-----------------------------------------------------------------------------
CloudThread ==
    \/ ReqDid \/ Mqtt_Register2Server \/ ReqDidAckTimeout \/ ReqDidAck
    \/ Http_Recive_Did \/ SaveDid
    \/ ReqM2mInfo \/ Http_Sent_Provision \/ ReqM2mInfoAckTimeout
    \/ ReqM2mInfoAck \/ Http_Recive_M2minfo
    \/ ReqLogin \/ ResolveFails \/ CloseOldSocket \/ ConnectFails \/ Connect
    \/ SendConnect \/ EnterRunning \/ EnterLogin
    \/ RunningTimeout \/ MQTT_readPacket \/ ReadShort
    \/ HandleConnackRefused \/ HandleConnackAccepted \/ HandleSuback
    \/ HandleOther

OtherTasks == HbCount \/ HbClose \/ ClockTick \/ ModifyLocalTime
              \/ MCU_SendPublishPacket \/ Reboot

Network == Deliver \/ Break \/ BrokerPublish \/ Stabilise

Next == CloudThread \/ OtherTasks \/ Network

Spec == Init /\ [][Next]_vars

\* The cloud thread is never starved, time passes, and TCP delivers.  Strong
\* fairness for time: a polling cloud thread is busy again and again, but
\* the seconds go by all the same.
Fairness == /\ WF_vars(CloudThread)
            /\ SF_vars(HbCount \/ HbClose) /\ SF_vars(ClockTick)
            /\ WF_vars(Deliver)

FairSpec == Spec /\ Fairness
-----------------------------------------------------------------------------
(* Properties. *)

\* Every variable keeps the range its C declaration and the protocol allow;
\* the receive buffer never counts more packets than were sent.
TypeOK ==
    /\ conCloud \in ConCloudStatus /\ mqttStatus \in MqttStatus
    /\ pc \in CloudPc
    /\ connAge \in 0..MQTT_CONNECT_TIMEOUT /\ httpAge \in 0..HTTP_TIMEOUT
    /\ http \in {"none", "did", "m2m", "lost"}
    /\ did \in 0..MaxDid /\ didLen \in {0, GAGENT_DID_LEN} /\ flashDid \in 0..MaxDid
    /\ m2m \in {"unknown", "known", "blank"}
    /\ socketid \in {-1, 1} /\ seq \in Nat /\ msgsubId \in Nat
    /\ pkt \in Packet
    /\ pingTime \in Nat /\ loseTime \in Nat /\ silence \in Nat
    /\ link \in {"up", "down"} /\ connDid \in 0..MaxDid
    /\ session \in {"new", "accepted", "refused"} /\ acked \subseteq 0..3
    /\ down \in Seq(Packet) /\ arrived \in 0..Len(down)
    /\ net \in {"flaky", "good"}
    /\ jumps \in Nat /\ reboots \in Nat

\* Nobody asks for an MQTT login, and no MQTT socket exists, before the
\* device has a DID stored in flash and has been told its M2M server.  The
\* timer of the main task can force REQ_LOGIN in the middle of a new
\* registration; this is what makes that harmless.
IdentityBeforeLogin ==
    conCloud \in {"REQ_LOGIN", "RUNNING"} \/ socketid # -1
        => m2m # "unknown" /\ didLen > 0 /\ flashDid # 0

\* RUNNING without a socket happens (the timer may close the socket between
\* the CONNECT and the stores that follow it), and then neither the socket
\* nor the heart beat can get the thread out: the connect timeout must be
\* armed, that is g_MQTTStatus is LOGIN or about to become LOGIN.
DeadSocketIsTimed ==
    conCloud = "RUNNING" /\ socketid = -1
        => mqttStatus = "LOGIN" \/ pc = "enterLogin"

\* When the device takes the session for running (and carries out commands)
\* the broker has accepted this very connection and confirmed all three
\* subscriptions on it, also after reconnections, lost packets and timeouts.
RunningIsSubscribed ==
    (/\ conCloud = "RUNNING" /\ mqttStatus = "RUNNING"
     /\ socketid # -1 /\ pc # "enterLogin")
        => session = "accepted" /\ acked = Topics

\* The identity of an accepted session is the one in flash: a reset at any
\* moment brings the device back under the DID its users are bound to.
SessionDidIsStored ==
    conCloud = "RUNNING" /\ socketid # -1 /\ session = "accepted"
        => connDid = flashDid /\ did = flashDid

\* A connection that brings nothing is given up after CNT_MAX pings and
\* REDUNDANCE more seconds (120 s), no matter how the resets of the counters
\* by the cloud thread and the counting by the main task interleave.
SilenceIsBounded ==
    socketid # -1 =>
        /\ silence <= loseTime * CLOUD_HB_TIMEOUT_ONESHOT + pingTime
        /\ silence < CLOUD_HB_TIMEOUT_CNT_MAX * CLOUD_HB_TIMEOUT_ONESHOT
                       + CLOUD_HB_TIMEOUT_REDUNDANCE

LoggedIn == /\ conCloud = "RUNNING" /\ mqttStatus = "RUNNING"
            /\ socketid # -1 /\ link = "up"

\* Once the network is good a registered device ends up logged in and stays
\* so, whatever the broken connections, the closes of the heart beat and the
\* clock jumps before have left behind: dead sockets, stale statuses, counters
\* half way.  It is not so, and not checked, with a registration that was
\* broken off (see RegistrationResent), or after a SUBACK was lost to a failed
\* send or a cut packet, where the login stays at its topic.
EventuallyLoggedIn == (net = "good") ~> []LoggedIn

\* The comment in case CONCLOUD_REQ_DID_ACK: after a timeout, or without a
\* socket, the registration is sent again.
RegistrationResent ==
    (pc = "idle" /\ conCloud = "REQ_DID_ACK" /\ httpAge = HTTP_TIMEOUT)
        ~> (conCloud # "REQ_DID_ACK")
=============================================================================
