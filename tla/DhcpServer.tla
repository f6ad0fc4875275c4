------------------------------ MODULE DhcpServer ------------------------------
(***************************************************************************)
(* The DHCP server the socket runs while it is a soft access point, so     *)
(* that a phone can join it and configure it.  The server keeps a table of *)
(* entries, one per address of its pool; an entry is IDLE (and remembers   *)
(* the station that had it last), REQUEST (offered) or BIND (leased).      *)
(*                                                                         *)
(* DHCPS_RecvCb and the one-second tick both run in lwIP's task, so each   *)
(* is one step.  A reply may be lost.  The phones are the environment: the *)
(* model follows which address a phone believes it may use.                *)
(***************************************************************************)
EXTENDS Integers

CONSTANTS
    DHCPS_HISTORY_CLIENT_NUM, \* entries of the table (8)
    DHCP_DEFFAULT_TIMEOUT,    \* ticks an offer is kept (10)
    DHCP_DEFAULT_LEASE_TIME,  \* ticks a lease lasts (ten years)
    ServerHost,               \* host part of the server's address (254)
    HostMask,                 \* ~Mask, the largest host part (255)
    Station,                  \* MAC addresses of the phones
    NoMac                     \* the all-zero MAC address of an unused entry

VARIABLES
    Enable,    \* DhcpServer.Enable: "on" or "off"
    State,     \* Clients[i].State
    Timeout,   \* Clients[i].Timeout
    MacAddr,   \* Clients[i].MacAddr
    Lease,     \* Clients[i].Lease
    joined,    \* the stations the access point lists (APGetStationStatus)
    holds,     \* the address a phone uses, 0 if none
    left,      \* what is left of its lease by the phone's count
    offered,   \* history: the address it was last offered and may take, 0 if none
    offerLeft  \* history: what is left of the offer by the phone's count

entries == <<State, Timeout, MacAddr, Lease>>
phones  == <<joined, holds, left>>
offers  == <<offered, offerLeft>>
vars == <<Enable, entries, phones, offers>>
-----------------------------------------------------------------------------
(* The address pool. *)

Entry == 0..(DHCPS_HISTORY_CLIENT_NUM - 1)

\* Host parts wrap at ~Mask, and zero is skipped.
Wrap(h) == IF h % HostMask # 0 THEN h % HostMask ELSE 1

StartIpAddr == Wrap(ServerHost + 1)
IpAddr(i)   == Wrap(StartIpAddr + i)

\* A pool that wraps past its end would hold an address twice: it must fit.
ASSUME DhcpConstants ==
    /\ DHCPS_HISTORY_CLIENT_NUM \in Nat \ {0}
    /\ DHCP_DEFFAULT_TIMEOUT \in Nat \ {0}
    /\ DHCP_DEFAULT_LEASE_TIME \in Nat \ {0}
    /\ ServerHost \in 1..(HostMask - 1) /\ HostMask \in Nat \ {0}
    /\ StartIpAddr + DHCPS_HISTORY_CLIENT_NUM <= HostMask
    /\ NoMac \notin Station

\* The address a message asks for: none, one of the pool, or one of the
\* network the phone was in before.
ForeignIp  == -1
ReqIpAddrs == {0, ForeignIp} \union {IpAddr(i) : i \in Entry}

\* The server a REQUEST names: option absent, this one, or another.
ServerIds  == {"none", "me", "other"}

Init ==  \* before the first link up
    /\ Enable = "off"
    /\ State = [i \in Entry |-> "IDLE"] /\ Timeout = [i \in Entry |-> 0]
    /\ MacAddr = [i \in Entry |-> NoMac] /\ Lease = [i \in Entry |-> 0]
    /\ joined = {} /\ holds = [c \in Station |-> 0]
    /\ left = [c \in Station |-> 0]
    /\ offered = [c \in Station |-> 0] /\ offerLeft = [c \in Station |-> 0]
-----------------------------------------------------------------------------
(* The table lookup of _ClientTableLookup. *)

IsFirst(i, S) == i \in S /\ \A j \in S : i <= j
IsLast(i, S)  == i \in S /\ \A j \in S : j <= i

Idle == {i \in Entry : State[i] = "IDLE"}

MyClient(c)      == {i \in Entry \ Idle : MacAddr[i] = c}
ReqClient_AnyState(req) == {i \in Entry : IpAddr(i) = req}
ReqClient(req)   == {i \in Idle : IpAddr(i) = req}
MyHistory(c)     == {i \in Idle : MacAddr[i] = c}
FreeClient       == {i \in Idle : MacAddr[i] = NoMac}
HistoryClient    == {i \in Idle : MacAddr[i] # NoMac}
IpUnavailable_Own(c, req) == \E i \in Entry \ Idle : IpAddr(i) = req
IpUnavailable(c, req) ==
    \E i \in Entry \ Idle : MacAddr[i] # c /\ IpAddr(i) = req

\* The set from which a new negotiation takes the first entry, by priority.
NewClient(c, req) ==
    IF ReqClient(req) # {} THEN ReqClient(req)
    ELSE IF MyHistory(c) # {} THEN MyHistory(c)
    ELSE IF FreeClient # {} THEN FreeClient
    ELSE HistoryClient

\* Entry m goes back to IDLE; only a bound one remembers its station.
FreedState_Kept(m) == State
FreedState(m) == [State EXCEPT ![m] = "IDLE"]
FreedMac(m) ==
    [MacAddr EXCEPT ![m] = IF State[m] = "BIND" THEN MacAddr[m] ELSE NoMac]
ErasedMac(m) == [MacAddr EXCEPT ![m] = NoMac]
-----------------------------------------------------------------------------
(* The replies. *)

\* The phone gives up its address.
Drops(c) == /\ holds' = [holds EXCEPT ![c] = 0]
            /\ left' = [left EXCEPT ![c] = 0]

\* The phone has, or no longer has, an offer to take.
OfferTo(c, ip, ticks) == /\ offered' = [offered EXCEPT ![c] = ip]
                         /\ offerLeft' = [offerLeft EXCEPT ![c] = ticks]
NoOffer(c) == OfferTo(c, 0, 0)

\* _DHCPNakGenAndSend; a NAK ends what the phone is negotiating.
Nak(c) == NoOffer(c)

\* IDLE -> SELECT -> REQUEST in one call of _DhcpClientSMEHandle.
Offer(r, c, st, mac) ==
    /\ State' = [st EXCEPT ![r] = "REQUEST"]
    /\ MacAddr' = [mac EXCEPT ![r] = c]
    /\ Timeout' = [Timeout EXCEPT ![r] = DHCP_DEFFAULT_TIMEOUT]
    /\ OfferTo(c, IpAddr(r), DHCP_DEFFAULT_TIMEOUT)
    /\ UNCHANGED Lease

\* The entry is bound, and the idle entries that remember the station
\* forget it (_CleanClientHistory).
Ack_KeepsHistory(r, c, st, mac) ==
    /\ State' = [st EXCEPT ![r] = "BIND"]
    /\ Lease' = [Lease EXCEPT ![r] = DHCP_DEFAULT_LEASE_TIME]
    /\ MacAddr' = [mac EXCEPT ![r] = c]
    /\ UNCHANGED Timeout
Ack_OldLease(r, c, st, mac) ==
    /\ State' = [st EXCEPT ![r] = "BIND"]
    /\ MacAddr' = [i \in Entry |->
                      IF i = r THEN c
                      ELSE IF st[i] = "IDLE" /\ mac[i] = c THEN NoMac
                      ELSE mac[i]]
    /\ UNCHANGED <<Timeout, Lease>>
Ack(r, c, st, mac) ==
    /\ State' = [st EXCEPT ![r] = "BIND"]
    /\ Lease' = [Lease EXCEPT ![r] = DHCP_DEFAULT_LEASE_TIME]
    /\ MacAddr' = [i \in Entry |->
                      IF i = r THEN c
                      ELSE IF st[i] = "IDLE" /\ mac[i] = c THEN NoMac
                      ELSE mac[i]]
    /\ UNCHANGED Timeout

\* The ACK reaches the phone, or is lost: a phone that renews goes on with
\* the lease it has, any other is still without an address.
Delivered(c, ip) ==
    /\ holds' = [holds EXCEPT ![c] = ip]
    /\ left' = [left EXCEPT ![c] = DHCP_DEFAULT_LEASE_TIME]

AckLost(c, req) == IF req = 0 THEN UNCHANGED <<holds, left>> ELSE Drops(c)
-----------------------------------------------------------------------------
(* DHCPS_RecvCb, one action per message type. *)

Received(c) == Enable = "on" /\ c \in joined /\ UNCHANGED <<Enable, joined>>

\* A phone without an address asks for one.  An entry it already has is
\* freed first; the code tests for BIND only after that.
Discover(c, req) ==
    /\ Received(c) /\ Drops(c)
    /\ \/ \E m \in Entry :
            /\ IsLast(m, MyClient(c))
            /\ \/ \E r \in Entry :
                    /\ IsFirst(r, ReqClient(req))
                    /\ Offer(r, c, FreedState(m), ErasedMac(m))
               \/ /\ ReqClient(req) = {}
                  /\ Offer(m, c, FreedState(m), MacAddr)
       \/ /\ MyClient(c) = {}
          /\ \E r \in Entry : /\ IsFirst(r, NewClient(c, req))
                              /\ Offer(r, c, State, MacAddr)
       \/ /\ MyClient(c) = {} /\ NewClient(c, req) = {}
          /\ Nak(c) /\ UNCHANGED entries

\* A phone takes an offer, asks again for an address it had, or (req = 0)
\* renews the lease of the address it uses.
Acked(c, req, r, st, mac) ==
    /\ Ack(r, c, st, mac) /\ NoOffer(c)
    /\ Delivered(c, IpAddr(r)) \/ AckLost(c, req)

Refused(c) == Nak(c) /\ Drops(c)

Request(c, req, ServerId) ==
    /\ Received(c)
    /\ req = 0 => holds[c] # 0 /\ ServerId = "none"
    /\ \/ \E m \in Entry :
            /\ IsLast(m, MyClient(c))
            /\ \/ /\ IpUnavailable(c, req)
                  /\ State' = FreedState(m) /\ MacAddr' = FreedMac(m)
                  /\ Refused(c) /\ UNCHANGED <<Timeout, Lease>>
               \/ \E r \in Entry :
                    /\ ~IpUnavailable(c, req) /\ IsFirst(r, ReqClient(req))
                    /\ \/ /\ ServerId # "other"
                          /\ Acked(c, req, r, FreedState(m), FreedMac(m))
                       \/ /\ ServerId = "other"
                          /\ State' = FreedState(m) /\ MacAddr' = FreedMac(m)
                          /\ Refused(c) /\ UNCHANGED <<Timeout, Lease>>
               \/ /\ ~IpUnavailable(c, req) /\ ReqClient(req) = {}
                  /\ \/ /\ ServerId # "other"
                        /\ Acked(c, req, m, State, MacAddr)
                     \/ /\ ServerId = "other"
                        /\ Refused(c) /\ UNCHANGED entries
       \/ /\ MyClient(c) = {}
          /\ ~IpUnavailable(c, req) /\ ServerId # "other"
          /\ \E r \in Entry : /\ IsFirst(r, ReqClient(req))
                              /\ Acked(c, req, r, State, MacAddr)
       \/ /\ MyClient(c) = {}
          /\ \/ IpUnavailable(c, req) \/ ServerId = "other"
             \/ ReqClient(req) = {}
          /\ Refused(c) /\ UNCHANGED entries

\* RELEASE and DECLINE: the entry is freed and nothing is answered.
GiveBack(c) ==
    /\ Received(c) /\ Drops(c) /\ NoOffer(c)
    /\ \/ \E m \in Entry : /\ IsLast(m, MyClient(c))
                           /\ State' = FreedState(m) /\ MacAddr' = FreedMac(m)
                           /\ UNCHANGED <<Timeout, Lease>>
       \/ MyClient(c) = {} /\ UNCHANGED entries

\* Any other type: no entry is returned, so a NAK goes out.  A phone ignores
\* it as far as it has an address.
OtherFrame(c) ==
    /\ Received(c) /\ Nak(c)
    /\ UNCHANGED <<entries, holds, left>>
-----------------------------------------------------------------------------
(* The tick, the link, and the phones. *)

Expires_KeepsOffers(i) ==
    State[i] = "BIND" /\ (Lease[i] = 1 \/ MacAddr[i] \notin joined)
Expires(i) ==
    \/ State[i] = "REQUEST" /\ Timeout[i] = 1
    \/ State[i] = "BIND" /\ (Lease[i] = 1 \/ MacAddr[i] \notin joined)

Tick_NoTest ==
    /\ Enable = "on"
    /\ State' = [i \in Entry |-> IF Expires(i) THEN "IDLE" ELSE State[i]]
    /\ MacAddr' = [i \in Entry |-> IF Expires(i) /\ State[i] = "REQUEST"
                                   THEN NoMac ELSE MacAddr[i]]
    /\ Timeout' = [i \in Entry |-> Timeout[i] - 1]
    /\ Lease' = [i \in Entry |-> Lease[i] - 1]
    /\ left' = [c \in Station |-> IF left[c] > 0 THEN left[c] - 1 ELSE 0]
    /\ holds' = [c \in Station |-> IF left[c] > 1 THEN holds[c] ELSE 0]
    /\ offerLeft' = [c \in Station |-> IF offerLeft[c] > 0 THEN offerLeft[c] - 1 ELSE 0]
    /\ offered' = [c \in Station |-> IF offerLeft[c] > 1 THEN offered[c] ELSE 0]
    /\ UNCHANGED <<Enable, joined>>

\* _DhcpTickHandle, once a second; the phones' clocks run as fast.
Tick ==
    /\ Enable = "on"
    /\ State' = [i \in Entry |-> IF Expires(i) THEN "IDLE" ELSE State[i]]
    /\ MacAddr' = [i \in Entry |-> IF Expires(i) /\ State[i] = "REQUEST"
                                   THEN NoMac ELSE MacAddr[i]]
    /\ Timeout' = [i \in Entry |->
                      IF State[i] = "REQUEST" /\ Timeout[i] > 0
                      THEN Timeout[i] - 1 ELSE Timeout[i]]
    /\ Lease' = [i \in Entry |-> IF State[i] = "BIND" /\ Lease[i] > 0
                                 THEN Lease[i] - 1 ELSE Lease[i]]
    /\ left' = [c \in Station |-> IF left[c] > 0 THEN left[c] - 1 ELSE 0]
    /\ holds' = [c \in Station |-> IF left[c] > 1 THEN holds[c] ELSE 0]
    /\ offerLeft' = [c \in Station |-> IF offerLeft[c] > 0 THEN offerLeft[c] - 1 ELSE 0]
    /\ offered' = [c \in Station |-> IF offerLeft[c] > 1 THEN offered[c] ELSE 0]
    /\ UNCHANGED <<Enable, joined>>

\* Link up: DHCPS_Start.  Without a UDP pcb the server stays off.
Start ==
    /\ Enable = "off"
    /\ State' = [i \in Entry |-> "IDLE"] /\ Timeout' = [i \in Entry |-> 0]
    /\ MacAddr' = [i \in Entry |-> NoMac]
    /\ Lease' = [i \in Entry |-> DHCP_DEFAULT_LEASE_TIME]
    /\ Enable' \in {"on", "off"}
    /\ UNCHANGED <<phones, offers>>

\* Link down: DHCPS_Stop clears the table, and no station is left.
Stop ==
    /\ Enable' = "off"
    /\ State' = [i \in Entry |-> "IDLE"] /\ Timeout' = [i \in Entry |-> 0]
    /\ MacAddr' = [i \in Entry |-> NoMac] /\ Lease' = [i \in Entry |-> 0]
    /\ joined' = {} /\ holds' = [c \in Station |-> 0]
    /\ left' = [c \in Station |-> 0]
    /\ offered' = [c \in Station |-> 0] /\ offerLeft' = [c \in Station |-> 0]

Join(c) ==
    /\ Enable = "on" /\ c \notin joined /\ joined' = joined \union {c}
    /\ UNCHANGED <<Enable, entries, holds, left, offers>>

Leave(c) ==
    /\ c \in joined /\ joined' = joined \ {c} /\ Drops(c)
    /\ UNCHANGED <<Enable, entries, offers>>

\* A phone loses its address without the access point noticing: it
\* restarts, or visits another network and comes back.
Forget(c) ==
    /\ holds[c] # 0 /\ Drops(c)
    /\ UNCHANGED <<Enable, entries, joined, offers>>

RecvCb(c) ==
    \/ \E req \in ReqIpAddrs : Discover(c, req)
    \/ \E req \in ReqIpAddrs, sid \in ServerIds : Request(c, req, sid)
    \/ GiveBack(c) \/ OtherFrame(c)

Next ==
    \/ \E c \in Station : RecvCb(c) \/ Join(c) \/ Leave(c) \/ Forget(c)
    \/ Tick \/ Start \/ Stop

Spec == Init /\ [][Next]_vars

\* The tick re-arms itself as long as the server is on.
FairSpec == Spec /\ WF_vars(Tick)
-----------------------------------------------------------------------------
(* Properties. *)

\* Every variable keeps its type; no counter of an entry runs below zero.
TypeOK ==
    /\ Enable \in {"on", "off"}
    /\ State \in [Entry -> {"IDLE", "REQUEST", "BIND"}]
    /\ Timeout \in [Entry -> 0..DHCP_DEFFAULT_TIMEOUT]
    /\ MacAddr \in [Entry -> Station \union {NoMac}]
    /\ Lease \in [Entry -> 0..DHCP_DEFAULT_LEASE_TIME]
    /\ joined \in SUBSET Station
    /\ holds \in [Station -> {0} \union {IpAddr(i) : i \in Entry}]
    /\ left \in [Station -> 0..DHCP_DEFAULT_LEASE_TIME]
    /\ offered \in [Station -> {0} \union {IpAddr(i) : i \in Entry}]
    /\ offerLeft \in [Station -> 0..DHCP_DEFFAULT_TIMEOUT]

\* Two phones never use the same address, whatever they ask for, in which
\* order, and whichever replies are lost.
ExclusiveAddresses ==
    \A c, d \in Station : c # d /\ holds[c] # 0 => holds[c] # holds[d]

\* A station negotiates or has at most one entry: whatever it asks for, an
\* entry it had before is freed in the same call of _ClientTableLookup.
OneEntryEach ==
    \A i, j \in Entry \ Idle : MacAddr[i] = MacAddr[j] => i = j

\* The history of a station is one address, and none while it has a lease:
\* _ClientTableLookup may take the first entry that remembers the station.
OneHistoryEach ==
    \A i \in Idle, j \in Entry :
        /\ i # j /\ MacAddr[i] # NoMac /\ MacAddr[i] = MacAddr[j]
        => State[j] = "REQUEST"

\* The address a phone uses is bound to it in the table, for at least as
\* long as the phone believes: the server never forgets a lease first.
LeaseIsBacked ==
    \A c \in Station : holds[c] # 0 =>
        /\ left[c] > 0
        /\ \E i \in Entry : /\ State[i] = "BIND" /\ MacAddr[i] = c
                            /\ IpAddr(i) = holds[c] /\ left[c] <= Lease[i]

\* The address of a station that has left does not stay taken: an offer
\* runs out and a lease ends, unless the station comes back first.
AbsentStationFreesEntry ==
    \A c \in Station, i \in Entry :
        (c \notin joined /\ State[i] # "IDLE" /\ MacAddr[i] = c) ~>
        (c \in joined \/ State[i] = "IDLE" \/ MacAddr[i] # c)

\* What a phone was promised it gets: a REQUEST for the offered address is
\* acknowledged up to the tick at which the offer has lasted
\* DHCP_DEFFAULT_TIMEOUT, and so is, until its lease ends by its own count, a
\* REQUEST for the address it uses (req = 0 when it renews).  It does not
\* matter what other phones ask for meanwhile, whose offers or leases end,
\* whose history is overwritten, or whether the phone leaves the access point
\* for a while.  After that time a REQUEST may be refused: nothing is promised.
PromiseKept ==
    [][\A c \in Station, i \in Entry, req \in ReqIpAddrs :
        /\ \/ IpAddr(i) = offered[c] /\ req = offered[c]
           \/ IpAddr(i) = holds[c] /\ req \in {0, holds[c]}
        /\ \E sid \in ServerIds \ {"other"} : Request(c, req, sid)
        => /\ State'[i] = "BIND" /\ MacAddr'[i] = c
           /\ Lease'[i] = DHCP_DEFAULT_LEASE_TIME]_vars
=============================================================================
