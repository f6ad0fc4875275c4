--------------------------- MODULE DhcpServerProofs ---------------------------
(***************************************************************************)
(* Two phones never use one address of the DHCP server's pool, for every   *)
(* pool that fits its subnet, every number of phones and all timeouts.     *)
(***************************************************************************)
EXTENDS DhcpServer, TLAPS

\* Every pool address is its own: no host part wraps.
LEMMA PoolAddresses ==
    /\ StartIpAddr \in Nat \ {0}
    /\ \A i \in Entry : IpAddr(i) = StartIpAddr + i
<1>. USE DhcpConstants
<1>1. \A h \in Nat \ {0} : Wrap(h) \in Nat \ {0}
  BY DEF Wrap
<1>2. StartIpAddr \in Nat \ {0}
  BY <1>1 DEF StartIpAddr
<1>3. \A h \in 1..(HostMask - 1) : Wrap(h) = h
  BY DEF Wrap
<1>4. \A i \in Entry : StartIpAddr + i \in 1..(HostMask - 1)
  BY <1>2 DEF Entry
<1>. QED  BY <1>2, <1>3, <1>4 DEF IpAddr
-----------------------------------------------------------------------------
(* Types. *)

\* A phone that uses an address is joined to the access point, and the
\* access point is up as long as anyone is joined or has an offer.
HoldersAreJoined ==
    \A c \in Station : /\ holds[c] # 0 => c \in joined
                       /\ c \in joined \/ offered[c] # 0 => Enable = "on"

\* A phone has an offer for as long as its entry waits for the REQUEST.
OfferIsBacked ==
    \A c \in Station : offered[c] # 0 =>
        /\ offerLeft[c] > 0
        /\ \E i \in Entry : /\ State[i] = "REQUEST" /\ MacAddr[i] = c
                            /\ IpAddr(i) = offered[c]
                            /\ offerLeft[c] <= Timeout[i]

\* Entries that can be returned belong to the table.
LEMMA LookupType ==
    ASSUME NEW c, NEW req
    PROVE  /\ MyClient(c) \subseteq Entry /\ ReqClient(req) \subseteq Entry
           /\ NewClient(c, req) \subseteq Entry
BY DEF MyClient, ReqClient, NewClient, MyHistory, FreeClient, HistoryClient,
       Idle

\* What the replies leave in the table is of the right type.
LEMMA OfferType ==
    ASSUME NEW r \in Entry, NEW c \in Station,
           NEW st \in [Entry -> {"IDLE", "REQUEST", "BIND"}],
           NEW mac \in [Entry -> Station \union {NoMac}],
           TypeOK, Received(c), Drops(c), Offer(r, c, st, mac)
    PROVE  TypeOK'
BY DhcpConstants DEF TypeOK, Received, Drops, Offer, OfferTo

LEMMA AckType ==
    ASSUME NEW r \in Entry, NEW c \in Station, NEW req \in ReqIpAddrs,
           NEW st \in [Entry -> {"IDLE", "REQUEST", "BIND"}],
           NEW mac \in [Entry -> Station \union {NoMac}],
           TypeOK, Received(c), Acked(c, req, r, st, mac)
    PROVE  TypeOK'
<1>. USE DhcpConstants
<1>1. /\ holds' \in [Station -> {0} \union {IpAddr(i) : i \in Entry}]
      /\ left' \in [Station -> 0..DHCP_DEFAULT_LEASE_TIME]
  BY DEF TypeOK, Acked, Delivered, AckLost, Drops
<1>2. /\ offered' \in [Station -> {0} \union {IpAddr(i) : i \in Entry}]
      /\ offerLeft' \in [Station -> 0..DHCP_DEFFAULT_TIMEOUT]
  BY DEF TypeOK, Acked, NoOffer, OfferTo
<1>3. /\ State' \in [Entry -> {"IDLE", "REQUEST", "BIND"}]
      /\ MacAddr' \in [Entry -> Station \union {NoMac}]
      /\ Lease' \in [Entry -> 0..DHCP_DEFAULT_LEASE_TIME]
      /\ UNCHANGED Timeout
  BY DEF TypeOK, Acked, Ack
<1>. QED  BY <1>1, <1>2, <1>3 DEF TypeOK, Received

LEMMA NakType ==
    ASSUME NEW c \in Station, TypeOK, Received(c), Drops(c), NoOffer(c),
           State' \in [Entry -> {"IDLE", "REQUEST", "BIND"}],
           MacAddr' \in [Entry -> Station \union {NoMac}],
           UNCHANGED <<Timeout, Lease>>
    PROVE  TypeOK'
BY DhcpConstants DEF TypeOK, Received, Drops, NoOffer, OfferTo

LEMMA FreedType ==
    ASSUME NEW m \in Entry, TypeOK
    PROVE  /\ FreedState(m) \in [Entry -> {"IDLE", "REQUEST", "BIND"}]
           /\ FreedMac(m) \in [Entry -> Station \union {NoMac}]
           /\ ErasedMac(m) \in [Entry -> Station \union {NoMac}]
BY DEF FreedState, FreedMac, ErasedMac, TypeOK

\* Init is well typed and every action keeps the types.
LEMMA TypeInit == Init => TypeOK
BY DhcpConstants DEF Init, TypeOK

LEMMA TypeStep == TypeOK /\ [Next]_vars => TypeOK'
<1>. USE DhcpConstants
<1>. SUFFICES ASSUME TypeOK, [Next]_vars PROVE TypeOK'
  OBVIOUS
<1>1. ASSUME NEW c \in Station, NEW req \in ReqIpAddrs, Discover(c, req)
      PROVE  TypeOK'
  <2>. USE <1>1
  <2>0. Received(c) /\ Drops(c)
    BY DEF Discover
  <2>1. ASSUME NEW m \in Entry, NEW r \in Entry,
               Offer(r, c, FreedState(m), ErasedMac(m))
        PROVE  TypeOK'
    BY <2>0, <2>1, FreedType, OfferType
  <2>2. ASSUME NEW m \in Entry, Offer(m, c, FreedState(m), MacAddr)
        PROVE  TypeOK'
    <3>1. MacAddr \in [Entry -> Station \union {NoMac}]
      BY DEF TypeOK
    <3>. QED  BY <2>0, <2>2, <3>1, FreedType, OfferType
  <2>3. ASSUME NEW r \in Entry, Offer(r, c, State, MacAddr)
        PROVE  TypeOK'
    <3>1. /\ State \in [Entry -> {"IDLE", "REQUEST", "BIND"}]
          /\ MacAddr \in [Entry -> Station \union {NoMac}]
      BY DEF TypeOK
    <3>. QED  BY <2>0, <2>3, <3>1, OfferType
  <2>4. CASE Nak(c) /\ UNCHANGED entries
    BY <2>0, <2>4, NakType DEF TypeOK, entries, Nak
  <2>. QED  BY <2>1, <2>2, <2>3, <2>4 DEF Discover
<1>2. ASSUME NEW c \in Station, NEW req \in ReqIpAddrs, NEW sid \in ServerIds,
             Request(c, req, sid)
      PROVE  TypeOK'
  <2>. USE <1>2
  <2>0. Received(c)
    BY DEF Request
  <2>1. ASSUME NEW m \in Entry, NEW r \in Entry,
               Acked(c, req, r, FreedState(m), FreedMac(m))
        PROVE  TypeOK'
    BY <2>0, <2>1, FreedType, AckType
  <2>2. ASSUME NEW r \in Entry, Acked(c, req, r, State, MacAddr)
        PROVE  TypeOK'
    <3>1. /\ State \in [Entry -> {"IDLE", "REQUEST", "BIND"}]
          /\ MacAddr \in [Entry -> Station \union {NoMac}]
      BY DEF TypeOK
    <3>. QED  BY <2>0, <2>2, <3>1, AckType
  <2>3. ASSUME NEW m \in Entry, State' = FreedState(m),
               MacAddr' = FreedMac(m), Refused(c),
               UNCHANGED <<Timeout, Lease>>
        PROVE  TypeOK'
    BY <2>0, <2>3, FreedType, NakType DEF Refused, Nak
  <2>4. CASE Refused(c) /\ UNCHANGED entries
    BY <2>0, <2>4, NakType DEF TypeOK, entries, Refused, Nak
  <2>. QED  BY <2>1, <2>2, <2>3, <2>4 DEF Request
<1>3. ASSUME NEW c \in Station, GiveBack(c)
      PROVE  TypeOK'
  <2>1. /\ State' \in [Entry -> {"IDLE", "REQUEST", "BIND"}]
        /\ MacAddr' \in [Entry -> Station \union {NoMac}]
        /\ UNCHANGED <<Timeout, Lease>>
    BY <1>3, FreedType DEF GiveBack, TypeOK, entries
  <2>. QED  BY <1>3, <2>1, NakType DEF GiveBack
<1>4. ASSUME NEW c \in Station, OtherFrame(c)
      PROVE  TypeOK'
  BY <1>4 DEF OtherFrame, Nak, NoOffer, OfferTo, TypeOK, Received, entries
<1>5. ASSUME NEW c \in Station, Join(c) \/ Leave(c) \/ Forget(c)
      PROVE  TypeOK'
  BY <1>5 DEF Join, Leave, Forget, Drops, TypeOK, entries, offers
<1>6. CASE Tick
  BY <1>6 DEF Tick, TypeOK
<1>7. CASE Start \/ Stop
  BY <1>7 DEF Start, Stop, TypeOK, phones, offers
<1>8. CASE UNCHANGED vars
  BY <1>8 DEF vars, entries, phones, offers, TypeOK
<1>. QED  BY <1>1, <1>2, <1>3, <1>4, <1>5, <1>6, <1>7, <1>8 DEF Next, RecvCb
-----------------------------------------------------------------------------
(* What a message may change. *)

\* A message of station c leaves the entries other stations negotiate or
\* have as they are, and c ends up with at most one such entry.
OnlyOwn(c) ==
    /\ \A i \in Entry : State[i] # "IDLE" /\ MacAddr[i] # c =>
          /\ State'[i] = State[i] /\ MacAddr'[i] = MacAddr[i]
          /\ Lease'[i] = Lease[i] /\ Timeout'[i] = Timeout[i]
    /\ \A i \in Entry : State'[i] # "IDLE" =>
          (State[i] # "IDLE" /\ MacAddr[i] # c) \/ MacAddr'[i] = c
    /\ \A i, j \in Entry :
          /\ State'[i] # "IDLE" /\ MacAddr'[i] = c
          /\ State'[j] # "IDLE" /\ MacAddr'[j] = c
          => i = j

\* All the entries of the lookup but MyClient are idle.
LEMMA LookupIdle ==
    ASSUME NEW c, NEW req
    PROVE  ReqClient(req) \subseteq Idle /\ NewClient(c, req) \subseteq Idle
BY DEF ReqClient, NewClient, MyHistory, FreeClient, HistoryClient

LEMMA OfferOnlyOwn ==
    ASSUME NEW r \in Entry, NEW c \in Station,
           NEW st \in [Entry -> {"IDLE", "REQUEST", "BIND"}],
           NEW mac \in [Entry -> Station \union {NoMac}],
           TypeOK, Offer(r, c, st, mac),
           \A i \in Entry : i # r /\ st[i] # "IDLE" =>
                i \notin MyClient(c) /\ st[i] = State[i] /\ mac[i] = MacAddr[i],
           \A i \in Entry \ Idle : i \notin MyClient(c) =>
                i # r /\ st[i] = State[i] /\ mac[i] = MacAddr[i]
    PROVE  OnlyOwn(c)
BY DEF OnlyOwn, Offer, MyClient, Idle, TypeOK

LEMMA AckOnlyOwn ==
    ASSUME NEW r \in Entry, NEW c \in Station,
           NEW st \in [Entry -> {"IDLE", "REQUEST", "BIND"}],
           NEW mac \in [Entry -> Station \union {NoMac}],
           TypeOK, Ack(r, c, st, mac),
           \A i \in Entry : i # r /\ st[i] # "IDLE" =>
                i \notin MyClient(c) /\ st[i] = State[i] /\ mac[i] = MacAddr[i],
           \A i \in Entry \ Idle : i \notin MyClient(c) =>
                i # r /\ st[i] = State[i] /\ mac[i] = MacAddr[i]
    PROVE  OnlyOwn(c)
BY DEF OnlyOwn, Ack, MyClient, Idle, TypeOK

LEMMA FreedOnlyOwn ==
    ASSUME NEW m \in Entry, NEW c \in Station, TypeOK, OneEntryEach,
           m \in MyClient(c)
    PROVE  /\ MyClient(c) = {m}
           /\ \A i \in Entry : FreedState(m)[i] # "IDLE" =>
                  /\ i \notin MyClient(c) /\ FreedState(m)[i] = State[i]
                  /\ i # m
           /\ \A i \in Entry \ Idle : i \notin MyClient(c) =>
                  i # m /\ FreedState(m)[i] = State[i]
           /\ \A i \in Entry : i # m => FreedMac(m)[i] = MacAddr[i]
<1>1. MyClient(c) = {m}
  BY DEF MyClient, OneEntryEach, Idle
<1>. QED  BY <1>1 DEF FreedState, FreedMac, TypeOK, MyClient, Idle

LEMMA IdleOnlyOwn ==
    ASSUME NEW r \in Idle, NEW c \in Station, TypeOK, MyClient(c) = {}
    PROVE  /\ \A i \in Entry : i # r /\ State[i] # "IDLE" =>
                  i \notin MyClient(c)
           /\ \A i \in Entry \ Idle : i # r
BY DEF Idle

LEMMA MessageOnlyOwn ==
    ASSUME NEW c \in Station, TypeOK, OneEntryEach, RecvCb(c)
    PROVE  OnlyOwn(c)
<1>. USE DhcpConstants
<1>0. /\ State \in [Entry -> {"IDLE", "REQUEST", "BIND"}]
      /\ MacAddr \in [Entry -> Station \union {NoMac}]
      /\ Idle \subseteq Entry
  BY DEF TypeOK, Idle
<1>a. ASSUME UNCHANGED entries PROVE OnlyOwn(c)
  BY <1>a DEF OnlyOwn, OneEntryEach, Idle, entries
<1>b. ASSUME NEW m \in MyClient(c), State' = FreedState(m),
             MacAddr' = FreedMac(m), UNCHANGED <<Timeout, Lease>>
      PROVE  OnlyOwn(c)
  <2>1. m \in Entry
    BY DEF MyClient
  <2>. QED  BY <1>0, <1>b, <2>1, FreedOnlyOwn DEF OnlyOwn, MyClient, Idle
<1>1. ASSUME NEW req \in ReqIpAddrs, Discover(c, req)
      PROVE  OnlyOwn(c)
  <2>1. ASSUME NEW m \in Entry, NEW r \in Entry,
               m \in MyClient(c), r \in ReqClient(req),
               Offer(r, c, FreedState(m), ErasedMac(m))
        PROVE  OnlyOwn(c)
    <3>1. \A i \in Entry : i # m => ErasedMac(m)[i] = MacAddr[i]
      BY <1>0 DEF ErasedMac
    <3>2. r \in Idle
      BY <2>1, LookupIdle
    <3>3. /\ \A i \in Entry : FreedState(m)[i] # "IDLE" =>
                /\ i \notin MyClient(c) /\ FreedState(m)[i] = State[i]
                /\ ErasedMac(m)[i] = MacAddr[i]
          /\ \A i \in Entry \ Idle : i \notin MyClient(c) =>
                /\ i # r /\ FreedState(m)[i] = State[i]
                /\ ErasedMac(m)[i] = MacAddr[i]
      BY <2>1, <3>1, <3>2, FreedOnlyOwn
    <3>4. /\ FreedState(m) \in [Entry -> {"IDLE", "REQUEST", "BIND"}]
          /\ ErasedMac(m) \in [Entry -> Station \union {NoMac}]
      BY FreedType
    <3>. QED  BY <2>1, <3>3, <3>4, OfferOnlyOwn
  <2>2. ASSUME NEW m \in Entry, m \in MyClient(c),
               Offer(m, c, FreedState(m), MacAddr)
        PROVE  OnlyOwn(c)
    <3>1. /\ \A i \in Entry : FreedState(m)[i] # "IDLE" =>
                i \notin MyClient(c) /\ FreedState(m)[i] = State[i]
          /\ \A i \in Entry \ Idle : i \notin MyClient(c) =>
                i # m /\ FreedState(m)[i] = State[i]
      BY <2>2, FreedOnlyOwn
    <3>2. FreedState(m) \in [Entry -> {"IDLE", "REQUEST", "BIND"}]
      BY FreedType
    <3>. QED  BY <1>0, <2>2, <3>1, <3>2, OfferOnlyOwn
  <2>3. ASSUME NEW r \in Entry, MyClient(c) = {}, r \in NewClient(c, req),
               Offer(r, c, State, MacAddr)
        PROVE  OnlyOwn(c)
    <3>1. r \in Idle
      BY <2>3, LookupIdle
    <3>. QED  BY <1>0, <2>3, <3>1, IdleOnlyOwn, OfferOnlyOwn
  <2>. QED  BY <1>1, <1>a, <2>1, <2>2, <2>3 DEF Discover, IsFirst, IsLast
<1>2. ASSUME NEW req \in ReqIpAddrs, NEW sid \in ServerIds,
             Request(c, req, sid)
      PROVE  OnlyOwn(c)
  <2>1. ASSUME NEW m \in Entry, NEW r \in Entry,
               m \in MyClient(c), r \in ReqClient(req),
               Ack(r, c, FreedState(m), FreedMac(m))
        PROVE  OnlyOwn(c)
    <3>1. r \in Idle
      BY <2>1, LookupIdle
    <3>2. /\ \A i \in Entry : FreedState(m)[i] # "IDLE" =>
                /\ i \notin MyClient(c) /\ FreedState(m)[i] = State[i]
                /\ FreedMac(m)[i] = MacAddr[i]
          /\ \A i \in Entry \ Idle : i \notin MyClient(c) =>
                /\ i # r /\ FreedState(m)[i] = State[i]
                /\ FreedMac(m)[i] = MacAddr[i]
      BY <2>1, <3>1, FreedOnlyOwn
    <3>3. /\ FreedState(m) \in [Entry -> {"IDLE", "REQUEST", "BIND"}]
          /\ FreedMac(m) \in [Entry -> Station \union {NoMac}]
      BY FreedType
    <3>. QED  BY <2>1, <3>2, <3>3, AckOnlyOwn
  <2>2. ASSUME NEW m \in Entry, m \in MyClient(c),
               Ack(m, c, State, MacAddr)
        PROVE  OnlyOwn(c)
    <3>1. MyClient(c) = {m}
      BY <2>2, FreedOnlyOwn
    <3>. QED  BY <1>0, <2>2, <3>1, AckOnlyOwn
  <2>3. ASSUME NEW r \in Entry, MyClient(c) = {}, r \in ReqClient(req),
               Ack(r, c, State, MacAddr)
        PROVE  OnlyOwn(c)
    <3>1. r \in Idle
      BY <2>3, LookupIdle
    <3>. QED  BY <1>0, <2>3, <3>1, IdleOnlyOwn, AckOnlyOwn
  <2>. QED  BY <1>2, <1>a, <1>b, <2>1, <2>2, <2>3
            DEF Request, IsFirst, IsLast, Acked
<1>3. ASSUME GiveBack(c) PROVE OnlyOwn(c)
  BY <1>3, <1>a, <1>b DEF GiveBack, IsLast
<1>4. CASE OtherFrame(c)
  BY <1>4, <1>a DEF OtherFrame
<1>. QED  BY <1>1, <1>2, <1>3, <1>4 DEF RecvCb
-----------------------------------------------------------------------------
(* The inductive invariant. *)

DhcpInv == /\ TypeOK /\ OneEntryEach /\ HoldersAreJoined
           /\ LeaseIsBacked /\ OfferIsBacked

\* The phone that sends a message either has no address afterwards, or the
\* address of the entry that is bound to it.
LEMMA OwnLease ==
    ASSUME NEW c \in Station, DhcpInv, RecvCb(c), TypeOK', holds'[c] # 0
    PROVE  /\ left'[c] > 0
           /\ \E i \in Entry : /\ State'[i] = "BIND" /\ MacAddr'[i] = c
                               /\ IpAddr(i) = holds'[c]
                               /\ left'[c] <= Lease'[i]
<1>. USE DhcpConstants DEF DhcpInv
<1>1. ~Drops(c)
  BY DEF Drops, TypeOK
<1>2. ASSUME UNCHANGED <<entries, holds, left>>
      PROVE  /\ left'[c] > 0
             /\ \E i \in Entry : /\ State'[i] = "BIND" /\ MacAddr'[i] = c
                                 /\ IpAddr(i) = holds'[c]
                                 /\ left'[c] <= Lease'[i]
  BY <1>2 DEF LeaseIsBacked, entries
<1>3. ASSUME NEW r \in Entry, NEW st, NEW mac,
             st \in [Entry -> {"IDLE", "REQUEST", "BIND"}],
             Ack(r, c, st, mac), Delivered(c, IpAddr(r))
      PROVE  /\ left'[c] > 0
             /\ \E i \in Entry : /\ State'[i] = "BIND" /\ MacAddr'[i] = c
                                 /\ IpAddr(i) = holds'[c]
                                 /\ left'[c] <= Lease'[i]
  BY <1>3 DEF Ack, Delivered, TypeOK
<1>4. ASSUME NEW req \in ReqIpAddrs, NEW sid \in ServerIds,
             Request(c, req, sid)
      PROVE  /\ left'[c] > 0
             /\ \E i \in Entry : /\ State'[i] = "BIND" /\ MacAddr'[i] = c
                                 /\ IpAddr(i) = holds'[c]
                                 /\ left'[c] <= Lease'[i]
  <2>1. PICK r \in Entry, st \in [Entry -> {"IDLE", "REQUEST", "BIND"}],
             mac \in [Entry -> Station \union {NoMac}] :
             /\ Acked(c, req, r, st, mac)
             /\ r \in ReqClient(req) \/ r \in MyClient(c)
    <3>1. /\ State \in [Entry -> {"IDLE", "REQUEST", "BIND"}]
          /\ MacAddr \in [Entry -> Station \union {NoMac}]
      BY DEF TypeOK
    <3>. QED  BY <1>1, <1>4, <3>1, FreedType
              DEF Request, Refused, IsFirst, IsLast
  <2>2. CASE Delivered(c, IpAddr(r))
    BY <1>3, <2>1, <2>2 DEF Acked
  <2>3. CASE AckLost(c, req)
    <3>1. req = 0 /\ UNCHANGED <<holds, left>>
      BY <1>1, <2>3 DEF AckLost
    <3>2. PICK i \in Entry : /\ State[i] = "BIND" /\ MacAddr[i] = c
                             /\ IpAddr(i) = holds[c] /\ left[c] <= Lease[i]
      BY <3>1 DEF LeaseIsBacked
    <3>3. r \notin ReqClient(req)
      BY <3>1, PoolAddresses DEF ReqClient, Entry
    <3>4. r = i
      BY <2>1, <3>2, <3>3 DEF MyClient, Idle, OneEntryEach
    <3>5. State'[r] = "BIND" /\ MacAddr'[r] = c
      BY <2>1 DEF Acked, Ack
    <3>6. Lease'[r] = DHCP_DEFAULT_LEASE_TIME
      BY <2>1 DEF Acked, Ack, TypeOK
    <3>7. left[c] \in 0..DHCP_DEFAULT_LEASE_TIME /\ left[c] > 0
      BY <3>1 DEF TypeOK, LeaseIsBacked
    <3>. QED  BY <3>1, <3>2, <3>4, <3>5, <3>6, <3>7
  <2>. QED  BY <2>1, <2>2, <2>3 DEF Acked
<1>. QED  BY <1>1, <1>2, <1>4 DEF RecvCb, Discover, GiveBack, OtherFrame

\* A message leaves its sender without an offer, or offers it an entry that
\* then waits as long as the phone does.
LEMMA OwnOffer ==
    ASSUME NEW c \in Station, DhcpInv, RecvCb(c)
    PROVE  \/ NoOffer(c)
           \/ \E i \in Entry : /\ State'[i] = "REQUEST" /\ MacAddr'[i] = c
                               /\ Timeout'[i] = DHCP_DEFFAULT_TIMEOUT
                               /\ OfferTo(c, IpAddr(i), DHCP_DEFFAULT_TIMEOUT)
<1>1. ASSUME NEW req \in ReqIpAddrs, Discover(c, req), ~NoOffer(c)
      PROVE  \E i \in Entry : /\ State'[i] = "REQUEST" /\ MacAddr'[i] = c
                              /\ Timeout'[i] = DHCP_DEFFAULT_TIMEOUT
                              /\ OfferTo(c, IpAddr(i), DHCP_DEFFAULT_TIMEOUT)
  <2>0. /\ State \in [Entry -> {"IDLE", "REQUEST", "BIND"}]
        /\ MacAddr \in [Entry -> Station \union {NoMac}]
        /\ Timeout \in [Entry -> 0..DHCP_DEFFAULT_TIMEOUT]
    BY DEF DhcpInv, TypeOK
  <2>1. PICK r \in Entry, st \in [Entry -> {"IDLE", "REQUEST", "BIND"}],
             mac \in [Entry -> Station \union {NoMac}] : Offer(r, c, st, mac)
    BY <1>1, <2>0, FreedType DEF Discover, Nak, DhcpInv
  <2>. QED  BY <2>0, <2>1 DEF Offer
<1>2. ASSUME NEW req \in ReqIpAddrs, NEW sid \in ServerIds, Request(c, req, sid)
      PROVE  NoOffer(c)
  BY <1>2 DEF Request, Acked, Refused, Nak
<1>. QED  BY <1>1, <1>2 DEF RecvCb, GiveBack, OtherFrame, Nak

\* A message changes the address and the offer of its sender only.
LEMMA OthersKeep ==
    ASSUME NEW c \in Station, NEW d \in Station \ {c}, DhcpInv, RecvCb(c)
    PROVE  /\ holds'[d] = holds[d] /\ left'[d] = left[d]
           /\ offered'[d] = offered[d] /\ offerLeft'[d] = offerLeft[d]
<1>1. Drops(c) \/ UNCHANGED <<holds, left>> \/ \E ip : Delivered(c, ip)
  BY DEF RecvCb, Discover, Request, GiveBack, OtherFrame, Refused, Acked,
         AckLost
<1>2. \E ip, ticks : OfferTo(c, ip, ticks)
  BY OwnOffer DEF NoOffer
<1>3. holds'[d] = holds[d] /\ left'[d] = left[d]
  BY <1>1 DEF Drops, Delivered, DhcpInv, TypeOK
<1>. QED  BY <1>2, <1>3 DEF OfferTo, DhcpInv, TypeOK

LEMMA InvStep == DhcpInv /\ [Next]_vars => DhcpInv'
<1>. USE DhcpConstants
<1>. SUFFICES ASSUME DhcpInv, [Next]_vars PROVE DhcpInv'
  OBVIOUS
<1>. USE DEF DhcpInv
<1>0. TypeOK'
  BY TypeStep
<1>1. ASSUME NEW c \in Station, RecvCb(c)
      PROVE  DhcpInv'
  <2>1. OnlyOwn(c)
    BY <1>1, MessageOnlyOwn
  <2>2. OneEntryEach'
    BY <2>1 DEF OnlyOwn, OneEntryEach, Idle
  <2>3. Enable = "on" /\ c \in joined /\ UNCHANGED <<Enable, joined>>
    BY <1>1 DEF RecvCb, Discover, Request, GiveBack, OtherFrame, Received
  <2>4. HoldersAreJoined'
    BY <2>3, <1>1, OthersKeep DEF HoldersAreJoined
  <2>5. ASSUME NEW d \in Station, holds'[d] # 0
        PROVE  /\ left'[d] > 0
               /\ \E i \in Entry : /\ State'[i] = "BIND" /\ MacAddr'[i] = d
                                   /\ IpAddr(i) = holds'[d]
                                   /\ left'[d] <= Lease'[i]
    <3>1. CASE d = c
      BY <1>0, <1>1, <2>5, <3>1, OwnLease
    <3>2. CASE d # c
      <4>1. holds'[d] = holds[d] /\ left'[d] = left[d]
        BY <1>1, <3>2, OthersKeep
      <4>2. PICK i \in Entry : /\ State[i] = "BIND" /\ MacAddr[i] = d
                               /\ IpAddr(i) = holds[d] /\ left[d] <= Lease[i]
        BY <2>5, <4>1 DEF LeaseIsBacked
      <4>3. /\ State'[i] = State[i] /\ MacAddr'[i] = MacAddr[i]
            /\ Lease'[i] = Lease[i]
        BY <2>1, <3>2, <4>2 DEF OnlyOwn
      <4>. QED  BY <2>5, <4>1, <4>2, <4>3 DEF LeaseIsBacked
    <3>. QED  BY <3>1, <3>2
  <2>6. LeaseIsBacked'
    BY <2>5 DEF LeaseIsBacked
  <2>7. ASSUME NEW d \in Station, offered'[d] # 0
        PROVE  /\ offerLeft'[d] > 0
               /\ \E i \in Entry : /\ State'[i] = "REQUEST" /\ MacAddr'[i] = d
                                   /\ IpAddr(i) = offered'[d]
                                   /\ offerLeft'[d] <= Timeout'[i]
    <3>1. CASE d = c
      <4>1. ~NoOffer(c)
        BY <2>7, <3>1 DEF NoOffer, OfferTo, TypeOK
      <4>2. PICK i \in Entry : /\ State'[i] = "REQUEST" /\ MacAddr'[i] = c
                               /\ Timeout'[i] = DHCP_DEFFAULT_TIMEOUT
                               /\ OfferTo(c, IpAddr(i), DHCP_DEFFAULT_TIMEOUT)
        BY <1>1, <4>1, OwnOffer
      <4>3. offered'[c] = IpAddr(i) /\ offerLeft'[c] = DHCP_DEFFAULT_TIMEOUT
        BY <4>2 DEF OfferTo, TypeOK
      <4>. QED  BY <3>1, <4>2, <4>3
    <3>2. CASE d # c
      <4>1. offered'[d] = offered[d] /\ offerLeft'[d] = offerLeft[d]
        BY <1>1, <3>2, OthersKeep
      <4>2. PICK i \in Entry : /\ State[i] = "REQUEST" /\ MacAddr[i] = d
                               /\ IpAddr(i) = offered[d]
                               /\ offerLeft[d] <= Timeout[i]
        BY <2>7, <4>1 DEF OfferIsBacked
      <4>3. /\ State'[i] = State[i] /\ MacAddr'[i] = MacAddr[i]
            /\ Timeout'[i] = Timeout[i]
        BY <2>1, <3>2, <4>2 DEF OnlyOwn
      <4>. QED  BY <2>7, <4>1, <4>2, <4>3 DEF OfferIsBacked
    <3>. QED  BY <3>1, <3>2
  <2>8. OfferIsBacked'
    BY <2>7 DEF OfferIsBacked
  <2>. QED  BY <1>0, <2>2, <2>4, <2>6, <2>8
<1>2. ASSUME NEW c \in Station, Join(c) \/ Leave(c) \/ Forget(c)
      PROVE  DhcpInv'
  <2>1. UNCHANGED entries
    BY <1>2 DEF Join, Leave, Forget
  <2>2. UNCHANGED offers
    BY <1>2 DEF Join, Leave, Forget
  <2>3. \A d \in Station : holds'[d] # 0 =>
            holds'[d] = holds[d] /\ left'[d] = left[d] /\ d \in joined'
    BY <1>2 DEF Join, Leave, Forget, Drops, TypeOK, HoldersAreJoined
  <2>4. OneEntryEach'
    BY <2>1 DEF OneEntryEach, Idle, entries
  <2>5. LeaseIsBacked'
    BY <2>1, <2>3 DEF LeaseIsBacked, entries
  <2>6. \A d \in Station : d \in joined' \/ offered'[d] # 0 => Enable' = "on"
    BY <1>2, <2>2 DEF Join, Leave, Forget, HoldersAreJoined, offers
  <2>7. OfferIsBacked'
    BY <2>1, <2>2 DEF OfferIsBacked, entries, offers
  <2>. QED  BY <1>0, <2>3, <2>4, <2>5, <2>6, <2>7 DEF HoldersAreJoined
<1>3. CASE Tick
  <2>. USE <1>3
  <2>1. OneEntryEach'
    BY DEF Tick, OneEntryEach, Idle, Expires, TypeOK
  <2>2. HoldersAreJoined'
    BY DEF Tick, HoldersAreJoined, TypeOK
  <2>3. ASSUME NEW d \in Station, holds'[d] # 0
        PROVE  /\ left'[d] > 0
               /\ \E i \in Entry : /\ State'[i] = "BIND" /\ MacAddr'[i] = d
                                   /\ IpAddr(i) = holds'[d]
                                   /\ left'[d] <= Lease'[i]
    <3>1. /\ left[d] > 1 /\ left'[d] = left[d] - 1 /\ left[d] \in Nat
          /\ holds'[d] = holds[d] /\ d \in joined
      BY <2>3 DEF Tick, TypeOK, HoldersAreJoined
    <3>2. PICK i \in Entry : /\ State[i] = "BIND" /\ MacAddr[i] = d
                             /\ IpAddr(i) = holds[d] /\ left[d] <= Lease[i]
      BY <2>3, <3>1 DEF LeaseIsBacked
    <3>3. Lease[i] \in Nat
      BY DEF TypeOK
    <3>4. ~Expires(i)
      BY <3>1, <3>2, <3>3 DEF Expires
    <3>5. /\ State'[i] = "BIND" /\ MacAddr'[i] = d
          /\ Lease'[i] = Lease[i] - 1
      BY <3>1, <3>2, <3>3, <3>4 DEF Tick
    <3>. QED  BY <3>1, <3>2, <3>3, <3>5
  <2>4. LeaseIsBacked'
    BY <2>3 DEF LeaseIsBacked
  <2>5. ASSUME NEW d \in Station, offered'[d] # 0
        PROVE  /\ offerLeft'[d] > 0
               /\ \E i \in Entry : /\ State'[i] = "REQUEST" /\ MacAddr'[i] = d
                                   /\ IpAddr(i) = offered'[d]
                                   /\ offerLeft'[d] <= Timeout'[i]
    <3>1. /\ offerLeft[d] > 1 /\ offerLeft'[d] = offerLeft[d] - 1
          /\ offerLeft[d] \in Nat /\ offered'[d] = offered[d]
      BY <2>5 DEF Tick, TypeOK
    <3>2. PICK i \in Entry : /\ State[i] = "REQUEST" /\ MacAddr[i] = d
                             /\ IpAddr(i) = offered[d]
                             /\ offerLeft[d] <= Timeout[i]
      BY <2>5, <3>1 DEF OfferIsBacked
    <3>3. Timeout[i] \in Nat
      BY DEF TypeOK
    <3>4. ~Expires(i)
      BY <3>1, <3>2, <3>3 DEF Expires
    <3>5. /\ State'[i] = "REQUEST" /\ MacAddr'[i] = d
          /\ Timeout'[i] = Timeout[i] - 1
      BY <3>1, <3>2, <3>3, <3>4 DEF Tick
    <3>. QED  BY <3>1, <3>2, <3>3, <3>5
  <2>6. OfferIsBacked'
    BY <2>5 DEF OfferIsBacked
  <2>. QED  BY <1>0, <2>1, <2>2, <2>4, <2>6
<1>4. CASE Start
  <2>1. \A c \in Station : holds[c] = 0 /\ offered[c] = 0 /\ c \notin joined
    \* the server is off, so no phone is joined or has an offer
    BY <1>4 DEF Start, HoldersAreJoined
  <2>2. /\ UNCHANGED <<joined, holds, offered>>
        /\ \A i \in Entry : State'[i] = "IDLE"
    BY <1>4 DEF Start, phones, offers
  <2>. QED  BY <1>0, <2>1, <2>2 DEF OneEntryEach, Idle, HoldersAreJoined,
                                    LeaseIsBacked, OfferIsBacked
<1>5. CASE Stop
  BY <1>0, <1>5 DEF Stop, OneEntryEach, Idle, HoldersAreJoined, LeaseIsBacked,
                    OfferIsBacked
<1>6. CASE UNCHANGED vars
  BY <1>6 DEF vars, entries, phones, offers, TypeOK, OneEntryEach, Idle,
              HoldersAreJoined, LeaseIsBacked, OfferIsBacked
<1>. QED  BY <1>1, <1>2, <1>3, <1>4, <1>5, <1>6 DEF Next
-----------------------------------------------------------------------------
(* The theorems. *)

LEMMA InvInit == Init => DhcpInv
<1>1. Init => /\ OneEntryEach /\ HoldersAreJoined
              /\ LeaseIsBacked /\ OfferIsBacked
  BY DEF Init, OneEntryEach, Idle, HoldersAreJoined, LeaseIsBacked,
         OfferIsBacked
<1>. QED  BY <1>1, TypeInit DEF DhcpInv

LEMMA DhcpInvariant == Spec => []DhcpInv
BY InvInit, InvStep, PTL DEF Spec

\* Every variable of the server keeps its type.
THEOREM TypeCorrect == Spec => []TypeOK
<1>1. DhcpInv => TypeOK
  BY DEF DhcpInv
<1>. QED  BY <1>1, DhcpInvariant, PTL

\* _ClientTableLookup never leaves two live entries to one station.
THEOREM OneEntryTheorem == Spec => []OneEntryEach
<1>1. DhcpInv => OneEntryEach
  BY DEF DhcpInv
<1>. QED  BY <1>1, DhcpInvariant, PTL

\* The table never forgets a lease before the phone does.
THEOREM LeaseTheorem == Spec => []LeaseIsBacked
<1>1. DhcpInv => LeaseIsBacked
  BY DEF DhcpInv
<1>. QED  BY <1>1, DhcpInvariant, PTL

\* No two phones use the same address: each has an entry bound to it, and
\* the entries' addresses differ.
THEOREM ExclusiveTheorem == Spec => []ExclusiveAddresses
<1>1. DhcpInv => ExclusiveAddresses
  <2>. SUFFICES ASSUME DhcpInv, NEW c \in Station, NEW d \in Station,
                       c # d, holds[c] # 0, holds[c] = holds[d]
                PROVE  FALSE
    BY DEF ExclusiveAddresses
  <2>1. PICK i \in Entry : MacAddr[i] = c /\ IpAddr(i) = holds[c]
    BY DEF DhcpInv, LeaseIsBacked
  <2>2. PICK j \in Entry : MacAddr[j] = d /\ IpAddr(j) = holds[c]
    BY DEF DhcpInv, LeaseIsBacked
  <2>3. i = j
    BY <2>1, <2>2, PoolAddresses, DhcpConstants DEF Entry
  <2>. QED  BY <2>1, <2>2, <2>3
<1>. QED  BY <1>1, DhcpInvariant, PTL

-----------------------------------------------------------------------------
(* The history of the stations, and the promise of an offer. *)

\* The same as OneHistoryEach, of a table that is given.
HistoryOf(st, mac) ==
    \A i, j \in Entry :
        /\ i # j /\ st[i] = "IDLE" /\ mac[i] # NoMac /\ mac[i] = mac[j]
        => st[j] = "REQUEST"

\* An entry that is freed is remembered only if it was bound, and then there
\* was no other entry of its station.
LEMMA FreedHistory ==
    ASSUME NEW m \in Entry \ Idle, TypeOK, OneEntryEach, OneHistoryEach
    PROVE  HistoryOf(FreedState(m), FreedMac(m))
<1> SUFFICES ASSUME NEW i \in Entry, NEW j \in Entry, i # j, FreedState(m)[i] = "IDLE",
                    FreedMac(m)[i] # NoMac, FreedMac(m)[i] = FreedMac(m)[j]
             PROVE  FreedState(m)[j] = "REQUEST"
  BY DEF HistoryOf
<1> USE DEF TypeOK, Idle, FreedState, FreedMac, OneEntryEach, OneHistoryEach
<1>1. CASE i = m
  BY <1>1
<1>2. CASE i # m /\ j = m
  BY <1>2
<1>3. CASE i # m /\ j # m
  BY <1>3
<1> QED
  BY <1>1, <1>2, <1>3

\* An offer makes an entry that is not idle; whatever entry of the station
\* was freed for it is erased.
LEMMA OfferHistory ==
    ASSUME NEW r \in Entry, NEW c \in Station, TypeOK,
           NEW st \in [Entry -> {"IDLE", "REQUEST", "BIND"}],
           NEW mac \in [Entry -> Station \union {NoMac}],
           \A i, j \in Entry \ {r} :
              /\ i # j /\ st[i] = "IDLE" /\ mac[i] # NoMac /\ mac[i] = mac[j]
              => st[j] = "REQUEST",
           Offer(r, c, st, mac)
    PROVE  OneHistoryEach'
BY DEF Offer, OneHistoryEach, Idle

\* Binding an entry erases the history of its station.
LEMMA AckHistory ==
    ASSUME NEW r \in Entry, NEW c \in Station, TypeOK,
           NEW st \in [Entry -> {"IDLE", "REQUEST", "BIND"}],
           NEW mac \in [Entry -> Station \union {NoMac}],
           HistoryOf(st, mac), Ack(r, c, st, mac)
    PROVE  OneHistoryEach'
<1> SUFFICES ASSUME NEW i \in Idle', NEW j \in Entry, i # j, MacAddr'[i] # NoMac,
                    MacAddr'[i] = MacAddr'[j]
             PROVE  State'[j] = "REQUEST"
  BY DEF OneHistoryEach
<1>1. i \in Entry /\ i # r /\ st[i] = "IDLE" /\ MacAddr'[i] = mac[i] /\ mac[i] # c
  BY DEF Ack, Idle
<1>2. j # r
  BY <1>1 DEF Ack
<1>3. MacAddr'[j] = mac[j] /\ State'[j] = st[j]
  BY <1>1, <1>2 DEF Ack
<1> QED
  BY <1>1, <1>2, <1>3 DEF HistoryOf

LEMMA MessageHistory ==
    ASSUME NEW c \in Station, TypeOK, OneEntryEach, OneHistoryEach, RecvCb(c)
    PROVE  OneHistoryEach'
<1>0. /\ State \in [Entry -> {"IDLE", "REQUEST", "BIND"}]
      /\ MacAddr \in [Entry -> Station \union {NoMac}]
      /\ HistoryOf(State, MacAddr) /\ MyClient(c) \subseteq Entry \ Idle
  BY DEF TypeOK, Idle, OneHistoryEach, HistoryOf, MyClient
<1>a. ASSUME UNCHANGED entries PROVE OneHistoryEach'
  BY <1>a DEF OneHistoryEach, Idle, entries
<1>b. ASSUME NEW m \in MyClient(c), State' = FreedState(m), MacAddr' = FreedMac(m)
      PROVE  OneHistoryEach'
  BY <1>0, <1>b, FreedHistory DEF OneHistoryEach, HistoryOf, Idle
<1>1. ASSUME NEW req \in ReqIpAddrs, Discover(c, req)
      PROVE  OneHistoryEach'
  <2>1. ASSUME NEW m \in Entry, NEW r \in Entry, m \in MyClient(c),
               Offer(r, c, FreedState(m), ErasedMac(m))
        PROVE  OneHistoryEach'
    <3>1. \A i, j \in Entry \ {r} :
            /\ i # j /\ FreedState(m)[i] = "IDLE" /\ ErasedMac(m)[i] # NoMac
            /\ ErasedMac(m)[i] = ErasedMac(m)[j]
            => FreedState(m)[j] = "REQUEST"
      BY <1>0 DEF FreedState, ErasedMac, HistoryOf
    <3> QED
      BY <2>1, <3>1, FreedType, OfferHistory
  <2>2. ASSUME NEW m \in Entry, m \in MyClient(c),
               Offer(m, c, FreedState(m), MacAddr)
        PROVE  OneHistoryEach'
    <3>1. \A i, j \in Entry \ {m} :
            /\ i # j /\ FreedState(m)[i] = "IDLE" /\ MacAddr[i] # NoMac
            /\ MacAddr[i] = MacAddr[j]
            => FreedState(m)[j] = "REQUEST"
      BY <1>0 DEF FreedState, HistoryOf
    <3> QED
      BY <1>0, <2>2, <3>1, FreedType, OfferHistory
  <2>3. ASSUME NEW r \in Entry, Offer(r, c, State, MacAddr)
        PROVE  OneHistoryEach'
    BY <1>0, <2>3, OfferHistory DEF HistoryOf
  <2> QED
    BY <1>1, <1>a, <2>1, <2>2, <2>3 DEF Discover, IsLast
<1>2. ASSUME NEW req \in ReqIpAddrs, NEW sid \in ServerIds, Request(c, req, sid)
      PROVE  OneHistoryEach'
  <2>1. ASSUME NEW m \in Entry, NEW r \in Entry, m \in MyClient(c),
               Ack(r, c, FreedState(m), FreedMac(m))
        PROVE  OneHistoryEach'
    BY <1>0, <2>1, FreedType, FreedHistory, AckHistory
  <2>2. ASSUME NEW r \in Entry, Ack(r, c, State, MacAddr)
        PROVE  OneHistoryEach'
    BY <1>0, <2>2, AckHistory
  <2> QED
    BY <1>2, <1>a, <1>b, <2>1, <2>2 DEF Request, Acked, IsLast
<1>3. ASSUME GiveBack(c) PROVE OneHistoryEach'
  BY <1>3, <1>a, <1>b DEF GiveBack, IsLast
<1>4. CASE OtherFrame(c)
  BY <1>4, <1>a DEF OtherFrame
<1> QED
  BY <1>1, <1>2, <1>3, <1>4 DEF RecvCb

\* A station is remembered by one entry, and by none while it has a lease:
\* every path of _ClientTableLookup and _CleanClientHistory keeps this.
THEOREM HistoryTheorem == Spec => []OneHistoryEach
<1>1. Init => OneHistoryEach
  BY DEF Init, OneHistoryEach
<1>2. ASSUME DhcpInv, OneHistoryEach, [Next]_vars PROVE OneHistoryEach'
  <2>1. ASSUME NEW c \in Station, RecvCb(c) PROVE OneHistoryEach'
    BY <1>2, <2>1, MessageHistory DEF DhcpInv
  <2>2. CASE UNCHANGED entries
    BY <1>2, <2>2 DEF OneHistoryEach, Idle, entries
  <2>3. CASE Tick
    <3> SUFFICES ASSUME NEW i \in Entry, NEW j \in Entry, i # j, State'[i] = "IDLE",
                        MacAddr'[i] # NoMac, MacAddr'[i] = MacAddr'[j]
                 PROVE  State'[j] = "REQUEST"
      BY DEF OneHistoryEach, Idle
    <3>1. /\ \A k \in {i, j} : MacAddr'[k] = MacAddr[k]
          /\ State[i] # "REQUEST" /\ ~(State[j] = "REQUEST" /\ Expires(j))
      BY <1>2, <2>3 DEF Tick, Expires, DhcpInv, TypeOK
    <3> QED
      BY <1>2, <2>3, <3>1
         DEF Tick, OneHistoryEach, OneEntryEach, Idle, DhcpInv, TypeOK
  <2>4. CASE Start \/ Stop
    BY <2>4 DEF Start, Stop, OneHistoryEach
  <2> QED
    BY <1>2, <2>1, <2>2, <2>3, <2>4 DEF Next, Join, Leave, Forget, vars
<1> QED
  BY <1>1, <1>2, DhcpInvariant, PTL DEF Spec

\* A phone gets what it was promised: as long as by its own count its offer
\* or its lease runs, the table has one live entry of it with that address, so
\* a REQUEST finds the address available and that entry the one to bind.
THEOREM PromiseTheorem == Spec => PromiseKept
<1>1. ASSUME DhcpInv, NEW c \in Station, NEW i \in Entry, NEW req \in ReqIpAddrs,
             \/ IpAddr(i) = offered[c] /\ req = offered[c]
             \/ IpAddr(i) = holds[c] /\ req \in {0, holds[c]},
             NEW sid \in ServerIds \ {"other"}, Request(c, req, sid)
      PROVE  /\ State'[i] = "BIND" /\ MacAddr'[i] = c
             /\ Lease'[i] = DHCP_DEFAULT_LEASE_TIME
  <2>0. \A j, k \in Entry : /\ IpAddr(j) # 0
                            /\ IpAddr(j) = IpAddr(k) => j = k
    BY PoolAddresses, DhcpConstants DEF Entry
  <2>1. State[i] # "IDLE" /\ MacAddr[i] = c
    <3>1. CASE IpAddr(i) = offered[c]
      <4>1. PICK j \in Entry : /\ State[j] = "REQUEST" /\ MacAddr[j] = c
                               /\ IpAddr(j) = offered[c]
        BY <1>1, <2>0, <3>1 DEF DhcpInv, OfferIsBacked
      <4>. QED  BY <2>0, <3>1, <4>1
    <3>2. CASE IpAddr(i) = holds[c]
      <4>1. PICK j \in Entry : /\ State[j] = "BIND" /\ MacAddr[j] = c
                               /\ IpAddr(j) = holds[c]
        BY <1>1, <2>0, <3>2 DEF DhcpInv, LeaseIsBacked
      <4>. QED  BY <2>0, <3>2, <4>1
    <3>. QED  BY <1>1, <3>1, <3>2
  <2>2. MyClient(c) = {i}
    BY <1>1, <2>1 DEF DhcpInv, MyClient, Idle, OneEntryEach
  <2>3. \A k \in Entry : IpAddr(k) = req => k = i
    BY <1>1, <2>0
  <2>4. ~IpUnavailable(c, req) /\ ReqClient(req) = {}
    BY <2>1, <2>3 DEF IpUnavailable, ReqClient, Idle
  <2>5. Acked(c, req, i, State, MacAddr)
    BY <1>1, <2>2, <2>4 DEF Request, IsFirst, IsLast
  <2>. QED  BY <1>1, <2>5 DEF Acked, Ack, DhcpInv, TypeOK
<1>2. DhcpInv => [\A c \in Station, i \in Entry, req \in ReqIpAddrs :
        /\ \/ IpAddr(i) = offered[c] /\ req = offered[c]
           \/ IpAddr(i) = holds[c] /\ req \in {0, holds[c]}
        /\ \E sid \in ServerIds \ {"other"} : Request(c, req, sid)
        => /\ State'[i] = "BIND" /\ MacAddr'[i] = c
           /\ Lease'[i] = DHCP_DEFAULT_LEASE_TIME]_vars
  BY <1>1
<1>. QED  BY <1>2, DhcpInvariant, PTL DEF PromiseKept
=============================================================================
