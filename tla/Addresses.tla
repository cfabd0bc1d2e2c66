----------------------------- MODULE Addresses -----------------------------
(***************************************************************************)
(* The addresses of a datacenter (Datacenter.cpp) and the connections that *)
(* share them (Connection.cpp): five lists, for each the number of the     *)
(* current address and of the current port, how connect chooses among      *)
(* them, how a connection that fails moves the numbers on, and how lists   *)
(* and numbers are replaced, stored and loaded.                            *)
(*                                                                         *)
(* An address is its ip and two facts: it is static, and it has a secret;  *)
(* its own port is named by its ip.  A port number above 3 cannot occur:   *)
(* the numbers are stored as they are used.  CDN datacenters and the loss  *)
(* of the network are left out.                                            *)
(***************************************************************************)
EXTENDS Integers, Sequences, FiniteSetsExt, SequencesExt

CONSTANTS
    Backend,      \* the ip the application was built with
    Kinds,        \* per connection, see ConnectionKinds
    Configs,      \* bound: the lists a configuration may bring
    TempLists,    \* bound: the lists a dns configuration may bring
    Modes,        \* bound: <<IPv6 is used, a proxy is set>>
    Endpoints,    \* <<ip, port>> where the server may answer
    Retries,      \* failures before the numbers are moved: 1, or 3 with useful data
    MaxTroubles   \* bound: events other than connecting and failing to

(* Uploads are "generic", downloads are "media". *)
ConnectionKinds == {"generic", "push", "media", "temp"}

ASSUME AddressesAssumption ==
    /\ Retries \subseteq Nat \ {0}
    /\ MaxTroubles \in Nat
    /\ \A c \in DOMAIN Kinds : Kinds[c] \in ConnectionKinds

Conns == DOMAIN Kinds
Lists == {"v4", "v6", "v4d", "v6d", "temp"}
Stored == Lists \ {"temp"}

VARIABLES
    list,      \* the five vectors of addresses
    now,       \* num: currentAddressNum..., from 0; port: currentPortNum...
    file,      \* the numbers in the configuration file of the datacenter
    key,       \* authKeyPerm != nullptr
    ipv6,      \* isIpv6Enabled
    proxied,   \* a proxy is set
    conn,      \* the connections
    live,      \* the endpoint at which the server answers
    troubles   \* troubles so far

vars == <<list, now, file, key, ipv6, proxied, conn, live, troubles>>
dc == <<list, now, file, key>>
world == <<ipv6, proxied, live>>

----------------------------------------------------------------------------
(* Which list the flags of a connection mean; without a key the temporary
   addresses stand in for flags 0. *)
Flags == {"temp", "download", "ipv6", "static"}

ListFor ==
    [f \in SUBSET Flags |->
        CASE "temp" \in f -> "temp"
          [] "temp" \notin f /\ {"download", "ipv6"} \subseteq f -> "v6d"
          [] "temp" \notin f /\ "download" \in f /\ "ipv6" \notin f -> "v4d"
          [] "temp" \notin f /\ "download" \notin f /\ "ipv6" \in f -> "v6"
          [] OTHER -> "v4"]

Elsewhere(l) == l = "v4" /\ ~key /\ list["temp"] # <<>>

ListOf(flags) == IF flags = {} /\ Elsewhere("v4") THEN "temp" ELSE ListFor[flags]

Statics(l) == {i \in DOMAIN list[l] : list[l][i].static}

(* getCurrentAddress: the place in the list, and the number it leaves. *)
InRange(n, addresses) == IF addresses # <<>> /\ n >= Len(addresses) THEN 0 ELSE n

Fixed(flags) == "static" \in flags /\ Statics(ListOf(flags)) # {}

Place(flags, l) ==
    IF "static" \in flags /\ Statics(l) # {} THEN Min(Statics(l)) ELSE InRange(now.num[l], list[l]) + 1

getCurrentAddress(flags) == list[ListOf(flags)][Place(flags, ListOf(flags))]

(* defaultPorts: -1, which is the port of the address, 2045, 2045, -1. *)
getCurrentPort(flags) ==
    IF list[ListOf(flags)] = <<>> THEN "443"
    ELSE IF getCurrentAddress(flags).secret \/ now.port[ListOf(flags)] \in {0, 3}
         THEN getCurrentAddress(flags).ip
         ELSE "2045"

(* connect: the flags are tried in this order, the first that lead to a list
   with an address are taken.  The port is chosen without the ipv6 flag, and
   so is the list whose numbers a failure moves on. *)
Attempts ==
    [kind \in ConnectionKinds, six \in BOOLEAN, static \in BOOLEAN |->
        LET plain == IF static THEN {"static"} ELSE {}
            media == {"download"} \cup plain
            order == IF kind = "media" THEN <<media, plain>> ELSE <<plain>>
        IN  IF kind = "temp" THEN <<{"temp"}>>
            ELSE IF six THEN [i \in DOMAIN order |-> order[i] \cup {"ipv6"}] \o order
            ELSE order]

FirstWithAddress(attempts) ==
    LET found == {i \in DOMAIN attempts : list[ListOf(attempts[i])] # <<>>}
    IN  attempts[Min(found \cup {Len(attempts)})]

Chosen(c) == FirstWithAddress(Attempts[Kinds[c], ipv6, proxied])

Endpoint(flags) ==
    IF list[ListOf(flags)] = <<>> THEN <<"none", "443">>
    ELSE <<getCurrentAddress(flags).ip,
           IF proxied THEN getCurrentAddress(flags).ip ELSE getCurrentPort(flags \ {"ipv6"})>>

Target(c) == CHOOSE e \in {Endpoint(f) : f \in {Chosen(c)}} : TRUE

----------------------------------------------------------------------------
Fresh == [st |-> "idle", at |-> <<"none", "443">>, flags |-> {}, failed |-> 0,
          retry |-> Min(Retries), force |-> FALSE]

Zero == [num |-> [l \in Lists |-> 0], port |-> [l \in Lists |-> 0]]

Plain(ip) == [ip |-> ip, static |-> FALSE, secret |-> FALSE]

Init ==
    /\ list = [l \in Lists |-> IF l = "v4" THEN <<Plain(Backend)>> ELSE <<>>]
    /\ now = Zero /\ file = Zero
    /\ key \in BOOLEAN
    /\ \E mode \in Modes : ipv6 = mode[1] /\ proxied = mode[2]
    /\ conn = [c \in Conns |-> Fresh]
    /\ live \in {{e} : e \in Endpoints}
    /\ troubles = 0

Trouble == troubles < MaxTroubles /\ troubles' = troubles + 1

NextPort(l) == [now EXCEPT !.port[l] = @ + 1]

NextAddress(l) ==
    [num |-> [now.num EXCEPT ![l] = IF @ + 1 < Len(list[l]) THEN @ + 1 ELSE 0],
     port |-> [now.port EXCEPT ![l] = 0]]

(* Varies nextAddressOrPort: one port too many before the next address. *)
NextPortBeyond(flags) ==
    LET l == ListOf(flags)
    IN  IF now.port[l] < 4 THEN NextPort(l) ELSE NextAddress(l)

(* Varies nextAddressOrPort: the address is never left. *)
NextPortOnly(flags) ==
    LET l == ListOf(flags)
    IN  IF now.port[l] < 3 THEN NextPort(l) ELSE [now EXCEPT !.port[l] = 0]

nextAddressOrPort(flags) ==
    LET l == ListOf(flags)
        tryNextPort == "static" \notin flags /\ now.num[l] < Len(list[l])
                           => ~list[l][now.num[l] + 1].static
    IN  IF tryNextPort /\ now.port[l] + 1 < 4 THEN NextPort(l) ELSE NextAddress(l)

(* onDisconnected with the network available: the numbers, which all
   connections share, move on when this connection has failed often enough. *)
Disconnected(c, switchToNextPort) ==
    \E r \in IF conn[c].failed = 0 THEN Retries ELSE {conn[c].retry} :
        LET failed == conn[c].failed + 1
            next == failed > r \/ switchToNextPort \/ conn[c].force
        IN  /\ conn' = [conn EXCEPT ![c] = [@ EXCEPT !.st = "idle", !.retry = r,
                                                     !.failed = IF next THEN 0 ELSE failed]]
            /\ now' = IF next THEN nextAddressOrPort(conn[c].flags) ELSE now

(* The numbers after connect has looked an address and a port up: one beyond
   its list is set to 0. *)
LookedUp(numbers, flags) ==
    LET looked == {ListOf(flags)} \cup IF proxied THEN {} ELSE {ListOf(flags \ {"ipv6"})}
    IN  [numbers EXCEPT !.num = [l \in Lists |-> IF l \in looked /\ ~Fixed(flags)
                                                 THEN InRange(@[l], list[l]) ELSE @[l]]]

Opened(connection, flags, target) ==
    [connection EXCEPT !.st = "connecting", !.at = target, !.flags = flags \ {"ipv6"}]

----------------------------------------------------------------------------
(* The life of a connection. *)
Connect(c) ==
    /\ conn[c].st = "idle"
    /\ \E flags \in {Chosen(c)} :
           /\ conn' = [conn EXCEPT ![c] = Opened(@, flags, Endpoint(flags))]
           /\ now' = LookedUp(now, flags)
    /\ UNCHANGED <<list, file, key, world, troubles>>

Fail(c) ==
    /\ conn[c].st = "connecting"
    /\ conn[c].at \notin live
    /\ Disconnected(c, FALSE)
    /\ UNCHANGED <<list, file, key, world, troubles>>

Establish(c) ==
    /\ conn[c].st = "connecting"
    /\ conn[c].at \in live
    /\ conn' = [conn EXCEPT ![c].st = "up"]
    /\ UNCHANGED <<dc, world, troubles>>

(* storeCurrentAddressAndPortNum, on the first data: the numbers of the
   temporary addresses are not stored. *)
Saved(numbers) == [numbers EXCEPT !.num["temp"] = 0, !.port["temp"] = 0]

FirstData(c) ==
    /\ conn[c].st = "up"
    /\ conn' = [conn EXCEPT ![c].st = "data", ![c].failed = 0]
    /\ file' = Saved(now)
    /\ UNCHANGED <<list, now, key, world, troubles>>

(* A connection that is up breaks, before its first data also by a timeout. *)
Break(c) ==
    /\ Trouble
    /\ conn[c].st \in {"up", "data"}
    /\ \E timeout \in BOOLEAN : Disconnected(c, timeout /\ conn[c].st = "up")
    /\ UNCHANGED <<list, file, key, world>>

(* reconnect, for a packet that is not understood: the numbers move on and the
   connection is opened again; forceNextPort stays set. *)
Reconnect(c) ==
    /\ Trouble
    /\ conn[c].st = "data"
    /\ UNCHANGED <<list, file, key, world>>
    /\ \E flags \in {Chosen(c)}, moved \in {nextAddressOrPort(conn[c].flags)} :
           /\ now' = LookedUp(moved, flags)
           /\ conn' = [conn EXCEPT ![c] = [Opened(@, flags, Endpoint(flags)') EXCEPT
                                               !.failed = 0, !.force = TRUE]]

----------------------------------------------------------------------------
(* replaceAddresses.  The address before and the address after are looked up
   with getCurrentAddress, which without a key may look at the temporary ones
   instead of those that are replaced. *)
ReplacedNum(l, new) ==
    IF Elsewhere(l) THEN now.num[l] ELSE InRange(InRange(now.num[l], list[l]), new)

IpAt(addresses, n) ==
    IF addresses = <<>> THEN "none" ELSE addresses[InRange(n, addresses) + 1].ip

(* Varies ReplacedPort: the first port whenever addresses come. *)
ReplacedPortAlways(l, new) == 0

ReplacedPort(l, new) ==
    IF Elsewhere(l) \/ IpAt(list[l], now.num[l]) = IpAt(new, ReplacedNum(l, new))
    THEN now.port[l] ELSE 0

TempNum == IF Elsewhere("v4") THEN InRange(now.num["temp"], list["temp"]) ELSE now.num["temp"]

(* updateDcSettings: the four lists of a configuration. *)
UpdateDcSettings(new) ==
    /\ Trouble
    /\ list' = [l \in Lists |-> IF l \in Stored THEN new[l] ELSE list[l]]
    /\ now' = [num |-> [l \in Lists |-> IF l \in Stored THEN ReplacedNum(l, new[l]) ELSE TempNum],
               port |-> [l \in Lists |-> IF l \in Stored THEN ReplacedPort(l, new[l])
                                         ELSE now.port[l]]]
    /\ UNCHANGED <<file, key, conn, world>>

Suspended(cs) == [c \in Conns |-> IF c \in cs THEN [conn[c] EXCEPT !.st = "idle"] ELSE conn[c]]

(* applyDnsConfig: the temporary addresses; without a key getTempConnection
   returns no connection to suspend. *)
ApplyDnsConfig(new) ==
    /\ Trouble
    /\ list' = [list EXCEPT !["temp"] = new]
    /\ now' = [now EXCEPT !.num["temp"] = ReplacedNum("temp", new),
                          !.port["temp"] = ReplacedPort("temp", new)]
    /\ conn' = Suspended({c \in Conns : key /\ Kinds[c] = "temp"})
    /\ UNCHANGED <<file, key, world>>

(* applyDatacenterAddress: one address, and the numbers start again; the push
   connection stays where it is. *)
ApplyDatacenterAddress(ip) ==
    /\ Trouble
    /\ conn' = Suspended({c \in Conns : Kinds[c] # "push"})
    /\ list' = [list EXCEPT !["v4"] = <<Plain(ip)>>]
    /\ now' = [Zero EXCEPT !.num["temp"] = TempNum, !.port["temp"] = now.port["temp"]]
    /\ file' = Zero
    /\ UNCHANGED <<key, world>>

(* A handshake makes the key, clearAuthKey drops it. *)
KeyChanges ==
    /\ Trouble
    /\ key' = ~key
    /\ UNCHANGED <<list, now, file, conn, world>>

(* A restart: the lists are as long as they were saved, but every address in
   them is the one the application was built with. *)
Restart ==
    /\ Trouble
    /\ list' = [l \in Lists |-> IF l = "temp" THEN <<>>
                                ELSE [i \in DOMAIN list[l] |-> [list[l][i] EXCEPT !.ip = Backend]]]
    /\ now' = file
    /\ conn' = [c \in Conns |-> Fresh]
    /\ UNCHANGED <<file, key, world>>

----------------------------------------------------------------------------
Ips == {e[1] : e \in Endpoints}

Next ==
    \/ \E c \in Conns : \/ Connect(c) \/ Fail(c) \/ Establish(c) \/ FirstData(c)
                        \/ Break(c) \/ Reconnect(c)
    \/ \E new \in Configs : UpdateDcSettings(new)
    \/ \E new \in TempLists : ApplyDnsConfig(new)
    \/ \E ip \in Ips : ApplyDatacenterAddress(ip)
    \/ KeyChanges \/ Restart

(* Every attempt ends, and a server that answers sends data. *)
Spec ==
    /\ Init /\ [][Next]_vars
    /\ \A c \in Conns : WF_vars(Fail(c) \/ Establish(c) \/ FirstData(c))

----------------------------------------------------------------------------
(* Types of the numbers and of the connections. *)
TypeOK ==
    /\ \A n \in {now, file} : n.num \in [Lists -> Nat] /\ n.port \in [Lists -> 0 .. 3]
    /\ key \in BOOLEAN /\ live \subseteq Endpoints
    /\ troubles \in 0 .. MaxTroubles
    /\ \A c \in Conns :
           /\ conn[c].st \in {"idle", "connecting", "up", "data"}
           /\ conn[c].failed \in 0 .. Max(Retries) /\ conn[c].retry \in Retries
           /\ conn[c].force \in BOOLEAN

(* A configuration does not disturb what works.  One that brings the addresses
   a datacenter already has, as nearly every one does, leaves every connection
   the endpoint it would use; one that gives a connection another address gives
   it the first port, that of the address, to begin with (replaceAddresses,
   Datacenter.cpp:458).  The latter not with IPv6, where the port is taken from
   the IPv4 list (Connection.cpp:345). *)
ConfigKeepsEndpoint ==
    [][(\E new \in Configs : UpdateDcSettings(new)) =>
          \A c \in Conns :
              /\ list' = list => Target(c)' = Target(c)
              /\ ipv6 \/ Target(c)'[1] \in {Target(c)[1], Target(c)'[2], "none"}]_vars

(* The endpoints that the attempts of a connection come to while it fails.
   With IPv6 the address stays and only the port changes. *)
PortsOf(a) == IF a.static \/ a.secret THEN {a.ip} ELSE {a.ip, "2045"}

Reached(flags, addresses, moving) ==
    IF addresses = <<>> THEN {}
    ELSE IF proxied /\ (Fixed(flags) \/ "ipv6" \in flags)
         THEN {<<getCurrentAddress(flags).ip, getCurrentAddress(flags).ip>>}
    ELSE IF proxied THEN {<<a.ip, a.ip>> : a \in ToSet(addresses)}
    ELSE IF "ipv6" \in flags
         THEN {getCurrentAddress(flags).ip} \X UNION {PortsOf(a) : a \in ToSet(moving)}
    ELSE UNION {{a.ip} \X PortsOf(a) : a \in ToSet(addresses)}

Within(c) == UNION {Reached(f, list[ListOf(f)], list[ListOf(f \ {"ipv6"})]) : f \in {Chosen(c)}}

(* A connection that is opened again and again comes to the endpoint that
   answers, wherever it is in the list and whatever the other connections have
   done to the numbers they share, once the others no longer fail: while two
   fail in turn they may pass an endpoint over for ever (nextAddressOrPort,
   Datacenter.cpp:358; onDisconnected, Connection.cpp:679). *)
GetsThrough ==
    \A c \in Conns :
        /\ []<>(conn[c].st # "idle")
        /\ <>[](\A d \in Conns \ {c} : conn[d].st # "connecting")
        => []<>(conn[c].st = "data") \/ []<>(Within(c) \cap live = {})
=============================================================================
