------------------------------ MODULE Network -------------------------------
(***************************************************************************)
(* The network requests of mandraked (crates/mandraked/src/routes/         *)
(* network.rs): links, addresses and routes, the protection of the path a  *)
(* request came on, and the metadata of links and addresses.               *)
(*                                                                         *)
(* The host keeps the objects (NetHost) and has nowhere to keep an id: an  *)
(* object's id is derived from its name, and metadata is stored under that *)
(* id.  Here an id is the name.                                            *)
(*                                                                         *)
(* A command and the clearing of the caches after it are one step, unless  *)
(* the request is dropped while the command runs, as in Storage; so are a  *)
(* listing and its storing in the cache.  Abstracted: the form of names,   *)
(* address families and prefixes, audit records.                           *)
(***************************************************************************)
EXTENDS NetHost, FiniteSets

CONSTANTS
    MaxRequests,   \* bound: requests asked
    MaxCuts,       \* bound: requests dropped, and removals of metadata that fail
    NewNames,      \* names requests give to links: letters first, a digit last
    IPs,           \* addresses requests ask for, or come on
    Listen,        \* the address mandraked is told to listen on, or None
    Asks,          \* Asks[r]: bound: the operations request r may be
    Alone          \* bound: requests asked only while no other is in its handler

LinkOps == {"update_link", "remove_link"}
CreateOps == {"create_aggr", "create_vlan", "create_etherstub", "create_vnic"}
AddressOps == {"create_address", "delete_address"}
RouteOps == {"create_route", "delete_route"}
Ops == {"list_links", "list_routes"} \cup LinkOps \cup CreateOps \cup AddressOps \cup RouteOps

ASSUME NetworkAssumption ==
    /\ MaxRequests \in Nat /\ MaxCuts \in Nat
    /\ DOMAIN Asks = 1 .. MaxRequests
    /\ \A r \in 1 .. MaxRequests : Asks[r] \subseteq Ops
    /\ NewNames \cap {"", None} = {}
    /\ None \notin IPs
    /\ Listen \in IPs \cup {None}

VARIABLES
    host,      \* links, plumbed, addresses and routes, as in NetHost
    cache,     \* cache[k]: the listing of kind k in its read cache, or Unknown
    meta,      \* metadata: [name, born], born of the object it was given for
    req,       \* req[r]: request r
    overlapped,\* two requests have been in their handlers at once
    cuts,      \* requests dropped and removals that failed
    clock      \* one more for every command

vars == <<host, cache, meta, req, overlapped, cuts, clock>>

Requests == 1 .. MaxRequests
Kinds == {"links", "addresses", "routes"}
Unknown == << >>
Listing(kind) == IF cache[kind] # Unknown THEN cache[kind] ELSE host[kind]
LinksListed == [cache EXCEPT !["links"] = Listing("links"), !["addresses"] = Listing("addresses")]
Cleared == [k \in Kinds |-> Unknown]

\* name: the link, address or route; kind: what remove_link takes the link for; over: the
\* links a new one is over; ip: a new address; came: the address the request came on.
NewRequest == [op |-> "list_links", stage |-> "idle", name |-> None, kind |-> None,
               over |-> << >>, ip |-> None, came |-> None]
Working == {"find", "check", "plumb", "act", "note"}
Stages == Working \cup {"idle", "over"}

At(r, stage) == req[r].stage = stage
Busy == {r \in Requests : req[r].stage \in Working}
Doing(r, op) == At(r, "act") /\ req[r].op = op
\* Nothing is remembered of a request that is over.
Goto(r, stage) ==
    req' = [req EXCEPT ![r] = [IF stage = "over" THEN NewRequest ELSE @ EXCEPT !.stage = stage]]
Calm == ~overlapped /\ cuts = 0

-----------------------------------------------------------------------------
(* Protection.                                                             *)

\* Mutant of ManagementIps: the Host header is not looked at.
ManagementIpsOfListen(r) == {Listen} \ {None}

ManagementIps(r) == {Listen, req[r].came} \ {None}

ProtectedAddresses(ips, addresses) == {a \in DOMAIN addresses : addresses[a].ip \in ips}

\* The links given and all beneath them.
Beneath(links, names) ==
    LET under[n \in Nat] ==
            IF n = 0 THEN names
            ELSE under[n - 1] \cup
                 UNION {Over(links, l) : l \in under[n - 1] \cap DOMAIN links}
    IN  under[Cardinality(DOMAIN links)]

ProtectedLinks(ips, links, addresses) ==
    Beneath(links, {a[1] : a \in ProtectedAddresses(ips, addresses)})

-----------------------------------------------------------------------------
(* Asking.                                                                 *)

Phys == {l \in DOMAIN host.links : host.links[l].kind = "phys"}
Names == NewNames \cup DOMAIN host.links
RouteNames == {<<"default", "gw">>, <<"net", "gw">>, <<"far", "gw">>}

\* Metadata comes with every request that may bring some; nobody asks for the loopback.  To
\* come on the address mandraked listens on adds nothing to what it knows of it.
Inputs(op) ==
    [name : CASE op \in LinkOps -> Names
              [] op \in CreateOps -> NewNames
              [] op \in AddressOps -> {<<l, "v4">> : l \in Names}
              [] op \in RouteOps -> RouteNames
              [] OTHER -> {None},
     kind : IF op = "remove_link" THEN LinkKinds \ {"phys"} ELSE {None},
     over : CASE op = "create_aggr" -> {<<p>> : p \in Phys} \cup {<<p, q>> : p, q \in Phys}
              [] op \in {"create_vlan", "create_vnic"} -> {<<l>> : l \in Names}
              [] OTHER -> {<< >>},
     ip : IF op = "create_address" THEN IPs ELSE {None},
     came : {None} \cup IF op \in {"create_aggr", "remove_link", "delete_address"}
                        THEN IPs \ {Listen} ELSE {}]

FirstStage(op) ==
    CASE op \in CreateOps \cup {"create_address"} -> "check"
      [] op = "create_route" -> "act"
      [] OTHER -> "find"

Ask(r) ==
    /\ At(r, "idle") /\ \A q \in Requests : q < r => ~At(q, "idle")
    /\ r \in Alone => Busy = {}
    /\ \E op \in Asks[r] : \E in \in Inputs(op) :
          req' = [req EXCEPT ![r] = [op |-> op, stage |-> FirstStage(op), name |-> in.name,
                                     kind |-> in.kind, over |-> in.over, ip |-> in.ip,
                                     came |-> in.came]]
    /\ overlapped' = (overlapped \/ Busy # {})
    /\ UNCHANGED <<host, cache, meta, cuts, clock>>

-----------------------------------------------------------------------------
(* Finding and checking, each in a listing of its own.                     *)

FindLink(r) ==
    LET links == Listing("links")
        name == req[r].name
    IN  /\ At(r, "find") /\ req[r].op \in LinkOps
        /\ cache' = [cache EXCEPT !["links"] = links]
        /\ Goto(r, IF name \notin DOMAIN links THEN "over"
                   ELSE IF req[r].op = "update_link" THEN "act"
                   ELSE IF links[name].kind = req[r].kind THEN "check" ELSE "over")
        /\ UNCHANGED <<host, meta, overlapped, cuts, clock>>

FindAddress(r) ==
    /\ At(r, "find") /\ req[r].op = "delete_address"
    /\ cache' = [cache EXCEPT !["addresses"] = Listing("addresses")]
    /\ Goto(r, IF req[r].name \in DOMAIN Listing("addresses") THEN "check" ELSE "over")
    /\ UNCHANGED <<host, meta, overlapped, cuts, clock>>

FindRoute(r) ==
    /\ At(r, "find") /\ req[r].op = "delete_route"
    /\ cache' = [cache EXCEPT !["routes"] = Listing("routes")]
    /\ Goto(r, IF /\ req[r].name \in DOMAIN Listing("routes")
                  /\ Listing("routes")[req[r].name].kind = "static"
               THEN "act" ELSE "over")
    /\ UNCHANGED <<host, meta, overlapped, cuts, clock>>

List(r) ==
    /\ At(r, "find") /\ req[r].op \in {"list_links", "list_routes"}
    /\ cache' = IF req[r].op = "list_links" THEN LinksListed
                ELSE [cache EXCEPT !["routes"] = Listing("routes")]
    /\ Goto(r, "over")
    /\ UNCHANGED <<host, meta, overlapped, cuts, clock>>

\* Whether request r may go on, by the listings of links and addresses it is given.
Allowed(r, links, addresses) ==
    LET name == req[r].name
        onPath == ProtectedLinks(ManagementIps(r), links, addresses)
        over(kinds) == \A o \in ToSet(req[r].over) :
                           o \in DOMAIN links /\ links[o].kind \in kinds
    IN  CASE req[r].op = "create_aggr" ->
               over({"phys"}) /\ ToSet(req[r].over) \cap onPath = {}
          [] req[r].op = "create_vlan" -> over(CanCarry.vlan)
          [] req[r].op = "create_vnic" -> over(CanCarry.vnic)
          [] req[r].op = "create_etherstub" -> TRUE
          [] req[r].op = "remove_link" -> name \notin onPath /\ On(links, name) = {}
          [] req[r].op = "create_address" -> name[1] \in DOMAIN links
          [] req[r].op = "delete_address" ->
               name \notin ProtectedAddresses(ManagementIps(r), addresses)

\* What request r lists to decide.
Looks(r) ==
    CASE req[r].op \in {"create_aggr", "remove_link"} -> {"links", "addresses"}
      [] req[r].op = "delete_address" -> {"addresses"}
      [] req[r].op = "create_etherstub" -> {}
      [] OTHER -> {"links"}

Check(r) ==
    /\ At(r, "check")
    /\ cache' = [k \in Kinds |-> IF k \in Looks(r) THEN Listing(k) ELSE cache[k]]
    /\ Goto(r, IF ~Allowed(r, Listing("links"), Listing("addresses")) THEN "over"
               ELSE IF req[r].op = "create_address" THEN "plumb" ELSE "act")
    /\ UNCHANGED <<host, meta, overlapped, cuts, clock>>

-----------------------------------------------------------------------------
(* The commands.                                                           *)

\* The command of request r has run; the caches are cleared and the handler goes on,
\* unless the request has been dropped meanwhile.
Acted(r, stage) ==
    /\ clock' = clock + 1
    /\ UNCHANGED <<meta, overlapped>>
    /\ \/ cache' = Cleared /\ Goto(r, stage) /\ UNCHANGED cuts
       \/ /\ cuts < MaxCuts
          /\ cuts' = cuts + 1 /\ Goto(r, "over") /\ UNCHANGED cache

CreateAggr(r) ==
    /\ Doing(r, "create_aggr") /\ CanCreateAggr(host, req[r].name, req[r].over)
    /\ host' = WithAggr(host, req[r].name, req[r].over, clock)
    /\ Acted(r, "note")

CreateVlan(r) ==
    /\ Doing(r, "create_vlan") /\ CanCreateOver(host, "vlan", req[r].name, req[r].over[1])
    /\ host' = WithVlan(host, req[r].name, req[r].over[1], 10, clock)
    /\ Acted(r, "note")

CreateEtherstub(r) ==
    /\ Doing(r, "create_etherstub") /\ CanCreateEtherstub(host, req[r].name)
    /\ host' = WithEtherstub(host, req[r].name, clock)
    /\ Acted(r, "note")

CreateVnic(r) ==
    /\ Doing(r, "create_vnic") /\ CanCreateOver(host, "vnic", req[r].name, req[r].over[1])
    /\ host' = WithVnic(host, req[r].name, req[r].over[1], clock)
    /\ Acted(r, "note")

RemoveLink(r) ==
    /\ Doing(r, "remove_link") /\ CanDeleteLink(host, req[r].name, req[r].kind)
    /\ host' = WithoutLink(host, req[r].name)
    /\ Acted(r, "note")

\* An update sets the MTU, or brings metadata only.
UpdateLink(r) ==
    /\ Doing(r, "update_link")
    /\ \/ /\ CanSetMtu(host, req[r].name)
          /\ host' = WithMtu(host, req[r].name, 1400)
          /\ Acted(r, "note")
       \/ /\ Goto(r, "note")
          /\ UNCHANGED <<host, cache, meta, overlapped, cuts, clock>>

\* The driver makes the interface first, with a command of its own.
Plumb(r) ==
    LET name == req[r].name[1]
    IN  /\ At(r, "plumb")
        /\ \/ name \in host.plumbed /\ UNCHANGED host
           \/ name \notin host.plumbed /\ CanPlumb(host, name) /\ host' = WithInterface(host, name)
        /\ Goto(r, "act")
        /\ UNCHANGED <<cache, meta, overlapped, cuts, clock>>

CreateAddress(r) ==
    /\ Doing(r, "create_address") /\ CanCreateAddress(host, req[r].name)
    /\ host' = WithAddress(host, req[r].name, req[r].ip, clock)
    /\ Acted(r, "note")

DeleteAddress(r) ==
    /\ Doing(r, "delete_address") /\ CanDeleteAddress(host, req[r].name)
    /\ host' = WithoutAddress(host, req[r].name)
    /\ Acted(r, "note")

CreateRoute(r) ==
    /\ Doing(r, "create_route") /\ CanAddRoute(host, req[r].name)
    /\ host' = WithRoute(host, req[r].name)
    /\ Acted(r, "over")

DeleteRoute(r) ==
    /\ Doing(r, "delete_route") /\ CanDeleteRoute(host, req[r].name)
    /\ host' = WithoutRoute(host, req[r].name)
    /\ Acted(r, "over")

\* A command refuses, or fails for a reason of its own.
Fail(r) ==
    /\ req[r].stage \in {"plumb", "act"} /\ Goto(r, "over")
    /\ UNCHANGED <<host, cache, meta, overlapped, cuts, clock>>

-----------------------------------------------------------------------------
(* Metadata, and the answer of a request that has not removed anything,    *)
(* which is read back.                                                     *)

\* What metadata can be of: <<link>> and <<interface, alias>>.
Objects == {<<l>> : l \in DOMAIN host.links} \cup DOMAIN host.addresses
Born(o) == IF Len(o) = 1 THEN host.links[o[1]].born ELSE host.addresses[o].born
Object(r) == IF req[r].op \in AddressOps THEN req[r].name ELSE <<req[r].name>>

\* Mutant of Removed: the row is left.
RemovedNothing(r) == {}

Removed(r) == {m \in meta : m.name = Object(r)}

\* Metadata is merged into the row there is; a row of nothing counts as born at 0.
Note(r) ==
    LET born == IF Object(r) \in Objects THEN Born(Object(r)) ELSE 0
    IN  /\ At(r, "note") /\ Goto(r, "over")
        /\ IF req[r].op \in {"remove_link", "delete_address"}
           THEN /\ UNCHANGED cache
                /\ \/ meta' = meta \ Removed(r) /\ UNCHANGED cuts
                   \/ cuts < MaxCuts /\ cuts' = cuts + 1 /\ UNCHANGED meta
           ELSE /\ meta' = meta \cup {[name |-> Object(r), born |-> born]}
                /\ cache' = LinksListed /\ UNCHANGED cuts
        /\ UNCHANGED <<host, overlapped, clock>>

\* A listing expires.  Nobody could tell while it is what would be fetched.
Expire ==
    /\ \E kind \in Kinds :
          /\ cache[kind] \notin {Unknown, host[kind]}
          /\ cache' = [cache EXCEPT ![kind] = Unknown]
    /\ UNCHANGED <<host, meta, req, overlapped, cuts, clock>>

\* A request is dropped while it waits for anything but its command.
Cut ==
    /\ cuts < MaxCuts /\ cuts' = cuts + 1
    /\ \E r \in Busy : Goto(r, "over")
    /\ UNCHANGED <<host, cache, meta, overlapped, clock>>

-----------------------------------------------------------------------------
\* The management address is on a VLAN over an aggregation, as in the source's tests.
OnHost ==
    [links |->
        [l \in {"p0", "p1", "p2", "aggr0", "aggr1", "vlan0"} |->
            CASE l = "aggr0" -> Link("aggr", <<"p0">>, "p0", 0, 1500, 0)
              [] l = "aggr1" -> Link("aggr", <<"p1">>, "p1", 0, 1500, 0)
              [] l = "vlan0" -> Link("vlan", <<"aggr0">>, "p0", 10, 1500, 0)
              [] OTHER -> Link("phys", << >>, l, 0, 1500, 0)],
     plumbed |-> {"lo0", "vlan0", "aggr1"},
     addresses |->
        [a \in {<<l, "v4">> : l \in {"lo0", "vlan0", "aggr1"}} |->
            CASE a[1] = "vlan0" -> [ip |-> "mgmt", born |-> 0]
              [] a[1] = "aggr1" -> [ip |-> "other", born |-> 0]
              [] OTHER -> [ip |-> "loopback", born |-> 0]],
     routes |->
        [x \in {<<"default", "gw">>, <<"net", "mgmt">>, <<"far", "gw">>} |->
            [kind |-> CASE x[1] = "default" -> "static"
                        [] x[1] = "net" -> "interface"
                        [] OTHER -> "dynamic",
             persistent |-> FALSE]]]

Init ==
    /\ host = OnHost
    /\ cache = Cleared
    /\ meta = {}
    /\ req = [r \in Requests |-> NewRequest]
    /\ overlapped = FALSE /\ cuts = 0 /\ clock = 1

Command(r) ==
    \/ CreateAggr(r) \/ CreateVlan(r) \/ CreateEtherstub(r) \/ CreateVnic(r)
    \/ RemoveLink(r) \/ UpdateLink(r) \/ Plumb(r) \/ CreateAddress(r) \/ DeleteAddress(r)
    \/ CreateRoute(r) \/ DeleteRoute(r)

Next ==
    \/ \E r \in Requests :
          \/ Ask(r) \/ List(r) \/ FindLink(r) \/ FindAddress(r) \/ FindRoute(r) \/ Check(r)
          \/ Command(r) \/ Fail(r) \/ Note(r)
    \/ Expire \/ Cut

Spec == Init /\ [][Next]_vars

-----------------------------------------------------------------------------
(* Properties.                                                             *)

\* Whatever overlaps or is dropped, the host's links and addresses hold together: a link
\* is over links of the kinds that can carry it, no port is in two aggregations, and every
\* address is on an interface of a link there is.  (That a port in an aggregation carries
\* nothing else is left to dladm: neither the handlers nor the fake look at it.)
Sound ==
    /\ \A l \in DOMAIN host.links : \A o \in Over(host.links, l) :
          /\ o \in DOMAIN host.links
          /\ IF host.links[l].kind = "aggr"
             THEN /\ host.links[o].kind = "phys"
                  /\ \A k \in On(host.links, o) : k = l \/ host.links[k].kind # "aggr"
             ELSE host.links[o].kind \in CanCarry[host.links[l].kind]
    /\ host.plumbed \subseteq DOMAIN host.links \cup {"lo0"}
    /\ \A a \in DOMAIN host.addresses : a[1] \in host.plumbed

TypeOK ==
    /\ \A l \in DOMAIN host.links :
          host.links[l].kind \in LinkKinds /\ host.links[l].born \in 0 .. clock
    /\ \A r \in Requests : req[r].op \in Ops /\ req[r].stage \in Stages
    /\ \A m \in meta : m.born \in 0 .. clock

HostIsSound == TypeOK /\ Sound

\* An address goes when a client asks for it by name; unless requests overlap, never the
\* one the request came on nor the one mandraked listens on, whatever the caches said.
\* (Of two requests dropped in their commands, one may have removed the address of the
\* listing still cached and the other given its name to a new one: cuts < 2.)
\* With HostIsSound the links beneath those stay too.
ManagementStays ==
    [][\A a \in DOMAIN host.addresses \ DOMAIN host'.addresses :
          \E r \in Requests :
              /\ Doing(r, "delete_address") /\ ~At(r, "act")' /\ req[r].name = a
              /\ ~overlapped /\ cuts < 2 => host.addresses[a].ip \notin {Listen, req[r].came}]_vars

\* Metadata goes by name.  Unless requests overlap, or one is dropped or fails to remove,
\* what is stored under a name was given for the object that has the name now, once the
\* request that has taken another away is over; unless requests overlap, it is never
\* removed while that object is there.
MetadataIsOfThis ==
    [][/\ (Calm /\ Busy = {})' => \A m \in meta' : m.name \in Objects' /\ m.born = Born(m.name)'
       /\ ~overlapped => \A m \in meta \ meta' :
             ~(m.name \in Objects' /\ m.born = Born(m.name)')]_vars

\* What mandraked lists is what the host has: links with their kind, what they are over,
\* mac, VLAN id and MTU, joined from the tables of dladm; and routes with their kind and
\* persistence, joined from netstat and route.
Shown(l) == [kind |-> host.links[l].kind, over |-> host.links[l].over,
             mac |-> host.links[l].mac, vid |-> host.links[l].vid, mtu |-> host.links[l].mtu]
ListingsAreTrue ==
    /\ Assembled(Sources(host.links)) = [l \in DOMAIN host.links |-> Shown(l)]
    /\ MarkedPersistent(NetstatRows(host.routes), PersistentRows(host.routes)) = host.routes
=============================================================================
