--------------------------- MODULE Network_proofs ---------------------------
(***************************************************************************)
(* Proofs about Network, for any requests, bounds, names and addresses.    *)
(*                                                                         *)
(* HostSound       Spec => []HostIsSound                                   *)
(* PathStays       Spec => ManagementStays                                 *)
(* MetadataFresh   Spec => MetadataIsOfThis                                *)
(* ListingsTrue    Spec => []ListingsAreTrue                               *)
(*                                                                         *)
(* That the host holds together rests on what dladm refuses, whatever the  *)
(* handlers have seen.  The other two rest on what a handler knows while   *)
(* it is alone: a listing is what the host has until a request is dropped  *)
(* in its command, and an address keeps its ip until two have been.        *)
(*                                                                         *)
(* That the listings are true is about every host there can be: what the   *)
(* parser reads of the table of aggregations is proved by induction on the *)
(* aggregations in it (AggregationsTold), the rest table by table          *)
(* (LinksTold, RoutesTold), for hosts as ListInv describes them.           *)
(***************************************************************************)
EXTENDS Network, FiniteSetTheorems, SequenceTheorems, WellFoundedInduction, TLAPS

\* The shape of a host, of a link and of a request.
IsHost(h) ==
    h = [links |-> h.links, plumbed |-> h.plumbed, addresses |-> h.addresses,
         routes |-> h.routes]
IsLink(x) == x = Link(x.kind, x.over, x.mac, x.vid, x.mtu, x.born)
IsRequest(q) ==
    q = [op |-> q.op, stage |-> q.stage, name |-> q.name, kind |-> q.kind,
         over |-> q.over, ip |-> q.ip, came |-> q.came]

HostType ==
    /\ IsHost(host)
    /\ host.links = [l \in DOMAIN host.links |-> host.links[l]]
    /\ \A l \in DOMAIN host.links :
          /\ IsLink(host.links[l])
          /\ host.links[l].kind \in LinkKinds /\ host.links[l].born \in 0 .. clock
    /\ \A a \in DOMAIN host.addresses :
          /\ a = <<a[1], "v4">>
          /\ host.addresses[a].ip # None /\ host.addresses[a].born \in 0 .. clock

\* Which requests can be where, and what they are about.
Fits(q) ==
    /\ IsRequest(q) /\ q.op \in Ops /\ q.stage \in Stages
    /\ q.op \in AddressOps => q.name = <<q.name[1], "v4">>
    /\ q.op = "create_address" /\ q.stage # "over" => q.ip # None
    /\ q.stage = "check" => q.op # "update_link"
    /\ q.stage = "plumb" => q.op = "create_address"
    /\ q.stage = "note" => q.op \in LinkOps \cup CreateOps \cup AddressOps

RequestType ==
    /\ req = [r \in Requests |-> req[r]]
    /\ \A r \in Requests : Fits(req[r])

MetaType == \A m \in meta : m.born \in 0 .. clock

Typed ==
    /\ HostType /\ RequestType /\ MetaType
    /\ cache = [k \in Kinds |-> cache[k]]
    /\ overlapped \in BOOLEAN /\ cuts \in Nat /\ clock \in Nat

HostInv == Typed /\ Sound

-----------------------------------------------------------------------------
\* While no two requests have overlapped there is one at most.
Solo == ~overlapped => \A q, r \in Busy : q = r

\* What is cached is what the host has, until a request is dropped in its command; an
\* address that is in both has one ip, until two are.
Fresh ==
    /\ cuts = 0 => \A k \in Kinds : cache[k] \in {Unknown, host[k]}
    /\ cuts < 2 => \A a \in DOMAIN cache["addresses"] \cap DOMAIN host.addresses :
                      cache["addresses"][a].ip = host.addresses[a].ip

Removing == {"remove_link", "delete_address"}

\* What a request that is alone knows of its object: an address it will delete is one that
\* is listed and not on the path, a link it will update is there; what it has removed is
\* gone, and what it has made or changed is there.
Knows(r) ==
    ~overlapped =>
        /\ At(r, "check") /\ req[r].op = "delete_address" =>
              req[r].name \in DOMAIN Listing("addresses") \/
              req[r].name \notin DOMAIN host.addresses
        /\ Doing(r, "delete_address") /\ cuts < 2 /\ req[r].name \in DOMAIN host.addresses =>
              host.addresses[req[r].name].ip \notin {Listen, req[r].came}
        /\ Doing(r, "update_link") /\ cuts = 0 => req[r].name \in DOMAIN host.links
        /\ At(r, "note") =>
              IF req[r].op \in Removing THEN Object(r) \notin Objects
              ELSE cuts = 0 => Object(r) \in Objects

OfThis(m) == m.name \in Objects /\ m.born = Born(m.name)

\* Metadata is of the object there is, or about to be removed.
MetaIsOfThis ==
    Calm => \A m \in meta :
        OfThis(m) \/ \E r \in Requests : /\ At(r, "note") /\ req[r].op \in Removing
                                         /\ m.name = Object(r)

Inv == HostInv /\ Solo /\ Fresh /\ (\A r \in Requests : Knows(r)) /\ MetaIsOfThis

-----------------------------------------------------------------------------
(* Requests.                                                               *)

\* What Goto does to the request, and that it leaves the others alone.
LEMMA Going ==
    ASSUME RequestType, NEW r \in Requests, NEW stage, Goto(r, stage)
    PROVE  /\ req' = [q \in Requests |-> req'[q]]
           /\ \A q \in Requests : q # r => req'[q] = req[q]
           /\ IsRequest(req'[r]) /\ req'[r].stage = stage
           /\ stage = "over" => req'[r].op = "list_links"
           /\ stage # "over" =>
                 /\ req'[r].op = req[r].op /\ req'[r].name = req[r].name
                 /\ req'[r].kind = req[r].kind /\ req'[r].over = req[r].over
                 /\ req'[r].ip = req[r].ip /\ req'[r].came = req[r].came
<1> DEFINE new == [IF stage = "over" THEN NewRequest ELSE req[r] EXCEPT !.stage = stage]
<1>1. req' = [req EXCEPT ![r] = new]
    BY DEF Goto
<1>2. req = [q \in Requests |-> req[q]]
    BY DEF RequestType
<1> HIDE DEF new
<1>3. req' = [q \in Requests |-> IF q = r THEN new ELSE req[q]]
    BY <1>1, <1>2, Zenon
<1>4. req'[r] = new /\ \A q \in Requests : q # r => req'[q] = req[q]
    BY <1>3
<1>5. req' = [q \in Requests |-> req'[q]]
    BY <1>3, <1>4
<1>6. CASE stage = "over"
  <2>1. new = [NewRequest EXCEPT !.stage = "over"]
      BY <1>6 DEF new
  <2>2. IsRequest(new) /\ new.stage = "over" /\ new.op = "list_links"
      BY <2>1 DEF NewRequest, IsRequest
  <2> QED
      BY <1>4, <1>5, <1>6, <2>2
<1>7. CASE stage # "over"
  <2>1. new = [req[r] EXCEPT !.stage = stage]
      BY <1>7 DEF new
  <2>2. IsRequest(req[r])
      BY DEF RequestType, Fits
  <2>3. new = [op |-> req[r].op, stage |-> stage, name |-> req[r].name,
               kind |-> req[r].kind, over |-> req[r].over, ip |-> req[r].ip,
               came |-> req[r].came]
      BY <2>1, <2>2 DEF IsRequest
  <2> QED
      BY <1>4, <1>5, <1>7, <2>3 DEF IsRequest
<1> QED
    BY <1>6, <1>7

\* The request still fits where it goes.
LEMMA GoingFits ==
    ASSUME RequestType, NEW r \in Requests, NEW stage \in Stages, Goto(r, stage),
           stage = "check" => req[r].op # "update_link",
           stage = "plumb" => req[r].op = "create_address",
           stage = "note" => req[r].op \in LinkOps \cup CreateOps \cup AddressOps,
           req[r].stage # "over"
    PROVE  RequestType'
<1>1. /\ req' = [q \in Requests |-> req'[q]]
      /\ \A q \in Requests : q # r => req'[q] = req[q]
      /\ IsRequest(req'[r]) /\ req'[r].stage = stage
      /\ stage = "over" => req'[r].op = "list_links"
      /\ stage # "over" =>
            /\ req'[r].op = req[r].op /\ req'[r].name = req[r].name
            /\ req'[r].ip = req[r].ip
    BY Going
<1>2. Fits(req[r])
    BY DEF RequestType
<1>3. Fits(req'[r])
  <2>1. CASE stage = "over"
      BY <1>1, <2>1 DEF Fits, Ops, AddressOps
  <2>2. CASE stage # "over"
      BY <1>1, <1>2, <2>2 DEF Fits
  <2> QED
      BY <2>1, <2>2
<1>4. \A q \in Requests : Fits(req'[q])
    BY <1>1, <1>3 DEF RequestType
<1> QED
    BY <1>1, <1>4 DEF RequestType

-----------------------------------------------------------------------------
(* The host.                                                               *)

\* A part of a host is changed alone.
LEMMA PartsOfHost ==
    ASSUME NEW h, IsHost(h), NEW x, NEW k
    PROVE  /\ k = [h EXCEPT !.links = x] =>
                  /\ IsHost(k) /\ k.links = x /\ k.plumbed = h.plumbed
                  /\ k.addresses = h.addresses /\ k.routes = h.routes
           /\ k = [h EXCEPT !.plumbed = x] =>
                  /\ IsHost(k) /\ k.links = h.links /\ k.plumbed = x
                  /\ k.addresses = h.addresses /\ k.routes = h.routes
           /\ k = [h EXCEPT !.addresses = x] =>
                  /\ IsHost(k) /\ k.links = h.links /\ k.plumbed = h.plumbed
                  /\ k.addresses = x /\ k.routes = h.routes
           /\ k = [h EXCEPT !.routes = x] =>
                  /\ IsHost(k) /\ k.links = h.links /\ k.plumbed = h.plumbed
                  /\ k.addresses = h.addresses /\ k.routes = x
BY DEF IsHost

\* Time passes, and the links and addresses are as they were.
LEMMA HostKept ==
    ASSUME HostInv, IsHost(host'), host'.links = host.links,
           host'.plumbed \subseteq DOMAIN host.links \cup {"lo0"},
           host.plumbed \subseteq host'.plumbed,
           host'.addresses = host.addresses,
           clock' \in Nat, clock' >= clock
    PROVE  HostType' /\ Sound'
<1>1. HostType'
    BY DEF HostInv, Typed, HostType
<1>2. Sound'
    BY DEF HostInv, Sound, Over, On
<1> QED
    BY <1>1, <1>2

\* A new link is over links that can carry it.
LEMMA LinkAdded ==
    ASSUME HostInv, NEW name, name \notin DOMAIN host.links,
           NEW x, IsLink(x), x.kind \in LinkKinds, x.born = clock,
           \A o \in ToSet(x.over) :
              /\ o \in DOMAIN host.links
              /\ IF x.kind = "aggr"
                 THEN host.links[o].kind = "phys" /\ On(host.links, o) = {}
                 ELSE host.links[o].kind \in CanCarry[x.kind],
           host' = [host EXCEPT !.links = With(@, name, x)], clock' = clock + 1
    PROVE  /\ HostType' /\ Sound'
           /\ host'.addresses = host.addresses
           /\ DOMAIN host'.links = DOMAIN host.links \cup {name}
           /\ \A l \in DOMAIN host.links : host'.links[l] = host.links[l]
<1>0. IsHost(host)
    BY DEF HostInv, Typed, HostType
<1>1. /\ IsHost(host') /\ host'.links = With(host.links, name, x)
      /\ host'.plumbed = host.plumbed /\ host'.addresses = host.addresses
    BY <1>0, PartsOfHost
<1>2. /\ DOMAIN host'.links = DOMAIN host.links \cup {name}
      /\ host'.links = [l \in DOMAIN host'.links |-> host'.links[l]]
      /\ host'.links[name] = x
      /\ \A l \in DOMAIN host.links : host'.links[l] = host.links[l]
    BY <1>1 DEF With
<1>3. clock \in Nat
    BY DEF HostInv, Typed
<1>4. HostType'
    BY <1>1, <1>2, <1>3 DEF HostInv, Typed, HostType
<1>5. /\ \A l \in DOMAIN host.links : Over(host'.links, l) = Over(host.links, l)
      /\ Over(host'.links, name) = ToSet(x.over)
    BY <1>2 DEF Over
<1>6. \A o : On(host'.links, o) = On(host.links, o) \cup
                                  (IF o \in ToSet(x.over) THEN {name} ELSE {})
    BY <1>2, <1>5 DEF On
<1>7. ASSUME NEW l \in DOMAIN host'.links, NEW o \in Over(host'.links, l)
      PROVE  /\ o \in DOMAIN host'.links
             /\ IF host'.links[l].kind = "aggr"
                THEN /\ host'.links[o].kind = "phys"
                     /\ \A k \in On(host'.links, o) : k = l \/ host'.links[k].kind # "aggr"
                ELSE host'.links[o].kind \in CanCarry[host'.links[l].kind]
  <2>1. CASE l = name
      BY <1>2, <1>5, <1>6, <1>7, <2>1
  <2>2. CASE l \in DOMAIN host.links
    <3>1. o \in Over(host.links, l) /\ l \in On(host.links, o)
        BY <1>5, <1>7, <2>2 DEF On
    <3>2. /\ o \in DOMAIN host.links
          /\ IF host.links[l].kind = "aggr"
             THEN /\ host.links[o].kind = "phys"
                  /\ \A k \in On(host.links, o) : k = l \/ host.links[k].kind # "aggr"
             ELSE host.links[o].kind \in CanCarry[host.links[l].kind]
        BY <2>2, <3>1 DEF HostInv, Sound
    <3>3. On(host.links, o) \subseteq DOMAIN host.links
        BY DEF On
    <3>4. o \in ToSet(x.over) => x.kind # "aggr"
        BY <3>1
    <3> QED
        BY <1>2, <1>6, <2>2, <3>2, <3>3, <3>4
  <2> QED
      BY <1>2, <2>1, <2>2
<1>8. host'.plumbed \subseteq DOMAIN host'.links \cup {"lo0"}
    BY <1>1, <1>2 DEF HostInv, Sound
<1>9. \A a \in DOMAIN host'.addresses : a[1] \in host'.plumbed
    BY <1>1 DEF HostInv, Sound
<1>10. Sound'
    BY <1>7, <1>8, <1>9 DEF Sound
<1> QED
    BY <1>1, <1>2, <1>4, <1>10

\* What is removed has nothing over it and no interface.
LEMMA LinkRemoved ==
    ASSUME HostInv, NEW name \in DOMAIN host.links, Unused(host, name),
           host' = WithoutLink(host, name), clock' = clock + 1
    PROVE  /\ HostType' /\ Sound'
           /\ host'.addresses = host.addresses
           /\ DOMAIN host'.links = DOMAIN host.links \ {name}
           /\ \A l \in DOMAIN host'.links : host'.links[l] = host.links[l]
<1>0. IsHost(host)
    BY DEF HostInv, Typed, HostType
<1>1. /\ IsHost(host') /\ host'.links = Without(host.links, name)
      /\ host'.plumbed = host.plumbed /\ host'.addresses = host.addresses
    BY <1>0, PartsOfHost DEF WithoutLink
<1>2. /\ DOMAIN host'.links = DOMAIN host.links \ {name}
      /\ host'.links = [l \in DOMAIN host'.links |-> host'.links[l]]
      /\ \A l \in DOMAIN host'.links : host'.links[l] = host.links[l]
    BY <1>1 DEF Without
<1>3. clock \in Nat
    BY DEF HostInv, Typed
<1>4. HostType'
    BY <1>1, <1>2, <1>3 DEF HostInv, Typed, HostType
<1>5. \A l \in DOMAIN host'.links : Over(host'.links, l) = Over(host.links, l)
    BY <1>2 DEF Over
<1>6. \A o : On(host'.links, o) = On(host.links, o) \ {name}
    BY <1>2, <1>5 DEF On
<1>7. ASSUME NEW l \in DOMAIN host'.links, NEW o \in Over(host'.links, l)
      PROVE  /\ o \in DOMAIN host'.links
             /\ IF host'.links[l].kind = "aggr"
                THEN /\ host'.links[o].kind = "phys"
                     /\ \A k \in On(host'.links, o) : k = l \/ host'.links[k].kind # "aggr"
                ELSE host'.links[o].kind \in CanCarry[host'.links[l].kind]
  <2>1. l \in DOMAIN host.links /\ o \in Over(host.links, l)
      BY <1>2, <1>5
  <2>2. l \in On(host.links, o)
      BY <2>1 DEF On
  <2>3. o # name
      BY <2>2 DEF Unused
  <2>4. /\ o \in DOMAIN host.links
        /\ IF host.links[l].kind = "aggr"
           THEN /\ host.links[o].kind = "phys"
                /\ \A k \in On(host.links, o) : k = l \/ host.links[k].kind # "aggr"
           ELSE host.links[o].kind \in CanCarry[host.links[l].kind]
      BY <2>1 DEF HostInv, Sound
  <2>5. On(host.links, o) \subseteq DOMAIN host.links
      BY DEF On
  <2> QED
      BY <1>2, <1>6, <2>1, <2>3, <2>4, <2>5
<1>8. host'.plumbed \subseteq DOMAIN host'.links \cup {"lo0"}
    BY <1>1, <1>2 DEF HostInv, Sound, Unused
<1>9. \A a \in DOMAIN host'.addresses : a[1] \in host'.plumbed
    BY <1>1 DEF HostInv, Sound
<1>10. Sound'
    BY <1>7, <1>8, <1>9 DEF Sound
<1> QED
    BY <1>1, <1>2, <1>4, <1>10

\* A link with another MTU is over what it was over.
LEMMA MtuSet ==
    ASSUME HostInv, NEW name \in DOMAIN host.links, NEW mtu,
           host' = WithMtu(host, name, mtu), clock' = clock + 1
    PROVE  /\ HostType' /\ Sound'
           /\ host'.addresses = host.addresses
           /\ DOMAIN host'.links = DOMAIN host.links
           /\ \A l \in DOMAIN host.links : host'.links[l].born = host.links[l].born
<1> DEFINE old == host.links[name]
           new == [old EXCEPT !.mtu = mtu]
<1>1. host' = [host EXCEPT !.links = [host.links EXCEPT ![name] = new]]
    BY DEF WithMtu, HostInv, Typed, HostType, IsHost
<1>2. IsLink(old) /\ IsHost(host)
    BY DEF HostInv, Typed, HostType
<1>3. /\ new = Link(old.kind, old.over, old.mac, old.vid, mtu, old.born)
      /\ IsLink(new) /\ new.kind = old.kind /\ new.over = old.over /\ new.born = old.born
    BY <1>2 DEF IsLink, Link
<1> HIDE DEF new
<1>4. /\ IsHost(host') /\ host'.links = [host.links EXCEPT ![name] = new]
      /\ host'.plumbed = host.plumbed /\ host'.addresses = host.addresses
    BY <1>1, <1>2, PartsOfHost
<1>5. host.links = [l \in DOMAIN host.links |-> host.links[l]]
    BY DEF HostInv, Typed, HostType
<1>6. host'.links = [l \in DOMAIN host.links |-> IF l = name THEN new ELSE host.links[l]]
    BY <1>4, <1>5
<1>7. /\ DOMAIN host'.links = DOMAIN host.links
      /\ host'.links = [l \in DOMAIN host'.links |-> host'.links[l]]
      /\ host'.links[name] = new
      /\ \A l \in DOMAIN host.links : l # name => host'.links[l] = host.links[l]
    BY <1>6
<1>8. \A l \in DOMAIN host.links :
         /\ IsLink(host'.links[l])
         /\ host'.links[l].kind = host.links[l].kind
         /\ host'.links[l].over = host.links[l].over
         /\ host'.links[l].born = host.links[l].born
  <2> SUFFICES ASSUME NEW l \in DOMAIN host.links
               PROVE  /\ IsLink(host'.links[l])
                      /\ host'.links[l].kind = host.links[l].kind
                      /\ host'.links[l].over = host.links[l].over
                      /\ host'.links[l].born = host.links[l].born
      OBVIOUS
  <2>1. CASE l = name
      BY <1>3, <1>7, <2>1
  <2>2. CASE l # name
      BY <1>7, <2>2 DEF HostInv, Typed, HostType
  <2> QED
      BY <2>1, <2>2
<1>9. clock \in Nat
    BY DEF HostInv, Typed
<1>10. HostType'
    BY <1>4, <1>7, <1>8, <1>9 DEF HostInv, Typed, HostType
<1>11. /\ \A l \in DOMAIN host.links : Over(host'.links, l) = Over(host.links, l)
       /\ \A o : On(host'.links, o) = On(host.links, o)
    BY <1>7, <1>8 DEF Over, On
<1>12. \A o : On(host.links, o) \subseteq DOMAIN host.links
    BY DEF On
<1>13. Sound'
    BY <1>4, <1>7, <1>8, <1>11, <1>12 DEF HostInv, Sound
<1> QED
    BY <1>4, <1>7, <1>8, <1>10, <1>13

\* An address is on an interface.
LEMMA AddressAdded ==
    ASSUME HostInv, NEW a, a = <<a[1], "v4">>, a \notin DOMAIN host.addresses,
           a[1] \in host.plumbed, NEW ip, ip # None,
           host' = WithAddress(host, a, ip, clock), clock' = clock + 1
    PROVE  /\ HostType' /\ Sound'
           /\ host'.links = host.links
           /\ DOMAIN host'.addresses = DOMAIN host.addresses \cup {a}
           /\ \A b \in DOMAIN host.addresses : host'.addresses[b] = host.addresses[b]
<1>0. IsHost(host)
    BY DEF HostInv, Typed, HostType
<1>1. /\ IsHost(host') /\ host'.links = host.links /\ host'.plumbed = host.plumbed
      /\ host'.addresses = With(host.addresses, a, [ip |-> ip, born |-> clock])
    BY <1>0, PartsOfHost DEF WithAddress
<1>2. /\ DOMAIN host'.addresses = DOMAIN host.addresses \cup {a}
      /\ host'.addresses[a].ip = ip /\ host'.addresses[a].born = clock
      /\ \A b \in DOMAIN host.addresses : host'.addresses[b] = host.addresses[b]
    BY <1>1 DEF With
<1>3. clock \in Nat
    BY DEF HostInv, Typed
<1>4. HostType'
    BY <1>1, <1>2, <1>3 DEF HostInv, Typed, HostType
<1>5. Sound'
    BY <1>1, <1>2 DEF HostInv, Sound, Over, On
<1> QED
    BY <1>1, <1>2, <1>4, <1>5

\* An interface outlives its addresses.
LEMMA AddressRemoved ==
    ASSUME HostInv, NEW a, host' = WithoutAddress(host, a), clock' = clock + 1
    PROVE  /\ HostType' /\ Sound'
           /\ host'.links = host.links
           /\ DOMAIN host'.addresses = DOMAIN host.addresses \ {a}
           /\ \A b \in DOMAIN host'.addresses : host'.addresses[b] = host.addresses[b]
<1>0. IsHost(host)
    BY DEF HostInv, Typed, HostType
<1>1. /\ IsHost(host') /\ host'.links = host.links /\ host'.plumbed = host.plumbed
      /\ host'.addresses = Without(host.addresses, a)
    BY <1>0, PartsOfHost DEF WithoutAddress
<1>2. /\ DOMAIN host'.addresses = DOMAIN host.addresses \ {a}
      /\ \A b \in DOMAIN host'.addresses : host'.addresses[b] = host.addresses[b]
    BY <1>1 DEF Without
<1>3. clock \in Nat
    BY DEF HostInv, Typed
<1>4. HostType'
    BY <1>1, <1>2, <1>3 DEF HostInv, Typed, HostType
<1>5. Sound'
    BY <1>1, <1>2 DEF HostInv, Sound, Over, On
<1> QED
    BY <1>1, <1>2, <1>4, <1>5


-----------------------------------------------------------------------------
(* What is common to the steps of a request.                               *)

\* Where a request is not idle or over it is busy, and the only one if none have overlapped.
LEMMA OthersIdle ==
    ASSUME Inv, NEW r \in Busy
    PROVE  ~overlapped => \A q \in Requests : q # r => req[q].stage \notin Working
BY DEF Inv, Solo, Busy

\* A busy request takes a step: the others know what they knew.
LEMMA OthersKnow ==
    ASSUME Inv, NEW r \in Busy, overlapped' = overlapped,
           \A q \in Requests : q # r => req'[q] = req[q]
    PROVE  Solo' /\ \A q \in Requests : q # r => Knows(q)'
<1>1. Busy' \subseteq Busy \cup {r}
    BY DEF Busy
<1>2. Solo'
    BY <1>1 DEF Inv, Solo
<1>3. ASSUME NEW q \in Requests, q # r
      PROVE  Knows(q)'
    BY <1>3, OthersIdle DEF Knows, Doing, At, Working
<1> QED
    BY <1>2, <1>3

\* What is listed anew is what the host has.
LEMMA FreshKept ==
    ASSUME Inv, host'.links = host.links, host'.addresses = host.addresses,
           host'.routes = host.routes, cuts' \in Nat, cuts' >= cuts,
           cache' = [k \in Kinds |-> cache'[k]],
           \A k \in Kinds : cache'[k] \in {cache[k], Listing(k)}
    PROVE  Fresh'
<1>1. ASSUME cuts' = 0
      PROVE  \A k \in Kinds : cache'[k] \in {Unknown, host'[k]}
  <2>1. cuts = 0
      BY <1>1 DEF Inv, HostInv, Typed
  <2>2. \A k \in Kinds : cache[k] \in {Unknown, host[k]}
      BY <2>1 DEF Inv, Fresh
  <2>3. \A k \in Kinds : host'[k] = host[k]
      BY DEF Kinds
  <2> QED
      BY <2>2, <2>3 DEF Listing
<1>2. ASSUME cuts' < 2, NEW a \in DOMAIN cache'["addresses"] \cap DOMAIN host'.addresses
      PROVE  cache'["addresses"][a].ip = host'.addresses[a].ip
  <2>1. cuts < 2
      BY <1>2 DEF Inv, HostInv, Typed
  <2>2. \A b \in DOMAIN cache["addresses"] \cap DOMAIN host.addresses :
           cache["addresses"][b].ip = host.addresses[b].ip
      BY <2>1 DEF Inv, Fresh
  <2>3. cache'["addresses"] \in {cache["addresses"], Listing("addresses")}
      BY DEF Kinds
  <2> QED
      BY <1>2, <2>2, <2>3 DEF Listing
<1> QED
    BY <1>1, <1>2 DEF Fresh

\* A step that leaves links, addresses and metadata alone, and may drop a request.
LEMMA Looked ==
    ASSUME Inv, NEW r \in Busy, NEW stage \in Stages, Goto(r, stage),
           stage = "check" => req[r].op # "update_link",
           stage = "plumb" => req[r].op = "create_address",
           stage = "note" => req[r].op \in LinkOps \cup CreateOps \cup AddressOps,
           HostType', Sound', host'.links = host.links,
           host'.addresses = host.addresses, host'.routes = host.routes,
           cache' = [k \in Kinds |-> cache'[k]],
           \A k \in Kinds : cache'[k] \in {cache[k], Listing(k)},
           UNCHANGED <<meta, overlapped, clock>>, cuts' \in Nat, cuts' >= cuts,
           cuts' = 0 => ~At(r, "note"),
           stage # "over" => Knows(r)'
    PROVE  Inv'
<1>1. /\ \A q \in Requests : q # r => req'[q] = req[q]
      /\ req'[r].stage = stage
    BY Going DEF Inv, HostInv, Typed, Busy
<1>2. HostInv'
  <2>1. RequestType'
      BY GoingFits DEF Inv, HostInv, Typed, Busy, Working
  <2>2. MetaType'
      BY DEF Inv, HostInv, Typed, MetaType
  <2> QED
      BY <2>1, <2>2 DEF Inv, HostInv, Typed
<1>3. Solo' /\ \A q \in Requests : q # r => Knows(q)'
    BY <1>1, OthersKnow
<1>4. Knows(r)'
    BY <1>1 DEF Knows, Doing, At
<1>5. Fresh'
    BY FreshKept
<1>6. MetaIsOfThis'
  <2> SUFFICES ASSUME Calm', NEW m \in meta
               PROVE  OfThis(m)' \/ \E q \in Requests : /\ At(q, "note")'
                                                        /\ req'[q].op \in Removing
                                                        /\ m.name = Object(q)'
      BY DEF MetaIsOfThis
  <2>1. Calm /\ ~At(r, "note")
      BY DEF Calm, Inv, HostInv, Typed
  <2>2. OfThis(m) \/ \E q \in Requests : /\ At(q, "note") /\ req[q].op \in Removing
                                         /\ m.name = Object(q)
      BY <2>1 DEF Inv, MetaIsOfThis
  <2>3. Objects' = Objects /\ Born(m.name)' = Born(m.name)
      BY DEF Objects, Born
  <2>4. ASSUME NEW q \in Requests, At(q, "note"), req[q].op \in Removing, m.name = Object(q)
        PROVE  At(q, "note")' /\ req'[q].op \in Removing /\ m.name = Object(q)'
    <3>1. q # r
        BY <2>1, <2>4
    <3> QED
        BY <1>1, <2>4, <3>1 DEF At, Object
  <2> QED
      BY <2>2, <2>3, <2>4 DEF OfThis
<1> QED
    BY <1>2, <1>3, <1>4, <1>5, <1>6 DEF Inv

\* A command has run.
LEMMA Ran ==
    ASSUME Inv, NEW r \in Requests, At(r, "act"), NEW stage \in {"note", "over"},
           Acted(r, stage), HostType', Sound',
           stage = "note" => req[r].op \in LinkOps \cup CreateOps \cup AddressOps,
           \A a \in DOMAIN host.addresses \cap DOMAIN host'.addresses :
              host'.addresses[a].ip = host.addresses[a].ip,
           stage = "note" => IF req[r].op \in Removing THEN Object(r) \notin Objects'
                             ELSE Object(r) \in Objects',
           \A o \in Objects :
              \/ o \in Objects' /\ Born(o)' = Born(o)
              \/ stage = "note" /\ req[r].op \in Removing /\ o = Object(r)
    PROVE  Inv'
<1>1. r \in Busy
    BY DEF Busy, At, Working
<1>2. \E s \in {stage, "over"} : Goto(r, s)
    BY DEF Acted
<1>3. /\ \A q \in Requests : q # r => req'[q] = req[q]
      /\ RequestType'
  <2>1. PICK s \in {stage, "over"} : Goto(r, s)
      BY <1>2
  <2>2. /\ s \in Stages /\ s # "plumb" /\ s # "check"
        /\ s = "note" => req[r].op \in LinkOps \cup CreateOps \cup AddressOps
      BY <2>1 DEF Stages, Working
  <2> QED
      BY <2>1, <2>2, Going, GoingFits DEF Inv, HostInv, Typed, At
<1>4. /\ clock' = clock + 1 /\ UNCHANGED <<meta, overlapped>>
      /\ cuts' \in Nat /\ cuts' >= cuts
      /\ cache' = [k \in Kinds |-> cache'[k]]
    BY DEF Acted, Cleared, Inv, HostInv, Typed
<1>5. HostInv'
  <2>1. MetaType' /\ clock' \in Nat
      BY <1>4 DEF Inv, HostInv, Typed, MetaType
  <2> QED
      BY <1>3, <1>4, <2>1 DEF Inv, HostInv, Typed
<1>6. Solo' /\ \A q \in Requests : q # r => Knows(q)'
    BY <1>1, <1>3, <1>4, OthersKnow
<1>7. CASE cache' = Cleared /\ Goto(r, stage) /\ UNCHANGED cuts
  <2>1. /\ req'[r].stage = stage
        /\ stage = "note" => req'[r].op = req[r].op /\ req'[r].name = req[r].name
      BY <1>7, Going DEF Inv, HostInv, Typed
  <2>2. stage = "note" => Object(r)' = Object(r)
      BY <2>1 DEF Object
  <2>3. Knows(r)'
      BY <2>1, <2>2 DEF Knows, Doing, At
  <2>4. Fresh'
      BY <1>7 DEF Fresh, Cleared, Kinds, Unknown
  <2>5. MetaIsOfThis'
    <3> SUFFICES ASSUME Calm', NEW m \in meta
                 PROVE  OfThis(m)' \/ \E q \in Requests : /\ At(q, "note")'
                                                          /\ req'[q].op \in Removing
                                                          /\ m.name = Object(q)'
        BY <1>4 DEF MetaIsOfThis
    <3>1. Calm
        BY <1>4, <1>7 DEF Calm
    <3>2. \A q \in Requests : ~At(q, "note")
        BY <1>1, <3>1, OthersIdle DEF Calm, At, Working
    <3>3. OfThis(m)
        BY <3>1, <3>2 DEF Inv, MetaIsOfThis
    <3>4. CASE m.name \in Objects' /\ Born(m.name)' = Born(m.name)
        BY <3>3, <3>4 DEF OfThis
    <3>5. CASE stage = "note" /\ req[r].op \in Removing /\ m.name = Object(r)
        BY <2>1, <2>2, <3>5 DEF At
    <3> QED
        BY <3>3, <3>4, <3>5 DEF OfThis
  <2> QED
      BY <1>5, <1>6, <2>3, <2>4, <2>5 DEF Inv
<1>8. CASE cuts' = cuts + 1 /\ Goto(r, "over") /\ UNCHANGED cache
  <2>1. req'[r].stage = "over"
      BY <1>8, Going DEF Inv, HostInv, Typed
  <2>2. Knows(r)'
      BY <2>1 DEF Knows, Doing, At
  <2>3. cuts' > 0
      BY <1>8 DEF Inv, HostInv, Typed
  <2>4. ASSUME cuts' < 2, NEW a \in DOMAIN cache'["addresses"] \cap DOMAIN host'.addresses
        PROVE  cache'["addresses"][a].ip = host'.addresses[a].ip
    <3>1. cuts = 0
        BY <1>8, <2>4 DEF Inv, HostInv, Typed
    <3>2. cache["addresses"] \in {Unknown, host.addresses}
        BY <3>1 DEF Inv, Fresh, Kinds
    <3>3. cache["addresses"] # Unknown
        BY <1>8, <2>4 DEF Unknown
    <3> QED
        BY <1>8, <2>4, <3>2, <3>3
  <2>5. Fresh'
      BY <2>3, <2>4 DEF Fresh
  <2>6. MetaIsOfThis'
      BY <2>3 DEF MetaIsOfThis, Calm
  <2> QED
      BY <1>5, <1>6, <2>2, <2>5, <2>6 DEF Inv
<1> QED
    BY <1>7, <1>8 DEF Acted

-----------------------------------------------------------------------------
(* The host to begin with.                                                 *)

LEMMA LinksOnHost ==
    /\ DOMAIN OnHost.links = {"p0", "p1", "p2", "aggr0", "aggr1", "vlan0"}
    /\ \A l \in {"p0", "p1", "p2"} : OnHost.links[l] = Link("phys", << >>, l, 0, 1500, 0)
    /\ OnHost.links["aggr0"] = Link("aggr", <<"p0">>, "p0", 0, 1500, 0)
    /\ OnHost.links["aggr1"] = Link("aggr", <<"p1">>, "p1", 0, 1500, 0)
    /\ OnHost.links["vlan0"] = Link("vlan", <<"aggr0">>, "p0", 10, 1500, 0)
BY DEF OnHost

LEMMA AddressesOnHost ==
    /\ DOMAIN OnHost.addresses = {<<l, "v4">> : l \in {"lo0", "vlan0", "aggr1"}}
    /\ \A a \in DOMAIN OnHost.addresses :
          /\ OnHost.addresses[a].ip \in {"mgmt", "other", "loopback"}
          /\ OnHost.addresses[a].born = 0
BY DEF OnHost

\* The host holds together to begin with.
LEMMA InitInv == Init => Inv
<1> SUFFICES ASSUME Init
             PROVE  Inv
    OBVIOUS
<1>1. /\ DOMAIN host.links = {"p0", "p1", "p2", "aggr0", "aggr1", "vlan0"}
      /\ \A l \in {"p0", "p1", "p2"} : host.links[l] = Link("phys", << >>, l, 0, 1500, 0)
      /\ host.links["aggr0"] = Link("aggr", <<"p0">>, "p0", 0, 1500, 0)
      /\ host.links["aggr1"] = Link("aggr", <<"p1">>, "p1", 0, 1500, 0)
      /\ host.links["vlan0"] = Link("vlan", <<"aggr0">>, "p0", 10, 1500, 0)
    BY LinksOnHost DEF Init
<1>2. /\ DOMAIN host.addresses = {<<l, "v4">> : l \in {"lo0", "vlan0", "aggr1"}}
      /\ \A a \in DOMAIN host.addresses :
            /\ host.addresses[a].ip \in {"mgmt", "other", "loopback"}
            /\ host.addresses[a].born = 0
    BY AddressesOnHost DEF Init
<1>3. host.plumbed = {"lo0", "vlan0", "aggr1"}
    BY DEF Init, OnHost
<1>4. HostType
  <2>1. IsHost(host) /\ host.links = [l \in DOMAIN host.links |-> host.links[l]]
      BY DEF Init, OnHost, IsHost
  <2>2. ASSUME NEW l \in DOMAIN host.links
        PROVE  /\ IsLink(host.links[l])
               /\ host.links[l].kind \in LinkKinds /\ host.links[l].born \in 0 .. clock
      BY <1>1 DEF Init, IsLink, Link, LinkKinds
  <2>3. ASSUME NEW a \in DOMAIN host.addresses
        PROVE  /\ a = <<a[1], "v4">>
               /\ host.addresses[a].ip # None /\ host.addresses[a].born \in 0 .. clock
      BY <1>2 DEF None, Init
  <2> QED
      BY <2>1, <2>2, <2>3 DEF HostType
<1>5. RequestType
  <2>1. \A r \in Requests : req[r] = NewRequest
      BY DEF Init
  <2>2. Fits(NewRequest)
      BY DEF Fits, IsRequest, NewRequest, Ops, AddressOps, Stages
  <2>3. req = [r \in Requests |-> req[r]]
      BY DEF Init
  <2> QED
      BY <2>1, <2>2, <2>3 DEF RequestType
<1>6. Typed
    BY <1>4, <1>5 DEF Typed, Init, MetaType, Cleared
<1>7. Sound
  <2>1. /\ Over(host.links, "aggr0") = {"p0"} /\ Over(host.links, "aggr1") = {"p1"}
        /\ Over(host.links, "vlan0") = {"aggr0"}
        /\ \A l \in {"p0", "p1", "p2"} : Over(host.links, l) = {}
      BY <1>1 DEF Over, ToSet, Link
  <2>2. On(host.links, "p0") = {"aggr0"} /\ On(host.links, "p1") = {"aggr1"}
      BY <1>1, <2>1 DEF On
  <2>3. ASSUME NEW l \in DOMAIN host.links, NEW o \in Over(host.links, l)
        PROVE  /\ o \in DOMAIN host.links
               /\ IF host.links[l].kind = "aggr"
                  THEN /\ host.links[o].kind = "phys"
                       /\ \A k \in On(host.links, o) : k = l \/ host.links[k].kind # "aggr"
                  ELSE host.links[o].kind \in CanCarry[host.links[l].kind]
    <3>1. CASE l = "aggr0"
        BY <1>1, <2>1, <2>2, <2>3, <3>1 DEF Link
    <3>2. CASE l = "aggr1"
        BY <1>1, <2>1, <2>2, <2>3, <3>2 DEF Link
    <3>3. CASE l = "vlan0"
        BY <1>1, <2>1, <2>2, <2>3, <3>3 DEF Link, CanCarry
    <3> QED
        BY <1>1, <2>1, <2>3, <3>1, <3>2, <3>3
  <2>4. /\ host.plumbed \subseteq DOMAIN host.links \cup {"lo0"}
        /\ \A a \in DOMAIN host.addresses : a[1] \in host.plumbed
      BY <1>1, <1>2, <1>3
  <2> QED
      BY <2>3, <2>4 DEF Sound
<1>8. Solo /\ (\A r \in Requests : Knows(r)) /\ MetaIsOfThis
    BY DEF Init, Solo, Busy, Working, NewRequest, Knows, Doing, At, MetaIsOfThis
<1>9. Fresh
    BY DEF Fresh, Init, Cleared, Kinds, Unknown
<1> QED
    BY <1>6, <1>7, <1>8, <1>9 DEF Inv, HostInv
-----------------------------------------------------------------------------
(* The steps.                                                              *)

LEMMA AskStep ==
    ASSUME Inv, NEW r \in Requests, Ask(r)
    PROVE  Inv'
<1>0. PICK op \in Asks[r] : \E in \in Inputs(op) :
         req' = [req EXCEPT ![r] = [op |-> op, stage |-> FirstStage(op), name |-> in.name,
                                    kind |-> in.kind, over |-> in.over, ip |-> in.ip,
                                    came |-> in.came]]
    BY DEF Ask
<1>1. PICK in \in Inputs(op) :
         req' = [req EXCEPT ![r] = [op |-> op, stage |-> FirstStage(op), name |-> in.name,
                                    kind |-> in.kind, over |-> in.over, ip |-> in.ip,
                                    came |-> in.came]]
    BY <1>0
<1> DEFINE new == [op |-> op, stage |-> FirstStage(op), name |-> in.name, kind |-> in.kind,
                   over |-> in.over, ip |-> in.ip, came |-> in.came]
<1>2. /\ UNCHANGED <<host, cache, meta, cuts, clock>>
      /\ overlapped' = (overlapped \/ Busy # {}) /\ At(r, "idle")
    BY DEF Ask
<1>3. op \in Ops
    BY NetworkAssumption DEF Requests
<1>4. /\ op \in AddressOps => in.name = <<in.name[1], "v4">>
      /\ op = "create_address" => in.ip \in IPs
  <2>1. ASSUME op \in AddressOps
        PROVE  in.name = <<in.name[1], "v4">>
    <3>1. op \notin LinkOps /\ op \notin CreateOps /\ op \notin RouteOps
        BY <2>1 DEF AddressOps, LinkOps, CreateOps, RouteOps
    <3>2. in.name \in CASE op \in LinkOps -> Names
                         [] op \in CreateOps -> NewNames
                         [] op \in AddressOps -> {<<l, "v4">> : l \in Names}
                         [] op \in RouteOps -> RouteNames
                         [] OTHER -> {None}
        BY DEF Inputs
    <3>3. in.name \in {<<l, "v4">> : l \in Names}
        BY <2>1, <3>1, <3>2
    <3> QED
        BY <3>3
  <2>2. op = "create_address" => in.ip \in IPs
      BY DEF Inputs
  <2> QED
      BY <2>1, <2>2
<1>5. /\ FirstStage(op) \in {"check", "act", "find"}
      /\ FirstStage(op) = "act" => op = "create_route"
      /\ FirstStage(op) = "check" => op \notin {"delete_address", "update_link"}
    BY DEF FirstStage, CreateOps
<1>6. Fits(new)
    BY <1>3, <1>4, <1>5, NetworkAssumption DEF Fits, IsRequest, Stages, Working
<1>7. /\ req' = [q \in Requests |-> req'[q]]
      /\ req'[r] = new
      /\ \A q \in Requests : q # r => req'[q] = req[q]
  <2>1. req = [q \in Requests |-> req[q]]
      BY DEF Inv, HostInv, Typed, RequestType
  <2> QED
      BY <1>1, <2>1
<1> HIDE DEF new
<1>8. RequestType'
  <2>1. \A q \in Requests : Fits(req'[q])
      BY <1>6, <1>7 DEF Inv, HostInv, Typed, RequestType
  <2> QED
      BY <1>7, <2>1 DEF RequestType
<1>9. HostInv'
  <2>1. HostType' /\ MetaType' /\ Sound'
      BY <1>2 DEF Inv, HostInv, Typed, HostType, MetaType, Sound
  <2>2. overlapped' \in BOOLEAN
      BY <1>2 DEF Inv, HostInv, Typed
  <2> QED
      BY <1>2, <1>8, <2>1, <2>2 DEF Inv, HostInv, Typed
<1>10. ~overlapped' => Busy' \subseteq {r}
    BY <1>2, <1>7 DEF Busy
<1>11. Solo'
    BY <1>10 DEF Solo
<1>12. ASSUME NEW q \in Requests
       PROVE  Knows(q)'
  <2>1. CASE q = r
      BY <1>5, <1>7, <2>1 DEF Knows, Doing, At, new
  <2>2. CASE q # r
      BY <1>10, <2>2 DEF Knows, Doing, At, Busy, Working
  <2> QED
      BY <2>1, <2>2
<1>13. Fresh'
    BY <1>2 DEF Inv, Fresh
<1>14. MetaIsOfThis'
  <2>1. Calm' => Calm
      BY <1>2 DEF Calm, Inv, HostInv, Typed
  <2>2. \A q \in Requests : At(q, "note") =>
           /\ At(q, "note")' /\ req'[q].op = req[q].op /\ Object(q)' = Object(q)
      BY <1>2, <1>7 DEF At, Object
  <2>3. \A m : OfThis(m) => OfThis(m)'
      BY <1>2 DEF OfThis, Objects, Born
  <2> QED
      BY <1>2, <2>1, <2>2, <2>3 DEF Inv, MetaIsOfThis
<1> QED
    BY <1>9, <1>11, <1>12, <1>13, <1>14 DEF Inv

\* A host that stays stays sound.
LEMMA HostSame ==
    ASSUME HostInv, host' = host, clock' = clock
    PROVE  HostType' /\ Sound'
BY DEF HostInv, Typed, HostType, Sound, Over, On

LEMMA FindLinkStep ==
    ASSUME Inv, NEW r \in Requests, FindLink(r)
    PROVE  Inv'
<1> DEFINE links == Listing("links")
           stage == IF req[r].name \notin DOMAIN links THEN "over"
                    ELSE IF req[r].op = "update_link" THEN "act"
                    ELSE IF links[req[r].name].kind = req[r].kind THEN "check" ELSE "over"
<1>1. /\ At(r, "find") /\ Goto(r, stage)
      /\ cache' = [cache EXCEPT !["links"] = links]
      /\ UNCHANGED <<host, meta, overlapped, cuts, clock>>
    BY DEF FindLink
<1>2. /\ r \in Busy /\ stage \in {"over", "act", "check"}
      /\ stage = "check" => req[r].op # "update_link"
    BY <1>1 DEF Busy, At, Working
<1>3. /\ cache' = [k \in Kinds |-> cache'[k]]
      /\ \A k \in Kinds : cache'[k] \in {cache[k], Listing(k)}
  <2>1. cache = [k \in Kinds |-> cache[k]]
      BY DEF Inv, HostInv, Typed
  <2> HIDE DEF links
  <2>2. cache' = [k \in Kinds |-> IF k = "links" THEN links ELSE cache[k]]
      BY <1>1, <2>1
  <2> QED
      BY <2>2 DEF links
<1>4. HostType' /\ Sound'
    BY <1>1, HostSame DEF Inv
<1>5. stage # "over" => Knows(r)'
  <2> SUFFICES ASSUME stage # "over"
               PROVE  Knows(r)'
      OBVIOUS
  <2>1. req'[r].stage = stage /\ req'[r].op = req[r].op /\ req'[r].name = req[r].name
      BY <1>1, Going DEF Inv, HostInv, Typed
  <2>2. cuts = 0 => links = host.links
      BY DEF Listing, Inv, Fresh, Kinds
  <2>3. req[r].op \in LinkOps
      BY DEF FindLink
  <2>4. req[r].name \in DOMAIN links
      OBVIOUS
  <2> HIDE DEF links
  <2>5. stage \in {"act", "check"}
      BY <1>2
  <2> HIDE DEF stage
  <2> QED
      BY <1>1, <2>1, <2>2, <2>3, <2>4, <2>5 DEF Knows, Doing, At, LinkOps
<1> HIDE DEF stage, links
<1>6. cuts' \in Nat /\ cuts' >= cuts /\ ~At(r, "note")
    BY <1>1 DEF Inv, HostInv, Typed, At
<1>7. stage \in Stages /\ stage # "plumb" /\ stage # "note"
    BY <1>2 DEF Stages, Working
<1> QED
    BY <1>1, <1>2, <1>3, <1>4, <1>5, <1>6, <1>7, Looked
LEMMA FindAddressStep ==
    ASSUME Inv, NEW r \in Requests, FindAddress(r)
    PROVE  Inv'
<1> DEFINE listed == Listing("addresses")
           stage == IF req[r].name \in DOMAIN listed THEN "check" ELSE "over"
<1>1. /\ At(r, "find") /\ req[r].op = "delete_address" /\ Goto(r, stage)
      /\ cache' = [cache EXCEPT !["addresses"] = listed]
      /\ UNCHANGED <<host, meta, overlapped, cuts, clock>>
    BY DEF FindAddress
<1>2. r \in Busy /\ stage \in {"over", "check"}
    BY <1>1 DEF Busy, At, Working
<1> HIDE DEF stage
<1>3. /\ cache' = [k \in Kinds |-> cache'[k]]
      /\ \A k \in Kinds : cache'[k] \in {cache[k], Listing(k)}
  <2>1. cache = [k \in Kinds |-> cache[k]]
      BY DEF Inv, HostInv, Typed
  <2> HIDE DEF listed
  <2>2. cache' = [k \in Kinds |-> IF k = "addresses" THEN listed ELSE cache[k]]
      BY <1>1, <2>1
  <2> QED
      BY <2>2 DEF listed
<1>4. HostType' /\ Sound'
    BY <1>1, HostSame DEF Inv
<1>5. stage # "over" => Knows(r)'
  <2> SUFFICES ASSUME stage # "over"
               PROVE  Knows(r)'
      OBVIOUS
  <2>1. req'[r].stage = "check" /\ req'[r].name = req[r].name
      BY <1>1, <1>2, Going DEF Inv, HostInv, Typed
  <2>2. req[r].name \in DOMAIN listed
      BY DEF stage
  <2>3. cache'["addresses"] = listed
      BY <1>1 DEF Inv, HostInv, Typed, Kinds
  <2>4. Listing("addresses")' = listed
      BY <2>2, <2>3 DEF Listing, Unknown
  <2> QED
      BY <2>1, <2>2, <2>4 DEF Knows, Doing, At
<1>6. cuts' \in Nat /\ cuts' >= cuts /\ ~At(r, "note")
    BY <1>1 DEF Inv, HostInv, Typed, At
<1>7. stage \in Stages /\ stage # "plumb" /\ stage # "note"
    BY <1>2 DEF Stages, Working
<1> QED
    BY <1>1, <1>2, <1>3, <1>4, <1>5, <1>6, <1>7, Looked

LEMMA FindRouteStep ==
    ASSUME Inv, NEW r \in Requests, FindRoute(r)
    PROVE  Inv'
<1> DEFINE listed == Listing("routes")
           stage == IF req[r].name \in DOMAIN listed /\ listed[req[r].name].kind = "static"
                    THEN "act" ELSE "over"
<1>1. /\ At(r, "find") /\ req[r].op = "delete_route" /\ Goto(r, stage)
      /\ cache' = [cache EXCEPT !["routes"] = listed]
      /\ UNCHANGED <<host, meta, overlapped, cuts, clock>>
    BY DEF FindRoute
<1>2. r \in Busy /\ stage \in {"over", "act"}
    BY <1>1 DEF Busy, At, Working
<1> HIDE DEF stage
<1>3. /\ cache' = [k \in Kinds |-> cache'[k]]
      /\ \A k \in Kinds : cache'[k] \in {cache[k], Listing(k)}
  <2>1. cache = [k \in Kinds |-> cache[k]]
      BY DEF Inv, HostInv, Typed
  <2> HIDE DEF listed
  <2>2. cache' = [k \in Kinds |-> IF k = "routes" THEN listed ELSE cache[k]]
      BY <1>1, <2>1
  <2> QED
      BY <2>2 DEF listed
<1>4. HostType' /\ Sound'
    BY <1>1, HostSame DEF Inv
<1>5. stage # "over" => Knows(r)'
  <2>1. req'[r].stage = stage /\ (stage = "act" => req'[r].op = "delete_route")
      BY <1>1, Going DEF Inv, HostInv, Typed
  <2> QED
      BY <1>2, <2>1 DEF Knows, Doing, At
<1>6. cuts' \in Nat /\ cuts' >= cuts /\ ~At(r, "note")
    BY <1>1 DEF Inv, HostInv, Typed, At
<1>7. stage \in Stages /\ stage # "plumb" /\ stage # "note"
    BY <1>2 DEF Stages, Working
<1> QED
    BY <1>1, <1>2, <1>3, <1>4, <1>5, <1>6, <1>7, Looked

LEMMA ListStep ==
    ASSUME Inv, NEW r \in Requests, List(r)
    PROVE  Inv'
<1>1. /\ At(r, "find") /\ Goto(r, "over")
      /\ UNCHANGED <<host, meta, overlapped, cuts, clock>>
    BY DEF List
<1>2. r \in Busy
    BY <1>1 DEF Busy, At, Working
<1>3. /\ cache' = [k \in Kinds |-> cache'[k]]
      /\ \A k \in Kinds : cache'[k] \in {cache[k], Listing(k)}
  <2> DEFINE links == Listing("links")
             addresses == Listing("addresses")
             routes == Listing("routes")
  <2>1. cache = [k \in Kinds |-> cache[k]]
      BY DEF Inv, HostInv, Typed
  <2>2. \/ cache' = [cache EXCEPT !["links"] = links, !["addresses"] = addresses]
        \/ cache' = [cache EXCEPT !["routes"] = routes]
      BY DEF List, LinksListed
  <2> HIDE DEF links, addresses, routes
  <2>3. \/ cache' = [k \in Kinds |-> IF k = "links" THEN links
                                     ELSE IF k = "addresses" THEN addresses ELSE cache[k]]
        \/ cache' = [k \in Kinds |-> IF k = "routes" THEN routes ELSE cache[k]]
      BY <2>1, <2>2
  <2> QED
      BY <2>3 DEF links, addresses, routes
<1>4. HostType' /\ Sound'
    BY <1>1, HostSame DEF Inv
<1>5. cuts' \in Nat /\ cuts' >= cuts /\ ~At(r, "note") /\ "over" \in Stages
    BY <1>1 DEF Inv, HostInv, Typed, At, Stages
<1> QED
    BY <1>1, <1>2, <1>3, <1>4, <1>5, Looked

\* The check of a removal looks at the ips of the addresses listed.
LEMMA CheckStep ==
    ASSUME Inv, NEW r \in Requests, Check(r)
    PROVE  Inv'
<1> DEFINE stage == IF ~Allowed(r, Listing("links"), Listing("addresses")) THEN "over"
                    ELSE IF req[r].op = "create_address" THEN "plumb" ELSE "act"
<1>1. /\ At(r, "check") /\ Goto(r, stage)
      /\ cache' = [k \in Kinds |-> IF k \in Looks(r) THEN Listing(k) ELSE cache[k]]
      /\ UNCHANGED <<host, meta, overlapped, cuts, clock>>
    BY DEF Check
<1>2. /\ r \in Busy /\ stage \in {"over", "plumb", "act"}
      /\ stage = "plumb" => req[r].op = "create_address"
      /\ stage = "act" => Allowed(r, Listing("links"), Listing("addresses"))
    BY <1>1 DEF Busy, At, Working
<1> HIDE DEF stage
<1>3. /\ cache' = [k \in Kinds |-> cache'[k]]
      /\ \A k \in Kinds : cache'[k] \in {cache[k], Listing(k)}
    BY <1>1
<1>4. HostType' /\ Sound'
    BY <1>1, HostSame DEF Inv
<1>5. ASSUME stage = "act", req[r].op = "delete_address", cuts < 2,
             req[r].name \in DOMAIN host.addresses, ~overlapped
      PROVE  host.addresses[req[r].name].ip \notin {Listen, req[r].came}
  <2> DEFINE listed == Listing("addresses")
             ips == {Listen, req[r].came} \ {None}
  <2>1. req[r].name \notin {a \in DOMAIN listed : listed[a].ip \in ips}
      BY <1>2, <1>5 DEF Allowed, ProtectedAddresses, ManagementIps
  <2>2. host.addresses[req[r].name].ip # None
      BY <1>5 DEF Inv, HostInv, Typed, HostType
  <2>3. listed = host.addresses \/ listed = cache["addresses"]
      BY DEF Listing
  <2>4. req[r].name \in DOMAIN listed =>
           listed[req[r].name].ip = host.addresses[req[r].name].ip
      BY <1>5, <2>3 DEF Inv, Fresh
  <2>5. req[r].name \in DOMAIN listed
      BY <1>1, <1>5 DEF Inv, Knows
  <2> QED
      BY <2>1, <2>2, <2>4, <2>5
<1>6. stage # "over" => Knows(r)'
  <2>1. req'[r].stage = stage
      BY <1>1, Going DEF Inv, HostInv, Typed
  <2>2. stage # "over" => /\ req'[r].op = req[r].op /\ req'[r].name = req[r].name
                          /\ req'[r].came = req[r].came
      BY <1>1, Going DEF Inv, HostInv, Typed
  <2>3. req[r].op # "update_link"
      BY <1>1 DEF At, Inv, HostInv, Typed, RequestType, Fits
  <2> QED
      BY <1>1, <1>2, <1>5, <2>1, <2>2, <2>3 DEF Knows, Doing, At
<1>7. cuts' \in Nat /\ cuts' >= cuts /\ ~At(r, "note")
    BY <1>1 DEF Inv, HostInv, Typed, At
<1>8. stage \in Stages /\ stage # "note" /\ stage # "check"
    BY <1>2 DEF Stages, Working
<1> QED
    BY <1>1, <1>2, <1>3, <1>4, <1>6, <1>7, <1>8, Looked
-----------------------------------------------------------------------------
(* The commands.                                                           *)

\* A link's object and an address are told apart by their lengths.
LEMMA TwoKinds ==
    ASSUME NEW a, a = <<a[1], "v4">>
    PROVE  Len(a) = 2 /\ \A l : a # <<l>> /\ Len(<<l>>) = 1 /\ <<l>>[1] = l
OBVIOUS

\* The objects that are not gone are as they were.
LEMMA ObjectsKept ==
    ASSUME HostInv, HostType', NEW gone,
           \A l \in DOMAIN host.links :
              \/ <<l>> \in gone
              \/ l \in DOMAIN host'.links /\ host'.links[l].born = host.links[l].born,
           \A a \in DOMAIN host.addresses :
              \/ a \in gone
              \/ a \in DOMAIN host'.addresses /\ host'.addresses[a].born = host.addresses[a].born
    PROVE  \A o \in Objects : o \in gone \/ (o \in Objects' /\ Born(o)' = Born(o))
<1> SUFFICES ASSUME NEW o \in Objects, o \notin gone
             PROVE  o \in Objects' /\ Born(o)' = Born(o)
    OBVIOUS
<1>1. CASE o \in {<<l>> : l \in DOMAIN host.links}
  <2>1. PICK l \in DOMAIN host.links : o = <<l>>
      BY <1>1
  <2>2. l \in DOMAIN host'.links /\ host'.links[l].born = host.links[l].born
      BY <2>1
  <2>3. Len(o) = 1 /\ o[1] = l
      BY <2>1
  <2> QED
      BY <2>1, <2>2, <2>3 DEF Objects, Born
<1>2. CASE o \in DOMAIN host.addresses
  <2>1. o = <<o[1], "v4">>
      BY <1>2 DEF HostInv, Typed, HostType
  <2>2. Len(o) = 2
      BY <2>1, TwoKinds
  <2>3. o \in DOMAIN host'.addresses /\ host'.addresses[o].born = host.addresses[o].born
      BY <1>2
  <2> QED
      BY <2>2, <2>3 DEF Objects, Born
<1> QED
    BY <1>1, <1>2 DEF Objects

LEMMA AllKept ==
    ASSUME HostInv, HostType',
           \A l \in DOMAIN host.links :
              l \in DOMAIN host'.links /\ host'.links[l].born = host.links[l].born,
           \A a \in DOMAIN host.addresses :
              /\ a \in DOMAIN host'.addresses
              /\ host'.addresses[a].born = host.addresses[a].born
    PROVE  \A o \in Objects : o \in Objects' /\ Born(o)' = Born(o)
<1> DEFINE gone == {}
<1>1. \A o \in Objects : o \in gone \/ (o \in Objects' /\ Born(o)' = Born(o))
  <2> HIDE DEF gone
  <2> QED
      BY ObjectsKept
<1> QED
    BY <1>1

LEMMA LinkIs ==
    ASSUME NEW kind, NEW over, NEW mac, NEW vid, NEW mtu, NEW born, NEW x,
           x = Link(kind, over, mac, vid, mtu, born)
    PROVE  IsLink(x) /\ x.kind = kind /\ x.over = over /\ x.born = born
BY DEF IsLink, Link

\* A request has made a link.
LEMMA Made ==
    ASSUME Inv, NEW r \in Requests, At(r, "act"), req[r].op \in CreateOps,
           req[r].name \notin DOMAIN host.links,
           NEW x, IsLink(x), x.kind \in LinkKinds, x.born = clock,
           \A o \in ToSet(x.over) :
              /\ o \in DOMAIN host.links
              /\ IF x.kind = "aggr"
                 THEN host.links[o].kind = "phys" /\ On(host.links, o) = {}
                 ELSE host.links[o].kind \in CanCarry[x.kind],
           host' = [host EXCEPT !.links = With(@, req[r].name, x)], Acted(r, "note")
    PROVE  Inv'
<1>1. HostInv /\ clock' = clock + 1
    BY DEF Inv, Acted
<1>2. /\ HostType' /\ Sound'
      /\ host'.addresses = host.addresses
      /\ DOMAIN host'.links = DOMAIN host.links \cup {req[r].name}
      /\ \A l \in DOMAIN host.links : host'.links[l] = host.links[l]
    BY <1>1, LinkAdded
<1>3. \A o \in Objects : o \in Objects' /\ Born(o)' = Born(o)
    BY <1>1, <1>2, AllKept
<1>4. /\ req[r].op \notin Removing /\ Object(r) = <<req[r].name>>
      /\ Object(r) \in Objects'
    BY <1>2 DEF CreateOps, Removing, AddressOps, Object, Objects
<1> QED
    BY <1>2, <1>3, <1>4, Ran

LEMMA CreateAggrStep ==
    ASSUME Inv, NEW r \in Requests, CreateAggr(r)
    PROVE  Inv'
<1> DEFINE x == Link("aggr", req[r].over, host.links[req[r].over[1]].mac, 0, 1500, clock)
<1>1. IsLink(x) /\ x.kind = "aggr" /\ x.over = req[r].over /\ x.born = clock
    BY LinkIs
<1>2. /\ host' = [host EXCEPT !.links = With(@, req[r].name, x)]
      /\ At(r, "act") /\ req[r].op \in CreateOps /\ Acted(r, "note")
      /\ req[r].name \notin DOMAIN host.links
      /\ \A p \in ToSet(req[r].over) :
            p \in DOMAIN host.links /\ host.links[p].kind = "phys" /\ On(host.links, p) = {}
    BY DEF CreateAggr, Doing, CreateOps, WithAggr, CanCreateAggr, Unused
<1> HIDE DEF x
<1> QED
    BY <1>1, <1>2, Made DEF LinkKinds

LEMMA CreateVlanStep ==
    ASSUME Inv, NEW r \in Requests, CreateVlan(r)
    PROVE  Inv'
<1> DEFINE over == req[r].over[1]
           mac == host.links[over].mac
           mtu == host.links[over].mtu
           x == Link("vlan", <<over>>, mac, 10, mtu, clock)
<1> HIDE DEF mac, mtu
<1>1. IsLink(x) /\ x.kind = "vlan" /\ x.over = <<over>> /\ x.born = clock
    BY LinkIs
<1>2. /\ host' = [host EXCEPT !.links = With(@, req[r].name, x)]
      /\ At(r, "act") /\ req[r].op \in CreateOps /\ Acted(r, "note")
      /\ req[r].name \notin DOMAIN host.links
      /\ over \in DOMAIN host.links /\ host.links[over].kind \in CanCarry["vlan"]
    BY DEF CreateVlan, Doing, CreateOps, WithVlan, CanCreateOver, mac, mtu
<1>3. ToSet(<<over>>) = {over}
    BY DEF ToSet
<1> HIDE DEF x, over
<1> QED
    BY <1>1, <1>2, <1>3, Made DEF LinkKinds

LEMMA CreateVnicStep ==
    ASSUME Inv, NEW r \in Requests, CreateVnic(r)
    PROVE  Inv'
<1> DEFINE over == req[r].over[1]
           x == Link("vnic", <<over>>, req[r].name, 0, host.links[over].mtu, clock)
<1>1. IsLink(x) /\ x.kind = "vnic" /\ x.over = <<over>> /\ x.born = clock
    BY DEF IsLink, Link
<1>2. /\ host' = [host EXCEPT !.links = With(@, req[r].name, x)]
      /\ At(r, "act") /\ req[r].op \in CreateOps /\ Acted(r, "note")
      /\ req[r].name \notin DOMAIN host.links
      /\ over \in DOMAIN host.links /\ host.links[over].kind \in CanCarry["vnic"]
    BY DEF CreateVnic, Doing, CreateOps, WithVnic, CanCreateOver
<1>3. ToSet(<<over>>) = {over}
    BY DEF ToSet
<1> HIDE DEF x, over
<1> QED
    BY <1>1, <1>2, <1>3, Made DEF LinkKinds

LEMMA CreateEtherstubStep ==
    ASSUME Inv, NEW r \in Requests, CreateEtherstub(r)
    PROVE  Inv'
<1> DEFINE x == Link("etherstub", << >>, None, 0, 9000, clock)
<1>1. IsLink(x) /\ x.kind = "etherstub" /\ x.over = << >> /\ x.born = clock
    BY LinkIs
<1>2. /\ host' = [host EXCEPT !.links = With(@, req[r].name, x)]
      /\ At(r, "act") /\ req[r].op \in CreateOps /\ Acted(r, "note")
      /\ req[r].name \notin DOMAIN host.links
    BY DEF CreateEtherstub, Doing, CreateOps, WithEtherstub, CanCreateEtherstub
<1>3. ToSet(<< >>) = {}
    BY DEF ToSet
<1> HIDE DEF x
<1> QED
    BY <1>1, <1>2, <1>3, Made DEF LinkKinds

LEMMA RemoveLinkStep ==
    ASSUME Inv, NEW r \in Requests, RemoveLink(r)
    PROVE  Inv'
<1>1. /\ At(r, "act") /\ req[r].op = "remove_link" /\ Acted(r, "note")
      /\ req[r].name \in DOMAIN host.links /\ Unused(host, req[r].name)
      /\ host' = WithoutLink(host, req[r].name)
    BY DEF RemoveLink, Doing, CanDeleteLink
<1>2. HostInv /\ clock' = clock + 1
    BY <1>1 DEF Inv, Acted
<1>3. /\ HostType' /\ Sound'
      /\ host'.addresses = host.addresses
      /\ DOMAIN host'.links = DOMAIN host.links \ {req[r].name}
      /\ \A l \in DOMAIN host'.links : host'.links[l] = host.links[l]
    BY <1>1, <1>2, LinkRemoved
<1>4. /\ req[r].op \in Removing /\ req[r].op \in LinkOps
      /\ Object(r) = <<req[r].name>>
    BY <1>1 DEF Removing, LinkOps, AddressOps, Object
<1>5. \A o \in Objects : o \in {Object(r)} \/ (o \in Objects' /\ Born(o)' = Born(o))
    BY <1>2, <1>3, <1>4, ObjectsKept
<1>6. Object(r) \notin Objects'
  <2>1. Object(r) \notin DOMAIN host'.addresses
      BY <1>3, <1>4, TwoKinds DEF HostType
  <2>2. Object(r) \notin {<<l>> : l \in DOMAIN host'.links}
      BY <1>3, <1>4
  <2> QED
      BY <2>1, <2>2 DEF Objects
<1> QED
    BY <1>1, <1>3, <1>4, <1>5, <1>6, Ran

LEMMA UpdateLinkStep ==
    ASSUME Inv, NEW r \in Requests, UpdateLink(r)
    PROVE  Inv'
<1>1. At(r, "act") /\ req[r].op = "update_link" /\ r \in Busy
    BY DEF UpdateLink, Doing, At, Busy, Working
<1>2. /\ req[r].op \notin Removing /\ req[r].op \in LinkOps
      /\ Object(r) = <<req[r].name>>
    BY <1>1 DEF Removing, LinkOps, AddressOps, Object
<1>3. CASE CanSetMtu(host, req[r].name) /\ host' = WithMtu(host, req[r].name, 1400)
           /\ Acted(r, "note")
  <2>1. HostInv /\ clock' = clock + 1 /\ req[r].name \in DOMAIN host.links
      BY <1>3 DEF Inv, Acted, CanSetMtu
  <2>2. /\ HostType' /\ Sound'
        /\ host'.addresses = host.addresses
        /\ DOMAIN host'.links = DOMAIN host.links
        /\ \A l \in DOMAIN host.links : host'.links[l].born = host.links[l].born
      BY <1>3, <2>1, MtuSet
  <2>3. \A o \in Objects : o \in Objects' /\ Born(o)' = Born(o)
      BY <2>1, <2>2, AllKept
  <2>4. Object(r) \in Objects'
      BY <1>2, <2>1, <2>2 DEF Objects
  <2> QED
      BY <1>1, <1>2, <1>3, <2>2, <2>3, <2>4, Ran
<1>4. CASE Goto(r, "note") /\ UNCHANGED <<host, cache, meta, overlapped, cuts, clock>>
  <2>1. HostType' /\ Sound'
      BY <1>4, HostSame DEF Inv
  <2>2. /\ req'[r].stage = "note" /\ req'[r].op = req[r].op /\ req'[r].name = req[r].name
      BY <1>4, Going DEF Inv, HostInv, Typed
  <2>3. Knows(r)'
    <3>1. ~overlapped /\ cuts = 0 => req[r].name \in DOMAIN host.links
        BY <1>1 DEF Inv, Knows, Doing
    <3>2. Object(r)' = <<req[r].name>>
        BY <1>2, <2>2 DEF Object, LinkOps, AddressOps, Removing
    <3> QED
        BY <1>2, <1>4, <2>2, <3>1, <3>2 DEF Knows, Doing, At, Objects
  <2>4. cuts' \in Nat /\ cuts' >= cuts /\ ~At(r, "note")
      BY <1>1, <1>4 DEF Inv, HostInv, Typed, At
  <2>5. cache' = [k \in Kinds |-> cache'[k]] /\ \A k \in Kinds : cache'[k] = cache[k]
      BY <1>4 DEF Inv, HostInv, Typed
  <2> QED
      BY <1>1, <1>2, <1>4, <2>1, <2>3, <2>4, <2>5, Looked DEF Stages, Working
<1> QED
    BY <1>3, <1>4 DEF UpdateLink

LEMMA PlumbStep ==
    ASSUME Inv, NEW r \in Requests, Plumb(r)
    PROVE  Inv'
<1>1. /\ At(r, "plumb") /\ Goto(r, "act") /\ r \in Busy
      /\ UNCHANGED <<cache, meta, overlapped, cuts, clock>>
      /\ \/ UNCHANGED host
         \/ req[r].name[1] \in DOMAIN host.links /\ host' = WithInterface(host, req[r].name[1])
    BY DEF Plumb, CanPlumb, At, Busy, Working
<1>2. /\ HostType' /\ Sound' /\ host'.links = host.links
      /\ host'.addresses = host.addresses /\ host'.routes = host.routes
  <2>1. CASE UNCHANGED host
      BY <1>1, <2>1, HostSame DEF Inv
  <2>2. CASE /\ req[r].name[1] \in DOMAIN host.links
             /\ host' = WithInterface(host, req[r].name[1])
    <3>0. IsHost(host)
        BY DEF Inv, HostInv, Typed, HostType
    <3>1. /\ IsHost(host') /\ host'.links = host.links
          /\ host'.plumbed = host.plumbed \cup {req[r].name[1]}
          /\ host'.addresses = host.addresses /\ host'.routes = host.routes
        BY <2>2, <3>0, PartsOfHost DEF WithInterface
    <3>2. host'.plumbed \subseteq DOMAIN host.links \cup {"lo0"}
        BY <2>2, <3>1 DEF Inv, HostInv, Sound
    <3>3. clock' \in Nat /\ clock' >= clock
        BY <1>1 DEF Inv, HostInv, Typed
    <3> QED
        BY <3>1, <3>2, <3>3, HostKept DEF Inv
  <2> QED
      BY <1>1, <2>1, <2>2
<1>3. req[r].op = "create_address"
    BY <1>1 DEF At, Inv, HostInv, Typed, RequestType, Fits
<1>4. Knows(r)'
  <2>1. req'[r].stage = "act" /\ req'[r].op = "create_address"
      BY <1>1, <1>3, Going DEF Inv, HostInv, Typed
  <2> QED
      BY <2>1 DEF Knows, Doing, At
<1>5. cuts' \in Nat /\ cuts' >= cuts /\ ~At(r, "note")
    BY <1>1 DEF Inv, HostInv, Typed, At
<1>6. cache' = [k \in Kinds |-> cache'[k]] /\ \A k \in Kinds : cache'[k] = cache[k]
    BY <1>1 DEF Inv, HostInv, Typed
<1> QED
    BY <1>1, <1>2, <1>4, <1>5, <1>6, Looked DEF Stages, Working

LEMMA CreateAddressStep ==
    ASSUME Inv, NEW r \in Requests, CreateAddress(r)
    PROVE  Inv'
<1>1. /\ At(r, "act") /\ req[r].op = "create_address" /\ Acted(r, "note")
      /\ req[r].name \notin DOMAIN host.addresses /\ req[r].name[1] \in host.plumbed
      /\ host' = WithAddress(host, req[r].name, req[r].ip, clock)
    BY DEF CreateAddress, Doing, CanCreateAddress
<1>2. HostInv /\ clock' = clock + 1
    BY <1>1 DEF Inv, Acted
<1>3. req[r].name = <<req[r].name[1], "v4">> /\ req[r].ip # None
    BY <1>1 DEF At, AddressOps, Inv, HostInv, Typed, RequestType, Fits
<1>4. /\ HostType' /\ Sound'
      /\ host'.links = host.links
      /\ DOMAIN host'.addresses = DOMAIN host.addresses \cup {req[r].name}
      /\ \A b \in DOMAIN host.addresses : host'.addresses[b] = host.addresses[b]
    BY <1>1, <1>2, <1>3, AddressAdded
<1>5. \A o \in Objects : o \in Objects' /\ Born(o)' = Born(o)
    BY <1>2, <1>4, AllKept
<1>6. /\ req[r].op \notin Removing /\ req[r].op \in AddressOps /\ Object(r) = req[r].name
      /\ Object(r) \in Objects'
    BY <1>1, <1>4 DEF Removing, AddressOps, Object, Objects
<1> QED
    BY <1>1, <1>4, <1>5, <1>6, Ran

LEMMA DeleteAddressStep ==
    ASSUME Inv, NEW r \in Requests, DeleteAddress(r)
    PROVE  Inv'
<1>1. /\ At(r, "act") /\ req[r].op = "delete_address" /\ Acted(r, "note")
      /\ host' = WithoutAddress(host, req[r].name)
    BY DEF DeleteAddress, Doing
<1>2. HostInv /\ clock' = clock + 1
    BY <1>1 DEF Inv, Acted
<1>3. req[r].name = <<req[r].name[1], "v4">>
    BY <1>1 DEF At, AddressOps, Inv, HostInv, Typed, RequestType, Fits
<1>4. /\ HostType' /\ Sound'
      /\ host'.links = host.links
      /\ DOMAIN host'.addresses = DOMAIN host.addresses \ {req[r].name}
      /\ \A b \in DOMAIN host'.addresses : host'.addresses[b] = host.addresses[b]
    BY <1>1, <1>2, AddressRemoved
<1>5. /\ req[r].op \in Removing /\ req[r].op \in AddressOps /\ Object(r) = req[r].name
    BY <1>1 DEF Removing, AddressOps, Object
<1>6. \A o \in Objects : o \in {Object(r)} \/ (o \in Objects' /\ Born(o)' = Born(o))
    BY <1>2, <1>4, <1>5, ObjectsKept
<1>7. Object(r) \notin Objects'
    BY <1>3, <1>4, <1>5, TwoKinds DEF Objects
<1> QED
    BY <1>1, <1>4, <1>5, <1>6, <1>7, Ran

LEMMA RouteSteps ==
    ASSUME Inv, NEW r \in Requests, CreateRoute(r) \/ DeleteRoute(r)
    PROVE  Inv'
<1>1. /\ At(r, "act") /\ Acted(r, "over")
      /\ \/ host' = WithRoute(host, req[r].name)
         \/ host' = WithoutRoute(host, req[r].name)
    BY DEF CreateRoute, DeleteRoute, Doing
<1>2. HostInv /\ IsHost(host) /\ clock' = clock + 1
    BY <1>1 DEF Inv, HostInv, Typed, HostType, Acted
<1>3. /\ IsHost(host') /\ host'.links = host.links /\ host'.plumbed = host.plumbed
      /\ host'.addresses = host.addresses
    BY <1>1, <1>2, PartsOfHost DEF WithRoute, WithoutRoute
<1>4. host.plumbed \subseteq DOMAIN host.links \cup {"lo0"} /\ clock' \in Nat /\ clock' >= clock
    BY <1>2 DEF HostInv, Typed, Sound
<1>5. HostType' /\ Sound'
    BY <1>2, <1>3, <1>4, HostKept
<1>6. \A o \in Objects : o \in Objects' /\ Born(o)' = Born(o)
    BY <1>2, <1>3, <1>5, AllKept
<1> QED
    BY <1>1, <1>3, <1>5, <1>6, Ran

LEMMA FailStep ==
    ASSUME Inv, NEW r \in Requests, Fail(r)
    PROVE  Inv'
<1>1. /\ r \in Busy /\ Goto(r, "over") /\ ~At(r, "note")
      /\ UNCHANGED <<host, cache, meta, overlapped, cuts, clock>>
    BY DEF Fail, Busy, Working, At
<1>2. HostType' /\ Sound'
    BY <1>1, HostSame DEF Inv
<1>3. cuts' \in Nat /\ cuts' >= cuts
    BY <1>1 DEF Inv, HostInv, Typed
<1>4. cache' = [k \in Kinds |-> cache'[k]] /\ \A k \in Kinds : cache'[k] = cache[k]
    BY <1>1 DEF Inv, HostInv, Typed
<1> QED
    BY <1>1, <1>2, <1>3, <1>4, Looked DEF Stages

LEMMA CutStep ==
    ASSUME Inv, Cut
    PROVE  Inv'
<1>1. PICK r \in Busy : Goto(r, "over")
    BY DEF Cut
<1>2. cuts' = cuts + 1 /\ UNCHANGED <<host, cache, meta, overlapped, clock>>
    BY DEF Cut
<1>3. HostType' /\ Sound'
    BY <1>2, HostSame DEF Inv
<1>4. cuts' \in Nat /\ cuts' >= cuts /\ cuts' # 0
    BY <1>2 DEF Inv, HostInv, Typed
<1>5. cache' = [k \in Kinds |-> cache'[k]] /\ \A k \in Kinds : cache'[k] = cache[k]
    BY <1>2 DEF Inv, HostInv, Typed
<1> QED
    BY <1>1, <1>2, <1>3, <1>4, <1>5, Looked DEF Stages
\* The metadata of what a request has removed goes; what it has made or changed gets its own.
LEMMA NoteStep ==
    ASSUME Inv, NEW r \in Requests, Note(r)
    PROVE  Inv'
<1> DEFINE born == IF Object(r) \in Objects THEN Born(Object(r)) ELSE 0
           new == [name |-> Object(r), born |-> born]
           removing == req[r].op \in Removing
<1>1. /\ At(r, "note") /\ Goto(r, "over") /\ r \in Busy
      /\ UNCHANGED <<host, overlapped, clock>>
    BY DEF Note, At, Busy, Working
<1>2. \/ removing /\ UNCHANGED <<cache, cuts>> /\ meta' = meta \ Removed(r)
      \/ removing /\ UNCHANGED <<cache, meta>> /\ cuts' = cuts + 1
      \/ ~removing /\ UNCHANGED cuts /\ cache' = LinksListed /\ meta' = meta \cup {new}
    BY DEF Note, Removing
<1>3. /\ \A q \in Requests : q # r => req'[q] = req[q]
      /\ req'[r].stage = "over" /\ RequestType'
    BY <1>1, Going, GoingFits DEF Inv, HostInv, Typed, At, Stages
<1>4. HostType' /\ Sound'
    BY <1>1, HostSame DEF Inv
<1>5. born \in 0 .. clock
  <2>1. CASE Object(r) \in {<<l>> : l \in DOMAIN host.links}
      BY <2>1 DEF Born, Inv, HostInv, Typed, HostType
  <2>2. CASE Object(r) \in DOMAIN host.addresses
    <3>1. Object(r) = <<Object(r)[1], "v4">>
        BY <2>2 DEF Inv, HostInv, Typed, HostType
    <3>2. Len(Object(r)) = 2
        BY <3>1, TwoKinds
    <3> QED
        BY <2>2, <3>2 DEF Born, Inv, HostInv, Typed, HostType
  <2>3. CASE Object(r) \notin Objects
      BY <2>3 DEF Inv, HostInv, Typed
  <2> QED
      BY <2>1, <2>2, <2>3 DEF Objects
<1> HIDE DEF born
<1>6. MetaType'
    BY <1>1, <1>2, <1>5 DEF Inv, HostInv, Typed, MetaType, Removed
<1>7. /\ cuts' \in Nat /\ cuts' >= cuts
      /\ cache' = [k \in Kinds |-> cache'[k]]
      /\ \A k \in Kinds : cache'[k] \in {cache[k], Listing(k)}
  <2> DEFINE links == Listing("links")
             addresses == Listing("addresses")
  <2>1. cuts \in Nat /\ cache = [k \in Kinds |-> cache[k]]
      BY DEF Inv, HostInv, Typed
  <2>2. \/ cache' = cache
        \/ cache' = [cache EXCEPT !["links"] = links, !["addresses"] = addresses]
      BY <1>2 DEF LinksListed
  <2> HIDE DEF links, addresses
  <2>3. \/ cache' = cache
        \/ cache' = [k \in Kinds |-> IF k = "links" THEN links
                                     ELSE IF k = "addresses" THEN addresses ELSE cache[k]]
      BY <2>1, <2>2
  <2>4. cuts' \in Nat /\ cuts' >= cuts
      BY <1>2, <2>1
  <2> QED
      BY <2>1, <2>3, <2>4 DEF links, addresses
<1>8. Solo' /\ \A q \in Requests : q # r => Knows(q)'
    BY <1>1, <1>3, OthersKnow
<1>9. Knows(r)'
    BY <1>3 DEF Knows, Doing, At
<1>10. Fresh'
    BY <1>1, <1>7, FreshKept
<1>11. MetaIsOfThis'
  <2> SUFFICES ASSUME Calm', NEW m \in meta'
               PROVE  OfThis(m)'
      BY DEF MetaIsOfThis
  <2>1. Calm /\ cuts' = 0
      BY <1>1, <1>7 DEF Calm, Inv, HostInv, Typed
  <2>2. \A q \in Requests : q # r => ~At(q, "note")
      BY <1>1, <2>1, OthersIdle DEF Calm, At, Working
  <2>3. \A k : OfThis(k) => OfThis(k)'
      BY <1>1 DEF OfThis, Objects, Born
  <2>4. CASE m \in meta
    <3>1. OfThis(m) \/ (removing /\ m.name = Object(r))
        BY <2>1, <2>2, <2>4 DEF Inv, MetaIsOfThis
    <3>2. removing => m \notin Removed(r)
        BY <1>2, <2>1 DEF Inv, HostInv, Typed
    <3> QED
        BY <2>3, <2>4, <3>1, <3>2 DEF Removed
  <2>5. CASE m \notin meta
    <3>1. m = new /\ ~removing
        BY <1>2, <2>5
    <3>2. Object(r) \in Objects
        BY <1>1, <2>1, <3>1 DEF Calm, Inv, Knows
    <3>3. OfThis(m)
        BY <3>1, <3>2 DEF OfThis, born
    <3> QED
        BY <2>3, <3>3
  <2> QED
      BY <2>4, <2>5
<1>12. HostInv'
    BY <1>1, <1>3, <1>4, <1>6, <1>7 DEF Inv, HostInv, Typed
<1> QED
    BY <1>8, <1>9, <1>10, <1>11, <1>12 DEF Inv

LEMMA ExpireStep ==
    ASSUME Inv, Expire
    PROVE  Inv'
<1>1. PICK kind \in Kinds : cache' = [cache EXCEPT ![kind] = Unknown]
    BY DEF Expire
<1>2. UNCHANGED <<host, meta, req, overlapped, cuts, clock>>
    BY DEF Expire
<1>3. cache' = [k \in Kinds |-> IF k = kind THEN Unknown ELSE cache[k]]
    BY <1>1 DEF Inv, HostInv, Typed
<1>4. HostInv'
  <2>1. HostType' /\ Sound'
      BY <1>2, HostSame DEF Inv
  <2>2. RequestType' /\ MetaType'
      BY <1>2 DEF Inv, HostInv, Typed, RequestType, MetaType, Requests
  <2>3. cache' = [k \in Kinds |-> cache'[k]]
      BY <1>3
  <2> QED
      BY <1>2, <2>1, <2>2, <2>3 DEF Inv, HostInv, Typed
<1>5. Solo' /\ MetaIsOfThis'
    BY <1>2 DEF Inv, Solo, Busy, MetaIsOfThis, Calm, OfThis, Objects, Born, At, Object
<1>6. Fresh'
  <2>1. \A k \in Kinds : cache'[k] \in {cache[k], Unknown}
      BY <1>3
  <2>2. DOMAIN Unknown = {}
      BY DEF Unknown
  <2>3. cache'["addresses"] \in {cache["addresses"], Unknown}
      BY <2>1 DEF Kinds
  <2> QED
      BY <1>2, <2>1, <2>2, <2>3 DEF Inv, Fresh
<1>7. ASSUME NEW r \in Requests
      PROVE  Knows(r)'
  <2>1. Listing("addresses")' \in {Listing("addresses"), host.addresses}
      BY <1>2, <1>3 DEF Listing, Kinds
  <2>2. Knows(r)
      BY DEF Inv
  <2> QED
      BY <1>2, <2>1, <2>2 DEF Knows, Doing, At, Objects, Object
<1> QED
    BY <1>4, <1>5, <1>6, <1>7 DEF Inv

LEMMA CommandStep ==
    ASSUME Inv, NEW r \in Requests, Command(r)
    PROVE  Inv'
BY CreateAggrStep, CreateVlanStep, CreateEtherstubStep, CreateVnicStep, RemoveLinkStep,
   UpdateLinkStep, PlumbStep, CreateAddressStep, DeleteAddressStep, RouteSteps DEF Command

LEMMA NextInv == Inv /\ [Next]_vars => Inv'
<1> SUFFICES ASSUME Inv, [Next]_vars
             PROVE  Inv'
    OBVIOUS
<1>1. ASSUME NEW r \in Requests,
             \/ Ask(r) \/ List(r) \/ FindLink(r) \/ FindAddress(r) \/ FindRoute(r) \/ Check(r)
             \/ Command(r) \/ Fail(r) \/ Note(r)
      PROVE  Inv'
    BY <1>1, AskStep, ListStep, FindLinkStep, FindAddressStep, FindRouteStep, CheckStep,
       CommandStep, FailStep, NoteStep
<1>2. CASE Expire
    BY <1>2, ExpireStep
<1>3. CASE Cut
    BY <1>3, CutStep
<1>4. CASE UNCHANGED vars
  <2>1. HostType' /\ Sound'
      BY <1>4, HostSame DEF Inv, vars
  <2>2. Typed'
      BY <1>4, <2>1 DEF vars, Inv, HostInv, Typed, RequestType, MetaType, Requests
  <2>3. Solo' /\ Fresh' /\ MetaIsOfThis'
      BY <1>4 DEF vars, Inv, Solo, Busy, Fresh, MetaIsOfThis, Calm, OfThis, Objects, Born, At,
                  Object
  <2>4. \A r \in Requests : Knows(r)'
      BY <1>4 DEF vars, Inv, Knows, Doing, At, Objects, Object, Listing
  <2> QED
      BY <2>1, <2>2, <2>3, <2>4 DEF Inv, HostInv
<1> QED
    BY <1>1, <1>2, <1>3, <1>4 DEF Next

\* The invariant of the proofs.
LEMMA Always == Spec => []Inv
BY InitInv, NextInv, PTL DEF Spec

-----------------------------------------------------------------------------
\* Whatever requests overlap or are dropped, a link is over links there are that can carry
\* it, no port is in two aggregations, and every address is on a link: what dladm and ipadm
\* refuse is enough, whatever the handlers of routes/network.rs have seen before.
THEOREM HostSound == Spec => []HostIsSound
<1>1. Inv => HostIsSound
    BY DEF Inv, HostInv, Typed, HostType, RequestType, Fits, MetaType, HostIsSound, TypeOK
<1> QED
    BY <1>1, Always, PTL

\* Only a removal takes an address away.
LEMMA AddressesStay ==
    ASSUME Inv, [Next]_vars, \A r \in Requests : ~DeleteAddress(r)
    PROVE  DOMAIN host.addresses \subseteq DOMAIN host'.addresses
<1>1. IsHost(host)
    BY DEF Inv, HostInv, Typed, HostType
<1>2. ASSUME NEW r \in Requests, Command(r)
      PROVE  DOMAIN host.addresses \subseteq DOMAIN host'.addresses
  <2>1. CASE \E x : host' = [host EXCEPT !.links = x]
      BY <1>1, <2>1, PartsOfHost
  <2>2. CASE \E x : host' = [host EXCEPT !.plumbed = x]
      BY <1>1, <2>2, PartsOfHost
  <2>3. CASE \E x : host' = [host EXCEPT !.routes = x]
      BY <1>1, <2>3, PartsOfHost
  <2>4. CASE CreateAggr(r) \/ CreateVlan(r) \/ CreateEtherstub(r) \/ CreateVnic(r)
      BY <2>1, <2>4 DEF CreateAggr, CreateVlan, CreateEtherstub, CreateVnic, WithAggr, WithVlan,
                        WithEtherstub, WithVnic
  <2>5. CASE RemoveLink(r)
      BY <2>1, <2>5 DEF RemoveLink, WithoutLink
  <2>6. CASE UpdateLink(r)
    <3>1. CASE UNCHANGED host
        BY <3>1
    <3>2. CASE host' = WithMtu(host, req[r].name, 1400)
      <4>1. host' = [host EXCEPT !.links =
                        [host.links EXCEPT ![req[r].name] =
                            [host.links[req[r].name] EXCEPT !.mtu = 1400]]]
          BY <1>1, <3>2 DEF WithMtu, IsHost
      <4> QED
          BY <2>1, <4>1
    <3> QED
        BY <2>6, <3>1, <3>2 DEF UpdateLink
  <2>7. CASE Plumb(r)
      BY <2>2, <2>7 DEF Plumb, WithInterface
  <2>8. CASE CreateAddress(r)
    <3>1. host'.addresses = With(host.addresses, req[r].name, [ip |-> req[r].ip, born |-> clock])
        BY <1>1, <2>8, PartsOfHost DEF CreateAddress, WithAddress
    <3> QED
        BY <3>1 DEF With
  <2>9. CASE CreateRoute(r) \/ DeleteRoute(r)
      BY <2>3, <2>9 DEF CreateRoute, DeleteRoute, WithRoute, WithoutRoute
  <2> QED
      BY <1>2, <2>4, <2>5, <2>6, <2>7, <2>8, <2>9 DEF Command
<1>3. ASSUME ~\E r \in Requests : Command(r)
      PROVE  UNCHANGED host
    BY <1>3 DEF Next, vars, Ask, List, FindLink, FindAddress, FindRoute, Check, Fail, Note,
                Expire, Cut
<1> QED
    BY <1>2, <1>3

\* An address goes only when a client asks for it by name, and, unless requests overlap or
\* two have been dropped, never the one the request came on or mandraked listens on: the
\* check of delete_address in routes/network.rs rests on a cached listing, which agrees
\* with the host about every address that is in both.
THEOREM PathStays == Spec => ManagementStays
<1> DEFINE Asked(a) ==
              \E r \in Requests :
                 /\ Doing(r, "delete_address") /\ ~At(r, "act")' /\ req[r].name = a
                 /\ ~overlapped /\ cuts < 2 =>
                       host.addresses[a].ip \notin {Listen, req[r].came}
           Stay == \A a \in DOMAIN host.addresses \ DOMAIN host'.addresses : Asked(a)
<1>1. ASSUME Inv, [Next]_vars
      PROVE  Stay
  <2> SUFFICES ASSUME NEW a \in DOMAIN host.addresses, a \notin DOMAIN host'.addresses
               PROVE  Asked(a)
      OBVIOUS
  <2>1. PICK r \in Requests : DeleteAddress(r)
      BY <1>1, AddressesStay
  <2>2. Doing(r, "delete_address") /\ host' = WithoutAddress(host, req[r].name)
      BY <2>1 DEF DeleteAddress
  <2>3. host'.addresses = Without(host.addresses, req[r].name)
      BY <1>1, <2>2, PartsOfHost DEF WithoutAddress, Inv, HostInv, Typed, HostType
  <2>4. req[r].name = a
      BY <2>3 DEF Without
  <2>5. ~At(r, "act")'
    <3>1. \E s \in {"note", "over"} : Goto(r, s)
        BY <2>1 DEF DeleteAddress, Acted
    <3> QED
        BY <1>1, <3>1, Going DEF Inv, HostInv, Typed, At
  <2>6. ~overlapped /\ cuts < 2 => host.addresses[a].ip \notin {Listen, req[r].came}
      BY <1>1, <2>2, <2>4 DEF Inv, Knows
  <2> QED
      BY <2>2, <2>4, <2>5, <2>6
<1>2. Inv /\ [Next]_vars => [Stay]_vars
    BY <1>1
<1> QED
    BY <1>2, Always, PTL DEF Spec, ManagementStays

\* Unless requests overlap, or one is dropped or fails to remove its metadata, what is
\* stored under the name of a link or an address was given for the one that has the name
\* now, once nobody is in a handler; and unless requests overlap none is removed while its
\* object is there: the ids of routes/network.rs are derived from names.
THEOREM MetadataFresh == Spec => MetadataIsOfThis
<1> DEFINE Own(m) == (m.name \in Objects /\ m.born = Born(m.name))'
           Keep == /\ (Calm /\ Busy = {})' =>
                         \A m \in meta' : m.name \in Objects' /\ m.born = Born(m.name)'
                   /\ ~overlapped => \A m \in meta \ meta' :
                         ~(m.name \in Objects' /\ m.born = Born(m.name)')
<1>1. ASSUME Inv, [Next]_vars
      PROVE  Keep
  <2>1. Inv'
      BY <1>1, NextInv
  <2>2. (Calm /\ Busy = {})' => \A m \in meta' : m.name \in Objects' /\ m.born = Born(m.name)'
      BY <2>1 DEF Inv, MetaIsOfThis, OfThis, Busy, At, Working
  <2>3. ASSUME ~overlapped, NEW m \in meta, m \notin meta'
        PROVE  m.name \notin Objects'
    <3>1. PICK r \in Requests : Note(r)
        BY SMTT(30), <1>1, <2>3 DEF Next, vars, Ask, List, FindLink, FindAddress, FindRoute, Check,
                          Command, CreateAggr, CreateVlan, CreateEtherstub, CreateVnic,
                          RemoveLink, UpdateLink, Plumb, CreateAddress, DeleteAddress,
                          CreateRoute, DeleteRoute, Acted, Fail, Expire, Cut
    <3>2. /\ At(r, "note") /\ UNCHANGED host /\ m.name = Object(r)
          /\ req[r].op \in Removing
        BY <2>3, <3>1 DEF Note, Removed, Removing
    <3> QED
        BY <1>1, <2>3, <3>2 DEF Inv, Knows, Objects
  <2> QED
      BY <2>2, <2>3
<1>2. Inv /\ [Next]_vars => [Keep]_vars
    BY <1>1
<1> QED
    BY <1>2, Always, PTL DEF Spec, MetadataIsOfThis

-----------------------------------------------------------------------------
(* Induction, sequences built step by step, and sets in order.             *)

\* A set with 0, and with the next of each that it has, has them all.
LEMMA SetInduction ==
    ASSUME NEW S, 0 \in S, \A n \in Nat : n \in S => n + 1 \in S
    PROVE  Nat \subseteq S
<1> DEFINE T == Nat \ S
           R == {ss \in Nat \X Nat : ss[1] < ss[2]}
<1> SUFFICES ASSUME T # {} PROVE FALSE
    OBVIOUS
<1>1. IsWellFoundedOn(R, Nat)
    BY NatLessThanWellFounded DEF OpToRel
<1>2. PICK x \in T : \A y \in T : <<y, x>> \notin R
    BY <1>1, WFMin, T \subseteq Nat
<1>3. x # 0 /\ x \in Nat
    OBVIOUS
<1>4. x - 1 \in Nat /\ x - 1 + 1 = x /\ x - 1 < x
    BY <1>3
<1>5. <<x - 1, x>> \in R
    BY <1>3, <1>4
<1>6. x - 1 \in S
    BY <1>2, <1>4, <1>5
<1> QED
    BY <1>3, <1>4, <1>6

\* Step by step, from a base.
Built(g, base, N, step) ==
    g[0] = base /\ \A n \in 1 .. N : g[n] = step[<<g[n - 1], n>>]

\* Such a function there is.
LEMMA StepByStep ==
    ASSUME NEW V, NEW base \in V, NEW N \in Nat, NEW step \in [V \X (1 .. N) -> V]
    PROVE  \E g \in [0 .. N -> V] : Built(g, base, N, step)
<1> DEFINE Builds(g, m) == /\ g \in [0 .. m -> V] /\ g[0] = base
                           /\ \A n \in 1 .. m : g[n] = step[<<g[n - 1], n>>]
           S == {m \in Nat : m <= N => \E g \in [0 .. m -> V] : Builds(g, m)}
<1>1. 0 \in S
  <2>1. Builds([n \in 0 .. 0 |-> base], 0)
      OBVIOUS
  <2> QED
      BY <2>1
<1>2. ASSUME NEW m \in Nat, m \in S, m + 1 <= N PROVE \E g \in [0 .. m + 1 -> V] : Builds(g, m + 1)
  <2>1. PICK g \in [0 .. m -> V] : Builds(g, m)
      BY <1>2
  <2> DEFINE v == step[<<g[m], m + 1>>]
             h == [n \in 0 .. m + 1 |-> IF n = m + 1 THEN v ELSE g[n]]
  <2>2. v \in V
      BY <1>2, <2>1
  <2> HIDE DEF v
  <2>3. h \in [0 .. m + 1 -> V] /\ h[0] = base /\ h[m + 1] = v /\ \A n \in 0 .. m : h[n] = g[n]
      BY <2>1, <2>2
  <2> HIDE DEF h
  <2>4. ASSUME NEW n \in 1 .. m + 1 PROVE h[n] = step[<<h[n - 1], n>>]
    <3>1. n - 1 \in 0 .. m /\ (n # m + 1 => n \in 1 .. m)
        OBVIOUS
    <3>2. CASE n = m + 1
        BY <2>3, <3>1, <3>2, n - 1 = m DEF v
    <3>3. CASE n # m + 1
        BY <2>1, <2>3, <3>1, <3>3
    <3> QED
        BY <3>2, <3>3
  <2> QED
      BY <2>3, <2>4
<1>3. \A m \in Nat : m \in S => m + 1 \in S
    BY <1>2
<1>4. Nat \subseteq S
  <2> HIDE DEF S
  <2> QED
      BY <1>1, <1>3, SetInduction
<1> QED
    BY <1>4 DEF Built

\* Lines of lines, put together.
LEMMA Flattens ==
    ASSUME NEW S, NEW seqs \in Seq(Seq(S))
    PROVE  \E g \in [0 .. Len(seqs) -> Seq(S)] :
               /\ g[0] = << >> /\ \A n \in 1 .. Len(seqs) : g[n] = g[n - 1] \o seqs[n]
               /\ FlattenSeq(seqs) = g[Len(seqs)]
<1> DEFINE N == Len(seqs)
           Unfold(c) == [i \in 1 .. N |-> IF i = 1 THEN seqs[i] ELSE c[i - 1] \o seqs[i]]
           flatten == CHOOSE c : c = Unfold(c)
<1>1. N \in Nat /\ \A n \in 1 .. N : seqs[n] \in Seq(S)
    OBVIOUS
<1>2. FlattenSeq(seqs) = (IF N = 0 THEN seqs ELSE flatten[N]) /\ (N = 0 => seqs = << >>)
    BY DEF FlattenSeq
<1> DEFINE step == [x \in Seq(S) \X (1 .. N) |-> x[1] \o seqs[x[2]]]
<1>3. step \in [Seq(S) \X (1 .. N) -> Seq(S)]
    BY <1>1
<1>4. << >> \in Seq(S)
    OBVIOUS
<1>5. PICK g \in [0 .. N -> Seq(S)] : Built(g, << >>, N, step)
  <2> HIDE DEF step, N
  <2> QED
      BY <1>1, <1>3, <1>4, StepByStep, Zenon
<1>6. g[0] = << >> /\ \A n \in 1 .. N : g[n] = g[n - 1] \o seqs[n]
  <2>1. ASSUME NEW n \in 1 .. N PROVE g[n] = g[n - 1] \o seqs[n]
    <3>1. n - 1 \in 0 .. N
        BY <1>1
    <3>2. <<g[n - 1], n>> \in Seq(S) \X (1 .. N)
        BY <3>1
    <3>3. step[<<g[n - 1], n>>] = g[n - 1] \o seqs[n]
        BY <3>2
    <3> HIDE DEF step
    <3> QED
        BY <1>5, <3>3 DEF Built
  <2> QED
      BY <1>5, <2>1 DEF Built
<1> HIDE DEF step
<1>12. N >= 1 => 1 \in 1 .. N /\ g[1] = seqs[1]
  <2>1. SUFFICES ASSUME N >= 1 PROVE g[1] = seqs[1]
      BY <1>1
  <2>2. 1 \in 1 .. N /\ 1 - 1 = 0
      BY <1>1, <2>1
  <2>4. g[1] = g[0] \o seqs[1]
      BY <1>6, <2>2
  <2>3. << >> \o seqs[1] = seqs[1]
      BY <1>1, <2>2
  <2> QED
      BY <1>6, <2>3, <2>4
<1>7. \E c : c = Unfold(c)
  <2> DEFINE h == [i \in 1 .. N |-> g[i]]
  <2>1. \A i \in 1 .. N : h[i] = IF i = 1 THEN seqs[i] ELSE h[i - 1] \o seqs[i]
    <3>1. TAKE i \in 1 .. N
    <3>2. CASE i = 1
        BY <1>1, <1>12, <3>2
    <3>3. CASE i # 1
      <4>1. i - 1 \in 1 .. N
          BY <1>1, <3>3
      <4> QED
          BY <1>6, <3>3, <4>1
    <3> QED
        BY <3>2, <3>3
  <2> HIDE DEF h
  <2>2. h = [i \in 1 .. N |-> h[i]]
      BY DEF h
  <2>3. h = Unfold(h)
      BY <2>1, <2>2
  <2> QED
      BY <2>3
<1>8. flatten = Unfold(flatten)
    BY <1>7
<1> HIDE DEF flatten
<1>9. \A n \in 1 .. N : flatten[n] = IF n = 1 THEN seqs[n] ELSE flatten[n - 1] \o seqs[n]
    BY <1>8
<1>10. \A n \in 1 .. N : flatten[n] = g[n]
  <2> DEFINE T == {n \in Nat : n \in 1 .. N => flatten[n] = g[n]}
  <2>1. 0 \in T
      OBVIOUS
  <2>2. ASSUME NEW n \in Nat, n \in T PROVE n + 1 \in T
    <3>1. SUFFICES ASSUME n + 1 \in 1 .. N PROVE flatten[n + 1] = g[n + 1]
        OBVIOUS
    <3>2. CASE n = 0
        BY <1>1, <1>9, <1>12, <3>1, <3>2
    <3>3. CASE n # 0
      <4>1. PICK k \in 1 .. N : k = n + 1
          BY <3>1
      <4>2. n \in 1 .. N /\ k - 1 = n /\ k # 1
          BY <1>1, <3>1, <3>3, <4>1
      <4>3. flatten[n] = g[n]
          BY <2>2, <4>2
      <4>4. g[k] = g[k - 1] \o seqs[k] /\ flatten[k] = flatten[k - 1] \o seqs[k]
          BY <1>6, <1>9, <4>2
      <4>5. g[k] = flatten[k]
          BY <4>2, <4>3, <4>4
      <4> QED
          BY <4>1, <4>5
    <3> QED
        BY <3>2, <3>3
  <2>3. Nat \subseteq T
    <3> HIDE DEF T
    <3> QED
        BY <2>1, <2>2, SetInduction
  <2> QED
      BY <1>1, <2>3
<1>11. FlattenSeq(seqs) = g[N]
  <2>1. CASE N = 0
      BY <1>2, <1>6, <2>1
  <2>2. CASE N # 0
    <3>1. N \in 1 .. N
        BY <1>1, <2>2
    <3> QED
        BY <1>2, <1>10, <2>2, <3>1
  <2> QED
      BY <2>1, <2>2
<1> QED
    BY <1>6, <1>11

\* The elements of a finite set, each once.
LEMMA SetInOrder ==
    ASSUME NEW S, IsFiniteSet(S)
    PROVE  /\ SetToSeq(S) \in Seq(S) /\ S = {SetToSeq(S)[i] : i \in DOMAIN SetToSeq(S)}
           /\ \A i, j \in DOMAIN SetToSeq(S) : SetToSeq(S)[i] = SetToSeq(S)[j] => i = j
<1> DEFINE N == Cardinality(S)
           f == SetToSeq(S)
<1>1. N \in Nat /\ ExistsBijection(1 .. N, S)
    BY FS_CardinalityType
<1>2. PICK b \in [1 .. N -> S] : IsInjective(b)
    BY <1>1 DEF ExistsBijection, Bijection, Injection, IsInjective
<1>3. f \in [1 .. N -> S] /\ IsInjective(f)
    BY <1>2 DEF SetToSeq
<1> HIDE DEF f
<1>4. IsFiniteSet(1 .. N) /\ Cardinality(1 .. N) = N
    BY <1>1, FS_Interval
<1>5. f \in Injection(1 .. N, S)
    BY <1>3 DEF Injection, IsInjective
<1>6. f \in Surjection(1 .. N, S)
    BY <1>4, <1>5, FS_Injection
<1>7. f \in Seq(S)
    BY <1>1, <1>3
<1>8. S = {f[i] : i \in DOMAIN f}
    BY <1>3, <1>6 DEF Surjection
<1>9. \A i, j \in DOMAIN f : f[i] = f[j] => i = j
    BY <1>3 DEF IsInjective
<1> QED
    BY <1>7, <1>8, <1>9 DEF f

-----------------------------------------------------------------------------
(* The ports mandraked reads of an aggregation.                            *)

PortsIn(R) == {row.port : row \in R}

\* The ports of the rows before each, step by step.
Selects(c, R, rows, l) ==
    /\ c \in [0 .. Len(rows) -> Seq(PortsIn(R))] /\ c[0] = << >>
    /\ \A n \in 1 .. Len(rows) :
          c[n] = IF rows[n].link = l /\ rows[n].port # None
                 THEN Append(c[n - 1], rows[n].port) ELSE c[n - 1]

\* What PortsOf is, unfolded.
LEMMA PortSteps ==
    ASSUME NEW R, NEW rows \in Seq(R), NEW l
    PROVE  \E c : Selects(c, R, rows, l) /\ PortsOf(rows, l) = c[Len(rows)]
<1> DEFINE N == Len(rows)
           V == Seq(PortsIn(R))
           Next1(s, n) == IF rows[n].link = l /\ rows[n].port # None
                          THEN Append(s, rows[n].port) ELSE s
           Unfold(c) == [n \in 0 .. N |-> IF n = 0 THEN << >>
                          ELSE IF rows[n].link = l /\ rows[n].port # None
                          THEN Append(c[n - 1], rows[n].port) ELSE c[n - 1]]
           ports == CHOOSE c : c = Unfold(c)
<1>1. N \in Nat /\ \A n \in 1 .. N : rows[n] \in R
    OBVIOUS
<1>2. PortsOf(rows, l) = ports[N]
    BY DEF PortsOf
<1>3. \A s \in V, n \in 1 .. N : Next1(s, n) \in V
  <2>1. SUFFICES ASSUME NEW s \in V, NEW n \in 1 .. N PROVE Next1(s, n) \in V
      OBVIOUS
  <2>2. rows[n].port \in PortsIn(R)
      BY <1>1 DEF PortsIn
  <2> QED
      BY <2>2
<1>4. PICK g \in [0 .. N -> V] : g[0] = << >> /\ \A n \in 1 .. N : g[n] = Next1(g[n - 1], n)
  <2> DEFINE step == [x \in V \X (1 .. N) |-> Next1(x[1], x[2])]
  <2>1. step \in [V \X (1 .. N) -> V]
    <3> HIDE DEF Next1, V, N
    <3> QED
        BY <1>3
  <2>2. << >> \in V
      OBVIOUS
  <2>3. \E g \in [0 .. N -> V] : Built(g, << >>, N, step)
    <3> HIDE DEF step, N, V
    <3> QED
        BY <1>1, <2>1, <2>2, StepByStep, Zenon
  <2>4. PICK g \in [0 .. N -> V] : Built(g, << >>, N, step)
      BY <2>3
  <2>5. ASSUME NEW n \in 1 .. N PROVE g[n] = Next1(g[n - 1], n)
    <3>1. n - 1 \in 0 .. N
        BY <1>1
    <3>2. <<g[n - 1], n>> \in V \X (1 .. N)
        BY <3>1
    <3>3. step[<<g[n - 1], n>>] = Next1(g[n - 1], n)
      <4> HIDE DEF Next1, V, N
      <4> QED
          BY <3>2
    <3> HIDE DEF step, Next1
    <3> QED
        BY <2>4, <3>3 DEF Built
  <2> QED
      BY <2>4, <2>5 DEF Built
<1>5. g = Unfold(g)
  <2> DEFINE made == Unfold(g)
  <2>1. \A n \in 0 .. N : made[n] = g[n]
    <3>1. SUFFICES ASSUME NEW n \in 0 .. N PROVE made[n] = g[n]
        OBVIOUS
    <3>2. n # 0 => n \in 1 .. N
        BY <1>1
    <3>3. made[n] = IF n = 0 THEN << >> ELSE Next1(g[n - 1], n)
        OBVIOUS
    <3> HIDE DEF made, Next1
    <3> QED
        BY <1>4, <3>2, <3>3
  <2>2. made = [n \in 0 .. N |-> made[n]] /\ g = [n \in 0 .. N |-> g[n]]
      BY <1>4
  <2> HIDE DEF made
  <2>3. made = g
      BY <2>1, <2>2
  <2> QED
      BY <2>3 DEF made
<1>6. ports = Unfold(ports)
    BY <1>5
<1> HIDE DEF ports
<1>7. ports[0] = << >> /\ \A n \in 1 .. N : ports[n] = Next1(ports[n - 1], n)
  <2>1. \A n \in 0 .. N : ports[n] = IF n = 0 THEN << >> ELSE Next1(ports[n - 1], n)
      BY <1>6
  <2>2. 0 \in 0 .. N /\ \A n \in 1 .. N : n \in 0 .. N /\ n # 0
      BY <1>1
  <2> HIDE DEF Next1
  <2> QED
      BY <2>1, <2>2
<1>8. \A n \in 0 .. N : ports[n] \in V
  <2> DEFINE S == {n \in Nat : n <= N => ports[n] \in V}
  <2>1. 0 \in S
    <3>1. << >> \in V
        OBVIOUS
    <3> QED
        BY <1>7, <3>1
  <2>2. ASSUME NEW n \in Nat, n \in S PROVE n + 1 \in S
    <3> HIDE DEF V, Next1
    <3> QED
        BY <1>1, <1>3, <1>7, <2>2, n + 1 - 1 = n
  <2>3. Nat \subseteq S
    <3> HIDE DEF S
    <3> QED
        BY <2>1, <2>2, SetInduction
  <2> QED
      BY <1>1, <2>3
<1>9. Selects(ports, R, rows, l)
    BY <1>1, <1>6, <1>7, <1>8 DEF Selects
<1> QED
    BY <1>2, <1>9

\* The rows of one aggregation, its own first.
Block(b, over, x) ==
    /\ Len(b) = Len(over) + 1
    /\ \A i \in 1 .. Len(b) : b[i].link = x
    /\ b[1].port = None
    /\ \A i \in 1 .. Len(over) : b[i + 1].port = over[i] /\ over[i] # None

\* Two sequences, one after the other.
LEMMA Joined ==
    ASSUME NEW R, NEW a \in Seq(R), NEW b \in Seq(R)
    PROVE  /\ a \o b \in Seq(R) /\ Len(a \o b) = Len(a) + Len(b)
           /\ \A n \in 1 .. Len(a) : (a \o b)[n] = a[n]
           /\ \A n \in 1 .. Len(b) : (a \o b)[Len(a) + n] = b[n]
    OBVIOUS

\* The first sequence, then more and more of the second.
Upto(s, t, n) == SubSeq(s \o t, 1, Len(s) + n)

\* One more of the second is appended.
LEMMA UptoMore ==
    ASSUME NEW V, NEW s \in Seq(V), NEW t \in Seq(V)
    PROVE  /\ Upto(s, t, 0) = s /\ Upto(s, t, Len(t)) = s \o t
           /\ \A n \in 1 .. Len(t) : Append(Upto(s, t, n - 1), t[n]) = Upto(s, t, n)
<1> DEFINE w == s \o t
<1>1. w \in Seq(V) /\ Len(w) = Len(s) + Len(t) /\ Len(s) \in Nat /\ Len(t) \in Nat
    OBVIOUS
<1>2. SubSeq(w, 1, Len(s)) = s /\ SubSeq(w, 1, Len(s) + Len(t)) = w
    OBVIOUS
<1>3. \A n \in 1 .. Len(t) : w[Len(s) + n] = t[n]
    OBVIOUS
<1>4. \A k \in 1 .. Len(w) : Append(SubSeq(w, 1, k - 1), w[k]) = SubSeq(w, 1, k)
  <2> HIDE DEF w
  <2> QED
      BY <1>1
<1> HIDE DEF w
<1>5. \A n \in 1 .. Len(t) : Append(SubSeq(w, 1, Len(s) + (n - 1)), t[n]) = SubSeq(w, 1, Len(s) + n)
  <2>1. SUFFICES ASSUME NEW n \in 1 .. Len(t)
                 PROVE  Append(SubSeq(w, 1, Len(s) + (n - 1)), t[n]) = SubSeq(w, 1, Len(s) + n)
      OBVIOUS
  <2>2. PICK k \in 1 .. Len(w) : k = Len(s) + n
      BY <1>1
  <2>3. Append(SubSeq(w, 1, k - 1), w[k]) = SubSeq(w, 1, k)
      BY <1>4
  <2>4. w[k] = t[n] /\ k - 1 = Len(s) + (n - 1)
      BY <1>1, <1>3, <2>2
  <2> QED
      BY <2>2, <2>3, <2>4
<1>6. Len(s) + 0 = Len(s)
    BY <1>1
<1> QED
    BY <1>2, <1>5, <1>6 DEF Upto, w

\* The rows of one more aggregation add its ports, or nothing to those of another.
LEMMA PortsAfter ==
    ASSUME NEW R, NEW a \in Seq(R), NEW b \in Seq(R), NEW over \in Seq(PortsIn(R)),
           NEW x, NEW l, Block(b, over, x)
    PROVE  PortsOf(a \o b, l) = IF l = x THEN PortsOf(a, l) \o over ELSE PortsOf(a, l)
<1> DEFINE K == Len(a)
           M == Len(over)
           ab == a \o b
<1>0. /\ K \in Nat /\ M \in Nat /\ Len(b) = M + 1
    BY DEF Block
<1>8. /\ ab \in Seq(R) /\ Len(ab) = K + Len(b)
      /\ \A n \in 1 .. K : ab[n] = a[n]
      /\ \A n \in 1 .. Len(b) : ab[K + n] = b[n]
  <2>1. /\ a \o b \in Seq(R) /\ Len(a \o b) = Len(a) + Len(b)
        /\ \A n \in 1 .. Len(a) : (a \o b)[n] = a[n]
        /\ \A n \in 1 .. Len(b) : (a \o b)[Len(a) + n] = b[n]
      BY Joined
  <2> QED
      BY <2>1
<1>1. /\ K \in Nat /\ M \in Nat /\ ab \in Seq(R) /\ Len(ab) = K + 1 + M
      /\ \A n \in 1 .. K : ab[n] = a[n]
      /\ \A n \in 1 .. M + 1 : ab[K + n] = b[n]
    BY <1>0, <1>8
<1>11. \A i \in 1 .. M + 1 : b[i].link = x
    BY <1>0 DEF Block
<1>12. PICK p : Selects(p, R, a, l) /\ PortsOf(a, l) = p[K]
    BY PortSteps
<1>2. /\ p \in [0 .. K -> Seq(PortsIn(R))] /\ p[0] = << >> /\ PortsOf(a, l) = p[K]
      /\ \A n \in 1 .. K : p[n] = IF a[n].link = l /\ a[n].port # None
                                THEN Append(p[n - 1], a[n].port) ELSE p[n - 1]
    BY <1>12 DEF Selects
<1> HIDE DEF ab
<1>13. PICK c : Selects(c, R, ab, l) /\ PortsOf(ab, l) = c[Len(ab)]
    BY <1>1, PortSteps
<1>3. /\ c[0] = << >> /\ PortsOf(ab, l) = c[K + 1 + M]
      /\ \A n \in 1 .. K + 1 + M : c[n] = IF ab[n].link = l /\ ab[n].port # None
                                        THEN Append(c[n - 1], ab[n].port) ELSE c[n - 1]
    BY <1>1, <1>13 DEF Selects
<1> HIDE DEF K
<1> DEFINE S == {n \in Nat : n <= K => c[n] = p[n]}
           T == {n \in Nat : n <= M => c[K + 1 + n] = IF l = x THEN Upto(p[K], over, n) ELSE p[K]}
<1>4. K \in S
  <2>1. 0 \in S
      BY <1>2, <1>3
  <2>2. ASSUME NEW n \in Nat, n \in S PROVE n + 1 \in S
    <3>1. SUFFICES ASSUME n + 1 <= K PROVE c[n + 1] = p[n + 1]
        OBVIOUS
    <3>2. PICK k \in 1 .. K : k = n + 1
        BY <1>1, <3>1
    <3>3. k \in 1 .. K + 1 + M /\ k - 1 = n /\ c[n] = p[n]
        BY <1>1, <2>2, <3>2
    <3>4. ab[k] = a[k]
        BY <1>1
    <3>5. c[k] = IF ab[k].link = l /\ ab[k].port # None
                 THEN Append(c[k - 1], ab[k].port) ELSE c[k - 1]
        BY <1>3, <3>3
    <3>6. p[k] = IF a[k].link = l /\ a[k].port # None
                 THEN Append(p[k - 1], a[k].port) ELSE p[k - 1]
        BY <1>2
    <3>7. c[k] = p[k]
        BY <3>3, <3>4, <3>5, <3>6
    <3> QED
        BY <3>2, <3>7
  <2>3. Nat \subseteq S
    <3> HIDE DEF S
    <3> QED
        BY <2>1, <2>2, SetInduction
  <2> QED
      BY <1>1, <2>3
<1>5. c[K] = p[K] /\ p[K] \in Seq(PortsIn(R))
    BY <1>1, <1>2, <1>4
<1>7. /\ Upto(p[K], over, 0) = p[K] /\ Upto(p[K], over, M) = p[K] \o over
      /\ \A n \in 1 .. M : Append(Upto(p[K], over, n - 1), over[n]) = Upto(p[K], over, n)
  <2> DEFINE V == PortsIn(R)
  <2>1. p[K] \in Seq(V) /\ over \in Seq(V)
      BY <1>5
  <2> HIDE DEF V
  <2> QED
      BY <2>1, UptoMore
<1>6. M \in T
  <2>1. 0 \in T
    <3>1. K + 1 \in 1 .. K + 1 + M /\ K + 1 - 1 = K /\ 1 \in 1 .. M + 1
        BY <1>1
    <3>2. ab[K + 1].port = None
        BY <1>1, <3>1 DEF Block
    <3>3. c[K + 1] = c[K]
        BY <1>1, <1>3, <3>1, <3>2
    <3>4. Upto(p[K], over, 0) = p[K]
        BY <1>7
    <3> QED
        BY <1>1, <1>5, <3>3, <3>4, K + 1 + 0 = K + 1
  <2>2. ASSUME NEW n \in Nat, n \in T PROVE n + 1 \in T
    <3>1. SUFFICES ASSUME n + 1 <= M
                   PROVE  c[K + 1 + (n + 1)] = IF l = x THEN Upto(p[K], over, n + 1) ELSE p[K]
        OBVIOUS
    <3>2. PICK k \in 1 .. K + 1 + M : k = K + 1 + (n + 1)
        BY <1>1, <3>1
    <3>3. PICK i \in 1 .. M + 1 : i = n + 2
        BY <1>1, <3>1
    <3>4. PICK m \in 1 .. M : m = n + 1
        BY <1>1, <3>1
    <3>5. k = K + i /\ i = m + 1 /\ k - 1 = K + 1 + n /\ n <= M /\ n \in 0 .. M - 1
        BY <1>1, <3>1, <3>2, <3>3, <3>4
    <3>6. ab[k] = b[i]
        BY <1>1, <3>5
    <3>7. b[i].link = x
        BY <1>11
    <3>8. b[i].port = over[m] /\ over[m] # None
        BY <3>5 DEF Block
    <3>9. c[k] = IF x = l THEN Append(c[k - 1], over[m]) ELSE c[k - 1]
        BY <1>3, <3>6, <3>7, <3>8
    <3>10. c[k - 1] = IF l = x THEN Upto(p[K], over, n) ELSE p[K]
        BY <2>2, <3>5
    <3>11. Append(Upto(p[K], over, n), over[m]) = Upto(p[K], over, n + 1)
      <4>1. n = m - 1 /\ n + 1 = m
          BY <3>4, <3>5
      <4> QED
          BY <1>7, <4>1
    <3>12. c[k] = IF l = x THEN Upto(p[K], over, n + 1) ELSE p[K]
        BY <3>9, <3>10, <3>11
    <3> QED
        BY <3>2, <3>12
  <2>3. Nat \subseteq T
    <3> HIDE DEF T
    <3> QED
        BY <2>1, <2>2, SetInduction
  <2> QED
      BY <1>1, <2>3
<1>14. c[K + 1 + M] = IF l = x THEN p[K] \o over ELSE p[K]
  <2>1. c[K + 1 + M] = IF l = x THEN Upto(p[K], over, M) ELSE p[K]
      BY <1>1, <1>6
  <2> QED
      BY <1>7, <2>1
<1> QED
    BY <1>2, <1>3, <1>14 DEF ab

-----------------------------------------------------------------------------
(* The table of show-aggr, read row by row.                                *)

\* A set of numbers up to n that has any has a greatest.
LEMMA HasLast ==
    ASSUME NEW n \in Nat, NEW I \in SUBSET (1 .. n), I # {}
    PROVE  Max(I) \in I /\ \A j \in I : Max(I) >= j
<1> DEFINE Has(J) == \E m \in J : \A j \in J : m >= j
           T == {k \in Nat : \A J \in SUBSET (1 .. k) : J # {} => Has(J)}
<1>1. 0 \in T
  <2>1. 1 .. 0 = {}
      OBVIOUS
  <2>2. \A J \in SUBSET (1 .. 0) : J = {}
      BY <2>1
  <2> HIDE DEF Has
  <2> QED
      BY <2>2
<1>2. ASSUME NEW k \in Nat, k \in T PROVE k + 1 \in T
  <2>1. SUFFICES ASSUME NEW J \in SUBSET (1 .. k + 1), J # {} PROVE Has(J)
      OBVIOUS
  <2>2. CASE k + 1 \in J
      BY <2>2
  <2>3. CASE k + 1 \notin J
    <3>1. J \in SUBSET (1 .. k)
        BY <2>3
    <3> HIDE DEF Has
    <3> QED
        BY <1>2, <2>1, <3>1
  <2> QED
      BY <2>2, <2>3
<1>3. Nat \subseteq T
  <2> HIDE DEF T
  <2> QED
      BY <1>1, <1>2, SetInduction
<1>4. Has(I)
  <2> HIDE DEF Has
  <2> QED
      BY <1>3
<1> QED
    BY <1>4 DEF Max

\* A table that starts with an aggregation's own row.
Headed(table) == table[1].link # ""

\* Row m is the last before i, or i itself, that names its aggregation.
NamesRow(table, i, m) ==
    /\ table[m].link # "" /\ \A j \in m + 1 .. i : table[j].link = ""
    /\ PortRows(table)[i] = [table[i] EXCEPT !.link = table[m].link]

\* A row is of the last aggregation named at or before it.
LEMMA LastNamed ==
    ASSUME NEW R, NEW table \in Seq(R), NEW i \in 1 .. Len(table), Headed(table)
    PROVE  \E m \in 1 .. i : NamesRow(table, i, m)
<1> DEFINE I == {j \in 1 .. i : table[j].link # ""}
<1>0. Len(table) \in Nat /\ i \in Nat /\ i >= 1 /\ i \in DOMAIN table
    OBVIOUS
<1>1. I # {} /\ I \in SUBSET (1 .. i)
  <2>1. 1 \in 1 .. i
      BY <1>0
  <2>2. 1 \in I
      BY <2>1 DEF Headed
  <2> QED
      BY <2>2
<1>2. PortRows(table)[i] = [table[i] EXCEPT !.link = table[Max(I)].link]
  <2>1. SelectLastInSubSeq(table, 1, i, LAMBDA row : row.link # "") = Max(I)
      BY <1>1 DEF SelectLastInSubSeq
  <2> HIDE DEF I
  <2> QED
      BY <1>0, <2>1 DEF PortRows
<1>4. Max(I) \in I /\ \A j \in I : Max(I) >= j
  <2> HIDE DEF I
  <2> QED
      BY <1>0, <1>1, HasLast
<1>8. Max(I) \in 1 .. i /\ table[Max(I)].link # ""
    BY <1>4
<1> HIDE DEF I
<1>5. PICK m \in 1 .. i : /\ table[m].link # "" /\ \A j \in I : m >= j
                         /\ PortRows(table)[i] = [table[i] EXCEPT !.link = table[m].link]
    BY <1>2, <1>4, <1>8
<1>6. \A j \in m + 1 .. i : j \in 1 .. i /\ ~(m >= j)
    BY <1>0
<1>7. ASSUME NEW j \in m + 1 .. i PROVE table[j].link = ""
  <2>1. j \in 1 .. i /\ j \notin I
      BY <1>5, <1>6
  <2> QED
      BY <2>1 DEF I
<1> QED
    BY <1>5, <1>7 DEF NamesRow

\* A function on 1 .. N is a sequence.
LEMMA IsSequence ==
    ASSUME NEW f, NEW N \in Nat, NEW S, f = [i \in 1 .. N |-> f[i]], \A i \in 1 .. N : f[i] \in S
    PROVE  f \in Seq(S) /\ Len(f) = N
<1>1. f \in [1 .. N -> S]
    OBVIOUS
<1> QED
    BY <1>1

\* Reading the table leaves as many rows.
LEMMA RowsAreRows ==
    ASSUME NEW R, NEW table \in Seq(R), NEW S,
           \A i \in 1 .. Len(table) : PortRows(table)[i] \in S
    PROVE  PortRows(table) \in Seq(S) /\ Len(PortRows(table)) = Len(table)
<1>1. Len(table) \in Nat /\ DOMAIN table = 1 .. Len(table)
    OBVIOUS
<1> DEFINE p == PortRows(table)
<1>2. p = [i \in 1 .. Len(table) |-> p[i]]
    BY <1>1, Zenon DEF PortRows
<1> HIDE DEF p
<1> QED
    BY <1>1, <1>2, IsSequence DEF p

-----------------------------------------------------------------------------
\* The rows an aggregation adds are read as its own, whatever is before them.
Nameless(b) == \A i \in 2 .. Len(b) : b[i].link = ""
Read(b) == [i \in 1 .. Len(b) |-> [b[i] EXCEPT !.link = b[1].link]]

\* What is read of a table and the rows of one more aggregation.
LEMMA RowsAfter ==
    ASSUME NEW R, NEW a \in Seq(R), NEW b \in Seq(R),
           a = << >> \/ Headed(a), Headed(b), Nameless(b), Len(b) > 0
    PROVE  /\ Headed(a \o b) /\ PortRows(a \o b) = PortRows(a) \o Read(b)
<1> DEFINE K == Len(a)
           M == Len(b)
           ab == a \o b
<1>1. /\ K \in Nat /\ M \in Nat /\ M > 0 /\ ab \in Seq(R) /\ Len(ab) = K + M
      /\ \A n \in 1 .. K : ab[n] = a[n]
      /\ \A n \in 1 .. M : ab[K + n] = b[n]
    BY Joined
<1>2. (a = << >> => K = 0) /\ (K = 0 => a = << >>)
    OBVIOUS
<1> HIDE DEF ab
<1>3. Headed(ab)
  <2>1. CASE a = << >>
    <3>1. 1 \in 1 .. M /\ K = 0 /\ K + 1 = 1
        BY <1>1, <1>2, <2>1
    <3>2. ab[K + 1] = b[1]
        BY <1>1, <3>1
    <3> QED
        BY <3>1, <3>2 DEF Headed
  <2>2. CASE a # << >>
    <3>1. 1 \in 1 .. K
        BY <1>1, <1>2, <2>2
    <3> QED
        BY <1>1, <2>2, <3>1 DEF Headed
  <2> QED
      BY <2>1, <2>2
<1>4. ASSUME NEW i \in 1 .. K PROVE PortRows(ab)[i] = PortRows(a)[i]
  <2>1. Headed(a) /\ i \in 1 .. Len(ab) /\ i \in 1 .. Len(a) /\ i \in Nat
      BY <1>1, <1>2
  <2>2. PICK m \in 1 .. i : NamesRow(a, i, m)
      BY <2>1, LastNamed
  <2>3. PICK n \in 1 .. i : NamesRow(ab, i, n)
      BY <1>1, <1>3, <2>1, LastNamed
  <2>4. \A j \in 1 .. i : ab[j] = a[j]
      BY <1>1, <2>1
  <2>5. ~(m < n)
    <3>1. SUFFICES ASSUME m < n PROVE FALSE
        OBVIOUS
    <3>2. n \in m + 1 .. i
        BY <2>1, <3>1
    <3> QED
        BY <2>2, <2>3, <2>4, <3>2 DEF NamesRow
  <2>6. ~(n < m)
    <3>1. SUFFICES ASSUME n < m PROVE FALSE
        OBVIOUS
    <3>2. m \in n + 1 .. i
        BY <2>1, <3>1
    <3> QED
        BY <2>2, <2>3, <2>4, <3>2 DEF NamesRow
  <2>7. m = n
      BY <2>5, <2>6
  <2>8. ab[i] = a[i] /\ ab[m] = a[m]
      BY <2>1, <2>4
  <2> QED
      BY <2>2, <2>3, <2>7, <2>8 DEF NamesRow
<1>5. ASSUME NEW k \in 1 .. M PROVE PortRows(ab)[K + k] = Read(b)[k]
  <2>1. PICK i \in 1 .. Len(ab) : i = K + k
      BY <1>1
  <2>2. PICK n \in 1 .. i : NamesRow(ab, i, n)
      BY <1>1, <1>3, LastNamed
  <2>9. 1 \in 1 .. M
      BY <1>1
  <2>3. ab[K + 1] = b[1] /\ b[1].link # "" /\ ab[i] = b[k]
      BY <1>1, <2>1, <2>9 DEF Headed
  <2>4. ~(n < K + 1)
    <3>1. SUFFICES ASSUME n < K + 1 PROVE FALSE
        OBVIOUS
    <3>2. K + 1 \in n + 1 .. i
        BY <1>1, <2>1, <3>1
    <3> QED
        BY <2>2, <2>3, <3>2 DEF NamesRow
  <2>5. ~(n > K + 1)
    <3>1. SUFFICES ASSUME n > K + 1 PROVE FALSE
        OBVIOUS
    <3>2. PICK h \in 2 .. M : n = K + h
      <4>1. n - K \in 2 .. M /\ n = K + (n - K)
          BY <1>1, <2>1, <3>1
      <4> QED
          BY <4>1
    <3>4. h \in 1 .. M
        BY <1>1
    <3>3. ab[n] = b[h] /\ b[h].link = ""
        BY <1>1, <3>2, <3>4 DEF Nameless
    <3> QED
        BY <2>2, <3>3 DEF NamesRow
  <2>6. n = K + 1
      BY <1>1, <2>4, <2>5
  <2> QED
      BY <2>1, <2>2, <2>3, <2>6 DEF Read, NamesRow
<1> DEFINE S == {PortRows(ab)[i] : i \in 1 .. K + M}
           p == PortRows(ab)
           q == PortRows(a)
           r == Read(b)
<1>6. \A i \in 1 .. K : i \in 1 .. K + M /\ PortRows(a)[i] \in S
    BY <1>1, <1>4
<1>13. \A i \in 1 .. M : K + i \in 1 .. K + M /\ Read(b)[i] \in S
    BY <1>1, <1>5
<1>14. \A i \in 1 .. K + M : PortRows(ab)[i] \in S
    OBVIOUS
<1> HIDE DEF S
<1>7. p \in Seq(S) /\ Len(p) = K + M
    BY <1>1, <1>14, RowsAreRows
<1>8. q \in Seq(S) /\ Len(q) = K
    BY <1>6, RowsAreRows
<1>9. r \in Seq(S) /\ Len(r) = M
  <2>1. r = [i \in 1 .. M |-> r[i]]
      BY DEF Read
  <2> HIDE DEF r
  <2> QED
      BY <1>1, <1>13, <2>1, IsSequence DEF r
<1> HIDE DEF p, q, r
<1>10. /\ Len(q \o r) = K + M /\ q \o r \in Seq(S)
       /\ \A n \in 1 .. K : (q \o r)[n] = q[n]
       /\ \A n \in 1 .. M : (q \o r)[K + n] = r[n]
  <2>1. q \in Seq(S) /\ r \in Seq(S)
      BY <1>8, <1>9
  <2>2. /\ q \o r \in Seq(S) /\ Len(q \o r) = Len(q) + Len(r)
        /\ \A n \in 1 .. Len(q) : (q \o r)[n] = q[n]
        /\ \A n \in 1 .. Len(r) : (q \o r)[Len(q) + n] = r[n]
      BY <2>1, Joined
  <2> QED
      BY <1>8, <1>9, <2>2
<1>11. \A i \in 1 .. K + M : p[i] = (q \o r)[i]
  <2>1. SUFFICES ASSUME NEW i \in 1 .. K + M PROVE p[i] = (q \o r)[i]
      OBVIOUS
  <2>2. CASE i \in 1 .. K
      BY <1>4, <1>10, <2>2 DEF p, q
  <2>3. CASE i \notin 1 .. K
    <3>1. PICK k \in 1 .. M : i = K + k
      <4>1. i - K \in 1 .. M /\ i = K + (i - K)
          BY <1>1, <2>3
      <4> QED
          BY <4>1
    <3> QED
        BY <1>5, <1>10, <3>1 DEF p, r
  <2> QED
      BY <2>2, <2>3
<1>12. p = q \o r
    BY <1>7, <1>10, <1>11, SeqEqual
<1> QED
    BY <1>3, <1>12 DEF p, q, r, ab

-----------------------------------------------------------------------------
(* What is read of all aggregations.                                       *)

\* Names of links are names, and aggregations are over physical links.
Named(links) == IsFiniteSet(DOMAIN links) /\ "" \notin DOMAIN links /\ None \notin DOMAIN links
Ported(links) == \A a \in AggrRows(links) : links[a].over \in Seq(OfKind(links, "phys"))

Rows(links) ==
    [link : DOMAIN links \cup {""}, port : DOMAIN links \cup {None},
     mac : {links[l].mac : l \in DOMAIN links}]

\* The rows tell of the aggregations A: the ports of each in their order, and its mac.
Told(rows, links, A) ==
    /\ \A l : PortsOf(rows, l) = IF l \in A THEN links[l].over ELSE << >>
    /\ \A i \in DOMAIN rows :
          rows[i].port = None => rows[i].link \in A /\ rows[i].mac = links[rows[i].link].mac
    /\ \A a \in A : \E i \in DOMAIN rows : rows[i].link = a /\ rows[i].port = None

\* The ports of an aggregation are names the rows may give.
LEMMA PortNames ==
    ASSUME NEW links, NEW a \in DOMAIN links, NEW over \in Seq(OfKind(links, "phys"))
    PROVE  over \in Seq(PortsIn(Rows(links)))
<1>1. ASSUME NEW p \in OfKind(links, "phys") PROVE p \in PortsIn(Rows(links))
  <2> DEFINE row == [link |-> a, port |-> p, mac |-> links[a].mac]
  <2>1. p \in DOMAIN links
      BY DEF OfKind
  <2>2. row \in Rows(links) /\ row.port = p
      BY <2>1 DEF Rows
  <2> HIDE DEF row
  <2> QED
      BY <2>2 DEF PortsIn
<1> DEFINE P == OfKind(links, "phys")
           Q == PortsIn(Rows(links))
<1>2. P \subseteq Q
    BY <1>1
<1>3. over \in Seq(P)
    OBVIOUS
<1> HIDE DEF P, Q
<1>4. over \in Seq(Q)
    BY <1>2, <1>3
<1> QED
    BY <1>4 DEF Q

\* The rows of one more aggregation.
LEMMA ToldMore ==
    ASSUME NEW links, NEW rows \in Seq(Rows(links)), NEW b \in Seq(Rows(links)),
           NEW A, NEW a \in DOMAIN links, a \notin A, Told(rows, links, A),
           links[a].over \in Seq(PortsIn(Rows(links))),
           Block(b, links[a].over, a), b[1].mac = links[a].mac
    PROVE  Told(rows \o b, links, A \cup {a})
<1> DEFINE all == rows \o b
           over == links[a].over
           R == Rows(links)
<1>1. /\ Len(rows) \in Nat /\ Len(b) \in Nat /\ Len(all) = Len(rows) + Len(b) /\ all \in Seq(R)
      /\ \A n \in 1 .. Len(rows) : all[n] = rows[n]
      /\ \A n \in 1 .. Len(b) : all[Len(rows) + n] = b[n]
  <2> HIDE DEF R
  <2>1. rows \in Seq(R) /\ b \in Seq(R)
      BY DEF R
  <2> QED
      BY <2>1, Joined
<1>2. Len(over) \in Nat /\ Len(b) = Len(over) + 1
    BY DEF Block
<1>3. DOMAIN rows = 1 .. Len(rows) /\ DOMAIN all = 1 .. Len(rows) + Len(b)
    BY <1>1
<1>4. ASSUME NEW l PROVE PortsOf(all, l) = IF l \in A \cup {a} THEN links[l].over ELSE << >>
  <2>1. PortsOf(all, l) = IF l = a THEN PortsOf(rows, l) \o over ELSE PortsOf(rows, l)
    <3> HIDE DEF R, over
    <3>1. rows \in Seq(R) /\ b \in Seq(R) /\ over \in Seq(PortsIn(R)) /\ Block(b, over, a)
        BY DEF R, over
    <3>2. PortsOf(rows \o b, l) = IF l = a THEN PortsOf(rows, l) \o over ELSE PortsOf(rows, l)
        BY <3>1, PortsAfter, SMTT(30)
    <3> QED
        BY <3>2
  <2>2. PortsOf(rows, l) = IF l \in A THEN links[l].over ELSE << >>
      BY DEF Told
  <2>3. << >> \o over = over
      OBVIOUS
  <2> HIDE DEF all
  <2> QED
      BY <2>1, <2>2, <2>3
<1> HIDE DEF all
<1>5. ASSUME NEW i \in DOMAIN all, all[i].port = None
      PROVE  all[i].link \in A \cup {a} /\ all[i].mac = links[all[i].link].mac
  <2>1. CASE i \in 1 .. Len(rows)
      BY <1>1, <1>3, <1>5, <2>1 DEF Told
  <2>2. CASE i \notin 1 .. Len(rows)
    <3>1. PICK k \in 1 .. Len(b) : i = Len(rows) + k
      <4>1. i - Len(rows) \in 1 .. Len(b) /\ i = Len(rows) + (i - Len(rows))
          BY <1>1, <1>3, <2>2
      <4> QED
          BY <4>1
    <3>2. all[i] = b[k] /\ b[k].link = a
        BY <1>1, <3>1 DEF Block
    <3>3. k = 1
      <4>1. SUFFICES ASSUME k # 1 PROVE FALSE
          OBVIOUS
      <4>2. PICK j \in 1 .. Len(over) : k = j + 1
        <5>1. k - 1 \in 1 .. Len(over) /\ k = k - 1 + 1
            BY <1>1, <1>2, <4>1
        <5> QED
            BY <5>1
      <4>3. b[k].port # None
          BY <4>2 DEF Block
      <4> QED
          BY <1>5, <3>2, <4>3
    <3> QED
        BY <3>2, <3>3
  <2> QED
      BY <2>1, <2>2
<1>6. ASSUME NEW x \in A \cup {a} PROVE \E i \in DOMAIN all : all[i].link = x /\ all[i].port = None
  <2>1. CASE x \in A
    <3>1. PICK i \in 1 .. Len(rows) : rows[i].link = x /\ rows[i].port = None
        BY <1>3, <2>1 DEF Told
    <3>2. i \in DOMAIN all /\ all[i] = rows[i]
        BY <1>1, <1>3, <3>1
    <3> QED
        BY <3>1, <3>2
  <2>2. CASE x = a
    <3>1. 1 \in 1 .. Len(b) /\ Len(rows) + 1 \in DOMAIN all
        BY <1>1, <1>2, <1>3
    <3>2. all[Len(rows) + 1] = b[1] /\ b[1].link = a /\ b[1].port = None
        BY <1>1, <3>1 DEF Block
    <3> QED
        BY <2>2, <3>1, <3>2
  <2> QED
      BY <2>1, <2>2
<1>7. Told(all, links, A \cup {a})
    BY <1>4, <1>5, <1>6 DEF Told
<1> QED
    BY <1>7 DEF all

\* The rows of aggregation a, as PortTable has them.
RowsFor(links, a) ==
    <<[link |-> a, port |-> None, mac |-> links[a].mac]>>
    \o [i \in DOMAIN links[a].over |->
           [link |-> "", port |-> links[a].over[i], mac |-> links[links[a].over[i]].mac]]

\* They start with its own, and tell of its ports in their order.
LEMMA RowsForIs ==
    ASSUME NEW links, Named(links), Ported(links), NEW a \in AggrRows(links)
    PROVE  LET b == RowsFor(links, a)
           IN  /\ b \in Seq(Rows(links)) /\ Headed(b) /\ Nameless(b) /\ Len(b) > 0
               /\ Read(b) \in Seq(Rows(links)) /\ Block(Read(b), links[a].over, a)
               /\ Read(b)[1].mac = links[a].mac
<1> DEFINE over == links[a].over
           M == Len(over)
           own == [link |-> a, port |-> None, mac |-> links[a].mac]
           ports == [i \in DOMAIN over |->
                        [link |-> "", port |-> over[i], mac |-> links[over[i]].mac]]
           R == Rows(links)
           b == <<own>> \o ports
<1>1. a \in DOMAIN links /\ over \in Seq(OfKind(links, "phys"))
    BY DEF AggrRows, OfKind, Ported
<1>2. M \in Nat /\ DOMAIN over = 1 .. M
    BY <1>1
<1>3. \A i \in 1 .. M : over[i] \in DOMAIN links
  <2>1. \A i \in 1 .. M : over[i] \in OfKind(links, "phys")
      BY <1>1
  <2> QED
      BY <2>1 DEF OfKind
<1>4. own \in R
    BY <1>1 DEF Rows
<1>5. \A i \in 1 .. M : ports[i] \in R
    BY <1>2, <1>3 DEF Rows
<1>6. ports \in Seq(R) /\ Len(ports) = M
  <2>1. ports = [i \in 1 .. M |-> ports[i]]
      BY <1>2
  <2> HIDE DEF ports, R, M
  <2> QED
      BY <1>2, <1>5, <2>1, IsSequence
<1>7. \A i \in 1 .. M : /\ ports[i].link = "" /\ ports[i].port = over[i]
                        /\ ports[i].mac = links[over[i]].mac
    BY <1>2
<1>8. own.link = a /\ own.port = None /\ own.mac = links[a].mac
    OBVIOUS
<1>9. a # "" /\ \A i \in 1 .. M : over[i] # None
    BY <1>1, <1>3 DEF Named
<1> HIDE DEF own, ports, R
<1>10. <<own>> \in Seq(R) /\ Len(<<own>>) = 1 /\ <<own>>[1] = own
    BY <1>4
<1>11. /\ b \in Seq(R) /\ Len(b) = 1 + M /\ b[1] = own
       /\ \A i \in 1 .. M : b[1 + i] = ports[i]
  <2>1. /\ b \in Seq(R) /\ Len(b) = Len(<<own>>) + Len(ports)
        /\ \A n \in 1 .. Len(<<own>>) : b[n] = <<own>>[n]
        /\ \A n \in 1 .. Len(ports) : b[Len(<<own>>) + n] = ports[n]
      BY <1>6, <1>10, Joined
  <2>2. 1 \in 1 .. Len(<<own>>)
      BY <1>10
  <2> QED
      BY <1>6, <1>10, <2>1, <2>2
<1> HIDE DEF b
<1>12. \A i \in 2 .. Len(b) : \E j \in 1 .. M : i = 1 + j /\ i = j + 1
  <2>1. SUFFICES ASSUME NEW i \in 2 .. Len(b) PROVE \E j \in 1 .. M : i = 1 + j /\ i = j + 1
      OBVIOUS
  <2>2. i - 1 \in 1 .. M /\ i = 1 + (i - 1) /\ i = (i - 1) + 1
      BY <1>2, <1>11
  <2> QED
      BY <2>2
<1>13. Headed(b) /\ Nameless(b) /\ Len(b) > 0
  <2>1. Headed(b)
      BY <1>8, <1>9, <1>11 DEF Headed
  <2>2. Nameless(b)
    <3>1. SUFFICES ASSUME NEW i \in 2 .. Len(b) PROVE b[i].link = ""
        BY DEF Nameless
    <3>2. PICK j \in 1 .. M : i = 1 + j
        BY <1>12
    <3> QED
        BY <1>7, <1>11, <3>2
  <2> QED
      BY <1>2, <1>11, <2>1, <2>2
<1> DEFINE r == Read(b)
<1>14. r = [i \in 1 .. M + 1 |-> r[i]] /\ \A i \in 1 .. M + 1 : r[i] = [b[i] EXCEPT !.link = a]
  <2>1. Len(b) = M + 1
      BY <1>2, <1>11
  <2> QED
      BY <1>8, <1>11, <2>1 DEF Read
<1> HIDE DEF r
<1>15. \A i \in 1 .. M + 1 : b[i] \in R
    BY <1>2, <1>11
<1>16. \A i \in 1 .. M + 1 : /\ r[i] \in R /\ r[i].link = a
                             /\ r[i].port = b[i].port /\ r[i].mac = b[i].mac
  <2>1. SUFFICES ASSUME NEW i \in 1 .. M + 1
                 PROVE  /\ r[i] \in R /\ r[i].link = a
                        /\ r[i].port = b[i].port /\ r[i].mac = b[i].mac
      OBVIOUS
  <2>2. r[i] = [b[i] EXCEPT !.link = a] /\ b[i] \in R
      BY <1>14, <1>15
  <2> QED
      BY <1>1, <2>2 DEF R, Rows
<1>17. r \in Seq(R) /\ Len(r) = M + 1
  <2>1. M + 1 \in Nat
      BY <1>2
  <2> QED
      BY <1>14, <1>16, <2>1, IsSequence
<1>18. 1 \in 1 .. M + 1
    BY <1>2
<1>19. r[1].port = None /\ r[1].mac = links[a].mac
    BY <1>8, <1>11, <1>16, <1>18
<1>20. ASSUME NEW i \in 1 .. M PROVE r[i + 1].port = over[i] /\ over[i] # None
  <2>1. PICK k \in 1 .. M + 1 : k = i + 1 /\ k = 1 + i
      BY <1>2
  <2>2. r[k].port = b[k].port /\ b[k] = ports[i]
      BY <1>11, <1>16, <2>1
  <2> QED
      BY <1>7, <1>9, <2>1, <2>2
<1>21. Block(r, over, a)
    BY <1>16, <1>17, <1>19, <1>20 DEF Block
<1>22. RowsFor(links, a) = b
    BY DEF RowsFor, b, own, ports
<1> QED
    BY <1>11, <1>13, <1>17, <1>19, <1>21, <1>22 DEF r, R

\* What is read of all aggregations.
LEMMA AggregationsTold ==
    ASSUME NEW links, Named(links), Ported(links)
    PROVE  /\ Told(PortRows(PortTable(links)), links, AggrRows(links))
           /\ PortRows(PortTable(links)) \in Seq(Rows(links))
<1> DEFINE A == AggrRows(links)
           aggrs == SetToSeq(A)
           N == Len(aggrs)
           R == Rows(links)
           blocks == [i \in DOMAIN aggrs |-> RowsFor(links, aggrs[i])]
<1>1. IsFiniteSet(A)
  <2>1. A \subseteq DOMAIN links
      BY DEF AggrRows, OfKind
  <2> QED
      BY <2>1, FS_Subset DEF Named
<1>2. /\ aggrs \in Seq(A) /\ A = {aggrs[i] : i \in DOMAIN aggrs}
      /\ \A i, j \in DOMAIN aggrs : aggrs[i] = aggrs[j] => i = j
  <2> HIDE DEF A
  <2> QED
      BY <1>1, SetInOrder
<1>3. PortTable(links) = FlattenSeq(blocks)
    BY DEF PortTable, RowsFor
<1> HIDE DEF aggrs
<1>4. N \in Nat /\ DOMAIN aggrs = 1 .. N /\ \A i \in 1 .. N : aggrs[i] \in A
    BY <1>2
<1>5. \A i \in 1 .. N : LET b == RowsFor(links, aggrs[i])
                        IN  /\ b \in Seq(R) /\ Headed(b) /\ Nameless(b) /\ Len(b) > 0
                            /\ Read(b) \in Seq(R) /\ Block(Read(b), links[aggrs[i]].over, aggrs[i])
                            /\ Read(b)[1].mac = links[aggrs[i]].mac
    BY <1>4, RowsForIs
<1>6. /\ blocks \in Seq(Seq(R)) /\ Len(blocks) = N
      /\ \A i \in 1 .. N : blocks[i] = RowsFor(links, aggrs[i])
  <2>1. /\ blocks = [i \in 1 .. N |-> blocks[i]]
        /\ \A i \in 1 .. N : blocks[i] = RowsFor(links, aggrs[i])
      BY <1>4
  <2>2. \A i \in 1 .. N : blocks[i] \in Seq(R)
      BY <1>5, <2>1
  <2> DEFINE S == Seq(R)
  <2> HIDE DEF blocks, S, N
  <2>3. blocks \in Seq(S) /\ Len(blocks) = N
      BY <1>4, <2>1, <2>2, IsSequence DEF S
  <2> QED
      BY <2>1, <2>3 DEF S
<1> HIDE DEF blocks, R
<1>7. PICK g \in [0 .. Len(blocks) -> Seq(R)] :
          /\ g[0] = << >> /\ \A n \in 1 .. Len(blocks) : g[n] = g[n - 1] \o blocks[n]
          /\ FlattenSeq(blocks) = g[Len(blocks)]
    BY <1>6, Flattens
<1> DEFINE First(n) == {aggrs[j] : j \in 1 .. n}
           Holds(n) == /\ g[n] = << >> \/ Headed(g[n])
                       /\ PortRows(g[n]) \in Seq(R) /\ Told(PortRows(g[n]), links, First(n))
           T == {n \in Nat : n <= N => Holds(n)}
<1>8. 0 \in T
  <2>1. PortRows(<< >>) = << >>
    <3>1. DOMAIN << >> = {}
        OBVIOUS
    <3> QED
        BY <3>1 DEF PortRows
  <2>2. << >> \in Seq(R) /\ Len(<< >>) = 0 /\ DOMAIN << >> = {}
      OBVIOUS
  <2>3. \A l : PortsOf(<< >>, l) = << >>
    <3>1. SUFFICES ASSUME NEW l PROVE PortsOf(<< >>, l) = << >>
        OBVIOUS
    <3>2. << >> \in Seq(R) /\ Len(<< >>) = 0
        OBVIOUS
    <3>3. PICK c : Selects(c, R, << >>, l) /\ PortsOf(<< >>, l) = c[Len(<< >>)]
        BY <3>2, PortSteps
    <3> QED
        BY <3>2, <3>3 DEF Selects
  <2>4. First(0) = {}
      OBVIOUS
  <2> HIDE DEF First
  <2>5. Told(<< >>, links, First(0))
      BY <2>2, <2>3, <2>4 DEF Told
  <2> QED
      BY <1>7, <2>1, <2>2, <2>5
<1>9. ASSUME NEW n \in Nat, n \in T PROVE n + 1 \in T
  <2>1. SUFFICES ASSUME n + 1 <= N PROVE Holds(n + 1)
      OBVIOUS
  <2>2. PICK k \in 1 .. N : k = n + 1
      BY <1>4, <2>1
  <2>3. n \in 0 .. N /\ k - 1 = n /\ Holds(n)
      BY <1>4, <1>9, <2>1, <2>2
  <2> DEFINE a == aggrs[k]
             b == RowsFor(links, a)
             over == links[a].over
             rows == PortRows(g[n])
  <2>4. g[k] = g[n] \o b /\ g[n] \in Seq(R)
      BY <1>6, <1>7, <2>3
  <2>5. /\ b \in Seq(R) /\ Headed(b) /\ Nameless(b) /\ Len(b) > 0
        /\ Read(b) \in Seq(R) /\ Block(Read(b), over, a) /\ Read(b)[1].mac = links[a].mac
      BY <1>5
  <2>6. a \in A /\ a \in DOMAIN links /\ a \notin First(n) /\ First(k) = First(n) \cup {a}
    <3>1. a \in A
        BY <1>4
    <3>2. a \in DOMAIN links
        BY <3>1 DEF AggrRows, OfKind
    <3>3. \A j \in 1 .. n : j \in 1 .. N /\ j # k
        BY <1>4, <2>2, <2>3
    <3>4. a \notin First(n)
        BY <1>2, <1>4, <3>3
    <3>5. 1 .. k = (1 .. n) \cup {k}
        BY <2>2
    <3> QED
        BY <3>1, <3>2, <3>4, <3>5
  <2>7. over \in Seq(PortsIn(R))
    <3>1. over \in Seq(OfKind(links, "phys"))
        BY <2>6 DEF Ported
    <3> QED
        BY <2>6, <3>1, PortNames DEF R
  <2> HIDE DEF a, b, First
  <2>8. Headed(g[k]) /\ PortRows(g[k]) = rows \o Read(b)
      BY <2>3, <2>4, <2>5, RowsAfter
  <2>9. rows \in Seq(R) /\ Told(rows, links, First(n))
      BY <2>3
  <2> HIDE DEF rows
  <2>10. rows \o Read(b) \in Seq(R)
      BY <2>5, <2>9
  <2>11. Told(rows \o Read(b), links, First(n) \cup {a})
      BY <2>5, <2>6, <2>7, <2>9, ToldMore DEF R
  <2> QED
      BY <2>2, <2>6, <2>8, <2>10, <2>11
<1>10. Holds(N)
  <2>1. Nat \subseteq T
    <3> HIDE DEF T
    <3> QED
        BY <1>8, <1>9, SetInduction
  <2>2. N \in T /\ N <= N
    <3> HIDE DEF T
    <3> QED
        BY <1>4, <2>1
  <2> HIDE DEF Holds
  <2> QED
      BY <2>2
<1>11. First(N) = A
    BY <1>2, <1>4
<1> HIDE DEF First, A
<1> QED
    BY <1>3, <1>6, <1>7, <1>10, <1>11 DEF A, R

-----------------------------------------------------------------------------
(* The listing of links, and that of routes.                               *)

\* What every kind of link has: a VLAN, for one, has the mac of what it is over.
FitsIn(x, links) ==
    /\ x.kind \in LinkKinds
    /\ x.kind # "vlan" => x.vid = 0
    /\ x.kind = "etherstub" => x.mac = None
    /\ x.kind = "aggr" => x.over \in Seq(OfKind(links, "phys"))
    /\ x.kind \in {"vlan", "vnic"} => x.over = <<x.over[1]>>
    /\ x.kind = "vlan" => /\ x.over[1] \in DOMAIN links
                          /\ links[x.over[1]].kind \in CanCarry["vlan"]
                          /\ x.mac = links[x.over[1]].mac
Described(links) == Named(links) /\ \A l \in DOMAIN links : FitsIn(links[l], links)

\* What AggregationsTold asks of links.
LEMMA AreDescribed == ASSUME NEW links, Described(links) PROVE Named(links) /\ Ported(links)
BY DEF Described, FitsIn, Ported, AggrRows, OfKind

\* What a listing shows of a link.
ShownOf(x) == [kind |-> x.kind, over |-> x.over, mac |-> x.mac, vid |-> x.vid, mtu |-> x.mtu]

\* A set of numbers that has any has a least.
LEMMA HasFirst ==
    ASSUME NEW I \in SUBSET Nat, I # {}
    PROVE  Min(I) \in I
<1>1. PICK n \in I : n \in Nat
    OBVIOUS
<1> DEFINE S == {k \in Nat : (\E j \in I : j <= k) => \E m \in I : \A j \in I : m <= j}
<1>2. 0 \in S
    OBVIOUS
<1>3. ASSUME NEW k \in Nat, k \in S PROVE k + 1 \in S
  <2>1. CASE \E j \in I : j <= k
      BY <1>3, <2>1
  <2>2. CASE ~\E j \in I : j <= k
    <3>1. \A j \in I : k + 1 <= j
        BY <2>2
    <3> QED
        BY <3>1
  <2> QED
      BY <2>1, <2>2
<1>4. Nat \subseteq S
  <2> HIDE DEF S
  <2> QED
      BY <1>2, <1>3, SetInduction
<1>5. \E m \in I : \A j \in I : m <= j
    BY <1>1, <1>4
<1> QED
    BY <1>5 DEF Min

\* The primary slot of a port tells its mac, whatever the others say.
LEMMA MacsTold ==
    ASSUME NEW links, NEW l \in DOMAIN links, links[l].kind = "phys"
    PROVE  PhysMacs(SlotRows(links))[l] = links[l].mac
<1> DEFINE rows == SlotRows(links)
           own(row) == row[1] = l /\ row[2] = "primary"
           row0 == <<l, "primary", links[l].mac>>
<1>1. l \in OfKind(links, "phys")
    BY DEF OfKind
<1>2. row0 \in rows /\ own(row0)
    BY <1>1 DEF SlotRows
<1>3. \A row \in rows : own(row) => row[3] = links[l].mac
    BY DEF SlotRows
<1>4. l \in {row[1] : row \in rows}
    BY <1>2
<1>5. PhysMacs(rows)[l] = (CHOOSE row \in rows : own(row))[3]
  <2> HIDE DEF rows
  <2> QED
      BY <1>4 DEF PhysMacs
<1>6. own(CHOOSE row \in rows : own(row)) /\ (CHOOSE row \in rows : own(row)) \in rows
  <2> HIDE DEF rows, own
  <2> QED
      BY <1>2
<1> QED
    BY <1>3, <1>5, <1>6

\* A link before it is joined with the one it is over.
Unjoined(x) == [kind |-> x.kind, over |-> x.over, mtu |-> x.mtu,
                mac |-> IF x.kind = "vlan" THEN None ELSE x.mac, vid |-> x.vid]

\* What the tables tell of one link: a VLAN's mac is not in its own.
LEMMA FilledTold ==
    ASSUME NEW links, Described(links), NEW l \in DOMAIN links
    PROVE  Filled(Sources(links), l) = Unjoined(links[l])
<1> DEFINE src == Sources(links)
           x == links[l]
           link == [kind |-> x.kind, over |-> x.over, mtu |-> x.mtu, mac |-> None, vid |-> 0]
<1>1. /\ src.links[l].kind = x.kind /\ src.links[l].over = x.over /\ src.links[l].mtu = x.mtu
    BY DEF Sources, LinkRows
<1>2. Filled(src, l) = CASE x.kind = "phys" -> FillPhys(src, l, link)
                         [] x.kind = "aggr" -> FillAggr(src, l, link)
                         [] x.kind = "vlan" -> FillVlan(src, l, link)
                         [] x.kind = "vnic" -> FillVnic(src, l, link)
                         [] OTHER -> link
  <2> HIDE DEF src
  <2> QED
      BY <1>1 DEF Filled
<1>3. x.kind \in LinkKinds
    BY DEF Described, FitsIn
<1>4. ASSUME x.kind = "phys" PROVE Filled(src, l) = Unjoined(x)
  <2>1. Filled(src, l) = [link EXCEPT !.mac = src.macs[l]]
      BY <1>2, <1>4 DEF FillPhys
  <2>2. src.macs[l] = x.mac
      BY <1>4, MacsTold DEF Sources
  <2>3. x.vid = 0
      BY <1>4 DEF Described, FitsIn
  <2> HIDE DEF src
  <2> QED
      BY <1>4, <2>1, <2>2, <2>3 DEF Unjoined
<1>5. ASSUME x.kind = "aggr" PROVE Filled(src, l) = Unjoined(x)
  <2> DEFINE rows == PortRows(PortTable(links))
             own == {i \in DOMAIN rows : rows[i].link = l /\ rows[i].port = None}
  <2>1. l \in AggrRows(links)
      BY <1>5 DEF AggrRows, OfKind
  <2>2. Told(rows, links, AggrRows(links)) /\ rows \in Seq(Rows(links))
      BY AggregationsTold, AreDescribed
  <2>3. src.ports = rows
      BY DEF Sources
  <2> HIDE DEF rows, src
  <2>4. PortsOf(rows, l) = x.over
      BY <2>1, <2>2 DEF Told
  <2>5. own # {} /\ \A i \in own : rows[i].mac = x.mac
      BY <2>1, <2>2 DEF Told
  <2>6. Min(own) \in own
    <3>1. own \subseteq Nat
        BY <2>2
    <3> HIDE DEF own
    <3> QED
        BY <2>5, <3>1, HasFirst
  <2>7. Filled(src, l) = [link EXCEPT !.mac = IF own = {} THEN @ ELSE rows[Min(own)].mac,
                                      !.over = IF x.over = << >> THEN @ ELSE x.over]
      BY <1>2, <1>5, <2>3, <2>4 DEF FillAggr
  <2>8. rows[Min(own)].mac = x.mac
      BY <2>5, <2>6
  <2> HIDE DEF own
  <2>9. Filled(src, l) = [link EXCEPT !.mac = x.mac, !.over = x.over]
      BY <2>5, <2>7, <2>8
  <2>10. x.vid = 0
      BY <1>5 DEF Described, FitsIn
  <2> QED
      BY <1>5, <2>9, <2>10 DEF Unjoined
<1>6. ASSUME x.kind = "vlan" PROVE Filled(src, l) = Unjoined(x)
  <2>1. Filled(src, l) = [link EXCEPT !.vid = src.vlans[l].vid, !.over = <<src.vlans[l].over>>]
      BY <1>2, <1>6 DEF FillVlan
  <2>2. src.vlans[l].vid = x.vid /\ src.vlans[l].over = x.over[1]
    <3>1. l \in OfKind(links, "vlan")
        BY <1>6 DEF OfKind
    <3> QED
        BY <3>1 DEF Sources, VlanRows
  <2>3. x.over = <<x.over[1]>>
      BY <1>6 DEF Described, FitsIn
  <2> HIDE DEF src
  <2>4. Filled(src, l) = [link EXCEPT !.vid = x.vid, !.over = x.over]
      BY <2>1, <2>2, <2>3
  <2> QED
      BY <1>6, <2>4 DEF Unjoined
<1>7. ASSUME x.kind = "vnic" PROVE Filled(src, l) = Unjoined(x)
  <2>1. Filled(src, l) = [link EXCEPT !.vid = src.vnics[l].vid, !.over = <<src.vnics[l].over>>,
                                      !.mac = src.vnics[l].mac]
      BY <1>2, <1>7 DEF FillVnic
  <2>2. src.vnics[l].vid = x.vid /\ src.vnics[l].over = x.over[1] /\ src.vnics[l].mac = x.mac
    <3>1. l \in OfKind(links, "vnic")
        BY <1>7 DEF OfKind
    <3> QED
        BY <3>1 DEF Sources, VnicRows
  <2>3. x.over = <<x.over[1]>>
      BY <1>7 DEF Described, FitsIn
  <2> HIDE DEF src
  <2>4. Filled(src, l) = [link EXCEPT !.vid = x.vid, !.over = x.over, !.mac = x.mac]
      BY <2>1, <2>2, <2>3
  <2> QED
      BY <1>7, <2>4 DEF Unjoined
<1>8. ASSUME x.kind = "etherstub" PROVE Filled(src, l) = Unjoined(x)
  <2>1. Filled(src, l) = link
      BY <1>2, <1>8
  <2>2. x.vid = 0 /\ x.mac = None
      BY <1>8 DEF Described, FitsIn
  <2> HIDE DEF src
  <2> QED
      BY <1>8, <2>1, <2>2 DEF Unjoined
<1> HIDE DEF src, link
<1>9. Filled(src, l) = Unjoined(x)
    BY <1>3, <1>4, <1>5, <1>6, <1>7, <1>8 DEF LinkKinds
<1> QED
    BY <1>9 DEF src

\* The listing of links is what there is.
LEMMA LinksTold ==
    ASSUME NEW links, Described(links)
    PROVE  Assembled(Sources(links)) = [l \in DOMAIN links |-> ShownOf(links[l])]
<1> DEFINE src == Sources(links)
           filled == [l \in DOMAIN src.links |-> Filled(src, l)]
           fill(l) == IF filled[l].kind = "vlan"
                      THEN [filled[l] EXCEPT !.mac = filled[filled[l].over[1]].mac]
                      ELSE filled[l]
<1>1. DOMAIN src.links = DOMAIN links
    BY DEF Sources, LinkRows
<1>2. Assembled(src) = [l \in DOMAIN filled |-> fill(l)]
    BY DEF Assembled
<1>3. \A l \in DOMAIN links : filled[l] = Unjoined(links[l])
    BY <1>1, FilledTold
<1>4. DOMAIN filled = DOMAIN links
    BY <1>1
<1> HIDE DEF filled
<1>5. ASSUME NEW l \in DOMAIN links PROVE fill(l) = ShownOf(links[l])
  <2> DEFINE x == links[l]
             o == x.over[1]
             y == filled[l]
             under == filled[o]
  <2>1. y = Unjoined(x)
      BY <1>3
  <2>2. y.kind = x.kind /\ y.over = x.over
      BY <2>1 DEF Unjoined
  <2>3. fill(l) = IF y.kind = "vlan" THEN [y EXCEPT !.mac = filled[y.over[1]].mac] ELSE y
      OBVIOUS
  <2>4. CASE x.kind = "vlan"
    <3>1. o \in DOMAIN links /\ links[o].kind # "vlan" /\ x.mac = links[o].mac
        BY <2>4 DEF Described, FitsIn, CanCarry
    <3>2. under = Unjoined(links[o])
        BY <1>3, <3>1
    <3> HIDE DEF under
    <3>3. under.mac = x.mac
        BY <3>1, <3>2 DEF Unjoined
    <3> HIDE DEF y
    <3>4. fill(l) = [y EXCEPT !.mac = under.mac]
        BY <2>2, <2>3, <2>4 DEF under
    <3> HIDE DEF fill
    <3>5. fill(l) = [Unjoined(x) EXCEPT !.mac = x.mac]
        BY <2>1, <3>3, <3>4
    <3> QED
        BY <2>4, <3>5 DEF ShownOf, Unjoined
  <2>5. CASE x.kind # "vlan"
    <3> HIDE DEF y
    <3>1. fill(l) = y
        BY <2>2, <2>3, <2>5
    <3> HIDE DEF fill
    <3> QED
        BY <2>1, <2>5, <3>1 DEF ShownOf, Unjoined
  <2> QED
      BY <2>4, <2>5
<1> HIDE DEF fill, src
<1> QED
    BY <1>2, <1>4, <1>5 DEF src

\* Routes as route -p and the kernel have them.
Routed(routes) ==
    /\ routes = [x \in DOMAIN routes |-> routes[x]]
    /\ \A x \in DOMAIN routes :
          /\ routes[x] = [kind |-> routes[x].kind, persistent |-> routes[x].persistent]
          /\ routes[x].kind \in {"interface", "static", "dynamic"}
          /\ routes[x].persistent \in BOOLEAN
          /\ routes[x].persistent => routes[x].kind = "static"

\* The listing of routes is what there is.
LEMMA RoutesTold ==
    ASSUME NEW routes, Routed(routes)
    PROVE  MarkedPersistent(NetstatRows(routes), PersistentRows(routes)) = routes
<1> DEFINE rows == NetstatRows(routes)
           kept == PersistentRows(routes)
           kind(x) == RouteKind(rows[x])
           told(x) == [kind |-> kind(x), persistent |-> kind(x) = "static" /\ x \in kept]
<1>1. DOMAIN rows = DOMAIN routes /\ \A x \in DOMAIN routes : rows[x] = Flags[routes[x].kind]
    BY DEF NetstatRows
<1>2. MarkedPersistent(rows, kept) = [x \in DOMAIN rows |-> told(x)]
    BY DEF MarkedPersistent
<1>3. ASSUME NEW x \in DOMAIN routes PROVE told(x) = routes[x]
  <2>1. kind(x) = routes[x].kind
    <3>1. rows[x] = Flags[routes[x].kind]
        BY <1>1
    <3> HIDE DEF rows
    <3>2. CASE routes[x].kind = "interface"
      <4>1. rows[x] = {"U"}
          BY <3>1, <3>2 DEF Flags
      <4> QED
          BY <3>2, <4>1 DEF RouteKind
    <3>3. CASE routes[x].kind = "static"
      <4>1. rows[x] = {"U", "G"}
          BY <3>1, <3>3 DEF Flags
      <4> QED
          BY <3>3, <4>1 DEF RouteKind
    <3>4. CASE routes[x].kind = "dynamic"
      <4>1. rows[x] = {"U", "G", "D"}
          BY <3>1, <3>4 DEF Flags
      <4> QED
          BY <3>4, <4>1 DEF RouteKind
    <3> QED
        BY <3>2, <3>3, <3>4 DEF Routed
  <2>2. x \in kept <=> routes[x].persistent
      BY DEF PersistentRows
  <2>3. (kind(x) = "static" /\ x \in kept) = routes[x].persistent
    <3> HIDE DEF kind, kept
    <3> QED
        BY <2>1, <2>2 DEF Routed
  <2> HIDE DEF kind, kept
  <2> QED
      BY <2>1, <2>3, Zenon DEF Routed
<1> HIDE DEF told, rows, kept
<1>4. MarkedPersistent(rows, kept) = [x \in DOMAIN routes |-> routes[x]]
    BY <1>1, <1>2, <1>3
<1> QED
    BY <1>4, Zenon DEF Routed, rows, kept

-----------------------------------------------------------------------------
(* Every command leaves a host that is described.                          *)

\* What fits with some links fits with more, and with the same under another MTU.
LEMMA FitsStill ==
    ASSUME NEW links, NEW more, NEW x, FitsIn(x, links),
           OfKind(links, "phys") \subseteq OfKind(more, "phys"),
           x.kind = "vlan" => /\ x.over[1] \in DOMAIN more
                              /\ more[x.over[1]].kind = links[x.over[1]].kind
                              /\ more[x.over[1]].mac = links[x.over[1]].mac
    PROVE  FitsIn(x, more)
<1> DEFINE P == OfKind(links, "phys")
           Q == OfKind(more, "phys")
<1>1. x.kind = "aggr" => x.over \in Seq(P)
    BY DEF FitsIn
<1>2. P \subseteq Q
    OBVIOUS
<1> HIDE DEF P, Q
<1>3. x.kind = "aggr" => x.over \in Seq(Q)
    BY <1>1, <1>2
<1> QED
    BY <1>3 DEF FitsIn, Q

\* One link more.
LEMMA DescribedWith ==
    ASSUME NEW links, Described(links), NEW name, name \notin DOMAIN links,
           name \notin {"", None}, NEW x, FitsIn(x, links)
    PROVE  Described(With(links, name, x))
<1> DEFINE more == With(links, name, x)
<1>1. /\ DOMAIN more = DOMAIN links \cup {name} /\ more[name] = x
      /\ \A l \in DOMAIN links : more[l] = links[l]
    BY DEF With
<1> HIDE DEF more
<1>2. Named(more)
  <2>1. IsFiniteSet(DOMAIN links \cup {name})
      BY FS_AddElement DEF Described, Named
  <2> QED
      BY <1>1, <2>1 DEF Described, Named
<1>3. OfKind(links, "phys") \subseteq OfKind(more, "phys")
    BY <1>1 DEF OfKind
<1>4. ASSUME NEW y, FitsIn(y, links) PROVE FitsIn(y, more)
  <2>1. y.kind = "vlan" => y.over[1] \in DOMAIN links
      BY <1>4 DEF FitsIn
  <2>2. y.kind = "vlan" => /\ y.over[1] \in DOMAIN more
                           /\ more[y.over[1]].kind = links[y.over[1]].kind
                           /\ more[y.over[1]].mac = links[y.over[1]].mac
      BY <1>1, <2>1
  <2> QED
      BY <1>3, <1>4, <2>2, FitsStill
<1>5. \A l \in DOMAIN more : FitsIn(more[l], more)
    BY <1>1, <1>4 DEF Described
<1> QED
    BY <1>2, <1>5 DEF Described, more

\* One link less, which no other is over.
LEMMA DescribedWithout ==
    ASSUME NEW links, Described(links), NEW name \in DOMAIN links,
           links[name].kind # "phys", On(links, name) = {}
    PROVE  Described(Without(links, name))
<1> DEFINE less == Without(links, name)
<1>1. /\ DOMAIN less = DOMAIN links \ {name}
      /\ \A l \in DOMAIN less : less[l] = links[l]
    BY DEF Without
<1> HIDE DEF less
<1>2. Named(less)
  <2>1. IsFiniteSet(DOMAIN links \ {name})
      BY FS_RemoveElement DEF Described, Named
  <2> QED
      BY <1>1, <2>1 DEF Described, Named
<1>3. OfKind(links, "phys") \subseteq OfKind(less, "phys")
    BY <1>1 DEF OfKind
<1>4. ASSUME NEW l \in DOMAIN less PROVE FitsIn(less[l], less)
  <2> DEFINE x == links[l]
             o == x.over[1]
  <2>1. l \in DOMAIN links /\ less[l] = x /\ FitsIn(x, links)
      BY <1>1 DEF Described
  <2>2. ASSUME x.kind = "vlan" PROVE o \in DOMAIN less
    <3>1. x.over = <<o>> /\ o \in DOMAIN links
        BY <2>1, <2>2 DEF FitsIn
    <3>2. l \notin On(links, name)
        OBVIOUS
    <3>3. name \notin ToSet(x.over)
        BY <2>1, <3>2 DEF On, Over
    <3> HIDE DEF o
    <3>4. ToSet(<<o>>) = {o}
        BY DEF ToSet
    <3>5. o # name
        BY <3>1, <3>3, <3>4
    <3> QED
        BY <1>1, <3>1, <3>5
  <2>3. x.kind = "vlan" => /\ o \in DOMAIN less /\ less[o].kind = links[o].kind
                           /\ less[o].mac = links[o].mac
      BY <1>1, <2>2
  <2> QED
      BY <1>3, <2>1, <2>3, FitsStill
<1> QED
    BY <1>2, <1>4 DEF Described, less

\* The same links, of another MTU or age.
LEMMA DescribedOtherwise ==
    ASSUME NEW links, Described(links), NEW same, DOMAIN same = DOMAIN links,
           \A l \in DOMAIN links :
              /\ same[l].kind = links[l].kind /\ same[l].over = links[l].over
              /\ same[l].mac = links[l].mac /\ same[l].vid = links[l].vid
    PROVE  Described(same)
<1>1. Named(same)
    BY DEF Described, Named
<1>2. OfKind(same, "phys") = OfKind(links, "phys")
    BY DEF OfKind
<1>3. ASSUME NEW l \in DOMAIN same PROVE FitsIn(same[l], same)
  <2>1. FitsIn(links[l], links)
      BY DEF Described
  <2> DEFINE x == links[l]
             y == same[l]
  <2>2. y.kind = x.kind /\ y.over = x.over /\ y.mac = x.mac /\ y.vid = x.vid
      OBVIOUS
  <2>3. x.kind = "vlan" => /\ x.over[1] \in DOMAIN same
                           /\ same[x.over[1]].kind = links[x.over[1]].kind
                           /\ same[x.over[1]].mac = links[x.over[1]].mac
      BY <2>1 DEF FitsIn
  <2>4. FitsIn(x, same)
      BY <1>2, <2>1, <2>3, FitsStill
  <2> HIDE DEF x, y
  <2>5. FitsIn(y, same)
      BY <2>2, <2>4 DEF FitsIn
  <2> QED
      BY <2>5 DEF y
<1> QED
    BY <1>1, <1>3 DEF Described

-----------------------------------------------------------------------------
(* Requests and steps.                                                     *)

\* What a request that makes a link was given.
Given(q) ==
    /\ q.op \in CreateOps => q.name \in NewNames
    /\ q.op = "create_aggr" => q.over \in Seq(ToSet(q.over))

\* What the listings rest on: every link has what its kind has, no name is that of an empty
\* field, and so for the links requests are about to make.
ListInv == Described(host.links) /\ Routed(host.routes) /\ \A r \in Requests : Given(req[r])

\* A request keeps what it was given while it goes on.
LEMMA GivenStill ==
    ASSUME RequestType, ListInv, NEW r \in Requests, NEW stage, Goto(r, stage)
    PROVE  \A q \in Requests : Given(req'[q])
<1>1. ASSUME NEW q \in Requests PROVE Given(req'[q])
  <2>1. CASE q # r
      BY <2>1, Going DEF ListInv
  <2>2. CASE q = r /\ stage = "over"
    <3>1. req'[r].op = "list_links"
        BY <2>2, Going
    <3> QED
        BY <2>2, <3>1 DEF Given, CreateOps
  <2>3. CASE q = r /\ stage # "over"
    <3>1. req'[r].op = req[r].op /\ req'[r].name = req[r].name /\ req'[r].over = req[r].over
        BY <2>3, Going
    <3> QED
        BY <2>3, <3>1 DEF Given, ListInv
  <2> QED
      BY <2>1, <2>2, <2>3
<1> QED
    BY <1>1

\* Every step but an Ask takes a request on, or none.
LEMMA GoesOn ==
    ASSUME [Next]_vars, \A r \in Requests : ~Ask(r)
    PROVE  req' = req \/ \E q \in Requests : \E s \in Stages : Goto(q, s)
<1> USE DEF Stages, Working
<1>1. ASSUME NEW r \in Requests, NEW stage \in Stages, Acted(r, stage)
      PROVE  \E s \in Stages : Goto(r, s)
    BY <1>1 DEF Acted
<1>2. ASSUME NEW r \in Requests, Command(r) PROVE \E s \in Stages : Goto(r, s)
  <2>1. CASE Acted(r, "note") \/ Acted(r, "over")
      BY <1>1, <2>1
  <2>2. CASE ~(Acted(r, "note") \/ Acted(r, "over"))
      BY <1>2, <2>2 DEF Command, CreateAggr, CreateVlan, CreateEtherstub, CreateVnic, RemoveLink,
         UpdateLink, Plumb, CreateAddress, DeleteAddress, CreateRoute, DeleteRoute
  <2> QED
      BY <2>1, <2>2
<1>3. ASSUME NEW r \in Requests,
             \/ List(r) \/ FindLink(r) \/ FindAddress(r) \/ FindRoute(r)
             \/ Check(r) \/ Fail(r) \/ Note(r)
      PROVE  \E s \in Stages : Goto(r, s)
  <2>1. CASE List(r)
      BY <2>1 DEF List
  <2>2. CASE FindLink(r)
      BY <2>2 DEF FindLink
  <2>3. CASE FindAddress(r)
      BY <2>3 DEF FindAddress
  <2>4. CASE FindRoute(r)
      BY <2>4 DEF FindRoute
  <2>5. CASE Check(r)
      BY <2>5 DEF Check
  <2>6. CASE Fail(r) \/ Note(r)
      BY <2>6 DEF Fail, Note
  <2> QED
      BY <1>3, <2>1, <2>2, <2>3, <2>4, <2>5, <2>6
<1>4. CASE Expire
    BY <1>4 DEF Expire
<1>5. CASE Cut
    BY <1>5 DEF Cut, Busy
<1>6. CASE UNCHANGED vars
    BY <1>6 DEF vars
<1> QED
    BY <1>2, <1>3, <1>4, <1>5, <1>6 DEF Next

\* A request is given a name of NewNames, and an aggregation a list of ports.
LEMMA GivenWhenAsked ==
    ASSUME RequestType, ListInv, NEW r \in Requests, Ask(r)
    PROVE  \A q \in Requests : Given(req'[q])
<1>0. PICK op \in Asks[r] : \E in \in Inputs(op) :
         req' = [req EXCEPT ![r] = [op |-> op, stage |-> FirstStage(op), name |-> in.name,
                                    kind |-> in.kind, over |-> in.over, ip |-> in.ip,
                                    came |-> in.came]]
    BY DEF Ask
<1>1. PICK in \in Inputs(op) :
         req' = [req EXCEPT ![r] = [op |-> op, stage |-> FirstStage(op), name |-> in.name,
                                    kind |-> in.kind, over |-> in.over, ip |-> in.ip,
                                    came |-> in.came]]
    BY <1>0
<1> DEFINE new == [op |-> op, stage |-> FirstStage(op), name |-> in.name, kind |-> in.kind,
                   over |-> in.over, ip |-> in.ip, came |-> in.came]
<1>2. req'[r] = new /\ \A q \in Requests : q # r => req'[q] = req[q]
  <2>1. req = [q \in Requests |-> req[q]]
      BY DEF RequestType
  <2> HIDE DEF new
  <2> QED
      BY <1>1, <2>1 DEF new
<1>3. ASSUME op \in CreateOps PROVE in.name \in NewNames
  <2>1. op \notin LinkOps
      BY <1>3 DEF CreateOps, LinkOps
  <2>2. in.name \in CASE op \in LinkOps -> Names
                       [] op \in CreateOps -> NewNames
                       [] op \in AddressOps -> {<<l, "v4">> : l \in Names}
                       [] op \in RouteOps -> RouteNames
                       [] OTHER -> {None}
      BY DEF Inputs
  <2>3. op \notin AddressOps /\ op \notin RouteOps
      BY <1>3 DEF CreateOps, AddressOps, RouteOps
  <2> QED
      BY <1>3, <2>1, <2>2, <2>3
<1>4. ASSUME op = "create_aggr" PROVE in.over \in Seq(ToSet(in.over))
  <2>1. in.over \in CASE op = "create_aggr" -> {<<p>> : p \in Phys} \cup {<<p, q>> : p, q \in Phys}
                       [] op \in {"create_vlan", "create_vnic"} -> {<<l>> : l \in Names}
                       [] OTHER -> {<< >>}
      BY DEF Inputs
  <2>2. in.over \in {<<p>> : p \in Phys} \cup {<<p, q>> : p, q \in Phys}
      BY <1>4, <2>1
  <2>3. in.over \in Seq(Phys)
    <3>1. ASSUME NEW p \in Phys PROVE <<p>> \in Seq(Phys)
        BY <3>1
    <3>2. ASSUME NEW p \in Phys, NEW q \in Phys PROVE <<p, q>> \in Seq(Phys)
        BY <3>2
    <3>3. CASE in.over \in {<<p>> : p \in Phys}
      <4>1. PICK p \in Phys : in.over = <<p>>
          BY <3>3
      <4> QED
          BY <3>1, <4>1
    <3>4. CASE in.over \in {<<p, q>> : p, q \in Phys}
      <4>1. \E p \in Phys : \E q \in Phys : in.over = <<p, q>>
          BY <3>4
      <4> QED
          BY <3>2, <4>1
    <3> QED
        BY <2>2, <3>3, <3>4
  <2> DEFINE over == in.over
  <2> HIDE DEF over
  <2>4. \A i \in 1 .. Len(over) : over[i] \in ToSet(over)
      BY <2>3 DEF ToSet, over
  <2>5. over = [i \in 1 .. Len(over) |-> over[i]] /\ Len(over) \in Nat
      BY <2>3 DEF over
  <2> QED
      BY <2>4, <2>5, IsSequence DEF over
<1>5. Given(new)
    BY <1>3, <1>4 DEF Given
<1> HIDE DEF new
<1> QED
    BY <1>2, <1>5 DEF ListInv

\* The fields of a link.
LEMMA LinkHas ==
    ASSUME NEW kind, NEW over, NEW mac, NEW vid, NEW mtu, NEW born, NEW x,
           x = Link(kind, over, mac, vid, mtu, born)
    PROVE  x.kind = kind /\ x.over = over /\ x.mac = mac /\ x.vid = vid
BY DEF Link

\* A request gives its link a name that the tables can tell from an empty field.
LEMMA DescribedMade ==
    ASSUME HostInv, ListInv, NEW r \in Requests, req[r].op \in CreateOps,
           req[r].name \notin DOMAIN host.links,
           NEW x, FitsIn(x, host.links), host' = [host EXCEPT !.links = With(@, req[r].name, x)]
    PROVE  Described(host'.links) /\ Routed(host'.routes)
<1> DEFINE name == req[r].name
<1>1. IsHost(host)
    BY DEF HostInv, Typed, HostType
<1>2. host'.links = With(host.links, name, x) /\ host'.routes = host.routes
    BY <1>1, PartsOfHost
<1>3. name \notin {"", None}
    BY NetworkAssumption DEF ListInv, Given
<1>4. Described(host.links) /\ Routed(host.routes)
    BY DEF ListInv
<1> HIDE DEF name
<1>5. name \notin DOMAIN host.links
    BY DEF name
<1>6. Described(With(host.links, name, x))
    BY <1>3, <1>4, <1>5, DescribedWith
<1> QED
    BY <1>2, <1>4, <1>6

\* dladm takes only physical links for ports.
LEMMA AggrDescribed ==
    ASSUME HostInv, ListInv, NEW r \in Requests, CreateAggr(r)
    PROVE  Described(host'.links) /\ Routed(host'.routes)
<1> DEFINE over == req[r].over
           mac == host.links[over[1]].mac
           x == Link("aggr", over, mac, 0, 1500, clock)
<1>1. /\ host' = [host EXCEPT !.links = With(@, req[r].name, x)]
      /\ req[r].op = "create_aggr" /\ req[r].name \notin DOMAIN host.links
      /\ \A p \in ToSet(over) : p \in DOMAIN host.links /\ host.links[p].kind = "phys"
    BY DEF CreateAggr, Doing, WithAggr, CanCreateAggr
<1>2. over \in Seq(ToSet(over))
    BY <1>1 DEF ListInv, Given
<1>3. over \in Seq(OfKind(host.links, "phys"))
  <2>1. ToSet(over) \subseteq OfKind(host.links, "phys")
      BY <1>1 DEF OfKind
  <2> DEFINE P == ToSet(over)
             Q == OfKind(host.links, "phys")
  <2> HIDE DEF P, Q
  <2>2. over \in Seq(P) /\ P \subseteq Q
      BY <1>2, <2>1 DEF P, Q
  <2> HIDE DEF over
  <2> QED
      BY <2>2 DEF Q
<1> HIDE DEF over, mac
<1>4. x.kind = "aggr" /\ x.over = over /\ x.mac = mac /\ x.vid = 0
    BY LinkHas
<1> HIDE DEF x
<1>5. FitsIn(x, host.links)
    BY <1>3, <1>4 DEF FitsIn, LinkKinds
<1> QED
    BY <1>1, <1>5, DescribedMade DEF CreateOps

\* A VLAN gets the mac of what it is over.
LEMMA VlanDescribed ==
    ASSUME HostInv, ListInv, NEW r \in Requests, CreateVlan(r)
    PROVE  Described(host'.links) /\ Routed(host'.routes)
<1> DEFINE o == req[r].over[1]
           mac == host.links[o].mac
           mtu == host.links[o].mtu
           x == Link("vlan", <<o>>, mac, 10, mtu, clock)
<1>1. /\ host' = [host EXCEPT !.links = With(@, req[r].name, x)]
      /\ req[r].op = "create_vlan" /\ req[r].name \notin DOMAIN host.links
      /\ o \in DOMAIN host.links /\ host.links[o].kind \in CanCarry["vlan"]
      /\ mac = host.links[o].mac
    BY DEF CreateVlan, Doing, WithVlan, CanCreateOver
<1> HIDE DEF o, mac, mtu
<1>2. x.kind = "vlan" /\ x.over = <<o>> /\ x.mac = mac /\ x.vid = 10
    BY LinkHas
<1> HIDE DEF x
<1>3. FitsIn(x, host.links)
    BY <1>1, <1>2 DEF FitsIn, LinkKinds
<1> QED
    BY <1>1, <1>3, DescribedMade DEF CreateOps

LEMMA VnicDescribed ==
    ASSUME HostInv, ListInv, NEW r \in Requests, CreateVnic(r)
    PROVE  Described(host'.links) /\ Routed(host'.routes)
<1> DEFINE o == req[r].over[1]
           name == req[r].name
           mtu == host.links[o].mtu
           x == Link("vnic", <<o>>, name, 0, mtu, clock)
<1>1. /\ host' = [host EXCEPT !.links = With(@, req[r].name, x)]
      /\ req[r].op = "create_vnic" /\ req[r].name \notin DOMAIN host.links
    BY DEF CreateVnic, Doing, WithVnic, CanCreateOver
<1> HIDE DEF o, name, mtu
<1>2. x.kind = "vnic" /\ x.over = <<o>> /\ x.mac = name /\ x.vid = 0
    BY LinkHas
<1> HIDE DEF x
<1>3. FitsIn(x, host.links)
    BY <1>2 DEF FitsIn, LinkKinds
<1> QED
    BY <1>1, <1>3, DescribedMade DEF CreateOps

LEMMA EtherstubDescribed ==
    ASSUME HostInv, ListInv, NEW r \in Requests, CreateEtherstub(r)
    PROVE  Described(host'.links) /\ Routed(host'.routes)
<1> DEFINE x == Link("etherstub", << >>, None, 0, 9000, clock)
<1>1. /\ host' = [host EXCEPT !.links = With(@, req[r].name, x)]
      /\ req[r].op = "create_etherstub" /\ req[r].name \notin DOMAIN host.links
    BY DEF CreateEtherstub, Doing, WithEtherstub, CanCreateEtherstub
<1>2. x.kind = "etherstub" /\ x.mac = None /\ x.vid = 0
    BY LinkHas
<1> HIDE DEF x
<1>3. FitsIn(x, host.links)
    BY <1>2 DEF FitsIn, LinkKinds
<1> QED
    BY <1>1, <1>3, DescribedMade DEF CreateOps

\* dladm removes no link that another is over.
LEMMA RemovalDescribed ==
    ASSUME HostInv, ListInv, NEW r \in Requests, RemoveLink(r)
    PROVE  Described(host'.links) /\ Routed(host'.routes)
<1> DEFINE name == req[r].name
<1>1. /\ host' = WithoutLink(host, name) /\ name \in DOMAIN host.links
      /\ host.links[name].kind # "phys" /\ On(host.links, name) = {}
    BY DEF RemoveLink, CanDeleteLink, Unused
<1> HIDE DEF name
<1>2. IsHost(host)
    BY DEF HostInv, Typed, HostType
<1>3. host'.links = Without(host.links, name) /\ host'.routes = host.routes
    BY <1>1, <1>2, PartsOfHost DEF WithoutLink
<1>4. Described(Without(host.links, name))
    BY <1>1, DescribedWithout DEF ListInv
<1> QED
    BY <1>3, <1>4 DEF ListInv

\* An update changes the MTU alone.
LEMMA UpdateDescribed ==
    ASSUME HostInv, ListInv, NEW r \in Requests, UpdateLink(r)
    PROVE  Described(host'.links) /\ Routed(host'.routes)
<1> DEFINE name == req[r].name
<1>1. UNCHANGED host \/ (name \in DOMAIN host.links /\ host' = WithMtu(host, name, 1400))
    BY DEF UpdateLink, CanSetMtu
<1>2. CASE UNCHANGED host
    BY <1>2 DEF ListInv
<1> HIDE DEF name
<1>3. CASE name \in DOMAIN host.links /\ host' = WithMtu(host, name, 1400)
  <2> DEFINE links == host.links
             old == links[name]
             new == [old EXCEPT !.mtu = 1400]
             same == [links EXCEPT ![name] = new]
  <2>1. IsHost(host) /\ links = [l \in DOMAIN links |-> links[l]] /\ IsLink(old)
      BY <1>3 DEF HostInv, Typed, HostType
  <2>2. host' = [host EXCEPT !.links = same]
      BY <1>3, <2>1 DEF WithMtu, IsHost
  <2>3. /\ new.kind = old.kind /\ new.over = old.over
        /\ new.mac = old.mac /\ new.vid = old.vid
      BY <2>1 DEF IsLink, Link
  <2> HIDE DEF new
  <2>4. same = [l \in DOMAIN links |-> IF l = name THEN new ELSE links[l]]
      BY <2>1
  <2>5. /\ DOMAIN same = DOMAIN links
        /\ \A l \in DOMAIN links :
              /\ same[l].kind = links[l].kind /\ same[l].over = links[l].over
              /\ same[l].mac = links[l].mac /\ same[l].vid = links[l].vid
      BY <2>3, <2>4
  <2> HIDE DEF same
  <2>6. host'.links = same /\ host'.routes = host.routes
      BY <2>1, <2>2, PartsOfHost
  <2>7. Described(links)
      BY DEF ListInv
  <2> HIDE DEF links
  <2>8. Described(same)
      BY <2>5, <2>7, DescribedOtherwise
  <2> QED
      BY <2>6, <2>8 DEF ListInv
<1> QED
    BY <1>1, <1>2, <1>3

\* Addresses leave links and routes alone.
LEMMA AddressesDescribed ==
    ASSUME HostInv, ListInv, NEW r \in Requests,
           Plumb(r) \/ CreateAddress(r) \/ DeleteAddress(r)
    PROVE  Described(host'.links) /\ Routed(host'.routes)
<1>1. IsHost(host)
    BY DEF HostInv, Typed, HostType
<1>2. \/ UNCHANGED host
      \/ host' = WithInterface(host, req[r].name[1])
      \/ host' = WithAddress(host, req[r].name, req[r].ip, clock)
      \/ host' = WithoutAddress(host, req[r].name)
    BY DEF Plumb, CreateAddress, DeleteAddress
<1>3. host'.links = host.links /\ host'.routes = host.routes
    BY <1>1, <1>2, PartsOfHost DEF WithInterface, WithAddress, WithoutAddress
<1> QED
    BY <1>3 DEF ListInv

\* A route that is added is static and persistent; the others keep what they are.
LEMMA RoutesDescribed ==
    ASSUME HostInv, ListInv, NEW r \in Requests, CreateRoute(r) \/ DeleteRoute(r)
    PROVE  Described(host'.links) /\ Routed(host'.routes)
<1> DEFINE x == req[r].name
           new == [kind |-> "static", persistent |-> TRUE]
           old == host.routes
<1>1. IsHost(host) /\ Described(host.links) /\ Routed(old)
    BY DEF HostInv, Typed, HostType, ListInv
<1>2. host' = WithRoute(host, x) \/ host' = WithoutRoute(host, x)
    BY DEF CreateRoute, DeleteRoute
<1>3. /\ host'.links = host.links
      /\ host'.routes = With(old, x, new) \/ host'.routes = Without(old, x)
    BY <1>1, <1>2, PartsOfHost DEF WithRoute, WithoutRoute
<1>4. /\ new = [kind |-> new.kind, persistent |-> new.persistent]
      /\ new.kind = "static" /\ new.persistent \in BOOLEAN
    OBVIOUS
<1> HIDE DEF x, new, old
<1>5. Routed(With(old, x, new))
  <2> DEFINE more == With(old, x, new)
  <2>1. /\ DOMAIN more = DOMAIN old \cup {x}
        /\ \A y \in DOMAIN more : more[y] = IF y = x THEN new ELSE old[y]
        /\ more = [y \in DOMAIN more |-> more[y]]
      BY DEF With
  <2> HIDE DEF more
  <2>2. ASSUME NEW y \in DOMAIN more
        PROVE  /\ more[y] = [kind |-> more[y].kind, persistent |-> more[y].persistent]
               /\ more[y].kind \in {"interface", "static", "dynamic"}
               /\ more[y].persistent \in BOOLEAN
               /\ more[y].persistent => more[y].kind = "static"
    <3>1. CASE y = x
        BY <1>4, <2>1, <3>1, Zenon
    <3>2. CASE y # x
        BY <1>1, <2>1, <3>2, Zenon DEF Routed
    <3> QED
        BY <3>1, <3>2
  <2> QED
      BY <2>1, <2>2, Zenon DEF Routed, more
<1>6. Routed(Without(old, x))
  <2> DEFINE less == Without(old, x)
  <2>1. /\ DOMAIN less = DOMAIN old \ {x}
        /\ \A y \in DOMAIN less : less[y] = old[y]
        /\ less = [y \in DOMAIN less |-> less[y]]
      BY DEF Without
  <2> HIDE DEF less
  <2>2. ASSUME NEW y \in DOMAIN less
        PROVE  /\ less[y] = [kind |-> less[y].kind, persistent |-> less[y].persistent]
               /\ less[y].kind \in {"interface", "static", "dynamic"}
               /\ less[y].persistent \in BOOLEAN
               /\ less[y].persistent => less[y].kind = "static"
      BY <1>1, <2>1, Zenon DEF Routed
  <2> QED
      BY <2>1, <2>2, Zenon DEF Routed, less
<1> QED
    BY <1>1, <1>3, <1>5, <1>6

\* The host there is to begin with.
LEMMA InitListInv == Init => ListInv
<1> SUFFICES ASSUME Init PROVE ListInv
    OBVIOUS
<1> DEFINE links == host.links
           routes == host.routes
<1>1. /\ DOMAIN links = {"p0", "p1", "p2", "aggr0", "aggr1", "vlan0"}
      /\ \A l \in {"p0", "p1", "p2"} : links[l] = Link("phys", << >>, l, 0, 1500, 0)
      /\ links["aggr0"] = Link("aggr", <<"p0">>, "p0", 0, 1500, 0)
      /\ links["aggr1"] = Link("aggr", <<"p1">>, "p1", 0, 1500, 0)
      /\ links["vlan0"] = Link("vlan", <<"aggr0">>, "p0", 10, 1500, 0)
    BY LinksOnHost DEF Init
<1>2. Routed(routes)
  <2>1. /\ routes = [x \in DOMAIN routes |-> routes[x]]
        /\ \A x \in DOMAIN routes :
              routes[x] = [kind |-> CASE x[1] = "default" -> "static"
                                      [] x[1] = "net" -> "interface"
                                      [] OTHER -> "dynamic",
                           persistent |-> FALSE]
      BY DEF Init, OnHost
  <2> HIDE DEF routes
  <2>2. \A x \in DOMAIN routes :
           /\ routes[x] = [kind |-> routes[x].kind, persistent |-> routes[x].persistent]
           /\ routes[x].kind \in {"interface", "static", "dynamic"}
           /\ routes[x].persistent = FALSE
      BY <2>1
  <2> QED
      BY <2>1, <2>2, Zenon DEF Routed
<1>3. \A r \in Requests : Given(req[r])
    BY DEF Init, Given, NewRequest, CreateOps
<1> HIDE DEF links, routes
<1>4. Named(links)
  <2>1. IsFiniteSet({"p0", "p1", "p2", "aggr0", "aggr1", "vlan0"})
    <3>1. IsFiniteSet({"p0"})
        BY FS_Singleton
    <3>2. IsFiniteSet({"p0"} \cup {"p1"})
        BY <3>1, FS_AddElement
    <3>3. IsFiniteSet({"p0"} \cup {"p1"} \cup {"p2"})
        BY <3>2, FS_AddElement
    <3>4. IsFiniteSet({"p0"} \cup {"p1"} \cup {"p2"} \cup {"aggr0"})
        BY <3>3, FS_AddElement
    <3>5. IsFiniteSet({"p0"} \cup {"p1"} \cup {"p2"} \cup {"aggr0"} \cup {"aggr1"})
        BY <3>4, FS_AddElement
    <3>6. IsFiniteSet({"p0"} \cup {"p1"} \cup {"p2"} \cup {"aggr0"} \cup {"aggr1"} \cup {"vlan0"})
        BY <3>5, FS_AddElement
    <3>7. {"p0"} \cup {"p1"} \cup {"p2"} \cup {"aggr0"} \cup {"aggr1"} \cup {"vlan0"}
            = {"p0", "p1", "p2", "aggr0", "aggr1", "vlan0"}
        OBVIOUS
    <3> QED
        BY <3>6, <3>7
  <2> QED
      BY <1>1, <2>1 DEF Named, None
<1>5. /\ \A l \in {"p0", "p1", "p2"} : links[l].kind = "phys" /\ links[l].vid = 0
      /\ \A l \in {"aggr0", "aggr1"} : links[l].kind = "aggr" /\ links[l].vid = 0
      /\ links["aggr0"].over = <<"p0">> /\ links["aggr1"].over = <<"p1">>
      /\ links["vlan0"].kind = "vlan" /\ links["vlan0"].over = <<"aggr0">>
      /\ links["vlan0"].mac = links["aggr0"].mac
    BY <1>1 DEF Link
<1>6. ASSUME NEW l \in DOMAIN links PROVE FitsIn(links[l], links)
  <2>1. CASE l \in {"p0", "p1", "p2"}
      BY <1>5, <2>1 DEF FitsIn, LinkKinds
  <2>2. {"p0", "p1"} \subseteq OfKind(links, "phys")
      BY <1>1, <1>5 DEF OfKind
  <2>3. CASE l \in {"aggr0", "aggr1"}
    <3> DEFINE P == OfKind(links, "phys")
    <3> HIDE DEF P
    <3>1. "p0" \in P /\ "p1" \in P
        BY <2>2 DEF P
    <3>2. \A p \in P : <<p>> \in Seq(P)
        OBVIOUS
    <3>3. links[l].over = <<"p0">> \/ links[l].over = <<"p1">>
        BY <1>5, <2>3
    <3>4. links[l].over \in Seq(P)
        BY <3>1, <3>2, <3>3
    <3> QED
        BY <1>5, <2>3, <3>4 DEF FitsIn, LinkKinds, P
  <2>4. CASE l = "vlan0"
    <3>1. links[l].over[1] = "aggr0"
        BY <1>5, <2>4
    <3> QED
        BY <1>1, <1>5, <2>4, <3>1 DEF FitsIn, LinkKinds, CanCarry
  <2> QED
      BY <1>1, <2>1, <2>3, <2>4
<1> QED
    BY <1>2, <1>3, <1>4, <1>6 DEF ListInv, Described, links, routes

\* ListInv is kept, the host being of the shape HostInv says.
LEMMA NextListInv == Inv /\ ListInv /\ [Next]_vars => ListInv'
<1> SUFFICES ASSUME Inv, ListInv, [Next]_vars PROVE ListInv'
    OBVIOUS
<1>1. HostInv /\ RequestType
    BY DEF Inv, HostInv, Typed
<1>2. Described(host'.links) /\ Routed(host'.routes)
  <2>1. ASSUME NEW r \in Requests, Command(r)
        PROVE  Described(host'.links) /\ Routed(host'.routes)
      BY <1>1, <2>1, AggrDescribed, VlanDescribed, VnicDescribed, EtherstubDescribed,
         RemovalDescribed, UpdateDescribed, AddressesDescribed, RoutesDescribed DEF Command
  <2>2. CASE UNCHANGED host
      BY <2>2 DEF ListInv
  <2>3. UNCHANGED host \/ \E r \in Requests : Command(r)
      BY DEF Next, vars, Ask, List, FindLink, FindAddress, FindRoute, Check, Fail, Note, Expire,
             Cut
  <2> QED
      BY <2>1, <2>2, <2>3
<1>3. \A r \in Requests : Given(req'[r])
  <2>1. CASE \E r \in Requests : Ask(r)
      BY <1>1, <2>1, GivenWhenAsked
  <2>2. CASE ~\E r \in Requests : Ask(r)
    <3>1. req' = req \/ \E q \in Requests : \E s \in Stages : Goto(q, s)
        BY <2>2, GoesOn
    <3>2. CASE req' = req
        BY <3>2 DEF ListInv
    <3>3. ASSUME NEW q \in Requests, NEW s \in Stages, Goto(q, s)
          PROVE  \A r \in Requests : Given(req'[r])
        BY <1>1, <3>3, GivenStill
    <3> QED
        BY <3>1, <3>2, <3>3
  <2> QED
      BY <2>1, <2>2
<1>4. Requests' = Requests
    BY DEF Requests
<1> QED
    BY <1>2, <1>3, <1>4 DEF ListInv, Given

-----------------------------------------------------------------------------
\* What mandraked lists of links and routes is what the host has, whatever links there are
\* and however many: the tables of dladm, in which the rows of a port leave LINK empty and
\* an aggregation's own leaves PORT empty, are joined without loss (parse.rs), as long as no
\* link is named as an empty field is printed, which valid_link_name sees to.
THEOREM ListingsTrue == Spec => []ListingsAreTrue
<1>1. ListInv => ListingsAreTrue
  <2> SUFFICES ASSUME ListInv PROVE ListingsAreTrue
      OBVIOUS
  <2>1. Assembled(Sources(host.links)) = [l \in DOMAIN host.links |-> ShownOf(host.links[l])]
      BY LinksTold DEF ListInv
  <2>2. \A l \in DOMAIN host.links : ShownOf(host.links[l]) = Shown(l)
      BY DEF ShownOf, Shown
  <2>3. Assembled(Sources(host.links)) = [l \in DOMAIN host.links |-> Shown(l)]
      BY <2>1, <2>2
  <2>4. MarkedPersistent(NetstatRows(host.routes), PersistentRows(host.routes)) = host.routes
      BY RoutesTold DEF ListInv
  <2> QED
      BY <2>3, <2>4 DEF ListingsAreTrue
<1>2. Spec => []ListInv
    BY InitListInv, NextListInv, Always, PTL DEF Spec
<1> QED
    BY <1>1, <1>2, PTL
=============================================================================
