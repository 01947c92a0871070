------------------------------ MODULE NetHost -------------------------------
(***************************************************************************)
(* The links, addresses and routes of a host as dladm, ipadm and route     *)
(* keep them, after the in-memory driver of the repository                 *)
(* (crates/mandrake-net/src/fake.rs); what the tools print of them, and    *)
(* what the parsers of mandraked read from that                            *)
(* (crates/mandrake-net/src/parse.rs).                                     *)
(*                                                                         *)
(* A host is a record: links, by name; plumbed, the links with an IP       *)
(* interface; addresses, by name, which is a pair of interface and alias;  *)
(* routes, by destination and gateway.  A mac is named after the link it   *)
(* was made for.                                                           *)
(* Abstracted: speeds, duplex and link state, address families, policies.  *)
(***************************************************************************)
EXTENDS Naturals, SequencesExt

None == "--"

LinkKinds == {"phys", "aggr", "vlan", "etherstub", "vnic"}
Link(kind, over, mac, vid, mtu, born) ==
    [kind |-> kind, over |-> over, mac |-> mac, vid |-> vid, mtu |-> mtu, born |-> born]

Over(links, name) == ToSet(links[name].over)
On(links, name) == {l \in DOMAIN links : name \in Over(links, l)}

With(f, x, y) == [z \in DOMAIN f \cup {x} |-> IF z = x THEN y ELSE f[z]]
Without(f, x) == [z \in DOMAIN f \ {x} |-> f[z]]

-----------------------------------------------------------------------------
(* Commands: when each succeeds, and the host it leaves.                   *)

\* Mutant of Unused: links over the link are not looked for.
UnusedByInterface(host, name) == name \notin host.plumbed

Unused(host, name) == On(host.links, name) = {} /\ name \notin host.plumbed

CanCarry == [vlan |-> {"phys", "aggr"}, vnic |-> {"phys", "aggr", "etherstub"}]

CanCreateAggr(host, name, ports) ==
    /\ name \notin DOMAIN host.links
    /\ \A p \in ToSet(ports) :
          p \in DOMAIN host.links /\ host.links[p].kind = "phys" /\ Unused(host, p)
CanCreateOver(host, kind, name, over) ==
    /\ name \notin DOMAIN host.links
    /\ over \in DOMAIN host.links /\ host.links[over].kind \in CanCarry[kind]
CanCreateEtherstub(host, name) == name \notin DOMAIN host.links

WithAggr(host, name, ports, now) ==
    [host EXCEPT !.links = With(@, name,
        Link("aggr", ports, host.links[ports[1]].mac, 0, 1500, now))]
WithVlan(host, name, over, vid, now) ==
    [host EXCEPT !.links = With(@, name,
        Link("vlan", <<over>>, host.links[over].mac, vid, host.links[over].mtu, now))]
WithEtherstub(host, name, now) ==
    [host EXCEPT !.links = With(@, name, Link("etherstub", << >>, None, 0, 9000, now))]
WithVnic(host, name, over, now) ==
    [host EXCEPT !.links = With(@, name,
        Link("vnic", <<over>>, name, 0, host.links[over].mtu, now))]

CanDeleteLink(host, name, kind) ==
    /\ name \in DOMAIN host.links
    /\ kind # "phys" /\ host.links[name].kind = kind
    /\ Unused(host, name)
WithoutLink(host, name) == [host EXCEPT !.links = Without(@, name)]

CanSetMtu(host, name) == name \in DOMAIN host.links
WithMtu(host, name, mtu) == [host EXCEPT !.links[name].mtu = mtu]

\* ipadm create-if and create-addr.  An interface outlives its addresses.
CanPlumb(host, name) == name \in DOMAIN host.links
WithInterface(host, name) == [host EXCEPT !.plumbed = @ \cup {name}]
CanCreateAddress(host, a) == a \notin DOMAIN host.addresses /\ a[1] \in host.plumbed
WithAddress(host, a, ip, now) ==
    [host EXCEPT !.addresses = With(@, a, [ip |-> ip, born |-> now])]
CanDeleteAddress(host, a) == a \in DOMAIN host.addresses
WithoutAddress(host, a) == [host EXCEPT !.addresses = Without(@, a)]

CanAddRoute(host, x) == x \notin DOMAIN host.routes
WithRoute(host, x) ==
    [host EXCEPT !.routes = With(@, x, [kind |-> "static", persistent |-> TRUE])]
CanDeleteRoute(host, x) == x \in DOMAIN host.routes /\ host.routes[x].kind = "static"
WithoutRoute(host, x) == [host EXCEPT !.routes = Without(@, x)]

-----------------------------------------------------------------------------
(* What dladm prints, read by the parser of each table: show-link has a    *)
(* row for every link, the others have rows for the links of one kind.     *)

OfKind(links, kind) == {l \in DOMAIN links : links[l].kind = kind}

LinkRows(links) ==
    [l \in DOMAIN links |->
        [kind |-> links[l].kind, over |-> links[l].over, mtu |-> links[l].mtu]]
VlanRows(links) ==
    [l \in OfKind(links, "vlan") |-> [vid |-> links[l].vid, over |-> links[l].over[1]]]
VnicRows(links) ==
    [l \in OfKind(links, "vnic") |->
        [vid |-> links[l].vid, over |-> links[l].over[1], mac |-> links[l].mac]]
AggrRows(links) == OfKind(links, "aggr")

\* show-phys -m has a row for every slot of a port's factory macs.
SlotRows(links) ==
    {<<l, "primary", links[l].mac>> : l \in OfKind(links, "phys")} \cup
    {<<l, "1", "spare">> : l \in OfKind(links, "phys")}
PhysMacs(rows) ==
    [l \in {row[1] : row \in rows} |->
        (CHOOSE row \in rows : row[1] = l /\ row[2] = "primary")[3]]

\* In show-aggr -x an aggregation's own row comes first, and those of its ports leave LINK
\* empty.
PortTable(links) ==
    LET own(a) == [link |-> a, port |-> None, mac |-> links[a].mac]
        ports(a) == [i \in DOMAIN links[a].over |->
                        [link |-> "", port |-> links[a].over[i],
                         mac |-> links[links[a].over[i]].mac]]
        aggrs == SetToSeq(AggrRows(links))
    IN  FlattenSeq([i \in DOMAIN aggrs |-> <<own(aggrs[i])>> \o ports(aggrs[i])])

\* A row belongs to the last aggregation named at or before it.
PortRows(table) ==
    [i \in DOMAIN table |->
        LET last == SelectLastInSubSeq(table, 1, i, LAMBDA row : row.link # "")
        IN  [table[i] EXCEPT !.link = table[last].link]]

-----------------------------------------------------------------------------
(* The listing of links, joined from the tables.                           *)

Sources(links) ==
    [links |-> LinkRows(links), macs |-> PhysMacs(SlotRows(links)), aggrs |-> AggrRows(links),
     ports |-> PortRows(PortTable(links)), vlans |-> VlanRows(links), vnics |-> VnicRows(links)]

FillPhys(src, l, link) == [link EXCEPT !.mac = src.macs[l]]

\* The ports in the rows of an aggregation, in their order.
PortsOf(rows, l) ==
    LET ports[n \in 0 .. Len(rows)] ==
            IF n = 0 THEN << >>
            ELSE IF rows[n].link = l /\ rows[n].port # None
            THEN Append(ports[n - 1], rows[n].port)
            ELSE ports[n - 1]
    IN  ports[Len(rows)]

\* The ports of show-aggr -x replace what show-link says the aggregation is over; its mac is
\* in the first row of its own.
FillAggr(src, l, link) ==
    LET ports == PortsOf(src.ports, l)
        own == {i \in DOMAIN src.ports : src.ports[i].link = l /\ src.ports[i].port = None}
    IN  [link EXCEPT !.mac = IF own = {} THEN @ ELSE src.ports[Min(own)].mac,
                     !.over = IF ports = << >> THEN @ ELSE ports]
FillVlan(src, l, link) ==
    [link EXCEPT !.vid = src.vlans[l].vid, !.over = <<src.vlans[l].over>>]

\* Mutant of FillVnic: the mac is left to what the VNIC is over, as a VLAN's is.
FillVnicUnder(src, l, link) ==
    LET over == src.vnics[l].over
    IN  [link EXCEPT !.vid = src.vnics[l].vid, !.over = <<over>>,
                     !.mac = IF over \in DOMAIN src.macs THEN src.macs[over] ELSE None]

FillVnic(src, l, link) ==
    [link EXCEPT !.vid = src.vnics[l].vid, !.over = <<src.vnics[l].over>>,
                 !.mac = src.vnics[l].mac]

Filled(src, l) ==
    LET row == src.links[l]
        link == [kind |-> row.kind, over |-> row.over, mtu |-> row.mtu, mac |-> None, vid |-> 0]
    IN  CASE row.kind = "phys" -> FillPhys(src, l, link)
          [] row.kind = "aggr" -> FillAggr(src, l, link)
          [] row.kind = "vlan" -> FillVlan(src, l, link)
          [] row.kind = "vnic" -> FillVnic(src, l, link)
          [] OTHER -> link

\* A VLAN takes the mac of what it is over.
Assembled(src) ==
    LET filled == [l \in DOMAIN src.links |-> Filled(src, l)]
    IN  [l \in DOMAIN filled |->
            IF filled[l].kind = "vlan"
            THEN [filled[l] EXCEPT !.mac = filled[filled[l].over[1]].mac]
            ELSE filled[l]]

-----------------------------------------------------------------------------
(* netstat -rnv gives a route's flags and no persistence; route -p show    *)
(* gives the persistent routes.                                            *)

Flags == [interface |-> {"U"}, static |-> {"U", "G"}, dynamic |-> {"U", "G", "D"}]
NetstatRows(routes) == [x \in DOMAIN routes |-> Flags[routes[x].kind]]
PersistentRows(routes) == {x \in DOMAIN routes : routes[x].persistent}

RouteKind(flags) ==
    CASE "D" \in flags -> "dynamic"
      [] "D" \notin flags /\ "G" \in flags -> "static"
      [] OTHER -> "interface"

MarkedPersistent(rows, persistent) ==
    [x \in DOMAIN rows |->
        LET kind == RouteKind(rows[x])
        IN  [kind |-> kind, persistent |-> kind = "static" /\ x \in persistent]]
=============================================================================
