---------------------------- MODULE FormsNetwork ----------------------------
(***************************************************************************)
(* The forms of the network pages: the fields of each section, in the      *)
(* words of CbiValue, and the form an interface gets from its protocol.    *)
(***************************************************************************)
EXTENDS CbiValue

(***************************************************************************)
(* Shorthands for what most fields say of themselves.                      *)
(***************************************************************************)
Typ(type)       == [Input EXCEPT !.datatype = type]
Opt(type)       == [Input EXCEPT !.datatype = type, !.optional = TRUE]
Dyn(type)       == [Dynamic EXCEPT !.datatype = type]
Initial(val, def) == [def EXCEPT !.initial = val]
When(f, val, def)  == [def EXCEPT !.needs = @ \cup {(f :> val)}]
OptFlag(val)    == [Checkbox EXCEPT !.optional = TRUE, !.initial = val]
Flag(val)       == [Checkbox EXCEPT !.initial = val]
Lazy(def)       == [def EXCEPT !.lazy = TRUE]
Optional(def)   == [def EXCEPT !.optional = TRUE]
Owned(own, def) == [def EXCEPT !.own = own]
Yes == Bool(TRUE)
No  == Bool(FALSE)

\* A field is named like its option unless it says otherwise.
Form(fields) ==
    [fields |-> Made([f \in DOMAIN fields |-> [fields[f] EXCEPT !.option = IF @ = "" THEN f ELSE @]]),
     addremove |-> FALSE, sortable |-> FALSE, preset |-> <<>>, given |-> <<>>, rows |-> {"r1"}]
Table(fields) == [Form(fields) EXCEPT !.addremove = TRUE]
Sorted(fields) == [Table(fields) EXCEPT !.sortable = TRUE]

(***************************************************************************)
(* What the protocols put into the form of an interface.                   *)
(***************************************************************************)
DefaultRoute == OptFlag(Yes)
PeerDns      == OptFlag(Yes)
CustomDns    == When("peerdns", No, Dyn(ipaddr))
Ttl          == Opt(range(1, 255))

static ==
    [ipaddr |-> Typ(ip4addr),
     netmask |-> [Combo(<<"255.255.255.0", "255.255.0.0", "255.0.0.0">>) EXCEPT !.datatype = netmask4],
     broadcast |-> Opt(ip4addr), gateway |-> Opt(ip4addr), dns |-> Dyn(ipaddr),
     ip6assign |-> Optional([Combo(<<"", "64">>) EXCEPT !.datatype = range(1, 64)]),
     ip6hint |-> [Opt(string) EXCEPT !.needs = {("ip6assign" :> Str(n)) : n \in range(33, 64)}],
     ip6addr |-> When("ip6assign", No, Opt(ip6addr)), ip6gw |-> When("ip6assign", No, Opt(ip6addr)),
     ip6prefix |-> When("ip6assign", No, Opt(ip6addr))]

dhcp ==
    [hostname |-> Opt(hostname), broadcast |-> OptFlag(Undefined), defaultroute |-> DefaultRoute,
     peerdns |-> PeerDns, dns |-> CustomDns, clientid |-> Opt(string), vendorid |-> Opt(string)]

dhcpv6 ==
    [reqaddress |-> Initial(Str("try"), Select(<<"try", "force", "none">>)),
     reqprefix |-> Initial(Str("auto"), [Combo(<<"auto", "no", "48", "52", "56", "60", "64">>) EXCEPT
                        !.datatype = {"auto", "no"} \cup range(32, 64)]),
     ip6prefix |-> Opt(ip6addr), defaultroute |-> DefaultRoute, peerdns |-> PeerDns, dns |-> CustomDns,
     clientid |-> Opt(string)]

LcpEcho == {"_keepalive_failure", "_keepalive_interval"}
pppoe ==
    [username |-> Input, password |-> Optional(Password), ac |-> Opt(string), service |-> Opt(string),
     defaultroute |-> DefaultRoute, peerdns |-> PeerDns, dns |-> CustomDns,
     _keepalive_failure |-> [Opt(uinteger) EXCEPT !.own = "failure", !.option = "keepalive", !.with = LcpEcho],
     _keepalive_interval |-> [Opt(min(1)) EXCEPT !.own = "interval", !.option = "keepalive", !.with = LcpEcho],
     demand |-> Opt(uinteger)]

Dropped(def) == [def EXCEPT !.keep = FALSE]
sixinfour ==
    [ipaddr |-> Opt(ip4addr), peeraddr |-> Typ(ip4addr), ip6addr |-> Typ(cidr6), ip6prefix |-> Opt(cidr6),
     _update |-> [Checkbox EXCEPT !.own = "tunnel", !.option = "tunnelid"],
     tunnelid |-> When("_update", Yes, Dropped(Typ(uinteger))),
     username |-> When("_update", Yes, Dropped(Input)),
     password |-> When("_update", Yes, Dropped(Password)),
     defaultroute |-> DefaultRoute, ttl |-> Ttl]

sixrd ==
    [peeraddr |-> Typ(ip4addr), ipaddr |-> Opt(ip4addr), ip4prefixlen |-> Opt(range(0, 32)),
     ip6prefix |-> Typ(ip6addr), ip6prefixlen |-> Opt(range(0, 128)),
     defaultroute |-> DefaultRoute, ttl |-> Ttl]

\* The tunnel starts from the interface of the default route, if there is one.
dslite ==
    [peeraddr |-> Typ(ip6addr), ip6addr |-> Opt(ip6addr), tunlink |-> Initial(Str("wan"), Networks(FALSE)),
     defaultroute |-> DefaultRoute, ttl |-> Ttl]

sixtofour == [ipaddr |-> Opt(ip4addr), defaultroute |-> DefaultRoute, ttl |-> Ttl]

-----------------------------------------------------------------------------
(***************************************************************************)
(* The form of an interface.  Every field but the choice of the protocol   *)
(* is for the current one only; another one asks for the button.           *)
(***************************************************************************)
Virtual == {"none", "6in4", "6rd", "dslite", "6to4"}

Common(protocol) ==
    [auto |-> OptFlag(Yes), mtu |-> Opt(range(1, 9000)), metric |-> Opt(uinteger)]
    @@ IF protocol \in Virtual THEN <<>> ELSE
       [type |-> [OptFlag(Str("")) EXCEPT !.enabled = "bridge", !.disabled = ""],
        __iface_multi |-> When("type", Yes, Elsewhere), __iface_single |-> When("type", No, Elsewhere),
        macaddr |-> Opt(macaddr)]

\* depends('proto', protocol, true): every alternative asks for it as well.
OnlyFor(protocol, def) ==
    [def EXCEPT !.needs = IF def.needs = {} THEN {("proto" :> Str(protocol))}
                          ELSE {("proto" :> Str(protocol)) @@ alt : alt \in def.needs}]

InterfaceForm(protocol, others, fields) ==
    LET mine == fields @@ Common(protocol)
        all  == [f \in DOMAIN mine |-> OnlyFor(protocol, mine[f])]
                @@ ("proto" :> Initial(Str("none"), Select(<<protocol>> \o others)))
                @@ ("_confirm" :> [Button EXCEPT !.needs = {("proto" :> Str(p)) : p \in InSeq(others)}])
    IN  [Form(all) EXCEPT !.given = ("proto" :> Str(protocol)),
                          !.rows = IF protocol = "pppoe" THEN {"wan", "dmz"} ELSE {"wan"}]

Protocols ==
    ("static" :> static) @@ ("dhcp" :> dhcp) @@ ("dhcpv6" :> dhcpv6) @@ ("pppoe" :> pppoe)
    @@ ("6in4" :> sixinfour) @@ ("6rd" :> sixrd) @@ ("dslite" :> dslite) @@ ("6to4" :> sixtofour)

\* One other protocol stands for all of them.
Interface == [p \in DOMAIN Protocols |-> InterfaceForm(p, <<"none">>, Protocols[p])]
             @@ ("none" :> InterfaceForm("none", <<"static">>, <<>>))

-----------------------------------------------------------------------------
(***************************************************************************)
(* Firewall: the form of a zone, the defaults, the zones and the forwards. *)
(***************************************************************************)
Target     == Lazy(Select(<<"REJECT", "DROP", "ACCEPT">>))
ZoneName   == Typ(uciname \cap maxlength(11))
AnyFamily(def) == When("family", Str("ipv4"), When("family", No, def))
MasqHosts  == AnyFamily(Dyn(list(neg(uciname \cup hostname \cup ip4addr))))
ZoneOfList == Optional(Lazy(Select(<<"lan", "wan">>)))

ZoneForm == Form(
    [name |-> ZoneName, input |-> Target, output |-> Target, forward |-> Target,
     masq |-> Checkbox, mtu_fix |-> Checkbox, network |-> Networks(TRUE),
     family |-> Optional(Lazy(Select(<<"", "ipv4", "ipv6">>))),
     masq_src |-> MasqHosts, masq_dest |-> MasqHosts,
     conntrack |-> Checkbox, log |-> Flag(Yes), log_limit |-> When("log", Yes, Opt(string)),
     out |-> Elsewhere, in |-> Elsewhere])

Defaults == Form([syn_flood |-> Checkbox, drop_invalid |-> Checkbox,
                  input |-> Target, output |-> Target, forward |-> Target])

Zones == Table(
    [name |-> [ZoneName EXCEPT !.rule = "unique"],
     input |-> Initial(Str("ACCEPT"), Target), output |-> Initial(Str("ACCEPT"), Target),
     forward |-> Initial(Str("REJECT"), Target), masq |-> Checkbox, mtu_fix |-> Checkbox])

Redirects == Sorted(
    [name |-> ZoneName,
     proto |-> Initial(Str("tcp udp"), Lazy(Combo(<<"tcp udp", "tcp", "udp", "icmp">>))),
     extzone |-> ZoneOfList, intzone |-> ZoneOfList,
     extport |-> Typ(port), intaddr |-> Typ(ip4addr), intport |-> Typ(port)])

-----------------------------------------------------------------------------
(***************************************************************************)
(* Routes, names, wireless networks.                                       *)
(***************************************************************************)
Metric == Opt(range(0, 255))
Mtu    == Opt(range(64, 9000))
Routes4 == Sorted(
    [interface |-> Initial(Str(Interfaces[1]), Select(Interfaces)), target |-> Typ(ip4addr),
     netmask |-> Opt(netmask4), gateway |-> Opt(ip4addr), metric |-> Metric, mtu |-> Mtu])

\* The name of the function to call is lost, so that the first interface is shown always.
Routes6 == Sorted(
    [interface |-> Owned("blind", Select(Interfaces)), target |-> Typ(ip6addr),
     gateway |-> Opt(ip6addr), metric |-> Metric, mtu |-> Mtu])

Hostnames == Table([name |-> Typ(hostname), ip |-> Typ(ipaddr)])

Radio == Form(
    [disabled |-> Checkbox, _mode_freq |-> Elsewhere,
     txpower |-> Initial(Str("20"), Lazy(Select(<<"10", "20">>))),
     country |-> Initial(Str("00"), Lazy(Select(<<"00", "US">>))), distance |-> Opt(string)])

Point(def) == When("mode", Str("ap"), def)
WirelessNetworks ==
    [Table([disabled |-> Checkbox, ssid |-> Typ(maxlength(32)), mode |-> Select(<<"ap", "sta", "adhoc">>),
            bssid |-> When("mode", Str("adhoc"), When("mode", Str("sta"), Input)),
            network |-> Networks(FALSE), hidden |-> Point(Checkbox), wmm |-> Point(Flag(Yes)),
            encryption |-> Initial(Str("none"), Select(<<"none", "psk", "psk2", "psk-mixed">>)),
            key |-> When("encryption", Not("none"), [Password EXCEPT !.datatype = wpakey]),
            macfilter |-> Point(Optional(Lazy(Select(<<"", "allow", "deny">>)))),
            maclist |-> When("macfilter", Str("allow"), When("macfilter", Str("deny"), Dyn(macaddr)))])
     EXCEPT !.preset = [device |-> Str("radio0"), mode |-> Str("ap")]]

-----------------------------------------------------------------------------
(***************************************************************************)
(* The name and address server.                                            *)
(***************************************************************************)
Protected(def) == When("rebind_protection", Yes, def)
Server == Form(
    [domainneeded |-> Flag(Yes), authoritative |-> Flag(Yes), local |-> Input, domain |-> Input,
     logqueries |-> Checkbox, server |-> Dynamic, rebind_protection |-> Flag(Yes),
     rebind_localhost |-> Protected(Checkbox), rebind_domain |-> Protected(Dyn(host)),
     readethers |-> Checkbox, leasefile |-> Input, noresolv |-> Checkbox,
     resolvfile |-> When("noresolv", No, Opt(string)), nohosts |-> Checkbox, addnhosts |-> Dynamic,
     quietdhcp |-> Checkbox, sequential_ip |-> Checkbox, boguspriv |-> Checkbox,
     filterwin2k |-> Checkbox, localise_queries |-> Checkbox, expandhosts |-> Flag(Yes),
     nonegcache |-> Checkbox, strictorder |-> Checkbox, bogusnxdomain |-> Dynamic,
     port |-> Opt(port), queryport |-> Opt(port), dhcpleasemax |-> Opt(uinteger),
     ednspacket_max |-> Opt(uinteger), dnsforwardmax |-> Opt(uinteger)])

Pools == Form(
    [interface |-> Dummy, ignore |-> Checkbox, start |-> Opt(uinteger \cup ip4addr), limit |-> Opt(uinteger),
     leasetime |-> Opt(Like("lease time")), dynamicdhcp |-> Flag(Yes), force |-> Checkbox,
     netmask |-> Opt(ip4addr),
     __dns |-> [Dyn(ip4addr) EXCEPT !.own = "dns6", !.option = "dhcp_option"]])

\* The hosts that the router sees now; on a quiet network there is none.
Leases(macs, ips) == Table(
    [name |-> Opt(hostname), mac |-> [Combo(macs) EXCEPT !.datatype = macaddr],
     ip |-> [Combo(ips) EXCEPT !.datatype = ip4addr]])

-----------------------------------------------------------------------------
(***************************************************************************)
(* A switch whose VLANs have a number besides their identifier.            *)
(***************************************************************************)
Switch == Form(
    [enable_vlan |-> Checkbox, enable_learning |-> OptFlag(Yes),
     max_length |-> [OptFlag(Undefined) EXCEPT !.enabled = "3"]])

PortNames == {"0", "1"}
PortState(p, tagged) ==
    [Select(<<"n", "u", "t">>) EXCEPT !.own = "port", !.option = "ports", !.rule = "untagged once",
                                      !.enabled = tagged, !.disabled = p, !.with = PortNames]
Vlans ==
    [Table(("vid" :> [Typ(range(1, 4095)) EXCEPT !.own = "vid", !.rule = "all unique", !.with = PortNames])
           @@ ("0" :> PortState("0", "0t")) @@ ("1" :> PortState("1", "1t")))
     EXCEPT !.preset = [device |-> Str("switch0"), vlan |-> Str("1")]]
=============================================================================
