----------------------------- MODULE MCCbiForm -----------------------------
\* The forms of all pages, with few texts of every sort for the router to hold
\* and the user to type.
EXTENDS CbiForm, FormsSystem

NumberOf ==
    ("-1" :> -1) @@ ("0" :> 0) @@ ("1" :> 1) @@ ("2" :> 2) @@ ("3" :> 3) @@ ("4" :> 4) @@ ("5" :> 5)
    @@ ("6" :> 6) @@ ("7" :> 7) @@ ("8" :> 8) @@ ("9" :> 9) @@ ("10" :> 10) @@ ("20" :> 20) @@ ("48" :> 48)
    @@ ("52" :> 52) @@ ("56" :> 56) @@ ("60" :> 60) @@ ("64" :> 64) @@ ("128" :> 128) @@ ("2047" :> 2047)
    @@ ("9001" :> 9001) @@ ("70000" :> 70000)
Numerals == {"-1", "0", "1", "2", "3", "4", "5", "6", "7", "8", "9", "10", "20", "48", "52", "56", "60",
    "64", "128", "2047", "9001", "70000"}
Names == {"none", "static", "dhcp", "dhcpv6", "pppoe", "6in4", "6rd", "dslite", "6to4", "lan", "wan", "dmz",
    "try", "force", "auto", "no", "bridge", "REJECT", "DROP", "ACCEPT", "ipv4", "ipv6", "tcp udp", "tcp", "udp",
    "icmp", "00", "US", "ap", "sta", "adhoc", "psk", "psk2", "psk-mixed", "allow", "deny", "n", "u", "t",
    "UTC", "Berlin", "de", "plain", "sidenav", "led0", "led1", "timer", "netdev", "usbdev", "eth0", "eth1",
    "usb1", "link", "tx", "rx", "on", "off", "fq_codel", "cake", "simple.qos", "layer.qos", "ECN", "NOECN",
    "ethernet", "atm", "htb_private", "tc_stab", "radio0", "switch0", "0t", "1t", "unknown", "long_zone_name",
    "link rx", "lan wan"}
Others == {"10.0.0.1", "255.255.255.0", "255.255.0.0", "255.0.0.0", "fe80::1", "2001:db8::/32", "12h",
    "00:11:22:33:44:55", "host-1.lan", "$p$user", "$1$new", "$1$old", "!10.0.0.1", "several",
    "odd, and too long", Blank, ""}

MCLike(p) ==
    CASE p \in {"integer", "hexadecimal", "phone digits"} -> Numerals
      [] p = "float" -> Numerals \cup {"10.0.0.1", "255.255.255.0", "255.255.0.0", "255.0.0.0",
                                       "2001:db8::/32", "00:11:22:33:44:55", "12h"}
      [] p \in {"letters and digits", "letters, digits and _"} -> Numerals \cup Names \cup {"12h"}
      [] p = "ip4"         -> {"10.0.0.1", "255.255.255.0", "255.255.0.0", "255.0.0.0"}
      [] p = "mask"        -> {"255.255.255.0", "255.255.0.0", "255.0.0.0"}
      [] p = "ip6"         -> {"fe80::1"}
      [] p = "ip6/n"       -> {"2001:db8::/32"}
      [] p = "mac"         -> {"00:11:22:33:44:55"}
      [] p = "dotted name" -> {"host-1.lan"}
      [] p = "lease time"  -> {"12h"}
      [] p = "hash"        -> {"$p$user", "$1$new", "$1$old"}
      [] p = "system account" -> {"$p$user"}
      [] OTHER             -> {}

Length(t) == CASE t = "" -> 0 [] t = Blank -> 1 [] t = "odd, and too long" -> 70 [] t = "long_zone_name" -> 14 [] OTHER -> 8
MCShape ==
    [t \in Numerals \cup Names \cup Others |->
        [num    |-> IF t \in Numerals THEN NumberOf[t] ELSE 0,
         len    |-> Length(t),
         tokens |-> CASE t \in {"", Blank} -> <<>> [] t = "link rx" -> <<"link", "rx">> [] t = "lan wan" -> <<"lan", "wan">>
                      [] OTHER -> <<t>>,
         bare   |-> IF t = "!10.0.0.1" THEN "10.0.0.1" ELSE t]]

MCForms ==
    {Interface[p] : p \in DOMAIN Interface}
    \cup {ZoneForm, Defaults, Zones, Redirects, Routes4, Routes6, Hostnames, Radio, WirelessNetworks,
          Server, Pools, Leases(<<"00:11:22:33:44:55">>, <<"10.0.0.1">>), Leases(<<>>, <<>>),
          Switch, Vlans, System, Ntp, Leds, AdminPassword, Shell, Accounts, Queue}

\* A text that the datatype accepts, and one that most refuse.
Good(type) == CHOOSE t \in type : t \notin {"", Blank, "odd, and too long"}
Wrong      == "odd, and too long"

MCTyped(def) == {"", Good(def.datatype), Wrong}

Texts2(ts) == [is |-> "string", v |-> ts]
Final(ts)  == IF ts = <<>> THEN {} ELSE {Str(ts[Len(ts)])}
MCHeld(def) ==
    LET good == Good(def.datatype) IN
    {Undefined} \cup
    CASE def.own = "dns6"                    -> {List(<<"6", "10.0.0.1">>), List(<<"3">>)}
      [] def.own \in {"failure", "interval"} -> {Str("3"), Texts2(<<"3", "10">>)}
      [] def.own \in {"shadow", "password"}  -> {Str("$p$user"), Str("$1$old"), Str("unknown")}
      [] def.own = "port"                    -> {Texts2(<<"0", "1t">>), Texts2(<<"0t">>)}
      [] OTHER ->
         CASE def.kind = "checkbox" -> {Str(IF def.initial = Bool(TRUE) THEN def.disabled ELSE def.enabled)}
           [] def.kind = "list"     -> Final(def.choices) \cup {Str("unknown")}
           [] def.kind = "multi"    -> {Str("link rx"), List(<<"tx", "unknown">>)}
           [] def.kind = "network"  -> {Str("lan"), Str("lan wan"), List(<<"lan", "dmz">>)}
           [] def.kind = "dynamic"  -> {Str(good), List(<<good, Wrong>>)}
           [] def.kind \in {"dummy", "button"} -> {}
           [] OTHER                 -> {Str(good), List(<<good, good>>)}

MCInterfaces == <<"lan", "wan">>
MCRowNames   == <<"r1", "r2", "r3">>
MCVlanIds    == <<"1", "2">>
=============================================================================
