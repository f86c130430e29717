---------------------------- MODULE FormsSystem ----------------------------
(***************************************************************************)
(* The forms of the system pages and of the queue page, as FormsNetwork    *)
(* writes those of the network pages.                                      *)
(***************************************************************************)
EXTENDS FormsNetwork

(***************************************************************************)
(* General settings.  The levels of the log start as numbers, and what a   *)
(* select holds is a text.  The language and the theme are in a package of *)
(* their own.                                                              *)
(***************************************************************************)
System ==
    [Form([__time |-> Owned("elsewhere", Dummy), hostname |-> Typ(hostname),
           zonename |-> Owned("zone", Initial(Str("UTC"), Lazy(Select(<<"UTC", "Berlin">>)))),
           log_size |-> Opt(range(0, 128)), log_ip |-> Opt(ip4addr), log_port |-> Opt(port),
           conloglevel |-> Initial(Num("7"), Select(<<"8", "7", "6", "5", "4", "3", "2", "1">>)),
           cronloglevel |-> Initial(Num("5"), Select(<<"5", "8", "9">>)),
           languages |-> [Initial(Str("auto"), Lazy(Select(<<"auto", "de">>))) EXCEPT !.option = "lang"],
           themes |-> [Lazy(Select(<<"plain", "sidenav">>)) EXCEPT !.option = "theme"]])
     EXCEPT !.preset = [timezone |-> Str("UTC")]]

\* The box starts and stops the service; it is set when the service is.
Ntp == Form((".enable" :> Owned("none", OptFlag(Yes)))
            @@ [enable_server |-> When(".enable", Yes, Checkbox), server |-> When(".enable", Yes, Dyn(host))])

Triggers == <<"none", "timer", "netdev", "usbdev">>
TriggerDevice(trigger, devices, other) ==
    When("trigger", Str(trigger), [Optional(Select(devices)) EXCEPT !.option = "dev", !.with = {other}])
Leds == Table(
    [name |-> Input, sysfs |-> Optional(Select(<<"led0", "led1">>)),
     default |-> Initial(Str("0"), Select(<<"0", "1">>)), trigger |-> Optional(Select(Triggers)),
     delayon |-> When("trigger", Str("timer"), Typ(uinteger)),
     delayoff |-> When("trigger", Str("timer"), Typ(uinteger)),
     _net_dev |-> TriggerDevice("netdev", <<"eth0">>, "_usb_dev"),
     mode |-> When("trigger", Str("netdev"), Multi(<<"link", "tx", "rx">>)),
     _usb_dev |-> TriggerDevice("usbdev", <<"usb1">>, "_net_dev")])

(***************************************************************************)
(* Access: the administrator's password, the remote shell, the accounts.   *)
(***************************************************************************)
AdminPassword == Form(
    [pass1 |-> Owned("none", Optional(Password)),
     pass2 |-> [Owned("none", Optional(Password)) EXCEPT !.rule = "as pass1", !.with = {"pass1"}]])

OnOff(val) == [Flag(val) EXCEPT !.enabled = "on", !.disabled = "off"]
Shell == Table(
    [Interface |-> Networks(FALSE), Port |-> Opt(port), PasswordAuth |-> OnOff(Yes),
     RootPasswordAuth |-> OnOff(Yes), GatewayPorts |-> OnOff(No)])

Accounts == Table(
    [username |-> Input,
     __shadow |-> [Checkbox EXCEPT !.own = "shadow", !.option = "password", !.with = {"password"}],
     password |-> Owned("password", When("__shadow", No, Password)),
     __acls |-> Elsewhere])

(***************************************************************************)
(* Queue management.                                                       *)
(***************************************************************************)
Advanced(def) == When("qdisc_advanced", Yes, def)
Expert(def)   == When("qdisc_really_really_advanced", Yes, def)
Linked(def)   == When("linklayer", Str("ethernet"), When("linklayer", Str("atm"), def))
Linked2(def)  == When("linklayer_advanced", Yes, def)
Kbits         == Typ(uinteger \cap min(0))
Queue == Table(
    [enabled |-> Owned("none", Checkbox), interface |-> Initial(Str("eth0"), Lazy(Select(<<"eth0", "eth1">>))),
     download |-> Kbits, upload |-> Kbits, debug_logging |-> OptFlag(Undefined),
     verbosity |-> Initial(Str("5"), Lazy(Select(<<"0", "1", "2", "5", "8", "10">>))),
     qdisc |-> Initial(Str("fq_codel"), Lazy(Select(<<"fq_codel", "cake">>))),
     script |-> Initial(Str("simple.qos"), Lazy(Select(<<"simple.qos", "layer.qos">>))),
     qdisc_advanced |-> Flag(No),
     squash_dscp |-> Advanced(Initial(Str("1"), Select(<<"1", "0">>))),
     squash_ingress |-> Advanced(Initial(Str("1"), Select(<<"1", "0">>))),
     ingress_ecn |-> Advanced(Initial(Str("ECN"), Select(<<"ECN", "NOECN">>))),
     qdisc_really_really_advanced |-> Advanced(Flag(No)),
     ilimit |-> Expert(Kbits), elimit |-> Expert(Kbits), itarget |-> Expert(Input), etarget |-> Expert(Input),
     iqdisc_opts |-> Expert(Input), eqdisc_opts |-> Expert(Input),
     linklayer |-> Initial(Str("none"), Select(<<"none", "ethernet", "atm">>)),
     overhead |-> Linked(Initial(Num("0"), Typ(min(-1500)))), linklayer_advanced |-> Linked(Checkbox),
     tcMTU |-> Linked2(Initial(Num("2047"), Kbits)), tcTSIZE |-> Linked2(Initial(Num("128"), Kbits)),
     tcMPU |-> Linked2(Initial(Num("0"), Kbits)),
     linklayer_adaptation_mechanism |->
        Linked2(Initial(Str("tc_stab"), Select(<<"cake", "htb_private", "tc_stab">>)))])
=============================================================================
