--------------------------- MODULE ConfigGenerator ---------------------------
(***************************************************************************)
(* The running configuration made up for a device:                         *)
(* src/src/configuration/config-generator.ts.  A text is a sequence of     *)
(* lines, a line its fixed words and the data put into it.  The lines with *)
(* the date, among the first ones of every format, come first, and a       *)
(* section without data is one line.                                       *)
(*                                                                         *)
(* A device: name, ip, the brands its vendor string contains, whether its  *)
(* role contains "router" or is "wlc".  An interface: its name as the      *)
(* parts a replacement can tell apart, description, whether its speed is   *)
(* "10G", vlan and status; "" stands for null.                             *)
(***************************************************************************)
EXTENDS Integers, Sequences, SequencesExt

Line(words, data) == [words |-> words, data |-> data]
Plain(words)      == <<Line(words, <<>>)>>
Lines(ifs, Block(_)) == FlattenSeq([k \in DOMAIN ifs |-> Block(ifs[k])])

\* toLowerCase and replace, which replaces the first occurrence.
Lower(part)  == CASE part = "Te" -> "te" [] part = "Gi" -> "gi" [] OTHER -> part
Lowered(n)   == [k \in DOMAIN n |-> Lower(n[k])]
First(n, part, by) ==
  LET at == {k \in DOMAIN n : n[k] = part}
  IN [k \in DOMAIN n |-> IF k \in at /\ \A j \in at : k <= j THEN by ELSE n[k]]

\* join(" "), after the word before it and a space.
Joined(names) == FlattenSeq([k \in DOMAIN names |-> <<" ">> \o names[k]])

-----------------------------------------------------------------------------
(* Cisco IOS-XE *)

CiscoMode(i) ==
  CASE i.vlan = "trunk"   -> Plain("switchport mode trunk")
    [] i.vlan = "wan-100" -> Plain("no switchport") \o Plain("ip address dhcp")
    [] i.vlan = ""        -> Plain("switchport mode access")
    [] OTHER -> <<Line("switchport access vlan", <<i.vlan>>)>> \o Plain("switchport mode access")

Described(i) == IF i.desc = "" THEN "no description" ELSE i.desc

CiscoBlock(i) ==
  <<Line("interface", i.name), Line("description", <<Described(i)>>)>>
  \o CiscoMode(i)
  \o Plain(IF i.status = "down" THEN "shutdown" ELSE "no shutdown")
  \o (IF i.fast THEN Plain("speed 10000") \o Plain("duplex full") ELSE <<>>)

CiscoConfig(d, ifs) ==
  <<Line("hostname", <<d.name>>)>>
  \o (IF d.router THEN Plain("router bgp 65000") ELSE <<>>)
  \o (IF d.wlc THEN Plain("wireless management interface Vlan50") ELSE <<>>)
  \o Lines(ifs, CiscoBlock)
  \o Plain("ip access-list extended ACL-MGMT")
  \o <<Line("snmp-server location", <<d.name, d.ip>>)>>

-----------------------------------------------------------------------------
(* Juniper JunOS *)

JunosNameAlike(n) ==   \* variant: one prefix for both speeds
  First(First(Lowered(n), "te", "ge-0/0/"), "gi", "ge-0/0/")
JunosName(n) == First(First(Lowered(n), "te", "et-0/0/"), "gi", "ge-0/0/")

JunosUnit(i) ==
  CASE i.vlan = "trunk" -> Plain("interface-mode trunk")
    [] i.vlan = ""      -> Plain("family inet address dhcp")
    [] OTHER            -> <<Line("interface-mode access; vlan members", <<i.vlan>>)>>

JunosBlock(i) ==
  <<Line("interface", JunosName(i.name)), Line("description", <<i.desc>>)>>
  \o Plain(IF i.fast THEN "speed 10g" ELSE "speed 1g")
  \o JunosUnit(i)
  \o (IF i.status = "down" THEN Plain("disable") ELSE <<>>)

JuniperConfig(d, ifs) ==
  <<Line("host-name", <<d.name>>)>> \o Lines(ifs, JunosBlock)
  \o <<Line("lo0 address", <<d.ip>>), Line("group IBGP-CORE local-address", <<d.ip>>),
       Line("snmp location", <<d.name, d.ip>>)>>

-----------------------------------------------------------------------------
(* Arista EOS *)

AristaModeBare(i) ==   \* variant: a missing VLAN is an access port without one
  IF i.vlan = "trunk" THEN Plain("switchport mode trunk") ELSE Plain("switchport mode access")

AristaMode(i) ==
  CASE i.vlan = "trunk" -> Plain("switchport mode trunk")
    [] i.vlan = ""      -> Plain("no switchport")
    [] OTHER            -> <<Line("switchport access vlan", <<i.vlan>>)>>

AristaBlock(i) ==
  <<Line("interface", i.name), Line("description", <<i.desc>>)>>
  \o AristaMode(i) \o (IF i.status = "down" THEN Plain("shutdown") ELSE <<>>)

AristaConfig(d, ifs) ==
  <<Line("hostname", <<d.name>>)>> \o Lines(ifs, AristaBlock)
  \o <<Line("router ospf router-id", <<d.ip>>), Line("router bgp router-id", <<d.ip>>),
       Line("snmp-server location", <<d.name, d.ip>>)>>

-----------------------------------------------------------------------------
(* Palo Alto PAN-OS *)

Wan(i) == i.vlan = "wan-100"
LanIfUp(i) == i.status = "up"   \* variant: TRUST takes what is up, WAN or not
Lan(i) == i.status = "up" /\ ~Wan(i)

\* ifaces.filter(Test).map(i => i.name)
NamesOf(ifs, Test(_)) ==
  FlattenSeq([k \in DOMAIN ifs |-> IF Test(ifs[k]) THEN <<ifs[k].name>> ELSE <<>>])

\* names.join(" ") || made-up ones: nothing, or one empty name, is joined to "".
OrElse(names, made) == IF names \in {<<>>, <<<<>>>>} THEN made ELSE names

Untrust(ifs) == OrElse(NamesOf(ifs, Wan), <<<<"ethernet", "1/1">>>>)
Trust(ifs)   == OrElse(NamesOf(ifs, Lan), <<<<"ethernet", "1/2">>, <<"ethernet", "1/3">>>>)

PanosBlock(d, i) ==
  <<Line("interface", Lowered(i.name)), Line("layer3 ip", <<d.ip>>),
    Line("comment", <<i.desc>>)>>

PanosConfig(d, ifs) ==
  <<Line("hostname", <<d.name>>), Line("ip-address", <<d.ip>>),
    Line("zone UNTRUST", Joined(Untrust(ifs))), Line("zone TRUST", Joined(Trust(ifs)))>>
  \o Lines(ifs, LAMBDA i : PanosBlock(d, i))
  \o Plain("security rules ALLOW-OUTBOUND from TRUST to UNTRUST")

-----------------------------------------------------------------------------
(* Nokia SR OS: a port is named k/1/k by the position of its interface. *)

NokiaPort(ifs, k) ==
  <<Line("interface", <<k, k>>),
    Line("description", <<ifs[k].desc>>)>>
  \o Plain(IF ifs[k].status = "down" THEN "admin-state disable" ELSE "admin-state enable")
  \o Plain(IF ifs[k].vlan = "trunk" THEN "mode hybrid" ELSE "mode access")
  \o Plain(IF ifs[k].fast THEN "speed auto" ELSE "speed 1000")

NokiaConfig(d, ifs) ==
  <<Line("name", <<d.name>>)>>
  \o FlattenSeq([k \in DOMAIN ifs |-> NokiaPort(ifs, k)])
  \o <<Line("router-id", <<d.ip>>), Line("vprn address", <<d.ip>>)>>

-----------------------------------------------------------------------------
(* Any other vendor, and the choice of the format. *)

GenericBlock(i) == <<Line("interface", i.name), Line("", <<i.desc, i.status, i.vlan>>)>>

GenericConfig(d, ifs) ==
  <<Line("hostname", <<d.name>>), Line("IP", <<d.ip>>)>> \o Lines(ifs, GenericBlock)

\* The vendor string is searched for the brands in this order.
Brands == <<"cisco", "juniper", "arista", "palo", "nokia">>
Brand(d) == LET found == {k \in DOMAIN Brands : Brands[k] \in d.vendor}
            IN IF found = {} THEN "generic" ELSE Brands[CHOOSE k \in found : \A j \in found : k <= j]

\* What stands below the date.
Body(d, ifs) ==
  CASE Brand(d) = "cisco"   -> CiscoConfig(d, ifs)
    [] Brand(d) = "juniper" -> JuniperConfig(d, ifs)
    [] Brand(d) = "arista"  -> AristaConfig(d, ifs)
    [] Brand(d) = "palo"    -> PanosConfig(d, ifs)
    [] Brand(d) = "nokia"   -> NokiaConfig(d, ifs)
    [] OTHER                -> GenericConfig(d, ifs)

\* ts() is the time of the call, cut at the second.  Cisco's format calls it twice.
Stamp(d, now) ==
  IF Brand(d) = "cisco"
  THEN <<Line("last configuration change", <<now[1]>>), Line("NVRAM config last updated", <<now[2]>>)>>
  ELSE <<Line("last changed", <<now[1]>>)>>

GenerateRunningConfig(d, ifs, now) == Stamp(d, now) \o Body(d, ifs)

=============================================================================
