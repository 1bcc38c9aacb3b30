----------------------------- MODULE Providers -----------------------------
(***************************************************************************)
(* The four providers of devices (src/udev-dev.c, src/udev-sys.c,          *)
(* src/udev-pci.c, src/udev-net.c): the path each shows of a device when   *)
(* it enumerates, and the path and the action each reads from a message of *)
(* devd, of which the first that understands the message counts.           *)
(*                                                                         *)
(* A message is its first character, the first word after it, and a        *)
(* sequence of properties, "key=value".  Values are words of the kernel,   *)
(* or names of devices, of which the model knows the length and which      *)
(* property names are part of them.  How a provider writes a name down, as *)
(* udev-pci.c does a place on the bus, is the same in both of its parts.   *)
(***************************************************************************)
EXTENDS Integers, Sequences, FiniteSetsExt

CONSTANTS
    Names,    \* the names of devices, their places on the PCI bus included
    Length,   \* how many bytes each takes
    Holds,    \* the names of properties that are found within each
    NoName,   \* a null pointer: no name, no value, no place
    DevInfo   \* the library is built with devinfo(3)

(* What is left for a name behind "/dev/": in the buffer of the scan,      *)
(* in that of a message, each with a terminating zero; and the length of a *)
(* network interface's name.                                               *)
DevPathMax == 80
DevRootLength == 5
ScanRoom == DevPathMax - DevRootLength - 1
DevRoom == DevPathMax - DevRootLength - 1
NetRoom == 15

ASSUME ProvidersAssumption ==
    /\ NoName \notin Names /\ DevInfo \in BOOLEAN
    /\ \A n \in Names : Length[n] \in Nat

(* A device of the machine: a node in /dev, a device of the bus hierarchy, *)
(* with or without a place on the PCI bus, or a network interface.         *)
Device == [bus : {"cdev", "newbus", "ifnet"}, name : Names,
           dbsf : Names \cup {NoName}]

Path(root, name) == [root |-> root, name |-> name]
Nothing == [action |-> "none", path |-> NoName]
Told(action, root, name) == [action |-> action, path |-> Path(root, name)]

-----------------------------------------------------------------------------
(* Enumeration.                                                            *)

DevEnumerate(d) ==
    IF d.bus = "cdev" /\ Length[d.name] <= ScanRoom
    THEN {Path("dev", d.name)} ELSE {}
SysEnumerate(d) ==
    IF DevInfo /\ d.bus = "newbus" THEN {Path("sys", d.name)} ELSE {}
PciEnumerate(d) ==
    IF DevInfo /\ d.bus = "newbus" /\ d.dbsf # NoName
    THEN {Path("pci", d.dbsf)} ELSE {}
NetEnumerate(d) ==
    IF d.bus = "ifnet" THEN {Path("net", d.name)} ELSE {}

(* What the n-th of the four shows, in the order in which they are asked.  *)
Enumerate(n, d) ==
    CASE n = 1 -> DevEnumerate(d)
      [] n = 2 -> SysEnumerate(d)
      [] n = 3 -> PciEnumerate(d)
      [] n = 4 -> NetEnumerate(d)
ShownOf(d) == UNION {Enumerate(n, d) : n \in 1..4}

-----------------------------------------------------------------------------
(* Messages.                                                               *)

(* The names of properties strstr(3) finds in a "key=value".               *)
Found(prop) ==
    {prop.key} \cup (IF prop.key = "subsystem" THEN {"system"} ELSE {})
               \cup (IF prop.value \in Names THEN Holds[prop.value] ELSE {})

(* Only the first place where the name is found is looked at, and it has   *)
(* to be a property there.                                                 *)
GetKernPropValue(m, key) ==
    LET places == {i \in DOMAIN m.props : key \in Found(m.props[i])}
        first == m.props[Min(places)]
    IN IF places # {} /\ first.key = key THEN first.value ELSE NoName

MatchKernPropValue(m, key, value) == GetKernPropValue(m, key) = value

(* Refuted by PictureIsExact: "DESTROY" is compared with its first six     *)
(* bytes and never found.                                                  *)
DevMonitorAddsOnly(m) ==
    LET type == GetKernPropValue(m, "type")
        cdev == GetKernPropValue(m, "cdev")
    IN IF /\ m.event = "!"
          /\ \/ MatchKernPropValue(m, "system", "DRM")
             \/ /\ MatchKernPropValue(m, "system", "DEVFS")
                /\ MatchKernPropValue(m, "subsystem", "CDEV")
          /\ type \in {"CREATE", "HOTPLUG"}
          /\ cdev # NoName /\ Length[cdev] <= DevRoom
       THEN Told(IF type = "CREATE" THEN "add" ELSE "change", "dev", cdev)
       ELSE Nothing

DevMonitor(m) ==
    LET type == GetKernPropValue(m, "type")
        cdev == GetKernPropValue(m, "cdev")
    IN IF /\ m.event = "!"
          /\ \/ MatchKernPropValue(m, "system", "DRM")
             \/ /\ MatchKernPropValue(m, "system", "DEVFS")
                /\ MatchKernPropValue(m, "subsystem", "CDEV")
          /\ type \in {"CREATE", "DESTROY", "HOTPLUG"}
          /\ cdev # NoName /\ Length[cdev] <= DevRoom
       THEN Told(CASE type = "CREATE" -> "add"
                    [] type = "DESTROY" -> "remove"
                    [] type = "HOTPLUG" -> "change", "dev", cdev)
       ELSE Nothing

(* An attach or a detach, whatever it is of.                               *)
Arrival(m) == IF m.event = "+" THEN "add" ELSE "remove"
SysMonitor(m) ==
    IF DevInfo /\ m.event \in {"+", "-"}
    THEN Told(Arrival(m), "sys", m.word) ELSE Nothing

PciMonitor(m) ==
    LET dbsf == GetKernPropValue(m, "dbsf")
    IN IF DevInfo /\ m.event \in {"+", "-"} /\ dbsf # NoName
       THEN Told(Arrival(m), "pci", dbsf) ELSE Nothing

NetMonitor(m) ==
    LET type == GetKernPropValue(m, "type")
        name == GetKernPropValue(m, "subsystem")
    IN IF /\ m.event = "!"
          /\ MatchKernPropValue(m, "system", "IFNET")
          /\ type \in {"ATTACH", "DETACH"}
          /\ name # NoName /\ Length[name] <= NetRoom
       THEN Told(IF type = "ATTACH" THEN "add" ELSE "remove", "net", name)
       ELSE Nothing

(* parse_devd_message: pci is asked about what sys has not understood, and *)
(* so never finds anything.                                                *)
ParseDevdMessage(m) ==
    LET answers == <<DevMonitor(m), SysMonitor(m), PciMonitor(m), NetMonitor(m)>>
        some == {i \in 1..4 : answers[i] # Nothing}
    IN IF some = {} THEN Nothing ELSE answers[Min(some)]

-----------------------------------------------------------------------------
(* What devd says of a device, in the order in which the kernel writes it. *)

Prop(key, value) == [key |-> key, value |-> value]
Message(event, word, props) == [event |-> event, word |-> word, props |-> props]

Notice(d, arrives) ==
    CASE d.bus = "cdev" ->
           Message("!", NoName,
                   << Prop("system", "DEVFS"), Prop("subsystem", "CDEV"),
                      Prop("type", IF arrives THEN "CREATE" ELSE "DESTROY"),
                      Prop("cdev", d.name) >>)
      [] d.bus = "newbus" ->
           Message(IF arrives THEN "+" ELSE "-", d.name,
                   IF d.dbsf = NoName THEN <<>> ELSE << Prop("dbsf", d.dbsf) >>)
      [] d.bus = "ifnet" ->
           Message("!", NoName,
                   << Prop("system", "IFNET"), Prop("subsystem", d.name),
                      Prop("type", IF arrives THEN "ATTACH" ELSE "DETACH") >>)
HotplugNotice(d) ==
    Message("!", NoName,
            << Prop("system", "DRM"), Prop("subsystem", "CONNECTOR"),
               Prop("type", "HOTPLUG"), Prop("cdev", d.name) >>)
=============================================================================
