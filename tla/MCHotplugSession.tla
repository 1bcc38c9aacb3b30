------------------------- MODULE MCHotplugSession -------------------------
(***************************************************************************)
(* Instances of HotplugSession for TLC: a graphics card whose name just    *)
(* fits, a joystick whose name is one byte too long, a network interface,  *)
(* one whose name holds that of a property, and a device of the PCI bus;   *)
(* or a mouse and a network interface.                                     *)
(***************************************************************************)
EXTENDS HotplugSession, TLC

MCNames == {"mouse", "stick", "card", "wlan", "type", "isab", "0:31:0"}
MCLength == [n \in MCNames |-> CASE n = "card" -> 74 [] n = "stick" -> 75
                                 [] OTHER -> 8]
MCHolds == [n \in MCNames |-> IF n = "type" THEN {"type"} ELSE {}]
MCFamily == [n \in MCNames |-> CASE n = "mouse" -> "ums" [] n = "stick" -> "joy"
                                 [] n \in {"card", "wlan"} -> n [] OTHER -> "other"]

Node(bus, name, dbsf) == [bus |-> bus, name |-> name, dbsf |-> dbsf]
mouse == Node("cdev", "mouse", NoName)
stick == Node("cdev", "stick", NoName)
card == Node("cdev", "card", NoName)
wlan == Node("ifnet", "wlan", NoName)
typed == Node("ifnet", "type", NoName)
isab == Node("newbus", "isab", "0:31:0")

MCDevices == {stick, card, wlan, typed, isab}
TwoDevices == {mouse, wlan}
MCInterests == {"input", "drm", "net", "pci"}
=============================================================================
