-------------------------- MODULE SubsystemTable --------------------------
(***************************************************************************)
(* The table of subsystems (src/udev-utils.c), which says of a device path *)
(* what subsystem it belongs to, and that a path is of no interest.        *)
(*                                                                         *)
(* A pattern is the directory it is about and the family of names in it:   *)
(* "/dev/ums[0-9]*" is the family "ums" in "dev"; "*" is every name.  The  *)
(* first element that matches counts.  The element without a pattern, for  *)
(* which fnmatch(3) is called with a null pointer, is modelled as matching *)
(* nothing; the other outcome is the end of the process.                   *)
(***************************************************************************)
EXTENDS Integers, Sequences, FiniteSetsExt

CONSTANTS Unknown   \* UNKNOWN_SUBSYSTEM

Element(root, family, subsystem, skip) ==
    [root |-> root, family |-> family, subsystem |-> subsystem,
     devtype |-> "", skip |-> skip]

(* With SCFLAG_SKIP_IF_EVDEV, and without.                                 *)
Legacy(family) == Element("dev", family, "input", TRUE)
Input(family) == Element("dev", family, "input", FALSE)

Table == <<
    Input("event"),
    Legacy("ukbd"), Legacy("atkbd"), Legacy("kbdmux"),
    Legacy("ums"), Legacy("psm"),
    Input("joy"), Input("atp"), Input("wsp"), Input("uep"),
    Legacy("sysmouse"),
    Input("vboxguest"),
    Element("dev", "card", "drm", FALSE),
    [Element("net", "wlan", "net", FALSE) EXCEPT !.devtype = "wlan"],
    Element("net", "*", "net", FALSE),
    Element("", "", "", FALSE),
    Element("dev", "hidraw", "hidraw", FALSE),
    Element("pci", "*", "pci", FALSE) >>

(* get_subsystem_config_by_syspath.                                        *)
Matching(root, family) ==
    {i \in DOMAIN Table : /\ Table[i].root = root
                          /\ Table[i].family \in {family, "*"}}
Known(root, family) == Matching(root, family) # {}
Config(root, family) == Table[Min(Matching(root, family))]
=============================================================================
