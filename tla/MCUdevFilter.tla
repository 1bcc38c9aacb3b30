---------------------------- MODULE MCUdevFilter ----------------------------
(***************************************************************************)
(* Instances of UdevFilter for TLC: an input device, a network interface   *)
(* and a device of no known subsystem, and an entry of each kind that the  *)
(* library's callers can add, matching some of them and not others.        *)
(***************************************************************************)
EXTENDS UdevFilter

mouse == [subsystem |-> "input", devtype |-> NoValue, sysname |-> "ums0",
          props |-> {<<"ID_INPUT", "1">>, <<"ID_INPUT_MOUSE", "1">>},
          sysattrs |-> {}]
wlan == [subsystem |-> "net", devtype |-> "wlan", sysname |-> "wlan0",
         props |-> {<<"INTERFACE", "wlan0">>},
         sysattrs |-> {<<"address", "mac">>, <<"ifindex", "1">>}]
stray == [subsystem |-> Unknown, devtype |-> NoValue, sysname |-> "ttyv0",
          props |-> {}, sysattrs |-> {}]

Entry(type, neg, expr, value) ==
    [type |-> type, neg |-> neg, expr |-> expr, value |-> value]

MCDevices == {mouse, wlan, stray}

MCEntries ==
    {Entry("SUBSYSTEM", FALSE, {"input"}, NoValue),
     Entry("SUBSYSTEM", FALSE, {"net"}, {"wlan"}),
     Entry("SUBSYSTEM", TRUE, {"net"}, NoValue),
     Entry("SYSNAME", FALSE, {"ums0", "ums1"}, NoValue),
     Entry("PROPERTY", FALSE, {"ID_INPUT"}, {"1"}),
     Entry("TAG", FALSE, {"seat"}, NoValue),
     Entry("SYSATTR", FALSE, {"ifindex"}, {"1"}),
     Entry("SYSATTR", TRUE, {"address"}, {"mac"})}
=============================================================================
