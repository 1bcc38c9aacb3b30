----------------------------- MODULE ListOwners -----------------------------
(***************************************************************************)
(* The owners of a list, one after the other: an enumerator, or a device,  *)
(* whose four lists (src/udev-device.c) its create handler fills before    *)
(* the application has it.  From then on the only change of a device's     *)
(* list is udev_device_set_sysattr_value, which does not touch an entry    *)
(* that is there: the application may set an attribute in the middle of an *)
(* iteration, also the one it is at.                                       *)
(***************************************************************************)
EXTENDS UdevEnumerate

VARIABLES
    owner   \* of the list: none, an enumerator, a device that is being made,
            \* or one the application has

vars == <<listVars, scan, owner>>

Init == ListInit /\ ScanInit /\ owner = "none"

(* udev_enumerate_new, udev_device_new_common.                             *)
NewOwner ==
    /\ Idle /\ owner = "none"
    /\ owner' \in {"enumerate", "making"}
    /\ UNCHANGED <<listVars, scan>>

(* A create handler notes a property or an attribute of the device.        *)
Describe(n) ==
    /\ owner = "making" /\ Idle
    /\ ListInsert(n)
    /\ UNCHANGED <<scan, owner>>

HandOut ==
    /\ owner = "making" /\ Idle
    /\ owner' = "device"
    /\ UNCHANGED <<listVars, scan>>

(* Refuted by IterationComplete: an attribute that is there is replaced.   *)
SetSysattrAnyway(n) ==
    /\ owner = "device" /\ Idle
    /\ ListInsert(n)
    /\ UNCHANGED <<scan, owner>>

SetSysattrValue(n) ==
    /\ owner = "device" /\ Idle
    /\ ScanFrom(First(tree), n) = Null
    /\ ListInsert(n)
    /\ UNCHANGED <<scan, owner>>

(* The last reference to the owner is given back.                          *)
Unref ==
    /\ owner \in {"enumerate", "device"} /\ Idle /\ at = 0 /\ cursor = Null
    /\ ListFree
    /\ ret' = 1 /\ owner' = "none"
    /\ UNCHANGED <<entries, iteration, at, todo>>

Enumerate ==
    /\ owner = "enumerate" /\ UNCHANGED owner
    /\ \/ Scan \/ ScanFails \/ EndProvider
       \/ \E p \in Names : Skip(p) \/ AddDevice(p) \/ AddSyspath(p)

Iterate ==
    /\ owner \in {"enumerate", "device"} /\ at = 0
    /\ GetFirst \/ GetNext
    /\ UNCHANGED <<scan, owner>>

Next ==
    \/ NewOwner \/ HandOut \/ Unref \/ Enumerate \/ Iterate
    \/ (Enter \/ Recolor \/ FreeEntry) /\ UNCHANGED <<scan, owner>>
    \/ \E n \in Names : Describe(n) \/ SetSysattrValue(n)

Spec == Init /\ [][Next]_vars

TypeOK ==
    /\ ListTypeOK /\ ScanTypeOK
    /\ owner \in {"none", "enumerate", "making", "device"}
=============================================================================
