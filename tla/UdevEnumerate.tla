--------------------------- MODULE UdevEnumerate ---------------------------
(***************************************************************************)
(* The enumerator (src/udev-enumerate.c) over its list of device paths     *)
(* (UdevList): a scan that asks the four providers one after the other,    *)
(* any of which may fail half-way, and paths the application adds.         *)
(*                                                                         *)
(* The application iterates as the library requires: until it has finished *)
(* it neither scans nor adds the path it is at, for both free the entry it *)
(* stands on.                                                              *)
(***************************************************************************)
EXTENDS UdevList, Sequences, Functions

CONSTANTS
    Providers,  \* a sequence of sets: the paths each provider shows
    Accepted,   \* the paths the filters of the enumerator accept
    Extra       \* the paths the application may add

ASSUME EnumerateAssumption ==
    /\ Providers \in Seq(SUBSET Names) \ {<<>>}
    /\ Extra \subseteq Names

VARIABLES
    at,      \* the provider that shows paths, 0 if no scan runs
    todo,    \* what it has still to show
    ret      \* what the last scan returned; 1 if there was none since the
             \* application changed the list itself

scan == <<at, todo, ret>>

(* udev_enumerate_new.                                                     *)
ScanInit == at = 0 /\ todo = {} /\ ret = 1

-----------------------------------------------------------------------------

(* Provider n begins, and shows what it has.                               *)
Provide(n) == at' = n /\ todo' = Providers[n]

(* Refuted by ScanAllOrNothing: the paths of earlier scans stay.           *)
ScanKeepsList ==
    /\ Idle /\ at = 0 /\ cursor = Null
    /\ Provide(1)
    /\ UNCHANGED <<ret, listVars>>

(* udev_enumerate_scan_devices.                                            *)
Scan ==
    /\ Idle /\ at = 0 /\ cursor = Null
    /\ ListFree
    /\ Provide(1)
    /\ UNCHANGED <<ret, entries, iteration>>

(* udev_enumerate_add_device.                                              *)
Skip(p) ==
    /\ Idle /\ at > 0 /\ p \in todo \ Accepted
    /\ todo' = todo \ {p}
    /\ UNCHANGED <<at, ret, listVars>>

AddDevice(p) ==
    /\ Idle /\ at > 0 /\ p \in todo \cap Accepted
    /\ todo' = todo \ {p}
    /\ ListInsert(p)
    /\ UNCHANGED <<at, ret>>

(* A provider fails at once, or an entry cannot be allocated: no provider  *)
(* after it is asked.                                                      *)
ScanFails ==
    /\ Idle /\ at > 0
    /\ ListFree
    /\ at' = 0 /\ todo' = {} /\ ret' = -1
    /\ UNCHANGED <<entries, iteration>>

EndProvider ==
    /\ Idle /\ at > 0 /\ todo = {}
    /\ IF at < Len(Providers) THEN Provide(at + 1) /\ UNCHANGED ret
       ELSE at' = 0 /\ todo' = {} /\ ret' = 0
    /\ UNCHANGED listVars

AddSyspath(p) ==
    /\ Idle /\ at = 0 /\ p \in Extra \ {cursor}
    /\ ListInsert(p)
    /\ ret' = 1
    /\ UNCHANGED <<at, todo>>

-----------------------------------------------------------------------------

ScanTypeOK ==
    at \in 0..Len(Providers) /\ todo \subseteq Names /\ ret \in {-1, 0, 1}

(* After a scan the list holds exactly what the filters accept of what all *)
(* providers have shown, or nothing if any of them failed: nothing of an   *)
(* earlier scan, nothing the application had added, no half of a result.   *)
ScanAllOrNothing ==
    Idle /\ at = 0 => /\ ret = -1 => live = {}
                      /\ ret = 0 => live = Accepted \cap UNION Range(Providers)
=============================================================================
