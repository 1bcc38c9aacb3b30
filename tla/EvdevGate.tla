----------------------------- MODULE EvdevGate -----------------------------
(***************************************************************************)
(* Which devices are hidden when the kernel has evdev (src/udev-utils.c):  *)
(* a keyboard is then an event device, and its own node is to be skipped   *)
(* (SCFLAG_SKIP_IF_EVDEV).  The library asks the kernel once and keeps the *)
(* answer in a static variable, which the threads that enumerate and the   *)
(* monitor's thread read and set without a lock, and it asks twice for     *)
(* each device: when the filters are matched, and when the device is made. *)
(* What its create handler does is the matter of CreateHandlers, which has *)
(* the steps of this module and its own.                                   *)
(*                                                                         *)
(* The length that kernel_has_evdev_enabled gives sysctlbyname(3) is never *)
(* set: it is what was on the stack.  The kernel copies no more bytes than *)
(* that, and fails if they are too few.                                    *)
(***************************************************************************)
EXTENDS SubsystemTable

CONSTANTS
    Threads,  \* the threads that look at devices
    Lengths,  \* what may be on the stack where len is
    Nodes,    \* the devices in /dev
    Family    \* the family each of them belongs to

IntSize == 4

ASSUME GateAssumption ==
    /\ Lengths \subseteq Nat
    /\ \A d \in Nodes : Known("dev", Family[d])

Answers == {"enabled", "disabled", "missing"}
Skipped == {d \in Nodes : Config("dev", Family[d]).skip}

VARIABLES
    kernel,   \* kern.features.evdev_support, if there is such a sysctl
    enabled,  \* the static variable; -1 as long as nothing is known
    pc,       \* where each thread is
    device,   \* the device it looks at
    purpose   \* whether it matches the filters or makes the device

vars == <<kernel, enabled, pc, device, purpose>>
locals == <<device, purpose>>

Init ==
    /\ kernel \in Answers /\ enabled = -1
    /\ pc = [t \in Threads |-> "idle"]
    /\ device = [t \in Threads |-> "none"]
    /\ purpose = [t \in Threads |-> "match"]

Goto(t, label) == pc' = [pc EXCEPT ![t] = label]

(* The low bytes of -1 replaced by those of a 0 or a 1.                    *)
Partial(value, bytes) ==
    IF bytes = 0 THEN -1 ELSE value - 256 ^ bytes

Look(t, d) ==
    /\ pc[t] = "idle"
    /\ device' = [device EXCEPT ![t] = d]
    /\ Goto(t, "lookup")
    /\ UNCHANGED <<kernel, enabled, purpose>>

(* It returns to its caller, which does not want the device or has it.     *)
Leave(t) ==
    /\ device' = [device EXCEPT ![t] = "none"]
    /\ purpose' = [purpose EXCEPT ![t] = "match"]
    /\ Goto(t, "idle")

(* The device is of interest: go on from get_subsystem_by_syspath to       *)
(* udev_device_new_common, or from there to the create handler.            *)
Proceed(t) ==
    /\ Goto(t, IF purpose[t] = "match" THEN "lookup" ELSE "create")
    /\ purpose' = [purpose EXCEPT ![t] = "make"]
    /\ UNCHANGED device

(* Refuted by SkippedIfEvdev: the answer is not looked at.                 *)
DecideAnyway(t, skip) == Proceed(t)

(* kernel_has_evdev_enabled returns.                                       *)
Decide(t, skip) ==
    IF skip THEN Leave(t) ELSE Proceed(t)

Plain(t) ==
    /\ pc[t] = "lookup" /\ device[t] \notin Skipped
    /\ Proceed(t)
    /\ UNCHANGED <<kernel, enabled>>

Remembered(t) ==
    /\ pc[t] = "lookup" /\ device[t] \in Skipped /\ enabled # -1
    /\ Goto(t, "return")
    /\ UNCHANGED <<kernel, enabled, locals>>

(* Refuted by AcceptedIsBuilt: a failure counts as enabled the next time.  *)
AskDefaultsOn(t) ==
    /\ pc[t] = "lookup" /\ device[t] \in Skipped /\ enabled = -1
    /\ \E len \in Lengths :
           LET value == IF kernel = "enabled" THEN 1 ELSE 0
           IN IF kernel = "missing" THEN enabled' = 1 /\ Goto(t, "failed")
              ELSE IF len < IntSize
              THEN enabled' = Partial(value, len) /\ Goto(t, "failed")
              ELSE enabled' = value /\ Goto(t, "return")
    /\ UNCHANGED <<kernel, locals>>

Ask(t) ==
    /\ pc[t] = "lookup" /\ device[t] \in Skipped /\ enabled = -1
    /\ \E len \in Lengths :
           LET value == IF kernel = "enabled" THEN 1 ELSE 0
           IN IF kernel = "missing" THEN enabled' = enabled /\ Goto(t, "failed")
              ELSE IF len < IntSize
              THEN enabled' = Partial(value, len) /\ Goto(t, "failed")
              ELSE enabled' = value /\ Goto(t, "return")
    /\ UNCHANGED <<kernel, locals>>

Fail(t) ==
    /\ pc[t] = "failed"
    /\ Decide(t, FALSE)
    /\ UNCHANGED <<kernel, enabled>>

(* The variable is read again.                                             *)
Return(t) ==
    /\ pc[t] = "return"
    /\ Decide(t, enabled # 0)
    /\ UNCHANGED <<kernel, enabled>>

Gate(t) ==
    \/ \E d \in Nodes : Look(t, d)
    \/ Plain(t) \/ Remembered(t) \/ Ask(t) \/ Fail(t) \/ Return(t)

-----------------------------------------------------------------------------

(* What the comment on SCFLAG_SKIP_IF_EVDEV says: a device that evdev      *)
(* exposes already is skipped while evdev is enabled, whichever thread was *)
(* the first to ask.                                                       *)
SkippedIfEvdev ==
    kernel = "enabled" =>
        \A t \in Threads : purpose[t] = "make" => device[t] \notin Skipped

(* The two lookups agree: a device for which the filters were matched as a *)
(* known one is not left without its properties and its parent.  And       *)
(* without evdev nothing is hidden: a thread that looks at a device does   *)
(* not turn back.                                                          *)
AcceptedIsBuilt ==
    [][\A t \in Threads :
           pc[t] # "idle" /\ pc'[t] = "idle" =>
               \/ pc[t] = "close"
               \/ purpose[t] = "match" /\ kernel = "enabled"]_vars
=============================================================================
