--------------------------- MODULE HotplugSession ---------------------------
(***************************************************************************)
(* An application that wants to know the devices of the machine: it        *)
(* enables a monitor, enumerates what there is, and then follows the       *)
(* monitor's events, as src/udev-test.c does.  Around it, the kernel       *)
(* attaches and detaches devices and devd broadcasts a message about each. *)
(*                                                                         *)
(* Of the monitor there is what UdevMonitor implements, an EventChannel,   *)
(* and the one thing the channel leaves out: the thread connects to devd   *)
(* some time after udev_monitor_enable_receiving has returned, and devd    *)
(* does not repeat what it has broadcast before.  The monitor and the      *)
(* enumerator are asked for the same subsystems.                           *)
(***************************************************************************)
EXTENDS Providers, SubsystemTable

CONSTANTS
    Devices,      \* the devices that come and go
    Family,       \* the family each name belongs to
    Interests,    \* the subsystems the application asks for
    Evdev,        \* the kernel has evdev enabled
    AwaitConnect, \* the application enumerates only once the thread is connected
    MaxChanges    \* bound: what the kernel tells of the devices

ASSUME SessionAssumption ==
    /\ Devices \subseteq Device
    /\ Evdev \in BOOLEAN /\ AwaitConnect \in BOOLEAN /\ MaxChanges \in Nat

(* The words of the kernel's messages, none of which holds the name of a   *)
(* property; devices are known by their names, and the name of a network   *)
(* interface fits into IFNAMSIZ bytes.                                     *)
Words == {"DEVFS", "CDEV", "CREATE", "DESTROY", "IFNET", "ATTACH", "DETACH",
          "DRM", "CONNECTOR", "HOTPLUG"}
ASSUME MachineAssumption ==
    /\ NoName \notin Words /\ \A w \in Words \cap Names : Holds[w] = {}
    /\ \A d, e \in Devices : d.bus = e.bus /\ d.name = e.name => d = e
    /\ \A d \in Devices : d.bus = "ifnet" => Length[d.name] <= NetRoom

(* get_subsystem_by_syspath and udev_filter_match.                         *)
SubsystemOf(path) ==
    LET family == Family[path.name]
    IN IF ~Known(path.root, family) THEN Unknown
       ELSE IF Config(path.root, family).skip /\ Evdev THEN Unknown
       ELSE Config(path.root, family).subsystem
Accepted(path) == SubsystemOf(path) # Unknown /\ SubsystemOf(path) \in Interests

(* What devd may say, and what the thread makes of it.                     *)
Messages ==
    {Notice(d, arrives) : d \in Devices, arrives \in BOOLEAN}
    \cup {HotplugNotice(d) : d \in Devices}
Understood == [m \in Messages |-> ParseDevdMessage(m)]

Paths == UNION {ShownOf(d) : d \in Devices}
         \cup ({Understood[m].path : m \in Messages} \ {NoName})
Wanted == {p \in Paths : Accepted(p)}
DeviceEvent == [action : {"add", "remove", "change"}, path : Paths]

VARIABLES
    present,    \* the devices attached
    changes,    \* how often the kernel has told devd of a device
    notices,    \* what it has told devd and devd has not yet broadcast
    connected,  \* the monitor's thread is connected to devd
    sock,       \* what devd has sent the thread
    log, announced, taken, closed,  \* the monitor, as an EventChannel
    apc,        \* the application: start, enabled, scanning, following
    provider,   \* the provider that the scan asks
    todo,       \* the devices that provider has still to look for
    known       \* the paths the application believes there are

kernel == <<present, changes>>
channel == <<log, announced, taken, closed>>
scan == <<provider, todo>>
vars == <<kernel, notices, connected, sock, channel, apc, scan, known>>

Channel == INSTANCE EventChannel WITH Event <- DeviceEvent

Init ==
    /\ present \in SUBSET Devices /\ changes = 0
    /\ notices = <<>> /\ connected = FALSE /\ sock = <<>>
    /\ Channel!Init
    /\ apc = "start" /\ provider = 0 /\ todo = {} /\ known = {}

-----------------------------------------------------------------------------
(* The kernel and devd.                                                    *)

Tell(m) ==
    /\ changes < MaxChanges /\ changes' = changes + 1
    /\ notices' = Append(notices, m)
    /\ UNCHANGED <<connected, sock, channel, apc, scan, known>>

Attach(d) ==
    /\ d \notin present /\ present' = present \cup {d}
    /\ Tell(Notice(d, TRUE))

Detach(d) ==
    /\ d \in present /\ present' = present \ {d}
    /\ Tell(Notice(d, FALSE))

(* Something was plugged into a graphics card.                             *)
Hotplug(d) ==
    /\ d \in present /\ d.bus = "cdev" /\ Family[d.name] = "card"
    /\ Tell(HotplugNotice(d))
    /\ UNCHANGED present

Broadcast ==
    /\ notices # <<>>
    /\ notices' = Tail(notices)
    /\ sock' = IF connected THEN Append(sock, Head(notices)) ELSE sock
    /\ UNCHANGED <<kernel, connected, channel, apc, scan, known>>

-----------------------------------------------------------------------------
(* The monitor's thread.                                                   *)

Connect ==
    /\ apc # "start" /\ ~connected
    /\ connected' = TRUE
    /\ UNCHANGED <<kernel, notices, sock, channel, apc, scan, known>>

(* Refuted by DifferenceIsOnItsWay: only what is added is passed on.       *)
ForwardOnlyAdded ==
    /\ sock # <<>> /\ sock' = Tail(sock)
    /\ LET event == Understood[Head(sock)]
       IN IF event.action = "add" /\ event.path \in Wanted
          THEN Channel!Publish(event) ELSE UNCHANGED channel
    /\ UNCHANGED <<kernel, notices, connected, apc, scan, known>>

Forward ==
    /\ sock # <<>> /\ sock' = Tail(sock)
    /\ LET event == Understood[Head(sock)]
       IN IF event # Nothing /\ event.path \in Wanted
          THEN Channel!Publish(event) ELSE UNCHANGED channel
    /\ UNCHANGED <<kernel, notices, connected, apc, scan, known>>

Announce ==
    /\ Channel!Announce
    /\ UNCHANGED <<kernel, notices, connected, sock, apc, scan, known>>

-----------------------------------------------------------------------------
(* The application.                                                        *)

Enable ==
    /\ apc = "start"
    /\ apc' = "enabled"
    /\ UNCHANGED <<kernel, notices, connected, sock, channel, scan, known>>

(* The devices that the n-th provider shows, if they are there.            *)
Sought(n) == {d \in Devices : Enumerate(n, d) # {}}

(* Refuted by PictureSettles: the scan does not wait for the connection.   *)
StartScanAtOnce ==
    /\ apc = "enabled"
    /\ apc' = "scanning"
    /\ provider' = 1 /\ todo' = Sought(1)
    /\ UNCHANGED <<kernel, notices, connected, sock, channel, known>>

(* udev_enumerate_scan_devices asks the providers one after the other,     *)
(* while devices come and go.                                              *)
StartScan ==
    /\ apc = "enabled"
    /\ AwaitConnect => connected
    /\ apc' = "scanning"
    /\ provider' = 1 /\ todo' = Sought(1)
    /\ UNCHANGED <<kernel, notices, connected, sock, channel, known>>

LookFor(d) ==
    /\ apc = "scanning" /\ d \in todo
    /\ todo' = todo \ {d}
    /\ known' = IF d \in present
                THEN known \cup (Enumerate(provider, d) \cap Wanted)
                ELSE known
    /\ UNCHANGED <<kernel, notices, connected, sock, channel, apc, provider>>

EndProvider ==
    /\ apc = "scanning" /\ todo = {}
    /\ IF provider < 4
       THEN /\ provider' = provider + 1 /\ todo' = Sought(provider + 1)
            /\ UNCHANGED apc
       ELSE apc' = "following" /\ UNCHANGED scan
    /\ UNCHANGED <<kernel, notices, connected, sock, channel, known>>

(* What an application does of an event.                                   *)
Learn(e) ==
    known' = CASE e.action = "add" -> known \cup {e.path}
               [] e.action = "remove" -> known \ {e.path}
               [] e.action = "change" -> known

(* udev_monitor_receive_device.                                            *)
Receive ==
    /\ apc = "following"
    /\ Channel!Take
    /\ Learn(log[taken + 1])
    /\ UNCHANGED <<kernel, notices, connected, sock, apc, scan>>

Application ==
    \/ Enable \/ StartScan \/ EndProvider \/ Receive
    \/ \E d \in Devices : LookFor(d)

Next ==
    \/ \E d \in Devices : Attach(d) \/ Detach(d) \/ Hotplug(d)
    \/ Broadcast \/ Connect \/ Forward \/ Announce
    \/ Application

Spec == Init /\ [][Next]_vars

(* devd, the thread and the application go on as long as they can.         *)
FairSpec ==
    /\ Spec
    /\ WF_vars(Broadcast) /\ WF_vars(Connect)
    /\ WF_vars(Forward) /\ WF_vars(Announce)
    /\ WF_vars(Application)

-----------------------------------------------------------------------------

(* Nothing is on its way to the application any more.                      *)
Settled ==
    /\ apc = "following" /\ connected
    /\ notices = <<>> /\ sock = <<>> /\ taken = Len(log)

(* The paths of a device, as the enumeration and as devd's messages have   *)
(* them, that the application asks for, and of these those it can follow:  *)
(* devd's message about a device of the PCI bus is taken by the provider   *)
(* of /sys, and a device whose name holds that of a property makes its     *)
(* messages unreadable.                                                    *)
ToldOf(d) ==
    {Understood[Notice(d, arrives)].path : arrives \in BOOLEAN} \ {NoName}
Followed(d) ==
    {p \in (ShownOf(d) \cup ToldOf(d)) \cap Wanted :
         p.root # "pci" /\ Holds[d.name] = {}}

(* What the comment in src/udev-test.c says the order of its calls is for: *)
(* a device that is attached is known, from the enumeration or an event.   *)
NoDeviceMissed ==
    Settled => \A d \in present : Followed(d) \subseteq known

(* If the enumeration starts after the thread has connected, the picture   *)
(* is exact: no device is missed and none is believed to be there that was *)
(* detached, although the scan is not a snapshot, events may tell what the *)
(* scan has already seen or not yet seen, and the enumeration and the      *)
(* events get a device's path from different sources.                      *)
PictureIsExact ==
    Settled => \A d \in Devices : \A p \in Followed(d) :
                   p \in known <=> d \in present

(* The picture stays at most one unread message away: an application that  *)
(* follows, connected from before its scan, differs from the kernel about  *)
(* a device only while a message about that device is on its way.          *)
OnItsWay(p) ==
    \/ \E s \in {notices, sock} : \E i \in DOMAIN s :
           Understood[s[i]].path = p
    \/ \E i \in taken + 1..Len(log) : log[i].path = p
DifferenceIsOnItsWay ==
    apc = "following" =>
        \A d \in Devices : \A p \in Followed(d) :
            (p \in known) # (d \in present) => OnItsWay(p)

(* Once the machine is quiet (which MaxChanges sees to), the picture of    *)
(* the application becomes exact and stays so.                             *)
PictureSettles ==
    <>[](\A d \in Devices : \A p \in Followed(d) :
             p \in known <=> d \in present)
=============================================================================
