--------------------------- MODULE CreateHandlers ---------------------------
(***************************************************************************)
(* The create handlers of input and hidraw devices (src/udev-dev.c): what  *)
(* happens when a thread makes a device, from EvdevGate's "create" on.     *)
(*                                                                         *)
(* A handler that has to ask the device itself needs a descriptor of its   *)
(* node.  A node may be open in this process already and may be opened     *)
(* only once, so a handler may also borrow a descriptor: path_to_fd        *)
(* (src/utils.c) looks through the process's open files for one.  The      *)
(* handler closes what it has opened and leaves what it has borrowed, and  *)
(* nothing keeps the owner, which is the application or a handler in       *)
(* another thread, from closing it while the handler asks.                 *)
(*                                                                         *)
(* The properties of a device are its type; that of an evdev device is     *)
(* found from the bits of what it can do.                                  *)
(***************************************************************************)
EXTENDS EvdevGate

CONSTANTS
    Fds,      \* the descriptors the process may have, besides others
    Capable   \* what each node may be: the kind of device, and the bits that
              \* the kernel answers of it

(* The nodes of devices that have to be asked themselves.                  *)
Asked == {n \in Nodes : Family[n] \in {"event", "hidraw"}}

NoFd == -1
Free == [node |-> "none", by |-> "none"]
NoResult == [of |-> "none", type |-> "none", kind |-> "none"]

ASSUME HandlersAssumption ==
    /\ Fds \subseteq Nat /\ NoFd \notin Fds
    /\ {"app", "none"} \cap Threads = {} /\ "none" \notin Nodes

VARIABLES
    table,     \* the open files of the process: of which node, opened by whom
    fd,        \* the handler's descriptor, in each thread
    opened,    \* the handler has opened it
    answered,  \* the nodes that answered the handler's queries
    result,    \* the type it found, "none" if there is none to set, of which
               \* node, and what kind of device that is
    disturbed  \* history: the descriptor it works with was closed

files == <<table, disturbed>>
handler == <<fd, opened, answered, result>>
allvars == <<vars, files, handler>>

HandlersInit ==
    /\ Init
    /\ table = [f \in Fds |-> Free]
    /\ fd = [t \in Threads |-> NoFd]
    /\ opened = [t \in Threads |-> FALSE]
    /\ answered = [t \in Threads |-> {}]
    /\ result = [t \in Threads |-> NoResult]
    /\ disturbed = [t \in Threads |-> FALSE]

-----------------------------------------------------------------------------
(* The type of an evdev device.  Of the bits there is one for each that is *)
(* tested alone and one for the rest of each range: "KEY" below BTN_MISC,  *)
(* "BTN_0" from there to BTN_JOYSTICK, "ABS_RX" to ABS_HAT3Y, "REL", "ABS".*)

Buttons == {"BTN_0", "BTN_LEFT"}
JoyAxes == {"ABS_RX", "ABS_HAT0X"}
AbsAxes == {"ABS", "ABS_X", "ABS_Y", "ABS_PRESSURE", "ABS_MT_SLOT"} \cup JoyAxes
RelAxes == {"REL", "REL_X", "REL_Y"}

Type(type, condition) == [type |-> type, condition |-> condition]
FirstThat(types) ==
    LET hold == {i \in DOMAIN types : types[i].condition}
    IN IF hold = {} THEN "none" ELSE types[Min(hold)].type

(* Refuted by DescribedAsItIs: the axes are asked about before the keys.   *)
PlainTypeAxesFirst(bits, buttons) ==
    FirstThat(<<
        Type("accelerometer", "INPUT_PROP_ACCELEROMETER" \in bits),
        Type("mouse", \/ buttons \/ "INPUT_PROP_POINTER" \in bits
                      \/ bits \cap (RelAxes \cup AbsAxes) # {}),
        Type("keyboard", "KEY" \in bits),
        Type("switch", "SW" \in bits) >>)

(* The type of a device that is none of the ones with absolute axes.       *)
PlainType(bits, buttons) ==
    FirstThat(<<
        Type("accelerometer", "INPUT_PROP_ACCELEROMETER" \in bits),
        Type("keyboard", "KEY" \in bits),
        Type("mouse", \/ buttons \/ "INPUT_PROP_POINTER" \in bits
                      \/ bits \cap (RelAxes \cup AbsAxes) # {}),
        Type("switch", "SW" \in bits) >>)

(* The type of one that has both an X and a Y axis.                        *)
PlaneType(bits, buttons) ==
    LET touched == bits \cap {"ABS_PRESSURE", "BTN_TOUCH"} # {}
        fingers == bits \cap {"BTN_LEFT", "BTN_TOOL_FINGER"} # {}
    IN FirstThat(<<
        Type("tablet", bits \cap {"BTN_TOOL_PEN", "BTN_STYLUS"} # {}),
        Type("joystick", bits \cap (JoyAxes \cup {"BTN_JOYSTICK", "BTN_SOUTH",
                                      "BTN_DPAD_UP", "BTN_THUMBL"}) # {}),
        Type("touchpad", touched /\ fingers),
        Type("touchscreen", touched),
        Type("mouse", "BTN_LEFT" \in bits /\ ~({"REL_X", "REL_Y"} \subseteq bits)),
        Type(PlainType(bits, buttons), TRUE) >>)

Classify(bits) ==
    LET buttons == bits \cap Buttons # {}
        touches == "ABS_MT_SLOT" \in bits /\ ~buttons
    IN IF touches /\ "BTN_JOYSTICK" \in bits THEN "joystick"
       ELSE IF {"ABS_X", "ABS_Y"} \subseteq bits
       THEN PlaneType(bits, buttons \/ touches)
       ELSE PlainType(bits, buttons \/ touches)

(* The handlers that know the type from the node's name.                   *)
NamedType(family) ==
    CASE family \in {"ukbd", "atkbd", "kbdmux"} -> "keyboard"
      [] family \in {"ums", "psm", "sysmouse", "vboxguest"} -> "mouse"
      [] family = "joy" -> "joystick"
      [] family \in {"atp", "wsp"} -> "touchpad"
      [] family = "uep" -> "touchscreen"

-----------------------------------------------------------------------------
(* Descriptors.                                                            *)

Lowest(f) == table[f] = Free /\ \A g \in Fds : table[g] = Free => f <= g

OpenAs(f, node, who) ==
    /\ Lowest(f)
    /\ table' = [table EXCEPT ![f] = [node |-> node, by |-> who]]
    /\ UNCHANGED disturbed
CloseFd(f) ==
    /\ table' = [table EXCEPT ![f] = Free]
    /\ disturbed' = [t \in Threads |-> disturbed[t] \/ fd[t] = f]

(* The application opens a node for itself, and closes it.                 *)
AppOpen(f, node) == OpenAs(f, node, "app") /\ UNCHANGED <<vars, handler>>
AppClose(f) ==
    /\ table[f].by = "app" /\ CloseFd(f)
    /\ UNCHANGED <<vars, handler>>

-----------------------------------------------------------------------------
(* A thread's handler.                                                     *)

At(t, label) == pc[t] = label
Is(t, family) == Family[device[t]] = family
Step(t, label) ==
    Goto(t, label) /\ UNCHANGED <<kernel, enabled, locals>>

(* The handler begins: it knows, asks sysctl(3), opens or looks around.    *)
Named(t) ==
    /\ At(t, "create") /\ ~Is(t, "event") /\ ~Is(t, "hidraw")
    /\ \E d \in Capable[device[t]] :
           result' = [result EXCEPT ![t] =
                         [of |-> device[t], type |-> NamedType(Family[device[t]]),
                          kind |-> d.kind]]
    /\ Step(t, "close")
    /\ UNCHANGED <<files, fd, opened, answered>>

(* kern.evdev.input: all of the values, or not all of them.                *)
Sysctl(t) ==
    /\ At(t, "create") /\ Is(t, "event")
    /\ \/ answered' = [answered EXCEPT ![t] = {device[t]}] /\ Step(t, "describe")
       \/ UNCHANGED answered /\ Step(t, "open")
    /\ UNCHANGED <<files, fd, opened, result>>

Hidraw(t) ==
    /\ At(t, "create") /\ Is(t, "hidraw")
    /\ Step(t, "find")
    /\ UNCHANGED <<files, handler>>

OpenNode(t) ==
    /\ At(t, "open")
    /\ \E f \in Fds :
           /\ OpenAs(f, device[t], t)
           /\ fd' = [fd EXCEPT ![t] = f]
    /\ opened' = [opened EXCEPT ![t] = TRUE]
    /\ Step(t, "query")
    /\ UNCHANGED <<answered, result>>

(* It is open elsewhere, it is gone, or there are no descriptors left.     *)
OpenFails(t) ==
    /\ At(t, "open")
    /\ Step(t, IF Is(t, "event") THEN "find" ELSE "close")
    /\ UNCHANGED <<files, handler>>

(* path_to_fd.                                                             *)
Borrowable(t) == {f \in Fds : table[f].node = device[t]}

Find(t) ==
    /\ At(t, "find")
    /\ \E f \in Borrowable(t) : fd' = [fd EXCEPT ![t] = f]
    /\ Step(t, "query")
    /\ UNCHANGED <<files, opened, answered, result>>

(* There is none, or procstat(3) fails.                                    *)
FindsNone(t) ==
    /\ At(t, "find")
    /\ Step(t, IF Is(t, "event") THEN "close" ELSE "open")
    /\ UNCHANGED <<files, handler>>

(* The ioctl(2)s, one after the other: whatever node the descriptor is of  *)
(* answers, if it is one of the kind.                                      *)
Query(t) ==
    /\ At(t, "query")
    /\ LET node == table[fd[t]].node
       IN /\ node # "none" /\ Family[node] = Family[device[t]]
          /\ answered' = [answered EXCEPT ![t] = @ \cup {node}]
    /\ \E label \in {"query", "describe"} : Step(t, label)
    /\ UNCHANGED <<files, fd, opened, result>>

(* The handler returns.                                                    *)
Ends(t) ==
    /\ fd' = [fd EXCEPT ![t] = NoFd]
    /\ opened' = [opened EXCEPT ![t] = FALSE]
    /\ answered' = [answered EXCEPT ![t] = {}]
    /\ result' = [result EXCEPT ![t] = NoResult]
    /\ Leave(t)
    /\ UNCHANGED <<kernel, enabled>>

(* Refuted by DescriptorsAccounted: as where there is no descriptor.       *)
QueryReturns(t) ==
    /\ At(t, "query")
    /\ disturbed' = [disturbed EXCEPT ![t] = FALSE]
    /\ Ends(t)
    /\ UNCHANGED table

(* Any of them may fail, whoever has opened the descriptor: the device is  *)
(* taken away, or the descriptor is closed or another's by now.            *)
QueryFails(t) ==
    /\ At(t, "query")
    /\ Step(t, "close")
    /\ UNCHANGED <<files, handler>>

(* The type and the parent are set, but neither if an evdev device is of   *)
(* no type.                                                                *)
Describe(t) ==
    /\ At(t, "describe")
    /\ \E node \in answered[t] : \E d \in Capable[node] :
           result' = [result EXCEPT ![t] =
                         [of |-> node, kind |-> d.kind,
                          type |-> IF Is(t, "hidraw") THEN "hidraw"
                                   ELSE Classify(d.bits)]]
    /\ Step(t, "close")
    /\ UNCHANGED <<files, fd, opened, answered>>

(* There is no memory for the parent, which only hidraw's handler minds.   *)
NoParent(t) ==
    /\ At(t, "describe") /\ Is(t, "hidraw")
    /\ Step(t, "close")
    /\ UNCHANGED <<files, handler>>

(* bail_out.                                                               *)
Close(t) ==
    /\ At(t, "close")
    /\ IF opened[t]
       THEN /\ table' = [table EXCEPT ![fd[t]] = Free]
            /\ disturbed' = [u \in Threads |-> IF u = t THEN FALSE
                                 ELSE disturbed[u] \/ fd[u] = fd[t]]
       ELSE /\ UNCHANGED table
            /\ disturbed' = [disturbed EXCEPT ![t] = FALSE]
    /\ Ends(t)

Handler(t) ==
    \/ Named(t) \/ Sysctl(t) \/ Hidraw(t) \/ OpenNode(t) \/ OpenFails(t)
    \/ Find(t) \/ FindsNone(t) \/ Query(t) \/ QueryFails(t)
    \/ Describe(t) \/ NoParent(t) \/ Close(t)

HandlersNext ==
    \/ \E t \in Threads : Gate(t) /\ UNCHANGED <<files, handler>>
    \/ \E t \in Threads : Handler(t)
    \/ \E f \in Fds :
           AppClose(f) \/ \E node \in Asked : AppOpen(f, node)

HandlersSpec == HandlersInit /\ [][HandlersNext]_allvars

-----------------------------------------------------------------------------

(* What a handler opens it closes, on every way out: after it has found    *)
(* what it asked for, if one of its queries fails, if the device is of no  *)
(* type and if there is no memory for a parent.  It closes nothing else: a *)
(* descriptor is a handler's exactly while that handler runs with it,      *)
(* whatever others borrow, close and open at the same time.                *)
DescriptorsAccounted ==
    \A f \in Fds, t \in Threads :
        table[f].by = t <=> opened[t] /\ fd[t] = f

(* The handler describes the device it is about, and as what it is, the    *)
(* same whether the device is seen through evdev or through its own node,  *)
(* and as nothing if it is none of the kinds, unless the descriptor it     *)
(* works with is closed under it: then it may be another device that       *)
(* answers some of the queries.                                            *)
DescribedAsItIs ==
    \A t \in Threads :
        result[t] # NoResult /\ ~disturbed[t] =>
            result[t].of = device[t] /\ result[t].type = result[t].kind
=============================================================================
