-------------------------- MODULE MCCreateHandlers --------------------------
(***************************************************************************)
(* Instances of CreateHandlers for TLC: a keyboard's own node, two evdev   *)
(* devices that are each of one of several kinds, with whatever else such  *)
(* a device may have, and a hidraw device; a stack on which there happens  *)
(* to be a number that is large enough for the kernel, and any stack.      *)
(***************************************************************************)
EXTENDS CreateHandlers, TLC

CONSTANTS main, monitor
MCThreads == {main, monitor}
MCSymmetry == Permutations(MCThreads)
LuckyStack == {4, 64}
AnyStack == {0, 1, 2, 4, 64}

MCNodes == {"ukbd0", "event0", "event1", "hidraw0"}
MCFamily == [n \in MCNodes |->
    CASE n = "ukbd0" -> "ukbd" [] n = "hidraw0" -> "hidraw" [] OTHER -> "event"]

(* Of each kind, what such a device has and may have.                      *)
With(kind, bits, more) == {[kind |-> kind, bits |-> bits \cup s] : s \in SUBSET more}
Keyboards == With("keyboard", {"KEY"}, {"BTN_0", "REL", "SW", "INPUT_PROP_POINTER"})
Mice == With("mouse", {"BTN_LEFT", "REL_X", "REL_Y"}, {"BTN_0", "REL", "SW"})
        \cup With("mouse", {"BTN_LEFT", "ABS_X", "ABS_Y"}, {"BTN_0", "REL", "ABS"})
Touchpads == With("touchpad", {"BTN_LEFT", "ABS_X", "ABS_Y", "BTN_TOUCH"},
                  {"ABS_PRESSURE", "BTN_TOOL_FINGER", "ABS_MT_SLOT"})
Touchscreens == With("touchscreen", {"ABS_X", "ABS_Y", "BTN_TOUCH"},
                     {"ABS_PRESSURE", "ABS_MT_SLOT", "SW"})
Joysticks == With("joystick", {"ABS_X", "ABS_Y", "BTN_JOYSTICK"},
                  {"ABS_RX", "ABS_HAT0X", "ABS", "BTN_0", "BTN_THUMBL"})
Tablets == With("tablet", {"ABS_X", "ABS_Y", "BTN_TOOL_PEN", "BTN_STYLUS"},
                {"ABS_PRESSURE", "BTN_TOUCH", "BTN_LEFT"})
Rest == With("accelerometer", {"ABS_X", "ABS_Y", "INPUT_PROP_ACCELEROMETER"}, {"ABS"})
        \cup With("switch", {"SW"}, {})
        \cup With("none", {}, {"BTN_SOUTH", "BTN_TOUCH"})

MCCapable == [n \in MCNodes |->
    CASE n = "ukbd0" -> {[kind |-> "keyboard", bits |-> {}]}
      [] n = "hidraw0" -> {[kind |-> "hidraw", bits |-> {}]}
      [] n = "event0" -> Keyboards \cup Touchpads \cup Tablets \cup Rest
      [] n = "event1" -> Mice \cup Touchscreens \cup Joysticks]
=============================================================================
