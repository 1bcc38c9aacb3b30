------------------------ MODULE HotplugSessionProofs ------------------------
(***************************************************************************)
(* Proofs about HotplugSession, for any machine and any number of changes: *)
(* the picture of an application that scans after the monitor's thread has *)
(* connected becomes exact.                                                *)
(*                                                                         *)
(* A message about a device is on its way through three queues: what the   *)
(* kernel has told devd, what devd has sent to the thread, and what the    *)
(* monitor has published and the application not yet taken.  The argument  *)
(* is about the last word that these have on a path.                       *)
(***************************************************************************)
EXTENDS HotplugSession, TLAPS

(* Event e says that there is a device of path p, or that there is none.   *)
Says(e, p) == e.action \in {"add", "remove"} /\ e.path = p
Adds(e, p) == e.action = "add" /\ e.path = p

(* Whether there is a device of path p, after what s has to say from its   *)
(* element k + 1 on, if before that there was one just if b.  f is what is *)
(* understood of an element.                                               *)
Silent(s, k, f, p) == \A i \in k + 1..Len(s) : ~Says(f[s[i]], p)
After(s, k, f, p, b) ==
    \/ b /\ Silent(s, k, f, p)
    \/ \E i \in k + 1..Len(s) :
           Adds(f[s[i]], p) /\ \A j \in i + 1..Len(s) : ~Says(f[s[j]], p)

(* What one event makes of b.                                              *)
Word(e, p, b) == IF Says(e, p) THEN Adds(e, p) ELSE b

-----------------------------------------------------------------------------

LEMMA AfterAppend ==
    ASSUME NEW S, NEW s \in Seq(S), NEW x \in S, NEW k \in 0..Len(s),
           NEW f, NEW p, NEW b \in BOOLEAN
    PROVE  After(Append(s, x), k, f, p, b)
               <=> Word(f[x], p, After(s, k, f, p, b))
<1> DEFINE t == Append(s, x)
<1>1. /\ Len(s) \in Nat /\ Len(t) = Len(s) + 1 /\ t[Len(s) + 1] = x
      /\ \A i \in 1..Len(s) : t[i] = s[i]
  OBVIOUS
<1> HIDE DEF t
<1>2. CASE Says(f[x], p)
  <2>1. Adds(f[x], p) => After(t, k, f, p, b)
    BY <1>1 DEF After
  <2>2. ASSUME After(t, k, f, p, b) PROVE Adds(f[x], p)
    <3>1. ~Silent(t, k, f, p)
      BY <1>1, <1>2 DEF Silent
    <3>2. PICK i \in k + 1..Len(t) :
              Adds(f[t[i]], p) /\ \A j \in i + 1..Len(t) : ~Says(f[t[j]], p)
      BY <2>2, <3>1 DEF After
    <3>3. i = Len(s) + 1
      BY <1>1, <1>2, <3>2
    <3> QED BY <1>1, <3>2, <3>3
  <2> QED BY <1>2, <2>1, <2>2 DEF Word, t
<1>3. CASE ~Says(f[x], p)
  <2>1. Silent(t, k, f, p) <=> Silent(s, k, f, p)
    BY <1>1, <1>3 DEF Silent
  <2>2. (\E i \in k + 1..Len(t) :
             Adds(f[t[i]], p) /\ \A j \in i + 1..Len(t) : ~Says(f[t[j]], p))
        <=> (\E i \in k + 1..Len(s) :
             Adds(f[s[i]], p) /\ \A j \in i + 1..Len(s) : ~Says(f[s[j]], p))
    <3>1. ~Adds(f[x], p)
      BY <1>3 DEF Adds, Says
    <3> QED BY <1>1, <1>3, <3>1
  <2> QED BY <1>3, <2>1, <2>2 DEF Word, After, t
<1> QED BY <1>2, <1>3

LEMMA AfterNext ==
    ASSUME NEW S, NEW s \in Seq(S), NEW k \in 0..Len(s) - 1,
           NEW f, NEW p, NEW b \in BOOLEAN
    PROVE  After(s, k, f, p, b)
               <=> After(s, k + 1, f, p, Word(f[s[k + 1]], p, b))
<1>1. Len(s) \in Nat /\ k \in Nat
  OBVIOUS
<1>2. Silent(s, k, f, p) <=> Silent(s, k + 1, f, p) /\ ~Says(f[s[k + 1]], p)
  BY <1>1 DEF Silent
<1>3. (\E i \in k + 1..Len(s) :
           Adds(f[s[i]], p) /\ \A j \in i + 1..Len(s) : ~Says(f[s[j]], p))
      <=> \/ Adds(f[s[k + 1]], p) /\ Silent(s, k + 1, f, p)
          \/ \E i \in (k + 1) + 1..Len(s) :
                 Adds(f[s[i]], p) /\ \A j \in i + 1..Len(s) : ~Says(f[s[j]], p)
  BY <1>1 DEF Silent
<1>4. Adds(f[s[k + 1]], p) => Says(f[s[k + 1]], p)
  BY DEF Adds, Says
<1> QED BY <1>2, <1>3, <1>4 DEF After, Word

LEMMA AfterTail ==
    ASSUME NEW S, NEW s \in Seq(S), s # <<>>, NEW f, NEW p, NEW b \in BOOLEAN
    PROVE  After(s, 0, f, p, b) <=> After(Tail(s), 0, f, p, Word(f[Head(s)], p, b))
<1> DEFINE t == Tail(s)
<1>1. /\ Len(s) \in Nat \ {0} /\ Len(t) = Len(s) - 1 /\ Head(s) = s[1]
      /\ \A i \in 1..Len(t) : t[i] = s[i + 1]
  OBVIOUS
<1> HIDE DEF t
<1>2. \A i \in 2..Len(s) : i - 1 \in 1..Len(t) /\ t[i - 1] = s[i]
  BY <1>1
<1>3. Silent(s, 1, f, p) <=> Silent(t, 0, f, p)
  <2>1. ASSUME Silent(s, 1, f, p), NEW i \in 1..Len(t) PROVE ~Says(f[t[i]], p)
    BY <1>1, <2>1 DEF Silent
  <2>2. ASSUME Silent(t, 0, f, p), NEW i \in 2..Len(s) PROVE ~Says(f[s[i]], p)
    BY <1>1, <1>2, <2>2 DEF Silent
  <2> QED BY <2>1, <2>2 DEF Silent
<1>4. (\E i \in 2..Len(s) :
           Adds(f[s[i]], p) /\ \A j \in i + 1..Len(s) : ~Says(f[s[j]], p))
      <=> (\E i \in 1..Len(t) :
           Adds(f[t[i]], p) /\ \A j \in i + 1..Len(t) : ~Says(f[t[j]], p))
  <2>1. ASSUME NEW i \in 2..Len(s), Adds(f[s[i]], p),
               \A j \in i + 1..Len(s) : ~Says(f[s[j]], p)
        PROVE  \E l \in 1..Len(t) : Adds(f[t[l]], p)
                   /\ \A j \in l + 1..Len(t) : ~Says(f[t[j]], p)
    <3>1. \A j \in (i - 1) + 1..Len(t) : ~Says(f[t[j]], p)
      BY <1>1, <2>1
    <3> QED BY <1>2, <2>1, <3>1
  <2>2. ASSUME NEW i \in 1..Len(t), Adds(f[t[i]], p),
               \A j \in i + 1..Len(t) : ~Says(f[t[j]], p)
        PROVE  \E l \in 2..Len(s) : Adds(f[s[l]], p)
                   /\ \A j \in l + 1..Len(s) : ~Says(f[s[j]], p)
    <3>1. \A j \in (i + 1) + 1..Len(s) : ~Says(f[s[j]], p)
      <4> SUFFICES ASSUME NEW j \in (i + 1) + 1..Len(s) PROVE ~Says(f[s[j]], p)
        OBVIOUS
      <4>1. j - 1 \in i + 1..Len(t) /\ t[j - 1] = s[j]
        BY <1>1, <1>2
      <4> QED BY <2>2, <4>1
    <3>2. i + 1 \in 2..Len(s) /\ s[i + 1] = t[i]
      BY <1>1
    <3> QED BY <2>2, <3>1, <3>2
  <2> QED BY <2>1, <2>2
<1>5. After(s, 1, f, p, Word(f[s[1]], p, b))
          <=> After(t, 0, f, p, Word(f[s[1]], p, b))
  BY <1>3, <1>4 DEF After
<1>6. After(s, 0, f, p, b) <=> After(s, 0 + 1, f, p, Word(f[s[0 + 1]], p, b))
  BY <1>1, AfterNext
<1> QED BY <1>1, <1>5, <1>6 DEF t

(* What was before counts just where nothing is said.                      *)
LEMMA AfterSilence ==
    ASSUME NEW s, NEW k, NEW f, NEW p, NEW b \in BOOLEAN, NEW c \in BOOLEAN
    PROVE  /\ Silent(s, k, f, p) => (After(s, k, f, p, b) <=> b)
           /\ ~Silent(s, k, f, p) =>
                  (After(s, k, f, p, b) <=> After(s, k, f, p, c))
           /\ After(s, k, f, p, b) \in BOOLEAN
BY DEF After, Silent, Adds, Says

-----------------------------------------------------------------------------
(* What the providers show and understand.                                 *)

(* The provider that shows the followed path of a device, and where.       *)
Place(d) == CASE d.bus = "cdev" -> 1 [] d.bus = "newbus" -> 2 [] d.bus = "ifnet" -> 4
Root(d) == CASE d.bus = "cdev" -> "dev" [] d.bus = "newbus" -> "sys"
             [] d.bus = "ifnet" -> "net"

LEMMA DeviceFields ==
    ASSUME NEW d \in Devices
    PROVE  /\ d.bus \in {"cdev", "newbus", "ifnet"} /\ d.name \in Names
           /\ Place(d) \in {1, 2, 4}
BY SessionAssumption DEF Device, Place

(* The first place where a name is found is the one that is looked at.     *)
LEMMA Reading ==
    ASSUME NEW m, NEW key, DOMAIN m.props \subseteq Int,
           NEW i \in DOMAIN m.props, key \in Found(m.props[i]),
           \A j \in DOMAIN m.props : j < i => key \notin Found(m.props[j])
    PROVE  GetKernPropValue(m, key) =
               IF m.props[i].key = key THEN m.props[i].value ELSE NoName
<1> DEFINE places == {j \in DOMAIN m.props : key \in Found(m.props[j])}
<1>1. i \in places /\ \A j \in places : i <= j
  OBVIOUS
<1>2. Min(places) = i
  <2>1. \E x \in places : \A j \in places : x <= j
    BY <1>1
  <2>2. Min(places) \in places /\ \A j \in places : Min(places) <= j
    BY <2>1 DEF Min
  <2>3. places \subseteq Int
    OBVIOUS
  <2> HIDE DEF places
  <2>4. Min(places) <= i /\ i <= Min(places)
    BY <1>1, <2>2
  <2> QED BY <1>1, <2>2, <2>3, <2>4
<1> HIDE DEF places
<1>3. places # {}
  BY <1>1
<1> QED BY <1>2, <1>3 DEF GetKernPropValue, places

(* A value that is found is that of a property of the name.                *)
LEMMA ReadingAny ==
    ASSUME NEW m, NEW key, DOMAIN m.props \subseteq 1..4
    PROVE  \/ GetKernPropValue(m, key) = NoName
           \/ \E i \in DOMAIN m.props :
                  m.props[i].key = key /\ GetKernPropValue(m, key) = m.props[i].value
<1> DEFINE places == {j \in DOMAIN m.props : key \in Found(m.props[j])}
<1>1. CASE places = {}
  BY <1>1 DEF GetKernPropValue
<1>2. CASE places # {}
  <2>1. places \subseteq 1..4 /\ places \subseteq DOMAIN m.props
    OBVIOUS
  <2> HIDE DEF places
  <2>2. \E l \in places : \A j \in places : l <= j
    <3>1. \A j \in places : j = 1 \/ j = 2 \/ j = 3 \/ j = 4
      BY <2>1
    <3>2. CASE 1 \in places
      BY <3>1, <3>2
    <3>3. CASE 1 \notin places /\ 2 \in places
      BY <3>1, <3>3
    <3>4. CASE 1 \notin places /\ 2 \notin places /\ 3 \in places
      BY <3>1, <3>4
    <3>5. CASE 1 \notin places /\ 2 \notin places /\ 3 \notin places
      BY <1>2, <3>1, <3>5
    <3> QED BY <3>2, <3>3, <3>4, <3>5
  <2>3. Min(places) \in DOMAIN m.props
    BY <2>1, <2>2 DEF Min
  <2>4. GetKernPropValue(m, key) =
            IF m.props[Min(places)].key = key THEN m.props[Min(places)].value
            ELSE NoName
    BY <1>2 DEF GetKernPropValue, places
  <2> QED BY <2>3, <2>4
<1> QED BY <1>1, <1>2

(* The first of the four that understands a message counts.                *)
LEMMA Parsed ==
    ASSUME NEW m
    PROVE  ParseDevdMessage(m) =
               IF DevMonitor(m) # Nothing THEN DevMonitor(m)
               ELSE IF SysMonitor(m) # Nothing THEN SysMonitor(m)
               ELSE IF PciMonitor(m) # Nothing THEN PciMonitor(m)
               ELSE NetMonitor(m)
<1> DEFINE answers == <<DevMonitor(m), SysMonitor(m), PciMonitor(m), NetMonitor(m)>>
           some == {i \in 1..4 : answers[i] # Nothing}
<1>1. /\ answers[1] = DevMonitor(m) /\ answers[2] = SysMonitor(m)
      /\ answers[3] = PciMonitor(m) /\ answers[4] = NetMonitor(m)
  OBVIOUS
<1>2. ParseDevdMessage(m) =
          IF some = {} THEN Nothing ELSE answers[Min(some)]
  BY DEF ParseDevdMessage
<1> HIDE DEF answers
<1>3. ASSUME NEW i \in 1..4, answers[i] # Nothing,
             \A j \in 1..4 : j < i => answers[j] = Nothing
      PROVE  ParseDevdMessage(m) = answers[i]
  <2>1. i \in some /\ some \subseteq 1..4 /\ \A j \in some : i <= j
    BY <1>3
  <2> HIDE DEF some
  <2>2. Min(some) \in some /\ \A j \in some : Min(some) <= j
    BY <2>1 DEF Min
  <2>3. Min(some) <= i /\ i <= Min(some)
    BY <2>1, <2>2
  <2>4. Min(some) = i
    <3>1. Min(some) \in 1..4
      BY <2>1, <2>2
    <3> QED BY <2>3, <3>1
  <2> QED BY <1>2, <2>1, <2>4
<1>4. (\A i \in 1..4 : answers[i] = Nothing) => ParseDevdMessage(m) = Nothing
  BY <1>2
<1> QED BY <1>1, <1>3, <1>4

(* What is found in a property: a word of the kernel holds no name of one. *)
LEMMA FoundIn ==
    ASSUME NEW value, value \in Words \/ (value \in Names /\ Holds[value] = {})
    PROVE  /\ Found(Prop("system", value)) = {"system"}
           /\ Found(Prop("subsystem", value)) = {"subsystem", "system"}
           /\ Found(Prop("type", value)) = {"type"}
<1>1. value \in Names => Holds[value] = {}
  BY MachineAssumption
<1>2. \A key : Found(Prop(key, value)) =
                   {key} \cup (IF key = "subsystem" THEN {"system"} ELSE {})
  BY <1>1 DEF Found, Prop
<1> QED BY <1>2

LEMMA FoundKey ==
    ASSUME NEW key, NEW value
    PROVE  key \in Found(Prop(key, value))
BY DEF Found, Prop

(* devd's message about a node in /dev.                                    *)
LEMMA CdevNotice ==
    ASSUME NEW d \in Devices, d.bus = "cdev", NEW arrives \in BOOLEAN
    PROVE  ParseDevdMessage(Notice(d, arrives)) =
               IF Length[d.name] <= DevRoom
               THEN Told(IF arrives THEN "add" ELSE "remove", "dev", d.name)
               ELSE Nothing
<1> DEFINE m == Notice(d, arrives)
           type == IF arrives THEN "CREATE" ELSE "DESTROY"
<1>1. /\ m.event = "!"
      /\ m.props = << Prop("system", "DEVFS"), Prop("subsystem", "CDEV"),
                      Prop("type", type), Prop("cdev", d.name) >>
  BY DEF Notice, Message
<1>2. /\ DOMAIN m.props = 1..4
      /\ m.props[1] = Prop("system", "DEVFS") /\ m.props[2] = Prop("subsystem", "CDEV")
      /\ m.props[3] = Prop("type", type) /\ m.props[4] = Prop("cdev", d.name)
  BY <1>1
<1> HIDE DEF m, type
<1>3. type \in Words /\ type \in {"CREATE", "DESTROY"}
  BY DEF type, Words
<1>4. /\ Found(m.props[1]) = {"system"}
      /\ Found(m.props[2]) = {"subsystem", "system"}
      /\ Found(m.props[3]) = {"type"} /\ "cdev" \in Found(m.props[4])
  <2>1. {"DEVFS", "CDEV"} \subseteq Words
    BY DEF Words
  <2>2. Found(m.props[1]) = {"system"}
    BY <1>2, <2>1, FoundIn
  <2>3. Found(m.props[2]) = {"subsystem", "system"}
    BY <1>2, <2>1, FoundIn
  <2>4. Found(m.props[3]) = {"type"}
    BY <1>2, <1>3, FoundIn
  <2>5. "cdev" \in Found(m.props[4])
    BY <1>2, FoundKey
  <2> QED BY <2>2, <2>3, <2>4, <2>5
<1>5. GetKernPropValue(m, "system") = "DEVFS"
  BY <1>2, <1>4, Reading DEF Prop
<1>6. GetKernPropValue(m, "subsystem") = "CDEV"
  BY <1>2, <1>4, Reading DEF Prop
<1>7. GetKernPropValue(m, "type") = type
  BY <1>2, <1>4, Reading DEF Prop
<1>8. GetKernPropValue(m, "cdev") = d.name
  BY <1>2, <1>4, Reading DEF Prop
<1>9. d.name # NoName
  BY ProvidersAssumption, DeviceFields
<1>10. DevMonitor(m) = IF Length[d.name] <= DevRoom
                       THEN Told(IF arrives THEN "add" ELSE "remove", "dev", d.name)
                       ELSE Nothing
  BY <1>1, <1>3, <1>5, <1>6, <1>7, <1>8, <1>9 DEF DevMonitor, MatchKernPropValue, type
<1>11. SysMonitor(m) = Nothing /\ PciMonitor(m) = Nothing
  BY <1>1 DEF SysMonitor, PciMonitor
<1>12. NetMonitor(m) = Nothing
  BY <1>5 DEF NetMonitor, MatchKernPropValue
<1> QED BY <1>10, <1>11, <1>12, Parsed DEF m

(* About a device of the bus hierarchy: the PCI provider is not asked.     *)
LEMMA NewbusNotice ==
    ASSUME NEW d \in Devices, d.bus = "newbus", NEW arrives \in BOOLEAN
    PROVE  ParseDevdMessage(Notice(d, arrives)) =
               IF DevInfo
               THEN Told(IF arrives THEN "add" ELSE "remove", "sys", d.name)
               ELSE Nothing
<1> DEFINE m == Notice(d, arrives)
<1>1. m.event = (IF arrives THEN "+" ELSE "-") /\ m.word = d.name
  BY DEF Notice, Message
<1> HIDE DEF m
<1>2. DevMonitor(m) = Nothing /\ NetMonitor(m) = Nothing
  BY <1>1 DEF DevMonitor, NetMonitor
<1>3. SysMonitor(m) = IF DevInfo
                      THEN Told(IF arrives THEN "add" ELSE "remove", "sys", d.name)
                      ELSE Nothing
  BY <1>1 DEF SysMonitor, Arrival
<1>4. ~DevInfo => PciMonitor(m) = Nothing
  BY DEF PciMonitor
<1>5. \A a : Told(a, "sys", d.name) = Nothing => a = "none"
  BY DEF Told, Nothing
<1> QED BY <1>2, <1>3, <1>4, <1>5, Parsed DEF m

(* About a network interface, whose name may make the message unreadable.  *)
LEMMA IfnetNotice ==
    ASSUME NEW d \in Devices, d.bus = "ifnet", NEW arrives \in BOOLEAN
    PROVE  LET told == Told(IF arrives THEN "add" ELSE "remove", "net", d.name)
               parsed == ParseDevdMessage(Notice(d, arrives))
           IN parsed \in {told, Nothing} /\ (Holds[d.name] = {} => parsed = told)
<1> DEFINE m == Notice(d, arrives)
           type == IF arrives THEN "ATTACH" ELSE "DETACH"
           told == Told(IF arrives THEN "add" ELSE "remove", "net", d.name)
<1>1. /\ m.event = "!"
      /\ m.props = << Prop("system", "IFNET"), Prop("subsystem", d.name),
                      Prop("type", type) >>
  BY DEF Notice, Message
<1>2. /\ DOMAIN m.props = 1..3
      /\ m.props[1] = Prop("system", "IFNET")
      /\ m.props[2] = Prop("subsystem", d.name) /\ m.props[3] = Prop("type", type)
  BY <1>1
<1> HIDE DEF m, type, told
<1>3. type \in Words /\ type \in {"ATTACH", "DETACH"}
  BY DEF type, Words
<1>4. /\ Found(m.props[1]) = {"system"} /\ "subsystem" \in Found(m.props[2])
      /\ Found(m.props[3]) = {"type"}
      /\ Holds[d.name] = {} => Found(m.props[2]) = {"subsystem", "system"}
  <2>1. Found(m.props[1]) = {"system"}
    BY <1>2, FoundIn DEF Words
  <2>2. /\ "subsystem" \in Found(m.props[2])
        /\ Holds[d.name] = {} => Found(m.props[2]) = {"subsystem", "system"}
    BY <1>2, FoundIn, FoundKey, DeviceFields
  <2>3. Found(m.props[3]) = {"type"}
    BY <1>2, <1>3, FoundIn
  <2> QED BY <2>1, <2>2, <2>3
<1>5. GetKernPropValue(m, "system") = "IFNET"
  BY <1>2, <1>4, Reading DEF Prop
<1>6. GetKernPropValue(m, "subsystem") = d.name
  BY <1>2, <1>4, Reading DEF Prop
<1>7. Holds[d.name] = {} => GetKernPropValue(m, "type") = type
  BY <1>2, <1>4, Reading DEF Prop
<1>8. GetKernPropValue(m, "type") \in {type, NoName}
  BY <1>2, ReadingAny DEF Prop
<1>9. GetKernPropValue(m, "cdev") = NoName
  BY <1>2, ReadingAny DEF Prop
<1>10. d.name # NoName /\ Length[d.name] <= NetRoom
  BY ProvidersAssumption, MachineAssumption, DeviceFields
<1>11. /\ DevMonitor(m) = Nothing
       /\ SysMonitor(m) = Nothing /\ PciMonitor(m) = Nothing
  BY <1>1, <1>9 DEF DevMonitor, SysMonitor, PciMonitor
<1>12. GetKernPropValue(m, "type") = type => NetMonitor(m) = told
  BY <1>1, <1>3, <1>5, <1>6, <1>10 DEF NetMonitor, MatchKernPropValue, type, told
<1>13. NetMonitor(m) \in {told, Nothing}
  <2>1. CASE GetKernPropValue(m, "type") = type
    BY <1>12, <2>1
  <2>2. CASE GetKernPropValue(m, "type") # type
    <3>1. GetKernPropValue(m, "type") = NoName
      BY <1>8, <2>2
    <3>2. GetKernPropValue(m, "type") \notin {"ATTACH", "DETACH"}
      BY <3>1, MachineAssumption DEF Words
    <3> QED BY <3>2 DEF NetMonitor
  <2> QED BY <2>1, <2>2
<1> QED BY <1>7, <1>11, <1>12, <1>13, Parsed DEF m, told

(* A graphics card whose connectors have changed neither comes nor goes.   *)
LEMMA CardNotice ==
    ASSUME NEW d \in Devices
    PROVE  ParseDevdMessage(HotplugNotice(d))
               \in {Told("change", "dev", d.name), Nothing}
<1> DEFINE m == HotplugNotice(d)
<1>1. /\ m.event = "!"
      /\ m.props = << Prop("system", "DRM"), Prop("subsystem", "CONNECTOR"),
                      Prop("type", "HOTPLUG"), Prop("cdev", d.name) >>
  BY DEF HotplugNotice, Message
<1>2. /\ DOMAIN m.props = 1..4
      /\ m.props[1] = Prop("system", "DRM")
      /\ m.props[2] = Prop("subsystem", "CONNECTOR")
      /\ m.props[3] = Prop("type", "HOTPLUG") /\ m.props[4] = Prop("cdev", d.name)
  BY <1>1
<1> HIDE DEF m
<1>3. /\ Found(m.props[1]) = {"system"}
      /\ Found(m.props[2]) = {"subsystem", "system"}
      /\ Found(m.props[3]) = {"type"} /\ "cdev" \in Found(m.props[4])
  <2>1. Found(m.props[1]) = {"system"}
    BY <1>2, FoundIn DEF Words
  <2>2. Found(m.props[2]) = {"subsystem", "system"}
    BY <1>2, FoundIn DEF Words
  <2>3. Found(m.props[3]) = {"type"}
    BY <1>2, FoundIn DEF Words
  <2>4. "cdev" \in Found(m.props[4])
    BY <1>2, FoundKey
  <2> QED BY <2>1, <2>2, <2>3, <2>4
<1>4. GetKernPropValue(m, "system") = "DRM"
  BY <1>2, <1>3, Reading DEF Prop
<1>5. GetKernPropValue(m, "type") = "HOTPLUG"
  BY <1>2, <1>3, Reading DEF Prop
<1>6. GetKernPropValue(m, "cdev") = d.name
  BY <1>2, <1>3, Reading DEF Prop
<1>7. DevMonitor(m) \in {Told("change", "dev", d.name), Nothing}
  BY <1>5, <1>6 DEF DevMonitor
<1>8. SysMonitor(m) = Nothing /\ PciMonitor(m) = Nothing
  BY <1>1 DEF SysMonitor, PciMonitor
<1>9. NetMonitor(m) = Nothing
  BY <1>4 DEF NetMonitor, MatchKernPropValue
<1> QED BY <1>7, <1>8, <1>9, Parsed DEF m

-----------------------------------------------------------------------------
(* The enumeration and the messages name the same paths.                   *)

(* A path that can be followed is shown by one provider and for one        *)
(* device, also where it is a message that it is known from.               *)
LEMMA FollowedPath ==
    ASSUME NEW d \in Devices, NEW p \in Followed(d)
    PROVE  /\ p = Path(Root(d), d.name) /\ Holds[d.name] = {}
           /\ p \in Wanted /\ p \in Enumerate(Place(d), d)
           /\ d.bus = "cdev" => Length[d.name] <= DevRoom
           /\ d.bus = "newbus" => DevInfo
<1> DEFINE Fits == /\ d.bus = "cdev" => Length[d.name] <= DevRoom
                   /\ d.bus = "newbus" => DevInfo
<1>1. p \in Wanted /\ p.root # "pci" /\ Holds[d.name] = {}
  BY DEF Followed
<1>2. d.bus \in {"cdev", "newbus", "ifnet"}
  BY DeviceFields
<1>3. ASSUME p \in ShownOf(d) PROVE p = Path(Root(d), d.name) /\ Fits
  <2>1. PICK n \in 1..4 : p \in Enumerate(n, d)
    BY <1>3 DEF ShownOf
  <2>2. p \in DevEnumerate(d) \cup SysEnumerate(d) \cup PciEnumerate(d)
             \cup NetEnumerate(d)
    BY <2>1 DEF Enumerate
  <2>3. p \notin PciEnumerate(d)
    BY <1>1 DEF PciEnumerate, Path
  <2>4. CASE p \in DevEnumerate(d)
    BY <2>4 DEF DevEnumerate, ScanRoom, DevRoom, Root
  <2>5. CASE p \in SysEnumerate(d)
    BY <2>5 DEF SysEnumerate, Root
  <2>6. CASE p \in NetEnumerate(d)
    BY <2>6 DEF NetEnumerate, Root
  <2> QED BY <2>2, <2>3, <2>4, <2>5, <2>6
<1>4. ASSUME p \in ToldOf(d) PROVE p = Path(Root(d), d.name) /\ Fits
  <2>1. PICK arrives \in BOOLEAN : p = Understood[Notice(d, arrives)].path /\ p # NoName
    BY <1>4 DEF ToldOf
  <2> DEFINE parsed == ParseDevdMessage(Notice(d, arrives))
             told == Told(IF arrives THEN "add" ELSE "remove", Root(d), d.name)
  <2>2. p = parsed.path
    BY <2>1 DEF Understood, Messages
  <2>3. parsed # Nothing
    BY <2>1, <2>2 DEF Nothing
  <2>4. parsed = told /\ Fits
    <3>1. CASE d.bus = "cdev"
      BY <2>3, <3>1, CdevNotice DEF Root
    <3>2. CASE d.bus = "newbus"
      BY <2>3, <3>2, NewbusNotice DEF Root
    <3>3. CASE d.bus = "ifnet"
      BY <2>3, <3>3, IfnetNotice DEF Root
    <3> QED BY <1>2, <3>1, <3>2, <3>3
  <2> QED BY <2>2, <2>4 DEF Told
<1>5. p = Path(Root(d), d.name) /\ Fits
  BY <1>3, <1>4 DEF Followed
<1>6. p \in Enumerate(Place(d), d)
  <2>1. CASE d.bus = "cdev"
    BY <1>5, <2>1 DEF Enumerate, DevEnumerate, ScanRoom, DevRoom, Root, Place
  <2>2. CASE d.bus = "newbus"
    BY <1>5, <2>2 DEF Enumerate, SysEnumerate, Root, Place
  <2>3. CASE d.bus = "ifnet"
    BY <1>5, <2>3 DEF Enumerate, NetEnumerate, Root, Place
  <2> QED BY <1>2, <2>1, <2>2, <2>3
<1> QED BY <1>1, <1>5, <1>6

LEMMA ShownOnce ==
    ASSUME NEW d \in Devices, NEW p \in Followed(d),
           NEW e \in Devices, NEW n \in 1..4, p \in Enumerate(n, e)
    PROVE  e = d /\ n = Place(d)
<1>1. p.root = Root(d) /\ p.name = d.name
  BY FollowedPath DEF Path
<1>2. d.bus \in {"cdev", "newbus", "ifnet"}
  BY DeviceFields
<1>3. CASE n = 1
  <2>1. p \in DevEnumerate(e)
    BY <1>3 DEF Enumerate
  <2>2. e.bus = "cdev" /\ p.root = "dev" /\ p.name = e.name
    BY <2>1 DEF DevEnumerate, Path
  <2>3. d.bus = "cdev" /\ Place(d) = 1
    BY <1>1, <1>2, <2>2 DEF Root, Place
  <2> QED BY <1>1, <1>3, <2>2, <2>3, MachineAssumption
<1>4. CASE n = 2
  <2>1. p \in SysEnumerate(e)
    BY <1>4 DEF Enumerate
  <2>2. e.bus = "newbus" /\ p.root = "sys" /\ p.name = e.name
    BY <2>1 DEF SysEnumerate, Path
  <2>3. d.bus = "newbus" /\ Place(d) = 2
    BY <1>1, <1>2, <2>2 DEF Root, Place
  <2> QED BY <1>1, <1>4, <2>2, <2>3, MachineAssumption
<1>5. CASE n = 3
  <2>1. p \in PciEnumerate(e)
    BY <1>5 DEF Enumerate
  <2>2. p.root = "pci"
    BY <2>1 DEF PciEnumerate, Path
  <2> QED BY <2>2 DEF Followed
<1>6. CASE n = 4
  <2>1. p \in NetEnumerate(e)
    BY <1>6 DEF Enumerate
  <2>2. e.bus = "ifnet" /\ p.root = "net" /\ p.name = e.name
    BY <2>1 DEF NetEnumerate, Path
  <2>3. d.bus = "ifnet" /\ Place(d) = 4
    BY <1>1, <1>2, <2>2 DEF Root, Place
  <2> QED BY <1>1, <1>6, <2>2, <2>3, MachineAssumption
<1> QED BY <1>3, <1>4, <1>5, <1>6

-----------------------------------------------------------------------------
(* What the messages say of the path of a device.                          *)

LEMMA NoticeSays ==
    ASSUME NEW d \in Devices, NEW p \in Followed(d), NEW e \in Devices,
           NEW arrives \in BOOLEAN
    PROVE  LET event == Understood[Notice(e, arrives)]
           IN /\ Notice(e, arrives) \in Messages
              /\ Says(event, p) <=> e = d
              /\ e = d => (Adds(event, p) <=> arrives)
<1> DEFINE m == Notice(e, arrives)
           action == IF arrives THEN "add" ELSE "remove"
           told == Told(action, Root(e), e.name)
<1>1. m \in Messages /\ Understood[m] = ParseDevdMessage(m)
  BY DEF Messages, Understood
<1>2. p.root = Root(d) /\ p.name = d.name /\ p = Path(Root(d), d.name)
  BY FollowedPath DEF Path
<1>3. Understood[m] \in {told, Nothing} /\ (e = d => Understood[m] = told)
  <2>1. CASE e.bus = "cdev"
    <3>1. Root(e) = "dev"
      BY <2>1 DEF Root
    <3>2. e = d => Length[e.name] <= DevRoom
      BY <2>1, FollowedPath
    <3> QED BY <1>1, <2>1, <3>1, <3>2, CdevNotice
  <2>2. CASE e.bus = "newbus"
    <3>1. Root(e) = "sys"
      BY <2>2 DEF Root
    <3>2. e = d => DevInfo
      BY <2>2, FollowedPath
    <3> QED BY <1>1, <2>2, <3>1, <3>2, NewbusNotice
  <2>3. CASE e.bus = "ifnet"
    <3>1. Root(e) = "net"
      BY <2>3 DEF Root
    <3>2. e = d => Holds[e.name] = {}
      BY FollowedPath
    <3> QED BY <1>1, <2>3, <3>1, <3>2, IfnetNotice
  <2> QED BY <2>1, <2>2, <2>3, DeviceFields
<1>4. ~Says(Nothing, p) /\ (Adds(told, p) => Says(told, p))
  BY DEF Says, Adds, Nothing
<1>5. e = d => Says(told, p) /\ (Adds(told, p) <=> arrives)
  BY <1>2 DEF Says, Adds, Told, Path
<1>6. Says(told, p) => e = d
  <2> SUFFICES ASSUME Says(told, p) PROVE e = d
    OBVIOUS
  <2>1. Path(Root(e), e.name) = p
    BY DEF Says, Told
  <2>2. Root(e) = Root(d) /\ e.name = d.name
    BY <1>2, <2>1 DEF Path
  <2>3. e.bus = d.bus
    BY <2>2, DeviceFields DEF Root
  <2> QED BY <2>2, <2>3, MachineAssumption
<1> QED BY <1>1, <1>3, <1>4, <1>5, <1>6

LEMMA CardSays ==
    ASSUME NEW e \in Devices, NEW p
    PROVE  /\ HotplugNotice(e) \in Messages
           /\ ~Says(Understood[HotplugNotice(e)], p)
<1>1. /\ HotplugNotice(e) \in Messages
      /\ Understood[HotplugNotice(e)] = ParseDevdMessage(HotplugNotice(e))
  BY DEF Messages, Understood
<1>2. Understood[HotplugNotice(e)].action \in {"change", "none"}
  BY <1>1, CardNotice DEF Told, Nothing
<1> QED BY <1>1, <1>2 DEF Says

(* An event that passes the filters is one of the channel's.               *)
LEMMA EventType ==
    ASSUME NEW m \in Messages, Understood[m] # Nothing, Understood[m].path \in Wanted
    PROVE  Understood[m] \in DeviceEvent
<1>1. Understood[m].path \in Paths
  BY DEF Wanted
<1>2. \E a \in {"add", "remove", "change"} :
          \E r, n : Understood[m] = Told(a, r, n)
  <2>1. CASE \E e \in Devices, x \in BOOLEAN : m = Notice(e, x)
    <3>1. PICK e \in Devices, x \in BOOLEAN : m = Notice(e, x)
      BY <2>1
    <3>2. Understood[m] = ParseDevdMessage(m)
      BY DEF Understood
    <3>3. (IF x THEN "add" ELSE "remove") \in {"add", "remove", "change"}
      OBVIOUS
    <3>4. CASE e.bus = "cdev"
      BY <3>1, <3>2, <3>3, <3>4, CdevNotice
    <3>5. CASE e.bus = "newbus"
      BY <3>1, <3>2, <3>3, <3>5, NewbusNotice
    <3>6. CASE e.bus = "ifnet"
      BY <3>1, <3>2, <3>3, <3>6, IfnetNotice
    <3> QED BY <3>4, <3>5, <3>6, DeviceFields
  <2>2. CASE \E e \in Devices : m = HotplugNotice(e)
    BY <2>2, CardNotice DEF Understood
  <2> QED BY <2>1, <2>2 DEF Messages
<1>3. PICK a, r, n : /\ Understood[m] = Told(a, r, n)
                     /\ a \in {"add", "remove", "change"}
  BY <1>2
<1> QED BY <1>1, <1>3 DEF Told, DeviceEvent

-----------------------------------------------------------------------------
(* The inductive invariant.                                                *)

(* An event as the application takes it.                                   *)
Same == [e \in DeviceEvent |-> e]

(* Whether there is a device of path p after all that is on its way, if    *)
(* there is one now just if b.                                             *)
Way(told, sent, published, from, p, b) ==
    After(told, 0, Understood, p,
          After(sent, 0, Understood, p, After(published, from, Same, p, b)))
LastWord(p, b) == Way(notices, sock, log, taken, p, b)

(* The scan has looked for d, or is over.                                  *)
Seen(d) ==
    \/ apc = "following"
    \/ /\ apc = "scanning"
       /\ Place(d) < provider \/ (Place(d) = provider /\ d \notin todo)

SessionType ==
    /\ present \subseteq Devices
    /\ notices \in Seq(Messages) /\ sock \in Seq(Messages)
    /\ log \in Seq(DeviceEvent)
    /\ announced \in 0..Len(log) /\ taken \in 0..announced
    /\ connected \in BOOLEAN /\ provider \in 0..4 /\ todo \subseteq Devices
    /\ apc \in {"start", "enabled", "scanning", "following"}
    /\ apc = "scanning" => provider # 0

(* The scan comes after the connection, and nothing is sent before it.     *)
ScanAfterConnect ==
    /\ ~connected => sock = <<>> /\ log = <<>>
    /\ apc \in {"scanning", "following"} => connected

(* The last word that is on its way about a device is true.                *)
LastWordTrue ==
    \A d \in Devices : \A p \in Followed(d) :
        LastWord(p, d \in present) <=> d \in present

(* Nothing is believed to be there before the scan has looked for it.      *)
UnseenUnknown ==
    \A d \in Devices : \A p \in Followed(d) : ~Seen(d) => p \notin known

(* What was seen and what is on its way add up to what there is.           *)
WaySettles ==
    \A d \in Devices : \A p \in Followed(d) :
        Seen(d) => (LastWord(p, p \in known) <=> d \in present)

SessionInv ==
    /\ SessionType /\ ScanAfterConnect
    /\ LastWordTrue /\ UnseenUnknown /\ WaySettles

-----------------------------------------------------------------------------
(* What steps do to the last word.                                         *)

LEMMA AfterSame ==
    ASSUME NEW s, NEW k, NEW f, NEW p, NEW b \in BOOLEAN, NEW c \in BOOLEAN, b <=> c
    PROVE  After(s, k, f, p, b) <=> After(s, k, f, p, c)
BY DEF After

LEMMA AfterBoolean ==
    ASSUME NEW s, NEW k, NEW f, NEW p, NEW b \in BOOLEAN
    PROVE  After(s, k, f, p, b) \in BOOLEAN
BY DEF After

LEMMA WordBoolean ==
    ASSUME NEW e, NEW p, NEW b \in BOOLEAN
    PROVE  Word(e, p, b) \in BOOLEAN
BY DEF Word, Adds

LEMMA WaySame ==
    ASSUME NEW n, NEW s, NEW l, NEW t, NEW p, NEW b \in BOOLEAN, NEW c \in BOOLEAN,
           b <=> c
    PROVE  /\ Way(n, s, l, t, p, b) <=> Way(n, s, l, t, p, c)
           /\ Way(n, s, l, t, p, b) \in BOOLEAN
<1> DEFINE L(x) == After(l, t, Same, p, x)
           S(x) == After(s, 0, Understood, p, L(x))
<1>1. L(b) \in BOOLEAN /\ L(c) \in BOOLEAN /\ (L(b) <=> L(c))
  BY AfterSame, AfterBoolean
<1>2. S(b) \in BOOLEAN /\ S(c) \in BOOLEAN /\ (S(b) <=> S(c))
  <2> HIDE DEF L
  <2> QED BY <1>1, AfterSame, AfterBoolean
<1>3. /\ After(n, 0, Understood, p, S(b)) <=> After(n, 0, Understood, p, S(c))
      /\ After(n, 0, Understood, p, S(b)) \in BOOLEAN
  <2> HIDE DEF S
  <2> QED BY <1>2, AfterSame, AfterBoolean
<1> QED BY <1>3 DEF Way

(* Either something is said of the path, or what was before stays.         *)
LEMMA WayBase ==
    ASSUME NEW n, NEW s, NEW l, NEW t, NEW p, NEW b \in BOOLEAN, NEW c \in BOOLEAN
    PROVE  \/ Way(n, s, l, t, p, b) <=> Way(n, s, l, t, p, c)
           \/ /\ Way(n, s, l, t, p, b) <=> b
              /\ Way(n, s, l, t, p, c) <=> c
<1> DEFINE L(x) == After(l, t, Same, p, x)
           S(x) == After(s, 0, Understood, p, L(x))
<1>1. L(b) \in BOOLEAN /\ L(c) \in BOOLEAN
  BY AfterBoolean
<1>2. \/ L(b) <=> L(c)
      \/ (L(b) <=> b) /\ (L(c) <=> c)
  BY AfterSilence
<1> HIDE DEF L
<1>3. S(b) \in BOOLEAN /\ S(c) \in BOOLEAN
  BY <1>1, AfterBoolean
<1>4. \/ S(b) <=> S(c)
      \/ (S(b) <=> L(b)) /\ (S(c) <=> L(c))
  BY <1>1, AfterSilence
<1> HIDE DEF S
<1>5. \/ After(n, 0, Understood, p, S(b)) <=> After(n, 0, Understood, p, S(c))
      \/ /\ After(n, 0, Understood, p, S(b)) <=> S(b)
         /\ After(n, 0, Understood, p, S(c)) <=> S(c)
  BY <1>3, AfterSilence
<1>6. \A x : Way(n, s, l, t, p, x) = After(n, 0, Understood, p, S(x))
  BY DEF Way, S, L
<1>7. CASE S(b) <=> S(c)
  BY <1>3, <1>6, <1>7, AfterSame
<1>8. CASE (S(b) <=> L(b)) /\ (S(c) <=> L(c))
  <2>1. CASE L(b) <=> L(c)
    BY <1>7, <1>8, <2>1
  <2>2. CASE (L(b) <=> b) /\ (L(c) <=> c)
    BY <1>5, <1>6, <1>8, <2>2
  <2> QED BY <1>2, <2>1, <2>2
<1> QED BY <1>4, <1>7, <1>8

(* The kernel tells devd.                                                  *)
LEMMA WayTell ==
    ASSUME NEW n \in Seq(Messages), NEW m \in Messages,
           NEW s, NEW l, NEW t, NEW p, NEW b \in BOOLEAN
    PROVE  Way(Append(n, m), s, l, t, p, b)
               <=> Word(Understood[m], p, Way(n, s, l, t, p, b))
<1> DEFINE S == After(s, 0, Understood, p, After(l, t, Same, p, b))
<1>1. S \in BOOLEAN
  BY AfterBoolean
<1> HIDE DEF S
<1>2. Len(n) \in Nat /\ 0 \in 0..Len(n)
  OBVIOUS
<1>3. After(Append(n, m), 0, Understood, p, S)
          <=> Word(Understood[m], p, After(n, 0, Understood, p, S))
  BY <1>1, <1>2, AfterAppend
<1> QED BY <1>3 DEF Way, S

(* devd sends it to the thread.                                            *)
LEMMA WayBroadcast ==
    ASSUME NEW n \in Seq(Messages), n # <<>>, NEW s \in Seq(Messages),
           NEW l, NEW t, NEW p, NEW b \in BOOLEAN
    PROVE  Way(Tail(n), Append(s, Head(n)), l, t, p, b) <=> Way(n, s, l, t, p, b)
<1> DEFINE m == Head(n)
           L == After(l, t, Same, p, b)
           S == After(s, 0, Understood, p, L)
           T == After(Append(s, m), 0, Understood, p, L)
<1>1. m \in Messages /\ Tail(n) \in Seq(Messages) /\ 0 \in 0..Len(s)
  OBVIOUS
<1>2. L \in BOOLEAN
  BY AfterBoolean
<1> HIDE DEF L, m
<1>3. T \in BOOLEAN /\ S \in BOOLEAN /\ (T <=> Word(Understood[m], p, S))
  BY <1>1, <1>2, AfterAppend, AfterBoolean
<1> HIDE DEF S, T
<1>4. After(n, 0, Understood, p, S)
          <=> After(Tail(n), 0, Understood, p, Word(Understood[m], p, S))
  BY <1>3, AfterTail DEF m
<1>5. After(Tail(n), 0, Understood, p, Word(Understood[m], p, S))
          <=> After(Tail(n), 0, Understood, p, T)
  BY <1>3, WordBoolean, AfterSame
<1> QED BY <1>4, <1>5 DEF Way, S, T, L, m

(* A message of devd that nobody listens to.                               *)
LEMMA WayDrop ==
    ASSUME NEW n \in Seq(Messages), n # <<>>, NEW p, NEW b \in BOOLEAN
    PROVE  Way(n, <<>>, <<>>, 0, p, b)
               <=> Way(Tail(n), <<>>, <<>>, 0, p, Word(Understood[Head(n)], p, b))
<1> DEFINE w == Word(Understood[Head(n)], p, b)
           S(x) == After(<<>>, 0, Understood, p, After(<<>>, 0, Same, p, x))
<1>1. w \in BOOLEAN
  BY WordBoolean
<1>2. /\ Silent(<<>>, 0, Understood, p) /\ Silent(<<>>, 0, Same, p)
  BY DEF Silent
<1> HIDE DEF w
<1>3. (S(b) <=> b) /\ (S(w) <=> w) /\ S(b) \in BOOLEAN /\ S(w) \in BOOLEAN
  BY <1>1, <1>2, AfterSilence, AfterBoolean
<1> HIDE DEF S
<1>4. After(n, 0, Understood, p, b) <=> After(Tail(n), 0, Understood, p, w)
  BY AfterTail DEF w
<1>5. After(n, 0, Understood, p, S(b)) <=> After(n, 0, Understood, p, b)
  BY <1>3, AfterSame
<1>6. After(Tail(n), 0, Understood, p, S(w)) <=> After(Tail(n), 0, Understood, p, w)
  BY <1>1, <1>3, AfterSame
<1> QED BY <1>4, <1>5, <1>6 DEF Way, S, w

(* The thread publishes what it has understood, or passes over it.         *)
LEMMA WayForward ==
    ASSUME NEW s \in Seq(Messages), s # <<>>, NEW l \in Seq(DeviceEvent),
           NEW t \in 0..Len(l), NEW n, NEW p, NEW b \in BOOLEAN
    PROVE  LET e == Understood[Head(s)]
           IN /\ e \in DeviceEvent =>
                     (Way(n, Tail(s), Append(l, e), t, p, b) <=> Way(n, s, l, t, p, b))
              /\ ~Says(e, p) =>
                     (Way(n, Tail(s), l, t, p, b) <=> Way(n, s, l, t, p, b))
<1> DEFINE e == Understood[Head(s)]
           L == After(l, t, Same, p, b)
           M == After(Append(l, e), t, Same, p, b)
           S == After(s, 0, Understood, p, L)
<1>1. L \in BOOLEAN /\ M \in BOOLEAN
  BY AfterBoolean
<1>2. e \in DeviceEvent => (M <=> Word(e, p, L))
  <2>1. ASSUME e \in DeviceEvent PROVE Same[e] = e
    BY <2>1 DEF Same
  <2> QED BY <2>1, AfterAppend
<1> HIDE DEF e, L, M
<1>3. S <=> After(Tail(s), 0, Understood, p, Word(e, p, L))
  BY <1>1, AfterTail DEF e
<1>4. ASSUME e \in DeviceEvent
      PROVE  S <=> After(Tail(s), 0, Understood, p, M)
  BY <1>1, <1>2, <1>3, <1>4, WordBoolean, AfterSame
<1>5. ASSUME ~Says(e, p)
      PROVE  S <=> After(Tail(s), 0, Understood, p, L)
  BY <1>3, <1>5 DEF Word
<1>6. ASSUME NEW x \in BOOLEAN, S <=> After(Tail(s), 0, Understood, p, x)
      PROVE  After(n, 0, Understood, p, After(Tail(s), 0, Understood, p, x))
                 <=> After(n, 0, Understood, p, S)
  BY <1>1, <1>6, AfterBoolean, AfterSame
<1> HIDE DEF S
<1> QED BY <1>1, <1>4, <1>5, <1>6 DEF Way, e, L, M, S

(* The application takes an event.                                         *)
LEMMA WayTake ==
    ASSUME NEW l \in Seq(DeviceEvent), NEW t \in 0..Len(l) - 1,
           NEW n, NEW s, NEW p, NEW b \in BOOLEAN
    PROVE  Way(n, s, l, t, p, b) <=> Way(n, s, l, t + 1, p, Word(l[t + 1], p, b))
<1> DEFINE w == Word(l[t + 1], p, b)
           K == After(l, t, Same, p, b)
           L == After(l, t + 1, Same, p, w)
           R(x) == After(s, 0, Understood, p, x)
<1>1. l[t + 1] \in DeviceEvent /\ Same[l[t + 1]] = l[t + 1]
  BY DEF Same
<1>2. K <=> L
  BY <1>1, AfterNext
<1>3. w \in BOOLEAN
  BY WordBoolean
<1> HIDE DEF w
<1>4. K \in BOOLEAN /\ L \in BOOLEAN
  BY <1>3, AfterBoolean
<1> HIDE DEF K, L
<1>5. R(K) \in BOOLEAN /\ R(L) \in BOOLEAN /\ (R(K) <=> R(L))
  BY <1>2, <1>4, AfterBoolean, AfterSame
<1> HIDE DEF R
<1>6. After(n, 0, Understood, p, R(K)) <=> After(n, 0, Understood, p, R(L))
  BY <1>5, AfterSame
<1> QED BY <1>6 DEF Way, R, K, L, w

-----------------------------------------------------------------------------
(* The steps keep the invariant.                                           *)

(* Where nothing is said of a path, what was before stays.                 *)
LEMMA WaySilent ==
    ASSUME NEW n, NEW s, NEW l, NEW t, NEW p, NEW b \in BOOLEAN,
           Silent(n, 0, Understood, p), Silent(s, 0, Understood, p),
           Silent(l, t, Same, p)
    PROVE  Way(n, s, l, t, p, b) <=> b
<1> DEFINE L == After(l, t, Same, p, b)
           S == After(s, 0, Understood, p, L)
<1>1. L \in BOOLEAN /\ (L <=> b)
  BY AfterSilence
<1> HIDE DEF L
<1>2. S \in BOOLEAN /\ (S <=> L)
  BY <1>1, AfterSilence
<1> HIDE DEF S
<1>3. After(n, 0, Understood, p, S) <=> S
  BY <1>2, AfterSilence
<1> QED BY <1>1, <1>2, <1>3 DEF Way, S, L

LEMMA SessionInit == Init => SessionInv
<1> SUFFICES ASSUME Init PROVE SessionInv
  OBVIOUS
<1>1. /\ notices = <<>> /\ sock = <<>> /\ log = <<>> /\ taken = 0
      /\ announced = 0 /\ connected = FALSE /\ apc = "start" /\ provider = 0
      /\ todo = {} /\ known = {} /\ present \subseteq Devices
  BY DEF Init, Channel!Init
<1>2. SessionType
  <2>1. /\ notices \in Seq(Messages) /\ sock \in Seq(Messages)
        /\ log \in Seq(DeviceEvent) /\ Len(log) = 0
    BY <1>1
  <2>2. connected \in BOOLEAN
    BY <1>1
  <2>3. /\ announced \in 0..Len(log) /\ taken \in 0..announced
        /\ provider \in 0..4 /\ todo \subseteq Devices
    BY <1>1, <2>1
  <2>4. apc \in {"start", "enabled", "scanning", "following"}
    BY <1>1
  <2> QED BY <1>1, <2>1, <2>2, <2>3, <2>4 DEF SessionType
<1>3. ScanAfterConnect /\ UnseenUnknown /\ WaySettles
  BY <1>1 DEF ScanAfterConnect, UnseenUnknown, WaySettles, Seen
<1>4. ASSUME NEW d \in Devices, NEW p \in Followed(d)
      PROVE  LastWord(p, d \in present) <=> d \in present
  <2> DEFINE b == d \in present
  <2>1. b \in BOOLEAN
    OBVIOUS
  <2> HIDE DEF b
  <2>2. /\ Silent(log, taken, Same, p)
        /\ Silent(notices, 0, Understood, p) /\ Silent(sock, 0, Understood, p)
    BY <1>1 DEF Silent
  <2>3. LastWord(p, b) <=> b
    BY <2>1, <2>2, WaySilent DEF LastWord
  <2> QED BY <2>3 DEF b
<1> QED BY <1>2, <1>3, <1>4 DEF SessionInv, LastWordTrue

(* The kernel tells devd of a device.                                      *)
LEMMA TellInv ==
    ASSUME SessionInv, NEW m \in Messages, notices' = Append(notices, m),
           UNCHANGED <<connected, sock, channel, apc, scan, known>>,
           present' \subseteq Devices,
           \A d \in Devices : \A p \in Followed(d) :
               d \in present' <=> Word(Understood[m], p, d \in present)
    PROVE  SessionInv'
<1>1. /\ UNCHANGED <<connected, sock, log, announced, taken, closed>>
      /\ UNCHANGED <<apc, provider, todo, known>>
  BY DEF channel, scan
<1>2. SessionType'
  BY <1>1 DEF SessionInv, SessionType
<1>3. ScanAfterConnect' /\ UnseenUnknown'
  BY <1>1 DEF SessionInv, ScanAfterConnect, UnseenUnknown, Seen
<1>4. ASSUME NEW d \in Devices, NEW p \in Followed(d)
      PROVE  /\ LastWord(p, d \in present)' <=> d \in present'
             /\ Seen(d)' => (LastWord(p, p \in known)' <=> d \in present')
  <2> DEFINE b == d \in present
             c == d \in present'
             k == p \in known
             W(x) == Way(notices, sock, log, taken, p, x)
             V(x) == Way(notices', sock, log, taken, p, x)
  <2>1. b \in BOOLEAN /\ c \in BOOLEAN /\ k \in BOOLEAN
    OBVIOUS
  <2>2. (W(b) <=> b) /\ (Seen(d) => (W(k) <=> b))
    BY DEF SessionInv, LastWordTrue, WaySettles, LastWord
  <2>3. c <=> Word(Understood[m], p, b)
    OBVIOUS
  <2>4. /\ LastWord(p, d \in present)' = V(c)
        /\ LastWord(p, p \in known)' = V(k)
        /\ Seen(d)' <=> Seen(d)
    BY <1>1 DEF LastWord, Seen
  <2> HIDE DEF b, c, k
  <2>5. \A x \in BOOLEAN : V(x) <=> Word(Understood[m], p, W(x))
    BY WayTell DEF SessionInv, SessionType
  <2> HIDE DEF W, V
  <2>6. V(c) <=> c
    <3>1. CASE Says(Understood[m], p)
      BY <2>1, <2>3, <2>5, <3>1 DEF Word
    <3>2. CASE ~Says(Understood[m], p)
      <4>1. c = b
        BY <2>1, <2>3, <3>2 DEF Word
      <4> QED BY <2>1, <2>2, <2>5, <3>2, <4>1 DEF Word
    <3> QED BY <3>1, <3>2
  <2>7. (W(k) <=> b) => (V(k) <=> c)
    BY <2>1, <2>3, <2>5 DEF Word
  <2> QED BY <2>2, <2>4, <2>6, <2>7 DEF c
<1> QED BY <1>2, <1>3, <1>4 DEF SessionInv, LastWordTrue, WaySettles

(* A step that neither the kernel nor the application's picture is in, and *)
(* that loses no word of what is on its way.                               *)
LEMMA WayKept ==
    ASSUME SessionInv, UNCHANGED <<present, known>>,
           \A d \in Devices : \A p \in Followed(d) : Seen(d)' <=> Seen(d),
           \A d \in Devices : \A p \in Followed(d) : \A x \in BOOLEAN :
               Way(notices', sock', log', taken', p, x)
                   <=> Way(notices, sock, log, taken, p, x)
    PROVE  LastWordTrue' /\ UnseenUnknown' /\ WaySettles'
<1>1. UnseenUnknown'
  BY DEF SessionInv, UnseenUnknown
<1>2. ASSUME NEW d \in Devices, NEW p \in Followed(d)
      PROVE  /\ LastWord(p, d \in present)' <=> d \in present'
             /\ Seen(d)' => (LastWord(p, p \in known)' <=> d \in present')
  <2> DEFINE b == d \in present
             k == p \in known
             W(x) == Way(notices, sock, log, taken, p, x)
             V(x) == Way(notices', sock', log', taken', p, x)
  <2>1. b \in BOOLEAN /\ k \in BOOLEAN /\ (d \in present' <=> b)
    OBVIOUS
  <2>2. (W(b) <=> b) /\ (Seen(d) => (W(k) <=> b))
    BY DEF SessionInv, LastWordTrue, WaySettles, LastWord
  <2>3. /\ LastWord(p, d \in present)' = V(b)
        /\ LastWord(p, p \in known)' = V(k)
    BY DEF LastWord
  <2> HIDE DEF b, k
  <2>4. (V(b) <=> W(b)) /\ (V(k) <=> W(k))
    BY <2>1
  <2> HIDE DEF W, V
  <2> QED BY <2>1, <2>2, <2>3, <2>4
<1> QED BY <1>1, <1>2 DEF LastWordTrue, WaySettles

LEMMA BroadcastInv ==
    ASSUME SessionInv, Broadcast
    PROVE  SessionInv'
<1>1. /\ UNCHANGED <<present, connected, log, announced, taken>>
      /\ UNCHANGED <<apc, provider, todo, known>>
      /\ notices # <<>> /\ notices' = Tail(notices)
      /\ sock' = IF connected THEN Append(sock, Head(notices)) ELSE sock
  BY DEF Broadcast, kernel, channel, scan
<1>2. /\ notices \in Seq(Messages) /\ sock \in Seq(Messages)
      /\ connected \in BOOLEAN /\ taken \in 0..announced /\ announced \in 0..Len(log)
  BY DEF SessionInv, SessionType
<1>3. Head(notices) \in Messages /\ notices' \in Seq(Messages)
  BY <1>1, <1>2
<1>4. SessionType'
  BY <1>1, <1>2, <1>3 DEF SessionInv, SessionType
<1>5. ScanAfterConnect'
  BY <1>1 DEF SessionInv, ScanAfterConnect
<1>6. \A d \in Devices : Seen(d)' <=> Seen(d)
  BY <1>1 DEF Seen
<1>7. CASE connected
  <2>1. ASSUME NEW p, NEW x \in BOOLEAN
        PROVE  Way(notices', sock', log', taken', p, x)
                   <=> Way(notices, sock, log, taken, p, x)
    BY <1>1, <1>2, <1>7, WayBroadcast
  <2>2. LastWordTrue' /\ UnseenUnknown' /\ WaySettles'
    BY <1>1, <1>6, <2>1, WayKept
  <2> QED BY <1>4, <1>5, <2>2 DEF SessionInv
(* Nobody listens: what was said is lost, but so far nothing was seen.     *)
<1>8. CASE ~connected
  <2>1. /\ sock = <<>> /\ sock' = <<>> /\ log = <<>> /\ log' = <<>>
        /\ taken = 0 /\ taken' = 0 /\ \A d \in Devices : ~Seen(d)
    <3>1. sock = <<>> /\ log = <<>> /\ apc \notin {"scanning", "following"}
      BY <1>8 DEF SessionInv, ScanAfterConnect
    <3>2. Len(log) = 0
      BY <3>1
    <3> QED BY <1>1, <1>2, <1>8, <3>1, <3>2 DEF Seen
  <2>2. UnseenUnknown' /\ WaySettles'
    BY <1>1, <1>6, <2>1 DEF SessionInv, UnseenUnknown, WaySettles
  <2>3. ASSUME NEW d \in Devices, NEW p \in Followed(d)
        PROVE  LastWord(p, d \in present)' <=> d \in present'
    <3> DEFINE b == d \in present
               w == Word(Understood[Head(notices)], p, b)
               W(x) == Way(notices, <<>>, <<>>, 0, p, x)
               V(x) == Way(Tail(notices), <<>>, <<>>, 0, p, x)
    <3>1. b \in BOOLEAN
      OBVIOUS
    <3>2. (W(b) <=> b)
      BY <2>1 DEF SessionInv, LastWordTrue, LastWord
    <3>3. LastWord(p, d \in present)' = V(b)
      BY <1>1, <2>1 DEF LastWord
    <3>4. (d \in present') = b
      BY <1>1
    <3> HIDE DEF b
    <3>5. w \in BOOLEAN /\ (W(b) <=> V(w))
      BY <1>1, <1>2, <3>1, WayDrop, WordBoolean
    <3> HIDE DEF w
    <3>6. (V(w) <=> V(b)) \/ ((V(w) <=> w) /\ (V(b) <=> b))
      BY <3>1, <3>5, WayBase
    <3> HIDE DEF W, V
    <3>7. V(b) <=> b
      BY <3>1, <3>2, <3>5, <3>6
    <3> QED BY <3>3, <3>4, <3>7
  <2>4. LastWordTrue'
    BY <2>3 DEF LastWordTrue
  <2> QED BY <1>4, <1>5, <2>2, <2>4 DEF SessionInv
<1> QED BY <1>2, <1>7, <1>8

LEMMA KernelInv ==
    ASSUME SessionInv, NEW e \in Devices, Attach(e) \/ Detach(e) \/ Hotplug(e)
    PROVE  SessionInv'
<1>1. ASSUME NEW arrives \in BOOLEAN, Tell(Notice(e, arrives)),
             present' = IF arrives THEN present \cup {e} ELSE present \ {e}
      PROVE  SessionInv'
  <2>1. Notice(e, arrives) \in Messages
    BY DEF Messages
  <2>2. present' \subseteq Devices
    BY <1>1 DEF SessionInv, SessionType
  <2>3. ASSUME NEW d \in Devices, NEW p \in Followed(d)
        PROVE  d \in present' <=>
                   Word(Understood[Notice(e, arrives)], p, d \in present)
    BY <1>1, NoticeSays DEF Word
  <2> QED BY <1>1, <2>1, <2>2, <2>3, TellInv DEF Tell
<1>2. CASE Attach(e)
  BY <1>1, <1>2 DEF Attach
<1>3. CASE Detach(e)
  BY <1>1, <1>3 DEF Detach
<1>4. CASE Hotplug(e)
  <2>1. present' = present /\ Tell(HotplugNotice(e))
    BY <1>4 DEF Hotplug
  <2>2. HotplugNotice(e) \in Messages
    BY CardSays
  <2>3. ASSUME NEW d \in Devices, NEW p \in Followed(d)
        PROVE  d \in present' <=>
                   Word(Understood[HotplugNotice(e)], p, d \in present)
    BY <2>1, CardSays DEF Word
  <2>4. present' \subseteq Devices
    BY <2>1 DEF SessionInv, SessionType
  <2> QED BY <2>1, <2>2, <2>3, <2>4, TellInv DEF Tell
<1> QED BY <1>2, <1>3, <1>4

LEMMA ForwardInv ==
    ASSUME SessionInv, Forward
    PROVE  SessionInv'
<1> DEFINE event == Understood[Head(sock)]
           passes == event # Nothing /\ event.path \in Wanted
<1>1. /\ UNCHANGED <<present, notices, connected, apc, provider, todo, known>>
      /\ sock # <<>> /\ sock' = Tail(sock)
      /\ UNCHANGED <<announced, taken>>
      /\ passes => log' = Append(log, event)
      /\ ~passes => log' = log
  BY DEF Forward, kernel, channel, scan, Channel!Publish
<1>2. /\ sock \in Seq(Messages) /\ log \in Seq(DeviceEvent)
      /\ taken \in 0..announced /\ announced \in 0..Len(log)
  BY DEF SessionInv, SessionType
<1>3. taken \in 0..Len(log) /\ Head(sock) \in Messages /\ sock' \in Seq(Messages)
  BY <1>1, <1>2
<1>4. passes => event \in DeviceEvent
  BY <1>3, EventType
<1>5. ASSUME NEW d \in Devices, NEW p \in Followed(d), ~passes
      PROVE  ~Says(event, p)
  <2>1. p \in Wanted
    BY FollowedPath
  <2> QED BY <1>5, <2>1 DEF Says, Nothing
<1> HIDE DEF event, passes
<1>6. log' \in Seq(DeviceEvent) /\ Len(log') >= Len(log)
  <2>1. CASE passes
    <3>1. log' = Append(log, event) /\ event \in DeviceEvent
      BY <1>1, <1>4, <2>1
    <3>2. log' \in Seq(DeviceEvent)
      BY <1>2, <3>1
    <3>3. Len(log') = Len(log) + 1 /\ Len(log) \in Nat
      BY <1>2, <3>1
    <3> QED BY <3>2, <3>3
  <2>2. CASE ~passes
    BY <1>1, <1>2, <2>2
  <2> QED BY <2>1, <2>2
<1>7. announced' \in 0..Len(log') /\ taken' \in 0..announced'
  BY <1>1, <1>2, <1>6
<1>8. SessionType'
  BY <1>1, <1>3, <1>6, <1>7 DEF SessionInv, SessionType
<1>9. ScanAfterConnect'
  BY <1>1 DEF SessionInv, ScanAfterConnect
<1>10. \A d \in Devices : Seen(d)' <=> Seen(d)
  BY <1>1 DEF Seen
<1>11. ASSUME NEW d \in Devices, NEW p \in Followed(d), NEW x \in BOOLEAN
      PROVE  Way(notices', sock', log', taken', p, x)
                 <=> Way(notices, sock, log, taken, p, x)
  <2>1. /\ event \in DeviceEvent =>
               (Way(notices, Tail(sock), Append(log, event), taken, p, x)
                    <=> Way(notices, sock, log, taken, p, x))
        /\ ~Says(event, p) =>
               (Way(notices, Tail(sock), log, taken, p, x)
                    <=> Way(notices, sock, log, taken, p, x))
    BY <1>1, <1>2, <1>3, WayForward DEF event
  <2>2. CASE passes
    BY <1>1, <1>4, <2>1, <2>2
  <2>3. CASE ~passes
    BY <1>1, <1>5, <2>1, <2>3
  <2> QED BY <2>2, <2>3
<1> QED BY <1>1, <1>8, <1>9, <1>10, <1>11, WayKept DEF SessionInv

(* Steps that touch neither the picture nor what is on its way.            *)
LEMMA SilentInv ==
    ASSUME SessionInv, Connect \/ Announce \/ Enable \/ UNCHANGED vars
    PROVE  SessionInv'
<1>1. /\ UNCHANGED <<present, notices, sock, log, taken, provider, todo, known>>
      /\ (apc' = apc \/ (apc = "start" /\ apc' = "enabled"))
      /\ (connected' = connected \/ connected' = TRUE)
      /\ \/ announced' = announced
         \/ announced < Len(log) /\ announced' = announced + 1
  BY DEF Connect, Announce, Enable, vars, kernel, channel, scan, Channel!Announce
<1>2. SessionType'
  <2>1. connected' \in BOOLEAN
    BY <1>1 DEF SessionInv, SessionType
  <2>2. announced' \in 0..Len(log') /\ taken' \in 0..announced'
    BY <1>1 DEF SessionInv, SessionType
  <2>3. apc' \in {"start", "enabled", "scanning", "following"}
    BY <1>1 DEF SessionInv, SessionType
  <2>4. apc' = "scanning" => provider' # 0
    BY <1>1 DEF SessionInv, SessionType
  <2> QED BY <1>1, <2>1, <2>2, <2>3, <2>4 DEF SessionInv, SessionType
<1>3. ScanAfterConnect'
  BY <1>1 DEF SessionInv, SessionType, ScanAfterConnect
<1>4. \A d \in Devices : Seen(d)' <=> Seen(d)
  BY <1>1 DEF Seen
<1>5. ASSUME NEW p, NEW x \in BOOLEAN
      PROVE  Way(notices', sock', log', taken', p, x)
                 <=> Way(notices, sock, log, taken, p, x)
  BY <1>1
<1> QED BY <1>1, <1>2, <1>3, <1>4, <1>5, WayKept DEF SessionInv

(* The scan begins: nothing is seen or known yet.                          *)
LEMMA StartScanInv ==
    ASSUME AwaitConnect, SessionInv, StartScan
    PROVE  SessionInv'
<1>1. /\ UNCHANGED <<present, notices, connected, sock, log, announced, taken, known>>
      /\ apc = "enabled" /\ apc' = "scanning" /\ connected
      /\ provider' = 1 /\ todo' = Sought(1)
  BY DEF StartScan, kernel, channel
<1>2. Sought(1) \subseteq Devices
  BY DEF Sought
<1>3. SessionType'
  BY <1>1, <1>2 DEF SessionInv, SessionType
<1>4. ScanAfterConnect'
  BY <1>1 DEF SessionInv, ScanAfterConnect
<1>5. LastWordTrue'
  BY <1>1 DEF SessionInv, LastWordTrue, LastWord
<1>6. ASSUME NEW d \in Devices, NEW p \in Followed(d)
      PROVE  ~Seen(d) /\ ~Seen(d)'
  <2>1. ~Seen(d)
    BY <1>1 DEF Seen
  <2>2. Place(d) \in {1, 2, 4} /\ p \in Enumerate(Place(d), d)
    BY DeviceFields, FollowedPath
  <2>3. Place(d) = 1 => d \in todo'
    BY <1>1, <2>2 DEF Sought
  <2> QED BY <1>1, <2>1, <2>2, <2>3 DEF Seen
<1>7. UnseenUnknown' /\ WaySettles'
  BY <1>1, <1>6 DEF SessionInv, UnseenUnknown, WaySettles
<1> QED BY <1>3, <1>4, <1>5, <1>7 DEF SessionInv

(* The next provider is asked, or the scan is over.                        *)
LEMMA EndProviderInv ==
    ASSUME SessionInv, EndProvider
    PROVE  SessionInv'
<1>1. /\ UNCHANGED <<present, notices, connected, sock, log, announced, taken, known>>
      /\ apc = "scanning" /\ todo = {}
      /\ \/ /\ provider < 4 /\ provider' = provider + 1
            /\ todo' = Sought(provider + 1) /\ apc' = "scanning"
         \/ /\ ~(provider < 4) /\ apc' = "following"
            /\ provider' = provider /\ todo' = todo
  BY DEF EndProvider, kernel, channel, scan
<1>2. provider \in 0..4 /\ Sought(provider + 1) \subseteq Devices
  BY DEF SessionInv, SessionType, Sought
<1>3. SessionType'
  BY <1>1, <1>2 DEF SessionInv, SessionType
<1>4. ScanAfterConnect'
  BY <1>1 DEF SessionInv, ScanAfterConnect
<1>5. ASSUME NEW d \in Devices, NEW p \in Followed(d)
      PROVE  Seen(d)' <=> Seen(d)
  <2>1. Place(d) \in {1, 2, 4} /\ p \in Enumerate(Place(d), d)
    BY DeviceFields, FollowedPath
  <2>2. Place(d) = provider + 1 => d \in Sought(provider + 1)
    BY <2>1 DEF Sought
  <2>3. Seen(d) <=> Place(d) <= provider
    BY <1>1, <1>2, <2>1 DEF Seen
  <2>4. CASE provider < 4
    BY <1>1, <1>2, <2>1, <2>2, <2>3, <2>4 DEF Seen
  <2>5. CASE ~(provider < 4)
    BY <1>1, <1>2, <2>1, <2>3, <2>5 DEF Seen
  <2> QED BY <2>4, <2>5
<1>6. \A p : \A x \in BOOLEAN : Way(notices', sock', log', taken', p, x)
                                    <=> Way(notices, sock, log, taken, p, x)
  BY <1>1
<1> QED BY <1>1, <1>3, <1>4, <1>5, <1>6, WayKept DEF SessionInv

(* A provider looks for a device: what it does not show of the device says *)
(* nothing, and what it shows is what the kernel has at this moment.       *)
LEMMA LookForInv ==
    ASSUME SessionInv, NEW e \in Devices, LookFor(e)
    PROVE  SessionInv'
<1>1. /\ UNCHANGED <<present, notices, connected, sock, log, announced, taken>>
      /\ apc = "scanning" /\ apc' = apc /\ provider' = provider
      /\ e \in todo /\ todo' = todo \ {e}
      /\ known' = IF e \in present
                  THEN known \cup (Enumerate(provider, e) \cap Wanted) ELSE known
  BY DEF LookFor, kernel, channel
<1>2. provider \in 1..4
  BY <1>1 DEF SessionInv, SessionType
<1>3. SessionType'
  BY <1>1 DEF SessionInv, SessionType
<1>4. ScanAfterConnect'
  BY <1>1 DEF SessionInv, ScanAfterConnect
<1>5. LastWordTrue'
  BY <1>1 DEF SessionInv, LastWordTrue, LastWord
<1>6. ASSUME NEW d \in Devices, NEW p \in Followed(d)
      PROVE  /\ ~Seen(d)' => p \notin known'
             /\ Seen(d)' => (LastWord(p, p \in known)' <=> d \in present')
  <2>1. /\ LastWord(p, d \in present) <=> d \in present
        /\ ~Seen(d) => p \notin known
        /\ Seen(d) => (LastWord(p, p \in known) <=> d \in present)
    BY DEF SessionInv, LastWordTrue, UnseenUnknown, WaySettles
  <2>2. Place(d) \in {1, 2, 4} /\ p \in Enumerate(Place(d), d) /\ p \in Wanted
    BY DeviceFields, FollowedPath
  <2>3. CASE d = e /\ provider = Place(d)
    <3>1. ~Seen(d)
      BY <1>1, <1>2, <2>3 DEF Seen
    <3>2. Seen(d)'
      BY <1>1, <2>3 DEF Seen
    <3>3. p \in known' <=> d \in present
      BY <1>1, <2>1, <2>2, <2>3, <3>1
    <3> DEFINE b == d \in present
               c == p \in known'
    <3>4. b \in BOOLEAN /\ c \in BOOLEAN /\ (b <=> c)
      BY <3>3
    <3>5. LastWord(p, p \in known)' = Way(notices, sock, log, taken, p, c)
      BY <1>1 DEF LastWord
    <3>6. LastWord(p, d \in present) = Way(notices, sock, log, taken, p, b)
      BY DEF LastWord
    <3> HIDE DEF b, c
    <3>7. Way(notices, sock, log, taken, p, c) <=> Way(notices, sock, log, taken, p, b)
      BY <3>4, WaySame
    <3> QED BY <1>1, <2>1, <3>2, <3>5, <3>6, <3>7
  <2>4. CASE ~(d = e /\ provider = Place(d))
    <3>1. Seen(d)' <=> Seen(d)
      BY <1>1, <1>2, <2>2, <2>4 DEF Seen
    <3>2. p \notin Enumerate(provider, e)
      BY <1>2, <2>4, ShownOnce
    <3>3. p \in known' <=> p \in known
      BY <1>1, <3>2
    <3> DEFINE k == p \in known
               c == p \in known'
    <3>4. k \in BOOLEAN /\ c \in BOOLEAN /\ (k <=> c)
      BY <3>3
    <3>5. LastWord(p, p \in known)' = Way(notices, sock, log, taken, p, c)
      BY <1>1 DEF LastWord
    <3>6. LastWord(p, p \in known) = Way(notices, sock, log, taken, p, k)
      BY DEF LastWord
    <3> HIDE DEF k, c
    <3>7. Way(notices, sock, log, taken, p, c) <=> Way(notices, sock, log, taken, p, k)
      BY <3>4, WaySame
    <3> QED BY <1>1, <2>1, <3>1, <3>3, <3>5, <3>6, <3>7
  <2> QED BY <2>3, <2>4
<1> QED BY <1>3, <1>4, <1>5, <1>6 DEF SessionInv, UnseenUnknown, WaySettles

(* The application takes an event and does what the event says.            *)
LEMMA ReceiveInv ==
    ASSUME SessionInv, Receive
    PROVE  SessionInv'
<1> DEFINE e == log[taken + 1]
<1>1. /\ UNCHANGED <<present, notices, connected, sock, log, announced, apc>>
      /\ UNCHANGED <<provider, todo>>
      /\ apc = "following" /\ taken < announced /\ taken' = taken + 1 /\ Learn(e)
  BY DEF Receive, kernel, scan, Channel!Take
<1>2. /\ log \in Seq(DeviceEvent) /\ announced \in 0..Len(log)
      /\ taken \in 0..announced
  BY DEF SessionInv, SessionType
<1>3. taken \in 0..Len(log) - 1 /\ e \in DeviceEvent
  BY <1>1, <1>2
<1>4. SessionType'
  BY <1>1, <1>2 DEF SessionInv, SessionType
<1>5. ScanAfterConnect'
  BY <1>1 DEF SessionInv, ScanAfterConnect
<1>6. \A d \in Devices : Seen(d) /\ Seen(d)'
  BY <1>1 DEF Seen
<1>7. ASSUME NEW p
      PROVE  p \in known' <=> Word(e, p, p \in known)
  <2>1. e.action \in {"add", "remove", "change"}
    BY <1>3 DEF DeviceEvent
  <2>2. CASE e.action = "add"
    BY <1>1, <2>2 DEF Learn, Word, Says, Adds
  <2>3. CASE e.action = "remove"
    BY <1>1, <2>3 DEF Learn, Word, Says, Adds
  <2>4. CASE e.action = "change"
    BY <1>1, <2>4 DEF Learn, Word, Says, Adds
  <2> QED BY <2>1, <2>2, <2>3, <2>4
<1>8. ASSUME NEW d \in Devices, NEW p \in Followed(d)
      PROVE  /\ LastWord(p, d \in present)' <=> d \in present'
             /\ LastWord(p, p \in known)' <=> d \in present'
  <2> DEFINE b == d \in present
             k == p \in known
             c == p \in known'
             w == Word(e, p, b)
             W(x) == Way(notices, sock, log, taken, p, x)
             V(x) == Way(notices, sock, log, taken + 1, p, x)
  <2>1. b \in BOOLEAN /\ k \in BOOLEAN /\ c \in BOOLEAN /\ (d \in present' <=> b)
    BY <1>1
  <2>2. (W(b) <=> b) /\ (W(k) <=> b)
    BY <1>6 DEF SessionInv, LastWordTrue, WaySettles, LastWord
  <2>3. LastWord(p, d \in present)' = V(b) /\ LastWord(p, p \in known)' = V(c)
    BY <1>1 DEF LastWord
  <2>4. c <=> Word(e, p, k)
    BY <1>7
  <2> HIDE DEF b, k, c
  <2>5. \A x \in BOOLEAN : W(x) <=> V(Word(e, p, x))
    BY <1>2, <1>3, WayTake
  <2>6. w \in BOOLEAN /\ Word(e, p, k) \in BOOLEAN
    BY <2>1, WordBoolean
  <2>7. W(b) <=> V(w)
    BY <2>1, <2>5
  <2>8. W(k) <=> V(c)
    <3>1. V(c) <=> V(Word(e, p, k))
      BY <2>1, <2>4, <2>6, WaySame
    <3> QED BY <2>1, <2>5, <3>1
  <2> HIDE DEF w
  <2>9. (V(w) <=> V(b)) \/ ((V(w) <=> w) /\ (V(b) <=> b))
    BY <2>1, <2>6, WayBase
  <2> HIDE DEF W, V
  <2> QED BY <2>1, <2>2, <2>3, <2>7, <2>8, <2>9
<1> QED BY <1>4, <1>5, <1>6, <1>8 DEF SessionInv, LastWordTrue, UnseenUnknown, WaySettles

-----------------------------------------------------------------------------

LEMMA SessionStep ==
    ASSUME AwaitConnect, SessionInv, [Next]_vars
    PROVE  SessionInv'
<1>1. ASSUME NEW d \in Devices, Attach(d) \/ Detach(d) \/ Hotplug(d)
      PROVE  SessionInv'
  BY <1>1, KernelInv
<1>2. CASE Broadcast
  BY <1>2, BroadcastInv
<1>3. CASE Connect \/ Announce \/ Enable \/ UNCHANGED vars
  BY <1>3, SilentInv
<1>4. CASE Forward
  BY <1>4, ForwardInv
<1>5. CASE StartScan
  BY <1>5, StartScanInv
<1>6. ASSUME NEW d \in Devices, LookFor(d)
      PROVE  SessionInv'
  BY <1>6, LookForInv
<1>7. CASE EndProvider
  BY <1>7, EndProviderInv
<1>8. CASE Receive
  BY <1>8, ReceiveInv
<1> QED BY <1>1, <1>2, <1>3, <1>4, <1>5, <1>6, <1>7, <1>8 DEF Next, Application

(* Of an application that waits for the connection: the last word on its   *)
(* way about a device, added to what the scan and the events have told, is *)
(* what the kernel has.                                                    *)
THEOREM SessionSafe ==
    ASSUME AwaitConnect
    PROVE  Spec => []SessionInv
BY SessionInit, SessionStep, PTL DEF Spec

(* Where nothing of a path is on its way, the application is right about   *)
(* the device.                                                             *)
LEMMA SilentExact ==
    ASSUME SessionInv, apc = "following", NEW d \in Devices, NEW p \in Followed(d),
           Silent(notices, 0, Understood, p), Silent(sock, 0, Understood, p),
           Silent(log, taken, Same, p)
    PROVE  p \in known <=> d \in present
<1> DEFINE k == p \in known
<1>1. LastWord(p, k) <=> d \in present
  BY DEF SessionInv, WaySettles, Seen
<1>2. k \in BOOLEAN
  OBVIOUS
<1> HIDE DEF k
<1>3. LastWord(p, k) <=> k
  BY <1>2, WaySilent DEF LastWord
<1> QED BY <1>1, <1>3 DEF k

(* PictureIsExact of HotplugSession: once nothing is on its way any more,  *)
(* the application of src/udev-test.c, if it enumerates after the thread   *)
(* has connected to devd, knows exactly the devices there are.             *)
THEOREM PictureExact ==
    ASSUME AwaitConnect
    PROVE  Spec => []PictureIsExact
<1>1. SessionInv => PictureIsExact
  <2> SUFFICES ASSUME SessionInv, Settled, NEW d \in Devices, NEW p \in Followed(d)
               PROVE  p \in known <=> d \in present
    BY DEF PictureIsExact
  <2>1. /\ apc = "following" /\ notices = <<>> /\ sock = <<>>
        /\ taken = Len(log) /\ Len(log) \in Nat
    BY DEF Settled, SessionInv, SessionType
  <2>2. /\ Silent(notices, 0, Understood, p) /\ Silent(sock, 0, Understood, p)
        /\ Silent(log, taken, Same, p)
    BY <2>1 DEF Silent
  <2> QED BY <2>1, <2>2, SilentExact
<1> QED BY <1>1, SessionSafe, PTL

(* DifferenceIsOnItsWay of HotplugSession: the application differs from    *)
(* the kernel about a device only while devd, the thread or the monitor    *)
(* holds a message about it.                                               *)
THEOREM DifferenceExplained ==
    ASSUME AwaitConnect
    PROVE  Spec => []DifferenceIsOnItsWay
<1>1. SessionInv => DifferenceIsOnItsWay
  <2> SUFFICES ASSUME SessionInv, apc = "following",
                      NEW d \in Devices, NEW p \in Followed(d), ~OnItsWay(p)
               PROVE  p \in known <=> d \in present
    BY DEF DifferenceIsOnItsWay
  <2>1. /\ notices \in Seq(Messages) /\ sock \in Seq(Messages)
        /\ log \in Seq(DeviceEvent) /\ taken \in Nat
    BY DEF SessionInv, SessionType
  <2>2. Silent(notices, 0, Understood, p)
    BY <2>1 DEF Silent, Says, OnItsWay
  <2>3. Silent(sock, 0, Understood, p)
    BY <2>1 DEF Silent, Says, OnItsWay
  <2>4. Silent(log, taken, Same, p)
    <3>1. \A i \in taken + 1..Len(log) : log[i] \in DeviceEvent
      BY <2>1
    <3> QED BY <3>1 DEF Silent, Says, OnItsWay, Same
  <2> QED BY <2>2, <2>3, <2>4, SilentExact
<1> QED BY <1>1, SessionSafe, PTL
=============================================================================
