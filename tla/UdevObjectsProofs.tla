------------------------- MODULE UdevObjectsProofs -------------------------
(***************************************************************************)
(* Proofs about UdevObjects, for any number of objects and references and  *)
(* every interleaving of the two threads: whoever frees an object owns it, *)
(* what the application holds is there, and nothing is left behind.        *)
(***************************************************************************)
EXTENDS UdevObjects, FiniteSetTheorems, SequenceTheorems, TLAPS

(* The elements of a sequence, and that each is there once.                *)
Items(w) == {w[i] : i \in DOMAIN w}
Once(w) == \A i, j \in DOMAIN w : w[i] = w[j] => i = j

NullOrSlot == Slots \cup {NoSlot}
Handles == {"enumerate", "monitor", "queue"}

(* What is not about to be freed.                                          *)
Staying == Live \ Doomed

(* The device is the one that frees the parent.                            *)
Owns(s, p) == objs[s].parent = p /\ ~objs[s].parentRef

Types ==
    /\ refcount \in Int /\ raced \in BOOLEAN
    /\ freed \in BOOLEAN /\ uctx \in 0..MaxRefs
    /\ objs \in [Slots -> Object] /\ held \in [Slots -> 0..MaxRefs]
    /\ queue \in Seq(Slots) /\ nullFds \subseteq Slots
    /\ todo \in [Threads -> Seq(Work)] /\ loaded \in [Threads -> Int \cup {Idle}]

(* The application is in a call that makes objects, or in one that frees   *)
(* them, and does to each what it has to do once.                          *)
AppMakes ==
    \A s \in NullOrSlot : {Item("unref", s), Item("drop", s)} \cap Pending(App) = {}
AppFrees == \A s \in NullOrSlot : Item("ref", s) \notin Pending(App)
AppWork ==
    /\ AppMakes \/ AppFrees
    /\ Once(todo[App])
    /\ Item("drop", NoSlot) \notin Pending(App)
    /\ Item("ref", NoSlot) \in Pending(App) => uctx > 1
    /\ \A s \in NullOrSlot : Item("queue", s) \notin Pending(App)
    /\ \A s \in Slots :
          /\ Item("ref", s) \in Pending(App) => s \in Live /\ uctx > 0
          /\ Item("unref", s) \in Pending(App) => s \in Live /\ held[s] = 0
          /\ Item("drop", s) \in Pending(App) => s \in Live /\ held[s] = 0
          /\ ~(Item("unref", s) \in Pending(App) /\ Item("drop", s) \in Pending(App))

(* When a monitor is being freed its thread has ended, and nothing is left *)
(* in the queue once that was dropped.                                     *)
MonitorEnds ==
    \A s \in Slots :
        /\ Item("drop", s) \in Pending(App) =>
               objs[s].kind = "monitor" /\ todo[Receiver] = <<>>
        /\ Item("unref", s) \in Pending(App) /\ objs[s].kind = "monitor" =>
               queue = <<>> /\ todo[Receiver] = <<>>

(* The thread is making a device for the queue of a monitor in use: it     *)
(* refers to the context for the device and its parent first.              *)
ThreadOrder ==
    /\ \A i \in DOMAIN todo[Receiver] :
          /\ todo[Receiver][i].op \in {"ref", "queue"}
          /\ todo[Receiver][i].op = "queue" <=> i = Len(todo[Receiver])
    /\ Once(todo[Receiver])
ThreadWork ==
    /\ \A s \in NullOrSlot :
          {Item("unref", s), Item("drop", s)} \cap Pending(Receiver) = {}
    /\ \A s \in NullOrSlot : Item("queue", s) \in Pending(Receiver) =>
          /\ s \in Staying /\ objs[s].kind = "device" /\ held[s] = 0
          /\ s \notin Items(queue)
    /\ \A s \in NullOrSlot : Item("ref", s) \in Pending(Receiver) =>
          /\ s # NoSlot
          /\ \E d \in Staying : Item("queue", d) \in Pending(Receiver)
                                /\ (s = d \/ Owns(d, s))
    /\ todo[Receiver] # <<>> =>
          \E m \in Live : objs[m].kind = "monitor" /\ held[m] > 0

(* The devices in the queue are nobody else's, and there is a monitor that *)
(* will drop them.                                                         *)
QueueOwned ==
    /\ Once(queue)
    /\ \A s \in Items(queue) :
           s \in Staying /\ objs[s].kind = "device" /\ held[s] = 0
    /\ queue # <<>> =>
           \E m \in Live : /\ objs[m].kind = "monitor"
                           /\ held[m] > 0 \/ Item("drop", m) \in Pending(App)

OneMonitor ==
    \A m, n \in Live :
        objs[m].kind = "monitor" /\ objs[n].kind = "monitor" => m = n

(* Every object that stays has an owner: the application, whose references *)
(* it counts; for a device also the queue, or the thread that will put it  *)
(* there; for a parent that was never asked for, its device.               *)
HeldStays == \A s \in Slots : held[s] > 0 => s \in Staying
Counted ==
    \A s \in Staying : objs[s].rc = IF held[s] > 0 THEN held[s] ELSE 1
Owned ==
    \A s \in Staying :
        \/ held[s] > 0
        \/ /\ objs[s].kind = "device"
           /\ s \in Items(queue) \/ Item("queue", s) \in Pending(Receiver)
        \/ objs[s].kind = "parent" /\ \E x \in Staying : Owns(x, s)
ParentOwned ==
    \A s \in Staying : objs[s].parent # NoSlot =>
        /\ objs[s].kind = "device"
        /\ ~objs[s].parentRef =>
               /\ objs[s].parent \in Staying
               /\ objs[objs[s].parent].kind = "parent"
               /\ held[objs[s].parent] = 0
OneOwner ==
    \A x, y \in Staying : \A p \in Slots : Owns(x, p) /\ Owns(y, p) => x = y
Owners == HeldStays /\ Counted /\ Owned /\ ParentOwned /\ OneOwner

DescriptorsHeld == \A s \in nullFds : held[s] > 0

Calls == AppWork /\ MonitorEnds /\ ThreadOrder /\ ThreadWork

OwnerInv ==
    Types /\ Calls /\ QueueOwned /\ OneMonitor /\ Owners /\ DescriptorsHeld

(* The objects the context's count has not yet been told of, and the       *)
(* application's references that it knows of.                              *)
Untold == {s \in Slots : \E t \in Threads : Item("ref", s) \in Pending(t)}
UserRefs ==
    uctx + (IF Item("unref", NoSlot) \in Pending(App) THEN 1 ELSE 0)
         - (IF Item("ref", NoSlot) \in Pending(App) THEN 1 ELSE 0)

(* Until changes have overlapped, one thread at a time has loaded the      *)
(* count, what it has loaded is the count, and the count is the number of  *)
(* the users it was told of.                                               *)
CountInv ==
    /\ \A s \in Slots :
          ~(Item("ref", s) \in Pending(App) /\ Item("ref", s) \in Pending(Receiver))
    /\ ~raced =>
        /\ \A t \in Threads : loaded[t] # Idle =>
               loaded[t] = refcount /\ \A u \in Threads \ {t} : loaded[u] = Idle
        /\ refcount = UserRefs + Cardinality(Live \ Untold)
        /\ freed <=> refcount = 0

ObjectsInv == OwnerInv /\ CountInv

-----------------------------------------------------------------------------
(* Work and sequences of it.                                               *)

LEMMA ItemFields ==
    /\ \A op, s : Item(op, s).op = op /\ Item(op, s).slot = s
    /\ \A op, s, q, u : Item(op, s) = Item(q, u) <=> op = q /\ s = u
    /\ \A op \in {"ref", "unref", "queue", "drop"} : \A s \in NullOrSlot :
           Item(op, s) \in Work
<1>1. \A op, s : Item(op, s).op = op /\ Item(op, s).slot = s
  BY DEF Item
<1>2. \A op, s, q, u : Item(op, s) = Item(q, u) => op = q /\ s = u
  BY <1>1
<1>3. \A op \in {"ref", "unref", "queue", "drop"} : \A s \in NullOrSlot :
          Item(op, s) \in Work
  BY DEF Item, Work, NullOrSlot
<1> QED BY <1>1, <1>2, <1>3

LEMMA WorkIsItem ==
    ASSUME NEW w \in Work
    PROVE  /\ w = Item(w.op, w.slot) /\ w.slot \in NullOrSlot
           /\ w.op \in {"ref", "unref", "queue", "drop"}
BY DEF Item, Work, NullOrSlot

LEMMA ItemsEmpty == Items(<<>>) = {} /\ Once(<<>>)
BY DEF Items, Once

LEMMA ItemsOne ==
    ASSUME NEW x
    PROVE  Items(<<x>>) = {x} /\ Once(<<x>>) /\ Len(<<x>>) = 1 /\ <<x>>[1] = x
<1>1. DOMAIN <<x>> = {1} /\ <<x>>[1] = x /\ Len(<<x>>) = 1
  OBVIOUS
<1> QED BY <1>1 DEF Items, Once

LEMMA ItemsTail ==
    ASSUME NEW S, NEW w \in Seq(S), w # <<>>
    PROVE  /\ Head(w) \in S /\ Tail(w) \in Seq(S)
           /\ Items(w) = {Head(w)} \cup Items(Tail(w))
           /\ Once(w) => /\ Once(Tail(w)) /\ Head(w) \notin Items(Tail(w))
                         /\ Items(Tail(w)) = Items(w) \ {Head(w)}
<1> DEFINE t == Tail(w)
<1>1. /\ Len(w) \in Nat \ {0} /\ DOMAIN w = 1..Len(w) /\ Head(w) = w[1]
      /\ Head(w) \in S /\ t \in Seq(S) /\ DOMAIN t = 1..Len(w) - 1
      /\ \A i \in 1..Len(w) - 1 : t[i] = w[i + 1] /\ i + 1 \in DOMAIN w
  OBVIOUS
<1> HIDE DEF t
<1>2. \A i \in DOMAIN w : i # 1 => i - 1 \in DOMAIN t /\ t[i - 1] = w[i]
  BY <1>1
<1>3. Items(w) = {Head(w)} \cup Items(t)
  BY <1>1, <1>2 DEF Items
<1>4. ASSUME Once(w)
      PROVE  Once(t) /\ Head(w) \notin Items(t)
  <2>1. ASSUME NEW i \in DOMAIN t, NEW j \in DOMAIN t, t[i] = t[j]
        PROVE  i = j
    <3>1. i + 1 = j + 1
      BY <1>1, <1>4, <2>1 DEF Once
    <3> QED BY <1>1, <3>1
  <2>2. ASSUME NEW i \in DOMAIN t, t[i] = Head(w)
        PROVE  FALSE
    <3>1. i + 1 = 1
      BY <1>1, <1>4, <2>2 DEF Once
    <3> QED BY <1>1, <3>1
  <2> QED BY <2>1, <2>2 DEF Once, Items
<1> QED BY <1>1, <1>3, <1>4 DEF t

LEMMA ConcatParts ==
    ASSUME NEW S, NEW v \in Seq(S), NEW w \in Seq(S)
    PROVE  /\ Len(v) \in Nat /\ Len(w) \in Nat
           /\ DOMAIN v = 1..Len(v) /\ DOMAIN w = 1..Len(w)
           /\ v \o w \in Seq(S) /\ DOMAIN (v \o w) = 1..Len(v) + Len(w)
           /\ Len(v \o w) = Len(v) + Len(w)
           /\ \A i \in 1..Len(v) : (v \o w)[i] = v[i]
           /\ \A i \in 1..Len(w) : (v \o w)[Len(v) + i] = w[i]
BY ConcatProperties

LEMMA ItemsConcat ==
    ASSUME NEW S, NEW v \in Seq(S), NEW w \in Seq(S)
    PROVE  /\ v \o w \in Seq(S)
           /\ Items(v \o w) = Items(v) \cup Items(w)
           /\ Once(v) /\ Once(w) /\ Items(v) \cap Items(w) = {} => Once(v \o w)
<1> DEFINE c == v \o w
<1>1. /\ Len(v) \in Nat /\ Len(w) \in Nat
      /\ DOMAIN v = 1..Len(v) /\ DOMAIN w = 1..Len(w)
      /\ c \in Seq(S) /\ DOMAIN c = 1..Len(v) + Len(w)
      /\ \A i \in 1..Len(v) : c[i] = v[i]
      /\ \A i \in 1..Len(w) : c[Len(v) + i] = w[i]
  BY ConcatParts
<1> HIDE DEF c
<1>2. \A i \in DOMAIN c : \/ i \in DOMAIN v /\ c[i] = v[i]
                          \/ i - Len(v) \in DOMAIN w /\ c[i] = w[i - Len(v)]
  BY <1>1
<1>3. ASSUME NEW i \in DOMAIN w
      PROVE  Len(v) + i \in DOMAIN c /\ c[Len(v) + i] = w[i]
  BY <1>1
<1>4. ASSUME NEW i \in DOMAIN v
      PROVE  i \in DOMAIN c /\ c[i] = v[i]
  BY <1>1
<1>5. Items(c) = Items(v) \cup Items(w)
  <2>1. Items(c) \subseteq Items(v) \cup Items(w)
    BY <1>2 DEF Items
  <2>2. Items(v) \subseteq Items(c)
    BY <1>4 DEF Items
  <2>3. Items(w) \subseteq Items(c)
    BY <1>3 DEF Items
  <2> QED BY <2>1, <2>2, <2>3
<1>6. ASSUME Once(v), Once(w), Items(v) \cap Items(w) = {},
             NEW i \in DOMAIN c, NEW j \in DOMAIN c, c[i] = c[j]
      PROVE  i = j
  <2>1. CASE i \in DOMAIN v /\ c[i] = v[i] /\ j \in DOMAIN v /\ c[j] = v[j]
    BY <1>6, <2>1 DEF Once
  <2>2. CASE /\ i - Len(v) \in DOMAIN w /\ c[i] = w[i - Len(v)]
             /\ j - Len(v) \in DOMAIN w /\ c[j] = w[j - Len(v)]
    <3>1. i - Len(v) = j - Len(v)
      BY <1>6, <2>2 DEF Once
    <3> QED BY <1>1, <3>1
  <2>3. CASE /\ i \in DOMAIN v /\ c[i] = v[i]
             /\ j - Len(v) \in DOMAIN w /\ c[j] = w[j - Len(v)]
    BY <1>6, <2>3 DEF Items
  <2>4. CASE /\ j \in DOMAIN v /\ c[j] = v[j]
             /\ i - Len(v) \in DOMAIN w /\ c[i] = w[i - Len(v)]
    BY <1>6, <2>4 DEF Items
  <2> QED BY <1>2, <2>1, <2>2, <2>3, <2>4
<1> QED BY <1>1, <1>5, <1>6 DEF Once, c

LEMMA ItemsAppend ==
    ASSUME NEW S, NEW w \in Seq(S), NEW x \in S
    PROVE  /\ Append(w, x) \in Seq(S)
           /\ Items(Append(w, x)) = Items(w) \cup {x}
           /\ Once(w) /\ x \notin Items(w) => Once(Append(w, x))
<1> DEFINE c == Append(w, x)
<1>1. /\ Len(w) \in Nat /\ DOMAIN w = 1..Len(w)
      /\ c \in Seq(S) /\ DOMAIN c = 1..Len(w) + 1 /\ c[Len(w) + 1] = x
      /\ \A i \in 1..Len(w) : c[i] = w[i]
  OBVIOUS
<1> HIDE DEF c
<1>2. \A i \in DOMAIN c : i \in DOMAIN w \/ i = Len(w) + 1
  BY <1>1
<1>3. DOMAIN w \subseteq DOMAIN c /\ Len(w) + 1 \in DOMAIN c
  BY <1>1
<1>4. Items(c) = Items(w) \cup {x}
  BY <1>1, <1>2, <1>3 DEF Items
<1>5. ASSUME Once(w), x \notin Items(w),
             NEW i \in DOMAIN c, NEW j \in DOMAIN c, c[i] = c[j]
      PROVE  i = j
  BY <1>1, <1>2, <1>5 DEF Once, Items
<1> QED BY <1>1, <1>4, <1>5 DEF Once, c

LEMMA DoWork ==
    ASSUME NEW op \in {"ref", "unref", "queue", "drop"}, NEW s \in NullOrSlot
    PROVE  /\ Do(op, s) \in Seq(Work) /\ Items(Do(op, s)) = {Item(op, s)}
           /\ Once(Do(op, s)) /\ Len(Do(op, s)) = 1 /\ Do(op, s)[1] = Item(op, s)
<1>1. Item(op, s) \in Work
  BY ItemFields
<1> QED BY <1>1, ItemsOne DEF Do

LEMMA TwoWorks ==
    ASSUME NEW op \in {"ref", "unref", "queue", "drop"},
           NEW s \in NullOrSlot, NEW p \in NullOrSlot, s # p
    PROVE  /\ Do(op, s) \o Do(op, p) \in Seq(Work)
           /\ Items(Do(op, s) \o Do(op, p)) = {Item(op, s), Item(op, p)}
           /\ Once(Do(op, s) \o Do(op, p))
<1> DEFINE v == Do(op, s)
           w == Do(op, p)
<1>1. /\ v \in Seq(Work) /\ Items(v) = {Item(op, s)} /\ Once(v)
      /\ w \in Seq(Work) /\ Items(w) = {Item(op, p)} /\ Once(w)
  BY DoWork
<1>2. {Item(op, s)} \cap {Item(op, p)} = {}
  BY ItemFields
<1> HIDE DEF v, w
<1>3. /\ v \o w \in Seq(Work) /\ Items(v \o w) = Items(v) \cup Items(w)
      /\ Items(v) \cap Items(w) = {} => Once(v \o w)
  BY <1>1, ItemsConcat, ZenonT(30)
<1> QED BY <1>1, <1>2, <1>3 DEF v, w

LEMMA NewWorkItems ==
    ASSUME NEW s \in Slots, NEW p \in NullOrSlot, p # s
    PROVE  /\ NewWork(s, p) \in Seq(Work) /\ Once(NewWork(s, p))
           /\ Items(NewWork(s, p)) =
                  {Item("ref", x) : x \in {s, p} \ {NoSlot}}
<1>1. s \in NullOrSlot /\ s # NoSlot
  BY ObjectsAssumption DEF NullOrSlot
<1>2. /\ Do("ref", s) \in Seq(Work) /\ Items(Do("ref", s)) = {Item("ref", s)}
      /\ Once(Do("ref", s))
  BY <1>1, DoWork
<1>3. CASE p = NoSlot
  <2>1. NewWork(s, p) = Do("ref", s) \o <<>>
    BY <1>3 DEF NewWork
  <2>2. <<>> \in Seq(Work) /\ Items(<<>>) = {} /\ Once(<<>>)
    BY ItemsEmpty
  <2> DEFINE none == <<>>
  <2> HIDE DEF none
  <2>3. /\ Do("ref", s) \o none \in Seq(Work)
        /\ Items(Do("ref", s) \o none) = {Item("ref", s)}
        /\ Once(Do("ref", s) \o none)
    <3>1. none \in Seq(Work) /\ Items(none) = {} /\ Once(none)
      BY <2>2 DEF none
    <3> QED BY <1>2, <3>1, ItemsConcat
  <2> QED BY <1>1, <1>3, <2>1, <2>3 DEF none
<1>4. CASE p # NoSlot
  <2>1. NewWork(s, p) = Do("ref", s) \o Do("ref", p)
    BY <1>4 DEF NewWork
  <2>2. /\ Do("ref", s) \o Do("ref", p) \in Seq(Work)
        /\ Items(Do("ref", s) \o Do("ref", p)) = {Item("ref", s), Item("ref", p)}
        /\ Once(Do("ref", s) \o Do("ref", p))
    BY <1>1, TwoWorks
  <2>3. {Item("ref", s), Item("ref", p)} =
            {Item("ref", x) : x \in {s, p} \ {NoSlot}}
    BY <1>1, <1>4
  <2> QED BY <2>1, <2>2, <2>3
<1> QED BY <1>3, <1>4

(* The parent goes with its device unless the application asked for it.    *)
LEMMA FreeWorkItems ==
    ASSUME Types, NEW s \in Slots, ~Owns(s, s)
    PROVE  /\ FreeWork(s) \in Seq(Work) /\ Once(FreeWork(s))
           /\ Items(FreeWork(s)) =
                  {Item("unref", x) : x \in {s} \cup {p \in Slots : Owns(s, p)}}
<1>1. s \in NullOrSlot /\ s # NoSlot /\ objs[s].parent \in NullOrSlot
  BY ObjectsAssumption DEF NullOrSlot, Types, Object
<1>2. /\ Do("unref", s) \in Seq(Work) /\ Once(Do("unref", s))
      /\ Items(Do("unref", s)) = {Item("unref", s)}
  BY <1>1, DoWork
<1>3. CASE objs[s].parent # NoSlot /\ ~objs[s].parentRef
  <2> DEFINE p == objs[s].parent
  <2>1. FreeWork(s) = Do("unref", p) \o Do("unref", s)
    BY <1>3 DEF FreeWork
  <2>2. {q \in Slots : Owns(s, q)} = {p} /\ p \in NullOrSlot /\ p # s
    BY <1>1, <1>3 DEF Owns, NullOrSlot
  <2> HIDE DEF p
  <2>3. /\ Do("unref", p) \o Do("unref", s) \in Seq(Work)
        /\ Items(Do("unref", p) \o Do("unref", s)) = {Item("unref", p), Item("unref", s)}
        /\ Once(Do("unref", p) \o Do("unref", s))
    BY <1>1, <2>2, TwoWorks
  <2>4. {Item("unref", p), Item("unref", s)} = {Item("unref", x) : x \in {s} \cup {p}}
    OBVIOUS
  <2> QED BY <2>1, <2>2, <2>3, <2>4
<1>4. CASE ~(objs[s].parent # NoSlot /\ ~objs[s].parentRef)
  <2> DEFINE none == <<>>
  <2>1. FreeWork(s) = none \o Do("unref", s)
    BY <1>4 DEF FreeWork
  <2>2. {q \in Slots : Owns(s, q)} = {}
    BY <1>4, ObjectsAssumption DEF Owns
  <2>3. none \in Seq(Work) /\ Items(none) = {} /\ Once(none)
    BY ItemsEmpty
  <2> HIDE DEF none
  <2>4. /\ none \o Do("unref", s) \in Seq(Work)
        /\ Items(none \o Do("unref", s)) = {Item("unref", s)}
        /\ Once(none \o Do("unref", s))
    BY <1>2, <2>3, ItemsConcat
  <2> QED BY <2>1, <2>2, <2>4
<1> QED BY <1>3, <1>4

(* What a thread has to do when a call begins, and when a part is done.    *)
LEMMA BeginWork ==
    ASSUME Types, NEW t \in Threads, NEW w \in Seq(Work), Begin(t, w)
    PROVE  /\ todo' \in [Threads -> Seq(Work)] /\ todo[t] = <<>>
           /\ Pending(t) = {}
           /\ todo'[t] = w /\ Pending(t)' = Items(w)
           /\ \A u \in Threads \ {t} :
                  todo'[u] = todo[u] /\ Pending(u)' = Pending(u)
<1>1. /\ todo' \in [Threads -> Seq(Work)] /\ todo'[t] = w
      /\ \A u \in Threads \ {t} : todo'[u] = todo[u]
  BY DEF Begin, Types
<1>2. todo[t] = <<>> /\ Pending(t) = {}
  BY ItemsEmpty DEF Begin, Pending, Items
<1>3. Pending(t)' = Items(w)
  BY <1>1 DEF Pending, Items
<1>4. \A u \in Threads \ {t} : Pending(u)' = Pending(u)
  BY <1>1 DEF Pending
<1> QED BY <1>1, <1>2, <1>3, <1>4

LEMMA FinishWork ==
    ASSUME Types, NEW t \in Threads, todo[t] # <<>>, Finish(t), Once(todo[t])
    PROVE  /\ todo' \in [Threads -> Seq(Work)]
           /\ todo'[t] = Tail(todo[t]) /\ Once(todo'[t])
           /\ Head(todo[t]) \in Pending(t)
           /\ Pending(t)' = Pending(t) \ {Head(todo[t])}
           /\ \A u \in Threads \ {t} :
                  todo'[u] = todo[u] /\ Pending(u)' = Pending(u)
<1> DEFINE w == todo[t]
<1>1. w \in Seq(Work) /\ w # <<>> /\ Once(w) /\ Items(w) = Pending(t)
  BY DEF Types, Pending, Items
<1> HIDE DEF w
<1>2. /\ Tail(w) \in Seq(Work) /\ Once(Tail(w)) /\ Head(w) \in Pending(t)
      /\ Items(Tail(w)) = Pending(t) \ {Head(w)}
  BY <1>1, ItemsTail
<1>3. /\ todo' \in [Threads -> Seq(Work)] /\ todo'[t] = Tail(w)
      /\ \A u \in Threads \ {t} : todo'[u] = todo[u]
  BY <1>2 DEF Finish, Types, w
<1>4. Pending(t)' = Items(Tail(w))
  BY <1>3 DEF Pending, Items
<1>5. \A u \in Threads \ {t} : Pending(u)' = Pending(u)
  BY <1>3 DEF Pending
<1> QED BY <1>2, <1>3, <1>4, <1>5 DEF w

(* Only the application frees, and only the thread fills the queue.        *)
LEMMA HeadWork ==
    ASSUME Types, AppWork, ThreadWork, NEW t \in Threads, todo[t] # <<>>
    PROVE  LET op == Head(todo[t]).op
               s == Head(todo[t]).slot
           IN  /\ Head(todo[t]) = Item(op, s) /\ Item(op, s) \in Pending(t)
               /\ op \in {"ref", "unref", "queue", "drop"} /\ s \in NullOrSlot
               /\ op \in {"unref", "drop"} => t = App
               /\ op = "queue" => t = Receiver
<1> DEFINE w == todo[t]
<1>1. w \in Seq(Work) /\ w # <<>> /\ Items(w) = Pending(t)
  BY DEF Types, Pending, Items
<1> HIDE DEF w
<1>2. Head(w) \in Work /\ Head(w) \in Pending(t)
  BY <1>1, ItemsTail
<1>3. /\ Head(w) = Item(Head(w).op, Head(w).slot)
      /\ Head(w).slot \in NullOrSlot
      /\ Head(w).op \in {"ref", "unref", "queue", "drop"}
  BY <1>2, WorkIsItem
<1>4. t = App \/ t = Receiver
  BY DEF Threads
<1>5. Head(w).op \in {"unref", "drop"} => t = App
  BY <1>2, <1>3, <1>4 DEF ThreadWork
<1>6. Head(w).op = "queue" => t = Receiver
  BY <1>2, <1>3, <1>4 DEF AppWork
<1> QED BY <1>2, <1>3, <1>5, <1>6 DEF w

-----------------------------------------------------------------------------
(* What a step leaves alone.                                               *)

ThreadFreesNothing ==
    \A s \in NullOrSlot :
        {Item("unref", s), Item("drop", s)} \cap Pending(Receiver) = {}

LEMMA StayingNow ==
    ASSUME ThreadFreesNothing
    PROVE  \A s : s \in Staying <=>
               /\ s \in Slots /\ objs[s].kind # "none"
               /\ Item("unref", s) \notin Pending(App)
               /\ Item("drop", s) \notin Pending(App)
BY DEF ThreadFreesNothing, Staying, Live, Doomed, Threads, NullOrSlot

LEMMA StayingNext ==
    ASSUME ThreadFreesNothing'
    PROVE  \A s : s \in Staying' <=>
               /\ s \in Slots /\ objs'[s].kind # "none"
               /\ Item("unref", s) \notin Pending(App)'
               /\ Item("drop", s) \notin Pending(App)'
BY DEF ThreadFreesNothing, Staying, Live, Doomed, Threads, NullOrSlot

LEMMA SameOwners ==
    ASSUME Types, Owners, OneMonitor, Staying' = Staying,
           held' = held, queue' = queue,
           \A s \in Slots : \/ objs'[s] = objs[s]
                            \/ s \notin Staying /\ objs'[s].kind = "none",
           \A s \in Slots : Item("queue", s) \in Pending(Receiver)
                                => Item("queue", s) \in Pending(Receiver)'
    PROVE  Owners' /\ OneMonitor'
<1>1. Staying \subseteq Slots /\ \A s \in Staying : objs'[s] = objs[s]
  BY DEF Staying, Live
<1>2. Items(queue)' = Items(queue)
  BY DEF Items
<1>3. HeldStays' /\ Counted'
  BY <1>1 DEF Owners, HeldStays, Counted
<1>4. \A x \in Staying : \A p : Owns(x, p)' <=> Owns(x, p)
  BY <1>1 DEF Owns
<1>5. Owned'
  BY <1>1, <1>2, <1>4 DEF Owners, Owned
<1>6. ParentOwned'
  BY <1>1 DEF Owners, ParentOwned
<1>7. OneOwner'
  BY <1>1, <1>4 DEF Owners, OneOwner
<1>8. OneMonitor'
  BY DEF OneMonitor, Live
<1> QED BY <1>3, <1>5, <1>6, <1>7, <1>8 DEF Owners

LEMMA ThreadSame ==
    ASSUME Types, ThreadOrder, ThreadWork, Staying' = Staying,
           todo'[Receiver] = todo[Receiver], held' = held,
           Items(queue)' = Items(queue),
           \A s \in Slots : objs'[s] = objs[s]
    PROVE  ThreadOrder' /\ ThreadWork'
<1>1. Pending(Receiver)' = Pending(Receiver)
  BY DEF Pending
<1>2. ThreadOrder'
  BY DEF ThreadOrder, Once
<1>3. Live' = Live
  BY DEF Live
<1>4. Staying \subseteq Slots
  BY DEF Staying, Live
<1>5. \A x \in Staying : \A p : Owns(x, p)' <=> Owns(x, p)
  BY <1>4 DEF Owns
<1> QED BY <1>1, <1>2, <1>3, <1>4, <1>5 DEF ThreadWork, Live

(* udev_ref, udev_unref.                                                   *)
LEMMA ContextCall ==
    ASSUME OwnerInv, NEW op \in {"ref", "unref"}, Begin(App, Do(op, NoSlot)),
           uctx' \in 0..MaxRefs, op = "ref" => uctx' > 1,
           UNCHANGED <<objs, held, queue, nullFds>>
    PROVE  OwnerInv'
<1> USE DEF OwnerInv, Calls
<1>1. NoSlot \in NullOrSlot /\ NoSlot \notin Slots /\ App \in Threads
      /\ Receiver \in Threads \ {App}
  BY ObjectsAssumption DEF NullOrSlot, Threads
<1> DEFINE w == Do(op, NoSlot)
<1>2. /\ w \in Seq(Work) /\ Items(w) = {Item(op, NoSlot)} /\ Once(w)
  BY <1>1, DoWork
<1>w. Begin(App, w)
  OBVIOUS
<1> HIDE DEF w
<1>3. /\ todo' \in [Threads -> Seq(Work)]
      /\ todo'[App] = w /\ Pending(App)' = {Item(op, NoSlot)}
      /\ Pending(App) = {}
      /\ todo'[Receiver] = todo[Receiver] /\ Pending(Receiver)' = Pending(Receiver)
  BY <1>1, <1>2, <1>w, BeginWork
<1>4. Types'
  BY <1>3, <1>w DEF Types, Begin, context, registers
<1>5. /\ \A q, s : Item(q, s) \in Pending(App)' <=> q = op /\ s = NoSlot
  BY <1>3, ItemFields
<1>6. AppWork'
  <2>1. Once(todo'[App])
    BY <1>2, <1>3
  <2> QED BY <1>1, <1>5, <2>1 DEF AppWork, AppMakes, AppFrees
<1>7. MonitorEnds'
  BY <1>1, <1>5 DEF MonitorEnds
<1>8. ThreadFreesNothing /\ ThreadFreesNothing'
  BY <1>3 DEF ThreadWork, ThreadFreesNothing
<1>9. Staying' = Staying
  BY <1>1, <1>3, <1>5, <1>8, StayingNow, StayingNext
<1>10. ThreadOrder' /\ ThreadWork'
  BY <1>3, <1>9, ThreadSame DEF Items
<1>11. Owners' /\ OneMonitor'
  BY <1>3, <1>9, SameOwners
<1>12. QueueOwned'
  BY <1>3, <1>9 DEF QueueOwned, Once, Items, Live
<1>13. DescriptorsHeld'
  BY DEF DescriptorsHeld
<1> QED BY <1>4, <1>6, <1>7, <1>10, <1>11, <1>12, <1>13

LEMMA SameWork ==
    ASSUME OwnerInv, Types', DescriptorsHeld',
           UNCHANGED <<uctx, objs, held, queue, todo>>
    PROVE  OwnerInv'
<1> USE DEF OwnerInv, Calls
<1>1. Pending(App)' = Pending(App) /\ Pending(Receiver)' = Pending(Receiver)
  BY DEF Pending
<1>2. Live' = Live /\ Doomed' = Doomed /\ Staying' = Staying
  BY DEF Live, Doomed, Pending, Staying
<1>3. AppWork' /\ MonitorEnds'
  BY <1>1, <1>2 DEF AppWork, AppMakes, AppFrees, Once, MonitorEnds
<1>4. ThreadOrder' /\ ThreadWork'
  BY <1>2, ThreadSame DEF Items
<1>5. Owners' /\ OneMonitor'
  BY <1>1, <1>2, SameOwners
<1>6. QueueOwned'
  BY <1>1, <1>2 DEF QueueOwned, Once, Items
<1> QED BY <1>3, <1>4, <1>5, <1>6

(* The first half of a change of the context's count.                      *)
LEMMA LoadOwners ==
    ASSUME OwnerInv, NEW t \in Threads, Load(t)
    PROVE  OwnerInv'
<1>1. UNCHANGED <<refcount, freed, uctx, objs, held, queue, nullFds, todo>>
  BY DEF Load, context
<1>2. Types'
  BY <1>1 DEF OwnerInv, Types, Load
<1>3. DescriptorsHeld'
  BY <1>1 DEF OwnerInv, DescriptorsHeld
<1> QED BY <1>1, <1>2, <1>3, SameWork

(* udev_queue_get_fd.                                                      *)
LEMMA GetFdOwners ==
    ASSUME OwnerInv, NEW s \in Slots, GetFd(s)
    PROVE  OwnerInv'
<1>1. UNCHANGED <<refcount, freed, uctx, objs, held, queue, todo, loaded, raced>>
  BY DEF GetFd, context, registers
<1>2. Types'
  BY <1>1 DEF OwnerInv, Types, GetFd
<1>3. DescriptorsHeld'
  BY <1>1 DEF OwnerInv, DescriptorsHeld, GetFd, Types
<1> QED BY <1>1, <1>2, <1>3, SameWork

(* _udev_ref, by either thread.                                            *)
LEMMA StoreRefOwners ==
    ASSUME OwnerInv, NEW t \in Threads, StoreRef(t)
    PROVE  OwnerInv'
<1> USE DEF OwnerInv, Calls
<1>1. /\ UNCHANGED <<freed, uctx, objs, held, queue, nullFds, raced>>
      /\ todo[t] # <<>> /\ Finish(t)
  BY DEF StoreRef
<1> DEFINE s == Head(todo[t]).slot
<1>2. /\ Head(todo[t]) = Item("ref", s) /\ Item("ref", s) \in Pending(t)
      /\ s \in NullOrSlot
  BY <1>1, HeadWork DEF StoreRef
<1>3. t = App \/ t = Receiver
  BY DEF Threads
<1>4. Once(todo[t])
  BY <1>3 DEF AppWork, ThreadOrder
<1>5. /\ todo' \in [Threads -> Seq(Work)]
      /\ todo'[t] = Tail(todo[t]) /\ Once(todo'[t])
      /\ Pending(t)' = Pending(t) \ {Item("ref", s)}
      /\ \A u \in Threads \ {t} :
             todo'[u] = todo[u] /\ Pending(u)' = Pending(u)
  BY <1>1, <1>2, <1>4, FinishWork
<1> HIDE DEF s
<1>6. App \in Threads /\ Receiver \in Threads /\ App # Receiver
  BY ObjectsAssumption DEF Threads
<1>7. /\ Pending(App)' \subseteq Pending(App)
      /\ Pending(Receiver)' \subseteq Pending(Receiver)
      /\ Once(todo'[App]) /\ Once(todo'[Receiver])
      /\ todo[Receiver] = <<>> => todo'[Receiver] = <<>>
  <2>1. Once(todo[App]) /\ Once(todo[Receiver])
    BY DEF AppWork, ThreadOrder
  <2>2. \A u \in Threads :
            u = t \/ (todo'[u] = todo[u] /\ Pending(u)' = Pending(u))
    BY <1>5
  <2>3. \A u \in Threads : Pending(u)' \subseteq Pending(u)
    BY <1>5, <2>2
  <2>4. \A u \in Threads : Once(todo[u]) => Once(todo'[u])
    BY <1>5, <2>2
  <2>5. todo[Receiver] = <<>> => todo'[Receiver] = <<>>
    BY <1>1, <1>6, <2>2
  <2> QED BY <1>6, <2>1, <2>3, <2>4, <2>5
<1>8. \A u \in Threads : \A q, x : q # "ref" =>
          (Item(q, x) \in Pending(u)' <=> Item(q, x) \in Pending(u))
  BY <1>5, ItemFields
<1>9. Types'
  <2>1. loaded[t] \in Int
    BY DEF StoreRef, Types
  <2>2. refcount' \in Int /\ loaded' \in [Threads -> Int \cup {Idle}]
    BY <2>1 DEF StoreRef, Types
  <2> QED BY <1>1, <1>5, <2>2 DEF Types
<1>10. Live' = Live
  BY <1>1 DEF Live
<1>11. AppWork'
  BY <1>1, <1>6, <1>7, <1>8, <1>10 DEF AppWork, AppMakes, AppFrees
<1>12. MonitorEnds'
  BY <1>1, <1>7 DEF MonitorEnds
<1>13. ThreadFreesNothing /\ ThreadFreesNothing'
  BY <1>7 DEF ThreadWork, ThreadFreesNothing
<1>14. Staying' = Staying
  BY <1>1, <1>6, <1>8, <1>13, StayingNow, StayingNext
<1>15. ThreadOrder'
  <2>1. CASE t = Receiver
    <3> DEFINE v == todo[t]
    <3>1. v \in Seq(Work) /\ v # <<>> /\ todo'[Receiver] = Tail(v)
      BY <1>1, <1>5, <2>1 DEF Types
    <3>2. \A i \in DOMAIN v : /\ v[i].op \in {"ref", "queue"}
                              /\ v[i].op = "queue" <=> i = Len(v)
      BY <2>1 DEF ThreadOrder
    <3> HIDE DEF v
    <3>3. /\ Len(v) \in Nat \ {0} /\ DOMAIN v = 1..Len(v)
          /\ DOMAIN Tail(v) = 1..Len(v) - 1 /\ Len(Tail(v)) = Len(v) - 1
          /\ \A i \in 1..Len(v) - 1 : Tail(v)[i] = v[i + 1] /\ i + 1 \in DOMAIN v
      BY <3>1
    <3>4. \A i \in DOMAIN Tail(v) :
              /\ Tail(v)[i].op \in {"ref", "queue"}
              /\ Tail(v)[i].op = "queue" <=> i = Len(Tail(v))
      BY <3>2, <3>3
    <3> QED BY <1>7, <3>1, <3>4 DEF ThreadOrder
  <2>2. CASE t = App
    BY <1>5, <1>6, <2>2 DEF ThreadOrder, Once
  <2> QED BY <1>3, <2>1, <2>2
<1>16. ThreadWork'
  <2>1. \A x, p : Owns(x, p)' <=> Owns(x, p)
    BY <1>1 DEF Owns
  <2>2. Items(queue)' = Items(queue)
    BY <1>1 DEF Items
  <2>3. \A x : Item("queue", x) \in Pending(Receiver)' <=> Item("queue", x) \in Pending(Receiver)
    BY <1>6, <1>8
  <2>4. todo'[Receiver] # <<>> => todo[Receiver] # <<>>
    BY <1>7
  <2> QED BY <1>1, <1>7, <1>10, <1>14, <2>1, <2>2, <2>3, <2>4 DEF ThreadWork
<1>17. Owners' /\ OneMonitor'
  BY <1>1, <1>6, <1>8, <1>14, SameOwners
<1>18. QueueOwned'
  BY <1>1, <1>6, <1>8, <1>10, <1>14 DEF QueueOwned, Once, Items
<1>19. DescriptorsHeld'
  BY <1>1 DEF DescriptorsHeld
<1> QED BY <1>9, <1>11, <1>12, <1>15, <1>16, <1>17, <1>18, <1>19

(* A part of a call that leaves more to do.                                *)
LEMMA ReplaceWork ==
    ASSUME Types, NEW t \in Threads, todo[t] # <<>>, Once(todo[t]),
           NEW w \in Seq(Work), Once(w), Items(w) \cap Pending(t) = {},
           todo' = [todo EXCEPT ![t] = w \o Tail(@)]
    PROVE  /\ todo' \in [Threads -> Seq(Work)] /\ Once(todo'[t])
           /\ Pending(t)' = Items(w) \cup (Pending(t) \ {Head(todo[t])})
           /\ \A u \in Threads \ {t} :
                  todo'[u] = todo[u] /\ Pending(u)' = Pending(u)
<1> DEFINE v == todo[t]
           r == Tail(todo[t])
<1>1. v \in Seq(Work) /\ v # <<>> /\ Once(v) /\ Items(v) = Pending(t)
  BY DEF Types, Pending, Items
<1>2. /\ r \in Seq(Work) /\ Once(r)
      /\ Items(r) = Pending(t) \ {Head(v)}
  <2> HIDE DEF v
  <2>1. /\ Tail(v) \in Seq(Work) /\ Once(Tail(v))
        /\ Items(Tail(v)) = Items(v) \ {Head(v)}
    BY <1>1, ItemsTail
  <2>2. r = Tail(v)
    BY DEF v
  <2> HIDE DEF r
  <2> QED BY <1>1, <2>1, <2>2
<1>3. todo' = [todo EXCEPT ![t] = w \o r]
  OBVIOUS
<1> HIDE DEF v, r
<1>4. w \o r \in Seq(Work) /\ Items(w \o r) = Items(w) \cup Items(r) /\ Once(w \o r)
  <2>1. Items(w) \cap Items(r) = {}
    BY <1>2
  <2> QED BY <1>2, <2>1, ItemsConcat
<1> DEFINE c == w \o r
<1>5. todo' = [todo EXCEPT ![t] = c] /\ c \in Seq(Work) /\ Once(c)
      /\ Items(c) = Items(w) \cup (Pending(t) \ {Head(v)})
  BY <1>2, <1>3, <1>4
<1> HIDE DEF c
<1>6. /\ todo' \in [Threads -> Seq(Work)] /\ todo'[t] = c
      /\ \A u \in Threads \ {t} : todo'[u] = todo[u]
  BY <1>5 DEF Types
<1>7. Pending(t)' = Items(c)
  BY <1>6 DEF Pending, Items
<1>8. \A u \in Threads \ {t} : Pending(u)' = Pending(u)
  BY <1>6 DEF Pending
<1> QED BY <1>5, <1>6, <1>7, <1>8 DEF v

LEMMA PushWork ==
    ASSUME Types, NEW t \in Threads, Once(todo[t]),
           NEW w \in Seq(Work), Once(w), Items(w) \cap Pending(t) = {},
           todo' = [todo EXCEPT ![t] = w \o @]
    PROVE  /\ todo' \in [Threads -> Seq(Work)] /\ Once(todo'[t])
           /\ Pending(t)' = Items(w) \cup Pending(t)
           /\ \A u \in Threads \ {t} :
                  todo'[u] = todo[u] /\ Pending(u)' = Pending(u)
<1> DEFINE v == todo[t]
<1>1. v \in Seq(Work) /\ Once(v) /\ Items(v) = Pending(t)
  BY DEF Types, Pending, Items
<1>2. todo' = [todo EXCEPT ![t] = w \o v]
  OBVIOUS
<1> HIDE DEF v
<1>3. w \o v \in Seq(Work) /\ Items(w \o v) = Items(w) \cup Items(v) /\ Once(w \o v)
  BY <1>1, ItemsConcat
<1> DEFINE c == w \o v
<1>4. todo' = [todo EXCEPT ![t] = c] /\ c \in Seq(Work) /\ Once(c)
      /\ Items(c) = Items(w) \cup Pending(t)
  BY <1>1, <1>2, <1>3
<1> HIDE DEF c
<1>5. /\ todo' \in [Threads -> Seq(Work)] /\ todo'[t] = c
      /\ \A u \in Threads \ {t} : todo'[u] = todo[u]
  BY <1>4 DEF Types
<1>6. Pending(t)' = Items(c)
  BY <1>5 DEF Pending, Items
<1>7. \A u \in Threads \ {t} : Pending(u)' = Pending(u)
  BY <1>5 DEF Pending
<1> QED BY <1>4, <1>5, <1>6, <1>7

(* The queue is empty: the monitor gives its reference back and is freed.  *)
LEMMA EndDropOwners ==
    ASSUME OwnerInv, NEW t \in Threads, EndDrop(t)
    PROVE  OwnerInv'
<1> USE DEF OwnerInv, Calls
<1>1. UNCHANGED <<refcount, freed, uctx, objs, held, queue, nullFds, loaded, raced>>
      /\ queue = <<>> /\ todo[t] # <<>>
  BY DEF EndDrop, context, registers
<1> DEFINE s == Head(todo[t]).slot
<1>2. /\ Head(todo[t]) = Item("drop", s) /\ Item("drop", s) \in Pending(t)
      /\ s \in NullOrSlot /\ t = App
  BY <1>1, HeadWork DEF EndDrop
<1> DEFINE w == Do("unref", s)
<1>3. todo' = [todo EXCEPT ![t] = w \o Tail(@)]
  BY DEF EndDrop
<1> HIDE DEF s
<1>4. w \in Seq(Work) /\ Items(w) = {Item("unref", s)} /\ Once(w)
  BY <1>2, DoWork
<1> HIDE DEF w
<1>5. App \in Threads /\ Receiver \in Threads \ {App}
  BY ObjectsAssumption DEF Threads
<1>6. s \in Slots /\ Item("unref", s) \notin Pending(App) /\ Once(todo[App])
  BY <1>2, ObjectsAssumption DEF AppWork, NullOrSlot
<1>7. /\ todo' \in [Threads -> Seq(Work)] /\ Once(todo'[App])
      /\ Pending(App)' = {Item("unref", s)} \cup (Pending(App) \ {Item("drop", s)})
      /\ todo'[Receiver] = todo[Receiver] /\ Pending(Receiver)' = Pending(Receiver)
  <2>1. Items(w) \cap Pending(t) = {}
    BY <1>2, <1>4, <1>6
  <2> QED BY <1>1, <1>2, <1>3, <1>4, <1>5, <1>6, <2>1, ReplaceWork
<1>8. \A q, x : Item(q, x) \in Pending(App)' <=>
          \/ q = "unref" /\ x = s
          \/ Item(q, x) \in Pending(App) /\ ~(q = "drop" /\ x = s)
  BY <1>7, ItemFields
<1>9. Types'
  BY <1>1, <1>7 DEF Types
<1>10. Live' = Live /\ s \in Live /\ held[s] = 0
  BY <1>1, <1>2, <1>6 DEF Live, AppWork
<1>11. AppWork'
  <2>1. AppFrees /\ AppFrees'
    BY <1>2, <1>8 DEF AppWork, AppMakes, AppFrees
  <2> QED BY <1>1, <1>6, <1>7, <1>8, <1>10, <2>1, ObjectsAssumption
          DEF AppWork, AppFrees, NullOrSlot
<1>12. MonitorEnds'
  BY <1>1, <1>2, <1>6, <1>7, <1>8 DEF MonitorEnds
<1>13. ThreadFreesNothing /\ ThreadFreesNothing'
  BY <1>7 DEF ThreadWork, ThreadFreesNothing
<1>14. Staying' = Staying
  BY <1>1, <1>2, <1>8, <1>13, StayingNow, StayingNext
<1>15. ThreadOrder' /\ ThreadWork'
  BY <1>1, <1>7, <1>14, ThreadSame DEF Items
<1>16. Owners' /\ OneMonitor'
  BY <1>1, <1>7, <1>14, SameOwners
<1>17. QueueOwned'
  BY <1>1 DEF QueueOwned, Once, Items
<1>18. DescriptorsHeld'
  BY <1>1 DEF DescriptorsHeld
<1> QED BY <1>9, <1>11, <1>12, <1>15, <1>16, <1>17, <1>18

(* _udev_unref, and the object or the context is freed.                    *)
LEMMA StoreUnrefOwners ==
    ASSUME OwnerInv, NEW t \in Threads, StoreUnref(t)
    PROVE  OwnerInv'
<1> USE DEF OwnerInv, Calls
<1>1. /\ UNCHANGED <<uctx, held, queue, nullFds, raced>>
      /\ todo[t] # <<>> /\ Finish(t)
  BY DEF StoreUnref
<1> DEFINE s == Head(todo[t]).slot
<1>2. /\ Head(todo[t]) = Item("unref", s) /\ Item("unref", s) \in Pending(t)
      /\ s \in NullOrSlot /\ t = App
  BY <1>1, HeadWork DEF StoreUnref
<1>3. objs' = [x \in Slots |-> IF x = s THEN Free ELSE objs[x]]
  BY DEF StoreUnref
<1> HIDE DEF s
<1>4. App \in Threads /\ Receiver \in Threads \ {App} /\ NoSlot \notin Slots
  BY ObjectsAssumption DEF Threads
<1>5. /\ todo' \in [Threads -> Seq(Work)] /\ Once(todo'[App])
      /\ Pending(App)' = Pending(App) \ {Item("unref", s)}
      /\ todo'[Receiver] = todo[Receiver] /\ Pending(Receiver)' = Pending(Receiver)
  <2>1. Once(todo[App])
    BY DEF AppWork
  <2> QED BY <1>1, <1>2, <1>4, <2>1, FinishWork
<1>6. \A q, x : Item(q, x) \in Pending(App)' <=>
          Item(q, x) \in Pending(App) /\ ~(q = "unref" /\ x = s)
  BY <1>5, ItemFields
<1>7. Free.kind = "none" /\ Free \in Object
  BY DEF Free, Object, Kinds
<1>8. Types'
  <2>1. loaded[t] \in Int
    BY DEF StoreUnref, Types
  <2>2. /\ refcount' \in Int /\ loaded' \in [Threads -> Int \cup {Idle}]
        /\ freed' \in BOOLEAN
    BY <2>1 DEF StoreUnref, Types
  <2>3. objs' \in [Slots -> Object]
    BY <1>3, <1>7 DEF Types
  <2> QED BY <1>1, <1>5, <2>2, <2>3 DEF Types
<1>9. \A x \in Slots : /\ x # s => objs'[x] = objs[x]
                       /\ x = s => objs'[x].kind = "none"
  BY <1>3, <1>7
<1>10. Live' = Live \ {s}
  BY <1>9 DEF Live
<1>11. ThreadFreesNothing /\ ThreadFreesNothing'
  BY <1>5 DEF ThreadWork, ThreadFreesNothing
<1>12. Staying' = Staying /\ s \notin Staying
  BY <1>2, <1>6, <1>9, <1>11, StayingNow, StayingNext
<1>13. s \in Slots => held[s] = 0 /\ Item("drop", s) \notin Pending(App)
  BY <1>2 DEF AppWork
<1>14. AppFrees
  BY <1>2 DEF AppWork, AppMakes
<1>15. AppWork'
  BY <1>1, <1>5, <1>6, <1>10, <1>13, <1>14 DEF AppWork, AppFrees, NullOrSlot
<1>16. MonitorEnds'
  <2>1. \A x \in Slots : Item("drop", x) \in Pending(App)' =>
            objs'[x] = objs[x] /\ Item("drop", x) \in Pending(App)
    BY <1>6, <1>9, <1>13
  <2>2. \A x \in Slots : Item("unref", x) \in Pending(App)' =>
            objs'[x] = objs[x] /\ Item("unref", x) \in Pending(App)
    BY <1>6, <1>9
  <2> QED BY <1>1, <1>5, <2>1, <2>2 DEF MonitorEnds
<1>17. Owners' /\ OneMonitor'
  BY <1>1, <1>5, <1>9, <1>12, SameOwners
<1>18. ThreadOrder'
  BY <1>5 DEF ThreadOrder, Once
<1>19. Staying \subseteq Slots /\ \A x \in Staying : objs'[x] = objs[x]
  BY <1>9, <1>12 DEF Staying, Live
<1>20. \A m \in Live : held[m] > 0 => m \in Live' /\ objs'[m] = objs[m]
  BY <1>9, <1>10, <1>13 DEF Live
<1>21. ThreadWork'
  <2>1. \A x \in Staying : \A p : Owns(x, p)' <=> Owns(x, p)
    BY <1>19 DEF Owns
  <2>2. Items(queue)' = Items(queue)
    BY <1>1 DEF Items
  <2> QED BY <1>1, <1>5, <1>12, <1>19, <1>20, <2>1, <2>2 DEF ThreadWork
<1>22. QueueOwned'
  <2>1. queue # <<>> => \E m \in Live' : /\ objs'[m].kind = "monitor"
                                         /\ held[m] > 0 \/ Item("drop", m) \in Pending(App)'
    BY <1>6, <1>9, <1>10, <1>13 DEF QueueOwned, Live
  <2> QED BY <1>1, <1>12, <1>19, <2>1 DEF QueueOwned, Once, Items
<1>23. DescriptorsHeld'
  BY <1>1 DEF DescriptorsHeld
<1> QED BY <1>8, <1>15, <1>16, <1>17, <1>18, <1>21, <1>22, <1>23

(* The thread's last step of a device: the queue has it.                   *)
LEMMA EnqueueOwners ==
    ASSUME OwnerInv, NEW t \in Threads, Enqueue(t)
    PROVE  OwnerInv'
<1> USE DEF OwnerInv, Calls
<1>1. UNCHANGED <<refcount, freed, uctx, objs, held, nullFds, loaded, raced>>
      /\ todo[t] # <<>> /\ Finish(t)
  BY DEF Enqueue, context, registers
<1> DEFINE s == Head(todo[t]).slot
<1>2. /\ Head(todo[t]) = Item("queue", s) /\ Item("queue", s) \in Pending(t)
      /\ s \in NullOrSlot /\ t = Receiver
  BY <1>1, HeadWork DEF Enqueue
<1>3. queue' = Append(queue, s)
  BY DEF Enqueue
<1> HIDE DEF s
<1>4. Receiver \in Threads /\ App \in Threads \ {Receiver}
  BY ObjectsAssumption DEF Threads
<1>5. /\ todo' \in [Threads -> Seq(Work)]
      /\ todo'[App] = todo[App] /\ Pending(App)' = Pending(App)
      /\ todo'[Receiver] = Tail(todo[Receiver])
  <2>1. Once(todo[Receiver])
    BY DEF ThreadOrder
  <2> QED BY <1>1, <1>2, <1>4, <2>1, FinishWork
<1>6. Pending(Receiver) = {Item("queue", s)} /\ todo'[Receiver] = <<>>
      /\ Pending(Receiver)' = {}
  <2> DEFINE v == todo[Receiver]
  <2>1. v \in Seq(Work) /\ v # <<>> /\ Head(v) = Item("queue", s)
    BY <1>1, <1>2 DEF Types
  <2>2. \A i \in DOMAIN v : v[i].op = "queue" <=> i = Len(v)
    BY DEF ThreadOrder
  <2>3. todo'[Receiver] = Tail(v)
    BY <1>5
  <2>4. Pending(Receiver) = Items(v)
    BY DEF Pending, Items
  <2> HIDE DEF v
  <2>5. /\ Len(v) \in Nat \ {0} /\ DOMAIN v = 1..Len(v) /\ Head(v) = v[1]
        /\ 1 \in DOMAIN v
    BY <2>1
  <2>6. v[1].op = "queue"
    BY <2>1, <2>5, ItemFields
  <2>7. Len(v) = 1 /\ DOMAIN v = {1}
    BY <2>2, <2>5, <2>6
  <2>8. Tail(v) = <<>>
    <3>1. Tail(v) \in Seq(Work) /\ Len(Tail(v)) = 0
      BY <2>1, <2>5, <2>7
    <3> QED BY <3>1, EmptySeq
  <2>9. Items(v) = {Item("queue", s)}
    BY <2>1, <2>5, <2>7 DEF Items
  <2>10. Pending(Receiver)' = {}
    BY <2>3, <2>8, ItemsEmpty DEF Pending, Items
  <2> QED BY <2>3, <2>4, <2>8, <2>9, <2>10
<1>7. /\ s \in Slots /\ s \in Staying /\ objs[s].kind = "device" /\ held[s] = 0
      /\ s \notin Items(queue)
  BY <1>2 DEF ThreadWork, Staying, Live
<1>8. /\ queue' \in Seq(Slots) /\ Items(queue)' = Items(queue) \cup {s}
      /\ Once(queue')
  <2>1. queue \in Seq(Slots) /\ Once(queue)
    BY DEF Types, QueueOwned
  <2>2. /\ queue' \in Seq(Slots) /\ Items(queue') = Items(queue) \cup {s}
        /\ Once(queue')
    BY <1>3, <1>7, <2>1, ItemsAppend
  <2> QED BY <2>2
<1>9. Types'
  BY <1>1, <1>5, <1>8 DEF Types
<1>10. AppWork'
  BY <1>1, <1>5 DEF AppWork, AppMakes, AppFrees, Live
<1>11. todo[Receiver] # <<>>
  BY <1>1, <1>2
<1>12. MonitorEnds'
  BY <1>1, <1>5, <1>11 DEF MonitorEnds
<1>13. ThreadOrder' /\ ThreadWork'
  <2>1. Once(todo'[Receiver]) /\ DOMAIN todo'[Receiver] = {}
    BY <1>6, ItemsEmpty
  <2> QED BY <1>6, <2>1 DEF ThreadOrder, ThreadWork
<1>14. ThreadFreesNothing /\ ThreadFreesNothing'
  BY <1>6 DEF ThreadWork, ThreadFreesNothing
<1>15. Staying' = Staying
  BY <1>1, <1>5, <1>14, StayingNow, StayingNext
<1>16. Live' = Live
  BY <1>1 DEF Live
<1>17. QueueOwned'
  <2>1. \E m \in Live' : objs'[m].kind = "monitor" /\ held'[m] > 0
    BY <1>1, <1>11, <1>16 DEF ThreadWork
  <2> QED BY <1>1, <1>7, <1>8, <1>15, <2>1 DEF QueueOwned
<1>18. \A x : Item("queue", x) \in Pending(Receiver) <=> x = s
  BY <1>6, ItemFields
<1>19. Owners'
  <2>1. \A x, p : Owns(x, p)' <=> Owns(x, p)
    BY <1>1 DEF Owns
  <2>2. HeldStays' /\ Counted' /\ ParentOwned' /\ OneOwner'
    BY <1>1, <1>15, <2>1 DEF Owners, HeldStays, Counted, ParentOwned, OneOwner
  <2>3. Owned'
    BY <1>1, <1>8, <1>15, <1>18, <2>1 DEF Owners, Owned
  <2> QED BY <2>2, <2>3 DEF Owners
<1>20. OneMonitor' /\ DescriptorsHeld'
  BY <1>1, <1>16 DEF OneMonitor, DescriptorsHeld
<1> QED BY <1>9, <1>10, <1>12, <1>13, <1>17, <1>19, <1>20

(* A call that changes nobody's work: between two calls the application    *)
(* has nothing to do.                                                      *)
LEMMA NoAppWork ==
    ASSUME ThreadWork, todo[App] = <<>>, UNCHANGED todo
    PROVE  /\ Pending(App) = {} /\ Pending(App)' = {}
           /\ todo'[App] = <<>> /\ todo'[Receiver] = todo[Receiver]
           /\ Pending(Receiver)' = Pending(Receiver)
           /\ AppWork' /\ MonitorEnds'
           /\ ThreadOrder => ThreadOrder'
           /\ ThreadFreesNothing /\ ThreadFreesNothing'
<1>1. /\ Pending(App) = {} /\ Pending(App)' = {} /\ todo'[App] = <<>>
      /\ todo'[Receiver] = todo[Receiver] /\ Pending(Receiver)' = Pending(Receiver)
  BY ItemsEmpty DEF Pending, Items
<1>2. Once(todo'[App])
  BY <1>1, ItemsEmpty
<1>3. AppWork' /\ MonitorEnds'
  BY <1>1, <1>2 DEF AppWork, AppMakes, MonitorEnds
<1>4. ThreadOrder => ThreadOrder'
  BY <1>1 DEF ThreadOrder, Once
<1>5. ThreadFreesNothing /\ ThreadFreesNothing'
  BY <1>1 DEF ThreadWork, ThreadFreesNothing
<1> QED BY <1>1, <1>3, <1>4, <1>5

(* udev_monitor_receive_device: the application has what the queue had.    *)
LEMMA ReceiveOwners ==
    ASSUME OwnerInv, NEW s \in Slots, ReceiveDevice(s)
    PROVE  OwnerInv'
<1> USE DEF OwnerInv, Calls
<1>1. UNCHANGED <<refcount, freed, uctx, objs, nullFds, todo, loaded, raced>>
      /\ todo[App] = <<>>
  BY DEF ReceiveDevice, context, registers
<1>2. /\ queue' \in Seq(Slots) /\ Once(queue') /\ s \in Items(queue)
      /\ s \notin Items(queue)' /\ Items(queue)' = Items(queue) \ {s}
      /\ queue # <<>>
  <2>1. queue \in Seq(Slots) /\ queue # <<>> /\ Once(queue) /\ s = Head(queue)
        /\ queue' = Tail(queue)
    BY DEF Types, QueueOwned, ReceiveDevice
  <2>2. /\ Tail(queue) \in Seq(Slots) /\ Items(queue) = {s} \cup Items(Tail(queue))
        /\ Once(Tail(queue)) /\ s \notin Items(Tail(queue))
        /\ Items(Tail(queue)) = Items(queue) \ {s}
    BY <2>1, ItemsTail
  <2>3. Items(queue)' = Items(Tail(queue))
    BY <2>1 DEF Items
  <2> QED BY <2>1, <2>2, <2>3
<1>3. /\ Pending(App) = {} /\ Pending(App)' = {}
      /\ todo'[App] = <<>> /\ todo'[Receiver] = todo[Receiver]
      /\ Pending(Receiver)' = Pending(Receiver)
      /\ AppWork' /\ MonitorEnds' /\ ThreadOrder'
      /\ ThreadFreesNothing /\ ThreadFreesNothing'
  BY <1>1, NoAppWork
<1>4. s \in Staying /\ objs[s].kind = "device" /\ held[s] = 0 /\ objs[s].rc = 1
  BY <1>2 DEF QueueOwned, Owners, Counted
<1>5. /\ held' \in [Slots -> 0..MaxRefs] /\ held'[s] = 1
      /\ \A x \in Slots \ {s} : held'[x] = held[x]
  BY ObjectsAssumption DEF Types, ReceiveDevice
<1>6. Types'
  BY <1>1, <1>2, <1>5 DEF Types
<1>7. Live' = Live
  BY <1>1 DEF Live
<1>8. Staying' = Staying /\ Staying \subseteq Slots
  BY <1>1, <1>3, StayingNow, StayingNext DEF Staying, Live
<1>9. \A x, p : Owns(x, p)' <=> Owns(x, p)
  BY <1>1 DEF Owns
<1>10. Item("queue", s) \notin Pending(Receiver)
  BY <1>2 DEF ThreadWork, NullOrSlot
<1>11. \A m \in Live : held[m] > 0 => held'[m] > 0
  BY <1>5 DEF Live
<1>12. ThreadWork'
  <2>1. \A x \in NullOrSlot : Item("queue", x) \in Pending(Receiver)' =>
            /\ x \in Staying' /\ objs'[x].kind = "device" /\ held'[x] = 0
            /\ x \notin Items(queue)'
    BY <1>1, <1>2, <1>3, <1>5, <1>8, <1>10 DEF ThreadWork
  <2>2. todo'[Receiver] # <<>> =>
            \E m \in Live' : objs'[m].kind = "monitor" /\ held'[m] > 0
    BY <1>1, <1>7, <1>11 DEF ThreadWork
  <2> QED BY <1>3, <1>8, <1>9, <2>1, <2>2 DEF ThreadWork
<1>13. QueueOwned'
  <2>1. \A x \in Items(queue)' :
            x \in Staying' /\ objs'[x].kind = "device" /\ held'[x] = 0
    BY <1>1, <1>2, <1>5, <1>8 DEF QueueOwned
  <2>2. \E m \in Live' : objs'[m].kind = "monitor" /\ held'[m] > 0
    BY <1>1, <1>2, <1>3, <1>7, <1>11 DEF QueueOwned
  <2> QED BY <1>2, <2>1, <2>2 DEF QueueOwned
<1>14. Owners'
  <2>1. HeldStays'
    BY <1>4, <1>5, <1>8 DEF Owners, HeldStays
  <2>2. Counted'
    BY <1>1, <1>4, <1>5, <1>8 DEF Owners, Counted
  <2>3. Owned'
    BY <1>1, <1>2, <1>3, <1>5, <1>8, <1>9 DEF Owners, Owned
  <2>4. ParentOwned'
    BY <1>1, <1>4, <1>5, <1>8 DEF Owners, ParentOwned
  <2>5. OneOwner'
    BY <1>8, <1>9 DEF Owners, OneOwner
  <2> QED BY <2>1, <2>2, <2>3, <2>4, <2>5 DEF Owners
<1>15. OneMonitor'
  BY <1>1, <1>7 DEF OneMonitor
<1>16. DescriptorsHeld'
  <2>1. \A x \in nullFds : x \in Slots /\ held[x] > 0
    BY DEF DescriptorsHeld, Types
  <2>2. \A x \in nullFds : held'[x] > 0
    BY <1>5, <2>1
  <2> QED BY <1>1, <2>2 DEF DescriptorsHeld
<1> QED BY <1>3, <1>6, <1>12, <1>13, <1>14, <1>15, <1>16

(* The application's references to an object change in number, and it      *)
(* keeps one at least.                                                     *)
LEMMA RecountOwners ==
    ASSUME OwnerInv, NEW s \in Slots, held[s] > 0, NEW n \in 1..MaxRefs,
           todo[App] = <<>>,
           UNCHANGED <<refcount, freed, uctx, queue, nullFds, todo, loaded, raced>>,
           objs' = [objs EXCEPT ![s].rc = n], held' = [held EXCEPT ![s] = n]
    PROVE  OwnerInv'
<1> USE DEF OwnerInv, Calls
<1>1. UNCHANGED <<refcount, freed, uctx, queue, nullFds, todo, loaded, raced>>
      /\ todo[App] = <<>>
  OBVIOUS
<1>2. /\ Pending(App) = {} /\ Pending(App)' = {}
      /\ todo'[App] = <<>> /\ todo'[Receiver] = todo[Receiver]
      /\ Pending(Receiver)' = Pending(Receiver)
      /\ AppWork' /\ MonitorEnds' /\ ThreadOrder'
      /\ ThreadFreesNothing /\ ThreadFreesNothing'
  BY <1>1, NoAppWork
<1>3. s \in Staying /\ held[s] > 0 /\ objs[s] \in Object
  BY DEF Types, Owners, HeldStays
<1>4. /\ held' \in [Slots -> 0..MaxRefs] /\ held'[s] = n
      /\ \A x \in Slots \ {s} : held'[x] = held[x]
  BY ObjectsAssumption DEF Types
<1>5. /\ \A x \in Slots \ {s} : objs'[x] = objs[x]
      /\ objs'[s] = [objs[s] EXCEPT !.rc = n]
      /\ objs' = [x \in Slots |-> objs'[x]]
  BY DEF Types
<1>6. /\ objs'[s] \in Object /\ objs'[s].rc = held'[s]
      /\ objs'[s].kind = objs[s].kind /\ objs'[s].parent = objs[s].parent
      /\ objs'[s].parentRef = objs[s].parentRef
  BY <1>3, <1>4, <1>5 DEF Object
<1>7. /\ objs' \in [Slots -> Object]
      /\ \A x \in Slots : /\ objs'[x].kind = objs[x].kind
                          /\ objs'[x].parent = objs[x].parent
                          /\ objs'[x].parentRef = objs[x].parentRef
  BY <1>5, <1>6 DEF Types
<1>8. Types'
  BY <1>1, <1>4, <1>7 DEF Types
<1>9. Live' = Live
  BY <1>7 DEF Live
<1>10. Staying' = Staying /\ Staying \subseteq Slots
  BY <1>2, <1>7, StayingNow, StayingNext DEF Staying, Live
<1>11. \A x \in Slots : \A p : Owns(x, p)' <=> Owns(x, p)
  BY <1>7 DEF Owns
<1>12. \A x \in Slots : /\ held[x] = 0 => held'[x] = 0
                        /\ held[x] > 0 <=> held'[x] > 0
  <2>1. held[s] \in Nat /\ held'[s] > 0 /\ held[s] # 0
    BY <1>3, <1>4 DEF Types
  <2> QED BY <1>3, <1>4, <2>1
<1>13. Items(queue)' = Items(queue)
  BY <1>1 DEF Items
<1>14. ThreadWork'
  <2>1. \A x \in NullOrSlot : Item("queue", x) \in Pending(Receiver)' =>
            /\ x \in Staying' /\ objs'[x].kind = "device" /\ held'[x] = 0
            /\ x \notin Items(queue)'
    BY <1>2, <1>7, <1>10, <1>12, <1>13 DEF ThreadWork
  <2>2. todo'[Receiver] # <<>> =>
            \E m \in Live' : objs'[m].kind = "monitor" /\ held'[m] > 0
    BY <1>1, <1>7, <1>9, <1>12 DEF ThreadWork, Live
  <2> QED BY <1>2, <1>10, <1>11, <2>1, <2>2 DEF ThreadWork
<1>15. QueueOwned'
  <2>1. \A x \in Items(queue)' :
            x \in Staying' /\ objs'[x].kind = "device" /\ held'[x] = 0
    BY <1>7, <1>10, <1>12, <1>13 DEF QueueOwned
  <2>2. queue' # <<>> => \E m \in Live' : objs'[m].kind = "monitor" /\ held'[m] > 0
    BY <1>1, <1>2, <1>7, <1>9, <1>12 DEF QueueOwned, Live
  <2> QED BY <1>1, <2>1, <2>2 DEF QueueOwned, Once
<1>16. Owners'
  <2>1. HeldStays'
    BY <1>3, <1>10, <1>12 DEF Owners, HeldStays
  <2>2. Counted'
    <3>1. \A x \in Staying \ {s} :
              objs'[x].rc = IF held'[x] > 0 THEN held'[x] ELSE 1
      BY <1>4, <1>5, <1>10 DEF Owners, Counted
    <3>2. objs'[s].rc = IF held'[s] > 0 THEN held'[s] ELSE 1
      BY <1>3, <1>6, <1>12, <1>10
    <3> QED BY <1>10, <3>1, <3>2 DEF Counted
  <2>3. Owned'
    BY <1>2, <1>7, <1>10, <1>11, <1>12, <1>13 DEF Owners, Owned
  <2>4. ParentOwned'
    BY <1>7, <1>10, <1>12 DEF Owners, ParentOwned
  <2>5. OneOwner'
    BY <1>10, <1>11 DEF Owners, OneOwner
  <2> QED BY <2>1, <2>2, <2>3, <2>4, <2>5 DEF Owners
<1>17. OneMonitor'
  BY <1>7, <1>9 DEF OneMonitor, Live
<1>18. DescriptorsHeld'
  BY <1>1, <1>12 DEF DescriptorsHeld, Types
<1> QED BY <1>2, <1>8, <1>14, <1>15, <1>16, <1>17, <1>18

(* udev_device_ref and the like.                                           *)
LEMMA RefOwners ==
    ASSUME OwnerInv, NEW s \in Slots, Ref(s)
    PROVE  OwnerInv'
<1> DEFINE n == held[s] + 1
<1>1. /\ held[s] > 0 /\ n \in 1..MaxRefs /\ todo[App] = <<>>
      /\ UNCHANGED <<refcount, freed, uctx, queue, nullFds, todo, loaded, raced>>
  BY ObjectsAssumption DEF Ref, context, registers
<1>2. objs[s].rc = held[s]
  BY <1>1 DEF OwnerInv, Owners, HeldStays, Counted
<1>3. objs' = [objs EXCEPT ![s].rc = n] /\ held' = [held EXCEPT ![s] = n]
  BY <1>2 DEF Ref
<1> HIDE DEF n
<1> QED BY <1>1, <1>3, RecountOwners

(* udev_device_get_parent: the parent changes hands.                       *)
LEMMA GetParentOwners ==
    ASSUME OwnerInv, NEW s \in Slots, GetParent(s)
    PROVE  OwnerInv'
<1> USE DEF OwnerInv, Calls
<1>1. UNCHANGED <<refcount, freed, uctx, queue, nullFds, todo, loaded, raced>>
      /\ todo[App] = <<>>
  BY DEF GetParent, context, registers
<1>2. /\ Pending(App) = {} /\ Pending(App)' = {}
      /\ todo'[App] = <<>> /\ todo'[Receiver] = todo[Receiver]
      /\ Pending(Receiver)' = Pending(Receiver)
      /\ AppWork' /\ MonitorEnds' /\ ThreadOrder'
      /\ ThreadFreesNothing /\ ThreadFreesNothing'
  BY <1>1, NoAppWork
<1> DEFINE p == objs[s].parent
<1>3. /\ s \in Staying /\ held[s] > 0 /\ objs[s].rc = held[s]
      /\ objs[s] \in Object /\ objs[s].kind = "device" /\ Owns(s, p)
      /\ p \in Staying /\ objs[p].kind = "parent" /\ held[p] = 0 /\ p # s
      /\ objs[p].rc = 1 /\ p \in Slots
  <2>1. held[s] > 0 /\ p # NoSlot /\ ~objs[s].parentRef
    BY DEF GetParent
  <2>2. s \in Staying /\ objs[s].rc = held[s] /\ objs[s] \in Object
    BY <2>1 DEF Types, Owners, HeldStays, Counted
  <2>3. objs[s].kind = "device" /\ p \in Staying /\ objs[p].kind = "parent"
        /\ held[p] = 0
    BY <2>1, <2>2 DEF Owners, ParentOwned
  <2>4. p # s /\ p \in Slots /\ objs[p].rc = 1
    BY <2>1, <2>3 DEF Owners, Counted, Staying, Live
  <2> QED BY <2>1, <2>2, <2>3, <2>4 DEF Owns
<1>4. /\ held' \in [Slots -> 0..MaxRefs] /\ held'[p] = 1
      /\ \A x \in Slots \ {p} : held'[x] = held[x]
  BY <1>3, ObjectsAssumption DEF Types, GetParent
<1>5. /\ \A x \in Slots \ {s} : objs'[x] = objs[x]
      /\ objs'[s] = [objs[s] EXCEPT !.parentRef = TRUE]
      /\ objs' = [x \in Slots |-> objs'[x]]
  BY DEF GetParent, Types
<1> HIDE DEF p
<1>6. /\ objs'[s] \in Object /\ objs'[s].rc = objs[s].rc
      /\ objs'[s].kind = objs[s].kind /\ objs'[s].parent = objs[s].parent
      /\ objs'[s].parentRef
  BY <1>3, <1>5 DEF Object
<1>7. /\ objs' \in [Slots -> Object]
      /\ \A x \in Slots : /\ objs'[x].kind = objs[x].kind
                          /\ objs'[x].parent = objs[x].parent
                          /\ objs'[x].rc = objs[x].rc
  BY <1>5, <1>6 DEF Types
<1>8. Types'
  BY <1>1, <1>4, <1>7 DEF Types
<1>9. Live' = Live
  BY <1>7 DEF Live
<1>10. Staying' = Staying /\ Staying \subseteq Slots
  BY <1>2, <1>7, StayingNow, StayingNext DEF Staying, Live
<1>11. \A x \in Slots : \A q : Owns(x, q)' <=> (Owns(x, q) /\ x # s)
  BY <1>5, <1>6 DEF Owns
<1>12. \A x \in Slots : /\ held'[x] = 0 <=> (held[x] = 0 /\ x # p)
                        /\ held'[x] > 0 <=> (held[x] > 0 \/ x = p)
  BY <1>3, <1>4 DEF Types
<1>13. Items(queue)' = Items(queue)
  BY <1>1 DEF Items
<1>14. ThreadWork'
  <2>1. \A x \in NullOrSlot : Item("queue", x) \in Pending(Receiver)' =>
            /\ x \in Staying' /\ objs'[x].kind = "device" /\ held'[x] = 0
            /\ x \notin Items(queue)' /\ x # s
    BY <1>2, <1>3, <1>7, <1>10, <1>12, <1>13 DEF ThreadWork
  <2>2. todo'[Receiver] # <<>> =>
            \E m \in Live' : objs'[m].kind = "monitor" /\ held'[m] > 0
    BY <1>1, <1>7, <1>9, <1>12 DEF ThreadWork, Live
  <2>3. \A x \in NullOrSlot : Item("ref", x) \in Pending(Receiver)' =>
          /\ x # NoSlot
          /\ \E d \in Staying' : /\ Item("queue", d) \in Pending(Receiver)'
                                 /\ (x = d \/ Owns(d, x)')
    <3>1. \A d \in Staying : Item("queue", d) \in Pending(Receiver) =>
              (d # s /\ \A x : Owns(d, x)' <=> Owns(d, x))
      BY <1>2, <1>10, <1>11, <2>1 DEF NullOrSlot
    <3> QED BY <1>2, <1>10, <3>1 DEF ThreadWork
  <2> QED BY <1>2, <2>1, <2>2, <2>3 DEF ThreadWork
<1>15. QueueOwned'
  <2>1. \A x \in Items(queue)' :
            x \in Staying' /\ objs'[x].kind = "device" /\ held'[x] = 0
    BY <1>3, <1>7, <1>10, <1>12, <1>13 DEF QueueOwned
  <2>2. queue' # <<>> => \E m \in Live' : objs'[m].kind = "monitor" /\ held'[m] > 0
    BY <1>1, <1>2, <1>7, <1>9, <1>12 DEF QueueOwned, Live
  <2> QED BY <1>1, <2>1, <2>2 DEF QueueOwned, Once
<1>16. Owners'
  <2>1. HeldStays'
    BY <1>3, <1>10, <1>12 DEF Owners, HeldStays
  <2>2. Counted'
    BY <1>3, <1>4, <1>7, <1>10, <1>12 DEF Owners, Counted
  <2>3. Owned'
    <3>1. \A x \in Staying, q \in Staying : Owns(x, q) => x # s \/ q = p
      BY <1>3 DEF Owns
    <3> QED BY <1>2, <1>7, <1>10, <1>11, <1>12, <1>13, <3>1 DEF Owners, Owned
  <2>4. ParentOwned'
    <3> SUFFICES ASSUME NEW x \in Staying, objs[x].parent # NoSlot
                 PROVE  /\ objs[x].kind = "device"
                        /\ ~objs'[x].parentRef =>
                               /\ objs[x].parent \in Staying
                               /\ objs[objs[x].parent].kind = "parent"
                               /\ held'[objs[x].parent] = 0
      BY <1>7, <1>10 DEF ParentOwned, Staying, Live
    <3>1. objs[x].kind = "device"
      BY DEF Owners, ParentOwned
    <3>2. ASSUME ~objs'[x].parentRef
          PROVE  /\ objs[x].parent \in Staying
                 /\ objs[objs[x].parent].kind = "parent"
                 /\ held'[objs[x].parent] = 0
      <4>1. x # s /\ ~objs[x].parentRef
        BY <1>5, <1>6, <1>10, <3>2
      <4>2. /\ objs[x].parent \in Staying
            /\ objs[objs[x].parent].kind = "parent"
            /\ held[objs[x].parent] = 0
        BY <4>1 DEF Owners, ParentOwned
      <4>3. Owns(x, objs[x].parent)
        BY <4>1 DEF Owns
      <4>4. objs[x].parent # p
        BY <1>3, <4>1, <4>3 DEF Owners, OneOwner
      <4> QED BY <1>10, <1>12, <4>2, <4>4
    <3> QED BY <3>1, <3>2
  <2>5. OneOwner'
    BY <1>10, <1>11 DEF Owners, OneOwner
  <2> QED BY <2>1, <2>2, <2>3, <2>4, <2>5 DEF Owners
<1>17. OneMonitor'
  BY <1>7, <1>9 DEF OneMonitor, Live
<1>18. DescriptorsHeld'
  BY <1>1, <1>12 DEF DescriptorsHeld, Types
<1> QED BY <1>2, <1>8, <1>14, <1>15, <1>16, <1>17, <1>18

(* An object goes that no device owns, and with it the parent it owns: the *)
(* others keep their owners.                                               *)
LEMMA FreedOwners ==
    ASSUME Types, Owners, NEW d \in Staying,
           \A x \in Staying : ~Owns(x, d),
           \A x : x \in Staying' <=> x \in Staying /\ x # d /\ ~Owns(d, x),
           \A x \in Slots \ {d} : objs'[x] = objs[x] /\ held'[x] = held[x],
           held'[d] = 0,
           Items(queue) \ {d} \subseteq Items(queue)',
           Pending(Receiver)' = Pending(Receiver)
    PROVE  Owners'
<1>1. Staying \subseteq Slots /\ d \in Slots /\ Staying' \subseteq Staying \ {d}
  BY DEF Staying, Live
<1>2. \A x \in Staying' : /\ x \in Slots \ {d} /\ objs'[x] = objs[x]
                          /\ held'[x] = held[x]
  BY <1>1
<1>3. \A x \in Staying' : \A p : Owns(x, p)' <=> Owns(x, p)
  BY <1>2 DEF Owns
<1>4. \A x \in Staying : \A p \in Slots : Owns(x, p) =>
          /\ p \in Staying /\ objs[p].kind = "parent" /\ held[p] = 0
          /\ objs[x].kind = "device"
  BY ObjectsAssumption DEF Owners, ParentOwned, Owns
<1>5. HeldStays'
  <2>1. \A x \in Slots : held'[x] > 0 => x # d /\ held[x] > 0
    BY <1>1
  <2> QED BY <1>4, <2>1 DEF Owners, HeldStays
<1>6. Counted'
  BY <1>1, <1>2 DEF Owners, Counted
<1>7. Owned'
  <2> SUFFICES ASSUME NEW x \in Staying'
               PROVE  \/ held[x] > 0
                      \/ /\ objs[x].kind = "device"
                         /\ \/ x \in Items(queue)'
                            \/ Item("queue", x) \in Pending(Receiver)'
                      \/ objs[x].kind = "parent" /\ \E y \in Staying' : Owns(y, x)'
    BY <1>2 DEF Owned
  <2>1. x \in Staying /\ x # d /\ ~Owns(d, x) /\ x \in Slots
    BY <1>1
  <2>2. CASE held[x] > 0
    BY <2>2
  <2>3. CASE /\ objs[x].kind = "device"
             /\ x \in Items(queue) \/ Item("queue", x) \in Pending(Receiver)
    BY <2>1, <2>3
  <2>4. CASE objs[x].kind = "parent" /\ \E y \in Staying : Owns(y, x)
    <3>1. PICK y \in Staying : Owns(y, x)
      BY <2>4
    <3>2. y # d /\ ~Owns(d, y)
      BY <1>1, <1>4, <2>1, <3>1
    <3>3. y \in Staying' /\ Owns(y, x)'
      BY <1>3, <3>1, <3>2
    <3> QED BY <2>4, <3>3
  <2> QED BY <2>1, <2>2, <2>3, <2>4 DEF Owners, Owned
<1>8. ParentOwned'
  <2> SUFFICES ASSUME NEW x \in Staying', objs[x].parent # NoSlot
               PROVE  /\ objs[x].kind = "device"
                      /\ ~objs[x].parentRef =>
                             /\ objs[x].parent \in Staying'
                             /\ objs'[objs[x].parent].kind = "parent"
                             /\ held'[objs[x].parent] = 0
    BY <1>2 DEF ParentOwned
  <2>1. x \in Staying /\ x # d /\ x \in Slots
    BY <1>1
  <2>2. objs[x].kind = "device"
    BY <2>1 DEF Owners, ParentOwned
  <2>3. ASSUME ~objs[x].parentRef
        PROVE  objs[x].parent \in Staying'
    <3> DEFINE p == objs[x].parent
    <3>1. Owns(x, p) /\ p \in Slots
      BY <2>1, <2>3 DEF Owns, Types, Object
    <3> HIDE DEF p
    <3>2. p # d /\ p \in Staying
      BY <1>4, <2>1, <3>1
    <3>3. ~Owns(d, p)
      BY <2>1, <3>1 DEF Owners, OneOwner
    <3> QED BY <3>2, <3>3 DEF p
  <2>4. ASSUME ~objs[x].parentRef
        PROVE  objs[objs[x].parent].kind = "parent" /\ held[objs[x].parent] = 0
    BY <2>1, <2>4 DEF Owners, ParentOwned
  <2> QED BY <1>2, <2>2, <2>3, <2>4
<1>9. OneOwner'
  BY <1>1, <1>3 DEF Owners, OneOwner
<1> QED BY <1>5, <1>6, <1>7, <1>8, <1>9 DEF Owners

(* What udev_device_free is about to free is allocated, and not held.      *)
LEMMA FreedFields ==
    ASSUME Types, Owners, NEW s \in Staying
    PROVE  /\ s \in Slots /\ ~Owns(s, s)
           /\ \A p \in Slots : Owns(s, p) =>
                  /\ p \in Staying /\ objs[p].kind = "parent" /\ held[p] = 0
                  /\ objs[s].kind = "device"
<1>1. s \in Slots
  BY DEF Staying, Live
<1>2. \A p \in Slots : Owns(s, p) =>
          /\ p \in Staying /\ objs[p].kind = "parent" /\ held[p] = 0
          /\ objs[s].kind = "device"
  BY ObjectsAssumption DEF Owners, ParentOwned, Owns
<1> QED BY <1>1, <1>2

(* What an object's last reference leaves to be done.                      *)
LEMMA LastWork ==
    ASSUME Types, Owners, NEW s \in Staying
    PROVE  LET w == IF objs[s].kind = "monitor" THEN Do("drop", s) ELSE FreeWork(s)
               op == IF objs[s].kind = "monitor" THEN "drop" ELSE "unref"
           IN  /\ w \in Seq(Work) /\ Once(w)
               /\ \A q, x : Item(q, x) \in Items(w) <=>
                      q = op /\ x \in Slots /\ (x = s \/ Owns(s, x))
<1> DEFINE w == IF objs[s].kind = "monitor" THEN Do("drop", s) ELSE FreeWork(s)
           op == IF objs[s].kind = "monitor" THEN "drop" ELSE "unref"
           gone(x) == x \in Slots /\ (x = s \/ Owns(s, x))
<1>1. /\ s \in Slots /\ ~Owns(s, s)
      /\ \A p \in Slots : Owns(s, p) => objs[s].kind = "device"
  BY FreedFields
<1>2. /\ w \in Seq(Work) /\ Once(w)
      /\ \A q, x : Item(q, x) \in Items(w) <=> q = op /\ gone(x)
  <2>1. CASE objs[s].kind = "monitor"
    <3>1. /\ w = Do("drop", s) /\ op = "drop" /\ \A x : gone(x) <=> x = s
      BY <1>1, <2>1
    <3>2. /\ Do("drop", s) \in Seq(Work) /\ Once(Do("drop", s))
          /\ Items(Do("drop", s)) = {Item("drop", s)}
      BY <1>1, DoWork DEF NullOrSlot
    <3> HIDE DEF w, gone, op
    <3> QED BY <3>1, <3>2, ItemFields
  <2>2. CASE objs[s].kind # "monitor"
    <3>1. w = FreeWork(s) /\ op = "unref"
      BY <2>2
    <3>2. /\ FreeWork(s) \in Seq(Work) /\ Once(FreeWork(s))
          /\ Items(FreeWork(s)) =
                 {Item("unref", x) : x \in {s} \cup {p \in Slots : Owns(s, p)}}
      BY <1>1, FreeWorkItems
    <3>3. \A x : x \in {s} \cup {p \in Slots : Owns(s, p)} <=> gone(x)
      BY <1>1
    <3> HIDE DEF w, gone, op
    <3> QED BY <3>1, <3>2, <3>3, ItemFields
  <2> QED BY <2>1, <2>2
<1> QED BY <1>2

(* udev_monitor_queue_drop: nobody else has the device.                    *)
LEMMA DropOwners ==
    ASSUME OwnerInv, NEW t \in Threads, DropDevice(t)
    PROVE  OwnerInv'
<1> USE DEF OwnerInv, Calls
<1>1. UNCHANGED <<refcount, freed, uctx, held, nullFds, loaded, raced>>
      /\ queue # <<>> /\ todo[t] # <<>>
  BY DEF DropDevice, context, registers
<1> DEFINE m == Head(todo[t]).slot
           d == Head(queue)
           w == FreeWork(d)
<1>2. /\ Head(todo[t]) = Item("drop", m) /\ Item("drop", m) \in Pending(App)
      /\ m \in NullOrSlot /\ t = App
  BY <1>1, HeadWork DEF DropDevice
<1> HIDE DEF m
<1>3. App \in Threads /\ Receiver \in Threads \ {App} /\ Once(todo[App])
  BY ObjectsAssumption DEF Threads, AppWork
<1>4. m \in Slots /\ todo[Receiver] = <<>>
  BY <1>2 DEF AppWork, MonitorEnds, NullOrSlot
<1>5. /\ queue' \in Seq(Slots) /\ Once(queue') /\ d \in Items(queue)
      /\ Items(queue)' = Items(queue) \ {d}
  <2>1. queue \in Seq(Slots) /\ queue # <<>> /\ Once(queue) /\ queue' = Tail(queue)
    BY <1>1 DEF Types, QueueOwned, DropDevice
  <2>2. /\ Tail(queue) \in Seq(Slots) /\ Items(queue) = {d} \cup Items(Tail(queue))
        /\ Once(Tail(queue)) /\ Items(Tail(queue)) = Items(queue) \ {d}
    BY <2>1, ItemsTail
  <2>3. Items(queue)' = Items(Tail(queue))
    BY <2>1 DEF Items
  <2> QED BY <2>1, <2>2, <2>3
<1>6. d \in Staying /\ objs[d].kind = "device" /\ held[d] = 0 /\ objs[d].rc = 1
  BY <1>5 DEF QueueOwned, Owners, Counted
<1>7. /\ objs' = [objs EXCEPT ![d].rc = @ - 1]
      /\ todo' = [todo EXCEPT ![t] = w \o @]
  BY <1>6 DEF DropDevice
<1>8. /\ d \in Slots /\ ~Owns(d, d)
      /\ \A p \in Slots : Owns(d, p) =>
             p \in Staying /\ objs[p].kind = "parent" /\ held[p] = 0
  BY <1>6, FreedFields
<1>9. /\ w \in Seq(Work) /\ Once(w)
      /\ Items(w) = {Item("unref", x) : x \in {d} \cup {p \in Slots : Owns(d, p)}}
  BY <1>8, FreeWorkItems
<1> HIDE DEF d, w
<1>10. \A q, x : Item(q, x) \in Items(w) <=>
           q = "unref" /\ x \in Slots /\ (x = d \/ Owns(d, x))
  BY <1>8, <1>9, ItemFields
<1>11. ThreadFreesNothing
  BY DEF ThreadWork, ThreadFreesNothing
<1>12. /\ todo' \in [Threads -> Seq(Work)] /\ Once(todo'[App])
       /\ Pending(App)' = Items(w) \cup Pending(App)
       /\ todo'[Receiver] = todo[Receiver] /\ Pending(Receiver)' = Pending(Receiver)
  <2>1. \A x \in Slots : (x = d \/ Owns(d, x)) => Item("unref", x) \notin Pending(App)
    BY <1>6, <1>8, <1>11, StayingNow
  <2>2. Items(w) \cap Pending(t) = {}
    BY <1>2, <1>8, <1>9, <2>1
  <2> QED BY <1>2, <1>3, <1>7, <1>9, <2>2, PushWork
<1>13. \A q, x : Item(q, x) \in Pending(App)' <=>
          \/ q = "unref" /\ x \in Slots /\ (x = d \/ Owns(d, x))
          \/ Item(q, x) \in Pending(App)
  BY <1>10, <1>12
<1>14. /\ \A x \in Slots \ {d} : objs'[x] = objs[x]
       /\ objs'[d] = [objs[d] EXCEPT !.rc = @ - 1]
       /\ objs' = [x \in Slots |-> objs'[x]]
  BY <1>7, <1>8 DEF Types
<1>15. /\ objs'[d] \in Object /\ objs'[d].kind = objs[d].kind
       /\ objs'[d].parent = objs[d].parent /\ objs'[d].parentRef = objs[d].parentRef
  <2>1. objs[d] \in Object
    BY <1>8 DEF Types
  <2> QED BY <1>6, <1>14, <2>1 DEF Object
<1>16. objs' \in [Slots -> Object] /\ \A x \in Slots : objs'[x].kind = objs[x].kind
  BY <1>14, <1>15 DEF Types
<1>17. Types'
  BY <1>1, <1>5, <1>12, <1>16 DEF Types
<1>18. Live' = Live
  BY <1>16 DEF Live
<1>19. Staying \subseteq Live
  BY DEF Staying
<1>20. AppWork'
  <2>1. AppFrees
    BY <1>2 DEF AppWork, AppMakes
  <2>2. \A x \in Slots : (x = d \/ Owns(d, x)) =>
            x \in Live /\ held[x] = 0 /\ Item("drop", x) \notin Pending(App)
    BY <1>6, <1>8, <1>11, <1>19, StayingNow
  <2> QED BY <1>1, <1>4, <1>12, <1>13, <1>18, <2>1, <2>2, ObjectsAssumption
          DEF AppWork, AppFrees, NullOrSlot
<1>21. MonitorEnds'
  BY <1>1, <1>4, <1>6, <1>8, <1>12, <1>13, <1>16 DEF MonitorEnds
<1>22. ThreadFreesNothing'
  BY <1>11, <1>12 DEF ThreadFreesNothing
<1>23. \A x : x \in Staying' <=> x \in Staying /\ x # d /\ ~Owns(d, x)
  BY <1>11, <1>13, <1>16, <1>22, StayingNow, StayingNext
<1>24. Pending(Receiver) = {}
  BY <1>4, ItemsEmpty DEF Pending, Items
<1>25. ThreadOrder' /\ ThreadWork'
  <2>1. todo'[Receiver] = <<>> /\ Pending(Receiver)' = {}
    BY <1>4, <1>12, <1>24
  <2> QED BY <2>1, ItemsEmpty DEF ThreadOrder, ThreadWork
<1>26. Owners'
  <2>1. \A x \in Staying : ~Owns(x, d)
    BY <1>6, <1>8, FreedFields
  <2> QED BY <1>1, <1>5, <1>6, <1>12, <1>14, <1>23, <2>1, FreedOwners
<1>27. QueueOwned'
  <2>1. \A x \in Items(queue)' :
            x \in Staying' /\ objs'[x].kind = "device" /\ held'[x] = 0
    <3>1. \A x \in Items(queue) : x \in Staying /\ objs[x].kind = "device" /\ held[x] = 0
      BY DEF QueueOwned
    <3>2. Staying \subseteq Slots
      BY DEF Staying, Live
    <3> QED BY <1>1, <1>5, <1>8, <1>16, <1>23, <3>1, <3>2
  <2>2. \E n \in Live' : /\ objs'[n].kind = "monitor"
                         /\ held'[n] > 0 \/ Item("drop", n) \in Pending(App)'
    BY <1>1, <1>13, <1>16, <1>18 DEF QueueOwned, Live
  <2> QED BY <1>5, <2>1, <2>2 DEF QueueOwned
<1>28. OneMonitor' /\ DescriptorsHeld'
  BY <1>1, <1>16, <1>18 DEF OneMonitor, DescriptorsHeld, Live
<1> QED BY <1>17, <1>20, <1>21, <1>25, <1>26, <1>27, <1>28

(* A reference is given back, and it was not the last.                     *)
LEMMA UnrefKeeps ==
    ASSUME OwnerInv, NEW s \in Slots, Unref(s), objs[s].rc > 1
    PROVE  OwnerInv'
<1> USE DEF OwnerInv
<1> DEFINE n == held[s] - 1
<1>1. held[s] > 0 /\ held[s] \in 0..MaxRefs /\ objs[s].rc = held[s]
  BY DEF Unref, Types, Owners, HeldStays, Counted
<1>2. n \in 1..MaxRefs
  BY <1>1, ObjectsAssumption
<1>3. objs' = [objs EXCEPT ![s].rc = n] /\ held' = [held EXCEPT ![s] = n]
  BY <1>1 DEF Unref
<1>4. Begin(App, <<>>) /\ UNCHANGED <<uctx, queue, nullFds>>
  BY <1>1 DEF Unref, CloseNull
<1>5. UNCHANGED <<refcount, freed, todo, loaded, raced>> /\ todo[App] = <<>>
  BY <1>4 DEF Begin, context, registers, Types
<1> HIDE DEF n
<1> QED BY <1>1, <1>2, <1>3, <1>4, <1>5, RecountOwners

(* The last reference to an object is given back: it is freed, after the   *)
(* parent it owns, or after what a monitor's queue holds.                  *)
LEMMA UnrefLast ==
    ASSUME OwnerInv, NEW s \in Slots, Unref(s), ~(objs[s].rc > 1)
    PROVE  OwnerInv'
<1> USE DEF OwnerInv, Calls
<1>1. /\ held[s] = 1 /\ objs[s].rc = 1 /\ s \in Staying /\ objs[s] \in Object
  BY DEF Unref, Types, Owners, HeldStays, Counted
<1> DEFINE w == IF objs[s].kind = "monitor" THEN Do("drop", s) ELSE FreeWork(s)
<1>2. /\ Begin(App, w)
      /\ objs[s].kind = "monitor" => todo[Receiver] = <<>>
      /\ UNCHANGED <<refcount, freed, uctx, queue, loaded, raced>>
      /\ nullFds' = nullFds \ {s}
  <2>1. Begin(App, w) /\ (objs[s].kind = "monitor" => todo[Receiver] = <<>>)
    BY <1>1 DEF Unref
  <2>2. UNCHANGED <<refcount, freed, loaded, raced>>
    BY <2>1 DEF Begin, context, registers
  <2> QED BY <1>1, <2>1, <2>2 DEF Unref, CloseNull
<1>3. /\ held' \in [Slots -> 0..MaxRefs] /\ held'[s] = 0
      /\ \A x \in Slots \ {s} : held'[x] = held[x]
  <2>1. held' = [held EXCEPT ![s] = 0] /\ 0 \in 0..MaxRefs
    BY <1>1, ObjectsAssumption DEF Unref
  <2> QED BY <2>1 DEF Types
<1>4. /\ objs'[s] = [objs[s] EXCEPT !.rc = @ - 1]
      /\ \A x \in Slots \ {s} : objs'[x] = objs[x]
      /\ objs' = [x \in Slots |-> objs'[x]]
  BY DEF Unref, Types
<1>5. /\ objs'[s] \in Object /\ objs'[s].kind = objs[s].kind
  BY <1>1, <1>4 DEF Object
<1>6. objs' \in [Slots -> Object] /\ \A x \in Slots : objs'[x].kind = objs[x].kind
  BY <1>4, <1>5 DEF Types
<1>7. /\ ~Owns(s, s)
      /\ \A p \in Slots : Owns(s, p) =>
             /\ p \in Staying /\ objs[p].kind = "parent" /\ held[p] = 0
             /\ objs[s].kind = "device"
  BY <1>1, FreedFields
<1> DEFINE gone(x) == x \in Slots /\ (x = s \/ Owns(s, x))
           op == IF objs[s].kind = "monitor" THEN "drop" ELSE "unref"
<1>8. /\ w \in Seq(Work) /\ Once(w)
      /\ \A q, x : Item(q, x) \in Items(w) <=> q = op /\ gone(x)
  BY <1>1, LastWork
<1>9. App \in Threads /\ Receiver \in Threads \ {App}
  BY ObjectsAssumption DEF Threads
<1> HIDE DEF w
<1>10. /\ todo' \in [Threads -> Seq(Work)] /\ todo'[App] = w
       /\ Pending(App) = {} /\ Pending(App)' = Items(w)
       /\ todo'[Receiver] = todo[Receiver] /\ Pending(Receiver)' = Pending(Receiver)
  BY <1>2, <1>8, <1>9, BeginWork
<1>11. \A q, x : Item(q, x) \in Pending(App)' <=> q = op /\ gone(x)
  BY <1>8, <1>10
<1>12. Types'
  BY <1>2, <1>3, <1>6, <1>10 DEF Types
<1>13. Live' = Live /\ Staying \subseteq Live /\ Staying \subseteq Slots
  BY <1>6 DEF Live, Staying
<1>14. \A x : gone(x) => x \in Live /\ held'[x] = 0
                         /\ (objs[x].kind = "monitor" => op = "drop")
                         /\ (op = "drop" => objs[x].kind = "monitor")
  BY <1>1, <1>3, <1>7, <1>13
<1>15. NoSlot \notin Slots
  BY ObjectsAssumption
<1>16. AppWork'
  <2>1. \A q, x : Item(q, x) \in Pending(App)' =>
            q \in {"drop", "unref"} /\ q = op /\ x \in Slots /\ x \in Live'
            /\ held'[x] = 0
    BY <1>11, <1>13, <1>14
  <2>2. Once(todo'[App])
    BY <1>8, <1>10
  <2> HIDE DEF op, gone
  <2> QED BY <1>15, <2>1, <2>2 DEF AppWork, AppMakes, AppFrees, NullOrSlot
<1>17. MonitorEnds'
  BY <1>2, <1>6, <1>10, <1>11, <1>14 DEF MonitorEnds
<1>18. ThreadFreesNothing /\ ThreadFreesNothing'
  BY <1>10 DEF ThreadWork, ThreadFreesNothing
<1>19. \A x : x \in Staying' <=> x \in Staying /\ x # s /\ ~Owns(s, x)
  BY <1>6, <1>10, <1>11, <1>18, StayingNow, StayingNext
<1>20. Items(queue)' = Items(queue)
  BY <1>2 DEF Items
<1>21. Owners'
  <2>1. \A x \in Staying : ~Owns(x, s)
    BY <1>1, FreedFields
  <2> QED BY <1>1, <1>3, <1>4, <1>10, <1>19, <1>20, <2>1, FreedOwners
(* A device of the queue, or one on its way there, is not freed.           *)
<1>22. \A d \in Staying : objs[d].kind = "device" /\ held[d] = 0 =>
           /\ d \in Slots /\ d \in Staying' /\ objs'[d] = objs[d] /\ held'[d] = 0
           /\ \A x : Owns(d, x)' <=> Owns(d, x)
  <2>1. \A d \in Staying : objs[d].kind = "device" /\ held[d] = 0 =>
            d # s /\ ~Owns(s, d) /\ d \in Slots
    BY <1>1, <1>7, <1>13
  <2> QED BY <1>3, <1>4, <1>19, <2>1 DEF Owns
<1>23. ThreadOrder'
  BY <1>10 DEF ThreadOrder, Once
<1>24. ThreadWork'
  <2>1. \A x \in NullOrSlot : Item("queue", x) \in Pending(Receiver)' =>
            /\ x \in Staying' /\ objs'[x].kind = "device" /\ held'[x] = 0
            /\ x \notin Items(queue)'
    BY <1>10, <1>20, <1>22 DEF ThreadWork
  <2>2. \A x \in NullOrSlot : Item("ref", x) \in Pending(Receiver)' =>
          /\ x # NoSlot
          /\ \E d \in Staying' : /\ Item("queue", d) \in Pending(Receiver)'
                                 /\ (x = d \/ Owns(d, x)')
    <3>1. \A d \in Staying : Item("queue", d) \in Pending(Receiver) =>
              (d \in Staying' /\ \A x : Owns(d, x)' <=> Owns(d, x))
      BY <1>13, <1>22 DEF ThreadWork, NullOrSlot
    <3> QED BY <1>10, <3>1 DEF ThreadWork
  <2>3. todo'[Receiver] # <<>> =>
            \E m \in Live' : objs'[m].kind = "monitor" /\ held'[m] > 0
    <3> SUFFICES ASSUME todo[Receiver] # <<>>
                 PROVE  \E m \in Live' : objs'[m].kind = "monitor" /\ held'[m] > 0
      BY <1>10
    <3>1. PICK m \in Live : objs[m].kind = "monitor" /\ held[m] > 0
      BY DEF ThreadWork
    <3>2. m # s /\ m \in Slots
      BY <1>2, <3>1 DEF Live
    <3> QED BY <1>3, <1>6, <1>13, <3>1, <3>2
  <2> QED BY <1>18, <2>1, <2>2, <2>3 DEF ThreadWork, ThreadFreesNothing
<1>25. QueueOwned'
  <2>1. \A x \in Items(queue)' :
            x \in Staying' /\ objs'[x].kind = "device" /\ held'[x] = 0
    BY <1>20, <1>22 DEF QueueOwned
  <2>2. queue' # <<>> =>
            \E m \in Live' : /\ objs'[m].kind = "monitor"
                             /\ held'[m] > 0 \/ Item("drop", m) \in Pending(App)'
    <3> SUFFICES ASSUME queue # <<>>
                 PROVE  \E m \in Live' : /\ objs'[m].kind = "monitor"
                                         /\ held'[m] > 0 \/ Item("drop", m) \in Pending(App)'
      BY <1>2
    <3>1. PICK m \in Live : objs[m].kind = "monitor" /\ held[m] > 0
      BY <1>10 DEF QueueOwned
    <3>2. m = s => Item("drop", m) \in Pending(App)'
      BY <1>11, <3>1
    <3>3. m # s => held'[m] > 0
      BY <1>3, <3>1 DEF Live
    <3>4. m \in Live' /\ objs'[m].kind = "monitor"
      BY <1>6, <1>13, <3>1 DEF Live
    <3> QED BY <3>2, <3>3, <3>4
  <2> QED BY <1>2, <2>1, <2>2 DEF QueueOwned, Once
<1>26. OneMonitor'
  BY <1>6, <1>13 DEF OneMonitor, Live
<1>27. DescriptorsHeld'
  <2>1. \A x \in nullFds : x \in Slots /\ held[x] > 0
    BY DEF DescriptorsHeld, Types
  <2> QED BY <1>2, <1>3, <2>1 DEF DescriptorsHeld
<1> QED BY <1>12, <1>16, <1>17, <1>21, <1>23, <1>24, <1>25, <1>26, <1>27

(* An object is made, and perhaps its parent: it has an owner, and the     *)
(* others keep theirs.                                                     *)
LEMMA MadeOwners ==
    ASSUME Types, Owners, NEW kind \in Kinds \ {"none"},
           NEW s \in Slots \ Live, NEW p \in NullOrSlot \ Live, p # s,
           p # NoSlot => kind = "device",
           objs'[s] = New(kind, p), p # NoSlot => objs'[p] = New("parent", NoSlot),
           \A x \in Slots \ {s, p} : objs'[x] = objs[x],
           \A x \in Slots \ {s} : held'[x] = held[x],
           \/ held'[s] = 1
           \/ /\ held'[s] = 0 /\ kind = "device"
              /\ Item("queue", s) \in Pending(Receiver)',
           \A x : x \in Staying' <=> (x \in Staying \/ x = s \/ (x = p /\ p # NoSlot)),
           Items(queue)' = Items(queue),
           \A x \in Slots : Item("queue", x) \in Pending(Receiver)
                                => Item("queue", x) \in Pending(Receiver)'
    PROVE  Owners'
<1>1. Staying \subseteq Slots /\ Staying \subseteq Live /\ NoSlot \notin Slots
  BY ObjectsAssumption DEF Staying, Live
<1>2. \A x \in Staying : x \in Slots /\ x # s /\ x # p
                         /\ objs'[x] = objs[x] /\ held'[x] = held[x]
  BY <1>1
<1>3. p \in Slots => held'[p] = 0
  BY <1>1 DEF Types, Owners, HeldStays
<1>4. /\ objs'[s].kind = kind /\ objs'[s].rc = 1 /\ objs'[s].parent = p
      /\ ~objs'[s].parentRef
      /\ p # NoSlot => /\ objs'[p].kind = "parent" /\ objs'[p].rc = 1
                       /\ objs'[p].parent = NoSlot
  BY DEF New
<1>5. /\ \A x \in Staying : \A q : Owns(x, q)' <=> Owns(x, q)
      /\ \A q : Owns(s, q)' <=> q = p
      /\ p # NoSlot => \A q \in Slots : ~Owns(p, q)'
  BY <1>1, <1>2, <1>4 DEF Owns
<1>6. HeldStays'
  <2>1. \A x \in Slots : held'[x] > 0 => x \in Staying \/ x = s
    BY DEF Owners, HeldStays
  <2> QED BY <2>1 DEF HeldStays
<1>7. Counted'
  <2>1. \A x \in Staying : objs'[x].rc = IF held'[x] > 0 THEN held'[x] ELSE 1
    BY <1>2 DEF Owners, Counted
  <2>2. objs'[s].rc = IF held'[s] > 0 THEN held'[s] ELSE 1
    BY <1>4
  <2>3. p # NoSlot => objs'[p].rc = IF held'[p] > 0 THEN held'[p] ELSE 1
    BY <1>3, <1>4 DEF NullOrSlot
  <2> QED BY <2>1, <2>2, <2>3 DEF Counted
<1>8. Owned'
  <2> DEFINE has(x) == \/ held'[x] > 0
                       \/ /\ objs'[x].kind = "device"
                          /\ \/ x \in Items(queue)'
                             \/ Item("queue", x) \in Pending(Receiver)'
                       \/ objs'[x].kind = "parent" /\ \E y \in Staying' : Owns(y, x)'
  <2>1. ASSUME NEW x \in Staying PROVE has(x)
    <3>1. objs[x].kind = "parent" /\ (\E y \in Staying : Owns(y, x))
              => \E y \in Staying' : Owns(y, x)'
      BY <1>5
    <3> QED BY <1>2, <3>1 DEF Owners, Owned
  <2>2. has(s)
    BY <1>4
  <2>3. p # NoSlot => has(p)
    BY <1>4, <1>5
  <2>4. \A x \in Staying' : has(x)
    BY <2>1, <2>2, <2>3
  <2> QED BY <2>4 DEF Owned
<1>9. ParentOwned'
  <2> DEFINE safe(x) == objs'[x].parent # NoSlot =>
                 /\ objs'[x].kind = "device"
                 /\ ~objs'[x].parentRef =>
                        /\ objs'[x].parent \in Staying'
                        /\ objs'[objs'[x].parent].kind = "parent"
                        /\ held'[objs'[x].parent] = 0
  <2>1. ASSUME NEW x \in Staying PROVE safe(x)
    BY <1>2 DEF Owners, ParentOwned
  <2>2. safe(s)
    BY <1>3, <1>4 DEF NullOrSlot
  <2>3. p # NoSlot => safe(p)
    BY <1>4
  <2>4. \A x \in Staying' : safe(x)
    BY <2>1, <2>2, <2>3
  <2> QED BY <2>4 DEF ParentOwned
<1>10. OneOwner'
  <2>1. \A x \in Staying : \A q \in Slots : Owns(x, q)' => q \in Staying
    BY <1>1, <1>5 DEF Owners, ParentOwned, Owns
  <2>2. \A x, y \in Staying : \A q \in Slots : Owns(x, q)' /\ Owns(y, q)' => x = y
    BY <1>5 DEF Owners, OneOwner
  <2>3. \A x \in Staying : \A q \in Slots : Owns(x, q)' => ~Owns(s, q)'
    BY <1>2, <1>5, <2>1
  <2> QED BY <1>5, <2>2, <2>3 DEF OneOwner
<1> QED BY <1>6, <1>7, <1>8, <1>9, <1>10 DEF Owners

(* Objects are made that were not there: what was there is as it was.      *)
LEMMA MadeSame ==
    ASSUME Types, Owners, NEW kind \in Kinds \ {"none"},
           NEW s \in Slots \ Live, NEW p \in NullOrSlot \ Live, p # s,
           objs'[s] = New(kind, p), p # NoSlot => objs'[p] = New("parent", NoSlot),
           \A x \in Slots \ {s, p} : objs'[x] = objs[x]
    PROVE  /\ \A x : x \in Live' <=> (x \in Live \/ x = s \/ (x = p /\ p # NoSlot))
           /\ \A x \in Live : x \in Slots /\ objs'[x] = objs[x]
           /\ \A x \in Slots : objs'[x] \in Object
           /\ held[s] = 0
<1>1. /\ New(kind, p) \in Object /\ New(kind, p).kind # "none"
      /\ New("parent", NoSlot) \in Object /\ New("parent", NoSlot).kind # "none"
  BY DEF New, Object, Kinds, NullOrSlot
<1>2. \A x \in Live : x \in Slots /\ x # s /\ x # p /\ objs'[x] = objs[x]
  BY DEF Live
<1>3. \A x \in Slots \ Live : x = s \/ x = p \/ objs'[x].kind = "none"
  BY DEF Live
<1>4. \A x : x \in Live' <=> (x \in Live \/ x = s \/ (x = p /\ p # NoSlot))
  BY <1>1, <1>2, <1>3, ObjectsAssumption DEF Live, NullOrSlot
<1>5. \A x \in Slots : objs'[x] \in Object
  BY <1>1, ObjectsAssumption DEF Types
<1>6. held[s] = 0
  BY DEF Types, Owners, HeldStays, Staying
<1> QED BY <1>2, <1>4, <1>5, <1>6

(* udev_device_new_common, udev_enumerate_new, udev_queue_new and          *)
(* udev_monitor_new_from_netlink: the application has what is made.        *)
LEMMA NewOwners ==
    ASSUME OwnerInv, NEW kind \in Kinds \ {"none"}, uctx > 0,
           NEW s \in Slots \ Live, NEW p \in NullOrSlot \ Live, p # s,
           p # NoSlot => kind = "device",
           kind = "monitor" => \A m \in Live : objs[m].kind # "monitor",
           objs'[s] = New(kind, p), p # NoSlot => objs'[p] = New("parent", NoSlot),
           \A x \in Slots \ {s, p} : objs'[x] = objs[x],
           objs' = [x \in Slots |-> objs'[x]],
           held' = [held EXCEPT ![s] = 1],
           Begin(App, NewWork(s, p)), UNCHANGED <<uctx, queue, nullFds>>
    PROVE  OwnerInv'
<1> USE DEF OwnerInv, Calls
<1>1. /\ \A x : x \in Live' <=> (x \in Live \/ x = s \/ (x = p /\ p # NoSlot))
      /\ \A x \in Live : x \in Slots /\ objs'[x] = objs[x]
      /\ \A x \in Slots : objs'[x] \in Object
      /\ held[s] = 0
  BY MadeSame
<1>2. /\ held' \in [Slots -> 0..MaxRefs] /\ held'[s] = 1
      /\ \A x \in Slots \ {s} : held'[x] = held[x]
  <2>1. 1 \in 0..MaxRefs
    BY ObjectsAssumption
  <2> QED BY <2>1 DEF Types
<1> DEFINE w == NewWork(s, p)
<1>3. /\ w \in Seq(Work) /\ Once(w)
      /\ Items(w) = {Item("ref", x) : x \in {s, p} \ {NoSlot}}
  BY NewWorkItems
<1>4. Begin(App, w)
  OBVIOUS
<1> HIDE DEF w
<1>5. App \in Threads /\ Receiver \in Threads \ {App} /\ NoSlot \notin Slots
  BY ObjectsAssumption DEF Threads
<1>6. /\ todo' \in [Threads -> Seq(Work)] /\ todo'[App] = w
      /\ Pending(App) = {} /\ Pending(App)' = Items(w)
      /\ todo'[Receiver] = todo[Receiver] /\ Pending(Receiver)' = Pending(Receiver)
  BY <1>3, <1>4, <1>5, BeginWork
<1>7. \A q, x : Item(q, x) \in Pending(App)' <=>
          q = "ref" /\ x \in Slots /\ x \in {s, p}
  <2>1. \A x : x \in {s, p} \ {NoSlot} <=> x \in Slots /\ x \in {s, p}
    BY <1>5 DEF NullOrSlot
  <2> QED BY <1>3, <1>6, <2>1, ItemFields
<1>8. UNCHANGED <<refcount, freed, loaded, raced>>
  BY <1>4 DEF Begin, context, registers
<1>9. Types'
  <2>1. objs' \in [Slots -> Object]
    BY <1>1
  <2> QED BY <1>2, <1>6, <1>8, <2>1 DEF Types
<1>10. AppWork'
  <2>1. Once(todo'[App])
    BY <1>3, <1>6
  <2> QED BY <1>1, <1>5, <1>7, <2>1 DEF AppWork, AppMakes, NullOrSlot
<1>11. MonitorEnds'
  BY <1>7 DEF MonitorEnds
<1>12. ThreadOrder'
  BY <1>6 DEF ThreadOrder, Once
<1>13. ThreadFreesNothing /\ ThreadFreesNothing'
  BY <1>6 DEF ThreadWork, ThreadFreesNothing
<1>14. \A x : x \in Staying' <=> (x \in Staying \/ x = s \/ (x = p /\ p # NoSlot))
  <2>1. \A x : x \in Staying <=> x \in Live
    BY <1>6, <1>13, StayingNow DEF Live
  <2>2. \A x : x \in Staying' <=> x \in Live'
    BY <1>7, <1>13, StayingNext DEF Live
  <2> QED BY <1>1, <2>1, <2>2
<1>15. Items(queue)' = Items(queue)
  BY DEF Items
<1>16. Owners'
  BY <1>2, <1>6, <1>14, <1>15, MadeOwners
<1>17. \A x \in Live : x # s /\ held'[x] = held[x]
  BY <1>1, <1>2
<1>18. Staying \subseteq Live /\ \A x \in Staying : \A q : Owns(x, q)' <=> Owns(x, q)
  BY <1>1 DEF Staying, Owns
<1>19. ThreadWork'
  <2>1. \A x \in NullOrSlot : Item("queue", x) \in Pending(Receiver)' =>
            /\ x \in Staying' /\ objs'[x].kind = "device" /\ held'[x] = 0
            /\ x \notin Items(queue)'
    BY <1>1, <1>6, <1>14, <1>15, <1>17, <1>18 DEF ThreadWork
  <2>2. todo'[Receiver] # <<>> =>
            \E m \in Live' : objs'[m].kind = "monitor" /\ held'[m] > 0
    BY <1>1, <1>6, <1>17 DEF ThreadWork
  <2>3. \A x \in NullOrSlot : Item("ref", x) \in Pending(Receiver)' =>
          /\ x # NoSlot
          /\ \E d \in Staying' : /\ Item("queue", d) \in Pending(Receiver)'
                                 /\ (x = d \/ Owns(d, x)')
    BY <1>6, <1>14, <1>18 DEF ThreadWork
  <2> QED BY <1>13, <2>1, <2>2, <2>3 DEF ThreadWork, ThreadFreesNothing
<1>20. QueueOwned'
  <2>1. \A x \in Items(queue)' :
            x \in Staying' /\ objs'[x].kind = "device" /\ held'[x] = 0
    BY <1>1, <1>14, <1>15, <1>17, <1>18 DEF QueueOwned
  <2>2. queue' # <<>> => \E m \in Live' : objs'[m].kind = "monitor" /\ held'[m] > 0
    BY <1>1, <1>6, <1>17 DEF QueueOwned
  <2> QED BY <2>1, <2>2 DEF QueueOwned, Once
<1>21. OneMonitor'
  <2>1. objs'[s].kind = kind /\ (p # NoSlot => objs'[p].kind = "parent")
    BY DEF New
  <2>2. \A x \in Live' : objs'[x].kind = "monitor" =>
            (x \in Live /\ objs[x].kind = "monitor") \/ (x = s /\ kind = "monitor")
    BY <1>1, <2>1
  <2> QED BY <2>2 DEF OneMonitor
<1>22. DescriptorsHeld'
  <2>1. \A x \in nullFds : x \in Slots /\ held[x] > 0
    BY DEF DescriptorsHeld, Types
  <2> QED BY <1>2, <2>1 DEF DescriptorsHeld
<1> QED BY <1>9, <1>10, <1>11, <1>12, <1>16, <1>19, <1>20, <1>21, <1>22

LEMMA NewHandleOwners ==
    ASSUME OwnerInv, NEW s \in Slots, NEW kind \in Handles, NewHandle(s, kind)
    PROVE  OwnerInv'
<1>1. /\ kind \in Kinds \ {"none"} /\ s \in Slots \ Live
      /\ NoSlot \in NullOrSlot \ Live /\ NoSlot # s /\ uctx > 0
  BY ObjectsAssumption DEF Handles, Kinds, NullOrSlot, Live, NewHandle
<1>2. /\ objs'[s] = New(kind, NoSlot)
      /\ \A x \in Slots \ {s, NoSlot} : objs'[x] = objs[x]
      /\ objs' = [x \in Slots |-> objs'[x]]
  BY DEF NewHandle, OwnerInv, Types
<1>3. NewWork(s, NoSlot) = Do("ref", s)
  BY DEF NewWork, Do
<1>4. /\ kind = "monitor" => \A m \in Live : objs[m].kind # "monitor"
      /\ held' = [held EXCEPT ![s] = 1] /\ UNCHANGED <<uctx, queue, nullFds>>
      /\ Begin(App, NewWork(s, NoSlot))
  BY <1>3 DEF NewHandle
<1> QED BY <1>1, <1>2, <1>4, NewOwners

(* udev_device_new_common, on behalf of either thread.                     *)
LEMMA MadeFields ==
    ASSUME OwnerInv, NEW s \in Slots, NEW p \in NullOrSlot, s # p,
           {s, p} \cap Live = {}, objs' = Made(s, p)
    PROVE  /\ s \in Slots \ Live /\ p \in NullOrSlot \ Live
           /\ "device" \in Kinds \ {"none"}
           /\ objs'[s] = New("device", p)
           /\ p # NoSlot => objs'[p] = New("parent", NoSlot)
           /\ \A x \in Slots \ {s, p} : objs'[x] = objs[x]
           /\ objs' = [x \in Slots |-> objs'[x]]
BY DEF Made, Kinds, NullOrSlot

LEMMA NewDeviceOwners ==
    ASSUME OwnerInv, NEW s \in Slots, NEW p \in NullOrSlot, NewDevice(s, p)
    PROVE  OwnerInv'
<1>1. /\ uctx > 0 /\ {s, p} \cap Live = {} /\ s # p /\ objs' = Made(s, p)
      /\ Begin(App, NewWork(s, p)) /\ held' = [held EXCEPT ![s] = 1]
      /\ UNCHANGED <<uctx, queue, nullFds>>
  BY DEF NewDevice
<1>2. /\ s \in Slots \ Live /\ p \in NullOrSlot \ Live
      /\ "device" \in Kinds \ {"none"}
      /\ objs'[s] = New("device", p)
      /\ p # NoSlot => objs'[p] = New("parent", NoSlot)
      /\ \A x \in Slots \ {s, p} : objs'[x] = objs[x]
      /\ objs' = [x \in Slots |-> objs'[x]]
  BY <1>1, MadeFields
<1> QED BY <1>1, <1>2, NewOwners

(* What the thread does with a device: it refers to the context for each   *)
(* object, and puts the device in the queue after that.                    *)
LEMMA SendWork ==
    ASSUME NEW s \in Slots, NEW p \in NullOrSlot, s # p
    PROVE  LET w == NewWork(s, p) \o Do("queue", s)
           IN  /\ w \in Seq(Work) /\ Once(w)
               /\ \A q, x : Item(q, x) \in Items(w) <=>
                      /\ x \in Slots
                      /\ (q = "queue" /\ x = s) \/ (q = "ref" /\ x \in {s, p})
               /\ \A i \in DOMAIN w : /\ w[i].op \in {"ref", "queue"}
                                      /\ w[i].op = "queue" <=> i = Len(w)
<1> DEFINE v == NewWork(s, p)
           u == Do("queue", s)
           w == v \o u
<1>1. /\ v \in Seq(Work) /\ Once(v)
      /\ Items(v) = {Item("ref", x) : x \in {s, p} \ {NoSlot}}
  BY NewWorkItems
<1>2. /\ u \in Seq(Work) /\ Once(u) /\ Items(u) = {Item("queue", s)}
      /\ Len(u) = 1 /\ u[1] = Item("queue", s)
  BY DoWork DEF NullOrSlot
<1> HIDE DEF v, u
<1>3. \A q, x : Item(q, x) \in Items(v) <=> q = "ref" /\ x \in Slots /\ x \in {s, p}
  <2>1. \A x : x \in {s, p} \ {NoSlot} <=> x \in Slots /\ x \in {s, p}
    BY ObjectsAssumption DEF NullOrSlot
  <2> QED BY <1>1, <2>1, ItemFields
<1>4. Items(v) \cap Items(u) = {}
  BY <1>2, <1>3
<1>5. w \in Seq(Work) /\ Items(w) = Items(v) \cup Items(u) /\ Once(w)
  BY <1>1, <1>2, <1>4, ItemsConcat
<1>6. \A q, x : Item(q, x) \in Items(w) <=>
          x \in Slots /\ ((q = "queue" /\ x = s) \/ (q = "ref" /\ x \in {s, p}))
  <2>1. \A q, x : Item(q, x) \in Items(u) <=> q = "queue" /\ x = s
    BY <1>2, ItemFields
  <2> QED BY <1>3, <1>5, <2>1
<1>7. \A i \in DOMAIN v : v[i].op = "ref"
  <2>1. \A i \in DOMAIN v : v[i] \in Items(v)
    BY DEF Items
  <2> QED BY <1>1, <2>1, ItemFields
<1>8. /\ Len(v) \in Nat /\ Len(w) = Len(v) + 1 /\ DOMAIN w = 1..Len(v) + 1
      /\ \A i \in 1..Len(v) : w[i] = v[i] /\ i \in DOMAIN v
      /\ w[Len(v) + 1] = u[1]
  <2>1. /\ Len(v) \in Nat /\ DOMAIN v = 1..Len(v)
        /\ DOMAIN w = 1..Len(v) + Len(u) /\ Len(w) = Len(v) + Len(u)
        /\ \A i \in 1..Len(v) : w[i] = v[i]
        /\ \A i \in 1..Len(u) : w[Len(v) + i] = u[i]
    <3>1. v \in Seq(Work) /\ u \in Seq(Work)
      BY <1>1, <1>2
    <3> QED BY <3>1, ConcatParts
  <2> HIDE DEF w
  <2> QED BY <1>2, <2>1
<1>9. u[1].op = "queue"
  BY <1>2, ItemFields
<1> HIDE DEF w
<1>10. \A i \in DOMAIN w : /\ w[i].op \in {"ref", "queue"}
                           /\ w[i].op = "queue" <=> i = Len(w)
  <2> SUFFICES ASSUME NEW i \in DOMAIN w
               PROVE  /\ w[i].op \in {"ref", "queue"}
                      /\ w[i].op = "queue" <=> i = Len(w)
    OBVIOUS
  <2>1. CASE i \in 1..Len(v)
    BY <1>7, <1>8, <2>1
  <2>2. CASE i = Len(v) + 1
    BY <1>8, <1>9, <2>2
  <2> QED BY <1>8, <2>1, <2>2
<1> QED BY <1>5, <1>6, <1>10 DEF w, v, u

(* udev_monitor_send_device: the thread has what is made.                  *)
LEMMA SendOwners ==
    ASSUME OwnerInv, NEW s \in Slots, NEW p \in NullOrSlot, SendDevice(s, p)
    PROVE  OwnerInv'
<1> USE DEF OwnerInv, Calls
<1>1. /\ {s, p} \cap Live = {} /\ s # p /\ objs' = Made(s, p)
      /\ UNCHANGED <<uctx, held, queue, nullFds>>
  BY DEF SendDevice
<1>2. /\ s \in Slots \ Live /\ p \in NullOrSlot \ Live
      /\ "device" \in Kinds \ {"none"}
      /\ objs'[s] = New("device", p)
      /\ p # NoSlot => objs'[p] = New("parent", NoSlot)
      /\ \A x \in Slots \ {s, p} : objs'[x] = objs[x]
      /\ objs' = [x \in Slots |-> objs'[x]]
  BY <1>1, MadeFields
<1>3. /\ \A x : x \in Live' <=> (x \in Live \/ x = s \/ (x = p /\ p # NoSlot))
      /\ \A x \in Live : x \in Slots /\ objs'[x] = objs[x]
      /\ \A x \in Slots : objs'[x] \in Object
      /\ held[s] = 0
  BY <1>1, <1>2, MadeSame
<1> DEFINE w == NewWork(s, p) \o Do("queue", s)
<1>4. /\ w \in Seq(Work) /\ Once(w)
      /\ \A q, x : Item(q, x) \in Items(w) <=>
             x \in Slots /\ ((q = "queue" /\ x = s) \/ (q = "ref" /\ x \in {s, p}))
      /\ \A i \in DOMAIN w : /\ w[i].op \in {"ref", "queue"}
                             /\ w[i].op = "queue" <=> i = Len(w)
  BY <1>1, SendWork
<1>5. Begin(Receiver, w)
  BY DEF SendDevice
<1> HIDE DEF w
<1>6. Receiver \in Threads /\ App \in Threads \ {Receiver} /\ NoSlot \notin Slots
  BY ObjectsAssumption DEF Threads
<1>7. /\ todo' \in [Threads -> Seq(Work)] /\ todo'[Receiver] = w
      /\ todo[Receiver] = <<>>
      /\ Pending(Receiver) = {} /\ Pending(Receiver)' = Items(w)
      /\ todo'[App] = todo[App] /\ Pending(App)' = Pending(App)
  BY <1>4, <1>5, <1>6, BeginWork
<1>8. UNCHANGED <<refcount, freed, loaded, raced>>
  BY <1>5 DEF Begin, context, registers
<1>9. Types'
  <2>1. objs' \in [Slots -> Object]
    BY <1>2, <1>3
  <2> QED BY <1>1, <1>7, <1>8, <2>1 DEF Types
<1>10. PICK m \in Live : objs[m].kind = "monitor" /\ held[m] > 0
  BY DEF SendDevice
<1>11. AppWork'
  BY <1>1, <1>3, <1>7 DEF AppWork, AppMakes, AppFrees
(* The application is not freeing a monitor: there is only this one.       *)
<1>12. MonitorEnds'
  <2>1. ASSUME NEW x \in Slots, objs[x].kind = "monitor",
               \/ Item("drop", x) \in Pending(App)
               \/ Item("unref", x) \in Pending(App)
        PROVE  FALSE
    <3>1. x \in Live /\ held[x] = 0
      BY <2>1 DEF AppWork
    <3>2. x = m
      BY <1>10, <2>1, <3>1 DEF OneMonitor
    <3> QED BY <1>10, <3>1, <3>2
  <2>2. \A x \in Slots : Item("unref", x) \in Pending(App) => objs'[x] = objs[x]
    BY <1>3 DEF AppWork
  <2>3. \A x \in Slots : Item("drop", x) \notin Pending(App)
    BY <2>1 DEF MonitorEnds
  <2> QED BY <1>7, <2>1, <2>2, <2>3 DEF MonitorEnds
<1>13. ThreadOrder'
  <2>1. Once(todo'[Receiver])
    BY <1>4, <1>7
  <2> QED BY <1>4, <1>7, <2>1 DEF ThreadOrder
<1>14. ThreadFreesNothing /\ ThreadFreesNothing'
  BY <1>4, <1>7 DEF ThreadFreesNothing
<1>15. \A x : x \in Staying' <=> (x \in Staying \/ x = s \/ (x = p /\ p # NoSlot))
  <2>1. \A x \in Slots : x \in {s, p} => /\ Item("unref", x) \notin Pending(App)
                                         /\ Item("drop", x) \notin Pending(App)
    BY <1>2 DEF AppWork
  <2>2. \A x : x \in Staying <=> /\ x \in Live
                                 /\ Item("unref", x) \notin Pending(App)
                                 /\ Item("drop", x) \notin Pending(App)
    BY <1>14, StayingNow DEF Live
  <2>3. \A x : x \in Staying' <=> /\ x \in Live'
                                  /\ Item("unref", x) \notin Pending(App)
                                  /\ Item("drop", x) \notin Pending(App)
    BY <1>7, <1>14, StayingNext DEF Live
  <2> QED BY <1>2, <1>3, <2>1, <2>2, <2>3 DEF NullOrSlot
<1>16. Items(queue)' = Items(queue)
  BY <1>1 DEF Items
<1>17. Item("queue", s) \in Pending(Receiver)'
  BY <1>4, <1>7
<1>18. Owners'
  BY <1>1, <1>2, <1>3, <1>7, <1>15, <1>16, <1>17, MadeOwners
<1>19. Staying \subseteq Live
  BY DEF Staying
<1>20. s \notin Items(queue)
  BY <1>2, <1>19 DEF QueueOwned
<1>21. /\ objs'[s].kind = "device" /\ objs'[s].parent = p /\ ~objs'[s].parentRef
  BY <1>2 DEF New
<1>22. ThreadWork'
  <2>1. \A x \in NullOrSlot : Item("queue", x) \in Pending(Receiver)' =>
            /\ x \in Staying' /\ objs'[x].kind = "device" /\ held'[x] = 0
            /\ x \notin Items(queue)'
    BY <1>1, <1>3, <1>4, <1>7, <1>15, <1>16, <1>20, <1>21
  <2>2. todo'[Receiver] # <<>> =>
            \E n \in Live' : objs'[n].kind = "monitor" /\ held'[n] > 0
    BY <1>1, <1>3, <1>10
  <2>3. \A x \in NullOrSlot : Item("ref", x) \in Pending(Receiver)' =>
          /\ x # NoSlot
          /\ \E d \in Staying' : /\ Item("queue", d) \in Pending(Receiver)'
                                 /\ (x = d \/ Owns(d, x)')
    BY <1>4, <1>6, <1>7, <1>15, <1>17, <1>21 DEF Owns
  <2> QED BY <1>14, <2>1, <2>2, <2>3 DEF ThreadWork, ThreadFreesNothing
<1>23. QueueOwned'
  <2>1. \A x \in Items(queue)' :
            x \in Staying' /\ objs'[x].kind = "device" /\ held'[x] = 0
    BY <1>1, <1>3, <1>15, <1>16, <1>19 DEF QueueOwned
  <2>2. queue' # <<>> => \E n \in Live' : objs'[n].kind = "monitor" /\ held'[n] > 0
    BY <1>1, <1>3, <1>10
  <2> QED BY <1>1, <2>1, <2>2 DEF QueueOwned, Once
<1>24. OneMonitor'
  <2>1. p # NoSlot => objs'[p].kind = "parent"
    BY <1>2 DEF New
  <2>2. \A x \in Live' : objs'[x].kind = "monitor" =>
            x \in Live /\ objs[x].kind = "monitor"
    BY <1>3, <1>21, <2>1
  <2> QED BY <2>2 DEF OneMonitor
<1>25. DescriptorsHeld'
  BY <1>1 DEF DescriptorsHeld
<1> QED BY <1>9, <1>11, <1>12, <1>13, <1>18, <1>22, <1>23, <1>24, <1>25

(* Every object has an owner, whatever the application, its thread and the *)
(* queue do with it.                                                       *)
LEMMA OwnersInit == Init => OwnerInv
<1> SUFFICES ASSUME Init PROVE OwnerInv
  OBVIOUS
<1>1. /\ \A s \in Slots : objs[s] = Free /\ held[s] = 0
      /\ queue = <<>> /\ nullFds = {} /\ todo[App] = <<>> /\ todo[Receiver] = <<>>
  BY DEF Init, Threads
<1>2. Free.kind = "none" /\ Free \in Object
  BY DEF Free, Object, Kinds
<1>3. Live = {} /\ Staying = {}
  BY <1>1, <1>2 DEF Live, Staying
<1>4. Pending(App) = {} /\ Pending(Receiver) = {} /\ Items(queue) = {}
      /\ Once(queue) /\ Once(todo[App]) /\ Once(todo[Receiver])
  BY <1>1, ItemsEmpty DEF Pending, Items
<1>5. Types
  <2> DEFINE none == <<>>
  <2>1. none \in Seq(Work) /\ none \in Seq(Slots)
    BY EmptySeq
  <2>2. todo = [t \in Threads |-> none] /\ queue = none
    BY DEF Init
  <2> HIDE DEF none
  <2>3. todo \in [Threads -> Seq(Work)] /\ queue \in Seq(Slots)
    BY <2>1, <2>2
  <2>4. 0 \in 0..MaxRefs /\ 1 \in 0..MaxRefs
    BY ObjectsAssumption
  <2>5. /\ objs \in [Slots -> Object] /\ held \in [Slots -> 0..MaxRefs]
        /\ loaded \in [Threads -> Int \cup {Idle}] /\ uctx \in 0..MaxRefs
    BY <1>2, <2>4 DEF Init
  <2>6. refcount = 1 /\ nullFds = {} /\ raced = FALSE /\ freed = FALSE
    BY DEF Init
  <2>7. raced \in BOOLEAN /\ freed \in BOOLEAN
    BY <2>6
  <2>8. refcount \in Int /\ nullFds \subseteq Slots
    BY <2>6
  <2> QED BY <2>3, <2>5, <2>7, <2>8 DEF Types
<1>6. Calls
  BY <1>1, <1>4 DEF Calls, AppWork, AppMakes, MonitorEnds, ThreadOrder, ThreadWork
<1>7. QueueOwned /\ OneMonitor /\ Owners /\ DescriptorsHeld
  BY <1>1, <1>3, <1>4 DEF QueueOwned, OneMonitor, Owners, HeldStays, Counted,
     Owned, ParentOwned, OneOwner, DescriptorsHeld
<1> QED BY <1>5, <1>6, <1>7 DEF OwnerInv

LEMMA OwnersSame ==
    ASSUME OwnerInv, UNCHANGED vars
    PROVE  OwnerInv'
<1>1. UNCHANGED <<refcount, freed, uctx, objs, held, queue, nullFds, todo, loaded, raced>>
  BY DEF vars, context, registers
<1>2. Types' /\ DescriptorsHeld'
  BY <1>1 DEF OwnerInv, Types, DescriptorsHeld
<1> QED BY <1>1, <1>2, SameWork

LEMMA OwnersStep == OwnerInv /\ [Next]_vars => OwnerInv'
<1> SUFFICES ASSUME OwnerInv, [Next]_vars
             PROVE  OwnerInv'
  OBVIOUS
<1>1. CASE RefContext
  <2>1. "ref" \in {"ref", "unref"} /\ Begin(App, Do("ref", NoSlot))
        /\ uctx' \in 0..MaxRefs /\ uctx' > 1 /\ UNCHANGED <<objs, held, queue, nullFds>>
    BY <1>1, ObjectsAssumption DEF RefContext
  <2> QED BY <2>1, ContextCall
<1>2. CASE UnrefContext
  <2>1. "unref" \in {"ref", "unref"} /\ Begin(App, Do("unref", NoSlot))
        /\ uctx' \in 0..MaxRefs /\ UNCHANGED <<objs, held, queue, nullFds>>
    BY <1>2, ObjectsAssumption DEF UnrefContext, OwnerInv, Types
  <2> QED BY <2>1, ContextCall
<1>3. CASE \E s \in Slots, kind \in Handles : NewHandle(s, kind)
  BY <1>3, NewHandleOwners
<1>4. CASE \E s \in Slots : GetFd(s) \/ Ref(s) \/ GetParent(s) \/ ReceiveDevice(s)
  BY <1>4, GetFdOwners, RefOwners, GetParentOwners, ReceiveOwners
<1>5. CASE \E s \in Slots : Unref(s)
  BY <1>5, UnrefKeeps, UnrefLast
<1>6. CASE \E s \in Slots, p \in NullOrSlot : NewDevice(s, p) \/ SendDevice(s, p)
  BY <1>6, NewDeviceOwners, SendOwners
<1>7. CASE \E t \in Threads : \/ Load(t) \/ StoreRef(t) \/ StoreUnref(t)
                              \/ Enqueue(t) \/ DropDevice(t) \/ EndDrop(t)
  BY <1>7, LoadOwners, StoreRefOwners, StoreUnrefOwners, EnqueueOwners, DropOwners,
     EndDropOwners
<1>8. CASE UNCHANGED vars
  BY <1>8, OwnersSame
<1> QED BY <1>1, <1>2, <1>3, <1>4, <1>5, <1>6, <1>7, <1>8 DEF Next, Handles, NullOrSlot

-----------------------------------------------------------------------------
(* What the count of the context counts.                                   *)

Told == Live \ Untold

LEMMA UntoldIs ==
    \A s : s \in Untold <=> /\ s \in Slots
                            /\ \/ Item("ref", s) \in Pending(App)
                               \/ Item("ref", s) \in Pending(Receiver)
BY DEF Untold, Threads

LEMMA UntoldIsNext ==
    \A s : s \in Untold' <=> /\ s \in Slots
                             /\ \/ Item("ref", s) \in Pending(App)'
                                \/ Item("ref", s) \in Pending(Receiver)'
BY DEF Untold, Threads

LEMMA ToldFinite ==
    ASSUME NEW S \in SUBSET Slots
    PROVE  /\ IsFiniteSet(S) /\ Cardinality(S) \in Nat
           /\ S # {} => Cardinality(S) > 0
<1>1. IsFiniteSet(S)
  BY ObjectsAssumption, FS_Subset
<1>2. Cardinality(S) \in Nat /\ (Cardinality(S) = 0 <=> S = {})
  BY <1>1, FS_CardinalityType, FS_EmptySet
<1> QED BY <1>1, <1>2

(* What the thread has not yet told the context of is the device it makes  *)
(* and that device's parent; neither is being freed.                       *)
LEMMA ThreadRefs ==
    ASSUME OwnerInv, NEW s \in NullOrSlot, Item("ref", s) \in Pending(Receiver)
    PROVE  s \in Slots /\ s \in Staying /\ objs[s].kind \in {"device", "parent"}
<1> USE DEF OwnerInv, Calls
<1>1. PICK d \in Staying : /\ Item("queue", d) \in Pending(Receiver)
                           /\ s = d \/ Owns(d, s)
  BY DEF ThreadWork
<1>2. s \in Slots
  BY DEF ThreadWork, NullOrSlot
<1>3. d \in Slots /\ objs[d].kind = "device"
  BY <1>1 DEF ThreadWork, NullOrSlot, Staying, Live
<1>4. Owns(d, s) => s \in Staying /\ objs[s].kind = "parent"
  BY <1>1, <1>2, FreedFields
<1> QED BY <1>1, <1>2, <1>3, <1>4

(* The context is not told anything but by one of its users.               *)
LEMMA UsersThere ==
    ASSUME OwnerInv
    PROVE  /\ UserRefs \in Nat /\ (uctx > 0 => UserRefs > 0)
           /\ \A t \in Threads : \A s \in NullOrSlot :
                  Item("ref", s) \in Pending(t) \/ Item("unref", s) \in Pending(t)
                      => UserRefs + Cardinality(Told) > 0
<1> USE DEF OwnerInv, Calls
<1>1. NoSlot \in NullOrSlot /\ uctx \in Nat
  BY DEF NullOrSlot, Types
<1>2. /\ Item("ref", NoSlot) \in Pending(App) => uctx > 1
      /\ ~(Item("ref", NoSlot) \in Pending(App) /\ Item("unref", NoSlot) \in Pending(App))
  BY <1>1 DEF AppWork, AppMakes, AppFrees
<1>3. /\ UserRefs \in Nat /\ (uctx > 0 => UserRefs > 0)
      /\ Item("unref", NoSlot) \in Pending(App) => UserRefs > 0
  BY <1>1, <1>2 DEF UserRefs
<1>4. Told \in SUBSET Slots
  BY DEF Told, Live
<1>5. Cardinality(Told) \in Nat /\ (Told # {} => Cardinality(Told) > 0)
  BY <1>4, ToldFinite
<1>6. ASSUME NEW t \in Threads, NEW s \in NullOrSlot,
             Item("ref", s) \in Pending(t) \/ Item("unref", s) \in Pending(t)
      PROVE  UserRefs > 0 \/ Told # {}
  <2>1. t = App \/ t = Receiver
    BY DEF Threads
  <2>2. CASE t = App /\ Item("ref", s) \in Pending(App)
    <3>1. uctx > 0
      BY <1>1, <1>2, <2>2 DEF AppWork, NullOrSlot
    <3> QED BY <1>3, <3>1
  <2>3. CASE t = App /\ Item("unref", s) \in Pending(App) /\ s = NoSlot
    BY <1>3, <2>3
  <2>4. CASE t = App /\ Item("unref", s) \in Pending(App) /\ s # NoSlot
    <3>1. s \in Slots /\ s \in Live /\ Item("ref", s) \notin Pending(App)
          /\ s \notin Staying
      BY <2>1, <2>4 DEF AppWork, AppMakes, AppFrees, NullOrSlot, Staying, Doomed, Threads
    <3>2. Item("ref", s) \notin Pending(Receiver)
      BY <3>1, ThreadRefs
    <3>3. s \in Told
      BY <3>1, <3>2, UntoldIs DEF Told
    <3> QED BY <3>3
  <2>5. CASE t = Receiver
    <3>1. Item("ref", s) \in Pending(Receiver) /\ todo[Receiver] # <<>>
      BY <1>6, <2>5, ItemsEmpty DEF ThreadWork, Pending, Items
    <3>2. PICK m \in Live : objs[m].kind = "monitor" /\ held[m] > 0
      BY <3>1 DEF ThreadWork
    <3>3. m \in Slots /\ Item("ref", m) \notin Pending(Receiver)
      BY <3>2, ThreadRefs DEF Live, NullOrSlot
    <3>4. CASE Item("ref", m) \in Pending(App)
      BY <1>3, <3>3, <3>4 DEF AppWork
    <3>5. CASE Item("ref", m) \notin Pending(App)
      BY <3>2, <3>3, <3>5, UntoldIs DEF Told
    <3> QED BY <3>4, <3>5
  <2> QED BY <1>6, <2>1, <2>2, <2>3, <2>4, <2>5
<1>7. UserRefs > 0 \/ Told # {} => UserRefs + Cardinality(Told) > 0
  BY <1>3, <1>5
<1> QED BY <1>3, <1>6, <1>7

ToldOnce ==
    \A s \in Slots :
        ~(Item("ref", s) \in Pending(App) /\ Item("ref", s) \in Pending(Receiver))

(* A step that adds to and takes from what is to be told nothing but       *)
(* objects that are made.                                                  *)
LEMMA CountSame ==
    ASSUME CountInv, UNCHANGED <<refcount, freed, loaded, raced>>,
           ToldOnce', Told' = Told, UserRefs' = UserRefs
    PROVE  CountInv'
BY DEF CountInv, ToldOnce, Told

LEMMA RefsSame ==
    ASSUME CountInv, UNCHANGED <<refcount, freed, loaded, raced>>,
           Live' = Live, uctx' = uctx,
           \A s \in NullOrSlot :
               /\ Item("ref", s) \in Pending(App)' <=> Item("ref", s) \in Pending(App)
               /\ Item("ref", s) \in Pending(Receiver)' <=> Item("ref", s) \in Pending(Receiver),
           Item("unref", NoSlot) \in Pending(App)' <=> Item("unref", NoSlot) \in Pending(App)
    PROVE  CountInv'
<1>1. ToldOnce'
  BY DEF CountInv, ToldOnce, NullOrSlot
<1>2. Untold' = Untold
  BY UntoldIs, UntoldIsNext DEF NullOrSlot
<1>3. Told' = Told
  BY <1>2 DEF Told
<1>4. UserRefs' = UserRefs
  BY DEF UserRefs, NullOrSlot
<1> QED BY <1>1, <1>3, <1>4, CountSame

(* What each kind of step has to tell the context.                         *)

LEMMA ThreadsAre ==
    /\ App \in Threads /\ Receiver \in Threads /\ App # Receiver
    /\ NoSlot \notin Slots /\ NoSlot \in NullOrSlot /\ Slots \subseteq NullOrSlot
    /\ \A t \in Threads : t = App \/ t = Receiver
BY ObjectsAssumption DEF Threads, NullOrSlot

LEMMA ContextCallCount ==
    ASSUME OwnerInv, CountInv, NEW op \in {"ref", "unref"},
           Begin(App, Do(op, NoSlot)),
           uctx' = IF op = "ref" THEN uctx + 1 ELSE uctx - 1, UNCHANGED objs
    PROVE  CountInv'
<1> DEFINE w == Do(op, NoSlot)
<1>1. /\ w \in Seq(Work) /\ Items(w) = {Item(op, NoSlot)}
  BY DoWork, ThreadsAre
<1>2. Begin(App, w)
  OBVIOUS
<1> HIDE DEF w
<1>3. /\ Pending(App) = {} /\ Pending(App)' = {Item(op, NoSlot)}
      /\ Pending(Receiver)' = Pending(Receiver)
      /\ UNCHANGED <<refcount, freed, loaded, raced>>
  <2>1. /\ Pending(App) = {} /\ Pending(App)' = Items(w)
        /\ \A u \in Threads \ {App} : Pending(u)' = Pending(u)
    BY <1>1, <1>2, ThreadsAre, BeginWork DEF OwnerInv
  <2>2. UNCHANGED <<refcount, freed, loaded, raced>>
    BY <1>2 DEF Begin, context, registers
  <2> QED BY <1>1, <2>1, <2>2, ThreadsAre
<1>4. \A q, x : Item(q, x) \in Pending(App)' <=> q = op /\ x = NoSlot
  BY <1>3, ItemFields
<1>5. ToldOnce'
  BY <1>4, ThreadsAre DEF ToldOnce
<1>6. Untold' = Untold
  BY <1>3, <1>4, ThreadsAre, UntoldIs, UntoldIsNext
<1>7. Told' = Told
  BY <1>6 DEF Told, Live
<1>8. UserRefs' = UserRefs
  <2>1. uctx \in Int
    BY DEF OwnerInv, Types
  <2> QED BY <1>3, <1>4, <2>1 DEF UserRefs
<1> QED BY <1>3, <1>5, <1>7, <1>8, CountSame

LEMMA NewCount ==
    ASSUME OwnerInv, CountInv, NEW t \in Threads, NEW w \in Seq(Work),
           Begin(t, w), uctx' = uctx,
           NEW s \in Slots \ Live, NEW p \in NullOrSlot \ Live,
           \A x : x \in Live' <=> (x \in Live \/ x = s \/ (x = p /\ p # NoSlot)),
           \A x \in NullOrSlot :
               /\ Item("ref", x) \in Items(w) <=> x \in Slots /\ x \in {s, p}
               /\ Item("unref", x) \notin Items(w)
    PROVE  CountInv'
<1> USE DEF OwnerInv, Calls
<1>1. /\ Pending(t) = {} /\ Pending(t)' = Items(w)
      /\ \A u \in Threads \ {t} : Pending(u)' = Pending(u)
  BY BeginWork
<1>2. UNCHANGED <<refcount, freed, loaded, raced>>
  BY DEF Begin, context, registers
<1>3. \A u \in Threads : \A x \in Slots : Item("ref", x) \in Pending(u) => x \in Live
  BY ThreadRefs, ThreadsAre DEF AppWork, Staying
<1>4. \A u \in Threads \ {t} : \A x \in NullOrSlot :
          Item("ref", x) \in Pending(u) => x # s /\ (x # p \/ x = NoSlot)
  BY <1>3 DEF NullOrSlot
<1>5. ToldOnce'
  <2>1. \A x \in Slots : \A u \in Threads \ {t} :
            ~(Item("ref", x) \in Pending(u)' /\ Item("ref", x) \in Pending(t)')
    BY <1>1, <1>4, ThreadsAre
  <2> QED BY <2>1, ThreadsAre DEF ToldOnce
<1>6. Told' = Told
  <2>1. \A x : x \in Untold' <=> x \in Untold \/ x = s \/ (x = p /\ p # NoSlot)
    BY <1>1, UntoldIs, UntoldIsNext, ThreadsAre DEF NullOrSlot
  <2>2. s \notin Live /\ p \notin Live
    OBVIOUS
  <2> QED BY <2>1, <2>2 DEF Told
<1>7. UserRefs' = UserRefs
  <2>1. Item("ref", NoSlot) \in Pending(App)' <=> Item("ref", NoSlot) \in Pending(App)
    BY <1>1, ThreadsAre
  <2>2. Item("unref", NoSlot) \in Pending(App)' <=> Item("unref", NoSlot) \in Pending(App)
    BY <1>1, ThreadsAre
  <2> QED BY <2>1, <2>2 DEF UserRefs
<1> QED BY <1>2, <1>5, <1>6, <1>7, CountSame

LEMMA NewHandleCount ==
    ASSUME OwnerInv, CountInv, NEW s \in Slots, NEW kind \in Handles, NewHandle(s, kind)
    PROVE  CountInv'
<1> DEFINE w == Do("ref", s)
<1>1. /\ Begin(App, w) /\ uctx' = uctx /\ s \in Slots \ Live
      /\ NoSlot \in NullOrSlot \ Live
  BY ThreadsAre DEF NewHandle, Live
<1>2. /\ w \in Seq(Work) /\ Items(w) = {Item("ref", s)}
  BY DoWork, ThreadsAre
<1> HIDE DEF w
<1>3. New(kind, NoSlot).kind # "none"
  BY DEF New, Handles
<1>4. \A x : x \in Live' <=> (x \in Live \/ x = s \/ (x = NoSlot /\ NoSlot # NoSlot))
  BY <1>3 DEF NewHandle, Live, OwnerInv, Types
<1>5. \A x \in NullOrSlot :
          /\ Item("ref", x) \in Items(w) <=> x \in Slots /\ x \in {s, NoSlot}
          /\ Item("unref", x) \notin Items(w)
  BY <1>2, ItemFields, ThreadsAre
<1> QED BY <1>1, <1>2, <1>4, <1>5, ThreadsAre, NewCount

LEMMA NewDeviceCount ==
    ASSUME OwnerInv, CountInv, NEW s \in Slots, NEW p \in NullOrSlot,
           NewDevice(s, p) \/ SendDevice(s, p)
    PROVE  CountInv'
<1>1. {s, p} \cap Live = {} /\ s # p /\ objs' = Made(s, p) /\ uctx' = uctx
  BY DEF NewDevice, SendDevice
<1>2. /\ s \in Slots \ Live /\ p \in NullOrSlot \ Live
      /\ "device" \in Kinds \ {"none"} /\ objs'[s] = New("device", p)
      /\ p # NoSlot => objs'[p] = New("parent", NoSlot)
      /\ \A x \in Slots \ {s, p} : objs'[x] = objs[x]
  BY <1>1, MadeFields
<1>3. \A x : x \in Live' <=> (x \in Live \/ x = s \/ (x = p /\ p # NoSlot))
  BY <1>1, <1>2, MadeSame DEF OwnerInv
<1>4. CASE NewDevice(s, p)
  <2> DEFINE w == NewWork(s, p)
  <2>1. w \in Seq(Work) /\ Items(w) = {Item("ref", x) : x \in {s, p} \ {NoSlot}}
    BY <1>1, NewWorkItems
  <2>2. Begin(App, w)
    BY <1>4 DEF NewDevice
  <2> HIDE DEF w
  <2>3. \A x \in NullOrSlot :
            /\ Item("ref", x) \in Items(w) <=> x \in Slots /\ x \in {s, p}
            /\ Item("unref", x) \notin Items(w)
    BY <2>1, ItemFields, ThreadsAre DEF NullOrSlot
  <2> QED BY <1>1, <1>2, <1>3, <2>1, <2>2, <2>3, ThreadsAre, NewCount
<1>5. CASE SendDevice(s, p)
  <2> DEFINE w == NewWork(s, p) \o Do("queue", s)
  <2>1. /\ w \in Seq(Work)
        /\ \A q, x : Item(q, x) \in Items(w) <=>
               /\ x \in Slots
               /\ (q = "queue" /\ x = s) \/ (q = "ref" /\ x \in {s, p})
    BY <1>1, SendWork
  <2>2. Begin(Receiver, w)
    BY <1>5 DEF SendDevice
  <2> HIDE DEF w
  <2>3. \A x \in NullOrSlot :
            /\ Item("ref", x) \in Items(w) <=> x \in Slots /\ x \in {s, p}
            /\ Item("unref", x) \notin Items(w)
    BY <2>1
  <2> QED BY <1>1, <1>2, <1>3, <2>1, <2>2, <2>3, ThreadsAre, NewCount
<1> QED BY <1>4, <1>5

(* These tell the context nothing, and make and free nothing.              *)
LEMMA QuietCount ==
    ASSUME OwnerInv, CountInv, NEW s \in Slots,
           GetFd(s) \/ Ref(s) \/ GetParent(s) \/ ReceiveDevice(s)
    PROVE  CountInv'
<1>1. UNCHANGED <<refcount, freed, uctx, loaded, raced, todo>>
  BY DEF GetFd, Ref, GetParent, ReceiveDevice, context, registers
<1>2. Pending(App)' = Pending(App) /\ Pending(Receiver)' = Pending(Receiver)
  BY <1>1 DEF Pending
<1>3. objs \in [Slots -> Object]
  BY DEF OwnerInv, Types
<1>4. \A x \in Slots : objs'[x].kind = objs[x].kind
  <2>1. CASE GetFd(s) \/ ReceiveDevice(s)
    BY <2>1 DEF GetFd, ReceiveDevice
  <2>2. CASE Ref(s)
    <3>1. objs' = [objs EXCEPT ![s].rc = @ + 1]
      BY <2>2 DEF Ref
    <3>2. objs[s] \in Object
      BY <1>3
    <3>3. [objs[s] EXCEPT !.rc = @ + 1].kind = objs[s].kind
      BY <3>2 DEF Object
    <3> QED BY <1>3, <3>1, <3>3
  <2>3. CASE GetParent(s)
    <3>1. objs' = [objs EXCEPT ![s].parentRef = TRUE]
      BY <2>3 DEF GetParent
    <3>2. objs[s] \in Object
      BY <1>3
    <3>3. [objs[s] EXCEPT !.parentRef = TRUE].kind = objs[s].kind
      BY <3>2 DEF Object
    <3> QED BY <1>3, <3>1, <3>3
  <2> QED BY <2>1, <2>2, <2>3
<1>5. Live' = Live
  BY <1>4 DEF Live
<1> QED BY <1>1, <1>2, <1>5, RefsSame

(* What is freed later is still there, and counted.                        *)
LEMMA UnrefCount ==
    ASSUME OwnerInv, CountInv, NEW s \in Slots, Unref(s)
    PROVE  CountInv'
<1>1. s \in Staying /\ objs[s] \in Object /\ objs \in [Slots -> Object]
  BY DEF Unref, OwnerInv, Types, Owners, HeldStays
<1> DEFINE last == IF objs[s].kind = "monitor" THEN Do("drop", s) ELSE FreeWork(s)
           none == <<>>
           w == IF objs[s].rc > 1 THEN none ELSE last
<1>2. /\ last \in Seq(Work)
      /\ \A q, x : Item(q, x) \in Items(last) => q \in {"drop", "unref"} /\ x \in Slots
  BY <1>1, LastWork DEF OwnerInv
<1>3. none \in Seq(Work) /\ Items(none) = {}
  BY ItemsEmpty
<1>4. Begin(App, w)
  BY DEF Unref
<1> HIDE DEF none, last
<1>5. /\ w \in Seq(Work)
      /\ \A q, x : Item(q, x) \in Items(w) => q \in {"drop", "unref"} /\ x \in Slots
  BY <1>2, <1>3
<1> HIDE DEF w
<1>6. /\ Pending(App) = {} /\ Pending(App)' = Items(w)
      /\ Pending(Receiver)' = Pending(Receiver)
  BY <1>4, <1>5, BeginWork, ThreadsAre DEF OwnerInv
<1>7. UNCHANGED <<refcount, freed, uctx, loaded, raced>>
  BY <1>4 DEF Begin, Unref, context, registers
<1>8. Live' = Live
  <2>1. [objs[s] EXCEPT !.rc = @ - 1].kind = objs[s].kind
    BY <1>1 DEF Object
  <2>2. objs' = [objs EXCEPT ![s].rc = @ - 1]
    BY DEF Unref
  <2>3. \A x \in Slots : objs'[x].kind = objs[x].kind
    BY <1>1, <2>1, <2>2
  <2> QED BY <2>3 DEF Live
<1> QED BY <1>5, <1>6, <1>7, <1>8, ThreadsAre, RefsSame

LEMMA DropCount ==
    ASSUME OwnerInv, CountInv, NEW t \in Threads, DropDevice(t)
    PROVE  CountInv'
<1> USE DEF OwnerInv, Calls
<1>1. todo[t] # <<>> /\ Head(todo[t]).op = "drop" /\ queue # <<>>
      /\ UNCHANGED <<refcount, freed, uctx, held, loaded, raced>>
  BY DEF DropDevice, context, registers
<1>2. t = App
  BY <1>1, HeadWork
<1> DEFINE d == Head(queue)
           w == FreeWork(d)
<1>3. d \in Items(queue)
  BY <1>1, ItemsTail DEF Types
<1>4. d \in Staying /\ objs[d].kind = "device" /\ objs[d].rc = 1
  BY <1>3 DEF QueueOwned, Owners, Counted
<1>5. /\ objs' = [objs EXCEPT ![d].rc = @ - 1]
      /\ todo' = [todo EXCEPT ![t] = w \o @]
  BY <1>4 DEF DropDevice
<1>6. /\ w \in Seq(Work)
      /\ \A q, x : Item(q, x) \in Items(w) => q = "unref" /\ x \in Slots
  BY <1>4, LastWork
<1> DEFINE v == todo[t]
           c == w \o v
<1>7. /\ v \in Seq(Work) /\ Items(v) = Pending(App)
      /\ todo' = [todo EXCEPT ![t] = c]
  BY <1>2, <1>5 DEF Types, Pending, Items
<1> HIDE DEF v, w, d
<1>8. c \in Seq(Work) /\ Items(c) = Items(w) \cup Pending(App)
  BY <1>6, <1>7, ItemsConcat
<1> HIDE DEF c
<1>9. Pending(App)' = Items(w) \cup Pending(App) /\ Pending(Receiver)' = Pending(Receiver)
  <2>1. todo'[App] = c /\ todo'[Receiver] = todo[Receiver]
    BY <1>2, <1>7, ThreadsAre DEF Types
  <2>2. Pending(App)' = Items(c) /\ Pending(Receiver)' = Pending(Receiver)
    BY <2>1 DEF Pending, Items
  <2> QED BY <1>8, <2>2
<1>10. Live' = Live
  <2>1. d \in Slots /\ objs[d] \in Object
    BY <1>4 DEF Types, Staying, Live
  <2>2. [objs[d] EXCEPT !.rc = @ - 1].kind = objs[d].kind
    BY <2>1 DEF Object
  <2>3. \A x \in Slots : objs'[x].kind = objs[x].kind
    BY <1>5, <2>1, <2>2 DEF Types
  <2> QED BY <2>3 DEF Live
<1> QED BY <1>1, <1>6, <1>9, <1>10, ThreadsAre, RefsSame

(* The end of a drop tells the context nothing yet: the device's part in   *)
(* it is given back by the work that the drop has put before the rest.     *)
LEMMA EndDropCount ==
    ASSUME OwnerInv, CountInv, NEW t \in Threads, EndDrop(t)
    PROVE  CountInv'
<1> USE DEF OwnerInv, Calls
<1>1. todo[t] # <<>> /\ UNCHANGED <<refcount, freed, uctx, objs, loaded, raced>>
  BY DEF EndDrop, context, registers
<1> DEFINE s == Head(todo[t]).slot
           w == Do("unref", s)
<1>2. /\ Head(todo[t]) = Item("drop", s) /\ Item("drop", s) \in Pending(App)
      /\ s \in NullOrSlot /\ t = App
  BY <1>1, HeadWork DEF EndDrop
<1>3. todo' = [todo EXCEPT ![t] = w \o Tail(@)]
  BY DEF EndDrop
<1> HIDE DEF s
<1>4. w \in Seq(Work) /\ Items(w) = {Item("unref", s)} /\ Once(w)
  BY <1>2, DoWork
<1> HIDE DEF w
<1>5. s \in Slots /\ Item("unref", s) \notin Pending(App) /\ Once(todo[App])
  BY <1>2, ThreadsAre DEF AppWork, NullOrSlot
<1>6. /\ Pending(App)' = {Item("unref", s)} \cup (Pending(App) \ {Item("drop", s)})
      /\ Pending(Receiver)' = Pending(Receiver)
  <2>1. Items(w) \cap Pending(t) = {}
    BY <1>2, <1>4, <1>5
  <2> QED BY <1>1, <1>2, <1>3, <1>4, <1>5, <2>1, ThreadsAre, ReplaceWork
<1>7. \A x \in NullOrSlot :
          /\ Item("ref", x) \in Pending(App)' <=> Item("ref", x) \in Pending(App)
          /\ x # s => (Item("unref", x) \in Pending(App)' <=> Item("unref", x) \in Pending(App))
  BY <1>6, ItemFields
<1>8. Live' = Live
  BY <1>1 DEF Live
<1> QED BY <1>1, <1>5, <1>6, <1>7, <1>8, ThreadsAre, RefsSame

(* What thread t has done it has to do no more; what it still has to do    *)
(* is as it was.                                                           *)
LEMMA PartDone ==
    ASSUME OwnerInv, NEW t \in Threads, todo[t] # <<>>, Finish(t)
    PROVE  LET op == Head(todo[t]).op
               s == Head(todo[t]).slot
           IN  /\ Item(op, s) \in Pending(t) /\ s \in NullOrSlot
               /\ op \in {"unref", "drop"} => t = App
               /\ op = "queue" => t = Receiver
               /\ \A u \in Threads : \A q, x : Item(q, x) \in Pending(u)' <=>
                      Item(q, x) \in Pending(u) /\ ~(u = t /\ q = op /\ x = s)
<1> USE DEF OwnerInv, Calls
<1> DEFINE op == Head(todo[t]).op
           s == Head(todo[t]).slot
<1>1. /\ Head(todo[t]) = Item(op, s) /\ Item(op, s) \in Pending(t)
      /\ s \in NullOrSlot
      /\ op \in {"unref", "drop"} => t = App
      /\ op = "queue" => t = Receiver
  BY HeadWork
<1>2. Once(todo[t])
  BY ThreadsAre DEF AppWork, ThreadOrder
<1>3. /\ Pending(t)' = Pending(t) \ {Item(op, s)}
      /\ \A u \in Threads \ {t} : Pending(u)' = Pending(u)
  BY <1>1, <1>2, FinishWork
<1> HIDE DEF op, s
<1>4. \A u \in Threads : \A q, x : Item(q, x) \in Pending(u)' <=>
          Item(q, x) \in Pending(u) /\ ~(u = t /\ q = op /\ x = s)
  BY <1>3, ItemFields
<1> QED BY <1>1, <1>4 DEF op, s

LEMMA EnqueueCount ==
    ASSUME OwnerInv, CountInv, NEW t \in Threads, Enqueue(t)
    PROVE  CountInv'
<1>1. /\ todo[t] # <<>> /\ Finish(t) /\ Head(todo[t]).op = "queue"
      /\ UNCHANGED <<refcount, freed, uctx, objs, loaded, raced>>
  BY DEF Enqueue, context, registers
<1>2. \A u \in Threads : \A q, x : q # "queue" =>
          (Item(q, x) \in Pending(u)' <=> Item(q, x) \in Pending(u))
  BY <1>1, PartDone
<1>3. Live' = Live
  BY <1>1 DEF Live
<1> QED BY <1>1, <1>2, <1>3, ThreadsAre, RefsSame

(* The value is the count as long as nobody else is changing it.           *)
LEMMA LoadCount ==
    ASSUME OwnerInv, CountInv, NEW t \in Threads, Load(t)
    PROVE  CountInv'
<1>1. /\ UNCHANGED <<refcount, freed, uctx, objs, todo>>
      /\ loaded' = [loaded EXCEPT ![t] = refcount]
      /\ raced' = (raced \/ \E u \in Threads : loaded[u] # Idle)
  BY DEF Load, context
<1>2. Pending(App)' = Pending(App) /\ Pending(Receiver)' = Pending(Receiver)
  BY <1>1 DEF Pending
<1>3. Live' = Live /\ UserRefs' = UserRefs
  BY <1>1, <1>2 DEF Live, UserRefs
<1>4. Untold' = Untold
  BY <1>2, UntoldIs, UntoldIsNext
<1>5. ASSUME ~raced'
      PROVE  ~raced /\ \A u \in Threads : loaded'[u] # Idle =>
                 loaded'[u] = refcount /\ \A v \in Threads \ {u} : loaded'[v] = Idle
  <2>1. ~raced /\ \A u \in Threads : loaded[u] = Idle
    BY <1>1, <1>5
  <2>2. loaded'[t] = refcount /\ \A u \in Threads \ {t} : loaded'[u] = Idle
    BY <1>1, <2>1 DEF OwnerInv, Types
  <2> QED BY <2>1, <2>2
<1> QED BY <1>1, <1>2, <1>3, <1>4, <1>5 DEF CountInv

(* What a thread finds when it is alone in changing the count.             *)
LEMMA StoreAlone ==
    ASSUME OwnerInv, CountInv, ~raced, NEW t \in Threads, loaded[t] # Idle,
           NEW s \in NullOrSlot,
           Item("ref", s) \in Pending(t) \/ Item("unref", s) \in Pending(t)
    PROVE  /\ loaded[t] = refcount /\ \A u \in Threads \ {t} : loaded[u] = Idle
           /\ refcount = UserRefs + Cardinality(Told) /\ refcount > 0 /\ ~freed
<1>1. /\ loaded[t] = refcount /\ \A u \in Threads \ {t} : loaded[u] = Idle
      /\ refcount = UserRefs + Cardinality(Told) /\ (freed <=> refcount = 0)
  BY DEF CountInv, Told
<1>2. UserRefs + Cardinality(Told) > 0
  BY UsersThere
<1> QED BY <1>1, <1>2

(* _udev_ref.                                                              *)
LEMMA StoreRefCount ==
    ASSUME OwnerInv, CountInv, NEW t \in Threads, StoreRef(t)
    PROVE  CountInv'
<1>1. /\ todo[t] # <<>> /\ Finish(t) /\ Head(todo[t]).op = "ref"
      /\ loaded[t] # Idle /\ refcount' = loaded[t] + 1
      /\ loaded' = [loaded EXCEPT ![t] = Idle]
      /\ UNCHANGED <<freed, uctx, objs, raced>>
  BY DEF StoreRef
<1> DEFINE s == Head(todo[t]).slot
<1>2. /\ Item("ref", s) \in Pending(t) /\ s \in NullOrSlot
      /\ \A u \in Threads : \A q, x : Item(q, x) \in Pending(u)' <=>
             Item(q, x) \in Pending(u) /\ ~(u = t /\ q = "ref" /\ x = s)
  BY <1>1, PartDone
<1> HIDE DEF s
<1>3. ToldOnce'
  BY <1>2, ThreadsAre DEF CountInv, ToldOnce
<1>4. Live' = Live
  BY <1>1 DEF Live
<1>5. ASSUME ~raced'
      PROVE  /\ \A u \in Threads : loaded'[u] = Idle
             /\ refcount' = UserRefs' + Cardinality(Told')
             /\ freed' <=> refcount' = 0
  <2>1. /\ loaded[t] = refcount /\ \A u \in Threads \ {t} : loaded[u] = Idle
        /\ refcount = UserRefs + Cardinality(Told) /\ refcount > 0 /\ ~freed
    BY <1>1, <1>2, <1>5, StoreAlone
  <2>2. \A u \in Threads : loaded'[u] = Idle
    BY <1>1, <2>1 DEF OwnerInv, Types
  <2>3. refcount' = refcount + 1 /\ ~freed' /\ refcount' # 0
    BY <1>1, <2>1 DEF OwnerInv, Types
  <2>4. Told \in SUBSET Slots /\ IsFiniteSet(Told) /\ Cardinality(Told) \in Nat
    BY ToldFinite DEF Told, Live
  <2>5. UserRefs \in Nat
    BY UsersThere
  <2>6. CASE s = NoSlot
    <3>1. t = App
      BY <1>2, <2>6, ThreadRefs, ThreadsAre
    <3>2. Told' = Told
      <4>1. Untold' = Untold
        BY <1>2, <2>6, UntoldIs, UntoldIsNext, ThreadsAre
      <4> QED BY <1>4, <4>1 DEF Told
    <3>3. UserRefs' = UserRefs + 1
      <4>1. /\ Item("ref", NoSlot) \in Pending(App)
            /\ Item("ref", NoSlot) \notin Pending(App)'
            /\ Item("unref", NoSlot) \in Pending(App)' <=> Item("unref", NoSlot) \in Pending(App)
        BY <1>2, <2>6, <3>1, ThreadsAre
      <4>2. uctx \in Int
        BY DEF OwnerInv, Types
      <4> QED BY <1>1, <4>1, <4>2 DEF UserRefs
    <3> QED BY <2>1, <2>2, <2>3, <2>4, <2>5, <3>2, <3>3
  <2>7. CASE s # NoSlot
    <3>1. s \in Slots /\ s \in Live /\ s \in Untold /\ s \notin Told
      <4>1. s \in Slots /\ s \in Live
        BY <1>2, <2>7, ThreadRefs, ThreadsAre
           DEF NullOrSlot, OwnerInv, Calls, AppWork, Staying
      <4>2. s \in Untold
        BY <1>2, <4>1, UntoldIs, ThreadsAre
      <4> QED BY <4>1, <4>2 DEF Told
    <3>2. Told' = Told \cup {s}
      <4>1. \A x : x \in Untold' <=> x \in Untold /\ x # s
        BY <1>2, <3>1, UntoldIs, UntoldIsNext, ThreadsAre DEF CountInv
      <4> QED BY <1>4, <3>1, <4>1 DEF Told
    <3>3. Cardinality(Told') = Cardinality(Told) + 1
      BY <2>4, <3>1, <3>2, FS_AddElement
    <3>4. UserRefs' = UserRefs
      <4>1. /\ Item("ref", NoSlot) \in Pending(App)' <=> Item("ref", NoSlot) \in Pending(App)
            /\ Item("unref", NoSlot) \in Pending(App)' <=> Item("unref", NoSlot) \in Pending(App)
        BY <1>2, <2>7, ThreadsAre
      <4> QED BY <1>1, <4>1 DEF UserRefs
    <3> QED BY <2>1, <2>2, <2>3, <2>4, <2>5, <3>3, <3>4
  <2> QED BY <2>6, <2>7
<1> QED BY <1>3, <1>5 DEF CountInv, ToldOnce, Told

(* _udev_unref, and what is freed with it.                                 *)
LEMMA StoreUnrefCount ==
    ASSUME OwnerInv, CountInv, NEW t \in Threads, StoreUnref(t)
    PROVE  CountInv'
<1> DEFINE s == Head(todo[t]).slot
<1>1. /\ todo[t] # <<>> /\ Finish(t) /\ Head(todo[t]).op = "unref"
      /\ loaded[t] # Idle /\ refcount' = loaded[t] - 1
      /\ freed' = (freed \/ refcount' = 0)
      /\ objs' = [x \in Slots |-> IF x = s THEN Free ELSE objs[x]]
      /\ loaded' = [loaded EXCEPT ![t] = Idle]
      /\ UNCHANGED <<uctx, raced>>
  BY DEF StoreUnref
<1>2. /\ Item("unref", s) \in Pending(t) /\ s \in NullOrSlot /\ t = App
      /\ \A u \in Threads : \A q, x : Item(q, x) \in Pending(u)' <=>
             Item(q, x) \in Pending(u) /\ ~(u = t /\ q = "unref" /\ x = s)
  BY <1>1, PartDone
<1> HIDE DEF s
<1>3. /\ ToldOnce' /\ Untold' = Untold
  BY <1>2, UntoldIs, UntoldIsNext, ThreadsAre DEF CountInv, ToldOnce
<1>4. Live' = Live \ {s}
  <2>1. Free.kind = "none"
    BY DEF Free
  <2> QED BY <1>1, <2>1 DEF Live
<1>5. ASSUME ~raced'
      PROVE  /\ \A u \in Threads : loaded'[u] = Idle
             /\ refcount' = UserRefs' + Cardinality(Told')
             /\ freed' <=> refcount' = 0
  <2>1. /\ loaded[t] = refcount /\ \A u \in Threads \ {t} : loaded[u] = Idle
        /\ refcount = UserRefs + Cardinality(Told) /\ refcount > 0 /\ ~freed
    BY <1>1, <1>2, <1>5, StoreAlone
  <2>2. \A u \in Threads : loaded'[u] = Idle
    BY <1>1, <2>1 DEF OwnerInv, Types
  <2>3. refcount' = refcount - 1 /\ (freed' <=> refcount' = 0)
    BY <1>1, <2>1 DEF OwnerInv, Types
  <2>4. Told \in SUBSET Slots /\ IsFiniteSet(Told) /\ Cardinality(Told) \in Nat
    BY ToldFinite DEF Told, Live
  <2>5. UserRefs \in Nat
    BY UsersThere
  <2>6. CASE s = NoSlot
    <3>1. Told' = Told
      BY <1>3, <1>4, <2>4, <2>6, ThreadsAre DEF Told, Live
    <3>2. UserRefs' = UserRefs - 1
      <4>1. /\ Item("unref", NoSlot) \in Pending(App)
            /\ Item("unref", NoSlot) \notin Pending(App)'
            /\ Item("ref", NoSlot) \in Pending(App)' <=> Item("ref", NoSlot) \in Pending(App)
        BY <1>2, <2>6, ThreadsAre
      <4>2. uctx \in Int
        BY DEF OwnerInv, Types
      <4> QED BY <1>1, <4>1, <4>2 DEF UserRefs
    <3> QED BY <2>1, <2>2, <2>3, <2>4, <2>5, <3>1, <3>2
  <2>7. CASE s # NoSlot
    <3>1. s \in Slots /\ s \in Live /\ s \notin Untold /\ s \in Told
      <4>1. /\ s \in Slots /\ s \in Live /\ s \notin Staying
            /\ Item("ref", s) \notin Pending(App)
        BY <1>2, <2>7, ThreadsAre DEF NullOrSlot, OwnerInv, Calls, AppWork, AppMakes,
           AppFrees, Staying, Doomed
      <4>2. Item("ref", s) \notin Pending(Receiver)
        BY <1>2, <4>1, ThreadRefs
      <4> QED BY <4>1, <4>2, UntoldIs DEF Told
    <3>2. Told' = Told \ {s}
      BY <1>3, <1>4 DEF Told
    <3>3. Cardinality(Told') = Cardinality(Told) - 1
      BY <2>4, <3>1, <3>2, FS_RemoveElement
    <3>4. UserRefs' = UserRefs
      <4>1. /\ Item("ref", NoSlot) \in Pending(App)' <=> Item("ref", NoSlot) \in Pending(App)
            /\ Item("unref", NoSlot) \in Pending(App)' <=> Item("unref", NoSlot) \in Pending(App)
        BY <1>2, <2>7, ThreadsAre
      <4> QED BY <1>1, <4>1 DEF UserRefs
    <3> QED BY <2>1, <2>2, <2>3, <2>4, <2>5, <3>3, <3>4
  <2> QED BY <2>6, <2>7
<1> QED BY <1>3, <1>5 DEF CountInv, ToldOnce, Told

LEMMA CountInit == OwnerInv /\ Init => CountInv
<1> SUFFICES ASSUME OwnerInv, Init
             PROVE  CountInv
  OBVIOUS
<1>1. /\ \A s \in Slots : objs[s] = Free /\ todo[App] = <<>> /\ todo[Receiver] = <<>>
      /\ refcount = 1 /\ uctx = 1 /\ freed = FALSE
      /\ \A t \in Threads : loaded[t] = Idle
  BY DEF Init, Threads
<1>2. Pending(App) = {} /\ Pending(Receiver) = {}
  <2>1. todo[App] = <<>> /\ todo[Receiver] = <<>>
    BY ThreadsAre DEF Init
  <2> QED BY <2>1, ItemsEmpty DEF Pending, Items
<1>3. Live \ Untold = {}
  BY <1>1 DEF Live, Free
<1>4. Cardinality(Live \ Untold) = 0
  BY <1>3, FS_EmptySet
<1>5. UserRefs = 1
  BY <1>1, <1>2 DEF UserRefs
<1> QED BY <1>1, <1>2, <1>4, <1>5 DEF CountInv

LEMMA CountStep == ObjectsInv /\ [Next]_vars => CountInv'
<1> SUFFICES ASSUME OwnerInv, CountInv, [Next]_vars
             PROVE  CountInv'
  BY DEF ObjectsInv
<1>1. CASE RefContext
  <2>1. /\ "ref" \in {"ref", "unref"} /\ Begin(App, Do("ref", NoSlot))
        /\ uctx' = uctx + 1 /\ UNCHANGED objs
    BY <1>1 DEF RefContext
  <2> QED BY <2>1, ContextCallCount
<1>2. CASE UnrefContext
  <2>1. /\ "unref" \in {"ref", "unref"} /\ Begin(App, Do("unref", NoSlot))
        /\ uctx' = uctx - 1 /\ UNCHANGED objs
    BY <1>2 DEF UnrefContext
  <2> QED BY <2>1, ContextCallCount
<1>3. CASE \E s \in Slots, kind \in Handles : NewHandle(s, kind)
  BY <1>3, NewHandleCount
<1>4. CASE \E s \in Slots : GetFd(s) \/ Ref(s) \/ GetParent(s) \/ ReceiveDevice(s)
  BY <1>4, QuietCount
<1>5. CASE \E s \in Slots : Unref(s)
  BY <1>5, UnrefCount
<1>6. CASE \E s \in Slots, p \in NullOrSlot : NewDevice(s, p) \/ SendDevice(s, p)
  BY <1>6, NewDeviceCount
<1>7. CASE \E t \in Threads : \/ Load(t) \/ StoreRef(t) \/ StoreUnref(t)
                              \/ Enqueue(t) \/ DropDevice(t) \/ EndDrop(t)
  BY <1>7, LoadCount, StoreRefCount, StoreUnrefCount, EnqueueCount, DropCount,
     EndDropCount
<1>8. CASE UNCHANGED vars
  <2>1. UNCHANGED <<refcount, freed, uctx, objs, todo, loaded, raced>>
    BY <1>8 DEF vars, context, registers
  <2>2. Pending(App)' = Pending(App) /\ Pending(Receiver)' = Pending(Receiver)
        /\ Live' = Live
    BY <2>1 DEF Pending, Live
  <2> QED BY <2>1, <2>2, RefsSame
<1> QED BY <1>1, <1>2, <1>3, <1>4, <1>5, <1>6, <1>7, <1>8 DEF Next, Handles, NullOrSlot

-----------------------------------------------------------------------------
(* The inductive invariant: every object has an owner that will free it,   *)
(* and until changes of the context's count have overlapped the count is   *)
(* the number of the users the context was told of.                        *)
THEOREM ObjectsInvariant == Spec => []ObjectsInv
<1>1. Init => ObjectsInv
  BY OwnersInit, CountInit DEF ObjectsInv
<1>2. ObjectsInv /\ [Next]_vars => ObjectsInv'
  BY OwnersStep, CountStep DEF ObjectsInv
<1> QED BY <1>1, <1>2, PTL DEF Spec

(* The context's count is never negative before a race, and neither is any *)
(* object's, ever.                                                         *)
THEOREM CountsNeverNegative == Spec => []TypeOK
<1>1. ObjectsInv => TypeOK
  <2> SUFFICES ASSUME OwnerInv, CountInv
               PROVE  TypeOK
    BY DEF ObjectsInv
  <2>1. ~raced => refcount >= 0
    <3>1. UserRefs \in Nat
      BY UsersThere
    <3>2. Cardinality(Told) \in Nat
      BY ToldFinite DEF Told, Live
    <3>3. ~raced => refcount = UserRefs + Cardinality(Told)
      BY DEF CountInv, Told
    <3> QED BY <3>1, <3>2, <3>3
  <2> QED BY <2>1 DEF OwnerInv, Types, TypeOK
<1> QED BY <1>1, ObjectsInvariant, PTL

(* udev_device_free may free the parent without a look at its count.       *)
THEOREM ParentHasOneOwner == Spec => []SoleOwner
<1>1. ObjectsInv => SoleOwner
  <2> SUFFICES ASSUME OwnerInv, NEW s \in Staying,
                      objs[s].parent # NoSlot, ~objs[s].parentRef
               PROVE  LET p == objs[s].parent
                      IN  /\ objs[p].kind = "parent" /\ objs[p].rc = 1 /\ held[p] = 0
                          /\ \A x \in Live \ (Doomed \cup {s}) :
                                 objs[x].parent = p => objs[x].parentRef
    BY DEF ObjectsInv, SoleOwner, Staying
  <2> DEFINE p == objs[s].parent
  <2>1. p \in Slots /\ Owns(s, p)
    BY DEF OwnerInv, Types, Object, Staying, Live, Owns
  <2>2. p \in Staying /\ objs[p].kind = "parent" /\ held[p] = 0
    BY <2>1, FreedFields DEF OwnerInv
  <2>3. objs[p].rc = 1
    BY <2>2 DEF OwnerInv, Owners, Counted
  <2> HIDE DEF p
  <2>4. ASSUME NEW x \in Live \ (Doomed \cup {s}), objs[x].parent = p
        PROVE  objs[x].parentRef
    <3>1. x \in Staying /\ x # s
      BY DEF Staying
    <3>2. ~Owns(x, p)
      BY <2>1, <3>1 DEF OwnerInv, Owners, OneOwner
    <3> QED BY <2>4, <3>2 DEF Owns
  <2> QED BY <2>2, <2>3, <2>4 DEF p
<1> QED BY <1>1, ObjectsInvariant, PTL

(* What the application refers to is never freed under it.                 *)
THEOREM HeldIsNeverFreed == Spec => []HeldIsLive
<1>1. ObjectsInv => HeldIsLive
  BY DEF ObjectsInv, OwnerInv, Owners, HeldStays, Counted, HeldIsLive, Staying
<1> QED BY <1>1, ObjectsInvariant, PTL

(* As long as no two changes of its count have overlapped, the context     *)
(* counts its users and outlives them.                                     *)
THEOREM ContextOutlivesUsers == Spec => []ContextAccounting
<1>1. ObjectsInv => ContextAccounting
  <2> SUFFICES ASSUME OwnerInv, CountInv, ~raced
               PROVE  /\ Quiet => refcount = uctx + Cardinality(Live)
                      /\ uctx > 0 \/ Live # {} => ~freed
    BY DEF ObjectsInv, ContextAccounting
  <2>1. /\ refcount = UserRefs + Cardinality(Told) /\ (freed <=> refcount = 0)
    BY DEF CountInv, Told
  <2>2. ASSUME Quiet PROVE refcount = uctx + Cardinality(Live)
    <3>1. Pending(App) = {} /\ Pending(Receiver) = {}
      BY <2>2, ThreadsAre, ItemsEmpty DEF Quiet, Pending, Items
    <3>2. Told = Live
      BY <3>1, UntoldIs DEF Told
    <3>3. UserRefs = uctx
      BY <3>1 DEF UserRefs, OwnerInv, Types
    <3> QED BY <2>1, <3>2, <3>3
  <2>3. /\ UserRefs \in Nat /\ (uctx > 0 => UserRefs > 0)
        /\ \A t \in Threads : \A s \in NullOrSlot :
               Item("ref", s) \in Pending(t) \/ Item("unref", s) \in Pending(t)
                   => UserRefs + Cardinality(Told) > 0
    BY UsersThere
  <2>4. Cardinality(Told) \in Nat /\ (Told # {} => Cardinality(Told) > 0)
    BY ToldFinite DEF Told, Live
  <2>5. ASSUME uctx > 0 \/ Live # {} PROVE ~freed
    <3>1. CASE uctx > 0
      BY <2>1, <2>3, <2>4, <3>1
    <3>2. CASE Told # {}
      <4>1. Cardinality(Told) \in Nat /\ Cardinality(Told) > 0
        BY <2>4, <3>2
      <4>2. UserRefs \in Nat
        BY <2>3
      <4>3. UserRefs + Cardinality(Told) > 0
        BY <4>1, <4>2
      <4>4. refcount > 0
        BY <2>1, <4>3
      <4> QED BY <2>1, <4>4
    <3>3. CASE Live # {} /\ Told = {}
      <4>1. PICK s \in Live : s \in Untold
        BY <3>3 DEF Told
      <4>2. PICK t \in Threads : Item("ref", s) \in Pending(t)
        BY <4>1 DEF Untold
      <4>3. s \in NullOrSlot
        BY <4>1, ThreadsAre DEF Live
      <4>4. UserRefs + Cardinality(Told) > 0
        BY <2>3, <4>2, <4>3
      <4> QED BY <2>1, <2>3, <2>4, <4>4
    <3> QED BY <2>5, <3>1, <3>2, <3>3
  <2> QED BY <2>2, <2>5
<1> QED BY <1>1, ObjectsInvariant, PTL

(* An application that has given back all it was given leaves nothing.     *)
THEOREM AllIsFreed == Spec => []NothingLeaks
<1>1. ObjectsInv => NothingLeaks
  <2> SUFFICES ASSUME OwnerInv, CountInv
               PROVE  NothingLeaks
    BY DEF ObjectsInv
  <2>1. ASSUME Quiet, uctx = 0, \A s \in Slots : held[s] = 0
        PROVE  Live = {} /\ (raced \/ freed)
    <3>1. Pending(App) = {} /\ Pending(Receiver) = {}
      BY <2>1, ThreadsAre, ItemsEmpty DEF Quiet, Pending, Items
    <3>2. Staying = Live /\ Live \subseteq Slots
      BY <3>1, ThreadsAre DEF Staying, Doomed, Live
    <3>3. queue = <<>> /\ Items(queue) = {}
      <4>1. queue = <<>>
        BY <2>1, <3>1, <3>2 DEF OwnerInv, QueueOwned
      <4> QED BY <4>1, ItemsEmpty
    <3>4. \A s \in Live : objs[s].kind = "parent" /\ \E x \in Live : Owns(x, s)
      BY <2>1, <3>1, <3>2, <3>3 DEF OwnerInv, Owners, Owned
    <3>5. \A x \in Live : \A s \in Slots : Owns(x, s) => objs[x].kind = "device"
      BY <3>2, FreedFields DEF OwnerInv
    <3>6. Live = {}
      BY <3>2, <3>4, <3>5
    <3>7. Live \ Untold = {} /\ Cardinality(Live \ Untold) = 0
      BY <3>6, FS_EmptySet
    <3>8. UserRefs = 0
      BY <2>1, <3>1 DEF UserRefs
    <3>9. ~raced => freed
      BY <3>7, <3>8 DEF CountInv
    <3> QED BY <3>6, <3>9
  <2>2. nullFds \subseteq {s \in Slots : held[s] > 0}
    BY DEF OwnerInv, DescriptorsHeld, Types
  <2> QED BY <2>1, <2>2 DEF NothingLeaks
<1> QED BY <1>1, ObjectsInvariant, PTL
=============================================================================
