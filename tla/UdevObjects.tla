---------------------------- MODULE UdevObjects ----------------------------
(***************************************************************************)
(* Who keeps what alive: the context (src/udev.c), the monitors,           *)
(* enumerators and queues that refer to it, the devices                    *)
(* (src/udev-device.c), and the parent that a device's create handler may  *)
(* have made for it.                                                       *)
(*                                                                         *)
(* A parent belongs to its device, which frees it without a look at its    *)
(* reference count, until the application asks for it: from then on it is  *)
(* the application's (flags.parent_ref).  The application modelled here    *)
(* gives back each reference it was given, once, and asks a device for its *)
(* parent once, as what it got then may be gone the second time.           *)
(*                                                                         *)
(* A queue (src/udev-queue.c) is of no use but for a descriptor that is    *)
(* never readable: /dev/null, opened when it is first asked for.           *)
(*                                                                         *)
(* The reference count of the context is a plain int that the application  *)
(* and the monitor's thread both change.  "++" and "--" are a load and a   *)
(* store, between which the other thread may run.                          *)
(***************************************************************************)
EXTENDS Integers, Sequences, FiniteSets

CONSTANTS
    Slots,    \* where objects are allocated
    NoSlot,   \* a null pointer
    App,      \* the application's thread
    Receiver, \* the monitor's thread
    Idle,     \* no value loaded
    MaxRefs,  \* bound: references the application holds to one object
    MaxCount  \* bound: the count of the context, which a race lets grow

ASSUME ObjectsAssumption ==
    /\ NoSlot \notin Slots /\ IsFiniteSet(Slots) /\ App # Receiver
    /\ Idle \notin Int
    /\ MaxRefs \in Nat \ {0} /\ MaxCount \in Nat

Threads == {App, Receiver}
Kinds == {"none", "enumerate", "monitor", "queue", "device", "parent"}
Object == [kind : Kinds, rc : Nat, parent : Slots \cup {NoSlot},
           parentRef : BOOLEAN]

(* What a thread still has to do to the context and to the queue in the    *)
(* call it is in.                                                          *)
Work == [op : {"ref", "unref", "queue", "drop"}, slot : Slots \cup {NoSlot}]

VARIABLES
    refcount, \* udev->refcount
    freed,    \* the context has been freed
    uctx,     \* references of the application to the context
    objs,     \* the objects; those of kind "none" are not allocated
    held,     \* references of the application to each object
    queue,    \* the devices in the monitor's queue
    nullFds,  \* the queues that have opened /dev/null
    todo,     \* what each thread still has to do
    loaded,   \* the reference count a thread has loaded and not yet stored
    raced     \* both threads have been in the middle of a change at once

context == <<refcount, freed>>
registers == <<loaded, raced>>
vars == <<context, uctx, objs, held, queue, nullFds, todo, registers>>

Free == [kind |-> "none", rc |-> 0, parent |-> NoSlot, parentRef |-> FALSE]
New(kind, parent) ==
    [kind |-> kind, rc |-> 1, parent |-> parent, parentRef |-> FALSE]

Live == {s \in Slots : objs[s].kind # "none"}
Quiet == \A t \in Threads : todo[t] = <<>>

Item(op, s) == [op |-> op, slot |-> s]
Do(op, s) == <<Item(op, s)>>

(* udev_new.                                                               *)
Init ==
    /\ refcount = 1 /\ freed = FALSE /\ uctx = 1
    /\ objs = [s \in Slots |-> Free]
    /\ held = [s \in Slots |-> 0]
    /\ queue = <<>> /\ nullFds = {}
    /\ todo = [t \in Threads |-> <<>>]
    /\ loaded = [t \in Threads |-> Idle] /\ raced = FALSE

-----------------------------------------------------------------------------
(* A call of thread t begins, with what it has to do.  What a call does    *)
(* with a context that has been freed is not defined, nor modelled.        *)

Begin(t, work) ==
    /\ todo[t] = <<>> /\ ~freed /\ refcount <= MaxCount
    /\ todo' = [todo EXCEPT ![t] = work]
    /\ UNCHANGED <<context, registers>>

RefContext ==
    /\ uctx \in 1..MaxRefs - 1
    /\ Begin(App, Do("ref", NoSlot))
    /\ uctx' = uctx + 1
    /\ UNCHANGED <<objs, held, queue, nullFds>>

UnrefContext ==
    /\ uctx > 0
    /\ Begin(App, Do("unref", NoSlot))
    /\ uctx' = uctx - 1
    /\ UNCHANGED <<objs, held, queue, nullFds>>

(* udev_enumerate_new, udev_queue_new, udev_monitor_new_from_netlink.      *)
NewHandle(s, kind) ==
    /\ uctx > 0 /\ s \notin Live
    /\ kind = "monitor" => \A m \in Live : objs[m].kind # "monitor"
    /\ Begin(App, Do("ref", s))
    /\ objs' = [objs EXCEPT ![s] = New(kind, NoSlot)]
    /\ held' = [held EXCEPT ![s] = 1]
    /\ UNCHANGED <<uctx, queue, nullFds>>

(* udev_device_new_common; the handler makes a parent, or finds no reason  *)
(* or no memory to make one.                                               *)
Made(s, p) ==
    [x \in Slots |-> CASE x = s -> New("device", p)
                       [] x = p -> New("parent", NoSlot)
                       [] OTHER -> objs[x]]

(* Refuted by TypeOK: a parent is made without a reference.                *)
NewWorkForgetsParent(s, p) == Do("ref", s)

NewWork(s, p) == Do("ref", s) \o (IF p = NoSlot THEN <<>> ELSE Do("ref", p))

(* Refuted by SoleOwner: a device made later is given a parent that there  *)
(* is already.                                                             *)
NewDeviceSharesParent(s, p) ==
    /\ uctx > 0 /\ s \notin Live
    /\ \/ /\ p \notin Live /\ p # s
          /\ Begin(App, NewWork(s, p))
          /\ objs' = Made(s, p)
       \/ /\ p \in Live /\ objs[p].kind = "parent"
          /\ Begin(App, Do("ref", s))
          /\ objs' = [objs EXCEPT ![s] = New("device", p)]
    /\ held' = [held EXCEPT ![s] = 1]
    /\ UNCHANGED <<uctx, queue, nullFds>>

NewDevice(s, p) ==
    /\ uctx > 0 /\ {s, p} \cap Live = {} /\ s # p
    /\ Begin(App, NewWork(s, p))
    /\ objs' = Made(s, p)
    /\ held' = [held EXCEPT ![s] = 1]
    /\ UNCHANGED <<uctx, queue, nullFds>>

(* udev_monitor_send_device.                                               *)
SendDevice(s, p) ==
    /\ \E m \in Live : objs[m].kind = "monitor" /\ held[m] > 0
    /\ {s, p} \cap Live = {} /\ s # p
    /\ Begin(Receiver, NewWork(s, p) \o Do("queue", s))
    /\ objs' = Made(s, p)
    /\ UNCHANGED <<uctx, held, queue, nullFds>>

ReceiveDevice(s) ==
    /\ todo[App] = <<>> /\ queue # <<>> /\ s = Head(queue)
    /\ queue' = Tail(queue)
    /\ held' = [held EXCEPT ![s] = 1]
    /\ UNCHANGED <<context, uctx, objs, nullFds, todo, registers>>

Ref(s) ==
    /\ todo[App] = <<>> /\ held[s] \in 1..MaxRefs - 1
    /\ objs' = [objs EXCEPT ![s].rc = @ + 1]
    /\ held' = [held EXCEPT ![s] = @ + 1]
    /\ UNCHANGED <<context, uctx, queue, nullFds, todo, registers>>

(* udev_device_get_parent, or udev_device_get_parent_with_subsystem_devtype*)
(* where it finds the parent it is asked for.                              *)

(* Refuted by HeldIsLive: the parent still belongs to the device.          *)
GetParentKeepsOwner(s) ==
    /\ todo[App] = <<>> /\ held[s] > 0
    /\ objs[s].parent # NoSlot /\ ~objs[s].parentRef
    /\ held' = [held EXCEPT ![objs[s].parent] = 1]
    /\ UNCHANGED <<context, uctx, objs, queue, nullFds, todo, registers>>

GetParent(s) ==
    /\ todo[App] = <<>> /\ held[s] > 0
    /\ objs[s].parent # NoSlot /\ ~objs[s].parentRef
    /\ objs' = [objs EXCEPT ![s].parentRef = TRUE]
    /\ held' = [held EXCEPT ![objs[s].parent] = 1]
    /\ UNCHANGED <<context, uctx, queue, nullFds, todo, registers>>

(* udev_queue_get_fd; the open may fail, and is tried again the next time. *)
GetFd(s) ==
    /\ todo[App] = <<>> /\ held[s] > 0 /\ objs[s].kind = "queue"
    /\ s \notin nullFds /\ nullFds' = nullFds \cup {s}
    /\ UNCHANGED <<context, uctx, objs, held, queue, todo, registers>>

(* Refuted by NothingLeaks: a device does not free its parent.             *)
FreeWorkLeavesParent(s) == Do("unref", s)

(* udev_device_free: the parent, if it is still the device's, goes first.  *)
FreeWork(s) ==
    (IF objs[s].parent # NoSlot /\ ~objs[s].parentRef
     THEN Do("unref", objs[s].parent) ELSE <<>>) \o Do("unref", s)

(* A queue closes its descriptor with the last reference.                  *)
CloseNull(s) ==
    nullFds' = IF objs[s].rc = 1 THEN nullFds \ {s} ELSE nullFds

(* udev_device_unref, udev_enumerate_unref, udev_queue_unref,              *)
(* udev_monitor_unref.                                                     *)
Unref(s) ==
    /\ held[s] > 0
    /\ held' = [held EXCEPT ![s] = @ - 1]
    /\ objs' = [objs EXCEPT ![s].rc = @ - 1]
    /\ IF objs[s].rc > 1 THEN Begin(App, <<>>)
       ELSE IF objs[s].kind = "monitor"
       THEN /\ todo[Receiver] = <<>>   \* pthread_join
            /\ Begin(App, Do("drop", s))
       ELSE Begin(App, FreeWork(s))
    /\ CloseNull(s)
    /\ UNCHANGED <<uctx, queue>>

-----------------------------------------------------------------------------
(* The parts of a call.                                                    *)

Load(t) ==
    /\ todo[t] # <<>> /\ Head(todo[t]).op \in {"ref", "unref"}
    /\ loaded[t] = Idle
    /\ loaded' = [loaded EXCEPT ![t] = refcount]
    /\ raced' = (raced \/ \E u \in Threads : loaded[u] # Idle)
    /\ UNCHANGED <<context, uctx, objs, held, queue, nullFds, todo>>

Finish(t) == todo' = [todo EXCEPT ![t] = Tail(@)]

StoreRef(t) ==
    /\ todo[t] # <<>> /\ Head(todo[t]).op = "ref" /\ loaded[t] # Idle
    /\ refcount' = loaded[t] + 1
    /\ loaded' = [loaded EXCEPT ![t] = Idle]
    /\ Finish(t)
    /\ UNCHANGED <<freed, uctx, objs, held, queue, nullFds, raced>>

(* Refuted by ContextAccounting: one reference is still there.             *)
StoreUnrefAtOne(t) ==
    /\ todo[t] # <<>> /\ Head(todo[t]).op = "unref" /\ loaded[t] # Idle
    /\ refcount' = loaded[t] - 1
    /\ freed' = (freed \/ refcount' <= 1)
    /\ objs' = [s \in Slots |-> IF s = Head(todo[t]).slot THEN Free ELSE objs[s]]
    /\ loaded' = [loaded EXCEPT ![t] = Idle]
    /\ Finish(t)
    /\ UNCHANGED <<uctx, held, queue, nullFds, raced>>

(* The context is freed with its last reference; an object, after that.    *)
StoreUnref(t) ==
    /\ todo[t] # <<>> /\ Head(todo[t]).op = "unref" /\ loaded[t] # Idle
    /\ refcount' = loaded[t] - 1
    /\ freed' = (freed \/ refcount' = 0)
    /\ objs' = [s \in Slots |-> IF s = Head(todo[t]).slot THEN Free ELSE objs[s]]
    /\ loaded' = [loaded EXCEPT ![t] = Idle]
    /\ Finish(t)
    /\ UNCHANGED <<uctx, held, queue, nullFds, raced>>

Enqueue(t) ==
    /\ todo[t] # <<>> /\ Head(todo[t]).op = "queue"
    /\ queue' = Append(queue, Head(todo[t]).slot)
    /\ Finish(t)
    /\ UNCHANGED <<context, uctx, objs, held, nullFds, registers>>

(* udev_monitor_queue_drop, and then the monitor itself.                   *)
DropDevice(t) ==
    /\ todo[t] # <<>> /\ Head(todo[t]).op = "drop" /\ queue # <<>>
    /\ LET d == Head(queue)
           work == IF objs[d].rc > 1 THEN <<>> ELSE FreeWork(d)
       IN /\ objs' = [objs EXCEPT ![d].rc = @ - 1]
          /\ todo' = [todo EXCEPT ![t] = work \o @]
    /\ queue' = Tail(queue)
    /\ UNCHANGED <<context, uctx, held, nullFds, registers>>

EndDrop(t) ==
    /\ todo[t] # <<>> /\ Head(todo[t]).op = "drop" /\ queue = <<>>
    /\ todo' = [todo EXCEPT ![t] = Do("unref", Head(@).slot) \o Tail(@)]
    /\ UNCHANGED <<context, uctx, objs, held, queue, nullFds, registers>>

Next ==
    \/ RefContext \/ UnrefContext
    \/ \E s \in Slots : \/ NewHandle(s, "enumerate") \/ NewHandle(s, "monitor")
                        \/ NewHandle(s, "queue") \/ GetFd(s)
                        \/ Ref(s) \/ GetParent(s) \/ Unref(s)
                        \/ ReceiveDevice(s)
    \/ \E s \in Slots, p \in Slots \cup {NoSlot} :
           NewDevice(s, p) \/ SendDevice(s, p)
    \/ \E t \in Threads : \/ Load(t) \/ StoreRef(t) \/ StoreUnref(t)
                          \/ Enqueue(t) \/ DropDevice(t) \/ EndDrop(t)

Spec == Init /\ [][Next]_vars

-----------------------------------------------------------------------------

(* The count of the context never falls below zero, as long as no two      *)
(* changes of it have overlapped.                                          *)
TypeOK ==
    /\ refcount \in Int /\ (raced \/ refcount >= 0) /\ raced \in BOOLEAN
    /\ freed \in BOOLEAN /\ uctx \in 0..MaxRefs
    /\ objs \in [Slots -> Object] /\ held \in [Slots -> 0..MaxRefs]
    /\ queue \in Seq(Slots) /\ nullFds \subseteq Slots
    /\ todo \in [Threads -> Seq(Work)] /\ loaded \in [Threads -> Int \cup {Idle}]

(* The slots a thread is about to free.                                    *)
Pending(t) == {todo[t][i] : i \in DOMAIN todo[t]}
Doomed ==
    {s \in Slots : \E t \in Threads : \E op \in {"unref", "drop"} :
        Item(op, s) \in Pending(t)}

(* udev_device_free frees the parent without a look at its reference       *)
(* count.  It may: a parent that was never asked for belongs to one device *)
(* only, and nobody else has a reference to it.                            *)
SoleOwner ==
    \A s \in Live \ Doomed :
        LET p == objs[s].parent
        IN p # NoSlot /\ ~objs[s].parentRef =>
               /\ objs[p].kind = "parent" /\ objs[p].rc = 1 /\ held[p] = 0
               /\ \A x \in Live \ (Doomed \cup {s}) :
                      objs[x].parent = p => objs[x].parentRef

(* What the application holds references to is allocated, and its count    *)
(* is the number of the application's references: a device's end does not  *)
(* take away the parent the application has asked it for.                  *)
HeldIsLive ==
    \A s \in Slots : held[s] > 0 =>
        s \in Live \ Doomed /\ objs[s].rc = held[s]

(* The count of the context is a plain int: what is said of it below holds *)
(* as long as the threads have not both been in the middle of a change.    *)
(* Then, between calls, it is the number of the context's users: the       *)
(* application's references, and one for each object there is; and the     *)
(* context is there as long as anything refers to it, whatever is given    *)
(* back first.                                                             *)
ContextAccounting ==
    ~raced =>
        /\ Quiet => refcount = uctx + Cardinality(Live)
        /\ uctx > 0 \/ Live # {} => ~freed

(* An application that has given back all it was given leaves no object    *)
(* behind, neither parent nor device of the queue, even after a race, and  *)
(* without one no context; and no descriptor, which a queue keeps open as  *)
(* long as it is referred to.                                              *)
NothingLeaks ==
    /\ Quiet /\ uctx = 0 /\ (\A s \in Slots : held[s] = 0)
           => Live = {} /\ (raced \/ freed)
    /\ nullFds \subseteq {s \in Slots : held[s] > 0}
=============================================================================
