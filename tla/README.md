# A TLA+ model of libudev-devd

libudev-devd gives FreeBSD programs the interface of libudev on top of devd(8):
an application enumerates the devices of the machine and then follows devd's
notices through a file descriptor it can poll.  This directory holds TLA+
modules translated from the C sources in `src/`, the TLC configurations that
check them on small instances, and proofs, checked by TLAPS, about the monitor, the
filter, the session of an application, the walk of `/dev`, the create handlers and the
encoder of names.

All line numbers are those of `src/` at the commit these modules stand beside.

## 1. Inventory

| Component | Source | State | Operations |
|---|---|---|---|
| Monitor | `udev-monitor.c` | `refcount`, filters, the wake-up pipe `fds`, `queue` under `mtx`, the thread; in the thread `devd_fd`, `revents`, `ev`, `syspath` | new, filter_add_*, enable_receiving, receive_device, ref, unref; the thread's loop: connect, poll, receive, parse, match, send |
| Filter | `udev-filter.c` | a list of entries | add, match (two walks of the list), free |
| Context, devices | `udev.c`, `udev-device.c` | reference counts; a device's lists, parent and `parent_ref` | new, ref, unref, get_parent, getters |
| Enumerator | `udev-enumerate.c` | `dev_list`, filters | scan_devices, add_syspath, get_list_entry |
| Lists | `udev-list.c`, `tree.h` | a rank-balanced tree of entries sorted by name, four in a device, one in an enumerator | insert (replaces), free, get_first, get_next, get_by_name |
| Directory walk | `utils.c` | a path buffer shared by all levels, `off` and `rem` of each | scandir_recursive |
| Subsystem table, evdev gate | `udev-utils.c` | the static table; a static `enabled` | get_subsystem_by_syspath, invoke_create_handler, kernel_has_evdev_enabled |
| Providers | `udev-dev.c`, `udev-sys.c`, `udev-pci.c`, `udev-net.c` | none | enumerate, monitor (parse a message), create handlers |
| Encoding | `utils-gpl.c` | none | encode_devnode_name |
| Queue, hwdb | `udev-queue.c`, `udev-hwdb.c` | a reference count; of the queue a descriptor of `/dev/null` | new, ref, unref, get_fd; constants |
| Application | `udev-test.c` | what it believes is attached | new, enable, scan, loop of receive |

How they interact.  `udev_monitor_enable_receiving` starts a thread.  The thread
polls devd's socket and the *writing* end of the wake-up pipe; it takes a message
apart with the providers, asks the filter, which may make a temporary device to
look at its properties, makes the device, appends it to the queue under the mutex
and writes one byte into the pipe.  The application polls the reading end; a
receiver reads a byte, looks at the queue without the mutex, takes the mutex and
removes the first device.  The last `udev_monitor_unref` closes the reading end,
which the thread's poll or its blocked write notices, joins the thread, closes the
writing end and frees the rest.  Everything made refers to the context, whose
count is a plain `int`; the thread and the application both change it.

What is hard here:

* the queue and the pipe are two channels that must agree, with a blocking write,
  a blocking read, a test outside the lock and any number of receivers;
* the teardown, which joins a thread that may be blocked in any of its calls;
* devd, which stops, restarts, hangs up with data in flight and repeats nothing;
* filters that are appended to and walked at the same time without a lock;
* who owns a device's parent, and the context's count that two threads change;
* a scan that is no snapshot, combined with events that are late;
* a tree whose balance is kept in the low bits of its parent pointers, changed while
  it is walked: by the walk itself when a list is freed, by the application when it
  adds a path or sets an attribute in the middle of an iteration;
* text that is not what it says it is: names cut off in the middle of a character,
  and a buffer that just fits;
* failures in the middle: of the write, of an allocation, of a provider.

The properties that make each component correct are the ones in section 4; the
complete list of hazards with their lines is in `PROJECT.json`.

## 2. Modules

| Module | Models | Used by |
|---|---|---|
| `EventChannel` | what a monitor promises: events are announced one at a time, and taken once, in order | `UdevMonitor` implements it, `HotplugSession` builds on it |
| `UdevMonitor` | the monitor, its thread, its receivers, devd's connection, the teardown | `MCUdevMonitor`, `UdevMonitorProofs` |
| `UdevFilter` | the filter's list and its walk | `MCUdevFilter`, `UdevFilterProofs` |
| `SubsystemTable` | the table of subsystems, in its order | `HotplugSession`, `EvdevGate` |
| `Providers` | what each provider enumerates, and what it reads from a message | `HotplugSession` |
| `HotplugSession` | an application that follows the machine, over `EventChannel` | `MCHotplugSession`, `HotplugSessionProofs` |
| `UdevObjects` | references and ownership | `MCUdevObjects`, `UdevObjectsProofs` |
| `SortedList` | what a list promises: names in order, each once | `UdevList` implements it |
| `RankTree` | the rank-balanced tree and the turns that restore its ranks | `UdevList` |
| `UdevList` | the operations of a list, over the tree | `UdevEnumerate` |
| `UdevEnumerate` | a scan into a list | `ListOwners` |
| `ListOwners` | whose list it is: an enumerator's, or a device's | `MCListOwners`, `ListOwnersProofs` |
| `ScanDir` | the walk of `/dev` | `MCScanDir`, `ScanDirProofs` |
| `EvdevGate` | the cached answer about evdev, and who is turned back | `CreateHandlers` |
| `CreateHandlers` | how input and hidraw devices are made, on top of `EvdevGate` | `MCCreateHandlers`, `CreateHandlersProofs` |
| `EncodeName` | `udev_util_encode_string` with either of its bodies | `MCEncodeName`, `EncodeNameProofs` |
| `UdevMonitorProofs`, `UdevFilterProofs`, `HotplugSessionProofs`, `UdevObjectsProofs`, `ListOwnersProofs`, `ScanDirProofs`, `CreateHandlersProofs`, `EncodeNameProofs` | theorems (section 5) | |

### UdevMonitor

| Variable | Code |
|---|---|
| `opc` | where the owner is: before `udev_monitor_new_from_netlink`, using the monitor, or in the steps of `udev_monitor_unref` (301-313) |
| `refcount`, `filters`, `queue` | the fields of `struct udev_monitor`; a filter is the kind of device it asks for, or a tag |
| `rdOpen`, `wrOpen`, `pipe` | `um->fds` and the bytes between them |
| `tpc`, `devdFd`, `revents`, `msg` | the thread: its place in `udev_monitor_thread` (134-212), `devd_fd`, `fds[1].revents`, `ev` |
| `devdUp`, `conn`, `sock`, `sent` | devd and the connection, outside the library |
| `rpc`, `delivered` | each caller of `udev_monitor_receive_device` (64-84), and the devices handed out |
| `live` | the devices `udev_monitor_send_device` (86-116) has allocated |
| `faults`, `hangups` | how often the environment has failed |

A step lies between two points at which another actor can see or change what it
uses: a system call, a critical section of `mtx`, or the unlocked `STAILQ_EMPTY`
of line 73.  `Insert`, `Write`, `Undo` are the three parts of
`udev_monitor_send_device`; `Receive`, `ReadToken`, `Check`, `Pop` those of
`udev_monitor_receive_device`; `CloseRead`, `Join`, `CloseWrite`, `Free` those of
the last unref.  `PollFinishing` is the POLLHUP that FreeBSD reports on the
writing end of a pipe whose reading end is closed; `PollRespawn` is the branch
`ret == 0 || devd_fd < 1`; `Hup` is the look at POLLHUP at the end of a round.
A message is a number and a kind; which kinds a provider understands is the
constant `Deliverable`.

Contracts of the caller that the model takes over: receiving is enabled once, and
no receiver is inside the library when the last reference is given up.

### The others

*UdevFilter* takes one entry of the list per step, because the thread walks while
the application appends.  A pattern is the set of strings it matches.  `HaveDevice`
is the temporary device of lines 150-165, which may fail to be made.  `Wanted` is
the reference definition of a match, for a fixed list.

*HotplugSession* composes the kernel, devd, the connection, the monitor as an
`EventChannel`, and an application in the order of calls of `udev-test.c`.
`AwaitConnect` says whether the application waits, before it scans, until the
thread is connected; the library offers no way to.  A message is parsed by
`Providers!ParseDevdMessage`, a path judged by `SubsystemTable` and the
application's subsystems, and the scan asks the four providers in their order,
device by device, while the kernel goes on.  A device and devd's message about it
appear in one step, and the scan does not fail (`UdevEnumerate` has its failures).

*Providers* and *SubsystemTable* have no state.  A name is a value with a length
and the property names that are part of it, because `get_kern_prop_value` looks at
the first occurrence only; a pattern of the table is a directory and the family of
names it is about.

*UdevObjects*: a call takes effect on the objects at once and leaves a list of
changes of the context's count to do; each of these is a load and a store, between
which the other thread may run.  `raced` notes that both threads have been between
a load and a store at the same time.  The last unref of a monitor drops the devices of
its queue one by one (`DropDevice`) before it frees the monitor (`EndDrop`), and each
device dropped puts what its end has to do in front.  The application asks a device for its parent
once and gives back what it got once.

Among the objects are the queues, which open `/dev/null` when they are first asked for
a descriptor.

*RankTree* writes once, with the side as a parameter, what `tree.h` writes down for
the left and again for the right.  A node is a number, its place in the order of
`strcmp`; the two low bits of a parent pointer are the set of the sides whose edge is
red.  The walks down and up the tree are recursive functions.  The loops of
`RB_INSERT_COLOR` and `RB_REMOVE_COLOR` change the tree on their way up, and each of
their turns (`Raised`, `Lowered`) is a step, with `raise`, or `parent` and `elm`, for
where the loop has come to; `LowerLeaf` is what `RB_REMOVE_COLOR` does before its loop,
`Removed` the cases of `RB_REMOVE`, of which `Inherited` is the one in which the
successor takes over.

*UdevList*: `udev_list_insert` takes out an entry of the same name (`ListInsert`) and
puts in the new one (`Enter`); `udev_list_free` is one step per entry, which it takes out
of the tree before it goes on from the next one; after each of these come the turns that
restore the ranks (`Recolor`).  A call begins when the one before has ended (`Idle`), for
the application uses a list from one thread.  The
iteration of the application is the entry it holds (`cursor`); `missed` and `stale`
are history.  Where the application may change a list that it iterates over is in
`UdevEnumerate` (paths added to an enumerator) and `ListOwners` (attributes set on a
device).  `live` are the entries allocated, apart from the tree that should hold them.

*UdevEnumerate*: `Providers` are the sets of paths that dev, sys, pci and net show, in
any order; any of them may fail at any path.

*EncodeName* works on bytes, for what it is about is their encoding.  `At` gives the
terminator behind the string; the buffer is what was written from its start, also
behind its end.

*ScanDir*: a tree has the directories on the way to each of its paths
(`ScanAssumption`); the buffer is the sequence of components it holds, the lengths are
those of the names; `off` and `rem` are kept for each level as in the code.

*EvdevGate*: several threads in `get_subsystem_by_syspath`, the static variable
without a lock, and a length for `sysctlbyname` that is whatever was on the stack.
The call and the store of its answer are one step (`Ask`): with a length that is large
enough every thread stores the same answer, whenever it does.

*CreateHandlers* goes on where the gate lets a device through.  `table` is the
process's descriptors, which the application and the handlers of both threads
open and close; `fd` and `opened` are the locals of `create_evdev_handler` and
`create_hidraw_handler`.  An evdev device is described from `sysctl` or from
queries through a descriptor, opened or borrowed (`path_to_fd`); `Classify` is the
decision of lines 349-419 over one bit for each that is tested alone and one for
the rest of each range.  A query may fail on any descriptor, also on the one the
handler has just opened (`QueryFails`, lines 334-344 and 667-672); a device may be of
no type (`Describe` with "none", line 419), and there may be no memory for a parent,
which only `create_hidraw_handler` gives up for (`NoParent`, line 678).  Each of these
is a `goto bail_out`, which is `Close`.

## 3. Runs and bounds

| Run | Module | States | Shows |
|---|---|---|---|
| `MonitorSafety` | MCUdevMonitor | 807 thousand | two receivers, three events, a one-byte pipe, two references, one failure, one hangup |
| `MonitorLiveness` | MCUdevMonitor | 129 thousand | one receiver, two kinds, two events, under fairness |
| `MonitorStdinClosed` | MCUdevMonitor | violation | finding F1 |
| `FilterMatch` | MCUdevFilter | 99 thousand | eight entries of every kind, lists up to three, three devices, one failed allocation |
| `HotplugAwaited` | MCHotplugSession | 1.4 million | five devices, present or not, three changes, any moment for each |
| `HotplugEarlyScan` | MCHotplugSession | violation | finding F2 |
| `ObjectsThreads` | MCUdevObjects | 1.1 million | four objects, two references each, two threads |
| `ListTree` | MCListOwners | 930 thousand | eight names, four providers that may fail at any path, paths added and attributes set by hand |
| `ScanWalk` | MCScanDir | 7.9 thousand | four trees, eleven sizes of buffer, every order of readdir |
| `DeviceCreation` | MCCreateHandlers | 1.4 million | two threads (symmetric), four devices, three kernels, two descriptors that the application uses too, 95 sets of bits |
| `EvdevStack` | MCCreateHandlers | violation | finding F3 |
| `EncodeName` | MCEncodeName | 286 thousand | every string of up to three bytes out of fourteen, strings around every longer character, buffers of 0 to 13 bytes, with and without `enable-gpl` |

Why the bounds are enough.  A one-byte pipe is full after one event, so the
blocked write, which takes 16 thousand unread events in reality, happens at once;
with two receivers and three events one can be between its byte and its device
while the other takes either.  One hangup and one failure each meet every state of
the loop; three events let a message be in the socket, in the thread's hand and in
the queue at the same time.  Three filter entries are a positive and a negative of
one type plus one that is appended mid-walk.  Four objects are a monitor, a device
of the thread with its parent, and one more of the application's.  The buffers of
`ScanWalk` run from one in which hardly a name fits to one that never fills; the
lengths between meet each boundary of `len > rem` and `rem < 1`.  In `HotplugAwaited` one name
fits to the last byte and one is a byte too long, and three changes let a device
come, go and come again around its turn in the scan.  Eight names are the least with
which every case of rebalancing is met, the double rotations and the removal of a node
whose successor is far below it included; the names are inserted and replaced in every
order.  Three bytes hold a character of three, one that is cut off at any place and
whatever stands before it; the buffers run from none to more than the longest encoding.  Two descriptors are one to
be borrowed and one to be opened under a number that was closed.  The theorems of
section 5 do not depend on any of these bounds.

Deadlock is not checked: a monitor that was given up, an application with nothing
more to do and a bounded environment do stop.

## 4. What is checked

**Monitor.**  *WakeupAccounting*: while the application can read, each queued
device is matched by exactly one byte in the pipe, held by a receiver, or about to
be written.  *ReceiveFindsDevice*: hence a receiver with a byte is never turned
away and never takes from an empty queue, though it looks without the lock.
*InOrder*, *Ownership*: nothing is reordered, duplicated, leaked or freed twice,
the failed write included.  *SafeTeardown*, *UnrefCompletes*: nothing is freed
under the thread, and the join always ends.  *KeepsLiveConnection*: a stale
POLLHUP never closes a good socket.  *Reconnects*, *MessagesConsumed*,
*EventsReachReader*.  *ChannelSpec*: the monitor implements
`EventChannel`.

**Filter.**  *MatchIsLinearizable*: a match that runs while filters are added gives
the verdict of the list as it was at some moment of the call.
*PositivesFailClosed*: for want of memory a device is never accepted that an entry
asks to look into; the same is not true of entries that exclude, which are passed
over (line 206).  *TemporaryReleased*.

**Session.**  *PictureIsExact*, *DifferenceIsOnItsWay*, *PictureSettles*: an
application connected before its scan has, once nothing is under way, exactly the
devices of the machine; until then every difference is explained by a notice on
its way; and when the machine is quiet the picture becomes exact.  That puts the
enumeration and the parsing of each provider side by side: they must name the same
paths.  Each has its own limit for the length of a name (`ScanRoom` and `DevRoom`, which
come out equal), and a limit of either that is a byte off is refuted, for the properties
are about every path that the scan shows or a message tells.  There are two places
where the scan and the messages do not agree, and the properties except them
(`Followed`).  Devices of the PCI provider are enumerated and never reported,
because `udev_sys_monitor`, asked first, understands every attach and detach
message; and the messages about a device whose name holds the name of a property
cannot be read.

**Objects.**  *SoleOwner* is what makes it right that `udev_device_free` frees the
parent without a look at its count (line 342); *HeldIsLive* and *NothingLeaks* are
the application's side.  All three hold with the thread at any point.
*ContextAccounting*, that the count of the context is the number of its users and
that it outlives them, holds only as long as no two changes of the count overlap; drop the condition `~raced` and TLC shows, in a
few steps, `udev_enumerate_new` and the thread's `udev_device_new_common` losing
an update, and after it a context freed under its users.

**Lists.**  *ListSpec*: a list over its tree implements `SortedList`: names in order,
each once, and next is the next greater name there is, even if the tree has been
rebalanced under the entry the application holds.  *RankRule* is what `tree.h` says of
ranks and of the height, whatever was inserted, replaced and freed before.
*LookupsAgree*: the lookup through the tree and the walk through the list find the same
entry.  *TypeOK* includes that the entries allocated are the ones in the tree: none is
lost, none freed twice, and freeing a list ends with an empty one.
*ScanAllOrNothing*: the list after a scan is what all providers
show and the filters accept, or empty.  *IterationComplete*: an iteration gives
every name once and in order, also when other names are added meanwhile.

**Walk.**  *LevelsAgree*, *VisitsEntriesOnce*, *FailureReported*,
*VisitsAllUncut*: the levels share one buffer and restore what is theirs; nothing
is written past it; every entry that fits is shown once.  The exception is stated
in the property: a directory whose path leaves no byte for the `/` ends the walk of
the directory it is in with success (`break`, line 204), where a name too long is
passed over (`continue`, line 197); what `readdir` would have returned after it is
not shown.

**Evdev gate and create handlers.**  With a length large enough,
*SkippedIfEvdev*, *AcceptedIsBuilt*: whichever thread asks first,
all see the kernel's answer, the two lookups of one device agree, and without evdev
nothing is hidden.
*DescriptorsAccounted*: a handler closes what it has opened, on every way out: when it
is done, when a query of its own descriptor fails, when the device is of no type and
when there is no memory for the parent.  It closes nothing it has borrowed.  A `return`
where a query fails, in place of the `goto bail_out`, refutes it.  *DescribedAsItIs*: it describes its own device, and an
evdev device as what the handler of the legacy node would call it, as long as
nobody closes the descriptor it works with.  Without that condition TLC refutes
it: a descriptor borrowed from the application, or from the handler of another
thread, is closed and its number given to another device, which answers.

**Encoding.**  *Decodable*: the string can be read back from its encoding.
*KeepsOnlyText*: bytes above 127 come through just where they are the shortest encoding
of a character that may be in a text; the reference encodes the character
(`utf8_encode_unichar`) and compares.  *StaysInBuffer*: nothing is written behind the
buffer but the one byte that `sprintf` writes after an escape which just fits.

### Fairness

`MonitorLiveness` assumes `WF_vars(Scheduled)`: the system runs the thread when it
can run, which includes poll returning when a descriptor is ready or the timeout
has passed.  An interrupted poll is not in it: nothing obliges a signal to come.
`TeardownFairness`: a thread inside `udev_monitor_unref` goes on.
`ReaderFairness`: the application calls `udev_monitor_receive_device` again and
again, as the loop of `udev-test.c` does.  Nothing is assumed of devd or of the
owner.  The conditions in the properties name what else is needed: *Reconnects*
needs devd to stay up and the thread not to have left because of an error of poll
(line 176).  `HotplugSession` assumes the same of devd's broadcasts, the thread and
the application, and nothing of the kernel.

### Findings

* **F1** `MonitorStdinClosed`: `devd_fd < 1` (line 184) takes descriptor 0 for no
  socket, although the comment beside it speaks of the respawn timer and the other
  tests are `devd_fd < 0`.  A process that has closed descriptor 0 receives
  nothing and spins.
* **F2** `HotplugEarlyScan`: the comment in `udev-test.c` says that setting up the
  monitor before the scan makes sure nothing is missed.  The thread connects to
  devd some time after `udev_monitor_enable_receiving` has returned; a device
  attached between the scan and the connection is missed.
* **F3** `EvdevStack`: `kernel_has_evdev_enabled` hands `sysctlbyname` a length it
  never sets; with a small value it answers no, and devices that are to be skipped
  because evdev shows them are shown twice.

## 5. What is proved

None of the theorems depends on the bounds of a run: each holds for all values of the
constants that satisfy the named assumption of the module.

**Monitor** (`UdevMonitorProofs`): any finite set of receivers, any kinds, any
capacity of the pipe above zero and any bounds (`ConstantsAssumption`).
The inductive invariant is `MonitorInv == TypeOK /\ Phases /\ WakeupAccounting`.
`WakeupAccounting` is not inductive: it needs that the reading end is open exactly
in the phases "live" and "close", that receivers are idle in every other phase but
"live" (else the close of the pipe would strand one with a byte), and that a write
fails only when the reading end is closed for good, so that taking the device out
again does not disturb the count.  `Phases` says that and where the thread can be
in each phase.  Each step is one case of the proof; the count of receivers that
hold a byte is followed with the library's facts on cardinality.

* `MonitorInvariant`: `Spec => []MonitorInv`; from it `TypeCorrect`,
  `WakeupsMatchDevices`, `ReceiversFindDevice`, `TeardownIsSafe`.
* `LiveConnectionKept` (*KeepsLiveConnection*): that the thread closes no connection
  that still is up rests on `Noted`: while the thread is between poll and the end of its
  iteration and devd has kept the connection, no hang-up was noted, and a readable socket
  has a message.
* `MonitorImplementsChannel`: `Spec => ChannelSpec`.  The channel's log is what was
  delivered and what is queued, its announcements are the delivered devices, the
  bytes in the pipe and those held; `Insert` publishes, `Write` announces, `Pop`
  takes, `CloseRead` closes and drops the rest, and everything else stutters.

**Order and ownership** (in the second half of the same module).
`DeliversInOrder` and `DevicesOwned` rest on `OrderInv`, which adds `WayInOrder`: the
four places on the way from devd to the application (delivered, queue, the thread's
hand, socket) are each in order, each before the next, and nothing in them is later
than what devd has sent.  The proofs follow an event from place to place.

**Filter** (`UdevFilterProofs`): any entries, devices and lengths of the list.
`MatchLinearizable` is the interesting one.  Its invariant says at each place of the
two walks what is known of the entries passed so far (`FirstInv`, `ScoresInv`,
`SecondInv`, `KnownInv`): the first walk determines which types have positive
entries in a prefix of the list, the second what each entry of a prefix says of the
device, and the two prefixes may end at different lengths; at the end the verdict is
that of the list cut at one of them (`DoneInv`).  `FailsClosed` and
`ReleasesTemporary` come out of the same invariant.  What a pattern matches is never
looked into.

**Session** (`HotplugSessionProofs`): any machine, any number of changes.
`PictureExact` and `DifferenceExplained` are *PictureIsExact* and
*DifferenceIsOnItsWay*, under the hypothesis `AwaitConnect` (without it they are false,
finding F2).  The assumptions are those of the modules; `MachineAssumption` says of the
machine what the names in the messages need: devices are known by bus and name, no word
of the kernel holds the name of a property, and the name of an interface fits into
IFNAMSIZ bytes.  A message is in one of three queues on its way (devd, socket, channel).
`LastWord(p, b)` is what an observer who now believes `b` of path `p` will believe after
all three; the inductive invariant `SessionInv` says that it is the truth, whether he
starts from the truth (`LastWordTrue`) or, about a device the scan has looked for, from
what the application knows (`WaySettles`).  A step that moves a message keeps the last
word (`WayBroadcast`, `WayForward`, `WayTake`), the kernel's steps change the word and
the truth together (`WayTell`), and a scan that finds a device puts the truth where the
application's knowledge is.  Below this, `NoticeSays` proves of every device what its
messages mean to the four providers asked in order, `FollowedPath` that a path which
either the scan or a message names is the one the other names, and `ShownOnce` that it is
no other device's.

**Objects** (`UdevObjectsProofs`): any finite set of slots, any number of references,
any interleaving of the application and the thread.  The inductive invariant is
`ObjectsInv == OwnerInv /\ CountInv`; none of the properties is inductive by itself.
`OwnerInv` names the owner of every object that is not being freed (`Staying`): the
application, whose references `rc` counts; the queue, or the thread on its way there;
the one device whose parent was never asked for (`Owners`).  It needs to know what a
call has still to do: the application either makes or frees in a call, and does each
thing once (`AppWork`); the thread refers to the context for a device and its parent
before it queues the device (`ThreadOrder`, `ThreadWork`); a device in the queue is
there once and a monitor is left that will drop it (`QueueOwned`); and when a monitor
is dropped its thread has ended (`MonitorEnds`), so nothing is queued behind the drop.
`CountInv` adds the context: until changes have overlapped at most one thread has loaded
the count, what it has loaded is the count, and the count is the number of users it was
told of (`UserRefs`, and `Live` without `Untold`).  Each action has a lemma for either
half.

* `CountsNeverNegative`, `ParentHasOneOwner`, `HeldIsNeverFreed`,
  `ContextOutlivesUsers` and `AllIsFreed` are *TypeOK*, *SoleOwner*, *HeldIsLive*,
  *ContextAccounting* and *NothingLeaks*.

**Lists** (`ListOwnersProofs`): any set of names, any providers and what is accepted
of them.  Every property of the run `ListTree` has its theorem: `TypeCorrect`,
`RanksKept`, `LookupsAlike`, `ScanWhole`, `IterationWhole`, and for the refinement
`ListIsSorted`.  None of the properties is inductive.  That a lookup finds an entry needs
the order of the tree, the order needs that every link to a child has the link to the
parent it goes with, a rotation keeps both only in a tree without a cycle, and the rule of
the header does not hold at all while a loop of the header runs.  The inductive invariant
is `Inv == TreeInv /\ ListInv /\ ScanInv`:

* `TreeInv` says of the tree what its links cannot say in one step: there is a function
  `b` from each node to the set of the nodes from it downwards (`Shape`), by which the
  links lead down and back, the left is less and the right is greater, and the set of the
  root is what the list holds; and there is a function `r` from each node to its rank by
  which every edge is black for a difference of one and red for one of two (`Even`), but
  for one edge, the one the loop has come to (`Raising`, `Lowering`).
* `ListInv` says that `udev_list_free` is at the least of the entries left, and that what
  an iteration has still to give is there and comes after the entry it is at.
* `ScanInv` says that what the scan has put into the list is what is accepted of what the
  providers have shown so far.

The lemmas follow the header.  A rotation keeps the shape, with new sets for the two
nodes that change places (`RotateShape`, `RotateTwice`).  For each way a turn of a loop can
go there is a lemma that gives the nodes it touches new ranks and says that every other
node keeps its own (`Outside`): `RaisedKeeps` and `LoweredKeeps` put them together, and
say that such a turn ends with all ranks restored or with one edge higher up.
`LowerLeaf` is there because a parent that has lost its only child has a red edge to
nothing (`LeafRule`).  `LinkKeeps` is `RB_INSERT`.  In `RemovedKeeps` a node with one
child is spliced out (`OneChild`); a node with two changes places with its
successor, for which the invariant is carried along the exchange of the two names.
`SuccessorIs` says that `RB_NEXT` comes to the least of the greater names, whether it goes
down or up, and `EvenRule` gets the rule of the header out of `Even`: the rank seen from
the tree (`RankOf`) is `r`, and a subtree of rank `k` and `m` nodes has a height of at most
`k + 1`, and 2 to that power is at most the square of `m + 1` (`Bounded`).

`RankOf`, `HeightOf` and the walks are recursive functions on the nodes, and what they
return is proved without an induction theorem that takes an operator: the sets `b[n]` are
finite and that of a child is a proper subset, so among the nodes a statement is false of
there is one with a least set (`FS_StrictSubsetOrderingWellFounded`); `Power` is a
function on the numbers and gets the same from the well-foundedness of <.

**Walk** (`ScanDirProofs`): any trees, lengths of names and sizes of the buffer.
`WalkInv` adds the types of the levels to `StaysInPath`, the first part of
*LevelsAgree*: at each level `off` and `rem` add up to the room there is, and nothing is
written behind it (`BufferKept`).  `ErrorsReported` is *FailureReported*.
The order of the walk is `OrderInv`.  Its parts: the levels are those of one path
through the tree, each writes where its directory's path ends, and none has the
directory below it still to read (`Chain`); the buffer begins with the innermost
level's path, whatever is behind it (`Begins`); nothing that was visited is ahead
(`NotAgain`), where a path is `Ahead` while a level has it, or a directory on the way
to it, still to read; and until an error or a failure to open, what is wanted was
shown, is ahead, or was cut off (`NoneLost`).  Reading an entry takes just what is on or
below it out of what is ahead (`ReadAhead`), entering it puts what is below it back
(`InnerLevel`).

* `EachLevelInItsPlace`, `EntriesVisitedOnce` and `AllUncutVisited` are *LevelsAgree*,
  *VisitsEntriesOnce* and *VisitsAllUncut*.

How many bytes a path takes is a recursive function (`Bytes`).  The theorems on
induction that take an operator cannot be used here, but a set can stand for it:
`LeastNatural` (from the well-foundedness of <) gives `SetInduction`, with which
`SumsExist` shows that there is a function as `Bytes` asks for, and `BytesIsSum` and
`BytesGrow` what it is.  `BelowDirectory` then says what a name is copied behind.

**Create handlers** (`CreateHandlersProofs`): any threads, nodes and descriptors.
`HandlersAccount` needs that a handler has opened a descriptor only in its query or
after it, so that closing by the application never hits it, and that every way out of
the query, whether it succeeds or fails, leads to the close.  `SkipsWhileEnabled` and
`BuildsWhatItAccepts` assume that what is on the stack where `len` is happens to be at
least `sizeof(int)` (`Lucky`); without that they are false, which is finding F3.  Then the
static variable is unknown or the kernel's answer, in every interleaving.
`DescribesItsDevice` needs no assumption: a handler describes the device it is about,
whatever the application opens and closes meanwhile, but when the application closes
under it the descriptor it has borrowed.  Its invariant `AskedInv` follows whose node is
behind the descriptor from `open` or the lookup on.  With the kernel answering of a device
what one of its kind answers (`Classified`) that is *DescribedAsItIs*
(`DescribesAsItIs`).

**Encoder** (`EncodeNameProofs`): any strings and any sizes of buffer.  `KeepsToBuffer`
rests on `CharacterInside`: a character that was found valid ends within the string,
for the terminator is no byte of one; so `i` never passes the end of the string.
`OnlyTextIsKept` is *KeepsOnlyText* and `AlwaysDecodable` is *Decodable*.  Both speak of
recursive functions, `Reference` and `Decode`, and need no induction over an operator:

* `SetInduction` is the induction over the natural numbers for a set of them, from the
  well-foundedness of <.  With it a function that goes on from the end of a sequence
  exists (`FromTheEnd`) and is the only one (`OneFromTheEnd`), so `Reference` is `r[0]`
  for every `r` that goes on as the encoder does (`Parses`, `ReferenceIs`).
* That the encoder and the reference go on alike is `TextIsValid`: the decoder takes a
  character of n bytes just where the bytes are what encoding it gives (`TextOfTwo`,
  `TextOfThree`, `TextOfFour`, about the quotients and remainders of the bytes), and
  never one of five or six (`NoLongCharacter`: they are beyond Unicode).
* The inductive invariant `KeptInv`: while encoding, `r[0]` is the buffer up to `j`
  followed by `r[i]`; after a success the buffer is `r[0]` and its terminator; after a
  failure `r[0]` is at least as long as the buffer.  `PlainInv` is what `strlcpy` does.
* `ReadBack`: wherever `r[k]` stands in what is read, reading from there gives the bytes
  of the string from `k` on; from the end of the string to its start, by `CharacterBack`
  and `ByteBack`.

Only model-checked: liveness (*Reconnects*, *MessagesConsumed*, *EventsReachReader*,
*UnrefCompletes*, *PictureSettles*) and with it ENABLED, which are out of the prover's
reach.  Every invariant, every action property and both refinements are proved.

## 6. Not modelled

* `udev_filter_match_subsystem`: nothing calls it.  It does not do what its comment says
  (`udev-filter.c` 227): without a positive subsystem entry it turns away every subsystem,
  also those whose devices `udev_filter_match` accepts.
* The create handlers of graphics cards, network interfaces and PCI devices, which copy
  the kernel's answers into lists, and the names, products and identifiers that parents
  get.  Two things there are worth a look: the attribute "id" of a parent is set to the
  product (`udev-dev.c` 226), and `phys` is read unset where EVIOCGPHYS fails with ENOENT
  (335).
* The lookup of a path by device number (`get_syspath_by_devnum`), but for the walk it
  makes (`ScanDir` with `recursive` false and a callback that stops), and
  `scandev_recursive`.
* The element of the subsystem table that has no pattern: the lookup hands
  fnmatch(3) a null pointer for every path that no earlier element matches.  The
  table keeps the element and lets it match nothing.
* The getters of a device that return what is stored or ask the table;
  `udev_device_get_devtype`, which returns an uninitialised pointer for a device of no
  known subsystem (`udev-device.c` 459); user data and logging; the match functions of
  the enumerator, which only add entries.
* `udev_filter_free`, which runs when nobody else has the list.
* A message longer than the buffer of `recv` (truncated), and signals other than
  as an interruption.
* Of `tree.h` what nothing uses: splay trees, `RB_NFIND`, `RB_PREV`, `RB_REINSERT`; of
  `utils-gpl.c` the helpers no caller reaches (printable strings, ASCII, UTF-16).  The
  comment at `tree.h` 67 gives leaves the rank 1; the model follows the code's own
  differences, with 0 for a leaf and -1 for a null pointer, which is the same rule.
* Values of list entries; `udev-hwdb.c`, which answers with constants; the public header
  and the build.

## 7. Plan

Done: the monitor with its specification and proofs; filter, session with
providers and table, objects with queues, lists with their tree and their owners, walk,
evdev gate, create handlers, encoder; proofs about all of them.
Next, in this order:

1. The mailbox of the monitor as the linked list with its tail pointer, shown to
   implement the sequence.
2. The lookup of a path by device number, on top of `ScanDir`.
