----------------------------- MODULE UdevMonitor -----------------------------
(***************************************************************************)
(* The udev monitor (src/udev-monitor.c): the thread that reads devd's     *)
(* socket, the queue of devices and the wake-up pipe between that thread   *)
(* and the application, the application's receivers, and the teardown of   *)
(* udev_monitor_unref.                                                     *)
(*                                                                         *)
(* Actors: the owner (creates, configures and destroys the monitor), the   *)
(* monitor thread, the receivers (callers of udev_monitor_receive_device), *)
(* and devd, which is outside the library and may stop, restart or hang up.*)
(*                                                                         *)
(* A step is what an actor does between two points where another can see   *)
(* or change what it uses: a system call, a critical section of um->mtx,   *)
(* or the test of the queue that udev_monitor_receive_device makes without *)
(* the mutex.                                                              *)
(***************************************************************************)
EXTENDS Integers, Sequences, FiniteSets

CONSTANTS
    Readers,      \* the application's threads that receive devices
    Kinds,        \* kinds of device a devd message may be about
    Deliverable,  \* the kinds a provider parses and whose subsystem is known
    TagFilter,    \* a filter added by udev_monitor_filter_add_match_tag
    SocketFds,    \* the descriptors socket(2) may return in the process
    PipeCap,      \* bytes the wake-up pipe holds before write(2) blocks
    NoEvent,      \* the message buffer before anything is received into it
    MaxEvents,    \* bound: messages devd sends
    MaxRefs,      \* bound: references the application holds
    MaxFaults,    \* bound: failures of the system (allocation, thread, socket)
    MaxHangups    \* bound: times devd stops or drops the connection

(* A device event, numbered in the order in which devd sends them.         *)
Event == [seq : 1..MaxEvents, kind : Kinds]

ASSUME ConstantsAssumption ==
    /\ IsFiniteSet(Readers)
    /\ Deliverable \subseteq Kinds
    /\ TagFilter \notin Kinds
    /\ SocketFds \subseteq Nat
    /\ PipeCap \in Nat \ {0}
    /\ NoEvent \notin Event
    /\ MaxEvents \in Nat
    /\ MaxRefs \in Nat \ {0}
    /\ MaxFaults \in Nat
    /\ MaxHangups \in Nat

VARIABLES
    opc,        \* where the owner is in the life of the monitor
    refcount,   \* um->refcount
    filters,    \* um->filters: kinds asked for, TagFilter if a tag was
    rdOpen,     \* um->fds[0], the end the application polls and reads
    wrOpen,     \* um->fds[1], the end the thread writes
    pipe,       \* bytes in the pipe
    queue,      \* um->queue
    live,       \* sequence numbers of the devices allocated and not freed
    tpc,        \* where the monitor thread is
    devdFd,     \* the thread's devd_fd
    revents,    \* fds[1].revents of the last poll(2)
    msg,        \* the thread's ev
    devdUp,     \* devd accepts connections
    conn,       \* the connection behind devd_fd: none, up, or hung up by devd
    sock,       \* messages in that connection, not yet received
    sent,       \* how many messages devd has sent
    rpc,        \* where each receiver is in udev_monitor_receive_device
    delivered,  \* the devices handed to the application, oldest first
    faults,     \* how many system failures have happened
    hangups     \* how many times devd has hung up

owner == <<opc, refcount, filters>>
fds == <<rdOpen, wrOpen, pipe>>
thread == <<tpc, devdFd, revents, msg>>
devd == <<devdUp, conn, sock, sent, hangups>>
app == <<rpc, delivered>>
vars == <<owner, fds, queue, live, thread, devd, app, faults>>

OwnerPCs == {"absent", "live", "close", "join", "closew", "free", "freed"}
ThreadPCs == {"none", "connect", "poll", "recv", "match", "send", "write",
              "undo", "hup", "exit", "done"}
ReaderPCs == {"idle", "read", "check", "pop"}

(* A sequence's elements, and the sequence numbers of a sequence of events.*)
Elements(s) == {s[i] : i \in DOMAIN s}
Seqs(s) == {e.seq : e \in Elements(s)}

Init ==
    /\ opc = "absent" /\ refcount = 0 /\ filters = {}
    /\ rdOpen = FALSE /\ wrOpen = FALSE /\ pipe = 0
    /\ queue = <<>> /\ live = {}
    /\ tpc = "none" /\ devdFd = -1 /\ revents = {} /\ msg = NoEvent
    /\ devdUp \in BOOLEAN /\ conn = "none" /\ sock = <<>> /\ sent = 0
    /\ hangups = 0
    /\ rpc = [r \in Readers |-> "idle"] /\ delivered = <<>>
    /\ faults = 0

(* One of the failures a system call or an allocation may report.          *)
Fault == faults < MaxFaults /\ faults' = faults + 1

(* close(devd_fd): what the connection still held is gone.                 *)
CloseSocket ==
    /\ devdFd' = -1
    /\ conn' = "none" /\ sock' = <<>>
    /\ UNCHANGED <<devdUp, sent, hangups>>

(* What poll(2) reports of the socket: a hung-up one is readable as well.  *)
SocketReady ==
    {ev \in {"IN", "HUP"} :
        /\ devdFd >= 0
        /\ conn = "hup" \/ (ev = "IN" /\ sock # <<>>)}

-----------------------------------------------------------------------------
(* Mistakes the steps below must not make; each is refuted by the property *)
(* named beside it.                                                        *)

(* TypeOK: the count is tested before it is decremented.                   *)
UnrefTestsOldCount ==
    /\ opc = "live"
    /\ refcount' = refcount - 1
    /\ opc' = IF refcount = 0 THEN "close" ELSE opc
    /\ UNCHANGED <<filters, fds, queue, live, thread, devd, app, faults>>

(* UnrefCompletes: the thread is joined before the pipe is closed.         *)
CloseReadAfterJoin ==
    /\ opc = "close"
    /\ opc' = "join"
    /\ UNCHANGED <<refcount, filters, fds, queue, live, thread, devd, app,
                   faults>>

(* SafeTeardown: the thread is not waited for.                             *)
JoinDetaches ==
    /\ opc = "join"
    /\ opc' = "closew"
    /\ UNCHANGED <<refcount, filters, fds, queue, live, thread, devd, app,
                   faults>>

(* Reconnects: poll(2) without a socket waits for ever.                    *)
PollRespawnNoTimer ==
    /\ tpc = "poll"
    /\ rdOpen
    /\ SocketReady # {} /\ devdFd < 1
    /\ tpc' = "connect"
    /\ UNCHANGED <<owner, fds, queue, live, devdFd, revents, msg, devd, app,
                   faults>>

(* MessagesConsumed: a socket that is not hung up is not found readable.   *)
PollReadyWantsBoth ==
    /\ tpc = "poll"
    /\ rdOpen
    /\ SocketReady # {}
    /\ devdFd >= 1
    /\ revents' = SocketReady
    /\ tpc' = IF SocketReady = {"IN", "HUP"} THEN "recv" ELSE "hup"
    /\ UNCHANGED <<owner, fds, queue, live, devdFd, msg, devd, app, faults>>

(* InOrder: the device is inserted at the head of the queue.               *)
InsertAtHead ==
    /\ tpc = "send"
    /\ queue' = <<msg>> \o queue
    /\ live' = live \cup {msg.seq}
    /\ tpc' = "write"
    /\ UNCHANGED <<owner, fds, devdFd, revents, msg, devd, app, faults>>

(* EventsReachReader: the device is queued and no byte is written.         *)
InsertSilently ==
    /\ tpc = "send"
    /\ queue' = Append(queue, msg)
    /\ live' = live \cup {msg.seq}
    /\ tpc' = "hup"
    /\ UNCHANGED <<owner, fds, devdFd, revents, msg, devd, app, faults>>

(* WakeupAccounting: a full pipe is taken for a byte written.              *)
WriteToFullPipe ==
    /\ tpc = "write"
    /\ rdOpen
    /\ pipe' = IF pipe < PipeCap THEN pipe + 1 ELSE pipe
    /\ tpc' = "hup"
    /\ UNCHANGED <<owner, rdOpen, wrOpen, queue, live, devdFd, revents, msg,
                   devd, app, faults>>

(* Ownership: the entry goes and the device stays allocated.               *)
UndoLeaksDevice ==
    /\ tpc = "undo"
    /\ queue' = SubSeq(queue, 1, Len(queue) - 1)
    /\ tpc' = "hup"
    /\ UNCHANGED <<owner, fds, live, devdFd, revents, msg, devd, app, faults>>

(* KeepsLiveConnection: revents of an earlier poll are looked at.          *)
PollReadyKeepsRevents ==
    /\ tpc = "poll"
    /\ rdOpen
    /\ SocketReady # {}
    /\ devdFd >= 1
    /\ revents' = revents \cup SocketReady
    /\ tpc' = IF "IN" \in SocketReady THEN "recv" ELSE "hup"
    /\ UNCHANGED <<owner, fds, queue, live, devdFd, msg, devd, app, faults>>

(* ReceiveFindsDevice: a failed read is taken for a byte.                  *)
ReadFailsUnnoticed(r) ==
    /\ rpc[r] = "read"
    /\ pipe = 0
    /\ rpc' = [rpc EXCEPT ![r] = "check"]
    /\ UNCHANGED <<owner, fds, queue, live, thread, devd, delivered, faults>>

(* ChannelSpec: the newest device is taken first.                          *)
PopNewest(r) ==
    /\ rpc[r] = "pop"
    /\ delivered' = Append(delivered, queue[Len(queue)])
    /\ queue' = SubSeq(queue, 1, Len(queue) - 1)
    /\ rpc' = [rpc EXCEPT ![r] = "idle"]
    /\ UNCHANGED <<owner, fds, live, thread, devd, faults>>

-----------------------------------------------------------------------------
(* The owner: udev_monitor_new_from_netlink, the filters, ref, enable.     *)

New ==
    /\ opc = "absent"
    /\ opc' = "live" /\ refcount' = 1
    /\ rdOpen' = TRUE /\ wrOpen' = TRUE
    /\ UNCHANGED <<filters, pipe, queue, live, thread, devd, app, faults>>

NewFails ==
    /\ opc = "absent"
    /\ Fault
    /\ UNCHANGED <<owner, fds, queue, live, thread, devd, app>>

FilterAdd(f) ==
    /\ opc = "live"
    /\ filters' = filters \cup {f}
    /\ UNCHANGED <<opc, refcount, fds, queue, live, thread, devd, app, faults>>

Enable ==
    /\ opc = "live"
    /\ tpc = "none"      \* contract: the application enables receiving once
    /\ tpc' = "connect"
    /\ UNCHANGED <<owner, fds, queue, live, devdFd, revents, msg, devd, app,
                   faults>>

EnableFails ==
    /\ opc = "live"
    /\ tpc = "none"
    /\ Fault
    /\ UNCHANGED <<owner, fds, queue, live, thread, devd, app>>

Ref ==
    /\ opc = "live"
    /\ refcount < MaxRefs
    /\ refcount' = refcount + 1
    /\ UNCHANGED <<opc, filters, fds, queue, live, thread, devd, app, faults>>

(* udev_monitor_unref.  The contract of the last call: no receiver is      *)
(* inside the library, as the monitor is about to be freed.                *)
Unref ==
    /\ opc = "live"
    /\ refcount = 1 => \A r \in Readers : rpc[r] = "idle"
    /\ refcount' = refcount - 1
    /\ opc' = IF refcount' = 0 THEN "close" ELSE opc
    /\ UNCHANGED <<filters, fds, queue, live, thread, devd, app, faults>>

CloseRead ==
    /\ opc = "close"
    /\ rdOpen' = FALSE /\ pipe' = 0
    /\ opc' = "join"
    /\ UNCHANGED <<refcount, filters, wrOpen, queue, live, thread, devd, app,
                   faults>>

(* pthread_join: waits for the thread, fails at once if none was created.  *)
Join ==
    /\ opc = "join"
    /\ tpc \in {"none", "done"}
    /\ opc' = "closew"
    /\ UNCHANGED <<refcount, filters, fds, queue, live, thread, devd, app,
                   faults>>

CloseWrite ==
    /\ opc = "closew"
    /\ wrOpen' = FALSE
    /\ opc' = "free"
    /\ UNCHANGED <<refcount, filters, rdOpen, pipe, queue, live, thread, devd,
                   app, faults>>

(* The filters, the devices nobody received, and the monitor itself.       *)
Free ==
    /\ opc = "free"
    /\ filters' = {}
    /\ queue' = <<>> /\ live' = live \ Seqs(queue)
    /\ opc' = "freed"
    /\ UNCHANGED <<refcount, fds, thread, devd, app, faults>>

Teardown == CloseRead \/ Join \/ CloseWrite \/ Free

Owner ==
    \/ New \/ NewFails
    \/ \E f \in Kinds \cup {TagFilter} : FilterAdd(f)
    \/ Enable \/ EnableFails
    \/ Ref \/ Unref
    \/ Teardown

-----------------------------------------------------------------------------
(* The monitor thread: udev_monitor_thread.                                *)

StayConnected ==
    /\ tpc = "connect"
    /\ devdFd >= 0
    /\ tpc' = "poll"
    /\ UNCHANGED <<owner, fds, queue, live, devdFd, revents, msg, devd, app,
                   faults>>

Connect ==
    /\ tpc = "connect"
    /\ devdFd < 0
    /\ devdUp
    /\ devdFd' \in SocketFds
    /\ conn' = "up" /\ sock' = <<>>
    /\ tpc' = "poll"
    /\ UNCHANGED <<owner, fds, queue, live, revents, msg, devdUp, sent, hangups,
                   app, faults>>

ConnectFails ==
    /\ tpc = "connect"
    /\ devdFd < 0
    /\ \/ ~devdUp /\ UNCHANGED faults
       \/ Fault
    /\ tpc' = "poll"
    /\ UNCHANGED <<owner, fds, queue, live, devdFd, revents, msg, devd, app>>

(* POLLHUP on the pipe: the owner has closed the reading end.              *)
PollFinishing ==
    /\ tpc = "poll"
    /\ ~rdOpen
    /\ tpc' = "exit"
    /\ UNCHANGED <<owner, fds, queue, live, devdFd, revents, msg, devd, app,
                   faults>>

PollError ==
    /\ tpc = "poll"
    /\ Fault
    /\ tpc' = "exit"
    /\ UNCHANGED <<owner, fds, queue, live, devdFd, revents, msg, devd, app>>

PollInterrupted ==
    /\ tpc = "poll"
    /\ rdOpen /\ SocketReady = {}
    /\ tpc' = "connect"
    /\ UNCHANGED <<owner, fds, queue, live, devdFd, revents, msg, devd, app,
                   faults>>

(* ret == 0 || devd_fd < 1: only a poll without a socket has a timeout.    *)
PollRespawn ==
    /\ tpc = "poll"
    /\ rdOpen
    /\ \/ SocketReady = {} /\ devdFd < 0
       \/ SocketReady # {} /\ devdFd < 1
    /\ tpc' = "connect"
    /\ UNCHANGED <<owner, fds, queue, live, devdFd, revents, msg, devd, app,
                   faults>>

PollReady ==
    /\ tpc = "poll"
    /\ rdOpen
    /\ SocketReady # {}
    /\ devdFd >= 1
    /\ revents' = SocketReady
    /\ tpc' = IF "IN" \in SocketReady THEN "recv" ELSE "hup"
    /\ UNCHANGED <<owner, fds, queue, live, devdFd, msg, devd, app, faults>>

RecvMessage ==
    /\ tpc = "recv"
    /\ sock # <<>>
    /\ msg' = Head(sock) /\ sock' = Tail(sock)
    /\ tpc' = "match"
    /\ UNCHANGED <<owner, fds, queue, live, devdFd, revents, devdUp, conn, sent,
                   hangups, app, faults>>

RecvFails ==
    /\ tpc = "recv"
    /\ \/ sock = <<>> /\ UNCHANGED faults
       \/ Fault
    /\ CloseSocket
    /\ tpc' = "connect"
    /\ UNCHANGED <<owner, fds, queue, live, revents, msg, app>>

(* parse_devd_message yields an action and udev_filter_match accepts: the  *)
(* subsystem is known, no tag is asked for (a device never has one), and a *)
(* subsystem filter, if there is one, names this kind of device.           *)
Accepts(m) ==
    /\ m.kind \in Deliverable
    /\ TagFilter \notin filters
    /\ filters = {} \/ m.kind \in filters

Match ==
    /\ tpc = "match"
    /\ tpc' = IF Accepts(msg) THEN "send" ELSE "hup"
    /\ UNCHANGED <<owner, fds, queue, live, devdFd, revents, msg, devd, app,
                   faults>>

(* udev_monitor_send_device.                                               *)
SendFails ==
    /\ tpc = "send"
    /\ Fault
    /\ tpc' = "hup"
    /\ UNCHANGED <<owner, fds, queue, live, devdFd, revents, msg, devd, app>>

Insert ==
    /\ tpc = "send"
    /\ queue' = Append(queue, msg)
    /\ live' = live \cup {msg.seq}
    /\ tpc' = "write"
    /\ UNCHANGED <<owner, fds, devdFd, revents, msg, devd, app, faults>>

(* Blocks while the pipe is full and the reading end is open.              *)
Write ==
    /\ tpc = "write"
    /\ rdOpen
    /\ pipe < PipeCap
    /\ pipe' = pipe + 1
    /\ tpc' = "hup"
    /\ UNCHANGED <<owner, rdOpen, wrOpen, queue, live, devdFd, revents, msg,
                   devd, app, faults>>

WriteFails ==
    /\ tpc = "write"
    /\ ~rdOpen
    /\ tpc' = "undo"
    /\ UNCHANGED <<owner, fds, queue, live, devdFd, revents, msg, devd, app,
                   faults>>

(* STAILQ_REMOVE of the entry just inserted, and the device with it.       *)
Undo ==
    /\ tpc = "undo"
    /\ \E i \in DOMAIN queue :
          /\ queue[i] = msg
          /\ queue' = SubSeq(queue, 1, i - 1) \o SubSeq(queue, i + 1, Len(queue))
    /\ live' = live \ {msg.seq}
    /\ tpc' = "hup"
    /\ UNCHANGED <<owner, fds, devdFd, revents, msg, devd, app, faults>>

(* The end of an iteration: POLLHUP is looked at after POLLIN was served.  *)
Hup ==
    /\ tpc = "hup"
    /\ IF "HUP" \in revents THEN CloseSocket ELSE UNCHANGED <<devdFd, devd>>
    /\ revents' = {} /\ msg' = NoEvent
    /\ tpc' = "connect"
    /\ UNCHANGED <<owner, fds, queue, live, app, faults>>

Exit ==
    /\ tpc = "exit"
    /\ CloseSocket
    /\ tpc' = "done"
    /\ UNCHANGED <<owner, fds, queue, live, revents, msg, app, faults>>

(* The steps the scheduler owes the thread.                                *)
Scheduled ==
    \/ StayConnected \/ Connect \/ ConnectFails
    \/ PollFinishing \/ PollError \/ PollRespawn \/ PollReady
    \/ RecvMessage \/ RecvFails \/ Match
    \/ SendFails \/ Insert \/ Write \/ WriteFails \/ Undo
    \/ Hup \/ Exit

Thread == Scheduled \/ PollInterrupted

-----------------------------------------------------------------------------
(* The receivers: udev_monitor_receive_device.                             *)

Receive(r) ==
    /\ opc = "live"
    /\ rpc[r] = "idle"
    /\ rpc' = [rpc EXCEPT ![r] = "read"]
    /\ UNCHANGED <<owner, fds, queue, live, thread, devd, delivered, faults>>

ReadToken(r) ==
    /\ rpc[r] = "read"
    /\ pipe > 0
    /\ pipe' = pipe - 1
    /\ rpc' = [rpc EXCEPT ![r] = "check"]
    /\ UNCHANGED <<owner, rdOpen, wrOpen, queue, live, thread, devd, delivered,
                   faults>>

(* A signal, or an empty pipe the application has made non-blocking.       *)
ReadFails(r) ==
    /\ rpc[r] = "read"
    /\ pipe = 0
    /\ rpc' = [rpc EXCEPT ![r] = "idle"]
    /\ UNCHANGED <<owner, fds, queue, live, thread, devd, delivered, faults>>

(* STAILQ_EMPTY, read without the mutex.                                   *)
Check(r) ==
    /\ rpc[r] = "check"
    /\ rpc' = [rpc EXCEPT ![r] = IF queue = <<>> THEN "idle" ELSE "pop"]
    /\ UNCHANGED <<owner, fds, queue, live, thread, devd, delivered, faults>>

(* Under the mutex; the entry is used without a test that there is one.    *)
Pop(r) ==
    /\ rpc[r] = "pop"
    /\ delivered' = Append(delivered, Head(queue))
    /\ queue' = Tail(queue)
    /\ rpc' = [rpc EXCEPT ![r] = "idle"]
    /\ UNCHANGED <<owner, fds, live, thread, devd, faults>>

Reader(r) ==
    \/ Receive(r) \/ ReadToken(r) \/ ReadFails(r) \/ Check(r) \/ Pop(r)

-----------------------------------------------------------------------------
(* devd, outside the library: it broadcasts each event to its clients.     *)

DevdSend(k) ==
    /\ devdUp
    /\ sent < MaxEvents
    /\ sent' = sent + 1
    /\ sock' = IF conn = "up" THEN Append(sock, [seq |-> sent + 1, kind |-> k])
               ELSE sock
    /\ UNCHANGED <<owner, fds, queue, live, thread, devdUp, conn, hangups, app,
                   faults>>

DevdStart ==
    /\ ~devdUp
    /\ devdUp' = TRUE
    /\ UNCHANGED <<owner, fds, queue, live, thread, conn, sock, sent, hangups,
                   app, faults>>

(* devd exits, or drops this client (a client too slow to read, say).      *)
DevdHangup ==
    /\ devdUp
    /\ hangups < MaxHangups
    /\ hangups' = hangups + 1
    /\ devdUp' \in BOOLEAN
    /\ conn' = IF conn = "up" THEN "hup" ELSE conn
    /\ UNCHANGED <<owner, fds, queue, live, thread, sock, sent, app, faults>>

Devd == (\E k \in Kinds : DevdSend(k)) \/ DevdStart \/ DevdHangup

Next == Owner \/ Thread \/ (\E r \in Readers : Reader(r)) \/ Devd

Spec == Init /\ [][Next]_vars

(* The scheduler runs the thread and the owner's teardown; nothing obliges *)
(* a signal to interrupt poll(2), the owner to let go of the monitor, or   *)
(* devd to do anything.                                                    *)
ThreadFairness == WF_vars(Scheduled)
TeardownFairness == WF_vars(Teardown)

(* An application that keeps calling udev_monitor_receive_device, as the   *)
(* select loop of src/udev-test.c does.                                    *)
ReaderFairness == \A r \in Readers : WF_vars(Reader(r))

FairSpec == Spec /\ ThreadFairness /\ TeardownFairness /\ ReaderFairness

-----------------------------------------------------------------------------
(* Safety.                                                                 *)

TypeOK ==
    /\ opc \in OwnerPCs /\ refcount \in Nat
    /\ filters \subseteq Kinds \cup {TagFilter}
    /\ rdOpen \in BOOLEAN /\ wrOpen \in BOOLEAN /\ pipe \in 0..PipeCap
    /\ queue \in Seq(Event) /\ live \subseteq Nat
    /\ tpc \in ThreadPCs /\ devdFd \in SocketFds \cup {-1}
    /\ revents \subseteq {"IN", "HUP"} /\ msg \in Event \cup {NoEvent}
    /\ devdUp \in BOOLEAN /\ conn \in {"none", "up", "hup"}
    /\ sock \in Seq(Event) /\ sent \in Nat /\ hangups \in Nat
    /\ rpc \in [Readers -> ReaderPCs] /\ delivered \in Seq(Event)
    /\ faults \in Nat

(* The receivers that have read a byte and not yet taken its device.       *)
Holding == {r \in Readers : rpc[r] \in {"check", "pop"}}

(* The device inserted whose byte is still to be written.                  *)
Unannounced == IF tpc = "write" THEN 1 ELSE 0

(* While the application can read, every queued device is accounted for by *)
(* exactly one byte: in the pipe, held by a receiver, or about to be       *)
(* written.  udev_monitor_send_device inserts before it writes, and        *)
(* udev_monitor_receive_device reads before it removes.                    *)
WakeupAccounting ==
    rdOpen => Len(queue) = pipe + Cardinality(Holding) + Unannounced

(* A receiver that has read a byte finds a device: the unlocked test of    *)
(* udev_monitor_receive_device never turns it away, and when it gets the   *)
(* mutex the queue is not empty, however many receivers race.              *)
ReceiveFindsDevice ==
    \A r \in Readers : rpc[r] \in {"check", "pop"} => queue # <<>>

(* What the application has received, what is queued, and what the thread  *)
(* has in hand or in the socket is one sequence in the order in which devd *)
(* sent it, without duplicates.                                            *)
InHand == IF tpc \in {"match", "send"} THEN <<msg>> ELSE <<>>
InOrder ==
    LET all == delivered \o queue \o InHand \o sock
    IN \A i, j \in 1..Len(all) : i < j => all[i].seq < all[j].seq

(* A device allocated by udev_monitor_send_device is in the queue or with  *)
(* the application: neither the failed write nor the teardown leaks one or *)
(* frees one that can still be received.                                   *)
Ownership == live = Seqs(delivered) \cup Seqs(queue)

(* The monitor is taken apart only when nobody else is in it: the thread   *)
(* has gone before the writing end is closed and the memory is freed, and  *)
(* a receiver is never inside while the reading end is closed.             *)
SafeTeardown ==
    /\ opc \in {"free", "freed"} => tpc \in {"none", "done"}
    /\ ~rdOpen => \A r \in Readers : rpc[r] = "idle"
    /\ tpc \in {"write", "undo", "poll"} => wrOpen

(* A connection that devd keeps is closed only because of a failure or to  *)
(* finish: the POLLHUP that ends an iteration, noted before a message was  *)
(* received and sent, never takes down a connection that is still good.    *)
KeepsLiveConnection ==
    [][conn = "up" /\ conn' = "none" => faults' > faults \/ tpc = "exit"]_vars

(* The branch of the loop marked "connection respawn timer expired" is     *)
(* taken when the timer has expired, never while poll(2) reports the       *)
(* socket ready.                                                           *)
RespawnIsTimeout ==
    [][~(tpc = "poll" /\ tpc' = "connect" /\ SocketReady # {})]_vars

(* The monitor is the event channel the application is promised.           *)
Finished == opc \in {"join", "closew", "free", "freed"}
Log == IF Finished THEN delivered ELSE delivered \o queue
Announced ==
    IF Finished THEN Len(delivered)
    ELSE Len(delivered) + pipe + Cardinality(Holding)
Channel == INSTANCE EventChannel WITH
    log <- Log,
    announced <- Announced,
    taken <- Len(delivered),
    closed <- Finished,
    Event <- Event
ChannelSpec == Channel!Spec

-----------------------------------------------------------------------------
(* Liveness.                                                               *)

(* The last udev_monitor_unref returns: closing the reading end ends the   *)
(* thread's poll and its blocked write, so the join is never for ever.     *)
UnrefCompletes == (opc = "close") ~> (opc = "freed")

(* If devd stays up and the thread is not told to finish, the monitor ends *)
(* up connected for good.                                                  *)
ThreadRuns == tpc \notin {"none", "exit", "done"}
Reconnects == (<>[](devdUp /\ ThreadRuns)) => <>[](conn = "up")

(* A device queued for the application is received, unless the application *)
(* gives the monitor up: no wake-up is lost.                               *)
EventsReachReader ==
    \A n \in 1..MaxEvents :
        (n \in Seqs(queue)) ~> (n \in Seqs(delivered) \/ opc # "live")

(* The thread drains a connection: what devd sent over it is received as   *)
(* long as the connection and the thread last.                             *)
MessagesConsumed ==
    (ThreadRuns /\ sock # <<>>) ~> (sock = <<>> \/ ~ThreadRuns)
=============================================================================
