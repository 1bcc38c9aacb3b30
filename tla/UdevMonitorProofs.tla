-------------------------- MODULE UdevMonitorProofs --------------------------
(***************************************************************************)
(* Proofs about UdevMonitor, for any number of receivers, any pipe         *)
(* capacity and any bounds: the wake-up accounting, and with it that a     *)
(* receiver that has read a byte finds a device; that the monitor is taken *)
(* apart only when nobody is in it; that the monitor implements            *)
(* EventChannel; that the application gets the devices in the order in     *)
(* which devd sent them and none twice; and that a device is allocated     *)
(* exactly as long as it is queued or with the application.                *)
(***************************************************************************)
EXTENDS UdevMonitor, FiniteSetTheorems, SequenceTheorems, TLAPS

(* Where the owner is, what is open, and who may still be in the monitor.  *)
Phases ==
    /\ rdOpen <=> opc \in {"live", "close"}
    /\ wrOpen <=> opc \in {"live", "close", "join", "closew"}
    /\ opc = "live" => refcount > 0
    /\ opc = "absent" => tpc = "none" /\ queue = <<>> /\ pipe = 0
    /\ opc # "live" => \A r \in Readers : rpc[r] = "idle"
    /\ opc \in {"closew", "free", "freed"} => tpc \in {"none", "done"}
    /\ tpc = "undo" => ~rdOpen
    /\ tpc \in {"match", "send", "write", "undo"} => msg \in Event

(* The inductive invariant.  Accounting alone is not inductive: that a     *)
(* receiver is not turned away needs it, New needs the receivers idle, and *)
(* a failed write needs the reading end closed for good.                   *)
MonitorInv == TypeOK /\ Phases /\ WakeupAccounting

(* The set of receivers that hold a byte is finite, and empty when they    *)
(* are all idle.                                                           *)
LEMMA HoldingFinite ==
    /\ IsFiniteSet(Holding)
    /\ Cardinality(Holding) \in Nat
    /\ (\A r \in Readers : rpc[r] = "idle") => Cardinality(Holding) = 0
<1>1. IsFiniteSet(Readers)
  BY ConstantsAssumption
<1>2. IsFiniteSet(Holding)
  BY <1>1, FS_Subset DEF Holding
<1>3. Cardinality(Holding) \in Nat
  BY <1>2, FS_CardinalityType
<1>4. ASSUME \A r \in Readers : rpc[r] = "idle" PROVE Cardinality(Holding) = 0
  <2>1. Holding = {}
    BY <1>4 DEF Holding
  <2> QED BY <2>1, FS_EmptySet
<1> QED BY <1>2, <1>3, <1>4

(* Each receiver that holds a byte is matched by a queued device.          *)
LEMMA HoldersFindDevice ==
    ASSUME MonitorInv, NEW r \in Readers, rpc[r] \in {"check", "pop"}
    PROVE  queue # <<>> /\ Len(queue) > 0
<1>1. r \in Holding
  BY DEF Holding
<1>2. Cardinality(Holding) > 0
  <2>1. Cardinality(Holding) # 0
    BY <1>1, HoldingFinite, FS_EmptySet
  <2> QED BY <2>1, HoldingFinite
<1>3. opc = "live" /\ rdOpen
  BY DEF MonitorInv, Phases
<1>4. pipe \in Nat /\ Unannounced \in Nat /\ queue \in Seq(Event)
  BY ConstantsAssumption DEF MonitorInv, TypeOK, Unannounced
<1>5. Len(queue) = pipe + Cardinality(Holding) + Unannounced
  BY <1>3 DEF MonitorInv, WakeupAccounting
<1>6. Len(queue) > 0
  BY <1>2, <1>4, <1>5, HoldingFinite
<1> QED BY <1>4, <1>6, EmptySeq

(* The initial states satisfy the invariant.                               *)
LEMMA InitInv == Init => MonitorInv
<1> SUFFICES ASSUME Init PROVE MonitorInv
  OBVIOUS
<1>1. TypeOK
  <2>1. <<>> \in Seq(Event)
    BY EmptySeq
  <2>2. 0 \in 0..PipeCap
    BY ConstantsAssumption
  <2>3. rpc \in [Readers -> ReaderPCs]
    BY DEF Init, ReaderPCs
  <2> QED BY <2>1, <2>2, <2>3 DEF Init, TypeOK, OwnerPCs, ThreadPCs
<1>2. Phases
  BY DEF Init, Phases
<1>3. WakeupAccounting
  BY DEF Init, WakeupAccounting
<1> QED BY <1>1, <1>2, <1>3 DEF MonitorInv

(* No step of any actor takes a variable out of its type.                  *)
LEMMA TypeStep == MonitorInv /\ [Next]_vars => TypeOK'
<1> SUFFICES ASSUME MonitorInv, [Next]_vars PROVE TypeOK'
  OBVIOUS
<1> USE DEF MonitorInv, TypeOK, OwnerPCs, ThreadPCs, ReaderPCs, Fault, vars,
        owner, fds, thread, devd, app
<1>1. CASE New
  BY <1>1 DEF New
<1>2. CASE NewFails
  BY <1>2 DEF NewFails
<1>3. CASE Enable
  BY <1>3 DEF Enable
<1>4. CASE EnableFails
  BY <1>4 DEF EnableFails
<1>5. CASE Ref
  BY <1>5 DEF Ref
<1>6. CASE Unref
  BY <1>6 DEF Unref, Phases
<1>7. CASE CloseRead
  <2>1. pipe' \in 0..PipeCap
    BY <1>7, ConstantsAssumption DEF CloseRead
  <2> QED BY <1>7, <2>1 DEF CloseRead
<1>8. CASE Join
  BY <1>8 DEF Join
<1>9. CASE CloseWrite
  BY <1>9 DEF CloseWrite
<1>10. CASE Free
  <2>1. queue' \in Seq(Event)
    BY <1>10, EmptySeq DEF Free
  <2> QED BY <1>10, <2>1 DEF Free
<1>11. ASSUME NEW f \in Kinds \cup {TagFilter}, FilterAdd(f) PROVE TypeOK'
  BY <1>11 DEF FilterAdd
<1>12. CASE StayConnected
  BY <1>12 DEF StayConnected
<1>13. CASE Connect
  BY <1>13 DEF Connect
<1>14. CASE ConnectFails
  BY <1>14 DEF ConnectFails
<1>15. CASE PollFinishing
  BY <1>15 DEF PollFinishing
<1>16. CASE PollError
  BY <1>16 DEF PollError
<1>17. CASE PollInterrupted
  BY <1>17 DEF PollInterrupted
<1>18. CASE PollRespawn
  BY <1>18 DEF PollRespawn, SocketReady
<1>19. CASE PollReady
  BY <1>19 DEF PollReady, SocketReady
<1>20. CASE RecvMessage
  BY <1>20 DEF RecvMessage
<1>21. CASE RecvFails
  BY <1>21 DEF RecvFails, CloseSocket
<1>22. CASE Match
  BY <1>22, ConstantsAssumption DEF Match
<1>23. CASE SendFails
  BY <1>23, ConstantsAssumption DEF SendFails
<1>24. CASE Insert
  <2>1. msg \in Event /\ msg.seq \in Nat
    BY <1>24 DEF Insert, Phases, Event
  <2>2. queue' \in Seq(Event)
    BY <1>24, <2>1, AppendProperties DEF Insert
  <2> QED BY <1>24, <2>1, <2>2 DEF Insert
<1>25. CASE Write
  BY <1>25, ConstantsAssumption DEF Write
<1>26. CASE WriteFails
  BY <1>26 DEF WriteFails
<1>27. CASE Undo
  <2>1. PICK i \in DOMAIN queue :
           queue' = SubSeq(queue, 1, i - 1) \o SubSeq(queue, i + 1, Len(queue))
    BY <1>27 DEF Undo
  <2>2. i \in 1..Len(queue) /\ Len(queue) \in Nat
    BY LenProperties
  <2>3. SubSeq(queue, 1, i - 1) \in Seq(Event)
    BY <2>2, SubSeqProperties
  <2>4. SubSeq(queue, i + 1, Len(queue)) \in Seq(Event)
    BY <2>2, SubSeqProperties
  <2>5. queue' \in Seq(Event)
    BY <2>1, <2>3, <2>4, ConcatProperties
  <2> QED BY <1>27, <2>5 DEF Undo
<1>28. CASE Hup
  <2>1. CASE "HUP" \in revents
    <3>1. sock' \in Seq(Event)
      BY <1>28, <2>1, EmptySeq DEF Hup, CloseSocket
    <3> QED BY <1>28, <2>1, <3>1 DEF Hup, CloseSocket
  <2>2. CASE "HUP" \notin revents
    BY <1>28, <2>2 DEF Hup
  <2> QED BY <2>1, <2>2
<1>29. CASE Exit
  BY <1>29 DEF Exit, CloseSocket
<1>30. ASSUME NEW r \in Readers, Receive(r) PROVE TypeOK'
  BY <1>30 DEF Receive
<1>31. ASSUME NEW r \in Readers, ReadToken(r) PROVE TypeOK'
  BY <1>31, ConstantsAssumption DEF ReadToken
<1>32. ASSUME NEW r \in Readers, ReadFails(r) PROVE TypeOK'
  BY <1>32 DEF ReadFails
<1>33. ASSUME NEW r \in Readers, Check(r) PROVE TypeOK'
  BY <1>33 DEF Check
<1>34. ASSUME NEW r \in Readers, Pop(r) PROVE TypeOK'
  <2>1. queue # <<>>
    BY <1>34, HoldersFindDevice DEF Pop
  <2>2. Head(queue) \in Event /\ Tail(queue) \in Seq(Event)
    BY <2>1, HeadTailProperties
  <2>3. delivered' \in Seq(Event)
    BY <1>34, <2>2, AppendProperties DEF Pop
  <2> QED BY <1>34, <2>2, <2>3 DEF Pop
<1>35. ASSUME NEW k \in Kinds, DevdSend(k) PROVE TypeOK'
  <2> DEFINE e == [seq |-> sent + 1, kind |-> k]
  <2>1. e \in Event
    BY <1>35, ConstantsAssumption DEF DevdSend, Event
  <2>2. sock' \in Seq(Event)
    BY <1>35, <2>1, AppendProperties DEF DevdSend
  <2> QED BY <1>35, <2>2 DEF DevdSend
<1>36. CASE DevdStart
  BY <1>36 DEF DevdStart
<1>37. CASE DevdHangup
  BY <1>37 DEF DevdHangup
<1>38. CASE UNCHANGED vars
  BY <1>38
<1> QED
  BY <1>1, <1>2, <1>3, <1>4, <1>5, <1>6, <1>7, <1>8, <1>9, <1>10, <1>11, <1>12,
       <1>13, <1>14, <1>15, <1>16, <1>17, <1>18, <1>19, <1>20, <1>21, <1>22,
       <1>23, <1>24, <1>25, <1>26, <1>27, <1>28, <1>29, <1>30, <1>31, <1>32,
       <1>33, <1>34, <1>35, <1>36, <1>37, <1>38 DEF Next, Owner, Teardown,
       Thread, Scheduled, Reader, Devd


(* Nor does one break the order of the owner's and the thread's phases.    *)
LEMMA PhasesStep == MonitorInv /\ [Next]_vars => Phases'
<1> SUFFICES ASSUME MonitorInv, [Next]_vars PROVE Phases'
  OBVIOUS
<1> USE DEF MonitorInv, Phases, Fault, vars, owner, fds, thread, devd, app
<1>1. CASE New
  BY <1>1 DEF New, TypeOK
<1>2. CASE NewFails
  BY <1>2 DEF NewFails
<1>3. CASE Enable
  BY <1>3 DEF Enable
<1>4. CASE EnableFails
  BY <1>4 DEF EnableFails
<1>5. CASE Ref
  BY <1>5 DEF Ref, TypeOK
<1>6. CASE Unref
  BY <1>6 DEF Unref, TypeOK
<1>7. CASE CloseRead
  BY <1>7 DEF CloseRead
<1>8. CASE Join
  BY <1>8 DEF Join
<1>9. CASE CloseWrite
  BY <1>9 DEF CloseWrite
<1>10. CASE Free
  BY <1>10 DEF Free
<1>11. ASSUME NEW f \in Kinds \cup {TagFilter}, FilterAdd(f) PROVE Phases'
  BY <1>11 DEF FilterAdd
<1>12. CASE StayConnected
  BY <1>12 DEF StayConnected
<1>13. CASE Connect
  BY <1>13 DEF Connect
<1>14. CASE ConnectFails
  BY <1>14 DEF ConnectFails
<1>15. CASE PollFinishing
  BY <1>15 DEF PollFinishing
<1>16. CASE PollError
  BY <1>16 DEF PollError
<1>17. CASE PollInterrupted
  BY <1>17 DEF PollInterrupted
<1>18. CASE PollRespawn
  BY <1>18 DEF PollRespawn
<1>19. CASE PollReady
  BY <1>19 DEF PollReady
<1>20. CASE RecvMessage
  <2>1. msg' \in Event
    BY <1>20, HeadTailProperties DEF RecvMessage, TypeOK
  <2> QED BY <1>20, <2>1 DEF RecvMessage
<1>21. CASE RecvFails
  BY <1>21 DEF RecvFails, CloseSocket
<1>22. CASE Match
  BY <1>22 DEF Match
<1>23. CASE SendFails
  BY <1>23 DEF SendFails
<1>24. CASE Insert
  BY <1>24 DEF Insert
<1>25. CASE Write
  BY <1>25 DEF Write
<1>26. CASE WriteFails
  BY <1>26 DEF WriteFails
<1>27. CASE Undo
  BY <1>27 DEF Undo
<1>28. CASE Hup
  BY <1>28 DEF Hup, CloseSocket
<1>29. CASE Exit
  BY <1>29 DEF Exit, CloseSocket
<1>30. ASSUME NEW r \in Readers, Receive(r) PROVE Phases'
  BY <1>30 DEF Receive, TypeOK
<1>31. ASSUME NEW r \in Readers, ReadToken(r) PROVE Phases'
  BY <1>31 DEF ReadToken, TypeOK
<1>32. ASSUME NEW r \in Readers, ReadFails(r) PROVE Phases'
  BY <1>32 DEF ReadFails, TypeOK
<1>33. ASSUME NEW r \in Readers, Check(r) PROVE Phases'
  BY <1>33 DEF Check, TypeOK
<1>34. ASSUME NEW r \in Readers, Pop(r) PROVE Phases'
  BY <1>34 DEF Pop, TypeOK
<1>35. ASSUME NEW k \in Kinds, DevdSend(k) PROVE Phases'
  BY <1>35 DEF DevdSend
<1>36. CASE DevdStart
  BY <1>36 DEF DevdStart
<1>37. CASE DevdHangup
  BY <1>37 DEF DevdHangup
<1>38. CASE UNCHANGED vars
  BY <1>38
<1> QED
  BY <1>1, <1>2, <1>3, <1>4, <1>5, <1>6, <1>7, <1>8, <1>9, <1>10, <1>11, <1>12,
       <1>13, <1>14, <1>15, <1>16, <1>17, <1>18, <1>19, <1>20, <1>21, <1>22,
       <1>23, <1>24, <1>25, <1>26, <1>27, <1>28, <1>29, <1>30, <1>31, <1>32,
       <1>33, <1>34, <1>35, <1>36, <1>37, <1>38 DEF Next, Owner, Teardown,
       Thread, Scheduled, Reader, Devd

(* The accounting is disturbed by the steps that touch the queue, the      *)
(* pipe, the receivers that hold a byte, or the byte that is due; each of  *)
(* them moves one device or one byte from one term of the sum to another.  *)
LEMMA AccountingStep == MonitorInv /\ [Next]_vars => WakeupAccounting'
<1> SUFFICES ASSUME MonitorInv, [Next]_vars, rdOpen'
             PROVE  Len(queue') = pipe' + Cardinality(Holding') + Unannounced'
  BY DEF WakeupAccounting
<1> DEFINE Sum == pipe + Cardinality(Holding) + Unannounced
           Quiet == /\ UNCHANGED <<rdOpen, queue, pipe, rpc>>
                    /\ tpc' = "write" <=> tpc = "write"
<1>a. /\ queue \in Seq(Event) /\ Len(queue) \in Nat
      /\ pipe \in Nat /\ Unannounced \in Nat
      /\ Cardinality(Holding) \in Nat
      /\ rpc \in [Readers -> ReaderPCs]
  BY HoldingFinite, LenProperties, ConstantsAssumption
     DEF MonitorInv, TypeOK, Unannounced
<1>b. rdOpen => Len(queue) = Sum
  BY DEF MonitorInv, WakeupAccounting
<1>c. rpc' = rpc => Holding' = Holding
  BY DEF Holding
<1>1. ASSUME Quiet PROVE Len(queue') = pipe' + Cardinality(Holding') + Unannounced'
  BY <1>1, <1>b, <1>c DEF Unannounced
<1>2. CASE Owner
  <2>1. CASE New
    <3>1. queue = <<>> /\ pipe = 0 /\ tpc = "none"
      BY <2>1 DEF New, MonitorInv, Phases
    <3>2. \A r \in Readers : rpc[r] = "idle"
      BY <2>1 DEF New, MonitorInv, Phases
    <3>3. UNCHANGED <<queue, pipe, rpc, tpc>>
      BY <2>1 DEF New, thread, app
    <3> QED BY <3>1, <3>2, <3>3, <1>a, <1>c, HoldingFinite DEF Unannounced
  <2>2. CASE Enable
    BY <2>2, <1>1 DEF Enable, owner, fds, app
  <2>3. CASE CloseRead \/ Free
    BY <2>3 DEF CloseRead, Free, fds, MonitorInv, Phases
  <2>4. CASE NewFails \/ EnableFails \/ Ref \/ Unref \/ Join \/ CloseWrite
    BY <2>4, <1>1
       DEF NewFails, EnableFails, Ref, Unref, Join, CloseWrite, fds, thread, app
  <2>5. ASSUME NEW f \in Kinds \cup {TagFilter}, FilterAdd(f) PROVE Quiet
    BY <2>5 DEF FilterAdd, fds, thread, app
  <2> QED BY <1>2, <1>1, <2>1, <2>2, <2>3, <2>4, <2>5 DEF Owner, Teardown
<1>3. CASE Thread
  <2>1. CASE Insert
    <3>1. msg \in Event /\ tpc = "send" /\ tpc' = "write"
      BY <2>1 DEF Insert, MonitorInv, Phases
    <3>2. UNCHANGED <<rdOpen, pipe, rpc>>
      BY <2>1 DEF Insert, fds, app
    <3>3. Len(queue') = Len(queue) + 1
      BY <2>1, <3>1, <1>a, AppendProperties DEF Insert
    <3> QED BY <3>1, <3>2, <3>3, <1>a, <1>b, <1>c DEF Unannounced
  <2>2. CASE Write
    <3>1. UNCHANGED <<rdOpen, queue, rpc>> /\ tpc = "write" /\ tpc' = "hup"
      BY <2>2 DEF Write, app
    <3>2. pipe' = pipe + 1
      BY <2>2 DEF Write
    <3> QED BY <3>1, <3>2, <1>a, <1>b, <1>c DEF Unannounced
  <2>3. CASE WriteFails \/ Undo
    BY <2>3 DEF WriteFails, Undo, fds, MonitorInv, Phases
  <2>4. CASE StayConnected \/ Connect \/ ConnectFails \/ RecvMessage \/ RecvFails
    BY <2>4, <1>1 DEF StayConnected, Connect, ConnectFails, RecvMessage,
                      RecvFails, fds, app
  <2>5. CASE PollFinishing \/ PollError \/ PollInterrupted \/ PollRespawn \/ PollReady
    BY <2>5, <1>1 DEF PollFinishing, PollError, PollInterrupted, PollRespawn,
                      PollReady, fds, app
  <2>6. CASE Match \/ SendFails \/ Hup \/ Exit
    BY <2>6, <1>1 DEF Match, SendFails, Hup, Exit, fds, app
  <2> QED BY <1>3, <2>1, <2>2, <2>3, <2>4, <2>5, <2>6 DEF Thread, Scheduled
<1>4. ASSUME NEW r \in Readers, Reader(r)
      PROVE  Len(queue') = pipe' + Cardinality(Holding') + Unannounced'
  <2>1. CASE Receive(r) \/ ReadFails(r)
    <3>1. Holding' = Holding
      BY <2>1, <1>a DEF Receive, ReadFails, Holding
    <3>2. UNCHANGED <<rdOpen, pipe, queue, tpc>>
      BY <2>1 DEF Receive, ReadFails, fds, thread
    <3> QED BY <3>1, <3>2, <1>a, <1>b DEF Unannounced
  <2>2. CASE ReadToken(r)
    <3>1. Holding' = Holding \cup {r} /\ r \notin Holding
      BY <2>2, <1>a DEF ReadToken, Holding
    <3>2. Cardinality(Holding') = Cardinality(Holding) + 1
      BY <3>1, HoldingFinite, FS_AddElement
    <3>3. UNCHANGED <<rdOpen, queue, tpc>> /\ pipe' = pipe - 1
      BY <2>2 DEF ReadToken, thread
    <3> QED BY <3>2, <3>3, <1>a, <1>b DEF Unannounced
  <2>3. CASE Check(r)
    <3>1. queue # <<>>
      BY <2>3, HoldersFindDevice DEF Check
    <3>2. Holding' = Holding
      BY <2>3, <3>1, <1>a DEF Check, Holding
    <3>3. UNCHANGED <<rdOpen, pipe, queue, tpc>>
      BY <2>3 DEF Check, fds, thread
    <3> QED BY <3>2, <3>3, <1>a, <1>b DEF Unannounced
  <2>4. CASE Pop(r)
    <3>1. Holding' = Holding \ {r} /\ r \in Holding
      BY <2>4, <1>a DEF Pop, Holding
    <3>2. Cardinality(Holding') = Cardinality(Holding) - 1
      BY <3>1, HoldingFinite, FS_RemoveElement
    <3>3. queue # <<>>
      BY <2>4, HoldersFindDevice DEF Pop
    <3>4. Len(queue') = Len(queue) - 1
      BY <2>4, <3>3, <1>a, HeadTailProperties DEF Pop
    <3>5. UNCHANGED <<rdOpen, pipe, tpc>>
      BY <2>4 DEF Pop, fds, thread
    <3> QED BY <3>2, <3>4, <3>5, <1>a, <1>b DEF Unannounced
  <2> QED BY <1>4, <2>1, <2>2, <2>3, <2>4 DEF Reader
<1>5. CASE Devd
  BY <1>5, <1>1 DEF Devd, DevdSend, DevdStart, DevdHangup, fds, thread, app
<1>6. CASE UNCHANGED vars
  BY <1>6, <1>1 DEF vars, fds, thread, app
<1> QED BY <1>2, <1>3, <1>4, <1>5, <1>6 DEF Next

(* The inductive invariant holds in every reachable state.                 *)
THEOREM MonitorInvariant == Spec => []MonitorInv
<1>1. MonitorInv /\ [Next]_vars => MonitorInv'
  BY TypeStep, PhasesStep, AccountingStep DEF MonitorInv
<1> QED BY InitInv, <1>1, PTL DEF Spec

(* Every variable keeps its type.                                          *)
THEOREM TypeCorrect == Spec => []TypeOK
<1>1. MonitorInv => TypeOK
  BY DEF MonitorInv
<1> QED BY MonitorInvariant, <1>1, PTL

(* While the application can read, devices and wake-up bytes match one to  *)
(* one (udev_monitor_send_device, udev_monitor_receive_device).            *)
THEOREM WakeupsMatchDevices == Spec => []WakeupAccounting
<1>1. MonitorInv => WakeupAccounting
  BY DEF MonitorInv
<1> QED BY MonitorInvariant, <1>1, PTL

(* However many receivers race, one that has read a byte is never turned   *)
(* away by the unlocked test and never removes from an empty queue.        *)
THEOREM ReceiversFindDevice == Spec => []ReceiveFindsDevice
<1>1. MonitorInv => ReceiveFindsDevice
  BY HoldersFindDevice DEF ReceiveFindsDevice
<1> QED BY MonitorInvariant, <1>1, PTL

(* udev_monitor_unref takes the monitor apart with nobody left inside.     *)
THEOREM TeardownIsSafe == Spec => []SafeTeardown
<1>1. MonitorInv => SafeTeardown
  BY DEF MonitorInv, TypeOK, Phases, SafeTeardown, OwnerPCs
<1> QED BY MonitorInvariant, <1>1, PTL

-----------------------------------------------------------------------------
(* Facts about sequences that the refinement uses.                         *)

(* Taking the head of the second part leaves the whole unchanged.          *)
LEMMA MoveHead ==
    ASSUME NEW S, NEW s \in Seq(S), NEW t \in Seq(S), t # <<>>
    PROVE  /\ Append(s, Head(t)) \o Tail(t) = s \o t
           /\ Len(Append(s, Head(t))) = Len(s) + 1
<1> DEFINE u == Append(s, Head(t))
<1>1. Head(t) \in S /\ Tail(t) \in Seq(S) /\ Len(Tail(t)) = Len(t) - 1
  BY HeadTailProperties
<1>2. u \in Seq(S) /\ Len(u) = Len(s) + 1
  BY <1>1, AppendProperties
<1>3. \A i \in 1..Len(u) : u[i] = IF i <= Len(s) THEN s[i] ELSE Head(t)
  BY <1>1, AppendProperties, LenProperties
<1>4. \A i \in 1..Len(Tail(t)) : Tail(t)[i] = t[i + 1]
  BY HeadTailProperties
<1>5. u \o Tail(t) \in Seq(S) /\ s \o t \in Seq(S)
  BY <1>1, <1>2, ConcatProperties
<1>6. Len(u \o Tail(t)) = Len(s \o t)
  BY <1>1, <1>2, ConcatProperties, LenProperties
<1>7. ASSUME NEW i \in 1..Len(u \o Tail(t)) PROVE (u \o Tail(t))[i] = (s \o t)[i]
  <2> Head(t) = t[1]
    BY HeadTailProperties
  <2>1. CASE i <= Len(s)
    BY <1>1, <1>2, <1>3, <1>6, <2>1, ConcatProperties, LenProperties
  <2>2. CASE i = Len(s) + 1
    BY <1>1, <1>2, <1>3, <1>6, <2>2, ConcatProperties, LenProperties
  <2>3. CASE i > Len(s) + 1
    BY <1>1, <1>2, <1>4, <1>6, <2>3, ConcatProperties, LenProperties
  <2> QED BY <1>7, <1>2, <2>1, <2>2, <2>3, LenProperties, ConcatProperties
<1> HIDE DEF u
<1>8. u \o Tail(t) = s \o t
  BY <1>5, <1>6, <1>7, SeqEqual
<1> QED BY <1>2, <1>8 DEF u

(* Appending to the second part appends to the whole.                      *)
LEMMA AppendToSecond ==
    ASSUME NEW S, NEW s \in Seq(S), NEW t \in Seq(S), NEW e \in S
    PROVE  s \o Append(t, e) = Append(s \o t, e)
<1>1. <<e>> \in Seq(S)
  OBVIOUS
<1>2. Append(t, e) = t \o <<e>>
  BY AppendIsConcat
<1>3. s \o t \in Seq(S) /\ Append(s \o t, e) = (s \o t) \o <<e>>
  BY ConcatProperties, AppendIsConcat
<1>4. (s \o t) \o <<e>> = s \o (t \o <<e>>)
  BY <1>1, ConcatAssociative
<1> QED BY <1>2, <1>3, <1>4

(* The first part of a concatenation.                                      *)
LEMMA FirstPart ==
    ASSUME NEW S, NEW s \in Seq(S), NEW t \in Seq(S)
    PROVE  SubSeq(s \o t, 1, Len(s)) = s
<1> DEFINE u == SubSeq(s \o t, 1, Len(s))
<1>1. s \o t \in Seq(S) /\ Len(s \o t) = Len(s) + Len(t)
  BY ConcatProperties
<1>2. u \in Seq(S) /\ Len(u) = Len(s) /\ \A i \in 1..Len(s) : u[i] = (s \o t)[i]
  BY <1>1, SubSeqProperties, LenProperties
<1>3. \A i \in 1..Len(s) : (s \o t)[i] = s[i]
  BY ConcatProperties, LenProperties
<1> QED BY <1>2, <1>3, SeqEqual

-----------------------------------------------------------------------------
(* The refinement: insertion publishes, the byte announces, removal takes, *)
(* and closing the reading end closes the channel.                         *)

(* Before New there is an empty, open channel.                             *)
LEMMA InitRefines == Init => Channel!Init
<1> SUFFICES ASSUME Init PROVE Channel!Init
  OBVIOUS
<1>1. ~Finished
  BY DEF Init, Finished
<1>2. Cardinality(Holding) = 0
  BY HoldingFinite DEF Init
<1>3. <<>> \o <<>> = <<>> /\ Len(<<>>) = 0
  OBVIOUS
<1> QED BY <1>1, <1>2, <1>3 DEF Init, Channel!Init, Log, Announced

(* Every step of the monitor is a step of the channel or silent.           *)
LEMMA StepRefines == MonitorInv /\ [Next]_vars => [Channel!Next]_Channel!vars
<1> SUFFICES ASSUME MonitorInv, [Next]_vars PROVE [Channel!Next]_Channel!vars
  OBVIOUS
<1> DEFINE Silent == UNCHANGED <<Log, Announced, Len(delivered), Finished>>
<1>a. /\ queue \in Seq(Event) /\ Len(queue) \in Nat
      /\ delivered \in Seq(Event) /\ Len(delivered) \in Nat
      /\ pipe \in Nat /\ Cardinality(Holding) \in Nat
      /\ rpc \in [Readers -> ReaderPCs] /\ opc \in OwnerPCs
  BY HoldingFinite, LenProperties, ConstantsAssumption DEF MonitorInv, TypeOK
<1>b. ~Finished /\ tpc # "none" =>
          rdOpen /\ Len(queue) = pipe + Cardinality(Holding) + Unannounced
  BY <1>a DEF Finished, MonitorInv, Phases, WakeupAccounting, OwnerPCs
<1>c. Finished => \A r \in Readers : rpc[r] = "idle"
  BY DEF Finished, MonitorInv, Phases
<1>d. rpc' = rpc => Holding' = Holding
  BY DEF Holding
<1>e. Len(delivered \o queue) = Len(delivered) + Len(queue)
  BY <1>a, ConcatProperties
<1>s. Silent => [Channel!Next]_Channel!vars
  BY DEF Channel!vars
<1>1. ASSUME UNCHANGED <<queue, pipe, rpc, delivered, Finished>> PROVE Silent
  BY <1>1, <1>d DEF Log, Announced
<1>2. ASSUME Finished, Finished', UNCHANGED delivered PROVE Silent
  BY <1>2 DEF Log, Announced
<1>3. CASE Owner
  <2>1. CASE New \/ NewFails \/ Enable \/ EnableFails \/ Ref \/ Unref
    BY <2>1, <1>s, <1>1
       DEF New, NewFails, Enable, EnableFails, Ref, Unref, owner, fds, app,
               Finished
  <2>2. ASSUME NEW f \in Kinds \cup {TagFilter}, FilterAdd(f) PROVE Silent
    BY <2>2, <1>1 DEF FilterAdd, fds, app, Finished
  <2>3. CASE CloseRead
    <3>1. ~Finished /\ Finished' /\ delivered' = delivered
      BY <2>3 DEF CloseRead, Finished, app
    <3>2. Log' = SubSeq(Log, 1, Len(delivered))
      BY <3>1, <1>a, FirstPart DEF Log
    <3>3. Channel!Close
      BY <3>1, <3>2 DEF Channel!Close, Announced
    <3> QED BY <3>3 DEF Channel!Next
  <2>4. CASE Join \/ CloseWrite \/ Free
    BY <2>4, <1>s, <1>2 DEF Join, CloseWrite, Free, Finished, app
  <2> QED BY <1>3, <1>s, <2>1, <2>2, <2>3, <2>4 DEF Owner, Teardown
<1>4. CASE Thread
  <2>1. CASE Insert
    <3>1. msg \in Event /\ tpc = "send" /\ queue' = Append(queue, msg)
      BY <2>1 DEF Insert, MonitorInv, Phases
    <3>2. UNCHANGED <<pipe, rpc, delivered, opc, Finished>>
      BY <2>1 DEF Insert, fds, app, owner, Finished
    <3>3. CASE Finished
      BY <1>s, <1>2, <3>2, <3>3
    <3>4. CASE ~Finished
      <4>1. Announced = Len(Log)
        <5>1. tpc # "none" /\ Unannounced = 0
          BY <3>1 DEF Unannounced
        <5>2. Len(queue) = pipe + Cardinality(Holding)
          BY <1>a, <1>b, <3>4, <5>1
        <5> QED BY <1>a, <1>e, <3>4, <5>2 DEF Log, Announced
      <4>2. Log' = Append(Log, msg)
        BY <1>a, <3>1, <3>2, <3>4, AppendToSecond DEF Log
      <4>3. UNCHANGED <<Announced, Len(delivered), Finished>>
        BY <3>2, <1>d DEF Announced
      <4>4. Channel!Publish(msg)
        BY <3>4, <4>1, <4>2, <4>3 DEF Channel!Publish
      <4> QED BY <3>1, <4>4 DEF Channel!Next
    <3> QED BY <3>3, <3>4
  <2>2. CASE Write
    <3>1. tpc = "write" /\ rdOpen /\ pipe' = pipe + 1
      BY <2>2 DEF Write
    <3>2. UNCHANGED <<queue, rpc, delivered, opc, Finished>>
      BY <2>2 DEF Write, app, owner, Finished
    <3>3. ~Finished
      BY <3>1 DEF Finished, MonitorInv, Phases
    <3>4. Announced < Len(Log)
      BY <1>a, <1>b, <1>e, <3>1, <3>3 DEF Log, Announced, Unannounced
    <3>5. Announced' = Announced + 1
      BY <1>a, <1>d, <3>1, <3>2, <3>3 DEF Announced
    <3>6. UNCHANGED <<Log, Len(delivered), Finished>>
      BY <3>2 DEF Log
    <3>7. Channel!Announce
      BY <3>3, <3>4, <3>5, <3>6 DEF Channel!Announce
    <3> QED BY <3>7 DEF Channel!Next
  <2>3. CASE Undo
    <3>1. Finished
      BY <2>3, <1>a DEF Undo, Finished, MonitorInv, Phases, OwnerPCs
    <3>2. Finished' /\ delivered' = delivered
      BY <2>3, <3>1 DEF Undo, Finished, owner, app
    <3> QED BY <1>s, <1>2, <3>1, <3>2
  <2>4. CASE StayConnected \/ Connect \/ ConnectFails \/ RecvMessage \/ RecvFails
    BY <2>4, <1>s, <1>1 DEF StayConnected, Connect, ConnectFails, RecvMessage,
                            RecvFails, owner, fds, app, Finished
  <2>5. CASE PollFinishing \/ PollError \/ PollInterrupted \/ PollRespawn \/ PollReady
    BY <2>5, <1>s, <1>1 DEF PollFinishing, PollError, PollInterrupted,
         PollRespawn,
                            PollReady, owner, fds, app, Finished
  <2>6. CASE Match \/ SendFails \/ WriteFails \/ Hup \/ Exit
    BY <2>6, <1>s, <1>1 DEF Match, SendFails, WriteFails, Hup, Exit, owner,
         fds, app,
                            Finished
  <2> QED BY <1>4, <2>1, <2>2, <2>3, <2>4, <2>5, <2>6 DEF Thread, Scheduled
<1>5. ASSUME NEW r \in Readers, Reader(r) PROVE [Channel!Next]_Channel!vars
  <2>1. CASE Receive(r) \/ ReadFails(r)
    <3>1. Holding' = Holding
      BY <2>1, <1>a DEF Receive, ReadFails, Holding
    <3>2. UNCHANGED <<pipe, queue, delivered, Finished>>
      BY <2>1 DEF Receive, ReadFails, fds, owner, Finished
    <3> QED BY <3>1, <3>2, <1>s DEF Log, Announced
  <2>2. CASE ReadToken(r)
    <3>1. Holding' = Holding \cup {r} /\ r \notin Holding
      BY <2>2, <1>a DEF ReadToken, Holding
    <3>2. Cardinality(Holding') = Cardinality(Holding) + 1
      BY <3>1, HoldingFinite, FS_AddElement
    <3>3. UNCHANGED <<queue, delivered, Finished>> /\ pipe' = pipe - 1
      BY <2>2 DEF ReadToken, owner, Finished
    <3>4. Silent
      BY <3>2, <3>3, <1>a DEF Log, Announced
    <3> QED BY <3>4, <1>s
  <2>3. CASE Check(r)
    <3>1. queue # <<>>
      BY <2>3, HoldersFindDevice DEF Check
    <3>2. Holding' = Holding
      BY <2>3, <3>1, <1>a DEF Check, Holding
    <3>3. UNCHANGED <<pipe, queue, delivered, Finished>>
      BY <2>3 DEF Check, fds, owner, Finished
    <3> QED BY <3>2, <3>3, <1>s DEF Log, Announced
  <2>4. CASE Pop(r)
    <3>1. Holding' = Holding \ {r} /\ r \in Holding /\ ~Finished
      BY <2>4, <1>a, <1>c DEF Pop, Holding
    <3>2. Cardinality(Holding') = Cardinality(Holding) - 1 /\
            Cardinality(Holding) > 0
      <4>1. Cardinality(Holding') = Cardinality(Holding) - 1
        BY <3>1, HoldingFinite, FS_RemoveElement
      <4>2. Cardinality(Holding) # 0
        BY <3>1, HoldingFinite, FS_EmptySet
      <4> QED BY <4>1, <4>2, <1>a
    <3>3. queue # <<>>
      BY <2>4, HoldersFindDevice DEF Pop
    <3>4. UNCHANGED <<pipe, Finished>>
      BY <2>4 DEF Pop, fds, owner, Finished
    <3>5. Log' = Log /\ Len(delivered') = Len(delivered) + 1
      BY <2>4, <3>1, <3>3, <3>4, <1>a, MoveHead DEF Pop, Log
    <3>6. Announced' = Announced
      BY <3>1, <3>2, <3>4, <3>5, <1>a DEF Announced
    <3>7. Len(delivered) < Announced
      BY <3>1, <3>2, <1>a DEF Announced
    <3>8. Channel!Take
      BY <3>1, <3>4, <3>5, <3>6, <3>7 DEF Channel!Take
    <3> QED BY <3>8 DEF Channel!Next
  <2> QED BY <1>5, <2>1, <2>2, <2>3, <2>4 DEF Reader
<1>6. CASE Devd
  BY <1>6, <1>s, <1>1 DEF Devd, DevdSend, DevdStart, DevdHangup, owner, fds,
       app, Finished
<1>7. CASE UNCHANGED vars
  BY <1>7, <1>s, <1>1 DEF vars, owner, fds, app, Finished
<1> QED BY <1>3, <1>4, <1>5, <1>6, <1>7 DEF Next

(* The monitor keeps the promise of EventChannel: nothing is taken before  *)
(* it is announced, everything in the order of publication, each once.     *)
THEOREM MonitorImplementsChannel == Spec => ChannelSpec
  BY InitRefines, StepRefines, MonitorInvariant, PTL
     DEF Spec, ChannelSpec, Channel!Spec

-----------------------------------------------------------------------------

(* Between poll(2) and the end of the iteration: a connection that devd    *)
(* has kept was not noted as hung up, and it was found readable because of *)
(* a message.  Elsewhere revents may be those of a connection that is gone.*)
Noted ==
    conn = "up" /\ tpc \in {"recv", "match", "send", "write", "undo", "hup"} =>
        "HUP" \notin revents /\ (tpc = "recv" => sock # <<>>)

LEMMA NotedStep ==
    ASSUME MonitorInv, Noted, [Next]_vars
    PROVE  Noted'
<1> USE DEF Noted, owner, fds, thread, devd, app, vars
<1>1. CASE Owner
  <2>1. UNCHANGED <<conn, sock, revents>>
    BY <1>1 DEF Owner, New, NewFails, FilterAdd, Enable, EnableFails, Ref, Unref,
                Teardown, CloseRead, Join, CloseWrite, Free
  <2>2. tpc' = tpc \/ tpc' = "connect"
    BY <1>1 DEF Owner, New, NewFails, FilterAdd, Enable, EnableFails, Ref, Unref,
                Teardown, CloseRead, Join, CloseWrite, Free
  <2> QED BY <2>1, <2>2
<1>2. CASE PollReady
  BY <1>2 DEF PollReady, SocketReady
<1>3. CASE Thread /\ tpc' \in {"none", "connect", "poll", "exit", "done"}
  BY <1>3
<1>4. CASE RecvMessage \/ Match \/ SendFails \/ Insert \/ Write \/ WriteFails \/ Undo
  <2>1. /\ UNCHANGED <<conn, revents>>
        /\ tpc \in {"recv", "match", "send", "write", "undo"} /\ tpc' # "recv"
    BY <1>4 DEF RecvMessage, Match, SendFails, Insert, Write, WriteFails, Undo
  <2> QED BY <2>1
<1>5. CASE Thread
  <2>1. \/ PollReady \/ RecvMessage \/ Match \/ SendFails \/ Insert \/ Write
        \/ WriteFails \/ Undo \/ tpc' \in {"none", "connect", "poll", "exit", "done"}
    BY <1>5 DEF Thread, Scheduled, StayConnected, Connect, ConnectFails,
                PollFinishing, PollError, PollRespawn, PollInterrupted, RecvFails,
                Hup, Exit
  <2> QED BY <1>2, <1>3, <1>4, <1>5, <2>1
<1>6. ASSUME NEW r \in Readers, Reader(r) PROVE Noted'
  <2>1. UNCHANGED <<conn, sock, revents, tpc>>
    BY <1>6 DEF Reader, Receive, ReadToken, ReadFails, Check, Pop
  <2> QED BY <2>1
<1>7. ASSUME NEW k \in Kinds, DevdSend(k) PROVE Noted'
  <2>1. /\ UNCHANGED <<conn, revents, tpc>>
        /\ conn = "up" => \E e : sock' = Append(sock, e)
    BY <1>7 DEF DevdSend
  <2>2. sock \in Seq(Event)
    BY DEF MonitorInv, TypeOK
  <2>3. \A e : Append(sock, e) # <<>>
    BY <2>2
  <2> QED BY <2>1, <2>3
<1>8. CASE DevdStart \/ DevdHangup
  BY <1>8 DEF DevdStart, DevdHangup
<1>9. CASE UNCHANGED vars
  BY <1>9
<1> QED BY <1>1, <1>5, <1>6, <1>7, <1>8, <1>9 DEF Next, Devd

(* A connection that devd keeps is closed only because of a failure or to  *)
(* finish (udev_monitor_thread, src/udev-monitor.c): POLLHUP and a recv(2) *)
(* without a message are only met by one that devd has hung up.            *)
THEOREM LiveConnectionKept == Spec => KeepsLiveConnection
<1>1. Init => Noted
  BY DEF Init, Noted
<1>2. ASSUME MonitorInv, Noted, [Next]_vars
      PROVE  [conn = "up" /\ conn' = "none" => faults' > faults \/ tpc = "exit"]_vars
  <2> USE DEF owner, fds, thread, devd, app, vars
  <2> SUFFICES ASSUME Next, conn = "up", conn' = "none"
               PROVE  faults' > faults \/ tpc = "exit"
    BY <1>2
  <2>1. Thread
    BY DEF Next, Owner, New, NewFails, FilterAdd, Enable, EnableFails, Ref, Unref,
           Teardown, CloseRead, Join, CloseWrite, Free, Reader, Receive, ReadToken,
           ReadFails, Check, Pop, Devd, DevdSend, DevdStart, DevdHangup
  <2>2. RecvFails \/ Hup \/ Exit
    BY <2>1 DEF Thread, Scheduled, StayConnected, Connect, ConnectFails,
                PollFinishing, PollError, PollRespawn, PollReady, PollInterrupted,
                RecvMessage, Match, SendFails, Insert, Write, WriteFails, Undo
  <2>3. CASE RecvFails
    <3>1. sock # <<>> /\ faults \in Nat
      BY <1>2, <2>3 DEF Noted, RecvFails, MonitorInv, TypeOK
    <3> QED BY <2>3, <3>1 DEF RecvFails, Fault
  <2>4. ~Hup
    BY <1>2 DEF Noted, Hup
  <2> QED BY <2>2, <2>3, <2>4 DEF Exit
<1> QED BY <1>1, <1>2, NotedStep, MonitorInvariant, PTL DEF Spec, KeepsLiveConnection

(* The events of S were sent before those of T.                            *)
Before(S, T) == \A x \in S, y \in T : x.seq < y.seq

Ordered(s) == \A m, n \in 1..Len(s) : m < n => s[m].seq < s[n].seq

(* What the thread has received and not yet queued or given up.            *)
Hand == IF tpc \in {"match", "send"} THEN {msg} ELSE {}

(* Where the parts of the way from devd to the application stand to each   *)
(* other, and to what devd has sent.                                       *)
WayInOrder ==
    /\ Ordered(delivered) /\ Ordered(queue) /\ Ordered(sock)
    /\ Before(Elements(delivered), Elements(queue))
    /\ Before(Elements(delivered) \cup Elements(queue), Hand)
    /\ Before(Elements(delivered) \cup Elements(queue) \cup Hand,
              Elements(sock))
    /\ \A x \in Elements(delivered) \cup Elements(queue) \cup Hand
                \cup Elements(sock) : x.seq <= sent

OrderInv == MonitorInv /\ WayInOrder /\ Ownership

-----------------------------------------------------------------------------
(* Sequences of events.                                                    *)

(* The elements by their places.                                           *)
LEMMA ElementAt ==
    ASSUME NEW s \in Seq(Event)
    PROVE  /\ \A n \in 1..Len(s) : s[n] \in Elements(s)
           /\ \A x \in Elements(s) : \E n \in 1..Len(s) : x = s[n]
BY DEF Elements

(* The elements are events, and have numbers.                              *)
LEMMA ElementsType ==
    ASSUME NEW s \in Seq(Event)
    PROVE  /\ Elements(s) \subseteq Event
           /\ \A x \in Elements(s) : x.seq \in Nat
<1>1. \A n \in 1..Len(s) : s[n] \in Event
  OBVIOUS
<1>2. Elements(s) \subseteq Event
  BY <1>1 DEF Elements
<1>3. \A x \in Event : x.seq \in Nat
  BY ConstantsAssumption DEF Event
<1> QED BY <1>2, <1>3

(* An event added at the end.                                              *)
LEMMA AddLast ==
    ASSUME NEW s \in Seq(Event), NEW e \in Event
    PROVE  /\ Append(s, e) \in Seq(Event)
           /\ Elements(Append(s, e)) = Elements(s) \cup {e}
           /\ Ordered(s) /\ Before(Elements(s), {e}) => Ordered(Append(s, e))
<1>1. /\ Append(s, e) \in Seq(Event) /\ Len(s) \in Nat
      /\ Len(Append(s, e)) = Len(s) + 1
      /\ \A n \in 1..Len(s) : Append(s, e)[n] = s[n]
      /\ Append(s, e)[Len(s) + 1] = e
  OBVIOUS
<1>2. Elements(Append(s, e)) = Elements(s) \cup {e}
  <2>1. \A n : n \in 1..Len(s) + 1 <=> n \in 1..Len(s) \/ n = Len(s) + 1
    BY <1>1
  <2> QED BY <1>1, <2>1 DEF Elements
<1>3. ASSUME Ordered(s), Before(Elements(s), {e}) PROVE Ordered(Append(s, e))
  <2>1. \A m \in 1..Len(s) : s[m].seq < e.seq
    BY <1>3 DEF Before, Elements
  <2> QED BY <1>1, <1>3, <2>1 DEF Ordered
<1> QED BY <1>1, <1>2, <1>3

(* An event taken from the front.                                          *)
LEMMA TakeFirst ==
    ASSUME NEW s \in Seq(Event), s # <<>>
    PROVE  /\ Head(s) \in Event /\ Tail(s) \in Seq(Event)
           /\ Elements(s) = {Head(s)} \cup Elements(Tail(s))
           /\ Ordered(s) => /\ Ordered(Tail(s))
                            /\ Before({Head(s)}, Elements(Tail(s)))
<1>1. /\ Len(s) \in Nat /\ Len(s) > 0 /\ Head(s) = s[1] /\ Head(s) \in Event
      /\ Tail(s) \in Seq(Event) /\ Len(Tail(s)) = Len(s) - 1
      /\ \A n \in 1..Len(s) - 1 : Tail(s)[n] = s[n + 1]
  OBVIOUS
<1>2. Elements(s) = {Head(s)} \cup Elements(Tail(s))
  <2>1. ASSUME NEW n \in 1..Len(s)
        PROVE  s[n] \in {Head(s)} \cup Elements(Tail(s))
    <3>1. CASE n = 1
      BY <1>1, <3>1
    <3>2. CASE n # 1
      <4>1. n - 1 \in 1..Len(Tail(s)) /\ Tail(s)[n - 1] = s[n]
        BY <1>1, <3>2
      <4> QED BY <1>1, <4>1, ElementAt
    <3> QED BY <3>1, <3>2
  <2>2. ASSUME NEW n \in 1..Len(Tail(s)) PROVE Tail(s)[n] \in Elements(s)
    <3>1. n + 1 \in 1..Len(s) /\ Tail(s)[n] = s[n + 1]
      BY <1>1
    <3> QED BY <3>1, ElementAt
  <2>3. Head(s) \in Elements(s)
    BY <1>1, ElementAt
  <2>4. \A x \in Elements(s) : x \in {Head(s)} \cup Elements(Tail(s))
    BY <2>1, ElementAt
  <2>5. \A x \in Elements(Tail(s)) : x \in Elements(s)
    BY <1>1, <2>2, ElementAt
  <2> QED BY <2>3, <2>4, <2>5
<1>3. ASSUME Ordered(s)
      PROVE  Ordered(Tail(s)) /\ Before({Head(s)}, Elements(Tail(s)))
  BY <1>1, <1>3 DEF Ordered, Before, Elements
<1> QED BY <1>1, <1>2, <1>3

(* An event taken out of the middle.                                       *)
LEMMA TakeOut ==
    ASSUME NEW s \in Seq(Event), NEW k \in 1..Len(s), Ordered(s)
    PROVE  LET r == SubSeq(s, 1, k - 1) \o SubSeq(s, k + 1, Len(s))
           IN /\ r \in Seq(Event) /\ Ordered(r)
              /\ Elements(s) = Elements(r) \cup {s[k]}
              /\ s[k].seq \notin Seqs(r)
<1> DEFINE a == SubSeq(s, 1, k - 1)
           b == SubSeq(s, k + 1, Len(s))
           r == a \o b
<1>1. Len(s) \in Nat /\ k \in Nat /\ 1 <= k /\ k <= Len(s)
  OBVIOUS
<1>2. /\ a \in Seq(Event) /\ Len(a) = k - 1
      /\ \A n \in 1..k - 1 : a[n] = s[n]
  BY <1>1
<1>3. /\ b \in Seq(Event) /\ Len(b) = Len(s) - k
      /\ \A n \in 1..Len(s) - k : b[n] = s[n + k]
  BY <1>1
<1> HIDE DEF a, b
<1>4. /\ r \in Seq(Event) /\ Len(r) = Len(s) - 1
      /\ \A n \in 1..Len(s) - 1 : r[n] = IF n < k THEN s[n] ELSE s[n + 1]
  <2>1. Len(r) = Len(s) - 1 /\ r \in Seq(Event)
    <3>1. r \in Seq(Event) /\ Len(r) = Len(a) + Len(b)
      BY <1>2, <1>3, ConcatProperties
    <3> QED BY <1>1, <1>2, <1>3, <3>1
  <2>2. ASSUME NEW n \in 1..Len(s) - 1, n < k PROVE r[n] = s[n]
    <3>1. n \in 1..Len(a) /\ n \in 1..k - 1
      BY <1>1, <1>2, <2>2
    <3>2. r[n] = a[n]
      BY <1>2, <1>3, <3>1
    <3> QED BY <1>2, <3>1, <3>2
  <2>3. ASSUME NEW n \in 1..Len(s) - 1, ~(n < k) PROVE r[n] = s[n + 1]
    <3>1. r[n] = b[n - (k - 1)]
      BY <1>1, <1>2, <1>3, <2>3
    <3>2. n - (k - 1) \in 1..Len(s) - k /\ (n - (k - 1)) + k = n + 1
      BY <1>1, <2>3
    <3> QED BY <1>3, <3>1, <3>2
  <2> QED BY <2>1, <2>2, <2>3
<1> HIDE DEF r
<1>5. Ordered(r)
  <2> SUFFICES ASSUME NEW m \in 1..Len(r), NEW n \in 1..Len(r), m < n
               PROVE  r[m].seq < r[n].seq
    BY DEF Ordered
  <2> DEFINE place(p) == IF p < k THEN p ELSE p + 1
  <2>1. /\ r[m] = s[place(m)] /\ r[n] = s[place(n)]
        /\ place(m) \in 1..Len(s) /\ place(n) \in 1..Len(s)
        /\ place(m) < place(n)
    BY <1>1, <1>4
  <2> HIDE DEF place
  <2> QED BY <2>1 DEF Ordered
<1>6. Elements(s) = Elements(r) \cup {s[k]}
  <2>1. ASSUME NEW n \in 1..Len(s) PROVE s[n] \in Elements(r) \cup {s[k]}
    <3>1. CASE n < k
      <4>1. n \in 1..Len(r) /\ r[n] = s[n]
        BY <1>1, <1>4, <3>1
      <4> QED BY <1>4, <4>1, ElementAt
    <3>2. CASE n > k
      <4>1. n - 1 \in 1..Len(r) /\ r[n - 1] = s[n]
        BY <1>1, <1>4, <3>2
      <4> QED BY <1>4, <4>1, ElementAt
    <3> QED BY <1>1, <3>1, <3>2
  <2>2. ASSUME NEW n \in 1..Len(r) PROVE r[n] \in Elements(s)
    <3>1. n \in 1..Len(s) /\ n + 1 \in 1..Len(s)
      BY <1>1, <1>4
    <3> QED BY <1>4, <3>1, ElementAt
  <2>3. \A x \in Elements(s) : x \in Elements(r) \cup {s[k]}
    BY <2>1, ElementAt
  <2>4. \A x \in Elements(r) : x \in Elements(s)
    BY <1>4, <2>2, ElementAt
  <2> QED BY <2>3, <2>4, ElementAt
<1>7. s[k].seq \notin Seqs(r)
  <2>1. ASSUME NEW n \in 1..Len(r) PROVE r[n].seq # s[k].seq
    <3>1. \A m \in 1..Len(s) : s[m].seq \in Nat
      BY ElementsType, ElementAt
    <3>2. CASE n < k
      <4>1. r[n] = s[n] /\ n \in 1..Len(s)
        BY <1>1, <1>4, <3>2
      <4>2. s[n].seq < s[k].seq
        BY <3>2, <4>1 DEF Ordered
      <4> QED BY <3>1, <4>1, <4>2
    <3>3. CASE ~(n < k)
      <4>1. r[n] = s[n + 1] /\ n + 1 \in 1..Len(s) /\ k < n + 1
        BY <1>1, <1>4, <3>3
      <4>2. s[k].seq < s[n + 1].seq
        BY <4>1 DEF Ordered
      <4> QED BY <3>1, <4>1, <4>2
    <3> QED BY <3>2, <3>3
  <2>2. \A x \in Elements(r) : x.seq # s[k].seq
    BY <1>4, <2>1, ElementAt
  <2> QED BY <2>2 DEF Seqs
<1> QED BY <1>4, <1>5, <1>6, <1>7 DEF r, a, b

(* Parts that are in order, one before the other, make a sequence that is. *)
LEMMA JoinOrdered ==
    ASSUME NEW s \in Seq(Event), NEW t \in Seq(Event),
           Ordered(s), Ordered(t), Before(Elements(s), Elements(t))
    PROVE  /\ s \o t \in Seq(Event) /\ Ordered(s \o t)
           /\ Elements(s \o t) = Elements(s) \cup Elements(t)
<1>1. /\ Len(s) \in Nat /\ Len(t) \in Nat /\ s \o t \in Seq(Event)
      /\ Len(s \o t) = Len(s) + Len(t)
      /\ \A n \in 1..Len(s) : (s \o t)[n] = s[n]
      /\ \A n \in 1..Len(t) : (s \o t)[n + Len(s)] = t[n]
  OBVIOUS
<1>2. \A n \in 1..Len(s \o t) :
          \/ n \in 1..Len(s)
          \/ /\ n - Len(s) \in 1..Len(t) /\ (n - Len(s)) + Len(s) = n
             /\ n > Len(s)
  BY <1>1
<1>3. \A x \in Elements(s \o t) : x \in Elements(s) \cup Elements(t)
  <2>1. ASSUME NEW n \in 1..Len(s \o t)
        PROVE  (s \o t)[n] \in Elements(s) \cup Elements(t)
    <3>1. CASE n \in 1..Len(s)
      BY <1>1, <3>1, ElementAt
    <3>2. CASE n - Len(s) \in 1..Len(t)
      <4>1. (s \o t)[(n - Len(s)) + Len(s)] = t[n - Len(s)]
        BY <1>1, <3>2
      <4>2. (n - Len(s)) + Len(s) = n
        BY <1>1
      <4> QED BY <3>2, <4>1, <4>2, ElementAt
    <3> QED BY <1>2, <3>1, <3>2
  <2> DEFINE c == s \o t
  <2>2. /\ c \in Seq(Event)
        /\ \A n \in 1..Len(c) : c[n] \in Elements(s) \cup Elements(t)
    BY <1>1, <2>1
  <2> HIDE DEF c
  <2>3. \A x \in Elements(c) : x \in Elements(s) \cup Elements(t)
    BY <2>2, ElementAt
  <2> QED BY <2>3 DEF c
<1>4. \A x \in Elements(s) \cup Elements(t) : x \in Elements(s \o t)
  <2>1. ASSUME NEW n \in 1..Len(s) PROVE s[n] \in Elements(s \o t)
    <3>1. n \in 1..Len(s \o t) /\ (s \o t)[n] = s[n]
      BY <1>1
    <3> QED BY <1>1, <3>1, ElementAt
  <2>2. ASSUME NEW n \in 1..Len(t) PROVE t[n] \in Elements(s \o t)
    <3>1. n + Len(s) \in 1..Len(s \o t) /\ (s \o t)[n + Len(s)] = t[n]
      BY <1>1
    <3> QED BY <1>1, <3>1, ElementAt
  <2> QED BY <2>1, <2>2, ElementAt
<1>5. ASSUME NEW m \in 1..Len(s \o t), NEW n \in 1..Len(s \o t), m < n
      PROVE  (s \o t)[m].seq < (s \o t)[n].seq
  <2>1. CASE n \in 1..Len(s)
    BY <1>1, <1>5, <2>1 DEF Ordered
  <2>2. CASE m \in 1..Len(s) /\ n - Len(s) \in 1..Len(t)
    BY <1>1, <1>2, <2>2, SMTT(30) DEF Before, Elements
  <2>3. CASE ~(m \in 1..Len(s))
    <3>1. /\ m - Len(s) \in 1..Len(t) /\ n - Len(s) \in 1..Len(t)
          /\ m - Len(s) < n - Len(s)
          /\ (m - Len(s)) + Len(s) = m /\ (n - Len(s)) + Len(s) = n
      BY <1>1, <1>5, <2>3
    <3> QED BY <1>1, <3>1 DEF Ordered
  <2> QED BY <1>2, <2>1, <2>2, <2>3
<1> QED BY <1>1, <1>3, <1>4, <1>5 DEF Ordered

-----------------------------------------------------------------------------
(* The way from devd to the application.                                   *)

(* The parts in order make the sequence that InOrder is about.             *)
LEMMA WayMakesOrder == OrderInv => InOrder
<1> SUFFICES ASSUME OrderInv PROVE InOrder
  OBVIOUS
<1>1. /\ delivered \in Seq(Event) /\ queue \in Seq(Event)
      /\ sock \in Seq(Event) /\ WayInOrder
  BY DEF OrderInv, MonitorInv, TypeOK
<1>2. InHand \in Seq(Event) /\ Elements(InHand) = Hand /\ Ordered(InHand)
  <2>1. CASE tpc \in {"match", "send"}
    <3>1. msg \in Event
      BY <2>1 DEF OrderInv, MonitorInv, Phases
    <3>2. /\ <<msg>> \in Seq(Event) /\ Len(<<msg>>) = 1 /\ <<msg>>[1] = msg
          /\ DOMAIN <<msg>> = {1}
      BY <3>1
    <3>3. Elements(<<msg>>) = {msg}
      BY <3>2 DEF Elements
    <3>4. Ordered(<<msg>>)
      BY <3>2 DEF Ordered
    <3> QED BY <2>1, <3>2, <3>3, <3>4 DEF InHand, Hand
  <2>2. CASE tpc \notin {"match", "send"}
    <3>1. <<>> \in Seq(Event) /\ Elements(<<>>) = {} /\ Ordered(<<>>)
      BY EmptySeq DEF Elements, Ordered
    <3> QED BY <2>2, <3>1 DEF InHand, Hand
  <2> QED BY <2>1, <2>2
<1> DEFINE one == delivered \o queue
           two == one \o InHand
           all == two \o sock
<1>3. /\ one \in Seq(Event) /\ Ordered(one)
      /\ Elements(one) = Elements(delivered) \cup Elements(queue)
  BY <1>1, JoinOrdered DEF WayInOrder
<1> HIDE DEF one
<1>4. /\ two \in Seq(Event) /\ Ordered(two)
      /\ Elements(two) = Elements(one) \cup Hand
  BY <1>1, <1>2, <1>3, JoinOrdered DEF WayInOrder
<1> HIDE DEF two
<1>5. Ordered(all)
  BY <1>1, <1>2, <1>3, <1>4, JoinOrdered DEF WayInOrder
<1> QED BY <1>5 DEF one, two, InOrder, Ordered

(* Nothing is disturbed by a step that takes nothing, but for what the     *)
(* thread may give up.                                                     *)
LEMMA GiveUp ==
    ASSUME OrderInv, UNCHANGED <<delivered, queue, live, sent>>,
           Hand' \subseteq Hand, sock' \in {sock, <<>>}
    PROVE  WayInOrder' /\ Ownership'
<1>1. Elements(<<>>) = {} /\ Ordered(<<>>)
  BY EmptySeq DEF Elements, Ordered
<1>2. Elements(sock') \subseteq Elements(sock) /\ Ordered(sock')
  BY <1>1 DEF OrderInv, WayInOrder
<1>3. WayInOrder'
  BY <1>2 DEF OrderInv, WayInOrder, Before
<1>4. Ownership'
  BY DEF OrderInv, Ownership
<1> QED BY <1>3, <1>4

(* udev_monitor_send_device queues the device in hand.                     *)
LEMMA InsertOrder ==
    ASSUME OrderInv, Insert PROVE WayInOrder' /\ Ownership'
<1>1. /\ msg \in Event /\ Hand = {msg} /\ Hand' = {}
      /\ queue' = Append(queue, msg) /\ live' = live \cup {msg.seq}
      /\ UNCHANGED <<delivered, sock, sent>> /\ queue \in Seq(Event)
  BY DEF Insert, OrderInv, MonitorInv, TypeOK, Phases, Hand, app, devd
<1>2. /\ Elements(queue') = Elements(queue) \cup {msg}
      /\ Ordered(queue')
  <2>1. Ordered(queue) /\ Before(Elements(queue), {msg})
    BY <1>1 DEF OrderInv, WayInOrder, Before
  <2> QED BY <1>1, <2>1, AddLast
<1>3. WayInOrder'
  BY <1>1, <1>2 DEF OrderInv, WayInOrder, Before
<1>4. Ownership'
  BY <1>1, <1>2 DEF OrderInv, Ownership, Seqs
<1> QED BY <1>3, <1>4

(* The next message of the socket comes into the thread's hand.            *)
LEMMA RecvOrder ==
    ASSUME OrderInv, RecvMessage PROVE WayInOrder' /\ Ownership'
<1>1. /\ sock \in Seq(Event) /\ sock # <<>> /\ sock' = Tail(sock)
      /\ Hand = {} /\ Hand' = {Head(sock)}
      /\ UNCHANGED <<delivered, queue, live, sent>>
  BY DEF RecvMessage, OrderInv, MonitorInv, TypeOK, Hand, app
<1>2. /\ Elements(sock) = Hand' \cup Elements(sock')
      /\ Ordered(sock') /\ Before(Hand', Elements(sock'))
  BY <1>1, TakeFirst DEF OrderInv, WayInOrder
<1>3. WayInOrder'
  BY <1>1, <1>2 DEF OrderInv, WayInOrder, Before
<1>4. Ownership'
  BY <1>1 DEF OrderInv, Ownership
<1> QED BY <1>3, <1>4

(* A receiver takes the oldest device.                                     *)
LEMMA PopOrder ==
    ASSUME OrderInv, NEW r \in Readers, Pop(r)
    PROVE  WayInOrder' /\ Ownership'
<1>1. queue # <<>>
  BY HoldersFindDevice DEF OrderInv, Pop
<1>2. /\ delivered \in Seq(Event) /\ queue \in Seq(Event)
      /\ delivered' = Append(delivered, Head(queue)) /\ queue' = Tail(queue)
      /\ UNCHANGED <<Hand, sock, live, sent>>
  BY DEF Pop, OrderInv, MonitorInv, TypeOK, Hand, thread, devd
<1>3. /\ Head(queue) \in Event
      /\ Elements(queue) = {Head(queue)} \cup Elements(queue')
      /\ Ordered(queue') /\ Before({Head(queue)}, Elements(queue'))
  BY <1>1, <1>2, TakeFirst DEF OrderInv, WayInOrder
<1>4. /\ Elements(delivered') = Elements(delivered) \cup {Head(queue)}
      /\ Ordered(delivered')
  <2>1. Ordered(delivered) /\ Before(Elements(delivered), {Head(queue)})
    BY <1>3 DEF OrderInv, WayInOrder, Before
  <2> QED BY <1>2, <1>3, <2>1, AddLast
<1>5. WayInOrder'
  BY <1>2, <1>3, <1>4 DEF OrderInv, WayInOrder, Before
<1>6. Ownership'
  BY <1>2, <1>3, <1>4 DEF OrderInv, Ownership, Seqs
<1> QED BY <1>5, <1>6

(* The failed write takes its own entry back, and frees no other's device. *)
LEMMA UndoOrder ==
    ASSUME OrderInv, Undo PROVE WayInOrder' /\ Ownership'
<1>1. PICK k \in 1..Len(queue) :
          /\ queue[k] = msg
          /\ queue' = SubSeq(queue, 1, k - 1)
                          \o SubSeq(queue, k + 1, Len(queue))
  <2>1. DOMAIN queue = 1..Len(queue)
    BY LenProperties DEF OrderInv, MonitorInv, TypeOK
  <2>2. \E k \in DOMAIN queue :
            /\ queue[k] = msg
            /\ queue' = SubSeq(queue, 1, k - 1)
                            \o SubSeq(queue, k + 1, Len(queue))
    BY DEF Undo
  <2> QED BY <2>1, <2>2
<1>2. /\ queue \in Seq(Event) /\ live' = live \ {msg.seq}
      /\ UNCHANGED <<delivered, sock, sent>> /\ Hand = {} /\ Hand' = {}
  BY DEF Undo, OrderInv, MonitorInv, TypeOK, Hand, app, devd
<1>3. /\ Elements(queue) = Elements(queue') \cup {msg}
      /\ Ordered(queue') /\ msg.seq \notin Seqs(queue')
  BY <1>1, <1>2, TakeOut DEF OrderInv, WayInOrder
<1>4. msg.seq \notin Seqs(delivered)
  <2>1. /\ Before(Elements(delivered), {msg})
        /\ msg \in Elements(queue) /\ delivered \in Seq(Event)
    BY <1>3 DEF OrderInv, WayInOrder, Before, MonitorInv, TypeOK
  <2>2. msg.seq \in Nat /\ \A x \in Elements(delivered) : x.seq \in Nat
    BY <1>2, <2>1, ElementsType
  <2>3. \A x \in Elements(delivered) : x.seq < msg.seq
    BY <2>1 DEF Before
  <2>4. \A x \in Elements(delivered) : x.seq # msg.seq
    BY <2>2, <2>3
  <2> QED BY <2>4 DEF Seqs
<1>5. WayInOrder'
  BY <1>2, <1>3 DEF OrderInv, WayInOrder, Before
<1>6. Ownership'
  BY <1>2, <1>3, <1>4 DEF OrderInv, Ownership, Seqs
<1> QED BY <1>5, <1>6

(* The end of the monitor frees what nobody received, and nothing else.    *)
LEMMA FreeOrder ==
    ASSUME OrderInv, Free PROVE WayInOrder' /\ Ownership'
<1>1. /\ queue' = <<>> /\ live' = live \ Seqs(queue)
      /\ UNCHANGED <<delivered, Hand, sock, sent>>
      /\ delivered \in Seq(Event) /\ queue \in Seq(Event)
  BY DEF Free, OrderInv, MonitorInv, TypeOK, Hand, app, devd, thread
<1>2. Elements(<<>>) = {} /\ Ordered(<<>>)
  BY EmptySeq DEF Elements, Ordered
<1>3. \A x \in Elements(delivered), y \in Elements(queue) : x.seq # y.seq
  <2>1. /\ \A x \in Elements(delivered) : x.seq \in Nat
        /\ \A y \in Elements(queue) : y.seq \in Nat
    BY <1>1, ElementsType
  <2>2. Before(Elements(delivered), Elements(queue))
    BY DEF OrderInv, WayInOrder
  <2> QED BY <2>1, <2>2 DEF Before
<1>4. WayInOrder'
  BY <1>1, <1>2 DEF OrderInv, WayInOrder, Before
<1>5. Ownership'
  BY <1>1, <1>2, <1>3 DEF OrderInv, Ownership, Seqs
<1> QED BY <1>4, <1>5

(* devd sends an event that is later than all before.                      *)
LEMMA SendOrder ==
    ASSUME OrderInv, NEW k \in Kinds, DevdSend(k)
    PROVE  WayInOrder' /\ Ownership'
<1> DEFINE e == [seq |-> sent + 1, kind |-> k]
<1>1. /\ e \in Event /\ e.seq = sent + 1 /\ sent' = sent + 1 /\ sent \in Nat
      /\ UNCHANGED <<delivered, queue, live, Hand>>
      /\ sock' \in {sock, Append(sock, e)} /\ sock \in Seq(Event)
  BY ConstantsAssumption
     DEF DevdSend, OrderInv, MonitorInv, TypeOK, Hand, app, thread, Event
<1> HIDE DEF e
<1>2. Elements(delivered) \cup Elements(queue) \cup Hand \cup Elements(sock)
          \subseteq Event
  <2>1. /\ delivered \in Seq(Event) /\ queue \in Seq(Event)
        /\ sock \in Seq(Event) /\ Hand \subseteq Event
    BY DEF OrderInv, MonitorInv, TypeOK, Phases, Hand
  <2> QED BY <2>1, ElementsType
<1>3. \A x \in Elements(delivered) \cup Elements(queue) \cup Hand
              \cup Elements(sock) : x.seq < e.seq /\ x.seq <= sent'
  <2>1. \A x \in Event : x.seq \in Nat
    BY ConstantsAssumption DEF Event
  <2> QED BY <1>1, <1>2, <2>1 DEF OrderInv, WayInOrder
<1>4. Elements(sock') \subseteq Elements(sock) \cup {e} /\ Ordered(sock')
  <2>1. Ordered(sock) /\ Before(Elements(sock), {e})
    BY <1>3 DEF OrderInv, WayInOrder, Before
  <2> QED BY <1>1, <2>1, AddLast
<1>5. WayInOrder'
  BY <1>1, <1>3, <1>4 DEF OrderInv, WayInOrder, Before
<1>6. Ownership'
  BY <1>1 DEF OrderInv, Ownership
<1> QED BY <1>5, <1>6

(* The initial states satisfy the invariant.                               *)
LEMMA OrderInit == Init => OrderInv
<1>1. Elements(<<>>) = {} /\ Ordered(<<>>)
  BY EmptySeq DEF Elements, Ordered
<1> QED
  BY <1>1, InitInv
     DEF Init, OrderInv, WayInOrder, Ownership, Seqs, Before, Hand

(* Every step keeps the way in order, and every device owned.              *)
LEMMA OrderStep == OrderInv /\ MonitorInv' /\ [Next]_vars => OrderInv'
<1> SUFFICES ASSUME OrderInv, [Next]_vars PROVE WayInOrder' /\ Ownership'
  BY DEF OrderInv
<1> USE DEF owner, fds, thread, devd, app
<1>1. CASE Owner
  <2>1. CASE Free
    BY <2>1, FreeOrder
  <2>2. CASE Enable
    <3>1. Hand' \subseteq Hand
      BY <2>2 DEF Enable, Hand
    <3> QED BY <2>2, <3>1, GiveUp DEF Enable
  <2>3. CASE ~Free /\ ~Enable
    <3>1. UNCHANGED <<delivered, queue, live, sent, Hand, sock>>
      BY <1>1, <2>3 DEF Owner, Teardown, New, NewFails, FilterAdd, EnableFails,
                        Ref, Unref, CloseRead, Join, CloseWrite, Hand
    <3> QED BY <3>1, GiveUp
  <2> QED BY <2>1, <2>2, <2>3
<1>2. CASE Thread
  <2>1. CASE Insert \/ RecvMessage \/ Undo
    BY <2>1, InsertOrder, RecvOrder, UndoOrder
  <2>2. CASE ~(Insert \/ RecvMessage \/ Undo)
    <3>1. UNCHANGED <<delivered, queue, live, sent>>
      BY <1>2, <2>2 DEF Thread, Scheduled, StayConnected, Connect,
         ConnectFails, PollFinishing, PollError, PollInterrupted, PollRespawn,
         PollReady, RecvFails, Match, SendFails, Write, WriteFails, Hup, Exit,
         CloseSocket
    <3>2. sock' \in {sock, <<>>}
      BY <1>2, <2>2 DEF Thread, Scheduled, StayConnected, Connect,
         ConnectFails, PollFinishing, PollError, PollInterrupted, PollRespawn,
         PollReady, RecvFails, Match, SendFails, Write, WriteFails, Hup, Exit,
         CloseSocket
    <3>3. Hand' \subseteq Hand
      BY <1>2, <2>2 DEF Thread, Scheduled, StayConnected, Connect,
         ConnectFails, PollFinishing, PollError, PollInterrupted, PollRespawn,
         PollReady, RecvFails, Match, SendFails, Write, WriteFails, Hup, Exit,
         Hand
    <3> QED BY <3>1, <3>2, <3>3, GiveUp
  <2> QED BY <2>1, <2>2
<1>3. ASSUME NEW r \in Readers, Reader(r) PROVE WayInOrder' /\ Ownership'
  <2>1. CASE Pop(r)
    BY <2>1, PopOrder
  <2>2. CASE ~Pop(r)
    <3>1. UNCHANGED <<delivered, queue, live, sent, Hand, sock>>
      BY <1>3, <2>2 DEF Reader, Receive, ReadToken, ReadFails, Check, Hand
    <3> QED BY <3>1, GiveUp
  <2> QED BY <2>1, <2>2
<1>4. CASE Devd
  <2>1. CASE \E k \in Kinds : DevdSend(k)
    BY <2>1, SendOrder
  <2>2. CASE DevdStart \/ DevdHangup
    <3>1. UNCHANGED <<delivered, queue, live, sent, Hand, sock>>
      BY <2>2 DEF DevdStart, DevdHangup, Hand
    <3> QED BY <3>1, GiveUp
  <2> QED BY <1>4, <2>1, <2>2 DEF Devd
<1>5. CASE UNCHANGED vars
  <2>1. UNCHANGED <<delivered, queue, live, sent, Hand, sock>>
    BY <1>5 DEF vars, Hand
  <2> QED BY <2>1, GiveUp
<1> QED BY <1>1, <1>2, <1>3, <1>4, <1>5 DEF Next

(* The invariant holds in every reachable state.                           *)
THEOREM OrderSafe == Spec => []OrderInv
BY OrderInit, OrderStep, MonitorInvariant, PTL DEF Spec

(* The application receives the devices in the order in which devd sent    *)
(* them, and none twice, whatever connections and messages are lost.       *)
THEOREM DeliversInOrder == Spec => []InOrder
BY WayMakesOrder, OrderSafe, PTL

(* No device is leaked, and none is freed that can still be received.      *)
THEOREM DevicesOwned == Spec => []Ownership
<1>1. OrderInv => Ownership
  BY DEF OrderInv
<1> QED BY <1>1, OrderSafe, PTL
==============================================================================
