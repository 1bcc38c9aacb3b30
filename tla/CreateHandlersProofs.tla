------------------------ MODULE CreateHandlersProofs ------------------------
(***************************************************************************)
(* Proofs about EvdevGate and CreateHandlers, for any number of threads,   *)
(* descriptors and devices.  Of the gate: where what is on the stack       *)
(* happens to be large enough, keyboards are hidden just while evdev is    *)
(* enabled.  Of the handlers: they close what they have opened and nothing *)
(* else.                                                                   *)
(***************************************************************************)
EXTENDS CreateHandlers, TLAPS

(* Where a thread, its device and its descriptor are.                      *)
FilesType ==
    /\ table \in [Fds -> [node : Nodes \cup {"none"},
                          by : Threads \cup {"app", "none"}]]
    /\ fd \in [Threads -> Fds \cup {NoFd}] /\ opened \in [Threads -> BOOLEAN]

Labels == {"idle", "lookup", "failed", "return", "create", "open", "find",
           "query", "describe", "close"}

GateType ==
    /\ pc \in [Threads -> Labels]
    /\ device \in [Threads -> Nodes \cup {"none"}]
    /\ purpose \in [Threads -> {"match", "make"}]

(* A handler has opened a descriptor only from its query on.               *)
OpenedInQuery ==
    \A t \in Threads :
        opened[t] => fd[t] \in Fds /\ pc[t] \in {"query", "describe", "close"}

HandlersInv == FilesType /\ GateType /\ OpenedInQuery /\ DescriptorsAccounted

(* What the static variable and the threads know of the kernel, if the     *)
(* kernel is always given room for its answer.                             *)
Lucky == \A n \in Lengths : n >= IntSize
Value == IF kernel = "enabled" THEN 1 ELSE 0

Knows(t) ==
    /\ pc[t] \in {"failed", "return"} => device[t] \in Skipped
    /\ pc[t] = "failed" => kernel = "missing"
    /\ pc[t] = "return" => enabled = Value
    /\ pc[t] = "idle" => purpose[t] = "match"
    /\ kernel = "enabled" /\ purpose[t] = "make" => device[t] \notin Skipped

GateInv ==
    /\ kernel \in Answers /\ enabled \in {-1, Value}
    /\ \A t \in Threads : Knows(t)

-----------------------------------------------------------------------------

(* Where a step takes its thread, and no other.                            *)
LEMMA Moves ==
    ASSUME GateType, NEW t \in Threads, NEW label \in Labels, Goto(t, label)
    PROVE  /\ pc' \in [Threads -> Labels] /\ pc'[t] = label
           /\ \A u \in Threads : u # t => pc'[u] = pc[u]
BY DEF GateType, Goto

(* What a step of the gate may do.                                         *)
LEMMA GateMoves ==
    ASSUME GateType, NEW t \in Threads, Gate(t)
    PROVE  /\ pc[t] \in {"idle", "lookup", "failed", "return"}
           /\ pc' \in [Threads -> Labels]
           /\ \A u \in Threads : u # t => pc'[u] = pc[u]
           /\ device' \in [Threads -> Nodes \cup {"none"}]
           /\ purpose' \in [Threads -> {"match", "make"}]
<1> DEFINE Kept == /\ pc' \in [Threads -> Labels]
                   /\ \A u \in Threads : u # t => pc'[u] = pc[u]
                   /\ device' \in [Threads -> Nodes \cup {"none"}]
                   /\ purpose' \in [Threads -> {"match", "make"}]
<1>1. CASE \E d \in Nodes : Look(t, d)
  <2>1. PICK d \in Nodes : Look(t, d)
    BY <1>1
  <2>2. Goto(t, "lookup") /\ "lookup" \in Labels
    BY <2>1 DEF Look, Labels
  <2> QED BY <2>1, <2>2, Moves DEF Look, GateType
<1>2. ASSUME Proceed(t) PROVE Kept
  <2>1. Goto(t, "lookup") \/ Goto(t, "create")
    BY <1>2 DEF Proceed
  <2>2. {"lookup", "create"} \subseteq Labels
    BY DEF Labels
  <2> QED BY <1>2, <2>1, <2>2, Moves DEF Proceed, GateType
<1>3. ASSUME Leave(t) PROVE Kept
  <2>1. Goto(t, "idle") /\ "idle" \in Labels
    BY <1>3 DEF Leave, Labels
  <2> QED BY <1>3, <2>1, Moves DEF Leave, GateType
<1>4. CASE Plain(t)
  BY <1>2, <1>4 DEF Plain
<1>5. CASE Remembered(t)
  <2>1. Goto(t, "return") /\ "return" \in Labels
    BY <1>5 DEF Remembered, Labels
  <2> QED BY <1>5, <2>1, Moves DEF Remembered, locals, GateType
<1>6. CASE Ask(t)
  <2>1. Goto(t, "failed") \/ Goto(t, "return")
    BY <1>6 DEF Ask
  <2>2. {"failed", "return"} \subseteq Labels
    BY DEF Labels
  <2> QED BY <1>6, <2>1, <2>2, Moves DEF Ask, locals, GateType
<1>7. CASE Fail(t)
  BY <1>2, <1>3, <1>7 DEF Fail, Decide
<1>8. CASE Return(t)
  BY <1>2, <1>3, <1>8 DEF Return, Decide
<1> QED BY <1>1, <1>4, <1>5, <1>6, <1>7, <1>8 DEF Gate

(* The initial states satisfy the invariant.                               *)
LEMMA HandlersInitInv == HandlersInit => HandlersInv
<1> SUFFICES ASSUME HandlersInit PROVE HandlersInv
  OBVIOUS
<1>1. FilesType
  BY DEF HandlersInit, FilesType, Free
<1>2. GateType
  BY DEF HandlersInit, Init, GateType, Labels
<1>3. OpenedInQuery
  BY DEF HandlersInit, OpenedInQuery
<1>4. DescriptorsAccounted
  BY HandlersAssumption DEF HandlersInit, DescriptorsAccounted, Free
<1> QED BY <1>1, <1>2, <1>3, <1>4 DEF HandlersInv

(* A handler goes on within its thread.                                    *)
LEMMA StepMoves ==
    ASSUME GateType, NEW t \in Threads, NEW label \in Labels, Step(t, label)
    PROVE  /\ GateType' /\ pc'[t] = label
           /\ \A u \in Threads : u # t => pc'[u] = pc[u]
BY Moves DEF Step, GateType, locals

(* Where a handler's steps go.                                             *)
LEMMA HandlerMoves ==
    ASSUME GateType, NEW t \in Threads, Handler(t)
    PROVE  /\ GateType'
           /\ \A u \in Threads : u # t => pc'[u] = pc[u]
           /\ pc[t] \in {"create", "open", "find", "query", "describe",
                         "close"}
<1>1. Labels = {"idle", "lookup", "failed", "return", "create", "open", "find",
                "query", "describe", "close"}
  BY DEF Labels
<1>2. CASE Close(t)
  <2>1. Goto(t, "idle")
    BY <1>2 DEF Close, Ends, Leave
  <2>2. /\ device' \in [Threads -> Nodes \cup {"none"}]
        /\ purpose' \in [Threads -> {"match", "make"}]
    BY <1>2 DEF Close, Ends, Leave, GateType
  <2> QED BY <1>1, <1>2, <2>1, <2>2, Moves DEF Close, Ends, At, GateType
<1>3. CASE ~Close(t)
  <2>1. \E label \in {"open", "find", "query", "describe", "close"} :
            Step(t, label)
    BY <1>3 DEF Handler, Named, Sysctl, Hidraw, OpenNode, OpenFails, Find,
                FindsNone, Query, QueryFails, Describe, NoParent
  <2>2. pc[t] \in {"create", "open", "find", "query", "describe"}
    BY <1>3 DEF Handler, At, Named, Sysctl, Hidraw, OpenNode, OpenFails, Find,
                FindsNone, Query, QueryFails, Describe, NoParent
  <2> QED BY <1>1, <2>1, <2>2, StepMoves
<1> QED BY <1>2, <1>3

(* A handler that queries goes on to its close.                            *)
QueryGoesOn(t) ==
    pc[t] \in {"query", "describe", "close"} =>
        \E label \in {"query", "describe", "close"} : Step(t, label)

(* What a handler does to the files: nothing, open one, borrow one, or     *)
(* close the one it has opened.                                            *)
LEMMA HandlerFiles ==
    ASSUME NEW t \in Threads, Handler(t)
    PROVE  \/ UNCHANGED <<table, fd, opened>> /\ QueryGoesOn(t)
           \/ OpenNode(t) \/ Find(t) \/ Close(t)
<1>1. CASE OpenNode(t) \/ Find(t) \/ Close(t)
  BY <1>1
<1>2. CASE Named(t) \/ Sysctl(t) \/ Hidraw(t) \/ OpenFails(t) \/ FindsNone(t)
  BY <1>2 DEF Named, Sysctl, Hidraw, OpenFails, FindsNone, At, files, handler,
              QueryGoesOn
<1>3. CASE Query(t)
  BY <1>3 DEF Query, files, QueryGoesOn
<1>4. CASE Describe(t)
  BY <1>4 DEF Describe, files, QueryGoesOn
<1>5. CASE QueryFails(t) \/ NoParent(t)
  BY <1>5 DEF QueryFails, NoParent, files, handler, QueryGoesOn
<1> QED BY <1>1, <1>2, <1>3, <1>4, <1>5 DEF Handler

(* No step takes a variable out of its type.                               *)
LEMMA HandlersTypeStep ==
    HandlersInv /\ [HandlersNext]_allvars => FilesType' /\ GateType'
<1> SUFFICES ASSUME HandlersInv, [HandlersNext]_allvars
             PROVE  FilesType' /\ GateType'
  OBVIOUS
<1>1. FilesType /\ GateType
  BY DEF HandlersInv
<1>2. ASSUME NEW t \in Threads, Gate(t), UNCHANGED <<files, handler>>
      PROVE  FilesType' /\ GateType'
  BY <1>1, <1>2, GateMoves DEF FilesType, GateType, files, handler
<1>3. ASSUME NEW t \in Threads, Handler(t)
      PROVE  FilesType' /\ GateType'
  <2>1. GateType'
    BY <1>1, <1>3, HandlerMoves
  <2>2. CASE UNCHANGED <<table, fd, opened>>
    BY <1>1, <2>1, <2>2 DEF FilesType
  <2>3. CASE OpenNode(t)
    <3>1. PICK f \in Fds : /\ OpenAs(f, device[t], t)
                           /\ fd' = [fd EXCEPT ![t] = f]
      BY <2>3 DEF OpenNode
    <3>2. table' \in [Fds -> [node : Nodes \cup {"none"},
                              by : Threads \cup {"app", "none"}]]
      BY <1>1, <3>1 DEF OpenAs, FilesType, GateType
    <3>3. fd' \in [Threads -> Fds \cup {NoFd}]
      BY <1>1, <3>1 DEF FilesType
    <3>4. opened' \in [Threads -> BOOLEAN]
      BY <1>1, <2>3 DEF FilesType, OpenNode
    <3> QED BY <2>1, <3>2, <3>3, <3>4 DEF FilesType
  <2>4. CASE Find(t)
    BY <1>1, <2>1, <2>4 DEF Find, Borrowable, FilesType, files
  <2>5. CASE Close(t)
    <3>1. CASE opened[t]
      <4>1. table' = [table EXCEPT ![fd[t]] = Free]
        BY <2>5, <3>1 DEF Close, Ends
      <4> QED BY <1>1, <4>1, <2>1, <2>5 DEF Close, Ends, Free, FilesType
    <3>2. CASE ~opened[t]
      BY <1>1, <2>1, <2>5, <3>2 DEF Close, Ends, FilesType
    <3> QED BY <3>1, <3>2
  <2> QED BY <1>3, <2>2, <2>3, <2>4, <2>5, HandlerFiles
<1>4. ASSUME NEW f \in Fds, AppClose(f)
      PROVE  FilesType' /\ GateType'
  <2>1. /\ table' = [table EXCEPT ![f] = Free]
        /\ UNCHANGED <<fd, opened, pc, device, purpose>>
    BY <1>4 DEF AppClose, CloseFd, vars, handler, locals
  <2> QED BY <1>1, <2>1 DEF Free, FilesType, GateType
<1>5. ASSUME NEW f \in Fds, NEW node \in Asked, AppOpen(f, node)
      PROVE  FilesType' /\ GateType'
  <2>1. /\ table' = [table EXCEPT ![f] = [node |-> node, by |-> "app"]]
        /\ UNCHANGED <<fd, opened, pc, device, purpose>> /\ node \in Nodes
    BY <1>5 DEF AppOpen, OpenAs, Asked, vars, handler, locals
  <2> QED BY <1>1, <2>1 DEF FilesType, GateType
<1>6. CASE UNCHANGED allvars
  BY <1>1, <1>6 DEF allvars, vars, files, handler, locals, FilesType, GateType
<1> QED BY <1>2, <1>3, <1>4, <1>5, <1>6 DEF HandlersNext

(* A handler has opened a descriptor only between its open and its close,  *)
(* and the table of open files says so.                                    *)
LEMMA HandlersStep == HandlersInv /\ [HandlersNext]_allvars => HandlersInv'
<1> SUFFICES ASSUME HandlersInv, [HandlersNext]_allvars
             PROVE  OpenedInQuery' /\ DescriptorsAccounted'
  BY HandlersTypeStep DEF HandlersInv
<1>1. FilesType /\ GateType /\ OpenedInQuery /\ DescriptorsAccounted
  BY DEF HandlersInv
<1>2. ASSUME NEW t \in Threads, UNCHANGED <<table, fd, opened>>,
             \A u \in Threads : u # t => pc'[u] = pc[u],
             opened[t] => pc'[t] \in {"query", "describe", "close"}
      PROVE  OpenedInQuery' /\ DescriptorsAccounted'
  BY <1>1, <1>2 DEF OpenedInQuery, DescriptorsAccounted
<1>3. ASSUME NEW t \in Threads, Gate(t), UNCHANGED <<files, handler>>
      PROVE  OpenedInQuery' /\ DescriptorsAccounted'
  <2>1. ~opened[t]
    BY <1>1, <1>3, GateMoves DEF OpenedInQuery
  <2> QED BY <1>1, <1>2, <1>3, <2>1, GateMoves DEF files, handler
<1>4. ASSUME NEW t \in Threads, Handler(t)
      PROVE  OpenedInQuery' /\ DescriptorsAccounted'
  <2>1. \A u \in Threads : u # t => pc'[u] = pc[u]
    BY <1>1, <1>4, HandlerMoves
  <2>2. CASE UNCHANGED <<table, fd, opened>> /\ QueryGoesOn(t)
    <3>1. {"query", "describe", "close"} \subseteq Labels
      BY DEF Labels
    <3>2. opened[t] => pc'[t] \in {"query", "describe", "close"}
      BY <1>1, <2>2, <3>1, StepMoves DEF QueryGoesOn, OpenedInQuery
    <3> QED BY <1>2, <2>1, <2>2, <3>2
  <2>3. CASE OpenNode(t)
    <3>1. PICK f \in Fds : /\ OpenAs(f, device[t], t)
                           /\ fd' = [fd EXCEPT ![t] = f]
      BY <2>3 DEF OpenNode
    <3>2. pc'[t] = "query"
      <4>1. Step(t, "query") /\ "query" \in Labels
        BY <2>3 DEF OpenNode, Labels
      <4> QED BY <1>1, <4>1, StepMoves
    <3>3. ~opened[t] /\ opened' = [opened EXCEPT ![t] = TRUE]
      BY <1>1, <2>3 DEF OpenNode, At, OpenedInQuery
    <3>4. table[f] = Free /\ table' = [table EXCEPT ![f] =
                                           [node |-> device[t], by |-> t]]
      BY <3>1 DEF OpenAs, Lowest
    <3>5. \A u \in Threads : ~(opened[u] /\ fd[u] = f)
      BY <1>1, <3>4, HandlersAssumption DEF Free, DescriptorsAccounted
    <3>6. OpenedInQuery'
      BY <1>1, <2>1, <3>1, <3>2, <3>3 DEF OpenedInQuery, FilesType
    <3>7. ASSUME NEW g \in Fds, NEW u \in Threads
          PROVE  table'[g].by = u <=> opened'[u] /\ fd'[u] = g
      <4>1. table'[g].by = IF g = f THEN t ELSE table[g].by
        BY <1>1, <3>4 DEF FilesType
      <4>2. opened'[u] <=> u = t \/ opened[u]
        BY <1>1, <3>3 DEF FilesType
      <4>3. fd'[u] = IF u = t THEN f ELSE fd[u]
        BY <1>1, <3>1 DEF FilesType
      <4>4. table[g].by = u <=> opened[u] /\ fd[u] = g
        BY <1>1 DEF DescriptorsAccounted
      <4>5. g = f => ~(opened[u] /\ fd[u] = g)
        BY <3>5
      <4> QED BY <3>3, <4>1, <4>2, <4>3, <4>4, <4>5
    <3> QED BY <3>6, <3>7 DEF DescriptorsAccounted
  <2>4. CASE Find(t)
    <3>1. PICK f \in Fds : fd' = [fd EXCEPT ![t] = f]
      BY <2>4 DEF Find, Borrowable
    <3>2. ~opened[t] /\ UNCHANGED <<table, opened>>
      BY <1>1, <2>4 DEF Find, At, OpenedInQuery, files
    <3>3. \A u \in Threads : opened[u] => fd'[u] = fd[u] /\ pc'[u] = pc[u]
      BY <1>1, <2>1, <3>1, <3>2 DEF FilesType
    <3> QED BY <1>1, <3>2, <3>3 DEF OpenedInQuery, DescriptorsAccounted
  <2>5. CASE Close(t)
    <3>1. /\ opened' = [opened EXCEPT ![t] = FALSE]
          /\ fd' = [fd EXCEPT ![t] = NoFd]
      BY <2>5 DEF Close, Ends
    <3>2. \A u \in Threads :
              /\ opened'[u] <=> opened[u] /\ u # t
              /\ u # t => fd'[u] = fd[u]
      BY <1>1, <3>1 DEF FilesType
    <3>3. OpenedInQuery'
      BY <1>1, <2>1, <3>2 DEF OpenedInQuery
    <3>4. ASSUME NEW g \in Fds, NEW u \in Threads
          PROVE  table'[g].by = u <=> opened'[u] /\ fd'[u] = g
      <4>1. table[g].by = t <=> opened[t] /\ fd[t] = g
        BY <1>1 DEF DescriptorsAccounted
      <4>2. table[g].by = u <=> opened[u] /\ fd[u] = g
        BY <1>1 DEF DescriptorsAccounted
      <4>3. table'[g] = IF opened[t] /\ fd[t] = g THEN Free ELSE table[g]
        BY <1>1, <2>5 DEF Close, Ends, FilesType
      <4>4. Free.by # u /\ Free.by # t
        BY HandlersAssumption DEF Free
      <4> QED BY <3>2, <4>1, <4>2, <4>3, <4>4
    <3> QED BY <3>3, <3>4 DEF DescriptorsAccounted
  <2> QED BY <1>4, <2>2, <2>3, <2>4, <2>5, HandlerFiles
<1>5. ASSUME NEW f \in Fds, AppClose(f)
      PROVE  OpenedInQuery' /\ DescriptorsAccounted'
  <2>1. /\ table[f].by = "app" /\ table' = [table EXCEPT ![f] = Free]
        /\ UNCHANGED <<opened, fd, pc>>
    BY <1>5 DEF AppClose, CloseFd, vars, handler, locals
  <2>2. \A t \in Threads : ~(opened[t] /\ fd[t] = f)
    BY <1>1, <2>1, HandlersAssumption DEF DescriptorsAccounted
  <2> QED BY <1>1, <2>1, <2>2, HandlersAssumption
          DEF OpenedInQuery, DescriptorsAccounted, FilesType, Free
<1>6. ASSUME NEW f \in Fds, NEW node \in Asked, AppOpen(f, node)
      PROVE  OpenedInQuery' /\ DescriptorsAccounted'
  <2>1. /\ table[f] = Free /\ UNCHANGED <<opened, fd, pc>>
        /\ table' = [table EXCEPT ![f] = [node |-> node, by |-> "app"]]
    BY <1>6 DEF AppOpen, OpenAs, Lowest, vars, handler, locals
  <2>2. \A t \in Threads : ~(opened[t] /\ fd[t] = f)
    BY <1>1, <2>1, HandlersAssumption DEF DescriptorsAccounted, Free
  <2> QED BY <1>1, <2>1, <2>2, HandlersAssumption
          DEF OpenedInQuery, DescriptorsAccounted, FilesType
<1>7. CASE UNCHANGED allvars
  BY <1>1, <1>7 DEF allvars, vars, files, handler, locals, OpenedInQuery,
                    DescriptorsAccounted
<1> QED BY <1>3, <1>4, <1>5, <1>6, <1>7 DEF HandlersNext

(* Whatever others borrow, close and open at the same time, and wherever   *)
(* the handler gives up, a descriptor that it has opened is a handler's    *)
(* exactly while that handler runs with it.                                *)
THEOREM HandlersAccount == HandlersSpec => []DescriptorsAccounted
<1>1. HandlersInv => DescriptorsAccounted
  BY DEF HandlersInv
<1> QED BY HandlersInitInv, HandlersStep, <1>1, PTL DEF HandlersSpec

-----------------------------------------------------------------------------

(* A step of one thread leaves what the others know.                       *)
LEMMA OthersKnow ==
    ASSUME GateType, GateInv, NEW t \in Threads,
           \A u \in Threads : u # t => /\ pc'[u] = pc[u]
                                       /\ device'[u] = device[u]
                                       /\ purpose'[u] = purpose[u],
           kernel' = kernel, enabled' \in {enabled, Value}, Knows(t)'
    PROVE  GateInv'
<1>1. Value' = Value
  BY DEF Value
<1>2. ASSUME NEW u \in Threads, u # t PROVE Knows(u)'
  BY <1>1, <1>2 DEF GateInv, Knows
<1> QED BY <1>1, <1>2 DEF GateInv

(* Each step of the gate keeps what is known, and turns a thread back only *)
(* while evdev is enabled.                                                 *)
LEMMA GateStep ==
    ASSUME Lucky, GateType, GateInv, NEW t \in Threads, Gate(t)
    PROVE  /\ GateInv'
           /\ pc[t] # "idle" /\ pc'[t] = "idle" =>
                  purpose[t] = "match" /\ kernel = "enabled"
<1>1. Knows(t) /\ enabled \in {-1, Value}
  BY DEF GateInv
<1>2. Labels = {"idle", "lookup", "failed", "return", "create", "open", "find",
                "query", "describe", "close"}
  BY DEF Labels
<1>3. Value \in {0, 1} /\ (Value = 1 <=> kernel = "enabled")
  BY DEF Value
<1>4. CASE \E d \in Nodes : Look(t, d)
  <2>1. PICK d \in Nodes : Look(t, d)
    BY <1>4
  <2>2. pc'[t] = "lookup" /\ \A u \in Threads : u # t => pc'[u] = pc[u]
    BY <1>2, <2>1, Moves DEF Look
  <2>3. /\ UNCHANGED <<kernel, enabled, purpose>> /\ pc[t] = "idle"
        /\ \A u \in Threads : u # t => device'[u] = device[u]
    BY <2>1 DEF Look, GateType
  <2>4. Knows(t)'
    BY <1>1, <2>2, <2>3 DEF Knows
  <2> QED BY <2>2, <2>3, <2>4, OthersKnow
<1>5. ASSUME Proceed(t), UNCHANGED <<kernel, enabled>>,
             kernel = "enabled" => device[t] \notin Skipped
      PROVE  GateInv' /\ pc'[t] # "idle"
  <2>1. /\ pc'[t] \in {"lookup", "create"}
        /\ \A u \in Threads : u # t => pc'[u] = pc[u]
    BY <1>2, <1>5, Moves DEF Proceed
  <2>2. /\ UNCHANGED device
        /\ \A u \in Threads : u # t => purpose'[u] = purpose[u]
    BY <1>5 DEF Proceed, GateType
  <2>3. Knows(t)'
    BY <1>1, <1>5, <2>1, <2>2 DEF Knows
  <2> QED BY <1>5, <2>1, <2>2, <2>3, OthersKnow
<1>6. ASSUME Leave(t), UNCHANGED <<kernel, enabled>> PROVE GateInv'
  <2>1. pc'[t] = "idle" /\ \A u \in Threads : u # t => pc'[u] = pc[u]
    BY <1>2, <1>6, Moves DEF Leave
  <2>2. /\ purpose'[t] = "match"
        /\ \A u \in Threads : u # t => /\ device'[u] = device[u]
                                       /\ purpose'[u] = purpose[u]
    BY <1>6 DEF Leave, GateType
  <2>3. Knows(t)'
    BY <2>1, <2>2 DEF Knows
  <2> QED BY <1>6, <2>1, <2>2, <2>3, OthersKnow
<1>7. CASE Plain(t)
  BY <1>5, <1>7 DEF Plain
<1>8. CASE Remembered(t)
  <2>1. pc'[t] = "return" /\ \A u \in Threads : u # t => pc'[u] = pc[u]
    BY <1>2, <1>8, Moves DEF Remembered
  <2>2. /\ UNCHANGED <<kernel, enabled, device, purpose>>
        /\ device[t] \in Skipped /\ enabled # -1
    BY <1>8 DEF Remembered, locals
  <2>3. Value' = Value
    BY <2>2 DEF Value
  <2>4. Knows(t)'
    BY <1>1, <2>1, <2>2, <2>3 DEF Knows
  <2> QED BY <2>1, <2>2, <2>4, OthersKnow
<1>9. CASE Ask(t)
  <2>1. /\ UNCHANGED <<kernel, device, purpose>>
        /\ device[t] \in Skipped
        /\ \/ kernel = "missing" /\ enabled' = enabled /\ Goto(t, "failed")
           \/ enabled' = Value /\ Goto(t, "return")
    <3>1. PICK n \in Lengths :
              IF kernel = "missing"
              THEN enabled' = enabled /\ Goto(t, "failed")
              ELSE IF n < IntSize
              THEN enabled' = Partial(Value, n) /\ Goto(t, "failed")
              ELSE enabled' = Value /\ Goto(t, "return")
      BY <1>9 DEF Ask, Value
    <3>2. ~(n < IntSize)
      BY GateAssumption DEF Lucky, IntSize
    <3> QED BY <1>9, <3>1, <3>2 DEF Ask, locals
  <2>2. /\ \/ kernel = "missing" /\ pc'[t] = "failed"
           \/ enabled' = Value /\ pc'[t] = "return"
        /\ \A u \in Threads : u # t => pc'[u] = pc[u]
    BY <1>2, <2>1, Moves
  <2>3. Value' = Value
    BY <2>1 DEF Value
  <2>4. Knows(t)'
    BY <1>1, <2>1, <2>2, <2>3 DEF Knows
  <2> QED BY <2>1, <2>2, <2>4, OthersKnow
<1>10. CASE Fail(t)
  <2>1. Proceed(t) /\ UNCHANGED <<kernel, enabled>> /\ kernel = "missing"
    BY <1>1, <1>10 DEF Fail, Decide, Knows
  <2> QED BY <1>5, <2>1
<1>11. CASE Return(t)
  <2>1. /\ UNCHANGED <<kernel, enabled>> /\ enabled = Value
        /\ device[t] \in Skipped
    BY <1>1, <1>11 DEF Return, Knows
  <2>2. CASE enabled = 0
    <3>1. Proceed(t) /\ kernel # "enabled"
      BY <1>3, <1>11, <2>1, <2>2 DEF Return, Decide
    <3> QED BY <1>5, <2>1, <3>1
  <2>3. CASE enabled # 0
    <3>1. Leave(t) /\ kernel = "enabled"
      BY <1>3, <1>11, <2>1, <2>3 DEF Return, Decide
    <3>2. purpose[t] = "match"
      BY <1>1, <2>1, <3>1 DEF Knows, GateType
    <3> QED BY <1>6, <2>1, <3>1, <3>2
  <2> QED BY <2>2, <2>3
<1> QED BY <1>4, <1>7, <1>8, <1>9, <1>10, <1>11 DEF Gate

(* A create handler changes nothing of what is known, and ends at its      *)
(* close.                                                                  *)
LEMMA HandlerKeepsGate ==
    ASSUME GateType, GateInv, NEW t \in Threads, Handler(t)
    PROVE  GateInv' /\ (pc'[t] = "idle" => pc[t] = "close")
<1>1. Knows(t)
  BY DEF GateInv
<1>2. \A u \in Threads : u # t => pc'[u] = pc[u]
  BY HandlerMoves
<1>3. CASE Close(t)
  <2>1. /\ pc[t] = "close" /\ UNCHANGED <<kernel, enabled>>
        /\ Goto(t, "idle") /\ "idle" \in Labels
    BY <1>3 DEF Close, Ends, At, Leave, Labels
  <2>2. pc'[t] = "idle"
    BY <2>1, Moves
  <2>3. /\ purpose'[t] = "match"
        /\ \A u \in Threads : u # t => /\ device'[u] = device[u]
                                       /\ purpose'[u] = purpose[u]
    BY <1>3 DEF Close, Ends, Leave, GateType
  <2>4. Knows(t)'
    BY <2>2, <2>3 DEF Knows
  <2> QED BY <1>2, <2>1, <2>3, <2>4, OthersKnow
<1>4. CASE ~Close(t)
  <2>1. PICK label \in {"open", "find", "query", "describe", "close"} :
            Step(t, label)
    BY <1>4 DEF Handler, Named, Sysctl, Hidraw, OpenNode, OpenFails, Find,
                FindsNone, Query, QueryFails, Describe, NoParent
  <2>2. label \in Labels
    BY DEF Labels
  <2>3. pc'[t] = label /\ UNCHANGED <<kernel, enabled, device, purpose>>
    BY <2>1, <2>2, StepMoves DEF Step, locals
  <2>4. Knows(t)'
    BY <1>1, <2>3 DEF Knows
  <2> QED BY <1>2, <2>3, <2>4, OthersKnow
<1> QED BY <1>3, <1>4

(* With room for the answer the gate's invariant holds.                    *)
LEMMA GateSafe ==
    ASSUME Lucky
    PROVE  HandlersSpec => [](HandlersInv /\ GateInv)
<1>1. HandlersInit => GateInv
  BY DEF HandlersInit, Init, GateInv, Knows
<1>2. HandlersInv /\ GateInv /\ [HandlersNext]_allvars => GateInv'
  <2> SUFFICES ASSUME HandlersInv, GateInv, [HandlersNext]_allvars
               PROVE  GateInv'
    OBVIOUS
  <2>1. GateType
    BY DEF HandlersInv
  <2>2. CASE \E t \in Threads : Gate(t)
    BY <2>1, <2>2, GateStep
  <2>3. CASE \E t \in Threads : Handler(t)
    BY <2>1, <2>3, HandlerKeepsGate
  <2>4. CASE UNCHANGED vars
    BY <2>4 DEF vars, locals, GateInv, Knows, Value
  <2> QED BY <2>2, <2>3, <2>4
          DEF HandlersNext, AppClose, AppOpen, allvars
<1> QED BY HandlersInitInv, HandlersStep, <1>1, <1>2, PTL DEF HandlersSpec

(* Where the kernel is given room for its answer, no thread makes a device *)
(* that evdev exposes already while evdev is enabled.                      *)
THEOREM SkipsWhileEnabled ==
    ASSUME Lucky
    PROVE  HandlersSpec => []SkippedIfEvdev
<1>1. GateInv => SkippedIfEvdev
  BY DEF GateInv, Knows, SkippedIfEvdev
<1> QED BY GateSafe, <1>1, PTL

(* Then a thread that looks at a device turns back only before it has said *)
(* that the device is of interest, and only while evdev is enabled.        *)
THEOREM BuildsWhatItAccepts ==
    ASSUME Lucky
    PROVE  HandlersSpec => AcceptedIsBuilt
<1> DEFINE Turns(t) == pc[t] # "idle" /\ pc'[t] = "idle"
           MayTurn(t) == \/ pc[t] = "close"
                         \/ purpose[t] = "match" /\ kernel = "enabled"
<1>1. ASSUME HandlersInv, GateInv, [HandlersNext]_allvars
      PROVE  [\A t \in Threads : Turns(t) => MayTurn(t)]_vars
  <2>1. GateType
    BY <1>1 DEF HandlersInv
  <2>2. ASSUME NEW u \in Threads, Gate(u), NEW t \in Threads, Turns(t)
        PROVE  MayTurn(t)
    BY <1>1, <2>1, <2>2, GateStep, GateMoves
  <2>3. ASSUME NEW u \in Threads, Handler(u), NEW t \in Threads, Turns(t)
        PROVE  MayTurn(t)
    BY <1>1, <2>1, <2>3, HandlerKeepsGate, HandlerMoves
  <2> QED BY <1>1, <2>2, <2>3 DEF HandlersNext, AppClose, AppOpen, allvars
<1> QED BY GateSafe, <1>1, PTL DEF HandlersSpec, AcceptedIsBuilt

-----------------------------------------------------------------------------

(* The kernel's answers are those of a device of the kind it is: what the  *)
(* handler makes of them, or of the name alone, is that kind.              *)
Classified ==
    \A n \in Nodes : \A d \in Capable[n] :
        d.kind = IF Family[n] = "event" THEN Classify(d.bits)
                 ELSE IF Family[n] = "hidraw" THEN "hidraw"
                 ELSE NamedType(Family[n])

Right(t) ==
    result[t].of = device[t] /\ (Classified => result[t].type = result[t].kind)

(* What a thread has asked so far.  Nothing before its handler has a       *)
(* descriptor; then, unless that was closed, it is one of the device's own *)
(* node, and no other device has answered.                                 *)
Asking(t) ==
    /\ pc[t] # "idle" => device[t] \in Nodes
    /\ pc[t] \in {"open", "find", "query", "describe"} =>
           Family[device[t]] \in {"event", "hidraw"}
    /\ pc[t] \notin {"query", "describe", "close"} =>
           answered[t] = {} /\ fd[t] = NoFd
    /\ result[t] # NoResult => pc[t] = "close"
    /\ ~disturbed[t] =>
           /\ pc[t] = "query" => fd[t] \in Fds /\ table[fd[t]].node = device[t]
           /\ pc[t] \in {"query", "describe"} => answered[t] \subseteq {device[t]}
           /\ result[t] # NoResult => Right(t)

AskedInv ==
    /\ DOMAIN answered = Threads /\ DOMAIN result = Threads
    /\ disturbed \in [Threads -> BOOLEAN]
    /\ \A t \in Threads : Asking(t)

(* A step that leaves a thread alone leaves what it has asked, if it does  *)
(* not close the descriptor the thread works with, or notes it.            *)
LEMMA OthersAsk ==
    ASSUME NEW u \in Threads, Asking(u), pc'[u] = pc[u], device'[u] = device[u],
           fd'[u] = fd[u], answered'[u] = answered[u], result'[u] = result[u],
           disturbed'[u] \in BOOLEAN, disturbed[u] => disturbed'[u],
           \/ disturbed'[u]
           \/ fd[u] \in Fds /\ table[fd[u]].node = device[u]
                  => table'[fd[u]].node = device[u]
    PROVE  Asking(u)'
BY DEF Asking, Right, Classified

(* A step of the gate, before there is anything to ask.                    *)
LEMMA GateAsks ==
    ASSUME GateType, AskedInv, NEW t \in Threads, Gate(t),
           UNCHANGED <<files, handler>>
    PROVE  AskedInv'
<1>1. /\ pc[t] \in {"idle", "lookup", "failed", "return"}
      /\ \A u \in Threads : u # t => pc'[u] = pc[u]
      /\ UNCHANGED <<table, disturbed, fd, opened, answered, result>>
  BY GateMoves DEF files, handler
<1>2. Asking(t)
  BY DEF AskedInv
<1>3. Labels = {"idle", "lookup", "failed", "return", "create", "open", "find",
                "query", "describe", "close"}
  BY DEF Labels
<1> DEFINE Fine == /\ pc'[t] \in {"idle", "lookup", "failed", "return", "create"}
                   /\ pc'[t] # "idle" => device'[t] \in Nodes
                   /\ \A u \in Threads : u # t => device'[u] = device[u]
<1>4. ASSUME Proceed(t), pc[t] # "idle" PROVE Fine
  <2>1. pc'[t] \in {"lookup", "create"}
    BY <1>3, <1>4, Moves DEF Proceed
  <2> QED BY <1>2, <1>4, <2>1 DEF Proceed, Asking
<1>5. ASSUME Leave(t) PROVE Fine
  <2>1. pc'[t] = "idle"
    BY <1>3, <1>5, Moves DEF Leave
  <2> QED BY <1>5, <2>1 DEF Leave, GateType
<1>6. ASSUME NEW label \in {"return", "failed"}, Goto(t, label), UNCHANGED device,
             pc[t] # "idle"
      PROVE  Fine
  <2>1. pc'[t] = label
    BY <1>3, <1>6, Moves
  <2> QED BY <1>2, <1>6, <2>1 DEF Asking
<1>7. ASSUME NEW d \in Nodes, Look(t, d) PROVE Fine
  <2>1. pc'[t] = "lookup" /\ device' = [device EXCEPT ![t] = d]
    BY <1>3, <1>7, Moves DEF Look
  <2> QED BY <1>7, <2>1 DEF GateType
<1>8. ASSUME Plain(t) \/ Fail(t) \/ Return(t) PROVE Fine
  BY <1>4, <1>5, <1>8 DEF Plain, Fail, Return, Decide
<1>9. ASSUME Remembered(t) \/ Ask(t) PROVE Fine
  <2>1. /\ UNCHANGED device /\ pc[t] # "idle"
        /\ Goto(t, "return") \/ Goto(t, "failed")
    BY <1>9 DEF Remembered, Ask, locals
  <2> QED BY <1>6, <2>1
<1>10. Fine
  BY <1>7, <1>8, <1>9 DEF Gate
<1>11. Asking(t)'
  BY <1>1, <1>2, <1>10 DEF Asking
<1>12. ASSUME NEW u \in Threads, u # t PROVE Asking(u)'
  BY <1>1, <1>10, <1>12, OthersAsk DEF AskedInv
<1> QED BY <1>1, <1>11, <1>12 DEF AskedInv

(* A step of a handler that keeps to itself: the files stay as they are.   *)
LEMMA HandlerAlone ==
    ASSUME AskedInv, NEW t \in Threads,
           DOMAIN answered' = Threads, DOMAIN result' = Threads, Asking(t)',
           \A u \in Threads : u # t =>
               /\ pc'[u] = pc[u] /\ fd'[u] = fd[u]
               /\ answered'[u] = answered[u] /\ result'[u] = result[u],
           UNCHANGED <<device, table, disturbed>>
    PROVE  AskedInv'
<1>1. ASSUME NEW u \in Threads, u # t PROVE Asking(u)'
  BY <1>1, OthersAsk DEF AskedInv
<1> QED BY <1>1 DEF AskedInv

(* The handlers' steps, with what they do to their own thread.             *)
LEMMA HandlerAsks ==
    ASSUME GateType, FilesType, AskedInv, NEW t \in Threads, Handler(t)
    PROVE  AskedInv'
<1>1. /\ Asking(t) /\ t \in DOMAIN answered /\ t \in DOMAIN result
      /\ DOMAIN answered = Threads /\ DOMAIN result = Threads
  BY DEF AskedInv
<1>2. /\ {"open", "find", "query", "describe", "close"} \subseteq Labels
      /\ \A u \in Threads : u # t => pc'[u] = pc[u]
  BY HandlerMoves DEF Labels
<1>3. ASSUME NEW label \in {"open", "find", "query", "describe", "close"},
             Step(t, label)
      PROVE  pc'[t] = label /\ UNCHANGED device
  <2>1. label \in Labels
    BY <1>2
  <2> QED BY <1>3, <2>1, StepMoves DEF Step, locals
<1>4. CASE Named(t)
  <2>1. PICK d \in Capable[device[t]] :
            result' = [result EXCEPT ![t] =
                          [of |-> device[t], type |-> NamedType(Family[device[t]]),
                           kind |-> d.kind]]
    BY <1>4 DEF Named
  <2>2. /\ pc[t] = "create" /\ Step(t, "close")
        /\ Family[device[t]] \notin {"event", "hidraw"}
        /\ UNCHANGED <<table, disturbed, fd, answered>>
    BY <1>4 DEF Named, At, Is, files
  <2>3. pc'[t] = "close" /\ UNCHANGED device
    BY <1>3, <2>2
  <2>4. device[t] \in Nodes /\ answered[t] = {} /\ fd[t] = NoFd
    BY <1>1, <2>2 DEF Asking
  <2>5. /\ result'[t].of = device[t] /\ result'[t].kind = d.kind
        /\ result'[t].type = NamedType(Family[device[t]])
        /\ \A u \in Threads : u # t => result'[u] = result[u]
        /\ DOMAIN result' = Threads
    BY <1>1, <2>1
  <2>6. Right(t)'
    BY <2>2, <2>3, <2>4, <2>5 DEF Right, Classified
  <2>7. Asking(t)'
    BY <2>2, <2>3, <2>4, <2>6 DEF Asking
  <2> QED BY <1>1, <1>2, <2>2, <2>3, <2>5, <2>7, HandlerAlone
<1>5. CASE Sysctl(t)
  <2>1. /\ pc[t] = "create" /\ UNCHANGED <<table, disturbed, fd, result>>
        /\ Family[device[t]] = "event"
        /\ \/ answered' = [answered EXCEPT ![t] = {device[t]}] /\ Step(t, "describe")
           \/ UNCHANGED answered /\ Step(t, "open")
    BY <1>5 DEF Sysctl, At, Is, files
  <2>2. /\ pc'[t] \in {"describe", "open"} /\ UNCHANGED device
        /\ pc'[t] = "describe" => answered'[t] = {device[t]}
        /\ pc'[t] = "open" => answered' = answered
        /\ DOMAIN answered' = Threads
        /\ \A u \in Threads : u # t => answered'[u] = answered[u]
    BY <1>1, <1>3, <2>1
  <2>3. Asking(t)'
    BY <1>1, <2>1, <2>2 DEF Asking
  <2> QED BY <1>1, <1>2, <2>1, <2>2, <2>3, HandlerAlone
<1>6. CASE Hidraw(t) \/ OpenFails(t) \/ FindsNone(t)
  <2>1. /\ UNCHANGED <<table, disturbed, fd, answered, result>>
        /\ pc[t] \in {"create", "open", "find"}
        /\ Family[device[t]] \in {"event", "hidraw"}
    BY <1>1, <1>6 DEF Hidraw, OpenFails, FindsNone, At, Is, files, handler, Asking
  <2>2. \E label \in {"open", "find", "close"} : Step(t, label)
    BY <1>6 DEF Hidraw, OpenFails, FindsNone
  <2>3. pc'[t] \in {"open", "find", "close"} /\ UNCHANGED device
    BY <1>3, <2>2
  <2>4. Asking(t)'
    BY <1>1, <2>1, <2>3 DEF Asking
  <2> QED BY <1>1, <1>2, <2>1, <2>3, <2>4, HandlerAlone
<1>7. CASE OpenNode(t)
  <2>1. PICK f \in Fds : OpenAs(f, device[t], t) /\ fd' = [fd EXCEPT ![t] = f]
    BY <1>7 DEF OpenNode
  <2>2. /\ pc[t] = "open" /\ pc'[t] = "query"
        /\ UNCHANGED <<device, disturbed, answered, result>>
    BY <1>3, <1>7, <2>1 DEF OpenNode, OpenAs, At
  <2>3. table[f] = Free /\ table' = [table EXCEPT ![f] = [node |-> device[t], by |-> t]]
    BY <2>1 DEF OpenAs, Lowest
  <2>4. /\ table'[f].node = device[t] /\ fd'[t] = f
        /\ \A g \in Fds : g # f => table'[g] = table[g]
        /\ \A u \in Threads : u # t => fd'[u] = fd[u]
    BY <2>1, <2>3 DEF FilesType
  <2>5. Asking(t)'
    BY <1>1, <2>2, <2>4 DEF Asking
  <2>6. ASSUME NEW u \in Threads, u # t PROVE Asking(u)'
    <3>1. Asking(u) /\ disturbed[u] \in BOOLEAN
      BY DEF AskedInv
    <3>2. fd[u] = f => table[f].node # device[u]
      BY <2>3, <3>1, HandlersAssumption DEF Free, Asking
    <3>3. /\ pc'[u] = pc[u] /\ device'[u] = device[u] /\ fd'[u] = fd[u]
          /\ answered'[u] = answered[u] /\ result'[u] = result[u]
          /\ disturbed'[u] = disturbed[u]
          /\ fd[u] \in Fds /\ table[fd[u]].node = device[u]
                 => table'[fd[u]].node = device[u]
      BY <1>2, <2>2, <2>4, <2>6, <3>2
    <3> QED BY <3>1, <3>3, OthersAsk
  <2> QED BY <1>1, <2>2, <2>5, <2>6 DEF AskedInv
<1>8. CASE Find(t)
  <2>1. PICK f \in Borrowable(t) : fd' = [fd EXCEPT ![t] = f]
    BY <1>8 DEF Find
  <2>2. /\ pc[t] = "find" /\ pc'[t] = "query"
        /\ UNCHANGED <<device, table, disturbed, answered, result>>
    BY <1>3, <1>8 DEF Find, At, files
  <2>3. /\ f \in Fds /\ table[f].node = device[t] /\ fd'[t] = f
        /\ \A u \in Threads : u # t => fd'[u] = fd[u]
    BY <2>1 DEF Borrowable, FilesType
  <2>4. Asking(t)'
    BY <1>1, <2>2, <2>3 DEF Asking
  <2> QED BY <1>1, <1>2, <2>2, <2>3, <2>4, HandlerAlone
<1>9. CASE Query(t)
  <2> DEFINE node == table[fd[t]].node
  <2>1. /\ pc[t] = "query" /\ UNCHANGED <<table, disturbed, fd, result>>
        /\ answered' = [answered EXCEPT ![t] = @ \cup {node}]
        /\ Step(t, "query") \/ Step(t, "describe")
    BY <1>9 DEF Query, At, files
  <2> HIDE DEF node
  <2>2. /\ pc'[t] \in {"query", "describe"} /\ UNCHANGED device
        /\ answered'[t] \subseteq answered[t] \cup {node}
        /\ DOMAIN answered' = Threads
        /\ \A u \in Threads : u # t => answered'[u] = answered[u]
    BY <1>1, <1>3, <2>1
  <2>3. ~disturbed[t] => node = device[t]
    BY <1>1, <2>1 DEF Asking, node
  <2>4. Asking(t)'
    BY <1>1, <2>1, <2>2, <2>3 DEF Asking
  <2> QED BY <1>1, <1>2, <2>1, <2>2, <2>4, HandlerAlone
<1>10. CASE Describe(t)
  <2>1. PICK node \in answered[t] : \E d \in Capable[node] :
            result' = [result EXCEPT ![t] =
                          [of |-> node, kind |-> d.kind,
                           type |-> IF Is(t, "hidraw") THEN "hidraw"
                                    ELSE Classify(d.bits)]]
    BY <1>10 DEF Describe
  <2>2. PICK d \in Capable[node] :
            result' = [result EXCEPT ![t] =
                          [of |-> node, kind |-> d.kind,
                           type |-> IF Is(t, "hidraw") THEN "hidraw"
                                    ELSE Classify(d.bits)]]
    BY <2>1
  <2>3. /\ pc[t] = "describe" /\ pc'[t] = "close"
        /\ UNCHANGED <<device, table, disturbed, fd, answered>>
    BY <1>3, <1>10 DEF Describe, At, files
  <2>4. /\ result'[t].of = node /\ result'[t].kind = d.kind
        /\ result'[t].type = IF Is(t, "hidraw") THEN "hidraw" ELSE Classify(d.bits)
        /\ \A u \in Threads : u # t => result'[u] = result[u]
        /\ DOMAIN result' = Threads
    BY <1>1, <2>2
  <2>5. device[t] \in Nodes /\ Family[device[t]] \in {"event", "hidraw"}
    BY <1>1, <2>3 DEF Asking
  <2>6. ASSUME ~disturbed[t] PROVE Right(t)'
    <3>1. node = device[t]
      BY <1>1, <2>3, <2>6 DEF Asking
    <3> QED BY <2>3, <2>4, <2>5, <3>1 DEF Right, Classified, Is
  <2>7. Asking(t)'
    BY <1>1, <2>3, <2>5, <2>6 DEF Asking
  <2> QED BY <1>1, <1>2, <2>3, <2>4, <2>7, HandlerAlone
<1>11. CASE Close(t)
  <2>1. /\ fd' = [fd EXCEPT ![t] = NoFd] /\ answered' = [answered EXCEPT ![t] = {}]
        /\ result' = [result EXCEPT ![t] = NoResult]
        /\ device' = [device EXCEPT ![t] = "none"]
        /\ Goto(t, "idle") /\ "idle" \in Labels
    BY <1>11 DEF Close, Ends, Leave, Labels
  <2>2. /\ pc'[t] = "idle" /\ fd'[t] = NoFd /\ answered'[t] = {}
        /\ result'[t] = NoResult
        /\ DOMAIN answered' = Threads /\ DOMAIN result' = Threads
        /\ \A u \in Threads : u # t =>
               /\ pc'[u] = pc[u] /\ device'[u] = device[u] /\ fd'[u] = fd[u]
               /\ answered'[u] = answered[u] /\ result'[u] = result[u]
    BY <1>1, <2>1, Moves DEF FilesType, GateType
  <2>3. /\ disturbed' \in [Threads -> BOOLEAN]
        /\ \A u \in Threads : u # t =>
               /\ disturbed[u] => disturbed'[u]
               /\ disturbed'[u] \/ (fd[u] \in Fds => table'[fd[u]] = table[fd[u]])
    <3>1. CASE opened[t]
      <4>1. /\ table' = [table EXCEPT ![fd[t]] = Free]
            /\ disturbed' = [u \in Threads |-> IF u = t THEN FALSE
                                 ELSE disturbed[u] \/ fd[u] = fd[t]]
        BY <1>11, <3>1 DEF Close, Ends
      <4> QED BY <4>1 DEF AskedInv, FilesType
    <3>2. CASE ~opened[t]
      BY <1>11, <3>2 DEF Close, Ends, AskedInv
    <3> QED BY <3>1, <3>2
  <2>4. Asking(t)'
    BY <2>2 DEF Asking
  <2>5. ASSUME NEW u \in Threads, u # t PROVE Asking(u)'
    BY <2>2, <2>3, <2>5, OthersAsk DEF AskedInv
  <2> QED BY <2>2, <2>3, <2>4, <2>5 DEF AskedInv
<1>12. CASE QueryFails(t) \/ NoParent(t)
  <2>1. /\ UNCHANGED <<table, disturbed, fd, answered, result>>
        /\ pc[t] \in {"query", "describe"} /\ Step(t, "close")
    BY <1>12 DEF QueryFails, NoParent, At, files, handler
  <2>2. pc'[t] = "close" /\ UNCHANGED device
    BY <1>3, <2>1
  <2>3. Asking(t)'
    BY <1>1, <2>1, <2>2 DEF Asking
  <2> QED BY <1>1, <1>2, <2>1, <2>2, <2>3, HandlerAlone
<1> QED BY <1>4, <1>5, <1>6, <1>7, <1>8, <1>9, <1>10, <1>11, <1>12 DEF Handler

(* The application closes and opens: who works with the descriptor it      *)
(* closes is disturbed, and what it opens was free.                        *)
LEMMA AppAsks ==
    ASSUME GateType, FilesType, AskedInv, NEW f \in Fds,
           AppClose(f) \/ \E node \in Asked : AppOpen(f, node)
    PROVE  AskedInv'
<1>1. UNCHANGED <<pc, device, fd, answered, result>>
  BY DEF AppClose, AppOpen, vars, locals, handler
<1>2. CASE AppClose(f)
  <2>1. /\ table' = [table EXCEPT ![f] = Free]
        /\ disturbed' = [t \in Threads |-> disturbed[t] \/ fd[t] = f]
    BY <1>2 DEF AppClose, CloseFd
  <2>2. ASSUME NEW u \in Threads PROVE Asking(u)'
    BY <1>1, <2>1, <2>2, OthersAsk DEF AskedInv, FilesType
  <2> QED BY <1>1, <2>1, <2>2 DEF AskedInv
<1>3. ASSUME NEW node \in Asked, AppOpen(f, node) PROVE AskedInv'
  <2>1. /\ table[f] = Free /\ UNCHANGED disturbed
        /\ table' = [table EXCEPT ![f] = [node |-> node, by |-> "app"]]
    BY <1>3 DEF AppOpen, OpenAs, Lowest
  <2>2. \A g \in Fds : g # f => table'[g] = table[g]
    BY <2>1 DEF FilesType
  <2>3. ASSUME NEW u \in Threads PROVE Asking(u)'
    <3>1. Asking(u) /\ disturbed[u] \in BOOLEAN
      BY DEF AskedInv
    <3>2. CASE fd[u] = f /\ table[f].node = device[u]
      <4>1. device[u] \notin Nodes
        BY <2>1, <3>2, HandlersAssumption DEF Free
      <4> QED BY <1>1, <2>1, <3>1, <4>1 DEF Asking
    <3>3. CASE ~(fd[u] = f /\ table[f].node = device[u])
      BY <1>1, <2>1, <2>2, <3>1, <3>3, OthersAsk
    <3> QED BY <3>2, <3>3
  <2> QED BY <1>1, <2>1, <2>3 DEF AskedInv
<1> QED BY <1>2, <1>3

LEMMA AskedAlways == HandlersSpec => []AskedInv
<1>1. HandlersInit => AskedInv
  BY DEF HandlersInit, Init, AskedInv, Asking
<1>2. HandlersInv /\ AskedInv /\ [HandlersNext]_allvars => AskedInv'
  <2> SUFFICES ASSUME GateType, FilesType, AskedInv, [HandlersNext]_allvars
               PROVE  AskedInv'
    BY DEF HandlersInv
  <2>1. CASE UNCHANGED allvars
    BY <2>1 DEF allvars, vars, locals, files, handler, AskedInv, Asking, Right,
                Classified
  <2> QED BY <2>1, GateAsks, HandlerAsks, AppAsks DEF HandlersNext
<1> QED BY HandlersInitInv, HandlersStep, <1>1, <1>2, PTL DEF HandlersSpec

(* Whatever others open, borrow and close, a handler describes the device  *)
(* it is about, unless the descriptor it works with was closed under it.   *)
THEOREM DescribesItsDevice ==
    HandlersSpec => [](\A t \in Threads : result[t] # NoResult /\ ~disturbed[t] =>
                           result[t].of = device[t])
<1>1. AskedInv => \A t \in Threads : result[t] # NoResult /\ ~disturbed[t] =>
                      result[t].of = device[t]
  BY DEF AskedInv, Asking, Right
<1> QED BY AskedAlways, <1>1, PTL

(* And it describes it as what it is, if the kernel answers of each device *)
(* what one of its kind answers.                                           *)
THEOREM DescribesAsItIs ==
    ASSUME Classified
    PROVE  HandlersSpec => []DescribedAsItIs
<1>1. AskedInv => DescribedAsItIs
  BY DEF AskedInv, Asking, Right, DescribedAsItIs
<1> QED BY AskedAlways, <1>1, PTL
=============================================================================
