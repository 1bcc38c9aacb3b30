--------------------------- MODULE ScanDirProofs ---------------------------
(***************************************************************************)
(* Proofs about ScanDir, for any trees, any lengths of names and any size  *)
(* of the buffer: the walk stays in the buffer that its levels share, an   *)
(* error of the callback is what the walk returns, every entry that is     *)
(* visited is one of the tree and visited once, and what is not shown has  *)
(* a reason.                                                               *)
(***************************************************************************)
EXTENDS ScanDir, SequenceTheorems, WellFoundedInduction, TLAPS

(* The levels of the recursion: what is unread are entries with a name,    *)
(* and a level knows what is left of the buffer.                           *)
Levels ==
    [dir : Seq(Names), unread : SUBSET {p \in tree.paths : p # <<>>},
     off : Nat, rem : Nat]

WalkType ==
    /\ tree \in Trees /\ size \in Sizes
    /\ stack \in Seq(Levels) /\ ret \in Int /\ high \in Nat
    /\ \E S : visited \in Seq(S)
    /\ pc \in {"start", "walk", "done"}

(* Nothing has been visited at the start, and after an error nothing is.   *)
ErrorEnds ==
    /\ pc = "start" => visited = <<>>
    /\ \A i \in DOMAIN visited :
           visited[i].ret < 0 => i = Len(visited) /\ ret < 0

WalkInv == WalkType /\ StaysInPath /\ ErrorEnds

-----------------------------------------------------------------------------

LEMMA AppendAny ==
    ASSUME NEW S, NEW s \in Seq(S), NEW x
    PROVE  /\ Append(s, x) \in Seq(S \cup {x})
           /\ Len(s) \in Nat /\ DOMAIN s = 1..Len(s)
           /\ Len(Append(s, x)) = Len(s) + 1
           /\ DOMAIN Append(s, x) = 1..Len(s) + 1
           /\ Append(s, x)[Len(s) + 1] = x
           /\ \A i \in 1..Len(s) : Append(s, x)[i] = s[i]
<1>1. s \in [1..Len(s) -> S \cup {x}] /\ Len(s) \in Nat
  OBVIOUS
<1>2. s \in Seq(S \cup {x})
  BY <1>1, SeqDef
<1> QED BY <1>2

LEMMA MaxOfTwo ==
    ASSUME NEW a \in Int, NEW b \in Int
    PROVE  Max({a, b}) = IF a >= b THEN a ELSE b
<1>1. \E m \in {a, b} : \A j \in {a, b} : m >= j
  OBVIOUS
<1>2. Max({a, b}) \in {a, b} /\ \A j \in {a, b} : Max({a, b}) >= j
  BY <1>1 DEF Max
<1> QED BY <1>2

LEMMA Parameters ==
    ASSUME WalkType
    PROVE  /\ size \in Nat /\ size > RootLength /\ RootLength \in Nat \ {0}
           /\ tree.paths \subseteq Seq(Names)
           /\ \A n \in Names : Length[n] \in Nat \ {0}
BY ScanAssumption DEF WalkType

(* The innermost level, and the entry it reads.                            *)
LEMMA TopLevel ==
    ASSUME WalkType, StaysInPath, stack # <<>>
    PROVE  /\ Len(stack) \in Nat \ {0} /\ Top \in Levels
           /\ Top.off + Top.rem = size - 1
           /\ \A p \in Top.unread : p \in tree.paths /\ Length[Name(p)] \in Nat \ {0}
           /\ \A p : Read(p) \in Levels
           /\ \A p : Read(p).off = Top.off /\ Read(p).rem = Top.rem
<1>1. Len(stack) \in Nat \ {0} /\ Top \in Levels /\ Len(stack) \in DOMAIN stack
  BY DEF WalkType, Top
<1>2. Top.off + Top.rem = size - 1
  BY <1>1 DEF StaysInPath, Top
<1>3. ASSUME NEW p \in Top.unread
      PROVE  p \in tree.paths /\ Length[Name(p)] \in Nat \ {0}
  <2>1. p \in tree.paths /\ p # <<>>
    BY <1>1 DEF Levels
  <2>2. p \in Seq(Names)
    BY <2>1, Parameters
  <2>3. Name(p) \in Names
    BY <2>1, <2>2 DEF Name
  <2> QED BY <2>1, <2>3, Parameters
<1>4. ASSUME NEW p
      PROVE  Read(p) \in Levels /\ Read(p).off = Top.off /\ Read(p).rem = Top.rem
  BY <1>1 DEF Read, Levels
<1> QED BY <1>1, <1>2, <1>3, <1>4

(* A level set in the place of the innermost.                              *)
LEMMA SetTopLevel ==
    ASSUME WalkType, StaysInPath, stack # <<>>,
           NEW l \in Levels, l.off + l.rem = size - 1
    PROVE  /\ SetTop(l) \in Seq(Levels)
           /\ \A i \in DOMAIN SetTop(l) :
                  SetTop(l)[i].off + SetTop(l)[i].rem = size - 1
<1>1. /\ stack \in Seq(Levels) /\ Len(stack) \in Nat \ {0}
      /\ DOMAIN SetTop(l) = DOMAIN stack
      /\ \A i \in DOMAIN stack :
             SetTop(l)[i] = IF i = Len(stack) THEN l ELSE stack[i]
  BY DEF WalkType, SetTop
<1>2. SetTop(l) \in Seq(Levels)
  BY <1>1 DEF SetTop
<1> QED BY <1>1, <1>2 DEF StaysInPath

(* A level ends.                                                           *)
LEMMA EndLevel ==
    ASSUME WalkType, StaysInPath, stack # <<>>
    PROVE  LET rest == SubSeq(stack, 1, Len(stack) - 1)
           IN /\ rest \in Seq(Levels)
              /\ \A i \in DOMAIN rest : rest[i].off + rest[i].rem = size - 1
<1> DEFINE rest == SubSeq(stack, 1, Len(stack) - 1)
<1>1. stack \in Seq(Levels) /\ Len(stack) \in Nat \ {0}
  BY DEF WalkType
<1>2. /\ rest \in Seq(Levels) /\ DOMAIN rest = 1..Len(stack) - 1
      /\ \A i \in DOMAIN rest : rest[i] = stack[i] /\ i \in DOMAIN stack
  BY <1>1
<1> QED BY <1>2 DEF StaysInPath

(* A level begins, or its directory cannot be opened.                      *)
LEMMA OpenLevel ==
    ASSUME WalkType, NEW dir \in Seq(Names), NEW off \in Nat, NEW rem \in Nat,
           off + rem = size - 1, NEW below \in Seq(Levels),
           \A i \in DOMAIN below : below[i].off + below[i].rem = size - 1,
           Open(dir, off, rem, below)
    PROVE  /\ stack' \in Seq(Levels) /\ ret' \in Int
           /\ \A i \in DOMAIN stack' : stack'[i].off + stack'[i].rem = size - 1
<1> DEFINE l == Level(dir, off, rem)
<1>1. l \in Levels /\ l.off = off /\ l.rem = rem
  <2>1. Entries(dir) \subseteq {p \in tree.paths : p # <<>>}
    BY DEF Entries
  <2> QED BY <2>1 DEF Level, Levels
<1> HIDE DEF l
<1>2. CASE stack' = below
  BY <1>2 DEF Open
<1>3. CASE stack' = Append(below, l)
  <2>1. /\ stack' \in Seq(Levels) /\ DOMAIN stack' = 1..Len(below) + 1
        /\ stack'[Len(below) + 1] = l /\ Len(below) \in Nat
        /\ \A i \in 1..Len(below) : stack'[i] = below[i] /\ i \in DOMAIN below
    BY <1>1, <1>3
  <2>2. ret' \in Int
    BY DEF Open
  <2> QED BY <1>1, <2>1, <2>2
<1> QED BY <1>2, <1>3 DEF Open, l

-----------------------------------------------------------------------------
(* The steps keep the invariant.                                           *)

LEMMA WalkInit == Init => WalkInv
<1> SUFFICES ASSUME Init PROVE WalkInv
  OBVIOUS
<1>1. /\ tree \in Trees /\ size \in Sizes /\ stack = <<>> /\ ret = 0
      /\ high = RootLength /\ visited = <<>> /\ pc = "start"
  BY DEF Init
<1>2. <<>> \in Seq(Levels) /\ <<>> \in Seq({}) /\ DOMAIN <<>> = {}
  OBVIOUS
<1>3. \E S : visited \in Seq(S)
  BY <1>1, <1>2
<1>4. WalkType
  BY <1>1, <1>2, <1>3, ScanAssumption DEF WalkType
<1>5. StaysInPath
  BY <1>1, <1>2, <1>4, Parameters DEF StaysInPath
<1> QED BY <1>1, <1>2, <1>4, <1>5 DEF WalkInv, ErrorEnds

(* A step in which the callback is not called.                             *)
LEMMA NoCall ==
    ASSUME WalkInv, UNCHANGED <<tree, size, visited>>,
           stack' \in Seq(Levels), high' \in Nat, high' < size, ret' \in Int,
           \A i \in DOMAIN stack' : stack'[i].off + stack'[i].rem = size - 1,
           pc' \in {"walk", "done"},
           \/ ret' = ret
           \/ \A i \in DOMAIN visited : ~(visited[i].ret < 0)
    PROVE  WalkInv'
<1>1. Levels' = Levels
  BY DEF Levels
<1>2. WalkType'
  BY <1>1 DEF WalkInv, WalkType
<1>3. \A i \in DOMAIN stack' : stack'[i].rem >= 0
  <2>1. \A i \in DOMAIN stack' : stack'[i] \in Levels
    OBVIOUS
  <2> QED BY <2>1 DEF Levels
<1>4. StaysInPath'
  BY <1>3 DEF StaysInPath
<1>5. ErrorEnds'
  BY DEF WalkInv, ErrorEnds
<1> QED BY <1>2, <1>4, <1>5 DEF WalkInv

(* While entries are read no callback has failed.                          *)
LEMMA NoneFailed ==
    ASSUME WalkInv, ret >= 0
    PROVE  \A i \in DOMAIN visited : ~(visited[i].ret < 0)
BY DEF WalkInv, WalkType, ErrorEnds

LEMMA StartStep ==
    ASSUME WalkInv, Start
    PROVE  WalkInv'
<1> DEFINE none == <<>>
           rem == size - RootLength - 1
<1>1. /\ UNCHANGED <<tree, size, high, visited>> /\ pc' = "walk" /\ visited = <<>>
      /\ Open(none, RootLength, rem, none)
  BY DEF Start, input, WalkInv, ErrorEnds
<1>2. /\ WalkType /\ StaysInPath /\ high \in Nat /\ high < size
  BY DEF WalkInv, WalkType, StaysInPath
<1>3. RootLength \in Nat /\ rem \in Nat /\ RootLength + rem = size - 1
  BY <1>2, Parameters
<1>4. none \in Seq(Names) /\ none \in Seq(Levels) /\ DOMAIN none = {}
  OBVIOUS
<1> HIDE DEF none, rem
<1>5. \A i \in DOMAIN none : none[i].off + none[i].rem = size - 1
  BY <1>4
<1>6. /\ stack' \in Seq(Levels) /\ ret' \in Int
      /\ \A i \in DOMAIN stack' : stack'[i].off + stack'[i].rem = size - 1
  BY <1>1, <1>2, <1>3, <1>4, <1>5, OpenLevel
<1> QED BY <1>1, <1>2, <1>6, NoCall

LEMMA SkipStep ==
    ASSUME WalkInv, NEW p, SkipLong(p)
    PROVE  WalkInv'
<1>1. /\ UNCHANGED <<tree, size, high, visited, ret, pc>> /\ stack # <<>>
      /\ pc = "walk" /\ stack' = SetTop(Read(p))
  BY DEF SkipLong, Reads, input
<1>2. WalkType /\ StaysInPath /\ high \in Nat /\ high < size /\ ret \in Int
  BY DEF WalkInv, WalkType, StaysInPath
<1>3. Read(p) \in Levels /\ Read(p).off + Read(p).rem = size - 1
  BY <1>1, <1>2, TopLevel
<1>4. /\ stack' \in Seq(Levels)
      /\ \A i \in DOMAIN stack' : stack'[i].off + stack'[i].rem = size - 1
  BY <1>1, <1>2, <1>3, SetTopLevel
<1> QED BY <1>1, <1>2, <1>4, NoCall

(* What a name that fits writes, with or without a "/" after it.           *)
LEMMA CopyStays ==
    ASSUME WalkInv, NEW p, Reads(p), NEW slash \in {0, 1}, Copy(p, slash),
           Length[Name(p)] + slash <= Top.rem
    PROVE  high' \in Nat /\ high' < size
<1>1. WalkType /\ StaysInPath /\ stack # <<>> /\ p \in Top.unread
  BY DEF WalkInv, Reads
<1>2. /\ Top \in Levels /\ Top.off + Top.rem = size - 1
      /\ Length[Name(p)] \in Nat
  BY <1>1, TopLevel
<1>3. Top.off \in Nat /\ Top.rem \in Nat
  BY <1>2 DEF Levels
<1>4. high \in Nat /\ high < size /\ size \in Nat
  BY <1>1, Parameters DEF WalkType, StaysInPath
<1> DEFINE end == Top.off + Length[Name(p)] + slash
<1>5. end \in Nat /\ end < size
  BY <1>2, <1>3, <1>4
<1>6. high' = Max({high, end})
  BY DEF Copy
<1> HIDE DEF end
<1> QED BY <1>4, <1>5, <1>6, MaxOfTwo

LEMMA VisitStep ==
    ASSUME WalkInv, NEW p, Visit(p)
    PROVE  WalkInv'
<1> DEFINE call == [path |-> path', ret |-> ret']
<1>1. /\ UNCHANGED <<tree, size, pc>> /\ stack # <<>> /\ Reads(p)
      /\ pc = "walk" /\ ret >= 0 /\ stack' = SetTop(Read(p))
      /\ ret' \in {0, -1} /\ visited' = Append(visited, call)
      /\ Copy(p, 0) /\ Length[Name(p)] <= Top.rem
  BY DEF Visit, Reads, input
<1>2. WalkType /\ StaysInPath
  BY DEF WalkInv
<1>3. Length[Name(p)] \in Nat
  BY <1>1, <1>2, TopLevel DEF Reads
<1>4. high' \in Nat /\ high' < size
  BY <1>1, <1>3, CopyStays
<1>5. Read(p) \in Levels /\ Read(p).off + Read(p).rem = size - 1
  BY <1>1, <1>2, TopLevel
<1>6. /\ stack' \in Seq(Levels)
      /\ \A i \in DOMAIN stack' : stack'[i].off + stack'[i].rem = size - 1
  BY <1>1, <1>2, <1>5, SetTopLevel
<1> HIDE DEF call
<1>7. /\ Len(visited) \in Nat /\ DOMAIN visited = 1..Len(visited)
      /\ DOMAIN visited' = 1..Len(visited) + 1 /\ Len(visited') = Len(visited) + 1
      /\ visited'[Len(visited) + 1] = call
      /\ \A i \in 1..Len(visited) : visited'[i] = visited[i]
      /\ \E S : visited' \in Seq(S)
  <2>1. PICK S : visited \in Seq(S)
    BY <1>2 DEF WalkType
  <2>2. /\ visited' \in Seq(S \cup {call})
        /\ Len(visited) \in Nat /\ DOMAIN visited = 1..Len(visited)
        /\ Len(visited') = Len(visited) + 1
        /\ DOMAIN visited' = 1..Len(visited) + 1
        /\ visited'[Len(visited) + 1] = call
        /\ \A i \in 1..Len(visited) : visited'[i] = visited[i]
    <3>1. visited' = Append(visited, call)
      BY <1>1
    <3> HIDE <1>1
    <3> QED BY <2>1, <3>1, AppendAny
  <2> QED BY <2>2
<1>8. WalkType'
  <2>1. Levels' = Levels
    BY <1>1 DEF Levels
  <2> QED BY <1>1, <1>2, <1>4, <1>6, <1>7, <2>1 DEF WalkType
<1>9. StaysInPath'
  <2>1. \A i \in DOMAIN stack' : stack'[i] \in Levels
    BY <1>6
  <2> QED BY <1>1, <1>4, <1>6, <2>1 DEF StaysInPath, Levels
<1>10. ErrorEnds'
  <2>1. \A i \in DOMAIN visited : ~(visited[i].ret < 0)
    BY <1>1, NoneFailed
  <2>2. call.ret = ret'
    BY DEF call
  <2> QED BY <1>1, <1>7, <2>1, <2>2 DEF ErrorEnds
<1> QED BY <1>8, <1>9, <1>10 DEF WalkInv

LEMMA DescendStep ==
    ASSUME WalkInv, NEW p, Descend(p)
    PROVE  WalkInv'
<1> DEFINE off == Top.off + Length[Name(p)] + 1
           rem == Top.rem - Length[Name(p)] - 1
           below == SetTop(Read(p))
<1>1. /\ UNCHANGED <<tree, size, visited, pc>> /\ stack # <<>> /\ Reads(p)
      /\ pc = "walk" /\ ret >= 0 /\ Copy(p, 1) /\ Length[Name(p)] < Top.rem
      /\ Open(p, off, rem, below)
  BY DEF Descend, Reads, input
<1>2. WalkType /\ StaysInPath
  BY DEF WalkInv
<1>3. /\ Top \in Levels /\ Top.off + Top.rem = size - 1
      /\ Length[Name(p)] \in Nat /\ p \in tree.paths
  BY <1>1, <1>2, TopLevel DEF Reads
<1>4. Top.off \in Nat /\ Top.rem \in Nat /\ size \in Nat /\ p \in Seq(Names)
  BY <1>2, <1>3, Parameters DEF Levels
<1>5. off \in Nat /\ rem \in Nat /\ off + rem = size - 1
  <2> DEFINE n == Length[Name(p)]
             o == Top.off
             m == Top.rem
  <2>1. n \in Nat /\ o \in Nat /\ m \in Nat /\ n < m /\ o + m = size - 1
    BY <1>1, <1>3, <1>4
  <2>2. off = o + n + 1 /\ rem = m - n - 1
    OBVIOUS
  <2> HIDE DEF n, o, m, off, rem
  <2> QED BY <1>4, <2>1, <2>2
<1>6. high' \in Nat /\ high' < size
  BY <1>1, <1>3, <1>4, CopyStays
<1>7. Read(p) \in Levels /\ Read(p).off + Read(p).rem = size - 1
  BY <1>1, <1>2, TopLevel
<1>8. /\ below \in Seq(Levels)
      /\ \A i \in DOMAIN below : below[i].off + below[i].rem = size - 1
  BY <1>1, <1>2, <1>7, SetTopLevel
<1> HIDE DEF off, rem, below
<1>9. /\ stack' \in Seq(Levels) /\ ret' \in Int
      /\ \A i \in DOMAIN stack' : stack'[i].off + stack'[i].rem = size - 1
  BY <1>1, <1>2, <1>4, <1>5, <1>8, OpenLevel
<1> QED BY <1>1, <1>6, <1>9, NoneFailed, NoCall

(* A level ends, read to its end, by an error, or for want of room.        *)
LEMMA EndStep ==
    ASSUME WalkInv, Close \/ (\E p : NoRoom(p))
    PROVE  WalkInv'
<1>1. WalkType /\ StaysInPath /\ high \in Nat /\ high < size /\ ret \in Int
  BY DEF WalkInv, WalkType, StaysInPath
<1>2. /\ UNCHANGED <<tree, size, visited, ret, pc>> /\ stack # <<>> /\ pc = "walk"
      /\ stack' = SubSeq(stack, 1, Len(stack) - 1)
  BY DEF Close, NoRoom, Reads, input
<1>3. high' \in Nat /\ high' < size
  <2>1. CASE Close
    BY <1>1, <2>1 DEF Close
  <2>2. ASSUME NEW p, NoRoom(p) PROVE high' \in Nat /\ high' < size
    <3>1. Reads(p) /\ Copy(p, 0) /\ Length[Name(p)] = Top.rem
      BY <2>2 DEF NoRoom
    <3>2. Top \in Levels
      BY <1>1, <1>2, TopLevel
    <3>3. Length[Name(p)] + 0 <= Top.rem
      BY <3>1, <3>2 DEF Levels
    <3> QED BY <3>1, <3>3, CopyStays
  <2> QED BY <2>1, <2>2
<1>4. /\ stack' \in Seq(Levels)
      /\ \A i \in DOMAIN stack' : stack'[i].off + stack'[i].rem = size - 1
  BY <1>1, <1>2, EndLevel
<1> QED BY <1>1, <1>2, <1>3, <1>4, NoCall

LEMMA WalkStep ==
    ASSUME WalkInv, [Next]_vars
    PROVE  WalkInv'
<1>1. CASE Start
  BY <1>1, StartStep
<1>2. CASE Close
  BY <1>2, EndStep
<1>3. CASE Return \/ UNCHANGED vars
  <2>1. /\ UNCHANGED <<tree, size, stack, ret, high, visited>>
        /\ pc' = pc \/ pc' = "done"
    BY <1>3 DEF Return, vars, input
  <2>2. Levels' = Levels
    BY <2>1 DEF Levels
  <2> QED BY <2>1, <2>2 DEF WalkInv, WalkType, StaysInPath, ErrorEnds
<1>4. ASSUME NEW p, SkipLong(p) \/ Visit(p) \/ Descend(p) \/ NoRoom(p)
      PROVE  WalkInv'
  BY <1>4, SkipStep, VisitStep, DescendStep, EndStep
<1> QED BY <1>1, <1>2, <1>3, <1>4 DEF Next

-----------------------------------------------------------------------------

THEOREM WalkInvariant == Spec => []WalkInv
BY WalkInit, WalkStep, PTL DEF Spec

(* scandir_sub writes into the buffer of scandir_recursive only, whatever  *)
(* is in the tree: the names may be longer than it, and no number of       *)
(* directories one in another makes off and rem disagree.                  *)
THEOREM BufferKept == Spec => []StaysInPath
<1>1. WalkInv => StaysInPath
  BY DEF WalkInv
<1> QED BY <1>1, WalkInvariant, PTL

(* FailureReported of ScanDir: an error of the callback is the last thing  *)
(* it is called for, and what the walk returns.                            *)
THEOREM ErrorsReported == Spec => []FailureReported
<1>1. WalkInv => FailureReported
  BY DEF WalkInv, ErrorEnds, FailureReported
<1> QED BY <1>1, WalkInvariant, PTL

-----------------------------------------------------------------------------
(* Induction over the natural numbers, for a set of them.                  *)

LEMMA LeastNatural ==
    ASSUME NEW T, T \subseteq Nat, T # {}
    PROVE  \E n \in T : \A m \in T : n <= m
<1> DEFINE R == OpToRel(<, Nat)
<1>1. IsWellFoundedOn(R, Nat)
  BY NatLessThanWellFounded, Zenon
<1>2. ASSUME NEW m \in Nat, NEW n \in Nat, m < n PROVE <<m, n>> \in R
  BY <1>2 DEF OpToRel
<1> HIDE DEF R
<1>3. PICK n \in T : \A m \in T : ~(<<m, n>> \in R)
  BY <1>1, WFMin
<1>4. ASSUME NEW m \in T PROVE n <= m
  <2>1. m \in Nat /\ n \in Nat /\ ~(m < n)
    BY <1>2, <1>3
  <2> QED BY <2>1
<1> QED BY <1>4

LEMMA SetInduction ==
    ASSUME NEW T, 0 \in T, \A n \in Nat : n \in T => n + 1 \in T
    PROVE  Nat \subseteq T
<1> DEFINE B == Nat \ T
<1> SUFFICES ASSUME B # {} PROVE FALSE
  OBVIOUS
<1>1. PICK n \in B : \A m \in B : n <= m
  BY LeastNatural
<1>2. n # 0 /\ n - 1 \in Nat /\ n - 1 \notin B
  BY <1>1
<1> QED BY <1>1, <1>2

-----------------------------------------------------------------------------
(* How many bytes a path takes.                                            *)

(* f says it of every beginning of p.                                      *)
Sums(f, p) ==
    /\ f \in [0..Len(p) -> Int] /\ f[0] = -1
    /\ \A n \in 1..Len(p) : f[n] = f[n - 1] + Length[p[n]] + 1

LEMMA NamesHaveLength ==
    ASSUME NEW p \in Seq(Names)
    PROVE  Len(p) \in Nat /\ \A n \in 1..Len(p) : Length[p[n]] \in Nat \ {0}
BY ScanAssumption

LEMMA SumsExist ==
    ASSUME NEW p \in Seq(Names)
    PROVE  \E f : Sums(f, p)
<1> DEFINE Begun(g, k) == /\ g \in [0..k -> Int] /\ g[0] = -1
                          /\ \A n \in 1..k : g[n] = g[n - 1] + Length[p[n]] + 1
           Can(k) == \E g : Begun(g, k)
           T == {k \in Nat : k <= Len(p) => Can(k)}
<1>1. 0 \in T
  <2> DEFINE g == [n \in 0..0 |-> -1]
  <2>1. Begun(g, 0)
    OBVIOUS
  <2> QED BY <2>1
<1>2. ASSUME NEW k \in Nat, k \in T PROVE k + 1 \in T
  <2> HIDE DEF Can
  <2> SUFFICES ASSUME k + 1 <= Len(p) PROVE Can(k + 1)
    OBVIOUS
  <2>1. Can(k)
    BY <1>2, NamesHaveLength
  <2> USE DEF Can
  <2>2. PICK g : Begun(g, k)
    BY <2>1
  <2> DEFINE h == [n \in 0..k + 1 |->
                       IF n = k + 1 THEN g[k] + Length[p[k + 1]] + 1 ELSE g[n]]
  <2>3. g[k] \in Int /\ Length[p[k + 1]] \in Int
    BY <2>2, NamesHaveLength
  <2>4. h \in [0..k + 1 -> Int] /\ h[0] = -1
    BY <2>2, <2>3
  <2>5. ASSUME NEW n \in 1..k + 1 PROVE h[n] = h[n - 1] + Length[p[n]] + 1
    <3>1. CASE n = k + 1
      <4>1. k \in 0..k + 1 /\ k # k + 1
        OBVIOUS
      <4>2. h[n - 1] = g[k] /\ h[n] = g[k] + Length[p[n]] + 1
        BY <3>1, <4>1
      <4> QED BY <4>2
    <3>2. CASE n # k + 1
      <4>1. n \in 1..k /\ n - 1 \in 0..k
        BY <3>2
      <4>2. h[n] = g[n] /\ h[n - 1] = g[n - 1]
        BY <4>1
      <4> QED BY <2>2, <4>1, <4>2
    <3> QED BY <3>1, <3>2
  <2> HIDE DEF h
  <2>6. Begun(h, k + 1)
    BY <2>4, <2>5
  <2> QED BY <2>6
<1> HIDE DEF T
<1>3. Len(p) \in T
  BY <1>1, <1>2, SetInduction, NamesHaveLength
<1> QED BY <1>3, NamesHaveLength DEF T, Sums

(* Where two paths agree, so do the sums.                                  *)
LEMMA SumsAgree ==
    ASSUME NEW p \in Seq(Names), NEW q \in Seq(Names), NEW f, Sums(f, p),
           NEW g, Sums(g, q), NEW m \in Nat, m <= Len(p), m <= Len(q),
           \A n \in 1..m : p[n] = q[n]
    PROVE  \A n \in 0..m : f[n] = g[n]
<1> DEFINE T == {k \in Nat : k <= m => f[k] = g[k]}
<1>1. 0 \in T
  BY DEF Sums
<1>2. ASSUME NEW k \in Nat, k \in T PROVE k + 1 \in T
  <2> SUFFICES ASSUME k + 1 <= m PROVE f[k + 1] = g[k + 1]
    OBVIOUS
  <2>1. k <= m /\ k + 1 \in 1..m /\ k + 1 \in 1..Len(p) /\ k + 1 \in 1..Len(q)
    BY NamesHaveLength
  <2>2. f[k] = g[k] /\ (k + 1) - 1 = k
    BY <1>2, <2>1
  <2> QED BY <2>1, <2>2 DEF Sums
<1> HIDE DEF T
<1>3. \A n \in Nat : n \in T
  BY <1>1, <1>2, SetInduction
<1> QED BY <1>3 DEF T

LEMMA BytesIsSum ==
    ASSUME NEW p \in Seq(Names), NEW f, Sums(f, p)
    PROVE  Bytes(p) = f[Len(p)]
<1> DEFINE Rule(g) == g = [n \in 0..Len(p) |->
                               IF n = 0 THEN -1 ELSE g[n - 1] + Length[p[n]] + 1]
           upTo == CHOOSE g : Rule(g)
<1>1. Len(p) \in Nat
  BY NamesHaveLength
<1>2. Rule(f)
  <2>1. \A n \in 0..Len(p) :
            f[n] = IF n = 0 THEN -1 ELSE f[n - 1] + Length[p[n]] + 1
    BY <1>1 DEF Sums
  <2> QED BY <2>1 DEF Sums
<1>3. Rule(upTo)
  <2> HIDE DEF Rule
  <2> QED BY <1>2
<1>4. Bytes(p) = upTo[Len(p)]
  BY DEF Bytes
<1> HIDE DEF upTo
<1>5. /\ upTo[0] = -1
      /\ \A n \in 1..Len(p) : upTo[n] = upTo[n - 1] + Length[p[n]] + 1
  BY <1>1, <1>3
<1> DEFINE T == {k \in Nat : k <= Len(p) => f[k] = upTo[k]}
<1>6. 0 \in T
  BY <1>5 DEF Sums
<1>7. ASSUME NEW k \in Nat, k \in T PROVE k + 1 \in T
  <2> SUFFICES ASSUME k + 1 <= Len(p) PROVE f[k + 1] = upTo[k + 1]
    OBVIOUS
  <2>1. k <= Len(p) /\ k + 1 \in 1..Len(p) /\ (k + 1) - 1 = k
    BY <1>1
  <2> QED BY <1>5, <1>7, <2>1 DEF Sums
<1> HIDE DEF T
<1>8. Len(p) \in T
  BY <1>1, <1>6, <1>7, SetInduction
<1> QED BY <1>1, <1>4, <1>8 DEF T

(* The bytes of the beginnings of a path.                                  *)
LEMMA BytesOfBeginning ==
    ASSUME NEW p \in Seq(Names), NEW f, Sums(f, p), NEW m \in 0..Len(p)
    PROVE  /\ SubSeq(p, 1, m) \in Seq(Names) /\ Len(SubSeq(p, 1, m)) = m
           /\ Bytes(SubSeq(p, 1, m)) = f[m] /\ f[m] \in Int
<1> DEFINE q == SubSeq(p, 1, m)
<1>1. /\ q \in Seq(Names) /\ Len(q) = m /\ Len(p) \in Nat /\ m \in Nat
      /\ \A n \in 1..m : q[n] = p[n]
  OBVIOUS
<1> HIDE DEF q
<1>2. PICK g : Sums(g, q)
  BY <1>1, SumsExist
<1>3. Bytes(q) = g[m]
  BY <1>1, <1>2, BytesIsSum
<1>4. \A n \in 0..m : g[n] = f[n]
  BY <1>1, <1>2, SumsAgree
<1>5. f[m] \in Int
  BY DEF Sums
<1> QED BY <1>1, <1>3, <1>4, <1>5 DEF q

LEMMA BytesType ==
    ASSUME NEW p \in Seq(Names)
    PROVE  Bytes(p) \in Int
BY SumsExist, BytesIsSum, NamesHaveLength DEF Sums

LEMMA BytesEmpty == Bytes(<<>>) = -1
<1>1. <<>> \in Seq(Names) /\ Len(<<>>) = 0
  OBVIOUS
<1> QED BY <1>1, SumsExist, BytesIsSum DEF Sums

(* A path takes the bytes of its directory's, a "/" and its name's.        *)
LEMMA BytesOfEntry ==
    ASSUME NEW p \in Seq(Names), p # <<>>
    PROVE  Bytes(p) = Bytes(SubSeq(p, 1, Len(p) - 1)) + Length[Name(p)] + 1
<1>1. PICK f : Sums(f, p)
  BY SumsExist
<1>2. Len(p) \in 1..Len(p) /\ Len(p) - 1 \in 0..Len(p) /\ Len(p) \in 0..Len(p)
  OBVIOUS
<1>3. Bytes(SubSeq(p, 1, Len(p) - 1)) = f[Len(p) - 1]
  BY <1>1, <1>2, BytesOfBeginning
<1>4. Bytes(p) = f[Len(p)]
  BY <1>1, BytesIsSum
<1> QED BY <1>1, <1>2, <1>3, <1>4 DEF Sums, Name

LEMMA BytesGrow ==
    ASSUME NEW p \in Seq(Names), NEW m \in 0..Len(p), NEW n \in 0..Len(p), m < n
    PROVE  Bytes(SubSeq(p, 1, m)) < Bytes(SubSeq(p, 1, n))
<1>1. PICK f : Sums(f, p)
  BY SumsExist
<1> DEFINE T == {k \in Nat : m + k + 1 <= Len(p) => f[m] < f[m + k + 1]}
<1>2. ASSUME NEW k \in 1..Len(p) PROVE f[k - 1] < f[k] /\ f[k - 1] \in Int /\ f[k] \in Int
  <2>1. k - 1 \in 0..Len(p) /\ k \in 0..Len(p)
    OBVIOUS
  <2>2. f[k] = f[k - 1] + Length[p[k]] + 1 /\ f[k - 1] \in Int /\ f[k] \in Int
    BY <1>1, <2>1 DEF Sums
  <2>3. Length[p[k]] \in Nat \ {0}
    BY NamesHaveLength
  <2> QED BY <2>2, <2>3
<1>3. m \in Nat /\ n \in Nat /\ Len(p) \in Nat
  OBVIOUS
<1>4. 0 \in T
  <2> SUFFICES ASSUME m + 1 <= Len(p) PROVE f[m] < f[m + 1]
    BY <1>3
  <2>1. m + 1 \in 1..Len(p) /\ (m + 1) - 1 = m
    BY <1>3
  <2> QED BY <1>2, <2>1
<1>5. ASSUME NEW k \in Nat, k \in T PROVE k + 1 \in T
  <2> SUFFICES ASSUME m + (k + 1) + 1 <= Len(p) PROVE f[m] < f[m + (k + 1) + 1]
    OBVIOUS
  <2> DEFINE i == m + (k + 1) + 1
  <2>1. /\ i \in 1..Len(p) /\ i - 1 = m + k + 1 /\ m + k + 1 <= Len(p)
        /\ m + 1 \in 1..Len(p) /\ (m + 1) - 1 = m
    BY <1>3
  <2>2. f[m] < f[m + k + 1] /\ f[m] \in Int
    BY <1>2, <1>5, <2>1
  <2> HIDE DEF i
  <2>3. f[m + k + 1] < f[i] /\ f[i] \in Int /\ f[m + k + 1] \in Int
    BY <1>2, <2>1
  <2>4. f[m] < f[i]
    BY <2>2, <2>3
  <2> QED BY <2>4 DEF i
<1> HIDE DEF T
<1>6. n - m - 1 \in Nat /\ n - m - 1 \in T
  BY <1>3, <1>4, <1>5, SetInduction
<1>7. f[m] < f[n]
  <2>1. m + (n - m - 1) + 1 = n /\ n <= Len(p)
    BY <1>3
  <2> QED BY <1>6, <2>1 DEF T
<1> QED BY <1>1, <1>7, BytesOfBeginning

(* What is in the buffer below where the entries of a directory are        *)
(* written, once the buffer begins with the path of the directory, is that *)
(* path.                                                                   *)
LEMMA BelowDirectory ==
    ASSUME NEW d \in Seq(Names), path \in Seq(Names), Len(d) <= Len(path),
           SubSeq(path, 1, Len(d)) = d, RootLength \in Nat
    PROVE  /\ Below(RootLength + Bytes(d) + 1) = Len(d)
           /\ SubSeq(path, 1, Below(RootLength + Bytes(d) + 1)) = d
<1> DEFINE At(n) == Bytes(SubSeq(path, 1, n))
           S == {n \in 0..Len(path) : RootLength + At(n) < RootLength + Bytes(d) + 1}
<1>1. Len(d) \in 0..Len(path) /\ At(Len(d)) = Bytes(d) /\ Bytes(d) \in Int
  <2>1. Len(d) \in 0..Len(path)
    OBVIOUS
  <2>2. Bytes(d) \in Int
    BY BytesType
  <2> QED BY <2>1, <2>2
<1>2. \A n \in 0..Len(path) : At(n) \in Int
  <2> TAKE n \in 0..Len(path)
  <2>1. SubSeq(path, 1, n) \in Seq(Names)
    OBVIOUS
  <2> QED BY <2>1, BytesType
<1>3. \A n \in 0..Len(path) : Len(d) < n => At(Len(d)) < At(n)
  <2> TAKE n \in 0..Len(path)
  <2> SUFFICES ASSUME Len(d) < n PROVE At(Len(d)) < At(n)
    OBVIOUS
  <2>1. Len(d) \in 0..Len(path)
    BY <1>1
  <2> QED BY <2>1, BytesGrow
<1> HIDE DEF At
<1>4. Len(d) \in S
  BY <1>1
<1>5. ASSUME NEW n \in S PROVE n <= Len(d)
  <2>1. n \in 0..Len(path) /\ At(n) \in Int /\ At(n) <= At(Len(d))
    BY <1>1, <1>2
  <2>2. ~(Len(d) < n)
    BY <1>1, <1>2, <1>3, <2>1
  <2> QED BY <1>1, <2>1, <2>2
<1>6. S \subseteq Int
  OBVIOUS
<1>7. Below(RootLength + Bytes(d) + 1) = Max(S)
  BY DEF Below, At
<1>8. Max(S) \in S /\ \A n \in S : Max(S) >= n
  <2>1. \A n \in S : Len(d) >= n
    BY <1>1, <1>5, <1>6
  <2> HIDE DEF S
  <2> QED BY <1>4, <2>1 DEF Max
<1>9. Max(S) = Len(d)
  BY <1>1, <1>4, <1>5, <1>6, <1>8
<1> QED BY <1>7, <1>9

-----------------------------------------------------------------------------
(* The beginnings of a path.                                               *)

LEMMA BeginningOfBeginning ==
    ASSUME NEW S, NEW s \in Seq(S), NEW j \in 0..Len(s), NEW i \in 0..j
    PROVE  SubSeq(SubSeq(s, 1, j), 1, i) = SubSeq(s, 1, i)
<1> DEFINE b == SubSeq(s, 1, j)
           l == SubSeq(b, 1, i)
           r == SubSeq(s, 1, i)
<1>1. b \in Seq(S) /\ Len(b) = j /\ \A n \in 1..j : b[n] = s[n]
  OBVIOUS
<1>2. r \in Seq(S) /\ Len(r) = i /\ \A n \in 1..i : r[n] = s[n]
  OBVIOUS
<1> HIDE DEF b, r
<1>3. l \in Seq(S) /\ Len(l) = i /\ \A n \in 1..i : l[n] = b[n]
  BY <1>1
<1> HIDE DEF l
<1>4. \A n \in 1..i : l[n] = r[n]
  BY <1>1, <1>2, <1>3
<1>5. l = r
  BY <1>2, <1>3, <1>4, SeqEqual
<1> QED BY <1>5 DEF l, r, b

LEMMA WholeBeginning ==
    ASSUME NEW S, NEW s \in Seq(S)
    PROVE  SubSeq(s, 1, Len(s)) = s /\ SubSeq(s, 1, 0) = <<>>
OBVIOUS

(* The paths on the way to one of the tree are directories of it.          *)
LEMMA OnTheWay ==
    ASSUME WalkType, NEW q \in tree.paths, NEW n \in 1..Len(q)
    PROVE  /\ q \in Seq(Names) /\ Len(q) \in Nat
           /\ SubSeq(q, 1, n) \in tree.paths
           /\ n < Len(q) => SubSeq(q, 1, n) \in tree.dirs
<1>1. q \in Seq(Names) /\ Len(q) \in Nat /\ tree.dirs \subseteq tree.paths
  BY ScanAssumption DEF WalkType
<1>2. n < Len(q) => SubSeq(q, 1, n) \in tree.dirs
  <2> SUFFICES ASSUME n < Len(q) PROVE SubSeq(q, 1, n) \in tree.dirs
    OBVIOUS
  <2>1. n \in 1..Len(q) - 1
    BY <1>1
  <2>2. tree \in Trees
    BY DEF WalkType
  <2> QED BY <2>1, <2>2, ScanAssumption
<1>3. n = Len(q) => SubSeq(q, 1, n) = q
  BY <1>1, WholeBeginning
<1>4. n < Len(q) \/ n = Len(q)
  BY <1>1
<1> QED BY <1>1, <1>2, <1>3, <1>4, Zenon

-----------------------------------------------------------------------------
(* The order of the walk.                                                  *)

(* The levels are those of a path through the tree: each writes where its  *)
(* directory's path ends, has entries of its directory left to read, and   *)
(* not the one below which it was left.                                    *)
Chain(s) ==
    \A i \in DOMAIN s :
        /\ Len(s[i].dir) = i - 1
        /\ s[i].off = RootLength + Bytes(s[i].dir) + 1
        /\ s[i].unread \subseteq Entries(s[i].dir)
        /\ \A j \in DOMAIN s : i < j =>
              /\ s[i].dir = SubSeq(s[j].dir, 1, i - 1)
              /\ SubSeq(s[j].dir, 1, i) \notin s[i].unread

(* What a buffer w begins with.                                            *)
Begins(w, s) ==
    s # <<>> => LET dir == s[Len(s)].dir
                IN Len(dir) <= Len(w) /\ SubSeq(w, 1, Len(dir)) = dir

(* The levels s have yet to come to p, or to a directory on the way to it. *)
Ahead(p, s) ==
    \E i \in DOMAIN s : i <= Len(p) /\ SubSeq(p, 1, i) \in s[i].unread

(* What was visited is in the tree, was visited once, and is not ahead.    *)
NotAgain ==
    VisitsEntriesOnce /\ \A i \in DOMAIN visited : ~Ahead(visited[i].path, stack)

(* What is wanted was shown, is ahead, or was cut off.                     *)
IsCut(p) == recursive /\ \E n \in 0..Len(p) - 1 : Cut(SubSeq(p, 1, n))
NoneLost ==
    /\ pc \in {"start", "done"} => stack = <<>>
    /\ pc # "start" /\ ret >= 0 /\ ~failed =>
           \A p \in Wanted : p \in Shown \/ Ahead(p, stack) \/ IsCut(p)

OrderInv ==
    /\ WalkInv
    /\ Chain(stack) /\ path \in Seq(Names) /\ Begins(path, stack)
    /\ NotAgain /\ NoneLost

LEMMA EntryOf ==
    ASSUME WalkType, NEW dir \in Seq(Names), NEW p \in Entries(dir)
    PROVE  /\ p \in tree.paths /\ p \in Seq(Names) /\ p # <<>>
           /\ Len(dir) \in Nat /\ Len(p) = Len(dir) + 1
           /\ SubSeq(p, 1, Len(dir)) = dir
           /\ Bytes(p) = Bytes(dir) + Length[Name(p)] + 1
           /\ Bytes(dir) \in Int /\ Length[Name(p)] \in Nat \ {0}
           /\ Append(dir, Name(p)) = p
<1>1. /\ p \in tree.paths /\ p \in Seq(Names) /\ Len(dir) \in Nat
      /\ Len(p) = Len(dir) + 1 /\ SubSeq(p, 1, Len(dir)) = dir
  BY Parameters DEF Entries
<1>2. p # <<>> /\ Len(p) - 1 = Len(dir)
  BY <1>1
<1>3. Bytes(p) = Bytes(dir) + Length[Name(p)] + 1
  BY <1>1, <1>2, BytesOfEntry
<1>4. Name(p) \in Names
  BY <1>1, <1>2 DEF Name
<1>5. Append(dir, Name(p)) = p
  <2> DEFINE a == Append(dir, Name(p))
  <2>1. /\ a \in Seq(Names) /\ Len(a) = Len(dir) + 1
        /\ \A n \in 1..Len(a) : a[n] = p[n]
    <3>1. \A n \in 1..Len(dir) : dir[n] = p[n]
      BY <1>1
    <3>2. /\ Append(dir, Name(p)) \in Seq(Names) /\ Len(Append(dir, Name(p))) = Len(dir) + 1
          /\ Append(dir, Name(p))[Len(dir) + 1] = p[Len(p)]
          /\ \A n \in 1..Len(dir) : Append(dir, Name(p))[n] = dir[n]
      BY <1>4 DEF Name
    <3> QED BY <1>1, <3>1, <3>2
  <2> HIDE DEF a
  <2>2. a = p
    BY <1>1, <2>1, SeqEqual
  <2> QED BY <2>2 DEF a
<1> QED BY <1>1, <1>2, <1>3, <1>4, <1>5, BytesType, ScanAssumption

(* The entry that is read.                                                 *)
LEMMA AtEntry ==
    ASSUME WalkInv, Chain(stack), NEW p, Reads(p)
    PROVE  /\ WalkType /\ stack # <<>> /\ stack \in Seq(Levels)
           /\ Len(stack) \in Nat \ {0} /\ Top \in Levels /\ Top = stack[Len(stack)]
           /\ Top.dir \in Seq(Names) /\ Len(Top.dir) = Len(stack) - 1
           /\ p \in Entries(Top.dir) /\ p \in Top.unread
           /\ p \in tree.paths /\ p \in Seq(Names) /\ Len(p) = Len(stack)
           /\ SubSeq(p, 1, Len(stack) - 1) = Top.dir /\ SubSeq(p, 1, Len(p)) = p
           /\ RootLength + Bytes(p) = Top.off + Length[Name(p)]
           /\ Top.off + Top.rem = size - 1
           /\ Bytes(p) \in Int /\ Length[Name(p)] \in Nat /\ size \in Nat
           /\ RootLength \in Nat /\ Top.off \in Nat /\ Top.rem \in Nat
<1>1. WalkType /\ StaysInPath /\ stack # <<>> /\ p \in Top.unread
  BY DEF WalkInv, Reads
<1>2. /\ Len(stack) \in Nat \ {0} /\ Top \in Levels /\ Top.off + Top.rem = size - 1
      /\ size \in Nat /\ RootLength \in Nat
  BY <1>1, TopLevel, Parameters
<1>3. Top.dir \in Seq(Names) /\ Top.off \in Nat /\ Top.rem \in Nat
  BY <1>2 DEF Levels
<1>4. /\ Len(Top.dir) = Len(stack) - 1 /\ p \in Entries(Top.dir)
      /\ Top.off = RootLength + Bytes(Top.dir) + 1
  <2>1. Len(stack) \in DOMAIN stack /\ stack \in Seq(Levels)
    BY <1>1, <1>2 DEF WalkType
  <2> QED BY <1>1, <2>1 DEF Chain, Top
<1>5. /\ p \in tree.paths /\ p \in Seq(Names) /\ Len(p) = Len(Top.dir) + 1
      /\ SubSeq(p, 1, Len(Top.dir)) = Top.dir
      /\ Bytes(p) = Bytes(Top.dir) + Length[Name(p)] + 1
      /\ Bytes(Top.dir) \in Int /\ Length[Name(p)] \in Nat
  BY <1>1, <1>3, <1>4, EntryOf
<1>6. RootLength + Bytes(p) = Top.off + Length[Name(p)] /\ Bytes(p) \in Int
  <2> DEFINE n == Length[Name(p)]
             b == Bytes(Top.dir)
  <2>1. n \in Nat /\ b \in Int /\ Bytes(p) = b + n + 1
    BY <1>5
  <2>2. Top.off = RootLength + b + 1
    BY <1>4
  <2> HIDE DEF n, b
  <2>3. RootLength + Bytes(p) = Top.off + n /\ Bytes(p) \in Int
    BY <1>2, <1>3, <2>1, <2>2
  <2> QED BY <2>3 DEF n
<1>7. SubSeq(p, 1, Len(p)) = p
  BY <1>5, WholeBeginning
<1>8. Len(p) = Len(stack) /\ SubSeq(p, 1, Len(stack) - 1) = Top.dir
  BY <1>2, <1>4, <1>5
<1>9. stack \in Seq(Levels) /\ Top = stack[Len(stack)]
  BY <1>1 DEF WalkType, Top
<1> QED BY <1>1, <1>2, <1>3, <1>4, <1>5, <1>6, <1>7, <1>8, <1>9, Zenon

(* What strcpy and strcat leave in the buffer is the path of the entry.    *)
LEMMA CopyIsPath ==
    ASSUME WalkInv, Chain(stack), path \in Seq(Names), Begins(path, stack),
           NEW p, Reads(p), NEW slash, Copy(p, slash)
    PROVE  path' = p
<1>1. /\ Top = stack[Len(stack)] /\ stack # <<>> /\ Top.dir \in Seq(Names)
      /\ p \in Entries(Top.dir) /\ WalkType /\ RootLength \in Nat
      /\ stack \in Seq(Levels) /\ Len(stack) \in Nat \ {0}
  BY AtEntry
<1> DEFINE d == Top.dir
<1>2. Top.off = RootLength + Bytes(d) + 1
  <2>1. Len(stack) \in DOMAIN stack
    BY <1>1
  <2> QED BY <1>1, <2>1 DEF Chain
<1>3. d \in Seq(Names) /\ Len(d) <= Len(path) /\ SubSeq(path, 1, Len(d)) = d
  BY <1>1 DEF Begins
<1>4. Append(d, Name(p)) = p
  BY <1>1, EntryOf
<1>5. path' = Append(SubSeq(path, 1, Below(Top.off)), Name(p))
  BY DEF Copy
<1> HIDE DEF d
<1>6. SubSeq(path, 1, Below(Top.off)) = d
  BY <1>1, <1>2, <1>3, BelowDirectory
<1> QED BY <1>4, <1>5, <1>6

-----------------------------------------------------------------------------
(* An entry of the innermost level is read.                                *)

LEMMA ReadLevels ==
    ASSUME WalkType, stack # <<>>, NEW p
    PROVE  LET s == SetTop(Read(p))
           IN /\ s # <<>> /\ Len(s) = Len(stack) /\ DOMAIN s = DOMAIN stack
              /\ DOMAIN stack = 1..Len(stack) /\ Len(stack) \in Nat \ {0}
              /\ \A i \in DOMAIN stack :
                     /\ s[i].dir = stack[i].dir /\ s[i].off = stack[i].off
                     /\ s[i].unread \subseteq stack[i].unread
                     /\ i < Len(stack) => s[i].unread = stack[i].unread
              /\ s[Len(stack)].unread = Top.unread \ {p}
<1> DEFINE s == SetTop(Read(p))
<1>1. /\ stack \in Seq(Levels) /\ Len(stack) \in Nat \ {0}
      /\ DOMAIN stack = 1..Len(stack) /\ Top \in Levels /\ Top = stack[Len(stack)]
  BY DEF WalkType, Top
<1>2. /\ Read(p).dir = Top.dir /\ Read(p).off = Top.off
      /\ Read(p).unread = Top.unread \ {p} /\ Read(p) \in Levels
  BY <1>1 DEF Read, Levels
<1>3. /\ s \in Seq(Levels) /\ Len(s) = Len(stack) /\ DOMAIN s = DOMAIN stack
      /\ \A i \in DOMAIN stack :
             s[i] = IF i = Len(stack) THEN Read(p) ELSE stack[i]
  BY <1>1, <1>2 DEF SetTop
<1> HIDE DEF s
<1>4. s # <<>>
  BY <1>1, <1>3
<1>5. \A i \in DOMAIN stack :
          /\ s[i].dir = stack[i].dir /\ s[i].off = stack[i].off
          /\ s[i].unread \subseteq stack[i].unread
          /\ i < Len(stack) => s[i].unread = stack[i].unread
  BY <1>1, <1>2, <1>3
<1>6. s[Len(stack)].unread = Top.unread \ {p}
  BY <1>1, <1>2, <1>3
<1> QED BY <1>1, <1>3, <1>4, <1>5, <1>6 DEF s

LEMMA ReadChain ==
    ASSUME WalkType, stack # <<>>, Chain(stack), NEW p
    PROVE  Chain(SetTop(Read(p)))
<1> DEFINE s == SetTop(Read(p))
<1>1. /\ DOMAIN s = DOMAIN stack
      /\ \A i \in DOMAIN stack :
             /\ s[i].dir = stack[i].dir /\ s[i].off = stack[i].off
             /\ s[i].unread \subseteq stack[i].unread
  BY ReadLevels
<1> HIDE DEF s
<1>2. Chain(s)
  BY <1>1 DEF Chain
<1> QED BY <1>2 DEF s

LEMMA ReadBegins ==
    ASSUME WalkInv, Chain(stack), NEW p, Reads(p)
    PROVE  Begins(p, SetTop(Read(p)))
<1> DEFINE s == SetTop(Read(p))
<1>1. /\ WalkType /\ stack # <<>> /\ Len(stack) \in Nat \ {0}
      /\ Len(Top.dir) = Len(stack) - 1 /\ Len(p) = Len(stack)
      /\ SubSeq(p, 1, Len(stack) - 1) = Top.dir /\ Top = stack[Len(stack)]
  BY AtEntry
<1>2. Len(s) = Len(stack) /\ s[Len(stack)].dir = stack[Len(stack)].dir
  BY <1>1, ReadLevels
<1> HIDE DEF s
<1>3. Begins(p, s)
  BY <1>1, <1>2 DEF Begins
<1> QED BY <1>3 DEF s

(* Nothing comes to be ahead by it, and p no longer is.                    *)
LEMMA ReadAhead ==
    ASSUME WalkInv, Chain(stack), NEW p, Reads(p)
    PROVE  /\ Ahead(p, stack) /\ ~Ahead(p, SetTop(Read(p)))
           /\ \A q : Ahead(q, SetTop(Read(p))) => Ahead(q, stack)
           /\ \A q : Ahead(q, stack) =>
                 \/ Ahead(q, SetTop(Read(p)))
                 \/ Len(stack) <= Len(q) /\ SubSeq(q, 1, Len(stack)) = p
<1> DEFINE s == SetTop(Read(p))
           k == Len(stack)
<1>1. /\ WalkType /\ stack # <<>> /\ k \in Nat \ {0} /\ Len(p) = k
      /\ Top.dir = SubSeq(p, 1, k - 1) /\ Top = stack[k]
      /\ p \in Top.unread /\ SubSeq(p, 1, k) = p /\ p \in Seq(Names)
  BY AtEntry
<1>2. /\ DOMAIN s = DOMAIN stack /\ DOMAIN stack = 1..k
      /\ \A i \in DOMAIN stack :
             /\ s[i].dir = stack[i].dir /\ s[i].off = stack[i].off
             /\ s[i].unread \subseteq stack[i].unread
             /\ i < k => s[i].unread = stack[i].unread
      /\ s[k].unread = Top.unread \ {p}
  BY <1>1, ReadLevels
<1> HIDE DEF s, k
<1>3. Ahead(p, stack)
  <2>1. k \in DOMAIN stack /\ k <= Len(p)
    BY <1>1, <1>2
  <2>2. SubSeq(p, 1, k) \in stack[k].unread
    BY <1>1, Zenon
  <2> QED BY <2>1, <2>2, Zenon DEF Ahead
<1>4. ASSUME NEW i \in DOMAIN stack, i <= Len(p)
      PROVE  SubSeq(p, 1, i) \notin s[i].unread
  <2>1. CASE i = k
    BY <1>1, <1>2, <2>1
  <2>2. CASE i # k
    <3>1. i < k /\ i \in 0..k - 1 /\ k - 1 \in 0..Len(p) /\ k \in DOMAIN stack
      BY <1>1, <1>2, <2>2
    <3>2. SubSeq(stack[k].dir, 1, i) \notin stack[i].unread
      BY <3>1 DEF Chain
    <3>3. SubSeq(SubSeq(p, 1, k - 1), 1, i) = SubSeq(p, 1, i)
      BY <1>1, <3>1, BeginningOfBeginning
    <3> QED BY <1>1, <1>2, <3>1, <3>2, <3>3
  <2> QED BY <2>1, <2>2
<1>5. \A q : Ahead(q, s) => Ahead(q, stack)
  BY <1>2 DEF Ahead
<1>6. ASSUME NEW q, Ahead(q, stack), ~Ahead(q, s)
      PROVE  k <= Len(q) /\ SubSeq(q, 1, k) = p
  <2>1. PICK i \in DOMAIN stack :
            i <= Len(q) /\ SubSeq(q, 1, i) \in stack[i].unread
    BY <1>6 DEF Ahead
  <2>2. SubSeq(q, 1, i) \notin s[i].unread
    BY <1>2, <1>6, <2>1 DEF Ahead
  <2>3. i = k
    BY <1>1, <1>2, <2>1, <2>2
  <2> QED BY <1>1, <1>2, <2>1, <2>2, <2>3
<1> QED BY <1>3, <1>4, <1>5, <1>6, <1>2 DEF s, k, Ahead

-----------------------------------------------------------------------------
(* A level ends, and one begins.                                           *)

Outer == SubSeq(stack, 1, Len(stack) - 1)

LEMMA ButTheLast ==
    ASSUME NEW S, NEW s \in Seq(S), s # <<>>
    PROVE  LET rest == SubSeq(s, 1, Len(s) - 1)
           IN /\ Len(s) \in Nat \ {0} /\ DOMAIN s = 1..Len(s)
              /\ rest \in Seq(S) /\ Len(rest) = Len(s) - 1
              /\ DOMAIN rest = 1..Len(s) - 1
              /\ \A i \in 1..Len(s) - 1 : rest[i] = s[i]
<1> DEFINE rest == SubSeq(s, 1, Len(s) - 1)
<1>1. Len(s) \in Nat \ {0} /\ DOMAIN s = 1..Len(s)
  OBVIOUS
<1>2. rest \in Seq(S)
  BY <1>1
<1>3. Len(rest) = Len(s) - 1
  BY <1>1
<1>4. \A i \in 1..Len(s) - 1 : rest[i] = s[i]
  BY <1>1
<1> HIDE DEF rest
<1>5. DOMAIN rest = 1..Len(s) - 1
  BY <1>2, <1>3
<1> QED BY <1>1, <1>2, <1>3, <1>4, <1>5 DEF rest

LEMMA OuterLevels ==
    ASSUME WalkType, stack # <<>>, Chain(stack)
    PROVE  /\ Len(stack) \in Nat \ {0} /\ Len(Outer) = Len(stack) - 1
           /\ DOMAIN stack = 1..Len(stack) /\ DOMAIN Outer = 1..Len(stack) - 1
           /\ \A i \in DOMAIN Outer : Outer[i] = stack[i]
           /\ Chain(Outer)
           /\ \A q : Ahead(q, Outer) => Ahead(q, stack)
           /\ \A q : Ahead(q, stack) =>
                 \/ Ahead(q, Outer)
                 \/ /\ Len(stack) <= Len(q)
                    /\ SubSeq(q, 1, Len(stack)) \in Top.unread
<1> DEFINE k == Len(stack)
<1>1. /\ stack \in Seq(Levels) /\ k \in Nat \ {0} /\ DOMAIN stack = 1..k
      /\ Len(Outer) = k - 1 /\ DOMAIN Outer = 1..k - 1 /\ Top = stack[k]
      /\ \A i \in DOMAIN Outer : Outer[i] = stack[i]
  <2>1. stack \in Seq(Levels) /\ Top = stack[k]
    BY DEF WalkType, Top
  <2> QED BY <2>1, ButTheLast DEF Outer
<1> HIDE DEF k
<1>2. Chain(Outer)
  BY <1>1 DEF Chain
<1>3. \A q : Ahead(q, Outer) => Ahead(q, stack)
  BY <1>1 DEF Ahead
<1>4. ASSUME NEW q, Ahead(q, stack), ~Ahead(q, Outer)
      PROVE  k <= Len(q) /\ SubSeq(q, 1, k) \in Top.unread
  <2>1. PICK i \in DOMAIN stack :
            i <= Len(q) /\ SubSeq(q, 1, i) \in stack[i].unread
    BY <1>4 DEF Ahead
  <2>2. i \notin DOMAIN Outer
    BY <1>1, <1>4, <2>1 DEF Ahead
  <2>3. i = k
    BY <1>1, <2>1, <2>2
  <2>4. k <= Len(q) /\ SubSeq(q, 1, k) \in stack[k].unread
    BY <2>1, <2>3, Zenon
  <2> QED BY <1>1, <2>4, Zenon
<1> QED BY <1>1, <1>2, <1>3, <1>4 DEF k

LEMMA OuterBegins ==
    ASSUME WalkType, stack # <<>>, Chain(stack), NEW w \in Seq(Names),
           Begins(w, stack)
    PROVE  Begins(w, Outer)
<1> DEFINE k == Len(stack)
           dir == stack[k].dir
<1>1. /\ k \in Nat \ {0} /\ Len(Outer) = k - 1 /\ DOMAIN stack = 1..k
      /\ DOMAIN Outer = 1..k - 1 /\ \A i \in DOMAIN Outer : Outer[i] = stack[i]
  BY OuterLevels
<1>2. /\ dir \in Seq(Names) /\ Len(dir) = k - 1
      /\ Len(dir) <= Len(w) /\ SubSeq(w, 1, Len(dir)) = dir
  <2>1. stack \in Seq(Levels) /\ k \in DOMAIN stack
    BY <1>1 DEF WalkType
  <2>2. dir \in Seq(Names)
    <3>1. stack[k] \in Levels
      BY <2>1
    <3> HIDE DEF k
    <3> QED BY <3>1 DEF Levels
  <2> QED BY <2>1, <2>2 DEF Begins, Chain
<1> SUFFICES ASSUME Outer # <<>>
             PROVE  LET d == Outer[Len(Outer)].dir
                    IN Len(d) <= Len(w) /\ SubSeq(w, 1, Len(d)) = d
  BY DEF Begins
<1>3. k - 1 \in 1..k - 1
  <2>1. Outer \in Seq(Levels)
    BY ButTheLast DEF Outer, WalkType
  <2>2. Len(Outer) # 0
    BY <2>1
  <2> QED BY <1>1, <2>2
<1> HIDE DEF k
<1>4. /\ Outer[Len(Outer)].dir = SubSeq(dir, 1, k - 2)
      /\ Len(SubSeq(dir, 1, k - 2)) = k - 2
  <2>1. k - 1 \in DOMAIN stack /\ k \in DOMAIN stack /\ (k - 1) - 1 = k - 2
    BY <1>1, <1>3
  <2>2. stack[k - 1].dir = SubSeq(dir, 1, k - 2)
    BY <1>1, <2>1 DEF Chain
  <2>3. Len(SubSeq(dir, 1, k - 2)) = k - 2
    BY <1>1, <1>2, <1>3
  <2> QED BY <1>1, <1>3, <2>2, <2>3
<1>5. SubSeq(w, 1, k - 2) = SubSeq(dir, 1, k - 2)
  <2>1. k - 1 \in 0..Len(w) /\ k - 2 \in 0..k - 1
    BY <1>1, <1>2, <1>3
  <2>2. SubSeq(SubSeq(w, 1, k - 1), 1, k - 2) = SubSeq(w, 1, k - 2)
    BY <2>1, BeginningOfBeginning
  <2> QED BY <1>2, <2>2
<1>6. k - 2 <= Len(w)
  BY <1>1, <1>2
<1> QED BY <1>4, <1>5, <1>6

LEMMA AppendTo ==
    ASSUME NEW S, NEW s \in Seq(S), NEW x \in S
    PROVE  LET t == Append(s, x)
           IN /\ Len(s) \in Nat /\ DOMAIN s = 1..Len(s)
              /\ Len(t) = Len(s) + 1 /\ DOMAIN t = 1..Len(s) + 1
              /\ t # <<>> /\ t[Len(s) + 1] = x
              /\ \A i \in 1..Len(s) : t[i] = s[i]
<1> DEFINE t == Append(s, x)
<1>1. /\ Len(s) \in Nat /\ DOMAIN s = 1..Len(s) /\ t \in Seq(S)
      /\ Len(t) = Len(s) + 1 /\ DOMAIN t = 1..Len(s) + 1
  OBVIOUS
<1>2. t[Len(s) + 1] = x /\ \A i \in 1..Len(s) : t[i] = s[i]
  OBVIOUS
<1> HIDE DEF t
<1>3. t # <<>>
  BY <1>1
<1> QED BY <1>1, <1>2, <1>3 DEF t

(* A level for the directory dir, within the levels s.                     *)
LEMMA InnerLevel ==
    ASSUME WalkType, NEW dir \in Seq(Names), NEW off, NEW rem,
           off \in Nat, rem \in Nat, off = RootLength + Bytes(dir) + 1,
           NEW s \in Seq(Levels), Chain(s), Len(dir) = Len(s),
           NEW w, Len(dir) <= Len(w), SubSeq(w, 1, Len(dir)) = dir,
           \A i \in DOMAIN s : /\ s[i].dir = SubSeq(dir, 1, i - 1)
                               /\ SubSeq(dir, 1, i) \notin s[i].unread
    PROVE  LET t == Append(s, Level(dir, off, rem))
           IN /\ Chain(t) /\ Begins(w, t)
              /\ \A q : Ahead(q, s) => Ahead(q, t)
              /\ \A q : Ahead(q, t) =>
                    \/ Ahead(q, s)
                    \/ /\ Len(dir) + 1 <= Len(q)
                       /\ SubSeq(q, 1, Len(dir) + 1) \in Entries(dir)
              /\ \A q : /\ Len(dir) + 1 <= Len(q)
                        /\ SubSeq(q, 1, Len(dir) + 1) \in Entries(dir)
                        => Ahead(q, t)
<1> DEFINE l == Level(dir, off, rem)
           t == Append(s, l)
           k == Len(dir) + 1
<1>1. /\ l.dir = dir /\ l.off = off /\ l.unread = Entries(dir) /\ l \in Levels
  <2>1. Entries(dir) \subseteq {p \in tree.paths : p # <<>>}
    BY DEF Entries
  <2> QED BY <2>1 DEF Level, Levels
<1> HIDE DEF l
<1>2. /\ Len(dir) \in Nat /\ DOMAIN s = 1..Len(dir) /\ Len(t) = k
      /\ DOMAIN t = 1..k /\ t # <<>> /\ t[k] = l /\ k \in Nat
      /\ \A i \in DOMAIN s : t[i] = s[i]
  BY <1>1, AppendTo
<1>3. \A i \in DOMAIN t : i \in DOMAIN s \/ i = k
  BY <1>2
<1> HIDE DEF t, k
<1>4. Chain(t)
  <2>1. ASSUME NEW i \in DOMAIN t
        PROVE  /\ Len(t[i].dir) = i - 1
               /\ t[i].off = RootLength + Bytes(t[i].dir) + 1
               /\ t[i].unread \subseteq Entries(t[i].dir)
    <3>1. CASE i \in DOMAIN s
      BY <1>2, <3>1 DEF Chain
    <3>2. CASE i = k
      BY <1>1, <1>2, <3>2 DEF k
    <3> QED BY <1>3, <3>1, <3>2
  <2>2. ASSUME NEW i \in DOMAIN t, NEW j \in DOMAIN t, i < j
        PROVE  /\ t[i].dir = SubSeq(t[j].dir, 1, i - 1)
               /\ SubSeq(t[j].dir, 1, i) \notin t[i].unread
    <3>1. i \in DOMAIN s /\ t[i] = s[i]
      BY <1>2, <1>3, <2>2
    <3>2. CASE j \in DOMAIN s
      BY <1>2, <2>2, <3>1, <3>2 DEF Chain
    <3>3. CASE j = k
      BY <1>1, <1>2, <3>1, <3>3
    <3> QED BY <1>3, <3>2, <3>3
  <2> QED BY <2>1, <2>2 DEF Chain
<1>5. Begins(w, t)
  BY <1>1, <1>2 DEF Begins
<1>6. ASSUME NEW q, Ahead(q, s) PROVE Ahead(q, t)
  <2>1. PICK i \in DOMAIN s : i <= Len(q) /\ SubSeq(q, 1, i) \in s[i].unread
    BY <1>6 DEF Ahead
  <2>2. i \in DOMAIN t /\ t[i] = s[i]
    BY <1>2 DEF k
  <2> QED BY <2>1, <2>2, Zenon DEF Ahead
<1>7. ASSUME NEW q, Ahead(q, t), ~Ahead(q, s)
      PROVE  k <= Len(q) /\ SubSeq(q, 1, k) \in Entries(dir)
  <2>1. PICK i \in DOMAIN t : i <= Len(q) /\ SubSeq(q, 1, i) \in t[i].unread
    BY <1>7 DEF Ahead
  <2>2. i \notin DOMAIN s
    BY <1>2, <1>7, <2>1, Zenon DEF Ahead
  <2>3. i = k
    BY <1>3, <2>2
  <2> QED BY <1>1, <1>2, <2>1, <2>3, Zenon
<1>8. ASSUME NEW q, k <= Len(q), SubSeq(q, 1, k) \in Entries(dir)
      PROVE  Ahead(q, t)
  <2>1. k \in DOMAIN t /\ t[k].unread = Entries(dir)
    BY <1>1, <1>2
  <2> QED BY <1>8, <2>1, Zenon DEF Ahead
<1> QED BY <1>2, <1>4, <1>5, <1>6, <1>7, <1>8 DEF t, l, k

-----------------------------------------------------------------------------
(* The steps keep the order.                                               *)

LEMMA ChainNext ==
    ASSUME UNCHANGED tree, Chain(stack')
    PROVE  Chain(stack)'
<1>1. \A d : Entries(d)' = Entries(d)
  BY DEF Entries
<1> QED BY <1>1 DEF Chain

LEMMA WantedNext ==
    ASSUME UNCHANGED <<input, visited>>
    PROVE  /\ Wanted' = Wanted /\ Shown' = Shown
           /\ \A q : IsCut(q)' = IsCut(q)
<1>1. UNCHANGED <<tree, size, recursive>>
  BY DEF input
<1>2. \A d : Entries(d)' = Entries(d)
  BY <1>1 DEF Entries
<1>3. \A d : Cut(d)' = Cut(d)
  BY <1>1, <1>2 DEF Cut
<1> QED BY <1>1, <1>3 DEF Wanted, Shown, IsCut

(* A step in which the callback is not called.                             *)
LEMMA QuietStep ==
    ASSUME OrderInv, WalkInv', UNCHANGED <<input, visited>>,
           Chain(stack'), path' \in Seq(Names), Begins(path', stack'),
           \A i \in DOMAIN visited : ~Ahead(visited[i].path, stack'),
           pc' \in {"start", "done"} => stack' = <<>>,
           pc' # "start" /\ ret' >= 0 /\ ~failed' =>
               \A q \in Wanted : q \in Shown \/ Ahead(q, stack') \/ IsCut(q)
    PROVE  OrderInv'
<1>1. UNCHANGED <<tree, recursive>>
  BY DEF input
<1>2. Chain(stack)'
  BY <1>1, ChainNext
<1>3. Begins(path, stack)'
  BY DEF Begins
<1>4. NotAgain'
  BY <1>1 DEF OrderInv, NotAgain, VisitsEntriesOnce, Ahead
<1>5. NoneLost'
  <2>1. \A q : Ahead(q, stack)' <=> Ahead(q, stack')
    BY DEF Ahead
  <2>2. /\ Wanted' = Wanted /\ Shown' = Shown
        /\ \A q : IsCut(q)' = IsCut(q)
    BY WantedNext
  <2> QED BY <2>1, <2>2 DEF NoneLost
<1> QED BY <1>2, <1>3, <1>4, <1>5 DEF OrderInv

(* A wanted path on whose way the entry p is that is read: it is p, if p   *)
(* is not entered, and it fits.                                            *)
LEMMA WantedThrough ==
    ASSUME OrderInv, NEW p, Reads(p), NEW q \in Wanted,
           Len(stack) <= Len(q), SubSeq(q, 1, Len(stack)) = p
    PROVE  /\ Length[Name(p)] <= Top.rem
           /\ ~(recursive /\ p \in tree.dirs) => q = p
           /\ recursive /\ p \in tree.dirs => Len(stack) < Len(q)
<1> DEFINE k == Len(stack)
<1>1. /\ WalkType /\ k \in Nat \ {0} /\ p \in Seq(Names) /\ Len(p) = k
      /\ p \in tree.paths
      /\ RootLength + Bytes(p) = Top.off + Length[Name(p)]
      /\ Top.off + Top.rem = size - 1 /\ Bytes(p) \in Int /\ size \in Nat
      /\ Length[Name(p)] \in Nat /\ Top.off \in Nat /\ Top.rem \in Nat
      /\ RootLength \in Nat
  BY AtEntry DEF OrderInv
<1>2. /\ q \in tree.paths /\ RootLength + Bytes(q) < size
      /\ IF recursive THEN q \notin tree.dirs ELSE Len(q) = 1
  BY DEF Wanted
<1> HIDE DEF k
<1>3. k \in 1..Len(q) /\ q \in Seq(Names) /\ Len(q) \in Nat
  <2>1. q \in Seq(Names) /\ Len(q) \in Nat
    BY <1>1, <1>2, Parameters
  <2> QED BY <1>1, <2>1 DEF k
<1>4. k < Len(q) => p \in tree.dirs
  BY <1>1, <1>2, <1>3, OnTheWay DEF k
<1>5. k = Len(q) => q = p
  BY <1>3, WholeBeginning DEF k
<1>6. k < Len(q) \/ k = Len(q)
  BY <1>3
<1>7. ~(recursive /\ p \in tree.dirs) => q = p
  <2> SUFFICES ASSUME ~(recursive /\ p \in tree.dirs), k < Len(q) PROVE FALSE
    BY <1>5, <1>6
  <2>1. Len(q) = 1
    BY <1>2, <1>4
  <2> QED BY <1>1, <2>1
<1>8. recursive /\ p \in tree.dirs => k < Len(q)
  BY <1>2, <1>5, <1>6
<1>9. Length[Name(p)] <= Top.rem
  <2>1. Bytes(p) <= Bytes(q) /\ Bytes(q) \in Int
    <3>1. CASE k = Len(q)
      BY <1>1, <1>5, <3>1
    <3>2. CASE k < Len(q)
      <4>1. k \in 0..Len(q) /\ Len(q) \in 0..Len(q)
        BY <1>3
      <4>2. Bytes(SubSeq(q, 1, k)) < Bytes(SubSeq(q, 1, Len(q)))
        BY <1>3, <3>2, <4>1, BytesGrow
      <4>3. SubSeq(q, 1, Len(q)) = q /\ SubSeq(q, 1, k) = p
        BY <1>3, WholeBeginning DEF k
      <4>4. Bytes(q) \in Int
        BY <1>3, BytesType
      <4>5. Bytes(p) < Bytes(q)
        BY <4>2, <4>3
      <4> QED BY <1>1, <4>4, <4>5
    <3> QED BY <1>6, <3>1, <3>2
  <2> DEFINE n == Length[Name(p)]
             o == Top.off
             m == Top.rem
             b == Bytes(p)
             c == Bytes(q)
  <2>2. /\ RootLength + b = o + n /\ o + m = size - 1 /\ size \in Nat
        /\ b \in Int /\ n \in Nat /\ o \in Nat /\ m \in Nat /\ RootLength \in Nat
    BY <1>1
  <2>3. RootLength + c < size /\ b <= c /\ c \in Int
    BY <1>2, <2>1
  <2> HIDE DEF n, o, m, b, c
  <2>4. n <= m
    BY <2>2, <2>3
  <2> QED BY <2>4 DEF n, m
<1> QED BY <1>7, <1>8, <1>9 DEF k

LEMMA SkipOrder ==
    ASSUME OrderInv, NEW p, SkipLong(p)
    PROVE  OrderInv'
<1> DEFINE s == SetTop(Read(p))
<1>1. /\ WalkInv /\ WalkType /\ Chain(stack) /\ path \in Seq(Names)
      /\ Begins(path, stack) /\ NotAgain /\ NoneLost /\ WalkInv'
  BY SkipStep DEF OrderInv, WalkInv
<1>2. /\ UNCHANGED <<input, ret, path, visited, failed, pc>> /\ Reads(p)
      /\ pc = "walk" /\ ret >= 0 /\ stack # <<>> /\ stack' = s
      /\ Length[Name(p)] > Top.rem
  BY DEF SkipLong, Reads
<1>3. Chain(s)
  BY <1>1, <1>2, ReadChain
<1>4. Begins(path, s)
  <2>1. /\ s # <<>> /\ Len(s) = Len(stack) /\ Len(stack) \in DOMAIN stack
        /\ \A i \in DOMAIN stack : s[i].dir = stack[i].dir
    BY <1>1, <1>2, ReadLevels
  <2> HIDE DEF s
  <2> QED BY <1>1, <1>2, <2>1 DEF Begins
<1>5. /\ \A q : Ahead(q, s) => Ahead(q, stack)
      /\ \A q : Ahead(q, stack) =>
            \/ Ahead(q, s)
            \/ Len(stack) <= Len(q) /\ SubSeq(q, 1, Len(stack)) = p
  BY <1>1, <1>2, ReadAhead
<1> HIDE DEF s
<1>6. \A i \in DOMAIN visited : ~Ahead(visited[i].path, s)
  BY <1>1, <1>5 DEF NotAgain
<1>7. ASSUME NEW q \in Wanted, ~failed
      PROVE  q \in Shown \/ Ahead(q, s) \/ IsCut(q)
  <2>1. q \in Shown \/ Ahead(q, stack) \/ IsCut(q)
    BY <1>1, <1>2, <1>7 DEF NoneLost
  <2>2. ASSUME Len(stack) <= Len(q), SubSeq(q, 1, Len(stack)) = p PROVE FALSE
    <3>1. Length[Name(p)] <= Top.rem
      BY <1>2, <2>2, WantedThrough
    <3>2. Length[Name(p)] \in Nat /\ Top.rem \in Nat
      BY <1>1, <1>2, AtEntry
    <3> QED BY <1>2, <3>1, <3>2
  <2> QED BY <1>5, <2>1, <2>2
<1> QED BY <1>1, <1>2, <1>3, <1>4, <1>6, <1>7, QuietStep

LEMMA CloseOrder ==
    ASSUME OrderInv, Close
    PROVE  OrderInv'
<1>1. /\ WalkInv /\ WalkType /\ Chain(stack) /\ path \in Seq(Names)
      /\ Begins(path, stack) /\ NotAgain /\ NoneLost /\ WalkInv'
  BY EndStep DEF OrderInv, WalkInv
<1>2. /\ UNCHANGED <<input, ret, path, visited, failed, pc>> /\ pc = "walk"
      /\ stack # <<>> /\ stack' = Outer /\ (Top.unread = {} \/ ret < 0)
  BY DEF Close, Outer
<1>3. /\ Chain(Outer) /\ \A q : Ahead(q, Outer) => Ahead(q, stack)
      /\ \A q : Ahead(q, stack) => Ahead(q, Outer) \/ Top.unread # {}
  BY <1>1, <1>2, OuterLevels
<1>4. Begins(path, Outer)
  BY <1>1, <1>2, OuterBegins
<1>5. \A i \in DOMAIN visited : ~Ahead(visited[i].path, Outer)
  BY <1>1, <1>3 DEF NotAgain
<1>6. ret >= 0 /\ ~failed =>
          \A q \in Wanted : q \in Shown \/ Ahead(q, Outer) \/ IsCut(q)
  <2>1. ret >= 0 => ~(ret < 0)
    BY <1>1 DEF WalkType
  <2> QED BY <1>1, <1>2, <1>3, <2>1 DEF NoneLost
<1> QED BY <1>1, <1>2, <1>3, <1>4, <1>5, <1>6, QuietStep

(* No room for a "/": what the level has not read is cut off.              *)
LEMMA NoRoomOrder ==
    ASSUME OrderInv, NEW p, NoRoom(p)
    PROVE  OrderInv'
<1>1. /\ WalkInv /\ WalkType /\ Chain(stack) /\ path \in Seq(Names)
      /\ Begins(path, stack) /\ NotAgain /\ NoneLost /\ WalkInv'
  BY EndStep DEF OrderInv, WalkInv
<1>2. /\ UNCHANGED <<input, ret, visited, failed, pc>> /\ pc = "walk" /\ Reads(p)
      /\ stack # <<>> /\ stack' = Outer /\ Copy(p, 0) /\ ret >= 0
      /\ Length[Name(p)] = Top.rem /\ recursive /\ p \in tree.dirs
  BY DEF NoRoom, Reads, Outer
<1>3. /\ p \in Seq(Names) /\ Top.dir \in Seq(Names) /\ p \in Entries(Top.dir)
      /\ Len(Top.dir) = Len(stack) - 1 /\ Len(stack) \in Nat \ {0}
      /\ Top = stack[Len(stack)] /\ stack \in Seq(Levels)
      /\ Len(p) = Len(stack) /\ SubSeq(p, 1, Len(stack) - 1) = Top.dir
      /\ RootLength + Bytes(p) = Top.off + Length[Name(p)]
      /\ Top.off + Top.rem = size - 1
  BY <1>1, <1>2, AtEntry
<1>4. path' = p
  BY <1>1, <1>2, CopyIsPath
<1>5. Begins(p, stack)
  BY <1>3 DEF Begins
<1>6. Begins(p, Outer)
  BY <1>1, <1>2, <1>3, <1>5, OuterBegins
<1>7. /\ Chain(Outer) /\ \A q : Ahead(q, Outer) => Ahead(q, stack)
      /\ \A q : Ahead(q, stack) =>
            \/ Ahead(q, Outer)
            \/ Len(stack) <= Len(q) /\ SubSeq(q, 1, Len(stack)) \in Top.unread
  BY <1>1, <1>2, OuterLevels
<1>8. \A i \in DOMAIN visited : ~Ahead(visited[i].path, Outer)
  BY <1>1, <1>7 DEF NotAgain
<1>9. Cut(Top.dir)
  BY <1>2, <1>3 DEF Cut
<1>10. ASSUME NEW q \in Wanted, Len(stack) <= Len(q),
              SubSeq(q, 1, Len(stack)) \in Top.unread
       PROVE  IsCut(q)
  <2> DEFINE k == Len(stack)
             b == SubSeq(q, 1, k)
  <2>1. q \in Seq(Names) /\ Len(q) \in Nat
    BY <1>1, Parameters DEF Wanted
  <2>2. k \in DOMAIN stack
    BY <1>3
  <2>3. b \in Entries(Top.dir)
    BY <1>1, <1>3, <1>10, <2>2 DEF Chain
  <2>4. SubSeq(b, 1, k - 1) = Top.dir
    BY <1>3, <2>3 DEF Entries
  <2>5. SubSeq(b, 1, k - 1) = SubSeq(q, 1, k - 1)
    BY <1>3, <1>10, <2>1, BeginningOfBeginning
  <2>6. k - 1 \in 0..Len(q) - 1
    BY <1>3, <1>10, <2>1
  <2> QED BY <1>2, <1>9, <2>4, <2>5, <2>6 DEF IsCut
<1>11. ~failed => \A q \in Wanted : q \in Shown \/ Ahead(q, Outer) \/ IsCut(q)
  BY <1>1, <1>2, <1>7, <1>10 DEF NoneLost
<1> QED BY <1>1, <1>2, <1>3, <1>4, <1>6, <1>7, <1>8, <1>11, QuietStep

(* Before a directory is entered, or cannot be opened: what is below it is *)
(* ahead then.                                                             *)
LEMMA OpenOrder ==
    ASSUME OrderInv, WalkInv', UNCHANGED <<input, visited>>, pc' = "walk",
           NEW dir \in Seq(Names), NEW off \in Nat, NEW rem \in Nat,
           off = RootLength + Bytes(dir) + 1,
           NEW s \in Seq(Levels), Chain(s), Len(dir) = Len(s),
           \A i \in DOMAIN s : /\ s[i].dir = SubSeq(dir, 1, i - 1)
                               /\ SubSeq(dir, 1, i) \notin s[i].unread,
           path' \in Seq(Names), Begins(path', s),
           Len(dir) <= Len(path'), SubSeq(path', 1, Len(dir)) = dir,
           Open(dir, off, rem, s),
           \A i \in DOMAIN visited :
               LET q == visited[i].path
               IN /\ ~Ahead(q, s)
                  /\ ~(/\ Len(dir) + 1 <= Len(q)
                       /\ SubSeq(q, 1, Len(dir) + 1) \in Entries(dir)),
           ~failed => \A q \in Wanted :
               \/ q \in Shown \/ Ahead(q, s) \/ IsCut(q)
               \/ /\ Len(dir) + 1 <= Len(q)
                  /\ SubSeq(q, 1, Len(dir) + 1) \in Entries(dir)
    PROVE  OrderInv'
<1> DEFINE t == Append(s, Level(dir, off, rem))
<1>1. WalkType
  BY DEF OrderInv, WalkInv
<1>2. CASE stack' = t /\ UNCHANGED failed
  <2>1. /\ Chain(t) /\ Begins(path', t)
        /\ \A q : Ahead(q, s) => Ahead(q, t)
        /\ \A q : Ahead(q, t) =>
              \/ Ahead(q, s)
              \/ /\ Len(dir) + 1 <= Len(q)
                 /\ SubSeq(q, 1, Len(dir) + 1) \in Entries(dir)
        /\ \A q : /\ Len(dir) + 1 <= Len(q)
                  /\ SubSeq(q, 1, Len(dir) + 1) \in Entries(dir)
                  => Ahead(q, t)
    BY <1>1, InnerLevel
  <2> HIDE DEF t
  <2>2. \A i \in DOMAIN visited : ~Ahead(visited[i].path, t)
    BY <2>1
  <2>3. ~failed => \A q \in Wanted : q \in Shown \/ Ahead(q, t) \/ IsCut(q)
    BY <2>1
  <2> QED BY <1>2, <2>1, <2>2, <2>3, QuietStep
<1>3. CASE stack' = s /\ failed' = TRUE
  <2>1. \A i \in DOMAIN visited : ~Ahead(visited[i].path, s)
    OBVIOUS
  <2> QED BY <1>3, <2>1, QuietStep
<1> QED BY <1>2, <1>3 DEF Open

LEMMA StartOrder ==
    ASSUME OrderInv, Start
    PROVE  OrderInv'
<1> DEFINE none == <<>>
           rem == size - RootLength - 1
<1>1. /\ WalkInv /\ WalkType /\ path \in Seq(Names) /\ NoneLost /\ WalkInv'
  BY StartStep DEF OrderInv, WalkInv
<1>2. /\ UNCHANGED <<input, path, visited>> /\ pc = "start" /\ pc' = "walk"
      /\ Open(none, RootLength, rem, none) /\ visited = <<>>
  BY <1>1 DEF Start, WalkInv, ErrorEnds
<1>3. /\ none \in Seq(Names) /\ none \in Seq(Levels) /\ Len(none) = 0
      /\ DOMAIN none = {} /\ SubSeq(path, 1, 0) = none /\ 0 <= Len(path)
  BY <1>1
<1>4. RootLength \in Nat /\ rem \in Nat
  BY <1>1, Parameters
<1>5. RootLength = RootLength + Bytes(none) + 1
  BY <1>4, BytesEmpty
<1>6. DOMAIN visited = {}
  BY <1>2
<1>7. ASSUME NEW q \in Wanted
      PROVE  Len(none) + 1 <= Len(q) /\ SubSeq(q, 1, Len(none) + 1) \in Entries(none)
  <2>1. q \in tree.paths /\ q \in Seq(Names) /\ q # <<>>
    <3>1. q \in tree.paths
      BY DEF Wanted
    <3> QED BY <1>1, <3>1, ScanAssumption DEF WalkType
  <2>2. 1 \in 1..Len(q)
    BY <2>1
  <2>3. SubSeq(q, 1, 1) \in tree.paths
    BY <1>1, <2>1, <2>2, OnTheWay
  <2>4. Len(SubSeq(q, 1, 1)) = 1 /\ SubSeq(SubSeq(q, 1, 1), 1, 0) = <<>>
    BY <2>1, <2>2
  <2> QED BY <1>3, <2>1, <2>2, <2>3, <2>4 DEF Entries
<1>8. Chain(none) /\ Begins(path, none)
  BY <1>3 DEF Chain, Begins
<1> HIDE DEF none, rem
<1> QED BY <1>1, <1>2, <1>3, <1>4, <1>5, <1>6, <1>7, <1>8, OpenOrder

LEMMA DescendOrder ==
    ASSUME OrderInv, NEW p, Descend(p)
    PROVE  OrderInv'
<1> DEFINE s == SetTop(Read(p))
           k == Len(stack)
           off == Top.off + Length[Name(p)] + 1
           rem == Top.rem - Length[Name(p)] - 1
<1>1. /\ WalkInv /\ WalkType /\ Chain(stack) /\ path \in Seq(Names)
      /\ Begins(path, stack) /\ NotAgain /\ NoneLost /\ WalkInv'
  BY DescendStep DEF OrderInv, WalkInv
<1>2. /\ UNCHANGED <<input, visited, pc>> /\ pc = "walk" /\ Reads(p)
      /\ stack # <<>> /\ Copy(p, 1) /\ ret >= 0 /\ Length[Name(p)] < Top.rem
      /\ recursive /\ p \in tree.dirs /\ Open(p, off, rem, s)
  BY DEF Descend, Reads
<1>3. /\ p \in Seq(Names) /\ Len(p) = k /\ SubSeq(p, 1, Len(p)) = p
      /\ k \in Nat \ {0} /\ SubSeq(p, 1, k - 1) = Top.dir /\ Top = stack[k]
      /\ RootLength + Bytes(p) = Top.off + Length[Name(p)] /\ Bytes(p) \in Int
      /\ Length[Name(p)] \in Nat /\ Top.off \in Nat /\ Top.rem \in Nat
      /\ RootLength \in Nat
  BY <1>1, <1>2, AtEntry
<1>4. path' = p
  BY <1>1, <1>2, CopyIsPath
<1>5. off \in Nat /\ rem \in Nat /\ off = RootLength + Bytes(p) + 1
  <2> DEFINE n == Length[Name(p)]
             o == Top.off
             m == Top.rem
  <2>1. n \in Nat /\ o \in Nat /\ m \in Nat /\ n < m /\ RootLength + Bytes(p) = o + n
    BY <1>2, <1>3
  <2>2. off = o + n + 1 /\ rem = m - n - 1
    OBVIOUS
  <2> HIDE DEF n, o, m, off, rem
  <2> QED BY <1>3, <2>1, <2>2
<1>6. s \in Seq(Levels)
  <2>1. /\ Read(p) \in Levels /\ Read(p).off + Read(p).rem = size - 1
        /\ StaysInPath
    BY <1>1, <1>2, TopLevel DEF WalkInv
  <2> QED BY <1>1, <1>2, <2>1, SetTopLevel
<1>7. /\ Chain(s) /\ Begins(p, s)
      /\ Len(s) = k /\ DOMAIN s = 1..k /\ s[k].unread = Top.unread \ {p}
      /\ s[k].dir = stack[k].dir
  <2>1. k \in DOMAIN stack /\ DOMAIN stack = 1..k
    BY <1>1, <1>2, ReadLevels
  <2> QED BY <1>1, <1>2, <2>1, ReadChain, ReadBegins, ReadLevels
<1>8. /\ Ahead(p, stack) /\ ~Ahead(p, s)
      /\ \A q : Ahead(q, s) => Ahead(q, stack)
      /\ \A q : Ahead(q, stack) =>
            Ahead(q, s) \/ (k <= Len(q) /\ SubSeq(q, 1, k) = p)
  BY <1>1, <1>2, ReadAhead
<1>9. k \in DOMAIN stack /\ p \in stack[k].unread
  <2>1. k \in DOMAIN stack
    BY <1>1, <1>2, ReadLevels
  <2> QED BY <1>2, <1>3, <2>1 DEF Reads
<1> HIDE DEF s, off, rem, k
<1>10. ASSUME NEW i \in DOMAIN s
      PROVE  /\ s[i].dir = SubSeq(p, 1, i - 1)
             /\ SubSeq(p, 1, i) \notin s[i].unread
  <2>1. i \in 1..k /\ k \in DOMAIN s
    BY <1>3, <1>7
  <2>2. SubSeq(p, 1, i) \notin s[i].unread
    <3>1. i <= Len(p)
      BY <1>3, <2>1
    <3> QED BY <1>8, <3>1, Zenon DEF Ahead
  <2>3. s[i].dir = SubSeq(p, 1, i - 1)
    <3>1. CASE i = k
      BY <1>3, <1>7, <3>1
    <3>2. CASE i # k
      <4>1. i < k /\ i - 1 \in 0..k - 1 /\ k - 1 \in 0..Len(p)
        <5>1. k \in Nat \ {0} /\ Len(p) = k
          BY <1>3
        <5> QED BY <2>1, <3>2, <5>1
      <4>2. s[i].dir = SubSeq(s[k].dir, 1, i - 1)
        BY <1>7, <2>1, <4>1 DEF Chain
      <4>3. s[k].dir = SubSeq(p, 1, k - 1)
        BY <1>3, <1>7
      <4>4. SubSeq(SubSeq(p, 1, k - 1), 1, i - 1) = SubSeq(p, 1, i - 1)
        BY <1>3, <4>1, BeginningOfBeginning
      <4> QED BY <4>2, <4>3, <4>4
    <3> QED BY <3>1, <3>2
  <2> QED BY <2>2, <2>3
<1>11. ASSUME NEW q, k + 1 <= Len(q), SubSeq(q, 1, k + 1) \in Entries(p),
              q \in Seq(Names)
       PROVE  Ahead(q, stack)
  <2>1. k \in 0..k + 1 /\ k + 1 \in 0..Len(q)
    BY <1>3, <1>11
  <2>2. SubSeq(SubSeq(q, 1, k + 1), 1, k) = SubSeq(q, 1, k)
    BY <1>11, <2>1, BeginningOfBeginning
  <2>3. SubSeq(q, 1, k) = p
    BY <1>3, <1>11, <2>2 DEF Entries
  <2>4. k <= Len(q)
    BY <1>3, <1>11
  <2> QED BY <1>9, <2>3, <2>4, Zenon DEF Ahead
<1>12. ASSUME NEW i \in DOMAIN visited
       PROVE  LET q == visited[i].path
              IN /\ ~Ahead(q, s)
                 /\ ~(k + 1 <= Len(q) /\ SubSeq(q, 1, k + 1) \in Entries(p))
  <2>1. visited[i].path \in Seq(Names) /\ ~Ahead(visited[i].path, stack)
    BY <1>1, Parameters DEF NotAgain, VisitsEntriesOnce
  <2> QED BY <1>8, <1>11, <2>1
<1>13. ASSUME NEW q \in Wanted, k <= Len(q), SubSeq(q, 1, k) = p
       PROVE  k + 1 <= Len(q) /\ SubSeq(q, 1, k + 1) \in Entries(p)
  <2>1. q \in tree.paths /\ q \in Seq(Names) /\ Len(q) \in Nat
    BY <1>1, Parameters DEF Wanted
  <2>2. k < Len(q)
    BY <1>2, <1>13, WantedThrough DEF k
  <2>3. k + 1 \in 1..Len(q) /\ k + 1 \in 0..Len(q) /\ k \in 0..k + 1
    BY <1>3, <2>1, <2>2
  <2>4. SubSeq(q, 1, k + 1) \in tree.paths
    BY <1>1, <2>1, <2>3, OnTheWay
  <2>5. SubSeq(SubSeq(q, 1, k + 1), 1, k) = p
    BY <1>13, <2>1, <2>3, BeginningOfBeginning
  <2>6. Len(SubSeq(q, 1, k + 1)) = k + 1
    BY <2>1, <2>3
  <2> DEFINE b == SubSeq(q, 1, k + 1)
  <2>7. b \in tree.paths /\ Len(b) = Len(p) + 1 /\ SubSeq(b, 1, Len(p)) = p
    BY <1>3, <2>4, <2>5, <2>6
  <2>8. k + 1 <= Len(q)
    BY <2>3
  <2> HIDE DEF b
  <2>9. b \in Entries(p)
    BY <2>7 DEF Entries
  <2> QED BY <2>8, <2>9 DEF b
<1>14. ~failed => \A q \in Wanted :
           \/ q \in Shown \/ Ahead(q, s) \/ IsCut(q)
           \/ k + 1 <= Len(q) /\ SubSeq(q, 1, k + 1) \in Entries(p)
  BY <1>1, <1>2, <1>8, <1>13 DEF NoneLost
<1>15. /\ Len(p) <= Len(path') /\ SubSeq(path', 1, Len(p)) = p
       /\ path' \in Seq(Names) /\ Begins(path', s)
  BY <1>3, <1>4, <1>7
<1> QED BY <1>1, <1>2, <1>3, <1>4, <1>5, <1>6, <1>7, <1>10, <1>12, <1>14, <1>15,
           OpenOrder

(* An entry is handed to the callback.                                     *)
LEMMA VisitOrder ==
    ASSUME OrderInv, NEW p, Visit(p)
    PROVE  OrderInv'
<1> DEFINE s == SetTop(Read(p))
           call == [path |-> path', ret |-> ret']
<1>1. /\ WalkInv /\ WalkType /\ Chain(stack) /\ path \in Seq(Names)
      /\ Begins(path, stack) /\ NotAgain /\ NoneLost /\ WalkInv'
  BY VisitStep DEF OrderInv, WalkInv
<1>2. /\ UNCHANGED <<input, failed, pc>> /\ pc = "walk" /\ Reads(p) /\ ret >= 0
      /\ stack # <<>> /\ stack' = s /\ Copy(p, 0)
      /\ ~(recursive /\ p \in tree.dirs) /\ visited' = Append(visited, call)
  BY DEF Visit, Reads
<1>3. p \in Seq(Names) /\ p \in tree.paths
  BY <1>1, <1>2, AtEntry
<1>4. path' = p
  BY <1>1, <1>2, CopyIsPath
<1>5. Chain(s) /\ Begins(p, s)
  BY <1>1, <1>2, ReadChain, ReadBegins
<1>6. /\ Ahead(p, stack) /\ ~Ahead(p, s)
      /\ \A q : Ahead(q, s) => Ahead(q, stack)
      /\ \A q : Ahead(q, stack) =>
            Ahead(q, s) \/ (Len(stack) <= Len(q) /\ SubSeq(q, 1, Len(stack)) = p)
  BY <1>1, <1>2, ReadAhead
<1> DEFINE n == Len(visited)
<1>7. /\ n \in Nat /\ DOMAIN visited = 1..n /\ DOMAIN visited' = 1..n + 1
      /\ visited'[n + 1].path = p /\ \A i \in 1..n : visited'[i] = visited[i]
  <2>1. PICK S : visited \in Seq(S)
    BY <1>1 DEF WalkType
  <2>2. /\ n \in Nat /\ DOMAIN visited = 1..n
        /\ DOMAIN Append(visited, call) = 1..n + 1
        /\ Append(visited, call)[n + 1] = call
        /\ \A i \in 1..n : Append(visited, call)[i] = visited[i]
    BY <2>1, AppendAny
  <2> QED BY <1>2, <1>4, <2>2
<1> HIDE DEF s, call, n
<1>8. UNCHANGED <<tree, size, recursive>>
  BY <1>2 DEF input
<1>9. \A i \in DOMAIN visited' : i \in DOMAIN visited \/ i = n + 1
  BY <1>7
<1>10. \A i \in DOMAIN visited :
           visited'[i] = visited[i] /\ ~Ahead(visited[i].path, stack)
  BY <1>1, <1>7 DEF NotAgain
<1>11. \A i \in DOMAIN visited : visited[i].path # p
  BY <1>6, <1>10
<1>12. NotAgain'
  <2>1. ASSUME NEW i \in DOMAIN visited'
        PROVE  /\ visited'[i].path \in tree.paths
               /\ recursive => visited'[i].path \notin tree.dirs
               /\ ~Ahead(visited'[i].path, s)
    <3>1. CASE i \in DOMAIN visited
      BY <1>1, <1>6, <1>10, <3>1 DEF NotAgain, VisitsEntriesOnce
    <3>2. CASE i = n + 1
      BY <1>2, <1>3, <1>6, <1>7, <3>2
    <3> QED BY <1>9, <3>1, <3>2
  <2>2. ASSUME NEW i \in DOMAIN visited', NEW j \in DOMAIN visited', i # j
        PROVE  visited'[i].path # visited'[j].path
    <3>1. CASE i \in DOMAIN visited /\ j \in DOMAIN visited
      BY <1>1, <1>10, <2>2, <3>1 DEF NotAgain, VisitsEntriesOnce
    <3>2. CASE i = n + 1 /\ j \in DOMAIN visited
      BY <1>7, <1>10, <1>11, <3>2
    <3>3. CASE i \in DOMAIN visited /\ j = n + 1
      BY <1>7, <1>10, <1>11, <3>3
    <3> QED BY <1>9, <2>2, <3>1, <3>2, <3>3
  <2>3. VisitsEntriesOnce'
    BY <1>8, <2>1, <2>2 DEF VisitsEntriesOnce
  <2>4. \A i \in DOMAIN visited' : ~Ahead(visited'[i].path, stack')
    BY <1>2, <2>1
  <2> QED BY <2>3, <2>4 DEF NotAgain, Ahead
<1>13. NoneLost'
  <2>1. pc' = "walk"
    BY <1>2
  <2>2. Wanted' = Wanted /\ \A q : IsCut(q)' = IsCut(q)
    <3>1. \A d : Entries(d)' = Entries(d)
      BY <1>8 DEF Entries
    <3>2. \A d : Cut(d)' = Cut(d)
      BY <1>8, <3>1 DEF Cut
    <3> QED BY <1>8, <3>2 DEF Wanted, IsCut
  <2>3. Shown \subseteq Shown' /\ p \in Shown'
    <3>1. DOMAIN visited \subseteq DOMAIN visited' /\ n + 1 \in DOMAIN visited'
      BY <1>7
    <3> QED BY <1>7, <1>10, <3>1 DEF Shown
  <2>4. ASSUME ~failed, NEW q \in Wanted
        PROVE  q \in Shown' \/ Ahead(q, s) \/ IsCut(q)
    <3>1. q \in Shown \/ Ahead(q, stack) \/ IsCut(q)
      BY <1>1, <1>2, <2>4 DEF NoneLost
    <3>2. ASSUME Len(stack) <= Len(q), SubSeq(q, 1, Len(stack)) = p PROVE q = p
      BY <1>2, <3>2, WantedThrough
    <3> QED BY <1>6, <2>3, <3>1, <3>2
  <2>5. \A q : Ahead(q, stack)' <=> Ahead(q, s)
    BY <1>2 DEF Ahead
  <2> QED BY <1>2, <2>1, <2>2, <2>4, <2>5 DEF NoneLost
<1>14. Chain(stack)'
  BY <1>2, <1>5, <1>8, ChainNext
<1>15. path' \in Seq(Names) /\ Begins(path, stack)'
  BY <1>2, <1>3, <1>4, <1>5 DEF Begins
<1> QED BY <1>1, <1>12, <1>13, <1>14, <1>15 DEF OrderInv

LEMMA OrderStep ==
    ASSUME OrderInv, [Next]_vars
    PROVE  OrderInv'
<1>1. CASE Start
  BY <1>1, StartOrder
<1>2. CASE Close
  BY <1>2, CloseOrder
<1>3. CASE Return
  <2>1. /\ UNCHANGED <<input, stack, ret, path, visited, failed>> /\ pc = "walk"
        /\ stack = <<>> /\ pc' = "done"
    BY <1>3 DEF Return
  <2>2. /\ Chain(stack) /\ path \in Seq(Names) /\ Begins(path, stack)
        /\ NotAgain /\ NoneLost /\ WalkInv'
    BY <1>3, WalkStep DEF OrderInv, Next
  <2> QED BY <2>1, <2>2, QuietStep DEF NotAgain, NoneLost
<1>4. CASE UNCHANGED vars
  <2>1. UNCHANGED <<input, stack, ret, path, visited, failed, pc>>
    BY <1>4 DEF vars, input
  <2>2. /\ Chain(stack) /\ path \in Seq(Names) /\ Begins(path, stack)
        /\ NotAgain /\ NoneLost /\ WalkInv'
    BY <1>4, WalkStep DEF OrderInv
  <2> QED BY <2>1, <2>2, QuietStep DEF NotAgain, NoneLost
<1>5. ASSUME NEW p, SkipLong(p) \/ Visit(p) \/ Descend(p) \/ NoRoom(p)
      PROVE  OrderInv'
  BY <1>5, SkipOrder, VisitOrder, DescendOrder, NoRoomOrder
<1> QED BY <1>1, <1>2, <1>3, <1>4, <1>5 DEF Next

LEMMA OrderInit == Init => OrderInv
<1> SUFFICES ASSUME Init PROVE OrderInv
  OBVIOUS
<1>1. stack = <<>> /\ path = <<>> /\ visited = <<>> /\ pc = "start"
  BY DEF Init
<1>2. DOMAIN stack = {} /\ DOMAIN visited = {} /\ path \in Seq(Names)
  BY <1>1
<1>3. Chain(stack) /\ Begins(path, stack)
  BY <1>1, <1>2 DEF Chain, Begins
<1>4. NotAgain /\ NoneLost
  BY <1>1, <1>2 DEF NotAgain, VisitsEntriesOnce, NoneLost
<1> QED BY <1>2, <1>3, <1>4, WalkInit DEF OrderInv

-----------------------------------------------------------------------------

THEOREM OrderInvariant == Spec => []OrderInv
BY OrderInit, OrderStep, PTL DEF Spec

(* LevelsAgree of ScanDir: whatever was entered and left below it, a level *)
(* writes its names where its directory's path ends, within the buffer.    *)
THEOREM EachLevelInItsPlace == Spec => []LevelsAgree
<1>1. OrderInv => LevelsAgree
  <2> SUFFICES ASSUME OrderInv, NEW i \in DOMAIN stack
               PROVE  /\ stack[i].off = RootLength + Bytes(stack[i].dir) + 1
                      /\ i > 1 => stack[i - 1].dir = SubSeq(stack[i].dir, 1, i - 2)
    BY DEF OrderInv, WalkInv, LevelsAgree
  <2>1. Chain(stack) /\ stack \in Seq(Levels)
    BY DEF OrderInv, WalkInv, WalkType
  <2>2. ASSUME i > 1 PROVE stack[i - 1].dir = SubSeq(stack[i].dir, 1, i - 2)
    <3>1. i - 1 \in DOMAIN stack /\ i - 1 < i /\ (i - 1) - 1 = i - 2
      BY <2>1, <2>2
    <3> QED BY <2>1, <3>1 DEF Chain
  <2> QED BY <2>1, <2>2 DEF Chain
<1> QED BY <1>1, OrderInvariant, PTL

(* VisitsEntriesOnce of ScanDir: what the callback is called with is in    *)
(* the tree, however the levels overwrite each other's names in the buffer *)
(* they share, and it is called once for each.                             *)
THEOREM EntriesVisitedOnce == Spec => []VisitsEntriesOnce
<1>1. OrderInv => VisitsEntriesOnce
  BY DEF OrderInv, NotAgain
<1> QED BY <1>1, OrderInvariant, PTL

(* VisitsAllUncut of ScanDir: a walk that reports success after all its    *)
(* directories could be opened has shown all that fits, but for what is    *)
(* below a directory with an entry whose path leaves no room for a "/".    *)
THEOREM AllUncutVisited == Spec => []VisitsAllUncut
<1>1. OrderInv => VisitsAllUncut
  <2> SUFFICES ASSUME OrderInv, Complete, NEW p \in Wanted
               PROVE  p \in Shown \/ IsCut(p)
    BY DEF VisitsAllUncut, IsCut
  <2>1. stack = <<>> /\ (p \in Shown \/ Ahead(p, stack) \/ IsCut(p))
    BY DEF OrderInv, NoneLost, Complete
  <2>2. ~Ahead(p, stack)
    BY <2>1 DEF Ahead
  <2> QED BY <2>1, <2>2
<1> QED BY <1>1, OrderInvariant, PTL
=============================================================================
