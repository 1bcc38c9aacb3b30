------------------------------ MODULE ScanDir ------------------------------
(***************************************************************************)
(* The walk through a directory tree of scandir_recursive (src/utils.c),   *)
(* with which the enumeration finds the device nodes under /dev, and the   *)
(* symbolic link of a device number is looked for.                         *)
(*                                                                         *)
(* All levels of the recursion write the path of the entry they are at     *)
(* into one buffer: each level is given the offset at which it writes and  *)
(* how many bytes there are left, and has to leave both as it found them.  *)
(* A name is a model value with a length; the buffer is the sequence of    *)
(* the components that were written into it and how far it was written.    *)
(***************************************************************************)
EXTENDS Integers, Sequences, FiniteSetsExt

CONSTANTS
    Names,      \* the names of entries
    Length,     \* how many bytes each name has
    Trees,      \* trees to walk: the set of the paths in them, each a
                \* sequence of names, and which of them are directories,
                \* the ones on the way to each path among them
    RootLength, \* bytes of the path the walk begins with, "/dev/"
    Sizes       \* sizes of the buffer

ASSUME ScanAssumption ==
    /\ Length \in [Names -> Nat \ {0}]
    /\ \A t \in Trees : t.dirs \subseteq t.paths /\ t.paths \subseteq Seq(Names)
    /\ \A t \in Trees : \A p \in t.paths :
          p # <<>> /\ \A n \in 1..Len(p) - 1 : SubSeq(p, 1, n) \in t.dirs
    /\ RootLength \in Nat \ {0}
    /\ \A z \in Sizes : z \in Nat /\ z > RootLength

VARIABLES
    tree,      \* the tree that is walked
    size,      \* sizeof(path)
    recursive, \* ctx->recursive
    stack,     \* the levels of the recursion, the innermost last
    ret,       \* what the level that returned last, or the callback, returned
    path,      \* the components in the buffer
    high,      \* the highest index of the buffer written to
    visited,   \* the calls of the callback: with which path, what returned
    failed,    \* a directory could not be opened
    pc         \* start, walk or done

vars == <<tree, size, recursive, stack, ret, path, high, visited, failed, pc>>
input == <<tree, size, recursive>>

(* A level: its directory, the entries readdir(3) has not yet returned,    *)
(* and its off and rem.                                                    *)
Entries(dir) ==
    {p \in tree.paths : Len(p) = Len(dir) + 1 /\ SubSeq(p, 1, Len(dir)) = dir}
Level(dir, off, rem) ==
    [dir |-> dir, unread |-> Entries(dir), off |-> off, rem |-> rem]

Top == stack[Len(stack)]
SetTop(level) == [stack EXCEPT ![Len(stack)] = level]
Name(p) == p[Len(p)]

(* How many bytes a path of the tree takes after the root, a "/" after     *)
(* each component but the last.                                            *)
Bytes(p) ==
    LET upTo[n \in 0..Len(p)] ==
            IF n = 0 THEN -1 ELSE upTo[n - 1] + Length[p[n]] + 1
    IN upTo[Len(p)]

Init ==
    /\ tree \in Trees /\ size \in Sizes /\ recursive \in BOOLEAN
    /\ stack = <<>> /\ ret = 0 /\ path = <<>> /\ high = RootLength
    /\ visited = <<>> /\ failed = FALSE /\ pc = "start"

(* scandir_sub begins: the directory can be opened, cannot be opened, or   *)
(* there is no memory to open it.                                          *)
Open(dir, off, rem, below) ==
    \/ /\ stack' = Append(below, Level(dir, off, rem))
       /\ ret' = 0 /\ UNCHANGED failed
    \/ /\ stack' = below
       /\ ret' \in {0, -1} /\ failed' = TRUE

Start ==
    /\ pc = "start" /\ pc' = "walk"
    /\ Open(<<>>, RootLength, size - RootLength - 1, <<>>)
    /\ UNCHANGED <<input, path, high, visited>>

(* readdir(3) returns entry p next.                                        *)
Reads(p) ==
    /\ pc = "walk" /\ stack # <<>> /\ ret >= 0
    /\ p \in Top.unread

Read(p) == [Top EXCEPT !.unread = @ \ {p}]

(* Refuted by VisitsAllUncut: a name that just fits is skipped.            *)
SkipFitting(p) ==
    /\ Reads(p)
    /\ Length[Name(p)] >= Top.rem
    /\ stack' = SetTop(Read(p))
    /\ UNCHANGED <<input, ret, path, high, visited, failed, pc>>

SkipLong(p) ==
    /\ Reads(p)
    /\ Length[Name(p)] > Top.rem
    /\ stack' = SetTop(Read(p))
    /\ UNCHANGED <<input, ret, path, high, visited, failed, pc>>

(* strcpy(path + off, ent->d_name), and a "/" after it: what was in the    *)
(* buffer below off stays.                                                 *)
Below(off) ==
    Max({n \in 0..Len(path) : RootLength + Bytes(SubSeq(path, 1, n)) < off})
Copy(p, slash) ==
    /\ path' = Append(SubSeq(path, 1, Below(Top.off)), Name(p))
    /\ high' = Max({high, Top.off + Length[Name(p)] + slash})

(* Refuted by LevelsAgree: a level goes on where the last name ended.      *)
VisitKeepsOffset(p) ==
    /\ Reads(p) /\ Length[Name(p)] <= Top.rem
    /\ ~(recursive /\ p \in tree.dirs)
    /\ Copy(p, 0)
    /\ ret' \in {0, -1}
    /\ visited' = Append(visited, [path |-> path', ret |-> ret'])
    /\ stack' = SetTop([Read(p) EXCEPT !.off = @ + Length[Name(p)],
                                      !.rem = @ - Length[Name(p)]])
    /\ UNCHANGED <<input, failed, pc>>

(* Refuted by VisitsEntriesOnce: a name is copied after the one before it. *)
VisitAppends(p) ==
    /\ Reads(p) /\ Length[Name(p)] <= Top.rem
    /\ ~(recursive /\ p \in tree.dirs)
    /\ path' = Append(path, Name(p))
    /\ high' = Max({high, Top.off + Length[Name(p)]})
    /\ ret' \in {0, -1}
    /\ visited' = Append(visited, [path |-> path', ret |-> ret'])
    /\ stack' = SetTop(Read(p))
    /\ UNCHANGED <<input, failed, pc>>

Visit(p) ==
    /\ Reads(p) /\ Length[Name(p)] <= Top.rem
    /\ ~(recursive /\ p \in tree.dirs)
    /\ Copy(p, 0)
    /\ ret' \in {0, -1}
    /\ visited' = Append(visited, [path |-> path', ret |-> ret'])
    /\ stack' = SetTop(Read(p))
    /\ UNCHANGED <<input, failed, pc>>

Descend(p) ==
    /\ Reads(p) /\ Length[Name(p)] < Top.rem
    /\ recursive /\ p \in tree.dirs
    /\ Copy(p, 1)
    /\ Open(p, Top.off + Length[Name(p)] + 1, Top.rem - Length[Name(p)] - 1,
            SetTop(Read(p)))
    /\ UNCHANGED <<input, visited, pc>>

(* No room for the "/": the level ends, with what it has not read.         *)
NoRoom(p) ==
    /\ Reads(p) /\ Length[Name(p)] = Top.rem
    /\ recursive /\ p \in tree.dirs
    /\ Copy(p, 0)
    /\ stack' = SubSeq(stack, 1, Len(stack) - 1)
    /\ UNCHANGED <<input, ret, visited, failed, pc>>

(* Refuted by FailureReported: a level returns success whatever happened.  *)
CloseForgetsError ==
    /\ pc = "walk" /\ stack # <<>>
    /\ Top.unread = {} \/ ret < 0
    /\ stack' = SubSeq(stack, 1, Len(stack) - 1) /\ ret' = 0
    /\ UNCHANGED <<input, path, high, visited, failed, pc>>

Close ==
    /\ pc = "walk" /\ stack # <<>>
    /\ Top.unread = {} \/ ret < 0
    /\ stack' = SubSeq(stack, 1, Len(stack) - 1)
    /\ UNCHANGED <<input, ret, path, high, visited, failed, pc>>

Return ==
    /\ pc = "walk" /\ stack = <<>>
    /\ pc' = "done"
    /\ UNCHANGED <<input, stack, ret, path, high, visited, failed>>

Next ==
    \/ Start \/ Close \/ Return
    \/ \E p \in tree.paths : SkipLong(p) \/ Visit(p) \/ Descend(p) \/ NoRoom(p)

Spec == Init /\ [][Next]_vars

-----------------------------------------------------------------------------

(* Nothing is written behind the buffer: every level knows what is left of *)
(* it, which never runs below nothing.                                     *)
StaysInPath ==
    /\ high < size
    /\ \A i \in DOMAIN stack :
           stack[i].off + stack[i].rem = size - 1 /\ stack[i].rem >= 0

(* Every level, also the ones below which others were entered and left,    *)
(* writes where its directory's path ends, within the buffer.              *)
LevelsAgree ==
    /\ StaysInPath
    /\ \A i \in DOMAIN stack :
           /\ stack[i].off = RootLength + Bytes(stack[i].dir) + 1
           /\ i > 1 => stack[i - 1].dir = SubSeq(stack[i].dir, 1, i - 2)

(* The callback gets paths that there are in the tree, each once, and no   *)
(* directory in a recursive walk, although all levels share one buffer and *)
(* leave behind in it what they wrote.                                     *)
VisitsEntriesOnce ==
    /\ \A i \in DOMAIN visited :
           /\ visited[i].path \in tree.paths
           /\ recursive => visited[i].path \notin tree.dirs
    /\ \A i, j \in DOMAIN visited :
           i # j => visited[i].path # visited[j].path

(* An error of the callback ends the walk at every level and is returned.  *)
FailureReported ==
    \A i \in DOMAIN visited : visited[i].ret < 0 =>
        i = Len(visited) /\ (pc = "done" => ret < 0)

(* What a walk without errors should have shown the callback: what fits in *)
(* the buffer, in a recursive walk the entries that are not directories.   *)
Wanted ==
    {p \in tree.paths :
        /\ RootLength + Bytes(p) < size
        /\ IF recursive THEN p \notin tree.dirs ELSE Len(p) = 1}
Shown == {visited[i].path : i \in DOMAIN visited}
Complete == pc = "done" /\ ret = 0 /\ ~failed

(* The comment on scandir_ctx in src/utils.h promises a call for each of   *)
(* them.  It is kept but for the directories that hold a directory whose   *)
(* path just fits, with no room for a "/", and what is below them: there   *)
(* the walk ends early, and reports success.                               *)
Cut(dir) ==
    \E q \in Entries(dir) \cap tree.dirs : RootLength + Bytes(q) = size - 1
VisitsAllUncut ==
    Complete => \A p \in Wanted :
        \/ p \in Shown
        \/ recursive /\ \E n \in 0..Len(p) - 1 : Cut(SubSeq(p, 1, n))
=============================================================================
