----------------------------- MODULE SortedList -----------------------------
(***************************************************************************)
(* What a list of src/udev-list.c promises: names in ascending order, each *)
(* once; lists are emptied from the front, and an iteration goes from the  *)
(* least name to the next greater one there is, whatever was added since.  *)
(***************************************************************************)
EXTENDS Integers

CONSTANTS
    Names, \* the names entries may have, ordered
    Null   \* no entry

VARIABLES
    names, \* what the list holds
    cursor \* where the iteration is

vars == <<names, cursor>>

Init == names = {} /\ cursor = Null

Least(S) == CHOOSE n \in S : \A m \in S : n <= m
LeastOf(S) == IF S = {} THEN Null ELSE Least(S)

Put(n) == names' = names \cup {n} /\ UNCHANGED cursor

DropFirst ==
    /\ cursor = Null /\ names # {}
    /\ names' = names \ {Least(names)} /\ UNCHANGED cursor

Begin == cursor = Null /\ cursor' = LeastOf(names) /\ UNCHANGED names

Advance ==
    /\ cursor # Null
    /\ cursor' = LeastOf({n \in names : n > cursor}) /\ UNCHANGED names

Next == (\E n \in Names : Put(n)) \/ DropFirst \/ Begin \/ Advance

Spec == Init /\ [][Next]_vars
=============================================================================
