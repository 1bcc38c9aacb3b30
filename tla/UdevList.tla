------------------------------ MODULE UdevList ------------------------------
(***************************************************************************)
(* The lists of names and values of src/udev-list.c, kept in a             *)
(* rank-balanced tree: the operations of the library on a list, and the    *)
(* application's iteration over it.                                        *)
(*                                                                         *)
(* Calls on one list follow one another.  udev_list_free goes entry by     *)
(* entry, because each entry it frees is taken out of the tree while the   *)
(* walk through the tree goes on; an insertion first takes out an entry of *)
(* the same name; and each change is followed by the turns that restore    *)
(* the ranks.  Values are not modelled.                                    *)
(***************************************************************************)
EXTENDS RankTree

VARIABLES
    live,   \* the entries that are allocated and in a list
    adding, \* the entry udev_list_insert has still to put into the tree
    walk,   \* the entry udev_list_free comes to next
    cursor, \* the entry the application is at
    missed, \* the names that were there when its iteration began and that it
            \* has not been given yet
    stale   \* the entry it is at has been freed

entries == <<treeVars, live, adding>>
iteration == <<cursor, missed, stale>>
listVars == <<entries, walk, iteration>>

(* udev_list_init.                                                         *)
ListInit ==
    /\ tree = EmptyTree /\ raise = Null /\ parent = Null /\ elm = Null
    /\ live = {} /\ adding = Null /\ walk = Null
    /\ cursor = Null /\ missed = {} /\ stale = FALSE

(* No call of the library is under way.                                    *)
Idle == Settled /\ adding = Null /\ walk = Null

Freed(n) == live' = live \ {n} /\ stale' = (stale \/ cursor = n)

(* udev_list_insert: an entry of the same name is freed, a new one takes   *)
(* its place.                                                              *)
ListInsert(n) ==
    /\ IF Find(tree, n) = Null THEN UNCHANGED <<treeVars, live, stale>>
       ELSE Remove(n) /\ Freed(n)
    /\ adding' = n
    /\ UNCHANGED <<walk, cursor, missed>>

Enter ==
    /\ Settled /\ adding # Null
    /\ Insert(adding) /\ live' = live \cup {adding}
    /\ adding' = Null
    /\ UNCHANGED <<walk, iteration>>

(* udev_list_free begins.                                                  *)
ListFree == walk' = First(tree)

(* Refuted by TypeOK: the next entry is looked for when the link to it is  *)
(* gone.                                                                   *)
FreeEntryUnsafe ==
    /\ Settled /\ walk # Null
    /\ LET out == Removed(tree, walk)
       IN /\ walk' = Successor(out.tree, walk)
          /\ Becomes([out EXCEPT !.tree = IF walk' = Null THEN EmptyTree ELSE @])
    /\ Freed(walk)
    /\ UNCHANGED <<raise, adding, cursor, missed>>

(* One turn of its loop, after the last of which the tree is initialised.  *)
FreeEntry ==
    /\ Settled /\ walk # Null
    /\ walk' = Successor(tree, walk)
    /\ Becomes([Removed(tree, walk) EXCEPT
                    !.tree = IF walk' = Null THEN EmptyTree ELSE @])
    /\ Freed(walk)
    /\ UNCHANGED <<raise, adding, cursor, missed>>

(* The ranks are restored.                                                 *)
Recolor ==
    /\ InsertColor \/ RemoveColor
    /\ UNCHANGED <<live, adding, walk, iteration>>

(* udev_list_entry_get_first on the list.                                  *)
GetFirst ==
    /\ Idle /\ cursor = Null
    /\ cursor' = First(tree)
    /\ missed' = live \ {cursor'}
    /\ UNCHANGED <<entries, walk, stale>>

(* udev_list_entry_get_next.                                               *)
GetNext ==
    /\ Idle /\ cursor # Null
    /\ cursor' = Successor(tree, cursor)
    /\ missed' = missed \ {cursor'}
    /\ UNCHANGED <<entries, walk, stale>>

(* Refuted by LookupsAgree: the entry given is taken for the root.         *)
GetByNameBelow(e, n) == IF e = Null THEN Null ELSE FindFrom(tree, e, n)

(* udev_list_entry_get_by_name: the list is found through an entry of it.  *)
GetByName(e, n) == IF e = Null THEN Null ELSE Find(tree, n)

(* The entry of a name by a walk through the whole list, as the getters of *)
(* src/udev-device.c look for it.                                          *)
ScanFrom(e, n) ==
    LET scan[m \in Nodes] ==
            IF m \in {Null, n} THEN m ELSE scan[Successor(tree, m)]
    IN scan[e]

-----------------------------------------------------------------------------

(* The links of the tree agree: they lead from entry to entry and back,    *)
(* and each entry but the root has a parent; an entry that has been freed  *)
(* is linked to nothing, and nothing to it.                                *)
ListTypeOK ==
    /\ tree.root \in live \cup {Null}
    /\ tree.up \in [Names -> live \cup {Null}]
    /\ tree.child \in [Names -> [Sides -> live \cup {Null}]]
    /\ tree.red \in [Names -> SUBSET Sides]
    /\ {raise, parent, elm, walk, cursor} \subseteq live \cup {Null}
    /\ live \subseteq Names /\ adding \in (Names \ live) \cup {Null}
    /\ missed \subseteq Names /\ stale \in BOOLEAN
    /\ \A n \in live :
           /\ tree.up[n] = Null => tree.root = n
           /\ tree.up[n] # Null =>
                  tree.child[tree.up[n]][Toward(tree.up[n], n)] = n
           /\ \A s \in Sides :
                  LET c == tree.child[n][s]
                  IN c # Null => tree.up[c] = n /\ Toward(n, c) = s
    /\ \A n \in Names \ live : tree.child[n] = Blank /\ tree.red[n] = {}

(* The conditions src/tree.h:57-72 sets out: the differences of rank on    *)
(* every way down from a node add up to the same, leaves have no red edge, *)
(* and the height is at most 2lg(n+1), so that no lookup takes longer than *)
(* that, whatever was inserted, replaced and freed before.                 *)
RankRule ==
    Settled =>
        /\ \A n \in live :
               /\ \A s \in Sides :
                      RankOf(tree, n) = RankOf(tree, tree.child[n][s])
                                        + (IF Red(tree, n, s) THEN 2 ELSE 1)
               /\ tree.child[n] = Blank => tree.red[n] = {}
        /\ Power[HeightOf(tree, tree.root)]
               <= (Cardinality(live) + 1) * (Cardinality(live) + 1)

(* The lookup through the tree, which udev_device_has_tag makes, and the   *)
(* one through the list, which udev_device_get_property_value and its like *)
(* make, find the same entry, and find it just when it was put there.      *)
LookupsAgree ==
    Idle => \A n \in Names :
        /\ GetByName(First(tree), n) = ScanFrom(First(tree), n)
        /\ GetByName(First(tree), n) = IF n \in live THEN n ELSE Null

(* An iteration during which entries are added never stands on an entry    *)
(* that has been freed, and has given every name that was there when it    *)
(* began at its end.                                                       *)
IterationComplete == ~stale /\ (cursor = Null => missed = {})

(* The list is a SortedList: names in order, each once, taken out from the *)
(* front, and next is the next greater name even if the tree has been      *)
(* rebalanced since.                                                       *)
Sorted == INSTANCE SortedList WITH names <- live \cup ({adding} \ {Null})
ListSpec == Sorted!Spec
=============================================================================
