------------------------------ MODULE RankTree ------------------------------
(***************************************************************************)
(* The rank-balanced search tree of src/tree.h, as the list of             *)
(* src/udev-list.c uses it.                                                *)
(*                                                                         *)
(* A node is the name of its entry, a number: its rank in the order of     *)
(* strcmp(3).  The two low bits of a parent pointer, which the header uses *)
(* to colour the edges to the left and the right child, are the set of the *)
(* sides whose edge is red: there the ranks of node and child differ by 2, *)
(* elsewhere by 1.  The header writes everything down for the left and     *)
(* once more for the right; here a side is a parameter.  RB_AUGMENT is     *)
(* empty in this program.                                                  *)
(*                                                                         *)
(* The walks down and up the tree are recursive functions; a turn of the   *)
(* loops of RB_INSERT_COLOR and of RB_REMOVE_COLOR, which change the tree  *)
(* on their way up, is a step.                                             *)
(***************************************************************************)
EXTENDS Integers, FiniteSets

CONSTANTS
    Names,  \* the names entries may have
    Null    \* a null pointer

ASSUME TreeAssumption == Names \subseteq Nat /\ Null \notin Names

VARIABLES
    tree,   \* struct udev_list
    raise,  \* elm of RB_INSERT_COLOR: its rank has gone up by one
    parent, \* parent and elm of RB_REMOVE_COLOR: the subtree elm of parent has
    elm     \* lost a rank

treeVars == <<tree, raise, parent, elm>>

Sides == {"left", "right"}
Other(s) == IF s = "left" THEN "right" ELSE "left"

Nodes == Names \cup {Null}
Blank == [s \in Sides |-> Null]

(* RB_INIT; a node that is in no tree has no links.                        *)
EmptyTree ==
    [root |-> Null, up |-> [n \in Names |-> Null],
     child |-> [n \in Names |-> Blank], red |-> [n \in Names |-> {}]]

Red(t, n, s) == s \in t.red[n]
Flip(t, n, s) == [t EXCEPT !.red[n] = IF s \in @ THEN @ \ {s} ELSE @ \cup {s}]
Paint(t, n, sides) == [t EXCEPT !.red[n] = sides]
SetParent(t, n, p) == IF n = Null THEN t ELSE [t EXCEPT !.up[n] = p]
SetChild(t, n, s, c) == [t EXCEPT !.child[n][s] = c]

(* RB_SET.                                                                 *)
SetNode(t, n, p) ==
    [t EXCEPT !.up[n] = p, !.child[n] = Blank, !.red[n] = {}]

SideOf(t, p, n) == IF t.child[p]["left"] = n THEN "left" ELSE "right"

(* RB_SWAP_CHILD.                                                          *)
SwapChild(t, out, in) ==
    LET p == t.up[out]
    IN IF p = Null THEN [t EXCEPT !.root = in]
       ELSE SetChild(t, p, SideOf(t, p, out), in)

(* RB_ROTATE_LEFT with s = "left", RB_ROTATE_RIGHT with s = "right": n     *)
(* goes down on side s, its child of the other side takes its place.       *)
Rotate(t, n, s) ==
    LET x == t.child[n][Other(s)]
        inner == t.child[x][s]
        up == SetParent(SetParent(SwapChild(t, n, x), inner, n), x, t.up[n])
    IN SetParent(SetChild(SetChild(up, n, Other(s), inner), x, s, n), n, x)

-----------------------------------------------------------------------------
(* Looking for things.                                                     *)

Toward(n, k) == IF k < n THEN "left" ELSE "right"

(* RB_FIND, from node e down.                                              *)
FindFrom(t, e, k) ==
    LET found[n \in Nodes] ==
            IF n \in {Null, k} THEN n ELSE found[t.child[n][Toward(n, k)]]
    IN found[e]

Find(t, k) == FindFrom(t, t.root, k)

(* The parent RB_INSERT comes to for a name that is not there.             *)
Bottom(t, k) ==
    LET last[n \in Names] ==
            LET below == t.child[n][Toward(n, k)]
            IN IF below = Null THEN n ELSE last[below]
    IN last[t.root]

Leftmost(t, e) ==
    LET least[n \in Names] ==
            LET l == t.child[n]["left"] IN IF l = Null THEN n ELSE least[l]
    IN least[e]

(* RB_MIN.                                                                 *)
First(t) == IF t.root = Null THEN Null ELSE Leftmost(t, t.root)

(* RB_NEXT.                                                                *)
Climb(t, e) ==
    LET next[n \in Names] ==
            LET p == t.up[n]
            IN IF p = Null THEN Null
               ELSE IF t.child[p]["left"] = n THEN p ELSE next[p]
    IN next[e]

(* Refuted by ListSpec: no way up.                                         *)
SuccessorBelow(t, n) ==
    IF t.child[n]["right"] # Null THEN Leftmost(t, t.child[n]["right"]) ELSE Null

Successor(t, n) ==
    IF t.child[n]["right"] # Null THEN Leftmost(t, t.child[n]["right"])
    ELSE Climb(t, n)

-----------------------------------------------------------------------------
(* RB_INSERT.                                                              *)

Link(t, n) ==
    LET p == IF t.root = Null THEN Null ELSE Bottom(t, n)
        leaf == SetNode(t, n, p)
    IN IF p = Null THEN [leaf EXCEPT !.root = n]
       ELSE SetChild(leaf, p, Toward(p, n), n)

Insert(n) ==
    /\ IF Find(tree, n) # Null THEN UNCHANGED <<tree, raise>>
       ELSE tree' = Link(tree, n) /\ raise' = n
    /\ UNCHANGED <<parent, elm>>

(* A turn goes on at the parent if its edges have been black and red.      *)
Promotes(t, n) ==
    LET p == t.up[n]
        s == SideOf(t, p, n)
    IN p # Null /\ ~Red(t, p, s) /\ ~Red(t, p, Other(s))

(* RB_INSERT_COLOR: the ranks of n and of the nodes above it go up by one  *)
(* until the difference to the parent allows it, or rotations restore it.  *)
Raised(t, n) ==
    LET p == t.up[n]
        s == SideOf(t, p, n)
        o == Other(s)
        raised == Flip(t, p, o)
        c == raised.child[n][o]
        turned == Rotate(Flip(raised, n, s), n, s)
        fixed == IF Red(turned, c, s) THEN Flip(turned, n, o)
                 ELSE IF Red(turned, c, o) THEN Flip(turned, p, s)
                 ELSE turned
    IN IF p = Null THEN t
       ELSE IF Red(t, p, s) THEN Flip(t, p, s)
       ELSE IF Red(raised, p, o) THEN raised
       ELSE IF Red(raised, n, o) THEN Paint(Rotate(raised, p, o), n, {})
       ELSE Paint(Rotate(fixed, p, o), c, {})

InsertColor ==
    /\ raise # Null
    /\ tree' = Raised(tree, raise)
    /\ raise' = IF Promotes(tree, raise) THEN tree.up[raise] ELSE Null
    /\ UNCHANGED <<parent, elm>>

-----------------------------------------------------------------------------
(* RB_REMOVE.                                                              *)

(* The tree, and where the subtree n of p has lost a rank.                 *)
LostAt(t, p, n) ==
    [tree |-> t, parent |-> p, elm |-> IF p = Null THEN Null ELSE n]
Done(t) == LostAt(t, Null, Null)

(* A turn of the loop of RB_REMOVE_COLOR.                                  *)
Lowered(t, p, n) ==
    LET s == SideOf(t, p, n)
        o == Other(s)
        sib == t.child[p][o]
        x == t.child[sib][s]
        flipped == Flip(t, sib, o)
        turned == Rotate(Flip(flipped, p, s), sib, o)
        outer == IF Red(turned, x, o) THEN Flip(turned, sib, s) ELSE turned
        inner == IF Red(turned, x, s) THEN Flip(outer, p, o) ELSE outer
    IN IF ~Red(t, p, s) THEN Done(Flip(t, p, s))
       ELSE IF Red(t, p, o) THEN LostAt(Flip(t, p, o), t.up[p], p)
       ELSE IF t.red[sib] = Sides THEN LostAt(Paint(t, sib, {}), t.up[p], p)
       ELSE IF Red(flipped, sib, s) THEN Done(Rotate(Flip(flipped, p, s), p, s))
       ELSE IF Red(flipped, sib, o) THEN Done(Rotate(flipped, p, s))
       ELSE Done(Rotate(Paint(inner, x, Sides), p, s))

(* Refuted by RankRule: a parent that has become a leaf is the end of it.  *)
LeafIsEnd(t, p, n) ==
    IF p # Null /\ t.child[p] = [s \in Sides |-> n] THEN Done(Paint(t, p, {}))
    ELSE LostAt(t, p, n)

(* Its beginning: a parent that has become a leaf is lowered first.        *)
LowerLeaf(t, p, n) ==
    IF p # Null /\ t.child[p] = [s \in Sides |-> n]
    THEN LostAt(Paint(t, p, {}), t.up[p], p)
    ELSE LostAt(t, p, n)

(* old->field, copied to n.                                                *)
Copy(t, n, old) ==
    [t EXCEPT !.up[n] = t.up[old], !.child[n] = t.child[old], !.red[n] = t.red[old]]

(* The successor of n, taken out of the tree below n, takes over all links *)
(* and colours of n.                                                       *)
Inherited(t, n, heir) ==
    LET r == t.child[n]["right"]
        orphan == t.child[heir]["right"]
        below == IF heir = r THEN SetChild(t, n, "right", orphan)
                 ELSE SetParent(SetChild(t, t.up[heir], "left", orphan), r, heir)
    IN Copy(SetParent(below, t.child[n]["left"], heir), heir, n)

(* RB_REMOVE: a node with one child at most gives its place to it, any     *)
(* other to its successor.  It is freed afterwards in every case.          *)
Removed(t, n) ==
    LET l == t.child[n]["left"]
        r == t.child[n]["right"]
        only == IF l = Null THEN r ELSE l
        heir == Leftmost(t, r)
        orphan == t.child[heir]["right"]
        p == IF heir = r THEN heir ELSE t.up[heir]
        joined == SetParent(SwapChild(t, n, only), only, t.up[n])
        headed == SetParent(SwapChild(Inherited(t, n, heir), n, heir), orphan, p)
    IN IF l = Null \/ r = Null
       THEN LowerLeaf(SetNode(joined, n, Null), t.up[n], only)
       ELSE LowerLeaf(SetNode(headed, n, Null), p, orphan)

Becomes(out) == tree' = out.tree /\ parent' = out.parent /\ elm' = out.elm

Remove(n) == Becomes(Removed(tree, n)) /\ UNCHANGED raise

RemoveColor ==
    /\ parent # Null
    /\ Becomes(Lowered(tree, parent, elm))
    /\ UNCHANGED raise

(* No tree operation is under way.                                         *)
Settled == raise = Null /\ parent = Null

-----------------------------------------------------------------------------
(* What the header says of a tree.                                         *)

RankOf(t, e) ==
    LET rank[n \in Nodes] ==
            IF n = Null THEN -1
            ELSE rank[t.child[n]["left"]] + (IF Red(t, n, "left") THEN 2 ELSE 1)
    IN rank[e]

HeightOf(t, e) ==
    LET height[n \in Nodes] ==
            IF n = Null THEN 0
            ELSE LET l == height[t.child[n]["left"]]
                     r == height[t.child[n]["right"]]
                 IN 1 + (IF l > r THEN l ELSE r)
    IN height[e]

(* Of two.                                                                 *)
Power[n \in Nat] == IF n = 0 THEN 1 ELSE 2 * Power[n - 1]
=============================================================================
