-------------------------- MODULE ListOwnersProofs --------------------------
(***************************************************************************)
(* Proofs about the lists and the tree they are kept in, for any names: a  *)
(* name that was inserted is found, the walk from the first entry comes to *)
(* every one in order, an iteration misses none, and after every operation *)
(* the tree keeps the conditions of its header. First what the operations  *)
(* of the tree do to its fields, its shape and its ranks; then the lists,  *)
(* and at the end the theorems about the specification.                    *)
(***************************************************************************)
EXTENDS ListOwners, FiniteSetTheorems, WellFoundedInduction, TLAPS

(* The trees there are to write down, well-formed or not.                  *)
Trees == [root : Nodes, up : [Names -> Nodes],
          child : [Names -> [Sides -> Nodes]], red : [Names -> SUBSET Sides]]

(* What an assignment to a field leaves of the others: u is t with the     *)
(* parent of n, the child s of n, the colours of n, all fields of n, or    *)
(* the root set anew.                                                      *)
ParentSet(u, t, n, p) ==
    /\ u \in Trees /\ u.red = t.red /\ u.child = t.child /\ u.root = t.root
    /\ \A m \in Names : u.up[m] = IF m = n THEN p ELSE t.up[m]

ChildSet(u, t, n, s, c) ==
    /\ u \in Trees /\ u.red = t.red /\ u.up = t.up /\ u.root = t.root
    /\ \A m \in Names, q \in Sides :
           u.child[m][q] = IF m = n /\ q = s THEN c ELSE t.child[m][q]

RedSet(u, t, n, sides) ==
    /\ u \in Trees /\ u.child = t.child /\ u.up = t.up /\ u.root = t.root
    /\ \A m \in Names : u.red[m] = IF m = n THEN sides ELSE t.red[m]

NodeSet(u, t, n, p, links, sides) ==
    /\ u \in Trees /\ u.root = t.root
    /\ \A m \in Names : u.up[m] = IF m = n THEN p ELSE t.up[m]
    /\ \A m \in Names : u.child[m] = IF m = n THEN links ELSE t.child[m]
    /\ \A m \in Names : u.red[m] = IF m = n THEN sides ELSE t.red[m]

RootSet(u, t, n) ==
    u \in Trees /\ u.root = n /\ u.up = t.up /\ u.child = t.child /\ u.red = t.red

(* A tree with a field replaced is a tree, and has its other fields.       *)
LEMMA FieldUp ==
  ASSUME NEW t \in Trees, NEW U \in [Names -> Nodes]
  PROVE  LET u == [t EXCEPT !.up = U]
         IN /\ u \in Trees /\ u.up = U /\ u.root = t.root /\ u.child = t.child
            /\ u.red = t.red
  BY SMT DEF Trees

(* The same for the children.                                              *)
LEMMA FieldChild ==
  ASSUME NEW t \in Trees, NEW U \in [Names -> [Sides -> Nodes]]
  PROVE  LET u == [t EXCEPT !.child = U]
         IN /\ u \in Trees /\ u.child = U /\ u.root = t.root /\ u.up = t.up
            /\ u.red = t.red
  BY SMT DEF Trees

(* The same for the colours.                                               *)
LEMMA FieldRed ==
  ASSUME NEW t \in Trees, NEW U \in [Names -> SUBSET Sides]
  PROVE  LET u == [t EXCEPT !.red = U]
         IN /\ u \in Trees /\ u.red = U /\ u.root = t.root /\ u.up = t.up
            /\ u.child = t.child
  BY SMT DEF Trees

(* What EXCEPT does to a function.                                         *)
LEMMA EntrySet ==
  ASSUME NEW A, NEW B, NEW f \in [A -> B], NEW n \in A, NEW v \in B
  PROVE  /\ [f EXCEPT ![n] = v] \in [A -> B]
         /\ \A m \in A : [f EXCEPT ![n] = v][m] = IF m = n THEN v ELSE f[m]
  OBVIOUS

(* What EXCEPT does to a function of functions.                            *)
LEMMA EntrySetTwice ==
  ASSUME NEW f \in [Names -> [Sides -> Nodes]], NEW n \in Names, NEW s \in Sides,
         NEW c \in Nodes
  PROVE  /\ [f EXCEPT ![n][s] = c] \in [Names -> [Sides -> Nodes]]
         /\ \A m \in Names, q \in Sides :
               [f EXCEPT ![n][s] = c][m][q] = IF m = n /\ q = s THEN c ELSE f[m][q]
  OBVIOUS

(* The fields of a tree have their types.                                  *)
LEMMA FieldTypes ==
  ASSUME NEW t \in Trees
  PROVE  /\ t.root \in Nodes /\ t.up \in [Names -> Nodes]
         /\ t.child \in [Names -> [Sides -> Nodes]] /\ t.red \in [Names -> SUBSET Sides]
  BY SMT DEF Trees

(* What setting a parent does.                                             *)
LEMMA UpFields ==
  ASSUME NEW t \in Trees, NEW n \in Names, NEW p \in Nodes
  PROVE  ParentSet([t EXCEPT !.up[n] = p], t, n, p)
<1> DEFINE U == [t.up EXCEPT ![n] = p]
<1>1. U \in [Names -> Nodes] /\ \A m \in Names : U[m] = IF m = n THEN p ELSE t.up[m]
  BY FieldTypes, SMT
<1> HIDE DEF U
<1>2. ParentSet([t EXCEPT !.up = U], t, n, p)
  BY <1>1, FieldUp, Zenon DEF ParentSet
<1> QED BY <1>2 DEF U

(* What RB_SET_PARENT does, also of no node.                               *)
LEMMA SetParentFields ==
  ASSUME NEW t \in Trees, NEW n \in Nodes, NEW p \in Nodes
  PROVE  ParentSet(SetParent(t, n, p), t, n, p)
<1>1. CASE n = Null
  BY <1>1, TreeAssumption, SMT DEF SetParent, ParentSet
<1>2. CASE n \in Names
  BY <1>2, UpFields, TreeAssumption, Zenon DEF SetParent
<1> QED BY <1>1, <1>2 DEF Nodes

(* What setting a link to a child does.                                    *)
LEMMA SetChildFields ==
  ASSUME NEW t \in Trees, NEW n \in Names, NEW s \in Sides, NEW c \in Nodes
  PROVE  ChildSet(SetChild(t, n, s, c), t, n, s, c)
<1> DEFINE U == [t.child EXCEPT ![n][s] = c]
<1>1. /\ U \in [Names -> [Sides -> Nodes]]
      /\ \A m \in Names, q \in Sides :
            U[m][q] = IF m = n /\ q = s THEN c ELSE t.child[m][q]
  BY FieldTypes, EntrySetTwice, SMT
<1> HIDE DEF U
<1>2. ChildSet([t EXCEPT !.child = U], t, n, s, c)
  BY <1>1, FieldChild, SMT DEF ChildSet
<1> QED BY <1>2 DEF U, SetChild

(* What setting both colours of a node does.                               *)
LEMMA PaintFields ==
  ASSUME NEW t \in Trees, NEW n \in Names, NEW sides \in SUBSET Sides
  PROVE  RedSet(Paint(t, n, sides), t, n, sides)
<1> DEFINE U == [t.red EXCEPT ![n] = sides]
<1>1. /\ U \in [Names -> SUBSET Sides]
      /\ \A m \in Names : U[m] = IF m = n THEN sides ELSE t.red[m]
  BY FieldTypes, SMT
<1> HIDE DEF U
<1>2. RedSet([t EXCEPT !.red = U], t, n, sides)
  BY <1>1, FieldRed, Zenon DEF RedSet
<1> QED BY <1>2 DEF U, Paint

(* The colours of a node, one of them changed.                             *)
Flipped(sides, s) == IF s \in sides THEN sides \ {s} ELSE sides \cup {s}

(* What RB_FLIP_LEFT and RB_FLIP_RIGHT do.                                 *)
LEMMA FlipFields ==
  ASSUME NEW t \in Trees, NEW n \in Names, NEW s \in Sides
  PROVE  RedSet(Flip(t, n, s), t, n, Flipped(t.red[n], s))
<1>1. Flip(t, n, s) = Paint(t, n, Flipped(t.red[n], s))
  BY DEF Flip, Paint, Flipped
<1>2. Flipped(t.red[n], s) \in SUBSET Sides
  BY FieldTypes, SMT DEF Flipped
<1> QED BY <1>1, <1>2, PaintFields, Zenon

(* What setting all fields of a node does.                                 *)
LEMMA NodeFields ==
  ASSUME NEW t \in Trees, NEW n \in Names, NEW p \in Nodes,
         NEW links \in [Sides -> Nodes], NEW sides \in SUBSET Sides
  PROVE  NodeSet([t EXCEPT !.up[n] = p, !.child[n] = links, !.red[n] = sides],
                 t, n, p, links, sides)
<1> DEFINE U == [t.up EXCEPT ![n] = p]
           C == [t.child EXCEPT ![n] = links]
           R == [t.red EXCEPT ![n] = sides]
           a == [t EXCEPT !.up = U]
           b == [a EXCEPT !.child = C]
<1>1. /\ U \in [Names -> Nodes] /\ C \in [Names -> [Sides -> Nodes]]
      /\ R \in [Names -> SUBSET Sides]
      /\ \A m \in Names : U[m] = IF m = n THEN p ELSE t.up[m]
      /\ \A m \in Names : C[m] = IF m = n THEN links ELSE t.child[m]
      /\ \A m \in Names : R[m] = IF m = n THEN sides ELSE t.red[m]
  BY FieldTypes, SMT
<1>2. a \in Trees /\ a.up = U /\ a.root = t.root /\ a.child = t.child /\ a.red = t.red
  BY <1>1, FieldUp, Zenon
<1>3. b \in Trees /\ b.child = C /\ b.root = a.root /\ b.up = a.up /\ b.red = a.red
  BY <1>1, <1>2, FieldChild, Zenon
<1>4. [t EXCEPT !.up[n] = p, !.child[n] = links, !.red[n] = sides]
         = [b EXCEPT !.red = R]
  BY <1>2, <1>3
<1> HIDE DEF U, C, R, a, b
<1>5. NodeSet([b EXCEPT !.red = R], t, n, p, links, sides)
  BY <1>1, <1>2, <1>3, FieldRed, SMT DEF NodeSet
<1> QED BY <1>4, <1>5

(* What RB_SET does.                                                       *)
LEMMA SetNodeFields ==
  ASSUME NEW t \in Trees, NEW n \in Names, NEW p \in Nodes
  PROVE  NodeSet(SetNode(t, n, p), t, n, p, Blank, {})
<1>1. Blank \in [Sides -> Nodes] /\ {} \in SUBSET Sides
  BY DEF Blank, Nodes
<1> QED BY <1>1, NodeFields, Zenon DEF SetNode

(* What copying all fields of a node to another does.                      *)
LEMMA CopyFields ==
  ASSUME NEW t \in Trees, NEW n \in Names, NEW old \in Names
  PROVE  NodeSet(Copy(t, n, old), t, n, t.up[old], t.child[old], t.red[old])
<1>1. t.up[old] \in Nodes /\ t.child[old] \in [Sides -> Nodes]
      /\ t.red[old] \in SUBSET Sides
  BY DEF Trees
<1> QED BY <1>1, NodeFields, Zenon DEF Copy

(* What setting the root does.                                             *)
LEMMA RootFields ==
  ASSUME NEW t \in Trees, NEW n \in Nodes
  PROVE  RootSet([t EXCEPT !.root = n], t, n)
  BY SMT DEF Trees, RootSet

(* What RB_SWAP_CHILD does: the link to out, from its parent or from the   *)
(* root, leads to in.                                                      *)
Swapped(u, t, out, in) ==
    /\ u \in Trees /\ u.red = t.red /\ u.up = t.up
    /\ u.root = IF t.up[out] = Null THEN in ELSE t.root
    /\ \A m \in Names, q \in Sides :
           u.child[m][q] = IF m = t.up[out] /\ q = SideOf(t, m, out) THEN in
                           ELSE t.child[m][q]

(* RB_SWAP_CHILD does that.                                                *)
LEMMA SwapChildFields ==
  ASSUME NEW t \in Trees, NEW out \in Names, NEW in \in Nodes
  PROVE  Swapped(SwapChild(t, out, in), t, out, in)
<1>1. CASE t.up[out] = Null
  <2>1. RootSet(SwapChild(t, out, in), t, in)
    BY <1>1, RootFields, Zenon DEF SwapChild
  <2> QED BY <1>1, <2>1, TreeAssumption, SMT DEF RootSet, Swapped
<1>2. CASE t.up[out] # Null
  <2>1. t.up[out] \in Names /\ SideOf(t, t.up[out], out) \in Sides
    BY <1>2, SMT DEF Trees, Nodes, SideOf, Sides
  <2>2. ChildSet(SwapChild(t, out, in), t, t.up[out], SideOf(t, t.up[out], out), in)
    BY <1>2, <2>1, SetChildFields, Zenon DEF SwapChild
  <2> QED BY <1>2, <2>2, SMT DEF ChildSet, Swapped
<1> QED BY <1>1, <1>2

(* What RB_ROTATE_LEFT and RB_ROTATE_RIGHT do with n, its child x on the   *)
(* other side and the child of x in between, the parent of n being p.      *)
Rotated(u, t, n, s, x, inner, p) ==
    /\ u \in Trees /\ u.red = t.red
    /\ u.root = IF p = Null THEN x ELSE t.root
    /\ \A m \in Names :
          u.up[m] = IF m = n THEN x ELSE IF m = x THEN p
                    ELSE IF m = inner THEN n ELSE t.up[m]
    /\ \A m \in Names, q \in Sides :
          u.child[m][q] = IF m = n /\ q = Other(s) THEN inner
                          ELSE IF m = x /\ q = s THEN n
                          ELSE IF m = p /\ q = SideOf(t, m, n) THEN x
                          ELSE t.child[m][q]

(* RB_ROTATE_LEFT and RB_ROTATE_RIGHT do that.                             *)
LEMMA RotateFields ==
  ASSUME NEW t \in Trees, NEW n \in Names, NEW s \in Sides,
         t.child[n][Other(s)] \in Names,
         NEW x, NEW inner, NEW p,
         x = t.child[n][Other(s)], inner = t.child[x][s], p = t.up[n]
  PROVE  Rotated(Rotate(t, n, s), t, n, s, x, inner, p)
<1>0. x \in Names /\ inner \in Nodes /\ p \in Nodes /\ x \in Nodes /\ n \in Nodes
      /\ Other(s) \in Sides
  BY SMT DEF Trees, Nodes, Other, Sides
<1> DEFINE a == SwapChild(t, n, x)
           b == SetParent(a, inner, n)
           c == SetParent(b, x, p)
           d == SetChild(c, n, Other(s), inner)
           e == SetChild(d, x, s, n)
           u == SetParent(e, n, x)
<1>1. Rotate(t, n, s) = u
  BY Zenon DEF Rotate
<1>2. Swapped(a, t, n, x)
  BY <1>0, SwapChildFields, Zenon
<1>a. a \in Trees
  BY <1>2, Zenon DEF Swapped
<1> HIDE DEF a
<1>3. ParentSet(b, a, inner, n)
  BY <1>0, <1>a, SetParentFields, Zenon
<1>b. b \in Trees
  BY <1>3, Zenon DEF ParentSet
<1> HIDE DEF b
<1>4. ParentSet(c, b, x, p)
  BY <1>0, <1>b, SetParentFields, Zenon
<1>c. c \in Trees
  BY <1>4, Zenon DEF ParentSet
<1> HIDE DEF c
<1>5. ChildSet(d, c, n, Other(s), inner)
  BY <1>0, <1>c, SetChildFields, Zenon
<1>d. d \in Trees
  BY <1>5, Zenon DEF ChildSet
<1> HIDE DEF d
<1>6. ChildSet(e, d, x, s, n)
  BY <1>0, <1>d, SetChildFields, Zenon
<1>e. e \in Trees
  BY <1>6, Zenon DEF ChildSet
<1> HIDE DEF e
<1>7. ParentSet(u, e, n, x)
  BY <1>0, <1>e, SetParentFields, Zenon
<1> HIDE DEF u
<1>8. Rotated(u, t, n, s, x, inner, p)
  BY <1>0, <1>2, <1>3, <1>4, <1>5, <1>6, <1>7, SMT
  DEF Rotated, Swapped, ParentSet, ChildSet
<1> QED BY <1>1, <1>8, Zenon

-----------------------------------------------------------------------------

(* a is on side s of b in the order of names.                              *)
Precedes(s, a, b) == IF s = "left" THEN a < b ELSE b < a

(* The shape of a tree: S is the set of its nodes, b gives for each node   *)
(* the nodes from it downwards. The links lead there and back; what is on  *)
(* the left of a node is less, what is on the right is greater; a node     *)
(* that is in no tree has no links.                                        *)
ShapeType(t, S, b) ==
    /\ t \in Trees /\ S \subseteq Names /\ IsFiniteSet(S)
    /\ b \in [Nodes -> SUBSET Names] /\ b[Null] = {}

Unfolds(t, b) ==
    \A n \in Names :
        b[n] = {n} \cup b[t.child[n]["left"]] \cup b[t.child[n]["right"]]

LinksBack(t) ==
    \A n \in Names, s \in Sides : t.child[n][s] # Null => t.up[t.child[n][s]] = n

Ordered(t, b) ==
    \A n \in Names, s \in Sides : \A m \in b[t.child[n][s]] : Precedes(s, m, n)

LinksDown(t) ==
    \A n \in Names : t.up[n] # Null => t.child[t.up[n]][Toward(t.up[n], n)] = n

Rooted(t, S, b) ==
    /\ S = b[t.root] /\ (t.root # Null => t.up[t.root] = Null)
    /\ \A n \in S : b[n] \subseteq S /\ (t.up[n] = Null => n = t.root)

Dead(t, S) == \A n \in Names \ S : t.up[n] = Null /\ t.child[n] = Blank

Shape(t, S, b) ==
    /\ ShapeType(t, S, b) /\ Unfolds(t, b) /\ LinksBack(t) /\ Ordered(t, b)
    /\ LinksDown(t) /\ Rooted(t, S, b) /\ Dead(t, S)

(* There are two sides.                                                    *)
LEMMA SideFacts ==
  /\ \A s \in Sides : Other(s) \in Sides /\ Other(s) # s /\ Other(Other(s)) = s
  /\ \A s, q \in Sides : q = s \/ q = Other(s)
  BY DEF Sides, Other

(* The order of names, from either side.                                   *)
LEMMA OrderFacts ==
  ASSUME NEW s \in Sides
  PROVE  /\ \A a \in Names : ~Precedes(s, a, a)
         /\ \A a, b \in Names : Precedes(Other(s), a, b) <=> Precedes(s, b, a)
         /\ \A a, b, c \in Names : Precedes(s, a, b) /\ Precedes(s, b, c)
               => Precedes(s, a, c)
         /\ \A a, b \in Names : Precedes(s, a, b) => Toward(b, a) = s
         /\ \A a, b \in Names : a # b => Precedes(Toward(b, a), a, b)
         /\ \A a, b \in Names : Toward(b, a) \in Sides
  BY TreeAssumption, SMT DEF Sides, Other, Precedes, Toward

(* What is below a node is below its child on side s or below the other.   *)
LEMMA UnfoldSides ==
  ASSUME NEW t, NEW S, NEW b, Shape(t, S, b), NEW n \in Names, NEW s \in Sides
  PROVE  b[n] = {n} \cup b[t.child[n][s]] \cup b[t.child[n][Other(s)]]
  BY SMT DEF Shape, Unfolds, Sides, Other

(* Where the child of a node is: in the tree below it, on its side of the  *)
(* order, and its parent is that node.                                     *)
LEMMA ChildFacts ==
  ASSUME NEW t, NEW S, NEW b, Shape(t, S, b), NEW n \in Names, NEW s \in Sides
  PROVE  /\ t.child[n][s] \in Nodes /\ t.up[n] \in Nodes
         /\ n \in b[n] /\ n \notin b[t.child[n][s]]
         /\ b[t.child[n][s]] \subseteq b[n] /\ b[n] \subseteq Names
         /\ t.child[n][s] # n /\ t.up[n] # n
         /\ t.child[n][s] # Null =>
               /\ t.child[n][s] \in Names /\ t.up[t.child[n][s]] = n
               /\ Toward(n, t.child[n][s]) = s
               /\ t.child[n][s] \in b[n]
<1>1. t \in Trees /\ b \in [Nodes -> SUBSET Names] /\ Other(s) \in Sides
  BY SideFacts DEF Shape, ShapeType
<1>2. t.child[n][s] \in Nodes /\ t.up[n] \in Nodes
  BY <1>1, FieldTypes
<1>3. b[n] = {n} \cup b[t.child[n][s]] \cup b[t.child[n][Other(s)]]
  BY UnfoldSides
<1>4. b[n] \subseteq Names
  BY <1>1 DEF Nodes
<1>5. \A m \in Names : \A q \in Sides : m \notin b[t.child[m][q]]
  BY OrderFacts DEF Shape, Ordered
<1>6. \A m \in Names : m \in b[m]
  BY DEF Shape, Unfolds
<1>7. t.child[n][s] # n
  BY <1>5, <1>6
<1>8. t.up[n] # n
  <2> SUFFICES ASSUME t.up[n] = n PROVE FALSE
    OBVIOUS
  <2>1. n # Null
    BY TreeAssumption
  <2>2. t.child[n][Toward(n, n)] = n
    BY <2>1 DEF Shape, LinksDown
  <2> QED BY <2>2, <1>5, <1>6, OrderFacts
<1>9. ASSUME t.child[n][s] # Null
      PROVE  /\ t.child[n][s] \in Names /\ t.up[t.child[n][s]] = n
             /\ Toward(n, t.child[n][s]) = s
             /\ t.child[n][s] \in b[n]
  <2>1. t.child[n][s] \in Names
    BY <1>2, <1>9 DEF Nodes
  <2>2. t.up[t.child[n][s]] = n
    BY <1>9 DEF Shape, LinksBack
  <2>3. t.child[n][s] \in b[t.child[n][s]]
    BY <1>6, <2>1
  <2>4. Precedes(s, t.child[n][s], n)
    BY <2>3 DEF Shape, Ordered
  <2> QED BY <1>3, <2>1, <2>2, <2>3, <2>4, OrderFacts
<1> QED BY <1>2, <1>3, <1>4, <1>5, <1>6, <1>7, <1>8, <1>9

(* Where the parent of a node is: it has a link to the node on the side    *)
(* the order says, and on that side only.                                  *)
LEMMA ParentFacts ==
  ASSUME NEW t, NEW S, NEW b, Shape(t, S, b), NEW n \in Names, t.up[n] # Null
  PROVE  /\ t.up[n] \in Names /\ Toward(t.up[n], n) \in Sides
         /\ t.child[t.up[n]][Toward(t.up[n], n)] = n
         /\ SideOf(t, t.up[n], n) = Toward(t.up[n], n)
         /\ \A q \in Sides : t.child[t.up[n]][q] = n => q = Toward(t.up[n], n)
<1>1. t.up[n] \in Names
  BY ChildFacts DEF Nodes, Sides
<1>2. Toward(t.up[n], n) \in Sides
  BY DEF Toward, Sides
<1>3. t.child[t.up[n]][Toward(t.up[n], n)] = n
  BY DEF Shape, LinksDown
<1>4. n # Null
  BY TreeAssumption
<1>5. \A q \in Sides : t.child[t.up[n]][q] = n => q = Toward(t.up[n], n)
  BY <1>1, <1>4, ChildFacts
<1>6. SideOf(t, t.up[n], n) = Toward(t.up[n], n)
  BY <1>2, <1>3, <1>5 DEF SideOf, Sides
<1> QED BY <1>1, <1>2, <1>3, <1>5, <1>6

(* A rotation keeps the shape and the nodes of the tree.                   *)
LEMMA RotateShape ==
  ASSUME NEW t, NEW S, NEW b, Shape(t, S, b), NEW n \in Names, NEW s \in Sides,
         t.child[n][Other(s)] \in Names
  PROVE  \E d : Shape(Rotate(t, n, s), S, d)
<1> DEFINE o == Other(s)
           x == t.child[n][o]
           A == t.child[n][s]
           inner == t.child[x][s]
           C == t.child[x][o]
           p == t.up[n]
           u == Rotate(t, n, s)
           low == {n} \cup b[A] \cup b[inner]
           d == [b EXCEPT ![x] = b[n], ![n] = low]
<1>1. /\ t \in Trees /\ S \subseteq Names /\ IsFiniteSet(S)
      /\ b \in [Nodes -> SUBSET Names] /\ b[Null] = {}
  BY DEF Shape, ShapeType
<1>2. x \in Names /\ o \in Sides /\ o # s /\ Other(o) = s /\ n # Null /\ x # Null
  BY SideFacts, TreeAssumption
<1>3. /\ n \in b[n] /\ n \notin b[A] /\ n \notin b[x] /\ x # n /\ A # n
      /\ A \in Nodes /\ p \in Nodes /\ p # n
      /\ t.up[x] = n /\ b[A] \subseteq Names
      /\ A # Null => A \in Names /\ t.up[A] = n /\ A \in b[A]
  BY <1>2, ChildFacts
<1>4. /\ inner \in Nodes /\ C \in Nodes /\ inner # x /\ C # x /\ x \in b[x]
      /\ x \notin b[inner] /\ x \notin b[C] /\ b[inner] \subseteq b[x]
      /\ b[C] \subseteq b[x]
      /\ b[x] \subseteq Names
      /\ inner # Null => inner \in Names /\ t.up[inner] = x /\ inner \in b[x]
      /\ C # Null => C \in Names /\ t.up[C] = x /\ C \in b[x]
  BY <1>2, ChildFacts, SMTT(20)
<1>5. b[n] = {n} \cup b[A] \cup b[x]
  BY <1>2, UnfoldSides
<1>6. b[x] = {x} \cup b[inner] \cup b[C]
  BY <1>2, UnfoldSides
<1>7. inner # n /\ C # n
  BY <1>2, <1>3, <1>4
<1>8. p # x
  <2> SUFFICES ASSUME p = x PROVE FALSE
    OBVIOUS
  <2>1. p # Null
    BY <1>2
  <2>2. t.child[x][Toward(x, n)] = n /\ Toward(x, n) \in Sides
    BY <2>1, ParentFacts
  <2>3. n \in b[x]
    BY <2>2, <1>2, ChildFacts
  <2> QED BY <2>3, <1>3
<1>9. A # x
  <2>1. Toward(n, x) = o
    BY <1>2, ChildFacts
  <2>2. A # Null => Toward(n, A) = s
    BY ChildFacts
  <2> QED BY <2>1, <2>2, <1>2
<1>10. Rotated(u, t, n, s, x, inner, p)
  BY <1>1, <1>2, RotateFields
<1> HIDE DEF o, x, A, inner, C, p, u
<1>11. /\ d \in [Nodes -> SUBSET Names] /\ d[x] = b[n] /\ d[n] = low
       /\ \A m \in Nodes : m \notin {n, x} => d[m] = b[m]
  <2>1. low \in SUBSET Names
    BY <1>3, <1>4
  <2>2. b[n] \in SUBSET Names
    BY <1>3, <1>4, <1>5
  <2>3. n \in Nodes /\ x \in Nodes
    BY <1>2 DEF Nodes
  <2> HIDE DEF low
  <2> QED BY <2>1, <2>2, <2>3, <1>1, <1>3
<1> USE DEF o, x, A, inner, C, p, u
<1>12. u.red = t.red /\ u \in Trees
  BY <1>10 DEF Rotated
<1> DEFINE q0 == Toward(p, n)
<1>13. p # Null => /\ p \in Names /\ q0 \in Sides /\ t.child[p][q0] = n
                   /\ SideOf(t, p, n) = q0
  BY ParentFacts
(* Only their parents have links to n and to x.                            *)
<1>14. \A m \in Names, q \in Sides :
          /\ t.child[m][q] = n => m = p /\ q = q0
          /\ t.child[m][q] = x => m = n /\ q = o
          /\ inner # Null /\ t.child[m][q] = inner => m = x /\ q = s
          /\ t.child[m][q] \in Nodes
  <2> SUFFICES ASSUME NEW m \in Names, NEW q \in Sides
               PROVE  /\ t.child[m][q] = n => m = p /\ q = q0
                      /\ t.child[m][q] = x => m = n /\ q = o
                      /\ inner # Null /\ t.child[m][q] = inner => m = x /\ q = s
                      /\ t.child[m][q] \in Nodes
    OBVIOUS
  <2>1. t.child[m][q] # Null =>
           t.up[t.child[m][q]] = m /\ Toward(m, t.child[m][q]) = q
    BY ChildFacts
  <2>2. Toward(n, x) = o
    BY <1>2, ChildFacts
  <2>3. inner # Null => Toward(x, inner) = s
    BY <1>2, ChildFacts
  <2>4. t.child[m][q] \in Nodes
    BY ChildFacts
  <2> QED BY <2>1, <2>2, <2>3, <2>4, <1>2, <1>3, <1>4
<1>15. /\ \A m \in Names :
             u.up[m] = IF m = n THEN x ELSE IF m = x THEN p
                       ELSE IF m = inner THEN n ELSE t.up[m]
       /\ u.root = IF p = Null THEN x ELSE t.root
  BY <1>10 DEF Rotated
<1>16. /\ u.child[n][o] = inner /\ u.child[n][s] = A
       /\ u.child[x][s] = n /\ u.child[x][o] = C
       /\ p # Null => u.child[p][q0] = x
       /\ \A m \in Names, q \in Sides :
             /\ <<m, q>> # <<n, o>> /\ <<m, q>> # <<x, s>> /\ <<m, q>> # <<p, q0>>
             => u.child[m][q] = t.child[m][q]
  <2>1. \A m \in Names, q \in Sides :
          u.child[m][q] = IF m = n /\ q = o THEN inner
                          ELSE IF m = x /\ q = s THEN n
                          ELSE IF m = p /\ q = SideOf(t, m, n) THEN x
                          ELSE t.child[m][q]
    BY <1>10 DEF Rotated
  <2>2. p # Null => SideOf(t, p, n) = q0
    BY <1>13
  <2>3. p # Null => u.child[p][q0] = x
    BY <2>1, <1>13, <1>3, <1>8
  <2>4. /\ u.child[n][o] = inner /\ u.child[n][s] = A
        /\ u.child[x][s] = n /\ u.child[x][o] = C
    BY <2>1, <1>2, <1>3, <1>8
  <2>5. ASSUME NEW m \in Names, NEW q \in Sides,
               <<m, q>> # <<n, o>>, <<m, q>> # <<x, s>>, <<m, q>> # <<p, q0>>
        PROVE  u.child[m][q] = t.child[m][q]
    <3>1. m = p => p # Null
      BY TreeAssumption
    <3> QED BY <2>1, <2>2, <2>5, <3>1
  <2> QED BY <2>3, <2>4, <2>5
<1> HIDE DEF o, x, A, inner, C, p, u, low, d, q0
(* What is below a child of another node.                                  *)
<1>17. \A m \in Names, q \in Sides : m \notin {n, x} =>
          d[u.child[m][q]] = b[t.child[m][q]]
  <2> SUFFICES ASSUME NEW m \in Names, NEW q \in Sides, m \notin {n, x}
               PROVE  d[u.child[m][q]] = b[t.child[m][q]]
    OBVIOUS
  <2>1. CASE m = p /\ q = q0
    <3>1. p # Null
      BY <2>1, TreeAssumption
    <3> QED BY <2>1, <3>1, <1>11, <1>13, <1>16
  <2>2. CASE ~(m = p /\ q = q0)
    <3>1. u.child[m][q] = t.child[m][q]
      BY <2>2, <1>16
    <3>2. t.child[m][q] \in Nodes /\ t.child[m][q] \notin {n, x}
      BY <2>2, <1>14
    <3> QED BY <3>1, <3>2, <1>11
  <2> QED BY <2>1, <2>2
<1>18. d[A] = b[A] /\ d[inner] = b[inner] /\ d[C] = b[C] /\ d[Null] = {}
  <2>1. Null \in Nodes /\ Null # n /\ Null # x
    BY <1>2 DEF Nodes
  <2> QED BY <2>1, <1>1, <1>3, <1>4, <1>7, <1>9, <1>11
<1>19. Unfolds(u, d)
  <2> SUFFICES ASSUME NEW m \in Names
               PROVE  d[m] = {m} \cup d[u.child[m][s]] \cup d[u.child[m][o]]
    BY <1>2, SideFacts DEF Unfolds, Sides
  <2>1. CASE m = n
    BY <2>1, <1>11, <1>16, <1>18 DEF low
  <2>2. CASE m = x
    BY <2>2, <1>5, <1>6, <1>11, <1>16, <1>18 DEF low
  <2>3. CASE m \notin {n, x}
    <3>1. b[m] = {m} \cup b[t.child[m][s]] \cup b[t.child[m][o]]
      BY UnfoldSides DEF o
    <3>2. d[m] = b[m]
      BY <2>3, <1>11 DEF Nodes
    <3> QED BY <2>3, <3>1, <3>2, <1>2, <1>17
  <2> QED BY <2>1, <2>2, <2>3
<1>20. LinksBack(u)
  <2> SUFFICES ASSUME NEW m \in Names, NEW q \in Sides, u.child[m][q] # Null
               PROVE  u.up[u.child[m][q]] = m
    BY DEF LinksBack
  <2>1. CASE <<m, q>> = <<n, o>>
    BY <2>1, <1>4, <1>7, <1>15, <1>16
  <2>2. CASE <<m, q>> = <<x, s>>
    BY <2>2, <1>2, <1>15, <1>16
  <2>3. CASE <<m, q>> = <<p, q0>>
    <3>1. p # Null
      BY <2>3, TreeAssumption
    <3> QED BY <2>3, <3>1, <1>2, <1>3, <1>15, <1>16
  <2>4. CASE <<m, q>> # <<n, o>> /\ <<m, q>> # <<x, s>> /\ <<m, q>> # <<p, q0>>
    <3> DEFINE c == t.child[m][q]
    <3>1. u.child[m][q] = c /\ c # Null
      BY <2>4, <1>16
    <3>2. c \in Names /\ t.up[c] = m
      BY <3>1, ChildFacts
    <3>3. c \notin {n, x, inner}
      BY <2>4, <3>1, <1>14
    <3> QED BY <3>1, <3>2, <3>3, <1>15
  <2> QED BY <2>1, <2>2, <2>3, <2>4
<1>21. /\ \A k \in b[A] : Precedes(s, k, n)
       /\ \A k \in b[x] : Precedes(o, k, n)
       /\ \A k \in b[inner] : Precedes(s, k, x)
       /\ \A k \in b[C] : Precedes(o, k, x)
  BY <1>2 DEF Shape, Ordered, x, A, inner, C
<1>22. Precedes(s, n, x) /\ \A k \in b[A] : Precedes(s, k, x)
  <2>1. Precedes(s, n, x)
    BY <1>2, <1>4, <1>21, OrderFacts DEF o
  <2> QED BY <2>1, <1>2, <1>3, <1>21, OrderFacts
<1>23. Ordered(u, d)
  <2> SUFFICES ASSUME NEW m \in Names, NEW q \in Sides, NEW k \in d[u.child[m][q]]
               PROVE  Precedes(q, k, m)
    BY DEF Ordered
  <2>1. CASE m = n /\ q = s
    BY <2>1, <1>16, <1>18, <1>21
  <2>2. CASE m = n /\ q = o
    BY <2>2, <1>4, <1>16, <1>18, <1>21
  <2>3. CASE m = x /\ q = s
    BY <2>3, <1>11, <1>16, <1>21, <1>22 DEF low
  <2>4. CASE m = x /\ q = o
    BY <2>4, <1>16, <1>18, <1>21
  <2>5. CASE m \notin {n, x}
    BY <2>5, <1>17 DEF Shape, Ordered
  <2> QED BY <2>1, <2>2, <2>3, <2>4, <2>5, SideFacts DEF o
<1>24. LinksDown(u)
  <2> SUFFICES ASSUME NEW m \in Names, u.up[m] # Null
               PROVE  u.child[u.up[m]][Toward(u.up[m], m)] = m
    BY DEF LinksDown
  <2>1. CASE m = n
    BY <2>1, <1>2, <1>15, <1>16, <1>22, OrderFacts
  <2>2. CASE m = x
    <3>1. u.up[m] = p /\ p # Null
      BY <2>2, <1>3, <1>15
    <3>2. x \in b[n]
      BY <1>4, <1>5
    <3>3. Precedes(q0, x, p)
      BY <3>1, <3>2, <1>13 DEF Shape, Ordered
    <3>4. Toward(p, x) = q0
      BY <3>1, <3>3, <1>2, <1>13, OrderFacts
    <3> QED BY <2>2, <3>1, <3>4, <1>16
  <2>3. CASE m = inner
    <3>1. inner \in b[x] /\ u.up[m] = n
      BY <2>3, <1>2, <1>4, <1>7, <1>15, TreeAssumption
    <3>2. Toward(n, inner) = o
      BY <3>1, <2>3, <1>2, <1>21, OrderFacts
    <3> QED BY <2>3, <3>1, <3>2, <1>16
  <2>4. CASE m \notin {n, x, inner}
    <3> DEFINE w == t.up[m]
               q == Toward(w, m)
    <3>1. u.up[m] = w /\ w # Null
      BY <2>4, <1>15
    <3>2. w \in Names /\ q \in Sides /\ t.child[w][q] = m
      BY <3>1, ParentFacts
    <3>3. <<w, q>> # <<n, o>> /\ <<w, q>> # <<x, s>>
      BY <2>4, <3>2 DEF inner, x, o
    <3>4. <<w, q>> # <<p, q0>>
      BY <2>4, <3>2, <3>1, <1>13
    <3> QED BY <3>1, <3>2, <3>3, <3>4, <1>16
  <2> QED BY <2>1, <2>2, <2>3, <2>4
<1>25. n \in S
  <2>1. Blank[o] = Null
    BY <1>2 DEF Blank
  <2> QED BY <2>1, <1>2 DEF Shape, Dead, x, o
<1>26. b[n] \subseteq S /\ {x, n} \subseteq S /\ (inner # Null => inner \in S)
  <2>1. b[n] \subseteq S
    BY <1>25 DEF Shape, Rooted
  <2> QED BY <2>1, <1>3, <1>4, <1>5
<1>27. Rooted(u, S, d)
  <2>1. S = d[u.root] /\ (u.root # Null => u.up[u.root] = Null)
    <3>1. CASE p = Null
      <4>1. n = t.root
        BY <3>1, <1>25 DEF Shape, Rooted, p
      <4> QED BY <3>1, <4>1, <1>2, <1>3, <1>11, <1>15 DEF Shape, Rooted
    <3>2. CASE p # Null
      <4>1. t.root # Null
        BY <1>1, <1>25 DEF Shape, Rooted
      <4>2. t.up[t.root] = Null /\ S = b[t.root] /\ t.root \in Nodes
        BY <4>1, <1>1, FieldTypes DEF Shape, Rooted
      <4>3. t.root \notin {n, x, inner} /\ t.root \in Names
        BY <3>2, <4>1, <4>2, <1>2, <1>3, <1>4 DEF p, Nodes
      <4> QED BY <3>2, <4>1, <4>2, <4>3, <1>11, <1>15
    <3> QED BY <3>1, <3>2
  <2>2. ASSUME NEW m \in S
        PROVE  d[m] \subseteq S
    <3>1. b[m] \subseteq S /\ m \in Nodes
      BY <1>1 DEF Shape, Rooted, Nodes
    <3>2. low \subseteq S
      BY <1>4, <1>5, <1>26 DEF low
    <3> QED BY <3>1, <3>2, <1>11, <1>26
  <2>3. ASSUME NEW m \in S, u.up[m] = Null
        PROVE  m = u.root
    <3>1. (m # n /\ m # inner) \/ m = x
      BY <2>3, <1>1, <1>2, <1>15
    <3>2. CASE m = x
      BY <2>3, <3>2, <1>1, <1>3, <1>15
    <3>3. CASE m \notin {n, x, inner}
      <4>1. t.up[m] = Null
        BY <2>3, <3>3, <1>1, <1>15
      <4>2. m = t.root
        BY <4>1 DEF Shape, Rooted
      <4>3. p = Null => t.root = n
        BY <1>25 DEF Shape, Rooted, p
      <4> QED BY <3>3, <4>2, <4>3, <1>15
    <3> QED BY <3>1, <3>2, <3>3
  <2> QED BY <2>1, <2>2, <2>3 DEF Rooted
<1>28. Dead(u, S)
  <2> SUFFICES ASSUME NEW m \in Names \ S
               PROVE  u.up[m] = Null /\ u.child[m] = Blank
    BY DEF Dead
  <2>1. t.up[m] = Null /\ t.child[m] = Blank
    BY DEF Shape, Dead
  <2>2. m \notin {n, x, inner}
    BY <1>26, TreeAssumption
  <2>3. m # p
    <3> SUFFICES ASSUME m = p PROVE FALSE
      OBVIOUS
    <3>1. p # Null
      BY TreeAssumption
    <3>2. t.child[p][q0] = n /\ q0 \in Sides
      BY <3>1, <1>13
    <3> QED BY <2>1, <3>2, <1>2 DEF Blank
  <2>4. \A q \in Sides : u.child[m][q] = t.child[m][q]
    BY <2>2, <2>3, <1>16
  <2>5. u.child[m] \in [Sides -> Nodes] /\ t.child[m] \in [Sides -> Nodes]
    BY <1>1, <1>12, FieldTypes
  <2>6. u.child[m] = t.child[m]
    BY <2>4, <2>5
  <2> QED BY <2>1, <2>2, <2>6, <1>15
<1>29. ShapeType(u, S, d)
  BY <1>1, <1>11, <1>12, <1>18 DEF ShapeType
<1>30. Shape(u, S, d)
  BY <1>19, <1>20, <1>23, <1>24, <1>27, <1>28, <1>29 DEF Shape
<1> QED BY <1>30 DEF u

-----------------------------------------------------------------------------

(* Two trees that differ in their colours at most.                         *)
SameLinks(u, t) ==
    u \in Trees /\ u.root = t.root /\ u.up = t.up /\ u.child = t.child

(* Colours are no part of the shape.                                       *)
LEMMA SameLinksShape ==
  ASSUME NEW t, NEW u, NEW S, NEW b, Shape(t, S, b), SameLinks(u, t)
  PROVE  Shape(u, S, b)
  BY DEF Shape, ShapeType, Unfolds, LinksBack, Ordered, LinksDown, Rooted, Dead,
         SameLinks

(* SameLinks is transitive.                                                *)
LEMMA SameLinksTwice ==
  ASSUME NEW t, NEW u, NEW v, SameLinks(v, u), SameLinks(u, t)
  PROVE  SameLinks(v, t)
BY DEF SameLinks

(* A flip changes the colours of one node.                                 *)
LEMMA FlipLinks ==
  ASSUME NEW t \in Trees, NEW n \in Names, NEW s \in Sides
  PROVE  /\ SameLinks(Flip(t, n, s), t)
         /\ \A m \in Names : Flip(t, n, s).red[m] =
                IF m = n THEN Flipped(t.red[n], s) ELSE t.red[m]
  BY FlipFields DEF SameLinks, RedSet

(* So does setting both colours.                                           *)
LEMMA PaintLinks ==
  ASSUME NEW t \in Trees, NEW n \in Names, NEW sides \in SUBSET Sides
  PROVE  /\ SameLinks(Paint(t, n, sides), t)
         /\ \A m \in Names :
                Paint(t, n, sides).red[m] = IF m = n THEN sides ELSE t.red[m]
  BY PaintFields DEF SameLinks, RedSet

(* What one rotation, of p with its child n on side s, does to the         *)
(* children.                                                               *)
Pivot(u, t, p, s, n) ==
    /\ u \in Trees
    /\ u.child[p][s] = t.child[n][Other(s)]
    /\ u.child[p][Other(s)] = t.child[p][Other(s)]
    /\ u.child[n][Other(s)] = p /\ u.child[n][s] = t.child[n][s]
    /\ \A m \in Names, q \in Sides : m \notin {p, n} =>
           u.child[m][q] = IF t.child[m][q] = p THEN n ELSE t.child[m][q]

(* A rotation does that.                                                   *)
LEMMA RotatePivot ==
  ASSUME NEW t, NEW S, NEW b, Shape(t, S, b), NEW p \in Names, NEW s \in Sides,
         NEW n \in Names, n = t.child[p][s]
  PROVE  Pivot(Rotate(t, p, Other(s)), t, p, s, n) /\ Rotate(t, p, Other(s)).red = t.red
<1> DEFINE o == Other(s)
           u == Rotate(t, p, o)
           inner == t.child[n][o]
           g == t.up[p]
<1>1. t \in Trees /\ o \in Sides /\ Other(o) = s /\ o # s
  BY SideFacts DEF Shape, ShapeType
<1>2. Rotated(u, t, p, o, n, inner, g)
  BY <1>1, RotateFields
<1>3. n # p /\ t.up[n] = p /\ g # p
  BY ChildFacts, TreeAssumption
<1>4. g # n
  <2> SUFFICES ASSUME g = n PROVE FALSE
    OBVIOUS
  <2>1. t.child[n][Toward(n, p)] = p /\ Toward(n, p) \in Sides
    BY ParentFacts, TreeAssumption
  <2>2. b[p] \subseteq b[n] /\ b[n] \subseteq b[p] /\ p \in b[p]
    BY <2>1, ChildFacts
  <2>3. p \notin b[n]
    BY ChildFacts
  <2> QED BY <2>2, <2>3
<1>5. \A m \in Names, q \in Sides :
         t.child[m][q] = p <=> m = g /\ q = SideOf(t, m, p)
  <2> SUFFICES ASSUME NEW m \in Names, NEW q \in Sides
               PROVE  t.child[m][q] = p <=> m = g /\ q = SideOf(t, m, p)
    OBVIOUS
  <2>1. ASSUME t.child[m][q] = p
        PROVE  m = g /\ q = SideOf(t, m, p)
    <3>1. m = g
      BY <2>1, ChildFacts, TreeAssumption
    <3>2. g # Null
      BY <3>1, TreeAssumption
    <3> QED BY <2>1, <3>1, <3>2, ParentFacts
  <2>2. ASSUME m = g, q = SideOf(t, m, p)
        PROVE  t.child[m][q] = p
    BY <2>2, ParentFacts, TreeAssumption
  <2> QED BY <2>1, <2>2
<1>6. /\ u \in Trees /\ u.red = t.red
      /\ \A m \in Names, q \in Sides :
            u.child[m][q] = IF m = p /\ q = s THEN inner
                            ELSE IF m = n /\ q = o THEN p
                            ELSE IF m = g /\ q = SideOf(t, m, p) THEN n
                            ELSE t.child[m][q]
  BY <1>1, <1>2 DEF Rotated
<1> HIDE DEF u, o, g, inner
<1>7. /\ u.child[p][s] = inner /\ u.child[p][o] = t.child[p][o]
      /\ u.child[n][o] = p /\ u.child[n][s] = t.child[n][s]
  BY <1>1, <1>3, <1>4, <1>6
<1>8. \A m \in Names, q \in Sides : m \notin {p, n} =>
           u.child[m][q] = IF t.child[m][q] = p THEN n ELSE t.child[m][q]
  BY <1>5, <1>6
<1> QED BY <1>6, <1>7, <1>8 DEF Pivot, u, o, inner

(* What two rotations do to the children: of n, the child of p on side s,  *)
(* with its child c on the other side, and of p with c.                    *)
DoublePivot(u, t, p, s, n, c) ==
    /\ u \in Trees
    /\ u.child[p][s] = t.child[c][Other(s)]
    /\ u.child[p][Other(s)] = t.child[p][Other(s)]
    /\ u.child[n][s] = t.child[n][s] /\ u.child[n][Other(s)] = t.child[c][s]
    /\ u.child[c][s] = n /\ u.child[c][Other(s)] = p
    /\ \A m \in Names, q \in Sides : m \notin {p, n, c} =>
           u.child[m][q] = IF t.child[m][q] = p THEN c ELSE t.child[m][q]

(* Two rotations do that and keep the shape, whatever is painted in        *)
(* between.                                                                *)
LEMMA RotateTwice ==
  ASSUME NEW t, NEW S, NEW b, Shape(t, S, b), NEW p \in Names, NEW s \in Sides,
         NEW n \in Names, n = t.child[p][s],
         NEW c \in Names, c = t.child[n][Other(s)],
         NEW v, SameLinks(v, Rotate(t, n, s))
  PROVE  /\ DoublePivot(Rotate(v, p, Other(s)), t, p, s, n, c)
         /\ Rotate(v, p, Other(s)).red = v.red
         /\ \E d : Shape(Rotate(v, p, Other(s)), S, d)
<1> DEFINE o == Other(s)
           w == Rotate(t, n, s)
           u == Rotate(v, p, o)
<1>1. o \in Sides /\ Other(o) = s /\ o # s
  BY SideFacts
<1>2. Pivot(w, t, n, o, c)
  BY <1>1, RotatePivot
<1>3. PICK d : Shape(w, S, d)
  BY <1>1, RotateShape
<1>4. Shape(v, S, d) /\ v.child = w.child
  BY <1>3, SameLinksShape DEF SameLinks
<1>5. n # p /\ c # n /\ c # p /\ t.child[p][o] # n
  <2>1. n # p /\ n \in b[n] /\ p \notin b[n] /\ t.up[n] = p /\ Toward(p, n) = s
    BY ChildFacts, TreeAssumption
  <2>2. c # n /\ c \in b[n]
    BY <1>1, ChildFacts, TreeAssumption
  <2>3. t.child[p][o] # Null => Toward(p, t.child[p][o]) = o
    BY <1>1, ChildFacts
  <2>4. n # Null
    BY TreeAssumption
  <2> QED BY <1>1, <2>1, <2>2, <2>3, <2>4
<1> HIDE DEF u, w, o
<1>6. /\ w.child[n][o] = t.child[c][s] /\ w.child[n][s] = t.child[n][s]
      /\ w.child[c][s] = n /\ w.child[c][o] = t.child[c][o]
      /\ \A m \in Names, q \in Sides : m \notin {n, c} =>
           w.child[m][q] = IF t.child[m][q] = n THEN c ELSE t.child[m][q]
  <2>1. /\ w.child[n][o] = t.child[c][Other(o)]
        /\ w.child[n][Other(o)] = t.child[n][Other(o)]
        /\ w.child[c][Other(o)] = n /\ w.child[c][o] = t.child[c][o]
    BY <1>2, Zenon DEF Pivot
  <2>2. \A m \in Names, q \in Sides : m \notin {n, c} =>
           w.child[m][q] = IF t.child[m][q] = n THEN c ELSE t.child[m][q]
    BY <1>2, Zenon DEF Pivot
  <2> QED BY <1>1, <2>1, <2>2, Zenon
<1>7. v.child[p][s] = c /\ v.child[p][o] = t.child[p][o]
  <2>1. p \notin {n, c} /\ p \in Names /\ s \in Sides /\ o \in Sides
    BY <1>1, <1>5
  <2>2. \A q \in Sides : w.child[p][q] = IF t.child[p][q] = n THEN c ELSE t.child[p][q]
    BY <1>6, <2>1, Zenon
  <2>3. w.child[p][s] = c /\ w.child[p][o] = t.child[p][o]
    BY <1>5, <2>1, <2>2, Zenon
  <2> QED BY <1>4, <2>3, Zenon
<1>8. Pivot(u, v, p, s, c) /\ u.red = v.red
  BY <1>4, <1>7, RotatePivot DEF u, o
<1>9. \E e : Shape(u, S, e)
  BY <1>1, <1>4, <1>7, RotateShape DEF u
<1>10. \A m \in Names, q \in Sides : m \notin {p, n, c} => t.child[m][q] # n
  BY ChildFacts, TreeAssumption
<1>11. DoublePivot(u, t, p, s, n, c)
  <2>1. /\ u \in Trees /\ u.child[p][s] = v.child[c][o] /\ u.child[p][o] = v.child[p][o]
        /\ u.child[c][o] = p /\ u.child[c][s] = v.child[c][s]
        /\ \A m \in Names, q \in Sides : m \notin {p, c} =>
             u.child[m][q] = IF v.child[m][q] = p THEN c ELSE v.child[m][q]
    BY <1>8, Zenon DEF Pivot, o
  <2>2. t.child[n][s] # p /\ t.child[c][s] # p
    <3>1. \A m \in Names, q \in Sides : t.child[m][q] = p => t.up[p] = m
      BY ChildFacts, TreeAssumption
    <3>2. p \notin b[n] /\ b[c] \subseteq b[n] /\ t.child[n][s] \in Nodes
      BY <1>1, ChildFacts DEF o
    <3>3. \A m \in Names, q \in Sides : t.child[m][q] = p => p \in b[m]
      BY ChildFacts, TreeAssumption
    <3> QED BY <3>2, <3>3
  <2>3. u.child[n][s] = t.child[n][s] /\ u.child[n][o] = t.child[c][s]
    <3>1. v.child[n][s] = t.child[n][s] /\ v.child[n][o] = t.child[c][s]
      BY <1>4, <1>6
    <3>2. n \in Names /\ n \notin {p, c} /\ s \in Sides /\ o \in Sides
      BY <1>1, <1>5
    <3> QED BY <2>1, <2>2, <3>1, <3>2, Zenon
  <2>4. \A m \in Names, q \in Sides : m \notin {p, n, c} =>
           u.child[m][q] = IF t.child[m][q] = p THEN c ELSE t.child[m][q]
    <3> SUFFICES ASSUME NEW m \in Names, NEW q \in Sides, m \notin {p, n, c}
                 PROVE  u.child[m][q] = IF t.child[m][q] = p THEN c ELSE t.child[m][q]
      BY Zenon
    <3>1. v.child[m][q] = t.child[m][q]
      <4>1. t.child[m][q] # n /\ m \notin {n, c}
        BY <1>10, Zenon
      <4> QED BY <4>1, <1>4, <1>6, ZenonT(40)
    <3>2. m \notin {p, c}
      BY Zenon
    <3>3. u.child[m][q] = IF v.child[m][q] = p THEN c ELSE v.child[m][q]
      BY <2>1, <3>2, Zenon
    <3> QED BY <3>1, <3>3, Zenon
  <2> QED BY <2>1, <2>3, <2>4, <1>4, <1>6, <1>7 DEF DoublePivot, o
<1>12. u.red = v.red
  BY <1>8 DEF Pivot
<1> QED BY <1>9, <1>11, <1>12 DEF u, o

-----------------------------------------------------------------------------

(* The difference of rank on an edge.                                      *)
Diff(t, n, s) == IF s \in t.red[n] THEN 2 ELSE 1

(* A difference k that is left to restore, on side s of p.                 *)
Gap(m, q, p, s, k) == IF m = p /\ q = s THEN k ELSE 0

(* Ranks: a null pointer has -1.                                           *)
RankType(r) == r \in [Nodes -> Int] /\ r[Null] = -1 /\ \A n \in Names : r[n] >= 0

(* The ranks r agree with the colours, but for a difference of k on side s *)
(* of p.                                                                   *)
Balance(t, r, p, s, k) ==
    /\ RankType(r)
    /\ \A m \in Names, q \in Sides :
           r[m] = r[t.child[m][q]] + Diff(t, m, q) + Gap(m, q, p, s, k)

(* A leaf has no red edge.                                                 *)
LeafRule(t) == \A n \in Names : t.child[n] = Blank => t.red[n] = {}

(* What is below a node whose rank has just gone up: a leaf, or a node     *)
(* with one red edge...                                                    *)
OnePlus(t, c) == t.child[c] = Blank \/ \E q \in Sides : t.red[c] = {q}

(* ... and the node itself: a new leaf, or one whose red edge is not on    *)
(* the side the rank has come from.                                        *)
Lifted(t, n) ==
    \/ t.child[n] = Blank
    \/ \E q \in Sides : /\ t.red[n] = {Other(q)} /\ t.child[n][q] # Null
                        /\ OnePlus(t, t.child[n][q])

(* No rank is left to restore.                                             *)
Even(t, r) == LeafRule(t) /\ Balance(t, r, Null, "left", 0)

(* The rank of n has gone up by one, and its parent does not know.         *)
Raising(t, r, n) ==
    /\ n \in Names /\ Lifted(t, n) /\ LeafRule(t)
    /\ Balance(t, r, t.up[n], Toward(t.up[n], n), -1)

(* A node is the child of its parent on the side the order says, and of no *)
(* other node.                                                             *)
LEMMA ParentOnly ==
  ASSUME NEW t, NEW S, NEW b, Shape(t, S, b), NEW n \in Names, NEW m \in Names,
         NEW q \in Sides
  PROVE  t.child[m][q] = n <=> m = t.up[n] /\ q = Toward(m, n)
<1>1. ASSUME t.child[m][q] = n
      PROVE  m = t.up[n] /\ q = Toward(m, n)
  BY <1>1, ChildFacts, TreeAssumption
<1>2. ASSUME m = t.up[n], q = Toward(m, n)
      PROVE  t.child[m][q] = n
  <2>1. t.up[n] # Null
    BY <1>2, TreeAssumption
  <2> QED BY <1>2, <2>1, ParentFacts
<1> QED BY <1>1, <1>2

(* A node has no links to children if both are null.                       *)
LEMMA BlankFacts ==
  ASSUME NEW t \in Trees, NEW n \in Names
  PROVE  t.child[n] = Blank <=> \A q \in Sides : t.child[n][q] = Null
BY FieldTypes DEF Blank

(* A difference on an edge there is not, or of 0, is none.                 *)
LEMMA NoGap ==
  ASSUME NEW t, NEW r, NEW p, NEW s, NEW k
  PROVE  /\ Balance(t, r, Null, s, k) => Balance(t, r, Null, "left", 0)
         /\ Balance(t, r, p, s, 0) => Balance(t, r, Null, "left", 0)
BY TreeAssumption DEF Balance, Gap

(* The colours outside C are the same.                                     *)
RedKept(u, t, C) == \A m \in Names \ C : u.red[m] = t.red[m]

(* What a rebalancing has not touched stays balanced: C has been           *)
(* rearranged below its top p, and is below top now; ranks outside are the *)
(* same.                                                                   *)
Kept(u, t, r, w, C, p, top) ==
    /\ w[top] = r[p] /\ \A m \in Nodes \ C : w[m] = r[m]
    /\ \A m \in Names \ C, q \in Sides :
            /\ t.child[m][q] \in C => t.child[m][q] = p
            /\ u.child[m][q] = IF t.child[m][q] = p THEN top ELSE t.child[m][q]

(* Ranks and colours agree in C.                                           *)
Fits(u, w, C) ==
    \A m \in C : /\ \A q \in Sides : w[m] = w[u.child[m][q]] + Diff(u, m, q)
                 /\ u.child[m] = Blank => u.red[m] = {}

(* If so, and if the ranks of C are right, all are.                        *)
LEMMA Outside ==
  ASSUME NEW t \in Trees, NEW u \in Trees, NEW r, NEW w, NEW g, NEW s, NEW k,
         NEW C \in SUBSET Names, NEW p \in C, NEW top \in C, g \in C,
         Balance(t, r, g, s, k), LeafRule(t), RankType(w),
         RedKept(u, t, C), Kept(u, t, r, w, C, p, top), Fits(u, w, C)
  PROVE  Even(u, w)
<1>1. ASSUME NEW m \in Names \ C
      PROVE  /\ \A q \in Sides : w[m] = w[u.child[m][q]] + Diff(u, m, q)
             /\ u.child[m] = Blank => u.red[m] = {}
  <2>1. \A q \in Sides : w[u.child[m][q]] = r[t.child[m][q]]
    <3> SUFFICES ASSUME NEW q \in Sides PROVE w[u.child[m][q]] = r[t.child[m][q]]
      OBVIOUS
    <3>1. CASE t.child[m][q] = p
      BY <3>1 DEF Kept
    <3>2. CASE t.child[m][q] # p
      <4>1. t.child[m][q] \in Nodes \ C
        BY <3>2, FieldTypes DEF Kept
      <4> QED BY <3>2, <4>1 DEF Kept
    <3> QED BY <3>1, <3>2
  <2>2. \A q \in Sides : w[m] = w[u.child[m][q]] + Diff(u, m, q)
    <3> SUFFICES ASSUME NEW q \in Sides PROVE w[m] = w[u.child[m][q]] + Diff(u, m, q)
      OBVIOUS
    <3>1. w[m] = r[m] /\ u.red[m] = t.red[m]
      BY DEF Nodes, Kept, RedKept
    <3>2. r[m] = r[t.child[m][q]] + Diff(t, m, q)
      <4>1. r[t.child[m][q]] \in Int /\ Diff(t, m, q) \in Int
        BY FieldTypes DEF Balance, RankType, Diff
      <4>2. Gap(m, q, g, s, k) = 0
        BY DEF Gap
      <4>3. r[m] = r[t.child[m][q]] + Diff(t, m, q) + Gap(m, q, g, s, k)
        BY DEF Balance
      <4> QED BY <4>1, <4>2, <4>3
    <3> QED BY <2>1, <3>1, <3>2 DEF Diff
  <2>3. u.child[m] = Blank => t.child[m] = Blank
    <3>1. top # Null
      BY TreeAssumption
    <3> QED BY <3>1, BlankFacts DEF Kept
  <2> QED BY <2>2, <2>3 DEF LeafRule, RedKept
<1>2. LeafRule(u)
  BY <1>1 DEF LeafRule, Fits
<1>3. Balance(u, w, Null, "left", 0)
  <2> SUFFICES ASSUME NEW m \in Names, NEW q \in Sides
               PROVE  w[m] = w[u.child[m][q]] + Diff(u, m, q)
                               + Gap(m, q, Null, "left", 0)
    BY DEF Balance
  <2>1. w[m] = w[u.child[m][q]] + Diff(u, m, q)
    BY <1>1 DEF Fits
  <2>2. w[m] \in Int /\ w[u.child[m][q]] \in Int
    BY FieldTypes DEF RankType, Nodes
  <2> QED BY <2>1, <2>2 DEF Gap, Diff
<1> QED BY <1>2, <1>3 DEF Even

(* A rotation is the same whatever the colours are.                        *)
LEMMA PivotSame ==
  ASSUME NEW t, NEW v, NEW w, NEW u, NEW p, NEW s, NEW n, SameLinks(v, t),
         SameLinks(u, w)
  PROVE  Pivot(w, v, p, s, n) => Pivot(u, t, p, s, n)
BY DEF SameLinks, Pivot

(* So are two.                                                             *)
LEMMA DoubleSame ==
  ASSUME NEW t, NEW v, NEW w, NEW u, NEW p, NEW s, NEW n, NEW c,
         SameLinks(v, t), SameLinks(u, w)
  PROVE  DoublePivot(w, v, p, s, n, c) => DoublePivot(u, t, p, s, n, c)
BY DEF SameLinks, DoublePivot

(* The colours and the rank x that go with a rotation of p with n, if the  *)
(* gap is at p or n.                                                       *)
SingleFits(u, t, r, p, s, n, x) ==
    /\ x \in Nat
    /\ x = r[t.child[n][Other(s)]] + Diff(u, p, s)
    /\ x = r[t.child[p][Other(s)]] + Diff(u, p, Other(s))
    /\ r[p] = r[t.child[n][s]] + Diff(u, n, s)
    /\ r[p] = x + Diff(u, n, Other(s))
    /\ t.child[n][Other(s)] = Null /\ t.child[p][Other(s)] = Null => u.red[p] = {}

(* With these the rotation restores all ranks.                             *)
LEMMA SingleRanks ==
  ASSUME NEW t, NEW S, NEW b, Shape(t, S, b), NEW p \in Names, NEW s \in Sides,
         t.child[p][s] \in Names, NEW n, n = t.child[p][s],
         NEW u, Pivot(u, t, p, s, n), RedKept(u, t, {p, n}),
         NEW r, NEW g \in {p, n}, NEW gs, NEW k, Balance(t, r, g, gs, k), LeafRule(t),
         NEW x, SingleFits(u, t, r, p, s, n, x)
  PROVE  \E w : Even(u, w)
<1> DEFINE o == Other(s)
           C == {p, n}
           w == [m \in Nodes |-> IF m = p THEN x ELSE IF m = n THEN r[p] ELSE r[m]]
           a == t.child[n][o]
           e == t.child[p][o]
           f == t.child[n][s]
<1>1. o \in Sides /\ Other(o) = s /\ o # s /\ \A q \in Sides : q = s \/ q = o
  BY SideFacts
<1>6. n # p /\ t.up[n] = p /\ t \in Trees /\ p # Null /\ n # Null /\ n \in Names
  <2>1. p # Null /\ n # Null
    BY TreeAssumption
  <2>2. t \in Trees
    BY DEF Shape, ShapeType
  <2> QED BY <2>1, <2>2, ChildFacts
<1>7. a \in Nodes \ C /\ e \in Nodes \ C /\ f \in Nodes \ C
  <2>1. a # p /\ f # p
    <3>1. \A q \in Sides : t.child[n][q] = p => b[p] \subseteq b[n]
      BY ChildFacts, <1>6
    <3>2. p \notin b[n] /\ p \in b[p]
      BY ChildFacts
    <3> QED BY <1>1, <3>1, <3>2
  <2>2. a # n /\ f # n /\ e # p /\ a \in Nodes /\ e \in Nodes /\ f \in Nodes
    BY <1>1, <1>6, ChildFacts
  <2>3. e # n
    BY <1>1, <1>6, ParentOnly
  <2> QED BY <2>1, <2>2, <2>3
<1>8. RankType(r)
  BY DEF Balance
<1>9. w[p] = x /\ w[n] = r[p] /\ \A m \in Nodes \ C : w[m] = r[m]
  <2>1. p \in Nodes /\ n \in Nodes
    BY <1>6 DEF Nodes
  <2> HIDE DEF o, a, e, f
  <2> QED BY <2>1, <1>6, Zenon
<1> SUFFICES Even(u, w)
  BY Zenon
<1>10. RankType(w)
  <2>1. \A m \in Nodes : r[m] \in Int
    BY <1>8 DEF RankType
  <2>2. Null \in Nodes \ C /\ p \in Nodes
    BY <1>6 DEF Nodes
  <2>3. r[p] \in Int /\ r[p] >= 0 /\ r[Null] = -1
    BY <1>8 DEF RankType, Nodes
  <2>4. x \in Int /\ x >= 0
    BY DEF SingleFits
  <2>5. w \in [Nodes -> Int]
    BY <2>1, <2>3, <2>4, Zenon
  <2> HIDE DEF w
  <2>6. ASSUME NEW m \in Names PROVE w[m] >= 0
    <3>1. CASE m \in C
      BY <3>1, <1>9, <2>3, <2>4, Zenon
    <3>2. CASE m \notin C
      <4>1. w[m] = r[m]
        BY <3>2, <1>9, Zenon DEF Nodes
      <4> QED BY <4>1, <1>8, Zenon DEF RankType
    <3> QED BY <3>1, <3>2
  <2> QED BY <2>2, <2>3, <2>5, <2>6, <1>9, Zenon DEF RankType
<1> HIDE DEF w
<1>11. Kept(u, t, r, w, C, p, n)
  <2>1. ASSUME NEW m \in Names \ C, NEW q \in Sides
        PROVE  /\ t.child[m][q] \in C => t.child[m][q] = p
               /\ u.child[m][q] = IF t.child[m][q] = p THEN n ELSE t.child[m][q]
    <3>1. t.child[m][q] # n
      BY <1>6, ParentOnly
    <3>2. u.child[m][q] = IF t.child[m][q] = p THEN n ELSE t.child[m][q]
      BY Zenon DEF Pivot
    <3> QED BY <3>1, <3>2
  <2> QED BY <2>1, <1>9, Zenon DEF Kept
<1>12. Fits(u, w, C)
  <2>1. w[a] = r[a] /\ w[e] = r[e] /\ w[f] = r[f]
    BY <1>7, <1>9, Zenon
  <2>2. /\ u.child[p][s] = a /\ u.child[p][o] = e
        /\ u.child[n][o] = p /\ u.child[n][s] = f
    BY Zenon DEF Pivot
  <2>3. /\ x = r[a] + Diff(u, p, s) /\ x = r[e] + Diff(u, p, o)
        /\ r[p] = r[f] + Diff(u, n, s) /\ r[p] = x + Diff(u, n, o)
        /\ a = Null /\ e = Null => u.red[p] = {}
    BY Zenon DEF SingleFits
  <2> HIDE DEF a, e, f, o
  <2>4. /\ w[p] = w[u.child[p][s]] + Diff(u, p, s)
        /\ w[p] = w[u.child[p][o]] + Diff(u, p, o)
    BY <2>1, <2>2, <2>3, <1>9, Zenon
  <2>5. /\ w[n] = w[u.child[n][s]] + Diff(u, n, s)
        /\ w[n] = w[u.child[n][o]] + Diff(u, n, o)
    BY <2>1, <2>2, <2>3, <1>9, Zenon
  <2>6. u \in Trees
    BY Zenon DEF Pivot
  <2>7. u.child[p] = Blank => u.red[p] = {}
    BY <2>2, <2>3, <2>6, <1>1, BlankFacts
  <2>8. u.child[n] # Blank
    BY <2>2, <2>6, <1>1, <1>6, BlankFacts
  <2>9. \A m \in C : m = p \/ m = n
    OBVIOUS
  <2> QED BY <2>4, <2>5, <2>7, <2>8, <2>9, <1>1, Zenon DEF Fits
<1>13. u \in Trees /\ C \in SUBSET Names /\ p \in C /\ n \in C /\ g \in C
  BY <1>6, Zenon DEF Pivot
<1> HIDE DEF C
<1> QED BY <1>6, <1>10, <1>11, <1>12, <1>13, Outside, Zenon DEF C

(* The colours and the rank x that go with two rotations.                  *)
DoubleFits(u, t, r, p, s, n, c, x) ==
    /\ x \in Nat
    /\ x = r[t.child[n][s]] + Diff(u, n, s)
    /\ x = r[t.child[c][s]] + Diff(u, n, Other(s))
    /\ x = r[t.child[c][Other(s)]] + Diff(u, p, s)
    /\ x = r[t.child[p][Other(s)]] + Diff(u, p, Other(s))
    /\ r[p] = x + Diff(u, c, s) /\ r[p] = x + Diff(u, c, Other(s))
    /\ t.child[n][s] = Null /\ t.child[c][s] = Null => u.red[n] = {}
    /\ t.child[c][Other(s)] = Null /\ t.child[p][Other(s)] = Null => u.red[p] = {}

(* The nodes of a double rotation.                                         *)
Twice(t, p, s, n, c) ==
    /\ n = t.child[p][s] /\ n \in Names /\ c = t.child[n][Other(s)] /\ c \in Names

(* They are different, and linked to each other only as it seems.          *)
TwiceFacts(t, p, s, n, c) ==
    /\ n # p /\ c # n /\ c # p
    /\ \A m \in Names, q \in Sides :
          /\ t.child[m][q] = n => m = p /\ q = s
          /\ t.child[m][q] = c => m = n /\ q = Other(s)
    /\ \A q \in Sides : t.child[n][q] # p /\ t.child[c][q] # p

(* So they are in a tree with its shape.                                   *)
LEMMA TwiceLinks ==
  ASSUME NEW t, NEW S, NEW b, Shape(t, S, b), NEW p \in Names, NEW s \in Sides,
         NEW n, NEW c, Twice(t, p, s, n, c)
  PROVE  TwiceFacts(t, p, s, n, c)
<1> DEFINE o == Other(s)
<1>1. o \in Sides /\ Other(o) = s /\ o # s /\ \A q \in Sides : q = s \/ q = o
  BY SideFacts
<1> HIDE DEF o
<1>2. n \in Names /\ c \in Names /\ p # Null /\ n # Null /\ c # Null
  BY TreeAssumption DEF Twice
<1>3. t.child[p][s] = n /\ t.child[n][o] = c
  BY Zenon DEF Twice, o
<1>4. t.up[n] = p /\ n # p /\ p \notin b[n] /\ Toward(p, n) = s
  BY <1>2, <1>3, ChildFacts
<1>5. t.up[c] = n /\ c # n /\ c \in b[n] /\ b[c] \subseteq b[n] /\ Toward(n, c) = o
  BY <1>1, <1>2, <1>3, ChildFacts
<1>6. \A m \in Names, q \in Sides :
         /\ t.child[m][q] = n => m = p /\ q = s
         /\ t.child[m][q] = c => m = n /\ q = o
  <2> SUFFICES ASSUME NEW m \in Names, NEW q \in Sides
               PROVE  /\ t.child[m][q] = n => m = p /\ q = s
                      /\ t.child[m][q] = c => m = n /\ q = o
    BY Zenon
  <2>1. t.child[m][q] = n <=> m = t.up[n] /\ q = Toward(m, n)
    BY <1>2, ParentOnly
  <2>2. t.child[m][q] = c <=> m = t.up[c] /\ q = Toward(m, c)
    BY <1>2, ParentOnly
  <2> QED BY <2>1, <2>2, <1>4, <1>5, Zenon
<1>7. \A m \in Names, q \in Sides : t.child[m][q] = p => p \in b[m]
  BY <1>2, ChildFacts
<1>8. \A q \in Sides : t.child[n][q] # p /\ t.child[c][q] # p
  BY <1>2, <1>4, <1>5, <1>7
<1> QED
  BY <1>1, <1>4, <1>5, <1>6, <1>8, Zenon DEF o, TwiceFacts

(* With these colours two rotations restore all ranks.                     *)
LEMMA DoubleRanks ==
  ASSUME NEW t, NEW S, NEW b, Shape(t, S, b), NEW p \in Names, NEW s \in Sides,
         NEW n, NEW c, Twice(t, p, s, n, c),
         NEW u, DoublePivot(u, t, p, s, n, c), RedKept(u, t, {p, n, c}),
         NEW r, NEW g \in {p, n, c}, NEW gs, NEW k, Balance(t, r, g, gs, k),
         LeafRule(t),
         NEW x, DoubleFits(u, t, r, p, s, n, c, x)
  PROVE  \E w : Even(u, w)
<1> DEFINE o == Other(s)
           C == {p, n, c}
           w == [m \in Nodes |-> IF m = p \/ m = n THEN x
                                 ELSE IF m = c THEN r[p] ELSE r[m]]
           a == t.child[n][s]
           d == t.child[c][s]
           e == t.child[c][o]
           f == t.child[p][o]
<1>1. o \in Sides /\ Other(o) = s /\ o # s /\ \A q \in Sides : q = s \/ q = o
  BY SideFacts
<1>2. n \in Names /\ c \in Names /\ p # Null /\ n # Null /\ c # Null /\ t \in Trees
  BY TreeAssumption DEF Twice, Shape, ShapeType
<1>3. TwiceFacts(t, p, s, n, c)
  BY TwiceLinks
<1>4. n # p /\ c # n /\ c # p
  BY <1>3, Zenon DEF TwiceFacts
<1>5. \A m \in Names, q \in Sides :
         /\ t.child[m][q] = n => m = p /\ q = s
         /\ t.child[m][q] = c => m = n /\ q = o
  BY <1>3, Zenon DEF TwiceFacts
<1>6. \A q \in Sides : t.child[n][q] # p /\ t.child[c][q] # p
  BY <1>3, Zenon DEF TwiceFacts
<1>7. a \in Nodes \ C /\ d \in Nodes \ C /\ e \in Nodes \ C /\ f \in Nodes \ C
  <2>1. a \in Nodes /\ d \in Nodes /\ e \in Nodes /\ f \in Nodes /\ f # p
    BY <1>1, <1>2, ChildFacts
  <2>2. a # p /\ d # p /\ e # p
    BY <1>6, <1>1, Zenon
  <2>3. a # n /\ d # n /\ e # n /\ f # n
    BY <1>1, <1>2, <1>4, <1>5, Zenon
  <2>4. a # c /\ d # c /\ e # c /\ f # c
    BY <1>1, <1>2, <1>4, <1>5, Zenon
  <2> HIDE DEF a, d, e, f
  <2> QED BY <2>1, <2>2, <2>3, <2>4, Zenon
<1>8. RankType(r)
  BY DEF Balance
<1>9. w[p] = x /\ w[n] = x /\ w[c] = r[p] /\ \A m \in Nodes \ C : w[m] = r[m]
  <2>1. p \in Nodes /\ n \in Nodes /\ c \in Nodes
    BY <1>2 DEF Nodes
  <2> HIDE DEF o, a, d, e, f
  <2> QED BY <2>1, <1>4, Zenon
<1> SUFFICES Even(u, w)
  BY Zenon
<1>10. RankType(w)
  <2>1. \A m \in Nodes : r[m] \in Int
    BY <1>8 DEF RankType
  <2>2. Null \in Nodes \ C /\ p \in Nodes
    BY <1>2 DEF Nodes
  <2>3. r[p] \in Int /\ r[p] >= 0 /\ r[Null] = -1
    BY <1>8 DEF RankType, Nodes
  <2>4. x \in Int /\ x >= 0
    <3>1. x \in Nat
      BY Zenon DEF DoubleFits
    <3> QED BY <3>1
  <2>5. w \in [Nodes -> Int]
    BY <2>1, <2>3, <2>4, Zenon
  <2> HIDE DEF w
  <2>6. ASSUME NEW m \in Names PROVE w[m] >= 0
    <3>1. CASE m \in C
      BY <3>1, <1>9, <2>3, <2>4, Zenon
    <3>2. CASE m \notin C
      <4>1. w[m] = r[m]
        BY <3>2, <1>9, Zenon DEF Nodes
      <4> QED BY <4>1, <1>8, Zenon DEF RankType
    <3> QED BY <3>1, <3>2
  <2> QED BY <2>2, <2>3, <2>5, <2>6, <1>9, Zenon DEF RankType
<1> HIDE DEF w
<1>11. Kept(u, t, r, w, C, p, c)
  <2>1. ASSUME NEW m \in Names \ C, NEW q \in Sides
        PROVE  /\ t.child[m][q] \in C => t.child[m][q] = p
               /\ u.child[m][q] = IF t.child[m][q] = p THEN c ELSE t.child[m][q]
    <3>1. t.child[m][q] # n /\ t.child[m][q] # c
      BY <1>5
    <3>2. u.child[m][q] = IF t.child[m][q] = p THEN c ELSE t.child[m][q]
      BY Zenon DEF DoublePivot
    <3> QED BY <3>1, <3>2
  <2> QED BY <2>1, <1>9, Zenon DEF Kept
<1>12. Fits(u, w, C)
  <2>1. w[a] = r[a] /\ w[d] = r[d] /\ w[e] = r[e] /\ w[f] = r[f]
    BY <1>7, <1>9, Zenon
  <2>2. /\ u.child[p][s] = e /\ u.child[p][o] = f
        /\ u.child[n][s] = a /\ u.child[n][o] = d
        /\ u.child[c][s] = n /\ u.child[c][o] = p
    BY Zenon DEF DoublePivot
  <2>3. /\ x = r[a] + Diff(u, n, s) /\ x = r[d] + Diff(u, n, o)
        /\ x = r[e] + Diff(u, p, s) /\ x = r[f] + Diff(u, p, o)
        /\ r[p] = x + Diff(u, c, s) /\ r[p] = x + Diff(u, c, o)
        /\ a = Null /\ d = Null => u.red[n] = {}
        /\ e = Null /\ f = Null => u.red[p] = {}
    BY Zenon DEF DoubleFits
  <2> HIDE DEF a, d, e, f, o
  <2>4. /\ w[p] = w[u.child[p][s]] + Diff(u, p, s)
        /\ w[p] = w[u.child[p][o]] + Diff(u, p, o)
    BY <2>1, <2>2, <2>3, <1>9, Zenon
  <2>5. /\ w[n] = w[u.child[n][s]] + Diff(u, n, s)
        /\ w[n] = w[u.child[n][o]] + Diff(u, n, o)
    BY <2>1, <2>2, <2>3, <1>9, Zenon
  <2>a. /\ w[c] = w[u.child[c][s]] + Diff(u, c, s)
        /\ w[c] = w[u.child[c][o]] + Diff(u, c, o)
    BY <2>1, <2>2, <2>3, <1>9, Zenon
  <2>6. u \in Trees
    BY Zenon DEF DoublePivot
  <2>7. u.child[p] = Blank => u.red[p] = {}
    <3>1. u.child[p] = Blank => u.child[p][s] = Null /\ u.child[p][o] = Null
      BY <2>6, <1>1, BlankFacts, Zenon
    <3> QED BY <3>1, <2>2, <2>3, Zenon
  <2>b. u.child[n] = Blank => u.red[n] = {}
    <3>1. u.child[n] = Blank => u.child[n][s] = Null /\ u.child[n][o] = Null
      BY <2>6, <1>1, <1>2, BlankFacts, Zenon
    <3> QED BY <3>1, <2>2, <2>3, Zenon
  <2>8. u.child[c] # Blank
    BY <2>2, <2>6, <1>1, <1>2, BlankFacts
  <2>9. \A m \in C : m = p \/ m = n \/ m = c
    OBVIOUS
  <2> QED BY <2>4, <2>5, <2>a, <2>7, <2>b, <2>8, <2>9, <1>1, Zenon DEF Fits
<1>13. u \in Trees /\ C \in SUBSET Names /\ p \in C /\ c \in C /\ g \in C
  BY <1>2, Zenon DEF DoublePivot
<1> HIDE DEF C
<1> QED BY <1>2, <1>10, <1>11, <1>12, <1>13, Outside, Zenon DEF C

(* New colours and ranks in C, whose top is p: the difference of rank to   *)
(* the parent of p is all that is left to restore.                         *)
Repainted(u, t, r, w, C, p) ==
    /\ SameLinks(u, t) /\ RedKept(u, t, C)
    /\ \A m \in Nodes \ C : w[m] = r[m]
    /\ \A m \in Names \ C, q \in Sides : t.child[m][q] \in C => t.child[m][q] = p
    /\ \A m \in Names \ C : t.child[m] = Blank => t.red[m] = {}

(* That difference is the one by which the rank of p has changed.          *)
LEMMA Repaint ==
  ASSUME NEW t, NEW S, NEW b, Shape(t, S, b), NEW u, NEW r, NEW w,
         NEW g, NEW s, NEW k, NEW C \in SUBSET Names, NEW p \in C, g \in C,
         Balance(t, r, g, s, k), RankType(w), t.up[p] \notin C,
         Repainted(u, t, r, w, C, p), Fits(u, w, C)
  PROVE  LeafRule(u) /\ Balance(u, w, t.up[p], Toward(t.up[p], p), r[p] - w[p])
<1> DEFINE h == t.up[p]
           hs == Toward(h, p)
<1>1. t \in Trees /\ u \in Trees /\ u.child = t.child /\ p \in Names
  BY DEF Shape, ShapeType, SameLinks, Repainted
<1>2. ASSUME NEW m \in Names
      PROVE  u.child[m] = Blank => u.red[m] = {}
  BY <1>1 DEF Fits, Repainted, RedKept
<1>3. ASSUME NEW m \in Names, NEW q \in Sides
      PROVE  w[m] = w[u.child[m][q]] + Diff(u, m, q) + Gap(m, q, h, hs, r[p] - w[p])
  <2>1. w[m] \in Int /\ w[t.child[m][q]] \in Int /\ r[p] \in Int /\ w[p] \in Int
    BY <1>1, FieldTypes DEF RankType, Balance, Nodes
  <2>2. CASE m \in C
    <3>1. w[m] = w[u.child[m][q]] + Diff(u, m, q)
      BY <2>2 DEF Fits
    <3>2. m # h
      BY <2>2
    <3> HIDE DEF h, hs
    <3> QED BY <3>1, <3>2, <2>1, <1>1 DEF Gap, Diff
  <2>3. CASE m \notin C
    <3>1. r[m] = r[t.child[m][q]] + Diff(t, m, q) + Gap(m, q, g, s, k)
      BY DEF Balance
    <3>2. Gap(m, q, g, s, k) = 0
      BY <2>3 DEF Gap
    <3>3. w[m] = r[m] /\ Diff(t, m, q) = Diff(u, m, q) /\ m \in Nodes
      BY <2>3 DEF Repainted, RedKept, Diff, Nodes
    <3>4. t.child[m][q] = p <=> m = h /\ q = hs
      <4>1. t.child[m][q] = p <=> m = h /\ q = Toward(m, p)
        BY <1>1, ParentOnly
      <4> QED BY <4>1
    <3>5. CASE t.child[m][q] = p
      <4>1. Gap(m, q, h, hs, r[p] - w[p]) = r[p] - w[p]
        BY <3>4, <3>5, Zenon DEF Gap
      <4> HIDE DEF h, hs
      <4> QED BY <4>1, <3>1, <3>2, <3>3, <3>5, <2>1, <1>1 DEF Diff
    <3>6. CASE t.child[m][q] # p
      <4>1. Gap(m, q, h, hs, r[p] - w[p]) = 0
        BY <3>4, <3>6, Zenon DEF Gap
      <4>2. w[t.child[m][q]] = r[t.child[m][q]]
        <5>1. t.child[m][q] \in Nodes \ C
          BY <2>3, <3>6, <1>1, FieldTypes DEF Repainted
        <5> QED BY <5>1 DEF Repainted
      <4> HIDE DEF h, hs
      <4> QED BY <4>1, <4>2, <3>1, <3>2, <3>3, <2>1, <1>1 DEF Diff
    <3> QED BY <3>5, <3>6
  <2> QED BY <2>2, <2>3
<1> QED BY <1>2, <1>3, Zenon DEF LeafRule, Balance

(* New colours of p, and the rank y that goes with them.                   *)
OneFits(u, t, r, p, y) ==
    /\ y \in Nat /\ \A q \in Sides : y = r[t.child[p][q]] + Diff(u, p, q)
    /\ t.child[p] = Blank => u.red[p] = {}
    /\ \A m \in Names \ {p} : t.child[m] = Blank => t.red[m] = {}

(* The same for the case that C is one node.                               *)
LEMMA RepaintOne ==
  ASSUME NEW t, NEW S, NEW b, Shape(t, S, b), NEW p \in Names,
         NEW u, SameLinks(u, t), RedKept(u, t, {p}),
         NEW r, NEW s, NEW k, Balance(t, r, p, s, k), NEW y, OneFits(u, t, r, p, y)
  PROVE  /\ LeafRule(u)
         /\ \E w : Balance(u, w, t.up[p], Toward(t.up[p], p), r[p] - y)
<1> DEFINE C == {p}
           w == [m \in Nodes |-> IF m = p THEN y ELSE r[m]]
<1>1. RankType(r) /\ y \in Nat /\ p \in Nodes /\ p # Null
  BY TreeAssumption DEF Balance, OneFits, Nodes
<1>2. w[p] = y /\ \A m \in Nodes \ C : w[m] = r[m]
  BY <1>1
<1>3. RankType(w)
  BY <1>1 DEF RankType, Nodes
<1> HIDE DEF w
<1>4. \A q \in Sides : t.child[p][q] \in Nodes \ C
  BY ChildFacts
<1>5. Repainted(u, t, r, w, C, p)
  BY <1>2, Zenon DEF Repainted, OneFits
<1>6. Fits(u, w, C)
  <2>1. u.child = t.child
    BY DEF SameLinks
  <2>2. ASSUME NEW q \in Sides PROVE w[p] = w[u.child[p][q]] + Diff(u, p, q)
    BY <2>1, <1>2, <1>4, Zenon DEF OneFits
  <2> QED BY <2>1, <2>2, Zenon DEF Fits, OneFits
<1>7. t.up[p] # p
  <2>1. "left" \in Sides
    BY DEF Sides
  <2> QED BY <2>1, ChildFacts
<1>8. LeafRule(u) /\ Balance(u, w, t.up[p], Toward(t.up[p], p), r[p] - w[p])
  <2>1. C \in SUBSET Names /\ p \in C /\ t.up[p] \notin C
    BY <1>7
  <2> HIDE DEF C
  <2> QED BY <2>1, <1>3, <1>5, <1>6, Repaint
<1> QED BY <1>2, <1>8

(* A turn of RB_INSERT_COLOR: n, with its rank raised, is the child of p   *)
(* on side s.                                                              *)
RaisingAt(t, r, n, p, s) ==
    /\ p \in Names /\ s \in Sides /\ n \in Names /\ t.child[p][s] = n /\ t.up[n] = p
    /\ Balance(t, r, p, s, -1) /\ LeafRule(t) /\ Lifted(t, n)

(* The side the code finds it on is that.                                  *)
LEMMA RaisingPlace ==
  ASSUME NEW t, NEW S, NEW b, Shape(t, S, b), NEW r, NEW n, Raising(t, r, n),
         t.up[n] # Null
  PROVE  RaisingAt(t, r, n, t.up[n], SideOf(t, t.up[n], n))
<1>1. n \in Names
  BY DEF Raising
<1>2. /\ t.up[n] \in Names /\ SideOf(t, t.up[n], n) = Toward(t.up[n], n)
      /\ Toward(t.up[n], n) \in Sides
      /\ t.child[t.up[n]][SideOf(t, t.up[n], n)] = n
  BY <1>1, ParentFacts
<1> QED BY <1>1, <1>2, Zenon DEF Raising, RaisingAt

(* The ranks at a gap on side s of p; the other side is balanced.          *)
LEMMA GapRanks ==
  ASSUME NEW t, NEW S, NEW b, Shape(t, S, b), NEW r, NEW p \in Names, NEW s \in Sides,
         NEW k \in Int, Balance(t, r, p, s, k)
  PROVE  /\ r[p] = r[t.child[p][s]] + Diff(t, p, s) + k
         /\ r[p] = r[t.child[p][Other(s)]] + Diff(t, p, Other(s))
         /\ \A q \in Sides : r[t.child[p][q]] \in Int /\ r[t.child[p][q]] >= -1
         /\ \A q \in Sides : t.child[p][q] = Null <=> r[t.child[p][q]] = -1
         /\ r[p] \in Int /\ r[p] >= 0 /\ r[Null] = -1
<1>1. RankType(r) /\ t \in Trees /\ Null \notin Names
  BY TreeAssumption DEF Shape, ShapeType, Balance
<1>2. Other(s) \in Sides /\ Other(s) # s
  BY SideFacts
<1>3. r[p] \in Int /\ r[p] >= 0 /\ r[Null] = -1
  BY <1>1 DEF RankType, Nodes
<1>4. ASSUME NEW q \in Sides
      PROVE  /\ r[t.child[p][q]] \in Int /\ r[t.child[p][q]] >= -1
             /\ t.child[p][q] = Null <=> r[t.child[p][q]] = -1
  <2>1. t.child[p][q] \in Nodes
    BY <1>1, FieldTypes
  <2>2. CASE t.child[p][q] = Null
    BY <2>2, <1>3
  <2>3. CASE t.child[p][q] \in Names
    <3> DEFINE c == t.child[p][q]
    <3>1. c \in Names /\ c # Null
      BY <2>3, <1>1
    <3> HIDE DEF c
    <3>2. r[c] \in Int /\ r[c] >= 0
      BY <1>1, <3>1 DEF RankType, Nodes
    <3> QED BY <3>1, <3>2 DEF c
  <2> QED BY <2>1, <2>2, <2>3 DEF Nodes
<1>5. r[p] = r[t.child[p][s]] + Diff(t, p, s) + k
  <2>1. r[p] = r[t.child[p][s]] + Diff(t, p, s) + Gap(p, s, p, s, k)
    BY Zenon DEF Balance
  <2> QED BY <2>1, <1>4 DEF Gap, Diff
<1>6. r[p] = r[t.child[p][Other(s)]] + Diff(t, p, Other(s))
  <2>1. r[p] = r[t.child[p][Other(s)]] + Diff(t, p, Other(s))
                 + Gap(p, Other(s), p, s, k)
    BY <1>2, Zenon DEF Balance
  <2>2. Gap(p, Other(s), p, s, k) = 0
    BY <1>2 DEF Gap
  <2>3. r[t.child[p][Other(s)]] \in Int
    BY <1>2, <1>4
  <2> QED BY <2>1, <2>2, <2>3, <1>2 DEF Diff
<1> QED BY <1>3, <1>4, <1>5, <1>6

(* The ranks at any other node.                                            *)
LEMMA PlainRanks ==
  ASSUME NEW t, NEW S, NEW b, Shape(t, S, b), NEW r, NEW p, NEW s, NEW k,
         Balance(t, r, p, s, k), NEW n \in Names, n # p
  PROVE  /\ \A q \in Sides : r[n] = r[t.child[n][q]] + Diff(t, n, q)
         /\ \A q \in Sides : r[t.child[n][q]] \in Int /\ r[t.child[n][q]] >= -1
         /\ \A q \in Sides : t.child[n][q] = Null <=> r[t.child[n][q]] = -1
         /\ r[n] \in Int /\ r[n] >= 0
<1>1. /\ Balance(t, r, p, s, k)
      /\ \A m \in Names, q \in Sides : m = n => Gap(m, q, p, s, k) = 0
  BY DEF Gap
<1>2. RankType(r) /\ t \in Trees /\ Null \notin Names
  BY TreeAssumption DEF Shape, ShapeType, Balance
<1>3. r[n] \in Int /\ r[n] >= 0 /\ r[Null] = -1
  BY <1>2 DEF RankType, Nodes
<1>4. ASSUME NEW q \in Sides
      PROVE  /\ r[t.child[n][q]] \in Int /\ r[t.child[n][q]] >= -1
             /\ t.child[n][q] = Null <=> r[t.child[n][q]] = -1
             /\ r[n] = r[t.child[n][q]] + Diff(t, n, q)
  <2> DEFINE c == t.child[n][q]
  <2>1. c \in Nodes
    BY <1>2, FieldTypes
  <2>2. r[n] = r[c] + Diff(t, n, q) + Gap(n, q, p, s, k)
    BY Zenon DEF Balance
  <2>3. Gap(n, q, p, s, k) = 0
    BY <1>1
  <2> HIDE DEF c
  <2>4. r[c] \in Int /\ r[c] >= -1 /\ (c = Null <=> r[c] = -1)
    BY <2>1, <1>2, <1>3 DEF RankType, Nodes
  <2> QED BY <2>2, <2>3, <2>4 DEF c, Diff
<1> QED BY <1>3, <1>4

(* An edge that has been red is black then, and no rank is left to         *)
(* restore.                                                                *)
LEMMA RaiseEdge ==
  ASSUME NEW t, NEW S, NEW b, Shape(t, S, b), NEW r, NEW n, NEW p, NEW s,
         RaisingAt(t, r, n, p, s), Red(t, p, s)
  PROVE  Shape(Flip(t, p, s), S, b) /\ \E w : Even(Flip(t, p, s), w)
<1> DEFINE u == Flip(t, p, s)
           o == Other(s)
<1>1. /\ p \in Names /\ s \in Sides /\ n \in Names /\ t.child[p][s] = n
      /\ Balance(t, r, p, s, -1) /\ LeafRule(t)
  BY Zenon DEF RaisingAt
<1>2. t \in Trees
  BY DEF Shape, ShapeType
<1>3. SameLinks(u, t) /\ u.red[p] = Flipped(t.red[p], s) /\ RedKept(u, t, {p})
  BY <1>1, <1>2, FlipLinks DEF RedKept
<1> HIDE DEF u
<1>4. o \in Sides /\ o # s /\ \A q \in Sides : q = s \/ q = o
  BY <1>1, SideFacts
<1>5. /\ r[p] = r[t.child[p][s]] + Diff(t, p, s) + (-1)
      /\ r[p] = r[t.child[p][o]] + Diff(t, p, o)
      /\ r[t.child[p][s]] \in Int /\ r[t.child[p][o]] \in Int
      /\ r[p] \in Int /\ r[p] >= 0
  BY <1>1, <1>4, GapRanks
<1>6. Diff(t, p, s) = 2 /\ Diff(u, p, s) = 1 /\ Diff(u, p, o) = Diff(t, p, o)
  BY <1>3, <1>4 DEF Red, Diff, Flipped
<1>7. t.child[p] # Blank
  BY <1>1, <1>2, BlankFacts, TreeAssumption
<1>8. OneFits(u, t, r, p, r[p])
  <2>1. /\ r[p] = r[t.child[p][s]] + Diff(u, p, s)
        /\ r[p] = r[t.child[p][o]] + Diff(u, p, o) /\ r[p] \in Nat
    BY <1>5, <1>6
  <2> HIDE DEF o
  <2> QED BY <2>1, <1>1, <1>4, <1>7, Zenon DEF OneFits, LeafRule
<1>9. LeafRule(u) /\ \E w : Balance(u, w, t.up[p], Toward(t.up[p], p), r[p] - r[p])
  BY <1>1, <1>3, <1>8, RepaintOne
<1>10. \E w : Balance(u, w, Null, "left", 0)
  <2>1. r[p] - r[p] = 0
    BY <1>5
  <2> QED BY <2>1, <1>9, NoGap
<1> QED BY <1>3, <1>9, <1>10, SameLinksShape DEF Even, u

(* If both edges of p have been black, the rank of p goes up by one.       *)
LEMMA RaisePromote ==
  ASSUME NEW t, NEW S, NEW b, Shape(t, S, b), NEW r, NEW n, NEW p, NEW s,
         RaisingAt(t, r, n, p, s), ~Red(t, p, s), ~Red(t, p, Other(s))
  PROVE  LET u == Flip(t, p, Other(s))
         IN Shape(u, S, b) /\ \E w : Raising(u, w, p)
<1> DEFINE o == Other(s)
           u == Flip(t, p, o)
<1>1. /\ p \in Names /\ s \in Sides /\ n \in Names /\ t.child[p][s] = n
      /\ Balance(t, r, p, s, -1) /\ LeafRule(t) /\ Lifted(t, n) /\ t.up[n] = p
  BY Zenon DEF RaisingAt
<1>a. t \in Trees /\ n # Null
  BY <1>1, TreeAssumption DEF Shape, ShapeType
<1>2. t \in Trees /\ n # p
  BY <1>1, <1>a, ChildFacts
<1>4. o \in Sides /\ o # s /\ \A q \in Sides : q = s \/ q = o
  BY <1>1, SideFacts
<1>3. SameLinks(u, t) /\ u.red[p] = Flipped(t.red[p], o) /\ RedKept(u, t, {p})
  BY <1>1, <1>2, <1>4, FlipLinks DEF RedKept
<1> HIDE DEF u
<1>5. /\ r[p] = r[t.child[p][s]] + Diff(t, p, s) + (-1)
      /\ r[p] = r[t.child[p][o]] + Diff(t, p, o)
      /\ r[t.child[p][s]] \in Int /\ r[t.child[p][o]] \in Int
      /\ r[p] \in Int /\ r[p] >= 0
  BY <1>1, <1>4, GapRanks
<1>6. t.red[p] = {} /\ u.red[p] = {o}
  <2>1. t.red[p] \subseteq Sides
    BY <1>1, <1>2, FieldTypes
  <2>2. t.red[p] = {}
    BY <2>1, <1>4 DEF Red
  <2> QED BY <2>2, <1>3 DEF Flipped
<1>7. Diff(t, p, s) = 1 /\ Diff(t, p, o) = 1 /\ Diff(u, p, s) = 1 /\ Diff(u, p, o) = 2
  BY <1>6, <1>4 DEF Diff
<1>8. t.child[p] # Blank
  BY <1>1, <1>2, BlankFacts, TreeAssumption
<1>9. OneFits(u, t, r, p, r[p] + 1)
  <2>1. /\ r[p] + 1 = r[t.child[p][s]] + Diff(u, p, s)
        /\ r[p] + 1 = r[t.child[p][o]] + Diff(u, p, o) /\ r[p] + 1 \in Nat
    BY <1>5, <1>7
  <2> HIDE DEF o
  <2> QED BY <2>1, <1>1, <1>4, <1>8, Zenon DEF OneFits, LeafRule
<1>10. /\ LeafRule(u)
       /\ \E w : Balance(u, w, t.up[p], Toward(t.up[p], p), r[p] - (r[p] + 1))
  BY <1>1, <1>3, <1>9, RepaintOne
<1>11. \E w : Balance(u, w, u.up[p], Toward(u.up[p], p), -1)
  <2>1. r[p] - (r[p] + 1) = -1
    BY <1>5
  <2>2. u.up = t.up
    BY <1>3 DEF SameLinks
  <2> QED BY <2>1, <2>2, <1>10
<1>12. Lifted(u, p)
  <2>1. u.child = t.child /\ u.red[n] = t.red[n]
    BY <1>1, <1>2, <1>3 DEF SameLinks, RedKept
  <2>2. OnePlus(u, n)
    <3>1. t.child[n] = Blank \/ \E q \in Sides : t.red[n] = {Other(q)}
      BY <1>1 DEF Lifted
    <3> QED BY <2>1, <3>1, SideFacts DEF OnePlus
  <2>3. n # Null
    BY <1>1, TreeAssumption
  <2> QED BY <2>1, <2>2, <2>3, <1>1, <1>6 DEF Lifted, o
<1> QED BY <1>1, <1>3, <1>10, <1>11, <1>12, SameLinksShape DEF Raising, u, o

(* The links after one rotation, whatever is painted afterwards.           *)
SingleTurn(w, v, t, S, p, s, n) ==
    /\ w \in Trees /\ w.red = v.red
    /\ \A u : SameLinks(u, w) => (\E d : Shape(u, S, d)) /\ Pivot(u, t, p, s, n)

(* The links after two rotations, whatever is painted in between and       *)
(* afterwards.                                                             *)
DoubleTurn(w, v, t, S, p, s, n, c) ==
    /\ w \in Trees /\ w.red = v.red
    /\ \A x : SameLinks(x, w) =>
          LET y == Rotate(x, p, Other(s))
          IN /\ y \in Trees /\ y.red = x.red
             /\ \A u : SameLinks(u, y) =>
                   (\E d : Shape(u, S, d)) /\ DoublePivot(u, t, p, s, n, c)

(* A rotation leaves that.                                                 *)
LEMMA SingleLinks ==
  ASSUME NEW t, NEW S, NEW b, Shape(t, S, b), NEW p \in Names, NEW s \in Sides,
         NEW n \in Names, t.child[p][s] = n, NEW v, SameLinks(v, t)
  PROVE  SingleTurn(Rotate(v, p, Other(s)), v, t, S, p, s, n)
<1> DEFINE o == Other(s)
           w == Rotate(v, p, o)
<1>1. o \in Sides /\ Other(o) = s
  BY SideFacts
<1>2. Shape(v, S, b) /\ v.child = t.child
  BY SameLinksShape DEF SameLinks
<1>3. v.child[p][Other(o)] \in Names /\ n = v.child[p][s]
  BY <1>1, <1>2
<1>4. PICK d : Shape(w, S, d)
  BY <1>1, <1>2, <1>3, RotateShape
<1>5. Pivot(w, v, p, s, n) /\ w.red = v.red
  BY <1>2, <1>3, RotatePivot
<1> HIDE DEF w
<1>6. ASSUME NEW u, SameLinks(u, w)
      PROVE  Pivot(u, t, p, s, n) /\ \E e : Shape(u, S, e)
  BY <1>4, <1>5, <1>6, PivotSame, SameLinksShape
<1>7. w \in Trees
  BY <1>4 DEF Shape, ShapeType
<1> QED BY <1>5, <1>6, <1>7, Zenon DEF w, o, SingleTurn

(* Two rotations leave that.                                               *)
LEMMA DoubleLinks ==
  ASSUME NEW t, NEW S, NEW b, Shape(t, S, b), NEW p \in Names, NEW s \in Sides,
         NEW n, NEW c, Twice(t, p, s, n, c), NEW v, SameLinks(v, t)
  PROVE  DoubleTurn(Rotate(v, n, s), v, t, S, p, s, n, c)
<1> DEFINE o == Other(s)
           w == Rotate(v, n, s)
<1>1. o \in Sides /\ Other(o) = s
  BY SideFacts
<1>2. Shape(v, S, b) /\ v.child = t.child
  BY SameLinksShape DEF SameLinks
<1>3. n \in Names /\ c \in Names /\ n = v.child[p][s] /\ c = v.child[n][o]
  BY <1>2 DEF Twice
<1>4. w \in Trees /\ w.red = v.red
  <2>1. SingleTurn(Rotate(v, n, Other(o)), v, v, S, n, o, c)
    <3>1. SameLinks(v, v)
      BY <1>2 DEF SameLinks, Shape, ShapeType
    <3> HIDE DEF o
    <3> QED BY <1>1, <1>2, <1>3, <3>1, SingleLinks
  <2> QED BY <2>1, <1>1, Zenon DEF SingleTurn
<1> HIDE DEF w
<1>5. ASSUME NEW x, SameLinks(x, w)
      PROVE  LET y == Rotate(x, p, o)
             IN /\ y \in Trees /\ y.red = x.red
                /\ \A u : SameLinks(u, y) =>
                      /\ \E d : Shape(u, S, d)
                      /\ DoublePivot(u, t, p, s, n, c)
  <2> DEFINE y == Rotate(x, p, o)
  <2>1. DoublePivot(y, v, p, s, n, c) /\ y.red = x.red /\ \E d : Shape(y, S, d)
    BY <1>2, <1>3, <1>5, RotateTwice DEF w
  <2> HIDE DEF y
  <2>2. PICK d : Shape(y, S, d)
    BY <2>1
  <2>3. ASSUME NEW u, SameLinks(u, y)
        PROVE  DoublePivot(u, t, p, s, n, c) /\ \E e : Shape(u, S, e)
    BY <2>1, <2>2, <2>3, DoubleSame, SameLinksShape
  <2>4. y \in Trees
    BY <2>2 DEF Shape, ShapeType
  <2> QED BY <2>1, <2>3, <2>4, Zenon DEF y
<1> QED BY <1>4, <1>5, Zenon DEF w, o, DoubleTurn

(* If the edge from n to its inner child is red, one rotation restores all *)
(* ranks.                                                                  *)
LEMMA RaiseOnce ==
  ASSUME NEW t, NEW S, NEW b, Shape(t, S, b), NEW r, NEW n, NEW p, NEW s,
         RaisingAt(t, r, n, p, s), ~Red(t, p, s), Red(t, p, Other(s)),
         Red(t, n, Other(s))
  PROVE  LET u == Paint(Rotate(Flip(t, p, Other(s)), p, Other(s)), n, {})
         IN (\E d : Shape(u, S, d)) /\ (\E w : Even(u, w))
<1> DEFINE o == Other(s)
           v == Flip(t, p, o)
           y == Rotate(v, p, o)
           u == Paint(y, n, {})
<1>1. /\ p \in Names /\ s \in Sides /\ n \in Names /\ t.child[p][s] = n
      /\ Balance(t, r, p, s, -1) /\ LeafRule(t) /\ Lifted(t, n) /\ t.up[n] = p
  BY Zenon DEF RaisingAt
<1>2. t \in Trees /\ n # Null /\ p # Null
  BY <1>1, TreeAssumption DEF Shape, ShapeType
<1>3. n # p
  BY <1>1, <1>2, ChildFacts
<1>4. o \in Sides /\ o # s /\ Other(o) = s /\ \A q \in Sides : q = s \/ q = o
  BY <1>1, SideFacts
<1>5. SameLinks(v, t) /\ v.red[p] = Flipped(t.red[p], o) /\ RedKept(v, t, {p})
  BY <1>1, <1>2, <1>4, FlipLinks DEF RedKept
<1> HIDE DEF v
<1>6. y \in Trees /\ y.red = v.red /\ \A z : SameLinks(z, y) =>
          (\E d : Shape(z, S, d)) /\ Pivot(z, t, p, s, n)
  <2>1. SingleTurn(y, v, t, S, p, s, n)
    BY <1>1, <1>5, SingleLinks
  <2> QED BY <2>1, Zenon DEF SingleTurn
<1> HIDE DEF y
<1>7. SameLinks(u, y) /\ \A m \in Names : u.red[m] = IF m = n THEN {} ELSE y.red[m]
  BY <1>1, <1>6, PaintLinks
<1> HIDE DEF u
<1>8. u.red[n] = {} /\ u.red[p] = {} /\ RedKept(u, t, {p, n})
  <2>1. t.red[p] = {o}
    <3>1. t.red[p] \subseteq Sides
      BY <1>1, <1>2, FieldTypes
    <3> QED BY <3>1, <1>4 DEF Red
  <2>2. v.red[p] = {}
    BY <2>1, <1>5 DEF Flipped
  <2> QED BY <2>2, <1>1, <1>3, <1>5, <1>6, <1>7 DEF RedKept
<1>9. t.red[n] = {o} /\ t.child[n][s] # Null
  <2>1. t.child[n] # Blank
    BY <1>1 DEF LeafRule, Red
  <2>2. PICK q \in Sides : t.red[n] = {Other(q)} /\ t.child[n][q] # Null
    BY <2>1, <1>1 DEF Lifted
  <2>3. Other(q) = o
    BY <2>2 DEF Red
  <2>4. q = s
    BY <2>2, <2>3, <1>1, SideFacts
  <2> QED BY <2>2, <2>4
<1>10. /\ r[p] = r[n] + Diff(t, p, s) + (-1)
       /\ r[p] = r[t.child[p][o]] + Diff(t, p, o)
       /\ r[t.child[p][o]] \in Int
       /\ r[p] \in Int /\ r[p] >= 0
  BY <1>1, <1>4, GapRanks
<1>11. /\ r[n] = r[t.child[n][s]] + Diff(t, n, s)
       /\ r[n] = r[t.child[n][o]] + Diff(t, n, o)
       /\ r[t.child[n][s]] \in Int /\ r[t.child[n][o]] \in Int
       /\ r[t.child[n][s]] >= 0 /\ r[n] \in Int
  <2>1. /\ r[t.child[n][s]] >= -1 /\ r[t.child[n][s]] # -1 /\ r[t.child[n][s]] \in Int
    BY <1>1, <1>3, <1>9, PlainRanks
  <2> QED BY <2>1, <1>1, <1>3, <1>4, PlainRanks
<1>12. /\ Diff(t, p, s) = 1 /\ Diff(t, p, o) = 2 /\ Diff(t, n, s) = 1
       /\ Diff(t, n, o) = 2
       /\ Diff(u, p, s) = 1 /\ Diff(u, p, o) = 1 /\ Diff(u, n, s) = 1
       /\ Diff(u, n, o) = 1
  BY <1>4, <1>8, <1>9 DEF Diff, Red
<1>13. SingleFits(u, t, r, p, s, n, r[p] - 1)
  <2>1. /\ r[p] - 1 \in Nat
        /\ r[p] - 1 = r[t.child[n][o]] + Diff(u, p, s)
        /\ r[p] - 1 = r[t.child[p][o]] + Diff(u, p, o)
        /\ r[p] = r[t.child[n][s]] + Diff(u, n, s)
        /\ r[p] = r[p] - 1 + Diff(u, n, o)
    BY <1>10, <1>11, <1>12
  <2> QED BY <2>1, <1>8, Zenon DEF SingleFits
<1>14. \E w : Even(u, w)
  <2>1. Pivot(u, t, p, s, n) /\ p \in {p, n}
    BY <1>6, <1>7
  <2> QED BY <2>1, <1>1, <1>8, <1>13, SingleRanks
<1> QED BY <1>6, <1>7, <1>14, Zenon DEF u, y, v

(* The colour the second flip of a double rotation of RB_INSERT_COLOR is   *)
(* for.                                                                    *)
Fixed(turned, n, p, c, s) ==
    IF Red(turned, c, s) THEN Flip(turned, n, Other(s))
    ELSE IF Red(turned, c, Other(s)) THEN Flip(turned, p, s)
    ELSE turned

(* The colours it leaves.                                                  *)
FixedColours(u, w, n, p, c, s) ==
    /\ SameLinks(u, w) /\ RedKept(u, w, {p, n, c})
    /\ u.red[n] = (IF Red(w, c, s) THEN {Other(s)} ELSE {})
    /\ u.red[p] = (IF ~Red(w, c, s) /\ Red(w, c, Other(s)) THEN {s} ELSE {})

(* It leaves these.                                                        *)
LEMMA FixedLinks ==
  ASSUME NEW w \in Trees, NEW n \in Names, NEW p \in Names, NEW c \in Names,
         NEW s \in Sides, n # p, c # n, c # p, w.red[n] = {}, w.red[p] = {}
  PROVE  FixedColours(Fixed(w, n, p, c, s), w, n, p, c, s)
<1> DEFINE u == Fixed(w, n, p, c, s)
           o == Other(s)
<1>1. o \in Sides
  BY SideFacts
<1> HIDE DEF o
<1>2. CASE Red(w, c, s)
  <2>1. u = Flip(w, n, o)
    BY <1>2 DEF Fixed, o
  <2> HIDE DEF u
  <2>2. /\ SameLinks(u, w)
        /\ \A m \in Names : u.red[m] = IF m = n THEN Flipped(w.red[n], o) ELSE w.red[m]
    <3>1. /\ SameLinks(Flip(w, n, o), w)
          /\ \A m \in Names :
                Flip(w, n, o).red[m] = IF m = n THEN Flipped(w.red[n], o) ELSE w.red[m]
      BY <1>1, FlipLinks
    <3> QED BY <2>1, <3>1, Zenon
  <2> QED BY <2>2, <1>2 DEF Flipped, RedKept, u, FixedColours, o
<1>3. CASE ~Red(w, c, s) /\ Red(w, c, o)
  <2>1. u = Flip(w, p, s)
    BY <1>3 DEF Fixed, o
  <2> HIDE DEF u
  <2>2. /\ SameLinks(u, w)
        /\ \A m \in Names : u.red[m] = IF m = p THEN Flipped(w.red[p], s) ELSE w.red[m]
    BY <2>1, FlipLinks, Zenon
  <2> QED BY <2>2, <1>3 DEF Flipped, RedKept, u, FixedColours, o
<1>4. CASE ~Red(w, c, s) /\ ~Red(w, c, o)
  <2>1. u = w
    BY <1>4 DEF Fixed, o
  <2> QED BY <2>1, <1>4 DEF RedKept, SameLinks, FixedColours, o
<1> QED BY <1>2, <1>3, <1>4 DEF u

(* If that edge is black, two rotations restore all ranks.                 *)
LEMMA RaiseTwice ==
  ASSUME NEW t, NEW S, NEW b, Shape(t, S, b), NEW r, NEW n, NEW p, NEW s,
         RaisingAt(t, r, n, p, s), ~Red(t, p, s), Red(t, p, Other(s)),
         ~Red(t, n, Other(s)), NEW c, c = t.child[n][Other(s)]
  PROVE  LET turned == Rotate(Flip(Flip(t, p, Other(s)), n, s), n, s)
             u == Paint(Rotate(Fixed(turned, n, p, c, s), p, Other(s)), c, {})
         IN (\E d : Shape(u, S, d)) /\ (\E w : Even(u, w))
<1> DEFINE o == Other(s)
           raised == Flip(t, p, o)
           v == Flip(raised, n, s)
           turned == Rotate(v, n, s)
           fixed == Fixed(turned, n, p, c, s)
           y == Rotate(fixed, p, o)
           u == Paint(y, c, {})
<1>1. /\ p \in Names /\ s \in Sides /\ n \in Names /\ t.child[p][s] = n
      /\ Balance(t, r, p, s, -1) /\ LeafRule(t) /\ Lifted(t, n) /\ t.up[n] = p
  BY Zenon DEF RaisingAt
<1>2. t \in Trees /\ n # Null /\ p # Null
  BY <1>1, TreeAssumption DEF Shape, ShapeType
<1>3. n # p
  BY <1>1, <1>2, ChildFacts
<1>4. o \in Sides /\ o # s /\ Other(o) = s /\ \A q \in Sides : q = s \/ q = o
  BY <1>1, SideFacts
<1>5. c = t.child[n][o] /\ Red(t, p, o) /\ ~Red(t, p, s) /\ ~Red(t, n, o)
  OBVIOUS
<1> HIDE DEF o
<1>6. /\ r[p] = r[n] + Diff(t, p, s) + (-1)
      /\ r[p] = r[t.child[p][o]] + Diff(t, p, o)
      /\ r[t.child[p][o]] \in Int /\ r[t.child[p][o]] >= -1
      /\ r[p] \in Int /\ r[p] >= 0 /\ r[Null] = -1
  BY <1>1, <1>4, GapRanks DEF o
<1>7. /\ r[n] = r[t.child[n][s]] + Diff(t, n, s)
      /\ r[n] = r[t.child[n][o]] + Diff(t, n, o)
      /\ r[t.child[n][s]] \in Int /\ r[t.child[n][o]] \in Int
      /\ t.child[n][s] = Null => r[t.child[n][s]] = -1
      /\ t.child[n][o] = Null => r[t.child[n][o]] = -1
      /\ r[t.child[n][o]] >= -1
      /\ t.child[n][o] # Null => r[t.child[n][o]] # -1
      /\ r[n] \in Int /\ r[n] >= 0
  BY <1>1, <1>3, <1>4, PlainRanks
<1>8. Diff(t, p, s) = 1 /\ Diff(t, p, o) = 2
  BY <1>4, <1>5 DEF Diff, Red
<1>9. t.red[n] = {s} /\ c # Null /\ OnePlus(t, c)
  <2>1. t.child[n] # Blank
    <3> SUFFICES ASSUME t.child[n] = Blank PROVE FALSE
      OBVIOUS
    <3>1. t.red[n] = {} /\ t.child[n][s] = Null
      BY <1>1, <1>2, BlankFacts DEF LeafRule
    <3>2. Diff(t, n, s) = 1
      BY <3>1 DEF Diff
    <3> QED BY <3>1, <3>2, <1>6, <1>7, <1>8
  <2>2. PICK q \in Sides : /\ t.red[n] = {Other(q)} /\ t.child[n][q] # Null
                           /\ OnePlus(t, t.child[n][q])
    BY <2>1, <1>1 DEF Lifted
  <2>3. Other(q) # o
    BY <2>2, <1>5 DEF Red
  <2>4. q = o
    BY <2>3, <1>1, <1>4 DEF o
  <2> QED BY <2>2, <2>4, <1>4, <1>5
<1>10. c \in Names
  BY <1>1, <1>4, <1>5, <1>9, ChildFacts
<1>11. Twice(t, p, s, n, c)
  BY <1>1, <1>5, <1>10 DEF Twice, o
<1>12. n # p /\ c # n /\ c # p
  BY <1>1, <1>11, TwiceLinks DEF TwiceFacts
<1>13. SameLinks(raised, t) /\ \A m \in Names :
           raised.red[m] = IF m = p THEN Flipped(t.red[p], o) ELSE t.red[m]
  BY <1>1, <1>2, <1>4, FlipLinks
<1> HIDE DEF raised
<1>14. SameLinks(v, raised) /\ \A m \in Names :
           v.red[m] = IF m = n THEN Flipped(raised.red[n], s) ELSE raised.red[m]
  <2>1. raised \in Trees
    BY <1>13 DEF SameLinks
  <2> QED BY <2>1, <1>1, FlipLinks
<1> HIDE DEF v
<1>15. SameLinks(v, t)
  BY <1>13, <1>14, SameLinksTwice
<1>16. v.red[n] = {} /\ v.red[p] = {} /\ v.red[c] = t.red[c] /\ RedKept(v, t, {p, n, c})
  <2>1. t.red[p] = {o}
    <3>1. t.red[p] \subseteq Sides
      BY <1>1, <1>2, FieldTypes
    <3> QED BY <3>1, <1>4, <1>5 DEF Red
  <2> QED BY <2>1, <1>1, <1>9, <1>10, <1>12, <1>13, <1>14 DEF Flipped, RedKept
<1>17. DoubleTurn(turned, v, t, S, p, s, n, c)
  BY <1>1, <1>11, <1>15, DoubleLinks
<1> HIDE DEF turned
<1>18. turned \in Trees /\ turned.red = v.red
  BY <1>17, Zenon DEF DoubleTurn
<1>19. /\ SameLinks(fixed, turned) /\ RedKept(fixed, turned, {p, n, c})
       /\ fixed.red[n] = (IF Red(turned, c, s) THEN {o} ELSE {})
       /\ fixed.red[p] = (IF ~Red(turned, c, s) /\ Red(turned, c, o) THEN {s} ELSE {})
  <2>1. turned.red[n] = {} /\ turned.red[p] = {}
    BY <1>16, <1>18
  <2>2. FixedColours(fixed, turned, n, p, c, s)
    BY <2>1, <1>1, <1>10, <1>12, <1>18, FixedLinks
  <2> HIDE DEF fixed
  <2> QED BY <2>2, Zenon DEF FixedColours, o
<1> HIDE DEF fixed
<1>20. /\ y \in Trees /\ y.red = fixed.red
       /\ \A z : SameLinks(z, y)
             => (\E d : Shape(z, S, d)) /\ DoublePivot(z, t, p, s, n, c)
  BY <1>17, <1>19, Zenon DEF DoubleTurn, o
<1> HIDE DEF y
<1>21. SameLinks(u, y) /\ \A m \in Names : u.red[m] = IF m = c THEN {} ELSE y.red[m]
  BY <1>10, <1>20, PaintLinks
<1> HIDE DEF u
<1>22. /\ u.red[n] = (IF s \in t.red[c] THEN {o} ELSE {})
       /\ u.red[p] = (IF s \notin t.red[c] /\ o \in t.red[c] THEN {s} ELSE {})
       /\ u.red[c] = {} /\ RedKept(u, t, {p, n, c})
  BY <1>1, <1>10, <1>12, <1>16, <1>18, <1>19, <1>20, <1>21 DEF Red, RedKept
<1>23. ~(s \in t.red[c] /\ o \in t.red[c])
  BY <1>1, <1>4, <1>9, <1>10 DEF OnePlus, LeafRule
<1>24. /\ Diff(t, n, s) = 2 /\ Diff(t, n, o) = 1
       /\ Diff(u, n, s) = 1 /\ Diff(u, n, o) = Diff(t, c, s)
       /\ Diff(u, p, s) = Diff(t, c, o) /\ Diff(u, p, o) = 1
       /\ Diff(u, c, s) = 1 /\ Diff(u, c, o) = 1
  BY <1>4, <1>9, <1>22, <1>23 DEF Diff
<1>25. /\ r[c] = r[t.child[c][s]] + Diff(t, c, s)
       /\ r[c] = r[t.child[c][o]] + Diff(t, c, o)
       /\ r[t.child[c][s]] \in Int /\ r[t.child[c][o]] \in Int
       /\ t.child[c][s] = Null => r[t.child[c][s]] = -1
       /\ t.child[c][o] = Null => r[t.child[c][o]] = -1
  BY <1>1, <1>4, <1>10, <1>12, PlainRanks
<1>26. r[c] \in Int /\ r[c] >= 0
  BY <1>5, <1>7, <1>9
<1>27. DoubleFits(u, t, r, p, s, n, c, r[p] - 1)
  <2>0. Diff(t, c, s) \in {1, 2} /\ Diff(t, c, o) \in {1, 2} /\ r[c] = r[p] - 1
    BY <1>5, <1>6, <1>7, <1>8, <1>24 DEF Diff
  <2>1. /\ r[p] - 1 \in Nat
        /\ r[p] - 1 = r[t.child[n][s]] + Diff(u, n, s)
        /\ r[p] - 1 = r[t.child[c][s]] + Diff(u, n, o)
        /\ r[p] - 1 = r[t.child[c][o]] + Diff(u, p, s)
        /\ r[p] - 1 = r[t.child[p][o]] + Diff(u, p, o)
        /\ r[p] = r[p] - 1 + Diff(u, c, s)
        /\ r[p] = r[p] - 1 + Diff(u, c, o)
    BY <2>0, <1>6, <1>7, <1>8, <1>24, <1>25, <1>26, SMTT(20)
  <2>2. ASSUME t.child[n][s] = Null, t.child[c][s] = Null PROVE u.red[n] = {}
    <3>1. Diff(t, c, s) = 1
      BY <2>0, <2>1, <2>2, <1>7, <1>24, <1>25
    <3> QED BY <3>1, <1>22 DEF Diff
  <2>3. ASSUME t.child[c][o] = Null, t.child[p][o] = Null PROVE u.red[p] = {}
    <3>1. r[t.child[p][o]] = -1
      BY <2>3, <1>6
    <3>2. Diff(t, c, o) = 1
      BY <2>0, <2>1, <2>3, <3>1, <1>24, <1>25
    <3> QED BY <3>2, <1>22 DEF Diff
  <2> QED BY <2>1, <2>2, <2>3, Zenon DEF DoubleFits, o
<1>28. \E w : Even(u, w)
  <2>1. DoublePivot(u, t, p, s, n, c) /\ p \in {p, n, c}
    BY <1>20, <1>21
  <2> QED BY <2>1, <1>1, <1>11, <1>22, <1>27, DoubleRanks
<1> QED BY <1>20, <1>21, <1>28, Zenon DEF u, y, fixed, turned, v, raised, o

(* A turn of RB_INSERT_COLOR: the tree keeps its shape and its nodes, and  *)
(* all ranks are restored or the parent is what has gone up.               *)
LEMMA RaisedKeeps ==
  ASSUME NEW t, NEW S, NEW b, Shape(t, S, b), NEW r, NEW n, Raising(t, r, n)
  PROVE  LET u == Raised(t, n)
         IN /\ \E d : Shape(u, S, d)
            /\ Promotes(t, n) => t.up[n] \in Names /\ \E w : Raising(u, w, t.up[n])
            /\ ~Promotes(t, n) => \E w : Even(u, w)
<1> DEFINE p == t.up[n]
           s == SideOf(t, p, n)
           o == Other(s)
           raised == Flip(t, p, o)
           c == raised.child[n][o]
           turned == Rotate(Flip(raised, n, s), n, s)
           u == Raised(t, n)
<1>1. u = IF p = Null THEN t
          ELSE IF Red(t, p, s) THEN Flip(t, p, s)
          ELSE IF Red(raised, p, o) THEN raised
          ELSE IF Red(raised, n, o) THEN Paint(Rotate(raised, p, o), n, {})
          ELSE Paint(Rotate(Fixed(turned, n, p, c, s), p, o), c, {})
  BY Zenon DEF Raised, Fixed
<1>2. Promotes(t, n) <=> p # Null /\ ~Red(t, p, s) /\ ~Red(t, p, o)
  BY DEF Promotes
<1>3. CASE p = Null
  <2>1. Balance(t, r, Null, Toward(Null, n), -1) /\ LeafRule(t)
    BY <1>3 DEF Raising
  <2>2. Even(t, r)
    BY <2>1, NoGap DEF Even
  <2>3. u = t
    BY <1>1, <1>3
  <2> QED BY <2>2, <2>3, <1>2, <1>3
<1>4. CASE p # Null
  <2>1. RaisingAt(t, r, n, p, s)
    BY <1>4, RaisingPlace
  <2>2. p \in Names /\ s \in Sides /\ n \in Names /\ t.up[n] = p
    BY <2>1, Zenon DEF RaisingAt
  <2>3. o \in Sides /\ o # s /\ t \in Trees
    BY <2>2, SideFacts DEF Shape, ShapeType
  <2>4. n # p
    BY <2>2, <2>3, ChildFacts
  <2>5. SameLinks(raised, t) /\ \A m \in Names :
            raised.red[m] = IF m = p THEN Flipped(t.red[p], o) ELSE t.red[m]
    BY <2>2, <2>3, FlipLinks
  <2>6. /\ Red(raised, p, o) <=> ~Red(t, p, o)
        /\ Red(raised, n, o) <=> Red(t, n, o)
    BY <2>2, <2>4, <2>5 DEF Red, Flipped
  <2>7. c = t.child[n][o]
    BY <2>5 DEF SameLinks
  <2> HIDE DEF p, s, u, c
  <2>8. CASE Red(t, p, s)
    <3>1. u = Flip(t, p, s)
      BY <1>1, <1>4, <2>8
    <3>2. Shape(u, S, b) /\ \E w : Even(u, w)
      BY <3>1, <2>1, <2>8, RaiseEdge
    <3> QED BY <3>2, <2>8, <1>2, Zenon DEF u
  <2>9. CASE ~Red(t, p, s) /\ ~Red(t, p, o)
    <3>1. u = Flip(t, p, Other(s))
      BY <1>1, <1>4, <2>6, <2>9
    <3>2. Shape(u, S, b) /\ \E w : Raising(u, w, p)
      BY <3>1, <2>1, <2>9, RaisePromote
    <3> QED BY <3>2, <2>2, <2>9, <1>2, <1>4, Zenon DEF u, p
  <2>10. CASE ~Red(t, p, s) /\ Red(t, p, o) /\ Red(t, n, o)
    <3>1. u = Paint(Rotate(Flip(t, p, Other(s)), p, Other(s)), n, {})
      BY <1>1, <1>4, <2>6, <2>10
    <3>2. (\E d : Shape(u, S, d)) /\ \E w : Even(u, w)
      BY <3>1, <2>1, <2>10, RaiseOnce
    <3> QED BY <3>2, <2>10, <1>2, Zenon DEF u
  <2>11. CASE ~Red(t, p, s) /\ Red(t, p, o) /\ ~Red(t, n, o)
    <3>1. u = Paint(Rotate(Fixed(turned, n, p, c, s), p, Other(s)), c, {})
      BY <1>1, <1>4, <2>6, <2>11, Zenon
    <3>2. (\E d : Shape(u, S, d)) /\ \E w : Even(u, w)
      BY <3>1, <2>1, <2>7, <2>11, RaiseTwice
    <3> QED BY <3>2, <2>11, <1>2, Zenon DEF u
  <2> QED BY <2>8, <2>9, <2>10, <2>11
<1> QED BY <1>3, <1>4

-----------------------------------------------------------------------------

(* A turn of RB_REMOVE_COLOR: the subtree on side s of p has lost a rank,  *)
(* and p is no leaf.                                                       *)
LoweringAt(t, r, p, s) ==
    /\ p \in Names /\ s \in Sides /\ LeafRule(t) /\ t.child[p] # Blank
    /\ Balance(t, r, p, s, 1)

(* The same for the subtree e, which may be none: the code finds its side  *)
(* by comparing it with the left child.                                    *)
Lowering(t, r, p, e) ==
    /\ \E s \in Sides : t.child[p][s] = e
    /\ LoweringAt(t, r, p, SideOf(t, p, e))

(* What a turn of RB_REMOVE_COLOR has to leave.                            *)
Outcome(out, S) ==
    /\ \E d : Shape(out.tree, S, d)
    /\ out.parent = Null => out.elm = Null /\ \E w : Even(out.tree, w)
    /\ out.parent # Null => \E w : Lowering(out.tree, w, out.parent, out.elm)

(* All ranks are restored.                                                 *)
LEMMA DoneOutcome ==
  ASSUME NEW u, NEW S, \E d : Shape(u, S, d), \E w : Even(u, w)
  PROVE  Outcome(Done(u), S)
BY DEF Outcome, Done, LostAt

(* Or the subtree p has lost a rank, and its parent does not know. A       *)
(* parent is no leaf.                                                      *)
LEMMA LostOutcome ==
  ASSUME NEW u, NEW S, NEW b, Shape(u, S, b), NEW p \in Names, LeafRule(u),
         \E w : Balance(u, w, u.up[p], Toward(u.up[p], p), 1)
  PROVE  Outcome(LostAt(u, u.up[p], p), S)
<1> DEFINE h == u.up[p]
           out == LostAt(u, h, p)
<1>1. out.tree = u /\ out.parent = h /\ out.elm = (IF h = Null THEN Null ELSE p)
  BY DEF LostAt
<1> HIDE DEF out
<1>2. CASE h = Null
  <2>1. \E w : Balance(u, w, Null, "left", 0)
    BY <1>2, NoGap
  <2> QED BY <2>1, <1>1, <1>2 DEF Outcome, Even, out
<1>3. CASE h # Null
  <2>1. /\ h \in Names /\ SideOf(u, h, p) = Toward(h, p) /\ Toward(h, p) \in Sides
        /\ u.child[h][Toward(h, p)] = p
    BY <1>3, ParentFacts
  <2>2. u.child[h] # Blank
    BY <2>1, BlankFacts, TreeAssumption DEF Shape, ShapeType
  <2>3. \E w : Lowering(u, w, h, p)
    BY <2>1, <2>2, Zenon DEF Lowering, LoweringAt
  <2> QED BY <2>3, <1>1, <1>3, Zenon DEF Outcome, out
<1> QED BY <1>2, <1>3

(* An edge that has been black is red then, and no rank is left to         *)
(* restore.                                                                *)
LEMMA LowerEdge ==
  ASSUME NEW t, NEW S, NEW b, Shape(t, S, b), NEW r, NEW p, NEW s,
         LoweringAt(t, r, p, s), ~Red(t, p, s)
  PROVE  Outcome(Done(Flip(t, p, s)), S)
<1> DEFINE u == Flip(t, p, s)
           o == Other(s)
<1>1. /\ p \in Names /\ s \in Sides /\ t.child[p] # Blank
      /\ Balance(t, r, p, s, 1) /\ LeafRule(t)
  BY Zenon DEF LoweringAt
<1>2. t \in Trees
  BY DEF Shape, ShapeType
<1>3. SameLinks(u, t) /\ u.red[p] = Flipped(t.red[p], s) /\ RedKept(u, t, {p})
  BY <1>1, <1>2, FlipLinks DEF RedKept
<1> HIDE DEF u
<1>4. o \in Sides /\ o # s /\ \A q \in Sides : q = s \/ q = o
  BY <1>1, SideFacts
<1>5. /\ r[p] = r[t.child[p][s]] + Diff(t, p, s) + 1
      /\ r[p] = r[t.child[p][o]] + Diff(t, p, o)
      /\ r[t.child[p][s]] \in Int /\ r[t.child[p][o]] \in Int
      /\ r[p] \in Int /\ r[p] >= 0
  BY <1>1, <1>4, GapRanks
<1>6. Diff(t, p, s) = 1 /\ Diff(u, p, s) = 2 /\ Diff(u, p, o) = Diff(t, p, o)
  BY <1>3, <1>4 DEF Red, Diff, Flipped
<1>8. OneFits(u, t, r, p, r[p])
  <2>1. /\ r[p] = r[t.child[p][s]] + Diff(u, p, s)
        /\ r[p] = r[t.child[p][o]] + Diff(u, p, o) /\ r[p] \in Nat
    BY <1>5, <1>6
  <2> HIDE DEF o
  <2> QED BY <2>1, <1>1, <1>4, Zenon DEF OneFits, LeafRule
<1>9. LeafRule(u) /\ \E w : Balance(u, w, t.up[p], Toward(t.up[p], p), r[p] - r[p])
  BY <1>1, <1>3, <1>8, RepaintOne
<1>10. \E w : Even(u, w)
  <2>1. r[p] - r[p] = 0
    BY <1>5
  <2> QED BY <2>1, <1>9, NoGap DEF Even
<1>11. \E d : Shape(u, S, d)
  BY <1>3, SameLinksShape
<1> QED BY <1>10, <1>11, DoneOutcome DEF u

(* If both edges of p are red, its rank goes down by one.                  *)
LEMMA LowerBoth ==
  ASSUME NEW t, NEW S, NEW b, Shape(t, S, b), NEW r, NEW p, NEW s,
         LoweringAt(t, r, p, s), Red(t, p, s), Red(t, p, Other(s))
  PROVE  Outcome(LostAt(Flip(t, p, Other(s)), t.up[p], p), S)
<1> DEFINE o == Other(s)
           u == Flip(t, p, o)
<1>1. /\ p \in Names /\ s \in Sides /\ t.child[p] # Blank
      /\ Balance(t, r, p, s, 1) /\ LeafRule(t)
  BY Zenon DEF LoweringAt
<1>2. t \in Trees
  BY DEF Shape, ShapeType
<1>4. o \in Sides /\ o # s /\ \A q \in Sides : q = s \/ q = o
  BY <1>1, SideFacts
<1>3. SameLinks(u, t) /\ u.red[p] = Flipped(t.red[p], o) /\ RedKept(u, t, {p})
  BY <1>1, <1>2, <1>4, FlipLinks DEF RedKept
<1> HIDE DEF u
<1>5. /\ r[p] = r[t.child[p][s]] + Diff(t, p, s) + 1
      /\ r[p] = r[t.child[p][o]] + Diff(t, p, o)
      /\ r[t.child[p][s]] \in Int /\ r[t.child[p][o]] \in Int
      /\ r[t.child[p][s]] >= -1
      /\ r[p] \in Int /\ r[p] >= 0
  BY <1>1, <1>4, GapRanks
<1>6. Diff(t, p, s) = 2 /\ Diff(t, p, o) = 2 /\ Diff(u, p, o) = 1 /\ Diff(u, p, s) = 2
  BY <1>3, <1>4 DEF Red, Diff, Flipped
<1>8. OneFits(u, t, r, p, r[p] - 1)
  <2>1. /\ r[p] - 1 = r[t.child[p][s]] + Diff(u, p, s)
        /\ r[p] - 1 = r[t.child[p][o]] + Diff(u, p, o) /\ r[p] - 1 \in Nat
    BY <1>5, <1>6
  <2> HIDE DEF o
  <2> QED BY <2>1, <1>1, <1>4, Zenon DEF OneFits, LeafRule
<1>9. /\ LeafRule(u)
      /\ \E w : Balance(u, w, t.up[p], Toward(t.up[p], p), r[p] - (r[p] - 1))
  BY <1>1, <1>3, <1>8, RepaintOne
<1>10. r[p] - (r[p] - 1) = 1 /\ u.up = t.up
  BY <1>3, <1>5 DEF SameLinks
<1>11. Shape(u, S, b)
  BY <1>3, SameLinksShape
<1>12. Outcome(LostAt(u, u.up[p], p), S)
  BY <1>1, <1>9, <1>10, <1>11, LostOutcome
<1> QED BY <1>10, <1>12 DEF u

(* The sibling of a subtree that is lower than its parent by three.        *)
SiblingAt(t, r, p, s, o, sib) ==
    /\ p \in Names /\ s \in Sides /\ o \in Sides /\ o # s
    /\ sib = t.child[p][o] /\ sib \in Names /\ sib # p /\ t.red[p] = {s}
    /\ Balance(t, r, p, s, 1) /\ LeafRule(t)
    /\ r[p] \in Int /\ r[p] >= 2 /\ r[sib] = r[p] - 1 /\ r[t.child[p][s]] = r[p] - 3
    /\ t.child[p][s] = Null <=> r[p] = 2
    /\ \A q \in Sides : r[sib] = r[t.child[sib][q]] + Diff(t, sib, q)
    /\ \A q \in Sides : r[t.child[sib][q]] \in Int
    /\ \A q \in Sides : t.child[sib][q] = Null <=> r[t.child[sib][q]] = -1

(* It is there.                                                            *)
LEMMA SiblingFacts ==
  ASSUME NEW t, NEW S, NEW b, Shape(t, S, b), NEW r, NEW p, NEW s,
         LoweringAt(t, r, p, s), Red(t, p, s), ~Red(t, p, Other(s))
  PROVE  SiblingAt(t, r, p, s, Other(s), t.child[p][Other(s)])
<1> DEFINE o == Other(s)
           sib == t.child[p][o]
           e == t.child[p][s]
<1>1. /\ p \in Names /\ s \in Sides /\ t.child[p] # Blank
      /\ Balance(t, r, p, s, 1) /\ LeafRule(t)
  BY Zenon DEF LoweringAt
<1>2. t \in Trees
  BY DEF Shape, ShapeType
<1>3. o \in Sides /\ o # s /\ \A q \in Sides : q = s \/ q = o
  BY <1>1, SideFacts
<1>4. t.red[p] = {s}
  <2>1. t.red[p] \subseteq Sides
    BY <1>1, <1>2, FieldTypes
  <2> QED BY <2>1, <1>3 DEF Red
<1>5. /\ r[p] = r[e] + Diff(t, p, s) + 1
      /\ r[p] = r[sib] + Diff(t, p, o)
      /\ r[e] \in Int /\ r[sib] \in Int /\ r[e] >= -1
      /\ e = Null <=> r[e] = -1
      /\ sib = Null <=> r[sib] = -1
      /\ r[p] \in Int /\ r[p] >= 0
  BY <1>1, <1>3, GapRanks
<1>6. Diff(t, p, s) = 2 /\ Diff(t, p, o) = 1
  BY <1>3, <1>4 DEF Diff
<1> HIDE DEF e
<1>7. /\ r[p] >= 2 /\ r[sib] = r[p] - 1 /\ r[e] = r[p] - 3 /\ (e = Null <=> r[p] = 2)
      /\ sib # Null
  BY <1>5, <1>6
<1>8. sib \in Names /\ sib # p
  BY <1>1, <1>3, <1>7, ChildFacts
<1> HIDE DEF sib
<1>9. /\ \A q \in Sides : r[sib] = r[t.child[sib][q]] + Diff(t, sib, q)
      /\ \A q \in Sides : r[t.child[sib][q]] \in Int
      /\ \A q \in Sides : t.child[sib][q] = Null <=> r[t.child[sib][q]] = -1
  BY <1>1, <1>8, PlainRanks
<1> QED BY <1>1, <1>3, <1>4, <1>5, <1>7, <1>8, <1>9, Zenon DEF SiblingAt, sib, e

(* If both edges of the sibling are red, its rank and the rank of p go     *)
(* down by one.                                                            *)
LEMMA LowerSibling ==
  ASSUME NEW t, NEW S, NEW b, Shape(t, S, b), NEW r, NEW p, NEW s, NEW o, NEW sib,
         SiblingAt(t, r, p, s, o, sib), t.red[sib] = Sides
  PROVE  Outcome(LostAt(Paint(t, sib, {}), t.up[p], p), S)
<1> DEFINE u == Paint(t, sib, {})
           C == {p, sib}
           w == [m \in Nodes |-> IF m = p THEN r[p] - 1
                                 ELSE IF m = sib THEN r[p] - 2 ELSE r[m]]
<1>1. /\ p \in Names /\ s \in Sides /\ o \in Sides /\ o # s /\ sib # p
      /\ sib = t.child[p][o] /\ sib \in Names /\ t.red[p] = {s}
      /\ Balance(t, r, p, s, 1) /\ LeafRule(t) /\ t.red[sib] = Sides
  BY Zenon DEF SiblingAt
<1>2. /\ r[p] \in Int /\ r[p] >= 2 /\ r[sib] = r[p] - 1 /\ r[t.child[p][s]] = r[p] - 3
      /\ \A q \in Sides : r[sib] = r[t.child[sib][q]] + Diff(t, sib, q)
      /\ \A q \in Sides : r[t.child[sib][q]] \in Int
  BY Zenon DEF SiblingAt
<1>3. t \in Trees /\ p # Null /\ sib # Null /\ \A q \in Sides : q = s \/ q = o
  BY <1>1, TreeAssumption, SideFacts DEF Shape, ShapeType
<1>4. SameLinks(u, t) /\ \A m \in Names : u.red[m] = IF m = sib THEN {} ELSE t.red[m]
  BY <1>1, <1>3, PaintLinks
<1> HIDE DEF u
<1>5. /\ u.red[p] = {s} /\ u.red[sib] = {} /\ RedKept(u, t, C) /\ u.child = t.child
      /\ u.up = t.up
  BY <1>1, <1>4 DEF RedKept, SameLinks
<1>6. w[p] = r[p] - 1 /\ w[sib] = r[p] - 2 /\ \A m \in Nodes \ C : w[m] = r[m]
  BY <1>1 DEF Nodes
<1>7. RankType(w)
  <2>1. RankType(r)
    BY <1>1 DEF Balance
  <2>2. w[Null] = r[Null] /\ w \in [Nodes -> Int]
    BY <2>1, <1>2, <1>3 DEF RankType, Nodes
  <2>3. \A m \in Names : w[m] >= 0
    BY <2>1, <1>2 DEF RankType, Nodes
  <2> QED BY <2>1, <2>2, <2>3 DEF RankType
<1> HIDE DEF w
<1>8. /\ t.up[sib] = p /\ t.child[p][s] \in Nodes \ C
      /\ \A q \in Sides : t.child[sib][q] \in Nodes \ C
  <2>1. /\ t.up[sib] = p
        /\ \A q \in Sides : t.child[p][q] \in Nodes /\ t.child[sib][q] \in Nodes
    BY <1>1, <1>3, ChildFacts
  <2>2. \A m \in Names, q \in Sides : t.child[m][q] = p => p \in b[m]
    BY <1>1, <1>3, ChildFacts
  <2>3. p \notin b[sib] /\ \A q \in Sides : t.child[p][q] # p /\ t.child[sib][q] # sib
    BY <1>1, ChildFacts
  <2>4. t.child[p][s] # sib
    BY <1>1, <1>3, <2>1, ParentOnly
  <2> QED BY <1>1, <2>1, <2>2, <2>3, <2>4
<1>9. t.up[p] \notin C
  <2>1. t.up[p] # p
    BY <1>1, ChildFacts
  <2>2. t.up[p] # sib
    <3> SUFFICES ASSUME t.up[p] = sib PROVE FALSE
      OBVIOUS
    <3>1. t.child[sib][Toward(sib, p)] = p /\ Toward(sib, p) \in Sides
      BY <1>1, <1>3, ParentFacts
    <3> QED BY <3>1, <1>8
  <2> QED BY <2>1, <2>2
<1>10. Repainted(u, t, r, w, C, p)
  <2>1. ASSUME NEW m \in Names \ C, NEW q \in Sides, t.child[m][q] \in C
        PROVE  t.child[m][q] = p
    <3>1. t.child[m][q] # sib
      BY <1>1, <1>8, ParentOnly
    <3> QED BY <3>1, <2>1
  <2> QED BY <2>1, <1>1, <1>4, <1>5, <1>6, Zenon DEF Repainted, LeafRule
<1>11. Fits(u, w, C)
  <2>1. /\ Diff(t, sib, s) = 2 /\ Diff(t, sib, o) = 2 /\ Diff(u, sib, s) = 1
        /\ Diff(u, sib, o) = 1 /\ Diff(u, p, s) = 2 /\ Diff(u, p, o) = 1
    BY <1>1, <1>5 DEF Diff
  <2>2. \A q \in Sides : w[t.child[sib][q]] = r[t.child[sib][q]]
    BY <1>6, <1>8
  <2>3. w[t.child[p][s]] = r[t.child[p][s]]
    BY <1>6, <1>8
  <2>4. ASSUME NEW q \in Sides PROVE w[sib] = w[u.child[sib][q]] + Diff(u, sib, q)
    <3>1. Diff(t, sib, q) = 2 /\ Diff(u, sib, q) = 1
      BY <2>1, <1>3
    <3>2. r[sib] = r[t.child[sib][q]] + Diff(t, sib, q) /\ r[t.child[sib][q]] \in Int
      BY <1>2
    <3> QED BY <3>1, <3>2, <2>2, <1>2, <1>5, <1>6
  <2>5. w[p] = w[u.child[p][s]] + Diff(u, p, s)
    BY <2>1, <2>3, <1>2, <1>5, <1>6
  <2>6. w[p] = w[u.child[p][o]] + Diff(u, p, o)
    <3>1. u.child[p][o] = sib
      BY <1>1, <1>5
    <3> QED BY <3>1, <2>1, <1>2, <1>6
  <2>7. u.child[p] # Blank
    BY <1>1, <1>3, <1>5, BlankFacts
  <2> QED BY <2>4, <2>5, <2>6, <2>7, <1>3, <1>5, Zenon DEF Fits
<1>12. LeafRule(u) /\ Balance(u, w, t.up[p], Toward(t.up[p], p), r[p] - w[p])
  <2>1. C \in SUBSET Names /\ p \in C
    BY <1>1
  <2> HIDE DEF C
  <2> QED BY <2>1, <1>1, <1>7, <1>9, <1>10, <1>11, Repaint
<1>13. r[p] - w[p] = 1
  BY <1>2, <1>6
<1>14. Shape(u, S, b)
  BY <1>4, SameLinksShape
<1>15. Outcome(LostAt(u, u.up[p], p), S)
  <2>1. \E z : Balance(u, z, u.up[p], Toward(u.up[p], p), 1)
    BY <1>5, <1>12, <1>13
  <2> QED BY <2>1, <1>1, <1>12, <1>14, LostOutcome
<1> QED BY <1>5, <1>15 DEF u

(* If its inner edge is red and its outer edge is not, one rotation        *)
(* restores all ranks.                                                     *)
LEMMA LowerOnce ==
  ASSUME NEW t, NEW S, NEW b, Shape(t, S, b), NEW r, NEW p, NEW s, NEW o, NEW sib,
         SiblingAt(t, r, p, s, o, sib), t.red[sib] = {s}
  PROVE  Outcome(Done(Rotate(Flip(Flip(t, sib, o), p, s), p, s)), S)
<1> DEFINE f == Flip(t, sib, o)
           v == Flip(f, p, s)
           u == Rotate(v, p, s)
<1>1. /\ p \in Names /\ s \in Sides /\ o \in Sides /\ o # s /\ sib # p
      /\ sib \in Names /\ t.red[p] = {s}
      /\ Balance(t, r, p, s, 1) /\ LeafRule(t) /\ t.red[sib] = {s}
  BY Zenon DEF SiblingAt
<1>0. sib = t.child[p][o]
  BY Zenon DEF SiblingAt
<1>2. /\ r[p] \in Int /\ r[p] >= 2 /\ r[sib] = r[p] - 1 /\ r[t.child[p][s]] = r[p] - 3
      /\ \A q \in Sides : r[sib] = r[t.child[sib][q]] + Diff(t, sib, q)
      /\ \A q \in Sides : r[t.child[sib][q]] \in Int
  BY Zenon DEF SiblingAt
<1>3. t \in Trees /\ Other(o) = s /\ Other(s) = o
  BY <1>1, SideFacts DEF Shape, ShapeType
<1>4. SameLinks(f, t) /\ \A m \in Names :
          f.red[m] = IF m = sib THEN Flipped(t.red[sib], o) ELSE t.red[m]
  BY <1>1, <1>3, FlipLinks
<1> HIDE DEF f
<1>5. SameLinks(v, f) /\ \A m \in Names :
          v.red[m] = IF m = p THEN Flipped(f.red[p], s) ELSE f.red[m]
  <2>1. f \in Trees
    BY <1>4 DEF SameLinks
  <2> QED BY <2>1, <1>1, FlipLinks
<1> HIDE DEF v
<1>6. SameLinks(v, t)
  BY <1>4, <1>5, SameLinksTwice
<1>7. v.red[p] = {} /\ v.red[sib] = {s, o} /\ RedKept(v, t, {p, sib})
  BY <1>1, <1>4, <1>5 DEF Flipped, RedKept
<1>8. u \in Trees /\ u.red = v.red /\ (\E d : Shape(u, S, d)) /\ Pivot(u, t, p, o, sib)
  <2>1. SingleTurn(Rotate(v, p, Other(o)), v, t, S, p, o, sib)
    BY <1>0, <1>1, <1>6, SingleLinks
  <2>2. SingleTurn(u, v, t, S, p, o, sib)
    BY <2>1, <1>3
  <2> HIDE DEF u
  <2>3. u \in Trees /\ u.red = v.red /\ SameLinks(u, u)
    BY <2>2 DEF SingleTurn, SameLinks
  <2> QED BY <2>2, <2>3, Zenon DEF SingleTurn
<1> HIDE DEF u
<1>9. /\ Diff(u, p, s) = 1 /\ Diff(u, p, o) = 1 /\ Diff(u, sib, s) = 2
      /\ Diff(u, sib, o) = 2
      /\ Diff(t, sib, s) = 2 /\ Diff(t, sib, o) = 1
      /\ u.red[p] = {} /\ RedKept(u, t, {p, sib})
  BY <1>1, <1>7, <1>8 DEF Diff, RedKept
<1>10. SingleFits(u, t, r, p, o, sib, r[p] - 2)
  <2>1. /\ r[p] - 1 = r[t.child[sib][s]] + 2 /\ r[p] - 1 = r[t.child[sib][o]] + 1
        /\ r[t.child[sib][s]] \in Int /\ r[t.child[sib][o]] \in Int
    BY <1>1, <1>2, <1>9
  <2>2. /\ r[p] - 2 \in Nat
        /\ r[p] - 2 = r[t.child[sib][s]] + Diff(u, p, o)
        /\ r[p] - 2 = r[t.child[p][s]] + Diff(u, p, s)
        /\ r[p] = r[t.child[sib][o]] + Diff(u, sib, o)
        /\ r[p] = r[p] - 2 + Diff(u, sib, s)
    BY <2>1, <1>2, <1>9
  <2> QED BY <2>2, <1>3, <1>9, Zenon DEF SingleFits
<1>11. \E w : Even(u, w)
  <2>1. t.child[p][o] \in Names /\ p \in {p, sib}
    BY <1>0, <1>1
  <2> QED BY <1>0, <2>1, <1>1, <1>8, <1>9, <1>10, SingleRanks
<1> QED BY <1>8, <1>11, DoneOutcome DEF u, v, f

(* If both its edges are black, one rotation restores all ranks.           *)
LEMMA LowerInner ==
  ASSUME NEW t, NEW S, NEW b, Shape(t, S, b), NEW r, NEW p, NEW s, NEW o, NEW sib,
         SiblingAt(t, r, p, s, o, sib), t.red[sib] = {}
  PROVE  Outcome(Done(Rotate(Flip(t, sib, o), p, s)), S)
<1> DEFINE v == Flip(t, sib, o)
           u == Rotate(v, p, s)
<1>1. /\ p \in Names /\ s \in Sides /\ o \in Sides /\ o # s /\ sib # p
      /\ sib \in Names /\ t.red[p] = {s}
      /\ Balance(t, r, p, s, 1) /\ LeafRule(t) /\ t.red[sib] = {}
  BY Zenon DEF SiblingAt
<1>0. sib = t.child[p][o]
  BY Zenon DEF SiblingAt
<1>2. /\ r[p] \in Int /\ r[p] >= 2 /\ r[sib] = r[p] - 1 /\ r[t.child[p][s]] = r[p] - 3
      /\ \A q \in Sides : r[sib] = r[t.child[sib][q]] + Diff(t, sib, q)
      /\ \A q \in Sides : r[t.child[sib][q]] \in Int
      /\ \A q \in Sides : t.child[sib][q] = Null <=> r[t.child[sib][q]] = -1
  BY Zenon DEF SiblingAt
<1>3. t \in Trees /\ Other(o) = s /\ Other(s) = o
  BY <1>1, SideFacts DEF Shape, ShapeType
<1>4. SameLinks(v, t) /\ \A m \in Names :
          v.red[m] = IF m = sib THEN Flipped(t.red[sib], o) ELSE t.red[m]
  BY <1>1, <1>3, FlipLinks
<1> HIDE DEF v
<1>7. v.red[p] = {s} /\ v.red[sib] = {o} /\ RedKept(v, t, {p, sib})
  BY <1>1, <1>4 DEF Flipped, RedKept
<1>8. u \in Trees /\ u.red = v.red /\ (\E d : Shape(u, S, d)) /\ Pivot(u, t, p, o, sib)
  <2>1. SingleTurn(Rotate(v, p, Other(o)), v, t, S, p, o, sib)
    BY <1>0, <1>1, <1>4, SingleLinks
  <2>2. SingleTurn(u, v, t, S, p, o, sib)
    BY <2>1, <1>3
  <2> HIDE DEF u
  <2>3. u \in Trees /\ u.red = v.red /\ SameLinks(u, u)
    BY <2>2 DEF SingleTurn, SameLinks
  <2> QED BY <2>2, <2>3, Zenon DEF SingleTurn
<1> HIDE DEF u
<1>9. /\ Diff(u, p, s) = 2 /\ Diff(u, p, o) = 1 /\ Diff(u, sib, s) = 1
      /\ Diff(u, sib, o) = 2
      /\ Diff(t, sib, s) = 1 /\ Diff(t, sib, o) = 1
      /\ RedKept(u, t, {p, sib})
  BY <1>1, <1>7, <1>8 DEF Diff, RedKept
<1>10. SingleFits(u, t, r, p, o, sib, r[p] - 1)
  <2>1. /\ r[p] - 1 = r[t.child[sib][s]] + 1 /\ r[p] - 1 = r[t.child[sib][o]] + 1
        /\ r[t.child[sib][s]] \in Int /\ r[t.child[sib][o]] \in Int
    BY <1>1, <1>2, <1>9
  <2>2. /\ r[p] - 1 \in Nat
        /\ r[p] - 1 = r[t.child[sib][s]] + Diff(u, p, o)
        /\ r[p] - 1 = r[t.child[p][s]] + Diff(u, p, s)
        /\ r[p] = r[t.child[sib][o]] + Diff(u, sib, o)
        /\ r[p] = r[p] - 1 + Diff(u, sib, s)
    BY <2>1, <1>2, <1>9
  <2>3. t.child[sib][s] # Null
    <3>1. r[t.child[sib][s]] # -1
      BY <2>1, <1>2
    <3> QED BY <3>1, <1>1, <1>2
  <2> QED BY <2>2, <2>3, <1>3, Zenon DEF SingleFits
<1>11. \E w : Even(u, w)
  <2>1. t.child[p][o] \in Names /\ p \in {p, sib}
    BY <1>0, <1>1
  <2> QED BY <1>0, <2>1, <1>1, <1>8, <1>9, <1>10, SingleRanks
<1> QED BY <1>8, <1>11, DoneOutcome DEF u, v

(* The colours the flips of a double rotation of RB_REMOVE_COLOR are for.  *)
Bent(w, n, p, c, s, o) ==
    LET outer == IF Red(w, c, o) THEN Flip(w, n, s) ELSE w
    IN IF Red(w, c, s) THEN Flip(outer, p, o) ELSE outer

(* The colours they leave.                                                 *)
BentColours(u, w, n, p, c, s, o) ==
    /\ SameLinks(u, w) /\ RedKept(u, w, {p, n, c})
    /\ u.red[n] = (IF Red(w, c, o) THEN {s} ELSE {})
    /\ u.red[p] = (IF Red(w, c, s) THEN {o} ELSE {})

(* They leave these.                                                       *)
LEMMA BentLinks ==
  ASSUME NEW w \in Trees, NEW n \in Names, NEW p \in Names, NEW c \in Names,
         NEW s \in Sides, NEW o \in Sides,
         n # p, c # n, c # p, w.red[n] = {}, w.red[p] = {}
  PROVE  BentColours(Bent(w, n, p, c, s, o), w, n, p, c, s, o)
<1> DEFINE x == IF Red(w, c, o) THEN Flip(w, n, s) ELSE w
           u == IF Red(w, c, s) THEN Flip(x, p, o) ELSE x
<1>1. /\ SameLinks(x, w) /\ RedKept(x, w, {n})
      /\ x.red[n] = (IF Red(w, c, o) THEN {s} ELSE {})
  <2>1. CASE Red(w, c, o)
    <3>1. SameLinks(Flip(w, n, s), w) /\ \A m \in Names :
              Flip(w, n, s).red[m] = IF m = n THEN Flipped(w.red[n], s) ELSE w.red[m]
      BY FlipLinks
    <3>2. x = Flip(w, n, s)
      BY <2>1
    <3> HIDE DEF x
    <3> QED BY <2>1, <3>1, <3>2 DEF Flipped, RedKept
  <2>2. CASE ~Red(w, c, o)
    BY <2>2 DEF RedKept, SameLinks
  <2> QED BY <2>1, <2>2
<1> HIDE DEF x
<1>2. x \in Trees /\ x.red[p] = {}
  BY <1>1 DEF SameLinks, RedKept
<1>3. /\ SameLinks(u, x) /\ RedKept(u, x, {p})
      /\ u.red[p] = (IF Red(w, c, s) THEN {o} ELSE {})
  <2>1. CASE Red(w, c, s)
    <3>1. SameLinks(Flip(x, p, o), x) /\ \A m \in Names :
              Flip(x, p, o).red[m] = IF m = p THEN Flipped(x.red[p], o) ELSE x.red[m]
      BY <1>2, FlipLinks
    <3>2. u = Flip(x, p, o)
      BY <2>1
    <3> HIDE DEF u
    <3> QED BY <2>1, <3>1, <3>2, <1>2 DEF Flipped, RedKept
  <2>2. CASE ~Red(w, c, s)
    BY <2>2, <1>2 DEF RedKept, SameLinks
  <2> QED BY <2>1, <2>2
<1> HIDE DEF u
<1>4. SameLinks(u, w)
  BY <1>1, <1>3, SameLinksTwice
<1>5. BentColours(u, w, n, p, c, s, o)
  BY <1>1, <1>3, <1>4 DEF BentColours, RedKept
<1> QED BY <1>5 DEF u, x, Bent

(* If its outer edge is red and its inner edge is not, the sibling has an  *)
(* inner child.                                                            *)
LEMMA TwiceSibling ==
  ASSUME NEW t, NEW S, NEW b, Shape(t, S, b), NEW r, NEW p, NEW s, NEW o, NEW sib,
         SiblingAt(t, r, p, s, o, sib), t.red[sib] = {o}
  PROVE  /\ Twice(t, p, o, sib, t.child[sib][s])
         /\ r[t.child[sib][s]] = r[p] - 2 /\ r[t.child[sib][o]] = r[p] - 3
<1> DEFINE x == t.child[sib][s]
<1>1. /\ p \in Names /\ s \in Sides /\ o \in Sides /\ o # s
      /\ sib = t.child[p][o] /\ sib \in Names /\ t.red[sib] = {o}
  BY Zenon DEF SiblingAt
<1>2. /\ r[p] \in Int /\ r[p] >= 2 /\ r[sib] = r[p] - 1
      /\ \A q \in Sides : r[sib] = r[t.child[sib][q]] + Diff(t, sib, q)
      /\ \A q \in Sides : r[t.child[sib][q]] \in Int
      /\ \A q \in Sides : t.child[sib][q] = Null <=> r[t.child[sib][q]] = -1
  BY Zenon DEF SiblingAt
<1>3. Other(o) = s
  BY <1>1, SideFacts
<1>4. Diff(t, sib, s) = 1 /\ Diff(t, sib, o) = 2
  BY <1>1 DEF Diff
<1>5. r[x] = r[p] - 2 /\ r[t.child[sib][o]] = r[p] - 3
  BY <1>1, <1>2, <1>4
<1>6. x \in Names
  <2>1. x # Null
    BY <1>1, <1>2, <1>5, SMTT(20)
  <2> QED BY <2>1, <1>1, ChildFacts
<1>7. Twice(t, p, o, sib, x)
  BY <1>1, <1>3, <1>6 DEF Twice
<1> QED BY <1>5, <1>7

(* Then two rotations restore all ranks.                                   *)
LEMMA LowerTwice ==
  ASSUME NEW t, NEW S, NEW b, Shape(t, S, b), NEW r, NEW p, NEW s, NEW o, NEW sib,
         SiblingAt(t, r, p, s, o, sib), t.red[sib] = {o}, NEW x, Twice(t, p, o, sib, x)
  PROVE  LET turned == Rotate(Flip(Flip(t, sib, o), p, s), sib, o)
         IN Outcome(Done(Rotate(Paint(Bent(turned, sib, p, x, s, o), x, Sides), p, s)),
                    S)
<1> DEFINE f == Flip(t, sib, o)
           v == Flip(f, p, s)
           turned == Rotate(v, sib, o)
           fixed == Bent(turned, sib, p, x, s, o)
           z == Paint(fixed, x, Sides)
           u == Rotate(z, p, s)
<1>1. /\ p \in Names /\ s \in Sides /\ o \in Sides /\ o # s /\ sib # p
      /\ sib \in Names /\ t.red[p] = {s}
      /\ Balance(t, r, p, s, 1) /\ LeafRule(t) /\ t.red[sib] = {o}
  BY Zenon DEF SiblingAt
<1>0. sib = t.child[p][o]
  BY Zenon DEF SiblingAt
<1>2. /\ r[p] \in Int /\ r[p] >= 2 /\ r[sib] = r[p] - 1 /\ r[t.child[p][s]] = r[p] - 3
      /\ \A q \in Sides : r[sib] = r[t.child[sib][q]] + Diff(t, sib, q)
      /\ \A q \in Sides : r[t.child[sib][q]] \in Int
      /\ \A q \in Sides : t.child[sib][q] = Null <=> r[t.child[sib][q]] = -1
  BY Zenon DEF SiblingAt
<1>3. t \in Trees /\ Other(o) = s /\ Other(s) = o
  BY <1>1, SideFacts DEF Shape, ShapeType
<1>4. Diff(t, sib, s) = 1 /\ Diff(t, sib, o) = 2
  BY <1>1 DEF Diff
<1>5. r[x] = r[p] - 2 /\ r[t.child[sib][o]] = r[p] - 3
  <2>1. x = t.child[sib][s]
    BY <1>3, Zenon DEF Twice
  <2> QED BY <2>1, TwiceSibling
<1>6. x \in Names
  BY Zenon DEF Twice
<1>8. x # sib /\ x # p
  BY <1>1, TwiceLinks DEF TwiceFacts
<1>9. SameLinks(f, t) /\ \A m \in Names :
          f.red[m] = IF m = sib THEN Flipped(t.red[sib], o) ELSE t.red[m]
  BY <1>1, <1>3, FlipLinks
<1> HIDE DEF f
<1>10. SameLinks(v, f) /\ \A m \in Names :
           v.red[m] = IF m = p THEN Flipped(f.red[p], s) ELSE f.red[m]
  <2>1. f \in Trees
    BY <1>9 DEF SameLinks
  <2> QED BY <2>1, <1>1, FlipLinks
<1> HIDE DEF v
<1>11. SameLinks(v, t)
  BY <1>9, <1>10, SameLinksTwice
<1>12. /\ v.red[p] = {} /\ v.red[sib] = {} /\ v.red[x] = t.red[x]
       /\ RedKept(v, t, {p, sib, x})
  BY <1>1, <1>6, <1>8, <1>9, <1>10 DEF Flipped, RedKept
<1>13. DoubleTurn(turned, v, t, S, p, o, sib, x)
  BY <1>1, <1>11, DoubleLinks
<1> HIDE DEF turned
<1>14. turned \in Trees /\ turned.red = v.red
  BY <1>13, Zenon DEF DoubleTurn
<1>15. BentColours(fixed, turned, sib, p, x, s, o)
  <2>1. turned.red[sib] = {} /\ turned.red[p] = {}
    BY <1>12, <1>14
  <2> QED BY <2>1, <1>1, <1>6, <1>8, <1>14, BentLinks
<1> HIDE DEF fixed
<1>16. SameLinks(z, fixed) /\ \A m \in Names :
           z.red[m] = IF m = x THEN Sides ELSE fixed.red[m]
  <2>1. fixed \in Trees
    BY <1>15 DEF BentColours, SameLinks
  <2> QED BY <2>1, <1>6, PaintLinks
<1> HIDE DEF z
<1>17. /\ z.red[sib] = (IF o \in t.red[x] THEN {s} ELSE {})
       /\ z.red[p] = (IF s \in t.red[x] THEN {o} ELSE {})
       /\ z.red[x] = Sides /\ RedKept(z, t, {p, sib, x})
  <2>1. /\ fixed.red[sib] = (IF o \in t.red[x] THEN {s} ELSE {})
        /\ fixed.red[p] = (IF s \in t.red[x] THEN {o} ELSE {})
    BY <1>12, <1>14, <1>15 DEF BentColours, Red
  <2>2. RedKept(fixed, t, {p, sib, x})
    BY <1>12, <1>14, <1>15 DEF BentColours, RedKept
  <2> QED BY <2>1, <2>2, <1>1, <1>6, <1>8, <1>16 DEF RedKept
<1>18. SameLinks(z, turned)
  BY <1>15, <1>16, SameLinksTwice DEF BentColours
<1>19. /\ u \in Trees /\ u.red = z.red /\ (\E d : Shape(u, S, d))
       /\ DoublePivot(u, t, p, o, sib, x)
  <2>1. LET y == Rotate(z, p, Other(o))
        IN /\ y \in Trees /\ y.red = z.red
           /\ \A a : SameLinks(a, y) =>
                 (\E d : Shape(a, S, d)) /\ DoublePivot(a, t, p, o, sib, x)
    BY <1>13, <1>18, Zenon DEF DoubleTurn
  <2>2. /\ u \in Trees /\ u.red = z.red
        /\ \A a : SameLinks(a, u) =>
              (\E d : Shape(a, S, d)) /\ DoublePivot(a, t, p, o, sib, x)
    BY <2>1, <1>3
  <2> HIDE DEF u
  <2>3. SameLinks(u, u)
    BY <2>2 DEF SameLinks
  <2> QED BY <2>2, <2>3, Zenon
<1> HIDE DEF u
<1>20. /\ Diff(u, p, s) = 1 /\ Diff(u, p, o) = Diff(t, x, s)
       /\ Diff(u, sib, o) = 1 /\ Diff(u, sib, s) = Diff(t, x, o)
       /\ Diff(u, x, s) = 2 /\ Diff(u, x, o) = 2 /\ RedKept(u, t, {p, sib, x})
  BY <1>1, <1>17, <1>19 DEF Diff, RedKept
<1>21. /\ r[x] = r[t.child[x][s]] + Diff(t, x, s)
       /\ r[x] = r[t.child[x][o]] + Diff(t, x, o)
       /\ r[t.child[x][s]] \in Int /\ r[t.child[x][o]] \in Int
       /\ t.child[x][s] = Null => r[t.child[x][s]] = -1
       /\ t.child[x][o] = Null => r[t.child[x][o]] = -1
  BY <1>1, <1>6, <1>8, PlainRanks
<1>22. DoubleFits(u, t, r, p, o, sib, x, r[p] - 2)
  <2>0. Diff(t, x, s) \in {1, 2} /\ Diff(t, x, o) \in {1, 2}
    BY DEF Diff
  <2>1. /\ r[p] - 2 \in Nat
        /\ r[p] - 2 = r[t.child[sib][o]] + Diff(u, sib, o)
        /\ r[p] - 2 = r[t.child[x][o]] + Diff(u, sib, s)
        /\ r[p] - 2 = r[t.child[x][s]] + Diff(u, p, o)
        /\ r[p] - 2 = r[t.child[p][s]] + Diff(u, p, s)
        /\ r[p] = r[p] - 2 + Diff(u, x, o)
        /\ r[p] = r[p] - 2 + Diff(u, x, s)
    BY <2>0, <1>2, <1>5, <1>20, <1>21
  <2>2. ASSUME t.child[sib][o] = Null, t.child[x][o] = Null PROVE u.red[sib] = {}
    <3>1. r[t.child[sib][o]] = -1
      BY <2>2, <1>1, <1>2
    <3>2. Diff(t, x, o) = 1
      BY <2>0, <2>1, <2>2, <3>1, <1>20, <1>21
    <3> QED BY <3>2, <1>17, <1>19 DEF Diff
  <2>3. ASSUME t.child[x][s] = Null, t.child[p][s] = Null PROVE u.red[p] = {}
    <3>1. r[p] = 2
      BY <2>3, Zenon DEF SiblingAt
    <3>2. Diff(t, x, s) = 1
      BY <2>0, <2>1, <2>3, <3>1, <1>20, <1>21
    <3> QED BY <3>2, <1>17, <1>19 DEF Diff
  <2> QED BY <2>1, <2>2, <2>3, <1>3, Zenon DEF DoubleFits
<1>23. \E w : Even(u, w)
  <2>1. p \in {p, sib, x}
    OBVIOUS
  <2> QED BY <2>1, <1>1, <1>19, <1>20, <1>22, DoubleRanks
<1>24. Outcome(Done(u), S)
  BY <1>19, <1>23, DoneOutcome
<1> QED BY <1>24, Zenon DEF u, z, fixed, turned, v, f

(* A turn of RB_REMOVE_COLOR: the tree keeps its shape and its nodes, and  *)
(* all ranks are restored or the subtree p is what has lost a rank.        *)
LEMMA LoweredKeeps ==
  ASSUME NEW t, NEW S, NEW b, Shape(t, S, b), NEW r, NEW p, NEW e, Lowering(t, r, p, e)
  PROVE  Outcome(Lowered(t, p, e), S)
<1> DEFINE s == SideOf(t, p, e)
           o == Other(s)
           sib == t.child[p][o]
           x == t.child[sib][s]
           flipped == Flip(t, sib, o)
           turned == Rotate(Flip(flipped, p, s), sib, o)
           out == Lowered(t, p, e)
<1>1. out = IF ~Red(t, p, s) THEN Done(Flip(t, p, s))
            ELSE IF Red(t, p, o) THEN LostAt(Flip(t, p, o), t.up[p], p)
            ELSE IF t.red[sib] = Sides THEN LostAt(Paint(t, sib, {}), t.up[p], p)
            ELSE IF Red(flipped, sib, s)
                 THEN Done(Rotate(Flip(flipped, p, s), p, s))
            ELSE IF Red(flipped, sib, o) THEN Done(Rotate(flipped, p, s))
            ELSE Done(Rotate(Paint(Bent(turned, sib, p, x, s, o), x, Sides), p, s))
  BY Zenon DEF Lowered, Bent
<1>2. LoweringAt(t, r, p, s)
  BY DEF Lowering
<1>3. p \in Names /\ s \in Sides /\ t \in Trees
  BY <1>2 DEF LoweringAt, Shape, ShapeType
<1> HIDE DEF s, out
<1>4. CASE ~Red(t, p, s)
  <2>1. out = Done(Flip(t, p, s))
    BY <1>1, <1>4
  <2> QED BY <2>1, <1>2, <1>4, LowerEdge DEF out
<1>5. CASE Red(t, p, s) /\ Red(t, p, o)
  <2>1. out = LostAt(Flip(t, p, o), t.up[p], p)
    BY <1>1, <1>5, Zenon
  <2> QED BY <2>1, <1>2, <1>5, LowerBoth DEF out
<1>6. CASE Red(t, p, s) /\ ~Red(t, p, o)
  <2>1. SiblingAt(t, r, p, s, o, sib)
    BY <1>2, <1>6, SiblingFacts
  <2>2. o \in Sides /\ o # s /\ sib \in Names
    BY <2>1, Zenon DEF SiblingAt
  <2>3. t.red[sib] \subseteq Sides /\ \A q \in Sides : q = s \/ q = o
    BY <2>2, <1>3, FieldTypes, SideFacts
  <2>4. flipped.red[sib] = Flipped(t.red[sib], o)
    BY <2>2, <1>3, FlipLinks
  <2>5. /\ Red(flipped, sib, s) <=> s \in t.red[sib]
        /\ Red(flipped, sib, o) <=> o \notin t.red[sib]
    BY <2>2, <2>4 DEF Red, Flipped
  <2> HIDE DEF o, sib
  <2>6. CASE t.red[sib] = Sides
    <3>1. out = LostAt(Paint(t, sib, {}), t.up[p], p)
      BY <1>1, <1>6, <2>6, Zenon
    <3> QED BY <3>1, <2>1, <2>6, LowerSibling DEF out
  <2>7. CASE t.red[sib] = {s}
    <3>1. t.red[sib] # Sides
      BY <2>2, <2>7
    <3>2. out = Done(Rotate(Flip(flipped, p, s), p, s))
      BY <1>1, <1>6, <2>5, <2>7, <3>1, Zenon
    <3> QED BY <3>2, <2>1, <2>7, LowerOnce DEF out
  <2>8. CASE t.red[sib] = {}
    <3>1. t.red[sib] # Sides
      BY <2>2, <2>8
    <3>2. out = Done(Rotate(flipped, p, s))
      BY <1>1, <1>6, <2>5, <2>8, <3>1, Zenon
    <3> QED BY <3>2, <2>1, <2>8, LowerInner DEF out
  <2>9. CASE t.red[sib] = {o}
    <3>1. t.red[sib] # Sides /\ s \notin t.red[sib] /\ o \in t.red[sib]
      BY <2>2, <2>9, <1>3
    <3>2. out = Done(Rotate(Paint(Bent(turned, sib, p, x, s, o), x, Sides), p, s))
      BY <1>1, <1>6, <2>5, <3>1, Zenon
    <3>3. Twice(t, p, o, sib, x)
      BY <2>1, <2>9, TwiceSibling
    <3> HIDE DEF x
    <3> QED BY <3>2, <3>3, <2>1, <2>9, LowerTwice, Zenon DEF out
  <2> QED BY <2>3, <2>6, <2>7, <2>8, <2>9, <2>2, <1>3
<1> QED BY <1>4, <1>5, <1>6

-----------------------------------------------------------------------------

(* A set of natural numbers has a least one.                               *)
LEMMA LeastNatural ==
  ASSUME NEW T \in SUBSET Nat, T # {}
  PROVE  \E n \in T : \A m \in T : n <= m
<1> DEFINE R == OpToRel(<, Nat)
<1>1. IsWellFoundedOn(R, Nat)
  BY NatLessThanWellFounded, Zenon
<1>2. \A x, y \in Nat : x < y => <<x, y>> \in R
  BY DEF OpToRel
<1> HIDE DEF R
<1>3. PICK x \in T : \A y \in T : <<y, x>> \notin R
  BY <1>1, WFMin
<1>4. ASSUME NEW m \in T PROVE x <= m
  <2>1. ~(m < x)
    BY <1>2, <1>3
  <2> QED BY <2>1
<1> QED BY <1>4

(* Nothing is below or above a node that is in no tree.                    *)
LEMMA DeadBelow ==
  ASSUME NEW t, NEW S, NEW b, Shape(t, S, b), NEW n \in Names \ S
  PROVE  b[n] = {n} /\ t.up[n] = Null /\ \A q \in Sides : t.child[n][q] = Null
<1>1. t.up[n] = Null /\ t.child[n] = Blank
  BY DEF Shape, Dead
<1>2. \A q \in Sides : t.child[n][q] = Null
  BY <1>1 DEF Blank
<1>3. b[Null] = {}
  BY DEF Shape, ShapeType
<1>4. b[n] = {n} \cup b[t.child[n]["left"]] \cup b[t.child[n]["right"]]
  BY DEF Shape, Unfolds
<1> QED BY <1>1, <1>2, <1>3, <1>4 DEF Sides

(* What is below a node is finite.                                         *)
LEMMA FiniteBelow ==
  ASSUME NEW t, NEW S, NEW b, Shape(t, S, b), NEW n \in Names
  PROVE  IsFiniteSet(b[n])
<1>1. CASE n \in S
  BY <1>1, FS_Subset DEF Shape, ShapeType, Rooted
<1>2. CASE n \notin S
  <2>1. b[n] = {n}
    BY <1>2, DeadBelow
  <2> QED BY <2>1, FS_Singleton
<1> QED BY <1>1, <1>2

(* Induction from the leaves: of any set of nodes, one has no child in it. *)
LEMMA BottomUp ==
  ASSUME NEW t, NEW S, NEW b, Shape(t, S, b), NEW T \in SUBSET Names, T # {}
  PROVE  \E n \in T : \A q \in Sides : t.child[n][q] \notin T
<1> DEFINE B == {b[n] : n \in T}
<1>1. IsWellFoundedOn(StrictSubsetOrdering(Names), FiniteSubsetsOf(Names))
  BY FS_StrictSubsetOrderingWellFounded
<1>2. B \subseteq FiniteSubsetsOf(Names) /\ B # {}
  <2>1. \A n \in T : IsFiniteSet(b[n]) /\ b[n] \subseteq Names
    BY FiniteBelow DEF Shape, ShapeType, Nodes
  <2> QED BY <2>1 DEF FiniteSubsetsOf
<1>3. PICK x \in B : \A y \in B : <<y, x>> \notin StrictSubsetOrdering(Names)
  BY <1>1, <1>2, WFMin
<1>4. PICK n \in T : x = b[n]
  BY <1>3
<1>5. ASSUME NEW q \in Sides, t.child[n][q] \in T
      PROVE  FALSE
  <2> DEFINE c == t.child[n][q]
  <2>1. b[c] \subseteq b[n] /\ n \notin b[c] /\ n \in b[n] /\ b[n] \subseteq Names
    BY ChildFacts
  <2>2. b[c] \in B
    BY <1>5
  <2> HIDE DEF c, B
  <2>3. <<b[c], x>> \in StrictSubsetOrdering(Names)
    BY <1>4, <2>1 DEF StrictSubsetOrdering
  <2> QED BY <1>3, <2>2, <2>3
<1> QED BY <1>5

(* Subtrees are disjoint or one in the other.                              *)
LEMMA Nested ==
  ASSUME NEW t, NEW S, NEW b, Shape(t, S, b), NEW a \in Names, NEW c \in Names,
         a \in b[c]
  PROVE  b[a] \subseteq b[c] /\ (c \in b[a] => c = a)
<1> DEFINE T == {n \in Names : a \in b[n] /\ ~(b[a] \subseteq b[n])}
<1>1. \A n \in Names : a \in b[n] => a = n \/ \E q \in Sides : a \in b[t.child[n][q]]
  BY DEF Shape, Unfolds, Sides
<1>2. /\ b[Null] = {}
      /\ \A n \in Names, q \in Sides :
            t.child[n][q] \in Nodes /\ b[t.child[n][q]] \subseteq b[n]
  BY ChildFacts DEF Shape, ShapeType
<1>3. T = {}
  <2> SUFFICES ASSUME T # {} PROVE FALSE
    OBVIOUS
  <2>1. PICK n \in T : \A q \in Sides : t.child[n][q] \notin T
    BY BottomUp
  <2>2. a # n
    BY <2>1
  <2>3. PICK q \in Sides : a \in b[t.child[n][q]]
    BY <1>1, <2>1, <2>2
  <2>4. t.child[n][q] \in Names
    BY <1>2, <2>1, <2>3 DEF Nodes
  <2>5. b[a] \subseteq b[t.child[n][q]]
    BY <2>1, <2>3, <2>4
  <2> QED BY <1>2, <2>1, <2>5
<1>4. \A n \in Names : a \in b[n] => b[a] \subseteq b[n]
  BY <1>3
<1>5. ASSUME c \in b[a], c # a PROVE FALSE
  <2>1. PICK q \in Sides : a \in b[t.child[c][q]]
    BY <1>1, <1>5
  <2>2. t.child[c][q] \in Names
    BY <1>2, <2>1 DEF Nodes
  <2>3. b[a] \subseteq b[t.child[c][q]]
    BY <1>4, <2>1, <2>2
  <2> QED BY <2>3, <1>5, ChildFacts
<1> QED BY <1>4, <1>5

(* The neighbours of a node of the tree are nodes of the tree, and it is   *)
(* below its parent and the root.                                          *)
LEMMA InTree ==
  ASSUME NEW t, NEW S, NEW b, Shape(t, S, b), NEW n \in S
  PROVE  /\ n \in Names /\ b[n] \subseteq S /\ t.up[n] \in S \cup {Null}
         /\ \A q \in Sides : t.child[n][q] \in S \cup {Null}
         /\ t.root \in S /\ n \in b[t.root]
         /\ t.up[n] # Null => n \in b[t.up[n]] /\ b[n] \subseteq b[t.up[n]]
         /\ t.up[n] = Null => b[n] = S
<1>1. n \in Names /\ b[n] \subseteq S /\ S = b[t.root] /\ t.root \in Nodes
      /\ (t.up[n] = Null => n = t.root) /\ b[Null] = {}
  BY FieldTypes DEF Shape, ShapeType, Rooted
<1>2. \A q \in Sides : t.child[n][q] \in S \cup {Null}
  BY <1>1, ChildFacts
<1>3. t.root \in Names
  BY <1>1 DEF Nodes
<1>4. t.root \in S
  BY <1>1, <1>3 DEF Shape, Unfolds
<1>5. ASSUME t.up[n] # Null
      PROVE  t.up[n] \in S /\ n \in b[t.up[n]] /\ b[n] \subseteq b[t.up[n]]
  <2>1. /\ t.up[n] \in Names /\ Toward(t.up[n], n) \in Sides
        /\ t.child[t.up[n]][Toward(t.up[n], n)] = n
    BY <1>1, <1>5, ParentFacts
  <2>2. n \in b[t.up[n]] /\ b[n] \subseteq b[t.up[n]]
    <3>1. \A q \in Sides : LET c == t.child[t.up[n]][q] IN
              c # Null => c \in b[t.up[n]] /\ b[c] \subseteq b[t.up[n]]
      BY <2>1, ChildFacts
    <3> QED BY <1>1, <2>1, <3>1, TreeAssumption
  <2>3. t.up[n] \in S
    <3> SUFFICES ASSUME t.up[n] \in Names \ S PROVE FALSE
      BY <2>1
    <3>1. \A q \in Sides : t.child[t.up[n]][q] = Null
      BY DeadBelow
    <3> QED BY <3>1, <2>1, <1>1, TreeAssumption
  <2> QED BY <2>2, <2>3
<1> QED BY <1>1, <1>2, <1>4, <1>5

(* Induction from the root: of any set of nodes, one has no parent in it.  *)
LEMMA TopDown ==
  ASSUME NEW t, NEW S, NEW b, Shape(t, S, b), NEW T \in SUBSET S, T # {}
  PROVE  \E n \in T : t.up[n] \notin T
<1> DEFINE B == {S \ b[n] : n \in T}
<1>1. IsWellFoundedOn(StrictSubsetOrdering(S), FiniteSubsetsOf(S))
  BY FS_StrictSubsetOrderingWellFounded
<1>2. B \subseteq FiniteSubsetsOf(S) /\ B # {}
  <2>1. IsFiniteSet(S)
    BY DEF Shape, ShapeType
  <2>2. \A n \in T : IsFiniteSet(S \ b[n])
    BY <2>1, FS_Subset
  <2> QED BY <2>2 DEF FiniteSubsetsOf
<1>3. PICK x \in B : \A y \in B : <<y, x>> \notin StrictSubsetOrdering(S)
  BY <1>1, <1>2, WFMin
<1>4. PICK n \in T : x = S \ b[n]
  BY <1>3
<1>5. ASSUME t.up[n] \in T
      PROVE  FALSE
  <2> DEFINE p == t.up[n]
  <2>1. p \in Names /\ n \in Names /\ p # Null /\ p \in S /\ n \in S
    BY <1>5, InTree, TreeAssumption
  <2>2. b[n] \subseteq b[p] /\ p \in b[p]
    <3>1. b[n] \subseteq b[p]
      BY <2>1, InTree
    <3>2. p \in b[p]
      BY <2>1, ChildFacts DEF Sides
    <3> QED BY <3>1, <3>2
  <2>3. t.child[p][Toward(p, n)] = n /\ Toward(p, n) \in Sides
    BY <2>1, ParentFacts
  <2>4. p \notin b[n]
    BY <2>1, <2>3, ChildFacts
  <2>5. S \ b[p] \in B
    BY <1>5
  <2> HIDE DEF p, B
  <2>6. <<S \ b[p], x>> \in StrictSubsetOrdering(S)
    BY <1>4, <2>1, <2>2, <2>4 DEF StrictSubsetOrdering
  <2> QED BY <1>3, <2>5, <2>6
<1> QED BY <1>5

(* What is below a node is on the side the order says.                     *)
LEMMA Halves ==
  ASSUME NEW t, NEW S, NEW b, Shape(t, S, b), NEW n \in Names
  PROVE  /\ \A m \in b[n] : m \in Names /\ (m = n \/ m \in b[t.child[n][Toward(n, m)]])
         /\ \A q \in Sides : \A m \in b[t.child[n][q]] :
               /\ m \in Names /\ m # n /\ Precedes(q, m, n) /\ Toward(n, m) = q
               /\ m \in b[n] /\ t.child[n][q] \in Names
<1>1. ASSUME NEW q \in Sides, NEW m \in b[t.child[n][q]]
      PROVE  /\ m \in Names /\ m # n /\ Precedes(q, m, n) /\ Toward(n, m) = q
             /\ m \in b[n] /\ t.child[n][q] \in Names
  <2>1. m \in b[n] /\ m \in Names /\ m # n
    BY ChildFacts
  <2>2. t.child[n][q] # Null
    BY DEF Shape, ShapeType
  <2>3. Precedes(q, m, n)
    BY DEF Shape, Ordered
  <2>4. Toward(n, m) = q
    BY <2>1, <2>3, OrderFacts
  <2>5. t.child[n][q] \in Names
    BY <2>2, ChildFacts
  <2> QED BY <2>1, <2>3, <2>4, <2>5
<1>2. ASSUME NEW m \in b[n]
      PROVE  m \in Names /\ (m = n \/ m \in b[t.child[n][Toward(n, m)]])
  <2>1. m = n \/ \E q \in Sides : m \in b[t.child[n][q]]
    BY DEF Shape, Unfolds, Sides
  <2> QED BY <1>1, <2>1
<1> QED BY <1>1, <1>2

(* A subtree has all nodes of the tree that are between two of its nodes.  *)
LEMMA Convex ==
  ASSUME NEW t, NEW S, NEW b, Shape(t, S, b), NEW p \in S, NEW a \in b[p],
         NEW c \in b[p],
         NEW m \in S, a < m, m < c
  PROVE  m \in b[p]
<1> DEFINE T == {x \in Names : p \in b[x] /\ m \in b[x]}
<1>1. t.root \in T
  <2>1. p \in b[t.root] /\ m \in b[t.root] /\ t.root \in Names
    BY InTree
  <2> QED BY <2>1
<1>2. PICK x \in T : \A q \in Sides : t.child[x][q] \notin T
  BY <1>1, BottomUp
<1>3. p \in Names /\ m \in Names /\ a \in Names /\ c \in Names
  BY InTree DEF Shape, ShapeType
<1>4. SUFFICES ASSUME p # x PROVE FALSE
  BY <1>2
<1> DEFINE q == Toward(x, p)
<1>5. q \in Sides
  BY DEF Toward, Sides
<1>6. p \in b[t.child[x][q]]
  BY <1>2, <1>4, Halves
<1>7. t.child[x][q] \in Names
  BY <1>2, <1>5, <1>6, Halves
<1>8. b[p] \subseteq b[t.child[x][q]]
  BY <1>3, <1>6, <1>7, Nested
<1>9. Precedes(q, a, x) /\ Precedes(q, c, x)
  BY <1>2, <1>5, <1>8, Halves
<1>10. m \notin b[t.child[x][q]]
  BY <1>2, <1>5, <1>6, <1>7
<1>11. m = x \/ Toward(x, m) # q
  BY <1>2, <1>10, Halves
<1>12. a \in Nat /\ m \in Nat /\ c \in Nat /\ x \in Nat
  BY <1>2, <1>3, TreeAssumption
<1> HIDE DEF q
<1> QED BY <1>5, <1>9, <1>11, <1>12 DEF Precedes, Toward, Sides

(* RB_FIND from e finds k just if it is in the subtree of e.               *)
LEMMA FindFromIs ==
  ASSUME NEW t, NEW S, NEW b, Shape(t, S, b), NEW e \in Nodes, NEW k \in Names
  PROVE  FindFrom(t, e, k) = IF k \in b[e] THEN k ELSE Null
<1> DEFINE Rule(f) == f = [n \in Nodes |-> IF n \in {Null, k} THEN n
                                           ELSE f[t.child[n][Toward(n, k)]]]
           found == CHOOSE f : Rule(f)
           g == [n \in Nodes |-> IF k \in b[n] THEN k ELSE Null]
<1>1. \A n \in Names : Toward(n, k) \in Sides
  BY DEF Toward, Sides
<1>2. b[Null] = {}
  BY DEF Shape, ShapeType
<1>3. ASSUME NEW n \in Names, n # k
      PROVE  /\ t.child[n][Toward(n, k)] \in Nodes
             /\ k \in b[n] <=> k \in b[t.child[n][Toward(n, k)]]
  <2>1. t.child[n][Toward(n, k)] \in Nodes
    BY <1>1, ChildFacts
  <2>2. k \in b[n] => k \in b[t.child[n][Toward(n, k)]]
    BY <1>3, Halves
  <2>3. k \in b[t.child[n][Toward(n, k)]] => k \in b[n]
    BY <1>1, Halves
  <2> QED BY <2>1, <2>2, <2>3
<1>4. k \in b[k]
  BY ChildFacts DEF Sides
<1>5. Rule(g)
  <2>1. ASSUME NEW n \in Nodes
        PROVE  g[n] = IF n \in {Null, k} THEN n ELSE g[t.child[n][Toward(n, k)]]
    <3>1. CASE n = Null
      BY <3>1, <1>2
    <3>2. CASE n = k
      BY <3>2, <1>4
    <3>3. CASE n \in Names /\ n # k
      BY <3>3, <1>3, TreeAssumption
    <3> QED BY <3>1, <3>2, <3>3 DEF Nodes
  <2> QED BY <2>1
<1>6. Rule(found)
  <2> HIDE DEF Rule
  <2> QED BY <1>5
<1>7. FindFrom(t, e, k) = found[e]
  BY DEF FindFrom
<1> HIDE DEF found
<1>8. found[Null] = Null /\ found[k] = k
      /\ \A n \in Names : n # k => found[n] = found[t.child[n][Toward(n, k)]]
  BY <1>6, TreeAssumption DEF Nodes
<1> DEFINE T == {n \in Names : found[n] # IF k \in b[n] THEN k ELSE Null}
<1>9. T = {}
  <2> SUFFICES ASSUME T # {} PROVE FALSE
    OBVIOUS
  <2>1. PICK n \in T : \A q \in Sides : t.child[n][q] \notin T
    BY BottomUp
  <2>2. n # k
    BY <1>4, <1>8, <2>1
  <2> DEFINE c == t.child[n][Toward(n, k)]
  <2>3. c \in Nodes /\ (k \in b[n] <=> k \in b[c]) /\ found[n] = found[c] /\ c \notin T
    BY <1>1, <1>3, <1>8, <2>1, <2>2
  <2>4. found[c] = IF k \in b[c] THEN k ELSE Null
    BY <2>3, <1>2, <1>8 DEF Nodes
  <2> QED BY <2>1, <2>3, <2>4
<1> QED BY <1>2, <1>7, <1>8, <1>9 DEF Nodes

(* x is the least of T.                                                    *)
Minimum(x, T) == x \in T /\ \A m \in T : x <= m

(* The least node of a subtree is on its left edge.                        *)
LEMMA LeastBelow ==
  ASSUME NEW t, NEW S, NEW b, Shape(t, S, b), NEW n \in Names
  PROVE  /\ \E x : Minimum(x, b[n])
         /\ \A x, y : Minimum(x, b[n]) /\ Minimum(y, b[n]) => x = y
         /\ t.child[n]["left"] = Null => Minimum(n, b[n])
         /\ t.child[n]["left"] # Null =>
               /\ t.child[n]["left"] \in Names
               /\ \A x : Minimum(x, b[t.child[n]["left"]]) => Minimum(x, b[n])
<1>1. b[n] \subseteq Nat /\ n \in b[n] /\ n \in Nat
  BY TreeAssumption, ChildFacts DEF Sides
<1>2. \E x : Minimum(x, b[n])
  BY <1>1, LeastNatural DEF Minimum
<1>3. \A x, y : Minimum(x, b[n]) /\ Minimum(y, b[n]) => x = y
  BY <1>1 DEF Minimum
<1> DEFINE l == t.child[n]["left"]
           r == t.child[n]["right"]
<1>4. b[n] = {n} \cup b[l] \cup b[r]
  BY DEF Shape, Unfolds
<1>5. (\A m \in b[l] : m < n) /\ (\A m \in b[r] : n < m)
  <2>1. "left" \in Sides /\ "right" \in Sides
    BY DEF Sides
  <2> QED BY <2>1 DEF Shape, Ordered, Precedes
<1>6. ASSUME l = Null PROVE Minimum(n, b[n])
  <2>1. b[l] = {}
    BY <1>6 DEF Shape, ShapeType
  <2> QED BY <2>1, <1>1, <1>4, <1>5 DEF Minimum
<1>7. ASSUME l # Null PROVE l \in Names /\ \A x : Minimum(x, b[l]) => Minimum(x, b[n])
  <2>1. l \in Names
    BY <1>7, ChildFacts DEF Sides
  <2> HIDE DEF l, r
  <2>2. ASSUME NEW x, Minimum(x, b[l]) PROVE Minimum(x, b[n])
    <3>1. x \in b[l] /\ \A m \in b[l] : x <= m
      BY <2>2 DEF Minimum
    <3>2. x < n /\ x \in Nat
      BY <3>1, <1>1, <1>4, <1>5
    <3>3. \A m \in b[n] : x <= m
      <4> TAKE m \in b[n]
      <4>1. m \in Nat
        BY <1>1
      <4> QED BY <4>1, <3>1, <3>2, <1>1, <1>4, <1>5
    <3> QED BY <3>1, <3>3, <1>4 DEF Minimum
  <2> QED BY <2>1, <2>2
<1> QED BY <1>2, <1>3, <1>6, <1>7

(* RB_MIN finds the least node of a subtree.                               *)
LEMMA LeftmostIs ==
  ASSUME NEW t, NEW S, NEW b, Shape(t, S, b), NEW e \in Names
  PROVE  Minimum(Leftmost(t, e), b[e])
<1> DEFINE Rule(f) == f = [n \in Names |-> LET l == t.child[n]["left"]
                                           IN IF l = Null THEN n ELSE f[l]]
           least == CHOOSE f : Rule(f)
           g == [n \in Names |-> CHOOSE x : Minimum(x, b[n])]
<1>1. \A n \in Names : Minimum(g[n], b[n])
  BY LeastBelow
<1>2. Rule(g)
  <2>1. ASSUME NEW n \in Names
        PROVE  g[n] = IF t.child[n]["left"] = Null THEN n ELSE g[t.child[n]["left"]]
    <3> HIDE DEF g
    <3>1. CASE t.child[n]["left"] = Null
      BY <3>1, <1>1, LeastBelow
    <3>2. CASE t.child[n]["left"] # Null
      <4>1. t.child[n]["left"] \in Names
        BY <3>2, LeastBelow
      <4>2. Minimum(g[t.child[n]["left"]], b[n])
        BY <3>2, <4>1, <1>1, LeastBelow
      <4>3. Minimum(g[n], b[n])
        BY <1>1
      <4>4. \A x, y : Minimum(x, b[n]) /\ Minimum(y, b[n]) => x = y
        BY LeastBelow
      <4>5. g[n] = g[t.child[n]["left"]]
        BY <4>2, <4>3, <4>4, Zenon
      <4> QED BY <3>2, <4>5
    <3> QED BY <3>1, <3>2
  <2>2. g = [n \in Names |-> g[n]]
    OBVIOUS
  <2> HIDE DEF g
  <2> QED BY <2>1, <2>2
<1>3. Rule(least)
  <2> HIDE DEF Rule
  <2> QED BY <1>2
<1>4. Leftmost(t, e) = least[e]
  BY DEF Leftmost
<1> HIDE DEF least
<1>5. \A n \in Names : least[n] = IF t.child[n]["left"] = Null THEN n
                                  ELSE least[t.child[n]["left"]]
  BY <1>3
<1> DEFINE T == {n \in Names : ~Minimum(least[n], b[n])}
<1>6. T = {}
  <2> SUFFICES ASSUME T # {} PROVE FALSE
    OBVIOUS
  <2>1. PICK n \in T : \A q \in Sides : t.child[n][q] \notin T
    BY BottomUp
  <2>2. t.child[n]["left"] # Null
    BY <1>5, <2>1, LeastBelow
  <2>3. t.child[n]["left"] \in Names /\ t.child[n]["left"] \notin T
    BY <2>1, <2>2, LeastBelow DEF Sides
  <2> QED BY <1>5, <2>1, <2>2, <2>3, LeastBelow
<1> QED BY <1>4, <1>6

(* The last node on the way to where k would be.                           *)
Ends(t, b, k, n, p) ==
    /\ p \in b[n] /\ t.child[p][Toward(p, k)] = Null
    /\ \A a \in b[n], q \in Sides : p \in b[t.child[a][q]] => Toward(a, k) = q

(* All such nodes of a subtree...                                          *)
EndSet(t, b, k, n) == {p \in Names : Ends(t, b, k, n, p)}

(* ... and one of them.                                                    *)
Some(T) == CHOOSE x : x \in T

(* The way goes on in the half the order says.                             *)
LEMMA EndSets ==
  ASSUME NEW t, NEW S, NEW b, Shape(t, S, b), NEW n \in Names, NEW k \in Names
  PROVE  LET c == t.child[n][Toward(n, k)]
         IN /\ c = Null => EndSet(t, b, k, n) = {n}
            /\ c # Null => c \in Names /\ EndSet(t, b, k, n) = EndSet(t, b, k, c)
<1> DEFINE s == Toward(n, k)
           c == t.child[n][s]
<1>1. s \in Sides /\ n \in b[n] /\ b[n] \subseteq Names /\ b[Null] = {}
  BY ChildFacts DEF Toward, Sides, Shape, ShapeType
<1>2. ASSUME NEW p, Ends(t, b, k, n, p), p # n
      PROVE  p \in b[c] /\ Ends(t, b, k, c, p) /\ c # Null
  <2>1. p \in b[n]
    BY <1>2 DEF Ends
  <2>2. p \in b[t.child[n][Toward(n, p)]] /\ Toward(n, p) \in Sides
    BY <1>2, <2>1, Halves DEF Toward, Sides
  <2>3. Toward(n, p) = s
    BY <1>1, <1>2, <2>2 DEF Ends
  <2>4. p \in b[c] /\ b[c] \subseteq b[n]
    BY <1>1, <2>2, <2>3, ChildFacts
  <2>5. c # Null
    BY <1>1, <2>4
  <2> HIDE DEF c, s
  <2> QED BY <1>2, <2>4, <2>5 DEF Ends
<1>3. ASSUME c = Null PROVE EndSet(t, b, k, n) = {n}
  <2>1. \A p \in EndSet(t, b, k, n) : p = n
    BY <1>2, <1>3 DEF EndSet
  <2>2. Ends(t, b, k, n, n)
    <3>1. \A a \in b[n], q \in Sides : n \notin b[t.child[a][q]]
      <4> SUFFICES ASSUME NEW a \in b[n], NEW q \in Sides, n \in b[t.child[a][q]]
                   PROVE  FALSE
        OBVIOUS
      <4>1. a \in Names
        BY <1>1
      <4>2. n \in b[a] /\ n # a
        BY <4>1, Halves
      <4> QED BY <4>1, <4>2, Nested
    <3> QED BY <1>1, <1>3, <3>1 DEF Ends
  <2> QED BY <2>1, <2>2 DEF EndSet
<1>4. ASSUME c # Null PROVE c \in Names /\ EndSet(t, b, k, n) = EndSet(t, b, k, c)
  <2>1. c \in Names /\ b[c] \subseteq b[n]
    BY <1>1, <1>4, ChildFacts
  <2>2. ~Ends(t, b, k, n, n)
    BY <1>4 DEF Ends
  <2>3. ASSUME NEW p \in Names, Ends(t, b, k, c, p) PROVE Ends(t, b, k, n, p)
    <3>1. p \in b[c] /\ t.child[p][Toward(p, k)] = Null
      BY <2>3 DEF Ends
    <3>2. Toward(n, p) = s
      BY <1>1, <3>1, Halves
    <3>3. ASSUME NEW a \in b[n], NEW q \in Sides, p \in b[t.child[a][q]]
          PROVE  Toward(a, k) = q
      <4>1. CASE a = n
        BY <4>1, <3>2, <3>3, Halves
      <4>2. CASE a \in b[c]
        BY <4>2, <2>3, <3>3 DEF Ends
      <4>3. CASE a # n /\ a \notin b[c]
        <5> DEFINE e == t.child[n][Toward(n, a)]
        <5>1. a \in Names /\ a \in b[e] /\ Toward(n, a) \in Sides
          BY <4>3, <1>1, Halves DEF Toward, Sides
        <5>2. e \in Names
          BY <5>1, Halves
        <5>3. p \in b[a]
          BY <5>1, <3>3, Halves
        <5>4. p \in b[e]
          BY <5>1, <5>2, <5>3, Nested
        <5>5. Toward(n, p) = Toward(n, a)
          BY <5>1, <5>4, Halves
        <5> QED BY <5>1, <5>5, <3>2, <4>3
      <4> QED BY <4>1, <4>2, <4>3
    <3> QED BY <3>1, <3>3, <2>1 DEF Ends
  <2> QED BY <2>1, <2>2, <2>3, <1>2 DEF EndSet
<1> QED BY <1>3, <1>4

(* RB_INSERT comes to such a node.                                         *)
LEMMA BottomIs ==
  ASSUME NEW t, NEW S, NEW b, Shape(t, S, b), t.root # Null, NEW k \in Names
  PROVE  Ends(t, b, k, t.root, Bottom(t, k))
<1> DEFINE Rule(f) == f = [n \in Names |-> LET below == t.child[n][Toward(n, k)]
                                           IN IF below = Null THEN n ELSE f[below]]
           last == CHOOSE f : Rule(f)
           g == [n \in Names |-> Some(EndSet(t, b, k, n))]
<1>1. t.root \in Names
  BY FieldTypes DEF Shape, ShapeType, Nodes
<1>2. Rule(g)
  <2>1. ASSUME NEW n \in Names
        PROVE  g[n] = IF t.child[n][Toward(n, k)] = Null THEN n
                      ELSE g[t.child[n][Toward(n, k)]]
    <3>1. CASE t.child[n][Toward(n, k)] = Null
      <4>1. EndSet(t, b, k, n) = {n}
        BY <3>1, EndSets
      <4>2. Some({n}) = n
        BY DEF Some
      <4> QED BY <3>1, <4>1, <4>2
    <3>2. CASE t.child[n][Toward(n, k)] # Null
      <4>1. /\ EndSet(t, b, k, n) = EndSet(t, b, k, t.child[n][Toward(n, k)])
            /\ t.child[n][Toward(n, k)] \in Names
        BY <3>2, EndSets
      <4> QED BY <3>2, <4>1
    <3> QED BY <3>1, <3>2
  <2>2. g = [n \in Names |-> g[n]]
    OBVIOUS
  <2> HIDE DEF g
  <2> QED BY <2>1, <2>2
<1>3. Rule(last)
  <2> HIDE DEF Rule
  <2> QED BY <1>2
<1>4. Bottom(t, k) = last[t.root]
  BY DEF Bottom
<1> HIDE DEF last
<1>5. \A n \in Names : last[n] = IF t.child[n][Toward(n, k)] = Null THEN n
                                 ELSE last[t.child[n][Toward(n, k)]]
  BY <1>3
<1> DEFINE T == {n \in Names : last[n] \notin EndSet(t, b, k, n)}
<1>6. T = {}
  <2> SUFFICES ASSUME T # {} PROVE FALSE
    OBVIOUS
  <2>1. PICK n \in T : \A q \in Sides : t.child[n][q] \notin T
    BY BottomUp
  <2> DEFINE c == t.child[n][Toward(n, k)]
  <2>2. CASE c = Null
    <3>1. EndSet(t, b, k, n) = {n} /\ last[n] = n
      BY <2>1, <2>2, <1>5, EndSets
    <3> QED BY <3>1, <2>1
  <2>3. CASE c # Null
    <3>1. c \in Names /\ EndSet(t, b, k, n) = EndSet(t, b, k, c)
      BY <2>1, <2>3, EndSets
    <3>2. c \notin T
      BY <2>1 DEF Toward, Sides
    <3>3. last[n] = last[c]
      BY <2>1, <2>3, <1>5
    <3> QED BY <2>1, <3>1, <3>2, <3>3
  <2> QED BY <2>2, <2>3
<1>7. last[t.root] \in EndSet(t, b, k, t.root)
  BY <1>1, <1>6
<1> QED BY <1>4, <1>7 DEF EndSet

(* x is the least of T, or a null pointer if there is none.                *)
LeastIn(x, T) == IF T = {} THEN x = Null ELSE Minimum(x, T)

(* There is one, and one only.                                             *)
LEMMA LeastOnly ==
  ASSUME NEW T \in SUBSET Nat
  PROVE  (\E x : LeastIn(x, T)) /\ \A x, y : LeastIn(x, T) /\ LeastIn(y, T) => x = y
<1>1. CASE T = {}
  BY <1>1 DEF LeastIn
<1>2. CASE T # {}
  <2>1. \E x : Minimum(x, T)
    BY <1>2, LeastNatural DEF Minimum
  <2>2. \A x, y : Minimum(x, T) /\ Minimum(y, T) => x = y
    BY DEF Minimum
  <2> QED BY <1>2, <2>1, <2>2 DEF LeastIn
<1> QED BY <1>1, <1>2

(* The nodes to the right of the subtree of n.                             *)
Beyond(S, b, n) == {m \in S : n \in S /\ \A a \in b[n] : a < m}

(* The least of them is the parent, or one to the right of the parent's    *)
(* subtree.                                                                *)
LEMMA BeyondFacts ==
  ASSUME NEW t, NEW S, NEW b, Shape(t, S, b), NEW n \in Names
  PROVE  LET p == t.up[n]
         IN /\ p = Null => Beyond(S, b, n) = {}
            /\ p # Null => p \in Names
            /\ p # Null /\ t.child[p]["left"] = n => LeastIn(p, Beyond(S, b, n))
            /\ p # Null /\ t.child[p]["left"] # n => Beyond(S, b, p) = Beyond(S, b, n)
<1> DEFINE p == t.up[n]
<1>1. n \in b[n] /\ b[n] \subseteq Names
  BY ChildFacts DEF Sides
<1>2. S \subseteq Nat /\ Names \subseteq Nat
  BY TreeAssumption DEF Shape, ShapeType
<1>3. ASSUME p = Null PROVE Beyond(S, b, n) = {}
  <2>1. n \in S => b[n] = S
    BY <1>3, InTree
  <2>2. \A m \in S : ~(m < m)
    BY <1>2
  <2> QED BY <2>1, <2>2 DEF Beyond
<1>4. ASSUME p # Null
      PROVE  /\ p \in Names /\ p \in S /\ n \in S /\ Toward(p, n) \in Sides
             /\ t.child[p][Toward(p, n)] = n
             /\ \A q \in Sides : t.child[p][q] = n => q = Toward(p, n)
  <2>1. n \in S
    BY <1>4, DeadBelow
  <2> QED BY <2>1, <1>4, ParentFacts, InTree
<1> HIDE DEF p
<1>5. ASSUME p # Null, t.child[p]["left"] = n
      PROVE  LeastIn(p, Beyond(S, b, n))
  <2>1. \A a \in b[n] : a < p
    BY <1>4, <1>5 DEF Shape, Ordered, Precedes, Sides
  <2>2. p \in Beyond(S, b, n)
    BY <2>1, <1>4, <1>5 DEF Beyond
  <2>3. ASSUME NEW m \in Beyond(S, b, n), m < p PROVE FALSE
    <3>1. m \in S /\ m \in Names /\ n < m /\ m \notin b[n]
      <4>1. m \in S /\ \A a \in b[n] : a < m
        BY DEF Beyond
      <4> QED BY <4>1, <1>1, <1>2 DEF Shape, ShapeType
    <3>2. n \in b[p] /\ p \in b[p]
      BY <1>4, <1>5, ChildFacts, InTree DEF p
    <3>3. m \in b[p]
      BY <3>1, <3>2, <2>3, <1>4, <1>5, Convex
    <3>4. Toward(p, m) = "left" /\ m # p
      BY <2>3, <3>1, <1>2 DEF Toward
    <3> QED BY <3>1, <3>3, <3>4, <1>4, <1>5, Halves
  <2>4. \A m \in Beyond(S, b, n) : p <= m
    <3> TAKE m \in Beyond(S, b, n)
    <3>1. m \in Nat /\ p \in Nat
      BY <1>2, <1>4, <1>5 DEF Beyond
    <3> QED BY <3>1, <2>3
  <2> QED BY <2>2, <2>4 DEF LeastIn, Minimum
<1>6. ASSUME p # Null, t.child[p]["left"] # n
      PROVE  Beyond(S, b, p) = Beyond(S, b, n)
  <2>1. t.child[p]["right"] = n
    BY <1>4, <1>6 DEF Sides
  <2>2. b[p] = {p} \cup b[t.child[p]["left"]] \cup b[n]
    BY <2>1, <1>4, <1>6 DEF Shape, Unfolds
  <2>3. p < n /\ \A a \in b[t.child[p]["left"]] : a < p
    BY <2>1, <1>1, <1>4, <1>6 DEF Shape, Ordered, Precedes, Sides
  <2>4. \A a \in b[p] : a \in Nat
    BY <1>2, <1>4, <1>6 DEF Shape, ShapeType, Nodes
  <2>5. ASSUME NEW m \in S, \A a \in b[n] : a < m
        PROVE  \A a \in b[p] : a < m
    <3>1. n < m /\ m \in Nat /\ p \in Nat /\ n \in Nat
      BY <2>5, <1>1, <1>2, <1>4, <1>6
    <3> QED BY <3>1, <2>2, <2>3, <2>4, <2>5
  <2> QED BY <2>2, <2>5, <1>4, <1>6 DEF Beyond
<1> QED BY <1>3, <1>4, <1>5, <1>6 DEF p

(* The way up of RB_NEXT comes to the least of them.                       *)
LEMMA ClimbIs ==
  ASSUME NEW t, NEW S, NEW b, Shape(t, S, b), NEW e \in Names
  PROVE  LeastIn(Climb(t, e), Beyond(S, b, e))
<1> DEFINE Rule(f) == f = [n \in Names |-> LET p == t.up[n]
                                           IN IF p = Null THEN Null
                                              ELSE IF t.child[p]["left"] = n THEN p
                                              ELSE f[p]]
           next == CHOOSE f : Rule(f)
           g == [n \in Names |-> CHOOSE x : LeastIn(x, Beyond(S, b, n))]
<1>1. \A n \in Names : Beyond(S, b, n) \in SUBSET Nat
  BY TreeAssumption DEF Beyond, Shape, ShapeType
<1>2. \A n \in Names : LeastIn(g[n], Beyond(S, b, n))
  BY <1>1, LeastOnly
<1>3. Rule(g)
  <2>0. g = [n \in Names |-> g[n]]
    OBVIOUS
  <2> HIDE DEF g
  <2>1. ASSUME NEW n \in Names
        PROVE  g[n] = IF t.up[n] = Null THEN Null
                      ELSE IF t.child[t.up[n]]["left"] = n THEN t.up[n] ELSE g[t.up[n]]
    <3>0. LeastIn(g[n], Beyond(S, b, n))
      BY <1>2
    <3>1. CASE t.up[n] = Null
      BY <3>0, <3>1, BeyondFacts DEF LeastIn
    <3>2. CASE t.up[n] # Null /\ t.child[t.up[n]]["left"] = n
      <4>1. LeastIn(t.up[n], Beyond(S, b, n))
        BY <3>2, BeyondFacts
      <4>2. g[n] = t.up[n]
        BY <4>1, <3>0, <1>1, LeastOnly
      <4> QED BY <4>2, <3>2
    <3>3. CASE t.up[n] # Null /\ t.child[t.up[n]]["left"] # n
      <4>1. t.up[n] \in Names /\ Beyond(S, b, t.up[n]) = Beyond(S, b, n)
        BY <3>3, BeyondFacts
      <4>2. LeastIn(g[t.up[n]], Beyond(S, b, n))
        BY <4>1, <1>2
      <4>3. g[n] = g[t.up[n]]
        BY <4>2, <3>0, <1>1, LeastOnly
      <4> QED BY <4>3, <3>3
    <3> QED BY <3>1, <3>2, <3>3
  <2> QED BY <2>0, <2>1
<1>4. Rule(next)
  <2> HIDE DEF Rule
  <2> QED BY <1>3
<1>5. Climb(t, e) = next[e]
  BY DEF Climb
<1> HIDE DEF next
<1>6. \A n \in Names : next[n] = IF t.up[n] = Null THEN Null
                                 ELSE IF t.child[t.up[n]]["left"] = n THEN t.up[n]
                                 ELSE next[t.up[n]]
  BY <1>4
<1>7. CASE e \notin S
  <2>1. Beyond(S, b, e) = {} /\ t.up[e] = Null
    BY <1>7, DeadBelow DEF Beyond
  <2> QED BY <2>1, <1>5, <1>6 DEF LeastIn
<1>8. CASE e \in S
  <2> DEFINE T == {n \in S : ~LeastIn(next[n], Beyond(S, b, n))}
  <2>1. T = {}
    <3> SUFFICES ASSUME T # {} PROVE FALSE
      OBVIOUS
    <3>1. PICK n \in T : t.up[n] \notin T
      BY TopDown
    <3>2. n \in Names /\ n \in S
      BY <3>1 DEF Shape, ShapeType
    <3>3. CASE t.up[n] = Null
      <4>1. next[n] = Null /\ Beyond(S, b, n) = {}
        BY <3>2, <3>3, <1>6, BeyondFacts
      <4> QED BY <4>1, <3>1 DEF LeastIn
    <3>4. CASE t.up[n] # Null /\ t.child[t.up[n]]["left"] = n
      <4>1. next[n] = t.up[n] /\ LeastIn(t.up[n], Beyond(S, b, n))
        BY <3>2, <3>4, <1>6, BeyondFacts
      <4> QED BY <4>1, <3>1
    <3>5. CASE t.up[n] # Null /\ t.child[t.up[n]]["left"] # n
      <4>1. next[n] = next[t.up[n]] /\ Beyond(S, b, t.up[n]) = Beyond(S, b, n)
        BY <3>2, <3>5, <1>6, BeyondFacts
      <4>2. t.up[n] \in S
        BY <3>2, <3>5, InTree
      <4> QED BY <4>1, <4>2, <3>1
    <3> QED BY <3>3, <3>4, <3>5
  <2> QED BY <1>5, <1>8, <2>1
<1> QED BY <1>7, <1>8

(* The nodes after n.                                                      *)
Above(S, n) == {m \in S : n \in S /\ n < m}

(* RB_NEXT comes to the next greater name, whatever the tree looks like.   *)
LEMMA SuccessorIs ==
  ASSUME NEW t, NEW S, NEW b, Shape(t, S, b), NEW n \in Names
  PROVE  LeastIn(Successor(t, n), Above(S, n))
<1> DEFINE r == t.child[n]["right"]
<1>1. n \in b[n] /\ b[n] \subseteq Names /\ b[Null] = {}
  BY ChildFacts DEF Sides, Shape, ShapeType
<1>2. S \subseteq Nat /\ Names \subseteq Nat /\ n \in Nat
  BY TreeAssumption DEF Shape, ShapeType
<1>3. b[n] = {n} \cup b[t.child[n]["left"]] \cup b[r]
  BY DEF Shape, Unfolds
<1>4. (\A a \in b[t.child[n]["left"]] : a < n) /\ \A a \in b[r] : n < a
  <2>1. "left" \in Sides /\ "right" \in Sides
    BY DEF Sides
  <2> QED BY <2>1 DEF Shape, Ordered, Precedes
<1>5. CASE r = Null
  <2>1. ASSUME NEW m \in S, n < m PROVE \A a \in b[n] : a < m
    <3>1. \A a \in b[n] : a = n \/ (a < n /\ a \in Nat)
      BY <1>1, <1>2, <1>3, <1>4, <1>5
    <3> QED BY <2>1, <3>1, <1>2
  <2>2. Beyond(S, b, n) = Above(S, n)
    BY <2>1, <1>1 DEF Beyond, Above
  <2>3. Successor(t, n) = Climb(t, n)
    BY <1>5 DEF Successor
  <2> QED BY <2>2, <2>3, ClimbIs
<1>6. CASE r # Null
  <2> DEFINE x == Leftmost(t, r)
  <2>1. r \in Names /\ n \in S
    BY <1>6, ChildFacts, DeadBelow DEF Sides
  <2>2. Minimum(x, b[r]) /\ Successor(t, n) = x
    BY <1>6, <2>1, LeftmostIs DEF Successor
  <2> HIDE DEF x, r
  <2>3. x \in b[r] /\ x \in b[n] /\ n < x /\ x \in Nat /\ \A m \in b[r] : x <= m
    BY <2>2, <1>1, <1>2, <1>3, <1>4 DEF Minimum
  <2>4. x \in Above(S, n)
    BY <2>1, <2>3, InTree DEF Above
  <2>5. ASSUME NEW m \in Above(S, n) PROVE x <= m
    <3>1. m \in S /\ n < m /\ m \in Nat
      BY <1>2 DEF Above
    <3>2. SUFFICES ASSUME m < x PROVE FALSE
      BY <3>1, <2>3
    <3>3. m \in b[n]
      BY <3>1, <3>2, <2>1, <2>3, <1>1, Convex
    <3>4. m \in b[r]
      BY <3>1, <3>3, <1>3, <1>4, <1>2
    <3> QED BY <3>1, <3>2, <3>4, <2>3
  <2> QED BY <2>2, <2>4, <2>5 DEF LeastIn, Minimum
<1> QED BY <1>5, <1>6

(* RB_MIN of the tree comes to the least name.                             *)
LEMMA FirstIs ==
  ASSUME NEW t, NEW S, NEW b, Shape(t, S, b)
  PROVE  LeastIn(First(t), S)
<1>1. S = b[t.root] /\ b[Null] = {} /\ t.root \in Nodes
  BY FieldTypes DEF Shape, ShapeType, Rooted
<1>2. CASE t.root = Null
  BY <1>1, <1>2 DEF First, LeastIn
<1>3. CASE t.root # Null
  <2>1. Minimum(Leftmost(t, t.root), S) /\ First(t) = Leftmost(t, t.root)
    BY <1>1, <1>3, LeftmostIs DEF First, Nodes
  <2> QED BY <2>1 DEF LeastIn, Minimum
<1> QED BY <1>2, <1>3
-----------------------------------------------------------------------------

(* Induction over the natural numbers, for a set.                          *)
LEMMA Induct ==
  ASSUME NEW T, 0 \in T, \A k \in Nat : k \in T => k + 1 \in T
  PROVE  \A k \in Nat : k \in T
<1> DEFINE U == {k \in Nat : k \notin T}
<1>1. SUFFICES ASSUME U # {} PROVE FALSE
  OBVIOUS
<1>2. PICK n \in U : \A m \in U : n <= m
  BY <1>1, LeastNatural
<1>3. n # 0 /\ n \in Nat
  BY <1>2
<1>4. n - 1 \in Nat /\ n = (n - 1) + 1 /\ ~(n <= n - 1)
  BY <1>3
<1>5. n - 1 \in T
  BY <1>2, <1>4
<1> QED BY <1>2, <1>4, <1>5

(* f gives the first powers of two.                                        *)
Powers(n, f) ==
    f \in [0..n -> Nat] /\ f[0] = 1 /\ \A i \in 1..n : f[i] = 2 * f[i - 1]

(* There is such a function.                                               *)
LEMMA PowersExist ==
  ASSUME NEW n \in Nat
  PROVE  \E f : Powers(n, f)
<1> DEFINE T == {k \in Nat : \E f : Powers(k, f)}
<1>1. 0 \in T
  <2>1. Powers(0, [i \in 0..0 |-> 1])
    BY DEF Powers
  <2> QED BY <2>1
<1>2. ASSUME NEW k \in Nat, k \in T PROVE k + 1 \in T
  <2>1. PICK f : Powers(k, f)
    BY <1>2
  <2> DEFINE g == [i \in 0..(k + 1) |-> IF i = k + 1 THEN 2 * f[k] ELSE f[i]]
  <2>2. /\ f[k] \in Nat /\ f[0] = 1 /\ \A i \in 1..k : f[i] = 2 * f[i - 1]
        /\ \A i \in 0..k : f[i] \in Nat
    BY <2>1 DEF Powers
  <2>3. g \in [0..(k + 1) -> Nat] /\ g[0] = 1
    BY <2>2
  <2>4. ASSUME NEW i \in 1..(k + 1) PROVE g[i] = 2 * g[i - 1]
    <3>1. i - 1 \in 0..(k + 1) /\ i - 1 # k + 1
      OBVIOUS
    <3>2. CASE i = k + 1
      BY <3>1, <3>2
    <3>3. CASE i # k + 1
      <4>1. i \in 1..k
        BY <3>3
      <4> QED BY <4>1, <3>1, <2>2
    <3> QED BY <3>2, <3>3
  <2>5. Powers(k + 1, g)
    BY <2>3, <2>4 DEF Powers
  <2> QED BY <2>5
<1> HIDE DEF T
<1>3. n \in T
  BY <1>1, <1>2, Induct
<1> QED BY <1>3 DEF T

(* There is one only.                                                      *)
LEMMA PowersAgree ==
  ASSUME NEW n \in Nat, NEW m \in Nat, n <= m, NEW f, NEW g, Powers(n, f), Powers(m, g)
  PROVE  f[n] = g[n]
<1> DEFINE T == {k \in Nat : k <= n => f[k] = g[k]}
<1>1. 0 \in T
  BY DEF Powers
<1>2. ASSUME NEW k \in Nat, k \in T PROVE k + 1 \in T
  <2>1. SUFFICES ASSUME k + 1 <= n PROVE f[k + 1] = g[k + 1]
    OBVIOUS
  <2>2. k + 1 \in 1..n /\ k + 1 \in 1..m /\ (k + 1) - 1 = k /\ k <= n
    BY <2>1
  <2> QED BY <2>2, <1>2 DEF Powers
<1> HIDE DEF T
<1>3. n \in T
  BY <1>1, <1>2, Induct
<1> QED BY <1>3 DEF T

(* Power is what it is said to be.                                         *)
LEMMA PowerFacts ==
  /\ Power[0] = 1
  /\ \A n \in Nat : Power[n] \in Nat /\ Power[n + 1] = 2 * Power[n]
<1> DEFINE Rule(f) == f = [n \in Nat |-> IF n = 0 THEN 1 ELSE 2 * f[n - 1]]
           first(n) == CHOOSE f : Powers(n, f)
           g == [n \in Nat |-> first(n)[n]]
<1>1. \A n \in Nat : Powers(n, first(n))
  BY PowersExist
<1> HIDE DEF first
<1>2. g[0] = 1 /\ \A n \in Nat : g[n] \in Nat
  <2>1. first(0)[0] = 1
    BY <1>1 DEF Powers
  <2>2. \A n \in Nat : first(n)[n] \in Nat
    BY <1>1 DEF Powers
  <2> QED BY <2>1, <2>2
<1>3. ASSUME NEW n \in Nat, n # 0 PROVE g[n] = 2 * g[n - 1]
  <2>1. n - 1 \in Nat /\ n \in 1..n /\ n - 1 <= n
    BY <1>3
  <2>2. first(n)[n] = 2 * first(n)[n - 1]
    BY <1>1, <2>1 DEF Powers
  <2>3. first(n - 1)[n - 1] = first(n)[n - 1]
    BY <1>1, <2>1, PowersAgree
  <2> QED BY <2>1, <2>2, <2>3
<1>4. Rule(g)
  <2>1. g = [n \in Nat |-> g[n]]
    OBVIOUS
  <2> HIDE DEF g
  <2> QED BY <2>1, <1>2, <1>3
<1>5. Rule(Power)
  <2>1. Power = CHOOSE f : Rule(f)
    BY DEF Power
  <2> HIDE DEF Rule
  <2> QED BY <2>1, <1>4
<1>6. \A n \in Nat : Power[n] = IF n = 0 THEN 1 ELSE 2 * Power[n - 1]
  BY <1>5
<1> HIDE DEF Rule
<1> DEFINE T == {k \in Nat : Power[k] \in Nat}
<1>7. 0 \in T /\ \A k \in Nat : k \in T => k + 1 \in T
  BY <1>6
<1> HIDE DEF T
<1>8. \A k \in Nat : k \in T
  BY <1>7, Induct
<1>9. \A n \in Nat : Power[n + 1] = 2 * Power[n]
  <2> TAKE n \in Nat
  <2>1. n + 1 \in Nat /\ n + 1 # 0 /\ (n + 1) - 1 = n
    OBVIOUS
  <2> QED BY <2>1, <1>6
<1> QED BY <1>6, <1>8, <1>9 DEF T

(* The rank that can be seen from the tree is the one it is balanced with. *)
LEMMA RankOfIs ==
  ASSUME NEW t, NEW S, NEW b, Shape(t, S, b), NEW r, Even(t, r), NEW e \in Nodes
  PROVE  RankOf(t, e) = r[e]
<1> DEFINE Rule(f) == f = [n \in Nodes |->
                               IF n = Null THEN -1
                               ELSE f[t.child[n]["left"]]
                                    + (IF Red(t, n, "left") THEN 2 ELSE 1)]
           rank == CHOOSE f : Rule(f)
<1>1. Balance(t, r, Null, "left", 0) /\ Null \notin Names
  BY TreeAssumption DEF Even
<1>2. r \in [Nodes -> Int] /\ r[Null] = -1
  BY <1>1 DEF Balance, RankType
<1>3. ASSUME NEW n \in Names
      PROVE  r[n] = r[t.child[n]["left"]] + (IF Red(t, n, "left") THEN 2 ELSE 1)
  <2>1. n # Null /\ "left" \in Sides
    BY <1>1 DEF Sides
  <2>2. r[n] = r[t.child[n]["left"]] + Diff(t, n, "left")
    BY <1>1, <2>1, PlainRanks
  <2> QED BY <2>2 DEF Diff, Red
<1>4. Rule(r)
  <2>1. r = [n \in Nodes |-> r[n]]
    BY <1>2
  <2> QED BY <2>1, <1>2, <1>3 DEF Nodes
<1>5. Rule(rank)
  <2> HIDE DEF Rule
  <2> QED BY <1>4
<1>6. RankOf(t, e) = rank[e]
  BY DEF RankOf
<1> HIDE DEF rank
<1>7. /\ rank[Null] = -1
      /\ \A n \in Names : rank[n] = rank[t.child[n]["left"]]
                                    + (IF Red(t, n, "left") THEN 2 ELSE 1)
  BY <1>1, <1>5 DEF Nodes
<1> DEFINE T == {n \in Names : rank[n] # r[n]}
<1>8. T = {}
  <2> SUFFICES ASSUME T # {} PROVE FALSE
    OBVIOUS
  <2>1. PICK n \in T : \A q \in Sides : t.child[n][q] \notin T
    BY BottomUp
  <2> DEFINE c == t.child[n]["left"]
  <2>2. c \in Nodes /\ c \notin T
    BY <2>1, ChildFacts DEF Sides
  <2>3. rank[c] = r[c]
    BY <2>2, <1>2, <1>7 DEF Nodes
  <2> QED BY <2>1, <2>3, <1>3, <1>7
<1> QED BY <1>2, <1>6, <1>7, <1>8 DEF Nodes

(* The number of nodes below a node.                                       *)
LEMMA Sizes ==
  ASSUME NEW t, NEW S, NEW b, Shape(t, S, b), NEW n \in Names
  PROVE  LET l == b[t.child[n]["left"]]
             r == b[t.child[n]["right"]]
         IN /\ Cardinality(l) \in Nat /\ Cardinality(r) \in Nat
            /\ Cardinality(b[n]) = 1 + Cardinality(l) + Cardinality(r)
<1> DEFINE l == b[t.child[n]["left"]]
           r == b[t.child[n]["right"]]
<1>1. "left" \in Sides /\ "right" \in Sides /\ b[Null] = {}
  BY DEF Sides, Shape, ShapeType
<1>2. \A c \in Nodes : IsFiniteSet(b[c])
  BY <1>1, FiniteBelow, FS_EmptySet DEF Nodes
<1>3. IsFiniteSet(l) /\ IsFiniteSet(r)
  BY <1>1, <1>2, ChildFacts
<1>4. b[n] = (l \cup r) \cup {n}
  BY DEF Shape, Unfolds
<1>5. n \notin l /\ n \notin r /\ l \cap r = {}
  BY <1>1, Halves
<1> HIDE DEF l, r
<1>6. IsFiniteSet(l \cup r) /\ Cardinality(l \cup r) = Cardinality(l) + Cardinality(r)
  <2>1. Cardinality(l \cup r) = Cardinality(l) + Cardinality(r) - Cardinality(l \cap r)
    BY <1>3, FS_Union
  <2>2. Cardinality(l \cap r) = 0
    BY <1>5, FS_EmptySet
  <2>3. Cardinality(l) \in Nat /\ Cardinality(r) \in Nat
    BY <1>3, FS_CardinalityType
  <2> QED BY <2>1, <2>2, <2>3, <1>3, FS_Union
<1>7. Cardinality(b[n]) = Cardinality(l \cup r) + 1
  <2>1. n \notin l \cup r
    BY <1>5
  <2> QED BY <2>1, <1>4, <1>6, FS_AddElement
<1>8. Cardinality(l) \in Nat /\ Cardinality(r) \in Nat
  BY <1>3, FS_CardinalityType
<1> QED BY <1>6, <1>7, <1>8 DEF l, r

(* The height of a node from those of its children.                        *)
Taller(f, l, r) == 1 + (IF f[l] > f[r] THEN f[l] ELSE f[r])

(* f gives the heights of subtrees of up to k nodes.                       *)
Heights(t, b, f, k) ==
    /\ f \in [Nodes -> Nat] /\ f[Null] = 0
    /\ \A n \in Names : Cardinality(b[n]) <= k =>
           f[n] = Taller(f, t.child[n]["left"], t.child[n]["right"])

(* There is such a function.                                               *)
LEMMA HeightsExist ==
  ASSUME NEW t, NEW S, NEW b, Shape(t, S, b), NEW k \in Nat
  PROVE  \E f : Heights(t, b, f, k)
<1> DEFINE T == {i \in Nat : \E f : Heights(t, b, f, i)}
<1>0. Null \notin Names /\ \A c \in Names : Cardinality(b[c]) \in Nat
  <2>1. \A c \in Names : Cardinality(b[c]) \in Nat
    BY FiniteBelow, FS_CardinalityType
  <2> QED BY <2>1, TreeAssumption
<1>1. 0 \in T
  <2> DEFINE f == [n \in Nodes |-> 0]
  <2>1. \A n \in Names : ~(Cardinality(b[n]) <= 0)
    BY Sizes
  <2>2. f \in [Nodes -> Nat] /\ f[Null] = 0
    BY DEF Nodes
  <2> HIDE DEF f
  <2>3. Heights(t, b, f, 0)
    BY <2>1, <2>2 DEF Heights
  <2> QED BY <2>3
<1>2. ASSUME NEW i \in Nat, i \in T PROVE i + 1 \in T
  <2>1. PICK f : Heights(t, b, f, i)
    BY <1>2
  <2> DEFINE New(n) == n \in Names /\ Cardinality(b[n]) = i + 1
             g == [n \in Nodes |-> IF New(n) THEN Taller(f, t.child[n]["left"],
                                                         t.child[n]["right"])
                                   ELSE f[n]]
  <2>2. f \in [Nodes -> Nat] /\ f[Null] = 0
    BY <2>1 DEF Heights
  <2>3. \A n \in Names, q \in Sides : t.child[n][q] \in Nodes
    BY ChildFacts
  <2>4. \A l, r \in Nodes : Taller(f, l, r) \in Nat
    BY <2>2 DEF Taller
  <2>5. g \in [Nodes -> Nat] /\ g[Null] = 0
    <3>1. Null \in Nodes /\ ~New(Null)
      BY <1>0 DEF Nodes
    <3>2. \A n \in Nodes : New(n)
             => Taller(f, t.child[n]["left"], t.child[n]["right"]) \in Nat
      BY <2>3, <2>4 DEF Sides
    <3> HIDE DEF New
    <3> QED BY <3>1, <3>2, <2>2
  <2>6. ASSUME NEW n \in Names, Cardinality(b[n]) <= i + 1
        PROVE  g[n] = Taller(g, t.child[n]["left"], t.child[n]["right"])
    <3> DEFINE l == t.child[n]["left"]
               r == t.child[n]["right"]
    <3>1. l \in Nodes /\ r \in Nodes
      BY <2>3 DEF Sides
    <3>2. Cardinality(b[l]) < Cardinality(b[n]) /\ Cardinality(b[r]) < Cardinality(b[n])
      BY Sizes
    <3>3. ~New(l) /\ ~New(r)
      BY <3>2, <2>6, <1>0
    <3>4. g[l] = f[l] /\ g[r] = f[r]
      BY <3>1, <3>3
    <3>5. g[n] = Taller(f, l, r)
      <4>1. CASE New(n)
        BY <4>1 DEF Nodes
      <4>2. CASE ~New(n)
        <5>1. Cardinality(b[n]) <= i
          BY <4>2, <2>6, <1>0
        <5>2. f[n] = Taller(f, l, r)
          BY <5>1, <2>1, Zenon DEF Heights
        <5>3. n \in Nodes
          BY DEF Nodes
        <5> HIDE DEF New, l, r
        <5> QED BY <5>2, <5>3, <4>2
      <4> QED BY <4>1, <4>2
    <3> HIDE DEF l, r, g
    <3>6. g[n] = Taller(g, l, r)
      BY <3>4, <3>5 DEF Taller
    <3> QED BY <3>6 DEF l, r
  <2> HIDE DEF g
  <2>7. Heights(t, b, g, i + 1)
    BY <2>5, <2>6 DEF Heights
  <2> QED BY <2>7
<1> HIDE DEF T
<1>3. k \in T
  BY <1>1, <1>2, Induct
<1> QED BY <1>3 DEF T

(* HeightOf is what it is said to be.                                      *)
LEMMA HeightIs ==
  ASSUME NEW t, NEW S, NEW b, Shape(t, S, b)
  PROVE  \E f : /\ f \in [Nodes -> Int] /\ f[Null] = 0
                /\ \A n \in Names : f[n] = Taller(f, t.child[n]["left"],
                                                  t.child[n]["right"])
                /\ \A e : HeightOf(t, e) = f[e]
<1> DEFINE Rule(f) == f = [n \in Nodes |->
                               IF n = Null THEN 0
                               ELSE LET l == f[t.child[n]["left"]]
                                        r == f[t.child[n]["right"]]
                                    IN 1 + (IF l > r THEN l ELSE r)]
           height == CHOOSE f : Rule(f)
           k == Cardinality(S) + 1
<1>1. k \in Nat /\ \A n \in Names : Cardinality(b[n]) <= k
  <2>1. IsFiniteSet(S) /\ Cardinality(S) \in Nat
    BY FS_CardinalityType DEF Shape, ShapeType
  <2>2. ASSUME NEW n \in Names PROVE Cardinality(b[n]) <= k
    <3>1. CASE n \in S
      <4>1. b[n] \in SUBSET S
        BY <3>1, InTree
      <4>2. Cardinality(b[n]) <= Cardinality(S) /\ Cardinality(b[n]) \in Nat
        BY <4>1, <2>1, FS_Subset, FS_CardinalityType
      <4> QED BY <4>2, <2>1
    <3>2. CASE n \notin S
      <4>0. b[n] = {n}
        BY <3>2, DeadBelow
      <4>1. Cardinality(b[n]) = 1
        BY <4>0, FS_Singleton
      <4> QED BY <4>1, <2>1
    <3> QED BY <3>1, <3>2
  <2> QED BY <2>1, <2>2
<1> HIDE DEF k
<1>2. PICK g : Heights(t, b, g, k)
  BY <1>1, HeightsExist
<1>3. Null \in Nodes /\ Null \notin Names
  BY TreeAssumption DEF Nodes
<1>4. Rule(g)
  <2>1. g = [n \in Nodes |-> g[n]] /\ g[Null] = 0
    BY <1>2 DEF Heights
  <2>2. \A n \in Names : g[n] = Taller(g, t.child[n]["left"], t.child[n]["right"])
    BY <1>1, <1>2 DEF Heights
  <2> QED BY <2>1, <2>2, <1>3 DEF Taller, Nodes
<1>5. Rule(height)
  <2> HIDE DEF Rule
  <2> QED BY <1>4
<1>6. \A e : HeightOf(t, e) = height[e]
  BY DEF HeightOf
<1> HIDE DEF height
<1>7. /\ height[Null] = 0 /\ height = [n \in Nodes |-> height[n]]
      /\ \A n \in Names : height[n] = Taller(height, t.child[n]["left"],
                                             t.child[n]["right"])
  <2>1. height = [n \in Nodes |-> height[n]]
    BY <1>5
  <2>a. height = [n \in Nodes |->
                      IF n = Null THEN 0
                      ELSE Taller(height, t.child[n]["left"], t.child[n]["right"])]
    BY <1>5, Zenon DEF Taller
  <2>2. \A n \in Nodes :
            height[n] = IF n = Null THEN 0
                        ELSE Taller(height, t.child[n]["left"], t.child[n]["right"])
    BY <2>a, Zenon
  <2>3. \A n \in Names : n \in Nodes /\ n # Null
    BY <1>3 DEF Nodes
  <2> HIDE DEF Rule
  <2> QED BY <2>1, <2>2, <2>3, <1>3
<1> DEFINE T == {n \in Names : height[n] # g[n]}
<1>8. T = {}
  <2> SUFFICES ASSUME T # {} PROVE FALSE
    OBVIOUS
  <2>1. PICK n \in T : \A q \in Sides : t.child[n][q] \notin T
    BY BottomUp
  <2> DEFINE l == t.child[n]["left"]
             r == t.child[n]["right"]
  <2>2. l \in Nodes /\ r \in Nodes /\ l \notin T /\ r \notin T
    BY <2>1, ChildFacts DEF Sides
  <2>3. height[l] = g[l] /\ height[r] = g[r]
    BY <2>2, <1>2, <1>7 DEF Nodes, Heights
  <2>4. height[n] = Taller(height, l, r) /\ g[n] = Taller(g, l, r)
    BY <2>1, <1>1, <1>2, <1>7 DEF Heights
  <2> HIDE DEF l, r
  <2> QED BY <2>1, <2>3, <2>4 DEF Taller
<1>9. \A n \in Nodes : height[n] = g[n] /\ g[n] \in Nat
  BY <1>2, <1>7, <1>8 DEF Nodes, Heights
<1>10. height \in [Nodes -> Int]
  BY <1>7, <1>9
<1> QED BY <1>6, <1>7, <1>10

(* What the numbers of nodes of two subtrees have to give for the bound.   *)
LEMMA Squares ==
  ASSUME NEW x \in Nat, NEW y \in Nat, NEW z \in Nat, z <= x * x, z <= y * y
  PROVE  4 * z <= (x + y) * (x + y)
<1>1. (x + y) * (x + y) = x * x + 2 * (x * y) + y * y
  OBVIOUS
<1>2. CASE x <= y
  <2>1. x * x <= x * y
    BY <1>2
  <2> QED BY <1>1, <2>1
<1>3. CASE y <= x
  <2>1. y * y <= x * y
    BY <1>3
  <2> QED BY <1>1, <2>1
<1> QED BY <1>2, <1>3

(* The height and the number of nodes below n, bounded by its rank.        *)
Bounded(b, r, f, n) ==
    /\ f[n] \in Nat /\ Power[f[n]] <= Power[r[n] + 1]
    /\ Power[r[n] + 1] <= (Cardinality(b[n]) + 1) * (Cardinality(b[n]) + 1)

(* If so below its children, then below n.                                 *)
LEMMA BoundedStep ==
  ASSUME NEW t, NEW S, NEW b, Shape(t, S, b), NEW r, Even(t, r), NEW f,
         NEW n \in Names, f[n] = Taller(f, t.child[n]["left"], t.child[n]["right"]),
         \A q \in Sides : Bounded(b, r, f, t.child[n][q])
  PROVE  Bounded(b, r, f, n)
<1> DEFINE l == t.child[n]["left"]
           m == t.child[n]["right"]
           x == Cardinality(b[l])
           y == Cardinality(b[m])
           k == r[n] - 1
<1>1. /\ r[n] = r[l] + Diff(t, n, "left") /\ r[n] = r[m] + Diff(t, n, "right")
      /\ r[l] \in Int /\ r[l] >= -1 /\ r[m] \in Int /\ r[m] >= -1
      /\ r[n] \in Int /\ r[n] >= 0
      /\ Diff(t, n, "left") \in {1, 2} /\ Diff(t, n, "right") \in {1, 2}
  <2>1. Balance(t, r, Null, "left", 0) /\ n # Null
    BY TreeAssumption DEF Even
  <2>2. Diff(t, n, "left") \in {1, 2} /\ Diff(t, n, "right") \in {1, 2}
    BY DEF Diff
  <2> QED BY <2>1, <2>2, PlainRanks DEF Sides
<1>2. x \in Nat /\ y \in Nat /\ Cardinality(b[n]) = 1 + x + y
  BY Sizes
<1>3. Bounded(b, r, f, l) /\ Bounded(b, r, f, m)
  BY DEF Sides
<1>4. f[n] = 1 + (IF f[l] > f[m] THEN f[l] ELSE f[m])
  BY DEF Taller
<1> HIDE DEF l, m, x, y
<1>5. /\ f[l] \in Nat /\ f[m] \in Nat
      /\ Power[f[l]] <= Power[r[l] + 1] /\ Power[r[l] + 1] <= (x + 1) * (x + 1)
      /\ Power[f[m]] <= Power[r[m] + 1] /\ Power[r[m] + 1] <= (y + 1) * (y + 1)
  BY <1>3 DEF Bounded, x, y
<1>6. /\ r[n] \in Nat
      /\ r[l] + 1 \in {r[n], r[n] - 1} /\ r[l] + 1 \in Nat
      /\ r[m] + 1 \in {r[n], r[n] - 1} /\ r[m] + 1 \in Nat
  BY <1>1
<1>7. /\ Power[r[n]] \in Nat /\ Power[r[n] + 1] = 2 * Power[r[n]]
      /\ r[n] >= 1 => /\ Power[r[n] - 1] \in Nat /\ Power[r[n]] = 2 * Power[r[n] - 1]
  <2>1. r[n] >= 1 => r[n] - 1 \in Nat /\ (r[n] - 1) + 1 = r[n]
    BY <1>6
  <2> QED BY <2>1, <1>6, PowerFacts
<1>8. Power[r[l] + 1] <= Power[r[n]] /\ Power[r[m] + 1] <= Power[r[n]]
  <2>1. ASSUME NEW i \in Nat, i \in {r[n], r[n] - 1} PROVE Power[i] <= Power[r[n]]
    <3>1. CASE i = r[n]
      BY <3>1, <1>7
    <3>2. CASE i = r[n] - 1 /\ r[n] >= 1
      <4>1. Power[i] = Power[r[n] - 1]
        BY <3>2
      <4> QED BY <4>1, <3>2, <1>7
    <3> QED BY <2>1, <3>1, <3>2, <1>6
  <2> QED BY <2>1, <1>6
<1>9. f[n] \in Nat /\ Power[f[n]] <= Power[r[n] + 1]
  <2>1. ASSUME NEW c, c \in {l, m}, f[n] = 1 + f[c]
        PROVE  f[n] \in Nat /\ Power[f[n]] <= Power[r[n] + 1]
    <3>1. f[c] \in Nat /\ Power[f[c]] <= Power[r[n]]
      <4>1. /\ Power[f[l]] \in Nat /\ Power[f[m]] \in Nat /\ Power[r[l] + 1] \in Nat
            /\ Power[r[m] + 1] \in Nat
        BY <1>5, <1>6, PowerFacts
      <4>2. Power[f[l]] <= Power[r[n]] /\ Power[f[m]] <= Power[r[n]]
        BY <4>1, <1>5, <1>7, <1>8
      <4> QED BY <4>2, <2>1, <1>5
    <3>2. f[n] = f[c] + 1 /\ f[n] \in Nat
      BY <2>1, <3>1
    <3>3. Power[f[c]] \in Nat /\ Power[f[n]] = 2 * Power[f[c]]
      BY <3>1, <3>2, PowerFacts
    <3> QED BY <3>1, <3>2, <3>3, <1>7
  <2> QED BY <2>1, <1>4
<1>10. Power[r[n] + 1] <= (Cardinality(b[n]) + 1) * (Cardinality(b[n]) + 1)
  <2> DEFINE X == x + 1
             Y == y + 1
  <2>0. X \in Nat /\ Y \in Nat /\ X >= 1 /\ Y >= 1 /\ Cardinality(b[n]) + 1 = X + Y
    BY <1>2
  <2>1. Power[r[l] + 1] <= X * X /\ Power[r[m] + 1] <= Y * Y
    BY <1>5
  <2> HIDE DEF X, Y
  <2>2. CASE r[n] = 0
    <3>1. Power[r[n] + 1] = 2
      BY <2>2, <1>7, PowerFacts
    <3>2. 4 * 1 <= (X + Y) * (X + Y)
      <4>1. 1 <= X * X /\ 1 <= Y * Y
        BY <2>0
      <4> QED BY <2>0, <4>1, Squares
    <3> QED BY <2>0, <3>1, <3>2
  <2>3. CASE r[n] >= 1
    <3> DEFINE z == Power[r[n] - 1]
    <3>1. z \in Nat /\ Power[r[n]] = 2 * z /\ Power[r[n] + 1] = 4 * z
      BY <2>3, <1>7
    <3>2. \A i \in Nat : i \in {r[n], r[n] - 1} => Power[i] \in Nat /\ z <= Power[i]
      <4> TAKE i \in Nat
      <4>1. i = r[n] => Power[i] = Power[r[n]]
        OBVIOUS
      <4>2. i = r[n] - 1 => Power[i] = z
        OBVIOUS
      <4> HIDE DEF z
      <4> QED BY <4>1, <4>2, <3>1
    <3>3. z <= Power[r[l] + 1] /\ z <= Power[r[m] + 1]
      BY <3>2, <1>6
    <3> HIDE DEF z
    <3>4. z <= X * X /\ z <= Y * Y
      <4>1. Power[r[l] + 1] \in Nat /\ Power[r[m] + 1] \in Nat
        BY <1>6, PowerFacts
      <4>2. X * X \in Nat /\ Y * Y \in Nat
        BY <2>0
      <4> QED BY <4>1, <4>2, <3>1, <3>3, <2>1
    <3>5. 4 * z <= (X + Y) * (X + Y)
      BY <2>0, <3>1, <3>4, Squares
    <3> QED BY <2>0, <3>1, <3>5
  <2> QED BY <2>2, <2>3, <1>6
<1> QED BY <1>9, <1>10 DEF Bounded

(* A tree with no rank to restore keeps the conditions of the header, of   *)
(* every size: src/tree.h:57-72.                                           *)
LEMMA EvenRule ==
  ASSUME NEW t, NEW S, NEW b, Shape(t, S, b), NEW r, Even(t, r)
  PROVE  /\ \A n \in S :
               /\ \A s \in Sides :
                      RankOf(t, n) = RankOf(t, t.child[n][s])
                                     + (IF Red(t, n, s) THEN 2 ELSE 1)
               /\ t.child[n] = Blank => t.red[n] = {}
         /\ Power[HeightOf(t, t.root)] <= (Cardinality(S) + 1) * (Cardinality(S) + 1)
<1>1. /\ Balance(t, r, Null, "left", 0) /\ LeafRule(t)
      /\ Null \notin Names /\ S \subseteq Names /\ b[Null] = {} /\ S = b[t.root]
      /\ t.root \in Nodes
  BY TreeAssumption, FieldTypes DEF Even, Shape, ShapeType, Rooted
<1>2. ASSUME NEW n \in S
      PROVE  /\ \A s \in Sides :
                    RankOf(t, n) = RankOf(t, t.child[n][s])
                                   + (IF Red(t, n, s) THEN 2 ELSE 1)
             /\ t.child[n] = Blank => t.red[n] = {}
  <2>1. n \in Names /\ n # Null /\ n \in Nodes
    BY <1>1 DEF Nodes
  <2>2. ASSUME NEW s \in Sides
        PROVE  RankOf(t, n) = RankOf(t, t.child[n][s]) + (IF Red(t, n, s) THEN 2 ELSE 1)
    <3>1. r[n] = r[t.child[n][s]] + Diff(t, n, s)
      BY <1>1, <2>1, PlainRanks
    <3>2. RankOf(t, n) = r[n]
      BY <2>1, RankOfIs
    <3>3. RankOf(t, t.child[n][s]) = r[t.child[n][s]]
      BY <2>1, ChildFacts, RankOfIs
    <3> QED BY <3>1, <3>2, <3>3 DEF Diff, Red
  <2> QED BY <2>1, <2>2, <1>1 DEF LeafRule
<1>3. PICK f : /\ f \in [Nodes -> Int] /\ f[Null] = 0
               /\ \A n \in Names : f[n] = Taller(f, t.child[n]["left"],
                                                 t.child[n]["right"])
               /\ \A e : HeightOf(t, e) = f[e]
  BY HeightIs
<1>4. Bounded(b, r, f, Null)
  <2>1. r[Null] = -1
    BY <1>1 DEF Balance, RankType
  <2>2. Cardinality(b[Null]) = 0
    BY <1>1, FS_EmptySet
  <2>3. r[Null] + 1 = 0
    BY <2>1
  <2> QED BY <2>2, <2>3, <1>3, PowerFacts DEF Bounded
<1> DEFINE T == {n \in Names : ~Bounded(b, r, f, n)}
<1>5. T = {}
  <2> SUFFICES ASSUME T # {} PROVE FALSE
    OBVIOUS
  <2>1. PICK n \in T : \A q \in Sides : t.child[n][q] \notin T
    BY BottomUp
  <2>2. ASSUME NEW q \in Sides PROVE Bounded(b, r, f, t.child[n][q])
    <3>1. t.child[n][q] \in Nodes /\ t.child[n][q] \notin T
      BY <2>1, ChildFacts
    <3> QED BY <3>1, <1>4 DEF Nodes
  <2>3. f[n] = Taller(f, t.child[n]["left"], t.child[n]["right"]) /\ n \in Names
    BY <2>1, <1>3
  <2>4. Bounded(b, r, f, n)
    BY <2>2, <2>3, BoundedStep
  <2> QED BY <2>1, <2>4
<1>6. Bounded(b, r, f, t.root)
  BY <1>1, <1>4, <1>5 DEF Nodes
<1>7. Power[HeightOf(t, t.root)] <= (Cardinality(S) + 1) * (Cardinality(S) + 1)
  <2> DEFINE h == f[t.root]
             k == r[t.root] + 1
             c == Cardinality(S)
  <2>1. h \in Nat /\ Power[h] <= Power[k] /\ Power[k] <= (c + 1) * (c + 1)
    BY <1>1, <1>6 DEF Bounded
  <2>2. k \in Nat /\ c \in Nat
    <3>1. r[t.root] \in Int /\ r[t.root] >= -1
      BY <1>1 DEF Balance, RankType, Nodes
    <3>2. c \in Nat
      BY FS_CardinalityType DEF Shape, ShapeType
    <3> QED BY <3>1, <3>2
  <2>3. HeightOf(t, t.root) = h
    BY <1>3
  <2> HIDE DEF h, k, c
  <2>4. Power[h] \in Nat /\ Power[k] \in Nat
    BY <2>1, <2>2, PowerFacts
  <2>5. Power[h] <= (c + 1) * (c + 1)
    BY <2>1, <2>2, <2>4
  <2> QED BY <2>3, <2>5 DEF c
<1> QED BY <1>2, <1>7
-----------------------------------------------------------------------------

(* What RB_INSERT leaves: a new leaf below p, or the root of a tree that   *)
(* was empty.                                                              *)
Linked(u, t, n, p, s) ==
    /\ u \in Trees /\ u.root = IF p = Null THEN n ELSE t.root
    /\ \A m \in Names : u.up[m] = IF m = n THEN p ELSE t.up[m]
    /\ \A m \in Names, q \in Sides :
           u.child[m][q] = IF m = n THEN Null
                           ELSE IF m = p /\ q = s THEN n ELSE t.child[m][q]
    /\ \A m \in Names : u.red[m] = IF m = n THEN {} ELSE t.red[m]

(* No child on either side.                                                *)
LEMMA BlankSides ==
  ASSUME NEW q \in Sides
  PROVE  Blank[q] = Null
BY DEF Blank

(* RB_INSERT leaves that.                                                  *)
LEMMA LinkFields ==
  ASSUME NEW t \in Trees, NEW n \in Names, NEW p \in Nodes, p # n,
         p = IF t.root = Null THEN Null ELSE Bottom(t, n)
  PROVE  Linked(Link(t, n), t, n, p, Toward(p, n))
<1> DEFINE leaf == SetNode(t, n, p)
           u == Link(t, n)
<1>1. u = IF p = Null THEN [leaf EXCEPT !.root = n]
          ELSE SetChild(leaf, p, Toward(p, n), n)
  BY Zenon DEF Link
<1>2. NodeSet(leaf, t, n, p, Blank, {})
  BY SetNodeFields
<1>3. leaf \in Trees /\ n \in Nodes
  BY <1>2 DEF NodeSet, Nodes
<1> HIDE DEF leaf, u
<1>4. CASE p = Null
  <2>1. RootSet(u, leaf, n)
    BY <1>1, <1>3, <1>4, RootFields
  <2>2. \A m \in Names : m # p
    BY <1>4, TreeAssumption
  <2>3. \A m \in Names, q \in Sides :
            u.child[m][q] = IF m = n THEN Null ELSE t.child[m][q]
    BY <2>1, <1>2, BlankSides DEF RootSet, NodeSet
  <2>4. /\ u \in Trees /\ u.root = n
        /\ \A m \in Names : u.up[m] = IF m = n THEN p ELSE t.up[m]
        /\ \A m \in Names : u.red[m] = IF m = n THEN {} ELSE t.red[m]
    BY <2>1, <1>2 DEF RootSet, NodeSet
  <2>5. \A m \in Names, q \in Sides :
            u.child[m][q] = IF m = n THEN Null
                            ELSE IF m = p /\ q = Toward(p, n) THEN n ELSE t.child[m][q]
    BY <2>2, <2>3
  <2>6. u.root = IF p = Null THEN n ELSE t.root
    BY <2>4, <1>4
  <2> QED BY <2>4, <2>5, <2>6, Zenon DEF Linked, u
<1>5. CASE p # Null
  <2>1. p \in Names /\ Toward(p, n) \in Sides
    BY <1>5 DEF Nodes, Toward, Sides
  <2>2. ChildSet(u, leaf, p, Toward(p, n), n)
    BY <1>1, <1>3, <1>5, <2>1, SetChildFields
  <2>3. \A m \in Names, q \in Sides :
            leaf.child[m][q] = IF m = n THEN Null ELSE t.child[m][q]
    BY <1>2, BlankSides DEF NodeSet
  <2>4. \A m \in Names, q \in Sides :
            u.child[m][q] = IF m = p /\ q = Toward(p, n) THEN n ELSE leaf.child[m][q]
    BY <2>2 DEF ChildSet
  <2>5. /\ u \in Trees /\ u.root = t.root
        /\ \A m \in Names : u.up[m] = IF m = n THEN p ELSE t.up[m]
        /\ \A m \in Names : u.red[m] = IF m = n THEN {} ELSE t.red[m]
    BY <2>2, <1>2 DEF ChildSet, NodeSet
  <2>6. \A m \in Names, q \in Sides :
            u.child[m][q] = IF m = n THEN Null
                            ELSE IF m = p /\ q = Toward(p, n) THEN n ELSE t.child[m][q]
    BY <2>3, <2>4
  <2>7. u.root = IF p = Null THEN n ELSE t.root
    BY <2>5, <1>5
  <2> QED BY <2>5, <2>6, <2>7, Zenon DEF Linked, u
<1> QED BY <1>4, <1>5 DEF u

(* The place of n: below p on side s, where there is nothing.              *)
LinkPlace(t, b, n, p, s) ==
    /\ p \in Names /\ s \in Sides /\ s = Toward(p, n) /\ p \in b[t.root]
    /\ t.child[p][s] = Null
    /\ \A a \in b[t.root], q \in Sides : p \in b[t.child[a][q]] => Toward(a, n) = q

(* There it keeps the order.                                               *)
LEMMA LinkBelow ==
  ASSUME NEW t, NEW S, NEW b, Shape(t, S, b), NEW n \in Names \ S,
         NEW p, NEW s, LinkPlace(t, b, n, p, s), NEW u, Linked(u, t, n, p, s)
  PROVE  \E d : Shape(u, S \cup {n}, d)
<1> DEFINE d == [m \in Nodes |-> IF p \in b[m] THEN b[m] \cup {n} ELSE b[m]]
<1>1. /\ t \in Trees /\ u \in Trees /\ S \subseteq Names /\ IsFiniteSet(S)
      /\ b \in [Nodes -> SUBSET Names] /\ b[Null] = {} /\ Null \notin Names
      /\ Null \in Nodes
  BY TreeAssumption DEF Shape, ShapeType, Linked, Nodes
<1>2. /\ p \in Names /\ s \in Sides /\ s = Toward(p, n) /\ p \in S
      /\ t.child[p][s] = Null
      /\ \A a \in S, q \in Sides : p \in b[t.child[a][q]] => Toward(a, n) = q
      /\ p # n /\ p # Null /\ n # Null
  BY <1>1 DEF LinkPlace, Shape, Rooted
<1>3. b[n] = {n} /\ t.up[n] = Null /\ \A q \in Sides : t.child[n][q] = Null
  BY DeadBelow
<1>4. /\ d \in [Nodes -> SUBSET Names] /\ d[Null] = {} /\ d[n] = {n}
      /\ \A m \in Nodes : d[m] = IF p \in b[m] THEN b[m] \cup {n} ELSE b[m]
  BY <1>1, <1>2, <1>3 DEF Nodes
<1> HIDE DEF d
<1>5. ShapeType(u, S \cup {n}, d)
  BY <1>1, <1>4, FS_AddElement DEF ShapeType
<1>6. /\ u.root = t.root
      /\ \A m \in Names : u.up[m] = IF m = n THEN p ELSE t.up[m]
      /\ \A m \in Names, q \in Sides :
             u.child[m][q] = IF m = n THEN Null
                             ELSE IF m = p /\ q = s THEN n ELSE t.child[m][q]
  BY <1>2 DEF Linked
<1>7. \A m \in Names, q \in Sides :
          /\ t.child[m][q] \in Nodes /\ t.child[m][q] # n
          /\ t.child[m][q] # Null => t.up[t.child[m][q]] = m
          /\ b[t.child[m][q]] \subseteq b[m]
          /\ m \in b[m] /\ m \notin b[t.child[m][q]]
  <2> SUFFICES ASSUME NEW m \in Names, NEW q \in Sides
               PROVE  /\ t.child[m][q] \in Nodes /\ t.child[m][q] # n
                      /\ t.child[m][q] # Null => t.up[t.child[m][q]] = m
                      /\ b[t.child[m][q]] \subseteq b[m]
                      /\ m \in b[m] /\ m \notin b[t.child[m][q]]
    OBVIOUS
  <2>1. t.child[m][q] # n
    BY <1>1, <1>2, <1>3, ChildFacts
  <2> QED BY <2>1, ChildFacts
<1>8. ASSUME NEW m \in Names
      PROVE  d[m] = {m} \cup d[u.child[m]["left"]] \cup d[u.child[m]["right"]]
  <2>0. b[m] = {m} \cup b[t.child[m]["left"]] \cup b[t.child[m]["right"]]
    BY DEF Shape, Unfolds
  <2>1. CASE m = n
    BY <2>1, <1>4, <1>6 DEF Sides
  <2>2. CASE m = p
    <3>1. b[m] = {m} \cup b[t.child[m][s]] \cup b[t.child[m][Other(s)]]
      BY <1>2, UnfoldSides
    <3>2. d[m] = b[m] \cup {n}
      BY <2>2, <1>2, <1>4, <1>7 DEF Nodes
    <3>3. u.child[m][s] = n /\ Other(s) \in Sides /\ Other(s) # s
      BY <2>2, <1>2, <1>6, SideFacts
    <3>4. u.child[m][Other(s)] = t.child[m][Other(s)]
      BY <2>2, <3>3, <1>2, <1>6
    <3>5. d[t.child[m][Other(s)]] = b[t.child[m][Other(s)]]
      BY <2>2, <3>3, <1>4, <1>7
    <3>6. d[m] = {m} \cup d[u.child[m][s]] \cup d[u.child[m][Other(s)]]
      BY <3>1, <3>2, <3>3, <3>4, <3>5, <2>2, <1>1, <1>2, <1>4
    <3>7. s = "left" \/ s = "right"
      BY <1>2 DEF Sides
    <3> QED BY <3>6, <3>7 DEF Other
  <2>3. CASE m # n /\ m # p
    <3>1. /\ u.child[m]["left"] = t.child[m]["left"]
          /\ u.child[m]["right"] = t.child[m]["right"]
      BY <2>3, <1>6 DEF Sides
    <3>2. t.child[m]["left"] \in Nodes /\ t.child[m]["right"] \in Nodes /\ m \in Nodes
      BY <1>7 DEF Sides, Nodes
    <3> HIDE DEF Nodes
    <3> QED BY <2>0, <2>3, <3>1, <3>2, <1>4
  <2> QED BY <2>1, <2>2, <2>3
<1>9. LinksBack(u)
  <2> SUFFICES ASSUME NEW m \in Names, NEW q \in Sides, u.child[m][q] # Null
               PROVE  u.up[u.child[m][q]] = m
    BY DEF LinksBack
  <2>1. CASE m = p /\ q = s
    BY <2>1, <1>2, <1>6
  <2>2. CASE ~(m = p /\ q = s)
    <3>1. u.child[m][q] = t.child[m][q] /\ t.child[m][q] # n
      BY <2>2, <1>6, <1>7
    <3>2. t.child[m][q] \in Names
      BY <3>1, <1>7 DEF Nodes
    <3> QED BY <3>1, <3>2, <1>6, <1>7
  <2> QED BY <2>1, <2>2
<1>10. Ordered(u, d)
  <2> SUFFICES ASSUME NEW m \in Names, NEW q \in Sides, NEW x \in d[u.child[m][q]]
               PROVE  Precedes(q, x, m)
    BY DEF Ordered
  <2>1. m # n
    BY <1>4, <1>6
  <2>2. CASE m = p /\ q = s
    <3>1. x = n
      BY <2>1, <2>2, <1>4, <1>6
    <3> QED BY <2>2, <3>1, <1>2, OrderFacts
  <2>3. CASE ~(m = p /\ q = s)
    <3>1. u.child[m][q] = t.child[m][q]
      BY <2>1, <2>3, <1>6
    <3>2. CASE x \in b[t.child[m][q]]
      BY <3>2 DEF Shape, Ordered
    <3>3. CASE x \notin b[t.child[m][q]]
      <4>1. x = n /\ p \in b[t.child[m][q]]
        BY <3>1, <3>3, <1>4, <1>7
      <4>2. m \in S
        <5>1. p \in b[m] /\ p # m
          BY <4>1, <1>7
        <5> QED BY <5>1, DeadBelow
      <4>3. Toward(m, n) = q
        BY <4>1, <4>2, <1>2
      <4> QED BY <2>1, <4>1, <4>3, OrderFacts
    <3> QED BY <3>2, <3>3
  <2> QED BY <2>2, <2>3
<1>11. LinksDown(u)
  <2> SUFFICES ASSUME NEW m \in Names, u.up[m] # Null
               PROVE  u.child[u.up[m]][Toward(u.up[m], m)] = m
    BY DEF LinksDown
  <2>1. CASE m = n
    BY <2>1, <1>2, <1>6
  <2>2. CASE m # n
    <3>1. /\ u.up[m] = t.up[m] /\ t.up[m] \in Names /\ Toward(t.up[m], m) \in Sides
          /\ t.child[t.up[m]][Toward(t.up[m], m)] = m
      BY <2>2, <1>6, ParentFacts
    <3>2. t.up[m] # n /\ ~(t.up[m] = p /\ Toward(t.up[m], m) = s)
      BY <3>1, <1>1, <1>2, <1>3
    <3> QED BY <3>1, <3>2, <1>6
  <2> QED BY <2>1, <2>2
<1>12. /\ t.root \in S /\ p \in b[t.root] /\ S = b[t.root] /\ t.root # n
       /\ t.up[t.root] = Null
       /\ t.root \in Nodes /\ t.root \in Names
  <2>1. t.root \in S /\ p \in b[t.root]
    BY <1>2, InTree
  <2>2. t.root # Null
    BY <2>1, <1>1
  <2> QED BY <2>1, <2>2, <1>1 DEF Shape, Rooted, Nodes
<1>13. Rooted(u, S \cup {n}, d)
  <2>1. S \cup {n} = d[u.root]
    BY <1>4, <1>6, <1>12
  <2>2. u.up[u.root] = Null
    BY <1>6, <1>12
  <2>3. ASSUME NEW m \in S \cup {n}
        PROVE  d[m] \subseteq S \cup {n} /\ (u.up[m] = Null => m = u.root)
    <3>1. CASE m = n
      BY <3>1, <1>2, <1>4, <1>6
    <3>2. CASE m \in S /\ m # n
      <4>1. m \in Names /\ b[m] \subseteq S /\ m \in Nodes
        BY <3>2, InTree DEF Nodes
      <4>2. t.up[m] = Null => m = t.root
        BY <3>2 DEF Shape, Rooted
      <4>3. d[m] \subseteq S \cup {n}
        BY <4>1, <1>4
      <4>4. u.up[m] = t.up[m]
        BY <4>1, <3>2, <1>6
      <4> QED BY <4>2, <4>3, <4>4, <1>6
    <3> QED BY <3>1, <3>2
  <2> QED BY <2>1, <2>2, <2>3 DEF Rooted
<1>14. Dead(u, S \cup {n})
  <2> SUFFICES ASSUME NEW m \in Names, m \notin S, m # n
               PROVE  u.up[m] = Null /\ u.child[m] = Blank
    BY DEF Dead
  <2>1. t.up[m] = Null /\ \A q \in Sides : t.child[m][q] = Null
    BY DeadBelow
  <2>2. \A q \in Sides : u.child[m][q] = Null
    BY <2>1, <1>2, <1>6
  <2> QED BY <2>1, <2>2, <1>1, <1>6, BlankFacts
<1>15. Unfolds(u, d)
  BY <1>8 DEF Unfolds
<1>16. Shape(u, S \cup {n}, d)
  BY <1>5, <1>9, <1>10, <1>11, <1>13, <1>14, <1>15 DEF Shape
<1> QED BY <1>16

(* So it does in a tree that was empty.                                    *)
LEMMA LinkFirst ==
  ASSUME NEW t, NEW S, NEW b, Shape(t, S, b), NEW n \in Names \ S, t.root = Null,
         NEW u, NEW s, Linked(u, t, n, Null, s)
  PROVE  Shape(u, S \cup {n}, b)
<1>1. /\ t \in Trees /\ u \in Trees /\ b \in [Nodes -> SUBSET Names] /\ b[Null] = {}
      /\ Null \notin Names /\ S = {}
  BY TreeAssumption DEF Shape, ShapeType, Linked, Rooted
<1>2. \A m \in Names :
         b[m] = {m} /\ t.up[m] = Null /\ \A q \in Sides : t.child[m][q] = Null
  BY <1>1, DeadBelow
<1>3. /\ u.root = n /\ \A m \in Names : u.up[m] = Null
      /\ \A m \in Names, q \in Sides : u.child[m][q] = Null
  BY <1>1, <1>2 DEF Linked
<1>4. \A m \in Names : u.child[m] = Blank
  BY <1>1, <1>3, BlankFacts
<1>5. ShapeType(u, S \cup {n}, b)
  <2>1. S \cup {n} = {n} /\ IsFiniteSet({n})
    BY <1>1, FS_Singleton
  <2>2. IsFiniteSet(S \cup {n})
    BY <2>1
  <2> QED BY <2>1, <2>2, <1>1 DEF ShapeType
<1>6. Unfolds(u, b)
  BY <1>1, <1>2, <1>3 DEF Unfolds, Sides
<1>7. LinksBack(u) /\ Ordered(u, b) /\ LinksDown(u)
  BY <1>1, <1>3 DEF LinksBack, Ordered, LinksDown
<1>8. Rooted(u, S \cup {n}, b) /\ Dead(u, S \cup {n})
  BY <1>1, <1>2, <1>3, <1>4 DEF Rooted, Dead
<1> QED BY <1>5, <1>6, <1>7, <1>8 DEF Shape

(* Ranks need not change for a new leaf: it is as a dead node was.         *)
LEMMA LinkRanks ==
  ASSUME NEW t, NEW S, NEW b, Shape(t, S, b), NEW n \in Names \ S, NEW r, Even(t, r),
         NEW p \in Nodes, NEW s, p # Null => t.child[p][s] = Null /\ s \in Sides, p # n,
         NEW u, Linked(u, t, n, p, s)
  PROVE  LeafRule(u) /\ Balance(u, r, p, s, -1) /\ u.child[n] = Blank /\ u.up[n] = p
<1>1. /\ t \in Trees /\ u \in Trees /\ Null \notin Names /\ LeafRule(t)
      /\ Balance(t, r, Null, "left", 0)
  BY TreeAssumption DEF Shape, ShapeType, Linked, Even
<1>2. t.child[n] = Blank /\ t.red[n] = {} /\ \A q \in Sides : t.child[n][q] = Null
  BY <1>1, DeadBelow, BlankFacts DEF LeafRule
<1>3. /\ \A m \in Names : u.up[m] = IF m = n THEN p ELSE t.up[m]
      /\ \A m \in Names, q \in Sides :
             u.child[m][q] = IF m = n THEN Null
                             ELSE IF m = p /\ q = s THEN n ELSE t.child[m][q]
      /\ \A m \in Names : u.red[m] = t.red[m]
  BY <1>2 DEF Linked
<1>4. u.child[n] = Blank
  BY <1>1, <1>3, BlankFacts
<1>5. RankType(r) /\ r[Null] = -1
  BY <1>1 DEF Balance, RankType
<1>6. \A m \in Names, q \in Sides :
          r[m] = r[t.child[m][q]] + Diff(t, m, q) /\ r[t.child[m][q]] \in Int
  <2> TAKE m \in Names, q \in Sides
  <2>1. m # Null
    BY <1>1
  <2> QED BY <1>1, <2>1, PlainRanks
<1>7. r[n] = 0
  <2>1. "left" \in Sides
    BY DEF Sides
  <2>2. r[n] = r[t.child[n]["left"]] + Diff(t, n, "left")
    BY <1>6, <2>1
  <2>3. t.child[n]["left"] = Null /\ Diff(t, n, "left") = 1
    BY <2>1, <1>2 DEF Diff
  <2> QED BY <2>2, <2>3, <1>5
<1>8. ASSUME NEW m \in Names, NEW q \in Sides
      PROVE  r[m] = r[u.child[m][q]] + Diff(u, m, q) + Gap(m, q, p, s, -1)
  <2>1. Diff(u, m, q) = Diff(t, m, q) /\ Diff(t, m, q) \in {1, 2}
    BY <1>3 DEF Diff
  <2>2. CASE m = p /\ q = s
    <3>1. u.child[m][q] = n /\ t.child[m][q] = Null /\ m # n
      BY <2>2, <1>1, <1>3
    <3>2. Gap(m, q, p, s, -1) = -1
      BY <2>2 DEF Gap
    <3>3. r[m] = -1 + Diff(t, m, q)
      BY <3>1, <1>5, <1>6
    <3> QED BY <3>1, <3>2, <3>3, <2>1, <1>7
  <2>3. CASE ~(m = p /\ q = s)
    <3>1. u.child[m][q] = t.child[m][q]
      BY <2>3, <1>2, <1>3
    <3>2. Gap(m, q, p, s, -1) = 0
      BY <2>3 DEF Gap
    <3> QED BY <3>1, <3>2, <2>1, <1>6
  <2> QED BY <2>2, <2>3
<1>9. ASSUME NEW m \in Names, u.child[m] = Blank
      PROVE  u.red[m] = {}
  <2>1. \A q \in Sides : u.child[m][q] = Null
    BY <1>9, BlankSides
  <2>2. \A q \in Sides : t.child[m][q] = Null
    BY <2>1, <1>1, <1>2, <1>3
  <2> QED BY <2>2, <1>1, <1>3, BlankFacts DEF LeafRule
<1> QED BY <1>3, <1>4, <1>5, <1>8, <1>9 DEF LeafRule, Balance

(* RB_INSERT and the beginning of RB_INSERT_COLOR: the new node is in the  *)
(* tree, and what has gone up.                                             *)
LEMMA LinkKeeps ==
  ASSUME NEW t, NEW S, NEW b, Shape(t, S, b), NEW r, Even(t, r), NEW n \in Names \ S
  PROVE  /\ \E d : Shape(Link(t, n), S \cup {n}, d)
         /\ \E w : Raising(Link(t, n), w, n)
<1> DEFINE p == IF t.root = Null THEN Null ELSE Bottom(t, n)
           s == Toward(p, n)
           u == Link(t, n)
<1>1. t \in Trees /\ t.root \in Nodes /\ S = b[t.root] /\ b[t.root] \subseteq Names
      /\ S \subseteq Names
  BY FieldTypes DEF Shape, ShapeType, Rooted
<1>2. ASSUME t.root # Null
      PROVE  LinkPlace(t, b, n, p, s)
  <2>1. Ends(t, b, n, t.root, p)
    BY <1>2, BottomIs
  <2>2. s \in Sides
    BY DEF Toward, Sides
  <2> QED BY <2>1, <2>2, <1>1 DEF LinkPlace, Ends
<1>3. p \in Nodes /\ p # n /\ (p # Null => t.child[p][s] = Null /\ s \in Sides)
      /\ (t.root # Null => p # Null)
  <2>1. CASE t.root = Null
    <3>1. p = Null
      BY <2>1
    <3> QED BY <2>1, <3>1, TreeAssumption DEF Nodes
  <2>2. CASE t.root # Null
    <3>1. LinkPlace(t, b, n, p, s)
      BY <1>2, <2>2
    <3> HIDE DEF p, s
    <3> QED BY <3>1, <1>1, TreeAssumption DEF LinkPlace, Nodes
  <2> QED BY <2>1, <2>2
<1>4. Linked(u, t, n, p, s)
  BY <1>1, <1>3, LinkFields
<1>5. \E d : Shape(u, S \cup {n}, d)
  <2>1. CASE t.root = Null
    <3>1. p = Null
      BY <2>1
    <3> HIDE DEF u, s
    <3> QED BY <2>1, <3>1, <1>4, LinkFirst
  <2>2. CASE t.root # Null
    <3> HIDE DEF u, s, p
    <3> QED BY <2>2, <1>2, <1>4, LinkBelow
  <2> QED BY <2>1, <2>2
<1> HIDE DEF p, s
<1>6. LeafRule(u) /\ Balance(u, r, p, s, -1) /\ u.child[n] = Blank /\ u.up[n] = p
  <2> HIDE DEF u
  <2> QED BY <1>3, <1>4, LinkRanks
<1>7. Raising(u, r, n)
  <2>1. Balance(u, r, u.up[n], Toward(u.up[n], n), -1)
    BY <1>6 DEF s
  <2> HIDE DEF u
  <2> QED BY <2>1, <1>6 DEF Raising, Lifted
<1> QED BY <1>5, <1>7
-----------------------------------------------------------------------------

(* A node n with e as its only child, or none...                           *)
Only(t, n, e) == \E s \in Sides : t.child[n][s] = e /\ t.child[n][Other(s)] = Null

(* ... gives its place to it...                                            *)
Splice(t, n, e) == SetNode(SetParent(SwapChild(t, n, e), e, t.up[n]), n, Null)

(* ... which leaves the other fields as they were.                         *)
SplicedOut(v, t, n, e) ==
    /\ v \in Trees /\ v.root = IF t.up[n] = Null THEN e ELSE t.root
    /\ \A m \in Names : v.up[m] = IF m = n THEN Null
                                  ELSE IF m = e THEN t.up[n] ELSE t.up[m]
    /\ \A m \in Names, q \in Sides :
           v.child[m][q] = IF m = n THEN Null
                           ELSE IF m = t.up[n] /\ q = SideOf(t, m, n) THEN e
                           ELSE t.child[m][q]
    /\ \A m \in Names : v.red[m] = IF m = n THEN {} ELSE t.red[m]

(* It does.                                                                *)
LEMMA SpliceFields ==
  ASSUME NEW t \in Trees, NEW n \in Names, NEW e \in Nodes
  PROVE  SplicedOut(Splice(t, n, e), t, n, e)
<1> DEFINE x == SwapChild(t, n, e)
           y == SetParent(x, e, t.up[n])
           v == SetNode(y, n, Null)
<1>1. Swapped(x, t, n, e)
  BY SwapChildFields
<1>2. x \in Trees /\ t.up[n] \in Nodes /\ Null \in Nodes
  BY <1>1, FieldTypes DEF Swapped, Nodes
<1> HIDE DEF x
<1>3. ParentSet(y, x, e, t.up[n])
  BY <1>2, SetParentFields
<1>4. y \in Trees
  BY <1>3 DEF ParentSet
<1> HIDE DEF y
<1>5. NodeSet(v, y, n, Null, Blank, {})
  BY <1>2, <1>4, SetNodeFields
<1>6. v = Splice(t, n, e)
  BY DEF Splice, x, y
<1> HIDE DEF v
<1>7. \A m \in Names, q \in Sides :
          v.child[m][q] = IF m = n THEN Null
                          ELSE IF m = t.up[n] /\ q = SideOf(t, m, n) THEN e
                          ELSE t.child[m][q]
  <2>1. \A m \in Names, q \in Sides :
            v.child[m][q] = IF m = n THEN Null ELSE y.child[m][q]
    BY <1>5, BlankSides DEF NodeSet
  <2>2. \A m \in Names, q \in Sides : y.child[m][q] = x.child[m][q]
    BY <1>3 DEF ParentSet
  <2> QED BY <2>1, <2>2, <1>1 DEF Swapped
<1>8. \A m \in Names : v.up[m] = IF m = n THEN Null
                                 ELSE IF m = e THEN t.up[n] ELSE t.up[m]
  BY <1>1, <1>3, <1>5 DEF Swapped, ParentSet, NodeSet
<1>9. \A m \in Names : v.red[m] = IF m = n THEN {} ELSE t.red[m]
  BY <1>1, <1>3, <1>5 DEF Swapped, ParentSet, NodeSet
<1>10. v \in Trees /\ v.root = IF t.up[n] = Null THEN e ELSE t.root
  BY <1>1, <1>3, <1>5 DEF Swapped, ParentSet, NodeSet
<1>11. SplicedOut(v, t, n, e)
  BY <1>7, <1>8, <1>9, <1>10, Zenon DEF SplicedOut
<1> QED BY <1>6, <1>11

(* What is linked to n and e.                                              *)
LEMMA OnlyFacts ==
  ASSUME NEW t, NEW S, NEW b, Shape(t, S, b), NEW n \in S, NEW e, Only(t, n, e),
         NEW v, SplicedOut(v, t, n, e)
  PROVE  /\ n \in Names /\ e \in Nodes /\ e # n /\ b[n] = {n} \cup b[e] /\ n \notin b[e]
         /\ t.up[n] \in S \cup {Null} /\ t.up[n] # n /\ (t.up[n] # e \/ t.up[n] = Null)
         /\ e # Null => e \in Names /\ e \in b[n] /\ t.up[e] = n
         /\ \A m \in Names : t.up[m] = n => m = e
         /\ t.up[n] # Null => /\ t.up[n] \in Names /\ Toward(t.up[n], n) \in Sides
                              /\ v.child[t.up[n]][Toward(t.up[n], n)] = e
                              /\ t.child[t.up[n]][Toward(t.up[n], n)] = n
                              /\ e # Null => Toward(t.up[n], e) = Toward(t.up[n], n)
         /\ \A q \in Sides : v.child[n][q] = Null
         /\ \A m \in Names \ {n}, q \in Sides :
                /\ t.child[m][q] # n => v.child[m][q] = t.child[m][q]
                /\ t.child[m][q] = n => v.child[m][q] = e
                                        /\ m = t.up[n] /\ q = Toward(m, n)
<1>1. PICK s \in Sides : t.child[n][s] = e /\ t.child[n][Other(s)] = Null
  BY DEF Only
<1>2. n \in Names /\ n # Null /\ Other(s) \in Sides /\ b[Null] = {}
  BY TreeAssumption, SideFacts DEF Shape, ShapeType
<1>3. /\ e \in Nodes /\ e # n /\ b[n] = {n} \cup b[e] /\ n \notin b[e]
      /\ e # Null => e \in Names /\ e \in b[n] /\ t.up[e] = n
      /\ t.up[n] # n
  BY <1>1, <1>2, ChildFacts, UnfoldSides
<1>4. ASSUME NEW m \in Names, t.up[m] = n PROVE m = e
  <2>1. Toward(n, m) \in Sides /\ t.child[n][Toward(n, m)] = m /\ m # Null
    BY <1>2, <1>4, ParentFacts, TreeAssumption
  <2> QED BY <2>1, <1>1, SideFacts
<1>5. t.up[n] \in S \cup {Null} /\ (t.up[n] # e \/ t.up[n] = Null)
  <2>1. t.up[n] \in S \cup {Null}
    BY InTree
  <2>2. ASSUME t.up[n] = e, e # Null PROVE FALSE
    <3>1. n \in b[e]
      BY <2>2, InTree
    <3> QED BY <3>1, <1>3
  <2> QED BY <2>1, <2>2
<1>6. \A q \in Sides : v.child[n][q] = Null
  BY <1>2 DEF SplicedOut
<1>7. ASSUME NEW m \in Names, m # n, NEW q \in Sides
      PROVE  /\ t.child[m][q] # n => v.child[m][q] = t.child[m][q]
             /\ t.child[m][q] = n => v.child[m][q] = e
                                     /\ m = t.up[n] /\ q = Toward(m, n)
  <2>1. v.child[m][q] = IF m = t.up[n] /\ q = SideOf(t, m, n) THEN e ELSE t.child[m][q]
    BY <1>7 DEF SplicedOut
  <2>2. t.child[m][q] = n <=> m = t.up[n] /\ q = Toward(m, n)
    BY <1>2, ParentOnly
  <2>3. m = t.up[n] => SideOf(t, m, n) = Toward(m, n)
    BY <1>2, ParentFacts, TreeAssumption
  <2> QED BY <2>1, <2>2, <2>3
<1>8. ASSUME t.up[n] # Null
      PROVE  /\ t.up[n] \in Names /\ Toward(t.up[n], n) \in Sides
             /\ v.child[t.up[n]][Toward(t.up[n], n)] = e
             /\ t.child[t.up[n]][Toward(t.up[n], n)] = n
             /\ e # Null => Toward(t.up[n], e) = Toward(t.up[n], n)
  <2>1. /\ t.up[n] \in Names /\ Toward(t.up[n], n) \in Sides
        /\ t.child[t.up[n]][Toward(t.up[n], n)] = n
    BY <1>2, <1>8, ParentFacts
  <2>2. v.child[t.up[n]][Toward(t.up[n], n)] = e
    BY <2>1, <1>3, <1>7
  <2>3. e # Null => Toward(t.up[n], e) = Toward(t.up[n], n)
    BY <2>1, <1>3, Halves
  <2> QED BY <2>1, <2>2, <2>3
<1> QED BY <1>2, <1>3, <1>4, <1>5, <1>6, <1>7, <1>8

(* What is below each node without n.                                      *)
Without(b, n) == [m \in Nodes |-> IF m = n THEN {n} ELSE b[m] \ {n}]

(* The tree keeps its shape.                                               *)
LEMMA SpliceShape ==
  ASSUME NEW t, NEW S, NEW b, Shape(t, S, b), NEW n \in S, NEW e, Only(t, n, e),
         NEW v, SplicedOut(v, t, n, e)
  PROVE  Shape(v, S \ {n}, Without(b, n))
<1> DEFINE p == t.up[n]
           d == Without(b, n)
<1>1. /\ t \in Trees /\ v \in Trees /\ S \subseteq Names /\ IsFiniteSet(S)
      /\ b \in [Nodes -> SUBSET Names] /\ b[Null] = {} /\ Null \notin Names
      /\ Null \in Nodes /\ n \in Names
  BY TreeAssumption DEF Shape, ShapeType, SplicedOut, Nodes
<1>2. /\ e \in Nodes /\ e # n /\ b[n] = {n} \cup b[e] /\ n \notin b[e]
      /\ p \in S \cup {Null} /\ p # n /\ (p # e \/ p = Null)
      /\ e # Null => e \in Names /\ e \in b[n] /\ t.up[e] = n
      /\ \A m \in Names : t.up[m] = n => m = e
      /\ p # Null => /\ p \in Names /\ Toward(p, n) \in Sides
                     /\ v.child[p][Toward(p, n)] = e
                     /\ e # Null => Toward(p, e) = Toward(p, n)
      /\ \A q \in Sides : v.child[n][q] = Null
      /\ \A m \in Names \ {n}, q \in Sides :
             /\ t.child[m][q] # n => v.child[m][q] = t.child[m][q]
             /\ t.child[m][q] = n => v.child[m][q] = e /\ m = p /\ q = Toward(m, n)
  BY OnlyFacts
<1>3. /\ v.root = IF p = Null THEN e ELSE t.root
      /\ \A m \in Names : v.up[m] = IF m = n THEN Null
                                    ELSE IF m = e THEN p ELSE t.up[m]
  BY DEF SplicedOut
<1>4. d \in [Nodes -> SUBSET Names] /\ d[n] = {n}
      /\ \A m \in Nodes : m # n => d[m] = b[m] \ {n}
  BY <1>1 DEF Without, Nodes
<1> HIDE DEF p, d
<1>5. ShapeType(v, S \ {n}, d)
  <2>1. IsFiniteSet(S \ {n})
    BY <1>1, FS_RemoveElement
  <2>2. d[Null] = {}
    BY <1>1, <1>4
  <2> QED BY <2>1, <2>2, <1>1, <1>4 DEF ShapeType
<1>6. \A m \in Names, q \in Sides :
          /\ t.child[m][q] \in Nodes /\ m \in b[m] /\ m \notin b[t.child[m][q]]
          /\ t.child[m][q] # Null => t.child[m][q] \in Names /\ t.up[t.child[m][q]] = m
  BY ChildFacts
<1>7. ASSUME NEW m \in Names, m # n, NEW q \in Sides
      PROVE  d[v.child[m][q]] = b[t.child[m][q]] \ {n}
  <2>1. CASE t.child[m][q] = n
    BY <2>1, <1>2, <1>4, <1>7
  <2>2. CASE t.child[m][q] # n
    <3>1. v.child[m][q] = t.child[m][q] /\ t.child[m][q] \in Nodes
      BY <2>2, <1>2, <1>6, <1>7
    <3> QED BY <2>2, <3>1, <1>4
  <2> QED BY <2>1, <2>2
<1>8. Unfolds(v, d)
  <2> SUFFICES ASSUME NEW m \in Names
               PROVE  d[m] = {m} \cup d[v.child[m]["left"]] \cup d[v.child[m]["right"]]
    BY DEF Unfolds
  <2>1. CASE m = n
    <3>1. v.child[m]["left"] = Null /\ v.child[m]["right"] = Null
      BY <2>1, <1>2 DEF Sides
    <3> QED BY <2>1, <3>1, <1>1, <1>4
  <2>2. CASE m # n
    <3>1. b[m] = {m} \cup b[t.child[m]["left"]] \cup b[t.child[m]["right"]]
      BY DEF Shape, Unfolds
    <3>2. d[v.child[m]["left"]] = b[t.child[m]["left"]] \ {n}
      BY <2>2, <1>7 DEF Sides
    <3>3. d[v.child[m]["right"]] = b[t.child[m]["right"]] \ {n}
      BY <2>2, <1>7 DEF Sides
    <3>4. d[m] = b[m] \ {n}
      BY <2>2, <1>4 DEF Nodes
    <3> QED BY <2>2, <3>1, <3>2, <3>3, <3>4
  <2> QED BY <2>1, <2>2
<1>9. Ordered(v, d)
  <2> SUFFICES ASSUME NEW m \in Names, NEW q \in Sides, NEW x \in d[v.child[m][q]]
               PROVE  Precedes(q, x, m)
    BY DEF Ordered
  <2>1. m # n
    <3> SUFFICES ASSUME m = n PROVE FALSE
      OBVIOUS
    <3>1. v.child[m][q] = Null
      BY <1>2
    <3> QED BY <3>1, <1>1, <1>4
  <2>2. x \in b[t.child[m][q]]
    BY <2>1, <1>7
  <2> QED BY <2>2 DEF Shape, Ordered
<1>10. LinksBack(v)
  <2> SUFFICES ASSUME NEW m \in Names, NEW q \in Sides, v.child[m][q] # Null
               PROVE  v.up[v.child[m][q]] = m
    BY DEF LinksBack
  <2>1. m # n
    BY <1>2
  <2>2. CASE t.child[m][q] = n
    <3>1. v.child[m][q] = e /\ m = p
      BY <2>1, <2>2, <1>2
    <3>2. e \in Names /\ e # n
      BY <3>1, <1>2
    <3> QED BY <3>1, <3>2, <1>3
  <2>3. CASE t.child[m][q] # n
    <3>1. v.child[m][q] = t.child[m][q]
      BY <2>1, <2>3, <1>2
    <3>2. t.child[m][q] \in Names /\ t.up[t.child[m][q]] = m
      BY <3>1, <1>6
    <3>3. t.child[m][q] # e
      BY <3>2, <2>1, <1>1, <1>2
    <3> QED BY <2>3, <3>1, <3>2, <3>3, <1>3
  <2> QED BY <2>2, <2>3
<1>11. LinksDown(v)
  <2> SUFFICES ASSUME NEW m \in Names, v.up[m] # Null
               PROVE  v.child[v.up[m]][Toward(v.up[m], m)] = m
    BY DEF LinksDown
  <2>1. m # n
    BY <1>3
  <2>2. CASE m = e
    <3>1. v.up[m] = p /\ e # Null
      BY <2>1, <2>2, <1>1, <1>3
    <3> QED BY <2>2, <3>1, <1>2
  <2>3. CASE m # e
    <3>1. v.up[m] = t.up[m] /\ t.up[m] # n
      BY <2>1, <2>3, <1>2, <1>3
    <3>2. /\ t.up[m] \in Names /\ Toward(t.up[m], m) \in Sides
          /\ t.child[t.up[m]][Toward(t.up[m], m)] = m
      BY <3>1, ParentFacts
    <3> QED BY <2>1, <3>1, <3>2, <1>2
  <2> QED BY <2>2, <2>3
<1>12. S = b[t.root] /\ t.root \in S /\ t.root \in Names /\ t.up[t.root] = Null
       /\ (p = Null <=> t.root = n)
  <2>1. t.root \in S /\ S = b[t.root]
    BY InTree DEF Shape, Rooted
  <2>2. t.root # Null /\ t.root \in Names
    BY <2>1, <1>1
  <2>3. p = Null => n = t.root
    BY DEF Shape, Rooted, p
  <2> QED BY <2>1, <2>2, <2>3 DEF Shape, Rooted, p
<1>13. Rooted(v, S \ {n}, d)
  <2>1. S \ {n} = d[v.root]
    <3>1. CASE p = Null
      BY <3>1, <1>2, <1>3, <1>4, <1>12
    <3>2. CASE p # Null
      BY <3>2, <1>3, <1>4, <1>12 DEF Nodes
    <3> QED BY <3>1, <3>2
  <2>2. v.root # Null => v.up[v.root] = Null
    <3>1. CASE p = Null
      BY <3>1, <1>2, <1>3
    <3>2. CASE p # Null
      <4>1. t.root # n /\ t.root # e
        BY <3>2, <1>1, <1>2, <1>12
      <4> QED BY <3>2, <4>1, <1>3, <1>12
    <3> QED BY <3>1, <3>2
  <2>3. ASSUME NEW m \in S, m # n
        PROVE  d[m] \subseteq S \ {n} /\ (v.up[m] = Null => m = v.root)
    <3>1. m \in Names /\ m \in Nodes /\ b[m] \subseteq S
      BY InTree DEF Nodes
    <3>2. d[m] \subseteq S \ {n}
      BY <2>3, <3>1, <1>4
    <3>3. t.up[m] = Null => m = t.root
      BY DEF Shape, Rooted
    <3>4. ASSUME v.up[m] = Null PROVE m = v.root
      <4>1. CASE m = e
        BY <2>3, <3>1, <3>4, <4>1, <1>3
      <4>2. CASE m # e
        <5>1. m = t.root
          BY <2>3, <3>1, <3>3, <3>4, <4>2, <1>3
        <5> QED BY <2>3, <5>1, <1>3, <1>12
      <4> QED BY <4>1, <4>2
    <3> QED BY <3>2, <3>4
  <2> QED BY <2>1, <2>2, <2>3 DEF Rooted
<1>14. Dead(v, S \ {n})
  <2> SUFFICES ASSUME NEW m \in Names, m \notin S \ {n}
               PROVE  v.up[m] = Null /\ v.child[m] = Blank
    BY DEF Dead
  <2>1. CASE m = n
    BY <2>1, <1>1, <1>2, <1>3, BlankFacts
  <2>2. CASE m # n
    <3>1. t.up[m] = Null /\ \A q \in Sides : t.child[m][q] = Null
      BY <2>2, DeadBelow
    <3>2. m # e
      BY <2>2, <3>1, <1>1, <1>2
    <3>3. \A q \in Sides : v.child[m][q] = Null
      BY <2>2, <3>1, <1>1, <1>2
    <3> QED BY <2>2, <3>1, <3>2, <3>3, <1>1, <1>3, BlankFacts
  <2> QED BY <2>1, <2>2
<1> QED BY <1>5, <1>8, <1>9, <1>10, <1>11, <1>13, <1>14 DEF Shape, d

(* The subtree e of p has lost a rank; p may have become a leaf.           *)
Shrunk(u, w, p, e) ==
    /\ p = Null => Even(u, w)
    /\ p # Null =>
          /\ p \in Names
          /\ \E s \in Sides : u.child[p][s] = e /\ Balance(u, w, p, s, 1)
          /\ \A m \in Names \ {p} : u.child[m] = Blank => u.red[m] = {}

(* That is so below the parent of n.                                       *)
LEMMA SpliceRanks ==
  ASSUME NEW t, NEW S, NEW b, Shape(t, S, b), NEW r, Even(t, r), NEW n \in S,
         NEW e, Only(t, n, e), NEW v, SplicedOut(v, t, n, e)
  PROVE  \E w : Shrunk(v, w, t.up[n], e)
<1> DEFINE p == t.up[n]
           s == Toward(p, n)
           w == [m \in Nodes |-> IF m = n THEN 0 ELSE r[m]]
<1>1. /\ t \in Trees /\ v \in Trees /\ Null \notin Names /\ Null \in Nodes
      /\ n \in Names
      /\ LeafRule(t) /\ Balance(t, r, Null, "left", 0)
  BY TreeAssumption DEF Shape, ShapeType, SplicedOut, Nodes, Even
<1>2. RankType(r) /\ r[Null] = -1
  BY <1>1 DEF Balance, RankType
<1>3. \A m \in Names, q \in Sides :
          /\ r[m] = r[t.child[m][q]] + Diff(t, m, q) /\ r[t.child[m][q]] \in Int
          /\ r[t.child[m][q]] >= -1 /\ (t.child[m][q] = Null <=> r[t.child[m][q]] = -1)
          /\ t.child[m][q] \in Nodes /\ t.child[m][q] # m
          /\ t.child[m][q] # Null => t.up[t.child[m][q]] = m
  <2> TAKE m \in Names, q \in Sides
  <2>1. m # Null
    BY <1>1
  <2> QED BY <1>1, <2>1, PlainRanks, ChildFacts
<1>4. /\ e \in Nodes /\ e # n /\ (e # Null => t.up[e] = n)
      /\ p # Null => /\ p \in Names /\ s \in Sides
                     /\ v.child[p][s] = e /\ t.child[p][s] = n
      /\ \A q \in Sides : v.child[n][q] = Null
      /\ \A m \in Names \ {n}, q \in Sides :
             /\ t.child[m][q] # n => v.child[m][q] = t.child[m][q]
             /\ t.child[m][q] = n => v.child[m][q] = e /\ m = p /\ q = Toward(m, n)
      /\ p # n
  <2>1. t.up[n] # n
    BY <1>1, ChildFacts DEF Sides
  <2> QED BY <2>1, OnlyFacts
<1>5. \A m \in Names : v.red[m] = IF m = n THEN {} ELSE t.red[m]
  BY DEF SplicedOut
<1>6. r[e] = r[n] - 1
  <2>1. PICK q \in Sides : t.child[n][q] = e /\ t.child[n][Other(q)] = Null
    BY DEF Only
  <2>2. Other(q) \in Sides /\ \A i \in Sides : i = q \/ i = Other(q)
    BY SideFacts
  <2>3. /\ r[n] = r[e] + Diff(t, n, q) /\ r[e] \in Int /\ r[e] >= -1
        /\ e = Null <=> r[e] = -1
    BY <2>1, <1>1, <1>3
  <2>4. r[n] = -1 + Diff(t, n, Other(q))
    BY <2>1, <2>2, <1>1, <1>2, <1>3
  <2>5. Diff(t, n, q) \in {1, 2} /\ Diff(t, n, Other(q)) \in {1, 2}
    BY DEF Diff
  <2>6. CASE e = Null
    <3>1. t.red[n] = {}
      BY <2>1, <2>2, <2>6, <1>1, BlankFacts DEF LeafRule
    <3>2. Diff(t, n, q) = 1
      BY <3>1 DEF Diff
    <3> QED BY <2>3, <3>2
  <2>7. CASE e # Null
    BY <2>3, <2>4, <2>5, <2>7
  <2> QED BY <2>6, <2>7
<1>7. /\ w[n] = 0 /\ w[Null] = -1 /\ RankType(w)
      /\ \A m \in Nodes : m # n => w[m] = r[m]
  BY <1>1, <1>2 DEF RankType, Nodes
<1> HIDE DEF w
<1>8. ASSUME NEW m \in Names, NEW q \in Sides
      PROVE  w[m] = w[v.child[m][q]] + Diff(v, m, q) + Gap(m, q, p, s, 1)
  <2>1. Gap(m, q, p, s, 1) = IF m = p /\ q = s THEN 1 ELSE 0
    BY DEF Gap
  <2>2. CASE m = n
    <3>1. Diff(v, m, q) = 1 /\ v.child[m][q] = Null /\ m # p
      BY <2>2, <1>4, <1>5 DEF Diff
    <3> QED BY <2>1, <2>2, <3>1, <1>7
  <2>3. CASE m # n
    <3>1. Diff(v, m, q) = Diff(t, m, q) /\ Diff(t, m, q) \in {1, 2}
      BY <2>3, <1>5 DEF Diff
    <3>2. /\ w[m] = r[m] /\ r[m] = r[t.child[m][q]] + Diff(t, m, q)
          /\ r[t.child[m][q]] \in Int
      BY <2>3, <1>3, <1>7 DEF Nodes
    <3>3. CASE t.child[m][q] = n
      <4>1. v.child[m][q] = e /\ m = p /\ q = s
        BY <2>3, <3>3, <1>4
      <4>2. w[e] = r[n] - 1 /\ r[n] \in Int
        BY <3>2, <3>3, <1>4, <1>6, <1>7
      <4> QED BY <4>1, <4>2, <2>1, <3>1, <3>2, <3>3
    <3>4. CASE t.child[m][q] # n
      <4>1. v.child[m][q] = t.child[m][q] /\ ~(m = p /\ q = s)
        BY <2>3, <3>4, <1>1, <1>4
      <4>2. w[t.child[m][q]] = r[t.child[m][q]]
        BY <3>4, <1>3, <1>7
      <4> QED BY <4>1, <4>2, <2>1, <3>1, <3>2
    <3> QED BY <3>3, <3>4
  <2> QED BY <2>2, <2>3
<1>9. Balance(v, w, p, s, 1)
  BY <1>7, <1>8 DEF Balance
<1>10. ASSUME NEW m \in Names, m # p, v.child[m] = Blank
       PROVE  v.red[m] = {}
  <2>1. CASE m = n
    BY <2>1, <1>5
  <2>2. CASE m # n
    <3>1. \A q \in Sides : t.child[m][q] # n
      BY <2>2, <1>4, <1>10
    <3>2. \A q \in Sides : t.child[m][q] = Null
      BY <2>2, <3>1, <1>4, <1>10, BlankSides
    <3> QED BY <2>2, <3>2, <1>1, <1>5, BlankFacts DEF LeafRule
  <2> QED BY <2>1, <2>2
<1>11. CASE p = Null
  <2>1. LeafRule(v)
    BY <1>1, <1>10, <1>11 DEF LeafRule
  <2>2. Even(v, w)
    BY <2>1, <1>9, <1>11, NoGap DEF Even
  <2> QED BY <2>2, <1>11 DEF Shrunk
<1>12. CASE p # Null
  <2>1. p \in Names /\ s \in Sides /\ v.child[p][s] = e
    BY <1>4, <1>12
  <2> HIDE DEF p, s
  <2>2. Shrunk(v, w, p, e)
    BY <2>1, <1>9, <1>10, <1>12 DEF Shrunk
  <2> QED BY <2>2 DEF p
<1> QED BY <1>11, <1>12

(* The beginning of RB_REMOVE_COLOR: a parent that has become a leaf is    *)
(* lowered first.                                                          *)
LEMMA LowerLeafOutcome ==
  ASSUME NEW u, NEW S, NEW b, Shape(u, S, b), NEW w, NEW p, NEW e, Shrunk(u, w, p, e)
  PROVE  Outcome(LowerLeaf(u, p, e), S)
<1> DEFINE out == LowerLeaf(u, p, e)
           v == Paint(u, p, {})
<1>1. u \in Trees /\ Null \notin Names
  BY TreeAssumption DEF Shape, ShapeType
<1>2. CASE p = Null
  <2>1. out = Done(u)
    BY <1>2, Zenon DEF LowerLeaf, Done, LostAt
  <2>2. Even(u, w)
    BY <1>2 DEF Shrunk
  <2> HIDE DEF out
  <2> QED BY <2>1, <2>2, DoneOutcome DEF out
<1>3. CASE p # Null
  <2>1. /\ p \in Names
        /\ \A m \in Names \ {p} : u.child[m] = Blank => u.red[m] = {}
    BY <1>3 DEF Shrunk
  <2>2. PICK s \in Sides : u.child[p][s] = e /\ Balance(u, w, p, s, 1)
    BY <1>3 DEF Shrunk
  <2>3. Other(s) \in Sides /\ Other(s) # s /\ \A q \in Sides : q = s \/ q = Other(s)
    BY SideFacts
  <2>4. u.child[p] = [q \in Sides |-> e] <=> u.child[p][Other(s)] = e
    <3>1. u.child[p] = [q \in Sides |-> u.child[p][q]]
      BY <1>1, <2>1, FieldTypes
    <3>2. u.child[p][Other(s)] = e => \A q \in Sides : u.child[p][q] = e
      BY <2>2, <2>3
    <3> QED BY <3>1, <3>2, <2>3
  <2>5. e \in Nodes /\ (e # Null => u.child[p][Other(s)] # e)
    <3>1. e # Null => Toward(p, e) = s
      BY <2>1, <2>2, ChildFacts
    <3>2. e # Null /\ u.child[p][Other(s)] = e => Toward(p, e) = Other(s)
      BY <2>1, <2>3, ChildFacts
    <3> QED BY <2>1, <2>2, <2>3, <3>1, <3>2, ChildFacts
  <2>6. CASE u.child[p][Other(s)] = e
    <3>1. e = Null /\ out = LostAt(v, u.up[p], p)
      <4>1. u.child[p] = [q \in Sides |-> e]
        BY <2>4, <2>6
      <4> QED BY <2>5, <2>6, <1>3, <4>1, Zenon DEF LowerLeaf
    <3>2. RedSet(v, u, p, {})
      BY <1>1, <2>1, PaintFields
    <3>3. SameLinks(v, u) /\ RedKept(v, u, {p}) /\ v.red[p] = {} /\ v.up = u.up
      BY <3>2, <1>1, <2>1 DEF RedSet, SameLinks, RedKept
    <3>4. /\ w[p] = w[u.child[p][s]] + Diff(u, p, s) + 1
          /\ w[p] = w[u.child[p][Other(s)]] + Diff(u, p, Other(s))
          /\ w[Null] = -1
      BY <2>1, <2>2, GapRanks
    <3>5. u.child[p][s] = Null /\ u.child[p][Other(s)] = Null
      BY <2>2, <2>6, <3>1
    <3>6. w[p] = 1
      BY <3>4, <3>5 DEF Diff
    <3> HIDE DEF v, out
    <3>7. OneFits(v, u, w, p, 0)
      <4>1. \A q \in Sides : Diff(v, p, q) = 1 /\ w[u.child[p][q]] = -1
        BY <3>3, <3>4, <3>5, <2>3 DEF Diff
      <4> QED BY <4>1, <3>3, <2>1 DEF OneFits
    <3>8. LeafRule(v) /\ \E x : Balance(v, x, u.up[p], Toward(u.up[p], p), w[p] - 0)
      BY <3>3, <3>7, <2>1, <2>2, RepaintOne
    <3>9. \E x : Balance(v, x, v.up[p], Toward(v.up[p], p), 1)
      BY <3>3, <3>6, <3>8
    <3>10. Shape(v, S, b)
      BY <3>3, SameLinksShape
    <3>11. Outcome(LostAt(v, v.up[p], p), S)
      BY <2>1, <3>8, <3>9, <3>10, LostOutcome
    <3> QED BY <3>1, <3>3, <3>11 DEF out
  <2>7. CASE u.child[p][Other(s)] # e
    <3>1. out = LostAt(u, p, e)
      BY <2>4, <2>7, Zenon DEF LowerLeaf
    <3>2. u.child[p] # Blank
      <4>1. ~(u.child[p][s] = Null /\ u.child[p][Other(s)] = Null)
        BY <2>2, <2>7
      <4> QED BY <4>1, <2>3, BlankSides
    <3>3. LeafRule(u)
      BY <2>1, <3>2 DEF LeafRule
    <3>4. SideOf(u, p, e) = s
      BY <2>2, <2>3, <2>7 DEF SideOf, Sides, Other
    <3>5. LoweringAt(u, w, p, s)
      BY <2>1, <2>2, <3>2, <3>3 DEF LoweringAt
    <3>6. Lowering(u, w, p, e)
      BY <2>2, <3>4, <3>5 DEF Lowering
    <3>7. out.tree = u /\ out.parent = p /\ out.elm = e
      BY <3>1, <1>3 DEF LostAt
    <3> HIDE DEF out
    <3> QED BY <3>6, <3>7, <1>3 DEF Outcome, out
  <2> QED BY <2>6, <2>7
<1> QED BY <1>2, <1>3

-----------------------------------------------------------------------------

(* The nodes n and h, taken for each other.                                *)
Turn(n, h, x) == IF x = n THEN h ELSE IF x = h THEN n ELSE x

(* A node h that is in no tree has taken the place of n.                   *)
Substituted(u, v, n, h) ==
    /\ u \in Trees /\ u.root = Turn(n, h, v.root)
    /\ \A m \in Names : u.up[m] = Turn(n, h, v.up[Turn(n, h, m)])
    /\ \A m \in Names, q \in Sides :
           u.child[m][q] = Turn(n, h, v.child[Turn(n, h, m)][q])
    /\ \A m \in Names : u.red[m] = v.red[Turn(n, h, m)]

(* It comes to lie where n was in the order of names.                      *)
SamePlace(v, b, n, h) ==
    /\ \A m \in Names, q \in Sides : n \in b[v.child[m][q]] => Precedes(q, h, m)
    /\ \A q \in Sides : \A x \in b[v.child[n][q]] : Precedes(q, x, h)

(* Turn is a bijection.                                                    *)
LEMMA TurnFacts ==
  ASSUME NEW n \in Names, NEW h \in Names, n # h
  PROVE  /\ \A x : Turn(n, h, Turn(n, h, x)) = x
         /\ \A x : (Turn(n, h, x) \in Names <=> x \in Names)
         /\ \A x \in Nodes : Turn(n, h, x) \in Nodes
         /\ \A x : Turn(n, h, x) = Null <=> x = Null
         /\ Turn(n, h, n) = h /\ Turn(n, h, h) = n
         /\ \A x : x \notin {n, h} => Turn(n, h, x) = x
         /\ \A x, y : Turn(n, h, x) = Turn(n, h, y) => x = y
BY TreeAssumption DEF Turn, Nodes

(* The tree keeps its shape.                                               *)
LEMMA SubstituteShape ==
  ASSUME NEW v, NEW S, NEW b, Shape(v, S, b), NEW n \in S, NEW h \in Names \ S,
         NEW u, Substituted(u, v, n, h), SamePlace(v, b, n, h)
  PROVE  \E d : Shape(u, (S \ {n}) \cup {h}, d)
<1> DEFINE T(x) == Turn(n, h, x)
           d == [m \in Nodes |-> {x \in Names : T(x) \in b[T(m)]}]
           R == (S \ {n}) \cup {h}
<1>1. /\ v \in Trees /\ u \in Trees /\ S \subseteq Names /\ IsFiniteSet(S)
      /\ b \in [Nodes -> SUBSET Names] /\ b[Null] = {} /\ Null \notin Names
      /\ Null \in Nodes /\ n \in Names /\ h \in Names /\ h # n
  BY TreeAssumption DEF Shape, ShapeType, Substituted, Nodes
<1>2. /\ \A x : T(T(x)) = x
      /\ \A x : (T(x) \in Names <=> x \in Names)
      /\ \A x \in Nodes : T(x) \in Nodes
      /\ \A x : T(x) = Null <=> x = Null
      /\ T(n) = h /\ T(h) = n /\ \A x : x \notin {n, h} => T(x) = x
      /\ \A x, y : T(x) = T(y) => x = y
  BY <1>1, TurnFacts
<1>3. /\ u.root = T(v.root)
      /\ \A m \in Names : u.up[m] = T(v.up[T(m)])
      /\ \A m \in Names, q \in Sides : u.child[m][q] = T(v.child[T(m)][q])
  BY DEF Substituted
<1> HIDE DEF T
<1>4. /\ d \in [Nodes -> SUBSET Names]
      /\ \A m \in Nodes : d[m] = {x \in Names : T(x) \in b[T(m)]}
  OBVIOUS
<1>5. \A m \in Nodes, x \in Names : x \in d[m] <=> T(x) \in b[T(m)]
  BY <1>4
<1>6. d[Null] = {}
  <2>1. T(Null) = Null
    BY <1>2
  <2> QED BY <2>1, <1>1, <1>4
<1> HIDE DEF d
<1>7. \A m \in Names, q \in Sides :
          /\ v.child[m][q] \in Nodes /\ v.up[m] \in Nodes /\ m \in b[m]
          /\ v.child[m][q] # Null =>
                v.child[m][q] \in Names /\ v.up[v.child[m][q]] = m
  BY ChildFacts
<1>8. \A m \in Names, q \in Sides, x \in Names :
          x \in d[u.child[m][q]] <=> T(x) \in b[v.child[T(m)][q]]
  <2> TAKE m \in Names, q \in Sides, x \in Names
  <2>1. T(m) \in Names
    BY <1>2
  <2>2. u.child[m][q] = T(v.child[T(m)][q]) /\ v.child[T(m)][q] \in Nodes
    BY <2>1, <1>3, <1>7
  <2>3. u.child[m][q] \in Nodes /\ T(u.child[m][q]) = v.child[T(m)][q]
    BY <2>2, <1>2
  <2> QED BY <2>3, <1>5
<1>9. ShapeType(u, R, d)
  <2>1. IsFiniteSet(S \ {n})
    BY <1>1, FS_RemoveElement
  <2>2. IsFiniteSet(R)
    BY <2>1, FS_AddElement
  <2> QED BY <2>2, <1>1, <1>4, <1>6 DEF ShapeType
<1>10. Unfolds(u, d)
  <2> SUFFICES ASSUME NEW m \in Names, NEW x \in Names
               PROVE  x \in d[m] <=> x = m \/ x \in d[u.child[m]["left"]]
                                     \/ x \in d[u.child[m]["right"]]
    <3>1. \A m \in Nodes : d[m] \subseteq Names
      BY <1>4
    <3>2. \A m \in Names : m \in Nodes /\ u.child[m]["left"] \in Nodes
                           /\ u.child[m]["right"] \in Nodes
      BY <1>1, FieldTypes DEF Nodes, Sides
    <3> QED BY <3>1, <3>2 DEF Unfolds
  <2>1. T(m) \in Names /\ m \in Nodes
    BY <1>2 DEF Nodes
  <2>2. b[T(m)] = {T(m)} \cup b[v.child[T(m)]["left"]] \cup b[v.child[T(m)]["right"]]
    BY <2>1 DEF Shape, Unfolds
  <2>3. x \in d[m] <=> T(x) \in b[T(m)]
    BY <2>1, <1>5
  <2>4. T(x) = T(m) <=> x = m
    BY <1>2
  <2>5. /\ x \in d[u.child[m]["left"]] <=> T(x) \in b[v.child[T(m)]["left"]]
        /\ x \in d[u.child[m]["right"]] <=> T(x) \in b[v.child[T(m)]["right"]]
    BY <1>8 DEF Sides
  <2> QED BY <2>2, <2>3, <2>4, <2>5
<1>11. Ordered(u, d)
  <2> SUFFICES ASSUME NEW m \in Names, NEW q \in Sides, NEW x \in d[u.child[m][q]]
               PROVE  Precedes(q, x, m)
    BY DEF Ordered
  <2>1. x \in Names /\ u.child[m][q] \in Nodes /\ T(m) \in Names /\ T(x) \in Names
    <3>1. u.child[m][q] \in Nodes
      BY <1>1, FieldTypes
    <3> QED BY <3>1, <1>2, <1>4
  <2>2. T(x) \in b[v.child[T(m)][q]]
    BY <2>1, <1>8
  <2>3. T(x) # h /\ T(m) # h
    <3>1. b[h] = {h} /\ \A i \in Sides : v.child[h][i] = Null
      BY DeadBelow
    <3>2. T(m) # h
      BY <2>2, <3>1, <1>1
    <3>3. ASSUME T(x) = h PROVE FALSE
      <4>1. h \in b[T(m)] /\ h # T(m)
        BY <2>1, <2>2, <3>3, Halves
      <4>2. T(m) \in S
        BY <2>1, <4>1, DeadBelow
      <4>3. b[T(m)] \subseteq S
        BY <4>2, InTree
      <4> QED BY <4>1, <4>3
    <3> QED BY <3>2, <3>3
  <2>4. CASE m = h
    <3>1. T(m) = n
      BY <2>4, <1>2
    <3>2. T(x) # n
      BY <2>1, <2>2, <3>1, Halves
    <3>3. T(x) = x
      BY <2>3, <3>2, <1>2
    <3> QED BY <2>2, <2>4, <3>1, <3>3 DEF SamePlace
  <2>5. CASE m # h
    <3>1. m # n
      BY <2>3, <1>2
    <3>2. T(m) = m
      BY <2>5, <3>1, <1>2
    <3>3. CASE x = h
      <4>1. T(x) = n
        BY <3>3, <1>2
      <4> QED BY <2>2, <3>2, <3>3, <4>1 DEF SamePlace
    <3>4. CASE x # h
      <4>1. x # n
        BY <2>3, <1>2
      <4>2. T(x) = x
        BY <3>4, <4>1, <1>2
      <4> QED BY <2>2, <3>2, <4>2 DEF Shape, Ordered
    <3> QED BY <3>3, <3>4
  <2> QED BY <2>4, <2>5
<1>12. LinksBack(u)
  <2> SUFFICES ASSUME NEW m \in Names, NEW q \in Sides, u.child[m][q] # Null
               PROVE  u.up[u.child[m][q]] = m
    BY DEF LinksBack
  <2>1. T(m) \in Names
    BY <1>2
  <2>2. u.child[m][q] = T(v.child[T(m)][q])
    BY <1>3
  <2>3. v.child[T(m)][q] # Null
    BY <2>2, <1>2
  <2>4. v.child[T(m)][q] \in Names /\ v.up[v.child[T(m)][q]] = T(m)
    BY <2>1, <2>3, <1>7
  <2>5. u.child[m][q] \in Names /\ T(u.child[m][q]) = v.child[T(m)][q]
    BY <2>2, <2>4, <1>2
  <2>6. u.up[u.child[m][q]] = T(T(m))
    BY <2>4, <2>5, <1>3
  <2> QED BY <2>6, <1>2
<1>13. LinksDown(u)
  <2> SUFFICES ASSUME NEW m \in Names, u.up[m] # Null
               PROVE  u.child[u.up[m]][Toward(u.up[m], m)] = m
    BY DEF LinksDown
  <2> DEFINE a == v.up[T(m)]
             q == Toward(a, T(m))
  <2>1. T(m) \in Names /\ u.up[m] = T(a)
    BY <1>2, <1>3
  <2>2. a # Null
    BY <2>1, <1>2
  <2>3. a \in Names /\ q \in Sides /\ v.child[a][q] = T(m)
    BY <2>1, <2>2, ParentFacts
  <2> HIDE DEF a, q
  <2>4. T(a) \in Names /\ T(T(a)) = a
    BY <2>3, <1>2
  <2>5. u.child[T(a)][q] = T(v.child[a][q])
    BY <2>3, <2>4, <1>3
  <2>6. u.child[T(a)][q] = m
    BY <2>3, <2>5, <1>2
  <2>7. m \in d[u.child[T(a)][q]]
    BY <2>1, <2>3, <2>4, <1>7, <1>8
  <2>8. Precedes(q, m, T(a))
    BY <2>3, <2>4, <2>7, <1>11 DEF Ordered
  <2>9. Toward(T(a), m) = q
    BY <2>3, <2>4, <2>8, OrderFacts
  <2> QED BY <2>1, <2>6, <2>9
<1>14. v.up[h] = Null /\ \A q \in Sides : v.child[h][q] = Null
  BY DeadBelow
<1>15. \A x \in Names : x \in R <=> T(x) \in S
  BY <1>1, <1>2
<1>16. S = b[v.root] /\ v.root \in Names /\ v.up[v.root] = Null
  <2>1. v.root \in S
    BY InTree
  <2> QED BY <2>1, <1>1 DEF Shape, Rooted
<1>17. Rooted(u, R, d)
  <2>1. R = d[u.root]
    <3>1. u.root \in Nodes /\ T(u.root) = v.root
      BY <1>2, <1>3, <1>16 DEF Nodes
    <3>2. \A x \in Names : x \in d[u.root] <=> T(x) \in S
      BY <3>1, <1>5, <1>16
    <3> QED BY <3>1, <3>2, <1>1, <1>4, <1>15
  <2>2. u.up[u.root] = Null
    <3>1. u.root \in Names /\ T(u.root) = v.root
      BY <1>2, <1>3, <1>16
    <3>2. u.up[u.root] = T(v.up[v.root])
      BY <3>1, <1>3
    <3> QED BY <3>2, <1>2, <1>16
  <2>3. ASSUME NEW m \in R
        PROVE  d[m] \subseteq R /\ (u.up[m] = Null => m = u.root)
    <3>1. m \in Names /\ T(m) \in S /\ m \in Nodes
      BY <1>1, <1>15 DEF Nodes
    <3>2. b[T(m)] \subseteq S /\ (v.up[T(m)] = Null => T(m) = v.root)
      BY <3>1 DEF Shape, Rooted
    <3>3. d[m] \subseteq R
      BY <3>1, <3>2, <1>4, <1>15
    <3>4. ASSUME u.up[m] = Null PROVE m = u.root
      <4>1. v.up[T(m)] = Null
        BY <3>1, <3>4, <1>2, <1>3
      <4>2. T(m) = v.root
        BY <3>2, <4>1
      <4> QED BY <4>2, <1>2, <1>3
    <3> QED BY <3>3, <3>4
  <2> QED BY <2>1, <2>2, <2>3 DEF Rooted
<1>18. Dead(u, R)
  <2> SUFFICES ASSUME NEW m \in Names, m \notin R
               PROVE  u.up[m] = Null /\ u.child[m] = Blank
    BY DEF Dead
  <2>1. T(m) \in Names \ S
    BY <1>2, <1>15
  <2>2. v.up[T(m)] = Null /\ \A q \in Sides : v.child[T(m)][q] = Null
    BY <2>1, DeadBelow
  <2>3. u.up[m] = Null /\ \A q \in Sides : u.child[m][q] = Null
    BY <2>2, <1>2, <1>3
  <2> QED BY <2>3, <1>1, BlankFacts
<1>19. Shape(u, R, d)
  BY <1>9, <1>10, <1>11, <1>12, <1>13, <1>17, <1>18 DEF Shape
<1> QED BY <1>19

(* And its ranks.                                                          *)
LEMMA SubstituteRanks ==
  ASSUME NEW v, NEW S, NEW b, Shape(v, S, b), NEW n \in S, NEW h \in Names \ S,
         NEW u, Substituted(u, v, n, h), NEW w, NEW p, NEW e, Shrunk(v, w, p, e)
  PROVE  \E x : Shrunk(u, x, Turn(n, h, p), Turn(n, h, e))
<1> DEFINE T(y) == Turn(n, h, y)
           x == [m \in Nodes |-> w[T(m)]]
<1>1. /\ v \in Trees /\ u \in Trees /\ Null \notin Names
      /\ Null \in Nodes /\ n \in Names /\ h \in Names /\ h # n
  BY TreeAssumption DEF Shape, ShapeType, Substituted, Nodes
<1>2. /\ \A y : T(T(y)) = y
      /\ \A y : (T(y) \in Names <=> y \in Names)
      /\ \A y \in Nodes : T(y) \in Nodes
      /\ \A y : T(y) = Null <=> y = Null
      /\ \A y, z : T(y) = T(z) => y = z
  BY <1>1, TurnFacts
<1>3. /\ \A m \in Names, q \in Sides : u.child[m][q] = T(v.child[T(m)][q])
      /\ \A m \in Names : u.red[m] = v.red[T(m)]
  BY DEF Substituted
<1> HIDE DEF T
<1>4. \A m \in Nodes : x[m] = w[T(m)]
  OBVIOUS
<1>5. ASSUME RankType(w) PROVE RankType(x)
  <2>1. w \in [Nodes -> Int] /\ w[Null] = -1 /\ \A m \in Names : w[m] >= 0
    BY <1>5 DEF RankType
  <2>2. x \in [Nodes -> Int]
    BY <2>1, <1>2
  <2>3. x[Null] = -1
    BY <2>1, <1>1, <1>2, <1>4
  <2>4. \A m \in Names : x[m] >= 0
    BY <2>1, <1>2, <1>4 DEF Nodes
  <2> QED BY <2>2, <2>3, <2>4 DEF RankType
<1> HIDE DEF x
<1>6. ASSUME NEW g, NEW s, NEW k, Balance(v, w, g, s, k)
      PROVE  Balance(u, x, T(g), s, k)
  <2>1. ASSUME NEW m \in Names, NEW q \in Sides
        PROVE  x[m] = x[u.child[m][q]] + Diff(u, m, q) + Gap(m, q, T(g), s, k)
    <3>1. T(m) \in Names /\ T(m) \in Nodes /\ m \in Nodes
      BY <1>2 DEF Nodes
    <3>2. v.child[T(m)][q] \in Nodes /\ u.child[m][q] = T(v.child[T(m)][q])
      BY <3>1, <1>1, <1>3, FieldTypes
    <3>3. u.child[m][q] \in Nodes /\ T(u.child[m][q]) = v.child[T(m)][q]
      BY <3>2, <1>2
    <3>4. x[m] = w[T(m)] /\ x[u.child[m][q]] = w[v.child[T(m)][q]]
      BY <3>1, <3>3, <1>4
    <3>5. Diff(u, m, q) = Diff(v, T(m), q)
      BY <1>3 DEF Diff
    <3>6. Gap(m, q, T(g), s, k) = Gap(T(m), q, g, s, k)
      <4>1. m = T(g) <=> T(m) = g
        BY <1>2
      <4> QED BY <4>1 DEF Gap
    <3>7. w[T(m)] = w[v.child[T(m)][q]] + Diff(v, T(m), q) + Gap(T(m), q, g, s, k)
      BY <1>6, <3>1, Zenon DEF Balance
    <3> QED BY <3>4, <3>5, <3>6, <3>7
  <2>2. RankType(x)
    BY <1>5, <1>6 DEF Balance
  <2> QED BY <2>1, <2>2, Zenon DEF Balance
<1>7. ASSUME NEW m \in Names, u.child[m] = Blank
      PROVE  v.child[T(m)] = Blank /\ T(m) \in Names /\ u.red[m] = v.red[T(m)]
  <2>1. T(m) \in Names
    BY <1>2
  <2>2. \A q \in Sides : u.child[m][q] = Null
    BY <1>7, BlankSides
  <2>3. \A q \in Sides : v.child[T(m)][q] = Null
    BY <2>2, <1>2, <1>3
  <2> QED BY <2>1, <2>3, <1>1, <1>3, BlankFacts
<1>8. CASE p = Null
  <2>1. Even(v, w) /\ T(p) = Null
    BY <1>2, <1>8 DEF Shrunk
  <2>2. T(Null) = Null
    BY <1>2
  <2>3. Balance(u, x, Null, "left", 0)
    <3>1. Balance(v, w, Null, "left", 0)
      BY <2>1 DEF Even
    <3>2. Balance(u, x, T(Null), "left", 0)
      BY <3>1, <1>6
    <3> QED BY <3>2, <2>2
  <2>4. LeafRule(u)
    BY <2>1, <1>7 DEF Even, LeafRule
  <2>5. Shrunk(u, x, T(p), T(e))
    BY <2>1, <2>3, <2>4 DEF Shrunk, Even
  <2> QED BY <2>5 DEF T
<1>9. CASE p # Null
  <2>1. /\ p \in Names
        /\ \A m \in Names \ {p} : v.child[m] = Blank => v.red[m] = {}
    BY <1>9 DEF Shrunk
  <2>2. PICK s \in Sides : v.child[p][s] = e /\ Balance(v, w, p, s, 1)
    BY <1>9 DEF Shrunk
  <2>3. T(p) \in Names /\ T(p) # Null /\ u.child[T(p)][s] = T(e)
    BY <2>1, <2>2, <1>1, <1>2, <1>3
  <2>4. Balance(u, x, T(p), s, 1)
    BY <2>2, <1>6
  <2>5. \A m \in Names \ {T(p)} : u.child[m] = Blank => u.red[m] = {}
    <3> SUFFICES ASSUME NEW m \in Names, m # T(p), u.child[m] = Blank
                 PROVE  u.red[m] = {}
      OBVIOUS
    <3>1. v.child[T(m)] = Blank /\ T(m) \in Names /\ u.red[m] = v.red[T(m)] /\ T(m) # p
      BY <1>2, <1>7
    <3> QED BY <3>1, <2>1
  <2>6. Shrunk(u, x, T(p), T(e))
    BY <2>3, <2>4, <2>5 DEF Shrunk
  <2> QED BY <2>6 DEF T
<1> QED BY <1>8, <1>9
-----------------------------------------------------------------------------

(* RB_REMOVE of a node with one child at most.                             *)
LEMMA OneChild ==
  ASSUME NEW t, NEW S, NEW b, Shape(t, S, b), NEW r, Even(t, r), NEW n \in S,
         NEW e, Only(t, n, e)
  PROVE  Outcome(LowerLeaf(Splice(t, n, e), t.up[n], e), S \ {n})
<1>1. t \in Trees /\ n \in Names
  BY DEF Shape, ShapeType
<1>2. e \in Nodes
  BY <1>1, FieldTypes DEF Only
<1> DEFINE v == Splice(t, n, e)
<1>3. SplicedOut(v, t, n, e)
  BY <1>1, <1>2, SpliceFields
<1> HIDE DEF v
<1>4. Shape(v, S \ {n}, Without(b, n))
  BY <1>3, SpliceShape
<1>5. \E w : Shrunk(v, w, t.up[n], e)
  BY <1>3, SpliceRanks
<1>6. Outcome(LowerLeaf(v, t.up[n], e), S \ {n})
  BY <1>4, <1>5, LowerLeafOutcome
<1> QED BY <1>6 DEF v

(* n, its children l and r, its successor, and what hangs on that.         *)
Family(t, b, n, l, r, heir, orphan, top, low) ==
    /\ n \in Names /\ l \in Names /\ r \in Names /\ heir \in Names /\ orphan \in Nodes
    /\ t.child[n]["left"] = l /\ t.child[n]["right"] = r
    /\ t.child[heir]["left"] = Null /\ t.child[heir]["right"] = orphan
    /\ t.up[n] = top /\ t.up[heir] = low /\ low \in Names /\ top \in Nodes
    /\ t.up[l] = n /\ t.up[r] = n
    /\ orphan # Null => t.up[orphan] = heir /\ orphan \notin {n, l, r, heir, top, low}
    /\ heir \in b[r] /\ heir \in b[n] /\ low \in b[n] /\ top \notin b[n]
    /\ \A x \in b[r] : heir <= x
    /\ l # r /\ n \notin {l, r, heir, top} /\ heir # l /\ heir # low
    /\ low = n <=> heir = r
    /\ low # n => Toward(low, heir) = "left"
    /\ low = n => Toward(low, heir) = "right"

(* The successor of n is the least node on the right of it. It has no left *)
(* child, and its right child lies between it and its parent.              *)
LEMMA FamilyFacts ==
  ASSUME NEW t, NEW S, NEW b, Shape(t, S, b), NEW n \in S,
         t.child[n]["left"] # Null, t.child[n]["right"] # Null
  PROVE  LET heir == Leftmost(t, t.child[n]["right"])
         IN /\ heir \in S /\ Only(t, heir, t.child[heir]["right"])
            /\ Family(t, b, n, t.child[n]["left"], t.child[n]["right"], heir,
                      t.child[heir]["right"], t.up[n], t.up[heir])
<1> DEFINE l == t.child[n]["left"]
           r == t.child[n]["right"]
           heir == Leftmost(t, r)
           orphan == t.child[heir]["right"]
           top == t.up[n]
           low == t.up[heir]
<1>0. "left" \in Sides /\ "right" \in Sides /\ Null \notin Names /\ b[Null] = {}
      /\ S \subseteq Nat /\ S \subseteq Names
  BY TreeAssumption DEF Sides, Shape, ShapeType
<1>1. /\ n \in Names /\ n \in b[n] /\ n \notin b[l] /\ n \notin b[r]
      /\ b[l] \subseteq b[n] /\ b[r] \subseteq b[n] /\ b[n] \subseteq S
      /\ l \in Names /\ t.up[l] = n /\ l \in b[n] /\ Toward(n, l) = "left"
      /\ r \in Names /\ t.up[r] = n /\ r \in b[n] /\ Toward(n, r) = "right"
      /\ top \in Nodes /\ top # n
  BY <1>0, ChildFacts, InTree
<1>2. heir \in b[r] /\ \A x \in b[r] : heir <= x
  BY <1>1, LeftmostIs DEF Minimum
<1> HIDE DEF heir
<1>3. heir \in S /\ heir \in Names /\ heir # n /\ Toward(n, heir) = "right" /\ heir # l
      /\ b[heir] \subseteq b[r] /\ heir \in b[heir]
  <2>1. heir \in S /\ heir \in Names
    BY <1>0, <1>1, <1>2
  <2>2. Toward(n, heir) = "right"
    BY <1>0, <1>1, <1>2, Halves
  <2>3. heir \in b[heir]
    BY <2>1, <1>0, ChildFacts
  <2>4. b[heir] \subseteq b[r]
    BY <2>1, <1>1, <1>2, Nested
  <2> QED BY <2>1, <2>2, <2>3, <2>4, <1>1, <1>2
<1>4. t.child[heir]["left"] = Null
  <2> SUFFICES ASSUME t.child[heir]["left"] # Null PROVE FALSE
    OBVIOUS
  <2> DEFINE c == t.child[heir]["left"]
  <2>1. c \in Names /\ c \in b[heir]
    BY <1>0, <1>3, ChildFacts
  <2>5. c \in b[c]
    BY <2>1, <1>0, ChildFacts
  <2>2. Precedes("left", c, heir)
    BY <2>5, <1>0, <1>3, Halves
  <2>3. heir <= c
    BY <2>1, <1>2, <1>3
  <2>4. heir \in Nat /\ c \in Nat
    BY <2>1, <1>3, TreeAssumption
  <2> HIDE DEF c
  <2> QED BY <2>2, <2>3, <2>4 DEF Precedes
<1>5. Only(t, heir, orphan)
  BY <1>0, <1>4 DEF Only, Other
<1>6. /\ orphan \in Nodes /\ orphan # heir
      /\ orphan # Null => orphan \in Names /\ t.up[orphan] = heir /\ orphan \in b[heir]
                          /\ Toward(heir, orphan) = "right"
  BY <1>0, <1>3, ChildFacts
<1>7. /\ low \in Names /\ Toward(low, heir) \in Sides /\ heir \in b[low] /\ low # heir
      /\ t.child[low][Toward(low, heir)] = heir
  <2>1. low # Null
    <3> SUFFICES ASSUME low = Null PROVE FALSE
      OBVIOUS
    <3>1. b[heir] = S
      BY <1>3, InTree
    <3> QED BY <3>1, <1>1, <1>3
  <2> QED BY <2>1, <1>0, <1>3, ParentFacts, InTree, ChildFacts
<1>8. low \in b[n] /\ (low = n => heir = r) /\ (heir = r => low = n)
      /\ (low # n => low \in b[r])
  <2>1. heir = r => low = n
    BY <1>1
  <2>2. low = n => heir = r
    BY <1>3, <1>7
  <2>3. ASSUME heir # r PROVE low \in b[r]
    <3>1. heir \in b[t.child[r][Toward(r, heir)]] /\ Toward(r, heir) \in Sides
      BY <2>3, <1>1, <1>2, Halves DEF Toward, Sides
    <3>2. low \notin b[heir]
      BY <1>3, <1>7, Nested
    <3> DEFINE X == {x \in Names : heir \in b[x] /\ x # heir /\ low \notin b[x]}
    <3>3. X = {}
      <4> SUFFICES ASSUME X # {} PROVE FALSE
        OBVIOUS
      <4>1. PICK x \in X : \A q \in Sides : t.child[x][q] \notin X
        BY BottomUp
      <4>2. heir \in b[t.child[x][Toward(x, heir)]] /\ Toward(x, heir) \in Sides
        BY <4>1, Halves DEF Toward, Sides
      <4> DEFINE c == t.child[x][Toward(x, heir)]
      <4>3. c \in Names /\ b[c] \subseteq b[x]
        BY <4>1, <4>2, Halves, ChildFacts
      <4>4. c # heir
        <5> SUFFICES ASSUME c = heir PROVE FALSE
          OBVIOUS
        <5>1. t.up[heir] = x
          BY <4>1, <4>2, <1>0, <1>3, ChildFacts
        <5>2. x \in b[x]
          BY <4>1, <1>0, ChildFacts
        <5> QED BY <5>1, <5>2, <4>1
      <4>5. c \in X
        BY <4>1, <4>2, <4>3, <4>4
      <4> QED BY <4>1, <4>2, <4>5
    <3> QED BY <3>3, <2>3, <1>1, <1>2
  <2>4. n \in b[n]
    BY <1>1
  <2> QED BY <2>1, <2>2, <2>3, <2>4, <1>1
<1>9. top \notin b[n]
  <2> SUFFICES ASSUME top \in b[n] PROVE FALSE
    OBVIOUS
  <2>1. top # Null /\ top \in Names
    BY <1>0, <1>1
  <2>2. n \in b[top]
    BY <2>1, InTree
  <2> QED BY <2>1, <2>2, <1>1, Nested
<1>10. ASSUME orphan # Null
       PROVE  t.up[orphan] = heir /\ orphan \notin {n, l, r, heir, top, low}
  <2>1. orphan \in b[r] /\ orphan \in b[n]
    BY <1>1, <1>3, <1>6, <1>10
  <2>2. orphan \notin {l, r}
    BY <1>1, <1>3, <1>6, <1>10
  <2>3. orphan # n /\ orphan # top
    BY <2>1, <1>1, <1>9
  <2>4. orphan # low
    <3>1. low \notin b[heir]
      BY <1>3, <1>7, Nested
    <3> QED BY <3>1, <1>6, <1>10
  <2> QED BY <2>2, <2>3, <2>4, <1>6, <1>10
<1>11. low # n => Toward(low, heir) = "left"
  <2> SUFFICES ASSUME low # n PROVE Toward(low, heir) = "left"
    OBVIOUS
  <2>1. low \in b[r] /\ low \in Nat /\ heir \in Nat
    BY <1>3, <1>7, <1>8, TreeAssumption
  <2>2. heir < low
    BY <2>1, <1>2, <1>7
  <2> QED BY <2>2 DEF Toward
<1>12. low = n => Toward(low, heir) = "right"
  BY <1>3
<1>13. l # r /\ heir # low
  BY <1>1, <1>7
<1> HIDE DEF l, r, orphan, top, low
<1>14. Family(t, b, n, l, r, heir, orphan, top, low)
  <2>1. /\ t.child[n]["left"] = l /\ t.child[n]["right"] = r
        /\ t.child[heir]["left"] = Null
        /\ t.child[heir]["right"] = orphan /\ t.up[n] = top /\ t.up[heir] = low
    BY <1>4 DEF l, r, orphan, top, low
  <2>2. heir \in b[n]
    BY <1>1, <1>2
  <2> QED BY <2>1, <2>2, <1>1, <1>2, <1>3, <1>6, <1>7, <1>8, <1>9, <1>10, <1>11, <1>12,
             <1>13
          DEF Family
<1>15. Only(t, heir, orphan) /\ heir \in S
  BY <1>3, <1>5
<1> QED BY <1>14, <1>15 DEF l, r, heir, orphan, top, low

(* What RB_REMOVE leaves of a node n with two children.                    *)
Heired(u, t, n, l, r, heir, orphan, top, low) ==
    /\ u \in Trees /\ u.root = IF top = Null THEN heir ELSE t.root
    /\ \A m \in Names : u.up[m] = IF m = n THEN Null
                                  ELSE IF m = orphan
                                       THEN (IF heir = r THEN heir ELSE low)
                                  ELSE IF m = heir THEN top
                                  ELSE IF m = l \/ m = r THEN heir ELSE t.up[m]
    /\ \A m \in Names, q \in Sides :
           u.child[m][q] = IF m = n THEN Null
                           ELSE IF m = heir
                                THEN (IF q = "left" THEN l
                                      ELSE IF heir = r THEN orphan ELSE r)
                           ELSE IF m = top /\ q = SideOf(t, m, n) THEN heir
                           ELSE IF m = low /\ q = "left" THEN orphan ELSE t.child[m][q]
    /\ \A m \in Names : u.red[m] = IF m = n THEN {} ELSE IF m = heir THEN t.red[n]
                                   ELSE t.red[m]

(* What it leaves of n before the links to it are changed.                 *)
LEMMA InheritedFields ==
  ASSUME NEW t \in Trees, NEW b, NEW n, NEW l, NEW r, NEW heir, NEW orphan, NEW top,
         NEW low,
         Family(t, b, n, l, r, heir, orphan, top, low)
  PROVE  LET i == Inherited(t, n, heir)
         IN /\ i \in Trees /\ i.root = t.root
            /\ \A m \in Names : i.up[m] = IF m = heir THEN top
                                          ELSE IF m = l \/ m = r THEN heir ELSE t.up[m]
            /\ \A m \in Names, q \in Sides :
                   i.child[m][q] = IF m = heir
                                   THEN (IF q = "left" THEN l
                                         ELSE IF heir = r THEN orphan ELSE r)
                                   ELSE IF heir = r /\ m = n /\ q = "right" THEN orphan
                                   ELSE IF heir # r /\ m = low /\ q = "left" THEN orphan
                                   ELSE t.child[m][q]
            /\ \A m \in Names : i.red[m] = IF m = heir THEN t.red[n] ELSE t.red[m]
<1> DEFINE below == IF heir = r THEN SetChild(t, n, "right", orphan)
                    ELSE SetParent(SetChild(t, low, "left", orphan), r, heir)
           x == SetParent(below, l, heir)
           i == Copy(x, heir, n)
<1>1. Inherited(t, n, heir) = i
  <2>1. t.child[n]["left"] = l /\ t.child[n]["right"] = r /\ t.up[heir] = low
        /\ t.child[heir]["right"] = orphan
    BY DEF Family
  <2> QED BY <2>1 DEF Inherited
<1>2. /\ n \in Names /\ l \in Names /\ r \in Names /\ heir \in Names /\ orphan \in Nodes
      /\ low \in Names /\ l \in Nodes /\ r \in Nodes /\ heir \in Nodes
      /\ l # r /\ n \notin {l, r, heir} /\ heir # l /\ heir # low
      /\ low = n <=> heir = r
      /\ "left" \in Sides /\ "right" \in Sides
      /\ t.child[n]["left"] = l /\ t.child[n]["right"] = r /\ t.up[n] = top
  BY DEF Family, Nodes, Sides
<1>3. /\ below \in Trees /\ below.root = t.root /\ below.red = t.red
      /\ \A m \in Names : below.up[m] = IF heir # r /\ m = r THEN heir ELSE t.up[m]
      /\ \A m \in Names, q \in Sides :
             below.child[m][q] = IF heir = r /\ m = n /\ q = "right" THEN orphan
                                 ELSE IF heir # r /\ m = low /\ q = "left" THEN orphan
                                 ELSE t.child[m][q]
  <2>1. CASE heir = r
    <3>1. below = SetChild(t, n, "right", orphan)
      BY <2>1
    <3>2. ChildSet(below, t, n, "right", orphan)
      BY <3>1, <1>2, SetChildFields
    <3> HIDE DEF below
    <3> QED BY <2>1, <3>2 DEF ChildSet
  <2>2. CASE heir # r
    <3> DEFINE y == SetChild(t, low, "left", orphan)
    <3>1. below = SetParent(y, r, heir)
      BY <2>2
    <3>2. ChildSet(y, t, low, "left", orphan)
      BY <1>2, SetChildFields
    <3>3. y \in Trees
      BY <3>2 DEF ChildSet
    <3> HIDE DEF y, below
    <3>4. ParentSet(below, y, r, heir)
      BY <3>1, <3>3, <1>2, SetParentFields
    <3> QED BY <2>2, <3>2, <3>4 DEF ChildSet, ParentSet
  <2> QED BY <2>1, <2>2
<1> HIDE DEF below
<1>4. ParentSet(x, below, l, heir)
  BY <1>2, <1>3, SetParentFields
<1>5. x \in Trees
  BY <1>4 DEF ParentSet
<1>6. /\ x.root = t.root /\ x.red = t.red /\ x.child = below.child
      /\ \A m \in Names : x.up[m] = IF m = l THEN heir ELSE below.up[m]
  BY <1>3, <1>4 DEF ParentSet
<1> HIDE DEF x
<1>7. NodeSet(i, x, heir, x.up[n], x.child[n], x.red[n])
  BY <1>2, <1>5, CopyFields
<1>8. x.up[n] = top /\ x.red[n] = t.red[n]
  BY <1>2, <1>3, <1>6
<1>9. x.child[n]["left"] = l /\ x.child[n]["right"] = IF heir = r THEN orphan ELSE r
  BY <1>2, <1>3, <1>6
<1> HIDE DEF i
<1>10. i \in Trees /\ i.root = t.root
  BY <1>6, <1>7 DEF NodeSet
<1>11. \A m \in Names : i.up[m] = IF m = heir THEN top
                                 ELSE IF m = l \/ m = r THEN heir ELSE t.up[m]
  <2>1. \A m \in Names : i.up[m] = IF m = heir THEN top ELSE x.up[m]
    BY <1>7, <1>8 DEF NodeSet
  <2> QED BY <2>1, <1>2, <1>3, <1>6
<1>12. \A m \in Names : i.red[m] = IF m = heir THEN t.red[n] ELSE t.red[m]
  BY <1>6, <1>7, <1>8 DEF NodeSet
<1>13. \A m \in Names, q \in Sides :
          i.child[m][q] = IF m = heir
                          THEN (IF q = "left" THEN l
                                ELSE IF heir = r THEN orphan ELSE r)
                          ELSE IF heir = r /\ m = n /\ q = "right" THEN orphan
                          ELSE IF heir # r /\ m = low /\ q = "left" THEN orphan
                          ELSE t.child[m][q]
  <2>1. \A m \in Names : i.child[m] = IF m = heir THEN x.child[n] ELSE x.child[m]
    BY <1>7 DEF NodeSet
  <2>2. \A q \in Sides : q = "left" \/ q = "right"
    BY DEF Sides
  <2> QED BY <2>1, <2>2, <1>3, <1>6, <1>9
<1> QED BY <1>1, <1>10, <1>11, <1>12, <1>13

(* It leaves that.                                                         *)
LEMMA HeirFields ==
  ASSUME NEW t \in Trees, NEW b, NEW n, NEW l, NEW r, NEW heir, NEW orphan, NEW top,
         NEW low,
         Family(t, b, n, l, r, heir, orphan, top, low)
  PROVE  LET p == IF heir = r THEN heir ELSE low
             h == SetParent(SwapChild(Inherited(t, n, heir), n, heir), orphan, p)
         IN Heired(SetNode(h, n, Null), t, n, l, r, heir, orphan, top, low)
<1> DEFINE p == IF heir = r THEN heir ELSE low
           i == Inherited(t, n, heir)
           x == SwapChild(i, n, heir)
           h == SetParent(x, orphan, p)
           u == SetNode(h, n, Null)
<1>1. /\ n \in Names /\ l \in Names /\ r \in Names /\ heir \in Names /\ orphan \in Nodes
      /\ low \in Names /\ heir \in Nodes /\ Null \in Nodes /\ top \in Nodes
      /\ l # r /\ n \notin {l, r, heir, top} /\ heir # l /\ heir # low
      /\ low = n <=> heir = r
      /\ t.up[n] = top /\ low \in b[n] /\ top \notin b[n]
      /\ p \in Nodes
  BY DEF Family, Nodes
<1>2. /\ i \in Trees /\ i.root = t.root
      /\ \A m \in Names : i.up[m] = IF m = heir THEN top
                                    ELSE IF m = l \/ m = r THEN heir ELSE t.up[m]
      /\ \A m \in Names, q \in Sides :
             i.child[m][q] = IF m = heir
                             THEN (IF q = "left" THEN l
                                   ELSE IF heir = r THEN orphan ELSE r)
                             ELSE IF heir = r /\ m = n /\ q = "right" THEN orphan
                             ELSE IF heir # r /\ m = low /\ q = "left" THEN orphan
                             ELSE t.child[m][q]
      /\ \A m \in Names : i.red[m] = IF m = heir THEN t.red[n] ELSE t.red[m]
  BY InheritedFields
<1> HIDE DEF i
<1>3. Swapped(x, i, n, heir)
  BY <1>1, <1>2, SwapChildFields
<1>4. x \in Trees
  BY <1>3 DEF Swapped
<1> HIDE DEF x, p
<1>5. ParentSet(h, x, orphan, p)
  BY <1>1, <1>4, SetParentFields
<1>6. h \in Trees
  BY <1>5 DEF ParentSet
<1> HIDE DEF h
<1>7. NodeSet(u, h, n, Null, Blank, {})
  BY <1>1, <1>6, SetNodeFields
<1> HIDE DEF u
<1>8. i.up[n] = top
  BY <1>1, <1>2
<1>9. heir # top
  BY DEF Family
<1>10. top # Null => SideOf(i, top, n) = SideOf(t, top, n)
  <2>1. top # Null => top \in Names
    BY <1>1 DEF Nodes
  <2>2. top # Null => i.child[top]["left"] = t.child[top]["left"]
    BY <2>1, <1>1, <1>2, <1>9 DEF Sides
  <2> QED BY <2>2 DEF SideOf
<1>11. u \in Trees /\ u.root = IF top = Null THEN heir ELSE t.root
  BY <1>2, <1>3, <1>5, <1>7, <1>8 DEF Swapped, ParentSet, NodeSet
<1>12. \A m \in Names : u.up[m] = IF m = n THEN Null
                                 ELSE IF m = orphan THEN p
                                 ELSE IF m = heir THEN top
                                 ELSE IF m = l \/ m = r THEN heir ELSE t.up[m]
  <2>1. \A m \in Names : u.up[m] = IF m = n THEN Null
                                  ELSE IF m = orphan THEN p ELSE i.up[m]
    BY <1>3, <1>5, <1>7 DEF Swapped, ParentSet, NodeSet
  <2> QED BY <2>1, <1>2
<1>13. \A m \in Names : u.red[m] = IF m = n THEN {} ELSE IF m = heir THEN t.red[n]
                                  ELSE t.red[m]
  <2>1. \A m \in Names : u.red[m] = IF m = n THEN {} ELSE i.red[m]
    BY <1>3, <1>5, <1>7 DEF Swapped, ParentSet, NodeSet
  <2> QED BY <2>1, <1>2
<1>14. \A m \in Names, q \in Sides :
          u.child[m][q] = IF m = n THEN Null
                          ELSE IF m = heir
                               THEN (IF q = "left" THEN l
                                     ELSE IF heir = r THEN orphan ELSE r)
                          ELSE IF m = top /\ q = SideOf(t, m, n) THEN heir
                          ELSE IF m = low /\ q = "left" THEN orphan ELSE t.child[m][q]
  <2> SUFFICES ASSUME NEW m \in Names, NEW q \in Sides
               PROVE  u.child[m][q] = IF m = n THEN Null
                          ELSE IF m = heir
                               THEN (IF q = "left" THEN l
                                     ELSE IF heir = r THEN orphan ELSE r)
                          ELSE IF m = top /\ q = SideOf(t, m, n) THEN heir
                          ELSE IF m = low /\ q = "left" THEN orphan ELSE t.child[m][q]
    OBVIOUS
  <2>1. u.child[m][q] = IF m = n THEN Null ELSE x.child[m][q]
    BY <1>5, <1>7, BlankSides DEF ParentSet, NodeSet
  <2>2. x.child[m][q] = IF m = top /\ q = SideOf(i, m, n) THEN heir ELSE i.child[m][q]
    BY <1>3, <1>8 DEF Swapped
  <2>3. m = top => SideOf(i, m, n) = SideOf(t, m, n)
    BY <1>10, TreeAssumption
  <2> QED BY <2>1, <2>2, <2>3, <1>1, <1>2, <1>9
<1>15. Heired(u, t, n, l, r, heir, orphan, top, low)
  BY <1>11, <1>12, <1>13, <1>14, Zenon DEF Heired, p
<1> QED BY <1>15 DEF u, h, x, i, p

(* That is as if the successor had been spliced out and had then taken the *)
(* place of n, in all links and in the order.                              *)
LEMMA HeirTakesOver ==
  ASSUME NEW t, NEW S, NEW b, Shape(t, S, b), NEW n \in S, NEW l, NEW r, NEW heir \in S,
         NEW orphan, NEW top, NEW low, Family(t, b, n, l, r, heir, orphan, top, low),
         NEW v, SplicedOut(v, t, heir, orphan),
         NEW u, Heired(u, t, n, l, r, heir, orphan, top, low)
  PROVE  Substituted(u, v, n, heir) /\ SamePlace(v, Without(b, heir), n, heir)
<1>0. "left" \in Sides /\ "right" \in Sides /\ Null \notin Names /\ b[Null] = {}
      /\ S \subseteq Nat /\ S \subseteq Names /\ Null \in Nodes
      /\ \A q \in Sides : q = "left" \/ q = "right"
  BY TreeAssumption DEF Sides, Shape, ShapeType, Nodes
<1>1. /\ n \in Names /\ l \in Names /\ r \in Names /\ heir \in Names /\ orphan \in Nodes
      /\ t.child[n]["left"] = l /\ t.child[n]["right"] = r
      /\ t.child[heir]["left"] = Null /\ t.child[heir]["right"] = orphan
      /\ t.up[n] = top /\ t.up[heir] = low /\ low \in Names /\ top \in Nodes
      /\ t.up[l] = n /\ t.up[r] = n
      /\ orphan # Null => t.up[orphan] = heir /\ orphan \notin {n, l, r, heir, top, low}
      /\ heir \in b[r] /\ heir \in b[n] /\ low \in b[n] /\ top \notin b[n]
      /\ \A x \in b[r] : heir <= x
      /\ l # r /\ n \notin {l, r, heir, top} /\ heir # l /\ heir # low
      /\ (low = n <=> heir = r)
      /\ (low # n => Toward(low, heir) = "left")
      /\ (low = n => Toward(low, heir) = "right")
  BY Zenon DEF Family
<1>2. /\ v \in Trees /\ v.root = IF low = Null THEN orphan ELSE t.root
      /\ \A m \in Names : v.up[m] = IF m = heir THEN Null
                                    ELSE IF m = orphan THEN low ELSE t.up[m]
      /\ \A m \in Names, q \in Sides :
             v.child[m][q] = IF m = heir THEN Null
                             ELSE IF m = low /\ q = SideOf(t, m, heir) THEN orphan
                             ELSE t.child[m][q]
      /\ \A m \in Names : v.red[m] = IF m = heir THEN {} ELSE t.red[m]
  BY <1>1, ZenonT(40) DEF SplicedOut
<1>3. /\ u \in Trees /\ u.root = IF top = Null THEN heir ELSE t.root
      /\ \A m \in Names : u.up[m] = IF m = n THEN Null
                                    ELSE IF m = orphan
                                         THEN (IF heir = r THEN heir ELSE low)
                                    ELSE IF m = heir THEN top
                                    ELSE IF m = l \/ m = r THEN heir ELSE t.up[m]
      /\ \A m \in Names, q \in Sides :
             u.child[m][q] = IF m = n THEN Null
                             ELSE IF m = heir
                                  THEN (IF q = "left" THEN l
                                        ELSE IF heir = r THEN orphan ELSE r)
                             ELSE IF m = top /\ q = SideOf(t, m, n) THEN heir
                             ELSE IF m = low /\ q = "left" THEN orphan
                                  ELSE t.child[m][q]
      /\ \A m \in Names : u.red[m] = IF m = n THEN {} ELSE IF m = heir THEN t.red[n]
                                     ELSE t.red[m]
  BY Zenon DEF Heired
<1> DEFINE T(x) == Turn(n, heir, x)
<1>4. /\ T(n) = heir /\ T(heir) = n
      /\ \A x : x \notin {n, heir} => T(x) = x
  BY <1>1 DEF Turn
<1> HIDE DEF T
<1>5. \A m \in Names : t.up[m] = n => m = l \/ m = r
  <2> SUFFICES ASSUME NEW m \in Names, t.up[m] = n PROVE m = l \/ m = r
    OBVIOUS
  <2>2. t.up[m] # Null
    BY <1>0, <1>1
  <2>3. t.child[t.up[m]][Toward(t.up[m], m)] = m /\ Toward(t.up[m], m) \in Sides
    BY <2>2, ParentFacts
  <2>1. t.child[n][Toward(n, m)] = m /\ Toward(n, m) \in Sides
    BY <2>3
  <2> QED BY <2>1, <1>0, <1>1
<1>6. \A m \in Names : t.up[m] = heir => m = orphan
  <2> SUFFICES ASSUME NEW m \in Names, t.up[m] = heir PROVE m = orphan
    OBVIOUS
  <2>2. t.up[m] # Null
    BY <1>0, <1>1
  <2>3. t.child[t.up[m]][Toward(t.up[m], m)] = m /\ Toward(t.up[m], m) \in Sides
    BY <2>2, ParentFacts
  <2>1. t.child[heir][Toward(heir, m)] = m /\ Toward(heir, m) \in Sides
    BY <2>3
  <2> QED BY <2>1, <1>0, <1>1
<1>7. /\ SideOf(t, low, heir) = Toward(low, heir)
      /\ \A m \in Names, q \in Sides :
             t.child[m][q] = heir <=> m = low /\ q = Toward(low, heir)
  <2>0. t.up[heir] # Null /\ t.up[heir] = low
    BY <1>0, <1>1
  <2>3. SideOf(t, t.up[heir], heir) = Toward(t.up[heir], heir)
    BY <2>0, <1>1, ParentFacts
  <2>1. SideOf(t, low, heir) = Toward(low, heir)
    BY <2>0, <2>3
  <2>2. \A m \in Names, q \in Sides :
             t.child[m][q] = heir <=> m = low /\ q = Toward(m, heir)
    BY <1>1, ParentOnly
  <2> QED BY <2>1, <2>2
<1>8. \A m \in Names, q \in Sides :
          t.child[m][q] = n <=> m = top /\ q = SideOf(t, m, n)
  <2> SUFFICES ASSUME NEW m \in Names, NEW q \in Sides
               PROVE  t.child[m][q] = n <=> m = top /\ q = SideOf(t, m, n)
    OBVIOUS
  <2>1. t.child[m][q] = n <=> m = top /\ q = Toward(m, n)
    BY <1>1, ParentOnly
  <2>2. top # Null => SideOf(t, top, n) = Toward(top, n)
    BY <1>1, ParentFacts
  <2> QED BY <2>1, <2>2, <1>0
<1>9. t.root = n <=> top = Null
  <2>1. /\ t.root # Null => t.up[t.root] = Null
        /\ t.up[n] = Null => n = t.root
    BY DEF Shape, Rooted
  <2> QED BY <2>1, <1>0, <1>1
<1>10. t.root # heir
  <2>1. t.root # Null => t.up[t.root] = Null
    BY DEF Shape, Rooted
  <2> QED BY <2>1, <1>0, <1>1
<1>11. top # heir /\ top # low
  BY <1>1
<1>12. u.root = T(v.root)
  <2>1. v.root = t.root
    BY <1>0, <1>1, <1>2
  <2> QED BY <2>1, <1>3, <1>4, <1>9, <1>10
<1>13. ASSUME NEW m \in Names PROVE u.up[m] = T(v.up[T(m)])
  <2>1. CASE m = n
    <3>1. v.up[heir] = Null /\ T(Null) = Null
      BY <1>0, <1>1, <1>2, <1>4
    <3> QED BY <2>1, <3>1, <1>3, <1>4
  <2>2. CASE m = heir
    <3>1. v.up[n] = top /\ T(top) = top
      BY <1>0, <1>1, <1>2, <1>4, <1>11
    <3>2. heir # orphan
      BY <1>0, <1>1
    <3> QED BY <2>2, <3>1, <3>2, <1>1, <1>3, <1>4
  <2>3. CASE m = orphan
    <3>1. m # heir /\ m # n
      BY <2>3, <1>0, <1>1
    <3>2. v.up[m] = low
      BY <2>3, <3>1, <1>2
    <3>3. T(low) = IF low = n THEN heir ELSE low
      BY <1>1, <1>4
    <3> QED BY <2>3, <3>1, <3>2, <3>3, <1>1, <1>3, <1>4
  <2>4. CASE m \notin {n, heir, orphan}
    <3>1. T(m) = m /\ v.up[m] = t.up[m] /\ t.up[m] # heir
      BY <2>4, <1>2, <1>4, <1>6
    <3>2. T(t.up[m]) = IF t.up[m] = n THEN heir ELSE t.up[m]
      BY <3>1, <1>4
    <3>3. u.up[m] = IF m = l \/ m = r THEN heir ELSE t.up[m]
      BY <2>4, <1>3
    <3>4. m = l \/ m = r <=> t.up[m] = n
      BY <1>1, <1>5
    <3> QED BY <3>1, <3>2, <3>3, <3>4
  <2> QED BY <2>1, <2>2, <2>3, <2>4
<1>14. ASSUME NEW m \in Names, NEW q \in Sides
       PROVE  u.child[m][q] = T(v.child[T(m)][q])
  <2>1. CASE m = n
    <3>1. v.child[heir][q] = Null /\ T(Null) = Null
      BY <1>0, <1>1, <1>2, <1>4
    <3> QED BY <2>1, <3>1, <1>3, <1>4
  <2>2. CASE m = heir
    <3>1. u.child[heir][q] = IF q = "left" THEN l ELSE IF heir = r THEN orphan ELSE r
      BY <1>1, <1>3
    <3>2. v.child[n][q] = IF n = low /\ q = Toward(low, heir) THEN orphan
                          ELSE t.child[n][q]
      BY <1>1, <1>2, <1>7
    <3>3. v.child[n][q] = IF q = "left" THEN l ELSE IF heir = r THEN orphan ELSE r
      BY <3>2, <1>0, <1>1
    <3>4. T(l) = l /\ T(orphan) = orphan /\ (heir # r => T(r) = r)
      BY <1>0, <1>1, <1>4
    <3> QED BY <2>2, <3>1, <3>3, <3>4, <1>4
  <2>3. CASE m \notin {n, heir}
    <3>1. T(m) = m
      BY <2>3, <1>4
    <3>2. u.child[m][q] = IF m = top /\ q = SideOf(t, m, n) THEN heir
                          ELSE IF m = low /\ q = "left" THEN orphan ELSE t.child[m][q]
      BY <2>3, <1>3
    <3>3. v.child[m][q] = IF m = low /\ q = "left" THEN orphan ELSE t.child[m][q]
      BY <2>3, <1>0, <1>1, <1>2, <1>7
    <3>4. T(orphan) = orphan
      BY <1>0, <1>1, <1>4
    <3>5. m = low => Toward(low, heir) = "left"
      BY <2>3, <1>1
    <3>6. t.child[m][q] = heir => m = low /\ q = "left"
      BY <3>5, <1>7
    <3>7. T(t.child[m][q]) = IF t.child[m][q] = n THEN heir
                             ELSE IF t.child[m][q] = heir THEN n ELSE t.child[m][q]
      BY <1>4
    <3> QED BY <3>1, <3>2, <3>3, <3>4, <3>6, <3>7, <1>8, <1>11
  <2> QED BY <2>1, <2>2, <2>3
<1>15. ASSUME NEW m \in Names PROVE u.red[m] = v.red[T(m)]
  BY <1>1, <1>2, <1>3, <1>4
<1>16. Substituted(u, v, n, heir)
  BY <1>3, <1>12, <1>13, <1>14, <1>15 DEF Substituted, T
<1>17. b[heir] \subseteq b[r] /\ b[orphan] \subseteq b[heir] /\ n \notin b[r]
       /\ b[orphan] \subseteq b[r]
  <2>1. b[heir] \subseteq b[r]
    BY <1>1, Nested
  <2>2. b[orphan] \subseteq b[heir] /\ n \notin b[r]
    BY <1>0, <1>1, ChildFacts
  <2> QED BY <2>1, <2>2
<1> DEFINE d == Without(b, heir)
<1>18. \A c \in Nodes : d[c] = IF c = heir THEN {heir} ELSE b[c] \ {heir}
  BY DEF Without
<1> HIDE DEF d
<1>19. ASSUME NEW m \in Names, NEW q \in Sides, n \in d[v.child[m][q]]
       PROVE  Precedes(q, heir, m)
  <2>1. v.child[m][q] \in Nodes
    BY <1>2, FieldTypes
  <2>2. v.child[m][q] # heir /\ n \in b[v.child[m][q]]
    BY <2>1, <1>1, <1>18, <1>19, Zenon
  <2>3. v.child[m][q] = t.child[m][q]
    <3>1. v.child[m][q] # orphan /\ v.child[m][q] # Null
      BY <2>2, <1>0, <1>17
    <3> QED BY <3>1, <1>2
  <2>4. t.child[m][q] \in Names
    BY <2>1, <2>2, <2>3, <1>0 DEF Nodes
  <2>5. heir \in b[t.child[m][q]]
    BY <2>2, <2>3, <2>4, <1>1, Nested
  <2> QED BY <2>5, Halves
<1>20. ASSUME NEW q \in Sides, NEW x \in d[v.child[n][q]]
       PROVE  Precedes(q, x, heir)
  <2>1. v.child[n][q] = IF n = low /\ q = Toward(low, heir) THEN orphan
                        ELSE t.child[n][q]
    BY <1>1, <1>2, <1>7
  <2>2. CASE q = "left"
    <3>1. v.child[n][q] = l
      BY <2>1, <2>2, <1>1
    <3>5. d[l] = b[l] \ {heir}
      BY <1>1, <1>18 DEF Nodes
    <3>2. x \in b[l]
      BY <3>1, <3>5
    <3>3. Precedes("left", x, n) /\ x \in Names
      BY <3>2, <1>0, <1>1, Halves
    <3>4. Precedes("right", heir, n)
      BY <1>0, <1>1, Halves
    <3> QED BY <2>2, <3>3, <3>4, <1>0, <1>1, TreeAssumption DEF Precedes
  <2>3. CASE q = "right"
    <3>1. v.child[n][q] = (IF heir = r THEN orphan ELSE r)
      BY <2>1, <2>3, <1>1
    <3>6. heir = r => d[orphan] = b[orphan] \ {heir}
      BY <1>0, <1>1, <1>18 DEF Nodes
    <3>7. heir # r => d[r] = b[r] \ {heir}
      BY <1>1, <1>18 DEF Nodes
    <3>2. x \in b[r] /\ x # heir
      BY <3>1, <3>6, <3>7, <1>17
    <3>3. x \in Names
      BY <3>2, <1>0, <1>1, Halves
    <3>4. heir <= x /\ heir \in Nat /\ x \in Nat
      BY <3>2, <3>3, <1>1, TreeAssumption
    <3>5. heir < x
      BY <3>2, <3>4
    <3> QED BY <2>3, <3>5 DEF Precedes
  <2> QED BY <2>2, <2>3, <1>0
<1>21. SamePlace(v, d, n, heir)
  BY <1>19, <1>20 DEF SamePlace
<1> QED BY <1>16, <1>21 DEF d

(* RB_REMOVE and the beginning of RB_REMOVE_COLOR of a node with two       *)
(* children.                                                               *)
LEMMA TwoChildren ==
  ASSUME NEW t, NEW S, NEW b, Shape(t, S, b), NEW w, Even(t, w), NEW n \in S,
         t.child[n]["left"] # Null, t.child[n]["right"] # Null
  PROVE  Outcome(Removed(t, n), S \ {n})
<1> DEFINE l == t.child[n]["left"]
           r == t.child[n]["right"]
           heir == Leftmost(t, r)
           orphan == t.child[heir]["right"]
           top == t.up[n]
           low == t.up[heir]
           p == IF heir = r THEN heir ELSE low
           h == SetParent(SwapChild(Inherited(t, n, heir), n, heir), orphan, p)
           u == SetNode(h, n, Null)
           v == Splice(t, heir, orphan)
<1>1. Removed(t, n) = LowerLeaf(u, p, orphan)
  BY DEF Removed
<1>2. /\ heir \in S /\ Only(t, heir, orphan)
      /\ Family(t, b, n, l, r, heir, orphan, top, low)
  BY FamilyFacts
<1>3. t \in Trees /\ S \subseteq Names
  BY DEF Shape, ShapeType
<1> HIDE DEF l, r, heir, orphan, top, low
<1>4. /\ n \in Names /\ heir \in Names /\ orphan \in Nodes /\ n # heir /\ heir # low
      /\ (low = n <=> heir = r) /\ orphan # n /\ orphan # heir /\ low \in Names
  BY <1>2, TreeAssumption, Zenon DEF Family
<1>5. Heired(u, t, n, l, r, heir, orphan, top, low)
  BY <1>2, <1>3, HeirFields
<1>6. SplicedOut(v, t, heir, orphan)
  BY <1>3, <1>4, SpliceFields
<1> HIDE DEF u, v
<1>7. Substituted(u, v, n, heir) /\ SamePlace(v, Without(b, heir), n, heir)
  BY <1>2, <1>5, <1>6, HeirTakesOver
<1>8. Shape(v, S \ {heir}, Without(b, heir))
  BY <1>2, <1>6, SpliceShape
<1>9. \E x : Shrunk(v, x, low, orphan)
  BY <1>2, <1>6, SpliceRanks DEF low
<1>10. n \in S \ {heir} /\ heir \in Names \ (S \ {heir})
  BY <1>2, <1>4
<1>11. \E d : Shape(u, ((S \ {heir}) \ {n}) \cup {heir}, d)
  BY <1>7, <1>8, <1>10, SubstituteShape
<1>12. ((S \ {heir}) \ {n}) \cup {heir} = S \ {n}
  BY <1>2, <1>4
<1>13. \E x : Shrunk(u, x, Turn(n, heir, low), Turn(n, heir, orphan))
  BY <1>7, <1>8, <1>9, <1>10, SubstituteRanks
<1>14. Turn(n, heir, low) = p /\ Turn(n, heir, orphan) = orphan
  BY <1>4 DEF Turn
<1> HIDE DEF p
<1>15. Outcome(LowerLeaf(u, p, orphan), S \ {n})
  BY <1>11, <1>12, <1>13, <1>14, LowerLeafOutcome
<1> QED BY <1>1, <1>15

(* RB_REMOVE of any node and the beginning of RB_REMOVE_COLOR: the tree    *)
(* keeps its shape and all other nodes, and all ranks are restored or a    *)
(* subtree of a node that is no leaf has lost one.                         *)
LEMMA RemovedKeeps ==
  ASSUME NEW t, NEW S, NEW b, Shape(t, S, b), NEW w, Even(t, w), NEW n \in S
  PROVE  Outcome(Removed(t, n), S \ {n})
<1> DEFINE l == t.child[n]["left"]
           r == t.child[n]["right"]
           only == IF l = Null THEN r ELSE l
<1>1. CASE l = Null \/ r = Null
  <2>1. Only(t, n, only)
    BY <1>1 DEF Only, Sides, Other
  <2>2. Removed(t, n) = LowerLeaf(Splice(t, n, only), t.up[n], only)
    BY <1>1 DEF Removed, Splice
  <2>3. Outcome(LowerLeaf(Splice(t, n, only), t.up[n], only), S \ {n})
    BY <2>1, OneChild
  <2> QED BY <2>2, <2>3
<1>2. CASE l # Null /\ r # Null
  BY <1>2, TwoChildren
<1> QED BY <1>1, <1>2

(* The tree t of the entries S, and how far its ranks are restored.        *)
TreeState(t, S, ra, p, e) ==
    /\ \E b : Shape(t, S, b)
    /\ ra # Null => ra \in S /\ p = Null /\ \E r : Raising(t, r, ra)
    /\ p # Null => \E r : Lowering(t, r, p, e)
    /\ p = Null => e = Null
    /\ ra = Null /\ p = Null => \E r : Even(t, r)

(* RB_INSERT leaves such a state.                                          *)
LEMMA LinkState ==
  ASSUME NEW t, NEW S, NEW e, TreeState(t, S, Null, Null, e), NEW n \in Names \ S
  PROVE  TreeState(Link(t, n), S \cup {n}, n, Null, e)
<1>1. PICK b : Shape(t, S, b)
  BY DEF TreeState
<1>2. PICK r : Even(t, r)
  BY DEF TreeState
<1>3. /\ \E d : Shape(Link(t, n), S \cup {n}, d)
      /\ \E w : Raising(Link(t, n), w, n)
  BY <1>1, <1>2, LinkKeeps
<1>4. n # Null /\ e = Null
  BY TreeAssumption DEF TreeState
<1>5. n \in S \cup {n}
  OBVIOUS
<1> QED BY <1>3, <1>4, <1>5, Zenon DEF TreeState

(* So does what leaves an Outcome.                                         *)
LEMMA OutcomeState ==
  ASSUME NEW out, NEW S, Outcome(out, S)
  PROVE  TreeState(out.tree, S, Null, out.parent, out.elm)
BY Zenon DEF Outcome, TreeState

(* So does RB_REMOVE.                                                      *)
LEMMA RemovedState ==
  ASSUME NEW t, NEW S, NEW e, TreeState(t, S, Null, Null, e), NEW n \in S
  PROVE  LET out == Removed(t, n)
         IN TreeState(out.tree, S \ {n}, Null, out.parent, out.elm)
<1>1. PICK b : Shape(t, S, b)
  BY DEF TreeState
<1>2. PICK r : Even(t, r)
  BY DEF TreeState
<1>3. Outcome(Removed(t, n), S \ {n})
  BY <1>1, <1>2, RemovedKeeps
<1> QED BY <1>3, OutcomeState

(* So does a turn of RB_INSERT_COLOR.                                      *)
LEMMA RaisedState ==
  ASSUME NEW t, NEW S, NEW ra, NEW p, NEW e, TreeState(t, S, ra, p, e), ra # Null
  PROVE  TreeState(Raised(t, ra), S, IF Promotes(t, ra) THEN t.up[ra] ELSE Null, p, e)
<1>1. PICK b : Shape(t, S, b)
  BY DEF TreeState
<1>2. PICK r : Raising(t, r, ra)
  BY DEF TreeState
<1>3. p = Null /\ e = Null
  BY DEF TreeState
<1>4. /\ \E d : Shape(Raised(t, ra), S, d)
      /\ Promotes(t, ra)
            => t.up[ra] \in Names /\ \E w : Raising(Raised(t, ra), w, t.up[ra])
      /\ ~Promotes(t, ra) => \E w : Even(Raised(t, ra), w)
  BY <1>1, <1>2, RaisedKeeps
<1>5. Promotes(t, ra) => t.up[ra] # Null
  BY <1>4, TreeAssumption
<1>6. CASE Promotes(t, ra)
  <2>2. t.up[ra] \in S
    <3>1. ra \in S
      BY DEF TreeState
    <3>2. t.up[ra] \in S \cup {Null}
      BY <3>1, <1>1, InTree
    <3> QED BY <3>2, <1>5, <1>6
  <2>1. TreeState(Raised(t, ra), S, t.up[ra], p, e)
    BY <2>2, <1>3, <1>4, <1>5, <1>6, Zenon DEF TreeState
  <2> QED BY <1>6, <2>1
<1>7. CASE ~Promotes(t, ra)
  <2>1. TreeState(Raised(t, ra), S, Null, p, e)
    BY <1>3, <1>4, <1>7, Zenon DEF TreeState
  <2> QED BY <1>7, <2>1
<1> QED BY <1>6, <1>7

(* So does a turn of RB_REMOVE_COLOR, which is never in the middle of an   *)
(* insertion.                                                              *)
LEMMA LoweredState ==
  ASSUME NEW t, NEW S, NEW ra, NEW p, NEW e, TreeState(t, S, ra, p, e), p # Null
  PROVE  LET out == Lowered(t, p, e)
         IN ra = Null /\ TreeState(out.tree, S, ra, out.parent, out.elm)
<1>1. PICK b : Shape(t, S, b)
  BY DEF TreeState
<1>2. PICK r : Lowering(t, r, p, e)
  BY DEF TreeState
<1>3. ra = Null
  BY DEF TreeState
<1>4. Outcome(Lowered(t, p, e), S)
  BY <1>1, <1>2, LoweredKeeps
<1> QED BY <1>3, <1>4, OutcomeState

(* The empty tree has no rank to restore, whether entries have been taken  *)
(* out or it has just been initialised.                                    *)
LEMMA EmptyState ==
  /\ TreeState(EmptyTree, {}, Null, Null, Null)
  /\ \A t, p, e : TreeState(t, {}, Null, p, e) => p = Null /\ e = Null
<1>1. TreeState(EmptyTree, {}, Null, Null, Null)
  <2> DEFINE b == [n \in Nodes |-> IF n = Null THEN {} ELSE {n}]
             r == [n \in Nodes |-> IF n = Null THEN -1 ELSE 0]
             t == EmptyTree
  <2>1. /\ t \in Trees /\ t.root = Null
        /\ \A n \in Names : t.up[n] = Null /\ t.child[n] = Blank /\ t.red[n] = {}
        /\ \A n \in Names, q \in Sides : t.child[n][q] = Null
    BY DEF EmptyTree, Trees, Nodes, Blank
  <2> HIDE DEF t
  <2>2. b \in [Nodes -> SUBSET Names] /\ b[Null] = {} /\ \A n \in Names : b[n] = {n}
    BY TreeAssumption DEF Nodes
  <2>3. r \in [Nodes -> Int] /\ r[Null] = -1 /\ \A n \in Names : r[n] = 0
    BY TreeAssumption DEF Nodes
  <2> HIDE DEF b, r
  <2>4. Shape(t, {}, b)
    <3>1. ShapeType(t, {}, b)
      BY <2>1, <2>2, FS_EmptySet DEF ShapeType
    <3>2. Unfolds(t, b)
      BY <2>1, <2>2 DEF Unfolds, Sides
    <3>3. /\ LinksBack(t) /\ Ordered(t, b) /\ LinksDown(t) /\ Rooted(t, {}, b)
          /\ Dead(t, {})
      BY <2>1, <2>2 DEF LinksBack, Ordered, LinksDown, Rooted, Dead
    <3> QED BY <3>1, <3>2, <3>3 DEF Shape
  <2>5. Even(t, r)
    <3>1. RankType(r)
      BY <2>3 DEF RankType
    <3>2. \A m \in Names, q \in Sides :
              r[m] = r[t.child[m][q]] + Diff(t, m, q) + Gap(m, q, Null, "left", 0)
      BY <2>1, <2>3 DEF Diff, Gap
    <3>3. LeafRule(t)
      BY <2>1 DEF LeafRule
    <3> QED BY <3>1, <3>2, <3>3 DEF Even, Balance
  <2>6. TreeState(t, {}, Null, Null, Null)
    BY <2>4, <2>5, Zenon DEF TreeState
  <2> QED BY <2>6 DEF t
<1>2. ASSUME NEW t, NEW p, NEW e, TreeState(t, {}, Null, p, e), p # Null
      PROVE  FALSE
  <2>1. PICK b : Shape(t, {}, b)
    BY <1>2 DEF TreeState
  <2>2. PICK r : Lowering(t, r, p, e)
    BY <1>2 DEF TreeState
  <2>3. p \in Names /\ t.child[p] # Blank
    BY <2>2 DEF Lowering, LoweringAt
  <2>4. t.child[p] = Blank
    BY <2>1, <2>3 DEF Shape, Dead
  <2> QED BY <2>3, <2>4
<1>3. \A t, p, e : TreeState(t, {}, Null, p, e) => p = Null /\ e = Null
  <2>1. \A t, p, e : TreeState(t, {}, Null, p, e) => p = Null
    BY <1>2
  <2>2. \A t, p, e : TreeState(t, {}, Null, p, e) => (p = Null => e = Null)
    BY Zenon DEF TreeState
  <2> QED BY <2>1, <2>2
<1> QED BY <1>1, <1>3

(* What TypeOK says of the links.                                          *)
Linking(t, S, ra, p, e) ==
    /\ t.root \in S \cup {Null}
    /\ t.up \in [Names -> S \cup {Null}]
    /\ t.child \in [Names -> [Sides -> S \cup {Null}]]
    /\ t.red \in [Names -> SUBSET Sides]
    /\ {ra, p, e} \subseteq S \cup {Null} /\ S \subseteq Names
    /\ \A n \in S :
           /\ t.up[n] = Null => t.root = n
           /\ t.up[n] # Null => t.child[t.up[n]][Toward(t.up[n], n)] = n
           /\ \A s \in Sides :
                  LET c == t.child[n][s]
                  IN c # Null => t.up[c] = n /\ Toward(n, c) = s
    /\ \A n \in Names \ S : t.child[n] = Blank /\ t.red[n] = {}

(* They agree in any such state.                                           *)
LEMMA StateLinks ==
  ASSUME NEW t, NEW S, NEW ra, NEW p, NEW e, TreeState(t, S, ra, p, e)
  PROVE  Linking(t, S, ra, p, e)
<1>1. PICK b : Shape(t, S, b)
  BY DEF TreeState
<1>2. t \in Trees /\ S \subseteq Names /\ Null \notin Names
  BY <1>1, TreeAssumption DEF Shape, ShapeType
<1>3. /\ t.up \in [Names -> Nodes] /\ t.child \in [Names -> [Sides -> Nodes]]
      /\ t.red \in [Names -> SUBSET Sides]
  BY <1>2, FieldTypes
<1>4. \A n \in Names \ S : /\ t.up[n] = Null /\ t.child[n] = Blank
                           /\ \A q \in Sides : t.child[n][q] = Null
  BY <1>1, DeadBelow DEF Shape, Dead
<1>5. t.root \in S \cup {Null}
  <2>1. t.root # Null => t.root \in Names /\ S = b[t.root]
    BY <1>1, <1>2, FieldTypes DEF Shape, Rooted, Nodes
  <2>2. t.root # Null => t.root \in b[t.root]
    BY <2>1, <1>1, ChildFacts DEF Sides
  <2> QED BY <2>1, <2>2
<1>6. \A n \in S :
         t.up[n] \in S \cup {Null} /\ \A q \in Sides : t.child[n][q] \in S \cup {Null}
  BY <1>1, InTree
<1>7. t.up \in [Names -> S \cup {Null}]
  BY <1>3, <1>4, <1>6
<1>8. t.child \in [Names -> [Sides -> S \cup {Null}]]
  <2>1. \A n \in Names, q \in Sides : t.child[n][q] \in S \cup {Null}
    BY <1>4, <1>6
  <2> QED BY <2>1, <1>3
<1>9. LeafRule(t)
  <2>1. ra # Null => LeafRule(t)
    BY Zenon DEF TreeState, Raising
  <2>2. p # Null => LeafRule(t)
    BY Zenon DEF TreeState, Lowering, LoweringAt
  <2>3. ra = Null /\ p = Null => LeafRule(t)
    BY Zenon DEF TreeState, Even
  <2> QED BY <2>1, <2>2, <2>3
<1>10. \A n \in Names \ S : t.red[n] = {}
  BY <1>4, <1>9 DEF LeafRule
<1>11. ra \in S \cup {Null}
  BY Zenon DEF TreeState
<1>12. p \in S \cup {Null} /\ e \in S \cup {Null}
  <2>1. CASE p = Null
    BY <2>1 DEF TreeState
  <2>2. CASE p # Null
    <3>1. PICK r : Lowering(t, r, p, e)
      BY <2>2 DEF TreeState
    <3>2. p \in Names /\ t.child[p] # Blank /\ \E s \in Sides : t.child[p][s] = e
      BY <3>1 DEF Lowering, LoweringAt
    <3>3. p \in S
      BY <3>2, <1>4
    <3> QED BY <3>2, <3>3, <1>6
  <2> QED BY <2>1, <2>2
<1>13. ASSUME NEW n \in S
       PROVE  /\ t.up[n] = Null => t.root = n
              /\ t.up[n] # Null => t.child[t.up[n]][Toward(t.up[n], n)] = n
              /\ \A s \in Sides :
                     LET c == t.child[n][s]
                     IN c # Null => t.up[c] = n /\ Toward(n, c) = s
  <2>1. n \in Names
    BY <1>2
  <2>2. t.up[n] = Null => t.root = n
    BY <1>1 DEF Shape, Rooted
  <2>3. t.up[n] # Null => t.child[t.up[n]][Toward(t.up[n], n)] = n
    BY <2>1, <1>1, ParentFacts
  <2>4. \A s \in Sides : t.child[n][s] # Null =>
             t.up[t.child[n][s]] = n /\ Toward(n, t.child[n][s]) = s
    BY <2>1, <1>1, ChildFacts
  <2> QED BY <2>2, <2>3, <2>4
<1> QED BY <1>2, <1>3, <1>4, <1>5, <1>7, <1>8, <1>10, <1>11, <1>12, <1>13 DEF Linking
-----------------------------------------------------------------------------

(* A set of entries has one with no other of the set after it.             *)
LEMMA LastOf ==
  ASSUME NEW S \in SUBSET Nat, IsFiniteSet(S), NEW T \in SUBSET S, T # {}
  PROVE  \E n \in T : \A m \in T : ~(n < m)
<1> DEFINE B == {Above(S, n) : n \in T}
<1>1. IsWellFoundedOn(StrictSubsetOrdering(S), FiniteSubsetsOf(S))
  BY FS_StrictSubsetOrderingWellFounded
<1>2. B \subseteq FiniteSubsetsOf(S) /\ B # {}
  <2>1. \A n \in T : Above(S, n) \subseteq S
    BY DEF Above
  <2>2. \A n \in T : IsFiniteSet(Above(S, n))
    BY <2>1, FS_Subset
  <2> QED BY <2>1, <2>2 DEF FiniteSubsetsOf
<1>3. PICK x \in B : \A y \in B : <<y, x>> \notin StrictSubsetOrdering(S)
  BY <1>1, <1>2, WFMin
<1>4. PICK n \in T : x = Above(S, n)
  BY <1>3
<1>5. ASSUME NEW m \in T, n < m
      PROVE  FALSE
  <2>1. n \in S /\ m \in S /\ n \in Nat /\ m \in Nat
    OBVIOUS
  <2>7. \A y \in S : m < y => n < y
    BY <2>1, <1>5
  <2>2. Above(S, m) \subseteq Above(S, n)
    BY <2>1, <2>7 DEF Above
  <2>3. m \in Above(S, n) /\ m \notin Above(S, m)
    BY <2>1, <1>5 DEF Above
  <2>4. Above(S, m) \in B
    OBVIOUS
  <2>5. Above(S, m) \subseteq S /\ Above(S, n) \subseteq S
    BY DEF Above
  <2> HIDE DEF B
  <2>6. <<Above(S, m), x>> \in StrictSubsetOrdering(S)
    BY <1>4, <2>2, <2>3, <2>5 DEF StrictSubsetOrdering
  <2> QED BY <1>3, <2>4, <2>6
<1> QED BY <1>5

(* The walk through the list from e comes to the entry n if that is e or   *)
(* after it.                                                               *)
Reached(S, e, n) == IF e \in {Null, n} THEN e ELSE IF n \in Above(S, e) THEN n ELSE Null

(* So it does from the next entry.                                         *)
LEMMA ReachedStep ==
  ASSUME NEW S \in SUBSET Names, NEW n \in Names, NEW m \in Names, m # n, NEW x,
         LeastIn(x, Above(S, m))
  PROVE  x \in S \cup {Null} /\ Reached(S, m, n) = Reached(S, x, n)
<1>1. S \subseteq Nat /\ n \in Nat /\ m \in Nat /\ Null \notin Names
  BY TreeAssumption
<1>2. CASE Above(S, m) = {}
  <2>1. x = Null /\ n \notin Above(S, m) /\ m # Null
    BY <1>1, <1>2 DEF LeastIn
  <2> QED BY <2>1 DEF Reached
<1>3. CASE Above(S, m) # {}
  <2>1. x \in Above(S, m) /\ \A y \in Above(S, m) : x <= y
    BY <1>3 DEF LeastIn, Minimum
  <2>2. x \in S /\ m \in S /\ m < x /\ x \in Nat /\ x # Null /\ m # Null
    BY <2>1, <1>1 DEF Above
  <2>3. x = n => n \in Above(S, m)
    BY <2>1
  <2>4. x # n => (n \in Above(S, m) <=> n \in Above(S, x))
    <3>1. x # n /\ n \in Above(S, m) => n \in Above(S, x)
      BY <2>1, <2>2, <1>1 DEF Above
    <3>2. n \in Above(S, x) => n \in Above(S, m)
      BY <2>2, <1>1 DEF Above
    <3> QED BY <3>1, <3>2
  <2> QED BY <2>2, <2>3, <2>4 DEF Reached
<1> QED BY <1>2, <1>3

(* The lookup through the list finds what the walk comes to.               *)
LEMMA ScanFromIs ==
  ASSUME NEW b, Shape(tree, live, b), NEW e \in Nodes, NEW n \in Names
  PROVE  ScanFrom(e, n) = Reached(live, e, n)
<1> DEFINE Rule(f) == f = [m \in Nodes |-> IF m \in {Null, n} THEN m
                                           ELSE f[Successor(tree, m)]]
           scn == CHOOSE f : Rule(f)
           g == [m \in Nodes |-> Reached(live, m, n)]
<1>1. /\ live \subseteq Names /\ IsFiniteSet(live) /\ Null \notin Names
      /\ live \subseteq Nat
  BY TreeAssumption DEF Shape, ShapeType
<1>2. \A m \in Names : LeastIn(Successor(tree, m), Above(live, m))
  BY SuccessorIs
<1>3. \A m \in Names : m # n => /\ Successor(tree, m) \in live \cup {Null}
                                /\ Reached(live, m, n)
                                      = Reached(live, Successor(tree, m), n)
  BY <1>1, <1>2, ReachedStep
<1>4. Rule(g)
  <2>1. ASSUME NEW m \in Nodes
        PROVE  g[m] = IF m \in {Null, n} THEN m ELSE g[Successor(tree, m)]
    <3>1. CASE m \in {Null, n}
      BY <3>1 DEF Reached
    <3>2. CASE m \notin {Null, n}
      <4>1. m \in Names
        BY <3>2 DEF Nodes
      <4>2. Successor(tree, m) \in Nodes
        BY <4>1, <3>2, <1>1, <1>3 DEF Nodes
      <4> QED BY <4>1, <4>2, <3>2, <1>3
    <3> QED BY <3>1, <3>2
  <2> QED BY <2>1
<1>5. Rule(scn)
  <2> HIDE DEF Rule
  <2> QED BY <1>4
<1>6. ScanFrom(e, n) = scn[e]
  BY DEF ScanFrom
<1> HIDE DEF scn
<1>7. scn[Null] = Null /\ scn[n] = n
      /\ \A m \in Names : m # n => scn[m] = scn[Successor(tree, m)]
  BY <1>5, <1>1 DEF Nodes
<1> DEFINE T == {m \in live : scn[m] # Reached(live, m, n)}
<1>8. T = {}
  <2> SUFFICES ASSUME T # {} PROVE FALSE
    OBVIOUS
  <2>1. PICK m \in T : \A y \in T : ~(m < y)
    BY <1>1, LastOf
  <2>2. m # n /\ m \in Names
    BY <2>1, <1>1, <1>7 DEF Reached
  <2>3. Successor(tree, m) \in T
    <3>1. scn[Successor(tree, m)] # Reached(live, Successor(tree, m), n)
      BY <2>1, <2>2, <1>3, <1>7
    <3>2. Successor(tree, m) # Null
      BY <3>1, <1>7 DEF Reached
    <3> QED BY <3>1, <3>2, <2>2, <1>3
  <2>4. m < Successor(tree, m)
    <3>1. Successor(tree, m) # Null
      BY <2>3, <1>1
    <3> QED BY <3>1, <2>2, <1>2 DEF LeastIn, Minimum, Above
  <2> QED BY <2>1, <2>3, <2>4
<1>9. \A m \in live \cup {Null} : scn[m] = Reached(live, m, n)
  BY <1>7, <1>8 DEF Reached
<1>10. CASE e \in {Null, n}
  BY <1>6, <1>7, <1>10 DEF Reached
<1>11. CASE e \notin {Null, n}
  <2>1. e \in Names
    BY <1>11 DEF Nodes
  <2> QED BY <2>1, <1>3, <1>6, <1>7, <1>9, <1>11
<1> QED BY <1>10, <1>11

(* Both lookups find what is there, and nothing else.                      *)
LEMMA LookupFacts ==
  ASSUME NEW b, Shape(tree, live, b), NEW n \in Names
  PROVE  LET there == IF n \in live THEN n ELSE Null
         IN /\ Find(tree, n) = there
            /\ ScanFrom(First(tree), n) = there
            /\ GetByName(First(tree), n) = there
<1>1. /\ live \subseteq Names /\ live = b[tree.root] /\ tree.root \in Nodes
      /\ Null \notin Names
      /\ live \subseteq Nat /\ n \in Nat
  BY TreeAssumption, FieldTypes DEF Shape, ShapeType, Rooted
<1>2. Find(tree, n) = IF n \in live THEN n ELSE Null
  BY <1>1, FindFromIs DEF Find
<1>3. LeastIn(First(tree), live)
  BY FirstIs
<1>4. CASE live = {}
  <2>1. First(tree) = Null
    BY <1>3, <1>4 DEF LeastIn
  <2>2. ScanFrom(Null, n) = Null
    BY ScanFromIs DEF Reached, Nodes
  <2> QED BY <2>1, <2>2, <1>2, <1>4 DEF GetByName
<1>5. CASE live # {}
  <2> DEFINE x == First(tree)
  <2>1. x \in live /\ \A m \in live : x <= m
    BY <1>3, <1>5 DEF LeastIn, Minimum
  <2> HIDE DEF x
  <2>2. x # Null /\ x \in Nodes /\ x \in Nat
    BY <2>1, <1>1 DEF Nodes
  <2>3. ScanFrom(x, n) = Reached(live, x, n)
    BY <2>2, ScanFromIs
  <2>4. x # n => (n \in Above(live, x) <=> n \in live)
    BY <2>1, <2>2, <1>1 DEF Above
  <2>5. ScanFrom(x, n) = IF n \in live THEN n ELSE Null
    BY <2>1, <2>2, <2>3, <2>4 DEF Reached
  <2>6. GetByName(x, n) = Find(tree, n)
    BY <2>2 DEF GetByName
  <2> QED BY <2>5, <2>6, <1>2 DEF x
<1> QED BY <1>4, <1>5
-----------------------------------------------------------------------------

(* The inductive invariant. The tree is one of the entries of the list,    *)
(* and no rank is left to restore but where a turn is under way.           *)
TreeInv == TreeState(tree, live, raise, parent, elm)

(* What the list holds, and what an insertion has still to put there.      *)
Entries == live \cup ({adding} \ {Null})

(* udev_list_free is at the first entry of what is left, and no iteration  *)
(* is under way; an iteration is at an entry that is there, and what it    *)
(* has still to give is there and comes after it.                          *)
ListInv ==
    /\ adding \in (Names \ live) \cup {Null}
    /\ walk # Null => LeastIn(walk, live) /\ adding = Null /\ cursor = Null
    /\ cursor \in live \cup {Null} /\ stale = FALSE
    /\ missed \subseteq Entries /\ (cursor = Null => missed = {})
    /\ \A m \in missed : cursor < m

(* What the providers before k have to show.                               *)
Before(k) == UNION {Providers[i] : i \in 1..(k - 1)}

(* What the scan has come past.                                            *)
Shown == Before(at) \cup (Providers[at] \ todo)

(* While a scan runs the list holds what is accepted of that, once it has  *)
(* been emptied; while it is being emptied nothing has been shown yet.     *)
ScanInv ==
    /\ ScanTypeOK /\ owner \in {"none", "enumerate", "making", "device"}
    /\ at > 0 => owner = "enumerate" /\ cursor = Null /\ todo \subseteq Providers[at]
    /\ at > 0 /\ walk # Null => at = 1 /\ todo = Providers[1]
    /\ at > 0 /\ walk = Null => Entries = Accepted \cap Shown
    /\ owner # "enumerate" => ret = 1
    /\ owner \in {"none", "making"} => cursor = Null
    /\ at = 0 /\ ret = -1 => adding = Null /\ (walk = Null => live = {})
    /\ at = 0 /\ ret = 0 => /\ adding = Null /\ walk = Null
                            /\ live = Accepted \cap UNION Range(Providers)

(* All of it.                                                              *)
Inv == TreeInv /\ ListInv /\ ScanInv

(* What the operations of the list find, by the invariant.                 *)
LEMMA TreeInvFacts ==
  ASSUME TreeInv
  PROVE  /\ live \subseteq Names /\ live \subseteq Nat /\ Null \notin Names
         /\ Settled => parent = Null /\ raise = Null /\ elm = Null
                       /\ TreeState(tree, live, Null, Null, Null)
         /\ LeastIn(First(tree), live)
         /\ \A n \in Names : /\ LeastIn(Successor(tree, n), Above(live, n))
                             /\ Find(tree, n) = IF n \in live THEN n ELSE Null
                             /\ ScanFrom(First(tree), n) = IF n \in live THEN n
                                                           ELSE Null
                             /\ GetByName(First(tree), n) = IF n \in live THEN n
                                                            ELSE Null
<1>1. PICK b : Shape(tree, live, b)
  BY DEF TreeInv, TreeState
<1>2. live \subseteq Names /\ Null \notin Names /\ live \subseteq Nat
  BY <1>1, TreeAssumption DEF Shape, ShapeType
<1>3. Settled => parent = Null /\ raise = Null /\ elm = Null
                 /\ TreeState(tree, live, Null, Null, Null)
  <2>1. Settled => parent = Null /\ raise = Null
    BY DEF Settled
  <2>2. parent = Null => elm = Null
    BY Zenon DEF TreeInv, TreeState
  <2> QED BY <2>1, <2>2 DEF TreeInv
<1>4. LeastIn(First(tree), live)
  BY <1>1, FirstIs
<1>5. \A n \in Names : LeastIn(Successor(tree, n), Above(live, n))
  BY <1>1, SuccessorIs
<1>6. \A n \in Names : /\ Find(tree, n) = IF n \in live THEN n ELSE Null
                       /\ ScanFrom(First(tree), n) = IF n \in live THEN n ELSE Null
                       /\ GetByName(First(tree), n) = IF n \in live THEN n ELSE Null
  BY <1>1, LookupFacts
<1> QED BY <1>2, <1>3, <1>4, <1>5, <1>6

(* A step that leaves the tree alone keeps it.                             *)
LEMMA TreeUnchanged ==
  ASSUME TreeInv, UNCHANGED <<treeVars, live>>
  PROVE  TreeInv'
<1>1. tree' = tree /\ raise' = raise /\ parent' = parent /\ elm' = elm /\ live' = live
  BY DEF treeVars
<1> QED BY <1>1 DEF TreeInv

(* udev_list_insert, of another name than the iteration is at.             *)
LEMMA ListInsertKeeps ==
  ASSUME TreeInv, ListInv, Idle, NEW n \in Names, n # cursor, ListInsert(n)
  PROVE  /\ TreeInv' /\ ListInv' /\ Entries' = Entries \cup {n} /\ Entries = live
         /\ adding' = n /\ UNCHANGED <<walk, cursor, missed>>
<1>1. Settled /\ adding = Null /\ walk = Null
  BY DEF Idle
<1>2. /\ live \subseteq Names /\ Null \notin Names
      /\ raise = Null /\ TreeState(tree, live, Null, Null, Null)
      /\ Find(tree, n) = IF n \in live THEN n ELSE Null
  BY <1>1, TreeInvFacts
<1>3. adding' = n /\ walk' = walk /\ cursor' = cursor /\ missed' = missed /\ n # Null
  BY <1>2 DEF ListInsert
<1>4. TreeInv' /\ live' = live \ {n} /\ stale' = FALSE
  <2>1. CASE n \notin live
    <3>1. UNCHANGED <<treeVars, live, stale>>
      BY <2>1, <1>2 DEF ListInsert
    <3>2. TreeInv'
      BY <3>1, TreeUnchanged
    <3> QED BY <3>1, <3>2, <2>1 DEF ListInv
  <2>2. CASE n \in live
    <3>1. Remove(n) /\ Freed(n)
      BY <2>2, <1>2, <1>3 DEF ListInsert
    <3> DEFINE out == Removed(tree, n)
    <3>2. /\ tree' = out.tree /\ parent' = out.parent /\ elm' = out.elm
          /\ raise' = raise
          /\ live' = live \ {n} /\ stale' = (stale \/ cursor = n)
      BY <3>1 DEF Remove, Becomes, Freed
    <3>3. TreeState(out.tree, live \ {n}, Null, out.parent, out.elm)
      BY <2>2, <1>2, RemovedState
    <3> HIDE DEF out
    <3>4. TreeInv'
      BY <3>2, <3>3, <1>2 DEF TreeInv
    <3>5. stale' = FALSE
      BY <3>2 DEF ListInv
    <3> QED BY <3>2, <3>4, <3>5
  <2> QED BY <2>1, <2>2
<1>5. Entries = live /\ Entries' = Entries \cup {n}
  BY <1>1, <1>3, <1>4 DEF Entries
<1>6. cursor \in live \cup {Null} /\ missed \subseteq Entries
      /\ (cursor = Null => missed = {}) /\ \A m \in missed : cursor < m
  BY DEF ListInv
<1>7. ListInv'
  BY <1>1, <1>3, <1>4, <1>5, <1>6 DEF ListInv
<1> QED BY <1>3, <1>4, <1>5, <1>7

(* Its second half: RB_INSERT.                                             *)
LEMMA EnterKeeps ==
  ASSUME TreeInv, ListInv, Enter
  PROVE  /\ TreeInv' /\ ListInv' /\ Entries' = Entries /\ adding # Null
         /\ adding' = Null
         /\ UNCHANGED <<walk, iteration>>
<1>1. Settled /\ adding # Null /\ Insert(adding) /\ live' = live \cup {adding}
      /\ adding' = Null /\ UNCHANGED <<walk, iteration>>
  BY DEF Enter
<1>2. adding \in Names \ live /\ walk = Null
  BY <1>1 DEF ListInv
<1>3. /\ parent = Null /\ elm = Null /\ TreeState(tree, live, Null, Null, Null)
      /\ Find(tree, adding) = Null
  BY <1>1, <1>2, TreeInvFacts
<1>4. tree' = Link(tree, adding) /\ raise' = adding /\ parent' = Null /\ elm' = Null
  BY <1>1, <1>3 DEF Insert
<1>5. TreeState(Link(tree, adding), live \cup {adding}, adding, Null, Null)
  BY <1>2, <1>3, LinkState
<1>6. TreeInv'
  BY <1>1, <1>4, <1>5 DEF TreeInv
<1>7. Entries' = Entries
  BY <1>1 DEF Entries
<1>8. walk' = walk /\ cursor' = cursor /\ missed' = missed /\ stale' = stale
  BY <1>1 DEF iteration
<1>9. ListInv'
  BY <1>1, <1>2, <1>7, <1>8 DEF ListInv
<1> QED BY <1>1, <1>6, <1>7, <1>9

(* RB_INSERT_COLOR and RB_REMOVE_COLOR.                                    *)
LEMMA RecolorKeeps ==
  ASSUME TreeInv, ListInv, Recolor
  PROVE  /\ TreeInv' /\ ListInv' /\ Entries' = Entries
         /\ UNCHANGED <<live, adding, walk, iteration>>
<1>1. UNCHANGED <<live, adding, walk, iteration>>
  BY DEF Recolor
<1>2. Entries' = Entries /\ ListInv'
  BY <1>1 DEF ListInv, Entries, iteration
<1>3. CASE InsertColor
  <2>1. /\ raise # Null /\ tree' = Raised(tree, raise)
        /\ raise' = (IF Promotes(tree, raise) THEN tree.up[raise] ELSE Null)
        /\ parent' = parent /\ elm' = elm
    BY <1>3 DEF InsertColor
  <2>2. TreeState(Raised(tree, raise), live,
                  IF Promotes(tree, raise) THEN tree.up[raise] ELSE Null, parent, elm)
    BY <2>1, RaisedState DEF TreeInv
  <2>3. TreeInv'
    BY <2>1, <2>2, <1>1 DEF TreeInv
  <2> QED BY <2>3, <1>1, <1>2
<1>4. CASE RemoveColor
  <2> DEFINE out == Lowered(tree, parent, elm)
  <2>1. /\ parent # Null /\ tree' = out.tree /\ parent' = out.parent /\ elm' = out.elm
        /\ raise' = raise
    BY <1>4 DEF RemoveColor, Becomes
  <2>2. TreeState(out.tree, live, raise, out.parent, out.elm)
    BY <2>1, LoweredState DEF TreeInv
  <2> HIDE DEF out
  <2>3. TreeInv'
    BY <2>1, <2>2, <1>1 DEF TreeInv
  <2> QED BY <2>3, <1>1, <1>2
<1> QED BY <1>3, <1>4 DEF Recolor

(* One entry of udev_list_free: it is the first, and the next one is the   *)
(* first then, although it has been looked for in the tree as it was       *)
(* before.                                                                 *)
LEMMA FreeEntryKeeps ==
  ASSUME TreeInv, ListInv, FreeEntry
  PROVE  /\ TreeInv' /\ ListInv' /\ adding = Null /\ cursor = Null /\ live # {}
         /\ LeastIn(walk, live) /\ live' = live \ {walk} /\ (walk' = Null => live' = {})
         /\ UNCHANGED <<adding, cursor, missed>>
<1> DEFINE next == Successor(tree, walk)
           out == Removed(tree, walk)
           u == IF next = Null THEN EmptyTree ELSE out.tree
<1>1. /\ Settled /\ walk # Null /\ walk' = next
      /\ UNCHANGED <<raise, adding, cursor, missed>>
      /\ Becomes([out EXCEPT !.tree = IF walk' = Null THEN EmptyTree ELSE @])
      /\ live' = live \ {walk} /\ stale' = (stale \/ cursor = walk)
  BY DEF FreeEntry, Freed
<1>2. /\ LeastIn(walk, live) /\ adding = Null /\ cursor = Null /\ missed = {}
      /\ stale = FALSE
  BY <1>1 DEF ListInv
<1>3. live # {} /\ walk \in live /\ \A m \in live : walk <= m
  BY <1>1, <1>2 DEF LeastIn, Minimum
<1>4. /\ live \subseteq Names /\ live \subseteq Nat /\ Null \notin Names
      /\ TreeState(tree, live, Null, Null, Null) /\ raise = Null
      /\ LeastIn(next, Above(live, walk))
  BY <1>1, <1>3, TreeInvFacts
<1>5. Above(live, walk) = live \ {walk}
  <2>1. \A m \in live : m # walk <=> walk < m
    BY <1>3, <1>4
  <2> QED BY <2>1, <1>3 DEF Above
<1>6. LeastIn(next, live') /\ (next = Null => live' = {})
  <2>1. Null \notin live
    BY <1>4
  <2> HIDE DEF next
  <2> QED BY <2>1, <1>1, <1>4, <1>5 DEF LeastIn, Minimum
<1>7. TreeState(out.tree, live \ {walk}, Null, out.parent, out.elm)
  BY <1>3, <1>4, RemovedState
<1>8. tree' = u /\ parent' = out.parent /\ elm' = out.elm
  <2>1. \E t, p, e : out = LostAt(t, p, e)
    <3>1. \A t, p, e : \E w, q, f : LowerLeaf(t, p, e) = LostAt(w, q, f)
      BY DEF LowerLeaf
    <3>2. \E t, p, e : out = LowerLeaf(t, p, e)
      BY DEF Removed
    <3> HIDE DEF out
    <3> QED BY <3>1, <3>2
  <2> HIDE DEF out, next
  <2> QED BY <2>1, <1>1 DEF Becomes, LostAt
<1> HIDE DEF out, next
<1>9. TreeInv'
  <2>1. CASE next = Null
    <3>1. live \ {walk} = {}
      BY <2>1, <1>1, <1>6
    <3>2. out.parent = Null /\ out.elm = Null
      BY <3>1, <1>7, EmptyState
    <3>3. /\ tree' = EmptyTree /\ raise' = Null /\ parent' = Null /\ elm' = Null
          /\ live' = {}
      BY <2>1, <3>1, <3>2, <1>1, <1>4, <1>8
    <3> QED BY <3>3, EmptyState DEF TreeInv
  <2>2. CASE next # Null
    <3>1. tree' = out.tree /\ raise' = Null
      BY <2>2, <1>1, <1>4, <1>8
    <3> QED BY <3>1, <1>1, <1>7, <1>8 DEF TreeInv
  <2> QED BY <2>1, <2>2
<1>10. stale' = FALSE
  BY <1>1, <1>2
<1>11. ListInv'
  BY <1>1, <1>2, <1>6, <1>10 DEF ListInv
<1> QED BY <1>1, <1>2, <1>3, <1>6, <1>9, <1>11

(* udev_list_free begins at the first entry.                               *)
LEMMA ListFreeKeeps ==
  ASSUME TreeInv, ListInv, Idle, cursor = Null, ListFree,
         UNCHANGED <<entries, iteration>>
  PROVE  /\ TreeInv' /\ ListInv' /\ adding = Null /\ (walk' = Null => live = {})
         /\ UNCHANGED <<live, adding, cursor>>
<1>1. /\ live' = live /\ adding' = adding /\ cursor' = cursor /\ missed' = missed
      /\ stale' = stale /\ adding = Null /\ walk' = First(tree) /\ UNCHANGED treeVars
  BY DEF entries, iteration, Idle, ListFree
<1>2. TreeInv'
  BY <1>1, TreeUnchanged
<1>3. LeastIn(walk', live) /\ live \subseteq Names /\ Null \notin Names
  BY <1>1, TreeInvFacts
<1>4. walk' = Null => live = {}
  BY <1>3 DEF LeastIn, Minimum
<1>5. Entries' = Entries
  BY <1>1 DEF Entries
<1>6. ListInv'
  BY <1>1, <1>3, <1>5 DEF ListInv
<1> QED BY <1>1, <1>2, <1>4, <1>6

(* The iteration: nothing it has still to give comes before where it is.   *)
LEMMA GetKeeps ==
  ASSUME TreeInv, ListInv, GetFirst \/ GetNext
  PROVE  TreeInv' /\ ListInv' /\ UNCHANGED <<live, adding, walk>> /\ Idle
<1>1. Idle /\ UNCHANGED <<entries, walk, stale>>
  BY DEF GetFirst, GetNext
<1>2. /\ live' = live /\ adding' = adding /\ walk' = walk /\ stale' = stale
      /\ adding = Null /\ walk = Null /\ UNCHANGED treeVars
  BY <1>1 DEF entries, Idle
<1>3. TreeInv'
  BY <1>2, TreeUnchanged
<1>4. Entries = live /\ Entries' = live
  BY <1>2 DEF Entries
<1>5. /\ live \subseteq Names /\ live \subseteq Nat /\ Null \notin Names
      /\ LeastIn(First(tree), live)
      /\ \A n \in Names : LeastIn(Successor(tree, n), Above(live, n))
  BY TreeInvFacts
<1>6. cursor \in live \cup {Null} /\ stale = FALSE /\ missed \subseteq live
      /\ \A m \in missed : cursor < m
  BY <1>4 DEF ListInv
<1>7. CASE GetFirst
  <2>1. LeastIn(cursor', live) /\ missed' = live \ {cursor'}
    BY <1>5, <1>7 DEF GetFirst
  <2>2. CASE live = {}
    <3>1. cursor' = Null /\ missed' = {}
      BY <2>1, <2>2 DEF LeastIn
    <3> QED BY <3>1, <1>1, <1>2, <1>3, <1>4, <1>6 DEF ListInv
  <2>3. CASE live # {}
    <3>1. cursor' \in live /\ \A m \in live : cursor' <= m
      BY <2>1, <2>3 DEF LeastIn, Minimum
    <3>2. \A m \in missed' : cursor' < m
      BY <2>1, <3>1, <1>5
    <3>3. cursor' # Null
      BY <3>1, <1>5
    <3> QED BY <2>1, <3>1, <3>2, <3>3, <1>1, <1>2, <1>3, <1>4, <1>6 DEF ListInv
  <2> QED BY <2>2, <2>3, <1>1, <1>2, <1>3
<1>8. CASE GetNext
  <2>1. /\ cursor # Null /\ cursor' = Successor(tree, cursor)
        /\ missed' = missed \ {cursor'}
    BY <1>8 DEF GetNext
  <2>2. cursor \in live /\ cursor \in Names
    BY <2>1, <1>5, <1>6
  <2>3. LeastIn(cursor', Above(live, cursor))
    BY <2>1, <2>2, <1>5
  <2>4. missed \subseteq Above(live, cursor)
    BY <2>2, <1>6 DEF Above
  <2>5. CASE Above(live, cursor) = {}
    <3>1. cursor' = Null /\ missed' = {}
      BY <2>1, <2>3, <2>4, <2>5 DEF LeastIn
    <3> QED BY <3>1, <1>1, <1>2, <1>3, <1>4, <1>6 DEF ListInv
  <2>6. CASE Above(live, cursor) # {}
    <3>1. cursor' \in Above(live, cursor) /\ \A m \in Above(live, cursor) : cursor' <= m
      BY <2>3, <2>6 DEF LeastIn, Minimum
    <3>2. cursor' \in live /\ Above(live, cursor) \subseteq live
      BY <3>1 DEF Above
    <3>3. \A m \in missed' : cursor' < m
      BY <2>1, <2>4, <3>1, <3>2, <1>5
    <3>4. cursor' # Null /\ missed' \subseteq live
      BY <2>1, <3>2, <1>5, <1>6
    <3> QED BY <3>2, <3>3, <3>4, <1>1, <1>2, <1>3, <1>4, <1>6 DEF ListInv
  <2> QED BY <2>5, <2>6
<1> QED BY <1>7, <1>8
-----------------------------------------------------------------------------

(* The providers, and what those before each of them have to show.         *)
LEMMA ProviderFacts ==
  /\ Len(Providers) \in Nat /\ Len(Providers) > 0
  /\ \A i \in 1..Len(Providers) : Providers[i] \subseteq Names
  /\ Before(1) = {}
  /\ \A k \in 1..Len(Providers) : Before(k + 1) = Before(k) \cup Providers[k]
  /\ UNION Range(Providers) = Before(Len(Providers) + 1)
<1>1. Providers \in Seq(SUBSET Names) /\ Providers # <<>>
  BY EnumerateAssumption
<1>2. /\ Len(Providers) \in Nat /\ Len(Providers) > 0
      /\ DOMAIN Providers = 1..Len(Providers)
      /\ \A i \in 1..Len(Providers) : Providers[i] \in SUBSET Names
  BY <1>1
<1>3. Before(1) = {}
  BY DEF Before
<1>4. ASSUME NEW k \in 1..Len(Providers)
      PROVE  Before(k + 1) = Before(k) \cup Providers[k]
  <2>1. /\ \A x : x \in Before(k + 1) <=> \E i \in 1..k : x \in Providers[i]
        /\ \A x : x \in Before(k) <=> \E i \in 1..(k - 1) : x \in Providers[i]
    <3>1. (k + 1) - 1 = k
      BY <1>2
    <3> QED BY <3>1 DEF Before
  <2>2. \A i : i \in 1..k <=> i \in 1..(k - 1) \/ i = k
    BY <1>2
  <2> QED BY <2>1, <2>2
<1>5. UNION Range(Providers) = Before(Len(Providers) + 1)
  <2>1. (Len(Providers) + 1) - 1 = Len(Providers)
    BY <1>2
  <2> QED BY <2>1, <1>2 DEF Range, Before
<1> QED BY <1>2, <1>3, <1>4, <1>5

(* A step that leaves the list alone keeps its invariants.                 *)
LEMMA ListUnchanged ==
  ASSUME TreeInv, ListInv, UNCHANGED listVars
  PROVE  /\ TreeInv' /\ ListInv' /\ Entries' = Entries
         /\ UNCHANGED <<live, adding, walk, cursor>>
<1>1. /\ live' = live /\ adding' = adding /\ walk' = walk /\ cursor' = cursor
      /\ missed' = missed /\ stale' = stale /\ UNCHANGED treeVars
  BY DEF listVars, entries, iteration
<1>2. TreeInv'
  BY <1>1, TreeUnchanged
<1>3. Entries' = Entries
  BY <1>1 DEF Entries
<1>4. ListInv'
  BY <1>1, <1>3 DEF ListInv
<1> QED BY <1>1, <1>2, <1>3, <1>4

(* Parts of ScanInv for the lemmas below.                                  *)
LEMMA ScanFacts ==
  ASSUME ScanInv
  PROVE  /\ at \in 0..Len(Providers) /\ at \in Nat /\ todo \subseteq Names
         /\ owner # "enumerate" => at = 0 /\ ret = 1
         /\ owner \in {"none", "making"} => cursor = Null
         /\ at > 0
               => owner = "enumerate" /\ cursor = Null /\ todo \subseteq Providers[at]
BY ProviderFacts DEF ScanInv, ScanTypeOK

(* When no scan runs and none has run since the list was changed, there is *)
(* nothing to say of it.                                                   *)
LEMMA NoScan ==
  ASSUME at' = 0, ret' = 1, todo' \subseteq Names,
         owner' \in {"none", "enumerate", "making", "device"},
         owner' \in {"none", "making"} => cursor' = Null
  PROVE  ScanInv'
<1>1. 0 \in 0..Len(Providers)
  BY ProviderFacts
<1> QED BY <1>1 DEF ScanInv, ScanTypeOK

(* Inv holds initially.                                                    *)
LEMMA InitInv == Init => Inv
<1> SUFFICES ASSUME Init PROVE Inv
  OBVIOUS
<1>1. /\ tree = EmptyTree /\ raise = Null /\ parent = Null /\ elm = Null /\ live = {}
      /\ adding = Null /\ walk = Null /\ cursor = Null /\ missed = {} /\ stale = FALSE
      /\ at = 0 /\ todo = {} /\ ret = 1 /\ owner = "none"
  BY DEF Init, ListInit, ScanInit
<1>2. TreeInv
  BY <1>1, EmptyState DEF TreeInv
<1>3. ListInv
  BY <1>1 DEF ListInv, Entries
<1>4. ScanInv
  <2>1. 0 \in 0..Len(Providers)
    BY ProviderFacts
  <2> QED BY <1>1, <2>1 DEF ScanInv, ScanTypeOK
<1> QED BY <1>2, <1>3, <1>4 DEF Inv

(* An owner comes to have a list, or is handed out.                        *)
LEMMA NewOwnerInv == Inv /\ (NewOwner \/ HandOut) => Inv'
<1> SUFFICES ASSUME Inv, NewOwner \/ HandOut PROVE Inv'
  OBVIOUS
<1>1. TreeInv /\ ListInv /\ ScanInv
  BY DEF Inv
<1>2. UNCHANGED listVars /\ at' = at /\ todo' = todo /\ ret' = ret
      /\ owner \in {"none", "making"} /\ owner' \in {"enumerate", "making", "device"}
  BY DEF NewOwner, HandOut, scan
<1>3. TreeInv' /\ ListInv' /\ cursor' = cursor
  BY <1>1, <1>2, ListUnchanged
<1>4. at = 0 /\ ret = 1 /\ cursor = Null /\ todo \subseteq Names
  BY <1>1, <1>2, ScanFacts
<1>5. ScanInv'
  BY <1>2, <1>3, <1>4, NoScan
<1> QED BY <1>3, <1>5 DEF Inv

(* It is given back, and the list is freed.                                *)
LEMMA UnrefInv == Inv /\ Unref => Inv'
<1> SUFFICES ASSUME Inv, Unref PROVE Inv'
  OBVIOUS
<1>1. TreeInv /\ ListInv /\ ScanInv
  BY DEF Inv
<1>2. /\ Idle /\ cursor = Null /\ ListFree /\ UNCHANGED <<entries, iteration>>
      /\ at = 0 /\ at' = at /\ todo' = todo /\ ret' = 1 /\ owner' = "none"
  BY DEF Unref
<1>3. TreeInv' /\ ListInv' /\ cursor' = cursor
  BY <1>1, <1>2, ListFreeKeeps
<1>4. todo \subseteq Names
  BY <1>1, ScanFacts
<1>5. ScanInv'
  BY <1>2, <1>3, <1>4, NoScan
<1> QED BY <1>3, <1>5 DEF Inv

(* A device's list never takes in again the name the iteration is at.      *)
LEMMA OtherEntry ==
  ASSUME TreeInv, ListInv, ScanInv, NEW n \in Names, Describe(n) \/ SetSysattrValue(n)
  PROVE  n # cursor
<1>1. CASE Describe(n)
  <2>1. owner = "making"
    BY <1>1 DEF Describe
  <2> QED BY <2>1, ScanFacts, TreeAssumption
<1>2. CASE SetSysattrValue(n)
  <2>1. ScanFrom(First(tree), n) = Null
    BY <1>2 DEF SetSysattrValue
  <2>2. n \notin live
    BY <2>1, TreeInvFacts
  <2>3. cursor \in live \cup {Null}
    BY DEF ListInv
  <2> QED BY <2>2, <2>3, TreeAssumption
<1> QED BY <1>1, <1>2

(* The changes of a device's list.                                         *)
LEMMA DescribeInv ==
  ASSUME Inv, NEW n \in Names, Describe(n) \/ SetSysattrValue(n)
  PROVE  Inv'
<1>1. TreeInv /\ ListInv /\ ScanInv
  BY DEF Inv
<1>2. /\ Idle /\ ListInsert(n) /\ at' = at /\ todo' = todo /\ ret' = ret
      /\ owner' = owner
      /\ owner \in {"making", "device"}
  BY DEF Describe, SetSysattrValue, scan
<1>3. at = 0 /\ ret = 1 /\ todo \subseteq Names /\ (owner = "making" => cursor = Null)
  BY <1>1, <1>2, ScanFacts
<1>4. n # cursor
  BY <1>1, OtherEntry
<1>5. TreeInv' /\ ListInv' /\ cursor' = cursor
  BY <1>1, <1>2, <1>4, ListInsertKeeps
<1>6. ScanInv'
  BY <1>2, <1>3, <1>5, NoScan
<1> QED BY <1>5, <1>6 DEF Inv

(* A scan begins, or fails: in both cases the list is emptied.             *)
LEMMA ScanStartInv ==
  Inv /\ owner = "enumerate" /\ UNCHANGED owner /\ (Scan \/ ScanFails) => Inv'
<1> SUFFICES ASSUME Inv, owner = "enumerate", UNCHANGED owner, Scan \/ ScanFails
             PROVE  Inv'
  OBVIOUS
<1>1. TreeInv /\ ListInv /\ ScanInv
  BY DEF Inv
<1>2. Idle /\ ListFree /\ UNCHANGED <<entries, iteration>>
  BY DEF Scan, ScanFails
<1>3. cursor = Null
  <2>1. CASE Scan
    BY <2>1 DEF Scan
  <2>2. CASE ScanFails
    BY <2>2, <1>1, ScanFacts DEF ScanFails
  <2> QED BY <2>1, <2>2
<1>4. /\ TreeInv' /\ ListInv' /\ adding = Null /\ (walk' = Null => live = {})
      /\ live' = live /\ adding' = adding /\ cursor' = cursor
  BY <1>1, <1>2, <1>3, ListFreeKeeps
<1>5. CASE Scan
  <2>1. at' = 1 /\ todo' = Providers[1] /\ ret' = ret
    BY <1>5 DEF Scan, Provide
  <2>2. Shown' = {}
    BY <2>1, ProviderFacts DEF Shown
  <2>3. walk' = Null => Entries' = {}
    BY <1>4 DEF Entries
  <2>4. 1 \in 0..Len(Providers) /\ Providers[1] \subseteq Names
    BY ProviderFacts
  <2>5. ret \in {-1, 0, 1}
    BY <1>1 DEF ScanInv, ScanTypeOK
  <2>6. ScanInv'
    BY <2>1, <2>2, <2>3, <2>4, <2>5, <1>3, <1>4 DEF ScanInv, ScanTypeOK
  <2> QED BY <2>6, <1>4 DEF Inv
<1>6. CASE ScanFails
  <2>1. at' = 0 /\ todo' = {} /\ ret' = -1
    BY <1>6 DEF ScanFails
  <2>2. 0 \in 0..Len(Providers)
    BY ProviderFacts
  <2>3. ScanInv'
    BY <2>1, <2>2, <1>4 DEF ScanInv, ScanTypeOK
  <2> QED BY <2>3, <1>4 DEF Inv
<1> QED BY <1>5, <1>6

(* A provider shows a path.                                                *)
LEMMA ShowInv ==
  ASSUME Inv, owner = "enumerate", UNCHANGED owner, NEW p \in Names,
         Skip(p) \/ AddDevice(p)
  PROVE  Inv'
<1>1. TreeInv /\ ListInv /\ ScanInv
  BY DEF Inv
<1>2. /\ Idle /\ at > 0 /\ p \in todo /\ todo' = todo \ {p} /\ at' = at /\ ret' = ret
  BY DEF Skip, AddDevice
<1>3. /\ at \in 1..Len(Providers) /\ at \in Nat /\ at # 0 /\ cursor = Null
      /\ todo \subseteq Names
      /\ todo \subseteq Providers[at] /\ walk = Null /\ adding = Null
  BY <1>1, <1>2, ScanFacts DEF Idle
<1>4. /\ Entries = Accepted \cap Shown /\ ret \in {-1, 0, 1} /\ at \in 0..Len(Providers)
  BY <1>1, <1>2, <1>3 DEF ScanInv, ScanTypeOK
<1>5. Shown' = Shown \cup {p}
  <2>1. Providers[at] \ todo' = (Providers[at] \ todo) \cup {p}
    BY <1>2, <1>3
  <2> QED BY <2>1, <1>2 DEF Shown
<1>6. /\ TreeInv' /\ ListInv' /\ walk' = Null /\ cursor' = Null
      /\ Entries' = Accepted \cap Shown'
  <2>1. CASE Skip(p)
    <3>1. p \notin Accepted /\ UNCHANGED listVars
      BY <2>1 DEF Skip
    <3>2. TreeInv' /\ ListInv' /\ Entries' = Entries /\ walk' = walk /\ cursor' = cursor
      BY <3>1, <1>1, ListUnchanged
    <3> QED BY <3>1, <3>2, <1>3, <1>4, <1>5
  <2>2. CASE AddDevice(p)
    <3>1. p \in Accepted /\ ListInsert(p)
      BY <2>2 DEF AddDevice
    <3>2. p # cursor
      BY <1>3, TreeAssumption
    <3>3. /\ TreeInv' /\ ListInv' /\ Entries' = Entries \cup {p} /\ walk' = walk
          /\ cursor' = cursor
      BY <3>1, <3>2, <1>1, <1>2, ListInsertKeeps
    <3> QED BY <3>1, <3>3, <1>3, <1>4, <1>5
  <2> QED BY <2>1, <2>2
<1>7. ScanInv'
  BY <1>2, <1>3, <1>4, <1>6 DEF ScanInv, ScanTypeOK
<1> QED BY <1>6, <1>7 DEF Inv

(* A provider has shown all: the next one begins, or the scan is done.     *)
LEMMA EndProviderInv ==
  Inv /\ owner = "enumerate" /\ UNCHANGED owner /\ EndProvider => Inv'
<1> SUFFICES ASSUME Inv, owner = "enumerate", UNCHANGED owner, EndProvider PROVE Inv'
  OBVIOUS
<1>1. TreeInv /\ ListInv /\ ScanInv
  BY DEF Inv
<1>2. Idle /\ at > 0 /\ todo = {} /\ UNCHANGED listVars
  BY DEF EndProvider
<1>3. /\ at \in 1..Len(Providers) /\ at \in Nat /\ cursor = Null /\ walk = Null
      /\ adding = Null
      /\ Len(Providers) \in Nat
  BY <1>1, <1>2, ScanFacts, ProviderFacts DEF Idle
<1>4. Entries = Accepted \cap Shown /\ Entries = live /\ ret \in {-1, 0, 1}
  BY <1>1, <1>2, <1>3 DEF ScanInv, ScanTypeOK, Entries
<1>5. Shown = Before(at + 1)
  BY <1>2, <1>3, ProviderFacts DEF Shown
<1>6. /\ TreeInv' /\ ListInv' /\ Entries' = Entries /\ live' = live /\ adding' = adding
      /\ walk' = walk /\ cursor' = cursor
  BY <1>1, <1>2, ListUnchanged
<1>7. CASE at < Len(Providers)
  <2>1. at' = at + 1 /\ todo' = Providers[at + 1] /\ ret' = ret
    BY <1>7 DEF EndProvider, Provide
  <2>2. at + 1 \in 1..Len(Providers) /\ at + 1 > 0 /\ (at + 1) - 1 = at
    BY <1>3, <1>7
  <2>3. Shown' = Shown
    BY <2>1, <2>2, <1>5 DEF Shown
  <2>4. Providers[at + 1] \subseteq Names
    BY <2>2, ProviderFacts
  <2>5. ScanInv'
    BY <2>1, <2>2, <2>3, <2>4, <1>3, <1>4, <1>6 DEF ScanInv, ScanTypeOK
  <2> QED BY <2>5, <1>6 DEF Inv
<1>8. CASE ~(at < Len(Providers))
  <2>1. at' = 0 /\ todo' = {} /\ ret' = 0
    BY <1>8 DEF EndProvider
  <2>2. at = Len(Providers)
    BY <1>3, <1>8
  <2>3. live' = Accepted \cap UNION Range(Providers)
    BY <2>2, <1>4, <1>5, <1>6, ProviderFacts
  <2>4. 0 \in 0..Len(Providers)
    BY <1>3
  <2>5. ScanInv'
    BY <2>1, <2>3, <2>4, <1>3, <1>6 DEF ScanInv, ScanTypeOK
  <2> QED BY <2>5, <1>6 DEF Inv
<1> QED BY <1>7, <1>8

(* The application adds a path.                                            *)
LEMMA AddSyspathInv ==
  ASSUME Inv, owner = "enumerate", UNCHANGED owner, NEW p \in Names, AddSyspath(p)
  PROVE  Inv'
<1>1. TreeInv /\ ListInv /\ ScanInv
  BY DEF Inv
<1>2. /\ Idle /\ at = 0 /\ p # cursor /\ ListInsert(p) /\ ret' = 1 /\ at' = at
      /\ todo' = todo
  BY DEF AddSyspath
<1>3. TreeInv' /\ ListInv'
  BY <1>1, <1>2, ListInsertKeeps
<1>4. todo \subseteq Names
  BY <1>1, ScanFacts
<1>5. ScanInv'
  BY <1>2, <1>4, NoScan
<1> QED BY <1>3, <1>5 DEF Inv

(* The application iterates.                                               *)
LEMMA IterateInv == Inv /\ Iterate => Inv'
<1> SUFFICES ASSUME Inv, Iterate PROVE Inv'
  OBVIOUS
<1>1. TreeInv /\ ListInv /\ ScanInv
  BY DEF Inv
<1>2. /\ owner \in {"enumerate", "device"} /\ at = 0 /\ (GetFirst \/ GetNext)
      /\ at' = at /\ todo' = todo /\ ret' = ret /\ owner' = owner
  BY DEF Iterate, scan
<1>3. TreeInv' /\ ListInv' /\ live' = live /\ adding' = adding /\ walk' = walk
  BY <1>1, <1>2, GetKeeps
<1>0. ScanTypeOK /\ at = 0 /\ owner \in {"enumerate", "device"}
  BY <1>1, <1>2, Zenon DEF ScanInv
<1>4. /\ at \in 0..Len(Providers) /\ todo \subseteq Names /\ ret \in {-1, 0, 1}
      /\ owner \in {"enumerate", "device"} /\ at = 0 /\ (owner # "enumerate" => ret = 1)
      /\ ret = -1 => adding = Null /\ (walk = Null => live = {})
      /\ ret = 0 => /\ adding = Null /\ walk = Null
                    /\ live = Accepted \cap UNION Range(Providers)
  <2>1. ret = -1 => adding = Null /\ (walk = Null => live = {})
    BY <1>0, <1>1, Zenon DEF ScanInv
  <2>2. ret = 0 => /\ adding = Null /\ walk = Null
                   /\ live = Accepted \cap UNION Range(Providers)
    BY <1>0, <1>1, Zenon DEF ScanInv
  <2>3. owner # "enumerate" => ret = 1
    BY <1>1, Zenon DEF ScanInv
  <2> QED BY <1>0, <2>1, <2>2, <2>3, Zenon DEF ScanTypeOK
<1>5. ScanInv'
  BY <1>2, <1>3, <1>4 DEF ScanInv, ScanTypeOK
<1> QED BY <1>3, <1>5 DEF Inv

(* The turns of an operation on the list.                                  *)
LEMMA TurnInv ==
  Inv /\ (Enter \/ Recolor \/ FreeEntry) /\ UNCHANGED <<scan, owner>> => Inv'
<1> SUFFICES ASSUME Inv, Enter \/ Recolor \/ FreeEntry, UNCHANGED <<scan, owner>>
             PROVE  Inv'
  OBVIOUS
<1>1. TreeInv /\ ListInv /\ ScanInv
  BY DEF Inv
<1>2. at' = at /\ todo' = todo /\ ret' = ret /\ owner' = owner
  BY DEF scan
<1>3. Shown' = Shown
  BY <1>2 DEF Shown
<1>4. CASE Enter
  <2>1. /\ TreeInv' /\ ListInv' /\ Entries' = Entries /\ adding # Null /\ adding' = Null
        /\ walk' = walk /\ cursor' = cursor
    BY <1>1, <1>4, EnterKeeps DEF iteration
  <2>2. ScanInv'
    BY <2>1, <1>1, <1>2, <1>3 DEF ScanInv, ScanTypeOK
  <2> QED BY <2>1, <2>2 DEF Inv
<1>5. CASE Recolor
  <2>1. /\ TreeInv' /\ ListInv' /\ Entries' = Entries /\ live' = live
        /\ adding' = adding
        /\ walk' = walk /\ cursor' = cursor
    BY <1>1, <1>5, RecolorKeeps DEF iteration
  <2>2. ScanInv'
    BY <2>1, <1>1, <1>2, <1>3 DEF ScanInv, ScanTypeOK
  <2> QED BY <2>1, <2>2 DEF Inv
<1>6. CASE FreeEntry
  <2>1. /\ TreeInv' /\ ListInv' /\ adding = Null /\ adding' = Null /\ cursor' = cursor
        /\ (walk' = Null => live' = {})
    BY <1>1, <1>6, FreeEntryKeeps
  <2>2. walk # Null
    BY <1>6 DEF FreeEntry
  <2>3. walk' = Null => Entries' = {}
    BY <2>1 DEF Entries
  <2>4. at > 0 => at = 1 /\ todo = Providers[1] /\ Shown = {}
    <3>1. at > 0 => at = 1 /\ todo = Providers[1]
      BY <2>2, <1>1 DEF ScanInv
    <3> QED BY <3>1, ProviderFacts DEF Shown
  <2>5. ScanInv'
    BY <2>1, <2>2, <2>3, <2>4, <1>1, <1>2, <1>3 DEF ScanInv, ScanTypeOK
  <2> QED BY <2>1, <2>5 DEF Inv
<1> QED BY <1>4, <1>5, <1>6

(* Every step keeps Inv.                                                   *)
LEMMA NextInv == Inv /\ [Next]_vars => Inv'
<1> SUFFICES ASSUME Inv, [Next]_vars PROVE Inv'
  OBVIOUS
<1>1. CASE NewOwner \/ HandOut
  BY <1>1, NewOwnerInv
<1>2. CASE Unref
  BY <1>2, UnrefInv
<1>3. CASE Enumerate
  <2>1. owner = "enumerate" /\ UNCHANGED owner
    BY <1>3 DEF Enumerate
  <2>2. CASE Scan \/ ScanFails
    BY <2>1, <2>2, ScanStartInv
  <2>3. CASE EndProvider
    BY <2>1, <2>3, EndProviderInv
  <2>4. ASSUME NEW p \in Names, Skip(p) \/ AddDevice(p)
        PROVE  Inv'
    BY <2>1, <2>4, ShowInv
  <2>5. ASSUME NEW p \in Names, AddSyspath(p)
        PROVE  Inv'
    BY <2>1, <2>5, AddSyspathInv
  <2> QED BY <2>2, <2>3, <2>4, <2>5, <1>3 DEF Enumerate
<1>4. CASE Iterate
  BY <1>4, IterateInv
<1>5. CASE (Enter \/ Recolor \/ FreeEntry) /\ UNCHANGED <<scan, owner>>
  BY <1>5, TurnInv
<1>6. CASE \E n \in Names : Describe(n) \/ SetSysattrValue(n)
  BY <1>6, DescribeInv
<1>7. CASE UNCHANGED vars
  <2>1. UNCHANGED listVars /\ at' = at /\ todo' = todo /\ ret' = ret /\ owner' = owner
    BY <1>7 DEF vars, scan
  <2>2. TreeInv /\ ListInv /\ ScanInv
    BY DEF Inv
  <2>3. /\ TreeInv' /\ ListInv' /\ Entries' = Entries /\ live' = live
        /\ adding' = adding
        /\ walk' = walk /\ cursor' = cursor
    BY <2>1, <2>2, ListUnchanged
  <2>4. Shown' = Shown
    BY <2>1 DEF Shown
  <2>5. ScanInv'
    BY <2>1, <2>2, <2>3, <2>4 DEF ScanInv, ScanTypeOK
  <2> QED BY <2>3, <2>5 DEF Inv
<1> QED BY <1>1, <1>2, <1>3, <1>4, <1>5, <1>6, <1>7 DEF Next
-----------------------------------------------------------------------------

(* In every reachable state, for any names, providers, filters and any     *)
(* calls in any order, the tree has its shape, all ranks but those under   *)
(* way are restored, and list, iteration and scan agree.                   *)
THEOREM Invariance == Spec => []Inv
<1> QED BY InitInv, NextInv, PTL DEF Spec

(* Every variable of the list and its owners keeps its type: the links of  *)
(* the tree lead from entry to entry and back, and nothing links to an     *)
(* entry that has been freed (src/udev-list.c, src/tree.h).                *)
THEOREM TypeCorrect == Spec => []TypeOK
<1>1. Inv => TypeOK
  <2> SUFFICES ASSUME Inv PROVE TypeOK
    OBVIOUS
  <2>1. TreeInv /\ ListInv /\ ScanInv
    BY DEF Inv
  <2>2. Linking(tree, live, raise, parent, elm)
    BY <2>1, StateLinks DEF TreeInv
  <2>3. walk \in live \cup {Null} /\ cursor \in live \cup {Null} /\ stale \in BOOLEAN
        /\ adding \in (Names \ live) \cup {Null}
    BY <2>1 DEF ListInv, LeastIn, Minimum
  <2>4. live \subseteq Names /\ missed \subseteq Names
    <3>1. live \subseteq Names /\ missed \subseteq live \cup ({adding} \ {Null})
      BY <2>1, TreeInvFacts DEF ListInv, Entries
    <3> QED BY <3>1, <2>3
  <2>5. {raise, parent, elm, walk, cursor} \subseteq live \cup {Null}
    BY <2>2, <2>3 DEF Linking
  <2>6. ListTypeOK
    BY <2>2, <2>3, <2>4, <2>5, Zenon DEF Linking, ListTypeOK
  <2>7. ScanTypeOK /\ owner \in {"none", "enumerate", "making", "device"}
    BY <2>1 DEF ScanInv
  <2> QED BY <2>6, <2>7 DEF TypeOK
<1> QED BY <1>1, Invariance, PTL

(* Whatever is inserted, replaced and freed, once an operation has ended   *)
(* the differences of rank add up on every way down, leaves have no red    *)
(* edge and the height is at most 2lg(n+1): src/tree.h:57-72 for trees of  *)
(* any size.                                                               *)
THEOREM RanksKept == Spec => []RankRule
<1>1. Inv => RankRule
  <2> SUFFICES ASSUME Inv, Settled PROVE RankRule
    BY DEF RankRule
  <2>1. TreeState(tree, live, Null, Null, Null)
    BY TreeInvFacts DEF Inv
  <2>2. PICK b : Shape(tree, live, b)
    BY <2>1 DEF TreeState
  <2>3. PICK r : Even(tree, r)
    BY <2>1 DEF TreeState
  <2> QED BY <2>2, <2>3, EvenRule, Zenon DEF RankRule
<1> QED BY <1>1, Invariance, PTL

(* The lookup through the tree and the one through the list find the same  *)
(* entry, just when it is there: udev_device_has_tag and                   *)
(* udev_device_get_property_value agree.                                   *)
THEOREM LookupsAlike == Spec => []LookupsAgree
<1>1. Inv => LookupsAgree
  BY TreeInvFacts DEF Inv, LookupsAgree
<1> QED BY <1>1, Invariance, PTL

(* After a scan the list holds exactly what the filters accept of what all *)
(* providers have shown, or nothing if any of them failed.                 *)
THEOREM ScanWhole == Spec => []ScanAllOrNothing
<1>1. Inv => ScanAllOrNothing
  <2> SUFFICES ASSUME Inv, Idle, at = 0
               PROVE  /\ ret = -1 => live = {}
                      /\ ret = 0 => live = Accepted \cap UNION Range(Providers)
    BY DEF ScanAllOrNothing
  <2>1. ScanInv /\ walk = Null
    BY DEF Inv, Idle
  <2> QED BY <2>1 DEF ScanInv
<1> QED BY <1>1, Invariance, PTL

(* An iteration during which entries are added never stands on an entry    *)
(* that has been freed, and has given every name that was there when it    *)
(* began at its end.                                                       *)
THEOREM IterationWhole == Spec => []IterationComplete
<1>1. Inv => IterationComplete
  BY DEF Inv, ListInv, IterationComplete
<1> QED BY <1>1, Invariance, PTL

(* The least name, as SortedList says it.                                  *)
LEMMA LeastOfIs ==
  ASSUME NEW T \in SUBSET Nat, NEW x, LeastIn(x, T)
  PROVE  x = Sorted!LeastOf(T) /\ (T # {} => x = Sorted!Least(T))
<1>1. CASE T = {}
  BY <1>1 DEF LeastIn, Sorted!LeastOf
<1>2. CASE T # {}
  <2>1. x \in T /\ \A m \in T : x <= m
    BY <1>2 DEF LeastIn, Minimum
  <2> DEFINE y == Sorted!Least(T)
  <2>2. y \in T /\ \A m \in T : y <= m
    BY <2>1 DEF Sorted!Least
  <2> HIDE DEF y
  <2>3. x = y
    <3>1. x \in Nat /\ y \in Nat /\ x <= y /\ y <= x
      BY <2>1, <2>2
    <3> QED BY <3>1
  <2> QED BY <2>3, <1>2 DEF y, Sorted!LeastOf
<1> QED BY <1>1, <1>2

(* Every step of the owners of a list is a step of SortedList, or changes  *)
(* nothing that shows: the list implements a sorted set that is emptied    *)
(* from the front and iterated in order.                                   *)
THEOREM ListIsSorted == Spec => ListSpec
<1>1. Init => Sorted!Init
  BY DEF Init, ListInit, Sorted!Init
<1>2. Inv /\ [Next]_vars => [Sorted!Next]_Sorted!vars
  <2> SUFFICES ASSUME Inv, [Next]_vars
               PROVE  Sorted!Next \/ (Entries' = Entries /\ cursor' = cursor)
    BY Zenon DEF Sorted!vars, Entries
  <2>1. TreeInv /\ ListInv /\ ScanInv
    BY DEF Inv
  <2>2. live \subseteq Nat /\ Null \notin Names /\ live \subseteq Names
    BY <2>1, TreeInvFacts
  <2>3. ASSUME NEW n \in Names, n # cursor, Idle, ListInsert(n)
        PROVE  Sorted!Next
    <3>1. Entries' = Entries \cup {n} /\ cursor' = cursor
      BY <2>1, <2>3, ListInsertKeeps
    <3>2. Sorted!Put(n)
      BY <3>1 DEF Sorted!Put, Entries
    <3> QED BY <3>2 DEF Sorted!Next
  <2>4. ASSUME UNCHANGED <<entries, cursor>>
        PROVE  Entries' = Entries /\ cursor' = cursor
    BY <2>4 DEF Entries, entries
  <2>5. CASE NewOwner \/ HandOut \/ Unref
    <3>1. UNCHANGED <<entries, cursor>>
      BY <2>5 DEF NewOwner, HandOut, Unref, listVars, iteration
    <3> QED BY <2>4, <3>1
  <2>6. CASE Enumerate
    <3>1. CASE Scan \/ ScanFails \/ EndProvider \/ \E p \in Names : Skip(p)
      <4>1. UNCHANGED <<entries, cursor>>
        BY <3>1 DEF Scan, ScanFails, EndProvider, Skip, listVars, iteration
      <4> QED BY <2>4, <4>1
    <3>2. ASSUME NEW p \in Names, AddDevice(p)
          PROVE  Sorted!Next
      <4>1. at > 0 /\ Idle /\ ListInsert(p)
        BY <3>2 DEF AddDevice
      <4>2. cursor = Null
        BY <4>1, <2>1, ScanFacts
      <4> QED BY <4>1, <4>2, <2>2, <2>3
    <3>3. ASSUME NEW p \in Names, AddSyspath(p)
          PROVE  Sorted!Next
      BY <3>3, <2>3 DEF AddSyspath
    <3> QED BY <3>1, <3>2, <3>3, <2>6 DEF Enumerate
  <2>7. CASE Iterate
    <3>1. Idle /\ UNCHANGED entries
      BY <2>7 DEF Iterate, GetFirst, GetNext
    <3>2. Entries = live /\ Entries' = Entries
      BY <3>1 DEF Entries, entries, Idle
    <3>3. CASE GetFirst
      <4>1. cursor = Null /\ cursor' = First(tree)
        BY <3>3 DEF GetFirst
      <4>2. cursor' = Sorted!LeastOf(live)
        BY <4>1, <2>1, <2>2, TreeInvFacts, LeastOfIs
      <4>3. Sorted!Begin
        BY <4>1, <4>2, <3>2 DEF Sorted!Begin, Entries
      <4> QED BY <4>3 DEF Sorted!Next
    <3>4. CASE GetNext
      <4>1. cursor # Null /\ cursor' = Successor(tree, cursor)
        BY <3>4 DEF GetNext
      <4>2. cursor \in live
        BY <4>1, <2>1 DEF ListInv
      <4>3. LeastIn(cursor', Above(live, cursor))
        BY <4>1, <4>2, <2>1, <2>2, TreeInvFacts
      <4>4. /\ Above(live, cursor) = {n \in live : n > cursor}
            /\ Above(live, cursor) \subseteq Nat
        BY <4>2, <2>2 DEF Above
      <4>5. cursor' = Sorted!LeastOf({n \in live : n > cursor})
        BY <4>3, <4>4, LeastOfIs
      <4>6. Sorted!Advance
        BY <4>1, <4>5, <3>2 DEF Sorted!Advance, Entries
      <4> QED BY <4>6 DEF Sorted!Next
    <3> QED BY <3>3, <3>4, <2>7 DEF Iterate
  <2>8. CASE Enter
    BY <2>1, <2>8, EnterKeeps DEF iteration
  <2>9. CASE Recolor
    BY <2>1, <2>9, RecolorKeeps DEF iteration
  <2>10. CASE FreeEntry
    <3>1. /\ adding = Null /\ adding' = Null /\ cursor = Null /\ cursor' = Null
          /\ live # {}
          /\ LeastIn(walk, live) /\ live' = live \ {walk}
      BY <2>1, <2>10, FreeEntryKeeps
    <3>2. walk = Sorted!Least(live)
      BY <3>1, <2>2, LeastOfIs
    <3>3. Entries = live /\ Entries' = live \ {walk}
      BY <3>1 DEF Entries
    <3>4. Sorted!DropFirst
      BY <3>1, <3>2, <3>3 DEF Sorted!DropFirst, Entries
    <3> QED BY <3>4 DEF Sorted!Next
  <2>11. ASSUME NEW n \in Names, Describe(n) \/ SetSysattrValue(n)
         PROVE  Sorted!Next
    <3>1. Idle /\ ListInsert(n)
      BY <2>11 DEF Describe, SetSysattrValue
    <3>2. n # cursor
      BY <2>11, OtherEntry DEF Inv
    <3> QED BY <3>1, <3>2, <2>3
  <2>12. CASE UNCHANGED vars
    <3>1. UNCHANGED <<entries, cursor>>
      BY <2>12 DEF vars, listVars, iteration
    <3> QED BY <2>4, <3>1
  <2> QED BY <2>5, <2>6, <2>7, <2>8, <2>9, <2>10, <2>11, <2>12 DEF Next
<1> QED BY <1>1, <1>2, Invariance, PTL DEF Spec, ListSpec, Sorted!Spec
=============================================================================
