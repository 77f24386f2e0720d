---------------------------- MODULE LinuxRbtree ----------------------------
(***************************************************************************)
(* The kernel's red-black tree (lib/rbtree.c) as far as the driver uses it:*)
(* rb_link_node followed by rb_insert_color, and rb_erase.  It is not part *)
(* of this repository; it is written down because the driver reads the     *)
(* tree's pointers itself, before, between and after these calls.          *)
(*                                                                         *)
(* A tree is a record: its root, the two child pointers of every node, and *)
(* the set of red nodes.  The parent pointer is derived from the others.   *)
(***************************************************************************)
EXTENDS Naturals, FiniteSets

CONSTANTS Nodes, NULL   \* NULL is not a node

Sides == {"rb_left", "rb_right"}
Other(side) == IF side = "rb_left" THEN "rb_right" ELSE "rb_left"

RB_ROOT == [rb_node |-> NULL,
            child   |-> [s \in Sides |-> [n \in Nodes |-> NULL]],
            red     |-> {}]

\* Missing children are black.
Black(t, n) == n \notin t.red

SideOf(t, n, p) == CHOOSE s \in Sides : t.child[s][p] = n
Parents(t, n) == {p \in Nodes : \E s \in Sides : t.child[s][p] = n}
Parent(t, n) == IF Parents(t, n) = {} THEN NULL ELSE CHOOSE p \in Parents(t, n) : TRUE

\* Whatever pointed to `old' (a parent or the root) points to `new'.
Replace(t, old, new) ==
  IF t.rb_node = old
  THEN [t EXCEPT !.rb_node = new]
  ELSE LET p == Parent(t, old) IN [t EXCEPT !.child[SideOf(t, old, p)][p] = new]

\* n goes one level down on `side', its other child takes its place.
Rotate(t, n, side) ==
  LET up == t.child[Other(side)][n]
  IN  [Replace(t, n, up) EXCEPT !.child[Other(side)][n] = t.child[side][up],
                                !.child[side][up] = n]

Paint(t, blacks, reds) == [t EXCEPT !.red = (@ \ blacks) \cup reds]

-----------------------------------------------------------------------------
\* rb_insert_color: n is red; its parent may be red too.
RECURSIVE rb_insert_color(_, _)
rb_insert_color(t, n) ==
  LET p == Parent(t, n)
      g == Parent(t, p)
      side == SideOf(t, p, g)
      uncle == t.child[Other(side)][g]
      outer == IF t.child[side][p] = n THEN t ELSE Rotate(t, p, side)
      top == outer.child[side][g]
  IN  IF p = NULL THEN Paint(t, {n}, {})
      ELSE IF Black(t, p) THEN t
      ELSE IF ~Black(t, uncle) THEN rb_insert_color(Paint(t, {p, uncle}, {g}), g)
      ELSE Paint(Rotate(outer, g, Other(side)), {top}, {g})

\* rb_link_node hangs the red leaf n where `link' points: the root (parent
\* NULL) or one side of a parent.
rb_link_node(t, n, parent, side) ==
  Paint(IF parent = NULL THEN [t EXCEPT !.rb_node = n]
                         ELSE [t EXCEPT !.child[side][parent] = n], {}, {n})

-----------------------------------------------------------------------------
\* __rb_erase_color: the subtree on `side' of p has lost a black node.
RECURSIVE erase_color(_, _, _)
erase_color(t, p, side) ==
  LET s0 == t.child[Other(side)][p]
      t1 == IF Black(t, s0) THEN t
            ELSE Paint(Rotate(t, p, side), {s0}, {p})
      s == t1.child[Other(side)][p]
      near == t1.child[side][s]
      far == t1.child[Other(side)][s]
      gp == Parent(t1, p)
      t2 == IF ~Black(t1, far) THEN t1
            ELSE Paint(Rotate(t1, s, Other(side)), {near}, {s})
      s2 == t2.child[Other(side)][p]
      far2 == t2.child[Other(side)][s2]
  IN  IF Black(t1, near) /\ Black(t1, far)
      THEN IF ~Black(t1, p) THEN Paint(t1, {p}, {s})
           ELSE IF gp = NULL THEN Paint(t1, {}, {s})
           ELSE erase_color(Paint(t1, {}, {s}), gp, SideOf(t1, p, gp))
      ELSE Paint(Rotate(t2, p, side), {p, far2, s2}, IF Black(t2, p) THEN {} ELSE {s2})

\* Removing a node with at most one child: the child, red, takes its place
\* and turns black; without a child a black node leaves the tree short.
Splice(t, n) ==
  LET kids == {t.child[s][n] : s \in Sides} \ {NULL}
      kid == IF kids = {} THEN NULL ELSE CHOOSE k \in kids : TRUE
      p == Parent(t, n)
      cut == [Replace(t, n, kid) EXCEPT !.child = [s \in Sides |-> [@[s] EXCEPT ![n] = NULL]],
                                        !.red = @ \ {n, kid}]
  IN  IF kid = NULL /\ Black(t, n) /\ p # NULL
      THEN erase_color(cut, p, SideOf(t, n, p))
      ELSE cut

RECURSIVE Leftmost(_, _)
Leftmost(t, n) ==
  IF t.child["rb_left"][n] = NULL THEN n ELSE Leftmost(t, t.child["rb_left"][n])

\* n and its successor m trade places and colours; m may be n's right child.
Swap(t, n, m) ==
  LET Name(x) == IF x = n THEN m ELSE IF x = m THEN n ELSE x
  IN  [rb_node |-> Name(t.rb_node),
       child   |-> [s \in Sides |-> [x \in Nodes |-> Name(t.child[s][Name(x)])]],
       red     |-> {Name(x) : x \in t.red}]

rb_erase(t, n) ==
  IF t.child["rb_left"][n] # NULL /\ t.child["rb_right"][n] # NULL
  THEN Splice(Swap(t, n, Leftmost(t, t.child["rb_right"][n])), n)
  ELSE Splice(t, n)

-----------------------------------------------------------------------------
\* What makes a tree red-black.
RECURSIVE Below(_, _)
Below(t, n) ==
  IF n = NULL THEN {} ELSE {n} \cup UNION {Below(t, t.child[s][n]) : s \in Sides}

Linked(t) == Below(t, t.rb_node)

RECURSIVE BlackHeights(_, _)
BlackHeights(t, n) ==
  IF n = NULL THEN {0}
  ELSE {h + (IF Black(t, n) THEN 1 ELSE 0) :
          h \in UNION {BlackHeights(t, t.child[s][n]) : s \in Sides}}

RedBlack(t) ==
  /\ Black(t, t.rb_node)
  /\ \A n \in t.red, s \in Sides : Black(t, t.child[s][n])
  /\ Cardinality(BlackHeights(t, t.rb_node)) = 1

=============================================================================
