------------------------------ MODULE RbtTree ------------------------------
(***************************************************************************)
(* The walks that the rbtdevice driver makes over the pointers of its      *)
(* red-black tree (Kprobe_samples/rbtdevice_drv.c, the copy of the driver  *)
(* whose types compile): search, both ends, insertion point, and the       *)
(* recursive deletion of the whole tree when the module is unloaded.       *)
(*                                                                         *)
(* Every int in the tree is a key; a node is named by its key, which       *)
(* module RbtDriver shows to be unique.  Callers write data 1, or 0.       *)
(***************************************************************************)
EXTENDS Integers, Sequences

CONSTANTS Keys, NULL

ASSUME KeysAssumption == Keys \subseteq Int

Rb == INSTANCE LinuxRbtree WITH Nodes <- Keys

VARIABLES loaded, root, read_from_maximum, reply, wild,
          freed,   \* what the last unload freed, in order
          leaked   \* the nodes that were in the tree and that it did not free

vars == <<loaded, root, read_from_maximum, reply, wild, freed, leaked>>

Returns(ret) == reply' = [ret |-> ret, got |-> {}]
Left(t, n) == t.child["rb_left"][n]
Right(t, n) == t.child["rb_right"][n]

-----------------------------------------------------------------------------
\* The node with this key below `node', or NULL.
RECURSIVE search_from(_, _, _)
search_from(t, node, key) ==
  IF node = NULL \/ node = key THEN node
  ELSE search_from(t, IF node > key THEN Left(t, node) ELSE Right(t, node), key)

rb_search(t, key) == search_from(t, t.rb_node, key)

\* The last node on the way down one side; of an empty tree, an
\* uninitialised pointer, which the callers below treat on their own.
RECURSIVE last_on(_, _, _)
last_on(t, node, side) ==
  IF t.child[side][node] = NULL THEN node ELSE last_on(t, t.child[side][node], side)

\* Mutant: the maximum sought on the wrong side.
find_maximum_left(t) == last_on(t, t.rb_node, "rb_left")

find_minimum(t) == last_on(t, t.rb_node, "rb_left")
find_maximum(t) == last_on(t, t.rb_node, "rb_right")

\* The pair <<parent, link>> under which a new key is hung.
RECURSIVE link_from(_, _, _)
link_from(t, parent, key) ==
  LET side == IF parent > key THEN "rb_left" ELSE "rb_right"
  IN  IF t.child[side][parent] = NULL THEN <<parent, side>>
      ELSE link_from(t, t.child[side][parent], key)

\* Mutant: no rb_insert_color after rb_link_node.
insert_uncoloured(t, new) ==
  LET at == IF t.rb_node = NULL THEN <<NULL, "rb_left">> ELSE link_from(t, t.rb_node, new)
  IN  Rb!rb_link_node(t, new, at[1], at[2])

rb_insert(t, new) ==
  LET at == IF t.rb_node = NULL THEN <<NULL, "rb_left">> ELSE link_from(t, t.rb_node, new)
  IN  Rb!rb_insert_color(Rb!rb_link_node(t, new, at[1], at[2]), new)

RECURSIVE inorder_deletion(_, _)

\* Mutant: the node goes before its left subtree is walked.
preorder_deletion(s, node) ==
  IF node = NULL THEN s
  ELSE LET kfreed == Append(s.freed, node)
       IN  IF \E i \in DOMAIN s.freed : s.freed[i] = node
           THEN [s EXCEPT !.freed = kfreed]
           ELSE inorder_deletion(
                  inorder_deletion([root |-> Rb!rb_erase(s.root, node), freed |-> kfreed],
                                   Left(s.root, node)),
                  Right(s.root, node))

\* Left subtree, node, right subtree: but rb_erase rebalances the tree under
\* the walk, so what a pointer leads to is what it leads to by then.  The
\* right pointer is read from the node just freed.  s.freed lists the
\* nodes given to kfree; a walk that comes back to one of them stops here.
inorder_deletion(s, node) ==
  IF node = NULL THEN s
  ELSE LET s1 == inorder_deletion(s, Left(s.root, node))
           kfreed == Append(s1.freed, node)
       IN  IF \E i \in DOMAIN s1.freed : s1.freed[i] = node
           THEN [s1 EXCEPT !.freed = kfreed]
           ELSE inorder_deletion([root |-> Rb!rb_erase(s1.root, node), freed |-> kfreed],
                                 Right(s1.root, node))

-----------------------------------------------------------------------------
Init ==
  /\ loaded = FALSE
  /\ root = Rb!RB_ROOT
  /\ read_from_maximum = 0
  /\ reply = [ret |-> 0, got |-> {}]
  /\ wild = FALSE
  /\ freed = <<>> /\ leaked = {}

rbtdevice_driver_init ==
  /\ ~wild /\ ~loaded
  /\ loaded' = TRUE
  /\ root' = Rb!RB_ROOT
  /\ read_from_maximum' = 0
  /\ freed' = <<>> /\ leaked' = {}
  /\ UNCHANGED <<reply, wild>>

\* rb_insert leaves `parent' uninitialised when the tree is empty.
write_inserts(key) ==
  /\ rb_search(root, key) = NULL
  /\ \/ root' = rb_insert(root, key) /\ Returns(0) /\ UNCHANGED wild
     \/ root.rb_node = NULL /\ wild' = TRUE /\ UNCHANGED <<root, reply>>

write_erases(key) ==
  /\ root' = IF rb_search(root, key) = NULL THEN root
             ELSE Rb!rb_erase(root, rb_search(root, key))
  /\ Returns(0)
  /\ UNCHANGED wild

write_updates(key) ==
  /\ rb_search(root, key) # NULL
  /\ Returns(0)
  /\ UNCHANGED <<root, wild>>

rbtdevice_driver_write(key, data) ==
  /\ ~wild /\ loaded
  /\ IF data = 0 THEN write_erases(key) ELSE write_inserts(key) \/ write_updates(key)
  /\ UNCHANGED <<loaded, read_from_maximum, freed, leaked>>

read_node(node) ==
  IF node = 0
  THEN Returns(-1) /\ UNCHANGED root
  ELSE /\ reply' = [ret |-> 8, got |-> {[key |-> node, data |-> 1]}]
       /\ root' = Rb!rb_erase(root, node)

rbtdevice_driver_read ==
  /\ ~wild /\ loaded
  /\ \/ /\ root.rb_node # NULL
        /\ read_node(IF read_from_maximum = 0 THEN find_minimum(root) ELSE find_maximum(root))
        /\ UNCHANGED wild
     \/ root.rb_node = NULL /\ Returns(-1) /\ UNCHANGED <<root, wild>>
     \/ root.rb_node = NULL /\ wild' = TRUE /\ UNCHANGED <<root, reply>>
  /\ UNCHANGED <<loaded, read_from_maximum, freed, leaked>>

rbtdevice_driver_ioctl(ioctl_value) ==
  /\ ~wild /\ loaded
  /\ read_from_maximum' = ioctl_value
  /\ Returns(0)
  /\ UNCHANGED <<loaded, root, wild, freed, leaked>>

\* The freed node may still hold its right pointer, or anything else.
rbtdevice_driver_exit ==
  /\ ~wild /\ loaded
  /\ \/ LET s == inorder_deletion([root |-> root, freed |-> <<>>], root.rb_node)
        IN  /\ freed' = s.freed
            /\ leaked' = Rb!Linked(root) \ {s.freed[i] : i \in DOMAIN s.freed}
            /\ root' = Rb!RB_ROOT
            /\ loaded' = FALSE
            /\ UNCHANGED wild
     \/ root.rb_node # NULL /\ wild' = TRUE /\ UNCHANGED <<loaded, root, freed, leaked>>
  /\ UNCHANGED <<read_from_maximum, reply>>

Next ==
  \/ rbtdevice_driver_init
  \/ \E key \in Keys, data \in {0, 1} : rbtdevice_driver_write(key, data)
  \/ rbtdevice_driver_read
  \/ \E v \in {0, 1} : rbtdevice_driver_ioctl(v)
  \/ rbtdevice_driver_exit

Spec == Init /\ [][Next]_vars

-----------------------------------------------------------------------------
(* Properties.                                                             *)

\* Inserting with the driver's own walk and erasing in any order keeps the
\* tree red-black and all its nodes reachable from the root: no linked node
\* hangs on a side the walks do not look at.
TreeIsSound ==
  /\ Rb!RedBlack(root)
  /\ \A n \in Rb!Linked(root) : rb_search(root, n) = n

\* Walking the pointers finds what the ordered store promises.
Store == INSTANCE OrderedStore WITH
           Datas  <- {0, 1},
           store  <- {[key |-> n, data |-> 1] : n \in Rb!Linked(root)},
           end    <- IF read_from_maximum = 0 THEN "min" ELSE "max",
           broken <- wild
ImplementsStore == Store!Spec

\* Although the tree is rebalanced under the recursion, no node is given to
\* kfree twice when the module is unloaded.
NothingFreedTwice == \A i, j \in DOMAIN freed : freed[i] = freed[j] => i = j

\* rbtdevice_drv.c:322 "Deleting all the nodes in order": broken, rotations
\* move nodes out of the reach of the recursion.
AllNodesDeleted == leaked = {}

=============================================================================
