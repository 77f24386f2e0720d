----------------------------- MODULE RbtDriver -----------------------------
(***************************************************************************)
(* The character-device driver RBTree_device_driver/rbt_drv.c: its module  *)
(* life cycle, its file operations and the kernel heap it allocates tree   *)
(* nodes from.  The red-black tree itself is the set `linked' of its       *)
(* nodes; the walks over the pointers are in module RbtTree.               *)
(*                                                                         *)
(* The file says it "does not support concurrent operations", so one call  *)
(* runs at a time: each file operation is one action.  Calls of several    *)
(* processes, loads and unloads come in every order.                       *)
(***************************************************************************)
EXTENDS Integers

CONSTANTS Keys, Datas,  \* the ints that callers put in rb_object_t
          Addrs,        \* the addresses kmalloc can return for a node
          Procs         \* the processes that open the device

ASSUME DriverAssumption ==
  /\ Keys \subseteq Int /\ Keys # {}
  /\ Datas \subseteq Int /\ Datas # {}

VARIABLES loaded,     \* the module is in the kernel
          class,      \* who registered the class "rbtdevice": nobody ("absent"),
                      \* the loaded module ("mine") or a load that failed ("stale")
          files,      \* the processes that have the device open
          linked,     \* the nodes reachable from rbtdevice_devp->root
          allocated,  \* the nodes obtained from kmalloc and not kfreed
          rbt_object, \* the object each linked node holds
          read_from_maximum,
          reply,      \* what the last call gave its caller
          wild        \* a wild pointer was dereferenced: the kernel may do anything

vars == <<loaded, class, files, linked, allocated, rbt_object,
          read_from_maximum, reply, wild>>

End == IF read_from_maximum = 0 THEN "min" ELSE "max"

\* The refinement mapping to what callers are promised.
Store == INSTANCE OrderedStore WITH
           store  <- {rbt_object[n] : n \in linked},
           end    <- End,
           reply  <- reply,
           broken <- wild

Object == [key : Keys, data : Datas]
Junk == CHOOSE o \in Object : TRUE   \* what a cell holds before it is a node
NoReply == [ret |-> 0, got |-> {}]
Returns(ret) == reply' = [ret |-> ret, got |-> {}]

-----------------------------------------------------------------------------
(* The tree, as a set of nodes.                                            *)

\* rb_search: the node that holds key k, as a set with at most one element.
rb_search(k) == {n \in linked : rbt_object[n].key = k}

\* Mutant: the two ends swapped.
find_other_end ==
  {n \in linked : \A m \in linked :
     IF read_from_maximum # 0 THEN rbt_object[n].key =< rbt_object[m].key
                              ELSE rbt_object[n].key >= rbt_object[m].key}

\* find_minimum and find_maximum: the node at the end the flag chooses.
find_end ==
  {n \in linked : \A m \in linked :
     IF read_from_maximum = 0 THEN rbt_object[n].key =< rbt_object[m].key
                              ELSE rbt_object[n].key >= rbt_object[m].key}

\* rb_insert leaves `parent' uninitialised when the tree is empty, and
\* rb_insert_color reads it: the insertion may go well or go wild.
rb_insert(n, o) ==
  \/ /\ linked' = linked \cup {n}
     /\ allocated' = allocated \cup {n}
     /\ rbt_object' = [rbt_object EXCEPT ![n] = o]
     /\ Returns(0)
     /\ UNCHANGED wild
  \/ /\ linked = {}
     /\ wild' = TRUE
     /\ UNCHANGED <<linked, allocated, rbt_object, reply>>

-----------------------------------------------------------------------------
(* File operations.                                                        *)

\* class_create refuses a name that is taken and its error pointer is not
\* checked: the load succeeds, but no node appears under /dev.
dev_node == loaded /\ class = "mine"

Opened(p) == ~wild /\ p \in files

rbtdevice_driver_open(p) ==
  /\ ~wild /\ dev_node /\ p \notin files
  /\ files' = files \cup {p}
  /\ Returns(0)
  /\ UNCHANGED <<loaded, class, linked, allocated, rbt_object, read_from_maximum, wild>>

rbtdevice_driver_release(p) ==
  /\ Opened(p)
  /\ files' = files \ {p}
  /\ Returns(0)
  /\ UNCHANGED <<loaded, class, linked, allocated, rbt_object, read_from_maximum, wild>>

\* Mutant: insertion without the search for the same key.
inserts_unsearched(o) ==
  /\ o.data # 0
  /\ \E temp \in Addrs \ allocated : rb_insert(temp, o)

\* Write with a node from kmalloc.  Only the insertion keeps that node: on
\* every other path it stays allocated and nothing points to it any more.
write_inserts(o) ==
  /\ rb_search(o.key) = {} /\ o.data # 0
  /\ \E temp \in Addrs \ allocated : rb_insert(temp, o)

write_ignores(o) ==
  /\ rb_search(o.key) = {} /\ o.data = 0
  /\ \E temp \in Addrs \ allocated : allocated' = allocated \cup {temp}
  /\ Returns(0)
  /\ UNCHANGED <<linked, rbt_object, wild>>

write_erases(o) ==
  /\ o.data = 0
  /\ \E search_node \in rb_search(o.key), temp \in Addrs \ allocated :
       /\ linked' = linked \ {search_node}
       /\ allocated' = (allocated \cup {temp}) \ {search_node}
  /\ Returns(0)
  /\ UNCHANGED <<rbt_object, wild>>

write_updates(o) ==
  /\ o.data # 0
  /\ \E search_node \in rb_search(o.key), temp \in Addrs \ allocated :
       /\ rbt_object' = [rbt_object EXCEPT ![search_node].data = o.data]
       /\ allocated' = allocated \cup {temp}
  /\ Returns(0)
  /\ UNCHANGED <<linked, wild>>

\* The result of kmalloc is not checked.
write_without_memory ==
  /\ Addrs \subseteq allocated
  /\ wild' = TRUE
  /\ UNCHANGED <<linked, allocated, rbt_object, reply>>

rbtdevice_driver_write(p, o) ==
  /\ Opened(p)
  /\ \/ write_inserts(o)
     \/ write_ignores(o)
     \/ write_erases(o)
     \/ write_updates(o)
     \/ write_without_memory
  /\ UNCHANGED <<loaded, class, files, read_from_maximum>>

\* Mutant: the node is freed without rb_erase.
read_frees_linked ==
  \E n \in find_end :
    /\ rbt_object[n].key # 0
    /\ allocated' = allocated \ {n}
    /\ reply' = [ret |-> Store!SIZEOF_OBJECT, got |-> {rbt_object[n]}]
    /\ UNCHANGED <<linked, rbt_object, wild>>

\* Read: copies out the node at the end, unlinks it and frees it...
read_takes ==
  \E n \in find_end :
    /\ rbt_object[n].key # 0
    /\ linked' = linked \ {n}
    /\ allocated' = allocated \ {n}
    /\ reply' = [ret |-> Store!SIZEOF_OBJECT, got |-> {rbt_object[n]}]
    /\ UNCHANGED <<rbt_object, wild>>

\* ...unless its key equals NULL, which stands for an empty tree.
read_finds_key_0 ==
  /\ \E n \in find_end : rbt_object[n].key = 0
  /\ Returns(-1)
  /\ UNCHANGED <<linked, allocated, rbt_object, wild>>

\* On an empty tree the end is an uninitialised pointer: either what it
\* points to looks like key 0, or the kernel goes wild.
read_empty ==
  /\ linked = {}
  /\ \/ Returns(-1) /\ UNCHANGED wild
     \/ wild' = TRUE /\ UNCHANGED reply
  /\ UNCHANGED <<linked, allocated, rbt_object>>

rbtdevice_driver_read(p) ==
  /\ Opened(p)
  /\ read_takes \/ read_finds_key_0 \/ read_empty
  /\ UNCHANGED <<loaded, class, files, read_from_maximum>>

\* Ioctl with the command IOCTL_READ_FROM_MAXIMUM.  The function ends
\* without a return statement: its caller gets whatever is in the register.
rbtdevice_driver_ioctl(p, ioctl_value) ==
  /\ Opened(p)
  /\ read_from_maximum' = IF ioctl_value \in {0, 1} THEN ioctl_value ELSE read_from_maximum
  /\ \E garbage \in {0, -1} : Returns(garbage)
  /\ UNCHANGED <<loaded, class, files, linked, allocated, rbt_object, wild>>

-----------------------------------------------------------------------------
(* Loading and unloading.  The /dev node comes last in the initialisation, *)
(* so no process can see it half done: it is one action per outcome.       *)

init_succeeds ==
  /\ class' = IF class = "absent" THEN "mine" ELSE class
  /\ loaded' = TRUE
  /\ read_from_maximum' = 0
  /\ linked' = {}
  /\ UNCHANGED <<files, allocated, rbt_object, reply, wild>>

\* "Bad Kmalloc" and "Bad cdev" return without destroying the class.  Without
\* a device number init returns before it creates one, and changes nothing.
init_fails ==
  /\ class' = "stale"
  /\ UNCHANGED <<loaded, files, linked, allocated, rbt_object, read_from_maximum, reply, wild>>

rbtdevice_driver_init ==
  /\ ~wild /\ ~loaded
  /\ init_succeeds \/ init_fails

\* Mutant: unloading frees every node ever allocated.
exit_frees_everything ==
  /\ allocated' = {}
  /\ linked' = {}
  /\ loaded' = FALSE
  /\ class' = "absent"
  /\ UNCHANGED <<files, rbt_object, read_from_maximum, reply, wild>>

\* The recursive deletion frees some of the nodes: module RbtTree shows that
\* it need not free them all.
exit_deletes ==
  /\ \E freed \in SUBSET linked : allocated' = allocated \ freed
  /\ linked' = {}
  /\ loaded' = FALSE
  /\ class' = "absent"
  /\ UNCHANGED <<files, rbt_object, read_from_maximum, reply, wild>>

\* The recursion reads the right pointer of a node it has freed, and
\* device_destroy follows the error pointer of a class_create that failed.
exit_goes_wild ==
  /\ linked # {} \/ class = "stale"
  /\ wild' = TRUE
  /\ UNCHANGED <<loaded, class, files, linked, allocated, rbt_object, read_from_maximum, reply>>

\* rmmod, which the kernel refuses while a file is open.
rbtdevice_driver_exit ==
  /\ ~wild /\ loaded /\ files = {}
  /\ \/ class = "mine" /\ exit_deletes
     \/ exit_goes_wild

-----------------------------------------------------------------------------
Init ==
  /\ loaded = FALSE
  /\ class = "absent"
  /\ files = {}
  /\ linked = {}
  /\ allocated = {}
  /\ rbt_object = [n \in Addrs |-> Junk]
  /\ read_from_maximum = 0
  /\ reply = NoReply
  /\ wild = FALSE

Next ==
  \/ rbtdevice_driver_init
  \/ rbtdevice_driver_exit
  \/ \E p \in Procs :
       \/ rbtdevice_driver_open(p)
       \/ rbtdevice_driver_release(p)
       \/ \E o \in Object : rbtdevice_driver_write(p, o)
       \/ rbtdevice_driver_read(p)
       \/ \E v \in {0, 1, 2} : rbtdevice_driver_ioctl(p, v)

Spec == Init /\ [][Next]_vars

-----------------------------------------------------------------------------
(* Properties.                                                             *)

TypeOK ==
  /\ loaded \in BOOLEAN
  /\ class \in {"absent", "mine", "stale"}
  /\ files \subseteq Procs
  /\ linked \subseteq Addrs
  /\ allocated \subseteq Addrs
  /\ rbt_object \in [Addrs -> Object]
  /\ read_from_maximum \in {0, 1}
  /\ reply \in [ret : {0, -1, Store!SIZEOF_OBJECT}, got : SUBSET Object]
  /\ wild \in BOOLEAN

\* No two nodes of the tree hold the same key, whatever sequence of writes,
\* reads and reloads came before: rb_insert does not look for duplicates and
\* relies on the search that rbtdevice_driver_write makes first.
UniqueKeys ==
  \A m, n \in linked : rbt_object[m].key = rbt_object[n].key => m = n

\* The tree never reaches freed memory, and a module that is not in the
\* kernel owns neither a tree nor an open file.
LinkedIsAllocated ==
  /\ linked \subseteq allocated
  /\ linked # {} \/ files # {} => loaded

\* kfree is only applied to a node of the tree that the same call unlinks:
\* nothing is freed twice, and what write leaks is never given back, not even
\* by unloading the module.
FreesOnlyWhatItUnlinks ==
  [][\A n \in allocated \ allocated' : n \in linked /\ n \notin linked']_vars

\* The driver is an ordered store.
ImplementsStore == Store!Spec

=============================================================================
