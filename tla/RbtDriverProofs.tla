-------------------------- MODULE RbtDriverProofs --------------------------
(***************************************************************************)
(* What RbtDriver guarantees for every set of keys, data values, heap      *)
(* addresses and processes: its invariants, and that it implements the     *)
(* ordered store.                                                          *)
(***************************************************************************)
EXTENDS RbtDriver, TLAPS

USE DEF vars

-----------------------------------------------------------------------------
LEMMA ObjectNonEmpty == Object # {}
<1>1. PICK k \in Keys : TRUE
  BY DriverAssumption
<1>2. PICK d \in Datas : TRUE
  BY DriverAssumption
<1>3. [key |-> k, data |-> d] \in Object
  BY DEF Object
<1> QED
  BY <1>3

\* Every step of the driver keeps every variable within its type.
LEMMA TypeStep == TypeOK /\ [Next]_vars => TypeOK'
<1> SUFFICES ASSUME TypeOK, [Next]_vars PROVE TypeOK'
  OBVIOUS
<1> USE DEF TypeOK, Returns, Opened, Store!SIZEOF_OBJECT
<1>1. CASE rbtdevice_driver_init
  BY <1>1 DEF rbtdevice_driver_init, init_succeeds, init_fails
<1>2. CASE rbtdevice_driver_exit
  BY <1>2 DEF rbtdevice_driver_exit, exit_deletes, exit_goes_wild
<1>3. ASSUME NEW p \in Procs, rbtdevice_driver_open(p) PROVE TypeOK'
  BY <1>3 DEF rbtdevice_driver_open, dev_node
<1>4. ASSUME NEW p \in Procs, rbtdevice_driver_release(p) PROVE TypeOK'
  BY <1>4 DEF rbtdevice_driver_release
<1>5. ASSUME NEW p \in Procs, NEW o \in Object, rbtdevice_driver_write(p, o) PROVE TypeOK'
  <2> o.data \in Datas
    BY DEF Object
  <2>1. CASE write_inserts(o)
    <3>1. PICK temp \in Addrs \ allocated : rb_insert(temp, o)
      BY <2>1 DEF write_inserts
    <3>2. UNCHANGED <<loaded, class, files, read_from_maximum>>
      BY <1>5 DEF rbtdevice_driver_write
    <3>3. CASE linked' = linked \cup {temp}
      BY <3>1, <3>2, <3>3 DEF rb_insert
    <3>4. CASE wild' /\ UNCHANGED <<linked, allocated, rbt_object, reply>>
      BY <3>2, <3>4
    <3> QED
      BY <3>1, <3>3, <3>4 DEF rb_insert
  <2>2. CASE write_ignores(o)
    BY <1>5, <2>2 DEF rbtdevice_driver_write, write_ignores
  <2>3. CASE write_erases(o)
    BY <1>5, <2>3 DEF rbtdevice_driver_write, write_erases, rb_search
  <2>4. CASE write_updates(o)
    BY <1>5, <2>4 DEF rbtdevice_driver_write, write_updates, rb_search, Object
  <2>5. CASE write_without_memory
    BY <1>5, <2>5 DEF rbtdevice_driver_write, write_without_memory
  <2> QED
    BY <1>5, <2>1, <2>2, <2>3, <2>4, <2>5 DEF rbtdevice_driver_write
<1>6. ASSUME NEW p \in Procs, rbtdevice_driver_read(p) PROVE TypeOK'
  <2>1. CASE read_takes
    <3>1. PICK n \in find_end : reply' = [ret |-> 8, got |-> {rbt_object[n]}]
      BY <2>1 DEF read_takes
    <3>2. rbt_object[n] \in Object
      BY DEF find_end
    <3> QED
      BY <1>6, <2>1, <3>1, <3>2 DEF rbtdevice_driver_read, read_takes, find_end
  <2>2. CASE read_finds_key_0
    BY <1>6, <2>2 DEF rbtdevice_driver_read, read_finds_key_0
  <2>3. CASE read_empty
    <3>1. UNCHANGED <<loaded, class, files, read_from_maximum, linked, allocated, rbt_object>>
      BY <1>6, <2>3 DEF rbtdevice_driver_read, read_empty
    <3>2. wild' \in BOOLEAN
      BY <2>3 DEF read_empty
    <3>3. reply' \in [ret : {0, -1, 8}, got : SUBSET Object]
      BY <2>3 DEF read_empty
    <3> QED
      BY <3>1, <3>2, <3>3
  <2> QED
    BY <1>6, <2>1, <2>2, <2>3 DEF rbtdevice_driver_read
<1>7. ASSUME NEW p \in Procs, NEW v \in {0, 1, 2}, rbtdevice_driver_ioctl(p, v) PROVE TypeOK'
  BY <1>7 DEF rbtdevice_driver_ioctl
<1>8. CASE UNCHANGED vars
  BY <1>8
<1> QED
  BY <1>1, <1>2, <1>3, <1>4, <1>5, <1>6, <1>7, <1>8 DEF Next

LEMMA TypeInit == Init => TypeOK
<1> SUFFICES ASSUME Init PROVE TypeOK
  OBVIOUS
<1>1. Junk \in Object
  BY ObjectNonEmpty DEF Junk
<1>2. rbt_object \in [Addrs -> Object]
  BY <1>1 DEF Init
<1>3. reply \in [ret : {0, -1, Store!SIZEOF_OBJECT}, got : SUBSET Object]
  BY DEF Init, NoReply
<1> QED
  BY <1>2, <1>3 DEF Init, TypeOK

\* Every variable of the driver keeps its type, however calls are ordered.
THEOREM TypeCorrect == Spec => []TypeOK
BY TypeInit, TypeStep, PTL DEF Spec

-----------------------------------------------------------------------------
\* Data 0 is the request to delete and is never stored, neither by the
\* insertion nor by the update in place.
NoTombstoneStored == \A n \in linked : rbt_object[n].data # 0

\* The inductive invariant: the four invariants together.  Neither of the
\* last three is inductive without the type; uniqueness of keys and the
\* absence of stored tombstones each follow from the guards of write alone.
IInv == TypeOK /\ UniqueKeys /\ NoTombstoneStored /\ LinkedIsAllocated

\* The tree part of the invariant depends on four variables only.
LEMMA TreeUntouched ==
  ASSUME IInv, TypeOK', UNCHANGED <<linked, rbt_object>>,
         linked \subseteq allocated',
         linked # {} \/ files' # {} => loaded'
  PROVE  IInv'
BY DEF IInv, UniqueKeys, NoTombstoneStored, LinkedIsAllocated

\* Unlinking nodes keeps the invariant.
LEMMA TreeShrinks ==
  ASSUME IInv, TypeOK', rbt_object' = rbt_object, linked' \subseteq linked,
         linked' \subseteq allocated',
         linked' # {} \/ files' # {} => loaded'
  PROVE  IInv'
BY DEF IInv, UniqueKeys, NoTombstoneStored, LinkedIsAllocated

LEMMA InvStep == IInv /\ [Next]_vars => IInv'
<1> SUFFICES ASSUME IInv, [Next]_vars PROVE IInv'
  OBVIOUS
<1> TypeOK'
  BY TypeStep DEF IInv
<1> USE DEF Returns, Opened
<1>1. CASE rbtdevice_driver_init
  <2>1. CASE init_succeeds
    BY <1>1, <2>1, TreeShrinks DEF rbtdevice_driver_init, init_succeeds
  <2>2. CASE init_fails
    BY <1>1, <2>2, TreeUntouched DEF rbtdevice_driver_init, init_fails, IInv, LinkedIsAllocated
  <2> QED
    BY <1>1, <2>1, <2>2 DEF rbtdevice_driver_init
<1>2. CASE rbtdevice_driver_exit
  <2>1. CASE exit_deletes
    BY <1>2, <2>1, TreeShrinks DEF rbtdevice_driver_exit, exit_deletes
  <2>2. CASE exit_goes_wild
    BY <1>2, <2>2, TreeUntouched DEF rbtdevice_driver_exit, exit_goes_wild, IInv, LinkedIsAllocated
  <2> QED
    BY <1>2, <2>1, <2>2 DEF rbtdevice_driver_exit
<1>3. ASSUME NEW p \in Procs, rbtdevice_driver_open(p) PROVE IInv'
  BY <1>3, TreeUntouched DEF rbtdevice_driver_open, dev_node, IInv, LinkedIsAllocated
<1>4. ASSUME NEW p \in Procs, rbtdevice_driver_release(p) PROVE IInv'
  BY <1>4, TreeUntouched DEF rbtdevice_driver_release, IInv, LinkedIsAllocated
<1>5. ASSUME NEW p \in Procs, NEW o \in Object, rbtdevice_driver_write(p, o) PROVE IInv'
  <2>0. UNCHANGED <<loaded, class, files, read_from_maximum>> /\ loaded /\ files # {}
    BY <1>5 DEF rbtdevice_driver_write, IInv, LinkedIsAllocated
  <2>1. CASE write_inserts(o)
    <3>1. PICK temp \in Addrs \ allocated : rb_insert(temp, o)
      BY <2>1 DEF write_inserts
    <3>2. CASE wild' /\ UNCHANGED <<linked, allocated, rbt_object, reply>>
      BY <2>0, <3>2, TreeUntouched DEF IInv, LinkedIsAllocated
    <3>3. CASE /\ linked' = linked \cup {temp}
               /\ allocated' = allocated \cup {temp}
               /\ rbt_object' = [rbt_object EXCEPT ![temp] = o]
      <4>1. temp \notin linked
        BY <3>1 DEF IInv, LinkedIsAllocated
      <4>2. rbt_object'[temp] = o /\ \A n \in linked : rbt_object'[n] = rbt_object[n]
        BY <3>3, <4>1 DEF IInv, TypeOK
      <4>3. \A n \in linked : rbt_object[n].key # o.key
        BY <2>1 DEF write_inserts, rb_search
      <4>4. UniqueKeys'
        BY <3>3, <4>2, <4>3 DEF IInv, UniqueKeys
      <4>5. NoTombstoneStored'
        BY <2>1, <3>3, <4>2 DEF write_inserts, IInv, NoTombstoneStored
      <4>6. LinkedIsAllocated'
        BY <2>0, <3>3 DEF IInv, LinkedIsAllocated
      <4> QED
        BY <4>4, <4>5, <4>6 DEF IInv
    <3> QED
      BY <3>1, <3>2, <3>3 DEF rb_insert
  <2>2. CASE write_ignores(o)
    BY <2>0, <2>2, TreeUntouched DEF write_ignores, IInv, LinkedIsAllocated
  <2>3. CASE write_erases(o)
    BY <2>0, <2>3, TreeShrinks DEF write_erases, IInv, LinkedIsAllocated
  <2>4. CASE write_updates(o)
    <3>1. PICK s \in rb_search(o.key), temp \in Addrs \ allocated :
             /\ rbt_object' = [rbt_object EXCEPT ![s].data = o.data]
             /\ allocated' = allocated \cup {temp}
             /\ linked' = linked
      BY <2>4 DEF write_updates
    <3>2. \A n \in linked : /\ rbt_object'[n].key = rbt_object[n].key
                            /\ rbt_object'[n].data \in {rbt_object[n].data, o.data}
      BY <3>1 DEF IInv, TypeOK, Object
    <3>3. UniqueKeys'
      BY <3>1, <3>2 DEF IInv, UniqueKeys
    <3>4. NoTombstoneStored'
      BY <2>4, <3>1, <3>2 DEF IInv, NoTombstoneStored, write_updates
    <3>5. LinkedIsAllocated'
      BY <2>0, <3>1 DEF IInv, LinkedIsAllocated
    <3> QED
      BY <3>3, <3>4, <3>5 DEF IInv
  <2>5. CASE write_without_memory
    BY <2>0, <2>5, TreeUntouched DEF write_without_memory, IInv, LinkedIsAllocated
  <2> QED
    BY <1>5, <2>1, <2>2, <2>3, <2>4, <2>5 DEF rbtdevice_driver_write
<1>6. ASSUME NEW p \in Procs, rbtdevice_driver_read(p) PROVE IInv'
  <2>0. UNCHANGED <<loaded, files>> /\ loaded
    BY <1>6 DEF rbtdevice_driver_read, IInv, LinkedIsAllocated
  <2>1. CASE read_takes
    BY <2>0, <2>1, TreeShrinks DEF read_takes, IInv, LinkedIsAllocated
  <2>2. CASE read_finds_key_0
    BY <2>0, <2>2, TreeUntouched DEF read_finds_key_0, IInv, LinkedIsAllocated
  <2>3. CASE read_empty
    BY <2>0, <2>3, TreeUntouched DEF read_empty, IInv, LinkedIsAllocated
  <2> QED
    BY <1>6, <2>1, <2>2, <2>3 DEF rbtdevice_driver_read
<1>7. ASSUME NEW p \in Procs, NEW v \in {0, 1, 2}, rbtdevice_driver_ioctl(p, v) PROVE IInv'
  BY <1>7, TreeUntouched DEF rbtdevice_driver_ioctl, IInv, LinkedIsAllocated
<1>8. CASE UNCHANGED vars
  BY <1>8, TreeUntouched DEF IInv, LinkedIsAllocated
<1> QED
  BY <1>1, <1>2, <1>3, <1>4, <1>5, <1>6, <1>7, <1>8 DEF Next

LEMMA InvAlways == Spec => []IInv
<1>1. Init => IInv
  BY TypeInit DEF Init, IInv, UniqueKeys, NoTombstoneStored, LinkedIsAllocated
<1> QED
  BY <1>1, InvStep, PTL DEF Spec

\* At every moment the tree holds at most one node per key, no node stands
\* for a deletion, and every node is live memory of a loaded module.
THEOREM InvCorrect == Spec => [](UniqueKeys /\ NoTombstoneStored /\ LinkedIsAllocated)
<1>1. IInv => UniqueKeys /\ NoTombstoneStored /\ LinkedIsAllocated
  BY DEF IInv
<1> QED
  BY <1>1, InvAlways, PTL

\* What the tree links is always live memory of the loaded module: no call, no
\* failure of memory and no order of loads and unloads leaves a node in the tree
\* whose memory was freed, and an unloaded module has left no node and no open file.
THEOREM MemoryCorrect == Spec => []LinkedIsAllocated
<1>1. IInv => LinkedIsAllocated
  BY DEF IInv
<1> QED
  BY <1>1, InvAlways, PTL

-----------------------------------------------------------------------------
\* No call frees memory that it does not take out of the tree: neither a
\* double free nor the recovery of a leaked node is possible.
THEOREM FreesCorrect == Spec => FreesOnlyWhatItUnlinks
<1> DEFINE Frees == \A n \in allocated \ allocated' : n \in linked /\ n \notin linked'
<1>1. ASSUME [Next]_vars PROVE Frees
  <2>1. CASE rbtdevice_driver_init
    BY <2>1 DEF rbtdevice_driver_init, init_succeeds, init_fails
  <2>2. CASE rbtdevice_driver_exit
    BY <2>2 DEF rbtdevice_driver_exit, exit_deletes, exit_goes_wild
  <2>3. ASSUME NEW p \in Procs, rbtdevice_driver_open(p) PROVE Frees
    BY <2>3 DEF rbtdevice_driver_open
  <2>4. ASSUME NEW p \in Procs, rbtdevice_driver_release(p) PROVE Frees
    BY <2>4 DEF rbtdevice_driver_release
  <2>5. ASSUME NEW p \in Procs, NEW o \in Object, rbtdevice_driver_write(p, o) PROVE Frees
    BY <2>5 DEF rbtdevice_driver_write, write_inserts, rb_insert, write_ignores,
                write_erases, rb_search, write_updates, write_without_memory
  <2>6. ASSUME NEW p \in Procs, rbtdevice_driver_read(p) PROVE Frees
    BY <2>6 DEF rbtdevice_driver_read, read_takes, read_finds_key_0, read_empty, find_end
  <2>7. ASSUME NEW p \in Procs, NEW v \in {0, 1, 2}, rbtdevice_driver_ioctl(p, v) PROVE Frees
    BY <2>7 DEF rbtdevice_driver_ioctl
  <2> QED
    BY <1>1, <2>1, <2>2, <2>3, <2>4, <2>5, <2>6, <2>7 DEF Next
<1> QED
  BY <1>1, PTL DEF Spec, FreesOnlyWhatItUnlinks

-----------------------------------------------------------------------------
(* The driver implements the ordered store: each call is one step of the   *)
(* store on the objects that the linked nodes hold, or leaves it alone.    *)

Stored == {rbt_object[n] : n \in linked}

\* A step that leaves the tree alone leaves the store alone.
LEMMA SameTreeSameStore ==
  ASSUME UNCHANGED <<linked, rbt_object>>
  PROVE  UNCHANGED Stored
BY DEF Stored

\* Unlinking the node of a key removes exactly the object of that key.
LEMMA UnlinkRemoves ==
  ASSUME IInv, NEW n \in linked,
         linked' = linked \ {n}, rbt_object' = rbt_object
  PROVE  /\ Stored' = Stored \ {rbt_object[n]}
         /\ Stored' = {p \in Stored : p.key # rbt_object[n].key}
BY DEF IInv, UniqueKeys, Stored

LEMMA WriteRefines ==
  ASSUME IInv, ~wild, NEW o \in Object, NEW p \in Procs, rbtdevice_driver_write(p, o)
  PROVE  Store!Write(o) \/ Store!Break
<1> USE DEF Returns, Store!Reply
<1>0. End' = End
  BY DEF rbtdevice_driver_write, End
<1>1. CASE write_inserts(o)
  <2>1. PICK temp \in Addrs \ allocated : rb_insert(temp, o)
    BY <1>1 DEF write_inserts
  <2>2. CASE /\ linked = {}
             /\ wild' = TRUE
             /\ UNCHANGED <<linked, allocated, rbt_object, reply>>
    BY <1>0, <2>2 DEF Store!Break
  <2>3. CASE /\ linked' = linked \cup {temp}
             /\ rbt_object' = [rbt_object EXCEPT ![temp] = o]
             /\ Returns(0)
             /\ UNCHANGED wild
    <3>1. temp \in Addrs /\ temp \notin linked
      BY <2>1 DEF IInv, LinkedIsAllocated
    <3>2. rbt_object'[temp] = o /\ \A n \in linked : rbt_object'[n] = rbt_object[n]
      BY <2>3, <3>1 DEF IInv, TypeOK
    <3>3. Stored' = Stored \cup {o}
      BY <2>3, <3>2 DEF Stored
    <3>4. {q \in Stored : q.key # o.key} = Stored
      BY <1>1 DEF write_inserts, rb_search, Stored
    <3>5. Stored' = {q \in Stored : q.key # o.key} \cup {o}
      BY <3>3, <3>4
    <3> QED
      BY <1>0, <1>1, <2>3, <3>5 DEF Store!Write, Stored, write_inserts
  <2> QED
    BY <2>1, <2>2, <2>3 DEF rb_insert
<1>2. CASE write_ignores(o)
  <2>1. {q \in Stored : q.key # o.key} = Stored
    BY <1>2 DEF write_ignores, rb_search, Stored
  <2>2. Stored' = {q \in Stored : q.key # o.key} \cup {}
    BY <1>2, <2>1, SameTreeSameStore DEF write_ignores
  <2> QED
    BY <1>0, <1>2, <2>2 DEF write_ignores, Store!Write, Stored
<1>3. CASE write_erases(o)
  <2>1. PICK s \in rb_search(o.key) : linked' = linked \ {s}
    BY <1>3 DEF write_erases
  <2>2. s \in linked /\ rbt_object[s].key = o.key
    BY <2>1 DEF rb_search
  <2>3. Stored' = {q \in Stored : q.key # o.key} \cup {}
    BY <1>3, <2>1, <2>2, UnlinkRemoves DEF write_erases
  <2> QED
    BY <1>0, <1>3, <2>3 DEF write_erases, Store!Write, Stored
<1>4. CASE write_updates(o)
  <2>1. PICK s \in rb_search(o.key) : rbt_object' = [rbt_object EXCEPT ![s].data = o.data]
    BY <1>4 DEF write_updates
  <2>2. s \in linked /\ s \in Addrs /\ rbt_object[s].key = o.key
    BY <2>1 DEF rb_search, IInv, TypeOK
  <2>3. rbt_object'[s] = o
    <3>1. rbt_object'[s] = [rbt_object[s] EXCEPT !.data = o.data]
      BY <2>1, <2>2 DEF IInv, TypeOK
    <3>2. rbt_object[s] \in Object
      BY <2>2 DEF IInv, TypeOK
    <3> QED
      BY <2>2, <3>1, <3>2 DEF Object
  <2>4. \A n \in linked : n # s => rbt_object'[n] = rbt_object[n] /\ rbt_object[n].key # o.key
    BY <2>1, <2>2 DEF IInv, TypeOK, UniqueKeys
  <2>5. linked' = linked
    BY <1>4 DEF write_updates
  <2>6. Stored' = {q \in Stored : q.key # o.key} \cup {o}
    BY <2>2, <2>3, <2>4, <2>5 DEF Stored
  <2> QED
    BY <1>0, <1>4, <2>6 DEF write_updates, Store!Write, Stored
<1>5. CASE write_without_memory
  BY <1>0, <1>5 DEF write_without_memory, Store!Break
<1> QED
  BY <1>1, <1>2, <1>3, <1>4, <1>5 DEF rbtdevice_driver_write

LEMMA ReadRefines ==
  ASSUME IInv, ~wild, NEW p \in Procs, rbtdevice_driver_read(p)
  PROVE  Store!ReadTakes \/ Store!ReadFails \/ Store!Break
<1> USE DEF Returns, Store!Reply
<1>0. End' = End
  BY DEF rbtdevice_driver_read, End
<1>1. \A n \in find_end : n \in linked /\ rbt_object[n] \in Store!AtEnd(Stored, End)
  BY DEF find_end, Store!AtEnd, Stored, End, IInv, TypeOK
<1>2. CASE read_takes
  <2>1. PICK n \in find_end :
           /\ rbt_object[n].key # 0
           /\ linked' = linked \ {n}
           /\ reply' = [ret |-> Store!SIZEOF_OBJECT, got |-> {rbt_object[n]}]
           /\ UNCHANGED <<rbt_object, wild>>
    BY <1>2 DEF read_takes
  <2>2. Stored' = Stored \ {rbt_object[n]}
    BY <1>1, <2>1, UnlinkRemoves
  <2>3. Store!ReadTakes
    BY <1>0, <1>1, <2>1, <2>2 DEF Store!ReadTakes, Stored
  <2> QED
    BY <2>3
<1>3. CASE read_finds_key_0
  BY <1>0, <1>1, <1>3 DEF read_finds_key_0, Store!ReadFails, Stored
<1>4. CASE read_empty
  <2>1. Stored = {}
    BY <1>4 DEF read_empty, Stored
  <2>2. Stored' = Stored
    BY <1>4 DEF read_empty, Stored
  <2>3. CASE Returns(-1) /\ UNCHANGED wild
    BY <1>0, <2>1, <2>2, <2>3 DEF Store!ReadFails, Stored
  <2>4. CASE wild' = TRUE /\ UNCHANGED reply
    BY <1>0, <2>2, <2>4 DEF Store!Break, Stored
  <2> QED
    BY <1>4, <2>3, <2>4 DEF read_empty
<1> QED
  BY <1>2, <1>3, <1>4 DEF rbtdevice_driver_read

LEMMA StepRefines == IInv /\ [Next]_vars => [Store!Next]_(Store!storeVars)
<1> SUFFICES ASSUME IInv, [Next]_vars
             PROVE  Store!Next \/ UNCHANGED <<Stored, End, reply, wild>>
  BY DEF Store!storeVars, Stored
<1> USE DEF Returns, Opened, Store!Reply
<1>1. CASE rbtdevice_driver_init
  <2>1. CASE init_succeeds
    <3>1. linked = {} /\ linked' = {}
      BY <1>1, <2>1 DEF rbtdevice_driver_init, init_succeeds, IInv, LinkedIsAllocated
    <3>2. Store!Load
      BY <1>1, <2>1, <3>1 DEF rbtdevice_driver_init, init_succeeds, End, Store!Load
    <3> QED
      BY <3>2 DEF Store!Next
  <2>2. CASE init_fails
    BY <2>2 DEF init_fails, Stored, End
  <2> QED
    BY <1>1, <2>1, <2>2 DEF rbtdevice_driver_init
<1>2. CASE rbtdevice_driver_exit
  <2>1. CASE exit_deletes
    BY <1>2, <2>1 DEF rbtdevice_driver_exit, exit_deletes, End, Store!Unload, Store!Next
  <2>2. CASE exit_goes_wild
    BY <1>2, <2>2 DEF rbtdevice_driver_exit, exit_goes_wild, End, Store!Break, Store!Next
  <2> QED
    BY <1>2, <2>1, <2>2 DEF rbtdevice_driver_exit
<1>3. ASSUME NEW p \in Procs, rbtdevice_driver_open(p) PROVE Store!Next
  BY <1>3 DEF rbtdevice_driver_open, End, Store!SetEnd, Store!Next
<1>4. ASSUME NEW p \in Procs, rbtdevice_driver_release(p) PROVE Store!Next
  BY <1>4 DEF rbtdevice_driver_release, End, Store!SetEnd, Store!Next
<1>5. ASSUME NEW p \in Procs, NEW o \in Object, rbtdevice_driver_write(p, o) PROVE Store!Next
  <2>1. ~wild
    BY <1>5 DEF rbtdevice_driver_write
  <2>2. Store!Write(o) \/ Store!Break
    BY <1>5, <2>1, WriteRefines
  <2> QED
    BY <2>2 DEF Store!Next, Store!Object, Object
<1>6. ASSUME NEW p \in Procs, rbtdevice_driver_read(p) PROVE Store!Next
  <2>1. ~wild
    BY <1>6 DEF rbtdevice_driver_read
  <2> QED
    BY <1>6, <2>1, ReadRefines DEF Store!Next
<1>7. ASSUME NEW p \in Procs, NEW v \in {0, 1, 2}, rbtdevice_driver_ioctl(p, v) PROVE Store!Next
  BY <1>7 DEF rbtdevice_driver_ioctl, End, Store!SetEnd, Store!Next
<1>8. CASE UNCHANGED vars
  BY <1>8 DEF Stored, End
<1> QED
  BY <1>1, <1>2, <1>3, <1>4, <1>5, <1>6, <1>7, <1>8 DEF Next

\* The driver is an ordered store: whatever its callers observe of writes,
\* reads and reloads, up to a wild pointer, the store allows.
THEOREM DriverImplementsStore == Spec => ImplementsStore
<1>1. Init => Store!Init
  BY DEF Init, Store!Init, End, NoReply, Store!Reply
<1> QED
  BY <1>1, StepRefines, InvAlways, PTL DEF Spec, ImplementsStore, Store!Spec

=============================================================================
