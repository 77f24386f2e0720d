------------------------------- MODULE KProbe -------------------------------
(***************************************************************************)
(* Kprobe_samples/KProbe.c: a character device through which processes put *)
(* one kprobe on the read or the write function of the rbtdevice driver,   *)
(* take it away, and fetch what its last hit recorded.                     *)
(*                                                                         *)
(* The module owns a single struct kprobe, kp, and sets its address before *)
(* it asks the kernel to register it.  Nothing is locked: a process can be *)
(* preempted between the two, and other processes write meanwhile.  The    *)
(* rbtdevice driver stays loaded.                                          *)
(***************************************************************************)
EXTENDS Integers

CONSTANTS Procs,     \* processes that use /dev/RBProbe
          Functions, \* function types 0 (read) and 1 (write)
          Offsets,   \* the instructions of a function that can be probed
          Callers    \* the pids of processes that call the rbtdevice driver

ASSUME KProbeAssumption ==
  /\ Functions \subseteq {0, 1}
  /\ Callers \subseteq Nat \ {0}

VARIABLES
  loaded,     \* the module is in the kernel
  node,       \* /dev/RBProbe: "none", "live", or "dangling" into an unloaded module
  class_left, \* the class of an earlier load is still registered
  pc,         \* "closed", "open", or "register": kp.addr is set, kp not registered
  addr,       \* kp.addr
  copied,     \* the place whose instruction kp saved (kp.opcode and kp.ainsn)
  table,      \* the places under which the kernel's table of kprobes finds kp
  head,       \* the place under which kp was linked last
  disabled,   \* KPROBE_FLAG_DISABLED in kp.flags
  text,       \* the code at each place: its own, a breakpoint, or another place's
  rd,         \* what the last hit recorded, and what kprobe_read gives away
  got,        \* what the last kprobe_read gave its caller: the return value and rd
  wild        \* the kernel ran into a stray breakpoint or memory that is not its own

vars == <<loaded, node, class_left, pc, addr, copied, table, head, disabled, text, rd, got, wild>>
kpVars == <<addr, copied, table, head, disabled, text>>

Places == Functions \X Offsets
None == <<>>
BREAKPOINT == <<"int3">>
NoData == [pid |-> 0, address |-> None]
SIZEOF_TRACE_DATA == 12

Armed == {a \in Places : text[a] = BREAKPOINT}

-----------------------------------------------------------------------------
(* The kernel's kprobes.                                                   *)

\* get_kprobe walks the list that place a hashes to and compares addresses.
get_kprobe(a) == loaded /\ a \in table /\ addr = a

\* register_kprobe: refused for no address and for a probe that is found
\* under its address.  A probe that is linked under another address is not
\* found: it is linked once more, and its copy of an instruction replaced.
\* A probe that is disabled is linked, but its breakpoint is not set.  It also
\* refuses places that are no instruction's beginning: Places are those it takes.
register_kprobe ==
  /\ UNCHANGED disabled
  /\ IF addr = None \/ get_kprobe(addr)
     THEN UNCHANGED <<copied, table, head, text>>
     ELSE /\ copied' = addr
          /\ table' = table \cup {addr}
          /\ head' = addr
          /\ text' = IF disabled THEN text ELSE [text EXCEPT ![addr] = BREAKPOINT]

\* unregister_kprobe: disables kp, which puts the copied instruction back at
\* kp.addr, takes it out of the list it was linked into last, and frees the
\* copy.  KProbe.c never clears kp.flags: kp stays disabled until the module
\* is loaded again.  A probe that is not found loses its address; one that is
\* found, but whose copy is freed, is taken out of its list twice.
unregister_kprobe ==
  IF addr # None /\ get_kprobe(addr)
  THEN /\ text' = IF disabled THEN text ELSE [text EXCEPT ![addr] = copied]
       /\ disabled' = TRUE
       /\ table' = table \ {head}
       /\ copied' = None
       /\ wild' = (copied = None)
       /\ UNCHANGED <<addr, head>>
  ELSE /\ addr' = None
       /\ UNCHANGED <<copied, table, head, disabled, text, wild>>

-----------------------------------------------------------------------------
(* The handlers.                                                           *)

\* A process that calls the rbtdevice driver reaches a place whose code is
\* not its own.  A breakpoint leads to kp, and so to Pre_Handler and
\* Post_Handler; without a probe for it, or with the wrong instruction in
\* its place, the kernel goes wild.
hit(a, pid) ==
  /\ ~wild
  /\ text[a] # a
  /\ IF text[a] = BREAKPOINT /\ get_kprobe(a) /\ copied = a
     THEN rd' = [pid |-> pid, address |-> addr] /\ UNCHANGED wild
     ELSE wild' = TRUE /\ UNCHANGED rd
  /\ UNCHANGED <<loaded, node, class_left, pc, kpVars, got>>

-----------------------------------------------------------------------------
(* The file operations.                                                    *)

\* A node that outlives the module leads to file operations in freed memory.
kprobe_open(p) ==
  /\ ~wild
  /\ pc[p] = "closed"
  /\ \/ node = "live" /\ pc' = [pc EXCEPT ![p] = "open"] /\ UNCHANGED wild
     \/ node = "dangling" /\ wild' = TRUE /\ UNCHANGED pc
  /\ UNCHANGED <<loaded, node, class_left, kpVars, rd, got>>

kprobe_close(p) ==
  /\ ~wild
  /\ pc[p] = "open"
  /\ pc' = [pc EXCEPT ![p] = "closed"]
  /\ UNCHANGED <<loaded, node, class_left, kpVars, rd, got, wild>>

\* Flag 1: the address...
write_address(p, a) ==
  /\ ~wild
  /\ pc[p] = "open"
  /\ pc' = [pc EXCEPT ![p] = "register"]
  /\ addr' = a
  /\ UNCHANGED <<loaded, node, class_left, copied, table, head, disabled, text, rd, got, wild>>

\* ...and the registration, whose result is ignored.
write_register(p) ==
  /\ ~wild
  /\ pc[p] = "register"
  /\ pc' = [pc EXCEPT ![p] = "open"]
  /\ register_kprobe
  /\ UNCHANGED <<loaded, node, class_left, addr, rd, got, wild>>

\* Mutant: kp.addr is cleared first, so that the kernel finds no probe.
unregister_cleared(p) ==
  /\ ~wild
  /\ pc[p] = "open"
  /\ addr' = None
  /\ UNCHANGED <<loaded, node, class_left, pc, copied, table, head, disabled, text, rd, got, wild>>

\* Flag 0.  The function type only has to be 0 or 1; the offset is not used.
write_unregister(p) ==
  /\ ~wild
  /\ pc[p] = "open"
  /\ unregister_kprobe
  /\ UNCHANGED <<loaded, node, class_left, pc, rd, got>>

\* Read: rd, hit or not.  It is copied in one step: that a hit may write its
\* fields between the bytes of a copy is left out.
kprobe_read(p) ==
  /\ ~wild
  /\ pc[p] = "open"
  /\ got' = [ret |-> SIZEOF_TRACE_DATA, data |-> rd]
  /\ UNCHANGED <<loaded, node, class_left, pc, kpVars, rd, wild>>

-----------------------------------------------------------------------------
(* Loading and unloading.                                                  *)

\* The class of an earlier load makes class_create and device_create fail;
\* neither result is checked.  The module's data start as zeros: if the
\* kernel's table still leads to the kp of an earlier load, it leads astray.
init_succeeds ==
  /\ loaded' = TRUE
  /\ node' = IF class_left THEN node ELSE "live"
  /\ addr' = None /\ copied' = None /\ head' = None /\ disabled' = FALSE
  /\ rd' = NoData
  /\ wild' = (table # {})
  /\ UNCHANGED <<class_left, pc, table, text, got>>

\* "Bad Kmalloc" and "Bad cdev" leave the class behind.
init_fails ==
  /\ class_left' = TRUE
  /\ UNCHANGED <<loaded, node, pc, kpVars, rd, got, wild>>

kprobe_init ==
  /\ ~wild /\ ~loaded
  /\ init_succeeds \/ init_fails

CanUnload == ~wild /\ loaded /\ \A p \in Procs : pc[p] = "closed"

\* The device, its node, the class and the major number stay.
leaves_device ==
  /\ loaded' = FALSE
  /\ node' = IF node = "live" THEN "dangling" ELSE node
  /\ class_left' = TRUE
  /\ UNCHANGED <<pc, rd, got>>

\* Mutant: the probe stays registered.
exit_unregisters_nothing == CanUnload /\ leaves_device /\ UNCHANGED <<kpVars, wild>>

\* A probe that was registered twice stays in the kernel's table: `table' is
\* then left leading to a kp in freed memory.
kprobe_exit == CanUnload /\ leaves_device /\ unregister_kprobe

-----------------------------------------------------------------------------
Init ==
  /\ loaded = FALSE /\ node = "none" /\ class_left = FALSE
  /\ pc = [p \in Procs |-> "closed"]
  /\ addr = None /\ copied = None /\ head = None /\ disabled = FALSE
  /\ table = {}
  /\ text = [a \in Places |-> a]
  /\ rd = NoData
  /\ got = [ret |-> 0, data |-> NoData]
  /\ wild = FALSE

\* Everything but the start of a registration.
others ==
  \/ \E a \in Places, pid \in Callers : hit(a, pid)
  \/ \E p \in Procs :
       \/ kprobe_open(p) \/ kprobe_close(p)
       \/ write_register(p) \/ write_unregister(p)
       \/ kprobe_read(p)
  \/ kprobe_init \/ kprobe_exit

Next == others \/ \E p \in Procs, a \in Places : write_address(p, a)
Spec == Init /\ [][Next]_vars

\* Processes that agree among themselves: a probe is only registered when
\* there is none and nobody else is registering one.
CarefulNext ==
  \/ others
  \/ /\ table = {}
     /\ \A q \in Procs : pc[q] # "register"
     /\ \E p \in Procs, a \in Places : write_address(p, a)
CarefulSpec == Init /\ [][CarefulNext]_vars

-----------------------------------------------------------------------------
(* Properties.                                                             *)

TypeOK ==
  /\ loaded \in BOOLEAN /\ class_left \in BOOLEAN
  /\ disabled \in BOOLEAN /\ wild \in BOOLEAN
  /\ node \in {"none", "live", "dangling"}
  /\ pc \in [Procs -> {"closed", "open", "register"}]
  /\ addr \in Places \cup {None}
  /\ copied \in Places \cup {None} /\ head \in Places \cup {None}
  /\ table \subseteq Places
  /\ text \in [Places -> Places \cup {None, BREAKPOINT}]
  /\ rd \in [pid : Callers \cup {0}, address : Places \cup {None}]
  /\ got \in [ret : {0, SIZEOF_TRACE_DATA}, data : [pid : Callers \cup {0}, address : Places \cup {None}]]

\* While processes agree on who registers: wherever code is not its own there
\* is a breakpoint, the kernel finds kp for it, and kp holds the instruction
\* that belongs there.  No call of the rbtdevice driver meets a stray one.
ProbesAreFound ==
  \A a \in Places : text[a] # a => text[a] = BREAKPOINT /\ get_kprobe(a) /\ copied = a

\* The probe taken as one thing: attached at a place or nowhere, spent once it
\* is detached, and a record of its last hit.
Probe == INSTANCE OneProbe WITH probed <- Armed, spent <- disabled

\* However opens, closes, preempted registrations, hits and reloads
\* interleave, careful processes see one probe that is attached, hit, read and
\* detached once per load, and that is gone with the module.
ImplementsProbe == Probe!Spec

=============================================================================
