---------------------------- MODULE KProbeProofs ----------------------------
(***************************************************************************)
(* Theorems about KProbe, for any processes, functions, instructions and   *)
(* callers: the type invariant of all behaviours, and, of the behaviours   *)
(* of careful processes, that every breakpoint leads to the probe and that *)
(* the module implements OneProbe.                                         *)
(***************************************************************************)
EXTENDS KProbe, Sequences, TLAPS

\* A breakpoint and a missing address are no places: places are pairs.
LEMMA NoPlaces == BREAKPOINT \notin Places /\ None \notin Places /\ None # BREAKPOINT
  <1>1. ASSUME NEW a \in Places PROVE Len(a) = 2
    BY <1>1 DEF Places
  <1>2. Len(BREAKPOINT) = 1 /\ Len(None) = 0
    BY DEF BREAKPOINT, None
  <1>. QED
    BY <1>1, <1>2

-----------------------------------------------------------------------------
(* The type invariant.                                                     *)

LEMMA TypeInit == Init => TypeOK
  <1>. SUFFICES ASSUME Init PROVE TypeOK
    OBVIOUS
  <1>1. NoData \in [pid : Callers \cup {0}, address : Places \cup {None}]
    BY DEF NoData
  <1>2. rd = NoData /\ got = [ret |-> 0, data |-> NoData]
    BY DEF Init
  <1>3. got \in [ret : {0, SIZEOF_TRACE_DATA}, data : [pid : Callers \cup {0}, address : Places \cup {None}]]
    BY <1>1, <1>2
  <1>4. text \in [Places -> Places \cup {None, BREAKPOINT}]
    BY DEF Init
  <1>5. pc \in [Procs -> {"closed", "open", "register"}]
    BY DEF Init
  <1>6. /\ loaded \in BOOLEAN /\ class_left \in BOOLEAN
        /\ disabled \in BOOLEAN /\ wild \in BOOLEAN
        /\ node \in {"none", "live", "dangling"}
        /\ addr \in Places \cup {None}
        /\ copied \in Places \cup {None} /\ head \in Places \cup {None}
        /\ table \subseteq Places
    BY DEF Init
  <1>. QED
    BY <1>1, <1>2, <1>3, <1>4, <1>5, <1>6 DEF TypeOK

\* What the kernel's functions keep.
LEMMA RegisterType == ASSUME TypeOK, register_kprobe
                      PROVE  /\ copied' \in Places \cup {None} /\ head' \in Places \cup {None}
                             /\ table' \subseteq Places /\ disabled' \in BOOLEAN
                             /\ text' \in [Places -> Places \cup {None, BREAKPOINT}]
  BY DEF TypeOK, register_kprobe, get_kprobe

LEMMA UnregisterType == ASSUME TypeOK, unregister_kprobe
                        PROVE  /\ addr' \in Places \cup {None}
                               /\ copied' \in Places \cup {None} /\ head' \in Places \cup {None}
                               /\ table' \subseteq Places
                               /\ disabled' \in BOOLEAN /\ wild' \in BOOLEAN
                               /\ text' \in [Places -> Places \cup {None, BREAKPOINT}]
  <1>1. CASE addr # None /\ get_kprobe(addr)
    <2>1. /\ text' = IF disabled THEN text ELSE [text EXCEPT ![addr] = copied]
          /\ disabled' = TRUE /\ table' = table \ {head} /\ copied' = None
          /\ addr' = addr /\ head' = head
      BY <1>1 DEF unregister_kprobe
    <2>2. wild' \in BOOLEAN
      BY <1>1, Zenon DEF unregister_kprobe
    <2>3. text' \in [Places -> Places \cup {None, BREAKPOINT}]
      BY <2>1 DEF TypeOK
    <2>. QED
      BY <2>1, <2>2, <2>3 DEF TypeOK
  <1>2. CASE ~(addr # None /\ get_kprobe(addr))
    BY <1>2 DEF unregister_kprobe, TypeOK
  <1>. QED
    BY <1>1, <1>2

LEMMA TypeStep == TypeOK /\ [Next]_vars => TypeOK'
  <1>. SUFFICES ASSUME TypeOK, [Next]_vars PROVE TypeOK'
    OBVIOUS
  <1>1. ASSUME NEW a \in Places, NEW pid \in Callers, hit(a, pid) PROVE TypeOK'
    <2>1. /\ rd' = rd \/ rd' = [pid |-> pid, address |-> addr]
          /\ wild' = wild \/ wild' = TRUE
          /\ UNCHANGED <<loaded, node, class_left, pc, addr, copied, table, head, disabled, text, got>>
      BY <1>1 DEF hit, kpVars
    <2>2. rd' \in [pid : Callers \cup {0}, address : Places \cup {None}]
      BY <2>1 DEF TypeOK
    <2>3. wild' \in BOOLEAN
      BY <2>1 DEF TypeOK
    <2>. QED
      BY <2>1, <2>2, <2>3, SMTT(60) DEF TypeOK
  <1>2. ASSUME NEW p \in Procs, kprobe_open(p) \/ kprobe_close(p) PROVE TypeOK'
    BY <1>2 DEF kprobe_open, kprobe_close, TypeOK, kpVars
  <1>3. ASSUME NEW p \in Procs, NEW a \in Places, write_address(p, a) PROVE TypeOK'
    BY <1>3 DEF write_address, TypeOK
  <1>4. ASSUME NEW p \in Procs, write_register(p) PROVE TypeOK'
    BY <1>4, RegisterType DEF write_register, TypeOK
  <1>5. ASSUME NEW p \in Procs, write_unregister(p) PROVE TypeOK'
    BY <1>5, UnregisterType DEF write_unregister, TypeOK
  <1>6. ASSUME NEW p \in Procs, kprobe_read(p) PROVE TypeOK'
    BY <1>6 DEF kprobe_read, TypeOK, kpVars, SIZEOF_TRACE_DATA
  <1>7. CASE kprobe_init
    <2>1. CASE init_succeeds
      <3>1. wild' \in BOOLEAN
        BY <2>1, Zenon DEF init_succeeds
      <3>2. NoData \in [pid : Callers \cup {0}, address : Places \cup {None}]
        BY DEF NoData
      <3>3. /\ loaded' = TRUE /\ node' \in {node, "live"} /\ disabled' = FALSE
            /\ addr' = None /\ copied' = None /\ head' = None /\ rd' = NoData
            /\ UNCHANGED <<class_left, pc, table, text, got>>
        BY <2>1 DEF init_succeeds
      <3>. QED
        BY <3>1, <3>2, <3>3 DEF TypeOK
    <2>2. CASE init_fails
      BY <2>2 DEF init_fails, TypeOK, kpVars
    <2>. QED
      BY <1>7, <2>1, <2>2 DEF kprobe_init
  <1>8. CASE kprobe_exit
    BY <1>8, UnregisterType DEF kprobe_exit, CanUnload, leaves_device, TypeOK
  <1>9. CASE UNCHANGED vars
    BY <1>9 DEF vars, TypeOK
  <1>. QED
    BY <1>1, <1>2, <1>3, <1>4, <1>5, <1>6, <1>7, <1>8, <1>9 DEF Next, others

\* Every variable of the module and of the kernel's table keeps its type, also
\* when processes do not agree on who registers.
THEOREM TypeCorrect == Spec => []TypeOK
  BY TypeInit, TypeStep, PTL DEF Spec

-----------------------------------------------------------------------------
(* Careful processes.                                                      *)

\* There is no probe and all code is its own, or kp is linked under the address
\* it has, holds the instruction from there, and nothing else is changed.
Unprobed == table = {} /\ \A a \in Places : text[a] = a
Probed ==
  /\ loaded /\ addr \in Places
  /\ table = {addr} /\ head = addr /\ copied = addr
  /\ text[addr] = IF disabled THEN addr ELSE BREAKPOINT
  /\ \A a \in Places \ {addr} : text[a] = a

\* Only one process at a time is between the address and the registration, and
\* then there is no probe whose address it could have changed.
CarefulInv ==
  /\ TypeOK
  /\ node = "live" => loaded
  /\ \A p \in Procs : pc[p] # "closed" => loaded
  /\ \A p, q \in Procs : pc[p] = "register" /\ pc[q] = "register" => p = q
  /\ \A p \in Procs : pc[p] = "register" => table = {}
  /\ Unprobed \/ Probed

LEMMA CarefulInit == Init => CarefulInv
  BY TypeInit DEF Init, CarefulInv, Unprobed

\* Registering makes the one probe, unless it is refused.
LEMMA RegisterProbes ==
  ASSUME CarefulInv, loaded, table = {}, register_kprobe, UNCHANGED <<loaded, addr>>
  PROVE  \/ UNCHANGED <<copied, table, head, disabled, text>> /\ Unprobed'
         \/ Probed' /\ disabled' = disabled /\ text' = IF disabled THEN text
                                                       ELSE [text EXCEPT ![addr] = BREAKPOINT]
  <1>1. Unprobed
    BY DEF CarefulInv, Probed
  <1>2. CASE addr = None \/ get_kprobe(addr)
    BY <1>1, <1>2 DEF register_kprobe, Unprobed
  <1>3. CASE ~(addr = None \/ get_kprobe(addr))
    BY <1>1, <1>3 DEF register_kprobe, Unprobed, Probed, CarefulInv, TypeOK
  <1>. QED
    BY <1>2, <1>3

\* Unregistering takes it away, or finds that there is none.
LEMMA UnregisterRestores ==
  ASSUME CarefulInv, unregister_kprobe, ~wild
  PROVE  /\ Unprobed' /\ ~wild'
         /\ \/ UNCHANGED <<text, disabled>>
            \/ loaded /\ disabled'
  <1>1. CASE Unprobed
    BY <1>1 DEF Unprobed, unregister_kprobe, get_kprobe
  <1>2. CASE Probed
    <2>1. addr # None /\ get_kprobe(addr)
      BY <1>2, NoPlaces DEF Probed, get_kprobe
    <2>2. /\ text' = IF disabled THEN text ELSE [text EXCEPT ![addr] = copied]
          /\ disabled' = TRUE /\ table' = table \ {head} /\ wild' = (copied = None)
      BY <2>1 DEF unregister_kprobe
    <2>3. text \in [Places -> Places \cup {None, BREAKPOINT}]
      BY DEF CarefulInv, TypeOK
    <2>4. addr \in Places /\ copied = addr /\ head = addr /\ table = {addr}
      BY <1>2 DEF Probed
    <2>5. ~wild'
      BY <2>2, <2>4, NoPlaces
    <2>6. ASSUME NEW a \in Places PROVE text'[a] = a
      BY <1>2, <2>2, <2>3, <2>4 DEF Probed
    <2>. QED
      BY <1>2, <2>2, <2>4, <2>5, <2>6 DEF Probed, Unprobed
  <1>. QED
    BY <1>1, <1>2 DEF CarefulInv

LEMMA CarefulStep == CarefulInv /\ [CarefulNext]_vars => CarefulInv'
  <1>. SUFFICES ASSUME CarefulInv, [CarefulNext]_vars PROVE CarefulInv'
    OBVIOUS
  <1>t. TypeOK'
    BY TypeStep DEF CarefulInv, CarefulNext, Next
  <1>p. pc \in [Procs -> {"closed", "open", "register"}]
    BY DEF CarefulInv, TypeOK
  <1>. USE <1>t DEF CarefulInv
  <1>1. ASSUME NEW a \in Places, NEW pid \in Callers, hit(a, pid) PROVE CarefulInv'
    BY <1>1 DEF hit, kpVars, Unprobed, Probed
  <1>2. ASSUME NEW p \in Procs, kprobe_open(p) \/ kprobe_close(p) PROVE CarefulInv'
    <2>1. /\ UNCHANGED <<loaded, node, addr, copied, table, head, disabled, text>>
          /\ \/ pc' = pc
             \/ pc' = [pc EXCEPT ![p] = "open"] /\ node = "live"
             \/ pc' = [pc EXCEPT ![p] = "closed"]
      BY <1>2 DEF kprobe_open, kprobe_close, kpVars
    <2>. QED
      BY <1>p, <2>1 DEF Unprobed, Probed
  <1>3. ASSUME NEW p \in Procs, NEW a \in Places, write_address(p, a), table = {},
               \A q \in Procs : pc[q] # "register"
        PROVE  CarefulInv'
    BY <1>p, <1>3 DEF write_address, Unprobed, Probed
  <1>4. ASSUME NEW p \in Procs, write_register(p) PROVE CarefulInv'
    <2>1. /\ pc[p] = "register" /\ pc' = [pc EXCEPT ![p] = "open"]
          /\ loaded /\ table = {} /\ register_kprobe /\ UNCHANGED <<loaded, addr, node>>
      BY <1>4 DEF write_register
    <2>2. Unprobed' \/ Probed'
      BY <2>1, RegisterProbes
    <2>3. \A q \in Procs : pc'[q] # "register"
      BY <1>p, <2>1
    <2>. QED
      BY <1>p, <2>1, <2>2, <2>3
  <1>5. ASSUME NEW p \in Procs, write_unregister(p) PROVE CarefulInv'
    <2>1. Unprobed' /\ UNCHANGED <<loaded, node, pc>>
      BY <1>5, UnregisterRestores DEF write_unregister
    <2>. QED
      BY <2>1 DEF Unprobed
  <1>6. ASSUME NEW p \in Procs, kprobe_read(p) PROVE CarefulInv'
    BY <1>6 DEF kprobe_read, kpVars, Unprobed, Probed
  <1>7. CASE kprobe_init
    BY <1>7 DEF kprobe_init, init_succeeds, init_fails, kpVars, Unprobed, Probed
  <1>8. CASE kprobe_exit
    <2>1. Unprobed' /\ pc' = pc /\ (\A p \in Procs : pc[p] = "closed") /\ node' # "live"
      BY <1>8, UnregisterRestores DEF kprobe_exit, CanUnload, leaves_device
    <2>. QED
      BY <2>1 DEF Unprobed
  <1>9. CASE UNCHANGED vars
    BY <1>9 DEF vars, Unprobed, Probed
  <1>. QED
    BY <1>1, <1>2, <1>3, <1>4, <1>5, <1>6, <1>7, <1>8, <1>9 DEF CarefulNext, others

LEMMA CarefulAlways == CarefulSpec => []CarefulInv
  BY CarefulInit, CarefulStep, PTL DEF CarefulSpec

LEMMA CarefulFinds == CarefulInv => ProbesAreFound
  BY DEF CarefulInv, ProbesAreFound, Unprobed, Probed, get_kprobe

\* While processes agree on who registers, every breakpoint leads to kp, which
\* holds the instruction that belongs there.
THEOREM ProbesCorrect == CarefulSpec => []ProbesAreFound
  BY CarefulAlways, CarefulFinds, PTL

-----------------------------------------------------------------------------
(* Careful processes see one probe.                                        *)

\* Where a breakpoint can be.
LEMMA ArmedPlaces ==
  /\ Unprobed => Armed = {}
  /\ Probed => Armed = IF disabled THEN {} ELSE {addr}
  BY NoPlaces DEF Unprobed, Probed, Armed

LEMMA CarefulRefines == CarefulInv /\ [CarefulNext]_vars => [Probe!Next]_(Probe!probeVars)
  <1>. SUFFICES ASSUME CarefulInv, [CarefulNext]_vars
                PROVE  Probe!Next \/ UNCHANGED <<Armed, loaded, disabled, rd, got>>
    BY DEF Probe!probeVars, Armed, Places
  <1>i. CarefulInv'
    BY CarefulStep
  <1>a. text' = text => Armed' = Armed
    BY DEF Armed
  <1>1. ASSUME NEW a \in Places, NEW pid \in Callers, hit(a, pid) PROVE Probe!Next \/ UNCHANGED <<Armed, loaded, disabled, rd, got>>
    <2>1. text[a] = BREAKPOINT /\ get_kprobe(a) /\ copied = a
      BY <1>1, CarefulFinds DEF hit, ProbesAreFound
    <2>2. /\ rd' = [pid |-> pid, address |-> a] /\ loaded /\ a \in Armed
          /\ Armed' = Armed /\ UNCHANGED <<loaded, disabled, got>>
      BY <1>1, <1>a, <2>1 DEF hit, get_kprobe, Armed, kpVars
    <2>. QED
      BY <2>2 DEF Probe!Next, Probe!Hit
  <1>2. ASSUME NEW p \in Procs, kprobe_open(p) \/ kprobe_close(p)
        PROVE  UNCHANGED <<Armed, loaded, disabled, rd, got>>
    BY <1>2, <1>a DEF kprobe_open, kprobe_close, kpVars
  <1>3. ASSUME NEW p \in Procs, NEW a \in Places, write_address(p, a)
        PROVE  UNCHANGED <<Armed, loaded, disabled, rd, got>>
    BY <1>3, <1>a DEF write_address
  <1>4. ASSUME NEW p \in Procs, write_register(p)
        PROVE  Probe!Next \/ UNCHANGED <<Armed, loaded, disabled, rd, got>>
    <2>1. loaded /\ table = {} /\ register_kprobe /\ UNCHANGED <<loaded, addr, rd, got>>
      BY <1>4 DEF write_register, CarefulInv
    <2>d. disabled \in BOOLEAN
      BY DEF CarefulInv, TypeOK
    <2>2. CASE UNCHANGED <<copied, table, head, disabled, text>>
      BY <1>a, <2>1, <2>2
    <2>3. CASE disabled /\ disabled' = disabled /\ text' = text
      BY <1>a, <2>1, <2>3
    <2>4. CASE ~disabled /\ disabled' = disabled /\ Probed'
      <3>1. Unprobed /\ addr \in Places /\ addr' = addr /\ disabled' = FALSE
        BY <2>1, <2>d, <2>4 DEF CarefulInv, Probed
      <3>2. Armed = {}
        BY <3>1, ArmedPlaces
      <3>3. Armed' = {addr}
        BY <2>4, <3>1, NoPlaces DEF Probed, Armed
      <3>4. Probe!Attach
        BY <2>1, <2>4, <3>1, <3>2, <3>3 DEF Probe!Attach, Places
      <3>. QED
        BY <3>4 DEF Probe!Next
    <2>. QED
      BY <2>1, <2>2, <2>3, <2>4, RegisterProbes DEF Probed
  <1>5. ASSUME NEW p \in Procs, write_unregister(p)
        PROVE  Probe!Next \/ UNCHANGED <<Armed, loaded, disabled, rd, got>>
    <2>1. /\ Unprobed' /\ (UNCHANGED <<text, disabled>> \/ (loaded /\ disabled'))
          /\ UNCHANGED <<loaded, rd, got>>
      BY <1>5, UnregisterRestores DEF write_unregister
    <2>2. disabled' \in BOOLEAN
      BY <1>i DEF CarefulInv, TypeOK
    <2>3. Armed' = {}
      BY <2>1, NoPlaces DEF Unprobed, Armed
    <2>4. CASE UNCHANGED <<text, disabled>>
      BY <1>a, <2>1, <2>4
    <2>5. CASE loaded /\ disabled'
      <3>1. Probe!Detach
        BY <2>1, <2>2, <2>3, <2>5 DEF Probe!Detach
      <3>. QED
        BY <3>1 DEF Probe!Next
    <2>. QED
      BY <2>1, <2>4, <2>5
  <1>6. ASSUME NEW p \in Procs, kprobe_read(p) PROVE Probe!Next
    <2>1. loaded /\ got' = [ret |-> SIZEOF_TRACE_DATA, data |-> rd]
          /\ UNCHANGED <<text, loaded, disabled, rd>>
      BY <1>6 DEF kprobe_read, kpVars, CarefulInv
    <2>. QED
      BY <1>a, <2>1 DEF Probe!Next, Probe!Fetch
  <1>7. CASE kprobe_init
    <2>1. CASE init_succeeds
      <3>1. Armed = {}
        BY <1>7, ArmedPlaces DEF kprobe_init, CarefulInv, Probed
      <3>2. ~loaded /\ loaded' = TRUE /\ disabled' = FALSE /\ rd' = NoData /\ UNCHANGED <<text, got>>
        BY <1>7, <2>1 DEF kprobe_init, init_succeeds
      <3>3. Probe!Load
        BY <1>a, <3>1, <3>2 DEF Probe!Load
      <3>. QED
        BY <3>3 DEF Probe!Next
    <2>2. CASE init_fails
      BY <1>a, <2>2 DEF init_fails, kpVars
    <2>. QED
      BY <1>7, <2>1, <2>2 DEF kprobe_init
  <1>8. CASE kprobe_exit
    <2>1. /\ loaded /\ loaded' = FALSE /\ UNCHANGED <<rd, got>> /\ Unprobed'
          /\ (disabled' = disabled \/ disabled')
      BY <1>8, UnregisterRestores DEF kprobe_exit, CanUnload, leaves_device
    <2>2. disabled' \in BOOLEAN
      BY <1>i DEF CarefulInv, TypeOK
    <2>3. Armed' = {}
      BY <2>1, NoPlaces DEF Unprobed, Armed
    <2>4. disabled' = disabled \/ disabled' = TRUE
      BY <2>1, <2>2
    <2>. QED
      BY <2>1, <2>3, <2>4 DEF Probe!Next, Probe!Unload
  <1>9. CASE UNCHANGED vars
    BY <1>9, <1>a DEF vars
  <1>. QED
    BY <1>1, <1>2, <1>3, <1>4, <1>5, <1>6, <1>7, <1>8, <1>9 DEF CarefulNext, others

\* However opens, closes, preempted registrations, hits and reloads interleave,
\* careful processes see one probe that works once per load of the module.
THEOREM ModuleImplementsProbe == CarefulSpec => ImplementsProbe
  <1>1. Init => Probe!Init
    BY NoPlaces DEF Init, Probe!Init, Armed
  <1>. QED
    BY <1>1, CarefulAlways, CarefulRefines, PTL DEF CarefulSpec, ImplementsProbe, Probe!Spec

=============================================================================
