------------------------------ MODULE OneProbe ------------------------------
(***************************************************************************)
(* What the device "RBProbe" gives processes that take turns: one probe,   *)
(* attached at a place or nowhere, whose last hit can be fetched.  Once    *)
(* detached it is spent: it is never attached again before a reload.       *)
(***************************************************************************)
EXTENDS Integers

CONSTANTS Places,  \* where a probe can be attached
          Callers, \* pids of the processes that can hit it
          NoData,  \* the record before any hit
          SIZEOF_TRACE_DATA

VARIABLES probed,  \* the place the probe is attached at, a set of at most one
          loaded,
          spent,   \* the probe has been detached since the module was loaded
          rd,      \* the last hit
          got      \* what the last fetch returned

probeVars == <<probed, loaded, spent, rd, got>>

Init ==
  /\ probed = {} /\ loaded = FALSE /\ spent = FALSE
  /\ rd = NoData
  /\ got = [ret |-> 0, data |-> NoData]

Attach ==
  /\ loaded /\ probed = {} /\ ~spent
  /\ \E a \in Places : probed' = {a}
  /\ UNCHANGED <<loaded, spent, rd, got>>

Detach ==
  /\ loaded
  /\ probed' = {} /\ spent' = TRUE
  /\ UNCHANGED <<loaded, rd, got>>

\* Only a place that is probed is ever recorded.
Hit ==
  /\ loaded
  /\ \E a \in probed, pid \in Callers : rd' = [pid |-> pid, address |-> a]
  /\ UNCHANGED <<probed, loaded, spent, got>>

Fetch ==
  /\ loaded
  /\ got' = [ret |-> SIZEOF_TRACE_DATA, data |-> rd]
  /\ UNCHANGED <<probed, loaded, spent, rd>>

Load ==
  /\ ~loaded /\ probed = {}
  /\ loaded' = TRUE /\ spent' = FALSE /\ rd' = NoData
  /\ UNCHANGED <<probed, got>>

Unload ==
  /\ loaded
  /\ loaded' = FALSE /\ probed' = {} /\ spent' \in {spent, TRUE}
  /\ UNCHANGED <<rd, got>>

Next == Attach \/ Detach \/ Hit \/ Fetch \/ Load \/ Unload
Spec == Init /\ [][Next]_probeVars

=============================================================================
