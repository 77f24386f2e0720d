-------------------------- MODULE SpiModulesProofs --------------------------
(***************************************************************************)
(* Theorems about SpiModules, for any number of processes: whatever order  *)
(* modules come and go in, the device is bound when both are there, its    *)
(* node follows the binding, and the WS2812's modules unload safely.  Then *)
(* about Ws2812, for any processes, counts, outcomes of transfers and      *)
(* width of an unsigned int: its writes are among those that SpiModules    *)
(* allows for, the ring never shows anything but a window of the size that *)
(* was asked, and each step of a write brings it nearer to its end.        *)
(***************************************************************************)
EXTENDS Ws2812, FiniteSetTheorems, TLAPS

\* The driver is bound only while both modules are loaded, and then to memory
\* that it owns.  The rest says that the WS2812's device number is the one by
\* which remove destroys the node, and the MAX7219's is not, so that a node
\* that outlives its binding tells of a removal.
BindInv ==
  /\ chip \in {"WS2812", "MAX7219"}
  /\ bound => driver /\ device /\ spidev = "allocated"
  /\ bound => (devt <=> chip = "WS2812")
  /\ BindsInAnyOrder
  /\ NodeFollowsBinding

LEMMA BindInit == Init => BindInv
  BY SpiModulesAssumption DEF Init, BindInv, BindsInAnyOrder, NodeFollowsBinding

\* A probe of a device on the bus by a driver that is not bound to it: it binds
\* the two, or leaves a reason why it did not.
LEMMA ProbeBinds ==
  ASSUME BindInv, ~bound, ~wild, spidev_probe(TRUE), driver', device', chip' = chip
  PROVE  BindInv'
  <1>. USE DEF BindInv, BindsInAnyOrder, NodeFollowsBinding
  <1>1. CASE no_spidev
    BY <1>1 DEF no_spidev
  <1>2. CASE no_device(TRUE)
    <2>1. ~bound' /\ (node' <=> node) /\ (removed' <=> removed)
      BY <1>2 DEF no_device
    <2>2. CASE node
      <3>1. chip = "MAX7219" /\ removed
        BY <2>2
      <3>2. wild'
        BY <1>2, <3>1 DEF no_device
      <3>. QED
        BY <2>1, <3>1, <3>2
    <2>3. CASE ~node
      <3>1. starved'
        BY <1>2, <2>3, Zenon DEF no_device
      <3>. QED
        BY <2>1, <2>3, <3>1
    <2>. QED
      BY <2>2, <2>3
  <1>3. CASE binds(TRUE)
    <2>1. /\ bound' /\ node' /\ spidev' = "allocated"
          /\ devt' <=> chip = "WS2812"
      BY <1>3, Zenon DEF binds
    <2>. QED
      BY <2>1
  <1>. QED
    BY <1>1, <1>2, <1>3 DEF spidev_probe

\* A removal unbinds; it takes the node along if the number is still known.
LEMMA RemoveUnbinds ==
  ASSUME BindInv, bound, ~wild, spidev_remove, ~(driver' /\ device'), chip' = chip
  PROVE  BindInv'
  <1>1. ~bound' /\ removed' /\ (node' <=> node /\ ~devt)
    BY Zenon DEF spidev_remove
  <1>2. devt <=> chip = "WS2812"
    BY DEF BindInv
  <1>. QED
    BY <1>1, <1>2 DEF BindInv, BindsInAnyOrder, NodeFollowsBinding

LEMMA BindStep == BindInv /\ [Next]_vars => BindInv'
  <1>. SUFFICES ASSUME BindInv, [Next]_vars PROVE BindInv'
    OBVIOUS
  <1>. USE DEF BindInv, BindsInAnyOrder, NodeFollowsBinding
  <1>1. CASE UNCHANGED vars
    BY <1>1 DEF vars
  <1>. SUFFICES ASSUME Next PROVE BindInv'
    BY <1>1
  <1>2. chip' = chip
    BY DEF Next
  <1>3. CASE spidev_init
    <2>1. ~bound /\ ~wild /\ driver' /\ device' = device
      BY <1>3, Zenon DEF spidev_init, BindInv
    <2>2. CASE device
      <3>1. spidev_probe(TRUE)
        BY <1>3, <2>2 DEF spidev_init
      <3>. QED
        BY <1>2, <2>1, <2>2, <3>1, ProbeBinds
    <2>3. CASE ~device
      <3>1. UNCHANGED <<bound, node, devt, removed, wild>>
        BY <1>3, <2>3 DEF spidev_init
      <3>. QED
        BY <1>2, <2>1, <2>3, <3>1
    <2>. QED
      BY <2>2, <2>3
  <1>4. CASE init_fails
    BY <1>2, <1>4 DEF init_fails, bindVars
  <1>5. CASE spidev_exit
    <2>1. ~wild /\ driver' = FALSE
      BY <1>5 DEF spidev_exit, CanUnload, unloads
    <2>2. CASE bound
      BY <1>2, <1>5, <2>1, <2>2, RemoveUnbinds DEF spidev_exit, unloads
    <2>3. CASE ~bound
      BY <1>2, <1>5, <2>1, <2>3 DEF spidev_exit, unloads, bindVars
    <2>. QED
      BY <2>2, <2>3
  <1>6. CASE device_init
    <2>1. ~bound /\ ~wild /\ device' /\ driver' = driver
      BY <1>6, Zenon DEF device_init, BindInv
    <2>2. CASE driver
      <3>1. spidev_probe(TRUE)
        BY <1>6, <2>2 DEF device_init
      <3>. QED
        BY <1>2, <2>1, <2>2, <3>1, ProbeBinds
    <2>3. CASE ~driver
      BY <1>2, <1>6, <2>1, <2>3 DEF device_init, bindVars
    <2>. QED
      BY <2>2, <2>3
  <1>7. CASE device_exit
    <2>1. ~wild /\ device' = FALSE
      BY <1>7 DEF device_exit
    <2>2. CASE bound
      BY <1>2, <1>7, <2>1, <2>2, RemoveUnbinds DEF device_exit
    <2>3. CASE ~bound
      BY <1>2, <1>7, <2>1, <2>3 DEF device_exit, bindVars
    <2>. QED
      BY <2>2, <2>3
  <1>8. ASSUME NEW p \in Procs, spidev_open(p) \/ spidev_release(p) \/ spidev_write(p)
        PROVE  BindInv'
    <2>1. ~wild /\ UNCHANGED <<driver, device, bindVars>>
      BY <1>8 DEF spidev_open, spidev_release, spidev_write
    <2>. QED
      BY <1>2, <2>1 DEF bindVars
  <1>9. CASE display_thread
    <2>1. ~wild /\ UNCHANGED <<driver, device, bindVars>>
      BY <1>9 DEF display_thread
    <2>. QED
      BY <1>2, <2>1 DEF bindVars
  <1>. QED
    BY <1>3, <1>4, <1>5, <1>6, <1>7, <1>8, <1>9 DEF Next

\* Whichever module comes last, and after any number of loads, unloads and
\* failed probes, the device is bound or there is a reason why it is not.
THEOREM BindingCorrect == Spec => []BindsInAnyOrder
  <1>1. BindInv => BindsInAnyOrder
    BY DEF BindInv
  <1>. QED
    BY BindInit, BindStep, <1>1, PTL DEF Spec

\* The node exists exactly while the driver is bound to the device; the
\* MAX7219's until its first removal.
THEOREM NodeCorrect == Spec => []NodeFollowsBinding
  <1>1. BindInv => NodeFollowsBinding
    BY DEF BindInv
  <1>. QED
    BY BindInit, BindStep, <1>1, PTL DEF Spec

-----------------------------------------------------------------------------
(* The WS2812 has no display threads, and a file that outlives the binding *)
(* was open when the device was removed.                                   *)

SafetyInv ==
  /\ BindInv
  /\ chip = "WS2812" => ~displaying
  /\ ~wild /\ files # {} => bound \/ removed

LEMMA SafetyStep == SafetyInv /\ [Next]_vars => SafetyInv'
  <1>. SUFFICES ASSUME SafetyInv, [Next]_vars PROVE SafetyInv'
    OBVIOUS
  <1>1. BindInv'
    BY BindStep DEF SafetyInv
  <1>2. chip' = chip
    BY DEF Next, vars
  <1>3. chip = "WS2812" => ~displaying'
    BY DEF SafetyInv, Next, vars, spidev_init, init_fails, spidev_exit, unloads, device_init,
       device_exit, spidev_open, spidev_release, spidev_write, display_thread
  <1>4. ~wild' /\ files' # {} => bound' \/ removed'
    <2>. SUFFICES ASSUME ~wild', files' # {} PROVE bound' \/ removed'
      OBVIOUS
    <2>1. CASE files = {}
      <3>1. PICK p \in Procs : spidev_open(p)
        BY <2>1, Zenon DEF Next, vars, spidev_init, init_fails, spidev_exit, unloads, device_init,
           device_exit, spidev_release, spidev_write, display_thread
      <3>2. bound \/ removed
        BY <3>1 DEF spidev_open, SafetyInv, BindInv, NodeFollowsBinding
      <3>. QED
        BY <3>1, <3>2 DEF spidev_open, bindVars
    <2>2. CASE files # {}
      <3>1. CASE wild
        BY <3>1 DEF Next, vars, spidev_init, init_fails, spidev_exit, CanUnload, device_init,
           device_exit, spidev_open, spidev_release, spidev_write, display_thread
      <3>2. CASE ~wild
        <4>1. bound \/ removed
          BY <2>2, <3>2 DEF SafetyInv
        <4>2. ~spidev_exit
          BY <2>2 DEF spidev_exit, CanUnload
        <4>3. removed => removed'
          BY <4>2, Zenon DEF Next, vars, bindVars, spidev_init, init_fails, device_init, device_exit,
             spidev_open, spidev_release, spidev_write, display_thread, spidev_probe, no_spidev,
             no_device, binds, spidev_remove
        <4>4. bound => bound' \/ removed'
          BY <4>2, Zenon DEF Next, vars, bindVars, spidev_init, init_fails, device_init, device_exit,
             spidev_open, spidev_release, spidev_write, display_thread, spidev_probe, no_spidev,
             no_device, binds, spidev_remove
        <4>. QED
          BY <4>1, <4>3, <4>4
      <3>. QED
        BY <3>1, <3>2
    <2>. QED
      BY <2>1, <2>2
  <1>. QED
    BY <1>1, <1>2, <1>3, <1>4 DEF SafetyInv

\* No load or unload of the WS2812's modules frees spidev twice or writes to it
\* once it is freed: while the driver is bound, spidev is its own.  Only a write
\* of a process that has the device open after a removal does.
THEOREM UnloadingCorrect == Spec => UnloadingIsSafe
  <1>. DEFINE Safe == chip = "WS2812" /\ wild' /\ ~wild
                        => removed /\ files # {} /\ UNCHANGED <<driver, device>>
  <1>1. Init => SafetyInv
    BY BindInit DEF Init, SafetyInv
  <1>2. SafetyInv /\ [Next]_vars => [Safe]_vars
    <2>. SUFFICES ASSUME SafetyInv, Next, chip = "WS2812", wild', ~wild
                  PROVE  removed /\ files # {} /\ UNCHANGED <<driver, device>>
      OBVIOUS
    <2>1. ~misses_spidev /\ ~displaying
      BY DEF misses_spidev, SafetyInv, BindInv
    <2>2. ~spidev_init
      BY Zenon DEF spidev_init, spidev_probe, no_spidev, no_device, binds
    <2>3. ~device_init
      BY Zenon DEF device_init, spidev_probe, no_spidev, no_device, binds
    <2>4. ~spidev_exit
      BY <2>1, Zenon DEF spidev_exit
    <2>5. ~device_exit
      BY <2>1, Zenon DEF device_exit
    <2>6. PICK p \in Procs : spidev_write(p)
      BY <2>1, <2>2, <2>3, <2>4, <2>5 DEF Next, init_fails, spidev_open, spidev_release, display_thread
    <2>7. spidev # "allocated" /\ files # {} /\ UNCHANGED <<driver, device>>
      BY <2>6 DEF spidev_write
    <2>. QED
      BY <2>7 DEF SafetyInv, BindInv
  <1>. QED
    BY <1>1, SafetyStep, <1>2, PTL DEF Spec, UnloadingIsSafe

-----------------------------------------------------------------------------
(* The writes of the WS2812's driver.                                      *)

LEMMA RingStep == [RingNext]_<<vars, ringVars>> => [Next]_vars
  <1>. SUFFICES ASSUME RingNext PROVE [Next]_vars
    BY DEF vars
  <1>1. CASE modules_come_and_go /\ UNCHANGED <<chip, ringVars>>
    BY <1>1 DEF modules_come_and_go, Next
  <1>2. ASSUME NEW p \in Procs, (spidev_open(p) \/ closes(p)) /\ UNCHANGED <<chip, ringVars>>
        PROVE  Next
    BY <1>2 DEF closes, Next
  <1>3. ASSUME NEW p \in Procs, NEW c \in Counts, write_begins(p, c) PROVE UNCHANGED vars
    BY <1>3 DEF write_begins
  <1>4. ASSUME NEW p \in Procs, NEW status \in Statuses, write_step(p, status), UNCHANGED chip
        PROVE  Next
    BY <1>4 DEF write_step, sends_window, send_message, Next
  <1>5. ASSUME NEW p \in Procs, NEW status \in Statuses, ioctl_reset(p, status), UNCHANGED chip
        PROVE  Next
    BY <1>5 DEF ioctl_reset, send_message, Next
  <1>. QED
    BY <1>1, <1>2, <1>3, <1>4, <1>5 DEF RingNext, steps

\* Every write, in any of its 80 steps, is one that SpiModules allows for, so that
\* all that is said there of loads and unloads holds with writes under way.
THEOREM RingImplementsModules == RingSpec => Spec
  <1>1. RingInit => Init
    BY DEF RingInit
  <1>. QED
    BY <1>1, RingStep, PTL DEF RingSpec, Spec

\* The ring holds one whole frame, however transfers fail and interleave.
FrameInv ==
  /\ n \in [Procs -> Int] /\ k \in [Procs -> Nat]
  /\ drawn \in [n : Int, j : 0 .. NO_OF_LEDS - 1]
  /\ ring = frame(drawn.n, drawn.j)

-----------------------------------------------------------------------------
(* The size of a window.                                                   *)

\* No unsigned int overflows as long as the last LED's bytes fit.
LEMMA NoOverflow ==
  ASSUME NEW c \in 0 .. (Modulus - 1) \div LED_BYTES - NO_OF_LEDS,
         NEW j \in 0 .. NO_OF_LEDS - 1
  PROVE  limit(c, j) = (c + j) * LED_BYTES
  <1>1. (c + j) * LED_BYTES \in 0 .. Modulus - 1
    BY Ws2812Assumption, SMT DEF LED_BYTES, NO_OF_LEDS, FRAME_BYTES
  <1>2. ASSUME NEW x \in 0 .. Modulus - 1 PROVE x % Modulus = x
    BY <1>2, Ws2812Assumption, SMT DEF FRAME_BYTES
  <1>. QED
    BY <1>1, <1>2 DEF limit

\* A frame is the window from LED j on, cut at the end of the ring.
LEMMA FrameIsWindow ==
  ASSUME NEW c \in 0 .. (Modulus - 1) \div LED_BYTES - NO_OF_LEDS,
         NEW j \in 0 .. NO_OF_LEDS - 1
  PROVE  frame(c, j) = j .. IF c < NO_OF_LEDS - j THEN c + j - 1 ELSE NO_OF_LEDS - 1
  <1>1. c \in Nat
    BY Ws2812Assumption, SMT DEF LED_BYTES, NO_OF_LEDS, FRAME_BYTES
  <1>2. ASSUME NEW i \in j .. NO_OF_LEDS - 1
        PROVE  i * LED_BYTES + LED_BYTES - 1 < limit(c, j) <=> i < c + j
    BY <1>1, NoOverflow, SMT DEF LED_BYTES, NO_OF_LEDS
  <1>. QED
    BY <1>1, <1>2, SMT DEF frame, NO_OF_LEDS

LEMMA FrameSize ==
  ASSUME NEW c \in 0 .. (Modulus - 1) \div LED_BYTES - NO_OF_LEDS,
         NEW j \in 0 .. NO_OF_LEDS - 1
  PROVE  Cardinality(frame(c, j)) = IF c < NO_OF_LEDS - j THEN c ELSE NO_OF_LEDS - j
  <1>. DEFINE last == IF c < NO_OF_LEDS - j THEN c + j - 1 ELSE NO_OF_LEDS - 1
  <1>1. c \in Nat /\ j \in Int /\ last \in Int
    BY Ws2812Assumption, SMT DEF LED_BYTES, NO_OF_LEDS, FRAME_BYTES
  <1>2. Cardinality(j .. last) = IF j > last THEN 0 ELSE last - j + 1
    BY <1>1, FS_Interval
  <1>3. (IF j > last THEN 0 ELSE last - j + 1) = IF c < NO_OF_LEDS - j THEN c ELSE NO_OF_LEDS - j
    BY <1>1, SMT DEF NO_OF_LEDS
  <1>. QED
    BY <1>2, <1>3, FrameIsWindow

-----------------------------------------------------------------------------
(* The ring shows frames.                                                  *)

LEMMA FrameInit ==
  ASSUME RingInit
  PROVE  FrameInv
  <1>1. limit(0, 0) = 0
    BY Ws2812Assumption, SMT DEF limit, LED_BYTES, FRAME_BYTES
  <1>2. frame(0, 0) = {}
    BY <1>1, SMT DEF frame, LED_BYTES, NO_OF_LEDS
  <1>. QED
    BY <1>2 DEF RingInit, FrameInv, Dark, NO_OF_LEDS

\* A transfer leaves what the ring shows, or shows the frame that was sent.
LEMMA TransferShowsFrame ==
  ASSUME FrameInv, NEW c \in Int, NEW j \in 0 .. NO_OF_LEDS - 1, NEW p, NEW status,
         send_message(p, frame(c, j), [n |-> c, j |-> j], status)
  PROVE  /\ drawn' \in [n : Int, j : 0 .. NO_OF_LEDS - 1]
         /\ ring' = frame(drawn'.n, drawn'.j)
  BY DEF send_message, shows, FrameInv

LEMMA FrameStep == FrameInv /\ [RingNext]_<<vars, ringVars>> => FrameInv'
  <1>. SUFFICES ASSUME FrameInv, [RingNext]_<<vars, ringVars>> PROVE FrameInv'
    OBVIOUS
  <1>1. ASSUME UNCHANGED ringVars PROVE FrameInv'
    BY <1>1 DEF ringVars, FrameInv, frame, limit
  <1>2. ASSUME NEW p \in Procs, NEW c \in Counts, write_begins(p, c) PROVE FrameInv'
    <2>1. c \in Int
      BY Ws2812Assumption DEF FRAME_BYTES
    <2>. QED
      BY <1>2, <2>1 DEF write_begins, FrameInv, frame, limit
  <1>3. ASSUME NEW p \in Procs, NEW status \in Statuses, write_step(p, status) PROVE FrameInv'
    <2>. DEFINE j == k[p] % NO_OF_LEDS
    <2>1. n[p] \in Int /\ k[p] \in Nat /\ j \in 0 .. NO_OF_LEDS - 1
      BY SMT DEF FrameInv, NO_OF_LEDS
    <2>2. send_message(p, frame(n[p], j), [n |-> n[p], j |-> j], status) /\ n' = n
      BY <1>3 DEF write_step, sends_window
    <2>3. k' \in [Procs -> Nat]
      BY <1>3, <2>1 DEF write_step, returns, next_frame, FrameInv
    <2>4. /\ drawn' \in [n : Int, j : 0 .. NO_OF_LEDS - 1]
          /\ ring' = frame(drawn'.n, drawn'.j)
      <3>. HIDE DEF j
      <3>. QED
        BY <2>1, <2>2, TransferShowsFrame
    <2>. QED
      BY <2>2, <2>3, <2>4 DEF FrameInv
  <1>4. ASSUME NEW p \in Procs, NEW status \in Statuses, ioctl_reset(p, status) PROVE FrameInv'
    <2>1. frame(0, 0) = {}
      BY Ws2812Assumption, SMT DEF frame, limit, LED_BYTES, NO_OF_LEDS, FRAME_BYTES
    <2>2. send_message(p, frame(0, 0), [n |-> 0, j |-> 0], status) /\ UNCHANGED <<n, k>>
      BY <1>4, <2>1 DEF ioctl_reset, Dark
    <2>3. 0 \in 0 .. NO_OF_LEDS - 1
      BY DEF NO_OF_LEDS
    <2>4. /\ drawn' \in [n : Int, j : 0 .. NO_OF_LEDS - 1]
          /\ ring' = frame(drawn'.n, drawn'.j)
      BY <2>2, <2>3, TransferShowsFrame
    <2>. QED
      BY <2>2, <2>4 DEF FrameInv
  <1>. QED
    BY <1>1, <1>2, <1>3, <1>4 DEF RingNext, steps

LEMMA FrameHasSize == FrameInv => WindowHasAskedSize
  <1>. SUFFICES ASSUME FrameInv, drawn.n \in 0 .. (Modulus - 1) \div LED_BYTES - NO_OF_LEDS
                PROVE  Cardinality(ring) = IF drawn.n < NO_OF_LEDS - drawn.j
                                           THEN drawn.n ELSE NO_OF_LEDS - drawn.j
    BY DEF WindowHasAskedSize
  <1>1. drawn.j \in 0 .. NO_OF_LEDS - 1 /\ ring = frame(drawn.n, drawn.j)
    BY DEF FrameInv
  <1>. QED
    BY <1>1, FrameSize

\* Whatever is on the ring after any writes, resets, lost transfers and reloads is
\* a window of the size that was asked, or up to the end of the ring.
THEOREM WindowCorrect == RingSpec => []WindowHasAskedSize
  BY FrameInit, FrameStep, FrameHasSize, PTL DEF RingSpec


-----------------------------------------------------------------------------
(* The safety part of WriteEnds.                                           *)

\* A write that is under way has its file and the driver's code, and one of
\* its steps ahead of it.
WritesAreHeld == \A p \in writes : p \in files /\ driver /\ k[p] \in 0 .. STEPS - 1

\* Each step of a write brings it nearer to its last one, or ends it; what
\* others do meanwhile does not set it back.
WriteAdvances ==
  [][\A p \in writes \cap writes' :
       /\ k'[p] = k[p] \/ k'[p] = k[p] + 1
       /\ steps(p) => k'[p] = k[p] + 1]_<<vars, ringVars>>

\* The strengthening: an open file keeps the driver from being unloaded, and a
\* write its file from being closed.
WritesInv ==
  /\ files \subseteq Procs /\ writes \subseteq files
  /\ files # {} => driver
  /\ k \in [Procs -> 0 .. STEPS - 1]

\* What steps of the modules leave alone.
LEMMA ModulesKeepFiles ==
  ASSUME modules_come_and_go
  PROVE  files' = files /\ (driver => driver' \/ files = {})
  <1>1. files' = files
    BY DEF modules_come_and_go, spidev_init, init_fails, spidev_exit, unloads, device_init, device_exit
  <1>2. driver => driver' \/ files = {}
    BY Zenon DEF modules_come_and_go, spidev_init, init_fails, spidev_exit, CanUnload, device_init,
       device_exit
  <1>. QED
    BY <1>1, <1>2

LEMMA WritesStep == WritesInv /\ [RingNext]_<<vars, ringVars>> => WritesInv'
  <1>. SUFFICES ASSUME WritesInv, [RingNext]_<<vars, ringVars>> PROVE WritesInv'
    OBVIOUS
  <1>. USE DEF WritesInv
  <1>1. CASE modules_come_and_go /\ UNCHANGED <<chip, ringVars>>
    BY <1>1, ModulesKeepFiles DEF ringVars
  <1>2. ASSUME NEW p \in Procs, spidev_open(p), UNCHANGED <<chip, ringVars>> PROVE WritesInv'
    BY <1>2 DEF spidev_open, ringVars
  <1>3. ASSUME NEW p \in Procs, closes(p), UNCHANGED <<chip, ringVars>> PROVE WritesInv'
    BY <1>3 DEF closes, spidev_release, ringVars
  <1>4. ASSUME NEW p \in Procs, NEW c \in Counts, write_begins(p, c) PROVE WritesInv'
    BY <1>4 DEF write_begins, vars, STEPS
  <1>5. ASSUME NEW p \in Procs, NEW status \in Statuses, write_step(p, status) PROVE WritesInv'
    <2>1. files' = files /\ driver' = driver
      BY <1>5 DEF write_step, sends_window, send_message, spidev_write
    <2>2. CASE status = 0 \/ k[p] = STEPS - 1
      BY <1>5, <2>1, <2>2 DEF write_step, returns, STEPS
    <2>3. CASE ~(status = 0 \/ k[p] = STEPS - 1)
      BY <1>5, <2>1, <2>3 DEF write_step, next_frame, STEPS
    <2>. QED
      BY <2>2, <2>3
  <1>6. ASSUME NEW p \in Procs, NEW status \in Statuses, ioctl_reset(p, status) PROVE WritesInv'
    BY <1>6 DEF ioctl_reset, send_message, spidev_write
  <1>7. CASE UNCHANGED <<vars, ringVars>>
    BY <1>7 DEF vars, ringVars
  <1>. QED
    BY <1>1, <1>2, <1>3, <1>4, <1>5, <1>6, <1>7 DEF RingNext, steps

LEMMA WritesInit == RingInit => WritesInv
  BY DEF RingInit, Init, WritesInv, STEPS

\* However many processes write, and whatever modules come and go: the driver
\* is never unloaded under a write.
THEOREM HeldCorrect == RingSpec => []WritesAreHeld
  <1>1. WritesInv => WritesAreHeld
    BY DEF WritesInv, WritesAreHeld
  <1>. QED
    BY WritesInit, WritesStep, <1>1, PTL DEF RingSpec

\* A write takes at most its 80 steps, whatever transfers and other writes do:
\* a transfer that fails repeats nothing.
THEOREM WriteAdvancesCorrect == RingSpec => WriteAdvances
  <1>. DEFINE Advances == \A p \in writes \cap writes' :
                            /\ k'[p] = k[p] \/ k'[p] = k[p] + 1
                            /\ steps(p) => k'[p] = k[p] + 1
  <1>1. WritesInv /\ [RingNext]_<<vars, ringVars>> => [Advances]_<<vars, ringVars>>
    <2>. SUFFICES ASSUME WritesInv, RingNext, NEW p \in writes, p \in writes'
                  PROVE  /\ k'[p] = k[p] \/ k'[p] = k[p] + 1
                         /\ steps(p) => k'[p] = k[p] + 1
      OBVIOUS
    <2>1. p \in Procs /\ k \in [Procs -> 0 .. STEPS - 1]
      BY DEF WritesInv
    <2>2. ASSUME NEW q \in Procs, NEW status \in Statuses, write_step(q, status)
          PROVE  k'[p] = IF q = p THEN k[p] + 1 ELSE k[p]
      BY <2>1, <2>2 DEF write_step, returns, next_frame
    <2>3. steps(p) => k'[p] = k[p] + 1
      BY <2>1, <2>2 DEF steps
    <2>4. ASSUME NEW q \in Procs, NEW c \in Counts, write_begins(q, c) PROVE k'[p] = k[p]
      BY <2>1, <2>4 DEF write_begins
    <2>5. ASSUME NEW q \in Procs, NEW status \in Statuses, ioctl_reset(q, status)
          PROVE  k'[p] = k[p]
      BY <2>5 DEF ioctl_reset
    <2>. QED
      BY <2>2, <2>3, <2>4, <2>5 DEF RingNext, steps, ringVars
  <1>. QED
    BY WritesInit, WritesStep, <1>1, PTL DEF RingSpec, WriteAdvances

=============================================================================
