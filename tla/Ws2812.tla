------------------------------- MODULE Ws2812 -------------------------------
(***************************************************************************)
(* The LED-ring driver WS2812_SPI_driver/WS2812_drv.c: write(n) sends the  *)
(* ring 80 frames, a window of n lit LEDs that moves one LED per frame;    *)
(* ioctl RESET routes pin IO11 to the ring and darkens it.  Several        *)
(* processes can have the device open.  Between the steps of a write the   *)
(* device module may go and come back (SpiModules): each message is sent   *)
(* through the global pointer spidev, whatever has become of it.           *)
(*                                                                         *)
(* A frame stands for its set of lit LEDs.  The window is computed on      *)
(* unsigned ints: Modulus is 2^32 in the code and smaller here.            *)
(***************************************************************************)
EXTENDS SpiModules, Integers, FiniteSets

CONSTANTS Counts,   \* the ints that processes write
          Statuses, \* outcomes of an SPI transfer: 384 bytes, 0 bytes or an error
          Modulus   \* how many values an unsigned int has

NO_OF_LEDS == 16
LED_BYTES == 24         \* 8*3
FRAME_BYTES == 384
STEPS == 80

ASSUME Ws2812Assumption ==
  /\ Counts \subseteq -(Modulus \div 2) .. (Modulus \div 2 - 1)
  /\ FRAME_BYTES \in Statuses /\ Statuses \subseteq Int
  /\ Modulus \in Nat /\ Modulus > 2 * FRAME_BYTES

VARIABLES
  routed, \* pins 24 and 44 connect the SPI output to the ring
  writes, \* the processes in the loop of spidev_write
  n, k,   \* their locals
  ring,   \* the LEDs that are lit
  drawn   \* history: the [n, j] of the frame they show

ringVars == <<routed, writes, n, k, ring, drawn>>

-----------------------------------------------------------------------------
(* The frames.                                                             *)

\* (n+j)*8*3, the first byte behind the window.
limit(c, j) == ((c + j) * LED_BYTES) % Modulus

frame_from_0(c, j) ==   \* the window's lower end is forgotten
  {i \in 0 .. NO_OF_LEDS - 1 : i * LED_BYTES + LED_BYTES - 1 < limit(c, j)}

\* The LEDs with all their bytes at or above j*24 and below the limit.  One
\* that an overflow cuts in two has another colour and does not count.
frame(c, j) ==
  {i \in j .. NO_OF_LEDS - 1 : i * LED_BYTES + LED_BYTES - 1 < limit(c, j)}

\* A dark ring is what a window of no LEDs shows.
Dark == [n |-> 0, j |-> 0]

\* A transfer reaches the ring if it succeeds and the pins are routed.
shows(leds, what, status) ==
  IF status = FRAME_BYTES /\ routed' THEN ring' = leds /\ drawn' = what
                                    ELSE UNCHANGED <<ring, drawn>>

-----------------------------------------------------------------------------
(* The file operations.                                                    *)

\* A process that writes keeps its file open.
closes(p) == p \notin writes /\ spidev_release(p)

\* write: n comes from the caller...
write_begins(p, c) ==
  /\ ~wild /\ p \in files \ writes
  /\ writes' = writes \cup {p}
  /\ n' = [n EXCEPT ![p] = c]
  /\ k' = [k EXCEPT ![p] = 0]
  /\ UNCHANGED <<vars, routed, ring, drawn>>

\* send_message follows spidev; if that memory is not the driver's own nothing
\* is promised any more.
send_message(p, leds, what, status) ==
  /\ spidev_write(p)
  /\ IF wild' THEN UNCHANGED <<ring, drawn>> ELSE shows(leds, what, status)

returns(p) ==
  /\ writes' = writes \ {p}
  /\ k' = [k EXCEPT ![p] = 0]

next_frame(p) ==
  /\ k' = [k EXCEPT ![p] = @ + 1]
  /\ UNCHANGED writes

\* Step k sends the window that begins at LED j.
sends_window(p, status) == LET j == k[p] % NO_OF_LEDS IN
  send_message(p, frame(n[p], j), [n |-> n[p], j |-> j], status)

steps_in_circles(p, status) ==   \* k itself is taken modulo 16
  /\ p \in writes
  /\ UNCHANGED <<routed, n>> /\ sends_window(p, status)
  /\ IF status = 0 THEN returns(p)
     ELSE k' = [k EXCEPT ![p] = (@ + 1) % NO_OF_LEDS] /\ UNCHANGED writes

\* ...and each step builds a frame and sends it.  A transfer of no bytes ends
\* the loop; one that fails does not.
write_step(p, status) ==
  /\ p \in writes
  /\ UNCHANGED <<routed, n>> /\ sends_window(p, status)
  /\ IF status = 0 \/ k[p] = STEPS - 1 THEN returns(p) ELSE next_frame(p)

\* RESET routes the pins and sends a dark frame.
ioctl_reset(p, status) ==
  /\ p \notin writes
  /\ routed' = TRUE
  /\ send_message(p, {}, Dark, status)
  /\ UNCHANGED <<writes, n, k>>

-----------------------------------------------------------------------------
RingInit ==
  /\ Init /\ chip = "WS2812"
  /\ routed = FALSE
  /\ writes = {}
  /\ n = [p \in Procs |-> 0] /\ k = n
  /\ ring = {} /\ drawn = Dark

modules_come_and_go == spidev_init \/ init_fails \/ spidev_exit \/ device_init \/ device_exit

steps(p) == (\E status \in Statuses : write_step(p, status)) /\ UNCHANGED chip

RingNext ==
  \/ modules_come_and_go /\ UNCHANGED <<chip, ringVars>>
  \/ \E p \in Procs :
       \/ (spidev_open(p) \/ closes(p)) /\ UNCHANGED <<chip, ringVars>>
       \/ \E c \in Counts : write_begins(p, c)
       \/ steps(p)
       \/ (\E status \in Statuses : ioctl_reset(p, status)) /\ UNCHANGED chip

\* A write that is under way is scheduled.
RingSpec ==
  RingInit /\ [][RingNext]_<<vars, ringVars>> /\ \A p \in Procs : WF_<<vars, ringVars>>(steps(p))

-----------------------------------------------------------------------------
(* Properties.                                                             *)

\* ReadMe.md:6-8 "light n leds ... Any value over the maximum number of
\* pixels(16) will be taken as the maximum": of whatever frame is on the ring,
\* after lost transfers, resets, further writes and reloads of the modules, the
\* window is as wide as was asked or reaches up to the end of the ring, as long
\* as the bytes do not overflow an unsigned int.
WindowHasAskedSize ==
  drawn.n \in 0 .. (Modulus - 1) \div LED_BYTES - NO_OF_LEDS
    => Cardinality(ring) = IF drawn.n < NO_OF_LEDS - drawn.j THEN drawn.n
                                                                 ELSE NO_OF_LEDS - drawn.j

\* Every write ends, whatever it was asked and whatever the transfers return,
\* although only a transfer of no bytes ends it early; unless the device was
\* removed under it and its memory is gone.
WriteEnds == \A p \in Procs : p \in writes ~> p \notin writes \/ wild

=============================================================================
