------------------------------ MODULE Max7219 -------------------------------
(***************************************************************************)
(* The LED-matrix driver ESP-Team09-Assgn04/spidriver.c, from the moment   *)
(* the MAX7219 is bound to it: every write() starts a kernel thread that   *)
(* reads two global arrays and sends the chip one 16-bit message after the *)
(* other, over one chip-select pin.                                        *)
(*                                                                         *)
(* A display thread can be interrupted by another one between the steps    *)
(* that it takes to send a message: it sleeps until the SPI controller has *)
(* shifted the message out.  Rows stands for the 8 rows of the matrix and  *)
(* Steps for the 10 entries of a sequence; a duration only separates (0,0),*)
(* the end of a sequence, from a pattern to show.                          *)
(***************************************************************************)
EXTENDS Integers, SequencesExt

CONSTANTS
  Procs,      \* processes that use /dev/MAX7219, one open file each
  Threads,    \* display threads: at most as many run at a time
  Patterns,   \* indexes into pattern_array
  Arrays,     \* what DISPLAY_PATTERN passes: for each pattern its rows, 0 is dark
  Rows, Steps,
  Written,    \* the sequences that a free client writes
  Statuses,   \* outcomes of an SPI transfer: 2 bytes, 0 bytes or an error
  MaxCalls    \* bound on a free client's calls of write and ioctl

End == -1   \* the entry (0,0): pattern 0 for 0 ms
Entries == Patterns \cup {End}

ASSUME Max7219Assumption ==
  /\ Arrays \subseteq [Patterns -> [1 .. Rows -> Nat]]
  /\ Patterns \subseteq Nat
  /\ Rows \in 1 .. 8 /\ Steps \in Nat \ {0}
  /\ Written \subseteq [1 .. Steps -> Entries]
  /\ Statuses \subseteq Int /\ 2 \in Statuses
  /\ MaxCalls \in Nat

VARIABLES
  made,          \* history: calls of write and ioctl so far
  file,          \* [Procs -> {"closed", "open"}]
  requested,     \* the pins are requested from the gpio library
  sequence,      \* the global array that write() fills
  pattern_array, \* the global array that DISPLAY_PATTERN fills
  thread,        \* the display threads
  cs,            \* pin 15, the chip's load input: 0 or 1
  shift,         \* the message in the chip's shift register
  register       \* the chip's registers

vars == <<made, file, requested, sequence, pattern_array, thread, cs, shift, register>>
driverVars == <<made, file, requested, sequence, pattern_array>>
chipVars == <<cs, shift, register>>

-----------------------------------------------------------------------------
(* The chip.                                                               *)

DECODE == 100
INTENSITY == 101
SCAN_LIMIT == 102
SHUTDOWN == 103
DISPLAY_TEST == 104
Registers == 1 .. Rows \cup DECODE .. DISPLAY_TEST

\* Power on: everything is 0, so the chip is shut down and shows one row.
PowerOn == [r \in Registers |-> 0]

\* The rising edge of pin 15 loads what the shift register holds.
rise ==
  /\ cs' = 1
  /\ register' = IF cs = 0 /\ shift # <<>>
                 THEN [register EXCEPT ![shift[1]] = shift[2]] ELSE register

setup_scanning_7_rows ==   \* an off-by-one in the scan limit
  << <<DECODE, 0>>, <<DISPLAY_TEST, 0>>, <<SHUTDOWN, 1>>, <<INTENSITY, 15>>, <<SCAN_LIMIT, 6>> >>

\* spi_display_setup, as the messages it sends.
spi_display_setup ==
  << <<DECODE, 0>>, <<DISPLAY_TEST, 0>>, <<SHUTDOWN, 1>>, <<INTENSITY, 15>>, <<SCAN_LIMIT, 7>> >>

LastMessage_one_row_less == Len(spi_display_setup) + Rows - 1   \* position < 7

\* The number of messages a thread sends for a pattern, and its nth message.
LastMessage == Len(spi_display_setup) + Rows
message(pattern, n) ==
  IF pattern = End THEN <<SHUTDOWN, 0>>
  ELSE IF n <= Len(spi_display_setup) THEN spi_display_setup[n]
  ELSE <<n - Len(spi_display_setup), pattern_array[pattern][n - Len(spi_display_setup)]>>

-----------------------------------------------------------------------------
(* The file operations.                                                    *)

\* A thread that is not running has no locals.  What it was asked to show and
\* what it has shown remain: a history, which the code does not keep.
idle(asked, shown) == [pc |-> "idle", i |-> 1, to_display |-> End, n |-> 1,
                       buffer |-> <<SHUTDOWN, 0>>, asked |-> asked, shown |-> shown]

running == {t \in Threads : thread[t].pc # "idle"}

\* Nothing can be said any more of what a thread shows once it is disturbed: a
\* transfer has failed, or someone has written, changed the patterns or
\* started another thread while it runs.  A disturbed thread has no history.
Undisturbed(t) == thread[t].asked # <<>>
Disturb(threads) ==
  [t \in Threads |-> IF t \in threads THEN [thread[t] EXCEPT !.asked = <<>>, !.shown = <<>>]
                                       ELSE thread[t]]

\* configure_io_pins: requests fail unnoticed when the pins are requested
\* already, and pin 15 goes low in either case.
spidev_open(p) ==
  /\ file[p] = "closed"
  /\ file' = [file EXCEPT ![p] = "open"]
  /\ requested' = TRUE /\ cs' = 0
  /\ UNCHANGED <<made, sequence, pattern_array, thread, shift, register>>

\* The pins are freed, whoever else has the device open.
spidev_release(p) ==
  /\ file[p] = "open"
  /\ file' = [file EXCEPT ![p] = "closed"]
  /\ requested' = FALSE
  /\ UNCHANGED <<made, sequence, pattern_array, thread, chipVars>>

\* DISPLAY_PATTERN.  The other command sets SIZE, which nothing reads.
spidev_ioctl(p, images) ==
  /\ file[p] = "open"
  /\ made' = made + 1
  /\ pattern_array' = images
  /\ thread' = Disturb(running)
  /\ UNCHANGED <<file, requested, sequence, chipVars>>

\* write() copies the first n entries (all of them unless the buffer is not
\* mapped; copy_from_user clears the rest) and starts a thread, if it can.
\* The copy is what the thread is asked to display.
spidev_write(p, entries, n) ==
  /\ file[p] = "open"
  /\ made' = made + 1
  /\ sequence' = [i \in 1 .. Steps |-> IF i <= n THEN entries[i] ELSE End]
  /\ \/ thread' = Disturb(running)
     \/ \E t \in Threads \ running : LET asked == IF running = {} THEN sequence' ELSE <<>> IN
          thread' = [Disturb(Threads) EXCEPT ![t] = [idle(asked, <<>>) EXCEPT !.pc = "step"]]
  /\ UNCHANGED <<file, requested, pattern_array, chipVars>>

-----------------------------------------------------------------------------
(* The display thread.                                                     *)

send_unselected(t, pattern, n) ==   \* pin 15 is not driven low
  /\ thread' = [thread EXCEPT ![t] = [@ EXCEPT !.pc = "sending", !.to_display = pattern,
                                               !.n = n, !.buffer = message(pattern, n)]]
  /\ UNCHANGED <<driverVars, chipVars>>

\* The thread sends its nth message: pin 15 goes low and the transfer is
\* queued.
send(t, pattern, n) ==
  /\ thread' = [thread EXCEPT ![t] = [@ EXCEPT !.pc = "sending", !.to_display = pattern,
                                               !.n = n, !.buffer = message(pattern, n)]]
  /\ cs' = 0
  /\ UNCHANGED <<driverVars, shift, register>>

step_ends_lit(t) ==   \* the chip is not shut down at the end of the sequence
  /\ thread[t].pc = "step"
  /\ IF thread[t].i > Steps \/ sequence[thread[t].i] = End
     THEN /\ thread' = [thread EXCEPT ![t] = idle(@.asked, @.shown)]
          /\ UNCHANGED <<driverVars, chipVars>>
     ELSE send(t, sequence[thread[t].i], 1)

step_of_next(t) ==   \* i is incremented too early
  /\ thread[t].pc = "step"
  /\ IF thread[t].i > Steps
     THEN /\ thread' = [thread EXCEPT ![t] = idle(@.asked, @.shown)]
          /\ UNCHANGED <<driverVars, chipVars>>
     ELSE send(t, IF thread[t].i < Steps THEN sequence[thread[t].i + 1] ELSE End, 1)

\* From the top of the loop to the first message of an entry.
display_thread_step(t) ==
  /\ thread[t].pc = "step"
  /\ IF thread[t].i > Steps
     THEN /\ thread' = [thread EXCEPT ![t] = idle(@.asked, @.shown)]
          /\ UNCHANGED <<driverVars, chipVars>>
     ELSE send(t, sequence[thread[t].i], 1)

\* The controller shifts the message out; a transfer that fails shifts none.
spi_transfer(t, status) ==
  /\ thread[t].pc = "sending"
  /\ shift' = IF status = 2 THEN thread[t].buffer ELSE shift
  /\ LET threads == IF status = 2 THEN thread ELSE Disturb({t}) IN
       thread' = [threads EXCEPT ![t].pc = IF status = 0 THEN "nothing_sent" ELSE "sent"]
  /\ UNCHANGED <<driverVars, cs, register>>

following_retries(t) ==   \* a transfer of no bytes is repeated
  IF thread[t].pc = "nothing_sent" THEN thread[t].n ELSE thread[t].n + 1

\* spi_display_setup returns after a transfer of no bytes, and only then.
following(t) ==
  IF thread[t].pc = "nothing_sent" /\ thread[t].n < Len(spi_display_setup)
  THEN Len(spi_display_setup) + 1 ELSE thread[t].n + 1

shown_by_now(t) ==
  IF Undisturbed(t) THEN Append(thread[t].shown, thread[t].to_display) ELSE thread[t].shown

\* Pin 15 goes high.  The thread ends after the message for End, waits when
\* the pattern is complete, and otherwise goes on to the next message.
send_returns(t) ==
  /\ thread[t].pc \in {"sent", "nothing_sent"}
  /\ rise
  /\ thread' = [thread EXCEPT ![t] =
       IF @.to_display = End THEN idle(@.asked, @.shown)
       ELSE IF @.n = LastMessage
            THEN [@ EXCEPT !.pc = "hold", !.shown = shown_by_now(t)]
       ELSE [@ EXCEPT !.pc = "next", !.n = following(t)]]
  /\ UNCHANGED <<driverVars, shift>>

display_thread_next(t) ==
  /\ thread[t].pc = "next"
  /\ send(t, thread[t].to_display, thread[t].n)

\* The pattern's duration is over.
display_thread_held(t) ==
  /\ thread[t].pc = "hold"
  /\ thread' = [thread EXCEPT ![t].pc = "step", ![t].i = @ + 1]
  /\ UNCHANGED <<driverVars, chipVars>>

display_thread(t, statuses) ==
  \/ display_thread_step(t)
  \/ \E status \in statuses : spi_transfer(t, status)
  \/ send_returns(t)
  \/ display_thread_next(t)
  \/ display_thread_held(t)

-----------------------------------------------------------------------------
Init ==
  /\ made = 0
  /\ file = [p \in Procs |-> "closed"]
  /\ requested = FALSE
  /\ sequence = [i \in 1 .. Steps |-> End]
  /\ pattern_array = [q \in Patterns |-> [r \in 1 .. Rows |-> 0]]
  /\ thread = [t \in Threads |-> idle([i \in 1 .. Steps |-> End], <<>>)]
  /\ cs = 1 /\ shift = <<>> /\ register = PowerOn

\* The file operations that any client may call while threads of earlier
\* writes run.
calls(p) ==
  \/ spidev_open(p)
  \/ spidev_release(p)
  \/ made < MaxCalls /\ \E images \in Arrays : spidev_ioctl(p, images)
  \/ made < MaxCalls /\ \E entries \in Written, n \in 0 .. Steps : spidev_write(p, entries, n)

-----------------------------------------------------------------------------
(* Properties.                                                             *)

\* README:34 "display the patterns": whenever an undisturbed thread rests on a
\* pattern, the chip is on, out of test mode, scans every row without decoding,
\* and each row shows the pattern, whatever earlier threads, overlapping or
\* with failed transfers, have left in its registers.
ShownIsWanted ==
  \A t \in Threads : thread[t].pc = "hold" /\ Undisturbed(t) =>
    /\ register[SHUTDOWN] = 1 /\ register[DISPLAY_TEST] = 0
    /\ register[SCAN_LIMIT] = 7 /\ register[DECODE] = 0
    /\ \A r \in 1 .. Rows : register[r] = pattern_array[thread[t].to_display][r]

\* The patterns of a sequence, up to its end.
UpToEnd(entries) ==
  LET ends == {i \in 1 .. Steps : entries[i] = End} IN
  IF ends = {} THEN entries ELSE SubSeq(entries, 1, Min(ends) - 1)

\* README:34-35 "display the patterns in sequence": an undisturbed thread
\* displays the patterns of its own write, in their order, and all of them by
\* the time it ends, even if the device has been closed meanwhile.
PatternsInSequence ==
  \A t \in Threads : Undisturbed(t) => LET wanted == UpToEnd(thread[t].asked) IN
    /\ IsPrefix(thread[t].shown, wanted)
    /\ thread[t].pc = "idle" => thread[t].shown = wanted

\* spidriver.c:86 "Send the message buffer": when send_message returns in an
\* undisturbed thread, its message is in its register, and no other register
\* has changed.
MessageArrives ==
  [][\A t \in Threads :
       thread[t].pc = "sent" /\ thread'[t].pc # "sent" /\ Undisturbed(t) =>
         register' = [register EXCEPT ![thread[t].buffer[1]] = thread[t].buffer[2]]]_vars

\* Every step of a display thread takes it further through its entries, their
\* messages and the steps of a message: whatever is written, whichever
\* transfers fail and whoever else uses the chip, a display comes to its end.
Position(x) ==
  LET step == CASE x.pc \in {"step", "next"} -> 0   [] x.pc = "sending" -> 1
                [] x.pc \in {"sent", "nothing_sent"} -> 2   [] x.pc = "hold" -> 3
      n == IF x.pc = "step" THEN 0 ELSE x.n
  IN  (x.i * (LastMessage + 1) + n) * 4 + step
DisplayAdvances ==
  [][\A t \in running :
       \/ thread'[t] = Disturb({t})[t] \/ UNCHANGED thread[t]
       \/ thread'[t].pc = "idle"
       \/ Position(thread'[t]) > Position(thread[t])]_vars

=============================================================================
