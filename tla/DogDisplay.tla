----------------------------- MODULE DogDisplay -----------------------------
(***************************************************************************)
(* The program ESP-Team09-Assgn04/application1.c with the pin helpers of   *)
(* Gpio_func.c: update_display sends an LED-matrix chip one register after *)
(* the other, measure_distance measures a distance and chooses what is     *)
(* displayed, and Ctrl+C runs cleanup() in whichever thread is given the   *)
(* signal.                                                                 *)
(*                                                                         *)
(* Of the chip only the SHUTDOWN register is kept: a message turns the     *)
(* display on, off, or does neither.  Of a distance only what it makes of   *)
(* the pattern is kept: whatever the polls see, with or without a timeout, *)
(* backward, forward and the same as before are all possible.              *)
(***************************************************************************)
EXTENDS Integers, Sequences, FiniteSets

CONSTANTS
  MaxFiles,   \* files the process may have open for the echo pin's edge
  MaxSignals  \* bound on the number of Ctrl+C

ASSUME DogAssumption == MaxFiles \in Nat /\ MaxSignals \in Nat

Threads == {"main", "update_display", "measure_distance"}

VARIABLES
  alive,          \* the process exists
  pc,             \* where each thread is; "none" before it is created
  cleared,        \* messages that clear_display has sent in each thread
  signals,        \* history: how many signals of Ctrl+C were delivered
  exit_condition, exitted2,
  pattern,        \* what is to be displayed
  count,          \* the display's position in its table
  seen,           \* the pattern that the display has last read
  exported,       \* the pins are exported
  fd_spi,         \* "stdin" (it is 0 before open), "open", "bad" or "closed"
  cs, shift, lit, \* the chip: its load input, shift register and SHUTDOWN
  edge_files,     \* open files of the echo pin's edge
  decided,        \* history: the pattern that the last measurement chose, 0 if
                  \* it chose between a load of pattern and its store, or
                  \* cleanup has begun
  late            \* history: the display has sent a message during cleanup

chipVars == <<exported, fd_spi, cs, shift, lit>>
flags == <<exit_condition, exitted2>>
histories == <<decided, late>>
vars == <<alive, pc, cleared, signals, flags, pattern, count, seen, chipVars, edge_files, histories>>

-----------------------------------------------------------------------------
(* The tables.                                                             *)

FORWARD_1 == 1
FORWARD_2 == 2
BACKWARD_1 == 3
BACKWARD_2 == 4

DECODE == 9
INTENSITY == 10
SCAN_LIMIT == 11
SHUTDOWN == 12
DISPLAY_TEST == 15
FrameLength == 26

\* Five settings and eight rows, each a register followed by its value.
settings == <<DECODE, 0, DISPLAY_TEST, 0, SHUTDOWN, 1, INTENSITY, 15, SCAN_LIMIT, 7>>
table(rows) == [i \in 1 .. FrameLength |->
  IF i <= 10 THEN settings[i] ELSE IF i % 2 = 1 THEN (i - 9) \div 2 ELSE rows[(i - 10) \div 2]]

display_pattern == <<
  table(<< 6,  6,  6, 131, 127,  36, 34,  99>>),
  table(<<96, 96, 96, 193, 254,  36, 68, 198>>),
  table(<< 6,  6,  6,   3, 127, 162, 50,  22>>),
  table(<<96, 96, 96, 192, 254,  69, 76, 104>>) >>

\* What a message of two bytes does: the chip decodes four address bits.
effect(address, value) ==
  IF address % 16 # SHUTDOWN THEN "other" ELSE IF value % 2 = 1 THEN "on" ELSE "off"

\* The message at count c.  It starts at either byte of a pair; the last one
\* ends beyond the table, with a byte that SHUTDOWN is never given.
row(p, c) ==
  effect(display_pattern[p][c + 1], IF c + 2 <= FrameLength THEN display_pattern[p][c + 2] ELSE 0)

-----------------------------------------------------------------------------
(* Pins, files and threads.                                                *)

\* gpio_set_value(15, v), which needs the pin to be exported.  The rising edge
\* loads the message in the chip's shift register.
gpio_set_value(v) ==
  /\ cs' = IF exported THEN v ELSE cs
  /\ lit' = IF cs = 0 /\ cs' = 1 /\ shift # "other" THEN shift = "on" ELSE lit
  /\ UNCHANGED <<exported, fd_spi, shift>>

\* ioctl(fd_spi, SPI_IOC_MESSAGE(1), ...)
spi_message(what) ==
  /\ shift' = IF fd_spi = "open" THEN what ELSE shift
  /\ UNCHANGED <<exported, fd_spi, cs, lit>>

Moves(t, from, to) ==
  /\ alive
  /\ pc[t] = from /\ pc' = [pc EXCEPT ![t] = to]
  /\ UNCHANGED <<cleared, signals>>

\* cleanup() ends the process: a thread that is interrupted for it never goes
\* back to what it did, and its locals do not matter any more.
Cleanup == {"flag", "wait", "clear select", "clear send", "clear raise", "last", "close",
            "unexport", "exit", "exited"}
Steps == Cleanup \cup
  {"none", "IOSetup", "spi_display_setup", "create update_display", "create measure_distance", "join",
   "begin", "top", "toggle", "select", "check", "send", "raise", "loop", "polls", "done"}
forgets_display == count' = 0 /\ seen' = FORWARD_1

-----------------------------------------------------------------------------
(* main.                                                                   *)

IOSetup ==
  /\ Moves("main", "IOSetup", "spi_display_setup")
  /\ exported' = TRUE /\ cs' = 0
  /\ UNCHANGED <<alive, flags, pattern, count, seen, fd_spi, shift, lit, edge_files, histories>>

\* Its five messages are sent with pin 15 low throughout: the chip loads none.
spi_display_setup ==
  /\ Moves("main", "spi_display_setup", "create update_display")
  /\ \/ alive' = FALSE /\ UNCHANGED <<fd_spi, shift>>        \* open fails
     \/ fd_spi' = "bad" /\ UNCHANGED <<alive, shift>>        \* the mode is refused
     \/ fd_spi' = "open" /\ shift' = "other" /\ UNCHANGED alive
  /\ UNCHANGED <<flags, pattern, count, seen, exported, cs, lit, edge_files, histories>>

pthread_create(t, from, next) ==
  /\ alive /\ pc["main"] = from
  /\ pc' = [pc EXCEPT !["main"] = next, ![t] = "begin"]
  /\ UNCHANGED <<alive, cleared, signals, flags, pattern, count, seen, chipVars, edge_files, histories>>

\* Its own call of cleanup() is never reached: the threads end after cleanup()
\* has begun, and main is then in it.
main_thread ==
  \/ IOSetup \/ spi_display_setup
  \/ pthread_create("update_display", "create update_display", "create measure_distance")
  \/ pthread_create("measure_distance", "create measure_distance", "join")

-----------------------------------------------------------------------------
(* display_animation.                                                      *)

display_begins ==
  /\ Moves("update_display", "begin", "top")
  /\ gpio_set_value(0)
  /\ UNCHANGED <<alive, flags, pattern, count, seen, edge_files, histories>>

\* The flag that it sets on its way out is a local variable.
display_leaves ==
  /\ \E from \in {"top", "check"} : Moves("update_display", from, "done")
  /\ exit_condition
  /\ forgets_display
  /\ UNCHANGED <<alive, flags, pattern, chipVars, edge_files, histories>>

\* switch(pattern).  The last pair's case also changes the pattern.
display_row ==
  /\ Moves("update_display", "top", IF count = 24 THEN "toggle" ELSE "select")
  /\ ~exit_condition
  /\ count' = count % FrameLength
  /\ seen' = pattern
  /\ UNCHANGED <<alive, flags, pattern, chipVars, edge_files, histories>>

toggles_backward == [p \in 1 .. 4 |->   \* backward has two patterns, too
  CASE p = FORWARD_1 -> FORWARD_2 [] p = FORWARD_2 -> FORWARD_1
    [] p = BACKWARD_1 -> BACKWARD_2 [] p = BACKWARD_2 -> BACKWARD_1]

toggles_to_forward ==   \* every frame ends with a change to forward
  [p \in 1 .. 4 |-> IF p = FORWARD_1 THEN FORWARD_2 ELSE FORWARD_1]

toggles == [p \in 1 .. 4 |->
  CASE p = FORWARD_1 -> FORWARD_2 [] p = FORWARD_2 -> FORWARD_1 [] OTHER -> p]

display_toggle ==
  /\ Moves("update_display", "toggle", "select")
  /\ pattern' = toggles[seen]
  /\ UNCHANGED <<alive, flags, count, seen, chipVars, edge_files, histories>>

display_select ==
  /\ Moves("update_display", "select", "check")
  /\ gpio_set_value(0)
  /\ UNCHANGED <<alive, flags, pattern, count, seen, edge_files, histories>>

display_check ==
  /\ Moves("update_display", "check", "send")
  /\ ~exit_condition
  /\ UNCHANGED <<alive, flags, pattern, count, seen, chipVars, edge_files, histories>>

display_send ==
  /\ Moves("update_display", "send", "raise")
  /\ spi_message(row(seen, count))
  /\ late' = (late \/ exit_condition)
  /\ UNCHANGED <<alive, flags, pattern, count, seen, edge_files, decided>>

display_raise ==
  /\ Moves("update_display", "raise", "top")
  /\ gpio_set_value(1)
  /\ count' = count + 1
  /\ UNCHANGED <<alive, flags, pattern, seen, edge_files, histories>>

display_animation ==
  \/ display_begins \/ display_leaves \/ display_row \/ display_toggle
  \/ display_select \/ display_check \/ display_send \/ display_raise

-----------------------------------------------------------------------------
(* get_distance.                                                           *)

distance_hides_flag ==   \* exitted2 is a local variable, as exitted1 is
  /\ Moves("measure_distance", "begin", "loop")
  /\ UNCHANGED <<alive, flags, pattern, count, seen, chipVars, edge_files, histories>>

distance_begins ==
  /\ Moves("measure_distance", "begin", "loop")
  /\ exitted2' = FALSE
  /\ UNCHANGED <<alive, exit_condition, pattern, count, seen, chipVars, edge_files, histories>>

\* Another file is opened for the edge, unless there are too many.  The file of
\* the trigger pin is open for reading only, so that no pulse is sent.
distance_triggers ==
  /\ Moves("measure_distance", "loop", "polls")
  /\ ~exit_condition
  /\ edge_files' = IF edge_files < MaxFiles THEN edge_files + 1 ELSE edge_files
  /\ UNCHANGED <<alive, flags, pattern, count, seen, chipVars, histories>>

\* Each of the two polls sees an edge or gives up.  The distance computed from
\* the times, of which one that was not taken is 0, has grown by more than
\* a tenth, by less, or by just a tenth.
change_display_pattern ==
  \/ UNCHANGED <<pattern, decided>>
  \/ /\ pattern' \in {BACKWARD_1, FORWARD_1}
     /\ decided' = IF pc["update_display"] = "toggle" THEN 0 ELSE pattern'

distance_decides ==
  /\ Moves("measure_distance", "polls", "loop")
  /\ change_display_pattern
  /\ UNCHANGED <<alive, flags, count, seen, chipVars, edge_files, late>>

distance_leaves_silently ==   \* the flag set at the end is a local variable
  /\ Moves("measure_distance", "loop", "done")
  /\ exit_condition
  /\ UNCHANGED <<alive, flags, pattern, count, seen, chipVars, edge_files, histories>>

distance_leaves ==
  /\ Moves("measure_distance", "loop", "done")
  /\ exit_condition
  /\ exitted2' = TRUE
  /\ UNCHANGED <<alive, exit_condition, pattern, count, seen, chipVars, edge_files, histories>>

get_distance ==
  \/ distance_begins \/ distance_triggers \/ distance_decides \/ distance_leaves

-----------------------------------------------------------------------------
(* cleanup, in thread t.                                                   *)

cleanup_flag(t) ==
  /\ Moves(t, "flag", "wait")
  /\ exit_condition' = TRUE
  /\ decided' = 0
  /\ UNCHANGED <<alive, exitted2, pattern, count, seen, chipVars, edge_files, late>>

\* The global exitted1 is always 1.
cleanup_wait(t) ==
  /\ Moves(t, "wait", "clear select")
  /\ exitted2
  /\ UNCHANGED <<alive, flags, pattern, count, seen, chipVars, edge_files, histories>>

\* clear_display: eight messages...
clear_select(t) ==
  /\ Moves(t, "clear select", "clear send")
  /\ gpio_set_value(0)
  /\ UNCHANGED <<alive, flags, pattern, count, seen, edge_files, histories>>

address_of_row(k) == k   \* count, not count << 2

\* count << 2: the addresses 0, 4, ... 28, of which two are SHUTDOWN's.
address(k) == 4 * k

clear_send(t) ==
  /\ Moves(t, "clear send", "clear raise")
  /\ spi_message(effect(address(cleared[t]), 0))
  /\ UNCHANGED <<alive, flags, pattern, count, seen, edge_files, histories>>

clear_raise(t) ==
  /\ alive /\ pc[t] = "clear raise"
  /\ pc' = [pc EXCEPT ![t] = IF cleared[t] = 7 THEN "last" ELSE "clear select"]
  /\ cleared' = [cleared EXCEPT ![t] = @ + 1]
  /\ gpio_set_value(1)
  /\ UNCHANGED <<alive, signals, flags, pattern, count, seen, edge_files, histories>>

\* ...and the last one once more, with pin 15 as it is.
clear_last(t) ==
  /\ Moves(t, "last", "close")
  /\ spi_message(effect(address(cleared[t] - 1), 0))
  /\ UNCHANGED <<alive, flags, pattern, count, seen, edge_files, histories>>

clear_close(t) ==
  /\ Moves(t, "close", "unexport")
  /\ fd_spi' = IF fd_spi = "open" THEN "closed" ELSE fd_spi
  /\ UNCHANGED <<alive, flags, pattern, count, seen, exported, cs, shift, lit, edge_files, histories>>

gpio_unexport(t) ==
  /\ Moves(t, "unexport", "exit")
  /\ exported' = FALSE
  /\ UNCHANGED <<alive, flags, pattern, count, seen, fd_spi, cs, shift, lit, edge_files, histories>>

cleanup_exit(t) ==
  /\ Moves(t, "exit", "exited")
  /\ alive' = FALSE
  /\ UNCHANGED <<flags, pattern, count, seen, chipVars, edge_files, histories>>

cleanup(t) ==
  \/ cleanup_flag(t) \/ cleanup_wait(t)
  \/ clear_select(t) \/ clear_send(t) \/ clear_raise(t) \/ clear_last(t) \/ clear_close(t)
  \/ gpio_unexport(t) \/ cleanup_exit(t)

\* The kernel gives the signal to main, or if main is in cleanup() already, to
\* another thread that is not; if there is none, the signal is pending until
\* there is one again, and counts when it is given to that thread.
\* Bound: it never falls on a new thread that has not made its first step.
takes(t) == pc[t] \notin {"none", "begin", "done"} \cup Cleanup
interrupts(t) ==
  /\ takes(t) /\ (t = "main" \/ ~takes("main"))
  /\ pc' = [pc EXCEPT ![t] = "flag"]
  /\ IF t = "update_display" THEN forgets_display ELSE UNCHANGED <<count, seen>>
SIGINT ==
  /\ alive /\ signals < MaxSignals
  /\ signals' = signals + 1
  /\ \E t \in Threads : interrupts(t)
  /\ UNCHANGED <<alive, cleared, flags, pattern, chipVars, edge_files, histories>>

-----------------------------------------------------------------------------
Init ==
  /\ alive = TRUE
  /\ pc = [t \in Threads |-> IF t = "main" THEN "IOSetup" ELSE "none"]
  /\ cleared = [t \in Threads |-> 0]
  /\ signals = 0
  /\ exit_condition = FALSE /\ exitted2 = TRUE
  /\ pattern = FORWARD_1 /\ count = 0 /\ seen = FORWARD_1
  /\ exported = FALSE /\ fd_spi = "stdin"
  /\ cs = 0 /\ shift = "other" /\ lit = FALSE
  /\ edge_files = 0
  /\ decided = FORWARD_1 /\ late = FALSE

Next ==
  \/ main_thread \/ display_animation \/ get_distance
  \/ \E t \in Threads : cleanup(t)
  \/ SIGINT

\* The kernel runs every thread.  Nobody has to press Ctrl+C.
Spec ==
  /\ Init /\ [][Next]_vars
  /\ WF_vars(main_thread) /\ WF_vars(display_animation) /\ WF_vars(get_distance)
  /\ \A t \in Threads : WF_vars(cleanup(t))

-----------------------------------------------------------------------------
(* Properties.                                                             *)

TypeOK ==
  /\ alive \in BOOLEAN /\ exit_condition \in BOOLEAN /\ exitted2 \in BOOLEAN
  /\ pc \in [Threads -> Steps] /\ cleared \in [Threads -> 0 .. 8]
  /\ signals \in 0 .. MaxSignals
  /\ pattern \in 1 .. 4 /\ seen \in 1 .. 4 /\ count \in 0 .. FrameLength
  /\ exported \in BOOLEAN /\ fd_spi \in {"stdin", "open", "bad", "closed"}
  /\ cs \in {0, 1} /\ shift \in {"on", "off", "other"} /\ lit \in BOOLEAN
  /\ edge_files \in 0 .. MaxFiles
  /\ decided \in {0, FORWARD_1, BACKWARD_1} /\ late \in BOOLEAN

\* application1.c:322 "Waiting for threads to exit": once a cleanup() has done
\* its waiting, measure_distance never again triggers, polls or changes the
\* pattern, wherever the signal found it, and be it not yet created.
MeasuringIsOver ==
  (\E t \in Threads : pc[t] \in Cleanup \ {"flag", "wait"})
    => pc["measure_distance"] # "polls"

\* Once the display is on it stays on until cleanup(): although every other
\* message is made of the value of one register and the address of the next,
\* and although the tables change in the middle of a frame.
StaysLit == [][lit /\ ~exit_condition => lit']_vars

\* application1.c:289 "Clearing Display": the program leaves the display off if
\* cleanup() ran once, on a chip that was opened, and the display has sent
\* nothing meanwhile; even if that thread lifts pin 15 between two steps of
\* a message and makes it disappear.
OffAtExit ==
  ~alive /\ fd_spi = "closed" /\ ~late
    /\ Cardinality({t \in Threads : pc[t] \in Cleanup}) = 1 => ~lit

\* ESP-Team09-Assgn04/README:20 "Two for forward movement of the dog and two
\* for backward": until the next measurement decides, the display keeps to the
\* direction of the last one through all ends of frames, unless the decision
\* fell between the display's load of the pattern and its store.
DirectionIsKept ==
  /\ decided = FORWARD_1 => pattern \in {FORWARD_1, FORWARD_2}
  /\ decided = BACKWARD_1 => pattern \in {BACKWARD_1, BACKWARD_2}

\* ESP-Team09-Assgn04/README:22 "cleanup ... upon Ctrl+C": Ctrl+C ends the
\* program, also when polls give up and files run out.  Only if a second Ctrl+C
\* meets measure_distance in its loop does cleanup() wait there for ever, for
\* the very thread that it interrupts.
CtrlCEnds ==
  signals > 0 ~> ~alive \/ (pc["measure_distance"] = "wait" /\ ~exitted2)

=============================================================================
