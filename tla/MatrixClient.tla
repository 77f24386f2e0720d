---------------------------- MODULE MatrixClient ----------------------------
(***************************************************************************)
(* The programs that use the LED-matrix driver, ESP-Team09-Assgn04/        *)
(* application2.c and application3.c, composed with the driver and the     *)
(* chip (Max7219): what a user sees depends on what the programs write     *)
(* and when.  A run has one client: either program, or one that calls the  *)
(* driver in any order.                                                    *)
(*                                                                         *)
(* application2 writes the same sequence every second, from a thread of    *)
(* its own.  Its Ctrl+C handler runs in main, and then, through            *)
(* pthread_kill, in the other threads as well.                             *)
(***************************************************************************)
EXTENDS Max7219

CONSTANTS
  Clients,        \* which of "any", "application2" and "application3" are run
  DisplayPattern, \* the programs' display_pattern
  MaxSequences,   \* bound on the sequences that application2 writes
  MaxFailing      \* bound on the threads that run while a transfer fails

ASSUME ClientAssumption ==
  /\ Clients \subseteq {"any", "application2", "application3"}
  /\ 0 .. Steps - 1 \subseteq Patterns
  /\ DisplayPattern \in Arrays
  /\ MaxSequences \in Nat /\ MaxFailing \in Nat

AppThreads == {"main", "update_display", "measure_distance"}

VARIABLES
  client,         \* the client of this run
  app,            \* where each thread of the program is
  filled,         \* how many entries the loop that fills user_sequence has stored
  user_sequence,  \* the program's global sequence
  exit_condition,
  torn            \* history: cleanup() has run while the loop was filling

clientVars == <<client, app, filled, user_sequence, exit_condition, torn>>
Process == CHOOSE p \in Procs : TRUE

Moves(t, from, to) == app[t] = from /\ app' = [app EXCEPT ![t] = to]

-----------------------------------------------------------------------------
(* main, of both programs.                                                 *)

main_opens ==
  /\ Moves("main", "open", "ioctl")
  /\ spidev_open(Process)
  /\ UNCHANGED <<client, filled, user_sequence, exit_condition, torn>>

main_sets_patterns ==
  /\ Moves("main", "ioctl", IF client = "application2" THEN "create" ELSE "write")
  /\ spidev_ioctl(Process, DisplayPattern)
  /\ UNCHANGED <<client, filled, user_sequence, exit_condition, torn>>

\* application3 completes its sequence before it opens the device.
complete_sequence == [i \in 1 .. Steps |-> IF i < Steps THEN i - 1 ELSE End]

application3 ==
  /\ \/ Moves("main", "write", "close") /\ spidev_write(Process, complete_sequence, Steps)
     \/ Moves("main", "close", "gone") /\ spidev_release(Process)
  /\ UNCHANGED <<client, filled, user_sequence, exit_condition, torn>>

\* main's own call of cleanup() is never reached: the threads end after
\* cleanup() has begun, and it begins in main.
create_threads ==
  /\ \/ app["main"] = "create" /\ app' = [app EXCEPT !["main"] = "create measure",
                                                       !["update_display"] = "loop"]
     \/ app["main"] = "create measure" /\ app' = [app EXCEPT !["main"] = "join",
                                                               !["measure_distance"] = "loop"]
  /\ UNCHANGED <<client, filled, user_sequence, exit_condition, torn, driverVars, thread, chipVars>>

-----------------------------------------------------------------------------
(* display_animation and get_distance.  The distance has no effect.        *)

\* Bound: MaxSequences sequences; the first one follows the call of ioctl.
display_begins ==
  /\ Moves("update_display", "loop", "fill")
  /\ ~exit_condition /\ made <= MaxSequences
  /\ UNCHANGED <<client, filled, user_sequence, exit_condition, torn, driverVars, thread, chipVars>>

display_fills ==
  /\ app["update_display"] = "fill"
  /\ filled < Steps /\ filled' = filled + 1
  /\ user_sequence' = [user_sequence EXCEPT ![filled + 1] = filled]
  /\ UNCHANGED <<client, app, exit_condition, torn, driverVars, thread, chipVars>>

display_ends_sequence ==
  /\ Moves("update_display", "fill", "write")
  /\ filled = Steps /\ filled' = 0
  /\ user_sequence' = [user_sequence EXCEPT ![Steps] = End]
  /\ UNCHANGED <<client, exit_condition, torn, driverVars, thread, chipVars>>

\* write(fd_spi, &sequence, sizeof(sequence)), in vain once the file is closed.
writes_sequence ==
  IF file[Process] = "open" THEN spidev_write(Process, user_sequence, Steps)
                            ELSE UNCHANGED <<driverVars, thread, chipVars>>

display_writes ==
  /\ Moves("update_display", "write", "loop")
  /\ writes_sequence
  /\ UNCHANGED <<client, filled, user_sequence, exit_condition, torn>>

thread_ends ==
  /\ exit_condition
  /\ \E t \in {"update_display", "measure_distance"} : Moves(t, "loop", "done")
  /\ UNCHANGED <<client, filled, user_sequence, exit_condition, torn, driverVars, thread, chipVars>>

-----------------------------------------------------------------------------
(* cleanup, in thread t.                                                   *)

Cleanup == {"clear", "clear write", "kill"}

\* A thread that is interrupted for cleanup() never goes back to what it did.
interrupted(t) == app[t] \notin {"none", "done", "gone"} \cup Cleanup
interrupt(t) ==
  /\ app' = [app EXCEPT ![t] = "clear"]
  /\ torn' = (torn \/ (t = "update_display" /\ app[t] = "fill"))
  /\ filled' = IF t = "update_display" THEN 0 ELSE filled

\* Ctrl+C goes to main.  Bound: once; main sends it on to the others.
SIGINT ==
  /\ interrupted("main") /\ interrupt("main")
  /\ UNCHANGED <<client, user_sequence, exit_condition, driverVars, thread, chipVars>>

\* Nothing comes between the flag and the entry that could see one of them.
cleanup_clear(t) ==
  /\ Moves(t, "clear", "clear write")
  /\ exit_condition' = TRUE
  /\ user_sequence' = [user_sequence EXCEPT ![1] = End]
  /\ UNCHANGED <<client, filled, torn, driverVars, thread, chipVars>>

cleanup_write(t) ==
  /\ Moves(t, "clear write", "kill")
  /\ writes_sequence
  /\ torn' = (torn \/ app["update_display"] = "fill")
  /\ UNCHANGED <<client, filled, user_sequence, exit_condition>>

\* The process is gone and its file is closed.
process_ends ==
  /\ app' = [u \in AppThreads |-> "gone"]
  /\ IF file[Process] = "open" THEN spidev_release(Process)
                               ELSE UNCHANGED <<driverVars, thread, chipVars>>

\* pthread_kill of measure_distance, then of update_display.  It has no effect on
\* a thread that is in cleanup() or has ended: such calls are left out.
victim == IF app["measure_distance"] = "none" \/ interrupted("measure_distance")
          THEN "measure_distance" ELSE "update_display"
cleanup_kill(t) ==
  /\ app[t] = "kill"
  /\ interrupted(victim) /\ interrupt(victim)
  /\ UNCHANGED <<client, user_sequence, exit_condition, driverVars, thread, chipVars>>

\* The end, unless pthread_kill has met a thread that was not created yet and
\* has crashed: the end as well.
cleanup_exit(t) ==
  /\ app[t] = "kill" /\ ~interrupted(victim)
  /\ process_ends
  /\ UNCHANGED <<client, filled, user_sequence, exit_condition, torn>>

cleanup(t) == cleanup_clear(t) \/ cleanup_write(t) \/ cleanup_kill(t) \/ cleanup_exit(t)

application2 ==
  \/ create_threads
  \/ display_begins \/ display_fills \/ display_ends_sequence \/ display_writes
  \/ thread_ends
  \/ SIGINT
  \/ \E t \in AppThreads : cleanup(t)

-----------------------------------------------------------------------------
ClientInit ==
  /\ Init
  /\ client \in Clients
  /\ app = [t \in AppThreads |-> IF t = "main" THEN "open" ELSE "none"]
  /\ filled = 0
  /\ user_sequence = [i \in 1 .. Steps |-> End]
  /\ exit_condition = FALSE
  /\ torn = FALSE

\* Bounds: transfers fail only under a free client, and only while at most
\* MaxFailing threads run.
Outcomes == IF client = "any" /\ Cardinality(running) <= MaxFailing THEN Statuses ELSE {2}

ClientNext ==
  \/ client = "any" /\ (\E p \in Procs : calls(p)) /\ UNCHANGED clientVars
  \/ client # "any" /\ (main_opens \/ main_sets_patterns)
  \/ client = "application2" /\ application2
  \/ client = "application3" /\ application3
  \/ (\E t \in Threads : display_thread(t, Outcomes)) /\ UNCHANGED clientVars

ClientSpec == ClientInit /\ [][ClientNext]_<<vars, clientVars>>

-----------------------------------------------------------------------------
(* Properties.                                                             *)

\* application2.c:279, application3.c:64 "turn off display matrix": a display
\* that nothing has disturbed leaves the matrix off, whoever closes the device
\* or exits before it ends.  A free client has to write an end; application3
\* always does, and application2 does, too, even when cleanup() runs in three
\* threads, unless it runs in the middle of the loop that fills the sequence.
DarkWhenDone ==
  \A t \in Threads :
    /\ thread[t].pc = "idle" /\ Undisturbed(t) /\ running = {}
    /\ ~torn
    /\ client = "any" => \E i \in 1 .. Steps : thread[t].asked[i] = End
    => register[SHUTDOWN] = 0

-----------------------------------------------------------------------------
(* The promise to those who look at the matrix.                            *)

\* The thread that displays undisturbed: there is one at most.
displaying == {t \in running : Undisturbed(t)}
displayed == thread[CHOOSE t \in displaying : TRUE]

\* A test lights everything, whether the chip is shut down or not; and nothing
\* is said of a picture that is decoded or not scanned completely.
visible(r) ==
  IF register[DISPLAY_TEST] # 0 THEN -1
  ELSE IF register[SHUTDOWN] = 0 THEN 0
  ELSE IF register[DECODE] = 0 /\ register[SCAN_LIMIT] = 7 THEN register[r] ELSE -1

phase ==
  IF running = {} THEN "idle" ELSE IF displaying = {} THEN "garbled"
  ELSE IF displayed.pc = "hold" THEN "showing" ELSE "drawing"
wanted == IF displaying = {} THEN <<>> ELSE displayed.asked
next == IF displaying = {} THEN 1
        ELSE IF displayed.pc = "hold" THEN displayed.i + 1 ELSE displayed.i
picture == [row \in 1 .. Rows |-> visible(row)]

Display == INSTANCE MatrixDisplay WITH images <- pattern_array

\* README:34-35 "display the patterns in sequence": under every client, whoever
\* else writes, closes the device or fails to transfer, the matrix is what
\* MatrixDisplay promises: no pattern is left to be seen before it is complete,
\* changes while it is, or is skipped, and the end of a sequence is dark.
ImplementsDisplay == Display!Spec

=============================================================================
