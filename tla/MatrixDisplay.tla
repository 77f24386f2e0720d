--------------------------- MODULE MatrixDisplay ---------------------------
(***************************************************************************)
(* What the LED-matrix driver promises to those who look at the matrix     *)
(* (ESP-Team09-Assgn04/README:34-35 "display the patterns in sequence"):   *)
(* one sequence at a time, its patterns in order, each one complete before *)
(* it is left to be seen and unchanged as long as it is, and a dark matrix *)
(* at the end of the sequence.  A write or new patterns while a sequence   *)
(* is shown, or a transfer that fails, end that promise until nothing is   *)
(* displayed any more; the next sequence is shown as promised again.       *)
(***************************************************************************)
EXTENDS Integers

CONSTANTS Patterns, \* indexes of the images
          Rows,     \* of the matrix
          Steps     \* the entries of a sequence

VARIABLES
  phase,   \* "idle", "drawing", "showing", or "garbled": no promise holds
  wanted,  \* the sequence to show
  next,    \* its entry to be shown next
  images,  \* what each row shows for a pattern, as in Max7219
  picture  \* what each row of the matrix shows

displayVars == <<phase, wanted, next, images, picture>>

End == -1
Pictures == [1 .. Rows -> Int]
Dark == [row \in 1 .. Rows |-> 0]

-----------------------------------------------------------------------------
Init ==
  /\ phase = "idle" /\ wanted = <<>> /\ next = 1
  /\ images = [q \in Patterns |-> Dark]
  /\ picture = Dark

\* Nothing is displayed or nothing is promised: no sequence is remembered.
Forgets(to) == phase' = to /\ wanted' = <<>> /\ next' = 1

Write ==
  /\ phase = "idle"
  /\ phase' = "drawing" /\ next' = 1
  /\ wanted' \in [1 .. Steps -> Patterns \cup {End}]
  /\ UNCHANGED <<images, picture>>

SetPatterns ==
  /\ images' \in [Patterns -> [1 .. Rows -> Nat]]
  /\ Forgets(IF phase = "idle" THEN "idle" ELSE "garbled")
  /\ UNCHANGED picture

\* A write, or a transfer that fails.
Garble ==
  /\ phase \in {"drawing", "showing"}
  /\ Forgets("garbled")
  /\ UNCHANGED <<images, picture>>

\* Until the next entry is shown the matrix may look like anything.
Draw ==
  /\ \/ phase = "drawing" /\ next <= Steps
     \/ phase = "garbled"
  /\ picture' \in Pictures
  /\ UNCHANGED <<phase, wanted, next, images>>

Show ==
  /\ phase = "drawing"
  /\ next <= Steps /\ wanted[next] # End
  /\ picture' = images[wanted[next]]
  /\ phase' = "showing" /\ next' = next + 1
  /\ UNCHANGED <<wanted, images>>

\* The duration of the pattern is over.
Change ==
  /\ phase = "showing" /\ phase' = "drawing"
  /\ UNCHANGED <<wanted, next, images, picture>>

\* An end makes the matrix dark; without one the last pattern stays.
Finish ==
  /\ phase = "drawing" /\ Forgets("idle")
  /\ IF next <= Steps THEN wanted[next] = End /\ picture' = Dark
                      ELSE UNCHANGED picture
  /\ UNCHANGED images

GarbledEnds ==
  /\ phase = "garbled" /\ Forgets("idle")
  /\ picture' \in Pictures
  /\ UNCHANGED images

Next ==
  \/ Write \/ SetPatterns \/ Garble
  \/ Draw \/ Show \/ Change \/ Finish
  \/ GarbledEnds

Spec == Init /\ [][Next]_displayVars

=============================================================================
