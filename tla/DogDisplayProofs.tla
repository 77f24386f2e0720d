-------------------------- MODULE DogDisplayProofs --------------------------
(***************************************************************************)
(* Theorems about DogDisplay, for any number of Ctrl+C and of files: the   *)
(* handshake of cleanup() and measure_distance; the display's direction;   *)
(* what keeps it lit; what makes cleanup() leave it dark; and what it may  *)
(* have to wait for.                                                       *)
(***************************************************************************)
EXTENDS DogDisplay, FiniteSetTheorems, TLAPS

Flags == exit_condition \in BOOLEAN /\ exitted2 \in BOOLEAN /\ pc \in [Threads -> Steps]

\* While measure_distance is in its loop its flag is cleared, and no cleanup()
\* gets beyond its first step without setting the other flag.
HandshakeInv ==
  /\ Flags
  /\ pc["measure_distance"] \in {"loop", "polls"} => ~exitted2
  /\ (\E t \in Threads : pc[t] \in Cleanup \ {"flag"}) => exit_condition
  /\ MeasuringIsOver

\* Threads t that are past the first step, or past the wait, of cleanup().
PastFlag(p) == \E t \in Threads : p[t] \in Cleanup \ {"flag"}
PastWait(p) == \E t \in Threads : p[t] \in Cleanup \ {"flag", "wait"}

\* One thread goes on and the others stay where they are.
LEMMA OneMoves ==
  ASSUME pc \in [Threads -> Steps], NEW t \in Threads, NEW to \in Steps,
         pc' = [pc EXCEPT ![t] = to]
  PROVE  /\ pc' \in [Threads -> Steps]
         /\ \A s \in Threads : pc'[s] = IF s = t THEN to ELSE pc[s]
OBVIOUS

LEMMA Names ==
  /\ {"main", "update_display", "measure_distance"} \subseteq Threads
  /\ Cleanup \subseteq Steps
BY DEF Threads, Steps

\* Steps that leave the flags alone, take measure_distance nowhere into its loop
\* and no thread further into cleanup() preserve the invariant.
LEMMA Elsewhere ==
  ASSUME HandshakeInv, UNCHANGED flags, pc' \in [Threads -> Steps],
         pc'["measure_distance"] \in {"loop", "polls"} => pc'["measure_distance"] = pc["measure_distance"],
         PastFlag(pc') => PastFlag(pc), PastWait(pc') => PastWait(pc)
  PROVE  HandshakeInv'
BY DEF HandshakeInv, Flags, MeasuringIsOver, PastFlag, PastWait, flags

\* The two flags work as a handshake of two threads: measure_distance clears its
\* own before it looks at cleanup's, and cleanup sets its own before it looks at
\* measure_distance's.  HandshakeInv is an invariant.
THEOREM HandshakeCorrect == Spec => []HandshakeInv
<1>1. ASSUME Init PROVE HandshakeInv
  <2>1. pc \in [Threads -> Steps] /\ pc["main"] = "IOSetup"
        /\ pc["update_display"] = "none" /\ pc["measure_distance"] = "none"
    BY <1>1 DEF Init, Threads, Steps
  <2>2. exit_condition \in BOOLEAN /\ exitted2 \in BOOLEAN
    BY <1>1, Zenon DEF Init
  <2> QED BY <2>1, <2>2 DEF HandshakeInv, Flags, MeasuringIsOver, Threads, Cleanup
<1>2. ASSUME HandshakeInv, [Next]_vars
      PROVE  HandshakeInv'
  <2> USE <1>2
  <2>0. pc \in [Threads -> Steps]
    BY DEF HandshakeInv, Flags
  <2> USE <2>0
  <2>1. CASE main_thread
    <3>1. /\ UNCHANGED flags
          /\ pc' \in [Threads -> Steps]
          /\ \A t \in Threads : pc'[t] = pc[t] \/ pc'[t] \notin Cleanup \cup {"loop", "polls"}
      <4>1. UNCHANGED flags
        BY <2>1 DEF main_thread, IOSetup, spi_display_setup, pthread_create, flags
      <4>2. CASE \E to \in {"spi_display_setup", "create update_display"} : pc' = [pc EXCEPT !["main"] = to]
        BY <4>1, <4>2, OneMoves, Names DEF Steps, Cleanup
      <4>3. CASE \E to \in {"create measure_distance", "join"}, t \in Threads :
                   pc' = [pc EXCEPT !["main"] = to, ![t] = "begin"]
        <5> PICK to \in {"create measure_distance", "join"}, t \in Threads :
                   pc' = [pc EXCEPT !["main"] = to, ![t] = "begin"]
          BY <4>3
        <5>1. to \in Steps \ Cleanup /\ "begin" \in Steps \ Cleanup
          BY DEF Steps, Cleanup
        <5>2. pc' \in [Threads -> Steps]
          BY <5>1, Names
        <5>3. \A s \in Threads : pc'[s] = pc[s] \/ pc'[s] \in {to, "begin"}
          BY <5>1, Names
        <5> QED BY <4>1, <5>1, <5>2, <5>3
      <4> QED BY <2>1, <4>1, <4>2, <4>3, Names
           DEF main_thread, IOSetup, spi_display_setup, pthread_create, Moves
    <3> QED BY <3>1, Elsewhere DEF PastFlag, PastWait, Threads
  <2>2. CASE display_animation
    <3>1. \E from \in {"begin", "top", "check", "toggle", "select", "send", "raise"},
             to \in {"top", "done", "toggle", "select", "check", "send", "raise"} :
            Moves("update_display", from, to) /\ UNCHANGED flags
      BY <2>2 DEF display_animation, display_begins, display_leaves, display_row, display_toggle,
                  display_select, display_check, display_send, display_raise, flags
    <3>2. /\ UNCHANGED flags
          /\ pc' \in [Threads -> Steps]
          /\ \A t \in Threads : pc'[t] = pc[t] \/ pc'[t] \notin Cleanup \cup {"loop", "polls"}
      BY <3>1, OneMoves, Names DEF Moves, Steps, Cleanup
    <3> QED BY <3>2, Elsewhere DEF PastFlag, PastWait, Threads
  <2>3. CASE get_distance
    <3> USE DEF HandshakeInv, Flags, MeasuringIsOver, Threads, Cleanup, Steps
    <3>1. CASE distance_begins
      BY <3>1 DEF distance_begins, Moves
    <3>2. CASE distance_triggers
      BY <3>2 DEF distance_triggers, Moves, flags
    <3>3. CASE distance_decides
      BY <3>3 DEF distance_decides, Moves, flags
    <3>4. CASE distance_leaves
      BY <3>4 DEF distance_leaves, Moves
    <3> QED BY <2>3, <3>1, <3>2, <3>3, <3>4 DEF get_distance
  <2>4. ASSUME NEW t \in Threads, cleanup(t)
        PROVE  HandshakeInv'
    <3>1. CASE cleanup_flag(t)
      <4>1. pc' = [pc EXCEPT ![t] = "wait"] /\ pc[t] = "flag" /\ exit_condition' = TRUE /\ exitted2' = exitted2
        BY <3>1 DEF cleanup_flag, Moves
      <4>2. /\ pc' \in [Threads -> Steps]
            /\ \A s \in Threads : pc'[s] = IF s = t THEN "wait" ELSE pc[s]
        BY <4>1, OneMoves DEF Steps, Cleanup
      <4>3. pc'["measure_distance"] \in {"loop", "polls"} => ~exitted2'
        BY <4>1, <4>2, Names DEF HandshakeInv
      <4>4. MeasuringIsOver'
        BY <4>2, Names DEF HandshakeInv, MeasuringIsOver
      <4>5. Flags'
        BY <4>1, <4>2, Zenon DEF HandshakeInv, Flags
      <4>6. exit_condition'
        BY <4>1, Zenon
      <4> QED BY <4>3, <4>4, <4>5, <4>6, Zenon DEF HandshakeInv
    <3>2. CASE cleanup_wait(t)
      <4>1. pc' = [pc EXCEPT ![t] = "clear select"] /\ pc[t] = "wait" /\ exitted2 /\ UNCHANGED flags
        BY <3>2 DEF cleanup_wait, Moves
      <4>2. /\ pc' \in [Threads -> Steps]
            /\ \A s \in Threads : pc'[s] = IF s = t THEN "clear select" ELSE pc[s]
        BY <4>1, OneMoves DEF Steps, Cleanup
      <4>3. pc'["measure_distance"] \notin {"loop", "polls"}
        BY <4>1, <4>2, Names DEF HandshakeInv
      <4>4. PastFlag(pc)
        BY <4>1 DEF PastFlag, Cleanup
      <4>5. exit_condition /\ Flags
        BY <4>4, Zenon DEF HandshakeInv, PastFlag
      <4>6. exit_condition' /\ Flags'
        BY <4>1, <4>2, <4>5, Zenon DEF Flags, flags
      <4> QED BY <4>3, <4>6, Zenon DEF HandshakeInv, MeasuringIsOver
    <3>3. CASE ~cleanup_flag(t) /\ ~cleanup_wait(t)
      <4>1. /\ pc[t] \in Cleanup \ {"flag", "wait"}
            /\ \E to \in Cleanup : pc' = [pc EXCEPT ![t] = to]
            /\ UNCHANGED flags
        BY <2>4, <3>3 DEF cleanup, clear_select, clear_send, clear_raise, clear_last, clear_close,
                    gpio_unexport, cleanup_exit, Moves, flags, Cleanup
      <4>2. /\ pc' \in [Threads -> Steps]
            /\ pc'["measure_distance"] = pc["measure_distance"] \/ pc'["measure_distance"] \in Cleanup
        BY <4>1, OneMoves, Names
      <4>3. PastFlag(pc) /\ PastWait(pc)
        BY <4>1 DEF PastFlag, PastWait
      <4> QED BY <4>1, <4>2, <4>3, Elsewhere DEF Cleanup
    <3> QED BY <2>4, <3>1, <3>2, <3>3
  <2>5. CASE SIGINT
    <3>1. UNCHANGED flags /\ \E t \in Threads : pc' = [pc EXCEPT ![t] = "flag"]
      BY <2>5 DEF SIGINT, interrupts, flags
    <3>2. /\ pc' \in [Threads -> Steps]
          /\ \A t \in Threads : pc'[t] = pc[t] \/ pc'[t] = "flag"
      BY <3>1, OneMoves, Names DEF Cleanup
    <3> QED BY <3>1, <3>2, Elsewhere DEF PastFlag, PastWait, Threads
  <2>6. CASE UNCHANGED vars
    BY <2>6, Elsewhere DEF vars, flags
  <2> QED BY <2>1, <2>2, <2>3, <2>4, <2>5, <2>6 DEF Next
<1> QED BY <1>1, <1>2, PTL DEF Spec

\* Once a cleanup() has waited, measure_distance does not measure again.
THEOREM MeasuringIsOverCorrect == Spec => []MeasuringIsOver
<1>1. HandshakeInv => MeasuringIsOver
  BY DEF HandshakeInv
<1> QED BY <1>1, HandshakeCorrect, PTL

-----------------------------------------------------------------------------
(* What the display shows.                                                 *)

\* Of the bytes of the tables that are ever displayed only the address SHUTDOWN
\* itself is read as that address, and its value turns the display on.  The
\* fourth table, which nothing chooses, has another: its row 76.
LEMMA Bytes ==
  ASSUME NEW p \in 1 .. 3, NEW i \in 1 .. FrameLength
  PROVE  /\ display_pattern[p][i] \in Nat
         /\ display_pattern[p][i] % 16 = SHUTDOWN => i = 5
         /\ i = 6 => display_pattern[p][i] = 1
  <1>. DEFINE rows(q) == CASE q = 1 -> << 6,  6,  6, 131, 127,  36, 34,  99>>
                       [] q = 2 -> <<96, 96, 96, 193, 254,  36, 68, 198>>
                       [] q = 3 -> << 6,  6,  6,   3, 127, 162, 50,  22>>
  <1>1. display_pattern[p] = table(rows(p))
    BY DEF display_pattern
  <1>2. display_pattern[p][i] = IF i <= 10 THEN settings[i]
                               ELSE IF i % 2 = 1 THEN (i - 9) \div 2 ELSE rows(p)[(i - 10) \div 2]
    BY <1>1 DEF table
  <1>3. CASE i <= 10
    <2>1. display_pattern[p][i] = settings[i] /\ i \in 1 .. 10
      BY <1>2, <1>3 DEF FrameLength
    <2>. QED
      BY <2>1 DEF settings, DECODE, INTENSITY, SCAN_LIMIT, SHUTDOWN, DISPLAY_TEST
  <1>4. CASE i > 10 /\ i % 2 = 1
    <2>1. display_pattern[p][i] = (i - 9) \div 2
      BY <1>2, <1>4
    <2>2. (i - 9) \div 2 \in 1 .. 8
      BY <1>4 DEF FrameLength
    <2>3. \A x \in 1 .. 8 : x % 16 # 12
      OBVIOUS
    <2>. QED
      BY <1>4, <2>1, <2>2, <2>3 DEF SHUTDOWN
  <1>5. CASE i > 10 /\ i % 2 # 1
    <2>1. display_pattern[p][i] = rows(p)[(i - 10) \div 2]
      BY <1>2, <1>5
    <2>2. (i - 10) \div 2 \in 1 .. 8
      BY <1>5 DEF FrameLength
    <2>3. \A x \in 1 .. 8 : rows(p)[x] \in Nat /\ rows(p)[x] % 16 # 12
      OBVIOUS
    <2>. QED
      BY <1>5, <2>1, <2>2, <2>3 DEF SHUTDOWN
  <1>. QED
    BY <1>3, <1>4, <1>5 DEF FrameLength

\* So no two bytes in a row, wherever they start, turn the display off.
LEMMA RowKeepsLit ==
  ASSUME NEW p \in 1 .. 3, NEW c \in 0 .. FrameLength - 1
  PROVE  row(p, c) \in {"on", "other"}
  <1>1. CASE c = 4
    BY <1>1, Bytes DEF row, effect, FrameLength, SHUTDOWN
  <1>2. CASE c # 4
    <2>1. c + 1 \in 1 .. FrameLength /\ c + 1 # 5
      BY <1>2 DEF FrameLength
    <2>2. display_pattern[p][c + 1] % 16 # SHUTDOWN
      BY <2>1, Bytes
    <2>. QED
      BY <2>2 DEF row, effect
  <1>. QED
    BY <1>1, <1>2
InFrame == {"toggle", "select", "check", "send", "raise"}

\* The display is within the first three tables.
FrameInv ==
  /\ pattern \in 1 .. 3 /\ seen \in 1 .. 3
  /\ count \in 0 .. FrameLength
  /\ pc["update_display"] \in InFrame => count < FrameLength

\* Between its load of the pattern and its store, the display has the pattern
\* that was decided, unless a decision has fallen in between.
DirectionInv ==
  /\ decided \in {0, FORWARD_1, BACKWARD_1}
  /\ DirectionIsKept
  /\ pc["update_display"] = "toggle" /\ decided # 0 => seen = pattern

\* Before a cleanup() no message that turns the display off is in the chip.
ShiftInv == ~exit_condition => shift \in {"on", "other"}

ShowInv == FrameInv /\ DirectionInv /\ ShiftInv

LEMMA ShowInit == Init => ShowInv
  BY DEF Init, ShowInv, FrameInv, DirectionInv, DirectionIsKept, ShiftInv, InFrame, Threads, FrameLength,
         FORWARD_1, FORWARD_2, BACKWARD_1

\* Nothing the display depends on changes, and it starts nothing.
LEMMA ShowElsewhere ==
  ASSUME ShowInv, UNCHANGED <<pattern, seen, count>>,
         pc'["update_display"] \in InFrame => pc'["update_display"] = pc["update_display"],
         decided' \in {0, decided}, exit_condition => exit_condition',
         exit_condition' \/ shift' \in {shift, "other"}
  PROVE  ShowInv'
  <1>1. FrameInv'
    BY DEF ShowInv, FrameInv
  <1>2. DirectionInv'
    BY DEF ShowInv, DirectionInv, DirectionIsKept, InFrame, FORWARD_1, FORWARD_2, BACKWARD_1, BACKWARD_2
  <1>3. ShiftInv'
    <2>1. ~exit_condition' => ~exit_condition /\ shift' \in {shift, "other"}
      BY Zenon
    <2>. QED
      BY <2>1 DEF ShowInv, ShiftInv
  <1>. QED
    BY <1>1, <1>2, <1>3 DEF ShowInv

LEMMA ShowStep == HandshakeInv /\ ShowInv /\ [Next]_vars => ShowInv'
  <1>. SUFFICES ASSUME HandshakeInv, ShowInv, [Next]_vars PROVE ShowInv'
    OBVIOUS
  <1>0. pc \in [Threads -> Steps] /\ "update_display" \in Threads /\ "measure_distance" \in Threads
    BY DEF HandshakeInv, Flags, Threads
  <1>1. CASE main_thread
    <2>1. /\ UNCHANGED <<pattern, seen, count, decided, exit_condition>> /\ shift' \in {shift, "other"}
          /\ \/ \E to : pc' = [pc EXCEPT !["main"] = to]
             \/ \E t, to : to \notin InFrame /\ pc' = [pc EXCEPT !["main"] = to, ![t] = "begin"]
      BY <1>1 DEF main_thread, IOSetup, spi_display_setup, pthread_create, Moves, flags, histories, chipVars, InFrame
    <2>2. pc'["update_display"] \in InFrame => pc'["update_display"] = pc["update_display"]
      BY <1>0, <2>1 DEF InFrame
    <2>. QED
      BY <2>1, <2>2, ShowElsewhere
  <1>2. CASE display_animation
    <2>. USE <1>0 DEF Moves, flags, histories, chipVars, gpio_set_value, spi_message
    <2>1. CASE display_begins \/ display_leaves
      BY <2>1 DEF display_begins, display_leaves, forgets_display, ShowInv, FrameInv, DirectionInv,
                  DirectionIsKept, ShiftInv, InFrame, FORWARD_1, FrameLength
    <2>2. CASE display_row
      <3>1. /\ UNCHANGED <<pattern, decided, exit_condition, shift>>
            /\ seen' = pattern /\ count' = count % FrameLength
        BY <2>2 DEF display_row
      <3>2. count' \in 0 .. FrameLength - 1
        BY <3>1 DEF ShowInv, FrameInv, FrameLength
      <3>. QED
        BY <3>1, <3>2 DEF ShowInv, FrameInv, DirectionInv, DirectionIsKept, ShiftInv, FrameLength
    <2>3. CASE display_toggle
      <3>1. /\ UNCHANGED <<count, seen, decided, exit_condition, shift>>
            /\ pattern' = toggles[seen] /\ pc["update_display"] = "toggle"
            /\ pc'["update_display"] = "select"
        BY <2>3 DEF display_toggle
      <3>2. pattern' = CASE seen = 1 -> 2 [] seen = 2 -> 1 [] seen = 3 -> 3
        BY <3>1 DEF toggles, ShowInv, FrameInv, FORWARD_1, FORWARD_2
      <3>. QED
        BY <3>1, <3>2 DEF ShowInv, FrameInv, DirectionInv, DirectionIsKept, ShiftInv, InFrame,
                          FORWARD_1, FORWARD_2, BACKWARD_1, BACKWARD_2
    <2>4. CASE display_select \/ display_check
      BY <2>4 DEF display_select, display_check, ShowInv, FrameInv, DirectionInv, DirectionIsKept, ShiftInv, InFrame
    <2>5. CASE display_send
      <3>1. row(seen, count) \in {"on", "other"}
        BY <2>5, RowKeepsLit DEF display_send, ShowInv, FrameInv, InFrame, FrameLength
      <3>. QED
        BY <2>5, <3>1 DEF display_send, ShowInv, FrameInv, DirectionInv, DirectionIsKept, ShiftInv, InFrame
    <2>6. CASE display_raise
      BY <2>6 DEF display_raise, ShowInv, FrameInv, DirectionInv, DirectionIsKept, ShiftInv, InFrame, FrameLength
    <2>. QED
      BY <1>2, <2>1, <2>2, <2>3, <2>4, <2>5, <2>6 DEF display_animation
  <1>3. CASE get_distance
    <2>1. /\ pc'["update_display"] = pc["update_display"]
          /\ UNCHANGED <<seen, count, exit_condition, shift>>
          /\ \/ UNCHANGED <<pattern, decided>>
             \/ /\ pattern' \in {BACKWARD_1, FORWARD_1}
                /\ decided' = IF pc["update_display"] = "toggle" THEN 0 ELSE pattern'
      BY <1>0, <1>3 DEF get_distance, distance_begins, distance_triggers, distance_decides, distance_leaves,
                  change_display_pattern, Moves, flags, histories, chipVars
    <2>. QED
      BY <2>1 DEF ShowInv, FrameInv, DirectionInv, DirectionIsKept, ShiftInv, FORWARD_1, FORWARD_2, BACKWARD_1, BACKWARD_2
  <1>4. ASSUME NEW t \in Threads, cleanup(t) PROVE ShowInv'
    <2>1. /\ UNCHANGED <<pattern, seen, count>>
          /\ decided' \in {0, decided}
          /\ \E to \in Cleanup : pc' = [pc EXCEPT ![t] = to]
      BY <1>4 DEF cleanup, cleanup_flag, cleanup_wait, clear_select, clear_send, clear_raise, clear_last, clear_close,
                  gpio_unexport, cleanup_exit, Moves, flags, histories, Cleanup
    <2>2. /\ exit_condition => exit_condition'
          /\ exit_condition' \/ shift' = shift
      <3>1. CASE cleanup_flag(t)
        BY <3>1, Zenon DEF cleanup_flag
      <3>2. CASE ~cleanup_flag(t)
        <4>1. pc[t] \in Cleanup \ {"flag"} /\ exit_condition' = exit_condition
          BY <1>4, <3>2 DEF cleanup, cleanup_wait, clear_select, clear_send, clear_raise, clear_last, clear_close,
                  gpio_unexport, cleanup_exit, Moves, flags, Cleanup
        <4>2. exit_condition
          BY <4>1, Zenon DEF HandshakeInv
        <4>. QED
          BY <4>1, <4>2, Zenon
      <3>. QED
        BY <3>1, <3>2
    <2>3. pc'["update_display"] \in InFrame => pc'["update_display"] = pc["update_display"]
      BY <1>0, <2>1 DEF InFrame, Cleanup
    <2>. QED
      BY <2>1, <2>2, <2>3, ShowElsewhere
  <1>5. CASE SIGINT
    <2>1. PICK t \in Threads : interrupts(t)
      BY <1>5 DEF SIGINT
    <2>2. CASE t = "update_display"
      BY <1>0, <1>5, <2>1, <2>2 DEF SIGINT, interrupts, forgets_display, ShowInv, FrameInv, DirectionInv, DirectionIsKept,
         ShiftInv, InFrame, flags, chipVars, histories, FORWARD_1, FrameLength
    <2>3. CASE t # "update_display"
      <3>1. UNCHANGED <<pattern, seen, count, decided, exit_condition, shift>> /\ pc' = [pc EXCEPT ![t] = "flag"]
        BY <1>5, <2>1, <2>3 DEF SIGINT, interrupts, flags, chipVars, histories
      <3>. QED
        BY <1>0, <2>3, <3>1, ShowElsewhere
    <2>. QED
      BY <2>2, <2>3
  <1>6. CASE UNCHANGED vars
    BY <1>6, ShowElsewhere DEF vars, flags, chipVars, histories
  <1>. QED
    BY <1>1, <1>2, <1>3, <1>4, <1>5, <1>6 DEF Next

LEMMA ShowAlways == Spec => [](HandshakeInv /\ ShowInv)
  BY HandshakeCorrect, ShowInit, ShowStep, PTL DEF Spec

\* The display keeps to the direction of the last measurement.
THEOREM DirectionCorrect == Spec => []DirectionIsKept
  <1>1. ShowInv => DirectionIsKept
    BY DEF ShowInv, DirectionInv
  <1>. QED
    BY <1>1, ShowAlways, PTL

\* gpio_set_value: while the message in the chip does not turn the display on,
\* it stays dark; a rising edge with a message that turns it off makes it dark;
\* a falling one changes nothing.
LEMMA Edges ==
  ASSUME NEW v \in {0, 1}, gpio_set_value(v), shift \in {"on", "off", "other"}
  PROVE  /\ exported' = exported /\ fd_spi' = fd_spi /\ shift' = shift
         /\ cs' \in {cs, v} /\ (exported => cs' = v)
         /\ v = 0 => lit' = lit
         /\ shift # "on" /\ ~lit => ~lit'
         /\ shift = "off" /\ cs = 0 /\ exported /\ v = 1 => ~lit'
         /\ shift # "off" /\ lit => lit'
  <1>. DEFINE rises == cs = 0 /\ cs' = 1 /\ shift # "other"
  <1>1. /\ exported' = exported /\ fd_spi' = fd_spi /\ shift' = shift
        /\ cs' = IF exported THEN v ELSE cs
        /\ lit' = IF rises THEN shift = "on" ELSE lit
    BY Zenon DEF gpio_set_value
  <1>2. cs' \in {cs, v} /\ (exported => cs' = v) /\ (v = 0 => ~rises)
    BY <1>1
  <1>3. shift = "off" /\ cs = 0 /\ exported /\ v = 1 => rises
    BY <1>1
  <1>4. CASE rises
    <2>1. lit' <=> shift = "on"
      BY <1>1, <1>4, Zenon
    <2>2. shift # "off" <=> shift = "on"
      BY <1>4
    <2>. HIDE DEF rises
    <2>. QED
      BY <1>1, <1>2, <1>4, <2>1, <2>2
  <1>5. CASE ~rises
    <2>. HIDE DEF rises
    <2>1. lit' = lit
      BY <1>1, <1>5, Zenon
    <2>. QED
      BY <1>1, <1>2, <1>3, <1>5, <2>1
  <1>. QED
    BY <1>4, <1>5

\* From when the display is on until cleanup() it stays on.
THEOREM StaysLitCorrect == Spec => StaysLit
  <1>1. HandshakeInv /\ ShowInv /\ [Next]_vars => [lit /\ ~exit_condition => lit']_vars
    <2>. SUFFICES ASSUME HandshakeInv, ShiftInv, Next, lit, ~exit_condition PROVE lit'
      BY DEF ShowInv
    <2>1. shift \in {"on", "other"}
      BY DEF ShiftInv
    <2>2. CASE \E v \in {0, 1} : gpio_set_value(v)
      BY <2>1, <2>2, Edges, Zenon
    <2>3. CASE lit' = lit
      BY <2>3, Zenon
    <2>4. CASE main_thread
      <3>1. lit' = lit
        BY <2>4, Zenon DEF main_thread, IOSetup, spi_display_setup, pthread_create, chipVars
      <3>. QED
        BY <2>3, <3>1
    <2>5. CASE display_animation
      <3>1. lit' = lit \/ gpio_set_value(0) \/ gpio_set_value(1)
        BY <2>5 DEF display_animation, display_begins, display_leaves, display_row, display_toggle,
                    display_select, display_check, display_send, display_raise, spi_message, chipVars
      <3>. QED
        BY <2>2, <2>3, <3>1
    <2>6. CASE get_distance
      <3>1. lit' = lit
        BY <2>6 DEF get_distance, distance_begins, distance_triggers, distance_decides, distance_leaves, chipVars
      <3>. QED
        BY <2>3, <3>1
    <2>7. ASSUME NEW t \in Threads, cleanup(t) PROVE lit'
      <3>1. pc[t] = "flag"
        <4>1. pc[t] \in Cleanup
          BY <2>7 DEF cleanup, cleanup_flag, cleanup_wait, clear_select, clear_send, clear_raise, clear_last,
                      clear_close, gpio_unexport, cleanup_exit, Moves, Cleanup
        <4>. QED
          BY <4>1, Zenon DEF HandshakeInv
      <3>2. lit' = lit
        BY <2>7, <3>1 DEF cleanup, cleanup_flag, cleanup_wait, clear_select, clear_send, clear_raise, clear_last,
                      clear_close, gpio_unexport, cleanup_exit, Moves, chipVars
      <3>. QED
        BY <2>3, <3>2
    <2>8. CASE SIGINT
      <3>1. lit' = lit
        BY <2>8 DEF SIGINT, chipVars
      <3>. QED
        BY <2>3, <3>1
    <2>. QED
      BY <2>4, <2>5, <2>6, <2>7, <2>8 DEF Next
  <1>. QED
    BY <1>1, ShowAlways, PTL DEF Spec, StaysLit

-----------------------------------------------------------------------------
(* Types.                                                                  *)

\* A thread that is not created yet is nowhere, and clear_display() counts to 8
\* in every thread that runs it.
Before(t) ==
  IF t = "measure_distance"
  THEN {"IOSetup", "spi_display_setup", "create update_display", "create measure_distance"}
  ELSE {"IOSetup", "spi_display_setup", "create update_display"}
Clears == {"clear select", "clear send", "clear raise"}
ClearedInv == \A t \in Threads :
  /\ t # "main" /\ pc["main"] \in Before(t) => pc[t] = "none"
  /\ pc[t] \notin Cleanup \ {"flag", "wait"} => cleared[t] = 0
  /\ pc[t] \in Clears => cleared[t] \in 0 .. 7
  /\ pc[t] \in {"last", "close"} => cleared[t] = 8

ChipOK ==
  /\ exported \in BOOLEAN /\ fd_spi \in {"stdin", "open", "bad", "closed"}
  /\ cs \in {0, 1} /\ shift \in {"on", "off", "other"} /\ lit \in BOOLEAN
RestOK ==
  /\ alive \in BOOLEAN /\ late \in BOOLEAN
  /\ signals \in 0 .. MaxSignals /\ edge_files \in 0 .. MaxFiles

\* cleanup(t), as far as the thread and its count are concerned.
Goes(t, from, to) == pc[t] = from /\ pc'[t] = to /\ cleared' = cleared
LEMMA CleanupMoves ==
  ASSUME pc \in [Threads -> Steps], NEW t \in Threads, cleanup(t)
  PROVE  /\ pc[t] \in Cleanup /\ pc'[t] \in Cleanup
         /\ \A s \in Threads \ {t} : pc'[s] = pc[s]
         /\ \/ Goes(t, "flag", "wait") \/ Goes(t, "wait", "clear select")
            \/ Goes(t, "clear select", "clear send") \/ Goes(t, "clear send", "clear raise")
            \/ Goes(t, "last", "close") \/ Goes(t, "close", "unexport")
            \/ Goes(t, "unexport", "exit") \/ Goes(t, "exit", "exited")
            \/ /\ pc[t] = "clear raise"
               /\ pc'[t] = IF cleared[t] = 7 THEN "last" ELSE "clear select"
               /\ cleared' = [cleared EXCEPT ![t] = @ + 1]
  <1>1. \A from, to : Moves(t, from, to)
          => Goes(t, from, to) /\ \A s \in Threads \ {t} : pc'[s] = pc[s]
    BY DEF Moves, Goes
  <1>2. CASE clear_raise(t)
    BY <1>2 DEF clear_raise, Cleanup
  <1>3. CASE \/ Moves(t, "flag", "wait") \/ Moves(t, "wait", "clear select")
             \/ Moves(t, "clear select", "clear send") \/ Moves(t, "clear send", "clear raise")
             \/ Moves(t, "last", "close") \/ Moves(t, "close", "unexport")
             \/ Moves(t, "unexport", "exit") \/ Moves(t, "exit", "exited")
    <2>. DEFINE Pair(from, to) == Goes(t, from, to) /\ \A s \in Threads \ {t} : pc'[s] = pc[s]
    <2>1. \/ Pair("flag", "wait") \/ Pair("wait", "clear select")
          \/ Pair("clear select", "clear send") \/ Pair("clear send", "clear raise")
          \/ Pair("last", "close") \/ Pair("close", "unexport")
          \/ Pair("unexport", "exit") \/ Pair("exit", "exited")
      BY <1>1, <1>3
    <2>. QED
      BY <2>1 DEF Goes, Cleanup
  <1>. QED
    BY <1>2, <1>3 DEF cleanup, cleanup_flag, cleanup_wait, clear_select, clear_send, clear_last,
                      clear_close, gpio_unexport, cleanup_exit

\* One thread goes on outside cleanup(), or begins it.
LEMMA OneElsewhere ==
  ASSUME pc \in [Threads -> Steps],
         NEW t \in Threads, NEW to \in Steps, to \notin Cleanup \ {"flag"},
         pc' = [pc EXCEPT ![t] = to], pc[t] \notin Cleanup \cup {"none"},
         t = "main" => \A s \in Threads : to \in Before(s) => pc["main"] \in Before(s)
  PROVE  /\ \A s \in Threads : pc'[s] = pc[s] \/ (pc'[s] \notin Cleanup \ {"flag"} /\ pc[s] \notin Cleanup)
         /\ \A s \in Threads : s # "main" /\ pc'["main"] \in Before(s)
              => pc["main"] \in Before(s) /\ (pc[s] = "none" => pc'[s] = "none")
  <1>1. \A s \in Threads : pc'[s] = IF s = t THEN to ELSE pc[s]
    BY OneMoves
  <1>2. "main" \in Threads
    BY Names
  <1>. QED
    BY <1>1, <1>2

\* Steps of the other kinds: a thread goes where it is not in cleanup(), or into
\* its first step.
LEMMA OtherMoves ==
  ASSUME pc \in [Threads -> Steps], ClearedInv,
         main_thread \/ display_animation \/ get_distance \/ SIGINT \/ UNCHANGED vars
  PROVE  /\ cleared' = cleared
         /\ \A s \in Threads : pc'[s] = pc[s] \/ (pc'[s] \notin Cleanup \ {"flag"} /\ pc[s] \notin Cleanup)
         /\ \A s \in Threads : s # "main" /\ pc'["main"] \in Before(s)
              => pc["main"] \in Before(s) /\ (pc[s] = "none" => pc'[s] = "none")
  <1>0. \A s \in Threads : s = "main" \/ s = "update_display" \/ s = "measure_distance"
    BY DEF Threads
  <1>. USE Names
  <1>1. CASE IOSetup \/ spi_display_setup
    <2>1. /\ cleared' = cleared
          /\ \E to \in {"spi_display_setup", "create update_display"} : pc' = [pc EXCEPT !["main"] = to]
          /\ pc["main"] \in {"IOSetup", "spi_display_setup"}
      BY <1>1 DEF IOSetup, spi_display_setup, Moves
    <2>2. pc["main"] \notin Cleanup \cup {"none"} /\ \A s : pc["main"] \in Before(s)
      BY <2>1 DEF Before, Cleanup
    <2>3. \A to \in {"spi_display_setup", "create update_display"} : to \in Steps /\ to \notin Cleanup
      BY DEF Steps, Cleanup
    <2>. QED
      BY <2>1, <2>2, <2>3, OneElsewhere
  <1>2. CASE pthread_create("update_display", "create update_display", "create measure_distance")
    <2>1. /\ cleared' = cleared /\ pc["main"] = "create update_display"
          /\ pc' = [pc EXCEPT !["main"] = "create measure_distance", !["update_display"] = "begin"]
      BY <1>2 DEF pthread_create
    <2>2. /\ pc'["main"] = "create measure_distance" /\ pc'["update_display"] = "begin"
          /\ pc'["measure_distance"] = pc["measure_distance"]
      BY <2>1
    <2>3. pc["update_display"] = "none"
      BY <2>1 DEF ClearedInv, Before
    <2>4. pc["main"] \notin Cleanup /\ pc'["main"] \notin Cleanup
      BY <2>1, <2>2 DEF Cleanup
    <2>5. "begin" \notin Cleanup /\ "none" \notin Cleanup
      BY DEF Cleanup
    <2>6. \A s \in Threads : s # "main" /\ pc'["main"] \in Before(s)
            => pc["main"] \in Before(s) /\ (pc[s] = "none" => pc'[s] = "none")
      BY <1>0, <2>1, <2>2 DEF Before
    <2>. QED
      BY <1>0, <2>1, <2>2, <2>3, <2>4, <2>5, <2>6
  <1>3. CASE pthread_create("measure_distance", "create measure_distance", "join")
    <2>1. /\ cleared' = cleared /\ pc["main"] = "create measure_distance"
          /\ pc' = [pc EXCEPT !["main"] = "join", !["measure_distance"] = "begin"]
      BY <1>3 DEF pthread_create
    <2>2. /\ pc'["main"] = "join" /\ pc'["measure_distance"] = "begin"
          /\ pc'["update_display"] = pc["update_display"]
      BY <2>1
    <2>3. pc["measure_distance"] = "none"
      BY <2>1 DEF ClearedInv, Before
    <2>4. pc["main"] \notin Cleanup /\ pc'["main"] \notin Cleanup
      BY <2>1, <2>2 DEF Cleanup
    <2>5. "begin" \notin Cleanup /\ "none" \notin Cleanup
      BY DEF Cleanup
    <2>6. \A s \in Threads : s # "main" /\ pc'["main"] \in Before(s)
            => pc["main"] \in Before(s) /\ (pc[s] = "none" => pc'[s] = "none")
      BY <1>0, <2>1, <2>2 DEF Before
    <2>. QED
      BY <1>0, <2>1, <2>2, <2>3, <2>4, <2>5, <2>6
  <1>4. CASE display_animation
    <2>1. /\ cleared' = cleared
          /\ \E from \in {"begin", "top", "check", "toggle", "select", "send", "raise"},
                to \in {"top", "done", "toggle", "select", "check", "send", "raise"} :
               Moves("update_display", from, to)
      BY <1>4 DEF display_animation, display_begins, display_leaves, display_row, display_toggle,
                  display_select, display_check, display_send, display_raise, Moves
    <2>2. pc["update_display"] \notin Cleanup \cup {"none"}
          /\ \E to \in {"top", "done", "toggle", "select", "check", "send", "raise"} : pc' = [pc EXCEPT !["update_display"] = to]
      BY <2>1 DEF Moves, Cleanup
    <2>3. \A to \in {"top", "done", "toggle", "select", "check", "send", "raise"} : to \in Steps /\ to \notin Cleanup
      BY DEF Steps, Cleanup
    <2>. QED
      BY <2>1, <2>2, <2>3, OneElsewhere
  <1>5. CASE get_distance
    <2>1. /\ cleared' = cleared /\ pc["measure_distance"] \notin Cleanup \cup {"none"}
          /\ \E to \in {"loop", "polls", "done"} : pc' = [pc EXCEPT !["measure_distance"] = to]
      BY <1>5 DEF get_distance, distance_begins, distance_triggers, distance_decides, distance_leaves, Moves, Cleanup
    <2>2. \A to \in {"loop", "polls", "done"} : to \in Steps /\ to \notin Cleanup
      BY DEF Steps, Cleanup
    <2>. QED
      BY <2>1, <2>2, OneElsewhere
  <1>6. CASE SIGINT
    <2>1. /\ cleared' = cleared
          /\ \E t \in Threads : takes(t) /\ pc' = [pc EXCEPT ![t] = "flag"]
      BY <1>6 DEF SIGINT, interrupts
    <2>2. \A t \in Threads : takes(t) => pc[t] \notin Cleanup \cup {"none"}
      BY DEF takes
    <2>3. "flag" \in Steps /\ \A s : "flag" \notin Before(s)
      BY DEF Steps, Cleanup, Before
    <2>. QED
      BY <2>1, <2>2, <2>3, OneElsewhere
  <1>7. CASE UNCHANGED vars
    <2>1. cleared' = cleared /\ pc' = pc
      BY <1>7 DEF vars
    <2>. QED
      BY <2>1
  <1>. QED
    BY <1>1, <1>2, <1>3, <1>4, <1>5, <1>6, <1>7 DEF main_thread

LEMMA ClearedStep ==
  ASSUME pc \in [Threads -> Steps], cleared \in [Threads -> 0 .. 8], ClearedInv, [Next]_vars
  PROVE  cleared' \in [Threads -> 0 .. 8] /\ ClearedInv'
  <1>1. CASE main_thread \/ display_animation \/ get_distance \/ SIGINT \/ UNCHANGED vars
    BY <1>1, OtherMoves DEF ClearedInv, Before, Cleanup, Clears
  <1>2. ASSUME NEW t \in Threads, cleanup(t)
        PROVE  cleared' \in [Threads -> 0 .. 8] /\ ClearedInv'
    <2>. DEFINE to == pc'[t]
    <2>0. /\ pc[t] \in Cleanup /\ to \in Cleanup
          /\ \A s \in Threads \ {t} : pc'[s] = pc[s]
      BY <1>2, CleanupMoves
    <2>1. \A s \in Threads : s # "main" /\ pc'["main"] \in Before(s) => pc'[s] = "none"
      <3>1. \A s \in Threads, step \in Cleanup : step # "none" /\ step \notin Before(s)
        BY DEF Before, Cleanup
      <3>. QED
        BY <2>0, <3>1, Names DEF ClearedInv
    <2>2. CASE pc[t] = "clear raise"
      <3>1. /\ cleared' = [cleared EXCEPT ![t] = @ + 1]
            /\ to = IF cleared[t] = 7 THEN "last" ELSE "clear select"
        BY <1>2, <2>2, CleanupMoves DEF Goes
      <3>2. cleared[t] \in 0 .. 7
        BY <2>2 DEF ClearedInv, Clears
      <3>3. /\ cleared' \in [Threads -> 0 .. 8]
            /\ \A s \in Threads : cleared'[s] = IF s = t THEN cleared[t] + 1 ELSE cleared[s]
        <4>1. cleared[t] + 1 \in 0 .. 8
          BY <3>2
        <4>. QED
          BY <3>1, <4>1
      <3>4. /\ to \in Clears => cleared'[t] \in 0 .. 7
            /\ to \in {"last", "close"} => cleared'[t] = 8
            /\ to \in Cleanup \ {"flag", "wait"}
        <4>1. CASE cleared[t] = 7
          BY <3>1, <3>3, <4>1 DEF Clears, Cleanup
        <4>2. CASE cleared[t] # 7
          <5>1. cleared'[t] = cleared[t] + 1 /\ to = "clear select"
            BY <3>1, <3>3, <4>2
          <5>2. cleared'[t] \in 0 .. 7
            <6>1. \A k \in 0 .. 7 : k # 7 => k + 1 \in 0 .. 7
              OBVIOUS
            <6>. HIDE DEF to
            <6>. QED
              BY <3>2, <4>2, <5>1, <6>1
          <5>. QED
            BY <5>1, <5>2 DEF Cleanup
        <4>. QED
          BY <4>1, <4>2
      <3>. QED
        BY <2>0, <2>1, <3>3, <3>4 DEF ClearedInv, Clears
    <2>3. CASE pc[t] # "clear raise"
      <3>1. cleared' = cleared
        BY <1>2, <2>3, CleanupMoves DEF Goes
      <3>2. /\ to \notin Cleanup \ {"flag", "wait"} => cleared[t] = 0
            /\ to \in Clears => cleared[t] \in 0 .. 7
            /\ to \in {"last", "close"} => cleared[t] = 8
        <4>1. /\ pc[t] \in {"flag", "wait"} => cleared[t] = 0
              /\ pc[t] \in Clears => cleared[t] \in 0 .. 7
              /\ pc[t] \in {"last", "close"} => cleared[t] = 8
          BY DEF ClearedInv, Cleanup
        <4>2. /\ to \notin Cleanup \ {"flag", "wait"} => pc[t] = "flag"
              /\ to \in Clears => pc[t] = "wait" \/ pc[t] \in Clears
              /\ to \in {"last", "close"} => pc[t] = "last"
          BY <1>2, <2>3, CleanupMoves DEF Goes, Clears, Cleanup
        <4>. QED
          BY <4>1, <4>2
      <3>. QED
        BY <2>0, <2>1, <3>1, <3>2 DEF ClearedInv, Clears
    <2>. QED
      BY <2>2, <2>3
  <1>. QED
    BY <1>1, <1>2 DEF Next

LEMMA ChipMoves ==
  ASSUME ChipOK,
         \/ UNCHANGED chipVars
         \/ \E v \in {0, 1} : gpio_set_value(v)
         \/ \E what \in {"on", "off", "other"} : spi_message(what)
  PROVE  ChipOK'
  <1>1. CASE UNCHANGED chipVars
    BY <1>1 DEF ChipOK, chipVars
  <1>2. ASSUME NEW v \in {0, 1}, gpio_set_value(v) PROVE ChipOK'
    <2>1. UNCHANGED <<exported, fd_spi, shift>> /\ cs' \in {0, 1}
      BY <1>2 DEF ChipOK, gpio_set_value
    <2>2. lit' \in BOOLEAN
      BY <1>2, Zenon DEF ChipOK, gpio_set_value
    <2>. QED
      BY <2>1, <2>2 DEF ChipOK
  <1>3. ASSUME NEW what \in {"on", "off", "other"}, spi_message(what) PROVE ChipOK'
    BY <1>3 DEF ChipOK, spi_message
  <1>. QED
    BY <1>1, <1>2, <1>3

LEMMA Effects == \A a, v : effect(a, v) \in {"on", "off", "other"}
  BY DEF effect

LEMMA RestStep ==
  ASSUME ChipOK, RestOK, exit_condition \in BOOLEAN, [Next]_vars
  PROVE  ChipOK' /\ RestOK'
  <1>1. CASE main_thread
    <2>1. RestOK'
      BY <1>1 DEF main_thread, IOSetup, spi_display_setup, pthread_create, Moves, RestOK, histories
    <2>2. ChipOK'
      BY <1>1 DEF main_thread, IOSetup, spi_display_setup, pthread_create, Moves, ChipOK, chipVars
    <2>. QED
      BY <2>1, <2>2
  <1>2. CASE display_animation
    <2>1. RestOK'
      <3>1. late' \in BOOLEAN
        BY <1>2, Zenon DEF display_animation, display_begins, display_leaves, display_row, display_toggle,
                  display_select, display_check, display_send, display_raise, RestOK, histories
      <3>. QED
        BY <1>2, <3>1 DEF display_animation, display_begins, display_leaves, display_row, display_toggle,
                  display_select, display_check, display_send, display_raise, Moves, RestOK
    <2>2. ChipOK'
      <3>1. row(seen, count) \in {"on", "off", "other"}
        BY Effects DEF row
      <3>. QED
        BY <1>2, <3>1, ChipMoves
        DEF display_animation, display_begins, display_leaves, display_row, display_toggle,
            display_select, display_check, display_send, display_raise
    <2>. QED
      BY <2>1, <2>2
  <1>3. CASE get_distance
    <2>1. RestOK'
      BY <1>3, DogAssumption
      DEF get_distance, distance_begins, distance_triggers, distance_decides, distance_leaves, Moves, RestOK, histories
    <2>2. ChipOK'
      BY <1>3, ChipMoves DEF get_distance, distance_begins, distance_triggers, distance_decides, distance_leaves
    <2>. QED
      BY <2>1, <2>2
  <1>4. ASSUME NEW t \in Threads, cleanup(t) PROVE ChipOK' /\ RestOK'
    <2>1. RestOK'
      BY <1>4 DEF cleanup, cleanup_flag, cleanup_wait, clear_select, clear_send, clear_raise, clear_last, clear_close,
                  gpio_unexport, cleanup_exit, Moves, RestOK, histories
    <2>2. ChipOK'
      <3>1. CASE clear_close(t) \/ gpio_unexport(t)
        BY <3>1 DEF clear_close, gpio_unexport, ChipOK
      <3>2. CASE ~(clear_close(t) \/ gpio_unexport(t))
        BY <1>4, <3>2, ChipMoves, Effects DEF cleanup, cleanup_flag, cleanup_wait, clear_select, clear_send, clear_raise,
           clear_last, cleanup_exit
      <3>. QED
        BY <3>1, <3>2
    <2>. QED
      BY <2>1, <2>2
  <1>5. CASE SIGINT
    <2>1. RestOK'
      BY <1>5, DogAssumption DEF SIGINT, RestOK, histories
    <2>2. ChipOK'
      BY <1>5, ChipMoves DEF SIGINT
    <2>. QED
      BY <2>1, <2>2
  <1>6. CASE UNCHANGED vars
    BY <1>6, ChipMoves DEF vars, RestOK, histories
  <1>. QED
    BY <1>1, <1>2, <1>3, <1>4, <1>5, <1>6 DEF Next

TypeInv == cleared \in [Threads -> 0 .. 8] /\ ClearedInv /\ ChipOK /\ RestOK
IInv == HandshakeInv /\ ShowInv /\ TypeInv

LEMMA Always == Spec => []IInv
  <1>1. Init => TypeInv
    <2>. SUFFICES ASSUME Init PROVE TypeInv
      OBVIOUS
    <2>1. cleared \in [Threads -> 0 .. 8] /\ ClearedInv
      BY DEF Init, ClearedInv, Cleanup, Clears, Threads
    <2>2. ChipOK
      BY Zenon DEF Init, ChipOK
    <2>3. alive \in BOOLEAN /\ late \in BOOLEAN
      BY Zenon DEF Init
    <2>4. RestOK
      BY <2>3, DogAssumption DEF Init, RestOK
    <2>. QED
      BY <2>1, <2>2, <2>4 DEF TypeInv
  <1>2. HandshakeInv /\ TypeInv /\ [Next]_vars => TypeInv'
    BY ClearedStep, RestStep DEF HandshakeInv, Flags, TypeInv
  <1>. QED
    BY <1>1, <1>2, ShowAlways, PTL DEF IInv, Spec

\* Every variable keeps its type; clear_display() never counts beyond 8.
THEOREM TypeCorrect == Spec => []TypeOK
  <1>1. IInv => TypeOK
    BY DEF IInv, HandshakeInv, Flags, ShowInv, FrameInv, DirectionInv, TypeInv, ChipOK, RestOK, TypeOK
  <1>. QED
    BY <1>1, Always, PTL

-----------------------------------------------------------------------------
(* What cleanup() leaves on the display.                                   *)

\* Only main is in cleanup().
Single == pc["update_display"] \notin Cleanup /\ pc["measure_distance"] \notin Cleanup
Closed == {"unexport", "exit", "exited"}

\* While main clears a chip that is open: of the messages 0 .. k - 1 that it has
\* sent the numbers 3 and 7 turn the display off, and none turns it on.  The
\* message is lost if the display, which has sent its last one already, lifts
\* pin 15 before main does: but then the display lifts it once, with main's
\* message in the chip or one before.
ClearInv ==
  LET at == pc["main"]
      k == cleared["main"]
      lifts == pc["update_display"] = "raise"
  IN /\ k > 0 \/ at = "clear raise" => shift # "on"
     /\ at = "clear raise" /\ k \in {3, 7} => shift = "off"
     /\ at \in {"clear send", "clear raise"} /\ lifts => cs = 0
     /\ at \in {"clear send", "clear raise"} /\ k > 3 => cs = 0 \/ ~lit
     /\ k > 3 /\ lifts => ~lit
     /\ k = 8 => ~lit

\* The pins are exported for as long as the chip is open.
OpenInv ==
  /\ pc["main"] = "spi_display_setup" => exported
  /\ fd_spi = "open" => exported /\ pc["main"] \notin {"IOSetup", "spi_display_setup"} \cup Closed
  /\ fd_spi = "closed" => pc["main"] \in Closed
  /\ ~late /\ fd_spi = "open" /\ pc["main"] \in Clears \cup {"last", "close"} => ClearInv
  /\ ~late /\ fd_spi = "closed" => ~lit /\ shift # "on"

\* The signal goes to main first.
OffInv ==
  /\ pc["main"] \notin {"none", "begin", "done"}
  /\ ~Single => pc["main"] \in Cleanup
  /\ Single => OpenInv

\* The addresses 4k that are SHUTDOWN's.
LEMMA Clearing == \A k \in 0 .. 7 :
  /\ effect(address(k), 0) # "on"
  /\ k \in {3, 7} => effect(address(k), 0) = "off"
  BY DEF effect, address, SHUTDOWN

\* Nothing moves but measure_distance, or the display, which does not lift its pin.
LEMMA OffElsewhere ==
  ASSUME OffInv, UNCHANGED <<chipVars, cleared, late>>, pc'["main"] = pc["main"],
         pc'["update_display"] = "raise" => pc["update_display"] = "raise",
         Single' => Single, pc["main"] \notin Cleanup => Single'
  PROVE  OffInv'
  <1>1. OpenInv => OpenInv'
    BY DEF OpenInv, ClearInv, chipVars, Clears, Closed
  <1>. QED
    BY <1>1 DEF OffInv, Cleanup

\* The pins, the chip and late do not matter before main is in cleanup().
LEMMA OffMain == ASSUME IInv, OffInv, main_thread PROVE OffInv'
  <1>0. pc \in [Threads -> Steps]
    BY DEF IInv, HandshakeInv, Flags
  <1>. DEFINE Starts == {"IOSetup", "spi_display_setup", "create update_display", "create measure_distance"}
              Goals == {"spi_display_setup", "create update_display", "create measure_distance", "join"}
  <1>1. /\ pc["main"] \in Starts /\ pc'["main"] \in Goals
        /\ \A s \in Threads \ {"main"} : pc'[s] \in {pc[s], "begin"}
    <2>1. CASE IOSetup \/ spi_display_setup
      BY <1>0, <2>1 DEF IOSetup, spi_display_setup, Moves, Threads
    <2>2. CASE \/ pthread_create("update_display", "create update_display", "create measure_distance")
               \/ pthread_create("measure_distance", "create measure_distance", "join")
      BY <1>0, <2>2 DEF pthread_create, Threads
    <2>. QED
      BY <2>1, <2>2 DEF main_thread
  <1>2. Single /\ Single' /\ pc'["main"] \notin Cleanup \cup {"none", "begin", "done"}
    <2>1. pc["main"] \notin Cleanup
      BY <1>1 DEF Cleanup
    <2>. QED
      BY <1>1, <2>1 DEF OffInv, Single, Cleanup, Threads
  <1>3. OpenInv'
    <2>1. fd_spi # "closed" /\ pc'["main"] \notin Closed \cup Clears \cup {"last", "close", "IOSetup"}
      BY <1>1, <1>2 DEF OffInv, OpenInv, Clears, Closed
    <2>2. CASE IOSetup
      <3>1. pc["main"] = "IOSetup" /\ exported' /\ fd_spi' = fd_spi
        BY <2>2, Zenon DEF IOSetup, Moves
      <3>2. fd_spi # "open"
        BY <1>2, <3>1 DEF OffInv, OpenInv
      <3>. QED
        BY <2>1, <3>1, <3>2 DEF OpenInv, Clears, Closed
    <2>3. CASE spi_display_setup
      <3>1. /\ pc["main"] = "spi_display_setup" /\ exported' = exported
            /\ pc'["main"] = "create update_display" /\ fd_spi' \in {fd_spi, "bad", "open"}
        BY <1>0, <2>3 DEF spi_display_setup, Moves, Threads
      <3>2. exported
        BY <1>2, <3>1 DEF OffInv, OpenInv
      <3>. QED
        BY <2>1, <3>1, <3>2 DEF OpenInv, Clears, Closed
    <2>4. CASE \/ pthread_create("update_display", "create update_display", "create measure_distance")
               \/ pthread_create("measure_distance", "create measure_distance", "join")
      <3>1. exported' = exported /\ fd_spi' = fd_spi /\ pc'["main"] \notin {"IOSetup", "spi_display_setup"}
        BY <1>0, <2>4 DEF pthread_create, Threads, chipVars
      <3>. QED
        BY <1>2, <2>1, <3>1 DEF OffInv, OpenInv, Clears, Closed
    <2>. QED
      BY <2>2, <2>3, <2>4 DEF main_thread
  <1>. QED
    BY <1>2, <1>3 DEF OffInv

\* The display sends its last message before cleanup() has set its flag, or late.
LEMMA OffDisplay == ASSUME IInv, OffInv, display_animation PROVE OffInv'
  <1>0. pc \in [Threads -> Steps] /\ ChipOK /\ ClearedInv
    BY DEF IInv, HandshakeInv, Flags, TypeInv
  <1>. DEFINE Inside == {"begin", "top", "check", "toggle", "select", "send", "raise", "done"}
  <1>1. /\ pc["update_display"] \in Inside /\ pc'["update_display"] \in Inside
        /\ \A s \in Threads \ {"update_display"} : pc'[s] = pc[s]
        /\ cleared' = cleared
    BY <1>0, Names DEF display_animation, display_begins, display_leaves, display_row, display_toggle,
                  display_select, display_check, display_send, display_raise, Moves
  <1>2. pc'["main"] = pc["main"] /\ (Single' <=> Single)
    BY <1>1 DEF Single, Cleanup, Threads
  <1>3. CASE display_leaves \/ display_row \/ display_toggle \/ display_check
    <2>1. /\ UNCHANGED <<chipVars, late>>
          /\ pc'["update_display"] # "raise"
      BY <1>0, <1>3, Names DEF display_leaves, display_row, display_toggle, display_check, Moves, histories
    <2>. QED
      BY <1>1, <1>2, <2>1, OffElsewhere DEF OffInv
  <1>4. CASE display_begins \/ display_select \/ display_raise
    <2>1. /\ late' = late /\ pc'["update_display"] # "raise"
          /\ \/ gpio_set_value(0)
             \/ gpio_set_value(1) /\ pc["update_display"] = "raise"
      BY <1>0, <1>4, Names DEF display_begins, display_select, display_raise, Moves, histories
    <2>2. /\ exported' = exported /\ fd_spi' = fd_spi /\ shift' = shift
          /\ shift # "on" /\ ~lit => ~lit'
          /\ \/ lit' = lit /\ cs' \in {cs, 0}
             \/ pc["update_display"] = "raise"
      BY <1>0, <2>1, Edges DEF ChipOK
    <2>3. ASSUME ClearInv PROVE ClearInv'
      <3>1. cleared["main"] \in 0 .. 8
        BY Names DEF IInv, TypeInv
      <3>2. CASE lit' = lit /\ cs' \in {cs, 0}
        BY <1>1, <1>2, <2>1, <2>2, <2>3, <3>2 DEF ClearInv
      <3>3. CASE pc["update_display"] = "raise"
        <4>1. cleared["main"] > 3 => ~lit'
          <5>1. cleared["main"] > 3 => shift # "on" /\ ~lit
            <6>1. cleared["main"] > 3 => cleared["main"] > 0
              BY <3>1
            <6>2. cleared["main"] > 3 => ~lit
              BY <2>3, <3>3 DEF ClearInv
            <6>3. cleared["main"] > 0 => shift # "on"
              BY <2>3, <3>3 DEF ClearInv
            <6>. QED
              BY <6>1, <6>2, <6>3
          <5>. QED
            BY <2>2, <5>1
        <4>2. cleared["main"] = 8 => ~lit'
          BY <4>1
        <4>. QED
          BY <1>1, <1>2, <2>1, <2>2, <2>3, <4>1, <4>2 DEF ClearInv
      <3>. QED
        BY <2>2, <3>2, <3>3
    <2>4. ASSUME OpenInv PROVE OpenInv'
      BY <1>2, <2>1, <2>2, <2>3, <2>4 DEF OpenInv, Clears, Closed
    <2>. QED
      BY <1>2, <2>4 DEF OffInv, Cleanup
  <1>5. CASE display_send
    <2>1. /\ late' = (late \/ exit_condition) /\ UNCHANGED <<exported, fd_spi, lit>>
      BY <1>5 DEF display_send, spi_message
    <2>2. ~late' => ~late /\ pc["main"] \notin Cleanup \ {"flag"}
      BY <2>1, Names, Zenon DEF IInv, HandshakeInv
    <2>3. ~late' => pc["main"] \notin Closed \cup Clears \cup {"last", "close"}
      BY <2>2 DEF Cleanup, Clears, Closed
    <2>4. ASSUME OpenInv PROVE OpenInv'
      BY <1>2, <2>1, <2>3, <2>4 DEF OpenInv, Clears, Closed
    <2>. QED
      BY <1>2, <2>4 DEF OffInv, Cleanup
  <1>. QED
    BY <1>3, <1>4, <1>5 DEF display_animation

\* measure_distance has nothing to do with the chip, and a signal moves no thread
\* but main while main is not in cleanup().
LEMMA OffOthers == ASSUME IInv, OffInv, get_distance \/ SIGINT \/ UNCHANGED vars PROVE OffInv'
  <1>0. pc \in [Threads -> Steps] /\ ClearedInv
    BY DEF IInv, HandshakeInv, Flags, TypeInv
  <1>1. CASE get_distance
    <2>1. /\ UNCHANGED <<chipVars, cleared, late>>
          /\ pc'["main"] = pc["main"] /\ pc'["update_display"] = pc["update_display"]
          /\ pc["measure_distance"] \notin Cleanup /\ pc'["measure_distance"] \notin Cleanup
      BY <1>0, <1>1, Names DEF get_distance, distance_begins, distance_triggers, distance_decides, distance_leaves,
                               Moves, histories, Cleanup
    <2>. QED
      BY <2>1, OffElsewhere DEF OffInv, Single, Cleanup
  <1>2. ASSUME NEW t \in Threads, SIGINT, interrupts(t) PROVE OffInv'
    <2>1. /\ UNCHANGED <<chipVars, cleared, late>>
          /\ takes(t) /\ (t = "main" \/ ~takes("main")) /\ pc' = [pc EXCEPT ![t] = "flag"]
      BY <1>2 DEF SIGINT, interrupts, histories
    <2>2. \A s \in Threads : pc'[s] = IF s = t THEN "flag" ELSE pc[s]
      BY <1>0, <2>1, OneMoves DEF Steps, Cleanup
    <2>3. CASE t = "main"
      <3>1. pc["main"] \notin Cleanup /\ pc'["main"] = "flag"
        BY <2>1, <2>2, <2>3 DEF takes
      <3>2. Single /\ Single'
        BY <2>2, <2>3, <3>1 DEF OffInv, Single, Threads
      <3>. QED
        BY <2>1, <3>1, <3>2 DEF OffInv, OpenInv, chipVars, Cleanup, Clears, Closed
    <2>4. CASE t # "main"
      <3>1. pc["main"] \in Cleanup /\ pc'["main"] = pc["main"]
        BY <2>1, <2>2, <2>4, Names DEF takes, OffInv
      <3>2. ~Single'
        BY <2>2, <2>4 DEF Single, Cleanup, Threads
      <3>. QED
        BY <3>1, <3>2 DEF OffInv, Cleanup
    <2>. QED
      BY <2>3, <2>4
  <1>3. CASE UNCHANGED vars
    <2>1. UNCHANGED <<chipVars, cleared, late, pc>>
      BY <1>3 DEF histories, vars
    <2>. QED
      BY <2>1, OffElsewhere DEF OffInv, Single
  <1>. QED
    BY <1>1, <1>2, <1>3 DEF SIGINT

\* main runs clear_display() alone, and every message that it lifts pin 15 for
\* is loaded by the chip, except one that the display's last lift has loaded.
LEMMA OffCleanup == ASSUME IInv, OffInv, NEW t \in Threads, cleanup(t) PROVE OffInv'
  <1>0. pc \in [Threads -> Steps] /\ ChipOK /\ ClearedInv /\ cleared["main"] \in 0 .. 8
    BY Names DEF IInv, HandshakeInv, Flags, TypeInv
  <1>1. /\ pc[t] \in Cleanup /\ pc'[t] \in Cleanup
        /\ \A s \in Threads \ {t} : pc'[s] = pc[s]
    BY <1>0, CleanupMoves
  <1>2. CASE t # "main"
    <2>1. ~Single /\ ~Single' /\ pc'["main"] = pc["main"]
      BY <1>1, <1>2, Names DEF Single, Threads
    <2>. QED
      BY <2>1 DEF OffInv, Cleanup
  <1>3. CASE t = "main"
    <2>1. pc'["main"] \in Cleanup /\ pc'["update_display"] = pc["update_display"] /\ (Single' <=> Single)
      BY <1>1, <1>3, Names DEF Single, Cleanup
    <2>2. SUFFICES ASSUME OpenInv PROVE OpenInv'
      BY <2>1 DEF OffInv, Cleanup
    <2>3. CASE cleanup_flag("main") \/ cleanup_wait("main")
      <3>1. /\ UNCHANGED <<chipVars, cleared, late>>
            /\ \/ pc["main"] = "flag" /\ pc'["main"] = "wait"
               \/ pc["main"] = "wait" /\ pc'["main"] = "clear select"
        BY <1>0, <2>3, Names DEF cleanup_flag, cleanup_wait, Moves, histories
      <3>2. cleared["main"] = 0
        BY <1>0, <3>1, Names DEF ClearedInv
      <3>. QED
        <4>1. pc'["main"] = "clear select" => ClearInv'
          <5>1. cleared'["main"] = 0
            BY <3>1, <3>2
          <5>2. ~(cleared'["main"] > 0) /\ ~(cleared'["main"] > 3) /\ cleared'["main"] # 8
            BY <5>1
          <5>. QED
            BY <5>2 DEF ClearInv
        <4>. QED
          BY <2>1, <2>2, <3>1, <4>1 DEF OpenInv, chipVars, Clears, Closed
    <2>4. CASE clear_select("main")
      <3>1. /\ pc["main"] = "clear select" /\ pc'["main"] = "clear send" /\ cleared' = cleared /\ late' = late
            /\ gpio_set_value(0)
        BY <1>0, <2>4, Names DEF clear_select, Moves, histories
      <3>2. /\ exported' = exported /\ fd_spi' = fd_spi /\ shift' = shift /\ lit' = lit
            /\ exported => cs' = 0
        BY <1>0, <3>1, Edges DEF ChipOK
      <3>. QED
        BY <2>1, <2>2, <3>1, <3>2 DEF OpenInv, ClearInv, Clears, Closed
    <2>5. CASE clear_send("main")
      <3>1. /\ pc["main"] = "clear send" /\ pc'["main"] = "clear raise" /\ cleared' = cleared /\ late' = late
            /\ UNCHANGED <<exported, fd_spi, cs, lit>>
            /\ fd_spi = "open" => shift' = effect(address(cleared["main"]), 0)
        BY <1>0, <2>5, Names DEF clear_send, spi_message, Moves, histories
      <3>2. cleared["main"] \in 0 .. 7
        BY <1>0, <3>1, Names DEF ClearedInv, Clears
      <3>3. fd_spi = "open" => shift' # "on" /\ (cleared["main"] \in {3, 7} => shift' = "off")
        BY <3>1, <3>2, Clearing
      <3>. QED
        BY <2>1, <2>2, <3>1, <3>3 DEF OpenInv, ClearInv, Clears, Closed
    <2>6. CASE clear_raise("main")
      <3>. DEFINE k == cleared["main"]
      <3>1. /\ pc["main"] = "clear raise" /\ pc'["main"] = IF k = 7 THEN "last" ELSE "clear select"
            /\ cleared'["main"] = k + 1 /\ late' = late
            /\ gpio_set_value(1)
        <4>. HIDE DEF gpio_set_value
        <4>. QED
          BY <1>0, <2>6, Names DEF clear_raise, histories, TypeInv, IInv
      <3>2. /\ exported' = exported /\ fd_spi' = fd_spi /\ shift' = shift
            /\ shift # "on" /\ ~lit => ~lit'
            /\ shift = "off" /\ cs = 0 /\ exported => ~lit'
        BY <1>0, <3>1, Edges DEF ChipOK
      <3>3. k \in 0 .. 7
        BY <1>0, <3>1, Names DEF ClearedInv, Clears
      <3>4. ASSUME ClearInv, exported PROVE ClearInv'
        <4>1. shift # "on" /\ (k \in {3, 7} => shift = "off")
          BY <3>1, <3>4 DEF ClearInv
        <4>2. k \in {3, 7} /\ cs = 0 => ~lit'
          BY <3>2, <3>4, <4>1
        <4>3. k > 3 /\ ~lit => ~lit'
          BY <3>2, <4>1
        <4>4. k > 3 => cs = 0 \/ ~lit
          BY <3>1, <3>4 DEF ClearInv
        <4>5. pc["update_display"] = "raise" => cs = 0 /\ (k > 3 => ~lit)
          BY <3>1, <3>4 DEF ClearInv
        <4>6. k + 1 = 8 => ~lit'
          BY <3>3, <4>2, <4>3, <4>4
        <4>7. k + 1 > 3 /\ pc["update_display"] = "raise" => ~lit'
          <5>1. k + 1 > 3 => k = 3 \/ k > 3
            BY <3>3
          <5>. QED
            BY <4>2, <4>3, <4>5, <5>1
        <4>. QED
          BY <2>1, <3>1, <3>2, <4>1, <4>6, <4>7 DEF ClearInv
      <3>. QED
        BY <2>1, <2>2, <3>1, <3>2, <3>4 DEF OpenInv, Clears, Closed
    <2>7. CASE clear_last("main")
      <3>1. /\ pc["main"] = "last" /\ pc'["main"] = "close" /\ cleared' = cleared /\ late' = late
            /\ UNCHANGED <<exported, fd_spi, cs, lit>>
            /\ shift' \in {shift, effect(address(cleared["main"] - 1), 0)}
        BY <1>0, <2>7, Names DEF clear_last, spi_message, Moves, histories
      <3>2. cleared["main"] = 8
        BY <1>0, <3>1, Names DEF ClearedInv
      <3>3. shift' # "on" \/ shift' = shift
        BY <3>1, <3>2, Clearing
      <3>. QED
        BY <2>1, <2>2, <3>1, <3>2, <3>3 DEF OpenInv, ClearInv, Clears, Closed
    <2>8. CASE clear_close("main") \/ gpio_unexport("main") \/ cleanup_exit("main")
      <3>1. CASE clear_close("main")
        <4>1. /\ pc["main"] = "close" /\ pc'["main"] = "unexport" /\ late' = late
              /\ UNCHANGED <<exported, shift, lit>>
              /\ fd_spi' = IF fd_spi = "open" THEN "closed" ELSE fd_spi
          BY <1>0, <3>1, Names DEF clear_close, Moves, histories
        <4>2. cleared["main"] = 8
          BY <1>0, <4>1, Names DEF ClearedInv
        <4>3. ~late /\ fd_spi = "open" => ~lit /\ shift # "on"
          BY <2>2, <4>1, <4>2 DEF OpenInv, ClearInv
        <4>. QED
          BY <2>1, <2>2, <4>1, <4>3 DEF OpenInv, Clears, Closed
      <3>2. CASE gpio_unexport("main") \/ cleanup_exit("main")
        <4>1. /\ pc["main"] \in {"unexport", "exit"} /\ pc'["main"] \in {"exit", "exited"} /\ late' = late
              /\ UNCHANGED <<fd_spi, shift, lit>>
          BY <1>0, <3>2, Names DEF gpio_unexport, cleanup_exit, Moves, histories, chipVars
        <4>. QED
          BY <2>1, <2>2, <4>1 DEF OpenInv, Clears, Closed
      <3>. QED
        BY <2>8, <3>1, <3>2
    <2>. QED
      BY <1>3, <2>3, <2>4, <2>5, <2>6, <2>7, <2>8 DEF cleanup
  <1>. QED
    BY <1>2, <1>3


LEMMA OffAlways == Spec => [](IInv /\ OffInv)
  <1>1. Init => OffInv
    BY DEF Init, OffInv, OpenInv, Single, Threads, Cleanup, Closed, Clears
  <1>2. IInv /\ OffInv /\ [Next]_vars => OffInv'
    BY OffMain, OffDisplay, OffOthers, OffCleanup DEF Next
  <1>. QED
    BY <1>1, <1>2, Always, PTL DEF Spec

\* A program that cleanup() ran once in, on a chip that was opened, and whose
\* display sent nothing meanwhile, leaves the display off.
THEOREM OffCorrect == Spec => []OffAtExit
  <1>1. IInv /\ OffInv => OffAtExit
    <2>. SUFFICES ASSUME OffInv, fd_spi = "closed", ~late,
                         Cardinality({t \in Threads : pc[t] \in Cleanup}) = 1
                  PROVE  ~lit
      BY DEF OffAtExit
    <2>. DEFINE Ends == {t \in Threads : pc[t] \in Cleanup}
    <2>1. PICK t : Ends = {t}
      <3>1. IsFiniteSet(Threads) /\ Ends \subseteq Threads
        <4>1. Threads = (({} \cup {"main"}) \cup {"update_display"}) \cup {"measure_distance"}
          BY DEF Threads
        <4>2. IsFiniteSet(Threads)
          BY <4>1, FS_EmptySet, FS_AddElement
        <4>. QED
          BY <4>2
      <3>. QED
        BY <3>1, FS_Subset, FS_Singleton
    <2>2. Single
      <3>1. t = "main" => Single
        BY <2>1 DEF Single, Threads
      <3>2. t # "main" => pc["main"] \notin Cleanup /\ ~Single
        BY <2>1 DEF Single, Threads
      <3>. QED
        BY <3>1, <3>2 DEF OffInv
    <2>. QED
      BY <2>2 DEF OffInv, OpenInv
  <1>. QED
    BY <1>1, OffAlways, PTL

-----------------------------------------------------------------------------
(* The safety part of CtrlCEnds.                                           *)

Measuring == {"loop", "polls"}

\* After a Ctrl+C main is in cleanup() for as long as the program exists; and
\* if it waits, then for a flag that is set, for a measurement that has to
\* leave its loop at the next test, or for a thread that a further Ctrl+C has
\* taken out of that loop and into a cleanup() of its own.
CleanupGoesOn ==
  alive /\ signals > 0 =>
    /\ pc["main"] \in Cleanup \ {"exited"}
    /\ pc["main"] = "wait" => \/ exitted2
                              \/ exit_condition /\ pc["measure_distance"] \in Measuring
                              \/ signals > 1 /\ pc["measure_distance"] \in {"flag", "wait"}

\* The strengthening: the flag is cleared only by a thread that is in its loop,
\* or was when a Ctrl+C fell on it, which main no longer took.
WaitInv ==
  /\ ~exitted2 => pc["measure_distance"] \in Measuring \cup {"flag", "wait"}
  /\ signals > 0 => pc["main"] \in Cleanup
  /\ pc["measure_distance"] \in Cleanup => signals > 1
  /\ pc["main"] \in Cleanup => signals > 0
  /\ alive => pc["main"] # "exited"

LEMMA WaitInit == Init => WaitInv
  BY DEF Init, WaitInv, Measuring, Cleanup, Threads

LEMMA WaitMain == ASSUME IInv, WaitInv, main_thread PROVE WaitInv'
  <1>1. pc["main"] \in Before("measure_distance") /\ pc \in [Threads -> Steps]
    BY DEF main_thread, IOSetup, spi_display_setup, pthread_create, Moves, Before,
           IInv, HandshakeInv, Flags
  <1>2. pc["measure_distance"] = "none"
    BY <1>1, Names DEF IInv, TypeInv, ClearedInv
  <1>3. exitted2
    BY <1>2 DEF WaitInv, Measuring
  <1>4. exitted2' = exitted2 /\ signals' = signals
    BY DEF main_thread, IOSetup, spi_display_setup, pthread_create, Moves, flags
  <1>5. pc["main"] \notin Cleanup
    BY <1>1 DEF Before, Cleanup
  <1>6. pc'["main"] \notin Cleanup
    <2>1. \E to \in {"spi_display_setup", "create update_display", "create measure_distance", "join"} :
            pc'["main"] = to
      BY <1>1, Names DEF main_thread, IOSetup, spi_display_setup, pthread_create, Moves
    <2>. QED
      BY <2>1 DEF Cleanup
  <1>7. pc'["measure_distance"] \notin Cleanup
    <2>1. pc'["measure_distance"] \in {"none", "begin"}
      BY <1>1, <1>2, Names DEF main_thread, IOSetup, spi_display_setup, pthread_create, Moves
    <2>. QED
      BY <2>1 DEF Cleanup
  <1>8. ~(signals > 0)
    BY <1>5 DEF WaitInv
  <1>9. pc'["main"] # "exited"
    BY <1>6 DEF Cleanup
  <1>. QED
    BY <1>3, <1>4, <1>6, <1>7, <1>8, <1>9 DEF WaitInv

LEMMA WaitThreads ==
  ASSUME IInv, WaitInv, display_animation \/ get_distance \/ UNCHANGED vars PROVE WaitInv'
  <1>0. pc \in [Threads -> Steps]
    BY DEF IInv, HandshakeInv, Flags
  <1>1. CASE display_animation
    <2>1. exitted2' = exitted2 /\ signals' = signals /\ alive' = alive
      BY <1>1 DEF display_animation, display_begins, display_leaves, display_row, display_toggle,
                  display_select, display_check, display_send, display_raise, Moves, flags
    <2>2. pc'["main"] = pc["main"] /\ pc'["measure_distance"] = pc["measure_distance"]
      BY <1>0, <1>1, Names
      DEF display_animation, display_begins, display_leaves, display_row, display_toggle,
          display_select, display_check, display_send, display_raise, Moves
    <2>. QED
      BY <2>1, <2>2 DEF WaitInv
  <1>2. CASE get_distance
    <2>1. signals' = signals /\ alive' = alive /\ pc'["main"] = pc["main"]
      BY <1>0, <1>2, Names DEF get_distance, distance_begins, distance_triggers, distance_decides,
                        distance_leaves, Moves
    <2>2. pc'["measure_distance"] \in {"loop", "polls"} \/ (pc'["measure_distance"] = "done" /\ exitted2')
      BY <1>0, <1>2, Names, Zenon DEF get_distance, distance_begins, distance_triggers, distance_decides,
                        distance_leaves, Moves
    <2>3. pc'["measure_distance"] \notin Cleanup
      BY <2>2 DEF Cleanup
    <2>. QED
      BY <2>1, <2>2, <2>3 DEF WaitInv, Measuring
  <1>3. CASE UNCHANGED vars
    BY <1>3 DEF vars, flags, WaitInv
  <1>. QED
    BY <1>1, <1>2, <1>3

LEMMA WaitCleanup == ASSUME IInv, WaitInv, NEW t \in Threads, cleanup(t) PROVE WaitInv'
  <1>0. /\ pc \in [Threads -> Steps]
        /\ pc[t] \in Cleanup /\ pc'[t] \in Cleanup
        /\ \A s \in Threads \ {t} : pc'[s] = pc[s]
    BY CleanupMoves DEF IInv, HandshakeInv, Flags
  <1>1. exitted2' = exitted2 /\ signals' = signals
    BY DEF cleanup, cleanup_flag, cleanup_wait, clear_select, clear_send, clear_raise, clear_last,
           clear_close, gpio_unexport, cleanup_exit, Moves, flags
  <1>2. pc'["main"] \in Cleanup <=> pc["main"] \in Cleanup
    BY <1>0, Names
  <1>3. pc'["measure_distance"] \in Cleanup <=> pc["measure_distance"] \in Cleanup
    BY <1>0, Names
  <1>4. ~exitted2 => pc'["measure_distance"] \in Measuring \cup {"flag", "wait"}
    <2>1. CASE t = "measure_distance"
      <3>1. SUFFICES ASSUME ~exitted2 PROVE pc'[t] \in {"flag", "wait"}
        BY <2>1
      <3>2. pc[t] \in {"flag", "wait"}
        BY <1>0, <2>1, <3>1 DEF WaitInv, Measuring, Cleanup
      <3>3. ~cleanup_wait(t)
        BY <3>1 DEF cleanup_wait
      <3>4. cleanup_flag(t)
        BY <3>2, <3>3 DEF cleanup, clear_select, clear_send, clear_raise, clear_last, clear_close,
                      gpio_unexport, cleanup_exit, Moves
      <3>. QED
        BY <1>0, <3>4 DEF cleanup_flag, Moves
    <2>2. CASE t # "measure_distance"
      BY <1>0, <2>2, Names DEF WaitInv
    <2>. QED
      BY <2>1, <2>2
  <1>5. alive' => pc'["main"] # "exited"
    <2>1. CASE cleanup_exit(t)
      BY <2>1 DEF cleanup_exit
    <2>2. CASE ~cleanup_exit(t)
      <3>1. /\ alive' = alive
            /\ pc'[t] # "exited"
        BY <1>0, <2>2 DEF cleanup, cleanup_flag, cleanup_wait, clear_select, clear_send, clear_raise,
           clear_last, clear_close, gpio_unexport, Moves
      <3>. QED
        BY <1>0, <3>1, Names DEF WaitInv
    <2>. QED
      BY <2>1, <2>2
  <1>. QED
    BY <1>1, <1>2, <1>3, <1>4, <1>5 DEF WaitInv

LEMMA WaitSignal == ASSUME IInv, OffInv, WaitInv, SIGINT PROVE WaitInv'
  <1>0. pc \in [Threads -> Steps] /\ signals \in Nat
    BY DogAssumption DEF IInv, HandshakeInv, Flags, TypeInv, RestOK
  <1>1. exitted2' = exitted2 /\ signals' = signals + 1 /\ alive' = alive
    BY DEF SIGINT, flags
  <1>2. ~takes("main") => pc["main"] \in Cleanup
    BY DEF OffInv, takes
  <1>3. CASE \E t \in Threads : interrupts(t)
    <2>1. PICK t \in Threads : interrupts(t)
      BY <1>3
    <2>2. pc' = [pc EXCEPT ![t] = "flag"] /\ (t = "main" \/ ~takes("main"))
      BY <2>1 DEF interrupts
    <2>3. CASE t = "main"
      <3>1. pc'["main"] = "flag" /\ pc'["measure_distance"] = pc["measure_distance"]
        BY <1>0, <2>2, <2>3, Names
      <3>2. "flag" \in Cleanup
        BY DEF Cleanup
      <3>. QED
        BY <1>0, <1>1, <3>1, <3>2 DEF WaitInv
    <2>4. CASE t # "main"
      <3>1. pc["main"] \in Cleanup /\ pc'["main"] = pc["main"]
        BY <1>0, <1>2, <2>2, <2>4, Names
      <3>2. signals > 0
        BY <3>1 DEF WaitInv
      <3>3. pc'["measure_distance"] = pc["measure_distance"] \/ pc'["measure_distance"] = "flag"
        BY <1>0, <2>2, Names
      <3>. QED
        BY <1>0, <1>1, <3>1, <3>2, <3>3 DEF WaitInv
    <2>. QED
      BY <2>3, <2>4
  <1>. QED
    BY <1>3 DEF SIGINT

\* A program that Ctrl+C has interrupted is never stuck in cleanup() but for the
\* one reason that CtrlCEnds names, for any number of Ctrl+C and of files.
THEOREM CleanupCorrect == Spec => []CleanupGoesOn
  <1>1. IInv /\ OffInv /\ WaitInv /\ [Next]_vars => WaitInv'
    BY WaitMain, WaitThreads, WaitCleanup, WaitSignal DEF Next
  <1>2. IInv /\ WaitInv => CleanupGoesOn
    <2>. SUFFICES ASSUME IInv, WaitInv, alive, signals > 0 PROVE CleanupGoesOn
      BY DEF CleanupGoesOn
    <2>1. pc["main"] = "wait" => exit_condition
      BY Names DEF IInv, HandshakeInv, Cleanup
    <2>2. pc["measure_distance"] \in {"flag", "wait"} => signals > 1
      BY DEF WaitInv, Cleanup
    <2>. QED
      BY <2>1, <2>2 DEF WaitInv, CleanupGoesOn
  <1>. QED
    BY WaitInit, <1>1, <1>2, OffAlways, PTL DEF Spec

=============================================================================
