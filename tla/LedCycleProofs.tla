--------------------------- MODULE LedCycleProofs ---------------------------
(***************************************************************************)
(* Theorems about LedCycle, for any duty cycles, numbers of PWM cycles and *)
(* clicks: the stage stays in the switch, resets take effect, stages come  *)
(* in order, no LED of an earlier one is left on, and no sleep is longer   *)
(* than a cycle.                                                           *)
(***************************************************************************)
EXTENDS LedCycle, TLAPS

-----------------------------------------------------------------------------
(* The stage.                                                              *)

\* Where the cycling thread works with the stage that the last switch found.
Showing == {"led_states", "red", "green", "blue", "off"}
Positions == Showing \cup {"switch", "load", "increment", "load_again", "modulo"}

\* The strengthening follows the stage through its two loads and two stores:
\* it is 8 only between a store of one more and the store of the remainder, and
\* after a reset it is 0 until it is incremented, and then at most 1.
StageInv ==
  /\ cycle \in Positions
  /\ cycle_stage \in 0 .. 8 /\ loaded \in 0 .. 8
  /\ cycle_stage = 8 => cycle \in {"load_again", "modulo"}
  /\ cycle = "increment" => loaded # 8
  /\ was_reset => cycle_stage \in {0, 1}
  /\ was_reset /\ cycle \in Showing \cup {"load", "increment"} => cycle_stage = 0
  /\ was_reset /\ cycle = "increment" => loaded = 0
  /\ was_reset /\ cycle = "modulo" => loaded \in {0, 1}

LEMMA StageInit == Init => StageInv
  BY DEF Init, StageInv, Positions, Showing

LEMMA StageStep == StageInv /\ [Next]_vars => StageInv'
  <1>. SUFFICES ASSUME StageInv, [Next]_vars PROVE StageInv'
    OBVIOUS
  <1>. USE DEF StageInv, Positions, Showing
  <1>1. CASE cycle_thread
    <2>1. CASE switch_stage
      BY <2>1, Zenon DEF switch_stage, SwitchHasCase
    <2>2. CASE led_states_off \/ led_states \/ write_color
      BY <2>2 DEF led_states_off, led_states, write_color, Moves
    <2>3. CASE write_led("red", "green") \/ write_led("green", "blue") \/ write_led("blue", "off")
      BY <2>3 DEF write_led, Moves
    <2>4. CASE switch_off
      BY <2>4 DEF switch_off
    <2>5. CASE load_stage("load", "increment")
      BY <2>5 DEF load_stage, Moves
    <2>6. CASE increment
      BY <2>6 DEF increment, Moves
    <2>7. CASE advance_stage
      BY <2>7 DEF advance_stage, Moves
    <2>8. CASE load_stage("load_again", "modulo")
      BY <2>8 DEF load_stage, Moves
    <2>9. CASE modulo
      BY <2>9 DEF modulo, Moves
    <2>. QED
      BY <1>1, <2>1, <2>2, <2>3, <2>4, <2>5, <2>6, <2>7, <2>8, <2>9 DEF cycle_thread
  <1>2. CASE mouse_thread
    <2>1. CASE reset_cycle
      <3>1. /\ cycle_stage' = 0 /\ cycle' = cycle /\ loaded' = loaded
        BY <2>1 DEF reset_cycle, cycleVars
      <3>2. was_reset' => was_reset \/ cycle \notin {"increment", "modulo"}
        BY <2>1, Zenon DEF reset_cycle
      <3>. QED
        BY <3>1, <3>2
    <2>2. CASE ~reset_cycle
      BY <1>2, <2>2 DEF mouse_thread, mouse_off, change_duty_cycle, clamp, set_on_time,
         set_off_time, cycleVars
    <2>. QED
      BY <2>1, <2>2
  <1>3. CASE cleanup
    <2>1. /\ cycle_stage' \in {cycle_stage, 0}
          /\ cycle' = cycle /\ loaded' = loaded /\ was_reset' = was_reset
      BY <1>3 DEF cleanup, cleanup_off, cleanup_reset, cleanup_write, cleanup_exit, cycleVars
    <2>. QED
      BY <2>1
  <1>4. CASE open_fails \/ open_mouse \/ UNCHANGED vars
    BY <1>4 DEF open_fails, open_mouse, vars, cycleVars
  <1>. QED
    BY <1>1, <1>2, <1>3, <1>4 DEF Next

\* Wherever a reset falls between the loads and stores that advance the stage,
\* the switch finds one of its cases.
THEOREM SwitchCorrect == Spec => []SwitchHasCase
  <1>1. StageInv => SwitchHasCase
    BY DEF StageInv, SwitchHasCase
  <1>. QED
    BY StageInit, StageStep, <1>1, PTL DEF Spec

\* A click that falls between no load and its store starts the cycle anew,
\* whatever clicks follow it.
THEOREM ResetCorrect == Spec => []ResetTakesEffect
  <1>1. StageInv => ResetTakesEffect
    BY DEF StageInv, ResetTakesEffect
  <1>. QED
    BY StageInit, StageStep, <1>1, PTL DEF Spec

-----------------------------------------------------------------------------
(* The order of the stages: the safety part of CycleGoesOn.                *)

\* No reset is to take effect, neither a click's nor cleanup's in program 3.
Undisturbed == ~was_reset /\ (program = 3 => main = "join")

\* Stage s + 1, or again stage 0, follows stage s; the first stage follows none.
Follows(next) ==
  \/ shown = {} /\ next = 0
  \/ \E s \in 0 .. 7 : shown = Stage[s] /\ next = (s + 1) % 8

\* Unless a click resets it the cycle shows each stage in its turn and leaves
\* none out, although a click that is lost has stored another stage between a
\* load and a store.
StagesInOrder ==
  [][switch_stage /\ Undisturbed => \E next \in 0 .. 7 : Follows(next) /\ shown' = Stage[next]]_vars

\* The strengthening: where the stage that is shown is, and where the next one.
OrderInv ==
  /\ StageInv
  /\ Undisturbed =>
       /\ cycle \in Showing \cup {"load"} => cycle_stage \in 0 .. 7 /\ shown = Stage[cycle_stage]
       /\ cycle = "increment" => loaded \in 0 .. 7 /\ shown = Stage[loaded]
       /\ cycle = "load_again" => cycle_stage \in 1 .. 8 /\ shown = Stage[cycle_stage - 1]
       /\ cycle = "modulo" => loaded \in 1 .. 8 /\ shown = Stage[loaded - 1]
       /\ cycle = "switch" => Follows(cycle_stage)

\* A step that touches neither the stage nor what is computed with it.
LEMMA OrderKeeps ==
  ASSUME OrderInv, StageInv', UNCHANGED <<cycle_stage, shown, loaded, program>>,
         Undisturbed' => Undisturbed,
         cycle' = cycle \/ (cycle \in Showing /\ cycle' \in Showing \cup {"load"})
  PROVE  OrderInv'
  BY DEF OrderInv, Follows, Showing

LEMMA OrderStep == OrderInv /\ [Next]_vars => OrderInv'
  <1>. SUFFICES ASSUME OrderInv, [Next]_vars PROVE OrderInv'
    OBVIOUS
  <1>0. StageInv /\ StageInv'
    BY StageStep DEF OrderInv
  <1>1. ASSUME NEW from, NEW to, Moves(from, to), Next, UNCHANGED <<main, was_reset>>
        PROVE  program' = program /\ (Undisturbed' => Undisturbed) /\ cycle = from /\ cycle' = to
    BY <1>1 DEF Moves, Next, Undisturbed
  <1>2. CASE cycle_thread /\ Next
    <2>. USE <1>0
    <2>1. CASE switch_stage
      <3>1. cycle' = "led_states" /\ cycle_stage' = cycle_stage /\ shown' = Stage[cycle_stage]
            /\ cycle_stage \in 0 .. 7
        BY <2>1 DEF switch_stage, StageInv
      <3>. QED
        BY <3>1 DEF OrderInv, Showing
    <2>2. CASE led_states_off \/ led_states \/ write_color \/ switch_off
               \/ write_led("red", "green") \/ write_led("green", "blue") \/ write_led("blue", "off")
      <3>1. cycle \in Showing /\ cycle' \in Showing \cup {"load"}
        BY <2>2 DEF led_states_off, led_states, write_color, switch_off, write_led, Moves, Showing
      <3>2. UNCHANGED <<cycle_stage, shown, loaded, main, was_reset>>
        BY <2>2 DEF led_states_off, led_states, write_color, switch_off, write_led
      <3>3. program' = program /\ (Undisturbed' => Undisturbed)
        BY <1>2, <3>2 DEF Next, Undisturbed
      <3>. QED
        BY <3>1, <3>2, <3>3, OrderKeeps
    <2>3. CASE load_stage("load", "increment")
      <3>1. UNCHANGED <<main, was_reset, cycle_stage, shown>> /\ loaded' = cycle_stage
            /\ Moves("load", "increment")
        BY <2>3 DEF load_stage
      <3>. QED
        BY <1>1, <1>2, <3>1 DEF OrderInv, Showing
    <2>4. CASE increment
      <3>1. UNCHANGED <<main, was_reset, loaded, shown>> /\ cycle_stage' = loaded + 1
            /\ Moves("increment", "load_again")
        BY <2>4 DEF increment
      <3>2. Undisturbed' => cycle_stage' \in 1 .. 8 /\ shown' = Stage[cycle_stage' - 1]
        <4>1. \A l \in 0 .. 7 : l + 1 \in 1 .. 8 /\ l + 1 - 1 = l
          OBVIOUS
        <4>. QED
          BY <1>1, <1>2, <3>1, <4>1 DEF OrderInv
      <3>. QED
        BY <1>1, <1>2, <3>1, <3>2 DEF OrderInv, Showing
    <2>5. CASE advance_stage
      <3>1. UNCHANGED <<main, was_reset, loaded, shown>> /\ cycle_stage' = (loaded + 1) % 8
            /\ Moves("increment", "switch")
        BY <2>5 DEF advance_stage
      <3>2. Undisturbed' => Follows(cycle_stage)'
        BY <1>1, <1>2, <3>1 DEF OrderInv, Follows
      <3>. QED
        BY <1>1, <1>2, <3>1, <3>2 DEF OrderInv, Showing
    <2>6. CASE load_stage("load_again", "modulo")
      <3>1. UNCHANGED <<main, was_reset, cycle_stage, shown>> /\ loaded' = cycle_stage
            /\ Moves("load_again", "modulo")
        BY <2>6 DEF load_stage
      <3>. QED
        BY <1>1, <1>2, <3>1 DEF OrderInv, Showing
    <2>7. CASE modulo
      <3>1. UNCHANGED <<main, was_reset, loaded, shown>> /\ cycle_stage' = loaded % 8
            /\ Moves("modulo", "switch")
        BY <2>7 DEF modulo
      <3>2. Undisturbed' => Follows(cycle_stage)'
        <4>. SUFFICES ASSUME Undisturbed' PROVE Follows(cycle_stage)'
          OBVIOUS
        <4>1. loaded \in 1 .. 8 /\ shown = Stage[loaded - 1]
          BY <1>1, <1>2, <3>1 DEF OrderInv
        <4>2. loaded - 1 \in 0 .. 7 /\ cycle_stage' = ((loaded - 1) + 1) % 8
          BY <3>1, <4>1
        <4>. QED
          BY <3>1, <4>1, <4>2 DEF Follows
      <3>. QED
        BY <1>1, <1>2, <3>1, <3>2 DEF OrderInv, Showing
    <2>. QED
      BY <1>2, <2>1, <2>2, <2>3, <2>4, <2>5, <2>6, <2>7 DEF cycle_thread
  <1>3. CASE mouse_thread /\ Next
    <2>1. CASE reset_cycle
      <3>1. /\ UNCHANGED <<cycle, shown, loaded, main>> /\ program' = program
            /\ cycle_stage' = 0
        BY <1>3, <2>1 DEF reset_cycle, cycleVars, Next
      <3>2. Undisturbed' => Undisturbed /\ cycle \in {"increment", "modulo"}
        BY <2>1, <3>1, Zenon DEF reset_cycle, Undisturbed
      <3>. QED
        BY <1>0, <3>1, <3>2 DEF OrderInv, Showing
    <2>2. CASE ~reset_cycle
      <3>1. UNCHANGED <<cycle, shown, loaded, main, was_reset, cycle_stage>> /\ program' = program
        BY <1>3, <2>2 DEF mouse_thread, mouse_off, change_duty_cycle, clamp, set_on_time,
           set_off_time, cycleVars, Next
      <3>. QED
        BY <1>0, <3>1, OrderKeeps DEF Undisturbed
    <2>. QED
      BY <2>1, <2>2
  <1>4. CASE cleanup /\ Next
    <2>1. UNCHANGED <<cycle, shown, loaded, was_reset>> /\ program' = program
      BY <1>4 DEF cleanup, cleanup_off, cleanup_reset, cleanup_write, cleanup_exit, cycleVars, Next
    <2>2. CASE program = 3
      <3>1. main' # "join"
        BY <1>4, <2>2 DEF cleanup, cleanup_off, cleanup_reset, cleanup_write, cleanup_exit
      <3>. QED
        BY <1>0, <2>1, <2>2, <3>1 DEF OrderInv, Undisturbed
    <2>3. CASE program # 3
      <3>1. cycle_stage' = cycle_stage
        BY <1>4, <2>3 DEF cleanup, cleanup_off, cleanup_reset, cleanup_write, cleanup_exit
      <3>. QED
        BY <1>0, <2>1, <2>3, <3>1, OrderKeeps DEF Undisturbed
    <2>. QED
      BY <2>2, <2>3
  <1>5. CASE (open_fails \/ open_mouse) /\ Next
    <2>1. /\ UNCHANGED <<cycle, shown, loaded, was_reset, cycle_stage>> /\ program' = program
          /\ main' = "join" => main = "join"
      BY <1>5 DEF open_fails, open_mouse, cycleVars, Next
    <2>. QED
      BY <1>0, <2>1, OrderKeeps DEF Undisturbed
  <1>6. CASE UNCHANGED vars
    BY <1>0, <1>6, OrderKeeps DEF vars, Undisturbed
  <1>. QED
    BY <1>2, <1>3, <1>4, <1>5, <1>6 DEF Next

\* The cycle goes from each stage to the next in all three programs, however
\* many clicks are lost, for any duty cycles and numbers of PWM cycles.
THEOREM OrderCorrect == Spec => StagesInOrder
  <1>. DEFINE InOrder == switch_stage /\ Undisturbed
                           => \E next \in 0 .. 7 : Follows(next) /\ shown' = Stage[next]
  <1>1. Init => OrderInv
    BY StageInit DEF Init, OrderInv, Follows, Showing
  <1>2. OrderInv /\ [Next]_vars => [InOrder]_vars
    <2>. SUFFICES ASSUME OrderInv, switch_stage, Undisturbed
                  PROVE  \E next \in 0 .. 7 : Follows(next) /\ shown' = Stage[next]
      OBVIOUS
    <2>1. cycle = "switch" /\ cycle_stage \in 0 .. 7
      BY DEF switch_stage, OrderInv, StageInv
    <2>. QED
      BY <2>1 DEF switch_stage, OrderInv
  <1>. QED
    BY <1>1, <1>2, OrderStep, PTL DEF Spec, StagesInOrder

-----------------------------------------------------------------------------
(* The LEDs.                                                               *)

\* In programs 1 and 2 the LEDs can only be lit within a PWM cycle; in program 3
\* there is none, a write comes right after the switch, and the handler of
\* clicks leaves the LEDs alone.
LitInv ==
  /\ StageInv
  /\ program # 3 =>
       /\ lit \subseteq shown
       /\ cycle \notin {"green", "blue", "off"} => lit = {}
  /\ program = 3 =>
       /\ OnlyShownIsLit
       /\ cycle \notin {"red", "green", "blue", "off"}
       /\ mouse \in {"open", "read"}

LEMMA LitInit == Init => LitInv
  BY StageInit DEF Init, LitInv, OnlyShownIsLit, Exchanged

\* What the driver makes of the bits that program 3 sends.
LEMMA DriverExchanges ==
  ASSUME NEW leds PROVE enable_display(color(leds)) = Exchanged(leds)
  <1>. DEFINE bit(led) == IF led \in leds THEN 1 ELSE 0
              c == color(leds)
  <1>1. c = bit("red") + 2 * bit("green") + 4 * bit("blue")
    BY DEF color
  <1>2. (c \div 4) % 2 = bit("blue") /\ (c \div 2) % 2 = bit("green") /\ (c \div 1) % 2 = bit("red")
    <2>. DEFINE r == bit("red")
                g == bit("green")
                b == bit("blue")
    <2>1. r \in {0, 1} /\ g \in {0, 1} /\ b \in {0, 1}
      OBVIOUS
    <2>. HIDE DEF r, g, b, c
    <2>2. c = r + 2 * g + 4 * b
      BY <1>1 DEF r, g, b
    <2>3. (c \div 4) % 2 = b /\ (c \div 2) % 2 = g /\ (c \div 1) % 2 = r
      BY <2>1, <2>2
    <2>. QED
      BY <2>3 DEF r, g, b
  <1>. HIDE DEF c
  <1>3. ASSUME NEW led \in Leds
        PROVE  led \in enable_display(c) <=> led \in Exchanged(leds)
    BY <1>2, <1>3 DEF enable_display, Exchanged, Leds
  <1>. QED
    BY <1>3 DEF enable_display, Exchanged, c

LEMMA LitStep == LitInv /\ [Next]_vars => LitInv'
  <1>. SUFFICES ASSUME LitInv, [Next]_vars PROVE LitInv'
    OBVIOUS
  <1>s. StageInv'
    BY StageStep DEF LitInv
  <1>p. CASE UNCHANGED vars
    BY <1>s, <1>p DEF vars, LitInv, OnlyShownIsLit
  <1>. SUFFICES ASSUME Next PROVE LitInv'
    BY <1>p
  <1>0. program' = program
    BY DEF Next
  <1>. USE <1>s, <1>0 DEF LitInv, OnlyShownIsLit
  <1>1. CASE cycle_thread
    <2>1. CASE switch_stage
      <3>1. cycle_stage \in 0 .. 7
        BY <2>1 DEF switch_stage, StageInv
      <3>2. cycle = "switch" /\ cycle' = "led_states" /\ lit' = lit /\ mouse' = mouse
        BY <2>1, <3>1 DEF switch_stage
      <3>. QED
        BY <3>2
    <2>2. CASE led_states_off \/ led_states
      BY <2>2 DEF led_states_off, led_states, Moves
    <2>w. CASE write_color
      <3>1. /\ lit' = Exchanged(shown) /\ shown' = shown
            /\ program = 3 /\ cycle' = "load" /\ mouse' = mouse
        BY <2>w, DriverExchanges DEF write_color, Moves
      <3>2. Exchanged(shown)' = Exchanged(shown)
        BY <3>1 DEF Exchanged
      <3>. QED
        BY <3>1, <3>2
    <2>3. ASSUME NEW led, NEW next, write_led(led, next), led \in {"red", "green", "blue"},
                 next \in {"green", "blue", "off"}
          PROVE  LitInv'
      BY <2>3 DEF write_led, Moves
    <2>4. CASE switch_off
      BY <2>4 DEF switch_off
    <2>5. CASE load_stage("load", "increment") \/ load_stage("load_again", "modulo")
      BY <2>5 DEF load_stage, Moves
    <2>6. CASE increment \/ advance_stage \/ modulo
      BY <2>6 DEF increment, advance_stage, modulo, Moves
    <2>. QED
      BY <1>1, <2>1, <2>2, <2>w, <2>3, <2>4, <2>5, <2>6 DEF cycle_thread
  <1>2. CASE mouse_thread
    <2>1. /\ lit' \subseteq lit /\ cycle' = cycle /\ shown' = shown /\ main' = main
          /\ program = 3 => lit' = lit /\ mouse' = "read"
      BY <1>2 DEF mouse_thread, Click, reset_cycle, mouse_off, change_duty_cycle, clamp, set_on_time,
         set_off_time, cycleVars
    <2>. QED
      BY <2>1
  <1>3. CASE cleanup
    <2>1. /\ cycle' = cycle /\ shown' = shown /\ main' # "join" /\ mouse' = mouse
          /\ program # 3 => lit' \subseteq lit
      <3>1. CASE cleanup_write
        BY <3>1 DEF cleanup_write, cycleVars
      <3>2. CASE ~cleanup_write
        BY <1>3, <3>2 DEF cleanup, cleanup_off, cleanup_reset, cleanup_exit, cycleVars
      <3>. QED
        BY <3>1, <3>2
    <2>. QED
      BY <2>1
  <1>4. CASE open_fails \/ open_mouse
    BY <1>4 DEF open_fails, open_mouse, cycleVars
  <1>. QED
    BY <1>1, <1>2, <1>3, <1>4 DEF Next

\* No LED of an earlier stage is left on.
THEOREM LitCorrect == Spec => []OnlyShownIsLit
  <1>1. LitInv => OnlyShownIsLit
    BY DEF LitInv, OnlyShownIsLit
  <1>. QED
    BY LitInit, LitStep, <1>1, PTL DEF Spec

-----------------------------------------------------------------------------
(* The durations.                                                          *)

\* A duty cycle is out of range only between its change and its clamping, and
\* is turned into durations only after it.
DurationInv ==
  /\ duty_cycle \in -10 .. 110
  /\ mouse # "clamp" => duty_cycle \in 0 .. 100
  /\ SleepsWithinCycle

LEMMA OnTimeInCycle ==
  ASSUME NEW d \in 0 .. 100
  PROVE  onTime(d) \in 0 .. CYCLE_DURATION
  <1>1. ASSUME NEW x \in Int, 0 =< x, x =< 100 * CYCLE_DURATION
        PROVE  x \div 100 \in 0 .. CYCLE_DURATION
    BY <1>1, SMTT(60) DEF CYCLE_DURATION
  <1>2. /\ d * CYCLE_DURATION \in Int /\ 0 =< d * CYCLE_DURATION
        /\ d * CYCLE_DURATION =< 100 * CYCLE_DURATION
    BY SMT DEF CYCLE_DURATION
  <1>. QED
    BY <1>1, <1>2 DEF onTime

\* The rest of a cycle.
LEMMA RestOfCycle ==
  ASSUME NEW t \in 0 .. CYCLE_DURATION
  PROVE  CYCLE_DURATION - t \in 0 .. CYCLE_DURATION
  <1>1. CYCLE_DURATION \in Nat
    BY DEF CYCLE_DURATION
  <1>. QED
    BY <1>1

LEMMA DurationInit == Init => DurationInv
  <1>. SUFFICES ASSUME Init PROVE DurationInv
    OBVIOUS
  <1>1. duty_cycle \in 0 .. 100
    BY LedCycleAssumption DEF Init
  <1>2. on_time \in 0 .. CYCLE_DURATION
    BY <1>1, OnTimeInCycle DEF Init
  <1>3. off_time \in 0 .. CYCLE_DURATION
    <2>1. off_time = CYCLE_DURATION - on_time
      BY DEF Init
    <2>. QED
      BY <1>2, <2>1, RestOfCycle
  <1>. QED
    BY <1>1, <1>2, <1>3 DEF DurationInv, SleepsWithinCycle

LEMMA DurationStep == DurationInv /\ [Next]_vars => DurationInv'
  <1>. SUFFICES ASSUME DurationInv, [Next]_vars PROVE DurationInv'
    OBVIOUS
  <1>. USE DEF DurationInv, SleepsWithinCycle
  <1>1. CASE UNCHANGED <<durations, mouse>>
    BY <1>1 DEF durations
  <1>2. CASE cycle_thread \/ cleanup \/ open_fails \/ UNCHANGED vars
    <2>1. UNCHANGED <<durations, mouse>>
      BY <1>2 DEF durations, cycle_thread, switch_stage, led_states_off, led_states, write_color,
         write_led, switch_off, load_stage, increment, advance_stage, modulo, cleanup,
         cleanup_off, cleanup_reset, cleanup_write, cleanup_exit, open_fails, vars
    <2>. QED
      BY <1>1, <2>1
  <1>3. CASE open_mouse
    BY <1>3 DEF open_mouse, durations
  <1>4. CASE mouse_thread
    <2>1. CASE reset_cycle
      BY <2>1 DEF reset_cycle, durations, Click
    <2>2. ASSUME NEW led, NEW from, NEW to, from # "clamp", to # "clamp", mouse_off(led, from, to)
          PROVE  DurationInv'
      BY <2>2 DEF mouse_off, durations
    <2>3. CASE change_duty_cycle
      BY <2>3 DEF change_duty_cycle, Click
    <2>4. CASE clamp
      BY <2>4 DEF clamp
    <2>5. CASE set_on_time
      BY <2>5, OnTimeInCycle DEF set_on_time
    <2>6. CASE set_off_time
      <3>1. /\ off_time' = CYCLE_DURATION - on_time
            /\ on_time' = on_time /\ duty_cycle' = duty_cycle /\ mouse = "off_time"
        BY <2>6 DEF set_off_time
      <3>2. off_time' \in 0 .. CYCLE_DURATION
        <4>1. on_time \in 0 .. CYCLE_DURATION
          OBVIOUS
        <4>. QED
          BY <3>1, <4>1, RestOfCycle
      <3>. QED
        BY <3>1, <3>2
    <2>. QED
      BY <1>4, <2>1, <2>2, <2>3, <2>4, <2>5, <2>6 DEF mouse_thread
  <1>. QED
    BY <1>2, <1>3, <1>4 DEF Next

\* The arguments of usleep are never negative or longer than a cycle.
THEOREM SleepsCorrect == Spec => []SleepsWithinCycle
  <1>1. DurationInv => SleepsWithinCycle
    BY DEF DurationInv
  <1>. QED
    BY DurationInit, DurationStep, <1>1, PTL DEF Spec
=============================================================================
