------------------------------ MODULE LedCycle ------------------------------
(***************************************************************************)
(* The user-space programs ESP-team09-assgn02/RGBLed_1.c and RGBLed_2.c    *)
(* and ESP-team09-assgn03/test.c: one thread cycles an RGB LED through     *)
(* eight colours, one thread reads the mouse.  In programs 1 and 3 a click *)
(* resets the cycle (through SIGUSR1), in program 2 it changes the duty    *)
(* cycle.  Programs 1 and 2 do the PWM themselves, program 3 (test.c)      *)
(* writes the colours to the LED's driver.  The threads share plain ints   *)
(* and the LED, without a lock.                                            *)
(***************************************************************************)
EXTENDS Integers, FiniteSets

CONSTANTS
  Programs,     \* which of programs 1, 2 and 3 are run
  DutyCycles,   \* the duty cycles the user may start with, in percent
  NO_OF_CYCLES, \* PWM cycles per stage (25 in the code)
  MaxClicks     \* bound on the mouse clicks of a run

ASSUME LedCycleAssumption ==
  /\ Programs \subseteq {1, 2, 3}
  /\ DutyCycles \subseteq 0 .. 100   \* main refuses others
  /\ NO_OF_CYCLES \in Nat \ {0} /\ MaxClicks \in Nat

CYCLE_DURATION == 20000
Leds == {"red", "green", "blue"}

VARIABLES
  program,   \* the one that runs
  cycle_stage,
  duty_cycle, on_time, off_time,
  lit,       \* the LEDs whose pin is high; in program 3, of the driver's colour
  cycle,     \* the step of the cycling thread
  shown,     \* the LEDs of the stage it is in
  i,         \* its PWM cycle
  loaded,    \* the value of cycle_stage it is computing with
  mouse,     \* the step of the mouse thread
  main,      \* "join", the steps of the handler of SIGINT, or "gone"
  clicks,    \* history: clicks so far
  was_reset  \* history: a click outside an increment or modulo reset this stage

vars == <<program, cycle_stage, duty_cycle, on_time, off_time, lit, cycle, shown, i, loaded,
          mouse, main, clicks, was_reset>>
durations == <<duty_cycle, on_time, off_time>>
cycleVars == <<cycle, shown, i, loaded>>

\* The arguments of led_states for each stage.
Stage == [s \in 0 .. 7 |->
            CASE s = 0 -> {}             [] s = 1 -> {"red"}
              [] s = 2 -> {"green"}      [] s = 3 -> {"blue"}
              [] s = 4 -> {"red", "green"} [] s = 5 -> {"red", "blue"}
              [] s = 6 -> {"green", "blue"} [] s = 7 -> Leds]

onTime(d) == (d * CYCLE_DURATION) \div 100

-----------------------------------------------------------------------------
(* The cycling thread.                                                     *)

Moves(from, to) == cycle = from /\ cycle' = to

\* switch (cycle_stage): a value outside 0 .. 7 shows nothing.
switch_stage ==
  /\ cycle = "switch"
  /\ IF cycle_stage \in 0 .. 7 THEN cycle' = "led_states" /\ shown' = Stage[cycle_stage]
                               ELSE cycle' = "load" /\ shown' = {}
  /\ i' = 0
  /\ was_reset' = FALSE
  /\ UNCHANGED <<cycle_stage, durations, lit, loaded, mouse, main, clicks>>

\* A duty cycle of 0 darkens the LEDs for one PWM cycle instead of a stage.
led_states_off ==
  /\ program # 3 /\ duty_cycle = 0
  /\ Moves("led_states", "load")
  /\ lit' = {}
  /\ UNCHANGED <<cycle_stage, durations, shown, i, loaded, mouse, main, clicks, was_reset>>

led_states ==
  /\ program # 3 /\ duty_cycle # 0
  /\ Moves("led_states", "red")
  /\ UNCHANGED <<cycle_stage, durations, lit, shown, i, loaded, mouse, main, clicks, was_reset>>

\* Program 3 puts red into the lowest of three bits...
color(leds) ==
  (IF "red" \in leds THEN 1 ELSE 0) + (IF "green" \in leds THEN 2 ELSE 0)
    + (IF "blue" \in leds THEN 4 ELSE 0)

\* ...and the driver takes it from the highest.
enable_display(c) ==
  {led \in Leds : LET bit == CASE led = "red" -> 4 [] led = "green" -> 2 [] led = "blue" -> 1
                  IN  (c \div bit) % 2 = 1}

\* write(fd, pchar, sizeof(int)), then, before the sleep, one load and one store
\* that advance the stage.
write_color ==
  /\ program = 3
  /\ Moves("led_states", "load")
  /\ lit' = enable_display(color(shown))
  /\ UNCHANGED <<cycle_stage, durations, shown, i, loaded, mouse, main, clicks, was_reset>>

advance_stage ==
  /\ program = 3
  /\ Moves("increment", "switch")
  /\ cycle_stage' = (loaded + 1) % 8
  /\ UNCHANGED <<durations, lit, shown, i, loaded, mouse, main, clicks, was_reset>>

\* write(red_fd, r_str, 1), then green and blue; usleep(on_time) follows blue.
write_led(led, next) ==
  /\ Moves(led, next)
  /\ lit' = IF led \in shown THEN lit \cup {led} ELSE lit \ {led}
  /\ UNCHANGED <<cycle_stage, durations, shown, i, loaded, mouse, main, clicks, was_reset>>

\* Mutant: the LEDs stay on during the off time.
keep_on ==
  /\ cycle = "off"
  /\ i' = i + 1
  /\ cycle' = IF i + 1 < NO_OF_CYCLES THEN "red" ELSE "load"
  /\ UNCHANGED <<cycle_stage, durations, lit, shown, loaded, mouse, main, clicks, was_reset>>

\* switch_off_all and usleep(off_time).
switch_off ==
  /\ cycle = "off"
  /\ lit' = {}
  /\ i' = i + 1
  /\ cycle' = IF i + 1 < NO_OF_CYCLES THEN "red" ELSE "load"
  /\ UNCHANGED <<cycle_stage, durations, shown, loaded, mouse, main, clicks, was_reset>>

\* cycle_stage++ and cycle_stage = cycle_stage % 8: two loads and two stores.
load_stage(from, to) ==
  /\ Moves(from, to)
  /\ loaded' = cycle_stage
  /\ UNCHANGED <<cycle_stage, durations, lit, shown, i, mouse, main, clicks, was_reset>>

increment ==
  /\ program # 3
  /\ Moves("increment", "load_again")
  /\ cycle_stage' = loaded + 1
  /\ UNCHANGED <<durations, lit, shown, i, loaded, mouse, main, clicks, was_reset>>

\* Mutant: the stage wraps one too early.
modulo_7 ==
  /\ Moves("modulo", "switch")
  /\ cycle_stage' = loaded % 7
  /\ UNCHANGED <<durations, lit, shown, i, loaded, mouse, main, clicks, was_reset>>

\* Mutant: the stage wraps one too late.
modulo_9 ==
  /\ Moves("modulo", "switch")
  /\ cycle_stage' = loaded % 9
  /\ UNCHANGED <<durations, lit, shown, i, loaded, mouse, main, clicks, was_reset>>

modulo ==
  /\ Moves("modulo", "switch")
  /\ cycle_stage' = loaded % 8
  /\ UNCHANGED <<durations, lit, shown, i, loaded, mouse, main, clicks, was_reset>>

cycle_thread ==
  \/ switch_stage
  \/ led_states_off \/ led_states \/ write_color
  \/ write_led("red", "green") \/ write_led("green", "blue") \/ write_led("blue", "off")
  \/ switch_off
  \/ load_stage("load", "increment") \/ increment \/ advance_stage
  \/ load_stage("load_again", "modulo") \/ modulo

-----------------------------------------------------------------------------
(* The mouse thread.                                                       *)

Click == mouse = "read" /\ clicks < MaxClicks /\ clicks' = clicks + 1

\* Mutant: the first stage is taken to be 1.
reset_to_1 ==
  /\ program # 2
  /\ Click
  /\ cycle_stage' = 1
  /\ was_reset' = (was_reset \/ cycle \notin {"increment", "modulo"})
  /\ mouse' = IF program = 1 THEN "switch_off_all" ELSE "read"
  /\ UNCHANGED <<durations, lit, cycleVars, main>>

\* Programs 1 and 3: the handler resets the stage...
reset_cycle ==
  /\ program # 2
  /\ Click
  /\ cycle_stage' = 0
  /\ was_reset' = (was_reset \/ cycle \notin {"increment", "modulo"})
  /\ mouse' = IF program = 1 THEN "switch_off_all" ELSE "read"
  /\ UNCHANGED <<durations, lit, cycleVars, main>>

\* ...and in program 1 switches the LEDs off one by one.
mouse_off(led, from, to) ==
  /\ mouse = from /\ mouse' = to
  /\ lit' = lit \ {led}
  /\ UNCHANGED <<cycle_stage, durations, cycleVars, main, clicks, was_reset>>

\* Program 2: 10 more or 10 less, then the bounds.
change_duty_cycle ==
  /\ program = 2
  /\ Click
  /\ duty_cycle' \in {duty_cycle - 10, duty_cycle + 10}
  /\ mouse' = "clamp"
  /\ UNCHANGED <<cycle_stage, on_time, off_time, lit, cycleVars, main, was_reset>>

\* Mutant: the lower bound is forgotten.
clamp_above ==
  /\ mouse = "clamp" /\ mouse' = "on_time"
  /\ duty_cycle' = IF duty_cycle > 100 THEN 100 ELSE duty_cycle
  /\ UNCHANGED <<cycle_stage, on_time, off_time, lit, cycleVars, main, clicks, was_reset>>

clamp ==
  /\ mouse = "clamp" /\ mouse' = "on_time"
  /\ duty_cycle' = IF duty_cycle > 100 THEN 100 ELSE IF duty_cycle < 0 THEN 0 ELSE duty_cycle
  /\ UNCHANGED <<cycle_stage, on_time, off_time, lit, cycleVars, main, clicks, was_reset>>

set_on_time ==
  /\ mouse = "on_time" /\ mouse' = "off_time"
  /\ on_time' = onTime(duty_cycle)
  /\ UNCHANGED <<cycle_stage, duty_cycle, off_time, lit, cycleVars, main, clicks, was_reset>>

set_off_time ==
  /\ mouse = "off_time" /\ mouse' = "read"
  /\ off_time' = CYCLE_DURATION - on_time
  /\ UNCHANGED <<cycle_stage, duty_cycle, on_time, lit, cycleVars, main, clicks, was_reset>>

mouse_thread ==
  \/ reset_cycle
  \/ mouse_off("red", "switch_off_all", "green_off")
  \/ mouse_off("green", "green_off", "blue_off")
  \/ mouse_off("blue", "blue_off", "read")
  \/ change_duty_cycle \/ clamp \/ set_on_time \/ set_off_time

-----------------------------------------------------------------------------
(* Ctrl+C: cleanup switches the LEDs off, or resets the stage and writes   *)
(* it as a colour, then exits; the other threads run until the process is  *)
(* gone.                                                                   *)

cleanup_off(led, from, to) ==
  /\ program # 3
  /\ main = from /\ main' = to
  /\ lit' = lit \ {led}
  /\ UNCHANGED <<cycle_stage, durations, cycleVars, mouse, clicks, was_reset>>

cleanup_reset ==
  /\ program = 3
  /\ main = "join" /\ main' = "write"
  /\ cycle_stage' = 0
  /\ UNCHANGED <<durations, lit, cycleVars, mouse, clicks, was_reset>>

cleanup_write ==
  /\ program = 3
  /\ main = "write" /\ main' = "exit"
  /\ lit' = enable_display(cycle_stage)
  /\ UNCHANGED <<cycle_stage, durations, cycleVars, mouse, clicks, was_reset>>

cleanup_exit ==
  /\ main = "exit" /\ main' = "gone"
  /\ UNCHANGED <<cycle_stage, durations, lit, cycleVars, mouse, clicks, was_reset>>

cleanup ==
  \/ cleanup_off("red", "join", "green_off")
  \/ cleanup_off("green", "green_off", "blue_off")
  \/ cleanup_off("blue", "blue_off", "exit")
  \/ cleanup_reset \/ cleanup_write
  \/ cleanup_exit

\* The mouse thread exits the process if it cannot open the mouse.
open_fails ==
  /\ mouse = "open"
  /\ main' = "gone"
  /\ UNCHANGED <<cycle_stage, durations, lit, cycleVars, mouse, clicks, was_reset>>

open_mouse ==
  /\ mouse = "open" /\ mouse' = "read"
  /\ UNCHANGED <<cycle_stage, durations, lit, cycleVars, main, clicks, was_reset>>

-----------------------------------------------------------------------------
\* main has checked its arguments, set up the pins (or configured the driver)
\* and created the threads.  Program 3 has no durations.
Init ==
  /\ program \in Programs
  /\ cycle_stage = 0
  /\ duty_cycle \in DutyCycles
  /\ on_time = onTime(duty_cycle) /\ off_time = CYCLE_DURATION - on_time
  /\ lit = {}
  /\ cycle = "switch" /\ shown = {} /\ i = 0 /\ loaded = 0
  /\ mouse = "open" /\ main = "join"
  /\ clicks = 0 /\ was_reset = FALSE

Next ==
  /\ main # "gone"
  /\ cycle_thread \/ mouse_thread \/ cleanup \/ open_fails \/ open_mouse
  /\ UNCHANGED program

\* The cycling thread is scheduled; nobody need click or press Ctrl+C.
Spec == Init /\ [][Next]_vars /\ WF_vars(main # "gone" /\ cycle_thread /\ UNCHANGED program)

-----------------------------------------------------------------------------
(* Properties.                                                             *)

\* Wherever a reset falls between the two loads and stores that advance the
\* stage, the switch always finds one of its cases.
SwitchHasCase == cycle = "switch" => cycle_stage \in 0 .. 7

\* A stage as program 3 shows it: red and blue are exchanged between test.c:28
\* and RGBLed.c:131.
Exchanged(leds) ==
  {led \in Leds : (CASE led = "red" -> "blue" [] led = "blue" -> "red" [] OTHER -> led) \in leds}

\* No LED of an earlier stage is left on: every PWM cycle ends dark, and the
\* handlers only darken.  In program 3 each write replaces the colour, but
\* cleanup's, which sends the stage: its reset may have been overwritten.
OnlyShownIsLit ==
  \/ program # 3 /\ lit \subseteq shown
  \/ program = 3 /\ (lit = Exchanged(shown) \/ cycle = "led_states" \/ main # "join")

\* The arguments of usleep, which takes them as unsigned, are never negative
\* or longer than a cycle: not even between a change and its clamping.
SleepsWithinCycle ==
  on_time \in 0 .. CYCLE_DURATION /\ off_time \in 0 .. CYCLE_DURATION

\* Clicks delay the cycle but never stop it: white comes back for ever.
CycleGoesOn == []<>(main = "gone" \/ (cycle = "led_states" /\ shown = Leds))

\* README:10 "wait for mouse click events and reset the cycle": a click that
\* does not fall between a load and a store of the stage starts the cycle
\* anew, from its first stage or the one after, whatever clicks follow it.
ResetTakesEffect == cycle = "switch" /\ was_reset => cycle_stage \in {0, 1}

=============================================================================
