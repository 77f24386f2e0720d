------------------------------- MODULE RGBLed -------------------------------
(***************************************************************************)
(* The software-PWM driver ESP-team09-assgn03/RGBLed.c: one high-resolution*)
(* timer whose callback lights and darkens an RGB LED, and the file        *)
(* operations that start, stop and reconfigure it.                         *)
(*                                                                         *)
(* The callback runs in interrupt context on the single-core Galileo: it   *)
(* is one action.  System calls are split where an interrupt, or a call of *)
(* another process, makes a difference: pc says how far each one is.       *)
(***************************************************************************)
EXTENDS Integers

CONSTANTS
  Procs,       \* processes that use /dev/RGBLed, one open file each
  Colors,      \* what they write: the last three bits of an int
  Pins,        \* choices of three IO pins, disjoint from one another
  DefaultPins, \* IO0, IO1 and IO2
  Intensities  \* what they pass to CONFIG

ASSUME LedAssumption ==
  /\ Colors \subseteq 0 .. 7 /\ Colors # {}
  /\ DefaultPins \in Pins
  /\ Intensities \subseteq Int

CYCLE_DURATION == 20000
DefaultIntensity == 50

VARIABLES
  module,    \* "out", "in", "removing" (rgbled is freed) or "stuck" in rmmod
  pc,        \* the step each process is at: "closed", "open" or inside a call
  data,      \* the argument of the CONFIG a process is executing
  inited,    \* hrtimer_init was called since the module was loaded
  armed,     \* the timer is queued
  interval,  \* the time it was last queued for
  exit, on_time,
  color, pins, intensity,  \* fields of rgbled
  requested, \* the pins that are requested from the gpio library
  outputs,   \* the pins whose direction was set to output
  lit,       \* the colour of an LED at each choice of pins
  wild,      \* a queued timer was overwritten, or its callback found no rgbled
  shared     \* history: two processes have had the device open at a time

vars == <<module, pc, data, inited, armed, interval, exit, on_time,
          color, pins, intensity, requested, outputs, lit, wild, shared>>
timerVars == <<inited, armed, interval, wild>>
gpioVars == <<requested, outputs, lit>>

\* Process p's call goes from one step to the next.
Step(p, from, to) ==
  /\ ~wild
  /\ pc[p] = from
  /\ pc' = [pc EXCEPT ![p] = to]
  /\ shared' = (shared \/ (from = "closed" /\ \E q \in Procs \ {p} : pc[q] # "closed"))

onTime(i) == (CYCLE_DURATION \div 100) * i
offTime(i) == CYCLE_DURATION - (CYCLE_DURATION \div 100) * i

\* hrtimer_init and hrtimer_start for an on time.  Initialising a timer that
\* is queued corrupts the queue.
start_timer(i) ==
  IF armed THEN wild' = TRUE /\ UNCHANGED <<inited, armed, interval>>
           ELSE /\ inited' = TRUE /\ armed' = TRUE
                /\ interval' = onTime(i)
                /\ UNCHANGED wild

-----------------------------------------------------------------------------
(* The timer.                                                              *)

\* The callback lights the colour or darkens the LED for the time that
\* belongs to it, and stops when exit is set.  Values set on pins that were
\* never made outputs do not show.  Without rgbled it goes wild.
timer_callback ==
  /\ ~wild /\ armed
  /\ IF module = "in"
     THEN /\ interval' = IF on_time THEN onTime(intensity) ELSE offTime(intensity)
          /\ lit' = IF pins \in outputs THEN [lit EXCEPT ![pins] = IF on_time THEN color ELSE 0]
                                       ELSE lit
          /\ on_time' = ~on_time
          /\ armed' = ~exit
          /\ UNCHANGED wild
     ELSE wild' = TRUE /\ UNCHANGED <<interval, lit, on_time, armed>>
  /\ UNCHANGED <<module, pc, data, inited, exit, color, pins, intensity, requested, outputs, shared>>

-----------------------------------------------------------------------------
(* open: the defaults, IOSetup, and the timer.                             *)

open_defaults(p) ==
  /\ module = "in"
  /\ Step(p, "closed", "open_setup")
  /\ exit' = FALSE
  /\ intensity' = DefaultIntensity
  /\ pins' = DefaultPins
  /\ UNCHANGED <<module, data, timerVars, on_time, color, gpioVars>>

\* Making the pins outputs drives them low.
open_setup(p) ==
  /\ Step(p, "open_setup", "open_start")
  /\ requested' = requested \cup {pins}
  /\ outputs' = outputs \cup {pins}
  /\ lit' = [lit EXCEPT ![pins] = 0]
  /\ UNCHANGED <<module, data, timerVars, exit, on_time, color, pins, intensity>>

open_start(p) ==
  /\ Step(p, "open_start", "open")
  /\ on_time' = TRUE
  /\ start_timer(intensity)
  /\ UNCHANGED <<module, data, exit, color, pins, intensity, gpioVars>>

-----------------------------------------------------------------------------
(* close, also of a process that dies: exit, hrtimer_cancel, free_io.      *)

close_exit(p) ==
  /\ Step(p, "open", "close_cancel")
  /\ exit' = TRUE
  /\ UNCHANGED <<module, data, timerVars, on_time, color, pins, intensity, gpioVars>>

\* Mutant: only exit stops the timer, at its next expiry.
close_without_cancel(p) ==
  /\ Step(p, "close_cancel", "close_free")
  /\ UNCHANGED <<module, data, timerVars, exit, on_time, color, pins, intensity, gpioVars>>

close_cancel(p) ==
  /\ Step(p, "close_cancel", "close_free")
  /\ armed' = FALSE
  /\ UNCHANGED <<module, data, inited, interval, wild, exit, on_time, color, pins, intensity, gpioVars>>

close_free(p) ==
  /\ Step(p, "close_free", "closed")
  /\ requested' = requested \ {pins}
  /\ UNCHANGED <<module, data, timerVars, exit, on_time, color, pins, intensity, outputs, lit>>

-----------------------------------------------------------------------------
(* write: the colour, then a new on time.                                  *)

write_color(p, c) ==
  /\ Step(p, "open", "write_on")
  /\ color' = c
  /\ UNCHANGED <<module, data, timerVars, exit, on_time, pins, intensity, gpioVars>>

write_on(p) ==
  /\ Step(p, "write_on", "open")
  /\ on_time' = TRUE
  /\ UNCHANGED <<module, data, timerVars, exit, color, pins, intensity, gpioVars>>

-----------------------------------------------------------------------------
(* ioctl CONFIG: free_io, exit, hrtimer_cancel, the new configuration and, *)
(* if its intensity is valid, the timer again.  The new pins are neither   *)
(* requested nor made outputs.                                             *)

config_free(p, d) ==
  /\ Step(p, "open", "config_exit")
  /\ data' = [data EXCEPT ![p] = d]
  /\ requested' = requested \ {pins}
  /\ UNCHANGED <<module, timerVars, exit, on_time, color, pins, intensity, outputs, lit>>

config_exit(p) ==
  /\ Step(p, "config_exit", "config_cancel")
  /\ exit' = TRUE
  /\ UNCHANGED <<module, data, timerVars, on_time, color, pins, intensity, gpioVars>>

\* Mutant: the configuration is set while the timer is still queued.
config_without_cancel(p) ==
  /\ Step(p, "config_cancel", "config_set")
  /\ UNCHANGED <<module, data, timerVars, exit, on_time, color, pins, intensity, gpioVars>>

config_cancel(p) ==
  /\ Step(p, "config_cancel", "config_set")
  /\ armed' = FALSE
  /\ UNCHANGED <<module, data, inited, interval, wild, exit, on_time, color, pins, intensity, gpioVars>>

\* data is a local variable: what it held is forgotten once it has been used.
no_data == [pins |-> DefaultPins, intensity |-> DefaultIntensity]

\* Mutant: the intensity is not checked.
config_set_unchecked(p) ==
  /\ Step(p, "config_set", "config_start")
  /\ pins' = data[p].pins
  /\ intensity' = data[p].intensity
  /\ data' = [data EXCEPT ![p] = no_data]
  /\ UNCHANGED <<module, timerVars, exit, on_time, color, gpioVars>>

\* An invalid intensity is stored before it is refused.
config_set(p) ==
  /\ Step(p, "config_set", IF data[p].intensity \in 0 .. 100 THEN "config_start" ELSE "open")
  /\ pins' = data[p].pins
  /\ intensity' = data[p].intensity
  /\ data' = [data EXCEPT ![p] = no_data]
  /\ UNCHANGED <<module, timerVars, exit, on_time, color, gpioVars>>

\* Mutant: exit stays set.
config_start_exiting(p) ==
  /\ Step(p, "config_start", "open")
  /\ on_time' = TRUE
  /\ start_timer(intensity)
  /\ UNCHANGED <<module, data, exit, color, pins, intensity, gpioVars>>

config_start(p) ==
  /\ Step(p, "config_start", "open")
  /\ on_time' = TRUE
  /\ exit' = FALSE
  /\ start_timer(intensity)
  /\ UNCHANGED <<module, data, color, pins, intensity, gpioVars>>

-----------------------------------------------------------------------------
(* Loading and unloading, the latter refused while a file is open.         *)

\* The fields of rgbled come from kmalloc: the colour is what was there.  A
\* load that fails leaves nothing behind that this module has.
RGBLed_init ==
  /\ ~wild /\ module = "out"
  /\ module' = "in"
  /\ exit' = FALSE /\ on_time' = FALSE
  /\ inited' = FALSE
  /\ color' \in Colors
  /\ UNCHANGED <<pc, data, armed, interval, wild, pins, intensity, gpioVars, shared>>

exit_free ==
  /\ ~wild /\ module = "in"
  /\ \A p \in Procs : pc[p] = "closed"
  /\ module' = "removing"
  /\ UNCHANGED <<pc, data, timerVars, exit, on_time, color, pins, intensity, gpioVars, shared>>

\* hrtimer_cancel spins for ever on a timer that was never initialised.
exit_cancel ==
  /\ ~wild /\ module = "removing"
  /\ exit' = TRUE
  /\ IF inited THEN module' = "out" /\ armed' = FALSE
               ELSE module' = "stuck" /\ UNCHANGED armed
  /\ UNCHANGED <<pc, data, inited, interval, wild, on_time, color, pins, intensity, gpioVars, shared>>

-----------------------------------------------------------------------------
Init ==
  /\ module = "out"
  /\ pc = [p \in Procs |-> "closed"]
  /\ data = [p \in Procs |-> no_data]
  /\ inited = FALSE /\ armed = FALSE /\ interval = 0
  /\ exit = FALSE /\ on_time = FALSE
  /\ color \in Colors
  /\ pins = DefaultPins /\ intensity = DefaultIntensity
  /\ requested = {} /\ outputs = {}
  /\ lit = [q \in Pins |-> 0]
  /\ wild = FALSE /\ shared = FALSE

syscall(p) ==
  \/ open_defaults(p) \/ open_setup(p) \/ open_start(p)
  \/ close_exit(p) \/ close_cancel(p) \/ close_free(p)
  \/ (\E c \in Colors : write_color(p, c)) \/ write_on(p)
  \/ \E d \in [pins : Pins, intensity : Intensities] : config_free(p, d)
  \/ config_exit(p) \/ config_cancel(p) \/ config_set(p) \/ config_start(p)

Next ==
  \/ timer_callback
  \/ \E p \in Procs : syscall(p)
  \/ RGBLed_init \/ exit_free \/ exit_cancel

\* A queued timer expires.
Spec == Init /\ [][Next]_vars /\ WF_vars(timer_callback)

-----------------------------------------------------------------------------
(* Properties.                                                             *)

Calling == {"open_setup", "open_start", "open", "close_cancel", "close_free", "write_on",
            "config_exit", "config_cancel", "config_set", "config_start"}

TypeOK ==
  /\ module \in {"out", "in", "removing", "stuck"}
  /\ pc \in [Procs -> {"closed"} \cup Calling]
  /\ data \in [Procs -> [pins : Pins, intensity : Intensities \cup {DefaultIntensity}]]
  /\ inited \in BOOLEAN /\ armed \in BOOLEAN
  /\ interval \in Int
  /\ exit \in BOOLEAN /\ on_time \in BOOLEAN
  /\ color \in Colors
  /\ pins \in Pins
  /\ intensity \in Intensities \cup {DefaultIntensity}
  /\ requested \subseteq Pins /\ outputs \subseteq Pins
  /\ lit \in [Pins -> Colors \cup {0}]
  /\ wild \in BOOLEAN /\ shared \in BOOLEAN

\* The processes whose open has started the timer and whose close has not
\* cancelled it yet.
Holders == {p \in Procs : pc[p] \notin {"closed", "open_setup", "open_start", "close_free"}}

\* However opens, closes and reconfigurations of several processes
\* interleave, the timer runs only while one of them holds the device: it
\* cannot fire in a module that is being removed, after rgbled is freed.
TimerHasHolder == armed => module = "in" /\ Holders # {}

\* As long as processes take turns, no queued timer is initialised again and
\* none fires without rgbled, even when they reconfigure the device while it
\* runs.  CONFIG stores an intensity before it checks it; a running timer uses
\* only values that passed the check.
TimerIsSafe == ~shared => ~wild /\ (armed => intensity \in 0 .. 100)

\* As long as processes take turns, when the on time runs out that comes last
\* before the LED goes dark, this on time and the dark time that follows add up
\* to one cycle, although CONFIG may have changed the intensity before either.
\* A write in between makes the next time an on time too, so the LED may be lit
\* for longer than its share: nothing is said of on times before the last.
CycleIsComplete ==
  [][timer_callback /\ ~on_time /\ ~shared => interval + interval' = CYCLE_DURATION]_vars

\* As long as processes take turns, a colour that is written reaches the LED
\* at the pins that are set, if they are outputs, unless another colour
\* replaces it, the device is closed or reconfigured, or the last CONFIG was
\* refused: after every open, and every valid CONFIG that keeps to pins an
\* open has set up, the timer runs, whatever an earlier process has left
\* behind.  CONFIG sets up no pins itself, so for other pins it promises
\* nothing.
ColorIsShown ==
  \A c \in Colors, p \in Procs :
    pc[p] = "open" /\ ~shared /\ intensity \in 0 .. 100 /\ pins \in outputs /\ color = c
      ~> lit[pins] = c \/ color # c \/ pc[p] \notin {"open", "write_on"} \/ shared

=============================================================================
