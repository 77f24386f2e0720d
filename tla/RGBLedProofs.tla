---------------------------- MODULE RGBLedProofs ----------------------------
(***************************************************************************)
(* Theorems about RGBLed, for any number of processes.  However they use   *)
(* the device, a queued timer has a holder; as long as they take turns,    *)
(* the timer is never overwritten, runs on valid intensities, keeps to its *)
(* cycle and never stops while the device is in use.                       *)
(***************************************************************************)
EXTENDS RGBLed, TLAPS

\* What a step of one process leaves alone in pc.
LEMMA StepMoves ==
  ASSUME pc \in [Procs -> {"closed"} \cup Calling],
         NEW p \in Procs, NEW from, NEW to \in {"closed"} \cup Calling,
         Step(p, from, to)
  PROVE  /\ pc' \in [Procs -> {"closed"} \cup Calling]
         /\ pc[p] = from /\ pc'[p] = to
         /\ \A q \in Procs : q # p => pc'[q] = pc[q]
         /\ ~wild
         /\ shared' = (shared \/ (from = "closed" /\ \E q \in Procs \ {p} : pc[q] # "closed"))
  BY DEF Step

-----------------------------------------------------------------------------
(* Any number of processes.                                                *)

\* The strengthening: while a call is under way or a file is open, rmmod is
\* refused, so the module is loaded.
HolderInv ==
  /\ pc \in [Procs -> {"closed"} \cup Calling]
  /\ \A p \in Procs : pc[p] # "closed" => module = "in"
  /\ TimerHasHolder

Waiting == {"closed", "open_setup", "open_start", "close_free"}

\* A process that goes on holding the device, or starts to, keeps the
\* invariant, whatever happens to the timer.
LEMMA HolderStays ==
  ASSUME HolderInv,
         NEW p \in Procs, NEW from \in Calling, NEW to \in Calling \ Waiting,
         Step(p, from, to), module' = module
  PROVE  HolderInv'
  <1>1. /\ pc' \in [Procs -> {"closed"} \cup Calling]
        /\ pc[p] = from /\ pc'[p] = to
        /\ \A q \in Procs : q # p => pc'[q] = pc[q]
    BY StepMoves DEF HolderInv
  <1>2. module = "in"
    BY <1>1 DEF HolderInv, Calling
  <1>3. p \in Holders'
    BY <1>1 DEF Holders, Waiting
  <1>. QED
    BY <1>1, <1>2, <1>3 DEF HolderInv, TimerHasHolder

\* So does one that does not hold the device and queues no timer.
LEMMA WaiterMoves ==
  ASSUME HolderInv,
         NEW p \in Procs, NEW from \in Waiting, NEW to \in {"closed"} \cup Calling,
         Step(p, from, to), module' = module, from = "closed" => module = "in",
         armed' = armed
  PROVE  HolderInv'
  <1>1. /\ pc' \in [Procs -> {"closed"} \cup Calling]
        /\ pc[p] = from /\ pc'[p] = to
        /\ \A q \in Procs : q # p => pc'[q] = pc[q]
    BY StepMoves DEF HolderInv, Waiting, Calling
  <1>2. \A q \in Procs : pc'[q] # "closed" => module' = "in"
    BY <1>1 DEF HolderInv
  <1>3. Holders \subseteq Holders'
    BY <1>1 DEF Holders, Waiting
  <1>. QED
    BY <1>1, <1>2, <1>3 DEF HolderInv, TimerHasHolder

LEMMA HolderInit == Init => HolderInv
  BY DEF Init, HolderInv, TimerHasHolder, Calling

LEMMA HolderStep == HolderInv /\ [Next]_vars => HolderInv'
  <1>. SUFFICES ASSUME HolderInv, [Next]_vars PROVE HolderInv'
    OBVIOUS
  <1>1. CASE timer_callback
    <2>1. pc' = pc /\ module' = module /\ armed /\ module = "in"
      BY <1>1 DEF timer_callback, HolderInv, TimerHasHolder
    <2>. QED BY <2>1 DEF HolderInv, TimerHasHolder, Holders
  <1>2. ASSUME NEW p \in Procs, syscall(p) PROVE HolderInv'
    <2>1. CASE open_defaults(p)
      BY <2>1, WaiterMoves DEF open_defaults, timerVars, Waiting, Calling
    <2>2. CASE open_setup(p)
      BY <2>2, WaiterMoves DEF open_setup, timerVars, Waiting, Calling
    <2>3. CASE open_start(p)
      BY <2>3, HolderStays DEF open_start, Waiting, Calling
    <2>4. CASE close_exit(p)
      BY <2>4, HolderStays DEF close_exit, Waiting, Calling
    <2>5. CASE close_cancel(p)
      <3>1. /\ pc' \in [Procs -> {"closed"} \cup Calling]
            /\ pc[p] = "close_cancel"
            /\ \A q \in Procs : q # p => pc'[q] = pc[q]
            /\ module' = module /\ ~armed'
        BY <2>5, StepMoves DEF close_cancel, HolderInv, Calling
      <3>. QED BY <3>1 DEF HolderInv, TimerHasHolder
    <2>6. CASE close_free(p)
      BY <2>6, WaiterMoves DEF close_free, timerVars, Waiting
    <2>7. ASSUME NEW c \in Colors, write_color(p, c) PROVE HolderInv'
      BY <2>7, HolderStays DEF write_color, Waiting, Calling
    <2>8. CASE write_on(p)
      BY <2>8, HolderStays DEF write_on, Waiting, Calling
    <2>9. ASSUME NEW d \in [pins : Pins, intensity : Intensities], config_free(p, d)
          PROVE HolderInv'
      BY <2>9, HolderStays DEF config_free, Waiting, Calling
    <2>10. CASE config_exit(p)
      BY <2>10, HolderStays DEF config_exit, Waiting, Calling
    <2>11. CASE config_cancel(p)
      BY <2>11, HolderStays DEF config_cancel, Waiting, Calling
    <2>12. CASE config_set(p)
      <3>1. CASE data[p].intensity \in 0 .. 100
        BY <2>12, <3>1, HolderStays DEF config_set, Waiting, Calling
      <3>2. CASE data[p].intensity \notin 0 .. 100
        BY <2>12, <3>2, HolderStays DEF config_set, Waiting, Calling
      <3>. QED BY <3>1, <3>2
    <2>13. CASE config_start(p)
      BY <2>13, HolderStays DEF config_start, Waiting, Calling
    <2>. QED
      BY <1>2, <2>1, <2>2, <2>3, <2>4, <2>5, <2>6, <2>7, <2>8, <2>9, <2>10, <2>11, <2>12,
         <2>13 DEF syscall
  <1>3. CASE RGBLed_init
    BY <1>3 DEF RGBLed_init, HolderInv, TimerHasHolder, Holders
  <1>4. CASE exit_free
    BY <1>4 DEF exit_free, timerVars, HolderInv, TimerHasHolder, Holders
  <1>5. CASE exit_cancel
    BY <1>5 DEF exit_cancel, HolderInv, TimerHasHolder, Holders
  <1>6. CASE UNCHANGED vars
    BY <1>6 DEF vars, HolderInv, TimerHasHolder, Holders
  <1>. QED
    BY <1>1, <1>2, <1>3, <1>4, <1>5, <1>6 DEF Next

\* However many processes use the device, a queued timer has a holder and its
\* module is loaded: hrtimer_cancel in close and rmmod's use count suffice.
THEOREM HolderCorrect == Spec => []TimerHasHolder
  <1>1. HolderInv => TimerHasHolder
    BY DEF HolderInv
  <1>. QED
    BY HolderInit, HolderStep, <1>1, PTL DEF Spec

-----------------------------------------------------------------------------
(* Types.                                                                  *)

LEMMA TypeInit == Init => TypeOK
  <1>. SUFFICES ASSUME Init PROVE TypeOK
    OBVIOUS
  <1>1. Colors \subseteq 0 .. 7 /\ DefaultPins \in Pins
    BY LedAssumption
  <1>2. data \in [Procs -> [pins : Pins, intensity : Intensities \cup {DefaultIntensity}]]
    BY <1>1 DEF Init, no_data
  <1>3. pc \in [Procs -> {"closed"} \cup Calling]
    BY DEF Init
  <1>4. /\ color \in Colors /\ pins \in Pins /\ lit \in [Pins -> Colors \cup {0}]
        /\ intensity \in Intensities \cup {DefaultIntensity}
        /\ requested \subseteq Pins /\ outputs \subseteq Pins
    BY <1>1 DEF Init
  <1>5. /\ inited \in BOOLEAN /\ armed \in BOOLEAN /\ exit \in BOOLEAN /\ on_time \in BOOLEAN
        /\ wild \in BOOLEAN /\ shared \in BOOLEAN
    BY Zenon DEF Init
  <1>6. /\ interval \in Int
        /\ module \in {"out", "in", "removing", "stuck"}
    BY DEF Init
  <1>. QED
    BY <1>2, <1>3, <1>4, <1>5, <1>6 DEF TypeOK

\* A timer that is queued for the on time of an integer has an integer time.
LEMMA TimerType ==
  ASSUME TypeOK, start_timer(intensity)
  PROVE  /\ inited' \in BOOLEAN /\ armed' \in BOOLEAN /\ wild' \in BOOLEAN
         /\ interval' \in Int
  <1>1. intensity \in Int
    BY LedAssumption DEF TypeOK, DefaultIntensity
  <1>2. onTime(intensity) \in Int
    BY <1>1 DEF onTime, CYCLE_DURATION
  <1>. QED
    BY <1>2 DEF start_timer, TypeOK

LEMMA TypeStep == TypeOK /\ [Next]_vars => TypeOK'
  <1>. SUFFICES ASSUME TypeOK, [Next]_vars PROVE TypeOK'
    OBVIOUS
  <1>t. pc \in [Procs -> {"closed"} \cup Calling]
    BY DEF TypeOK
  <1>1. CASE timer_callback
    <2>1. intensity \in Int
      BY LedAssumption DEF TypeOK, DefaultIntensity
    <2>2. onTime(intensity) \in Int /\ offTime(intensity) \in Int
      BY <2>1 DEF onTime, offTime, CYCLE_DURATION
    <2>3. interval' \in Int /\ on_time' \in BOOLEAN
          /\ armed' \in BOOLEAN /\ wild' \in BOOLEAN
      BY <1>1, <2>2 DEF timer_callback, TypeOK
    <2>4. lit' \in [Pins -> Colors \cup {0}]
      <3>1. \A c \in Colors \cup {0} : [lit EXCEPT ![pins] = c] \in [Pins -> Colors \cup {0}]
        BY DEF TypeOK
      <3>2. (IF on_time THEN color ELSE 0) \in Colors \cup {0}
        BY DEF TypeOK
      <3>3. lit' = lit \/ lit' = [lit EXCEPT ![pins] = IF on_time THEN color ELSE 0]
        BY <1>1, Zenon DEF timer_callback
      <3>. QED
        BY <3>1, <3>2, <3>3 DEF TypeOK
    <2>. QED
      BY <1>1, <2>3, <2>4 DEF timer_callback, TypeOK
  <1>2. ASSUME NEW p \in Procs, syscall(p) PROVE TypeOK'
    <2>0. pc' \in [Procs -> {"closed"} \cup Calling] /\ shared' \in BOOLEAN
      <3>1. ASSUME NEW from, NEW to \in {"closed"} \cup Calling, Step(p, from, to)
            PROVE  pc' \in [Procs -> {"closed"} \cup Calling] /\ shared' \in BOOLEAN
        <4>1. shared' = (shared \/ (from = "closed" /\ \E q \in Procs \ {p} : pc[q] # "closed"))
          BY <1>t, <3>1, StepMoves
        <4>2. shared' \in BOOLEAN
          BY <4>1, Zenon
        <4>. QED
          BY <1>t, <3>1, <4>2, StepMoves
      <3>2. CASE config_set(p)
        <4>1. CASE data[p].intensity \in 0 .. 100
          BY <3>1, <3>2, <4>1 DEF config_set, Calling
        <4>2. CASE data[p].intensity \notin 0 .. 100
          BY <3>1, <3>2, <4>2 DEF config_set, Calling
        <4>. QED BY <4>1, <4>2
      <3>. QED
        BY <1>2, <3>1, <3>2 DEF syscall, Calling, open_defaults, open_setup, open_start,
           close_exit, close_cancel, close_free, write_color, write_on, config_free,
           config_exit, config_cancel, config_start
    <2>1. CASE open_defaults(p)
      BY <2>0, <2>1, LedAssumption DEF open_defaults, timerVars, gpioVars, TypeOK
    <2>2. CASE open_setup(p)
      BY <2>0, <2>2 DEF open_setup, timerVars, TypeOK
    <2>3. CASE open_start(p)
      BY <2>0, <2>3, TimerType DEF open_start, gpioVars, TypeOK
    <2>4. CASE close_exit(p)
      BY <2>0, <2>4 DEF close_exit, timerVars, gpioVars, TypeOK
    <2>5. CASE close_cancel(p)
      BY <2>0, <2>5 DEF close_cancel, gpioVars, TypeOK
    <2>6. CASE close_free(p)
      BY <2>0, <2>6 DEF close_free, timerVars, TypeOK
    <2>7. ASSUME NEW c \in Colors, write_color(p, c) PROVE TypeOK'
      BY <2>0, <2>7 DEF write_color, timerVars, gpioVars, TypeOK
    <2>8. CASE write_on(p)
      BY <2>0, <2>8 DEF write_on, timerVars, gpioVars, TypeOK
    <2>9. ASSUME NEW d \in [pins : Pins, intensity : Intensities], config_free(p, d)
          PROVE TypeOK'
      <3>1. data' \in [Procs -> [pins : Pins, intensity : Intensities \cup {DefaultIntensity}]]
        BY <2>9 DEF config_free, TypeOK
      <3>. QED
        BY <2>0, <2>9, <3>1 DEF config_free, timerVars, TypeOK
    <2>10. CASE config_exit(p)
      BY <2>0, <2>10 DEF config_exit, timerVars, gpioVars, TypeOK
    <2>11. CASE config_cancel(p)
      BY <2>0, <2>11 DEF config_cancel, gpioVars, TypeOK
    <2>12. CASE config_set(p)
      <3>1. data' \in [Procs -> [pins : Pins, intensity : Intensities \cup {DefaultIntensity}]]
        BY <2>12, LedAssumption DEF config_set, no_data, TypeOK
      <3>2. data[p].pins \in Pins /\ data[p].intensity \in Intensities \cup {DefaultIntensity}
        BY DEF TypeOK
      <3>. QED
        BY <2>0, <2>12, <3>1, <3>2 DEF config_set, timerVars, gpioVars, TypeOK
    <2>13. CASE config_start(p)
      BY <2>0, <2>13, TimerType DEF config_start, gpioVars, TypeOK
    <2>. QED
      BY <1>2, <2>1, <2>2, <2>3, <2>4, <2>5, <2>6, <2>7, <2>8, <2>9, <2>10, <2>11, <2>12,
         <2>13 DEF syscall
  <1>3. CASE RGBLed_init
    BY <1>3 DEF RGBLed_init, gpioVars, TypeOK
  <1>4. CASE exit_free
    BY <1>4 DEF exit_free, timerVars, gpioVars, TypeOK
  <1>5. CASE exit_cancel
    BY <1>5 DEF exit_cancel, gpioVars, TypeOK
  <1>6. CASE UNCHANGED vars
    BY <1>6 DEF vars, TypeOK
  <1>. QED
    BY <1>1, <1>2, <1>3, <1>4, <1>5, <1>6 DEF Next

\* The type invariant of the driver, for any processes, colours and pins.
THEOREM TypeCorrect == Spec => []TypeOK
  BY TypeInit, TypeStep, PTL DEF Spec

-----------------------------------------------------------------------------
(* Processes that take turns.                                              *)

\* Where the timer cannot be queued: before it is started and after it is
\* cancelled.
Idle == Waiting \cup {"config_set", "config_start"}
Starting == {"open_setup", "open_start", "config_start"}

\* The strengthening says that one process at most has the device open, where
\* its call is when the timer is queued, that the intensity is valid wherever
\* the next step queues the timer, and that a timer queued for the time the
\* LED is lit was queued with the intensity that is still set.
TurnInv ==
  /\ TypeOK /\ HolderInv
  /\ ~shared =>
       /\ \A p, q \in Procs : pc[p] # "closed" /\ pc[q] # "closed" => p = q
       /\ ~wild
       /\ armed => \E p \in Procs : pc[p] \notin Idle
       /\ \A p \in Procs : pc[p] \in Starting => intensity \in 0 .. 100
       /\ armed => intensity \in 0 .. 100
       /\ armed /\ ~on_time => interval = onTime(intensity)

LEMMA TurnInit == Init => TurnInv
  <1>. SUFFICES ASSUME Init PROVE TurnInv
    OBVIOUS
  <1>1. ~armed /\ ~wild /\ \A p \in Procs : pc[p] = "closed"
    BY Zenon DEF Init
  <1>. QED
    BY <1>1, TypeInit, HolderInit DEF TurnInv, Starting

\* After a step of one process that shares the device with nobody, all others
\* have it closed, as before.
LEMMA TurnMoves ==
  ASSUME TurnInv, ~shared', NEW p \in Procs, NEW from, NEW to \in {"closed"} \cup Calling,
         Step(p, from, to)
  PROVE  /\ ~shared /\ ~wild
         /\ pc[p] = from /\ pc'[p] = to
         /\ \A q \in Procs : q # p => pc[q] = "closed" /\ pc'[q] = "closed"
         /\ \A q, r \in Procs : pc'[q] # "closed" /\ pc'[r] # "closed" => q = r
  <1>1. /\ pc[p] = from /\ pc'[p] = to
        /\ \A q \in Procs : q # p => pc'[q] = pc[q]
        /\ shared' = (shared \/ (from = "closed" /\ \E q \in Procs \ {p} : pc[q] # "closed"))
    BY StepMoves DEF TurnInv, TypeOK
  <1>2. ~shared
    BY <1>1, Zenon
  <1>3. \A q \in Procs : q # p => pc[q] = "closed"
    <2>1. CASE from = "closed"
      BY <1>1, <2>1, Zenon
    <2>2. CASE from # "closed"
      BY <1>1, <1>2, <2>2 DEF TurnInv
    <2>. QED BY <2>1, <2>2
  <1>. QED
    BY <1>1, <1>2, <1>3 DEF TurnInv

\* A step that leaves the timer and its intensity alone keeps the invariant,
\* if where it leads to the invariant says no more than where it starts.
LEMMA TurnSkips ==
  ASSUME TurnInv, TypeOK', HolderInv',
         NEW p \in Procs, NEW from \in {"closed"} \cup Calling,
         NEW to \in {"closed"} \cup Calling, Step(p, from, to),
         to \in Idle => from \in Idle,
         to \notin Starting \/ from \in Starting,
         UNCHANGED <<armed, interval, intensity, wild>>, on_time' = TRUE \/ on_time' = on_time
  PROVE  TurnInv'
  <1>. SUFFICES ASSUME ~shared'
                PROVE  /\ \A q, r \in Procs : pc'[q] # "closed" /\ pc'[r] # "closed" => q = r
                       /\ ~wild'
                       /\ armed' => \E q \in Procs : pc'[q] \notin Idle
                       /\ \A q \in Procs : pc'[q] \in Starting => intensity' \in 0 .. 100
                       /\ armed' => intensity' \in 0 .. 100
                       /\ armed' /\ ~on_time' => interval' = onTime(intensity')
    BY DEF TurnInv, onTime
  <1>1. /\ ~shared /\ ~wild
        /\ pc[p] = from /\ pc'[p] = to
        /\ \A q \in Procs : q # p => pc[q] = "closed" /\ pc'[q] = "closed"
        /\ \A q, r \in Procs : pc'[q] # "closed" /\ pc'[r] # "closed" => q = r
    BY TurnMoves
  <1>2. armed' => \E q \in Procs : pc'[q] \notin Idle
    <2>. SUFFICES ASSUME armed PROVE pc'[p] \notin Idle
      OBVIOUS
    <2>1. PICK q \in Procs : pc[q] \notin Idle
      BY <1>1 DEF TurnInv
    <2>2. q = p
      BY <1>1, <2>1 DEF Idle, Waiting
    <2>. QED BY <1>1, <2>1, <2>2
  <1>3. \A q \in Procs : pc'[q] \in Starting => intensity' \in 0 .. 100
    BY <1>1 DEF TurnInv, Starting
  <1>4. armed' /\ ~on_time' => interval' = onTime(intensity')
    <2>1. SUFFICES ASSUME armed', ~on_time' PROVE interval' = onTime(intensity')
      OBVIOUS
    <2>2. ~on_time
      BY <2>1, Zenon
    <2>3. armed
      BY <2>1
    <2>. QED
      BY <1>1, <2>2, <2>3 DEF TurnInv
  <1>. QED
    BY <1>1, <1>2, <1>3, <1>4 DEF TurnInv

\* So does one after which the timer is off.
LEMMA TurnStops ==
  ASSUME TurnInv, TypeOK', HolderInv',
         NEW p \in Procs, NEW from, NEW to \in {"closed"} \cup Calling, Step(p, from, to),
         ~shared /\ pc[p] = from /\ (\A q \in Procs : q # p => pc[q] = "closed") => ~armed',
         wild' = wild,
         to \in Starting => intensity' \in 0 .. 100
  PROVE  TurnInv'
  <1>. SUFFICES ASSUME ~shared'
                PROVE  /\ \A q, r \in Procs : pc'[q] # "closed" /\ pc'[r] # "closed" => q = r
                       /\ ~wild' /\ ~armed'
                       /\ \A q \in Procs : pc'[q] \in Starting => intensity' \in 0 .. 100
    BY DEF TurnInv
  <1>. QED
    BY TurnMoves DEF Starting

\* So does starting the timer.
LEMMA TurnStarts ==
  ASSUME TurnInv, TypeOK', HolderInv',
         NEW p \in Procs, NEW from \in {"open_start", "config_start"}, Step(p, from, "open"),
         start_timer(intensity), on_time' = TRUE, intensity' = intensity
  PROVE  TurnInv'
  <1>. SUFFICES ASSUME ~shared'
                PROVE  /\ \A q, r \in Procs : pc'[q] # "closed" /\ pc'[r] # "closed" => q = r
                       /\ ~wild'
                       /\ \E q \in Procs : pc'[q] \notin Idle
                       /\ \A q \in Procs : pc'[q] \notin Starting
                       /\ intensity' \in 0 .. 100
    BY DEF TurnInv
  <1>1. /\ ~shared /\ ~wild
        /\ pc[p] = from /\ pc'[p] = "open"
        /\ \A q \in Procs : q # p => pc[q] = "closed" /\ pc'[q] = "closed"
        /\ \A q, r \in Procs : pc'[q] # "closed" /\ pc'[r] # "closed" => q = r
    BY TurnMoves DEF Calling
  <1>2. ~armed /\ intensity \in 0 .. 100
    BY <1>1 DEF TurnInv, Idle, Waiting, Starting
  <1>3. ~wild'
    BY <1>1, <1>2, Zenon DEF start_timer
  <1>. QED
    BY <1>1, <1>2, <1>3 DEF Idle, Waiting, Starting

LEMMA TurnStep == TurnInv /\ [Next]_vars => TurnInv'
  <1>. SUFFICES ASSUME TurnInv, [Next]_vars PROVE TurnInv'
    OBVIOUS
  <1>. USE TypeStep, HolderStep
  <1>t. TypeOK' /\ HolderInv'
    BY DEF TurnInv
  <1>1. CASE timer_callback
    <2>1. pc' = pc /\ intensity' = intensity /\ shared' = shared /\ armed /\ module = "in"
      BY <1>1 DEF timer_callback, TurnInv, HolderInv, TimerHasHolder
    <2>2. wild' = wild
      BY <1>1, <2>1 DEF timer_callback
    <2>3. ~on_time' => interval' = onTime(intensity)'
      <3>1. SUFFICES ASSUME ~on_time' PROVE interval' = onTime(intensity')
        BY DEF onTime
      <3>2. on_time' = ~on_time /\ interval' = IF on_time THEN onTime(intensity) ELSE offTime(intensity)
        BY <1>1, <2>1 DEF timer_callback
      <3>3. on_time
        BY <3>1, <3>2, Zenon
      <3>. QED
        BY <2>1, <3>2, <3>3
    <2>. QED
      BY <1>t, <2>1, <2>2, <2>3 DEF TurnInv, Idle
  <1>2. ASSUME NEW p \in Procs, syscall(p) PROVE TurnInv'
    <2>1. CASE open_defaults(p)
      <3>1. ~shared /\ pc[p] = "closed" /\ (\A q \in Procs : q # p => pc[q] = "closed") => ~armed'
        BY <2>1 DEF TurnInv, open_defaults, timerVars, Idle, Waiting
      <3>2. intensity' \in 0 .. 100 /\ wild' = wild
        BY <2>1 DEF open_defaults, timerVars, DefaultIntensity
      <3>. QED
        BY <1>t, <2>1, <3>1, <3>2, TurnStops DEF open_defaults, Calling
    <2>2. CASE open_setup(p)
      BY <1>t, <2>2, TurnSkips DEF open_setup, timerVars, Idle, Waiting, Calling, Starting
    <2>3. CASE open_start(p)
      BY <1>t, <2>3, TurnStarts DEF open_start
    <2>4. CASE close_exit(p)
      BY <1>t, <2>4, TurnSkips DEF close_exit, timerVars, Idle, Waiting, Calling, Starting
    <2>5. CASE close_cancel(p)
      BY <1>t, <2>5, TurnStops DEF close_cancel, Calling, Starting
    <2>6. CASE close_free(p)
      BY <1>t, <2>6, TurnSkips DEF close_free, timerVars, Idle, Waiting, Calling, Starting
    <2>7. ASSUME NEW c \in Colors, write_color(p, c) PROVE TurnInv'
      BY <1>t, <2>7, TurnSkips DEF write_color, timerVars, Idle, Waiting, Calling, Starting
    <2>8. CASE write_on(p)
      BY <1>t, <2>8, TurnSkips DEF write_on, timerVars, Idle, Waiting, Calling, Starting
    <2>9. ASSUME NEW d \in [pins : Pins, intensity : Intensities], config_free(p, d)
          PROVE TurnInv'
      BY <1>t, <2>9, TurnSkips DEF config_free, timerVars, Idle, Waiting, Calling, Starting
    <2>10. CASE config_exit(p)
      BY <1>t, <2>10, TurnSkips DEF config_exit, timerVars, Idle, Waiting, Calling, Starting
    <2>11. CASE config_cancel(p)
      BY <1>t, <2>11, TurnStops DEF config_cancel, Calling, Starting
    <2>12. CASE config_set(p)
      <3>0. ~shared /\ pc[p] = "config_set" /\ (\A q \in Procs : q # p => pc[q] = "closed")
              => ~armed'
        BY <2>12 DEF config_set, timerVars, TurnInv, Idle, Waiting
      <3>1. CASE data[p].intensity \in 0 .. 100
        <4>1. intensity' \in 0 .. 100 /\ wild' = wild
          BY <2>12, <3>1 DEF config_set, timerVars
        <4>2. Step(p, "config_set", "config_start")
          BY <2>12, <3>1 DEF config_set
        <4>. QED
          BY <1>t, <3>0, <4>1, <4>2, TurnStops DEF Calling
      <3>2. CASE data[p].intensity \notin 0 .. 100
        <4>1. Step(p, "config_set", "open") /\ wild' = wild
          BY <2>12, <3>2 DEF config_set, timerVars
        <4>. QED
          BY <1>t, <3>0, <4>1, TurnStops DEF Calling, Starting
      <3>. QED
        BY <3>1, <3>2
    <2>13. CASE config_start(p)
      BY <1>t, <2>13, TurnStarts DEF config_start
    <2>. QED
      BY <1>2, <2>1, <2>2, <2>3, <2>4, <2>5, <2>6, <2>7, <2>8, <2>9, <2>10, <2>11, <2>12,
         <2>13 DEF syscall
  <1>3. CASE RGBLed_init
    <2>1. ~armed'
      BY <1>3 DEF RGBLed_init, TurnInv, HolderInv, TimerHasHolder
    <2>2. pc' = pc /\ shared' = shared /\ intensity' = intensity /\ wild' = wild
      BY <1>3 DEF RGBLed_init
    <2>. QED
      BY <1>t, <2>1, <2>2 DEF TurnInv
  <1>4. CASE exit_free
    <2>1. ~armed'
      BY <1>4 DEF exit_free, timerVars, TurnInv, HolderInv, TimerHasHolder, Holders
    <2>2. pc' = pc /\ shared' = shared /\ intensity' = intensity /\ wild' = wild
      BY <1>4 DEF exit_free, timerVars
    <2>. QED
      BY <1>t, <2>1, <2>2 DEF TurnInv
  <1>5. CASE exit_cancel
    <2>1. ~armed'
      BY <1>5 DEF exit_cancel, TurnInv, HolderInv, TimerHasHolder
    <2>2. pc' = pc /\ shared' = shared /\ intensity' = intensity /\ wild' = wild
      BY <1>5 DEF exit_cancel
    <2>. QED
      BY <1>t, <2>1, <2>2 DEF TurnInv
  <1>6. CASE UNCHANGED vars
    BY <1>6, <1>t DEF vars, TurnInv, onTime
  <1>. QED
    BY <1>1, <1>2, <1>3, <1>4, <1>5, <1>6 DEF Next

\* As long as processes take turns, no queued timer is initialised again and
\* none fires without rgbled, and every queued timer uses an intensity that
\* passed the check of CONFIG, although CONFIG stores it before the check.
THEOREM TurnsAreSafe == Spec => []TimerIsSafe
  <1>1. TurnInv => TimerIsSafe
    BY DEF TurnInv, TimerIsSafe
  <1>. QED
    BY TurnInit, TurnStep, <1>1, PTL DEF Spec

\* As long as processes take turns, the time the LED is lit and the time it is
\* then dark add up to one cycle: CONFIG never splits a cycle between
\* intensities.
THEOREM CycleCorrect == Spec => CycleIsComplete
  <1>1. TurnInv /\ [Next]_vars =>
          [timer_callback /\ ~on_time /\ ~shared => interval + interval' = CYCLE_DURATION]_vars
    <2>. SUFFICES ASSUME TurnInv, timer_callback, ~on_time, ~shared
                  PROVE  interval + interval' = CYCLE_DURATION
      OBVIOUS
    <2>1. armed /\ module = "in"
      BY DEF timer_callback, TurnInv, HolderInv, TimerHasHolder
    <2>2. interval = onTime(intensity) /\ interval' = offTime(intensity)
      BY <2>1 DEF timer_callback, TurnInv
    <2>3. intensity \in Int
      BY <2>1 DEF TurnInv
    <2>. QED
      BY <2>2, <2>3 DEF onTime, offTime, CYCLE_DURATION
  <1>. QED
    BY TurnInit, TurnStep, <1>1, PTL DEF Spec, CycleIsComplete

-----------------------------------------------------------------------------
(* The safety part of ColorIsShown.                                        *)

\* As long as processes take turns, a device that is open, between its calls
\* or within a write, and whose last CONFIG was accepted, has its timer
\* queued, and the callback finds rgbled and queues it again.
TimerKeepsRunning ==
  ~shared => \A p \in Procs :
    pc[p] \in {"open", "write_on"} /\ intensity \in 0 .. 100
      => armed /\ ~exit /\ module = "in" /\ ~wild

\* The strengthening: exit, which close and CONFIG have set, is reset before
\* the timer is started.
RunInv ==
  /\ TurnInv
  /\ ~shared => \A p \in Procs :
       /\ pc[p] \in {"open_setup", "open_start"} => ~exit
       /\ pc[p] \in {"open", "write_on"} /\ intensity \in 0 .. 100 => armed /\ ~exit

\* What a step of one process has to show: the others have the device closed.
LEMMA RunMoves ==
  ASSUME RunInv, TurnInv', NEW p \in Procs, NEW from, NEW to \in {"closed"} \cup Calling,
         Step(p, from, to),
         ~shared /\ pc[p] = from =>
           /\ to \in {"open_setup", "open_start"} => ~exit'
           /\ to \in {"open", "write_on"} /\ intensity' \in 0 .. 100 => armed' /\ ~exit'
  PROVE  RunInv'
  <1>. SUFFICES ASSUME ~shared', NEW q \in Procs
                PROVE  /\ pc'[q] \in {"open_setup", "open_start"} => ~exit'
                       /\ pc'[q] \in {"open", "write_on"} /\ intensity' \in 0 .. 100
                            => armed' /\ ~exit'
    BY DEF RunInv
  <1>1. /\ ~shared
        /\ pc[p] = from /\ pc'[p] = to
        /\ \A r \in Procs : r # p => pc'[r] = "closed"
    BY TurnMoves DEF RunInv
  <1>2. CASE q = p
    BY <1>1, <1>2
  <1>3. CASE q # p
    BY <1>1, <1>3
  <1>. QED
    BY <1>2, <1>3

\* A step during which nobody has the device open has nothing to show.
LEMMA RunClosed ==
  ASSUME TurnInv', \A p \in Procs : pc'[p] = "closed"
  PROVE  RunInv'
  BY DEF RunInv

LEMMA RunStep == RunInv /\ [Next]_vars => RunInv'
  <1>. SUFFICES ASSUME RunInv, [Next]_vars PROVE RunInv'
    OBVIOUS
  <1>t. TurnInv'
    BY TurnStep DEF RunInv
  <1>1. CASE timer_callback
    <2>1. /\ pc' = pc /\ intensity' = intensity /\ shared' = shared /\ exit' = exit
          /\ module = "in"
      BY <1>1 DEF timer_callback, RunInv, TurnInv, HolderInv, TimerHasHolder
    <2>2. ~exit => armed'
      BY <1>1, <2>1, Zenon DEF timer_callback
    <2>. QED
      BY <1>t, <2>1, <2>2 DEF RunInv
  <1>2. ASSUME NEW p \in Procs, syscall(p) PROVE RunInv'
    <2>1. CASE open_defaults(p)
      BY <1>t, <2>1, RunMoves DEF open_defaults, Calling
    <2>2. CASE open_setup(p)
      BY <1>t, <2>2, RunMoves DEF open_setup, Calling, RunInv
    <2>3. CASE open_start(p)
      <3>1. armed' /\ exit' = exit
        BY <2>3, Zenon DEF open_start, start_timer
      <3>. QED
        BY <1>t, <2>3, <3>1, RunMoves DEF open_start, Calling, RunInv
    <2>4. CASE close_exit(p)
      BY <1>t, <2>4, RunMoves DEF close_exit, Calling
    <2>5. CASE close_cancel(p)
      BY <1>t, <2>5, RunMoves DEF close_cancel, Calling
    <2>6. CASE close_free(p)
      BY <1>t, <2>6, RunMoves DEF close_free, Calling
    <2>7. ASSUME NEW c \in Colors, write_color(p, c) PROVE RunInv'
      BY <1>t, <2>7, RunMoves DEF write_color, timerVars, Calling, RunInv
    <2>8. CASE write_on(p)
      BY <1>t, <2>8, RunMoves DEF write_on, timerVars, Calling, RunInv
    <2>9. ASSUME NEW d \in [pins : Pins, intensity : Intensities], config_free(p, d)
          PROVE RunInv'
      BY <1>t, <2>9, RunMoves DEF config_free, Calling
    <2>10. CASE config_exit(p)
      BY <1>t, <2>10, RunMoves DEF config_exit, Calling
    <2>11. CASE config_cancel(p)
      BY <1>t, <2>11, RunMoves DEF config_cancel, Calling
    <2>12. CASE config_set(p)
      <3>1. CASE data[p].intensity \in 0 .. 100
        <4>1. Step(p, "config_set", "config_start")
          BY <2>12, <3>1 DEF config_set
        <4>. QED
          BY <1>t, <4>1, RunMoves DEF Calling
      <3>2. CASE data[p].intensity \notin 0 .. 100
        <4>1. Step(p, "config_set", "open") /\ intensity' \notin 0 .. 100
          BY <2>12, <3>2 DEF config_set
        <4>. QED
          BY <1>t, <4>1, RunMoves DEF Calling
      <3>. QED
        BY <3>1, <3>2
    <2>13. CASE config_start(p)
      <3>1. armed' /\ ~exit'
        BY <2>13, Zenon DEF config_start, start_timer
      <3>. QED
        BY <1>t, <2>13, <3>1, RunMoves DEF config_start, Calling
    <2>. QED
      BY <1>2, <2>1, <2>2, <2>3, <2>4, <2>5, <2>6, <2>7, <2>8, <2>9, <2>10, <2>11, <2>12,
         <2>13 DEF syscall
  <1>3. CASE RGBLed_init
    <2>1. \A p \in Procs : pc'[p] = "closed"
      BY <1>3 DEF RGBLed_init, RunInv, TurnInv, HolderInv
    <2>. QED
      BY <1>t, <2>1, RunClosed
  <1>4. CASE exit_free
    <2>1. \A p \in Procs : pc'[p] = "closed"
      BY <1>4 DEF exit_free
    <2>. QED
      BY <1>t, <2>1, RunClosed
  <1>5. CASE exit_cancel
    <2>1. \A p \in Procs : pc'[p] = "closed"
      BY <1>5 DEF exit_cancel, RunInv, TurnInv, HolderInv
    <2>. QED
      BY <1>t, <2>1, RunClosed
  <1>6. CASE UNCHANGED vars
    BY <1>6, <1>t DEF vars, RunInv
  <1>. QED
    BY <1>1, <1>2, <1>3, <1>4, <1>5, <1>6 DEF Next

\* As long as processes take turns, the timer of an open device with a valid
\* intensity never stops, whatever closes and refused reconfigurations of
\* earlier processes have left behind: every colour that is written meets a
\* callback to come, for any processes, colours, pins and intensities.
THEOREM RunningCorrect == Spec => []TimerKeepsRunning
  <1>1. Init => RunInv
    <2>. SUFFICES ASSUME Init PROVE RunInv
      OBVIOUS
    <2>1. \A p \in Procs : pc[p] = "closed"
      BY DEF Init
    <2>. QED
      BY <2>1, TurnInit DEF RunInv
  <1>2. RunInv => TimerKeepsRunning
    BY DEF RunInv, TimerKeepsRunning, TurnInv, HolderInv
  <1>. QED
    BY <1>1, RunStep, <1>2, PTL DEF Spec
=============================================================================
