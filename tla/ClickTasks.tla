----------------------------- MODULE ClickTasks -----------------------------
(***************************************************************************)
(* ESP-team09-assgn01/assignment_1.c: periodic tasks, and aperiodic tasks  *)
(* woken by mouse clicks.  The main thread creates a mouse thread and one  *)
(* thread per task, activates them with a counting semaphore, starts the   *)
(* program's timer and joins.  The handler of SIGUSR1 posts one token per  *)
(* counted task for each click; the counters and current_event are plain   *)
(* ints that all threads share without a lock.                             *)
(***************************************************************************)
EXTENDS Integers, FiniteSets

CONSTANTS N,         \* number of tasks the user asks for, at most MAX_NO_OF_TASKS
          Inputs,    \* what the user may type for the tasks
          MaxClicks  \* bound on the mouse clicks of a run

MAX_NO_OF_TASKS == 10
Tasks == 0 .. N - 1
Clicks == {"left", "right"}
NaN == "none"

\* What a line of input asks for: a periodic task, an aperiodic one waiting
\* for event 1 (left) or 0 (right), one waiting for an event that does not
\* exist, or a type that is neither P nor A.
Kinds == {"periodic", "left", "right", "bad_event", "bad_type"}

ASSUME InputAssumption ==
  /\ N \in 0 .. MAX_NO_OF_TASKS
  /\ Inputs \subseteq [Tasks -> Kinds]
  /\ MaxClicks \in Nat

VARIABLES
  parameters,     \* the kind of each task
  timeout,        \* whether the user asked for a time limit above 0
  main, i,        \* where main is, and its loop counter
  task,           \* where each task thread is
  loaded,         \* what a task has read of its counter and not yet stored
  mouse, j,       \* where the mouse thread is, and the handler's loop counter
  current_event,
  activate_tasks, \* semaphore
  click_sem,      \* the semaphores left_click and right_click
  n_clicks,       \* the counters n_left_clicks and n_right_clicks
  exit_condition,
  timer,          \* the interval timer is running
  ended,          \* the process is gone
  clicks,         \* history: clicks read so far, per button
  woken           \* history: tokens taken so far, per button

vars == <<parameters, timeout, main, i, task, loaded, mouse, j, current_event, activate_tasks,
          click_sem, n_clicks, exit_condition, timer, ended, clicks, woken>>
input == <<parameters, timeout>>
mainVars == <<main, i>>
taskVars == <<task, loaded, woken>>
mouseVars == <<mouse, j, clicks>>
shared == <<activate_tasks, click_sem, n_clicks, current_event>>

Aperiodic(t) == parameters[t] \in Clicks
Valid(t) == Aperiodic(t) \/ parameters[t] = "periodic"

-----------------------------------------------------------------------------
(* The main thread.                                                        *)

exit_process ==
  /\ ended' = TRUE
  /\ UNCHANGED <<input, mainVars, taskVars, mouseVars, shared, exit_condition, timer>>

\* Its result is not checked: if it fails there is no mouse thread.
create_mouse_thread ==
  /\ main = "create_mouse"
  /\ main' = "create" /\ i' = 0
  /\ mouse' \in {"open", "none"}
  /\ UNCHANGED <<input, taskVars, j, clicks, shared, exit_condition, timer, ended>>

\* pthread_create, unless the type is unknown; if it fails main returns.
create_task ==
  /\ main = "create" /\ i < N
  /\ task' = [task EXCEPT ![i] = IF parameters[i] = "bad_type" THEN "none" ELSE "start"]
  /\ i' = i + 1
  /\ UNCHANGED <<input, main, loaded, woken, mouseVars, shared, exit_condition, timer, ended>>

create_fails ==
  /\ main = "create" /\ i < N
  /\ parameters[i] # "bad_type"
  /\ exit_process

all_created ==
  /\ main = "create" /\ i = N
  /\ main' = "activate" /\ i' = 0
  /\ UNCHANGED <<input, taskVars, mouseVars, shared, exit_condition, timer, ended>>

\* Mutant: one token less.
activate_all_but_one ==
  /\ main = "activate"
  /\ IF i < N - 1
     THEN activate_tasks' = activate_tasks + 1 /\ i' = i + 1 /\ UNCHANGED main
     ELSE main' = "set_timer" /\ UNCHANGED <<activate_tasks, i>>
  /\ UNCHANGED <<input, taskVars, mouseVars, click_sem, n_clicks, current_event,
                 exit_condition, timer, ended>>

activate ==
  /\ main = "activate"
  /\ IF i < N
     THEN activate_tasks' = activate_tasks + 1 /\ i' = i + 1 /\ UNCHANGED main
     ELSE main' = "set_timer" /\ UNCHANGED <<activate_tasks, i>>
  /\ UNCHANGED <<input, taskVars, mouseVars, click_sem, n_clicks, current_event,
                 exit_condition, timer, ended>>

\* Mutant: the timer's first expiry is left at 0, which disarms it.
set_timer_interval_only ==
  /\ main = "set_timer"
  /\ main' = "join" /\ i' = 0
  /\ UNCHANGED <<input, taskVars, mouseVars, shared, exit_condition, timer, ended>>

\* A time limit of 0 leaves the timer disarmed.
set_timer ==
  /\ main = "set_timer"
  /\ timer' = timeout
  /\ main' = "join" /\ i' = 0
  /\ UNCHANGED <<input, taskVars, mouseVars, shared, exit_condition, ended>>

\* pthread_join of a thread that exited.  For a task of unknown type thr[i]
\* was never written: joining it may fail, or crash the process.
join ==
  /\ main = "join" /\ i < N
  /\ task[i] \in {"exited", "none"}
  /\ i' = i + 1
  /\ UNCHANGED <<input, main, taskVars, mouseVars, shared, exit_condition, timer, ended>>

join_crashes ==
  /\ main = "join" /\ i < N
  /\ task[i] = "none"
  /\ exit_process

all_joined ==
  /\ main = "join" /\ i = N
  /\ main' = "join_mouse"
  /\ exit_condition' = TRUE
  /\ UNCHANGED <<input, i, taskVars, mouseVars, shared, timer, ended>>

\* Joining a thread that was never created fails or crashes: the process ends.
join_mouse ==
  /\ main = "join_mouse"
  /\ mouse \in {"done", "none"}
  /\ exit_process

main_thread ==
  \/ create_mouse_thread
  \/ create_task \/ create_fails \/ all_created
  \/ activate
  \/ set_timer
  \/ join \/ join_crashes \/ all_joined \/ join_mouse

\* SIGALRM: destroys the semaphores and exits.
sighandler_sigalarm == timer /\ exit_process

-----------------------------------------------------------------------------
(* The task threads.  A body shares nothing with other threads: it is part *)
(* of the step that starts it.                                             *)

Goes(t, from, to) == task[t] = from /\ task' = [task EXCEPT ![t] = to]

\* An aperiodic task whose event does not exist gives up at once.
reject_event(t) ==
  /\ parameters[t] = "bad_event"
  /\ Goes(t, "start", "exited")
  /\ UNCHANGED <<input, mainVars, mouseVars, loaded, woken, shared, exit_condition, timer, ended>>

\* Mutant: the activation semaphore is ignored.
start_unactivated(t) ==
  /\ Valid(t)
  /\ Goes(t, "start", IF Aperiodic(t) THEN "reset" ELSE "periodic")
  /\ UNCHANGED <<input, mainVars, mouseVars, loaded, woken, shared, exit_condition, timer, ended>>

wait_activation(t) ==
  /\ Valid(t)
  /\ activate_tasks > 0
  /\ activate_tasks' = activate_tasks - 1
  /\ Goes(t, "start", IF Aperiodic(t) THEN "reset" ELSE "periodic")
  /\ UNCHANGED <<input, mainVars, mouseVars, loaded, woken, click_sem, n_clicks,
                 current_event, exit_condition, timer, ended>>

reset_event(t) ==
  /\ Goes(t, "reset", "load")
  /\ current_event' = NaN
  /\ UNCHANGED <<input, mainVars, mouseVars, loaded, woken, activate_tasks, click_sem,
                 n_clicks, exit_condition, timer, ended>>

\* n_left_clicks++ or n_right_clicks++: a load and a store.
load_count(t) ==
  /\ Goes(t, "load", "store")
  /\ loaded' = [loaded EXCEPT ![t] = n_clicks[parameters[t]]]
  /\ UNCHANGED <<input, mainVars, mouseVars, woken, shared, exit_condition, timer, ended>>

\* Mutant: the else is missing, the other counter is incremented too.
store_both_counts(t) ==
  /\ Goes(t, "store", "wait")
  /\ n_clicks' = [b \in Clicks |-> 1 + IF b = parameters[t] THEN loaded[t] ELSE n_clicks[b]]
  /\ UNCHANGED <<input, mainVars, mouseVars, loaded, woken, activate_tasks, click_sem,
                 current_event, exit_condition, timer, ended>>

store_count(t) ==
  /\ Goes(t, "store", "wait")
  /\ n_clicks' = [n_clicks EXCEPT ![parameters[t]] = loaded[t] + 1]
  /\ UNCHANGED <<input, mainVars, mouseVars, loaded, woken, activate_tasks, click_sem,
                 current_event, exit_condition, timer, ended>>

\* Mutant: a task waits for one click, and then ends.
wait_one_click(t) ==
  /\ Goes(t, "wait", "exited")
  /\ click_sem[parameters[t]] > 0
  /\ click_sem' = [click_sem EXCEPT ![parameters[t]] = @ - 1]
  /\ woken' = [woken EXCEPT ![parameters[t]] = @ + 1]
  /\ UNCHANGED <<input, mainVars, mouseVars, loaded, activate_tasks, n_clicks,
                 current_event, exit_condition, timer, ended>>

wait_click(t) ==
  /\ task[t] = "wait"
  /\ click_sem[parameters[t]] > 0
  /\ click_sem' = [click_sem EXCEPT ![parameters[t]] = @ - 1]
  /\ woken' = [woken EXCEPT ![parameters[t]] = @ + 1]
  /\ UNCHANGED <<input, mainVars, mouseVars, task, loaded, activate_tasks, n_clicks,
                 current_event, exit_condition, timer, ended>>

task_thread(t) ==
  \/ reject_event(t)
  \/ wait_activation(t)
  \/ reset_event(t) \/ load_count(t) \/ store_count(t)
  \/ wait_click(t)

-----------------------------------------------------------------------------
(* The mouse thread.                                                       *)

Moves(from, to) == mouse = from /\ mouse' = to

open_device ==
  /\ Moves("open", "read")
  /\ UNCHANGED <<input, mainVars, taskVars, j, clicks, shared, exit_condition, timer, ended>>

open_fails == mouse = "open" /\ exit_process

\* A button is released and read.
read_click(b) ==
  /\ ~exit_condition
  /\ clicks["left"] + clicks["right"] < MaxClicks
  /\ Moves("read", "handler")
  /\ clicks' = [clicks EXCEPT ![b] = @ + 1]
  /\ current_event' = b
  /\ UNCHANGED <<input, mainVars, taskVars, j, activate_tasks, click_sem, n_clicks,
                 exit_condition, timer, ended>>

\* Any event read after exit_condition is set ends the thread; before that,
\* one that is not a click is ignored.
read_last_event ==
  /\ exit_condition
  /\ Moves("read", "done")
  /\ UNCHANGED <<input, mainVars, taskVars, j, clicks, shared, exit_condition, timer, ended>>

\* mouse_event_handler runs inside pthread_kill: the switch, which finds no
\* event if a task has just reset it...
switch_event ==
  /\ mouse = "handler"
  /\ mouse' = IF current_event = NaN THEN "read" ELSE current_event
  /\ j' = 0
  /\ UNCHANGED <<input, mainVars, taskVars, clicks, shared, exit_condition, timer, ended>>

\* Mutant: one iteration too many.
post_one_more(b) ==
  /\ mouse = b
  /\ j =< n_clicks[b]
  /\ click_sem' = [click_sem EXCEPT ![b] = @ + 1]
  /\ j' = j + 1
  /\ UNCHANGED <<input, mainVars, taskVars, mouse, clicks, activate_tasks, n_clicks,
                 current_event, exit_condition, timer, ended>>

\* ...a loop that reads the counter again for each token...
post_click(b) ==
  /\ mouse = b
  /\ j < n_clicks[b]
  /\ click_sem' = [click_sem EXCEPT ![b] = @ + 1]
  /\ j' = j + 1
  /\ UNCHANGED <<input, mainVars, taskVars, mouse, clicks, activate_tasks, n_clicks,
                 current_event, exit_condition, timer, ended>>

\* ...and the reset of the event.
all_posted(b) ==
  /\ j >= n_clicks[b]
  /\ Moves(b, "read")
  /\ current_event' = NaN
  /\ UNCHANGED <<input, mainVars, taskVars, j, clicks, activate_tasks, click_sem, n_clicks,
                 exit_condition, timer, ended>>

mouse_event_handler == switch_event \/ \E b \in Clicks : post_click(b) \/ all_posted(b)

mouse_thread ==
  \/ open_device \/ open_fails
  \/ \E b \in Clicks : read_click(b)
  \/ read_last_event
  \/ mouse_event_handler

-----------------------------------------------------------------------------
Init ==
  /\ parameters \in Inputs /\ timeout \in BOOLEAN
  /\ main = "create_mouse" /\ i = 0
  /\ task = [t \in Tasks |-> "none"]
  /\ loaded = [t \in Tasks |-> 0]
  /\ mouse = "none" /\ j = 0
  /\ current_event = NaN
  /\ activate_tasks = 0
  /\ click_sem = [b \in Clicks |-> 0]
  /\ n_clicks = [b \in Clicks |-> 0]
  /\ exit_condition = FALSE /\ timer = FALSE /\ ended = FALSE
  /\ clicks = [b \in Clicks |-> 0]
  /\ woken = [b \in Clicks |-> 0]

Next ==
  /\ ~ended
  /\ \/ main_thread
     \/ sighandler_sigalarm
     \/ \E t \in Tasks : task_thread(t)
     \/ mouse_thread

\* Threads are scheduled and the timer expires; the user need not click.
Fairness ==
  /\ WF_vars(~ended /\ main_thread)
  /\ WF_vars(~ended /\ sighandler_sigalarm)
  /\ \A t \in Tasks : WF_vars(~ended /\ task_thread(t))
  /\ WF_vars(~ended /\ (open_device \/ mouse_event_handler))

Spec == Init /\ [][Next]_vars /\ Fairness

-----------------------------------------------------------------------------
(* Properties.                                                             *)

Activated(t) == task[t] \in {"periodic", "reset", "load", "store", "wait"}
Waiting(b) == {t \in Tasks : parameters[t] = b /\ task[t] = "wait"}

\* assignment_1.c:328 "Activate all threads at a time": no task starts its
\* work before every task has a thread.
BarrierHolds ==
  (\E t \in Tasks : Activated(t)) => \A t \in Tasks : Valid(t) => task[t] # "none"

\* However clicks, registrations and wake-ups interleave, a button wakes its
\* tasks at most once per click and task: the handler, which reads the
\* counter anew for each token, never posts a token too many, nor a token of
\* the other button.
WakesAreBounded ==
  \A b \in Clicks :
    click_sem[b] + woken[b] =< clicks[b] * Cardinality({t \in Tasks : parameters[t] = b})

\* The handler counts a task only once the task is about to wait: tokens
\* never outnumber those who can take them.
CountsOnlyWaiting == \A b \in Clicks : n_clicks[b] =< Cardinality(Waiting(b))

\* A task that asks for an event that does not exist takes no token away:
\* every other task is activated in the end, even with no time limit.
AllActivated ==
  \A t \in Tasks : Valid(t) => <>(ended \/ Activated(t))

\* Every token the handler posts is taken in the end.
TokensAreTaken == <>[](ended \/ \A b \in Clicks : click_sem[b] = 0)

\* assignment_1.c:45 "timer for the whole program": a process with a time
\* limit ends even if nobody touches the mouse.
Termination == timeout => <>ended

\* assignment_1.c:217 "signals the signal handler which sends sem_post to all
\* threads waiting for it": broken, a task that is just activated resets
\* current_event, and those who already wait miss the click.
ClickReachesHandler ==
  \A b \in Clicks :
    mouse = "handler" /\ Waiting(b) # {} /\ (\A c \in Clicks \ {b} : clicks[c] = 0)
      => current_event = b

=============================================================================
