-------------------------- MODULE ClickTasksProofs --------------------------
(***************************************************************************)
(* Proofs about ClickTasks, for any number of tasks, inputs and clicks: no *)
(* task starts its work before every task has a thread, the handler counts *)
(* no task that does not wait and wakes none more often than it was        *)
(* clicked for, the tokens of main suffice for all tasks, and those of the *)
(* handler find their tasks.                                               *)
(***************************************************************************)
EXTENDS ClickTasks, FiniteSetTheorems, TLAPS

Places == {"none", "start", "periodic", "reset", "load", "store", "wait", "exited"}

TypeInv ==
  /\ parameters \in [Tasks -> Kinds]
  /\ i \in 0 .. N
  /\ task \in [Tasks -> Places]
  /\ loaded \in [Tasks -> Nat]
  /\ n_clicks \in [Clicks -> Nat]
  /\ activate_tasks \in Nat
  /\ \A t \in Tasks : task[t] \in {"reset", "load", "store", "wait"} => parameters[t] \in Clicks

\* What the threads of the tasks keep: a place, a kind, and a counter that a
\* task has read.
threads == <<parameters, i, main, task, loaded, n_clicks, activate_tasks>>

-----------------------------------------------------------------------------
(* The steps, as far as they concern the tasks.                            *)

\* Every step of the main thread that the tasks can notice.
MainSteps ==
  \/ UNCHANGED threads
  \/ main = "create_mouse" /\ main' = "create" /\ i' = 0
     /\ UNCHANGED <<parameters, task, loaded, n_clicks, activate_tasks>>
  \/ create_task
  \/ main = "create" /\ i = N /\ main' = "activate" /\ i' = 0
     /\ UNCHANGED <<parameters, task, loaded, n_clicks, activate_tasks>>
  \/ activate
  \/ main \in {"set_timer", "join"} /\ main' \in {"join", "join_mouse"} /\ i' \in 0 .. N
     /\ UNCHANGED <<parameters, task, loaded, n_clicks, activate_tasks>>

LEMMA OtherSteps ==
  ASSUME TypeInv, [Next]_vars, \A t \in Tasks : ~task_thread(t)
  PROVE  MainSteps
  <1>. N \in Nat /\ i \in 0 .. N
    BY InputAssumption DEF TypeInv
  <1>1. CASE main_thread
    <2>1. CASE create_mouse_thread \/ create_fails \/ all_created
      BY <2>1 DEF create_mouse_thread, create_fails, all_created, exit_process, MainSteps, threads,
                  input, mainVars, taskVars, mouseVars, shared
    <2>2. CASE set_timer \/ join \/ join_crashes \/ all_joined \/ join_mouse
      BY <2>2 DEF set_timer, join, join_crashes, all_joined, join_mouse, exit_process, MainSteps,
                  threads, input, mainVars, taskVars, mouseVars, shared
    <2>. QED
      BY <1>1, <2>1, <2>2 DEF main_thread, MainSteps
  <1>2. CASE sighandler_sigalarm
    BY <1>2 DEF sighandler_sigalarm, exit_process, MainSteps, threads, input, mainVars, taskVars, shared
  <1>3. CASE mouse_thread
    BY <1>3 DEF mouse_thread, open_device, open_fails, read_click, read_last_event,
                mouse_event_handler, switch_event, post_click, all_posted, exit_process,
                MainSteps, threads, input, mainVars, taskVars, shared
  <1>4. CASE UNCHANGED vars
    BY <1>4 DEF vars, MainSteps, threads
  <1>. QED
    BY <1>1, <1>2, <1>3, <1>4 DEF Next

\* What a step of one task does to the tasks.
LEMMA ThreadSteps ==
  ASSUME NEW t \in Tasks, task_thread(t)
  PROVE  /\ UNCHANGED <<parameters, main, i>>
         /\ \/ reject_event(t) \/ wait_activation(t) \/ load_count(t) \/ store_count(t)
            \/ Goes(t, "reset", "load") /\ UNCHANGED <<loaded, n_clicks, activate_tasks>>
            \/ UNCHANGED <<task, loaded, n_clicks, activate_tasks>>
  BY DEF task_thread, reject_event, wait_activation, reset_event, load_count, store_count,
         wait_click, input, mainVars, shared

-----------------------------------------------------------------------------
(* The types.                                                              *)

LEMMA TypeInit == Init => TypeInv
  BY InputAssumption DEF Init, TypeInv, Places, Kinds, Clicks

LEMMA TypeStep == TypeInv /\ [Next]_vars => TypeInv'
  <1>. SUFFICES ASSUME TypeInv, [Next]_vars PROVE TypeInv'
    OBVIOUS
  <1>. N \in Nat
    BY InputAssumption
  <1>1. CASE \A t \in Tasks : ~task_thread(t)
    <2>1. MainSteps
      BY <1>1, OtherSteps
    <2>2. CASE create_task
      BY <2>2 DEF create_task, TypeInv, Places, input, mouseVars, shared, Tasks
    <2>3. CASE activate
      BY <2>3 DEF activate, TypeInv, input, taskVars
    <2>4. CASE ~create_task /\ ~activate
      BY <2>1, <2>4 DEF MainSteps, threads, TypeInv
    <2>. QED
      BY <2>2, <2>3, <2>4
  <1>2. ASSUME NEW t \in Tasks, task_thread(t) PROVE TypeInv'
    <2>1. CASE reject_event(t)
      BY <1>2, <2>1, ThreadSteps DEF reject_event, Goes, shared, TypeInv, Places
    <2>2. CASE wait_activation(t)
      <3>1. activate_tasks' \in Nat
        BY <2>2 DEF wait_activation, TypeInv
      <3>2. PICK place \in {"reset", "periodic"} :
              /\ task' = [task EXCEPT ![t] = place]
              /\ place = "reset" => parameters[t] \in Clicks
        BY <2>2, Zenon DEF wait_activation, Goes, Aperiodic
      <3>3. UNCHANGED <<parameters, i, loaded, n_clicks>>
        BY <1>2, <2>2, ThreadSteps DEF wait_activation
      <3>. QED
        BY <3>1, <3>2, <3>3 DEF TypeInv, Places
    <2>3. CASE load_count(t)
      BY <1>2, <2>3, ThreadSteps DEF load_count, Goes, shared, TypeInv, Places
    <2>4. CASE store_count(t)
      <3>1. task[t] = "store" /\ parameters[t] \in Clicks /\ loaded[t] + 1 \in Nat
        BY <2>4 DEF store_count, Goes, TypeInv
      <3>2. n_clicks' \in [Clicks -> Nat]
        BY <2>4, <3>1 DEF store_count, TypeInv
      <3>3. task' = [task EXCEPT ![t] = "wait"] /\ UNCHANGED <<parameters, i, loaded, activate_tasks>>
        BY <1>2, <2>4, ThreadSteps DEF store_count, Goes
      <3>. QED
        BY <3>1, <3>2, <3>3 DEF TypeInv, Places
    <2>5. CASE Goes(t, "reset", "load") /\ UNCHANGED <<loaded, n_clicks, activate_tasks>>
      BY <1>2, <2>5, ThreadSteps DEF Goes, TypeInv, Places
    <2>6. CASE UNCHANGED <<task, loaded, n_clicks, activate_tasks>>
      BY <1>2, <2>6, ThreadSteps DEF TypeInv
    <2>. QED
      BY <1>2, <2>1, <2>2, <2>3, <2>4, <2>5, <2>6, ThreadSteps
  <1>. QED
    BY <1>1, <1>2

-----------------------------------------------------------------------------
(* The barrier: there is no token before all threads exist, and a thread   *)
(* that exists does not vanish.                                            *)

BarrierInv ==
  /\ main \in {"create_mouse", "create"} =>
       activate_tasks = 0 /\ \A t \in Tasks : ~Activated(t)
  /\ main = "create" => \A t \in Tasks : t < i /\ Valid(t) => task[t] # "none"
  /\ main \notin {"create_mouse", "create"} => \A t \in Tasks : Valid(t) => task[t] # "none"

LEMMA BarrierInit == Init => BarrierInv
  BY DEF Init, BarrierInv, Activated

LEMMA BarrierStep == TypeInv /\ BarrierInv /\ [Next]_vars => BarrierInv'
  <1>. SUFFICES ASSUME TypeInv, BarrierInv, [Next]_vars PROVE BarrierInv'
    OBVIOUS
  <1>. N \in Nat
    BY InputAssumption
  <1>1. CASE \A t \in Tasks : ~task_thread(t)
    <2>1. MainSteps
      BY <1>1, OtherSteps
    <2>2. CASE create_task
      <3>1. /\ main = "create" /\ main' = main /\ i' = i + 1 /\ i \in Tasks
            /\ UNCHANGED <<parameters, activate_tasks>>
            /\ task' = [task EXCEPT ![i] = IF parameters[i] = "bad_type" THEN "none" ELSE "start"]
        BY <2>2 DEF create_task, input, shared, TypeInv, Tasks
      <3>2. \A t \in Tasks : ~Activated(t)'
        BY <3>1 DEF BarrierInv, Activated, TypeInv
      <3>3. ASSUME NEW t \in Tasks, t < i', Valid(t)' PROVE task'[t] # "none"
        <4>1. t < i \/ t = i
          BY <3>1, <3>3 DEF Tasks
        <4>2. Valid(t) /\ parameters[t] # "bad_type"
          BY <3>1, <3>3 DEF Valid, Aperiodic, Clicks
        <4>. QED
          BY <3>1, <4>1, <4>2 DEF BarrierInv, TypeInv
      <3>. QED
        BY <3>1, <3>2, <3>3 DEF BarrierInv
    <2>3. CASE activate
      BY <2>3 DEF activate, BarrierInv, input, taskVars, Valid, Aperiodic
    <2>4. CASE main = "create" /\ i = N /\ main' = "activate" /\ UNCHANGED <<parameters, task>>
      BY <2>4 DEF BarrierInv, Valid, Aperiodic, Tasks
    <2>5. CASE main = "create_mouse" /\ main' = "create" /\ i' = 0
               /\ UNCHANGED <<parameters, task, activate_tasks>>
      BY <2>5 DEF BarrierInv, Activated, Tasks
    <2>. QED
      BY <2>1, <2>2, <2>3, <2>4, <2>5 DEF MainSteps, threads, BarrierInv, Activated, Valid, Aperiodic
  <1>2. ASSUME NEW t \in Tasks, task_thread(t) PROVE BarrierInv'
    <2>. PICK place \in Places :
           /\ place # "none"
           /\ task' = [task EXCEPT ![t] = place] \/ task' = task
           /\ UNCHANGED <<parameters, main, i>>
           /\ \/ Activated(t) /\ activate_tasks' = activate_tasks
              \/ place = "exited" /\ activate_tasks' = activate_tasks
              \/ activate_tasks > 0 /\ task[t] = "start"
              \/ task' = task /\ activate_tasks' = activate_tasks
      BY <1>2, ThreadSteps DEF reject_event, wait_activation, load_count, store_count, Goes, shared,
                               Places, Activated
    <2>1. \A u \in Tasks : task[u] # "none" => task'[u] # "none"
      BY DEF TypeInv
    <2>2. main \in {"create_mouse", "create"} =>
            activate_tasks' = 0 /\ \A u \in Tasks : ~Activated(u)'
      BY DEF BarrierInv, Activated, TypeInv, Places
    <2>. QED
      BY <2>1, <2>2 DEF BarrierInv, Valid, Aperiodic
  <1>. QED
    BY <1>1, <1>2

LEMMA TasksAlways == Spec => [](TypeInv /\ BarrierInv)
  BY TypeInit, TypeStep, BarrierInit, BarrierStep, PTL DEF Spec

LEMMA BarrierImplies == BarrierInv => BarrierHolds
  BY DEF BarrierInv, BarrierHolds

\* No task starts its work before every task has a thread, for any number of
\* tasks and whatever they are.
THEOREM BarrierCorrect == Spec => []BarrierHolds
  BY TasksAlways, BarrierImplies, PTL

-----------------------------------------------------------------------------
(* The counters: a task is counted by the step that makes it wait, and it  *)
(* waits for ever.  What a task has read of a counter, and others may have *)
(* incremented since, is no more than the tasks that wait.                 *)

CountInv ==
  /\ CountsOnlyWaiting
  /\ \A t \in Tasks, b \in Clicks :
       task[t] = "store" /\ parameters[t] = b => loaded[t] =< Cardinality(Waiting(b))

\* Sets of tasks are finite.
LEMMA FiniteTasks ==
  ASSUME NEW S \in SUBSET Tasks
  PROVE  IsFiniteSet(S) /\ Cardinality(S) \in Nat
  <1>1. IsFiniteSet(Tasks)
    BY InputAssumption, FS_Interval DEF Tasks
  <1>. QED
    BY <1>1, FS_Subset, FS_CardinalityType

LEMMA CountInit == Init => CountInv
  <1>. SUFFICES ASSUME Init PROVE CountInv
    OBVIOUS
  <1>1. ASSUME NEW b \in Clicks PROVE n_clicks[b] =< Cardinality(Waiting(b))
    <2>1. Cardinality(Waiting(b)) \in Nat
      BY FiniteTasks DEF Waiting
    <2>. QED
      BY <2>1 DEF Init
  <1>. QED
    BY <1>1 DEF CountInv, CountsOnlyWaiting, Init

\* Tasks that wait do so for ever.
LEMMA WaitingGrows ==
  ASSUME TypeInv, BarrierInv, [Next]_vars, NEW b
  PROVE  /\ parameters' = parameters
         /\ Waiting(b) \subseteq Waiting(b)'
         /\ Cardinality(Waiting(b)) =< Cardinality(Waiting(b)')
  <1>1. parameters' = parameters /\ \A t \in Tasks : task[t] = "wait" => task'[t] = "wait"
    <2>1. CASE \A t \in Tasks : ~task_thread(t)
      <3>1. MainSteps
        BY <2>1, OtherSteps
      <3>2. CASE create_task
        BY <3>2 DEF create_task, BarrierInv, Activated, TypeInv, Tasks, input
      <3>. QED
        BY <3>1, <3>2 DEF MainSteps, threads, activate, input, taskVars
    <2>2. ASSUME NEW t \in Tasks, task_thread(t)
          PROVE  parameters' = parameters /\ \A u \in Tasks : task[u] = "wait" => task'[u] = "wait"
      BY <2>2, ThreadSteps DEF reject_event, wait_activation, load_count, store_count, Goes, TypeInv
    <2>. QED
      BY <2>1, <2>2
  <1>2. Waiting(b) \subseteq Waiting(b)'
    BY <1>1 DEF Waiting
  <1>. QED
    BY <1>1, <1>2, FiniteTasks, FS_Subset DEF Waiting

LEMMA CountStep == TypeInv /\ BarrierInv /\ CountInv /\ [Next]_vars => CountInv'
  <1>. SUFFICES ASSUME TypeInv, BarrierInv, CountInv, [Next]_vars, NEW b \in Clicks
                PROVE  /\ n_clicks'[b] =< Cardinality(Waiting(b)')
                       /\ \A t \in Tasks : task'[t] = "store" /\ parameters'[t] = b
                            => loaded'[t] =< Cardinality(Waiting(b)')
    BY DEF CountInv, CountsOnlyWaiting
  <1>. DEFINE waits == Cardinality(Waiting(b))
              Goal == /\ n_clicks'[b] =< waits'
                      /\ \A t \in Tasks : task'[t] = "store" /\ parameters'[t] = b => loaded'[t] =< waits'
  <1>w. waits \in Nat /\ waits' \in Nat /\ waits =< waits'
    <2>1. Waiting(b) \in SUBSET Tasks /\ Waiting(b)' \in SUBSET Tasks
      BY DEF Waiting
    <2>. QED
      BY <2>1, FiniteTasks, WaitingGrows
  <1>p. parameters' = parameters
    BY WaitingGrows
  \* What was true of the old counter and of what tasks have read still is.
  <1>n. n_clicks[b] \in Nat /\ n_clicks[b] =< waits
    BY DEF CountInv, CountsOnlyWaiting, TypeInv
  <1>r. ASSUME NEW t \in Tasks, task[t] = "store", parameters[t] = b
        PROVE  loaded[t] \in Nat /\ loaded[t] =< waits
    BY <1>r DEF CountInv, TypeInv
  <1>. HIDE DEF waits
  \* A step that changes no counter and lets no task read one.
  <1>1. ASSUME n_clicks' = n_clicks,
               \A t \in Tasks : task'[t] = "store" => task[t] = "store" /\ loaded'[t] = loaded[t]
        PROVE  Goal
    BY <1>1, <1>w, <1>n, <1>r, <1>p
  <1>2. ASSUME \A t \in Tasks : ~task_thread(t) PROVE Goal
    <2>1. MainSteps
      BY <1>2, OtherSteps
    <2>2. CASE create_task
      BY <1>1, <2>2 DEF create_task, shared, TypeInv, Tasks
    <2>3. CASE activate
      BY <1>1, <2>3 DEF activate, taskVars
    <2>. QED
      BY <1>1, <2>1, <2>2, <2>3 DEF MainSteps, threads
  <1>3. ASSUME NEW t \in Tasks, load_count(t) PROVE Goal
    <2>1. /\ n_clicks' = n_clicks
          /\ loaded' = [loaded EXCEPT ![t] = n_clicks[parameters[t]]]
          /\ task' = [task EXCEPT ![t] = "store"]
      BY <1>3 DEF load_count, Goes, shared
    <2>2. ASSUME NEW u \in Tasks, task'[u] = "store", parameters'[u] = b PROVE loaded'[u] =< waits'
      <3>1. CASE u = t
        BY <2>1, <2>2, <3>1, <1>w, <1>n, <1>p DEF TypeInv
      <3>2. CASE u # t
        BY <2>1, <2>2, <3>2, <1>w, <1>r, <1>p DEF TypeInv
      <3>. QED
        BY <3>1, <3>2
    <2>. QED
      BY <2>1, <2>2, <1>w, <1>n
  <1>4. ASSUME NEW t \in Tasks, store_count(t) PROVE Goal
    <2>1. /\ task[t] = "store" /\ task' = [task EXCEPT ![t] = "wait"]
          /\ n_clicks' = [n_clicks EXCEPT ![parameters[t]] = loaded[t] + 1]
          /\ loaded' = loaded
      BY <1>4 DEF store_count, Goes
    <2>2. parameters[t] = b => waits' = waits + 1
      <3>. SUFFICES ASSUME parameters[t] = b PROVE waits' = waits + 1
        OBVIOUS
      <3>1. Waiting(b)' = Waiting(b) \cup {t} /\ t \notin Waiting(b) /\ Waiting(b) \in SUBSET Tasks
        BY <2>1, <1>p DEF Waiting, TypeInv
      <3>. QED
        BY <3>1, FiniteTasks, FS_AddElement DEF waits
    <2>3. n_clicks'[b] =< waits'
      BY <2>1, <2>2, <1>w, <1>n, <1>r DEF TypeInv
    <2>4. ASSUME NEW u \in Tasks, task'[u] = "store", parameters'[u] = b PROVE loaded'[u] =< waits'
      BY <2>1, <2>4, <1>w, <1>r, <1>p DEF TypeInv
    <2>. QED
      BY <2>3, <2>4
  <1>5. ASSUME NEW t \in Tasks, task_thread(t), ~load_count(t), ~store_count(t) PROVE Goal
    <2>1. n_clicks' = n_clicks /\ loaded' = loaded
      BY <1>5, ThreadSteps DEF reject_event, wait_activation, shared
    <2>2. \A u \in Tasks : task'[u] = "store" => task[u] = "store"
      BY <1>5, ThreadSteps DEF reject_event, wait_activation, Goes, TypeInv
    <2>. QED
      BY <1>1, <2>1, <2>2
  <1>. QED
    BY <1>2, <1>3, <1>4, <1>5 DEF waits

LEMMA CountAlways == Spec => [](TypeInv /\ BarrierInv /\ CountInv)
  BY TasksAlways, CountInit, CountStep, PTL DEF Spec

\* The handler never counts a task that does not wait, for any number of
\* tasks, however their increments of the shared counters interleave.
THEOREM CountCorrect == Spec => []CountsOnlyWaiting
  <1>1. CountInv => CountsOnlyWaiting
    BY DEF CountInv
  <1>. QED
    BY <1>1, CountAlways, PTL

-----------------------------------------------------------------------------
(* The tokens.  The handler counts down no counter but its own, j: although *)
(* it reads n_clicks anew for each token, and although a lost update can    *)
(* make n_clicks smaller meanwhile, it stops at the tasks that wait.        *)

Asking(b) == {t \in Tasks : parameters[t] = b}

\* The tokens that button b has given rise to, and as many as it may have given
\* rise to by the end of the click that it is in.
Given(b) == click_sem[b] + woken[b]
Allowed(b) == clicks[b] * Cardinality(Asking(b))

WakesInv ==
  /\ j \in Nat
  /\ click_sem \in [Clicks -> Nat] /\ woken \in [Clicks -> Nat] /\ clicks \in [Clicks -> Nat]
  /\ \A b \in Clicks :
       /\ Given(b) =< Allowed(b)
       /\ mouse = b =>
            j =< Cardinality(Asking(b)) /\ Given(b) + Cardinality(Asking(b)) =< Allowed(b) + j
       /\ mouse = "handler" /\ current_event = b =>
            Given(b) + Cardinality(Asking(b)) =< Allowed(b)

LEMMA AskingType == \A b : Cardinality(Asking(b)) \in Nat
  BY FiniteTasks DEF Asking

\* The counter is within the tasks that ask for the button.
LEMMA CountedAsk ==
  ASSUME TypeInv, CountsOnlyWaiting, NEW b \in Clicks
  PROVE  n_clicks[b] \in Nat /\ n_clicks[b] =< Cardinality(Asking(b))
  <1>1. Waiting(b) \subseteq Asking(b) /\ Asking(b) \in SUBSET Tasks
    BY DEF Waiting, Asking
  <1>2. Cardinality(Waiting(b)) =< Cardinality(Asking(b))
        /\ Cardinality(Waiting(b)) \in Nat /\ Cardinality(Asking(b)) \in Nat
    BY <1>1, FiniteTasks, FS_Subset
  <1>. QED
    BY <1>2 DEF CountsOnlyWaiting, TypeInv

LEMMA WakesInit == Init => WakesInv
  <1>. SUFFICES ASSUME Init PROVE WakesInv
    OBVIOUS
  <1>1. ASSUME NEW b \in Clicks PROVE Given(b) =< Allowed(b) /\ mouse # b /\ mouse # "handler"
    BY AskingType DEF Init, Given, Allowed, Clicks
  <1>. QED
    BY <1>1 DEF WakesInv, Init

\* Steps that neither post nor take a token, nor begin or end a click.
LEMMA WakesElsewhere ==
  ASSUME WakesInv, UNCHANGED <<parameters, click_sem, woken, clicks, mouse, j>>,
         current_event' \in {current_event, NaN}
  PROVE  WakesInv'
  <1>1. \A b \in Clicks : Given(b)' = Given(b) /\ Allowed(b)' = Allowed(b) /\ Asking(b)' = Asking(b)
    BY DEF Given, Allowed, Asking
  <1>2. NaN \notin Clicks
    BY DEF NaN, Clicks
  <1>. QED
    BY <1>1, <1>2 DEF WakesInv

LEMMA WakesStep == TypeInv /\ CountInv /\ WakesInv /\ [Next]_vars => WakesInv'
  <1>. SUFFICES ASSUME TypeInv, CountInv, WakesInv, [Next]_vars PROVE WakesInv'
    OBVIOUS
  <1>. DEFINE asks(b) == Cardinality(Asking(b))
  <1>t. \A b \in Clicks :
          /\ asks(b) \in Nat /\ Given(b) \in Nat /\ clicks[b] \in Nat /\ Allowed(b) \in Nat
          /\ n_clicks[b] =< asks(b) /\ n_clicks[b] \in Nat
    <2>1. \A b \in Clicks : asks(b) \in Nat /\ n_clicks[b] \in Nat /\ n_clicks[b] =< asks(b)
      BY AskingType, CountedAsk DEF CountInv
    <2>. HIDE DEF asks
    <2>2. \A b \in Clicks : clicks[b] * asks(b) \in Nat
      BY <2>1 DEF WakesInv
    <2>. QED
      BY <2>1, <2>2 DEF Given, Allowed, WakesInv, asks
  <1>e. NaN \notin Clicks /\ "handler" \notin Clicks /\ "read" \notin Clicks /\ NaN # "handler"
    BY DEF NaN, Clicks
  <1>1. CASE main_thread \/ sighandler_sigalarm \/ UNCHANGED vars
    <2>1. UNCHANGED <<parameters, click_sem, woken, clicks, j, current_event>>
          /\ mouse' \in {mouse, "open", "none"}
      BY <1>1 DEF main_thread, create_mouse_thread, create_task, create_fails, all_created, activate, set_timer,
                  join, join_crashes, all_joined, join_mouse, sighandler_sigalarm, exit_process, vars,
                  input, mainVars, taskVars, mouseVars, shared
    <2>2. \A b \in Clicks : Given(b)' = Given(b) /\ Allowed(b)' = Allowed(b) /\ Asking(b)' = Asking(b)
      BY <2>1 DEF Given, Allowed, Asking
    <2>3. {"open", "none"} \cap (Clicks \cup {"handler"}) = {}
      BY DEF Clicks
    <2>. QED
      BY <2>1, <2>2, <2>3 DEF WakesInv
  <1>2. ASSUME NEW t \in Tasks, task_thread(t), ~wait_click(t) PROVE WakesInv'
    <2>1. UNCHANGED <<parameters, click_sem, woken, clicks, mouse, j>> /\ current_event' \in {current_event, NaN}
      BY <1>2 DEF task_thread, reject_event, wait_activation, reset_event, load_count, store_count,
                  input, mouseVars, shared
    <2>. QED
      BY <2>1, WakesElsewhere
  <1>3. ASSUME NEW t \in Tasks, wait_click(t) PROVE WakesInv'
    <2>. DEFINE p == parameters[t]
    <2>1. /\ p \in Clicks /\ click_sem[p] > 0
          /\ click_sem' = [click_sem EXCEPT ![p] = @ - 1]
          /\ woken' = [woken EXCEPT ![p] = @ + 1]
          /\ UNCHANGED <<parameters, clicks, mouse, j, current_event>>
      BY <1>3 DEF wait_click, TypeInv, input, mouseVars
    <2>. HIDE DEF p
    <2>2. /\ click_sem' \in [Clicks -> Nat] /\ woken' \in [Clicks -> Nat]
          /\ \A b \in Clicks : Given(b)' = Given(b)
      BY <2>1 DEF WakesInv, Given
    <2>3. \A b \in Clicks : Allowed(b)' = Allowed(b) /\ Asking(b)' = Asking(b)
      BY <2>1 DEF Allowed, Asking
    <2>. QED
      BY <2>1, <2>2, <2>3 DEF WakesInv
  <1>4. CASE open_device \/ open_fails \/ read_last_event
    <2>1. UNCHANGED <<parameters, click_sem, woken, clicks, j, current_event>>
          /\ mouse' \in {mouse, "read", "done"}
      BY <1>4 DEF open_device, open_fails, read_last_event, Moves, exit_process, input, taskVars, mouseVars, shared
    <2>2. \A b \in Clicks : Given(b)' = Given(b) /\ Allowed(b)' = Allowed(b) /\ Asking(b)' = Asking(b)
      BY <2>1 DEF Given, Allowed, Asking
    <2>3. "read" \notin Clicks /\ "done" \notin Clicks
      BY DEF Clicks
    <2>. QED
      BY <2>1, <2>2, <2>3 DEF WakesInv
  <1>5. ASSUME NEW b \in Clicks, read_click(b) PROVE WakesInv'
    <2>1. /\ mouse' = "handler" /\ current_event' = b
          /\ clicks' = [clicks EXCEPT ![b] = @ + 1]
          /\ UNCHANGED <<parameters, click_sem, woken, j>>
      BY <1>5 DEF read_click, Moves, input, taskVars
    <2>2. \A c \in Clicks : Given(c)' = Given(c) /\ Asking(c)' = Asking(c)
      BY <2>1 DEF Given, Asking
    <2>3. /\ clicks' \in [Clicks -> Nat]
          /\ \A c \in Clicks : clicks'[c] = IF c = b THEN clicks[b] + 1 ELSE clicks[c]
      BY <2>1, <1>t DEF WakesInv
    <2>4. \A c \in Clicks : Allowed(c)' = IF c = b THEN Allowed(b) + asks(b) ELSE Allowed(c)
      <3>1. (clicks[b] + 1) * asks(b) = clicks[b] * asks(b) + asks(b)
        <4>. HIDE DEF asks
        <4>1. \A n, m \in Nat : (n + 1) * m = n * m + m
          OBVIOUS
        <4>. QED
          BY <1>t, <4>1
      <3>. QED
        BY <2>2, <2>3, <3>1 DEF Allowed
    <2>. HIDE DEF asks
    <2>5. \A c \in Clicks : Given(c) =< Allowed(c)
      BY DEF WakesInv
    <2>. QED
      BY <2>1, <2>2, <2>3, <2>4, <2>5, <1>t, <1>e DEF WakesInv, asks
  <1>6. CASE switch_event
    <2>1. /\ mouse = "handler" /\ mouse' = (IF current_event = NaN THEN "read" ELSE current_event) /\ j' = 0
          /\ UNCHANGED <<parameters, click_sem, woken, clicks, current_event>>
      BY <1>6 DEF switch_event, input, taskVars, shared
    <2>2. \A c \in Clicks : Given(c)' = Given(c) /\ Allowed(c)' = Allowed(c) /\ Asking(c)' = Asking(c)
      BY <2>1 DEF Given, Allowed, Asking
    <2>3. \A c \in Clicks : mouse' = c => current_event = c
      BY <2>1, <1>e
    <2>4. mouse' = "handler" => current_event' \notin Clicks
      BY <2>1, <1>e
    <2>. QED
      BY <2>1, <2>2, <2>3, <2>4, <1>t DEF WakesInv
  <1>7. ASSUME NEW b \in Clicks, post_click(b) PROVE WakesInv'
    <2>1. /\ mouse = b /\ mouse' = b /\ j < n_clicks[b] /\ j' = j + 1
          /\ click_sem' = [click_sem EXCEPT ![b] = @ + 1]
          /\ UNCHANGED <<parameters, woken, clicks, current_event>>
      BY <1>7 DEF post_click, input, taskVars
    <2>2. /\ click_sem' \in [Clicks -> Nat]
          /\ \A c \in Clicks : Given(c)' = IF c = b THEN Given(b) + 1 ELSE Given(c)
      BY <2>1 DEF WakesInv, Given
    <2>3. \A c \in Clicks : Allowed(c)' = Allowed(c) /\ Asking(c)' = Asking(c)
      BY <2>1 DEF Allowed, Asking
    <2>4. j \in Nat /\ j =< asks(b) /\ Given(b) + asks(b) =< Allowed(b) + j
      BY <2>1 DEF WakesInv
    <2>5. j' \in Nat /\ j' =< asks(b) /\ Given(b)' + asks(b) =< Allowed(b) + j' /\ Given(b)' =< Allowed(b)
      <3>. HIDE DEF asks
      <3>. QED
        BY <2>1, <2>2, <2>4, <1>t
    <2>. QED
      BY <2>1, <2>2, <2>3, <2>5, <1>e DEF WakesInv
  <1>8. ASSUME NEW b \in Clicks, all_posted(b) PROVE WakesInv'
    <2>1. /\ mouse' = "read"
          /\ UNCHANGED <<parameters, click_sem, woken, clicks, j>>
      BY <1>8 DEF all_posted, Moves, input, taskVars
    <2>2. \A c \in Clicks : Given(c)' = Given(c) /\ Allowed(c)' = Allowed(c) /\ Asking(c)' = Asking(c)
      BY <2>1 DEF Given, Allowed, Asking
    <2>. QED
      BY <2>1, <2>2, <1>e DEF WakesInv
  <1>. QED
    BY <1>1, <1>2, <1>3, <1>4, <1>5, <1>6, <1>7, <1>8
    DEF Next, task_thread, mouse_thread, mouse_event_handler

\* A button wakes its tasks at most once per click and task, for any number of
\* tasks, kinds and clicks, however the unlocked accesses interleave.
THEOREM WakesCorrect == Spec => []WakesAreBounded
  <1>1. WakesInv => WakesAreBounded
    BY DEF WakesInv, WakesAreBounded, Given, Allowed, Asking
  <1>. QED
    BY <1>1, CountAlways, WakesInit, WakesStep, PTL DEF Spec

-----------------------------------------------------------------------------
(* Why the tasks go on: what a run checks as a liveness property rests on  *)
(* these invariants.  Each task that is activated has taken one token, and *)
(* a task that gives up has taken none.                                    *)

Active == {t \in Tasks : Activated(t)}
TokensKept ==
  /\ main = "activate" => activate_tasks + Cardinality(Active) = i
  /\ main \notin {"create_mouse", "create", "activate"} => activate_tasks + Cardinality(Active) = N

\* Once main has posted its tokens, there is one for every task that still
\* waits to be activated, whatever the others have asked for.
Starting == {t \in Tasks : Valid(t) /\ task[t] = "start"}
TokensSuffice ==
  main \notin {"create_mouse", "create", "activate"} => Cardinality(Starting) =< activate_tasks

\* A token that the handler has posted finds a task that waits for it.
TokensHaveTakers == \A b \in Clicks : click_sem[b] > 0 => Waiting(b) # {}

LEMMA TokensInit == Init => TokensKept /\ TokensHaveTakers
  BY DEF Init, TokensKept, TokensHaveTakers

LEMMA TokensStep == TypeInv /\ BarrierInv /\ TokensKept /\ [Next]_vars => TokensKept'
  <1>. SUFFICES ASSUME TypeInv, BarrierInv, TokensKept, [Next]_vars PROVE TokensKept'
    OBVIOUS
  <1>. DEFINE actives == Cardinality(Active)
  <1>0. /\ Active \in SUBSET Tasks /\ actives \in Nat
        /\ N \in Nat /\ i \in 0 .. N /\ activate_tasks \in Nat
    BY FiniteTasks, InputAssumption DEF Active, TypeInv
  <1>1. ASSUME \A t \in Tasks : ~task_thread(t) PROVE TokensKept'
    <2>1. MainSteps
      BY <1>1, OtherSteps
    <2>2. CASE create_task
      BY <2>2 DEF create_task, TokensKept
    <2>3. CASE activate
      <3>1. Active' = Active
        BY <2>3 DEF activate, taskVars, Active, Activated
      <3>. QED
        BY <1>0, <2>3, <3>1 DEF activate, TokensKept
    <2>4. CASE main = "create" /\ i = N /\ main' = "activate" /\ i' = 0
               /\ UNCHANGED <<parameters, task, loaded, n_clicks, activate_tasks>>
      <3>1. Active' = {} /\ activate_tasks' = 0
        BY <2>4 DEF BarrierInv, Active, Activated
      <3>. QED
        BY <2>4, <3>1, FS_EmptySet DEF TokensKept
    <2>5. CASE main = "create_mouse" /\ main' = "create"
      BY <2>5 DEF TokensKept
    <2>6. CASE \/ UNCHANGED threads
               \/ main \in {"set_timer", "join"} /\ main' \in {"join", "join_mouse"}
                  /\ UNCHANGED <<parameters, task, loaded, n_clicks, activate_tasks>>
      <3>1. Active' = Active
        BY <2>6 DEF threads, Active, Activated
      <3>. QED
        BY <2>6, <3>1 DEF threads, TokensKept
    <2>. QED
      BY <2>1, <2>2, <2>3, <2>4, <2>5, <2>6 DEF MainSteps
  <1>2. ASSUME NEW t \in Tasks, task_thread(t) PROVE TokensKept'
    <2>1. UNCHANGED <<main, i>>
      BY <1>2, ThreadSteps
    <2>2. CASE wait_activation(t)
      <3>1. /\ task[t] = "start" /\ task'[t] \in {"reset", "periodic"}
            /\ \A u \in Tasks \ {t} : task'[u] = task[u]
            /\ activate_tasks' = activate_tasks - 1
        BY <2>2 DEF wait_activation, Goes, TypeInv
      <3>2. Active' = Active \cup {t} /\ t \notin Active
        BY <3>1 DEF Active, Activated
      <3>3. Cardinality(Active') = actives + 1
        BY <1>0, <3>2, FiniteTasks, FS_AddElement
      <3>4. TokensKept => activate_tasks' + Cardinality(Active') = activate_tasks + actives
        BY <1>0, <3>1, <3>3
      <3>. QED
        BY <2>1, <3>4 DEF TokensKept
    <2>3. CASE ~wait_activation(t)
      <3>1. activate_tasks' = activate_tasks
        BY <1>2, <2>3, ThreadSteps DEF reject_event, load_count, store_count, shared
      <3>2. PICK place \in Places :
              /\ task' = [task EXCEPT ![t] = place]
              /\ place \in {"periodic", "reset", "load", "store", "wait"} <=> Activated(t)
        <4>1. task[t] \in Places /\ task = [task EXCEPT ![t] = task[t]]
          BY DEF TypeInv
        <4>. QED
          BY <1>2, <2>3, <4>1, ThreadSteps
             DEF reject_event, load_count, store_count, Goes, Activated, Places, TypeInv
      <3>3. \A u \in Tasks : Activated(u)' = Activated(u)
        BY <3>2 DEF Activated, TypeInv
      <3>4. Active' = Active
        BY <3>3 DEF Active
      <3>. QED
        BY <2>1, <3>1, <3>4 DEF TokensKept
    <2>. QED
      BY <2>2, <2>3
  <1>. QED
    BY <1>1, <1>2

\* assignment_1.c:328: no task that asks for something that exists is left
\* behind at the barrier, for any number of tasks of any kinds.
THEOREM TokensCorrect == Spec => []TokensSuffice
  <1>1. TypeInv /\ TokensKept => TokensSuffice
    <2>. SUFFICES ASSUME TypeInv, TokensKept, main \notin {"create_mouse", "create", "activate"}
                  PROVE  Cardinality(Starting) =< activate_tasks
      BY DEF TokensSuffice
    <2>1. /\ IsFiniteSet(Active) /\ IsFiniteSet(Starting)
          /\ Cardinality(Active) \in Nat /\ Cardinality(Starting) \in Nat
      BY FiniteTasks DEF Active, Starting
    <2>2. Active \cap Starting = {}
      BY DEF Active, Starting, Activated
    <2>3. Cardinality(Active \cup Starting) = Cardinality(Active) + Cardinality(Starting)
      <3>1. Cardinality(Active \cup Starting)
              = Cardinality(Active) + Cardinality(Starting) - Cardinality(Active \cap Starting)
        BY <2>1, FS_Union
      <3>2. Cardinality(Active \cap Starting) = 0
        BY <2>2, FS_EmptySet
      <3>. QED
        BY <2>1, <3>1, <3>2
    <2>4. IsFiniteSet(Tasks) /\ Cardinality(Tasks) = N /\ N \in Nat
      BY InputAssumption, FS_Interval DEF Tasks
    <2>5. Cardinality(Active \cup Starting) =< N
      BY <2>4, FS_Subset DEF Active, Starting
    <2>. QED
      BY <2>1, <2>3, <2>4, <2>5 DEF TokensKept, TypeInv
  <1>. QED
    BY <1>1, TasksAlways, TokensInit, TokensStep, PTL DEF Spec

LEMMA TakersStep ==
  TypeInv /\ BarrierInv /\ CountInv /\ WakesInv /\ TokensHaveTakers /\ [Next]_vars => TokensHaveTakers'
  <1>. SUFFICES ASSUME TypeInv, BarrierInv, CountInv, WakesInv, TokensHaveTakers, [Next]_vars,
                       NEW b \in Clicks, click_sem'[b] > 0
                PROVE  Waiting(b)' # {}
    BY DEF TokensHaveTakers
  <1>1. Waiting(b) \subseteq Waiting(b)'
    BY WaitingGrows
  <1>2. ASSUME click_sem[b] > 0 PROVE Waiting(b)' # {}
    BY <1>1, <1>2 DEF TokensHaveTakers
  <1>3. CASE \E c \in Clicks : post_click(c)
    <2>1. PICK c \in Clicks : post_click(c)
      BY <1>3
    <2>2. CASE c = b
      <3>1. j \in Nat /\ j < n_clicks[b] /\ n_clicks[b] \in Nat
        BY <2>1, <2>2 DEF post_click, WakesInv, TypeInv
      <3>2. n_clicks[b] =< Cardinality(Waiting(b)) /\ Cardinality(Waiting(b)) \in Nat
        BY FiniteTasks DEF CountInv, CountsOnlyWaiting, Waiting
      <3>3. Waiting(b) # {}
        BY <3>1, <3>2, FS_EmptySet
      <3>. QED
        BY <1>1, <3>3
    <2>3. CASE c # b
      BY <1>2, <2>1, <2>3 DEF post_click, WakesInv
    <2>. QED
      BY <2>2, <2>3
  <1>4. CASE \E t \in Tasks : wait_click(t)
    <2>1. PICK t \in Tasks : wait_click(t)
      BY <1>4
    <2>2. parameters[t] \in Clicks
      BY <2>1 DEF wait_click, TypeInv
    <2>3. click_sem'[b] =< click_sem[b] /\ click_sem[b] \in Nat /\ click_sem'[b] \in Int
      BY <2>1, <2>2 DEF wait_click, WakesInv
    <2>4. click_sem[b] > 0
      BY <2>3
    <2>. QED
      BY <1>2, <2>4
  <1>5. CASE ~(\E c \in Clicks : post_click(c)) /\ ~(\E t \in Tasks : wait_click(t))
    <2>1. click_sem' = click_sem
      <3>1. CASE main_thread \/ sighandler_sigalarm
        BY <3>1 DEF main_thread, create_mouse_thread, create_task, create_fails, all_created, activate,
                    set_timer, join, join_crashes, all_joined, join_mouse, sighandler_sigalarm,
                    exit_process, shared
      <3>2. CASE mouse_thread
        BY <1>5, <3>2 DEF mouse_thread, open_device, open_fails, read_click, read_last_event,
                    mouse_event_handler, switch_event, all_posted, exit_process, shared
      <3>3. ASSUME NEW t \in Tasks, task_thread(t) PROVE click_sem' = click_sem
        BY <1>5, <3>3 DEF task_thread, reject_event, wait_activation, reset_event, load_count,
                    store_count, shared
      <3>4. CASE UNCHANGED vars
        BY <3>4 DEF vars
      <3>. QED
        BY <3>1, <3>2, <3>3, <3>4 DEF Next
    <2>. QED
      BY <1>2, <2>1
  <1>. QED
    BY <1>3, <1>4, <1>5

\* assignment_1.c:193: no token is posted that nobody is there to take, for
\* any number of tasks of any kinds, and however clicks and registrations
\* interleave.
THEOREM TakersCorrect == Spec => []TokensHaveTakers
  BY CountAlways, WakesInit, WakesStep, TokensInit, TakersStep, PTL DEF Spec

=============================================================================
