# LinuxKernelModules in TLA+

Specifications, model-checking runs and proofs for the kernel modules and user
programs of this repository. Paths are relative to the repository's root.

## The system

The repository holds independent exercises for the Intel Galileo Gen 2 (one
core) and for a PC kernel. Each part is small; what is hard about them is what
happens between their pieces.

| part | source | state | operations |
|---|---|---|---|
| rbtdevice driver | `RBTree_device_driver/rbt_drv.c`, copied in `Kprobe_samples/rbtdevice_drv.c` | a red-black tree of kmalloc'ed nodes, `read_from_maximum` | init, exit, open, release, write, read, ioctl |
| kprobe driver | `Kprobe_samples/KProbe.c` | one `struct kprobe`, one trace record | init, exit, open, close, write (register, unregister), read; the kernel calls `Post_Handler` |
| task program | `ESP-team09-assgn01/assignment_1.c` | three semaphores, two counters, `current_event`, threads | main, the alarm, periodic and aperiodic tasks, a mouse thread and a signal handler |
| LED cycle programs | `ESP-team09-assgn02/RGBLed_1.c`, `RGBLed_2.c` | `cycle_stage`, duty cycle, three pins, two threads | software PWM, mouse clicks, Ctrl+C |
| RGB LED driver | `ESP-team09-assgn03/RGBLed.c` | one hrtimer, `exit`, `on_time`, the device structure, pins | init, exit, open, write, CONFIG, close; the timer's interrupt |
| MAX7219 driver | `ESP-Team09-Assgn04/spidriver.c`, device module `spidevice.c` | two global arrays, pin 15, `spidev`, the chip's registers | init, exit, probe, remove, open, release, ioctl, write; a kernel thread per write |
| WS2812 driver | `WS2812_SPI_driver/WS2812_drv.c`, device module `WS2812_dev.c` | a frame buffer on the stack, `spidev` | init, exit, probe, remove, open, release, ioctl, write |
| distance-controlled display | `ESP-Team09-Assgn04/application1.c` | `pattern`, two exit flags, the chip, three threads | main, `display_animation`, `get_distance`, `cleanup` on Ctrl+C |
| MAX7219 clients | `application2.c`, `application3.c` | the global `sequence`, three threads | write sequences; Ctrl+C runs `cleanup` in all threads |
| LED test program | `ESP-team09-assgn03/test.c` | `cycle_stage`, two threads | the cycle over the RGB LED driver, clicks, Ctrl+C |
| sample clients | `rbtuser_test.c`, `Ktest.c`, `sample_test.c` | | call the drivers |
| helpers | `Gpio_func.c` (twice), `RGBLed_pwm.c`, Makefiles | | sysfs writes; a program its README calls non-working |

How they meet: clients call the drivers through `/dev`; the kprobe driver puts
breakpoints into the rbtdevice driver; a device module and its SPI driver call
each other through the SPI core (probe and remove run inside whichever module
comes or goes last); the kernel calls back (timer interrupt, probe handler,
completion of a transfer, signals). No driver takes a lock.

What is hard, and what must hold:

- **rbtdevice**: any order of calls, loads, unloads and failed allocations must
  keep keys unique and freed memory out of the tree. The driver walks raw
  pointers around rebalancing it does not control.
- **kprobe**: the address is set before the registration, and the process can be
  preempted in between; one struct is registered again and again; a breakpoint
  must always lead to a probe.
- **task program**: threads race on plain counters and on `current_event`; tokens
  of a semaphore do not know whom they are for; the program must start all tasks
  together and must end at its time limit.
- **LED cycle**: `cycle_stage++` and `% 8` race with a reset.
- **RGB LED driver**: one global timer, several openers, an interrupt at any point
  of a call.
- **MAX7219**: threads of several writes share a pin, a bus and two arrays, and
  live longer than the call that started them.
- **application1**: the display and the measuring thread share `pattern`; `cleanup` waits
  for threads by flags, one of which a local variable hides, in whichever thread the
  signal falls; messages are cut out of the tables at odd positions.
- **MAX7219 clients**: Ctrl+C is handled in three threads, one after the other, that
  all write the sequence which one of them may be filling.
- **WS2812**: the window is computed on unsigned ints that wrap around; transfers
  fail half-way; frames of several writes and resets replace each other.
- **SPI modules**: two modules, inserted and removed in any order, each step of
  which can fail.

`PROJECT.json` lists each hazard at its line with the properties that watch it.

## Modules

| module | models | remarks |
|---|---|---|
| `OrderedStore` | what the rbtdevice device promises | abstract: a set of objects, an end to read from |
| `RbtDriver` | `rbt_drv.c` | one action per file operation; the tree is the set of its nodes |
| `RbtDriverProofs` | theorems about `RbtDriver` | |
| `LinuxRbtree` | the kernel's `rb_link_node`, `rb_insert_color`, `rb_erase` | external; pure operators |
| `RbtTree` | the driver's walks over the kernel's tree, `inorder_deletion` | refines `OrderedStore` as well |
| `OneProbe` | what the kprobe device promises processes that take turns | abstract |
| `KProbe` | `KProbe.c` over the kernel's table of probes | `register_kprobe` and its fellows are external |
| `KProbeProofs` | theorems about `KProbe` | |
| `ClickTasks` | `assignment_1.c` | each load, store, post and wait of shared state is a step |
| `ClickTasksProofs` | theorems about `ClickTasks` | |
| `LedCycle` | `RGBLed_1.c` (`program = 1`), `RGBLed_2.c` (`program = 2`), `test.c` (`program = 3`) | the variable `program`, constant during a run, says which |
| `LedCycleProofs` | theorems about `LedCycle` | |
| `RGBLed` | `RGBLed.c` | calls split where an interrupt or another call matters |
| `RGBLedProofs` | theorems about `RGBLed` | |
| `MatrixDisplay` | what the MAX7219 driver promises those who look at the matrix | abstract: one sequence of pictures at a time, then dark |
| `Max7219` | `spidriver.c` once bound, and the chip | the chip is external |
| `MatrixClient` | `application2.c`, `application3.c`, or any client, composed with `Max7219` | the variable `client` says which; what `max7219` checks; refines `MatrixDisplay` |
| `MatrixClientProofs` | theorems about `MatrixClient`, and so about `Max7219` | |
| `DogDisplay` | `application1.c` with its pin helpers from `Gpio_func.c`, and the chip's SHUTDOWN register | |
| `DogDisplayProofs` | theorems about `DogDisplay` | |
| `SpiModules` | init, exit, probe, remove of both SPI drivers and their device modules | the variable `chip` says which pair |
| `SpiModulesProofs` | theorems about `SpiModules` and `Ws2812` | |
| `Ws2812` | the file operations of `WS2812_drv.c`, composed with `SpiModules` | modules come and go between the steps of a write |
| `MC...` | small instances | constants for TLC only |

Names of variables and actions are those of the code. Where one function is
several actions, their names say which part they are (`write_address`,
`write_register`: the two halves of `kprobe_write` with flag 1). Operators
whose comment says "Mutant", or names a mistake, are the same operation with a
plausible bug; nothing in a specification uses them.

A type invariant (`TypeOK`) is stated where a proof rests on it; the runs check what could
be wrong beyond types.

### Correspondence, component by component

**RbtDriver.** `linked` is the set of nodes reachable from `root`, `allocated`
the nodes that kmalloc gave and kfree has not taken back, `rbt_object` their
contents. `rb_search`, `find_minimum` and `find_maximum` are set expressions
here; that the pointer walks compute them is what `RbtTree` checks. The tree is
empty in two dangerous ways: `find_minimum` returns an uninitialised local, and
`rb_insert` passes an uninitialised parent. Both are nondeterministic: the call
may go well, or the kernel goes `wild`, after which nothing is promised (no
action is enabled). `class` models that a failed load leaves its class behind.
Every write allocates a node first, and leaks it unless it inserts it; write
fails when `Addrs` is exhausted, which is how kmalloc's failure enters.

**RbtTree.** `root` holds the real shape: children, colours, the root pointer.
`LinuxRbtree` is the textbook insertion and deletion of `lib/rbtree.c`.
The model follows `Kprobe_samples/rbtdevice_drv.c`, since the other copy has a
misspelt type in its node structure (rbt_drv.c:36).

**KProbe.** `text` is what the instruction at each place really is, `table` what
the kernel's hash table holds, `addr`, `copied` and `head` the fields of the one
`struct kprobe`. A second registration under another address is not noticed by
the kernel: the probe is linked again and its copy of the instruction replaced.
`disabled` is the flag that `unregister_kprobe` leaves in `kp.flags` and that KProbe.c
never clears: a kprobe is armed once per load of the module, and `OneProbe` says so
(`spent`).
`CarefulSpec` restricts the clients, not the driver: a registration only begins
when nothing is registered and nobody else is registering. The rbtdevice driver
stays loaded.

**ClickTasks.** `task[t]`, `main` and `mouse` are program counters; `loaded` is
the value an increment has read; the signal handler runs in the mouse thread.
`woken` is history: the tokens that the tasks of a button have taken so far.
Task types and events are the five kinds that the code tells apart. If the mouse thread
cannot be created nobody notices: no click ever comes.

**LedCycle.** Each load and store of `cycle_stage` and of the durations is a
step, each pin is written on its own. `test.c` differs in three places: it sends a colour
to the driver instead of driving pins (`color` packs it, `enable_display` is how the
driver takes it apart), advances the stage by one load and one store, before it
sleeps, and its cleanup resets the stage and writes it.

**RGBLed.** `pc[p]` is how far the call of process p is. The timer callback is one
action (an interrupt on a single core). `inited` says whether `hrtimer_init` was
ever called: cancelling a timer that was not never returns. Three pins are one
value. `lit` is the colour of an LED at each choice of pins: the callback changes it
only at pins that an open has made outputs (`outputs`), which CONFIG does not do. `data` is the local
variable of a CONFIG, forgotten once it has been used. `shared` is history: two processes
have had the device open at a time, after which only `TimerHasHolder` is promised. A load
that fails is left out: it leaves nothing behind that the module has.

**Max7219.** A thread sends one message in three steps: pin 15 low and the transfer
queued, the transfer shifts the message into the chip (or fails), pin 15 high
latches it. Other threads come in between. `asked` and `shown` are history: what
the thread's write asked for and which patterns it has completed. The history of
a thread is forgotten (`Disturb`) when a second display starts, somebody writes or
changes the patterns while it runs, or one of its own transfers fails: nothing
can be promised of such a display but that it ends. What it leaves behind in the
chip stays, and later displays have to cope with it. A pattern index is always one of
the ten; the code does not check it.

**MatrixDisplay.** One sequence at a time is displayed; each of its pictures is complete
before it is left to be seen and does not change as long as it is, and an end of the
sequence darkens the matrix. Between two pictures (`Draw`) it may look like anything.
`MatrixClient` maps `Max7219` to it: `phase` is which kind of message the undisturbed
thread is at, `wanted` the sequence that it was given, `next` its step in it, `picture`
what the rows of the chip show when the chip is on. While displays disturb each other the
abstract display is `garbled`, and anything may be seen; it recovers with the next display
that starts alone.

**MatrixClient.** `app[t]` is the program counter of the program's threads. A thread that is
interrupted for `cleanup` never returns to what it did, so its counter is simply taken
over. `display_fills` stores the entries one by one, since `cleanup` may write the
array meanwhile. The kernel's display thread of each write is `Max7219`'s. The
measuring thread of application2 has no effect on the display and is a counter only.

**DogDisplay.** `lit` is what SHUTDOWN holds in the chip: pin 15 (`cs`) low and then high
loads what the last transfer has shifted in. `row` is the message at a position of the
tables; the tables are those of the code. `exitted1` does not occur: the global one is
never written. `seen` is the pattern that the display's switch has loaded. `decided`
and `late` are history. The echo polls and their timeouts are the choice in
`change_display_pattern`; `edge_files` counts the files that measurements leave open.

**SpiModules.** `spidev`'s life (`NULL`, allocated, freed), the device number and
its node, the binding, the open files; `wild` when freed memory is written or
freed. A message of the WS2812 follows `spidev` at once, one of the MAX7219 from a thread.
What a write does to the display is in the other modules.

**Ws2812.** A write is as many steps as it sends frames. Between them other processes
write, reset, open and close, and the modules of `SpiModules` come and go: each message
follows the pointer `spidev` again, whose memory is the driver's no more once the device
was removed. `k` and `n` are the locals of each write. A frame is its set of lit LEDs,
computed from the same comparison as the code's bytes, on unsigned ints of `Modulus`
values. `drawn` is history: the count and the position of the window that the ring shows.

## Runs

Passing runs:

| run | asks | bounds |
|---|---|---|
| `rbt_driver` | keys stay unique, memory that is freed stays out of the tree, only unlinked nodes are freed, refines `OrderedStore` | keys -1, 0, 1 (both signs and the special 0), data 0..2, 4 heap cells, 2 processes |
| `rbt_tree` | the tree stays red-black and ordered, nothing is freed twice at unload, refines `OrderedStore` | 7 keys: every reachable tree of up to 7 nodes, which needs every case of rebalancing |
| `click_tasks` | nobody starts early, tokens are bounded and taken, all are activated, the process ends at its limit | 2 tasks of any kinds, 2 clicks, with and without a time limit |
| `rgbled` | the timer has a holder; with one process at a time it is safe, its cycles are complete, colours are shown at pins that are outputs | 2 processes, 2 colours, 2 choices of pins, intensities 0 and 101 (the lowest valid and invalid ones; a cycle's halves sum up alike for all) |
| `led_cycle` | stages, resets, durations, LEDs | three programs, 2 PWM cycles per stage, 3 clicks, duty cycles 0, 45 and 95: both bounds are crossed |
| `max7219` | an undisturbed display shows what was asked, in order, and darkens at its end; every display ends; the programs leave the matrix dark; refines `MatrixDisplay` | 2 kernel threads (a symmetry), 2 rows, 2 patterns (one dark, one different in its rows), sequences of 2, 3 calls of write and ioctl; a free client, whose transfers send 2 bytes, 0 bytes or fail while one thread runs, application2 with 1 sequence before Ctrl+C, application3 |
| `dog_display` | what `cleanup` waits for and leaves; the display stays lit and keeps its direction; Ctrl+C ends the program | the whole tables, 1 file for the edge before none can be opened, 2 Ctrl+C |
| `kprobe` | every breakpoint leads to the probe, refines `OneProbe` | 2 processes, 2 functions with 2 instructions each, 2 callers |
| `spi_modules` | the modules bind in any order, the node follows the binding, nothing but a write with a file kept open across a removal makes the WS2812's driver use freed memory | both chips, 3 processes with open files; no other bound |
| `ws2812` | the window has the asked width, every write ends or meets a device that was removed, while modules come and go | 1 process, all 80 frames; counts -1, 0, 1, 16, 43, 511; transfers of 384 bytes, 0 bytes or an error |

Names of bounds: `MaxClicks` (clicks of a run), `MaxCalls` (calls of write and ioctl of
a run: three let a thread be overlapped and a clean display follow), `MaxSequences`
(sequences that application2 writes: with the one that `cleanup` writes there are two
displays that overlap), `MaxFailing` (threads that run while a transfer fails: one display with
failed transfers may be overlapped afterwards, and clean ones follow; the theorems hold for any
number), `MaxSignals` (Ctrl+C: the second one meets a cleanup that
waits), `MaxFiles` (files for the edge; what matters is that they run out),
`NO_OF_CYCLES` (25 in the code; the loop's first and last pass are enough), `Rows` (8) and
`Steps` (10) of the matrix (two rows differ, so that they are not mixed up; a sequence of two has a pattern,
a change and an end), `Modulus` (2^32; 1024 keeps every case: 43 is the least
count whose bytes overflow, 511 the greatest positive one), `N` (tasks; two
suffice for a race on a counter, and for a task that starts while another waits),
`Addrs` (heap cells; one more than there are keys, so that a leak can happen on a
full tree). `MaxClicks`, `MaxCalls`,
`MaxSequences`, `MaxFailing` and `MaxSignals` cut off behaviours, the others only sizes. In `DogDisplay` a
signal never falls on a new thread that has not made its first step, and one that is
pending counts when a thread takes it.

Violations. Each shows where a comment of the repository says something else than
the code does; the finding in `PROJECT.json` quotes it.

| run | what TLC finds |
|---|---|
| `rbt_tree_exit` | `inorder_deletion` erases a node between its two recursive calls; `rb_erase` rebalances, and nodes that move above the recursion are neither erased nor freed |
| `click_dropped` | a starting task resets `current_event`, and a click that others wait for is dropped |

## Where code and documents differ

What the models reproduce and a reader of the documents would not expect. The
properties are stated so as to hold in spite of these.

- Reading an empty tree follows an uninitialised pointer (rbt_drv.c:207);
  RBTree_device_driver/ReadMe.md:19: "-1 is returned".
- An object with key 0 ends every read that meets it, since the key is compared
  with NULL (rbt_drv.c:207); ReadMe.md:18 allows any key.
- `ioctl` returns nothing in particular (rbt_drv.c:230); ReadMe.md:22: "Otherwise, -1 is
  returned".
- A task that is faster than the handler takes a token meant for another
  (assignment_1.c:193), and two increments of a counter can count one task
  (assignment_1.c:187); assignment_1.c:59: "sem_post to all waiting threads".
- A second open of the RGB LED initialises a timer that is queued (RGBLed.c:219; the
  comment at :213 counts several users). CONFIG's new pins are never set up as
  outputs (:276-278), so that no colour reaches them unless an earlier open has set them up:
  `ColorIsShown` says nothing of other pins. `rmmod` of a module that was never opened cancels a timer that was
  never initialised (:385; :364-365 say that an unused module is removed).
- `test.c` puts red into the lowest of the three bits (test.c:28), the driver takes it from the
  highest (RGBLed.c:131): red and blue are exchanged. Its CONFIG passes the address of the
  pointer to its data (test.c:117), so that the driver reads what follows the pointer on the
  stack, and the driver reads the intensity from the second int (RGBLed.c:279).
- `test.c`'s cleanup resets the stage and writes it as a colour (test.c:90-93); the cycling
  thread may store its own stage in between, or light another colour after it. Closing
  does not darken the LED (RGBLed.c:227).
- A click inside `cycle_stage++` or `% 8` is lost (RGBLed_1.c:165;
  ESP-team09-assgn02/README:10: "reset the cycle"). The cycling thread can light an LED
  after cleanup has switched it off (RGBLed_1.c:195; :192: "cleanup everything").
- A second write changes the sequence of a display that runs (spidriver.c:201;
  ESP-Team09-Assgn04/README:34-35: "display the patterns in sequence"). Messages of two
  threads that overlap are latched twice or not at all (spidriver.c:112). Closing
  the device frees the pins of a display that runs (spidriver.c:247).
- application1's display advances by one byte for messages of two (application1.c:503): every
  other message is the value of one register and the address of the next, and the last
  one reads beyond the table (:474 at count 25). Some of them switch the chip into its
  test mode. `StaysLit` says that none turns it off.
- BACKWARD_2 is never shown (application1.c:486; ESP-Team09-Assgn04/README:20: "Two for forward
  movement of the dog and two for backward"), and a decision that falls between the
  display's load and its store of `pattern` at the end of a frame is lost (:476).
- application1's cleanup clears the rows at the addresses 0, 4, ... 28 (:302). The rows stay
  as they are; the display darkens because 12 and 28 are addresses of SHUTDOWN.
- application1's cleanup does not wait for the display thread, whose flag is a local
  variable (:457), and waits for ever if a second Ctrl+C interrupts the measuring thread
  (:323). Its loop reads plain variables: with optimisation it need not end at all.
- application1 opens the trigger's value for reading only (:405), so that no pulse is sent;
  takes 2000 for microseconds where poll takes milliseconds (:426-427); subtracts times of
  which one may be 0, as unsigned numbers (:443); never uses `delay` (:374). The messages
  of `spi_display_setup` are never loaded by the chip, since pin 15 stays low.
- application2 starts a display every second although one takes more than ten (application2.c:282):
  its displays always overlap. Ctrl+C in the loop that fills the sequence writes a
  sequence without an end (:279), and Ctrl+C before a thread is created kills a thread
  that does not exist (:148).
- After `unregister_kprobe` the kernel keeps the struct disabled, and KProbe.c does not
  clear its flags: a second registration sets no breakpoint (KProbe.c:157, :165). A
  second registration without the first being undone leaves a breakpoint that no call
  takes away. Kprobe_samples/ReadMe.md:11: "A kprobe is registered if the flag is 1, or
  unregistered if 0".
- Reading the kprobe device before any hit succeeds with zeros (KProbe.c:173);
  ReadMe.md:12-13: "If the buffer is empty, -1 is returned". Unloading leaves the device's
  node, class and number (KProbe.c:119; :120: "Kprobe module removed").
- The MAX7219 driver overwrites the device number it later destroys the node by
  (spidriver.c:311): the node outlives the binding (:320: "Device Removed!"), and a later
  unload frees `spidev` twice (:416), as README:43 warns.
- The WS2812's window is cut off at the end of the ring instead of wrapping around
  (WS2812_drv.c:109; WS2812_SPI_driver/ReadMe.md:6-7: "in a circular fashion"). A count so
  large that its bytes overflow lights an arbitrary number of LEDs (:109; ReadMe.md:7:
  "Any value over the maximum number of pixels(16) will be taken as the maximum").

## Environment and fairness

- `CarefulSpec` (`KProbe`) is an assumption about clients: they agree who registers.
  The driver does not enforce it; `Spec` has the other behaviours as well.
- `RbtDriver` takes one call at a time: the driver's header (rbt_drv.c:4) says that it
  does not support concurrent ones.
- Weak fairness is assumed for threads that the kernel schedules (`ClickTasks`' threads,
  `LedCycle`'s cycling thread, `DogDisplay`'s three threads and whatever of cleanup
  they run, `steps(p)` of a `Ws2812` write that is under way, and of none that waits for a
  user), for the interval
  timer of `ClickTasks` and for the hrtimer of `RGBLed`, which expire once they are
  armed. Nothing is assumed of users: clicks, Ctrl+C, calls and loads need not
  happen. `Max7219` needs no fairness: that a display ends is the action property
  `DisplayAdvances`, each step takes a display nearer to its end.
- Runs with `CHECK_DEADLOCK FALSE` model systems that may stop: a process ends,
  or the kernel has gone wild.

## Proofs

Proved by TLAPS for all values of the constants, from the assumptions named in
the modules: keys and data are sets of integers (`DriverAssumption`), colours are
0..7 and intensities integers (`LedAssumption`), function types are 0 and 1 and pids
positive (`KProbeAssumption`), an unsigned int holds more than twice the bytes of a frame
(`Ws2812Assumption`), there are at most 10 tasks
(`InputAssumption`, the code's array), the matrix has at most the chip's 8 rows and what a
client writes has an entry, a pattern or the end, for each step (`Max7219Assumption`), the
bounds are natural numbers.

- **RbtDriverProofs.** `TypeCorrect`; `InvCorrect`: unique keys, no stored deletion
  request (`NoTombstoneStored`); `MemoryCorrect`: no freed memory in the tree. `IInv` is the
  conjunction with the type invariant. The conjuncts need each other: a write inserts
  a node from outside `allocated`, which is a new node of the tree only because linked
  nodes are allocated. `FreesCorrect`: kfree is applied only to what the same call
  unlinks. `DriverImplementsStore`: the refinement; uniqueness of keys is what makes
  replacing an object in place, and taking the one at an end, the same as the
  operation on sets.
- **RGBLedProofs.** `TypeCorrect`; `HolderCorrect`: with any number of processes the
  timer runs only while one of them holds the device. `HolderInv` adds that a process
  inside a call keeps the module loaded; without it a removal could meet a queued
  timer. `TurnsAreSafe` and `CycleCorrect`: as long as one process at a time has the
  device open (`~shared`), the timer is never overwritten, uses only intensities that
  passed the check, and its halves add up to a cycle. `TurnInv` says at which steps of
  a call the timer is stopped, and what its interval is in either half. `RunningCorrect` is
  the safety part of `ColorIsShown`: an open device with a valid intensity has its timer
  queued, and the callback finds everything that it needs to queue it again. `RunInv` adds
  that `exit`, which a close or a refused CONFIG has left set, is reset before each start.
- **LedCycleProofs.** `SwitchCorrect`, `ResetCorrect` (`StageInv`: where between its
  loads and stores the stage may be 8, and how a reset survives them), `LitCorrect`
  (`LitInv`: LEDs are lit only within a PWM cycle, or in `test.c` since the last
  write), `SleepsCorrect` (`DurationInv`: a duty cycle is out of range only between
  its change and its clamping), for any number of clicks and PWM cycles. `OrderCorrect` is
  the safety part of `CycleGoesOn`: every stage is followed by the next one unless a reset
  takes effect, also when one is lost. `OrderInv` says through the loads and stores
  where the stage that is shown is kept, which is not always `cycle_stage`.
- **KProbeProofs.** `TypeCorrect` for all processes; `ProbesCorrect` and
  `ModuleImplementsProbe` for careful ones. `CarefulInv` says that either no probe is
  registered and all code is its own (`Unprobed`), or one is, linked under the address it
  has, with the instruction from there (`Probed`), and that at most one process is
  between the address and the registration. In the refinement `write_register` is
  `Attach` if the probe is not yet spent, and a stutter otherwise.
- **DogDisplayProofs.** `HandshakeCorrect`, `MeasuringIsOverCorrect`: the two flags are a
  handshake as in a mutual exclusion (`HandshakeInv`): each thread sets or clears its own
  before it reads the other's, so that no cleanup gets past its waiting while
  measure_distance is in its loop, for any number of Ctrl+C, also within a cleanup.
  `DirectionCorrect` and `StaysLitCorrect` need where the display is in its tables
  (`FrameInv`: it never chooses the fourth), that its load of `pattern` is still
  what was decided (`DirectionInv`), and that no two bytes in a row of the first three tables,
  from wherever they start, turn the display off (lemma `RowKeepsLit`; row 76 of the table of
  BACKWARD_2, which nothing chooses, would). `OffCorrect`: `ClearInv` says what the
  chip holds after each of the messages 0 to 7 of `clear_display`: number 3 is the
  first to turn the display off, and only if pin 15 rises for it; the display thread may lift
  that pin first, but at most once, and then loads that message or one before, after which
  number 7 does it. `TypeCorrect` includes that no thread sends more than eight of them.
  `CleanupCorrect` is the safety part of `CtrlCEnds`: after a Ctrl+C main is in `cleanup`, and
  if it waits for a flag that is clear then measure_distance has to leave its loop at its next
  test, or a second Ctrl+C has taken it out of there (`WaitInv`: nobody else clears that flag).
- **SpiModulesProofs.** `BindingCorrect`, `NodeCorrect` (`BindInv`: bound only while both
  modules are loaded, to memory the driver owns, with the device number by which remove
  finds the node), `UnloadingCorrect` for the WS2812 (`SafetyInv`: its `spidev` is never
  freed while it is bound, it has no threads, and a file that is open without a binding
  was open when the device was removed: what is left is the write that the property
  names). `RingImplementsModules`: `Ws2812` with its writes in steps implements
  `SpiModules`, so all of this holds with writes under way. `WindowCorrect` is about that
  composition, in two parts: the ring always shows a frame that some process computed
  (`FrameInv`), and a frame without overflow has as many LEDs as the window it stands
  for (`FrameSize`, from the cardinality of an interval). `HeldCorrect` and
  `WriteAdvancesCorrect` are the safety part of `WriteEnds`, for any number of writers: an
  open file keeps the driver loaded and a write keeps its file open (`WritesInv`), and
  each step of a write takes it to its next frame or ends it, whatever the others do.
- **ClickTasksProofs.** `BarrierCorrect` (`BarrierInv`: there is no token before all
  threads exist) and `CountCorrect` (`CountInv`: not only the counter, but also what a
  task has read of it and others may have incremented since, is at most the number of
  tasks that wait, and tasks never stop waiting). `WakesCorrect` keeps account for each
  button (`WakesInv`): with the handler under way, the tokens given, and those that it may
  still give before its index reaches the number of tasks of the button, are allowed
  by the clicks so far. That the handler reads the counter anew for each token is
  harmless because `CountInv` bounds whatever it reads. `TokensCorrect` and `TakersCorrect` are
  the safety parts of `AllActivated` and `TokensAreTaken`. Tokens are conserved
  (`TokensKept`): those that are left and the tasks that are activated together are as
  many as main has posted, and a task that gives up takes none. `TakersCorrect` follows
  from `CountInv`: the handler posts only while it has counted tasks that wait, and none of
  those ever leaves its loop of waiting.
- **MatrixClientProofs.** The specification is that of the composition: the driver, the chip
  and a client that is either free or one of the programs. Lemma `ClientTakesDriverStep`
  reduces every client step to a step of the driver, so that what is said of a
  display (`DisplayInv`) is proved once for all clients. `DisplayInv` says that an
  undisturbed thread is the only one that runs, that its sequence is still the one it
  was given, how many of its messages have arrived (`Arrived`), and at which steps the message
  under way is in its buffer and in the chip. The eight rows and the five registers of the
  set-up have different addresses, so no message undoes another: that gives
  `ShownCorrect` and `MessageCorrect`, and what earlier displays left in the registers
  does not matter since each pattern begins with the set-up. `SequenceCorrect` follows with
  the first end of a sequence as a least element (`MinIsLeast`). `DarkCorrect` also needs that
  the programs only write sequences with an end: `ClientInv` says that
  application2's has one at every moment at which it or a `cleanup` may write it, unless
  `cleanup` has torn the loop that fills it, and `AskedInv` carries that to the
  threads; it rests on the order in which threads are created and on that an interrupted thread
  never returns. `AdvanceCorrect` holds of disturbed threads as well: `Position`
  counts messages and their steps lexicographically, and grows with every step.
  `DriverImplementsDisplay` is the refinement of `MatrixDisplay`. There is a lemma for each
  kind of driver step that says which abstract step it is: sending and transferring a
  message are stutters, loading it is a `Draw`, but that of a pattern's last message `Show`;
  the end of a duration is `Change`; the message that shuts the chip down, or the last step
  of a sequence without an end, is `Finish`. `TestInv` (no message ever turns the chip's test
  mode on, which would light every LED) is needed for a dark matrix to be dark. Whatever
  happens while displays overlap is a step of a garbled display.

Only model-checked: all liveness (`Termination`, `AllActivated`, `TokensAreTaken`,
`ColorIsShown`, `CycleGoesOn`, `WriteEnds`, `CtrlCEnds`), since fairness and ENABLED
are out of the prover's reach. For all but `Termination` the theorems above say what their
arguments rest on: that nothing is waited for that cannot come, or that each step
gets nearer to the end. Only model-checked as well is what the recursive operators of
`LinuxRbtree` and `RbtTree` compute (`TreeIsSound`, `NothingFreedTwice`, and `RbtTree`'s refinement of
`OrderedStore`), since that needs induction over data and RECURSIVE operators. Every
other property of a passing run is a theorem.

## Not modelled

- `RGBLed_pwm.c`: its README says that it does not work.
- `Gpio_func.c`: all but `gpio_set_value` and `gpio_unexport`, the two that
  `application1.c` needs in its cleanup. The others write sysfs files before any thread starts.
- The CONFIG of `test.c`: what it passes depends on the layout of its stack. The model
  begins after one that was accepted; a refused one ends the program.
- The distance that `application2.c` measures, and its pins: the display does not depend on
  them.
- The periods of `ClickTasks`' periodic tasks, real time in general, and what an SPI
  controller does with chip-select itself.
- `rbtuser_test.c`, `Ktest.c`, `sample_test.c`: straight-line demonstrations.
- Concurrent calls of the rbtdevice driver: its header says it does not support them.
- A trace record of `KProbe.c` that is read half-way through a hit: `Post_Handler` stores three
  fields (:71-73) that `copy_to_user` (:174) may meet one by one; the model stores and copies
  a record in one step. An offset at which the kernel refuses a probe.

## Plan

1. Done: every driver, device module and program of the repository but those above,
   the abstract store and probe and the refinements, and the theorems listed above.
2. Left: two `Ws2812` writers whose frames alternate, for which `WindowCorrect` and
   `WriteAdvancesCorrect` are proved but `WriteEnds` is only checked for one; rbtdevice
   calls that overlap, if the driver ever gets a lock.
