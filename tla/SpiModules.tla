----------------------------- MODULE SpiModules -----------------------------
(***************************************************************************)
(* Loading and unloading of the two SPI drivers and of the modules that    *)
(* add their device to the bus: WS2812_SPI_driver/WS2812_drv.c with        *)
(* WS2812_dev.c, and ESP-Team09-Assgn04/spidriver.c with spidevice.c.  The *)
(* SPI core calls probe and remove from inside the modules' init and exit; *)
(* processes have the character device open meanwhile.                     *)
(*                                                                         *)
(* The two drivers share this skeleton and differ in what they do with the *)
(* global pointer spidev; chip says which one is used.                     *)
(***************************************************************************)
EXTENDS Naturals

CONSTANTS Chips,  \* which of "WS2812" and "MAX7219" are used
          Procs   \* processes that open the device

ASSUME SpiModulesAssumption == Chips \subseteq {"WS2812", "MAX7219"}

VARIABLES
  chip,       \* the one that is used, with its pair of modules
  driver,     \* the driver module is loaded
  device,     \* the device module is loaded: the device is on the bus
  bound,      \* the driver is bound to the device
  node,       \* the device number is registered and has a node under /dev
  spidev,     \* "NULL", "allocated" or "freed"
  devt,       \* spidev->devt is the device number
  requested,  \* the WS2812's pins 24 and 44 are requested
  files,      \* the processes that have the device open
  displaying, \* a display thread of the MAX7219 is running
  starved,    \* history: the last probe since the driver was loaded ran out of memory
  removed,    \* history: a bound device was removed
  wild        \* freed memory was used, or freed twice

vars == <<chip, driver, device, bound, node, spidev, devt, requested, files, displaying, starved,
          removed, wild>>
bindVars == <<bound, node, spidev, devt, starved, removed>>

-----------------------------------------------------------------------------
(* probe and remove.                                                       *)

\* What probe makes of the binding: out of memory for spidev; no device, as
\* there is no memory, no class, or the number is taken; or bound.  The
\* MAX7219 driver overwrites the number with the device's address, even in a
\* spidev that it has just freed.
no_spidev ==
  /\ spidev' = "NULL" /\ starved' = TRUE
  /\ UNCHANGED <<bound, node, devt, removed, wild>>

no_device(has_class) ==
  /\ spidev' = "freed"
  /\ starved' = (has_class /\ ~node)
  /\ wild' = (chip = "MAX7219")
  /\ UNCHANGED <<bound, node, devt, removed>>

binds(has_class) ==
  /\ has_class /\ ~node
  /\ bound' = TRUE /\ node' = TRUE
  /\ spidev' = "allocated"
  /\ devt' = (chip = "WS2812")
  /\ UNCHANGED <<starved, removed, wild>>

spidev_probe(has_class) == no_spidev \/ no_device(has_class) \/ binds(has_class)

\* Mutant: the node is not destroyed.
remove_keeps_node ==
  /\ bound' = FALSE
  /\ spidev' = "freed"
  /\ removed' = TRUE
  /\ UNCHANGED <<node, devt, starved>>

\* spidev->spi is cleared; device_destroy looks for the number in spidev->devt.
spidev_remove ==
  /\ bound' = FALSE
  /\ node' = (node /\ ~devt)
  /\ spidev' = "freed"
  /\ removed' = TRUE
  /\ UNCHANGED <<devt, starved>>

\* remove writes through spidev.
misses_spidev == bound /\ spidev # "allocated"

-----------------------------------------------------------------------------
(* The driver module.                                                      *)

requests_pins == requested' = (requested \/ chip = "WS2812")

\* Mutant: the driver is registered before the class is created.
init_registers_first ==
  /\ ~wild /\ ~driver
  /\ driver' = TRUE
  /\ requests_pins
  /\ IF device THEN spidev_probe(FALSE)
     ELSE /\ spidev' = "NULL" /\ starved' = FALSE
          /\ UNCHANGED <<bound, node, devt, removed, wild>>
  /\ UNCHANGED <<device, files, displaying>>

\* register_chrdev, class_create, and spi_register_driver, which probes a
\* device that is on the bus and ignores the result.
spidev_init ==
  /\ ~wild /\ ~driver
  /\ driver' = TRUE
  /\ requests_pins
  /\ IF device THEN spidev_probe(TRUE)
     ELSE /\ spidev' = "NULL" /\ starved' = FALSE
          /\ UNCHANGED <<bound, node, devt, removed, wild>>
  /\ UNCHANGED <<device, files, displaying>>

\* If spi_register_driver fails, the WS2812 driver requests its pins anyway.
\* Without a device number or a class init has returned, and changes nothing.
init_fails ==
  /\ ~wild /\ ~driver
  /\ requests_pins
  /\ UNCHANGED <<driver, device, bindVars, files, displaying, wild>>

CanUnload == ~wild /\ driver /\ files = {}

unloads ==
  /\ driver' = FALSE
  /\ IF bound THEN spidev_remove ELSE UNCHANGED bindVars
  /\ requested' = (requested /\ chip # "WS2812")
  /\ UNCHANGED <<device, files, displaying>>

\* Mutant: the WS2812 driver frees spidev on exit, as the other driver does.
exit_frees_spidev ==
  /\ CanUnload
  /\ unloads
  /\ wild' = (displaying \/ misses_spidev \/ spidev' = "freed")

\* The MAX7219 driver frees spidev on exit too.  A display thread loses its
\* code.
spidev_exit ==
  /\ CanUnload
  /\ unloads
  /\ wild' = (displaying \/ misses_spidev \/ (chip = "MAX7219" /\ spidev' = "freed"))

-----------------------------------------------------------------------------
(* The device module.                                                      *)

device_init ==
  /\ ~wild /\ ~device
  /\ device' = TRUE
  /\ IF driver THEN spidev_probe(TRUE) ELSE UNCHANGED <<bindVars, wild>>
  /\ UNCHANGED <<driver, requested, files, displaying>>

\* Open files do not keep it from being unloaded.
device_exit ==
  /\ ~wild /\ device
  /\ device' = FALSE
  /\ IF bound THEN spidev_remove ELSE UNCHANGED bindVars
  /\ wild' = misses_spidev
  /\ UNCHANGED <<driver, requested, files, displaying>>

-----------------------------------------------------------------------------
(* The file operations, as far as they touch what loading and unloading do.*)

spidev_open(p) ==
  /\ ~wild /\ driver /\ node
  /\ p \notin files
  /\ files' = files \cup {p}
  /\ UNCHANGED <<driver, device, bindVars, requested, displaying, wild>>

spidev_release(p) ==
  /\ ~wild /\ p \in files
  /\ files' = files \ {p}
  /\ UNCHANGED <<driver, device, bindVars, requested, displaying, wild>>

\* write sends messages through spidev: at once, or from a thread.
spidev_write(p) ==
  /\ ~wild /\ p \in files
  /\ IF chip = "WS2812" THEN wild' = (spidev # "allocated") /\ UNCHANGED displaying
                          ELSE displaying' = TRUE /\ UNCHANGED wild
  /\ UNCHANGED <<driver, device, bindVars, requested, files>>

display_thread ==
  /\ ~wild /\ displaying
  /\ displaying' \in BOOLEAN
  /\ wild' = (spidev # "allocated")
  /\ UNCHANGED <<driver, device, bindVars, requested, files>>

-----------------------------------------------------------------------------
Init ==
  /\ chip \in Chips
  /\ driver = FALSE /\ device = FALSE /\ bound = FALSE
  /\ node = FALSE /\ spidev = "NULL" /\ devt = FALSE
  /\ requested = FALSE
  /\ files = {} /\ displaying = FALSE
  /\ starved = FALSE /\ removed = FALSE /\ wild = FALSE

Next ==
  /\ \/ spidev_init \/ init_fails \/ spidev_exit
     \/ device_init \/ device_exit
     \/ \E p \in Procs : spidev_open(p) \/ spidev_release(p) \/ spidev_write(p)
     \/ display_thread
  /\ UNCHANGED chip

Spec == Init /\ [][Next]_vars

-----------------------------------------------------------------------------
(* Properties.                                                             *)

\* Assgn04/README:29: the modules can be inserted in either order, the first
\* time and, unless a removal broke the kernel, ever after: the device is bound
\* or a probe was short of memory.
BindsInAnyOrder == driver /\ device => bound \/ starved \/ (removed /\ wild)

\* spidriver.c:320 and WS2812_drv.c:219 "Device Removed!": through every order
\* of loads, unloads and failed probes the WS2812's node exists exactly while
\* the driver is bound to the device.  The MAX7219's exists as long as it is
\* bound, too, but its first removal leaves it behind.
NodeFollowsBinding == ~wild /\ (chip = "WS2812" \/ ~removed) => (node <=> bound)

\* No load or unload of the WS2812's modules, in whatever order and with
\* whatever open files, frees spidev twice or writes to it once it is freed.
\* What does use it then is a write of a process that has kept the device open
\* while it was removed, and nothing else.
UnloadingIsSafe ==
  [][chip = "WS2812" /\ wild' /\ ~wild
       => removed /\ files # {} /\ UNCHANGED <<driver, device>>]_vars

=============================================================================
