------------------------- MODULE MatrixClientProofs -------------------------
(***************************************************************************)
(* Theorems about MatrixClient, and so about the driver and the chip of    *)
(* Max7219, for any number of processes, display threads, patterns, rows   *)
(* (up to the 8 that the chip has) and steps, and for each of the clients: *)
(* an undisturbed display shows what it was asked to show, in sequence,    *)
(* and leaves the matrix off; every message arrives; every display         *)
(* advances; and all of this together implements MatrixDisplay.            *)
(*                                                                         *)
(* The invariant has four parts: the types; what a thread that nothing has *)
(* disturbed has shown and what the chip's registers hold by then; how far *)
(* the program is with its sequence; and that what it has asked for ends.  *)
(***************************************************************************)
EXTENDS MatrixClient, SequenceTheorems, WellFoundedInduction, TLAPS

-----------------------------------------------------------------------------
(* The invariant.                                                          *)

Pcs == {"idle", "step", "sending", "sent", "nothing_sent", "next", "hold"}
\* Where a thread works on an entry of its sequence.
AtEntry == {"sending", "sent", "nothing_sent", "next", "hold"}
Sequence == [1 .. Steps -> Entries]
Message == Registers \X Nat
Thread == [pc : Pcs, i : 1 .. Steps + 1, to_display : Entries, n : 1 .. LastMessage,
           buffer : Message, asked : {<<>>} \cup Sequence, shown : Seq(Entries)]

TypeInv ==
  /\ sequence \in Sequence
  /\ pattern_array \in [Patterns -> [1 .. Rows -> Nat]]
  /\ thread \in [Threads -> Thread]
  /\ \A t \in Threads : thread[t].pc \in AtEntry => thread[t].i \in 1 .. Steps
  /\ cs \in {0, 1}
  /\ shift \in {<<>>} \cup Message
  /\ register \in [Registers -> Nat]

\* The first m messages for what thread x displays have arrived, and nothing
\* has overwritten them since.
Arrived(x, m) ==
  /\ m >= 1 => register[DECODE] = 0
  /\ m >= 2 => register[DISPLAY_TEST] = 0
  /\ m >= 3 => register[SHUTDOWN] = 1
  /\ m >= 4 => register[INTENSITY] = 15
  /\ m >= 5 => register[SCAN_LIMIT] = 7
  /\ \A r \in 1 .. Rows : m >= 5 + r => register[r] = pattern_array[x.to_display][r]

\* Thread x has shown the first m entries of what it was asked, and no end.
Shows(x, m) ==
  /\ Len(x.shown) = m
  /\ \A k \in 1 .. m : x.shown[k] = x.asked[k] /\ x.asked[k] # End

\* An undisturbed thread that runs.  The register file is as the messages that
\* were sent so far have left it, and the one under way is the next.
Running(x) ==
  /\ x.asked = sequence
  /\ Shows(x, IF x.pc = "hold" THEN x.i ELSE x.i - 1)
  /\ x.pc # "nothing_sent"
  /\ x.pc \in AtEntry => x.to_display = x.asked[x.i]
  /\ x.pc \in {"next", "hold"} => x.to_display # End
  /\ x.pc \in {"sending", "sent"} => cs = 0 /\ x.buffer = message(x.to_display, x.n)
  /\ x.pc = "sent" => shift = x.buffer
  /\ x.pc \in {"sending", "sent", "next"} /\ x.to_display # End => Arrived(x, x.n - 1)
  /\ x.pc = "hold" => Arrived(x, 5 + Rows)

\* An undisturbed thread that has ended did so at the end of the sequence, and
\* has switched the chip off if it met one.
Ended(x) ==
  \E m \in 0 .. Steps :
    /\ Shows(x, m)
    /\ m < Steps => x.asked[m + 1] = End /\ register[SHUTDOWN] = 0

\* An undisturbed thread runs alone.
DisplayInv ==
  \A t \in Threads : Undisturbed(t) =>
    /\ running \subseteq {t}
    /\ IF thread[t].pc = "idle" THEN Ended(thread[t]) ELSE Running(thread[t])

Ends(entries) == \E j \in 1 .. Steps : entries[j] = End

\* Where a thread of a program can be.
Places == {"none", "open", "ioctl", "create", "create measure", "join", "write", "close",
           "loop", "fill", "done", "clear", "clear write", "kill", "gone"}

Starting == {"open", "ioctl", "create"}

\* The program's sequence ends whenever it may be written, unless cleanup() has
\* torn it: application2 fills it up to the last entry before it stores the end.
ClientInv ==
  /\ app \in [AppThreads -> Places]
  /\ filled \in 0 .. Steps
  /\ user_sequence \in Sequence
  /\ app["main"] \in Starting => app["update_display"] = "none"
  /\ app["update_display"] = "gone" => \A t \in AppThreads : app[t] = "gone"
  /\ \/ torn
     \/ user_sequence[Steps] = End
     \/ app["update_display"] = "fill" /\ filled = Steps
     \/ app["update_display"] = "gone"

\* The programs ask for nothing else.
AskedInv ==
  client # "any" /\ ~torn => \A t \in Threads : Undisturbed(t) => Ends(thread[t].asked)

-----------------------------------------------------------------------------
(* The messages.                                                           *)

LEMMA MessageCount ==
  /\ Len(spi_display_setup) = 5
  /\ LastMessage = 5 + Rows
  /\ LastMessage \in Nat /\ LastMessage > 5
  BY Max7219Assumption, SMT DEF spi_display_setup, LastMessage

\* The messages for a pattern: five that set up the chip, and its rows.
LEMMA MessageOf ==
  ASSUME NEW e \in Patterns
  PROVE  /\ message(e, 1) = <<DECODE, 0>>
         /\ message(e, 2) = <<DISPLAY_TEST, 0>>
         /\ message(e, 3) = <<SHUTDOWN, 1>>
         /\ message(e, 4) = <<INTENSITY, 15>>
         /\ message(e, 5) = <<SCAN_LIMIT, 7>>
         /\ \A n \in 6 .. LastMessage : message(e, n) = <<n - 5, pattern_array[e][n - 5]>>
  <1>1. e # End
    BY Max7219Assumption, SMT DEF End
  <1>2. \A n \in 1 .. 5 : message(e, n) = spi_display_setup[n]
    BY <1>1, MessageCount, SMT DEF message
  <1>3. \A n \in 6 .. LastMessage : message(e, n) = <<n - 5, pattern_array[e][n - 5]>>
    BY <1>1, MessageCount, SMT DEF message
  <1>. QED
    BY <1>2, <1>3, SMT DEF spi_display_setup

LEMMA EntryIsPattern == ASSUME NEW e \in Entries, e # End PROVE e \in Patterns
  BY DEF Entries

LEMMA MessageType ==
  ASSUME pattern_array \in [Patterns -> [1 .. Rows -> Nat]],
         NEW e \in Entries, NEW n \in 1 .. LastMessage
  PROVE  message(e, n) \in Message
  <1>. DEFINE m == message(e, n)
  <1>1. CASE e = End
    BY <1>1, SMT DEF message, Message, Registers, SHUTDOWN, DECODE, DISPLAY_TEST
  <1>2. CASE e # End
    <2>1. e \in Patterns /\ pattern_array[e] \in [1 .. Rows -> Nat]
      BY <1>2, EntryIsPattern
    <2>2. CASE n \in 6 .. LastMessage
      <3>1. message(e, n) = <<n - 5, pattern_array[e][n - 5]>>
        BY <2>1, <2>2, MessageOf
      <3>2. n - 5 \in Registers
        BY <2>2, MessageCount, Max7219Assumption, SMT DEF Registers
      <3>3. n - 5 \in 1 .. Rows
        BY <2>2, MessageCount, Max7219Assumption, SMT
      <3>4. pattern_array[e][n - 5] \in Nat
        BY <2>1, <3>3
      <3>. QED
        BY <3>1, <3>2, <3>4 DEF Message
    <2>3. CASE n \in 1 .. 5
      <3>1. {DECODE, DISPLAY_TEST, SHUTDOWN, INTENSITY, SCAN_LIMIT} \subseteq Registers
        BY SMT DEF Registers, DECODE, DISPLAY_TEST, SHUTDOWN, INTENSITY, SCAN_LIMIT
      <3>2. n \in {1, 2, 3, 4, 5}
        BY <2>3
      <3>. QED
        BY <2>1, <3>1, <3>2, MessageOf, SMT DEF Message
    <2>. QED
      BY <2>2, <2>3, MessageCount, SMT
  <1>. QED
    BY <1>1, <1>2

\* A set of naturals that is not empty has a minimum.
LEMMA MinIsLeast ==
  ASSUME NEW S \in SUBSET Nat, S # {}
  PROVE  Min(S) \in S /\ \A y \in S : Min(S) =< y
  <1>1. \E x \in S : \A y \in S : <<y, x>> \notin OpToRel(<, Nat)
    BY NatLessThanWellFounded, WFMin
  <1>2. PICK x \in S : \A y \in S : <<y, x>> \notin OpToRel(<, Nat)
    BY <1>1
  <1>3. ASSUME NEW y \in S PROVE ~(y < x)
    BY <1>2, <1>3 DEF OpToRel
  <1>4. \A y \in S : x =< y
    BY <1>3
  <1>. QED
    BY <1>4 DEF Min

-----------------------------------------------------------------------------
(* The types.                                                              *)

\* What a client can make the driver do, in one step.
DriverStep ==
  \/ \E p : \/ spidev_open(p) \/ spidev_release(p)
            \/ \E images \in Arrays : spidev_ioctl(p, images)
            \/ \E entries \in Sequence, n \in 0 .. Steps : spidev_write(p, entries, n)
  \/ \E t \in Threads : display_thread(t, Statuses)
  \/ UNCHANGED vars

\* A disturbed thread goes on as before, without its history.
LEMMA DisturbType ==
  ASSUME thread \in [Threads -> Thread], NEW S
  PROVE  /\ Disturb(S) \in [Threads -> Thread]
         /\ \A t \in Threads : /\ Disturb(S)[t].pc = thread[t].pc /\ Disturb(S)[t].i = thread[t].i
                              /\ Disturb(S)[t].n = thread[t].n
         /\ \A t \in Threads \ S : Disturb(S)[t] = thread[t]
         /\ \A t \in S \cap Threads : Disturb(S)[t].asked = <<>>
  <1>1. ASSUME NEW x \in Thread PROVE [x EXCEPT !.asked = <<>>, !.shown = <<>>] \in Thread
    <2>1. <<>> \in Seq(Entries)
      BY EmptySeq
    <2>. QED
      BY <2>1 DEF Thread
  <1>2. ASSUME NEW x \in Thread
        PROVE  /\ [x EXCEPT !.asked = <<>>, !.shown = <<>>].pc = x.pc
               /\ [x EXCEPT !.asked = <<>>, !.shown = <<>>].i = x.i
               /\ [x EXCEPT !.asked = <<>>, !.shown = <<>>].n = x.n
               /\ [x EXCEPT !.asked = <<>>, !.shown = <<>>].asked = <<>>
    BY DEF Thread
  <1>. QED
    BY <1>1, <1>2 DEF Disturb

LEMMA IdleType ==
  ASSUME NEW asked \in {<<>>} \cup Sequence, NEW shown \in Seq(Entries)
  PROVE  idle(asked, shown) \in Thread
  <1>1. 1 \in 1 .. Steps + 1 /\ 1 \in 1 .. LastMessage /\ End \in Entries
    BY Max7219Assumption, MessageCount, SMT DEF Entries
  <1>2. <<SHUTDOWN, 0>> \in Message
    BY SMT DEF Message, Registers, SHUTDOWN, DECODE, DISPLAY_TEST
  <1>. QED
    BY <1>1, <1>2 DEF idle, Thread, Pcs

\* A step of thread t, whatever else it does.
LEMMA ThreadType ==
  ASSUME TypeInv, NEW t \in Threads, NEW y \in Thread, y.pc \in AtEntry => y.i \in 1 .. Steps,
         thread' = [thread EXCEPT ![t] = y], UNCHANGED <<sequence, pattern_array>>,
         cs' \in {0, 1}, shift' \in {<<>>} \cup Message, register' \in [Registers -> Nat]
  PROVE  TypeInv'
  BY DEF TypeInv

LEMMA SendType ==
  ASSUME TypeInv, NEW t \in Threads, NEW pattern \in Entries, NEW n \in 1 .. LastMessage,
         thread[t].i \in 1 .. Steps, send(t, pattern, n)
  PROVE  TypeInv'
  <1>. DEFINE y == [thread[t] EXCEPT !.pc = "sending", !.to_display = pattern, !.n = n,
                                     !.buffer = message(pattern, n)]
  <1>1. message(pattern, n) \in Message
    BY MessageType DEF TypeInv
  <1>2. y \in Thread /\ y.i = thread[t].i
    BY <1>1 DEF TypeInv, Thread, Pcs
  <1>3. /\ thread' = [thread EXCEPT ![t] = y]
        /\ UNCHANGED <<sequence, pattern_array, shift, register>> /\ cs' = 0
    BY DEF send, driverVars, TypeInv
  <1>. HIDE DEF y
  <1>4. /\ cs' \in {0, 1} /\ shift' \in {<<>>} \cup Message /\ register' \in [Registers -> Nat]
    BY <1>3 DEF TypeInv
  <1>. QED
    BY <1>2, <1>3, <1>4, ThreadType

LEMMA RiseType ==
  ASSUME TypeInv, rise
  PROVE  cs' \in {0, 1} /\ register' \in [Registers -> Nat]
  <1>1. CASE cs = 0 /\ shift # <<>>
    <2>1. shift[1] \in Registers /\ shift[2] \in Nat
      BY <1>1 DEF TypeInv, Message
    <2>. QED
      BY <1>1, <2>1 DEF rise, TypeInv
  <1>. QED
    BY <1>1 DEF rise, TypeInv

LEMMA CallType ==
  ASSUME TypeInv, NEW p,
         \/ spidev_open(p) \/ spidev_release(p)
         \/ \E images \in Arrays : spidev_ioctl(p, images)
         \/ \E entries \in Sequence, n \in 0 .. Steps : spidev_write(p, entries, n)
  PROVE  TypeInv'
  <1>1. CASE spidev_open(p) \/ spidev_release(p)
    BY <1>1 DEF spidev_open, spidev_release, chipVars, TypeInv
  <1>2. ASSUME NEW images \in Arrays, spidev_ioctl(p, images) PROVE TypeInv'
    <2>1. images \in [Patterns -> [1 .. Rows -> Nat]]
      BY Max7219Assumption
    <2>2. /\ Disturb(running) \in [Threads -> Thread]
          /\ \A t \in Threads : Disturb(running)[t].pc = thread[t].pc /\ Disturb(running)[t].i = thread[t].i
      BY DisturbType DEF TypeInv
    <2>. QED
      BY <1>2, <2>1, <2>2 DEF spidev_ioctl, chipVars, TypeInv
  <1>3. ASSUME NEW entries \in Sequence, NEW n \in 0 .. Steps, spidev_write(p, entries, n)
        PROVE  TypeInv'
    <2>1. sequence' \in Sequence
      <3>1. End \in Entries
        BY DEF Entries
      <3>. QED
        BY <1>3, <3>1 DEF spidev_write, Sequence
    <2>2. \A S : /\ Disturb(S) \in [Threads -> Thread]
                 /\ \A t \in Threads : Disturb(S)[t].pc = thread[t].pc /\ Disturb(S)[t].i = thread[t].i
      BY DisturbType DEF TypeInv
    <2>3. CASE thread' = Disturb(running)
      BY <1>3, <2>1, <2>2, <2>3 DEF spidev_write, chipVars, TypeInv
    <2>4. ASSUME NEW t \in Threads, NEW asked \in {<<>>} \cup Sequence,
                 thread' = [Disturb(Threads) EXCEPT ![t] = [idle(asked, <<>>) EXCEPT !.pc = "step"]]
          PROVE  TypeInv'
      <3>. DEFINE y == [idle(asked, <<>>) EXCEPT !.pc = "step"]
      <3>1. <<>> \in Seq(Entries)
        BY EmptySeq
      <3>2. idle(asked, <<>>) \in Thread
        BY <3>1, IdleType
      <3>3. y \in Thread /\ y.pc \notin AtEntry
        BY <3>2 DEF Thread, Pcs, AtEntry
      <3>4. thread' = [Disturb(Threads) EXCEPT ![t] = y]
        BY <2>4
      <3>. HIDE DEF y
      <3>5. thread' \in [Threads -> Thread]
        BY <2>2, <3>3, <3>4
      <3>6. \A u \in Threads : thread'[u].pc \in AtEntry => thread'[u].i \in 1 .. Steps
        BY <2>2, <3>3, <3>4 DEF TypeInv
      <3>. QED
        BY <1>3, <2>1, <3>5, <3>6 DEF spidev_write, chipVars, TypeInv
    <2>5. \/ thread' = Disturb(running)
          \/ \E t \in Threads, asked \in {<<>>} \cup Sequence :
               thread' = [Disturb(Threads) EXCEPT ![t] = [idle(asked, <<>>) EXCEPT !.pc = "step"]]
      BY <1>3, <2>1 DEF spidev_write
    <2>. QED
      BY <2>3, <2>4, <2>5
  <1>. QED
    BY <1>1, <1>2, <1>3

LEMMA DisplayType ==
  ASSUME TypeInv, NEW t \in Threads, display_thread(t, Statuses)
  PROVE  TypeInv'
  <1>. DEFINE x == thread[t]
  <1>0. x \in Thread
    BY DEF TypeInv
  <1>1. CASE display_thread_step(t)
    <2>1. CASE x.i > Steps
      <3>1. idle(x.asked, x.shown) \in Thread /\ idle(x.asked, x.shown).pc \notin AtEntry
        BY <1>0, IdleType DEF Thread, idle, AtEntry
      <3>2. /\ thread' = [thread EXCEPT ![t] = idle(x.asked, x.shown)]
            /\ UNCHANGED <<sequence, pattern_array, cs, shift, register>>
        BY <1>1, <2>1 DEF display_thread_step, driverVars, chipVars, TypeInv
      <3>3. cs' \in {0, 1} /\ shift' \in {<<>>} \cup Message /\ register' \in [Registers -> Nat]
        BY <3>2 DEF TypeInv
      <3>. QED
        BY <3>1, <3>2, <3>3, ThreadType
    <2>2. CASE ~(x.i > Steps)
      <3>1. x.i \in 1 .. Steps
        BY <1>0, <2>2, Max7219Assumption, SMT DEF Thread
      <3>2. sequence[x.i] \in Entries /\ 1 \in 1 .. LastMessage
        BY <3>1, MessageCount DEF TypeInv, Sequence
      <3>. QED
        BY <1>1, <2>2, <3>1, <3>2, SendType DEF display_thread_step
    <2>. QED
      BY <2>1, <2>2
  <1>2. ASSUME NEW status \in Statuses, spi_transfer(t, status) PROVE TypeInv'
    <2>1. shift' \in {<<>>} \cup Message /\ UNCHANGED <<sequence, pattern_array, cs, register>>
      BY <1>0, <1>2 DEF spi_transfer, driverVars, TypeInv, Thread
    <2>2. x.i \in 1 .. Steps
      BY <1>2 DEF spi_transfer, TypeInv, AtEntry
    <2>3. ASSUME NEW pc \in {"nothing_sent", "sent"}, NEW threads \in [Threads -> Thread],
                 \A u \in Threads : threads[u].pc = thread[u].pc /\ threads[u].i = thread[u].i,
                 thread' = [threads EXCEPT ![t].pc = pc]
          PROVE  TypeInv'
      <3>1. thread' \in [Threads -> Thread]
        BY <2>3 DEF Thread, Pcs
      <3>2. \A u \in Threads : thread'[u].i = thread[u].i /\ (u # t => thread'[u].pc = thread[u].pc)
        BY <2>3 DEF Thread
      <3>3. \A u \in Threads : thread'[u].pc \in AtEntry => thread'[u].i \in 1 .. Steps
        BY <2>2, <3>2 DEF TypeInv
      <3>. QED
        BY <2>1, <3>1, <3>3 DEF TypeInv
    <2>4. /\ Disturb({t}) \in [Threads -> Thread]
          /\ \A u \in Threads : Disturb({t})[u].pc = thread[u].pc /\ Disturb({t})[u].i = thread[u].i
      BY DisturbType DEF TypeInv
    <2>5. \E pc \in {"nothing_sent", "sent"} : \E threads \in {thread, Disturb({t})} :
            thread' = [threads EXCEPT ![t].pc = pc]
      BY <1>2 DEF spi_transfer
    <2>. QED
      <3>1. PICK pc \in {"nothing_sent", "sent"} : \E threads \in {thread, Disturb({t})} :
              thread' = [threads EXCEPT ![t].pc = pc]
        BY <2>5
      <3>2. CASE thread' = [thread EXCEPT ![t].pc = pc]
        BY <2>3, <3>2 DEF TypeInv
      <3>3. CASE thread' = [Disturb({t}) EXCEPT ![t].pc = pc]
        BY <2>3, <2>4, <3>3
      <3>. QED
        BY <3>1, <3>2, <3>3
  <1>3. CASE send_returns(t)
    <2>1. cs' \in {0, 1} /\ register' \in [Registers -> Nat]
      BY <1>3, RiseType DEF send_returns
    <2>2. UNCHANGED <<sequence, pattern_array, shift>> /\ x.i \in 1 .. Steps
      BY <1>3 DEF send_returns, driverVars, TypeInv, AtEntry
    <2>3. PICK y : thread' = [thread EXCEPT ![t] = y] /\ y =
            IF x.to_display = End THEN idle(x.asked, x.shown)
            ELSE IF x.n = LastMessage
                 THEN [x EXCEPT !.pc = "hold", !.shown = shown_by_now(t)]
            ELSE [x EXCEPT !.pc = "next", !.n = following(t)]
      BY <1>3 DEF send_returns, TypeInv
    <2>4. idle(x.asked, x.shown) \in Thread /\ idle(x.asked, x.shown).pc \notin AtEntry
      BY <1>0, IdleType DEF Thread, idle, AtEntry
    <2>5. CASE x.n = LastMessage /\ x.to_display # End
      <3>1. shown_by_now(t) \in Seq(Entries)
        BY <1>0, AppendProperties DEF Thread, shown_by_now
      <3>2. y \in Thread /\ y.i = x.i
        BY <1>0, <2>3, <2>5, <3>1 DEF Thread, Pcs
      <3>. QED
        BY <2>1, <2>2, <2>3, <3>2, ThreadType DEF TypeInv
    <2>6. CASE x.n # LastMessage /\ x.to_display # End
      <3>1. following(t) \in 1 .. LastMessage
        BY <1>0, <2>6, MessageCount, SMT DEF following, Thread
      <3>2. y \in Thread /\ y.i = x.i
        BY <1>0, <2>3, <2>6, <3>1 DEF Thread, Pcs
      <3>. QED
        BY <2>1, <2>2, <2>3, <3>2, ThreadType DEF TypeInv
    <2>7. CASE x.to_display = End
      BY <2>1, <2>2, <2>3, <2>4, <2>7, ThreadType DEF TypeInv
    <2>. QED
      BY <2>5, <2>6, <2>7
  <1>4. CASE display_thread_next(t)
    <2>1. x.i \in 1 .. Steps /\ x.to_display \in Entries /\ x.n \in 1 .. LastMessage
      BY <1>0, <1>4 DEF display_thread_next, TypeInv, AtEntry, Thread
    <2>. QED
      BY <1>4, <2>1, SendType DEF display_thread_next
  <1>5. CASE display_thread_held(t)
    <2>. DEFINE y == [x EXCEPT !.pc = "step", !.i = x.i + 1]
    <2>1. x.i \in 1 .. Steps
      BY <1>5 DEF display_thread_held, TypeInv, AtEntry
    <2>a. x.i + 1 \in 1 .. Steps + 1
      BY <2>1, Max7219Assumption, SMT
    <2>2. y \in Thread /\ y.pc \notin AtEntry
      BY <1>0, <2>a DEF Thread, Pcs, AtEntry
    <2>b. UNCHANGED <<sequence, pattern_array, cs, shift, register>>
      BY <1>5 DEF display_thread_held, driverVars, chipVars
    <2>3. thread' = [thread EXCEPT ![t] = y]
      BY <1>5 DEF display_thread_held, TypeInv
    <2>. HIDE DEF y
    <2>4. cs' \in {0, 1} /\ shift' \in {<<>>} \cup Message /\ register' \in [Registers -> Nat]
      BY <2>b DEF TypeInv
    <2>. QED
      BY <2>2, <2>3, <2>b, <2>4, ThreadType
  <1>. QED
    BY <1>1, <1>2, <1>3, <1>4, <1>5 DEF display_thread

LEMMA TypeStep == TypeInv /\ DriverStep => TypeInv'
  <1>1. CASE UNCHANGED vars
    BY <1>1 DEF vars, TypeInv
  <1>. QED
    BY <1>1, CallType, DisplayType DEF DriverStep

-----------------------------------------------------------------------------
(* The display.                                                            *)

LEMMA DisplayInit == Init => TypeInv /\ DisplayInv
  <1>. SUFFICES ASSUME Init PROVE TypeInv /\ DisplayInv
    OBVIOUS
  <1>. DEFINE entries == [j \in 1 .. Steps |-> End]
  <1>1. entries \in Sequence /\ <<>> \in Seq(Entries)
    BY EmptySeq DEF Sequence, Entries
  <1>2. idle(entries, <<>>) \in Thread
    BY <1>1, IdleType
  <1>3. \A t \in Threads : thread[t] = idle(entries, <<>>)
    BY DEF Init
  <1>. HIDE DEF entries
  <1>4. TypeInv
    BY <1>1, <1>2, <1>3 DEF Init, TypeInv, entries, PowerOn, AtEntry, idle
  <1>5. ASSUME NEW t \in Threads PROVE Ended(thread[t])
    <2>1. Shows(thread[t], 0)
      BY <1>3 DEF Shows, idle
    <2>2. thread[t].asked[0 + 1] = End
      BY <1>3, Max7219Assumption DEF idle, entries
    <2>3. register[SHUTDOWN] = 0
      BY SMT DEF Init, PowerOn, Registers, SHUTDOWN, DECODE, DISPLAY_TEST
    <2>. QED
      BY <2>1, <2>2, <2>3, Max7219Assumption DEF Ended
  <1>6. \A t \in Threads : thread[t].pc = "idle"
    BY <1>3 DEF idle
  <1>. QED
    BY <1>4, <1>5, <1>6 DEF DisplayInv, running

\* What one message adds to those that have arrived.
LEMMA MessageArrived ==
  ASSUME TypeInv, NEW x, x.to_display \in Patterns, NEW n \in 1 .. LastMessage,
         Arrived(x, n - 1), pattern_array' = pattern_array,
         register' = [register EXCEPT ![message(x.to_display, n)[1]] = message(x.to_display, n)[2]]
  PROVE  Arrived(x, n)'
  <1>. DEFINE m == message(x.to_display, n)
  <1>1. m \in Message /\ n \in Int
    BY MessageType, MessageCount DEF TypeInv, Entries
  <1>2. \A r \in Registers : register'[r] = IF r = m[1] THEN m[2] ELSE register[r]
    BY <1>1 DEF TypeInv, Message
  <1>3. /\ 1 .. Rows \subseteq Registers
        /\ {DECODE, DISPLAY_TEST, SHUTDOWN, INTENSITY, SCAN_LIMIT} \subseteq Registers
    BY SMT DEF Registers, DECODE, DISPLAY_TEST, SHUTDOWN, INTENSITY, SCAN_LIMIT
  <1>4. CASE n \in 6 .. LastMessage
    <2>1. m = <<n - 5, pattern_array[x.to_display][n - 5]>>
      BY <1>4, MessageOf
    <2>2. n - 5 \in 1 .. Rows
      BY <1>4, MessageCount, Max7219Assumption, SMT
    <2>. HIDE DEF m
    <2>3. \A r \in Registers :
            register'[r] = IF r = n - 5 THEN pattern_array[x.to_display][r] ELSE register[r]
      BY <1>2, <2>1
    <2>. QED
      BY <1>3, <1>4, <2>2, <2>3, Max7219Assumption, SMT
         DEF Arrived, DECODE, DISPLAY_TEST, SHUTDOWN, INTENSITY, SCAN_LIMIT
  <1>5. CASE n \in 1 .. 5
    <2>1. n \in {1, 2, 3, 4, 5}
      BY <1>5
    <2>2. ASSUME NEW r \in 1 .. Rows PROVE ~(n >= 5 + r)
      BY <1>5, Max7219Assumption, SMT
    <2>3. CASE n = 1
      BY <1>2, <1>3, <2>2, <2>3, MessageOf, SMT
         DEF Arrived, DECODE, DISPLAY_TEST, SHUTDOWN, INTENSITY, SCAN_LIMIT
    <2>4. CASE n = 2
      BY <1>2, <1>3, <2>2, <2>4, MessageOf, SMT
         DEF Arrived, DECODE, DISPLAY_TEST, SHUTDOWN, INTENSITY, SCAN_LIMIT
    <2>5. CASE n = 3
      BY <1>2, <1>3, <2>2, <2>5, MessageOf, SMT
         DEF Arrived, DECODE, DISPLAY_TEST, SHUTDOWN, INTENSITY, SCAN_LIMIT
    <2>6. CASE n = 4
      BY <1>2, <1>3, <2>2, <2>6, MessageOf, SMT
         DEF Arrived, DECODE, DISPLAY_TEST, SHUTDOWN, INTENSITY, SCAN_LIMIT
    <2>7. CASE n = 5
      BY <1>2, <1>3, <2>2, <2>7, MessageOf, SMT
         DEF Arrived, DECODE, DISPLAY_TEST, SHUTDOWN, INTENSITY, SCAN_LIMIT
    <2>. QED
      BY <2>1, <2>3, <2>4, <2>5, <2>6, <2>7
  <1>. QED
    BY <1>4, <1>5, MessageCount, SMT

\* A running thread is the only one that can be undisturbed.
LEMMA ThreadAlone ==
  ASSUME TypeInv, DisplayInv, NEW t \in Threads, thread[t].pc # "idle",
         \A u \in Threads \ {t} : thread'[u] = thread[u],
         Undisturbed(t)' => /\ Undisturbed(t)
                            /\ thread'[t].pc = "idle" => Ended(thread[t])'
                            /\ thread'[t].pc # "idle" => Running(thread[t])'
  PROVE  DisplayInv'
  <1>1. \A u \in Threads \ {t} : ~Undisturbed(u)
    BY DEF DisplayInv, running
  <1>2. \A u \in Threads \ {t} : ~Undisturbed(u)'
    BY <1>1 DEF Undisturbed
  <1>3. Undisturbed(t)' => running' \subseteq {t}
    BY DEF DisplayInv, running
  <1>4. ASSUME NEW u \in Threads, Undisturbed(u)'
        PROVE  /\ running' \subseteq {u}
               /\ IF thread'[u].pc = "idle" THEN Ended(thread[u])' ELSE Running(thread[u])'
    BY <1>2, <1>3, <1>4
  <1>. QED
    BY <1>4 DEF DisplayInv

\* What send leaves behind.
LEMMA Sends ==
  ASSUME TypeInv, NEW t \in Threads, NEW pattern \in Entries, NEW n \in 1 .. LastMessage,
         send(t, pattern, n)
  PROVE  /\ \A u \in Threads \ {t} : thread'[u] = thread[u]
         /\ thread'[t].pc = "sending" /\ thread'[t].to_display = pattern /\ thread'[t].n = n
         /\ thread'[t].buffer = message(pattern, n)
         /\ thread'[t].i = thread[t].i
         /\ thread'[t].asked = thread[t].asked /\ thread'[t].shown = thread[t].shown
         /\ cs' = 0
         /\ UNCHANGED <<sequence, pattern_array, shift, register>>
  <1>1. thread[t] \in Thread
    BY DEF TypeInv
  <1>. QED
    BY <1>1 DEF send, driverVars, TypeInv, Thread

LEMMA MessageStays ==
  ASSUME NEW t, NEW e, NEW n, thread'[t].to_display = e, thread'[t].n = n,
         UNCHANGED pattern_array
  PROVE  message(thread[t].to_display, thread[t].n)' = message(e, n)
  BY DEF message, spi_display_setup, End, SHUTDOWN, DECODE, DISPLAY_TEST,
         INTENSITY, SCAN_LIMIT

\* The nth message of an entry is sent, and those before it have arrived.
LEMMA SendInv ==
  ASSUME TypeInv, DisplayInv, NEW t \in Threads,
         NEW pattern \in Entries, NEW n \in 1 .. LastMessage, send(t, pattern, n),
         thread[t].pc \in {"step", "next"},
         Undisturbed(t) => /\ pattern = thread[t].asked[thread[t].i]
                           /\ pattern # End => n = 1 \/ (pattern = thread[t].to_display /\ Arrived(thread[t], n - 1))
  PROVE  DisplayInv'
  <1>. SUFFICES ASSUME Undisturbed(t) PROVE Running(thread[t])'
    BY Sends, ThreadAlone DEF Undisturbed
  <1>1. Running(thread[t])
    BY DEF DisplayInv
  <1>2. thread'[t].asked = sequence'
    BY <1>1, Sends DEF Running
  <1>3. Shows(thread[t], thread[t].i - 1)'
    BY <1>1, Sends DEF Running, Shows, End
  <1>4. thread'[t].to_display = thread'[t].asked[thread'[t].i]
    BY Sends
  <1>5. cs' = 0 /\ thread'[t].buffer = message(thread[t].to_display, thread[t].n)'
    BY Sends, MessageStays
  <1>6. pattern # End => Arrived(thread[t], thread[t].n - 1)'
    <2>1. CASE n = 1
      BY <2>1, Sends DEF Arrived
    <2>2. CASE pattern = thread[t].to_display /\ Arrived(thread[t], n - 1)
      BY <2>2, Sends DEF Arrived, DECODE, DISPLAY_TEST, SHUTDOWN, INTENSITY, SCAN_LIMIT
    <2>. QED
      BY <2>1, <2>2
  <1>. QED
    BY <1>2, <1>3, <1>4, <1>5, <1>6, Sends DEF Running, End

LEMMA StepInv ==
  ASSUME TypeInv, DisplayInv, NEW t \in Threads, display_thread_step(t)
  PROVE  DisplayInv'
  <1>. DEFINE x == thread[t]
  <1>0. x \in Thread /\ x.pc = "step"
    BY DEF TypeInv, display_thread_step
  <1>1. CASE x.i > Steps
    <2>1. thread' = [thread EXCEPT ![t] = idle(x.asked, x.shown)] /\ register' = register
      BY <1>1 DEF display_thread_step, driverVars, chipVars
    <2>2. \A u \in Threads \ {t} : thread'[u] = thread[u]
      BY <2>1 DEF TypeInv
    <2>3. thread'[t].pc = "idle" /\ thread'[t].asked = x.asked /\ thread'[t].shown = x.shown
      BY <2>1 DEF TypeInv, idle
    <2>4. ASSUME Undisturbed(t) PROVE Ended(thread[t])'
      <3>1. x.i - 1 = Steps
        BY <1>0, <1>1, Max7219Assumption, SMT DEF Thread
      <3>2. Shows(x, Steps)
        BY <1>0, <2>4, <3>1 DEF DisplayInv, Running
      <3>3. Shows(thread[t], Steps)'
        BY <2>3, <3>2 DEF Shows, End
      <3>4. Steps \in 0 .. Steps /\ ~(Steps < Steps)
        BY Max7219Assumption
      <3>. QED
        BY <3>3, <3>4 DEF Ended
    <2>. QED
      BY <1>0, <2>2, <2>3, <2>4, ThreadAlone DEF Undisturbed
  <1>2. CASE ~(x.i > Steps)
    <2>1. x.i \in 1 .. Steps
      BY <1>0, <1>2, Max7219Assumption, SMT DEF Thread
    <2>2. sequence[x.i] \in Entries /\ 1 \in 1 .. LastMessage
      BY <2>1, MessageCount DEF TypeInv, Sequence
    <2>3. Undisturbed(t) => sequence[x.i] = x.asked[x.i]
      BY <1>0 DEF DisplayInv, Running
    <2>4. send(t, sequence[x.i], 1)
      BY <1>2 DEF display_thread_step
    <2>. HIDE DEF x
    <2>5. \A e \in Entries : e = sequence[x.i] => send(t, e, 1) /\ (Undisturbed(t) => e = x.asked[x.i])
      BY <2>3, <2>4
    <2>. QED
      BY <1>0, <2>2, <2>5, SendInv DEF x
  <1>. QED
    BY <1>1, <1>2

LEMMA NextInv ==
  ASSUME TypeInv, DisplayInv, NEW t \in Threads, display_thread_next(t)
  PROVE  DisplayInv'
  <1>. DEFINE x == thread[t]
  <1>0. x \in Thread /\ x.pc = "next"
    BY DEF TypeInv, display_thread_next
  <1>1. x.to_display \in Entries /\ x.n \in 1 .. LastMessage
    BY <1>0 DEF Thread
  <1>2. Undisturbed(t) => /\ x.to_display = x.asked[x.i]
                          /\ Arrived(x, x.n - 1)
    BY <1>0 DEF DisplayInv, Running, AtEntry
  <1>3. send(t, x.to_display, x.n)
    BY DEF display_thread_next
  <1>. QED
    BY <1>0, <1>1, <1>2, <1>3, SendInv

LEMMA HeldInv ==
  ASSUME TypeInv, DisplayInv, NEW t \in Threads, display_thread_held(t)
  PROVE  DisplayInv'
  <1>. DEFINE x == thread[t]
  <1>0. x \in Thread /\ x.pc = "hold" /\ x.i \in 1 .. Steps
    BY DEF TypeInv, display_thread_held, AtEntry
  <1>1. /\ \A u \in Threads \ {t} : thread'[u] = thread[u]
        /\ thread'[t].pc = "step" /\ thread'[t].i = x.i + 1
        /\ thread'[t].asked = x.asked /\ thread'[t].shown = x.shown
    BY <1>0 DEF display_thread_held, TypeInv, Thread
  <1>2. UNCHANGED sequence
    BY DEF display_thread_held, driverVars
  <1>3. ASSUME Undisturbed(t) PROVE Running(thread[t])'
    <2>1. x.asked = sequence /\ Shows(x, x.i)
      BY <1>0, <1>3 DEF DisplayInv, Running
    <2>2. thread'[t].i - 1 = x.i
      BY <1>0, <1>1, Max7219Assumption, SMT
    <2>3. Shows(thread[t], thread[t].i - 1)'
      BY <1>1, <2>1, <2>2 DEF Shows, End
    <2>. QED
      BY <1>1, <1>2, <2>1, <2>3 DEF Running, AtEntry
  <1>. QED
    BY <1>0, <1>1, <1>3, ThreadAlone DEF Undisturbed

LEMMA TransferInv ==
  ASSUME TypeInv, DisplayInv, NEW t \in Threads, NEW status, spi_transfer(t, status)
  PROVE  DisplayInv'
  <1>. DEFINE x == thread[t]
  <1>0. x \in Thread /\ x.pc = "sending"
    BY DEF TypeInv, spi_transfer
  <1>1. CASE status = 2
    <2>1. /\ \A u \in Threads \ {t} : thread'[u] = thread[u]
          /\ thread'[t] = [x EXCEPT !.pc = "sent"]
      BY <1>1 DEF spi_transfer, TypeInv
    <2>2. /\ thread'[t].pc = "sent" /\ thread'[t].to_display = x.to_display
          /\ thread'[t].n = x.n /\ thread'[t].buffer = x.buffer /\ thread'[t].i = x.i
          /\ thread'[t].asked = x.asked /\ thread'[t].shown = x.shown
      BY <1>0, <2>1 DEF Thread
    <2>3. shift' = x.buffer /\ UNCHANGED <<sequence, pattern_array, cs, register>>
      BY <1>1 DEF spi_transfer, driverVars
    <2>4. ASSUME Undisturbed(t) PROVE Running(thread[t])'
      <3>1. Running(x)
        BY <1>0, <2>4 DEF DisplayInv
      <3>2. Shows(thread[t], thread[t].i - 1)'
        BY <1>0, <2>2, <3>1 DEF Running, Shows, End
      <3>3. cs' = 0 /\ thread'[t].buffer = message(thread[t].to_display, thread[t].n)'
        <4>1. cs = 0 /\ x.buffer = message(x.to_display, x.n)
          BY <1>0, <3>1 DEF Running
        <4>. QED
          BY <2>2, <2>3, <4>1, MessageStays
      <3>4. x.to_display # End => Arrived(thread[t], thread[t].n - 1)'
        <4>1. x.to_display # End => Arrived(x, x.n - 1)
          BY <1>0, <3>1 DEF Running
        <4>. QED
          BY <2>2, <2>3, <4>1 DEF Arrived, DECODE, DISPLAY_TEST, SHUTDOWN, INTENSITY, SCAN_LIMIT
      <3>5. /\ thread'[t].asked = sequence' /\ shift' = thread'[t].buffer
            /\ thread'[t].to_display = thread'[t].asked[thread'[t].i]
        BY <1>0, <2>2, <2>3, <3>1 DEF Running, AtEntry
      <3>. QED
        BY <2>2, <3>2, <3>3, <3>4, <3>5 DEF Running, End
    <2>. QED
      BY <1>0, <2>1, <2>2, <2>4, ThreadAlone DEF Undisturbed
  <1>2. CASE status # 2
    <2>1. PICK pc : thread' = [Disturb({t}) EXCEPT ![t].pc = pc]
      BY <1>2 DEF spi_transfer
    <2>a. /\ Disturb({t}) \in [Threads -> Thread]
          /\ \A u \in Threads \ {t} : Disturb({t})[u] = thread[u]
      BY DisturbType DEF TypeInv
    <2>2. \A u \in Threads \ {t} : thread'[u] = thread[u]
      BY <2>1, <2>a
    <2>3. Disturb({t})[t] \in Thread /\ Disturb({t})[t].asked = <<>>
      BY DisturbType DEF TypeInv
    <2>4. thread'[t].asked = <<>>
      BY <2>1, <2>3, DisturbType DEF TypeInv, Thread
    <2>. QED
      BY <1>0, <2>2, <2>4, ThreadAlone DEF Undisturbed
  <1>. QED
    BY <1>1, <1>2

LEMMA ReturnsInv ==
  ASSUME TypeInv, DisplayInv, NEW t \in Threads, send_returns(t)
  PROVE  DisplayInv'
  <1>. DEFINE x == thread[t]
  <1>0. x \in Thread /\ x.pc \in {"sent", "nothing_sent"} /\ x.i \in 1 .. Steps
    BY DEF TypeInv, send_returns, AtEntry
  <1>1. \A u \in Threads \ {t} : thread'[u] = thread[u]
    BY DEF send_returns, TypeInv
  <1>2. thread'[t] = IF x.to_display = End THEN idle(x.asked, x.shown)
                     ELSE IF x.n = LastMessage
                          THEN [x EXCEPT !.pc = "hold", !.shown = shown_by_now(t)]
                     ELSE [x EXCEPT !.pc = "next", !.n = following(t)]
    BY DEF send_returns, TypeInv
  <1>3. thread'[t].asked = x.asked
    BY <1>0, <1>2 DEF Thread, idle
  <1>4. ASSUME Undisturbed(t)
        PROVE  /\ thread'[t].pc = "idle" => Ended(thread[t])'
               /\ thread'[t].pc # "idle" => Running(thread[t])'
    <2>1. Running(x)
      BY <1>0, <1>4 DEF DisplayInv
    <2>2. /\ x.pc = "sent" /\ cs = 0 /\ shift = message(x.to_display, x.n)
          /\ x.asked = sequence /\ x.to_display = x.asked[x.i]
          /\ Shows(x, x.i - 1)
          /\ x.to_display # End => Arrived(x, x.n - 1)
      BY <1>0, <2>1 DEF Running, AtEntry
    <2>3. shift # <<>>
      <3>1. message(x.to_display, x.n) \in Message
        BY <1>0, MessageType DEF TypeInv, Thread
      <3>2. <<>> \notin Registers \X Nat
        OBVIOUS
      <3>. QED
        BY <2>2, <3>1, <3>2 DEF Message
    <2>4. /\ register' = [register EXCEPT ![message(x.to_display, x.n)[1]] = message(x.to_display, x.n)[2]]
          /\ UNCHANGED <<sequence, pattern_array>>
      BY <2>2, <2>3 DEF send_returns, rise, driverVars
    <2>5. CASE x.to_display = End
      <3>1. register'[SHUTDOWN] = 0
        <4>1. message(x.to_display, x.n) = <<SHUTDOWN, 0>>
          BY <2>5 DEF message
        <4>2. SHUTDOWN \in Registers
          BY SMT DEF Registers, SHUTDOWN, DECODE, DISPLAY_TEST
        <4>. QED
          BY <2>4, <4>1, <4>2 DEF TypeInv
      <3>2. thread'[t].pc = "idle" /\ thread'[t].shown = x.shown
        BY <1>2, <2>5 DEF idle
      <3>3. x.i - 1 \in 0 .. Steps /\ (x.i - 1) + 1 = x.i
        BY <1>0, Max7219Assumption, SMT
      <3>4. thread'[t].asked[x.i] = End
        BY <1>3, <2>2, <2>5
      <3>5. ASSUME NEW m \in 0 .. Steps, m = x.i - 1 PROVE Ended(thread[t])'
        <4>1. Shows(thread[t], m)'
          BY <1>3, <2>2, <3>2, <3>5 DEF Shows, End
        <4>2. thread'[t].asked[m + 1] = End /\ register'[SHUTDOWN] = 0
          BY <3>1, <3>3, <3>4, <3>5
        <4>. QED
          BY <4>1, <4>2 DEF Ended, End, SHUTDOWN
      <3>. QED
        BY <3>2, <3>3, <3>5
    <2>6. CASE x.to_display # End
      <3>1. x.to_display \in Patterns /\ x.n \in 1 .. LastMessage
        BY <1>0, <2>6, EntryIsPattern DEF Thread
      <3>2. ASSUME NEW y, y.to_display = x.to_display, NEW n \in 1 .. LastMessage, n = x.n
            PROVE  Arrived(y, n)'
        <4>1. Arrived(y, n - 1)
          BY <2>2, <2>6, <3>2 DEF Arrived
        <4>. QED
          BY <2>4, <3>1, <3>2, <4>1, MessageArrived
      <3>3. CASE x.n = LastMessage
        <4>1. /\ thread'[t].pc = "hold" /\ thread'[t].i = x.i /\ thread'[t].to_display = x.to_display
              /\ thread'[t].shown = Append(x.shown, x.to_display)
          BY <1>0, <1>2, <1>4, <2>6, <3>3 DEF Thread, shown_by_now
        <4>2. Shows(thread[t], thread[t].i)'
          <5>1. /\ x.shown \in Seq(Entries) /\ x.to_display \in Entries
                /\ Len(x.shown) = x.i - 1 /\ x.i \in Int
            BY <1>0, <2>2 DEF Thread, Shows
          <5>2. Len(thread'[t].shown) = x.i
            BY <4>1, <5>1, AppendProperties
          <5>3. ASSUME NEW k \in 1 .. x.i
                PROVE  thread'[t].shown[k] = x.asked[k] /\ x.asked[k] # End
            <6>1. CASE k = x.i
              BY <2>2, <2>6, <4>1, <5>1, <6>1, AppendProperties
            <6>2. CASE k \in 1 .. x.i - 1
              <7>1. thread'[t].shown[k] = x.shown[k]
                BY <4>1, <5>1, <6>2, AppendProperties
              <7>. QED
                BY <2>2, <6>2, <7>1 DEF Shows
            <6>. QED
              BY <5>1, <6>1, <6>2
          <5>. QED
            BY <1>3, <4>1, <5>2, <5>3 DEF Shows, End
        <4>3. Arrived(thread[t], 5 + Rows)'
          <5>1. ASSUME NEW y, y.to_display = x.to_display PROVE Arrived(y, 5 + Rows)'
            BY <3>1, <3>2, <3>3, <5>1, MessageCount
          <5>. QED
            BY <4>1, <5>1 DEF Arrived, DECODE, DISPLAY_TEST, SHUTDOWN, INTENSITY, SCAN_LIMIT
        <4>. QED
          BY <1>3, <2>2, <2>4, <2>6, <4>1, <4>2, <4>3 DEF Running, End
      <3>4. CASE x.n # LastMessage
        <4>1. /\ thread'[t].pc = "next" /\ thread'[t].i = x.i /\ thread'[t].to_display = x.to_display
              /\ thread'[t].shown = x.shown /\ thread'[t].n = x.n + 1
          BY <1>0, <1>2, <2>2, <2>6, <3>4 DEF Thread, following
        <4>2. Shows(thread[t], thread[t].i - 1)'
          BY <1>3, <2>2, <4>1 DEF Shows, End
        <4>3. Arrived(thread[t], thread[t].n - 1)'
          <5>1. thread'[t].n - 1 = x.n
            BY <3>1, <4>1, MessageCount, SMT
          <5>2. ASSUME NEW y, y.to_display = x.to_display, NEW n \in 1 .. LastMessage, n = x.n
                PROVE  Arrived(y, n)'
            BY <3>2, <5>2
          <5>. QED
            BY <3>1, <4>1, <5>1, <5>2
               DEF Arrived, DECODE, DISPLAY_TEST, SHUTDOWN, INTENSITY, SCAN_LIMIT
        <4>. QED
          BY <1>3, <2>2, <2>4, <2>6, <4>1, <4>2, <4>3 DEF Running, End
      <3>. QED
        BY <3>3, <3>4
    <2>. QED
      BY <2>5, <2>6
  <1>. QED
    BY <1>0, <1>1, <1>3, <1>4, ThreadAlone DEF Undisturbed

\* A step that does nothing but, perhaps, drive pin 15 low.
LEMMA DisplayUnchanged ==
  ASSUME DisplayInv, UNCHANGED <<sequence, pattern_array, thread, shift, register>>, cs' \in {cs, 0}
  PROVE  DisplayInv'
  <1>1. \A t \in Threads : Ended(thread[t]) => Ended(thread[t])'
    BY DEF Ended, Shows, End, SHUTDOWN
  <1>2. ASSUME NEW t \in Threads, Running(thread[t]) PROVE Running(thread[t])'
    <2>1. message(thread[t].to_display, thread[t].n)' = message(thread[t].to_display, thread[t].n)
      BY MessageStays
    <2>2. \A m : /\ Shows(thread[t], m)' = Shows(thread[t], m)
                 /\ Arrived(thread[t], m)' = Arrived(thread[t], m)
      BY DEF Shows, Arrived, End, DECODE, DISPLAY_TEST, SHUTDOWN, INTENSITY, SCAN_LIMIT
    <2>. QED
      BY <1>2, <2>1, <2>2 DEF Running, AtEntry, End
  <1>. QED
    BY <1>1, <1>2 DEF DisplayInv, running, Undisturbed

LEMMA CallInv ==
  ASSUME TypeInv, DisplayInv, NEW p,
         \/ spidev_open(p) \/ spidev_release(p)
         \/ \E images \in Arrays : spidev_ioctl(p, images)
         \/ \E entries \in Sequence, n \in 0 .. Steps : spidev_write(p, entries, n)
  PROVE  DisplayInv'
  <1>1. CASE spidev_open(p) \/ spidev_release(p)
    <2>1. /\ UNCHANGED <<sequence, pattern_array, thread, shift, register>>
          /\ cs' \in {cs, 0}
      BY <1>1 DEF spidev_open, spidev_release, chipVars
    <2>. QED
      BY <2>1, DisplayUnchanged
  <1>2. ASSUME thread' = Disturb(running), register' = register PROVE DisplayInv'
    <2>1. \A t \in Threads : thread'[t].pc = thread[t].pc
      BY <1>2, DisturbType DEF TypeInv
    <2>2. running' = running
      BY <2>1 DEF running
    <2>3. ASSUME NEW t \in Threads, Undisturbed(t)' PROVE thread[t].pc = "idle" /\ thread'[t] = thread[t]
      <3>1. t \notin running
        BY <1>2, <2>3, DisturbType DEF TypeInv, Undisturbed
      <3>. QED
        <4>1. Disturb(running)[t] = thread[t]
          BY <3>1, DisturbType DEF TypeInv
        <4>. QED
          BY <1>2, <3>1, <4>1 DEF running
    <2>4. ASSUME NEW t \in Threads, Undisturbed(t)' PROVE Ended(thread[t])'
      <3>1. thread'[t] = thread[t] /\ Ended(thread[t])
        BY <2>3, <2>4 DEF DisplayInv, Undisturbed
      <3>. QED
        BY <1>2, <3>1 DEF Ended, Shows, End, SHUTDOWN
    <2>5. \A t \in Threads : Undisturbed(t)' => Undisturbed(t)
      BY <2>3 DEF Undisturbed
    <2>. QED
      BY <2>1, <2>2, <2>3, <2>4, <2>5 DEF DisplayInv
  <1>3. ASSUME NEW t \in Threads \ running,
               LET asked == IF running = {} THEN sequence' ELSE <<>> IN
               thread' = [Disturb(Threads) EXCEPT ![t] = [idle(asked, <<>>) EXCEPT !.pc = "step"]]
        PROVE  DisplayInv'
    <2>1. \A u \in Threads : Disturb(Threads)[u].asked = <<>> /\ Disturb(Threads)[u].pc = thread[u].pc
      BY DisturbType DEF TypeInv
    <2>2. /\ \A u \in Threads \ {t} : thread'[u] = Disturb(Threads)[u]
          /\ thread'[t].pc = "step" /\ thread'[t].i = 1 /\ thread'[t].shown = <<>>
          /\ thread'[t].asked = IF running = {} THEN sequence' ELSE <<>>
      BY <1>3, DisturbType DEF TypeInv, idle
    <2>3. \A u \in Threads \ {t} : ~Undisturbed(u)'
      BY <2>1, <2>2 DEF Undisturbed
    <2>4. ASSUME Undisturbed(t)' PROVE running' \subseteq {t} /\ Running(thread[t])'
      <3>1. running = {} /\ thread'[t].asked = sequence'
        BY <2>2, <2>4 DEF Undisturbed
      <3>2. running' \subseteq {t}
        BY <2>1, <2>2, <3>1 DEF running
      <3>3. Shows(thread[t], thread[t].i - 1)'
        BY <2>2 DEF Shows
      <3>. QED
        BY <2>2, <3>1, <3>2, <3>3 DEF Running, AtEntry
    <2>. QED
      BY <2>2, <2>3, <2>4 DEF DisplayInv
  <1>4. ASSUME NEW images \in Arrays, spidev_ioctl(p, images) PROVE DisplayInv'
    BY <1>2, <1>4 DEF spidev_ioctl, chipVars
  <1>5. ASSUME NEW entries \in Sequence, NEW n \in 0 .. Steps, spidev_write(p, entries, n)
        PROVE  DisplayInv'
    <2>1. register' = register
      BY <1>5 DEF spidev_write, chipVars
    <2>2. \/ thread' = Disturb(running)
          \/ \E t \in Threads \ running : LET asked == IF running = {} THEN sequence' ELSE <<>> IN
               thread' = [Disturb(Threads) EXCEPT ![t] = [idle(asked, <<>>) EXCEPT !.pc = "step"]]
      BY <1>5 DEF spidev_write
    <2>. QED
      BY <1>2, <1>3, <2>1, <2>2
  <1>. QED
    BY <1>1, <1>4, <1>5

LEMMA DisplayStep == TypeInv /\ DisplayInv /\ DriverStep => DisplayInv'
  <1>. SUFFICES ASSUME TypeInv, DisplayInv, DriverStep PROVE DisplayInv'
    OBVIOUS
  <1>1. ASSUME NEW t \in Threads, display_thread(t, Statuses) PROVE DisplayInv'
    BY <1>1, StepInv, NextInv, HeldInv, TransferInv, ReturnsInv DEF display_thread
  <1>2. CASE UNCHANGED vars
    BY <1>2, DisplayUnchanged DEF vars
  <1>3. ASSUME NEW p,
               \/ spidev_open(p) \/ spidev_release(p)
               \/ \E images \in Arrays : spidev_ioctl(p, images)
               \/ \E entries \in Sequence, n \in 0 .. Steps : spidev_write(p, entries, n)
        PROVE  DisplayInv'
    BY <1>3, CallInv
  <1>. QED
    BY <1>1, <1>2, <1>3 DEF DriverStep

-----------------------------------------------------------------------------
(* The clients.                                                            *)

ClientStep == [ClientNext]_<<vars, clientVars>>

\* Whatever a program does to the driver, a free client can do, too.
LEMMA ClientTakesDriverStep ==
  ASSUME user_sequence \in Sequence, ClientStep
  PROVE  DriverStep
  <1>. USE DEF DriverStep
  <1>1. ASSUME NEW p \in Procs, calls(p) PROVE DriverStep
    BY <1>1, Max7219Assumption DEF calls, Sequence
  <1>2. CASE main_opens \/ main_sets_patterns
    BY <1>2, ClientAssumption DEF main_opens, main_sets_patterns
  <1>3. Steps \in 0 .. Steps
    BY Max7219Assumption
  <1>4. CASE application3
    <2>1. complete_sequence \in Sequence
      BY Max7219Assumption, ClientAssumption DEF complete_sequence, Sequence, Entries
    <2>. QED
      BY <1>3, <1>4, <2>1 DEF application3
  <1>5. CASE application2
    <2>1. writes_sequence => DriverStep
      BY <1>3 DEF writes_sequence, vars, driverVars, chipVars
    <2>2. process_ends => DriverStep
      BY DEF process_ends, vars, driverVars, chipVars
    <2>3. UNCHANGED <<driverVars, thread, chipVars>> => DriverStep
      BY DEF vars, driverVars, chipVars
    <2>. QED
      BY <1>5, <2>1, <2>2, <2>3
         DEF application2, create_threads, display_begins, display_fills, display_ends_sequence,
             display_writes, thread_ends, SIGINT, cleanup, cleanup_clear, cleanup_write,
             cleanup_kill, cleanup_exit
  <1>6. ASSUME NEW t \in Threads, display_thread(t, Outcomes) PROVE DriverStep
    <2>1. Outcomes \subseteq Statuses
      BY Max7219Assumption DEF Outcomes
    <2>. QED
      BY <1>6, <2>1 DEF display_thread
  <1>7. CASE UNCHANGED <<vars, clientVars>>
    BY <1>7
  <1>. QED
    BY <1>1, <1>2, <1>4, <1>5, <1>6, <1>7 DEF ClientStep, ClientNext

\* The program's sequence ends, or is being filled.
SequenceEnds ==
  torn \/ user_sequence[Steps] = End \/ (app["update_display"] = "fill" /\ filled = Steps)

LEMMA SameConstants == Sequence' = Sequence /\ End' = End
  BY DEF Sequence, Entries, End

LEMMA SequenceMayEnd ==
  ASSUME ClientInv, NEW t \in AppThreads, app[t] # "gone"
  PROVE  SequenceEnds
  BY DEF ClientInv, SequenceEnds

\* A step that a thread of the program takes.
LEMMA AppMoves ==
  ASSUME ClientInv, NEW t \in AppThreads, app[t] # "gone",
         NEW to \in Places \ {"gone"}, app' = [app EXCEPT ![t] = to],
         to \in Starting => app[t] \in Starting, t = "update_display" => app[t] # "none",
         filled' \in 0 .. Steps, user_sequence' \in Sequence, SequenceEnds'
  PROVE  ClientInv'
  <1>1. app' \in [AppThreads -> Places]
    BY DEF ClientInv
  <1>2. "update_display" \in AppThreads /\ "main" \in AppThreads
    BY DEF AppThreads
  <1>3. app'["update_display"] # "gone"
    BY <1>2 DEF ClientInv
  <1>4. app'["main"] \in Starting => app'["update_display"] = "none"
    BY <1>2 DEF ClientInv
  <1>. QED
    BY <1>1, <1>3, <1>4, SameConstants DEF ClientInv, SequenceEnds, Starting

\* The same, when the thread is not the one that fills the sequence, or leaves
\* it as it is.
LEMMA AppGoesOn ==
  ASSUME ClientInv, NEW t \in AppThreads, app[t] # "gone",
         NEW to \in Places \ {"gone"}, app' = [app EXCEPT ![t] = to],
         to \in Starting => app[t] \in Starting, t = "update_display" => app[t] # "none",
         t = "update_display" => app[t] # "fill" \/ torn',
         torn => torn', UNCHANGED user_sequence,
         filled' \in 0 .. Steps, t # "update_display" => filled' = filled
  PROVE  ClientInv'
  <1>1. SequenceEnds'
    <2>1. "update_display" \in AppThreads
      BY DEF AppThreads
    <2>2. t # "update_display" => app'["update_display"] = app["update_display"]
      BY <2>1 DEF ClientInv
    <2>. QED
      BY <2>2, SequenceMayEnd, SameConstants DEF SequenceEnds
  <1>. QED
    BY <1>1, AppMoves DEF ClientInv

\* The program's sequence has an end whenever it writes it.
LEMMA ClientInvStep == ClientInv /\ ClientStep => ClientInv'
  <1>. SUFFICES ASSUME ClientInv, ClientStep PROVE ClientInv'
    OBVIOUS
  <1>. USE DEF Starting
  <1>a. Steps \in 1 .. Steps /\ 1 \in 1 .. Steps /\ 0 \in 0 .. Steps
    BY Max7219Assumption
  <1>b. /\ {"ioctl", "create", "create measure", "join", "write", "close", "loop", "fill", "done",
            "clear", "clear write", "kill"} \subseteq Places \ {"gone"}
        /\ "gone" \in Places
    BY DEF Places
  <1>c. /\ AppThreads = {"main", "update_display", "measure_distance"}
        /\ "main" \in AppThreads /\ "update_display" \in AppThreads
        /\ End \in Entries
    BY DEF AppThreads, Entries
  <1>d. app \in [AppThreads -> Places] /\ filled \in 0 .. Steps /\ user_sequence \in Sequence
    BY DEF ClientInv
  <1>1. CASE UNCHANGED clientVars
    BY <1>1, SameConstants DEF clientVars, ClientInv, AppThreads
  <1>2. CASE main_opens \/ main_sets_patterns
    <2>1. CASE main_opens
      BY <1>a, <1>b, <1>c, <1>d, <2>1, AppGoesOn DEF main_opens, Moves
    <2>2. CASE main_sets_patterns
      <3>1. PICK to \in {"create", "write"} : app' = [app EXCEPT !["main"] = to]
        BY <2>2 DEF main_sets_patterns, Moves
      <3>2. app["main"] = "ioctl" /\ UNCHANGED <<filled, user_sequence, torn>>
        BY <2>2 DEF main_sets_patterns, Moves
      <3>. QED
        BY <1>a, <1>b, <1>c, <1>d, <3>1, <3>2, AppGoesOn
    <2>. QED
      BY <1>2, <2>1, <2>2
  <1>3. CASE application3
    <2>1. CASE Moves("main", "write", "close")
      BY <1>a, <1>b, <1>c, <1>d, <1>3, <2>1, AppGoesOn DEF application3, Moves
    <2>2. CASE Moves("main", "close", "gone")
      <3>1. app["update_display"] # "gone"
        BY <1>a, <1>b, <1>c, <1>d, <2>2 DEF ClientInv, Moves
      <3>2. app'["update_display"] = app["update_display"] /\ app'["main"] = "gone" /\ app' \in [AppThreads -> Places]
        BY <1>a, <1>b, <1>c, <1>d, <2>2 DEF Moves
      <3>3. UNCHANGED <<filled, user_sequence, torn>>
        BY <1>3 DEF application3
      <3>. QED
        BY <1>a, <1>b, <1>c, <1>d, <3>1, <3>2, <3>3, SameConstants DEF ClientInv
    <2>. QED
      BY <1>3, <2>1, <2>2 DEF application3
  <1>4. CASE create_threads
    <2>1. \/ app["main"] = "create" /\ app["update_display"] = "none"
          \/ app["main"] = "create measure"
      BY <1>4 DEF create_threads, ClientInv
    <2>2. /\ app' \in [AppThreads -> Places] /\ app'["main"] \notin Starting
          /\ app'["update_display"] \in {app["update_display"], "loop"}
          /\ app["main"] = "create measure" => app'["update_display"] = app["update_display"]
      BY <1>b, <1>c, <1>d, <1>4 DEF create_threads
    <2>3. UNCHANGED <<filled, user_sequence, torn>>
      BY <1>4 DEF create_threads
    <2>4. SequenceEnds
      BY <1>c, <2>1, SequenceMayEnd
    <2>5. app["update_display"] # "gone"
      BY <1>c, <2>1 DEF ClientInv
    <2>. QED
      BY <1>c, <1>d, <2>1, <2>2, <2>3, <2>4, <2>5, SameConstants DEF ClientInv, SequenceEnds
  <1>5. CASE display_begins
    BY <1>a, <1>b, <1>c, <1>d, <1>5, AppGoesOn DEF display_begins, Moves
  <1>6. CASE display_fills
    <2>1. filled \in 0 .. Steps - 1 /\ filled # Steps /\ filled + 1 \in 1 .. Steps /\ filled \in Entries
      <3>1. filled < Steps
        BY <1>6 DEF display_fills
      <3>. QED
        BY <1>d, <3>1, Max7219Assumption, ClientAssumption, SMT DEF Entries
    <2>2. user_sequence' \in Sequence
      BY <1>a, <1>b, <1>c, <1>d, <1>6, <2>1 DEF display_fills, Sequence
    <2>3. filled + 1 # Steps => user_sequence'[Steps] = user_sequence[Steps]
      BY <1>a, <1>b, <1>c, <1>d, <1>6, <2>1 DEF display_fills, Sequence
    <2>4. /\ app["update_display"] = "fill" /\ app' = app /\ torn' = torn
          /\ filled' = filled + 1 /\ filled # Steps
      BY <1>6, <2>1 DEF display_fills
    <2>5. SequenceEnds
      BY <1>a, <1>b, <1>c, <1>d, <2>4, SequenceMayEnd
    <2>6. torn \/ user_sequence'[Steps] = End \/ filled' = Steps
      BY <2>3, <2>4, <2>5 DEF SequenceEnds
    <2>7. filled' \in 0 .. Steps
      BY <2>1, <2>4, Max7219Assumption, SMT
    <2>. QED
      BY <1>a, <1>b, <1>c, <1>d, <2>2, <2>4, <2>6, <2>7, SameConstants DEF ClientInv
  <1>7. CASE display_ends_sequence
    <2>1. user_sequence' \in Sequence /\ user_sequence'[Steps] = End
      BY <1>a, <1>b, <1>c, <1>d, <1>7 DEF display_ends_sequence, Sequence
    <2>2. SequenceEnds'
      BY <2>1, SameConstants DEF SequenceEnds
    <2>. QED
      BY <1>a, <1>b, <1>c, <1>d, <1>7, <2>1, <2>2, AppMoves DEF display_ends_sequence, Moves
  <1>8. CASE display_writes
    BY <1>a, <1>b, <1>c, <1>d, <1>8, AppGoesOn DEF display_writes, Moves
  <1>9. CASE thread_ends
    BY <1>a, <1>b, <1>c, <1>d, <1>9, AppGoesOn DEF thread_ends, Moves
  <1>10. ASSUME NEW t \in AppThreads, interrupted(t), interrupt(t), UNCHANGED user_sequence
        PROVE  ClientInv'
    BY <1>a, <1>b, <1>c, <1>d, <1>10, AppGoesOn DEF interrupted, interrupt, Cleanup
  <1>11. ASSUME NEW t \in AppThreads, cleanup_clear(t) PROVE ClientInv'
    <2>1. user_sequence' \in Sequence
      BY <1>a, <1>b, <1>c, <1>d, <1>11 DEF cleanup_clear, Sequence
    <2>2. user_sequence[Steps] = End => user_sequence'[Steps] = End
      BY <1>a, <1>b, <1>c, <1>d, <1>11 DEF cleanup_clear, Sequence
    <2>3. /\ app[t] = "clear" /\ app' = [app EXCEPT ![t] = "clear write"]
          /\ filled' = filled /\ torn' = torn
      BY <1>11 DEF cleanup_clear, Moves
    <2>4. app["update_display"] = "fill" => app'["update_display"] = "fill"
      BY <1>a, <1>b, <1>c, <1>d, <2>3
    <2>5. SequenceEnds'
      BY <2>2, <2>3, <2>4, SequenceMayEnd, SameConstants DEF SequenceEnds
    <2>. QED
      BY <1>a, <1>b, <1>c, <1>d, <2>1, <2>3, <2>5, AppMoves
  <1>12. ASSUME NEW t \in AppThreads, cleanup_write(t) PROVE ClientInv'
    BY <1>a, <1>b, <1>c, <1>d, <1>12, AppGoesOn DEF cleanup_write, Moves
  <1>13. ASSUME NEW t \in AppThreads, cleanup_exit(t) PROVE ClientInv'
    <2>1. app' = [u \in AppThreads |-> "gone"] /\ UNCHANGED <<filled, user_sequence, torn>>
      BY <1>13 DEF cleanup_exit, process_ends
    <2>. QED
      BY <1>a, <1>b, <1>c, <1>d, <2>1, SameConstants DEF ClientInv
  <1>14. CASE application2
    <2>1. victim \in AppThreads
      BY <1>a, <1>b, <1>c, <1>d DEF victim
    <2>2. SIGINT => ClientInv'
      BY <1>a, <1>b, <1>c, <1>d, <1>10 DEF SIGINT
    <2>3. \A t \in AppThreads : cleanup_kill(t) => ClientInv'
      BY <1>10, <2>1 DEF cleanup_kill
    <2>. QED
      BY <1>4, <1>5, <1>6, <1>7, <1>8, <1>9, <1>11, <1>12, <1>13, <1>14, <2>2, <2>3
         DEF application2, cleanup
  <1>. QED
    BY <1>1, <1>2, <1>3, <1>14 DEF ClientStep, ClientNext

\* A step that is not a write asks for nothing new.
AskedStays == \A t \in Threads : Undisturbed(t)' => Undisturbed(t) /\ thread'[t].asked = thread[t].asked

LEMMA DisplayAsksNothing ==
  ASSUME TypeInv, NEW t \in Threads, display_thread(t, Statuses)
  PROVE  AskedStays
  <1>. DEFINE x == thread[t]
  <1>0. x \in Thread
    BY DEF TypeInv
  <1>1. CASE display_thread_step(t) \/ display_thread_next(t)
    <2>1. CASE \E pattern, n : send(t, pattern, n)
      BY <1>0, <2>1 DEF send, TypeInv, Thread, AskedStays, Undisturbed
    <2>2. CASE thread' = [thread EXCEPT ![t] = idle(x.asked, x.shown)]
      BY <2>2 DEF idle, TypeInv, AskedStays, Undisturbed
    <2>. QED
      BY <1>1, <2>1, <2>2 DEF display_thread_step, display_thread_next
  <1>2. ASSUME NEW status \in Statuses, spi_transfer(t, status) PROVE AskedStays
    <2>1. PICK pc : thread' = [thread EXCEPT ![t].pc = pc] \/ thread' = [Disturb({t}) EXCEPT ![t].pc = pc]
      BY <1>2 DEF spi_transfer
    <2>2. CASE thread' = [thread EXCEPT ![t].pc = pc]
      BY <1>0, <2>2 DEF TypeInv, Thread, AskedStays, Undisturbed
    <2>3. CASE thread' = [Disturb({t}) EXCEPT ![t].pc = pc]
      <3>1. /\ Disturb({t}) \in [Threads -> Thread]
            /\ Disturb({t})[t].asked = <<>> /\ \A u \in Threads \ {t} : Disturb({t})[u] = thread[u]
        BY DisturbType DEF TypeInv
      <3>. QED
        BY <2>3, <3>1 DEF Thread, AskedStays, Undisturbed
    <2>. QED
      BY <2>1, <2>2, <2>3
  <1>3. CASE send_returns(t)
    <2>1. thread' = [thread EXCEPT ![t] = IF x.to_display = End THEN idle(x.asked, x.shown)
                     ELSE IF x.n = LastMessage
                          THEN [x EXCEPT !.pc = "hold", !.shown = shown_by_now(t)]
                     ELSE [x EXCEPT !.pc = "next", !.n = following(t)]]
      BY <1>3 DEF send_returns
    <2>2. thread'[t].asked = x.asked /\ \A u \in Threads \ {t} : thread'[u] = thread[u]
      BY <1>0, <2>1 DEF TypeInv, Thread, idle
    <2>. QED
      BY <2>2 DEF AskedStays, Undisturbed
  <1>4. CASE display_thread_held(t)
    BY <1>0, <1>4 DEF display_thread_held, TypeInv, Thread, AskedStays, Undisturbed
  <1>. QED
    BY <1>1, <1>2, <1>3, <1>4 DEF display_thread

LEMMA WriteAsks ==
  ASSUME TypeInv, NEW entries \in Sequence, NEW p, spidev_write(p, entries, Steps)
  PROVE  \A t \in Threads : Undisturbed(t)' =>
           \/ Undisturbed(t) /\ thread'[t].asked = thread[t].asked
           \/ thread'[t].asked = entries
  <1>1. sequence' = entries
    BY DEF spidev_write, Sequence
  <1>2. CASE thread' = Disturb(running)
    BY <1>2, DisturbType DEF TypeInv, Undisturbed
  <1>3. ASSUME NEW t \in Threads, NEW asked \in {<<>>, entries},
               thread' = [Disturb(Threads) EXCEPT ![t] = [idle(asked, <<>>) EXCEPT !.pc = "step"]]
        PROVE  \A u \in Threads : Undisturbed(u)' => thread'[u].asked = entries
    <2>1. /\ Disturb(Threads) \in [Threads -> Thread]
          /\ \A u \in Threads : Disturb(Threads)[u].asked = <<>>
      BY DisturbType DEF TypeInv
    <2>2. thread'[t].asked = asked /\ \A u \in Threads \ {t} : thread'[u].asked = <<>>
      BY <1>3, <2>1 DEF idle
    <2>. QED
      BY <2>2 DEF Undisturbed
  <1>. QED
    BY <1>1, <1>2, <1>3 DEF spidev_write

\* What the displays of application2 and application3 were asked to show ends.
LEMMA AskedStep ==
  ASSUME TypeInv, ClientInv, AskedInv, ClientStep
  PROVE  AskedInv'
  <1>1. client' = client
    BY DEF ClientStep, ClientNext, clientVars, main_opens, main_sets_patterns, application3,
           application2, create_threads, display_begins, display_fills, display_ends_sequence,
           display_writes, thread_ends, SIGINT, cleanup, cleanup_clear, cleanup_write,
           cleanup_kill, cleanup_exit
  <1>. SUFFICES ASSUME client # "any", ~torn'
                PROVE  \A t \in Threads : Undisturbed(t)' => Ends(thread'[t].asked)
    BY <1>1 DEF AskedInv, Ends, End
  <1>2. ASSUME AskedStays, ~torn
        PROVE  \A t \in Threads : Undisturbed(t)' => Ends(thread'[t].asked)
    BY <1>2 DEF AskedInv, AskedStays
  <1>3. ASSUME NEW entries \in Sequence, spidev_write(Process, entries, Steps), ~torn, Ends(entries)
        PROVE  \A t \in Threads : Undisturbed(t)' => Ends(thread'[t].asked)
    BY <1>3, WriteAsks DEF AskedInv
  <1>4. Steps \in 1 .. Steps
    BY Max7219Assumption
  <1>5. ASSUME UNCHANGED thread PROVE AskedStays
    BY <1>5 DEF AskedStays, Undisturbed
  <1>6. CASE main_opens \/ main_sets_patterns
    <2>1. thread' = thread \/ thread' = Disturb(running)
      BY <1>6 DEF main_opens, main_sets_patterns, spidev_open, spidev_ioctl
    <2>2. thread' = Disturb(running) => AskedStays
      BY DisturbType DEF TypeInv, AskedStays, Undisturbed
    <2>. QED
      BY <1>2, <1>5, <1>6, <2>1, <2>2 DEF main_opens, main_sets_patterns
  <1>7. CASE application3
    <2>1. complete_sequence \in Sequence
      BY Max7219Assumption, ClientAssumption DEF complete_sequence, Sequence, Entries
    <2>2. Ends(complete_sequence)
      BY <1>4, Max7219Assumption DEF complete_sequence, Ends
    <2>3. CASE spidev_release(Process)
      BY <1>2, <1>5, <1>7, <2>3 DEF application3, spidev_release
    <2>4. CASE spidev_write(Process, complete_sequence, Steps)
      BY <1>3, <1>7, <2>1, <2>2, <2>4 DEF application3
    <2>. QED
      BY <1>7, <2>3, <2>4 DEF application3
  <1>8. ASSUME writes_sequence, ~torn, NEW u \in AppThreads, app[u] # "gone",
               app["update_display"] # "fill"
        PROVE  \A t \in Threads : Undisturbed(t)' => Ends(thread'[t].asked)
    <2>1. user_sequence \in Sequence /\ Ends(user_sequence)
      BY <1>4, <1>8, SequenceMayEnd DEF ClientInv, SequenceEnds, Ends
    <2>. QED
      BY <1>2, <1>3, <1>5, <1>8, <2>1 DEF writes_sequence
  <1>9. CASE application2
    <2>1. CASE \/ create_threads \/ display_begins \/ display_fills \/ display_ends_sequence
               \/ thread_ends
      BY <1>2, <1>5, <2>1
         DEF create_threads, display_begins, display_fills, display_ends_sequence, thread_ends
    <2>2. CASE display_writes
      <3>1. "update_display" \in AppThreads
        BY DEF AppThreads
      <3>. QED
        BY <1>8, <2>2, <3>1 DEF display_writes, Moves
    <2>3. ASSUME NEW t \in AppThreads, cleanup_write(t)
          PROVE  \A w \in Threads : Undisturbed(w)' => Ends(thread'[w].asked)
      <3>1. ~torn /\ app["update_display"] # "fill"
        BY <2>3 DEF cleanup_write
      <3>. QED
        BY <1>8, <2>3, <3>1 DEF cleanup_write, Moves
    <2>4. ASSUME NEW t \in AppThreads, interrupt(t), UNCHANGED thread
          PROVE  \A w \in Threads : Undisturbed(w)' => Ends(thread'[w].asked)
      <3>1. ~torn
        BY <2>4 DEF interrupt
      <3>. QED
        BY <1>5, <2>4, <3>1 DEF AskedInv, AskedStays
    <2>5. victim \in AppThreads /\ "main" \in AppThreads
      BY DEF victim, AppThreads
    <2>6. CASE SIGINT \/ \E t \in AppThreads : cleanup_kill(t)
      BY <2>4, <2>5, <2>6 DEF SIGINT, cleanup_kill
    <2>7. ASSUME NEW t \in AppThreads, cleanup_clear(t) \/ cleanup_exit(t)
          PROVE  \A w \in Threads : Undisturbed(w)' => Ends(thread'[w].asked)
      <3>1. UNCHANGED <<thread, torn>>
        BY <2>7 DEF cleanup_clear, cleanup_exit, process_ends, spidev_release
      <3>. QED
        BY <1>2, <1>5, <3>1
    <2>. QED
      BY <1>9, <2>1, <2>2, <2>3, <2>6, <2>7 DEF application2, cleanup
  <1>10. ASSUME NEW t \in Threads, display_thread(t, Outcomes), UNCHANGED clientVars
         PROVE  \A w \in Threads : Undisturbed(w)' => Ends(thread'[w].asked)
    <2>1. display_thread(t, Statuses)
      BY <1>10, Max7219Assumption DEF Outcomes, display_thread
    <2>. QED
      BY <1>2, <1>10, <2>1, DisplayAsksNothing DEF clientVars
  <1>11. CASE UNCHANGED <<vars, clientVars>>
    BY <1>2, <1>5, <1>11 DEF vars, clientVars
  <1>. QED
    BY <1>6, <1>7, <1>9, <1>10, <1>11 DEF ClientStep, ClientNext

-----------------------------------------------------------------------------
(* The invariant, and what follows from it.                                *)

Inv == TypeInv /\ DisplayInv /\ ClientInv /\ AskedInv

LEMMA InvInit == ClientInit => Inv
  <1>. SUFFICES ASSUME ClientInit PROVE Inv
    OBVIOUS
  <1>1. TypeInv /\ DisplayInv
    BY DisplayInit DEF ClientInit
  <1>2. Steps \in 1 .. Steps /\ 0 \in 0 .. Steps
    BY Max7219Assumption
  <1>3. ClientInv
    BY <1>2 DEF ClientInit, ClientInv, AppThreads, Places, Starting, Sequence, Entries
  <1>4. AskedInv
    BY <1>2 DEF ClientInit, Init, idle, AskedInv, Ends
  <1>. QED
    BY <1>1, <1>3, <1>4 DEF Inv

LEMMA InvStep == Inv /\ ClientStep => Inv'
  BY ClientTakesDriverStep, TypeStep, DisplayStep, ClientInvStep, AskedStep DEF Inv, ClientInv

LEMMA InvAlways == ClientSpec => []Inv
  BY InvInit, InvStep, PTL DEF ClientSpec, ClientStep

LEMMA InvShows == Inv => ShownIsWanted
  <1>. SUFFICES ASSUME Inv, NEW t \in Threads, thread[t].pc = "hold", Undisturbed(t)
                PROVE  /\ register[SHUTDOWN] = 1 /\ register[DISPLAY_TEST] = 0
                       /\ register[SCAN_LIMIT] = 7 /\ register[DECODE] = 0
                       /\ \A r \in 1 .. Rows : register[r] = pattern_array[thread[t].to_display][r]
    BY DEF ShownIsWanted
  <1>1. Arrived(thread[t], 5 + Rows)
    BY DEF Inv, DisplayInv, Running
  <1>. QED
    BY <1>1, Max7219Assumption, SMT DEF Arrived

\* README:34 "display the patterns", for any number of rows, patterns, threads
\* and processes and whatever overlapping threads and failed transfers have
\* left in the chip's registers.
THEOREM ShownCorrect == ClientSpec => []ShownIsWanted
  BY InvAlways, InvShows, PTL

\* A display that was asked for an end has met it: it has shown no end.
LEMMA InvIsDark == Inv => DarkWhenDone
  <1>. SUFFICES ASSUME Inv, NEW t \in Threads, thread[t].pc = "idle", Undisturbed(t), ~torn,
                       client = "any" => \E i \in 1 .. Steps : thread[t].asked[i] = End
                PROVE  register[SHUTDOWN] = 0
    BY DEF DarkWhenDone
  <1>1. PICK i \in 1 .. Steps : thread[t].asked[i] = End
    BY DEF Inv, AskedInv, Ends
  <1>2. PICK m \in 0 .. Steps :
          Shows(thread[t], m) /\ (m < Steps => thread[t].asked[m + 1] = End /\ register[SHUTDOWN] = 0)
    BY DEF Inv, DisplayInv, Ended
  <1>3. ~(i \in 1 .. m)
    BY <1>1, <1>2 DEF Shows
  <1>4. m < Steps
    BY <1>3, Max7219Assumption, SMT
  <1>. QED
    BY <1>2, <1>4

\* application2.c:279, application3.c:64 "turn off display matrix", wherever
\* Ctrl+C and the three runs of cleanup() fall, for any number of sequences.
THEOREM DarkCorrect == ClientSpec => []DarkWhenDone
  BY InvAlways, InvIsDark, PTL

\* What is shown is a prefix of what was asked, up to its end.
LEMMA ShownIsPrefix ==
  ASSUME NEW asked \in Sequence, NEW shown \in Seq(Entries), NEW m \in 0 .. Steps,
         Len(shown) = m, \A k \in 1 .. m : shown[k] = asked[k] /\ asked[k] # End
  PROVE  /\ IsPrefix(shown, UpToEnd(asked))
         /\ m = Steps \/ asked[m + 1] = End => shown = UpToEnd(asked)
  <1>. DEFINE ends == {i \in 1 .. Steps : asked[i] = End}
  <1>0. Steps \in Nat /\ asked \in Seq(Entries) /\ Len(asked) = Steps
    BY Max7219Assumption DEF Sequence
  <1>1. CASE ends = {}
    <2>1. UpToEnd(asked) = asked
      BY <1>1 DEF UpToEnd
    <2>2. m = Steps \/ asked[m + 1] = End => m = Steps
      BY <1>0, <1>1
    <2>. QED
      BY <1>0, <2>1, <2>2 DEF IsPrefix
  <1>2. CASE ends # {}
    <2>. DEFINE e == Min(ends)
    <2>1. e \in ends /\ \A y \in ends : e =< y
      <3>1. ends \in SUBSET Nat /\ ends # {}
        BY <1>2
      <3>. HIDE DEF ends
      <3>. QED
        BY <3>1, MinIsLeast
    <2>2. UpToEnd(asked) = SubSeq(asked, 1, e - 1)
      BY <1>2 DEF UpToEnd
    <2>3. ~(e \in 1 .. m)
      BY <2>1
    <2>4. e \in 1 .. Steps
      BY <2>1
    <2>5. m = Steps \/ asked[m + 1] = End => e = m + 1
      BY <1>0, <2>1, <2>3, <2>4, SMT
    <2>. HIDE DEF e
    <2>6. m =< e - 1 /\ e - 1 \in 0 .. Steps
      BY <1>0, <2>3, <2>4, SMT
    <2>7. /\ SubSeq(asked, 1, e - 1) \in Seq(Entries)
          /\ Len(SubSeq(asked, 1, e - 1)) = e - 1
          /\ \A k \in 1 .. e - 1 : SubSeq(asked, 1, e - 1)[k] = asked[k]
      BY <1>0, <2>6
    <2>. QED
      BY <1>0, <2>2, <2>5, <2>6, <2>7, SeqEqual DEF IsPrefix
  <1>. QED
    BY <1>1, <1>2

LEMMA InvInSequence == Inv => PatternsInSequence
  <1>. SUFFICES ASSUME Inv, NEW t \in Threads, Undisturbed(t)
                PROVE  /\ IsPrefix(thread[t].shown, UpToEnd(thread[t].asked))
                       /\ thread[t].pc = "idle" => thread[t].shown = UpToEnd(thread[t].asked)
    BY DEF PatternsInSequence
  <1>1. thread[t].asked \in Sequence /\ thread[t].shown \in Seq(Entries) /\ thread[t].i \in 1 .. Steps + 1
    BY DEF Inv, TypeInv, Thread, Undisturbed
  <1>2. CASE thread[t].pc = "idle"
    <2>1. PICK m \in 0 .. Steps : Shows(thread[t], m) /\ (m < Steps => thread[t].asked[m + 1] = End)
      BY <1>2 DEF Inv, DisplayInv, Ended
    <2>2. m = Steps \/ thread[t].asked[m + 1] = End
      BY <2>1, Max7219Assumption, SMT
    <2>. QED
      BY <1>1, <2>1, <2>2, ShownIsPrefix DEF Shows
  <1>3. CASE thread[t].pc # "idle"
    <2>1. CASE thread[t].pc = "hold"
      <3>1. Shows(thread[t], thread[t].i) /\ thread[t].i \in 0 .. Steps
        BY <1>3, <2>1, Max7219Assumption DEF Inv, DisplayInv, TypeInv, Running, AtEntry
      <3>. QED
        BY <1>1, <1>3, <3>1, ShownIsPrefix DEF Shows
    <2>2. CASE thread[t].pc # "hold"
      <3>1. Shows(thread[t], thread[t].i - 1)
        BY <1>3, <2>2 DEF Inv, DisplayInv, Running
      <3>2. thread[t].i - 1 \in 0 .. Steps
        BY <1>1, Max7219Assumption, SMT
      <3>. QED
        BY <1>1, <1>3, <3>1, <3>2, ShownIsPrefix DEF Shows
    <2>. QED
      BY <2>1, <2>2
  <1>. QED
    BY <1>2, <1>3

\* README:34-35 "display the patterns in sequence": in their order, none
\* missing, for any number of steps and whatever other files do.
THEOREM SequenceCorrect == ClientSpec => []PatternsInSequence
  BY InvAlways, InvInSequence, PTL

-----------------------------------------------------------------------------
(* The steps of a message.                                                 *)

\* Who takes a display thread's steps.
LEMMA ThreadMovesItself ==
  ASSUME TypeInv, DriverStep, NEW t \in Threads, thread[t].pc # "idle"
  PROVE  \/ thread'[t] = Disturb({t})[t] \/ thread'[t] = thread[t]
         \/ display_thread(t, Statuses)
  <1>1. ASSUME NEW u \in Threads, display_thread(u, Statuses), u # t
        PROVE  thread'[t] = thread[t]
    <2>1. \A S : /\ Disturb(S) \in [Threads -> Thread]
                 /\ \A w \in Threads \ S : Disturb(S)[w] = thread[w]
      BY DisturbType DEF TypeInv
    <2>2. \/ \E y : thread' = [thread EXCEPT ![u] = y]
          \/ \E y : thread' = [Disturb({u}) EXCEPT ![u] = y]
      BY <1>1 DEF display_thread, display_thread_step, display_thread_next, display_thread_held,
                  spi_transfer, send_returns, send
    <2>. QED
      BY <1>1, <2>1, <2>2 DEF TypeInv
  <1>2. ASSUME NEW p, NEW images, spidev_ioctl(p, images) PROVE thread'[t] = Disturb({t})[t]
    BY <1>2 DEF spidev_ioctl, Disturb, running
  <1>3. ASSUME NEW p, NEW entries, NEW n, spidev_write(p, entries, n)
        PROVE  thread'[t] = Disturb({t})[t]
    BY <1>3 DEF spidev_write, Disturb, running
  <1>. QED
    BY <1>1, <1>2, <1>3 DEF DriverStep, vars, spidev_open, spidev_release

LEMMA MessageArrivesStep ==
  ASSUME Inv, DriverStep, NEW t \in Threads, thread[t].pc = "sent", thread'[t].pc # "sent",
         Undisturbed(t)
  PROVE  register' = [register EXCEPT ![thread[t].buffer[1]] = thread[t].buffer[2]]
  <1>1. send_returns(t)
    <2>1. Disturb({t})[t].pc = thread[t].pc
      BY DisturbType DEF Inv, TypeInv
    <2>2. display_thread(t, Statuses)
      BY <2>1, ThreadMovesItself DEF Inv
    <2>. QED
      BY <2>2 DEF display_thread, display_thread_step, spi_transfer, display_thread_next,
                  display_thread_held
  <1>2. cs = 0 /\ shift = thread[t].buffer
    BY DEF Inv, DisplayInv, Running
  <1>3. shift # <<>>
    <2>1. shift \in Registers \X Nat
      BY <1>2 DEF Inv, TypeInv, Thread, Message
    <2>2. <<>> \notin Registers \X Nat
      OBVIOUS
    <2>. QED
      BY <2>1, <2>2
  <1>. QED
    BY <1>1, <1>2, <1>3 DEF send_returns, rise

\* spidriver.c:86 "Send the message buffer": every message of an undisturbed
\* thread arrives in its register and changes no other.
THEOREM MessageCorrect == ClientSpec => MessageArrives
  <1>1. ASSUME Inv, ClientStep
        PROVE  [\A t \in Threads :
                  thread[t].pc = "sent" /\ thread'[t].pc # "sent" /\ Undisturbed(t) =>
                    register' = [register EXCEPT ![thread[t].buffer[1]] = thread[t].buffer[2]]]_vars
    BY <1>1, ClientTakesDriverStep, MessageArrivesStep DEF Inv, ClientInv
  <1>. QED
    BY <1>1, InvAlways, PTL DEF ClientSpec, ClientStep, MessageArrives

-----------------------------------------------------------------------------
(* The end of a display.                                                   *)

LEMMA PositionOf ==
  ASSUME NEW x \in Thread
  PROVE  /\ x.i * (LastMessage + 1) \in Int /\ x.n \in 1 .. LastMessage
         /\ x.pc = "step" => Position(x) = (x.i * (LastMessage + 1)) * 4
         /\ x.pc = "next" => Position(x) = (x.i * (LastMessage + 1) + x.n) * 4
         /\ x.pc = "sending" => Position(x) = (x.i * (LastMessage + 1) + x.n) * 4 + 1
         /\ x.pc \in {"sent", "nothing_sent"} => Position(x) = (x.i * (LastMessage + 1) + x.n) * 4 + 2
         /\ x.pc = "hold" => Position(x) = (x.i * (LastMessage + 1) + x.n) * 4 + 3
  <1>1. x.i \in Int /\ x.n \in 1 .. LastMessage /\ LastMessage \in Nat
    BY MessageCount, Max7219Assumption DEF Thread
  <1>2. ASSUME NEW k \in Int PROVE k * (LastMessage + 1) \in Int
    BY <1>1, SMT
  <1>3. x.i * (LastMessage + 1) \in Int
    BY <1>1, <1>2
  <1>. DEFINE k == x.i * (LastMessage + 1)
  <1>4. Position(x) = (k + (IF x.pc = "step" THEN 0 ELSE x.n)) * 4 +
                      (CASE x.pc \in {"step", "next"} -> 0   [] x.pc = "sending" -> 1
                         [] x.pc \in {"sent", "nothing_sent"} -> 2   [] x.pc = "hold" -> 3)
    BY DEF Position
  <1>5. k \in Int /\ x.n \in Int
    BY <1>1, <1>3
  <1>. HIDE DEF k
  <1>6. /\ x.pc = "step" => Position(x) = k * 4
        /\ x.pc = "next" => Position(x) = (k + x.n) * 4
        /\ x.pc = "sending" => Position(x) = (k + x.n) * 4 + 1
        /\ x.pc \in {"sent", "nothing_sent"} => Position(x) = (k + x.n) * 4 + 2
        /\ x.pc = "hold" => Position(x) = (k + x.n) * 4 + 3
    BY <1>4, <1>5, SMT
  <1>. QED
    BY <1>1, <1>3, <1>6 DEF k

\* One entry further outweighs all the messages of an entry.
LEMMA EntryIsFurther ==
  ASSUME NEW i \in Int, NEW n \in 1 .. LastMessage
  PROVE  ((i + 1) * (LastMessage + 1)) * 4 > (i * (LastMessage + 1) + n) * 4 + 3
  <1>1. ASSUME NEW last \in Nat PROVE (i + 1) * (last + 1) = i * (last + 1) + last + 1
    BY <1>1, SMT
  <1>2. LastMessage \in Nat /\ i * (LastMessage + 1) \in Int
    BY MessageCount, SMT
  <1>3. (i + 1) * (LastMessage + 1) = i * (LastMessage + 1) + LastMessage + 1
    BY <1>1, <1>2
  <1>4. ASSUME NEW k \in Int, NEW last \in Nat, n =< last PROVE (k + last + 1) * 4 > (k + n) * 4 + 3
    BY <1>4, SMT
  <1>. QED
    BY <1>2, <1>3, <1>4

\* A thread that only changes its position in a message goes forward.
LEMMA MessageIsFurther ==
  ASSUME NEW x \in Thread, NEW y \in Thread, y.i = x.i,
         \/ x.pc = "step" /\ y.pc = "sending"
         \/ x.pc = "next" /\ y.pc = "sending" /\ y.n = x.n
         \/ x.pc = "sending" /\ y.pc \in {"sent", "nothing_sent"} /\ y.n = x.n
         \/ x.pc \in {"sent", "nothing_sent"} /\ y.pc = "hold" /\ y.n = x.n
         \/ x.pc \in {"sent", "nothing_sent"} /\ y.pc = "next" /\ y.n > x.n
  PROVE  Position(y) > Position(x)
  <1>. DEFINE k == x.i * (LastMessage + 1)
  <1>1. y.i * (LastMessage + 1) = k
    OBVIOUS
  <1>2. k \in Int /\ x.n \in 1 .. LastMessage /\ y.n \in 1 .. LastMessage
    BY PositionOf
  <1>. HIDE DEF k
  <1>3. CASE x.pc = "step" /\ y.pc = "sending"
    BY <1>1, <1>2, <1>3, PositionOf, SMT DEF k
  <1>4. CASE x.pc = "next" /\ y.pc = "sending" /\ y.n = x.n
    BY <1>1, <1>2, <1>4, PositionOf, SMT DEF k
  <1>5. CASE x.pc = "sending" /\ y.pc \in {"sent", "nothing_sent"} /\ y.n = x.n
    BY <1>1, <1>2, <1>5, PositionOf, SMT DEF k
  <1>6. CASE x.pc \in {"sent", "nothing_sent"} /\ y.pc = "hold" /\ y.n = x.n
    BY <1>1, <1>2, <1>6, PositionOf, SMT DEF k
  <1>7. CASE x.pc \in {"sent", "nothing_sent"} /\ y.pc = "next" /\ y.n > x.n
    BY <1>1, <1>2, <1>7, PositionOf, SMT DEF k
  <1>. QED
    BY <1>3, <1>4, <1>5, <1>6, <1>7

LEMMA ThreadAdvances ==
  ASSUME TypeInv, TypeInv', NEW t \in Threads, display_thread(t, Statuses)
  PROVE  thread'[t].pc = "idle" \/ Position(thread'[t]) > Position(thread[t])
  <1>. DEFINE x == thread[t]
              y == thread'[t]
  <1>0. x \in Thread /\ y \in Thread
    <2>1. thread' \in [Threads -> Thread]
      BY DEF TypeInv, Thread
    <2>. QED
      BY <2>1 DEF TypeInv
  <1>1. ASSUME NEW pattern, NEW n, send(t, pattern, n), x.pc = "step" \/ (x.pc = "next" /\ n = x.n)
        PROVE  Position(y) > Position(x)
    <2>1. y = [x EXCEPT !.pc = "sending", !.to_display = pattern, !.n = n, !.buffer = message(pattern, n)]
      BY <1>1 DEF send, TypeInv
    <2>2. y.pc = "sending" /\ y.i = x.i /\ y.n = n
      BY <1>0, <2>1 DEF Thread
    <2>. HIDE DEF x, y
    <2>. QED
      BY <1>0, <1>1, <2>2, MessageIsFurther
  <1>2. CASE display_thread_step(t)
    <2>1. thread' = [thread EXCEPT ![t] = idle(x.asked, x.shown)] => y.pc = "idle"
      BY DEF TypeInv, idle
    <2>. QED
      BY <1>1, <1>2, <2>1 DEF display_thread_step
  <1>3. CASE display_thread_next(t)
    BY <1>1, <1>3 DEF display_thread_next
  <1>4. ASSUME NEW status \in Statuses, spi_transfer(t, status) PROVE Position(y) > Position(x)
    <2>1. PICK threads \in {thread, Disturb({t})} :
            thread' = [threads EXCEPT ![t].pc = IF status = 0 THEN "nothing_sent" ELSE "sent"]
      BY <1>4 DEF spi_transfer
    <2>2. /\ threads \in [Threads -> Thread]
          /\ threads[t].i = x.i /\ threads[t].n = x.n
      <3>1. /\ Disturb({t}) \in [Threads -> Thread]
            /\ Disturb({t})[t].i = x.i /\ Disturb({t})[t].n = x.n
        BY DisturbType DEF TypeInv
      <3>. QED
        BY <2>1, <3>1 DEF TypeInv
    <2>3. y.pc \in {"sent", "nothing_sent"} /\ y.i = x.i /\ y.n = x.n
      BY <2>1, <2>2 DEF Thread
    <2>4. x.pc = "sending"
      BY <1>4 DEF spi_transfer
    <2>. HIDE DEF x, y
    <2>. QED
      BY <1>0, <2>3, <2>4, MessageIsFurther
  <1>5. CASE send_returns(t)
    <2>1. y = IF x.to_display = End THEN idle(x.asked, x.shown)
              ELSE IF x.n = LastMessage
                   THEN [x EXCEPT !.pc = "hold", !.shown = shown_by_now(t)]
              ELSE [x EXCEPT !.pc = "next", !.n = following(t)]
      BY <1>5 DEF send_returns, TypeInv
    <2>2. x.pc \in {"sent", "nothing_sent"}
      BY <1>5 DEF send_returns
    <2>3. following(t) > x.n
      BY <1>0, MessageCount, Max7219Assumption, SMT DEF following, Thread
    <2>4. \/ y.pc = "idle"
          \/ y.pc = "hold" /\ y.i = x.i /\ y.n = x.n
          \/ y.pc = "next" /\ y.i = x.i /\ y.n > x.n
      BY <1>0, <2>1, <2>3 DEF Thread, idle
    <2>. HIDE DEF x, y
    <2>. QED
      BY <1>0, <2>2, <2>4, MessageIsFurther DEF x, y
  <1>6. CASE display_thread_held(t)
    <2>1. x.pc = "hold" /\ y.pc = "step" /\ y.i = x.i + 1
      BY <1>0, <1>6 DEF display_thread_held, TypeInv, Thread
    <2>2. x.i \in Int /\ x.n \in 1 .. LastMessage
      BY <1>0, Max7219Assumption DEF Thread
    <2>. HIDE DEF x, y
    <2>3. Position(y) = ((x.i + 1) * (LastMessage + 1)) * 4
      BY <1>0, <2>1, PositionOf
    <2>4. Position(x) = (x.i * (LastMessage + 1) + x.n) * 4 + 3
      BY <1>0, <2>1, PositionOf
    <2>. QED
      BY <2>2, <2>3, <2>4, EntryIsFurther DEF x, y
  <1>. QED
    BY <1>2, <1>3, <1>4, <1>5, <1>6 DEF display_thread

\* Whatever is written, whichever transfers fail and whoever else uses the
\* chip, a running thread only ever goes forward, for any number of rows and
\* steps: the measure by which every display comes to its end.
THEOREM AdvanceCorrect == ClientSpec => DisplayAdvances
  <1>1. ASSUME Inv, ClientStep
        PROVE  [\A t \in running :
                  \/ thread'[t] = Disturb({t})[t] \/ UNCHANGED thread[t]
                  \/ thread'[t].pc = "idle"
                  \/ Position(thread'[t]) > Position(thread[t])]_vars
    <2>1. TypeInv /\ TypeInv' /\ DriverStep
      BY <1>1, ClientTakesDriverStep, TypeStep DEF Inv, ClientInv
    <2>2. ASSUME NEW t \in running
          PROVE  \/ thread'[t] = Disturb({t})[t] \/ thread'[t] = thread[t]
                 \/ thread'[t].pc = "idle"
                 \/ Position(thread'[t]) > Position(thread[t])
      BY <2>1, ThreadMovesItself, ThreadAdvances DEF running
    <2>. QED
      BY <2>2
  <1>. QED
    BY <1>1, InvAlways, PTL DEF ClientSpec, ClientStep, DisplayAdvances

-----------------------------------------------------------------------------
(* The promise of MatrixDisplay: the chip is never in its test mode...     *)

NoTest(m) == m[1] = DISPLAY_TEST => m[2] = 0

\* Neither a register nor a message under way turns the test on.
TestInv ==
  /\ register[DISPLAY_TEST] = 0
  /\ shift # <<>> => NoTest(shift)
  /\ \A t \in Threads : NoTest(thread[t].buffer)

LEMMA MessagesDoNotTest ==
  ASSUME pattern_array \in [Patterns -> [1 .. Rows -> Nat]], NEW e \in Entries, NEW n \in 1 .. LastMessage
  PROVE  NoTest(message(e, n))
  <1>1. CASE e = End
    BY <1>1 DEF message, NoTest
  <1>2. CASE e # End
    <2>1. e \in Patterns
      BY <1>2, EntryIsPattern
    <2>2. CASE n \in 6 .. LastMessage
      <3>1. message(e, n) = <<n - 5, pattern_array[e][n - 5]>>
        BY <2>1, <2>2, MessageOf
      <3>2. n - 5 \in 1 .. 8
        BY <2>2, MessageCount, Max7219Assumption, SMT
      <3>. QED
        BY <3>1, <3>2, SMT DEF NoTest, DISPLAY_TEST
    <2>3. CASE n \in 1 .. 5
      <3>1. n \in {1, 2, 3, 4, 5}
        BY <2>3
      <3>. QED
        BY <2>1, <3>1, MessageOf, SMT
           DEF NoTest, DECODE, DISPLAY_TEST, SHUTDOWN, INTENSITY, SCAN_LIMIT
    <2>. QED
      BY <2>2, <2>3, MessageCount, SMT
  <1>. QED
    BY <1>1, <1>2

LEMMA TestInit == Init => TestInv
  <1>. SUFFICES ASSUME Init PROVE TestInv
    OBVIOUS
  <1>1. register[DISPLAY_TEST] = 0
    BY SMT DEF Init, PowerOn, Registers, DECODE, DISPLAY_TEST
  <1>2. \A t \in Threads : NoTest(thread[t].buffer)
    <2>1. \A t \in Threads : thread[t].buffer = <<SHUTDOWN, 0>>
      BY DEF Init, idle
    <2>. QED
      BY <2>1 DEF NoTest
  <1>3. shift = <<>>
    BY DEF Init
  <1>. QED
    BY <1>1, <1>2, <1>3 DEF TestInv

\* A step that leaves the chip alone, and each thread its message or one that
\* is no test.
LEMMA TestStays ==
  ASSUME TestInv, UNCHANGED <<shift, register>>,
         \A t \in Threads : thread'[t].buffer = thread[t].buffer \/ NoTest(thread'[t].buffer)
  PROVE  TestInv'
  BY DEF TestInv, NoTest, DISPLAY_TEST

LEMMA TestDisturb ==
  ASSUME thread \in [Threads -> Thread], NEW S
  PROVE  \A t \in Threads : Disturb(S)[t].buffer = thread[t].buffer
  <1>1. \A x \in Thread : [x EXCEPT !.asked = <<>>, !.shown = <<>>].buffer = x.buffer
    BY DEF Thread
  <1>. QED
    BY <1>1 DEF Disturb

LEMMA TestCall ==
  ASSUME TypeInv, TestInv, NEW p,
         \/ spidev_open(p) \/ spidev_release(p)
         \/ \E images \in Arrays : spidev_ioctl(p, images)
         \/ \E entries \in Sequence, n \in 0 .. Steps : spidev_write(p, entries, n)
  PROVE  TestInv'
  <1>. DEFINE Starts(t, asked) ==
         thread' = [Disturb(Threads) EXCEPT ![t] = [idle(asked, <<>>) EXCEPT !.pc = "step"]]
  <1>1. UNCHANGED <<shift, register>>
    BY DEF spidev_open, spidev_release, spidev_ioctl, spidev_write, chipVars
  <1>2. \/ thread' = thread \/ thread' = Disturb(running)
        \/ \E t \in Threads : \E asked : Starts(t, asked)
    BY DEF spidev_open, spidev_release, spidev_ioctl, spidev_write
  <1>3. CASE thread' = thread \/ thread' = Disturb(running)
    BY <1>1, <1>3, TestDisturb, TestStays DEF TypeInv
  <1>4. ASSUME NEW t \in Threads, NEW asked, Starts(t, asked) PROVE TestInv'
    <2>1. \A u \in Threads : Disturb(Threads)[u].buffer = thread[u].buffer
      BY TestDisturb DEF TypeInv
    <2>2. \A u \in Threads \ {t} : thread'[u] = Disturb(Threads)[u]
      BY <1>4, DisturbType DEF TypeInv
    <2>3. thread'[t].buffer = <<SHUTDOWN, 0>>
      BY <1>4, DisturbType DEF TypeInv, idle
    <2>4. NoTest(thread'[t].buffer)
      BY <2>3 DEF NoTest
    <2>. QED
      BY <1>1, <2>1, <2>2, <2>4, TestStays
  <1>. QED
    BY <1>2, <1>3, <1>4

LEMMA TestSend ==
  ASSUME TypeInv, TestInv, NEW t \in Threads, NEW pattern \in Entries, NEW n \in 1 .. LastMessage,
         send(t, pattern, n)
  PROVE  TestInv'
  <1>1. NoTest(thread'[t].buffer)
    BY Sends, MessagesDoNotTest DEF TypeInv
  <1>. QED
    BY <1>1, Sends, TestStays

LEMMA TestThread ==
  ASSUME TypeInv, TestInv, NEW t \in Threads, display_thread(t, Statuses)
  PROVE  TestInv'
  <1>. DEFINE x == thread[t]
  <1>0. x \in Thread
    BY DEF TypeInv
  <1>1. CASE display_thread_step(t)
    <2>1. CASE x.i > Steps
      <3>1. thread' = [thread EXCEPT ![t] = idle(x.asked, x.shown)] /\ UNCHANGED <<shift, register>>
        BY <1>1, <2>1 DEF display_thread_step, driverVars, chipVars
      <3>2. thread'[t].buffer = <<SHUTDOWN, 0>>
        BY <3>1 DEF TypeInv, idle
      <3>3. NoTest(thread'[t].buffer)
        BY <3>2 DEF NoTest
      <3>4. \A u \in Threads \ {t} : thread'[u] = thread[u]
        BY <3>1 DEF TypeInv
      <3>. QED
        BY <3>1, <3>3, <3>4, TestStays
    <2>2. CASE ~(x.i > Steps)
      <3>1. x.i \in 1 .. Steps
        BY <1>0, <2>2, Max7219Assumption, SMT DEF Thread
      <3>2. sequence[x.i] \in Entries /\ 1 \in 1 .. LastMessage
        BY <3>1, MessageCount DEF TypeInv, Sequence
      <3>3. \A e \in Entries : e = sequence[x.i] => send(t, e, 1)
        BY <1>1, <2>2 DEF display_thread_step
      <3>. QED
        BY <3>2, <3>3, TestSend
    <2>. QED
      BY <2>1, <2>2
  <1>2. ASSUME NEW status, spi_transfer(t, status) PROVE TestInv'
    <2>1. shift' = x.buffer \/ shift' = shift
      BY <1>2 DEF spi_transfer
    <2>2. register' = register
      BY <1>2 DEF spi_transfer
    <2>3. PICK pc : \E threads \in {thread, Disturb({t})} : thread' = [threads EXCEPT ![t].pc = pc]
      BY <1>2 DEF spi_transfer
    <2>4. PICK threads \in {thread, Disturb({t})} : thread' = [threads EXCEPT ![t].pc = pc]
      BY <2>3
    <2>5. /\ threads \in [Threads -> Thread]
          /\ \A u \in Threads : threads[u].buffer = thread[u].buffer
      BY DisturbType, TestDisturb DEF TypeInv
    <2>6. \A u \in Threads : thread'[u].buffer = thread[u].buffer
      BY <2>4, <2>5 DEF Thread
    <2>. QED
      BY <2>1, <2>2, <2>6 DEF TestInv, NoTest, DISPLAY_TEST
  <1>3. CASE send_returns(t)
    <2>1. register'[DISPLAY_TEST] = 0
      <3>1. CASE cs = 0 /\ shift # <<>>
        <4>1. register' = [register EXCEPT ![shift[1]] = shift[2]]
          BY <1>3, <3>1 DEF send_returns, rise
        <4>2. DISPLAY_TEST \in Registers
          BY SMT DEF Registers, DECODE, DISPLAY_TEST
        <4>. QED
          BY <3>1, <4>1, <4>2 DEF TestInv, NoTest, TypeInv
      <3>2. CASE ~(cs = 0 /\ shift # <<>>)
        BY <1>3, <3>2 DEF send_returns, rise, TestInv
      <3>. QED
        BY <3>1, <3>2
    <2>2. shift' = shift
      BY <1>3 DEF send_returns
    <2>3. thread'[t].buffer = x.buffer \/ thread'[t].buffer = <<SHUTDOWN, 0>>
      BY <1>0, <1>3 DEF send_returns, TypeInv, Thread, idle
    <2>4. NoTest(thread'[t].buffer)
      BY <2>3 DEF TestInv, NoTest
    <2>5. \A u \in Threads \ {t} : thread'[u] = thread[u]
      BY <1>3 DEF send_returns, TypeInv
    <2>. QED
      BY <2>1, <2>2, <2>4, <2>5 DEF TestInv, NoTest, DISPLAY_TEST
  <1>4. CASE display_thread_next(t)
    <2>1. x.to_display \in Entries /\ x.n \in 1 .. LastMessage
      BY <1>0 DEF Thread
    <2>. QED
      BY <1>4, <2>1, TestSend DEF display_thread_next
  <1>5. CASE display_thread_held(t)
    <2>1. \A u \in Threads : thread'[u].buffer = thread[u].buffer
      BY <1>5 DEF display_thread_held, TypeInv, Thread
    <2>. QED
      BY <1>5, <2>1, TestStays DEF display_thread_held, chipVars
  <1>. QED
    BY <1>1, <1>2, <1>3, <1>4, <1>5 DEF display_thread

LEMMA TestStep == TypeInv /\ TestInv /\ DriverStep => TestInv'
  <1>1. CASE UNCHANGED vars
    BY <1>1 DEF vars, TestInv, NoTest, DISPLAY_TEST
  <1>. QED
    BY <1>1, TestCall, TestThread DEF DriverStep

-----------------------------------------------------------------------------
(* ...and what MatrixDisplay sees of the display threads.                  *)

LEMMA Displaying ==
  ASSUME DisplayInv, NEW t \in Threads, thread[t].pc # "idle", Undisturbed(t)
  PROVE  /\ running = {t} /\ displaying = {t}
         /\ phase = IF thread[t].pc = "hold" THEN "showing" ELSE "drawing"
         /\ wanted = thread[t].asked
         /\ next = IF thread[t].pc = "hold" THEN thread[t].i + 1 ELSE thread[t].i
  <1>1. running = {t} /\ displaying = {t}
    BY DEF DisplayInv, running, displaying
  <1>2. displayed = thread[t]
    BY <1>1 DEF displayed
  <1>. QED
    BY <1>1, <1>2 DEF phase, wanted, next

LEMMA DisplayingNext ==
  ASSUME DisplayInv', NEW t \in Threads, thread'[t].pc # "idle", Undisturbed(t)'
  PROVE  /\ running' = {t} /\ displaying' = {t}
         /\ phase' = IF thread'[t].pc = "hold" THEN "showing" ELSE "drawing"
         /\ wanted' = thread'[t].asked
         /\ next' = IF thread'[t].pc = "hold" THEN thread'[t].i + 1 ELSE thread'[t].i
  <1>1. running' = {t} /\ displaying' = {t}
    BY DEF DisplayInv, running, displaying
  <1>2. displayed' = thread'[t]
    BY <1>1 DEF displayed
  <1>. QED
    BY <1>1, <1>2 DEF phase, wanted, next

\* Without a thread that displays undisturbed nothing is remembered.
LEMMA NothingDisplayed ==
  /\ displaying = {} => /\ wanted = <<>> /\ next = 1
                        /\ phase = IF running = {} THEN "idle" ELSE "garbled"
  /\ displaying' = {} => /\ wanted' = <<>> /\ next' = 1
                         /\ phase' = IF running' = {} THEN "idle" ELSE "garbled"
  BY DEF phase, wanted, next

LEMMA SamePicture == ASSUME UNCHANGED register PROVE picture' = picture
  BY DEF picture, visible, DECODE, DISPLAY_TEST, SHUTDOWN, SCAN_LIMIT

LEMMA SameDisplay == ASSUME UNCHANGED thread PROVE UNCHANGED <<phase, wanted, next>>
  BY DEF phase, wanted, next, displayed, displaying, running, Undisturbed

LEMMA PictureType == ASSUME TypeInv' PROVE picture' \in Display!Pictures
  <1>1. \A r \in 1 .. Rows : register'[r] \in Int
    BY SMT DEF TypeInv, Registers
  <1>. QED
    BY <1>1 DEF picture, visible, Display!Pictures

\* What is disturbed does not display any more.
LEMMA DisturbedRunning ==
  ASSUME TypeInv, thread' = Disturb(running)
  PROVE  running' = running /\ displaying' = {}
  <1>1. /\ \A t \in Threads : thread'[t].pc = thread[t].pc
        /\ \A t \in running : thread'[t].asked = <<>>
    BY DisturbType DEF TypeInv, running
  <1>2. running' = running
    BY <1>1 DEF running
  <1>. QED
    BY <1>1, <1>2 DEF displaying, Undisturbed

-----------------------------------------------------------------------------
(* Each step of the driver is a step of MatrixDisplay, or none.            *)

DisplayStutters == UNCHANGED <<phase, wanted, next, pattern_array, picture>>
PromiseStep == Display!Next \/ DisplayStutters

LEMMA IoctlRefines ==
  ASSUME TypeInv, NEW p, NEW images \in Arrays, spidev_ioctl(p, images)
  PROVE  Display!SetPatterns
  <1>1. running' = running /\ displaying' = {} /\ picture' = picture /\ pattern_array' = images
    BY DisturbedRunning, SamePicture DEF spidev_ioctl, chipVars
  <1>2. images \in [Patterns -> [1 .. Rows -> Nat]]
    BY Max7219Assumption
  <1>3. running = {} <=> phase = "idle"
    BY DEF phase
  <1>. QED
    BY <1>1, <1>2, <1>3, NothingDisplayed DEF Display!SetPatterns, Display!Forgets

LEMMA GarbleRefines ==
  ASSUME running # {}, running' # {}, displaying' = {}, UNCHANGED <<pattern_array, register>>
  PROVE  PromiseStep
  <1>1. picture' = picture
    BY SamePicture
  <1>2. CASE displaying = {}
    BY <1>1, <1>2, NothingDisplayed DEF PromiseStep, DisplayStutters
  <1>3. CASE displaying # {}
    <2>1. phase \in {"drawing", "showing"}
      BY <1>3 DEF phase
    <2>2. Display!Garble
      BY <1>1, <2>1, NothingDisplayed DEF Display!Garble, Display!Forgets
    <2>. QED
      BY <2>2 DEF PromiseStep, Display!Next
  <1>. QED
    BY <1>2, <1>3

LEMMA WriteRefines ==
  ASSUME TypeInv, TypeInv', DisplayInv', NEW p,
         NEW entries \in Sequence, NEW n \in 0 .. Steps, spidev_write(p, entries, n)
  PROVE  PromiseStep
  <1>1. UNCHANGED <<pattern_array, register>> /\ sequence' \in Sequence
    BY DEF spidev_write, chipVars, TypeInv, Sequence, Entries, End
  <1>2. CASE thread' = Disturb(running)
    <2>1. running' = running /\ displaying' = {}
      BY <1>2, DisturbedRunning
    <2>2. CASE running = {}
      <3>1. displaying = {}
        BY <2>2 DEF displaying
      <3>. QED
        BY <1>1, <2>1, <3>1, NothingDisplayed, SamePicture DEF PromiseStep, DisplayStutters
    <2>3. CASE running # {}
      BY <1>1, <2>1, <2>3, GarbleRefines
    <2>. QED
      BY <2>2, <2>3
  <1>3. ASSUME NEW t \in Threads \ running,
               LET asked == IF running = {} THEN sequence' ELSE <<>> IN
               thread' = [Disturb(Threads) EXCEPT ![t] = [idle(asked, <<>>) EXCEPT !.pc = "step"]]
        PROVE  PromiseStep
    <2>1. \A u \in Threads : Disturb(Threads)[u].asked = <<>> /\ Disturb(Threads)[u].pc = thread[u].pc
      BY DisturbType DEF TypeInv
    <2>2. /\ \A u \in Threads \ {t} : thread'[u] = Disturb(Threads)[u]
          /\ thread'[t].pc = "step" /\ thread'[t].i = 1
          /\ thread'[t].asked = IF running = {} THEN sequence' ELSE <<>>
      BY <1>3, DisturbType DEF TypeInv, idle
    <2>3. CASE running = {}
      <3>1. thread'[t].asked = sequence' /\ sequence' # <<>>
        <4>1. 1 \in DOMAIN sequence'
          BY <1>1, Max7219Assumption DEF Sequence
        <4>. QED
          BY <2>2, <2>3, <4>1
      <3>2. Undisturbed(t)'
        BY <3>1 DEF Undisturbed
      <3>3. phase' = "drawing" /\ next' = 1 /\ wanted' = sequence'
        BY <2>2, <3>1, <3>2, DisplayingNext
      <3>4. phase = "idle"
        BY <2>3 DEF phase
      <3>5. Display!Write
        BY <1>1, <3>3, <3>4, SamePicture DEF Display!Write, Display!End, Sequence, Entries, End
      <3>. QED
        BY <3>5 DEF PromiseStep, Display!Next
    <2>4. CASE running # {}
      <3>1. \A u \in Threads : ~Undisturbed(u)'
        BY <2>1, <2>2, <2>4 DEF Undisturbed
      <3>3. displaying' = {}
        BY <3>1 DEF displaying, running
      <3>2. t \in running'
        BY <2>2 DEF running
      <3>. QED
        BY <1>1, <2>4, <3>2, <3>3, GarbleRefines
    <2>. QED
      BY <2>3, <2>4
  <1>. QED
    BY <1>2, <1>3 DEF spidev_write

\* A step of a thread t that displays undisturbed and goes on to do so.
LEMMA GoesOnDisplaying ==
  ASSUME DisplayInv, DisplayInv', NEW t \in Threads, thread[t].pc # "idle", Undisturbed(t),
         thread'[t].pc # "idle", thread'[t].asked = thread[t].asked,
         thread[t].pc # "hold", thread'[t].pc # "hold", thread'[t].i = thread[t].i,
         UNCHANGED <<pattern_array, register>>
  PROVE  DisplayStutters
  <1>1. Undisturbed(t)'
    BY DEF Undisturbed
  <1>. QED
    BY <1>1, Displaying, DisplayingNext, SamePicture DEF DisplayStutters

\* The thread comes to its end.
LEMMA NoLongerRunning ==
  ASSUME DisplayInv, NEW t \in Threads, thread[t].pc # "idle", Undisturbed(t),
         thread'[t].pc = "idle", \A u \in Threads \ {t} : thread'[u] = thread[u]
  PROVE  phase' = "idle" /\ wanted' = <<>> /\ next' = 1
  <1>1. running' = {}
    BY DEF DisplayInv, running
  <1>2. displaying' = {}
    BY <1>1 DEF displaying
  <1>. QED
    BY <1>1, <1>2, NothingDisplayed

LEMMA SendRefines ==
  ASSUME TypeInv, DisplayInv, DisplayInv', NEW t \in Threads,
         thread[t].pc \in {"step", "next"}, Undisturbed(t),
         NEW pattern \in Entries, NEW n \in 1 .. LastMessage, send(t, pattern, n)
  PROVE  DisplayStutters
  BY Sends, GoesOnDisplaying

LEMMA StepRefines ==
  ASSUME TypeInv, DisplayInv, DisplayInv', NEW t \in Threads, Undisturbed(t), display_thread_step(t)
  PROVE  PromiseStep
  <1>. DEFINE x == thread[t]
  <1>0. x \in Thread /\ x.pc = "step"
    BY DEF TypeInv, display_thread_step
  <1>1. CASE x.i > Steps
    <2>1. /\ thread' = [thread EXCEPT ![t] = idle(x.asked, x.shown)]
          /\ UNCHANGED <<pattern_array, register>>
      BY <1>1 DEF display_thread_step, driverVars, chipVars
    <2>2. /\ thread'[t].pc = "idle"
          /\ \A u \in Threads \ {t} : thread'[u] = thread[u]
      BY <2>1 DEF TypeInv, idle
    <2>3. phase = "drawing" /\ next = x.i
      BY <1>0, Displaying
    <2>4. ~(x.i <= Steps)
      BY <1>0, <1>1, Max7219Assumption, SMT DEF Thread
    <2>5. Display!Finish
      BY <1>0, <2>1, <2>2, <2>3, <2>4, NoLongerRunning, SamePicture DEF Display!Finish, Display!Forgets
    <2>. QED
      BY <2>5 DEF PromiseStep, Display!Next
  <1>2. CASE ~(x.i > Steps)
    <2>1. x.i \in 1 .. Steps
      BY <1>0, <1>2, Max7219Assumption, SMT DEF Thread
    <2>2. sequence[x.i] \in Entries /\ 1 \in 1 .. LastMessage
      BY <2>1, MessageCount DEF TypeInv, Sequence
    <2>3. \A e \in Entries : e = sequence[x.i] => send(t, e, 1)
      BY <1>2 DEF display_thread_step
    <2>. QED
      BY <1>0, <2>2, <2>3, SendRefines DEF PromiseStep
  <1>. QED
    BY <1>1, <1>2

LEMMA TransferRefines ==
  ASSUME TypeInv, DisplayInv, DisplayInv', NEW t \in Threads, Undisturbed(t),
         NEW status, spi_transfer(t, status)
  PROVE  PromiseStep
  <1>. DEFINE x == thread[t]
  <1>0. x \in Thread /\ x.pc = "sending" /\ UNCHANGED <<pattern_array, register>>
    BY DEF TypeInv, spi_transfer, driverVars
  <1>1. CASE status = 2
    <2>1. thread'[t] = [x EXCEPT !.pc = "sent"]
      BY <1>1 DEF spi_transfer, TypeInv
    <2>2. thread'[t].pc = "sent" /\ thread'[t].i = x.i /\ thread'[t].asked = x.asked
      BY <1>0, <2>1 DEF Thread
    <2>. QED
      BY <1>0, <2>2, GoesOnDisplaying DEF PromiseStep
  <1>2. CASE status # 2
    <2>1. PICK pc \in {"nothing_sent", "sent"} : thread' = [Disturb({t}) EXCEPT ![t].pc = pc]
      BY <1>2 DEF spi_transfer
    <2>2. /\ Disturb({t}) \in [Threads -> Thread]
          /\ Disturb({t})[t].asked = <<>>
      BY DisturbType DEF TypeInv
    <2>3. thread'[t].asked = <<>> /\ thread'[t].pc = pc
      BY <2>1, <2>2 DEF Thread
    <2>4. \A u \in Threads \ {t} : thread'[u] = thread[u]
      BY <2>1, <2>2, DisturbType DEF TypeInv
    <2>5. running = {t}
      BY <1>0, Displaying
    <2>6. t \in running'
      BY <2>3 DEF running
    <2>7. displaying' = {}
      BY <2>3, <2>4, <2>5 DEF displaying, running, Undisturbed
    <2>. QED
      BY <1>0, <2>5, <2>6, <2>7, GarbleRefines
  <1>. QED
    BY <1>1, <1>2

\* The whole pattern is in the chip's registers.
LEMMA ShownPicture ==
  ASSUME Inv', NEW t \in Threads, thread'[t].pc = "hold", Undisturbed(t)'
  PROVE  picture' = pattern_array'[thread'[t].to_display]
  <1>1. Arrived(thread[t], 5 + Rows)'
    BY DEF Inv, DisplayInv, Running
  <1>2. /\ register'[SHUTDOWN] = 1 /\ register'[DISPLAY_TEST] = 0
        /\ register'[SCAN_LIMIT] = 7 /\ register'[DECODE] = 0
        /\ \A r \in 1 .. Rows : register'[r] = pattern_array'[thread'[t].to_display][r]
    <2>1. 5 + Rows >= 5 /\ \A r \in 1 .. Rows : 5 + Rows >= 5 + r
      BY Max7219Assumption
    <2>2. 5 + Rows >= 1 /\ 5 + Rows >= 2 /\ 5 + Rows >= 3
      BY Max7219Assumption
    <2>. QED
      BY <1>1, <2>1, <2>2 DEF Arrived, DECODE, DISPLAY_TEST, SHUTDOWN, SCAN_LIMIT, INTENSITY
  <1>3. \A r \in 1 .. Rows : visible(r)' = pattern_array'[thread'[t].to_display][r]
    BY <1>2 DEF visible, DECODE, DISPLAY_TEST, SHUTDOWN, SCAN_LIMIT
  <1>4. thread'[t].to_display \in Patterns
    <2>1. thread'[t] \in Thread'
      BY DEF Inv, TypeInv
    <2>2. thread'[t].to_display \in Entries /\ thread'[t].to_display # End
      BY <2>1 DEF Thread, Inv, DisplayInv, Running
    <2>. QED
      BY <2>2, EntryIsPattern
  <1>5. pattern_array'[thread'[t].to_display] \in [1 .. Rows -> Nat]
    BY <1>4 DEF Inv, TypeInv
  <1>. QED
    BY <1>3, <1>5 DEF picture

LEMMA ReturnsRefines ==
  ASSUME Inv, Inv', TestInv', NEW t \in Threads, Undisturbed(t), send_returns(t)
  PROVE  PromiseStep
  <1>. DEFINE x == thread[t]
  <1>0. /\ TypeInv /\ TypeInv' /\ DisplayInv /\ DisplayInv'
        /\ x \in Thread /\ x.pc \in {"sent", "nothing_sent"} /\ x.i \in 1 .. Steps
    BY DEF Inv, TypeInv, send_returns, AtEntry
  <1>1. /\ \A u \in Threads \ {t} : thread'[u] = thread[u]
        /\ UNCHANGED pattern_array
    BY <1>0 DEF send_returns, TypeInv, driverVars
  <1>2. thread'[t] = IF x.to_display = End THEN idle(x.asked, x.shown)
                     ELSE IF x.n = LastMessage
                          THEN [x EXCEPT !.pc = "hold", !.shown = shown_by_now(t)]
                     ELSE [x EXCEPT !.pc = "next", !.n = following(t)]
    BY <1>0 DEF send_returns, TypeInv
  <1>3. x.pc = "sent" /\ x.to_display = x.asked[x.i]
    BY <1>0 DEF DisplayInv, Running, AtEntry
  <1>4. phase = "drawing" /\ wanted = x.asked /\ next = x.i /\ x.i <= Steps
    BY <1>0, Displaying, Max7219Assumption
  <1>5. CASE x.to_display = End
    <2>1. thread'[t].pc = "idle"
      BY <1>2, <1>5 DEF idle
    <2>2. register'[SHUTDOWN] = 0
      <3>1. cs = 0 /\ shift = <<SHUTDOWN, 0>>
        BY <1>0, <1>3, <1>5 DEF DisplayInv, Running, message
      <3>2. shift # <<>>
        BY <3>1
      <3>3. register' = [register EXCEPT ![SHUTDOWN] = 0]
        BY <3>1, <3>2 DEF send_returns, rise
      <3>4. SHUTDOWN \in Registers
        BY SMT DEF Registers, SHUTDOWN, DECODE, DISPLAY_TEST
      <3>. QED
        BY <1>0, <3>3, <3>4 DEF TypeInv
    <2>3. picture' = Display!Dark
      BY <2>2 DEF TestInv, picture, visible, Display!Dark, SHUTDOWN, DISPLAY_TEST
    <2>4. Display!Finish
      BY <1>0, <1>1, <1>3, <1>4, <1>5, <2>1, <2>3, NoLongerRunning
         DEF Display!Finish, Display!Forgets, Display!End, End
    <2>. QED
      BY <2>4 DEF PromiseStep, Display!Next
  <1>6. CASE x.to_display # End /\ x.n = LastMessage
    <2>1. thread'[t] = [x EXCEPT !.pc = "hold", !.shown = shown_by_now(t)]
      BY <1>2, <1>6
    <2>2. /\ thread'[t].pc = "hold" /\ thread'[t].i = x.i /\ thread'[t].asked = x.asked
          /\ thread'[t].to_display = x.to_display
      BY <1>0, <2>1 DEF Thread
    <2>3. Undisturbed(t)'
      BY <2>2 DEF Undisturbed
    <2>4. phase' = "showing" /\ wanted' = x.asked /\ next' = x.i + 1
      BY <1>0, <2>2, <2>3, DisplayingNext
    <2>5. picture' = pattern_array[x.asked[x.i]]
      BY <1>1, <1>3, <2>2, <2>3, ShownPicture DEF Display!Dark
    <2>6. Display!Show
      BY <1>1, <1>3, <1>4, <1>6, <2>4, <2>5 DEF Display!Show, Display!End, End
    <2>. QED
      BY <2>6 DEF PromiseStep, Display!Next
  <1>7. CASE x.to_display # End /\ x.n # LastMessage
    <2>1. thread'[t] = [x EXCEPT !.pc = "next", !.n = following(t)]
      BY <1>2, <1>7
    <2>2. thread'[t].pc = "next" /\ thread'[t].i = x.i /\ thread'[t].asked = x.asked
      BY <1>0, <2>1 DEF Thread
    <2>3. Undisturbed(t)'
      BY <2>2 DEF Undisturbed
    <2>4. phase' = "drawing" /\ wanted' = x.asked /\ next' = x.i
      BY <1>0, <2>2, <2>3, DisplayingNext
    <2>5. picture' \in Display!Pictures
      BY <1>0, PictureType
    <2>6. Display!Draw
      BY <1>1, <1>4, <2>4, <2>5 DEF Display!Draw
    <2>. QED
      BY <2>6 DEF PromiseStep, Display!Next
  <1>. QED
    BY <1>5, <1>6, <1>7

LEMMA HeldRefines ==
  ASSUME TypeInv, DisplayInv, DisplayInv', NEW t \in Threads, Undisturbed(t), display_thread_held(t)
  PROVE  PromiseStep
  <1>1. thread[t] \in Thread /\ thread[t].pc = "hold" /\ UNCHANGED <<pattern_array, register>>
    BY DEF TypeInv, display_thread_held, driverVars, chipVars
  <1>2. /\ thread'[t].pc = "step" /\ thread'[t].i = thread[t].i + 1
        /\ thread'[t].asked = thread[t].asked
    BY <1>1 DEF display_thread_held, TypeInv, Thread
  <1>3. Undisturbed(t)'
    BY <1>2 DEF Undisturbed
  <1>4. Display!Change
    BY <1>1, <1>2, <1>3, Displaying, DisplayingNext, SamePicture DEF Display!Change
  <1>. QED
    BY <1>4 DEF PromiseStep, Display!Next

\* Whatever a disturbed thread does nothing is promised.
LEMMA DisturbedRefines ==
  ASSUME Inv, TypeInv', NEW t \in Threads, ~Undisturbed(t), display_thread(t, Statuses)
  PROVE  PromiseStep
  <1>. DEFINE x == thread[t]
  <1>0. /\ TypeInv /\ DisplayInv /\ x \in Thread /\ x.asked = <<>> /\ x.pc # "idle"
        /\ pattern_array' = pattern_array
    BY DEF Inv, TypeInv, Undisturbed, display_thread, display_thread_step, display_thread_next,
           display_thread_held, spi_transfer, send_returns, send, driverVars
  <1>1. displaying = {} /\ t \in running
    BY <1>0 DEF DisplayInv, displaying, running, Undisturbed
  <1>2. \A S : /\ Disturb(S) \in [Threads -> Thread]
               /\ \A u \in Threads \ S : Disturb(S)[u] = thread[u]
    BY <1>0, DisturbType DEF TypeInv
  <1>3. \A u \in Threads \ {t} : thread'[u] = thread[u]
    <2>1. \/ \E y : thread' = [thread EXCEPT ![t] = y]
          \/ \E y : thread' = [Disturb({t}) EXCEPT ![t] = y]
      BY DEF display_thread, display_thread_step, display_thread_next, display_thread_held,
             spi_transfer, send_returns, send
    <2>. QED
      BY <1>0, <1>2, <2>1 DEF TypeInv
  <1>4. thread'[t].asked = <<>>
    <2>1. CASE display_thread_step(t) \/ display_thread_next(t)
      <3>1. ASSUME NEW pattern, NEW n, send(t, pattern, n) PROVE thread'[t].asked = <<>>
        BY <1>0, <3>1 DEF send, TypeInv, Thread
      <3>2. CASE thread' = [thread EXCEPT ![t] = idle(x.asked, x.shown)]
        BY <1>0, <3>2 DEF TypeInv, idle
      <3>. QED
        BY <2>1, <3>1, <3>2 DEF display_thread_step, display_thread_next
    <2>2. CASE send_returns(t)
      BY <1>0, <2>2 DEF send_returns, TypeInv, Thread, idle
    <2>3. CASE display_thread_held(t)
      BY <1>0, <2>3 DEF display_thread_held, TypeInv, Thread
    <2>4. ASSUME NEW status, spi_transfer(t, status) PROVE thread'[t].asked = <<>>
      <3>1. Disturb({t})[t] \in Thread /\ Disturb({t})[t].asked = <<>>
        BY <1>0, DisturbType DEF TypeInv
      <3>2. PICK pc : \/ thread' = [thread EXCEPT ![t].pc = pc]
                      \/ thread' = [Disturb({t}) EXCEPT ![t].pc = pc]
        BY <2>4 DEF spi_transfer
      <3>. QED
        BY <1>0, <1>2, <3>1, <3>2 DEF TypeInv, Thread
    <2>. QED
      BY <2>1, <2>2, <2>3, <2>4 DEF display_thread
  <1>5. displaying' = {}
    BY <1>0, <1>1, <1>3, <1>4 DEF displaying, running, Undisturbed
  <1>6. picture' \in Display!Pictures
    BY PictureType
  <1>7. phase = "garbled" /\ wanted = <<>> /\ next = 1
    BY <1>1, NothingDisplayed
  <1>8. CASE running' = {}
    <2>1. Display!GarbledEnds
      BY <1>0, <1>5, <1>6, <1>7, <1>8, NothingDisplayed DEF Display!GarbledEnds, Display!Forgets
    <2>. QED
      BY <2>1 DEF PromiseStep, Display!Next
  <1>9. CASE running' # {}
    <2>1. Display!Draw
      BY <1>0, <1>5, <1>6, <1>7, <1>9, NothingDisplayed DEF Display!Draw
    <2>. QED
      BY <2>1 DEF PromiseStep, Display!Next
  <1>. QED
    BY <1>8, <1>9

LEMMA DriverRefines == Inv /\ Inv' /\ TestInv' /\ DriverStep => PromiseStep
  <1>. SUFFICES ASSUME Inv, Inv', TestInv', DriverStep PROVE PromiseStep
    OBVIOUS
  <1>. USE DEF Inv
  <1>1. CASE UNCHANGED <<thread, pattern_array, register>>
    BY <1>1, SameDisplay, SamePicture DEF PromiseStep, DisplayStutters
  <1>2. ASSUME NEW p, NEW images \in Arrays, spidev_ioctl(p, images) PROVE PromiseStep
    BY <1>2, IoctlRefines DEF PromiseStep, Display!Next
  <1>3. ASSUME NEW p, NEW entries \in Sequence, NEW n \in 0 .. Steps, spidev_write(p, entries, n)
        PROVE  PromiseStep
    BY <1>3, WriteRefines
  <1>4. ASSUME NEW t \in Threads, display_thread(t, Statuses), Undisturbed(t) PROVE PromiseStep
    <2>1. CASE display_thread_next(t)
      <3>1. thread[t].to_display \in Entries /\ thread[t].n \in 1 .. LastMessage
        BY DEF TypeInv, Thread
      <3>. QED
        BY <1>4, <2>1, <3>1, SendRefines DEF display_thread_next, PromiseStep
    <2>. QED
      BY <1>4, <2>1, StepRefines, TransferRefines, ReturnsRefines, HeldRefines DEF display_thread
  <1>5. ASSUME NEW t \in Threads, display_thread(t, Statuses), ~Undisturbed(t) PROVE PromiseStep
    BY <1>5, DisturbedRefines
  <1>. QED
    BY <1>1, <1>2, <1>3, <1>4, <1>5
       DEF DriverStep, vars, spidev_open, spidev_release, chipVars

LEMMA InitRefines == Init => Display!Init
  <1>. SUFFICES ASSUME Init PROVE Display!Init
    OBVIOUS
  <1>1. running = {}
    BY DEF Init, running, idle
  <1>2. displaying = {}
    BY <1>1 DEF displaying
  <1>3. register[DISPLAY_TEST] = 0 /\ register[SHUTDOWN] = 0
    BY SMT DEF Init, PowerOn, Registers, SHUTDOWN, DECODE, DISPLAY_TEST
  <1>4. picture = Display!Dark
    BY <1>3 DEF picture, visible, Display!Dark
  <1>. QED
    BY <1>1, <1>2, <1>4, NothingDisplayed DEF Init, Display!Init, Display!Dark

\* README:34-35 "display the patterns in sequence": the driver and the chip
\* implement MatrixDisplay under every client, for any number of processes,
\* threads, patterns, rows and steps.
THEOREM DriverImplementsDisplay == ClientSpec => ImplementsDisplay
  <1>1. ClientInit => TestInv /\ Display!Init
    BY TestInit, InitRefines DEF ClientInit
  <1>2. Inv /\ TestInv /\ ClientStep => TestInv'
    BY ClientTakesDriverStep, TestStep DEF Inv, ClientInv
  <1>3. Inv /\ Inv' /\ TestInv' /\ ClientStep => [Display!Next]_(Display!displayVars)
    BY ClientTakesDriverStep, DriverRefines
       DEF Inv, ClientInv, PromiseStep, DisplayStutters, Display!displayVars
  <1>. QED
    BY <1>1, <1>2, <1>3, InvAlways, PTL DEF ClientSpec, ClientStep, ImplementsDisplay, Display!Spec

=============================================================================
