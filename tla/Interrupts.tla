---------------------------- MODULE Interrupts ----------------------------
(***************************************************************************)
(* The interrupt path: the two cascaded 8259 PICs as i8259.c programs      *)
(* them, the IDT gates idt_init builds, and the three device handlers'     *)
(* end-of-interrupt protocol (PIT on IRQ0, keyboard on IRQ1, RTC on IRQ8), *)
(* composed with the RTC driver of module Rtc, whose interrupt now arrives *)
(* through the PIC.                                                        *)
(*                                                                         *)
(* The PICs (8259A, fully nested mode, specific EOI) are hardware and are  *)
(* modelled from their data sheet: a request latched in IRR is delivered  *)
(* when its IMR bit is clear and no in-service bit of the same or higher   *)
(* priority is set on its PIC; a slave request goes through master line 2. *)
(* Acknowledging sets the in-service bit(s); a specific EOI clears one.    *)
(*                                                                         *)
(* The handler bodies that change kernel state are the actions of Kernel   *)
(* (scheduler) and Terminal (keyboard); here they are the steps that touch *)
(* the PIC and the interrupt flag.  A system call may run a cli()/sti()    *)
(* critical section in the interrupted context.                            *)
(***************************************************************************)
EXTENDS Integers, Sequences, Bitwise, TLC

CONSTANTS
    Procs,          \* processes that use the RTC
    WriteFreqs,     \* the int values programs write() to /dev/rtc
    MaxTails,       \* bound on PIT handler calls awaiting their iret
    ExceptionVectors \* the processor exceptions (of 0..19) that may occur

ASSUME ExceptionVectors \subseteq 0 .. 19

VARIABLES
    rtcStatus, regA, opened, reading, tickSince, freqSet,   \* module Rtc
    masterImr,      \* master PIC interrupt mask register (uint8)
    slaveImr,       \* slave PIC interrupt mask register (uint8)
    irr,            \* device lines whose request is latched
    masterIsr,      \* master in-service bits
    slaveIsr,       \* slave in-service bits
    ifFlag,         \* EFLAGS.IF of the CPU
    running,        \* the handler do_irq dispatched, or "none"
    tails,          \* pit_interrupt_handler calls past their sti()
    waitOn,         \* waitOn[l]: lines pending when l was last raised
    rtcFlagged      \* the RTC's register C holds a periodic flag not yet read

R == INSTANCE Rtc

rtcVars == <<rtcStatus, regA, opened, reading, tickSince, freqSet>>
picVars == <<masterImr, slaveImr, irr, masterIsr, slaveIsr>>
cpuVars == <<ifFlag, running, tails, waitOn, rtcFlagged>>
vars    == <<rtcVars, picVars, cpuVars>>

PIT_IRQ     == 0
keyboardIRQ == 1
RTC_IRQ     == 8
Lines       == {PIT_IRQ, keyboardIRQ, RTC_IRQ}

\* i8259.h: MASK_ALL, SLAVE_INTR, MAX_IRQ_MASTER, SLAVE_DIFF, MAX_IRQ.
MASK_ALL       == 255
SLAVE_INTR     == 2
MAX_IRQ_MASTER == 7
SLAVE_DIFF     == 8
MAX_IRQ        == 15
\* ICW2: the vector of master line 0 and of slave line 0.
ICW2_MASTER == 32
ICW2_SLAVE  == 40

\* The PIC an IRQ is on and its bit there.
OnMaster(irq) == irq <= MAX_IRQ_MASTER
Bit(irq)      == IF OnMaster(irq) THEN irq ELSE irq - SLAVE_DIFF
Vector(irq)   == IF OnMaster(irq) THEN ICW2_MASTER + irq
                                  ELSE ICW2_SLAVE + irq - SLAVE_DIFF

-----------------------------------------------------------------------------
(* enable_irq(irq_num) on the masks <<master, slave>>: the PIC's mask is   *)
(* read back and written with the irq's bit cleared (uint8 ~(1 << num)).   *)
enable_irq(m, irq) ==
    IF irq > MAX_IRQ THEN m
    ELSE IF OnMaster(irq)
         THEN <<m[1] & (MASK_ALL ^^ (2^irq)), m[2]>>
         ELSE <<m[1], m[2] & (MASK_ALL ^^ (2^(irq - SLAVE_DIFF)))>>

\* i8259_init: both PICs masked, initialised, then the cascade line enabled.
i8259_init == enable_irq(<<MASK_ALL, MASK_ALL>>, SLAVE_INTR)

\* A boot that leaves out rtc_initialize's enable_irq(RTC_IRQ).
BootMasksNoRtc ==
    enable_irq(enable_irq(i8259_init, keyboardIRQ), PIT_IRQ)

(* The masks once the drivers are initialised: keyboard_init,              *)
(* rtc_initialize and the PIT set-up each enable their line.               *)
BootMasks ==
    enable_irq(enable_irq(enable_irq(i8259_init, keyboardIRQ), RTC_IRQ),
               PIT_IRQ)

\* A send_eoi that acknowledges a slave irq on the slave only.
send_eoi_no_cascade(isr, irq) ==
    IF irq > MAX_IRQ THEN isr
    ELSE IF OnMaster(irq)
         THEN <<isr[1] \ {irq}, isr[2]>>
         ELSE <<isr[1], isr[2] \ {irq - SLAVE_DIFF}>>

(* send_eoi(irq_num) on the in-service bits <<master, slave>>: a specific  *)
(* EOI to the irq's PIC, and for a slave irq also to master line 2.        *)
send_eoi(isr, irq) ==
    IF irq > MAX_IRQ THEN isr
    ELSE IF OnMaster(irq)
         THEN <<isr[1] \ {irq}, isr[2]>>
         ELSE <<isr[1] \ {SLAVE_INTR}, isr[2] \ {irq - SLAVE_DIFF}>>

SendEoi(irq) ==
    LET isr == send_eoi(<<masterIsr, slaveIsr>>, irq) IN
    /\ masterIsr' = isr[1]
    /\ slaveIsr' = isr[2]

\* idt_exceptions.h: the system call vector 0x80.
syscallHex == 128

(* idt_init: every vector a 32-bit interrupt gate (reserved3 = 0) of DPL 0 *)
(* except 0x80, a trap gate (reserved3 = 1) of DPL 3; handler_table maps   *)
(* vectors 0..19 to exception_0..19, the reserved 20..31 to exception_1,   *)
(* and the three device vectors to their handlers.  An interrupt gate clears   *)
(* IF on entry, a trap gate leaves it.                                     *)
idt == [v \in 0 .. 255 |->
          [reserved3 |-> IF v = syscallHex THEN 1 ELSE 0,
           dpl       |-> IF v = syscallHex THEN 3 ELSE 0]]
handler_table ==
    [v \in (0 .. 31) \cup {32, 33, 40} |->
        CASE v <= 19 -> "exception_" \o ToString(v)
          [] v <= 31 -> "exception_1"
          [] v = 32 -> "pit_interrupt_handler"
          [] v = 33 -> "keyboard_inter_handler"
          [] v = 40 -> "rtc_interrupt_handler"]

-----------------------------------------------------------------------------
(* The PIC side: which requests the CPU would be given.                    *)

Masked(irq) ==
    IF OnMaster(irq) THEN (masterImr \div 2^irq) % 2 = 1
                     ELSE (slaveImr \div 2^Bit(irq)) % 2 = 1

\* No in-service bit of the same or higher priority on the irq's PIC.
Unblocked(irq) ==
    IF OnMaster(irq) THEN \A b \in masterIsr : b > irq
                     ELSE \A b \in slaveIsr : b > Bit(irq)

\* The request the PICs present: the slave's best request on master line 2.
Presentable(irq) ==
    /\ irq \in irr
    /\ ~Masked(irq) /\ Unblocked(irq)
    /\ ~OnMaster(irq) => ~Masked(SLAVE_INTR) /\ Unblocked(SLAVE_INTR)

MasterLine(irq) == IF OnMaster(irq) THEN irq ELSE SLAVE_INTR

\* The PICs resolve priority: the lowest master line, then the lowest slave bit.
Chosen(irq) ==
    /\ Presentable(irq)
    /\ \A o \in Lines \ {irq} : Presentable(o) =>
            \/ MasterLine(irq) < MasterLine(o)
            \/ MasterLine(irq) = MasterLine(o) /\ Bit(irq) < Bit(o)

-----------------------------------------------------------------------------
(* Devices and the CPU *)

\* pit_interrupt_handler calls begun and not yet returned from.
PitCalls == tails + IF running = "pit_interrupt_handler" THEN 1 ELSE 0

(* A device raises its line.  The RTC raises IRQ8 only when its register *)
(* C has been read since its last interrupt.  Timing assumption: the PIT (100 Hz), the RTC *)
(* (at most 1024 Hz) and a typist are slow next to a handler, so a line    *)
(* rises again only after the lines that were pending at its last rise     *)
(* have been acknowledged.                                                 *)
Raise(l) ==
    /\ l \notin irr
    /\ l = PIT_IRQ => PitCalls < MaxTails
    /\ l = RTC_IRQ => ~rtcFlagged
    /\ waitOn[l] = {}
    /\ irr' = irr \cup {l}
    /\ waitOn' = [waitOn EXCEPT ![l] = irr]
    /\ rtcFlagged' = (rtcFlagged \/ l = RTC_IRQ)
    /\ UNCHANGED <<rtcVars, masterImr, slaveImr, masterIsr, slaveIsr,
                   ifFlag, running, tails>>

(* INTA and the gate: with IF set the CPU takes the chosen request; the   *)
(* PICs set its in-service bits, the gate of its vector sets IF, and       *)
(* do_irq dispatches through handler_table.  Only the interrupt gate keeps *)
(* a second handler from starting while one runs.                          *)
Acknowledge(l) ==
    /\ ifFlag = 1
    /\ Chosen(l)
    /\ irr' = irr \ {l}
    /\ IF OnMaster(l)
       THEN /\ masterIsr' = masterIsr \cup {l}
            /\ UNCHANGED slaveIsr
       ELSE /\ masterIsr' = masterIsr \cup {SLAVE_INTR}
            /\ slaveIsr' = slaveIsr \cup {Bit(l)}
    /\ ifFlag' = IF idt[Vector(l)].reserved3 = 0 THEN 0 ELSE ifFlag
    /\ running' = handler_table[Vector(l)]
    /\ waitOn' = [m \in Lines |-> waitOn[m] \ {l}]
    /\ UNCHANGED <<rtcVars, masterImr, slaveImr, tails, rtcFlagged>>

(* pit_interrupt_handler: cli(), send_eoi(PIT_IRQ), scheduler() (which may *)
(* resume another flow, always at the same point of an earlier call or in  *)
(* a new shell's execute), then sti(): IF is set before the iret.          *)
PitHandler ==
    /\ running = "pit_interrupt_handler"
    /\ SendEoi(PIT_IRQ)
    /\ ifFlag' = 1
    /\ running' = "none"
    /\ tails' = tails + 1
    /\ UNCHANGED <<rtcVars, masterImr, slaveImr, irr, waitOn, rtcFlagged>>

\* The iret at the end of a pit_interrupt_handler call.
PitIret ==
    /\ running = "none"
    /\ tails > 0
    /\ tails' = tails - 1
    /\ UNCHANGED <<rtcVars, picVars, ifFlag, running, waitOn, rtcFlagged>>

\* keyboard_inter_handler: the key's effect (module Terminal), then
\* send_eoi(keyboardIRQ) and the iret, which restores IF.
KeyboardHandler ==
    /\ running = "keyboard_inter_handler"
    /\ SendEoi(keyboardIRQ)
    /\ ifFlag' = 1
    /\ running' = "none"
    /\ UNCHANGED <<rtcVars, masterImr, slaveImr, irr, tails, waitOn,
                   rtcFlagged>>

\* An rtc_interrupt_handler without the read of register C.
RtcHandlerNoRegC ==
    /\ running = "rtc_interrupt_handler"
    /\ R!RtcInterrupt
    /\ SendEoi(RTC_IRQ)
    /\ ifFlag' = 1
    /\ running' = "none"
    /\ UNCHANGED <<masterImr, slaveImr, irr, tails, waitOn, rtcFlagged>>

\* rtc_interrupt_handler: rtc_status = 1 (Rtc), register C read,
\* send_eoi(RTC_IRQ), iret.
RtcHandler ==
    /\ running = "rtc_interrupt_handler"
    /\ R!RtcInterrupt
    /\ rtcFlagged' = FALSE
    /\ SendEoi(RTC_IRQ)
    /\ ifFlag' = 1
    /\ running' = "none"
    /\ UNCHANGED <<masterImr, slaveImr, irr, tails, waitOn>>

\* The exception handlers of handler_table.
ExceptionHandlers == {handler_table[v] : v \in 0 .. 31}

(* A processor exception of vector v (0..19) in the flow on the CPU,      *)
(* whatever IF is: its interrupt gate clears IF and do_irq calls           *)
(* handler_table[v].                                                       *)
Exception(v) ==
    /\ running = "none"
    /\ ifFlag' = IF idt[v].reserved3 = 0 THEN 0 ELSE ifFlag
    /\ running' = handler_table[v]
    /\ UNCHANGED <<rtcVars, picVars, tails, waitOn, rtcFlagged>>

\* exception_0..19: clear(), printf, then while(1) with IF clear.
ExceptionSpin ==
    /\ running \in ExceptionHandlers
    /\ UNCHANGED vars

\* The interrupted context: no handler is running or being returned from.
InBase == running = "none" /\ tails = 0

\* A system call's cli() ... sti() critical section.
Cli ==
    /\ InBase /\ ifFlag = 1
    /\ ifFlag' = 0
    /\ UNCHANGED <<rtcVars, picVars, running, tails, waitOn, rtcFlagged>>

Sti ==
    /\ InBase /\ ifFlag = 0
    /\ ifFlag' = 1
    /\ UNCHANGED <<rtcVars, picVars, running, tails, waitOn, rtcFlagged>>

\* The RTC system calls of module Rtc, made from the interrupted context.
RtcCall ==
    /\ InBase /\ ifFlag = 1
    /\ \/ \E p \in Procs : \/ R!RtcOpen(p) \/ R!RtcReadBegin(p)
                           \/ R!RtcReadReturn(p) \/ R!RtcClose(p)
       \/ \E p \in Procs, f \in WriteFreqs : R!RtcWrite(p, f)
    /\ UNCHANGED <<picVars, cpuVars>>

-----------------------------------------------------------------------------
Init ==
    /\ R!Init
    /\ masterImr = BootMasks[1]
    /\ slaveImr = BootMasks[2]
    /\ irr = {}
    /\ masterIsr = {}
    /\ slaveIsr = {}
    /\ ifFlag = 1
    /\ running = "none"
    /\ tails = 0
    /\ waitOn = [l \in Lines |-> {}]
    /\ rtcFlagged = FALSE

Next ==
    \/ \E l \in Lines : Raise(l) \/ Acknowledge(l)
    \/ PitHandler \/ PitIret \/ KeyboardHandler \/ RtcHandler
    \/ Cli \/ Sti \/ RtcCall
    \/ \E v \in ExceptionVectors : Exception(v)
    \/ ExceptionSpin

(* The CPU samples INTR at every instruction boundary while IF is set:     *)
(* strong fairness, since IF is cleared again and again.  Kernel code      *)
(* (handlers, the end of a critical section) runs on: weak fairness.  The  *)
(* iret of a PIT call runs whenever its flow has the CPU back, between     *)
(* nested handlers: strong fairness.  The PIT and the RTC are periodic:    *)
(* weak fairness on their raise.  The keyboard and programs get none.      *)
Fairness ==
    /\ \A l \in Lines : SF_vars(Acknowledge(l))
    /\ WF_vars(Raise(PIT_IRQ)) /\ WF_vars(Raise(RTC_IRQ))
    /\ WF_vars(PitHandler) /\ SF_vars(PitIret)
    /\ WF_vars(KeyboardHandler) /\ WF_vars(RtcHandler)
    /\ WF_vars(Sti)

Spec == Init /\ [][Next]_vars /\ Fairness

-----------------------------------------------------------------------------
(* Properties *)

\* An exception handler has the CPU: the system has stopped.
Faulted == running \in ExceptionHandlers

\* The line a handler_table entry serves.
HandlerLine ==
    [h \in {"pit_interrupt_handler", "keyboard_inter_handler",
            "rtc_interrupt_handler"} |->
        CHOOSE l \in Lines : handler_table[Vector(l)] = h]

InService(l) ==
    IF OnMaster(l) THEN l \in masterIsr ELSE Bit(l) \in slaveIsr

(* The in-service bits of both PICs follow the dispatch: a device line is  *)
(* in service exactly while the handler do_irq dispatched for it has not   *)
(* sent its EOI, and master line 2 exactly while a slave line is.  A       *)
(* handler that EOIs the wrong line, or a slave EOI that misses the        *)
(* master, leaves a bit set that blocks its line and every lower-priority  *)
(* one for good.                                                           *)
InServiceMatchesDispatch ==
    /\ \A l \in Lines :
          InService(l) <=> running \in DOMAIN HandlerLine
                           /\ HandlerLine[running] = l
    /\ (SLAVE_INTR \in masterIsr) <=> slaveIsr /= {}
    /\ masterIsr \subseteq Lines \cup {SLAVE_INTR}

(* Every device interrupt that is raised is delivered: the PIT, keyboard   *)
(* and RTC lines, enabled at boot, are never left latched for good, in     *)
(* spite of system-call critical sections and handlers that run with IF    *)
(* clear, and of pit_interrupt_handler's EOI before its context switch.    *)
IrqEventuallyServiced ==
    \A l \in Lines : l \in irr ~> (l \notin irr \/ Faulted)

(* The scheduler's tick and rtc_read's tick never stop: the PIT and RTC    *)
(* handlers run again and again, which needs both lines unmasked, every    *)
(* EOI sent to the right PICs, the PIT's nested calls returned, and        *)
(* register C read in every RTC interrupt.  Kernel's fairness on PitTick   *)
(* and the wake-up of a spinning rtc_read rest on this.                    *)
TicksKeepComing ==
    \/ <>Faulted
    \/ /\ []<>(running = "pit_interrupt_handler")
       /\ []<>(running = "rtc_interrupt_handler")

\* Module Rtc's type invariant and its register-A property, now with the
\* RTC interrupt delivered through the PICs.
RtcTypeOK == R!TypeOK
RtcRateMatchesRequest == R!RateMatchesRequest

=============================================================================
