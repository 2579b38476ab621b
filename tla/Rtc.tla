-------------------------------- MODULE Rtc --------------------------------
(***************************************************************************)
(* The RTC driver (rtc.c) as the processes that have /dev/rtc open use it  *)
(* through open_handler, write_handler and read_handler.                   *)
(*                                                                         *)
(* One global flag, rtc_status, is set by the interrupt handler and        *)
(* cleared by rtc_open and by the rtc_read that sees it.  A system call    *)
(* enters through a trap gate (idt_init sets reserved3 for 0x80), so       *)
(* rtc_read spins with interrupts on and the interrupt can arrive while a  *)
(* reader waits.  Which process holds the CPU is abstracted: a waiting     *)
(* reader may return whenever the flag is up.  rtc_tick is written and     *)
(* never read, and is left out.                                            *)
(***************************************************************************)
EXTENDS Integers, Bitwise

CONSTANTS
    Procs,          \* processes that use the RTC
    WriteFreqs      \* the int values programs write()

MAX_FREQ       == 1024
MIN_FREQ       == 2
MAX_FREQ_COUNT == 6
FREQ_MASK      == 240       \* 0xF0
RATE_MASK      == 15        \* 0x0F

VARIABLES
    rtcStatus,      \* rtc_status
    regA,           \* RTC status register A (divider and rate select)
    opened,         \* processes with an RTC descriptor open
    reading,        \* reading[p]: p is spinning in rtc_read
    tickSince,      \* ghost: an interrupt arrived since p entered rtc_read
    freqSet         \* ghost: the frequency of the last successful set

vars == <<rtcStatus, regA, opened, reading, tickSince, freqSet>>

(* set_frequency's validation loop: i runs 1024, 512, ..., 2 and count    *)
(* 6, 7, ...; the count at i = freq, or -1 when no i matched.            *)
RECURSIVE RateLoop(_, _, _)
RateLoop(freq, i, count) ==
    IF i < 2 THEN -1
    ELSE IF freq = i THEN count
    ELSE RateLoop(freq, i \div 2, count + 1)

\* Fault seeded for mutation analysis: count starts one below 1024's rate.
RateSearchLow(freq) == RateLoop(freq, MAX_FREQ, MAX_FREQ_COUNT - 1)

RateSearch(freq) == RateLoop(freq, MAX_FREQ, MAX_FREQ_COUNT)

(* set_frequency(freq): on a valid freq, register A keeps its upper bits  *)
(* (prev & FREQ_MASK) and takes the rate in its low four bits.            *)
set_frequency(freq) ==
    LET temp == RateSearch(freq) IN
    IF temp = -1
    THEN UNCHANGED <<regA, freqSet>>
    ELSE /\ regA' = (regA & FREQ_MASK) | (temp & RATE_MASK)
         /\ freqSet' = freq

-----------------------------------------------------------------------------
(* open("rtc") by p: open_handler installs the RTC descriptor and calls    *)
(* rtc_open, which clears rtc_status and sets 2 Hz.                        *)
RtcOpen(p) ==
    /\ p \notin opened
    /\ opened' = opened \cup {p}
    /\ rtcStatus' = 0
    /\ set_frequency(MIN_FREQ)
    /\ UNCHANGED <<reading, tickSince>>

\* write(fd, &f, 4) by p: rtc_write passes f to set_frequency.
RtcWrite(p, f) ==
    /\ p \in opened
    /\ ~reading[p]
    /\ set_frequency(f)
    /\ UNCHANGED <<rtcStatus, opened, reading, tickSince>>

\* Fault seeded for mutation analysis: read_handler's flags check dropped.
RtcReadBeginUnopened(p) ==
    /\ ~reading[p]
    /\ reading' = [reading EXCEPT ![p] = TRUE]
    /\ tickSince' = [tickSince EXCEPT ![p] = FALSE]
    /\ UNCHANGED <<rtcStatus, regA, opened, freqSet>>

\* read(fd, ...) by p enters rtc_read's spin loop.
RtcReadBegin(p) ==
    /\ p \in opened
    /\ ~reading[p]
    /\ reading' = [reading EXCEPT ![p] = TRUE]
    /\ tickSince' = [tickSince EXCEPT ![p] = FALSE]
    /\ UNCHANGED <<rtcStatus, regA, opened, freqSet>>

\* p, on the CPU, sees rtc_status set, clears it and returns 0.
RtcReadReturn(p) ==
    /\ reading[p]
    /\ rtcStatus = 1
    /\ rtcStatus' = 0
    /\ reading' = [reading EXCEPT ![p] = FALSE]
    /\ UNCHANGED <<regA, opened, tickSince, freqSet>>

\* close(fd) by p: close_handler frees the descriptor (rtc_close is empty).
RtcClose(p) ==
    /\ p \in opened
    /\ ~reading[p]
    /\ opened' = opened \ {p}
    /\ UNCHANGED <<rtcStatus, regA, reading, tickSince, freqSet>>

\* rtc_interrupt_handler: rtc_status = 1.
RtcInterrupt ==
    /\ rtcStatus' = 1
    /\ tickSince' = [q \in Procs |-> tickSince[q] \/ reading[q]]
    /\ UNCHANGED <<regA, opened, reading, freqSet>>

(* rtc_initialize clears rtc_status; register A holds its power-on value  *)
(* 0x26 (divider 010, rate 6 = 1024 Hz), which rtc_initialize keeps.      *)
Init ==
    /\ rtcStatus = 0
    /\ regA = 38
    /\ opened = {}
    /\ reading = [p \in Procs |-> FALSE]
    /\ tickSince = [p \in Procs |-> FALSE]
    /\ freqSet = MAX_FREQ

Next ==
    \/ \E p \in Procs : RtcOpen(p) \/ RtcReadBegin(p) \/ RtcReadReturn(p)
                          \/ RtcClose(p)
    \/ \E p \in Procs, f \in WriteFreqs : RtcWrite(p, f)
    \/ RtcInterrupt

Spec == Init /\ [][Next]_vars

-----------------------------------------------------------------------------
(* Properties *)

TypeOK ==
    /\ rtcStatus \in {0, 1}
    /\ regA \in 0 .. 255
    /\ opened \subseteq Procs
    /\ reading \in [Procs -> BOOLEAN]
    /\ tickSince \in [Procs -> BOOLEAN]
    /\ \A p \in Procs : reading[p] => p \in opened

\* The periodic rate a rate-select value r >= 3 gives: 32768 >> (r - 1) Hz.
RateHz(r) == 32768 \div 2^(r - 1)

(* Register A always selects the frequency last accepted by               *)
(* set_frequency, through rtc_open's 2 Hz and every valid write, and keeps *)
(* the divider bits (010) of its power-on value: the rate computed by the  *)
(* validation loop of set_frequency agrees with the hardware's formula.    *)
RateMatchesRequest ==
    /\ regA \div 16 = 2
    /\ regA % 16 >= 3
    /\ RateHz(regA % 16) = freqSet

(* Each rtc_read is tied to its own PCB (spec 5): a tick that arrives while *)
(* p waits stays pending until p sees it, whatever other processes do with *)
(* their RTC descriptors.                                                  *)
NoLostWakeup ==
    \A p \in Procs : reading[p] /\ tickSince[p] => rtcStatus = 1

=============================================================================
