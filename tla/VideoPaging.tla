---------------------------- MODULE VideoPaging ----------------------------
(***************************************************************************)
(* The video page mappings of the three terminals (scheduler.c,            *)
(* syscall.c vidmap_handler, terminal.c terminal_write) and the screen     *)
(* contents they route output to.                                          *)
(*                                                                         *)
(* Physical frames: VGA (0xB8000, shown on the monitor) and one backing    *)
(* frame per terminal, video_addr[t] = VIDEO_MEM + (t+1)*4 KiB.  The       *)
(* kernel writes a background terminal's output through the virtual page   *)
(* video_addr[curr_process] (lib.c putc via video_mem), whose page_table   *)
(* entry the scheduler and the Alt+F switch rewrite; the foreground        *)
(* terminal writes to VGA directly (putc_user).  User code that called     *)
(* vidmap writes through the 1 GiB window, page_virtual_mem[0].            *)
(*                                                                         *)
(* A frame's contents are abstracted to the set of terminal slots whose    *)
(* output it holds; the copies terminal_save_state/terminal_restore_state  *)
(* make move these sets between frames.                                    *)
(***************************************************************************)
EXTENDS Integers, FiniteSets

NUM_TERM   == 3
Terms      == 0 .. NUM_TERM - 1
VGA        == 184                   \* VIDEO_MEM >> 12
Backing(t) == 185 + t               \* video_addr[t] >> 12
Frames     == {VGA} \cup {Backing(t) : t \in Terms}
NotPresent == 0                     \* a zeroed page_table entry

VARIABLES
    booted,         \* sched_pid[0] /= 0: the first shell was launched
    currProcess,    \* curr_process: terminal slot on the CPU
    currTerminal,   \* curr_terminal: foreground terminal
    pte,            \* page_table[video_addr[t] >> 12]: frame or NotPresent
    vidFrame,       \* 20-bit frame field of page_virtual_mem[0]
    vidmapOn,       \* page_dir[1 GiB >> 22] present (set by vidmap)
    content,        \* slots whose output each physical frame holds
    wrote           \* ghost: slots that have written output

vars == <<booted, currProcess, currTerminal, pte, vidFrame, vidmapOn,
          content, wrote>>

\* The page_table_base_addr_entry field of the 4 MiB-page layout is bits
\* 22..31 of the entry, i.e. the upper 10 bits of the 20-bit frame of the
\* 4 KiB layout: writing v there keeps the frame's lower 10 bits.
WriteEntryBase(frame, v) == (v % 2^10) * 2^10 + (frame % 2^10)

\* Frame holding terminal t's screen: VGA when it is in the foreground.
ScreenFrame(t) == IF t = currTerminal THEN VGA ELSE Backing(t)

-----------------------------------------------------------------------------
(* scheduler(): the first tick launches shell 1 on slot 0 without touching *)
(* the video pages; every later tick rotates curr_process and calls        *)
(* scheduler_remap_video(next_process), in both the lazy-shell and the     *)
(* switch branch.                                                          *)
SchedBoot ==
    /\ ~booted
    /\ booted' = TRUE
    /\ UNCHANGED <<currProcess, currTerminal, pte, vidFrame, vidmapOn,
                   content, wrote>>

scheduler_remap_video(idx) ==
    /\ pte' = [pte EXCEPT ![idx] = IF idx = currTerminal THEN VGA
                                                         ELSE Backing(idx)]
    /\ vidFrame' = WriteEntryBase(vidFrame, ScreenFrame(idx))

\* Fault seeded for mutation analysis: next_process without "% 3".
SchedTickNoWrap ==
    LET nxt == currProcess + 1 IN
    /\ booted
    /\ currProcess' = nxt
    /\ scheduler_remap_video(nxt)
    /\ UNCHANGED <<booted, currTerminal, vidmapOn, content, wrote>>

SchedTick ==
    LET nxt == (currProcess + 1) % NUM_TERM IN
    /\ booted
    /\ currProcess' = nxt
    /\ scheduler_remap_video(nxt)
    /\ UNCHANGED <<booted, currTerminal, vidmapOn, content, wrote>>

-----------------------------------------------------------------------------
\* remap_video(t): terminal t's page (and the vidmap window, set below)
\* back to t's own backing frame.
remap_video(p, t) == [p EXCEPT ![t] = Backing(t)]

\* terminal_save_state(t): copy the VGA buffer into t's backing frame.
terminal_save_state(c, t) == [c EXCEPT ![Backing(t)] = c[VGA]]

\* terminal_restore_state(t): copy t's backing frame into the VGA buffer.
terminal_restore_state(c, t) == [c EXCEPT ![VGA] = c[Backing(t)]]

\* Fault seeded for mutation analysis: the save omits remap_video.
TerminalSwitchNoSaveRemap(idx) ==
    /\ idx /= currTerminal
    /\ currTerminal' = idx
    /\ pte' = [remap_video(pte, idx) EXCEPT ![idx] = VGA]
    /\ vidFrame' = VGA
    /\ content' = terminal_restore_state(terminal_save_state(content, currTerminal), idx)
    /\ UNCHANGED <<booted, currProcess, vidmapOn, wrote>>

\* Fault seeded for mutation analysis: restore runs before save.
TerminalSwitchRestoreFirst(idx) ==
    /\ idx /= currTerminal
    /\ currTerminal' = idx
    /\ pte' = [remap_video(remap_video(pte, currTerminal), idx) EXCEPT ![idx] = VGA]
    /\ vidFrame' = VGA
    /\ content' = terminal_save_state(terminal_restore_state(content, idx), currTerminal)
    /\ UNCHANGED <<booted, currProcess, vidmapOn, wrote>>

(* terminal_switch(idx) from the Alt+F1..F3 keyboard handler: save the     *)
(* foreground terminal (remap_video, copy VGA out), make idx the           *)
(* foreground and restore it (remap_video, copy into VGA), then point      *)
(* idx's page and the vidmap window at the VGA buffer.                     *)
TerminalSwitch(idx) ==
    /\ idx /= currTerminal
    /\ currTerminal' = idx
    /\ pte' = [remap_video(remap_video(pte, currTerminal), idx) EXCEPT ![idx] = VGA]
    /\ vidFrame' = VGA
    /\ content' = terminal_restore_state(terminal_save_state(content, currTerminal), idx)
    /\ UNCHANGED <<booted, currProcess, vidmapOn, wrote>>

-----------------------------------------------------------------------------
(* terminal_write by the process of slot curr_process: putc_user to the    *)
(* VGA buffer when its terminal is visible, putc through video_mem =       *)
(* video_addr[curr_process] otherwise (a not-present page faults).         *)
TerminalWrite ==
    LET p == currProcess
        f == IF p = currTerminal THEN VGA ELSE pte[p]
    IN
    /\ booted
    /\ f /= NotPresent
    /\ content' = [content EXCEPT ![f] = @ \cup {p}]
    /\ wrote' = wrote \cup {p}
    /\ UNCHANGED <<booted, currProcess, currTerminal, pte, vidFrame, vidmapOn>>

\* key_press echoes a typed character with putc_user to the VGA buffer.
KeyEcho ==
    /\ content' = [content EXCEPT ![VGA] = @ \cup {currTerminal}]
    /\ wrote' = wrote \cup {currTerminal}
    /\ UNCHANGED <<booted, currProcess, currTerminal, pte, vidFrame, vidmapOn>>

\* vidmap(screen_start) with a valid pointer, by the running program:
\* page_dir[256] -> page_virtual_mem, page_virtual_mem[0] -> VIDEO_MEM.
Vidmap ==
    /\ booted
    /\ vidmapOn' = TRUE
    /\ vidFrame' = VGA
    /\ UNCHANGED <<booted, currProcess, currTerminal, pte, content, wrote>>

-----------------------------------------------------------------------------
\* paging_initialize zeroes the page table except the VGA page itself;
\* init_terminal makes terminal 0 the foreground; the screens are blank.
Init ==
    /\ booted = FALSE
    /\ currProcess = 0
    /\ currTerminal = 0
    /\ pte = [t \in Terms |-> NotPresent]
    /\ vidFrame = 0
    /\ vidmapOn = FALSE
    /\ content = [f \in Frames |-> {}]
    /\ wrote = {}

Next ==
    \/ SchedBoot
    \/ SchedTick
    \/ \E idx \in Terms : TerminalSwitch(idx)
    \/ TerminalWrite
    \/ KeyEcho
    \/ Vidmap

Spec == Init /\ [][Next]_vars

-----------------------------------------------------------------------------
(* Properties *)

TypeOK ==
    /\ booted \in BOOLEAN
    /\ currProcess \in Terms /\ currTerminal \in Terms
    /\ pte \in [Terms -> Frames \cup {NotPresent}]
    /\ vidFrame \in 0 .. 2^20 - 1
    /\ vidmapOn \in BOOLEAN
    /\ content \in [Frames -> SUBSET Terms]
    /\ wrote \in SUBSET Terms

(* Spec 8: a terminal's video page is backed by the VGA buffer exactly     *)
(* when it is the foreground terminal, whatever order scheduler ticks      *)
(* (scheduler_remap_video) and Alt+F switches (terminal_switch) come in.   *)
VideoMapping ==
    \A t \in Terms :
        pte[t] /= NotPresent => (pte[t] = VGA <=> t = currTerminal)

(* Each terminal's screen shows exactly the output of its own slot: what   *)
(* terminal_write and the key echo wrote is neither lost by the save and   *)
(* restore copies of terminal_switch nor written onto another terminal.    *)
ScreenIsolation ==
    \A t \in Terms :
        content[ScreenFrame(t)] = IF t \in wrote THEN {t} ELSE {}

(* Spec 4.4, 9: once installed, the vidmap window aliases the video page   *)
(* of the terminal whose program runs; a window that maps a video frame at *)
(* all maps that one.                                                      *)
VidmapWindow ==
    (vidmapOn /\ vidFrame \in Frames) => vidFrame = ScreenFrame(currProcess)

(* The vidmap window always maps one of the four video frames, never an    *)
(* address the scheduler's page_virtual_mem update made up.                *)
VidmapInVideoMemory ==
    vidmapOn => vidFrame \in Frames

=============================================================================
