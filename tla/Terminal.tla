----------------------------- MODULE Terminal -----------------------------
(***************************************************************************)
(* The keyboard line buffer (keyboard.c), its save and restore on an Alt+F *)
(* switch (scheduler.c terminal_switch), and terminal_read/terminal_write  *)
(* (terminal.c) of the programs on the terminals.                          *)
(*                                                                         *)
(* There is one keyBuffer and one keyBufferIndex for all terminals; a      *)
(* switch copies the buffer to and from term_arr[t].keyBuf, but not the    *)
(* index.  Keyboard interrupts run with IF clear and are atomic.  A        *)
(* program on terminal t runs while curr_process = t, and terminal_read    *)
(* spins with IF set, so keys, switches and ticks interleave with it.      *)
(*                                                                         *)
(* Sizes are scaled down: MIL stands for maxInputLength (127), keyBuffer's *)
(* length, with keyBufferSize = MIL + 1 and spacingSet = 2 as in the code, *)
(* and WRAP for the echo wrap column screenWidth - 7 (73), with the same   *)
(* order (one wrap before the buffer is full).  Typed characters are one   *)
(* value X: the keys_map lookup and the shift/caps mode only pick which    *)
(* character it is.  Next to keyBuffer's cells the model keeps the byte    *)
(* before it (cell -1) and the byte after it (cell MIL), so writes that    *)
(* miss the array are visible.                                             *)
(*                                                                         *)
(* line[t] is the input buffer spec 4.5 describes for terminal t, and      *)
(* got[t] what t's last read returned: the ghosts the properties compare   *)
(* the code against.                                                       *)
(***************************************************************************)
EXTENDS Integers, Sequences, SequencesExt

CONSTANTS
    NumTerm,        \* terminals (NUM_TERM)
    MIL,            \* maxInputLength
    WRAP            \* screenWidth - 7

ASSUME /\ NumTerm \in 2 .. 3
       /\ MIL \in 4 .. 8
       /\ 0 < WRAP /\ WRAP < MIL - 2 /\ 2 * WRAP >= MIL - 1

Terms == 0 .. NumTerm - 1
KBS   == MIL + 1                  \* keyBufferSize
Cells == -1 .. MIL                \* keyBuffer[0 .. MIL-1] and its neighbours
Buf   == 0 .. MIL - 1

NUL == "nul"
NL  == "nl"
X   == "x"                        \* a typed character
OLD == "old"                      \* a byte of the user buffer not written

VARIABLES
    keyBuffer,      \* keyBuffer[], with the bytes at -1 and MIL
    keyBufferIndex, \* keyBufferIndex
    keyBuf,         \* keyBuf[t]: term_arr[t].keyBuf
    enterFlag,      \* enterFlag[t]: term_arr[t].enterFlag
    currTerminal,   \* curr_terminal
    currProcess,    \* curr_process
    altPressed,     \* altPressed
    ctrlPressed,    \* ctrlPressed
    proc,           \* proc[t]: "run", or "read" while in terminal_read
    line,           \* ghost: spec 4.5's input buffer of each terminal
    got             \* ghost: the bytes t's last terminal_read returned

vars == <<keyBuffer, keyBufferIndex, keyBuf, enterFlag, currTerminal,
          currProcess, altPressed, ctrlPressed, proc, line, got>>

\* term_arr[t].visible: set for the foreground terminal only.
Visible(t) == t = currTerminal

-----------------------------------------------------------------------------
(* key_press(key) past its keyBufferIndex < keyBufferSize - spacingSet     *)
(* block: when the index is keyBufferSize - 1, a newline is stored there.  *)
KeyPressTail(kb, idx) ==
    IF idx = KBS - 1 THEN [kb EXCEPT ![idx] = NL] ELSE kb

\* key_press(key) for a key whose keys_map entry is 0 (modifiers, Enter,
\* Backspace): the block returns early, the tail runs otherwise.
KeyPressNull(kb, idx) ==
    IF idx < KBS - 2 THEN kb ELSE KeyPressTail(kb, idx)

(* key_press(key) for a printable key: below the limit, a newline first    *)
(* when the index is a non-zero multiple of the wrap column, then the      *)
(* character; the tail in either case.  Yields <<keyBuffer, index>>.       *)
KeyPressChar(kb, idx, c) ==
    IF idx < KBS - 2
    THEN LET wrap == idx /= 0 /\ idx % WRAP = 0
             kb1  == IF wrap THEN [kb EXCEPT ![idx] = NL] ELSE kb
             i1   == IF wrap THEN idx + 1 ELSE idx
         IN  <<KeyPressTail([kb1 EXCEPT ![i1] = c], i1 + 1), i1 + 1>>
    ELSE <<KeyPressTail(kb, idx), idx>>

\* Spec 4.5's buffer after a printable key (bounded by maxInputLength).
SpecType(s) == IF Len(s) < MIL THEN Append(s, X) ELSE s

\* Keys leave the spec's buffers and the programs alone.
KeysOnly == UNCHANGED <<currProcess, proc, got>>

-----------------------------------------------------------------------------
(* keyboard_inter_handler, one action per scan code it tells apart.        *)

\* A printable key: no case of the switch, then key_press.
KeyChar ==
    LET r == KeyPressChar(keyBuffer, keyBufferIndex, X) IN
    /\ keyBuffer' = r[1]
    /\ keyBufferIndex' = r[2]
    /\ line' = [line EXCEPT ![currTerminal] = SpecType(@)]
    /\ KeysOnly
    /\ UNCHANGED <<keyBuf, enterFlag, currTerminal, altPressed, ctrlPressed>>

(* enter_user (lib.c) sets the foreground terminal's enter flag (spec      *)
(* 4.5: Enter "sets that terminal's enter flag").                          *)
enter_user(ef) == [ef EXCEPT ![currTerminal] = 1]

(* ENTER: enter_user(), a newline stored at keyBufferIndex and the index   *)
(* incremented without a bound check, then key_press(ENTER).               *)
KeyEnter ==
    LET kb  == [keyBuffer EXCEPT ![keyBufferIndex] = NL]
        idx == keyBufferIndex + 1
    IN
    /\ enterFlag' = enter_user(enterFlag)
    /\ keyBuffer' = KeyPressNull(kb, idx)
    /\ keyBufferIndex' = idx
    /\ line' = [line EXCEPT ![currTerminal] = Append(@, NL)]
    /\ KeysOnly
    /\ UNCHANGED <<keyBuf, currTerminal, altPressed, ctrlPressed>>

(* BACKSPACE: with a non-empty buffer, a newline AT keyBufferIndex is      *)
(* cleared with an extra decrement, then the byte at the index is cleared  *)
(* and the index decremented; then key_press(BACKSPACE).                   *)
KeyBackspace ==
    LET nl   == keyBufferIndex > 0 /\ keyBuffer[keyBufferIndex] = NL
        kb1  == IF nl THEN [keyBuffer EXCEPT ![keyBufferIndex] = NUL]
                      ELSE keyBuffer
        i1   == IF nl THEN keyBufferIndex - 1 ELSE keyBufferIndex
        kb2  == IF keyBufferIndex > 0 THEN [kb1 EXCEPT ![i1] = NUL] ELSE kb1
        i2   == IF keyBufferIndex > 0 THEN i1 - 1 ELSE i1
        s    == line[currTerminal]
    IN
    /\ keyBuffer' = KeyPressNull(kb2, i2)
    /\ keyBufferIndex' = i2
    /\ line' = [line EXCEPT ![currTerminal] =
                    IF s = <<>> THEN s ELSE SubSeq(s, 1, Len(s) - 1)]
    /\ KeysOnly
    /\ UNCHANGED <<keyBuf, enterFlag, currTerminal, altPressed, ctrlPressed>>

(* Ctrl+L inside key_press: below the limit, reset() and keyBuffer[0 ..    *)
(* keyBufferSize-1] cleared, index 0; otherwise only the tail.             *)
KeyCtrlL ==
    /\ ctrlPressed = 1
    /\ IF keyBufferIndex < KBS - 2
       THEN /\ keyBuffer' = [k \in Cells |-> IF k \in 0 .. KBS - 1 THEN NUL
                                                ELSE keyBuffer[k]]
            /\ keyBufferIndex' = 0
            /\ line' = [line EXCEPT ![currTerminal] = <<>>]
       ELSE /\ keyBuffer' = KeyPressTail(keyBuffer, keyBufferIndex)
            /\ UNCHANGED <<keyBufferIndex, line>>
    /\ KeysOnly
    /\ UNCHANGED <<keyBuf, enterFlag, currTerminal, altPressed, ctrlPressed>>

(* LCTRL/LALT pressed: the flag set, then key_press with a 0 entry.  A   *)
(* shift or caps press is the same step for the buffer (it changes only   *)
(* the keys_map mode, which is abstracted).                               *)
ModifierDown(ctrl) ==
    /\ IF ctrl THEN /\ ctrlPressed' = 1 /\ UNCHANGED altPressed
               ELSE /\ altPressed' = 1 /\ UNCHANGED ctrlPressed
    /\ keyBuffer' = KeyPressNull(keyBuffer, keyBufferIndex)
    /\ KeysOnly
    /\ UNCHANGED <<keyBufferIndex, keyBuf, enterFlag, currTerminal, line>>

\* LCTRL/LALT released: the flag cleared; release codes skip key_press.
ModifierUp(ctrl) ==
    /\ IF ctrl THEN /\ ctrlPressed' = 0 /\ UNCHANGED altPressed
               ELSE /\ altPressed' = 0 /\ UNCHANGED ctrlPressed
    /\ KeysOnly
    /\ UNCHANGED <<keyBuffer, keyBufferIndex, keyBuf, enterFlag,
                   currTerminal, line>>

(* F1..F3 with Alt held: terminal_switch(idx).  terminal_save_state        *)
(* copies keyBuffer into the outgoing terminal's keyBuf and                *)
(* terminal_restore_state copies the incoming one's back; the index is     *)
(* not saved.  F-keys are past keySize, so key_press returns at once.      *)
AltF(idx) ==
    /\ altPressed = 1
    /\ idx /= currTerminal
    /\ keyBuf' = [keyBuf EXCEPT ![currTerminal] = [k \in Buf |-> keyBuffer[k]]]
    /\ keyBuffer' = [k \in Cells |-> IF k \in Buf THEN keyBuf'[idx][k]
                                     ELSE keyBuffer[k]]
    /\ currTerminal' = idx
    /\ KeysOnly
    /\ UNCHANGED <<keyBufferIndex, enterFlag, altPressed, ctrlPressed, line>>

-----------------------------------------------------------------------------
(* The PIT moves the CPU to the next terminal's program.                   *)
SchedTick ==
    /\ currProcess' = (currProcess + 1) % NumTerm
    /\ UNCHANGED <<keyBuffer, keyBufferIndex, keyBuf, enterFlag, currTerminal,
                   altPressed, ctrlPressed, proc, line, got>>

\* The program on the CPU calls read(0, buf, n): terminal_read spins.
ReadBegin ==
    /\ proc[currProcess] = "run"
    /\ proc' = [proc EXCEPT ![currProcess] = "read"]
    /\ UNCHANGED <<keyBuffer, keyBufferIndex, keyBuf, enterFlag, currTerminal,
                   currProcess, altPressed, ctrlPressed, line, got>>

(* The bytes terminal_read leaves in buf[0 .. count-1]: the loop stores    *)
(* keyBuffer[i] at buf[i] for every i whose byte is neither NUL nor a      *)
(* newline, and counts them.                                               *)
ReadCopy(kb) ==
    LET kept  == {i \in Buf : kb[i] \notin {NUL, NL}}
        count == Cardinality(kept)
    IN  [i \in 1 .. count |-> IF i - 1 \in kept THEN kb[i - 1] ELSE OLD]

(* The spin loop exits on the CPU when the foreground terminal's enter     *)
(* flag is set, keyBuffer[0] is not NUL and the caller's terminal is       *)
(* visible; the bytes are copied, keyBuffer[0 .. MIL-1] cleared and the    *)
(* index reset.  The enter flag is left as it is.  n = maxInputLength.     *)
ReadReturn ==
    LET t == currProcess IN
    /\ proc[t] = "read"
    /\ enterFlag[currTerminal] = 1
    /\ keyBuffer[0] /= NUL
    /\ Visible(t)
    /\ got' = [got EXCEPT ![t] = ReadCopy(keyBuffer)]
    /\ keyBuffer' = [k \in Cells |-> IF k \in Buf THEN NUL ELSE keyBuffer[k]]
    /\ keyBufferIndex' = 0
    /\ proc' = [proc EXCEPT ![t] = "run"]
    /\ line' = [line EXCEPT ![t] = <<>>]
    /\ UNCHANGED <<keyBuf, enterFlag, currTerminal, currProcess, altPressed,
                   ctrlPressed>>

\* The program on the CPU calls write(1, buf, n): terminal_write clears
\* term_arr[curr_process].enterFlag.
Write ==
    /\ proc[currProcess] = "run"
    /\ enterFlag' = [enterFlag EXCEPT ![currProcess] = 0]
    /\ UNCHANGED <<keyBuffer, keyBufferIndex, keyBuf, currTerminal,
                   currProcess, altPressed, ctrlPressed, proc, line, got>>

-----------------------------------------------------------------------------
\* keyBuffer and term_arr are zeroed .bss; init_terminal shows terminal 0.
Init ==
    /\ keyBuffer = [k \in Cells |-> NUL]
    /\ keyBufferIndex = 0
    /\ keyBuf = [t \in Terms |-> [k \in Buf |-> NUL]]
    /\ enterFlag = [t \in Terms |-> 0]
    /\ currTerminal = 0
    /\ currProcess = 0
    /\ altPressed = 0
    /\ ctrlPressed = 0
    /\ proc = [t \in Terms |-> "run"]
    /\ line = [t \in Terms |-> <<>>]
    /\ got = [t \in Terms |-> <<>>]

Next ==
    \/ KeyChar \/ KeyEnter \/ KeyBackspace \/ KeyCtrlL
    \/ \E ctrl \in BOOLEAN : ModifierDown(ctrl) \/ ModifierUp(ctrl)
    \/ \E idx \in Terms : AltF(idx)
    \/ SchedTick \/ ReadBegin \/ ReadReturn \/ Write

(* The PIT keeps rotating the CPU, and a program spinning in terminal_read *)
(* re-tests its exit condition for as long as it holds the CPU, so a test  *)
(* that is true whenever it runs, infinitely often, is passed.  Keys and   *)
(* programs' calls are not fair: a user may stop typing.                   *)
Fairness ==
    /\ SF_vars(SchedTick)
    /\ SF_vars(ReadReturn)

Spec == Init /\ [][Next]_vars /\ Fairness

-----------------------------------------------------------------------------
(* Properties *)

TypeOK ==
    /\ keyBuffer \in [Cells -> {NUL, NL, X}]
    /\ keyBufferIndex \in Int
    /\ keyBuf \in [Terms -> [Buf -> {NUL, NL, X}]]
    /\ enterFlag \in [Terms -> {0, 1}]
    /\ {currTerminal, currProcess} \subseteq Terms
    /\ {altPressed, ctrlPressed} \subseteq {0, 1}
    /\ proc \in [Terms -> {"run", "read"}]

(* Every byte keyboard_inter_handler and key_press store lands inside      *)
(* keyBuffer[0 .. maxInputLength-1]: the index never leaves the buffer,    *)
(* through Backspace's double decrement, unbounded Enter or the newline    *)
(* key_press stores at keyBufferSize - 1, and no byte next to the array is *)
(* written.                                                                *)
KeyBufferInBounds ==
    /\ keyBufferIndex \in 0 .. MIL
    /\ keyBuffer[-1] = NUL
    /\ keyBuffer[MIL] = NUL

(* A program reading the foreground terminal, once a line has been entered *)
(* there, eventually returns from terminal_read unless the user switches   *)
(* away: the scheduler keeps giving it the CPU and it re-tests its exit.   *)
EnteredLineIsRead ==
    \A t \in Terms :
        (proc[t] = "read" /\ currTerminal = t /\ NL \in Range(line[t]))
            ~> (proc[t] = "run" \/ currTerminal /= t)

\* Exploration stops one byte past the array; a larger index has already
\* broken KeyBufferInBounds.
IndexBound == keyBufferIndex <= MIL /\ \A t \in Terms : Len(line[t]) <= MIL + 1

=============================================================================
