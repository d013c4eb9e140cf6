------------------------------ MODULE Keyboard ------------------------------
(***************************************************************************)
(* The keyboard interrupt handler of device/keyboard.c, fed with the scan  *)
(* codes of set 1 by a keyboard on which keys are pressed, held (the       *)
(* keyboard repeats the make code) and released in any order.              *)
(***************************************************************************)
EXTENDS Integers, Sequences

CONSTANTS
    Key,    \* the keys of the keyboard, named by their make codes
    NULL

shift_l_make == 42      \* 0x2a
shift_r_make == 54      \* 0x36
alt_l_make == 56        \* 0x38
alt_r_make == 57400     \* 0xe038
ctrl_l_make == 29       \* 0x1d
ctrl_r_make == 57373    \* 0xe01d
caps_lock_make == 58    \* 0x3a
extended == 57344       \* 0xe000

ctrl == {ctrl_l_make, ctrl_r_make}
shift == {shift_l_make, shift_r_make}
alt == {alt_l_make, alt_r_make}

\* No key has 0x60, with which the break code would be the prefix 0xe0.
KeyAssumption ==
    LET low == 1..127 \ {96} IN Key \subseteq low \cup {extended + k : k \in low}

ASSUME KeyAssumption

VARIABLES
    ctrl_status, shift_status, alt_status, caps_lock_status, ext_scancode,
    typed,      \* what the last interrupt handed to put_char and ioq_putchar
    down,       \* the keys that are physically down
    overlap,    \* ctrl, shift or alt: both keys were down, and one is still
    caps_on,    \* what the user means caps lock to be
    wire        \* the bytes port 0x60 still has to deliver

status == << ctrl_status, shift_status, alt_status, caps_lock_status >>

vars == << status, ext_scancode, typed, down, overlap, caps_on, wire >>

Init ==
    /\ ctrl_status = FALSE
    /\ shift_status = FALSE
    /\ alt_status = FALSE
    /\ caps_lock_status = FALSE
    /\ ext_scancode = FALSE
    /\ typed = NULL
    /\ down = {}
    /\ overlap = {}
    /\ caps_on = FALSE
    /\ wire = << >>

-----------------------------------------------------------------------------
\* The keyboard.  It sends the bytes of one key event after the other, so that
\* the next event may as well wait until the handler has read the last one.
\* A key that is held is pressed again and again; for caps lock every make code
\* counts, as in the handler.
bytes(code) == IF code >= extended THEN << 224, code % 256 >> ELSE << code >>

press(k) ==
    /\ wire = << >>
    /\ down' = down \cup {k}
    /\ overlap' = overlap \cup {pair \in {ctrl, shift, alt} : pair \subseteq down'}
    /\ wire' = bytes(k)
    /\ caps_on' = (caps_on # (k = caps_lock_make))
    /\ typed' = NULL
    /\ UNCHANGED << status, ext_scancode >>

release(k) ==
    /\ wire = << >>
    /\ k \in down
    /\ down' = down \ {k}
    /\ overlap' = {pair \in overlap : pair \cap down' # {}}
    /\ wire' = bytes(k + 128)
    /\ typed' = NULL
    /\ UNCHANGED << status, ext_scancode, caps_on >>

-----------------------------------------------------------------------------
\* The keys with two symbols, which shift alone selects
two_symbols(code) ==
    code < 14 \/ code \in {41, 26, 27, 43, 39, 40, 51, 52, 53}

\* Faulty: shift and caps lock together do not cancel out.
shifted_by_either(code) ==
    shift_status \/ (caps_lock_status /\ ~two_symbols(code))

\* The column of keymap: caps lock turns shift over for the other keys.
shifted(code) ==
    IF two_symbols(code) THEN shift_status ELSE shift_status # caps_lock_status

\* The rows of keymap that hold no character
invisible == {0, ctrl_l_make, shift_l_make, shift_r_make, alt_l_make, caps_lock_make}

\* The previous byte was the prefix 0xe0.
merged(byte) == IF ext_scancode THEN extended + byte ELSE byte

is_break(code) == (code \div 128) % 2 = 1

\* Faulty: one code too many for keymap
is_known_f1(code) == code \in 1..59 \cup {alt_r_make, ctrl_r_make}

is_known(code) == code \in 1..58 \cup {alt_r_make, ctrl_r_make}

break_code(make_code) ==
    /\ ctrl_status' = (ctrl_status /\ make_code \notin ctrl)
    /\ shift_status' = (shift_status /\ make_code \notin shift)
    /\ alt_status' = (alt_status /\ make_code \notin alt)
    /\ UNCHANGED << caps_lock_status, typed >>

\* index is the low byte of the code, and it is compared with the make codes:
\* the right ctrl and alt keys pass for the left ones.
control_key(index) ==
    /\ ctrl_status' = (ctrl_status \/ index \in ctrl)
    /\ shift_status' = (shift_status \/ index \in shift)
    /\ alt_status' = (alt_status \/ index \in alt)
    /\ caps_lock_status' = (caps_lock_status # (index = caps_lock_make))
    /\ UNCHANGED typed

\* A character; it is dropped when kbd_buf is full.
character(code) ==
    /\ typed' \in {<< code % 256, shifted(code) >>, NULL}
    /\ UNCHANGED status

handle(code) ==
    IF is_break(code) THEN break_code(code - 128)
    ELSE IF ~is_known(code) THEN UNCHANGED << status, typed >>
    ELSE IF code % 256 \in invisible THEN control_key(code % 256)
    ELSE character(code)

\* Faulty: the prefix is not forgotten.
prefix_kept == TRUE

prefix_done == FALSE

intr_keyboard_handler ==
    /\ wire # << >>
    /\ wire' = Tail(wire)
    /\ IF Head(wire) = 224
       THEN ext_scancode' = TRUE /\ UNCHANGED << status, typed >>
       ELSE /\ handle(merged(Head(wire)))
            /\ ext_scancode' = prefix_done
    /\ UNCHANGED << down, overlap, caps_on >>

Next ==
    \/ \E k \in Key : press(k) \/ release(k)
    \/ intr_keyboard_handler

Spec == Init /\ [][Next]_vars

-----------------------------------------------------------------------------
held(pair) == down \cap pair # {}

\* "The following variables record whether the key is down": once the codes of
\* an event are handled, a flag agrees with the keys of its pair.  When both
\* keys of a pair were down and one is released, the flag is cleared though the
\* other is still held; it is never set when neither is.
ModifiersExact ==
    LET agrees(flag, pair) ==
            IF pair \in overlap THEN flag => held(pair) ELSE flag = held(pair)
    IN  wire = << >> =>
            /\ agrees(ctrl_status, ctrl)
            /\ agrees(shift_status, shift)
            /\ agrees(alt_status, alt)

\* A character that is typed is that of a key that is down and has a row in
\* keymap, in the column that the shift keys and caps lock select: symbols by
\* shift, letters by both.
TypedAsPressed ==
    typed # NULL =>
        /\ typed[1] \in down \cap 1..58
        /\ shift \notin overlap =>
              typed[2] = IF two_symbols(typed[1]) THEN held(shift)
                                                  ELSE held(shift) # caps_on

=============================================================================
