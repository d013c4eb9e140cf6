-------------------------------- MODULE TextOutput -----------------------------
(***************************************************************************)
(* put_char, put_str and put_int of lib/kernel/print.S: a thread prints,   *)
(* under the console's lock, one access to the CRT controller after the    *)
(* other, and the keyboard interrupt echoes characters in between, unless  *)
(* it is masked.                                                           *)
(*                                                                         *)
(* The controller has an index port and a data port, behind which the two  *)
(* bytes of the cursor are.  A cell of video memory is a character; its    *)
(* attribute never changes.  bx has WORD values, and the byte offset of a  *)
(* cell too, so that there are WORD / 2 cells, of which CELLS are seen.    *)
(***************************************************************************)
EXTENDS Integers, Sequences

CONSTANTS
    BYTE,           \* 256
    COLS, ROWS,     \* 80 and 25
    BASE, DIGITS,   \* of put_int: 16 and 8
    Echoed,         \* what keys may echo
    Texts,          \* what threads hand to put_str
    Numbers         \* and to put_int

WORD == BYTE * BYTE
CELLS == COLS * ROWS

ASSUME PrintAssumption ==
    /\ BYTE \in Nat \ {0} /\ BYTE % 2 = 0
    /\ COLS \in Nat \ {0} /\ ROWS \in Nat \ {0}
    /\ CELLS + COLS < WORD \div 2
    /\ BASE \in Nat \ {0, 1} /\ DIGITS \in Nat \ {0}
    /\ Echoed \subseteq Nat /\ Texts \subseteq Seq(Nat) \ {<< >>} /\ Numbers \subseteq Nat

backspace == 8
line_feed == 10         \* and 13, which does the same
blank == 32

VARIABLES
    index, cursor_high, cursor_low, \* the controller
    video,
    pc, todo, high, low, bx,        \* the thread: what it still has to print
    tear,           \* whether an interrupt came between the accesses of a character
    underrun,       \* whether a backspace was printed at cursor 0
    lines, row, col, due    \* a terminal, and what it is still to show

crtc == << index, cursor_high, cursor_low >>
printer == << pc, todo, high, low, bx >>
screen == << lines, row, col >>
terminal == << screen, due >>

printvars == << crtc, video, printer, tear, underrun, terminal >>

PrintInit ==
    /\ index = "low" /\ cursor_high = 0 /\ cursor_low = 0
    /\ video = [i \in 0..(WORD \div 2 - 1) |-> blank]
    /\ pc = "idle" /\ todo = << >>
    /\ high = 0 /\ low = 0 /\ bx = 0
    /\ tear = "none"
    /\ underrun = FALSE
    /\ lines = [r \in 0..(ROWS - 1) |-> [c \in 0..(COLS - 1) |-> blank]]
    /\ row = 0 /\ col = 0 /\ due = << >>

-----------------------------------------------------------------------------
word(n) == n % WORD

\* Faulty: one cell too far.
is_below_end_late(n) == IF n < WORD \div 2 THEN n <= CELLS ELSE n - WORD < CELLS

\* jl compares 16 bits with a sign.
is_below_end(n) == IF n < WORD \div 2 THEN n < CELLS ELSE n - WORD < CELLS

\* shl bx, 1 loses the high bit.
cell(b) == word(2 * b) \div 2

next_line(b) == word((b \div COLS) * COLS + COLS)

\* Faulty: the last line is not cleared.
rolled_uncleared(v) ==
    [i \in DOMAIN v |-> IF i < CELLS - COLS THEN v[i + COLS] ELSE v[i]]

\* Lines 1 to 24 move up and the last one is cleared.
rolled(v) == [i \in DOMAIN v |-> IF i < CELLS - COLS THEN v[i + COLS]
                                 ELSE IF i < CELLS THEN blank ELSE v[i]]

\* Video memory and cursor after a line feed at b
feed(v, b) ==
    IF is_below_end(next_line(b)) THEN << v, next_line(b) >>
    ELSE << rolled(v), CELLS - COLS >>

\* Video memory and cursor after c was printed at b
drawn(v, b, c) ==
    IF c = line_feed THEN feed(v, b)
    ELSE IF c = backspace
    THEN LET i == cell(word(b - 1)) IN << [v EXCEPT ![i] = blank], i >>
    ELSE LET after == [v EXCEPT ![cell(b)] = c]
         IN  IF is_below_end(cell(b) + 1) THEN << after, cell(b) + 1 >>
             ELSE feed(after, cell(b) + 1)

cursor == cursor_high * BYTE + cursor_low

-----------------------------------------------------------------------------
\* The terminal works on lines, where the code counts cells.
scrolled(ls) == [r \in DOMAIN ls |-> IF r < ROWS - 1 THEN ls[r + 1]
                                     ELSE [c \in 0..(COLS - 1) |-> blank]]

new_line(ls) ==
    /\ lines' = IF row < ROWS - 1 THEN ls ELSE scrolled(ls)
    /\ row' = IF row < ROWS - 1 THEN row + 1 ELSE row
    /\ col' = 0

show(c) ==
    IF c = line_feed THEN new_line(lines)
    ELSE IF c = backspace
    THEN LET r == IF col = 0 THEN row - 1 ELSE row
             k == IF col = 0 THEN COLS - 1 ELSE col - 1
         IN  IF r < 0 THEN UNCHANGED screen
             ELSE lines' = [lines EXCEPT ![r][k] = blank] /\ row' = r /\ col' = k
    ELSE LET ls == [lines EXCEPT ![row][col] = c]
         IN  IF col = COLS - 1 THEN new_line(ls)
             ELSE lines' = ls /\ col' = col + 1 /\ UNCHANGED row

\* Once an interrupt has torn a character apart there is nothing to compare with.
shows(c) == IF tear = "none" THEN show(c) ELSE UNCHANGED screen

-----------------------------------------------------------------------------
\* Nothing is said of what follows a backspace at cursor 0, or an interrupt
\* between the accesses to index port and data port.
goes_on == ~underrun /\ tear # "split"

digit(k) == IF k > 9 THEN k - 10 + 65 ELSE k + 48

\* What is left of n when put_int has stored some of its digits, the lowest
\* first and at the end of the buffer
rest(n) ==
    LET eax[k \in 0..DIGITS] == IF k = 0 THEN n ELSE eax[k - 1] \div BASE
    IN  eax

buffer(n) == [i \in 0..(DIGITS - 1) |-> rest(n)[DIGITS - 1 - i] % BASE]

\* No number has more digits than the buffer.
ASSUME NumbersAssumption == \A n \in Numbers : rest(n)[DIGITS] = 0

\* The leading zeros that put_int skips: when there is nothing else it prints one
skipped(n) ==
    CHOOSE i \in 0..(DIGITS - 1) : /\ \A j \in 0..(i - 1) : buffer(n)[j] = 0
                                   /\ i < DIGITS - 1 => buffer(n)[i] # 0

put_int_text(n) == [i \in 1..(DIGITS - skipped(n)) |-> digit(buffer(n)[skipped(n) + i - 1])]

\* How a number is written
number(n) ==
    LET written[k \in 0..n] == IF k < BASE THEN << digit(k) >>
                               ELSE Append(written[k \div BASE], digit(k % BASE))
    IN  written[n]

\* console_put_str and console_put_int: the lock keeps other threads out.
print(text, expected) ==
    /\ pc = "idle" /\ goes_on
    /\ todo' = text
    /\ due' = IF tear = "none" THEN expected ELSE << >>
    /\ pc' = "high_select"
    /\ UNCHANGED << crtc, video, high, low, bx, tear, underrun, screen >>

put_str(s) == print(s, s)

put_int(n) == print(put_int_text(n), number(n))

-----------------------------------------------------------------------------
\* put_char, one access to a port after the other.
port(location) == pc = location /\ goes_on

out_index(location, which, next) ==
    /\ port(location)
    /\ index' = which
    /\ pc' = next
    /\ UNCHANGED << cursor_high, cursor_low, video, todo, high, low, bx, tear,
                    underrun, terminal >>

data == IF index = "high" THEN cursor_high ELSE cursor_low

in_high ==
    /\ port("high_in")
    /\ high' = data
    /\ pc' = "low_select"
    /\ UNCHANGED << crtc, video, todo, low, bx, tear, underrun, terminal >>

in_low ==
    /\ port("low_in")
    /\ low' = data
    /\ pc' = "draw"
    /\ UNCHANGED << crtc, video, todo, high, bx, tear, underrun, terminal >>

\* Everything between the cursor is read and written; that an interrupt may come
\* within makes no difference to one that comes before or after.
draw ==
    LET b == high * BYTE + low
        after == drawn(video, b, Head(todo))
    IN
    /\ port("draw")
    /\ video' = after[1]
    /\ bx' = after[2]
    /\ underrun' = (Head(todo) = backspace /\ b = 0)
    /\ high' = 0 /\ low' = 0
    /\ pc' = "high_select_out"
    /\ UNCHANGED << crtc, todo, tear, terminal >>

write_data(value) ==
    IF index = "high" THEN cursor_high' = value /\ UNCHANGED << index, cursor_low >>
                      ELSE cursor_low' = value /\ UNCHANGED << index, cursor_high >>

out_high ==
    /\ port("high_out")
    /\ write_data(bx \div BYTE)
    /\ pc' = "low_select_out"
    /\ UNCHANGED << video, todo, high, low, bx, tear, underrun, terminal >>

\* The character is printed; put_str and put_int go on to the next one.
out_low ==
    /\ port("low_out")
    /\ write_data(bx % BYTE)
    /\ bx' = 0
    /\ todo' = Tail(todo)
    /\ pc' = IF Tail(todo) = << >> THEN "idle" ELSE "high_select"
    /\ IF due = << >> THEN UNCHANGED terminal
       ELSE shows(Head(due)) /\ due' = Tail(due)
    /\ UNCHANGED << video, high, low, tear, underrun >>

put_char ==
    \/ out_index("high_select", "high", "high_in") \/ in_high
    \/ out_index("low_select", "low", "low_in") \/ in_low
    \/ draw
    \/ out_index("high_select_out", "high", "high_out") \/ out_high
    \/ out_index("low_select_out", "low", "low_out") \/ out_low

\* How an interrupt now tears the thread's character
tear_here ==
    IF pc \in {"idle", "high_select"} THEN tear
    ELSE IF pc \in {"draw", "high_select_out"} THEN "stale" ELSE "split"

\* intr_keyboard_handler echoes a character: all of put_char at once.
echo(c) ==
    LET after == drawn(video, cursor, c) IN
    /\ goes_on
    /\ video' = after[1]
    /\ index' = "low"
    /\ cursor_high' = after[2] \div BYTE
    /\ cursor_low' = after[2] % BYTE
    /\ underrun' = (c = backspace /\ cursor = 0)
    /\ tear' = tear_here
    /\ IF tear' = "none" THEN show(c) /\ UNCHANGED due
       ELSE /\ due' = << >>
            /\ lines' = [r \in 0..(ROWS - 1) |-> [k \in 0..(COLS - 1) |-> blank]]
            /\ row' = 0 /\ col' = 0
    /\ UNCHANGED printer

PrintNext ==
    \/ \E s \in Texts : put_str(s)
    \/ \E n \in Numbers : put_int(n)
    \/ put_char
    \/ \E c \in Echoed : echo(c)

PrintSpec == PrintInit /\ [][PrintNext]_printvars

-----------------------------------------------------------------------------
in_lines == [i \in 0..(CELLS - 1) |-> lines[i \div COLS][i % COLS]]

\* As long as interrupts come between two characters only, and nobody prints a
\* backspace at cursor 0, the screen shows what a terminal of lines shows that
\* is given the same characters, across the ends of lines and of the screen.
ScreenExact ==
    tear = "none" /\ ~underrun /\ pc = "idle" =>
        /\ due = << >>
        /\ cursor = row * COLS + col
        /\ \A i \in 0..(CELLS - 1) : video[i] = in_lines[i]

\* An interrupt that comes while the thread holds the cursor in its registers
\* loses what it echoes, but it takes one between two accesses to the controller
\* to bring the cursor or a character off the screen.
OnScreen ==
    goes_on =>
        /\ pc \notin {"low_select_out", "low_out"} => cursor < CELLS
        /\ \A i \in DOMAIN video : i >= CELLS => video[i] = blank

=============================================================================
