------------------------------- MODULE Scanner -------------------------------
(***************************************************************************)
(* The scanner of Tiny_Complier: scanfile calls scan until the end of the  *)
(* file or the first character that is no token; scan reads with next,     *)
(* which first hands out what was put back.  A character stands for all of *)
(* its kind, a digit for itself.                                           *)
(***************************************************************************)
EXTENDS Integers, Sequences, SequencesExt, FiniteSetsExt

CONSTANTS
    Digit,      \* the digits that texts have
    Other,      \* characters that are no tokens
    MaxText

newline == "newline"
blank == {newline, "space"}
operator == {"+", "-", "*", "/"}
EOF == "EOF"
no_char == "none"       \* 0 in Putback

Char == Digit \cup Other \cup operator \cup blank

decimal == << "0", "1", "2", "3", "4", "5", "6", "7", "8", "9" >>

ASSUME ScannerAssumption ==
    /\ MaxText \in Nat /\ {EOF, no_char} \cap Char = {}
    /\ Other \cap (Digit \cup operator \cup blank) = {}
    /\ Digit \subseteq Range(decimal) /\ Digit \cap (operator \cup blank) = {}

VARIABLES text, offset, Putback, Line, tokens, exited

scanvars == << text, offset, Putback, Line, tokens, exited >>

\* A new line is put back before anything is read.
ScanInit ==
    /\ text \in BoundedSeq(Char, MaxText)
    /\ offset = 0
    /\ Putback = newline
    /\ Line = 1
    /\ tokens = << >>
    /\ exited = "no"

-----------------------------------------------------------------------------
fgetc == IF offset < Len(text) THEN text[offset + 1] ELSE EOF

upcoming == IF Putback # no_char THEN Putback ELSE fgetc

\* Faulty: also a new line that was put back is counted.
is_new_line_always == upcoming = newline

is_new_line == Putback = no_char /\ upcoming = newline

next_char ==
    /\ Putback' = no_char
    /\ offset' = IF Putback = no_char /\ fgetc # EOF THEN offset + 1 ELSE offset
    /\ Line' = IF is_new_line THEN Line + 1 ELSE Line

skip == upcoming \in blank /\ next_char /\ UNCHANGED << text, tokens, exited >>

chrpos(c) == CHOOSE k \in 0..9 : decimal[k + 1] = c

code_of(c) == 48 + chrpos(c)

kind(c) == IF c \in operator THEN c ELSE "intlit"

\* token and intvalue: t->intvalue = c, the code of one digit.
token(c) == IF c \in operator THEN << kind(c) >> ELSE << kind(c), code_of(c) >>

scan_token ==
    /\ upcoming \in operator \cup Digit
    /\ tokens' = Append(tokens, token(upcoming))
    /\ next_char
    /\ UNCHANGED << text, exited >>

scan_end == upcoming = EOF /\ exited' = "end" /\ next_char /\ UNCHANGED << text, tokens >>

\* exit(1), with the character and Line in the message
scan_unrecognised ==
    /\ upcoming \in Other
    /\ exited' = "unrecognised"
    /\ next_char
    /\ UNCHANGED << text, tokens >>

ScanNext == exited = "no" /\ (skip \/ scan_token \/ scan_end \/ scan_unrecognised)

ScanSpec == ScanInit /\ [][ScanNext]_scanvars

-----------------------------------------------------------------------------
consumed == SubSeq(text, 1, offset)

is_token == {i \in DOMAIN consumed : consumed[i] \in operator \cup Digit}

\* Where a token has to begin: at every operator and at the first of some digits
begins_token ==
    {i \in is_token : consumed[i] \in operator \/ i = 1 \/ consumed[i - 1] \notin Digit}

\* The tokens are of the kinds of what they begin with, in order.
tokens_at(begins) ==
    /\ Len(tokens) = Cardinality(begins)
    /\ \A i \in begins : tokens[Cardinality(begins \cap 1..i)][1] = kind(consumed[i])

\* Once the scanner is done there is, in order, a token for every operator and
\* for whatever digits stand together, and none for a blank or for anything
\* behind the character that ended it, and the line in its message is that of
\* the character.  How many literals digits side by side make and what their
\* values are is the matter of LiteralHeld.
TokensExact ==
    exited # "no" =>
        /\ \E begins \in SUBSET is_token : begins_token \subseteq begins /\ tokens_at(begins)
        /\ Line = 1 + Cardinality({i \in DOMAIN consumed : consumed[i] = newline})
        /\ IF exited = "end" THEN consumed = text /\ Range(text) \cap Other = {}
           ELSE {i \in DOMAIN consumed : consumed[i] \in Other} = {offset}

\* What scanint, which nobody calls, makes of digits
scanint(digits) == FoldLeft(LAMBDA val, c : val * 10 + chrpos(c), 0, digits)

\* defs.h on intvalue: "if token == T_INTLIT, intvalue will store it".  A text of
\* nothing but digits is one literal, with its value.
LiteralHeld ==
    exited = "end" /\ text # << >> /\ Range(text) \subseteq Digit =>
        tokens = << << "intlit", scanint(text) >> >>

=============================================================================
