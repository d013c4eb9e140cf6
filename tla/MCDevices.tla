----------------------------- MODULE MCDevices ------------------------------
(***************************************************************************)
(* What Tiny_OS does with the hardware, for TLC: a behaviour is one of the *)
(* keyboard, of the screen, of the interrupt controller or of the loader;  *)
(* the variables of the others keep a first value.                         *)
(*                                                                         *)
(* Both shift keys and one key of every other pair of modifiers, a letter  *)
(* (a), a symbol (1), the first key behind keymap (F1), an extended key    *)
(* that is not known (up), and one whose low byte is that of a modifier    *)
(* (0xe02a, which some keyboards send around PrintScreen).                 *)
(*                                                                         *)
(* A screen of two lines of four cells, so that the cursor needs both of   *)
(* its bytes, which are below six, and binary numbers of two digits.  The  *)
(* loader has a buffer for fewer areas than the BIOS may report.           *)
(***************************************************************************)
EXTENDS Keyboard, TextOutput, Interrupts, MCLoader

MCKey == {30, 2, 59, shift_l_make, shift_r_make, ctrl_r_make, alt_r_make,
          caps_lock_make, extended + 72, extended + 42}

MCTexts == {<< line_feed >>, << backspace >>}

MCNumbers == {0, 2}

MCEchoed == {48, line_feed, backspace}

VARIABLE device

\* With nothing to choose for the devices that are not used
MCInit ==
    /\ Init /\ PrintInit /\ IntrInit /\ BootInit
    /\ device \in {"keyboard", "screen", "controller", "loader"}
    /\ device # "controller" => ready = SetToSeq(Task \ {main_thread})
    /\ device # "loader" => areas = << CHOOSE a \in Area : TRUE >>
    /\ device # "loader" => headers = << CHOOSE h \in Header : TRUE >>

MCNext ==
    /\ UNCHANGED device
    /\ \/ device = "keyboard" /\ Next /\ UNCHANGED << printvars, intrvars, bootvars >>
       \/ device = "screen" /\ PrintNext /\ UNCHANGED << vars, intrvars, bootvars >>
       \/ device = "controller" /\ IntrNext /\ UNCHANGED << vars, printvars, bootvars >>
       \/ device = "loader" /\ BootNext /\ UNCHANGED << vars, printvars, intrvars >>

MCSpec == MCInit /\ [][MCNext]_<< device, vars, printvars, intrvars, bootvars >>

=============================================================================
