-------------------------------- MODULE Kbd --------------------------------
(***************************************************************************)
(* kbdgetc(): the bytes of the keyboard, one per call, and the modifier    *)
(* state it keeps in its static variable shift.  The keyboard (external)   *)
(* sends the code of a key when it goes down, the code + 0x80 when it goes *)
(* up, and 0xE0 before both for the keys of the second block.              *)
(***************************************************************************)
EXTENDS Integers, Sequences

CONSTANTS Keys   \* bound: pairs <<code, TRUE if behind 0xE0>>

VARIABLES
    held,   \* keys that are down
    port,   \* bytes sent and not yet read
    shift,  \* flags
    c       \* the result of the last call

vars == <<held, port, shift, c>>

E0 == 224
Modifiers == {"SHIFT", "CTL", "ALT"}

\* The tables of kbd.h, as sets of flags; keys that show no flag are letters.
shiftcode(d) == CASE d \in {29, 157} -> {"CTL"}
                  [] d \in {42, 54} -> {"SHIFT"}
                  [] d \in {56, 184} -> {"ALT"}
                  [] OTHER -> {}
togglecode(d) == CASE d = 58 -> {"CAPSLOCK"}
                   [] d = 69 -> {"NUMLOCK"}
                   [] d = 70 -> {"SCROLLLOCK"}
                   [] OTHER -> {}
IsLetter(d) == d \in (16..25) \cup (30..38) \cup (44..50)

Xor(a, b) == (a \ b) \cup (b \ a)

Init == held = {} /\ port = <<>> /\ shift = {} /\ c = "none"

Code(k, up) == LET d == IF up THEN k[1] + 128 ELSE k[1]
               IN  IF k[2] THEN <<E0, d>> ELSE <<d>>

\* The user; at most one key event is under way.
Down(k) == /\ port = <<>>
           /\ held' = held \cup {k}
           /\ port' = Code(k, FALSE)
           /\ UNCHANGED <<shift, c>>
Up(k) == /\ port = <<>> /\ k \in held
         /\ held' = held \ {k}
         /\ port' = Code(k, TRUE)
         /\ UNCHANGED <<shift, c>>

Escape(d) ==
    /\ d = E0
    /\ shift' = shift \cup {"E0ESC"}
    /\ c' = "none"

\* Fault: the escape is left pending.
ReleaseKeep(d) ==
    /\ d # E0 /\ d >= 128
    /\ shift' = shift \ shiftcode(IF "E0ESC" \in shift THEN d ELSE d - 128)
    /\ c' = "none"

Release(d) ==
    /\ d # E0 /\ d >= 128
    /\ shift' = shift \ (shiftcode(IF "E0ESC" \in shift THEN d ELSE d - 128) \cup {"E0ESC"})
    /\ c' = "none"

\* The character is taken from the map of the modifiers, before the case is
\* swapped for CAPSLOCK.
Press(d) ==
    /\ d < 128
    /\ LET k == IF "E0ESC" \in shift THEN d + 128 ELSE d IN
       /\ shift' = Xor((shift \ {"E0ESC"}) \cup shiftcode(k), togglecode(k))
       /\ c' = IF ~IsLetter(k) THEN "other"
               ELSE IF "CTL" \in shift' THEN "control"
               ELSE IF ("SHIFT" \in shift') # ("CAPSLOCK" \in shift') THEN "upper"
               ELSE "lower"

kbdgetc ==
    /\ port # <<>>
    /\ port' = Tail(port)
    /\ Escape(Head(port)) \/ Release(Head(port)) \/ Press(Head(port))
    /\ UNCHANGED held

Next == kbdgetc \/ \E k \in Keys : Down(k) \/ Up(k)

Spec == Init /\ [][Next]_vars
-----------------------------------------------------------------------------
(* Properties.                                                              *)

\* No modifier sticks: whatever keys are pressed, repeated and released in
\* whatever order, a flag is set only while a key for it is down, and no
\* escape byte is left over for the next key.
NoStuckModifier ==
    port = <<>> =>
      /\ "E0ESC" \notin shift
      /\ \A f \in Modifiers \cap shift :
           \E k \in held : f \in shiftcode(IF k[2] THEN k[1] + 128 ELSE k[1])
=============================================================================
