----------------------------- MODULE MCKeyboard -----------------------------
(***************************************************************************)
(* Instances of Keyboard for TLC.                                          *)
(***************************************************************************)
EXTENDS Keyboard

\* What later steps can depend on: not the results that programs have got, and
\* not the slots of the ring that hold no character.
LiveState ==
  <<state, opened_dv, owner, text, buf_len, eof, eof_in_buf, eof_reached, head,
    Stored, controller, halted>>

=============================================================================
