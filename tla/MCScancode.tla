----------------------------- MODULE MCScancode -----------------------------
(***************************************************************************)
(* Instance of Scancode for TLC.                                           *)
(***************************************************************************)
EXTENDS Scancode

Plain(c) == <<FALSE, c>>

\* Both shift keys, the control key on the right, caps lock and meta; d,
\* the space bar, for which kbctl has no entry, and a function key.
MCKeys ==
  {Plain(LSHIFT), Plain(RSHIFT), <<TRUE, LCTL>>, Plain(CAPSL), Plain(LMETA),
   Plain(32), Plain(57), Plain(59)}

\* Any value that no table has, for what lies behind kbctl.
Behind == 200

MCLegends ==
  [c \in 1 .. SizeOfKbcode - 1 |->
     CASE c = 57 -> <<32, 32, Behind>>
       [] c = 32 -> <<100, 68, 4>>
       [] OTHER  -> <<0, 0, 0>>]

=============================================================================
