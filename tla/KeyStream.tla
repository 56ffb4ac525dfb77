----------------------------- MODULE KeyStream ------------------------------
(***************************************************************************)
(* What a program may expect of a keyboard: characters reach its buffer in *)
(* the order in which they were typed, none of them twice, and one is lost *)
(* only if it arrives when the driver's buffer is full or when the         *)
(* keyboard is opened or closed.                                           *)
(***************************************************************************)
EXTENDS Naturals, Sequences

CONSTANTS Chars,     \* the characters that may be typed
          Capacity   \* characters that the driver stores

VARIABLES typed,     \* typed and not yet seen by the driver
          stored,    \* held by the driver
          text       \* in the buffer of the latest read

vars == <<typed, stored, text>>

Init == typed = <<>> /\ stored = <<>> /\ text = <<>>

Type == \E c \in Chars : typed' = Append(typed, c) /\ UNCHANGED <<stored, text>>

\* n characters are accepted, one more is dropped if there is no room for it,
\* and k characters go to the program, which may not be shown the last of them:
\* it may have ended the input.  A new read starts with an empty text.
Move ==
  \E n \in 0 .. Len(typed) : \E k \in 0 .. Len(stored) + n :
    LET held == stored \o SubSeq(typed, 1, n)
        lost == IF n < Len(typed) /\ typed' # SubSeq(typed, n + 1, Len(typed))
                THEN 1 ELSE 0
    IN  /\ typed' = SubSeq(typed, n + 1 + lost, Len(typed))
        /\ lost = 1 => Len(held) = Capacity
        /\ stored' = SubSeq(held, k + 1, Len(held))
        /\ \E before \in {text, <<>>}, m \in {k - 1, k} :
             text' = before \o SubSeq(held, 1, m)

Forget == stored' = <<>> /\ text' = <<>> /\ UNCHANGED typed

Next == Type \/ Move \/ Forget

Spec == Init /\ [][Next]_vars

=============================================================================
