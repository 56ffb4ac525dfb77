------------------------------ MODULE Scancode ------------------------------
(***************************************************************************)
(* The translation of scan codes in src/c/kbd.c: kbtoa(), as the keyboard  *)
(* interrupt uses it.  The keyboard sends a code when a key goes down,     *)
(* again while it is held, and the code with the top bit set when it goes  *)
(* up; some keys put EXTESC in front.  The codes wait in the controller    *)
(* until the driver takes them, and those that find no room are lost.      *)
(*                                                                         *)
(* Each code that waits carries what the typist meant: the modes in which  *)
(* the keys that are down put the keyboard.                                *)
(***************************************************************************)
EXTENDS Integers, FiniteSets, SequencesExt

CONSTANTS
  Keys,     \* keys of the keyboard, <<extended, code>>
  Legends,  \* for each code, the characters in kbcode, kbshift and kbctl;
            \* what lies behind kbctl is any value but a character of the key
  WireLen,  \* codes for which the keyboard and its controller have room
  MaxLost   \* bound on the moves of keys whose code is lost

ASSUME KeysAssumption == Keys \subseteq BOOLEAN \X (1 .. 127)
ASSUME LegendsAssumption == \A c \in DOMAIN Legends : c \in 1 .. 127
ASSUME WireAssumption == {WireLen, MaxLost} \subseteq Nat /\ WireLen > 1

KEY_UP == 128
EXTESC == 224
LSHIFT == 42
RSHIFT == 54
LMETA  == 56
LCTL   == 29
CAPSL  == 58
NOCHAR == 256

\* Sizes of the tables.
SizeOfKbcode  == 58
SizeOfKbshift == 58
SizeOfKbctl   == 51

Nothing == 0   \* keyboard_lower() stores no character 0

VARIABLES
  state,   \* the state of the keyboard, as the driver sees it
  wire,    \* codes that wait, each with what was meant
  down,    \* the modifier keys that are down
  caps,    \* caps lock is on
  unsure,  \* the modes that the driver cannot know
  misses   \* how many moves have lost their code

vars == <<state, wire, down, caps, unsure, misses>>

Init ==
  /\ state = {} /\ wire = <<>> /\ down = {} /\ caps = FALSE /\ unsure = {} /\ misses = 0

-----------------------------------------------------------------------------
(* kbtoa(). *)

\* The mode that a key switches on while it is down.
Mode(code) ==
  CASE code \in {LSHIFT, RSHIFT} -> {"INSHIFT"}
    [] code = LCTL -> {"INCTL"}
    [] code = LMETA -> {"INMETA"}
    [] OTHER -> {}

\* Mutant of Up: caps lock follows its key.
UpCapsFollows(st, code) ==
  IF code = CAPSL THEN st \ {"CAPSLOCK"} ELSE st \ Mode(code)

\* The state after a key has gone up; caps lock toggles then.
Up(st, code) ==
  IF code = CAPSL /\ "CAPSLOCK" \notin st THEN st \cup {"CAPSLOCK"}
  ELSE IF code = CAPSL THEN st \ {"CAPSLOCK"}
  ELSE st \ Mode(code)

Special(code) == Mode(code) # {} \/ code = CAPSL

\* The table in which a key is looked up: shift and caps lock cancel out, and
\* control is above both.
Table(st) ==
  IF "INCTL" \in st THEN 3
  ELSE IF ("INSHIFT" \in st) = ("CAPSLOCK" \in st) THEN 1 ELSE 2

\* Mutant of Outside: the tables are all of one size.
OutsideOneSize(st, code) == code >= SizeOfKbcode

\* No table that this state asks for has the code.
Outside(st, code) ==
  \/ "INSHIFT" \in st /\ code >= SizeOfKbshift
  \/ "INCTL" \in st /\ code >= SizeOfKbctl

\* The result of kbtoa() for a key that goes down.
Char(st, code) ==
  LET ch == IF code < SizeOfKbcode THEN Legends[code][Table(st)] ELSE NOCHAR
  IN  IF Special(code) \/ Outside(st, code) THEN NOCHAR
      ELSE ch + (IF "INMETA" \in st THEN 128 ELSE 0)

\* The new state.  EXTESC has the bit KEY_UP, so it is a key that goes up and
\* the state EXTENDED does not occur.
NewState(st, byte) ==
  IF byte >= KEY_UP THEN Up(st, byte - KEY_UP) ELSE st \cup Mode(byte)

\* The result is cut to eight bits.
Stored(st, byte) == IF byte >= KEY_UP THEN Nothing ELSE Char(st, byte) % 256

\* keyboard_lower() takes a code from the controller.
Take ==
  /\ wire # <<>>
  /\ state' = NewState(state, Head(wire).code)
  /\ wire' = Tail(wire)
  /\ UNCHANGED <<down, caps, unsure, misses>>

-----------------------------------------------------------------------------
(* The keyboard. *)

Modifier(k) == Mode(k[2]) # {}

Codes(k, up) ==
  (IF k[1] THEN <<EXTESC>> ELSE <<>>) \o <<IF up THEN k[2] + KEY_UP ELSE k[2]>>

Meant(keys, lock) ==
  UNION {Mode(k[2]) : k \in keys} \cup (IF lock THEN {"CAPSLOCK"} ELSE {})

\* Key k goes down, or on being down, or up.  The driver cannot know a mode
\* whose code was lost, nor that the other key of two for it is still down.
Moves(k, up) ==
  LET codes == Codes(k, up)
      lost  == Len(wire) + Len(codes) > WireLen
      other == up /\ \E j \in down \ {k} : Mode(j[2]) = Mode(k[2])
      what(m, u) == [meant |-> m, unsure |-> u]
      before == what(Meant(down, caps), unsure)
      after  == what(Meant(down', caps'), unsure')
      item(i) == [code |-> codes[i]] @@ (IF i = Len(codes) THEN after ELSE before)
  IN  /\ up /\ Modifier(k) => k \in down
      /\ down' = IF ~Modifier(k) THEN down
                 ELSE IF up THEN down \ {k} ELSE down \cup {k}
      /\ caps' = (caps # (up /\ k[2] = CAPSL))
      /\ unsure' = IF lost /\ up /\ k[2] = CAPSL THEN unsure \cup {"CAPSLOCK"}
                   ELSE IF lost \/ other THEN unsure \cup Mode(k[2])
                   ELSE unsure \ Mode(k[2])
      /\ misses' = misses + (IF lost THEN 1 ELSE 0) /\ misses' <= MaxLost
      /\ wire' = wire \o [i \in 1 .. Min({Len(codes), WireLen - Len(wire)}) |-> item(i)]
      /\ UNCHANGED state

Next == Take \/ \E k \in Keys, up \in BOOLEAN : Moves(k, up)

Spec == Init /\ [][Next]_vars

-----------------------------------------------------------------------------
(* Correctness. *)

Modes == {"INSHIFT", "INCTL", "INMETA", "CAPSLOCK"}

\* The driver comes into the modes that the typist meant when the key moved,
\* however late its code is read and whatever was lost before: a mode that went
\* wrong with a lost code is right again after the next move of a key for it.
ModesAsMeant ==
  [][Take => LET w == Head(wire)
             IN  state' \ w.unsure = w.meant \ w.unsure]_vars

\* The legend of a key in these modes, 0 if it has none.
Legend(code, modes) ==
  IF code \notin DOMAIN Legends THEN 0
  ELSE IF "INCTL" \in modes THEN IF code < SizeOfKbctl THEN Legends[code][3] ELSE 0
  ELSE IF Cardinality(modes \cap {"INSHIFT", "CAPSLOCK"}) = 1 THEN Legends[code][2]
  ELSE Legends[code][1]

\* A key that goes down stores its legend, with the top bit if meta is down, and
\* nothing else stores anything; an extended key is as good as the plain one.
\* Without a legend, meta may store 128: see README, section 6.
MayStore(code, modes) ==
  LET l == Legend(code, modes)
  IN  IF code >= KEY_UP \/ Special(code) THEN {Nothing}
      ELSE IF "INMETA" \notin modes THEN {l}
      ELSE IF l = 0 THEN {Nothing, 128} ELSE {l + 128}

\* What the driver stores is what the typist meant.
CharAsMeant ==
  [][Take => LET w == Head(wire)
             IN  w.unsure = {} => Stored(state, w.code) \in MayStore(w.code, w.meant)]_vars

=============================================================================
