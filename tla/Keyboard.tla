------------------------------ MODULE Keyboard ------------------------------
(***************************************************************************)
(* The keyboard driver (c/kbd.c) and the device-independent layer above it *)
(* (c/di_calls.c), with the requests of c/disp.c that lead there.          *)
(*                                                                         *)
(* Two actors share the driver's state: programs, through system calls,    *)
(* and the keyboard interrupt, which comes at any time between them.  Both *)
(* run with interrupts disabled, so each call and each interrupt is one    *)
(* step.                                                                   *)
(***************************************************************************)
EXTENDS Integers, SequencesExt

CONSTANTS
  Procs,     \* the processes that use the keyboard
  BufLen,    \* KEYBOARD_BUF_LEN
  NumFd,     \* NUM_FD
  Keys,      \* characters that are typed
  MaxKeys,   \* bound on the characters that wait in the keyboard controller
  Lens,      \* buffer lengths that programs pass to sysread
  Eofs       \* characters that programs choose to end the input

ASSUME ProcAssumption == Procs \subseteq Nat
ASSUME BufAssumption == BufLen \in Nat /\ BufLen > 0
ASSUME FdAssumption == NumFd \in Nat /\ NumFd >= 2
ASSUME KeyAssumption == Keys \subseteq Nat /\ Eofs \subseteq Nat
ASSUME LenAssumption == Lens \subseteq Nat /\ MaxKeys \in Nat

NumDevice   == 2           \* KEYBOARD_0 and KEYBOARD_1, which echoes
Fds         == 0 .. NumFd - 1
None        == -1          \* NULL
DEFAULT_EOF == 4
NL          == 10          \* '\n'

VARIABLES
  state,        \* pcb.state; READY stands for all but STOPPED and READING
  opened_dv,    \* pcb.opened_dv: device number for each open descriptor
  irc,          \* pcb.irc
  owner,        \* ps.pcb, the process that has opened the driver; the
                \* interrupt is enabled while there is one
  text,         \* ps.buf[0 .. ps.ch_read - 1]
  buf_len,      \* ps.buf_len
  eof,          \* ps.eof
  eof_in_buf,   \* ps.status & EOF_IN_BUF
  eof_reached,  \* ps.status & EOF_REACHED
  kb_buf, head, size,   \* the ring of characters
  controller,   \* characters that the keyboard controller has for the driver
  halted        \* abort()

procVars   == <<state, opened_dv, irc>>
ringVars   == <<kb_buf, head, size>>
reqVars    == <<text, buf_len>>
statusVars == <<owner, eof, eof_in_buf, eof_reached>>
vars == <<procVars, ringVars, reqVars, statusVars, controller, halted>>

\* Some of the processes exist already.
Init ==
  /\ state \in [Procs -> {"READY", "STOPPED"}]
  /\ opened_dv = [p \in Procs |-> [fd \in Fds |-> None]]
  /\ irc = [p \in Procs |-> 0]
  /\ owner = None /\ text = <<>> /\ buf_len = 0
  /\ eof = 0 /\ eof_in_buf = FALSE /\ eof_reached = FALSE
  /\ kb_buf = [i \in 0 .. BufLen - 1 |-> 0] /\ head = 0 /\ size = 0
  /\ controller = <<>>
  /\ halted = FALSE

Calls(p) == state[p] = "READY" /\ ~halted

\* The call of p returns n.
Returns(p, n) == irc' = [irc EXCEPT ![p] = n]

Fails(p) ==
  /\ Returns(p, -1)
  /\ UNCHANGED <<state, opened_dv, ringVars, reqVars, statusVars, controller,
                 halted>>

-----------------------------------------------------------------------------
(* The ring and the copy to the program's buffer. *)

\* The characters in the ring, oldest first.
Stored == [i \in 1 .. size |-> kb_buf[(head + i - 1) % BufLen]]

\* Mutant of Fetched: insert_char() takes one character too many.
FetchedTooMany ==
  SubSeq(controller, 1,
         IF Len(controller) <= BufLen - size + 1 THEN Len(controller)
         ELSE BufLen - size + 1)

\* What keyboard_lower() moves from the controller to the ring.
Fetched ==
  SubSeq(controller, 1,
         IF Len(controller) <= BufLen - size THEN Len(controller)
         ELSE BufLen - size)

\* Mutant of Slot: insert_char() leaves a gap.
SlotOff(i) == (i - head - size - 1) % BufLen

\* How far slot i of the ring is from the first one that insert_char() fills.
Slot(i) == (i - head - size) % BufLen

\* Mutant of Ends: the copy goes on when the buffer is full.
EndsLate(c, n) == c = eof \/ c = NL \/ n > buf_len'

\* A read ends when its n-th character is c.
Ends(c, n) == c = eof \/ c = NL \/ n >= buf_len'

\* buf_copy() takes k characters from q after those of t, and the read ends.
Completes(t, q, k) ==
  /\ k \in DOMAIN q
  /\ Ends(q[k], Len(t) + k)
  /\ \A j \in 1 .. k - 1 : ~Ends(q[j], Len(t) + j)

\* buf_copy() takes all of q and more is needed.
Drains(t, q) == \A j \in DOMAIN q : ~Ends(q[j], Len(t) + j)

\* The copy of the first k characters of q; an end of input is not stored.
Copied(t, q, k) == t \o SubSeq(q, 1, IF q[k] = eof THEN k - 1 ELSE k)

\* The ring, which holds n characters, without the first k of them.
Removed(n, k) == head' = (head + k) % BufLen /\ size' = n - k

-----------------------------------------------------------------------------
(* OPEN, CLOSE and STOP. *)

\* Mutant of Reset: the status of the previous user is kept.
ResetKeepsStatus(p) ==
  /\ owner' = p /\ text' = <<>> /\ buf_len' = 0
  /\ eof' = DEFAULT_EOF
  /\ head' = 0 /\ size' = 0
  /\ UNCHANGED <<eof_in_buf, eof_reached>>

\* _keyboard_open() by p, keyboard_close() if p is None.
Reset(p) ==
  /\ owner' = p /\ text' = <<>> /\ buf_len' = 0
  /\ eof' = DEFAULT_EOF /\ eof_in_buf' = FALSE /\ eof_reached' = FALSE
  /\ head' = 0 /\ size' = 0

\* Mutant of FirstFree: the search starts at the second descriptor.
FirstFreeButOne(p, fd) ==
  opened_dv[p][fd] = None /\ fd > 0 /\ \A f \in 1 .. fd - 1 : opened_dv[p][f] # None

FirstFree(p, fd) ==
  opened_dv[p][fd] = None /\ \A f \in Fds : f < fd => opened_dv[p][f] # None

Open(p, dv, fd) ==
  /\ Calls(p)
  /\ dv \in 0 .. NumDevice - 1
  /\ FirstFree(p, fd)
  /\ owner = None
  /\ Reset(p)
  /\ opened_dv' = [opened_dv EXCEPT ![p][fd] = dv]
  /\ Returns(p, fd)
  /\ UNCHANGED <<state, kb_buf, controller, halted>>

OpenFails(p, dv) ==
  /\ Calls(p)
  /\ \/ dv \notin 0 .. NumDevice - 1
     \/ \A fd \in Fds : opened_dv[p][fd] # None
     \/ owner # None
  /\ Fails(p)

Close(p, fd) ==
  /\ Calls(p)
  /\ fd \in Fds /\ opened_dv[p][fd] # None
  /\ Reset(None)
  /\ opened_dv' = [opened_dv EXCEPT ![p][fd] = None]
  /\ Returns(p, 0)
  /\ UNCHANGED <<state, kb_buf, controller, halted>>

CloseFails(p, fd) ==
  /\ Calls(p)
  /\ fd \in Fds => opened_dv[p][fd] = None
  /\ Fails(p)

\* Mutant of Stop: cleanup() does not close the devices.
StopKeepsOpen(p) ==
  /\ Calls(p)
  /\ state' = [state EXCEPT ![p] = "STOPPED"]
  /\ UNCHANGED <<opened_dv, irc, ringVars, reqVars, statusVars, controller,
                 halted>>

\* cleanup() closes what p has opened.
Stop(p) ==
  /\ Calls(p)
  /\ state' = [state EXCEPT ![p] = "STOPPED"]
  /\ IF \E fd \in Fds : opened_dv[p][fd] # None
     THEN Reset(None) /\ opened_dv' = [opened_dv EXCEPT ![p] = [fd \in Fds |-> None]]
                      /\ irc' = [irc EXCEPT ![p] = 0]
     ELSE UNCHANGED <<owner, reqVars, eof, eof_in_buf, eof_reached, head, size,
                      opened_dv, irc>>
  /\ UNCHANGED <<kb_buf, controller, halted>>

\* create() by q gives a new process the slot p, which stands for its pid.
Create(q, p) ==
  /\ Calls(q)
  /\ state[p] = "STOPPED"
  /\ state' = [state EXCEPT ![p] = "READY"]
  /\ opened_dv' = [opened_dv EXCEPT ![p] = [fd \in Fds |-> None]]
  /\ irc' = [irc EXCEPT ![p] = 0, ![q] = p]
  /\ UNCHANGED <<ringVars, reqVars, statusVars, controller, halted>>

-----------------------------------------------------------------------------
(* READ, WRITE and IO_CTL.  The descriptor selects the driver by its number,
   not by the device it was opened for; both devices have the same driver. *)

Valid(p, fd) == fd \in 0 .. NumDevice - 1 /\ opened_dv[p][fd] # None

\* keyboard_read() starts a request for len characters.
Requests(p, fd, len) == Calls(p) /\ Valid(p, fd) /\ owner = p /\ buf_len' = len

\* Too little is stored: the process blocks, and nothing is copied yet.
ReadBlocks(p, fd, len) ==
  /\ Requests(p, fd, len)
  /\ ~eof_in_buf /\ size < len
  /\ text' = <<>>
  /\ state' = [state EXCEPT ![p] = "READING"]
  /\ UNCHANGED <<opened_dv, irc, ringVars, statusVars, controller, halted>>

ReadAfterEof(p, fd, len) ==
  /\ Requests(p, fd, len)
  /\ eof_in_buf \/ size >= len
  /\ eof_reached
  /\ text' = <<>>
  /\ Returns(p, 0)
  /\ UNCHANGED <<state, opened_dv, ringVars, statusVars, controller, halted>>

ReadReturns(p, fd, len) ==
  /\ Requests(p, fd, len)
  /\ eof_in_buf \/ size >= len
  /\ ~eof_reached
  /\ \E k \in 1 .. size :
       /\ Completes(<<>>, Stored, k)
       /\ text' = Copied(<<>>, Stored, k)
       /\ Removed(size, k)
       /\ eof_reached' = (Stored[k] = eof)
  /\ Returns(p, Len(text'))
  /\ UNCHANGED <<state, opened_dv, kb_buf, owner, eof, eof_in_buf, controller,
                 halted>>

\* The driver aborts: it finds itself opened by somebody else, or it runs out
\* of characters although it did not expect to.
ReadAborts(p, fd, len) ==
  /\ Calls(p) /\ Valid(p, fd)
  /\ IF owner # p
     THEN UNCHANGED <<ringVars, reqVars>>
     ELSE /\ Requests(p, fd, len)
          /\ eof_in_buf \/ size >= len
          /\ ~eof_reached
          /\ Drains(<<>>, Stored)
          /\ text' = Stored
          /\ Removed(size, size)
          /\ UNCHANGED kb_buf
  /\ halted' = TRUE
  /\ UNCHANGED <<procVars, statusVars, controller>>

ReadFails(p, fd) == Calls(p) /\ ~Valid(p, fd) /\ Fails(p)

\* keyboard_write() refuses everything.
Write(p) == Calls(p) /\ Fails(p)

\* Command 53 chooses the character that ends the input.
Ioctl(p, fd, c) ==
  /\ Calls(p) /\ Valid(p, fd)
  /\ eof' = c
  /\ Returns(p, 0)
  /\ UNCHANGED <<state, opened_dv, ringVars, reqVars, owner, eof_in_buf,
                 eof_reached, controller, halted>>

\* Another command, or no such descriptor.
IoctlFails(p) == Calls(p) /\ Fails(p)

-----------------------------------------------------------------------------
(* The keyboard. *)

\* A key is pressed; how the controller stores it is up to the hardware.
Press(c) ==
  /\ Len(controller) < MaxKeys /\ ~halted
  /\ controller' = Append(controller, c)
  /\ UNCHANGED <<procVars, ringVars, reqVars, statusVars, halted>>

\* Mutant of HasEof: insert_char() does not look for the end of input.
HasEofNever(s) == FALSE

HasEof(s) == \E i \in DOMAIN s : s[i] = eof

\* keyboard_lower() empties the controller into the ring, or as far as there
\* is room, in which case it drops the character for which there is none.
\* There may be nothing to move: key releases interrupt as well.
Receives ==
  /\ owner # None /\ ~halted
  /\ kb_buf' = [i \in 0 .. BufLen - 1 |->
                  IF Slot(i) < Len(Fetched) THEN Fetched[Slot(i) + 1]
                  ELSE kb_buf[i]]
  /\ controller' = SubSeq(controller, Len(Fetched) + 2, Len(controller))
  /\ eof_in_buf' = (eof_in_buf \/ HasEof(Fetched))
  /\ UNCHANGED <<buf_len, owner, eof, opened_dv, halted>>

Available == Stored \o Fetched

\* Mutant of Unfulfilled: a complete request is served once more.
UnfulfilledToo == Len(text) <= buf_len

\* keyboard_lower() takes the latest read for one that still waits.
Unfulfilled == Len(text) < buf_len

KeyStored ==
  /\ Receives
  /\ ~Unfulfilled
  /\ Removed(Len(Available), 0)
  /\ UNCHANGED <<text, eof_reached, state, irc>>

\* Mutant of KeyCopied: the characters stay in the ring until all are there.
KeyCopiedLater ==
  /\ Receives
  /\ Unfulfilled
  /\ Drains(text, Available)
  /\ Removed(Len(Available), 0)
  /\ UNCHANGED <<text, eof_reached, state, irc>>

KeyCopied ==
  /\ Receives
  /\ Unfulfilled
  /\ Drains(text, Available)
  /\ text' = text \o Available
  /\ Removed(Len(Available), Len(Available))
  /\ UNCHANGED <<eof_reached, state, irc>>

\* The request ends: ready(ps.pcb).
KeyEnds ==
  /\ Receives
  /\ Unfulfilled
  /\ \E k \in DOMAIN Available :
       /\ Completes(text, Available, k)
       /\ text' = Copied(text, Available, k)
       /\ Removed(Len(Available), k)
       /\ eof_reached' = (eof_reached \/ Available[k] = eof)
  /\ Returns(owner, Len(text'))
  /\ state' = [state EXCEPT ![owner] = "READY"]

keyboard_lower == KeyStored \/ KeyCopied \/ KeyEnds

-----------------------------------------------------------------------------

Requested(p) ==
  \/ \E dv \in -1 .. NumDevice :
       OpenFails(p, dv) \/ \E fd \in Fds : Open(p, dv, fd)
  \/ \E fd \in -1 .. NumFd :
       \/ Close(p, fd)
       \/ CloseFails(p, fd)
       \/ ReadFails(p, fd)
       \/ \E c \in Eofs : Ioctl(p, fd, c)
       \/ \E len \in Lens : \/ ReadBlocks(p, fd, len)
                            \/ ReadAfterEof(p, fd, len)
                            \/ ReadReturns(p, fd, len)
                            \/ ReadAborts(p, fd, len)
  \/ Write(p)
  \/ IoctlFails(p)
  \/ Stop(p)
  \/ \E q \in Procs : Create(p, q)

Next ==
  \/ \E p \in Procs : Requested(p)
  \/ \E c \in Keys : Press(c)
  \/ keyboard_lower

Spec == Init /\ [][Next]_vars

\* Somebody types.
Typing == \E c \in Keys : Press(c)

-----------------------------------------------------------------------------
(* Correctness. *)

\* Every variable has its type: the ring never holds more than it can, and its
\* indices stay inside.
TypeOK ==
  /\ state \in [Procs -> {"STOPPED", "READY", "READING"}]
  /\ opened_dv \in [Procs -> [Fds -> 0 .. NumDevice - 1 \cup {None}]]
  /\ irc \in [Procs -> Int]
  /\ owner \in Procs \cup {None}
  /\ text \in Seq(Nat)
  /\ buf_len \in Nat /\ eof \in Nat
  /\ eof_in_buf \in BOOLEAN /\ eof_reached \in BOOLEAN
  /\ kb_buf \in [0 .. BufLen - 1 -> Nat]
  /\ head \in 0 .. BufLen - 1 /\ size \in 0 .. BufLen
  /\ controller \in Seq(Nat)
  /\ halted \in BOOLEAN

\* The process that has opened the driver is alive and is the only one with a
\* descriptor, through every order of opening, closing, stopping and reuse of
\* slots: keyboard_read() never finds the driver opened by somebody else, and
\* a stopped process never keeps the keyboard.
Exclusive ==
  /\ \A p \in Procs, fd \in Fds :
       (opened_dv[p][fd] # None) <=> (owner = p /\ fd = 0)
  /\ owner # None => state[owner] # "STOPPED"

\* A process that is blocked in sysread has a request that keyboard_lower()
\* will serve, and the input has not ended: otherwise no key would wake it.
WaitsForKeys ==
  \A p \in Procs : state[p] = "READING" =>
    owner = p /\ Unfulfilled /\ ~eof_reached

\* A blocked sysread returns the number of characters that it stored, not more
\* than asked for, and only because it has as many, a line, or the last ones.
ReadResult ==
  [][\A p \in Procs :
       state[p] = "READING" /\ state'[p] # "READING" =>
         /\ irc'[p] = Len(text') /\ Len(text') <= buf_len
         /\ \/ Len(text') = buf_len
            \/ eof_reached'
            \/ text' # <<>> /\ Last(text') = NL]_vars

\* abort() in the driver marks states that its author took for impossible.
NeverAborts == ~halted

\* keyboard_lower() readies only a process that is blocked in sysread: the
\* comment on buf_copy(), run only when there is an incomplete read request.
ReadEndsOnce == [][KeyEnds => state[owner] = "READING"]_vars

\* A finished request is served again only if its line or the input ended before
\* the buffer was full: a read that got all it asked for is over, whatever keys
\* and calls follow.
ServedAgainOnlyAfterCut ==
  [][(KeyCopied \/ KeyEnds) /\ state[owner] # "READING" =>
       eof_reached \/ NL \in Range(text)]_vars

\* If keys are pressed for ever, a blocked sysread returns, also when it asks
\* for more characters than the driver can hold.  One process reads at a time.
ReadEnds ==
  (\E p \in Procs : state[p] = "READING")
    ~> (halted \/ \A p \in Procs : state[p] # "READING")

Stream == INSTANCE KeyStream
  WITH Chars <- Keys, Capacity <- BufLen, typed <- controller, stored <- Stored

\* The driver implements KeyStream: what it copies to the programs' buffers is
\* what was typed, in order and without repetition.  The last character of a
\* copy may be missing: the code takes the one that ends the input for itself,
\* and KeyStream does not tell which character that is.
StreamInOrder == Stream!Spec

=============================================================================
