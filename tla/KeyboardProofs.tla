--------------------------- MODULE KeyboardProofs ---------------------------
(***************************************************************************)
(* Theorems about Keyboard, for every size of the ring, any number of      *)
(* processes and descriptors, and every set of keys and requests.          *)
(***************************************************************************)
EXTENDS Keyboard, SequenceTheorems, TLAPS

-----------------------------------------------------------------------------
(* Sequences and the ring. *)

\* NULL is no process and no descriptor; descriptor 0 exists.
LEMMA NoneIsNothing == None \notin Procs /\ None \notin Nat /\ 0 \in Fds
  BY ProcAssumption, FdAssumption DEF None, Fds

\* A slot of the ring is an index of its array.
LEMMA ModRange ==
  ASSUME NEW i \in Int
  PROVE  i % BufLen \in 0 .. BufLen - 1
  BY BufAssumption

\* A prefix and what follows it are sequences of the same kind.
LEMMA Slices ==
  ASSUME NEW q \in Seq(Nat), NEW a \in Nat, NEW b \in Nat, b <= Len(q), a >= 1
  PROVE  /\ SubSeq(q, a, b) \in Seq(Nat)
         /\ Len(SubSeq(q, a, b)) = IF a <= b THEN b - a + 1 ELSE 0
         /\ \A i \in 1 .. Len(SubSeq(q, a, b)) : SubSeq(q, a, b)[i] = q[a + i - 1]
<1>1. \A i \in a .. b : q[i] \in Nat
  BY ElementOfSeq
<1> QED BY <1>1, SubSeqProperties

\* A sequence without its first k elements.
LEMMA SuffixIs ==
  ASSUME NEW q \in Seq(Nat), NEW k \in 0 .. Len(q)
  PROVE  /\ SubSeq(q, k + 1, Len(q)) \in Seq(Nat)
         /\ Len(SubSeq(q, k + 1, Len(q)))
              = IF k + 1 <= Len(q) THEN Len(q) - (k + 1) + 1 ELSE 0
         /\ \A i \in 1 .. Len(SubSeq(q, k + 1, Len(q))) :
              SubSeq(q, k + 1, Len(q))[i] = q[k + 1 + i - 1]
<1>0. Len(q) \in Nat /\ k + 1 \in Nat /\ k + 1 >= 1
  BY LenProperties
<1> DEFINE a == k + 1
           b == Len(q)
<1>1. a \in Nat /\ b \in Nat /\ a >= 1 /\ b <= Len(q)
  BY <1>0
<1> HIDE DEF a, b
<1>2. /\ SubSeq(q, a, b) \in Seq(Nat)
      /\ Len(SubSeq(q, a, b)) = IF a <= b THEN b - a + 1 ELSE 0
      /\ \A i \in 1 .. Len(SubSeq(q, a, b)) : SubSeq(q, a, b)[i] = q[a + i - 1]
  BY <1>1, Slices
<1> QED BY <1>2 DEF a, b

\* The characters in the ring.
LEMMA StoredFacts ==
  ASSUME TypeOK
  PROVE  Stored \in Seq(Nat) /\ Len(Stored) = size /\ DOMAIN Stored = 1 .. size
<1>1. size \in Nat /\ head \in Int
  BY BufAssumption DEF TypeOK
<1>2. \A i \in 1 .. size : kb_buf[(head + i - 1) % BufLen] \in Nat
  <2> TAKE i \in 1 .. size
  <2>1. (head + i - 1) % BufLen \in 0 .. BufLen - 1
    BY <1>1, ModRange
  <2> QED BY <2>1 DEF TypeOK
<1>3. Stored \in [1 .. size -> Nat]
  BY <1>2 DEF Stored
<1> QED BY <1>1, <1>3

\* What the interrupt brings always fits.
LEMMA FetchedFacts ==
  ASSUME TypeOK
  PROVE  /\ Fetched \in Seq(Nat)
         /\ Len(Fetched) <= BufLen - size
         /\ Len(Fetched) <= Len(controller)
<1> DEFINE n == IF Len(controller) <= BufLen - size THEN Len(controller)
                ELSE BufLen - size
<1>1. n \in Nat /\ n <= BufLen - size /\ n <= Len(controller)
  BY BufAssumption DEF TypeOK
<1>2. Fetched = SubSeq(controller, 1, n)
  BY DEF Fetched
<1>3. /\ SubSeq(controller, 1, n) \in Seq(Nat)
      /\ Len(SubSeq(controller, 1, n)) = IF 1 <= n THEN n - 1 + 1 ELSE 0
  BY <1>1, Slices DEF TypeOK
<1> HIDE DEF n
<1> QED BY <1>1, <1>2, <1>3

LEMMA AvailableFacts ==
  ASSUME TypeOK
  PROVE  /\ Available \in Seq(Nat)
         /\ Len(Available) = size + Len(Fetched)
         /\ DOMAIN Available = 1 .. Len(Available)
         /\ Len(Available) <= BufLen
<1>1. size \in Nat /\ BufLen \in Nat
  BY BufAssumption DEF TypeOK
<1>2. /\ Stored \in Seq(Nat) /\ Len(Stored) = size
      /\ Fetched \in Seq(Nat) /\ Len(Fetched) <= BufLen - size
  BY StoredFacts, FetchedFacts
<1>3. /\ Stored \o Fetched \in Seq(Nat)
      /\ Len(Stored \o Fetched) = Len(Stored) + Len(Fetched)
  BY <1>2, ConcatProperties
<1>4. Available \in Seq(Nat) /\ Len(Available) = size + Len(Fetched)
  BY <1>2, <1>3 DEF Available
<1>5. Len(Fetched) \in Nat
  BY <1>2, LenProperties
<1> QED BY <1>1, <1>2, <1>4, <1>5, LenProperties

\* Taking k of n characters from the ring leaves its indices inside.
LEMMA RemovedFacts ==
  ASSUME TypeOK, NEW n \in 0 .. BufLen, NEW k \in 0 .. n, Removed(n, k)
  PROVE  head' \in 0 .. BufLen - 1 /\ size' \in 0 .. BufLen
<1>1. head + k \in Int
  BY BufAssumption DEF TypeOK
<1>2. (head + k) % BufLen \in 0 .. BufLen - 1
  BY <1>1, ModRange
<1> QED BY <1>2, BufAssumption DEF Removed

\* A copy is a sequence of characters, and no longer than what was taken.
LEMMA CopiedFacts ==
  ASSUME NEW t \in Seq(Nat), NEW q \in Seq(Nat), NEW k \in DOMAIN q
  PROVE  /\ Copied(t, q, k) \in Seq(Nat)
         /\ Len(Copied(t, q, k)) = Len(t) + (IF q[k] = eof THEN k - 1 ELSE k)
<1> DEFINE n == IF q[k] = eof THEN k - 1 ELSE k
<1>1. k \in 1 .. Len(q) /\ Len(q) \in Nat
  OBVIOUS
<1>2. n \in Nat /\ n <= Len(q)
  BY <1>1
<1>3. SubSeq(q, 1, n) \in Seq(Nat) /\ Len(SubSeq(q, 1, n)) = n
  BY <1>2, Slices
<1>4. Copied(t, q, k) = t \o SubSeq(q, 1, n)
  BY DEF Copied
<1> HIDE DEF n
<1>5. /\ Copied(t, q, k) \in Seq(Nat)
      /\ Len(Copied(t, q, k)) = Len(t) + n
  BY <1>3, <1>4, ConcatProperties
<1> QED BY <1>5 DEF n

-----------------------------------------------------------------------------
(* Types and the owner of the keyboard. *)

\* What holds in every state: the types say that the ring keeps its bounds, and
\* who has a descriptor is the living owner of the driver.
IInv == TypeOK /\ Exclusive

LEMMA InitSafe == Init => IInv
<1> SUFFICES ASSUME Init PROVE IInv
  OBVIOUS
<1>1. /\ owner \in Procs \cup {None} /\ head \in 0 .. BufLen - 1
      /\ size \in 0 .. BufLen /\ <<>> \in Seq(Nat)
  BY BufAssumption DEF Init
<1>4. eof_in_buf \in BOOLEAN /\ eof_reached \in BOOLEAN /\ halted \in BOOLEAN
  BY Zenon DEF Init
<1>5. /\ state \in [Procs -> {"STOPPED", "READY", "READING"}]
      /\ opened_dv \in [Procs -> [Fds -> 0 .. NumDevice - 1 \cup {None}]]
      /\ irc \in [Procs -> Int]
      /\ kb_buf \in [0 .. BufLen - 1 -> Nat]
      /\ text \in Seq(Nat) /\ controller \in Seq(Nat)
      /\ buf_len \in Nat /\ eof \in Nat
  BY <1>1 DEF Init
<1>2. TypeOK
  BY <1>1, <1>4, <1>5 DEF TypeOK
<1>3. Exclusive
  BY NoneIsNothing DEF Init, Exclusive
<1> QED BY <1>2, <1>3 DEF IInv

\* open, close and the end of the owner leave the driver in a good state.
LEMMA ResetTypes ==
  ASSUME NEW p \in Procs \cup {None}, Reset(p)
  PROVE  /\ owner' \in Procs \cup {None} /\ text' \in Seq(Nat)
         /\ buf_len' \in Nat /\ eof' \in Nat
         /\ eof_in_buf' \in BOOLEAN /\ eof_reached' \in BOOLEAN
         /\ head' \in 0 .. BufLen - 1 /\ size' \in 0 .. BufLen
<1>1. eof_in_buf' \in BOOLEAN /\ eof_reached' \in BOOLEAN
  BY Zenon DEF Reset
<1>2. /\ owner' \in Procs \cup {None} /\ text' \in Seq(Nat)
      /\ buf_len' \in Nat /\ eof' \in Nat
      /\ head' \in 0 .. BufLen - 1 /\ size' \in 0 .. BufLen
  BY BufAssumption, EmptySeq DEF Reset, DEFAULT_EOF
<1> QED BY <1>1, <1>2

LEMMA OpenSafe ==
  ASSUME IInv, NEW p \in Procs, NEW dv \in -1 .. NumDevice, NEW fd \in Fds,
         Open(p, dv, fd)
  PROVE  IInv'
<1>1. /\ owner = None /\ owner' = p /\ dv \in 0 .. NumDevice - 1
      /\ opened_dv' = [opened_dv EXCEPT ![p][fd] = dv]
      /\ state' = state /\ state[p] = "READY"
      /\ FirstFree(p, fd)
  BY DEF Open, Reset, Calls
<1>2. \A r \in Procs, f \in Fds : opened_dv[r][f] = None
  BY <1>1, NoneIsNothing DEF IInv, Exclusive
<1>3. fd = 0
  BY <1>1, <1>2, FdAssumption DEF FirstFree, Fds
<1>4. dv # None
  BY <1>1 DEF None, NumDevice
<1>5. Exclusive'
  BY <1>1, <1>2, <1>3, <1>4, NoneIsNothing DEF IInv, TypeOK, Exclusive
<1>6. fd \in Int
  BY DEF Fds
<1>7. TypeOK'
  <2>1. opened_dv' \in [Procs -> [Fds -> 0 .. NumDevice - 1 \cup {None}]]
    BY <1>1 DEF IInv, TypeOK
  <2>2. irc' \in [Procs -> Int]
    BY <1>6 DEF IInv, TypeOK, Open, Returns
  <2>3. Reset(p) /\ UNCHANGED <<state, kb_buf, controller, halted>>
    BY DEF Open
  <2> QED BY <2>1, <2>2, <2>3, ResetTypes DEF IInv, TypeOK
<1> QED BY <1>5, <1>7 DEF IInv

LEMMA CloseSafe ==
  ASSUME IInv, NEW p \in Procs, NEW fd, Close(p, fd)
  PROVE  IInv'
<1>1. /\ fd \in Fds /\ opened_dv[p][fd] # None /\ Reset(None)
      /\ opened_dv' = [opened_dv EXCEPT ![p][fd] = None]
      /\ state' = state /\ irc' = [irc EXCEPT ![p] = 0]
      /\ owner' = None
  BY DEF Close, Reset, Returns
<1>2. owner = p /\ fd = 0
  BY <1>1 DEF IInv, Exclusive
<1>3. Exclusive'
  BY <1>1, <1>2, NoneIsNothing DEF IInv, TypeOK, Exclusive
<1>4. TypeOK'
  BY <1>1, ResetTypes DEF IInv, TypeOK, Close
<1> QED BY <1>3, <1>4 DEF IInv

LEMMA StopSafe ==
  ASSUME IInv, NEW p \in Procs, Stop(p)
  PROVE  IInv'
<1>1. /\ state' = [state EXCEPT ![p] = "STOPPED"]
      /\ UNCHANGED <<kb_buf, controller, halted>>
  BY DEF Stop
<1>2. CASE \E fd \in Fds : opened_dv[p][fd] # None
  <2>1. /\ Reset(None) /\ owner' = None
        /\ opened_dv' = [opened_dv EXCEPT ![p] = [fd \in Fds |-> None]]
        /\ irc' = [irc EXCEPT ![p] = 0]
    BY <1>2 DEF Stop, Reset
  <2>2. owner = p
    BY <1>2 DEF IInv, Exclusive
  <2>3. Exclusive'
    BY <1>1, <2>1, <2>2, NoneIsNothing DEF IInv, TypeOK, Exclusive
  <2>4. TypeOK'
    BY <1>1, <2>1, ResetTypes DEF IInv, TypeOK
  <2> QED BY <2>3, <2>4 DEF IInv
<1>3. CASE ~ \E fd \in Fds : opened_dv[p][fd] # None
  <2>1. UNCHANGED <<owner, reqVars, eof, eof_in_buf, eof_reached, head, size,
                    opened_dv, irc>>
    BY <1>3 DEF Stop
  <2>2. owner # p
    BY <1>3, NoneIsNothing DEF IInv, Exclusive
  <2>3. Exclusive'
    BY <1>1, <2>1, <2>2 DEF IInv, TypeOK, Exclusive
  <2>4. TypeOK'
    BY <1>1, <2>1 DEF IInv, TypeOK, reqVars
  <2> QED BY <2>3, <2>4 DEF IInv
<1> QED BY <1>2, <1>3

LEMMA CreateSafe ==
  ASSUME IInv, NEW q \in Procs, NEW p \in Procs, Create(q, p)
  PROVE  IInv'
<1>1. /\ state[p] = "STOPPED"
      /\ state' = [state EXCEPT ![p] = "READY"]
      /\ opened_dv' = [opened_dv EXCEPT ![p] = [fd \in Fds |-> None]]
      /\ irc' = [irc EXCEPT ![p] = 0, ![q] = p]
      /\ UNCHANGED <<ringVars, reqVars, statusVars, controller, halted>>
  BY DEF Create
<1>2. owner # p
  BY <1>1, NoneIsNothing DEF IInv, Exclusive
<1>3. Exclusive'
  BY <1>1, <1>2 DEF IInv, TypeOK, Exclusive, statusVars
<1>4. p \in Int
  BY ProcAssumption
<1>5. TypeOK'
  BY <1>1, <1>4 DEF IInv, TypeOK, ringVars, reqVars, statusVars
<1> QED BY <1>3, <1>5 DEF IInv

\* The other calls change neither the descriptors nor the owner.
LEMMA SameOwner ==
  ASSUME IInv, UNCHANGED <<opened_dv, owner>>,
         \A p \in Procs : state'[p] = "STOPPED" <=> state[p] = "STOPPED"
  PROVE  Exclusive'
  BY DEF IInv, TypeOK, Exclusive

LEMMA FailsSafe ==
  ASSUME IInv, NEW p \in Procs, Fails(p)
  PROVE  IInv'
<1>1. /\ irc' = [irc EXCEPT ![p] = -1]
      /\ UNCHANGED <<state, opened_dv, ringVars, reqVars, statusVars, controller,
                     halted>>
  BY DEF Fails, Returns
<1>2. TypeOK'
  BY <1>1 DEF IInv, TypeOK, ringVars, reqVars, statusVars
<1>3. Exclusive'
  BY <1>1, SameOwner DEF statusVars
<1> QED BY <1>2, <1>3 DEF IInv

LEMMA RequestTypes ==
  ASSUME IInv, NEW p \in Procs, NEW fd, NEW len \in Lens, Requests(p, fd, len)
  PROVE  buf_len' \in Nat /\ owner = p /\ state[p] = "READY"
  BY LenAssumption DEF Requests, Calls

LEMMA ReadBlocksSafe ==
  ASSUME IInv, NEW p \in Procs, NEW fd, NEW len \in Lens, ReadBlocks(p, fd, len)
  PROVE  IInv'
<1>1. /\ Requests(p, fd, len) /\ text' = <<>>
      /\ state' = [state EXCEPT ![p] = "READING"]
      /\ UNCHANGED <<opened_dv, irc, ringVars, statusVars, controller, halted>>
  BY DEF ReadBlocks
<1>2. buf_len' \in Nat /\ state[p] = "READY" /\ text' \in Seq(Nat)
  BY <1>1, RequestTypes, EmptySeq
<1>3. TypeOK'
  BY <1>1, <1>2 DEF IInv, TypeOK, ringVars, statusVars
<1>4. Exclusive'
  BY <1>1, <1>2, SameOwner DEF IInv, TypeOK, statusVars
<1> QED BY <1>3, <1>4 DEF IInv

LEMMA ReadAfterEofSafe ==
  ASSUME IInv, NEW p \in Procs, NEW fd, NEW len \in Lens, ReadAfterEof(p, fd, len)
  PROVE  IInv'
<1>1. /\ Requests(p, fd, len) /\ text' = <<>>
      /\ irc' = [irc EXCEPT ![p] = 0]
      /\ UNCHANGED <<state, opened_dv, ringVars, statusVars, controller, halted>>
  BY DEF ReadAfterEof, Returns
<1>2. buf_len' \in Nat /\ text' \in Seq(Nat)
  BY <1>1, RequestTypes, EmptySeq
<1>3. TypeOK'
  BY <1>1, <1>2 DEF IInv, TypeOK, ringVars, statusVars
<1>4. Exclusive'
  BY <1>1, SameOwner DEF statusVars
<1> QED BY <1>3, <1>4 DEF IInv

LEMMA ReadReturnsSafe ==
  ASSUME IInv, NEW p \in Procs, NEW fd, NEW len \in Lens, ReadReturns(p, fd, len)
  PROVE  IInv'
<1>1. /\ Requests(p, fd, len)
      /\ irc' = [irc EXCEPT ![p] = Len(text')]
      /\ UNCHANGED <<state, opened_dv, kb_buf, owner, eof, eof_in_buf, controller,
                     halted>>
  BY DEF ReadReturns, Returns
<1>2. PICK k \in 1 .. size :
        /\ text' = Copied(<<>>, Stored, k)
        /\ Removed(size, k)
        /\ eof_reached' = (Stored[k] = eof)
  BY DEF ReadReturns
<1>3. buf_len' \in Nat
  BY <1>1, RequestTypes
<1>4. text' \in Seq(Nat) /\ Len(text') \in Int
  <2>1. Stored \in Seq(Nat) /\ k \in DOMAIN Stored /\ <<>> \in Seq(Nat)
    BY StoredFacts, EmptySeq DEF IInv
  <2>2. text' \in Seq(Nat)
    BY <1>2, <2>1, CopiedFacts
  <2> QED BY <2>2, LenProperties
<1>5. head' \in 0 .. BufLen - 1 /\ size' \in 0 .. BufLen
  <2>1. size \in 0 .. BufLen /\ k \in 0 .. size
    BY DEF IInv, TypeOK
  <2> QED BY <1>2, <2>1, RemovedFacts DEF IInv
<1>6. eof_reached' \in BOOLEAN
  BY <1>2
<1>7. TypeOK'
  BY <1>1, <1>3, <1>4, <1>5, <1>6 DEF IInv, TypeOK
<1>8. Exclusive'
  BY <1>1, SameOwner
<1> QED BY <1>7, <1>8 DEF IInv

LEMMA ReadAbortsSafe ==
  ASSUME IInv, NEW p \in Procs, NEW fd, NEW len \in Lens, ReadAborts(p, fd, len)
  PROVE  IInv'
<1>1. /\ halted' = TRUE
      /\ UNCHANGED <<procVars, statusVars, controller>>
  BY DEF ReadAborts
<1>2. owner = p
  <2>1. fd \in 0 .. NumDevice - 1 /\ opened_dv[p][fd] # None
    BY DEF ReadAborts, Valid
  <2>2. fd \in Fds
    BY <2>1, FdAssumption DEF NumDevice, Fds
  <2> QED BY <2>1, <2>2 DEF IInv, Exclusive
<1>3. /\ Requests(p, fd, len) /\ text' = Stored /\ Removed(size, size)
      /\ UNCHANGED kb_buf
  BY <1>2 DEF ReadAborts
<1>4. buf_len' \in Nat /\ text' \in Seq(Nat)
  BY <1>3, RequestTypes, StoredFacts DEF IInv
<1>5. head' \in 0 .. BufLen - 1 /\ size' \in 0 .. BufLen
  <2>1. size \in 0 .. BufLen /\ size \in 0 .. size
    BY BufAssumption DEF IInv, TypeOK
  <2> QED BY <1>3, <2>1, RemovedFacts DEF IInv
<1>6. halted' \in BOOLEAN
  BY <1>1
<1>7. TypeOK'
  BY <1>1, <1>3, <1>4, <1>5, <1>6 DEF IInv, TypeOK, procVars, statusVars
<1>8. Exclusive'
  BY <1>1, SameOwner DEF procVars, statusVars
<1> QED BY <1>7, <1>8 DEF IInv

LEMMA IoctlSafe ==
  ASSUME IInv, NEW p \in Procs, NEW fd, NEW c \in Eofs, Ioctl(p, fd, c)
  PROVE  IInv'
<1>1. /\ eof' = c /\ irc' = [irc EXCEPT ![p] = 0]
      /\ UNCHANGED <<state, opened_dv, ringVars, reqVars, owner, eof_in_buf,
                     eof_reached, controller, halted>>
  BY DEF Ioctl, Returns
<1>2. TypeOK'
  BY <1>1, KeyAssumption DEF IInv, TypeOK, ringVars, reqVars
<1>3. Exclusive'
  BY <1>1, SameOwner
<1> QED BY <1>2, <1>3 DEF IInv

LEMMA PressSafe ==
  ASSUME IInv, NEW c \in Keys, Press(c)
  PROVE  IInv'
<1>1. /\ controller' = Append(controller, c)
      /\ UNCHANGED <<procVars, ringVars, reqVars, statusVars, halted>>
  BY DEF Press
<1>2. controller' \in Seq(Nat)
  BY <1>1, KeyAssumption, AppendProperties DEF IInv, TypeOK
<1>3. TypeOK'
  BY <1>1, <1>2 DEF IInv, TypeOK, procVars, ringVars, reqVars, statusVars
<1>4. Exclusive'
  BY <1>1, SameOwner DEF procVars, statusVars
<1> QED BY <1>3, <1>4 DEF IInv

\* What the interrupt does in all three cases.
LEMMA ReceivesTypes ==
  ASSUME TypeOK, Receives
  PROVE  /\ kb_buf' \in [0 .. BufLen - 1 -> Nat]
         /\ controller' \in Seq(Nat)
         /\ eof_in_buf' \in BOOLEAN
         /\ owner \in Procs
<1>1. \A i \in 0 .. BufLen - 1 :
        Slot(i) < Len(Fetched) => Fetched[Slot(i) + 1] \in Nat
  <2> SUFFICES ASSUME NEW i \in 0 .. BufLen - 1, Slot(i) < Len(Fetched)
               PROVE  Fetched[Slot(i) + 1] \in Nat
    OBVIOUS
  <2>1. i - head - size \in Int
    BY BufAssumption DEF TypeOK
  <2>2. Slot(i) \in 0 .. BufLen - 1
    BY <2>1, ModRange DEF Slot
  <2>3. Len(Fetched) \in Nat /\ Slot(i) + 1 \in 1 .. Len(Fetched)
    BY <2>2, FetchedFacts, BufAssumption
  <2> QED BY <2>3, FetchedFacts, ElementOfSeq
<1>2. kb_buf' = [i \in 0 .. BufLen - 1 |->
                   IF Slot(i) < Len(Fetched) THEN Fetched[Slot(i) + 1]
                   ELSE kb_buf[i]]
  BY DEF Receives
<1>3. kb_buf' \in [0 .. BufLen - 1 -> Nat]
  BY <1>1, <1>2 DEF TypeOK
<1>4. controller' = SubSeq(controller, Len(Fetched) + 2, Len(controller))
  BY DEF Receives
<1>5. controller' \in Seq(Nat)
  <2>1. controller \in Seq(Nat) /\ Len(controller) \in Nat /\ Len(Fetched) \in Nat
    BY FetchedFacts, LenProperties DEF TypeOK
  <2>2. PICK a \in Nat, b \in Nat : a = Len(Fetched) + 2 /\ b = Len(controller)
    BY <2>1
  <2>3. a >= 1 /\ b <= Len(controller)
    BY <2>1, <2>2
  <2>4. SubSeq(controller, a, b) \in Seq(Nat)
    BY <2>1, <2>3, Slices
  <2> QED BY <1>4, <2>2, <2>4
<1>6. eof_in_buf' = (eof_in_buf \/ HasEof(Fetched))
  BY DEF Receives
<1> QED BY <1>3, <1>5, <1>6, Zenon DEF Receives, TypeOK

LEMMA KeyStoredSafe ==
  ASSUME IInv, KeyStored
  PROVE  IInv'
<1>1. /\ Receives /\ Removed(Len(Available), 0)
      /\ UNCHANGED <<text, eof_reached, state, irc>>
  BY DEF KeyStored
<1>2. UNCHANGED <<buf_len, owner, eof, opened_dv, halted>>
  BY <1>1 DEF Receives
<1>3. head' \in 0 .. BufLen - 1 /\ size' \in 0 .. BufLen
  <2>1. Len(Available) \in 0 .. BufLen /\ 0 \in 0 .. Len(Available)
    BY AvailableFacts, LenProperties, BufAssumption DEF IInv
  <2> QED BY <1>1, <2>1, RemovedFacts DEF IInv
<1>4. TypeOK'
  BY <1>1, <1>2, <1>3, ReceivesTypes DEF IInv, TypeOK
<1>5. Exclusive'
  BY <1>1, <1>2, SameOwner
<1> QED BY <1>4, <1>5 DEF IInv

LEMMA KeyCopiedSafe ==
  ASSUME IInv, KeyCopied
  PROVE  IInv'
<1>1. /\ Receives /\ Removed(Len(Available), Len(Available))
      /\ text' = text \o Available
      /\ UNCHANGED <<eof_reached, state, irc>>
  BY DEF KeyCopied
<1>2. UNCHANGED <<buf_len, owner, eof, opened_dv, halted>>
  BY <1>1 DEF Receives
<1>3. head' \in 0 .. BufLen - 1 /\ size' \in 0 .. BufLen
  <2>1. Len(Available) \in 0 .. BufLen /\ Len(Available) \in 0 .. Len(Available)
    BY AvailableFacts, LenProperties, BufAssumption DEF IInv
  <2> QED BY <1>1, <2>1, RemovedFacts DEF IInv
<1>4. text' \in Seq(Nat)
  BY <1>1, AvailableFacts, ConcatProperties DEF IInv, TypeOK
<1>5. TypeOK'
  BY <1>1, <1>2, <1>3, <1>4, ReceivesTypes DEF IInv, TypeOK
<1>6. Exclusive'
  BY <1>1, <1>2, SameOwner
<1> QED BY <1>5, <1>6 DEF IInv

LEMMA KeyEndsSafe ==
  ASSUME IInv, KeyEnds
  PROVE  IInv'
<1>1. /\ Receives
      /\ irc' = [irc EXCEPT ![owner] = Len(text')]
      /\ state' = [state EXCEPT ![owner] = "READY"]
  BY DEF KeyEnds, Returns
<1>2. UNCHANGED <<buf_len, owner, eof, opened_dv, halted>>
  BY <1>1 DEF Receives
<1>3. PICK k \in DOMAIN Available :
        /\ text' = Copied(text, Available, k)
        /\ Removed(Len(Available), k)
        /\ eof_reached' = (eof_reached \/ Available[k] = eof)
  BY DEF KeyEnds
<1>4. head' \in 0 .. BufLen - 1 /\ size' \in 0 .. BufLen
  <2>1. Len(Available) \in 0 .. BufLen /\ k \in 0 .. Len(Available)
    BY AvailableFacts, LenProperties, BufAssumption DEF IInv
  <2> QED BY <1>3, <2>1, RemovedFacts DEF IInv
<1>5. text' \in Seq(Nat) /\ Len(text') \in Int
  <2>1. text' \in Seq(Nat)
    BY <1>3, AvailableFacts, CopiedFacts DEF IInv, TypeOK
  <2> QED BY <2>1, LenProperties
<1>6. eof_reached' \in BOOLEAN
  BY <1>3, Zenon
<1>7. owner \in Procs /\ state[owner] # "STOPPED"
  BY <1>1, ReceivesTypes, NoneIsNothing DEF IInv, Exclusive
<1>8. TypeOK'
  BY <1>1, <1>2, <1>4, <1>5, <1>6, <1>7, ReceivesTypes DEF IInv, TypeOK
<1>9. Exclusive'
  BY <1>1, <1>2, <1>7, SameOwner DEF IInv, TypeOK
<1> QED BY <1>8, <1>9 DEF IInv

LEMMA RequestedSafe ==
  ASSUME IInv, NEW p \in Procs, Requested(p)
  PROVE  IInv'
<1>1. CASE \E dv \in -1 .. NumDevice :
             OpenFails(p, dv) \/ \E fd \in Fds : Open(p, dv, fd)
  BY <1>1, OpenSafe, FailsSafe DEF OpenFails
<1>2. CASE \E fd \in -1 .. NumFd :
             \/ Close(p, fd)
             \/ CloseFails(p, fd)
             \/ ReadFails(p, fd)
             \/ \E c \in Eofs : Ioctl(p, fd, c)
  BY <1>2, CloseSafe, FailsSafe, IoctlSafe DEF CloseFails, ReadFails
<1>3. CASE \E fd \in -1 .. NumFd, len \in Lens :
             \/ ReadBlocks(p, fd, len)
             \/ ReadAfterEof(p, fd, len)
             \/ ReadReturns(p, fd, len)
             \/ ReadAborts(p, fd, len)
  BY <1>3, ReadBlocksSafe, ReadAfterEofSafe, ReadReturnsSafe, ReadAbortsSafe
<1>4. CASE Write(p) \/ IoctlFails(p)
  BY <1>4, FailsSafe DEF Write, IoctlFails
<1>5. CASE Stop(p) \/ \E q \in Procs : Create(p, q)
  BY <1>5, StopSafe, CreateSafe
<1> QED BY <1>1, <1>2, <1>3, <1>4, <1>5 DEF Requested

LEMMA NextSafe == IInv /\ [Next]_vars => IInv'
<1> SUFFICES ASSUME IInv, [Next]_vars PROVE IInv'
  OBVIOUS
<1>1. CASE \E p \in Procs : Requested(p)
  BY <1>1, RequestedSafe
<1>2. CASE \E c \in Keys : Press(c)
  BY <1>2, PressSafe
<1>3. CASE keyboard_lower
  BY <1>3, KeyStoredSafe, KeyCopiedSafe, KeyEndsSafe DEF keyboard_lower
<1>4. CASE UNCHANGED vars
  BY <1>4 DEF IInv, TypeOK, Exclusive, vars, procVars, ringVars, reqVars, statusVars
<1> QED BY <1>1, <1>2, <1>3, <1>4 DEF Next

\* The driver's variables keep their types: the ring never holds more than
\* KEYBOARD_BUF_LEN characters and is never indexed outside.
THEOREM DriverTypes == Spec => []TypeOK
<1>1. IInv => TypeOK
  BY DEF IInv
<1> QED BY <1>1, InitSafe, NextSafe, PTL DEF Spec

\* Whoever holds a descriptor has the keyboard and is alive, and nobody else
\* has one: keyboard_read() never meets a stranger.
THEOREM OneOwner == Spec => []Exclusive
<1>1. IInv => Exclusive
  BY DEF IInv
<1> QED BY <1>1, InitSafe, NextSafe, PTL DEF Spec

-----------------------------------------------------------------------------
(* The ring is a queue, and the driver implements KeyStream. *)

\* Remainders of the numbers that occur as ring positions.
LEMMA ModCases ==
  ASSUME NEW x \in Int
  PROVE  /\ x \in 0 .. BufLen - 1 => x % BufLen = x
         /\ x \in BufLen .. 2 * BufLen - 1 => x % BufLen = x - BufLen
         /\ x \in -BufLen .. -1 => x % BufLen = x + BufLen
         /\ x \in -(2 * BufLen) .. -BufLen - 1 => x % BufLen = x + 2 * BufLen
  BY BufAssumption

\* The interrupt leaves the characters that wait where they are, and puts the
\* new ones behind them.
LEMMA ReceivedRing ==
  ASSUME TypeOK, Receives, NEW j \in 1 .. Len(Available)
  PROVE  kb_buf'[(head + j - 1) % BufLen] = Available[j]
<1> DEFINE x == head + j - 1
           a == x % BufLen
           y == a - head - size
<1>1. /\ BufLen \in Nat /\ BufLen > 0 /\ head \in 0 .. BufLen - 1
      /\ size \in 0 .. BufLen /\ Len(Fetched) \in Nat
      /\ size + Len(Fetched) <= BufLen /\ j \in 1 .. size + Len(Fetched)
  BY BufAssumption, FetchedFacts, AvailableFacts, LenProperties DEF TypeOK
<1>2. x \in 0 .. 2 * BufLen - 1 /\ x \in Int
  BY <1>1
<1>3. a \in 0 .. BufLen - 1 /\ (a = x \/ a = x - BufLen)
  <2> HIDE DEF x
  <2>1. x \in 0 .. BufLen - 1 \/ x \in BufLen .. 2 * BufLen - 1
    BY <1>1, <1>2
  <2> QED BY <1>2, <2>1, ModRange, ModCases
<1>4. kb_buf'[a] = IF Slot(a) < Len(Fetched) THEN Fetched[Slot(a) + 1]
                   ELSE kb_buf[a]
  BY <1>3 DEF Receives
<1>5. Slot(a) = y % BufLen
  BY DEF Slot
<1>6. y = j - 1 - size \/ y = j - 1 - size - BufLen
  BY <1>1, <1>3
<1>7. Available[j] = IF j <= size THEN Stored[j] ELSE Fetched[j - size]
  BY <1>1, StoredFacts, FetchedFacts, ConcatProperties DEF Available
<1> HIDE DEF a, y
<1>8. CASE j <= size
  <2>1. y \in Int /\ (y \in -BufLen .. -1 \/ y \in -(2 * BufLen) .. -BufLen - 1)
    BY <1>1, <1>6, <1>8
  <2>2. y % BufLen = j - 1 - size + BufLen
    BY <1>1, <1>6, <1>8, <2>1, ModCases
  <2>3. kb_buf'[a] = kb_buf[a]
    BY <1>1, <1>4, <1>5, <2>2
  <2>4. Stored[j] = kb_buf[a]
    BY <1>1, <1>8 DEF Stored, a, x
  <2> QED BY <1>7, <1>8, <2>3, <2>4 DEF a, x
<1>9. CASE j > size
  <2>1. y \in Int /\ (y \in 0 .. BufLen - 1 \/ y \in -BufLen .. -1)
    BY <1>1, <1>6, <1>9
  <2>2. y % BufLen = j - 1 - size
    BY <1>1, <1>6, <1>9, <2>1, ModCases
  <2>3. kb_buf'[a] = Fetched[j - size]
    BY <1>1, <1>4, <1>5, <1>9, <2>2
  <2> QED BY <1>1, <1>7, <1>9, <2>3 DEF a, x
<1> QED BY <1>1, <1>8, <1>9

\* If the ring holds q, then taking k characters leaves the rest of q.
LEMMA RingTake ==
  ASSUME TypeOK, NEW q \in Seq(Nat), Len(q) <= BufLen,
         \A j \in 1 .. Len(q) : kb_buf'[(head + j - 1) % BufLen] = q[j],
         NEW k \in 0 .. Len(q), Removed(Len(q), k)
  PROVE  Stored' = SubSeq(q, k + 1, Len(q))
<1>0. size' = Len(q) - k /\ head' = (head + k) % BufLen /\ Len(q) \in Nat
  BY LenProperties DEF Removed
<1>1. /\ BufLen \in Nat /\ BufLen > 0 /\ head \in 0 .. BufLen - 1
      /\ Len(q) \in Nat /\ size' = Len(q) - k /\ size' \in Nat
      /\ head' = (head + k) % BufLen
  BY <1>0, BufAssumption DEF TypeOK
<1> DEFINE r == SubSeq(q, k + 1, Len(q))
<1>2. /\ r \in Seq(Nat) /\ Len(r) = size'
      /\ \A i \in 1 .. size' : r[i] = q[k + i]
  <2>1. /\ r \in Seq(Nat)
        /\ Len(r) = IF k + 1 <= Len(q) THEN Len(q) - (k + 1) + 1 ELSE 0
        /\ \A i \in 1 .. Len(r) : r[i] = q[k + 1 + i - 1]
    BY SuffixIs
  <2>2. Len(r) = size'
    BY <1>1, <2>1
  <2>3. \A i \in 1 .. size' : k + 1 + i - 1 = k + i
    BY <1>1
  <2> HIDE DEF r
  <2> QED BY <2>1, <2>2, <2>3
<1>3. \A i \in 1 .. size' : kb_buf'[(head' + i - 1) % BufLen] = q[k + i]
  <2> TAKE i \in 1 .. size'
  <2>1. k + i \in 1 .. Len(q)
    BY <1>1
  <2> DEFINE u == head' + i - 1
             w == head + (k + i) - 1
             h == head + k
  <2>2. /\ head' \in Int /\ w \in Int /\ h \in Int /\ u = head' + i - 1
        /\ h \in 0 .. 2 * BufLen - 1 /\ w = h + i - 1 /\ w <= 2 * BufLen - 1
        /\ head' = h % BufLen /\ u \in Int
    BY <1>1, <2>1, ModRange
  <2> HIDE DEF u, w, h
  <2>3. u % BufLen = w % BufLen
    <3>1. CASE h \in 0 .. BufLen - 1
      <4>1. head' = h
        BY <2>2, <3>1, ModCases
      <4> QED BY <2>2, <4>1
    <3>2. CASE h \in BufLen .. 2 * BufLen - 1
      <4>1. head' = h - BufLen
        BY <2>2, <3>2, ModCases
      <4>2. u \in 0 .. BufLen - 1 /\ w \in BufLen .. 2 * BufLen - 1 /\ u = w - BufLen
        BY <1>1, <2>2, <3>2, <4>1
      <4>3. u % BufLen = u /\ w % BufLen = w - BufLen
        BY <2>2, <4>2, ModCases
      <4> QED BY <4>2, <4>3
    <3> QED BY <1>1, <2>2, <3>1, <3>2
  <2>4. kb_buf'[w % BufLen] = q[k + i]
    BY <2>1 DEF w
  <2>5. kb_buf'[u % BufLen] = q[k + i]
    BY <2>3, <2>4
  <2> QED BY <2>5 DEF u
<1>4. r = [i \in 1 .. size' |-> q[k + i]]
  <2> HIDE DEF r
  <2> QED BY <1>2, LenProperties
<1>5. Stored' = [i \in 1 .. size' |-> q[k + i]]
  BY <1>3 DEF Stored
<1> QED BY <1>4, <1>5

\* A read of programs moves k characters from the ring to an empty buffer.
LEMMA MoveCalled ==
  ASSUME TypeOK, NEW k \in 0 .. size, NEW m \in {k - 1, k},
         UNCHANGED <<kb_buf, controller>>, Removed(size, k),
         text' = SubSeq(Stored, 1, m)
  PROVE  Stream!Move
<1>1. /\ Stored \in Seq(Nat) /\ Len(Stored) = size /\ size \in 0 .. BufLen
      /\ controller \in Seq(Nat) /\ Len(controller) \in Nat
  BY StoredFacts, LenProperties DEF TypeOK
<1>2. Stored' = SubSeq(Stored, k + 1, size)
  <2>1. \A j \in 1 .. Len(Stored) : kb_buf'[(head + j - 1) % BufLen] = Stored[j]
    BY <1>1 DEF Stored
  <2>2. /\ Len(Stored) <= BufLen /\ k \in 0 .. Len(Stored)
        /\ Removed(Len(Stored), k)
    BY <1>1, BufAssumption
  <2> QED BY <1>1, <2>1, <2>2, RingTake
<1>3. /\ SubSeq(controller, 1, 0) = <<>>
      /\ Stored \o <<>> = Stored
      /\ SubSeq(controller, 1, Len(controller)) = controller
  BY <1>1, SubSeqEmpty, ConcatEmptySeq, SubSeqFull
<1> DEFINE held == Stored \o SubSeq(controller, 1, 0)
           lost == IF 0 < Len(controller)
                      /\ controller' # SubSeq(controller, 0 + 1, Len(controller))
                   THEN 1 ELSE 0
<1>4. held = Stored /\ lost = 0
  <2>1. held = Stored
    BY <1>3
  <2>2. 0 + 1 = 1
    OBVIOUS
  <2>3. controller' = SubSeq(controller, 0 + 1, Len(controller))
    BY <1>3, <2>2
  <2>4. lost = 0
    BY <2>3
  <2> QED BY <2>1, <2>4
<1>5. text' = <<>> \o SubSeq(held, 1, m)
  <2>1. text' \in Seq(Nat)
    <3>1. CASE m < 1
      BY <3>1, SubSeqEmpty, EmptySeq
    <3>2. CASE m >= 1
      BY <1>1, <3>2, Slices
    <3> QED BY <1>1, <3>1, <3>2
  <2> QED BY <1>4, <2>1, ConcatEmptySeq
<1>6. controller' = SubSeq(controller, 0 + 1 + lost, Len(controller))
  BY <1>3, <1>4
<1>7. Stored' = SubSeq(held, k + 1, Len(held))
  BY <1>1, <1>2, <1>4
<1>8. 0 \in 0 .. Len(controller) /\ k \in 0 .. Len(Stored) + 0
  BY <1>1
<1>9. lost = 1 => Len(held) = BufLen
  BY <1>4
<1> HIDE DEF held, lost
<1>10. \E before \in {text, <<>>}, n \in {k - 1, k} :
         text' = before \o SubSeq(held, 1, n)
  BY <1>5
<1> QED BY <1>6, <1>7, <1>8, <1>9, <1>10 DEF Stream!Move, held, lost

\* An interrupt moves what the controller holds to the ring, drops one character
\* if the ring is full, and moves k characters to the reader.
LEMMA MoveTyped ==
  ASSUME TypeOK, Receives, NEW k \in 0 .. Len(Available), NEW m \in {k - 1, k},
         Removed(Len(Available), k), text' = text \o SubSeq(Available, 1, m)
  PROVE  Stream!Move
<1> DEFINE n == Len(Fetched)
           c == Len(controller)
           held == Stored \o SubSeq(controller, 1, n)
           lost == IF n < c /\ controller' # SubSeq(controller, n + 1, c)
                   THEN 1 ELSE 0
<1>1. /\ controller \in Seq(Nat) /\ c \in Nat /\ n \in Nat /\ n <= c
      /\ n = c \/ n = BufLen - size
      /\ size \in 0 .. BufLen /\ BufLen \in Nat
      /\ SubSeq(controller, 1, n) = Fetched
  <2> DEFINE b == IF c <= BufLen - size THEN c ELSE BufLen - size
  <2>1. c \in Nat /\ b \in Nat /\ b <= c /\ (b = c \/ b = BufLen - size)
    BY BufAssumption, LenProperties DEF TypeOK
  <2>2. Fetched = SubSeq(controller, 1, b)
    BY DEF Fetched
  <2>3. Len(SubSeq(controller, 1, b)) = IF 1 <= b THEN b - 1 + 1 ELSE 0
    BY <2>1, Slices DEF TypeOK
  <2> HIDE DEF b
  <2>4. n = b
    BY <2>1, <2>2, <2>3
  <2> QED BY <2>1, <2>2, <2>4, BufAssumption DEF TypeOK
<1>3. /\ held = Available /\ Available \in Seq(Nat) /\ Len(Available) = size + n
      /\ Len(Stored) = size
  BY <1>1, StoredFacts, AvailableFacts DEF Available
<1>4. controller' = SubSeq(controller, n + 2, c)
  BY DEF Receives
<1>5. controller' = SubSeq(controller, n + 1 + lost, c)
  <2>1. CASE n = c
    <3>1. SubSeq(controller, n + 2, c) = <<>> /\ SubSeq(controller, n + 1 + lost, c) = <<>>
      BY <1>1, <2>1, SubSeqEmpty
    <3> QED BY <1>4, <3>1
  <2>2. CASE n # c /\ lost = 1
    <3>1. n \in Nat /\ lost = 1
      BY <1>1, <2>2
    <3> HIDE DEF lost, n, c
    <3>2. n + 2 = n + 1 + lost
      BY <3>1
    <3> QED BY <1>4, <3>2
  <2>3. CASE n # c /\ lost = 0
    <3>1. controller' = SubSeq(controller, n + 1, c)
      BY <1>1, <2>3
    <3>2. n \in Nat /\ lost = 0
      BY <1>1, <2>3
    <3> HIDE DEF lost, n, c
    <3>3. n + 1 = n + 1 + lost
      BY <3>2
    <3> QED BY <3>1, <3>3
  <2> QED BY <2>1, <2>2, <2>3
<1>6. lost = 1 => Len(held) = BufLen
  <2>1. lost = 1 => n < c
    OBVIOUS
  <2>2. Len(held) = size + n
    BY <1>3
  <2> HIDE DEF held, lost, n, c
  <2> QED BY <1>1, <2>1, <2>2
<1>7. Stored' = SubSeq(held, k + 1, Len(held))
  BY <1>3, ReceivedRing, AvailableFacts, RingTake
<1>8. n \in 0 .. c /\ k \in 0 .. Len(Stored) + n
  BY <1>1, <1>3
<1>9. \E before \in {text, <<>>}, j \in {k - 1, k} :
        text' = before \o SubSeq(held, 1, j)
  BY <1>3
<1> HIDE DEF held, lost, n
<1> QED BY <1>5, <1>6, <1>7, <1>8, <1>9 DEF Stream!Move, held, lost

\* What the rest of the programs' calls do to the characters: nothing, or all of
\* them are forgotten.
LEMMA CallImplements ==
  ASSUME IInv, NEW p \in Procs, Requested(p)
  PROVE  [Stream!Next]_(Stream!vars)
<1> USE DEF Stream!Next, Stream!vars, Stream!Forget
<1>1. ASSUME UNCHANGED <<ringVars, text, controller>>
      PROVE  [Stream!Next]_(Stream!vars)
  BY <1>1 DEF ringVars, Stored
<1>2. ASSUME NEW q \in Procs \cup {None}, Reset(q), UNCHANGED controller
      PROVE  [Stream!Next]_(Stream!vars)
  <2>1. size' = 0 /\ text' = <<>>
    BY <1>2 DEF Reset
  <2>2. Stored' = <<>>
    BY <2>1 DEF Stored
  <2> QED BY <1>2, <2>1, <2>2
<1>3. ASSUME Fails(p)
      PROVE  [Stream!Next]_(Stream!vars)
  BY <1>1, <1>3 DEF Fails, reqVars
<1>4. ASSUME NEW dv \in -1 .. NumDevice, NEW fd \in Fds, Open(p, dv, fd)
      PROVE  [Stream!Next]_(Stream!vars)
  BY <1>2, <1>4 DEF Open
<1>5. ASSUME NEW fd, Close(p, fd)
      PROVE  [Stream!Next]_(Stream!vars)
  BY <1>2, <1>5 DEF Close
<1>6. ASSUME NEW fd, NEW c \in Eofs, Ioctl(p, fd, c)
      PROVE  [Stream!Next]_(Stream!vars)
  BY <1>1, <1>6 DEF Ioctl, reqVars
<1>7. ASSUME NEW fd, NEW len \in Lens,
             ReadBlocks(p, fd, len) \/ ReadAfterEof(p, fd, len)
      PROVE  [Stream!Next]_(Stream!vars)
  <2>1. UNCHANGED <<ringVars, controller>> /\ text' = <<>>
    BY <1>7 DEF ReadBlocks, ReadAfterEof
  <2>2. size \in 0 .. BufLen /\ head \in 0 .. BufLen - 1 /\ 0 \in 0 .. size
    BY BufAssumption DEF IInv, TypeOK
  <2>3. Removed(size, 0)
    <3>1. head + 0 = head /\ size - 0 = size
      BY <2>2
    <3>2. head % BufLen = head
      BY <2>2, ModCases
    <3> QED BY <2>1, <3>1, <3>2 DEF Removed, ringVars
  <2>4. text' = SubSeq(Stored, 1, 0)
    BY <2>1, SubSeqEmpty
  <2> QED BY <2>1, <2>2, <2>3, <2>4, MoveCalled DEF IInv, ringVars
<1>8. ASSUME NEW fd, NEW len \in Lens, ReadReturns(p, fd, len)
      PROVE  [Stream!Next]_(Stream!vars)
  <2>1. PICK k \in 1 .. size :
          text' = Copied(<<>>, Stored, k) /\ Removed(size, k)
    BY <1>8 DEF ReadReturns
  <2>2. k \in 0 .. size /\ UNCHANGED <<kb_buf, controller>>
    BY <1>8 DEF ReadReturns
  <2> DEFINE m == IF Stored[k] = eof THEN k - 1 ELSE k
  <2>3. m \in {k - 1, k}
    OBVIOUS
  <2>4. text' = SubSeq(Stored, 1, m)
    <3>1. Stored \in Seq(Nat) /\ Len(Stored) = size /\ m \in Nat /\ m <= size
      BY StoredFacts DEF IInv, TypeOK
    <3>2. SubSeq(Stored, 1, m) \in Seq(Nat)
      BY <3>1, Slices
    <3>3. text' = <<>> \o SubSeq(Stored, 1, m)
      BY <2>1 DEF Copied
    <3> QED BY <3>2, <3>3, ConcatEmptySeq
  <2> HIDE DEF m
  <2> QED BY <2>1, <2>2, <2>3, <2>4, MoveCalled DEF IInv
<1>9. ASSUME NEW fd, NEW len \in Lens, ReadAborts(p, fd, len)
      PROVE  [Stream!Next]_(Stream!vars)
  <2>1. CASE owner # p
    BY <1>1, <1>9, <2>1 DEF ReadAborts, reqVars
  <2>2. CASE owner = p
    <3>1. /\ text' = Stored /\ Removed(size, size)
          /\ UNCHANGED <<kb_buf, controller>>
      BY <1>9, <2>2 DEF ReadAborts
    <3>2. size \in 0 .. size /\ size \in {size - 1, size}
      BY DEF IInv, TypeOK
    <3>3. text' = SubSeq(Stored, 1, size)
      BY <3>1, StoredFacts, SubSeqFull DEF IInv
    <3> QED BY <3>1, <3>2, <3>3, MoveCalled DEF IInv
  <2> QED BY <2>1, <2>2
<1>10. ASSUME Stop(p)
       PROVE  [Stream!Next]_(Stream!vars)
  <2>1. UNCHANGED <<kb_buf, controller>>
    BY <1>10 DEF Stop
  <2>2. CASE \E fd \in Fds : opened_dv[p][fd] # None
    <3>1. Reset(None)
      BY <1>10, <2>2 DEF Stop
    <3> QED BY <1>2, <2>1, <3>1
  <2>3. CASE ~ \E fd \in Fds : opened_dv[p][fd] # None
    BY <1>1, <1>10, <2>1, <2>3 DEF Stop, ringVars, reqVars
  <2> QED BY <2>2, <2>3
<1>11. ASSUME NEW q \in Procs, Create(p, q)
       PROVE  [Stream!Next]_(Stream!vars)
  BY <1>1, <1>11 DEF Create, reqVars
<1> USE DEF Requested
<1>12. CASE \E dv \in -1 .. NumDevice :
              OpenFails(p, dv) \/ \E fd \in Fds : Open(p, dv, fd)
  BY <1>3, <1>4, <1>12 DEF OpenFails
<1>13. CASE \E fd \in -1 .. NumFd :
              \/ Close(p, fd)
              \/ CloseFails(p, fd)
              \/ ReadFails(p, fd)
              \/ \E c \in Eofs : Ioctl(p, fd, c)
  BY <1>3, <1>5, <1>6, <1>13 DEF CloseFails, ReadFails
<1>14. CASE \E fd \in -1 .. NumFd, len \in Lens :
              \/ ReadBlocks(p, fd, len)
              \/ ReadAfterEof(p, fd, len)
              \/ ReadReturns(p, fd, len)
              \/ ReadAborts(p, fd, len)
  BY <1>7, <1>8, <1>9, <1>14
<1>15. CASE Write(p) \/ IoctlFails(p)
  BY <1>3, <1>15 DEF Write, IoctlFails
<1>16. CASE Stop(p) \/ \E q \in Procs : Create(p, q)
  BY <1>10, <1>11, <1>16
<1> QED BY <1>12, <1>13, <1>14, <1>15, <1>16

LEMMA KeyImplements ==
  ASSUME IInv, keyboard_lower
  PROVE  [Stream!Next]_(Stream!vars)
<1> DEFINE n == Len(Available)
<1>1. Receives /\ TypeOK
  BY DEF keyboard_lower, KeyStored, KeyCopied, KeyEnds, IInv
<1>2. /\ Available \in Seq(Nat) /\ n \in Nat /\ DOMAIN Available = 1 .. n
      /\ text \in Seq(Nat)
  BY <1>1, AvailableFacts, LenProperties DEF TypeOK
<1>3. CASE KeyStored
  <2>1. text' = text /\ Removed(n, 0)
    BY <1>3 DEF KeyStored
  <2>2. text' = text \o SubSeq(Available, 1, 0)
    BY <1>2, <2>1, SubSeqEmpty, ConcatEmptySeq
  <2>3. 0 \in 0 .. n /\ 0 \in {0 - 1, 0}
    BY <1>2
  <2> QED BY <1>1, <2>1, <2>2, <2>3, MoveTyped DEF Stream!Next
<1>4. CASE KeyCopied
  <2>1. text' = text \o Available /\ Removed(n, n)
    BY <1>4 DEF KeyCopied
  <2>2. text' = text \o SubSeq(Available, 1, n)
    BY <1>2, <2>1, SubSeqFull
  <2>3. n \in 0 .. n /\ n \in {n - 1, n}
    BY <1>2
  <2> QED BY <1>1, <2>1, <2>2, <2>3, MoveTyped DEF Stream!Next
<1>5. CASE KeyEnds
  <2>1. PICK k \in 1 .. n : text' = Copied(text, Available, k) /\ Removed(n, k)
    BY <1>2, <1>5 DEF KeyEnds
  <2> DEFINE m == IF Available[k] = eof THEN k - 1 ELSE k
  <2>2. m \in {k - 1, k} /\ k \in 0 .. n
    BY <1>2
  <2>3. text' = text \o SubSeq(Available, 1, m)
    BY <2>1 DEF Copied
  <2> HIDE DEF m
  <2> QED BY <1>1, <2>1, <2>2, <2>3, MoveTyped DEF Stream!Next
<1> QED BY <1>3, <1>4, <1>5 DEF keyboard_lower

\* The driver implements KeyStream: characters reach the programs in the order in
\* which they were typed, none of them twice, and one is dropped only when the
\* ring is full or the keyboard is opened or closed.
THEOREM CharactersInOrder == Spec => StreamInOrder
<1>1. Init => Stream!Init
  BY DEF Init, Stream!Init, Stored
<1>2. IInv /\ [Next]_vars => [Stream!Next]_(Stream!vars)
  <2> SUFFICES ASSUME IInv, [Next]_vars PROVE [Stream!Next]_(Stream!vars)
    OBVIOUS
  <2>1. CASE \E p \in Procs : Requested(p)
    BY <2>1, CallImplements
  <2>2. CASE \E c \in Keys : Press(c)
    BY <2>2 DEF Press, ringVars, reqVars, Stored, Stream!Next, Stream!Type
  <2>3. CASE keyboard_lower
    BY <2>3, KeyImplements
  <2>4. CASE UNCHANGED vars
    BY <2>4 DEF vars, ringVars, reqVars, Stored, Stream!vars
  <2> QED BY <2>1, <2>2, <2>3, <2>4 DEF Next
<1> QED BY <1>1, <1>2, InitSafe, NextSafe, PTL DEF Spec, StreamInOrder, Stream!Spec

-----------------------------------------------------------------------------
(* Blocked readers.  Programs keep the default end of input here. *)

\* The end of input is only reached by way of the ring, which remembers it.
EofKnown == eof_reached \/ HasEof(Stored) => eof_in_buf

WInv == WaitsForKeys /\ EofKnown

\* If the owner is not blocked then nobody is.
LEMMA NobodyReads ==
  ASSUME WaitsForKeys, NEW p, state[p] # "READING", owner = p
  PROVE  \A r \in Procs : state[r] # "READING"
  BY DEF WaitsForKeys

\* Positions in what is left of a sequence of n elements without the first k.
LEMMA Shifted ==
  ASSUME NEW n \in Nat, NEW k \in 0 .. n,
         NEW l, l = IF k + 1 <= n THEN n - (k + 1) + 1 ELSE 0, NEW i \in 1 .. l
  PROVE  k + 1 + i - 1 \in 1 .. n
  OBVIOUS

\* What is left of q contains an end of input only if q does.
LEMMA SuffixEof ==
  ASSUME TypeOK, NEW q \in Seq(Nat), NEW k \in 0 .. Len(q),
         Stored' = SubSeq(q, k + 1, Len(q)), eof' = eof, HasEof(Stored)'
  PROVE  HasEof(q)
<1> DEFINE r == SubSeq(q, k + 1, Len(q))
<1>1. /\ r \in Seq(Nat) /\ Len(q) \in Nat
      /\ Len(r) = IF k + 1 <= Len(q) THEN Len(q) - (k + 1) + 1 ELSE 0
      /\ \A i \in 1 .. Len(r) : r[i] = q[k + 1 + i - 1]
  BY SuffixIs, LenProperties
<1> HIDE DEF r
<1>2. PICK i \in DOMAIN r : r[i] = eof
  BY DEF HasEof, r
<1>3. i \in 1 .. Len(r) /\ k + 1 + i - 1 \in 1 .. Len(q)
  <2>1. DOMAIN r = 1 .. Len(r)
    BY <1>1, LenProperties
  <2>2. i \in 1 .. Len(r)
    BY <1>2, <2>1
  <2>3. Len(q) \in Nat /\ Len(r) = IF k + 1 <= Len(q) THEN Len(q) - (k + 1) + 1 ELSE 0
    BY <1>1, Zenon
  <2> QED BY <2>2, <2>3, Shifted
<1>4. q[k + 1 + i - 1] = eof
  BY <1>1, <1>2, <1>3
<1> QED BY <1>3, <1>4, LenProperties DEF HasEof

\* An end of input that is available was stored before or has just come.
LEMMA AvailableEof ==
  ASSUME TypeOK, HasEof(Available)
  PROVE  HasEof(Stored) \/ HasEof(Fetched)
<1>1. /\ Stored \in Seq(Nat) /\ Fetched \in Seq(Nat)
      /\ Len(Stored) \in Nat /\ Len(Fetched) \in Nat
      /\ DOMAIN Available = 1 .. Len(Stored) + Len(Fetched)
  BY StoredFacts, FetchedFacts, AvailableFacts, LenProperties
<1>2. PICK i \in DOMAIN Available : Available[i] = eof
  BY DEF HasEof
<1>3. Available[i] = IF i <= Len(Stored) THEN Stored[i] ELSE Fetched[i - Len(Stored)]
  BY <1>1, <1>2, ConcatProperties DEF Available
<1>4. CASE i <= Len(Stored)
  <2>1. i \in DOMAIN Stored /\ Stored[i] = eof
    BY <1>1, <1>2, <1>3, <1>4, LenProperties
  <2> QED BY <2>1 DEF HasEof
<1>5. CASE i > Len(Stored)
  <2>1. i - Len(Stored) \in 1 .. Len(Fetched) /\ Fetched[i - Len(Stored)] = eof
    BY <1>1, <1>2, <1>3, <1>5
  <2>2. i - Len(Stored) \in DOMAIN Fetched
    BY <1>1, <2>1, LenProperties
  <2> QED BY <2>1, <2>2 DEF HasEof
<1> QED BY <1>1, <1>2, <1>4, <1>5

LEMMA WaitInit == Init => WInv
<1> SUFFICES ASSUME Init PROVE WInv
  OBVIOUS
<1>1. WaitsForKeys
  BY DEF Init, WaitsForKeys
<1>2. ~eof_reached /\ size = 0
  BY DEF Init
<1>3. DOMAIN Stored = {}
  BY <1>2 DEF Stored
<1> QED BY <1>1, <1>2, <1>3 DEF WInv, EofKnown, HasEof

\* Calls that leave the driver alone.
LEMMA WaitSame ==
  ASSUME WInv, UNCHANGED <<ringVars, text, buf_len, statusVars>>,
         \A r \in Procs : state'[r] = "READING" => state[r] = "READING"
  PROVE  WInv'
<1>1. WaitsForKeys'
  BY DEF WInv, WaitsForKeys, Unfulfilled, statusVars
<1>2. EofKnown'
  BY DEF WInv, EofKnown, HasEof, Stored, statusVars, ringVars
<1> QED BY <1>1, <1>2 DEF WInv

\* Opening and closing, when nobody is blocked.
LEMMA WaitReset ==
  ASSUME NEW p, Reset(p), \A r \in Procs : state'[r] # "READING"
  PROVE  WInv'
<1>1. WaitsForKeys'
  BY DEF WaitsForKeys
<1>2. ~eof_reached' /\ size' = 0
  BY DEF Reset
<1>3. (DOMAIN Stored)' = {}
  BY <1>2 DEF Stored
<1> QED BY <1>1, <1>2, <1>3 DEF WInv, EofKnown, HasEof

LEMMA WaitRequested ==
  ASSUME Eofs = {}, IInv, WInv, NEW p \in Procs, Requested(p)
  PROVE  WInv'
<1>1. ASSUME Fails(p) PROVE WInv'
  BY <1>1, WaitSame DEF Fails, reqVars
<1>2. ASSUME NEW dv, NEW fd, Open(p, dv, fd) PROVE WInv'
  <2>1. Reset(p) /\ state' = state /\ owner = None
    BY <1>2 DEF Open
  <2>2. \A r \in Procs : state[r] # "READING"
    BY <2>1, NoneIsNothing DEF WInv, WaitsForKeys
  <2> QED BY <2>1, <2>2, WaitReset
<1>3. ASSUME NEW fd, Close(p, fd) PROVE WInv'
  <2>1. Reset(None) /\ state' = state /\ state[p] # "READING"
    BY <1>3 DEF Close, Calls
  <2>2. owner = p
    BY <1>3 DEF Close, IInv, Exclusive
  <2>3. \A r \in Procs : state[r] # "READING"
    BY <2>1, <2>2, NobodyReads DEF WInv
  <2> QED BY <2>1, <2>3, WaitReset
<1>4. ASSUME Stop(p) PROVE WInv'
  <2>1. state' = [state EXCEPT ![p] = "STOPPED"] /\ state[p] # "READING"
        /\ state \in [Procs -> {"STOPPED", "READY", "READING"}]
    BY <1>4 DEF Stop, Calls, IInv, TypeOK
  <2>2. CASE \E fd \in Fds : opened_dv[p][fd] # None
    <3>1. Reset(None)
      BY <1>4, <2>2 DEF Stop
    <3>2. owner = p
      BY <2>2 DEF IInv, Exclusive
    <3>3. \A r \in Procs : state[r] # "READING"
      BY <2>1, <3>2, NobodyReads DEF WInv
    <3>4. \A r \in Procs : state'[r] # "READING"
      BY <2>1, <3>3
    <3> QED BY <3>1, <3>4, WaitReset
  <2>3. CASE ~ \E fd \in Fds : opened_dv[p][fd] # None
    <3>1. UNCHANGED <<ringVars, text, buf_len, statusVars>>
      BY <1>4, <2>3 DEF Stop, ringVars, reqVars, statusVars
    <3>2. \A r \in Procs : state'[r] = "READING" => state[r] = "READING"
      BY <2>1
    <3> QED BY <3>1, <3>2, WaitSame
  <2> QED BY <2>2, <2>3
<1>5. ASSUME NEW q \in Procs, Create(p, q) PROVE WInv'
  <2>1. \A r \in Procs : state'[r] = "READING" => state[r] = "READING"
    BY <1>5 DEF Create, IInv, TypeOK
  <2> QED BY <1>5, <2>1, WaitSame DEF Create, reqVars
<1>6. ASSUME NEW fd, NEW len \in Lens, ReadBlocks(p, fd, len) PROVE WInv'
  <2>1. /\ ~eof_in_buf /\ size < len /\ text' = <<>> /\ buf_len' = len
        /\ owner = p /\ state[p] # "READING"
        /\ state' = [state EXCEPT ![p] = "READING"]
        /\ UNCHANGED <<ringVars, statusVars>>
    BY <1>6 DEF ReadBlocks, Requests, Calls
  <2>2. EofKnown' /\ ~eof_reached'
    BY <2>1 DEF WInv, EofKnown, HasEof, Stored, statusVars, ringVars
  <2>3. \A r \in Procs : state'[r] = "READING" => r = p
    BY <2>1, NobodyReads DEF WInv, IInv, TypeOK
  <2>4. Len(text') < buf_len'
    BY <2>1, EmptySeq, LenAssumption DEF IInv, TypeOK
  <2> QED BY <2>1, <2>2, <2>3, <2>4 DEF WInv, WaitsForKeys, Unfulfilled, statusVars
<1>7. ASSUME NEW fd, NEW len \in Lens, ReadAfterEof(p, fd, len) PROVE WInv'
  <2>1. /\ owner = p /\ state[p] # "READING" /\ state' = state
        /\ UNCHANGED <<ringVars, statusVars>>
    BY <1>7 DEF ReadAfterEof, Requests, Calls
  <2>2. EofKnown'
    BY <2>1 DEF WInv, EofKnown, HasEof, Stored, statusVars, ringVars
  <2>3. \A r \in Procs : state[r] # "READING"
    BY <2>1, NobodyReads DEF WInv
  <2> QED BY <2>1, <2>2, <2>3 DEF WInv, WaitsForKeys
<1>8. ASSUME NEW fd, NEW len \in Lens, Requests(p, fd, len), state' = state,
             NEW k \in 0 .. size, Removed(size, k), UNCHANGED <<kb_buf, eof, eof_in_buf>>,
             eof_reached' => eof_reached \/ HasEof(Stored)
      PROVE  WInv'
  <2>1. owner = p /\ state[p] # "READING"
    BY <1>8 DEF Requests, Calls
  <2>2. \A r \in Procs : state[r] # "READING"
    BY <2>1, NobodyReads DEF WInv
  <2>3. /\ Stored \in Seq(Nat) /\ Len(Stored) = size /\ size <= BufLen
    BY StoredFacts, BufAssumption DEF IInv, TypeOK
  <2>4. \A j \in 1 .. size : kb_buf'[(head + j - 1) % BufLen] = Stored[j]
    BY <1>8 DEF Stored
  <2>5. Stored' = SubSeq(Stored, k + 1, Len(Stored))
    BY <1>8, <2>3, <2>4, RingTake DEF IInv
  <2>6. HasEof(Stored)' => HasEof(Stored)
    BY <1>8, <2>3, <2>5, SuffixEof DEF IInv
  <2>7. EofKnown'
    BY <1>8, <2>6 DEF WInv, EofKnown
  <2> QED BY <1>8, <2>2, <2>7 DEF WInv, WaitsForKeys
<1>9. ASSUME NEW fd, NEW len \in Lens, ReadReturns(p, fd, len) PROVE WInv'
  <2>1. PICK k \in 1 .. size : Removed(size, k) /\ eof_reached' = (Stored[k] = eof)
    BY <1>9 DEF ReadReturns
  <2>2. /\ Requests(p, fd, len) /\ state' = state /\ k \in 0 .. size
        /\ UNCHANGED <<kb_buf, eof, eof_in_buf>>
    BY <1>9 DEF ReadReturns
  <2>3. eof_reached' => HasEof(Stored)
    BY <2>1, StoredFacts DEF HasEof, IInv
  <2> QED BY <1>8, <2>1, <2>2, <2>3
<1>10. ASSUME NEW fd, NEW len \in Lens, ReadAborts(p, fd, len) PROVE WInv'
  <2>1. CASE owner # p
    BY <1>10, <2>1, WaitSame DEF ReadAborts, procVars, reqVars
  <2>2. CASE owner = p
    <3>1. /\ Requests(p, fd, len) /\ state' = state /\ Removed(size, size)
          /\ UNCHANGED <<kb_buf, eof, eof_in_buf, eof_reached>>
      BY <1>10, <2>2 DEF ReadAborts, procVars, statusVars
    <3>2. size \in 0 .. size
      BY DEF IInv, TypeOK
    <3> QED BY <1>8, <3>1, <3>2
  <2> QED BY <2>1, <2>2
<1> USE DEF Requested
<1>11. CASE \E dv \in -1 .. NumDevice :
              OpenFails(p, dv) \/ \E fd \in Fds : Open(p, dv, fd)
  BY <1>1, <1>2, <1>11 DEF OpenFails
<1>12. CASE \E fd \in -1 .. NumFd :
              \/ Close(p, fd)
              \/ CloseFails(p, fd)
              \/ ReadFails(p, fd)
  BY <1>1, <1>3, <1>12 DEF CloseFails, ReadFails
<1>13. CASE \E fd \in -1 .. NumFd, len \in Lens :
              \/ ReadBlocks(p, fd, len)
              \/ ReadAfterEof(p, fd, len)
              \/ ReadReturns(p, fd, len)
              \/ ReadAborts(p, fd, len)
  BY <1>6, <1>7, <1>9, <1>10, <1>13
<1>14. CASE Write(p) \/ IoctlFails(p)
  BY <1>1, <1>14 DEF Write, IoctlFails
<1>15. CASE Stop(p) \/ \E q \in Procs : Create(p, q)
  BY <1>4, <1>5, <1>15
<1> QED BY <1>11, <1>12, <1>13, <1>14, <1>15

LEMMA WaitKeys ==
  ASSUME IInv, WInv, keyboard_lower
  PROVE  WInv'
<1> DEFINE n == Len(Available)
<1>1. Receives /\ TypeOK
  BY DEF keyboard_lower, KeyStored, KeyCopied, KeyEnds, IInv
<1>2. /\ Available \in Seq(Nat) /\ n \in Nat /\ DOMAIN Available = 1 .. n
      /\ n <= BufLen /\ Len(text) \in Nat /\ text \in Seq(Nat)
  BY <1>1, AvailableFacts, LenProperties DEF TypeOK
<1>3. /\ eof_in_buf' = (eof_in_buf \/ HasEof(Fetched))
      /\ UNCHANGED <<buf_len, owner, eof>>
  BY <1>1 DEF Receives
<1>4. ASSUME NEW k \in 0 .. n, Removed(n, k),
             eof_reached' => eof_reached \/ HasEof(Available)
      PROVE  EofKnown'
  <2>1. Stored' = SubSeq(Available, k + 1, n)
    BY <1>1, <1>2, <1>4, ReceivedRing, RingTake
  <2>2. HasEof(Stored)' => HasEof(Available)
    BY <1>1, <1>2, <1>3, <2>1, SuffixEof
  <2>3. HasEof(Available) => HasEof(Stored) \/ HasEof(Fetched)
    BY <1>1, AvailableEof
  <2> QED BY <1>3, <1>4, <2>2, <2>3 DEF WInv, EofKnown
<1>5. CASE KeyStored
  <2>1. Removed(n, 0) /\ UNCHANGED <<text, eof_reached, state>> /\ 0 \in 0 .. n
    BY <1>2, <1>5 DEF KeyStored
  <2>2. EofKnown'
    BY <1>4, <2>1
  <2> QED BY <1>3, <2>1, <2>2 DEF WInv, WaitsForKeys, Unfulfilled
<1>6. CASE KeyCopied
  <2>1. /\ Removed(n, n) /\ UNCHANGED <<eof_reached, state>> /\ n \in 0 .. n
        /\ text' = text \o Available /\ Unfulfilled /\ Drains(text, Available)
    BY <1>2, <1>6 DEF KeyCopied
  <2>2. EofKnown'
    BY <1>4, <2>1
  <2>3. Len(text') = Len(text) + n
    BY <1>2, <2>1, ConcatProperties
  <2>4. Len(text) + n < buf_len
    <3>1. CASE n = 0
      BY <1>2, <2>1, <3>1 DEF Unfulfilled
    <3>2. CASE n > 0
      <4>1. ~Ends(Available[n], Len(text) + n)
        <5>1. n \in DOMAIN Available
          BY <1>2, <3>2
        <5>2. \A j \in DOMAIN Available : ~Ends(Available[j], Len(text) + j)
          BY <2>1, Zenon DEF Drains
        <5> QED BY <5>1, <5>2, Zenon
      <4>2. ~(Len(text) + n >= buf_len)
        BY <1>3, <4>1 DEF Ends
      <4> QED BY <1>1, <1>2, <4>2 DEF TypeOK
    <3> QED BY <1>2, <3>1, <3>2
  <2> QED BY <1>3, <2>1, <2>2, <2>3, <2>4 DEF WInv, WaitsForKeys, Unfulfilled
<1>7. CASE KeyEnds
  <2>1. PICK k \in 1 .. n :
          /\ Removed(n, k)
          /\ eof_reached' = (eof_reached \/ Available[k] = eof)
    BY <1>2, <1>7 DEF KeyEnds
  <2>2. k \in 0 .. n /\ (Available[k] = eof => HasEof(Available))
    BY <1>2 DEF HasEof
  <2>3. EofKnown'
    BY <1>4, <2>1, <2>2
  <2>4. state' = [state EXCEPT ![owner] = "READY"]
    BY <1>7 DEF KeyEnds
  <2>5. \A r \in Procs : state'[r] # "READING"
    BY <1>1, <2>4 DEF WInv, WaitsForKeys, TypeOK
  <2> QED BY <2>3, <2>5 DEF WInv, WaitsForKeys
<1> QED BY <1>5, <1>6, <1>7 DEF keyboard_lower

\* As long as programs keep the default end of input, a process that is blocked in
\* sysread has a request that the interrupt serves, and the input has not ended.
THEOREM ReadersAreServed ==
  ASSUME Eofs = {}
  PROVE  Spec => []WaitsForKeys
<1>1. IInv /\ WInv /\ [Next]_vars => WInv'
  <2> SUFFICES ASSUME IInv, WInv, [Next]_vars PROVE WInv'
    OBVIOUS
  <2>1. CASE \E p \in Procs : Requested(p)
    BY <2>1, WaitRequested
  <2>2. CASE \E c \in Keys : Press(c)
    BY <2>2, WaitSame DEF Press, procVars, reqVars
  <2>3. CASE keyboard_lower
    BY <2>3, WaitKeys
  <2>4. CASE UNCHANGED vars
    BY <2>4, WaitSame DEF vars, procVars, reqVars
  <2> QED BY <2>1, <2>2, <2>3, <2>4 DEF Next
<1>2. WInv => WaitsForKeys
  BY DEF WInv
<1> QED BY <1>1, <1>2, InitSafe, NextSafe, WaitInit, PTL DEF Spec

-----------------------------------------------------------------------------
(* The driver does not abort.  Programs keep the default end of input here, and
   read at least one character. *)

\* The ring remembers no end of input but one that it holds or has given out.
EofFound == eof_in_buf => eof_reached \/ HasEof(Stored)

HInv == NeverAborts /\ EofFound

\* What is left of q without the first k still has the end of input.
LEMMA SuffixKeepsEof ==
  ASSUME NEW q \in Seq(Nat), NEW k \in 0 .. Len(q),
         Stored' = SubSeq(q, k + 1, Len(q)), eof' = eof, HasEof(q),
         \A j \in 1 .. k : q[j] # eof
  PROVE  HasEof(Stored)'
<1> DEFINE r == SubSeq(q, k + 1, Len(q))
<1>1. /\ r \in Seq(Nat) /\ Len(q) \in Nat
      /\ Len(r) = IF k + 1 <= Len(q) THEN Len(q) - (k + 1) + 1 ELSE 0
      /\ \A i \in 1 .. Len(r) : r[i] = q[k + 1 + i - 1]
  BY SuffixIs, LenProperties
<1>2. PICK i \in 1 .. Len(q) : q[i] = eof
  BY LenProperties DEF HasEof
<1>3. i > k
  BY <1>1, <1>2
<1> HIDE DEF r
<1>4. i - k \in 1 .. Len(r) /\ k + 1 + (i - k) - 1 = i
  BY <1>1, <1>2, <1>3
<1>5. r[i - k] = eof
  BY <1>1, <1>2, <1>4
<1>6. i - k \in DOMAIN r
  BY <1>1, <1>4, LenProperties
<1>7. HasEof(Stored)' <=> \E j \in DOMAIN r : r[j] = eof
  BY DEF HasEof, r
<1> QED BY <1>5, <1>6, <1>7

\* What was stored or has just come is available.
LEMMA AvailableHasEof ==
  ASSUME TypeOK, HasEof(Stored) \/ HasEof(Fetched)
  PROVE  HasEof(Available)
<1>1. /\ Stored \in Seq(Nat) /\ Fetched \in Seq(Nat)
      /\ Len(Stored) \in Nat /\ Len(Fetched) \in Nat
      /\ DOMAIN Available = 1 .. Len(Stored) + Len(Fetched)
  BY StoredFacts, FetchedFacts, AvailableFacts, LenProperties
<1>2. \A i \in 1 .. Len(Stored) + Len(Fetched) :
        Available[i] = IF i <= Len(Stored) THEN Stored[i] ELSE Fetched[i - Len(Stored)]
  BY <1>1, ConcatProperties DEF Available
<1>3. CASE HasEof(Stored)
  <2>1. PICK i \in 1 .. Len(Stored) : Stored[i] = eof
    BY <1>1, <1>3, LenProperties DEF HasEof
  <2>2. i \in 1 .. Len(Stored) + Len(Fetched) /\ Available[i] = eof
    BY <1>1, <1>2, <2>1
  <2> QED BY <1>1, <2>2 DEF HasEof
<1>4. CASE HasEof(Fetched)
  <2>1. PICK i \in 1 .. Len(Fetched) : Fetched[i] = eof
    BY <1>1, <1>4, LenProperties DEF HasEof
  <2>2. /\ Len(Stored) + i \in 1 .. Len(Stored) + Len(Fetched)
        /\ ~(Len(Stored) + i <= Len(Stored)) /\ Len(Stored) + i - Len(Stored) = i
    BY <1>1, <2>1
  <2>3. Available[Len(Stored) + i] = eof
    BY <1>2, <2>1, <2>2
  <2> QED BY <1>1, <2>2, <2>3 DEF HasEof
<1> QED BY <1>3, <1>4

\* Calls that leave the driver alone.
LEMMA AbortSame ==
  ASSUME HInv, UNCHANGED <<ringVars, statusVars, halted>>
  PROVE  HInv'
BY DEF HInv, NeverAborts, EofFound, HasEof, Stored, ringVars, statusVars

\* A finished read takes no end of input out of the ring that it does not report.
LEMMA AbortTaken ==
  ASSUME IInv, HInv, NEW p, NEW fd, NEW len, ReadReturns(p, fd, len)
  PROVE  HInv'
<1>1. PICK k \in 1 .. size :
        Completes(<<>>, Stored, k) /\ Removed(size, k) /\ eof_reached' = (Stored[k] = eof)
  BY DEF ReadReturns
<1>2. UNCHANGED <<kb_buf, eof, eof_in_buf, halted>> /\ ~eof_reached
  BY DEF ReadReturns
<1>3. /\ Stored \in Seq(Nat) /\ Len(Stored) = size /\ size <= BufLen /\ size \in Nat
  BY StoredFacts, BufAssumption DEF IInv, TypeOK
<1>4. \A j \in 1 .. size : kb_buf'[(head + j - 1) % BufLen] = Stored[j]
  BY <1>2 DEF Stored
<1>5. k \in 0 .. Len(Stored)
  BY <1>3
<1>6. Stored' = SubSeq(Stored, k + 1, Len(Stored))
  BY <1>1, <1>3, <1>4, <1>5, RingTake DEF IInv
<1>7. \A j \in 1 .. k - 1 : Stored[j] # eof
  <2>1. \A j \in 1 .. k - 1 : ~Ends(Stored[j], Len(<<>>) + j)
    BY <1>1, Zenon DEF Completes
  <2> QED BY <2>1 DEF Ends
<1>8. Stored[k] # eof => \A j \in 1 .. k : Stored[j] # eof
  BY <1>3, <1>7
<1>9. HasEof(Stored) /\ Stored[k] # eof => HasEof(Stored)'
  BY <1>2, <1>3, <1>5, <1>6, <1>8, SuffixKeepsEof
<1> QED BY <1>1, <1>2, <1>9 DEF HInv, NeverAborts, EofFound

\* There is always a reason to stop copying.
LEMMA NoAbort ==
  ASSUME 0 \notin Lens, IInv, HInv, NEW p \in Procs, NEW fd, NEW len \in Lens,
         ReadAborts(p, fd, len)
  PROVE  FALSE
<1>1. fd \in Fds /\ opened_dv[p][fd] # None
  BY FdAssumption DEF ReadAborts, Valid, NumDevice, Fds
<1>2. owner = p
  BY <1>1 DEF IInv, Exclusive
<1>3. /\ Requests(p, fd, len) /\ (eof_in_buf \/ size >= len) /\ ~eof_reached
      /\ Drains(<<>>, Stored)
  BY <1>2 DEF ReadAborts
<1>4. /\ DOMAIN Stored = 1 .. size /\ size \in Nat /\ len \in Nat /\ len > 0
      /\ buf_len' = len
  BY <1>3, StoredFacts, LenAssumption DEF IInv, TypeOK, Requests
<1>5. \A j \in DOMAIN Stored : ~Ends(Stored[j], Len(<<>>) + j)
  BY <1>3, Zenon DEF Drains
<1>6. \A j \in 1 .. size : Stored[j] # eof /\ ~(Len(<<>>) + j >= len)
  BY <1>4, <1>5 DEF Ends
<1>7. CASE eof_in_buf
  BY <1>3, <1>4, <1>6, <1>7 DEF HInv, EofFound, HasEof
<1>8. CASE size >= len
  <2>1. Len(<<>>) = 0
    BY EmptySeq
  <2>2. size \in 1 .. size /\ Len(<<>>) + size >= len
    BY <1>4, <1>8, <2>1
  <2> QED BY <1>6, <2>2
<1> QED BY <1>3, <1>7, <1>8

LEMMA AbortRequested ==
  ASSUME Eofs = {}, 0 \notin Lens, IInv, HInv, NEW p \in Procs, Requested(p)
  PROVE  HInv'
<1>1. ASSUME Fails(p) PROVE HInv'
  BY <1>1, AbortSame DEF Fails
<1>2. ASSUME NEW q, Reset(q), halted' = halted PROVE HInv'
  BY <1>2 DEF Reset, HInv, NeverAborts, EofFound
<1>3. ASSUME NEW q \in Procs, Create(p, q) PROVE HInv'
  BY <1>3, AbortSame DEF Create
<1>4. ASSUME Stop(p) PROVE HInv'
  <2>1. CASE \E fd \in Fds : opened_dv[p][fd] # None
    BY <1>2, <1>4, <2>1 DEF Stop
  <2>2. CASE ~ \E fd \in Fds : opened_dv[p][fd] # None
    BY <1>4, <2>2, AbortSame DEF Stop, ringVars, statusVars
  <2> QED BY <2>1, <2>2
<1> USE DEF Requested
<1>5. CASE \E dv \in -1 .. NumDevice :
              OpenFails(p, dv) \/ \E fd \in Fds : Open(p, dv, fd)
  BY <1>1, <1>2, <1>5 DEF OpenFails, Open
<1>6. CASE \E fd \in -1 .. NumFd :
              \/ Close(p, fd)
              \/ CloseFails(p, fd)
              \/ ReadFails(p, fd)
  BY <1>1, <1>2, <1>6 DEF CloseFails, ReadFails, Close
<1>7. CASE \E fd \in -1 .. NumFd, len \in Lens :
              \/ ReadBlocks(p, fd, len)
              \/ ReadAfterEof(p, fd, len)
  BY <1>7, AbortSame DEF ReadBlocks, ReadAfterEof
<1>8. CASE \E fd \in -1 .. NumFd, len \in Lens :
              \/ ReadReturns(p, fd, len)
              \/ ReadAborts(p, fd, len)
  BY <1>8, AbortTaken, NoAbort
<1>9. CASE Write(p) \/ IoctlFails(p)
  BY <1>1, <1>9 DEF Write, IoctlFails
<1>10. CASE Stop(p) \/ \E q \in Procs : Create(p, q)
  BY <1>3, <1>4, <1>10
<1> QED BY <1>5, <1>6, <1>7, <1>8, <1>9, <1>10

LEMMA AbortKeys ==
  ASSUME IInv, HInv, keyboard_lower
  PROVE  HInv'
<1> DEFINE n == Len(Available)
<1>1. Receives /\ TypeOK
  BY DEF keyboard_lower, KeyStored, KeyCopied, KeyEnds, IInv
<1>2. /\ Available \in Seq(Nat) /\ n \in Nat /\ DOMAIN Available = 1 .. n
      /\ n <= BufLen
  BY <1>1, AvailableFacts, LenProperties
<1>3. /\ eof_in_buf' = (eof_in_buf \/ HasEof(Fetched))
      /\ UNCHANGED <<eof, halted>>
  BY <1>1 DEF Receives
<1>4. eof_in_buf' => eof_reached \/ HasEof(Available)
  <2>1. HasEof(Stored) \/ HasEof(Fetched) => HasEof(Available)
    BY <1>1, AvailableHasEof
  <2>2. eof_in_buf' => eof_in_buf \/ HasEof(Fetched)
    BY <1>3, Zenon
  <2>3. eof_in_buf => eof_reached \/ HasEof(Stored)
    BY DEF HInv, EofFound
  <2> QED BY <2>1, <2>2, <2>3, Zenon
<1>5. ASSUME NEW k \in 0 .. n, Removed(n, k), HasEof(Available),
             \A j \in 1 .. k : Available[j] # eof
      PROVE  HasEof(Stored)'
  <2>1. Stored' = SubSeq(Available, k + 1, n)
    BY <1>1, <1>2, <1>5, ReceivedRing, RingTake
  <2> QED BY <1>2, <1>3, <1>5, <2>1, SuffixKeepsEof
<1>6. CASE KeyStored
  <2>1. Removed(n, 0) /\ eof_reached' = eof_reached /\ 0 \in 0 .. n
    BY <1>2, <1>6 DEF KeyStored
  <2>2. \A j \in 1 .. 0 : Available[j] # eof
    OBVIOUS
  <2>3. HasEof(Available) => HasEof(Stored)'
    BY <1>5, <2>1, <2>2
  <2> QED BY <1>3, <1>4, <2>1, <2>3 DEF HInv, NeverAborts, EofFound
<1>7. CASE KeyCopied
  <2>1. eof_reached' = eof_reached /\ Drains(text, Available)
    BY <1>7 DEF KeyCopied
  <2>2. \A j \in DOMAIN Available : ~Ends(Available[j], Len(text) + j)
    BY <2>1, Zenon DEF Drains
  <2>3. ~HasEof(Available)
    BY <2>2 DEF Ends, HasEof
  <2> QED BY <1>3, <1>4, <2>1, <2>3 DEF HInv, NeverAborts, EofFound
<1>8. CASE KeyEnds
  <2>1. PICK k \in 1 .. n :
          /\ Completes(text, Available, k)
          /\ Removed(n, k)
          /\ eof_reached' = (eof_reached \/ Available[k] = eof)
    BY <1>2, <1>8 DEF KeyEnds
  <2>2. \A j \in 1 .. k - 1 : Available[j] # eof
    <3>1. \A j \in 1 .. k - 1 : ~Ends(Available[j], Len(text) + j)
      BY <2>1, Zenon DEF Completes
    <3> QED BY <3>1 DEF Ends
  <2>3. Available[k] # eof => \A j \in 1 .. k : Available[j] # eof
    BY <1>2, <2>2
  <2>4. k \in 0 .. n
    BY <1>2
  <2>5. HasEof(Available) /\ Available[k] # eof => HasEof(Stored)'
    BY <1>5, <2>1, <2>3, <2>4
  <2> QED BY <1>3, <1>4, <2>1, <2>5 DEF HInv, NeverAborts, EofFound
<1> QED BY <1>6, <1>7, <1>8 DEF keyboard_lower

\* As long as programs keep the default end of input and ask for at least one
\* character, the driver never comes to a state that it takes for impossible.
THEOREM DriverNeverAborts ==
  ASSUME Eofs = {}, 0 \notin Lens
  PROVE  Spec => []NeverAborts
<1>1. Init => HInv
  BY DEF Init, HInv, NeverAborts, EofFound
<1>2. IInv /\ HInv /\ [Next]_vars => HInv'
  <2> SUFFICES ASSUME IInv, HInv, [Next]_vars PROVE HInv'
    OBVIOUS
  <2>1. CASE \E p \in Procs : Requested(p)
    BY <2>1, AbortRequested
  <2>2. CASE \E c \in Keys : Press(c)
    BY <2>2, AbortSame DEF Press
  <2>3. CASE keyboard_lower
    BY <2>3, AbortKeys
  <2>4. CASE UNCHANGED vars
    BY <2>4, AbortSame DEF vars
  <2> QED BY <2>1, <2>2, <2>3, <2>4 DEF Next
<1>3. HInv => NeverAborts
  BY DEF HInv
<1> QED BY <1>1, <1>2, <1>3, InitSafe, NextSafe, PTL DEF Spec

-----------------------------------------------------------------------------
(* How reads end.  Nothing is assumed of programs here: they may change the end
   of input and read nothing. *)

\* What ends a read of n characters that has got t: the end of input (e), a line,
\* or that it has all.
Over(t, e, n) == e \/ (t # <<>> /\ Last(t) = NL) \/ Len(t) >= n

\* A copy that ends leaves the read over, and never with more than was asked.
LEMMA CompletesOver ==
  ASSUME NEW t \in Seq(Nat), NEW q \in Seq(Nat), NEW k \in DOMAIN q,
         buf_len' \in Nat, Completes(t, q, k)
  PROVE  /\ Over(Copied(t, q, k), q[k] = eof, buf_len')
         /\ Len(t) < buf_len' => Len(Copied(t, q, k)) <= buf_len'
<1> DEFINE c == Copied(t, q, k)
<1>1. k \in 1 .. Len(q) /\ Len(q) \in Nat /\ Len(t) \in Nat
  BY LenProperties
<1>2. c \in Seq(Nat) /\ Len(c) = Len(t) + (IF q[k] = eof THEN k - 1 ELSE k)
  BY CopiedFacts
<1>3. q[k] = eof \/ q[k] = NL \/ Len(t) + k >= buf_len'
  BY DEF Completes, Ends
<1>4. ASSUME q[k] # eof, q[k] = NL PROVE c # <<>> /\ Last(c) = NL
  <2>1. /\ SubSeq(q, 1, k) \in Seq(Nat) /\ Len(SubSeq(q, 1, k)) = k
        /\ SubSeq(q, 1, k)[k] = q[k]
    <3>1. /\ SubSeq(q, 1, k) \in Seq(Nat)
          /\ Len(SubSeq(q, 1, k)) = IF 1 <= k THEN k - 1 + 1 ELSE 0
          /\ \A i \in 1 .. Len(SubSeq(q, 1, k)) : SubSeq(q, 1, k)[i] = q[1 + i - 1]
      BY <1>1, Slices
    <3> QED BY <1>1, <3>1
  <2>2. PICK s \in Seq(Nat) : s = SubSeq(q, 1, k)
    BY <2>1
  <2>3. c = t \o s /\ Len(s) = k /\ s[k] = NL
    BY <1>4, <2>1, <2>2 DEF Copied
  <2>4. \A i \in 1 .. Len(t) + Len(s) :
          (t \o s)[i] = IF i <= Len(t) THEN t[i] ELSE s[i - Len(t)]
    BY ConcatProperties
  <2>5. /\ Len(t) + k \in 1 .. Len(t) + Len(s) /\ ~ (Len(t) + k <= Len(t))
        /\ (Len(t) + k) - Len(t) = k /\ Len(c) = Len(t) + k /\ Len(c) # 0
    BY <1>1, <1>2, <1>4, <2>3
  <2>6. c[Len(c)] = NL
    BY <2>3, <2>4, <2>5
  <2> QED BY <2>5, <2>6 DEF Last
<1>5. Over(c, q[k] = eof, buf_len')
  <2>1. q[k] # eof /\ q[k] # NL => Len(c) >= buf_len'
    BY <1>1, <1>2, <1>3
  <2> HIDE DEF c
  <2> QED BY <1>4, <2>1 DEF Over
<1>6. ASSUME Len(t) < buf_len' PROVE Len(c) <= buf_len'
  <2>1. Len(t) + k <= buf_len'
    <3>1. CASE k = 1
      BY <1>1, <1>6, <3>1
    <3>2. CASE k # 1
      <4>1. k - 1 \in 1 .. k - 1
        BY <1>1, <3>2
      <4>2. ~ (Len(t) + (k - 1) >= buf_len')
        BY <4>1 DEF Completes, Ends
      <4> QED BY <1>1, <4>2
    <3> QED BY <3>1, <3>2
  <2> HIDE DEF c
  <2> QED BY <1>1, <1>2, <2>1
<1> QED BY <1>5, <1>6

\* The interrupt that ends a read.
LEMMA KeyEndsOver ==
  ASSUME TypeOK, KeyEnds
  PROVE  /\ Over(text', eof_reached', buf_len') /\ buf_len' = buf_len
         /\ Len(text') <= buf_len
         /\ irc' = [irc EXCEPT ![owner] = Len(text')]
         /\ state' = [state EXCEPT ![owner] = "READY"]
         /\ owner' = owner /\ text' \in Seq(Nat)
<1>1. /\ text \in Seq(Nat) /\ Available \in Seq(Nat) /\ buf_len \in Nat
  BY AvailableFacts DEF TypeOK
<1>2. /\ buf_len' = buf_len /\ owner' = owner
      /\ Len(text) < buf_len'
  BY DEF KeyEnds, Receives, Unfulfilled
<1>3. PICK k \in DOMAIN Available :
        /\ Completes(text, Available, k)
        /\ text' = Copied(text, Available, k)
        /\ eof_reached' = (eof_reached \/ Available[k] = eof)
  BY DEF KeyEnds
<1>4. PICK q \in Seq(Nat) : q = Available
  BY <1>1
<1>5. /\ Over(text', q[k] = eof, buf_len')
      /\ Len(text') <= buf_len'
  BY <1>1, <1>2, <1>3, <1>4, CompletesOver
<1>6. Over(text', eof_reached', buf_len')
  BY <1>3, <1>4, <1>5 DEF Over
<1>7. text' \in Seq(Nat)
  BY <1>1, <1>3, CopiedFacts
<1> QED BY <1>2, <1>5, <1>6, <1>7 DEF KeyEnds, Returns

\* Only the interrupt ends a read that has blocked.
LEMMA ReaderReturns ==
  ASSUME IInv, [Next]_vars, NEW p \in Procs, state[p] = "READING",
         state'[p] # "READING"
  PROVE  KeyEnds /\ p = owner
<1>1. state \in [Procs -> {"STOPPED", "READY", "READING"}]
  BY DEF IInv, TypeOK
<1>2. ASSUME NEW q \in Procs, Requested(q) PROVE state'[p] = "READING"
  <2>1. q # p
    BY <1>2 DEF Requested, OpenFails, Open, Close, CloseFails, ReadFails, Ioctl,
         ReadBlocks, ReadAfterEof, ReadReturns, ReadAborts, Requests, Write,
         IoctlFails, Stop, Create, Calls
  <2>2. \/ state' = state
        \/ \E b : state' = [state EXCEPT ![q] = b]
        \/ \E r \in Procs : /\ state[r] = "STOPPED"
                            /\ state' = [state EXCEPT ![r] = "READY"]
    BY <1>2 DEF Requested, OpenFails, Open, Close, CloseFails, ReadFails, Ioctl,
         ReadBlocks, ReadAfterEof, ReadReturns, ReadAborts, Requests, Write,
         IoctlFails, Stop, Create, Calls, Fails, procVars
  <2> QED BY <1>1, <2>1, <2>2
<1>3. KeyEnds
  BY <1>2 DEF Next, Press, keyboard_lower, KeyStored, KeyCopied, procVars, vars
<1>4. owner = p
  BY <1>1, <1>3 DEF KeyEnds
<1> QED BY <1>3, <1>4

\* A blocked sysread returns the number of characters that it stored, not more
\* than it asked for, and ends only with the buffer, a line or the input.
THEOREM ReadsReturnWhatTheyGot == Spec => ReadResult
<1>1. ASSUME IInv, [Next]_vars
      PROVE  \A p \in Procs :
               state[p] = "READING" /\ state'[p] # "READING" =>
                 /\ irc'[p] = Len(text') /\ Len(text') <= buf_len
                 /\ \/ Len(text') = buf_len
                    \/ eof_reached'
                    \/ text' # <<>> /\ Last(text') = NL
  <2> SUFFICES ASSUME NEW p \in Procs, state[p] = "READING", state'[p] # "READING"
               PROVE  /\ irc'[p] = Len(text') /\ Len(text') <= buf_len
                      /\ \/ Len(text') = buf_len
                         \/ eof_reached'
                         \/ text' # <<>> /\ Last(text') = NL
    OBVIOUS
  <2>1. KeyEnds /\ p = owner
    BY <1>1, ReaderReturns
  <2>2. /\ Over(text', eof_reached', buf_len') /\ buf_len' = buf_len
        /\ Len(text') <= buf_len /\ text' \in Seq(Nat)
        /\ irc' = [irc EXCEPT ![owner] = Len(text')]
    BY <1>1, <2>1, KeyEndsOver DEF IInv
  <2>3. irc \in [Procs -> Int] /\ buf_len \in Nat /\ Len(text') \in Nat
    BY <1>1, <2>2, LenProperties DEF IInv, TypeOK
  <2>4. irc'[p] = Len(text')
    BY <2>1, <2>2, <2>3
  <2>5. Len(text') >= buf_len' => Len(text') = buf_len
    BY <2>2, <2>3
  <2> QED BY <2>2, <2>4, <2>5 DEF Over
<1> QED BY <1>1, InitSafe, NextSafe, PTL DEF Spec, ReadResult

-----------------------------------------------------------------------------
(* What the driver takes for a waiting read although nobody reads. *)

\* Whoever has the keyboard and is not blocked has had its last read cut short,
\* if the driver still takes it for unfulfilled.
CutShort ==
  owner # None /\ state[owner] # "READING" /\ Unfulfilled /\ ~halted =>
    eof_reached \/ NL \in Range(text)

\* A read that is over and still unfulfilled was cut.
LEMMA OverCut ==
  ASSUME NEW t \in Seq(Nat), NEW e, NEW n \in Nat, Over(t, e, n), Len(t) < n
  PROVE  e \/ NL \in Range(t)
<1>1. Len(t) \in Nat /\ DOMAIN t = 1 .. Len(t)
  BY LenProperties
<1>2. ASSUME t # <<>>, Last(t) = NL PROVE NL \in Range(t)
  <2>1. Len(t) # 0
    BY <1>2, EmptySeq
  <2>2. Len(t) \in DOMAIN t /\ t[Len(t)] = NL
    BY <1>1, <1>2, <2>1 DEF Last
  <2> QED BY <2>2 DEF Range
<1>3. ~ (Len(t) >= n)
  BY <1>1
<1> QED BY <1>2, <1>3 DEF Over

\* Requests and signs of the end that stay as they are.
LEMMA CutSame ==
  ASSUME CutShort,
         UNCHANGED <<owner, text, buf_len, eof_reached>>,
         owner # None => state'[owner] = "READING" \/ state[owner] # "READING",
         halted' = halted
  PROVE  CutShort'
  BY DEF CutShort, Unfulfilled

LEMMA CutReset ==
  ASSUME NEW p, Reset(p)
  PROVE  CutShort'
<1>1. text' = <<>> /\ buf_len' = 0
  BY DEF Reset
<1>2. ~ (Len(text') < buf_len')
  BY <1>1, EmptySeq
<1> QED BY <1>2 DEF CutShort, Unfulfilled

\* Calls: those that start a read either block or end it.
LEMMA CutRequested ==
  ASSUME IInv, CutShort, NEW p \in Procs, Requested(p)
  PROVE  CutShort'
<1>0. /\ state \in [Procs -> {"STOPPED", "READY", "READING"}]
      /\ owner \in Procs \cup {None}
  BY DEF IInv, TypeOK
<1>1. CASE Fails(p)
  BY <1>1, CutSame DEF Fails, reqVars, statusVars
<1>2. ASSUME NEW fd, NEW c, Ioctl(p, fd, c) PROVE CutShort'
  BY <1>2, CutSame DEF Ioctl, reqVars
<1>3. ASSUME NEW q \in Procs, Create(p, q) PROVE CutShort'
  <2>1. state' = [state EXCEPT ![q] = "READY"] /\ state[q] = "STOPPED"
    BY <1>3 DEF Create
  <2>2. owner # None => state'[owner] = "READING" \/ state[owner] # "READING"
    BY <1>0, <2>1
  <2> QED BY <1>3, <2>2, CutSame DEF Create, reqVars, statusVars
<1>4. CASE Stop(p)
  <2>1. CASE \E fd \in Fds : opened_dv[p][fd] # None
    BY <1>4, <2>1, CutReset DEF Stop
  <2>2. CASE ~ \E fd \in Fds : opened_dv[p][fd] # None
    <3>1. state' = [state EXCEPT ![p] = "STOPPED"] /\ state[p] = "READY"
      BY <1>4 DEF Stop, Calls
    <3>2. owner # None => state'[owner] = "READING" \/ state[owner] # "READING"
      BY <1>0, <3>1
    <3> QED BY <1>4, <2>2, <3>2, CutSame DEF Stop, reqVars
  <2> QED BY <2>1, <2>2
<1>5. ASSUME NEW dv, NEW fd, Open(p, dv, fd) PROVE CutShort'
  BY <1>5, CutReset DEF Open
<1>6. ASSUME NEW fd, Close(p, fd) PROVE CutShort'
  BY <1>6, CutReset DEF Close
<1>7. ASSUME NEW fd, NEW len \in Lens, ReadBlocks(p, fd, len) PROVE CutShort'
  <2>1. owner' = p /\ state' = [state EXCEPT ![p] = "READING"]
    BY <1>7 DEF ReadBlocks, Requests, statusVars
  <2> QED BY <1>0, <2>1 DEF CutShort
<1>8. ASSUME NEW fd, NEW len \in Lens, ReadAfterEof(p, fd, len) PROVE CutShort'
  BY <1>8 DEF ReadAfterEof, CutShort, statusVars
<1>9. ASSUME NEW fd, NEW len \in Lens, ReadReturns(p, fd, len) PROVE CutShort'
  <2>1. buf_len' \in Nat
    BY <1>9, RequestTypes DEF ReadReturns
  <2>2. Stored \in Seq(Nat) /\ DOMAIN Stored = 1 .. size
    BY StoredFacts DEF IInv
  <2>3. PICK k \in 1 .. size :
          /\ Completes(<<>>, Stored, k)
          /\ text' = Copied(<<>>, Stored, k)
          /\ eof_reached' = (Stored[k] = eof)
    BY <1>9 DEF ReadReturns
  <2>4. PICK q \in Seq(Nat), t \in Seq(Nat) : q = Stored /\ t = <<>>
    BY <2>2, EmptySeq
  <2>5. k \in DOMAIN q /\ Completes(t, q, k) /\ text' = Copied(t, q, k)
    BY <2>2, <2>3, <2>4
  <2>6. Over(text', q[k] = eof, buf_len') /\ text' \in Seq(Nat)
    BY <2>1, <2>5, CompletesOver, CopiedFacts
  <2>7. Len(text') < buf_len' => q[k] = eof \/ NL \in Range(text')
    BY <2>1, <2>6, OverCut
  <2> QED BY <2>3, <2>4, <2>7 DEF CutShort, Unfulfilled
<1>10. ASSUME NEW fd, NEW len \in Lens, ReadAborts(p, fd, len) PROVE CutShort'
  BY <1>10 DEF ReadAborts, CutShort
<1>11. CASE \/ \E dv \in -1 .. NumDevice : OpenFails(p, dv)
            \/ \E fd \in -1 .. NumFd : CloseFails(p, fd) \/ ReadFails(p, fd)
            \/ Write(p) \/ IoctlFails(p)
  BY <1>1, <1>11 DEF OpenFails, CloseFails, ReadFails, Write, IoctlFails
<1> QED BY <1>2, <1>3, <1>4, <1>5, <1>6, <1>7, <1>8, <1>9, <1>10, <1>11 DEF Requested

\* Interrupts: they go on with a read that waits, or with one that was cut before.
LEMMA CutKeys ==
  ASSUME IInv, CutShort, keyboard_lower
  PROVE  CutShort'
<1>1. CASE KeyStored
  BY <1>1, CutSame DEF KeyStored, Receives
<1>2. CASE KeyCopied
  <2>1. /\ UNCHANGED <<owner, buf_len, eof_reached, state, halted>>
        /\ text' = text \o Available /\ Unfulfilled
    BY <1>2 DEF KeyCopied, Receives
  <2>2. ASSUME NL \in Range(text) PROVE NL \in Range(text')
    <3>1. text \in Seq(Nat) /\ Available \in Seq(Nat)
      BY AvailableFacts DEF IInv, TypeOK
    <3>2. PICK q \in Seq(Nat) : q = Available
      BY <3>1
    <3>3. PICK i \in DOMAIN text : text[i] = NL
      BY <2>2 DEF Range
    <3>4. i \in 1 .. Len(text) /\ Len(text) \in Nat /\ Len(q) \in Nat
      BY <3>1, LenProperties
    <3>5. text \o q \in Seq(Nat) /\ Len(text \o q) = Len(text) + Len(q)
          /\ \A j \in 1 .. Len(text) + Len(q) :
               (text \o q)[j] = IF j <= Len(text) THEN text[j] ELSE q[j - Len(text)]
      BY <3>1, ConcatProperties
    <3>6. i \in 1 .. Len(text) + Len(q) /\ i <= Len(text)
      BY <3>4
    <3>7. i \in DOMAIN (text \o q) /\ (text \o q)[i] = NL
      BY <3>3, <3>5, <3>6
    <3> QED BY <2>1, <3>2, <3>7 DEF Range
  <2> QED BY <2>1, <2>2 DEF CutShort
<1>3. CASE KeyEnds
  <2>1. /\ Over(text', eof_reached', buf_len') /\ buf_len' = buf_len
        /\ text' \in Seq(Nat) /\ buf_len \in Nat
    BY <1>3, KeyEndsOver DEF IInv, TypeOK
  <2>2. Len(text') < buf_len' => eof_reached' \/ NL \in Range(text')
    BY <2>1, OverCut
  <2> QED BY <2>2 DEF CutShort, Unfulfilled
<1> QED BY <1>1, <1>2, <1>3 DEF keyboard_lower

\* A read that got all it asked for is not served again, whatever keys and calls
\* follow: only one that a line or the end of input cut short is.
THEOREM OnlyCutReadsAreServedAgain == Spec => ServedAgainOnlyAfterCut
<1>1. Init => CutShort
  BY DEF Init, CutShort
<1>2. IInv /\ CutShort /\ [Next]_vars => CutShort'
  <2> SUFFICES ASSUME IInv, CutShort, [Next]_vars PROVE CutShort'
    OBVIOUS
  <2>1. CASE \E p \in Procs : Requested(p)
    BY <2>1, CutRequested
  <2>2. CASE \E c \in Keys : Press(c)
    BY <2>2, CutSame DEF Press, procVars, reqVars, statusVars
  <2>3. CASE keyboard_lower
    BY <2>3, CutKeys
  <2>4. CASE UNCHANGED vars
    BY <2>4, CutSame DEF vars, procVars, reqVars, statusVars
  <2> QED BY <2>1, <2>2, <2>3, <2>4 DEF Next
<1>3. CutShort => ((KeyCopied \/ KeyEnds) /\ state[owner] # "READING" =>
                     eof_reached \/ NL \in Range(text))
  BY DEF CutShort, KeyCopied, KeyEnds, Receives
<1> QED BY <1>1, <1>2, <1>3, InitSafe, NextSafe, PTL DEF Spec, ServedAgainOnlyAfterCut

=============================================================================
