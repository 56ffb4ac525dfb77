--------------------------- MODULE ProgramsProofs ---------------------------
(***************************************************************************)
(* Theorems about the handlers of Programs, for every number of processes, *)
(* every set of signals and every choice of programs: how far they nest,   *)
(* and that no process runs, or stays blocked, with a signal that its mask *)
(* lets through.                                                           *)
(*                                                                         *)
(* Nothing is assumed of the lists of the kernel here: what is proved of   *)
(* the stacks and of delivery holds although a signal leaves a process     *)
(* linked in the queue of the call that it interrupts.                     *)
(***************************************************************************)
EXTENDS Programs, QueueLemmas, SequenceTheorems, TLAPS

-----------------------------------------------------------------------------
(* The highest signal. *)

\* A set of signals that is not empty has a highest one.
LEMMA HighestSignal ==
  ASSUME NEW S, S \subseteq Sigs, S # {}
  PROVE  Max(S) \in S /\ \A t \in S : Max(S) >= t
<1>1. S \subseteq 0 .. 31
  BY SigsAssumption
<1>2. \E x \in S : \A y \in S : x >= y
  <2> SUFFICES ASSUME \A x \in S : \E y \in S : y > x PROVE FALSE
    BY <1>1
  <2>1. \A x \in S : x \notin 24 .. 31
    BY <1>1
  <2>2. \A x \in S : x \notin 16 .. 31
    BY <1>1, <2>1
  <2>3. \A x \in S : x \notin 8 .. 31
    BY <1>1, <2>2
  <2>4. \A x \in S : x \notin 0 .. 31
    BY <1>1, <2>3
  <2> QED BY <1>1, <2>4
<1> QED BY <1>2, Zenon DEF Max

\* Signals are numbers.
LEMMA SignalNumbers == \A x \in Sigs : x \in Int /\ x \in Nat
BY SigsAssumption

-----------------------------------------------------------------------------
(* Frames on one stack. *)

\* Each frame of s is for a higher signal than those below it, and so are the
\* signals in the mask h, which admits the next one, and in the masks that
\* frames keep.
Climbs(s, h) ==
  /\ \E F : s \in Seq(F)
  /\ \A i \in 1 .. Len(s) : s[i].sig \in Sigs /\ s[i].sig >= i - 1
  /\ \A i, j \in 1 .. Len(s) : i < j => s[i].sig < s[j].sig
  /\ \A j \in 1 .. Len(s) : \A t \in s[j].old_hi :
       t \in Sigs /\ \A i \in 1 .. j - 1 : s[i].sig < t
  /\ \A t \in h : t \in Sigs /\ \A i \in 1 .. Len(s) : s[i].sig < t

\* A stack without frames, whatever the mask.
LEMMA EmptyClimbs ==
  ASSUME NEW h, h \subseteq Sigs
  PROVE  Climbs(<<>>, h)
<1>1. <<>> \in Seq({}) /\ Len(<<>>) = 0
  BY EmptySeq
<1> QED BY <1>1 DEF Climbs

\* deliver_signal(): the frame of a signal that is not below all of the mask.
LEMMA PushClimbs ==
  ASSUME NEW s, NEW h, Climbs(s, h), NEW f, NEW t \in h,
         f.sig \in Sigs, f.sig >= t, f.old_hi = h
  PROVE  Climbs(Append(s, f), Above(f.sig))
<1> DEFINE n == Len(s)
           r == Append(s, f)
<1>1. PICK F : s \in Seq(F)
  BY DEF Climbs
<1>0. /\ \A i \in 1 .. n : s[i].sig \in Sigs /\ s[i].sig >= i - 1
      /\ \A i, j \in 1 .. n : i < j => s[i].sig < s[j].sig
      /\ \A j \in 1 .. n : \A u \in s[j].old_hi :
           u \in Sigs /\ \A i \in 1 .. j - 1 : s[i].sig < u
      /\ \A u \in h : u \in Sigs /\ \A i \in 1 .. n : s[i].sig < u
  BY Zenon DEF Climbs
<1>2. s \in Seq(F \cup {f}) /\ f \in F \cup {f}
  BY <1>1
<1>3. /\ n \in Nat
      /\ r \in Seq(F \cup {f}) /\ Len(r) = n + 1
      /\ \A i \in 1 .. n : r[i] = s[i]
      /\ r[n + 1] = f
  BY <1>2, AppendProperties, LenProperties
<1>4. \A i \in 1 .. n : s[i].sig \in Sigs /\ s[i].sig \in Int /\ s[i].sig >= i - 1
  BY <1>0, SignalNumbers, Zenon
<1>5. f.sig \in Int /\ t \in Int /\ f.sig \in Nat
  BY <1>0, SignalNumbers, Zenon
<1>6. \A i \in 1 .. n : s[i].sig < f.sig
  BY <1>0, <1>4, <1>5
<1> HIDE DEF r
<1>7. \A i \in 1 .. n + 1 : r[i].sig \in Sigs /\ r[i].sig >= i - 1
  <2> TAKE i \in 1 .. n + 1
  <2>1. CASE i \in 1 .. n
    BY <1>3, <1>4, <2>1
  <2>2. CASE i = n + 1
    <3>1. CASE n = 0
      BY <1>3, <1>5, <2>2, <3>1
    <3>2. CASE n > 0
      <4>1. n \in 1 .. n /\ s[n].sig >= n - 1 /\ s[n].sig < f.sig
        BY <1>3, <1>4, <1>6, <3>2
      <4> QED BY <1>3, <1>4, <1>5, <2>2, <4>1
    <3> QED BY <1>3, <3>1, <3>2
  <2> QED BY <1>3, <2>1, <2>2
<1>8. \A i, j \in 1 .. n + 1 : i < j => r[i].sig < r[j].sig
  <2> TAKE i, j \in 1 .. n + 1
  <2> HAVE i < j
  <2>1. i \in 1 .. n
    BY <1>3
  <2>2. CASE j \in 1 .. n
    BY <1>0, <1>3, <2>1, <2>2
  <2>3. CASE j = n + 1
    BY <1>3, <1>6, <2>1, <2>3
  <2> QED BY <1>3, <2>2, <2>3
<1>9. \A j \in 1 .. n + 1 : \A u \in r[j].old_hi :
        u \in Sigs /\ \A i \in 1 .. j - 1 : r[i].sig < u
  <2> TAKE j \in 1 .. n + 1
  <2> TAKE u \in r[j].old_hi
  <2>1. CASE j \in 1 .. n
    <3>1. u \in Sigs /\ \A i \in 1 .. j - 1 : s[i].sig < u
      BY <1>0, <1>3, <2>1
    <3>2. \A i \in 1 .. j - 1 : i \in 1 .. n
      BY <1>3, <2>1
    <3> QED BY <1>3, <3>1, <3>2
  <2>2. CASE j = n + 1
    <3>1. u \in Sigs /\ \A i \in 1 .. n : s[i].sig < u
      BY <1>0, <1>3, <2>2
    <3>2. j - 1 = n
      BY <1>3, <2>2
    <3> QED BY <1>3, <3>1, <3>2
  <2> QED BY <1>3, <2>1, <2>2
<1>10. \A u \in Above(f.sig) : u \in Sigs /\ \A i \in 1 .. n + 1 : r[i].sig < u
  <2> TAKE u \in Above(f.sig)
  <2>1. u \in Sigs /\ u > f.sig /\ u \in Int
    BY SigsAssumption DEF Above
  <2>2. \A i \in 1 .. n + 1 : r[i].sig < u
    <3> TAKE i \in 1 .. n + 1
    <3>1. CASE i \in 1 .. n
      BY <1>3, <1>4, <1>5, <1>6, <2>1, <3>1
    <3>2. CASE i = n + 1
      BY <1>3, <1>5, <2>1, <3>2
    <3> QED BY <1>3, <3>1, <3>2
  <2> QED BY <2>1, <2>2
<1>11. Climbs(r, Above(f.sig))
  BY <1>3, <1>7, <1>8, <1>9, <1>10, Zenon DEF Climbs
<1> QED BY <1>11 DEF r

\* syssigreturn(): the last frame goes, and its mask comes back.
LEMMA PopClimbs ==
  ASSUME NEW s, NEW h, Climbs(s, h), s # <<>>
  PROVE  Climbs(Front(s), Last(s).old_hi)
<1> DEFINE n == Len(s)
           r == Front(s)
<1>1. PICK F : s \in Seq(F)
  BY DEF Climbs
<1>0. /\ \A i \in 1 .. n : s[i].sig \in Sigs /\ s[i].sig >= i - 1
      /\ \A i, j \in 1 .. n : i < j => s[i].sig < s[j].sig
      /\ \A j \in 1 .. n : \A t \in s[j].old_hi :
           t \in Sigs /\ \A i \in 1 .. j - 1 : s[i].sig < t
  BY Zenon DEF Climbs
<1>2. n \in Nat /\ n > 0
  BY <1>1, EmptySeq, LenProperties
<1>3. /\ r \in Seq(F) /\ Len(r) = n - 1
      /\ \A i \in 1 .. n - 1 : r[i] = s[i]
  <2>1. \A i \in 1 .. n - 1 : s[i] \in F
    BY <1>1, <1>2, ElementOfSeq
  <2>2. /\ SubSeq(s, 1, n - 1) \in Seq(F)
        /\ Len(SubSeq(s, 1, n - 1)) = IF 1 <= n - 1 THEN n - 1 - 1 + 1 ELSE 0
        /\ \A i \in 1 .. n - 1 - 1 + 1 : SubSeq(s, 1, n - 1)[i] = s[1 + i - 1]
    BY <1>1, <1>2, <2>1, SubSeqProperties
  <2>3. n - 1 - 1 + 1 = n - 1
    BY <1>2
  <2>4. Len(SubSeq(s, 1, n - 1)) = n - 1
    <3>1. 1 <= n - 1 => Len(SubSeq(s, 1, n - 1)) = n - 1
      BY <1>2, <2>2, <2>3
    <3>2. n = 1 => Len(SubSeq(s, 1, n - 1)) = 0
      <4>1. n = 1 => ~(1 <= n - 1)
        OBVIOUS
      <4> QED BY <2>2, <4>1, Zenon
    <3>3. 1 <= n - 1 \/ (n = 1 /\ n - 1 = 0)
      <4>1. \A k \in Nat : k > 0 => 1 <= k - 1 \/ (k = 1 /\ k - 1 = 0)
        OBVIOUS
      <4> QED BY <1>2, <4>1, Zenon
    <3> QED BY <3>1, <3>2, <3>3, Zenon
  <2>5. \A i \in 1 .. n - 1 : 1 + i - 1 = i
    BY <1>2
  <2>6. r = SubSeq(s, 1, n - 1)
    BY DEF Front
  <2>7. \A i \in 1 .. n - 1 : SubSeq(s, 1, n - 1)[i] = s[i]
    BY <2>2, <2>3, <2>5
  <2> QED BY <2>2, <2>4, <2>6, <2>7, Zenon
<1>4. Last(s) = s[n] /\ n \in 1 .. n
  BY <1>2 DEF Last
<1> HIDE DEF r
<1>5. \A i \in 1 .. n - 1 : i \in 1 .. n
  BY <1>2
<1>6. \A i \in 1 .. n - 1 : r[i].sig \in Sigs /\ r[i].sig >= i - 1
  BY <1>0, <1>3, <1>5
<1>7. \A i, j \in 1 .. n - 1 : i < j => r[i].sig < r[j].sig
  BY <1>0, <1>3, <1>5
<1>8. \A j \in 1 .. n - 1 : \A t \in r[j].old_hi :
        t \in Sigs /\ \A i \in 1 .. j - 1 : r[i].sig < t
  <2> TAKE j \in 1 .. n - 1
  <2>1. \A i \in 1 .. j - 1 : i \in 1 .. n - 1
    BY <1>2
  <2> QED BY <1>0, <1>3, <1>5, <2>1
<1>9. \A t \in Last(s).old_hi : t \in Sigs /\ \A i \in 1 .. n - 1 : r[i].sig < t
  BY <1>0, <1>3, <1>4
<1>10. Climbs(r, Last(s).old_hi)
  BY <1>3, <1>6, <1>7, <1>8, <1>9, Zenon DEF Climbs
<1> QED BY <1>10 DEF r

-----------------------------------------------------------------------------
(* All stacks. *)

\* The fields of a pcb for signals.
IsSignals(r) ==
  r = [pending |-> r.pending, allowed |-> r.allowed, hi |-> r.hi,
       handler |-> r.handler]

\* sg and fr have what is needed of every process.
Nest(sg, fr) ==
  /\ sg = [p \in Procs |-> sg[p]]
  /\ fr = [p \in Procs |-> fr[p]]
  /\ \A p \in Procs :
       IsSignals(sg[p]) /\ sg[p].pending \subseteq Sigs /\ Climbs(fr[p], sg[p].hi)

Nested == Nest(sigs, frames)

\* The end of a turn: whoever is selected, and whatever signal it gets.
LEMMA TurnNests ==
  ASSUME NEW K, NEW sg, NEW fr, NEW us, Nest(sg, fr), Turn(K, sg, fr, us)
  PROVE  Nested'
<1> DEFINE p == Selected(K).proc
           M == Selected(K).mem
           s == Max(sg[p].pending)
           f == Frame(p, s, M, sg[p], us[p])
<1>1. CASE sigs' = sg /\ frames' = fr
  BY <1>1 DEF Nested
<1>2. CASE /\ Deliverable(sg[p]) /\ p \in Procs
           /\ frames' = [fr EXCEPT ![p] = Append(@, f)]
           /\ sigs' = [sg EXCEPT ![p].pending = @ \ {s}, ![p].hi = Above(s)]
  <2>1. /\ IsSignals(sg[p]) /\ sg[p].pending \subseteq Sigs
        /\ Climbs(fr[p], sg[p].hi)
    BY <1>2 DEF Nest
  <2>2. PICK t \in sg[p].hi : t \in sg[p].pending
    BY <1>2 DEF Deliverable
  <2>3. s \in Sigs /\ s >= t /\ s \in sg[p].pending
    BY <2>1, <2>2, HighestSignal
  <2>4. f.sig = s /\ f.old_hi = sg[p].hi
    BY DEF Frame
  <2> HIDE DEF f, s, p, M
  <2>5. Climbs(Append(fr[p], f), Above(s))
    BY <2>1, <2>2, <2>3, <2>4, PushClimbs
  <2>6. /\ frames' = [q \in Procs |-> frames'[q]]
        /\ frames'[p] = Append(fr[p], f)
        /\ \A q \in Procs : q # p => frames'[q] = fr[q]
    BY <1>2 DEF Nest
  <2>7. /\ sigs' = [q \in Procs |-> sigs'[q]]
        /\ IsSignals(sigs'[p]) /\ sigs'[p].pending \subseteq sg[p].pending
        /\ sigs'[p].hi = Above(s)
        /\ \A q \in Procs : q # p => sigs'[q] = sg[q]
    BY <1>2, <2>1 DEF Nest, IsSignals
  <2>8. ASSUME NEW q \in Procs
        PROVE  /\ IsSignals(sigs'[q]) /\ sigs'[q].pending \subseteq Sigs
               /\ Climbs(frames'[q], sigs'[q].hi)
    <3>1. CASE q = p
      BY <2>1, <2>5, <2>6, <2>7, <3>1
    <3>2. CASE q # p
      BY <2>6, <2>7, <3>2 DEF Nest
    <3> QED BY <3>1, <3>2
  <2> QED BY <2>6, <2>7, <2>8 DEF Nested, Nest
<1>3. CASE /\ p \notin Procs
           /\ frames' = [fr EXCEPT ![p] = Append(@, f)]
           /\ sigs' = [sg EXCEPT ![p].pending = @ \ {s}, ![p].hi = Above(s)]
  BY <1>3 DEF Nested, Nest
<1> QED BY <1>1, <1>2, <1>3 DEF Turn

\* Calls that leave all signal fields and frames alone.
LEMMA PlainNests ==
  ASSUME NEW K, NEW p, NEW u, Nested, TurnPlain(K, p, u)
  PROVE  Nested'
BY TurnNests DEF TurnPlain, Nested

LEMMA ReturnsNests ==
  ASSUME NEW p, NEW v, NEW u, Nested, Returns(p, v, u)
  PROVE  Nested'
BY PlainNests DEF Returns

\* A slot without frames.
LEMMA FreshNests ==
  ASSUME NEW sg, NEW fr, Nest(sg, fr), NEW q \in Procs, NEW r,
         IsSignals(r), r.pending \subseteq Sigs, r.hi \subseteq Sigs
  PROVE  Nest([sg EXCEPT ![q] = r], [fr EXCEPT ![q] = <<>>])
<1> DEFINE sg2 == [sg EXCEPT ![q] = r]
           fr2 == [fr EXCEPT ![q] = <<>>]
<1>1. /\ sg2 = [p \in Procs |-> sg2[p]] /\ sg2[q] = r
      /\ fr2 = [p \in Procs |-> fr2[p]] /\ fr2[q] = <<>>
      /\ \A p \in Procs : p # q => sg2[p] = sg[p] /\ fr2[p] = fr[p]
  BY DEF Nest
<1> HIDE DEF sg2, fr2
<1>2. ASSUME NEW p \in Procs
      PROVE  /\ IsSignals(sg2[p]) /\ sg2[p].pending \subseteq Sigs
             /\ Climbs(fr2[p], sg2[p].hi)
  <2>1. CASE p = q
    BY <1>1, <2>1, EmptyClimbs
  <2>2. CASE p # q
    BY <1>1, <2>2 DEF Nest
  <2> QED BY <2>1, <2>2
<1>3. Nest(sg2, fr2)
  BY <1>1, <1>2 DEF Nest
<1> QED BY <1>3 DEF sg2, fr2

\* The signals in the mask of a process.
LEMMA MaskSignals ==
  ASSUME NEW s, NEW h, Climbs(s, h)
  PROVE  h \subseteq Sigs
BY Zenon DEF Climbs

LEMMA CreateNests ==
  ASSUME NEW p, NEW q \in Procs, NEW f, NEW u, Nested, Create(p, q, f, u)
  PROVE  Nested'
<1>1. /\ IsSignals(NoSignals) /\ NoSignals.pending \subseteq Sigs
      /\ NoSignals.hi \subseteq Sigs
  BY DEF NoSignals, IsSignals
<1>2. Nest([sigs EXCEPT ![q] = NoSignals], [frames EXCEPT ![q] = <<>>])
  BY <1>1, FreshNests DEF Nested
<1> QED BY <1>2, TurnNests DEF Create

LEMMA StopNests ==
  ASSUME NEW p \in Procs, Nested, Stop(p)
  PROVE  Nested'
<1>1. /\ IsSignals(sigs[p]) /\ sigs[p].pending \subseteq Sigs
      /\ sigs[p].hi \subseteq Sigs
  BY MaskSignals DEF Nested, Nest
<1>2. [sigs EXCEPT ![p] = sigs[p]] = sigs
  BY DEF Nested, Nest
<1>3. Nest([sigs EXCEPT ![p] = sigs[p]], [frames EXCEPT ![p] = <<>>])
  BY <1>1, FreshNests DEF Nested
<1>4. Nest(sigs, [frames EXCEPT ![p] = <<>>])
  BY <1>2, <1>3
<1> QED BY <1>4, TurnNests DEF Stop

\* A process whose other signal fields change.
LEMMA FieldsNest ==
  ASSUME NEW sg, NEW fr, Nest(sg, fr), NEW q \in Procs, NEW sg2,
         sg2 = [p \in Procs |-> sg2[p]], \A p \in Procs : p # q => sg2[p] = sg[p],
         IsSignals(sg2[q]), sg2[q].pending \subseteq Sigs, sg2[q].hi = sg[q].hi
  PROVE  Nest(sg2, fr)
<1>1. ASSUME NEW p \in Procs
      PROVE  /\ IsSignals(sg2[p]) /\ sg2[p].pending \subseteq Sigs
             /\ Climbs(fr[p], sg2[p].hi)
  <2>1. CASE p = q
    BY <2>1 DEF Nest
  <2>2. CASE p # q
    BY <2>2 DEF Nest
  <2> QED BY <2>1, <2>2
<1> QED BY <1>1 DEF Nest

LEMMA KillNests ==
  ASSUME NEW p, NEW pid, NEW s, NEW u, Nested, Kill(p, pid, s, u)
  PROVE  Nested'
<1> DEFINE q  == SlotOf(kern, pid)
           sg == [sigs EXCEPT ![q].pending = @ \cup {s}]
<1>1. CASE s \in sigs[q].allowed
  <2>1. PICK K, us : Turn(K, sg, frames, us)
    BY <1>1, Zenon DEF Kill
  <2>2. s \in Sigs
    BY DEF Kill
  <2> HIDE DEF q
  <2>3. CASE q \in Procs
    <3>1. IsSignals(sigs[q]) /\ sigs[q].pending \subseteq Sigs
      BY <2>3 DEF Nested, Nest
    <3>2. /\ sg = [x \in Procs |-> sg[x]] /\ \A x \in Procs : x # q => sg[x] = sigs[x]
          /\ IsSignals(sg[q]) /\ sg[q].pending = sigs[q].pending \cup {s}
          /\ sg[q].hi = sigs[q].hi
      BY <2>3, <3>1 DEF Nested, Nest, IsSignals
    <3> HIDE DEF sg
    <3>3. Nest(sg, frames)
      BY <2>2, <2>3, <3>1, <3>2, FieldsNest DEF Nested
    <3> QED BY <2>1, <3>3, TurnNests
  <2>4. CASE q \notin Procs
    <3>1. sg = sigs
      BY <2>4 DEF Nested, Nest
    <3> QED BY <2>1, <3>1, TurnNests DEF Nested
  <2> QED BY <2>3, <2>4
<1>2. CASE s \notin sigs[q].allowed
  <2>1. TurnPlain(Returned(kern, p, 0), p, u)
    BY <1>2 DEF Kill
  <2> QED BY <2>1, PlainNests
<1> QED BY <1>1, <1>2

LEMMA SigHandlerNests ==
  ASSUME NEW p \in Procs, NEW s, NEW h, NEW u, Nested, SigHandler(p, s, h, u)
  PROVE  Nested'
<1> DEFINE sg == [sigs EXCEPT ![p].handler[s] = h,
                    ![p].allowed = IF h = "none" THEN @ \ {s} ELSE @ \cup {s}]
<1>1. PICK K, us : Turn(K, sg, frames, us)
  BY Zenon DEF SigHandler
<1>2. IsSignals(sigs[p]) /\ sigs[p].pending \subseteq Sigs
  BY DEF Nested, Nest
<1>3. /\ sg = [x \in Procs |-> sg[x]] /\ \A x \in Procs : x # p => sg[x] = sigs[x]
      /\ IsSignals(sg[p]) /\ sg[p].pending = sigs[p].pending
      /\ sg[p].hi = sigs[p].hi
  BY <1>2 DEF Nested, Nest, IsSignals
<1> HIDE DEF sg
<1>4. Nest(sg, frames)
  BY <1>2, <1>3, FieldsNest DEF Nested
<1> QED BY <1>1, <1>4, TurnNests

LEMMA SigReturnNests ==
  ASSUME NEW p \in Procs, Nested, SigReturn(p)
  PROVE  Nested'
<1> DEFINE f  == Last(frames[p])
           sg == [sigs EXCEPT ![p].hi = f.old_hi]
           fr == [frames EXCEPT ![p] = Front(@)]
<1>1. frames[p] # <<>> /\ \E K, us : Turn(K, sg, fr, us)
  BY Zenon DEF SigReturn
<1>2. PICK K, us : Turn(K, sg, fr, us)
  BY <1>1, Zenon
<1>3. /\ IsSignals(sigs[p]) /\ sigs[p].pending \subseteq Sigs
      /\ Climbs(frames[p], sigs[p].hi)
  BY DEF Nested, Nest
<1>4. Climbs(Front(frames[p]), f.old_hi)
  BY <1>1, <1>3, PopClimbs
<1> HIDE DEF f
<1>5. /\ sg = [x \in Procs |-> sg[x]] /\ \A x \in Procs : x # p => sg[x] = sigs[x]
      /\ IsSignals(sg[p]) /\ sg[p].pending = sigs[p].pending
      /\ sg[p].hi = f.old_hi
  BY <1>3 DEF Nested, Nest, IsSignals
<1>6. /\ fr = [x \in Procs |-> fr[x]] /\ \A x \in Procs : x # p => fr[x] = frames[x]
      /\ fr[p] = Front(frames[p])
  BY DEF Nested, Nest
<1> HIDE DEF sg, fr
<1>7. ASSUME NEW x \in Procs
      PROVE  /\ IsSignals(sg[x]) /\ sg[x].pending \subseteq Sigs
             /\ Climbs(fr[x], sg[x].hi)
  <2>1. CASE x = p
    BY <1>3, <1>4, <1>5, <1>6, <2>1
  <2>2. CASE x # p
    BY <1>5, <1>6, <2>2 DEF Nested, Nest
  <2> QED BY <2>1, <2>2
<1>8. Nest(sg, fr)
  BY <1>5, <1>6, <1>7 DEF Nest
<1> QED BY <1>2, <1>8, TurnNests

-----------------------------------------------------------------------------
(* The programs. *)

LEMMA EndsNests ==
  ASSUME NEW p \in Procs, Nested, Ends(p)
  PROVE  Nested'
BY SigReturnNests, StopNests DEF Ends

LEMMA PerformsNests ==
  ASSUME NEW p \in Procs, Nested, Performs(p)
  PROVE  Nested'
<1> DEFINE i  == Now(p)
           to == To(p, i.to)
           u  == After(p, i)
<1>1. CASE \/ Yield(p, u) \/ CreateRefused(p, u) \/ Send(p, to, i.n, u)
           \/ Recv(p, to, i.n, u) \/ Sleep(p, i.n, u) \/ SigWait(p, u)
           \/ SigHandlerRefused(p, i.n, i.to, u) \/ KillRefused(p, to, i.n, u)
  BY <1>1, PlainNests, ReturnsNests
     DEF Yield, CreateRefused, Send, Recv, Sleep, SigWait, SigHandlerRefused, KillRefused
<1>2. CASE \E q \in Procs : Create(p, q, i.to, u)
  BY <1>2, CreateNests
<1>3. CASE SigHandler(p, i.n, i.to, u)
  BY <1>3, SigHandlerNests
<1>4. CASE Kill(p, to, i.n, u)
  BY <1>4, KillNests
<1> QED BY <1>1, <1>2, <1>3, <1>4, Zenon DEF Performs

LEMMA PerformsReadNests ==
  ASSUME NEW p \in Procs, Nested, PerformsRead(p)
  PROVE  Nested'
<1>1. PICK v : ReadBlocks(p, v) \/ \E c \in {0, 1} : Returns(p, c, v)
  BY Zenon DEF PerformsRead
<1> QED BY <1>1, PlainNests, ReturnsNests DEF ReadBlocks

LEMMA PerformsAnythingNests ==
  ASSUME NEW p \in Procs, Nested, PerformsAnything(p)
  PROVE  Nested'
<1>1. CASE \/ Yield(p, Again(p, AnyResult)) \/ SigWait(p, Again(p, FreeSigs))
  BY <1>1, PlainNests DEF Yield, SigWait
<1>2. CASE \E s \in FreeSigs, h \in {"handling", "none"} :
             SigHandler(p, s, h, Again(p, {0}))
  BY <1>2, SigHandlerNests
<1>3. CASE \E s \in FreeSigs, pid \in {kern.pcb[p].pid, kern.pcb[1].pid} :
             Kill(p, pid, s, Again(p, {0}))
  BY <1>3, KillNests
<1>4. CASE Ends(p)
  BY <1>4, EndsNests
<1> QED BY <1>1, <1>2, <1>3, <1>4, Zenon DEF PerformsAnything

LEMMA NextNests == Nested /\ [Next]_allVars => Nested'
<1> SUFFICES ASSUME Nested, [Next]_allVars PROVE Nested'
  OBVIOUS
<1>1. ASSUME NEW p \in Procs, Program(p) PROVE Nested'
  <2>1. CASE Yield(p, user[p])
    BY <2>1, PlainNests DEF Yield
  <2> QED BY <1>1, <2>1, PerformsNests, PerformsReadNests, PerformsAnythingNests,
             EndsNests, StopNests, Zenon DEF Program
<1>2. ASSUME NEW p \in Procs, Raise(p) PROVE Nested'
  BY <1>2, EndsNests DEF Raise
<1>3. CASE Tick
  <2>1. PICK p, v, u : Timer(p, v, u) \/ TimerUncounted(p, v, u)
    BY <1>3, Zenon DEF Tick
  <2> QED BY <2>1, PlainNests DEF Timer, TimerUncounted
<1>4. CASE Type
  BY <1>4 DEF Type, Key, Nested
<1>5. CASE UNCHANGED allVars
  BY <1>5 DEF allVars, vars, Nested
<1> QED BY <1>1, <1>2, <1>3, <1>4, <1>5, Zenon DEF Next

LEMMA InitNests == Init => Nested
<1> SUFFICES ASSUME Init PROVE Nested
  OBVIOUS
<1>1. /\ IsSignals(NoSignals) /\ NoSignals.pending \subseteq Sigs
      /\ NoSignals.hi \subseteq Sigs
  BY DEF NoSignals, IsSignals
<1>2. sigs = [p \in Procs |-> NoSignals] /\ frames = [p \in Procs |-> <<>>]
  BY Zenon DEF Init
<1>3. ASSUME NEW p \in Procs
      PROVE  /\ IsSignals(sigs[p]) /\ sigs[p].pending \subseteq Sigs
             /\ Climbs(frames[p], sigs[p].hi)
  BY <1>1, <1>2, EmptyClimbs
<1> QED BY <1>2, <1>3 DEF Nested, Nest

LEMMA NestedBounds == Nested => NestingBounded
<1> SUFFICES ASSUME Nested, NEW p \in Procs
             PROVE  /\ \A i, j \in 1 .. Len(frames[p]) :
                         i < j => frames[p][i].sig < frames[p][j].sig
                    /\ Len(frames[p]) <= 32
  BY DEF NestingBounded
<1> DEFINE s == frames[p]
           n == Len(s)
<1>1. Climbs(s, sigs[p].hi)
  BY DEF Nested, Nest
<1>2. /\ \A i \in 1 .. n : s[i].sig \in Sigs /\ s[i].sig >= i - 1
      /\ \A i, j \in 1 .. n : i < j => s[i].sig < s[j].sig
  BY <1>1, Zenon DEF Climbs
<1>3. n \in Nat
  BY <1>1, LenProperties DEF Climbs
<1>4. n <= 32
  <2> SUFFICES ASSUME n > 32 PROVE FALSE
    BY <1>3
  <2>1. n \in 1 .. n
    BY <1>3
  <2>2. s[n].sig \in 0 .. 31 /\ s[n].sig >= n - 1
    BY <1>2, <2>1, SigsAssumption
  <2> HIDE DEF n
  <2> QED BY <1>3, <2>2
<1> QED BY <1>2, <1>4

\* The frames on a stack are for ever higher signals, so there are at most
\* NUM_SIGNAL of them: whatever programs call, whatever is sent to them while a
\* handler runs, and whatever becomes of the lists of the kernel.
THEOREM HandlersAreBounded == Spec => []NestingBounded
BY InitNests, NextNests, NestedBounds, PTL DEF Spec

-----------------------------------------------------------------------------
(* What handlers do to the states of processes: they ready some, and block *)
(* or stop their caller.                                                   *)

\* K is kernel memory, as far as states are concerned.
IsMem(K) ==
  /\ "pcb" \in DOMAIN K
  /\ DOMAIN K.pcb = Procs
  /\ \A q \in Procs : "state" \in DOMAIN K.pcb[q]

\* The one field that Set changes.
LEMMA SetState ==
  ASSUME NEW K, IsMem(K), NEW p, NEW f, NEW v
  PROVE  /\ IsMem(Set(K, p, f, v))
         /\ \A q \in Procs : Set(K, p, f, v).pcb[q].state =
              IF q = p /\ f = "state" THEN v ELSE K.pcb[q].state
<1> DEFINE M == Set(K, p, f, v)
<1>1. M = [K EXCEPT !.pcb = [K.pcb EXCEPT ![p] = [K.pcb[p] EXCEPT ![f] = v]]]
  BY DEF Set
<1>2. /\ DOMAIN M = DOMAIN K
      /\ M.pcb = [K.pcb EXCEPT ![p] = [K.pcb[p] EXCEPT ![f] = v]]
  BY <1>1 DEF IsMem
<1> HIDE DEF M
<1>3. DOMAIN M.pcb = Procs
  BY <1>2 DEF IsMem
<1>4. \A q \in Procs : M.pcb[q] = IF q = p THEN [K.pcb[p] EXCEPT ![f] = v] ELSE K.pcb[q]
  BY <1>2 DEF IsMem
<1>5. ASSUME NEW q \in Procs
      PROVE  /\ "state" \in DOMAIN M.pcb[q]
             /\ M.pcb[q].state = IF q = p /\ f = "state" THEN v ELSE K.pcb[q].state
  BY <1>4 DEF IsMem
<1>6. IsMem(M)
  BY <1>2, <1>3, <1>5 DEF IsMem
<1> QED BY <1>5, <1>6 DEF M

\* M is K after some processes have been readied.
Readies(K, M) ==
  /\ IsMem(M)
  /\ \A q \in Procs : M.pcb[q].state \in {K.pcb[q].state, "READY"}

LEMMA ReadiesMore ==
  ASSUME NEW K, NEW L, NEW M, Readies(K, L), Readies(L, M)
  PROVE  Readies(K, M)
  BY DEF Readies

\* Other fields, of pcbs and of the kernel.
LEMMA SetReadies ==
  ASSUME NEW K, IsMem(K), NEW p, NEW f, NEW v, f # "state" \/ v = "READY"
  PROVE  Readies(K, Set(K, p, f, v))
  BY SetState DEF Readies

LEMMA FieldReadies ==
  ASSUME NEW K, IsMem(K), NEW f, f # "pcb", NEW v
  PROVE  Readies(K, [K EXCEPT ![f] = v])
  BY DEF Readies, IsMem

\* ready().
LEMMA ReadyReadies ==
  ASSUME NEW K, IsMem(K), NEW p
  PROVE  /\ Readies(K, ready(K, p))
         /\ p \in Procs => ready(K, p).pcb[p].state = "READY"
<1> DEFINE q == Chain(K, K.ready_queue)
           L == IF q = <<>> THEN [K EXCEPT !.ready_queue = p]
                ELSE Set(K, Last(q), "next", p)
           M == Set(L, p, "next", NULL)
<1>1. Readies(K, L)
  BY SetReadies, FieldReadies
<1>2. ready(K, p) = Set(M, p, "state", "READY")
  BY DEF ready
<1> HIDE DEF L
<1>3. Readies(L, M)
  BY <1>1, SetReadies DEF Readies
<1> HIDE DEF M
<1>4. Readies(M, Set(M, p, "state", "READY"))
  BY <1>3, SetReadies DEF Readies
<1>5. p \in Procs => Set(M, p, "state", "READY").pcb[p].state = "READY"
  BY <1>3, SetState DEF Readies
<1> QED BY <1>1, <1>2, <1>3, <1>4, <1>5, ReadiesMore

LEMMA ReturnedReadies ==
  ASSUME NEW K, IsMem(K), NEW p, NEW v
  PROVE  /\ Readies(K, Returned(K, p, v))
         /\ p \in Procs => Returned(K, p, v).pcb[p].state = "READY"
<1> DEFINE M == Set(K, p, "irc", v)
<1>1. Readies(K, M)
  BY SetReadies
<1>2. Returned(K, p, v) = ready(M, p)
  BY DEF Returned
<1> HIDE DEF M
<1>3. /\ Readies(M, ready(M, p))
      /\ p \in Procs => ready(M, p).pcb[p].state = "READY"
  BY <1>1, ReadyReadies DEF Readies
<1> QED BY <1>1, <1>2, <1>3, ReadiesMore

\* next(): only the idle process may be readied again.
LEMMA PoppedReadies ==
  ASSUME NEW K, IsMem(K)
  PROVE  Readies(K, Popped(K))
<1> DEFINE M == [K EXCEPT !.ready_queue = K.pcb[K.ready_queue].next]
<1>1. Readies(K, K) /\ Readies(K, M)
  BY FieldReadies DEF Readies
<1>2. Popped(K) = IF K.ready_queue = NULL THEN K ELSE Set(M, K.ready_queue, "next", NULL)
  BY DEF Popped
<1> HIDE DEF M
<1>3. Readies(M, Set(M, K.ready_queue, "next", NULL))
  BY <1>1, SetReadies DEF Readies
<1> QED BY <1>1, <1>2, <1>3, ReadiesMore

LEMMA SelectedReadies ==
  ASSUME NEW K, IsMem(K)
  PROVE  Readies(K, Selected(K).mem)
<1> DEFINE L == Popped(K)
           M == Popped(L)
<1>1. Readies(K, L)
  BY PoppedReadies
<1>2. Selected(K).mem \in {L, ready(M, K.idle)}
  BY DEF Selected
<1> HIDE DEF L
<1>3. Readies(L, M)
  BY <1>1, PoppedReadies DEF Readies
<1> HIDE DEF M
<1>4. Readies(M, ready(M, K.idle))
  BY <1>3, ReadyReadies DEF Readies
<1> QED BY <1>1, <1>2, <1>3, <1>4, ReadiesMore

-----------------------------------------------------------------------------
(* The handlers. *)

\* The lists of senders and receivers.
LEMMA QueuesReady ==
  ASSUME NEW K, IsMem(K), NEW d, NEW queue \in {"senders", "receivers"}, NEW q
  PROVE  Readies(K, QueuedAt(K, d, queue, q)) /\ Readies(K, Removed(K, d, queue, q))
<1>1. queue # "state"
  OBVIOUS
<1> QED BY <1>1, SetReadies DEF QueuedAt, Removed

LEMMA ArgsReadies ==
  ASSUME NEW K, IsMem(K), NEW p, NEW peer, NEW len
  PROVE  Readies(K, Args(K, p, peer, len))
<1> DEFINE L == Set(K, p, "peer", peer)
<1>1. Readies(K, L)
  BY SetReadies
<1> HIDE DEF L
<1>2. Readies(L, Set(L, p, "len", len))
  BY <1>1, SetReadies DEF Readies
<1>3. Readies(K, Set(L, p, "len", len))
  BY <1>1, <1>2, ReadiesMore
<1> QED BY <1>3 DEF Args, L

LEMMA TransferReadies ==
  ASSUME NEW K, IsMem(K), NEW src, NEW dst
  PROVE  Readies(K, Transfer(K, src, dst))
<1> DEFINE a == K.pcb[src].len
           b == K.pcb[dst].len
           n == IF a < b THEN a ELSE b
           L == Set(K, dst, "peer", K.pcb[src].pid)
           M == Set(L, src, "irc", n)
<1>1. Transfer(K, src, dst) = Set(M, dst, "irc", n)
  BY DEF Transfer
<1> HIDE DEF n
<1>2. Readies(K, L)
  BY SetReadies
<1> HIDE DEF L
<1>3. Readies(L, M)
  BY <1>2, SetReadies DEF Readies
<1> HIDE DEF M
<1>4. Readies(M, Set(M, dst, "irc", n))
  BY <1>3, SetReadies DEF Readies
<1> QED BY <1>1, <1>2, <1>3, <1>4, ReadiesMore

\* Both partners of an exchange are readied.
LEMMA ExchangedReadies ==
  ASSUME NEW K, IsMem(K), NEW src, NEW dst, NEW p \in Procs, NEW other
  PROVE  /\ Readies(K, Exchanged(K, src, dst, p, other))
         /\ Exchanged(K, src, dst, p, other).pcb[p].state = "READY"
<1> DEFINE L == Transfer(K, src, dst)
           M == ready(L, p)
<1>1. Readies(K, L)
  BY TransferReadies
<1>2. Exchanged(K, src, dst, p, other) = ready(M, other)
  BY DEF Exchanged
<1> HIDE DEF L
<1>3. Readies(L, M) /\ M.pcb[p].state = "READY"
  BY <1>1, ReadyReadies DEF Readies
<1> HIDE DEF M
<1>4. Readies(M, ready(M, other))
  BY <1>3, ReadyReadies DEF Readies
<1>5. ready(M, other).pcb[p].state = "READY"
  BY <1>3, <1>4 DEF Readies
<1> QED BY <1>1, <1>2, <1>3, <1>4, <1>5, ReadiesMore

\* M is K after the call of p: p is ready, blocked or gone, and some other
\* processes may have been readied.
Leaves(K, M, p) ==
  /\ IsMem(M)
  /\ M.pcb[p].state \in States \ {"RUNNING"}
  /\ \A q \in Procs \ {p} : M.pcb[q].state \in {K.pcb[q].state, "READY"}

LEMMA ReadiesLeaves ==
  ASSUME NEW K, NEW M, Readies(K, M), NEW p \in Procs,
         M.pcb[p].state \in States \ {"RUNNING"}
  PROVE  Leaves(K, M, p)
  BY DEF Readies, Leaves

LEMMA ReadiesThenLeaves ==
  ASSUME NEW K, NEW L, NEW M, NEW p \in Procs, Readies(K, L), Leaves(L, M, p)
  PROVE  Leaves(K, M, p)
  BY DEF Readies, Leaves

\* The caller returns, or blocks.
LEMMA ReturnedLeaves ==
  ASSUME NEW K, IsMem(K), NEW p \in Procs, NEW v
  PROVE  Leaves(K, Returned(K, p, v), p)
<1>1. /\ Readies(K, Returned(K, p, v))
      /\ Returned(K, p, v).pcb[p].state = "READY"
  BY ReturnedReadies
<1> QED BY <1>1, ReadiesLeaves DEF States

LEMMA ReadyLeaves ==
  ASSUME NEW K, IsMem(K), NEW p \in Procs
  PROVE  Leaves(K, ready(K, p), p)
<1>1. Readies(K, ready(K, p)) /\ ready(K, p).pcb[p].state = "READY"
  BY ReadyReadies
<1> QED BY <1>1, ReadiesLeaves DEF States

LEMMA BlockLeaves ==
  ASSUME NEW K, IsMem(K), NEW p \in Procs, NEW s \in States \ {"RUNNING"}
  PROVE  Leaves(K, Set(K, p, "state", s), p)
  BY SetState DEF Leaves

LEMMA ExchangedLeaves ==
  ASSUME NEW K, IsMem(K), NEW src, NEW dst, NEW p \in Procs, NEW other
  PROVE  Leaves(K, Exchanged(K, src, dst, p, other), p)
<1> DEFINE M == Exchanged(K, src, dst, p, other)
<1>1. Readies(K, M) /\ M.pcb[p].state = "READY"
  BY ExchangedReadies
<1> HIDE DEF M
<1>2. Leaves(K, M, p)
  BY <1>1, ReadiesLeaves DEF States
<1> QED BY <1>2 DEF M


\* send().
LEMMA SentLeaves ==
  ASSUME NEW K, IsMem(K), NEW p \in Procs, NEW dest
  PROVE  Leaves(K, Sent(K, p, dest), p)
<1> DEFINE d == SlotOf(K, dest)
           r == CHOOSE q \in Procs : FirstWithPid(K, p, "receivers", dest, q)
           L == Removed(K, p, "receivers", r)
           Q == QueuedAt(K, d, "senders", p)
<1>1. Sent(K, p, dest) \in
        {Returned(K, p, SYS_SR_SELF), Returned(K, p, SYS_SR_NO_PID),
         Exchanged(L, p, r, p, r), Exchanged(K, p, d, p, d),
         Set(Q, p, "state", "SENDING")}
  BY DEF Sent
<1>2. Readies(K, L) /\ Readies(K, Q)
  BY QueuesReady
<1> HIDE DEF L, Q, r, d
<1>3. Leaves(L, Exchanged(L, p, r, p, r), p)
  BY <1>2, ExchangedLeaves DEF Readies
<1>4. Leaves(Q, Set(Q, p, "state", "SENDING"), p)
  BY <1>2, BlockLeaves DEF Readies, States
<1>5. /\ Leaves(K, Exchanged(L, p, r, p, r), p)
      /\ Leaves(K, Set(Q, p, "state", "SENDING"), p)
  BY <1>2, <1>3, <1>4, ReadiesThenLeaves
<1> QED BY <1>1, <1>5, ReturnedLeaves, ExchangedLeaves

\* receive().
LEMMA ReceivedLeaves ==
  ASSUME NEW K, IsMem(K), NEW p \in Procs, NEW src
  PROVE  Leaves(K, Received(K, p, src), p)
<1> DEFINE d == SlotOf(K, src)
           s == CHOOSE q \in Procs : FirstWithPid(K, p, "senders", src, q)
           h == K.pcb[p].senders
           L == Removed(K, p, "senders", s)
           H == Set(K, p, "senders", K.pcb[h].next)
           Q == QueuedAt(K, d, "receivers", p)
<1>1. Received(K, p, src) \in
        {Returned(K, p, SYS_SR_SELF), Returned(K, p, SYS_SR_NO_PID),
         Exchanged(L, s, p, p, s), Exchanged(H, h, p, p, h),
         Set(Q, p, "state", "RECEIVING"), Set(K, p, "state", "RECEIVING")}
  BY DEF Received
<1>2. Readies(K, L) /\ Readies(K, H) /\ Readies(K, Q)
  BY QueuesReady, SetReadies
<1> HIDE DEF L, H, Q, s, h, d
<1>3. Leaves(L, Exchanged(L, s, p, p, s), p)
  BY <1>2, ExchangedLeaves DEF Readies
<1>4. Leaves(H, Exchanged(H, h, p, p, h), p)
  BY <1>2, ExchangedLeaves DEF Readies
<1>5. Leaves(Q, Set(Q, p, "state", "RECEIVING"), p)
  BY <1>2, BlockLeaves DEF Readies, States
<1>6. /\ Leaves(K, Exchanged(L, s, p, p, s), p)
      /\ Leaves(K, Exchanged(H, h, p, p, h), p)
      /\ Leaves(K, Set(Q, p, "state", "RECEIVING"), p)
  BY <1>2, <1>3, <1>4, <1>5, ReadiesThenLeaves
<1>7. Leaves(K, Set(K, p, "state", "RECEIVING"), p)
  BY BlockLeaves DEF States
<1> QED BY <1>1, <1>6, <1>7, ReturnedLeaves

\* sleep().
LEMMA SleptLeaves ==
  ASSUME NEW K, IsMem(K), NEW p \in Procs, NEW n
  PROVE  Leaves(K, Slept(K, p, n), p)
<1> DEFINE c    == Chain(K, K.sleep_list)
           w    == Passed(K, c, n)
           succ == IF w.at = Len(c) THEN NULL ELSE c[w.at + 1]
           K0   == Set(K, p, "next", succ)
           K1   == Set(K0, p, "delta", w.left)
           K2   == IF succ = NULL THEN K1
                   ELSE Set(K1, succ, "delta", K1.pcb[succ].delta - w.left)
           K3   == IF w.at = 0 THEN [K2 EXCEPT !.sleep_list = p]
                   ELSE Set(K2, c[w.at], "next", p)
<1>1. Slept(K, p, n) = IF n = 0 THEN ready(K, p) ELSE Set(K3, p, "state", "SLEEPING")
  BY DEF Slept
<1> HIDE DEF c, w, succ
<1>2. Readies(K, K0)
  BY SetReadies
<1> HIDE DEF K0
<1>3. Readies(K0, K1)
  BY <1>2, SetReadies DEF Readies
<1>4. Readies(K, K1)
  BY <1>2, <1>3, ReadiesMore
<1> HIDE DEF K1
<1>5. Readies(K1, K2)
  BY <1>4, SetReadies DEF Readies
<1>6. Readies(K, K2)
  BY <1>4, <1>5, ReadiesMore
<1> HIDE DEF K2
<1>7. Readies(K2, K3)
  BY <1>6, SetReadies, FieldReadies DEF Readies
<1>8. Readies(K, K3)
  BY <1>6, <1>7, ReadiesMore
<1> HIDE DEF K3
<1>9. Leaves(K3, Set(K3, p, "state", "SLEEPING"), p)
  BY <1>8, BlockLeaves DEF Readies, States
<1>10. Leaves(K, Set(K3, p, "state", "SLEEPING"), p)
  BY <1>8, <1>9, ReadiesThenLeaves
<1> QED BY <1>1, <1>10, ReadyLeaves

\* tick().
LEMMA WokenReadies ==
  ASSUME NEW K, IsMem(K)
  PROVE  Readies(K, Woken(K))
<1> DEFINE h == K.sleep_list
           L == Set(K, h, "irc", 0)
           M == [L EXCEPT !.sleep_list = K.pcb[h].next]
<1>1. Woken(K) = ready(M, h)
  BY DEF Woken
<1>2. Readies(K, L)
  BY SetReadies
<1> HIDE DEF L
<1>3. Readies(L, M)
  BY <1>2, FieldReadies DEF Readies
<1> HIDE DEF M
<1>4. Readies(M, ready(M, h))
  BY <1>3, ReadyReadies DEF Readies
<1> QED BY <1>1, <1>2, <1>3, <1>4, ReadiesMore

\* One round of the loop of tick(), and of that of cleanup() for a queue of p.
Wakes(M) ==
  IF M.sleep_list # NULL /\ M.pcb[M.sleep_list].delta = 0 THEN Woken(M) ELSE M

Frees(M, p, queue) ==
  LET w == M.pcb[p][queue]
  IN  IF w = NULL THEN M
      ELSE ready(Set(Set(M, p, queue, M.pcb[w].next), w, "irc", SYS_SR_NO_PID), w)

Round(loop, p, queue, M) == IF loop = "tick" THEN Wakes(M) ELSE Frees(M, p, queue)

\* f has what each of n rounds leaves behind.
IsLoop(f, loop, p, queue, K, n) ==
  f = [i \in 0 .. n |-> IF i = 0 THEN K ELSE Round(loop, p, queue, f[i - 1])]

\* The loops compute what their rounds do.
LEMMA LoopsRun ==
  ASSUME NEW loop, NEW p, NEW queue, NEW K, NEW n \in Nat
  PROVE  \E w : IsLoop(w, loop, p, queue, K, n)
<1> DEFINE Runs(m, w) == /\ w = [i \in 0 .. m |-> w[i]]
                         /\ w[0] = K
                         /\ \A i \in 1 .. m : w[i] = Round(loop, p, queue, w[i - 1])
           S == {m \in 0 .. n : \E w : Runs(m, w)}
<1>1. 0 \in S
  <2> DEFINE z == [i \in 0 .. 0 |-> K]
  <2>1. Runs(0, z)
    OBVIOUS
  <2> HIDE DEF z, Runs
  <2> QED BY <2>1
<1>2. ASSUME NEW m \in 0 .. n, m < n, m \in S PROVE m + 1 \in S
  <2>1. PICK w : Runs(m, w)
    BY <1>2
  <2> DEFINE v == [i \in 0 .. m + 1 |-> IF i = m + 1 THEN Round(loop, p, queue, w[m])
                                        ELSE w[i]]
  <2>2. m \in Nat /\ m + 1 \in 0 .. n
    BY <1>2
  <2>3. v[0] = K /\ v = [i \in 0 .. m + 1 |-> v[i]]
    BY <2>1, <2>2
  <2>4. ASSUME NEW i \in 1 .. m + 1 PROVE v[i] = Round(loop, p, queue, v[i - 1])
    <3>1. i - 1 \in 0 .. m + 1 /\ i \in 0 .. m + 1 /\ i - 1 # m + 1
      BY <2>2
    <3>2. v[i - 1] = w[i - 1]
      BY <3>1
    <3>3. CASE i = m + 1
      <4>1. v[i] = Round(loop, p, queue, w[m]) /\ i - 1 = m
        BY <2>2, <3>1, <3>3
      <4> QED BY <3>2, <4>1
    <3>4. CASE i # m + 1
      <4>1. i \in 1 .. m /\ v[i] = w[i]
        BY <2>2, <3>1, <3>4
      <4> QED BY <2>1, <3>2, <4>1
    <3> QED BY <3>3, <3>4
  <2>5. Runs(m + 1, v)
    BY <2>3, <2>4
  <2> HIDE DEF v, Runs
  <2> QED BY <2>2, <2>5
<1> HIDE DEF S
<1>3. n \in S
  BY <1>1, <1>2, CountUp
<1>4. PICK w : Runs(n, w)
  BY <1>3 DEF S
<1>5. ASSUME NEW i \in 0 .. n
      PROVE  w[i] = IF i = 0 THEN K ELSE Round(loop, p, queue, w[i - 1])
  <2>1. CASE i = 0
    BY <1>4, <2>1
  <2>2. CASE i # 0
    <3>1. i \in 1 .. n
      BY <2>2
    <3> QED BY <1>4, <2>2, <3>1
  <2> QED BY <2>1, <2>2
<1>6. w = [i \in 0 .. n |-> w[i]]
  BY <1>4
<1> HIDE DEF Runs
<1> QED BY <1>5, <1>6 DEF IsLoop

LEMMA WakesReady ==
  ASSUME NEW K, IsMem(K)
  PROVE  Readies(K, Wakes(K))
  BY WokenReadies DEF Wakes, Readies

LEMMA FreesReady ==
  ASSUME NEW K, IsMem(K), NEW p, NEW queue \in {"senders", "receivers"}
  PROVE  Readies(K, Frees(K, p, queue))
<1> DEFINE w == K.pcb[p][queue]
           L == Set(K, p, queue, K.pcb[w].next)
           M == Set(L, w, "irc", SYS_SR_NO_PID)
<1>1. Frees(K, p, queue) = IF w = NULL THEN K ELSE ready(M, w)
  BY DEF Frees
<1> HIDE DEF w
<1>2. queue # "state" /\ Readies(K, K)
  BY DEF Readies
<1>3. Readies(K, L)
  BY <1>2, SetReadies
<1> HIDE DEF L
<1>4. Readies(L, M)
  BY <1>3, SetReadies DEF Readies
<1> HIDE DEF M
<1>5. Readies(M, ready(M, w))
  BY <1>4, ReadyReadies DEF Readies
<1> QED BY <1>1, <1>2, <1>3, <1>4, <1>5, ReadiesMore

\* What rounds from K on leave behind.
LEMMA LoopReadies ==
  ASSUME NEW loop, NEW p, NEW queue \in {"senders", "receivers"}, NEW K, IsMem(K),
         NEW n \in Nat, NEW w, IsLoop(w, loop, p, queue, K, n)
  PROVE  Readies(K, w[n])
<1>1. \A i \in 0 .. n : w[i] = IF i = 0 THEN K ELSE Round(loop, p, queue, w[i - 1])
  BY DEF IsLoop
<1> DEFINE S == {i \in 0 .. n : Readies(K, w[i])}
<1>2. 0 \in S
  BY <1>1 DEF Readies
<1>3. ASSUME NEW i \in 0 .. n, i < n, i \in S PROVE i + 1 \in S
  <2>1. i + 1 \in 0 .. n /\ (i + 1) - 1 = i /\ i + 1 # 0
    BY <1>3
  <2>2. w[i + 1] = Round(loop, p, queue, w[i]) /\ Readies(K, w[i])
    BY <1>1, <1>3, <2>1
  <2>3. Readies(w[i], w[i + 1])
    <3>1. IsMem(w[i])
      BY <2>2 DEF Readies
    <3>2. Readies(w[i], Wakes(w[i])) /\ Readies(w[i], Frees(w[i], p, queue))
      BY <3>1, WakesReady, FreesReady
    <3> QED BY <2>2, <3>2 DEF Round
  <2> QED BY <2>1, <2>2, <2>3, ReadiesMore
<1>4. \A i \in S : Readies(K, w[i])
  OBVIOUS
<1> HIDE DEF S
<1>5. \A i \in 0 .. n : i \in S
  BY <1>2, <1>3, CountUp
<1>6. n \in 0 .. n
  OBVIOUS
<1> QED BY <1>4, <1>5, <1>6


LEMMA TickedReadies ==
  ASSUME NEW K, IsMem(K)
  PROVE  Readies(K, Ticked(K))
<1> DEFINE h == K.sleep_list
           L == Set(K, h, "delta", K.pcb[h].delta - 1)
           n == NumProc + 1
           w == CHOOSE f : IsLoop(f, "tick", 0, "senders", L, n)
<1>1. Ticked(K) = IF h = NULL THEN K ELSE w[n]
  BY DEF Ticked, IsLoop, Round, Wakes
<1>2. Readies(K, L) /\ Readies(K, K) /\ n \in Nat
  BY SetReadies, NumProcAssumption DEF Readies
<1> HIDE DEF L, n
<1>3. \E f : IsLoop(f, "tick", 0, "senders", L, n)
  BY <1>2, LoopsRun
<1>4. IsLoop(w, "tick", 0, "senders", L, n)
  BY <1>3
<1> HIDE DEF w
<1>5. Readies(L, w[n])
  BY <1>2, <1>4, LoopReadies DEF Readies
<1> QED BY <1>1, <1>2, <1>5, ReadiesMore

\* cleanup(): the loops over the queues.
LEMMA ReleasedReadies ==
  ASSUME NEW K, IsMem(K), NEW p, NEW queue \in {"senders", "receivers"}
  PROVE  Readies(K, Released(K, p, queue))
<1> DEFINE n == 2 * NumProc
           w == CHOOSE f : IsLoop(f, "release", p, queue, K, n)
<1>1. Released(K, p, queue) = w[n]
  BY DEF Released, IsLoop, Round, Frees
<1>2. n \in Nat
  BY NumProcAssumption
<1> HIDE DEF n
<1>3. \E f : IsLoop(f, "release", p, queue, K, n)
  BY <1>2, LoopsRun
<1>4. IsLoop(w, "release", p, queue, K, n)
  BY <1>3
<1> HIDE DEF w
<1> QED BY <1>1, <1>2, <1>4, LoopReadies

\* cleanup().
LEMMA StoppedLeaves ==
  ASSUME NEW K, IsMem(K), NEW p \in Procs
  PROVE  Leaves(K, Stopped(K, p), p)
<1> DEFINE L == Released(K, p, "senders")
           M == Released(L, p, "receivers")
           M1 == [M EXCEPT !.pcb[p].next = NULL]
           M2 == Set(M1, p, "state", "STOPPED")
           M3 == [M2 EXCEPT !.named = M.named \ {p}]
           M4 == [M3 EXCEPT !.reader = IF M.reader = p THEN NULL ELSE M.reader]
<1>1. Stopped(K, p) = M4
  BY DEF Stopped, Set
<1>2. Readies(K, L)
  BY ReleasedReadies
<1> HIDE DEF L
<1>3. Readies(L, M)
  BY <1>2, ReleasedReadies DEF Readies
<1>4. Readies(K, M)
  BY <1>2, <1>3, ReadiesMore
<1> HIDE DEF M
<1>5. M1 = Set(M, p, "next", NULL)
  BY DEF Set
<1>6. Readies(M, M1)
  BY <1>4, <1>5, SetReadies DEF Readies
<1>7. Readies(K, M1)
  BY <1>4, <1>6, ReadiesMore
<1> HIDE DEF M1
<1>8. Leaves(M1, M2, p) /\ M2.pcb[p].state = "STOPPED"
  BY <1>7, BlockLeaves, SetState DEF Readies, States
<1> HIDE DEF M2
<1>9. Readies(M2, M3)
  BY <1>8, FieldReadies DEF Leaves
<1> HIDE DEF M3
<1>10. Readies(M3, M4)
  BY <1>9, FieldReadies DEF Readies
<1>11. Readies(M2, M4)
  BY <1>9, <1>10, ReadiesMore
<1> HIDE DEF M4
<1>12. M4.pcb[p].state \in States \ {"RUNNING"}
  BY <1>8, <1>11 DEF Readies, States
<1>13. Leaves(M1, M4, p)
  BY <1>8, <1>11, <1>12 DEF Readies, Leaves
<1>14. Leaves(K, M4, p)
  BY <1>7, <1>13, ReadiesThenLeaves
<1> QED BY <1>1, <1>14

\* signal(): a process that has been blocked is ready afterwards.
LEMMA InterruptedReadies ==
  ASSUME NEW K, IsMem(K), NEW q, NEW s
  PROVE  /\ Readies(K, Interrupted(K, q, s))
         /\ q \in Procs /\ K.pcb[q].state \in States =>
              Interrupted(K, q, s).pcb[q].state \in {"READY", "RUNNING", "STOPPED"}
<1>1. Readies(K, K)
  BY DEF Readies
<1>2. /\ Readies(K, Returned(K, q, -129)) /\ Readies(K, Returned(K, q, s))
      /\ q \in Procs => /\ Returned(K, q, -129).pcb[q].state = "READY"
                        /\ Returned(K, q, s).pcb[q].state = "READY"
  BY ReturnedReadies
<1>3. \/ /\ K.pcb[q].state \in Interruptible
         /\ Interrupted(K, q, s) = Returned(K, q, -129)
      \/ /\ K.pcb[q].state = "WAITING"
         /\ Interrupted(K, q, s) = Returned(K, q, s)
      \/ /\ K.pcb[q].state \notin Interruptible \cup {"WAITING"}
         /\ Interrupted(K, q, s) = K
  BY DEF Interrupted
<1> QED BY <1>1, <1>2, <1>3 DEF Interruptible, States


-----------------------------------------------------------------------------
(* The invariant. *)

\* The mask of a process lets none of its pending signals through.
Masked(sg, q) == sg[q].pending \cap sg[q].hi = {}

\* What holds when the end of a turn is reached: nobody is running, and whoever
\* has a signal to be delivered is ready, or has stopped.
Settled(K, sg) ==
  /\ IsMem(K)
  /\ \A q \in Procs :
       /\ K.pcb[q].state \in States \ {"RUNNING"}
       /\ K.pcb[q].state \notin {"READY", "STOPPED"} => Masked(sg, q)

\* Signals are delivered to whoever is blocked or runs; only the process that
\* runs is called so.
Delivered ==
  /\ Nested
  /\ IsMem(kern)
  /\ \A q \in Procs :
       /\ kern.pcb[q].state \in States
       /\ kern.pcb[q].state = "RUNNING" => q = run
       /\ q = run \/ kern.pcb[q].state \notin {"READY", "STOPPED"} => Masked(sigs, q)

\* The end of a turn delivers a signal to the process that it lets run.  The
\* one of the highest number is taken, and the mask closed up to it.
LEMMA TurnDelivers ==
  ASSUME NEW K, NEW sg, NEW fr, NEW us, Nest(sg, fr), Settled(K, sg),
         Turn(K, sg, fr, us)
  PROVE  Delivered'
<1> DEFINE p == Selected(K).proc
           M == Selected(K).mem
           s == Max(sg[p].pending)
<1>1. Nested'
  BY TurnNests
<1>2. /\ IsMem(M)
      /\ \A q \in Procs :
           /\ M.pcb[q].state \in States \ {"RUNNING"}
           /\ M.pcb[q].state \notin {"READY", "STOPPED"} => Masked(sg, q)
  BY SelectedReadies DEF Readies, Settled, States
<1>3. CASE p = NULL
  <2>1. run' = NULL /\ kern' = M /\ sigs' = sg
    BY <1>3 DEF Turn
  <2>2. NULL \notin Procs
    BY DEF NULL, Procs
  <2> HIDE DEF M
  <2> QED BY <1>1, <1>2, <2>1, <2>2 DEF Delivered, Masked
<1>4. CASE p # NULL
  <2>1. run' = p /\ kern' = Set(M, p, "state", "RUNNING")
    BY <1>4 DEF Turn
  <2> DEFINE f == Frame(p, s, M, sg[p], us[p])
  <2>2. IF Deliverable(sg[p])
        THEN sigs' = [sg EXCEPT ![p].pending = @ \ {s}, ![p].hi = Above(s)]
        ELSE sigs' = sg
    BY <1>4 DEF Turn
  <2>3. IsMem(kern') /\ \A q \in Procs :
          kern'.pcb[q].state = IF q = p THEN "RUNNING" ELSE M.pcb[q].state
    BY <1>2, <2>1, SetState
  <2> HIDE DEF p, M, s
  <2>4. ASSUME NEW q \in Procs, q # p PROVE sigs'[q] = sg[q]
    BY <2>2, <2>4 DEF Nest
  <2>5. ASSUME p \in Procs PROVE Masked(sigs', p)
    <3>1. IsSignals(sg[p]) /\ sg[p].pending \subseteq Sigs
      BY <2>5 DEF Nest
    <3>2. CASE ~Deliverable(sg[p])
      BY <2>2, <3>2 DEF Deliverable, Masked
    <3>3. CASE Deliverable(sg[p])
      <4>1. /\ sigs'[p].pending = sg[p].pending \ {s}
            /\ sigs'[p].hi = Above(s)
        <5>1. p \in DOMAIN sg /\ "pending" \in DOMAIN sg[p] /\ "hi" \in DOMAIN sg[p]
          BY <2>5, <3>1 DEF Nest, IsSignals
        <5>2. sigs' = [sg EXCEPT ![p].pending = @ \ {s}, ![p].hi = Above(s)]
          BY <2>2, <3>3
        <5> QED BY <5>1, <5>2
      <4>2. s \in sg[p].pending /\ \A t \in sg[p].pending : s >= t
        BY <3>1, <3>3, HighestSignal DEF Deliverable, s
      <4>3. \A t \in sg[p].pending : t \in Int
        BY <3>1, SignalNumbers
      <4>4. \A t \in sg[p].pending : ~(t > s)
        BY <4>2, <4>3
      <4> QED BY <4>1, <4>4 DEF Masked, Above
    <3> QED BY <3>2, <3>3
  <2>6. ASSUME NEW q \in Procs
        PROVE  /\ kern'.pcb[q].state \in States
               /\ kern'.pcb[q].state = "RUNNING" => q = run'
               /\ q = run' \/ kern'.pcb[q].state \notin {"READY", "STOPPED"}
                    => Masked(sigs', q)
    <3>1. CASE q = p
      BY <2>1, <2>3, <2>5, <3>1 DEF States
    <3>2. CASE q # p
      BY <1>2, <2>1, <2>3, <2>4, <3>2 DEF Masked
    <3> QED BY <3>1, <3>2
  <2> QED BY <1>1, <2>3, <2>6 DEF Delivered, Masked
<1> QED BY <1>3, <1>4

\* A call that touches no signals.
LEMMA PlainDelivers ==
  ASSUME Delivered, NEW p \in Procs, run = p, NEW M, Leaves(kern, M, p), NEW u,
         TurnPlain(M, p, u)
  PROVE  Delivered'
<1>1. Settled(M, sigs)
  BY DEF Settled, Leaves, Delivered, States
<1>2. PICK us : Turn(M, sigs, frames, us)
  BY DEF TurnPlain
<1> QED BY <1>1, <1>2, TurnDelivers DEF Delivered, Nested


LEMMA ReturnsDelivers ==
  ASSUME Delivered, NEW p \in Procs, NEW v, NEW u, Returns(p, v, u)
  PROVE  Delivered'
  BY ReturnedLeaves, PlainDelivers DEF Returns, Calls, Delivered

\* Calls of one process that only change kernel memory.
LEMMA CallsDeliver ==
  ASSUME Delivered, NEW p \in Procs, NEW u, NEW a, NEW n,
         \/ Yield(p, u) \/ Send(p, a, n, u) \/ Recv(p, a, n, u) \/ Sleep(p, n, u)
         \/ SigWait(p, u) \/ ReadBlocks(p, u)
  PROVE  Delivered'
<1>1. IsMem(kern)
  BY DEF Delivered
<1>2. CASE Yield(p, u)
  BY <1>1, <1>2, ReadyLeaves, PlainDelivers DEF Yield, Calls
<1>3. CASE Send(p, a, n, u) \/ Recv(p, a, n, u)
  <2> DEFINE K == Args(kern, p, a, n)
  <2>1. Readies(kern, K)
    BY <1>1, ArgsReadies
  <2>2. run = p /\ (TurnPlain(Sent(K, p, a), p, u) \/ TurnPlain(Received(K, p, a), p, u))
    BY <1>3 DEF Send, Recv, Calls
  <2> HIDE DEF K
  <2>3. Leaves(K, Sent(K, p, a), p) /\ Leaves(K, Received(K, p, a), p)
    BY <2>1, SentLeaves, ReceivedLeaves DEF Readies
  <2>4. Leaves(kern, Sent(K, p, a), p) /\ Leaves(kern, Received(K, p, a), p)
    BY <2>1, <2>3, ReadiesThenLeaves
  <2> QED BY <2>2, <2>4, PlainDelivers
<1>4. CASE Sleep(p, n, u)
  BY <1>1, <1>4, SleptLeaves, PlainDelivers DEF Sleep, Calls
<1>5. CASE SigWait(p, u)
  BY <1>1, <1>5, BlockLeaves, PlainDelivers DEF SigWait, Calls, States
<1>6. CASE ReadBlocks(p, u)
  <2> DEFINE K == [kern EXCEPT !.reader = p]
  <2>1. Readies(kern, K)
    BY <1>1, FieldReadies
  <2>2. run = p /\ TurnPlain(Set(K, p, "state", "READING"), p, u)
    BY <1>6 DEF ReadBlocks, Calls
  <2> HIDE DEF K
  <2>3. Leaves(K, Set(K, p, "state", "READING"), p)
    BY <2>1, BlockLeaves DEF Readies, States
  <2>4. Leaves(kern, Set(K, p, "state", "READING"), p)
    BY <2>1, <2>3, ReadiesThenLeaves
  <2> QED BY <2>2, <2>4, PlainDelivers
<1> QED BY <1>2, <1>3, <1>4, <1>5, <1>6

\* The timer readies sleepers and the process that it interrupts.
LEMMA TimerDelivers ==
  ASSUME Delivered, NEW p \in Procs, NEW v, NEW u,
         Timer(p, v, u) \/ TimerUncounted(p, v, u)
  PROVE  Delivered'
<1>1. CASE TimerUncounted(p, v, u)
  BY <1>1, ReturnedLeaves, PlainDelivers DEF TimerUncounted, Calls, Delivered
<1>2. CASE Timer(p, v, u)
  <2> DEFINE K == Set(kern, p, "irc", v)
             L == Ticked(K)
  <2>1. run = p /\ TurnPlain(ready(L, p), p, u)
    BY <1>2 DEF Timer, Calls
  <2>2. Readies(kern, K)
    BY SetReadies DEF Delivered
  <2> HIDE DEF K
  <2>3. Readies(K, L)
    BY <2>2, TickedReadies DEF Readies
  <2>4. Readies(kern, L)
    BY <2>2, <2>3, ReadiesMore
  <2> HIDE DEF L
  <2>5. Leaves(L, ready(L, p), p)
    BY <2>4, ReadyLeaves DEF Readies
  <2>6. Leaves(kern, ready(L, p), p)
    BY <2>4, <2>5, ReadiesThenLeaves
  <2> QED BY <2>1, <2>6, PlainDelivers
<1> QED BY <1>1, <1>2

\* A key readies the process whose request it serves.
LEMMA KeyDelivers ==
  ASSUME Delivered, NEW v, Key(v)
  PROVE  Delivered'
<1> DEFINE K == Returned(kern, kern.reader, v)
<1>1. /\ kern' = [K EXCEPT !.reader = NULL]
      /\ UNCHANGED <<sigs, frames, run>>
  BY DEF Key
<1>2. Readies(kern, K)
  BY ReturnedReadies DEF Delivered
<1> HIDE DEF K
<1>3. Readies(K, kern')
  BY <1>1, <1>2, FieldReadies DEF Readies
<1>4. Readies(kern, kern')
  BY <1>2, <1>3, ReadiesMore
<1>5. Nested'
  BY <1>1 DEF Delivered, Nested
<1> QED BY <1>1, <1>4, <1>5 DEF Delivered, Readies, Masked, States

\* The new user of a slot has no signals.
LEMMA CreateDelivers ==
  ASSUME Delivered, NEW p \in Procs, NEW q \in Procs, NEW f, NEW u, Create(p, q, f, u)
  PROVE  Delivered'
<1> DEFINE pid == kern.nextPid
           K0 == [kern EXCEPT !.pcb[q] = FreshPcb(pid, kern.pcb[p].pid)]
           K  == [kern EXCEPT !.pcb[q] = FreshPcb(pid, kern.pcb[p].pid),
                              !.named = @ \cup {q}, !.nextPid = @ + 1]
           L  == ready(K, q)
           M  == Returned(L, p, pid)
           sg == [sigs EXCEPT ![q] = NoSignals]
           fr == [frames EXCEPT ![q] = <<>>]
<1>1. run = p /\ \E us : Turn(M, sg, fr, us)
  BY DEF Create, Calls
<1>2. /\ IsMem(K) /\ K.pcb[q].state = "READY"
      /\ \A r \in Procs \ {q} : K.pcb[r].state = kern.pcb[r].state
  BY DEF Delivered, IsMem, FreshPcb
<1> HIDE DEF K
<1>3. Readies(K, L)
  BY <1>2, ReadyReadies
<1> HIDE DEF L
<1>4. Leaves(L, M, p)
  BY <1>3, ReturnedLeaves DEF Readies
<1>5. Leaves(K, M, p)
  BY <1>3, <1>4, ReadiesThenLeaves
<1> HIDE DEF M
<1>6. Nest(sg, fr)
  <2>1. /\ IsSignals(NoSignals) /\ NoSignals.pending \subseteq Sigs
        /\ NoSignals.hi \subseteq Sigs
    BY DEF NoSignals, IsSignals
  <2> QED BY <2>1, FreshNests DEF Delivered, Nested
<1>7. /\ Masked(sg, q) /\ \A r \in Procs \ {q} : sg[r] = sigs[r]
  BY DEF Delivered, Nested, Nest, Masked, NoSignals
<1>8. Settled(M, sg)
  <2> HIDE DEF sg
  <2>1. ASSUME NEW r \in Procs
        PROVE  /\ M.pcb[r].state \in States \ {"RUNNING"}
               /\ M.pcb[r].state \notin {"READY", "STOPPED"} => Masked(sg, r)
    <3>1. CASE r = q
      BY <1>2, <1>5, <1>7, <3>1 DEF Leaves, States
    <3>2. CASE r # q
      BY <1>1, <1>2, <1>5, <1>7, <3>2 DEF Leaves, States, Delivered, Masked
    <3> QED BY <3>1, <3>2
  <2> QED BY <1>5, <2>1 DEF Settled, Leaves
<1> QED BY <1>1, <1>6, <1>8, TurnDelivers


\* A call that changes the signal fields of the caller, and returns.
LEMMA CallerSettles ==
  ASSUME Delivered, NEW p \in Procs, run = p, NEW v, NEW sg,
         \A q \in Procs \ {p} : sg[q] = sigs[q]
  PROVE  Settled(Returned(kern, p, v), sg)
<1> DEFINE M == Returned(kern, p, v)
<1>1. Readies(kern, M) /\ M.pcb[p].state = "READY"
  BY ReturnedReadies DEF Delivered
<1> HIDE DEF M
<1>2. Settled(M, sg)
  BY <1>1 DEF Settled, Readies, Delivered, Masked, States
<1> QED BY <1>2 DEF M

LEMMA StopDelivers ==
  ASSUME Delivered, NEW p \in Procs, Stop(p)
  PROVE  Delivered'
<1> DEFINE M == Stopped(kern, p)
           fr == [frames EXCEPT ![p] = <<>>]
<1>1. run = p /\ \E us : Turn(M, sigs, fr, us)
  BY DEF Stop, Calls
<1>2. Leaves(kern, M, p)
  BY StoppedLeaves DEF Delivered
<1> HIDE DEF M
<1>3. Settled(M, sigs)
  BY <1>1, <1>2 DEF Settled, Leaves, Delivered, States
<1>4. Nest(sigs, fr)
  <2>1. /\ IsSignals(sigs[p]) /\ sigs[p].pending \subseteq Sigs
        /\ sigs[p].hi \subseteq Sigs
    BY MaskSignals DEF Delivered, Nested, Nest
  <2>2. [sigs EXCEPT ![p] = sigs[p]] = sigs
    BY DEF Delivered, Nested, Nest
  <2>3. Nest([sigs EXCEPT ![p] = sigs[p]], fr)
    BY <2>1, FreshNests DEF Delivered, Nested
  <2> QED BY <2>2, <2>3
<1> QED BY <1>1, <1>3, <1>4, TurnDelivers

\* signal(): whoever is blocked is readied together with its new signal.
LEMMA KillDelivers ==
  ASSUME Delivered, NEW p \in Procs, NEW pid, NEW s, NEW u, Kill(p, pid, s, u)
  PROVE  Delivered'
<1> DEFINE q  == SlotOf(kern, pid)
           sg == [sigs EXCEPT ![q].pending = @ \cup {s}]
           L  == Interrupted(kern, q, s)
           M  == Returned(L, p, 0)
<1>1. run = p /\ s \in Sigs
  BY DEF Kill, Calls
<1>2. CASE s \in sigs[q].allowed
  <2>1. PICK us : Turn(M, sg, frames, us)
    BY <1>2 DEF Kill
  <2> HIDE DEF q
  <2>2. /\ Readies(kern, L)
        /\ q \in Procs => L.pcb[q].state \in {"READY", "RUNNING", "STOPPED"}
    BY InterruptedReadies DEF Delivered
  <2> HIDE DEF L
  <2>3. Readies(L, M) /\ M.pcb[p].state = "READY"
    BY <2>2, ReturnedReadies DEF Readies
  <2>4. Readies(kern, M)
    BY <2>2, <2>3, ReadiesMore
  <2> HIDE DEF M
  <2>5. \A r \in Procs : r # q => sg[r] = sigs[r]
    BY DEF Delivered, Nested, Nest
  <2>6. Settled(M, sg)
    <3> HIDE DEF sg
    <3>1. ASSUME NEW r \in Procs
          PROVE  /\ M.pcb[r].state \in States \ {"RUNNING"}
                 /\ M.pcb[r].state \notin {"READY", "STOPPED"} => Masked(sg, r)
      <4>1. M.pcb[r].state \in States \ {"RUNNING"}
        BY <1>1, <2>3, <2>4 DEF Readies, Delivered, States
      <4>2. CASE r # q
        BY <1>1, <2>3, <2>4, <2>5, <4>1, <4>2 DEF Readies, Delivered, Masked
      <4>3. CASE r = q
        <5>1. M.pcb[r].state \in {"READY", "STOPPED"}
          BY <2>2, <2>3, <4>1, <4>3 DEF Readies
        <5> QED BY <4>1, <5>1
      <4> QED BY <4>2, <4>3
    <3> QED BY <2>4, <3>1 DEF Settled, Readies
  <2>7. CASE q \in Procs
    <3>1. IsSignals(sigs[q]) /\ sigs[q].pending \subseteq Sigs
      BY <2>7 DEF Delivered, Nested, Nest
    <3>2. /\ sg = [x \in Procs |-> sg[x]]
          /\ IsSignals(sg[q]) /\ sg[q].pending = sigs[q].pending \cup {s}
          /\ sg[q].hi = sigs[q].hi
      BY <2>7, <3>1 DEF Delivered, Nested, Nest, IsSignals
    <3> HIDE DEF sg
    <3>3. Nest(sg, frames)
      BY <1>1, <2>5, <2>7, <3>1, <3>2, FieldsNest DEF Delivered, Nested
    <3> QED BY <2>1, <2>6, <3>3, TurnDelivers
  <2>8. CASE q \notin Procs
    <3>1. sg = sigs
      BY <2>8 DEF Delivered, Nested, Nest
    <3>2. Nest(sg, frames)
      BY <3>1 DEF Delivered, Nested
    <3> QED BY <2>1, <2>6, <3>2, TurnDelivers
  <2> QED BY <2>7, <2>8
<1>3. CASE s \notin sigs[q].allowed
  <2>1. Returns(p, 0, u)
    BY <1>3 DEF Kill, Returns
  <2> QED BY <2>1, ReturnsDelivers
<1> QED BY <1>2, <1>3

LEMMA SigHandlerDelivers ==
  ASSUME Delivered, NEW p \in Procs, NEW s, NEW h, NEW u, SigHandler(p, s, h, u)
  PROVE  Delivered'
<1> DEFINE sg == [sigs EXCEPT ![p].handler[s] = h,
                    ![p].allowed = IF h = "none" THEN @ \ {s} ELSE @ \cup {s}]
<1>1. run = p /\ \E us : Turn(Returned(kern, p, 0), sg, frames, us)
  BY DEF SigHandler, Calls
<1>2. IsSignals(sigs[p]) /\ sigs[p].pending \subseteq Sigs
  BY DEF Delivered, Nested, Nest
<1>3. /\ sg = [x \in Procs |-> sg[x]] /\ \A x \in Procs : x # p => sg[x] = sigs[x]
      /\ IsSignals(sg[p]) /\ sg[p].pending = sigs[p].pending
      /\ sg[p].hi = sigs[p].hi
  BY <1>2 DEF Delivered, Nested, Nest, IsSignals
<1> HIDE DEF sg
<1>4. Nest(sg, frames)
  BY <1>2, <1>3, FieldsNest DEF Delivered, Nested
<1>5. Settled(Returned(kern, p, 0), sg)
  BY <1>1, <1>3, CallerSettles
<1> QED BY <1>1, <1>4, <1>5, TurnDelivers

\* syssigreturn() opens the mask of its caller, which then waits for its turn.
LEMMA SigReturnDelivers ==
  ASSUME Delivered, NEW p \in Procs, SigReturn(p)
  PROVE  Delivered'
<1> DEFINE f  == Last(frames[p])
           M  == Returned(kern, p, f.old_irc)
           sg == [sigs EXCEPT ![p].hi = f.old_hi]
           fr == [frames EXCEPT ![p] = Front(@)]
<1>1. run = p /\ frames[p] # <<>> /\ \E us : Turn(M, sg, fr, us)
  BY DEF SigReturn, Calls
<1>2. /\ IsSignals(sigs[p]) /\ sigs[p].pending \subseteq Sigs
      /\ Climbs(frames[p], sigs[p].hi)
  BY DEF Delivered, Nested, Nest
<1>3. Climbs(Front(frames[p]), f.old_hi)
  BY <1>1, <1>2, PopClimbs
<1> HIDE DEF f
<1>4. /\ sg = [x \in Procs |-> sg[x]] /\ \A x \in Procs : x # p => sg[x] = sigs[x]
      /\ IsSignals(sg[p]) /\ sg[p].pending = sigs[p].pending
      /\ sg[p].hi = f.old_hi
  BY <1>2 DEF Delivered, Nested, Nest, IsSignals
<1>5. /\ fr = [x \in Procs |-> fr[x]] /\ \A x \in Procs : x # p => fr[x] = frames[x]
      /\ fr[p] = Front(frames[p])
  BY DEF Delivered, Nested, Nest
<1> HIDE DEF sg, fr
<1>6. ASSUME NEW x \in Procs
      PROVE  /\ IsSignals(sg[x]) /\ sg[x].pending \subseteq Sigs
             /\ Climbs(fr[x], sg[x].hi)
  <2>1. CASE x = p
    BY <1>2, <1>3, <1>4, <1>5, <2>1
  <2>2. CASE x # p
    BY <1>4, <1>5, <2>2 DEF Delivered, Nested, Nest
  <2> QED BY <2>1, <2>2
<1>7. Nest(sg, fr)
  BY <1>4, <1>5, <1>6 DEF Nest
<1>8. Settled(M, sg)
  BY <1>1, <1>4, CallerSettles
<1> HIDE DEF M
<1> QED BY <1>1, <1>7, <1>8, TurnDelivers


-----------------------------------------------------------------------------
(* The programs. *)

LEMMA EndsDelivers ==
  ASSUME Delivered, NEW p \in Procs, Ends(p)
  PROVE  Delivered'
  BY SigReturnDelivers, StopDelivers DEF Ends

LEMMA PerformsDelivers ==
  ASSUME Delivered, NEW p \in Procs, Performs(p)
  PROVE  Delivered'
<1> DEFINE i  == Now(p)
           to == To(p, i.to)
           u  == After(p, i)
<1>1. CASE \/ Yield(p, u) \/ Send(p, to, i.n, u) \/ Recv(p, to, i.n, u)
           \/ Sleep(p, i.n, u) \/ SigWait(p, u)
  BY <1>1, CallsDeliver, Zenon
<1>2. CASE \/ CreateRefused(p, u) \/ SigHandlerRefused(p, i.n, i.to, u)
           \/ KillRefused(p, to, i.n, u)
  BY <1>2, ReturnsDelivers, Zenon DEF CreateRefused, SigHandlerRefused, KillRefused
<1>3. CASE \E q \in Procs : Create(p, q, i.to, u)
  BY <1>3, CreateDelivers, Zenon
<1>4. CASE SigHandler(p, i.n, i.to, u)
  BY <1>4, SigHandlerDelivers, Zenon
<1>5. CASE Kill(p, to, i.n, u)
  BY <1>5, KillDelivers, Zenon
<1> QED BY <1>1, <1>2, <1>3, <1>4, <1>5, Zenon DEF Performs

LEMMA PerformsReadDelivers ==
  ASSUME Delivered, NEW p \in Procs, PerformsRead(p)
  PROVE  Delivered'
<1>1. PICK v : ReadBlocks(p, v) \/ \E c \in {0, 1} : Returns(p, c, v)
  BY Zenon DEF PerformsRead
<1> QED BY <1>1, CallsDeliver, ReturnsDelivers, Zenon

LEMMA PerformsAnythingDelivers ==
  ASSUME Delivered, NEW p \in Procs, PerformsAnything(p)
  PROVE  Delivered'
<1>1. CASE Yield(p, Again(p, AnyResult)) \/ SigWait(p, Again(p, FreeSigs))
  BY <1>1, CallsDeliver, Zenon
<1>2. CASE \E s \in FreeSigs, h \in {"handling", "none"} :
             SigHandler(p, s, h, Again(p, {0}))
  BY <1>2, SigHandlerDelivers, Zenon
<1>3. CASE \E s \in FreeSigs, pid \in {kern.pcb[p].pid, kern.pcb[1].pid} :
             Kill(p, pid, s, Again(p, {0}))
  BY <1>3, KillDelivers, Zenon
<1>4. CASE Ends(p)
  BY <1>4, EndsDelivers
<1> QED BY <1>1, <1>2, <1>3, <1>4, Zenon DEF PerformsAnything

\* Every step keeps the invariant.
LEMMA NextDelivers == Delivered /\ [Next]_allVars => Delivered'
<1> SUFFICES ASSUME Delivered, [Next]_allVars PROVE Delivered'
  OBVIOUS
<1>1. ASSUME NEW p \in Procs, Program(p) PROVE Delivered'
  <2>1. CASE Yield(p, user[p])
    BY <2>1, CallsDeliver, Zenon
  <2> QED BY <1>1, <2>1, PerformsDelivers, PerformsReadDelivers,
             PerformsAnythingDelivers, EndsDelivers, StopDelivers, Zenon DEF Program
<1>2. ASSUME NEW p \in Procs, Raise(p) PROVE Delivered'
  BY <1>2, EndsDelivers DEF Raise
<1>3. CASE Tick
  <2>1. PICK p \in Procs, v \in Eax :
          LET u == Again(p, {v})
          IN  IF Quiet THEN Timer(p, v, u) ELSE TimerUncounted(p, v, u)
    BY <1>3 DEF Tick
  <2> QED BY <2>1, TimerDelivers, Zenon
<1>4. CASE Type
  BY <1>4, KeyDelivers, Zenon DEF Type
<1>5. CASE UNCHANGED allVars
  BY <1>5 DEF allVars, vars, Delivered, Nested, Masked
<1> QED BY <1>1, <1>2, <1>3, <1>4, <1>5, Zenon DEF Next

LEMMA InitDelivers == Init => Delivered
<1> SUFFICES ASSUME Init PROVE Delivered
  OBVIOUS
<1>1. PICK b, n :
        kern = [pcb |-> [p \in Procs |->
                  IF p > n THEN [FreshPcb(0, 0) EXCEPT !.state = "STOPPED"]
                  ELSE IF p = 1 THEN [FreshPcb(1, 0) EXCEPT !.state = "RUNNING"]
                  ELSE [FreshPcb(p, 0) EXCEPT !.next = IF p < n THEN p + 1 ELSE NULL]],
                ready_queue |-> IF n > 1 THEN 2 ELSE NULL, sleep_list |-> NULL,
                idle |-> b.idle, timer |-> b.timer, named |-> 1 .. n,
                nextPid |-> n + 1, reader |-> NULL]
  BY Zenon DEF Init
<1>2. /\ IsMem(kern)
      /\ \A p \in Procs : kern.pcb[p].state \in {"STOPPED", "READY", "RUNNING"}
      /\ \A p \in Procs : kern.pcb[p].state = "RUNNING" => p = 1
  <2>1. kern.pcb = [p \in Procs |->
                  IF p > n THEN [FreshPcb(0, 0) EXCEPT !.state = "STOPPED"]
                  ELSE IF p = 1 THEN [FreshPcb(1, 0) EXCEPT !.state = "RUNNING"]
                  ELSE [FreshPcb(p, 0) EXCEPT !.next = IF p < n THEN p + 1 ELSE NULL]]
        /\ "pcb" \in DOMAIN kern
    BY <1>1
  <2>2. ASSUME NEW p \in Procs
        PROVE  /\ "state" \in DOMAIN kern.pcb[p]
               /\ kern.pcb[p].state \in {"STOPPED", "READY", "RUNNING"}
               /\ kern.pcb[p].state = "RUNNING" => p = 1
    BY <2>1 DEF FreshPcb
  <2> QED BY <2>1, <2>2 DEF IsMem
<1>3. run = 1 /\ \A p \in Procs : sigs[p].pending = {}
  BY DEF Init, NoSignals
<1> QED BY <1>2, <1>3, InitNests DEF Delivered, Masked, States

\* No process runs, or stays blocked in a call, with a signal that its mask lets
\* through: whatever programs call and in whatever order they are interrupted,
\* signal() unblocks whom it signals, and the end of each turn delivers.
THEOREM NoSignalWaits == Spec => []SignalsAreDelivered
<1>1. Delivered => SignalsAreDelivered
  BY DEF Delivered, SignalsAreDelivered, Masked
<1> QED BY <1>1, InitDelivers, NextDelivers, PTL DEF Spec

=============================================================================
