---------------------------- MODULE QueueLemmas ----------------------------
(***************************************************************************)
(* Facts about queues: what appending, removing, inserting and splitting   *)
(* do to the set of the elements, and that they keep a queue free of       *)
(* duplicates.  Last, induction over natural numbers.                      *)
(***************************************************************************)
EXTENDS Integers, SequencesExt, SequenceTheorems, WellFoundedInduction, TLAPS

\* Membership in a queue, in terms of its positions.
LEMMA MemberSet ==
  ASSUME NEW S, NEW q \in Seq(S)
  PROVE  /\ DOMAIN q = 1 .. Len(q)
         /\ Len(q) \in Nat
         /\ ToSet(q) \subseteq S
         /\ \A i \in 1 .. Len(q) : q[i] \in ToSet(q)
         /\ \A x \in ToSet(q) : \E i \in 1 .. Len(q) : q[i] = x
  BY DEF ToSet

\* ready(), send_queue_insert() and recv_queue_insert().
LEMMA AppendSet ==
  ASSUME NEW S, NEW q \in Seq(S), NEW x \in S
  PROVE  /\ Append(q, x) \in Seq(S)
         /\ ToSet(Append(q, x)) = ToSet(q) \cup {x}
         /\ IsInjective(q) /\ x \notin ToSet(q) => IsInjective(Append(q, x))
<1> DEFINE t == Append(q, x)
<1>1. t \in Seq(S) /\ Len(t) = Len(q) + 1 /\ t[Len(q) + 1] = x
        /\ \A i \in 1 .. Len(q) : t[i] = q[i]
  BY AppendProperties
<1>2. DOMAIN q = 1 .. Len(q) /\ DOMAIN t = 1 .. Len(q) + 1 /\ Len(q) \in Nat
  BY <1>1, LenProperties
<1> HIDE DEF t
<1>3. ToSet(t) = ToSet(q) \cup {x}
  <2>1. ASSUME NEW y \in ToSet(t) PROVE y \in ToSet(q) \cup {x}
    BY <1>1, <1>2 DEF ToSet
  <2>2. ASSUME NEW y \in ToSet(q) PROVE y \in ToSet(t)
    <3>1. PICK i \in 1 .. Len(q) : q[i] = y
      BY <1>2 DEF ToSet
    <3>2. i \in DOMAIN t /\ t[i] = y
      BY <1>1, <1>2, <3>1
    <3> QED BY <3>2 DEF ToSet
  <2>3. x \in ToSet(t)
    BY <1>1, <1>2 DEF ToSet
  <2> QED BY <2>1, <2>2, <2>3
<1>4. ASSUME IsInjective(q), x \notin ToSet(q) PROVE IsInjective(t)
  <2>1. \A i \in 1 .. Len(q) : q[i] # x
    BY <1>2, <1>4 DEF ToSet
  <2> QED BY <1>1, <1>2, <1>4, <2>1 DEF IsInjective
<1> QED BY <1>1, <1>3, <1>4 DEF t

\* A list appended to another.
LEMMA ConcatSet ==
  ASSUME NEW S, NEW q \in Seq(S), NEW t \in Seq(S)
  PROVE  /\ q \o t \in Seq(S)
         /\ ToSet(q \o t) = ToSet(q) \cup ToSet(t)
         /\ IsInjective(q) /\ IsInjective(t) /\ ToSet(q) \cap ToSet(t) = {}
              => IsInjective(q \o t)
<1> DEFINE u == q \o t
<1>1. u \in Seq(S) /\ Len(u) = Len(q) + Len(t)
        /\ \A i \in 1 .. Len(q) + Len(t) :
             u[i] = IF i <= Len(q) THEN q[i] ELSE t[i - Len(q)]
  BY ConcatProperties
<1>2. /\ DOMAIN q = 1 .. Len(q) /\ DOMAIN t = 1 .. Len(t)
      /\ DOMAIN u = 1 .. Len(q) + Len(t) /\ Len(q) \in Nat /\ Len(t) \in Nat
  BY <1>1, LenProperties
<1> HIDE DEF u
<1>3. ToSet(u) = ToSet(q) \cup ToSet(t)
  <2>1. ASSUME NEW y \in ToSet(u) PROVE y \in ToSet(q) \cup ToSet(t)
    <3>1. PICK i \in 1 .. Len(q) + Len(t) : u[i] = y
      BY <1>2 DEF ToSet
    <3>2. CASE i <= Len(q)
      BY <1>1, <1>2, <3>1, <3>2 DEF ToSet
    <3>3. CASE i > Len(q)
      <4>1. i - Len(q) \in 1 .. Len(t) /\ t[i - Len(q)] = y
        BY <1>1, <1>2, <3>1, <3>3
      <4> QED BY <1>2, <4>1 DEF ToSet
    <3> QED BY <1>2, <3>2, <3>3
  <2>2. ASSUME NEW y \in ToSet(q) PROVE y \in ToSet(u)
    <3>1. PICK i \in 1 .. Len(q) : q[i] = y
      BY <1>2 DEF ToSet
    <3>2. i \in DOMAIN u /\ u[i] = y
      BY <1>1, <1>2, <3>1
    <3> QED BY <3>2 DEF ToSet
  <2>3. ASSUME NEW y \in ToSet(t) PROVE y \in ToSet(u)
    <3>1. PICK i \in 1 .. Len(t) : t[i] = y
      BY <1>2 DEF ToSet
    <3>2. i + Len(q) \in DOMAIN u /\ u[i + Len(q)] = y
      BY <1>1, <1>2, <3>1
    <3> QED BY <3>2 DEF ToSet
  <2> QED BY <2>1, <2>2, <2>3
<1>4. ASSUME IsInjective(q), IsInjective(t), ToSet(q) \cap ToSet(t) = {},
             NEW a \in 1 .. Len(q) + Len(t), NEW b \in 1 .. Len(q) + Len(t),
             u[a] = u[b], a <= b
      PROVE  a = b
  <2>1. CASE b <= Len(q)
    BY <1>1, <1>2, <1>4, <2>1 DEF IsInjective
  <2>2. CASE a > Len(q)
    <3>1. /\ a - Len(q) \in 1 .. Len(t) /\ b - Len(q) \in 1 .. Len(t)
          /\ t[a - Len(q)] = t[b - Len(q)]
      BY <1>1, <1>2, <1>4, <2>2
    <3>2. a - Len(q) = b - Len(q)
      BY <1>2, <1>4, <3>1 DEF IsInjective
    <3> QED BY <1>2, <3>2
  <2>3. CASE a <= Len(q) /\ b > Len(q)
    <3>1. a \in 1 .. Len(q) /\ b - Len(q) \in 1 .. Len(t) /\ q[a] = t[b - Len(q)]
      BY <1>1, <1>2, <1>4, <2>3
    <3>2. q[a] \in ToSet(q) /\ t[b - Len(q)] \in ToSet(t)
      BY <1>2, <3>1 DEF ToSet
    <3> QED BY <1>4, <3>1, <3>2
  <2> QED BY <1>2, <1>4, <2>1, <2>2, <2>3
<1>5. ASSUME IsInjective(q), IsInjective(t), ToSet(q) \cap ToSet(t) = {}
      PROVE  IsInjective(u)
  BY <1>2, <1>4, <1>5 DEF IsInjective
<1> QED BY <1>1, <1>3, <1>5 DEF u

\* A part of a queue has the elements at its positions.
LEMMA SliceSet ==
  ASSUME NEW S, NEW q \in Seq(S), NEW a \in 1 .. Len(q) + 1,
         NEW b \in a - 1 .. Len(q)
  PROVE  /\ SubSeq(q, a, b) \in Seq(S)
         /\ ToSet(SubSeq(q, a, b)) = {q[i] : i \in a .. b}
         /\ IsInjective(q) => IsInjective(SubSeq(q, a, b))
<1> DEFINE t == SubSeq(q, a, b)
<1>1. Len(q) \in Nat /\ DOMAIN q = 1 .. Len(q) /\ \A i \in a .. b : q[i] \in S
  BY LenProperties
<1>2. /\ t \in Seq(S) /\ Len(t) = b - a + 1
      /\ \A i \in 1 .. b - a + 1 : t[i] = q[a + i - 1]
  BY <1>1, SubSeqProperties
<1>3. DOMAIN t = 1 .. b - a + 1
  BY <1>2, LenProperties
<1> HIDE DEF t
<1>4. ToSet(t) = {q[i] : i \in a .. b}
  <2>1. ASSUME NEW x \in ToSet(t) PROVE x \in {q[i] : i \in a .. b}
    <3>1. PICK i \in 1 .. b - a + 1 : t[i] = x
      BY <1>3 DEF ToSet
    <3>2. a + i - 1 \in a .. b /\ q[a + i - 1] = x
      BY <1>1, <1>2, <3>1
    <3> QED BY <3>2
  <2>2. ASSUME NEW i \in a .. b PROVE q[i] \in ToSet(t)
    <3>1. i - a + 1 \in DOMAIN t /\ t[i - a + 1] = q[i]
      BY <1>1, <1>2, <1>3
    <3> QED BY <3>1 DEF ToSet
  <2> QED BY <2>1, <2>2
<1>5. ASSUME IsInjective(q) PROVE IsInjective(t)
  <2> SUFFICES ASSUME NEW i \in 1 .. b - a + 1, NEW j \in 1 .. b - a + 1,
                      t[i] = t[j]
               PROVE  i = j
    BY <1>3 DEF IsInjective
  <2>1. a + i - 1 \in 1 .. Len(q) /\ a + j - 1 \in 1 .. Len(q)
    BY <1>1
  <2>2. q[a + i - 1] = q[a + j - 1]
    BY <1>2
  <2>3. a + i - 1 = a + j - 1
    BY <1>1, <1>5, <2>1, <2>2 DEF IsInjective
  <2> QED BY <2>3
<1> QED BY <1>2, <1>4, <1>5 DEF t

\* tick() takes the first k sleepers off the list.
LEMMA SplitSet ==
  ASSUME NEW S, NEW q \in Seq(S), IsInjective(q), NEW k \in 0 .. Len(q)
  PROVE  /\ SubSeq(q, 1, k) \in Seq(S) /\ SubSeq(q, k + 1, Len(q)) \in Seq(S)
         /\ IsInjective(SubSeq(q, 1, k)) /\ IsInjective(SubSeq(q, k + 1, Len(q)))
         /\ ToSet(SubSeq(q, k + 1, Len(q))) = ToSet(q) \ ToSet(SubSeq(q, 1, k))
         /\ ToSet(SubSeq(q, 1, k)) \subseteq ToSet(q)
<1>1. Len(q) \in Nat /\ DOMAIN q = 1 .. Len(q)
  BY LenProperties
<1>2. /\ SubSeq(q, 1, k) \in Seq(S) /\ IsInjective(SubSeq(q, 1, k))
      /\ ToSet(SubSeq(q, 1, k)) = {q[i] : i \in 1 .. k}
  BY <1>1, SliceSet
<1>3. /\ SubSeq(q, k + 1, Len(q)) \in Seq(S)
      /\ IsInjective(SubSeq(q, k + 1, Len(q)))
      /\ ToSet(SubSeq(q, k + 1, Len(q))) = {q[i] : i \in k + 1 .. Len(q)}
  BY <1>1, SliceSet
<1>4. ToSet(q) = {q[i] : i \in 1 .. Len(q)}
  BY <1>1 DEF ToSet
<1>5. \A i \in 1 .. k, j \in k + 1 .. Len(q) : q[i] # q[j]
  BY <1>1 DEF IsInjective
<1>6. {q[i] : i \in k + 1 .. Len(q)} =
        {q[i] : i \in 1 .. Len(q)} \ {q[i] : i \in 1 .. k}
  BY <1>1, <1>5
<1>7. {q[i] : i \in 1 .. k} \subseteq {q[i] : i \in 1 .. Len(q)}
  BY <1>1
<1> QED BY <1>2, <1>3, <1>4, <1>6, <1>7

\* The sleeper that tick() stops at is the new head.
LEMMA SplitHead ==
  ASSUME NEW S, NEW q \in Seq(S), NEW k \in 0 .. Len(q),
         SubSeq(q, k + 1, Len(q)) # <<>>
  PROVE  k < Len(q) /\ Head(SubSeq(q, k + 1, Len(q))) = q[k + 1]
<1> DEFINE t == SubSeq(q, k + 1, Len(q))
<1>1. Len(q) \in Nat /\ k \in Nat /\ \A i \in k + 1 .. Len(q) : q[i] \in S
  BY LenProperties
<1>2. t \in Seq(S) /\ Len(t) = Len(q) - k
        /\ \A i \in 1 .. Len(q) - k : t[i] = q[k + i]
  BY <1>1, SubSeqProperties
<1> HIDE DEF t
<1>3. Len(t) \in Nat \ {0} /\ Head(t) = t[1]
  BY <1>2, LenProperties, EmptySeq DEF t
<1>4. k < Len(q) /\ t[1] = q[k + 1]
  BY <1>1, <1>2, <1>3
<1> QED BY <1>3, <1>4 DEF t

\* recv_queue_remove() and send_queue_remove().
LEMMA RemoveAtSet ==
  ASSUME NEW S, NEW q \in Seq(S), IsInjective(q), NEW i \in 1 .. Len(q)
  PROVE  /\ RemoveAt(q, i) \in Seq(S)
         /\ ToSet(RemoveAt(q, i)) = ToSet(q) \ {q[i]}
         /\ IsInjective(RemoveAt(q, i))
<1> DEFINE u == SubSeq(q, 1, i - 1)
           v == SubSeq(q, i + 1, Len(q))
<1>1. Len(q) \in Nat /\ DOMAIN q = 1 .. Len(q)
  BY LenProperties
<1>2. u \in Seq(S) /\ IsInjective(u) /\ ToSet(u) = {q[j] : j \in 1 .. i - 1}
  BY <1>1, SliceSet
<1>3. v \in Seq(S) /\ IsInjective(v) /\ ToSet(v) = {q[j] : j \in i + 1 .. Len(q)}
  BY <1>1, SliceSet
<1>4. RemoveAt(q, i) = u \o v
  BY DEF RemoveAt
<1> HIDE DEF u, v
<1>5. \A j, l \in 1 .. Len(q) : j # l => q[j] # q[l]
  BY <1>1 DEF IsInjective
<1>6. ToSet(u) \cap ToSet(v) = {}
  BY <1>1, <1>2, <1>3, <1>5
<1>7. ToSet(u) \cup ToSet(v) = ToSet(q) \ {q[i]}
  <2>1. ToSet(q) = {q[j] : j \in 1 .. Len(q)}
    BY <1>1 DEF ToSet
  <2> QED BY <1>1, <1>2, <1>3, <1>5, <2>1
<1>8. /\ u \o v \in Seq(S) /\ ToSet(u \o v) = ToSet(u) \cup ToSet(v)
      /\ IsInjective(u \o v)
  <2>1. u \in Seq(S) /\ IsInjective(u) /\ v \in Seq(S) /\ IsInjective(v)
    BY <1>2, <1>3
  <2> QED BY <1>6, <2>1, ConcatSet
<1> QED BY <1>4, <1>7, <1>8

\* sleep() links p between two sleepers.
LEMMA InsertAtSet ==
  ASSUME NEW S, NEW q \in Seq(S), IsInjective(q), NEW i \in 1 .. Len(q) + 1,
         NEW x \in S, x \notin ToSet(q)
  PROVE  /\ InsertAt(q, i, x) \in Seq(S)
         /\ ToSet(InsertAt(q, i, x)) = ToSet(q) \cup {x}
         /\ IsInjective(InsertAt(q, i, x))
<1> DEFINE u == SubSeq(q, 1, i - 1)
           v == SubSeq(q, i, Len(q))
<1>1. Len(q) \in Nat /\ DOMAIN q = 1 .. Len(q)
  BY LenProperties
<1>2. /\ u \in Seq(S) /\ v \in Seq(S) /\ IsInjective(u) /\ IsInjective(v)
      /\ ToSet(v) = ToSet(q) \ ToSet(u) /\ ToSet(u) \subseteq ToSet(q)
  <2>1. i - 1 \in 0 .. Len(q) /\ (i - 1) + 1 = i
    BY <1>1
  <2> QED BY <2>1, SplitSet
<1>3. InsertAt(q, i, x) = (u \o <<x>>) \o v
  BY DEF InsertAt
<1> HIDE DEF u, v
<1> DEFINE w == Append(u, x)
<1>4. u \o <<x>> = w
  BY <1>2, AppendIsConcat
<1>5. w \in Seq(S) /\ IsInjective(w) /\ ToSet(w) = ToSet(u) \cup {x}
  BY <1>2, AppendSet
<1> HIDE DEF w
<1>6. ToSet(w) \cap ToSet(v) = {}
  BY <1>2, <1>5
<1>7. /\ w \o v \in Seq(S) /\ IsInjective(w \o v)
      /\ ToSet(w \o v) = ToSet(w) \cup ToSet(v)
  BY <1>2, <1>5, <1>6, ConcatSet
<1>8. ToSet(w) \cup ToSet(v) = ToSet(q) \cup {x}
  BY <1>2, <1>5
<1> QED BY <1>3, <1>4, <1>7, <1>8

\* The new sleeper is the head of the list if nobody wakes before it.
LEMMA InsertAtHead ==
  ASSUME NEW S, NEW q \in Seq(S), NEW k \in 0 .. Len(q), NEW x \in S
  PROVE  /\ InsertAt(q, k + 1, x) # <<>>
         /\ Head(InsertAt(q, k + 1, x)) = IF k = 0 THEN x ELSE q[1]
<1> DEFINE u == SubSeq(q, 1, k)
           v == SubSeq(q, k + 1, Len(q))
           w == Append(u, x)
           t == w \o v
<1>1. Len(q) \in Nat /\ k \in Nat /\ (k + 1) - 1 = k /\ 1 \in 1 .. k + 1
  BY LenProperties
<1>2. u \in Seq(S) /\ v \in Seq(S) /\ Len(u) = k
        /\ \A i \in 1 .. k : u[i] = q[i]
  <2>1. /\ u \in Seq(S) /\ v \in Seq(S)
    BY <1>1, SliceSet
  <2>2. \A i \in 1 .. k : q[i] \in S
    BY <1>1, LenProperties
  <2>3. Len(u) = k /\ \A i \in 1 .. k : u[i] = q[i]
    BY <1>1, <2>2, SubSeqProperties
  <2> QED BY <2>1, <2>3
<1>3. InsertAt(q, k + 1, x) = (u \o <<x>>) \o v
  BY <1>1 DEF InsertAt
<1> HIDE DEF u, v
<1>4. u \o <<x>> = w
  BY <1>2, AppendIsConcat
<1>5. w \in Seq(S) /\ Len(w) = k + 1 /\ w[1] = IF k = 0 THEN x ELSE q[1]
  BY <1>1, <1>2, AppendProperties
<1> HIDE DEF w
<1>6. t \in Seq(S) /\ Len(t) >= 1 /\ t[1] = w[1]
  BY <1>1, <1>2, <1>5, ConcatProperties, LenProperties
<1> HIDE DEF t
<1>7. t # <<>> /\ Head(t) = t[1]
  BY <1>6, EmptySeq
<1> QED BY <1>3, <1>4, <1>5, <1>6, <1>7 DEF t

\* next() takes the head off the queue.
LEMMA HeadSet ==
  ASSUME NEW S, NEW q \in Seq(S), IsInjective(q), q # <<>>
  PROVE  /\ Head(q) \in ToSet(q) /\ Head(q) \in S /\ Tail(q) \in Seq(S)
         /\ Head(q) = q[1] /\ Len(q) >= 1 /\ Len(Tail(q)) = Len(q) - 1
         /\ ToSet(Tail(q)) = ToSet(q) \ {Head(q)}
         /\ IsInjective(Tail(q))
<1>1. Len(q) \in Nat \ {0} /\ DOMAIN q = 1 .. Len(q)
  BY LenProperties, EmptySeq
<1>2. Head(q) = q[1] /\ Head(q) \in S /\ Head(q) \in ToSet(q)
  BY <1>1 DEF ToSet
<1>3. Tail(q) = SubSeq(q, 2, Len(q))
  BY TailIsSubSeq
<1>4. /\ ToSet(SubSeq(q, 2, Len(q))) = {q[i] : i \in 2 .. Len(q)}
      /\ IsInjective(SubSeq(q, 2, Len(q)))
  BY <1>1, SliceSet
<1>5. ToSet(q) = {q[i] : i \in 1 .. Len(q)}
  BY <1>1 DEF ToSet
<1>6. \A i \in 2 .. Len(q) : q[i] # q[1]
  BY <1>1 DEF IsInjective
<1>7. {q[i] : i \in 2 .. Len(q)} = {q[i] : i \in 1 .. Len(q)} \ {q[1]}
  BY <1>1, <1>6
<1>8. Tail(q) \in Seq(S) /\ Len(Tail(q)) = Len(q) - 1
  BY HeadTailProperties
<1>9. ToSet(Tail(q)) = ToSet(q) \ {Head(q)} /\ IsInjective(Tail(q))
  BY <1>2, <1>3, <1>4, <1>5, <1>7
<1> QED BY <1>1, <1>2, <1>8, <1>9

-----------------------------------------------------------------------------
(* Induction over natural numbers, for sets instead of operators. *)

\* Every set of natural numbers that is not empty has a least element.
LEMMA LeastNumber ==
  ASSUME NEW S, S \subseteq Nat, S # {}
  PROVE  \E n \in S : \A m \in S : n <= m
<1> DEFINE R == {ss \in Nat \X Nat : ss[1] < ss[2]}
<1>1. IsWellFoundedOn(R, Nat)
  BY NatLessThanWellFounded DEF OpToRel
<1> HIDE DEF R
<1>2. PICK x \in S : \A y \in S : ~ (<<y, x>> \in R)
  BY <1>1, WFMin, Zenon
<1>3. \A y \in S : ~(y < x)
  BY <1>2 DEF R
<1> QED BY <1>2, <1>3

\* A set that holds 0, and with each number below N the next, holds 0 .. N.
LEMMA CountUp ==
  ASSUME NEW N \in Nat, NEW S, 0 \in S,
         \A n \in 0 .. N : n < N /\ n \in S => n + 1 \in S
  PROVE  \A n \in 0 .. N : n \in S
<1> DEFINE Bad == {n \in 0 .. N : n \notin S}
<1>1. SUFFICES ASSUME Bad # {} PROVE FALSE
  OBVIOUS
<1>2. Bad \subseteq Nat
  OBVIOUS
<1>3. \A n \in Bad : n \in 0 .. N /\ n \notin S
  OBVIOUS
<1>4. \A n \in 0 .. N : n \notin S => n \in Bad
  OBVIOUS
<1> HIDE DEF Bad
<1>5. PICK n \in Bad : \A m \in Bad : n <= m
  BY <1>1, <1>2, LeastNumber
<1>6. n # 0 /\ n \in 0 .. N
  BY <1>3, <1>5
<1>7. n - 1 \in 0 .. N /\ n - 1 < N /\ (n - 1) + 1 = n /\ ~(n <= n - 1)
  BY <1>6
<1>8. n - 1 \in S
  BY <1>4, <1>5, <1>7
<1>9. n \in S
  BY <1>7, <1>8
<1> QED BY <1>3, <1>5, <1>9

=============================================================================
