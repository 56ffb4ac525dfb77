----------------------------- MODULE HeapProofs -----------------------------
(***************************************************************************)
(* Proofs about the memory manager: as long as headers name their          *)
(* predecessors, the free list is sorted, joined and apart from the blocks *)
(* that programs hold, a refusal means that no run of free memory is long  *)
(* enough, and the list implements the abstract memory pool.               *)
(*                                                                         *)
(* The list is described by the set F of its blocks: what follows a block  *)
(* is the least of F above it, and the head is what follows NULL.  kmalloc *)
(* and kfree put a block into F, take one out, or join one to another.     *)
(***************************************************************************)
EXTENDS Heap, QueueLemmas

AddrOrNull == Addr \cup {NULL}

LEMMA AddrFacts ==
  /\ HoleStart \in Nat /\ HoleEnd \in Nat /\ MemEnd \in Nat
  /\ HoleStart > 2 /\ HoleEnd > HoleStart /\ MemEnd > HoleEnd + 1
  /\ Addr \subseteq 1 .. MemEnd - 1
  /\ Addr \subseteq Nat /\ NULL \notin Addr /\ NULL = 0
  /\ \A a \in AddrOrNull : a \in Nat /\ (a = NULL \/ a \in Addr)
<1>1. /\ HoleStart \in Nat /\ HoleEnd \in Nat /\ MemEnd \in Nat
      /\ HoleStart > 2 /\ HoleEnd > HoleStart /\ MemEnd > HoleEnd + 1
  BY MemoryAssumption
<1>2. Addr \subseteq 1 .. MemEnd - 1
  BY <1>1 DEF Addr
<1> QED BY <1>1, <1>2 DEF AddrOrNull, NULL

-----------------------------------------------------------------------------
(* The chain of free blocks. *)

\* b is the least of F above a, or NULL if there is none.
Follows(F, a, b) ==
  \/ b \in F /\ a < b /\ \A c \in F : ~ (a < c /\ c < b)
  \/ b = NULL /\ \A c \in F : ~ (a < c)

Chain(F, N) == \A a \in F \cup {NULL} : Follows(F, a, N[a])

\* The links of the headers in m, with the head of the list h.
Links(m, h) == [a \in AddrOrNull |-> IF a = NULL THEN h ELSE m[a].next]

LEMMA FollowsFacts ==
  ASSUME NEW F, F \subseteq Addr, NEW a \in Nat, NEW b, Follows(F, a, b)
  PROVE  /\ b \in Nat
         /\ b = NULL \/ (b \in F /\ a < b)
         /\ \A c \in F : c \in Nat /\ (a < c => b \in F /\ b <= c)
<1>1. F \subseteq Nat /\ NULL = 0
  BY AddrFacts
<1>2. CASE b = NULL /\ \A c \in F : ~ (a < c)
  BY <1>1, <1>2
<1>3. CASE b \in F /\ a < b /\ \A c \in F : ~ (a < c /\ c < b)
  <2>1. b \in Nat
    BY <1>1, <1>3
  <2>2. ASSUME NEW c \in F, a < c PROVE b <= c
    <3>1. c \in Nat /\ ~ (c < b)
      BY <1>1, <1>3, <2>2
    <3> QED BY <2>1, <3>1
  <2> QED BY <1>1, <1>3, <2>1, <2>2
<1> QED BY <1>2, <1>3 DEF Follows

LEMMA FollowsByFacts ==
  ASSUME NEW F, F \subseteq Addr, NEW a \in Nat, NEW b \in Nat,
         b = NULL \/ (b \in F /\ a < b),
         \A c \in F : c \in Nat /\ a < c => b \in F /\ b <= c
  PROVE  Follows(F, a, b)
<1>1. F \subseteq Nat /\ NULL = 0 /\ NULL \notin F
  BY AddrFacts
<1>2. CASE b = NULL
  BY <1>1, <1>2 DEF Follows
<1>3. CASE b \in F /\ a < b
  <2>1. ASSUME NEW c \in F PROVE ~ (a < c /\ c < b)
    <3>1. c \in Nat
      BY <1>1
    <3>2. a < c => b <= c
      BY <3>1
    <3> QED BY <3>1, <3>2
  <2> QED BY <1>3, <2>1 DEF Follows
<1> QED BY <1>2, <1>3

LEMMA ChainFacts ==
  ASSUME NEW F, F \subseteq Addr, NEW N, Chain(F, N)
  PROVE  \A b \in F \cup {NULL} :
           /\ b \in Nat /\ N[b] \in Nat
           /\ N[b] = NULL \/ (N[b] \in F /\ b < N[b])
           /\ \A c \in F : c \in Nat /\ (b < c => N[b] \in F /\ N[b] <= c)
<1>1. SUFFICES ASSUME NEW b \in F \cup {NULL}
               PROVE  /\ b \in Nat /\ N[b] \in Nat
                      /\ N[b] = NULL \/ (N[b] \in F /\ b < N[b])
                      /\ \A c \in F : c \in Nat /\ (b < c => N[b] \in F /\ N[b] <= c)
  OBVIOUS
<1>2. b \in Nat
  BY AddrFacts
<1>3. Follows(F, b, N[b])
  BY DEF Chain
<1>4. PICK g : g = N[b]
  OBVIOUS
<1>5. Follows(F, b, g)
  BY <1>3, <1>4
<1>6. /\ g \in Nat
      /\ g = NULL \/ (g \in F /\ b < g)
      /\ \A c \in F : c \in Nat /\ (b < c => g \in F /\ g <= c)
  BY <1>2, <1>5, FollowsFacts
<1> QED BY <1>2, <1>4, <1>6

\* A block between f and its successor.
LEMMA ChainInsert ==
  ASSUME NEW F, F \subseteq Addr, NEW N, NEW M, Chain(F, N),
         NEW a \in Addr, a \notin F, NEW f \in F \cup {NULL}, f < a,
         N[f] = NULL \/ a < N[f],
         M[f] = a, M[a] = N[f],
         \A b \in F \cup {NULL} : b # f => M[b] = N[b]
  PROVE  Chain(F \cup {a}, M)
<1>1. F \subseteq Nat /\ a \in Nat /\ NULL = 0 /\ NULL \notin F /\ f \in Nat
        /\ F \cup {a} \subseteq Addr
  BY AddrFacts
<1>3. \A b \in F \cup {NULL} :
        /\ b \in Nat /\ N[b] \in Nat
        /\ N[b] = NULL \/ (N[b] \in F /\ b < N[b])
        /\ \A c \in F : c \in Nat /\ (b < c => N[b] \in F /\ N[b] <= c)
  BY ChainFacts, Zenon
<1>4. ASSUME NEW b \in F \cup {a} \cup {NULL} PROVE Follows(F \cup {a}, b, M[b])
  <2>1. CASE b = f
    <3>1. ASSUME NEW c \in F, f < c PROVE a <= c
      <4>1. c \in Nat /\ N[f] \in F /\ N[f] <= c /\ N[f] \in Nat /\ NULL \notin F
        BY <1>1, <1>3, <3>1
      <4> QED BY <1>1, <4>1
    <3>2. \A c \in F \cup {a} : c \in Nat /\ f < c => a \in F \cup {a} /\ a <= c
      BY <1>1, <3>1
    <3>3. Follows(F \cup {a}, f, a)
      BY <1>1, <3>2, FollowsByFacts
    <3> QED BY <2>1, <3>3
  <2>2. CASE b = a
    <3>1. N[f] \in Nat /\ (N[f] = NULL \/ (N[f] \in F /\ a < N[f]))
      BY <1>1, <1>3
    <3>2. ASSUME NEW c \in F, a < c PROVE N[f] \in F /\ N[f] <= c
      <4>1. f < c
        BY <1>1, <3>2
      <4> QED BY <1>3, <4>1
    <3>3. \A c \in F \cup {a} :
            c \in Nat /\ a < c => N[f] \in F \cup {a} /\ N[f] <= c
      BY <1>1, <3>2
    <3>4. Follows(F \cup {a}, a, N[f])
      BY <1>1, <3>1, <3>3, FollowsByFacts
    <3> QED BY <2>2, <3>4
  <2>3. CASE b # f /\ b # a
    <3>1. b \in F \cup {NULL} /\ M[b] = N[b] /\ b \in Nat /\ N[b] \in Nat
      BY <1>3, <2>3
    <3>2. ASSUME b < a PROVE N[b] \in F /\ N[b] <= a
      <4>1. ~ (f < b)
        <5>1. ASSUME f < b PROVE FALSE
          <6>1. b \in F /\ N[f] \in F /\ N[f] <= b /\ N[f] \in Nat
            BY <1>1, <1>3, <3>1, <5>1
          <6> QED BY <1>1, <3>1, <3>2, <6>1
        <5> QED BY <5>1
      <4>2. b < f /\ f \in F
        BY <1>1, <2>3, <3>1, <4>1
      <4>3. N[b] \in F /\ N[b] <= f
        BY <1>3, <3>1, <4>2
      <4> QED BY <1>1, <3>1, <4>3
    <3>3. N[b] = NULL \/ (N[b] \in F \cup {a} /\ b < N[b])
      BY <1>3, <3>1
    <3>4. ASSUME NEW c \in F \cup {a}, b < c PROVE N[b] \in F \cup {a} /\ N[b] <= c
      BY <1>3, <3>1, <3>2, <3>4
    <3> QED BY <1>1, <3>1, <3>3, <3>4, FollowsByFacts
  <2> QED BY <2>1, <2>2, <2>3
<1> QED BY <1>4 DEF Chain

\* The block x after p is taken out.
LEMMA ChainRemove ==
  ASSUME NEW F, F \subseteq Addr, NEW N, NEW M, Chain(F, N),
         NEW x \in F, NEW p \in F \cup {NULL}, N[p] = x, M[p] = N[x],
         \A b \in (F \cup {NULL}) \ {x, p} : M[b] = N[b]
  PROVE  Chain(F \ {x}, M) /\ p < x /\ (N[x] = NULL \/ x < N[x]) /\ N[x] # x
<1>1. F \subseteq Nat /\ NULL = 0 /\ NULL \notin F /\ F \ {x} \subseteq Addr
        /\ x \in Nat /\ p \in Nat
  BY AddrFacts
<1>3. \A b \in F \cup {NULL} :
        /\ b \in Nat /\ N[b] \in Nat
        /\ N[b] = NULL \/ (N[b] \in F /\ b < N[b])
        /\ \A c \in F : c \in Nat /\ (b < c => N[b] \in F /\ N[b] <= c)
  BY ChainFacts, Zenon
<1>4. p < x /\ (N[x] = NULL \/ x < N[x]) /\ N[x] # x /\ p # x
        /\ N[x] \in Nat /\ (N[x] = NULL \/ N[x] \in F)
  BY <1>1, <1>3
<1>5. ASSUME NEW b \in (F \ {x}) \cup {NULL} PROVE Follows(F \ {x}, b, M[b])
  <2>1. CASE b = p
    <3>1. N[x] = NULL \/ (N[x] \in F \ {x} /\ p < N[x])
      BY <1>1, <1>4
    <3>2. ASSUME NEW c \in F \ {x}, p < c PROVE N[x] \in F \ {x} /\ N[x] <= c
      <4>1. c \in Nat /\ x <= c /\ x < c
        BY <1>1, <1>3, <3>2
      <4>2. N[x] \in F /\ N[x] <= c
        BY <1>3, <4>1
      <4> QED BY <1>4, <4>2
    <3> QED BY <1>1, <1>4, <2>1, <3>1, <3>2, FollowsByFacts
  <2>2. CASE b # p
    <3>1. b \in F \cup {NULL} /\ b # x /\ M[b] = N[b] /\ b \in Nat /\ N[b] \in Nat
      BY <1>1, <1>3, <2>2
    <3>2. N[b] # x
      <4>1. ASSUME N[b] = x PROVE FALSE
        <5>1. b < x
          BY <1>1, <1>3, <3>1, <4>1
        <5>2. CASE b < p
          <6>1. p \in F /\ x <= p
            BY <1>1, <1>3, <3>1, <4>1, <5>2
          <6> QED BY <1>1, <1>4, <6>1
        <5>3. CASE p < b
          <6>1. b \in F /\ x <= b
            BY <1>1, <1>3, <3>1, <5>3
          <6> QED BY <1>1, <3>1, <5>1, <6>1
        <5> QED BY <1>1, <2>2, <3>1, <5>2, <5>3
      <4> QED BY <4>1
    <3>3. N[b] = NULL \/ (N[b] \in F \ {x} /\ b < N[b])
      BY <1>3, <3>1, <3>2
    <3>4. \A c \in F \ {x} : c \in Nat /\ b < c => N[b] \in F \ {x} /\ N[b] <= c
      BY <1>3, <3>1, <3>2
    <3> QED BY <1>1, <3>1, <3>3, <3>4, FollowsByFacts
  <2> QED BY <2>1, <2>2
<1> QED BY <1>4, <1>5 DEF Chain

\* The block x after p gives its place to y, which is above x and not above
\* what follows.
LEMMA ChainReplace ==
  ASSUME NEW F, F \subseteq Addr, NEW N, NEW M, Chain(F, N),
         NEW x \in F, NEW p \in F \cup {NULL}, N[p] = x,
         NEW y \in Addr, y \notin F, x < y, N[x] = NULL \/ y < N[x],
         M[p] = y, M[y] = N[x],
         \A b \in (F \cup {NULL}) \ {x, p} : M[b] = N[b]
  PROVE  Chain((F \ {x}) \cup {y}, M)
<1> DEFINE K == [b \in F \cup {NULL} |-> IF b = p THEN N[x] ELSE N[b]]
<1>1. F \subseteq Nat /\ NULL = 0 /\ NULL \notin F
  BY AddrFacts
<1>2. K[p] = N[x] /\ \A b \in (F \cup {NULL}) \ {x, p} : K[b] = N[b]
  OBVIOUS
<1> HIDE DEF K
<1>3. Chain(F \ {x}, K) /\ p < x
  BY <1>2, ChainRemove, Zenon
<1>4. p \in (F \ {x}) \cup {NULL} /\ p < y /\ y \notin F \ {x}
        /\ F \ {x} \subseteq Addr
  BY <1>1, <1>3, AddrFacts
<1>5. K[p] = NULL \/ y < K[p]
  BY <1>2
<1>6. M[y] = K[p] /\ \A b \in (F \ {x}) \cup {NULL} : b # p => M[b] = K[b]
  BY <1>1, <1>2
<1> DEFINE G == F \ {x}
<1>7. Chain(G, K) /\ p \in G \cup {NULL} /\ y \notin G /\ G \subseteq Addr
        /\ \A b \in G \cup {NULL} : b # p => M[b] = K[b]
  BY <1>3, <1>4, <1>6
<1> HIDE DEF G
<1>8. Chain(G \cup {y}, M)
  BY <1>4, <1>5, <1>6, <1>7, ChainInsert
<1> QED BY <1>8 DEF G

-----------------------------------------------------------------------------
(* Memory. *)

Header == [size : Nat, prev : AddrOrNull, next : AddrOrNull,
           sanityCheck : AddrOrNull]

Memory == [Addr -> Header]

TypeOK ==
  /\ freeList \in AddrOrNull
  /\ node \in Memory
  /\ held \in [Addr -> Nat]

\* The blocks from each address on: i of them at most, given i - 1 of them.
Row(i, r) == [a \in AddrOrNull |->
                IF a = NULL \/ i = 0 THEN <<>> ELSE <<a>> \o r[node[a].next]]

\* The recursion that defines List has a solution.
LEMMA ListExists ==
  \E g : g = [i \in 0 .. MemEnd |-> Row(i, g[i - 1])]
<1> DEFINE Upto(n, g) == g = [i \in 0 .. n |-> Row(i, g[i - 1])]
           S == {n \in 0 .. MemEnd : \E g : Upto(n, g)}
<1>1. MemEnd \in Nat /\ 0 \in 0 .. MemEnd
  BY AddrFacts
<1>2. 0 \in S
  <2> DEFINE z == [i \in 0 .. 0 |-> Row(0, 0)]
  <2>1. \A i \in 0 .. 0 : Row(0, 0) = Row(i, z[i - 1])
    BY DEF Row
  <2>2. z = [i \in 0 .. 0 |-> Row(i, z[i - 1])]
    <3> HIDE DEF Row
    <3>1. DOMAIN z = 0 .. 0 /\ \A i \in 0 .. 0 : z[i] = Row(i, z[i - 1])
      BY <2>1
    <3> QED BY <2>1
  <2> HIDE DEF z
  <2>3. Upto(0, z)
    BY <2>2
  <2> HIDE DEF Upto
  <2> QED BY <1>1, <2>3
<1>3. ASSUME NEW n \in 0 .. MemEnd, n < MemEnd, n \in S PROVE n + 1 \in S
  <2>1. PICK f : Upto(n, f)
    BY <1>3
  <2> DEFINE g == [i \in 0 .. n + 1 |-> IF i = n + 1 THEN Row(i, f[n]) ELSE f[i]]
  <2>2. n \in Nat /\ n + 1 \in 0 .. MemEnd /\ n + 1 # 0 /\ (n + 1) - 1 = n
          /\ n # n + 1 /\ n \in 0 .. n + 1 /\ n + 1 \in 0 .. n + 1
    BY <1>1, <1>3
  <2>3. \A i \in 0 .. n : f[i] = Row(i, f[i - 1])
    BY <2>1
  <2>4. ASSUME NEW i \in 0 .. n + 1 PROVE g[i] = Row(i, g[i - 1])
    <3>1. CASE i = n + 1
      <4>1. g[i] = Row(i, f[n]) /\ g[n] = f[n] /\ i - 1 = n
        BY <2>2, <3>1
      <4> QED BY <4>1
    <3>2. CASE i = 0
      <4>1. g[0] = f[0] /\ f[0] = Row(0, f[0 - 1])
        BY <2>2, <2>3, <3>2
      <4>2. \A r, s : Row(0, r) = Row(0, s)
        BY DEF Row
      <4> HIDE DEF g
      <4> QED BY <3>2, <4>1, <4>2
    <3>3. CASE i # n + 1 /\ i # 0
      <4>1. i \in 0 .. n /\ i - 1 \in 0 .. n + 1 /\ i - 1 # n + 1
        BY <2>2, <3>3
      <4>2. g[i] = f[i] /\ g[i - 1] = f[i - 1]
        BY <3>3, <4>1
      <4> QED BY <2>3, <4>1, <4>2
    <3> QED BY <3>1, <3>2, <3>3
  <2>5. g = [i \in 0 .. n + 1 |-> g[i]]
    OBVIOUS
  <2> HIDE DEF g
  <2>6. Upto(n + 1, g)
    BY <2>4, <2>5
  <2> HIDE DEF Upto
  <2> QED BY <2>2, <2>6
<1>4. MemEnd \in S
  <2> HIDE DEF S
  <2>1. \A n \in 0 .. MemEnd : n \in S
    BY <1>1, <1>2, <1>3, CountUp
  <2> QED BY <1>1, <2>1
<1> QED BY <1>4

\* s is the walk over the blocks of F from a on.
Walked(s, a, F) ==
  /\ s \in Seq(F) /\ Len(s) \in 1 .. MemEnd - a
  /\ s[1] = a
  /\ ToSet(s) = {b \in F : a <= b}
  /\ \A i, j \in 1 .. Len(s) : i < j => s[i] < s[j]
  /\ \A i \in 1 .. Len(s) - 1 : s[i + 1] = node[s[i]].next

LEMMA WalkEnds ==
  ASSUME NEW F, F \subseteq Addr, NEW a \in F, \A c \in F : ~ (a < c)
  PROVE  Walked(<<a>>, a, F)
<1>1. F \subseteq Nat /\ MemEnd \in Nat /\ a < MemEnd /\ a \in Nat
  BY AddrFacts
<1>2. <<a>> \in Seq(F) /\ Len(<<a>>) = 1 /\ <<a>>[1] = a
  OBVIOUS
<1>3. ToSet(<<a>>) = {a}
  BY DEF ToSet
<1>4. {b \in F : a <= b} = {a}
  <2>1. ASSUME NEW b \in F PROVE a <= b <=> b = a
    <3>1. b \in Nat /\ ~ (a < b)
      BY <1>1
    <3> QED BY <1>1, <3>1
  <2> QED BY <2>1
<1> QED BY <1>1, <1>2, <1>3, <1>4 DEF Walked

LEMMA WalkGoesOn ==
  ASSUME NEW F, F \subseteq Addr, NEW a \in F, NEW b \in F, a < b,
         node[a].next = b, \A c \in F : a < c => b <= c,
         NEW t, Walked(t, b, F)
  PROVE  Walked(<<a>> \o t, a, F)
<1>1. F \subseteq Nat /\ MemEnd \in Nat /\ a \in Nat /\ b \in Nat
  BY AddrFacts
<1>2. /\ t \in Seq(F) /\ Len(t) \in 1 .. MemEnd - b /\ t[1] = b
      /\ ToSet(t) = {c \in F : b <= c}
      /\ \A i, j \in 1 .. Len(t) : i < j => t[i] < t[j]
      /\ \A i \in 1 .. Len(t) - 1 : t[i + 1] = node[t[i]].next
  BY DEF Walked
<1>3. <<a>> \in Seq(F) /\ Len(<<a>>) = 1 /\ <<a>>[1] = a /\ ToSet(<<a>>) = {a}
  BY DEF ToSet
<1> DEFINE s == <<a>> \o t
<1>4. s \in Seq(F) /\ ToSet(s) = {a} \cup ToSet(t)
  <2>1. PICK u : u = <<a>>
    OBVIOUS
  <2>2. u \in Seq(F) /\ ToSet(u) = {a}
    BY <1>3, <2>1
  <2>3. u \o t \in Seq(F) /\ ToSet(u \o t) = ToSet(u) \cup ToSet(t)
    BY <1>2, <2>2, ConcatSet
  <2> QED BY <2>1, <2>2, <2>3
<1>5. /\ Len(s) = Len(t) + 1 /\ s[1] = a
      /\ \A i \in 2 .. Len(t) + 1 : s[i] = t[i - 1]
  BY <1>2, <1>3
<1> HIDE DEF s
<1>6. ToSet(s) = {c \in F : a <= c}
  <2>1. ASSUME NEW c \in F PROVE a <= c <=> c = a \/ b <= c
    <3>1. c \in Nat /\ (a < c => b <= c)
      BY <1>1
    <3> QED BY <1>1, <3>1
  <2> QED BY <1>2, <1>4, <2>1
<1>7. \A i \in 1 .. Len(t) : t[i] \in F /\ t[i] \in Nat /\ b <= t[i]
  BY <1>1, <1>2, MemberSet
<1>8. ASSUME NEW i \in 1 .. Len(s), NEW j \in 1 .. Len(s), i < j PROVE s[i] < s[j]
  <2>1. j \in 2 .. Len(t) + 1 /\ j - 1 \in 1 .. Len(t) /\ s[j] = t[j - 1]
    BY <1>2, <1>5, <1>8
  <2>2. CASE i = 1
    BY <1>1, <1>5, <1>7, <2>1, <2>2
  <2>3. CASE i # 1
    <3>1. i - 1 \in 1 .. Len(t) /\ i - 1 < j - 1 /\ s[i] = t[i - 1]
      BY <1>2, <1>5, <1>8, <2>1, <2>3
    <3> QED BY <1>2, <2>1, <3>1
  <2> QED BY <2>2, <2>3
<1>9. ASSUME NEW i \in 1 .. Len(s) - 1 PROVE s[i + 1] = node[s[i]].next
  <2>1. s[i + 1] = t[i]
    BY <1>2, <1>5
  <2>2. CASE i = 1
    BY <1>2, <1>5, <2>1, <2>2
  <2>3. CASE i # 1
    <3>1. i - 1 \in 1 .. Len(t) - 1 /\ s[i] = t[i - 1] /\ (i - 1) + 1 = i
      BY <1>2, <1>5, <2>3
    <3> QED BY <1>2, <2>1, <3>1
  <2> QED BY <2>2, <2>3
<1>10. Len(s) \in 1 .. MemEnd - a
  BY <1>1, <1>2, <1>5
<1> QED BY <1>4, <1>5, <1>6, <1>8, <1>9, <1>10 DEF Walked, s

\* The list is the chain of F.
LEMMA ListIsChain ==
  ASSUME TypeOK, NEW F, F \subseteq Addr, Chain(F, Links(node, freeList))
  PROVE  \/ F = {} /\ freeList = NULL /\ List = <<>>
         \/ freeList \in F /\ Walked(List, freeList, F)
<1> DEFINE N == Links(node, freeList)
           L(n) == {a \in F : n + a >= MemEnd}
           Def(g) == g = [i \in 0 .. MemEnd |-> Row(i, g[i - 1])]
           from == CHOOSE g : Def(g)
           S == {n \in 0 .. MemEnd : \A a \in L(n) : Walked(from[n][a], a, F)}
<1>1. /\ F \subseteq Nat /\ MemEnd \in Nat /\ F \subseteq AddrOrNull
      /\ \A a \in F : a < MemEnd /\ a # NULL
      /\ NULL = 0 /\ NULL \in AddrOrNull /\ NULL \notin F
  BY AddrFacts DEF AddrOrNull
<1>2. List = from[MemEnd][freeList]
  BY DEF List, Row, AddrOrNull
<1>3. Def(from)
  BY ListExists
<1> HIDE DEF from
<1>4. \A i \in 0 .. MemEnd : from[i] = Row(i, from[i - 1])
  BY <1>3
<1>5. \A i \in 0 .. MemEnd : \A a \in AddrOrNull :
        from[i][a] = IF a = NULL \/ i = 0 THEN <<>>
                     ELSE <<a>> \o from[i - 1][node[a].next]
  <2> SUFFICES ASSUME NEW i \in 0 .. MemEnd, NEW a \in AddrOrNull
               PROVE  from[i][a] = IF a = NULL \/ i = 0 THEN <<>>
                                   ELSE <<a>> \o from[i - 1][node[a].next]
    OBVIOUS
  <2>1. PICK r : r = from[i - 1]
    OBVIOUS
  <2>2. from[i] = Row(i, r)
    BY <1>4, <2>1
  <2> QED BY <2>1, <2>2 DEF Row
<1> HIDE DEF Def
<1>6. \A b \in F \cup {NULL} :
        /\ b \in Nat /\ N[b] \in Nat
        /\ N[b] = NULL \/ (N[b] \in F /\ b < N[b])
        /\ \A c \in F : c \in Nat /\ (b < c => N[b] \in F /\ N[b] <= c)
  BY ChainFacts, Zenon
<1>7. N[NULL] = freeList /\ \A a \in F : N[a] = node[a].next
  BY <1>1 DEF Links
<1> HIDE DEF N
<1>8. 0 \in S
  <2>1. ASSUME NEW a \in F PROVE ~ (0 + a >= MemEnd)
    <3>1. a \in Nat /\ a < MemEnd
      BY <1>1
    <3> QED BY <1>1, <3>1
  <2> QED BY <1>1, <2>1
<1>9. ASSUME NEW n \in 0 .. MemEnd, n < MemEnd, n \in S PROVE n + 1 \in S
  <2>1. n \in Nat /\ n + 1 \in 0 .. MemEnd /\ n + 1 # 0 /\ (n + 1) - 1 = n
    BY <1>1, <1>9
  <2>2. ASSUME NEW a \in L(n + 1) PROVE Walked(from[n + 1][a], a, F)
    <3>1. a \in F /\ (n + 1) + a >= MemEnd /\ a \in Nat /\ a # NULL /\ a \in AddrOrNull
      BY <1>1
    <3>2. PICK b : b = node[a].next
      OBVIOUS
    <3>3. from[n + 1][a] = <<a>> \o from[n][b]
      BY <1>5, <2>1, <3>1, <3>2
    <3>4. /\ N[a] = b /\ b \in Nat /\ (b = NULL \/ (b \in F /\ a < b))
          /\ \A c \in F : a < c => b \in F /\ b <= c
      BY <1>6, <1>7, <3>1, <3>2
    <3>5. CASE b = NULL
      <4>1. from[n][b] = <<>> /\ \A c \in F : ~ (a < c)
        BY <1>1, <1>5, <3>4, <3>5, <2>1
      <4>2. <<a>> \o <<>> = <<a>>
        OBVIOUS
      <4> QED BY <3>1, <3>3, <4>1, <4>2, WalkEnds
    <3>6. CASE b \in F /\ a < b
      <4>1. b \in L(n)
        BY <1>1, <2>1, <3>1, <3>6
      <4>2. Walked(from[n][b], b, F)
        BY <1>9, <4>1
      <4> HIDE DEF L, S
      <4>3. Walked(<<a>> \o from[n][b], a, F)
        BY <3>1, <3>2, <3>4, <3>6, <4>2, WalkGoesOn
      <4> QED BY <3>3, <4>3
    <3> QED BY <3>4, <3>5, <3>6
  <2> HIDE DEF L
  <2> QED BY <2>1, <2>2
<1>10. \A n \in S : \A a \in L(n) : Walked(from[n][a], a, F)
  OBVIOUS
<1>11. \A a \in F : a \in L(MemEnd)
  BY <1>1
<1> HIDE DEF S, L
<1>12. MemEnd \in S
  <2>1. \A n \in 0 .. MemEnd : n \in S
    BY <1>1, <1>8, <1>9, CountUp
  <2> QED BY <1>1, <2>1
<1>13. CASE freeList = NULL
  <2>1. F = {}
    <3>1. ASSUME NEW c \in F PROVE FALSE
      <4>1. 0 < c
        BY <1>1
      <4> QED BY <1>1, <1>6, <1>7, <1>13, <4>1
    <3> QED BY <3>1
  <2>2. List = <<>>
    <3>1. MemEnd \in 0 .. MemEnd
      BY <1>1
    <3>2. from[MemEnd][NULL] = <<>>
      BY <1>1, <1>5, <3>1
    <3> QED BY <1>2, <1>13, <3>2
  <2> QED BY <1>13, <2>1, <2>2
<1>14. CASE freeList \in F
  BY <1>2, <1>10, <1>11, <1>12, <1>14
<1> QED BY <1>6, <1>7, <1>13, <1>14

LEMMA MinIsLeast ==
  ASSUME NEW S, S \subseteq Nat, S # {}
  PROVE  Min(S) \in S /\ \A n \in S : Min(S) <= n
BY LeastNumber DEF Min

\* The set of the blocks on the list is F, and the list ends.
LEMMA ListedIsChain ==
  ASSUME TypeOK, NEW F, F \subseteq Addr, Chain(F, Links(node, freeList))
  PROVE  Listed = F /\ Ends /\ (freeList = NULL <=> F = {})
<1>1. MemEnd \in Nat /\ NULL \notin F /\ NULL = 0 /\ F \subseteq 1 .. MemEnd - 1
  BY AddrFacts
<1>2. CASE F = {} /\ freeList = NULL /\ List = <<>>
  <2>1. Len(List) = 0 /\ DOMAIN List = {}
    BY <1>2
  <2>2. Listed = {}
    BY <2>1 DEF Listed, Range
  <2> QED BY <1>1, <1>2, <2>1, <2>2, AddrFacts DEF Ends
<1>3. CASE freeList \in F /\ Walked(List, freeList, F)
  <2>1. /\ List \in Seq(F) /\ Len(List) \in 1 .. MemEnd - freeList
        /\ ToSet(List) = {b \in F : freeList <= b}
    BY <1>3 DEF Walked
  <2>2. \A b \in F : freeList <= b
    <3>1. Follows(F, NULL, freeList)
      BY DEF Chain, Links, AddrOrNull
    <3>2. \A c \in F : c \in Nat /\ NULL < c
      BY <1>1
    <3> QED BY <1>1, <3>1, <3>2, FollowsFacts
  <2>3. Listed = F
    BY <2>1, <2>2 DEF Listed, Range, ToSet
  <2>4. Ends
    BY <1>1, <1>3, <2>1 DEF Ends
  <2> QED BY <1>1, <1>3, <2>3, <2>4
<1> QED BY <1>2, <1>3, ListIsChain

LEMMA FirstFitIs ==
  ASSUME TypeOK, NEW F, F \subseteq Addr, Chain(F, Links(node, freeList)),
         NEW x, NEW n, FirstFit(x, n)
  PROVE  x \in F /\ node[x].size >= n
<1> DEFINE I == {i \in 1 .. Len(List) : Fits(List[i], n)}
           k == IF I # {} THEN Min(I) ELSE 0
<1>1. k # 0 /\ x = List[k]
  BY DEF FirstFit, SelectInSeq
<1>2. I \subseteq Nat
  OBVIOUS
<1>3. k \in I
  BY <1>1, <1>2, MinIsLeast
<1>4. k \in 1 .. Len(List) /\ Fits(List[k], n)
  BY <1>3
<1> HIDE DEF k
<1>5. k \in DOMAIN List
  <2>1. Len(<<>>) = 0
    OBVIOUS
  <2>2. List \in Seq(F)
    BY <1>4, <2>1, ListIsChain DEF Walked
  <2> QED BY <1>4, <2>2
<1> QED BY <1>1, <1>4, <1>5, ListedIsChain DEF Fits, Listed, Range

\* Where kfree() puts a block: behind the one before it.
PlaceOf(a) == List[SelectInSeq(List, LAMBDA b :
                     node[b].next = NULL \/ a <= node[b].next)]

LEMMA PlaceIs ==
  ASSUME TypeOK, NEW F, F \subseteq Addr, Chain(F, Links(node, freeList)),
         freeList # NULL, NEW a \in Addr, a \notin F, ~ (a < freeList)
  PROVE  /\ PlaceOf(a) \in F /\ PlaceOf(a) < a
         /\ node[PlaceOf(a)].next = NULL \/ a < node[PlaceOf(a)].next
<1> DEFINE s == List
           I == {i \in 1 .. Len(s) : node[s[i]].next = NULL \/ a <= node[s[i]].next}
           N == Links(node, freeList)
<1>1. /\ F \subseteq Nat /\ a \in Nat /\ NULL = 0 /\ NULL \notin F /\ MemEnd \in Nat
  BY AddrFacts
<1>2. /\ freeList \in F /\ s \in Seq(F) /\ Len(s) \in Nat /\ Len(s) >= 1
      /\ s[1] = freeList
      /\ ToSet(s) = {b \in F : freeList <= b}
      /\ \A i, j \in 1 .. Len(s) : i < j => s[i] < s[j]
      /\ \A i \in 1 .. Len(s) - 1 : s[i + 1] = node[s[i]].next
  BY ListIsChain DEF Walked
<1>3. \A b \in F \cup {NULL} :
        /\ b \in Nat /\ N[b] \in Nat
        /\ N[b] = NULL \/ (N[b] \in F /\ b < N[b])
        /\ \A c \in F : c \in Nat /\ (b < c => N[b] \in F /\ N[b] <= c)
  BY ChainFacts, Zenon
<1>4. \A b \in F : N[b] = node[b].next
  BY <1>1 DEF Links, AddrOrNull
<1>5. PlaceOf(a) = s[IF I # {} THEN Min(I) ELSE 0]
  BY DEF PlaceOf, SelectInSeq
<1> HIDE DEF N, s
<1>6. \A i \in 1 .. Len(s) : s[i] \in F /\ s[i] \in ToSet(s) /\ s[i] \in Nat
  BY <1>1, <1>2, MemberSet
<1>7. Len(s) \in I
  <2> DEFINE l == s[Len(s)]
  <2>1. l \in F /\ l \in Nat /\ freeList <= l /\ Len(s) \in 1 .. Len(s)
    BY <1>2, <1>6
  <2>2. ASSUME N[l] # NULL PROVE FALSE
    <3>1. N[l] \in F /\ l < N[l] /\ N[l] \in Nat /\ freeList \in Nat
      BY <1>1, <1>2, <1>3, <2>1, <2>2
    <3>2. N[l] \in ToSet(s)
      BY <1>2, <2>1, <3>1
    <3>3. PICK i \in 1 .. Len(s) : s[i] = N[l]
      BY <1>2, <3>2, MemberSet
    <3>4. i = Len(s) \/ i < Len(s)
      BY <1>2
    <3>5. s[i] <= l
      BY <1>2, <1>6, <2>1, <3>3, <3>4
    <3> QED BY <2>1, <3>1, <3>3, <3>5
  <2> QED BY <1>4, <2>1, <2>2
<1> DEFINE k == Min(I)
<1>8. I \subseteq Nat /\ I # {}
  BY <1>7
<1>9. k \in I /\ \A i \in I : k <= i
  BY <1>8, MinIsLeast
<1>10. k \in 1 .. Len(s) /\ (node[s[k]].next = NULL \/ a <= node[s[k]].next)
  BY <1>9
<1>11. PlaceOf(a) = s[k]
  BY <1>5, <1>8
<1>12. ASSUME k # 1 PROVE s[k] < a
  <2>1. k - 1 \in 1 .. Len(s) - 1 /\ k - 1 \in 1 .. Len(s) /\ (k - 1) + 1 = k
    <3>1. Len(s) \in Nat /\ k \in 1 .. Len(s) /\ k # 1
      BY <1>2, <1>10, <1>12
    <3> HIDE DEF k, I
    <3> QED BY <3>1
  <2>2. ~ (k <= k - 1)
    BY <1>10
  <2>3. k - 1 \notin I
    BY <1>9, <2>2
  <2>4. ~ (a <= node[s[k - 1]].next)
    BY <2>1, <2>3
  <2>5. node[s[k - 1]].next = s[k]
    BY <1>2, <2>1
  <2>6. s[k] \in Nat
    BY <1>6, <1>10
  <2>7. ~ (a <= s[k])
    BY <2>4, <2>5
  <2> HIDE DEF k
  <2> QED BY <1>1, <2>6, <2>7
<1> HIDE DEF I, k
<1>13. s[k] \in F /\ s[k] \in Nat /\ N[s[k]] = node[s[k]].next /\ N[s[k]] \in Nat
        /\ (N[s[k]] = NULL \/ N[s[k]] \in F)
  BY <1>1, <1>3, <1>4, <1>6, <1>10
<1>14. s[k] < a
  <2>1. CASE k = 1
    BY <1>1, <1>2, <1>13, <2>1
  <2> QED BY <1>12, <2>1
<1>15. N[s[k]] = NULL \/ a < N[s[k]]
  BY <1>1, <1>10, <1>13
<1> QED BY <1>11, <1>13, <1>14, <1>15

-----------------------------------------------------------------------------
(* Writing to a header. *)

LEMMA PutPrev ==
  ASSUME NEW m \in Memory, NEW a, NEW v \in AddrOrNull
  PROVE  /\ Put(m, a, "prev", v) \in Memory
         /\ \A b \in Addr :
              /\ Put(m, a, "prev", v)[b].size = m[b].size
              /\ Put(m, a, "prev", v)[b].prev = IF b = a THEN v ELSE m[b].prev
              /\ Put(m, a, "prev", v)[b].next = m[b].next
              /\ Put(m, a, "prev", v)[b].sanityCheck = m[b].sanityCheck
BY DEF Put, Memory, Header

LEMMA PutNext ==
  ASSUME NEW m \in Memory, NEW a, NEW v \in AddrOrNull
  PROVE  /\ Put(m, a, "next", v) \in Memory
         /\ \A b \in Addr :
              /\ Put(m, a, "next", v)[b].size = m[b].size
              /\ Put(m, a, "next", v)[b].prev = m[b].prev
              /\ Put(m, a, "next", v)[b].next = IF b = a THEN v ELSE m[b].next
              /\ Put(m, a, "next", v)[b].sanityCheck = m[b].sanityCheck
BY DEF Put, Memory, Header

LEMMA PutSize ==
  ASSUME NEW m \in Memory, NEW a, NEW v, v \in Nat
  PROVE  /\ Put(m, a, "size", v) \in Memory
         /\ \A b \in Addr :
              /\ Put(m, a, "size", v)[b].size = IF b = a THEN v ELSE m[b].size
              /\ Put(m, a, "size", v)[b].prev = m[b].prev
              /\ Put(m, a, "size", v)[b].next = m[b].next
              /\ Put(m, a, "size", v)[b].sanityCheck = m[b].sanityCheck
BY DEF Put, Memory, Header

-----------------------------------------------------------------------------
(* Where blocks are. *)

HeldBlocks == {a \in Addr : held[a] > 0}

InMemory(B, m) == \A a \in B : a .. a + m[a].size \subseteq Addr

Apart(B, m) == \A a, b \in B : a < b => a + m[a].size < b

\* F are the free blocks and H the held ones.
Laid(F, H, m) ==
  /\ F \subseteq Addr /\ H \subseteq Addr /\ F \cap H = {}
  /\ InMemory(F \cup H, m)
  /\ Apart(F \cup H, m)

\* No two blocks touch, except perhaps x and the one above it.
GapsBut(x, F, m) ==
  \A a, b \in F : a < b /\ a # x => a + m[a].size + 1 < b

Covered(B, m) == UNION {a .. a + m[a].size : a \in B}

LEMMA CoveredIs ==
  ASSUME NEW B, NEW m
  PROVE  \A u : u \in Covered(B, m) <=> \E a \in B : u \in a .. a + m[a].size
BY DEF Covered

LEMMA SizesAre ==
  ASSUME NEW m \in Memory
  PROVE  \A a \in Addr : a \in Nat /\ m[a].size \in Nat
BY AddrFacts DEF Memory, Header

\* From memory m to memory n: the block x and y, which it touches, become one.
Joins(m, n, F, H, x, y) ==
  /\ x \in F /\ y \in F /\ x + 1 + m[x].size = y
  /\ n[x].size = m[x].size + m[y].size + 1
  /\ \A b \in (F \cup H) \ {x, y} : n[b].size = m[b].size

LEMMA LaidJoin ==
  ASSUME NEW m \in Memory, NEW n \in Memory, NEW F, NEW H, Laid(F, H, m),
         NEW x, NEW y, Joins(m, n, F, H, x, y)
  PROVE  /\ Laid(F \ {y}, H, n)
         /\ Covered(F \ {y}, n) = Covered(F, m)
<1> USE DEF Joins
<1>1. /\ \A a \in Addr : a \in Nat /\ m[a].size \in Nat
      /\ F \subseteq Addr /\ H \subseteq Addr /\ F \cap H = {}
      /\ \A a \in F \cup H : a .. a + m[a].size \subseteq Addr
      /\ \A a, b \in F \cup H : a < b => a + m[a].size < b
  BY SizesAre DEF Laid, InMemory, Apart
<1>2. x \in Nat /\ y \in Nat /\ m[x].size \in Nat /\ m[y].size \in Nat /\ x < y
  BY <1>1
<1>3. x .. x + n[x].size = (x .. x + m[x].size) \cup (y .. y + m[y].size)
  BY <1>2
<1>4. InMemory((F \ {y}) \cup H, n)
  <2>1. ASSUME NEW a \in (F \ {y}) \cup H PROVE a .. a + n[a].size \subseteq Addr
    <3>1. CASE a = x
      BY <1>1, <1>3, <3>1
    <3>2. CASE a # x
      BY <1>1, <3>2
    <3> QED BY <3>1, <3>2
  <2> QED BY <2>1 DEF InMemory
<1>5. Apart((F \ {y}) \cup H, n)
  <2>1. ASSUME NEW a \in (F \ {y}) \cup H, NEW b \in (F \ {y}) \cup H, a < b
        PROVE  a + n[a].size < b
    <3>0. a \in Nat /\ b \in Nat /\ b # y /\ a # y /\ a \in F \cup H /\ b \in F \cup H
      BY <1>1
    <3>1. CASE a = x
      <4>1. x + m[x].size < b
        BY <1>1, <2>1, <3>0, <3>1
      <4>2. y < b
        BY <1>2, <3>0, <4>1
      <4>3. y + m[y].size < b
        BY <1>1, <3>0, <4>2
      <4> QED BY <1>2, <3>0, <3>1, <4>3
    <3>2. CASE a # x
      BY <1>1, <2>1, <3>0, <3>2
    <3> QED BY <3>1, <3>2
  <2> QED BY <2>1 DEF Apart
<1>6. Covered(F \ {y}, n) = Covered(F, m)
  <2>1. ASSUME NEW u, NEW a \in F \ {y}, u \in a .. a + n[a].size
        PROVE  \E b \in F : u \in b .. b + m[b].size
    <3>1. CASE a = x
      BY <1>3, <2>1, <3>1
    <3>2. CASE a # x
      BY <2>1, <3>2
    <3> QED BY <3>1, <3>2
  <2>2. ASSUME NEW u, NEW a \in F, u \in a .. a + m[a].size
        PROVE  \E b \in F \ {y} : u \in b .. b + n[b].size
    <3>1. CASE a = x \/ a = y
      <4>1. x \in F \ {y}
        BY <1>2
      <4>2. u \in x .. x + n[x].size
        BY <1>3, <2>2, <3>1
      <4> QED BY <4>1, <4>2
    <3>2. CASE a # x /\ a # y
      BY <2>2, <3>2
    <3> QED BY <3>1, <3>2
  <2>3. ASSUME NEW u PROVE u \in Covered(F \ {y}, n) <=> u \in Covered(F, m)
    <3>1. u \in Covered(F, m) <=> \E a \in F : u \in a .. a + m[a].size
      BY CoveredIs
    <3>2. u \in Covered(F \ {y}, n) <=> \E a \in F \ {y} : u \in a .. a + n[a].size
      BY CoveredIs
    <3> QED BY <2>1, <2>2, <3>1, <3>2
  <2> QED BY <2>3
<1> QED BY <1>1, <1>4, <1>5, <1>6 DEF Laid

\* What B covers is what C covers, and l units behind x with it.
Loses(B, m, C, n, x, l) == Covered(B, m) = Covered(C, n) \cup (x .. x + l)

\* Of block x the first k units of data are taken, and the rest becomes block y.
Splits(m, n, F, H, x, k, y) ==
  /\ x \in F /\ y = x + 1 + k /\ m[x].size - k - 1 > 0
  /\ n[x].size = k /\ n[y].size = m[x].size - k - 1
  /\ \A b \in (F \cup H) \ {x} : n[b].size = m[b].size

LEMMA LaidSplit ==
  ASSUME NEW m \in Memory, NEW n \in Memory, NEW F, NEW H, NEW x, NEW k \in Nat,
         NEW y, Laid(F, H, m), Splits(m, n, F, H, x, k, y)
  PROVE  /\ y \in Addr /\ y \notin F \cup H
         /\ Laid((F \ {x}) \cup {y}, H \cup {x}, n)
         /\ Loses(F, m, (F \ {x}) \cup {y}, n, x, k)
<1> USE DEF Splits
<1>1. /\ \A a \in Addr : a \in Nat /\ m[a].size \in Nat
      /\ F \subseteq Addr /\ H \subseteq Addr /\ F \cap H = {}
      /\ \A a \in F \cup H : a .. a + m[a].size \subseteq Addr
      /\ \A a, b \in F \cup H : a < b => a + m[a].size < b
  BY SizesAre DEF Laid, InMemory, Apart
<1>2. x \in Nat /\ y \in Nat /\ m[x].size \in Nat /\ x < y /\ n[y].size \in Nat
  BY <1>1
<1>3. (x .. x + k) \cup (y .. y + n[y].size) = x .. x + m[x].size
  BY <1>2
<1>4. y \in Addr
  BY <1>1, <1>2
<1>5. y \notin F \cup H
  <2>1. ASSUME y \in F \cup H PROVE FALSE
    <3>1. x + m[x].size < y
      BY <1>1, <1>2, <2>1
    <3> QED BY <1>2, <3>1
  <2> QED BY <2>1
<1> DEFINE B == ((F \ {x}) \cup {y}) \cup (H \cup {x})
<1>6. \A a \in B : a \in Nat /\ (a = x \/ a = y \/ (a \in (F \cup H) \ {x} /\ a # y))
  BY <1>1, <1>2
<1>7. InMemory(B, n)
  <2>1. ASSUME NEW a \in B PROVE a .. a + n[a].size \subseteq Addr
    <3>1. CASE a = x
      BY <1>1, <1>3, <3>1
    <3>2. CASE a = y
      BY <1>1, <1>3, <3>2
    <3>3. CASE a # x /\ a # y
      BY <1>1, <1>6, <3>3
    <3> QED BY <3>1, <3>2, <3>3
  <2> QED BY <2>1 DEF InMemory
<1>8. Apart(B, n)
  <2>1. ASSUME NEW a \in B, NEW b \in B, a < b PROVE a + n[a].size < b
    <3>0. a \in Nat /\ b \in Nat
      BY <1>6
    <3>1. CASE a = x \/ a = y
      <4>1. CASE a = x /\ b = y
        BY <1>2, <4>1
      <4>2. CASE b # y
        <5>1. x < b /\ b # x /\ b \in F \cup H
          BY <1>2, <1>6, <2>1, <3>0, <3>1, <4>2
        <5>2. x + m[x].size < b
          BY <1>1, <5>1
        <5> QED BY <1>2, <3>0, <3>1, <5>2
      <4> QED BY <2>1, <3>0, <3>1, <4>1, <4>2
    <3>2. CASE a # x /\ a # y
      <4>1. a \in F \cup H /\ n[a].size = m[a].size /\ m[a].size \in Nat
        BY <1>1, <1>6, <3>2
      <4>2. CASE b # y
        BY <1>1, <1>6, <2>1, <4>1, <4>2
      <4>3. CASE b = y
        <5>1. ~ (x < a)
          <6>1. ASSUME x < a PROVE FALSE
            <7>1. x + m[x].size < a
              BY <1>1, <4>1, <6>1
            <7> QED BY <1>2, <2>1, <3>0, <4>3, <7>1
          <6> QED BY <6>1
        <5>2. a < x
          BY <1>2, <3>0, <3>2, <5>1
        <5>3. a + m[a].size < x
          BY <1>1, <4>1, <5>2
        <5> QED BY <1>2, <3>0, <4>1, <4>3, <5>3
      <4> QED BY <4>2, <4>3
    <3> QED BY <3>1, <3>2
  <2> QED BY <2>1 DEF Apart
<1>9. Covered(F, m) = Covered((F \ {x}) \cup {y}, n) \cup (x .. x + k)
  <2>1. ASSUME NEW u, NEW a \in F, u \in a .. a + m[a].size
        PROVE  \/ u \in x .. x + k
               \/ \E b \in (F \ {x}) \cup {y} : u \in b .. b + n[b].size
    BY <1>3, <2>1
  <2>2. ASSUME NEW u, NEW a \in (F \ {x}) \cup {y}, u \in a .. a + n[a].size
        PROVE  \E b \in F : u \in b .. b + m[b].size
    BY <1>3, <2>2
  <2>3. x .. x + k \subseteq x .. x + m[x].size
    BY <1>3
  <2> QED BY <2>1, <2>2, <2>3, CoveredIs
<1>10. (F \ {x}) \cup {y} \subseteq Addr /\ H \cup {x} \subseteq Addr
         /\ ((F \ {x}) \cup {y}) \cap (H \cup {x}) = {}
  BY <1>1, <1>2, <1>4, <1>5
<1> QED BY <1>4, <1>5, <1>7, <1>8, <1>9, <1>10 DEF Laid, Loses

\* Block x is taken as a whole, for k units of data.
Takes(m, n, F, H, x, k) ==
  /\ x \in F /\ k <= m[x].size /\ n[x].size = k
  /\ \A b \in (F \cup H) \ {x} : n[b].size = m[b].size

LEMMA LaidTake ==
  ASSUME NEW m \in Memory, NEW n \in Memory, NEW F, NEW H, Laid(F, H, m),
         NEW x, NEW k \in Nat, Takes(m, n, F, H, x, k)
  PROVE  /\ Laid(F \ {x}, H \cup {x}, n)
         /\ Loses(F, m, F \ {x}, n, x, m[x].size)
<1> USE DEF Takes
<1>1. /\ \A a \in Addr : a \in Nat /\ m[a].size \in Nat
      /\ F \subseteq Addr /\ H \subseteq Addr /\ F \cap H = {}
      /\ \A a \in F \cup H : a .. a + m[a].size \subseteq Addr
      /\ \A a, b \in F \cup H : a < b => a + m[a].size < b
  BY SizesAre DEF Laid, InMemory, Apart
<1>2. \A a \in F \cup H : n[a].size \in Nat /\ n[a].size <= m[a].size
  BY <1>1
<1>3. (F \ {x}) \cup (H \cup {x}) = F \cup H
  OBVIOUS
<1>4. InMemory(F \cup H, n)
  <2>1. ASSUME NEW a \in F \cup H PROVE a .. a + n[a].size \subseteq Addr
    <3>1. a .. a + n[a].size \subseteq a .. a + m[a].size
      BY <1>1, <1>2
    <3> QED BY <1>1, <3>1
  <2> QED BY <2>1 DEF InMemory
<1>5. Apart(F \cup H, n)
  <2>1. ASSUME NEW a \in F \cup H, NEW b \in F \cup H, a < b
        PROVE  a + n[a].size < b
    <3>1. a + m[a].size < b /\ a \in Nat /\ b \in Nat /\ m[a].size \in Nat
      BY <1>1, <2>1
    <3> QED BY <1>2, <3>1
  <2> QED BY <2>1 DEF Apart
<1>6. Covered(F, m) = Covered(F \ {x}, n) \cup (x .. x + m[x].size)
  <2>1. \A a \in F \ {x} : n[a].size = m[a].size
    OBVIOUS
  <2>2. ASSUME NEW u
        PROVE  u \in Covered(F, m)
                 <=> u \in Covered(F \ {x}, n) \/ u \in x .. x + m[x].size
    <3>1. u \in Covered(F, m) <=> \E a \in F : u \in a .. a + m[a].size
      BY CoveredIs
    <3>2. u \in Covered(F \ {x}, n) <=> \E a \in F \ {x} : u \in a .. a + n[a].size
      BY CoveredIs
    <3> QED BY <2>1, <3>1, <3>2
  <2> QED BY <2>2
<1> QED BY <1>1, <1>3, <1>4, <1>5, <1>6 DEF Laid, Loses

LEMMA ApartDisjoint ==
  ASSUME NEW m \in Memory, NEW B, NEW C, B \subseteq Addr, C \subseteq Addr,
         B \cap C = {}, Apart(B \cup C, m)
  PROVE  Covered(B, m) \cap Covered(C, m) = {}
<1>1. ASSUME NEW a \in B, NEW b \in C, NEW u, u \in a .. a + m[a].size,
             u \in b .. b + m[b].size
      PROVE  FALSE
  <2>1. a \in Nat /\ b \in Nat /\ a # b /\ m[a].size \in Nat /\ m[b].size \in Nat
    BY SizesAre
  <2>2. CASE a < b
    <3>1. a + m[a].size < b
      BY <2>2 DEF Apart
    <3> QED BY <1>1, <2>1, <3>1
  <2>3. CASE b < a
    <3>1. b + m[b].size < a
      BY <2>3 DEF Apart
    <3> QED BY <1>1, <2>1, <3>1
  <2> QED BY <2>1, <2>2, <2>3
<1> QED BY <1>1, CoveredIs

-----------------------------------------------------------------------------
(* The invariant: F is the set of the free blocks. *)

Kept(F) ==
  /\ Chain(F, Links(node, freeList))
  /\ Laid(F, HeldBlocks, node)
  /\ \A a, b \in F : a < b => a + node[a].size + 1 < b
  /\ \A a \in HeldBlocks : node[a].size = held[a]
  /\ \A a \in Addr : node[a].sanityCheck = a <=> held[a] > 0

ListInv == TypeOK /\ \E F \in SUBSET Addr : Kept(F)

\* What kmalloc() writes to memory.
LEMMA TakeWrites ==
  ASSUME TypeOK, NEW x \in Addr, NEW n \in Nat, Take(x, n),
         NEW split \in BOOLEAN, split <=> Rest(x, n) > 0,
         NEW y, y = x + 1 + n, split => y \in Addr, y # x,
         node[x].prev # x, node[x].next # x,
         NEW succ, succ = IF split THEN y ELSE node[x].next
  PROVE  /\ node' \in Memory
         /\ freeList' = IF node[x].prev = NULL THEN succ ELSE freeList
         /\ node'[x] = [size |-> n, prev |-> NULL, next |-> NULL, sanityCheck |-> x]
         /\ \A b \in Addr \ {x} :
              /\ node'[b].size = IF split /\ b = y THEN Rest(x, n) ELSE node[b].size
              /\ node'[b].next = IF b = node[x].prev THEN succ
                                 ELSE IF split /\ b = y THEN node[x].next
                                 ELSE node[b].next
              /\ node'[b].sanityCheck = node[b].sanityCheck
<1> DEFINE old == node[x]
           w1 == Put(node, y, "size", Rest(x, n))
           w2 == Put(w1, y, "next", old.next)
           w3 == Put(w2, old.next, "prev", y)
           m1 == IF split THEN w3 ELSE node
           m2 == Put(m1, succ, "prev", old.prev)
           m3 == Put(m2, old.prev, "next", succ)
<1>1. /\ node \in Memory /\ old.next \in AddrOrNull /\ old.prev \in AddrOrNull
      /\ old.size \in Nat /\ x \in AddrOrNull /\ NULL \in AddrOrNull
  BY DEF TypeOK, Memory, Header, AddrOrNull
<1>2. succ \in AddrOrNull /\ (split => y \in AddrOrNull)
  BY <1>1 DEF AddrOrNull
<1>3. /\ node' = [m3 EXCEPT ![x] = [size |-> n, prev |-> NULL, next |-> NULL,
                                    sanityCheck |-> x]]
      /\ freeList' = IF old.prev = NULL THEN succ ELSE freeList
  BY DEF Take
<1> HIDE DEF old
<1>4. /\ m1 \in Memory
      /\ \A b \in Addr :
           /\ m1[b].size = IF split /\ b = y THEN Rest(x, n) ELSE node[b].size
           /\ m1[b].next = IF split /\ b = y THEN old.next ELSE node[b].next
           /\ m1[b].sanityCheck = node[b].sanityCheck
  <2>1. CASE split
    <3>1. Rest(x, n) \in Nat
      <4>1. Rest(x, n) \in Int
        BY <1>1 DEF Rest, old
      <4> QED BY <2>1, <4>1
    <3>2. w1 \in Memory /\ \A b \in Addr :
            /\ w1[b].size = IF b = y THEN Rest(x, n) ELSE node[b].size
            /\ w1[b].next = node[b].next
            /\ w1[b].sanityCheck = node[b].sanityCheck
      BY <1>1, <3>1, PutSize
    <3> HIDE DEF w1
    <3>3. w2 \in Memory /\ \A b \in Addr :
            /\ w2[b].size = w1[b].size
            /\ w2[b].next = IF b = y THEN old.next ELSE w1[b].next
            /\ w2[b].sanityCheck = w1[b].sanityCheck
      BY <1>1, <3>2, PutNext
    <3> HIDE DEF w2
    <3>4. w3 \in Memory /\ \A b \in Addr :
            /\ w3[b].size = w2[b].size
            /\ w3[b].next = w2[b].next
            /\ w3[b].sanityCheck = w2[b].sanityCheck
      BY <1>2, <2>1, <3>3, PutPrev
    <3> HIDE DEF w3
    <3> QED BY <2>1, <3>2, <3>3, <3>4
  <2>2. CASE ~ split
    BY <1>1, <2>2
  <2> QED BY <2>1, <2>2
<1> HIDE DEF m1
<1>5. m2 \in Memory /\ \A b \in Addr :
        /\ m2[b].size = m1[b].size
        /\ m2[b].next = m1[b].next
        /\ m2[b].sanityCheck = m1[b].sanityCheck
  BY <1>1, <1>4, PutPrev
<1> HIDE DEF m2
<1>6. m3 \in Memory /\ \A b \in Addr :
        /\ m3[b].size = m2[b].size
        /\ m3[b].next = IF b = old.prev THEN succ ELSE m2[b].next
        /\ m3[b].sanityCheck = m2[b].sanityCheck
  BY <1>2, <1>5, PutNext
<1> HIDE DEF m3
<1>7. /\ node' \in Memory
      /\ node'[x] = [size |-> n, prev |-> NULL, next |-> NULL, sanityCheck |-> x]
      /\ \A b \in Addr \ {x} : node'[b] = m3[b]
  BY <1>1, <1>3, <1>6 DEF Memory, Header
<1> QED BY <1>3, <1>4, <1>5, <1>6, <1>7 DEF old

LEMMA AmountPositive ==
  ASSUME NEW size \in Int, size > 0
  PROVE  Amount(size) \in Nat /\ Amount(size) > 0
BY DEF Amount, Unit

\* What is free or held, in terms of F.
LEMMA UnitsAre ==
  ASSUME TypeOK, NEW F, Kept(F)
  PROVE  /\ F \subseteq Addr
         /\ Listed = F /\ Ends /\ (freeList = NULL <=> F = {})
         /\ FreeUnits = Covered(F, node)
         /\ HeldUnits = Covered(HeldBlocks, node)
         /\ FreeUnits \subseteq Addr
         /\ FreeUnits \cap HeldUnits = {}
<1>1. F \subseteq Addr /\ HeldBlocks \subseteq Addr /\ F \cap HeldBlocks = {}
        /\ InMemory(F \cup HeldBlocks, node) /\ Apart(F \cup HeldBlocks, node)
  BY DEF Kept, Laid
<1>2. Listed = F /\ Ends /\ (freeList = NULL <=> F = {})
  BY <1>1, ListedIsChain DEF Kept
<1>3. FreeUnits = Covered(F, node)
  BY <1>2 DEF FreeUnits, Extent, Covered
<1>4. \A a \in HeldBlocks : node[a].size = held[a]
  BY DEF Kept
<1>5. HeldUnits = Covered(HeldBlocks, node)
  <2>1. HeldUnits = UNION {a .. a + held[a] : a \in HeldBlocks}
    BY DEF HeldUnits, HeldBlocks
  <2>2. {a .. a + held[a] : a \in HeldBlocks}
          = {a .. a + node[a].size : a \in HeldBlocks}
    BY <1>4
  <2> QED BY <2>1, <2>2 DEF Covered
<1>6. node \in Memory
  BY DEF TypeOK
<1>7. Covered(F, node) \cap Covered(HeldBlocks, node) = {}
  BY <1>1, <1>6, ApartDisjoint
<1>8. Covered(F, node) \subseteq Addr
  BY <1>1, CoveredIs DEF InMemory
<1> QED BY <1>1, <1>2, <1>3, <1>5, <1>7, <1>8

\* G is free after x and n units behind it were taken from what F was.
TakenFrom(F, G, x, n) ==
  LET before == Covered(F, node)
      after  == Covered(G, node')
  IN  \/ before = after \cup (x .. x + n)
      \/ before = after \cup (x .. x + n + 1) /\ x + n + 1 \notin after

LEMMA KmallocKeeps ==
  ASSUME TypeOK, NEW F, F \subseteq Addr, Kept(F),
         NEW x \in Addr, NEW size \in Int, kmalloc(x, size), PrevTrue(x)
  PROVE  /\ TypeOK'
         /\ HeldBlocks' = HeldBlocks \cup {x} /\ x \notin HeldBlocks
         /\ \E G \in SUBSET Addr : Kept(G)' /\ TakenFrom(F, G, x, Amount(size))
<1> DEFINE n == Amount(size)
           y == x + 1 + n
           split == Rest(x, n) > 0
           p == node[x].prev
           next == node[x].next
           succ == IF split THEN y ELSE next
           N == Links(node, freeList)
           M == Links(node', freeList')
           H == HeldBlocks
<1>1. /\ size > 0 /\ FirstFit(x, n) /\ Take(x, n)
      /\ held' = [held EXCEPT ![x] = n]
  BY DEF kmalloc
<1>2. n \in Nat /\ n > 0
  BY <1>1, AmountPositive
<1> HIDE DEF n
<1>3. /\ Chain(F, N) /\ Laid(F, H, node)
      /\ \A a, b \in F : a < b => a + node[a].size + 1 < b
      /\ \A a \in H : node[a].size = held[a]
      /\ \A a \in Addr : node[a].sanityCheck = a <=> held[a] > 0
  BY DEF Kept
<1>4. x \in F /\ node[x].size >= n
  BY <1>1, <1>3, FirstFitIs
<1>5. /\ NULL \notin F /\ NULL \notin Addr /\ NULL = 0
      /\ \A a \in Addr : a \in Nat /\ node[a].size \in Nat
      /\ node \in Memory /\ held \in [Addr -> Nat] /\ freeList \in AddrOrNull
  BY AddrFacts, SizesAre DEF TypeOK
<1>6. /\ H \subseteq Addr /\ F \cap H = {}
      /\ \A a \in F \cup H : a .. a + node[a].size \subseteq Addr
  BY <1>3 DEF Laid, InMemory
<1>7. N[NULL] = freeList /\ \A a \in F : N[a] = node[a].next
  BY <1>5 DEF Links, AddrOrNull
<1>8. p \in F \cup {NULL} /\ N[p] = x
  BY <1>5, <1>3, <1>7, ListedIsChain DEF PrevTrue
<1>9. \A b \in F \cup {NULL} :
        /\ b \in Nat /\ N[b] \in Nat
        /\ N[b] = NULL \/ (N[b] \in F /\ b < N[b])
        /\ \A c \in F : c \in Nat /\ (b < c => N[b] \in F /\ N[b] <= c)
  BY <1>3, ChainFacts, Zenon
<1> HIDE DEF N
<1>10. /\ x \in Nat /\ node[x].size \in Nat /\ p < x /\ p # x /\ next # x
       /\ (next = NULL \/ (next \in F /\ x < next)) /\ N[x] = next
  BY <1>4, <1>5, <1>7, <1>8, <1>9
<1>11. split <=> node[x].size - n - 1 > 0
  BY DEF Rest
<1>12. y \in Nat /\ x < y /\ (split => y \in Addr)
  <2>1. split => y \in x .. x + node[x].size
    BY <1>2, <1>10, <1>11
  <2> QED BY <1>2, <1>4, <1>6, <1>10, <2>1
<1>13. /\ node' \in Memory
       /\ freeList' = IF p = NULL THEN succ ELSE freeList
       /\ node'[x] = [size |-> n, prev |-> NULL, next |-> NULL, sanityCheck |-> x]
       /\ \A b \in Addr \ {x} :
            /\ node'[b].size = IF split /\ b = y THEN Rest(x, n) ELSE node[b].size
            /\ node'[b].next = IF b = p THEN succ
                               ELSE IF split /\ b = y THEN next
                               ELSE node[b].next
            /\ node'[b].sanityCheck = node[b].sanityCheck
  <2>1. PICK s \in BOOLEAN : s <=> split
    OBVIOUS
  <2>2. PICK z : z = y
    OBVIOUS
  <2>3. PICK t : t = succ
    OBVIOUS
  <2>4. /\ s <=> Rest(x, n) > 0
        /\ z = x + 1 + n /\ (s => z \in Addr) /\ z # x
        /\ t = IF s THEN z ELSE node[x].next
    BY <1>10, <1>12, <2>1, <2>2, <2>3
  <2> QED BY <1>1, <1>2, <1>10, <2>1, <2>2, <2>3, <2>4, TakeWrites
<1>14. held'[x] = n /\ held' \in [Addr -> Nat]
         /\ \A a \in Addr \ {x} : held'[a] = held[a]
  BY <1>1, <1>2, <1>5
<1>15. x \notin H
  BY <1>4, <1>6
<1>16. HeldBlocks' = H \cup {x}
  BY <1>2, <1>14 DEF HeldBlocks
<1>17. TypeOK'
  BY <1>5, <1>10, <1>12, <1>13, <1>14 DEF TypeOK, AddrOrNull
<1>18. \A a \in Addr : node'[a].sanityCheck = a <=> held'[a] > 0
  BY <1>2, <1>3, <1>13, <1>14
<1>19. M[NULL] = freeList' /\ \A a \in Addr : M[a] = node'[a].next
  BY <1>5 DEF Links, AddrOrNull
<1>20. CASE split
  <2> DEFINE G == (F \ {x}) \cup {y}
  <2>1. node'[x].size = n /\ node'[y].size = node[x].size - n - 1
          /\ node[x].size - n - 1 > 0 /\ node'[y].size \in Nat
    BY <1>2, <1>10, <1>11, <1>12, <1>13, <1>20 DEF Rest
  <2>2. y \notin F \cup H
    <3>1. ASSUME y \in F \cup H PROVE FALSE
      <4>1. x + node[x].size < y
        BY <1>3, <1>4, <1>12, <3>1 DEF Laid, Apart
      <4> QED BY <1>2, <1>10, <1>11, <1>20, <4>1
    <3> QED BY <3>1
  <2>3. \A b \in (F \cup H) \ {x} : node'[b].size = node[b].size
    BY <1>3, <1>6, <1>13, <2>2
  <2>4. PICK z : z = y
    OBVIOUS
  <2>5. /\ Laid((F \ {x}) \cup {z}, H \cup {x}, node')
        /\ Covered(F, node) = Covered((F \ {x}) \cup {z}, node') \cup (x .. x + n)
    <3>1. PICK m \in Memory, w \in Memory, K \in SUBSET Addr, k \in Nat :
                 m = node /\ w = node' /\ K = H /\ k = n
      BY <1>2, <1>5, <1>6, <1>13
    <3>2. Laid(F, K, m) /\ Splits(m, w, F, K, x, k, z)
      BY <1>3, <1>4, <2>1, <2>3, <2>4, <3>1 DEF Splits
    <3>3. /\ Laid((F \ {x}) \cup {z}, K \cup {x}, w)
          /\ Loses(F, m, (F \ {x}) \cup {z}, w, x, k)
      BY <3>1, <3>2, LaidSplit
    <3> QED BY <3>1, <3>3 DEF Loses
  <2>6. M[p] = y
    BY <1>8, <1>10, <1>13, <1>19, <1>20
  <2>7. M[y] = N[x]
    BY <1>8, <1>10, <1>12, <1>13, <1>19, <1>20, <2>2, <1>5
  <2>8. \A b \in (F \cup {NULL}) \ {x, p} : M[b] = N[b]
    BY <1>7, <1>13, <1>19, <2>2
  <2>9. next = NULL \/ y < next
    <3>1. next \in F => x + node[x].size + 1 < next /\ next \in Nat
      BY <1>3, <1>4, <1>5, <1>10
    <3> QED BY <1>2, <1>10, <1>11, <1>20, <3>1
  <2>10. Chain(G, M)
    <3>1. /\ z \in Addr /\ z \notin F /\ x < z /\ (N[x] = NULL \/ z < N[x])
          /\ M[p] = z /\ M[z] = N[x]
      BY <1>10, <1>12, <1>20, <2>2, <2>4, <2>6, <2>7, <2>9
    <3>2. PICK o, q, l : o = N /\ q = M /\ l = p
      OBVIOUS
    <3> HIDE DEF M
    <3>3. /\ Chain(F, o) /\ l \in F \cup {NULL} /\ o[l] = x
          /\ o[x] = NULL \/ z < o[x]
          /\ q[l] = z /\ q[z] = o[x]
          /\ \A b \in (F \cup {NULL}) \ {x, l} : q[b] = o[b]
      BY <1>3, <1>8, <2>8, <3>1, <3>2
    <3>4. Chain((F \ {x}) \cup {z}, q)
      BY <1>4, <3>1, <3>3, ChainReplace
    <3> QED BY <2>4, <3>2, <3>4
  <2>11. ASSUME NEW a \in G, NEW b \in G, a < b PROVE a + node'[a].size + 1 < b
    <3>0. a \in Nat /\ b \in Nat
      BY <1>5, <1>12
    <3>1. CASE a = y
      <4>1. b \in F /\ x < b
        BY <1>12, <2>11, <3>0, <3>1
      <4>2. x + node[x].size + 1 < b
        BY <1>3, <1>4, <4>1
      <4> QED BY <1>2, <1>10, <2>1, <3>0, <3>1, <4>2
    <3>2. CASE a # y
      <4>1. a \in F /\ a # x /\ node'[a].size = node[a].size /\ node[a].size \in Nat
        BY <1>5, <2>3, <3>2
      <4>2. CASE b # y
        BY <1>3, <2>11, <4>1, <4>2
      <4>3. CASE b = y
        <5>1. ~ (x < a)
          <6>1. ASSUME x < a PROVE FALSE
            <7>1. x + node[x].size + 1 < a
              BY <1>3, <1>4, <4>1, <6>1
            <7> QED BY <1>2, <1>10, <1>11, <1>20, <2>11, <3>0, <4>3, <7>1
          <6> QED BY <6>1
        <5>2. a + node[a].size + 1 < x
          BY <1>3, <1>4, <1>10, <3>0, <4>1, <5>1
        <5> QED BY <1>10, <1>12, <3>0, <4>1, <4>3, <5>2
      <4> QED BY <4>2, <4>3
    <3> QED BY <3>1, <3>2
  <2>12. \A a \in H \cup {x} : node'[a].size = held'[a]
    BY <1>3, <1>6, <1>14, <2>1, <2>3
  <2>13. Kept(G)'
    <3>1. Laid(G, HeldBlocks', node')
      BY <1>16, <2>4, <2>5
    <3> HIDE DEF G
    <3> QED BY <1>16, <1>18, <2>10, <2>11, <2>12, <3>1 DEF Kept
  <2>14. G \in SUBSET Addr
    BY <1>12, <1>20
  <2>15. TakenFrom(F, G, x, n)
    BY <2>4, <2>5 DEF TakenFrom
  <2> HIDE DEF G
  <2> QED BY <1>15, <1>16, <1>17, <2>13, <2>14, <2>15 DEF n
<1>21. CASE ~ split
  <2> DEFINE G == F \ {x}
  <2>1. node[x].size = n \/ node[x].size = n + 1
    BY <1>2, <1>4, <1>10, <1>11, <1>21
  <2>2. node'[x].size = n /\ n <= node[x].size
    BY <1>2, <1>10, <1>13, <2>1
  <2>3. \A b \in (F \cup H) \ {x} : node'[b].size = node[b].size
    BY <1>6, <1>13, <1>21
  <2>4. /\ Laid(G, H \cup {x}, node')
        /\ Covered(F, node) = Covered(G, node') \cup (x .. x + node[x].size)
    <3>1. PICK m \in Memory, w \in Memory, K \in SUBSET Addr, k \in Nat :
                 m = node /\ w = node' /\ K = H /\ k = n
      BY <1>2, <1>5, <1>6, <1>13
    <3>2. Laid(F, K, m) /\ Takes(m, w, F, K, x, k)
      BY <1>3, <1>4, <2>2, <2>3, <3>1 DEF Takes
    <3>3. /\ Laid(F \ {x}, K \cup {x}, w)
          /\ Loses(F, m, F \ {x}, w, x, m[x].size)
      BY <3>2, LaidTake
    <3> QED BY <3>1, <3>3 DEF Loses
  <2>5. M[p] = N[x]
    BY <1>8, <1>10, <1>13, <1>19, <1>21
  <2>6. \A b \in (F \cup {NULL}) \ {x, p} : M[b] = N[b]
    BY <1>7, <1>13, <1>19, <1>21
  <2>7. Chain(G, M)
    <3>1. PICK o, q, l : o = N /\ q = M /\ l = p
      OBVIOUS
    <3> HIDE DEF M
    <3>2. /\ Chain(F, o) /\ l \in F \cup {NULL} /\ o[l] = x /\ q[l] = o[x]
          /\ \A b \in (F \cup {NULL}) \ {x, l} : q[b] = o[b]
      BY <1>3, <1>8, <2>5, <2>6, <3>1
    <3>3. Chain(F \ {x}, q)
      BY <1>4, <3>2, ChainRemove
    <3> QED BY <3>1, <3>3
  <2>8. \A a, b \in G : a < b => a + node'[a].size + 1 < b
    BY <1>3, <2>3
  <2>9. \A a \in H \cup {x} : node'[a].size = held'[a]
    BY <1>3, <1>6, <1>14, <2>2, <2>3
  <2>10. Kept(G)'
    <3>1. Laid(G, HeldBlocks', node')
      BY <1>16, <2>4
    <3> HIDE DEF G
    <3> QED BY <1>16, <1>18, <2>7, <2>8, <2>9, <3>1 DEF Kept
  <2>11. ASSUME node[x].size = n + 1 PROVE x + n + 1 \notin Covered(G, node')
    <3>1. ASSUME NEW a \in G, x + n + 1 \in a .. a + node'[a].size PROVE FALSE
      <4>1. node'[a].size = node[a].size /\ a # x /\ a \in Nat /\ node[a].size \in Nat
        BY <1>5, <2>3
      <4>2. CASE a < x
        <5>1. a + node[a].size + 1 < x
          BY <1>3, <1>4, <4>2
        <5> QED BY <1>2, <1>10, <3>1, <4>1, <5>1
      <4>3. CASE x < a
        <5>1. x + node[x].size + 1 < a
          BY <1>3, <1>4, <4>3
        <5> QED BY <1>2, <1>10, <2>11, <3>1, <4>1, <5>1
      <4> QED BY <1>10, <4>1, <4>2, <4>3
    <3> HIDE DEF G
    <3> QED BY <3>1, CoveredIs
  <2>12. TakenFrom(F, G, x, n)
    <3>1. x + (n + 1) = x + n + 1
      BY <1>2, <1>10
    <3> QED BY <2>1, <2>4, <2>11, <3>1 DEF TakenFrom
  <2>13. G \in SUBSET Addr
    OBVIOUS
  <2> HIDE DEF G
  <2> QED BY <1>15, <1>16, <1>17, <2>10, <2>12, <2>13 DEF n
<1> QED BY <1>20, <1>21

-----------------------------------------------------------------------------
(* kfree(): the block is put in its place, and then joined to neighbours. *)

\* From memory m to memory w: the header at x covers the block at y as well,
\* and what follows y follows x.
Absorbs(m, w, x, y) ==
  /\ w[x].size = m[x].size + m[y].size + 1
  /\ w[x].next = m[y].next
  /\ \A b \in Addr \ {x} : w[b].size = m[b].size /\ w[b].next = m[b].next
  /\ \A b \in Addr : w[b].sanityCheck = m[b].sanityCheck

LEMMA HeaderTypes ==
  ASSUME NEW m \in Memory
  PROVE  \A a \in Addr : /\ a \in Nat /\ a # NULL /\ a \in AddrOrNull
                         /\ m[a].size \in Nat /\ m[a].prev \in AddrOrNull
                         /\ m[a].next \in AddrOrNull
BY AddrFacts DEF Memory, Header, AddrOrNull

LEMMA JoinsPrevWrites ==
  ASSUME NEW m \in Memory, NEW a \in Addr, NEW p \in Addr, m[a].prev = p, p # a
  PROVE  JoinsPrev(m, a) \in Memory /\ Absorbs(m, JoinsPrev(m, a), p, a)
<1> DEFINE g == m[a].next
           w1 == Put(m, p, "size", m[p].size + m[a].size + 1)
           w2 == Put(w1, p, "next", g)
           w3 == Put(w2, g, "prev", p)
<1>1. /\ m[p].size \in Nat /\ m[a].size \in Nat /\ g \in AddrOrNull
      /\ p \in AddrOrNull /\ m[p].size + m[a].size + 1 \in Nat
  BY HeaderTypes
<1>2. w1 \in Memory /\ \A b \in Addr :
        /\ w1[b].size = IF b = p THEN m[p].size + m[a].size + 1 ELSE m[b].size
        /\ w1[b].next = m[b].next
        /\ w1[b].sanityCheck = m[b].sanityCheck
  BY <1>1, PutSize
<1> HIDE DEF w1
<1>3. w2 \in Memory /\ \A b \in Addr :
        /\ w2[b].size = w1[b].size
        /\ w2[b].next = IF b = p THEN g ELSE w1[b].next
        /\ w2[b].sanityCheck = w1[b].sanityCheck
  BY <1>1, <1>2, PutNext
<1> HIDE DEF w2
<1>4. w3 \in Memory /\ \A b \in Addr :
        /\ w3[b].size = w2[b].size
        /\ w3[b].next = w2[b].next
        /\ w3[b].sanityCheck = w2[b].sanityCheck
  BY <1>1, <1>3, PutPrev
<1> HIDE DEF w3
<1>5. JoinsPrev(m, a) = w3
  BY DEF JoinsPrev, w3, w2, w1
<1>6. Absorbs(m, w3, p, a)
  BY <1>2, <1>3, <1>4 DEF Absorbs
<1> QED BY <1>4, <1>5, <1>6

LEMMA JoinsNextWrites ==
  ASSUME NEW m \in Memory, NEW a \in Addr, NEW g \in Addr, m[a].next = g, g # a
  PROVE  JoinsNext(m, a) \in Memory /\ Absorbs(m, JoinsNext(m, a), a, g)
<1> DEFINE g2 == m[g].next
           w1 == Put(m, a, "size", m[a].size + m[g].size + 1)
           w2 == Put(w1, a, "next", g2)
           w3 == IF g2 = NULL THEN w2 ELSE Put(w2, w2[g2].next, "prev", a)
<1>1. /\ m[g].size \in Nat /\ m[a].size \in Nat /\ g2 \in AddrOrNull
      /\ a \in AddrOrNull /\ m[a].size + m[g].size + 1 \in Nat
  BY HeaderTypes
<1>2. w1 \in Memory /\ \A b \in Addr :
        /\ w1[b].size = IF b = a THEN m[a].size + m[g].size + 1 ELSE m[b].size
        /\ w1[b].next = m[b].next
        /\ w1[b].sanityCheck = m[b].sanityCheck
  BY <1>1, PutSize
<1> HIDE DEF w1
<1>3. w2 \in Memory /\ \A b \in Addr :
        /\ w2[b].size = w1[b].size
        /\ w2[b].next = IF b = a THEN g2 ELSE w1[b].next
        /\ w2[b].sanityCheck = w1[b].sanityCheck
  BY <1>1, <1>2, PutNext
<1> HIDE DEF w2
<1>4. w3 \in Memory /\ \A b \in Addr :
        /\ w3[b].size = w2[b].size
        /\ w3[b].next = w2[b].next
        /\ w3[b].sanityCheck = w2[b].sanityCheck
  <2>1. CASE g2 = NULL
    BY <1>3, <2>1
  <2>2. CASE g2 # NULL
    BY <1>1, <1>3, <2>2, PutPrev
  <2> QED BY <2>1, <2>2
<1> HIDE DEF w3
<1>5. JoinsNext(m, a) = w3
  BY DEF JoinsNext, w3, w2, w1
<1>6. Absorbs(m, w3, a, g)
  BY <1>2, <1>3, <1>4 DEF Absorbs
<1> QED BY <1>4, <1>5, <1>6

\* A block that absorbs the one behind it, which it touches, leaves the list
\* sorted and covers what both covered.
LEMMA AbsorbKeeps ==
  ASSUME NEW m \in Memory, NEW w \in Memory, NEW h \in AddrOrNull, NEW F, NEW H,
         Chain(F, Links(m, h)), Laid(F, H, m),
         NEW x \in F, NEW y \in F, m[x].next = y, Adjacent(m, x, y),
         Absorbs(m, w, x, y)
  PROVE  /\ Chain(F \ {y}, Links(w, h))
         /\ Laid(F \ {y}, H, w)
         /\ Covered(F \ {y}, w) = Covered(F, m)
<1> DEFINE N == Links(m, h)
           M == Links(w, h)
<1>1. /\ F \subseteq Addr /\ H \subseteq Addr /\ F \cap H = {} /\ NULL \notin Addr
      /\ x \in Addr /\ y \in Addr
  BY AddrFacts DEF Laid
<1>2. /\ N[NULL] = h /\ M[NULL] = h
      /\ \A a \in F : N[a] = m[a].next /\ M[a] = w[a].next
  BY <1>1 DEF Links, AddrOrNull
<1> HIDE DEF N, M
<1>3. M[x] = N[y] /\ N[x] = y /\ x \in F \cup {NULL}
  BY <1>2 DEF Absorbs
<1>4. \A b \in (F \cup {NULL}) \ {y, x} : M[b] = N[b]
  BY <1>1, <1>2 DEF Absorbs
<1>5. Chain(F, N)
  BY DEF N
<1>6. Chain(F \ {y}, M)
  BY <1>1, <1>3, <1>4, <1>5, ChainRemove
<1>7. x # y
  BY <1>1, AddrFacts, SizesAre DEF Adjacent
<1>8. Joins(m, w, F, H, x, y)
  BY <1>1, <1>7 DEF Joins, Absorbs, Adjacent
<1>9. Laid(F \ {y}, H, w) /\ Covered(F \ {y}, w) = Covered(F, m)
  BY <1>8, LaidJoin
<1> QED BY <1>6, <1>9 DEF M

LEMMA UnmarkedWrites ==
  ASSUME TypeOK, NEW a \in Addr
  PROVE  /\ Unmarked(a) \in Memory
         /\ Unmarked(a)[a].prev = NULL /\ Unmarked(a)[a].next = NULL
         /\ Unmarked(a)[a].sanityCheck = NULL
         /\ \A b \in Addr : Unmarked(a)[b].size = node[b].size
         /\ \A b \in Addr \ {a} : Unmarked(a)[b] = node[b]
<1>1. NULL \in AddrOrNull
  BY DEF AddrOrNull
<1> QED BY <1>1 DEF TypeOK, Memory, Header, Unmarked

Inserts(a, w, h) ==
  /\ w = Inserted(a, Unmarked(a))
  /\ h = IF freeList = NULL \/ a < freeList THEN a ELSE freeList

\* The block a is in its place.
InPlace(F, a, w, h) ==
  /\ w \in Memory /\ h \in AddrOrNull
  /\ Chain(F \cup {a}, Links(w, h))
  /\ \A b \in Addr : w[b].size = node[b].size
  /\ w[a].sanityCheck = NULL
  /\ \A b \in Addr \ {a} : w[b].sanityCheck = node[b].sanityCheck
  /\ \/ w[a].prev = NULL /\ \A b \in F : a < b
     \/ w[a].prev \in F /\ w[w[a].prev].next = a

LEMMA InsertedWrites ==
  ASSUME TypeOK, NEW F, F \subseteq Addr, Chain(F, Links(node, freeList)),
         NEW a \in Addr, a \notin F, NEW w, NEW h, Inserts(a, w, h)
  PROVE  InPlace(F, a, w, h)
<1> USE DEF Inserts, InPlace
<1> DEFINE m == Unmarked(a)
           N == Links(node, freeList)
           M == Links(w, h)
<1>1. /\ F \subseteq Nat /\ a \in Nat /\ NULL = 0 /\ NULL \notin Addr
      /\ a \in AddrOrNull /\ NULL \in AddrOrNull /\ freeList \in AddrOrNull
      /\ node \in Memory
  BY AddrFacts DEF AddrOrNull, TypeOK
<1>2. /\ m \in Memory /\ m[a].prev = NULL /\ m[a].next = NULL
      /\ m[a].sanityCheck = NULL
      /\ \A b \in Addr : m[b].size = node[b].size
      /\ \A b \in Addr \ {a} : m[b] = node[b]
  BY UnmarkedWrites
<1> HIDE DEF m
<1>3. \A b \in F \cup {NULL} :
        /\ b \in Nat /\ N[b] \in Nat
        /\ N[b] = NULL \/ (N[b] \in F /\ b < N[b])
        /\ \A c \in F : c \in Nat /\ (b < c => N[b] \in F /\ N[b] <= c)
  BY ChainFacts, Zenon
<1>4. /\ N[NULL] = freeList /\ M[NULL] = h
      /\ \A b \in F : N[b] = node[b].next
      /\ \A b \in F \cup {a} : M[b] = w[b].next
  BY <1>1 DEF Links, AddrOrNull
<1> HIDE DEF N, M
<1>5. h \in AddrOrNull
  BY <1>1
<1>6. CASE freeList = NULL
  <2>1. w = m /\ h = a /\ F = {}
    BY <1>6, ListedIsChain DEF Inserted, m
  <2>2. M[NULL] = a /\ M[a] = N[NULL] /\ N[NULL] = NULL
    BY <1>2, <1>4, <1>6, <2>1
  <2>3. NULL < a /\ NULL \in F \cup {NULL} /\ Chain(F, N)
          /\ \A b \in F \cup {NULL} : b # NULL => M[b] = N[b]
    BY <1>1, <2>1, AddrFacts DEF N
  <2>4. Chain(F \cup {a}, M)
    BY <2>2, <2>3, ChainInsert
  <2> QED BY <1>2, <1>5, <2>1, <2>4 DEF M
<1>7. CASE freeList # NULL /\ a < freeList
  <2> DEFINE w1 == Put(m, freeList, "prev", a)
  <2>1. freeList \in F /\ freeList # a /\ freeList \in Nat
    BY <1>1, <1>3, <1>4, <1>7
  <2>2. w1 \in Memory /\ \A b \in Addr :
          /\ w1[b].size = m[b].size
          /\ w1[b].prev = IF b = freeList THEN a ELSE m[b].prev
          /\ w1[b].next = m[b].next
          /\ w1[b].sanityCheck = m[b].sanityCheck
    BY <1>1, <1>2, PutPrev
  <2>3. w = Put(w1, a, "next", freeList) /\ h = a
    BY <1>7 DEF Inserted, m
  <2> HIDE DEF w1
  <2>4. w \in Memory /\ \A b \in Addr :
          /\ w[b].size = w1[b].size
          /\ w[b].prev = w1[b].prev
          /\ w[b].next = IF b = a THEN freeList ELSE w1[b].next
          /\ w[b].sanityCheck = w1[b].sanityCheck
    <3>1. PICK v : v = freeList
      OBVIOUS
    <3>2. v \in AddrOrNull /\ w = Put(w1, a, "next", v)
      BY <1>1, <2>3, <3>1
    <3>3. \A b \in Addr :
            /\ w[b].size = w1[b].size
            /\ w[b].prev = w1[b].prev
            /\ w[b].next = IF b = a THEN v ELSE w1[b].next
            /\ w[b].sanityCheck = w1[b].sanityCheck
      BY <2>2, <3>2, PutNext
    <3>4. w \in Memory
      BY <2>2, <3>2, PutNext
    <3> QED BY <3>1, <3>3, <3>4
  <2>5. M[NULL] = a /\ M[a] = N[NULL] /\ a < N[NULL]
    BY <1>4, <1>7, <2>3, <2>4
  <2>6. NULL < a /\ NULL \in F \cup {NULL} /\ Chain(F, N)
    BY <1>1, AddrFacts DEF N
  <2>7. \A b \in F \cup {NULL} : b # NULL => M[b] = N[b]
    BY <1>2, <1>4, <2>2, <2>4
  <2>8. Chain(F \cup {a}, M)
    BY <2>5, <2>6, <2>7, ChainInsert
  <2>9. ASSUME NEW b \in F PROVE a < b
    <3>1. b \in Nat /\ NULL < b
      BY <1>1, AddrFacts
    <3>2. freeList <= b
      BY <1>3, <1>4, <3>1
    <3> QED BY <1>1, <1>7, <2>1, <3>1, <3>2
  <2> QED BY <1>2, <1>5, <2>1, <2>2, <2>4, <2>8, <2>9 DEF M
<1>8. CASE freeList # NULL /\ ~ (a < freeList)
  <2>1. PICK f : f = PlaceOf(a)
    OBVIOUS
  <2>2. f \in F /\ f < a /\ (node[f].next = NULL \/ a < node[f].next)
    BY <1>8, <2>1, PlaceIs
  <2> DEFINE g == node[f].next
             w1 == Put(m, a, "next", g)
             w2 == Put(w1, g, "prev", a)
             w3 == Put(w2, f, "next", a)
  <2>3. w = Put(w3, a, "prev", f) /\ h = freeList
    BY <1>8, <2>1 DEF Inserted, Linked, PlaceOf, m
  <2>4. g \in AddrOrNull /\ f \in AddrOrNull /\ f # a /\ f \in Addr
    BY <1>1, <2>2, HeaderTypes
  <2>5. w1 \in Memory /\ \A b \in Addr :
          /\ w1[b].size = m[b].size
          /\ w1[b].next = IF b = a THEN g ELSE m[b].next
          /\ w1[b].sanityCheck = m[b].sanityCheck
    BY <1>2, <2>4, PutNext
  <2> HIDE DEF w1
  <2>6. w2 \in Memory /\ \A b \in Addr :
          /\ w2[b].size = w1[b].size
          /\ w2[b].next = w1[b].next
          /\ w2[b].sanityCheck = w1[b].sanityCheck
    BY <1>1, <2>5, PutPrev
  <2> HIDE DEF w2
  <2>7. w3 \in Memory /\ \A b \in Addr :
          /\ w3[b].size = w2[b].size
          /\ w3[b].next = IF b = f THEN a ELSE w2[b].next
          /\ w3[b].sanityCheck = w2[b].sanityCheck
    BY <1>1, <2>6, PutNext
  <2> HIDE DEF w3
  <2>8. w \in Memory /\ \A b \in Addr :
          /\ w[b].size = w3[b].size
          /\ w[b].prev = IF b = a THEN f ELSE w3[b].prev
          /\ w[b].next = w3[b].next
          /\ w[b].sanityCheck = w3[b].sanityCheck
    BY <2>3, <2>4, <2>7, PutPrev
  <2>9. M[f] = a /\ M[a] = N[f] /\ (N[f] = NULL \/ a < N[f])
    BY <1>4, <2>2, <2>4, <2>5, <2>6, <2>7, <2>8
  <2>10. f \in F \cup {NULL} /\ Chain(F, N)
    BY <2>2 DEF N
  <2>11. \A b \in F \cup {NULL} : b # f => M[b] = N[b]
    BY <1>2, <1>4, <2>3, <2>5, <2>6, <2>7, <2>8
  <2>12. Chain(F \cup {a}, M)
    BY <2>2, <2>9, <2>10, <2>11, ChainInsert
  <2>13. w[a].prev = f /\ w[f].next = a
    BY <2>4, <2>7, <2>8
  <2>14. \A b \in Addr : w[b].size = m[b].size /\ w[b].sanityCheck = m[b].sanityCheck
    BY <2>5, <2>6, <2>7, <2>8
  <2> QED BY <1>2, <1>5, <2>2, <2>8, <2>12, <2>13, <2>14 DEF M
<1> QED BY <1>6, <1>7, <1>8

\* A block between two free ones that do not touch: they do not touch still.
LEMMA FreedFits ==
  ASSUME NEW m \in Memory, NEW w \in Memory, NEW F, NEW H, NEW a \in H,
         Laid(F, H, m), \A b \in Addr : w[b].size = m[b].size
  PROVE  /\ Laid(F \cup {a}, H \ {a}, w)
         /\ \A u : u \in Covered(F \cup {a}, w)
                     <=> u \in Covered(F, m) \/ u \in a .. a + m[a].size
<1>1. /\ F \subseteq Addr /\ H \subseteq Addr /\ F \cap H = {}
      /\ InMemory(F \cup H, m) /\ Apart(F \cup H, m)
  BY DEF Laid
<1>2. (F \cup {a}) \cup (H \ {a}) = F \cup H
  OBVIOUS
<1>3. InMemory(F \cup H, w) /\ Apart(F \cup H, w)
  BY <1>1 DEF InMemory, Apart
<1>4. Laid(F \cup {a}, H \ {a}, w)
  BY <1>1, <1>2, <1>3 DEF Laid
<1>5. ASSUME NEW u
      PROVE  u \in Covered(F \cup {a}, w)
               <=> u \in Covered(F, m) \/ u \in a .. a + m[a].size
  <2>1. u \in Covered(F \cup {a}, w)
          <=> \E b \in F \cup {a} : u \in b .. b + w[b].size
    BY CoveredIs
  <2>2. u \in Covered(F, m) <=> \E b \in F : u \in b .. b + m[b].size
    BY CoveredIs
  <2>3. \A b \in F \cup {a} : w[b].size = m[b].size
    BY <1>1
  <2> QED BY <2>1, <2>2, <2>3
<1> QED BY <1>4, <1>5

\* Sorted and apart, with the units U free, and all others where they were.
Sorted(G, H, w, h, U) ==
  Chain(G, Links(w, h)) /\ Laid(G, H, w) /\ Covered(G, w) = U

SameHeld(m, w, H) ==
  /\ \A b \in Addr : w[b].sanityCheck = m[b].sanityCheck
  /\ \A b \in H : w[b].size = m[b].size

\* After the join with the predecessor, only the block h that holds what was
\* freed may touch the one above it.
LEMMA PrevJoined ==
  ASSUME NEW m \in Memory, NEW h \in AddrOrNull, NEW F, NEW H, NEW a \in Addr,
         a \notin F,
         Chain(F \cup {a}, Links(m, h)), Laid(F \cup {a}, H, m),
         \A b, c \in F : b < c => b + m[b].size + 1 < c,
         \/ m[a].prev = NULL /\ \A b \in F : a < b
         \/ m[a].prev \in F /\ m[m[a].prev].next = a,
         NEW w, w = IF CanJoinPrev(m, a) THEN JoinsPrev(m, a) ELSE m,
         NEW x, x = IF CanJoinPrev(m, a) THEN m[a].prev ELSE a
  PROVE  /\ w \in Memory /\ SameHeld(m, w, H)
         /\ \E G \in SUBSET Addr :
              /\ x \in G /\ GapsBut(x, G, w)
              /\ Sorted(G, H, w, h, Covered(F \cup {a}, m))
<1> DEFINE p == m[a].prev
<1>1. /\ F \subseteq Addr /\ NULL \notin Addr /\ NULL = 0 /\ a \in Nat
      /\ \A b \in F : b \in Nat /\ m[b].size \in Nat
  BY SizesAre, AddrFacts DEF Laid
<1>2. CASE CanJoinPrev(m, a)
  <2>1. /\ p \in F /\ p \in Addr /\ p # a /\ m[p].next = a /\ Adjacent(m, p, a)
    BY <1>1, <1>2 DEF CanJoinPrev
  <2>2. w = JoinsPrev(m, a) /\ x = p
    BY <1>2
  <2>3. w \in Memory /\ Absorbs(m, w, x, a)
    BY <2>1, <2>2, JoinsPrevWrites
  <2>4. x \in F \cup {a} /\ a \in F \cup {a} /\ m[x].next = a /\ Adjacent(m, x, a)
    BY <2>1, <2>2
  <2> DEFINE E == F \cup {a}
  <2>5. (F \cup {a}) \ {a} = F
    OBVIOUS
  <2>6. /\ Chain((F \cup {a}) \ {a}, Links(w, h)) /\ Laid((F \cup {a}) \ {a}, H, w)
        /\ Covered((F \cup {a}) \ {a}, w) = Covered(F \cup {a}, m)
    <3>1. x \in E /\ a \in E /\ Chain(E, Links(m, h)) /\ Laid(E, H, m)
      BY <2>4
    <3> HIDE DEF E
    <3>2. /\ Chain(E \ {a}, Links(w, h)) /\ Laid(E \ {a}, H, w)
          /\ Covered(E \ {a}, w) = Covered(E, m)
      BY <2>3, <2>4, <3>1, AbsorbKeeps
    <3> QED BY <3>2 DEF E
  <2>7. GapsBut(x, F, w)
    <3>1. \A b \in F \ {x} : w[b].size = m[b].size
      BY <1>1, <2>3 DEF Absorbs
    <3> QED BY <3>1 DEF GapsBut
  <2>8. SameHeld(m, w, H)
    <3>1. x \notin H /\ H \subseteq Addr
      BY <2>4 DEF Laid
    <3> QED BY <2>3, <3>1 DEF Absorbs, SameHeld
  <2>9. x \in F /\ F \in SUBSET Addr
    BY <1>1, <2>1, <2>2
  <2> QED BY <2>3, <2>5, <2>6, <2>7, <2>8, <2>9 DEF Sorted
<1>3. CASE ~ CanJoinPrev(m, a)
  <2>1. GapsBut(a, F \cup {a}, m)
    <3>1. ASSUME NEW b \in F \cup {a}, NEW c \in F \cup {a}, b < c, b # a
          PROVE  b + m[b].size + 1 < c
      <4>1. b \in F /\ b \in Nat /\ m[b].size \in Nat
        BY <1>1, <3>1
      <4>2. CASE c # a
        BY <3>1, <4>1, <4>2
      <4>3. CASE c = a
        <5>1. p \in F /\ m[p].next = a /\ p \in Nat /\ m[p].size \in Nat
          <6>1. ~ (a < b)
            BY <1>1, <3>1, <4>1, <4>3
          <6>2. p \in F /\ m[p].next = a
            BY <4>1, <6>1
          <6> QED BY <1>1, <6>2
        <5>2. p + 1 + m[p].size # a
          BY <1>1, <1>3, <5>1 DEF CanJoinPrev, Adjacent
        <5>3. Follows(F \cup {a}, p, a)
          <6>1. Follows(F \cup {a}, p, Links(m, h)[p])
            BY <5>1 DEF Chain
          <6> QED BY <1>1, <5>1, <6>1 DEF Links, AddrOrNull
        <5>4. p < a /\ ~ (p < b)
          BY <1>1, <3>1, <4>1, <4>3, <5>3 DEF Follows
        <5>5. p + m[p].size + 1 < a
          <6>1. p + m[p].size < a
            BY <5>1, <5>4 DEF Laid, Apart
          <6> QED BY <1>1, <5>1, <5>2, <6>1
        <5>6. CASE b = p
          BY <4>3, <5>5, <5>6
        <5>7. CASE b # p
          <6>1. b < p
            BY <4>1, <5>1, <5>4, <5>7
          <6>2. b + m[b].size + 1 < p
            BY <4>1, <5>1, <6>1
          <6> QED BY <1>1, <4>1, <4>3, <5>1, <5>4, <6>2
        <5> QED BY <5>6, <5>7
      <4> QED BY <4>2, <4>3
    <3> QED BY <3>1 DEF GapsBut
  <2>2. F \cup {a} \in SUBSET Addr /\ a \in F \cup {a}
    BY <1>1
  <2>3. w = m /\ x = a
    BY <1>3
  <2>4. SameHeld(m, w, H)
    BY <2>3 DEF SameHeld
  <2>5. Sorted(F \cup {a}, H, w, h, Covered(F \cup {a}, m))
    BY <2>3 DEF Sorted
  <2> QED BY <2>1, <2>2, <2>3, <2>4, <2>5
<1> QED BY <1>2, <1>3

\* After the join with the successor no two blocks touch.
LEMMA NextJoined ==
  ASSUME NEW m \in Memory, NEW h \in AddrOrNull, NEW F, NEW H, NEW x \in F,
         NEW U, Sorted(F, H, m, h, U), GapsBut(x, F, m),
         NEW w, w = IF CanJoinNext(m, x) THEN JoinsNext(m, x) ELSE m
  PROVE  /\ w \in Memory /\ SameHeld(m, w, H)
         /\ \E G \in SUBSET Addr :
              /\ \A b, c \in G : b < c => b + w[b].size + 1 < c
              /\ Sorted(G, H, w, h, U)
<1> USE DEF Sorted
<1> DEFINE g == m[x].next
<1>1. /\ F \subseteq Addr /\ NULL \notin Addr /\ NULL = 0 /\ x \in Nat
      /\ \A b \in F : b \in Nat /\ m[b].size \in Nat
  BY SizesAre, AddrFacts DEF Laid
<1>2. Follows(F, x, g)
  <2>1. Follows(F, x, Links(m, h)[x])
    BY DEF Chain
  <2> QED BY <1>1, <2>1 DEF Links, AddrOrNull
<1>3. /\ g = NULL \/ (g \in F /\ x < g)
      /\ \A c \in F : x < c => g \in F /\ g <= c
  BY <1>1, <1>2, FollowsFacts
<1>4. CASE CanJoinNext(m, x)
  <2>1. g \in F /\ g \in Addr /\ x < g /\ Adjacent(m, x, g) /\ g \in Nat
    BY <1>1, <1>3, <1>4 DEF CanJoinNext
  <2>2. PICK y : w = JoinsNext(m, x) /\ y = g
    BY <1>4
  <2>3. w \in Memory /\ Absorbs(m, w, x, y)
    BY <1>1, <2>1, <2>2, JoinsNextWrites
  <2>4. y \in F /\ m[x].next = y /\ Adjacent(m, x, y)
    BY <2>1, <2>2
  <2>5. /\ Chain(F \ {y}, Links(w, h)) /\ Laid(F \ {y}, H, w)
        /\ Covered(F \ {y}, w) = Covered(F, m)
    BY <2>3, <2>4, AbsorbKeeps
  <2>6. ASSUME NEW b \in F \ {y}, NEW c \in F \ {y}, b < c
        PROVE  b + w[b].size + 1 < c
    <3>1. CASE b # x
      <4>1. w[b].size = m[b].size
        BY <1>1, <2>3, <3>1 DEF Absorbs
      <4> QED BY <2>6, <3>1, <4>1 DEF GapsBut
    <3>2. CASE b = x
      <4>1. w[x].size = m[x].size + m[y].size + 1 /\ x + 1 + m[x].size = y
              /\ m[x].size \in Nat /\ m[y].size \in Nat /\ c \in Nat /\ y \in Nat
        BY <1>1, <2>3, <2>4 DEF Absorbs, Adjacent
      <4>2. y < c /\ y # x
        BY <1>3, <2>1, <2>2, <2>6, <3>2, <4>1
      <4>3. y + m[y].size + 1 < c
        BY <2>4, <4>2 DEF GapsBut
      <4> QED BY <1>1, <3>2, <4>1, <4>3
    <3> QED BY <3>1, <3>2
  <2>7. SameHeld(m, w, H)
    <3>1. x \notin H /\ H \subseteq Addr
      BY DEF Laid
    <3> QED BY <2>3, <3>1 DEF Absorbs, SameHeld
  <2>8. F \ {y} \in SUBSET Addr
    BY <1>1
  <2> QED BY <2>3, <2>5, <2>6, <2>7, <2>8
<1>5. CASE ~ CanJoinNext(m, x)
  <2>1. ASSUME NEW b \in F, NEW c \in F, b < c PROVE b + m[b].size + 1 < c
    <3>1. CASE b # x
      BY <2>1, <3>1 DEF GapsBut
    <3>2. CASE b = x
      <4>1. g \in F /\ g <= c /\ x < g /\ g # NULL
              /\ c \in Nat /\ g \in Nat /\ m[x].size \in Nat
        BY <1>1, <1>3, <2>1, <3>2
      <4>2. x + 1 + m[x].size # g
        BY <1>5, <4>1 DEF CanJoinNext, Adjacent
      <4>3. x + m[x].size < g
        BY <4>1 DEF Laid, Apart
      <4> QED BY <1>1, <3>2, <4>1, <4>2, <4>3
    <3> QED BY <3>1, <3>2
  <2>2. w = m /\ SameHeld(m, w, H)
    BY <1>5 DEF SameHeld
  <2> QED BY <1>1, <2>1, <2>2
<1> QED BY <1>4, <1>5

LEMMA KfreeKeeps ==
  ASSUME TypeOK, NEW F, F \subseteq Addr, Kept(F), NEW a \in Addr, kfree(a)
  PROVE  /\ TypeOK'
         /\ held[a] > 0 /\ held' = [held EXCEPT ![a] = 0]
         /\ HeldBlocks' = HeldBlocks \ {a} /\ a \in HeldBlocks
         /\ \E G \in SUBSET Addr :
              /\ Kept(G)'
              /\ \A u : u \in Covered(G, node')
                          <=> u \in Covered(F, node) \/ u \in a .. a + held[a]
<1> DEFINE H == HeldBlocks
<1>1. /\ node[a].sanityCheck = a /\ node' = Joined(Inserted(a, Unmarked(a)), a)
      /\ freeList' = IF freeList = NULL \/ a < freeList THEN a ELSE freeList
      /\ held' = [held EXCEPT ![a] = 0]
  BY DEF kfree
<1>2. /\ Chain(F, Links(node, freeList)) /\ Laid(F, H, node)
      /\ \A b, c \in F : b < c => b + node[b].size + 1 < c
      /\ \A b \in H : node[b].size = held[b]
      /\ \A b \in Addr : node[b].sanityCheck = b <=> held[b] > 0
  BY DEF Kept
<1>3. a \in H /\ held[a] > 0 /\ node[a].size = held[a]
  BY <1>1, <1>2 DEF HeldBlocks
<1>4. a \notin F /\ H \subseteq Addr
  BY <1>2, <1>3 DEF Laid
<1>5. node \in Memory /\ held \in [Addr -> Nat]
  BY DEF TypeOK
<1>6. held'[a] = 0 /\ held' \in [Addr -> Nat]
        /\ \A b \in Addr \ {a} : held'[b] = held[b]
  BY <1>1, <1>5
<1>7. HeldBlocks' = H \ {a}
  BY <1>6 DEF HeldBlocks
<1>8. PICK w : w = Inserted(a, Unmarked(a))
  OBVIOUS
<1>9. PICK h : h = freeList'
  OBVIOUS
<1>10. PICK m : m = node
  OBVIOUS
<1>11. PICK K : K = H
  OBVIOUS
<1>12. /\ w \in Memory /\ h \in AddrOrNull
       /\ Chain(F \cup {a}, Links(w, h))
       /\ \A b \in Addr : w[b].size = m[b].size
       /\ w[a].sanityCheck = NULL
       /\ \A b \in Addr \ {a} : w[b].sanityCheck = m[b].sanityCheck
       /\ \/ w[a].prev = NULL /\ \A b \in F : a < b
          \/ w[a].prev \in F /\ w[w[a].prev].next = a
  <2>1. Inserts(a, w, h)
    BY <1>1, <1>8, <1>9 DEF Inserts
  <2>2. InPlace(F, a, w, h)
    BY <1>2, <1>4, <2>1, InsertedWrites
  <2> QED BY <1>10, <2>2 DEF InPlace
<1>13. a \in K /\ Laid(F, K, m) /\ m \in Memory
  BY <1>2, <1>3, <1>5, <1>10, <1>11
<1>14. /\ Laid(F \cup {a}, K \ {a}, w)
       /\ \A u : u \in Covered(F \cup {a}, w)
                   <=> u \in Covered(F, m) \/ u \in a .. a + m[a].size
  BY <1>12, <1>13, FreedFits
<1>15. \A b, c \in F : b < c => b + w[b].size + 1 < c
  BY <1>2, <1>10, <1>12
<1>16. PICK w2 : w2 = IF CanJoinPrev(w, a) THEN JoinsPrev(w, a) ELSE w
  OBVIOUS
<1>17. PICK x2 : x2 = IF CanJoinPrev(w, a) THEN w[a].prev ELSE a
  OBVIOUS
<1>18. PICK w3 : w3 = IF CanJoinNext(w2, x2) THEN JoinsNext(w2, x2) ELSE w2
  OBVIOUS
<1>19. node' = w3
  BY <1>1, <1>8, <1>16, <1>17, <1>18 DEF Joined
<1> DEFINE U == Covered(F \cup {a}, w)
<1>20. /\ w2 \in Memory /\ SameHeld(w, w2, K \ {a})
       /\ \E G2 \in SUBSET Addr :
            /\ x2 \in G2 /\ GapsBut(x2, G2, w2)
            /\ Sorted(G2, K \ {a}, w2, h, U)
  BY <1>4, <1>12, <1>14, <1>15, <1>16, <1>17, PrevJoined
<1> HIDE DEF U
<1>21. /\ w3 \in Memory /\ SameHeld(w2, w3, K \ {a})
       /\ \E G \in SUBSET Addr :
            /\ \A b, c \in G : b < c => b + w3[b].size + 1 < c
            /\ Sorted(G, K \ {a}, w3, h, U)
  <2>1. PICK G2 \in SUBSET Addr :
          /\ x2 \in G2 /\ GapsBut(x2, G2, w2)
          /\ Sorted(G2, K \ {a}, w2, h, U)
    BY <1>20
  <2> QED BY <1>12, <1>18, <1>20, <2>1, NextJoined
<1>22. PICK G \in SUBSET Addr :
         /\ \A b, c \in G : b < c => b + w3[b].size + 1 < c
         /\ Sorted(G, K \ {a}, w3, h, U)
  BY <1>21
<1>23. TypeOK'
  BY <1>6, <1>9, <1>12, <1>19, <1>21 DEF TypeOK
<1>24. \A b \in Addr : node'[b].sanityCheck = b <=> held'[b] > 0
  <2>1. node'[a].sanityCheck # a
    BY <1>12, <1>19, <1>20, <1>21, AddrFacts DEF SameHeld
  <2>2. \A b \in Addr \ {a} : node'[b].sanityCheck = node[b].sanityCheck
    BY <1>10, <1>12, <1>19, <1>20, <1>21 DEF SameHeld
  <2> QED BY <1>2, <1>6, <2>1, <2>2
<1>25. \A b \in H \ {a} : node'[b].size = held'[b]
  BY <1>2, <1>4, <1>6, <1>10, <1>11, <1>12, <1>19, <1>20, <1>21 DEF SameHeld
<1>26. Kept(G)'
  BY <1>7, <1>9, <1>11, <1>19, <1>24, <1>25, <1>22 DEF Kept, Sorted
<1>27. Covered(G, node') = U
  BY <1>19, <1>22 DEF Sorted
<1> QED BY <1>1, <1>3, <1>7, <1>10, <1>14, <1>23, <1>26, <1>27 DEF U

-----------------------------------------------------------------------------
(* The invariant holds. *)

LEMMA InitKept == Init => ListInv
<1> SUFFICES ASSUME Init PROVE ListInv
  OBVIOUS
<1> DEFINE F == {1, HoleEnd}
           N == Links(node, freeList)
<1>1. /\ HoleStart \in Nat /\ HoleEnd \in Nat /\ MemEnd \in Nat
      /\ HoleStart > 2 /\ HoleEnd > HoleStart /\ MemEnd > HoleEnd + 1
      /\ \A a \in Addr : a \in Nat /\ a # NULL
      /\ NULL \notin Addr /\ NULL = 0
  BY AddrFacts
<1>2. 1 \in Addr /\ HoleEnd \in Addr /\ 1 < HoleEnd
        /\ 1 .. HoleStart - 1 \subseteq Addr /\ HoleEnd .. MemEnd - 1 \subseteq Addr
        /\ NULL \in AddrOrNull /\ 1 \in AddrOrNull /\ HoleEnd \in AddrOrNull
  BY <1>1 DEF Addr, AddrOrNull
<1>3. /\ freeList = 1 /\ held = [a \in Addr |-> 0]
      /\ node \in Memory
      /\ \A a \in Addr : node[a].sanityCheck = NULL
      /\ node[1].size = HoleStart - 2 /\ node[1].next = HoleEnd
      /\ node[HoleEnd].size = MemEnd - HoleEnd - 1 /\ node[HoleEnd].next = NULL
  BY <1>1, <1>2 DEF Init, Memory, Header
<1>4. TypeOK
  BY <1>2, <1>3 DEF TypeOK
<1>5. HeldBlocks = {}
  BY <1>3 DEF HeldBlocks
<1>6. N[NULL] = 1 /\ N[1] = HoleEnd /\ N[HoleEnd] = NULL
  BY <1>1, <1>2, <1>3 DEF Links
<1>7. Chain(F, N)
  <2>1. Follows(F, NULL, 1) /\ Follows(F, 1, HoleEnd) /\ Follows(F, HoleEnd, NULL)
    BY <1>1, <1>2 DEF Follows
  <2> HIDE DEF N
  <2> QED BY <1>6, <2>1 DEF Chain
<1>8. \A a, b \in F : a < b => a + node[a].size + 1 < b
  BY <1>1, <1>2, <1>3
<1>9. Laid(F, HeldBlocks, node)
  <2>1. InMemory(F, node)
    BY <1>1, <1>2, <1>3 DEF InMemory
  <2>2. Apart(F, node)
    BY <1>1, <1>2, <1>3 DEF Apart
  <2> QED BY <1>2, <1>5, <2>1, <2>2 DEF Laid
<1>10. \A a \in Addr : node[a].sanityCheck = a <=> held[a] > 0
  BY <1>1, <1>3
<1>11. Kept(F)
  BY <1>5, <1>7, <1>8, <1>9, <1>10 DEF Kept
<1>12. F \in SUBSET Addr
  BY <1>2
<1> HIDE DEF F
<1> QED BY <1>4, <1>11, <1>12 DEF ListInv

\* A step of programs that takes only blocks with a true predecessor.
SoundStep == [Next /\ TakesWithPrevTrue]_vars

\* Such a step takes a block, gives one back, or changes nothing.
LEMMA StepCases ==
  ASSUME TypeOK, SoundStep, NEW F, F \subseteq Addr, Kept(F)
  PROVE  \/ \E size \in Requests, x \in Addr : kmalloc(x, size) /\ PrevTrue(x)
         \/ \E a \in Addr : kfree(a)
         \/ UNCHANGED vars
<1>1. ASSUME NEW size \in Requests, NEW x \in Addr, kmalloc(x, size),
             TakesWithPrevTrue
      PROVE  PrevTrue(x)
  <2>1. size \in Int /\ size > 0
    BY <1>1, RequestsAssumption DEF kmalloc
  <2>2. Amount(size) \in Nat /\ Amount(size) > 0
    BY <2>1, AmountPositive
  <2>3. held \in [Addr -> Nat] /\ held' = [held EXCEPT ![x] = Amount(size)]
    BY <1>1 DEF TypeOK, kmalloc
  <2>4. held'[x] > 0
    BY <2>2, <2>3
  <2>5. FirstFit(x, Amount(size)) /\ Chain(F, Links(node, freeList))
    BY <1>1 DEF kmalloc, Kept
  <2>6. x \in F
    BY <2>5, FirstFitIs
  <2>7. x \notin HeldBlocks
    BY <2>6 DEF Kept, Laid
  <2>8. held[x] = 0
    BY <2>3, <2>7 DEF HeldBlocks
  <2> QED BY <1>1, <2>4, <2>8 DEF TakesWithPrevTrue
<1> QED BY <1>1 DEF SoundStep, Next, kmallocFails, kfreeIgnores

LEMMA StepKeeps == ListInv /\ SoundStep => ListInv'
<1> SUFFICES ASSUME ListInv, SoundStep PROVE ListInv'
  OBVIOUS
<1>1. TypeOK
  BY DEF ListInv
<1>2. PICK F \in SUBSET Addr : Kept(F)
  BY DEF ListInv
<1>3. ASSUME NEW size \in Requests, NEW x \in Addr, kmalloc(x, size), PrevTrue(x)
      PROVE  ListInv'
  <2>1. size \in Int
    BY RequestsAssumption
  <2>2. TypeOK' /\ \E G \in SUBSET Addr : Kept(G)'
    BY <1>1, <1>2, <1>3, <2>1, KmallocKeeps
  <2> QED BY <2>2 DEF ListInv
<1>4. ASSUME NEW a \in Addr, kfree(a) PROVE ListInv'
  <2>1. TypeOK' /\ \E G \in SUBSET Addr : Kept(G)'
    BY <1>1, <1>2, <1>4, KfreeKeeps
  <2> QED BY <2>1 DEF ListInv
<1>5. ASSUME UNCHANGED vars PROVE ListInv'
  <2>1. TypeOK'
    BY <1>1, <1>5 DEF TypeOK, vars
  <2>2. Kept(F)'
    BY <1>2, <1>5 DEF Kept, HeldBlocks, vars
  <2> QED BY <2>1, <2>2 DEF ListInv
<1> QED BY <1>1, <1>2, <1>3, <1>4, <1>5, StepCases

\* The free list is what F says, at every moment.
THEOREM ListKept == SpecWhilePrevTrue => []ListInv
<1>1. ListInv /\ [Next /\ TakesWithPrevTrue]_vars => ListInv'
  BY StepKeeps DEF SoundStep
<1> QED BY <1>1, InitKept, PTL DEF SpecWhilePrevTrue

\* src/c/mem.c: the free list ends, is in the order of addresses with neighbours
\* joined, and is apart from the hole and from what programs hold.
THEOREM ListStaysSound == SpecWhilePrevTrue => []ListSound
<1>1. ListInv => ListSound
  <2> SUFFICES ASSUME ListInv PROVE ListSound
    OBVIOUS
  <2>1. TypeOK
    BY DEF ListInv
  <2>2. PICK F \in SUBSET Addr : Kept(F)
    BY DEF ListInv
  <2>3. Ends /\ FreeUnits \subseteq Addr /\ FreeUnits \cap HeldUnits = {}
    BY <2>1, <2>2, UnitsAre
  <2>4. Chain(F, Links(node, freeList))
          /\ \A a, b \in F : a < b => a + node[a].size + 1 < b
    BY <2>2 DEF Kept
  <2>5. ASSUME NEW k \in 1 .. Len(List) - 1
        PROVE  List[k] + node[List[k]].size + 1 < List[k + 1]
    <3>1. Len(<<>>) = 0
      OBVIOUS
    <3>2. CASE List = <<>>
      BY <3>1, <3>2
    <3>3. CASE freeList \in F /\ Walked(List, freeList, F)
      <4>1. /\ List \in Seq(F) /\ Len(List) \in Nat
            /\ \A i, j \in 1 .. Len(List) : i < j => List[i] < List[j]
        BY <3>3 DEF Walked
      <4>2. k \in 1 .. Len(List) /\ k + 1 \in 1 .. Len(List) /\ k < k + 1
        BY <4>1
      <4>3. List[k] \in F /\ List[k + 1] \in F
        BY <4>1, <4>2
      <4> QED BY <2>4, <4>1, <4>2, <4>3
    <3> QED BY <2>1, <2>2, <2>4, <3>2, <3>3, ListIsChain
  <2> QED BY <2>3, <2>5 DEF ListSound
<1> QED BY <1>1, ListKept, PTL

\* src/c/mem.c: the check of kfree() accepts exactly the blocks that are held.
THEOREM MarksStayExact == SpecWhilePrevTrue => []MarksExact
<1>1. ListInv => MarksExact
  BY DEF ListInv, Kept, MarksExact
<1> QED BY <1>1, ListKept, PTL

\* src/c/mem.c: kmalloc() returns NULL only when no run of free memory is long
\* enough.  Blocks do not touch, so such a run would lie in one block.
THEOREM RefusalMeansFull == SpecWhilePrevTrue => []RefusesWhenFull
<1>1. ListInv => RefusesWhenFull
  <2> SUFFICES ASSUME ListInv, NEW size \in Requests, size > 0,
                      NoFit(Amount(size)), NEW a \in Addr,
                      a .. a + Amount(size) \subseteq Addr \ (HeldUnits \cup Lost)
               PROVE  FALSE
    BY DEF RefusesWhenFull
  <2>1. TypeOK
    BY DEF ListInv
  <2>2. PICK F \in SUBSET Addr : Kept(F)
    BY DEF ListInv
  <2>3. PICK n : n = Amount(size)
    OBVIOUS
  <2>4. n \in Nat /\ n > 0
    BY <2>3, RequestsAssumption, AmountPositive
  <2>5. Listed = F /\ FreeUnits = Covered(F, node)
    BY <2>1, <2>2, UnitsAre
  <2>6. \A b \in F : ~ (node[b].size >= n)
    BY <2>3, <2>5 DEF NoFit, Fits
  <2>7. \A u \in a .. a + n : u \in Covered(F, node)
    BY <2>3, <2>5 DEF Lost
  <2>8. \A b \in F : b \in Nat /\ node[b].size \in Nat
    BY <2>1, SizesAre DEF TypeOK
  <2>9. a \in Nat
    BY AddrFacts
  <2>10. PICK b \in F : a \in b .. b + node[b].size
    <3>1. a \in a .. a + n
      BY <2>4, <2>9
    <3> QED BY <2>7, <3>1, CoveredIs
  <2> DEFINE u == b + node[b].size + 1
  <2>11. u \in a .. a + n
    BY <2>4, <2>6, <2>8, <2>9, <2>10
  <2>12. PICK c \in F : u \in c .. c + node[c].size
    BY <2>7, <2>11, CoveredIs
  <2>13. \A d, e \in F : d < e => d + node[d].size + 1 < e
    BY <2>2 DEF Kept
  <2>14. CASE b < c
    BY <2>8, <2>12, <2>13, <2>14
  <2>15. CASE c < b
    <3>1. c + node[c].size + 1 < b
      BY <2>13, <2>15
    <3> QED BY <2>8, <2>12, <3>1
  <2>16. CASE b = c
    BY <2>8, <2>12, <2>16
  <2> QED BY <2>8, <2>14, <2>15, <2>16
<1> QED BY <1>1, ListKept, PTL

-----------------------------------------------------------------------------
(* The list implements the abstract memory pool. *)

LEMMA UnitsAreAlways ==
  /\ \A F \in SUBSET Addr : TypeOK /\ Kept(F) => FreeUnits = Covered(F, node)
  /\ (\A F \in SUBSET Addr : TypeOK /\ Kept(F) => FreeUnits = Covered(F, node))'
<1>1. \A F \in SUBSET Addr : TypeOK /\ Kept(F) => FreeUnits = Covered(F, node)
  BY UnitsAre
<1> QED BY <1>1, PTL

\* A block of n units at x is added to what is held.
LEMMA HeldGrows ==
  ASSUME held \in [Addr -> Nat], NEW x \in Addr, held[x] = 0,
         NEW n \in Nat, n > 0, held' = [held EXCEPT ![x] = n]
  PROVE  HeldUnits' = HeldUnits \cup (x .. x + n)
<1>1. held'[x] = n /\ \A b \in Addr \ {x} : held'[b] = held[b]
  OBVIOUS
<1>2. ASSUME NEW u PROVE u \in HeldUnits <=>
                           \E a \in Addr : held[a] > 0 /\ u \in a .. a + held[a]
  BY DEF HeldUnits
<1>3. ASSUME NEW u PROVE u \in HeldUnits' <=>
                           \E a \in Addr : held'[a] > 0 /\ u \in a .. a + held'[a]
  BY DEF HeldUnits
<1>4. ASSUME NEW u PROVE u \in HeldUnits' <=> u \in HeldUnits \/ u \in x .. x + n
  BY <1>1, <1>2, <1>3
<1> QED BY <1>4

\* The block at x is taken from what is held.
LEMMA HeldShrinks ==
  ASSUME held \in [Addr -> Nat], NEW x \in Addr, held[x] > 0,
         held' = [held EXCEPT ![x] = 0]
  PROVE  HeldUnits = HeldUnits' \cup (x .. x + held[x])
<1>1. held'[x] = 0 /\ \A b \in Addr \ {x} : held'[b] = held[b]
  OBVIOUS
<1>2. ASSUME NEW u PROVE u \in HeldUnits <=>
                           \E a \in Addr : held[a] > 0 /\ u \in a .. a + held[a]
  BY DEF HeldUnits
<1>3. ASSUME NEW u PROVE u \in HeldUnits' <=>
                           \E a \in Addr : held'[a] > 0 /\ u \in a .. a + held'[a]
  BY DEF HeldUnits
<1>4. ~ (0 > 0)
  OBVIOUS
<1>5. ASSUME NEW u
      PROVE  u \in HeldUnits <=> u \in HeldUnits' \/ u \in x .. x + held[x]
  BY <1>1, <1>2, <1>3, <1>4
<1> QED BY <1>5

LEMMA InitPool == Init => Pool!Init
<1> SUFFICES ASSUME Init PROVE Pool!Init
  OBVIOUS
<1>1. TypeOK /\ \E F \in SUBSET Addr : Kept(F)
  BY InitKept DEF ListInv
<1>2. held = [a \in Addr |-> 0]
  BY DEF Init
<1>3. Lost = {}
  <2>1. /\ HoleStart \in Nat /\ HoleEnd \in Nat /\ MemEnd \in Nat
        /\ HoleStart > 2 /\ HoleEnd > HoleStart /\ MemEnd > HoleEnd + 1
        /\ NULL \notin Addr
    BY AddrFacts
  <2>2. 1 \in Addr /\ HoleEnd \in Addr /\ HoleEnd # 1
    BY <2>1 DEF Addr
  <2>3. /\ freeList = 1 /\ node[1].next = HoleEnd
        /\ node[1].size = HoleStart - 2 /\ node[HoleEnd].size = MemEnd - HoleEnd - 1
    BY <2>1, <2>2 DEF Init
  <2>4. PICK F \in SUBSET Addr : Kept(F)
    BY <1>1
  <2>5. Chain(F, Links(node, freeList)) /\ FreeUnits = Covered(F, node)
    BY <1>1, <2>4, UnitsAre DEF Kept
  <2>6. 1 \in F
    <3>1. Follows(F, NULL, 1)
      BY <2>3, <2>5 DEF Chain, Links, AddrOrNull
    <3> QED BY <2>1, <2>2, <3>1 DEF Follows
  <2>7. HoleEnd \in F
    <3>1. Follows(F, 1, HoleEnd)
      BY <2>1, <2>2, <2>3, <2>5, <2>6 DEF Chain, Links, AddrOrNull
    <3> QED BY <2>1, <2>2, <3>1 DEF Follows
  <2>8. ASSUME NEW u \in Addr PROVE u \in FreeUnits
    <3>1. u \in 1 .. 1 + node[1].size \/ u \in HoleEnd .. HoleEnd + node[HoleEnd].size
      BY <2>1, <2>3 DEF Addr
    <3> QED BY <2>5, <2>6, <2>7, <3>1, CoveredIs
  <2> QED BY <2>8 DEF Lost
<1> QED BY <1>2, <1>3 DEF Pool!Init

LEMMA TakenIsHeld == Pool!Taken = HeldUnits
BY DEF Pool!Taken, Pool!Extent, HeldUnits

LEMMA StepPool == ListInv /\ SoundStep => [Pool!Next]_<<held, Lost>>
<1> SUFFICES ASSUME ListInv, SoundStep PROVE [Pool!Next]_<<held, Lost>>
  OBVIOUS
<1>1. TypeOK /\ held \in [Addr -> Nat]
  BY DEF ListInv, TypeOK
<1>2. PICK F \in SUBSET Addr : Kept(F)
  BY DEF ListInv
<1>3. /\ FreeUnits = Covered(F, node) /\ FreeUnits \subseteq Addr
      /\ FreeUnits \cap HeldUnits = {}
  BY <1>1, <1>2, UnitsAre
<1>4. FreeUnits \subseteq Pool!Available
  BY <1>3, TakenIsHeld DEF Pool!Available, Lost
<1>5. ASSUME NEW size \in Requests, NEW x \in Addr, kmalloc(x, size), PrevTrue(x)
      PROVE  Pool!Next
  <2>1. PICK n : n = Amount(size)
    OBVIOUS
  <2>2. n \in Nat /\ n > 0
    <3>1. size \in Int /\ size > 0
      BY <1>5, RequestsAssumption DEF kmalloc
    <3> QED BY <2>1, <3>1, AmountPositive
  <2>3. /\ TypeOK' /\ x \notin HeldBlocks
        /\ \E G \in SUBSET Addr : Kept(G)' /\ TakenFrom(F, G, x, n)
    <3>1. size \in Int
      BY RequestsAssumption
    <3> QED BY <1>1, <1>2, <1>5, <2>1, <3>1, KmallocKeeps
  <2>4. PICK G \in SUBSET Addr : Kept(G)' /\ TakenFrom(F, G, x, n)
    BY <2>3
  <2>5. FreeUnits' = Covered(G, node')
    BY <2>3, <2>4, UnitsAreAlways
  <2>6. held[x] = 0 /\ held' = [held EXCEPT ![x] = n]
    BY <1>1, <1>5, <2>1, <2>3 DEF HeldBlocks, kmalloc
  <2>7. HeldUnits' = HeldUnits \cup (x .. x + n)
    BY <1>1, <2>2, <2>6, HeldGrows
  <2>8. x .. x + n \subseteq FreeUnits
          /\ \/ Lost' = Lost
             \/ x + n + 1 \in FreeUnits /\ Lost' = Lost \cup {x + n + 1}
    <3>1. CASE FreeUnits = FreeUnits' \cup (x .. x + n)
      <4>1. Lost' = Lost
        BY <2>7, <3>1 DEF Lost
      <4> QED BY <3>1, <4>1
    <3>2. CASE FreeUnits = FreeUnits' \cup (x .. x + n + 1)
                 /\ x + n + 1 \notin FreeUnits'
      <4>1. x .. x + n + 1 = (x .. x + n) \cup {x + n + 1} /\ x + n + 1 \notin x .. x + n
        BY <2>2, AddrFacts
      <4>2. x + n + 1 \in FreeUnits /\ x + n + 1 \in Addr /\ x + n + 1 \notin HeldUnits
        BY <1>3, <3>2, <4>1
      <4>3. Lost' = Lost \cup {x + n + 1}
        BY <2>7, <3>2, <4>1, <4>2 DEF Lost
      <4> QED BY <3>2, <4>1, <4>2, <4>3
    <3> QED BY <1>3, <2>4, <2>5, <3>1, <3>2 DEF TakenFrom
  <2>9. Pool!Alloc(x, n)
    BY <1>4, <2>6, <2>8 DEF Pool!Alloc, Pool!Extent
  <2> QED BY <2>1, <2>9 DEF Pool!Next
<1>6. ASSUME NEW a \in Addr, kfree(a) PROVE Pool!Next
  <2>1. /\ TypeOK' /\ held[a] > 0 /\ held' = [held EXCEPT ![a] = 0]
        /\ \E G \in SUBSET Addr :
             /\ Kept(G)'
             /\ \A u : u \in Covered(G, node')
                         <=> u \in Covered(F, node) \/ u \in a .. a + held[a]
    BY <1>1, <1>2, <1>6, KfreeKeeps
  <2>2. PICK G \in SUBSET Addr :
             /\ Kept(G)'
             /\ \A u : u \in Covered(G, node')
                         <=> u \in Covered(F, node) \/ u \in a .. a + held[a]
    BY <2>1
  <2>3. FreeUnits' = Covered(G, node')
    BY <2>1, <2>2, UnitsAreAlways
  <2>4. HeldUnits = HeldUnits' \cup (a .. a + held[a])
    BY <1>1, <2>1, HeldShrinks
  <2>5. FreeUnits' = FreeUnits \cup (a .. a + held[a])
    BY <1>3, <2>2, <2>3
  <2>6. Lost' = Lost
    BY <2>4, <2>5 DEF Lost
  <2>7. Pool!Free(a)
    BY <2>1, <2>6 DEF Pool!Free
  <2> QED BY <2>7 DEF Pool!Next
<1>7. ASSUME UNCHANGED vars PROVE UNCHANGED <<held, Lost>>
  <2>1. UNCHANGED <<freeList, node, held>>
    BY <1>7 DEF vars
  <2>2. List' = List
    BY <2>1 DEF List
  <2>3. FreeUnits' = FreeUnits
    BY <2>1, <2>2 DEF FreeUnits, Listed, Extent
  <2>4. HeldUnits' = HeldUnits
    BY <2>1 DEF HeldUnits
  <2> QED BY <2>1, <2>3, <2>4 DEF Lost
<1> QED BY <1>1, <1>2, <1>5, <1>6, <1>7, StepCases

\* src/c/mem.c: the list implements the abstract memory pool.  Blocks never
\* overlap, a free frees exactly its block, and an allocation wastes at most
\* the space of one header.
THEOREM ListIsPool == SpecWhilePrevTrue => BlocksDisjoint
<1>1. ListInv /\ [Next /\ TakesWithPrevTrue]_vars => [Pool!Next]_<<held, Lost>>
  BY StepPool DEF SoundStep
<1>2. Init => Pool!Init
  BY InitPool
<1> QED BY <1>1, <1>2, ListKept, PTL
      DEF SpecWhilePrevTrue, BlocksDisjoint, Pool!Spec, Pool!poolVars

=============================================================================
