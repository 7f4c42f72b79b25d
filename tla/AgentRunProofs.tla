--------------------------- MODULE AgentRunProofs ---------------------------
(***************************************************************************)
(* Theorems about AgentRun for every value of its constants.               *)
(***************************************************************************)
EXTENDS AgentRun, SequenceTheorems, WellFoundedInduction, TLAPS

(***************************************************************************)
(* What keeps TypeOK inductive: a run that used up its iterations or its   *)
(* compactions only reports the error, and the next one starts anew.       *)
(***************************************************************************)
Exhausted ==
  /\ limited /\ iteration = MaxIterations + 1 => at = "Error"
  /\ at = "idle" => iteration = 0
  /\ consecutive = 3 => at = "Error"

(***************************************************************************)
(* The calls no batch has taken yet are newer than any call executed, and  *)
(* in increasing order.                                                    *)
(***************************************************************************)
CallsOrdered ==
  /\ lastRun < nextId
  /\ \A i \in DOMAIN todo : lastRun < todo[i].id /\ todo[i].id < nextId
  /\ \A i, j \in DOMAIN todo : i < j => todo[i].id < todo[j].id

---------------------------------------------------------------------------
(* The elements of a sequence at given positions, and the last such one.   *)

LEMMA LeastNumber ==
  ASSUME NEW T, T \subseteq Nat, T # {}
  PROVE  \E n \in T : \A m \in T : n <= m
<1> DEFINE R == OpToRel(<, Nat)
<1>1. IsWellFoundedOn(R, Nat)
  BY NatLessThanWellFounded
<1>2. PICK n \in T : \A m \in T : ~(<<m, n>> \in R)
  <2> HIDE DEF R
  <2> QED
    BY <1>1, WFMin
<1>3. ASSUME NEW m \in T PROVE n <= m
  <2>1. ~(m < n)
    BY <1>2 DEF OpToRel
  <2> QED
    BY <2>1
<1> QED
  BY <1>3

\* The recursion of Select has a solution.
LEMMA SelectDefined ==
  ASSUME NEW seq, NEW kept, Len(seq) \in Nat
  PROVE  \E f : /\ f = [n \in 0..Len(seq) |->
                          IF n = 0 THEN <<>>
                          ELSE IF n \in kept THEN Append(f[n - 1], seq[n]) ELSE f[n - 1]]
                /\ Select(seq, kept) = f[Len(seq)]
<1> DEFINE Solves(f, n) ==
      f = [i \in 0..n |-> IF i = 0 THEN <<>>
                          ELSE IF i \in kept THEN Append(f[i - 1], seq[i]) ELSE f[i - 1]]
           Unsolved == {n \in Nat : ~ \E f : Solves(f, n)}
<1>1. Unsolved = {}
  <2> SUFFICES ASSUME Unsolved # {} PROVE FALSE
    OBVIOUS
  <2>1. PICK n \in Unsolved : \A m \in Unsolved : n <= m
    BY LeastNumber
  <2>2. CASE n = 0
    <3>1. Solves([i \in 0..0 |-> <<>>], 0)
      OBVIOUS
    <3> QED
      BY <2>2, <3>1
  <2>3. CASE n # 0
    <3>1. n - 1 \in Nat /\ n - 1 \notin Unsolved
      <4>1. n \in Nat
        BY <2>1
      <4> HIDE DEF Unsolved
      <4> QED
        BY <2>1, <2>3, <4>1
    <3>2. PICK g : Solves(g, n - 1)
      BY <3>1
    <3> DEFINE next == IF n \in kept THEN Append(g[n - 1], seq[n]) ELSE g[n - 1]
               f == [i \in 0..n |-> IF i = n THEN next ELSE g[i]]
    <3>3. \A i \in 0..(n - 1) : f[i] = g[i]
      BY <3>1
    <3>4. f[n] = next /\ f[n - 1] = g[n - 1]
      BY <2>3, <3>1
    <3>5. Solves(f, n)
      <4>1. ASSUME NEW i \in 0..n
            PROVE  f[i] = IF i = 0 THEN <<>>
                          ELSE IF i \in kept THEN Append(f[i - 1], seq[i]) ELSE f[i - 1]
        <5>1. CASE i = n
          <6> HIDE DEF f
          <6> QED
            BY <2>3, <3>4, <5>1
        <5>2. CASE i # n
          <6>1. i \in 0..(n - 1) /\ (i # 0 => i - 1 \in 0..(n - 1))
            BY <3>1, <5>2
          <6>2. g[i] = IF i = 0 THEN <<>>
                       ELSE IF i \in kept THEN Append(g[i - 1], seq[i]) ELSE g[i - 1]
            BY <3>2, <6>1
          <6> HIDE DEF f
          <6> QED
            BY <3>3, <6>1, <6>2
        <5> QED
          BY <5>1, <5>2
      <4>2. f = [i \in 0..n |-> f[i]]
        OBVIOUS
      <4> HIDE DEF f
      <4> QED
        BY <4>1, <4>2
    <3> QED
      BY <3>5
  <2> QED
    BY <2>2, <2>3
<1>2. PICK f : Solves(f, Len(seq))
  BY <1>1
<1> QED
  BY <1>2 DEF Select

\* Select enumerates the positions in `kept` in increasing order.
Enumerates(h, m, kept, n) ==
  /\ m \in 0..n /\ h \in [1..m -> kept \cap 1..n]
  /\ \A a, b \in 1..m : a < b => h[a] < h[b]
  /\ \A i \in kept \cap 1..n : \E a \in 1..m : h[a] = i

LEMMA EnumerateNext ==
  ASSUME NEW kept, NEW n \in Nat, n # 0, NEW m, NEW h, Enumerates(h, m, kept, n - 1)
  PROVE  /\ n \notin kept => Enumerates(h, m, kept, n)
         /\ n \in kept =>
              Enumerates([a \in 1..(m + 1) |-> IF a = m + 1 THEN n ELSE h[a]], m + 1, kept, n)
<1>1. m \in Nat /\ m <= n - 1 /\ (n \notin kept => kept \cap 1..n = kept \cap 1..(n - 1))
  BY DEF Enumerates
<1>2. ASSUME n \notin kept PROVE Enumerates(h, m, kept, n)
  BY <1>1, <1>2 DEF Enumerates
<1>3. ASSUME n \in kept
      PROVE  Enumerates([a \in 1..(m + 1) |-> IF a = m + 1 THEN n ELSE h[a]], m + 1, kept, n)
  <2> DEFINE g == [a \in 1..(m + 1) |-> IF a = m + 1 THEN n ELSE h[a]]
  <2>1. \A a \in 1..m : a \in 1..(m + 1) /\ g[a] = h[a] /\ h[a] \in kept /\ h[a] \in 1..(n - 1)
    BY <1>1 DEF Enumerates
  <2>2. g[m + 1] = n
    BY <1>1
  <2>3. \A a \in 1..(m + 1) : a = m + 1 \/ a \in 1..m
    BY <1>1
  <2>4. g \in [1..(m + 1) -> kept \cap 1..n]
    <3>1. \A a \in 1..(m + 1) : g[a] \in kept \cap 1..n
      <4> HIDE DEF g
      <4> QED
        BY <1>3, <2>1, <2>2, <2>3
    <3> QED
      BY <3>1
  <2>5. \A a, b \in 1..(m + 1) : a < b => g[a] < g[b]
    <3> SUFFICES ASSUME NEW a \in 1..(m + 1), NEW b \in 1..(m + 1), a < b PROVE g[a] < g[b]
      OBVIOUS
    <3>1. a \in 1..m
      BY <1>1
    <3> HIDE DEF g
    <3>2. CASE b = m + 1
      BY <2>1, <2>2, <3>1, <3>2
    <3>3. CASE b \in 1..m
      BY <2>1, <3>1, <3>3 DEF Enumerates
    <3> QED
      BY <2>3, <3>2, <3>3
  <2>6. \A i \in kept \cap 1..n : \E a \in 1..(m + 1) : g[a] = i
    <3> SUFFICES ASSUME NEW i \in kept \cap 1..n PROVE \E a \in 1..(m + 1) : g[a] = i
      OBVIOUS
    <3> HIDE DEF g
    <3>1. CASE i = n
      BY <1>1, <2>2, <3>1
    <3>2. CASE i # n
      <4>1. i \in kept \cap 1..(n - 1)
        BY <3>2
      <4>2. PICK a \in 1..m : h[a] = i
        BY <4>1 DEF Enumerates
      <4> QED
        BY <2>1, <4>2
    <3> QED
      BY <3>1, <3>2
  <2>7. m + 1 \in 0..n
    BY <1>1
  <2> HIDE DEF g
  <2>8. Enumerates(g, m + 1, kept, n)
    BY <2>4, <2>5, <2>6, <2>7 DEF Enumerates
  <2> QED
    BY <2>8 DEF g
<1> QED
  BY <1>2, <1>3

LEMMA SelectIs ==
  ASSUME NEW T, NEW seq \in Seq(T), NEW kept
  PROVE  \E m \in 0..Len(seq) : \E h :
           /\ Enumerates(h, m, kept, Len(seq))
           /\ Select(seq, kept) \in Seq(T) /\ Len(Select(seq, kept)) = m
           /\ \A a \in 1..m : Select(seq, kept)[a] = seq[h[a]]
<1>1. Len(seq) \in Nat
  OBVIOUS
<1>2. PICK f : /\ f = [n \in 0..Len(seq) |->
                          IF n = 0 THEN <<>>
                          ELSE IF n \in kept THEN Append(f[n - 1], seq[n]) ELSE f[n - 1]]
               /\ Select(seq, kept) = f[Len(seq)]
  BY <1>1, SelectDefined
<1>3. \A n \in 0..Len(seq) :
        f[n] = IF n = 0 THEN <<>>
               ELSE IF n \in kept THEN Append(f[n - 1], seq[n]) ELSE f[n - 1]
  BY <1>2
<1> DEFINE Is(n) == \E m \in 0..n : \E h :
                      /\ Enumerates(h, m, kept, n)
                      /\ f[n] \in Seq(T) /\ Len(f[n]) = m
                      /\ \A a \in 1..m : f[n][a] = seq[h[a]]
           Fails == {n \in 0..Len(seq) : ~Is(n)}
<1>4. Fails = {}
  <2> SUFFICES ASSUME Fails # {} PROVE FALSE
    OBVIOUS
  <2>1. PICK n \in Fails : \A m \in Fails : n <= m
    <3>1. Fails \subseteq Nat
      <4> HIDE DEF Is
      <4> QED
        BY <1>1
    <3> HIDE DEF Fails
    <3> QED
      BY <3>1, LeastNumber
  <2>2. n \in 0..Len(seq) /\ n \in Nat /\ ~Is(n)
    BY <2>1
  <2>3. CASE n = 0
    <3>1. f[0] = <<>>
      BY <1>1, <1>3
    <3>2. Enumerates(<<>>, 0, kept, 0)
      BY DEF Enumerates
    <3> QED
      BY <2>2, <2>3, <3>1, <3>2
  <2>4. CASE n # 0
    <3>1. n - 1 \in 0..Len(seq) /\ n \in 1..Len(seq)
      BY <1>1, <2>2, <2>4
    <3>2. Is(n - 1)
      <4> HIDE DEF Is
      <4>1. n - 1 \notin Fails
        <5> HIDE DEF Fails
        <5> QED
          BY <2>1, <2>2
      <4> QED
        BY <3>1, <4>1
    <3>0. PICK m \in 0..(n - 1) : \E h :
             /\ Enumerates(h, m, kept, n - 1)
             /\ f[n - 1] \in Seq(T) /\ Len(f[n - 1]) = m
             /\ \A a \in 1..m : f[n - 1][a] = seq[h[a]]
      BY <3>2
    <3>3. PICK h : /\ m \in 0..(n - 1) /\ Enumerates(h, m, kept, n - 1)
                   /\ f[n - 1] \in Seq(T) /\ Len(f[n - 1]) = m
                   /\ \A a \in 1..m : f[n - 1][a] = seq[h[a]]
      BY <3>0
    <3>4. CASE n \notin kept
      <4> HIDE DEF Is, Fails
      <4>1. f[n] = f[n - 1]
        BY <1>3, <2>2, <2>4, <3>4
      <4>2. Enumerates(h, m, kept, n) /\ m \in 0..n
        <5>1. n \in Nat /\ n # 0 /\ m \in 0..n
          BY <2>2, <2>4, <3>3
        <5>2. Enumerates(h, m, kept, n - 1)
          BY <3>3
        <5> QED
          BY <3>4, <5>1, <5>2, EnumerateNext
      <4> USE DEF Is
      <4> QED
        BY <2>2, <3>3, <4>1, <4>2
    <3>5. CASE n \in kept
      <4>1. f[n] = Append(f[n - 1], seq[n])
        BY <1>3, <2>2, <2>4, <3>5
      <4> DEFINE g == [a \in 1..(m + 1) |-> IF a = m + 1 THEN n ELSE h[a]]
      <4>2. Enumerates(g, m + 1, kept, n) /\ m + 1 \in 0..n
        <5> HIDE DEF Is, Fails
        <5>1. n \in Nat /\ n # 0 /\ m + 1 \in 0..n
          BY <2>2, <2>4, <3>3
        <5>2. Enumerates(h, m, kept, n - 1)
          BY <3>3
        <5> QED
          BY <3>5, <5>1, <5>2, EnumerateNext
      <4>3. seq[n] \in T
        BY <3>1
      <4>4. /\ f[n] \in Seq(T) /\ Len(f[n]) = m + 1 /\ f[n][m + 1] = seq[n]
            /\ \A a \in 1..m : f[n][a] = f[n - 1][a]
        BY <3>3, <4>1, <4>3
      <4>5. \A a \in 1..(m + 1) : f[n][a] = seq[g[a]]
        BY <3>3, <4>4
      <4> HIDE DEF g
      <4> QED
        BY <2>2, <4>2, <4>4, <4>5
    <3> QED
      BY <3>4, <3>5
  <2> QED
    BY <2>3, <2>4
<1>5. Is(Len(seq))
  BY <1>1, <1>4
<1>6. Select(seq, kept) = f[Len(seq)]
  BY <1>2
<1> QED
  BY <1>5, <1>6

\* The last position where a test holds.
LEMMA GreatestPosition ==
  ASSUME NEW n \in Nat, NEW S, S \subseteq 1..n, S # {}
  PROVE  Seqs!Max(S) \in S /\ \A i \in S : i <= Seqs!Max(S)
<1> DEFINE Down == {n - i : i \in S}
<1>1. Down \subseteq Nat /\ Down # {}
  <2>1. \A i \in S : n - i \in Nat
    OBVIOUS
  <2> QED
    BY <2>1
<1>2. PICK d \in Down : \A e \in Down : d <= e
  BY <1>1, LeastNumber
<1>3. PICK g \in S : d = n - g
  BY <1>2
<1>4. \A i \in S : g >= i
  <2> SUFFICES ASSUME NEW i \in S PROVE g >= i
    OBVIOUS
  <2>1. n - g <= n - i
    BY <1>2, <1>3
  <2> QED
    BY <1>3, <2>1
<1>5. \E g1 \in S : \A i \in S : g1 >= i
  BY <1>4
<1>6. Seqs!Max(S) \in S /\ \A i \in S : Seqs!Max(S) >= i
  BY <1>5 DEF Seqs!Max
<1> QED
  BY <1>6

LEMMA Joined ==
  ASSUME NEW T, NEW u \in Seq(T), NEW v \in Seq(T)
  PROVE  /\ u \o v \in Seq(T) /\ Len(u \o v) = Len(u) + Len(v)
         /\ \A i \in 1..Len(u) : i \in 1..Len(u \o v) /\ (u \o v)[i] = u[i]
         /\ \A k \in 1..Len(v) :
              Len(u) + k \in 1..Len(u \o v) /\ (u \o v)[Len(u) + k] = v[k]
OBVIOUS

\* The recursion of FlattenSeq has a solution.
LEMMA FlattenDefined ==
  ASSUME NEW seqs, Len(seqs) \in Nat, Len(seqs) # 0
  PROVE  \E f : /\ f = [i \in 1..Len(seqs) |-> IF i = 1 THEN seqs[i] ELSE f[i - 1] \o seqs[i]]
                /\ Seqs!FlattenSeq(seqs) = f[Len(seqs)]
<1> DEFINE Solves(f, n) == f = [i \in 1..n |-> IF i = 1 THEN seqs[i] ELSE f[i - 1] \o seqs[i]]
           Unsolved == {n \in Nat : ~ \E f : Solves(f, n)}
<1>1. Unsolved = {}
  <2> SUFFICES ASSUME Unsolved # {} PROVE FALSE
    OBVIOUS
  <2>1. PICK n \in Unsolved : \A m \in Unsolved : n <= m
    BY LeastNumber
  <2>2. CASE n = 0
    <3>1. Solves(<<>>, 0)
      OBVIOUS
    <3> QED
      BY <2>2, <3>1
  <2>3. CASE n # 0
    <3>1. n - 1 \in Nat /\ n - 1 \notin Unsolved
      <4>1. n \in Nat
        BY <2>1
      <4> HIDE DEF Unsolved
      <4> QED
        BY <2>1, <2>3, <4>1
    <3>2. PICK g : Solves(g, n - 1)
      BY <3>1
    <3> DEFINE next == IF n = 1 THEN seqs[n] ELSE g[n - 1] \o seqs[n]
               f == [i \in 1..n |-> IF i = n THEN next ELSE g[i]]
    <3>3. \A i \in 1..(n - 1) : f[i] = g[i]
      BY <3>1
    <3>4. f[n] = next
      BY <2>3, <3>1
    <3>5. Solves(f, n)
      <4>1. ASSUME NEW i \in 1..n
            PROVE  f[i] = IF i = 1 THEN seqs[i] ELSE f[i - 1] \o seqs[i]
        <5>1. CASE i = n
          <6>1. n # 1 => f[n - 1] = g[n - 1]
            BY <2>3, <3>1, <3>3
          <6> HIDE DEF f
          <6> QED
            BY <2>3, <3>4, <5>1, <6>1
        <5>2. CASE i # n
          <6>1. i \in 1..(n - 1) /\ (i # 1 => i - 1 \in 1..(n - 1))
            BY <3>1, <5>2
          <6>2. g[i] = IF i = 1 THEN seqs[i] ELSE g[i - 1] \o seqs[i]
            BY <3>2, <6>1
          <6> HIDE DEF f
          <6> QED
            BY <3>3, <6>1, <6>2
        <5> QED
          BY <5>1, <5>2
      <4>2. f = [i \in 1..n |-> f[i]]
        OBVIOUS
      <4> HIDE DEF f
      <4> QED
        BY <4>1, <4>2
    <3> QED
      BY <3>5
  <2> QED
    BY <2>2, <2>3
<1>2. PICK f : Solves(f, Len(seqs))
  BY <1>1
<1> QED
  BY <1>2 DEF Seqs!FlattenSeq

\* The sequences stand in the flattened one from `start` on, one after the other.
Concatenates(flat, start, seqs, n) ==
  /\ start \in [1..(n + 1) -> Nat] /\ Len(flat) = start[n + 1]
  /\ \A b \in 1..n : \A k \in 1..Len(seqs[b]) :
       start[b] + k \in 1..Len(flat) /\ flat[start[b] + k] = seqs[b][k]
  /\ \A i \in 1..Len(flat) : \E b \in 1..n : \E k \in 1..Len(seqs[b]) : i = start[b] + k

LEMMA FlattenIs ==
  ASSUME NEW T, NEW seqs \in Seq(Seq(T))
  PROVE  /\ Seqs!FlattenSeq(seqs) \in Seq(T)
         /\ \E start : Concatenates(Seqs!FlattenSeq(seqs), start, seqs, Len(seqs))
<1>1. Len(seqs) \in Nat
  OBVIOUS
<1>2. CASE Len(seqs) = 0
  <2>1. Seqs!FlattenSeq(seqs) = <<>>
    BY <1>2 DEF Seqs!FlattenSeq
  <2>2. Concatenates(<<>>, [b \in 1..1 |-> 0], seqs, 0)
    BY DEF Concatenates
  <2> QED
    BY <1>2, <2>1, <2>2
<1>3. CASE Len(seqs) # 0
  <2>1. PICK f : /\ f = [i \in 1..Len(seqs) |-> IF i = 1 THEN seqs[i] ELSE f[i - 1] \o seqs[i]]
                 /\ Seqs!FlattenSeq(seqs) = f[Len(seqs)]
    BY <1>1, <1>3, FlattenDefined
  <2>2. \A i \in 1..Len(seqs) : f[i] = IF i = 1 THEN seqs[i] ELSE f[i - 1] \o seqs[i]
    BY <2>1
  <2> DEFINE Is(n) == f[n] \in Seq(T) /\ \E start : Concatenates(f[n], start, seqs, n)
             Fails == {n \in 1..Len(seqs) : ~Is(n)}
  <2>3. Fails = {}
    <3> SUFFICES ASSUME Fails # {} PROVE FALSE
      OBVIOUS
    <3>1. PICK n \in Fails : \A m \in Fails : n <= m
      <4>1. Fails \subseteq Nat
        <5> HIDE DEF Is
        <5> QED
          BY <1>1
      <4> HIDE DEF Fails
      <4> QED
        BY <4>1, LeastNumber
    <3>2. n \in 1..Len(seqs) /\ n \in Nat /\ ~Is(n)
      BY <3>1
    <3>3. seqs[n] \in Seq(T) /\ Len(seqs[n]) \in Nat
      BY <3>2
    <3>4. CASE n = 1
      <4>1. f[1] = seqs[1]
        BY <2>2, <3>2, <3>4
      <4> DEFINE start == [b \in 1..2 |-> IF b = 1 THEN 0 ELSE Len(seqs[1])]
      <4>2. Concatenates(f[1], start, seqs, 1)
        BY <3>3, <3>4, <4>1 DEF Concatenates
      <4> HIDE DEF start
      <4> QED
        BY <3>2, <3>3, <3>4, <4>1, <4>2
    <3>5. CASE n # 1
      <4>1. n - 1 \in 1..Len(seqs) /\ n - 1 \in Nat
        BY <3>2, <3>5
      <4>2. Is(n - 1)
        <5>1. n - 1 \notin Fails
          <6> HIDE DEF Fails
          <6> QED
            BY <3>1, <3>2
        <5> HIDE DEF Is
        <5> QED
          BY <4>1, <5>1
      <4>3. PICK s : Concatenates(f[n - 1], s, seqs, n - 1)
        BY <4>2
      <4>4. f[n - 1] \in Seq(T) /\ f[n] = f[n - 1] \o seqs[n]
        BY <2>2, <3>2, <3>5, <4>2
      <4> DEFINE start == [b \in 1..(n + 1) |-> IF b = n + 1 THEN s[n] + Len(seqs[n]) ELSE s[b]]
      <4>5. Is(n)
        <5> HIDE DEF Is
        <5>1. /\ Len(f[n - 1]) = s[n] /\ s[n] \in Nat /\ s \in [1..n -> Nat]
              /\ \A b \in 1..(n - 1) : \A k \in 1..Len(seqs[b]) :
                   s[b] + k \in 1..Len(f[n - 1]) /\ f[n - 1][s[b] + k] = seqs[b][k]
              /\ \A i \in 1..Len(f[n - 1]) :
                   \E b \in 1..(n - 1) : \E k \in 1..Len(seqs[b]) : i = s[b] + k
          BY <3>2, <4>1, <4>3 DEF Concatenates
        <5>2. /\ f[n] \in Seq(T) /\ Len(f[n]) = s[n] + Len(seqs[n])
              /\ \A i \in 1..Len(f[n - 1]) : f[n][i] = f[n - 1][i]
              /\ \A k \in 1..Len(seqs[n]) : f[n][s[n] + k] = seqs[n][k]
          <6>1. Len(f[n - 1]) = s[n]
            BY <5>1
          <6> DEFINE u == f[n - 1]
                     v == seqs[n]
          <6>2. u \in Seq(T) /\ v \in Seq(T)
            BY <3>3, <4>4
          <6> HIDE DEF u, v
          <6>3. /\ u \o v \in Seq(T) /\ Len(u \o v) = Len(u) + Len(v)
                /\ \A i \in 1..Len(u) : (u \o v)[i] = u[i]
                /\ \A k \in 1..Len(v) : (u \o v)[Len(u) + k] = v[k]
            BY <6>2, Joined
          <6> QED
            BY <4>4, <6>1, <6>3 DEF u, v
        <5>3. /\ start \in [1..(n + 1) -> Nat] /\ start[n + 1] = s[n] + Len(seqs[n])
              /\ \A b \in 1..n : start[b] = s[b]
          BY <3>2, <3>3, <5>1
        <5> HIDE DEF start
        <5>4. ASSUME NEW b \in 1..n, NEW k \in 1..Len(seqs[b])
              PROVE  start[b] + k \in 1..Len(f[n]) /\ f[n][start[b] + k] = seqs[b][k]
          <6>1. CASE b = n
            <7>1. start[n] = s[n] /\ s[n] \in Nat /\ Len(f[n]) = s[n] + Len(seqs[n])
              BY <3>2, <5>1, <5>2, <5>3
            <7>2. k \in 1..Len(seqs[n]) /\ f[n][s[n] + k] = seqs[n][k]
              BY <5>2, <6>1
            <7> QED
              BY <3>3, <6>1, <7>1, <7>2, SMTT(30)
          <6>2. CASE b # n
            <7>1. b \in 1..(n - 1)
              BY <3>2, <6>2
            <7>2. s[b] + k \in 1..Len(f[n - 1]) /\ f[n - 1][s[b] + k] = seqs[b][k]
              BY <5>1, <7>1
            <7>3. start[b] = s[b]
              BY <5>3
            <7>4. s[b] + k \in 1..Len(f[n])
              <8>1. Len(f[n - 1]) = s[n] /\ s[n] \in Nat /\ Len(f[n]) = s[n] + Len(seqs[n])
                BY <5>1, <5>2
              <8>2. \A p \in 1..s[n] : p \in 1..(s[n] + Len(seqs[n]))
                BY <3>3, <8>1
              <8> QED
                BY <7>2, <8>1, <8>2
            <7>5. f[n][s[b] + k] = f[n - 1][s[b] + k]
              BY <5>2, <7>2
            <7> QED
              BY <7>2, <7>3, <7>4, <7>5
          <6> QED
            BY <6>1, <6>2
        <5>5. ASSUME NEW i \in 1..Len(f[n])
              PROVE  \E b \in 1..n : \E k \in 1..Len(seqs[b]) : i = start[b] + k
          <6>1. CASE i \in 1..Len(f[n - 1])
            <7>1. PICK b \in 1..(n - 1) : \E k \in 1..Len(seqs[b]) : i = s[b] + k
              BY <5>1, <6>1
            <7>2. b \in 1..n /\ start[b] = s[b]
              BY <3>2, <5>3
            <7> QED
              BY <7>1, <7>2
          <6>2. CASE i \notin 1..Len(f[n - 1])
            <7>1. i - s[n] \in 1..Len(seqs[n]) /\ i = s[n] + (i - s[n])
              BY <3>3, <5>1, <5>2, <6>2, SMTT(30)
            <7>2. n \in 1..n /\ start[n] = s[n]
              BY <3>2, <5>3
            <7> QED
              BY <7>1, <7>2
          <6> QED
            BY <6>1, <6>2
        <5>6. Concatenates(f[n], start, seqs, n)
          BY <5>2, <5>3, <5>4, <5>5 DEF Concatenates
        <5> QED
          BY <5>2, <5>6 DEF Is
      <4> QED
        BY <3>2, <4>5
    <3> QED
      BY <3>4, <3>5
  <2>4. Is(Len(seqs))
    BY <1>1, <1>3, <2>3
  <2>5. Seqs!FlattenSeq(seqs) = f[Len(seqs)]
    BY <2>1
  <2> QED
    BY <2>4, <2>5
<1> QED
  BY <1>2, <1>3

---------------------------------------------------------------------------
(* Entries, and conversations that are made of others' entries.            *)

Kinds == {"system", "note", "reminder", "user", "assistant", "tool", "summary"}
Texts ==
  {"none", "prompt", "summary", "continuation", "continue", "context", "ask", "warning",
   "late", "periodic", "update", "working directory", "resend", "text", "blank", "partial",
   "interrupted", "answer", "unexecuted", "output"}

EntryType ==
  [kind : Kinds, text : Texts, calls : Seq(CallType), call : Nat, about : Texts,
   binary : BOOLEAN]

\* Only an assistant calls, and only users and tools attach.
Entries ==
  {e \in EntryType : (IsAssistant(e) \/ e.calls = <<>>) /\ (e.binary => IsUser(e) \/ IsTool(e))}

\* No call of a conversation is made twice, and none is answered twice.
CallsOnce(c) ==
  \A i, j \in DOMAIN c : \A k \in DOMAIN c[i].calls, l \in DOMAIN c[j].calls :
    c[i].calls[k].id = c[j].calls[l].id => i = j /\ k = l
AnswersOnce(c) ==
  \A i, j \in DOMAIN c : IsTool(c[i]) /\ IsTool(c[j]) /\ c[i].call = c[j].call => i = j

Plain(e) == ~IsTool(e) /\ e.calls = <<>> /\ ~e.binary
Like(e, o) == e.kind = o.kind /\ e.calls = o.calls /\ e.call = o.call /\ (e.binary => o.binary)

\* Every entry of d is a plain one, or is like an entry of c that no other is like.
Traces(g, d, c) ==
  /\ g \in [DOMAIN d -> 0..Len(c)]
  /\ \A i \in DOMAIN d : (g[i] = 0 => Plain(d[i])) /\ (g[i] # 0 => Like(d[i], c[g[i]]))
  /\ \A i, j \in DOMAIN d : g[i] = g[j] /\ g[i] # 0 => i = j
From(d, c) == \E g : Traces(g, d, c)

\* The entry that these parts make.
Made(kind, text, calls, call, about, binary) ==
  [kind |-> kind, text |-> text, calls |-> calls, call |-> call,
   about |-> about, binary |-> binary]

LEMMA MadeType ==
  ASSUME NEW kind \in Kinds, NEW text \in Texts, NEW calls \in Seq(CallType),
         NEW call \in Nat, NEW about \in Texts, NEW binary \in BOOLEAN
  PROVE  /\ Made(kind, text, calls, call, about, binary) \in EntryType
         /\ (kind = "assistant" \/ calls = <<>>) /\ (binary = FALSE \/ kind \in {"user", "tool"}) =>
              Made(kind, text, calls, call, about, binary) \in Entries
<1>1. Made(kind, text, calls, call, about, binary) \in EntryType
  BY DEF Made, EntryType
<1>2. /\ Made(kind, text, calls, call, about, binary).kind = kind
      /\ Made(kind, text, calls, call, about, binary).calls = calls
      /\ Made(kind, text, calls, call, about, binary).binary = binary
  BY DEF Made
<1> QED
  BY <1>1, <1>2 DEF Entries, IsTool, IsUser, IsAssistant

LEMMA MadeFor ==
  ASSUME NEW kind, NEW text, NEW calls, NEW call, NEW about, NEW binary, NEW other
  PROVE  [Made(kind, text, calls, call, about, binary) EXCEPT !.call = other]
           = Made(kind, text, calls, other, about, binary)
BY DEF Made

\* What the constructors of entries make.
LEMMA EntriesMade ==
  /\ System = Made("system", "prompt", <<>>, 0, "none", FALSE)
  /\ Summary = Made("summary", "summary", <<>>, 0, "none", FALSE)
  /\ \A text :
       /\ Note(text) = Made("note", text, <<>>, 0, "none", FALSE)
       /\ Reminder(text) = Made("reminder", text, <<>>, 0, "none", FALSE)
       /\ Assistant(text) = Made("assistant", text, <<>>, 0, "none", FALSE)
       /\ Continuation(text) = Made("reminder", "continuation", <<>>, 0, text, FALSE)
       /\ \A binary : User(text, binary) = Made("user", text, <<>>, 0, "none", binary)
       /\ \A calls : AssistantCalls(text, calls) = Made("assistant", text, calls, 0, "none", FALSE)
       /\ \A id \in Nat, binary \in BOOLEAN :
            ToolOutput(id, text, binary) = Made("tool", text, <<>>, id, "none", binary)
<1> USE DEF Made, Entry, NoCall, NoText
<1>1. /\ System = Made("system", "prompt", <<>>, 0, "none", FALSE)
      /\ Summary = Made("summary", "summary", <<>>, 0, "none", FALSE)
  BY DEF System, Summary
<1>2. ASSUME NEW text
      PROVE  /\ Note(text) = Made("note", text, <<>>, 0, "none", FALSE)
             /\ Reminder(text) = Made("reminder", text, <<>>, 0, "none", FALSE)
             /\ Assistant(text) = Made("assistant", text, <<>>, 0, "none", FALSE)
  BY DEF Note, Reminder, Assistant
<1>3. ASSUME NEW text
      PROVE  Continuation(text) = Made("reminder", "continuation", <<>>, 0, text, FALSE)
  <2>1. /\ DOMAIN Reminder("continuation") = {"kind", "text", "calls", "call", "about", "binary"}
        /\ Continuation(text) = [Reminder("continuation") EXCEPT !.about = text]
    BY DEF Continuation, Reminder
  <2> QED
    BY <2>1 DEF Reminder
<1>4. ASSUME NEW text, NEW binary
      PROVE  User(text, binary) = Made("user", text, <<>>, 0, "none", binary)
  BY DEF User
<1>5. ASSUME NEW text, NEW calls
      PROVE  AssistantCalls(text, calls) = Made("assistant", text, calls, 0, "none", FALSE)
  <2>1. /\ DOMAIN Assistant(text) = {"kind", "text", "calls", "call", "about", "binary"}
        /\ AssistantCalls(text, calls) = [Assistant(text) EXCEPT !.calls = calls]
    BY DEF AssistantCalls, Assistant
  <2> QED
    BY <2>1 DEF Assistant
<1>6. ASSUME NEW text, NEW id \in Nat, NEW binary \in BOOLEAN
      PROVE  ToolOutput(id, text, binary) = Made("tool", text, <<>>, id, "none", binary)
  <2> DEFINE e == Entry("tool", text)
             d == [e EXCEPT !.call = id]
  <2>1. /\ DOMAIN e = {"kind", "text", "calls", "call", "about", "binary"}
        /\ ToolOutput(id, text, binary) = [d EXCEPT !.binary = binary]
    BY DEF ToolOutput
  <2>2. PICK no : no = FALSE
    OBVIOUS
  <2>3. e = Made("tool", text, <<>>, 0, "none", no)
    BY <2>2
  <2>4. d = Made("tool", text, <<>>, id, "none", no)
    <3> HIDE DEF Made, Entry, e
    <3> QED
      BY <2>3, MadeFor
  <2>5. [Made("tool", text, <<>>, id, "none", no) EXCEPT !.binary = binary]
          = Made("tool", text, <<>>, id, "none", binary)
    OBVIOUS
  <2> QED
    BY <2>1, <2>4, <2>5
<1> QED
  BY <1>1, <1>2, <1>3, <1>4, <1>5, <1>6

LEMMA MadeParts ==
  ASSUME NEW kind, NEW text, NEW calls, NEW call, NEW about, NEW binary,
         NEW e, e = Made(kind, text, calls, call, about, binary)
  PROVE  /\ e.kind = kind /\ e.text = text /\ e.calls = calls /\ e.call = call
         /\ e.about = about /\ e.binary = binary
BY DEF Made

LEMMA EntryTypes ==
  /\ System \in Entries /\ Summary \in Entries /\ Plain(System) /\ Plain(Summary)
  /\ \A text \in Texts : /\ Note(text) \in Entries /\ Plain(Note(text))
                          /\ Reminder(text) \in Entries /\ Plain(Reminder(text))
                          /\ Assistant(text) \in Entries /\ Plain(Assistant(text))
                          /\ Continuation(text) \in Entries /\ Plain(Continuation(text))
  /\ \A text \in Texts, binary \in BOOLEAN :
       /\ User(text, binary) \in Entries
       /\ binary = FALSE => Plain(User(text, binary))
  /\ \A text \in Texts, calls \in Seq(CallType) : AssistantCalls(text, calls) \in Entries
  /\ \A text \in Texts, id \in Nat, binary \in BOOLEAN : ToolOutput(id, text, binary) \in Entries
<1>1. <<>> \in Seq(CallType) /\ 0 \in Nat /\ FALSE \in BOOLEAN
  OBVIOUS
<1>2. /\ {"system", "summary", "note", "reminder", "user", "assistant", "tool"} \subseteq Kinds
      /\ {"prompt", "summary", "continuation", "none"} \subseteq Texts
  BY DEF Kinds, Texts
<1>3. \A kind \in Kinds, text, about \in Texts, calls \in Seq(CallType), call \in Nat,
         binary \in BOOLEAN :
        (kind = "assistant" \/ calls = <<>>) /\ (binary = FALSE \/ kind \in {"user", "tool"}) =>
          Made(kind, text, calls, call, about, binary) \in Entries
  BY MadeType
<1>4. \A kind, text, about :
        kind # "tool" => Plain(Made(kind, text, <<>>, 0, about, FALSE))
  BY DEF Plain, IsTool, Made
<1>5. System \in Entries /\ Summary \in Entries /\ Plain(System) /\ Plain(Summary)
  BY <1>1, <1>2, <1>3, <1>4, EntriesMade
<1>6. ASSUME NEW text \in Texts
      PROVE  /\ Note(text) \in Entries /\ Plain(Note(text))
             /\ Reminder(text) \in Entries /\ Plain(Reminder(text))
             /\ Assistant(text) \in Entries /\ Plain(Assistant(text))
             /\ Continuation(text) \in Entries /\ Plain(Continuation(text))
  BY <1>1, <1>2, <1>3, <1>4, EntriesMade
<1>7. ASSUME NEW text \in Texts, NEW binary \in BOOLEAN
      PROVE  User(text, binary) \in Entries /\ (binary = FALSE => Plain(User(text, binary)))
  <2>1. User(text, TRUE) \in Entries /\ User(text, FALSE) \in Entries
    BY <1>1, <1>2, <1>3, EntriesMade
  <2>2. Plain(User(text, FALSE))
    BY <1>4, EntriesMade
  <2>3. binary = TRUE \/ binary = FALSE
    OBVIOUS
  <2> QED
    BY <2>1, <2>2, <2>3, Zenon
<1>8. ASSUME NEW text \in Texts, NEW calls \in Seq(CallType)
      PROVE  AssistantCalls(text, calls) \in Entries
  BY <1>1, <1>2, <1>3, EntriesMade
<1>9. ASSUME NEW text \in Texts, NEW id \in Nat, NEW binary \in BOOLEAN
      PROVE  ToolOutput(id, text, binary) \in Entries
  <2>1. ToolOutput(id, text, TRUE) \in Entries /\ ToolOutput(id, text, FALSE) \in Entries
    <3>1. /\ Made("tool", text, <<>>, id, "none", TRUE) \in Entries
          /\ Made("tool", text, <<>>, id, "none", FALSE) \in Entries
      BY <1>1, <1>2, <1>3
    <3>2. /\ ToolOutput(id, text, TRUE) = Made("tool", text, <<>>, id, "none", TRUE)
          /\ ToolOutput(id, text, FALSE) = Made("tool", text, <<>>, id, "none", FALSE)
      BY EntriesMade
    <3> QED
      BY <3>1, <3>2
  <2>2. binary = TRUE \/ binary = FALSE
    OBVIOUS
  <2> QED
    BY <2>1, <2>2, Zenon
<1> QED
  BY <1>5, <1>6, <1>7, <1>8, <1>9

LEMMA EntryParts ==
  ASSUME NEW c \in Seq(Entries), NEW i \in DOMAIN c
  PROVE  /\ i \in 1..Len(c) /\ i \in Nat /\ i # 0 /\ Len(c) \in Nat
         /\ c[i] \in Entries /\ c[i] \in EntryType
         /\ c[i].calls \in Seq(CallType) /\ c[i].call \in Nat /\ c[i].kind \in Kinds
         /\ c[i].binary \in BOOLEAN
         /\ (IsAssistant(c[i]) \/ c[i].calls = <<>>)
         /\ (c[i].binary => IsUser(c[i]) \/ IsTool(c[i]))
<1>1. i \in 1..Len(c) /\ i \in Nat /\ i # 0 /\ Len(c) \in Nat /\ c[i] \in Entries
  OBVIOUS
<1> QED
  BY <1>1 DEF Entries, EntryType

\* What a conversation keeps of another's calls, results and attachments.
Keeps(d, c) ==
  /\ CalledIds(d) \subseteq CalledIds(c) /\ AnsweredIds(d) \subseteq AnsweredIds(c)
  /\ CallsOnce(c) => CallsOnce(d)
  /\ CallsOnce(c) /\ AnswersOnce(c) => AnswersOnce(d)
  /\ HasBinary(d) => HasBinary(c)

LEMMA FromKeeps ==
  ASSUME NEW c \in Seq(Entries), NEW d \in Seq(Entries), From(d, c)
  PROVE  Keeps(d, c)
<1>1. PICK g : Traces(g, d, c)
  BY DEF From
<1>2. ASSUME NEW i \in DOMAIN d
      PROVE  \/ Plain(d[i]) /\ g[i] = 0
             \/ g[i] \in DOMAIN c /\ Like(d[i], c[g[i]]) /\ g[i] # 0
  <2>1. g[i] \in 0..Len(c) /\ Len(c) \in Nat
    BY <1>1 DEF Traces
  <2>2. g[i] # 0 => g[i] \in DOMAIN c
    BY <2>1
  <2> QED
    BY <1>1, <2>2 DEF Traces
<1>3. \A i, j \in DOMAIN d : g[i] = g[j] /\ g[i] # 0 => i = j
  BY <1>1 DEF Traces
<1>4. CalledIds(d) \subseteq CalledIds(c)
  <2> SUFFICES ASSUME NEW i \in DOMAIN d, NEW k \in DOMAIN d[i].calls
               PROVE  d[i].calls[k].id \in CalledIds(c)
    BY DEF CalledIds, CallIds
  <2>1. ~Plain(d[i])
    BY DEF Plain
  <2>2. g[i] \in DOMAIN c /\ d[i].calls = c[g[i]].calls
    BY <1>2, <2>1 DEF Like
  <2> QED
    BY <2>2 DEF CalledIds, CallIds
<1>5. AnsweredIds(d) \subseteq AnsweredIds(c)
  BY <1>2 DEF AnsweredIds, Plain, Like, IsTool
<1>6. ASSUME CallsOnce(c) PROVE CallsOnce(d)
  <2> SUFFICES ASSUME NEW i \in DOMAIN d, NEW j \in DOMAIN d,
                      NEW k \in DOMAIN d[i].calls, NEW l \in DOMAIN d[j].calls,
                      d[i].calls[k].id = d[j].calls[l].id
               PROVE  i = j /\ k = l
    BY DEF CallsOnce
  <2>1. ~Plain(d[i]) /\ ~Plain(d[j])
    BY DEF Plain
  <2>2. /\ g[i] \in DOMAIN c /\ d[i].calls = c[g[i]].calls /\ g[i] # 0
        /\ g[j] \in DOMAIN c /\ d[j].calls = c[g[j]].calls
    BY <1>2, <2>1 DEF Like
  <2>3. g[i] = g[j] /\ k = l
    BY <1>6, <2>2 DEF CallsOnce
  <2> QED
    BY <1>3, <2>2, <2>3
<1>7. ASSUME AnswersOnce(c) PROVE AnswersOnce(d)
  <2> SUFFICES ASSUME NEW i \in DOMAIN d, NEW j \in DOMAIN d,
                      IsTool(d[i]), IsTool(d[j]), d[i].call = d[j].call
               PROVE  i = j
    BY DEF AnswersOnce
  <2>1. /\ g[i] \in DOMAIN c /\ Like(d[i], c[g[i]]) /\ g[i] # 0
        /\ g[j] \in DOMAIN c /\ Like(d[j], c[g[j]])
    BY <1>2 DEF Plain
  <2>2. g[i] = g[j]
    BY <1>7, <2>1 DEF AnswersOnce, Like, IsTool
  <2> QED
    BY <1>3, <2>1, <2>2
<1>8. ASSUME HasBinary(d) PROVE HasBinary(c)
  <2>1. PICK i \in DOMAIN d : d[i].binary
    BY <1>8 DEF HasBinary
  <2>2. g[i] \in DOMAIN c /\ c[g[i]].binary
    BY <1>2, <2>1 DEF Plain, Like
  <2> QED
    BY <2>2 DEF HasBinary
<1> QED
  BY <1>4, <1>5, <1>6, <1>7, <1>8 DEF Keeps

LEMMA KeepsTrans ==
  ASSUME NEW b, NEW c, NEW d, Keeps(d, b), Keeps(b, c) PROVE Keeps(d, c)
BY DEF Keeps

LEMMA AppendKeeps ==
  ASSUME NEW c \in Seq(Entries), NEW e \in Entries, Plain(e)
  PROVE  Append(c, e) \in Seq(Entries) /\ Keeps(Append(c, e), c)
<1> DEFINE d == Append(c, e)
           g == [i \in 1..(Len(c) + 1) |-> IF i = Len(c) + 1 THEN 0 ELSE i]
<1>1. /\ d \in Seq(Entries) /\ DOMAIN d = 1..(Len(c) + 1) /\ Len(c) \in Nat
      /\ d[Len(c) + 1] = e
      /\ \A i \in 1..Len(c) : d[i] = c[i]
  OBVIOUS
<1>2. \A i \in 1..(Len(c) + 1) : i = Len(c) + 1 \/ i \in 1..Len(c)
  BY <1>1
<1> HIDE DEF d
<1>3. Traces(g, d, c)
  BY <1>1, <1>2 DEF Traces, Like
<1>4. From(d, c)
  BY <1>3 DEF From
<1> QED
  BY <1>1, <1>4, FromKeeps DEF d

LEMMA SelectKeeps ==
  ASSUME NEW c \in Seq(Entries), NEW kept
  PROVE  Select(c, kept) \in Seq(Entries) /\ Keeps(Select(c, kept), c)
<1> DEFINE d == Select(c, kept)
<1>0. PICK m \in 0..Len(c) : \E h :
         /\ Enumerates(h, m, kept, Len(c))
         /\ d \in Seq(Entries) /\ Len(d) = m
         /\ \A a \in 1..m : d[a] = c[h[a]]
  BY SelectIs
<1>1. PICK h : /\ m \in 0..Len(c) /\ Enumerates(h, m, kept, Len(c))
               /\ d \in Seq(Entries) /\ Len(d) = m
               /\ \A a \in 1..m : d[a] = c[h[a]]
  BY <1>0
<1> HIDE DEF d
<1>2. DOMAIN d = 1..m /\ m \in Nat /\ Len(c) \in Nat
  BY <1>1
<1>3. /\ \A a \in 1..m : h[a] \in 1..Len(c)
      /\ h \in [1..m -> 0..Len(c)]
      /\ \A a, b \in 1..m : a < b => h[a] < h[b]
  BY <1>1, <1>2 DEF Enumerates
<1>4. \A a, b \in 1..m : h[a] = h[b] => a = b
  <2> SUFFICES ASSUME NEW a \in 1..m, NEW b \in 1..m, h[a] = h[b], a # b PROVE FALSE
    OBVIOUS
  <2>1. h[a] \in Nat /\ (a < b \/ b < a)
    BY <1>2, <1>3
  <2> QED
    BY <1>3, <2>1
<1>5. Traces(h, d, c)
  BY <1>1, <1>2, <1>3, <1>4 DEF Traces, Like
<1>6. From(d, c)
  BY <1>5 DEF From
<1> QED
  BY <1>1, <1>6, FromKeeps DEF d

---------------------------------------------------------------------------
(* What the operations on a conversation keep of it.                       *)

LEMMA NoCalls == ASSUME NEW e, e.calls = <<>> PROVE CallIds(e) = {}
BY DEF CallIds

\* The entries of two conversations, one behind the other.
LEMMA JoinedEntries ==
  ASSUME NEW c \in Seq(Entries), NEW x \in Seq(Entries)
  PROVE  /\ c \o x \in Seq(Entries)
         /\ \A i \in DOMAIN c : i \in DOMAIN (c \o x) /\ (c \o x)[i] = c[i]
         /\ \A k \in DOMAIN x : Len(c) + k \in DOMAIN (c \o x) /\ (c \o x)[Len(c) + k] = x[k]
         /\ \A i \in DOMAIN (c \o x) :
              \/ i \in DOMAIN c /\ (c \o x)[i] = c[i]
              \/ \E k \in DOMAIN x : i = Len(c) + k /\ (c \o x)[i] = x[k]
<1> DEFINE d == c \o x
<1>1. /\ d \in Seq(Entries) /\ Len(d) = Len(c) + Len(x)
      /\ \A i \in 1..Len(c) : i \in 1..Len(d) /\ d[i] = c[i]
      /\ \A k \in 1..Len(x) : Len(c) + k \in 1..Len(d) /\ d[Len(c) + k] = x[k]
  BY Joined
<1>2. /\ DOMAIN c = 1..Len(c) /\ DOMAIN x = 1..Len(x) /\ DOMAIN d = 1..Len(d)
      /\ Len(c) \in Nat /\ Len(x) \in Nat
  BY <1>1
<1> HIDE DEF d
<1>3. ASSUME NEW i \in DOMAIN d
      PROVE  \/ i \in DOMAIN c /\ d[i] = c[i]
             \/ \E k \in DOMAIN x : i = Len(c) + k /\ d[i] = x[k]
  <2>1. i \in 1..Len(c) \/ (i - Len(c) \in 1..Len(x) /\ i = Len(c) + (i - Len(c)))
    BY <1>1, <1>2
  <2> QED
    BY <1>1, <1>2, <2>1
<1> QED
  BY <1>1, <1>2, <1>3 DEF d

LEMMA JoinedIds ==
  ASSUME NEW c \in Seq(Entries), NEW x \in Seq(Entries)
  PROVE  /\ CalledIds(c \o x) = CalledIds(c) \cup CalledIds(x)
         /\ AnsweredIds(c \o x) = AnsweredIds(c) \cup AnsweredIds(x)
         /\ HasBinary(c \o x) <=> HasBinary(c) \/ HasBinary(x)
<1> DEFINE d == c \o x
<1>1. /\ \A i \in DOMAIN c : i \in DOMAIN d /\ d[i] = c[i]
      /\ \A k \in DOMAIN x : Len(c) + k \in DOMAIN d /\ d[Len(c) + k] = x[k]
      /\ \A i \in DOMAIN d : \/ i \in DOMAIN c /\ d[i] = c[i]
                             \/ \E k \in DOMAIN x : i = Len(c) + k /\ d[i] = x[k]
  BY JoinedEntries
<1> HIDE DEF d
<1>2. CalledIds(d) = CalledIds(c) \cup CalledIds(x)
  BY <1>1 DEF CalledIds
<1>3. AnsweredIds(d) = AnsweredIds(c) \cup AnsweredIds(x)
  BY <1>1 DEF AnsweredIds
<1>4. HasBinary(d) <=> HasBinary(c) \/ HasBinary(x)
  BY <1>1 DEF HasBinary
<1> QED
  BY <1>2, <1>3, <1>4 DEF d

LEMMA JoinedOnce ==
  ASSUME NEW c \in Seq(Entries), NEW x \in Seq(Entries)
  PROVE  /\ CallsOnce(c) /\ CallsOnce(x) /\ CalledIds(c) \cap CalledIds(x) = {} =>
              CallsOnce(c \o x)
         /\ AnswersOnce(c) /\ AnswersOnce(x) /\ AnsweredIds(c) \cap AnsweredIds(x) = {} =>
              AnswersOnce(c \o x)
<1> DEFINE d == c \o x
<1>1. \A i \in DOMAIN d : \/ i \in DOMAIN c /\ d[i] = c[i]
                          \/ \E k \in DOMAIN x : i = Len(c) + k /\ d[i] = x[k]
  BY JoinedEntries
<1> HIDE DEF d
<1>2. ASSUME CallsOnce(c), CallsOnce(x), CalledIds(c) \cap CalledIds(x) = {}
      PROVE  CallsOnce(d)
  <2> SUFFICES ASSUME NEW i \in DOMAIN d, NEW j \in DOMAIN d,
                      NEW k \in DOMAIN d[i].calls, NEW l \in DOMAIN d[j].calls,
                      d[i].calls[k].id = d[j].calls[l].id
               PROVE  i = j /\ k = l
    BY DEF CallsOnce
  <2>1. /\ \A a \in DOMAIN c : \A n \in DOMAIN c[a].calls : c[a].calls[n].id \in CalledIds(c)
        /\ \A a \in DOMAIN x : \A n \in DOMAIN x[a].calls : x[a].calls[n].id \in CalledIds(x)
    BY DEF CalledIds, CallIds
  <2>2. CASE i \in DOMAIN c /\ d[i] = c[i] /\ j \in DOMAIN c /\ d[j] = c[j]
    BY <1>2, <2>2 DEF CallsOnce
  <2>3. CASE (\E a \in DOMAIN x : i = Len(c) + a /\ d[i] = x[a]) /\
             (\E a \in DOMAIN x : j = Len(c) + a /\ d[j] = x[a])
    BY <1>2, <2>3 DEF CallsOnce
  <2>4. CASE i \in DOMAIN c /\ d[i] = c[i] /\ (\E a \in DOMAIN x : d[j] = x[a])
    BY <1>2, <2>1, <2>4
  <2>5. CASE j \in DOMAIN c /\ d[j] = c[j] /\ (\E a \in DOMAIN x : d[i] = x[a])
    BY <1>2, <2>1, <2>5
  <2> QED
    BY <1>1, <2>2, <2>3, <2>4, <2>5
<1>3. ASSUME AnswersOnce(c), AnswersOnce(x), AnsweredIds(c) \cap AnsweredIds(x) = {}
      PROVE  AnswersOnce(d)
  <2> SUFFICES ASSUME NEW i \in DOMAIN d, NEW j \in DOMAIN d,
                      IsTool(d[i]), IsTool(d[j]), d[i].call = d[j].call
               PROVE  i = j
    BY DEF AnswersOnce
  <2>1. /\ \A a \in DOMAIN c : IsTool(c[a]) => c[a].call \in AnsweredIds(c)
        /\ \A a \in DOMAIN x : IsTool(x[a]) => x[a].call \in AnsweredIds(x)
    BY DEF AnsweredIds
  <2>2. CASE i \in DOMAIN c /\ d[i] = c[i] /\ j \in DOMAIN c /\ d[j] = c[j]
    BY <1>3, <2>2 DEF AnswersOnce
  <2>3. CASE (\E a \in DOMAIN x : i = Len(c) + a /\ d[i] = x[a]) /\
             (\E a \in DOMAIN x : j = Len(c) + a /\ d[j] = x[a])
    BY <1>3, <2>3 DEF AnswersOnce
  <2>4. CASE i \in DOMAIN c /\ d[i] = c[i] /\ (\E a \in DOMAIN x : d[j] = x[a])
    BY <1>3, <2>1, <2>4
  <2>5. CASE j \in DOMAIN c /\ d[j] = c[j] /\ (\E a \in DOMAIN x : d[i] = x[a])
    BY <1>3, <2>1, <2>5
  <2> QED
    BY <1>1, <2>2, <2>3, <2>4, <2>5
<1> QED
  BY <1>2, <1>3 DEF d

AllPlain(x) == \A k \in DOMAIN x : Plain(x[k])

LEMMA PlainIds ==
  ASSUME NEW x, AllPlain(x)
  PROVE  /\ CalledIds(x) = {} /\ AnsweredIds(x) = {} /\ ~HasBinary(x)
         /\ CallsOnce(x) /\ AnswersOnce(x)
<1>1. \A k \in DOMAIN x : x[k].calls = <<>> /\ ~IsTool(x[k]) /\ ~x[k].binary
  BY DEF AllPlain, Plain
<1>2. CalledIds(x) = {} /\ CallsOnce(x)
  BY <1>1, NoCalls DEF CalledIds, CallsOnce
<1>3. AnsweredIds(x) = {} /\ AnswersOnce(x)
  BY <1>1 DEF AnsweredIds, AnswersOnce
<1>4. ~HasBinary(x)
  BY <1>1 DEF HasBinary
<1> QED
  BY <1>2, <1>3, <1>4

\* Plain entries in front or behind add no call, result or attachment.
LEMMA PlainJoins ==
  ASSUME NEW c \in Seq(Entries), NEW x \in Seq(Entries), AllPlain(x)
  PROVE  /\ c \o x \in Seq(Entries) /\ Keeps(c \o x, c)
         /\ x \o c \in Seq(Entries) /\ Keeps(x \o c, c)
         /\ AnsweredIds(c \o x) = AnsweredIds(c)
<1>1. /\ CalledIds(x) = {} /\ AnsweredIds(x) = {} /\ ~HasBinary(x)
      /\ CallsOnce(x) /\ AnswersOnce(x)
  BY PlainIds
<1>2. /\ c \o x \in Seq(Entries)
      /\ CalledIds(c \o x) = CalledIds(c) \cup CalledIds(x)
      /\ AnsweredIds(c \o x) = AnsweredIds(c) \cup AnsweredIds(x)
      /\ HasBinary(c \o x) <=> HasBinary(c) \/ HasBinary(x)
      /\ CallsOnce(c) /\ CallsOnce(x) /\ CalledIds(c) \cap CalledIds(x) = {} =>
           CallsOnce(c \o x)
      /\ AnswersOnce(c) /\ AnswersOnce(x) /\ AnsweredIds(c) \cap AnsweredIds(x) = {} =>
           AnswersOnce(c \o x)
  BY JoinedEntries, JoinedIds, JoinedOnce
<1>3. /\ x \o c \in Seq(Entries)
      /\ CalledIds(x \o c) = CalledIds(x) \cup CalledIds(c)
      /\ AnsweredIds(x \o c) = AnsweredIds(x) \cup AnsweredIds(c)
      /\ HasBinary(x \o c) <=> HasBinary(x) \/ HasBinary(c)
      /\ CallsOnce(x) /\ CallsOnce(c) /\ CalledIds(x) \cap CalledIds(c) = {} =>
           CallsOnce(x \o c)
      /\ AnswersOnce(x) /\ AnswersOnce(c) /\ AnsweredIds(x) \cap AnsweredIds(c) = {} =>
           AnswersOnce(x \o c)
  BY JoinedEntries, JoinedIds, JoinedOnce
<1> HIDE DEF Keeps
<1>4. Keeps(c \o x, c)
  BY <1>1, <1>2 DEF Keeps
<1>5. Keeps(x \o c, c)
  BY <1>1, <1>3 DEF Keeps
<1> QED
  BY <1>1, <1>2, <1>3, <1>4, <1>5

---------------------------------------------------------------------------
(* Replies and reminders. *)

\* Every user entry has an assistant entry behind it.
Replied(c) == \A i \in DOMAIN c : IsUser(c[i]) => \E j \in i..Len(c) : IsAssistant(c[j])
NoUser(x) == \A k \in DOMAIN x : ~IsUser(x[k])
NoReminder(c) == \A i \in DOMAIN c : ~IsReminder(c[i])

LEMMA RepliedJoins ==
  ASSUME NEW c \in Seq(Entries), NEW x \in Seq(Entries), Replied(c), NoUser(x)
  PROVE  Replied(c \o x) /\ Replied(x \o c)
<1> /\ Len(c) \in Nat /\ DOMAIN c = 1..Len(c) /\ Len(x) \in Nat /\ DOMAIN x = 1..Len(x)
  OBVIOUS
<1>1. Replied(c \o x)
  <2> DEFINE d == c \o x
  <2>1. /\ \A i \in DOMAIN c : i \in DOMAIN d /\ d[i] = c[i]
        /\ \A i \in DOMAIN d : \/ i \in DOMAIN c /\ d[i] = c[i]
                               \/ \E k \in DOMAIN x : i = Len(c) + k /\ d[i] = x[k]
        /\ d \in Seq(Entries)
    BY JoinedEntries
  <2> HIDE DEF d
  <2> SUFFICES ASSUME NEW i \in DOMAIN d, IsUser(d[i])
               PROVE  \E j \in i..Len(d) : IsAssistant(d[j])
    BY DEF Replied, d
  <2>2. i \in DOMAIN c /\ d[i] = c[i]
    BY <2>1 DEF NoUser
  <2>3. PICK j \in i..Len(c) : IsAssistant(c[j])
    BY <2>2 DEF Replied
  <2>4. j \in DOMAIN c
    BY <2>2, <2>3
  <2>5. j \in DOMAIN d /\ d[j] = c[j] /\ DOMAIN d = 1..Len(d)
    BY <2>1, <2>4
  <2> QED
    BY <2>2, <2>3, <2>5
<1>2. Replied(x \o c)
  <2> DEFINE d == x \o c
  <2>1. /\ \A k \in DOMAIN c : Len(x) + k \in DOMAIN d /\ d[Len(x) + k] = c[k]
        /\ \A i \in DOMAIN d : \/ i \in DOMAIN x /\ d[i] = x[i]
                               \/ \E k \in DOMAIN c : i = Len(x) + k /\ d[i] = c[k]
        /\ d \in Seq(Entries)
    BY JoinedEntries
  <2> HIDE DEF d
  <2> SUFFICES ASSUME NEW i \in DOMAIN d, IsUser(d[i])
               PROVE  \E j \in i..Len(d) : IsAssistant(d[j])
    BY DEF Replied, d
  <2>2. PICK k \in DOMAIN c : i = Len(x) + k /\ d[i] = c[k]
    BY <2>1 DEF NoUser
  <2>3. PICK j \in k..Len(c) : IsAssistant(c[j])
    BY <2>2 DEF Replied
  <2>4. j \in DOMAIN c
    BY <2>2, <2>3
  <2>5. Len(x) + j \in DOMAIN d /\ d[Len(x) + j] = c[j] /\ DOMAIN d = 1..Len(d)
    BY <2>1, <2>4
  <2>6. Len(x) + j \in i..Len(d)
    BY <2>2, <2>3, <2>4, <2>5
  <2> QED
    BY <2>3, <2>5, <2>6
<1> QED
  BY <1>1, <1>2

\* An assistant entry with no user entry behind it.
LEMMA ReplyConcludes ==
  ASSUME NEW c, Len(c) \in Nat, DOMAIN c = 1..Len(c), NEW j \in DOMAIN c, IsAssistant(c[j]),
         \A i \in DOMAIN c : IsUser(c[i]) => i <= j
  PROVE  Replied(c)
<1> SUFFICES ASSUME NEW i \in DOMAIN c, IsUser(c[i]) PROVE \E k \in i..Len(c) : IsAssistant(c[k])
  BY DEF Replied
<1>1. j \in i..Len(c)
  OBVIOUS
<1> QED
  BY <1>1

\* A reply at the end, and entries behind it that are not of the user.
LEMMA ReplyAdded ==
  ASSUME NEW c \in Seq(Entries), NEW e \in Entries, IsAssistant(e),
         NEW x \in Seq(Entries), NoUser(x)
  PROVE  Replied(Append(c, e)) /\ Replied(c \o <<e>> \o x)
<1> DEFINE d == Append(c, e)
<1>1. /\ d \in Seq(Entries) /\ DOMAIN d = 1..(Len(c) + 1) /\ Len(d) = Len(c) + 1
      /\ Len(c) \in Nat /\ d[Len(c) + 1] = e /\ d = c \o <<e>>
  OBVIOUS
<1> HIDE DEF d
<1>2. /\ Len(d) \in Nat /\ DOMAIN d = 1..Len(d) /\ Len(c) + 1 \in DOMAIN d
      /\ \A i \in DOMAIN d : i <= Len(c) + 1
  BY <1>1
<1>3. Replied(d)
  BY <1>1, <1>2, ReplyConcludes
<1>4. Replied(d \o x)
  BY <1>1, <1>3, RepliedJoins
<1> QED
  BY <1>1, <1>3, <1>4 DEF d

\* What selecting entries keeps when it keeps the user's and the assistant's.
LEMMA RepliedSelect ==
  ASSUME NEW c \in Seq(Entries), NEW kept, Replied(c),
         \A i \in DOMAIN c : IsUser(c[i]) \/ IsAssistant(c[i]) => i \in kept
  PROVE  Replied(Select(c, kept))
<1> DEFINE d == Select(c, kept)
<1>1. PICK m \in 0..Len(c) : \E h :
         /\ Enumerates(h, m, kept, Len(c))
         /\ d \in Seq(Entries) /\ Len(d) = m
         /\ \A a \in 1..m : d[a] = c[h[a]]
  BY SelectIs
<1>2. PICK h : /\ Enumerates(h, m, kept, Len(c))
               /\ d \in Seq(Entries) /\ Len(d) = m
               /\ \A a \in 1..m : d[a] = c[h[a]]
  BY <1>1
<1> HIDE DEF d
<1>3. DOMAIN d = 1..m /\ m \in Nat /\ Len(c) \in Nat /\ DOMAIN c = 1..Len(c)
  BY <1>2
<1>4. /\ \A a \in 1..m : h[a] \in 1..Len(c)
      /\ \A a, b \in 1..m : a < b => h[a] < h[b]
      /\ \A i \in kept \cap 1..Len(c) : \E a \in 1..m : h[a] = i
  BY <1>2 DEF Enumerates
<1> SUFFICES ASSUME NEW a \in 1..m, IsUser(d[a]) PROVE \E b \in a..m : IsAssistant(d[b])
  BY <1>2, <1>3 DEF Replied, d
<1>5. h[a] \in DOMAIN c /\ IsUser(c[h[a]])
  BY <1>2, <1>3, <1>4
<1>6. PICK j \in h[a]..Len(c) : IsAssistant(c[j])
  BY <1>5 DEF Replied
<1>7. j \in 1..Len(c) /\ j \in kept /\ h[a] <= j
  BY <1>3, <1>4, <1>5, <1>6
<1>8. PICK b \in 1..m : h[b] = j
  BY <1>4, <1>7
<1>9. ~(b < a)
  <2> SUFFICES ASSUME b < a PROVE FALSE
    OBVIOUS
  <2>1. h[b] < h[a] /\ h[b] \in Nat /\ h[a] \in Nat
    BY <1>4
  <2> QED
    BY <1>7, <1>8, <2>1
<1>10. b \in a..m
  BY <1>9, <1>3
<1> QED
  BY <1>2, <1>6, <1>8, <1>10

LEMMA RemindersStripped ==
  ASSUME NEW c \in Seq(Entries)
  PROVE  /\ StripReminders(c) \in Seq(Entries) /\ Keeps(StripReminders(c), c)
         /\ NoReminder(StripReminders(c))
         /\ Replied(c) => Replied(StripReminders(c))
<1> DEFINE kept == {i \in DOMAIN c : ~IsReminder(c[i])}
           d == Select(c, kept)
<1>1. StripReminders(c) = d
  BY DEF StripReminders, Without
<1>2. d \in Seq(Entries) /\ Keeps(d, c)
  BY SelectKeeps
<1>3. NoReminder(d)
  <2>1. PICK m \in 0..Len(c) : \E h :
           /\ Enumerates(h, m, kept, Len(c))
           /\ d \in Seq(Entries) /\ Len(d) = m
           /\ \A a \in 1..m : d[a] = c[h[a]]
    <3> HIDE DEF kept
    <3> QED
      BY SelectIs
  <2>2. PICK h : /\ Enumerates(h, m, kept, Len(c))
                 /\ d \in Seq(Entries) /\ Len(d) = m
                 /\ \A a \in 1..m : d[a] = c[h[a]]
    BY <2>1
  <2> HIDE DEF d
  <2>3. DOMAIN d = 1..m
    BY <2>2
  <2>4. \A a \in 1..m : h[a] \in kept
    BY <2>2 DEF Enumerates
  <2> QED
    BY <2>2, <2>3, <2>4 DEF NoReminder
<1>4. \A i \in DOMAIN c : IsUser(c[i]) \/ IsAssistant(c[i]) => i \in kept
  BY DEF IsUser, IsAssistant, IsReminder
<1> HIDE DEF kept
<1>5. Replied(c) => Replied(d)
  BY <1>4, RepliedSelect
<1> QED
  BY <1>1, <1>2, <1>3, <1>5

---------------------------------------------------------------------------
(* Reminders, attachments, replies and summaries. *)

LEMMA ReminderRefreshed ==
  ASSUME NEW c \in Seq(Entries), NEW text \in Texts
  PROVE  RefreshReminder(c, text) \in Seq(Entries) /\ Keeps(RefreshReminder(c, text), c)
<1> DEFINE kept == {i \in DOMAIN c : ~(IsReminder(c[i]) /\ c[i].text = text)}
           d == Select(c, kept)
<1>1. RefreshReminder(c, text) = Append(d, Reminder(text))
  BY DEF RefreshReminder, Without
<1>2. d \in Seq(Entries) /\ Keeps(d, c)
  BY SelectKeeps
<1>3. Reminder(text) \in Entries /\ Plain(Reminder(text))
  BY EntryTypes
<1> HIDE DEF d
<1>4. Append(d, Reminder(text)) \in Seq(Entries) /\ Keeps(Append(d, Reminder(text)), d)
  BY <1>2, <1>3, AppendKeeps
<1> QED
  BY <1>1, <1>2, <1>4, KeepsTrans

LEMMA BinaryStripped ==
  ASSUME NEW c \in Seq(Entries)
  PROVE  /\ StripBinary(c) \in Seq(Entries) /\ Keeps(StripBinary(c), c)
         /\ ~HasBinary(StripBinary(c))
<1> DEFINE d == StripBinary(c)
           g == [i \in DOMAIN c |-> i]
<1>1. \A i \in DOMAIN c :
        /\ [c[i] EXCEPT !.binary = FALSE] \in Entries
        /\ Like([c[i] EXCEPT !.binary = FALSE], c[i])
        /\ [c[i] EXCEPT !.binary = FALSE].binary = FALSE
  <2> SUFFICES ASSUME NEW i \in DOMAIN c
               PROVE  /\ [c[i] EXCEPT !.binary = FALSE] \in Entries
                      /\ Like([c[i] EXCEPT !.binary = FALSE], c[i])
                      /\ [c[i] EXCEPT !.binary = FALSE].binary = FALSE
    OBVIOUS
  <2>1. c[i] \in EntryType /\ (IsAssistant(c[i]) \/ c[i].calls = <<>>)
    BY EntryParts
  <2> QED
    BY <2>1 DEF Entries, EntryType, Like, IsAssistant
<1>2. DOMAIN d = DOMAIN c /\ \A i \in DOMAIN c : d[i] = [c[i] EXCEPT !.binary = FALSE]
  BY DEF StripBinary
<1>3. d = [i \in 1..Len(c) |-> d[i]] /\ Len(c) \in Nat /\ \A i \in 1..Len(c) : d[i] \in Entries
  <2>1. DOMAIN c = 1..Len(c) /\ Len(c) \in Nat
    OBVIOUS
  <2>2. \A i \in 1..Len(c) : d[i] \in Entries
    BY <1>1, <1>2, <2>1
  <2>3. d = [i \in 1..Len(c) |-> d[i]]
    BY <2>1 DEF StripBinary
  <2> QED
    BY <2>1, <2>2, <2>3
<1> HIDE DEF d
<1>4. d \in Seq(Entries)
  BY <1>3
<1>5. Traces(g, d, c)
  <2>1. DOMAIN c = 1..Len(c) /\ g \in [DOMAIN d -> 0..Len(c)]
    BY <1>2, <1>3
  <2>2. \A i \in DOMAIN d : g[i] # 0 /\ Like(d[i], c[g[i]])
    BY <1>1, <1>2, <2>1
  <2>3. \A i, j \in DOMAIN d : g[i] = g[j] => i = j
    BY <1>2
  <2> QED
    BY <2>1, <2>2, <2>3 DEF Traces
<1>6. From(d, c)
  BY <1>5 DEF From
<1>7. ~HasBinary(d)
  BY <1>1, <1>2 DEF HasBinary
<1> QED
  BY <1>4, <1>6, <1>7, FromKeeps DEF d

LEMMA TailOf ==
  ASSUME NEW c \in Seq(Entries), NEW keep \in 1..(Len(c) + 1)
  PROVE  /\ SubSeq(c, keep, Len(c)) \in Seq(Entries)
         /\ Keeps(SubSeq(c, keep, Len(c)), c)
         /\ Replied(c) => Replied(SubSeq(c, keep, Len(c)))
<1> DEFINE d == SubSeq(c, keep, Len(c))
           g == [i \in 1..(Len(c) - keep + 1) |-> keep - 1 + i]
<1>1. Len(c) \in Nat /\ keep \in Nat /\ DOMAIN c = 1..Len(c)
  OBVIOUS
<1>2. \A i \in keep..Len(c) : c[i] \in Entries
  BY <1>1
<1>3. /\ d \in Seq(Entries) /\ Len(d) = Len(c) - keep + 1
      /\ \A i \in 1..(Len(c) - keep + 1) : d[i] = c[keep + i - 1]
  BY <1>1, <1>2, SubSeqProperties
<1> HIDE DEF d
<1>4. DOMAIN d = 1..(Len(c) - keep + 1)
  BY <1>3
<1>5. \A i \in DOMAIN d : keep - 1 + i \in 1..Len(c) /\ d[i] = c[keep - 1 + i]
  <2> SUFFICES ASSUME NEW i \in DOMAIN d
               PROVE  keep - 1 + i \in 1..Len(c) /\ d[i] = c[keep - 1 + i]
    OBVIOUS
  <2>1. i \in 1..(Len(c) - keep + 1) /\ keep + i - 1 = keep - 1 + i /\ keep - 1 + i \in 1..Len(c)
    BY <1>1, <1>4
  <2> QED
    BY <1>3, <2>1
<1>6. Traces(g, d, c)
  <2>1. g \in [DOMAIN d -> 0..Len(c)]
    BY <1>1, <1>4, <1>5
  <2>2. \A i \in DOMAIN d : g[i] # 0 /\ Like(d[i], c[g[i]])
    BY <1>1, <1>4, <1>5 DEF Like
  <2>3. \A i, j \in DOMAIN d : g[i] = g[j] => i = j
    BY <1>1, <1>4
  <2> QED
    BY <2>1, <2>2, <2>3 DEF Traces
<1>7. From(d, c)
  BY <1>6 DEF From
<1>8. ASSUME Replied(c) PROVE Replied(d)
  <2> SUFFICES ASSUME NEW i \in DOMAIN d, IsUser(d[i])
               PROVE  \E j \in i..Len(d) : IsAssistant(d[j])
    BY DEF Replied
  <2>1. keep - 1 + i \in DOMAIN c /\ IsUser(c[keep - 1 + i])
    BY <1>1, <1>5
  <2>2. PICK j \in (keep - 1 + i)..Len(c) : IsAssistant(c[j])
    BY <1>8, <2>1 DEF Replied
  <2>3. i \in Nat
    BY <1>1, <1>4
  <2>4. j - keep + 1 \in DOMAIN d /\ j - keep + 1 \in i..Len(d) /\ keep - 1 + (j - keep + 1) = j
    BY <1>1, <1>3, <1>4, <2>2, <2>3
  <2> QED
    BY <1>5, <2>2, <2>4
<1> QED
  BY <1>3, <1>7, <1>8, FromKeeps DEF d

LEMMA OnePlain ==
  ASSUME NEW e \in Entries
  PROVE  /\ <<e>> \in Seq(Entries)
         /\ Plain(e) => AllPlain(<<e>>)
         /\ ~IsUser(e) => NoUser(<<e>>)
BY DEF AllPlain, NoUser

LEMMA ContinuationPlain ==
  ASSUME NEW c \in Seq(Entries), NEW keep \in 1..(Len(c) + 1)
  PROVE  /\ ContinuationAfter(c, keep) \in Seq(Entries)
         /\ AllPlain(ContinuationAfter(c, keep)) /\ NoUser(ContinuationAfter(c, keep))
<1> DEFINE request == Seqs!SelectLastInSubSeq(c, 1, keep - 1, IsUser)
           earlier == Seqs!SelectLastInSeq(c, LAMBDA e : e.text = "continuation" /\ e.about # NoText)
           repeated == IF request # 0 THEN c[request].text
                       ELSE IF earlier # 0 THEN c[earlier].about ELSE NoText
<1>1. Len(c) \in Nat /\ keep \in Nat /\ keep - 1 \in Nat /\ keep - 1 <= Len(c) /\ DOMAIN c = 1..Len(c)
  OBVIOUS
<1>2. request = 0 \/ request \in DOMAIN c
  <2> DEFINE I == {i \in 1..(keep - 1) : IsUser(c[i])}
  <2>1. request = IF I # {} THEN Seqs!Max(I) ELSE 0
    BY DEF Seqs!SelectLastInSubSeq
  <2>2. I \subseteq 1..(keep - 1)
    OBVIOUS
  <2> HIDE DEF I, request, earlier, repeated
  <2>3. CASE I # {}
    <3>1. Seqs!Max(I) \in I
      BY <1>1, <2>2, <2>3, GreatestPosition
    <3>2. Seqs!Max(I) \in 1..(keep - 1)
      BY <2>2, <3>1
    <3>3. \A i \in 1..(keep - 1) : i \in 1..Len(c)
      BY <1>1
    <3> QED
      BY <1>1, <2>1, <2>3, <3>2, <3>3
  <2> QED
    BY <2>1, <2>3
<1>3. earlier = 0 \/ earlier \in DOMAIN c
  <2> DEFINE I == {i \in 1..Len(c) : c[i].text = "continuation" /\ c[i].about # NoText}
  <2>1. earlier = IF I # {} THEN Seqs!Max(I) ELSE 0
    BY DEF Seqs!SelectLastInSeq
  <2>2. I \subseteq 1..Len(c)
    OBVIOUS
  <2> HIDE DEF I, request, earlier, repeated
  <2>3. CASE I # {}
    <3>1. Seqs!Max(I) \in I
      BY <1>1, <2>2, <2>3, GreatestPosition
    <3> QED
      BY <1>1, <2>1, <2>2, <2>3, <3>1
  <2> QED
    BY <2>1, <2>3
<1>4. ContinuationAfter(c, keep) \in {<<>>, <<Continuation(repeated)>>}
  BY DEF ContinuationAfter
<1> HIDE DEF request, earlier
<1>5. repeated \in Texts
  <2>1. \A i \in DOMAIN c : c[i].text \in Texts /\ c[i].about \in Texts
    BY EntryParts DEF EntryType
  <2> QED
    BY <1>2, <1>3, <2>1 DEF NoText, Texts
<1> HIDE DEF repeated
<1>6. Continuation(repeated) \in Entries /\ Plain(Continuation(repeated))
  BY <1>5, EntryTypes
<1>7. ~IsUser(Continuation(repeated))
  BY DEF Continuation, Reminder, Entry, IsUser
<1>8. <<>> \in Seq(Entries) /\ AllPlain(<<>>) /\ NoUser(<<>>)
  BY DEF AllPlain, NoUser
<1>9. /\ <<Continuation(repeated)>> \in Seq(Entries) /\ AllPlain(<<Continuation(repeated)>>)
      /\ NoUser(<<Continuation(repeated)>>)
  BY <1>6, <1>7, OnePlain
<1> QED
  BY <1>4, <1>8, <1>9

LEMMA KeptRange ==
  ASSUME NEW c \in Seq(Entries), NEW keep \in KeepRecentFrom(c) \cup {KeepNothing(c)}
  PROVE  keep \in 1..(Len(c) + 1)
<1>1. Len(c) \in Nat
  OBVIOUS
<1>2. Prefix(c) \in {0, 1}
  BY DEF Prefix
<1>3. keep \in (Prefix(c) + 1)..Len(c) \/ keep = Len(c) + 1
  BY DEF KeepRecentFrom, KeepNothing, UserTurns
<1> QED
  BY <1>1, <1>2, <1>3

\* A summary replaces older history: what is kept is of the conversation.
LEMMA HistoryCompacted ==
  ASSUME NEW c \in Seq(Entries), NEW keep \in 1..(Len(c) + 1)
  PROVE  /\ Compacted(c, keep) \in Seq(Entries) /\ Keeps(Compacted(c, keep), c)
         /\ Replied(c) => Replied(Compacted(c, keep))
<1> DEFINE front == SubSeq(c, 1, Prefix(c))
           tail == SubSeq(c, keep, Len(c))
           kept == StripReminders(tail)
           last == ContinuationAfter(c, keep)
           both == (front \o <<Summary>>) \o kept
<1>1. front \in Seq(Entries) /\ AllPlain(front) /\ NoUser(front)
  <2>1. CASE Prefix(c) = 0
    <3>1. front = <<>>
      BY <2>1, SubSeqEmpty
    <3>2. <<>> \in Seq(Entries) /\ AllPlain(<<>>) /\ NoUser(<<>>)
      BY DEF AllPlain, NoUser
    <3> QED
      BY <3>1, <3>2
  <2>2. CASE Prefix(c) # 0
    <3>1. Prefix(c) = 1 /\ c # <<>> /\ c[1].kind = "system"
      BY <2>2 DEF Prefix
    <3>2. 1 \in DOMAIN c
      BY <3>1
    <3>3. c[1] \in Entries /\ c[1].calls = <<>> /\ ~c[1].binary /\ ~IsTool(c[1]) /\ ~IsUser(c[1])
      BY <3>1, <3>2, EntryParts DEF IsAssistant, IsTool, IsUser
    <3>4. \A i \in 1..1 : c[i] \in Entries
      BY <3>3
    <3>5. /\ front \in Seq(Entries) /\ Len(front) = 1
          /\ \A i \in 1..1 : front[i] = c[i]
      BY <3>1, <3>4, SubSeqProperties
    <3> HIDE DEF front
    <3>6. DOMAIN front = 1..1 /\ \A i \in DOMAIN front : front[i] = c[1]
      BY <3>5
    <3> QED
      BY <3>3, <3>5, <3>6 DEF AllPlain, Plain, NoUser
  <2> QED
    BY <2>1, <2>2
<1>2. Summary \in Entries /\ Plain(Summary) /\ ~IsUser(Summary)
  BY EntryTypes DEF Summary, Entry, IsUser
<1>3. <<Summary>> \in Seq(Entries) /\ AllPlain(<<Summary>>) /\ NoUser(<<Summary>>)
  BY <1>2, OnePlain
<1>4. /\ tail \in Seq(Entries) /\ Keeps(tail, c)
      /\ Replied(c) => Replied(tail)
  BY TailOf
<1>5. /\ last \in Seq(Entries) /\ AllPlain(last) /\ NoUser(last)
  BY ContinuationPlain
<1>6. Compacted(c, keep) = both \o last
  BY DEF Compacted
<1> HIDE DEF front, tail, last
<1>7. kept \in Seq(Entries) /\ Keeps(kept, tail) /\ (Replied(tail) => Replied(kept))
  BY <1>4, RemindersStripped
<1> HIDE DEF kept
<1>8. front \o <<Summary>> \in Seq(Entries) /\ AllPlain(front \o <<Summary>>) /\ NoUser(front \o <<Summary>>)
  <2> DEFINE s == <<Summary>>
             d == front \o s
  <2>1. /\ d \in Seq(Entries)
        /\ \A i \in DOMAIN d : \/ i \in DOMAIN front /\ d[i] = front[i]
                               \/ \E k \in DOMAIN s : i = Len(front) + k /\ d[i] = s[k]
    BY <1>1, <1>3, JoinedEntries
  <2> HIDE DEF d, s
  <2>2. AllPlain(s) /\ NoUser(s)
    BY <1>3 DEF s
  <2>3. AllPlain(d) /\ NoUser(d)
    BY <1>1, <2>1, <2>2 DEF AllPlain, NoUser
  <2> QED
    BY <2>1, <2>3 DEF d, s
<1>9. both \in Seq(Entries) /\ Keeps(both, kept) /\ (Replied(kept) => Replied(both))
  BY <1>7, <1>8, PlainJoins, RepliedJoins
<1> HIDE DEF both
<1>10. both \o last \in Seq(Entries) /\ Keeps(both \o last, both) /\ (Replied(both) => Replied(both \o last))
  BY <1>5, <1>9, PlainJoins, RepliedJoins
<1>11. Keeps(both, c)
  BY <1>4, <1>7, <1>9, KeepsTrans
<1>12. Keeps(both \o last, c)
  BY <1>10, <1>11, KeepsTrans
<1> QED
  BY <1>4, <1>6, <1>7, <1>9, <1>10, <1>12

\* A reply without calls, alone or joined to the one that was cut off.
LEMMA ReplyRecorded ==
  ASSUME NEW c \in Seq(Entries), NEW text \in Texts
  PROVE  /\ AddReply(c, text) \in Seq(Entries) /\ Keeps(AddReply(c, text), c)
         /\ Replied(AddReply(c, text)) /\ AnsweredIds(AddReply(c, text)) \subseteq AnsweredIds(c)
<1>1. CASE ~EndsCutOff(c)
  <2>1. Assistant(text) \in Entries /\ Plain(Assistant(text)) /\ IsAssistant(Assistant(text))
    BY EntryTypes DEF Assistant, Entry, IsAssistant
  <2>2. AddReply(c, text) = Append(c, Assistant(text))
    BY <1>1 DEF AddReply
  <2>3. Append(c, Assistant(text)) \in Seq(Entries) /\ Keeps(Append(c, Assistant(text)), c)
    BY <2>1, AppendKeeps
  <2>4. <<>> \in Seq(Entries) /\ NoUser(<<>>)
    BY DEF NoUser
  <2>5. Replied(Append(c, Assistant(text)))
    BY <2>1, <2>4, ReplyAdded
  <2> QED
    BY <2>2, <2>3, <2>5 DEF Keeps
<1>2. CASE EndsCutOff(c)
  <2> DEFINE cut == Len(c) - 1
             joined == IF text = "blank" THEN c[cut].text ELSE text
             front == SubSeq(c, 1, cut)
             d == [front EXCEPT ![cut].text = joined]
             g == [i \in 1..cut |-> i]
  <2>1. AddReply(c, text) = d
    BY <1>2 DEF AddReply
  <2>2. Len(c) \in Nat /\ cut \in Nat /\ cut \in 1..Len(c) /\ DOMAIN c = 1..Len(c) /\ IsAssistant(c[cut])
    BY <1>2 DEF EndsCutOff
  <2>3. \A i \in 1..cut : c[i] \in Entries /\ c[i] \in EntryType /\ i \in DOMAIN c
    <3> SUFFICES ASSUME NEW i \in 1..cut PROVE c[i] \in Entries /\ c[i] \in EntryType /\ i \in DOMAIN c
      OBVIOUS
    <3>1. i \in DOMAIN c
      BY <2>2
    <3> QED
      BY <3>1, EntryParts
  <2>4. front \in Seq(Entries) /\ Len(front) = cut /\ \A i \in 1..cut : front[i] = c[i]
    <3>1. \A i \in 1..cut : c[i] \in Entries
      BY <2>3
    <3> HIDE DEF cut
    <3> QED
      BY <2>2, <3>1, SubSeqProperties
  <2>5. joined \in Texts
    BY <2>2, <2>3 DEF EntryType
  <2> HIDE DEF cut, joined, front
  <2>6. DOMAIN front = 1..cut
    BY <2>4
  <2>7. [c[cut] EXCEPT !.text = joined] \in Entries /\ Like([c[cut] EXCEPT !.text = joined], c[cut])
        /\ IsAssistant([c[cut] EXCEPT !.text = joined])
    <3>1. c[cut] \in EntryType /\ IsAssistant(c[cut]) /\ (c[cut].binary => IsUser(c[cut]) \/ IsTool(c[cut]))
      BY <2>2, EntryParts
    <3> QED
      BY <2>5, <3>1 DEF Entries, EntryType, Like, IsAssistant, IsUser, IsTool
  <2>8. /\ DOMAIN d = 1..cut
        /\ \A i \in 1..cut : d[i] = IF i = cut THEN [c[cut] EXCEPT !.text = joined] ELSE c[i]
    BY <2>2, <2>4, <2>6
  <2>9. d = [i \in 1..cut |-> d[i]] /\ \A i \in 1..cut : d[i] \in Entries
    <3>1. d = [i \in 1..cut |-> d[i]]
      BY <2>6
    <3> QED
      BY <2>3, <2>7, <2>8, <3>1
  <2> HIDE DEF d
  <2>10. d \in Seq(Entries) /\ Len(d) = cut
    BY <2>2, <2>9
  <2>11. Traces(g, d, c)
    <3>1. g \in [DOMAIN d -> 0..Len(c)]
      BY <2>2, <2>8
    <3>2. \A i \in DOMAIN d : g[i] # 0 /\ Like(d[i], c[g[i]])
      <4> SUFFICES ASSUME NEW i \in 1..cut PROVE i # 0 /\ Like(d[i], c[i])
        BY <2>8
      <4>1. CASE i = cut
        <5>1. d[i] = [c[cut] EXCEPT !.text = joined]
          BY <2>8, <4>1
        <5> QED
          BY <2>7, <4>1, <5>1, <2>2
      <4>2. CASE i # cut
        <5>1. d[i] = c[i]
          BY <2>8, <4>2
        <5> QED
          BY <2>2, <5>1 DEF Like
      <4> QED
        BY <4>1, <4>2
    <3>3. \A i, j \in DOMAIN d : g[i] = g[j] => i = j
      BY <2>8
    <3> QED
      BY <3>1, <3>2, <3>3 DEF Traces
  <2>12. From(d, c)
    BY <2>11 DEF From
  <2>13. Keeps(d, c)
    BY <2>10, <2>12, FromKeeps
  <2>14. Replied(d)
    <3>1. cut \in DOMAIN d /\ IsAssistant(d[cut]) /\ \A i \in DOMAIN d : i <= cut
      BY <2>2, <2>7, <2>8
    <3> QED
      BY <2>2, <2>8, <2>10, <3>1, ReplyConcludes
  <2> QED
    BY <2>1, <2>10, <2>13, <2>14 DEF Keeps
<1> QED
  BY <1>1, <1>2

---------------------------------------------------------------------------
(* What a request is made of: Sanitize. *)

\* The calls of e are some of the calls of o, each once.
Subcalls(e, o) ==
  \E q \in [DOMAIN e.calls -> DOMAIN o.calls] :
    /\ \A k \in DOMAIN e.calls : e.calls[k] = o.calls[q[k]]
    /\ \A k, l \in DOMAIN e.calls : q[k] = q[l] => k = l

LEMMA CallsSelected ==
  ASSUME NEW e \in Entries, NEW ids
  PROVE  /\ OnlyCalls(e, ids) \in Entries /\ Subcalls(OnlyCalls(e, ids), e)
         /\ OnlyCalls(e, ids).kind = e.kind /\ OnlyCalls(e, ids).binary = e.binary
         /\ OnlyCalls(e, ids).calls \in Seq(CallType)
         /\ \A k \in DOMAIN OnlyCalls(e, ids).calls : OnlyCalls(e, ids).calls[k].id \in ids
<1> DEFINE kept == {k \in DOMAIN e.calls : e.calls[k].id \in ids}
           some == Select(e.calls, kept)
           o == OnlyCalls(e, ids)
<1>1. /\ e \in EntryType /\ e.calls \in Seq(CallType)
      /\ IsAssistant(e) \/ e.calls = <<>>
      /\ e.binary => IsUser(e) \/ IsTool(e)
  BY DEF Entries, EntryType
<1>2. o = [e EXCEPT !.calls = some]
  BY DEF OnlyCalls
<1>3. \A K : \E m \in 0..Len(e.calls) : \E h :
         /\ Enumerates(h, m, K, Len(e.calls))
         /\ Select(e.calls, K) \in Seq(CallType) /\ Len(Select(e.calls, K)) = m
         /\ \A a \in 1..m : Select(e.calls, K)[a] = e.calls[h[a]]
  BY <1>1, SelectIs, SMTT(30)
<1>4. PICK m \in 0..Len(e.calls) : \E h :
         /\ Enumerates(h, m, kept, Len(e.calls))
         /\ some \in Seq(CallType) /\ Len(some) = m
         /\ \A a \in 1..m : some[a] = e.calls[h[a]]
  BY <1>3
<1>5. PICK h : /\ Enumerates(h, m, kept, Len(e.calls))
               /\ some \in Seq(CallType) /\ Len(some) = m
               /\ \A a \in 1..m : some[a] = e.calls[h[a]]
  BY <1>4
<1> HIDE DEF some, o
<1>6. /\ DOMAIN some = 1..m /\ m \in Nat /\ Len(e.calls) \in Nat
      /\ DOMAIN e.calls = 1..Len(e.calls)
  BY <1>1, <1>5
<1>7. /\ h \in [1..m -> kept] /\ \A a \in 1..m : h[a] \in kept /\ h[a] \in 1..Len(e.calls)
      /\ \A a, b \in 1..m : a < b => h[a] < h[b]
  <2>1. h \in [1..m -> kept \cap 1..Len(e.calls)]
    BY <1>5 DEF Enumerates
  <2> QED
    BY <1>5, <2>1 DEF Enumerates
<1>8. \A a, b \in 1..m : h[a] = h[b] => a = b
  <2> SUFFICES ASSUME NEW a \in 1..m, NEW b \in 1..m, h[a] = h[b], a # b PROVE FALSE
    OBVIOUS
  <2>1. h[a] \in Nat /\ (a < b \/ b < a)
    BY <1>6, <1>7
  <2> QED
    BY <1>7, <2>1
<1>9. /\ o.calls = some /\ o.kind = e.kind /\ o.binary = e.binary
      /\ o \in EntryType
  BY <1>1, <1>2, <1>5 DEF EntryType
<1>10. e.calls = <<>> => some = <<>>
  BY <1>5, <1>6
<1>11. o \in Entries
  BY <1>1, <1>9, <1>10 DEF Entries, IsAssistant, IsUser, IsTool
<1>12. Subcalls(o, e)
  <2>1. h \in [DOMAIN o.calls -> DOMAIN e.calls]
    BY <1>6, <1>7, <1>9
  <2> QED
    BY <1>5, <1>6, <1>8, <1>9, <2>1, SMTT(30) DEF Subcalls
<1>13. \A k \in DOMAIN o.calls : o.calls[k].id \in ids
  BY <1>5, <1>6, <1>7, <1>9
<1> QED
  BY <1>5, <1>9, <1>11, <1>12, <1>13 DEF o

LEMMA ResultFound ==
  ASSUME NEW c \in Seq(Entries), NEW id \in AnsweredIds(c)
  PROVE  /\ \E i \in DOMAIN c : ResultOf(c, id) = c[i]
         /\ ResultOf(c, id) \in Entries
         /\ IsTool(ResultOf(c, id)) /\ ResultOf(c, id).call = id
<1> DEFINE I == {i \in 1..Len(c) : IsTool(c[i]) /\ c[i].call = id}
           n == IF I # {} THEN Seqs!Max(I) ELSE 0
<1>1. ResultOf(c, id) = c[n]
  BY DEF ResultOf, Seqs!SelectLastInSeq
<1>2. Len(c) \in Nat /\ DOMAIN c = 1..Len(c) /\ I \subseteq 1..Len(c)
  OBVIOUS
<1>3. I # {}
  BY <1>2 DEF AnsweredIds
<1>4. n \in I
  <2> HIDE DEF I
  <2>1. Seqs!Max(I) \in I
    BY <1>2, <1>3, GreatestPosition
  <2> QED
    BY <1>3, <2>1
<1> HIDE DEF n
<1>5. n \in DOMAIN c /\ IsTool(c[n]) /\ c[n].call = id
  BY <1>2, <1>4
<1> QED
  BY <1>1, <1>5

LEMMA ResultsFollow ==
  ASSUME NEW c \in Seq(Entries), NEW e \in Entries,
         \A k \in DOMAIN e.calls : e.calls[k].id \in AnsweredIds(c)
  PROVE  /\ WithResults(c, e) \in Seq(Entries)
         /\ Len(WithResults(c, e)) = 1 + Len(e.calls) /\ WithResults(c, e)[1] = e
         /\ \A k \in DOMAIN e.calls :
              k \in 1..Len(e.calls) /\ WithResults(c, e)[1 + k] = ResultOf(c, e.calls[k].id)
<1> DEFINE results == [k \in DOMAIN e.calls |-> ResultOf(c, e.calls[k].id)]
           d == <<e>> \o results
<1>1. e.calls \in Seq(CallType)
  BY DEF Entries, EntryType
<1>2. Len(e.calls) \in Nat /\ DOMAIN e.calls = 1..Len(e.calls)
  BY <1>1
<1>3. \A k \in 1..Len(e.calls) : ResultOf(c, e.calls[k].id) \in Entries
  BY <1>2, ResultFound
<1>4. results \in Seq(Entries) /\ Len(results) = Len(e.calls)
  <2>1. results = [k \in 1..Len(e.calls) |-> ResultOf(c, e.calls[k].id)]
    BY <1>2
  <2> QED
    BY <1>2, <1>3, <2>1
<1>5. \A k \in DOMAIN e.calls : results[k] = ResultOf(c, e.calls[k].id)
  OBVIOUS
<1>6. WithResults(c, e) = d
  BY DEF WithResults
<1> HIDE DEF results
<1>7. <<e>> \in Seq(Entries) /\ Len(<<e>>) = 1 /\ <<e>>[1] = e
  OBVIOUS
<1>8. /\ d \in Seq(Entries) /\ Len(d) = 1 + Len(results) /\ d[1] = e
      /\ \A k \in 1..Len(results) : d[1 + k] = results[k]
  <2>1. /\ d \in Seq(Entries) /\ Len(d) = Len(<<e>>) + Len(results)
        /\ \A i \in 1..Len(<<e>>) : d[i] = <<e>>[i]
        /\ \A k \in 1..Len(results) : d[Len(<<e>>) + k] = results[k]
    BY <1>4, <1>7, Joined
  <2> HIDE DEF d
  <2> QED
    BY <1>7, <2>1
<1> HIDE DEF d
<1> QED
  BY <1>2, <1>4, <1>5, <1>6, <1>8

\* S is made of m entries that are not results, each followed by the results of its
\* calls: entry[b] at position pos[b], the rest of c[from[b]].
Rebuilds(S, c, m, entry, pos, from) ==
  /\ m \in Nat
  /\ \A b \in 1..m :
       /\ entry[b] \in Entries /\ ~IsTool(entry[b]) /\ pos[b] \in Nat
       /\ \A k \in DOMAIN entry[b].calls : entry[b].calls[k].id \in PairedIds(c)
       /\ pos[b] \in DOMAIN S /\ S[pos[b]] = entry[b] /\ pos[b] # 0
       /\ \A k \in DOMAIN entry[b].calls :
            /\ pos[b] + k \in DOMAIN S /\ k \in Nat /\ k # 0
            /\ S[pos[b] + k] = ResultOf(c, entry[b].calls[k].id)
       /\ from[b] \in DOMAIN c /\ entry[b].binary = c[from[b]].binary
       /\ Subcalls(entry[b], c[from[b]])
  /\ \A b, d \in 1..m : from[b] = from[d] => b = d
  /\ \A i \in DOMAIN S : \E b \in 1..m :
       \/ i = pos[b] /\ S[i] = entry[b]
       \/ \E k \in DOMAIN entry[b].calls :
            i = pos[b] + k /\ S[i] = ResultOf(c, entry[b].calls[k].id)

LEMMA SanitizeRebuilds ==
  ASSUME NEW c \in Seq(Entries)
  PROVE  /\ Sanitize(c) \in Seq(Entries)
         /\ \E m, entry, pos, from : Rebuilds(Sanitize(c), c, m, entry, pos, from)
<1> DEFINE plain == {i \in DOMAIN c : ~IsTool(c[i])}
           others == Select(c, plain)
           ids == PairedIds(c)
           entry == [b \in 1..Len(others) |-> OnlyCalls(others[b], ids)]
           seqs == [b \in DOMAIN others |-> WithResults(c, OnlyCalls(others[b], ids))]
           S == Seqs!FlattenSeq(seqs)
<1>1. Sanitize(c) = S
  BY DEF Sanitize, Without
<1>2. PICK m \in 0..Len(c) : \E h :
         /\ Enumerates(h, m, plain, Len(c))
         /\ others \in Seq(Entries) /\ Len(others) = m
         /\ \A a \in 1..m : others[a] = c[h[a]]
  <2> HIDE DEF plain
  <2> QED
    BY SelectIs
<1>3. PICK h : /\ Enumerates(h, m, plain, Len(c))
               /\ others \in Seq(Entries) /\ Len(others) = m
               /\ \A a \in 1..m : others[a] = c[h[a]]
  BY <1>2
<1> HIDE DEF others
<1>4. DOMAIN others = 1..m /\ m \in Nat /\ Len(c) \in Nat /\ DOMAIN c = 1..Len(c)
  BY <1>3
<1>5. /\ \A b \in 1..m : h[b] \in plain /\ h[b] \in DOMAIN c
      /\ \A a, b \in 1..m : a < b => h[a] < h[b]
  BY <1>3, <1>4 DEF Enumerates
<1>6. \A a, b \in 1..m : h[a] = h[b] => a = b
  <2> SUFFICES ASSUME NEW a \in 1..m, NEW b \in 1..m, h[a] = h[b], a # b PROVE FALSE
    OBVIOUS
  <2>1. h[a] \in Nat /\ (a < b \/ b < a)
    BY <1>4, <1>5
  <2> QED
    BY <1>5, <2>1
<1>7. \A b \in 1..m : entry[b] = OnlyCalls(others[b], ids) /\ seqs[b] = WithResults(c, entry[b])
  BY <1>3, <1>4
<1> HIDE DEF entry, seqs, ids
<1>8. ASSUME NEW b \in 1..m
      PROVE  /\ entry[b] \in Entries /\ ~IsTool(entry[b]) /\ entry[b].calls \in Seq(CallType)
             /\ \A k \in DOMAIN entry[b].calls : entry[b].calls[k].id \in ids
             /\ entry[b].binary = c[h[b]].binary /\ Subcalls(entry[b], c[h[b]])
  <2>1. others[b] \in Entries /\ others[b] = c[h[b]] /\ ~IsTool(c[h[b]])
    BY <1>3, <1>4, <1>5
  <2>2. /\ entry[b] \in Entries /\ Subcalls(entry[b], others[b])
        /\ entry[b].kind = others[b].kind /\ entry[b].binary = others[b].binary
        /\ entry[b].calls \in Seq(CallType)
        /\ \A k \in DOMAIN entry[b].calls : entry[b].calls[k].id \in ids
    BY <1>7, <2>1, CallsSelected
  <2> QED
    BY <2>1, <2>2 DEF IsTool
<1>9. ids \subseteq AnsweredIds(c)
  BY DEF ids, PairedIds
<1>10. ASSUME NEW b \in 1..m
       PROVE  /\ seqs[b] \in Seq(Entries)
              /\ Len(seqs[b]) = 1 + Len(entry[b].calls) /\ seqs[b][1] = entry[b]
              /\ \A k \in DOMAIN entry[b].calls :
                   /\ k \in 1..Len(entry[b].calls)
                   /\ seqs[b][1 + k] = ResultOf(c, entry[b].calls[k].id)
  <2> DEFINE e == entry[b]
  <2>1. e \in Entries /\ \A k \in DOMAIN e.calls : e.calls[k].id \in AnsweredIds(c)
    BY <1>8, <1>9
  <2>2. seqs[b] = WithResults(c, e)
    BY <1>7
  <2> HIDE DEF e
  <2>3. /\ WithResults(c, e) \in Seq(Entries)
        /\ Len(WithResults(c, e)) = 1 + Len(e.calls) /\ WithResults(c, e)[1] = e
        /\ \A k \in DOMAIN e.calls :
             /\ k \in 1..Len(e.calls)
             /\ WithResults(c, e)[1 + k] = ResultOf(c, e.calls[k].id)
    BY <2>1, ResultsFollow
  <2> QED
    BY <2>2, <2>3 DEF e
<1>11. seqs \in Seq(Seq(Entries)) /\ Len(seqs) = m
  <2>1. seqs = [b \in 1..m |-> seqs[b]]
    BY <1>4 DEF seqs
  <2> QED
    BY <1>4, <1>10, <2>1
<1>12. S \in Seq(Entries) /\ \E start : Concatenates(S, start, seqs, Len(seqs))
  BY <1>11, FlattenIs
<1>13. PICK start : Concatenates(S, start, seqs, m)
  BY <1>11, <1>12
<1> HIDE DEF S
<1> DEFINE pos == [b \in 1..m |-> start[b] + 1]
<1>14. /\ \A b \in 1..m : start[b] \in Nat
       /\ \A b \in 1..m : \A k \in 1..Len(seqs[b]) :
            start[b] + k \in 1..Len(S) /\ S[start[b] + k] = seqs[b][k]
       /\ \A i \in 1..Len(S) : \E b \in 1..m : \E k \in 1..Len(seqs[b]) : i = start[b] + k
       /\ DOMAIN S = 1..Len(S)
  BY <1>4, <1>12, <1>13 DEF Concatenates
<1>15. \A b \in 1..m : pos[b] = start[b] + 1
  OBVIOUS
<1> HIDE DEF pos
<1>16. ASSUME NEW b \in 1..m
       PROVE  /\ pos[b] \in Nat /\ pos[b] \in DOMAIN S /\ S[pos[b]] = entry[b] /\ pos[b] # 0
              /\ \A k \in DOMAIN entry[b].calls :
                   /\ pos[b] + k \in DOMAIN S /\ k \in Nat /\ k # 0
                   /\ S[pos[b] + k] = ResultOf(c, entry[b].calls[k].id)
              /\ \A k \in 1..Len(seqs[b]) :
                   \/ start[b] + k = pos[b]
                   \/ \E l \in DOMAIN entry[b].calls : start[b] + k = pos[b] + l
  <2> DEFINE e == entry[b]
             w == seqs[b]
             s == start[b]
             p == pos[b]
  <2>1. /\ Len(e.calls) \in Nat /\ DOMAIN e.calls = 1..Len(e.calls)
        /\ Len(w) = 1 + Len(e.calls) /\ w[1] = e
        /\ \A k \in DOMAIN e.calls : w[1 + k] = ResultOf(c, e.calls[k].id)
    BY <1>8, <1>10
  <2>2. /\ s \in Nat /\ p = s + 1
        /\ \A k \in 1..Len(w) : s + k \in DOMAIN S /\ S[s + k] = w[k]
    BY <1>14, <1>15
  <2> HIDE DEF e, w, s, p
  <2>3. p \in Nat /\ p # 0 /\ 1 \in 1..Len(w)
    BY <2>1, <2>2
  <2>4. p \in DOMAIN S /\ S[p] = e
    BY <2>1, <2>2, <2>3
  <2>5. ASSUME NEW k \in DOMAIN e.calls
        PROVE  /\ p + k \in DOMAIN S /\ k \in Nat /\ k # 0
               /\ S[p + k] = ResultOf(c, e.calls[k].id)
    <3>1. 1 + k \in 1..Len(w) /\ k \in Nat /\ k # 0 /\ s + (1 + k) = p + k
      BY <2>1, <2>2, SMTT(30)
    <3> QED
      BY <2>1, <2>2, <3>1
  <2>6. ASSUME NEW k \in 1..Len(w)
        PROVE  s + k = p \/ \E l \in DOMAIN e.calls : s + k = p + l
    <3>1. k = 1 \/ (k - 1 \in DOMAIN e.calls /\ s + k = p + (k - 1))
      BY <2>1, <2>2
    <3> QED
      BY <2>2, <3>1
  <2> QED
    BY <2>3, <2>4, <2>5, <2>6 DEF e, w, s, p
<1>17. ASSUME NEW i \in DOMAIN S
       PROVE  \E b \in 1..m :
                \/ i = pos[b] /\ S[i] = entry[b]
                \/ \E k \in DOMAIN entry[b].calls :
                     i = pos[b] + k /\ S[i] = ResultOf(c, entry[b].calls[k].id)
  <2>1. PICK b \in 1..m : \E k \in 1..Len(seqs[b]) : i = start[b] + k
    BY <1>14
  <2>2. i = pos[b] \/ \E l \in DOMAIN entry[b].calls : i = pos[b] + l
    BY <1>16, <2>1
  <2> QED
    BY <1>16, <2>2
<1>18. Rebuilds(S, c, m, entry, pos, h)
  <2>1. \A b \in 1..m :
          /\ entry[b] \in Entries /\ ~IsTool(entry[b]) /\ pos[b] \in Nat
          /\ \A k \in DOMAIN entry[b].calls : entry[b].calls[k].id \in PairedIds(c)
          /\ pos[b] \in DOMAIN S /\ S[pos[b]] = entry[b] /\ pos[b] # 0
          /\ \A k \in DOMAIN entry[b].calls :
               /\ pos[b] + k \in DOMAIN S /\ k \in Nat /\ k # 0
               /\ S[pos[b] + k] = ResultOf(c, entry[b].calls[k].id)
          /\ h[b] \in DOMAIN c /\ entry[b].binary = c[h[b]].binary
          /\ Subcalls(entry[b], c[h[b]])
    BY <1>5, <1>8, <1>16 DEF ids
  <2> QED
    BY <1>4, <1>6, <1>17, <2>1 DEF Rebuilds
<1> QED
  BY <1>1, <1>12, <1>18 DEF S

\* Each call has its result behind it, in call order, and each result its call.
Matched(S) ==
  /\ \A i \in DOMAIN S : \A k \in DOMAIN S[i].calls :
       /\ i + k \in DOMAIN S
       /\ IsTool(S[i + k]) /\ S[i + k].call = S[i].calls[k].id
  /\ \A i \in DOMAIN S : IsTool(S[i]) =>
       \E j \in 1..(i - 1) : \E k \in DOMAIN S[j].calls :
         j + k = i /\ S[j].calls[k].id = S[i].call

(***************************************************************************)
(* Whatever the conversation holds, a sanitized one is what providers      *)
(* accept, and it has no other calls, results or attachments.              *)
(***************************************************************************)
LEMMA SanitizePairs ==
  ASSUME NEW c \in Seq(Entries)
  PROVE  /\ Sanitize(c) \in Seq(Entries) /\ Matched(Sanitize(c))
         /\ OpenCalls(Sanitize(c)) = {}
         /\ CalledIds(Sanitize(c)) \subseteq CalledIds(c)
         /\ AnsweredIds(Sanitize(c)) \subseteq AnsweredIds(c)
         /\ CallsOnce(c) => CallsOnce(Sanitize(c)) /\ AnswersOnce(Sanitize(c))
         /\ HasBinary(Sanitize(c)) => HasBinary(c)
<1> DEFINE S == Sanitize(c)
<1>1. S \in Seq(Entries) /\ \E m, entry, pos, from : Rebuilds(S, c, m, entry, pos, from)
  BY SanitizeRebuilds
<1>2. PICK m, entry, pos, from : Rebuilds(S, c, m, entry, pos, from)
  BY <1>1
<1> HIDE DEF S
<1>3. ASSUME NEW b \in 1..m
      PROVE  /\ entry[b] \in Entries /\ ~IsTool(entry[b]) /\ pos[b] \in Nat
             /\ \A k \in DOMAIN entry[b].calls : entry[b].calls[k].id \in PairedIds(c)
             /\ pos[b] \in DOMAIN S /\ S[pos[b]] = entry[b] /\ pos[b] # 0
             /\ \A k \in DOMAIN entry[b].calls :
                  /\ pos[b] + k \in DOMAIN S /\ k \in Nat /\ k # 0
                  /\ S[pos[b] + k] = ResultOf(c, entry[b].calls[k].id)
             /\ from[b] \in DOMAIN c /\ entry[b].binary = c[from[b]].binary
             /\ Subcalls(entry[b], c[from[b]])
  BY <1>2 DEF Rebuilds
<1>4. \A b, d \in 1..m : from[b] = from[d] => b = d
  BY <1>2 DEF Rebuilds
<1>5. PairedIds(c) \subseteq CalledIds(c) /\ PairedIds(c) \subseteq AnsweredIds(c)
  BY DEF PairedIds
<1>6. ASSUME NEW b \in 1..m, NEW k \in DOMAIN entry[b].calls
      PROVE  /\ ResultOf(c, entry[b].calls[k].id) \in Entries
             /\ IsTool(ResultOf(c, entry[b].calls[k].id))
             /\ ResultOf(c, entry[b].calls[k].id).call = entry[b].calls[k].id
             /\ ResultOf(c, entry[b].calls[k].id).calls = <<>>
             /\ \E i \in DOMAIN c : ResultOf(c, entry[b].calls[k].id) = c[i]
  <2> DEFINE id == entry[b].calls[k].id
  <2>1. id \in AnsweredIds(c)
    BY <1>3, <1>5
  <2> HIDE DEF id
  <2>2. /\ ResultOf(c, id) \in Entries /\ IsTool(ResultOf(c, id)) /\ ResultOf(c, id).call = id
        /\ \E i \in DOMAIN c : ResultOf(c, id) = c[i]
    BY <2>1, ResultFound
  <2>3. ResultOf(c, id).calls = <<>>
    BY <2>2 DEF Entries, IsTool, IsAssistant
  <2> QED
    BY <2>2, <2>3 DEF id
\* An entry of S is one of the m, or answers a call of one of them.
<1>7. ASSUME NEW i \in DOMAIN S
      PROVE  \E b \in 1..m :
               \/ i = pos[b] /\ S[i] = entry[b]
               \/ \E k \in DOMAIN entry[b].calls :
                    /\ i = pos[b] + k /\ S[i] = ResultOf(c, entry[b].calls[k].id)
                    /\ IsTool(S[i]) /\ S[i].calls = <<>> /\ S[i].call = entry[b].calls[k].id
                    /\ \E j \in DOMAIN c : S[i] = c[j]
  <2>1. PICK b \in 1..m :
          \/ i = pos[b] /\ S[i] = entry[b]
          \/ \E k \in DOMAIN entry[b].calls :
               i = pos[b] + k /\ S[i] = ResultOf(c, entry[b].calls[k].id)
    BY <1>2 DEF Rebuilds
  <2> QED
    BY <1>6, <2>1
<1>8. ASSUME NEW i \in DOMAIN S, NEW k \in DOMAIN S[i].calls
      PROVE  \E b \in 1..m : i = pos[b] /\ S[i] = entry[b] /\ k \in DOMAIN entry[b].calls
  BY <1>7
<1>9. ASSUME NEW i \in DOMAIN S, IsTool(S[i])
      PROVE  \E b \in 1..m : \E k \in DOMAIN entry[b].calls :
               i = pos[b] + k /\ S[i].call = entry[b].calls[k].id
                 /\ \E j \in DOMAIN c : S[i] = c[j]
  <2>1. \A b \in 1..m : ~IsTool(entry[b])
    BY <1>3
  <2> QED
    BY <1>7, <1>9, <2>1
<1>10. Matched(S)
  <2>1. ASSUME NEW i \in DOMAIN S, NEW k \in DOMAIN S[i].calls
        PROVE  i + k \in DOMAIN S /\ IsTool(S[i + k]) /\ S[i + k].call = S[i].calls[k].id
    <3>1. PICK b \in 1..m : i = pos[b] /\ S[i] = entry[b] /\ k \in DOMAIN entry[b].calls
      BY <1>8
    <3>2. pos[b] + k \in DOMAIN S /\ S[pos[b] + k] = ResultOf(c, entry[b].calls[k].id)
      BY <1>3, <3>1
    <3> QED
      BY <1>6, <3>1, <3>2
  <2>2. ASSUME NEW i \in DOMAIN S, IsTool(S[i])
        PROVE  \E j \in 1..(i - 1) : \E k \in DOMAIN S[j].calls :
                 j + k = i /\ S[j].calls[k].id = S[i].call
    <3>1. PICK b \in 1..m : \E k \in DOMAIN entry[b].calls :
                              i = pos[b] + k /\ S[i].call = entry[b].calls[k].id
      BY <1>9, <2>2
    <3>2. PICK k \in DOMAIN entry[b].calls : i = pos[b] + k /\ S[i].call = entry[b].calls[k].id
      BY <3>1
    <3>3. S[pos[b]] = entry[b] /\ pos[b] \in Nat /\ pos[b] # 0 /\ k \in Nat /\ k # 0
      BY <1>3, <3>2
    <3>4. pos[b] \in 1..(i - 1)
      BY <3>2, <3>3
    <3> QED
      BY <3>2, <3>3, <3>4
  <2> QED
    BY <2>1, <2>2 DEF Matched
<1>11. CalledIds(S) \subseteq AnsweredIds(S) /\ CalledIds(S) \subseteq CalledIds(c)
  <2> SUFFICES ASSUME NEW i \in DOMAIN S, NEW k \in DOMAIN S[i].calls
               PROVE  S[i].calls[k].id \in AnsweredIds(S) /\ S[i].calls[k].id \in CalledIds(c)
    BY DEF CalledIds, CallIds
  <2>1. i + k \in DOMAIN S /\ IsTool(S[i + k]) /\ S[i + k].call = S[i].calls[k].id
    BY <1>10 DEF Matched
  <2>2. PICK b \in 1..m : i = pos[b] /\ S[i] = entry[b] /\ k \in DOMAIN entry[b].calls
    BY <1>8
  <2>3. S[i].calls[k].id \in CalledIds(c)
    BY <1>3, <1>5, <2>2
  <2> QED
    BY <2>1, <2>3 DEF AnsweredIds
<1>12. OpenCalls(S) = {}
  BY <1>11 DEF OpenCalls
<1>13. AnsweredIds(S) \subseteq AnsweredIds(c)
  <2> SUFFICES ASSUME NEW i \in DOMAIN S, IsTool(S[i]) PROVE S[i].call \in AnsweredIds(c)
    BY DEF AnsweredIds
  <2>1. PICK j \in DOMAIN c : S[i] = c[j]
    BY <1>9
  <2> QED
    BY <2>1 DEF AnsweredIds
<1>14. ASSUME CallsOnce(c), NEW b \in 1..m, NEW d \in 1..m,
              NEW k \in DOMAIN entry[b].calls, NEW l \in DOMAIN entry[d].calls,
              entry[b].calls[k].id = entry[d].calls[l].id
       PROVE  b = d /\ k = l
  <2>1. from[b] \in DOMAIN c /\ Subcalls(entry[b], c[from[b]])
    BY <1>3
  <2>2. from[d] \in DOMAIN c /\ Subcalls(entry[d], c[from[d]])
    BY <1>3
  <2>3. PICK q \in [DOMAIN entry[b].calls -> DOMAIN c[from[b]].calls] :
          /\ \A n \in DOMAIN entry[b].calls : entry[b].calls[n] = c[from[b]].calls[q[n]]
          /\ \A n, o \in DOMAIN entry[b].calls : q[n] = q[o] => n = o
    BY <2>1 DEF Subcalls
  <2>4. PICK r \in [DOMAIN entry[d].calls -> DOMAIN c[from[d]].calls] :
          \A n \in DOMAIN entry[d].calls : entry[d].calls[n] = c[from[d]].calls[r[n]]
    BY <2>2 DEF Subcalls
  <2>5. /\ q[k] \in DOMAIN c[from[b]].calls /\ r[l] \in DOMAIN c[from[d]].calls
        /\ c[from[b]].calls[q[k]].id = c[from[d]].calls[r[l]].id
    BY <1>14, <2>3, <2>4
  <2>6. from[b] = from[d] /\ q[k] = r[l]
    BY <1>14, <2>1, <2>2, <2>5 DEF CallsOnce
  <2>7. b = d
    BY <1>4, <2>6
  <2>8. entry[b].calls[l] = c[from[b]].calls[r[l]] /\ l \in DOMAIN entry[b].calls
    BY <2>4, <2>6, <2>7
  <2>9. c[from[b]].calls[q[k]].id = c[from[b]].calls[q[l]].id /\ q[l] \in DOMAIN c[from[b]].calls
    BY <2>3, <2>8, <1>14, <2>7
  <2>10. q[k] = q[l]
    BY <1>14, <2>1, <2>5, <2>9 DEF CallsOnce
  <2> QED
    BY <2>3, <2>7, <2>8, <2>10
<1>15. ASSUME CallsOnce(c) PROVE CallsOnce(S) /\ AnswersOnce(S)
  <2>1. CallsOnce(S)
    <3> SUFFICES ASSUME NEW i \in DOMAIN S, NEW j \in DOMAIN S,
                        NEW k \in DOMAIN S[i].calls, NEW l \in DOMAIN S[j].calls,
                        S[i].calls[k].id = S[j].calls[l].id
                 PROVE  i = j /\ k = l
      BY DEF CallsOnce
    <3>1. PICK b \in 1..m : i = pos[b] /\ S[i] = entry[b] /\ k \in DOMAIN entry[b].calls
      BY <1>8
    <3>2. PICK d \in 1..m : j = pos[d] /\ S[j] = entry[d] /\ l \in DOMAIN entry[d].calls
      BY <1>8
    <3>3. entry[b].calls[k].id = entry[d].calls[l].id
      BY <3>1, <3>2
    <3>4. b = d /\ k = l
      BY <1>14, <1>15, <3>1, <3>2, <3>3
    <3> QED
      BY <3>1, <3>2, <3>4
  <2>2. AnswersOnce(S)
    <3> SUFFICES ASSUME NEW i \in DOMAIN S, NEW j \in DOMAIN S,
                        IsTool(S[i]), IsTool(S[j]), S[i].call = S[j].call
                 PROVE  i = j
      BY DEF AnswersOnce
    <3>1. PICK b \in 1..m : \E k \in DOMAIN entry[b].calls :
                              i = pos[b] + k /\ S[i].call = entry[b].calls[k].id
      BY <1>9
    <3>2. PICK k \in DOMAIN entry[b].calls : i = pos[b] + k /\ S[i].call = entry[b].calls[k].id
      BY <3>1
    <3>3. PICK d \in 1..m : \E n \in DOMAIN entry[d].calls :
                              j = pos[d] + n /\ S[j].call = entry[d].calls[n].id
      BY <1>9
    <3>4. PICK l \in DOMAIN entry[d].calls : j = pos[d] + l /\ S[j].call = entry[d].calls[l].id
      BY <3>3
    <3>5. b = d /\ k = l
      BY <1>14, <1>15, <3>2, <3>4
    <3> QED
      BY <3>2, <3>4, <3>5
  <2> QED
    BY <2>1, <2>2
<1>16. ASSUME HasBinary(S) PROVE HasBinary(c)
  <2>1. PICK i \in DOMAIN S : S[i].binary
    BY <1>16 DEF HasBinary
  <2>2. \E j \in DOMAIN c : S[i].binary = c[j].binary
    <3>1. PICK b \in 1..m : \/ i = pos[b] /\ S[i] = entry[b]
                            \/ \E j \in DOMAIN c : S[i] = c[j]
      BY <1>7
    <3>2. from[b] \in DOMAIN c /\ entry[b].binary = c[from[b]].binary
      BY <1>3
    <3> QED
      BY <3>1, <3>2
  <2> QED
    BY <2>1, <2>2 DEF HasBinary
<1> QED
  BY <1>1, <1>10, <1>11, <1>12, <1>13, <1>15, <1>16 DEF S

---------------------------------------------------------------------------
(* What the calls of a response and their batches are. *)

\* New calls get the ids from nextId on, in order.
LEMMA NewCallsInOrder ==
  ASSUME nextId \in Nat, NEW tools \in ToolChoices
  PROVE  /\ NewCalls(tools) \in Seq(CallType)
         /\ Len(NewCalls(tools)) \in Nat
         /\ \A i \in DOMAIN NewCalls(tools) :
              i \in 1..Len(NewCalls(tools)) /\ NewCalls(tools)[i].id = nextId + i - 1
<1>1. PICK n \in 1..MaxCalls : tools \in [1..n -> Tools]
  BY DEF ToolChoices
<1>2. n \in Nat
  BY <1>1, BoundAssumption
<1>3. NewCalls(tools) \in [1..n -> CallType]
  BY <1>1, <1>2 DEF NewCalls, CallType
<1>4. NewCalls(tools) \in Seq(CallType) /\ Len(NewCalls(tools)) = n
  BY <1>2, <1>3
<1> QED
  BY <1>1, <1>2, <1>3, <1>4 DEF NewCalls

\* The calls of a batch are in front of those that wait behind it.
LEMMA BatchesSplit ==
  ASSUME todo \in Seq(CallType), NEW n \in DOMAIN todo
  PROVE  /\ SubSeq(todo, 1, n) \in Seq(CallType)
         /\ DOMAIN SubSeq(todo, 1, n) = 1..n
         /\ \A i \in 1..n : SubSeq(todo, 1, n)[i] = todo[i]
         /\ LaterBatches(todo, n) \in Seq(CallType)
         /\ \A i \in DOMAIN LaterBatches(todo, n) :
              n + i \in DOMAIN todo /\ LaterBatches(todo, n)[i] = todo[n + i]
<1>1. n \in 1..Len(todo) /\ Len(todo) \in Nat
  OBVIOUS
<1>2. \A i \in 1..n : todo[i] \in CallType
  BY <1>1
<1>3. /\ SubSeq(todo, 1, n) \in Seq(CallType) /\ Len(SubSeq(todo, 1, n)) = n
      /\ \A i \in 1..n : SubSeq(todo, 1, n)[i] = todo[i]
  BY <1>1, <1>2, SubSeqProperties
<1>4. \A i \in (n + 1)..Len(todo) : todo[i] \in CallType
  BY <1>1
<1>5. /\ LaterBatches(todo, n) \in Seq(CallType)
      /\ Len(LaterBatches(todo, n)) = Len(todo) - n
      /\ \A i \in 1..(Len(todo) - n) : LaterBatches(todo, n)[i] = todo[n + i]
  <2>1. /\ LaterBatches(todo, n) \in Seq(CallType)
        /\ Len(LaterBatches(todo, n)) =
             IF n + 1 <= Len(todo) THEN Len(todo) - (n + 1) + 1 ELSE 0
        /\ \A i \in 1..(Len(todo) - (n + 1) + 1) : LaterBatches(todo, n)[i] = todo[n + 1 + i - 1]
    BY <1>1, <1>4, SubSeqProperties DEF LaterBatches
  <2> QED
    BY <1>1, <2>1
<1> QED
  BY <1>1, <1>3, <1>5

---------------------------------------------------------------------------
(* What each action makes of the conversation.                             *)

ConvTypeOK == conv \in Seq(Entries)

LEMMA InputTaken ==
  ASSUME ConvTypeOK, StartWithInput
  PROVE  /\ ConvTypeOK' /\ CalledIds(conv') = CalledIds(conv)
         /\ AnsweredIds(conv') = AnsweredIds(conv)
         /\ CallsOnce(conv) => CallsOnce(conv')
         /\ AnswersOnce(conv) => AnswersOnce(conv')
<1>1. PICK input \in Inputs : Begin(input)
  BY DEF StartWithInput
<1>2. input = <<Note("context"), User("ask", TRUE)>> \/ input = <<User("ask", FALSE)>>
  BY DEF Inputs
<1>3. "ask" \in Texts /\ "context" \in Texts
  BY DEF Texts
<1>4. User("ask", TRUE) \in Entries /\ User("ask", FALSE) \in Entries /\ Note("context") \in Entries
  BY <1>3, EntryTypes
<1>5. /\ ~IsTool(User("ask", TRUE)) /\ ~IsTool(User("ask", FALSE)) /\ ~IsTool(Note("context"))
      /\ User("ask", TRUE).calls = <<>> /\ User("ask", FALSE).calls = <<>>
      /\ Note("context").calls = <<>>
  BY DEF IsTool, User, Note, Entry
<1>6. input \in Seq(Entries) /\ \A i \in DOMAIN input : ~IsTool(input[i]) /\ input[i].calls = <<>>
  <2> DEFINE note == Note("context")
             bare == User("ask", FALSE)
             attached == User("ask", TRUE)
  <2>1. /\ note \in Entries /\ bare \in Entries /\ attached \in Entries
        /\ ~IsTool(note) /\ ~IsTool(bare) /\ ~IsTool(attached)
        /\ note.calls = <<>> /\ bare.calls = <<>> /\ attached.calls = <<>>
        /\ input = <<note, attached>> \/ input = <<bare>>
    BY <1>2, <1>4, <1>5
  <2> HIDE DEF note, bare, attached
  <2>2. CASE input = <<note, attached>>
    BY <2>1, <2>2
  <2>3. CASE input = <<bare>>
    BY <2>1, <2>3
  <2> QED
    BY <2>1, <2>2, <2>3
<1>7. CalledIds(input) = {} /\ AnsweredIds(input) = {} /\ CallsOnce(input) /\ AnswersOnce(input)
  BY <1>6, NoCalls DEF CalledIds, AnsweredIds, CallsOnce, AnswersOnce
<1>8. conv' = conv \o input
  BY <1>1 DEF Begin
<1>9. /\ conv' \in Seq(Entries)
      /\ CalledIds(conv') = CalledIds(conv) \cup CalledIds(input)
      /\ AnsweredIds(conv') = AnsweredIds(conv) \cup AnsweredIds(input)
      /\ CallsOnce(conv) /\ CallsOnce(input) /\ CalledIds(conv) \cap CalledIds(input) = {} =>
           CallsOnce(conv')
      /\ AnswersOnce(conv) /\ AnswersOnce(input) /\ AnsweredIds(conv) \cap AnsweredIds(input) = {} =>
           AnswersOnce(conv')
  BY <1>6, <1>8, JoinedEntries, JoinedIds, JoinedOnce DEF ConvTypeOK
<1> QED
  BY <1>7, <1>9 DEF ConvTypeOK

\* Results of these ids, one for each.
LEMMA ToolResults ==
  ASSUME NEW x \in Seq(Entries), \A i \in DOMAIN x : x[i].calls = <<>> /\ IsTool(x[i]),
         \A i, j \in DOMAIN x : x[i].call = x[j].call => i = j
  PROVE  /\ CalledIds(x) = {} /\ CallsOnce(x) /\ AnswersOnce(x)
         /\ AnsweredIds(x) = {x[i].call : i \in DOMAIN x}
BY NoCalls DEF CalledIds, AnsweredIds, CallsOnce, AnswersOnce

LEMMA AnswersGiven ==
  ASSUME nextId \in Nat, NEW ids
  PROVE  /\ Answers(ids) \in Seq(Entries) /\ AnsweredIds(Answers(ids)) \subseteq ids
         /\ \A id \in AnsweredIds(Answers(ids)) : id < nextId
         /\ CalledIds(Answers(ids)) = {} /\ CallsOnce(Answers(ids)) /\ AnswersOnce(Answers(ids))
<1> DEFINE all == [i \in 1..(nextId - 1) |-> ToolOutput(i, "answer", FALSE)]
           x == Answers(ids)
<1>1. "answer" \in Texts
  BY DEF Texts
<1>2. \A i \in Nat : /\ ToolOutput(i, "answer", FALSE) \in Entries
                     /\ IsTool(ToolOutput(i, "answer", FALSE))
                     /\ ToolOutput(i, "answer", FALSE).call = i
                     /\ ToolOutput(i, "answer", FALSE).calls = <<>>
  BY <1>1, EntryTypes DEF ToolOutput, Entry, IsTool
<1>3. all \in Seq(Entries)
  <2>1. CASE nextId = 0
    BY <1>2, <2>1
  <2>2. CASE nextId # 0
    <3> DEFINE n == nextId - 1
    <3>1. n \in Nat
      BY <2>2
    <3> HIDE DEF n
    <3>2. \A i \in Nat : ToolOutput(i, "answer", FALSE) \in Entries
      BY <1>2
    <3>3. [i \in 1..n |-> ToolOutput(i, "answer", FALSE)] \in Seq(Entries)
      <4> DEFINE given(i) == ToolOutput(i, "answer", FALSE)
      <4>1. \A i \in Nat : given(i) \in Entries
        BY <3>2
      <4> HIDE DEF given
      <4>2. [i \in 1..n |-> given(i)] \in Seq(Entries)
        BY <3>1, <4>1
      <4> QED
        BY <4>2 DEF given
    <3> QED
      BY <3>3 DEF n
  <2> QED
    BY <2>1, <2>2
<1>4. x = Select(all, ids)
  BY DEF Answers
<1>5. \A i \in DOMAIN all : i \in Nat /\ i < nextId /\ all[i] = ToolOutput(i, "answer", FALSE)
  OBVIOUS
<1> HIDE DEF all
<1>6. PICK m \in 0..Len(all) : \E h :
         /\ Enumerates(h, m, ids, Len(all))
         /\ Select(all, ids) \in Seq(Entries) /\ Len(Select(all, ids)) = m
         /\ \A a \in 1..m : Select(all, ids)[a] = all[h[a]]
  BY <1>3, SelectIs
<1> HIDE DEF x
<1>7. PICK h : /\ Enumerates(h, m, ids, Len(all))
               /\ x \in Seq(Entries) /\ Len(x) = m
               /\ \A a \in 1..m : x[a] = all[h[a]]
  BY <1>4, <1>6
<1>8. DOMAIN x = 1..m /\ m \in Nat /\ DOMAIN all = 1..Len(all) /\ Len(all) \in Nat
  BY <1>3, <1>7
<1>9. /\ \A a \in 1..m : h[a] \in ids /\ h[a] \in 1..Len(all)
      /\ \A a, b \in 1..m : a < b => h[a] < h[b]
  BY <1>7, <1>8 DEF Enumerates
<1>10. \A a \in DOMAIN x : /\ h[a] \in ids /\ h[a] \in Nat /\ h[a] < nextId
                           /\ IsTool(x[a]) /\ x[a].call = h[a] /\ x[a].calls = <<>>
  <2> SUFFICES ASSUME NEW a \in DOMAIN x
               PROVE  /\ h[a] \in ids /\ h[a] \in Nat /\ h[a] < nextId
                      /\ IsTool(x[a]) /\ x[a].call = h[a] /\ x[a].calls = <<>>
    OBVIOUS
  <2>1. h[a] \in ids /\ h[a] \in DOMAIN all /\ x[a] = all[h[a]]
    BY <1>7, <1>8, <1>9
  <2>2. h[a] \in Nat /\ h[a] < nextId /\ x[a] = ToolOutput(h[a], "answer", FALSE)
    BY <1>5, <2>1
  <2> QED
    BY <1>2, <2>1, <2>2
<1>11. \A a, b \in DOMAIN x : x[a].call = x[b].call => a = b
  <2> SUFFICES ASSUME NEW a \in DOMAIN x, NEW b \in DOMAIN x, h[a] = h[b], a # b PROVE FALSE
    BY <1>10
  <2>1. a \in 1..m /\ b \in 1..m /\ (a < b \/ b < a)
    BY <1>8
  <2>2. h[a] < h[b] \/ h[b] < h[a]
    BY <1>9, <2>1
  <2> QED
    BY <1>10, <2>2
<1>12. /\ CalledIds(x) = {} /\ CallsOnce(x) /\ AnswersOnce(x)
       /\ AnsweredIds(x) = {x[i].call : i \in DOMAIN x}
  BY <1>7, <1>10, <1>11, ToolResults
<1>13. AnsweredIds(x) \subseteq ids /\ \A id \in AnsweredIds(x) : id < nextId
  BY <1>10, <1>12
<1> QED
  BY <1>7, <1>12, <1>13 DEF x

LEMMA ResumedWithAnswers ==
  ASSUME ConvTypeOK, nextId \in Nat, StartResumed
  PROVE  /\ ConvTypeOK' /\ CalledIds(conv') = CalledIds(conv)
         /\ \A id \in AnsweredIds(conv') : id \in AnsweredIds(conv) \/ id < nextId
         /\ AnsweredIds(conv') \subseteq AnsweredIds(conv) \cup OpenCalls(conv)
         /\ CallsOnce(conv) => CallsOnce(conv')
         /\ AnswersOnce(conv) => AnswersOnce(conv')
<1> DEFINE x == Answers(OpenCalls(conv))
<1>1. conv' = conv \o x
  BY DEF StartResumed, Begin
<1>2. /\ x \in Seq(Entries) /\ AnsweredIds(x) \subseteq OpenCalls(conv)
      /\ \A id \in AnsweredIds(x) : id < nextId
      /\ CalledIds(x) = {} /\ CallsOnce(x) /\ AnswersOnce(x)
  BY AnswersGiven
<1> HIDE DEF x
<1>3. AnsweredIds(conv) \cap AnsweredIds(x) = {}
  BY <1>2 DEF OpenCalls
<1>4. /\ conv' \in Seq(Entries)
      /\ CalledIds(conv') = CalledIds(conv) \cup CalledIds(x)
      /\ AnsweredIds(conv') = AnsweredIds(conv) \cup AnsweredIds(x)
      /\ CallsOnce(conv) /\ CallsOnce(x) /\ CalledIds(conv) \cap CalledIds(x) = {} =>
           CallsOnce(conv')
      /\ AnswersOnce(conv) /\ AnswersOnce(x) /\ AnsweredIds(conv) \cap AnsweredIds(x) = {} =>
           AnswersOnce(conv')
  BY <1>1, <1>2, JoinedEntries, JoinedIds, JoinedOnce DEF ConvTypeOK
<1> QED
  BY <1>2, <1>3, <1>4 DEF ConvTypeOK

LEMMA RequestPrepared ==
  ASSUME ConvTypeOK, SendRequest
  PROVE  /\ ConvTypeOK' /\ Matched(conv') /\ OpenCalls(conv') = {} /\ Keeps(conv', conv)
<1>1. PICK quiet \in May("silence") : conv' = Sanitize(WithReminders(WithWarning(conv), quiet))
  BY DEF SendRequest
<1> DEFINE warned == WithWarning(conv)
           periodic == IF PeriodicDue THEN RefreshReminder(warned, "periodic") ELSE warned
           asked == WithReminders(warned, quiet)
<1>2. /\ "warning" \in Texts /\ "periodic" \in Texts /\ "update" \in Texts
  BY DEF Texts
<1>3. warned \in Seq(Entries) /\ Keeps(warned, conv)
  <2>1. User("warning", FALSE) \in Entries /\ Plain(User("warning", FALSE))
    BY <1>2, EntryTypes
  <2>2. conv \in Seq(Entries) /\ Keeps(conv, conv)
    BY DEF ConvTypeOK, Keeps
  <2>3. /\ Append(conv, User("warning", FALSE)) \in Seq(Entries)
        /\ Keeps(Append(conv, User("warning", FALSE)), conv)
    BY <2>1, <2>2, AppendKeeps
  <2> QED
    BY <2>2, <2>3 DEF WithWarning
<1>4. asked = IF quiet THEN RefreshReminder(periodic, "update") ELSE periodic
  BY DEF WithReminders
<1> HIDE DEF warned
<1>5. periodic \in Seq(Entries) /\ Keeps(periodic, conv)
  <2>1. /\ RefreshReminder(warned, "periodic") \in Seq(Entries)
        /\ Keeps(RefreshReminder(warned, "periodic"), warned)
    BY <1>2, <1>3, ReminderRefreshed
  <2>2. Keeps(RefreshReminder(warned, "periodic"), conv)
    BY <1>3, <2>1, KeepsTrans
  <2> QED
    BY <1>3, <2>1, <2>2
<1> HIDE DEF periodic, asked
<1>6. asked \in Seq(Entries) /\ Keeps(asked, conv)
  <2>1. /\ RefreshReminder(periodic, "update") \in Seq(Entries)
        /\ Keeps(RefreshReminder(periodic, "update"), periodic)
    BY <1>2, <1>5, ReminderRefreshed
  <2>2. Keeps(RefreshReminder(periodic, "update"), conv)
    BY <1>5, <2>1, KeepsTrans
  <2> QED
    BY <1>4, <1>5, <2>1, <2>2
<1>7. /\ Sanitize(asked) \in Seq(Entries) /\ Matched(Sanitize(asked))
      /\ OpenCalls(Sanitize(asked)) = {}
      /\ CalledIds(Sanitize(asked)) \subseteq CalledIds(asked)
      /\ AnsweredIds(Sanitize(asked)) \subseteq AnsweredIds(asked)
      /\ CallsOnce(asked) => CallsOnce(Sanitize(asked)) /\ AnswersOnce(Sanitize(asked))
      /\ HasBinary(Sanitize(asked)) => HasBinary(asked)
  BY <1>6, SanitizePairs
<1>8. Keeps(Sanitize(asked), asked)
  BY <1>7 DEF Keeps
<1>9. Keeps(Sanitize(asked), conv)
  BY <1>6, <1>8, KeepsTrans
<1>10. conv' = Sanitize(asked)
  BY <1>1 DEF asked, warned
<1> QED
  BY <1>7, <1>9, <1>10 DEF ConvTypeOK

LEMMA OneEntry ==
  ASSUME NEW e \in Entries, ~IsTool(e),
         \A k, l \in DOMAIN e.calls : e.calls[k].id = e.calls[l].id => k = l
  PROVE  /\ <<e>> \in Seq(Entries) /\ CalledIds(<<e>>) = CallIds(e)
         /\ AnsweredIds(<<e>>) = {} /\ CallsOnce(<<e>>) /\ AnswersOnce(<<e>>)
         /\ ~e.binary => ~HasBinary(<<e>>)
<1> DEFINE x == <<e>>
<1>1. x \in Seq(Entries) /\ DOMAIN x = {1} /\ x[1] = e
  OBVIOUS
<1> HIDE DEF x
<1>2. CalledIds(x) = CallIds(e)
  BY <1>1 DEF CalledIds
<1>3. AnsweredIds(x) = {} /\ AnswersOnce(x) /\ CallsOnce(x) /\ (~e.binary => ~HasBinary(x))
  BY <1>1 DEF AnsweredIds, AnswersOnce, CallsOnce, HasBinary
<1> QED
  BY <1>1, <1>2, <1>3 DEF x

\* The ids of new calls.
FreshIds(tools) == {NewCalls(tools)[i].id : i \in DOMAIN NewCalls(tools)}

LEMMA FreshIdsAre ==
  ASSUME nextId \in Nat, NEW tools \in ToolChoices
  PROVE  /\ \A id \in FreshIds(tools) : id \in Nat /\ id >= nextId /\ id < nextId + Len(NewCalls(tools))
         /\ \A k, l \in DOMAIN NewCalls(tools) : NewCalls(tools)[k].id = NewCalls(tools)[l].id => k = l
<1> DEFINE calls == NewCalls(tools)
<1>1. /\ calls \in Seq(CallType) /\ Len(calls) \in Nat
      /\ \A i \in DOMAIN calls : i \in 1..Len(calls) /\ calls[i].id = nextId + i - 1
  BY NewCallsInOrder
<1> HIDE DEF calls
<1>2. \A i \in DOMAIN calls : i \in Nat /\ i >= 1 /\ i <= Len(calls) /\ calls[i].id = nextId + i - 1
  BY <1>1
<1>3. \A i \in DOMAIN calls : calls[i].id \in Nat /\ calls[i].id >= nextId /\ calls[i].id < nextId + Len(calls)
  BY <1>1, <1>2
<1>4. \A k, l \in DOMAIN calls : calls[k].id = calls[l].id => k = l
  BY <1>2
<1> QED
  BY <1>3, <1>4 DEF calls, FreshIds

\* The answer that makes new calls.
LEMMA CallsMade ==
  ASSUME ConvTypeOK, nextId \in Nat, \A id \in CalledIds(conv) : id < nextId,
         NEW text \in Texts, NEW tools \in ToolChoices
  PROVE  LET d == conv \o <<AssistantCalls(text, NewCalls(tools))>> IN
         /\ d \in Seq(Entries) /\ d = Append(conv, AssistantCalls(text, NewCalls(tools)))
         /\ CalledIds(d) = CalledIds(conv) \cup FreshIds(tools)
         /\ AnsweredIds(d) = AnsweredIds(conv)
         /\ CallsOnce(conv) => CallsOnce(d)
         /\ AnswersOnce(conv) => AnswersOnce(d)
         /\ HasBinary(d) => HasBinary(conv)
         /\ Replied(d)
<1> DEFINE calls == NewCalls(tools)
           e == AssistantCalls(text, calls)
           x == <<e>>
           d == conv \o x
<1>1. calls \in Seq(CallType)
  BY NewCallsInOrder
<1>2. e \in Entries
  BY <1>1, EntryTypes
<1>3. e.calls = calls /\ IsAssistant(e) /\ ~IsTool(e) /\ ~e.binary
  <2>1. e = Made("assistant", text, calls, 0, "none", FALSE)
    BY EntriesMade
  <2> QED
    BY <2>1 DEF Made, IsAssistant, IsTool
<1>4. \A k, l \in DOMAIN calls : calls[k].id = calls[l].id => k = l
  BY FreshIdsAre
<1>5. CallIds(e) = FreshIds(tools)
  BY <1>3 DEF CallIds, FreshIds
<1> HIDE DEF calls, e
<1>6. /\ x \in Seq(Entries) /\ CalledIds(x) = FreshIds(tools)
      /\ AnsweredIds(x) = {} /\ CallsOnce(x) /\ AnswersOnce(x) /\ ~HasBinary(x)
  BY <1>2, <1>3, <1>4, <1>5, OneEntry
<1>7. d = Append(conv, e) /\ conv \in Seq(Entries)
  BY <1>2 DEF ConvTypeOK
<1>8. <<>> \in Seq(Entries) /\ NoUser(<<>>)
  BY DEF NoUser
<1>9. Replied(d)
  BY <1>2, <1>3, <1>7, <1>8, ReplyAdded
<1> HIDE DEF x
<1>10. /\ d \in Seq(Entries)
       /\ CalledIds(d) = CalledIds(conv) \cup CalledIds(x)
       /\ AnsweredIds(d) = AnsweredIds(conv) \cup AnsweredIds(x)
       /\ HasBinary(d) <=> HasBinary(conv) \/ HasBinary(x)
       /\ CallsOnce(conv) /\ CallsOnce(x) /\ CalledIds(conv) \cap CalledIds(x) = {} =>
            CallsOnce(d)
       /\ AnswersOnce(conv) /\ AnswersOnce(x) /\ AnsweredIds(conv) \cap AnsweredIds(x) = {} =>
            AnswersOnce(d)
  BY <1>6, <1>7, JoinedEntries, JoinedIds, JoinedOnce
<1>11. CalledIds(conv) \cap FreshIds(tools) = {}
  <2> SUFFICES ASSUME NEW id \in CalledIds(conv), id \in FreshIds(tools) PROVE FALSE
    OBVIOUS
  <2>1. id < nextId /\ id >= nextId /\ id \in Nat
    BY FreshIdsAre
  <2> QED
    BY <2>1
<1> HIDE DEF d
<1>12. /\ d \in Seq(Entries) /\ d = Append(conv, e)
       /\ CalledIds(d) = CalledIds(conv) \cup FreshIds(tools)
       /\ AnsweredIds(d) = AnsweredIds(conv)
       /\ CallsOnce(conv) => CallsOnce(d)
       /\ AnswersOnce(conv) => AnswersOnce(d)
       /\ HasBinary(d) => HasBinary(conv)
       /\ Replied(d)
  BY <1>6, <1>7, <1>9, <1>10, <1>11
<1> QED
  BY <1>12 DEF d, x, e, calls

\* The results of calls, one for each.
ResultsFor(calls, text, binary) == [i \in DOMAIN calls |-> ToolOutput(calls[i].id, text, binary)]

LEMMA ResultsForCalls ==
  ASSUME NEW calls \in Seq(CallType), NEW text \in Texts, NEW binary \in BOOLEAN,
         \A k, l \in DOMAIN calls : calls[k].id = calls[l].id => k = l
  PROVE  LET x == ResultsFor(calls, text, binary) IN
         /\ x \in Seq(Entries)
         /\ CalledIds(x) = {} /\ CallsOnce(x) /\ AnswersOnce(x)
         /\ AnsweredIds(x) = {calls[i].id : i \in DOMAIN calls}
         /\ NoUser(x) /\ (binary = FALSE => ~HasBinary(x))
<1> DEFINE Given(i) == ToolOutput(i, text, binary)
           x == ResultsFor(calls, text, binary)
           n == Len(calls)
<1>1. n \in Nat /\ DOMAIN calls = 1..n
  OBVIOUS
<1>2. \A i \in DOMAIN calls : calls[i].id \in Nat
  <2>1. \A i \in DOMAIN calls : calls[i] \in CallType
    OBVIOUS
  <2> QED
    BY <2>1 DEF CallType
<1>3. \A i \in Nat : Given(i) \in Entries
  BY EntryTypes
<1>4. \A i : /\ IsTool(Given(i)) /\ Given(i).call = i /\ Given(i).calls = <<>>
             /\ (binary = FALSE => ~Given(i).binary) /\ ~IsUser(Given(i))
  BY DEF ToolOutput, Entry, IsTool, IsUser
<1>5. x = [i \in 1..n |-> Given(calls[i].id)]
  BY <1>1 DEF ResultsFor
<1> HIDE DEF Given, x, n
<1>6. /\ DOMAIN x = DOMAIN calls
      /\ \A i \in DOMAIN x : x[i] = Given(calls[i].id) /\ x[i] \in Entries
  BY <1>1, <1>2, <1>3, <1>5
<1>7. x \in Seq(Entries)
  <2>1. x = [i \in 1..n |-> x[i]] /\ \A i \in 1..n : x[i] \in Entries
    BY <1>1, <1>5, <1>6
  <2> QED
    BY <1>1, <2>1
<1>8. \A i \in DOMAIN x : /\ IsTool(x[i]) /\ x[i].call = calls[i].id /\ x[i].calls = <<>>
                         /\ (binary = FALSE => ~x[i].binary) /\ ~IsUser(x[i])
  BY <1>4, <1>6
<1>9. \A i, j \in DOMAIN x : x[i].call = x[j].call => i = j
  BY <1>6, <1>8
<1>10. /\ CalledIds(x) = {} /\ CallsOnce(x) /\ AnswersOnce(x)
       /\ AnsweredIds(x) = {x[i].call : i \in DOMAIN x}
  BY <1>7, <1>8, <1>9, ToolResults
<1>11. {x[i].call : i \in DOMAIN x} = {calls[i].id : i \in DOMAIN calls}
  BY <1>6, <1>8
<1>12. NoUser(x) /\ (binary = FALSE => ~HasBinary(x))
  BY <1>8 DEF HasBinary, NoUser
<1> QED
  BY <1>7, <1>10, <1>11, <1>12 DEF x

LEMMA CutOffCallsAnswered ==
  ASSUME ConvTypeOK, nextId \in Nat, \A id \in CalledIds(conv) \cup AnsweredIds(conv) : id < nextId,
         ModelCallsCutOff
  PROVE  /\ ConvTypeOK' /\ Replied(conv')
         /\ \E tools \in ToolChoices :
              /\ nextId' = nextId + Len(NewCalls(tools))
              /\ CalledIds(conv') = CalledIds(conv) \cup FreshIds(tools)
              /\ AnsweredIds(conv') = AnsweredIds(conv) \cup FreshIds(tools)
         /\ CallsOnce(conv) => CallsOnce(conv')
         /\ AnswersOnce(conv) => AnswersOnce(conv')
         /\ HasBinary(conv') => HasBinary(conv)
<1>1. PICK tools \in ToolChoices :
        /\ nextId' = nextId + Len(NewCalls(tools))
        /\ conv' = conv \o <<AssistantCalls("text", NewCalls(tools))>>
                     \o ResultsFor(NewCalls(tools), "unexecuted", FALSE) \o <<Reminder("resend")>>
  BY DEF ModelCallsCutOff, TurnEnds, ResultsFor
<1> DEFINE calls == NewCalls(tools)
           d == conv \o <<AssistantCalls("text", calls)>>
           unexecuted == ResultsFor(calls, "unexecuted", FALSE)
           answered == d \o unexecuted
           reminder == <<Reminder("resend")>>
<1>2. "text" \in Texts /\ "resend" \in Texts /\ "unexecuted" \in Texts
  BY DEF Texts
<1>3. /\ d \in Seq(Entries)
      /\ CalledIds(d) = CalledIds(conv) \cup FreshIds(tools)
      /\ AnsweredIds(d) = AnsweredIds(conv)
      /\ CallsOnce(conv) => CallsOnce(d)
      /\ AnswersOnce(conv) => AnswersOnce(d)
      /\ HasBinary(d) => HasBinary(conv)
      /\ Replied(d)
  BY <1>2, CallsMade
<1>4. /\ calls \in Seq(CallType) /\ FreshIds(tools) = {calls[i].id : i \in DOMAIN calls}
      /\ \A k, l \in DOMAIN calls : calls[k].id = calls[l].id => k = l
      /\ \A id \in FreshIds(tools) : id \in Nat /\ id >= nextId
  BY NewCallsInOrder, FreshIdsAre DEF FreshIds
<1>5. conv' = answered \o reminder
  BY <1>1
<1> HIDE DEF calls, d
<1>6. /\ unexecuted \in Seq(Entries)
      /\ CalledIds(unexecuted) = {} /\ CallsOnce(unexecuted) /\ AnswersOnce(unexecuted)
      /\ AnsweredIds(unexecuted) = FreshIds(tools)
      /\ ~HasBinary(unexecuted) /\ NoUser(unexecuted)
  BY <1>2, <1>4, ResultsForCalls
<1>7. AnsweredIds(conv) \cap FreshIds(tools) = {}
  <2> SUFFICES ASSUME NEW id \in AnsweredIds(conv), id \in FreshIds(tools) PROVE FALSE
    OBVIOUS
  <2>1. id < nextId /\ id >= nextId /\ id \in Nat
    BY <1>4
  <2> QED
    BY <2>1
<1> HIDE DEF unexecuted, answered, reminder
<1>8. /\ answered \in Seq(Entries) /\ Replied(answered)
      /\ CalledIds(answered) = CalledIds(conv) \cup FreshIds(tools)
      /\ AnsweredIds(answered) = AnsweredIds(conv) \cup FreshIds(tools)
      /\ CallsOnce(conv) => CallsOnce(answered)
      /\ AnswersOnce(conv) => AnswersOnce(answered)
      /\ HasBinary(answered) => HasBinary(conv)
  <2>1. /\ answered \in Seq(Entries)
        /\ CalledIds(answered) = CalledIds(d) \cup CalledIds(unexecuted)
        /\ AnsweredIds(answered) = AnsweredIds(d) \cup AnsweredIds(unexecuted)
        /\ HasBinary(answered) <=> HasBinary(d) \/ HasBinary(unexecuted)
        /\ CallsOnce(d) /\ CallsOnce(unexecuted) /\ CalledIds(d) \cap CalledIds(unexecuted) = {} =>
             CallsOnce(answered)
        /\ AnswersOnce(d) /\ AnswersOnce(unexecuted)
             /\ AnsweredIds(d) \cap AnsweredIds(unexecuted) = {} => AnswersOnce(answered)
    BY <1>3, <1>6, JoinedEntries, JoinedIds, JoinedOnce DEF answered
  <2>2. Replied(answered)
    BY <1>3, <1>6, RepliedJoins DEF answered
  <2> QED
    BY <1>3, <1>6, <1>7, <2>1, <2>2
<1>9. reminder \in Seq(Entries) /\ AllPlain(reminder) /\ NoUser(reminder)
  <2>1. Reminder("resend") \in Entries /\ Plain(Reminder("resend")) /\ ~IsUser(Reminder("resend"))
    BY <1>2, EntryTypes DEF Reminder, Entry, IsUser
  <2> QED
    BY <2>1, OnePlain DEF reminder
<1>10. /\ CalledIds(reminder) = {} /\ AnsweredIds(reminder) = {} /\ ~HasBinary(reminder)
       /\ CallsOnce(reminder) /\ AnswersOnce(reminder)
  BY <1>9, PlainIds
<1>11. /\ answered \o reminder \in Seq(Entries) /\ Replied(answered \o reminder)
       /\ CalledIds(answered \o reminder) = CalledIds(answered) \cup CalledIds(reminder)
       /\ AnsweredIds(answered \o reminder) = AnsweredIds(answered) \cup AnsweredIds(reminder)
       /\ HasBinary(answered \o reminder) <=> HasBinary(answered) \/ HasBinary(reminder)
       /\ CallsOnce(answered) => CallsOnce(answered \o reminder)
       /\ AnswersOnce(answered) => AnswersOnce(answered \o reminder)
  <2>1. answered \o reminder \in Seq(Entries) /\ Replied(answered \o reminder)
    BY <1>8, <1>9, JoinedEntries, RepliedJoins
  <2>2. /\ CalledIds(answered \o reminder) = CalledIds(answered) \cup CalledIds(reminder)
        /\ AnsweredIds(answered \o reminder) = AnsweredIds(answered) \cup AnsweredIds(reminder)
        /\ HasBinary(answered \o reminder) <=> HasBinary(answered) \/ HasBinary(reminder)
    BY <1>8, <1>9, JoinedIds
  <2>3. /\ CallsOnce(answered) => CallsOnce(answered \o reminder)
        /\ AnswersOnce(answered) => AnswersOnce(answered \o reminder)
    <3>1. /\ CalledIds(answered) \cap CalledIds(reminder) = {}
          /\ AnsweredIds(answered) \cap AnsweredIds(reminder) = {}
      BY <1>10
    <3> QED
      BY <1>8, <1>9, <1>10, <3>1, JoinedOnce
  <2> QED
    BY <2>1, <2>2, <2>3
<1>12. /\ CalledIds(conv') = CalledIds(conv) \cup FreshIds(tools)
       /\ AnsweredIds(conv') = AnsweredIds(conv) \cup FreshIds(tools)
  BY <1>5, <1>8, <1>10, <1>11
<1> QED
  BY <1>1, <1>5, <1>8, <1>10, <1>11, <1>12 DEF ConvTypeOK

LEMMA RepliesRecorded ==
  ASSUME ConvTypeOK, ModelReplies \/ ModelRepliesCutOff
  PROVE  ConvTypeOK' /\ Keeps(conv', conv) /\ Replied(conv')
<1>1. PICK text \in ReplyTexts :
        conv' = AddReply(conv, text) \/ conv' = Append(AddReply(conv, text), Reminder(ContinueNote))
  BY DEF ModelReplies, ModelRepliesCutOff, TurnEnds
<1>2. text \in Texts /\ ContinueNote \in Texts
  BY <1>1 DEF ReplyTexts, Texts, ContinueNote
<1> DEFINE d == AddReply(conv, text)
           e == Reminder(ContinueNote)
<1>3. d \in Seq(Entries) /\ Keeps(d, conv) /\ Replied(d)
  BY <1>2, ReplyRecorded DEF ConvTypeOK
<1>4. e \in Entries /\ Plain(e) /\ ~IsUser(e)
  BY <1>2, EntryTypes DEF Reminder, Entry, IsUser
<1>5. conv' = d \/ conv' = Append(d, e)
  BY <1>1
<1> HIDE DEF d, e
<1>6. Append(d, e) \in Seq(Entries) /\ Keeps(Append(d, e), conv)
  BY <1>3, <1>4, AppendKeeps, KeepsTrans
<1>7. Replied(Append(d, e))
  <2>1. Append(d, e) = d \o <<e>> /\ <<e>> \in Seq(Entries) /\ NoUser(<<e>>)
    BY <1>3, <1>4, OnePlain
  <2> QED
    BY <1>3, <2>1, RepliedJoins
<1> QED
  BY <1>3, <1>5, <1>6, <1>7 DEF ConvTypeOK

LEMMA HistoryKept ==
  ASSUME ConvTypeOK,
         \/ RequestCancelled \/ RecoverStripping \/ SummaryRecovers \/ CompactionEnds
         \/ ToolRoundEnds \/ Finish \/ ReportError
  PROVE  ConvTypeOK' /\ Keeps(conv', conv)
<1>1. conv \in Seq(Entries) /\ Keeps(conv, conv)
  BY DEF ConvTypeOK, Keeps
<1>2. /\ "partial" \in Texts /\ "working directory" \in Texts
      /\ "interrupted" \in Texts
  BY DEF Texts
<1>3. /\ Assistant("partial") \in Entries /\ Plain(Assistant("partial"))
      /\ Assistant("interrupted") \in Entries /\ Plain(Assistant("interrupted"))
      /\ Note("working directory") \in Entries /\ Plain(Note("working directory"))
  BY <1>2, EntryTypes
<1>4. \A e \in Entries : Plain(e) => Append(conv, e) \in Seq(Entries) /\ Keeps(Append(conv, e), conv)
  BY <1>1, AppendKeeps
<1>5. CASE RequestCancelled
  <2>1. conv' = Append(conv, Assistant("partial")) \/ conv' = conv
    BY <1>5 DEF RequestCancelled, TurnEnds
  <2> QED
    BY <1>1, <1>3, <1>4, <2>1 DEF ConvTypeOK
<1>6. CASE RecoverStripping
  BY <1>1, <1>6, BinaryStripped DEF RecoverStripping, ConvTypeOK
<1>7. CASE SummaryRecovers
  <2>1. PICK keep \in RecoveryKeeps : conv' = Compacted(conv, keep)
    BY <1>7 DEF SummaryRecovers
  <2>2. keep \in 1..(Len(conv) + 1)
    BY <1>1, <2>1, KeptRange DEF RecoveryKeeps
  <2> QED
    BY <1>1, <2>1, <2>2, HistoryCompacted DEF ConvTypeOK
<1>8. CASE CompactionEnds
  <2>1. CASE conv' = conv
    BY <1>1, <2>1 DEF ConvTypeOK
  <2>2. CASE \E keep \in KeepRecentFrom(conv) : conv' = Compacted(conv, keep)
    <3>1. PICK keep \in KeepRecentFrom(conv) : conv' = Compacted(conv, keep)
      BY <2>2
    <3>2. keep \in 1..(Len(conv) + 1)
      BY <1>1, <3>1, KeptRange
    <3> QED
      BY <1>1, <3>1, <3>2, HistoryCompacted DEF ConvTypeOK
  <2> QED
    BY <1>8, <2>1, <2>2 DEF CompactionEnds
<1>9. CASE ToolRoundEnds
  <2>1. conv' = Append(conv, Note("working directory")) \/ conv' = conv
    BY <1>9 DEF ToolRoundEnds
  <2> QED
    BY <1>1, <1>3, <1>4, <2>1 DEF ConvTypeOK
<1>10. CASE Finish
  BY <1>1, <1>10, RemindersStripped DEF Finish, ConvTypeOK
<1>11. CASE ReportError
  <2> DEFINE d == IF cancelled THEN Append(conv, Assistant("interrupted")) ELSE conv
  <2>1. conv' = StripReminders(d)
    BY <1>11 DEF ReportError
  <2>2. d \in Seq(Entries) /\ Keeps(d, conv)
    BY <1>1, <1>3, <1>4
  <2> HIDE DEF d
  <2>3. StripReminders(d) \in Seq(Entries) /\ Keeps(StripReminders(d), d)
    BY <2>2, RemindersStripped
  <2> QED
    BY <2>1, <2>2, <2>3, KeepsTrans DEF ConvTypeOK
<1> QED
  BY <1>5, <1>6, <1>7, <1>8, <1>9, <1>10, <1>11

\* Late input calls and answers nothing, and what it attaches is counted.
LEMMA LateReceived ==
  ASSUME ConvTypeOK, DeliverLate
  PROVE  /\ ConvTypeOK' /\ CalledIds(conv') = CalledIds(conv)
         /\ AnsweredIds(conv') = AnsweredIds(conv)
         /\ CallsOnce(conv) => CallsOnce(conv')
         /\ AnswersOnce(conv) => AnswersOnce(conv')
         /\ \/ brought' = brought /\ (HasBinary(conv') => HasBinary(conv))
            \/ brought' = brought + 1
<1>1. Receive(TRUE) \/ Receive(FALSE)
  <2>1. PICK attached \in May("attachment") : Receive(attached)
    BY Zenon DEF DeliverLate
  <2>2. ("attachment" \in Occurring) \in BOOLEAN
    OBVIOUS
  <2>3. attached \in BOOLEAN
    BY <2>1, <2>2 DEF May
  <2>4. attached = TRUE \/ attached = FALSE
    BY <2>3
  <2>5. CASE attached = TRUE
    BY <2>1, <2>5, Zenon
  <2>6. CASE attached = FALSE
    BY <2>1, <2>6, Zenon
  <2> QED
    BY <2>4, <2>5, <2>6
<1>2. ASSUME NEW e \in Entries, ~IsTool(e), e.calls = <<>>, conv' = Append(conv, e)
      PROVE  /\ ConvTypeOK' /\ CalledIds(conv') = CalledIds(conv)
             /\ AnsweredIds(conv') = AnsweredIds(conv)
             /\ CallsOnce(conv) => CallsOnce(conv')
             /\ AnswersOnce(conv) => AnswersOnce(conv')
             /\ ~e.binary => (HasBinary(conv') => HasBinary(conv))
  <2> DEFINE x == <<e>>
  <2>1. /\ x \in Seq(Entries) /\ CalledIds(x) = CallIds(e) /\ AnsweredIds(x) = {}
        /\ CallsOnce(x) /\ AnswersOnce(x) /\ (~e.binary => ~HasBinary(x))
    BY <1>2, OneEntry
  <2>2. CalledIds(x) = {}
    BY <1>2, <2>1, NoCalls
  <2>3. conv' = conv \o x /\ conv \in Seq(Entries)
    BY <1>2 DEF ConvTypeOK
  <2> HIDE DEF x
  <2>4. /\ conv' \in Seq(Entries)
        /\ CalledIds(conv') = CalledIds(conv) \cup CalledIds(x)
        /\ AnsweredIds(conv') = AnsweredIds(conv) \cup AnsweredIds(x)
        /\ HasBinary(conv') <=> HasBinary(conv) \/ HasBinary(x)
        /\ CallsOnce(conv) /\ CallsOnce(x) /\ CalledIds(conv) \cap CalledIds(x) = {} =>
             CallsOnce(conv')
        /\ AnswersOnce(conv) /\ AnswersOnce(x) /\ AnsweredIds(conv) \cap AnsweredIds(x) = {} =>
             AnswersOnce(conv')
    BY <2>1, <2>3, JoinedEntries, JoinedIds, JoinedOnce
  <2> QED
    BY <2>1, <2>2, <2>4 DEF ConvTypeOK
<1>3. /\ User("late", TRUE) \in Entries /\ User("late", FALSE) \in Entries
      /\ Plain(User("late", FALSE))
  BY EntryTypes DEF Texts
<1>4. /\ ~IsTool(User("late", TRUE)) /\ ~IsTool(User("late", FALSE))
      /\ User("late", TRUE).calls = <<>> /\ User("late", FALSE).calls = <<>>
  BY DEF IsTool, User, Entry
<1>5. CASE Receive(TRUE)
  <2>1. conv' = Append(conv, User("late", TRUE)) /\ brought' = brought + 1
    BY <1>5 DEF Receive
  <2> QED
    BY <1>2, <1>3, <1>4, <2>1
<1>6. CASE Receive(FALSE)
  <2>1. conv' = Append(conv, User("late", FALSE)) /\ brought' = brought
    BY <1>6 DEF Receive
  <2> QED
    BY <1>2, <1>3, <1>4, <2>1 DEF Plain
<1> QED
  BY <1>1, <1>5, <1>6

\* What some of these actions do besides.
LEMMA HistoryCleaned ==
  ASSUME ConvTypeOK
  PROVE  /\ RecoverStripping => ~HasBinary(conv')
         /\ CompactionEnds /\ Replied(conv) => Replied(conv')
         /\ ToolRoundEnds => AnsweredIds(conv') = AnsweredIds(conv)
         /\ Finish => NoReminder(conv') /\ (Replied(conv) => Replied(conv'))
         /\ ReportError => NoReminder(conv')
<1>1. conv \in Seq(Entries)
  BY DEF ConvTypeOK
<1>2. RecoverStripping => ~HasBinary(conv')
  BY <1>1, BinaryStripped DEF RecoverStripping
<1>3. CompactionEnds /\ Replied(conv) => Replied(conv')
  <2> SUFFICES ASSUME CompactionEnds, Replied(conv) PROVE Replied(conv')
    OBVIOUS
  <2>1. CASE conv' = conv
    BY <2>1
  <2>2. CASE \E keep \in KeepRecentFrom(conv) : conv' = Compacted(conv, keep)
    <3>1. PICK keep \in KeepRecentFrom(conv) : conv' = Compacted(conv, keep)
      BY <2>2
    <3>2. keep \in 1..(Len(conv) + 1)
      BY <1>1, <3>1, KeptRange
    <3> QED
      BY <1>1, <3>1, <3>2, HistoryCompacted
  <2> QED
    BY <2>1, <2>2 DEF CompactionEnds
<1>4. ToolRoundEnds => AnsweredIds(conv') = AnsweredIds(conv)
  <2> DEFINE e == Note("working directory")
  <2>1. ToolRoundEnds => conv' = Append(conv, e) \/ conv' = conv
    BY DEF ToolRoundEnds
  <2>2. "working directory" \in Texts
    BY DEF Texts
  <2>3. e \in Entries /\ Plain(e)
    BY <2>2, EntryTypes
  <2> HIDE DEF e
  <2>4. Append(conv, e) = conv \o <<e>> /\ <<e>> \in Seq(Entries) /\ AllPlain(<<e>>)
    BY <1>1, <2>3, OnePlain
  <2>5. AnsweredIds(conv \o <<e>>) = AnsweredIds(conv)
    BY <1>1, <2>4, PlainJoins
  <2> QED
    BY <2>1, <2>4, <2>5
<1>5. Finish => NoReminder(conv') /\ (Replied(conv) => Replied(conv'))
  BY <1>1, RemindersStripped DEF Finish
<1>6. ReportError => NoReminder(conv')
  <2> DEFINE d == IF cancelled THEN Append(conv, Assistant("interrupted")) ELSE conv
  <2>1. ReportError => conv' = StripReminders(d)
    BY DEF ReportError
  <2>2. d \in Seq(Entries)
    <3>1. "interrupted" \in Texts
      BY DEF Texts
    <3>2. Assistant("interrupted") \in Entries
      BY <3>1, EntryTypes
    <3> QED
      BY <1>1, <3>2
  <2> HIDE DEF d
  <2>3. NoReminder(StripReminders(d))
    BY <2>2, RemindersStripped
  <2> QED
    BY <2>1, <2>3
<1> QED
  BY <1>2, <1>3, <1>4, <1>5, <1>6

IdsOf(calls) == {calls[i].id : i \in DOMAIN calls}

LEMMA BatchResults ==
  ASSUME NEW calls \in Seq(CallType), NEW interrupts, NEW binary \in BOOLEAN,
         \A k, l \in DOMAIN calls : k < l => calls[k].id < calls[l].id
  PROVE  LET x == Results(calls, interrupts, binary) IN
         /\ x \in Seq(Entries) /\ NoUser(x)
         /\ CalledIds(x) = {} /\ CallsOnce(x) /\ AnswersOnce(x)
         /\ AnsweredIds(x) = IdsOf(calls) \ interrupts
<1> DEFINE kept == {i \in DOMAIN calls : calls[i].id \notin interrupts}
           done == Select(calls, kept)
           x == Results(calls, interrupts, binary)
<1>1. Len(calls) \in Nat /\ DOMAIN calls = 1..Len(calls)
  OBVIOUS
<1>2. PICK m \in 0..Len(calls) : \E h :
         /\ Enumerates(h, m, kept, Len(calls))
         /\ done \in Seq(CallType) /\ Len(done) = m
         /\ \A a \in 1..m : done[a] = calls[h[a]]
  <2>1. \A K : \E n \in 0..Len(calls) : \E h :
          /\ Enumerates(h, n, K, Len(calls))
          /\ Select(calls, K) \in Seq(CallType) /\ Len(Select(calls, K)) = n
          /\ \A a \in 1..n : Select(calls, K)[a] = calls[h[a]]
    BY SelectIs
  <2> QED
    BY <2>1
<1>3. PICK h : /\ Enumerates(h, m, kept, Len(calls))
               /\ done \in Seq(CallType) /\ Len(done) = m
               /\ \A a \in 1..m : done[a] = calls[h[a]]
  BY <1>2
<1>4. x = ResultsFor(done, "output", binary)
  BY DEF Results, ResultsFor
<1> HIDE DEF done, x
<1>5. DOMAIN done = 1..m /\ m \in Nat
  BY <1>3
<1>6. /\ \A a \in 1..m : h[a] \in kept /\ h[a] \in DOMAIN calls
      /\ \A a, b \in 1..m : a < b => h[a] < h[b]
      /\ \A i \in kept : \E a \in 1..m : h[a] = i
  BY <1>1, <1>3, <1>5 DEF Enumerates
<1>7. \A a, b \in DOMAIN done : done[a].id = done[b].id => a = b
  <2>1. \A i \in DOMAIN calls : calls[i].id \in Nat
    <3>1. \A i \in DOMAIN calls : calls[i] \in CallType
      OBVIOUS
    <3> QED
      BY <3>1 DEF CallType
  <2>2. \A a, b \in 1..m : a < b => calls[h[a]].id < calls[h[b]].id
    BY <1>6
  <2> SUFFICES ASSUME NEW a \in 1..m, NEW b \in 1..m, done[a].id = done[b].id, a # b PROVE FALSE
    BY <1>5
  <2>3. /\ done[a] = calls[h[a]] /\ done[b] = calls[h[b]] /\ (a < b \/ b < a)
        /\ calls[h[a]].id \in Nat /\ calls[h[b]].id \in Nat
    BY <1>3, <1>5, <1>6, <2>1
  <2> QED
    BY <2>2, <2>3
<1>8. {done[a].id : a \in DOMAIN done} = IdsOf(calls) \ interrupts
  <2>1. \A a \in DOMAIN done : done[a].id \in IdsOf(calls) /\ done[a].id \notin interrupts
    BY <1>3, <1>5, <1>6 DEF IdsOf
  <2>2. ASSUME NEW i \in DOMAIN calls, calls[i].id \notin interrupts
        PROVE  \E a \in DOMAIN done : done[a].id = calls[i].id
    <3>1. PICK a \in 1..m : h[a] = i
      BY <1>6, <2>2
    <3> QED
      BY <1>3, <1>5, <3>1
  <2> QED
    BY <2>1, <2>2 DEF IdsOf
<1>9. "output" \in Texts /\ done \in Seq(CallType)
  BY <1>3 DEF Texts
<1>10. LET y == ResultsFor(done, "output", binary) IN
       /\ y \in Seq(Entries)
       /\ CalledIds(y) = {} /\ CallsOnce(y) /\ AnswersOnce(y)
       /\ AnsweredIds(y) = {done[a].id : a \in DOMAIN done}
       /\ NoUser(y)
  BY <1>7, <1>9, ResultsForCalls
<1> QED
  BY <1>4, <1>8, <1>10 DEF x

\* A batch adds the results of its calls; an interrupted one ends the run.
LEMMA BatchRecorded ==
  ASSUME ConvTypeOK, running \in Seq(CallType),
         \A k, l \in DOMAIN running : k < l => running[k].id < running[l].id,
         IdsOf(running) \cap AnsweredIds(conv) = {}, EndBatch
  PROVE  /\ ConvTypeOK' /\ CalledIds(conv') \subseteq CalledIds(conv)
         /\ AnsweredIds(conv') \subseteq AnsweredIds(conv) \cup IdsOf(running)
         /\ CallsOnce(conv) /\ AnswersOnce(conv) => CallsOnce(conv') /\ AnswersOnce(conv')
         /\ Replied(conv) => Replied(conv')
         /\ at' = "Finished" => NoReminder(conv')
         /\ ~cancelled /\ at' # "Finished" =>
              AnsweredIds(conv') = AnsweredIds(conv) \cup IdsOf(running)
<1>1. PICK interrupts \in SUBSET IdsOf(running), binary \in May("attachment") :
        LET recorded == conv \o Results(running, interrupts, binary) IN
        IF interrupts # {} /\ ~cancelled
        THEN conv' = StripReminders(recorded) /\ at' = "Finished"
        ELSE conv' = recorded /\ at' \in {"CallTools", "advance"}
  BY DEF EndBatch, IdsOf
<1> DEFINE x == Results(running, interrupts, binary)
           recorded == conv \o x
<1>2. binary \in BOOLEAN
  <2>1. \A happening \in BOOLEAN : \A known \in {FALSE, happening} : known \in BOOLEAN
    OBVIOUS
  <2>2. ("attachment" \in Occurring) \in BOOLEAN
    OBVIOUS
  <2>3. binary \in {FALSE, ("attachment" \in Occurring)}
    BY <1>1, Zenon DEF May
  <2> QED
    BY <2>1, <2>2, <2>3, Zenon
<1>3. /\ x \in Seq(Entries) /\ NoUser(x)
      /\ CalledIds(x) = {} /\ CallsOnce(x) /\ AnswersOnce(x)
      /\ AnsweredIds(x) = IdsOf(running) \ interrupts
  BY <1>2, BatchResults
<1>4. \/ interrupts # {} /\ ~cancelled /\ conv' = StripReminders(recorded) /\ at' = "Finished"
      \/ (interrupts = {} \/ cancelled) /\ conv' = recorded /\ at' \in {"CallTools", "advance"}
  BY <1>1
<1> HIDE DEF x
<1>5. conv \in Seq(Entries)
  BY DEF ConvTypeOK
<1>6. AnsweredIds(conv) \cap AnsweredIds(x) = {} /\ CalledIds(conv) \cap CalledIds(x) = {}
  BY <1>3
<1>7. /\ recorded \in Seq(Entries)
      /\ CalledIds(recorded) = CalledIds(conv)
      /\ AnsweredIds(recorded) = AnsweredIds(conv) \cup (IdsOf(running) \ interrupts)
      /\ CallsOnce(conv) => CallsOnce(recorded)
      /\ AnswersOnce(conv) => AnswersOnce(recorded)
  <2>1. /\ recorded \in Seq(Entries)
        /\ CalledIds(recorded) = CalledIds(conv) \cup CalledIds(x)
        /\ AnsweredIds(recorded) = AnsweredIds(conv) \cup AnsweredIds(x)
    BY <1>3, <1>5, JoinedEntries, JoinedIds
  <2>2. /\ CallsOnce(conv) => CallsOnce(recorded)
        /\ AnswersOnce(conv) => AnswersOnce(recorded)
    BY <1>3, <1>5, <1>6, JoinedOnce
  <2> QED
    BY <1>3, <2>1, <2>2
<1>8. Replied(conv) => Replied(recorded)
  BY <1>3, <1>5, RepliedJoins
<1> HIDE DEF recorded
<1>9. /\ StripReminders(recorded) \in Seq(Entries) /\ Keeps(StripReminders(recorded), recorded)
      /\ NoReminder(StripReminders(recorded))
      /\ Replied(recorded) => Replied(StripReminders(recorded))
  BY <1>7, RemindersStripped
<1>10. CASE interrupts # {} /\ ~cancelled /\ conv' = StripReminders(recorded) /\ at' = "Finished"
  BY <1>7, <1>8, <1>9, <1>10 DEF Keeps, ConvTypeOK
<1>11. CASE (interrupts = {} \/ cancelled) /\ conv' = recorded /\ at' \in {"CallTools", "advance"}
  BY <1>7, <1>8, <1>11 DEF ConvTypeOK
<1> QED
  BY <1>4, <1>10, <1>11

---------------------------------------------------------------------------
(* The control point, the phase and the answer. *)

LEMMA ControlStep == ControlTypeOK /\ [Next]_vars => ControlTypeOK'
<1> SUFFICES ASSUME ControlTypeOK, [Next]_vars PROVE ControlTypeOK'
  OBVIOUS
<1> USE DEF ControlTypeOK, Points, Awaiting, Checkpoints, Phases, Statuses,
        limits, caller, history, TurnEnds, Failed, NoAnswer, Answer, RecordSuccess,
        Advancing, Fail, Recovered
<1>1. CASE StartWithInput
  <2>1. PICK input : Begin(input)
    BY <1>1 DEF StartWithInput
  <2>2. autoCompact' \in BOOLEAN /\ limited' \in BOOLEAN
    BY <2>1, Zenon DEF Begin, May
  <2> QED
    BY <2>1, <2>2 DEF Begin
<1>2. CASE StartResumed
  <2>1. PICK input : Begin(input)
    BY <1>2 DEF StartResumed
  <2>2. autoCompact' \in BOOLEAN /\ limited' \in BOOLEAN
    BY <2>1, Zenon DEF Begin, May
  <2> QED
    BY <2>1, <2>2 DEF Begin
<1>3. CASE Cancel
  BY <1>3 DEF Cancel
<1>4. CASE AdvanceCancelled
  BY <1>4 DEF AdvanceCancelled
<1>5. CASE BeforeModel
  BY <1>5 DEF BeforeModel
<1>6. CASE IterationLimit
  BY <1>6 DEF IterationLimit
<1>7. CASE SendRequest
  BY <1>7 DEF SendRequest
<1>8. CASE RequestFails
  BY <1>8 DEF RequestFails
<1>9. CASE RequestCancelled
  <2>1. UNCHANGED cutOff /\ \E c : TurnEnds(Failed("Other"), c)
    BY <1>9 DEF RequestCancelled
  <2> QED
    BY <2>1
<1>10. CASE ModelCallsTools
  <2>1. cutOff' = FALSE
    BY <1>10 DEF ModelCallsTools
  <2>2. PICK text, c : TurnEnds(Answer("ToolCalls", text), c)
    BY <1>10 DEF ModelCallsTools
  <2> QED
    BY <2>1, <2>2
<1>11. CASE ModelCallsCutOff
  <2>1. cutOff' = FALSE
    BY <1>11 DEF ModelCallsCutOff
  <2>2. PICK c : TurnEnds(Answer("Continue", "text"), c)
    BY <1>11 DEF ModelCallsCutOff
  <2> QED
    BY <2>1, <2>2
<1>12. CASE ModelRepliesCutOff
  BY <1>12 DEF ModelRepliesCutOff
<1>13. CASE ModelReplies
  <2>1. PICK text \in ReplyTexts, status \in {"CompactionNeeded", "Done"} :
             TurnEnds(Answer(status, ReplyText(text)), AddReply(conv, text))
    BY <1>13 DEF ModelReplies
  <2> QED
    BY <1>13, <2>1 DEF ModelReplies
<1>14. CASE RecoverStripping
  BY <1>14 DEF RecoverStripping
<1>15. CASE RecoverCompacting
  BY <1>15 DEF RecoverCompacting
<1>16. CASE SummaryRecovers
  BY <1>16 DEF SummaryRecovers
<1>17. CASE SummaryFails
  BY <1>17 DEF SummaryFails
<1>18. CASE RecoverRetrying
  BY <1>18 DEF RecoverRetrying
<1>19. CASE WakeUp
  BY <1>19 DEF WakeUp
<1>20. CASE GiveUp
  BY <1>20 DEF GiveUp
<1>21. CASE CallTools
  BY <1>21 DEF CallTools
<1>22. CASE ContinueReply
  BY <1>22 DEF ContinueReply
<1>23. CASE RepeatEmpty
  BY <1>23 DEF RepeatEmpty
<1>24. CASE CompactionDue
  BY <1>24 DEF CompactionDue
<1>25. CASE ReplyIsFinal
  BY <1>25 DEF ReplyIsFinal
<1>26. CASE ToolRoundEnds
  BY <1>26 DEF ToolRoundEnds
<1>27. CASE Compact
  BY <1>27 DEF Compact
<1>28. CASE CompactionEnds
  BY <1>28 DEF CompactionEnds
<1>29. CASE Settle
  BY <1>29 DEF Settle
<1>30. CASE Finish
  BY <1>30 DEF Finish
<1>31. CASE Proceed
  BY <1>31 DEF Proceed
<1>32. CASE DeliverLate
  BY <1>32 DEF DeliverLate, Receive
<1>33. CASE StartBatch
  BY <1>33 DEF StartBatch
<1>34. CASE EndBatch
  BY <1>34 DEF EndBatch
<1>35. CASE ReportDone
  BY <1>35 DEF ReportDone, Drop
<1>36. CASE ReportError
  BY <1>36 DEF ReportError, Drop
<1>37. CASE UNCHANGED vars
  BY <1>37 DEF vars
<1> QED
  BY <1>1, <1>2, <1>3, <1>4, <1>5, <1>6, <1>7, <1>8, <1>9, <1>10, <1>11, <1>12, 
     <1>13, <1>14, <1>15, <1>16, <1>17, <1>18, <1>19, <1>20, <1>21, <1>22, <1>23, <1>24, 
     <1>25, <1>26, <1>27, <1>28, <1>29, <1>30, <1>31, <1>32, <1>33, <1>34, <1>35, <1>36, 
     <1>37
     DEF Next, Advance, Provider, Handle, NoMoreRuns

---------------------------------------------------------------------------
(* The counters of a run and its limits. *)

LEMMA BudgetStep ==
  BudgetTypeOK /\ Exhausted /\ [Next]_vars => BudgetTypeOK' /\ Exhausted'
<1> SUFFICES ASSUME BudgetTypeOK, Exhausted, [Next]_vars
             PROVE  BudgetTypeOK' /\ Exhausted'
  OBVIOUS
<1> USE LimitAssumption, BoundAssumption
    DEF BudgetTypeOK, Exhausted, Awaiting, Checkpoints, limits, recovery, caller, history,
        TurnEnds, RecordSuccess, Advancing, Answered, Recovering, Fail, Recovered, Retries, Compacts,
        ContinuesReply, WithinLimit
<1>1. CASE StartWithInput
  <2>1. PICK input : Begin(input)
    BY <1>1 DEF StartWithInput
  <2>2. /\ at = "idle" /\ at' = "advance"
        /\ runs < MaxRuns /\ runs' = runs + 1 /\ late' = 0
        /\ UNCHANGED <<limits, recovery, history>>
    BY <2>1, Zenon DEF Begin
  <2> QED
    BY <2>2
<1>2. CASE StartResumed
  <2>1. PICK input : Begin(input)
    BY <1>2 DEF StartResumed
  <2>2. /\ at = "idle" /\ at' = "advance"
        /\ runs < MaxRuns /\ runs' = runs + 1 /\ late' = 0
        /\ UNCHANGED <<limits, recovery, history>>
    BY <2>1, Zenon DEF Begin
  <2> QED
    BY <2>2
<1>3. CASE Cancel
  BY <1>3 DEF Cancel
<1>4. CASE AdvanceCancelled
  BY <1>4 DEF AdvanceCancelled
<1>5. CASE BeforeModel
  BY <1>5 DEF BeforeModel
<1>6. CASE IterationLimit
  BY <1>6 DEF IterationLimit
<1>7. CASE SendRequest
  BY <1>7 DEF SendRequest
<1>8. CASE RequestFails
  BY <1>8 DEF RequestFails
<1>9. CASE RequestCancelled
  <2>1. at = "streaming" /\ failures' = failures + 1 /\ UNCHANGED <<recovery, brought>>
        /\ \E c : TurnEnds(Failed("Other"), c)
    BY <1>9 DEF RequestCancelled
  <2> QED
    BY <2>1
<1>10. CASE ModelCallsTools
  BY <1>10 DEF ModelCallsTools
<1>11. CASE ModelCallsCutOff
  BY <1>11 DEF ModelCallsCutOff
<1>12. CASE ModelRepliesCutOff
  BY <1>12 DEF ModelRepliesCutOff
<1>13. CASE ModelReplies
  BY <1>13 DEF ModelReplies
<1>14. CASE RecoverStripping
  BY <1>14 DEF RecoverStripping
<1>15. CASE RecoverCompacting
  BY <1>15 DEF RecoverCompacting
<1>16. CASE SummaryRecovers
  BY <1>16 DEF SummaryRecovers
<1>17. CASE SummaryFails
  BY <1>17 DEF SummaryFails
<1>18. CASE RecoverRetrying
  BY <1>18 DEF RecoverRetrying
<1>19. CASE WakeUp
  BY <1>19 DEF WakeUp
<1>20. CASE GiveUp
  BY <1>20 DEF GiveUp
<1>21. CASE CallTools
  BY <1>21 DEF CallTools
<1>22. CASE ContinueReply
  BY <1>22 DEF ContinueReply
<1>23. CASE RepeatEmpty
  BY <1>23 DEF RepeatEmpty
<1>24. CASE CompactionDue
  BY <1>24 DEF CompactionDue
<1>25. CASE ReplyIsFinal
  BY <1>25 DEF ReplyIsFinal
<1>26. CASE ToolRoundEnds
  <2>1. /\ at = "advance" /\ at' = "Tools" /\ toolRounds' = toolRounds + 1
        /\ UNCHANGED <<iteration, continuations, consecutive, recovery, caller, failures, brought>>
    BY <1>26 DEF ToolRoundEnds
  <2> QED
    BY <2>1
<1>27. CASE Compact
  BY <1>27 DEF Compact
<1>28. CASE CompactionEnds
  BY <1>28 DEF CompactionEnds
<1>29. CASE Settle
  BY <1>29 DEF Settle
<1>30. CASE Finish
  BY <1>30 DEF Finish
<1>31. CASE Proceed
  BY <1>31 DEF Proceed
<1>32. CASE DeliverLate
  BY <1>32 DEF DeliverLate, Receive
<1>33. CASE StartBatch
  BY <1>33 DEF StartBatch
<1>34. CASE EndBatch
  BY <1>34 DEF EndBatch
<1>35. CASE ReportDone
  BY <1>35 DEF ReportDone, Drop
<1>36. CASE ReportError
  BY <1>36 DEF ReportError, Drop
<1>37. CASE UNCHANGED vars
  BY <1>37 DEF vars
<1> QED
  BY <1>1, <1>2, <1>3, <1>4, <1>5, <1>6, <1>7, <1>8, <1>9, <1>10, <1>11, <1>12, 
     <1>13, <1>14, <1>15, <1>16, <1>17, <1>18, <1>19, <1>20, <1>21, <1>22, <1>23, <1>24, 
     <1>25, <1>26, <1>27, <1>28, <1>29, <1>30, <1>31, <1>32, <1>33, <1>34, <1>35, <1>36, 
     <1>37
     DEF Next, Advance, Provider, Handle, NoMoreRuns

---------------------------------------------------------------------------
(* The calls that wait and those that execute. *)

LEMMA CallsStep ==
  CallsTypeOK /\ CallsOrdered /\ [Next]_vars => CallsTypeOK' /\ CallsOrdered'
<1> SUFFICES ASSUME CallsTypeOK, CallsOrdered, [Next]_vars
             PROVE  CallsTypeOK' /\ CallsOrdered'
  OBVIOUS
<1> USE DEF CallsTypeOK, CallsOrdered, batch, history, TurnEnds
<1>1. CASE StartWithInput
  BY <1>1 DEF StartWithInput, Begin
<1>2. CASE StartResumed
  BY <1>2 DEF StartResumed, Begin
<1>3. CASE Cancel
  BY <1>3 DEF Cancel
<1>4. CASE AdvanceCancelled
  BY <1>4 DEF AdvanceCancelled
<1>5. CASE BeforeModel
  BY <1>5 DEF BeforeModel
<1>6. CASE IterationLimit
  BY <1>6 DEF IterationLimit
<1>7. CASE SendRequest
  BY <1>7 DEF SendRequest
<1>8. CASE RequestFails
  BY <1>8 DEF RequestFails
<1>9. CASE RequestCancelled
  BY <1>9 DEF RequestCancelled
<1>10. CASE ModelCallsTools
  <2>1. PICK tools \in ToolChoices :
          /\ todo' = NewCalls(tools) /\ nextId' = nextId + Len(NewCalls(tools))
          /\ UNCHANGED <<lastRun, running>>
    BY <1>10 DEF ModelCallsTools
  <2>2. /\ NewCalls(tools) \in Seq(CallType) /\ Len(NewCalls(tools)) \in Nat
        /\ \A i \in DOMAIN NewCalls(tools) :
             i \in 1..Len(NewCalls(tools)) /\ NewCalls(tools)[i].id = nextId + i - 1
    BY NewCallsInOrder
  <2> QED
    BY <2>1, <2>2
<1>11. CASE ModelCallsCutOff
  <2>1. PICK tools \in ToolChoices :
          nextId' = nextId + Len(NewCalls(tools)) /\ UNCHANGED <<todo, lastRun, running>>
    BY <1>11 DEF ModelCallsCutOff
  <2>2. Len(NewCalls(tools)) \in Nat
    BY NewCallsInOrder
  <2>3. \A i \in DOMAIN todo : todo[i] \in CallType
    OBVIOUS
  <2>4. \A i \in DOMAIN todo : todo[i].id \in Nat
    BY <2>3 DEF CallType
  <2> QED
    BY <2>1, <2>2, <2>4
<1>12. CASE ModelRepliesCutOff
  BY <1>12 DEF ModelRepliesCutOff
<1>13. CASE ModelReplies
  BY <1>13 DEF ModelReplies
<1>14. CASE RecoverStripping
  BY <1>14 DEF RecoverStripping
<1>15. CASE RecoverCompacting
  BY <1>15 DEF RecoverCompacting
<1>16. CASE SummaryRecovers
  BY <1>16 DEF SummaryRecovers
<1>17. CASE SummaryFails
  BY <1>17 DEF SummaryFails
<1>18. CASE RecoverRetrying
  BY <1>18 DEF RecoverRetrying
<1>19. CASE WakeUp
  BY <1>19 DEF WakeUp
<1>20. CASE GiveUp
  BY <1>20 DEF GiveUp
<1>21. CASE CallTools
  BY <1>21 DEF CallTools
<1>22. CASE ContinueReply
  BY <1>22 DEF ContinueReply
<1>23. CASE RepeatEmpty
  BY <1>23 DEF RepeatEmpty
<1>24. CASE CompactionDue
  BY <1>24 DEF CompactionDue
<1>25. CASE ReplyIsFinal
  BY <1>25 DEF ReplyIsFinal
<1>26. CASE ToolRoundEnds
  BY <1>26 DEF ToolRoundEnds
<1>27. CASE Compact
  BY <1>27 DEF Compact
<1>28. CASE CompactionEnds
  BY <1>28 DEF CompactionEnds
<1>29. CASE Settle
  BY <1>29 DEF Settle
<1>30. CASE Finish
  BY <1>30 DEF Finish
<1>31. CASE Proceed
  BY <1>31 DEF Proceed
<1>32. CASE DeliverLate
  BY <1>32 DEF DeliverLate, Receive
<1>33. CASE StartBatch
  <2>1. PICK n \in DOMAIN todo : /\ running' = SubSeq(todo, 1, n)
                                /\ todo' = LaterBatches(todo, n)
                                /\ lastRun' = todo[n].id
                                /\ UNCHANGED nextId
    BY <1>33 DEF StartBatch
  <2>2. /\ SubSeq(todo, 1, n) \in Seq(CallType)
        /\ LaterBatches(todo, n) \in Seq(CallType)
        /\ \A i \in DOMAIN LaterBatches(todo, n) :
             n + i \in DOMAIN todo /\ LaterBatches(todo, n)[i] = todo[n + i]
    BY BatchesSplit
  <2>3. todo[n] \in CallType /\ n \in Nat
    OBVIOUS
  <2>4. lastRun' \in Nat /\ lastRun' < nextId
    BY <2>1, <2>3 DEF CallType
  <2>5. \A i \in DOMAIN todo' : i \in Nat /\ n < n + i
    BY <2>1, <2>2, <2>3
  <2>6. \A i \in DOMAIN todo' : lastRun' < todo'[i].id /\ todo'[i].id < nextId
    BY <2>1, <2>2, <2>5
  <2>7. \A i, j \in DOMAIN todo' : i < j => todo'[i].id < todo'[j].id
    <3> SUFFICES ASSUME NEW i \in DOMAIN todo', NEW j \in DOMAIN todo', i < j
                 PROVE  todo'[i].id < todo'[j].id
      OBVIOUS
    <3>1. n + i < n + j
      BY <2>3, <2>5
    <3> QED
      BY <2>1, <2>2, <3>1
  <2> QED
    BY <2>1, <2>2, <2>4, <2>6, <2>7
<1>34. CASE EndBatch
  <2>1. /\ todo' = <<>> \/ todo' = todo
        /\ running' = <<>> /\ UNCHANGED <<nextId, lastRun>>
    BY <1>34 DEF EndBatch
  <2>2. CASE todo' = todo
    BY <2>1, <2>2
  <2>3. CASE todo' = <<>>
    BY <2>1, <2>3
  <2> QED
    BY <2>1, <2>2, <2>3
<1>35. CASE ReportDone
  BY <1>35 DEF ReportDone, Drop
<1>36. CASE ReportError
  BY <1>36 DEF ReportError, Drop
<1>37. CASE UNCHANGED vars
  BY <1>37 DEF vars
<1> QED
  BY <1>1, <1>2, <1>3, <1>4, <1>5, <1>6, <1>7, <1>8, <1>9, <1>10, <1>11, <1>12, 
     <1>13, <1>14, <1>15, <1>16, <1>17, <1>18, <1>19, <1>20, <1>21, <1>22, <1>23, <1>24, 
     <1>25, <1>26, <1>27, <1>28, <1>29, <1>30, <1>31, <1>32, <1>33, <1>34, <1>35, <1>36, 
     <1>37
     DEF Next, Advance, Provider, Handle, NoMoreRuns

\* Where each phase can be seen.
Placed ==
  /\ at \in Awaiting \cup {"idle", "Finished"} => phase = "Done"
  /\ at = "Assistant" => phase = "Response"
  /\ phase = "Response" => at \in {"Assistant", "advance", "Error"} /\ resp.status # "none"
  /\ at \in {"CallTools", "executing"} => phase = "AfterTools"
  /\ phase = "AfterTools" => at \in {"CallTools", "executing", "advance", "Error"}
  /\ at = "BeforeModel" => phase = "Model"
  /\ at = "Recovery" => phase = "Ready"
  /\ at = "Tools" => phase = "Ready" \/ (phase = "Compact" /\ ~finishAfter)
  /\ at = "Compaction" => phase \in {"Done", "Ready"}
  /\ at = "Settling" => phase = "Finishing"

LEMMA PlacedStep == ControlTypeOK /\ Placed /\ [Next]_vars => Placed'
<1> SUFFICES ASSUME ControlTypeOK, Placed, [Next]_vars PROVE Placed'
  OBVIOUS
<1> USE DEF Placed, Awaiting, Checkpoints, limits, caller, TurnEnds, Failed, NoAnswer, Answer,
        Advancing, Recovering, Answered, Fail, Recovered
<1>1. CASE StartWithInput
  <2>1. PICK input : Begin(input)
    BY <1>1 DEF StartWithInput
  <2>2. at' = "advance" /\ phase' = "Ready"
    BY <2>1, Zenon DEF Begin
  <2> QED
    BY <2>2
<1>2. CASE StartResumed
  <2>1. at' = "advance" /\ phase' = "Ready"
    BY <1>2, Zenon DEF StartResumed, Begin
  <2> QED
    BY <2>1
<1>3. CASE Cancel
  BY <1>3 DEF Cancel
<1>4. CASE AdvanceCancelled
  BY <1>4 DEF AdvanceCancelled
<1>5. CASE BeforeModel
  BY <1>5 DEF BeforeModel
<1>6. CASE IterationLimit
  BY <1>6 DEF IterationLimit
<1>7. CASE SendRequest
  BY <1>7 DEF SendRequest
<1>8. CASE RequestFails
  BY <1>8 DEF RequestFails
<1>9. CASE RequestCancelled
  <2>1. PICK c : TurnEnds(Failed("Other"), c)
    BY <1>9 DEF RequestCancelled
  <2> QED
    BY <2>1
<1>10. CASE ModelCallsTools
  <2>1. PICK text, c : TurnEnds(Answer("ToolCalls", text), c)
    BY <1>10 DEF ModelCallsTools
  <2> QED
    BY <2>1
<1>11. CASE ModelCallsCutOff
  <2>1. PICK c : TurnEnds(Answer("Continue", "text"), c)
    BY <1>11 DEF ModelCallsCutOff
  <2> QED
    BY <2>1
<1>12. CASE ModelRepliesCutOff
  <2>1. PICK text, c : TurnEnds(Answer("Continue", text), c)
    BY <1>12 DEF ModelRepliesCutOff
  <2> QED
    BY <2>1
<1>13. CASE ModelReplies
  <2>1. PICK text \in ReplyTexts, status \in {"CompactionNeeded", "Done"} :
             TurnEnds(Answer(status, ReplyText(text)), AddReply(conv, text))
    BY <1>13 DEF ModelReplies
  <2> QED
    BY <2>1
<1>14. CASE RecoverStripping
  BY <1>14 DEF RecoverStripping
<1>15. CASE RecoverCompacting
  BY <1>15 DEF RecoverCompacting
<1>16. CASE SummaryRecovers
  BY <1>16 DEF SummaryRecovers
<1>17. CASE SummaryFails
  BY <1>17 DEF SummaryFails
<1>18. CASE RecoverRetrying
  BY <1>18 DEF RecoverRetrying
<1>19. CASE WakeUp
  BY <1>19 DEF WakeUp
<1>20. CASE GiveUp
  BY <1>20 DEF GiveUp
<1>21. CASE CallTools
  BY <1>21 DEF CallTools
<1>22. CASE ContinueReply
  BY <1>22 DEF ContinueReply
<1>23. CASE RepeatEmpty
  BY <1>23 DEF RepeatEmpty
<1>24. CASE CompactionDue
  BY <1>24 DEF CompactionDue
<1>25. CASE ReplyIsFinal
  BY <1>25 DEF ReplyIsFinal
<1>26. CASE ToolRoundEnds
  <2>1. /\ at' = "Tools"
        /\ phase' = "Ready" \/ (phase' = "Compact" /\ finishAfter' = FALSE)
    BY <1>26, Zenon DEF ToolRoundEnds
  <2> QED
    BY <2>1
<1>27. CASE Compact
  BY <1>27 DEF Compact
<1>28. CASE CompactionEnds
  BY <1>28 DEF CompactionEnds
<1>29. CASE Settle
  BY <1>29 DEF Settle
<1>30. CASE Finish
  BY <1>30 DEF Finish
<1>31. CASE Proceed
  BY <1>31 DEF Proceed
<1>32. CASE DeliverLate
  BY <1>32 DEF DeliverLate, Receive
<1>33. CASE StartBatch
  BY <1>33 DEF StartBatch
<1>34. CASE EndBatch
  <2>1. \/ at' = "Finished" /\ phase' = "Done"
        \/ at' \in {"CallTools", "advance"} /\ phase' = phase
    BY <1>34 DEF EndBatch
  <2> QED
    BY <1>34, <2>1 DEF EndBatch
<1>35. CASE ReportDone
  BY <1>35 DEF ReportDone, Drop
<1>36. CASE ReportError
  BY <1>36 DEF ReportError, Drop
<1>37. CASE UNCHANGED vars
  BY <1>37 DEF vars
<1> QED
  BY <1>1, <1>2, <1>3, <1>4, <1>5, <1>6, <1>7, <1>8, <1>9, <1>10, <1>11, <1>12, <1>13, <1>14, <1>15,
     <1>16, <1>17, <1>18, <1>19, <1>20, <1>21, <1>22, <1>23, <1>24, <1>25, <1>26, <1>27, <1>28,
     <1>29, <1>30, <1>31, <1>32, <1>33, <1>34, <1>35, <1>36, <1>37
     DEF Next, Advance, Provider, Handle, NoMoreRuns

\* The batch that executes: in order, and only while it executes.  A round is
\* over when no call of it waits.
RunningOrdered ==
  /\ \A i \in DOMAIN running : running[i].id <= lastRun
  /\ \A i, j \in DOMAIN running : i < j => running[i].id < running[j].id
  /\ at # "executing" => running = <<>>
  /\ at \in {"idle", "Tools"} \/ (at = "advance" /\ phase = "AfterTools") => todo = <<>>

LEMMA RunningStep ==
  CallsTypeOK /\ CallsOrdered /\ Placed /\ RunningOrdered /\ [Next]_vars => RunningOrdered'
<1> SUFFICES ASSUME CallsTypeOK, CallsOrdered, Placed, RunningOrdered, [Next]_vars
             PROVE  RunningOrdered'
  OBVIOUS
<1> USE DEF RunningOrdered, Placed, Awaiting, Checkpoints, batch, history, TurnEnds,
        Advancing, Recovering, Answered, Fail, Recovered
<1>1. CASE StartWithInput
  <2>1. PICK input : Begin(input)
    BY <1>1 DEF StartWithInput
  <2>2. at = "idle" /\ at' = "advance" /\ phase' = "Ready" /\ UNCHANGED <<running, todo, lastRun>>
    BY <2>1, Zenon DEF Begin
  <2> QED
    BY <2>2
<1>2. CASE StartResumed
  <2>1. at = "idle" /\ at' = "advance" /\ phase' = "Ready" /\ UNCHANGED <<running, todo, lastRun>>
    BY <1>2, Zenon DEF StartResumed, Begin
  <2> QED
    BY <2>1
<1>3. CASE Cancel
  BY <1>3 DEF Cancel
<1>4. CASE AdvanceCancelled
  BY <1>4 DEF AdvanceCancelled
<1>5. CASE BeforeModel
  BY <1>5 DEF BeforeModel
<1>6. CASE IterationLimit
  BY <1>6 DEF IterationLimit
<1>7. CASE SendRequest
  BY <1>7 DEF SendRequest
<1>8. CASE RequestFails
  BY <1>8 DEF RequestFails
<1>9. CASE RequestCancelled
  BY <1>9 DEF RequestCancelled
<1>10. CASE ModelCallsTools
  <2>1. at = "streaming" /\ at' = "Assistant" /\ UNCHANGED <<running, lastRun>>
    BY <1>10, Zenon DEF ModelCallsTools
  <2> QED
    BY <2>1
<1>11. CASE ModelCallsCutOff
  BY <1>11 DEF ModelCallsCutOff
<1>12. CASE ModelRepliesCutOff
  BY <1>12 DEF ModelRepliesCutOff
<1>13. CASE ModelReplies
  BY <1>13 DEF ModelReplies
<1>14. CASE RecoverStripping
  BY <1>14 DEF RecoverStripping
<1>15. CASE RecoverCompacting
  BY <1>15 DEF RecoverCompacting
<1>16. CASE SummaryRecovers
  BY <1>16 DEF SummaryRecovers
<1>17. CASE SummaryFails
  BY <1>17 DEF SummaryFails
<1>18. CASE RecoverRetrying
  BY <1>18 DEF RecoverRetrying
<1>19. CASE WakeUp
  BY <1>19 DEF WakeUp
<1>20. CASE GiveUp
  BY <1>20 DEF GiveUp
<1>21. CASE CallTools
  BY <1>21 DEF CallTools
<1>22. CASE ContinueReply
  BY <1>22 DEF ContinueReply
<1>23. CASE RepeatEmpty
  BY <1>23 DEF RepeatEmpty
<1>24. CASE CompactionDue
  BY <1>24 DEF CompactionDue
<1>25. CASE ReplyIsFinal
  BY <1>25 DEF ReplyIsFinal
<1>26. CASE ToolRoundEnds
  BY <1>26 DEF ToolRoundEnds
<1>27. CASE Compact
  BY <1>27 DEF Compact
<1>28. CASE CompactionEnds
  BY <1>28 DEF CompactionEnds
<1>29. CASE Settle
  BY <1>29 DEF Settle
<1>30. CASE Finish
  BY <1>30 DEF Finish
<1>31. CASE Proceed
  BY <1>31 DEF Proceed
<1>32. CASE DeliverLate
  BY <1>32 DEF DeliverLate, Receive
<1>33. CASE StartBatch
  <2>1. PICK n \in DOMAIN todo : /\ running' = SubSeq(todo, 1, n) /\ lastRun' = todo[n].id
                                /\ at' = "executing"
    BY <1>33 DEF StartBatch
  <2>2. /\ todo \in Seq(CallType) /\ DOMAIN running' = 1..n
        /\ \A i \in 1..n : running'[i] = todo[i]
    BY <2>1, BatchesSplit DEF CallsTypeOK
  <2>3. n \in Nat /\ \A i \in 1..n : i \in DOMAIN todo /\ (i = n \/ i < n)
    BY <2>2
  <2>4. \A i \in DOMAIN todo : todo[i].id \in Nat
    <3>1. \A i \in DOMAIN todo : todo[i] \in CallType
      BY <2>2
    <3> QED
      BY <3>1 DEF CallType
  <2>5. \A i, j \in 1..n : i < j => running'[i].id < running'[j].id
    BY <2>2, <2>3 DEF CallsOrdered
  <2>6. \A i \in 1..n : running'[i].id <= lastRun'
    BY <2>1, <2>2, <2>3, <2>4 DEF CallsOrdered
  <2> QED
    BY <2>1, <2>2, <2>5, <2>6
<1>34. CASE EndBatch
  <2>1. /\ running' = <<>>
        /\ \/ at' \in {"Finished", "CallTools"}
           \/ at' = "advance" /\ todo' = <<>>
    BY <1>34 DEF EndBatch
  <2> QED
    BY <2>1
<1>35. CASE ReportDone
  BY <1>35 DEF ReportDone, Drop
<1>36. CASE ReportError
  BY <1>36 DEF ReportError, Drop
<1>37. CASE UNCHANGED vars
  BY <1>37 DEF vars
<1> QED
  BY <1>1, <1>2, <1>3, <1>4, <1>5, <1>6, <1>7, <1>8, <1>9, <1>10, <1>11, <1>12, <1>13, <1>14, <1>15,
     <1>16, <1>17, <1>18, <1>19, <1>20, <1>21, <1>22, <1>23, <1>24, <1>25, <1>26, <1>27, <1>28,
     <1>29, <1>30, <1>31, <1>32, <1>33, <1>34, <1>35, <1>36, <1>37
     DEF Next, Advance, Provider, Handle, NoMoreRuns

---------------------------------------------------------------------------
(* The conversation: its ids, its attachments and what a run leaves in it. *)

\* The actions that change the conversation.
LEMMA ConvChanges ==
  ASSUME [Next]_vars
  PROVE  \/ conv' = conv
         \/ StartWithInput \/ StartResumed \/ SendRequest
         \/ ModelCallsTools \/ ModelCallsCutOff \/ ModelReplies \/ ModelRepliesCutOff
         \/ RequestCancelled \/ RecoverStripping \/ SummaryRecovers \/ CompactionEnds
         \/ ToolRoundEnds \/ Finish \/ DeliverLate \/ EndBatch \/ ReportError
<1>1. AdvanceCancelled \/ BeforeModel \/ IterationLimit \/ RecoverCompacting
        \/ RecoverRetrying \/ GiveUp \/ CallTools \/ ContinueReply \/ RepeatEmpty
        \/ CompactionDue \/ ReplyIsFinal \/ Compact \/ Settle => conv' = conv
  BY DEF AdvanceCancelled, BeforeModel, IterationLimit, RecoverCompacting, RecoverRetrying,
         GiveUp, CallTools, ContinueReply, RepeatEmpty, CompactionDue, ReplyIsFinal, Compact,
         Settle
<1>2. RequestFails \/ Proceed \/ StartBatch \/ ReportDone \/ Cancel \/ SummaryFails \/ WakeUp
        \/ NoMoreRuns \/ UNCHANGED vars => conv' = conv
  BY DEF RequestFails, TurnEnds, Proceed, StartBatch, ReportDone, Cancel, SummaryFails,
         WakeUp, NoMoreRuns, vars
<1> QED
  BY <1>1, <1>2, Zenon DEF Next, Advance, Provider, Handle

LEMMA CallsRecorded ==
  ASSUME ConvTypeOK, nextId \in Nat, \A id \in CalledIds(conv) : id < nextId, ModelCallsTools
  PROVE  /\ ConvTypeOK' /\ Replied(conv')
         /\ \E tools \in ToolChoices :
              /\ todo' = NewCalls(tools) /\ nextId' = nextId + Len(NewCalls(tools))
              /\ CalledIds(conv') = CalledIds(conv) \cup FreshIds(tools)
         /\ AnsweredIds(conv') = AnsweredIds(conv)
         /\ CallsOnce(conv) => CallsOnce(conv')
         /\ AnswersOnce(conv) => AnswersOnce(conv')
         /\ HasBinary(conv') => HasBinary(conv)
<1>1. PICK tools \in ToolChoices, text \in ReplyTexts :
        /\ conv' = Append(conv, AssistantCalls(text, NewCalls(tools)))
        /\ todo' = NewCalls(tools) /\ nextId' = nextId + Len(NewCalls(tools))
  BY DEF ModelCallsTools, TurnEnds
<1>2. text \in Texts
  BY DEF ReplyTexts, Texts
<1> DEFINE d == conv \o <<AssistantCalls(text, NewCalls(tools))>>
<1>3. /\ d \in Seq(Entries) /\ d = Append(conv, AssistantCalls(text, NewCalls(tools)))
      /\ CalledIds(d) = CalledIds(conv) \cup FreshIds(tools)
      /\ AnsweredIds(d) = AnsweredIds(conv)
      /\ CallsOnce(conv) => CallsOnce(d)
      /\ AnswersOnce(conv) => AnswersOnce(d)
      /\ HasBinary(d) => HasBinary(conv)
      /\ Replied(d)
  BY <1>2, CallsMade
<1> HIDE DEF d
<1>4. conv' = d
  BY <1>1, <1>3
<1> QED
  BY <1>1, <1>3, <1>4 DEF ConvTypeOK

\* The calls of the round that have not been executed to the end.
Pending == IdsOf(running) \cup IdsOf(todo)

\* Ids in the conversation are those of calls made so far, no call is made or
\* answered twice, and the calls of the round have no answer yet.
ConvIds ==
  /\ CallsOnce(conv) /\ AnswersOnce(conv)
  /\ \A id \in CalledIds(conv) \cup AnsweredIds(conv) : id \in Nat /\ id < nextId
  /\ Pending \cap AnsweredIds(conv) = {}

\* The calls that a batch takes and those behind it are the ones that waited.
LEMMA BatchTaken ==
  ASSUME todo \in Seq(CallType), StartBatch
  PROVE  IdsOf(running') \cup IdsOf(todo') = IdsOf(todo)
<1>1. PICK n \in DOMAIN todo : running' = SubSeq(todo, 1, n) /\ todo' = LaterBatches(todo, n)
  BY DEF StartBatch
<1>2. /\ DOMAIN running' = 1..n /\ \A i \in 1..n : running'[i] = todo[i]
      /\ todo' \in Seq(CallType)
      /\ \A i \in DOMAIN todo' : n + i \in DOMAIN todo /\ todo'[i] = todo[n + i]
  BY <1>1, BatchesSplit
<1>3. DOMAIN todo = 1..Len(todo) /\ Len(todo) \in Nat /\ n \in 1..Len(todo)
  OBVIOUS
<1>4. IdsOf(running') \subseteq IdsOf(todo)
  BY <1>2, <1>3 DEF IdsOf
<1>5. IdsOf(todo') \subseteq IdsOf(todo)
  BY <1>2 DEF IdsOf
<1>6. Len(todo') = Len(todo) - n
  BY <1>1, <1>3, SubSeqProperties DEF LaterBatches
<1>7. ASSUME NEW i \in DOMAIN todo
      PROVE  todo[i].id \in IdsOf(running') \cup IdsOf(todo')
  <2>1. CASE i \in 1..n
    BY <1>2, <2>1 DEF IdsOf
  <2>2. CASE i \notin 1..n
    <3>1. i - n \in DOMAIN todo' /\ n + (i - n) = i
      BY <1>2, <1>3, <1>6, <2>2
    <3>2. todo'[i - n] = todo[i]
      BY <1>2, <3>1
    <3> QED
      BY <3>1, <3>2 DEF IdsOf
  <2> QED
    BY <2>1, <2>2
<1> QED
  BY <1>4, <1>5, <1>7 DEF IdsOf

\* A step takes calls out of the round, unless the model makes new ones.
LEMMA PendingShrinks ==
  ASSUME CallsTypeOK, [Next]_vars
  PROVE  /\ Pending' \subseteq Pending \/ ModelCallsTools
         /\ nextId' = nextId \/ ModelCallsTools \/ ModelCallsCutOff
<1> DEFINE Same == running' = running /\ todo' = todo /\ nextId' = nextId
<1>1. CASE StartWithInput \/ StartResumed
  <2>1. Same
    BY <1>1, Zenon DEF StartWithInput, StartResumed, Begin, batch
  <2> QED
    BY <2>1 DEF Pending
<1>2. CASE ReportDone \/ ReportError
  <2>1. running' = <<>> /\ todo' = <<>> /\ nextId' = nextId
    BY <1>2 DEF ReportDone, ReportError, Drop
  <2> QED
    BY <2>1 DEF Pending, IdsOf
<1>3. CASE Advance
  <2>1. Same
    BY <1>3 DEF Advance, AdvanceCancelled, BeforeModel, IterationLimit, SendRequest,
       RecoverStripping, RecoverCompacting, RecoverRetrying, GiveUp, CallTools,
       ContinueReply, RepeatEmpty, CompactionDue, ReplyIsFinal, ToolRoundEnds,
       Compact, Settle, Finish, batch
  <2> QED
    BY <2>1 DEF Pending
<1>4. CASE RequestFails \/ ModelRepliesCutOff \/ ModelReplies \/ SummaryRecovers \/ RequestCancelled
  <2>1. Same
    BY <1>4 DEF RequestFails, ModelRepliesCutOff, ModelReplies, SummaryRecovers,
       RequestCancelled, TurnEnds, batch
  <2> QED
    BY <2>1 DEF Pending
<1>5. CASE ModelCallsCutOff
  <2>1. running' = running /\ todo' = todo
    BY <1>5 DEF ModelCallsCutOff, TurnEnds
  <2> QED
    BY <1>5, <2>1 DEF Pending
<1>6. CASE SummaryFails \/ WakeUp \/ CompactionEnds
  <2>1. Same
    BY <1>6 DEF SummaryFails, WakeUp, CompactionEnds, batch
  <2> QED
    BY <2>1 DEF Pending
<1>7. CASE EndBatch
  <2>1. running' = <<>> /\ (todo' = <<>> \/ todo' = todo) /\ nextId' = nextId
    BY <1>7 DEF EndBatch
  <2> QED
    BY <2>1 DEF Pending, IdsOf
<1>8. CASE StartBatch
  <2>1. IdsOf(running') \cup IdsOf(todo') = IdsOf(todo)
    BY <1>8, BatchTaken DEF CallsTypeOK
  <2>2. nextId' = nextId
    BY <1>8 DEF StartBatch
  <2> QED
    BY <2>1, <2>2 DEF Pending
<1>9. CASE Cancel \/ DeliverLate \/ Proceed \/ NoMoreRuns \/ UNCHANGED vars
  <2>1. Same
    BY <1>9 DEF Cancel, DeliverLate, Receive, Proceed, NoMoreRuns, vars, batch
  <2> QED
    BY <2>1 DEF Pending
<1> QED
  BY <1>1, <1>2, <1>3, <1>4, <1>5, <1>6, <1>7, <1>8, <1>9 DEF Next, Provider, Handle

\* The ids of the round are of calls made so far.
LEMMA PendingMade ==
  ASSUME CallsTypeOK, CallsOrdered, RunningOrdered
  PROVE  /\ \A id \in IdsOf(running) : id \in Nat /\ id <= lastRun
         /\ \A id \in IdsOf(todo) : id \in Nat /\ lastRun < id
         /\ \A id \in Pending : id \in Nat /\ id < nextId
         /\ IdsOf(running) \cap IdsOf(todo) = {}
<1>1. lastRun \in Nat /\ nextId \in Nat /\ lastRun < nextId
  BY DEF CallsTypeOK, CallsOrdered
<1>2. /\ \A i \in DOMAIN running : running[i].id \in Nat
      /\ \A i \in DOMAIN todo : todo[i].id \in Nat
  <2>1. /\ \A i \in DOMAIN running : running[i] \in CallType
        /\ \A i \in DOMAIN todo : todo[i] \in CallType
    BY DEF CallsTypeOK
  <2> QED
    BY <2>1 DEF CallType
<1>3. \A id \in IdsOf(running) : id \in Nat /\ id <= lastRun
  BY <1>2 DEF IdsOf, RunningOrdered
<1>4. \A id \in IdsOf(todo) : id \in Nat /\ lastRun < id /\ id < nextId
  BY <1>2 DEF IdsOf, CallsOrdered
<1> QED
  BY <1>1, <1>3, <1>4 DEF Pending

LEMMA ConvIdsStep ==
  /\ CallsTypeOK /\ CallsOrdered /\ RunningOrdered /\ Placed /\ ConvTypeOK /\ ConvIds
  /\ [Next]_vars
  => ConvTypeOK' /\ ConvIds'
<1> SUFFICES ASSUME CallsTypeOK, CallsOrdered, RunningOrdered, Placed, ConvTypeOK, ConvIds,
                    [Next]_vars
             PROVE  ConvTypeOK' /\ ConvIds'
  OBVIOUS
<1>1. nextId \in Nat /\ running \in Seq(CallType) /\ todo \in Seq(CallType)
  BY DEF CallsTypeOK
<1>2. /\ \A id \in IdsOf(running) : id \in Nat /\ id <= lastRun
      /\ \A id \in IdsOf(todo) : id \in Nat /\ lastRun < id
      /\ \A id \in Pending : id \in Nat /\ id < nextId
      /\ IdsOf(running) \cap IdsOf(todo) = {}
  BY PendingMade
<1>3. CASE ModelCallsTools
  <2>1. /\ ConvTypeOK'
        /\ \E tools \in ToolChoices :
             /\ todo' = NewCalls(tools) /\ nextId' = nextId + Len(NewCalls(tools))
             /\ CalledIds(conv') = CalledIds(conv) \cup FreshIds(tools)
        /\ AnsweredIds(conv') = AnsweredIds(conv)
        /\ CallsOnce(conv') /\ AnswersOnce(conv')
    BY <1>1, <1>3, CallsRecorded DEF ConvIds
  <2>2. PICK tools \in ToolChoices :
             /\ todo' = NewCalls(tools) /\ nextId' = nextId + Len(NewCalls(tools))
             /\ CalledIds(conv') = CalledIds(conv) \cup FreshIds(tools)
    BY <2>1
  <2>3. /\ \A id \in FreshIds(tools) : id \in Nat /\ id >= nextId /\ id < nextId'
        /\ IdsOf(todo') = FreshIds(tools) /\ Len(NewCalls(tools)) \in Nat
    BY <1>1, <2>2, FreshIdsAre, NewCallsInOrder DEF FreshIds, IdsOf
  <2>4. running' = <<>>
    BY <1>3 DEF ModelCallsTools, TurnEnds, RunningOrdered
  <2>5. Pending' = FreshIds(tools)
    BY <2>3, <2>4 DEF Pending, IdsOf
  <2>6. \A id \in CalledIds(conv) \cup AnsweredIds(conv) : id \in Nat /\ id < nextId
    BY DEF ConvIds
  <2>7. \A id \in Nat : id < nextId => id < nextId'
    BY <1>1, <2>2, <2>3
  <2>8. Pending' \cap AnsweredIds(conv') = {}
    <3> SUFFICES ASSUME NEW id \in FreshIds(tools), id \in AnsweredIds(conv) PROVE FALSE
      BY <2>1, <2>5
    <3>1. id \in Nat /\ id >= nextId /\ id < nextId
      BY <2>3, <2>6
    <3> QED
      BY <1>1, <3>1
  <2>9. \A id \in CalledIds(conv') \cup AnsweredIds(conv') : id \in Nat /\ id < nextId'
    BY <2>1, <2>2, <2>3, <2>6, <2>7
  <2> QED
    BY <2>1, <2>8, <2>9 DEF ConvIds
<1>4. CASE ModelCallsCutOff
  <2>1. /\ ConvTypeOK'
        /\ \E tools \in ToolChoices :
             /\ nextId' = nextId + Len(NewCalls(tools))
             /\ CalledIds(conv') = CalledIds(conv) \cup FreshIds(tools)
             /\ AnsweredIds(conv') = AnsweredIds(conv) \cup FreshIds(tools)
        /\ CallsOnce(conv') /\ AnswersOnce(conv')
    BY <1>1, <1>4, CutOffCallsAnswered DEF ConvIds
  <2>2. PICK tools \in ToolChoices :
             /\ nextId' = nextId + Len(NewCalls(tools))
             /\ CalledIds(conv') = CalledIds(conv) \cup FreshIds(tools)
             /\ AnsweredIds(conv') = AnsweredIds(conv) \cup FreshIds(tools)
    BY <2>1
  <2>3. /\ \A id \in FreshIds(tools) : id \in Nat /\ id >= nextId /\ id < nextId'
        /\ Len(NewCalls(tools)) \in Nat
    BY <1>1, <2>2, FreshIdsAre, NewCallsInOrder
  <2>4. Pending' = Pending
    BY <1>4 DEF ModelCallsCutOff, TurnEnds, Pending
  <2>5. \A id \in CalledIds(conv) \cup AnsweredIds(conv) : id \in Nat /\ id < nextId
    BY DEF ConvIds
  <2>6. \A id \in Nat : id < nextId => id < nextId'
    BY <1>1, <2>2, <2>3
  <2>7. Pending \cap FreshIds(tools) = {}
    <3> SUFFICES ASSUME NEW id \in FreshIds(tools), id \in Pending PROVE FALSE
      OBVIOUS
    <3>1. id \in Nat /\ id >= nextId /\ id < nextId
      BY <1>2, <2>3
    <3> QED
      BY <1>1, <3>1
  <2>8. Pending' \cap AnsweredIds(conv') = {}
    BY <2>2, <2>4, <2>7 DEF ConvIds
  <2>9. \A id \in CalledIds(conv') \cup AnsweredIds(conv') : id \in Nat /\ id < nextId'
    BY <2>2, <2>3, <2>5, <2>6
  <2> QED
    BY <2>1, <2>8, <2>9 DEF ConvIds
<1>5. CASE ~ModelCallsTools /\ ~ModelCallsCutOff
  <2>1. Pending' \subseteq Pending /\ nextId' = nextId
    BY <1>5, PendingShrinks
  <2>2. ConvTypeOK' /\ Keeps(conv', conv) => ConvTypeOK' /\ ConvIds'
    BY <2>1 DEF Keeps, ConvIds
  <2>3. CASE conv' = conv
    BY <2>2, <2>3 DEF ConvTypeOK, Keeps
  <2>4. CASE StartWithInput
    <3>1. /\ ConvTypeOK' /\ CalledIds(conv') = CalledIds(conv)
          /\ AnsweredIds(conv') = AnsweredIds(conv)
          /\ CallsOnce(conv') /\ AnswersOnce(conv')
      BY <2>4, InputTaken DEF ConvIds
    <3> QED
      BY <2>1, <3>1 DEF ConvIds
  <2>5. CASE StartResumed
    <3>1. /\ ConvTypeOK' /\ CalledIds(conv') = CalledIds(conv)
          /\ AnsweredIds(conv') \subseteq AnsweredIds(conv) \cup CalledIds(conv)
          /\ CallsOnce(conv') /\ AnswersOnce(conv')
      BY <1>1, <2>5, ResumedWithAnswers DEF ConvIds, OpenCalls
    <3>2. at = "idle"
      BY <2>5, Zenon DEF StartResumed, Begin
    <3>3. Pending = {}
      BY <3>2 DEF RunningOrdered, Pending, IdsOf
    <3> QED
      BY <2>1, <3>1, <3>3 DEF ConvIds
  <2>6. CASE SendRequest
    BY <2>2, <2>6, RequestPrepared
  <2>7. CASE ModelReplies \/ ModelRepliesCutOff
    BY <2>2, <2>7, RepliesRecorded
  <2>8. CASE \/ RequestCancelled \/ RecoverStripping \/ SummaryRecovers \/ CompactionEnds
             \/ ToolRoundEnds \/ Finish \/ ReportError
    BY <2>2, <2>8, HistoryKept
  <2>9. CASE EndBatch
    <3>1. IdsOf(running) \cap AnsweredIds(conv) = {}
      BY DEF ConvIds, Pending
    <3>2. \A k, l \in DOMAIN running : k < l => running[k].id < running[l].id
      BY DEF RunningOrdered
    <3>3. /\ ConvTypeOK' /\ CalledIds(conv') \subseteq CalledIds(conv)
          /\ AnsweredIds(conv') \subseteq AnsweredIds(conv) \cup IdsOf(running)
          /\ CallsOnce(conv) /\ AnswersOnce(conv) => CallsOnce(conv') /\ AnswersOnce(conv')
      BY <1>1, <2>9, <3>1, <3>2, BatchRecorded
    <3>4. running' = <<>> /\ (todo' = <<>> \/ todo' = todo)
      BY <2>9 DEF EndBatch
    <3>5. Pending' \subseteq IdsOf(todo)
      BY <3>4 DEF Pending, IdsOf
    <3>6. Pending' \cap AnsweredIds(conv') = {}
      BY <1>2, <3>3, <3>5 DEF ConvIds, Pending
    <3>7. \A id \in CalledIds(conv') \cup AnsweredIds(conv') : id \in Nat /\ id < nextId'
      BY <1>2, <2>1, <3>3 DEF ConvIds, Pending
    <3> QED
      BY <3>3, <3>6, <3>7 DEF ConvIds
  <2>10. CASE DeliverLate
    <3>1. /\ ConvTypeOK' /\ CalledIds(conv') = CalledIds(conv)
          /\ AnsweredIds(conv') = AnsweredIds(conv)
          /\ CallsOnce(conv') /\ AnswersOnce(conv')
      BY <2>10, LateReceived DEF ConvIds
    <3> QED
      BY <2>1, <3>1 DEF ConvIds
  <2> QED
    BY <1>5, <2>3, <2>4, <2>5, <2>6, <2>7, <2>8, <2>9, <2>10, ConvChanges
<1> QED
  BY <1>3, <1>4, <1>5

---------------------------------------------------------------------------
(* Rounds of tools: nothing but the calls of the round is open. *)

InRound ==
  \/ phase = "Response" /\ resp.status = "ToolCalls"
  \/ at # "Error" /\ phase = "AfterTools"
  \/ at = "Tools"

\* A request has its calls and results in pairs; while a round goes on, and
\* nobody cancelled it, the calls without a result are those of the round.
RoundOpen ==
  /\ at = "streaming" => Matched(conv) /\ OpenCalls(conv) = {}
  /\ ~cancelled /\ InRound => OpenCalls(conv) \subseteq Pending

LEMMA RoundOpenStep ==
  /\ CallsTypeOK /\ CallsOrdered /\ RunningOrdered /\ Placed /\ ConvTypeOK /\ ConvIds
  /\ RoundOpen /\ [Next]_vars
  => RoundOpen'
<1> SUFFICES ASSUME CallsTypeOK, CallsOrdered, RunningOrdered, Placed, ConvTypeOK, ConvIds,
                    RoundOpen, [Next]_vars
             PROVE  RoundOpen'
  OBVIOUS
<1>1. nextId \in Nat /\ running \in Seq(CallType) /\ todo \in Seq(CallType)
  BY DEF CallsTypeOK
<1> USE DEF Placed, Awaiting, Checkpoints, InRound, RoundOpen
<1>2. CASE SendRequest
  <2>1. at' = "streaming" /\ phase' = "Done"
    BY <1>2 DEF SendRequest
  <2> QED
    BY <1>2, <2>1, RequestPrepared
<1>3. CASE ModelCallsTools
  <2>1. at' = "Assistant" /\ at = "streaming"
    BY <1>3, Zenon DEF ModelCallsTools, TurnEnds
  <2>2. /\ \E tools \in ToolChoices :
             /\ todo' = NewCalls(tools)
             /\ CalledIds(conv') = CalledIds(conv) \cup FreshIds(tools)
        /\ AnsweredIds(conv') = AnsweredIds(conv)
    BY <1>1, <1>3, CallsRecorded DEF ConvIds
  <2>3. PICK tools \in ToolChoices :
             /\ todo' = NewCalls(tools)
             /\ CalledIds(conv') = CalledIds(conv) \cup FreshIds(tools)
    BY <2>2
  <2>4. FreshIds(tools) \subseteq Pending'
    BY <2>3 DEF Pending, IdsOf, FreshIds
  <2>5. OpenCalls(conv') \subseteq FreshIds(tools)
    BY <2>1, <2>2, <2>3 DEF OpenCalls
  <2> QED
    BY <2>1, <2>4, <2>5
<1>4. CASE StartBatch
  <2>1. /\ at = "CallTools" /\ at' = "executing"
        /\ UNCHANGED <<conv, phase, cancelled>>
    BY <1>4 DEF StartBatch
  <2>2. running = <<>> /\ Pending' = IdsOf(todo)
    BY <1>1, <1>4, <2>1, BatchTaken DEF RunningOrdered, Pending
  <2>3. Pending = Pending'
    <3>1. IdsOf(running) = {}
      BY <2>2 DEF IdsOf
    <3>2. Pending = IdsOf(todo)
      BY <3>1 DEF Pending
    <3> QED
      BY <2>2, <3>2
  <2>4. OpenCalls(conv') = OpenCalls(conv)
    BY <2>1
  <2> QED
    BY <2>1, <2>3, <2>4
<1>5. CASE EndBatch
  <2>1. IdsOf(running) \cap AnsweredIds(conv) = {}
    BY DEF ConvIds, Pending
  <2>2. \A k, l \in DOMAIN running : k < l => running[k].id < running[l].id
    BY DEF RunningOrdered
  <2>3. /\ CalledIds(conv') \subseteq CalledIds(conv)
        /\ ~cancelled /\ at' # "Finished" =>
             AnsweredIds(conv') = AnsweredIds(conv) \cup IdsOf(running)
    BY <1>1, <1>5, <2>1, <2>2, BatchRecorded
  <2>4. /\ at = "executing" /\ cancelled' = cancelled
        /\ \/ at' = "Finished" /\ phase' = "Done"
           \/ at' = "CallTools" /\ phase' = phase /\ todo' = todo
           \/ at' = "advance" /\ phase' = phase /\ (~cancelled => todo = <<>>)
    BY <1>5 DEF EndBatch
  <2>5. CASE at' = "Finished" /\ phase' = "Done"
    BY <2>5
  <2>6. CASE ~cancelled /\ at' \in {"CallTools", "advance"} /\ IdsOf(todo) \subseteq IdsOf(todo')
    <3>1. OpenCalls(conv) \subseteq IdsOf(running) \cup IdsOf(todo)
      BY <2>4, <2>6 DEF Pending
    <3>2. OpenCalls(conv') \subseteq IdsOf(todo)
      BY <2>3, <2>6, <3>1 DEF OpenCalls
    <3> QED
      BY <2>6, <3>2 DEF Pending
  <2>7. CASE cancelled /\ at' \in {"CallTools", "advance"}
    BY <2>4, <2>7
  <2>8. todo = <<>> => IdsOf(todo) = {}
    BY DEF IdsOf
  <2> QED
    BY <2>4, <2>5, <2>6, <2>7, <2>8
<1>6. CASE ToolRoundEnds
  <2>1. /\ at = "advance" /\ phase = "AfterTools" /\ at' = "Tools" /\ ~cancelled
        /\ Pending' = Pending
    BY <1>6, Zenon DEF ToolRoundEnds, Advancing, Pending, batch
  <2>2. CalledIds(conv') \subseteq CalledIds(conv) /\ AnsweredIds(conv') = AnsweredIds(conv)
    BY <1>6, HistoryKept, HistoryCleaned DEF Keeps
  <2>3. OpenCalls(conv') \subseteq OpenCalls(conv)
    BY <2>2 DEF OpenCalls
  <2> QED
    BY <2>1, <2>3
<1>7. CASE Cancel \/ Proceed \/ AdvanceCancelled \/ CallTools \/ UNCHANGED vars \/ NoMoreRuns
  <2>1. /\ conv' = conv /\ Pending' = Pending
        /\ at' = "streaming" => at = "streaming"
        /\ ~cancelled' => ~cancelled
    BY <1>7 DEF Cancel, Proceed, AdvanceCancelled, CallTools, NoMoreRuns, vars, batch, Pending
  <2>2. ~cancelled' /\ InRound' => InRound
    BY <1>7 DEF Cancel, Proceed, AdvanceCancelled, CallTools, Answered, Advancing, NoMoreRuns, vars
  <2> QED
    BY <2>1, <2>2
<1>8. CASE StartWithInput \/ StartResumed
  <2>1. at' = "advance" /\ phase' = "Ready"
    BY <1>8, Zenon DEF StartWithInput, StartResumed, Begin
  <2> QED
    BY <2>1
<1>9. CASE ModelReplies \/ ModelRepliesCutOff \/ ModelCallsCutOff \/ RequestFails \/ RequestCancelled
  <2>1. at' = "Assistant" /\ phase' = "Response"
        /\ resp'.status \in {"Failed", "Continue", "CompactionNeeded", "Done"}
    <3>1. CASE ModelReplies
      <4>1. PICK text \in ReplyTexts, status \in {"CompactionNeeded", "Done"} :
               TurnEnds(Answer(status, ReplyText(text)), AddReply(conv, text))
        BY <3>1 DEF ModelReplies
      <4> QED
        BY <4>1 DEF TurnEnds, Answer
    <3>2. CASE ModelRepliesCutOff \/ ModelCallsCutOff
      <4>1. PICK text, c : TurnEnds(Answer("Continue", text), c)
        BY <3>2 DEF ModelRepliesCutOff, ModelCallsCutOff
      <4> QED
        BY <4>1 DEF TurnEnds, Answer
    <3>3. CASE RequestFails \/ RequestCancelled
      <4>1. PICK kind, c : TurnEnds(Failed(kind), c)
        BY <3>3 DEF RequestFails, RequestCancelled
      <4> QED
        BY <4>1 DEF TurnEnds, Failed
    <3> QED
      BY <1>9, <3>1, <3>2, <3>3
  <2> QED
    BY <2>1
<1>10. CASE \/ BeforeModel \/ IterationLimit \/ RecoverStripping \/ RecoverCompacting
            \/ RecoverRetrying \/ GiveUp \/ ContinueReply \/ RepeatEmpty \/ CompactionDue
            \/ ReplyIsFinal \/ Compact \/ Settle \/ Finish
  <2>1. at' \notin {"streaming", "Tools"} /\ phase' \notin {"Response", "AfterTools"}
    BY <1>10 DEF BeforeModel, IterationLimit, RecoverStripping, RecoverCompacting,
         RecoverRetrying, GiveUp, ContinueReply, RepeatEmpty, CompactionDue, ReplyIsFinal,
         Compact, Settle, Finish, Advancing, Answered, Recovering, Fail, Recovered
  <2> QED
    BY <2>1
<1>11. CASE \/ SummaryRecovers \/ SummaryFails \/ WakeUp \/ CompactionEnds \/ DeliverLate
            \/ ReportDone \/ ReportError
  <2>1. at' \notin {"streaming", "Tools"} /\ phase' \notin {"Response", "AfterTools"}
    BY <1>11 DEF SummaryRecovers, SummaryFails, WakeUp, CompactionEnds, DeliverLate, Receive,
         ReportDone, ReportError, Drop, Fail, Recovered
  <2> QED
    BY <2>1
<1> QED
  BY <1>2, <1>3, <1>4, <1>5, <1>6, <1>7, <1>8, <1>9, <1>10, <1>11
     DEF Next, Advance, Provider, Handle

---------------------------------------------------------------------------
(* Failed requests between two responses. *)

\* The failures that stripping may have paid for: one for the attachments of
\* before and one for each that late input brought, but for those that are still
\* there.  The last failure is not recovered from.
Strips == brought + (IF HasBinary(conv) THEN 0 ELSE 1)
Unrecovered == IF at = "Error" \/ (phase = "Response" /\ resp.status = "Failed") THEN 1 ELSE 0

\* Every failure since the last response was paid for by a compaction, a retry
\* or attachments, but one that is still to be recovered from.
FailureBudget ==
  /\ at = "idle" \/ phase = "AfterTools" \/ (phase = "Response" /\ resp.status # "Failed") =>
       failures = 0
  /\ failures <= compactions + retries + Strips + Unrecovered

\* Only input and the results of tools bring attachments.
LEMMA NoNewBinary ==
  ASSUME ConvTypeOK, nextId \in Nat, ConvIds, [Next]_vars
  PROVE  \/ HasBinary(conv') => HasBinary(conv)
         \/ StartWithInput \/ StartResumed \/ EndBatch \/ DeliverLate
<1>1. SendRequest => (HasBinary(conv') => HasBinary(conv))
  BY RequestPrepared DEF Keeps
<1>2. ModelCallsTools \/ ModelCallsCutOff => (HasBinary(conv') => HasBinary(conv))
  <2>1. \A id \in CalledIds(conv) \cup AnsweredIds(conv) : id < nextId
    BY DEF ConvIds
  <2>2. ModelCallsTools => (HasBinary(conv') => HasBinary(conv))
    BY <2>1, CallsRecorded
  <2>3. ModelCallsCutOff => (HasBinary(conv') => HasBinary(conv))
    BY <2>1, CutOffCallsAnswered
  <2> QED
    BY <2>2, <2>3
<1>3. ModelReplies \/ ModelRepliesCutOff => (HasBinary(conv') => HasBinary(conv))
  BY RepliesRecorded DEF Keeps
<1>4. RequestCancelled \/ RecoverStripping \/ SummaryRecovers \/ CompactionEnds
        \/ ToolRoundEnds \/ Finish \/ ReportError =>
      (HasBinary(conv') => HasBinary(conv))
  BY HistoryKept DEF Keeps
<1>5. conv' = conv => (HasBinary(conv') => HasBinary(conv))
  OBVIOUS
<1> QED
  BY <1>1, <1>2, <1>3, <1>4, <1>5, ConvChanges

\* One more failure, not recovered from; attachments paid for one.
LEMMA Paying ==
  ASSUME NEW c \in Nat, NEW r \in Nat, NEW f \in Nat, NEW s \in Nat, NEW t \in Nat
  PROVE  /\ s <= t /\ f <= c + r + s + 0 => f <= c + r + t + 0 /\ f <= c + r + t + 1
         /\ s <= t /\ f <= c + r + s + 0 => f + 1 <= c + r + t + 1
         /\ f <= c + r + s + 1 => f <= c + r + (s + 1) + t
OBVIOUS

LEMMA FailureBudgetStep ==
  /\ ControlTypeOK /\ BudgetTypeOK /\ CallsTypeOK /\ Placed /\ ConvTypeOK /\ ConvIds
  /\ FailureBudget /\ [Next]_vars
  => FailureBudget'
<1> SUFFICES ASSUME ControlTypeOK, BudgetTypeOK, CallsTypeOK, Placed, ConvTypeOK, ConvIds,
                    FailureBudget, [Next]_vars
             PROVE  FailureBudget'
  OBVIOUS
<1>a. compactions \in Nat /\ retries \in Nat /\ failures \in Nat /\ brought \in Nat
  BY LimitAssumption DEF BudgetTypeOK
<1>b. \/ HasBinary(conv') => HasBinary(conv)
      \/ StartWithInput \/ StartResumed \/ EndBatch \/ DeliverLate
  BY NoNewBinary DEF CallsTypeOK
<1>c. /\ Strips \in Nat /\ (brought' \in Nat => Strips' \in Nat)
      /\ Unrecovered \in {0, 1} /\ Unrecovered' \in {0, 1}
  BY <1>a DEF Strips, Unrecovered
<1>d. (HasBinary(conv') => HasBinary(conv)) /\ brought' = brought => Strips <= Strips'
  BY <1>a DEF Strips
\* A step that pays for what it does.
<1>e. ASSUME \/ failures' = 0 /\ brought' \in Nat /\ compactions' \in Nat /\ retries' \in Nat
             \/ /\ HasBinary(conv') => HasBinary(conv)
                /\ UNCHANGED <<failures, brought, compactions, retries>>
                /\ Unrecovered <= Unrecovered'
      PROVE  failures' <= compactions' + retries' + Strips' + Unrecovered'
  BY <1>a, <1>c, <1>d, <1>e DEF FailureBudget
<1>f. Unrecovered = 1 <=> at = "Error" \/ (phase = "Response" /\ resp.status = "Failed")
  BY DEF Unrecovered
<1>g. Unrecovered' = 1 <=> at' = "Error" \/ (phase' = "Response" /\ resp'.status = "Failed")
  BY DEF Unrecovered
<1>k. failures <= compactions + retries + Strips + Unrecovered
  BY DEF FailureBudget
<1> DEFINE Clear == failures' = 0 /\ brought' \in Nat /\ compactions' \in Nat /\ retries' \in Nat
           Paid == UNCHANGED <<failures, brought, compactions, retries>> /\ Unrecovered <= Unrecovered'
           Closed == at' = "idle" \/ phase' = "AfterTools" \/ (phase' = "Response" /\ resp'.status # "Failed")
<1>h. Clear => FailureBudget'
  BY <1>e DEF FailureBudget
<1>i. (HasBinary(conv') => HasBinary(conv)) /\ Paid /\ ~Closed => FailureBudget'
  BY <1>e DEF FailureBudget
<1>j. (HasBinary(conv') => HasBinary(conv)) /\ Paid /\ failures = 0 => FailureBudget'
  BY <1>e DEF FailureBudget
<1> USE DEF Placed, Awaiting, Checkpoints, recovery, history, limits, TurnEnds, Failed, Answer,
        NoAnswer, RecordSuccess, Advancing, Recovering, Answered, Fail, Recovered
<1>1. CASE StartWithInput \/ StartResumed
  <2>1. at = "idle" /\ UNCHANGED <<failures, brought, compactions, retries>>
    BY <1>1, Zenon DEF StartWithInput, StartResumed, Begin
  <2>2. failures = 0
    BY <2>1 DEF FailureBudget
  <2> QED
    BY <1>a, <1>h, <2>1, <2>2
<1>2. CASE ReportDone \/ ReportError
  <2>1. failures' = 0 /\ brought' = 0 /\ compactions' = 0 /\ retries' = 0
    BY <1>2 DEF ReportDone, ReportError, Drop
  <2> QED
    BY <1>h, <2>1
<1>3. CASE ModelCallsTools \/ ModelCallsCutOff \/ ModelReplies \/ ModelRepliesCutOff
  <2>1. failures' = 0 /\ brought' = 0 /\ compactions' = 0 /\ retries' = 0
    BY <1>3 DEF ModelCallsTools, ModelCallsCutOff, ModelReplies, ModelRepliesCutOff
  <2> QED
    BY <1>h, <2>1
<1>4. CASE EndBatch
  <2>1. at = "executing" /\ UNCHANGED <<failures, brought, compactions, retries>>
    BY <1>4 DEF EndBatch
  <2>2. failures = 0
    BY <2>1 DEF FailureBudget
  <2> QED
    BY <1>a, <1>h, <2>1, <2>2
<1>5. CASE StartBatch
  <2>1. at = "CallTools" /\ UNCHANGED <<failures, brought, compactions, retries>>
    BY <1>5 DEF StartBatch
  <2>2. failures = 0
    BY <2>1 DEF FailureBudget
  <2> QED
    BY <1>a, <1>h, <2>1, <2>2
<1>6. CASE CallTools
  <2>1. /\ phase = "Response" /\ resp.status = "ToolCalls"
        /\ UNCHANGED <<failures, brought, compactions, retries>>
    BY <1>6 DEF CallTools
  <2>2. failures = 0
    BY <2>1 DEF FailureBudget
  <2> QED
    BY <1>a, <1>h, <2>1, <2>2
<1>7. CASE RequestFails \/ RequestCancelled
  <2>1. PICK kind, c : TurnEnds(Failed(kind), c)
    BY <1>7 DEF RequestFails, RequestCancelled
  <2>2. at = "streaming" /\ failures' = failures + 1 /\ UNCHANGED <<brought, compactions, retries>>
    BY <1>7 DEF RequestFails, RequestCancelled
  <2>3. at' = "Assistant" /\ phase' = "Response" /\ resp'.status = "Failed"
    BY <2>1
  <2>4. Unrecovered = 0 /\ Unrecovered' = 1
    BY <1>c, <1>f, <1>g, <2>2, <2>3
  <2>5. HasBinary(conv') => HasBinary(conv)
    BY <1>b, <1>7, <2>2, <2>3, Zenon DEF StartWithInput, StartResumed, Begin, EndBatch,
         DeliverLate
  <2>6. failures' <= compactions' + retries' + Strips' + Unrecovered'
    <3>1. Strips <= Strips'
      BY <1>d, <2>2, <2>5
    <3>2. failures <= compactions + retries + Strips + 0
      BY <1>k, <2>4
    <3>3. failures + 1 <= compactions + retries + Strips' + 1
      <4>1. Strips \in Nat /\ Strips' \in Nat
        BY <1>a, <1>c, <2>2
      <4> QED
        BY <1>a, <3>1, <3>2, <4>1, Paying
    <3> QED
      BY <2>2, <2>4, <3>3
  <2> QED
    BY <2>3, <2>6 DEF FailureBudget
<1>8. CASE RecoverStripping
  <2>1. /\ at = "advance" /\ phase = "Response" /\ resp.status = "Failed"
        /\ phase' = "Ready" /\ at' = "Recovery"
        /\ UNCHANGED <<failures, brought, compactions, retries>> /\ HasBinary(conv)
    BY <1>8 DEF RecoverStripping, StripsBinary
  <2>2. ~HasBinary(conv')
    BY <1>8, HistoryCleaned
  <2>3. Strips = brought /\ Strips' = brought + 1
    BY <1>a, <2>1, <2>2 DEF Strips
  <2>4. Unrecovered = 1
    BY <1>f, <2>1
  <2>5. failures' <= compactions' + retries' + Strips' + Unrecovered'
    <3>1. failures <= compactions + retries + brought + 1
      BY <1>k, <2>3, <2>4
    <3>2. Unrecovered' \in Nat
      BY <1>c
    <3>3. failures <= compactions + retries + (brought + 1) + Unrecovered'
      BY <1>a, <3>1, <3>2, Paying
    <3> QED
      BY <2>1, <2>3, <3>3
  <2> QED
    BY <2>1, <2>5 DEF FailureBudget
<1>9. CASE RecoverCompacting \/ RecoverRetrying
  <2>1. /\ phase' = "Done" /\ at' \in {"summarizing", "sleeping"}
        /\ UNCHANGED <<failures, brought>> /\ conv' = conv
        /\ \/ compactions' = compactions + 1 /\ UNCHANGED retries
           \/ retries' = retries + 1 /\ UNCHANGED compactions
    BY <1>9 DEF RecoverCompacting, RecoverRetrying
  <2>2. Strips' = Strips
    BY <2>1 DEF Strips
  <2>3. failures' <= compactions' + retries' + Strips' + Unrecovered'
    BY <1>a, <1>c, <2>1, <2>2 DEF FailureBudget
  <2> QED
    BY <2>1, <2>3 DEF FailureBudget
<1>10. CASE GiveUp \/ IterationLimit \/ SummaryFails
  <2>1. /\ phase' = "Done" /\ at' = "Error"
        /\ UNCHANGED <<failures, brought, compactions, retries>> /\ conv' = conv
    BY <1>10 DEF GiveUp, IterationLimit, SummaryFails
  <2> QED
    BY <1>c, <1>g, <1>i, <2>1
<1>11. CASE AdvanceCancelled
  <2>1. /\ phase' = phase /\ at' = "Error" /\ resp' = resp
        /\ UNCHANGED <<failures, brought, compactions, retries>> /\ conv' = conv
    BY <1>11 DEF AdvanceCancelled
  <2>2. Unrecovered' = 1
    BY <1>g, <2>1
  <2>3. Closed => failures = 0
    BY <2>1 DEF FailureBudget
  <2> QED
    BY <1>c, <1>i, <1>j, <2>1, <2>2, <2>3
<1>12. CASE Cancel \/ Proceed \/ NoMoreRuns \/ UNCHANGED vars
  <2>1. /\ phase' = phase /\ resp' = resp /\ UNCHANGED <<failures, brought, compactions, retries>>
        /\ conv' = conv
        /\ at' = at \/ (at' = "advance" /\ at # "Error")
    BY <1>12 DEF Cancel, Proceed, NoMoreRuns, vars
  <2>2. Unrecovered <= Unrecovered'
    BY <2>1 DEF Unrecovered
  <2>3. Closed => failures = 0
    BY <2>1 DEF FailureBudget
  <2> QED
    BY <1>i, <1>j, <2>1, <2>2, <2>3
<1>13. CASE \/ BeforeModel \/ SendRequest \/ ContinueReply \/ RepeatEmpty \/ CompactionDue
            \/ ReplyIsFinal \/ ToolRoundEnds \/ Compact \/ Settle \/ Finish
  <2>1. /\ at = "advance" /\ ~(phase = "Response" /\ resp.status = "Failed")
        /\ UNCHANGED <<failures, brought, compactions, retries>>
        /\ at' # "idle" /\ phase' \notin {"AfterTools", "Response"}
    BY <1>13 DEF BeforeModel, SendRequest, ContinueReply, RepeatEmpty, CompactionDue,
         ReplyIsFinal, ToolRoundEnds, Compact, Settle, Finish
  <2>2. Unrecovered = 0
    BY <1>c, <1>f, <2>1
  <2>3. HasBinary(conv') => HasBinary(conv)
    BY <1>b, <2>1, Zenon DEF StartWithInput, StartResumed, Begin, EndBatch,
         DeliverLate
  <2> QED
    BY <1>c, <1>i, <2>1, <2>2, <2>3
<1>14. CASE SummaryRecovers \/ WakeUp \/ CompactionEnds
  <2>1. /\ at \in {"summarizing", "sleeping", "compacting"}
        /\ UNCHANGED <<failures, brought, compactions, retries>>
        /\ at' # "idle" /\ phase' \notin {"AfterTools", "Response"}
    BY <1>14 DEF SummaryRecovers, WakeUp, CompactionEnds
  <2>2. Unrecovered = 0
    BY <1>c, <1>f, <2>1
  <2>3. HasBinary(conv') => HasBinary(conv)
    BY <1>b, <2>1, Zenon DEF StartWithInput, StartResumed, Begin, EndBatch,
         DeliverLate
  <2> QED
    BY <1>c, <1>i, <2>1, <2>2, <2>3
<1>15. CASE DeliverLate
  <2>1. /\ at \in {"BeforeModel", "Settling"} /\ UNCHANGED <<failures, compactions, retries>>
        /\ at' # "idle" /\ phase' \notin {"AfterTools", "Response"}
    BY <1>15 DEF DeliverLate, Receive
  <2>2. Unrecovered = 0
    BY <1>c, <1>f, <2>1
  <2>3. \/ brought' = brought /\ (HasBinary(conv') => HasBinary(conv))
        \/ brought' = brought + 1
    BY <1>15, LateReceived
  <2>4. Strips <= Strips' /\ Strips' \in Nat
    <3>1. CASE brought' = brought + 1
      BY <1>a, <3>1 DEF Strips
    <3>2. CASE brought' = brought /\ (HasBinary(conv') => HasBinary(conv))
      BY <1>a, <1>c, <1>d, <3>2
    <3> QED
      BY <2>3, <3>1, <3>2
  <2>5. failures' <= compactions' + retries' + Strips' + Unrecovered'
    <3>1. failures <= compactions + retries + Strips + 0
      BY <1>k, <2>2
    <3>2. /\ failures <= compactions + retries + Strips' + 0
          /\ failures <= compactions + retries + Strips' + 1
      BY <1>a, <1>c, <2>4, <3>1, Paying
    <3> QED
      BY <1>c, <2>1, <3>2
  <2> QED
    BY <2>1, <2>5 DEF FailureBudget
<1> QED
  BY <1>1, <1>2, <1>3, <1>4, <1>5, <1>6, <1>7, <1>8, <1>9, <1>10, <1>11, <1>12, <1>13, <1>14,
     <1>15
     DEF Next, Advance, Provider, Handle

---------------------------------------------------------------------------
(* What a run leaves for the next one. *)

\* The run has its reply and only has to wind up.
Concluding ==
  \/ phase = "Response" /\ resp.status # "Failed"
  \/ phase = "AfterTools"
  \/ at = "advance" /\ phase \in {"Done", "Finishing"}
  \/ at \in {"advance", "compacting"} /\ phase \in {"Done", "Compact"} /\ finishAfter
  \/ at = "Compaction" /\ phase = "Done"
  \/ at \in {"Settling", "Finished"}

Ended ==
  /\ Concluding => Replied(conv)
  /\ at \in {"idle", "Finished"} => NoReminder(conv)

LEMMA EndedStep ==
  /\ ControlTypeOK /\ CallsTypeOK /\ RunningOrdered /\ Placed /\ ConvTypeOK /\ ConvIds
  /\ Ended /\ [Next]_vars
  => Ended'
<1> SUFFICES ASSUME ControlTypeOK, CallsTypeOK, RunningOrdered, Placed, ConvTypeOK, ConvIds,
                    Ended, [Next]_vars
             PROVE  Ended'
  OBVIOUS
<1>a. nextId \in Nat /\ \A id \in CalledIds(conv) \cup AnsweredIds(conv) : id < nextId
  BY DEF CallsTypeOK, ConvIds
<1> USE DEF Placed, Awaiting, Checkpoints, limits, caller, TurnEnds, Failed, Answer,
        NoAnswer, Advancing, Recovering, Answered, Fail, Recovered
<1>1. CASE StartWithInput \/ StartResumed
  <2>1. at' = "advance" /\ phase' = "Ready"
    BY <1>1, Zenon DEF StartWithInput, StartResumed, Begin
  <2> QED
    BY <2>1 DEF Ended, Concluding
<1>2. CASE ModelCallsTools \/ ModelCallsCutOff \/ ModelReplies \/ ModelRepliesCutOff
  <2>1. at' = "Assistant"
    BY <1>2, Zenon DEF ModelCallsTools, ModelCallsCutOff, ModelReplies, ModelRepliesCutOff
  <2>2. Replied(conv')
    BY <1>a, <1>2, CallsRecorded, CutOffCallsAnswered, RepliesRecorded
  <2> QED
    BY <2>1, <2>2 DEF Ended
<1>3. CASE RequestFails \/ RequestCancelled
  <2>1. PICK kind, c : TurnEnds(Failed(kind), c)
    BY <1>3 DEF RequestFails, RequestCancelled
  <2>2. at' = "Assistant" /\ phase' = "Response" /\ resp'.status = "Failed"
    BY <2>1
  <2> QED
    BY <2>2 DEF Ended, Concluding
<1>4. CASE \/ GiveUp \/ IterationLimit \/ SummaryFails \/ RecoverCompacting \/ RecoverRetrying
           \/ SendRequest \/ WakeUp
  <2>1. at' \in {"Error", "summarizing", "sleeping", "streaming", "Recovery"} /\ phase' \in {"Done", "Ready"}
    BY <1>4 DEF GiveUp, IterationLimit, SummaryFails, RecoverCompacting, RecoverRetrying,
         SendRequest, WakeUp
  <2> QED
    BY <2>1 DEF Ended, Concluding
<1>5. CASE \/ BeforeModel \/ RecoverStripping \/ SummaryRecovers \/ ContinueReply \/ RepeatEmpty
           \/ ToolRoundEnds
  <2>1. at' \in {"BeforeModel", "Recovery", "advance", "Tools"}
        /\ phase' \in {"Model", "Ready", "Compact"} /\ (phase' = "Compact" => at' = "Tools")
    BY <1>5 DEF BeforeModel, RecoverStripping, SummaryRecovers, ContinueReply, RepeatEmpty,
         ToolRoundEnds
  <2> QED
    BY <2>1 DEF Ended, Concluding
<1>6. CASE DeliverLate
  <2>1. at' = "advance" /\ phase' \in {"Model", "Ready"}
    BY <1>6 DEF DeliverLate, Receive
  <2> QED
    BY <2>1 DEF Ended, Concluding
<1>7. CASE Cancel \/ NoMoreRuns \/ UNCHANGED vars
  <2>1. UNCHANGED <<conv, at, phase, resp, finishAfter>>
    BY <1>7 DEF Cancel, NoMoreRuns, vars
  <2> QED
    BY <2>1 DEF Ended, Concluding
<1>8. CASE AdvanceCancelled \/ Proceed
  <2>1. UNCHANGED <<conv, phase, resp, finishAfter>>
    BY <1>8 DEF AdvanceCancelled, Proceed
  <2>2. \/ at' = "Error"
        \/ at' = "advance" /\ at \in Checkpoints \cup {"BeforeModel", "Settling"}
    BY <1>8 DEF AdvanceCancelled, Proceed
  <2>3. Concluding' => Concluding
    BY <2>1, <2>2 DEF Concluding
  <2> QED
    BY <2>1, <2>2, <2>3 DEF Ended
<1>9. CASE CallTools \/ CompactionDue \/ ReplyIsFinal \/ Compact \/ Settle
  <2>1. /\ at = "advance" /\ conv' = conv
        /\ \/ phase = "Response" /\ resp.status # "Failed"
           \/ phase = "Compact" /\ UNCHANGED finishAfter /\ phase' = "Done" /\ at' = "compacting"
           \/ phase = "Done"
        /\ at' \in {"CallTools", "advance", "Error", "compacting", "Settling"}
    BY <1>9 DEF CallTools, CompactionDue, ReplyIsFinal, Compact, Settle
  <2>2. Concluding' => Concluding
    BY <2>1 DEF Concluding
  <2> QED
    BY <2>1, <2>2 DEF Ended
<1>10. CASE CompactionEnds
  <2>1. /\ at = "compacting" /\ at' = "Compaction"
        /\ phase' = IF finishAfter THEN "Done" ELSE "Ready"
    BY <1>10 DEF CompactionEnds
  <2>2. Replied(conv) => Replied(conv')
    BY <1>10, HistoryCleaned
  <2>3. Concluding' => Concluding
    BY <2>1 DEF Concluding
  <2> QED
    BY <2>1, <2>2, <2>3 DEF Ended
<1>11. CASE Finish
  <2>1. at = "advance" /\ phase = "Finishing" /\ at' = "Finished"
    BY <1>11 DEF Finish
  <2>2. NoReminder(conv') /\ (Replied(conv) => Replied(conv'))
    BY <1>11, HistoryCleaned
  <2> QED
    BY <2>1, <2>2 DEF Ended, Concluding
<1>12. CASE StartBatch
  <2>1. at = "CallTools" /\ UNCHANGED <<conv, phase, resp>> /\ at' = "executing"
    BY <1>12 DEF StartBatch
  <2> QED
    BY <2>1 DEF Ended, Concluding
<1>13. CASE EndBatch
  <2>1. /\ IdsOf(running) \cap AnsweredIds(conv) = {} /\ running \in Seq(CallType)
        /\ \A k, l \in DOMAIN running : k < l => running[k].id < running[l].id
    BY DEF ConvIds, Pending, RunningOrdered, CallsTypeOK
  <2>2. (Replied(conv) => Replied(conv')) /\ (at' = "Finished" => NoReminder(conv'))
    BY <1>13, <2>1, BatchRecorded
  <2>3. at = "executing" /\ at' \in {"Finished", "CallTools", "advance"}
    BY <1>13 DEF EndBatch
  <2> QED
    BY <2>2, <2>3 DEF Ended, Concluding
<1>14. CASE ReportDone
  <2>1. at = "Finished" /\ at' = "idle" /\ phase' = "Done" /\ conv' = conv
    BY <1>14 DEF ReportDone, Drop
  <2> QED
    BY <2>1 DEF Ended, Concluding
<1>15. CASE ReportError
  <2>1. at' = "idle" /\ phase' = "Done"
    BY <1>15 DEF ReportError, Drop
  <2>2. NoReminder(conv')
    BY <1>15, HistoryCleaned
  <2> QED
    BY <2>1, <2>2 DEF Ended, Concluding
<1> QED
  BY <1>1, <1>2, <1>3, <1>4, <1>5, <1>6, <1>7, <1>8, <1>9, <1>10, <1>11, <1>12, <1>13, <1>14, <1>15
     DEF Next, Advance, Provider, Handle

---------------------------------------------------------------------------
(***************************************************************************)
(* The invariant that the theorems follow from: types and limits, the order*)
(* of the calls, where each phase can be seen, and what the conversation   *)
(* has to do with all of these.                                            *)
(***************************************************************************)
IInv ==
  /\ TypeOK /\ Exhausted /\ CallsOrdered
  /\ Placed /\ RunningOrdered
  /\ ConvTypeOK /\ ConvIds /\ RoundOpen
  /\ FailureBudget /\ Ended

LEMMA InitIInv == Init => IInv
<1> SUFFICES ASSUME Init PROVE IInv
  OBVIOUS
<1>1. ControlTypeOK
  BY DEF Init, ControlTypeOK, Points, Phases, Statuses, NoAnswer
<1>2. BudgetTypeOK /\ Exhausted
  BY LimitAssumption, BoundAssumption DEF Init, BudgetTypeOK, Exhausted
<1>3. CallsTypeOK /\ CallsOrdered
  BY DEF Init, CallsTypeOK, CallsOrdered
<1>4. /\ at = "idle" /\ phase = "Done" /\ conv = <<System>> /\ running = <<>> /\ todo = <<>>
      /\ failures = 0 /\ brought = 0 /\ compactions = 0 /\ retries = 0
  BY DEF Init
<1>5. Placed /\ RunningOrdered
  BY <1>4 DEF Placed, RunningOrdered, Awaiting
<1>6. ConvTypeOK /\ AllPlain(conv) /\ NoReminder(conv)
  <2>1. System \in Entries /\ Plain(System) /\ ~IsReminder(System)
    BY EntryTypes DEF System, Entry, IsReminder
  <2>2. <<System>> \in Seq(Entries) /\ AllPlain(<<System>>)
    BY <2>1, OnePlain
  <2>3. NoReminder(<<System>>)
    BY <2>1 DEF NoReminder
  <2> QED
    BY <1>4, <2>2, <2>3 DEF ConvTypeOK
<1>7. ConvIds
  BY <1>6, PlainIds DEF ConvIds
<1>8. RoundOpen /\ Ended
  BY <1>4, <1>6 DEF RoundOpen, InRound, Ended, Concluding
<1>9. FailureBudget
  BY <1>4 DEF FailureBudget, Strips, Unrecovered
<1> QED
  BY <1>1, <1>2, <1>3, <1>5, <1>6, <1>7, <1>8, <1>9 DEF IInv, TypeOK

LEMMA Invariance == Spec => []IInv
<1>1. IInv /\ [Next]_vars => IInv'
  <2> SUFFICES ASSUME IInv, [Next]_vars PROVE IInv'
    OBVIOUS
  <2>1. /\ ControlTypeOK /\ BudgetTypeOK /\ CallsTypeOK /\ Exhausted /\ CallsOrdered
        /\ Placed /\ RunningOrdered /\ ConvTypeOK /\ ConvIds /\ RoundOpen
        /\ FailureBudget /\ Ended
    BY DEF IInv, TypeOK
  <2>2. TypeOK' /\ Exhausted' /\ CallsOrdered'
    BY <2>1, ControlStep, BudgetStep, CallsStep DEF TypeOK
  <2>3. Placed' /\ RunningOrdered'
    BY <2>1, PlacedStep, RunningStep
  <2>4. ConvTypeOK' /\ ConvIds' /\ RoundOpen'
    BY <2>1, ConvIdsStep, RoundOpenStep
  <2>5. FailureBudget' /\ Ended'
    BY <2>1, FailureBudgetStep, EndedStep
  <2> QED
    BY <2>2, <2>3, <2>4, <2>5 DEF IInv
<1> QED
  BY <1>1, InitIInv, PTL DEF Spec

(***************************************************************************)
(* Types: and the counters of a run stay within their limits, whatever the *)
(* provider and the tools answer and whenever the caller cancels.          *)
(***************************************************************************)
THEOREM TypeCorrect == Spec => []TypeOK
<1>1. IInv => TypeOK
  BY DEF IInv
<1> QED
  BY <1>1, Invariance, PTL

\* Only a batch that starts executes calls.
LEMMA BatchChanges ==
  ASSUME Next PROVE running' = running \/ running' = <<>> \/ StartBatch
<1> USE DEF batch, TurnEnds
<1>1. CASE StartWithInput \/ StartResumed
  BY <1>1 DEF StartWithInput, StartResumed, Begin
<1>2. CASE ReportDone \/ ReportError
  BY <1>2 DEF ReportDone, ReportError, Drop
<1>3. CASE Advance
  BY <1>3 DEF Advance, AdvanceCancelled, BeforeModel, IterationLimit, SendRequest,
       RecoverStripping, RecoverCompacting, RecoverRetrying, GiveUp, CallTools,
       ContinueReply, RepeatEmpty, CompactionDue, ReplyIsFinal, ToolRoundEnds,
       Compact, Settle, Finish
<1>4. CASE Provider \/ RequestCancelled
  BY <1>4 DEF Provider, RequestFails, ModelCallsTools, ModelCallsCutOff,
       ModelRepliesCutOff, ModelReplies, SummaryRecovers, RequestCancelled
<1>5. CASE SummaryFails \/ WakeUp \/ CompactionEnds \/ EndBatch
  BY <1>5 DEF SummaryFails, WakeUp, CompactionEnds, EndBatch
<1>6. CASE Cancel \/ DeliverLate \/ Proceed \/ NoMoreRuns
  BY <1>6 DEF Cancel, DeliverLate, Receive, Proceed, NoMoreRuns, vars
<1> QED
  BY <1>1, <1>2, <1>3, <1>4, <1>5, <1>6 DEF Next, Handle

\* A batch holds only calls newer than every call executed before.
LEMMA BatchIsNew ==
  ASSUME IInv, Next, running' # running, NEW i \in DOMAIN running'
  PROVE  running'[i].id > lastRun
<1>1. CASE StartBatch
  <2>1. PICK n \in DOMAIN todo : running' = SubSeq(todo, 1, n)
    BY <1>1 DEF StartBatch
  <2>2. todo \in Seq(CallType)
    BY DEF IInv, TypeOK, CallsTypeOK
  <2>3. i \in 1..n /\ running'[i] = todo[i]
    BY <2>1, <2>2, BatchesSplit
  <2>4. i \in DOMAIN todo
    BY <2>2, <2>3
  <2>5. todo[i] \in CallType /\ lastRun \in Nat /\ lastRun < todo[i].id
    BY <2>2, <2>4 DEF IInv, TypeOK, CallsTypeOK, CallsOrdered
  <2> QED
    BY <2>3, <2>5 DEF CallType
<1>2. CASE running' = <<>>
  BY <1>2
<1> QED
  BY <1>1, <1>2, BatchChanges

(***************************************************************************)
(* Calls execute in the model's order, each at most once, for any number   *)
(* of runs, tools and calls in a response.                                 *)
(***************************************************************************)
THEOREM CallsExecuteInOrder == Spec => ExecutedInOrderOnce
<1> DEFINE Newer == \A i \in DOMAIN running' : running # running' => running'[i].id > lastRun
<1>1. IInv /\ [Next]_vars => [Newer]_vars
  BY BatchIsNew
<1> QED
  BY <1>1, Invariance, PTL DEF Spec, ExecutedInOrderOnce

(***************************************************************************)
(* In every request each call has its result behind it and each result its *)
(* call, no call ever has two results, and a round of tools that nobody    *)
(* cancelled leaves no call open: for any interrupts, cancelled rounds,    *)
(* compactions, late input and resumed runs (Agent::tool_batches,          *)
(* Conversation::sanitize).                                                *)
(***************************************************************************)
THEOREM CallsPaired == Spec => []Paired
<1>1. IInv => Paired
  <2> SUFFICES ASSUME IInv PROVE Paired
    OBVIOUS
  <2>1. RoundComplete
    <3> SUFFICES ASSUME at = "Tools", ~cancelled PROVE OpenCalls(conv) = {}
      BY DEF RoundComplete
    <3>1. running = <<>> /\ todo = <<>>
      BY DEF IInv, RunningOrdered
    <3>2. Pending = {}
      BY <3>1 DEF Pending, IdsOf
    <3> QED
      BY <3>2 DEF IInv, RoundOpen, InRound
  <2>2. AnsweredOnce
    BY DEF IInv, ConvIds, AnswersOnce, AnsweredOnce
  <2>3. PairedRequest
    BY DEF IInv, RoundOpen, Matched, PairedRequest
  <2> QED
    BY <2>1, <2>2, <2>3 DEF Paired
<1> QED
  BY <1>1, Invariance, PTL

(***************************************************************************)
(* Requests fail at most this often between two responses, whatever the    *)
(* limits: each failure but the last one is paid for by a compaction, a    *)
(* retry, or attachments, which have no budget but can be stripped only    *)
(* once: new ones come with late input alone (recovery.rs).                *)
(***************************************************************************)
THEOREM FailuresAreBounded == Spec => []FailuresBounded
<1>1. IInv => FailuresBounded
  <2> SUFFICES ASSUME IInv PROVE FailuresBounded
    OBVIOUS
  <2>1. /\ compactions \in 0..MaxCompactions /\ retries \in 0..MaxStreamRetries
        /\ failures \in Nat /\ brought \in Nat
    BY DEF IInv, TypeOK, BudgetTypeOK
  <2>2. /\ Strips \in Nat /\ Strips <= brought + 1
        /\ Unrecovered \in {0, 1}
    BY <2>1 DEF Strips, Unrecovered
  <2>3. failures <= compactions + retries + Strips + Unrecovered
    BY DEF IInv, FailureBudget
  <2> QED
    BY <2>1, <2>2, <2>3, LimitAssumption DEF FailuresBounded
<1> QED
  BY <1>1, Invariance, PTL

(***************************************************************************)
(* A run that finishes has answered all of its input, also what came while *)
(* it was winding up, and no run leaves a transient reminder behind        *)
(* (AgentRun::continue_turn, Agent::start).                                *)
(***************************************************************************)
THEOREM RunsEndWell == Spec => []EndsWell
<1>1. IInv => EndsWell
  BY DEF IInv, Ended, Concluding, Replied, NoReminder, EndsWell, InputAnswered, CleanEnd
<1> QED
  BY <1>1, Invariance, PTL

---------------------------------------------------------------------------
(* A run with a limit takes finitely many steps, and so does every run     *)
(* between two requests, whatever provider, tools and user do.             *)

\* How far an iteration is from its end: from the request to the model's
\* answer, the tools or the recovery, and the head of the next iteration.
PhaseRank ==
  [Response |-> 18, AfterTools |-> 16, Compact |-> 14, Done |-> 11, Ready |-> 9, Model |-> 7,
   Finishing |-> 6]
PointRank ==
  [streaming |-> 20, Assistant |-> 19, CallTools |-> 17, executing |-> 17, summarizing |-> 17,
   sleeping |-> 17, Tools |-> 15, compacting |-> 13, Recovery |-> 12, Compaction |-> 12,
   Settling |-> 10, BeforeModel |-> 8, Error |-> 5, Finished |-> 4, idle |-> 0]
Stage(point, p) == IF point = "advance" THEN PhaseRank[p] ELSE PointRank[point]

\* The iterations a run has left, if it has a limit, how far this one has come,
\* and what is left of its stage: batches, and a cancellation, seen once.
Left(n) == (MaxIterations + 1) - n
Rest == 2 * Len(todo) + (IF at = "executing" THEN 1 ELSE 0) + (IF cancelled THEN 0 ELSE 1)
Ahead == <<Stage(at, phase), Rest>>
Measure == <<Left(iteration), Ahead>>

Less == OpToRel(<, Nat)
Sooner == LexPairOrdering(Less, Less, Nat, Nat)
Shorter == LexPairOrdering(Less, Sooner, Nat, Nat \X Nat)

\* There is no infinite descent in either order.
LEMMA OrdersEnd ==
  IsWellFoundedOn(Sooner, Nat \X Nat) /\ IsWellFoundedOn(Shorter, Nat \X (Nat \X Nat))
<1>1. IsWellFoundedOn(Less, Nat)
  BY NatLessThanWellFounded, Zenon DEF Less
<1> HIDE DEF Less
<1>2. IsWellFoundedOn(Sooner, Nat \X Nat)
  BY <1>1, WFLexPairOrdering DEF Sooner
<1> HIDE DEF Sooner
<1> QED
  BY <1>1, <1>2, WFLexPairOrdering DEF Shorter

\* Iterations left: a start takes one of them.
LEMMA LeftCounts ==
  ASSUME NEW n \in 0..(MaxIterations + 1)
  PROVE  Left(n) \in Nat /\ (n <= MaxIterations => Left(n + 1) < Left(n))
<1>1. MaxIterations \in Nat
  BY LimitAssumption
<1>2. n \in Nat /\ n <= MaxIterations + 1
  BY <1>1
<1>3. (MaxIterations + 1) - n \in Nat
  BY <1>1, <1>2
<1>4. n <= MaxIterations => (MaxIterations + 1) - (n + 1) < (MaxIterations + 1) - n
  BY <1>1, <1>2
<1> QED
  BY <1>3, <1>4 DEF Left

\* The ranks, by place.
LEMMA Ranked ==
  ASSUME NEW point \in Points, NEW p \in Phases
  PROVE  /\ point = "advance" =>
              /\ p = "Response" => Stage(point, p) = 18
              /\ p = "AfterTools" => Stage(point, p) = 16
              /\ p = "Compact" => Stage(point, p) = 14
              /\ p = "Done" => Stage(point, p) = 11
              /\ p = "Ready" => Stage(point, p) = 9
              /\ p = "Model" => Stage(point, p) = 7
              /\ p = "Finishing" => Stage(point, p) = 6
         /\ point = "streaming" => Stage(point, p) = 20
         /\ point = "Assistant" => Stage(point, p) = 19
         /\ point \in {"CallTools", "executing", "summarizing", "sleeping"} => Stage(point, p) = 17
         /\ point = "Tools" => Stage(point, p) = 15
         /\ point = "compacting" => Stage(point, p) = 13
         /\ point \in {"Recovery", "Compaction"} => Stage(point, p) = 12
         /\ point = "Settling" => Stage(point, p) = 10
         /\ point = "BeforeModel" => Stage(point, p) = 8
         /\ point = "Error" => Stage(point, p) = 5
         /\ point = "Finished" => Stage(point, p) = 4
         /\ Stage(point, p) \in 0..20
         /\ point = "advance" => Stage(point, p) >= 6
<1>1. CASE point = "advance"
  <2>1. p \in DOMAIN PhaseRank /\ Stage(point, p) = PhaseRank[p]
    BY <1>1 DEF Phases, PhaseRank, Stage
  <2> QED
    BY <1>1, <2>1 DEF PhaseRank, Phases
<1>2. CASE point # "advance"
  <2>1. Stage(point, p) = PointRank[point]
    BY <1>2 DEF Stage
  <2> QED
    BY <1>2, <2>1 DEF PointRank, Points, Awaiting, Checkpoints
<1> QED
  BY <1>1, <1>2

\* What a step other than a start leaves to do.
Nearer ==
  /\ iteration' = iteration
  /\ \/ Stage(at', phase') < Stage(at, phase)
     \/ Stage(at', phase') = Stage(at, phase) /\ Rest' < Rest

\* A run keeps its limit, or that it has none.
LEMMA LimitKept == Next /\ at # "idle" => limited' = limited
<1> USE DEF caller
<1>1. StartWithInput \/ StartResumed => at = "idle"
  BY DEF StartWithInput, StartResumed, Begin
<1>2. Cancel \/ DeliverLate \/ Advance => limited' = limited
  BY DEF Cancel, DeliverLate, Receive, Advance, AdvanceCancelled, BeforeModel, IterationLimit,
     SendRequest, RecoverStripping, RecoverCompacting, RecoverRetrying, GiveUp, CallTools,
     ContinueReply, RepeatEmpty, CompactionDue, ReplyIsFinal, ToolRoundEnds, Compact, Settle, Finish
<1>3. Provider \/ Handle \/ RequestCancelled => limited' = limited
  BY Zenon DEF Provider, Handle, TurnEnds, RequestFails, ModelCallsTools, ModelCallsCutOff,
     ModelRepliesCutOff, ModelReplies, SummaryRecovers, Proceed, StartBatch, ReportDone,
     ReportError, Drop, RequestCancelled
<1>4. SummaryFails \/ WakeUp \/ CompactionEnds \/ EndBatch \/ NoMoreRuns => limited' = limited
  BY Zenon DEF SummaryFails, WakeUp, CompactionEnds, EndBatch, NoMoreRuns, vars
<1> QED
  BY <1>1, <1>2, <1>3, <1>4, Zenon DEF Next

\* Every step of a run comes nearer to its end, or sends the next request.
LEMMA RunNearer ==
  ASSUME ControlTypeOK, ControlTypeOK', BudgetTypeOK, CallsTypeOK, CallsTypeOK', Placed,
         Exhausted, Next, vars' # vars, at # "idle"
  PROVE  \/ at' = "idle"
         \/ limited /\ iteration <= MaxIterations /\ iteration' = iteration + 1
         \/ ~limited /\ at' = "streaming" /\ iteration' = iteration + 1
         \/ Nearer
<1> USE DEF Placed, Checkpoints, Fail, Recovered, TurnEnds, Advancing, Recovering, Answered, Nearer
<1>a. at \in Points /\ phase \in Phases /\ at' \in Points /\ phase' \in Phases
  BY DEF ControlTypeOK
<1>b. /\ iteration \in Nat /\ MaxIterations \in Nat /\ limited \in BOOLEAN
      /\ limited /\ at # "Error" => iteration <= MaxIterations
  BY LimitAssumption DEF BudgetTypeOK, Exhausted, ControlTypeOK
<1>c. Len(todo) \in Nat /\ Len(todo') \in Nat /\ cancelled \in BOOLEAN /\ cancelled' \in BOOLEAN
  BY DEF CallsTypeOK, ControlTypeOK
<1>1. CASE StartWithInput
  BY <1>1 DEF StartWithInput, Begin
<1>2. CASE StartResumed
  BY <1>2 DEF StartResumed, Begin
<1>3. CASE Cancel
  <2>1. /\ at' = at /\ phase' = phase /\ iteration' = iteration /\ todo' = todo
        /\ ~cancelled /\ cancelled'
    BY <1>3 DEF Cancel, limits, batch
  <2>2. Rest' < Rest
    BY <1>c, <2>1 DEF Rest
  <2>3. Stage(at', phase') = Stage(at, phase)
    BY <2>1
  <2> QED
    BY <2>1, <2>2, <2>3
<1>4. CASE AdvanceCancelled
  BY <1>a, <1>4, Ranked DEF AdvanceCancelled, limits
<1>5. CASE BeforeModel
  BY <1>a, <1>5, Ranked DEF BeforeModel, limits
<1>6. CASE IterationLimit
  BY <1>b, <1>6 DEF IterationLimit
<1>7. CASE SendRequest
  <2>1. at = "advance" /\ at' = "streaming" /\ iteration' = iteration + 1
    BY <1>7, Zenon DEF SendRequest
  <2> QED
    BY <1>b, <2>1
<1>8. CASE RequestFails
  BY <1>a, <1>8, Ranked DEF RequestFails, limits
<1>9. CASE RequestCancelled
  <2>1. at = "streaming" /\ at' = "Assistant" /\ iteration' = iteration
    BY <1>9, Zenon DEF RequestCancelled, limits
  <2> QED
    BY <1>a, <2>1, Ranked
<1>10. CASE ModelCallsTools
  BY <1>a, <1>10, Ranked DEF ModelCallsTools, limits
<1>11. CASE ModelCallsCutOff
  BY <1>a, <1>11, Ranked DEF ModelCallsCutOff, limits
<1>12. CASE ModelRepliesCutOff
  BY <1>a, <1>12, Ranked DEF ModelRepliesCutOff, limits
<1>13. CASE ModelReplies
  BY <1>a, <1>13, Ranked DEF ModelReplies, limits
<1>14. CASE RecoverStripping
  BY <1>a, <1>14, Ranked DEF RecoverStripping, limits
<1>15. CASE RecoverCompacting
  BY <1>a, <1>15, Ranked DEF RecoverCompacting, limits
<1>16. CASE SummaryRecovers
  BY <1>a, <1>16, Ranked DEF SummaryRecovers, limits
<1>17. CASE SummaryFails
  BY <1>a, <1>17, Ranked DEF SummaryFails, limits
<1>18. CASE RecoverRetrying
  BY <1>a, <1>18, Ranked DEF RecoverRetrying, limits
<1>19. CASE WakeUp
  BY <1>a, <1>19, Ranked DEF WakeUp, limits
<1>20. CASE GiveUp
  BY <1>a, <1>20, Ranked DEF GiveUp, limits
<1>21. CASE CallTools
  BY <1>a, <1>21, Ranked DEF CallTools, limits
<1>22. CASE ContinueReply
  BY <1>a, <1>22, Ranked DEF ContinueReply, limits
<1>23. CASE RepeatEmpty
  BY <1>a, <1>23, Ranked DEF RepeatEmpty, limits
<1>24. CASE CompactionDue
  BY <1>a, <1>24, Ranked DEF CompactionDue, limits
<1>25. CASE ReplyIsFinal
  BY <1>a, <1>25, Ranked DEF ReplyIsFinal, limits
<1>26. CASE ToolRoundEnds
  <2>1. /\ at = "advance" /\ phase = "AfterTools"
        /\ at' = "Tools" /\ iteration' = iteration
    BY <1>26, Zenon DEF ToolRoundEnds
  <2> QED
    BY <1>a, <2>1, Ranked
<1>27. CASE Compact
  BY <1>a, <1>27, Ranked DEF Compact, limits
<1>28. CASE CompactionEnds
  BY <1>a, <1>28, Ranked DEF CompactionEnds, limits
<1>29. CASE Settle
  BY <1>a, <1>29, Ranked DEF Settle, limits
<1>30. CASE Finish
  BY <1>a, <1>30, Ranked DEF Finish, limits
<1>31. CASE Proceed
  BY <1>a, <1>31, Ranked DEF Proceed, limits
<1>32. CASE DeliverLate
  BY <1>a, <1>32, Ranked DEF DeliverLate, Receive, limits
<1>33. CASE StartBatch
  <2>1. PICK n \in DOMAIN todo : todo' = LaterBatches(todo, n)
    BY <1>33 DEF StartBatch
  <2>2. /\ at = "CallTools" /\ at' = "executing" /\ cancelled' = cancelled
        /\ phase' = phase /\ iteration' = iteration
    BY <1>33 DEF StartBatch, limits
  <2>3. n \in 1..Len(todo) /\ Len(todo') = Len(todo) - n
    BY <2>1, SubSeqProperties DEF CallsTypeOK, LaterBatches
  <2>4. Rest' < Rest
    BY <1>c, <2>2, <2>3 DEF Rest
  <2>5. Stage(at, phase) = 17 /\ Stage(at', phase') = 17
    BY <1>a, <2>2, Ranked
  <2> QED
    BY <2>2, <2>4, <2>5
<1>34. CASE EndBatch
  <2>1. /\ at = "executing" /\ cancelled' = cancelled /\ iteration' = iteration
        /\ \/ at' = "Finished" 
           \/ at' = "CallTools" /\ todo' = todo
           \/ at' = "advance" /\ phase' = phase
    BY <1>34 DEF EndBatch, limits
  <2>2. phase = "AfterTools" /\ Stage(at, phase) = 17
    BY <1>a, <2>1, Ranked
  <2>3. CASE at' = "CallTools" /\ todo' = todo
    <3>1. Rest' < Rest
      BY <1>c, <2>1, <2>3 DEF Rest
    <3> QED
      BY <1>a, <2>1, <2>2, <2>3, <3>1, Ranked
  <2>4. CASE at' # "CallTools"
    BY <1>a, <2>1, <2>2, <2>4, Ranked
  <2> QED
    BY <2>1, <2>3, <2>4
<1>35. CASE ReportDone
  BY <1>35 DEF ReportDone, Drop
<1>36. CASE ReportError
  BY <1>36 DEF ReportError, Drop
<1>37. CASE NoMoreRuns
  BY <1>37 DEF NoMoreRuns
<1> QED
  BY <1>1, <1>2, <1>3, <1>4, <1>5, <1>6, <1>7, <1>8, <1>9, <1>10, <1>11, <1>12, <1>13, <1>14,
     <1>15, <1>16, <1>17, <1>18, <1>19, <1>20, <1>21, <1>22, <1>23, <1>24, <1>25, <1>26, <1>27,
     <1>28, <1>29, <1>30, <1>31, <1>32, <1>33, <1>34, <1>35, <1>36, <1>37
     DEF Next, Advance, Provider, Handle

\* The rest of a run, or of the way to its next request, gets shorter.
Nearing ==
  /\ limited' = limited
  /\ IF limited THEN <<Measure', Measure>> \in Shorter
     ELSE \/ iteration' = iteration /\ <<Ahead', Ahead>> \in Sooner
          \/ iteration' = iteration + 1 /\ at' = "streaming"

(***************************************************************************)
(* With any answers, errors, input and interrupts, a run that has a limit  *)
(* on iterations ends after finitely many steps: each makes a measure      *)
(* smaller that has no infinite descent.  A run without one (max_iterations*)
(* is None) ends or sends the next request after finitely many steps: what *)
(* lies between two requests gets shorter (AgentRun::advance).             *)
(***************************************************************************)
THEOREM RunsAreFinite ==
  /\ IsWellFoundedOn(Sooner, Nat \X Nat) /\ IsWellFoundedOn(Shorter, Nat \X (Nat \X Nat))
  /\ Spec => [][at # "idle" => (at' = "idle" \/ Nearing)]_vars
<1>1. ASSUME IInv, IInv', Next, vars' # vars, at # "idle", at' # "idle"
      PROVE  Nearing
  <2>1. \/ limited /\ iteration <= MaxIterations /\ iteration' = iteration + 1
        \/ ~limited /\ at' = "streaming" /\ iteration' = iteration + 1
        \/ Nearer
    BY <1>1, RunNearer DEF IInv, TypeOK
  <2>2. /\ Rest \in Nat /\ Rest' \in Nat
        /\ Stage(at, phase) \in Nat /\ Stage(at', phase') \in Nat
    <3>1. at \in Points /\ phase \in Phases /\ at' \in Points /\ phase' \in Phases
      BY <1>1 DEF IInv, TypeOK, ControlTypeOK
    <3>2. Stage(at, phase) \in 0..20 /\ Stage(at', phase') \in 0..20
      BY <3>1, Ranked
    <3>3. Len(todo) \in Nat /\ Len(todo') \in Nat
      BY <1>1 DEF IInv, TypeOK, CallsTypeOK
    <3>4. Rest \in Nat /\ Rest' \in Nat
      BY <3>3 DEF Rest
    <3> QED
      BY <3>2, <3>4
  <2>3. limited' = limited /\ limited \in BOOLEAN
    BY <1>1, LimitKept DEF IInv, TypeOK, ControlTypeOK
  <2>4. Nearer => <<Ahead', Ahead>> \in Sooner /\ iteration' = iteration
    BY <2>2 DEF Nearer, Ahead, Sooner, LexPairOrdering, Less, OpToRel
  <2>5. CASE ~limited
    BY <2>1, <2>3, <2>4, <2>5 DEF Nearing
  <2>6. CASE limited
    <3>1. iteration \in 0..(MaxIterations + 1) /\ iteration' \in 0..(MaxIterations + 1)
      BY <1>1, <2>3, <2>6, LimitAssumption DEF IInv, TypeOK, BudgetTypeOK
    <3>2. Left(iteration) \in Nat /\ Left(iteration') \in Nat
      BY <3>1, LeftCounts
    <3>3. Ahead \in Nat \X Nat /\ Ahead' \in Nat \X Nat
      BY <2>2 DEF Ahead
    <3>4. \/ Left(iteration') < Left(iteration)
          \/ Left(iteration') = Left(iteration) /\ <<Ahead', Ahead>> \in Sooner
      BY <2>1, <2>4, <2>6, <3>1, LeftCounts
    <3>5. <<Measure', Measure>> \in Shorter
      BY <3>2, <3>3, <3>4 DEF Shorter, Measure, LexPairOrdering, Less, OpToRel
    <3> QED
      BY <2>3, <2>6, <3>5 DEF Nearing
  <2> QED
    BY <2>3, <2>5, <2>6
<1>2. IInv /\ IInv' /\ [Next]_vars => [at # "idle" => (at' = "idle" \/ Nearing)]_vars
  BY <1>1
<1>3. Spec => [][at # "idle" => (at' = "idle" \/ Nearing)]_vars
  BY <1>2, Invariance, PTL DEF Spec
<1> QED
  BY <1>3, OrdersEnd
=============================================================================
