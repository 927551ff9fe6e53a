--------------------------- MODULE CollectorProofs ---------------------------
(***************************************************************************)
(* Proofs about Collector, for any reporters, peers, addresses and window, *)
(* and any number of failures, crashes and changes: what was answered with *)
(* 200 is in the table, what a health check answers is true of it, and the *)
(* pages tell what it holds.                                               *)
(***************************************************************************)
EXTENDS Collector, FiniteSetTheorems, WellFoundedInduction, TLAPS

(* Every non-empty set of naturals has a least element.                    *)
LEMMA LeastExists ==
  ASSUME NEW S \in SUBSET Nat, S # {}
  PROVE  \E i \in S : \A j \in S : i <= j
<1> DEFINE Less == {p \in Nat \X Nat : p[1] < p[2]}
<1>1. IsWellFoundedOn(Less, Nat)
  BY NatLessThanWellFounded DEF OpToRel
<1>2. ASSUME NEW i \in Nat, NEW j \in Nat, <<i, j>> \notin Less
      PROVE  j <= i
  BY <1>2
<1> HIDE DEF Less
<1>3. PICK x \in S : \A y \in S : <<y, x>> \notin Less
  BY <1>1, WFMin, Zenon
<1>4. ASSUME NEW y \in S
      PROVE  x <= y
  <2>1. x \in Nat /\ y \in Nat /\ <<y, x>> \notin Less
    BY <1>3
  <2> QED BY <2>1, <1>2
<1> QED BY <1>4

(* Induction on a position, as a fact about the set of those it holds at.  *)
LEMMA Climbs ==
  ASSUME NEW n \in Nat, NEW P, 0 \in P, \A k \in 1..n : k - 1 \in P => k \in P
  PROVE  \A k \in 0..n : k \in P
<1> DEFINE Left == {k \in 0..n : k \notin P}
<1> SUFFICES ASSUME Left # {} PROVE FALSE
  OBVIOUS
<1>1. PICK m \in Left : \A k \in Left : m <= k
  <2>1. Left \in SUBSET Nat
    OBVIOUS
  <2> HIDE DEF Left
  <2> QED
    BY <2>1, LeastExists
<1>2. m \in 1..n /\ m - 1 \in 0..n /\ m - 1 \notin Left
  BY <1>1
<1> QED
  BY <1>1, <1>2

(* What is in a sequence that was appended to.                             *)
LEMMA AppendHas ==
  ASSUME NEW T, NEW s \in Seq(T), NEW e \in T
  PROVE  Append(s, e) \in Seq(T) /\ ToSet(Append(s, e)) = ToSet(s) \cup {e}
<1>1. Append(s, e) \in Seq(T) /\ DOMAIN Append(s, e) = 1..(Len(s) + 1) /\ DOMAIN s = 1..Len(s)
  OBVIOUS
<1>2. \A k \in 1..Len(s) : Append(s, e)[k] = s[k]
  OBVIOUS
<1>3. Append(s, e)[Len(s) + 1] = e /\ Len(s) \in Nat
  OBVIOUS
<1>4. ASSUME NEW x PROVE x \in ToSet(Append(s, e)) <=> x \in ToSet(s) \cup {e}
  <2>1. ToSet(Append(s, e)) = {Append(s, e)[k] : k \in 1..(Len(s) + 1)} /\ ToSet(s) = {s[k] : k \in 1..Len(s)}
    BY <1>1 DEF ToSet
  <2>2. ASSUME x \in ToSet(Append(s, e)) PROVE x \in ToSet(s) \cup {e}
    <3>1. PICK k \in 1..(Len(s) + 1) : x = Append(s, e)[k]
      BY <2>1, <2>2
    <3>2. k \in 1..Len(s) \/ k = Len(s) + 1
      BY <1>3
    <3> QED
      BY <1>2, <1>3, <2>1, <3>1, <3>2
  <2>3. ASSUME x \in ToSet(s) PROVE x \in ToSet(Append(s, e))
    <3>1. PICK k \in 1..Len(s) : x = s[k]
      BY <2>1, <2>3
    <3>2. k \in 1..(Len(s) + 1)
      BY <1>3
    <3> QED
      BY <1>2, <2>1, <3>1, <3>2
  <2>4. e \in ToSet(Append(s, e))
    <3>1. Len(s) + 1 \in 1..(Len(s) + 1)
      BY <1>3
    <3> QED
      BY <1>3, <2>1, <3>1
  <2> QED
    BY <2>2, <2>3, <2>4
<1> QED
  BY <1>1, <1>4

(* A filter of rows, position by position.                                 *)
KeptUpto(seq, S, kept) ==
  /\ kept[0] = <<>>
  /\ \A k \in 1..Len(seq) : kept[k] = IF seq[k] \in S THEN Append(kept[k-1], seq[k]) ELSE kept[k-1]

LEMMA OnlySteps ==
  ASSUME NEW T, NEW seq \in Seq(T), NEW S
  PROVE  \E kept : KeptUpto(seq, S, kept) /\ Only(seq, S) = kept[Len(seq)]
<1> DEFINE Step(f, k) == IF k = 0 THEN <<>>
                         ELSE IF seq[k] \in S THEN Append(f[k-1], seq[k]) ELSE f[k-1]
           Solves(f, n) == \A k \in 0..n : f[k] = Step(f, k)
           Solved(n) == \E f : Solves(f, n)
           Unsolved == {n \in 0..Len(seq) : ~Solved(n)}
<1>1. Unsolved = {}
  <2> SUFFICES ASSUME Unsolved # {} PROVE FALSE
    OBVIOUS
  <2>0. PICK n \in Unsolved : \A m \in Unsolved : n <= m
    <3>1. Unsolved \in SUBSET Nat
      OBVIOUS
    <3> HIDE DEF Unsolved
    <3> QED
      BY <3>1, LeastExists
  <2>1. n \in 0..Len(seq) /\ ~Solved(n) /\ \A m \in 0..Len(seq) : ~Solved(m) => n <= m
    BY <2>0
  <2>2. CASE n = 0
    <3>1. Solves([k \in 0..0 |-> <<>>], 0)
      OBVIOUS
    <3> QED
      BY <2>1, <2>2, <3>1
  <2>3. CASE n # 0
    <3>1. n \in Nat /\ n - 1 \in 0..Len(seq) /\ Solved(n - 1)
      <4> HIDE DEF Solved
      <4> QED
        BY <2>1, <2>3
    <3>2. PICK f : Solves(f, n - 1)
      BY <3>1
    <3> DEFINE g == [k \in 0..n |-> IF k = n THEN Step(f, n) ELSE f[k]]
    <3>3. ASSUME NEW k \in 0..n PROVE g[k] = Step(g, k)
      <4>1. CASE k = 0
        BY <2>3, <3>1, <3>2, <4>1
      <4>2. CASE k # 0
        <5>1. k - 1 \in 0..n /\ k - 1 # n
          BY <3>1, <4>2
        <5>2. g[k-1] = f[k-1]
          BY <5>1
        <5>3. CASE k = n
          BY <4>2, <5>2, <5>3
        <5>4. CASE k # n
          <6>1. k \in 0..(n-1) /\ g[k] = f[k]
            BY <3>1, <5>4
          <6> QED
            BY <3>2, <4>2, <5>2, <6>1
        <5> QED
          BY <5>3, <5>4
      <4> QED
        BY <4>1, <4>2
    <3> HIDE DEF g
    <3>4. Solves(g, n)
      BY <3>3
    <3> QED
      BY <2>1, <3>4
  <2> QED
    BY <2>2, <2>3
<1> DEFINE kept == CHOOSE f : f = [k \in 0..Len(seq) |->
                     IF k = 0 THEN <<>> ELSE IF seq[k] \in S THEN Append(f[k-1], seq[k]) ELSE f[k-1]]
<1>2. kept = [k \in 0..Len(seq) |->
                IF k = 0 THEN <<>> ELSE IF seq[k] \in S THEN Append(kept[k-1], seq[k]) ELSE kept[k-1]]
  <2>0. Solved(Len(seq))
    <3>1. Len(seq) \in 0..Len(seq)
      OBVIOUS
    <3> HIDE DEF Solved
    <3> QED
      BY <1>1, <3>1
  <2>1. PICK h : Solves(h, Len(seq))
    BY <2>0
  <2> DEFINE f == [k \in 0..Len(seq) |-> h[k]]
  <2>2. ASSUME NEW k \in 0..Len(seq)
        PROVE  f[k] = IF k = 0 THEN <<>> ELSE IF seq[k] \in S THEN Append(f[k-1], seq[k]) ELSE f[k-1]
    <3>1. k = 0 \/ k - 1 \in 0..Len(seq)
      OBVIOUS
    <3> QED
      BY <2>1, <3>1
  <2>3. f = [k \in 0..Len(seq) |->
               IF k = 0 THEN <<>> ELSE IF seq[k] \in S THEN Append(f[k-1], seq[k]) ELSE f[k-1]]
    BY <2>2
  <2> HIDE DEF f
  <2> QED
    BY <2>3
<1>3. Only(seq, S) = kept[Len(seq)]
  BY DEF Only
<1> HIDE DEF kept
<1>4. Len(seq) \in Nat /\ 0 \in 0..Len(seq) /\ \A k \in 1..Len(seq) : k \in 0..Len(seq) /\ k # 0
  OBVIOUS
<1>5. kept[0] = <<>>
  BY <1>2, <1>4
<1>6. ASSUME NEW k \in 1..Len(seq)
      PROVE  kept[k] = IF seq[k] \in S THEN Append(kept[k-1], seq[k]) ELSE kept[k-1]
  BY <1>2, <1>4
<1> QED
  BY <1>3, <1>5, <1>6 DEF KeptUpto

(* What a filter of rows keeps: the rows of the set, as a sequence.        *)
LEMMA OnlyKeeps ==
  ASSUME NEW T, NEW seq \in Seq(T), NEW S
  PROVE  Only(seq, S) \in Seq(T) /\ ToSet(Only(seq, S)) = ToSet(seq) \cap S
<1>1. PICK kept : KeptUpto(seq, S, kept) /\ Only(seq, S) = kept[Len(seq)]
  BY OnlySteps
<1>2. /\ Len(seq) \in Nat /\ kept[0] = <<>>
      /\ \A k \in 1..Len(seq) : kept[k] = IF seq[k] \in S THEN Append(kept[k-1], seq[k]) ELSE kept[k-1]
  BY <1>1 DEF KeptUpto
<1> DEFINE Upto(k) == {seq[j] : j \in 1..k}
           Right == {k \in 0..Len(seq) : kept[k] \in Seq(T) /\ ToSet(kept[k]) = Upto(k) \cap S}
<1>3. 0 \in Right
  <2>1. <<>> \in Seq(T) /\ ToSet(<<>>) = {} /\ Upto(0) = {} /\ 0 \in 0..Len(seq)
    BY DEF ToSet
  <2> HIDE DEF Upto
  <2> QED
    BY <1>2, <2>1
<1>4. ASSUME NEW k \in 1..Len(seq), k - 1 \in Right
      PROVE  k \in Right
  <2>1. seq[k] \in T /\ Upto(k) = Upto(k-1) \cup {seq[k]}
    BY <1>2
  <2>2. ASSUME NEW s \in Seq(T)
        PROVE  Append(s, seq[k]) \in Seq(T) /\ ToSet(Append(s, seq[k])) = ToSet(s) \cup {seq[k]}
    BY <2>1, AppendHas
  <2> HIDE DEF Upto
  <2>3. k \in 0..Len(seq) /\ kept[k-1] \in Seq(T) /\ ToSet(kept[k-1]) = Upto(k-1) \cap S
    BY <1>2, <1>4
  <2>4. CASE seq[k] \in S
    BY <1>2, <2>1, <2>2, <2>3, <2>4
  <2>5. CASE seq[k] \notin S
    BY <1>2, <2>1, <2>3, <2>5
  <2> QED
    BY <2>4, <2>5
<1> HIDE DEF Right
<1>5. Len(seq) \in Right
  <2>1. Len(seq) \in Nat /\ Len(seq) \in 0..Len(seq)
    OBVIOUS
  <2> QED
    BY <1>3, <1>4, <2>1, Climbs
<1>6. Upto(Len(seq)) = ToSet(seq)
  BY DEF ToSet
<1> QED
  BY <1>1, <1>5, <1>6 DEF Right

(* A filter of rows takes each row it keeps from a place of its own.       *)
TakenFrom(sub, seq, f) ==
  /\ f \in [1..Len(sub) -> 1..Len(seq)]
  /\ \A i \in 1..Len(sub) : sub[i] = seq[f[i]]
  /\ \A i, j \in 1..Len(sub) : f[i] = f[j] => i = j

LEMMA OnlyTakes ==
  ASSUME NEW T, NEW seq \in Seq(T), NEW S
  PROVE  \E f : TakenFrom(Only(seq, S), seq, f)
<1>1. PICK kept : KeptUpto(seq, S, kept) /\ Only(seq, S) = kept[Len(seq)]
  BY OnlySteps
<1>2. /\ Len(seq) \in Nat /\ kept[0] = <<>>
      /\ \A k \in 1..Len(seq) : kept[k] = IF seq[k] \in S THEN Append(kept[k-1], seq[k]) ELSE kept[k-1]
  BY <1>1 DEF KeptUpto
<1> DEFINE Upto(f, k) ==
             /\ kept[k] \in Seq(T) /\ f \in [1..Len(kept[k]) -> 1..k]
             /\ \A i \in 1..Len(kept[k]) : kept[k][i] = seq[f[i]]
             /\ \A i, j \in 1..Len(kept[k]) : f[i] = f[j] => i = j
           Right == {k \in 0..Len(seq) : \E f : Upto(f, k)}
<1>3. 0 \in Right
  <2>1. kept[0] \in Seq(T) /\ Len(kept[0]) = 0 /\ 1..0 = {} /\ 0 \in 0..Len(seq)
    BY <1>2
  <2>2. [i \in 1..0 |-> 0] \in [1..0 -> 1..0]
    OBVIOUS
  <2>3. Upto([i \in 1..0 |-> 0], 0)
    BY <2>1, <2>2
  <2> HIDE DEF Upto
  <2> QED
    BY <2>1, <2>3
<1>4. ASSUME NEW k \in 1..Len(seq), k - 1 \in Right
      PROVE  k \in Right
  <2>1. PICK f : Upto(f, k - 1)
    BY <1>4
  <2> DEFINE n == Len(kept[k-1])
             g == [i \in 1..(n + 1) |-> IF i = n + 1 THEN k ELSE f[i]]
  <2>2. /\ k \in 0..Len(seq) /\ k \in 1..Len(seq) /\ k \in Int /\ n \in Nat /\ seq[k] \in T
        /\ \A i \in 1..n : f[i] \in 1..(k-1)
    <3>1. n \in Nat
      BY <2>1
    <3>2. \A i \in 1..n : f[i] \in 1..(k-1)
      BY <2>1
    <3>3. k \in 0..Len(seq) /\ k \in Int /\ seq[k] \in T
      OBVIOUS
    <3> QED
      BY <3>1, <3>2, <3>3
  <2>3. CASE seq[k] \in S
    <3>0. kept[k] = Append(kept[k-1], seq[k]) /\ kept[k-1] \in Seq(T)
      BY <1>2, <2>1, <2>3
    <3>1. /\ kept[k] \in Seq(T) /\ Len(kept[k]) = n + 1
          /\ kept[k][n + 1] = seq[k] /\ \A i \in 1..n : kept[k][i] = kept[k-1][i]
      BY <2>2, <3>0
    <3> HIDE DEF n
    <3>2. /\ g[n + 1] = k /\ \A i \in 1..n : g[i] = f[i] /\ g[i] # k
          /\ \A i \in 1..(n + 1) : i = n + 1 \/ i \in 1..n
          /\ \A i \in 1..(n + 1) : g[i] \in 1..k
      BY <2>2
    <3>3. g \in [1..Len(kept[k]) -> 1..k]
      BY <3>1, <3>2
    <3> HIDE DEF g
    <3>4. \A i \in 1..Len(kept[k]) : kept[k][i] = seq[g[i]]
      BY <2>1, <3>1, <3>2 DEF n
    <3>5. \A i, j \in 1..Len(kept[k]) : g[i] = g[j] => i = j
      BY <2>1, <3>1, <3>2 DEF n
    <3> QED
      BY <2>2, <3>1, <3>3, <3>4, <3>5
  <2>4. CASE seq[k] \notin S
    <3>1. kept[k] = kept[k-1]
      BY <1>2, <2>4
    <3>2. f \in [1..Len(kept[k]) -> 1..k]
      BY <2>1, <2>2, <3>1
    <3>3. Upto(f, k)
      BY <2>1, <3>1, <3>2
    <3> QED
      BY <2>2, <3>3
  <2> QED
    BY <2>3, <2>4
<1> HIDE DEF Right
<1>5. Len(seq) \in Right
  <2>1. Len(seq) \in Nat /\ Len(seq) \in 0..Len(seq)
    OBVIOUS
  <2> QED
    BY <1>3, <1>4, <2>1, Climbs
<1> QED
  BY <1>1, <1>5 DEF Right, TakenFrom

(* A filter that keeps more is not shorter.                                *)
LEMMA OnlyShorter ==
  ASSUME NEW T, NEW seq \in Seq(T), NEW S, NEW R, S \subseteq R
  PROVE  Len(Only(seq, S)) <= Len(Only(seq, R))
<1>1. PICK few : KeptUpto(seq, S, few) /\ Only(seq, S) = few[Len(seq)]
  BY OnlySteps
<1>2. PICK more : KeptUpto(seq, R, more) /\ Only(seq, R) = more[Len(seq)]
  BY OnlySteps
<1>3. /\ Len(seq) \in Nat /\ few[0] = <<>> /\ more[0] = <<>>
      /\ \A k \in 1..Len(seq) : few[k] = IF seq[k] \in S THEN Append(few[k-1], seq[k]) ELSE few[k-1]
      /\ \A k \in 1..Len(seq) : more[k] = IF seq[k] \in R THEN Append(more[k-1], seq[k]) ELSE more[k-1]
  BY <1>1, <1>2 DEF KeptUpto
<1> DEFINE Right == {k \in 0..Len(seq) : few[k] \in Seq(T) /\ more[k] \in Seq(T) /\ Len(few[k]) <= Len(more[k])}
<1>4. 0 \in Right
  <2>1. <<>> \in Seq(T) /\ Len(<<>>) = 0 /\ 0 \in 0..Len(seq)
    OBVIOUS
  <2>2. few[0] \in Seq(T) /\ more[0] \in Seq(T) /\ Len(few[0]) <= Len(more[0])
    <3>1. few[0] = <<>> /\ more[0] = <<>>
      BY <1>3
    <3> QED
      BY <2>1, <3>1
  <2> QED
    BY <2>1, <2>2
<1>5. ASSUME NEW k \in 1..Len(seq), k - 1 \in Right
      PROVE  k \in Right
  <2>1. /\ k \in 0..Len(seq) /\ seq[k] \in T /\ few[k-1] \in Seq(T) /\ more[k-1] \in Seq(T)
        /\ Len(few[k-1]) <= Len(more[k-1])
    BY <1>3, <1>5
  <2>2. ASSUME NEW s \in Seq(T)
        PROVE  Append(s, seq[k]) \in Seq(T) /\ Len(Append(s, seq[k])) = Len(s) + 1 /\ Len(s) \in Nat
    BY <2>1
  <2>3. few[k] \in Seq(T) /\ more[k] \in Seq(T)
    BY <1>3, <2>1, <2>2
  <2>4. Len(few[k]) <= Len(more[k])
    <3>1. CASE seq[k] \in S
      <4>1. Len(few[k]) = Len(few[k-1]) + 1 /\ Len(more[k]) = Len(more[k-1]) + 1
        BY <1>3, <2>1, <2>2, <3>1
      <4> QED
        BY <2>1, <2>2, <4>1
    <3>2. CASE seq[k] \notin S
      <4>1. few[k] = few[k-1] /\ (more[k] = more[k-1] \/ Len(more[k]) = Len(more[k-1]) + 1)
        BY <1>3, <2>1, <2>2, <3>2
      <4> QED
        BY <2>1, <2>2, <4>1
    <3> QED
      BY <3>1, <3>2
  <2> QED
    BY <2>1, <2>3, <2>4
<1> HIDE DEF Right
<1>6. Len(seq) \in Right
  <2>1. Len(seq) \in Nat /\ Len(seq) \in 0..Len(seq)
    OBVIOUS
  <2> QED
    BY <1>4, <1>5, <2>1, Climbs
<1> QED
  BY <1>1, <1>2, <1>6 DEF Right

(* What is in a sequence joined to another.                                *)
LEMMA JoinHas ==
  ASSUME NEW T, NEW s \in Seq(T), NEW t \in Seq(T)
  PROVE  s \o t \in Seq(T) /\ ToSet(s \o t) = ToSet(s) \cup ToSet(t)
<1>1. /\ s \o t \in Seq(T) /\ DOMAIN (s \o t) = 1..(Len(s) + Len(t))
      /\ DOMAIN s = 1..Len(s) /\ DOMAIN t = 1..Len(t) /\ Len(s) \in Nat /\ Len(t) \in Nat
  OBVIOUS
<1>2. \A k \in 1..Len(s) : (s \o t)[k] = s[k]
  OBVIOUS
<1>3. \A k \in 1..Len(t) : (s \o t)[Len(s) + k] = t[k]
  OBVIOUS
<1>4. /\ ToSet(s \o t) = {(s \o t)[k] : k \in 1..(Len(s) + Len(t))}
      /\ ToSet(s) = {s[k] : k \in 1..Len(s)} /\ ToSet(t) = {t[k] : k \in 1..Len(t)}
  BY <1>1 DEF ToSet
<1>5. ASSUME NEW x \in ToSet(s \o t) PROVE x \in ToSet(s) \cup ToSet(t)
  <2>1. PICK k \in 1..(Len(s) + Len(t)) : x = (s \o t)[k]
    BY <1>4, <1>5
  <2>2. CASE k \in 1..Len(s)
    BY <1>2, <1>4, <2>1, <2>2
  <2>3. CASE k \notin 1..Len(s)
    <3>1. k - Len(s) \in 1..Len(t) /\ k = Len(s) + (k - Len(s))
      BY <1>1, <2>3
    <3> QED
      BY <1>3, <1>4, <2>1, <3>1
  <2> QED
    BY <2>2, <2>3
<1>6. ASSUME NEW x \in ToSet(s) PROVE x \in ToSet(s \o t)
  <2>1. PICK k \in 1..Len(s) : x = s[k]
    BY <1>4, <1>6
  <2>2. k \in 1..(Len(s) + Len(t))
    BY <1>1
  <2> QED
    BY <1>2, <1>4, <2>1, <2>2
<1>7. ASSUME NEW x \in ToSet(t) PROVE x \in ToSet(s \o t)
  <2>1. PICK k \in 1..Len(t) : x = t[k]
    BY <1>4, <1>7
  <2>2. Len(s) + k \in 1..(Len(s) + Len(t))
    BY <1>1
  <2> QED
    BY <1>3, <1>4, <2>1, <2>2
<1> QED
  BY <1>1, <1>5, <1>6, <1>7

(* Where the elements of a joined sequence are.                            *)
LEMMA JoinPlaces ==
  ASSUME NEW T, NEW s \in Seq(T), NEW t \in Seq(T), NEW k \in 1..Len(s \o t)
  PROVE  \/ k \in 1..Len(s) /\ (s \o t)[k] = s[k]
         \/ k - Len(s) \in 1..Len(t) /\ (s \o t)[k] = t[k - Len(s)]
<1>1. Len(s) \in Nat /\ Len(t) \in Nat /\ Len(s \o t) = Len(s) + Len(t) /\ k \in Int
  OBVIOUS
<1>2. CASE k <= Len(s)
  BY <1>1, <1>2
<1>3. CASE ~(k <= Len(s))
  <2>1. k - Len(s) \in 1..Len(t) /\ k = Len(s) + (k - Len(s))
    BY <1>1, <1>3
  <2>2. \A j \in 1..Len(t) : (s \o t)[Len(s) + j] = t[j]
    OBVIOUS
  <2> QED
    BY <2>1, <2>2
<1> QED
  BY <1>2, <1>3

(* A sequence whose elements are all in a set.                             *)
LEMMA InSeqOf ==
  ASSUME NEW T, NEW R, NEW s \in Seq(T), \A x \in ToSet(s) : x \in R
  PROVE  s \in Seq(R)
<1>1. Len(s) \in Nat /\ s \in [1..Len(s) -> T] /\ DOMAIN s = 1..Len(s)
  OBVIOUS
<1>2. \A k \in 1..Len(s) : s[k] \in R
  BY <1>1 DEF ToSet
<1>3. s \in [1..Len(s) -> R]
  BY <1>1, <1>2
<1> QED
  BY <1>1, <1>3

(* A finite set in an order.                                               *)
LEMMA OrderedIn ==
  ASSUME NEW S, IsFiniteSet(S)
  PROVE  /\ Cardinality(S) \in Nat /\ SetToSeq(S) \in [1..Cardinality(S) -> S]
         /\ \A i, j \in 1..Cardinality(S) : SetToSeq(S)[i] = SetToSeq(S)[j] => i = j
<1>1. Cardinality(S) \in Nat /\ ExistsBijection(1..Cardinality(S), S)
  BY FS_CardinalityType
<1>2. \E f \in [1..Cardinality(S) -> S] : IsInjective(f)
  BY <1>1 DEF ExistsBijection, Bijection, Injection
<1>3. SetToSeq(S) \in [1..Cardinality(S) -> S] /\ IsInjective(SetToSeq(S))
  BY <1>1, <1>2 DEF SetToSeq
<1> HIDE DEF SetToSeq
<1>4. DOMAIN SetToSeq(S) = 1..Cardinality(S)
  BY <1>3
<1> QED
  BY <1>1, <1>3, <1>4 DEF IsInjective

----------------------------------------------------------------------------
(* A reporter that pings has somebody to ping: the reason why a report is  *)
(* never empty, which TypeOK needs.                                        *)
Pinging == \A s \in Sources : pc[s] = "ping" => peers[s] # {}

CollectorInv == TypeOK /\ Pinging /\ AckedIsStored

(* The parts of TypeOK, by what they are about.                            *)
WorldTyped ==
  /\ up \subseteq Peers /\ nodes \in [Addrs -> {"none", "online", "offline"}] /\ home \in Addrs
  /\ changes \in 0..MaxChanges /\ running \in BOOLEAN /\ health \in {"idle", "read", "ok", "stale"}
StoreTyped == rows \in Seq(Row) /\ open \in Seq(Row) /\ acked \subseteq Row
ProcTyped ==
  /\ pc \in [Sources -> {"idle", "ping", "post", "sleep"}] /\ peers \in [Sources -> SUBSET Peers]
  /\ to \in [Reporters -> Addrs \cup {"nobody"}]
  /\ samples \in [Sources -> Seq(Row)]
  /\ \A s \in Sources : pc[s] = "post" <=> samples[s] # <<>>
  /\ Pinging

LEMMA TypedParts == TypeOK /\ Pinging <=> WorldTyped /\ StoreTyped /\ ProcTyped
  BY DEF TypeOK, WorldTyped, StoreTyped, ProcTyped

LEMMA ProcStays == ASSUME ProcTyped, UNCHANGED proc PROVE ProcTyped'
  BY DEF ProcTyped, Pinging, proc

(* A cycle that ends.                                                      *)
LEMMA SleepDoes ==
  ASSUME ProcTyped, NEW s \in Sources, Sleep(s)
  PROVE  ProcTyped'
<1>1. samples' = [samples EXCEPT ![s] = <<>>] /\ <<>> \in Seq(Row)
  BY DEF Sleep
<1>2. samples' \in [Sources -> Seq(Row)]
  BY <1>1 DEF ProcTyped
<1>3. /\ pc' \in [Sources -> {"idle", "ping", "post", "sleep"}] /\ peers' \in [Sources -> SUBSET Peers]
      /\ Pinging'
  BY DEF Sleep, ProcTyped, Pinging
<1>4. to' \in [Reporters -> Addrs \cup {"nobody"}]
  BY DEF Sleep, ProcTyped
<1>5. \A x \in Sources : pc'[x] = "post" <=> samples'[x] # <<>>
  BY <1>1 DEF Sleep, ProcTyped
<1> QED
  BY <1>2, <1>3, <1>4, <1>5 DEF ProcTyped

(* What a writer adds.                                                     *)
LEMMA InsertDoes ==
  ASSUME StoreTyped, NEW new \in Seq(Row), Insert(new)
  PROVE  /\ rows' \in Seq(Row) /\ open' \in Seq(Row)
         /\ ToSet(rows) \cup ToSet(new) \subseteq ToSet(rows')
<1>1. rows \in Seq(Row) /\ open \in Seq(Row) /\ rows' = (rows \o open) \o new /\ open' = <<>>
  BY DEF StoreTyped, Insert
<1>2. rows \o open \in Seq(Row) /\ ToSet(rows \o open) = ToSet(rows) \cup ToSet(open)
  BY <1>1, JoinHas
<1> DEFINE all == rows \o open
<1> HIDE DEF all
<1>3. all \o new \in Seq(Row) /\ ToSet(all \o new) = ToSet(all) \cup ToSet(new)
  <2>1. all \in Seq(Row)
    BY <1>2 DEF all
  <2> QED
    BY <2>1, JoinHas
<1>4. rows' = all \o new /\ ToSet(rows) \subseteq ToSet(all)
  BY <1>1, <1>2 DEF all
<1> QED
  BY <1>1, <1>3, <1>4

(* What a writer that fails adds to the open transaction.                  *)
LEMMA RaisesDoes ==
  ASSUME WorldTyped, StoreTyped, NEW new \in Seq(Row), InsertRaises(new), running' = running, health' = health
  PROVE  WorldTyped' /\ rows' = rows /\ open' \in Seq(Row)
<1>1. PICK k \in 0..Len(new) : open' = open \o SubSeq(new, 1, k)
  BY DEF InsertRaises
<1>2. SubSeq(new, 1, k) \in Seq(Row)
  OBVIOUS
<1>3. open' \in Seq(Row)
  BY <1>1, <1>2 DEF StoreTyped
<1>4. WorldTyped'
  BY CollectorAssumption DEF WorldTyped, InsertRaises, Budget
<1> QED
  BY <1>3, <1>4 DEF InsertRaises

(* What a Tick leaves of a table: the rows still in the window, older.     *)
LEMMA AgedHas ==
  ASSUME NEW seq \in Seq(Row)
  PROVE  /\ InWindow(Aged(seq)) \in Seq(Row)
         /\ ToSet(InWindow(Aged(seq))) = {r \in {Older(a) : a \in ToSet(seq)} : r.age <= Window}
<1> DEFINE OneOlder == {Older(r) : r \in Row}
<1>1. Aged(seq) \in Seq(OneOlder) /\ ToSet(Aged(seq)) = {Older(a) : a \in ToSet(seq)}
  <2>1. /\ DOMAIN seq = 1..Len(seq) /\ Len(seq) \in Nat
        /\ \A k \in 1..Len(seq) : Older(seq[k]) \in OneOlder
    OBVIOUS
  <2>2. Aged(seq) = [k \in 1..Len(seq) |-> Older(seq[k])]
    BY <2>1 DEF Aged
  <2> HIDE DEF OneOlder
  <2>3. Aged(seq) \in [1..Len(seq) -> OneOlder]
    BY <2>1, <2>2
  <2>4. Aged(seq) \in Seq(OneOlder)
    BY <2>1, <2>3
  <2>5. ToSet(Aged(seq)) = {Older(seq[k]) : k \in 1..Len(seq)} /\ ToSet(seq) = {seq[k] : k \in 1..Len(seq)}
    BY <2>1, <2>2 DEF ToSet
  <2> QED
    BY <2>4, <2>5
<1>2. \A r \in OneOlder : r.age <= Window => r \in Row
  BY LatencyAssumption DEF Older, Row
<1> DEFINE Kept == {r \in ToSet(Aged(seq)) : r.age <= Window}
<1> HIDE DEF OneOlder
<1>3. InWindow(Aged(seq)) \in Seq(OneOlder) /\ ToSet(InWindow(Aged(seq))) = ToSet(Aged(seq)) \cap Kept
  BY <1>1, OnlyKeeps DEF InWindow
<1>4. ToSet(InWindow(Aged(seq))) = Kept
  BY <1>3
<1>5. \A r \in ToSet(InWindow(Aged(seq))) : r \in Row
  <2>1. \A r \in ToSet(Aged(seq)) : r \in OneOlder
    BY <1>1 DEF ToSet
  <2> QED
    BY <1>2, <1>4, <2>1
<1>6. InWindow(Aged(seq)) \in Seq(Row)
  BY <1>3, <1>5, InSeqOf
<1> QED
  BY <1>1, <1>4, <1>6

----------------------------------------------------------------------------
(* The pings of a source.                                                  *)
LEMMA PingDoes ==
  ASSUME ProcTyped, NEW s \in Sources, Ping(s)
  PROVE  ProcTyped'
<1> DEFINE order == SetToSeq(peers[s])
           n == Cardinality(peers[s])
<1>1. n \in Nat /\ n # 0 /\ order \in [1..n -> peers[s]]
  <2>1. peers[s] # {} /\ peers[s] \subseteq Peers
    BY DEF Ping, ProcTyped, Pinging
  <2>2. IsFiniteSet(peers[s])
    BY <2>1, CollectorAssumption, FS_Subset
  <2> QED
    BY <2>1, <2>2, OrderedIn, FS_EmptySet
<1>2. PICK pr \in [peers[s] -> PingResults \cup {Failed}] :
         samples' = [samples EXCEPT ![s] =
           [k \in DOMAIN order |-> [age |-> 0, src |-> s, dst |-> Host[order[k]], path |-> parse_pingresult(pr[order[k]])]]]
  BY DEF Ping
<1> DEFINE report == [k \in 1..n |-> [age |-> 0, src |-> s, dst |-> Host[order[k]], path |-> parse_pingresult(pr[order[k]])]]
<1>3. DOMAIN order = 1..n
  BY <1>1
<1>4. samples' = [samples EXCEPT ![s] = report]
  BY <1>2, <1>3
<1>5. report \in Seq(Row) /\ report # <<>>
  <2>1. ASSUME NEW k \in 1..n
        PROVE  [age |-> 0, src |-> s, dst |-> Host[order[k]], path |-> parse_pingresult(pr[order[k]])] \in Row
    <3> HIDE DEF order, n
    <3>1. order[k] \in peers[s] /\ order[k] \in Peers
      BY <1>1 DEF ProcTyped
    <3>2. pr[order[k]] \in PingResults \cup {Failed}
      BY <3>1
    <3> QED
      BY <3>1, <3>2, LatencyAssumption DEF Row
  <2> HIDE DEF order, n
  <2>2. report \in [1..n -> Row]
    BY <2>1
  <2>3. DOMAIN report = 1..n /\ 1 \in 1..n
    BY <1>1
  <2> HIDE DEF report
  <2> QED
    BY <1>1, <2>2, <2>3
<1> HIDE DEF report
<1>6. samples' \in [Sources -> Seq(Row)]
  BY <1>4, <1>5 DEF ProcTyped
<1>7. /\ pc' = [pc EXCEPT ![s] = "post"] /\ peers' = [peers EXCEPT ![s] = {}] /\ to' = to
  BY DEF Ping
<1> QED
  BY <1>4, <1>5, <1>6, <1>7 DEF ProcTyped, Pinging

(* A sequence turned round.                                                *)
LEMMA ReverseHas ==
  ASSUME NEW T, NEW s \in Seq(T)
  PROVE  Reverse(s) \in Seq(T) /\ ToSet(Reverse(s)) = ToSet(s)
<1>1. Len(s) \in Nat /\ DOMAIN s = 1..Len(s) /\ \A k \in 1..Len(s) : s[k] \in T
  OBVIOUS
<1>2. \A k \in 1..Len(s) : (Len(s) - k) + 1 \in 1..Len(s) /\ (Len(s) - ((Len(s) - k) + 1)) + 1 = k
  BY <1>1
<1>3. Reverse(s) = [k \in 1..Len(s) |-> s[(Len(s) - k) + 1]]
  BY DEF Reverse
<1>4. Reverse(s) \in [1..Len(s) -> T]
  BY <1>1, <1>2, <1>3
<1>5. ToSet(s) = {s[k] : k \in 1..Len(s)} /\ ToSet(Reverse(s)) = {Reverse(s)[k] : k \in 1..Len(s)}
  BY <1>1, <1>4 DEF ToSet
<1>6. ASSUME NEW x \in ToSet(s) PROVE x \in ToSet(Reverse(s))
  <2>1. PICK k \in 1..Len(s) : x = s[k]
    BY <1>5, <1>6
  <2>2. Reverse(s)[(Len(s) - k) + 1] = x
    BY <1>2, <1>3, <2>1
  <2> QED
    BY <1>2, <1>5, <2>2
<1>7. ASSUME NEW x \in ToSet(Reverse(s)) PROVE x \in ToSet(s)
  <2>1. PICK k \in 1..Len(s) : x = Reverse(s)[k]
    BY <1>5, <1>7
  <2> QED
    BY <1>2, <1>3, <1>5, <2>1
<1> QED
  BY <1>1, <1>4, <1>6, <1>7

(* The sorting of rows, age by age.                                        *)
AgeOf(seq, a) == {r \in ToSet(seq) : r.age = a}
SortedUpto(seq, upto) ==
  /\ upto[0] = Only(Reverse(seq), AgeOf(seq, 0))
  /\ \A a \in 1..Window : upto[a] = upto[a-1] \o Only(Reverse(seq), AgeOf(seq, a))

LEMMA NewestFirstSteps ==
  ASSUME NEW T, NEW seq \in Seq(T)
  PROVE  \E upto : SortedUpto(seq, upto) /\ NewestFirst(seq) = upto[Window]
<1> DEFINE Layer(a) == Only(Reverse(seq), {r \in ToSet(seq) : r.age = a})
           Below(f, a) == IF a = 0 THEN <<>> ELSE f[a-1]
           Step(f, a) == Below(f, a) \o Layer(a)
           Solves(f, n) == \A a \in 0..n : f[a] = Step(f, a)
           Solved(n) == \E f : Solves(f, n)
           Unsolved == {n \in 0..Window : ~Solved(n)}
<1>a. Window \in Nat
  BY LatencyAssumption
<1>b. ASSUME NEW a \in 0..Window
      PROVE  Layer(a) \in Seq(T)
  <2>1. Reverse(seq) \in Seq(T)
    BY ReverseHas
  <2> DEFINE Aged_a == {r \in ToSet(seq) : r.age = a}
  <2> HIDE DEF Aged_a
  <2>2. Only(Reverse(seq), Aged_a) \in Seq(T)
    BY <2>1, OnlyKeeps
  <2> QED
    BY <2>1, <2>2 DEF Aged_a
<1> HIDE DEF Layer
<1>1. Unsolved = {}
  <2> SUFFICES ASSUME Unsolved # {} PROVE FALSE
    OBVIOUS
  <2>0. PICK n \in Unsolved : \A m \in Unsolved : n <= m
    <3>1. Unsolved \in SUBSET Nat
      OBVIOUS
    <3> HIDE DEF Unsolved
    <3> QED
      BY <3>1, LeastExists
  <2>1. n \in 0..Window /\ ~Solved(n) /\ \A m \in 0..Window : ~Solved(m) => n <= m
    BY <2>0
  <2>2. CASE n = 0
    <3> DEFINE first == [k \in 0..0 |-> <<>> \o Layer(0)]
    <3>0. \A a \in 0..0 : a = 0
      OBVIOUS
    <3>a. first[0] = <<>> \o Layer(0)
      OBVIOUS
    <3> HIDE DEF first
    <3>1. Solves(first, 0)
      BY <3>0, <3>a
    <3> QED
      BY <2>1, <2>2, <3>1
  <2>3. CASE n # 0
    <3>1. n \in Nat /\ n - 1 \in 0..Window /\ Solved(n - 1)
      <4> HIDE DEF Solved
      <4> QED
        BY <1>a, <2>1, <2>3
    <3>2. PICK f : Solves(f, n - 1)
      BY <3>1
    <3> DEFINE g == [k \in 0..n |-> IF k = n THEN Step(f, n) ELSE f[k]]
    <3>3. ASSUME NEW k \in 0..n PROVE g[k] = Step(g, k)
      <4>1. CASE k = 0
        <5>1. 0 \in 0..(n-1) /\ g[0] = f[0]
          BY <2>3, <3>1
        <5>2. f[0] = Step(f, 0)
          BY <3>2, <5>1
        <5>3. Step(f, 0) = <<>> \o Layer(0) /\ Step(g, 0) = <<>> \o Layer(0)
          OBVIOUS
        <5> QED
          BY <4>1, <5>1, <5>2, <5>3
      <4>2. CASE k # 0
        <5>1. k - 1 \in 0..n /\ k - 1 # n
          BY <3>1, <4>2
        <5>2. g[k-1] = f[k-1]
          BY <5>1
        <5>3. CASE k = n
          BY <4>2, <5>2, <5>3
        <5>4. CASE k # n
          <6>1. k \in 0..(n-1) /\ g[k] = f[k]
            BY <3>1, <5>4
          <6> QED
            BY <3>2, <4>2, <5>2, <6>1
        <5> QED
          BY <5>3, <5>4
      <4> QED
        BY <4>1, <4>2
    <3> HIDE DEF g
    <3>4. Solves(g, n)
      BY <3>3
    <3> QED
      BY <2>1, <3>4
  <2> QED
    BY <2>2, <2>3
<1> DEFINE upto == CHOOSE f : f = [a \in 0..Window |-> (IF a = 0 THEN <<>> ELSE f[a-1]) \o Layer(a)]
<1>2. upto = [a \in 0..Window |-> (IF a = 0 THEN <<>> ELSE upto[a-1]) \o Layer(a)]
  <2>0. Solved(Window)
    <3>1. Window \in 0..Window
      BY <1>a
    <3> HIDE DEF Solved
    <3> QED
      BY <1>1, <3>1
  <2>1. PICK h : Solves(h, Window)
    BY <2>0
  <2> DEFINE f == [k \in 0..Window |-> h[k]]
  <2>2. ASSUME NEW k \in 0..Window
        PROVE  f[k] = (IF k = 0 THEN <<>> ELSE f[k-1]) \o Layer(k)
    <3>1. k = 0 \/ k - 1 \in 0..Window
      BY <1>a
    <3> QED
      BY <2>1, <3>1
  <2>3. f = [a \in 0..Window |-> (IF a = 0 THEN <<>> ELSE f[a-1]) \o Layer(a)]
    BY <2>2
  <2> HIDE DEF f
  <2> QED
    BY <2>3
<1>3. NewestFirst(seq) = upto[Window]
  BY DEF NewestFirst, Layer
<1> HIDE DEF upto
<1>4. 0 \in 0..Window /\ \A a \in 1..Window : a \in 0..Window /\ a # 0
  BY <1>a
<1>5. \A s \in Seq(T) : <<>> \o s = s
  OBVIOUS
<1>6. upto[0] = Layer(0)
  BY <1>b, <1>2, <1>4, <1>5
<1>7. \A a \in 1..Window : upto[a] = upto[a-1] \o Layer(a)
  BY <1>2, <1>4
<1> QED
  BY <1>3, <1>6, <1>7 DEF SortedUpto, Layer, AgeOf
(* Sorted rows are the same rows, and the newer ones are first.            *)
AgesRise(seq) == \A i, j \in 1..Len(seq) : i <= j => seq[i].age <= seq[j].age

LEMMA NewestFirstHas ==
  ASSUME NEW T, NEW seq \in Seq(T), \A r \in T : r.age \in 0..Window
  PROVE  /\ NewestFirst(seq) \in Seq(T) /\ ToSet(NewestFirst(seq)) = ToSet(seq)
         /\ AgesRise(NewestFirst(seq))
<1>1. PICK upto : SortedUpto(seq, upto) /\ NewestFirst(seq) = upto[Window]
  BY NewestFirstSteps
<1>2. Window \in Nat /\ \A r \in ToSet(seq) : r \in T /\ r.age \in 0..Window
  BY LatencyAssumption DEF ToSet
<1>3. ASSUME NEW a \in 0..Window
      PROVE  /\ Only(Reverse(seq), AgeOf(seq, a)) \in Seq(T)
             /\ ToSet(Only(Reverse(seq), AgeOf(seq, a))) = AgeOf(seq, a)
  <2>1. Reverse(seq) \in Seq(T) /\ ToSet(Reverse(seq)) = ToSet(seq)
    BY ReverseHas
  <2>2. /\ Only(Reverse(seq), AgeOf(seq, a)) \in Seq(T)
        /\ ToSet(Only(Reverse(seq), AgeOf(seq, a))) = ToSet(Reverse(seq)) \cap AgeOf(seq, a)
    BY <2>1, OnlyKeeps
  <2> QED
    BY <2>1, <2>2 DEF AgeOf
<1> DEFINE Upto(a) == {r \in ToSet(seq) : r.age <= a}
           Right == {a \in 0..Window : /\ upto[a] \in Seq(T) /\ ToSet(upto[a]) = Upto(a)
                                       /\ AgesRise(upto[a])}
<1>4. \A s \in Seq(T), k \in Nat : k \in 1..Len(s) => s[k] \in ToSet(s)
  BY DEF ToSet
<1>5. 0 \in Right
  <2>1. upto[0] \in Seq(T) /\ ToSet(upto[0]) = AgeOf(seq, 0) /\ 0 \in 0..Window
    BY <1>1, <1>2, <1>3 DEF SortedUpto
  <2>2. AgeOf(seq, 0) = Upto(0)
    BY <1>2 DEF AgeOf
  <2>3. \A k \in 1..Len(upto[0]) : upto[0][k].age = 0
    BY <1>4, <2>1 DEF AgeOf
  <2>4. AgesRise(upto[0])
    BY <2>3 DEF AgesRise
  <2> HIDE DEF Upto
  <2> QED
    BY <2>1, <2>2, <2>4
<1>6. ASSUME NEW a \in 1..Window, a - 1 \in Right
      PROVE  a \in Right
  <2> DEFINE before == upto[a-1]
             layer == Only(Reverse(seq), AgeOf(seq, a))
  <2>0. a \in 0..Window /\ a \in Nat
    BY <1>2
  <2>1. before \in Seq(T) /\ ToSet(before) = Upto(a-1) /\ AgesRise(before)
    BY <1>6
  <2>2. layer \in Seq(T) /\ ToSet(layer) = AgeOf(seq, a)
    BY <1>3, <2>0
  <2>3. upto[a] = before \o layer
    BY <1>1 DEF SortedUpto
  <2>4. Upto(a) = Upto(a-1) \cup AgeOf(seq, a)
    BY <1>2, <2>0 DEF AgeOf
  <2> HIDE DEF before, layer
  <2>5. before \o layer \in Seq(T) /\ ToSet(before \o layer) = ToSet(before) \cup ToSet(layer)
    BY <2>1, <2>2, JoinHas
  <2>6. \A k \in 1..Len(before) : before[k].age \in Int /\ before[k].age <= a - 1
    BY <1>2, <1>4, <2>1
  <2>7. \A k \in 1..Len(layer) : layer[k].age = a
    BY <1>4, <2>2 DEF AgeOf
  <2> DEFINE both == before \o layer
  <2>8. AgesRise(both)
    <3> SUFFICES ASSUME NEW i \in 1..Len(both), NEW j \in 1..Len(both), i <= j
                 PROVE  both[i].age <= both[j].age
      BY DEF AgesRise
    <3>1. /\ i \in Nat /\ j \in Nat /\ Len(before) \in Nat /\ Len(layer) \in Nat
      BY <2>1, <2>2, <2>5
    <3>2. \/ i \in 1..Len(before) /\ both[i] = before[i]
          \/ i - Len(before) \in 1..Len(layer) /\ both[i] = layer[i - Len(before)]
      BY <2>1, <2>2, JoinPlaces
    <3>3. \/ j \in 1..Len(before) /\ both[j] = before[j]
          \/ j - Len(before) \in 1..Len(layer) /\ both[j] = layer[j - Len(before)]
      BY <2>1, <2>2, JoinPlaces
    <3> HIDE DEF both
    <3>4. CASE j \in 1..Len(before) /\ both[j] = before[j]
      <4>1. i \in 1..Len(before) /\ ~(i - Len(before) \in 1..Len(layer))
        BY <3>1, <3>4
      <4> QED
        BY <2>1, <3>2, <3>4, <4>1 DEF AgesRise
    <3>5. CASE j - Len(before) \in 1..Len(layer) /\ both[j] = layer[j - Len(before)]
      <4>1. both[j].age = a
        BY <2>7, <3>5
      <4>2. both[i].age \in Int /\ both[i].age <= a
        BY <2>0, <2>6, <2>7, <3>2
      <4> QED
        BY <4>1, <4>2
    <3> QED
      BY <3>3, <3>4, <3>5
  <2> HIDE DEF Upto
  <2> QED
    BY <2>0, <2>1, <2>2, <2>3, <2>4, <2>5, <2>8
<1> HIDE DEF Right
<1>7. Window \in Right
  <2>1. Window \in 0..Window
    BY <1>2
  <2> QED
    BY <1>2, <1>5, <1>6, <2>1, Climbs
<1>8. Upto(Window) = ToSet(seq)
  BY <1>2
<1> QED
  BY <1>1, <1>7, <1>8 DEF Right

----------------------------------------------------------------------------
(* No two rows of a table are of one pair and one age.                     *)
Key(r) == <<r.src, r.dst, r.age>>
Single(seq) == \A i, j \in 1..Len(seq) : Key(seq[i]) = Key(seq[j]) => i = j

LEMMA OnlySingle ==
  ASSUME NEW T, NEW seq \in Seq(T), NEW S, Single(seq)
  PROVE  Single(Only(seq, S))
<1>1. PICK f : TakenFrom(Only(seq, S), seq, f)
  BY OnlyTakes
<1> DEFINE sub == Only(seq, S)
<1> HIDE DEF sub
<1> SUFFICES ASSUME NEW i \in 1..Len(sub), NEW j \in 1..Len(sub), Key(sub[i]) = Key(sub[j])
             PROVE  i = j
  BY DEF Single, sub
<1>2. /\ f[i] \in 1..Len(seq) /\ f[j] \in 1..Len(seq) /\ sub[i] = seq[f[i]] /\ sub[j] = seq[f[j]]
      /\ f[i] = f[j] => i = j
  BY <1>1 DEF TakenFrom, sub
<1> QED
  BY <1>2 DEF Single

(* All that is stored is in the window: what is older is forgotten.        *)
LEMMA WindowHas ==
  ASSUME NEW seq \in Seq(Row)
  PROVE  InWindow(seq) \in Seq(Row) /\ ToSet(InWindow(seq)) = ToSet(seq)
<1> DEFINE inside == {r \in ToSet(seq) : r.age <= Window}
<1>0. \A r \in Row : r.age <= Window
  BY LatencyAssumption DEF Row
<1>1. \A r \in ToSet(seq) : r \in Row /\ r.age <= Window
  BY <1>0 DEF ToSet
<1>2. inside = ToSet(seq)
  BY <1>1
<1> HIDE DEF inside
<1>3. Only(seq, inside) \in Seq(Row) /\ ToSet(Only(seq, inside)) = ToSet(seq) \cap inside
  BY OnlyKeeps
<1> QED
  BY <1>2, <1>3 DEF InWindow, inside

LEMMA OfHas ==
  ASSUME NEW T, NEW seq \in Seq(T), NEW p
  PROVE  Of(seq, p) \in Seq(T) /\ ToSet(Of(seq, p)) = {r \in ToSet(seq) : Pair(r) = p}
<1> DEFINE S == {r \in ToSet(seq) : Pair(r) = p}
<1> HIDE DEF S
<1>1. Only(seq, S) \in Seq(T) /\ ToSet(Only(seq, S)) = ToSet(seq) \cap S
  BY OnlyKeeps
<1> QED
  BY <1>1 DEF Of, S

LEMMA AnsweredHas ==
  ASSUME NEW T, NEW seq \in Seq(T)
  PROVE  Answered(seq) \in Seq(T) /\ ToSet(Answered(seq)) = {r \in ToSet(seq) : ok(r)}
<1> DEFINE S == {r \in ToSet(seq) : ok(r)}
<1> HIDE DEF S
<1>1. Only(seq, S) \in Seq(T) /\ ToSet(Only(seq, S)) = ToSet(seq) \cap S
  BY OnlyKeeps
<1> QED
  BY <1>1 DEF Answered, S

(* What a page or a health check reads of the table is in the table, and   *)
(* what the LIMIT leaves out is no newer than anything it reads.           *)
LEMMA FoundIsThere ==
  ASSUME NEW seq \in Seq(Row)
  PROVE  /\ query_latency(seq) \in Seq(Row) /\ ToSet(query_latency(seq)) \subseteq ToSet(seq)
         /\ \A r \in ToSet(seq) : \/ r \in ToSet(query_latency(seq))
                                  \/ \A x \in ToSet(query_latency(seq)) : x.age <= r.age
<1>1. InWindow(seq) \in Seq(Row) /\ ToSet(InWindow(seq)) = ToSet(seq)
  BY WindowHas
<1>2. \A r \in Row : r.age \in 0..Window
  BY DEF Row
<1> DEFINE sorted == NewestFirst(InWindow(seq))
           limit == IF Len(sorted) < RowLimit THEN Len(sorted) ELSE RowLimit
<1>3. sorted \in Seq(Row) /\ ToSet(sorted) = ToSet(seq) /\ AgesRise(sorted)
  BY <1>1, <1>2, NewestFirstHas
<1> HIDE DEF sorted
<1>4. limit \in 0..Len(sorted) /\ Len(sorted) \in Nat
  BY <1>3, LatencyAssumption
<1>5. query_latency(seq) = SubSeq(sorted, 1, limit)
  BY DEF query_latency, sorted
<1> HIDE DEF limit
<1> DEFINE cut == SubSeq(sorted, 1, limit)
<1>6. cut \in Seq(Row)
  BY <1>3, <1>4
<1>7. /\ DOMAIN cut = 1..limit /\ DOMAIN sorted = 1..Len(sorted)
      /\ \A k \in 1..limit : cut[k] = sorted[k] /\ k \in 1..Len(sorted)
  BY <1>3, <1>4
<1> HIDE DEF cut
<1>8. ToSet(cut) \subseteq ToSet(sorted)
  BY <1>7 DEF ToSet
<1>9. ASSUME NEW r \in ToSet(sorted), r \notin ToSet(cut), NEW x \in ToSet(cut)
      PROVE  x.age <= r.age
  <2>1. PICK k \in 1..Len(sorted) : r = sorted[k]
    BY <1>7 DEF ToSet
  <2>2. PICK j \in 1..limit : x = cut[j]
    BY <1>7 DEF ToSet
  <2>3. k \notin 1..limit
    BY <1>7, <1>9, <2>1 DEF ToSet
  <2>4. j <= k /\ j \in 1..Len(sorted) /\ x = sorted[j]
    BY <1>4, <1>7, <2>2, <2>3
  <2> QED
    BY <1>3, <2>1, <2>4 DEF AgesRise
<1> QED
  BY <1>3, <1>5, <1>6, <1>8, <1>9 DEF cut

----------------------------------------------------------------------------
(* The row that max() of aggregate_latency takes exists.                   *)
LEMMA LastExists ==
  ASSUME NEW g \in Seq(Row), ToSet(g) # {}
  PROVE  \E k \in DOMAIN g : \A j \in DOMAIN g : g[k].age <= g[j].age /\ (g[k].age = g[j].age => k <= j)
<1>0. \A r \in Row : r.age \in Nat
  BY LatencyAssumption DEF Row
<1>1. DOMAIN g = 1..Len(g) /\ Len(g) \in Nat /\ \A k \in 1..Len(g) : g[k].age \in Nat
  BY <1>0
<1> DEFINE ages == {g[k].age : k \in 1..Len(g)}
<1>2. ages \in SUBSET Nat /\ ages # {}
  BY <1>1 DEF ToSet
<1> HIDE DEF ages
<1>3. PICK a \in ages : \A b \in ages : a <= b
  BY <1>2, LeastExists
<1> DEFINE firsts == {k \in 1..Len(g) : g[k].age = a}
<1>4. firsts \in SUBSET Nat /\ firsts # {}
  BY <1>1 DEF ages
<1> HIDE DEF firsts
<1>5. PICK k \in firsts : \A j \in firsts : k <= j
  BY <1>4, LeastExists
<1>6. k \in 1..Len(g) /\ g[k].age = a
  BY <1>5 DEF firsts
<1>7. ASSUME NEW j \in 1..Len(g)
      PROVE  g[k].age <= g[j].age /\ (g[k].age = g[j].age => k <= j)
  <2>1. g[j].age \in ages
    BY DEF ages
  <2>2. g[j].age = a => j \in firsts
    BY DEF firsts
  <2> QED
    BY <1>3, <1>5, <1>6, <2>1, <2>2
<1> QED
  BY <1>1, <1>6, <1>7

LEMMA AggregateIsTrue ==
  ASSUME NEW seq \in Seq(Row), NEW p \in DOMAIN aggregate_latency(query_latency(seq))
  PROVE  LET agg == aggregate_latency(query_latency(seq))
         IN  /\ Newest({r \in ToSet(seq) : Pair(r) = p}, agg[p].last.age)
             /\ agg[p].direct <= agg[p].oks
<1> DEFINE rs == query_latency(seq)
<1>1. /\ rs \in Seq(Row)
      /\ \A r \in ToSet(seq) : r \in ToSet(rs) \/ \A x \in ToSet(rs) : x.age <= r.age
  BY FoundIsThere
<1> HIDE DEF rs
<1>2. p \in Pairs(rs)
  BY DEF aggregate_latency, rs
<1> DEFINE g == Of(rs, p)
           answered == {r \in ToSet(g) : ok(r)}
           direct == {r \in ToSet(g) : r.path = "direct"}
           k == CHOOSE k \in DOMAIN g : \A j \in DOMAIN g :
                  g[k].age <= g[j].age /\ (g[k].age = g[j].age => k <= j)
           entry == aggregate_latency(rs)[p]
<1>3. g \in Seq(Row) /\ ToSet(g) = {r \in ToSet(rs) : Pair(r) = p} /\ ToSet(g) # {}
  BY <1>1, <1>2, OfHas DEF Pairs
<1>4. entry.last = g[k] /\ entry.oks = Len(Only(g, answered)) /\ entry.direct = Len(Only(g, direct))
  BY <1>2 DEF aggregate_latency, Answered
<1> HIDE DEF g
<1>5. k \in DOMAIN g /\ \A j \in DOMAIN g : g[k].age <= g[j].age
  BY <1>3, LastExists
<1> HIDE DEF k, entry
<1>6. g[k] \in ToSet(rs) /\ \A r \in ToSet(rs) : Pair(r) = p => g[k].age <= r.age
  <2>1. ToSet(g) = {g[j] : j \in DOMAIN g}
    BY DEF ToSet
  <2> QED
    BY <1>3, <1>5, <2>1
<1>7. Newest({r \in ToSet(seq) : Pair(r) = p}, entry.last.age)
  BY <1>1, <1>4, <1>6 DEF Newest
<1>8. direct \subseteq answered
  BY DEF ok
<1> HIDE DEF direct, answered
<1>9. Len(Only(g, direct)) <= Len(Only(g, answered))
  BY <1>3, <1>8, OnlyShorter
<1> QED
  BY <1>4, <1>7, <1>9 DEF entry, rs

LEMMA SeriesIsTrue ==
  ASSUME NEW seq \in Seq(Row), NEW p \in DOMAIN latency_series(query_latency(seq))
  PROVE  Newest({r \in ToSet(seq) : Pair(r) = p /\ ok(r)}, Last(latency_series(query_latency(seq))[p]))
<1> DEFINE rs == query_latency(seq)
<1>1. /\ rs \in Seq(Row)
      /\ \A r \in ToSet(seq) : r \in ToSet(rs) \/ \A x \in ToSet(rs) : x.age <= r.age
  BY FoundIsThere
<1> HIDE DEF rs
<1> DEFINE answered == Answered(rs)
           g == Of(answered, p)
           sorted == NewestFirst(g)
           points == latency_series(rs)[p]
<1>2. p \in Pairs(answered) /\ points = [k \in DOMAIN Reverse(sorted) |-> Reverse(sorted)[k].age]
  BY DEF latency_series, rs
<1>3. answered \in Seq(Row) /\ ToSet(answered) = {r \in ToSet(rs) : ok(r)}
  BY <1>1, AnsweredHas
<1> HIDE DEF answered, points
<1>4. g \in Seq(Row) /\ ToSet(g) = {r \in ToSet(answered) : Pair(r) = p} /\ ToSet(g) # {}
  BY <1>2, <1>3, OfHas DEF Pairs
<1> HIDE DEF g
<1>5. \A r \in Row : r.age \in 0..Window /\ r.age \in Nat
  BY LatencyAssumption DEF Row
<1>6. sorted \in Seq(Row) /\ ToSet(sorted) = ToSet(g) /\ AgesRise(sorted)
  BY <1>4, <1>5, NewestFirstHas
<1> HIDE DEF sorted
<1>7. DOMAIN sorted = 1..Len(sorted) /\ Len(sorted) \in Nat
  BY <1>6
<1>8. Len(sorted) # 0 /\ 1 \in 1..Len(sorted) /\ sorted[1] \in ToSet(sorted)
  <2>1. Len(sorted) # 0
    BY <1>4, <1>6, <1>7 DEF ToSet
  <2> QED
    BY <1>7, <2>1 DEF ToSet
<1>9. Last(points) = sorted[1].age
  <2>1. Reverse(sorted) = [k \in 1..Len(sorted) |-> sorted[(Len(sorted) - k) + 1]]
    BY DEF Reverse
  <2>2. points = [k \in 1..Len(sorted) |-> sorted[(Len(sorted) - k) + 1].age]
    BY <1>2, <2>1
  <2>3. \A k \in 1..Len(sorted) : (Len(sorted) - k) + 1 \in 1..Len(sorted)
    BY <1>7
  <2>4. points \in [1..Len(sorted) -> Nat]
    BY <1>5, <1>6, <1>7, <2>2, <2>3
  <2>5. Len(points) = Len(sorted) /\ Len(sorted) \in 1..Len(sorted) /\ (Len(sorted) - Len(sorted)) + 1 = 1
    BY <1>7, <1>8, <2>4
  <2> QED
    BY <2>2, <2>5 DEF Last
<1>10. ASSUME NEW r \in ToSet(seq), Pair(r) = p, ok(r)
       PROVE  sorted[1].age <= r.age
  <2>1. CASE r \in ToSet(rs)
    <3>1. r \in ToSet(sorted)
      BY <1>3, <1>4, <1>6, <1>10, <2>1
    <3>2. PICK k \in 1..Len(sorted) : r = sorted[k]
      BY <1>7, <3>1 DEF ToSet
    <3> QED
      BY <1>6, <1>8, <3>2 DEF AgesRise
  <2>2. CASE \A x \in ToSet(rs) : x.age <= r.age
    BY <1>3, <1>4, <1>6, <1>8, <2>2
  <2> QED
    BY <1>1, <2>1, <2>2
<1> QED
  BY <1>9, <1>10 DEF Newest, points, rs

LEMMA LatencyTrue ==
  ASSUME Visible \in Seq(Row)
  PROVE  LatencyIsTrue
<1> DEFINE seen == Visible
<1> HIDE DEF seen
<1>1. ASSUME NEW p \in DOMAIN aggregate_latency(query_latency(seen))
      PROVE  /\ Newest({r \in ToSet(seen) : Pair(r) = p}, aggregate_latency(query_latency(seen))[p].last.age)
             /\ aggregate_latency(query_latency(seen))[p].direct <= aggregate_latency(query_latency(seen))[p].oks
  BY AggregateIsTrue DEF seen
<1>2. ASSUME NEW p \in DOMAIN latency_series(query_latency(seen))
      PROVE  Newest({r \in ToSet(seen) : Pair(r) = p /\ ok(r)}, Last(latency_series(query_latency(seen))[p]))
  BY SeriesIsTrue DEF seen
<1>3. ASSUME NEW p
      PROVE  {r \in {r \in ToSet(seen) : Pair(r) = p} : ok(r)} = {r \in ToSet(seen) : Pair(r) = p /\ ok(r)}
  OBVIOUS
<1> QED
  BY <1>1, <1>2, <1>3 DEF LatencyIsTrue, seen

----------------------------------------------------------------------------
(* The steps of a reporter, of the poll, of the service and of the world   *)
(* around them, and of the clock, each keep the three parts and what was   *)
(* answered in the table.                                                  *)
Parts == WorldTyped /\ StoreTyped /\ ProcTyped /\ AckedIsStored

LEMMA StoreStays ==
  ASSUME StoreTyped, AckedIsStored, UNCHANGED <<rows, open, acked>>
  PROVE  StoreTyped' /\ AckedIsStored'
  BY DEF StoreTyped, AckedIsStored

LEMMA WorldStays ==
  ASSUME WorldTyped, UNCHANGED <<world, running, health>>
  PROVE  WorldTyped'
  BY DEF WorldTyped, world

(* A report that is stored and then answered.                              *)
LEMMA StoredThenAcked ==
  ASSUME StoreTyped, AckedIsStored, NEW new \in Seq(Row), Insert(new), acked' \in {acked, acked \cup ToSet(new)}
  PROVE  StoreTyped' /\ AckedIsStored'
<1>1. /\ rows' \in Seq(Row) /\ open' \in Seq(Row)
      /\ ToSet(rows) \cup ToSet(new) \subseteq ToSet(rows')
  BY InsertDoes
<1>2. ToSet(new) \subseteq Row
  BY DEF ToSet
<1> QED
  BY <1>1, <1>2 DEF StoreTyped, AckedIsStored

LEMMA RaisedStore ==
  ASSUME StoreTyped, AckedIsStored, rows' = rows, open' \in Seq(Row), acked' = acked
  PROVE  StoreTyped' /\ AckedIsStored'
  BY DEF StoreTyped, AckedIsStored

(* A validated report is a report.                                         *)
LEMMA ValidatedIsTyped ==
  ASSUME NEW report \in Seq(Row)
  PROVE  validate_report(report) \in Seq(Row)
  BY OnlyKeeps, Zenon DEF validate_report

LEMMA PostKeeps ==
  ASSUME Parts, NEW r \in Reporters, Post(r)
  PROVE  Parts'
<1> DEFINE report == validate_report(samples[r])
<1>1. r \in Sources
  BY DEF Sources
<1>2. report \in Seq(Row)
  <2>1. samples[r] \in Seq(Row)
    BY <1>1 DEF Parts, ProcTyped
  <2> QED
    BY <2>1, ValidatedIsTyped
<1>3. /\ \/ /\ Insert(report) /\ UNCHANGED world
            /\ acked' \in {acked, acked \cup ToSet(report)}
         \/ InsertRaises(report) /\ UNCHANGED acked
      /\ Sleep(r) /\ UNCHANGED <<running, health>>
  BY DEF Post
<1> HIDE DEF report
<1>4. ProcTyped'
  BY <1>1, <1>3, SleepDoes DEF Parts
<1>5. CASE Insert(report) /\ UNCHANGED world /\ acked' \in {acked, acked \cup ToSet(report)}
  <2>1. StoreTyped' /\ AckedIsStored'
    BY <1>2, <1>5, StoredThenAcked DEF Parts
  <2>2. WorldTyped'
    BY <1>3, <1>5, WorldStays DEF Parts
  <2> QED
    BY <1>4, <2>1, <2>2 DEF Parts
<1>6. CASE InsertRaises(report) /\ UNCHANGED acked
  <2>1. WorldTyped' /\ rows' = rows /\ open' \in Seq(Row)
    BY <1>2, <1>3, <1>6, RaisesDoes DEF Parts
  <2>2. StoreTyped' /\ AckedIsStored'
    BY <1>6, <2>1, RaisedStore DEF Parts
  <2> QED
    BY <1>4, <2>1, <2>2 DEF Parts
<1> QED
  BY <1>3, <1>5, <1>6

LEMMA CycleKeeps ==
  ASSUME Parts, NEW r \in Reporters, Cycle(r)
  PROVE  Parts'
<1>0. r \in Sources
  BY DEF Sources
<1>1. CASE ReadStatus(r)
  <2>1. StoreTyped' /\ AckedIsStored' /\ WorldTyped'
    BY <1>1, StoreStays, WorldStays DEF Parts, ReadStatus
  <2>2. CASE Sleep(r)
    BY <1>0, <2>1, <2>2, SleepDoes DEF Parts
  <2>3. CASE /\ up # {} /\ pc[r] = "idle"
             /\ \E a \in Collectors : to' = [to EXCEPT ![r] = a]
             /\ pc' = [pc EXCEPT ![r] = "ping"] /\ peers' = [peers EXCEPT ![r] = up]
             /\ UNCHANGED samples
    <3>1. Collectors \subseteq Addrs
      BY DEF Collectors, Are
    <3> QED
      BY <1>0, <2>1, <2>3, <3>1 DEF Parts, ProcTyped, WorldTyped, Pinging
  <2> QED
    BY <1>1, <2>2, <2>3 DEF ReadStatus
<1>2. CASE Ping(r)
  <2>1. StoreTyped' /\ AckedIsStored' /\ WorldTyped'
    BY <1>2, StoreStays, WorldStays DEF Parts, Ping
  <2> QED
    BY <1>0, <1>2, <2>1, PingDoes DEF Parts
<1>3. CASE Post(r)
  BY <1>3, PostKeeps
<1>4. CASE PostFails(r)
  <2>1. StoreTyped' /\ AckedIsStored' /\ WorldTyped'
    BY <1>4, StoreStays, WorldStays DEF Parts, PostFails
  <2> QED
    BY <1>0, <1>4, <2>1, SleepDoes DEF Parts, PostFails
<1> QED
  BY <1>1, <1>2, <1>3, <1>4 DEF Cycle

LEMMA NothingAdded ==
  ASSUME StoreTyped, AckedIsStored, Insert(<<>>), acked' = acked
  PROVE  StoreTyped' /\ AckedIsStored'
<1>1. <<>> \in Seq(Row)
  OBVIOUS
<1> QED
  BY <1>1, StoredThenAcked

LEMMA PollKeeps ==
  ASSUME Parts, Poll
  PROVE  Parts'
<1>0. SRC_NAME \in Sources /\ SRC_NAME \notin Reporters
  BY CollectorAssumption DEF Sources
<1>1. CASE Fetch
  <2>1. WorldTyped'
    BY <1>1, WorldStays DEF Parts, Fetch
  <2>2. StoreTyped' /\ AckedIsStored'
    BY <1>1, NothingAdded DEF Parts, Fetch
  <2>3. CASE Sleep(SRC_NAME)
    BY <1>0, <2>1, <2>2, <2>3, SleepDoes DEF Parts
  <2>4. CASE /\ pingable_nodes # {} /\ pc[SRC_NAME] = "idle"
             /\ pc' = [pc EXCEPT ![SRC_NAME] = "ping"] /\ peers' = [peers EXCEPT ![SRC_NAME] = pingable_nodes]
             /\ UNCHANGED <<to, samples>>
    <3>1. pingable_nodes \in SUBSET Peers
      <4>1. up \subseteq Peers
        BY DEF Parts, WorldTyped
      <4> QED
        BY <4>1, Zenon DEF pingable_nodes
    <3> QED
      BY <1>0, <2>1, <2>2, <2>4, <3>1 DEF Parts, ProcTyped, Pinging
  <2> QED
    BY <1>1, <2>3, <2>4 DEF Fetch
<1>2. CASE Ping(SRC_NAME)
  <2>1. StoreTyped' /\ AckedIsStored' /\ WorldTyped'
    BY <1>2, StoreStays, WorldStays DEF Parts, Ping
  <2> QED
    BY <1>0, <1>2, <2>1, PingDoes DEF Parts
<1>3. CASE Record
  <2> DEFINE new == samples[SRC_NAME]
  <2>1. new \in Seq(Row)
    BY <1>0 DEF Parts, ProcTyped
  <2>2. /\ (Insert(new) /\ UNCHANGED world) \/ InsertRaises(new)
        /\ Sleep(SRC_NAME) /\ UNCHANGED <<running, health, acked>>
    BY <1>3 DEF Record
  <2> HIDE DEF new
  <2>3. ProcTyped'
    BY <1>0, <2>2, SleepDoes DEF Parts
  <2>4. CASE Insert(new) /\ UNCHANGED world
    <3>1. WorldTyped'
      BY <2>2, <2>4, WorldStays DEF Parts
    <3>2. StoreTyped' /\ AckedIsStored'
      BY <2>1, <2>2, <2>4, StoredThenAcked DEF Parts
    <3> QED
      BY <2>3, <3>1, <3>2 DEF Parts
  <2>5. CASE InsertRaises(new)
    <3>1. WorldTyped' /\ rows' = rows /\ open' \in Seq(Row)
      BY <2>1, <2>2, <2>5, RaisesDoes DEF Parts
    <3>2. StoreTyped' /\ AckedIsStored'
      BY <2>2, <3>1, RaisedStore DEF Parts
    <3> QED
      BY <2>3, <3>1, <3>2 DEF Parts
  <2> QED
    BY <2>2, <2>4, <2>5
<1> QED
  BY <1>1, <1>2, <1>3 DEF Poll

(* The clock: a row that leaves the window leaves the history too.         *)
LEMMA TickKeeps ==
  ASSUME Parts, Tick
  PROVE  Parts'
<1>1. rows \in Seq(Row) /\ open \in Seq(Row) /\ acked \subseteq Row /\ acked \subseteq ToSet(rows)
  BY DEF Parts, StoreTyped, AckedIsStored
<1>2. /\ rows' \in Seq(Row) /\ open' \in Seq(Row)
      /\ ToSet(rows') = {r \in {Older(a) : a \in ToSet(rows)} : r.age <= Window}
  BY <1>1, AgedHas DEF Tick
<1>3. acked' \subseteq ToSet(rows')
  BY <1>1, <1>2 DEF Tick
<1>4. ToSet(rows') \subseteq Row
  BY <1>2 DEF ToSet
<1>5. StoreTyped' /\ AckedIsStored'
  BY <1>2, <1>3, <1>4 DEF StoreTyped, AckedIsStored
<1>6. WorldTyped'
  BY WorldStays DEF Parts, Tick
<1>7. /\ pc' = [s \in Sources |-> IF pc[s] = "sleep" THEN "idle" ELSE pc[s]]
      /\ UNCHANGED <<peers, to, samples>>
  BY DEF Tick
<1>8. ProcTyped'
  BY <1>7 DEF Parts, ProcTyped, Pinging
<1> QED
  BY <1>5, <1>6, <1>8 DEF Parts

LEMMA WorldKeeps ==
  ASSUME Parts, World
  PROVE  Parts'
<1>0. SRC_NAME \in Sources
  BY DEF Sources
<1>1. CASE Crash
  <2>1. WorldTyped'
    <3>1. /\ running' = FALSE /\ health' = "idle" /\ UNCHANGED <<up, nodes, home>>
          /\ changes < MaxChanges /\ changes' = changes + 1
      BY <1>1 DEF Crash, Budget
    <3>2. changes' \in 0..MaxChanges
      BY <3>1, CollectorAssumption DEF Parts, WorldTyped
    <3> QED
      BY <3>1, <3>2 DEF Parts, WorldTyped
  <2>2. StoreTyped' /\ AckedIsStored'
    <3>1. rows' = rows /\ acked' = acked /\ open' = <<>> /\ <<>> \in Seq(Row)
      BY <1>1 DEF Crash
    <3> QED
      BY <3>1, RaisedStore DEF Parts
  <2> QED
    BY <1>0, <1>1, <2>1, <2>2, SleepDoes DEF Parts, Crash
<1>2. ASSUME NEW p \in Peers, PeerTurns(p) PROVE Parts'
  <2>1. WorldTyped'
    BY <1>2, CollectorAssumption DEF Parts, WorldTyped, PeerTurns, Budget
  <2> QED
    BY <1>2, <2>1, StoreStays, ProcStays DEF Parts, PeerTurns
<1>3. ASSUME NEW a \in Addrs, Redeploy(a) PROVE Parts'
  <2>1. WorldTyped'
    BY <1>3, CollectorAssumption DEF Parts, WorldTyped, Redeploy, Budget
  <2> QED
    BY <1>3, <2>1, StoreStays, ProcStays DEF Parts, Redeploy
<1>4. ASSUME NEW a \in Addrs, NEW st \in {"none", "online", "offline"}, NodeTurns(a, st) PROVE Parts'
  <2>1. WorldTyped'
    BY <1>4, CollectorAssumption DEF Parts, WorldTyped, NodeTurns, Budget
  <2> QED
    BY <1>4, <2>1, StoreStays, ProcStays DEF Parts, NodeTurns
<1>5. ASSUME NEW s \in Sources, CallFails(s) PROVE Parts'
  <2>1. WorldTyped'
    BY <1>5, CollectorAssumption DEF Parts, WorldTyped, CallFails, Budget
  <2> QED
    BY <1>5, <2>1, StoreStays, SleepDoes DEF Parts, CallFails
<1> QED
  BY <1>1, <1>2, <1>3, <1>4, <1>5 DEF World

LEMMA StepKeeps ==
  ASSUME Parts, [Next]_vars
  PROVE  Parts'
<1>1. CASE Netcheck
  <2>1. WorldTyped' /\ ProcTyped'
    BY <1>1, WorldStays, ProcStays DEF Parts, Netcheck
  <2>2. StoreTyped' /\ AckedIsStored'
    BY <1>1, NothingAdded DEF Parts, Netcheck
  <2> QED
    BY <2>1, <2>2 DEF Parts
<1>2. CASE HealthRead
  <2>1. StoreTyped' /\ AckedIsStored' /\ ProcTyped'
    BY <1>2, StoreStays, ProcStays DEF Parts, HealthRead
  <2>2. WorldTyped'
    BY <1>2 DEF Parts, WorldTyped, HealthRead, world
  <2> QED
    BY <2>1, <2>2 DEF Parts
<1>3. CASE HealthAnswer
  <2>1. StoreTyped' /\ AckedIsStored' /\ ProcTyped'
    BY <1>3, StoreStays, ProcStays DEF Parts, HealthAnswer
  <2>2. WorldTyped'
    BY <1>3 DEF Parts, WorldTyped, HealthAnswer, world
  <2> QED
    BY <2>1, <2>2 DEF Parts
<1>4. CASE Restart
  <2>1. StoreTyped' /\ AckedIsStored' /\ ProcTyped'
    BY <1>4, StoreStays, ProcStays DEF Parts, Restart
  <2>2. WorldTyped'
    BY <1>4 DEF Parts, WorldTyped, Restart, world
  <2> QED
    BY <2>1, <2>2 DEF Parts
<1>5. CASE UNCHANGED vars
  <2>1. UNCHANGED <<world, running, health>> /\ UNCHANGED <<rows, open, acked>> /\ UNCHANGED proc
    BY <1>5 DEF vars
  <2> QED
    BY <2>1, WorldStays, StoreStays, ProcStays DEF Parts
<1> QED
  BY <1>1, <1>2, <1>3, <1>4, <1>5, CycleKeeps, PollKeeps, TickKeeps, WorldKeeps DEF Next

LEMMA InitKeeps == ASSUME Init PROVE Parts
<1>1. <<>> \in Seq(Row) /\ ToSet(<<>>) = {}
  BY DEF ToSet
<1>2. WorldTyped
  BY CollectorAssumption DEF Init, WorldTyped
<1>3. StoreTyped /\ AckedIsStored
  BY <1>1 DEF Init, StoreTyped, AckedIsStored
<1>4. ProcTyped
  BY <1>1 DEF Init, ProcTyped, Pinging
<1> QED
  BY <1>2, <1>3, <1>4 DEF Parts

----------------------------------------------------------------------------
(* The invariant that is inductive: types, that whoever pings has somebody *)
(* to ping, and that what was answered is committed.                       *)
THEOREM CollectorInvariant == Spec => []CollectorInv
<1>1. Init => Parts
  BY InitKeeps
<1>2. Parts /\ [Next]_vars => Parts'
  BY StepKeeps
<1>3. Parts => CollectorInv
  BY TypedParts DEF Parts, CollectorInv
<1> QED
  BY <1>1, <1>2, <1>3, PTL DEF Spec

(* Every table, sample and report has the form the collector's schema and  *)
(* the reporters' messages give it (dedup.py:296-303, reporter.py:92-107). *)
THEOREM CollectorTyped == Spec => []TypeOK
<1>1. CollectorInv => TypeOK
  BY DEF CollectorInv
<1> QED
  BY <1>1, CollectorInvariant, PTL

(* A report answered with 200 is in the table, whole and committed, until  *)
(* it leaves the window: for any reporters and any order of failed         *)
(* statements, commits by other threads, crashes and restarts              *)
(* (dedup.py:407-424, 960-968).                                            *)
THEOREM AckedIsKept == Spec => []AckedIsStored
<1>1. CollectorInv => AckedIsStored
  BY DEF CollectorInv
<1> QED
  BY <1>1, CollectorInvariant, PTL

----------------------------------------------------------------------------
(* What a health check has read is still there when it answers, unless it  *)
(* has left the window meanwhile: other threads add rows, the clock ages   *)
(* both alike, and a crash, which rolls the open rows back, ends the check.*)
FoundRow == [src : Sources, age : 0..(Window + 1)]
IsSeen(x) == \E r \in ToSet(Visible) : r.src = x.src /\ r.age = x.age
StillThere == found \subseteq FoundRow /\ \A x \in found : x.age <= Window => IsSeen(x)

LEMMA VisibleHas ==
  ASSUME StoreTyped
  PROVE  Visible \in Seq(Row) /\ ToSet(Visible) = ToSet(rows) \cup ToSet(open)
  BY JoinHas DEF StoreTyped, Visible

(* A step that leaves the check alone and loses no row.                    *)
LEMMA NothingLost ==
  ASSUME StoreTyped, StoreTyped', StillThere, found' = found,
         ToSet(rows) \cup ToSet(open) \subseteq ToSet(rows') \cup ToSet(open')
  PROVE  StillThere'
<1>1. ToSet(Visible) = ToSet(rows) \cup ToSet(open)
  BY VisibleHas
<1>2. ToSet(Visible)' = ToSet(rows') \cup ToSet(open')
  <2>1. (Visible \in Seq(Row) /\ ToSet(Visible) = ToSet(rows) \cup ToSet(open))'
    <3>1. rows' \in Seq(Row) /\ open' \in Seq(Row)
      BY DEF StoreTyped
    <3> QED
      BY <3>1, JoinHas DEF Visible
  <2> QED
    BY <2>1
<1> QED
  BY <1>1, <1>2 DEF StillThere, IsSeen

LEMMA InsertLosesNothing ==
  ASSUME StoreTyped, NEW new \in Seq(Row), Insert(new)
  PROVE  ToSet(rows) \cup ToSet(open) \subseteq ToSet(rows') \cup ToSet(open')
<1>1. rows \in Seq(Row) /\ open \in Seq(Row) /\ rows' = (rows \o open) \o new
  BY DEF StoreTyped, Insert
<1> DEFINE all == rows \o open
<1>2. all \in Seq(Row) /\ ToSet(all) = ToSet(rows) \cup ToSet(open)
  BY <1>1, JoinHas
<1> HIDE DEF all
<1>3. ToSet(all \o new) = ToSet(all) \cup ToSet(new)
  BY <1>2, JoinHas
<1> QED
  BY <1>1, <1>2, <1>3 DEF all

LEMMA RaisesLosesNothing ==
  ASSUME StoreTyped, NEW new \in Seq(Row), InsertRaises(new)
  PROVE  ToSet(rows) \cup ToSet(open) \subseteq ToSet(rows') \cup ToSet(open')
<1>1. PICK k \in 0..Len(new) : open' = open \o SubSeq(new, 1, k)
  BY DEF InsertRaises
<1> DEFINE part == SubSeq(new, 1, k)
<1>2. part \in Seq(Row)
  OBVIOUS
<1>3. ToSet(open') = ToSet(open) \cup ToSet(part)
  <2>1. open \in Seq(Row) /\ open' = open \o part
    BY <1>1 DEF StoreTyped
  <2> HIDE DEF part
  <2> QED
    BY <1>2, <2>1, JoinHas
<1> QED
  BY <1>3 DEF InsertRaises

LEMMA TickKeepsFound ==
  ASSUME Parts, StillThere, Tick
  PROVE  StillThere'
<1>1. rows \in Seq(Row) /\ open \in Seq(Row)
  BY DEF Parts, StoreTyped
<1>2. /\ rows' \in Seq(Row) /\ ToSet(rows') = {r \in {Older(a) : a \in ToSet(rows)} : r.age <= Window}
      /\ open' \in Seq(Row) /\ ToSet(open') = {r \in {Older(a) : a \in ToSet(open)} : r.age <= Window}
  BY <1>1, AgedHas DEF Tick
<1>3. ToSet(Visible) = ToSet(rows) \cup ToSet(open)
  BY VisibleHas DEF Parts
<1>4. ToSet(Visible)' = ToSet(rows') \cup ToSet(open')
  BY <1>2, JoinHas DEF Visible
<1>5. found \subseteq FoundRow /\ \A x \in found : x.age <= Window => IsSeen(x)
  BY DEF StillThere
<1>6. found' = {IF x.age > Window THEN x ELSE Older(x) : x \in found}
  BY DEF Tick
<1>7. Window \in Nat /\ \A x \in FoundRow : x.age \in Int
  BY LatencyAssumption DEF FoundRow
<1>8. ASSUME NEW y \in found'
      PROVE  y \in FoundRow /\ (y.age <= Window => IsSeen(y)')
  <2>1. PICK x \in found : y = IF x.age > Window THEN x ELSE Older(x)
    BY <1>6
  <2>2. CASE x.age > Window
    BY <1>5, <1>7, <2>1, <2>2
  <2>3. CASE ~(x.age > Window)
    <3>1. y = Older(x) /\ x \in FoundRow /\ x.age <= Window
      BY <1>5, <1>7, <2>1, <2>3
    <3>2. y \in FoundRow /\ y.age = x.age + 1 /\ y.src = x.src
      BY <1>7, <3>1 DEF Older, FoundRow
    <3>3. PICK r \in ToSet(Visible) : r.src = x.src /\ r.age = x.age
      BY <1>5, <3>1 DEF IsSeen
    <3>4. Older(r).src = y.src /\ Older(r).age = y.age
      <4>1. r \in Row
        BY <1>1, VisibleHas DEF Parts, ToSet
      <4> QED
        BY <3>2, <3>3, <4>1 DEF Older, Row
    <3>5. y.age <= Window => Older(r) \in ToSet(Visible)'
      BY <1>2, <1>3, <1>4, <3>3, <3>4
    <3> QED
      BY <3>2, <3>4, <3>5 DEF IsSeen
  <2> QED
    BY <2>2, <2>3
<1> QED
  BY <1>8 DEF StillThere

LEMMA FoundStep ==
  ASSUME Parts, Parts', StillThere, [Next]_vars
  PROVE  StillThere'
<1>0. StoreTyped /\ StoreTyped' /\ SRC_NAME \in Sources /\ Reporters \subseteq Sources
  BY DEF Parts, Sources
<1>1. CASE HealthRead
  <2>1. ToSet(query_latency(Visible)) \subseteq ToSet(Visible) /\ Visible \in Seq(Row)
    BY <1>0, VisibleHas, FoundIsThere
  <2>2. \A r \in ToSet(Visible) : r.src \in Sources /\ r.age \in 0..(Window + 1)
    <3>1. \A r \in Row : r.src \in Sources /\ r.age \in 0..(Window + 1)
      BY LatencyAssumption DEF Row
    <3> QED
      BY <2>1, <3>1 DEF ToSet
  <2>3. found' = {[src |-> r.src, age |-> r.age] : r \in ToSet(query_latency(Visible))} /\ Visible' = Visible
    BY <1>1 DEF HealthRead, Visible
  <2> QED
    BY <2>1, <2>2, <2>3 DEF StillThere, FoundRow, IsSeen
<1>2. CASE found' = {}
  BY <1>2 DEF StillThere
<1>3. CASE Tick
  BY <1>3, TickKeepsFound
<1>4. CASE found' = found /\ Insert(<<>>)
  <2>1. <<>> \in Seq(Row)
    OBVIOUS
  <2> QED
    BY <1>0, <1>4, <2>1, InsertLosesNothing, NothingLost
<1>5. CASE Record
  <2> DEFINE new == samples[SRC_NAME]
  <2>1. new \in Seq(Row)
    BY <1>0 DEF Parts, ProcTyped
  <2>2. found' = found /\ (Insert(new) \/ InsertRaises(new))
    BY <1>5 DEF Record
  <2> HIDE DEF new
  <2> QED
    BY <1>0, <2>1, <2>2, InsertLosesNothing, RaisesLosesNothing, NothingLost
<1>6. ASSUME NEW r \in Reporters, Post(r) PROVE StillThere'
  <2> DEFINE report == validate_report(samples[r])
  <2>1. report \in Seq(Row)
    BY <1>0, ValidatedIsTyped DEF Parts, ProcTyped
  <2>2. found' = found /\ (Insert(report) \/ InsertRaises(report))
    BY <1>6 DEF Post
  <2> HIDE DEF report
  <2> QED
    BY <1>0, <2>1, <2>2, InsertLosesNothing, RaisesLosesNothing, NothingLost
<1>7. CASE found' = found /\ UNCHANGED <<rows, open>>
  BY <1>0, <1>7, NothingLost
<1>8. CASE World
  <2>1. CASE Crash
    BY <1>2, <2>1 DEF Crash
  <2>2. CASE ~Crash
    BY <1>7, <1>8, <2>2 DEF World, PeerTurns, Redeploy, NodeTurns, CallFails
  <2> QED
    BY <2>1, <2>2
<1>9. CASE Poll
  BY <1>4, <1>5, <1>7, <1>9 DEF Poll, Fetch, Ping
<1>10. ASSUME NEW r \in Reporters, Cycle(r) PROVE StillThere'
  BY <1>6, <1>7, <1>10 DEF Cycle, ReadStatus, Ping, PostFails
<1>11. CASE UNCHANGED vars
  BY <1>7, <1>11 DEF vars
<1> QED
  BY <1>1, <1>2, <1>3, <1>4, <1>7, <1>8, <1>9, <1>10, <1>11 DEF Next, Netcheck, HealthAnswer, Restart

(* The answer of a check that found every expected source in the window.   *)
LEMMA AnswerIsTrue ==
  ASSUME StillThere, [Next]_vars, health = "read", health' = "ok"
  PROVE  \A s \in Expected : \E r \in ToSet(Visible) : r.src = s
<1>1. HealthAnswer
  BY DEF Next, Poll, Fetch, Ping, Record, Netcheck, HealthRead, Tick, Restart, World, Crash, PeerTurns, Redeploy,
         NodeTurns, CallFails, Cycle, ReadStatus, Post, PostFails, vars
<1>2. stale_reporters(found, Expected) = {}
  BY <1>1 DEF HealthAnswer
<1>3. ASSUME NEW s \in Expected
      PROVE  \E r \in ToSet(Visible) : r.src = s
  <2>1. PICK x \in found : x.src = s /\ ~(x.age > Window)
    BY <1>2 DEF stale_reporters
  <2>2. x.age <= Window
    BY <2>1, LatencyAssumption DEF StillThere, FoundRow
  <2> QED
    BY <2>1, <2>2 DEF StillThere, IsSeen
<1> QED
  BY <1>3

(* A health check that says ok tells the truth at the time it answers,     *)
(* although it read the rows under the lock and judges them after it: what *)
(* it read and still counts is still in the table, whatever other threads, *)
(* the clock and crashes did between (dedup.py:398-404, 997-1013).         *)
THEOREM HealthAnswersAreTrue == Spec => HealthIsTrue
<1>1. Init => Parts /\ StillThere
  <2> SUFFICES ASSUME Init PROVE Parts /\ StillThere
    OBVIOUS
  <2>1. found = {}
    BY DEF Init
  <2> QED
    BY <2>1, InitKeeps DEF StillThere
<1>2. Parts /\ StillThere /\ [Next]_vars => (Parts /\ StillThere)'
  BY StepKeeps, FoundStep
<1>3. Parts /\ StillThere /\ [Next]_vars
        => [health = "read" /\ health' = "ok" => \A s \in Expected : \E r \in ToSet(Visible) : r.src = s]_vars
  BY AnswerIsTrue
<1> QED
  BY <1>1, <1>2, <1>3, PTL DEF Spec, HealthIsTrue

----------------------------------------------------------------------------
(* The rows that /derp reads: of each pair its newest, once.               *)
LEMMA PingsHas ==
  ASSUME NEW seq \in Seq(Row), Single(seq)
  PROVE  /\ query_all_server_pings(seq) \in Seq(Row) /\ Single(query_all_server_pings(seq))
         /\ ToSet(query_all_server_pings(seq)) =
              {r \in ToSet(seq) : \A s \in ToSet(seq) : Pair(s) = Pair(r) => r.age <= s.age}
<1> DEFINE seen == InWindow(seq)
           newest == {r \in ToSet(seen) : \A s \in ToSet(seen) : Pair(s) = Pair(r) => r.age <= s.age}
<1>1. seen \in Seq(Row) /\ ToSet(seen) = ToSet(seq) /\ Single(seen)
  BY WindowHas, OnlySingle DEF InWindow
<1> HIDE DEF seen
<1>2. newest = {r \in ToSet(seq) : \A s \in ToSet(seq) : Pair(s) = Pair(r) => r.age <= s.age}
  BY <1>1
<1>3. query_all_server_pings(seq) = Only(seen, newest)
  BY DEF query_all_server_pings, seen
<1>4. newest \subseteq ToSet(seen)
  OBVIOUS
<1> HIDE DEF newest
<1>5. /\ Only(seen, newest) \in Seq(Row) /\ ToSet(Only(seen, newest)) = ToSet(seen) \cap newest
      /\ Single(Only(seen, newest))
  BY <1>1, OnlyKeeps, OnlySingle
<1> QED
  BY <1>2, <1>3, <1>4, <1>5

(* Every pair has a newest row.                                            *)
LEMMA NewestExists ==
  ASSUME NEW seq \in Seq(Row), NEW p \in Pairs(seq)
  PROVE  \E r \in ToSet(seq) : Pair(r) = p /\ \A s \in ToSet(seq) : Pair(s) = p => r.age <= s.age
<1> DEFINE ages == {r.age : r \in {s \in ToSet(seq) : Pair(s) = p}}
<1>1. \A r \in Row : r.age \in Nat
  BY LatencyAssumption DEF Row
<1>2. \A r \in ToSet(seq) : r \in Row
  BY DEF ToSet
<1>3. ages \in SUBSET Nat /\ ages # {}
  BY <1>1, <1>2 DEF Pairs
<1> HIDE DEF ages
<1>4. PICK a \in ages : \A b \in ages : a <= b
  BY <1>3, LeastExists
<1> QED
  BY <1>4 DEF ages

LEMMA OnePerPairTrue ==
  ASSUME Visible \in Seq(Row), Single(Visible)
  PROVE  OnePerPair
<1> DEFINE seq == Visible
<1> HIDE DEF seq
<1>0. seq \in Seq(Row) /\ Single(seq)
  BY DEF seq
<1> SUFFICES ASSUME NEW p \in Pairs(seq)
             PROVE  Len(Of(query_all_server_pings(seq), p)) = 1
  BY DEF OnePerPair, seq
<1> DEFINE pings == query_all_server_pings(seq)
           g == Of(pings, p)
<1>1. /\ pings \in Seq(Row) /\ Single(pings)
      /\ ToSet(pings) = {r \in ToSet(seq) : \A s \in ToSet(seq) : Pair(s) = Pair(r) => r.age <= s.age}
  BY <1>0, PingsHas
<1> HIDE DEF pings
<1>2. g \in Seq(Row) /\ ToSet(g) = {r \in ToSet(pings) : Pair(r) = p} /\ Single(g)
  <2>1. Single(Only(pings, {r \in ToSet(pings) : Pair(r) = p}))
    BY <1>1, OnlySingle
  <2>2. Of(pings, p) = Only(pings, {r \in ToSet(pings) : Pair(r) = p})
    BY DEF Of
  <2>3. Of(pings, p) \in Seq(Row) /\ ToSet(Of(pings, p)) = {r \in ToSet(pings) : Pair(r) = p}
    BY <1>1, OfHas
  <2> QED
    BY <2>1, <2>2, <2>3
<1> HIDE DEF g
<1>3. Len(g) \in Nat /\ DOMAIN g = 1..Len(g) /\ ToSet(g) = {g[k] : k \in 1..Len(g)}
  <2>1. Len(g) \in Nat /\ DOMAIN g = 1..Len(g)
    BY <1>2
  <2> QED
    BY <2>1 DEF ToSet
<1>4. Len(g) # 0
  <2>1. PICK r \in ToSet(seq) : Pair(r) = p /\ \A s \in ToSet(seq) : Pair(s) = p => r.age <= s.age
    BY <1>0, NewestExists
  <2>2. r \in ToSet(g)
    BY <1>1, <1>2, <2>1
  <2> QED
    BY <1>3, <2>2
<1>5. ASSUME 2 <= Len(g) PROVE FALSE
  <2>1. 1 \in 1..Len(g) /\ 2 \in 1..Len(g)
    BY <1>3, <1>5
  <2>2. g[1] \in ToSet(g) /\ g[2] \in ToSet(g)
    BY <1>3, <2>1
  <2>3. /\ Pair(g[1]) = p /\ Pair(g[2]) = p /\ g[1] \in ToSet(seq) /\ g[2] \in ToSet(seq)
        /\ g[1].age <= g[2].age /\ g[2].age <= g[1].age
    BY <1>1, <1>2, <2>2
  <2>4. \A r \in Row : r.age \in Int
    BY LatencyAssumption DEF Row
  <2>5. g[1].age \in Int /\ g[2].age \in Int
    BY <1>2, <2>1, <2>4
  <2>6. g[1].age = g[2].age
    BY <2>3, <2>5
  <2>7. Key(g[1]) = Key(g[2])
    BY <2>3, <2>6 DEF Key, Pair
  <2> QED
    BY <1>2, <2>1, <2>7 DEF Single
<1> QED
  BY <1>3, <1>4, <1>5 DEF g, pings

(* A region of each source, whose lines carry the label of the source and  *)
(* of no other.                                                            *)
LEMMA RegionOf ==
  ASSUME DistinctNames, NEW s \in Sources
  PROVE  /\ \E c \in Regions : _code_to_src(c) = s /\ _src_label(c) = Label(s)
         /\ \A c \in Regions : _src_label(c) = Label(s) => _code_to_src(c) = s
<1>1. CASE s = SRC_NAME
  <2>1. _code_to_src("myderp") = s /\ _src_label("myderp") = Label(s) /\ Label(s) = "vpn2"
    BY <1>1 DEF DistinctNames, _code_to_src, _src_label, Label
  <2>2. \A c \in Regions \ {"myderp"} : _src_label(c) # "vpn2"
    BY DEF DistinctNames, _src_label
  <2> QED
    BY <2>1, <2>2 DEF DistinctNames
<1>2. CASE s # SRC_NAME
  <2>1. s \in Reporters /\ Label(s) = s
    BY <1>2 DEF Sources, Label
  <2>2. PICK c \in Regions \ {"myderp"} : Base[c] = s
    BY <2>1 DEF DistinctNames
  <2>3. _code_to_src(c) = s /\ _src_label(c) = s /\ s # "vpn2"
    BY <2>2 DEF _code_to_src, _src_label, DistinctNames
  <2>4. \A d \in Regions : _src_label(d) = s => _code_to_src(d) = s
    BY <2>3 DEF _code_to_src, _src_label
  <2> QED
    BY <2>1, <2>3, <2>4
<1> QED
  BY <1>1, <1>2

LEMMA DerpTrue ==
  ASSUME DistinctNames, Visible \in Seq(Row), Single(Visible)
  PROVE  DerpIsTrue
<1> DEFINE seq == Visible
           pings == query_all_server_pings(seq)
           newest == {r \in ToSet(seq) : Newest({o \in ToSet(seq) : Pair(o) = Pair(r)}, r.age)}
<1>1. ToSet(pings) = {r \in ToSet(seq) : \A s \in ToSet(seq) : Pair(s) = Pair(r) => r.age <= s.age}
  BY PingsHas
<1>2. \A r \in ToSet(seq) : r \in Row
  BY DEF ToSet
<1> HIDE DEF seq
<1>3. ToSet(pings) = newest
  BY <1>1 DEF Newest
<1> HIDE DEF pings
<1> SUFFICES ASSUME NEW dead \in SUBSET Regions
             PROVE  LET page == render_derp_html(pings, dead)
                    IN  /\ \A r \in ToSet(seq) : [label |-> Label(r.src), dst |-> "", tag |-> <<"none">>] \notin page
                        /\ \A r \in newest :
                             \E l \in page : l.label = Label(r.src) /\ l.dst = r.dst /\ (l.tag[1] = "dead") = (r.path \in dead)
                        /\ \A c \in Regions : via_tag([online |-> TRUE, direct |-> FALSE, relay |-> c], dead)
                                                = path_tag([path |-> c], dead)
  BY DEF DerpIsTrue, seq, pings
<1> DEFINE page == render_derp_html(pings, dead)
<1>a. page = UNION {LinesOf(c, pings, dead) : c \in Regions}
  BY DEF render_derp_html
<1> HIDE DEF page
<1>4. ASSUME NEW r \in ToSet(seq), [label |-> Label(r.src), dst |-> "", tag |-> <<"none">>] \in page
      PROVE  FALSE
  <2>1. PICK c \in Regions : [label |-> Label(r.src), dst |-> "", tag |-> <<"none">>] \in LinesOf(c, pings, dead)
    BY <1>4, <1>a
  <2> DEFINE mine == {p \in ToSet(pings) : p.src = _code_to_src(c)}
  <2>2. \A p : path_tag(p, dead) # <<"none">>
    <3>1. ASSUME NEW p PROVE path_tag(p, dead)[1] # "none"
      BY DEF path_tag
    <3> QED
      BY <3>1
  <2>3. mine = {} /\ _src_label(c) = Label(r.src)
    <3>1. CASE mine = {}
      <4>1. [label |-> Label(r.src), dst |-> "", tag |-> <<"none">>] = NoData(c)
        BY <2>1, <3>1 DEF LinesOf
      <4> QED
        BY <3>1, <4>1 DEF NoData
    <3>2. CASE mine # {}
      <4>1. PICK p \in mine : [label |-> Label(r.src), dst |-> "", tag |-> <<"none">>]
                                = [label |-> _src_label(c), dst |-> p.dst, tag |-> path_tag(p, dead)]
        BY <2>1, <3>2 DEF LinesOf
      <4>2. path_tag(p, dead) = <<"none">>
        BY <4>1
      <4> QED
        BY <2>2, <4>2
    <3> QED
      BY <3>1, <3>2
  <2>4. r.src \in Sources
    BY <1>2 DEF Row
  <2>5. _code_to_src(c) = r.src
    BY <2>3, <2>4, RegionOf
  <2>6. PICK o \in ToSet(seq) : Pair(o) = Pair(r) /\ \A s \in ToSet(seq) : Pair(s) = Pair(r) => o.age <= s.age
    BY NewestExists DEF Pairs, seq
  <2>7. o \in mine
    BY <1>1, <2>5, <2>6 DEF Pair
  <2> QED
    BY <2>3, <2>7
<1>5. ASSUME NEW r \in newest
      PROVE  \E l \in page : l.label = Label(r.src) /\ l.dst = r.dst /\ (l.tag[1] = "dead") = (r.path \in dead)
  <2>1. r \in ToSet(pings) /\ r.src \in Sources
    BY <1>2, <1>3 DEF Row
  <2>2. PICK c \in Regions : _code_to_src(c) = r.src /\ _src_label(c) = Label(r.src)
    BY <2>1, RegionOf
  <2> DEFINE line == [label |-> _src_label(c), dst |-> r.dst, tag |-> path_tag(r, dead)]
  <2>3. line \in LinesOf(c, pings, dead)
    BY <2>1, <2>2 DEF LinesOf
  <2>4. line \in page
    BY <1>a, <2>3
  <2>5. (path_tag(r, dead)[1] = "dead") = (r.path \in dead)
    <3>1. "" \notin dead /\ "direct" \notin dead
      BY LatencyAssumption DEF DistinctNames
    <3>2. CASE r.path = "" \/ r.path = "direct"
      <4>1. path_tag(r, dead) = <<"failed">> \/ path_tag(r, dead) = <<"direct">>
        BY <3>2 DEF path_tag
      <4>2. path_tag(r, dead)[1] # "dead"
        BY <4>1
      <4>3. r.path \notin dead
        BY <3>1, <3>2
      <4> QED
        BY <4>2, <4>3
    <3>3. CASE r.path # "" /\ r.path # "direct"
      <4>1. path_tag(r, dead) = <<IF r.path \in dead THEN "dead" ELSE "via", Display(r.path)>>
        BY <3>3 DEF path_tag
      <4>2. path_tag(r, dead)[1] = IF r.path \in dead THEN "dead" ELSE "via"
        BY <4>1
      <4>3. CASE r.path \in dead
        BY <4>2, <4>3
      <4>4. CASE r.path \notin dead
        BY <4>2, <4>4
      <4> QED
        BY <4>3, <4>4
    <3> QED
      BY <3>2, <3>3
  <2> QED
    BY <2>2, <2>4, <2>5
<1>6. ASSUME NEW c \in Regions
      PROVE  via_tag([online |-> TRUE, direct |-> FALSE, relay |-> c], dead) = path_tag([path |-> c], dead)
  <2>1. c # "" /\ c # "direct"
    BY LatencyAssumption DEF DistinctNames
  <2> QED
    BY <2>1 DEF via_tag, path_tag
<1> QED
  BY <1>4, <1>5, <1>6 DEF page

----------------------------------------------------------------------------
(* No row is stored twice: what is in the table, committed or not, is      *)
(* single; a source with a row of this moment sleeps until the next; and   *)
(* what a source is about to post is single and of this moment.            *)
Apart(a, b) == \A x \in ToSet(a), y \in ToSet(b) : Key(x) # Key(y)
Tables == Single(rows) /\ Single(open) /\ Apart(rows, open)
StoredNow == \A r \in ToSet(rows) \cup ToSet(open) : r.age = 0 => pc[r.src] = "sleep"
Sampled(s) == Single(samples[s]) /\ \A r \in ToSet(samples[s]) : r.age = 0 /\ r.src = s
Once == Tables /\ StoredNow /\ \A s \in Sources : Sampled(s)

LEMMA JoinSingle ==
  ASSUME NEW T, NEW s \in Seq(T), NEW t \in Seq(T), Single(s), Single(t), Apart(s, t)
  PROVE  Single(s \o t)
<1> DEFINE both == s \o t
<1>1. /\ Len(s) \in Nat /\ Len(t) \in Nat /\ DOMAIN s = 1..Len(s) /\ DOMAIN t = 1..Len(t)
      /\ both \in Seq(T) /\ Len(both) \in Nat
  OBVIOUS
<1> SUFFICES ASSUME NEW i \in 1..Len(both), NEW j \in 1..Len(both), Key(both[i]) = Key(both[j])
             PROVE  i = j
  BY DEF Single
<1>2. \/ i \in 1..Len(s) /\ both[i] = s[i]
      \/ i - Len(s) \in 1..Len(t) /\ both[i] = t[i - Len(s)]
  BY JoinPlaces
<1>3. \/ j \in 1..Len(s) /\ both[j] = s[j]
      \/ j - Len(s) \in 1..Len(t) /\ both[j] = t[j - Len(s)]
  BY JoinPlaces
<1>4. i \in Int /\ j \in Int
  BY <1>1
<1> HIDE DEF both
<1>5. \A k \in 1..Len(s), m \in 1..Len(t) : Key(s[k]) # Key(t[m])
  BY <1>1 DEF Apart, ToSet
<1>6. CASE i \in 1..Len(s) /\ both[i] = s[i] /\ j \in 1..Len(s) /\ both[j] = s[j]
  BY <1>6 DEF Single
<1>7. CASE i - Len(s) \in 1..Len(t) /\ both[i] = t[i - Len(s)] /\ j - Len(s) \in 1..Len(t) /\ both[j] = t[j - Len(s)]
  <2>1. i - Len(s) = j - Len(s)
    BY <1>7 DEF Single
  <2> QED
    BY <1>1, <1>4, <2>1
<1> QED
  BY <1>2, <1>3, <1>5, <1>6, <1>7

LEMMA CutSingle ==
  ASSUME NEW T, NEW s \in Seq(T), NEW k \in 0..Len(s), Single(s)
  PROVE  /\ SubSeq(s, 1, k) \in Seq(T) /\ Single(SubSeq(s, 1, k))
         /\ ToSet(SubSeq(s, 1, k)) \subseteq ToSet(s)
<1> DEFINE cut == SubSeq(s, 1, k)
<1>1. cut \in Seq(T) /\ Len(cut) = k /\ DOMAIN cut = 1..k /\ DOMAIN s = 1..Len(s)
  OBVIOUS
<1>2. \A i \in 1..k : cut[i] = s[i] /\ i \in 1..Len(s)
  OBVIOUS
<1> HIDE DEF cut
<1>3. Single(cut)
  BY <1>1, <1>2 DEF Single
<1>4. ToSet(cut) \subseteq ToSet(s)
  BY <1>1, <1>2 DEF ToSet
<1> QED
  BY <1>1, <1>3, <1>4 DEF cut

(* What a writer may add: rows of no pair and age that is stored.          *)
Fresh(new) == new \in Seq(Row) /\ Single(new) /\ Apart(rows, new) /\ Apart(open, new)

LEMMA WritesOnce ==
  ASSUME StoreTyped, Tables, NEW new, Fresh(new), Insert(new) \/ InsertRaises(new)
  PROVE  Tables' /\ ToSet(rows') \cup ToSet(open') \subseteq ToSet(rows) \cup ToSet(open) \cup ToSet(new)
<1>0. rows \in Seq(Row) /\ open \in Seq(Row) /\ new \in Seq(Row)
  BY DEF StoreTyped, Fresh
<1>1. CASE Insert(new)
  <2> DEFINE all == rows \o open
  <2>1. all \in Seq(Row) /\ ToSet(all) = ToSet(rows) \cup ToSet(open) /\ Single(all)
    BY <1>0, JoinHas, JoinSingle DEF Tables
  <2>2. rows' = all \o new /\ open' = <<>>
    BY <1>1 DEF Insert
  <2> HIDE DEF all
  <2>3. Apart(all, new)
    BY <2>1 DEF Fresh, Apart
  <2>4. ToSet(all \o new) = ToSet(all) \cup ToSet(new) /\ Single(all \o new)
    BY <1>0, <2>1, <2>3, JoinHas, JoinSingle DEF Fresh
  <2>5. ToSet(<<>>) = {} /\ Single(<<>>)
    BY DEF ToSet, Single
  <2>6. Apart(rows', open')
    BY <2>2, <2>5 DEF Apart
  <2> QED
    BY <2>1, <2>2, <2>4, <2>5, <2>6 DEF Tables
<1>2. CASE InsertRaises(new)
  <2>1. PICK k \in 0..Len(new) : open' = open \o SubSeq(new, 1, k)
    BY <1>2 DEF InsertRaises
  <2> DEFINE cut == SubSeq(new, 1, k)
  <2>2. cut \in Seq(Row) /\ Single(cut) /\ ToSet(cut) \subseteq ToSet(new)
    BY <1>0, CutSingle DEF Fresh
  <2>3. open' = open \o cut /\ rows' = rows
    BY <1>2, <2>1 DEF InsertRaises
  <2> HIDE DEF cut
  <2>4. Apart(open, cut) /\ Apart(rows, cut)
    BY <2>2 DEF Fresh, Apart
  <2>5. ToSet(open \o cut) = ToSet(open) \cup ToSet(cut) /\ Single(open \o cut)
    BY <1>0, <2>2, <2>4, JoinHas, JoinSingle DEF Tables
  <2>6. Apart(rows, open \o cut)
    BY <2>4, <2>5 DEF Tables, Apart
  <2> QED
    BY <2>2, <2>3, <2>5, <2>6 DEF Tables
<1> QED
  BY <1>1, <1>2

LEMMA NothingIsFresh == Fresh(<<>>)
  BY DEF Fresh, Single, Apart, ToSet

(* What a source that is about to post has sampled is not stored yet.      *)
LEMMA SampledIsFresh ==
  ASSUME StoreTyped, ProcTyped, Once, NEW s \in Sources, pc[s] = "post",
         NEW new \in Seq(Row), Single(new), ToSet(new) \subseteq ToSet(samples[s])
  PROVE  Fresh(new)
<1>1. \A x \in ToSet(new) : x.age = 0 /\ x.src = s
  BY DEF Once, Sampled
<1>2. ASSUME NEW y \in ToSet(rows) \cup ToSet(open), NEW x \in ToSet(new), Key(y) = Key(x)
      PROVE  FALSE
  <2>1. y.age = 0 /\ y.src = s
    BY <1>1, <1>2 DEF Key
  <2>2. pc[s] = "sleep"
    BY <2>1 DEF Once, StoredNow
  <2> QED
    BY <2>2
<1> QED
  BY <1>2 DEF Fresh, Apart

(* A cycle that ends, having added to the table at most its own samples.   *)
LEMMA SleepKeepsOnce ==
  ASSUME ProcTyped, Once, Tables', NEW s \in Sources, Sleep(s), NEW new, \A r \in ToSet(new) : r.src = s,
         ToSet(rows') \cup ToSet(open') \subseteq ToSet(rows) \cup ToSet(open) \cup ToSet(new)
  PROVE  Once'
<1>1. pc' = [pc EXCEPT ![s] = "sleep"] /\ samples' = [samples EXCEPT ![s] = <<>>]
  BY DEF Sleep
<1>2. DOMAIN pc = Sources /\ DOMAIN samples = Sources
  BY DEF ProcTyped
<1>3. StoredNow'
  <2> SUFFICES ASSUME NEW r \in ToSet(rows') \cup ToSet(open'), r.age = 0
               PROVE  pc'[r.src] = "sleep"
    BY DEF StoredNow
  <2>1. CASE r \in ToSet(new)
    BY <1>1, <1>2, <2>1
  <2>2. CASE r \in ToSet(rows) \cup ToSet(open)
    <3>1. pc[r.src] = "sleep"
      BY <2>2 DEF Once, StoredNow
    <3> QED
      BY <1>1, <1>2, <3>1
  <2> QED
    BY <2>1, <2>2
<1>4. ASSUME NEW x \in Sources PROVE Sampled(x)'
  <2>1. CASE x = s
    <3>1. samples'[x] = <<>>
      BY <1>1, <1>2, <2>1
    <3> QED
      BY <3>1 DEF Sampled, Single, ToSet
  <2>2. CASE x # s
    <3>1. samples'[x] = samples[x]
      BY <1>1, <1>2, <2>2
    <3> QED
      BY <3>1 DEF Once, Sampled
  <2> QED
    BY <2>1, <2>2
<1> QED
  BY <1>3, <1>4 DEF Once

(* A step that adds nothing, takes no sample and wakes nobody who sleeps.  *)
LEMMA QuietKeepsOnce ==
  ASSUME ProcTyped, Once, Tables', samples' = samples,
         ToSet(rows') \cup ToSet(open') \subseteq ToSet(rows) \cup ToSet(open),
         \A s : pc[s] = "sleep" => pc'[s] = "sleep"
  PROVE  Once'
<1>1. StoredNow'
  BY DEF Once, StoredNow
<1>2. ASSUME NEW x \in Sources PROVE Sampled(x)'
  BY DEF Once, Sampled
<1> QED
  BY <1>1, <1>2 DEF Once

LEMMA TablesStay == ASSUME Tables, UNCHANGED <<rows, open>> PROVE Tables'
  BY DEF Tables

(* The pings of a source are of distinct destinations.                     *)
LEMMA PingOnce ==
  ASSUME DistinctNames, ProcTyped, Once, NEW s \in Sources, Ping(s)
  PROVE  Once'
<1> DEFINE order == SetToSeq(peers[s])
           n == Cardinality(peers[s])
<1>1. n \in Nat /\ order \in [1..n -> peers[s]] /\ \A i, j \in 1..n : order[i] = order[j] => i = j
  <2>1. peers[s] \subseteq Peers
    BY DEF ProcTyped
  <2>2. IsFiniteSet(peers[s])
    BY <2>1, CollectorAssumption, FS_Subset
  <2> QED
    BY <2>2, OrderedIn
<1>2. PICK pr \in [peers[s] -> PingResults \cup {Failed}] :
         samples' = [samples EXCEPT ![s] =
           [k \in DOMAIN order |-> [age |-> 0, src |-> s, dst |-> Host[order[k]], path |-> parse_pingresult(pr[order[k]])]]]
  BY DEF Ping
<1> DEFINE report == [k \in 1..n |-> [age |-> 0, src |-> s, dst |-> Host[order[k]], path |-> parse_pingresult(pr[order[k]])]]
<1>3. samples' = [samples EXCEPT ![s] = report]
  <2>1. DOMAIN order = 1..n
    BY <1>1
  <2> QED
    BY <1>2, <2>1
<1> HIDE DEF n
<1>4. /\ \A k \in 1..n : report[k].age = 0 /\ report[k].src = s /\ report[k].dst = Host[order[k]]
      /\ DOMAIN report = 1..n
  OBVIOUS
<1>5. report \in Seq({report[k] : k \in 1..n}) /\ Len(report) = n
  BY <1>1, <1>4
<1> HIDE DEF report, order
<1>6. ToSet(report) = {report[k] : k \in 1..n}
  BY <1>4 DEF ToSet
<1>7. Single(report)
  <2> SUFFICES ASSUME NEW i \in 1..n, NEW j \in 1..n, Key(report[i]) = Key(report[j])
               PROVE  i = j
    BY <1>5 DEF Single
  <2>1. Host[order[i]] = Host[order[j]]
    BY <1>4 DEF Key
  <2>2. order[i] \in Peers /\ order[j] \in Peers
    BY <1>1 DEF ProcTyped
  <2>3. order[i] = order[j]
    BY <2>1, <2>2 DEF DistinctNames
  <2> QED
    BY <1>1, <2>3
<1>8. DOMAIN samples = Sources /\ DOMAIN pc = Sources
  BY DEF ProcTyped
<1>9. ASSUME NEW x \in Sources PROVE Sampled(x)'
  <2>1. CASE x = s
    <3>1. samples'[x] = report
      BY <1>3, <1>8, <2>1
    <3> QED
      BY <1>4, <1>6, <1>7, <2>1, <3>1 DEF Sampled
  <2>2. CASE x # s
    <3>1. samples'[x] = samples[x]
      BY <1>3, <1>8, <2>2
    <3> QED
      BY <3>1 DEF Once, Sampled
  <2> QED
    BY <2>1, <2>2
<1>10. UNCHANGED <<rows, open>> /\ pc[s] = "ping" /\ pc' = [pc EXCEPT ![s] = "post"]
  BY DEF Ping
<1>11. Tables' /\ StoredNow'
  BY <1>8, <1>10 DEF Once, Tables, StoredNow
<1> QED
  BY <1>9, <1>11 DEF Once

(* The clock ages every row alike, and wakes who sleeps only with that.    *)
LEMMA AgedSingle ==
  ASSUME NEW seq \in Seq(Row), Single(seq)
  PROVE  Single(InWindow(Aged(seq)))
<1>0. \A r \in Row : r.age \in Int
  BY LatencyAssumption DEF Row
<1>1. \A x, y \in Row : Key(Older(x)) = Key(Older(y)) => Key(x) = Key(y)
  BY <1>0 DEF Key, Older, Row
<1>2. /\ DOMAIN seq = 1..Len(seq) /\ Len(seq) \in Nat /\ \A k \in 1..Len(seq) : seq[k] \in Row
  OBVIOUS
<1>3. Aged(seq) = [k \in 1..Len(seq) |-> Older(seq[k])]
  BY <1>2 DEF Aged
<1> DEFINE OneOlder == {Older(r) : r \in Row}
<1>4. Aged(seq) \in Seq(OneOlder) /\ Len(Aged(seq)) = Len(seq)
  <2>1. \A k \in 1..Len(seq) : Older(seq[k]) \in OneOlder
    BY <1>2
  <2> HIDE DEF OneOlder
  <2>2. Aged(seq) \in [1..Len(seq) -> OneOlder]
    BY <1>3, <2>1
  <2> QED
    BY <1>2, <2>2
<1>5. Single(Aged(seq))
  BY <1>1, <1>2, <1>3, <1>4 DEF Single
<1> HIDE DEF OneOlder
<1> QED
  BY <1>4, <1>5, OnlySingle DEF InWindow

LEMMA TickKeepsOnce ==
  ASSUME StoreTyped, Once, Tick
  PROVE  Once'
<1>1. rows \in Seq(Row) /\ open \in Seq(Row) /\ Tables
  BY DEF StoreTyped, Once
<1>2. /\ ToSet(rows') = {r \in {Older(a) : a \in ToSet(rows)} : r.age <= Window}
      /\ ToSet(open') = {r \in {Older(a) : a \in ToSet(open)} : r.age <= Window}
  BY <1>1, AgedHas DEF Tick
<1>3. Single(rows') /\ Single(open')
  BY <1>1, AgedSingle DEF Tick, Tables
<1>4. \A r \in Row : r.age \in Nat
  BY LatencyAssumption DEF Row
<1>5. \A a \in ToSet(rows) \cup ToSet(open) : a \in Row
  BY <1>1 DEF ToSet
<1>6. \A x, y \in Row : Key(Older(x)) = Key(Older(y)) => Key(x) = Key(y)
  BY <1>4 DEF Key, Older, Row
<1>7. Apart(rows', open')
  <2> SUFFICES ASSUME NEW x \in ToSet(rows'), NEW y \in ToSet(open'), Key(x) = Key(y) PROVE FALSE
    BY DEF Apart
  <2>1. PICK a \in ToSet(rows) : x = Older(a)
    BY <1>2
  <2>2. PICK b \in ToSet(open) : y = Older(b)
    BY <1>2
  <2> QED
    BY <1>1, <1>5, <1>6, <2>1, <2>2 DEF Tables, Apart
<1>8. \A r \in Row : Older(r).age # 0
  BY <1>4 DEF Older, Row
<1>9. StoredNow'
  BY <1>2, <1>5, <1>8 DEF StoredNow
<1>10. \A s \in Sources : Sampled(s)'
  BY DEF Tick, Once, Sampled
<1> QED
  BY <1>3, <1>7, <1>9, <1>10 DEF Once, Tables

LEMMA OnceStep ==
  ASSUME DistinctNames, Parts, Once, [Next]_vars
  PROVE  Once'
<1>0. /\ StoreTyped /\ ProcTyped /\ Tables /\ SRC_NAME \in Sources /\ Reporters \subseteq Sources
      /\ DOMAIN pc = Sources /\ \A s \in Sources : samples[s] \in Seq(Row)
  BY DEF Parts, ProcTyped, Once, Sources
<1>1. ToSet(<<>>) = {}
  BY DEF ToSet
<1>2. CASE UNCHANGED <<rows, open>> /\ samples' = samples /\ \A s : pc[s] = "sleep" => pc'[s] = "sleep"
  BY <1>0, <1>2, TablesStay, QuietKeepsOnce
<1>3. ASSUME NEW s \in Sources, Sleep(s), UNCHANGED <<rows, open>>
      PROVE  Once'
  BY <1>0, <1>1, <1>3, TablesStay, SleepKeepsOnce
<1>4. ASSUME Insert(<<>>)
      PROVE  Tables' /\ ToSet(rows') \cup ToSet(open') \subseteq ToSet(rows) \cup ToSet(open)
  BY <1>0, <1>1, <1>4, NothingIsFresh, WritesOnce
<1>5. ASSUME NEW s \in Sources, pc[s] = "post", Sleep(s), NEW new \in Seq(Row), Single(new),
             ToSet(new) \subseteq ToSet(samples[s]), Insert(new) \/ InsertRaises(new)
      PROVE  Once'
  <2>1. Fresh(new)
    BY <1>0, <1>5, SampledIsFresh
  <2>2. Tables' /\ ToSet(rows') \cup ToSet(open') \subseteq ToSet(rows) \cup ToSet(open) \cup ToSet(new)
    BY <1>0, <1>5, <2>1, WritesOnce
  <2>3. \A r \in ToSet(new) : r.src = s
    BY <1>5 DEF Once, Sampled
  <2> QED
    BY <1>0, <1>5, <2>2, <2>3, SleepKeepsOnce
<1>6. ASSUME NEW r \in Reporters, Cycle(r) PROVE Once'
  <2>1. r \in Sources
    BY <1>0
  <2>2. CASE ReadStatus(r)
    <3>1. CASE Sleep(r)
      BY <1>3, <2>1, <2>2, <3>1 DEF ReadStatus
    <3>2. CASE ~Sleep(r)
      <4>1. /\ UNCHANGED <<rows, open>> /\ samples' = samples
            /\ pc[r] = "idle" /\ pc' = [pc EXCEPT ![r] = "ping"]
        BY <2>2, <3>2 DEF ReadStatus
      <4>2. \A s : pc[s] = "sleep" => pc'[s] = "sleep"
        BY <4>1
      <4> QED
        BY <1>2, <4>1, <4>2
    <3> QED
      BY <3>1, <3>2
  <2>3. CASE Ping(r)
    BY <1>0, <2>1, <2>3, PingOnce
  <2>4. CASE Post(r)
    <3> DEFINE new == validate_report(samples[r])
               named == {x \in ToSet(samples[r]) : x.dst # ""}
    <3>1. samples[r] \in Seq(Row) /\ Single(samples[r])
      BY <1>0, <2>1 DEF Once, Sampled
    <3>2. new = Only(samples[r], named)
      BY DEF validate_report
    <3> HIDE DEF named
    <3>3. new \in Seq(Row) /\ Single(new) /\ ToSet(new) \subseteq ToSet(samples[r])
      BY <3>1, <3>2, OnlyKeeps, OnlySingle
    <3>4. pc[r] = "post" /\ Sleep(r) /\ (Insert(new) \/ InsertRaises(new))
      BY <2>4 DEF Post
    <3> HIDE DEF new
    <3> QED
      BY <1>5, <2>1, <3>3, <3>4
  <2>5. CASE PostFails(r)
    BY <1>3, <2>1, <2>5 DEF PostFails
  <2> QED
    BY <1>6, <2>2, <2>3, <2>4, <2>5 DEF Cycle
<1>7. CASE Fetch
  <2>1. Tables' /\ ToSet(rows') \cup ToSet(open') \subseteq ToSet(rows) \cup ToSet(open)
    BY <1>4, <1>7 DEF Fetch
  <2>2. CASE Sleep(SRC_NAME)
    BY <1>0, <1>1, <2>1, <2>2, SleepKeepsOnce
  <2>3. CASE ~Sleep(SRC_NAME)
    <3>1. samples' = samples /\ pc[SRC_NAME] = "idle" /\ pc' = [pc EXCEPT ![SRC_NAME] = "ping"]
      BY <1>7, <2>3 DEF Fetch
    <3>2. \A s : pc[s] = "sleep" => pc'[s] = "sleep"
      BY <3>1
    <3> QED
      BY <1>0, <2>1, <3>1, <3>2, QuietKeepsOnce
  <2> QED
    BY <2>2, <2>3
<1>8. CASE Ping(SRC_NAME)
  BY <1>0, <1>8, PingOnce
<1>9. CASE Record
  <2>1. Single(samples[SRC_NAME]) /\ samples[SRC_NAME] \in Seq(Row)
    BY <1>0 DEF Once, Sampled
  <2>2. /\ pc[SRC_NAME] = "post" /\ Sleep(SRC_NAME)
        /\ Insert(samples[SRC_NAME]) \/ InsertRaises(samples[SRC_NAME])
    BY <1>9 DEF Record
  <2> QED
    BY <1>0, <1>5, <2>1, <2>2
<1>10. CASE Netcheck
  <2>1. Tables' /\ ToSet(rows') \cup ToSet(open') \subseteq ToSet(rows) \cup ToSet(open)
    BY <1>4, <1>10 DEF Netcheck
  <2>2. samples' = samples /\ pc' = pc
    BY <1>10 DEF Netcheck, proc
  <2> QED
    BY <1>0, <2>1, <2>2, QuietKeepsOnce
<1>11. CASE HealthRead \/ HealthAnswer \/ Restart
  BY <1>2, <1>11 DEF HealthRead, HealthAnswer, Restart, proc
<1>12. CASE Tick
  BY <1>0, <1>12, TickKeepsOnce
<1>13. CASE World
  <2>1. CASE Crash
    <3>1. rows' = rows /\ open' = <<>> /\ Sleep(SRC_NAME)
      BY <2>1 DEF Crash
    <3>2. Tables'
      BY <1>0, <1>1, <3>1 DEF Tables, Single, Apart
    <3> QED
      BY <1>0, <1>1, <3>1, <3>2, SleepKeepsOnce
  <2>2. ASSUME NEW p \in Peers, PeerTurns(p) PROVE Once'
    BY <1>2, <2>2 DEF PeerTurns, proc
  <2>3. ASSUME NEW a \in Addrs, Redeploy(a) PROVE Once'
    BY <1>2, <2>3 DEF Redeploy, proc
  <2>4. ASSUME NEW a \in Addrs, NEW st \in {"none", "online", "offline"}, NodeTurns(a, st) PROVE Once'
    BY <1>2, <2>4 DEF NodeTurns, proc
  <2>5. ASSUME NEW s \in Sources, CallFails(s) PROVE Once'
    BY <1>3, <2>5 DEF CallFails
  <2> QED
    BY <1>13, <2>1, <2>2, <2>3, <2>4, <2>5 DEF World
<1>14. CASE UNCHANGED vars
  BY <1>2, <1>14 DEF vars, proc
<1> QED
  BY <1>6, <1>7, <1>8, <1>9, <1>10, <1>11, <1>12, <1>13, <1>14 DEF Next, Poll

LEMMA InitOnce == ASSUME Init PROVE Once
<1>1. rows = <<>> /\ open = <<>> /\ \A s \in Sources : samples[s] = <<>>
  BY DEF Init
<1>2. ToSet(<<>>) = {} /\ Single(<<>>)
  BY DEF ToSet, Single
<1> QED
  BY <1>1, <1>2 DEF Once, Tables, StoredNow, Sampled, Apart

(* The pages tell what is stored: the aggregates and the chart end with    *)
(* the newest sample of a pair however few rows the LIMIT leaves, the      *)
(* newest sample of a pair is one row, since no order of failed            *)
(* statements, lost answers, crashes and commits of other threads stores a *)
(* report twice, and /derp shows it under its source's label, marked dead  *)
(* if and only if its region's probe failed (dedup.py:374-395, 427-457,    *)
(* 618-638, 773-862).                                                      *)
THEOREM PagesTellWhatIsStored == ASSUME DistinctNames PROVE Spec => []PagesAreTrue
<1>1. Init => Parts /\ Once
  BY InitKeeps, InitOnce
<1>2. Parts /\ Once /\ [Next]_vars => (Parts /\ Once)'
  BY StepKeeps, OnceStep
<1>3. Parts /\ Once => PagesAreTrue
  <2> SUFFICES ASSUME Parts, Once PROVE PagesAreTrue
    OBVIOUS
  <2>1. rows \in Seq(Row) /\ open \in Seq(Row) /\ StoreTyped
    BY DEF Parts, StoreTyped
  <2>2. Visible \in Seq(Row) /\ Single(Visible)
    BY <2>1, VisibleHas, JoinSingle DEF Once, Tables, Visible
  <2> QED
    BY <2>2, LatencyTrue, OnePerPairTrue, DerpTrue DEF PagesAreTrue
<1> QED
  BY <1>1, <1>2, <1>3, PTL DEF Spec
=============================================================================
