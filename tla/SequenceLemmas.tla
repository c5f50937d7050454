--------------------------- MODULE SequenceLemmas ---------------------------
(***************************************************************************)
(* Queues as the proofs see them: what Append, Tail and RemoveAt do to the *)
(* set of the elements and to the absence of duplicates.                   *)
(***************************************************************************)
EXTENDS SequencesExt, TLAPS

\* Appending adds one element to what a queue holds.
LEMMA AppendRange ==
  ASSUME NEW S, NEW q \in Seq(S), NEW x \in S
  PROVE  /\ Append(q, x) \in Seq(S)
         /\ Range(Append(q, x)) = Range(q) \cup {x}
<1>1. Append(q, x) \in Seq(S) /\ Len(Append(q, x)) = Len(q) + 1
  OBVIOUS
<1>2. DOMAIN q = 1..Len(q) /\ DOMAIN Append(q, x) = 1..(Len(q) + 1)
  OBVIOUS
<1>3. /\ \A i \in 1..Len(q) : Append(q, x)[i] = q[i]
      /\ Append(q, x)[Len(q) + 1] = x
  OBVIOUS
<1>4. Range(Append(q, x)) \subseteq Range(q) \cup {x}
  BY <1>1, <1>2, <1>3 DEF Range
<1>5. Range(q) \cup {x} \subseteq Range(Append(q, x))
  BY <1>1, <1>2, <1>3 DEF Range
<1> QED BY <1>1, <1>4, <1>5

\* Tail takes the oldest element off a queue.
LEMMA TailRange ==
  ASSUME NEW S, NEW q \in Seq(S), q # <<>>
  PROVE  /\ Tail(q) \in Seq(S)
         /\ Head(q) \in S
         /\ Range(q) = {Head(q)} \cup Range(Tail(q))
<1>1. /\ Len(q) \in Nat /\ Len(q) > 0
      /\ Tail(q) \in Seq(S) /\ Len(Tail(q)) = Len(q) - 1
      /\ Head(q) = q[1] /\ Head(q) \in S
  OBVIOUS
<1>2. DOMAIN q = 1..Len(q) /\ DOMAIN Tail(q) = 1..(Len(q) - 1)
  BY <1>1
<1>3. \A i \in 1..(Len(q) - 1) : Tail(q)[i] = q[i + 1]
  BY <1>1
<1>4. Range(Tail(q)) \subseteq Range(q)
  BY <1>1, <1>2, <1>3 DEF Range
<1>5. ASSUME NEW i \in 1..Len(q)
      PROVE  q[i] = Head(q) \/ q[i] \in Range(Tail(q))
  <2>1. CASE i = 1
    BY <1>1, <2>1
  <2>2. CASE i # 1
    <3>1. i - 1 \in 1..(Len(q) - 1) /\ (i - 1) + 1 = i
      BY <1>1, <2>2
    <3> QED BY <3>1, <1>2, <1>3 DEF Range
  <2> QED BY <2>1, <2>2
<1>6. Head(q) \in Range(q)
  BY <1>1, <1>2 DEF Range
<1> QED BY <1>1, <1>2, <1>4, <1>5, <1>6 DEF Range

\* An empty queue holds nothing.
LEMMA EmptyRange == Range(<<>>) = {}
BY DEF Range

\* A queue stays free of duplicates when a new element is appended.
LEMMA AppendNew ==
  ASSUME NEW S, NEW q \in Seq(S), NEW x \in S, IsInjective(q), x \notin Range(q)
  PROVE  IsInjective(Append(q, x))
<1> DEFINE p == Append(q, x)
<1>1. /\ Len(q) \in Nat /\ DOMAIN q = 1..Len(q)
      /\ DOMAIN p = 1..(Len(q) + 1)
      /\ \A i \in 1..Len(q) : p[i] = q[i]
      /\ p[Len(q) + 1] = x
  OBVIOUS
<1> HIDE DEF p
<1>2. \A i \in 1..Len(q) : q[i] # x
  BY <1>1 DEF Range
<1>3. \A i, j \in 1..Len(q) : q[i] = q[j] => i = j
  BY <1>1 DEF IsInjective
<1>4. ASSUME NEW i \in DOMAIN p, NEW j \in DOMAIN p,
             p[i] = p[j]
      PROVE  i = j
  <2>1. CASE i \in 1..Len(q) /\ j \in 1..Len(q)
    BY <1>1, <1>3, <1>4, <2>1
  <2>2. CASE i = Len(q) + 1 \/ j = Len(q) + 1
    BY <1>1, <1>2, <1>4, <2>2
  <2> QED BY <1>1, <2>1, <2>2
<1>5. IsInjective(p)
  BY <1>4 DEF IsInjective
<1> QED BY <1>5 DEF p

\* The oldest element of a queue without duplicates is not in the rest of it.
LEMMA TailInjective ==
  ASSUME NEW S, NEW q \in Seq(S), q # <<>>, IsInjective(q)
  PROVE  /\ IsInjective(Tail(q))
         /\ Range(Tail(q)) = Range(q) \ {Head(q)}
<1>1. /\ Len(q) \in Nat /\ Len(q) > 0 /\ Head(q) = q[1]
      /\ DOMAIN q = 1..Len(q) /\ DOMAIN Tail(q) = 1..(Len(q) - 1)
  OBVIOUS
<1>2. \A i \in 1..(Len(q) - 1) : Tail(q)[i] = q[i + 1] /\ i + 1 \in 1..Len(q) /\ i + 1 # 1
  BY <1>1
<1>3. \A i, j \in 1..Len(q) : q[i] = q[j] => i = j
  BY <1>1 DEF IsInjective
<1>4. IsInjective(Tail(q))
  <2>1. ASSUME NEW i \in 1..(Len(q) - 1), NEW j \in 1..(Len(q) - 1),
               Tail(q)[i] = Tail(q)[j]
        PROVE  i = j
    BY <1>1, <1>2, <1>3, <2>1
  <2> QED BY <1>1, <2>1 DEF IsInjective
<1>5. Head(q) \notin Range(Tail(q))
  <2>1. \A i \in 1..(Len(q) - 1) : Tail(q)[i] # Head(q)
    BY <1>1, <1>2, <1>3
  <2> QED BY <1>1, <2>1 DEF Range
<1>6. Range(q) = {Head(q)} \cup Range(Tail(q))
  BY TailRange
<1> QED BY <1>4, <1>5, <1>6

\* Removing one position takes one element out of a queue without duplicates.
LEMMA RemoveAtInjective ==
  ASSUME NEW S, NEW q \in Seq(S), NEW k \in DOMAIN q, IsInjective(q)
  PROVE  /\ RemoveAt(q, k) \in Seq(S)
         /\ Len(RemoveAt(q, k)) = Len(q) - 1
         /\ IsInjective(RemoveAt(q, k))
         /\ Range(RemoveAt(q, k)) = Range(q) \ {q[k]}
<1> DEFINE p == RemoveAt(q, k)
           from(i) == IF i < k THEN i ELSE i + 1
<1>1. Len(q) \in Nat /\ k \in 1..Len(q) /\ DOMAIN q = 1..Len(q)
  OBVIOUS
<1>2. /\ SubSeq(q, 1, k - 1) \in Seq(S) /\ Len(SubSeq(q, 1, k - 1)) = k - 1
      /\ \A i \in 1..(k - 1) : SubSeq(q, 1, k - 1)[i] = q[i]
  BY <1>1
<1>3. /\ SubSeq(q, k + 1, Len(q)) \in Seq(S)
      /\ Len(SubSeq(q, k + 1, Len(q))) = Len(q) - k
      /\ \A i \in 1..(Len(q) - k) : SubSeq(q, k + 1, Len(q))[i] = q[i + k]
  BY <1>1
<1>4. p \in Seq(S) /\ Len(p) = Len(q) - 1 /\ DOMAIN p = 1..(Len(q) - 1)
  BY <1>1, <1>2, <1>3 DEF RemoveAt
<1>5. ASSUME NEW i \in 1..(Len(q) - 1)
      PROVE  p[i] = q[from(i)] /\ from(i) \in 1..Len(q) /\ from(i) # k
  <2>1. CASE i < k
    BY <1>1, <1>2, <1>3, <2>1 DEF RemoveAt
  <2>2. CASE ~(i < k)
    <3>1. i - (k - 1) \in 1..(Len(q) - k) /\ i - (k - 1) + k = i + 1
      BY <1>1, <2>2
    <3>2. p[i] = SubSeq(q, k + 1, Len(q))[i - (k - 1)]
      <4> DEFINE a == SubSeq(q, 1, k - 1)
                 b == SubSeq(q, k + 1, Len(q))
      <4>1. a \in Seq(S) /\ Len(a) = k - 1 /\ b \in Seq(S) /\ Len(b) = Len(q) - k
        BY <1>2, <1>3
      <4>2. i > Len(a) /\ i <= Len(a) + Len(b) /\ i - Len(a) = i - (k - 1)
        BY <1>1, <2>2, <4>1
      <4>3. p = a \o b
        BY DEF RemoveAt
      <4> HIDE DEF a, b, p
      <4>4. (a \o b)[i] = b[i - Len(a)]
        BY <4>1, <4>2
      <4>5. p[i] = b[i - (k - 1)]
        BY <4>2, <4>3, <4>4
      <4> QED BY <4>5 DEF b
    <3> QED BY <1>1, <1>3, <2>2, <3>1, <3>2
  <2> QED BY <2>1, <2>2
<1>6. \A i, j \in 1..Len(q) : q[i] = q[j] => i = j
  BY <1>1 DEF IsInjective
<1>7. \A i, j \in 1..(Len(q) - 1) : from(i) = from(j) => i = j
  BY <1>1
<1> HIDE DEF p, from
<1>8. IsInjective(p)
  <2>1. ASSUME NEW i \in 1..(Len(q) - 1), NEW j \in 1..(Len(q) - 1), p[i] = p[j]
        PROVE  i = j
    BY <1>5, <1>6, <1>7, <2>1
  <2> QED BY <1>4, <2>1 DEF IsInjective
<1>9. Range(p) \subseteq Range(q) \ {q[k]}
  <2>1. \A i \in 1..(Len(q) - 1) : p[i] \in Range(q) /\ p[i] # q[k]
    BY <1>1, <1>5, <1>6 DEF Range
  <2> QED BY <1>4, <2>1 DEF Range
<1>10. Range(q) \ {q[k]} \subseteq Range(p)
  <2>1. ASSUME NEW j \in 1..Len(q), j # k
        PROVE  \E i \in 1..(Len(q) - 1) : from(i) = j
    <3>1. CASE j < k
      <4>1. j \in 1..(Len(q) - 1) /\ from(j) = j
        BY <1>1, <3>1 DEF from
      <4> QED BY <4>1
    <3>2. CASE ~(j < k)
      <4>1. j - 1 \in 1..(Len(q) - 1) /\ from(j - 1) = j
        BY <1>1, <2>1, <3>2 DEF from
      <4> QED BY <4>1
    <3> QED BY <3>1, <3>2
  <2>2. \A j \in 1..Len(q) : j # k => q[j] \in Range(p)
    BY <1>4, <1>5, <2>1 DEF Range
  <2> QED BY <1>1, <2>2 DEF Range
<1> QED BY <1>4, <1>8, <1>9, <1>10 DEF p
\* A queue that others are put behind keeps its elements, and then has theirs.
LEMMA ConcatFacts ==
  ASSUME NEW S, NEW p \in Seq(S), NEW q \in Seq(S)
  PROVE  /\ p \o q \in Seq(S)
         /\ Len(p \o q) = Len(p) + Len(q)
         /\ \A i \in 1..Len(p) : (p \o q)[i] = p[i]
         /\ \A j \in 1..Len(q) : (p \o q)[Len(p) + j] = q[j]
<1>1. p \o q \in Seq(S) /\ Len(p \o q) = Len(p) + Len(q)
  OBVIOUS
<1>2. \A i \in 1..Len(p) : (p \o q)[i] = p[i]
  OBVIOUS
<1>3. ASSUME NEW j \in 1..Len(q) PROVE (p \o q)[Len(p) + j] = q[j]
  <2>1. Len(p) \in Nat /\ Len(q) \in Nat /\ j \in Nat /\ j >= 1 /\ j <= Len(q)
    OBVIOUS
  <2>2. Len(p) + j \in 1..(Len(p) + Len(q)) /\ Len(p) + j > Len(p)
    BY <2>1
  <2>3. (p \o q)[Len(p) + j] = q[(Len(p) + j) - Len(p)]
    BY <2>2
  <2>4. (Len(p) + j) - Len(p) = j
    BY <2>1
  <2> QED BY <2>3, <2>4
<1> QED BY <1>1, <1>2, <1>3
=============================================================================
