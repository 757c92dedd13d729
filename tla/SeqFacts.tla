------------------------------ MODULE SeqFacts ------------------------------
(***************************************************************************)
(* Lemmas about the sequence operators the models use: what Append, Tail   *)
(* and consing do to the length and to each element, and to a queue in     *)
(* which nobody waits twice.                                               *)
(***************************************************************************)
EXTENDS Integers, Sequences, SequencesExt, WellFoundedInduction, TLAPS

\* The empty sequence is a sequence over every set, and the only one of length 0.
LEMMA EmptySeqFacts ==
  ASSUME NEW S
  PROVE  /\ <<>> \in Seq(S)
         /\ Len(<<>>) = 0
         /\ \A s \in Seq(S) : (s = <<>>) <=> (Len(s) = 0)
  OBVIOUS

\* Append adds its argument at the end and moves nothing.
LEMMA AppendFacts ==
  ASSUME NEW S, NEW s \in Seq(S), NEW e \in S
  PROVE  /\ Append(s, e) \in Seq(S)
         /\ Append(s, e) # <<>>
         /\ Len(Append(s, e)) = Len(s) + 1
         /\ \A i \in 1..Len(s) : Append(s, e)[i] = s[i]
         /\ Append(s, e)[Len(s) + 1] = e
  OBVIOUS

\* Tail shifts every element one place down.
LEMMA TailFacts ==
  ASSUME NEW S, NEW s \in Seq(S), s # <<>>
  PROVE  /\ Tail(s) \in Seq(S)
         /\ Len(s) \in Nat \ {0}
         /\ Len(Tail(s)) = Len(s) - 1
         /\ \A i \in 1..(Len(s) - 1) : Tail(s)[i] = s[i + 1]
         /\ Head(s) = s[1] /\ Head(s) \in S
  OBVIOUS

\* Putting one element in front shifts every element one place up.
LEMMA ConsFacts ==
  ASSUME NEW S, NEW s \in Seq(S), NEW e \in S
  PROVE  /\ <<e>> \o s \in Seq(S)
         /\ Len(<<e>> \o s) = Len(s) + 1
         /\ (<<e>> \o s)[1] = e
         /\ \A i \in 1..Len(s) : (<<e>> \o s)[i + 1] = s[i]
  OBVIOUS

\* Tail and Append work on opposite ends.
LEMMA TailAppendFacts ==
  ASSUME NEW S, NEW s \in Seq(S), s # <<>>, NEW e \in S
  PROVE  Tail(Append(s, e)) = Append(Tail(s), e)
  OBVIOUS

\* A concatenation is the one sequence, then the other.
LEMMA ConcatFacts ==
  ASSUME NEW S, NEW s \in Seq(S), NEW t \in Seq(S)
  PROVE  /\ s \o t \in Seq(S) /\ Len(s \o t) = Len(s) + Len(t)
         /\ \A i \in 1..Len(s) : (s \o t)[i] = s[i]
         /\ \A i \in 1..Len(t) : (s \o t)[Len(s) + i] = t[i]
  OBVIOUS

\* One element less: those behind it move up.
LEMMA RemoveFacts ==
  ASSUME NEW S, NEW s \in Seq(S), NEW k \in 1..Len(s)
  PROVE  /\ RemoveAt(s, k) \in Seq(S)
         /\ Len(RemoveAt(s, k)) = Len(s) - 1
         /\ \A i \in 1..(Len(s) - 1) : RemoveAt(s, k)[i] = s[IF i < k THEN i ELSE i + 1]
<1> DEFINE before == SubSeq(s, 1, k - 1)
           after == SubSeq(s, k + 1, Len(s))
<1>1. /\ before \in Seq(S) /\ Len(before) = k - 1
      /\ \A i \in 1..(k - 1) : before[i] = s[i]
  OBVIOUS
<1>2. /\ after \in Seq(S) /\ Len(after) = Len(s) - k
      /\ \A i \in 1..(Len(s) - k) : after[i] = s[i + k]
  OBVIOUS
<1>3. RemoveAt(s, k) = before \o after
  BY DEF RemoveAt
<1> HIDE DEF before, after
<1>4. /\ RemoveAt(s, k) \in Seq(S) /\ Len(RemoveAt(s, k)) = k - 1 + (Len(s) - k)
      /\ \A i \in 1..(k - 1) : RemoveAt(s, k)[i] = before[i]
      /\ \A i \in 1..(Len(s) - k) : RemoveAt(s, k)[k - 1 + i] = after[i]
  <2>0. before \in Seq(S) /\ after \in Seq(S)
    BY <1>1, <1>2
  <2>1. /\ before \o after \in Seq(S) /\ Len(before \o after) = Len(before) + Len(after)
        /\ \A i \in 1..Len(before) : (before \o after)[i] = before[i]
        /\ \A i \in 1..Len(after) : (before \o after)[Len(before) + i] = after[i]
    BY <2>0, ConcatFacts
  <2>2. QED
    BY <1>1, <1>2, <1>3, <2>1
<1>5. ASSUME NEW i \in 1..(Len(s) - 1)
      PROVE  RemoveAt(s, k)[i] = s[IF i < k THEN i ELSE i + 1]
  <2>1. CASE i < k
    BY <1>1, <1>4, <2>1
  <2>2. CASE i >= k
    <3>1. PICK j \in 1..(Len(s) - k) : k - 1 + j = i /\ j + k = i + 1
      <4>1. i - k + 1 \in 1..(Len(s) - k) /\ k - 1 + (i - k + 1) = i /\ (i - k + 1) + k = i + 1
        BY <2>2
      <4>2. QED
        BY <4>1
    <3>2. RemoveAt(s, k)[i] = after[j] /\ after[j] = s[i + 1]
      BY <1>2, <1>4, <3>1
    <3>3. QED
      BY <2>2, <3>2
  <2>3. QED
    BY <2>1, <2>2
<1>6. QED
  BY <1>4, <1>5

\* Nobody waits in the empty queue.
LEMMA EmptyQueueFacts == IsInjective(<<>>) /\ ToSet(<<>>) = {}
  BY DEF IsInjective, ToSet

\* The head of any other queue waits in it.
LEMMA QueueFacts ==
  ASSUME NEW S, NEW s \in Seq(S)
  PROVE  /\ ToSet(s) \subseteq S /\ (ToSet(s) = {} <=> s = <<>>)
         /\ s # <<>> => Head(s) \in ToSet(s)
  BY DEF ToSet

\* Who joins a queue waits in it too, behind its head.
LEMMA JoinFacts ==
  ASSUME NEW S, NEW s \in Seq(S), NEW e \in S, IsInjective(s), e \notin ToSet(s)
  PROVE  /\ Append(s, e) \in Seq(S) /\ IsInjective(Append(s, e))
         /\ ToSet(Append(s, e)) = ToSet(s) \cup {e}
         /\ Head(Append(s, e)) = IF s = <<>> THEN e ELSE Head(s)
<1>1. Append(s, e) \in Seq(S) /\ Len(Append(s, e)) = Len(s) + 1
  BY AppendFacts
<1>2. \A i \in DOMAIN s : s[i] # e
  BY DEF ToSet
<1>3. IsInjective(Append(s, e))
  BY <1>1, <1>2 DEF IsInjective
<1>4. ToSet(Append(s, e)) = ToSet(s) \cup {e}
  BY <1>1, AppendFacts DEF ToSet
<1>5. Head(Append(s, e)) = IF s = <<>> THEN e ELSE Head(s)
  OBVIOUS
<1>6. QED
  BY <1>1, <1>3, <1>4, <1>5

\* When the head leaves, exactly the others still wait.
LEMMA LeaveFacts ==
  ASSUME NEW S, NEW s \in Seq(S), s # <<>>, IsInjective(s)
  PROVE  /\ Tail(s) \in Seq(S) /\ IsInjective(Tail(s))
         /\ ToSet(Tail(s)) = ToSet(s) \ {Head(s)}
<1>1. /\ Tail(s) \in Seq(S) /\ Len(s) \in Nat \ {0} /\ Len(Tail(s)) = Len(s) - 1
      /\ \A i \in 1..(Len(s) - 1) : Tail(s)[i] = s[i + 1]
      /\ Head(s) = s[1]
  BY TailFacts
<1>2. DOMAIN s = 1..Len(s) /\ DOMAIN Tail(s) = 1..(Len(s) - 1)
  BY <1>1
<1>3. IsInjective(Tail(s))
  BY <1>1, <1>2 DEF IsInjective
<1>4. ASSUME NEW x \in ToSet(Tail(s)) PROVE x \in ToSet(s) \ {Head(s)}
  <2>1. PICK i \in 1..(Len(s) - 1) : x = s[i + 1]
    BY <1>1, <1>2 DEF ToSet
  <2>2. i + 1 \in DOMAIN s /\ 1 \in DOMAIN s /\ i + 1 # 1
    BY <1>1, <1>2
  <2>3. QED
    BY <1>1, <2>1, <2>2 DEF ToSet, IsInjective
<1>5. ASSUME NEW x \in ToSet(s) \ {Head(s)} PROVE x \in ToSet(Tail(s))
  <2>1. PICK i \in 1..Len(s) : x = s[i]
    BY <1>2 DEF ToSet
  <2>2. i - 1 \in 1..(Len(s) - 1) /\ Tail(s)[i - 1] = s[i]
    BY <1>1, <2>1
  <2>3. QED
    BY <1>2, <2>1, <2>2 DEF ToSet
<1>6. QED
  BY <1>1, <1>3, <1>4, <1>5

----------------------------------------------------------------------------
\* Induction, as a fact about sets of numbers.

\* Any of some numbers is as small as the smallest.
LEMMA LeastFacts ==
  ASSUME NEW T, T \subseteq Nat, T # {}
  PROVE  \E x \in T : \A y \in T : x <= y
<1> DEFINE Before == {p \in Nat \X Nat : p[1] < p[2]}
<1>1. IsWellFoundedOn(Before, Nat)
  BY NatLessThanWellFounded DEF OpToRel
<1>2. PICK x \in T : \A y \in T : ~(<<y, x>> \in Before)
  BY <1>1, WFMin
<1>3. ASSUME NEW y \in T PROVE x <= y
  <2>1. y \in Nat /\ x \in Nat
    OBVIOUS
  <2>2. <<y, x>> \in Nat \X Nat /\ <<y, x>>[1] = y /\ <<y, x>>[2] = x
    BY <2>1
  <2>3. ~(y < x)
    BY <1>2, <2>1, <2>2
  <2>4. QED
    BY <2>1, <2>3
<1>4. QED
  BY <1>3

\* A set with 0, and with n + 1 when n is in it, has every number.
LEMMA InductionFacts ==
  ASSUME NEW T, 0 \in T, \A n \in Nat : n \in T => n + 1 \in T
  PROVE  Nat \subseteq T
<1> SUFFICES ASSUME Nat \ T # {} PROVE FALSE
  OBVIOUS
<1>1. PICK x \in Nat \ T : \A y \in Nat \ T : x <= y
  BY LeastFacts
<1>2. x # 0 /\ x - 1 \in Nat /\ (x - 1) + 1 = x
  BY <1>1
<1>3. x - 1 \in T
  BY <1>1, <1>2
<1>4. QED
  BY <1>1, <1>2, <1>3

\* The numbers in a sequence have a largest one, 0 if there are none.
LEMMA MaxFacts ==
  ASSUME NEW s \in Seq(Nat), NEW S, S = {0} \cup {s[i] : i \in DOMAIN s}
  PROVE  /\ Max(S) \in S /\ Max(S) \in Nat
         /\ \A x \in S : x <= Max(S)
<1> DEFINE Bounded == {n \in Nat : \E b \in Nat : \A i \in DOMAIN s : i <= n => s[i] <= b}
           Bounds == {b \in Nat : \A x \in S : x <= b}
<1>1. S \subseteq Nat
  OBVIOUS
<1>2. 0 \in Bounded
  <2>1. \A i \in DOMAIN s : i <= 0 => s[i] <= 0
    OBVIOUS
  <2>2. QED
    BY <2>1
<1>3. ASSUME NEW n \in Nat, n \in Bounded PROVE n + 1 \in Bounded
  <2>1. PICK b \in Nat : \A i \in DOMAIN s : i <= n => s[i] <= b
    BY <1>3
  <2>2. CASE n + 1 \in DOMAIN s
    <3>1. PICK c \in Nat : b <= c /\ s[n + 1] <= c
      <4>1. s[n + 1] \in Nat
        BY <2>2
      <4>2. b <= b + s[n + 1] /\ s[n + 1] <= b + s[n + 1] /\ b + s[n + 1] \in Nat
        BY <4>1
      <4>3. QED
        BY <4>2
    <3>2. ASSUME NEW i \in DOMAIN s, i <= n + 1 PROVE s[i] <= c
      <4>1. i \in Nat /\ s[i] \in Nat /\ (i <= n \/ i = n + 1)
        BY <3>2
      <4>2. QED
        BY <2>1, <3>1, <4>1
    <3>3. QED
      BY <3>2
  <2>3. CASE n + 1 \notin DOMAIN s
    <3>1. \A i \in DOMAIN s : i <= n + 1 => i <= n
      BY <2>3
    <3>2. QED
      BY <2>1, <3>1
  <2>4. QED
    BY <2>2, <2>3
<1>4. Len(s) \in Bounded
  <2> HIDE DEF Bounded
  <2>1. Nat \subseteq Bounded
    BY <1>2, <1>3, InductionFacts
  <2>2. QED
    BY <2>1
<1>5. PICK b \in Nat : \A i \in DOMAIN s : i <= Len(s) => s[i] <= b
  BY <1>4
<1>6. b \in Bounds
  <2>1. \A i \in DOMAIN s : s[i] <= b
    BY <1>5
  <2>2. QED
    BY <2>1
<1>7. PICK m \in Bounds : \A c \in Bounds : m <= c
  <2> HIDE DEF Bounds
  <2>1. Bounds \subseteq Nat
    BY DEF Bounds
  <2>2. QED
    BY <1>6, <2>1, LeastFacts
<1>8. m \in S
  <2> SUFFICES ASSUME m \notin S PROVE FALSE
    OBVIOUS
  <2>1. m # 0 /\ m - 1 \in Nat
    OBVIOUS
  <2>2. ASSUME NEW x \in S PROVE x <= m - 1
    <3>1. x \in Nat /\ x <= m /\ x # m
      BY <1>1
    <3>2. QED
      BY <3>1
  <2>3. m - 1 \in Bounds
    BY <2>1, <2>2
  <2>4. QED
    BY <1>7, <2>1, <2>3
<1>9. m \in S /\ \A y \in S : m >= y
  BY <1>1, <1>8
<1>10. Max(S) \in S /\ \A y \in S : Max(S) >= y
  BY <1>9 DEF Max
<1>11. QED
  BY <1>1, <1>10
=============================================================================
