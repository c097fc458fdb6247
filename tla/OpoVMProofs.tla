----------------------------- MODULE OpoVMProofs -----------------------------
(***************************************************************************)
(* Theorems on OpoVM, for any programs and any limits of the machine: the  *)
(* frames and try frames are those of the calls and try blocks under way,  *)
(* the operand stack holds what the compiler's type stack says, and an     *)
(* error is handled by the innermost try block.                            *)
(***************************************************************************)
EXTENDS OpoVM, FiniteSetTheorems, SequenceTheorems, WellFoundedInduction, TLAPS

(* Numbers *)

\* A set of natural numbers that has an element has a least one.
LEMMA LeastOf ==
    ASSUME NEW D \in SUBSET Nat, D # {}
    PROVE  \E d \in D : \A e \in D : d <= e
<1> DEFINE R == OpToRel(<, Nat)
<1>1. IsWellFoundedOn(R, Nat)
  BY NatLessThanWellFounded
<1>2. PICK d \in D : \A e \in D : ~ (<<e, d>> \in R)
  <2> HIDE DEF R
  <2> QED
    BY <1>1, WFMin
<1>3. ASSUME NEW e \in D
      PROVE  d <= e
  <2>1. d \in Nat /\ e \in Nat /\ <<e, d>> \in Nat \X Nat
    OBVIOUS
  <2>2. ~ (e < d)
    BY <1>2, <2>1 DEF OpToRel
  <2> QED
    BY <2>1, <2>2
<1> QED
  BY <1>3

\* ... and one that is bounded has a greatest one.
LEMMA GreatestOf ==
    ASSUME NEW n \in Nat, NEW D \in SUBSET (1 .. n), D # {}
    PROVE  /\ Max(D) \in D
           /\ \A e \in D : Max(D) >= e
<1> DEFINE E == {x \in Nat : x <= n /\ n - x \in D}
<1>1. E \in SUBSET Nat
  OBVIOUS
<1>2. E # {}
  <2>1. PICK y \in D : TRUE
    OBVIOUS
  <2>2. n - y \in Nat /\ n - y <= n /\ n - (n - y) \in D
    OBVIOUS
  <2> QED
    BY <2>2
<1>3. PICK d \in E : \A e \in E : d <= e
  <2> HIDE DEF E
  <2> QED
    BY <1>1, <1>2, LeastOf
<1>4. n - d \in D
  OBVIOUS
<1>5. ASSUME NEW y \in D
      PROVE  n - d >= y
  <2>1. n - y \in Nat /\ n - y <= n /\ n - (n - y) \in D
    OBVIOUS
  <2>2. d <= n - y
    BY <1>3, <2>1
  <2> QED
    BY <2>2
<1> HIDE DEF E
<1>6. \E x \in D : \A y \in D : x >= y
  BY <1>4, <1>5
<1> QED
  BY <1>6 DEF Max

-----------------------------------------------------------------------------
(* Counting in sequences *)

\* how many of the first m elements of s are in K
CountTo(s, m, K) == Cardinality({i \in 1 .. m : s[i] \in K})

LEMMA CountToFinite ==
    ASSUME NEW s, NEW m \in Nat, NEW K
    PROVE  LET D == {i \in 1 .. m : s[i] \in K}
           IN IsFiniteSet(D) /\ Cardinality(D) \in Nat /\ Cardinality(D) <= m
<1> DEFINE D == {i \in 1 .. m : s[i] \in K}
<1>1. IsFiniteSet(1 .. m) /\ Cardinality(1 .. m) = m
  <2>1. 1 \in Int /\ m \in Int
    OBVIOUS
  <2> QED
    BY <2>1, FS_Interval
<1>2. D \in SUBSET (1 .. m)
  OBVIOUS
<1>3. IsFiniteSet(D) /\ Cardinality(D) <= Cardinality(1 .. m) /\ Cardinality(D) \in Nat
  <2> HIDE DEF D
  <2> QED
    BY <1>1, <1>2, FS_Subset, FS_CardinalityType
<1> QED
  BY <1>1, <1>3

LEMMA CountToNat ==
    ASSUME NEW s, NEW m \in Nat, NEW K
    PROVE  CountTo(s, m, K) \in Nat /\ CountTo(s, m, K) <= m
<1> DEFINE D == {i \in 1 .. m : s[i] \in K}
<1>1. IsFiniteSet(D) /\ Cardinality(D) \in Nat /\ Cardinality(D) <= m
  BY CountToFinite
<1> QED
  BY <1>1 DEF CountTo

LEMMA CountToZero ==
    ASSUME NEW s, NEW K
    PROVE  CountTo(s, 0, K) = 0
<1>1. {i \in 1 .. 0 : s[i] \in K} = {}
  OBVIOUS
<1>2. Cardinality({}) = 0
  BY FS_EmptySet
<1> QED
  BY <1>1, <1>2 DEF CountTo

\* It grows by one at each element of K.
LEMMA CountToNext ==
    ASSUME NEW s, NEW m \in Nat, NEW K
    PROVE  CountTo(s, m + 1, K) = CountTo(s, m, K) + IF s[m + 1] \in K THEN 1 ELSE 0
<1> DEFINE D == {i \in 1 .. m : s[i] \in K}
           E == {i \in 1 .. m + 1 : s[i] \in K}
<1>1. IsFiniteSet(D) /\ Cardinality(D) \in Nat
  BY CountToFinite
<1>2. m + 1 \notin D
  OBVIOUS
<1>3. CASE s[m + 1] \in K
  <2>1. E = D \cup {m + 1}
    BY <1>3
  <2>2. Cardinality(D \cup {m + 1}) = Cardinality(D) + 1
    <3> HIDE DEF D
    <3> QED
      BY <1>1, <1>2, FS_AddElement
  <2>3. CountTo(s, m, K) = Cardinality(D) /\ CountTo(s, m + 1, K) = Cardinality(E)
    BY DEF CountTo
  <2> HIDE DEF D, E
  <2> QED
    BY <1>3, <2>1, <2>2, <2>3
<1>4. CASE s[m + 1] \notin K
  <2>1. E = D
    BY <1>4
  <2>2. CountTo(s, m, K) = Cardinality(D) /\ CountTo(s, m + 1, K) = Cardinality(E)
    BY DEF CountTo
  <2> HIDE DEF D, E
  <2> QED
    BY <1>1, <1>4, <2>1, <2>2
<1> QED
  BY <1>3, <1>4

\* Sequences that agree up to m count the same up to m.
LEMMA CountToSame ==
    ASSUME NEW s, NEW t, NEW m \in Nat, NEW K, \A i \in 1 .. m : s[i] = t[i]
    PROVE  CountTo(s, m, K) = CountTo(t, m, K)
<1>1. {i \in 1 .. m : s[i] \in K} = {i \in 1 .. m : t[i] \in K}
  OBVIOUS
<1> QED
  BY <1>1 DEF CountTo

LEMMA CountToMore ==
    ASSUME NEW s, NEW m \in Nat, NEW n \in Nat, m <= n, NEW K
    PROVE  /\ CountTo(s, m, K) <= CountTo(s, n, K)
           /\ (\A i \in m + 1 .. n : s[i] \notin K) => CountTo(s, m, K) = CountTo(s, n, K)
           /\ (\A i \in m + 1 .. n : s[i] \in K)
                    => CountTo(s, n, K) = CountTo(s, m, K) + (n - m)
           /\ (\E i \in m + 1 .. n : s[i] \in K) => CountTo(s, m, K) < CountTo(s, n, K)
<1> DEFINE D == {i \in 1 .. m : s[i] \in K}
           E == {i \in 1 .. n : s[i] \in K}
           B == {i \in m + 1 .. n : s[i] \in K}
<1>1. /\ IsFiniteSet(D) /\ Cardinality(D) \in Nat
      /\ IsFiniteSet(E) /\ Cardinality(E) \in Nat
  BY CountToFinite
<1>2. D \subseteq E /\ B \subseteq E /\ B \cap D = {} /\ E = D \cup B
  OBVIOUS
<1> HIDE DEF D, E
<1>3. IsFiniteSet(B) /\ Cardinality(B) \in Nat
  BY <1>1, <1>2, FS_Subset, FS_CardinalityType
<1>4. Cardinality(E) = Cardinality(D) + Cardinality(B)
  <2>1. D \cap B = {} /\ Cardinality(D \cap B) = 0
    BY <1>2, FS_EmptySet
  <2>2. Cardinality(D \cup B) = Cardinality(D) + Cardinality(B) - Cardinality(D \cap B)
    BY <1>1, <1>3, FS_Union
  <2> QED
    BY <1>1, <1>2, <1>3, <2>1, <2>2
<1>5. Cardinality(B) = 0 <=> B = {}
  BY <1>3, FS_EmptySet
<1>6. (\A i \in m + 1 .. n : s[i] \in K) => Cardinality(B) = n - m
  <2> SUFFICES ASSUME \A i \in m + 1 .. n : s[i] \in K
               PROVE  Cardinality(B) = n - m
    OBVIOUS
  <2>1. B = m + 1 .. n
    OBVIOUS
  <2> HIDE DEF B
  <2>2. Cardinality(m + 1 .. n) = IF m + 1 > n THEN 0 ELSE n - (m + 1) + 1
    BY FS_Interval
  <2> QED
    BY <2>1, <2>2
<1>7. (\A i \in m + 1 .. n : s[i] \notin K) <=> B = {}
  OBVIOUS
<1> HIDE DEF B
<1>8. CountTo(s, m, K) = Cardinality(D) /\ CountTo(s, n, K) = Cardinality(E)
  BY DEF CountTo, D, E
<1> QED
  BY <1>1, <1>3, <1>4, <1>5, <1>6, <1>7, <1>8

\* Somewhere the count is reached.
LEMMA CountToReaches ==
    ASSUME NEW s, NEW m \in Nat, NEW K, NEW c \in Nat \ {0}, c <= CountTo(s, m, K)
    PROVE  \E i \in 1 .. m : s[i] \in K /\ CountTo(s, i, K) = c
<1> DEFINE D == {i \in 0 .. m : c <= CountTo(s, i, K)}
<1>1. D \in SUBSET Nat /\ m \in D
  OBVIOUS
<1>2. PICK d \in D : \A e \in D : d <= e
  <2> HIDE DEF D
  <2> QED
    BY <1>1, LeastOf
<1>3. d \in 0 .. m /\ c <= CountTo(s, d, K)
  BY <1>2
<1>4. d # 0
  BY <1>3, CountToZero
<1>5. d - 1 \notin D
  <2> HIDE DEF D
  <2> QED
    BY <1>2, <1>3
<1>6. CountTo(s, d - 1, K) < c /\ CountTo(s, d - 1, K) \in Nat /\ CountTo(s, d, K) \in Nat
  <2>1. d - 1 \in Nat /\ d \in Nat /\ d - 1 \in 0 .. m
    BY <1>3, <1>4
  <2>2. CountTo(s, d - 1, K) \in Nat /\ CountTo(s, d, K) \in Nat
    BY <2>1, CountToNat
  <2>3. ~ (c <= CountTo(s, d - 1, K))
    BY <1>5, <2>1
  <2> HIDE DEF D
  <2> QED
    BY <2>2, <2>3
<1>7. CountTo(s, d, K) = CountTo(s, d - 1, K) + IF s[d] \in K THEN 1 ELSE 0
  <2>1. d - 1 \in Nat /\ (d - 1) + 1 = d
    BY <1>3, <1>4
  <2>2. CountTo(s, (d - 1) + 1, K) = CountTo(s, d - 1, K) + IF s[(d - 1) + 1] \in K THEN 1 ELSE 0
    BY <2>1, CountToNext
  <2> QED
    BY <2>1, <2>2
<1>8. s[d] \in K /\ CountTo(s, d, K) = c
  <2> HIDE DEF D
  <2> QED
    BY <1>3, <1>6, <1>7
<1> QED
  BY <1>3, <1>4, <1>8

-----------------------------------------------------------------------------
(* Sequences that keep a prefix of another *)

Kinds == Operands \cup Blocks \cup {"call"}
Values == {"temp", "result"}

\* s up to m, and then t
LEMMA EditIs ==
    ASSUME NEW T, NEW s \in Seq(T), NEW m \in 0 .. Len(s), NEW t \in Seq(T)
    PROVE  LET c == SubSeq(s, 1, m) \o t
           IN /\ c \in Seq(T)
              /\ Len(c) = m + Len(t)
              /\ \A i \in 1 .. m : c[i] = s[i]
              /\ \A i \in 1 .. Len(t) : c[m + i] = t[i]
<1> DEFINE p == SubSeq(s, 1, m)
<1>1. p \in Seq(T) /\ Len(p) = m /\ \A i \in 1 .. m : p[i] = s[i]
  OBVIOUS
<1> HIDE DEF p
<1>2. /\ p \o t \in Seq(T)
      /\ Len(p \o t) = m + Len(t)
      /\ \A i \in 1 .. m : (p \o t)[i] = p[i]
      /\ \A i \in 1 .. Len(t) : (p \o t)[m + i] = t[i]
  BY <1>1
<1> QED
  BY <1>1, <1>2 DEF p

LEMMA EditCount ==
    ASSUME NEW T, NEW s \in Seq(T), NEW m \in 0 .. Len(s), NEW t \in Seq(T), NEW K
    PROVE  LET c == SubSeq(s, 1, m) \o t
           IN /\ \A i \in 0 .. m : CountTo(c, i, K) = CountTo(s, i, K)
              /\ (\A i \in 1 .. Len(t) : t[i] \notin K) => Count(c, K) = CountTo(s, m, K)
              /\ Len(t) = 1 /\ t[1] \in K => Count(c, K) = CountTo(s, m, K) + 1
<1> DEFINE c == SubSeq(s, 1, m) \o t
<1>1. /\ c \in Seq(T)
      /\ Len(c) = m + Len(t)
      /\ \A i \in 1 .. m : c[i] = s[i]
      /\ \A i \in 1 .. Len(t) : c[m + i] = t[i]
  BY EditIs
<1>2. Len(t) \in Nat /\ Len(s) \in Nat /\ m \in Nat
  OBVIOUS
<1> HIDE DEF c
<1>3. \A i \in 0 .. m : CountTo(c, i, K) = CountTo(s, i, K)
  <2> TAKE i \in 0 .. m
  <2>1. i \in Nat /\ \A j \in 1 .. i : c[j] = s[j]
    BY <1>1, <1>2
  <2> QED
    BY <2>1, CountToSame
<1>4. Count(c, K) = CountTo(c, m + Len(t), K)
  BY <1>1 DEF Count, CountTo
<1>5. ASSUME \A i \in 1 .. Len(t) : t[i] \notin K
      PROVE  Count(c, K) = CountTo(s, m, K)
  <2>1. \A i \in m + 1 .. m + Len(t) : c[i] \notin K
    <3> TAKE i \in m + 1 .. m + Len(t)
    <3>1. i - m \in 1 .. Len(t) /\ m + (i - m) = i
      BY <1>2
    <3> QED
      BY <3>1, <1>1, <1>5
  <2>2. m <= m + Len(t) /\ m + Len(t) \in Nat
    BY <1>2
  <2>3. CountTo(c, m, K) = CountTo(c, m + Len(t), K)
    BY <1>2, <2>1, <2>2, CountToMore
  <2> QED
    BY <1>2, <1>3, <1>4, <2>3
<1>6. ASSUME Len(t) = 1, t[1] \in K
      PROVE  Count(c, K) = CountTo(s, m, K) + 1
  <2>1. c[m + 1] \in K
    BY <1>1, <1>6
  <2>2. CountTo(c, m + 1, K) = CountTo(c, m, K) + 1
    BY <1>2, <2>1, CountToNext
  <2> QED
    BY <1>2, <1>3, <1>4, <1>6, <2>2
<1> QED
  BY <1>3, <1>5, <1>6 DEF c

LEMMA CountOfPrefix ==
    ASSUME NEW T, NEW s \in Seq(T), NEW m \in 0 .. Len(s), NEW K
    PROVE  Count(SubSeq(s, 1, m), K) = CountTo(s, m, K)
<1>1. Len(SubSeq(s, 1, m)) = m /\ m \in Nat /\ \A i \in 1 .. m : SubSeq(s, 1, m)[i] = s[i]
  OBVIOUS
<1>2. CountTo(SubSeq(s, 1, m), m, K) = CountTo(s, m, K)
  BY <1>1, CountToSame, ZenonT(30)
<1> QED
  BY <1>1, <1>2 DEF Count, CountTo

LEMMA PrefixIs ==
    ASSUME NEW T, NEW s \in Seq(T), NEW m \in 0 .. Len(s)
    PROVE  /\ SubSeq(s, 1, m) \in Seq(T)
           /\ Len(SubSeq(s, 1, m)) = m
           /\ \A i \in 1 .. m : SubSeq(s, 1, m)[i] = s[i]
OBVIOUS

LEMMA PrefixAsEdit ==
    ASSUME NEW T, NEW s \in Seq(T), NEW n \in 0 .. Len(s)
    PROVE  Pop(s, n) = SubSeq(s, 1, Len(s) - n) \o <<>> /\ Len(s) - n \in 0 .. Len(s)
<1> DEFINE p == SubSeq(s, 1, Len(s) - n)
<1>1. p \in Seq(T)
  OBVIOUS
<1>2. p \o <<>> = p
  <2> HIDE DEF p
  <2> QED
    BY <1>1
<1> QED
  BY <1>2 DEF Pop

LEMMA AppendAsEdit ==
    ASSUME NEW T, NEW s \in Seq(T), NEW m \in 0 .. Len(s), NEW k \in T
    PROVE  Append(SubSeq(s, 1, m), k) = SubSeq(s, 1, m) \o <<k>>
<1> DEFINE p == SubSeq(s, 1, m)
<1>1. p \in Seq(T)
  OBVIOUS
<1>2. Append(p, k) = p \o <<k>>
  <2> HIDE DEF p
  <2> QED
    BY <1>1
<1> QED
  BY <1>2

LEMMA WholeAsPrefix ==
    ASSUME NEW T, NEW s \in Seq(T)
    PROVE  SubSeq(s, 1, Len(s)) = s
OBVIOUS

LEMMA LastIndexIs ==
    ASSUME NEW T, NEW s \in Seq(T), NEW K
    PROVE  LET l == LastIndex(s, K)
           IN /\ l \in 0 .. Len(s)
              /\ l # 0 => s[l] \in K
              /\ \A i \in l + 1 .. Len(s) : s[i] \notin K
<1> DEFINE D == {i \in 1 .. Len(s) : s[i] \in K}
<1>1. LastIndex(s, K) = IF D # {} THEN Max(D) ELSE 0
  BY DEF LastIndex, SelectLastInSeq
<1>2. Len(s) \in Nat /\ D \in SUBSET (1 .. Len(s))
  OBVIOUS
<1>3. CASE D = {}
  BY <1>1, <1>2, <1>3
<1>4. CASE D # {}
  <2>1. Max(D) \in D /\ \A e \in D : Max(D) >= e
    <3> HIDE DEF D
    <3> QED
      BY <1>2, <1>4, GreatestOf
  <2>2. LastIndex(s, K) = Max(D)
    BY <1>1, <1>4
  <2>3. \A i \in Max(D) + 1 .. Len(s) : s[i] \notin K
    <3> SUFFICES ASSUME NEW i \in Max(D) + 1 .. Len(s), s[i] \in K
                 PROVE  FALSE
      OBVIOUS
    <3>1. Max(D) \in 1 .. Len(s)
      BY <2>1
    <3>2. i \in 1 .. Len(s)
      <4> HIDE DEF D
      <4> QED
        BY <1>2, <3>1
    <3>3. i \in D
      BY <3>2
    <3>4. Max(D) >= i
      BY <2>1, <3>3
    <3> HIDE DEF D
    <3> QED
      BY <1>2, <3>1, <3>4
  <2>4. Max(D) \in 0 .. Len(s) /\ s[Max(D)] \in K
    <3>1. Max(D) \in 1 .. Len(s) /\ s[Max(D)] \in K
      BY <2>1
    <3> HIDE DEF D
    <3> QED
      BY <1>2, <3>1
  <2> HIDE DEF D
  <2> QED
    BY <2>2, <2>3, <2>4
<1> QED
  BY <1>3, <1>4

-----------------------------------------------------------------------------
(* The invariant *)

\* A running machine is in main, or in a function called from it, and has one
\* frame for each call and one for vm_init.
Framed ==
    /\ Len(ctl) >= 1
    /\ ctl[1] = "call"
    /\ frame_ptr = 1 + Count(ctl, {"call"})

\* Programs that leave no try block by a jump or a return and open no more than
\* the machine can hold.
Tame == "leave_try" \notin features /\ "deep_try" \notin features

\* ctl[h] is the innermost call that ctl[i] is in
CallOf(h, i) == ctl[h] = "call" /\ \A j \in h + 1 .. i - 1 : ctl[j] # "call"

\* The k-th try frame belongs to the k-th try block, in its function and place.
Handled ==
    /\ Len(try_stack) = Count(ctl, {"try"})
    /\ \A i \in 1 .. Len(ctl) : ctl[i] = "try" =>
          LET F == try_stack[CountTo(ctl, i, {"try"})]
          IN /\ F.frame_ptr = 1 + CountTo(ctl, i - 1, {"call"})
             /\ \A h \in 1 .. i - 1 : CallOf(h, i) => F.path = SubSeq(ctl, h + 1, i - 1)

\* No panic is pending, the k-th operand is that of the k-th place of ctl that
\* holds one, the try frames remember how many there were, and a value is
\* followed by nothing but values and a call.
Stacked ==
    /\ panic = FALSE
    /\ Len(stack) = Count(ctl, Operands)
    /\ \A i \in 1 .. Len(ctl) :
          ctl[i] \in Operands => stack[CountTo(ctl, i, Operands)] = ctl[i]
    /\ \A i \in 1 .. Len(ctl) :
          ctl[i] = "try" =>
            try_stack[CountTo(ctl, i, {"try"})].stack_ptr = CountTo(ctl, i, Operands)
    /\ \A i \in 1 .. Len(ctl) - 1 :
          ctl[i] \in Values => ctl[i + 1] \in Values \cup {"call"}

VInv ==
    /\ TypeOK
    /\ features \in Programs
    /\ Running => /\ Framed
                  /\ Tame => Handled
                  /\ Balanced => Stacked

-----------------------------------------------------------------------------
(* What a step does *)

\* Of what is open the step keeps the first m places and opens t behind them;
\* frames, try frames and operands go with what they belong to.
Edits(m, t) ==
    /\ m \in 0 .. Len(ctl)
    /\ t = <<>> \/ \E k \in Kinds : t = <<k>>
    /\ ctl' = SubSeq(ctl, 1, m) \o t
    /\ Running' => m >= 1

FramesFollow(m, t) ==
    frame_ptr' = CountTo(ctl, m, {"call"}) + IF t = <<"call">> THEN 2 ELSE 1

NewTryFrame(m, F) ==
    /\ F.frame_ptr = 1 + CountTo(ctl, m, {"call"})
    /\ F.stack_ptr = Len(stack)
    /\ \A h \in 1 .. m : CallOf(h, m + 1) => F.path = SubSeq(ctl, h + 1, m)

TriesFollow(m, t) ==
    LET kept == SubSeq(try_stack, 1, CountTo(ctl, m, {"try"}))
    IN \/ t # <<"try">> /\ try_stack' = kept
       \/ t = <<"try">> /\ \E F : NewTryFrame(m, F) /\ try_stack' = Append(kept, F)

OperandsFollow(m, t) ==
    LET kept == SubSeq(stack, 1, CountTo(ctl, m, Operands))
    IN /\ panic' = FALSE
       /\ \/ t # <<>> /\ t[1] \in Operands /\ stack' = Append(kept, t[1])
          \/ (t = <<>> \/ t[1] \notin Operands) /\ stack' = kept
       /\ t # <<>> /\ t[1] \notin Values \cup {"call"} /\ m >= 1 => ctl[m] \notin Values
       /\ t = <<"try">> => m = Len(ctl)

Follows(m, t) ==
    /\ Edits(m, t)
    /\ FramesFollow(m, t)
    /\ Tame => TriesFollow(m, t)
    /\ Balanced => OperandsFollow(m, t)
    /\ UNCHANGED features

LEMMA KindsAre ==
    /\ "call" \in Kinds /\ "try" \in Kinds /\ "catch" \in Kinds
    /\ "call" \notin Operands /\ "try" \notin Operands /\ "catch" \notin Operands
    /\ "call" \notin Operands \cup Blocks
    /\ Operands \subseteq Kinds /\ Blocks \subseteq Kinds /\ Values \subseteq Operands
    /\ \A k \in Operands : k # "call" /\ k # "try"
BY DEF Kinds, Operands, Blocks, Values

LEMMA TypesAre ==
    ASSUME VInv
    PROVE  /\ ctl \in Seq(Kinds) /\ Len(ctl) \in Nat
           /\ frame_ptr \in Nat
           /\ stack \in Seq(Operands) /\ Len(stack) \in Nat
           /\ Len(try_stack) \in Nat
           /\ \A K : \A i \in 0 .. Len(ctl) : CountTo(ctl, i, K) \in Nat
<1>1. ctl \in Seq(Kinds) /\ stack \in Seq(Operands) /\ frame_ptr \in Nat
  BY VMAssumption DEF VInv, TypeOK, Kinds
<1>2. Len(try_stack) \in Nat
  BY DEF VInv, TypeOK
<1>3. Len(ctl) \in Nat
  BY <1>1
<1>4. ASSUME NEW K, NEW i \in 0 .. Len(ctl)
      PROVE  CountTo(ctl, i, K) \in Nat
  <2>1. i \in Nat
    BY <1>3
  <2> QED
    BY <2>1, CountToNat
<1> QED
  BY <1>1, <1>2, <1>3, <1>4

LEMMA EditTypes ==
    ASSUME VInv, NEW m, NEW t, Edits(m, t)
    PROVE  /\ m \in 0 .. Len(ctl) /\ m \in Nat
           /\ t \in Seq(Kinds) /\ Len(t) \in {0, 1}
           /\ t = <<>> \/ (t = <<t[1]>> /\ t[1] \in Kinds)
<1>1. m \in 0 .. Len(ctl)
  BY DEF Edits
<1>2. Len(ctl) \in Nat
  BY TypesAre
<1>3. m \in Nat
  BY <1>1, <1>2
<1>4. CASE t = <<>>
  BY <1>1, <1>3, <1>4
<1>5. ASSUME NEW k \in Kinds, t = <<k>>
      PROVE  t \in Seq(Kinds) /\ Len(t) = 1 /\ t[1] = k
  BY <1>5
<1> QED
  BY <1>1, <1>3, <1>4, <1>5 DEF Edits

LEMMA EditFrames ==
    ASSUME VInv, Running, NEW m, NEW t, Edits(m, t), FramesFollow(m, t), Running'
    PROVE  Framed'
<1>1. ctl \in Seq(Kinds) /\ m \in Nat /\ m >= 1 /\ t \in Seq(Kinds) /\ Len(t) \in {0, 1}
  <2>1. m >= 1
    BY DEF Edits
  <2> QED
    BY <2>1, TypesAre, EditTypes
<1>2. m \in 0 .. Len(ctl) /\ ctl' = SubSeq(ctl, 1, m) \o t
  BY DEF Edits
<1>3. Len(ctl') = m + Len(t) /\ \A i \in 1 .. m : ctl'[i] = ctl[i]
  BY <1>1, <1>2, EditIs
<1>4. Len(ctl') >= 1 /\ ctl'[1] = "call"
  BY <1>1, <1>3 DEF VInv, Framed
<1>5. /\ (\A i \in 1 .. Len(t) : t[i] \notin {"call"}) => Count(ctl', {"call"}) = CountTo(ctl, m, {"call"})
      /\ Len(t) = 1 /\ t[1] \in {"call"} => Count(ctl', {"call"}) = CountTo(ctl, m, {"call"}) + 1
  BY <1>1, <1>2, EditCount
<1>6. CountTo(ctl, m, {"call"}) \in Nat
  BY <1>2, TypesAre
<1>7. CASE t = <<"call">>
  <2>1. Len(t) = 1 /\ t[1] = "call"
    BY <1>7
  <2> QED
    BY <2>1, <1>4, <1>5, <1>6, <1>7 DEF FramesFollow, Framed
<1>8. CASE t # <<"call">>
  <2>1. \A i \in 1 .. Len(t) : t[i] \notin {"call"}
    BY <1>1, <1>8
  <2> QED
    BY <2>1, <1>4, <1>5, <1>6, <1>8 DEF FramesFollow, Framed
<1> QED
  BY <1>7, <1>8

\* What the step keeps counts as before.
LEMMA EditKeeps ==
    ASSUME VInv, NEW m, NEW t, Edits(m, t)
    PROVE  /\ ctl' \in Seq(Kinds) /\ Len(ctl') = m + Len(t)
           /\ \A i \in 1 .. m : ctl'[i] = ctl[i]
           /\ \A K : \A i \in 0 .. m : CountTo(ctl, i, K)' = CountTo(ctl, i, K)
           /\ t # <<>> => Len(ctl') = m + 1 /\ ctl'[m + 1] = t[1]
           /\ t = <<>> => Len(ctl') = m
<1>1. /\ ctl \in Seq(Kinds) /\ m \in 0 .. Len(ctl) /\ m \in Nat
      /\ t \in Seq(Kinds) /\ Len(t) \in {0, 1}
  BY TypesAre, EditTypes
<1>2. ctl' = SubSeq(ctl, 1, m) \o t
  BY DEF Edits
<1>3. /\ ctl' \in Seq(Kinds) /\ Len(ctl') = m + Len(t)
      /\ \A i \in 1 .. m : ctl'[i] = ctl[i]
      /\ \A i \in 1 .. Len(t) : ctl'[m + i] = t[i]
  BY <1>1, <1>2, EditIs
<1>4. ASSUME NEW K, NEW i \in 0 .. m
      PROVE  CountTo(ctl, i, K)' = CountTo(ctl, i, K)
  <2>1. i \in Nat /\ \A j \in 1 .. i : ctl'[j] = ctl[j]
    BY <1>1, <1>3
  <2>2. CountTo(ctl', i, K) = CountTo(ctl, i, K)
    BY <2>1, CountToSame
  <2> QED
    BY <2>2 DEF CountTo
<1>5. t # <<>> => Len(ctl') = m + 1 /\ ctl'[m + 1] = t[1]
  BY <1>1, <1>3
<1>6. t = <<>> => Len(ctl') = m
  BY <1>1, <1>3
<1> QED
  BY <1>3, <1>4, <1>5, <1>6

LEMMA SubSeqSame ==
    ASSUME NEW T, NEW s \in Seq(T), NEW c \in Seq(T), NEW m \in Nat, m <= Len(s), m <= Len(c),
           \A i \in 1 .. m : c[i] = s[i], NEW a \in 1 .. m + 1, NEW b \in 0 .. m
    PROVE  SubSeq(c, a, b) = SubSeq(s, a, b)
<1>1. /\ SubSeq(c, a, b) \in Seq(T) /\ SubSeq(s, a, b) \in Seq(T)
      /\ Len(SubSeq(c, a, b)) = IF a <= b THEN b - a + 1 ELSE 0
      /\ Len(SubSeq(s, a, b)) = IF a <= b THEN b - a + 1 ELSE 0
  OBVIOUS
<1>2. ASSUME NEW i \in 1 .. Len(SubSeq(c, a, b))
      PROVE  SubSeq(c, a, b)[i] = SubSeq(s, a, b)[i]
  <2>1. i \in 1 .. b - a + 1 /\ a + i - 1 \in 1 .. m
    BY <1>1
  <2>2. SubSeq(c, a, b)[i] = c[a + i - 1] /\ SubSeq(s, a, b)[i] = s[a + i - 1]
    BY <2>1
  <2> QED
    BY <2>1, <2>2
<1> QED
  BY <1>1, <1>2, SeqEqual

\* A try block that stays open keeps its handler.
LEMMA OldTry ==
    ASSUME VInv, Running, Tame, NEW m, NEW t, Edits(m, t),
           NEW i \in 1 .. m, ctl'[i] = "try",
           \A q \in 1 .. CountTo(ctl, m, {"try"}) : try_stack'[q] = try_stack[q]
    PROVE  LET F == try_stack'[CountTo(ctl, i, {"try"})']
           IN /\ F = try_stack[CountTo(ctl, i, {"try"})]
              /\ F.frame_ptr = 1 + CountTo(ctl, i - 1, {"call"})'
              /\ \A h \in 1 .. i - 1 : CallOf(h, i)' => F.path = SubSeq(ctl', h + 1, i - 1)
<1>1. /\ ctl \in Seq(Kinds) /\ m \in 0 .. Len(ctl) /\ m \in Nat
      /\ ctl' \in Seq(Kinds) /\ Len(ctl') >= m
      /\ \A j \in 1 .. m : ctl'[j] = ctl[j]
      /\ \A K : \A j \in 0 .. m : CountTo(ctl, j, K)' = CountTo(ctl, j, K)
  <2>1. Len(ctl') = m + Len(t) /\ Len(t) \in {0, 1} /\ m \in Nat
    BY EditTypes, EditKeeps
  <2>2. Len(ctl') >= m
    BY <2>1
  <2> QED
    BY <2>2, TypesAre, EditTypes, EditKeeps
<1>2. i \in 1 .. Len(ctl) /\ i \in 0 .. m /\ i - 1 \in 0 .. m /\ i \in Nat /\ i # 0
  BY <1>1
<1>3. ctl[i] = "try"
  BY <1>1
<1> DEFINE q == CountTo(ctl, i, {"try"})
<1>4. q \in 1 .. CountTo(ctl, m, {"try"})
  <2>1. i \in Nat /\ m \in Nat /\ i <= m
    BY <1>1, <1>2
  <2>2. q \in Nat /\ CountTo(ctl, m, {"try"}) \in Nat
    BY <2>1, CountToNat
  <2>3. q <= CountTo(ctl, m, {"try"})
    BY <2>1, CountToMore
  <2>4. 0 \in Nat /\ 0 <= i /\ \E j \in 0 + 1 .. i : ctl[j] \in {"try"}
    BY <1>2, <1>3
  <2>5. CountTo(ctl, 0, {"try"}) < q
    BY <2>1, <2>4, CountToMore
  <2>6. CountTo(ctl, 0, {"try"}) = 0
    BY CountToZero
  <2> HIDE DEF q
  <2> QED
    BY <2>2, <2>3, <2>5, <2>6
<1>5. CountTo(ctl, i, {"try"})' = q /\ CountTo(ctl, i - 1, {"call"})' = CountTo(ctl, i - 1, {"call"})
  BY <1>1, <1>2
<1>6. try_stack'[CountTo(ctl, i, {"try"})'] = try_stack[q]
  BY <1>4, <1>5
<1>7. /\ try_stack[q].frame_ptr = 1 + CountTo(ctl, i - 1, {"call"})
      /\ \A h \in 1 .. i - 1 : CallOf(h, i) => try_stack[q].path = SubSeq(ctl, h + 1, i - 1)
  BY <1>2, <1>3 DEF VInv, Handled
<1>8. ASSUME NEW h \in 1 .. i - 1, CallOf(h, i)'
      PROVE  try_stack[q].path = SubSeq(ctl', h + 1, i - 1)
  <2>1. h \in 1 .. m /\ (\A j \in h + 1 .. i - 1 : j \in 1 .. m)
    BY <1>1, <1>2
  <2>2. CallOf(h, i)
    BY <1>1, <1>8, <2>1 DEF CallOf
  <2>3. h + 1 \in 1 .. m + 1 /\ i - 1 \in 0 .. m /\ m <= Len(ctl) /\ m <= Len(ctl')
    BY <1>1, <1>2
  <2>4. SubSeq(ctl', h + 1, i - 1) = SubSeq(ctl, h + 1, i - 1)
    BY <1>1, <2>3, SubSeqSame
  <2> QED
    BY <1>7, <2>2, <2>4
<1> HIDE DEF q
<1>9. q = CountTo(ctl, i, {"try"})
  BY DEF q
<1> QED
  BY <1>5, <1>6, <1>7, <1>8, <1>9

\* The count at a place is within the count at a later one.
LEMMA CountInside ==
    ASSUME VInv, NEW m \in 0 .. Len(ctl), NEW i \in 1 .. m, NEW K, ctl[i] \in K
    PROVE  CountTo(ctl, i, K) \in 1 .. CountTo(ctl, m, K)
<1>1. i \in Nat /\ m \in Nat /\ i <= m /\ i # 0
  BY TypesAre
<1>2. CountTo(ctl, i, K) \in Nat /\ CountTo(ctl, m, K) \in Nat
  BY <1>1, CountToNat
<1>3. CountTo(ctl, i, K) <= CountTo(ctl, m, K)
  BY <1>1, CountToMore
<1>4. 0 \in Nat /\ 0 <= i /\ \E j \in 0 + 1 .. i : ctl[j] \in K
  BY <1>1
<1>5. CountTo(ctl, 0, K) < CountTo(ctl, i, K)
  BY <1>1, <1>4, CountToMore
<1>6. CountTo(ctl, 0, K) = 0
  BY CountToZero
<1> QED
  BY <1>2, <1>3, <1>5, <1>6

\* ... and all of ctl has at least as many as a part of it.
LEMMA CountWithin ==
    ASSUME VInv, NEW m \in 0 .. Len(ctl), NEW K
    PROVE  /\ CountTo(ctl, m, K) \in Nat /\ CountTo(ctl, m, K) <= Count(ctl, K)
           /\ Count(ctl, K) = CountTo(ctl, Len(ctl), K) /\ Count(ctl, K) \in Nat
<1>1. m \in Nat /\ Len(ctl) \in Nat /\ m <= Len(ctl)
  BY TypesAre
<1>2. Count(ctl, K) = CountTo(ctl, Len(ctl), K)
  BY DEF Count, CountTo
<1>3. CountTo(ctl, m, K) \in Nat /\ CountTo(ctl, Len(ctl), K) \in Nat
  BY <1>1, CountToNat
<1>4. CountTo(ctl, m, K) <= CountTo(ctl, Len(ctl), K)
  BY <1>1, CountToMore
<1> QED
  BY <1>2, <1>3, <1>4

\* The try frames the step keeps are in their places, and a new one is last.
LEMMA KeptTries ==
    ASSUME VInv, Running, Tame, NEW m, NEW t, Edits(m, t), TriesFollow(m, t)
    PROVE  LET k == CountTo(ctl, m, {"try"})
           IN /\ \A q \in 1 .. k : try_stack'[q] = try_stack[q]
              /\ t # <<"try">> => Len(try_stack') = k
              /\ t = <<"try">> => /\ Len(try_stack') = k + 1
                                  /\ NewTryFrame(m, try_stack'[k + 1])
<1> DEFINE k == CountTo(ctl, m, {"try"})
           kept == SubSeq(try_stack, 1, k)
<1>1. m \in 0 .. Len(ctl)
  BY EditTypes
<1>2. k \in Nat /\ k <= Len(try_stack)
  BY <1>1, CountWithin DEF VInv, Handled
<1> DEFINE Frames == [path : Seq(Operands \cup Blocks),
                      stack_ptr : 0 .. STACK_MAX, frame_ptr : 2 .. FRAMES_MAX]
<1>3. try_stack \in Seq(Frames)
  BY DEF VInv, TypeOK
<1>4. TriesFollow(m, t) <=> \/ t # <<"try">> /\ try_stack' = kept
                            \/ t = <<"try">> /\ \E F : NewTryFrame(m, F)
                                                      /\ try_stack' = Append(kept, F)
  BY DEF TriesFollow
<1> HIDE DEF k, Frames
<1>5. kept \in Seq(Frames) /\ Len(kept) = k /\ \A q \in 1 .. k : kept[q] = try_stack[q]
  BY <1>2, <1>3
<1>6. CASE t # <<"try">> /\ try_stack' = kept
  BY <1>2, <1>5, <1>6 DEF k
<1>7. CASE t = <<"try">> /\ \E F : NewTryFrame(m, F) /\ try_stack' = Append(kept, F)
  <2>1. PICK F : NewTryFrame(m, F) /\ try_stack' = Append(kept, F)
    BY <1>7
  <2> HIDE DEF kept
  <2>2. Len(try_stack') = k + 1 /\ try_stack'[k + 1] = F
    BY <1>2, <1>5, <2>1
  <2>3. \A q \in 1 .. k : try_stack'[q] = kept[q]
    BY <1>2, <1>5, <2>1
  <2> QED
    BY <1>5, <1>7, <2>1, <2>2, <2>3 DEF k
<1> QED
  BY <1>4, <1>6, <1>7

LEMMA EditTries ==
    ASSUME VInv, Running, Tame, NEW m, NEW t, Edits(m, t), TriesFollow(m, t)
    PROVE  Handled'
<1> DEFINE k == CountTo(ctl, m, {"try"})
<1>1. /\ m \in 0 .. Len(ctl) /\ m \in Nat /\ t \in Seq(Kinds) /\ Len(t) \in {0, 1}
      /\ t = <<>> \/ (t = <<t[1]>> /\ t[1] \in Kinds)
  BY EditTypes
<1>2. /\ Len(ctl') = m + Len(t)
      /\ \A i \in 1 .. m : ctl'[i] = ctl[i]
      /\ \A K : \A i \in 0 .. m : CountTo(ctl, i, K)' = CountTo(ctl, i, K)
      /\ t # <<>> => Len(ctl') = m + 1 /\ ctl'[m + 1] = t[1]
      /\ t = <<>> => Len(ctl') = m
  BY EditKeeps
<1>3. /\ \A q \in 1 .. k : try_stack'[q] = try_stack[q]
      /\ t # <<"try">> => Len(try_stack') = k
      /\ t = <<"try">> => Len(try_stack') = k + 1 /\ NewTryFrame(m, try_stack'[k + 1])
  BY KeptTries
<1>4. /\ (\A i \in 1 .. Len(t) : t[i] \notin {"try"}) => Count(ctl', {"try"}) = k
      /\ Len(t) = 1 /\ t[1] \in {"try"} => Count(ctl', {"try"}) = k + 1
  <2>1. ctl \in Seq(Kinds) /\ ctl' = SubSeq(ctl, 1, m) \o t
    BY TypesAre DEF Edits
  <2> QED
    BY <1>1, <2>1, EditCount
<1>5. Len(try_stack') = Count(ctl', {"try"})
  <2>1. CASE t = <<"try">>
    <3>1. Len(t) = 1 /\ t[1] = "try"
      BY <2>1
    <3> QED
      BY <1>3, <1>4, <2>1, <3>1
  <2>2. CASE t # <<"try">>
    <3>1. \A i \in 1 .. Len(t) : t[i] \notin {"try"}
      BY <1>1, <2>2
    <3> QED
      BY <1>3, <1>4, <2>2, <3>1
  <2> QED
    BY <2>1, <2>2
<1>6. ASSUME NEW i \in 1 .. Len(ctl'), ctl'[i] = "try"
      PROVE  LET F == try_stack'[CountTo(ctl, i, {"try"})']
             IN /\ F.frame_ptr = 1 + CountTo(ctl, i - 1, {"call"})'
                /\ \A h \in 1 .. i - 1 : CallOf(h, i)' => F.path = SubSeq(ctl', h + 1, i - 1)
  <2>1. CASE i \in 1 .. m
    BY <1>3, <1>6, <2>1, OldTry
  <2>2. CASE i \notin 1 .. m
    <3>1. i = m + 1 /\ t = <<"try">> /\ ctl'[m + 1] = "try"
      BY <1>1, <1>2, <1>6, <2>2
    <3>2. NewTryFrame(m, try_stack'[k + 1])
      BY <1>3, <3>1
    <3>3. CountTo(ctl, m + 1, {"try"})' = k + 1
      <4>1. CountTo(ctl', m + 1, {"try"}) = CountTo(ctl', m, {"try"}) + 1
        BY <1>1, <3>1, CountToNext
      <4>2. CountTo(ctl, m, {"try"})' = k
        BY <1>1, <1>2
      <4> QED
        BY <4>1, <4>2 DEF CountTo
    <3>4. i - 1 = m /\ CountTo(ctl, m, {"call"})' = CountTo(ctl, m, {"call"})
      BY <1>1, <1>2, <3>1
    <3>5. ASSUME NEW h \in 1 .. m, CallOf(h, m + 1)'
          PROVE  try_stack'[k + 1].path = SubSeq(ctl', h + 1, m)
      <4>1. m + 1 - 1 = m /\ \A j \in h + 1 .. m : j \in 1 .. m
        BY <1>1
      <4>2. ctl'[h] = "call" /\ \A j \in h + 1 .. m : ctl'[j] # "call"
        BY <1>1, <3>5, <4>1 DEF CallOf
      <4>6. ctl[h] = "call" /\ \A j \in h + 1 .. m : ctl[j] # "call"
        BY <1>2, <4>1, <4>2
      <4>7. CallOf(h, m + 1)
        BY <1>1, <4>1, <4>6 DEF CallOf
      <4>3. try_stack'[k + 1].path = SubSeq(ctl, h + 1, m)
        BY <3>2, <4>7 DEF NewTryFrame
      <4>4. /\ ctl \in Seq(Kinds) /\ ctl' \in Seq(Kinds) /\ m <= Len(ctl) /\ m <= Len(ctl')
            /\ h + 1 \in 1 .. m + 1 /\ m \in 0 .. m
        BY <1>1, <1>2, TypesAre, EditKeeps
      <4>5. SubSeq(ctl', h + 1, m) = SubSeq(ctl, h + 1, m)
        BY <1>1, <1>2, <4>4, SubSeqSame, ZenonT(30)
      <4> QED
        BY <4>3, <4>5
    <3> HIDE DEF k
    <3>6. try_stack'[k + 1].frame_ptr = 1 + CountTo(ctl, m, {"call"})
      BY <3>2 DEF NewTryFrame
    <3> QED
      BY <3>1, <3>3, <3>4, <3>5, <3>6
  <2> QED
    BY <2>1, <2>2
<1>7. Len(try_stack') = Count(ctl, {"try"})'
  BY <1>5 DEF Count
<1> QED
  BY <1>6, <1>7 DEF Handled

LEMMA BalancedIsTame == Balanced => Tame
BY DEF Balanced, Tame

\* The operands the step keeps are in their places, and a new one is last.
LEMMA KeptOperands ==
    ASSUME VInv, Running, Balanced, NEW m, NEW t, Edits(m, t), OperandsFollow(m, t)
    PROVE  LET k == CountTo(ctl, m, Operands)
           IN /\ \A q \in 1 .. k : stack'[q] = stack[q]
              /\ t = <<>> \/ t[1] \notin Operands => Len(stack') = k
              /\ t # <<>> /\ t[1] \in Operands => Len(stack') = k + 1 /\ stack'[k + 1] = t[1]
<1> DEFINE k == CountTo(ctl, m, Operands)
           kept == SubSeq(stack, 1, k)
<1>1. m \in 0 .. Len(ctl)
  BY EditTypes
<1>2. k \in Nat /\ k <= Len(stack)
  BY <1>1, CountWithin DEF VInv, Stacked
<1>3. stack \in Seq(Operands)
  BY TypesAre
<1>4. \/ t # <<>> /\ t[1] \in Operands /\ stack' = Append(kept, t[1])
      \/ (t = <<>> \/ t[1] \notin Operands) /\ stack' = kept
  BY DEF OperandsFollow
<1> HIDE DEF k
<1>5. kept \in Seq(Operands) /\ Len(kept) = k /\ \A q \in 1 .. k : kept[q] = stack[q]
  BY <1>2, <1>3
<1> HIDE DEF kept
<1>6. CASE (t = <<>> \/ t[1] \notin Operands) /\ stack' = kept
  BY <1>2, <1>5, <1>6 DEF k
<1>7. CASE t # <<>> /\ t[1] \in Operands /\ stack' = Append(kept, t[1])
  <2>1. Len(stack') = k + 1 /\ stack'[k + 1] = t[1]
    BY <1>2, <1>5, <1>7
  <2>2. \A q \in 1 .. k : stack'[q] = kept[q]
    BY <1>2, <1>5, <1>7
  <2> QED
    BY <1>5, <1>7, <2>1, <2>2 DEF k
<1> QED
  BY <1>4, <1>6, <1>7

LEMMA EditOperands ==
    ASSUME VInv, Running, Balanced, NEW m, NEW t, Edits(m, t), TriesFollow(m, t),
           OperandsFollow(m, t)
    PROVE  Stacked'
<1> DEFINE k == CountTo(ctl, m, Operands)
           c == CountTo(ctl, m, {"try"})
<1>1. /\ m \in 0 .. Len(ctl) /\ m \in Nat /\ t \in Seq(Kinds) /\ Len(t) \in {0, 1}
      /\ t = <<>> \/ (t = <<t[1]>> /\ t[1] \in Kinds)
  BY EditTypes
<1>2. /\ Len(ctl') = m + Len(t)
      /\ \A i \in 1 .. m : ctl'[i] = ctl[i]
      /\ \A K : \A i \in 0 .. m : CountTo(ctl, i, K)' = CountTo(ctl, i, K)
      /\ t # <<>> => Len(ctl') = m + 1 /\ ctl'[m + 1] = t[1]
      /\ t = <<>> => Len(ctl') = m
  BY EditKeeps
<1>3. /\ \A q \in 1 .. k : stack'[q] = stack[q]
      /\ t = <<>> \/ t[1] \notin Operands => Len(stack') = k
      /\ t # <<>> /\ t[1] \in Operands => Len(stack') = k + 1 /\ stack'[k + 1] = t[1]
  BY KeptOperands
<1>4. /\ \A q \in 1 .. c : try_stack'[q] = try_stack[q]
      /\ t = <<"try">> => Len(try_stack') = c + 1 /\ NewTryFrame(m, try_stack'[c + 1])
  BY BalancedIsTame, KeptTries
<1>5. Stacked
  BY DEF VInv
<1>6. Len(stack') = Count(ctl, Operands)'
  <2>1. ctl \in Seq(Kinds) /\ ctl' = SubSeq(ctl, 1, m) \o t
    BY TypesAre DEF Edits
  <2>2. /\ (\A i \in 1 .. Len(t) : t[i] \notin Operands) => Count(ctl', Operands) = k
        /\ Len(t) = 1 /\ t[1] \in Operands => Count(ctl', Operands) = k + 1
    BY <1>1, <2>1, EditCount
  <2>3. Count(ctl, Operands)' = Count(ctl', Operands)
    BY DEF Count, Operands
  <2>4. CASE t = <<>>
    BY <1>3, <2>2, <2>3, <2>4
  <2>5. CASE t # <<>>
    <3>1. Len(t) = 1
      BY <1>1, <2>5
    <3> QED
      BY <1>1, <1>3, <2>2, <2>3, <2>5, <3>1
  <2> QED
    BY <2>4, <2>5
<1>7. ASSUME NEW i \in 1 .. Len(ctl'), ctl'[i] \in Operands
      PROVE  stack'[CountTo(ctl, i, Operands)'] = ctl'[i]
  <2>1. CASE i \in 1 .. m
    <3>1. ctl[i] \in Operands /\ i \in 1 .. Len(ctl) /\ i \in 0 .. m
      BY <1>1, <1>2, <1>7, <2>1
    <3>2. stack[CountTo(ctl, i, Operands)] = ctl[i]
      BY <1>5, <3>1 DEF Stacked
    <3>3. CountTo(ctl, i, Operands) \in 1 .. k
      BY <1>1, <2>1, <3>1, CountInside
    <3>4. CountTo(ctl, i, Operands)' = CountTo(ctl, i, Operands)
      <4>1. \A j \in 0 .. m : CountTo(ctl, j, Operands)' = CountTo(ctl, j, Operands)
        BY <1>2 DEF Operands
      <4> QED
        BY <3>1, <4>1
    <3> HIDE DEF k
    <3> QED
      BY <1>2, <1>3, <2>1, <3>2, <3>3, <3>4
  <2>2. CASE i \notin 1 .. m
    <3>1. i = m + 1 /\ t # <<>> /\ ctl'[m + 1] = t[1] /\ t[1] \in Operands
      BY <1>1, <1>2, <1>7, <2>2
    <3>2. CountTo(ctl, m + 1, Operands)' = k + 1
      <4>1. CountTo(ctl', m + 1, Operands) = CountTo(ctl', m, Operands) + 1
        BY <1>1, <3>1, CountToNext
      <4>2. CountTo(ctl, m, Operands)' = k
        <5>1. m \in 0 .. m
          BY <1>1
        <5> QED
          BY <1>2, <5>1 DEF Operands
      <4> QED
        BY <4>1, <4>2 DEF CountTo, Operands
    <3> QED
      BY <1>3, <3>1, <3>2
  <2> QED
    BY <2>1, <2>2
<1>8. ASSUME NEW i \in 1 .. Len(ctl'), ctl'[i] = "try"
      PROVE  try_stack'[CountTo(ctl, i, {"try"})'].stack_ptr = CountTo(ctl, i, Operands)'
  <2>1. CASE i \in 1 .. m
    <3>1. ctl[i] = "try" /\ i \in 1 .. Len(ctl) /\ i \in 0 .. m /\ ctl[i] \in {"try"}
      BY <1>1, <1>2, <1>8, <2>1
    <3>2. try_stack[CountTo(ctl, i, {"try"})].stack_ptr = CountTo(ctl, i, Operands)
      BY <1>5, <3>1 DEF Stacked
    <3>3. CountTo(ctl, i, {"try"}) \in 1 .. c
      BY <1>1, <2>1, <3>1, CountInside
    <3>4. /\ CountTo(ctl, i, {"try"})' = CountTo(ctl, i, {"try"})
          /\ CountTo(ctl, i, Operands)' = CountTo(ctl, i, Operands)
      <4>1. \A j \in 0 .. m : CountTo(ctl, j, Operands)' = CountTo(ctl, j, Operands)
        BY <1>2 DEF Operands
      <4> QED
        BY <1>2, <3>1, <4>1
    <3> HIDE DEF c
    <3> QED
      BY <1>4, <3>2, <3>3, <3>4
  <2>2. CASE i \notin 1 .. m
    <3>1. i = m + 1 /\ t = <<"try">> /\ ctl'[m + 1] = "try"
      BY <1>1, <1>2, <1>8, <2>2
    <3>2. CountTo(ctl, m + 1, {"try"})' = c + 1
      <4>1. CountTo(ctl', m + 1, {"try"}) = CountTo(ctl', m, {"try"}) + 1
        BY <1>1, <3>1, CountToNext
      <4>2. CountTo(ctl, m, {"try"})' = c
        BY <1>1, <1>2
      <4> QED
        BY <4>1, <4>2 DEF CountTo
    <3>3. CountTo(ctl, m + 1, Operands)' = k
      <4>1. CountTo(ctl', m + 1, Operands) = CountTo(ctl', m, Operands) + 0
        BY <1>1, <3>1, KindsAre, CountToNext
      <4>2. CountTo(ctl, m, Operands)' = k
        <5>1. m \in 0 .. m
          BY <1>1
        <5> QED
          BY <1>2, <5>1 DEF Operands
      <4>3. CountTo(ctl', m, Operands) \in Nat
        BY <1>1, CountToNat
      <4> QED
        BY <4>1, <4>2, <4>3 DEF CountTo, Operands
    <3>4. Len(stack) = k
      <4>1. m = Len(ctl)
        BY <3>1 DEF OperandsFollow
      <4> QED
        BY <1>5, <4>1 DEF Stacked, Count, CountTo
    <3>5. try_stack'[c + 1].stack_ptr = Len(stack)
      BY <1>4, <3>1 DEF NewTryFrame
    <3> QED
      BY <3>1, <3>2, <3>3, <3>4, <3>5
  <2> QED
    BY <2>1, <2>2
<1>9. ASSUME NEW i \in 1 .. Len(ctl') - 1, ctl'[i] \in Values
      PROVE  ctl'[i + 1] \in Values \cup {"call"}
  <2>1. CASE i + 1 \in 1 .. m
    <3>1. i \in 1 .. Len(ctl) - 1 /\ i \in 1 .. m
      BY <1>1, <2>1
    <3>2. ctl[i] \in Values
      BY <1>2, <1>9, <3>1
    <3> QED
      BY <1>2, <1>5, <2>1, <3>1, <3>2 DEF Stacked
  <2>2. CASE i + 1 \notin 1 .. m
    <3>1. i = m /\ t # <<>> /\ ctl'[m + 1] = t[1] /\ m >= 1
      BY <1>1, <1>2, <2>2
    <3>2. ctl[m] \in Values
      BY <1>1, <1>2, <1>9, <3>1, SMTT(30)
    <3>3. t[1] \in Values \cup {"call"}
      BY <3>1, <3>2 DEF OperandsFollow
    <3> QED
      BY <3>1, <3>3
  <2> QED
    BY <2>1, <2>2
<1>10. panic' = FALSE
  BY DEF OperandsFollow
<1> QED
  BY <1>6, <1>7, <1>8, <1>9, <1>10 DEF Stacked, Operands, Values

\* All of it: a step that edits ctl, and takes along what belongs to it, keeps
\* the invariant.
LEMMA FollowsKeeps ==
    ASSUME VInv, Running, NEW m, NEW t, Follows(m, t), TypeOK'
    PROVE  VInv'
<1>1. Edits(m, t) /\ FramesFollow(m, t) /\ UNCHANGED features
  BY DEF Follows
<1>2. Running' => Framed'
  BY <1>1, EditFrames
<1>3. Tame' => Handled'
  <2>1. Tame' => Tame
    BY <1>1 DEF Tame
  <2> QED
    BY <1>1, <2>1, EditTries DEF Follows
<1>4. Balanced' => Stacked'
  <2>1. Balanced' => Balanced
    BY <1>1 DEF Balanced
  <2> QED
    BY <1>1, <2>1, BalancedIsTame, EditOperands DEF Follows
<1>5. features' \in Programs
  BY <1>1 DEF VInv
<1> QED
  BY <1>2, <1>3, <1>4, <1>5 DEF VInv

LEMMA EndsKeeps ==
    ASSUME VInv, NEW how \in {"error", "unhandled", "overflow", "underflow"}, Ends(how)
    PROVE  VInv'
<1>1. /\ UNCHANGED <<features, ctl, frame_ptr, stack, try_stack, panic>>
      /\ status' = how
  BY DEF Ends
<1>2. TypeOK'
  BY <1>1 DEF VInv, TypeOK
<1>3. ~ Running'
  BY <1>1 DEF Running
<1> QED
  BY <1>1, <1>2, <1>3 DEF VInv

-----------------------------------------------------------------------------
(* Errors *)

\* a place of ctl, with the calls up to it
CallNumber(h, c) == ctl[h] = "call" /\ CountTo(ctl, h, {"call"}) = c

LEMMA UpToFrameIs ==
    ASSUME VInv, NEW n, NEW h \in 1 .. Len(ctl), CallNumber(h, n - 1)
    PROVE  \E g \in 1 .. Len(ctl) : CallNumber(g, n - 1) /\ UpToFrame(n) = SubSeq(ctl, 1, g)
<1> DEFINE P(i) == ctl[i] = "call" /\ Count(SubSeq(ctl, 1, i), {"call"}) = n - 1
<1>1. \A i \in 1 .. Len(ctl) : P(i) <=> CallNumber(i, n - 1)
  <2> TAKE i \in 1 .. Len(ctl)
  <2>1. ctl \in Seq(Kinds) /\ i \in 0 .. Len(ctl)
    BY TypesAre
  <2>2. Count(SubSeq(ctl, 1, i), {"call"}) = CountTo(ctl, i, {"call"})
    BY <2>1, CountOfPrefix
  <2> QED
    BY <2>2 DEF CallNumber
<1> DEFINE g == CHOOSE i \in 1 .. Len(ctl) : P(i)
<1>2. g \in 1 .. Len(ctl) /\ P(g)
  <2>1. \E i \in 1 .. Len(ctl) : P(i)
    BY <1>1
  <2> HIDE DEF P
  <2> QED
    BY <2>1
<1>3. UpToFrame(n) = SubSeq(ctl, 1, g)
  BY DEF UpToFrame
<1> HIDE DEF P, g
<1> QED
  BY <1>1, <1>2, <1>3

\* The call with a number is the last one before the places that count it.
LEMMA CallNumberIsCallOf ==
    ASSUME VInv, NEW i \in 1 .. Len(ctl), NEW h \in 1 .. Len(ctl),
           CallNumber(h, CountTo(ctl, i - 1, {"call"}))
    PROVE  h <= i - 1 /\ CallOf(h, i)
<1>1. i - 1 \in Nat /\ h \in Nat /\ h - 1 \in Nat /\ (h - 1) + 1 = h
  BY TypesAre
<1> DEFINE K == {"call"}
<1>2. /\ CountTo(ctl, i - 1, K) \in Nat /\ CountTo(ctl, h, K) \in Nat
      /\ CountTo(ctl, h, K) = CountTo(ctl, i - 1, K)
      /\ ctl[h] = "call"
  BY <1>1, CountToNat DEF CallNumber
<1>3. h <= i - 1
  <2> SUFFICES ASSUME h > i - 1 PROVE FALSE
    BY <1>1
  <2>1. i - 1 <= h /\ \E j \in (i - 1) + 1 .. h : ctl[j] \in K
    BY <1>1, <1>2
  <2>2. CountTo(ctl, i - 1, K) < CountTo(ctl, h, K)
    BY <1>1, <2>1, CountToMore
  <2> QED
    BY <1>2, <2>2
<1>4. \A j \in h + 1 .. i - 1 : ctl[j] # "call"
  <2> SUFFICES ASSUME NEW j \in h + 1 .. i - 1, ctl[j] = "call"
               PROVE  FALSE
    OBVIOUS
  <2>1. \E x \in h + 1 .. i - 1 : ctl[x] \in K
    OBVIOUS
  <2>2. CountTo(ctl, h, K) < CountTo(ctl, i - 1, K)
    BY <1>1, <1>3, <2>1, CountToMore
  <2> QED
    BY <1>2, <2>2
<1> QED
  BY <1>2, <1>3, <1>4 DEF CallOf

\* The innermost open try block, and its handler.
LEMMA InnermostTry ==
    ASSUME VInv, Running, Tame, try_stack # <<>>
    PROVE  LET i == LastIndex(ctl, {"try"})
               F == Last(try_stack)
           IN /\ i \in 2 .. Len(ctl) /\ ctl[i] = "try"
              /\ CountTo(ctl, i, {"try"}) = Len(try_stack)
              /\ F = try_stack[Len(try_stack)]
              /\ \E h \in 1 .. i - 1 : /\ CallOf(h, i)
                                       /\ CallNumber(h, F.frame_ptr - 1)
                                       /\ UpToFrame(F.frame_ptr) = SubSeq(ctl, 1, h)
                                       /\ F.path = SubSeq(ctl, h + 1, i - 1)
              /\ F.frame_ptr = 1 + CountTo(ctl, i - 1, {"call"})
              /\ F.frame_ptr <= frame_ptr
<1> DEFINE i == LastIndex(ctl, {"try"})
           F == try_stack[Len(try_stack)]
<1>1. ctl \in Seq(Kinds) /\ Len(ctl) \in Nat
  BY TypesAre
<1>2. /\ i \in 0 .. Len(ctl)
      /\ i # 0 => ctl[i] \in {"try"}
      /\ \A j \in i + 1 .. Len(ctl) : ctl[j] \notin {"try"}
  BY <1>1, LastIndexIs
<1> HIDE DEF i
<1>3. Len(try_stack) = Count(ctl, {"try"}) /\ Len(try_stack) \in Nat /\ Len(try_stack) # 0
  <2>1. Len(try_stack) \in Nat /\ Len(try_stack) # 0
    BY DEF VInv, TypeOK
  <2> QED
    BY <2>1 DEF VInv, Handled
<1>4. CountTo(ctl, i, {"try"}) = Len(try_stack)
  <2>1. i \in Nat /\ i <= Len(ctl)
    BY <1>1, <1>2
  <2>2. CountTo(ctl, i, {"try"}) = CountTo(ctl, Len(ctl), {"try"})
    BY <1>1, <1>2, <2>1, CountToMore
  <2> QED
    BY <1>3, <2>2 DEF Count, CountTo
<1>5. i # 0
  BY <1>3, <1>4, CountToZero
<1>6. ctl[1] = "call" /\ frame_ptr = 1 + Count(ctl, {"call"}) /\ Handled
  BY DEF VInv, Framed
<1>7. i \in 2 .. Len(ctl) /\ ctl[i] = "try" /\ i \in 1 .. Len(ctl) /\ i - 1 \in 0 .. Len(ctl) /\ i - 1 \in Nat
  BY <1>1, <1>2, <1>5, <1>6
<1>8. /\ F.frame_ptr = 1 + CountTo(ctl, i - 1, {"call"})
      /\ \A h \in 1 .. i - 1 : CallOf(h, i) => F.path = SubSeq(ctl, h + 1, i - 1)
  BY <1>4, <1>6, <1>7 DEF Handled
<1>9. F = Last(try_stack)
  BY DEF Last
<1> HIDE DEF F
<1>10. CountTo(ctl, i - 1, {"call"}) \in Nat /\ CountTo(ctl, i - 1, {"call"}) <= Count(ctl, {"call"})
       /\ Count(ctl, {"call"}) \in Nat
  BY <1>7, CountWithin
<1>11. F.frame_ptr <= frame_ptr /\ F.frame_ptr - 1 = CountTo(ctl, i - 1, {"call"})
  BY <1>6, <1>8, <1>10
<1>12. CountTo(ctl, i - 1, {"call"}) >= 1
  <2>1. 1 \in 1 .. i - 1 /\ ctl[1] \in {"call"}
    BY <1>6, <1>7
  <2>2. CountTo(ctl, 1, {"call"}) \in 1 .. CountTo(ctl, i - 1, {"call"})
    BY <1>7, <2>1, CountInside
  <2> QED
    BY <1>10, <2>2
<1>13. PICK h0 \in 1 .. i - 1 : ctl[h0] \in {"call"}
                               /\ CountTo(ctl, h0, {"call"}) = CountTo(ctl, i - 1, {"call"})
  <2> DEFINE c == CountTo(ctl, i - 1, {"call"})
  <2>1. c \in Nat \ {0} /\ c <= CountTo(ctl, i - 1, {"call"})
    BY <1>10, <1>12
  <2>2. \E x \in 1 .. i - 1 : ctl[x] \in {"call"} /\ CountTo(ctl, x, {"call"}) = c
    <3> HIDE DEF c
    <3> QED
      BY <1>7, <2>1, CountToReaches
  <2> QED
    BY <2>2
<1>14. PICK h \in 1 .. Len(ctl) : CallNumber(h, F.frame_ptr - 1)
                                 /\ UpToFrame(F.frame_ptr) = SubSeq(ctl, 1, h)
  <2>1. h0 \in 1 .. Len(ctl) /\ CallNumber(h0, F.frame_ptr - 1)
    BY <1>1, <1>7, <1>11, <1>13 DEF CallNumber
  <2> QED
    BY <2>1, UpToFrameIs
<1>15. h <= i - 1 /\ CallOf(h, i)
  BY <1>7, <1>11, <1>14, CallNumberIsCallOf
<1>16. h \in 1 .. i - 1
  BY <1>7, <1>14, <1>15
<1>17. F.path = SubSeq(ctl, h + 1, i - 1)
  BY <1>8, <1>15, <1>16
<1>18. \E x \in 1 .. i - 1 : /\ CallOf(x, i)
                              /\ CallNumber(x, F.frame_ptr - 1)
                              /\ UpToFrame(F.frame_ptr) = SubSeq(ctl, 1, x)
                              /\ F.path = SubSeq(ctl, x + 1, i - 1)
  BY <1>14, <1>15, <1>16, <1>17
<1> QED
  BY <1>4, <1>7, <1>8, <1>9, <1>11, <1>18 DEF i, F

\* The catch block of the innermost try block takes its place.
Caught ==
    LET i == LastIndex(ctl, {"try"})
    IN i > 0 /\ ctl' = Append(SubSeq(ctl, 1, i - 1), "catch")

LEMMA SplitPrefix ==
    ASSUME NEW T, NEW s \in Seq(T), NEW m \in 0 .. Len(s), NEW h \in 0 .. m
    PROVE  SubSeq(s, 1, h) \o SubSeq(s, h + 1, m) = SubSeq(s, 1, m)
<1> DEFINE a == SubSeq(s, 1, h)
           b == SubSeq(s, h + 1, m)
           c == SubSeq(s, 1, m)
<1>1. /\ a \in Seq(T) /\ b \in Seq(T) /\ c \in Seq(T)
      /\ Len(a) = h /\ Len(b) = m - h /\ Len(c) = m
      /\ \A i \in 1 .. h : a[i] = s[i]
      /\ \A i \in 1 .. m : c[i] = s[i]
  OBVIOUS
<1>2. \A i \in 1 .. m - h : b[i] = s[h + i]
  <2> TAKE i \in 1 .. m - h
  <2>1. h + 1 + i - 1 = h + i
    OBVIOUS
  <2> QED
    BY <2>1
<1>3. h \in Nat /\ m \in Nat
  OBVIOUS
<1> HIDE DEF a, b, c
<1>4. a \o b \in Seq(T) /\ Len(a \o b) = m
  BY <1>1, <1>3
<1>5. ASSUME NEW i \in 1 .. m
      PROVE  (a \o b)[i] = c[i]
  <2>1. CASE i <= h
    BY <1>1, <1>3, <2>1
  <2>2. CASE i > h
    <3>1. i - h \in 1 .. m - h /\ h + (i - h) = i
      BY <1>3, <2>2
    <3>2. (a \o b)[i] = b[i - h]
      BY <1>1, <1>3, <2>2
    <3> QED
      BY <1>1, <1>2, <3>1, <3>2
  <2>3. i <= h \/ i > h
    BY <1>3
  <2> QED
    BY <2>1, <2>2, <2>3
<1>6. a \o b = c
  BY <1>1, <1>4, <1>5, SeqEqual
<1> QED
  BY <1>6 DEF a, b, c

LEMMA PrefixOfPrefix ==
    ASSUME NEW T, NEW s \in Seq(T), NEW m \in 0 .. Len(s), NEW h \in 0 .. m
    PROVE  SubSeq(SubSeq(s, 1, m), 1, h) = SubSeq(s, 1, h)
<1> DEFINE c == SubSeq(s, 1, m)
<1>1. c \in Seq(T) /\ Len(c) = m /\ \A i \in 1 .. m : c[i] = s[i]
  OBVIOUS
<1> HIDE DEF c
<1>2. h \in Nat /\ h <= Len(s) /\ h <= Len(c) /\ 1 \in 1 .. h + 1 /\ h \in 0 .. h
      /\ \A i \in 1 .. h : c[i] = s[i]
  BY <1>1
<1>3. SubSeq(c, 1, h) = SubSeq(s, 1, h)
  BY <1>1, <1>2, SubSeqSame
<1> QED
  BY <1>3 DEF c

\* s is what is left of the operands when the error is raised.
LEMMA UnwindFollows ==
    ASSUME VInv, Running, Tame, try_stack # <<>>, NEW n \in 0 .. Len(stack), NEW p,
           Unwind(SubSeq(stack, 1, n), p, <<>>),
           Balanced => p = FALSE /\ n >= Last(try_stack).stack_ptr
    PROVE  Ends("overflow") \/ (Caught /\ \E m : Follows(m, <<"catch">>))
<1> DEFINE s == SubSeq(stack, 1, n)
           i == LastIndex(ctl, {"try"})
           F == Last(try_stack)
           kept == SubSeq(s, 1, Smaller(Len(s), F.stack_ptr))
<1>1. SUFFICES ASSUME ~ Ends("overflow")
               PROVE  Caught /\ Follows(i - 1, <<"catch">>)
  OBVIOUS
<1>2. /\ stack' = kept
      /\ frame_ptr' = Smaller(frame_ptr, F.frame_ptr)
      /\ ctl' = UpToFrame(Smaller(frame_ptr, F.frame_ptr)) \o F.path \o <<"catch">>
      /\ try_stack' = Pop(try_stack, 1) \o <<>>
      /\ panic' = p
      /\ UNCHANGED <<features, status>>
  BY <1>1 DEF Unwind
<1>3. /\ i \in 2 .. Len(ctl) /\ ctl[i] = "try"
      /\ CountTo(ctl, i, {"try"}) = Len(try_stack)
      /\ F = try_stack[Len(try_stack)]
      /\ F.frame_ptr = 1 + CountTo(ctl, i - 1, {"call"})
      /\ F.frame_ptr <= frame_ptr
  BY InnermostTry
<1>4. PICK h \in 1 .. i - 1 : /\ UpToFrame(F.frame_ptr) = SubSeq(ctl, 1, h)
                              /\ F.path = SubSeq(ctl, h + 1, i - 1)
  BY InnermostTry
<1>5. ctl \in Seq(Kinds) /\ Len(ctl) \in Nat /\ frame_ptr \in Nat /\ stack \in Seq(Operands)
      /\ Len(stack) \in Nat
  BY TypesAre
<1> HIDE DEF i, F
<1>6. i \in Nat /\ i - 1 \in Nat /\ i - 1 >= 1 /\ i - 1 \in 0 .. Len(ctl) /\ (i - 1) + 1 = i
      /\ h \in 0 .. i - 1
  BY <1>3, <1>5
<1>7. CountTo(ctl, i - 1, {"call"}) \in Nat /\ CountTo(ctl, i - 1, {"try"}) \in Nat
      /\ CountTo(ctl, i - 1, Operands) \in Nat
  BY <1>6, CountToNat
<1>8. Smaller(frame_ptr, F.frame_ptr) = F.frame_ptr
  <2>1. F.frame_ptr \in Nat
    BY <1>3, <1>7
  <2> QED
    BY <1>3, <1>5, <2>1 DEF Smaller
<1>9. ctl' = SubSeq(ctl, 1, i - 1) \o <<"catch">>
  <2>1. SubSeq(ctl, 1, h) \o SubSeq(ctl, h + 1, i - 1) = SubSeq(ctl, 1, i - 1)
    BY <1>5, <1>6, SplitPrefix
  <2>2. ctl' = SubSeq(ctl, 1, h) \o SubSeq(ctl, h + 1, i - 1) \o <<"catch">>
    BY <1>2, <1>4, <1>8
  <2> QED
    BY <2>1, <2>2
<1>10. Append(SubSeq(ctl, 1, i - 1), "catch") = SubSeq(ctl, 1, i - 1) \o <<"catch">>
  BY <1>5, <1>6, KindsAre, AppendAsEdit
<1>11. Caught
  <2>1. i > 0 /\ ctl' = Append(SubSeq(ctl, 1, i - 1), "catch")
    BY <1>6, <1>9, <1>10
  <2> QED
    BY <2>1 DEF Caught, i
<1>12. Edits(i - 1, <<"catch">>)
  BY <1>6, <1>9, KindsAre DEF Edits
<1>13. FramesFollow(i - 1, <<"catch">>)
  <2>1. <<"catch">> # <<"call">>
    OBVIOUS
  <2> QED
    BY <1>2, <1>3, <1>7, <1>8, <2>1 DEF FramesFollow
<1>14. TriesFollow(i - 1, <<"catch">>)
  <2>1. CountTo(ctl, (i - 1) + 1, {"try"})
          = CountTo(ctl, i - 1, {"try"}) + IF ctl[(i - 1) + 1] \in {"try"} THEN 1 ELSE 0
    BY <1>6, CountToNext
  <2>2. CountTo(ctl, i - 1, {"try"}) = Len(try_stack) - 1
    BY <1>3, <1>6, <1>7, <2>1
  <2> DEFINE Frames == [path : Seq(Operands \cup Blocks),
                        stack_ptr : 0 .. STACK_MAX, frame_ptr : 2 .. FRAMES_MAX]
  <2>3. try_stack \in Seq(Frames)
    BY DEF VInv, TypeOK
  <2> HIDE DEF Frames
  <2>4. Len(try_stack) \in Nat /\ Len(try_stack) # 0 /\ 1 \in 0 .. Len(try_stack)
    BY <2>3
  <2>5. Pop(try_stack, 1) = SubSeq(try_stack, 1, Len(try_stack) - 1) \o <<>>
    BY <2>3, <2>4, PrefixAsEdit
  <2>6. Pop(try_stack, 1) \o <<>> = SubSeq(try_stack, 1, Len(try_stack) - 1)
    <3> DEFINE r == SubSeq(try_stack, 1, Len(try_stack) - 1)
    <3>1. r \in Seq(Frames)
      BY <2>3
    <3>2. (r \o <<>>) = r
      <4> HIDE DEF r
      <4> QED
        BY <3>1
    <3> QED
      BY <3>2 DEF Pop
  <2>7. <<"catch">> # <<"try">>
    OBVIOUS
  <2> QED
    BY <1>2, <2>2, <2>6, <2>7 DEF TriesFollow
<1>15. ASSUME Balanced
       PROVE  OperandsFollow(i - 1, <<"catch">>)
  <2>1. Stacked
    BY <1>15 DEF VInv
  <2>2. F.stack_ptr = CountTo(ctl, i, Operands)
    <3>1. i \in 1 .. Len(ctl)
      BY <1>3, <1>5
    <3> QED
      BY <1>3, <2>1, <3>1 DEF Stacked
  <2>3. CountTo(ctl, i, Operands) = CountTo(ctl, i - 1, Operands)
    <3>1. ctl[(i - 1) + 1] \notin Operands
      BY <1>3, <1>6, KindsAre
    <3>2. CountTo(ctl, (i - 1) + 1, Operands) = CountTo(ctl, i - 1, Operands) + 0
      BY <1>6, <3>1, CountToNext, SMTT(30)
    <3> QED
      BY <1>6, <1>7, <3>2
  <2>4. F.stack_ptr \in 0 .. n /\ Len(s) = n
    BY <1>5, <1>7, <1>15, <2>2, <2>3 DEF F
  <2>5. Smaller(Len(s), F.stack_ptr) = F.stack_ptr
    BY <2>4 DEF Smaller
  <2>6. kept = SubSeq(stack, 1, F.stack_ptr)
    <3>1. SubSeq(SubSeq(stack, 1, n), 1, F.stack_ptr) = SubSeq(stack, 1, F.stack_ptr)
      BY <1>5, <2>4, PrefixOfPrefix
    <3> QED
      BY <2>5, <3>1
  <2>7. stack' = SubSeq(stack, 1, CountTo(ctl, i - 1, Operands))
    BY <1>2, <2>2, <2>3, <2>6
  <2>8. ctl[i - 1] \notin Values
    <3>1. i - 1 \in 1 .. Len(ctl) - 1
      BY <1>3, <1>5, <1>6
    <3>2. ctl[(i - 1) + 1] \notin Values \cup {"call"}
      BY <1>3, <1>6 DEF Values
    <3> QED
      BY <2>1, <3>1, <3>2 DEF Stacked
  <2>9. <<"catch">>[1] = "catch" /\ <<"catch">> # <<>> /\ <<"catch">> # <<"try">>
    OBVIOUS
  <2> HIDE DEF kept
  <2> QED
    BY <1>2, <1>15, <2>7, <2>8, <2>9, KindsAre DEF OperandsFollow
<1> QED
  BY <1>2, <1>11, <1>12, <1>13, <1>14, <1>15 DEF Follows

TryFrames == [path : Seq(Operands \cup Blocks),
              stack_ptr : 0 .. STACK_MAX, frame_ptr : 2 .. FRAMES_MAX]

\* Any handler, however it came to be there, runs in the frame of a call that is
\* under way.
LEMMA UnwindFrames ==
    ASSUME VInv, Running, try_stack # <<>>, NEW s \in Seq(Operands), NEW p \in BOOLEAN,
           NEW pushed \in Seq(TryFrames), Len(pushed) <= 1,
           Unwind(s, p, pushed), ~ Ends("overflow")
    PROVE  TypeOK' /\ Framed' /\ UNCHANGED <<features, status>>
<1> DEFINE F == Last(try_stack)
           n == Smaller(frame_ptr, F.frame_ptr)
           kept == SubSeq(s, 1, Smaller(Len(s), F.stack_ptr))
           t == F.path \o <<"catch">>
<1>1. /\ Len(kept) < STACK_MAX
      /\ stack' = kept
      /\ frame_ptr' = n
      /\ ctl' = UpToFrame(n) \o F.path \o <<"catch">>
      /\ try_stack' = Pop(try_stack, 1) \o pushed
      /\ panic' = p
      /\ UNCHANGED <<features, status>>
  <2>1. Len(kept) >= STACK_MAX => Ends("overflow")
    BY DEF Unwind
  <2>2. Len(kept) < STACK_MAX
    <3>1. ~ (Len(kept) >= STACK_MAX)
      BY <2>1
    <3>2. Len(s) \in Nat
      OBVIOUS
    <3>3. F \in TryFrames
      <4>1. try_stack \in Seq(TryFrames)
        BY DEF VInv, TypeOK, TryFrames
      <4> QED
        BY <4>1 DEF Last
    <3>4. Smaller(Len(s), F.stack_ptr) \in 0 .. Len(s)
      BY <3>2, <3>3, VMAssumption DEF Smaller, TryFrames
    <3>5. Len(kept) \in Nat
      <4> DEFINE x == Smaller(Len(s), F.stack_ptr)
      <4>1. x \in 0 .. Len(s)
        BY <3>4
      <4> HIDE DEF x
      <4>2. Len(SubSeq(s, 1, x)) \in Nat
        BY <4>1
      <4> QED
        BY <4>2 DEF x
    <3> HIDE DEF kept
    <3> QED
      BY <3>1, <3>5, VMAssumption
  <2> QED
    BY <2>2 DEF Unwind
<1>2. try_stack \in Seq(TryFrames) /\ Len(try_stack) \in Nat /\ Len(try_stack) # 0
      /\ Len(try_stack) <= TRY_STACK_MAX
  BY DEF VInv, TypeOK, TryFrames
<1>3. F \in TryFrames
  BY <1>2 DEF Last
<1>4. ctl \in Seq(Kinds) /\ Len(ctl) \in Nat /\ frame_ptr \in 1 .. FRAMES_MAX /\ FRAMES_MAX \in Nat
      /\ STACK_MAX \in Nat
  BY TypesAre, VMAssumption DEF VInv, TypeOK
<1>5. /\ Framed
      /\ Count(ctl, {"call"}) \in Nat /\ Count(ctl, {"call"}) = CountTo(ctl, Len(ctl), {"call"})
      /\ CountTo(ctl, 1, {"call"}) >= 1
      /\ CountTo(ctl, 1, {"call"}) <= Count(ctl, {"call"})
  <2>1. Framed
    BY DEF VInv
  <2>2. 1 \in 1 .. 1 /\ 1 \in 0 .. Len(ctl) /\ ctl[1] \in {"call"} /\ Len(ctl) \in 0 .. Len(ctl)
    BY <1>4, <2>1 DEF Framed
  <2>3. CountTo(ctl, 1, {"call"}) \in 1 .. CountTo(ctl, 1, {"call"})
    BY <2>2, CountInside
  <2>4. CountTo(ctl, 1, {"call"}) \in Nat
    BY <2>2, CountWithin
  <2>5. CountTo(ctl, 1, {"call"}) >= 1
    BY <2>3, <2>4
  <2> QED
    BY <2>1, <2>2, <2>5, CountWithin
<1>6. n \in 2 .. frame_ptr /\ n \in 1 .. FRAMES_MAX
  <2>1. F.frame_ptr \in 2 .. FRAMES_MAX
    BY <1>3 DEF TryFrames
  <2>2. CountTo(ctl, 1, {"call"}) \in Nat
    <3>1. 1 \in Nat
      OBVIOUS
    <3> QED
      BY <3>1, CountToNat
  <2>3. frame_ptr >= 2
    BY <1>4, <1>5, <2>2 DEF Framed
  <2> HIDE DEF F
  <2> QED
    BY <1>4, <2>1, <2>3 DEF Smaller
<1> HIDE DEF n
<1>7. PICK g \in 1 .. Len(ctl) : CallNumber(g, n - 1) /\ UpToFrame(n) = SubSeq(ctl, 1, g)
  <2>1. n - 1 \in Nat \ {0} /\ n - 1 <= CountTo(ctl, Len(ctl), {"call"})
    BY <1>4, <1>5, <1>6 DEF Framed
  <2>2. \E h \in 1 .. Len(ctl) : ctl[h] \in {"call"} /\ CountTo(ctl, h, {"call"}) = n - 1
    <3> DEFINE c == n - 1
    <3>1. c \in Nat \ {0} /\ c <= CountTo(ctl, Len(ctl), {"call"})
      BY <2>1
    <3>2. \E h \in 1 .. Len(ctl) : ctl[h] \in {"call"} /\ CountTo(ctl, h, {"call"}) = c
      <4> HIDE DEF c
      <4> QED
        BY <1>4, <3>1, CountToReaches
    <3> QED
      BY <3>2
  <2>3. PICK h \in 1 .. Len(ctl) : CallNumber(h, n - 1)
    BY <2>2 DEF CallNumber
  <2> QED
    BY <2>3, UpToFrameIs
<1>8. t \in Seq(Kinds) /\ (\A i \in 1 .. Len(t) : t[i] \notin {"call"})
  <2>1. F.path \in Seq(Operands \cup Blocks)
    BY <1>3 DEF TryFrames
  <2> DEFINE q == F.path
  <2>2. q \in Seq(Operands \cup Blocks)
    BY <2>1
  <2> HIDE DEF q, F
  <2>3. q \o <<"catch">> \in Seq(Operands \cup Blocks)
    <3>1. "catch" \in Operands \cup Blocks
      BY DEF Blocks
    <3> QED
      BY <2>2, <3>1
  <2>4. "call" \notin Operands \cup Blocks /\ Operands \cup Blocks \subseteq Kinds
    BY KindsAre
  <2> QED
    BY <2>3, <2>4 DEF q
<1>9. ctl' = SubSeq(ctl, 1, g) \o t
  <2> DEFINE a == SubSeq(ctl, 1, g)
             q == F.path
  <2>1. a \in Seq(Kinds)
    BY <1>4
  <2>2. q \in Seq(Operands \cup Blocks)
    BY <1>3 DEF TryFrames
  <2>3. ctl' = a \o q \o <<"catch">>
    BY <1>1, <1>7 DEF n
  <2>4. (a \o q) \o <<"catch">> = a \o (q \o <<"catch">>)
    <3> HIDE DEF a, q
    <3>1. <<"catch">> \in Seq(Blocks)
      BY DEF Blocks
    <3> QED
      BY <2>1, <2>2, <3>1, ConcatAssociative, SMTT(30)
  <2> QED
    BY <2>3, <2>4
<1> HIDE DEF t
<1>10. g \in 0 .. Len(ctl) /\ g \in Nat /\ g >= 1
  BY <1>4
<1>11. /\ ctl' \in Seq(Kinds) /\ Len(ctl') = g + Len(t)
       /\ \A i \in 1 .. g : ctl'[i] = ctl[i]
  BY <1>4, <1>8, <1>9, <1>10, EditIs
<1>12. Len(ctl') >= 1 /\ ctl'[1] = "call"
  <2>1. Len(t) \in Nat /\ 1 \in 1 .. g
    BY <1>8, <1>10
  <2> QED
    BY <1>5, <1>10, <1>11, <2>1 DEF Framed
<1>13. Count(ctl', {"call"}) = n - 1
  <2>1. Count(ctl', {"call"}) = CountTo(ctl, g, {"call"})
    BY <1>4, <1>8, <1>9, <1>10, EditCount
  <2> QED
    BY <1>7, <2>1 DEF CallNumber
<1>14. Framed'
  <2>1. n \in Nat /\ frame_ptr' = n
    BY <1>1, <1>4, <1>6 DEF n
  <2>2. frame_ptr' = 1 + Count(ctl', {"call"})
    BY <1>13, <2>1
  <2>3. Count(ctl, {"call"})' = Count(ctl', {"call"})
    BY DEF Count
  <2> QED
    BY <1>12, <2>2, <2>3 DEF Framed
<1>15. stack' \in Seq(Operands) /\ Len(stack') <= STACK_MAX
  <2> DEFINE x == Smaller(Len(s), F.stack_ptr)
  <2>1. x \in 0 .. Len(s)
    BY <1>3, <1>4 DEF Smaller, TryFrames
  <2>2. stack' = SubSeq(s, 1, x) /\ Len(stack') < STACK_MAX
    BY <1>1
  <2> HIDE DEF x
  <2>3. SubSeq(s, 1, x) \in Seq(Operands)
    BY <2>1
  <2>4. Len(stack') \in Nat
    BY <2>2, <2>3
  <2> QED
    BY <1>4, <2>2, <2>3, <2>4
<1>16. try_stack' \in Seq(TryFrames) /\ Len(try_stack') <= TRY_STACK_MAX
  <2> DEFINE r == SubSeq(try_stack, 1, Len(try_stack) - 1)
  <2>1. r \in Seq(TryFrames) /\ Len(r) = Len(try_stack) - 1
    <3>1. Len(try_stack) - 1 \in 0 .. Len(try_stack)
      BY <1>2
    <3> QED
      BY <1>2, <3>1, PrefixIs
  <2>2. try_stack' = r \o pushed
    BY <1>1 DEF Pop
  <2>3. Len(pushed) \in Nat /\ TRY_STACK_MAX \in Nat
    BY VMAssumption
  <2> HIDE DEF r
  <2>4. r \o pushed \in Seq(TryFrames) /\ Len(r \o pushed) = Len(r) + Len(pushed)
    BY <2>1
  <2> QED
    BY <1>2, <2>1, <2>2, <2>3, <2>4
<1>17. frame_ptr' \in 1 .. FRAMES_MAX /\ panic' \in BOOLEAN
  BY <1>1, <1>6 DEF n
<1>18. TypeOK'
  BY <1>1, <1>11, <1>15, <1>16, <1>17 DEF VInv, TypeOK, Kinds, TryFrames
<1> QED
  BY <1>1, <1>14, <1>18

-----------------------------------------------------------------------------
(* What every step keeps *)

\* The invariant; and in a tame program a catch block is entered only in place
\* of the innermost try block.
Kept ==
    /\ VInv'
    /\ Tame => \/ Caught
               \/ UNCHANGED ctl
               \/ \E m, t : Edits(m, t) /\ t # <<"catch">>

LEMMA EndsIsKept ==
    ASSUME VInv, NEW how \in {"error", "unhandled", "overflow", "underflow"}, Ends(how)
    PROVE  Kept
<1>1. VInv'
  BY EndsKeeps
<1>2. UNCHANGED ctl
  BY DEF Ends
<1> QED
  BY <1>1, <1>2 DEF Kept

LEMMA FollowsTypes ==
    ASSUME VInv, Running, NEW m, NEW t, Follows(m, t), t = <<"call">> => frame_ptr < FRAMES_MAX,
           stack' \in Seq(Operands), Len(stack') <= STACK_MAX,
           try_stack' \in Seq(TryFrames), Len(try_stack') <= TRY_STACK_MAX,
           panic' \in BOOLEAN, status' \in {"run", "halt"}
    PROVE  TypeOK'
<1>1. Edits(m, t) /\ FramesFollow(m, t)
  BY DEF Follows
<1>2. ctl' \in Seq(Kinds)
  BY <1>1, EditKeeps
<1>3. m \in 0 .. Len(ctl)
  BY <1>1, EditTypes
<1>4. CountTo(ctl, m, {"call"}) \in Nat /\ CountTo(ctl, m, {"call"}) <= Count(ctl, {"call"})
      /\ Count(ctl, {"call"}) \in Nat
  BY <1>3, CountWithin
<1>5. frame_ptr = 1 + Count(ctl, {"call"}) /\ frame_ptr <= FRAMES_MAX /\ FRAMES_MAX \in Nat
  BY VMAssumption DEF VInv, TypeOK, Framed
<1>6. frame_ptr' \in 1 .. FRAMES_MAX
  <2>1. CASE t = <<"call">>
    BY <1>1, <1>4, <1>5, <2>1 DEF FramesFollow
  <2>2. CASE t # <<"call">>
    BY <1>1, <1>4, <1>5, <2>2 DEF FramesFollow
  <2> QED
    BY <2>1, <2>2
<1> QED
  BY <1>2, <1>6 DEF TypeOK, Kinds, TryFrames

LEMMA FollowsIsKept ==
    ASSUME VInv, Running, NEW m, NEW t, Follows(m, t), t # <<"catch">>,
           t = <<"call">> => frame_ptr < FRAMES_MAX,
           stack' \in Seq(Operands), Len(stack') <= STACK_MAX,
           try_stack' \in Seq(TryFrames), Len(try_stack') <= TRY_STACK_MAX,
           panic' \in BOOLEAN, status' \in {"run", "halt"}
    PROVE  Kept
<1>1. TypeOK'
  BY FollowsTypes
<1>2. VInv'
  BY <1>1, FollowsKeeps
<1>3. Edits(m, t)
  BY DEF Follows
<1> QED
  BY <1>2, <1>3 DEF Kept

\* What is kept of the frames when no call is left, ...
LEMMA FramesStay ==
    ASSUME VInv, Running, NEW m \in 0 .. Len(ctl), \A i \in m + 1 .. Len(ctl) : ctl[i] # "call"
    PROVE  frame_ptr = CountTo(ctl, m, {"call"}) + 1
<1>1. m \in Nat /\ Len(ctl) \in Nat /\ m <= Len(ctl)
  BY TypesAre
<1>2. CountTo(ctl, m, {"call"}) = CountTo(ctl, Len(ctl), {"call"})
  BY <1>1, CountToMore
<1>3. Count(ctl, {"call"}) = CountTo(ctl, Len(ctl), {"call"}) /\ CountTo(ctl, m, {"call"}) \in Nat
  BY CountWithin
<1> QED
  BY <1>2, <1>3 DEF VInv, Framed

\* ... of the try frames when no try block is left, ...
LEMMA TriesStay ==
    ASSUME VInv, Running, Tame, NEW m \in 0 .. Len(ctl), NEW t, t # <<"try">>,
           \A i \in m + 1 .. Len(ctl) : ctl[i] # "try", UNCHANGED try_stack
    PROVE  TriesFollow(m, t)
<1>1. m \in Nat /\ Len(ctl) \in Nat /\ m <= Len(ctl)
  BY TypesAre
<1>2. CountTo(ctl, m, {"try"}) = CountTo(ctl, Len(ctl), {"try"})
  BY <1>1, CountToMore
<1>3. Count(ctl, {"try"}) = CountTo(ctl, Len(ctl), {"try"})
  BY CountWithin
<1>4. CountTo(ctl, m, {"try"}) = Len(try_stack)
  BY <1>2, <1>3 DEF VInv, Handled
<1>5. SubSeq(try_stack, 1, Len(try_stack)) = try_stack
  <2>1. try_stack \in Seq(TryFrames)
    BY DEF VInv, TypeOK, TryFrames
  <2> QED
    BY <2>1, WholeAsPrefix
<1> QED
  BY <1>4, <1>5 DEF TriesFollow

\* ... of the operands when what is left has none, ...
LEMMA OperandsStay ==
    ASSUME VInv, Running, Balanced, NEW m \in 0 .. Len(ctl),
           \A i \in m + 1 .. Len(ctl) : ctl[i] \notin Operands
    PROVE  SubSeq(stack, 1, CountTo(ctl, m, Operands)) = stack
<1>1. m \in Nat /\ Len(ctl) \in Nat /\ m <= Len(ctl)
  BY TypesAre
<1>2. CountTo(ctl, m, Operands) = CountTo(ctl, Len(ctl), Operands)
  BY <1>1, CountToMore
<1>3. Count(ctl, Operands) = CountTo(ctl, Len(ctl), Operands)
  BY CountWithin
<1>4. CountTo(ctl, m, Operands) = Len(stack)
  BY <1>2, <1>3 DEF VInv, Stacked
<1>5. SubSeq(stack, 1, Len(stack)) = stack
  BY TypesAre, WholeAsPrefix
<1> QED
  BY <1>4, <1>5

\* ... and when it is n operands.
LEMMA OperandsPopped ==
    ASSUME VInv, Running, Balanced, NEW n \in 0 .. Len(ctl),
           \A i \in Len(ctl) - n + 1 .. Len(ctl) : ctl[i] \in Operands
    PROVE  /\ n \in 0 .. Len(stack)
           /\ SubSeq(stack, 1, CountTo(ctl, Len(ctl) - n, Operands)) = Pop(stack, n)
<1> DEFINE m == Len(ctl) - n
<1>1. m \in Nat /\ Len(ctl) \in Nat /\ m <= Len(ctl) /\ Len(ctl) - m = n /\ m \in 0 .. Len(ctl)
      /\ n \in Nat
  BY TypesAre
<1>2. \A i \in m + 1 .. Len(ctl) : ctl[i] \in Operands
  OBVIOUS
<1> HIDE DEF m
<1>3. CountTo(ctl, Len(ctl), Operands) = CountTo(ctl, m, Operands) + (Len(ctl) - m)
  BY <1>1, <1>2, CountToMore
<1>4. Count(ctl, Operands) = CountTo(ctl, Len(ctl), Operands) /\ CountTo(ctl, m, Operands) \in Nat
  BY <1>1, CountWithin
<1>5. Len(stack) = CountTo(ctl, m, Operands) + n
  BY <1>1, <1>3, <1>4 DEF VInv, Stacked
<1>6. CountTo(ctl, m, Operands) = Len(stack) - n /\ n \in 0 .. Len(stack)
  BY <1>1, <1>4, <1>5
<1> QED
  BY <1>6 DEF Pop, m

LEMMA UnwindIsKept ==
    ASSUME VInv, Running, try_stack # <<>>, NEW n \in 0 .. Len(stack), NEW p \in BOOLEAN,
           NEW pushed \in Seq(TryFrames), Len(pushed) <= 1,
           Unwind(SubSeq(stack, 1, n), p, pushed),
           Tame => pushed = <<>>,
           Balanced => p = FALSE /\ n >= Last(try_stack).stack_ptr
    PROVE  Kept
<1>1. CASE Ends("overflow")
  BY <1>1, EndsIsKept
<1>2. CASE ~ Ends("overflow")
  <2>1. SubSeq(stack, 1, n) \in Seq(Operands)
    BY TypesAre, PrefixIs
  <2>2. TypeOK' /\ Framed' /\ UNCHANGED <<features, status>>
    BY <1>2, <2>1, UnwindFrames
  <2>3. features' \in Programs /\ Tame' = Tame /\ Balanced' = Balanced
    BY <2>2 DEF VInv, Tame, Balanced
  <2>4. CASE ~ Tame
    <3>1. VInv'
      BY <2>2, <2>3, <2>4, BalancedIsTame DEF VInv
    <3> QED
      BY <2>4, <3>1 DEF Kept
  <2>5. CASE Tame
    <3>1. Unwind(SubSeq(stack, 1, n), p, <<>>)
      BY <2>5
    <3>2. Caught /\ \E m : Follows(m, <<"catch">>)
      BY <1>2, <2>5, <3>1, UnwindFollows
    <3>3. VInv'
      BY <2>2, <3>2, FollowsKeeps
    <3> QED
      BY <3>2, <3>3 DEF Kept
  <2> QED
    BY <2>4, <2>5
<1> QED
  BY <1>1, <1>2

\* The handler finds the operands it expects still there, also after the
\* thrown value is taken off.
LEMMA HandlerBelow ==
    ASSUME VInv, Running, Balanced, try_stack # <<>>
    PROVE  LET F == Last(try_stack)
           IN /\ F.stack_ptr \in Nat /\ F.stack_ptr <= Len(stack)
              /\ ctl[Len(ctl)] \in Operands => F.stack_ptr <= Len(stack) - 1
<1> DEFINE i == LastIndex(ctl, {"try"})
           F == Last(try_stack)
<1>1. /\ i \in 2 .. Len(ctl) /\ ctl[i] = "try"
      /\ CountTo(ctl, i, {"try"}) = Len(try_stack)
      /\ F = try_stack[Len(try_stack)]
  BY BalancedIsTame, InnermostTry
<1> HIDE DEF i, F
<1>2. Len(ctl) \in Nat /\ i \in Nat /\ i \in 1 .. Len(ctl) /\ i \in 0 .. Len(ctl)
  BY <1>1, TypesAre
<1>3. Stacked
  BY DEF VInv
<1>4. F.stack_ptr = CountTo(ctl, i, Operands)
  BY <1>1, <1>2, <1>3 DEF Stacked
<1>5. /\ CountTo(ctl, i, Operands) \in Nat /\ CountTo(ctl, i, Operands) <= Count(ctl, Operands)
      /\ Count(ctl, Operands) = CountTo(ctl, Len(ctl), Operands)
      /\ Count(ctl, Operands) \in Nat
  BY <1>2, CountWithin
<1>6. Len(stack) = Count(ctl, Operands)
  BY <1>3 DEF Stacked
<1>7. ASSUME ctl[Len(ctl)] \in Operands
      PROVE  F.stack_ptr <= Len(stack) - 1
  <2>1. i # Len(ctl)
    BY <1>1, <1>7, KindsAre
  <2>2. i <= Len(ctl) /\ \E j \in i + 1 .. Len(ctl) : ctl[j] \in Operands
    <3>1. Len(ctl) \in i + 1 .. Len(ctl)
      BY <1>2, <2>1
    <3> QED
      BY <1>2, <1>7, <3>1
  <2>3. CountTo(ctl, i, Operands) < CountTo(ctl, Len(ctl), Operands)
    BY <1>2, <2>2, CountToMore
  <2> QED
    BY <1>4, <1>5, <1>6, <2>3
<1> QED
  BY <1>4, <1>5, <1>6, <1>7 DEF F

LEMMA RuntimeErrorIsKept ==
    ASSUME VInv, Running, NEW p \in BOOLEAN, RuntimeError(p), Balanced => p = FALSE
    PROVE  Kept
<1>1. CASE try_stack = <<>>
  <2>1. Ends("error")
    BY <1>1 DEF RuntimeError
  <2> QED
    BY <2>1, EndsIsKept
<1>2. CASE try_stack # <<>>
  <2>1. Unwind(stack, p, <<>>)
    BY <1>2 DEF RuntimeError
  <2>2. SubSeq(stack, 1, Len(stack)) = stack /\ Len(stack) \in 0 .. Len(stack)
        /\ Len(stack) \in Nat
    BY TypesAre, WholeAsPrefix
  <2>3. Unwind(SubSeq(stack, 1, Len(stack)), p, <<>>)
    BY <2>1, <2>2
  <2>4. <<>> \in Seq(TryFrames) /\ Len(<<>>) <= 1
    OBVIOUS
  <2>5. Balanced => p = FALSE /\ Len(stack) >= Last(try_stack).stack_ptr
    BY <1>2, <2>2, HandlerBelow
  <2> QED
    BY <1>2, <2>2, <2>3, <2>4, <2>5, UnwindIsKept
<1> QED
  BY <1>1, <1>2

LEMMA OpErrorIsKept ==
    ASSUME VInv, OpError
    PROVE  Kept
BY RuntimeErrorIsKept DEF OpError, Balanced

LEMMA NativeErrorIsKept ==
    ASSUME VInv, NativeError
    PROVE  Kept
BY RuntimeErrorIsKept DEF NativeError

\* The newest operands are values.
LEMMA HasArgsIs ==
    ASSUME VInv, NEW n \in Nat, HasArgs(n)
    PROVE  /\ n \in 0 .. Len(ctl) /\ Len(ctl) - n \in 0 .. Len(ctl)
           /\ \A i \in Len(ctl) - n + 1 .. Len(ctl) :
                 /\ ctl[i] \in Values
                 /\ ctl[i] \in Operands /\ ctl[i] # "call" /\ ctl[i] # "try"
           /\ Running => Len(ctl) - n >= 1
<1>1. Len(ctl) \in Nat
  BY TypesAre
<1>2. n <= Len(ctl) /\ \A i \in Len(ctl) - n + 1 .. Len(ctl) : ctl[i] \in Values
  BY DEF HasArgs, Values
<1>3. \A k \in Values : k \in Operands /\ k # "call" /\ k # "try"
  BY DEF Values, Operands
<1>4. Running => Len(ctl) - n >= 1
  <2> SUFFICES ASSUME Running, ~ (Len(ctl) - n >= 1)
               PROVE  FALSE
    OBVIOUS
  <2>1. ctl[1] = "call" /\ Len(ctl) >= 1
    BY DEF VInv, Framed
  <2>2. 1 \in Len(ctl) - n + 1 .. Len(ctl)
    BY <1>1, <1>2, <2>1
  <2> QED
    BY <1>2, <1>3, <2>1, <2>2
<1> QED
  BY <1>1, <1>2, <1>3, <1>4

LEMMA ThrowIsKept ==
    ASSUME VInv, Throw
    PROVE  Kept
<1>1. Running /\ HasArgs(1)
  BY DEF Throw
<1>2. CASE try_stack = <<>>
  <2>1. Ends("unhandled")
    BY <1>2 DEF Throw
  <2> QED
    BY <2>1, EndsIsKept
<1>3. CASE try_stack # <<>> /\ stack = <<>>
  <2>1. Ends("underflow")
    BY <1>3 DEF Throw
  <2> QED
    BY <2>1, EndsIsKept
<1>4. CASE try_stack # <<>> /\ stack # <<>>
  <2>1. Unwind(Pop(stack, 1), panic, <<>>)
    BY <1>4 DEF Throw
  <2>2. stack \in Seq(Operands) /\ Len(stack) \in Nat /\ Len(ctl) \in Nat
    BY TypesAre
  <2>3. Len(stack) - 1 \in 0 .. Len(stack)
    BY <1>4, <2>2
  <2>4. Unwind(SubSeq(stack, 1, Len(stack) - 1), panic, <<>>)
    BY <2>1 DEF Pop
  <2>5. <<>> \in Seq(TryFrames) /\ Len(<<>>) <= 1
    OBVIOUS
  <2>6. Balanced => panic = FALSE
    BY <1>1 DEF VInv, Stacked
  <2>7. Balanced => Len(stack) - 1 >= Last(try_stack).stack_ptr
    <3>1. ctl[Len(ctl)] \in Operands
      <4>1. Len(ctl) \in Len(ctl) - 1 + 1 .. Len(ctl)
        BY <2>2
      <4> QED
        BY <1>1, <4>1, HasArgsIs
    <3> QED
      BY <1>1, <1>4, <2>2, <3>1, HandlerBelow
  <2>8. panic \in BOOLEAN
    BY DEF VInv, TypeOK
  <2> QED
    BY <1>1, <1>4, <2>3, <2>4, <2>5, <2>6, <2>7, <2>8, UnwindIsKept
<1> QED
  BY <1>2, <1>3, <1>4

-----------------------------------------------------------------------------
(* Expressions *)

\* A step that takes n operands of the expression and opens t.
LEMMA ArgsFollow ==
    ASSUME VInv, Running, NEW n \in Nat, HasArgs(n),
           NEW t, t = <<>> \/ \E k \in Kinds : t = <<k>>, t # <<"try">>,
           ctl' = SubSeq(ctl, 1, Len(ctl) - n) \o t,
           frame_ptr' = frame_ptr + IF t = <<"call">> THEN 1 ELSE 0,
           UNCHANGED <<features, try_stack>>,
           Balanced => OperandsFollow(Len(ctl) - n, t)
    PROVE  Follows(Len(ctl) - n, t)
<1> DEFINE m == Len(ctl) - n
<1>1. /\ m \in 0 .. Len(ctl) /\ m >= 1
      /\ \A i \in m + 1 .. Len(ctl) : ctl[i] # "call" /\ ctl[i] # "try"
  BY HasArgsIs
<1>2. Edits(m, t)
  BY <1>1 DEF Edits
<1> HIDE DEF m
<1>3. frame_ptr = CountTo(ctl, m, {"call"}) + 1 /\ CountTo(ctl, m, {"call"}) \in Nat
  BY <1>1, FramesStay, CountWithin
<1>4. FramesFollow(m, t)
  BY <1>3 DEF FramesFollow
<1>5. Tame => TriesFollow(m, t)
  BY <1>1, TriesStay
<1> QED
  BY <1>2, <1>4, <1>5 DEF Follows, m

\* What OperandsFollow asks of such a step.
LEMMA ArgsOperands ==
    ASSUME VInv, Running, Balanced, NEW n \in Nat, HasArgs(n),
           NEW t, t = <<>> \/ \E k \in Kinds : t = <<k>>, t # <<"try">>,
           t # <<>> /\ t[1] \notin Values \cup {"call"} => ctl[Len(ctl) - n] \notin Values,
           panic' = FALSE,
           \/ t # <<>> /\ t[1] \in Operands /\ stack' = Append(Pop(stack, n), t[1])
           \/ (t = <<>> \/ t[1] \notin Operands) /\ stack' = Pop(stack, n)
    PROVE  OperandsFollow(Len(ctl) - n, t) /\ n \in 0 .. Len(stack)
<1>1. n \in 0 .. Len(ctl) /\ \A i \in Len(ctl) - n + 1 .. Len(ctl) : ctl[i] \in Operands
  BY HasArgsIs
<1>2. n \in 0 .. Len(stack)
      /\ SubSeq(stack, 1, CountTo(ctl, Len(ctl) - n, Operands)) = Pop(stack, n)
  BY <1>1, OperandsPopped
<1> QED
  BY <1>2 DEF OperandsFollow

LEMMA NoArgs ==
    ASSUME VInv
    PROVE  HasArgs(0) /\ Len(ctl) - 0 = Len(ctl) /\ Pop(stack, 0) = stack /\ Pop(ctl, 0) = ctl
<1>1. Len(ctl) \in Nat /\ Len(stack) \in Nat /\ ctl \in Seq(Kinds) /\ stack \in Seq(Operands)
  BY TypesAre
<1>2. SubSeq(ctl, 1, Len(ctl)) = ctl /\ SubSeq(stack, 1, Len(stack)) = stack
  BY <1>1, WholeAsPrefix
<1>3. Len(ctl) - 0 = Len(ctl) /\ Len(stack) - 0 = Len(stack)
  BY <1>1
<1>4. HasArgs(0)
  BY <1>1 DEF HasArgs
<1> QED
  BY <1>2, <1>3, <1>4 DEF Pop

\* Types of the operand stack after a step that takes n and puts k.
LEMMA PopAppendTypes ==
    ASSUME VInv, NEW n \in 0 .. Len(stack), NEW k \in Operands
    PROVE  /\ Pop(stack, n) \in Seq(Operands) /\ Len(Pop(stack, n)) = Len(stack) - n
           /\ Len(Pop(stack, n)) <= STACK_MAX
           /\ Append(Pop(stack, n), k) \in Seq(Operands)
           /\ Len(Append(Pop(stack, n), k)) = Len(stack) - n + 1
<1>1. stack \in Seq(Operands) /\ Len(stack) \in Nat /\ Len(stack) <= STACK_MAX /\ STACK_MAX \in Nat
      /\ n \in Nat
  BY TypesAre, VMAssumption DEF VInv, TypeOK
<1> DEFINE p == Pop(stack, n)
<1>2. Len(stack) - n \in 0 .. Len(stack)
  BY <1>1
<1>3. p \in Seq(Operands) /\ Len(p) = Len(stack) - n
  BY <1>1, <1>2, PrefixIs DEF Pop
<1> HIDE DEF p
<1>4. Append(p, k) \in Seq(Operands) /\ Len(Append(p, k)) = Len(p) + 1
  BY <1>3
<1>5. Len(p) <= STACK_MAX
  BY <1>1, <1>3
<1> QED
  BY <1>3, <1>4, <1>5 DEF p

LEMMA SameTypes ==
    ASSUME VInv
    PROVE  /\ stack \in Seq(Operands) /\ Len(stack) \in Nat /\ Len(stack) <= STACK_MAX
           /\ try_stack \in Seq(TryFrames) /\ Len(try_stack) <= TRY_STACK_MAX
           /\ panic \in BOOLEAN /\ STACK_MAX \in Nat /\ Len(try_stack) \in Nat
           /\ frame_ptr \in Nat /\ frame_ptr + 0 = frame_ptr
           /\ Balanced /\ Running => panic = FALSE
<1>1. stack \in Seq(Operands) /\ try_stack \in Seq(TryFrames)
  BY DEF VInv, TypeOK, TryFrames
<1>2. Len(stack) \in Nat /\ Len(try_stack) \in Nat
  BY <1>1
<1>3. Balanced /\ Running => panic = FALSE
  BY DEF VInv, Stacked
<1>4. frame_ptr \in Nat
  BY TypesAre
<1>5. frame_ptr + 0 = frame_ptr
  BY <1>4
<1> QED
  BY <1>1, <1>2, <1>3, <1>4, <1>5, VMAssumption DEF VInv, TypeOK

\* Every action but the last leaves status as it is, or ends.
LEMMA StillRunning == Running /\ UNCHANGED status => status' \in {"run", "halt"}
BY DEF Running

LEMMA PushIsKept ==
    ASSUME VInv, Push
    PROVE  Kept
<1>1. Running
  BY DEF Push
<1>2. CASE Len(stack) >= STACK_MAX
  <2>1. Ends("overflow")
    BY <1>2 DEF Push
  <2> QED
    BY <2>1, EndsIsKept
<1>3. CASE ~ (Len(stack) >= STACK_MAX)
  <2> DEFINE t == <<"temp">>
  <2>1. /\ stack' = Append(stack, "temp")
        /\ ctl' = Append(ctl, "temp")
        /\ UNCHANGED <<features, frame_ptr, try_stack, panic, status>>
    BY <1>3 DEF Push
  <2>2. /\ "temp" \in Kinds /\ "temp" \in Operands /\ "temp" \in Values
        /\ t # <<"call">> /\ t # <<"try">> /\ t # <<"catch">> /\ t # <<>> /\ t[1] = "temp"
    BY DEF Kinds, Operands, Values
  <2>3. Append(SubSeq(ctl, 1, Len(ctl)), "temp") = SubSeq(ctl, 1, Len(ctl)) \o t
    BY <2>2, TypesAre, AppendAsEdit
  <2>4. ctl' = SubSeq(ctl, 1, Len(ctl) - 0) \o t
    BY <2>1, <2>3, TypesAre, WholeAsPrefix, NoArgs
  <2> HIDE DEF t
  <2>5. Balanced => OperandsFollow(Len(ctl) - 0, t)
    BY <1>1, <2>1, <2>2, NoArgs, SameTypes, ArgsOperands DEF t
  <2>6. frame_ptr' = frame_ptr + IF t = <<"call">> THEN 1 ELSE 0
    BY <2>1, <2>2, SameTypes
  <2>7. Follows(Len(ctl) - 0, t)
    <3>1. t = <<>> \/ \E k \in Kinds : t = <<k>>
      BY <2>2 DEF t
    <3> QED
      BY <1>1, <2>1, <2>2, <2>4, <2>5, <2>6, <3>1, NoArgs, ArgsFollow
  <2>8. stack' \in Seq(Operands) /\ Len(stack') <= STACK_MAX
    <3>1. 0 \in 0 .. Len(stack)
      BY SameTypes
    <3>2. stack' = Append(Pop(stack, 0), "temp")
      BY <2>1, NoArgs
    <3>3. stack' \in Seq(Operands) /\ Len(stack') = Len(stack) - 0 + 1
      BY <2>2, <3>1, <3>2, PopAppendTypes
    <3> QED
      BY <1>3, <3>3, SameTypes
  <2> QED
    BY <1>1, <2>1, <2>2, <2>7, <2>8, SameTypes, StillRunning, FollowsIsKept
<1> QED
  BY <1>2, <1>3

LEMMA DropIsKept ==
    ASSUME VInv, Drop
    PROVE  Kept
<1>1. Running /\ HasArgs(1) /\ 1 \in Nat
  BY DEF Drop
<1>2. CASE stack = <<>>
  <2>1. Ends("underflow")
    BY <1>2 DEF Drop
  <2> QED
    BY <2>1, EndsIsKept
<1>3. CASE stack # <<>>
  <2>1. /\ stack' = Pop(stack, 1)
        /\ ctl' = Pop(ctl, 1)
        /\ UNCHANGED <<features, frame_ptr, try_stack, panic, status>>
    BY <1>3 DEF Drop
  <2>2. <<>> # <<"call">> /\ <<>> # <<"try">> /\ <<>> # <<"catch">>
    OBVIOUS
  <2>3. ctl' = SubSeq(ctl, 1, Len(ctl) - 1) \o <<>>
    BY <1>1, <2>1, HasArgsIs, TypesAre, PrefixAsEdit
  <2>4. Balanced => OperandsFollow(Len(ctl) - 1, <<>>)
    BY <1>1, <2>1, <2>2, SameTypes, ArgsOperands
  <2>5. frame_ptr' = frame_ptr + IF <<>> = <<"call">> THEN 1 ELSE 0
    BY <2>1, <2>2, SameTypes
  <2>6. Follows(Len(ctl) - 1, <<>>)
    BY <1>1, <2>1, <2>2, <2>3, <2>4, <2>5, ArgsFollow
  <2>7. stack' \in Seq(Operands) /\ Len(stack') <= STACK_MAX
    <3>1. 1 \in 0 .. Len(stack)
      BY <1>3, SameTypes
    <3>2. "temp" \in Operands
      BY DEF Operands
    <3> QED
      BY <2>1, <3>1, <3>2, PopAppendTypes
  <2> QED
    BY <1>1, <2>1, <2>2, <2>6, <2>7, SameTypes, StillRunning, FollowsIsKept
<1> QED
  BY <1>2, <1>3

LEMMA ForgetIsKept ==
    ASSUME VInv, Forget
    PROVE  Kept
<1>1. /\ Running /\ HasArgs(1) /\ 1 \in Nat /\ ~ Balanced
      /\ ctl' = Pop(ctl, 1)
      /\ UNCHANGED <<features, frame_ptr, stack, try_stack, panic, status>>
  BY DEF Forget, HasValue, Balanced
<1>2. <<>> # <<"call">> /\ <<>> # <<"try">> /\ <<>> # <<"catch">>
  OBVIOUS
<1>3. ctl' = SubSeq(ctl, 1, Len(ctl) - 1) \o <<>>
  BY <1>1, HasArgsIs, TypesAre, PrefixAsEdit
<1>4. frame_ptr' = frame_ptr + IF <<>> = <<"call">> THEN 1 ELSE 0
  BY <1>1, <1>2, SameTypes
<1>5. Follows(Len(ctl) - 1, <<>>)
  BY <1>1, <1>2, <1>3, <1>4, ArgsFollow
<1> QED
  BY <1>1, <1>2, <1>5, SameTypes, StillRunning, FollowsIsKept

LEMMA InvokeIsKept ==
    ASSUME VInv, NEW n \in Nat, NEW void \in BOOLEAN, Invoke(n, void)
    PROVE  Kept
<1>1. Running /\ HasArgs(n) /\ (void => ~ Balanced)
  BY DEF Invoke, Balanced
<1>2. CASE Len(stack) >= STACK_MAX
  <2>1. Ends("overflow")
    BY <1>2 DEF Invoke
  <2> QED
    BY <2>1, EndsIsKept
<1>3. CASE ~ (Len(stack) >= STACK_MAX) /\ Len(stack) < n
  <2>1. Ends("underflow")
    BY <1>3 DEF Invoke
  <2> QED
    BY <2>1, EndsIsKept
<1>4. CASE ~ (Len(stack) >= STACK_MAX) /\ ~ (Len(stack) < n)
  <2> DEFINE t == IF void THEN <<>> ELSE <<"result">>
  <2>1. /\ stack' = IF panic THEN stack ELSE Append(Pop(stack, n), "result")
        /\ ctl' = IF void THEN Pop(ctl, n) ELSE Append(Pop(ctl, n), "result")
        /\ panic' = FALSE
        /\ UNCHANGED <<features, frame_ptr, try_stack, status>>
    BY <1>4 DEF Invoke
  <2>2. /\ "result" \in Kinds /\ "result" \in Operands /\ "result" \in Values
        /\ t # <<"call">> /\ t # <<"try">> /\ t # <<"catch">>
        /\ ~ void => t # <<>> /\ t[1] = "result"
        /\ void => t = <<>>
        /\ t = <<>> \/ \E k \in Kinds : t = <<k>>
    BY DEF Kinds, Operands, Values
  <2>3. n \in 0 .. Len(ctl) /\ Len(ctl) - n \in 0 .. Len(ctl)
    BY <1>1, HasArgsIs
  <2>4. ctl' = SubSeq(ctl, 1, Len(ctl) - n) \o t
    <3>1. Pop(ctl, n) = SubSeq(ctl, 1, Len(ctl) - n) \o <<>>
      BY <2>3, TypesAre, PrefixAsEdit
    <3>2. Append(SubSeq(ctl, 1, Len(ctl) - n), "result")
            = SubSeq(ctl, 1, Len(ctl) - n) \o <<"result">>
      BY <2>2, <2>3, TypesAre, AppendAsEdit
    <3> QED
      BY <2>1, <3>1, <3>2 DEF Pop
  <2> HIDE DEF t
  <2>5. Balanced => OperandsFollow(Len(ctl) - n, t)
    <3> SUFFICES ASSUME Balanced
                 PROVE  OperandsFollow(Len(ctl) - n, t)
      OBVIOUS
    <3>1. stack' = Append(Pop(stack, n), t[1]) /\ t # <<>> /\ t[1] \in Operands
          /\ t[1] \in Values \cup {"call"}
      BY <1>1, <2>1, <2>2, SameTypes
    <3> QED
      BY <1>1, <2>1, <2>2, <3>1, ArgsOperands
  <2>6. frame_ptr' = frame_ptr + IF t = <<"call">> THEN 1 ELSE 0
    BY <2>1, <2>2, SameTypes
  <2>7. Follows(Len(ctl) - n, t)
    BY <1>1, <2>1, <2>2, <2>4, <2>5, <2>6, ArgsFollow
  <2>8. stack' \in Seq(Operands) /\ Len(stack') <= STACK_MAX
    <3>1. CASE panic
      BY <2>1, <3>1, SameTypes
    <3>2. CASE ~ panic
      <4>1. n \in 0 .. Len(stack)
        BY <1>4, SameTypes
      <4>2. stack' \in Seq(Operands) /\ Len(stack') = Len(stack) - n + 1
        BY <2>1, <2>2, <3>2, <4>1, PopAppendTypes
      <4> QED
        BY <1>4, <4>1, <4>2, SameTypes
    <3> QED
      BY <3>1, <3>2
  <2> QED
    BY <1>1, <2>1, <2>2, <2>7, <2>8, SameTypes, StillRunning, FollowsIsKept
<1> QED
  BY <1>2, <1>3, <1>4

LEMMA CallIsKept ==
    ASSUME VInv, NEW n \in Nat, Call(n)
    PROVE  Kept
<1>1. Running /\ HasArgs(n)
  BY DEF Call
<1>2. CASE frame_ptr >= FRAMES_MAX
  <2>1. RuntimeError(TRUE) /\ ~ Balanced
    BY <1>2 DEF Call, Balanced
  <2> QED
    BY <1>1, <2>1, RuntimeErrorIsKept
<1>3. CASE ~ (frame_ptr >= FRAMES_MAX) /\ Len(stack) < n
  <2>1. Ends("underflow")
    BY <1>3 DEF Call
  <2> QED
    BY <2>1, EndsIsKept
<1>4. CASE ~ (frame_ptr >= FRAMES_MAX) /\ ~ (Len(stack) < n)
  <2> DEFINE t == <<"call">>
  <2>1. /\ frame_ptr' = frame_ptr + 1
        /\ ctl' = Append(Pop(ctl, n), "call")
        /\ stack' = Pop(stack, n)
        /\ UNCHANGED <<features, try_stack, panic, status>>
    BY <1>4 DEF Call
  <2>2. /\ "call" \in Kinds /\ "call" \notin Operands
        /\ t # <<"try">> /\ t # <<"catch">> /\ t # <<>> /\ t[1] = "call"
    BY KindsAre
  <2>3. n \in 0 .. Len(ctl) /\ Len(ctl) - n \in 0 .. Len(ctl)
    BY <1>1, HasArgsIs
  <2>4. ctl' = SubSeq(ctl, 1, Len(ctl) - n) \o t
    <3>1. Append(SubSeq(ctl, 1, Len(ctl) - n), "call")
            = SubSeq(ctl, 1, Len(ctl) - n) \o <<"call">>
      BY <2>2, <2>3, TypesAre, AppendAsEdit
    <3> QED
      BY <2>1, <3>1 DEF Pop
  <2>5. Balanced => OperandsFollow(Len(ctl) - n, t)
    <3>1. t = <<>> \/ \E k \in Kinds : t = <<k>>
      BY <2>2
    <3>2. t[1] \in Values \cup {"call"}
      BY <2>2
    <3> HIDE DEF t
    <3> QED
      BY <1>1, <2>1, <2>2, <3>1, <3>2, SameTypes, ArgsOperands
  <2>6. Follows(Len(ctl) - n, t)
    <3>1. t = <<>> \/ \E k \in Kinds : t = <<k>>
      BY <2>2
    <3>2. frame_ptr' = frame_ptr + IF t = <<"call">> THEN 1 ELSE 0
      BY <2>1
    <3> HIDE DEF t
    <3> QED
      BY <1>1, <2>1, <2>2, <2>4, <2>5, <3>1, <3>2, ArgsFollow
  <2>7. stack' \in Seq(Operands) /\ Len(stack') <= STACK_MAX
    <3>1. n \in 0 .. Len(stack)
      BY <1>4, SameTypes
    <3>2. "temp" \in Operands
      BY DEF Operands
    <3> QED
      BY <2>1, <3>1, <3>2, PopAppendTypes
  <2>8. frame_ptr < FRAMES_MAX
    BY <1>4, SameTypes, VMAssumption
  <2> HIDE DEF t
  <2> QED
    BY <1>1, <2>1, <2>2, <2>6, <2>7, <2>8, SameTypes, StillRunning, FollowsIsKept
<1> QED
  BY <1>2, <1>3, <1>4

-----------------------------------------------------------------------------
(* Returns *)

\* The call that the machine is in.
LEMMA LastCallIs ==
    ASSUME VInv, Running
    PROVE  LET l == LastIndex(ctl, {"call"})
           IN /\ l \in 1 .. Len(ctl) /\ l \in Nat /\ l - 1 \in Nat /\ l - 1 \in 0 .. Len(ctl)
              /\ ctl[l] = "call"
              /\ \A i \in l + 1 .. Len(ctl) : ctl[i] # "call"
              /\ frame_ptr = CountTo(ctl, l - 1, {"call"}) + 2
              /\ CountTo(ctl, l - 1, {"call"}) \in Nat
              /\ frame_ptr # 2 => l - 1 >= 1
<1> DEFINE l == LastIndex(ctl, {"call"})
<1>1. ctl \in Seq(Kinds) /\ Len(ctl) \in Nat
  BY TypesAre
<1>2. /\ l \in 0 .. Len(ctl)
      /\ l # 0 => ctl[l] \in {"call"}
      /\ \A i \in l + 1 .. Len(ctl) : ctl[i] \notin {"call"}
  BY <1>1, LastIndexIs
<1> HIDE DEF l
<1>3. Len(ctl) >= 1 /\ ctl[1] = "call"
  BY DEF VInv, Framed
<1>4. l # 0
  <2> SUFFICES ASSUME l = 0 PROVE FALSE
    OBVIOUS
  <2>1. 1 \in l + 1 .. Len(ctl)
    BY <1>1, <1>3
  <2> QED
    BY <1>2, <1>3, <2>1
<1>5. /\ l \in 1 .. Len(ctl) /\ l \in Nat /\ l - 1 \in Nat /\ l - 1 \in 0 .. Len(ctl)
      /\ l \in 0 .. Len(ctl) /\ (l - 1) + 1 = l
  BY <1>1, <1>2, <1>4
<1>6. frame_ptr = CountTo(ctl, l, {"call"}) + 1
  BY <1>2, <1>5, FramesStay
<1>7. CountTo(ctl, (l - 1) + 1, {"call"}) = CountTo(ctl, l - 1, {"call"}) + 1
  BY <1>2, <1>4, <1>5, CountToNext
<1>8. CountTo(ctl, l - 1, {"call"}) \in Nat
  BY <1>5, CountToNat
<1>9. frame_ptr = CountTo(ctl, l - 1, {"call"}) + 2
  BY <1>5, <1>6, <1>7, <1>8
<1>10. frame_ptr # 2 => l - 1 >= 1
  <2> SUFFICES ASSUME ~ (l - 1 >= 1)
               PROVE  frame_ptr = 2
    OBVIOUS
  <2>1. l - 1 = 0
    BY <1>5
  <2>2. CountTo(ctl, l - 1, {"call"}) = 0
    BY <2>1, CountToZero
  <2> QED
    BY <1>9, <2>2
<1> QED
  BY <1>2, <1>4, <1>5, <1>8, <1>9, <1>10 DEF l

LEMMA LeaveFollows ==
    ASSUME VInv, Running, NEW left, left = <<>> \/ \E k \in Operands : left = <<k>>,
           NEW pushed, Leave(left, pushed),
           Tame => \A i \in LastIndex(ctl, {"call"}) + 1 .. Len(ctl) : ctl[i] # "try",
           Balanced => OperandsFollow(LastIndex(ctl, {"call"}) - 1, left)
    PROVE  /\ Follows(LastIndex(ctl, {"call"}) - 1, left)
           /\ left # <<"call">> /\ left # <<"try">> /\ left # <<"catch">>
           /\ status' \in {"run", "halt"}
<1> DEFINE l == LastIndex(ctl, {"call"})
           m == l - 1
<1>1. /\ l \in 1 .. Len(ctl) /\ l \in Nat /\ m \in Nat /\ m \in 0 .. Len(ctl)
      /\ ctl[l] = "call"
      /\ frame_ptr = CountTo(ctl, m, {"call"}) + 2
      /\ CountTo(ctl, m, {"call"}) \in Nat
      /\ frame_ptr # 2 => m >= 1
  BY LastCallIs
<1>2. /\ frame_ptr' = frame_ptr - 1
      /\ ctl' = SubSeq(ctl, 1, m) \o left
      /\ status' = IF frame_ptr = 2 THEN "halt" ELSE "run"
      /\ UNCHANGED <<features, try_stack, panic>>
  BY DEF Leave
<1>3. /\ left = <<>> \/ \E k \in Kinds : left = <<k>>
      /\ left # <<"call">> /\ left # <<"try">> /\ left # <<"catch">>
  BY KindsAre
<1>4. Running' => m >= 1
  BY <1>1, <1>2 DEF Running
<1>5. Edits(m, left)
  BY <1>1, <1>2, <1>3, <1>4 DEF Edits
<1>6. Tame => TriesFollow(m, left)
  <2> SUFFICES ASSUME Tame
               PROVE  TriesFollow(m, left)
    OBVIOUS
  <2>1. \A i \in m + 1 .. Len(ctl) : ctl[i] # "try"
    <3> TAKE i \in m + 1 .. Len(ctl)
    <3>1. i = l \/ i \in l + 1 .. Len(ctl)
      <4> HIDE DEF l
      <4> QED
        BY <1>1, TypesAre
    <3> QED
      BY <1>1, <3>1
  <2> HIDE DEF m
  <2> QED
    BY <1>1, <1>2, <1>3, <2>1, TriesStay
<1> HIDE DEF l
<1>7. frame_ptr' = CountTo(ctl, m, {"call"}) + 1
  BY <1>1, <1>2
<1>8. FramesFollow(m, left)
  BY <1>3, <1>7 DEF FramesFollow
<1>9. Follows(m, left)
  BY <1>2, <1>5, <1>6, <1>8 DEF Follows, l
<1> QED
  BY <1>2, <1>3, <1>9 DEF l

\* In the running function nothing but values follows a value.
LEMMA ValuesRun ==
    ASSUME VInv, Running, Balanced,
           NEW j \in LastIndex(ctl, {"call"}) + 1 .. Len(ctl), ctl[j] \in Values
    PROVE  \A x \in j .. Len(ctl) : ctl[x] \in Values
<1> DEFINE l == LastIndex(ctl, {"call"})
           D == {x \in Nat : j <= x /\ x <= Len(ctl) /\ ctl[x] \notin Values}
<1>1. l \in Nat /\ Len(ctl) \in Nat /\ \A i \in l + 1 .. Len(ctl) : ctl[i] # "call"
  BY LastCallIs, TypesAre
<1> HIDE DEF l
<1>2. j \in l + 1 .. Len(ctl)
  BY DEF l
<1>3. SUFFICES ASSUME D # {} PROVE FALSE
  <2>1. D = {}
    BY <1>3
  <2>2. \A x \in j .. Len(ctl) : x \in Nat /\ j <= x /\ x <= Len(ctl)
    BY <1>1, <1>2
  <2> QED
    BY <2>1, <2>2
<1>4. PICK d \in D : \A e \in D : d <= e
  <2>1. D \in SUBSET Nat
    OBVIOUS
  <2> HIDE DEF D
  <2> QED
    BY <1>3, <2>1, LeastOf
<1>5. d \in Nat /\ j <= d /\ d <= Len(ctl) /\ ctl[d] \notin Values
  OBVIOUS
<1>6. d # j
  BY <1>5
<1>7. d - 1 \in 1 .. Len(ctl) - 1 /\ (d - 1) + 1 = d /\ d - 1 \in Nat /\ j <= d - 1 /\ d - 1 <= Len(ctl)
      /\ d \in l + 1 .. Len(ctl)
  BY <1>1, <1>2, <1>5, <1>6
<1>8. d - 1 \notin D
  <2> HIDE DEF D
  <2>1. ~ (d <= d - 1)
    BY <1>5
  <2> QED
    BY <1>4, <2>1
<1>9. ctl[d - 1] \in Values
  BY <1>7, <1>8
<1> HIDE DEF D
<1>10. ctl[d] \in Values \cup {"call"}
  <2>1. Stacked
    BY DEF VInv
  <2> QED
    BY <1>7, <1>9, <2>1 DEF Stacked
<1> QED
  BY <1>1, <1>5, <1>7, <1>10

\* The value of a statement, and the operand it is.
LEMMA HasValueIs ==
    ASSUME VInv, Running, HasValue
    PROVE  /\ HasArgs(1)
           /\ Len(ctl) >= 2 /\ Last(ctl) = ctl[Len(ctl)]
           /\ ctl[Len(ctl)] \in Values /\ ctl[Len(ctl)] \in Operands
           /\ ctl[Len(ctl) - 1] \notin Values
           /\ Balanced => /\ 1 \in 0 .. Len(stack)
                          /\ stack = Append(Pop(stack, 1), ctl[Len(ctl)])
<1>1. Len(ctl) \in Nat /\ stack \in Seq(Operands) /\ Len(stack) \in Nat
  BY TypesAre
<1>2. HasArgs(1) /\ ~ HasArgs(2)
  BY DEF HasValue
<1>3. /\ Len(ctl) - 1 >= 1
      /\ \A i \in Len(ctl) - 1 + 1 .. Len(ctl) : ctl[i] \in Values /\ ctl[i] \in Operands
  BY <1>2, HasArgsIs
<1>4. Len(ctl) \in Len(ctl) - 1 + 1 .. Len(ctl) /\ Len(ctl) \in 1 .. Len(ctl)
  BY <1>1, <1>3
<1>5. ctl[Len(ctl) - 1] \notin Values
  <2> SUFFICES ASSUME ctl[Len(ctl) - 1] \in Values
               PROVE  HasArgs(2)
    BY <1>2
  <2>1. \A i \in Len(ctl) - 2 + 1 .. Len(ctl) : i = Len(ctl) - 1 \/ i = Len(ctl)
    BY <1>1
  <2>2. \A i \in Len(ctl) - 2 + 1 .. Len(ctl) : ctl[i] \in {"temp", "result"}
    BY <1>3, <1>4, <2>1 DEF Values
  <2> QED
    BY <1>1, <1>3, <2>2 DEF HasArgs
<1>6. ASSUME Balanced
      PROVE  1 \in 0 .. Len(stack) /\ stack = Append(Pop(stack, 1), ctl[Len(ctl)])
  <2>1. Stacked
    BY <1>6 DEF VInv
  <2>2. Len(stack) = Count(ctl, Operands)
    BY <2>1 DEF Stacked
  <2>3. Count(ctl, Operands) = CountTo(ctl, Len(ctl), Operands)
    BY DEF Count, CountTo
  <2>4. stack[Len(stack)] = ctl[Len(ctl)]
    BY <1>3, <1>4, <2>1, <2>2, <2>3 DEF Stacked
  <2>5. Len(ctl) \in 0 .. Len(ctl)
    BY <1>1
  <2>6. CountTo(ctl, Len(ctl), Operands) \in 1 .. CountTo(ctl, Len(ctl), Operands)
    BY <1>3, <1>4, <2>5, CountInside
  <2>7. Len(stack) >= 1
    BY <2>2, <2>3, <2>6
  <2>8. 1 \in 0 .. Len(stack) /\ Len(stack) - 1 \in 0 .. Len(stack)
    BY <1>1, <2>7
  <2> DEFINE p == Pop(stack, 1)
  <2>9. /\ p \in Seq(Operands) /\ Len(p) = Len(stack) - 1
        /\ \A i \in 1 .. Len(stack) - 1 : p[i] = stack[i]
    BY <1>1, <2>8, PrefixIs DEF Pop
  <2>10. stack[Len(stack)] \in Operands
    BY <1>1, <2>7
  <2> HIDE DEF p
  <2>11. /\ Append(p, stack[Len(stack)]) \in Seq(Operands)
         /\ Len(Append(p, stack[Len(stack)])) = Len(stack)
         /\ \A i \in 1 .. Len(stack) : Append(p, stack[Len(stack)])[i] = stack[i]
    BY <1>1, <2>7, <2>9, <2>10
  <2>12. stack = Append(p, stack[Len(stack)])
    BY <1>1, <2>11, SeqEqual
  <2> QED
    BY <2>4, <2>8, <2>12 DEF p
<1> QED
  BY <1>2, <1>3, <1>4, <1>5, <1>6 DEF Last

\* What a jump or a return may leave behind in a tame and in a balanced program.
LEMMA MayLeaveIs ==
    ASSUME VInv, NEW i, MayLeave(i)
    PROVE  /\ Tame => \A j \in i + 1 .. Len(ctl) : ctl[j] # "try"
           /\ Balanced => \A j \in i + 1 .. Len(ctl) : ctl[j] # "match"
BY DEF MayLeave, Tame, Balanced

LEMMA ReturnValueIsKept ==
    ASSUME VInv, ReturnValue
    PROVE  Kept
<1> DEFINE l == LastIndex(ctl, {"call"})
           v == ctl[Len(ctl)]
           left == <<v>>
<1>1. Running /\ HasValue /\ MayLeave(l) /\ Leave(left, <<>>)
  <2>1. Running /\ HasValue
    BY DEF ReturnValue
  <2>2. Last(ctl) = v
    BY <2>1, HasValueIs
  <2> QED
    BY <2>1, <2>2 DEF ReturnValue
<1>2. v \in Values /\ v \in Operands /\ Len(ctl) >= 2 /\ ctl[Len(ctl) - 1] \notin Values
      /\ HasArgs(1)
  BY <1>1, HasValueIs
<1>3. stack' = stack
  <2>1. stack' = stack \o <<>>
    BY <1>1 DEF Leave
  <2> QED
    BY <2>1, SameTypes
<1>4. /\ l \in 1 .. Len(ctl) /\ l \in Nat /\ l - 1 \in Nat /\ l - 1 \in 0 .. Len(ctl)
      /\ ctl[l] = "call"
      /\ \A i \in l + 1 .. Len(ctl) : ctl[i] # "call"
      /\ Len(ctl) \in Nat
  BY <1>1, LastCallIs, TypesAre
<1>5. ASSUME Balanced
      PROVE  OperandsFollow(l - 1, left)
  <2> HIDE DEF l, v
  <2>1. \A j \in l .. Len(ctl) - 1 : ctl[j] \notin Operands
    <3> SUFFICES ASSUME NEW j \in l .. Len(ctl) - 1, ctl[j] \in Operands
                 PROVE  FALSE
      OBVIOUS
    <3>1. j # l
      BY <1>4, KindsAre
    <3>2. j \in l + 1 .. Len(ctl) /\ Len(ctl) - 1 \in j .. Len(ctl)
      BY <1>4, <3>1
    <3>3. ctl[j] # "match"
      BY <1>1, <1>5, <3>2, MayLeaveIs
    <3>4. ctl[j] \in Values
      BY <3>3 DEF Values, Operands
    <3>5. \A x \in j .. Len(ctl) : ctl[x] \in Values
      BY <1>1, <1>5, <3>2, <3>4, ValuesRun DEF l
    <3> QED
      BY <1>2, <3>2, <3>5
  <2>2. CountTo(ctl, l - 1, Operands) = CountTo(ctl, Len(ctl) - 1, Operands)
    <3>1. Len(ctl) - 1 \in Nat
      BY <1>2, <1>4
    <3>2. l # Len(ctl)
      BY <1>2, <1>4, KindsAre DEF v
    <3>3. l - 1 <= Len(ctl) - 1
      BY <1>4
    <3>4. \A i \in (l - 1) + 1 .. Len(ctl) - 1 : ctl[i] \notin Operands
      BY <1>4, <2>1
    <3> QED
      BY <1>4, <3>1, <3>3, <3>4, CountToMore
  <2>3. 1 \in 0 .. Len(ctl)
        /\ \A i \in Len(ctl) - 1 + 1 .. Len(ctl) : ctl[i] \in Operands
    BY <1>2, <1>4, HasArgsIs
  <2>4. SubSeq(stack, 1, CountTo(ctl, Len(ctl) - 1, Operands)) = Pop(stack, 1)
    BY <1>1, <1>5, <2>3, OperandsPopped
  <2>5. stack' = Append(Pop(stack, 1), v)
    BY <1>1, <1>3, <1>5, HasValueIs DEF v
  <2>6. panic' = FALSE
    BY <1>1, <1>5, SameTypes DEF Leave
  <2>7. left[1] = v /\ left # <<>>
    OBVIOUS
  <2>8. left # <<"try">>
    BY <1>2, KindsAre
  <2> HIDE DEF left
  <2> QED
    BY <1>2, <2>2, <2>4, <2>5, <2>6, <2>7, <2>8 DEF OperandsFollow
<1>6. Tame => \A i \in l + 1 .. Len(ctl) : ctl[i] # "try"
  BY <1>1, MayLeaveIs
<1>7. left = <<>> \/ \E k \in Operands : left = <<k>>
  BY <1>2
<1> HIDE DEF left
<1>8. Follows(l - 1, left) /\ left # <<"call">> /\ left # <<"catch">> /\ status' \in {"run", "halt"}
  BY <1>1, <1>5, <1>6, <1>7, LeaveFollows
<1>9. try_stack' = try_stack /\ panic' = panic
  BY <1>1 DEF Leave
<1> QED
  BY <1>1, <1>3, <1>8, <1>9, SameTypes, FollowsIsKept

LEMMA ReturnEndIsKept ==
    ASSUME VInv, ReturnEnd
    PROVE  Kept
<1> DEFINE l == LastIndex(ctl, {"call"})
<1>1. Running /\ Path = <<>> /\ Leave(<<>>, <<>>)
  BY DEF ReturnEnd
<1>2. stack' = stack
  <2>1. stack' = stack \o <<>>
    BY <1>1 DEF Leave
  <2> QED
    BY <2>1, SameTypes
<1>3. /\ l \in 1 .. Len(ctl) /\ l \in Nat /\ l - 1 \in Nat /\ l - 1 \in 0 .. Len(ctl)
      /\ ctl[l] = "call"
      /\ Len(ctl) \in Nat /\ ctl \in Seq(Kinds)
  BY <1>1, LastCallIs, TypesAre
<1>4. l = Len(ctl)
  <2>1. SubSeq(ctl, l + 1, Len(ctl)) = <<>>
    BY <1>1 DEF Path
  <2> HIDE DEF l
  <2>2. l + 1 <= Len(ctl) => Len(SubSeq(ctl, l + 1, Len(ctl))) = Len(ctl) - l
    BY <1>3
  <2>3. Len(<<>>) = 0
    OBVIOUS
  <2> QED
    BY <1>3, <2>1, <2>2, <2>3
<1>5. ASSUME Balanced
      PROVE  OperandsFollow(l - 1, <<>>)
  <2> HIDE DEF l
  <2>1. \A i \in (l - 1) + 1 .. Len(ctl) : ctl[i] \notin Operands
    BY <1>3, <1>4, KindsAre
  <2>2. SubSeq(stack, 1, CountTo(ctl, l - 1, Operands)) = stack
    BY <1>1, <1>3, <1>5, <2>1, OperandsStay
  <2>3. panic' = FALSE
    BY <1>1, <1>5, SameTypes DEF Leave
  <2>4. <<>> # <<"try">>
    OBVIOUS
  <2> QED
    BY <1>2, <2>2, <2>3, <2>4 DEF OperandsFollow
<1>6. Tame => \A i \in l + 1 .. Len(ctl) : ctl[i] # "try"
  BY <1>3, <1>4
<1>7. Follows(l - 1, <<>>) /\ <<>> # <<"call">> /\ <<>> # <<"catch">> /\ status' \in {"run", "halt"}
  BY <1>1, <1>5, <1>6, LeaveFollows
<1>8. try_stack' = try_stack /\ panic' = panic
  BY <1>1 DEF Leave
<1> QED
  BY <1>1, <1>2, <1>7, <1>8, SameTypes, FollowsIsKept

LEMMA ReturnVoidIsKept ==
    ASSUME VInv, ReturnVoid
    PROVE  Kept
<1> DEFINE l == LastIndex(ctl, {"call"})
<1>1. Running /\ MayLeave(l) /\ ~ Balanced
  BY DEF ReturnVoid, Balanced
<1>2. CASE Len(stack) >= STACK_MAX
  <2>1. Ends("overflow")
    BY <1>2 DEF ReturnVoid
  <2> QED
    BY <2>1, EndsIsKept
<1>3. CASE ~ (Len(stack) >= STACK_MAX)
  <2>1. Leave(<<>>, <<"temp">>)
    BY <1>3 DEF ReturnVoid
  <2>2. stack' \in Seq(Operands) /\ Len(stack') <= STACK_MAX
    <3>1. stack' = stack \o <<"temp">>
      BY <2>1 DEF Leave
    <3>2. <<"temp">> \in Seq(Operands) /\ Len(<<"temp">>) = 1
      BY DEF Operands
    <3>3. stack' \in Seq(Operands) /\ Len(stack') = Len(stack) + 1
      BY <3>1, <3>2, SameTypes
    <3> QED
      BY <1>3, <3>3, SameTypes
  <2>3. Tame => \A i \in l + 1 .. Len(ctl) : ctl[i] # "try"
    BY <1>1, MayLeaveIs
  <2>4. Follows(l - 1, <<>>) /\ <<>> # <<"call">> /\ <<>> # <<"catch">> /\ status' \in {"run", "halt"}
    BY <1>1, <2>1, <2>3, LeaveFollows
  <2>5. try_stack' = try_stack /\ panic' = panic
    BY <2>1 DEF Leave
  <2> QED
    BY <1>1, <2>2, <2>4, <2>5, SameTypes, FollowsIsKept
<1> QED
  BY <1>2, <1>3

-----------------------------------------------------------------------------
(* Blocks *)

LEMMA AtStatementIs ==
    ASSUME VInv, AtStatement
    PROVE  ctl[Len(ctl)] \notin Values
BY DEF AtStatement, Last, Values

\* The end of a block takes off the innermost place of ctl.
LEMMA TopFollows ==
    ASSUME VInv, Running, ctl[Len(ctl)] # "call", ctl' = Pop(ctl, 1),
           UNCHANGED <<features, frame_ptr>>,
           Tame => TriesFollow(Len(ctl) - 1, <<>>),
           Balanced => OperandsFollow(Len(ctl) - 1, <<>>)
    PROVE  Follows(Len(ctl) - 1, <<>>)
<1> DEFINE m == Len(ctl) - 1
<1>1. ctl \in Seq(Kinds) /\ Len(ctl) \in Nat
  BY TypesAre
<1>2. Len(ctl) >= 1 /\ ctl[1] = "call"
  BY DEF VInv, Framed
<1>3. Len(ctl) # 1
  BY <1>2
<1>4. m \in 0 .. Len(ctl) /\ m >= 1 /\ 1 \in 0 .. Len(ctl) /\ m + 1 = Len(ctl)
  BY <1>1, <1>2, <1>3
<1>5. ctl' = SubSeq(ctl, 1, m) \o <<>>
  BY <1>1, <1>4, PrefixAsEdit
<1> HIDE DEF m
<1>6. Edits(m, <<>>)
  BY <1>4, <1>5 DEF Edits
<1>7. \A i \in m + 1 .. Len(ctl) : ctl[i] # "call"
  BY <1>1, <1>4
<1>8. frame_ptr = CountTo(ctl, m, {"call"}) + 1
  BY <1>4, <1>7, FramesStay
<1>9. <<>> # <<"call">>
  OBVIOUS
<1>10. FramesFollow(m, <<>>)
  BY <1>8, <1>9 DEF FramesFollow
<1> QED
  BY <1>6, <1>10 DEF Follows, m

LEMMA EnterLoopIsKept ==
    ASSUME VInv, EnterLoop
    PROVE  Kept
<1> DEFINE t == <<"loop">>
<1>1. /\ Running /\ AtStatement
      /\ ctl' = Append(ctl, "loop")
      /\ UNCHANGED <<features, frame_ptr, stack, try_stack, panic, status>>
  BY DEF EnterLoop, Enter
<1>2. /\ "loop" \in Kinds /\ "loop" \notin Operands
      /\ t # <<"call">> /\ t # <<"try">> /\ t # <<"catch">> /\ t # <<>> /\ t[1] = "loop"
      /\ t = <<>> \/ \E k \in Kinds : t = <<k>>
  BY DEF Kinds, Operands, Blocks
<1>3. Append(SubSeq(ctl, 1, Len(ctl)), "loop") = SubSeq(ctl, 1, Len(ctl)) \o t
  BY <1>2, TypesAre, AppendAsEdit
<1>4. ctl' = SubSeq(ctl, 1, Len(ctl) - 0) \o t
  BY <1>1, <1>3, TypesAre, WholeAsPrefix, NoArgs
<1> HIDE DEF t
<1>5. ctl[Len(ctl) - 0] \notin Values
  BY <1>1, NoArgs, AtStatementIs
<1>6. Balanced => OperandsFollow(Len(ctl) - 0, t)
  BY <1>1, <1>2, <1>5, NoArgs, SameTypes, ArgsOperands
<1>7. frame_ptr' = frame_ptr + IF t = <<"call">> THEN 1 ELSE 0
  BY <1>1, <1>2, SameTypes
<1>8. Follows(Len(ctl) - 0, t)
  BY <1>1, <1>2, <1>4, <1>6, <1>7, NoArgs, ArgsFollow
<1> QED
  BY <1>1, <1>2, <1>8, SameTypes, StillRunning, FollowsIsKept

LEMMA LeaveBlockIsKept ==
    ASSUME VInv, LeaveBlock
    PROVE  Kept
<1> DEFINE m == Len(ctl) - 1
<1>1. /\ Running
      /\ ctl[Len(ctl)] \in {"loop", "catch"}
      /\ ctl' = Pop(ctl, 1)
      /\ UNCHANGED <<features, frame_ptr, stack, try_stack, panic, status>>
  BY DEF LeaveBlock, Last
<1>2. ctl[Len(ctl)] # "call" /\ ctl[Len(ctl)] # "try" /\ ctl[Len(ctl)] \notin Operands
  BY <1>1 DEF Operands
<1>3. Len(ctl) \in Nat /\ Len(ctl) >= 1
  BY <1>1, TypesAre DEF VInv, Framed
<1>4. m \in 0 .. Len(ctl) /\ \A i \in m + 1 .. Len(ctl) : i = Len(ctl)
  BY <1>3
<1>5. <<>> # <<"call">> /\ <<>> # <<"try">> /\ <<>> # <<"catch">>
  OBVIOUS
<1> HIDE DEF m
<1>6. Tame => TriesFollow(m, <<>>)
  BY <1>1, <1>2, <1>4, <1>5, TriesStay
<1>7. Balanced => OperandsFollow(m, <<>>)
  <2> SUFFICES ASSUME Balanced PROVE OperandsFollow(m, <<>>)
    OBVIOUS
  <2>1. SubSeq(stack, 1, CountTo(ctl, m, Operands)) = stack
    BY <1>1, <1>2, <1>4, OperandsStay
  <2> QED
    BY <1>1, <1>5, <2>1, SameTypes DEF OperandsFollow
<1>8. Follows(m, <<>>)
  BY <1>1, <1>2, <1>6, <1>7, TopFollows DEF m
<1> QED
  BY <1>1, <1>5, <1>8, SameTypes, StillRunning, FollowsIsKept

LEMMA EnterMatchIsKept ==
    ASSUME VInv, EnterMatch
    PROVE  Kept
<1>1. Running /\ HasValue
  BY DEF EnterMatch
<1>2. CASE stack = <<>>
  <2>1. Ends("underflow")
    BY <1>2 DEF EnterMatch
  <2> QED
    BY <2>1, EndsIsKept
<1>3. CASE stack # <<>>
  <2> DEFINE t == <<"match">>
  <2>1. /\ ctl' = Append(Pop(ctl, 1), "match")
        /\ stack' = Append(Pop(stack, 1), "match")
        /\ UNCHANGED <<features, frame_ptr, try_stack, panic, status>>
    BY <1>3 DEF EnterMatch
  <2>2. /\ "match" \in Kinds /\ "match" \in Operands
        /\ t # <<"call">> /\ t # <<"try">> /\ t # <<"catch">> /\ t # <<>> /\ t[1] = "match"
        /\ t = <<>> \/ \E k \in Kinds : t = <<k>>
    BY DEF Kinds, Operands, Blocks
  <2>3. HasArgs(1) /\ 1 \in Nat /\ ctl[Len(ctl) - 1] \notin Values
    BY <1>1, HasValueIs
  <2>4. ctl' = SubSeq(ctl, 1, Len(ctl) - 1) \o t
    <3>1. Append(SubSeq(ctl, 1, Len(ctl) - 1), "match") = SubSeq(ctl, 1, Len(ctl) - 1) \o t
      BY <2>2, <2>3, HasArgsIs, TypesAre, AppendAsEdit
    <3> QED
      BY <2>1, <3>1 DEF Pop
  <2> HIDE DEF t
  <2>5. Balanced => OperandsFollow(Len(ctl) - 1, t)
    BY <1>1, <2>1, <2>2, <2>3, SameTypes, ArgsOperands
  <2>6. frame_ptr' = frame_ptr + IF t = <<"call">> THEN 1 ELSE 0
    BY <2>1, <2>2, SameTypes
  <2>7. Follows(Len(ctl) - 1, t)
    BY <1>1, <2>1, <2>2, <2>3, <2>4, <2>5, <2>6, ArgsFollow
  <2>8. stack' \in Seq(Operands) /\ Len(stack') <= STACK_MAX
    <3>1. 1 \in 0 .. Len(stack)
      BY <1>3, SameTypes
    <3>2. stack' \in Seq(Operands) /\ Len(stack') = Len(stack) - 1 + 1
      BY <2>1, <2>2, <3>1, PopAppendTypes
    <3> QED
      BY <3>2, SameTypes
  <2> QED
    BY <1>1, <2>1, <2>2, <2>7, <2>8, SameTypes, StillRunning, FollowsIsKept
<1> QED
  BY <1>2, <1>3

LEMMA LeaveMatchIsKept ==
    ASSUME VInv, LeaveMatch
    PROVE  Kept
<1>1. Running /\ ctl[Len(ctl)] = "match"
  BY DEF LeaveMatch, Last
<1>2. CASE stack = <<>>
  <2>1. Ends("underflow")
    BY <1>2 DEF LeaveMatch
  <2> QED
    BY <2>1, EndsIsKept
<1>3. CASE stack # <<>>
  <2> DEFINE m == Len(ctl) - 1
  <2>1. /\ ctl' = Pop(ctl, 1)
        /\ stack' = Pop(stack, 1)
        /\ UNCHANGED <<features, frame_ptr, try_stack, panic, status>>
    BY <1>3 DEF LeaveMatch
  <2>2. Len(ctl) \in Nat /\ Len(ctl) >= 1
    BY <1>1, TypesAre DEF VInv, Framed
  <2>3. m \in 0 .. Len(ctl) /\ 1 \in 0 .. Len(ctl) /\ \A i \in m + 1 .. Len(ctl) : i = Len(ctl)
    BY <2>2
  <2>4. "match" \in Operands
    BY DEF Operands
  <2>5. <<>> # <<"call">> /\ <<>> # <<"try">> /\ <<>> # <<"catch">>
    OBVIOUS
  <2>6. \A i \in Len(ctl) - 1 + 1 .. Len(ctl) : ctl[i] \in Operands
    BY <1>1, <2>3, <2>4
  <2> HIDE DEF m
  <2>7. Tame => TriesFollow(m, <<>>)
    BY <1>1, <2>1, <2>3, <2>5, TriesStay
  <2>8. Balanced => OperandsFollow(m, <<>>)
    <3> SUFFICES ASSUME Balanced PROVE OperandsFollow(m, <<>>)
      OBVIOUS
    <3>1. SubSeq(stack, 1, CountTo(ctl, m, Operands)) = Pop(stack, 1)
      BY <1>1, <2>3, <2>6, OperandsPopped DEF m
    <3> QED
      BY <1>1, <2>1, <2>5, <3>1, SameTypes DEF OperandsFollow
  <2>9. Follows(m, <<>>)
    BY <1>1, <2>1, <2>7, <2>8, TopFollows DEF m
  <2>10. stack' \in Seq(Operands) /\ Len(stack') <= STACK_MAX
    <3>1. 1 \in 0 .. Len(stack)
      BY <1>3, SameTypes
    <3> QED
      BY <2>1, <2>4, <3>1, PopAppendTypes
  <2> QED
    BY <1>1, <2>1, <2>5, <2>9, <2>10, SameTypes, StillRunning, FollowsIsKept
<1> QED
  BY <1>2, <1>3

LEMMA LeaveTryIsKept ==
    ASSUME VInv, LeaveTry
    PROVE  Kept
<1> DEFINE m == Len(ctl) - 1
<1>1. /\ Running
      /\ ctl[Len(ctl)] = "try"
      /\ ctl' = Pop(ctl, 1)
      /\ try_stack' = IF try_stack = <<>> THEN <<>> ELSE Pop(try_stack, 1)
      /\ UNCHANGED <<features, frame_ptr, stack, panic, status>>
  BY DEF LeaveTry, Last
<1>2. Len(ctl) \in Nat /\ Len(ctl) >= 1
  BY <1>1, TypesAre DEF VInv, Framed
<1>3. /\ m \in 0 .. Len(ctl) /\ m \in Nat /\ m + 1 = Len(ctl)
      /\ \A i \in m + 1 .. Len(ctl) : i = Len(ctl)
  BY <1>2
<1>4. <<>> # <<"call">> /\ <<>> # <<"try">> /\ <<>> # <<"catch">>
  OBVIOUS
<1> HIDE DEF m
<1>5. Tame => TriesFollow(m, <<>>)
  <2> SUFFICES ASSUME Tame PROVE TriesFollow(m, <<>>)
    OBVIOUS
  <2>1. Len(try_stack) = Count(ctl, {"try"}) /\ Len(try_stack) \in Nat
    BY <1>1, SameTypes DEF VInv, Handled
  <2>2. Count(ctl, {"try"}) = CountTo(ctl, Len(ctl), {"try"}) /\ CountTo(ctl, m, {"try"}) \in Nat
    BY <1>3, CountWithin
  <2>3. CountTo(ctl, m + 1, {"try"}) = CountTo(ctl, m, {"try"}) + 1
    BY <1>1, <1>3, CountToNext
  <2>4. CountTo(ctl, m, {"try"}) = Len(try_stack) - 1 /\ Len(try_stack) # 0
    BY <1>3, <2>1, <2>2, <2>3
  <2>5. try_stack' = SubSeq(try_stack, 1, CountTo(ctl, m, {"try"}))
    BY <1>1, <2>4 DEF Pop
  <2> QED
    BY <1>4, <2>5 DEF TriesFollow
<1>6. Balanced => OperandsFollow(m, <<>>)
  <2> SUFFICES ASSUME Balanced PROVE OperandsFollow(m, <<>>)
    OBVIOUS
  <2>1. SubSeq(stack, 1, CountTo(ctl, m, Operands)) = stack
    BY <1>1, <1>3, KindsAre, OperandsStay
  <2> QED
    BY <1>1, <1>4, <2>1, SameTypes DEF OperandsFollow
<1>7. Follows(m, <<>>)
  <2>1. ctl[Len(ctl)] # "call"
    BY <1>1
  <2> QED
    BY <1>1, <1>5, <1>6, <2>1, TopFollows DEF m
<1>8. try_stack' \in Seq(TryFrames) /\ Len(try_stack') <= TRY_STACK_MAX
  <2>1. CASE try_stack = <<>>
    BY <1>1, <2>1, SameTypes
  <2>2. CASE try_stack # <<>>
    <3>1. Len(try_stack) - 1 \in 0 .. Len(try_stack)
      BY <2>2, SameTypes
    <3>2. try_stack' \in Seq(TryFrames) /\ Len(try_stack') = Len(try_stack) - 1
      BY <1>1, <2>2, <3>1, SameTypes, PrefixIs DEF Pop
    <3> QED
      BY <3>2, SameTypes, VMAssumption
  <2> QED
    BY <2>1, <2>2
<1> QED
  BY <1>1, <1>4, <1>7, <1>8, SameTypes, StillRunning, FollowsIsKept

\* The place of a try block, as its frame remembers it.
LEMMA PathIs ==
    ASSUME VInv, Running
    PROVE  /\ Path \in Seq(Operands \cup Blocks)
           /\ \A h \in 1 .. Len(ctl) : CallOf(h, Len(ctl) + 1) => Path = SubSeq(ctl, h + 1, Len(ctl))
<1> DEFINE l == LastIndex(ctl, {"call"})
<1>1. /\ l \in 1 .. Len(ctl) /\ l \in Nat /\ ctl[l] = "call"
      /\ \A i \in l + 1 .. Len(ctl) : ctl[i] # "call"
      /\ Len(ctl) \in Nat /\ ctl \in Seq(Kinds)
  BY LastCallIs, TypesAre
<1>2. Path = SubSeq(ctl, l + 1, Len(ctl))
  BY DEF Path
<1> HIDE DEF l
<1>3. SubSeq(ctl, l + 1, Len(ctl)) \in Seq(Operands \cup Blocks)
  <2> DEFINE p == SubSeq(ctl, l + 1, Len(ctl))
  <2>1. /\ p \in Seq(Kinds)
        /\ Len(p) = Len(ctl) - l
        /\ \A i \in 1 .. Len(ctl) - l : p[i] = ctl[l + i]
    <3>1. p \in Seq(Kinds) /\ Len(p) = Len(ctl) - l
      BY <1>1
    <3>2. \A i \in 1 .. Len(ctl) - l : l + 1 + i - 1 = l + i
      BY <1>1
    <3>3. \A i \in 1 .. Len(ctl) - l : p[i] = ctl[l + i]
      BY <1>1, <3>2
    <3> QED
      BY <3>1, <3>3
  <2>2. \A i \in 1 .. Len(p) : p[i] \in Operands \cup Blocks
    <3> TAKE i \in 1 .. Len(p)
    <3>1. l + i \in l + 1 .. Len(ctl) /\ l + i \in 1 .. Len(ctl) /\ p[i] = ctl[l + i]
      <4> HIDE DEF p
      <4> QED
        BY <1>1, <2>1
    <3>2. ctl[l + i] # "call" /\ ctl[l + i] \in Kinds
      BY <1>1, <3>1
    <3> QED
      BY <3>1, <3>2 DEF Kinds
  <2> HIDE DEF p
  <2>3. p \in Seq(Operands \cup Blocks)
    BY <2>1, <2>2
  <2> QED
    BY <2>3 DEF p
<1>4. ASSUME NEW h \in 1 .. Len(ctl), CallOf(h, Len(ctl) + 1)
      PROVE  h = l
  <2>1. Len(ctl) + 1 - 1 = Len(ctl)
    BY <1>1
  <2>2. ctl[h] = "call" /\ \A j \in h + 1 .. Len(ctl) : ctl[j] # "call"
    BY <1>4, <2>1 DEF CallOf
  <2>3. ~ (h \in l + 1 .. Len(ctl)) /\ ~ (l \in h + 1 .. Len(ctl))
    BY <1>1, <2>2
  <2> QED
    BY <1>1, <2>3
<1> QED
  BY <1>2, <1>3, <1>4

LEMMA EnterTryIsKept ==
    ASSUME VInv, EnterTry
    PROVE  Kept
<1> DEFINE TryFrame(sp, fp) == [path |-> Path, stack_ptr |-> sp, frame_ptr |-> fp]
<1>1. Running /\ AtStatement
  BY DEF EnterTry, Enter
<1>2. frame_ptr \in 2 .. FRAMES_MAX /\ FRAMES_MAX \in Nat
  <2>1. frame_ptr >= 2
    BY <1>1, LastCallIs
  <2> QED
    BY <2>1, SameTypes, VMAssumption DEF VInv, TypeOK
<1>3. CASE Len(try_stack) < TRY_STACK_MAX
  <2> DEFINE F == TryFrame(Len(stack), frame_ptr)
             t == <<"try">>
             m == Len(ctl)
  <2>1. /\ ctl' = Append(ctl, "try")
        /\ try_stack' = Append(try_stack, F)
        /\ UNCHANGED <<features, frame_ptr, stack, panic, status>>
    BY <1>3 DEF EnterTry, Enter
  <2>2. F.path = Path /\ F.stack_ptr = Len(stack) /\ F.frame_ptr = frame_ptr
    OBVIOUS
  <2>3. F \in TryFrames
    <3>1. Path \in Seq(Operands \cup Blocks) /\ Len(stack) \in 0 .. STACK_MAX
      BY <1>1, PathIs, SameTypes
    <3> QED
      BY <1>2, <3>1 DEF TryFrames
  <2> HIDE DEF F
  <2>4. try_stack' \in Seq(TryFrames) /\ Len(try_stack') <= TRY_STACK_MAX
    <3>1. try_stack' \in Seq(TryFrames) /\ Len(try_stack') = Len(try_stack) + 1
      BY <2>1, <2>3, SameTypes
    <3> QED
      BY <1>3, <3>1, SameTypes, VMAssumption
  <2>5. /\ "try" \in Kinds /\ t # <<>> /\ t[1] = "try" /\ t[1] \notin Operands
        /\ t # <<"call">> /\ t # <<"catch">>
    BY KindsAre
  <2>6. m \in 0 .. Len(ctl) /\ m >= 1 /\ ctl \in Seq(Kinds) /\ m \in Nat
        /\ \A i \in m + 1 .. Len(ctl) : FALSE
    BY <1>1, TypesAre DEF VInv, Framed
  <2>7. ctl' = SubSeq(ctl, 1, m) \o t
    <3>1. Append(SubSeq(ctl, 1, Len(ctl)), "try") = SubSeq(ctl, 1, Len(ctl)) \o t
      BY <2>5, <2>6, AppendAsEdit
    <3> QED
      BY <2>1, <2>6, <3>1, WholeAsPrefix
  <2>8. Edits(m, t)
    BY <2>5, <2>6, <2>7 DEF Edits
  <2>9. frame_ptr = CountTo(ctl, m, {"call"}) + 1 /\ CountTo(ctl, m, {"call"}) \in Nat
    BY <1>1, <2>6, FramesStay, CountWithin
  <2>10. FramesFollow(m, t)
    BY <2>1, <2>5, <2>9 DEF FramesFollow
  <2>11. Tame => TriesFollow(m, t)
    <3> SUFFICES ASSUME Tame PROVE TriesFollow(m, t)
      OBVIOUS
    <3>1. CountTo(ctl, m, {"try"}) = Len(try_stack)
      BY <1>1, <2>6, CountWithin DEF VInv, Handled
    <3>2. SubSeq(try_stack, 1, Len(try_stack)) = try_stack
      BY SameTypes, WholeAsPrefix
    <3>3. NewTryFrame(m, F)
      <4>1. F.frame_ptr = 1 + CountTo(ctl, m, {"call"})
        BY <2>2, <2>9
      <4>2. \A h \in 1 .. m : CallOf(h, m + 1) => F.path = SubSeq(ctl, h + 1, m)
        BY <1>1, <2>2, PathIs
      <4> QED
        BY <2>2, <4>1, <4>2 DEF NewTryFrame
    <3> QED
      BY <2>1, <3>1, <3>2, <3>3 DEF TriesFollow
  <2>12. Balanced => OperandsFollow(m, t)
    <3> SUFFICES ASSUME Balanced PROVE OperandsFollow(m, t)
      OBVIOUS
    <3>1. SubSeq(stack, 1, CountTo(ctl, m, Operands)) = stack
      BY <1>1, <2>6, OperandsStay
    <3>2. ctl[m] \notin Values
      BY <1>1, AtStatementIs
    <3> HIDE DEF t
    <3> QED
      BY <1>1, <2>1, <2>5, <3>1, <3>2, SameTypes DEF OperandsFollow
  <2>13. Follows(m, t)
    BY <2>1, <2>8, <2>10, <2>11, <2>12 DEF Follows
  <2> QED
    BY <1>1, <2>1, <2>4, <2>5, <2>13, SameTypes, StillRunning, FollowsIsKept
<1>4. CASE ~ (Len(try_stack) < TRY_STACK_MAX)
  <2> DEFINE G == Last(try_stack)
             F == TryFrame(Smaller(Len(stack), G.stack_ptr) + 1, Smaller(frame_ptr, G.frame_ptr))
  <2>1. ~ Tame /\ ~ Balanced /\ Unwind(stack, TRUE, <<F>>)
    BY <1>4 DEF EnterTry, Tame, Balanced
  <2>2. try_stack # <<>> /\ G \in TryFrames
    <3>1. Len(try_stack) # 0
      BY <1>4, SameTypes, VMAssumption
    <3> QED
      BY <3>1, SameTypes DEF Last
  <2>3. SubSeq(stack, 1, Len(stack)) = stack /\ Len(stack) \in 0 .. Len(stack)
    BY SameTypes, WholeAsPrefix
  <2> DEFINE x == Smaller(Len(stack), G.stack_ptr)
  <2>4. x \in 0 .. Len(stack)
    BY <2>2, SameTypes DEF Smaller, TryFrames
  <2>5. Len(SubSeq(stack, 1, x)) = x
    BY <2>4, SameTypes, PrefixIs
  <2>6. CASE x >= STACK_MAX
    <3>1. Ends("overflow")
      BY <2>1, <2>5, <2>6 DEF Unwind
    <3> QED
      BY <3>1, EndsIsKept
  <2>7. CASE ~ (x >= STACK_MAX)
    <3>1. x + 1 \in 0 .. STACK_MAX
      BY <2>4, <2>7, SameTypes
    <3>2. Smaller(frame_ptr, G.frame_ptr) \in 2 .. FRAMES_MAX
      BY <1>2, <2>2 DEF Smaller, TryFrames
    <3>3. F \in TryFrames
      BY <1>1, <3>1, <3>2, PathIs DEF TryFrames
    <3> HIDE DEF F
    <3>4. <<F>> \in Seq(TryFrames) /\ Len(<<F>>) <= 1
      BY <3>3
    <3>5. Unwind(SubSeq(stack, 1, Len(stack)), TRUE, <<F>>)
      BY <2>1, <2>3
    <3> QED
      BY <1>1, <2>1, <2>2, <2>3, <3>4, <3>5, UnwindIsKept
  <2> QED
    BY <2>6, <2>7
<1> QED
  BY <1>3, <1>4

LEMMA JumpIsKept ==
    ASSUME VInv, NEW keep \in BOOLEAN, Jump(keep)
    PROVE  Kept
<1> DEFINE i == LastIndex(ctl, {"loop"})
           l == LastIndex(ctl, {"call"})
           m == IF keep THEN i ELSE i - 1
<1>1. /\ Running /\ AtStatement
      /\ i > l
      /\ MayLeave(i)
      /\ ctl' = SubSeq(ctl, 1, m)
      /\ UNCHANGED <<features, frame_ptr, stack, try_stack, panic, status>>
  BY DEF Jump
<1>2. /\ l \in 1 .. Len(ctl) /\ l \in Nat
      /\ \A j \in l + 1 .. Len(ctl) : ctl[j] # "call"
      /\ Len(ctl) \in Nat /\ ctl \in Seq(Kinds)
  BY <1>1, LastCallIs, TypesAre
<1>3. i \in 0 .. Len(ctl) /\ (i # 0 => ctl[i] \in {"loop"})
  BY <1>2, LastIndexIs
<1>4. ctl[Len(ctl)] \notin Values
  BY <1>1, AtStatementIs
<1>5. /\ Tame => \A j \in i + 1 .. Len(ctl) : ctl[j] # "try"
      /\ Balanced => \A j \in i + 1 .. Len(ctl) : ctl[j] # "match"
  BY <1>1, MayLeaveIs
<1>6. Balanced => \A j \in l + 1 .. Len(ctl) : ctl[j] \notin Values
  <2> SUFFICES ASSUME Balanced, NEW j \in l + 1 .. Len(ctl), ctl[j] \in Values
               PROVE  FALSE
    OBVIOUS
  <2>1. \A x \in j .. Len(ctl) : ctl[x] \in Values
    BY <1>1, ValuesRun
  <2> HIDE DEF l
  <2>2. Len(ctl) \in j .. Len(ctl)
    BY <1>2
  <2> QED
    BY <1>4, <2>1, <2>2
<1> HIDE DEF i, l
<1>7. /\ m \in 0 .. Len(ctl) /\ m >= 1 /\ i # 0
      /\ \A j \in m + 1 .. Len(ctl) : j \in l + 1 .. Len(ctl) /\ (j = i \/ j \in i + 1 .. Len(ctl))
  BY <1>1, <1>2, <1>3
<1>8. ctl[i] = "loop"
  BY <1>3, <1>7
<1> HIDE DEF m
<1>9. <<>> # <<"call">> /\ <<>> # <<"try">> /\ <<>> # <<"catch">>
  OBVIOUS
<1>10. Edits(m, <<>>)
  <2> DEFINE p == SubSeq(ctl, 1, m)
  <2>1. p \in Seq(Kinds)
    BY <1>2, <1>7, PrefixIs
  <2>2. p \o <<>> = p
    <3> HIDE DEF p
    <3> QED
      BY <2>1
  <2> QED
    BY <1>1, <1>7, <2>2 DEF Edits
<1>11. \A j \in m + 1 .. Len(ctl) : ctl[j] # "call"
  BY <1>2, <1>7
<1>12. frame_ptr = CountTo(ctl, m, {"call"}) + 1
  BY <1>1, <1>7, <1>11, FramesStay
<1>13. FramesFollow(m, <<>>)
  BY <1>1, <1>9, <1>12 DEF FramesFollow
<1>14. Tame => TriesFollow(m, <<>>)
  <2> SUFFICES ASSUME Tame PROVE TriesFollow(m, <<>>)
    OBVIOUS
  <2>1. \A j \in m + 1 .. Len(ctl) : ctl[j] # "try"
    BY <1>5, <1>7, <1>8
  <2> QED
    BY <1>1, <1>7, <1>9, <2>1, TriesStay
<1>15. Balanced => OperandsFollow(m, <<>>)
  <2> SUFFICES ASSUME Balanced PROVE OperandsFollow(m, <<>>)
    OBVIOUS
  <2>1. \A j \in m + 1 .. Len(ctl) : ctl[j] \notin Operands
    <3> TAKE j \in m + 1 .. Len(ctl)
    <3>1. ctl[j] \notin Values
      BY <1>6, <1>7
    <3>2. ctl[j] # "match"
      BY <1>5, <1>7, <1>8
    <3> QED
      BY <3>1, <3>2 DEF Values, Operands
  <2>2. SubSeq(stack, 1, CountTo(ctl, m, Operands)) = stack
    BY <1>1, <1>7, <2>1, OperandsStay
  <2> QED
    BY <1>1, <1>9, <2>2, SameTypes DEF OperandsFollow
<1>16. Follows(m, <<>>)
  BY <1>1, <1>10, <1>13, <1>14, <1>15 DEF Follows
<1> QED
  BY <1>1, <1>9, <1>16, SameTypes, StillRunning, FollowsIsKept

-----------------------------------------------------------------------------
(* The theorems *)

LEMMA InitInv ==
    ASSUME Init
    PROVE  VInv
<1>1. /\ ctl = <<"call">> /\ frame_ptr = 2 /\ stack = <<>> /\ try_stack = <<>>
      /\ panic = FALSE /\ status = "run" /\ features \in Programs
  BY DEF Init
<1>2. Len(ctl) = 1 /\ ctl[1] = "call" /\ Len(stack) = 0 /\ Len(try_stack) = 0
  BY <1>1
<1>3. ctl \in Seq(Operands \cup Blocks \cup {"call"})
  BY <1>1
<1>4. TypeOK
  <2>1. stack \in Seq(Operands)
    BY <1>1
  <2>2. try_stack \in Seq([path : Seq(Operands \cup Blocks),
                           stack_ptr : 0 .. STACK_MAX, frame_ptr : 2 .. FRAMES_MAX])
    BY <1>1
  <2>3. frame_ptr \in 1 .. FRAMES_MAX /\ Len(stack) <= STACK_MAX
        /\ Len(try_stack) <= TRY_STACK_MAX
    BY <1>1, <1>2, VMAssumption
  <2> QED
    BY <1>1, <1>3, <2>1, <2>2, <2>3 DEF TypeOK
<1>5. \A K : Count(ctl, K) = IF "call" \in K THEN 1 ELSE 0
  <2> TAKE K
  <2>1. CountTo(ctl, 0 + 1, K) = CountTo(ctl, 0, K) + IF ctl[0 + 1] \in K THEN 1 ELSE 0
    BY CountToNext
  <2>2. CountTo(ctl, 0, K) = 0
    BY CountToZero
  <2>3. Count(ctl, K) = CountTo(ctl, 1, K)
    BY <1>2 DEF Count, CountTo
  <2> QED
    BY <1>2, <2>1, <2>2, <2>3
<1>6. Framed
  BY <1>1, <1>2, <1>5 DEF Framed
<1>7. Handled
  BY <1>2, <1>5 DEF Handled
<1>8. Stacked
  BY <1>1, <1>2, <1>5, KindsAre DEF Stacked
<1> QED
  BY <1>1, <1>4, <1>6, <1>7, <1>8 DEF VInv

LEMMA StutterKeeps ==
    ASSUME VInv, UNCHANGED vars
    PROVE  Kept
<1>1. UNCHANGED <<ctl, frame_ptr, stack, try_stack, panic, status, features>>
  BY DEF vars
<1>2. TypeOK' /\ features' \in Programs
  BY <1>1 DEF VInv, TypeOK
<1>3. Running' = Running /\ Tame' = Tame /\ Balanced' = Balanced
  BY <1>1 DEF Running, Tame, Balanced
<1>4. Framed => Framed'
  BY <1>1 DEF Framed
<1>5. Handled => Handled'
  BY <1>1 DEF Handled, CallOf
<1>6. Stacked => Stacked'
  BY <1>1 DEF Stacked, Operands, Values
<1>7. VInv'
  BY <1>2, <1>3, <1>4, <1>5, <1>6 DEF VInv
<1> QED
  BY <1>1, <1>7 DEF Kept

\* Every step, one action after the other.
LEMMA NextKept ==
    ASSUME VInv, [Next]_vars
    PROVE  Kept
<1>1. CASE OpError
  BY <1>1, OpErrorIsKept
<1>2. CASE NativeError
  BY <1>2, NativeErrorIsKept
<1>3. CASE Throw
  BY <1>3, ThrowIsKept
<1>4. CASE Push
  BY <1>4, PushIsKept
<1>5. CASE Drop
  BY <1>5, DropIsKept
<1>6. CASE Forget
  BY <1>6, ForgetIsKept
<1>7. ASSUME NEW n \in 0 .. MaxArgs, Call(n) \/ \E void \in BOOLEAN : Invoke(n, void)
      PROVE  Kept
  <2>1. n \in Nat
    BY VMAssumption
  <2> QED
    BY <1>7, <2>1, CallIsKept, InvokeIsKept
<1>8. CASE ReturnValue
  BY <1>8, ReturnValueIsKept
<1>9. CASE ReturnEnd
  BY <1>9, ReturnEndIsKept
<1>10. CASE ReturnVoid
  BY <1>10, ReturnVoidIsKept
<1>11. CASE EnterLoop
  BY <1>11, EnterLoopIsKept
<1>12. CASE LeaveBlock
  BY <1>12, LeaveBlockIsKept
<1>13. CASE Break \/ Continue
  BY <1>13, JumpIsKept DEF Break, Continue
<1>14. CASE EnterMatch
  BY <1>14, EnterMatchIsKept
<1>15. CASE LeaveMatch
  BY <1>15, LeaveMatchIsKept
<1>16. CASE EnterTry
  BY <1>16, EnterTryIsKept
<1>17. CASE LeaveTry
  BY <1>17, LeaveTryIsKept
<1>18. CASE Ended \/ UNCHANGED vars
  BY <1>18, StutterKeeps DEF Ended
<1> QED
  BY <1>1, <1>2, <1>3, <1>4, <1>5, <1>6, <1>7, <1>8, <1>9, <1>10, <1>11, <1>12, <1>13,
     <1>14, <1>15, <1>16, <1>17, <1>18 DEF Next

LEMMA InvHolds == Spec => []VInv
<1>1. Init => VInv
  BY InitInv
<1>2. VInv /\ [Next]_vars => VInv'
  BY NextKept DEF Kept
<1> QED
  BY <1>1, <1>2, PTL DEF Spec

\* The machine stays within the limits of vm.h, whatever the program does: the
\* frames, the try frames and the operands never outgrow their arrays.
THEOREM TypeCorrect == Spec => []TypeOK
<1>1. VInv => TypeOK
  BY DEF VInv
<1> QED
  BY <1>1, InvHolds, PTL

\* In any program, also one that leaves try blocks by a jump: there is one frame
\* for each call under way.
THEOREM FramesMatch == Spec => []FramesAgree
<1>1. VInv => FramesAgree
  BY DEF VInv, FramesAgree, Framed
<1> QED
  BY <1>1, InvHolds, PTL

\* The programs that a program may be are tame.
AllTame == \A p \in Programs : "leave_try" \notin p /\ "deep_try" \notin p

LEMMA TriesOfInv ==
    ASSUME VInv, Tame
    PROVE  TryAgrees
<1> SUFFICES ASSUME Running
             PROVE  /\ Len(try_stack) = Count(ctl, {"try"})
                    /\ \A i \in {x \in 1 .. Len(ctl) : ctl[x] = "try"} :
                          LET F == try_stack[Count(SubSeq(ctl, 1, i), {"try"})]
                          IN /\ F.frame_ptr = 1 + Count(SubSeq(ctl, 1, i - 1), {"call"})
                             /\ F.path = SubSeq(ctl, LastIndex(SubSeq(ctl, 1, i - 1), {"call"}) + 1, i - 1)
  BY DEF TryAgrees
<1>1. Handled /\ Framed
  BY DEF VInv
<1>2. ctl \in Seq(Kinds) /\ Len(ctl) \in Nat
  BY TypesAre
<1>3. ASSUME NEW i \in 1 .. Len(ctl), ctl[i] = "try"
      PROVE  LET F == try_stack[Count(SubSeq(ctl, 1, i), {"try"})]
             IN /\ F.frame_ptr = 1 + Count(SubSeq(ctl, 1, i - 1), {"call"})
                /\ F.path = SubSeq(ctl, LastIndex(SubSeq(ctl, 1, i - 1), {"call"}) + 1, i - 1)
  <2> DEFINE u == SubSeq(ctl, 1, i - 1)
             h == LastIndex(u, {"call"})
  <2>1. i \in 0 .. Len(ctl) /\ i - 1 \in 0 .. Len(ctl) /\ i - 1 \in Nat /\ i # 1
    BY <1>1, <1>2, <1>3 DEF Framed
  <2>2. /\ Count(SubSeq(ctl, 1, i), {"try"}) = CountTo(ctl, i, {"try"})
        /\ Count(u, {"call"}) = CountTo(ctl, i - 1, {"call"})
    BY <1>2, <2>1, CountOfPrefix
  <2>3. u \in Seq(Kinds) /\ Len(u) = i - 1 /\ \A j \in 1 .. i - 1 : u[j] = ctl[j]
    BY <1>2, <2>1, PrefixIs
  <2> HIDE DEF u
  <2>4. /\ h \in 0 .. Len(u)
        /\ h # 0 => u[h] \in {"call"}
        /\ \A j \in h + 1 .. Len(u) : u[j] \notin {"call"}
    BY <2>3, LastIndexIs
  <2> HIDE DEF h
  <2>5. h # 0
    <3> SUFFICES ASSUME h = 0 PROVE FALSE
      OBVIOUS
    <3>1. 1 \in h + 1 .. Len(u) /\ 1 \in 1 .. i - 1
      BY <1>3, <2>1, <2>3
    <3> QED
      BY <1>1, <2>3, <2>4, <3>1 DEF Framed
  <2>6. h \in 1 .. i - 1
    BY <2>1, <2>3, <2>4, <2>5
  <2>7. CallOf(h, i)
    <3>1. \A j \in h + 1 .. i - 1 : j \in 1 .. i - 1
      BY <2>1, <2>6
    <3> QED
      BY <2>3, <2>4, <2>6, <3>1 DEF CallOf
  <2>8. /\ try_stack[CountTo(ctl, i, {"try"})].frame_ptr = 1 + CountTo(ctl, i - 1, {"call"})
        /\ try_stack[CountTo(ctl, i, {"try"})].path = SubSeq(ctl, h + 1, i - 1)
    BY <1>1, <1>3, <2>6, <2>7 DEF Handled
  <2> QED
    BY <2>2, <2>8 DEF u, h
<1> QED
  BY <1>1, <1>3 DEF Handled

\* Where no try block is left by a jump or a return, and no more are open than
\* the machine can hold, each open try block has its handler: the k-th try frame
\* resumes in the function and at the place of the k-th try block.
THEOREM TriesMatch ==
    ASSUME AllTame
    PROVE  Spec => []TryAgrees
<1>1. VInv => TryAgrees
  <2>1. VInv => Tame
    BY DEF VInv, Tame, AllTame
  <2> QED
    BY <2>1, TriesOfInv
<1> QED
  BY <1>1, InvHolds, PTL

\* In a balanced program the operand stack is what the compiler's type stack
\* says, place by place: nothing is left behind by a finished statement, nothing
\* is missing, in any nesting of calls, blocks and errors.
THEOREM OperandsMatch == Spec => []StackAgrees
<1>1. VInv => StackAgrees
  <2> SUFFICES ASSUME VInv, Balanced, Running
               PROVE  /\ Len(stack) = Count(ctl, Operands)
                      /\ \A i \in 1 .. Len(ctl) :
                            ctl[i] \in Operands
                              => stack[Count(SubSeq(ctl, 1, i), Operands)] = ctl[i]
    BY DEF StackAgrees
  <2>1. Stacked
    BY DEF VInv
  <2>2. \A i \in 1 .. Len(ctl) : Count(SubSeq(ctl, 1, i), Operands) = CountTo(ctl, i, Operands)
    <3> TAKE i \in 1 .. Len(ctl)
    <3>1. ctl \in Seq(Kinds) /\ i \in 0 .. Len(ctl)
      BY TypesAre
    <3> QED
      BY <3>1, CountOfPrefix
  <2> QED
    BY <2>1, <2>2 DEF Stacked
<1> QED
  BY <1>1, InvHolds, PTL

CaughtStep ==
    ctl' # <<>> /\ Last(ctl') = "catch" /\ ~IsPrefix(ctl', ctl)
      => LET i == LastIndex(ctl, {"try"})
         IN i > 0 /\ ctl' = Append(SubSeq(ctl, 1, i - 1), "catch")

LEMMA CaughtOfKept ==
    ASSUME VInv, Tame, Kept
    PROVE  CaughtStep
<1>1. CASE Caught
  BY <1>1 DEF Caught, CaughtStep
<1>2. ctl \in Seq(Kinds) /\ Len(ctl) \in Nat
  BY TypesAre
<1>3. CASE UNCHANGED ctl
  <2>1. IsPrefix(ctl', ctl)
    BY <1>2, <1>3 DEF IsPrefix
  <2> QED
    BY <2>1 DEF CaughtStep
<1>4. ASSUME NEW m, NEW t, Edits(m, t), t # <<"catch">>
      PROVE  CaughtStep
  <2>1. /\ m \in 0 .. Len(ctl) /\ m \in Nat
        /\ t = <<>> \/ (t = <<t[1]>> /\ t[1] \in Kinds)
    BY <1>4, EditTypes
  <2>2. /\ ctl' \in Seq(Kinds)
        /\ t # <<>> => Len(ctl') = m + 1 /\ ctl'[m + 1] = t[1]
        /\ \A i \in 1 .. m : ctl'[i] = ctl[i]
        /\ t = <<>> => Len(ctl') = m
    BY <1>4, EditKeeps
  <2>3. CASE t = <<>>
    <3>1. Len(ctl') = m /\ m <= Len(ctl)
      BY <1>2, <2>1, <2>2, <2>3
    <3>2. IsPrefix(ctl', ctl)
      BY <2>2, <3>1 DEF IsPrefix
    <3> QED
      BY <3>2 DEF CaughtStep
  <2>4. CASE t # <<>>
    <3>1. t[1] # "catch"
      BY <1>4, <2>1, <2>4
    <3>2. Last(ctl') # "catch"
      BY <2>2, <2>4, <3>1 DEF Last
    <3> QED
      BY <3>2 DEF CaughtStep
  <2> QED
    BY <2>3, <2>4
<1> QED
  BY <1>1, <1>3, <1>4 DEF Kept

\* Under the same conditions an error, however deep in calls and blocks, is
\* handled by the catch block of the innermost open try block.
THEOREM InnermostCatches ==
    ASSUME AllTame
    PROVE  Spec => CaughtByInnermost
<1>1. VInv /\ [Next]_vars => [CaughtStep]_vars
  <2>1. VInv => Tame
    BY DEF VInv, Tame, AllTame
  <2> QED
    BY <2>1, NextKept, CaughtOfKept
<1> QED
  BY <1>1, InvHolds, PTL DEF Spec, CaughtByInnermost, CaughtStep

=============================================================================
