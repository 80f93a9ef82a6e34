------------------------------ MODULE RelayProofs ------------------------------
(***************************************************************************)
(* Proofs about RelayChannel: no frame reaches a live channel out of turn  *)
(* (InSequence), and what the two ends rely on between their lock sections *)
(* (RelayInv) holds, for every window, number of sequence numbers, payload *)
(* size and bound.                                                         *)
(*                                                                         *)
(* The argument.  Proto relates the two ends to all that is between them.  *)
(* While both hold the session each direction is a Chain: the frames that  *)
(* a sender counts as pending are acknowledged, in a slot or on their way, *)
(* in that order, each numbered by its place modulo SeqNos.  When one end  *)
(* has left, the other still hears frames of the session, so what is in    *)
(* the air for it has its own description (Side), which needs no sender.   *)
(* Ends and Opened say how OPENED, CLOSE and ERROR follow each other, and  *)
(* Dates that session s of a link has epoch d + s, so that with fewer      *)
(* sessions than epochs (EpochsAssumption) the epoch of a frame tells its  *)
(* session.  The lemmas go from sequences to Proto, from Proto to the lock *)
(* sections, and from those to one lemma for each action.                  *)
(***************************************************************************)
EXTENDS RelayChannel, FiniteSetTheorems, TLAPS

-----------------------------------------------------------------------------
(* Counts and numbers of the frames in a sequence.                         *)

\* A frame of that type and epoch.
Of(f, type, e) == f.type = type /\ f.epoch = e

\* The frames of a type and an epoch among the first k.
Below(s, type, e, k) == {i \in 1..k : Of(s[i], type, e)}

\* They are numbered on from n.
Numbered(s, type, e, n) ==
  \A i \in DOMAIN s :
    Of(s[i], type, e) => s[i].seq = (n + Cardinality(Below(s, type, e, i - 1))) % SeqNos

\* A remainder is known by the division it is the rest of.
LEMMA Remainder ==
  ASSUME NEW a \in Int, NEW r \in 0..(SeqNos - 1), NEW q \in Int, a = SeqNos * q + r
  PROVE  a % SeqNos = r
BY RelayAssumption

\* The division theorem for sequence numbers.
LEMMA Division ==
  ASSUME NEW a \in Int
  PROVE  /\ a % SeqNos \in 0..(SeqNos - 1) /\ a \div SeqNos \in Int
         /\ a = SeqNos * (a \div SeqNos) + (a % SeqNos)
BY RelayAssumption

\* Sequence numbers are added modulo SeqNos.
LEMMA SeqSum ==
  ASSUME NEW a \in Int, NEW b \in Int PROVE (a + b) % SeqNos = ((a % SeqNos) + b) % SeqNos
<1> DEFINE q == a \div SeqNos
           r == a % SeqNos
           t == (r + b) % SeqNos
           p == (r + b) \div SeqNos
<1>1. /\ q \in Int /\ r \in Int /\ a = SeqNos * q + r BY Division
<1>2. /\ p \in Int /\ t \in 0..(SeqNos - 1) /\ r + b = SeqNos * p + t BY <1>1, Division
<1> HIDE DEF q, r, p, t
<1> DEFINE u == q + p
<1>3. a + b = SeqNos * u + t /\ u \in Int BY <1>1, <1>2, RelayAssumption
<1> HIDE DEF u
<1>4. (a + b) % SeqNos = t BY <1>1, <1>2, <1>3, Remainder
<1> QED BY <1>4 DEF t, r

\* A sequence number is its own remainder, and has a successor.
LEMMA SeqSmall == \A a \in SeqNo : a % SeqNos = a /\ NextSeq(a) \in SeqNo
BY RelayAssumption DEF NextSeq, SeqNo

\* The frames that are counted are finitely many.
LEMMA BelowFinite ==
  ASSUME NEW s, NEW type, NEW e, NEW k \in Nat
  PROVE  /\ IsFiniteSet(Below(s, type, e, k)) /\ Cardinality(Below(s, type, e, k)) \in Nat
         /\ Cardinality(Below(s, type, e, k)) <= k
<1>1. IsFiniteSet(1..k) /\ Cardinality(1..k) = k BY FS_Interval
<1>2. Below(s, type, e, k) \subseteq 1..k BY DEF Below
<1> QED BY <1>1, <1>2, FS_Subset, FS_CardinalityType

\* FramesOf counts the frames of the whole sequence.
LEMMA CountIs ==
  ASSUME NEW s \in Seq(Frames), NEW type, NEW e
  PROVE  /\ FramesOf(s, type, e) = Cardinality(Below(s, type, e, Len(s)))
         /\ FramesOf(s, type, e) \in Nat
<1>1. Len(s) \in Nat OBVIOUS
<1>2. {i \in DOMAIN s : s[i].type = type /\ s[i].epoch = e} = Below(s, type, e, Len(s))
  BY <1>1 DEF Below, Of
<1>3. FramesOf(s, type, e) = Cardinality(Below(s, type, e, Len(s))) BY <1>2 DEF FramesOf
<1> QED BY <1>1, <1>3, BelowFinite

\* Counting in a concatenation.
LEMMA BelowHead ==
  ASSUME NEW s \in Seq(Frames), NEW t \in Seq(Frames), NEW type, NEW e,
         NEW k \in 0..Len(s)
  PROVE  Below(s \o t, type, e, k) = Below(s, type, e, k)
<1>2. \A i \in 1..k : (s \o t)[i] = s[i] OBVIOUS
<1>3. \A i : i \in Below(s \o t, type, e, k) <=> i \in Below(s, type, e, k)
  BY <1>2 DEF Below
<1> QED BY <1>3

\* Moving a set of places to the right does not change how many they are.
LEMMA Shifted ==
  ASSUME NEW B, IsFiniteSet(B), NEW m \in Nat, B \subseteq Nat
  PROVE  IsFiniteSet({m + i : i \in B}) /\ Cardinality({m + i : i \in B}) = Cardinality(B)
<1> DEFINE D == {m + i : i \in B}
           f == [i \in B |-> m + i]
<1>1. f \in [B -> D] OBVIOUS
<1>2. \A i, j \in B : f[i] = f[j] => i = j OBVIOUS
<1>3. \A d \in D : \E i \in B : f[i] = d OBVIOUS
<1>4. f \in Bijection(B, D)
  BY <1>1, <1>2, <1>3 DEF Bijection, Injection, Surjection, IsInjective
<1> QED BY <1>4, FS_Bijection DEF ExistsBijection

\* The sizes of two sets with nothing in common add up.
LEMMA DisjointUnion ==
  ASSUME NEW A, IsFiniteSet(A), NEW D, IsFiniteSet(D), A \cap D = {}
  PROVE  Cardinality(A \cup D) = Cardinality(A) + Cardinality(D)
<1>1. Cardinality(A \cup D) = Cardinality(A) + Cardinality(D) - Cardinality(A \cap D)
  BY FS_Union
<1>2. Cardinality(A \cap D) = 0 BY FS_EmptySet
<1>3. Cardinality(A) \in Nat /\ Cardinality(D) \in Nat BY FS_CardinalityType
<1> QED BY <1>1, <1>2, <1>3

\* The frames of a concatenation up to a place of its second part.
LEMMA BelowTail ==
  ASSUME NEW s \in Seq(Frames), NEW t \in Seq(Frames), NEW type, NEW e,
         NEW k \in 0..Len(t)
  PROVE  Cardinality(Below(s \o t, type, e, Len(s) + k))
           = FramesOf(s, type, e) + Cardinality(Below(t, type, e, k))
<1> DEFINE m == Len(s)
           A == Below(s, type, e, m)
           B == Below(t, type, e, k)
           D == {m + i : i \in B}
<1>0. m \in Nat /\ Len(t) \in Nat /\ k \in Nat /\ k <= Len(t) OBVIOUS
<1>1. \A i \in 1..m : (s \o t)[i] = s[i] OBVIOUS
<1>2. \A i \in 1..Len(t) : (s \o t)[m + i] = t[i] OBVIOUS
<1>3. FramesOf(s, type, e) = Cardinality(A) BY CountIs
<1> HIDE DEF m
<1>4. B \subseteq 1..k /\ A \subseteq 1..m BY DEF Below
<1>5. IsFiniteSet(A) /\ IsFiniteSet(B) BY <1>0, BelowFinite
<1>6. B \subseteq Nat BY <1>0, <1>4
<1>7. IsFiniteSet(D) /\ Cardinality(D) = Cardinality(B) BY <1>0, <1>5, <1>6, Shifted
<1>8. \A i : i \in Below(s \o t, type, e, m + k) <=> i \in A \cup D
  <2>1. ASSUME NEW i \in Below(s \o t, type, e, m + k) PROVE i \in A \cup D
    <3>1. i \in 1..(m + k) /\ Of((s \o t)[i], type, e) BY DEF Below
    <3>2. CASE i <= m
      <4>1. i \in 1..m BY <1>0, <3>1, <3>2
      <4> QED BY <1>1, <3>1, <4>1 DEF Below
    <3>3. CASE i > m
      <4>1. i - m \in 1..k /\ m + (i - m) = i BY <1>0, <3>1, <3>3
      <4>2. i - m \in 1..Len(t) BY <1>0, <4>1
      <4>3. (s \o t)[i] = t[i - m] BY <1>2, <4>1, <4>2
      <4>4. i - m \in B BY <3>1, <4>1, <4>3 DEF Below
      <4> QED BY <4>1, <4>4
    <3> QED BY <1>0, <3>1, <3>2, <3>3
  <2>2. ASSUME NEW i \in A PROVE i \in Below(s \o t, type, e, m + k)
    <3>1. i \in 1..m /\ Of(s[i], type, e) BY DEF Below
    <3>2. i \in 1..(m + k) BY <1>0, <3>1
    <3> QED BY <1>1, <3>1, <3>2 DEF Below
  <2>3. ASSUME NEW i \in B PROVE m + i \in Below(s \o t, type, e, m + k)
    <3>1. i \in 1..k /\ Of(t[i], type, e) BY DEF Below
    <3>2. i \in 1..Len(t) /\ m + i \in 1..(m + k) BY <1>0, <3>1
    <3> QED BY <1>2, <3>1, <3>2 DEF Below
  <2> QED BY <2>1, <2>2, <2>3
<1>9. Below(s \o t, type, e, m + k) = A \cup D BY <1>8
<1>10. A \cap D = {}
  <2>1. \A i \in A : i <= m BY <1>0, <1>4
  <2>2. \A i \in D : i > m BY <1>0, <1>4
  <2>3. \A i \in A : i \in Int BY <1>0, <1>4
  <2> QED BY <1>0, <2>1, <2>2, <2>3
<1>11. Cardinality(A \cup D) = Cardinality(A) + Cardinality(D)
  BY <1>5, <1>7, <1>10, DisjointUnion
<1> QED BY <1>3, <1>7, <1>9, <1>11 DEF m

\* Counting in a concatenation.
LEMMA CountConcat ==
  ASSUME NEW s \in Seq(Frames), NEW t \in Seq(Frames), NEW type, NEW e
  PROVE  FramesOf(s \o t, type, e) = FramesOf(s, type, e) + FramesOf(t, type, e)
<1>1. s \o t \in Seq(Frames) /\ Len(s \o t) = Len(s) + Len(t) OBVIOUS
<1>2. Len(t) \in 0..Len(t) OBVIOUS
<1>3. Cardinality(Below(s \o t, type, e, Len(s) + Len(t)))
        = FramesOf(s, type, e) + Cardinality(Below(t, type, e, Len(t)))
  BY <1>2, BelowTail
<1>4. FramesOf(s \o t, type, e) = Cardinality(Below(s \o t, type, e, Len(s \o t)))
  BY <1>1, CountIs
<1>5. FramesOf(t, type, e) = Cardinality(Below(t, type, e, Len(t))) BY CountIs
<1> QED BY <1>1, <1>3, <1>4, <1>5

\* A concatenation is numbered on from n when its first part is, and its
\* second from where the first ends.
LEMMA NumberedConcat ==
  ASSUME NEW s \in Seq(Frames), NEW t \in Seq(Frames), NEW type, NEW e, NEW n \in Nat
  PROVE  Numbered(s \o t, type, e, n)
           <=> /\ Numbered(s, type, e, n)
               /\ Numbered(t, type, e, (n + FramesOf(s, type, e)) % SeqNos)
<1> DEFINE m == Len(s)
           c == FramesOf(s, type, e)
<1>0. m \in Nat /\ Len(t) \in Nat /\ DOMAIN s = 1..m /\ DOMAIN t = 1..Len(t)
      /\ DOMAIN (s \o t) = 1..(m + Len(t)) OBVIOUS
<1>1. \A i \in 1..m : (s \o t)[i] = s[i] OBVIOUS
<1>2. \A i \in 1..Len(t) : (s \o t)[m + i] = t[i] OBVIOUS
<1>3. c \in Nat BY CountIs
<1>4. \A i \in 1..m : Below(s \o t, type, e, i - 1) = Below(s, type, e, i - 1)
  <2> TAKE i \in 1..m
  <2>1. i - 1 \in 0..Len(s) BY <1>0
  <2> QED BY <2>1, BelowHead
<1>5. \A i \in 1..Len(t) :
        (n + Cardinality(Below(s \o t, type, e, m + i - 1))) % SeqNos
               = (((n + c) % SeqNos) + Cardinality(Below(t, type, e, i - 1))) % SeqNos
  <2> TAKE i \in 1..Len(t)
  <2>0. i - 1 \in Nat BY <1>0
  <2>1. Cardinality(Below(t, type, e, i - 1)) \in Nat BY <2>0, BelowFinite
  <2>2. m + i - 1 = m + (i - 1) /\ i - 1 \in 0..Len(t) BY <1>0
  <2>3. Cardinality(Below(s \o t, type, e, m + (i - 1)))
          = c + Cardinality(Below(t, type, e, i - 1))
    BY <2>2, BelowTail
  <2>4. n + (c + Cardinality(Below(t, type, e, i - 1)))
          = (n + c) + Cardinality(Below(t, type, e, i - 1))
    BY <1>3, <2>1
  <2>5. n + c \in Int BY <1>3
  <2>6. Cardinality(Below(t, type, e, i - 1)) \in Int BY <2>1
  <2>7. ((n + c) + Cardinality(Below(t, type, e, i - 1))) % SeqNos
          = (((n + c) % SeqNos) + Cardinality(Below(t, type, e, i - 1))) % SeqNos
    BY <2>5, <2>6, SeqSum
  <2> QED BY <2>2, <2>3, <2>4, <2>7
<1> HIDE DEF m, c
<1>6. ASSUME Numbered(s \o t, type, e, n)
      PROVE  Numbered(s, type, e, n) /\ Numbered(t, type, e, (n + c) % SeqNos)
  <2>1. Numbered(s, type, e, n)
    <3> SUFFICES ASSUME NEW i \in 1..m, Of(s[i], type, e)
                 PROVE  s[i].seq = (n + Cardinality(Below(s, type, e, i - 1))) % SeqNos
      BY <1>0 DEF Numbered
    <3>1. i \in DOMAIN (s \o t) /\ (s \o t)[i] = s[i] BY <1>0, <1>1
    <3> QED BY <1>4, <1>6, <3>1 DEF Numbered
  <2>2. ASSUME NEW i \in 1..Len(t), Of(t[i], type, e)
        PROVE  t[i].seq = (((n + c) % SeqNos) + Cardinality(Below(t, type, e, i - 1))) % SeqNos
    <3>1. m + i \in DOMAIN (s \o t) /\ (s \o t)[m + i] = t[i] BY <1>0, <1>2
    <3>2. Of((s \o t)[m + i], type, e) BY <2>2, <3>1
    <3>3. (s \o t)[m + i].seq
            = (n + Cardinality(Below(s \o t, type, e, (m + i) - 1))) % SeqNos
      BY <1>6, <3>1, <3>2 DEF Numbered
    <3>4. (m + i) - 1 = m + i - 1 BY <1>0
    <3>2a. t[i].seq = (n + Cardinality(Below(s \o t, type, e, m + i - 1))) % SeqNos
      BY <3>1, <3>3, <3>4
    <3> QED BY <1>5, <3>2a
  <2> QED BY <1>0, <2>1, <2>2 DEF Numbered
<1>7. ASSUME Numbered(s, type, e, n), Numbered(t, type, e, (n + c) % SeqNos)
      PROVE  Numbered(s \o t, type, e, n)
  <2> SUFFICES ASSUME NEW i \in 1..(m + Len(t)), Of((s \o t)[i], type, e)
               PROVE  (s \o t)[i].seq
                        = (n + Cardinality(Below(s \o t, type, e, i - 1))) % SeqNos
    BY <1>0 DEF Numbered
  <2>1. CASE i <= m
    <3>1. i \in 1..m BY <1>0, <2>1
    <3> QED BY <1>0, <1>1, <1>4, <1>7, <3>1 DEF Numbered
  <2>2. CASE i > m
    <3>1. i - m \in 1..Len(t) /\ m + (i - m) = i /\ m + (i - m) - 1 = i - 1 BY <1>0, <2>2
    <3>2. (s \o t)[i] = t[i - m] BY <1>2, <3>1
    <3>3. t[i - m].seq
            = (((n + c) % SeqNos) + Cardinality(Below(t, type, e, (i - m) - 1))) % SeqNos
      BY <1>0, <1>7, <3>1, <3>2 DEF Numbered
    <3>4. (n + Cardinality(Below(s \o t, type, e, m + (i - m) - 1))) % SeqNos
            = (((n + c) % SeqNos) + Cardinality(Below(t, type, e, (i - m) - 1))) % SeqNos
      BY <1>5, <3>1
    <3> QED BY <3>1, <3>2, <3>3, <3>4
  <2> QED BY <1>0, <2>1, <2>2
<1> QED BY <1>6, <1>7 DEF c

\* No frame of that kind: nothing to count and nothing to number.
LEMMA CountNone ==
  ASSUME NEW s \in Seq(Frames), NEW type, NEW e
  PROVE  /\ (\A i \in DOMAIN s : ~Of(s[i], type, e)) <=> FramesOf(s, type, e) = 0
         /\ FramesOf(s, type, e) = 0 => \A n : Numbered(s, type, e, n)
<1>1. Len(s) \in Nat /\ DOMAIN s = 1..Len(s) OBVIOUS
<1>2. IsFiniteSet(Below(s, type, e, Len(s))) BY <1>1, BelowFinite
<1>3. FramesOf(s, type, e) = 0 <=> Below(s, type, e, Len(s)) = {} BY <1>2, CountIs, FS_EmptySet
<1>4. (\A i \in DOMAIN s : ~Of(s[i], type, e)) <=> Below(s, type, e, Len(s)) = {}
  <2>1. \A i : i \in Below(s, type, e, Len(s)) <=> i \in DOMAIN s /\ Of(s[i], type, e)
    BY <1>1 DEF Below
  <2> QED BY <2>1
<1>5. (\A i \in DOMAIN s : ~Of(s[i], type, e)) => \A n : Numbered(s, type, e, n)
  BY DEF Numbered
<1> QED BY <1>3, <1>4, <1>5

\* All frames are of that kind: each is counted.
LEMMA CountAll ==
  ASSUME NEW s \in Seq(Frames), NEW type, NEW e, \A i \in DOMAIN s : Of(s[i], type, e)
  PROVE  /\ FramesOf(s, type, e) = Len(s)
         /\ \A n : Numbered(s, type, e, n)
                     <=> \A i \in DOMAIN s : s[i].seq = (n + (i - 1)) % SeqNos
<1>1. Len(s) \in Nat /\ DOMAIN s = 1..Len(s) OBVIOUS
<1>2. ASSUME NEW k \in 0..Len(s) PROVE Cardinality(Below(s, type, e, k)) = k
  <2>1. \A i : i \in Below(s, type, e, k) <=> i \in 1..k BY <1>1 DEF Below
  <2>2. Below(s, type, e, k) = 1..k BY <2>1
  <2>3. k \in Int /\ 1 \in Int /\ (1 > k => k = 0) BY <1>1
  <2>4. Cardinality(1..k) = IF 1 > k THEN 0 ELSE k - 1 + 1 BY <2>3, FS_Interval
  <2> QED BY <2>2, <2>3, <2>4
<1>3. FramesOf(s, type, e) = Len(s)
  <2>1. Len(s) \in 0..Len(s) BY <1>1
  <2> QED BY <1>2, <2>1, CountIs
<1>4. \A i \in DOMAIN s : Cardinality(Below(s, type, e, i - 1)) = i - 1
  <2> TAKE i \in DOMAIN s
  <2>1. i - 1 \in 0..Len(s) BY <1>1
  <2> QED BY <1>2, <2>1
<1> QED BY <1>3, <1>4 DEF Numbered

-----------------------------------------------------------------------------
(* One direction of a session, from the sender to the receiver and back.   *)

\* One direction between a sender and a receiver: the frames it has to account
\* for are, oldest first, those whose ACK is on its way back, those in the slots
\* of the receiver and those on their way out; each bears the number that its
\* place gives it.
Chain(oldest, count, ack, rx, data, expected, e) ==
  /\ Numbered(ack, "ACK", e, oldest)
  /\ \A i \in DOMAIN rx : rx[i].seq = (oldest + FramesOf(ack, "ACK", e) + (i - 1)) % SeqNos
  /\ expected = (oldest + FramesOf(ack, "ACK", e) + Len(rx)) % SeqNos
  /\ Numbered(data, "DATA", e, expected)
  /\ count = FramesOf(ack, "ACK", e) + Len(rx) + FramesOf(data, "DATA", e)

\* For the numbers of a kind one sequence is as good as the other.
Alike(s, t, type, e) ==
  /\ FramesOf(s, type, e) = FramesOf(t, type, e)
  /\ \A n \in SeqNo : Numbered(s, type, e, n) <=> Numbered(t, type, e, n)

\* The members of a concatenation.
LEMMA SetConcat ==
  ASSUME NEW S, NEW s \in Seq(S), NEW t \in Seq(S)
  PROVE  ToSet(s \o t) = ToSet(s) \cup ToSet(t)
<1>1. \A i \in 1..Len(s) : (s \o t)[i] = s[i] OBVIOUS
<1>2. \A i \in 1..Len(t) : (s \o t)[Len(s) + i] = t[i] OBVIOUS
<1>3. /\ DOMAIN s = 1..Len(s) /\ DOMAIN t = 1..Len(t)
      /\ DOMAIN (s \o t) = 1..(Len(s) + Len(t)) /\ Len(s) \in Nat /\ Len(t) \in Nat
  OBVIOUS
<1>4. ASSUME NEW x \in ToSet(s \o t) PROVE x \in ToSet(s) \cup ToSet(t)
  <2>1. PICK i \in 1..(Len(s) + Len(t)) : x = (s \o t)[i] BY <1>3 DEF ToSet
  <2>2. CASE i <= Len(s)
    <3>1. i \in 1..Len(s) BY <1>3, <2>2
    <3> QED BY <1>1, <1>3, <2>1, <3>1 DEF ToSet
  <2>3. CASE i > Len(s)
    <3>1. i - Len(s) \in 1..Len(t) /\ Len(s) + (i - Len(s)) = i BY <1>3, <2>3
    <3>2. (s \o t)[i] = t[i - Len(s)] BY <1>2, <3>1
    <3> QED BY <1>3, <2>1, <3>1, <3>2 DEF ToSet
  <2> QED BY <1>3, <2>2, <2>3
<1>5. ASSUME NEW x \in ToSet(s) PROVE x \in ToSet(s \o t)
  <2>1. PICK i \in 1..Len(s) : x = s[i] BY <1>3 DEF ToSet
  <2>2. i \in DOMAIN (s \o t) /\ (s \o t)[i] = s[i] BY <1>1, <1>3
  <2> QED BY <2>1, <2>2 DEF ToSet
<1>6. ASSUME NEW x \in ToSet(t) PROVE x \in ToSet(s \o t)
  <2>1. PICK i \in 1..Len(t) : x = t[i] BY <1>3 DEF ToSet
  <2>2. Len(s) + i \in DOMAIN (s \o t) /\ (s \o t)[Len(s) + i] = t[i] BY <1>2, <1>3
  <2> QED BY <2>1, <2>2 DEF ToSet
<1> QED BY <1>4, <1>5, <1>6

\* The members of the empty sequence and of one of one member.
LEMMA SetOne ==
  /\ ToSet(<<>>) = {}
  /\ \A x : ToSet(<<x>>) = {x}
BY DEF ToSet

\* A queue is its head and its tail.
LEMMA HeadTail ==
  ASSUME NEW S, NEW s \in Seq(S), s # <<>>
  PROVE  /\ Head(s) \in S /\ Tail(s) \in Seq(S) /\ s = <<Head(s)>> \o Tail(s)
OBVIOUS

\* One frame: counted if it is of that kind, and then its number is the first.
LEMMA One ==
  ASSUME NEW f \in Frames, NEW type, NEW e
  PROVE  /\ ~Of(f, type, e) => FramesOf(<<f>>, type, e) = 0
         /\ Of(f, type, e) => /\ FramesOf(<<f>>, type, e) = 1
                              /\ \A n \in SeqNo : Numbered(<<f>>, type, e, n) <=> f.seq = n
<1>1. <<f>> \in Seq(Frames) /\ DOMAIN <<f>> = {1} /\ Len(<<f>>) = 1 /\ <<f>>[1] = f OBVIOUS
<1>2. ~Of(f, type, e) => FramesOf(<<f>>, type, e) = 0 BY <1>1, CountNone
<1>3. ASSUME Of(f, type, e)
      PROVE  /\ FramesOf(<<f>>, type, e) = 1
             /\ \A n \in SeqNo : Numbered(<<f>>, type, e, n) <=> f.seq = n
  <2>1. \A i \in DOMAIN <<f>> : Of(<<f>>[i], type, e) BY <1>1, <1>3
  <2>2. FramesOf(<<f>>, type, e) = Len(<<f>>) BY <1>1, <2>1, CountAll
  <2>3. ASSUME NEW n \in SeqNo PROVE Numbered(<<f>>, type, e, n) <=> f.seq = n
    <3>1. Numbered(<<f>>, type, e, n)
            <=> f.seq = (n + Cardinality(Below(<<f>>, type, e, 0))) % SeqNos
      BY <1>1, <1>3 DEF Numbered
    <3>1a. Cardinality(Below(<<f>>, type, e, 0)) = 0
      BY BelowFinite
    <3>2. n + 0 = n BY DEF SeqNo
    <3>3. (n + 0) % SeqNos = n BY <3>2, SeqSmall
    <3> QED BY <3>1, <3>1a, <3>3
  <2> QED BY <1>1, <2>2, <2>3
<1> QED BY <1>2, <1>3

\* Frames of another kind are dropped from the middle of a sequence.
LEMMA AlikeDrop ==
  ASSUME NEW a \in Seq(Frames), NEW x \in Seq(Frames), NEW b \in Seq(Frames), NEW type, NEW e,
         FramesOf(x, type, e) = 0
  PROVE  Alike((a \o x) \o b, a \o b, type, e)
<1> DEFINE A == FramesOf(a, type, e)
           B == FramesOf(b, type, e)
<1>1. a \o x \in Seq(Frames) /\ a \o b \in Seq(Frames) OBVIOUS
<1>2. A \in Nat /\ B \in Nat BY CountIs
<1>3. FramesOf(a \o x, type, e) = A BY <1>2, CountConcat
<1>4a. FramesOf((a \o x) \o b, type, e) = FramesOf(a \o x, type, e) + B
  <2>1. PICK y \in Seq(Frames) : y = a \o x BY <1>1
  <2>2. FramesOf(y \o b, type, e) = FramesOf(y, type, e) + B BY CountConcat
  <2> QED BY <2>1, <2>2
<1>4b. FramesOf(a \o b, type, e) = A + B BY CountIs, CountConcat
<1>4. FramesOf((a \o x) \o b, type, e) = FramesOf(a \o b, type, e) BY <1>3, <1>4a, <1>4b
<1>5. ASSUME NEW n \in SeqNo
      PROVE  Numbered((a \o x) \o b, type, e, n) <=> Numbered(a \o b, type, e, n)
  <2>1. n \in Nat BY DEF SeqNo
  <2>2. Numbered(x, type, e, (n + A) % SeqNos) BY CountNone
  <2>3. Numbered(a \o x, type, e, n) <=> Numbered(a, type, e, n) BY <2>1, <2>2, NumberedConcat
  <2>4. Numbered((a \o x) \o b, type, e, n)
          <=> Numbered(a \o x, type, e, n) /\ Numbered(b, type, e, (n + A) % SeqNos)
    BY <1>1, <1>3, <2>1, NumberedConcat
  <2>5. Numbered(a \o b, type, e, n)
          <=> Numbered(a, type, e, n) /\ Numbered(b, type, e, (n + A) % SeqNos)
    BY <2>1, NumberedConcat
  <2> QED BY <2>3, <2>4, <2>5
<1> QED BY <1>4, <1>5 DEF Alike

\* A chain holds of any two sequences that carry the same ACK and DATA.
LEMMA ChainAlike ==
  ASSUME NEW o \in SeqNo, NEW n \in Nat, NEW rx, NEW ex \in SeqNo, NEW e,
         NEW ack, NEW ack2, NEW data, NEW data2,
         Alike(ack, ack2, "ACK", e), Alike(data, data2, "DATA", e),
         Chain(o, n, ack, rx, data, ex, e)
  PROVE  Chain(o, n, ack2, rx, data2, ex, e)
BY DEF Chain, Alike

\* A chain says how many slots there are and how they are numbered.
LEMMA ChainSlots ==
  ASSUME NEW o, NEW n, NEW rx, NEW rx2, NEW ex, NEW e, NEW ack, NEW data,
         DOMAIN rx2 = DOMAIN rx, Len(rx2) = Len(rx), \A i \in DOMAIN rx : rx2[i].seq = rx[i].seq,
         Chain(o, n, ack, rx, data, ex, e)
  PROVE  Chain(o, n, ack, rx2, data, ex, e)
BY DEF Chain

\* The chain of a direction that has carried nothing.
LEMMA ChainEmpty ==
  ASSUME NEW e, NEW ack \in Seq(Frames), NEW data \in Seq(Frames),
         FramesOf(ack, "ACK", e) = 0, FramesOf(data, "DATA", e) = 0
  PROVE  Chain(0, 0, ack, <<>>, data, 0, e)
<1>1. 0 \in SeqNo BY RelayAssumption DEF SeqNo
<1>2. 0 % SeqNos = 0 BY <1>1, SeqSmall
<1>3. Numbered(ack, "ACK", e, 0) /\ Numbered(data, "DATA", e, 0) BY CountNone
<1> QED BY <1>2, <1>3 DEF Chain

\* The sender of a chain puts frames in.
LEMMA ChainSend ==
  ASSUME NEW o \in SeqNo, NEW n \in Nat, NEW S, NEW rx \in Seq(S), NEW ex \in SeqNo, NEW e,
         NEW ack \in Seq(Frames), NEW data \in Seq(Frames), NEW t \in Seq(Frames),
         \A i \in DOMAIN t : Of(t[i], "DATA", e) /\ t[i].seq = (o + n + (i - 1)) % SeqNos,
         Chain(o, n, ack, rx, data, ex, e)
  PROVE  Chain(o, n + Len(t), ack, rx, data \o t, ex, e)
<1> DEFINE A == FramesOf(ack, "ACK", e)
           D == FramesOf(data, "DATA", e)
<1>1. A \in Nat /\ D \in Nat /\ Len(rx) \in Nat /\ o \in Nat /\ ex \in Nat
      /\ DOMAIN t = 1..Len(t) /\ Len(t) \in Nat
  BY CountIs DEF SeqNo
<1>2. FramesOf(t, "DATA", e) = Len(t) BY CountAll
<1>3. FramesOf(data \o t, "DATA", e) = D + Len(t) BY <1>2, CountConcat
<1>4. n = A + Len(rx) + D /\ ex = (o + A + Len(rx)) % SeqNos BY DEF Chain
<1> HIDE DEF A, D
<1>5. (ex + D) % SeqNos = (o + n) % SeqNos
  <2>1. o + A + Len(rx) \in Int /\ D \in Int BY <1>1
  <2>2. ((o + A + Len(rx)) + D) % SeqNos = (ex + D) % SeqNos BY <1>4, <2>1, SeqSum
  <2>3. (o + A + Len(rx)) + D = o + n BY <1>1, <1>4
  <2> QED BY <2>2, <2>3
<1>6. \A i \in DOMAIN t : t[i].seq = (((o + n) % SeqNos) + (i - 1)) % SeqNos
  <2> TAKE i \in DOMAIN t
  <2>1. o + n \in Int /\ i - 1 \in Int BY <1>1
  <2>2. ((o + n) + (i - 1)) % SeqNos = (((o + n) % SeqNos) + (i - 1)) % SeqNos
    BY <2>1, SeqSum
  <2> QED BY <2>2
<1>7. Numbered(t, "DATA", e, (o + n) % SeqNos) BY <1>6, CountAll
<1>8. Numbered(data \o t, "DATA", e, ex)
  BY <1>1, <1>5, <1>7, NumberedConcat DEF Chain, D
<1>9. n + Len(t) = A + Len(rx) + (D + Len(t)) BY <1>1, <1>4
<1> QED BY <1>3, <1>8, <1>9 DEF Chain, A, D

\* The receiver takes the next frame into a slot.
LEMMA ChainTake ==
  ASSUME NEW o \in SeqNo, NEW n \in Nat, NEW S, NEW rx \in Seq(S), NEW x \in S, NEW ex \in SeqNo,
         NEW e, NEW ack \in Seq(Frames), NEW f \in Frames, NEW data \in Seq(Frames),
         Of(f, "DATA", e), x.seq = f.seq,
         Chain(o, n, ack, rx, <<f>> \o data, ex, e)
  PROVE  /\ f.seq = ex /\ Len(rx) < n
         /\ Chain(o, n, ack, Append(rx, x), data, NextSeq(ex), e)
<1> DEFINE A == FramesOf(ack, "ACK", e)
           D == FramesOf(data, "DATA", e)
           r == Append(rx, x)
<1>1. /\ A \in Nat /\ D \in Nat /\ Len(rx) \in Nat /\ o \in Nat /\ ex \in Nat
  BY CountIs DEF SeqNo
<1>2. <<f>> \in Seq(Frames) OBVIOUS
<1>3. FramesOf(<<f>>, "DATA", e) = 1 /\ (Numbered(<<f>>, "DATA", e, ex) <=> f.seq = ex) BY One
<1>4. FramesOf(<<f>> \o data, "DATA", e) = FramesOf(<<f>>, "DATA", e) + D
  <2>1. PICK u \in Seq(Frames) : u = <<f>> BY <1>2
  <2>2. FramesOf(u \o data, "DATA", e) = FramesOf(u, "DATA", e) + D BY CountConcat
  <2> QED BY <2>1, <2>2
<1>5. Numbered(<<f>> \o data, "DATA", e, ex) BY DEF Chain
<1>6. f.seq = ex /\ Numbered(data, "DATA", e, (ex + 1) % SeqNos)
  BY <1>1, <1>2, <1>3, <1>5, NumberedConcat
<1>7. n = A + Len(rx) + (1 + D) /\ ex = (o + A + Len(rx)) % SeqNos BY <1>3, <1>4 DEF Chain
<1>8. \A i \in DOMAIN rx : rx[i].seq = (o + A + (i - 1)) % SeqNos BY DEF Chain
<1> HIDE DEF A, D
<1>9. (o + A + (Len(rx) + 1)) % SeqNos = NextSeq(ex)
  <2>1. o + A + Len(rx) \in Int /\ 1 \in Int BY <1>1
  <2>2. ((o + A + Len(rx)) + 1) % SeqNos = (ex + 1) % SeqNos BY <1>7, <2>1, SeqSum
  <2>3. (o + A + Len(rx)) + 1 = o + A + (Len(rx) + 1) BY <1>1
  <2> QED BY <2>2, <2>3 DEF NextSeq
<1>10. /\ Len(r) = Len(rx) + 1 /\ DOMAIN r = 1..(Len(rx) + 1)
       /\ \A i \in 1..Len(rx) : r[i] = rx[i]
       /\ r[Len(rx) + 1] = x
       /\ DOMAIN rx = 1..Len(rx)
  OBVIOUS
<1> HIDE DEF r
<1>11. \A i \in DOMAIN r : r[i].seq = (o + A + (i - 1)) % SeqNos
  <2> TAKE i \in DOMAIN r
  <2>1. CASE i \in 1..Len(rx) BY <1>8, <1>10, <2>1
  <2>2. CASE i = Len(rx) + 1
    <3>1. o + A + (i - 1) = o + A + Len(rx) BY <1>1, <2>2
    <3> QED BY <1>6, <1>7, <1>10, <2>2, <3>1
  <2>3. i \in 1..Len(rx) \/ i = Len(rx) + 1 BY <1>1, <1>10
  <2> QED BY <2>1, <2>2, <2>3
<1>12. Numbered(data, "DATA", e, NextSeq(ex)) BY <1>6 DEF NextSeq
<1>13. n = A + (Len(rx) + 1) + D /\ Len(rx) < n BY <1>1, <1>7
<1>14. Chain(o, n, ack, r, data, NextSeq(ex), e)
  BY <1>9, <1>10, <1>11, <1>12, <1>13 DEF Chain, A, D
<1> QED BY <1>6, <1>13, <1>14 DEF r

\* The receiver acknowledges the first m slots.
LEMMA ChainAckOut ==
  ASSUME NEW o \in SeqNo, NEW n \in Nat, NEW S, NEW rx \in Seq(S), NEW ex \in SeqNo, NEW e,
         NEW ack \in Seq(Frames), NEW data \in Seq(Frames), NEW t \in Seq(Frames),
         NEW rx2 \in Seq(S), Len(t) <= Len(rx), Len(rx2) = Len(rx) - Len(t),
         \A i \in 1..Len(rx2) : rx2[i] = rx[i + Len(t)],
         \A i \in DOMAIN t : Of(t[i], "ACK", e) /\ t[i].seq = rx[i].seq,
         Chain(o, n, ack, rx, data, ex, e)
  PROVE  Chain(o, n, ack \o t, rx2, data, ex, e)
<1> DEFINE A == FramesOf(ack, "ACK", e)
           m == Len(t)
           R == Len(rx)
<1>1. A \in Nat /\ R \in Nat /\ o \in Nat /\ m \in Nat /\ DOMAIN t = 1..m /\ DOMAIN rx = 1..R
      /\ DOMAIN rx2 = 1..(R - m) /\ m <= R /\ Len(rx2) = R - m
  BY CountIs DEF SeqNo
<1>2. FramesOf(t, "ACK", e) = m BY CountAll
<1>3. FramesOf(ack \o t, "ACK", e) = A + m BY <1>2, CountConcat
<1>4. \A i \in DOMAIN rx : rx[i].seq = (o + A + (i - 1)) % SeqNos BY DEF Chain
<1>5. /\ n = A + R + FramesOf(data, "DATA", e) /\ ex = (o + A + R) % SeqNos
      /\ Numbered(ack, "ACK", e, o) /\ Numbered(data, "DATA", e, ex) BY DEF Chain
<1> HIDE DEF A, m, R
<1>6. \A i \in DOMAIN t : t[i].seq = (((o + A) % SeqNos) + (i - 1)) % SeqNos
  <2> TAKE i \in DOMAIN t
  <2>1. o + A \in Int /\ i - 1 \in Int /\ i \in DOMAIN rx BY <1>1
  <2>2. ((o + A) + (i - 1)) % SeqNos = (((o + A) % SeqNos) + (i - 1)) % SeqNos
    BY <2>1, SeqSum
  <2> QED BY <1>4, <2>1, <2>2
<1>7. Numbered(t, "ACK", e, (o + A) % SeqNos) BY <1>6, CountAll
<1>8. Numbered(ack \o t, "ACK", e, o) BY <1>1, <1>5, <1>7, NumberedConcat DEF A
<1>9. \A i \in DOMAIN rx2 : rx2[i].seq = (o + (A + m) + (i - 1)) % SeqNos
  <2> TAKE i \in DOMAIN rx2
  <2>1. i + m \in DOMAIN rx /\ o + A + ((i + m) - 1) = o + (A + m) + (i - 1) BY <1>1
  <2>2. rx2[i] = rx[i + m] BY <1>1 DEF m
  <2> QED BY <1>4, <2>1, <2>2
<1>10. o + (A + m) + (R - m) = o + A + R /\ (A + m) + (R - m) = A + R BY <1>1
<1> QED BY <1>1, <1>3, <1>5, <1>8, <1>9, <1>10 DEF Chain

\* The sender hears of the oldest one.
LEMMA ChainAckIn ==
  ASSUME NEW o \in SeqNo, NEW n \in Nat, NEW S, NEW rx \in Seq(S), NEW ex \in SeqNo, NEW e,
         NEW f \in Frames, NEW ack \in Seq(Frames), NEW data \in Seq(Frames),
         Of(f, "ACK", e), Chain(o, n, <<f>> \o ack, rx, data, ex, e)
  PROVE  /\ n > 0 /\ f.seq = o
         /\ Chain(NextSeq(o), n - 1, ack, rx, data, ex, e)
<1> DEFINE A == FramesOf(ack, "ACK", e)
           D == FramesOf(data, "DATA", e)
           R == Len(rx)
<1>1. A \in Nat /\ D \in Nat /\ R \in Nat /\ o \in Nat /\ DOMAIN rx = 1..R
  BY CountIs DEF SeqNo
<1>2. <<f>> \in Seq(Frames) OBVIOUS
<1>3. FramesOf(<<f>>, "ACK", e) = 1 /\ (Numbered(<<f>>, "ACK", e, o) <=> f.seq = o) BY One
<1>4. FramesOf(<<f>> \o ack, "ACK", e) = FramesOf(<<f>>, "ACK", e) + A
  <2>1. PICK u \in Seq(Frames) : u = <<f>> BY <1>2
  <2>2. FramesOf(u \o ack, "ACK", e) = FramesOf(u, "ACK", e) + A BY CountConcat
  <2> QED BY <2>1, <2>2
<1>5. Numbered(<<f>> \o ack, "ACK", e, o) BY DEF Chain
<1>6. f.seq = o /\ Numbered(ack, "ACK", e, (o + 1) % SeqNos)
  BY <1>1, <1>2, <1>3, <1>5, NumberedConcat
<1>7. /\ n = (1 + A) + R + D /\ ex = (o + (1 + A) + R) % SeqNos
      /\ \A i \in DOMAIN rx : rx[i].seq = (o + (1 + A) + (i - 1)) % SeqNos
      /\ Numbered(data, "DATA", e, ex)
  BY <1>3, <1>4 DEF Chain
<1> HIDE DEF A, D, R
<1>8. ASSUME NEW k \in Int PROVE (NextSeq(o) + (A + k)) % SeqNos = (o + (1 + A) + k) % SeqNos
  <2>1. o + 1 \in Int /\ A + k \in Int BY <1>1
  <2>2. ((o + 1) + (A + k)) % SeqNos = (((o + 1) % SeqNos) + (A + k)) % SeqNos
    BY <2>1, SeqSum
  <2>3. (o + 1) + (A + k) = o + (1 + A) + k BY <1>1
  <2> QED BY <2>2, <2>3 DEF NextSeq
<1>9. NextSeq(o) \in Nat BY SeqSmall DEF SeqNo
<1>10. \A i \in DOMAIN rx : rx[i].seq = (NextSeq(o) + A + (i - 1)) % SeqNos
  <2> TAKE i \in DOMAIN rx
  <2>1. i - 1 \in Int BY <1>1
  <2>2. NextSeq(o) + (A + (i - 1)) = NextSeq(o) + A + (i - 1) BY <1>1, <1>9, <2>1
  <2> QED BY <1>7, <1>8, <2>1, <2>2
<1>11. ex = (NextSeq(o) + A + R) % SeqNos
  <2>1. NextSeq(o) + (A + R) = NextSeq(o) + A + R BY <1>1, <1>9
  <2>2. R \in Int BY <1>1
  <2> QED BY <1>7, <1>8, <2>1, <2>2
<1>12. n > 0 /\ n - 1 = A + R + D BY <1>1, <1>7
<1>13. Numbered(ack, "ACK", e, NextSeq(o)) BY <1>6 DEF NextSeq
<1> QED BY <1>6, <1>7, <1>10, <1>11, <1>12, <1>13 DEF Chain, A, D, R

-----------------------------------------------------------------------------
(* What the two ends and the frames between them have to do with each other. *)

\* The frames that end a session.
Terminal     == {"CLOSE", "ERROR"}
\* The recorder is in a session that it has not left.
InSession(c) == c.state \in {"Opening", "Open", "PeerClosed"}
\* DATA and ACK may still be exchanged.
Streaming(c) == c.state \in {"Opening", "Open"}

\* Both ends hold the session.
Met(c, p) == Streaming(c) /\ Live(p) /\ p.epoch = c.epoch

\* What the phone has sent, oldest first: OPENED is the first word of a session
\* and CLOSE or ERROR its last.
InOrder(s) ==
  \A i, j \in DOMAIN s : i < j /\ s[i].epoch = s[j].epoch =>
    s[j].type # "OPENED" /\ s[i].type \notin Terminal
\* The same of two sequences, one after the other.
Follows(s, t) ==
  \A f \in ToSet(s), g \in ToSet(t) : f.epoch = g.epoch =>
    g.type # "OPENED" /\ f.type \notin Terminal

\* OPENED of that epoch is on its way.
HasOpened(s, e) == \E f \in ToSet(s) : Of(f, "OPENED", e)
\* No DATA of that epoch comes before OPENED.
OpenedFirst(s, e) ==
  \A i \in DOMAIN s : Of(s[i], "DATA", e) => \E j \in 1..(i - 1) : Of(s[j], "OPENED", e)

\* What comes in next at one end: each ACK is for the oldest pending frame then,
\* and each DATA is the expected one and finds a slot.
Side(s, oldest, count, expected, r, e) ==
  /\ Numbered(s, "ACK", e, oldest) /\ FramesOf(s, "ACK", e) <= count
  /\ Numbered(s, "DATA", e, expected) /\ FramesOf(s, "DATA", e) + r <= Window

\* What the phone has sent tells where it stands, and so does the recorder:
\* a live channel has not said its last word, and a recorder that knows of the
\* end has nothing more of that session to hear.
Ends(c, p, back) ==
  /\ \A f \in ToSet(back) :
       /\ Live(p) /\ f.epoch = p.epoch => f.type \notin Terminal /\ p.st = "ready"
       /\ InSession(c) /\ f.epoch = c.epoch =>
            c.state # "PeerClosed" /\ (f.type = "OPENED" => c.state = "Opening")
  /\ InSession(c) /\ Live(p) /\ p.epoch = c.epoch =>
       c.state # "PeerClosed" /\ (p.st = "connecting" => c.state = "Opening")

\* A recorder that waits for OPENED will get it, and gets it before DATA.
Opened(c, p, te, back) ==
  c.state = "Opening" =>
    /\ p.st = "ready" /\ p.epoch = c.epoch => HasOpened(back, c.epoch)
    /\ OpenedFirst(te, c.epoch)

\* Whatever is exchanged is of an epoch that the phone has seen on this link.
Known(c, p, back, forth, u) ==
  /\ \A f \in ToSet(back) : f.epoch \in u
  /\ \A f \in ToSet(forth) : f.type \in {"DATA", "ACK"} => f.epoch \in u
  /\ InSession(c) /\ c.state # "Opening" => c.epoch \in u
  /\ Live(p) => p.epoch \in u

\* Both directions are chains while both ends hold the session.
Joined(c, p, back, forth) ==
  Met(c, p) =>
    /\ Chain(c.oldest, c.count, back, p.rx, forth, p.expected, c.epoch)
    /\ Chain(p.oldest, p.count, forth, c.rx, back, c.expected, c.epoch)

\* What comes in at each end fits its windows, whatever the other end is doing.
Sides(c, p, te, air) ==
  /\ Streaming(c) => Side(te, c.oldest, c.count, c.expected, Len(c.rx), c.epoch)
  /\ Live(p) => Side(air, p.oldest, p.count, p.expected, Len(p.rx), p.epoch)
  /\ p.st = "connecting" => \A f \in ToSet(air) : ~Of(f, "DATA", p.epoch)

\* The two ends and all that is between them: te and po are the writes of the
\* phone in the air and in its queue, air and qu the notifications of the recorder
\* in the air (or in the hand of its worker) and in its queue, u the epochs the
\* phone has seen.
Proto(c, p, te, po, air, qu, u) ==
  /\ InOrder(te \o po)
  /\ Ends(c, p, te \o po)
  /\ Opened(c, p, te, te \o po)
  /\ Known(c, p, te \o po, air \o qu, u)
  /\ Joined(c, p, te \o po, air \o qu)
  /\ Sides(c, p, te, air)

\* Concatenation is associative.
LEMMA Assoc ==
  ASSUME NEW S, NEW a \in Seq(S), NEW b \in Seq(S), NEW d \in Seq(S)
  PROVE  (a \o b) \o d = a \o (b \o d)
OBVIOUS

\* The empty sequence is its unit.
LEMMA Unit ==
  ASSUME NEW S, NEW a \in Seq(S) PROVE a \o <<>> = a /\ <<>> \o a = a
OBVIOUS

\* InOrder of a concatenation.
LEMMA OrderConcat ==
  ASSUME NEW s \in Seq(Frames), NEW t \in Seq(Frames)
  PROVE  InOrder(s \o t) <=> InOrder(s) /\ InOrder(t) /\ Follows(s, t)
<1>1. \A i \in 1..Len(s) : (s \o t)[i] = s[i] OBVIOUS
<1>2. \A i \in 1..Len(t) : (s \o t)[Len(s) + i] = t[i] OBVIOUS
<1>3. /\ DOMAIN s = 1..Len(s) /\ DOMAIN t = 1..Len(t)
      /\ DOMAIN (s \o t) = 1..(Len(s) + Len(t)) /\ Len(s) \in Nat /\ Len(t) \in Nat
  OBVIOUS
<1>4. ASSUME InOrder(s \o t) PROVE InOrder(s) /\ InOrder(t) /\ Follows(s, t)
  <2>1. InOrder(s)
    <3> SUFFICES ASSUME NEW i \in DOMAIN s, NEW j \in DOMAIN s, i < j, s[i].epoch = s[j].epoch
                 PROVE  s[j].type # "OPENED" /\ s[i].type \notin Terminal
      BY DEF InOrder
    <3>1. i \in DOMAIN (s \o t) /\ j \in DOMAIN (s \o t) BY <1>3
    <3>2. (s \o t)[i] = s[i] /\ (s \o t)[j] = s[j] BY <1>1, <1>3
    <3> QED BY <1>4, <3>1, <3>2 DEF InOrder
  <2>2. InOrder(t)
    <3> SUFFICES ASSUME NEW i \in DOMAIN t, NEW j \in DOMAIN t, i < j, t[i].epoch = t[j].epoch
                 PROVE  t[j].type # "OPENED" /\ t[i].type \notin Terminal
      BY DEF InOrder
    <3>1. Len(s) + i \in DOMAIN (s \o t) /\ Len(s) + j \in DOMAIN (s \o t)
          /\ Len(s) + i < Len(s) + j BY <1>3
    <3>2. (s \o t)[Len(s) + i] = t[i] /\ (s \o t)[Len(s) + j] = t[j] BY <1>2, <1>3
    <3> QED BY <1>4, <3>1, <3>2 DEF InOrder
  <2>3. Follows(s, t)
    <3> SUFFICES ASSUME NEW i \in DOMAIN s, NEW j \in DOMAIN t, s[i].epoch = t[j].epoch
                 PROVE  t[j].type # "OPENED" /\ s[i].type \notin Terminal
      BY DEF Follows, ToSet
    <3>1. i \in DOMAIN (s \o t) /\ Len(s) + j \in DOMAIN (s \o t) /\ i < Len(s) + j BY <1>3
    <3>2. (s \o t)[i] = s[i] /\ (s \o t)[Len(s) + j] = t[j] BY <1>1, <1>2, <1>3
    <3> QED BY <1>4, <3>1, <3>2 DEF InOrder
  <2> QED BY <2>1, <2>2, <2>3
<1>5. ASSUME InOrder(s), InOrder(t), Follows(s, t) PROVE InOrder(s \o t)
  <2> SUFFICES ASSUME NEW i \in DOMAIN (s \o t), NEW j \in DOMAIN (s \o t), i < j,
                      (s \o t)[i].epoch = (s \o t)[j].epoch
               PROVE  (s \o t)[j].type # "OPENED" /\ (s \o t)[i].type \notin Terminal
    BY DEF InOrder
  <2>1. CASE j <= Len(s)
    <3>1. i \in DOMAIN s /\ j \in DOMAIN s BY <1>3, <2>1
    <3>2. (s \o t)[i] = s[i] /\ (s \o t)[j] = s[j] BY <1>1, <1>3, <3>1
    <3> QED BY <1>5, <3>1, <3>2 DEF InOrder
  <2>2. CASE i > Len(s)
    <3>1. /\ i - Len(s) \in DOMAIN t /\ j - Len(s) \in DOMAIN t
          /\ i - Len(s) < j - Len(s)
          /\ Len(s) + (i - Len(s)) = i /\ Len(s) + (j - Len(s)) = j BY <1>3, <2>2
    <3>2. (s \o t)[i] = t[i - Len(s)] /\ (s \o t)[j] = t[j - Len(s)] BY <1>2, <1>3, <3>1
    <3> QED BY <1>5, <3>1, <3>2 DEF InOrder
  <2>3. CASE i <= Len(s) /\ j > Len(s)
    <3>1. i \in DOMAIN s /\ j - Len(s) \in DOMAIN t /\ Len(s) + (j - Len(s)) = j
      BY <1>3, <2>3
    <3>2. (s \o t)[i] = s[i] /\ (s \o t)[j] = t[j - Len(s)] BY <1>1, <1>2, <1>3, <3>1
    <3> QED BY <1>5, <3>1, <3>2 DEF Follows, ToSet
  <2> QED BY <1>3, <2>1, <2>2, <2>3
<1> QED BY <1>4, <1>5

\* InOrder after some frames are dropped.
LEMMA OrderDrop ==
  ASSUME NEW a \in Seq(Frames), NEW x \in Seq(Frames), NEW b \in Seq(Frames),
         InOrder((a \o x) \o b)
  PROVE  InOrder(a \o b)
<1>0. a \o x \in Seq(Frames) OBVIOUS
<1>1. PICK y \in Seq(Frames) : y = a \o x BY <1>0
<1>2. InOrder(y) /\ InOrder(b) /\ Follows(y, b) BY <1>1, OrderConcat
<1>3. InOrder(a) BY <1>1, <1>2, OrderConcat
<1>4. ToSet(a) \subseteq ToSet(y) BY <1>1, SetConcat
<1>5. Follows(a, b) BY <1>2, <1>4 DEF Follows
<1> QED BY <1>2, <1>3, <1>5, OrderConcat

\* One frame is in order.
LEMMA OrderOne == \A f : InOrder(<<f>>)
BY DEF InOrder

\* OpenedFirst when a frame is sent.
LEMMA FirstAppend ==
  ASSUME NEW s \in Seq(Frames), NEW f \in Frames, NEW e, OpenedFirst(s, e),
         ~Of(f, "DATA", e) \/ HasOpened(s, e)
  PROVE  OpenedFirst(s \o <<f>>, e)
<1>1. PICK y : y = s \o <<f>> OBVIOUS
<1>2. /\ DOMAIN s = 1..Len(s) /\ Len(s) \in Nat /\ DOMAIN y = 1..(Len(s) + 1)
      /\ y[Len(s) + 1] = f BY <1>1
<1>3. \A i \in 1..Len(s) : y[i] = s[i] BY <1>1
<1>4. SUFFICES ASSUME NEW i \in DOMAIN y, Of(y[i], "DATA", e)
               PROVE  \E j \in 1..(i - 1) : Of(y[j], "OPENED", e)
  BY <1>1 DEF OpenedFirst
<1>5. CASE i \in 1..Len(s)
  <2>1. PICK j \in 1..(i - 1) : Of(s[j], "OPENED", e) BY <1>2, <1>3, <1>4, <1>5 DEF OpenedFirst
  <2>2. j \in 1..Len(s) BY <1>2, <1>5
  <2> QED BY <1>3, <2>1, <2>2
<1>6. CASE i = Len(s) + 1
  <2>1. PICK j \in 1..Len(s) : Of(s[j], "OPENED", e)
    BY <1>2, <1>4, <1>6 DEF HasOpened, ToSet
  <2>2. j \in 1..(i - 1) BY <1>2, <1>6
  <2> QED BY <1>3, <2>1, <2>2
<1> QED BY <1>2, <1>5, <1>6

\* OpenedFirst when a frame is taken.
LEMMA FirstTail ==
  ASSUME NEW t \in Seq(Frames), NEW f \in Frames, NEW e, OpenedFirst(<<f>> \o t, e)
  PROVE  /\ ~Of(f, "DATA", e)
         /\ ~Of(f, "OPENED", e) => OpenedFirst(t, e)
<1>1. PICK y : y = <<f>> \o t OBVIOUS
<1>2. /\ DOMAIN t = 1..Len(t) /\ Len(t) \in Nat /\ DOMAIN y = 1..(Len(t) + 1)
      /\ y[1] = f BY <1>1
<1>3. \A i \in 1..Len(t) : y[i + 1] = t[i] BY <1>1
<1>4. ~Of(f, "DATA", e)
  <2> SUFFICES ASSUME Of(f, "DATA", e) PROVE FALSE OBVIOUS
  <2>1. 1 \in DOMAIN y /\ OpenedFirst(y, e) BY <1>1, <1>2
  <2>2. \E j \in 1..(1 - 1) : Of(y[j], "OPENED", e) BY <1>2, <2>1 DEF OpenedFirst
  <2> QED BY <2>2
<1>5. ASSUME ~Of(f, "OPENED", e), NEW i \in 1..Len(t), Of(t[i], "DATA", e)
      PROVE  \E j \in 1..(i - 1) : Of(t[j], "OPENED", e)
  <2>1. i + 1 \in DOMAIN y /\ Of(y[i + 1], "DATA", e) /\ OpenedFirst(y, e)
    BY <1>1, <1>2, <1>3, <1>5
  <2>2. PICK j \in 1..((i + 1) - 1) : Of(y[j], "OPENED", e) BY <2>1 DEF OpenedFirst
  <2>3. j # 1 BY <1>2, <1>5, <2>2
  <2>4. j - 1 \in 1..(i - 1) /\ j - 1 \in 1..Len(t) /\ (j - 1) + 1 = j BY <1>2, <2>2, <2>3
  <2>5. t[j - 1] = y[j] BY <1>3, <2>4
  <2> QED BY <2>2, <2>4, <2>5
<1> QED BY <1>2, <1>4, <1>5 DEF OpenedFirst

-----------------------------------------------------------------------------
(* What comes in at one end.                                               *)

\* Nothing to come in.
LEMMA SideEmpty ==
  ASSUME NEW s \in Seq(Frames), NEW o \in SeqNo, NEW n \in Nat, NEW ex \in SeqNo,
         NEW r \in Nat, NEW e, r <= Window,
         FramesOf(s, "ACK", e) = 0, FramesOf(s, "DATA", e) = 0
  PROVE  Side(s, o, n, ex, r, e)
<1>1. Numbered(s, "ACK", e, o) /\ Numbered(s, "DATA", e, ex) BY CountNone
<1> QED BY <1>1, RelayAssumption DEF Side

\* The first part of what comes in.
LEMMA SidePrefix ==
  ASSUME NEW s \in Seq(Frames), NEW t \in Seq(Frames), NEW o \in SeqNo, NEW n \in Nat,
         NEW ex \in SeqNo, NEW r \in Nat, NEW e, Side(s \o t, o, n, ex, r, e)
  PROVE  Side(s, o, n, ex, r, e)
<1>1. o \in Nat /\ ex \in Nat BY DEF SeqNo
<1>2. Numbered(s, "ACK", e, o) /\ Numbered(s, "DATA", e, ex)
  BY <1>1, NumberedConcat DEF Side
<1>3. /\ FramesOf(s \o t, "ACK", e) = FramesOf(s, "ACK", e) + FramesOf(t, "ACK", e)
      /\ FramesOf(s \o t, "DATA", e) = FramesOf(s, "DATA", e) + FramesOf(t, "DATA", e)
  BY CountConcat
<1>4. /\ FramesOf(s, "ACK", e) \in Nat /\ FramesOf(t, "ACK", e) \in Nat
      /\ FramesOf(s, "DATA", e) \in Nat /\ FramesOf(t, "DATA", e) \in Nat
  BY CountIs
<1> QED BY <1>2, <1>3, <1>4, RelayAssumption DEF Side

\* Side holds of any sequence with the same ACK and DATA.
LEMMA SideAlike ==
  ASSUME NEW s, NEW t, NEW o \in SeqNo, NEW n, NEW ex \in SeqNo, NEW r, NEW e,
         Alike(s, t, "ACK", e), Alike(s, t, "DATA", e), Side(s, o, n, ex, r, e)
  PROVE  Side(t, o, n, ex, r, e)
BY DEF Side, Alike

\* More frames pending, fewer slots taken: Side holds all the more.
LEMMA SideMore ==
  ASSUME NEW s \in Seq(Frames), NEW o \in SeqNo, NEW n \in Nat, NEW m \in Nat, NEW ex \in SeqNo,
         NEW r \in Nat, NEW q \in Nat, NEW e, n <= m, q <= r, Side(s, o, n, ex, r, e)
  PROVE  Side(s, o, m, ex, q, e)
<1>1. FramesOf(s, "ACK", e) \in Nat /\ FramesOf(s, "DATA", e) \in Nat BY CountIs
<1> QED BY <1>1, RelayAssumption DEF Side

\* What is left of the counts and numbers when the first frame has gone.
LEMMA SideSkip ==
  ASSUME NEW f \in Frames, NEW s \in Seq(Frames), NEW o \in SeqNo, NEW n \in Nat,
         NEW ex \in SeqNo, NEW r \in Nat, NEW e, Side(<<f>> \o s, o, n, ex, r, e),
         ~Of(f, "ACK", e), ~Of(f, "DATA", e)
  PROVE  Side(s, o, n, ex, r, e)
<1>0. <<f>> \in Seq(Frames) OBVIOUS
<1>1. PICK x \in Seq(Frames) : x = <<f>> BY <1>0
<1>2. FramesOf(x, "ACK", e) = 0 /\ FramesOf(x, "DATA", e) = 0 BY <1>1, One
<1>3. <<>> \in Seq(Frames) OBVIOUS
<1>4. Alike((<<>> \o x) \o s, <<>> \o s, "ACK", e) /\ Alike((<<>> \o x) \o s, <<>> \o s, "DATA", e)
  BY <1>2, <1>3, AlikeDrop
<1>5. <<>> \o x = x /\ <<>> \o s = s OBVIOUS
<1> QED BY <1>1, <1>4, <1>5, SideAlike

\* The next DATA is the expected one and finds a slot; the rest fits after it.
LEMMA SideTake ==
  ASSUME NEW f \in Frames, NEW s \in Seq(Frames), NEW o \in SeqNo, NEW n \in Nat,
         NEW ex \in SeqNo, NEW r \in Nat, NEW e, Side(<<f>> \o s, o, n, ex, r, e),
         Of(f, "DATA", e)
  PROVE  f.seq = ex /\ r < Window /\ Side(s, o, n, NextSeq(ex), r + 1, e)
<1>0. <<f>> \in Seq(Frames) OBVIOUS
<1>1. PICK x \in Seq(Frames) : x = <<f>> BY <1>0
<1>2. ~Of(f, "ACK", e) BY DEF Of
<1>3. FramesOf(x, "ACK", e) = 0 /\ FramesOf(x, "DATA", e) = 1 BY <1>1, <1>2, One
<1>4. /\ FramesOf(x \o s, "ACK", e) = FramesOf(x, "ACK", e) + FramesOf(s, "ACK", e)
      /\ FramesOf(x \o s, "DATA", e) = FramesOf(x, "DATA", e) + FramesOf(s, "DATA", e)
  BY CountConcat
<1>5. FramesOf(s, "ACK", e) \in Nat /\ FramesOf(s, "DATA", e) \in Nat BY CountIs
<1>6. o \in Nat /\ ex \in Nat BY DEF SeqNo
<1>7. Side(x \o s, o, n, ex, r, e) BY <1>1
<1>8. Numbered(x, "DATA", e, ex) /\ Numbered(s, "DATA", e, (ex + 1) % SeqNos)
  BY <1>3, <1>6, <1>7, NumberedConcat DEF Side
<1>9. Numbered(s, "ACK", e, o)
  <2>1. (o + 0) % SeqNos = o BY <1>6, SeqSmall
  <2>2. Numbered(s, "ACK", e, (o + 0) % SeqNos) BY <1>3, <1>6, <1>7, NumberedConcat DEF Side
  <2> QED BY <2>1, <2>2
<1>10. f.seq = ex BY <1>1, <1>8, One
<1>11. r < Window /\ FramesOf(s, "ACK", e) <= n /\ FramesOf(s, "DATA", e) + (r + 1) <= Window
  BY <1>3, <1>4, <1>5, <1>7, RelayAssumption DEF Side
<1> QED BY <1>8, <1>9, <1>10, <1>11 DEF Side, NextSeq

\* The next ACK is for the oldest pending frame; the rest fits after it.
LEMMA SideAck ==
  ASSUME NEW f \in Frames, NEW s \in Seq(Frames), NEW o \in SeqNo, NEW n \in Nat,
         NEW ex \in SeqNo, NEW r \in Nat, NEW e, Side(<<f>> \o s, o, n, ex, r, e),
         Of(f, "ACK", e)
  PROVE  f.seq = o /\ n > 0 /\ Side(s, NextSeq(o), n - 1, ex, r, e)
<1>0. <<f>> \in Seq(Frames) OBVIOUS
<1>1. PICK x \in Seq(Frames) : x = <<f>> BY <1>0
<1>2. ~Of(f, "DATA", e) BY DEF Of
<1>3. FramesOf(x, "DATA", e) = 0 /\ FramesOf(x, "ACK", e) = 1 BY <1>1, <1>2, One
<1>4. /\ FramesOf(x \o s, "ACK", e) = FramesOf(x, "ACK", e) + FramesOf(s, "ACK", e)
      /\ FramesOf(x \o s, "DATA", e) = FramesOf(x, "DATA", e) + FramesOf(s, "DATA", e)
  BY CountConcat
<1>5. FramesOf(s, "ACK", e) \in Nat /\ FramesOf(s, "DATA", e) \in Nat BY CountIs
<1>6. o \in Nat /\ ex \in Nat BY DEF SeqNo
<1>7. Side(x \o s, o, n, ex, r, e) BY <1>1
<1>8. Numbered(x, "ACK", e, o) /\ Numbered(s, "ACK", e, (o + 1) % SeqNos)
  BY <1>3, <1>6, <1>7, NumberedConcat DEF Side
<1>9. Numbered(s, "DATA", e, ex)
  <2>1. (ex + 0) % SeqNos = ex BY <1>6, SeqSmall
  <2>2. Numbered(s, "DATA", e, (ex + 0) % SeqNos) BY <1>3, <1>6, <1>7, NumberedConcat DEF Side
  <2> QED BY <2>1, <2>2
<1>10. f.seq = o BY <1>1, <1>8, One
<1>11. n > 0 /\ FramesOf(s, "ACK", e) <= n - 1 /\ FramesOf(s, "DATA", e) + r <= Window
  BY <1>3, <1>4, <1>5, <1>7, RelayAssumption DEF Side
<1> QED BY <1>8, <1>9, <1>10, <1>11 DEF Side, NextSeq

\* The two chains that run over a wire say what any first part of it carries.
LEMMA ChainSide ==
  ASSUME NEW s \in Seq(Frames), NEW t \in Seq(Frames), NEW o \in SeqNo, NEW n \in Nat,
         NEW S, NEW rx \in Seq(S), NEW data \in Seq(Frames), NEW ex \in SeqNo, NEW e,
         NEW o2 \in SeqNo, NEW n2 \in Nat, NEW ack2 \in Seq(Frames), NEW S2, NEW rx2 \in Seq(S2),
         NEW ex2 \in SeqNo, n2 <= Window,
         Chain(o, n, s \o t, rx, data, ex, e), Chain(o2, n2, ack2, rx2, s \o t, ex2, e)
  PROVE  Side(s, o, n, ex2, Len(rx2), e)
<1>1. o \in Nat /\ ex2 \in Nat /\ Len(rx) \in Nat /\ Len(rx2) \in Nat BY DEF SeqNo
<1>2. /\ FramesOf(s \o t, "ACK", e) = FramesOf(s, "ACK", e) + FramesOf(t, "ACK", e)
      /\ FramesOf(s \o t, "DATA", e) = FramesOf(s, "DATA", e) + FramesOf(t, "DATA", e)
  BY CountConcat
<1>3. /\ FramesOf(s, "ACK", e) \in Nat /\ FramesOf(t, "ACK", e) \in Nat
      /\ FramesOf(s, "DATA", e) \in Nat /\ FramesOf(t, "DATA", e) \in Nat
      /\ FramesOf(data, "DATA", e) \in Nat /\ FramesOf(ack2, "ACK", e) \in Nat
  BY CountIs
<1>4. Numbered(s, "ACK", e, o) BY <1>1, NumberedConcat DEF Chain
<1>5. Numbered(s, "DATA", e, ex2) BY <1>1, NumberedConcat DEF Chain
<1>6. n = FramesOf(s \o t, "ACK", e) + Len(rx) + FramesOf(data, "DATA", e) BY DEF Chain
<1>7. n2 = FramesOf(ack2, "ACK", e) + Len(rx2) + FramesOf(s \o t, "DATA", e) BY DEF Chain
<1>8. FramesOf(s, "ACK", e) <= n
  <2>1. PICK a \in Nat, b \in Nat, k \in Nat, l \in Nat :
          /\ a = FramesOf(s, "ACK", e) /\ b = FramesOf(t, "ACK", e)
          /\ k = FramesOf(data, "DATA", e) /\ l = Len(rx)
    BY <1>1, <1>3
  <2>2. n = (a + b) + l + k BY <1>2, <1>6, <2>1
  <2>3. a <= n BY <2>2
  <2> QED BY <2>1, <2>3
<1>9. FramesOf(s, "DATA", e) + Len(rx2) <= Window
  <2>1. PICK a \in Nat, b \in Nat, k \in Nat, l \in Nat :
          /\ a = FramesOf(s, "DATA", e) /\ b = FramesOf(t, "DATA", e)
          /\ k = FramesOf(ack2, "ACK", e) /\ l = Len(rx2)
    BY <1>1, <1>3
  <2>2. n2 = k + l + (a + b) BY <1>2, <1>7, <2>1
  <2>3. a + l <= Window BY <2>2, RelayAssumption
  <2> QED BY <2>1, <2>3
<1> QED BY <1>4, <1>5, <1>8, <1>9 DEF Side

-----------------------------------------------------------------------------
(* The protocol under the steps of the recorder.                           *)

\* What the lock sections of the recorder keep of its channel: the window is
\* numbered oldest .. next - 1, and one that is left holds nothing.
EspLocal(c) ==
  /\ Len(c.rx) <= Window
  /\ ~InSession(c) => c.count = 0 /\ c.rx = <<>>
  /\ c.state = "Opening" =>
       c.count = 0 /\ c.rx = <<>> /\ c.next = 0 /\ c.oldest = 0 /\ c.expected = 0
  /\ InSession(c) => c.next = (c.oldest + c.count) % SeqNos

\* What the synchronized blocks of the phone keep of its channel.
PhLocal(p) ==
  /\ Len(p.rx) <= Window
  /\ p.st = "connecting" =>
       /\ p.count = 0 /\ p.next = 0 /\ p.oldest = 0 /\ p.expected = 0 /\ p.rx = <<>>
       /\ p.rd = "off" /\ p.wr = "off" /\ ~p.eof
  /\ ~Live(p) => p.rx = <<>> /\ p.rd = "off" /\ p.wr = "off" /\ p.held = <<>> /\ p.batch = 0
  /\ p.next = (p.oldest + p.count) % SeqNos
  /\ p.rd \in {"read", "hold"} => p.count < Window
  /\ p.wr \in {"write", "ack"} => p.batch \in 1..Len(p.rx)
  /\ p.rd # "hold" => p.held = <<>>

\* The members of a sequence that one frame joins.
LEMMA AppendSet ==
  ASSUME NEW s \in Seq(Frames), NEW f \in Frames
  PROVE  /\ <<f>> \in Seq(Frames) /\ s \o <<f>> \in Seq(Frames) /\ <<f>> \o s \in Seq(Frames)
         /\ ToSet(s \o <<f>>) = ToSet(s) \cup {f} /\ ToSet(<<f>> \o s) = {f} \cup ToSet(s)
<1>1. <<f>> \in Seq(Frames) /\ s \o <<f>> \in Seq(Frames) /\ <<f>> \o s \in Seq(Frames) OBVIOUS
<1>2. PICK x \in Seq(Frames) : x = <<f>> BY <1>1
<1>3. ToSet(x) = {f} BY <1>2, SetOne
<1>4. ToSet(s \o x) = ToSet(s) \cup {f} /\ ToSet(x \o s) = {f} \cup ToSet(s)
  BY <1>3, SetConcat
<1> QED BY <1>1, <1>2, <1>4

\* Concatenation of frames is associative.
LEMMA FrameAssoc ==
  ASSUME NEW a \in Seq(Frames), NEW b \in Seq(Frames), NEW d \in Seq(Frames)
  PROVE  (a \o b) \o d = a \o (b \o d)
BY Assoc

\* Frames of another kind at either end change nothing.
LEMMA AlikeEnds ==
  ASSUME NEW s \in Seq(Frames), NEW x \in Seq(Frames), NEW type, NEW e,
         FramesOf(x, type, e) = 0
  PROVE  /\ Alike(s, s \o x, type, e) /\ Alike(s \o x, s, type, e)
         /\ Alike(s, x \o s, type, e) /\ Alike(x \o s, s, type, e)
<1>1. <<>> \in Seq(Frames) /\ s \o x \in Seq(Frames) /\ (s \o x) \o <<>> = s \o x
      /\ s \o <<>> = s /\ <<>> \o x = x /\ <<>> \o s = s
  OBVIOUS
<1>2. Alike((s \o x) \o <<>>, s \o <<>>, type, e) BY <1>1, AlikeDrop
<1>3. Alike((<<>> \o x) \o s, <<>> \o s, type, e) BY <1>1, AlikeDrop
<1> QED BY <1>1, <1>2, <1>3 DEF Alike

\* The members of what is in the air and in the queue.
LEMMA BackSet ==
  ASSUME NEW x \in Seq(Frames), NEW te \in Seq(Frames), NEW po \in Seq(Frames)
  PROVE  /\ ToSet((x \o te) \o po) = ToSet(x) \cup ToSet(te) \cup ToSet(po)
         /\ ToSet(te \o po) = ToSet(te) \cup ToSet(po)
         /\ (x \o te) \o po = x \o (te \o po)
         /\ te \o po \in Seq(Frames) /\ x \o te \in Seq(Frames)
         /\ x \o (te \o po) \in Seq(Frames)
<1>1. x \o te \in Seq(Frames) /\ te \o po \in Seq(Frames) /\ x \o (te \o po) \in Seq(Frames) OBVIOUS
<1>2. PICK y \in Seq(Frames) : y = x \o te BY <1>1
<1>3. ToSet(y \o po) = ToSet(y) \cup ToSet(po) BY SetConcat
<1>4. ToSet(x \o te) = ToSet(x) \cup ToSet(te) BY SetConcat
<1>5. ToSet(te \o po) = ToSet(te) \cup ToSet(po) BY SetConcat
<1> QED BY <1>1, <1>2, <1>3, <1>4, <1>5, Assoc

\* The recorder gives the session up, for whatever reason.
LEMMA EspLeaves ==
  ASSUME NEW c, NEW c2, NEW p, NEW te \in Seq(Frames), NEW po \in Seq(Frames),
         NEW air \in Seq(Frames), NEW qu \in Seq(Frames), NEW u, NEW x \in Seq(Frames),
         NEW te2 \in Seq(Frames), NEW qu2 \in Seq(Frames),
         te = x \o te2, ~InSession(c2),
         \A f \in ToSet(qu2) : f \in ToSet(qu) \/ f.type \notin {"DATA", "ACK"} \/ f.epoch \in u,
         Proto(c, p, te, po, air, qu, u)
  PROVE  Proto(c2, p, te2, po, air, qu2, u)
<1>1. /\ ToSet(te2 \o po) \subseteq ToSet(te \o po)
      /\ te \o po = x \o (te2 \o po) /\ te2 \o po \in Seq(Frames)
  BY BackSet
<1>2. /\ ToSet(air \o qu) = ToSet(air) \cup ToSet(qu)
      /\ ToSet(air \o qu2) = ToSet(air) \cup ToSet(qu2)
  BY SetConcat
<1>3. InOrder(te2 \o po)
  <2>1. PICK b \in Seq(Frames) : b = te2 \o po BY <1>1
  <2>2. InOrder(x \o b) BY <1>1, <2>1 DEF Proto
  <2> QED BY <2>1, <2>2, OrderConcat
<1>4. Ends(c2, p, te2 \o po) BY <1>1 DEF Proto, Ends
<1>5. Opened(c2, p, te2, te2 \o po) BY DEF Opened, InSession
<1>6. Known(c2, p, te2 \o po, air \o qu2, u) BY <1>1, <1>2 DEF Proto, Known
<1>7. Joined(c2, p, te2 \o po, air \o qu2) BY DEF Joined, Met, InSession, Streaming
<1>8. Sides(c2, p, te2, air) BY DEF Proto, Sides, InSession, Streaming
<1> QED BY <1>3, <1>4, <1>5, <1>6, <1>7, <1>8 DEF Proto

\* The recorder starts a session with an epoch nobody knows yet.
LEMMA EspOpens ==
  ASSUME NEW c, NEW c2, NEW p, NEW te \in Seq(Frames), NEW po \in Seq(Frames),
         NEW air \in Seq(Frames), NEW qu \in Seq(Frames), NEW u, NEW f \in Frames,
         c2.state = "Opening", c2.epoch \notin u, c2.count = 0, c2.oldest = 0,
         c2.expected = 0, c2.rx = <<>>, f.type = "OPEN",
         Proto(c, p, te, po, air, qu, u)
  PROVE  Proto(c2, p, te, po, air, qu \o <<f>>, u)
<1>1. ToSet(te \o po) = ToSet(te) \cup ToSet(po) BY SetConcat
<1>2. /\ <<f>> \in Seq(Frames) /\ qu \o <<f>> \in Seq(Frames) OBVIOUS
<1>3. ToSet(qu \o <<f>>) = ToSet(qu) \cup {f} BY AppendSet
<1>4. /\ ToSet(air \o qu) = ToSet(air) \cup ToSet(qu)
      /\ ToSet(air \o (qu \o <<f>>)) = ToSet(air) \cup ToSet(qu) \cup {f}
  <2>1. PICK y \in Seq(Frames) : y = qu \o <<f>> BY <1>2
  <2>2. ToSet(air \o y) = ToSet(air) \cup ToSet(y) BY SetConcat
  <2> QED BY <1>3, <2>1, <2>2, SetConcat
<1>5. \A g \in ToSet(te \o po) : g.epoch # c2.epoch BY DEF Proto, Known
<1>6. Live(p) => p.epoch # c2.epoch BY DEF Proto, Known
<1>7. Ends(c2, p, te \o po) BY <1>5, <1>6 DEF Proto, Ends
<1>8. \A g \in ToSet(te) : g.epoch # c2.epoch BY <1>1, <1>5
<1>9. \A i \in DOMAIN te : te[i].epoch # c2.epoch BY <1>8 DEF ToSet
<1>10. Opened(c2, p, te, te \o po)
  BY <1>6, <1>9 DEF Opened, OpenedFirst, Of, Live
<1>11. Known(c2, p, te \o po, air \o (qu \o <<f>>), u) BY <1>4 DEF Proto, Known
<1>12. Joined(c2, p, te \o po, air \o (qu \o <<f>>)) BY <1>6 DEF Joined, Met
<1>13. Sides(c2, p, te, air)
  <2>1. FramesOf(te, "ACK", c2.epoch) = 0 /\ FramesOf(te, "DATA", c2.epoch) = 0
    BY <1>9, CountNone DEF Of
  <2>2. 0 \in SeqNo /\ Len(c2.rx) = 0 BY RelayAssumption DEF SeqNo
  <2>3. Side(te, 0, 0, 0, 0, c2.epoch) BY <2>1, <2>2, SideEmpty, RelayAssumption
  <2> QED BY <2>2, <2>3 DEF Proto, Sides
<1> QED BY <1>7, <1>10, <1>11, <1>12, <1>13 DEF Proto

\* write(): DATA frames numbered from next on are queued.
LEMMA EspSends ==
  ASSUME NEW c \in EspChannels, NEW c2 \in EspChannels, NEW p \in PhChannels,
         NEW te \in Seq(Frames), NEW po \in Seq(Frames),
         NEW air \in Seq(Frames), NEW qu \in Seq(Frames), NEW u, NEW t \in Seq(Frames),
         c.state = "Open", c2.state = "Open", c2.epoch = c.epoch, c2.oldest = c.oldest,
         c2.expected = c.expected, c2.rx = c.rx, c2.count = c.count + Len(t),
         \A i \in DOMAIN t : Of(t[i], "DATA", c.epoch)
                             /\ t[i].seq = (c.oldest + c.count + (i - 1)) % SeqNos,
         Proto(c, p, te, po, air, qu, u)
  PROVE  Proto(c2, p, te, po, air, qu \o t, u)
<1>1. qu \o t \in Seq(Frames) /\ air \o qu \in Seq(Frames) /\ te \o po \in Seq(Frames) OBVIOUS
<1>2. air \o (qu \o t) = (air \o qu) \o t BY FrameAssoc
<1>3. PICK F \in Seq(Frames) : F = air \o qu BY <1>1
<1>4. PICK B \in Seq(Frames) : B = te \o po BY <1>1
<1>5. ToSet(F \o t) = ToSet(F) \cup ToSet(t) BY SetConcat
<1>6. \A g \in ToSet(t) : g.epoch = c.epoch BY DEF ToSet, Of
<1>7. c.epoch \in u BY DEF Proto, Known, InSession
<1>8. Ends(c2, p, B) BY <1>4 DEF Proto, Ends, InSession
<1>9. Opened(c2, p, te, B) BY DEF Opened
<1>10. Known(c2, p, B, F \o t, u) BY <1>3, <1>4, <1>5, <1>6, <1>7 DEF Proto, Known, InSession
<1>11. c.oldest \in SeqNo /\ c.expected \in SeqNo /\ c.count \in Nat /\ c.rx \in Seq(Slots)
       /\ p.rx \in Seq(Frames) /\ p.expected \in SeqNo /\ p.oldest \in SeqNo /\ p.count \in Nat
  BY RelayAssumption DEF EspChannels, PhChannels
<1>12. Joined(c2, p, B, F \o t)
  <2> SUFFICES ASSUME Met(c2, p)
               PROVE  /\ Chain(c.oldest, c.count + Len(t), B, p.rx, F \o t, p.expected, c.epoch)
                      /\ Chain(p.oldest, p.count, F \o t, c.rx, B, c.expected, c.epoch)
    BY DEF Joined
  <2>1. Met(c, p) BY DEF Met, Streaming
  <2>2. /\ Chain(c.oldest, c.count, B, p.rx, F, p.expected, c.epoch)
        /\ Chain(p.oldest, p.count, F, c.rx, B, c.expected, c.epoch)
    BY <1>3, <1>4, <2>1 DEF Proto, Joined
  <2>3. Chain(c.oldest, c.count + Len(t), B, p.rx, F \o t, p.expected, c.epoch)
    BY <1>11, <2>2, ChainSend
  <2>4. FramesOf(t, "ACK", c.epoch) = 0 BY CountNone DEF Of
  <2>8. Alike(F, F \o t, "ACK", c.epoch) BY <2>4, AlikeEnds
  <2>9. Alike(B, B, "DATA", c.epoch) BY DEF Alike
  <2>10. Chain(p.oldest, p.count, F \o t, c.rx, B, c.expected, c.epoch)
    BY <1>11, <2>2, <2>8, <2>9, ChainAlike
  <2> QED BY <2>3, <2>10
<1>13. Sides(c2, p, te, air)
  <2>1. Len(t) \in Nat /\ Len(c.rx) \in Nat BY <1>11
  <2>2. Side(te, c.oldest, c.count, c.expected, Len(c.rx), c.epoch)
    BY DEF Proto, Sides, Streaming
  <2>3. Side(te, c.oldest, c.count + Len(t), c.expected, Len(c.rx), c.epoch)
    <3>1. /\ c.count + Len(t) \in Nat /\ c.count <= c.count + Len(t)
          /\ Len(c.rx) <= Len(c.rx)
      BY <1>11, <2>1
    <3> QED BY <1>11, <2>1, <2>2, <3>1, SideMore
  <2> QED BY <2>3 DEF Proto, Sides
<1> QED BY <1>2, <1>3, <1>4, <1>8, <1>9, <1>10, <1>12, <1>13 DEF Proto

\* The fields of the channel of the recorder.
LEMMA EspFields ==
  ASSUME NEW c \in EspChannels
  PROVE  /\ c.oldest \in SeqNo /\ c.expected \in SeqNo /\ c.next \in SeqNo
         /\ c.count \in Nat /\ c.count <= Window
         /\ c.rx \in Seq(Slots) /\ Len(c.rx) \in Nat
BY RelayAssumption DEF EspChannels

\* The fields of the channel of the phone.
LEMMA PhFields ==
  ASSUME NEW p \in PhChannels
  PROVE  /\ p.oldest \in SeqNo /\ p.expected \in SeqNo /\ p.next \in SeqNo
         /\ p.count \in Nat /\ p.count <= Window
         /\ p.rx \in Seq(Frames) /\ Len(p.rx) \in Nat
BY RelayAssumption DEF PhChannels

\* read(): part of a slot; its number stays.
LEMMA EspReads ==
  ASSUME NEW c \in EspChannels, NEW c2 \in EspChannels, NEW p \in PhChannels,
         NEW te \in Seq(Frames), NEW po \in Seq(Frames),
         NEW air \in Seq(Frames), NEW qu \in Seq(Frames), NEW u,
         c2.state = c.state, c2.epoch = c.epoch, c2.oldest = c.oldest,
         c2.expected = c.expected, c2.count = c.count,
         Len(c2.rx) = Len(c.rx), \A i \in DOMAIN c.rx : c2.rx[i].seq = c.rx[i].seq,
         Proto(c, p, te, po, air, qu, u)
  PROVE  Proto(c2, p, te, po, air, qu, u)
<1>1. PICK F : F = air \o qu OBVIOUS
<1>2. PICK B : B = te \o po OBVIOUS
<1>3. DOMAIN c2.rx = DOMAIN c.rx BY EspFields
<1>4. Ends(c2, p, B) BY <1>2 DEF Proto, Ends, InSession
<1>5. Opened(c2, p, te, B) BY <1>2 DEF Proto, Opened
<1>6. Known(c2, p, B, F, u) BY <1>1, <1>2 DEF Proto, Known, InSession
<1>7. Joined(c2, p, B, F)
  <2> SUFFICES ASSUME Met(c2, p)
               PROVE  /\ Chain(c.oldest, c.count, B, p.rx, F, p.expected, c.epoch)
                      /\ Chain(p.oldest, p.count, F, c2.rx, B, c.expected, c.epoch)
    BY DEF Joined
  <2>1. Met(c, p) BY DEF Met, Streaming
  <2>2. /\ Chain(c.oldest, c.count, B, p.rx, F, p.expected, c.epoch)
        /\ Chain(p.oldest, p.count, F, c.rx, B, c.expected, c.epoch)
    BY <1>1, <1>2, <2>1 DEF Proto, Joined
  <2> QED BY <1>3, <2>2, ChainSlots
<1>8. Sides(c2, p, te, air) BY DEF Proto, Sides, Streaming
<1> QED BY <1>1, <1>2, <1>4, <1>5, <1>6, <1>7, <1>8 DEF Proto

\* read(): the slot is drained, its ACK is queued.
LEMMA EspDrains ==
  ASSUME NEW c \in EspChannels, NEW c2 \in EspChannels, NEW p \in PhChannels,
         NEW te \in Seq(Frames), NEW po \in Seq(Frames),
         NEW air \in Seq(Frames), NEW qu \in Seq(Frames), NEW u, NEW f \in Frames,
         c.state \in {"Open", "PeerClosed"}, c.rx # <<>>,
         c2.state = c.state, c2.epoch = c.epoch, c2.oldest = c.oldest,
         c2.expected = c.expected, c2.count = c.count, c2.rx = Tail(c.rx),
         Of(f, "ACK", c.epoch), f.seq = c.rx[1].seq,
         Proto(c, p, te, po, air, qu, u)
  PROVE  Proto(c2, p, te, po, air, qu \o <<f>>, u)
<1>0. PICK t \in Seq(Frames) : t = <<f>> BY AppendSet
<1>1. qu \o t \in Seq(Frames) /\ air \o qu \in Seq(Frames) /\ te \o po \in Seq(Frames) OBVIOUS
<1>2. air \o (qu \o t) = (air \o qu) \o t BY FrameAssoc
<1>3. PICK F \in Seq(Frames) : F = air \o qu BY <1>1
<1>4. PICK B \in Seq(Frames) : B = te \o po BY <1>1
<1>5. ToSet(F \o t) = ToSet(F) \cup {f} BY <1>0, AppendSet
<1>6. c.epoch \in u BY DEF Proto, Known, InSession
<1>7. /\ c.rx \in Seq(Slots) /\ c2.rx \in Seq(Slots) /\ Len(c.rx) >= 1
      /\ Len(c2.rx) = Len(c.rx) - 1 /\ Len(c.rx) \in Nat /\ Len(c2.rx) \in Nat
      /\ \A i \in 1..Len(c2.rx) : c2.rx[i] = c.rx[i + 1]
  <2>1. PICK s \in Seq(Slots) : s = c.rx BY EspFields
  <2>2. /\ Len(s) >= 1 /\ Len(Tail(s)) = Len(s) - 1 /\ Tail(s) \in Seq(Slots)
        /\ \A i \in 1..Len(Tail(s)) : Tail(s)[i] = s[i + 1]
    BY <2>1
  <2> QED BY <2>1, <2>2
<1>8. Ends(c2, p, B) BY <1>4 DEF Proto, Ends, InSession
<1>9. Opened(c2, p, te, B) BY DEF Opened
<1>10. Known(c2, p, B, F \o t, u)
  BY <1>3, <1>4, <1>5, <1>6 DEF Proto, Known, InSession, Of
<1>11. Joined(c2, p, B, F \o t)
  <2> SUFFICES ASSUME Met(c2, p)
               PROVE  /\ Chain(c.oldest, c.count, B, p.rx, F \o t, p.expected, c.epoch)
                      /\ Chain(p.oldest, p.count, F \o t, c2.rx, B, c.expected, c.epoch)
    BY DEF Joined
  <2>1. Met(c, p) BY DEF Met, Streaming
  <2>2. /\ Chain(c.oldest, c.count, B, p.rx, F, p.expected, c.epoch)
        /\ Chain(p.oldest, p.count, F, c.rx, B, c.expected, c.epoch)
    BY <1>3, <1>4, <2>1 DEF Proto, Joined
  <2>3. FramesOf(t, "DATA", c.epoch) = 0 BY <1>0, One DEF Of
  <2>4. Alike(F, F \o t, "DATA", c.epoch) BY <2>3, AlikeEnds
  <2>5. Alike(B, B, "ACK", c.epoch) BY DEF Alike
  <2>6. Chain(c.oldest, c.count, B, p.rx, F \o t, p.expected, c.epoch)
    BY <2>2, <2>4, <2>5, EspFields, PhFields, ChainAlike
  <2>7. Len(t) = 1 /\ DOMAIN t = {1} /\ t[1] = f BY <1>0
  <2>8. \A i \in DOMAIN t : Of(t[i], "ACK", c.epoch) /\ t[i].seq = c.rx[i].seq BY <2>7
  <2>9. Chain(p.oldest, p.count, F \o t, c2.rx, B, c.expected, c.epoch)
    <3>1. /\ Len(t) <= Len(c.rx) /\ Len(c2.rx) = Len(c.rx) - Len(t)
          /\ \A i \in 1..Len(c2.rx) : c2.rx[i] = c.rx[i + Len(t)]
      BY <1>7, <2>7
    <3>2. /\ p.oldest \in SeqNo /\ p.count \in Nat /\ c.expected \in SeqNo
      BY EspFields, PhFields
    <3> QED BY <1>7, <2>2, <2>8, <3>1, <3>2, ChainAckOut
  <2> QED BY <2>6, <2>9
<1>12. Sides(c2, p, te, air)
  <2> SUFFICES ASSUME Streaming(c2)
               PROVE  Side(te, c.oldest, c.count, c.expected, Len(c2.rx), c.epoch)
    BY DEF Proto, Sides
  <2>1. Side(te, c.oldest, c.count, c.expected, Len(c.rx), c.epoch)
    BY DEF Proto, Sides, Streaming
  <2>2. c.count <= c.count /\ Len(c2.rx) <= Len(c.rx) BY <1>7, EspFields
  <2> QED BY <1>7, <2>1, <2>2, EspFields, SideMore
<1> QED BY <1>0, <1>2, <1>3, <1>4, <1>8, <1>9, <1>10, <1>11, <1>12 DEF Proto

\* receive(): a frame that is not for the channel as it is.
LEMMA EspSkips ==
  ASSUME NEW c \in EspChannels, NEW p \in PhChannels,
         NEW te \in Seq(Frames), NEW po \in Seq(Frames),
         NEW air \in Seq(Frames), NEW qu \in Seq(Frames), NEW u, NEW f \in Frames,
         ~InSession(c) \/ f.epoch # c.epoch,
         Proto(c, p, <<f>> \o te, po, air, qu, u)
  PROVE  Proto(c, p, te, po, air, qu, u)
<1>0. PICK x \in Seq(Frames) : x = <<f>> BY AppendSet
<1>1. PICK B \in Seq(Frames) : B = te \o po BY BackSet
<1>2. PICK F : F = air \o qu OBVIOUS
<1>3. (x \o te) \o po = x \o B BY <1>1, FrameAssoc
<1>4. ToSet(x \o B) = {f} \cup ToSet(B) BY <1>0, AppendSet
<1>5. Proto(c, p, x \o te, po, air, qu, u) BY <1>0
<1>6. InOrder(B) BY <1>3, <1>5, OrderConcat DEF Proto
<1>7. Ends(c, p, B) BY <1>3, <1>4, <1>5 DEF Proto, Ends
<1>8. Opened(c, p, te, B)
  <2> SUFFICES ASSUME c.state = "Opening"
               PROVE  /\ p.st = "ready" /\ p.epoch = c.epoch => HasOpened(B, c.epoch)
                      /\ OpenedFirst(te, c.epoch)
    BY DEF Opened
  <2>1. f.epoch # c.epoch BY DEF InSession
  <2>2. /\ p.st = "ready" /\ p.epoch = c.epoch => HasOpened(x \o B, c.epoch)
        /\ OpenedFirst(x \o te, c.epoch)
    BY <1>3, <1>5 DEF Proto, Opened
  <2>3. OpenedFirst(te, c.epoch) BY <1>0, <2>1, <2>2, FirstTail DEF Of
  <2> QED BY <1>4, <2>1, <2>2, <2>3 DEF HasOpened, Of
<1>9. Known(c, p, B, F, u) BY <1>2, <1>3, <1>4, <1>5 DEF Proto, Known
<1>10. Joined(c, p, B, F)
  <2> SUFFICES ASSUME Met(c, p)
               PROVE  /\ Chain(c.oldest, c.count, B, p.rx, F, p.expected, c.epoch)
                      /\ Chain(p.oldest, p.count, F, c.rx, B, c.expected, c.epoch)
    BY DEF Joined
  <2>1. /\ Chain(c.oldest, c.count, x \o B, p.rx, F, p.expected, c.epoch)
        /\ Chain(p.oldest, p.count, F, c.rx, x \o B, c.expected, c.epoch)
    BY <1>2, <1>3, <1>5 DEF Proto, Joined
  <2>2. f.epoch # c.epoch BY DEF Met, Streaming, InSession
  <2>3. FramesOf(x, "ACK", c.epoch) = 0 /\ FramesOf(x, "DATA", c.epoch) = 0
    BY <1>0, <2>2, One DEF Of
  <2>4. Alike(x \o B, B, "ACK", c.epoch) /\ Alike(x \o B, B, "DATA", c.epoch)
        /\ Alike(F, F, "ACK", c.epoch) /\ Alike(F, F, "DATA", c.epoch)
    BY <2>3, AlikeEnds DEF Alike
  <2> QED BY <2>1, <2>4, EspFields, PhFields, ChainAlike
<1>11. Sides(c, p, te, air)
  <2> SUFFICES ASSUME Streaming(c)
               PROVE  Side(te, c.oldest, c.count, c.expected, Len(c.rx), c.epoch)
    BY <1>5 DEF Proto, Sides
  <2>1. Side(<<f>> \o te, c.oldest, c.count, c.expected, Len(c.rx), c.epoch)
    BY DEF Proto, Sides
  <2>2. ~Of(f, "ACK", c.epoch) /\ ~Of(f, "DATA", c.epoch) BY DEF Of, Streaming, InSession
  <2> QED BY <2>1, <2>2, EspFields, SideSkip
<1> QED BY <1>1, <1>2, <1>6, <1>7, <1>8, <1>9, <1>10, <1>11 DEF Proto

\* receive(): OPENED.
LEMMA EspHearsOpened ==
  ASSUME NEW c \in EspChannels, NEW c2 \in EspChannels, NEW p \in PhChannels,
         NEW te \in Seq(Frames), NEW po \in Seq(Frames),
         NEW air \in Seq(Frames), NEW qu \in Seq(Frames), NEW u, NEW f \in Frames,
         InSession(c), Of(f, "OPENED", c.epoch),
         c2.state = "Open", c2.epoch = c.epoch, c2.oldest = c.oldest,
         c2.expected = c.expected, c2.count = c.count, c2.rx = c.rx,
         Proto(c, p, <<f>> \o te, po, air, qu, u)
  PROVE  c.state = "Opening" /\ Proto(c2, p, te, po, air, qu, u)
<1>0. PICK x \in Seq(Frames) : x = <<f>> BY AppendSet
<1>1. PICK B \in Seq(Frames) : B = te \o po BY BackSet
<1>2. PICK F : F = air \o qu OBVIOUS
<1>3. (x \o te) \o po = x \o B BY <1>1, FrameAssoc
<1>4. ToSet(x \o B) = {f} \cup ToSet(B) /\ ToSet(x) = {f} BY <1>0, AppendSet, SetOne
<1>5. Proto(c, p, x \o te, po, air, qu, u) BY <1>0
<1>6. InOrder(B) /\ Follows(x, B) BY <1>3, <1>5, OrderConcat DEF Proto
<1>7. Ends(c, p, x \o B) BY <1>3, <1>5 DEF Proto
<1>8. c.state = "Opening" BY <1>4, <1>7 DEF Ends, Of
<1>9. \A g \in ToSet(B) : g.epoch = c.epoch => g.type # "OPENED"
  BY <1>4, <1>6 DEF Follows, Of
<1>10. Ends(c2, p, B) BY <1>4, <1>7, <1>8, <1>9 DEF Ends, InSession, Of
<1>11. Opened(c2, p, te, B) BY DEF Opened
<1>12. Known(c2, p, B, F, u) BY <1>2, <1>3, <1>4, <1>5 DEF Proto, Known, Of
<1>13. Joined(c2, p, B, F)
  <2> SUFFICES ASSUME Met(c2, p)
               PROVE  /\ Chain(c.oldest, c.count, B, p.rx, F, p.expected, c.epoch)
                      /\ Chain(p.oldest, p.count, F, c.rx, B, c.expected, c.epoch)
    BY DEF Joined
  <2>1. Met(c, p) BY <1>8 DEF Met, Streaming
  <2>2. /\ Chain(c.oldest, c.count, x \o B, p.rx, F, p.expected, c.epoch)
        /\ Chain(p.oldest, p.count, F, c.rx, x \o B, c.expected, c.epoch)
    BY <1>2, <1>3, <1>5, <2>1 DEF Proto, Joined
  <2>3. FramesOf(x, "ACK", c.epoch) = 0 /\ FramesOf(x, "DATA", c.epoch) = 0
    BY <1>0, One DEF Of
  <2>4. Alike(x \o B, B, "ACK", c.epoch) /\ Alike(x \o B, B, "DATA", c.epoch)
        /\ Alike(F, F, "ACK", c.epoch) /\ Alike(F, F, "DATA", c.epoch)
    BY <2>3, AlikeEnds DEF Alike
  <2> QED BY <2>2, <2>4, EspFields, PhFields, ChainAlike
<1>14. Sides(c2, p, te, air)
  <2>1. Side(<<f>> \o te, c.oldest, c.count, c.expected, Len(c.rx), c.epoch)
    BY <1>8 DEF Proto, Sides, Streaming
  <2>2. ~Of(f, "ACK", c.epoch) /\ ~Of(f, "DATA", c.epoch) BY DEF Of
  <2>3. Side(te, c.oldest, c.count, c.expected, Len(c.rx), c.epoch)
    BY <2>1, <2>2, EspFields, SideSkip
  <2> QED BY <1>5, <2>3 DEF Proto, Sides
<1> QED BY <1>1, <1>2, <1>6, <1>8, <1>10, <1>11, <1>12, <1>13, <1>14 DEF Proto

\* receive(): DATA is the expected frame and has a slot.
LEMMA EspHearsData ==
  ASSUME NEW c \in EspChannels, NEW c2 \in EspChannels, NEW p \in PhChannels,
         NEW te \in Seq(Frames), NEW po \in Seq(Frames),
         NEW air \in Seq(Frames), NEW qu \in Seq(Frames), NEW u, NEW f \in Frames,
         NEW y \in Slots, y.seq = f.seq,
         InSession(c), Of(f, "DATA", c.epoch),
         Proto(c, p, <<f>> \o te, po, air, qu, u)
  PROVE  /\ c.state = "Open" /\ f.seq = c.expected /\ Len(c.rx) < Window
         /\ (/\ c2.state = "Open" /\ c2.epoch = c.epoch /\ c2.oldest = c.oldest
             /\ c2.expected = NextSeq(c.expected) /\ c2.count = c.count
             /\ c2.rx = Append(c.rx, y))
              => Proto(c2, p, te, po, air, qu, u)
<1>0. PICK x \in Seq(Frames) : x = <<f>> BY AppendSet
<1>1. PICK B \in Seq(Frames) : B = te \o po BY BackSet
<1>2. PICK F \in Seq(Frames) : F = air \o qu BY BackSet
<1>3. (x \o te) \o po = x \o B BY <1>1, FrameAssoc
<1>4. ToSet(x \o B) = {f} \cup ToSet(B) /\ ToSet(x) = {f} BY <1>0, AppendSet, SetOne
<1>5. Proto(c, p, x \o te, po, air, qu, u) BY <1>0
<1>6. InOrder(B) BY <1>3, <1>5, OrderConcat DEF Proto
<1>7. Ends(c, p, x \o B) BY <1>3, <1>5 DEF Proto
<1>8. c.state = "Open"
  <2>1. c.state # "PeerClosed" BY <1>4, <1>7 DEF Ends, Of
  <2>2. c.state = "Opening" => OpenedFirst(<<f>> \o te, c.epoch) BY DEF Proto, Opened
  <2>3. c.state # "Opening" BY <2>2, FirstTail
  <2> QED BY <2>1, <2>3 DEF InSession
<1>9. Side(<<f>> \o te, c.oldest, c.count, c.expected, Len(c.rx), c.epoch)
  BY <1>8 DEF Proto, Sides, Streaming
<1>10. /\ f.seq = c.expected /\ Len(c.rx) < Window
       /\ Side(te, c.oldest, c.count, NextSeq(c.expected), Len(c.rx) + 1, c.epoch)
  BY <1>9, EspFields, SideTake
<1>11. SUFFICES ASSUME /\ c2.state = "Open" /\ c2.epoch = c.epoch /\ c2.oldest = c.oldest
                       /\ c2.expected = NextSeq(c.expected) /\ c2.count = c.count
                       /\ c2.rx = Append(c.rx, y)
                PROVE  Proto(c2, p, te, po, air, qu, u)
  BY <1>8, <1>10
<1>12. Ends(c2, p, B) BY <1>4, <1>7, <1>8, <1>11 DEF Ends, InSession, Of
<1>13. Opened(c2, p, te, B) BY <1>11 DEF Opened
<1>14. Known(c2, p, B, F, u) BY <1>2, <1>3, <1>4, <1>5, <1>11 DEF Proto, Known, Of
<1>15. Joined(c2, p, B, F)
  <2> SUFFICES ASSUME Met(c2, p)
               PROVE  /\ Chain(c.oldest, c.count, B, p.rx, F, p.expected, c.epoch)
                      /\ Chain(p.oldest, p.count, F, c2.rx, B, NextSeq(c.expected), c.epoch)
    BY <1>11 DEF Joined
  <2>1. Met(c, p) BY <1>8, <1>11 DEF Met, Streaming
  <2>2. /\ Chain(c.oldest, c.count, x \o B, p.rx, F, p.expected, c.epoch)
        /\ Chain(p.oldest, p.count, F, c.rx, x \o B, c.expected, c.epoch)
    BY <1>2, <1>3, <1>5, <2>1 DEF Proto, Joined
  <2>3. FramesOf(x, "ACK", c.epoch) = 0 BY <1>0, One DEF Of
  <2>4. Alike(x \o B, B, "ACK", c.epoch) /\ Alike(F, F, "DATA", c.epoch)
    BY <2>3, AlikeEnds DEF Alike
  <2>5. Chain(c.oldest, c.count, B, p.rx, F, p.expected, c.epoch)
    BY <2>2, <2>4, EspFields, PhFields, ChainAlike
  <2>6. Chain(p.oldest, p.count, F, c.rx, <<f>> \o B, c.expected, c.epoch) BY <1>0, <2>2
  <2>7. Chain(p.oldest, p.count, F, Append(c.rx, y), B, NextSeq(c.expected), c.epoch)
    BY <2>6, EspFields, PhFields, ChainTake
  <2> QED BY <1>11, <2>5, <2>7
<1>16. Sides(c2, p, te, air)
  <2>1. Len(c2.rx) = Len(c.rx) + 1 BY <1>11, EspFields
  <2> QED BY <1>5, <1>10, <1>11, <2>1 DEF Proto, Sides
<1> QED BY <1>1, <1>2, <1>6, <1>12, <1>13, <1>14, <1>15, <1>16 DEF Proto

\* receive(): ACK is for the oldest pending frame.
LEMMA EspHearsAck ==
  ASSUME NEW c \in EspChannels, NEW c2 \in EspChannels, NEW p \in PhChannels,
         NEW te \in Seq(Frames), NEW po \in Seq(Frames),
         NEW air \in Seq(Frames), NEW qu \in Seq(Frames), NEW u, NEW f \in Frames,
         EspLocal(c), InSession(c), Of(f, "ACK", c.epoch),
         Proto(c, p, <<f>> \o te, po, air, qu, u)
  PROVE  /\ c.state = "Open" /\ f.seq = c.oldest /\ c.count > 0
         /\ (/\ c2.state = "Open" /\ c2.epoch = c.epoch /\ c2.oldest = NextSeq(c.oldest)
             /\ c2.expected = c.expected /\ c2.count = c.count - 1 /\ c2.rx = c.rx)
              => Proto(c2, p, te, po, air, qu, u)
<1>0. PICK x \in Seq(Frames) : x = <<f>> BY AppendSet
<1>1. PICK B \in Seq(Frames) : B = te \o po BY BackSet
<1>2. PICK F \in Seq(Frames) : F = air \o qu BY BackSet
<1>3. (x \o te) \o po = x \o B BY <1>1, FrameAssoc
<1>4. ToSet(x \o B) = {f} \cup ToSet(B) /\ ToSet(x) = {f} BY <1>0, AppendSet, SetOne
<1>5. Proto(c, p, x \o te, po, air, qu, u) BY <1>0
<1>6. InOrder(B) BY <1>3, <1>5, OrderConcat DEF Proto
<1>7. Ends(c, p, x \o B) BY <1>3, <1>5 DEF Proto
<1>8. c.state # "PeerClosed" BY <1>4, <1>7 DEF Ends, Of
<1>9. Side(<<f>> \o te, c.oldest, c.count, c.expected, Len(c.rx), c.epoch)
  BY <1>8 DEF Proto, Sides, Streaming, InSession
<1>10. /\ f.seq = c.oldest /\ c.count > 0
       /\ Side(te, NextSeq(c.oldest), c.count - 1, c.expected, Len(c.rx), c.epoch)
  BY <1>9, EspFields, SideAck
<1>10a. c.state = "Open" BY <1>8, <1>10 DEF InSession, EspLocal
<1>11. SUFFICES ASSUME /\ c2.state = "Open" /\ c2.epoch = c.epoch
                       /\ c2.oldest = NextSeq(c.oldest)
                       /\ c2.expected = c.expected /\ c2.count = c.count - 1 /\ c2.rx = c.rx
                PROVE  Proto(c2, p, te, po, air, qu, u)
  BY <1>10, <1>10a
<1>12. Ends(c2, p, B) BY <1>4, <1>7, <1>10a, <1>11 DEF Ends, InSession, Of
<1>13. Opened(c2, p, te, B) BY <1>11 DEF Opened
<1>14. Known(c2, p, B, F, u) BY <1>2, <1>3, <1>4, <1>5, <1>11 DEF Proto, Known, Of
<1>15. Joined(c2, p, B, F)
  <2> SUFFICES ASSUME Met(c2, p)
               PROVE  /\ Chain(NextSeq(c.oldest), c.count - 1, B, p.rx, F, p.expected, c.epoch)
                      /\ Chain(p.oldest, p.count, F, c.rx, B, c.expected, c.epoch)
    BY <1>11 DEF Joined
  <2>1. Met(c, p) BY <1>10a, <1>11 DEF Met, Streaming
  <2>2. /\ Chain(c.oldest, c.count, x \o B, p.rx, F, p.expected, c.epoch)
        /\ Chain(p.oldest, p.count, F, c.rx, x \o B, c.expected, c.epoch)
    BY <1>2, <1>3, <1>5, <2>1 DEF Proto, Joined
  <2>3. FramesOf(x, "DATA", c.epoch) = 0 BY <1>0, One DEF Of
  <2>4. Alike(x \o B, B, "DATA", c.epoch) /\ Alike(F, F, "ACK", c.epoch)
    BY <2>3, AlikeEnds DEF Alike
  <2>5. Chain(p.oldest, p.count, F, c.rx, B, c.expected, c.epoch)
    BY <2>2, <2>4, EspFields, PhFields, ChainAlike
  <2>6. Chain(c.oldest, c.count, <<f>> \o B, p.rx, F, p.expected, c.epoch) BY <1>0, <2>2
  <2>7. Chain(NextSeq(c.oldest), c.count - 1, B, p.rx, F, p.expected, c.epoch)
    BY <2>6, EspFields, PhFields, ChainAckIn
  <2> QED BY <2>5, <2>7
<1>16. Sides(c2, p, te, air) BY <1>5, <1>10, <1>11 DEF Proto, Sides
<1> QED BY <1>1, <1>2, <1>6, <1>12, <1>13, <1>14, <1>15, <1>16 DEF Proto

\* receive(): CLOSE is the last word of that session.
LEMMA EspHearsClose ==
  ASSUME NEW c, NEW c2, NEW p, NEW te \in Seq(Frames), NEW po \in Seq(Frames),
         NEW air \in Seq(Frames), NEW qu \in Seq(Frames), NEW u, NEW f \in Frames,
         InSession(c), Of(f, "CLOSE", c.epoch), c2.state = "PeerClosed", c2.epoch = c.epoch,
         Proto(c, p, <<f>> \o te, po, air, qu, u)
  PROVE  Proto(c2, p, te, po, air, qu, u)
<1>0. PICK x \in Seq(Frames) : x = <<f>> BY AppendSet
<1>1. PICK B \in Seq(Frames) : B = te \o po BY BackSet
<1>2. PICK F : F = air \o qu OBVIOUS
<1>3. (x \o te) \o po = x \o B BY <1>1, FrameAssoc
<1>4. ToSet(x \o B) = {f} \cup ToSet(B) /\ ToSet(x) = {f} BY <1>0, AppendSet, SetOne
<1>5. Proto(c, p, x \o te, po, air, qu, u) BY <1>0
<1>6. InOrder(B) /\ Follows(x, B) BY <1>3, <1>5, OrderConcat DEF Proto
<1>7. Ends(c, p, x \o B) BY <1>3, <1>5 DEF Proto
<1>8. \A g \in ToSet(B) : g.epoch # c.epoch BY <1>4, <1>6 DEF Follows, Of, Terminal
<1>9. Live(p) => p.epoch # c.epoch BY <1>4, <1>7 DEF Ends, Of, Terminal
<1>10. Ends(c2, p, B) BY <1>4, <1>7, <1>8, <1>9 DEF Ends
<1>11. Opened(c2, p, te, B) BY DEF Opened
<1>12. Known(c2, p, B, F, u) BY <1>2, <1>3, <1>4, <1>5 DEF Proto, Known, Of
<1>13. Joined(c2, p, B, F) BY DEF Joined, Met, Streaming
<1>14. Sides(c2, p, te, air) BY <1>5 DEF Proto, Sides, Streaming
<1> QED BY <1>1, <1>2, <1>6, <1>10, <1>11, <1>12, <1>13, <1>14 DEF Proto

-----------------------------------------------------------------------------
(* The protocol under the steps of the worker, the air and the phone.      *)

\* The worker sends what belongs to the session it is in, or ends one.
LEMMA WorkerSends ==
  ASSUME NEW c \in EspChannels, NEW p \in PhChannels, EspLocal(c),
         NEW te \in Seq(Frames), NEW po \in Seq(Frames),
         NEW air \in Seq(Frames), NEW qu \in Seq(Frames), NEW u, NEW f \in Frames,
         NEW x \in Seq(Frames), Len(x) = 1, x[1] = f,
         (InSession(c) /\ f.epoch = c.epoch) \/ f.type \notin {"DATA", "ACK"},
         Proto(c, p, te, po, air, x \o qu, u)
  PROVE  Proto(c, p, te, po, air \o x, qu, u)
<1>a. air \o (x \o qu) = (air \o x) \o qu BY FrameAssoc
<1>0. x = <<f>> OBVIOUS
<1>1. PICK B \in Seq(Frames) : B = te \o po BY BackSet
<1>2. PICK a \in Seq(Frames) : a = air \o x BY BackSet
<1>3. PICK F \in Seq(Frames) : F = a \o qu BY BackSet
<1>4. air \o (x \o qu) = F BY <1>a, <1>2, <1>3
<1>6. ToSet(a) = ToSet(air) \cup {f} /\ f \in ToSet(F)
  <2>1. ToSet(a) = ToSet(air) \cup {f} BY <1>0, <1>2, AppendSet
  <2> QED BY <1>3, <2>1, SetConcat
<1>7. /\ Ends(c, p, B) /\ Known(c, p, B, F, u) /\ Joined(c, p, B, F)
      /\ Sides(c, p, te, air) /\ InOrder(B) /\ Opened(c, p, te, B)
  BY <1>1, <1>4 DEF Proto
<1>8. ASSUME Live(p), InSession(c), f.epoch = c.epoch, p.epoch = c.epoch
      PROVE  /\ Met(c, p)
             /\ Chain(c.oldest, c.count, B, p.rx, F, p.expected, c.epoch)
             /\ Chain(p.oldest, p.count, F, c.rx, B, c.expected, c.epoch)
  <2>1. c.state # "PeerClosed" BY <1>7, <1>8 DEF Ends
  <2>2. Met(c, p) BY <1>8, <2>1 DEF Met, Streaming, InSession
  <2> QED BY <1>7, <2>2 DEF Joined
<1>9. ASSUME Live(p) PROVE Side(a, p.oldest, p.count, p.expected, Len(p.rx), p.epoch)
  <2>1. Side(air, p.oldest, p.count, p.expected, Len(p.rx), p.epoch) BY <1>7, <1>9 DEF Sides
  <2>2. CASE ~Of(f, "ACK", p.epoch) /\ ~Of(f, "DATA", p.epoch)
    <3>1. FramesOf(x, "ACK", p.epoch) = 0 /\ FramesOf(x, "DATA", p.epoch) = 0
      BY <1>0, <2>2, One
    <3>2. Alike(air, a, "ACK", p.epoch) /\ Alike(air, a, "DATA", p.epoch)
      BY <1>2, <3>1, AlikeEnds
    <3> QED BY <2>1, <3>2, PhFields, SideAlike
  <2>3. CASE Of(f, "ACK", p.epoch) \/ Of(f, "DATA", p.epoch)
    <3>1. InSession(c) /\ f.epoch = c.epoch /\ p.epoch = c.epoch BY <2>3 DEF Of
    <3>2. /\ Chain(c.oldest, c.count, B, p.rx, a \o qu, p.expected, c.epoch)
          /\ Chain(p.oldest, p.count, a \o qu, c.rx, B, c.expected, c.epoch)
      BY <1>3, <1>8, <1>9, <3>1
    <3>3. Side(a, p.oldest, p.count, p.expected, Len(p.rx), c.epoch)
      BY <3>2, EspFields, PhFields, ChainSide
    <3> QED BY <3>1, <3>3
  <2> QED BY <2>2, <2>3
<1>10. ASSUME p.st = "connecting", Of(f, "DATA", p.epoch) PROVE FALSE
  <2>1. Live(p) /\ InSession(c) /\ f.epoch = c.epoch /\ p.epoch = c.epoch
    BY <1>10 DEF Of, Live
  <2>2. c.state = "Opening" BY <1>7, <1>10, <2>1 DEF Ends
  <2>3. c.count = 0 BY <2>2 DEF EspLocal
  <2>4. 0 = FramesOf(B, "ACK", c.epoch) + Len(p.rx) + FramesOf(F, "DATA", c.epoch)
    BY <1>8, <2>1, <2>3 DEF Chain
  <2>5. FramesOf(F, "DATA", c.epoch) = 0
    <3>1. FramesOf(B, "ACK", c.epoch) \in Nat /\ FramesOf(F, "DATA", c.epoch) \in Nat
          /\ Len(p.rx) \in Nat
      BY CountIs, PhFields
    <3> QED BY <2>4, <3>1
  <2>6. \A i \in DOMAIN F : ~Of(F[i], "DATA", c.epoch) BY <2>5, CountNone
  <2> QED BY <1>6, <1>10, <2>1, <2>6 DEF ToSet
<1>11. Sides(c, p, te, a) BY <1>6, <1>7, <1>9, <1>10 DEF Sides
<1> QED BY <1>1, <1>2, <1>3, <1>7, <1>11 DEF Proto

\* The worker discards what is older than the session.
LEMMA WorkerDrops ==
  ASSUME NEW c \in EspChannels, NEW p \in PhChannels,
         NEW te \in Seq(Frames), NEW po \in Seq(Frames),
         NEW air \in Seq(Frames), NEW qu \in Seq(Frames), NEW u, NEW f \in Frames,
         NEW x \in Seq(Frames), Len(x) = 1, x[1] = f,
         ~InSession(c) \/ f.epoch # c.epoch,
         Proto(c, p, te, po, air, x \o qu, u)
  PROVE  Proto(c, p, te, po, air, qu, u)
<1>a. air \o (x \o qu) = (air \o x) \o qu BY FrameAssoc
<1>0. x = <<f>> OBVIOUS
<1>1. PICK B \in Seq(Frames) : B = te \o po BY BackSet
<1>2. PICK F \in Seq(Frames) : F = (air \o x) \o qu
  <2>1. (air \o x) \o qu \in Seq(Frames) BY BackSet
  <2> QED BY <2>1
<1>3. PICK G \in Seq(Frames) : G = air \o qu BY BackSet
<1>4. air \o (x \o qu) = F BY <1>a, <1>2
<1>5. ToSet(G) \subseteq ToSet(F)
  <2>1. ToSet(F) = ToSet(air) \cup ToSet(x) \cup ToSet(qu) BY <1>2, BackSet
  <2> QED BY <1>3, <2>1, SetConcat
<1>6. /\ Ends(c, p, B) /\ Known(c, p, B, F, u) /\ Joined(c, p, B, F)
      /\ Sides(c, p, te, air) /\ InOrder(B) /\ Opened(c, p, te, B)
  BY <1>1, <1>4 DEF Proto
<1>7. Known(c, p, B, G, u) BY <1>5, <1>6 DEF Known
<1>8. Joined(c, p, B, G)
  <2> SUFFICES ASSUME Met(c, p)
               PROVE  /\ Chain(c.oldest, c.count, B, p.rx, G, p.expected, c.epoch)
                      /\ Chain(p.oldest, p.count, G, c.rx, B, c.expected, c.epoch)
    BY DEF Joined
  <2>1. f.epoch # c.epoch BY DEF Met, Streaming, InSession
  <2>2. FramesOf(x, "ACK", c.epoch) = 0 /\ FramesOf(x, "DATA", c.epoch) = 0
    BY <1>0, <2>1, One DEF Of
  <2>3. Alike(F, G, "ACK", c.epoch) /\ Alike(F, G, "DATA", c.epoch)
    BY <1>2, <1>3, <2>2, AlikeDrop
  <2>4. Alike(B, B, "ACK", c.epoch) /\ Alike(B, B, "DATA", c.epoch) BY DEF Alike
  <2> QED BY <1>6, <2>3, <2>4, EspFields, PhFields, ChainAlike DEF Joined
<1> QED BY <1>1, <1>3, <1>6, <1>7, <1>8 DEF Proto

\* What is in the air is lost with the link.
LEMMA AirLoses ==
  ASSUME NEW c \in EspChannels, NEW p \in PhChannels,
         NEW te \in Seq(Frames), NEW po \in Seq(Frames),
         NEW air \in Seq(Frames), NEW qu \in Seq(Frames), NEW u, NEW x \in Seq(Frames),
         ~Met(c, p), Proto(c, p, te, po, air \o x, qu, u)
  PROVE  Proto(c, p, te, po, air, qu, u)
<1>1. PICK B \in Seq(Frames) : B = te \o po BY BackSet
<1>2. ToSet(air \o qu) \subseteq ToSet((air \o x) \o qu)
  <2>1. ToSet((air \o x) \o qu) = ToSet(air) \cup ToSet(x) \cup ToSet(qu) BY BackSet
  <2> QED BY <2>1, SetConcat
<1>3. Known(c, p, B, air \o qu, u) BY <1>1, <1>2 DEF Proto, Known
<1>4. Joined(c, p, B, air \o qu) BY DEF Joined
<1>5. ToSet(air) \subseteq ToSet(air \o x) BY SetConcat
<1>6. Sides(c, p, te, air)
  <2>1. Sides(c, p, te, air \o x) BY DEF Proto
  <2>2. ASSUME Live(p) PROVE Side(air, p.oldest, p.count, p.expected, Len(p.rx), p.epoch)
    <3>1. Side(air \o x, p.oldest, p.count, p.expected, Len(p.rx), p.epoch)
      BY <2>1, <2>2 DEF Sides
    <3> QED BY <3>1, PhFields, SidePrefix
  <2> QED BY <1>5, <2>1, <2>2 DEF Sides
<1> QED BY <1>1, <1>3, <1>4, <1>6 DEF Proto

\* receive() of the phone: a frame that is not for the channel.
LEMMA PhoneSkips ==
  ASSUME NEW c \in EspChannels, NEW p \in PhChannels,
         NEW te \in Seq(Frames), NEW po \in Seq(Frames),
         NEW air \in Seq(Frames), NEW qu \in Seq(Frames), NEW u, NEW f \in Frames,
         ~Live(p) \/ f.epoch # p.epoch \/ f.type \notin {"DATA", "ACK"},
         Proto(c, p, te, po, <<f>> \o air, qu, u)
  PROVE  Proto(c, p, te, po, air, qu, u)
<1>0. PICK x \in Seq(Frames) : x = <<f>> BY AppendSet
<1>1. PICK B \in Seq(Frames) : B = te \o po BY BackSet
<1>2. PICK F \in Seq(Frames) : F = air \o qu BY BackSet
<1>3. (x \o air) \o qu = x \o F BY <1>2, FrameAssoc
<1>4. ToSet(x \o F) = {f} \cup ToSet(F) /\ ToSet(x \o air) = {f} \cup ToSet(air)
  BY <1>0, AppendSet
<1>5. /\ Ends(c, p, B) /\ Known(c, p, B, x \o F, u) /\ Joined(c, p, B, x \o F)
      /\ Sides(c, p, te, x \o air) /\ InOrder(B) /\ Opened(c, p, te, B)
  BY <1>0, <1>1, <1>3 DEF Proto
<1>6. Live(p) => ~Of(f, "ACK", p.epoch) /\ ~Of(f, "DATA", p.epoch) BY DEF Of
<1>7. Known(c, p, B, F, u) BY <1>4, <1>5 DEF Known
<1>8. Joined(c, p, B, F)
  <2> SUFFICES ASSUME Met(c, p)
               PROVE  /\ Chain(c.oldest, c.count, B, p.rx, F, p.expected, c.epoch)
                      /\ Chain(p.oldest, p.count, F, c.rx, B, c.expected, c.epoch)
    BY DEF Joined
  <2>1. ~Of(f, "ACK", c.epoch) /\ ~Of(f, "DATA", c.epoch) BY <1>6 DEF Met
  <2>2. FramesOf(x, "ACK", c.epoch) = 0 /\ FramesOf(x, "DATA", c.epoch) = 0
    BY <1>0, <2>1, One
  <2>3. Alike(x \o F, F, "ACK", c.epoch) /\ Alike(x \o F, F, "DATA", c.epoch)
    BY <2>2, AlikeEnds
  <2>4. Alike(B, B, "ACK", c.epoch) /\ Alike(B, B, "DATA", c.epoch) BY DEF Alike
  <2> QED BY <1>5, <2>3, <2>4, EspFields, PhFields, ChainAlike DEF Joined
<1>9. Sides(c, p, te, air)
  <2>1. ASSUME Live(p) PROVE Side(air, p.oldest, p.count, p.expected, Len(p.rx), p.epoch)
    <3>1. Side(<<f>> \o air, p.oldest, p.count, p.expected, Len(p.rx), p.epoch)
      BY <1>0, <1>5, <2>1 DEF Sides
    <3> QED BY <1>6, <2>1, <3>1, PhFields, SideSkip
  <2> QED BY <1>4, <1>5, <2>1 DEF Sides
<1> QED BY <1>1, <1>2, <1>5, <1>7, <1>8, <1>9 DEF Proto

\* receive(OPEN): a channel of an epoch never seen on this link.
LEMMA PhoneOpens ==
  ASSUME NEW c \in EspChannels, NEW p, NEW p2 \in PhChannels, EspLocal(c),
         NEW te \in Seq(Frames), NEW po \in Seq(Frames),
         NEW air \in Seq(Frames), NEW qu \in Seq(Frames), NEW u, NEW f \in Frames,
         NEW x \in Seq(Frames),
         f.epoch \notin u, p2.st = "connecting", p2.epoch = f.epoch, p2.count = 0,
         p2.oldest = 0, p2.expected = 0, p2.rx = <<>>,
         Proto(c, p, te, po, x \o air, qu, u)
  PROVE  Proto(c, p2, te, po, air, qu, u \cup {f.epoch})
<1>a. (x \o air) \o qu = x \o (air \o qu) BY FrameAssoc
<1>1. PICK B \in Seq(Frames) : B = te \o po BY BackSet
<1>2. PICK F \in Seq(Frames) : F = air \o qu BY BackSet
<1>3. ToSet(x \o F) = ToSet(x) \cup ToSet(F) /\ ToSet(F) = ToSet(air) \cup ToSet(qu)
  BY <1>2, SetConcat
<1>4. /\ Ends(c, p, B) /\ Known(c, p, B, x \o F, u)
      /\ Sides(c, p, te, x \o air) /\ InOrder(B) /\ Opened(c, p, te, B)
  BY <1>a, <1>1, <1>2 DEF Proto
<1>5. /\ \A g \in ToSet(B) : g.epoch # p2.epoch
      /\ \A g \in ToSet(F) : g.type \in {"DATA", "ACK"} => g.epoch # p2.epoch
      /\ InSession(c) /\ c.epoch = p2.epoch => c.state = "Opening"
  BY <1>3, <1>4 DEF Known
<1>6. Ends(c, p2, B)
  <2>1. \A g \in ToSet(B) :
          /\ Live(p2) /\ g.epoch = p2.epoch => g.type \notin Terminal /\ p2.st = "ready"
          /\ InSession(c) /\ g.epoch = c.epoch =>
               c.state # "PeerClosed" /\ (g.type = "OPENED" => c.state = "Opening")
    BY <1>4, <1>5 DEF Ends
  <2>2. InSession(c) /\ Live(p2) /\ p2.epoch = c.epoch =>
          c.state # "PeerClosed" /\ (p2.st = "connecting" => c.state = "Opening")
    BY <1>5
  <2> QED BY <2>1, <2>2 DEF Ends
<1>7. Opened(c, p2, te, B) BY <1>4 DEF Opened
<1>8. Known(c, p2, B, F, u \cup {f.epoch}) BY <1>3, <1>4 DEF Known
<1>9. /\ FramesOf(B, "ACK", p2.epoch) = 0 /\ FramesOf(B, "DATA", p2.epoch) = 0
      /\ FramesOf(F, "ACK", p2.epoch) = 0 /\ FramesOf(F, "DATA", p2.epoch) = 0
  <2>1. /\ \A i \in DOMAIN B : B[i].epoch # p2.epoch
        /\ \A i \in DOMAIN F : F[i].type \in {"DATA", "ACK"} => F[i].epoch # p2.epoch
    BY <1>5 DEF ToSet
  <2>2. /\ \A i \in DOMAIN B : ~Of(B[i], "ACK", p2.epoch) /\ ~Of(B[i], "DATA", p2.epoch)
        /\ \A i \in DOMAIN F : ~Of(F[i], "ACK", p2.epoch) /\ ~Of(F[i], "DATA", p2.epoch)
    BY <2>1 DEF Of
  <2> QED BY <2>2, CountNone
<1>10. Joined(c, p2, B, F)
  <2> SUFFICES ASSUME Met(c, p2)
               PROVE  /\ Chain(c.oldest, c.count, B, p2.rx, F, p2.expected, c.epoch)
                      /\ Chain(p2.oldest, p2.count, F, c.rx, B, c.expected, c.epoch)
    BY DEF Joined
  <2>1. c.epoch = p2.epoch /\ c.state = "Opening"
    BY <1>5 DEF Met, Streaming, InSession
  <2>2. c.oldest = 0 /\ c.count = 0 /\ c.expected = 0 /\ c.rx = <<>> BY <2>1 DEF EspLocal
  <2>3. /\ Chain(0, 0, B, <<>>, F, 0, c.epoch)
        /\ Chain(0, 0, F, <<>>, B, 0, c.epoch)
    BY <1>9, <2>1, ChainEmpty
  <2> QED BY <2>2, <2>3
<1>11. Sides(c, p2, te, air)
  <2>1. \A g \in ToSet(air) : g.type \in {"DATA", "ACK"} => g.epoch # p2.epoch BY <1>3, <1>5
  <2>2. \A i \in DOMAIN air : air[i].type \in {"DATA", "ACK"} => air[i].epoch # p2.epoch
    BY <2>1 DEF ToSet
  <2>3. FramesOf(air, "ACK", p2.epoch) = 0 /\ FramesOf(air, "DATA", p2.epoch) = 0
    <3>1. \A i \in DOMAIN air : ~Of(air[i], "ACK", p2.epoch) /\ ~Of(air[i], "DATA", p2.epoch)
      BY <2>2 DEF Of
    <3> QED BY <3>1, CountNone
  <2>4. 0 \in SeqNo /\ Len(p2.rx) = 0 BY RelayAssumption DEF SeqNo
  <2>5. Side(air, 0, 0, 0, 0, p2.epoch) BY <2>3, <2>4, SideEmpty, RelayAssumption
  <2> QED BY <1>4, <2>1, <2>4, <2>5 DEF Sides, Of
<1> QED BY <1>1, <1>2, <1>4, <1>6, <1>7, <1>8, <1>10, <1>11 DEF Proto

\* The phone ends a channel, live or just refused, and says so.
LEMMA PhoneCloses ==
  ASSUME NEW c, NEW p, NEW p2,
         NEW te \in Seq(Frames), NEW po \in Seq(Frames),
         NEW air \in Seq(Frames), NEW qu \in Seq(Frames), NEW u, NEW u2, NEW g \in Frames,
         NEW x \in Seq(Frames),
         ~Live(p2), p2.st # "ready", g.type \in Terminal, u \subseteq u2,
         (Live(p) /\ g.epoch = p.epoch) \/ (g.epoch \notin u /\ g.epoch \in u2),
         Proto(c, p, te, po, x \o air, qu, u)
  PROVE  Proto(c, p2, te, po \o <<g>>, air, qu, u2)
<1>a. (x \o air) \o qu = x \o (air \o qu) BY FrameAssoc
<1>0. PICK y \in Seq(Frames) : y = <<g>> BY AppendSet
<1>b. te \o (po \o y) = (te \o po) \o y BY FrameAssoc
<1>1. PICK B \in Seq(Frames) : B = te \o po BY BackSet
<1>2. PICK F \in Seq(Frames) : F = air \o qu BY BackSet
<1>3. ToSet(x \o F) = ToSet(x) \cup ToSet(F) BY SetConcat
<1>4. ToSet(B \o y) = ToSet(B) \cup {g} /\ ToSet(y) = {g} BY <1>0, AppendSet, SetOne
<1>5. /\ Ends(c, p, B) /\ Known(c, p, B, x \o F, u)
      /\ Sides(c, p, te, x \o air) /\ InOrder(B) /\ Opened(c, p, te, B)
  BY <1>a, <1>1, <1>2 DEF Proto
<1>6. InOrder(B \o y)
  <2>1. InOrder(y) BY <1>0, OrderOne
  <2>2. g.type # "OPENED" BY DEF Terminal
  <2>3. \A f \in ToSet(B) : f.epoch = g.epoch => f.type \notin Terminal
    BY <1>5 DEF Ends, Known
  <2>4. Follows(B, y) BY <1>4, <2>2, <2>3 DEF Follows
  <2> QED BY <1>5, <2>1, <2>4, OrderConcat
<1>7. Ends(c, p2, B \o y)
  <2>1. InSession(c) /\ g.epoch = c.epoch => c.state # "PeerClosed" /\ g.type # "OPENED"
    BY <1>5 DEF Ends, Known, Terminal
  <2> QED BY <1>4, <1>5, <2>1 DEF Ends
<1>8. Opened(c, p2, te, B \o y) BY <1>5 DEF Opened
<1>9. Known(c, p2, B \o y, F, u2) BY <1>3, <1>4, <1>5 DEF Known
<1>10. Joined(c, p2, B \o y, F) BY DEF Joined, Met
<1>11. Sides(c, p2, te, air) BY <1>5 DEF Sides, Live
<1> QED BY <1>0, <1>b, <1>1, <1>2, <1>6, <1>7, <1>8, <1>9, <1>10, <1>11 DEF Proto

\* The phone's engine and its queues end with the link.
LEMMA PhoneLost ==
  ASSUME NEW c, NEW p, NEW p2,
         NEW te \in Seq(Frames), NEW po \in Seq(Frames),
         NEW air \in Seq(Frames), NEW qu \in Seq(Frames), NEW u, NEW x \in Seq(Frames),
         ~Live(p2), p2.st # "ready",
         Proto(c, p, te, po, x \o air, qu, u)
  PROVE  Proto(c, p2, te, <<>>, air, qu, u)
<1>a. (x \o air) \o qu = x \o (air \o qu) BY FrameAssoc
<1>1. PICK B \in Seq(Frames) : B = te \o po BY BackSet
<1>2. PICK F \in Seq(Frames) : F = air \o qu BY BackSet
<1>3. ToSet(x \o F) = ToSet(x) \cup ToSet(F) /\ ToSet(B) = ToSet(te) \cup ToSet(po)
  BY <1>1, SetConcat
<1>4. te \o <<>> = te BY Unit
<1>5. /\ Ends(c, p, B) /\ Known(c, p, B, x \o F, u)
      /\ Sides(c, p, te, x \o air) /\ InOrder(B) /\ Opened(c, p, te, B)
  BY <1>a, <1>1, <1>2 DEF Proto
<1>6. InOrder(te) BY <1>1, <1>5, OrderConcat
<1>7. Ends(c, p2, te) BY <1>3, <1>5 DEF Ends
<1>8. Opened(c, p2, te, te) BY <1>5 DEF Opened
<1>9. Known(c, p2, te, F, u) BY <1>3, <1>5 DEF Known
<1>10. Joined(c, p2, te, F) BY DEF Joined, Met
<1>11. Sides(c, p2, te, air) BY <1>5 DEF Sides, Live
<1> QED BY <1>2, <1>4, <1>6, <1>7, <1>8, <1>9, <1>10, <1>11 DEF Proto

\* open() of the phone has its socket.
LEMMA PhoneConnects ==
  ASSUME NEW c \in EspChannels, NEW p \in PhChannels, NEW p2 \in PhChannels,
         NEW te \in Seq(Frames), NEW po \in Seq(Frames),
         NEW air \in Seq(Frames), NEW qu \in Seq(Frames), NEW u, NEW g \in Frames,
         p.st = "connecting", p2.st = "ready", p2.epoch = p.epoch, p2.count = p.count,
         p2.oldest = p.oldest, p2.expected = p.expected, p2.rx = p.rx,
         Of(g, "OPENED", p.epoch),
         Proto(c, p, te, po, air, qu, u)
  PROVE  Proto(c, p2, te, po \o <<g>>, air, qu, u)
<1>0. PICK y \in Seq(Frames) : y = <<g>> BY AppendSet
<1>b. te \o (po \o y) = (te \o po) \o y BY FrameAssoc
<1>1. PICK B \in Seq(Frames) : B = te \o po BY BackSet
<1>2. PICK F \in Seq(Frames) : F = air \o qu BY BackSet
<1>4. ToSet(B \o y) = ToSet(B) \cup {g} /\ ToSet(y) = {g} BY <1>0, AppendSet, SetOne
<1>5. /\ Ends(c, p, B) /\ Known(c, p, B, F, u) /\ Joined(c, p, B, F)
      /\ Sides(c, p, te, air) /\ InOrder(B) /\ Opened(c, p, te, B)
  BY <1>1, <1>2 DEF Proto
<1>5a. Live(p) /\ Live(p2) BY DEF Live
<1>6. \A f \in ToSet(B) : f.epoch # p.epoch BY <1>5, <1>5a DEF Ends
<1>7. InOrder(B \o y)
  <2>1. InOrder(y) BY <1>0, OrderOne
  <2>2. Follows(B, y) BY <1>4, <1>6 DEF Follows, Of
  <2> QED BY <1>5, <2>1, <2>2, OrderConcat
<1>8. Ends(c, p2, B \o y)
  <2>1. \A f \in ToSet(B) : f.epoch # p2.epoch BY <1>6
  <2>2. g.type \notin Terminal BY DEF Of, Terminal
  <2>3. InSession(c) /\ p.epoch = c.epoch => c.state = "Opening" BY <1>5, <1>5a DEF Ends
  <2>4. InSession(c) /\ g.epoch = c.epoch => c.state # "PeerClosed" /\ c.state = "Opening"
    BY <2>3 DEF Of
  <2> QED BY <1>4, <1>5, <2>1, <2>2, <2>3, <2>4 DEF Ends
<1>9. Opened(c, p2, te, B \o y) BY <1>4, <1>5 DEF Opened, HasOpened
<1>10. Known(c, p2, B \o y, F, u) BY <1>4, <1>5, <1>5a DEF Known, Of
<1>11. Joined(c, p2, B \o y, F)
  <2> SUFFICES ASSUME Met(c, p2)
               PROVE  /\ Chain(c.oldest, c.count, B \o y, p.rx, F, p.expected, c.epoch)
                      /\ Chain(p.oldest, p.count, F, c.rx, B \o y, c.expected, c.epoch)
    BY DEF Joined
  <2>1. Met(c, p) BY <1>5a DEF Met
  <2>2. FramesOf(y, "ACK", c.epoch) = 0 /\ FramesOf(y, "DATA", c.epoch) = 0
    BY <1>0, One DEF Of
  <2>3. Alike(B, B \o y, "ACK", c.epoch) /\ Alike(B, B \o y, "DATA", c.epoch)
    BY <2>2, AlikeEnds
  <2>4. Alike(F, F, "ACK", c.epoch) /\ Alike(F, F, "DATA", c.epoch) BY DEF Alike
  <2> QED BY <1>5, <2>1, <2>3, <2>4, EspFields, PhFields, ChainAlike DEF Joined
<1>12. Sides(c, p2, te, air) BY <1>5, <1>5a DEF Sides
<1> QED BY <1>0, <1>b, <1>1, <1>2, <1>7, <1>8, <1>9, <1>10, <1>11, <1>12 DEF Proto

\* pump(): the next write goes out.
LEMMA GattSends ==
  ASSUME NEW c \in EspChannels, NEW p \in PhChannels,
         NEW te \in Seq(Frames), NEW po \in Seq(Frames),
         NEW air \in Seq(Frames), NEW qu \in Seq(Frames), NEW u, NEW g \in Frames,
         NEW y \in Seq(Frames), Len(y) = 1, y[1] = g,
         g.type \in Terminal \/ (Live(p) /\ g.epoch = p.epoch),
         Proto(c, p, te, y \o po, air, qu, u)
  PROVE  Proto(c, p, te \o y, po, air, qu, u)
<1>a. (te \o y) \o po = te \o (y \o po) BY FrameAssoc
<1>0. y = <<g>> OBVIOUS
<1>1. PICK w \in Seq(Frames) : w = te \o y BY BackSet
<1>2. PICK B \in Seq(Frames) : B = w \o po BY BackSet
<1>3. PICK F \in Seq(Frames) : F = air \o qu BY BackSet
<1>4. ToSet(w) = ToSet(te) \cup {g} /\ ToSet(B) = ToSet(w) \cup ToSet(po)
  <2>1. ToSet(w) = ToSet(te) \cup {g} BY <1>0, <1>1, AppendSet
  <2> QED BY <1>2, <2>1, SetConcat
<1>5. /\ Ends(c, p, B) /\ Known(c, p, B, F, u) /\ Joined(c, p, B, F)
      /\ Sides(c, p, te, air) /\ InOrder(B) /\ Opened(c, p, te, B)
  BY <1>a, <1>1, <1>2, <1>3 DEF Proto
<1>6. ASSUME Streaming(c), g.epoch = c.epoch, g.type \notin Terminal
      PROVE  /\ Met(c, p)
             /\ Chain(c.oldest, c.count, B, p.rx, F, p.expected, c.epoch)
             /\ Chain(p.oldest, p.count, F, c.rx, B, c.expected, c.epoch)
  <2>1. Met(c, p) BY <1>6 DEF Met
  <2> QED BY <1>5, <2>1 DEF Joined
<1>7. Opened(c, p, w, B)
  <2> SUFFICES ASSUME c.state = "Opening" PROVE OpenedFirst(w, c.epoch)
    BY <1>5 DEF Opened
  <2>1. OpenedFirst(te, c.epoch) BY <1>5 DEF Opened
  <2>2. ASSUME Of(g, "DATA", c.epoch) PROVE HasOpened(te, c.epoch)
    <3>1. Live(p) /\ p.epoch = c.epoch BY <2>2 DEF Of, Terminal
    <3>2. p.st = "ready" BY <1>4, <1>5, <2>2, <3>1 DEF Ends, Of
    <3>3. PICK h \in ToSet(B) : Of(h, "OPENED", c.epoch)
      BY <1>5, <3>1, <3>2 DEF Opened, HasOpened
    <3>4. Follows(w, po) BY <1>2, <1>5, OrderConcat
    <3>5. h \notin ToSet(po) BY <1>4, <2>2, <3>3, <3>4 DEF Follows, Of
    <3>6. h # g BY <2>2, <3>3 DEF Of
    <3> QED BY <1>4, <3>3, <3>5, <3>6 DEF HasOpened
  <2>3. OpenedFirst(te \o <<g>>, c.epoch) BY <2>1, <2>2, FirstAppend
  <2> QED BY <1>0, <1>1, <2>3
<1>8. Sides(c, p, w, air)
  <2> SUFFICES ASSUME Streaming(c)
               PROVE  Side(w, c.oldest, c.count, c.expected, Len(c.rx), c.epoch)
    BY <1>5 DEF Sides
  <2>1. CASE ~Of(g, "ACK", c.epoch) /\ ~Of(g, "DATA", c.epoch)
    <3>1. FramesOf(y, "ACK", c.epoch) = 0 /\ FramesOf(y, "DATA", c.epoch) = 0
      BY <1>0, <2>1, One
    <3>2. Alike(te, w, "ACK", c.epoch) /\ Alike(te, w, "DATA", c.epoch)
      BY <1>1, <3>1, AlikeEnds
    <3>3. Side(te, c.oldest, c.count, c.expected, Len(c.rx), c.epoch) BY <1>5 DEF Sides
    <3> QED BY <3>2, <3>3, EspFields, SideAlike
  <2>2. CASE Of(g, "ACK", c.epoch) \/ Of(g, "DATA", c.epoch)
    <3>1. g.epoch = c.epoch /\ g.type \notin Terminal BY <2>2 DEF Of, Terminal
    <3>2. /\ Chain(c.oldest, c.count, w \o po, p.rx, F, p.expected, c.epoch)
          /\ Chain(p.oldest, p.count, F, c.rx, w \o po, c.expected, c.epoch)
      BY <1>2, <1>6, <3>1
    <3> QED BY <3>2, EspFields, PhFields, ChainSide
  <2> QED BY <2>1, <2>2
<1> QED BY <1>1, <1>2, <1>3, <1>5, <1>7, <1>8 DEF Proto

\* pump(): a write that no channel wants any more.
LEMMA GattDrops ==
  ASSUME NEW c \in EspChannels, NEW p \in PhChannels,
         NEW te \in Seq(Frames), NEW po \in Seq(Frames),
         NEW air \in Seq(Frames), NEW qu \in Seq(Frames), NEW u, NEW g \in Frames,
         NEW y \in Seq(Frames), Len(y) = 1, y[1] = g,
         ~Live(p) \/ g.epoch # p.epoch,
         Proto(c, p, te, y \o po, air, qu, u)
  PROVE  Proto(c, p, te, po, air, qu, u)
<1>a. (te \o y) \o po = te \o (y \o po) BY FrameAssoc
<1>0. y = <<g>> OBVIOUS
<1>1. PICK w \in Seq(Frames) : w = te \o y BY BackSet
<1>2. PICK B \in Seq(Frames) : B = w \o po BY BackSet
<1>2a. PICK A \in Seq(Frames) : A = te \o po BY BackSet
<1>3. PICK F \in Seq(Frames) : F = air \o qu BY BackSet
<1>4. ToSet(B) = ToSet(A) \cup {g}
  <2>1. ToSet(w) = ToSet(te) \cup {g} BY <1>0, <1>1, AppendSet
  <2>2. ToSet(B) = ToSet(w) \cup ToSet(po) BY <1>2, SetConcat
  <2> QED BY <1>2a, <2>1, <2>2, SetConcat
<1>5. /\ Ends(c, p, B) /\ Known(c, p, B, F, u) /\ Joined(c, p, B, F)
      /\ Sides(c, p, te, air) /\ InOrder(B) /\ Opened(c, p, te, B)
  BY <1>a, <1>1, <1>2, <1>3 DEF Proto
<1>6. InOrder(A) BY <1>1, <1>2, <1>2a, <1>5, OrderDrop
<1>7. Ends(c, p, A) BY <1>4, <1>5 DEF Ends
<1>8. Opened(c, p, te, A) BY <1>4, <1>5 DEF Opened, HasOpened, Of, Live
<1>9. Known(c, p, A, F, u) BY <1>4, <1>5 DEF Known
<1>10. Joined(c, p, A, F)
  <2> SUFFICES ASSUME Met(c, p)
               PROVE  /\ Chain(c.oldest, c.count, A, p.rx, F, p.expected, c.epoch)
                      /\ Chain(p.oldest, p.count, F, c.rx, A, c.expected, c.epoch)
    BY DEF Joined
  <2>1. g.epoch # c.epoch BY DEF Met
  <2>2. FramesOf(y, "ACK", c.epoch) = 0 /\ FramesOf(y, "DATA", c.epoch) = 0
    BY <1>0, <2>1, One DEF Of
  <2>3. Alike(B, A, "ACK", c.epoch) /\ Alike(B, A, "DATA", c.epoch)
    BY <1>1, <1>2, <1>2a, <2>2, AlikeDrop
  <2>4. Alike(F, F, "ACK", c.epoch) /\ Alike(F, F, "DATA", c.epoch) BY DEF Alike
  <2> QED BY <1>5, <2>3, <2>4, EspFields, PhFields, ChainAlike DEF Joined
<1> QED BY <1>2a, <1>3, <1>5, <1>6, <1>7, <1>8, <1>9, <1>10 DEF Proto

\* readLoop: what was read goes out with the next number.
LEMMA PhoneSends ==
  ASSUME NEW c \in EspChannels, NEW p \in PhChannels, NEW p2 \in PhChannels,
         NEW te \in Seq(Frames), NEW po \in Seq(Frames),
         NEW air \in Seq(Frames), NEW qu \in Seq(Frames), NEW u, NEW g \in Frames,
         p.st = "ready", p2.st = "ready", p2.epoch = p.epoch, p2.count = p.count + 1,
         p2.oldest = p.oldest, p2.expected = p.expected, p2.rx = p.rx,
         Of(g, "DATA", p.epoch), g.seq = (p.oldest + p.count) % SeqNos,
         Proto(c, p, te, po, air, qu, u)
  PROVE  Proto(c, p2, te, po \o <<g>>, air, qu, u)
<1>0. PICK y \in Seq(Frames) : y = <<g>> BY AppendSet
<1>b. te \o (po \o y) = (te \o po) \o y BY FrameAssoc
<1>1. PICK B \in Seq(Frames) : B = te \o po BY BackSet
<1>2. PICK F \in Seq(Frames) : F = air \o qu BY BackSet
<1>4. ToSet(B \o y) = ToSet(B) \cup {g} /\ ToSet(y) = {g} BY <1>0, AppendSet, SetOne
<1>5. /\ Ends(c, p, B) /\ Known(c, p, B, F, u) /\ Joined(c, p, B, F)
      /\ Sides(c, p, te, air) /\ InOrder(B) /\ Opened(c, p, te, B)
  BY <1>1, <1>2 DEF Proto
<1>6. Live(p) /\ Live(p2) BY DEF Live
<1>7. InOrder(B \o y)
  <2>1. InOrder(y) BY <1>0, OrderOne
  <2>2. Follows(B, y) BY <1>4, <1>5, <1>6 DEF Ends, Follows, Of
  <2> QED BY <1>5, <2>1, <2>2, OrderConcat
<1>8. Ends(c, p2, B \o y)
  <2>1. g.type \notin Terminal /\ g.type # "OPENED" BY DEF Of, Terminal
  <2>2. InSession(c) /\ g.epoch = c.epoch => c.state # "PeerClosed"
    BY <1>5, <1>6 DEF Ends, Of
  <2>3. \A f \in ToSet(B \o y) :
          Live(p2) /\ f.epoch = p2.epoch => f.type \notin Terminal /\ p2.st = "ready"
    BY <1>4, <1>5, <1>6, <2>1 DEF Ends
  <2>4. InSession(c) /\ Live(p2) /\ p2.epoch = c.epoch =>
          c.state # "PeerClosed" /\ (p2.st = "connecting" => c.state = "Opening")
    BY <1>5, <1>6 DEF Ends
  <2>5. \A f \in ToSet(B \o y) : InSession(c) /\ f.epoch = c.epoch =>
          c.state # "PeerClosed" /\ (f.type = "OPENED" => c.state = "Opening")
    BY <1>4, <1>5, <2>1, <2>2 DEF Ends
  <2> QED BY <2>3, <2>4, <2>5 DEF Ends
<1>9. Opened(c, p2, te, B \o y) BY <1>4, <1>5 DEF Opened, HasOpened
<1>10. Known(c, p2, B \o y, F, u) BY <1>4, <1>5, <1>6 DEF Known, Of
<1>11. Joined(c, p2, B \o y, F)
  <2> SUFFICES ASSUME Met(c, p2)
               PROVE  /\ Chain(c.oldest, c.count, B \o y, p.rx, F, p.expected, c.epoch)
                      /\ Chain(p.oldest, p.count + 1, F, c.rx, B \o y, c.expected, c.epoch)
    BY DEF Joined
  <2>1. Met(c, p) /\ p.epoch = c.epoch BY <1>6 DEF Met
  <2>2. FramesOf(y, "ACK", c.epoch) = 0 BY <1>0, One DEF Of
  <2>3. Alike(B, B \o y, "ACK", c.epoch) BY <2>2, AlikeEnds
  <2>4. Alike(F, F, "DATA", c.epoch) BY DEF Alike
  <2>5. Chain(c.oldest, c.count, B \o y, p.rx, F, p.expected, c.epoch)
    BY <1>5, <2>1, <2>3, <2>4, EspFields, PhFields, ChainAlike DEF Joined
  <2>6. Len(y) = 1 /\ DOMAIN y = {1} /\ y[1] = g BY <1>0
  <2>7. \A i \in DOMAIN y : Of(y[i], "DATA", c.epoch)
                            /\ y[i].seq = (p.oldest + p.count + (i - 1)) % SeqNos
    <3>1. p.oldest + p.count + (1 - 1) = p.oldest + p.count BY PhFields DEF SeqNo
    <3> QED BY <2>1, <2>6, <3>1
  <2>8. Chain(p.oldest, p.count, F, c.rx, B, c.expected, c.epoch) BY <1>5, <2>1 DEF Joined
  <2>9. Chain(p.oldest, p.count + Len(y), F, c.rx, B \o y, c.expected, c.epoch)
    BY <2>7, <2>8, EspFields, PhFields, ChainSend
  <2> QED BY <2>5, <2>6, <2>9
<1>12. Sides(c, p2, te, air)
  <2>1. Side(air, p.oldest, p.count, p.expected, Len(p.rx), p.epoch) BY <1>5, <1>6 DEF Sides
  <2>2. p.count + 1 \in Nat /\ p.count <= p.count + 1 /\ Len(p.rx) <= Len(p.rx) BY PhFields
  <2>3. Side(air, p.oldest, p.count + 1, p.expected, Len(p.rx), p.epoch)
    BY <2>1, <2>2, PhFields, SideMore
  <2> QED BY <1>5, <2>3 DEF Sides
<1> QED BY <1>0, <1>b, <1>1, <1>2, <1>7, <1>8, <1>9, <1>10, <1>11, <1>12 DEF Proto

\* writeLoop: the frames of the batch are acknowledged.
LEMMA PhoneAcks ==
  ASSUME NEW c \in EspChannels, NEW p \in PhChannels, NEW p2 \in PhChannels,
         NEW te \in Seq(Frames), NEW po \in Seq(Frames),
         NEW air \in Seq(Frames), NEW qu \in Seq(Frames), NEW u, NEW y \in Seq(Frames),
         p.st = "ready", p2.st = "ready", p2.epoch = p.epoch, p2.count = p.count,
         p2.oldest = p.oldest, p2.expected = p.expected,
         Len(y) <= Len(p.rx), Len(p2.rx) = Len(p.rx) - Len(y),
         \A i \in 1..Len(p2.rx) : p2.rx[i] = p.rx[i + Len(y)],
         \A i \in DOMAIN y : Of(y[i], "ACK", p.epoch) /\ y[i].seq = p.rx[i].seq,
         Proto(c, p, te, po, air, qu, u)
  PROVE  Proto(c, p2, te, po \o y, air, qu, u)
<1>b. te \o (po \o y) = (te \o po) \o y BY FrameAssoc
<1>1. PICK B \in Seq(Frames) : B = te \o po BY BackSet
<1>2. PICK F \in Seq(Frames) : F = air \o qu BY BackSet
<1>3. \A g \in ToSet(y) : Of(g, "ACK", p.epoch) BY DEF ToSet
<1>4. ToSet(B \o y) = ToSet(B) \cup ToSet(y) BY SetConcat
<1>5. /\ Ends(c, p, B) /\ Known(c, p, B, F, u) /\ Joined(c, p, B, F)
      /\ Sides(c, p, te, air) /\ InOrder(B) /\ Opened(c, p, te, B)
  BY <1>1, <1>2 DEF Proto
<1>6. Live(p) /\ Live(p2) BY DEF Live
<1>7. InOrder(B \o y)
  <2>1. InOrder(y) BY DEF InOrder, Of, Terminal
  <2>2. Follows(B, y) BY <1>3, <1>5, <1>6 DEF Ends, Follows, Of
  <2> QED BY <1>5, <2>1, <2>2, OrderConcat
<1>8. Ends(c, p2, B \o y)
  <2>1. \A g \in ToSet(y) : g.type \notin Terminal /\ g.type # "OPENED" /\ g.epoch = p.epoch
    BY <1>3 DEF Of, Terminal
  <2>2. InSession(c) /\ p.epoch = c.epoch => c.state # "PeerClosed"
    BY <1>5, <1>6 DEF Ends
  <2>3. \A f \in ToSet(B \o y) :
          Live(p2) /\ f.epoch = p2.epoch => f.type \notin Terminal /\ p2.st = "ready"
    BY <1>4, <1>5, <1>6, <2>1 DEF Ends
  <2>4. InSession(c) /\ Live(p2) /\ p2.epoch = c.epoch =>
          c.state # "PeerClosed" /\ (p2.st = "connecting" => c.state = "Opening")
    BY <1>5, <1>6 DEF Ends
  <2>5. \A f \in ToSet(B \o y) : InSession(c) /\ f.epoch = c.epoch =>
          c.state # "PeerClosed" /\ (f.type = "OPENED" => c.state = "Opening")
    BY <1>4, <1>5, <2>1, <2>2 DEF Ends
  <2> QED BY <2>3, <2>4, <2>5 DEF Ends
<1>9. Opened(c, p2, te, B \o y) BY <1>4, <1>5 DEF Opened, HasOpened
<1>10. Known(c, p2, B \o y, F, u) BY <1>3, <1>4, <1>5, <1>6 DEF Known, Of
<1>11. Joined(c, p2, B \o y, F)
  <2> SUFFICES ASSUME Met(c, p2)
               PROVE  /\ Chain(c.oldest, c.count, B \o y, p2.rx, F, p.expected, c.epoch)
                      /\ Chain(p.oldest, p.count, F, c.rx, B \o y, c.expected, c.epoch)
    BY DEF Joined
  <2>1. Met(c, p) /\ p.epoch = c.epoch BY <1>6 DEF Met
  <2>2. \A i \in DOMAIN y : ~Of(y[i], "DATA", c.epoch) BY DEF Of
  <2>3. FramesOf(y, "DATA", c.epoch) = 0 BY <2>2, CountNone
  <2>4. Alike(B, B \o y, "DATA", c.epoch) BY <2>3, AlikeEnds
  <2>5. Alike(F, F, "ACK", c.epoch) BY DEF Alike
  <2>6. Chain(p.oldest, p.count, F, c.rx, B \o y, c.expected, c.epoch)
    BY <1>5, <2>1, <2>4, <2>5, EspFields, PhFields, ChainAlike DEF Joined
  <2>7. Chain(c.oldest, c.count, B, p.rx, F, p.expected, c.epoch) BY <1>5, <2>1 DEF Joined
  <2>8. Chain(c.oldest, c.count, B \o y, p2.rx, F, p.expected, c.epoch)
    <3>1. \A i \in DOMAIN y : Of(y[i], "ACK", c.epoch) /\ y[i].seq = p.rx[i].seq BY <2>1
    <3> QED BY <2>7, <3>1, EspFields, PhFields, ChainAckOut
  <2> QED BY <2>6, <2>8
<1>12. Sides(c, p2, te, air)
  <2>1. Side(air, p.oldest, p.count, p.expected, Len(p.rx), p.epoch) BY <1>5, <1>6 DEF Sides
  <2>2. p.count <= p.count /\ Len(p2.rx) <= Len(p.rx) /\ Len(p2.rx) \in Nat BY PhFields
  <2>3. Side(air, p.oldest, p.count, p.expected, Len(p2.rx), p.epoch)
    BY <2>1, <2>2, PhFields, SideMore
  <2> QED BY <1>5, <2>3 DEF Sides
<1> QED BY <1>b, <1>1, <1>2, <1>7, <1>8, <1>9, <1>10, <1>11, <1>12 DEF Proto

\* receive() of the phone: DATA is expected, has room and finds a socket.
LEMMA PhoneHearsData ==
  ASSUME NEW c \in EspChannels, NEW p \in PhChannels, NEW p2 \in PhChannels,
         NEW te \in Seq(Frames), NEW po \in Seq(Frames),
         NEW air \in Seq(Frames), NEW qu \in Seq(Frames), NEW u, NEW f \in Frames,
         NEW x \in Seq(Frames), Len(x) = 1, x[1] = f,
         Live(p), Of(f, "DATA", p.epoch),
         Proto(c, p, te, po, x \o air, qu, u)
  PROVE  /\ p.st = "ready" /\ f.seq = p.expected /\ Len(p.rx) < Window
         /\ (/\ p2.st = "ready" /\ p2.epoch = p.epoch /\ p2.oldest = p.oldest
             /\ p2.expected = NextSeq(p.expected) /\ p2.count = p.count
             /\ p2.rx = Append(p.rx, f))
              => Proto(c, p2, te, po, air, qu, u)
<1>a. (x \o air) \o qu = x \o (air \o qu) BY FrameAssoc
<1>0. x = <<f>> OBVIOUS
<1>1. PICK B \in Seq(Frames) : B = te \o po BY BackSet
<1>2. PICK F \in Seq(Frames) : F = air \o qu BY BackSet
<1>4. ToSet(x \o F) = {f} \cup ToSet(F) /\ ToSet(x \o air) = {f} \cup ToSet(air)
  BY <1>0, AppendSet
<1>5. /\ Ends(c, p, B) /\ Known(c, p, B, x \o F, u) /\ Joined(c, p, B, x \o F)
      /\ Sides(c, p, te, x \o air) /\ InOrder(B) /\ Opened(c, p, te, B)
  BY <1>a, <1>1, <1>2 DEF Proto
<1>6. p.st = "ready" BY <1>4, <1>5 DEF Sides, Live
<1>7. Side(x \o air, p.oldest, p.count, p.expected, Len(p.rx), p.epoch) BY <1>5 DEF Sides
<1>8. /\ f.seq = p.expected /\ Len(p.rx) < Window
      /\ Side(air, p.oldest, p.count, NextSeq(p.expected), Len(p.rx) + 1, p.epoch)
  BY <1>0, <1>7, PhFields, SideTake
<1>9. SUFFICES ASSUME /\ p2.st = "ready" /\ p2.epoch = p.epoch /\ p2.oldest = p.oldest
                      /\ p2.expected = NextSeq(p.expected) /\ p2.count = p.count
                      /\ p2.rx = Append(p.rx, f)
               PROVE  Proto(c, p2, te, po, air, qu, u)
  BY <1>6, <1>8
<1>10. Live(p2) BY <1>9 DEF Live
<1>11. Ends(c, p2, B) BY <1>5, <1>6, <1>9, <1>10 DEF Ends
<1>12. Opened(c, p2, te, B) BY <1>5, <1>6, <1>9 DEF Opened
<1>13. Known(c, p2, B, F, u) BY <1>4, <1>5, <1>9 DEF Known
<1>14. Joined(c, p2, B, F)
  <2> SUFFICES ASSUME Met(c, p2)
               PROVE  /\ Chain(c.oldest, c.count, B, p2.rx, F, NextSeq(p.expected), c.epoch)
                      /\ Chain(p.oldest, p.count, F, c.rx, B, c.expected, c.epoch)
    BY <1>9 DEF Joined
  <2>1. Met(c, p) /\ p.epoch = c.epoch BY <1>9 DEF Met
  <2>2. /\ Chain(c.oldest, c.count, B, p.rx, x \o F, p.expected, c.epoch)
        /\ Chain(p.oldest, p.count, x \o F, c.rx, B, c.expected, c.epoch)
    BY <1>5, <2>1 DEF Joined
  <2>3. FramesOf(x, "ACK", c.epoch) = 0 BY <1>0, One DEF Of
  <2>4. Alike(x \o F, F, "ACK", c.epoch) /\ Alike(B, B, "DATA", c.epoch)
    BY <2>3, AlikeEnds DEF Alike
  <2>5. Chain(p.oldest, p.count, F, c.rx, B, c.expected, c.epoch)
    BY <2>2, <2>4, EspFields, PhFields, ChainAlike
  <2>6. Chain(c.oldest, c.count, B, p.rx, <<f>> \o F, p.expected, c.epoch) BY <1>0, <2>2
  <2>7. Chain(c.oldest, c.count, B, Append(p.rx, f), F, NextSeq(p.expected), c.epoch)
    BY <2>1, <2>6, EspFields, PhFields, ChainTake
  <2> QED BY <1>9, <2>5, <2>7
<1>15. Sides(c, p2, te, air)
  <2>1. Len(p2.rx) = Len(p.rx) + 1 BY <1>9, PhFields
  <2> QED BY <1>5, <1>8, <1>9, <2>1 DEF Sides
<1> QED BY <1>1, <1>2, <1>5, <1>11, <1>12, <1>13, <1>14, <1>15 DEF Proto

\* receive() of the phone: ACK is for its oldest pending frame.
LEMMA PhoneHearsAck ==
  ASSUME NEW c \in EspChannels, NEW p \in PhChannels, NEW p2 \in PhChannels,
         NEW te \in Seq(Frames), NEW po \in Seq(Frames),
         NEW air \in Seq(Frames), NEW qu \in Seq(Frames), NEW u, NEW f \in Frames,
         NEW x \in Seq(Frames), Len(x) = 1, x[1] = f,
         Live(p), Of(f, "ACK", p.epoch), PhLocal(p),
         Proto(c, p, te, po, x \o air, qu, u)
  PROVE  /\ p.st = "ready" /\ f.seq = p.oldest /\ p.count > 0
         /\ (/\ p2.st = "ready" /\ p2.epoch = p.epoch /\ p2.oldest = NextSeq(p.oldest)
             /\ p2.expected = p.expected /\ p2.count = p.count - 1
             /\ p2.rx = p.rx)
              => Proto(c, p2, te, po, air, qu, u)
<1>a. (x \o air) \o qu = x \o (air \o qu) BY FrameAssoc
<1>0. x = <<f>> OBVIOUS
<1>1. PICK B \in Seq(Frames) : B = te \o po BY BackSet
<1>2. PICK F \in Seq(Frames) : F = air \o qu BY BackSet
<1>4. ToSet(x \o F) = {f} \cup ToSet(F) /\ ToSet(x \o air) = {f} \cup ToSet(air)
  BY <1>0, AppendSet
<1>5. /\ Ends(c, p, B) /\ Known(c, p, B, x \o F, u) /\ Joined(c, p, B, x \o F)
      /\ Sides(c, p, te, x \o air) /\ InOrder(B) /\ Opened(c, p, te, B)
  BY <1>a, <1>1, <1>2 DEF Proto
<1>7. Side(x \o air, p.oldest, p.count, p.expected, Len(p.rx), p.epoch) BY <1>5 DEF Sides
<1>8. /\ f.seq = p.oldest /\ p.count > 0
      /\ Side(air, NextSeq(p.oldest), p.count - 1, p.expected, Len(p.rx), p.epoch)
  BY <1>0, <1>7, PhFields, SideAck
<1>6. p.st = "ready" BY <1>8 DEF PhLocal, Live
<1>9. SUFFICES ASSUME /\ p2.st = "ready" /\ p2.epoch = p.epoch
                      /\ p2.oldest = NextSeq(p.oldest)
                      /\ p2.expected = p.expected /\ p2.count = p.count - 1
                      /\ p2.rx = p.rx
               PROVE  Proto(c, p2, te, po, air, qu, u)
  BY <1>6, <1>8
<1>10. Live(p2) BY <1>9 DEF Live
<1>11. Ends(c, p2, B) BY <1>5, <1>6, <1>9, <1>10 DEF Ends
<1>12. Opened(c, p2, te, B) BY <1>5, <1>6, <1>9 DEF Opened
<1>13. Known(c, p2, B, F, u) BY <1>4, <1>5, <1>9 DEF Known
<1>14. Joined(c, p2, B, F)
  <2> SUFFICES ASSUME Met(c, p2)
               PROVE  /\ Chain(c.oldest, c.count, B, p.rx, F, p.expected, c.epoch)
                      /\ Chain(NextSeq(p.oldest), p.count - 1, F, c.rx, B, c.expected, c.epoch)
    BY <1>9 DEF Joined
  <2>1. Met(c, p) /\ p.epoch = c.epoch BY <1>9 DEF Met
  <2>2. /\ Chain(c.oldest, c.count, B, p.rx, x \o F, p.expected, c.epoch)
        /\ Chain(p.oldest, p.count, x \o F, c.rx, B, c.expected, c.epoch)
    BY <1>5, <2>1 DEF Joined
  <2>3. FramesOf(x, "DATA", c.epoch) = 0 BY <1>0, One DEF Of
  <2>4. Alike(x \o F, F, "DATA", c.epoch) /\ Alike(B, B, "ACK", c.epoch)
    BY <2>3, AlikeEnds DEF Alike
  <2>5. Chain(c.oldest, c.count, B, p.rx, F, p.expected, c.epoch)
    BY <2>2, <2>4, EspFields, PhFields, ChainAlike
  <2>6. Chain(p.oldest, p.count, <<f>> \o F, c.rx, B, c.expected, c.epoch) BY <1>0, <2>2
  <2>7. Chain(NextSeq(p.oldest), p.count - 1, F, c.rx, B, c.expected, c.epoch)
    BY <2>1, <2>6, EspFields, PhFields, ChainAckIn
  <2> QED BY <2>5, <2>7
<1>15. Sides(c, p2, te, air) BY <1>5, <1>8, <1>9 DEF Sides
<1> QED BY <1>1, <1>2, <1>5, <1>11, <1>12, <1>13, <1>14, <1>15 DEF Proto

\* Only these fields of the two channels matter.
LEMMA ProtoSame ==
  ASSUME NEW c, NEW c2, NEW p, NEW p2, NEW te, NEW po, NEW air, NEW qu, NEW u,
         c2.state = c.state, c2.epoch = c.epoch, c2.oldest = c.oldest,
         c2.expected = c.expected, c2.count = c.count, c2.rx = c.rx,
         p2.st = p.st, p2.epoch = p.epoch, p2.oldest = p.oldest,
         p2.expected = p.expected, p2.count = p.count, p2.rx = p.rx,
         Proto(c, p, te, po, air, qu, u)
  PROVE  Proto(c2, p2, te, po, air, qu, u)
<1>1. PICK B : B = te \o po OBVIOUS
<1>2. PICK F : F = air \o qu OBVIOUS
<1>3. /\ Ends(c, p, B) /\ Known(c, p, B, F, u) /\ Joined(c, p, B, F)
      /\ Sides(c, p, te, air) /\ InOrder(B) /\ Opened(c, p, te, B)
  BY <1>1, <1>2 DEF Proto
<1>4. Ends(c2, p2, B) BY <1>3 DEF Ends, InSession, Live
<1>5. Known(c2, p2, B, F, u) BY <1>3 DEF Known, InSession, Live
<1>6. Joined(c2, p2, B, F) BY <1>3 DEF Joined, Met, Streaming, Live
<1>7. Sides(c2, p2, te, air) BY <1>3 DEF Sides, Streaming, Live
<1>8. Opened(c2, p2, te, B) BY <1>3 DEF Opened
<1> QED BY <1>1, <1>2, <1>3, <1>4, <1>5, <1>6, <1>7, <1>8 DEF Proto

\* A new link: nothing in any queue, no channel at the phone.
LEMMA ProtoFresh ==
  ASSUME NEW c, NEW p, NEW u, ~InSession(c), p.st = "none"
  PROVE  Proto(c, p, <<>>, <<>>, <<>>, <<>>, u)
<1>1. <<>> \o <<>> = <<>> /\ ToSet(<<>>) = {} BY SetOne
<1>2. InOrder(<<>>) BY DEF InOrder
<1>3. ~Streaming(c) /\ ~Live(p) BY DEF Streaming, Live, InSession
<1>4. Ends(c, p, <<>>) BY <1>1 DEF Ends
<1>5. Opened(c, p, <<>>, <<>>) BY DEF Opened, InSession
<1>6. Known(c, p, <<>>, <<>>, u) BY <1>1, <1>3 DEF Known
<1>7. Joined(c, p, <<>>, <<>>) BY <1>3 DEF Joined, Met
<1>8. Sides(c, p, <<>>, <<>>) BY <1>3 DEF Sides
<1> QED BY <1>1, <1>2, <1>4, <1>5, <1>6, <1>7, <1>8 DEF Proto

\* What the two chains add up to: CreditConserved.
LEMMA Credit ==
  ASSUME NEW c, NEW p, NEW B \in Seq(Frames), NEW F \in Seq(Frames),
         Met(c, p), Joined(c, p, B, F)
  PROVE  /\ c.count = FramesOf(B, "ACK", c.epoch) + Len(p.rx) + FramesOf(F, "DATA", c.epoch)
         /\ p.count = FramesOf(F, "ACK", c.epoch) + Len(c.rx) + FramesOf(B, "DATA", c.epoch)
BY DEF Joined, Chain

-----------------------------------------------------------------------------
(* Queues of entries, and epochs.                                          *)

\* An entry of the outgoing queue.
Items     == [frame : Frames, gen : Nat]
\* The states of the firmware.
EspStates == [up : BOOLEAN, q : Seq(Items), ch : EspChannels]

\* The frames of a queue whose entries carry more than the frame.
FramesIn(q) == [i \in DOMAIN q |-> q[i].frame]

\* The frames of a queue: one for each entry.
LEMMA FramesInSeq ==
  ASSUME NEW S, \A x \in S : x.frame \in Frames, NEW q \in Seq(S)
  PROVE  /\ FramesIn(q) \in Seq(Frames) /\ Len(FramesIn(q)) = Len(q)
         /\ \A i \in 1..Len(q) : FramesIn(q)[i] = q[i].frame
         /\ ToSet(FramesIn(q)) = {x.frame : x \in ToSet(q)}
<1>1. DOMAIN q = 1..Len(q) /\ Len(q) \in Nat /\ \A i \in 1..Len(q) : q[i] \in S OBVIOUS
<1>2. FramesIn(q) = [i \in 1..Len(q) |-> q[i].frame] BY <1>1 DEF FramesIn
<1>3. FramesIn(q) \in Seq(Frames) /\ Len(FramesIn(q)) = Len(q) BY <1>1, <1>2
<1>4. \A i \in 1..Len(q) : FramesIn(q)[i] = q[i].frame BY <1>2
<1>5. DOMAIN FramesIn(q) = 1..Len(q) BY <1>2
<1>6. ToSet(FramesIn(q)) = {x.frame : x \in ToSet(q)} BY <1>1, <1>4, <1>5 DEF ToSet
<1> QED BY <1>3, <1>4, <1>6

\* Two sequences of the same members are the same.
LEMMA SameSeq ==
  ASSUME NEW S, NEW s \in Seq(S), NEW t \in Seq(S), Len(s) = Len(t),
         \A i \in 1..Len(s) : s[i] = t[i]
  PROVE  s = t
OBVIOUS

\* The frames of a concatenation.
LEMMA FramesInConcat ==
  ASSUME NEW S, \A x \in S : x.frame \in Frames, NEW q \in Seq(S), NEW r \in Seq(S)
  PROVE  FramesIn(q \o r) = FramesIn(q) \o FramesIn(r)
<1>0. q \o r \in Seq(S) OBVIOUS
<1>1. PICK t \in Seq(S) : t = q \o r BY <1>0
<1>2. PICK a \in Seq(Frames) : a = FramesIn(q) BY FramesInSeq
<1>3. PICK b \in Seq(Frames) : b = FramesIn(r) BY FramesInSeq
<1>4. PICK y \in Seq(Frames) : y = FramesIn(t) BY FramesInSeq
<1>5. /\ Len(a) = Len(q) /\ Len(b) = Len(r) /\ Len(y) = Len(t)
      /\ \A i \in 1..Len(q) : a[i] = q[i].frame
      /\ \A i \in 1..Len(r) : b[i] = r[i].frame
      /\ \A i \in 1..Len(t) : y[i] = t[i].frame
  BY <1>2, <1>3, <1>4, FramesInSeq
<1>6. /\ Len(q) \in Nat /\ Len(r) \in Nat /\ Len(t) = Len(q) + Len(r)
      /\ \A i \in 1..Len(q) : t[i] = q[i]
      /\ \A i \in 1..Len(r) : t[Len(q) + i] = r[i]
  BY <1>1
<1>11. a \o b \in Seq(Frames) OBVIOUS
<1>7. PICK z \in Seq(Frames) : z = a \o b BY <1>11
<1>8. /\ Len(z) = Len(a) + Len(b)
      /\ \A i \in 1..Len(a) : z[i] = a[i]
      /\ \A i \in 1..Len(b) : z[Len(a) + i] = b[i]
  BY <1>7
<1>9. ASSUME NEW i \in 1..Len(y) PROVE y[i] = z[i]
  <2>1. CASE i <= Len(q)
    <3>1. i \in 1..Len(q) /\ i \in 1..Len(t) /\ i \in 1..Len(a) BY <2>1, <1>5, <1>6
    <3>2. y[i] = t[i].frame /\ t[i] = q[i] /\ z[i] = a[i] /\ a[i] = q[i].frame
      BY <3>1, <1>5, <1>6, <1>8
    <3> QED BY <3>2
  <2>2. CASE i > Len(q)
    <3>1. i - Len(q) \in 1..Len(r) /\ Len(q) + (i - Len(q)) = i BY <2>2, <1>5, <1>6
    <3>2. z[Len(q) + (i - Len(q))] = b[i - Len(q)] BY <3>1, <1>5, <1>8
    <3>3. t[Len(q) + (i - Len(q))] = r[i - Len(q)] BY <3>1, <1>6
    <3> QED BY <3>1, <3>2, <3>3, <1>5
  <2> QED BY <2>1, <2>2, <1>5, <1>6
<1>10. Len(y) = Len(z) BY <1>5, <1>6, <1>8
<1>12. y = z BY <1>9, <1>10, SameSeq
<1> QED BY <1>1, <1>2, <1>3, <1>4, <1>7, <1>12

\* The frame of one entry.
LEMMA FramesInOne ==
  ASSUME NEW S, \A x \in S : x.frame \in Frames, NEW x \in S
  PROVE  FramesIn(<<x>>) = <<x.frame>> /\ <<x>> \in Seq(S)
<1>1. <<x>> \in Seq(S) OBVIOUS
<1>2. PICK t \in Seq(S) : t = <<x>> BY <1>1
<1>3. Len(t) = 1 /\ t[1] = x BY <1>2
<1>4. PICK y \in Seq(Frames) : y = FramesIn(t) BY FramesInSeq
<1>5. Len(y) = 1 /\ y[1] = x.frame BY <1>3, <1>4, FramesInSeq
<1>6. y = <<x.frame>> BY <1>5
<1> QED BY <1>1, <1>2, <1>4, <1>6

\* The frames of a queue are that of its head and those of its tail.
LEMMA FramesInHead ==
  ASSUME NEW S, \A x \in S : x.frame \in Frames, NEW q \in Seq(S), q # <<>>
  PROVE  /\ Head(q) \in S /\ Tail(q) \in Seq(S)
         /\ Head(q) \in ToSet(q) /\ ToSet(Tail(q)) \subseteq ToSet(q)
         /\ FramesIn(q) = <<Head(q).frame>> \o FramesIn(Tail(q))
<1>1. Head(q) \in S /\ Tail(q) \in Seq(S) /\ q = <<Head(q)>> \o Tail(q) BY HeadTail
<1>2. PICK h \in S : h = Head(q) BY <1>1
<1>3. PICK t \in Seq(S) : t = Tail(q) BY <1>1
<1>4. <<h>> \in Seq(S) BY FramesInOne
<1>5. PICK o \in Seq(S) : o = <<h>> BY <1>4
<1>6. q = o \o t BY <1>1, <1>2, <1>3, <1>5
<1>7. FramesIn(q) = FramesIn(o) \o FramesIn(t) BY <1>6, FramesInConcat
<1>8. FramesIn(o) = <<h.frame>> BY <1>5, FramesInOne
<1>9. ToSet(q) = ToSet(o) \cup ToSet(t) BY <1>6, SetConcat
<1>10. ToSet(o) = {h} BY <1>5, SetOne
<1> QED BY <1>1, <1>2, <1>3, <1>7, <1>8, <1>9, <1>10

\* The epoch of a session of this link: d is fixed by the epoch the recorder had
\* when the link came up.
EpochOf(d, s) == (d + s) % EpochNos
\* The epochs of the sessions so far.
Past(d, n)    == {EpochOf(d, s) : s \in 1..n}

\* The division theorem for epochs.
LEMMA Turn ==
  ASSUME NEW a \in Int
  PROVE  /\ a % EpochNos \in 0..(EpochNos - 1) /\ a \div EpochNos \in Int
         /\ a = EpochNos * (a \div EpochNos) + (a % EpochNos)
BY RelayAssumption

\* A remainder is known by the division it is the rest of.
LEMMA TurnIs ==
  ASSUME NEW a \in Int, NEW r \in 0..(EpochNos - 1), NEW q \in Int, a = EpochNos * q + r
  PROVE  a % EpochNos = r
BY RelayAssumption

\* Channel::start adds one to the epoch.
LEMMA EpochNext ==
  ASSUME NEW d \in Nat, NEW s \in Nat
  PROVE  (EpochOf(d, s) + 1) % EpochNos = EpochOf(d, s + 1)
<1>1. PICK a \in Int : a = d + s OBVIOUS
<1>2. PICK q \in Int : q = a \div EpochNos BY Turn
<1>3. PICK r \in 0..(EpochNos - 1) : r = a % EpochNos BY Turn
<1>4. a = EpochNos * q + r BY <1>2, <1>3, Turn
<1>5. CASE r + 1 \in 0..(EpochNos - 1)
  <2>1. PICK t \in 0..(EpochNos - 1) : t = r + 1 BY <1>5
  <2>2. a + 1 = EpochNos * q + t BY <1>4, <2>1, RelayAssumption
  <2>3. (a + 1) % EpochNos = t BY <2>2, TurnIs
  <2>4. t % EpochNos = t
    <3>1. t = EpochNos * 0 + t BY RelayAssumption
    <3> QED BY <3>1, TurnIs
  <2> QED BY <1>1, <1>3, <2>1, <2>3, <2>4 DEF EpochOf
<1>6. CASE r + 1 = EpochNos
  <2>1. PICK p \in Int : p = q + 1 OBVIOUS
  <2>2. a + 1 = EpochNos * p + 0 BY <1>4, <1>6, <2>1, RelayAssumption
  <2>0. 0 \in 0..(EpochNos - 1) /\ a + 1 \in Int BY RelayAssumption
  <2>3. (a + 1) % EpochNos = 0 BY <2>0, <2>2, TurnIs
  <2>4. (r + 1) % EpochNos = 0
    <3>1. r + 1 = EpochNos * 1 + 0 BY <1>6, RelayAssumption
    <3> QED BY <3>1, TurnIs, RelayAssumption
  <2> QED BY <1>1, <1>3, <2>3, <2>4 DEF EpochOf
<1> QED BY <1>5, <1>6, RelayAssumption

\* Two sessions that are less than a turn of the counter apart have two epochs.
LEMMA EpochApart ==
  ASSUME NEW d \in Nat, NEW s \in Nat, NEW t \in Nat, s # t,
         s - t < EpochNos, t - s < EpochNos
  PROVE  EpochOf(d, s) # EpochOf(d, t)
<1> SUFFICES ASSUME EpochOf(d, s) = EpochOf(d, t) PROVE FALSE OBVIOUS
<1>1. PICK r \in 0..(EpochNos - 1) : r = EpochOf(d, s) BY Turn DEF EpochOf
<1>2. PICK q \in Int : d + s = EpochNos * q + r BY <1>1, Turn DEF EpochOf
<1>3. PICK p \in Int : d + t = EpochNos * p + r BY <1>1, Turn DEF EpochOf
<1>4. PICK k \in Int : k = q - p OBVIOUS
<1>5. s - t = EpochNos * k BY <1>2, <1>3, <1>4, RelayAssumption
<1>6. CASE k >= 1
  <2>1. EpochNos * k >= EpochNos BY <1>6, RelayAssumption
  <2> QED BY <2>1, <1>5, RelayAssumption
<1>7. CASE k <= -1
  <2>1. EpochNos * k <= -EpochNos BY <1>7, RelayAssumption
  <2> QED BY <2>1, <1>5, RelayAssumption
<1>8. CASE k = 0 BY <1>8, <1>5, RelayAssumption
<1> QED BY <1>6, <1>7, <1>8

\* Whatever epoch a link starts with, some d is behind it.
LEMMA EpochStart ==
  ASSUME NEW e \in 0..(EpochNos - 1), NEW s \in Nat
  PROVE  \E d \in 0..(EpochNos - 1) : EpochOf(d, s) = e
<1>1. PICK a \in Int : a = e - s OBVIOUS
<1>2. PICK q \in Int : q = a \div EpochNos BY Turn
<1>3. PICK d \in 0..(EpochNos - 1) : d = a % EpochNos BY Turn
<1>4. a = EpochNos * q + d BY <1>2, <1>3, Turn
<1>5. PICK p \in Int : p = -q OBVIOUS
<1>6. d + s = EpochNos * p + e BY <1>1, <1>4, <1>5, RelayAssumption
<1>7. d + s \in Int BY RelayAssumption
<1>8. EpochOf(d, s) = e BY <1>6, <1>7, TurnIs DEF EpochOf
<1> QED BY <1>8

\* The sessions so far stay so.
LEMMA PastGrows ==
  ASSUME NEW d, NEW n \in Nat
  PROVE  /\ Past(d, n) \subseteq Past(d, n + 1)
         /\ \A s \in 1..n : EpochOf(d, s) \in Past(d, n)
BY DEF Past

\* A new session has an epoch that no other session of this behaviour has.
LEMMA EpochNew ==
  ASSUME NEW d \in Nat, NEW n \in Nat, n < MaxOpens
  PROVE  EpochOf(d, n + 1) \notin Past(d, n)
<1> SUFFICES ASSUME NEW s \in 1..n, EpochOf(d, n + 1) = EpochOf(d, s) PROVE FALSE
  BY DEF Past
<1>1. /\ s \in Nat /\ n + 1 \in Nat /\ n + 1 # s
      /\ (n + 1) - s < EpochNos /\ s - (n + 1) < EpochNos
  BY RelayAssumption, EpochsAssumption
<1> QED BY <1>1, EpochApart

-----------------------------------------------------------------------------
(* The lock sections of the recorder.                                      *)

\* An entry of the queue: no newer than the channel, and of its session if it
\* has its generation.
Entry(x, c) ==
  /\ x.gen <= c.gen
  /\ x.gen = c.gen =>
       x.frame.epoch = c.epoch /\ (~InSession(c) => x.frame.type \in Terminal)

\* The firmware: a link that is down has an empty queue and no session, and each
\* entry of the queue that is of the present session has its generation.
EspOk(e, n) ==
  /\ e \in EspStates /\ EspLocal(e.ch)
  /\ ~e.up => e.q = <<>> /\ ~InSession(e.ch)
  /\ e.ch.state # "Idle" => n >= 1
  /\ \A x \in ToSet(e.q) :
       /\ Entry(x, e.ch)
       /\ (InSession(e.ch) /\ x.frame.epoch = e.ch.epoch) => x.gen = e.ch.gen

\* An entry that a lock section puts in the queue.
Added(e, x) ==
  /\ sess >= 1 /\ x.frame.epoch = e.ch.epoch /\ x.frame.type # "OPEN"
  /\ x.frame.type \in {"DATA", "ACK"} => x.frame.epoch \in used

\* What the helpers that run under StateLock make of the firmware, from e.
Derived(e, e1) ==
  /\ e1 \in EspStates
  /\ e1.up => e.up /\ e1.ch.epoch = e.ch.epoch
  /\ ~e1.up => e1.q = <<>> /\ ~InSession(e1.ch)
  /\ ~InSession(e1.ch) => e1.ch.count = 0 /\ e1.ch.rx = <<>>
  /\ e1.ch.state # "Idle" => sess >= 1
  /\ \A x \in ToSet(e1.q) : Entry(x, e1.ch) /\ (x \in ToSet(e.q) \/ Added(e, x))

\* The fields of the firmware.
LEMMA EspTypes ==
  ASSUME NEW e \in EspStates
  PROVE  /\ e.up \in BOOLEAN /\ e.q \in Seq(Items) /\ e.ch \in EspChannels
         /\ \A x \in ToSet(e.q) : x \in Items
<1>1. e.up \in BOOLEAN /\ e.q \in Seq(Items) /\ e.ch \in EspChannels BY DEF EspStates
<1>2. PICK q \in Seq(Items) : q = e.q BY <1>1
<1>3. DOMAIN q = 1..Len(q) /\ \A i \in 1..Len(q) : q[i] \in Items OBVIOUS
<1>4. \A x \in ToSet(q) : x \in Items BY <1>3 DEF ToSet
<1> QED BY <1>1, <1>2, <1>4

\* The fields of the entries of the two queues.
LEMMA ItemTypes ==
  /\ \A x \in Items : x.frame \in Frames /\ x.gen \in Nat
  /\ \A f \in Frames, g \in Nat : [frame |-> f, gen |-> g] \in Items
  /\ \A o \in GattOps : o.frame \in Frames /\ o.sess \in 0..MaxOpens /\ o.terminal \in BOOLEAN
BY DEF Items, GattOps

\* Channel::abort: what it leaves.
LEMMA AbortTypes ==
  ASSUME NEW c \in EspChannels
  PROVE  /\ Abort(c) \in EspChannels /\ Abort(c).state = "Aborted" /\ Abort(c).epoch = c.epoch
         /\ Abort(c).gen = c.gen + 1 /\ Abort(c).count = 0 /\ Abort(c).rx = <<>>
         /\ Release(c) \in EspChannels /\ Release(c).state = "Idle" /\ Release(c).epoch = c.epoch
         /\ Release(c).gen = c.gen + 1 /\ Release(c).count = 0 /\ Release(c).rx = <<>>
<1>0. /\ c.gen + 1 \in Nat /\ 0 \in 0..Window /\ <<>> \in Seq(Slots)
  BY RelayAssumption DEF EspChannels
<1>5. PICK g \in Nat : g = c.gen + 1 BY <1>0
<1>6. PICK b : b = [c EXCEPT !.state = "Aborted", !.gen = g, !.count = 0, !.rx = <<>>] OBVIOUS
<1>7. b = Abort(c) BY <1>5, <1>6 DEF Abort
<1>8. /\ b \in EspChannels /\ b.state = "Aborted" /\ b.epoch = c.epoch
      /\ b.gen = g /\ b.count = 0 /\ b.rx = <<>>
  BY <1>0, <1>6 DEF EspChannels
<1>1. /\ Abort(c) \in EspChannels /\ Abort(c).state = "Aborted" /\ Abort(c).epoch = c.epoch
      /\ Abort(c).gen = c.gen + 1 /\ Abort(c).count = 0 /\ Abort(c).rx = <<>>
  BY <1>5, <1>7, <1>8
<1>2. PICK a \in EspChannels : a = Abort(c) BY <1>1
<1>3. Release(c) = [a EXCEPT !.state = "Idle"] BY <1>2 DEF Release
<1>4. /\ Release(c) \in EspChannels /\ Release(c).state = "Idle" /\ Release(c).epoch = a.epoch
      /\ Release(c).gen = a.gen /\ Release(c).count = a.count /\ Release(c).rx = a.rx
  BY <1>3 DEF EspChannels
<1> QED BY <1>1, <1>2, <1>4

\* A channel out of session is Idle or Aborted.
LEMMA NotInSession ==
  ASSUME NEW c \in EspChannels, c.state \in {"Idle", "Aborted"}, c.count = 0, c.rx = <<>>
  PROVE  ~InSession(c) /\ EspLocal(c)
BY RelayAssumption DEF InSession, EspLocal

\* The entries keep their token when the channel moves to a new generation.
LEMMA EntriesOf ==
  ASSUME NEW t \in Seq(Frames), NEW g \in Nat,
         NEW y, y = [i \in DOMAIN t |-> [frame |-> t[i], gen |-> g]]
  PROVE  /\ y \in Seq(Items) /\ FramesIn(y) = t /\ Len(y) = Len(t)
         /\ \A x \in ToSet(y) : x.gen = g /\ x.frame \in ToSet(t)
<1>1. DOMAIN t = 1..Len(t) /\ Len(t) \in Nat /\ \A i \in 1..Len(t) : t[i] \in Frames OBVIOUS
<1>2. y = [i \in 1..Len(t) |-> [frame |-> t[i], gen |-> g]] BY <1>1
<1>3. \A i \in 1..Len(t) : [frame |-> t[i], gen |-> g] \in Items BY <1>1, ItemTypes
<1>4. y \in Seq(Items) /\ Len(y) = Len(t) BY <1>1, <1>2, <1>3
<1>5. PICK a \in Seq(Frames) : a = FramesIn(y) BY <1>4, FramesInSeq, ItemTypes
<1>6. Len(a) = Len(y) /\ \A i \in 1..Len(y) : a[i] = y[i].frame
  BY <1>4, <1>5, FramesInSeq, ItemTypes
<1>7. \A i \in 1..Len(t) : y[i].frame = t[i] /\ y[i].gen = g BY <1>2
<1>8. a = t BY <1>4, <1>6, <1>7, SameSeq
<1>9. \A x \in ToSet(y) : x.gen = g /\ x.frame \in ToSet(t) BY <1>1, <1>2, <1>7 DEF ToSet
<1> QED BY <1>4, <1>5, <1>8, <1>9

\* Nothing has been done yet.
LEMMA DerivedSelf ==
  ASSUME NEW e, EspOk(e, sess) PROVE Derived(e, e)
BY DEF EspOk, Derived, EspLocal

\* Any change that leaves the session and takes a new generation.
LEMMA DerivedLeave ==
  ASSUME NEW e, NEW e1, Derived(e, e1), NEW c \in EspChannels, c.gen = e1.ch.gen + 1,
         c.epoch = e1.ch.epoch, c.state \in {"Idle", "Aborted"}, c.count = 0, c.rx = <<>>,
         c.state = "Aborted" => sess >= 1
  PROVE  /\ Derived(e, [e1 EXCEPT !.ch = c])
         /\ ~InSession([e1 EXCEPT !.ch = c].ch)
         /\ [e1 EXCEPT !.ch = c].ch = c
<1>1. e1 \in EspStates BY DEF Derived
<1>2. PICK e2 : e2 = [e1 EXCEPT !.ch = c] OBVIOUS
<1>3. e2 \in EspStates /\ e2.up = e1.up /\ e2.q = e1.q /\ e2.ch = c
  BY <1>1, <1>2 DEF EspStates
<1>4. ~InSession(c) BY DEF InSession
<1>5. ASSUME NEW x \in ToSet(e2.q) PROVE Entry(x, c) /\ (x \in ToSet(e.q) \/ Added(e, x))
  <2>1. Entry(x, e1.ch) /\ (x \in ToSet(e.q) \/ Added(e, x)) BY <1>3, <1>5 DEF Derived
  <2>2. x \in Items /\ e1.ch \in EspChannels BY <1>1, <1>3, <1>5, EspTypes
  <2>3. x.gen \in Nat /\ e1.ch.gen \in Nat BY <2>2, ItemTypes DEF EspChannels
  <2> QED BY <2>1, <2>3 DEF Entry
<1> QED BY <1>2, <1>3, <1>4, <1>5 DEF Derived

\* Channel::abort among the steps of a lock section.
LEMMA DerivedAbort ==
  ASSUME NEW e, NEW e1, Derived(e, e1), sess >= 1
  PROVE  /\ Derived(e, [e1 EXCEPT !.ch = Abort(@)])
         /\ ~InSession([e1 EXCEPT !.ch = Abort(@)].ch)
         /\ [e1 EXCEPT !.ch = Abort(@)].ch = Abort(e1.ch)
<1>1. e1.ch \in EspChannels BY EspTypes DEF Derived
<1>2. PICK c \in EspChannels : c = Abort(e1.ch) BY <1>1, AbortTypes
<1>3. /\ c.gen = e1.ch.gen + 1 /\ c.epoch = e1.ch.epoch /\ c.state \in {"Idle", "Aborted"}
      /\ c.count = 0 /\ c.rx = <<>>
  BY <1>1, <1>2, AbortTypes
<1>4. [e1 EXCEPT !.ch = Abort(@)] = [e1 EXCEPT !.ch = c] BY <1>2
<1>5. /\ Derived(e, [e1 EXCEPT !.ch = c]) /\ ~InSession([e1 EXCEPT !.ch = c].ch)
      /\ [e1 EXCEPT !.ch = c].ch = c
  BY <1>3, DerivedLeave
<1> QED BY <1>2, <1>4, <1>5

\* Channel::release among the steps of a lock section.
LEMMA DerivedRelease ==
  ASSUME NEW e, NEW e1, Derived(e, e1)
  PROVE  /\ Derived(e, [e1 EXCEPT !.ch = Release(@)])
         /\ ~InSession([e1 EXCEPT !.ch = Release(@)].ch)
         /\ [e1 EXCEPT !.ch = Release(@)].ch = Release(e1.ch)
<1>1. e1.ch \in EspChannels BY EspTypes DEF Derived
<1>2. PICK c \in EspChannels : c = Release(e1.ch) BY <1>1, AbortTypes
<1>3. /\ c.gen = e1.ch.gen + 1 /\ c.epoch = e1.ch.epoch /\ c.state = "Idle"
      /\ c.count = 0 /\ c.rx = <<>>
  BY <1>1, <1>2, AbortTypes
<1>4. [e1 EXCEPT !.ch = Release(@)] = [e1 EXCEPT !.ch = c] BY <1>2
<1>5. /\ Derived(e, [e1 EXCEPT !.ch = c]) /\ ~InSession([e1 EXCEPT !.ch = c].ch)
      /\ [e1 EXCEPT !.ch = c].ch = c
  BY <1>3, DerivedLeave
<1> QED BY <1>2, <1>4, <1>5

\* The link fails: what is left of the state was legal before.
LEMMA FailLinkTypes ==
  ASSUME NEW e1 \in EspStates,
         e1.ch.state = "Idle" => e1.ch.count = 0 /\ e1.ch.rx = <<>>
  PROVE  /\ FailLink(e1) \in EspStates /\ ~FailLink(e1).up /\ FailLink(e1).q = <<>>
         /\ ~InSession(FailLink(e1).ch) /\ EspLocal(FailLink(e1).ch)
         /\ FailLink(e1).ch.count = 0 /\ FailLink(e1).ch.rx = <<>>
         /\ FailLink(e1).ch.state # "Idle" => e1.ch.state # "Idle"
<1>1. e1.ch \in EspChannels BY EspTypes
<1>2. PICK c : c = IF e1.ch.state = "Idle" THEN e1.ch ELSE Abort(e1.ch) OBVIOUS
<1>3. /\ c \in EspChannels /\ c.state \in {"Idle", "Aborted"} /\ c.count = 0 /\ c.rx = <<>>
      /\ c.state # "Idle" => e1.ch.state # "Idle"
  BY <1>1, <1>2, AbortTypes
<1>4. ~InSession(c) /\ EspLocal(c) BY <1>3, NotInSession
<1>5. FailLink(e1) = [e1 EXCEPT !.up = FALSE, !.q = <<>>, !.ch = c] BY <1>2 DEF FailLink
<1>7. <<>> \in Seq(Items) OBVIOUS
<1>8. PICK e2 : e2 = [e1 EXCEPT !.up = FALSE, !.q = <<>>, !.ch = c] OBVIOUS
<1>9. e2 \in EspStates /\ e2.up = FALSE /\ e2.q = <<>> /\ e2.ch = c
  BY <1>3, <1>7, <1>8 DEF EspStates
<1>6. /\ FailLink(e1) \in EspStates /\ ~FailLink(e1).up /\ FailLink(e1).q = <<>>
      /\ FailLink(e1).ch = c
  BY <1>5, <1>8, <1>9
<1> QED BY <1>3, <1>4, <1>6

\* failLinkLocked among the steps of a lock section.
LEMMA DerivedFail ==
  ASSUME NEW e, NEW e1, Derived(e, e1)
  PROVE  /\ Derived(e, FailLink(e1)) /\ ~InSession(FailLink(e1).ch) /\ ~FailLink(e1).up
<1>1. /\ e1 \in EspStates
      /\ e1.ch.state = "Idle" => e1.ch.count = 0 /\ e1.ch.rx = <<>>
  BY DEF Derived, InSession
<1>2. PICK e2 : e2 = FailLink(e1) OBVIOUS
<1>3. /\ e2 \in EspStates /\ ~e2.up /\ e2.q = <<>> /\ ~InSession(e2.ch)
      /\ e2.ch.count = 0 /\ e2.ch.rx = <<>>
      /\ e2.ch.state # "Idle" => e1.ch.state # "Idle"
  BY <1>1, <1>2, FailLinkTypes
<1>4. ToSet(e2.q) = {} BY <1>3, SetOne
<1>5. e2.ch.state # "Idle" => sess >= 1 BY <1>3 DEF Derived
<1> QED BY <1>2, <1>3, <1>4, <1>5 DEF Derived

\* The frames join the queue, or the link fails for want of room.
LEMMA EnqueueCases ==
  ASSUME NEW e1 \in EspStates, NEW t \in Seq(Frames)
  PROVE  \/ ~e1.up /\ EnqueueAll(e1, t) = e1
         \/ e1.up /\ EnqueueAll(e1, t) = FailLink(e1)
         \/ /\ e1.up /\ EnqueueAll(e1, t) \in EspStates /\ EnqueueAll(e1, t).up
            /\ EnqueueAll(e1, t).ch = e1.ch
            /\ FramesIn(EnqueueAll(e1, t).q) = FramesIn(e1.q) \o t
            /\ \A x \in ToSet(EnqueueAll(e1, t).q) :
                 \/ x \in ToSet(e1.q)
                 \/ x \in Items /\ x.gen = e1.ch.gen /\ x.frame \in ToSet(t)
<1>1. e1.up \in BOOLEAN /\ e1.q \in Seq(Items) /\ e1.ch \in EspChannels BY EspTypes
<1>2. e1.ch.gen \in Nat BY <1>1 DEF EspChannels
<1>3. CASE ~e1.up BY <1>3 DEF EnqueueAll
<1>4. CASE e1.up /\ Len(e1.q) + Len(t) > QueueSize BY <1>4 DEF EnqueueAll
<1>5. CASE e1.up /\ ~(Len(e1.q) + Len(t) > QueueSize)
  <2>1. PICK y : y = [i \in DOMAIN t |-> [frame |-> t[i], gen |-> e1.ch.gen]] OBVIOUS
  <2>2. y \in Seq(Items) /\ FramesIn(y) = t
        /\ \A x \in ToSet(y) : x.gen = e1.ch.gen /\ x.frame \in ToSet(t)
    BY <1>2, <2>1, EntriesOf
  <2>3. PICK q \in Seq(Items) : q = e1.q BY <1>1
  <2>4. EnqueueAll(e1, t) = [e1 EXCEPT !.q = q \o y] BY <1>5, <2>1, <2>3 DEF EnqueueAll
  <2>5. q \o y \in Seq(Items) BY <2>2
  <2>6. PICK r \in Seq(Items) : r = q \o y BY <2>5
  <2>7. ToSet(r) = ToSet(q) \cup ToSet(y) BY <2>2, <2>6, SetConcat
  <2>8. FramesIn(r) = FramesIn(q) \o t BY <2>2, <2>6, FramesInConcat, ItemTypes
  <2>9. PICK e2 : e2 = [e1 EXCEPT !.q = r] OBVIOUS
  <2>10. e2 \in EspStates /\ e2.up /\ e2.ch = e1.ch /\ e2.q = r BY <1>5, <2>9 DEF EspStates
  <2>11. \A x \in ToSet(e2.q) : x \in Items BY <2>10, EspTypes
  <2> QED BY <1>5, <2>2, <2>3, <2>4, <2>6, <2>7, <2>8, <2>9, <2>10, <2>11
<1> QED BY <1>3, <1>4, <1>5

\* enqueueLocked of one frame among the steps of a lock section.
LEMMA DerivedEnqueue ==
  ASSUME NEW e, NEW e1, Derived(e, e1), NEW t \in Seq(Frames), sess >= 1,
         \A f \in ToSet(t) :
           /\ f.epoch = e1.ch.epoch /\ f.type # "OPEN"
           /\ f.type \in {"DATA", "ACK"} => f.epoch \in used
           /\ ~InSession(e1.ch) => f.type \in Terminal
  PROVE  /\ Derived(e, EnqueueAll(e1, t))
         /\ ~InSession(e1.ch) \/ ~EnqueueAll(e1, t).up => ~InSession(EnqueueAll(e1, t).ch)
<1>1. e1 \in EspStates BY DEF Derived
<1>2. PICK e2 : e2 = EnqueueAll(e1, t) OBVIOUS
<1>3. CASE ~e1.up /\ e2 = e1 BY <1>2, <1>3 DEF Derived
<1>4. CASE e2 = FailLink(e1) BY <1>2, <1>4, DerivedFail
<1>5. CASE /\ e1.up /\ e2 \in EspStates /\ e2.up /\ e2.ch = e1.ch
           /\ \A x \in ToSet(e2.q) :
                \/ x \in ToSet(e1.q)
                \/ x \in Items /\ x.gen = e1.ch.gen /\ x.frame \in ToSet(t)
  <2>1. ASSUME NEW x \in ToSet(e2.q)
        PROVE  Entry(x, e2.ch) /\ (x \in ToSet(e.q) \/ Added(e, x))
    <3>1. CASE x \in ToSet(e1.q) BY <3>1, <1>5 DEF Derived
    <3>2. CASE x \in Items /\ x.gen = e1.ch.gen /\ x.frame \in ToSet(t)
      <4>1. /\ x.frame.epoch = e1.ch.epoch /\ x.frame.type # "OPEN"
            /\ x.frame.type \in {"DATA", "ACK"} => x.frame.epoch \in used
            /\ ~InSession(e1.ch) => x.frame.type \in Terminal
        BY <3>2
      <4>2. e1.ch.epoch = e.ch.epoch BY <1>5 DEF Derived
      <4>3. Added(e, x) BY <4>1, <4>2 DEF Added
      <4>4. x.gen \in Nat BY <3>2, ItemTypes
      <4>5. Entry(x, e1.ch) BY <3>2, <4>1, <4>4 DEF Entry
      <4> QED BY <4>3, <4>5, <1>5
    <3> QED BY <3>1, <3>2, <1>5, <2>1
  <2>2. /\ e2.up => e.up /\ e2.ch.epoch = e.ch.epoch
        /\ ~InSession(e2.ch) => e2.ch.count = 0 /\ e2.ch.rx = <<>>
        /\ e2.ch.state # "Idle" => sess >= 1
    BY <1>5 DEF Derived
  <2>3. Derived(e, e2) BY <1>5, <2>1, <2>2 DEF Derived
  <2> QED BY <1>2, <1>5, <2>3
<1> QED BY <1>1, <1>2, <1>3, <1>4, <1>5, EnqueueCases

\* The fields of a frame that is made.
LEMMA FrameTypesOf ==
  ASSUME NEW type \in FrameTypes, NEW e \in 0..(EpochNos - 1), NEW n \in Nat,
         NEW d \in Seq(Bytes)
  PROVE  /\ Frame(type, e, n, d) \in Frames /\ Frame(type, e, n, d).type = type
         /\ Frame(type, e, n, d).epoch = e /\ Frame(type, e, n, d).seq = n
BY DEF Frame, Frames

\* enqueueLocked of CLOSE or ERROR when the session is over.
LEMMA DerivedEnqueueEnd ==
  ASSUME NEW e, NEW e1, Derived(e, e1), NEW type \in Terminal, sess >= 1
  PROVE  /\ Derived(e, Enqueue(e1, type, 0))
         /\ ~InSession(e1.ch) => ~InSession(Enqueue(e1, type, 0).ch)
<1>1. e1.ch \in EspChannels BY EspTypes DEF Derived
<1>2. e1.ch.epoch \in 0..(EpochNos - 1) /\ type \in FrameTypes /\ 0 \in Nat /\ <<>> \in Seq(Bytes)
  BY <1>1 DEF EspChannels, Terminal, FrameTypes
<1>12. PICK k \in 0..(EpochNos - 1) : k = e1.ch.epoch BY <1>2
<1>13. PICK z \in Seq(Bytes) : z = <<>> BY <1>2
<1>3. PICK f \in Frames : f = Frame(type, k, 0, z) BY <1>2, FrameTypesOf
<1>4. f.type = type /\ f.epoch = e1.ch.epoch BY <1>2, <1>3, <1>12, FrameTypesOf
<1>5. <<f>> \in Seq(Frames) BY <1>3
<1>6. PICK t \in Seq(Frames) : t = <<f>> BY <1>5
<1>7. ToSet(t) = {f} BY <1>6, SetOne
<1>8. Enqueue(e1, type, 0) = EnqueueAll(e1, t) BY <1>3, <1>6, <1>12, <1>13 DEF Enqueue
<1>9. \A g \in ToSet(t) :
        /\ g.epoch = e1.ch.epoch /\ g.type # "OPEN"
        /\ g.type \in {"DATA", "ACK"} => g.epoch \in used
        /\ ~InSession(e1.ch) => g.type \in Terminal
  BY <1>4, <1>7 DEF Terminal
<1>10. /\ Derived(e, EnqueueAll(e1, t))
       /\ ~InSession(e1.ch) \/ ~EnqueueAll(e1, t).up => ~InSession(EnqueueAll(e1, t).ch)
  BY <1>9, DerivedEnqueue
<1> QED BY <1>8, <1>10

\* abortChannelLocked among the steps of a lock section.
LEMMA DerivedAbortChannel ==
  ASSUME NEW e, NEW e1, Derived(e, e1)
  PROVE  Derived(e, AbortChannel(e1)) /\ ~InSession(AbortChannel(e1).ch)
<1>1. CASE e1.ch.state = "Idle" BY <1>1 DEF AbortChannel, InSession
<1>2. CASE e1.ch.state # "Idle"
  <2>1. sess >= 1 BY <1>2 DEF Derived
  <2>2. PICK a : a = [e1 EXCEPT !.ch = Abort(@)] OBVIOUS
  <2>3. Derived(e, a) /\ ~InSession(a.ch) BY <2>1, <2>2, DerivedAbort
  <2>4. AbortChannel(e1) = Enqueue(a, "ERROR", 0) BY <1>2, <2>2 DEF AbortChannel
  <2>5. "ERROR" \in Terminal BY DEF Terminal
  <2>6. Derived(e, Enqueue(a, "ERROR", 0)) /\ ~InSession(Enqueue(a, "ERROR", 0).ch)
    BY <2>1, <2>3, <2>5, DerivedEnqueueEnd
  <2> QED BY <2>4, <2>6
<1> QED BY <1>1, <1>2

-----------------------------------------------------------------------------
(* The inductive invariant.                                                *)

\* A frame on its way to the phone; an OPEN says which session it opens.
Sent(d, n, f) ==
  /\ f.epoch \in Past(d, n)
  /\ f.type = "OPEN" => f.seq \in 1..n /\ f.epoch = EpochOf(d, f.seq)

\* A GATT write is of a session so far, and bears its epoch.
OpDated(d, n, o) == o.sess \in 1..n /\ o.frame.epoch = EpochOf(d, o.sess)

\* Session s of this link has epoch d + s: no two of them share one.
Dates(d, n, e, F, B, P, p, u) ==
  /\ e.up => e.ch.epoch = EpochOf(d, n)
  /\ \A f \in F : Sent(d, n, f)
  /\ \A f \in B : f.epoch \in Past(d, n)
  /\ \A o \in P : OpDated(d, n, o)
  /\ p.sess # 0 => p.sess \in 1..n /\ p.epoch = EpochOf(d, p.sess)
  /\ u \subseteq Past(d, n)

\* EspOk in this state.
EspNow == EspOk(esp, sess)

\* The reader of the phone starts once, when the write of OPENED has completed.
OpensMine(p, o) == o.frame.type = "OPENED" /\ o.sess = p.sess
\* While OPENED is queued or being written the reader is off; once it is being
\* written no other OPENED of that session is queued.
ReaderOk(p, P, A, u) ==
  /\ \A o \in A : o.frame.epoch \in u
  /\ (Live(p) /\ \E o \in P \cup A : OpensMine(p, o)) => p.rd = "off" /\ p.st = "ready"
  /\ (Live(p) /\ \E o \in A : OpensMine(p, o)) => ~\E o \in P : OpensMine(p, o)

\* The types of the callers and of the counters.
Callers ==
  /\ client \in [pc : {"none", "opening", "using"}, gen : Nat, epoch : 0..(EpochNos - 1)]
  /\ writer \in [on : BOOLEAN, gen : Nat, left : Nat]
  /\ link \in Nat /\ sess \in 0..MaxOpens
  /\ phase \in [Sessions -> {"none", "open", "eof", "dead"}]
  /\ written \in [Sessions -> Nat] /\ fetched \in [Sessions -> Nat]
  /\ client.pc # "none" => sess >= 1

\* The types of what is in the air.
Wires ==
  /\ inHand \in Seq(Frames) /\ Len(inHand) <= 1
  /\ toPhone \in Seq(Frames) /\ toEsp \in Seq(Frames)

\* The phone: its types, PhLocal and ReaderOk, and nothing left on a link that
\* is gone.
PhoneOk ==
  /\ phoneUp \in BOOLEAN /\ used \subseteq 0..(EpochNos - 1)
  /\ ph \in PhChannels /\ PhLocal(ph)
  /\ pq \in Seq(GattOps) /\ active \in Seq(GattOps) /\ Len(active) <= 1
  /\ ~phoneUp => toPhone = <<>> /\ pq = <<>> /\ active = <<>> /\ ph.st = "closed"
  /\ ph.st = "none" => ph.sess = 0
  /\ Live(ph) => ph.sess # 0
  /\ \A o \in ToSet(pq) : o.terminal <=> o.frame.type \in Terminal
  /\ ReaderOk(ph, ToSet(pq), ToSet(active), used)

\* The writes of the phone that have not completed.
Ops == ToSet(pq) \cup ToSet(active)
\* The frames on their way to the phone.
Forth == ToSet(toPhone) \cup ToSet(inHand) \cup ToSet(FramesIn(esp.q))

\* Dates in this state.
DatesNow ==
  \E d \in 0..(EpochNos - 1) : Dates(d, sess, esp, Forth, ToSet(toEsp), Ops, ph, used)

\* Proto in this state.
ProtoNow ==
  Proto(esp.ch, ph, toEsp, FramesIn(pq), toPhone \o inHand, FramesIn(esp.q), used)

\* The inductive invariant.
IInv == EspNow /\ Callers /\ Wires /\ PhoneOk /\ DatesNow /\ ProtoNow

\* The fields of IInv, with what each is.
LEMMA Facts ==
  ASSUME IInv
  PROVE  /\ esp \in EspStates /\ esp.up \in BOOLEAN /\ esp.q \in Seq(Items) /\ esp.ch \in EspChannels
         /\ EspLocal(esp.ch) /\ ph \in PhChannels /\ PhLocal(ph)
         /\ pq \in Seq(GattOps) /\ FramesIn(pq) \in Seq(Frames)
         /\ FramesIn(esp.q) \in Seq(Frames)
         /\ inHand \in Seq(Frames) /\ toPhone \in Seq(Frames) /\ toEsp \in Seq(Frames)
         /\ toPhone \o inHand \in Seq(Frames)
         /\ sess \in Nat /\ sess <= MaxOpens
         /\ Derived(esp, esp)
<1>1. /\ esp \in EspStates /\ EspLocal(esp.ch) /\ Derived(esp, esp)
  BY DerivedSelf DEF IInv, EspNow, EspOk
<1>2. esp.up \in BOOLEAN /\ esp.q \in Seq(Items) /\ esp.ch \in EspChannels BY <1>1, EspTypes
<1>3. ph \in PhChannels /\ PhLocal(ph) /\ pq \in Seq(GattOps) BY DEF IInv, PhoneOk
<1>4. FramesIn(pq) \in Seq(Frames) BY <1>3, FramesInSeq, ItemTypes
<1>5. FramesIn(esp.q) \in Seq(Frames) BY <1>2, FramesInSeq, ItemTypes
<1>6. inHand \in Seq(Frames) /\ toPhone \in Seq(Frames) /\ toEsp \in Seq(Frames)
  BY DEF IInv, Wires
<1>7. toPhone \o inHand \in Seq(Frames) BY <1>6
<1>8. sess \in Nat /\ sess <= MaxOpens BY RelayAssumption DEF IInv, Callers
<1> QED BY <1>1, <1>2, <1>3, <1>4, <1>5, <1>6, <1>7, <1>8

\* A step of the recorder that ends its session: what its own lock sections do.
LEMMA StepLeaves ==
  ASSUME IInv, Derived(esp, esp'), ~InSession(esp'.ch),
         NEW x \in Seq(Frames), toEsp' \in Seq(Frames), toEsp = x \o toEsp',
         UNCHANGED <<inHand, toPhone, phoneVars, sess>>
  PROVE  EspNow' /\ Wires' /\ PhoneOk' /\ DatesNow' /\ ProtoNow'
<1> USE Facts
<1>0. /\ inHand' = inHand /\ toPhone' = toPhone /\ sess' = sess /\ phoneUp' = phoneUp
      /\ used' = used /\ ph' = ph /\ pq' = pq /\ active' = active
  BY DEF phoneVars
<1>1. PICK e2 : e2 = esp' OBVIOUS
<1>2. /\ Derived(esp, e2) /\ ~InSession(e2.ch) /\ e2 \in EspStates
  BY <1>1 DEF Derived
<1>3. e2.q \in Seq(Items) /\ e2.ch \in EspChannels BY <1>2, EspTypes
<1>4. e2.ch.count = 0 /\ e2.ch.rx = <<>> BY <1>2 DEF Derived
<1>5. EspLocal(e2.ch)
  <2>1. e2.ch.state \in {"Idle", "Aborted"} BY <1>2, <1>3 DEF EspChannels, InSession
  <2> QED BY <2>1, <1>3, <1>4, NotInSession
<1>6. EspOk(e2, sess) BY <1>2, <1>5 DEF EspOk, Derived
<1>7. EspNow' BY <1>0, <1>1, <1>6 DEF EspNow
<1>8. Wires' BY <1>0 DEF IInv, Wires
<1>9. PhoneOk' BY <1>0 DEF IInv, PhoneOk
<1>10. FramesIn(e2.q) \in Seq(Frames)
       /\ ToSet(FramesIn(e2.q)) = {y.frame : y \in ToSet(e2.q)}
       /\ ToSet(FramesIn(esp.q)) = {y.frame : y \in ToSet(esp.q)}
  BY <1>3, FramesInSeq, ItemTypes
<1>11. ASSUME NEW f \in ToSet(FramesIn(e2.q))
       PROVE  \/ f \in ToSet(FramesIn(esp.q))
              \/ /\ e2.up /\ sess >= 1 /\ f.epoch = esp.ch.epoch /\ f.type # "OPEN"
                 /\ f.type \in {"DATA", "ACK"} => f.epoch \in used
  <2>1. PICK y \in ToSet(e2.q) : f = y.frame BY <1>10, <1>11
  <2>2. CASE y \in ToSet(esp.q) BY <2>1, <2>2, <1>10
  <2>3. CASE Added(esp, y)
    <3>1. e2.q # <<>> BY <2>1, SetOne
    <3>2. e2.up BY <3>1, <1>2 DEF Derived
    <3> QED BY <3>2, <2>1, <2>3 DEF Added
  <2> QED BY <2>1, <2>2, <2>3, <1>2 DEF Derived
<1>12. DatesNow'
  <2>1. PICK d \in 0..(EpochNos - 1) : Dates(d, sess, esp, Forth, ToSet(toEsp), Ops, ph, used)
    BY DEF IInv, DatesNow
  <2>2. PICK F2 : F2 = ToSet(toPhone) \cup ToSet(inHand) \cup ToSet(FramesIn(e2.q)) OBVIOUS
  <2>3. PICK B2 : B2 = ToSet(toEsp') OBVIOUS
  <2>4. B2 \subseteq ToSet(toEsp)
    <3>1. PICK y \in Seq(Frames) : y = toEsp' OBVIOUS
    <3>2. toEsp = x \o y BY <3>1
    <3>3. ToSet(toEsp) = ToSet(x) \cup ToSet(y) BY <3>2, SetConcat
    <3> QED BY <3>1, <3>3, <2>3
  <2>5. ASSUME NEW f \in F2 PROVE Sent(d, sess, f)
    <3>1. CASE f \in Forth BY <3>1, <2>1 DEF Dates
    <3>2. CASE e2.up /\ sess >= 1 /\ f.epoch = esp.ch.epoch /\ f.type # "OPEN"
      <4>1. esp.ch.epoch = EpochOf(d, sess) BY <3>2, <1>2, <2>1 DEF Dates, Derived
      <4>2. d \in Nat /\ sess \in 1..sess BY <3>2, RelayAssumption
      <4>3. EpochOf(d, sess) \in Past(d, sess) BY <4>2, PastGrows
      <4> QED BY <3>2, <4>1, <4>3 DEF Sent
    <3> QED BY <3>1, <3>2, <2>2, <2>5, <1>11 DEF Forth
  <2>6. e2.up => e2.ch.epoch = EpochOf(d, sess) BY <1>2, <2>1 DEF Dates, Derived
  <2>7. Dates(d, sess, e2, F2, B2, Ops, ph, used) BY <2>1, <2>4, <2>5, <2>6 DEF Dates
  <2> QED BY <2>2, <2>3, <2>7, <1>0, <1>1 DEF DatesNow, Forth, Ops
<1>13. ProtoNow'
  <2>1. \A f \in ToSet(FramesIn(e2.q)) :
          f \in ToSet(FramesIn(esp.q)) \/ f.type \notin {"DATA", "ACK"} \/ f.epoch \in used
    BY <1>11
  <2>2. PICK te2 \in Seq(Frames) : te2 = toEsp' OBVIOUS
  <2>3. toEsp = x \o te2 BY <2>2
  <2>4. PICK qu \in Seq(Frames) : qu = FramesIn(esp.q) OBVIOUS
  <2>5. PICK qu2 \in Seq(Frames) : qu2 = FramesIn(e2.q) BY <1>10
  <2>6. PICK po \in Seq(Frames) : po = FramesIn(pq) OBVIOUS
  <2>7. PICK air \in Seq(Frames) : air = toPhone \o inHand OBVIOUS
  <2>8. Proto(esp.ch, ph, toEsp, po, air, qu, used) BY <2>4, <2>6, <2>7 DEF IInv, ProtoNow
  <2>10. \A f \in ToSet(qu2) : f \in ToSet(qu) \/ f.type \notin {"DATA", "ACK"} \/ f.epoch \in used
    BY <2>1, <2>4, <2>5
  <2>11. PICK te \in Seq(Frames) : te = toEsp OBVIOUS
  <2>12. te = x \o te2 /\ Proto(esp.ch, ph, te, po, air, qu, used) BY <2>3, <2>8, <2>11
  <2>9. Proto(e2.ch, ph, te2, po, air, qu2, used)
    BY <2>10, <2>12, <1>2, EspLeaves
  <2> QED BY <2>2, <2>5, <2>6, <2>7, <2>9, <1>0, <1>1 DEF ProtoNow
<1> QED BY <1>7, <1>8, <1>9, <1>12, <1>13

\* The same when the frames of the phone stay where they are.
LEMMA StepLeavesQuietly ==
  ASSUME IInv, Derived(esp, esp'), ~InSession(esp'.ch), Callers',
         UNCHANGED <<inHand, airVars, phoneVars, sess>>
  PROVE  IInv'
<1>1. toEsp' = toEsp /\ toPhone' = toPhone BY DEF airVars
<1>2. toEsp \in Seq(Frames) BY Facts
<1>3. <<>> \in Seq(Frames) /\ toEsp = <<>> \o toEsp BY <1>2, Unit
<1>4. EspNow' /\ Wires' /\ PhoneOk' /\ DatesNow' /\ ProtoNow'
  BY <1>1, <1>2, <1>3, StepLeaves
<1> QED BY <1>4 DEF IInv

-----------------------------------------------------------------------------
(* The steps of the recorder keep it.                                      *)

\* A step of a caller that touches neither queue nor channel.
LEMMA StepSame ==
  ASSUME IInv, Callers', UNCHANGED <<esp, inHand, airVars, phoneVars, sess>>
  PROVE  IInv'
<1>1. /\ esp' = esp /\ inHand' = inHand /\ toPhone' = toPhone /\ toEsp' = toEsp
      /\ phoneUp' = phoneUp /\ used' = used /\ ph' = ph /\ pq' = pq /\ active' = active
      /\ sess' = sess
  BY DEF airVars, phoneVars
<1>2. EspNow' /\ Wires' /\ PhoneOk' BY <1>1 DEF IInv, EspNow, Wires, PhoneOk
<1>3. DatesNow' BY <1>1 DEF IInv, DatesNow, Forth, Ops
<1>4. ProtoNow' BY <1>1 DEF IInv, ProtoNow
<1> QED BY <1>2, <1>3, <1>4 DEF IInv

\* leave(): the caller gives its channel up.
LEMMA LeaveCalls ==
  ASSUME IInv, NEW how \in {"eof", "dead"}, Leave(how),
         UNCHANGED <<writer, link, sess, written, fetched>>
  PROVE  Callers'
BY DEF Leave, IInv, Callers

\* Callers when none of them moves.
LEMMA SameCalls ==
  ASSUME IInv, UNCHANGED <<client, writer, link, sess, phase, written, fetched>>
  PROVE  Callers'
BY DEF IInv, Callers

\* OpenInvalid keeps the invariant.
LEMMA OpenInvalidStep == ASSUME IInv, OpenInvalid PROVE IInv'
<1> USE Facts
<1>1. UNCHANGED <<writer, inHand, airVars, phoneVars, link, sess, written, fetched>>
  BY DEF OpenInvalid
<1>2. Callers' BY <1>1, LeaveCalls DEF OpenInvalid
<1>3. CASE esp' = esp BY <1>1, <1>2, <1>3, StepSame
<1>4. CASE esp' = [esp EXCEPT !.ch = Release(@)]
  <2>1. Derived(esp, esp') /\ ~InSession(esp'.ch) BY <1>4, DerivedRelease
  <2> QED BY <1>1, <1>2, <2>1, StepLeavesQuietly
<1> QED BY <1>3, <1>4 DEF OpenInvalid

\* OpenDone keeps the invariant.
LEMMA OpenDoneStep == ASSUME IInv, OpenDone PROVE IInv'
<1>1. UNCHANGED <<esp, writer, inHand, airVars, phoneVars, link, sess, phase, written, fetched>>
  BY DEF OpenDone, history
<1>2. Callers' BY <1>1 DEF IInv, Callers, OpenDone, OpenWaiting
<1> QED BY <1>1, <1>2, StepSame

\* The channel is released and CLOSE tells the peer.
LEMMA CloseLeaves ==
  ASSUME IInv, sess >= 1, esp' = Enqueue([esp EXCEPT !.ch = Release(@)], "CLOSE", 0)
  PROVE  Derived(esp, esp') /\ ~InSession(esp'.ch)
<1> USE Facts
<1>1. PICK e1 : e1 = [esp EXCEPT !.ch = Release(@)] OBVIOUS
<1>2. Derived(esp, e1) /\ ~InSession(e1.ch) BY <1>1, DerivedRelease
<1>3. "CLOSE" \in Terminal BY DEF Terminal
<1>4. Derived(esp, Enqueue(e1, "CLOSE", 0)) /\ ~InSession(Enqueue(e1, "CLOSE", 0).ch)
  BY <1>2, <1>3, DerivedEnqueueEnd
<1> QED BY <1>1, <1>4

\* OpenTimeout keeps the invariant.
LEMMA OpenTimeoutStep == ASSUME IInv, OpenTimeout PROVE IInv'
<1>1. UNCHANGED <<writer, inHand, airVars, phoneVars, link, sess, written, fetched>>
  BY DEF OpenTimeout
<1>2. Callers' BY <1>1, LeaveCalls DEF OpenTimeout
<1>3. sess >= 1 BY DEF OpenTimeout, OpenWaiting, IInv, Callers
<1>4. Derived(esp, esp') /\ ~InSession(esp'.ch) BY <1>3, CloseLeaves DEF OpenTimeout
<1> QED BY <1>1, <1>2, <1>4, StepLeavesQuietly

\* Close keeps the invariant.
LEMMA CloseStep == ASSUME IInv, Close PROVE IInv'
<1>1. UNCHANGED <<writer, inHand, airVars, phoneVars, link, sess, written, fetched>>
  BY DEF Close
<1>2. Callers' BY <1>1, LeaveCalls DEF Close
<1>3. sess >= 1 BY DEF Close, IInv, Callers
<1>4. Derived(esp, esp') /\ ~InSession(esp'.ch) BY <1>3, CloseLeaves DEF Close
<1> QED BY <1>1, <1>2, <1>4, StepLeavesQuietly

\* WriteCall keeps the invariant.
LEMMA WriteCallStep == ASSUME IInv, NEW n \in 1..ReqLen, WriteCall(n) PROVE IInv'
<1>1. UNCHANGED <<esp, client, inHand, airVars, phoneVars, link, sess, phase, written, fetched>>
  BY DEF WriteCall, history
<1>2. esp.ch.gen \in Nat /\ n \in Nat BY Facts, RelayAssumption DEF EspChannels
<1>3. Callers' BY <1>1, <1>2 DEF IInv, Callers, WriteCall
<1> QED BY <1>1, <1>3, StepSame

\* WriteBroken keeps the invariant.
LEMMA WriteBrokenStep == ASSUME IInv, WriteBroken PROVE IInv'
<1> USE Facts
<1>1. UNCHANGED <<client, inHand, airVars, phoneVars, link, sess, phase, written, fetched>>
  BY DEF WriteBroken, history
<1>2. Callers' BY <1>1 DEF IInv, Callers, WriteBroken
<1>3. CASE esp' = esp BY <1>1, <1>2, <1>3, StepSame
<1>4. CASE esp' = AbortChannel(esp)
  <2>1. Derived(esp, esp') /\ ~InSession(esp'.ch) BY <1>4, DerivedAbortChannel
  <2> QED BY <1>1, <1>2, <2>1, StepLeavesQuietly
<1> QED BY <1>3, <1>4 DEF WriteBroken

\* AckTimeout keeps the invariant.
LEMMA AckTimeoutStep == ASSUME IInv, AckTimeout PROVE IInv'
<1> USE Facts
<1>1. /\ UNCHANGED <<client, writer, inHand, airVars, phoneVars, link, sess, phase, written, fetched>>
      /\ esp' = AbortChannel(esp)
  BY DEF AckTimeout, history
<1>2. Callers' BY <1>1, SameCalls
<1>3. Derived(esp, esp') /\ ~InSession(esp'.ch) BY <1>1, DerivedAbortChannel
<1> QED BY <1>1, <1>2, <1>3, StepLeavesQuietly

\* EspLinkLost keeps the invariant.
LEMMA EspLinkLostStep == ASSUME IInv, EspLinkLost PROVE IInv'
<1> USE Facts
<1>1. /\ UNCHANGED <<client, writer, inHand, airVars, phoneVars, link, sess, phase, written, fetched>>
      /\ esp' = FailLink(esp)
  BY DEF EspLinkLost, history
<1>2. Callers' BY <1>1, SameCalls
<1>3. Derived(esp, esp') /\ ~InSession(esp'.ch) BY <1>1, DerivedFail
<1> QED BY <1>1, <1>2, <1>3, StepLeavesQuietly

\* EspDisconnected keeps the invariant.
LEMMA EspDisconnectedStep == ASSUME IInv, EspDisconnected PROVE IInv'
<1> USE Facts
<1>1. /\ UNCHANGED <<client, writer, inHand, toPhone, phoneVars, link, sess, phase, written, fetched>>
      /\ esp' = FailLink(esp) /\ toEsp' = <<>>
  BY DEF EspDisconnected, history
<1>2. Callers' BY <1>1, SameCalls
<1>3. Derived(esp, esp') /\ ~InSession(esp'.ch) BY <1>1, DerivedFail
<1>4. PICK x \in Seq(Frames) : x = toEsp OBVIOUS
<1>5. toEsp' \in Seq(Frames) /\ toEsp = x \o toEsp' BY <1>1, <1>4, Unit
<1>6. EspNow' /\ Wires' /\ PhoneOk' /\ DatesNow' /\ ProtoNow'
  BY <1>1, <1>3, <1>5, StepLeaves
<1> QED BY <1>2, <1>6 DEF IInv

\* A step of the recorder that stays in its session.
LEMMA StepStays ==
  ASSUME IInv, UNCHANGED <<phoneVars, sess>>, Wires', ~phoneUp => toPhone' = toPhone,
         esp'.up => esp.up /\ esp'.ch.epoch = esp.ch.epoch,
         \A f \in ToSet(toPhone') \cup ToSet(inHand') \cup ToSet(FramesIn(esp'.q)) :
           \/ f \in Forth
           \/ esp.up /\ sess >= 1 /\ f.epoch = esp.ch.epoch /\ f.type # "OPEN",
         ToSet(toEsp') \subseteq ToSet(toEsp)
  PROVE  PhoneOk' /\ DatesNow'
<1> USE Facts
<1>0. /\ sess' = sess /\ phoneUp' = phoneUp
      /\ used' = used /\ ph' = ph /\ pq' = pq /\ active' = active
  BY DEF phoneVars
<1>9. PhoneOk' BY <1>0 DEF IInv, PhoneOk
<1>12. DatesNow'
  <2>1. PICK d \in 0..(EpochNos - 1) : Dates(d, sess, esp, Forth, ToSet(toEsp), Ops, ph, used)
    BY DEF IInv, DatesNow
  <2>2. PICK F2 : F2 = ToSet(toPhone') \cup ToSet(inHand') \cup ToSet(FramesIn(esp'.q)) OBVIOUS
  <2>3. PICK B2 : B2 = ToSet(toEsp') OBVIOUS
  <2>5. ASSUME NEW f \in F2 PROVE Sent(d, sess, f)
    <3>1. CASE f \in Forth BY <3>1, <2>1 DEF Dates
    <3>2. CASE esp.up /\ sess >= 1 /\ f.epoch = esp.ch.epoch /\ f.type # "OPEN"
      <4>1. esp.ch.epoch = EpochOf(d, sess) BY <3>2, <2>1 DEF Dates
      <4>2. d \in Nat /\ sess \in 1..sess BY <3>2, RelayAssumption
      <4>3. EpochOf(d, sess) \in Past(d, sess) BY <4>2, PastGrows
      <4> QED BY <3>2, <4>1, <4>3 DEF Sent
    <3> QED BY <3>1, <3>2, <2>2, <2>5
  <2>6. PICK e2 : e2 = esp' OBVIOUS
  <2>7. e2.up => e2.ch.epoch = EpochOf(d, sess) BY <2>1, <2>6 DEF Dates
  <2>8. Dates(d, sess, e2, F2, B2, Ops, ph, used) BY <2>1, <2>3, <2>5, <2>7 DEF Dates
  <2> QED BY <2>2, <2>3, <2>6, <2>8, <1>0 DEF DatesNow, Forth, Ops
<1> QED BY <1>9, <1>12

\* Channel::start: what it leaves.
LEMMA StartTypes ==
  ASSUME NEW c \in EspChannels
  PROVE  /\ Start(c) \in EspChannels /\ Start(c).state = "Opening"
         /\ Start(c).epoch = (c.epoch + 1) % EpochNos /\ Start(c).gen = c.gen + 1
         /\ Start(c).count = 0 /\ Start(c).oldest = 0 /\ Start(c).next = 0
         /\ Start(c).expected = 0 /\ Start(c).rx = <<>>
         /\ EspLocal(Start(c)) /\ InSession(Start(c))
<1>1. /\ c.gen + 1 \in Nat /\ 0 \in 0..Window /\ <<>> \in Seq(Slots) /\ 0 \in SeqNo
      /\ c.epoch \in Int
  BY RelayAssumption DEF EspChannels, SeqNo
<1>2. PICK e \in 0..(EpochNos - 1) : e = (c.epoch + 1) % EpochNos BY <1>1, Turn
<1>3. PICK g \in Nat : g = c.gen + 1 BY <1>1
<1>4. PICK b : b = [c EXCEPT !.state = "Opening", !.epoch = e, !.gen = g, !.next = 0,
                             !.oldest = 0, !.count = 0, !.expected = 0, !.rx = <<>>] OBVIOUS
<1>5. b = Start(c) BY <1>2, <1>3, <1>4 DEF Start
<1>6. /\ b \in EspChannels /\ b.state = "Opening" /\ b.epoch = e /\ b.gen = g
      /\ b.count = 0 /\ b.oldest = 0 /\ b.next = 0 /\ b.expected = 0 /\ b.rx = <<>>
  BY <1>1, <1>4 DEF EspChannels
<1>7. (0 + 0) % SeqNos = 0 BY <1>1, SeqSmall
<1>8. EspLocal(b) /\ InSession(b) BY <1>6, <1>7, RelayAssumption DEF EspLocal, InSession
<1> QED BY <1>2, <1>3, <1>5, <1>6, <1>8

\* Open keeps the invariant: no other session bears the new epoch.
LEMMA OpenStep == ASSUME IInv, Open PROVE IInv'
<1> USE Facts
<1>1. /\ client.pc = "none" /\ sess < MaxOpens /\ esp.up /\ esp.ch.state = "Idle"
      /\ UNCHANGED <<writer, inHand, airVars, phoneVars, link, written, fetched>>
  BY DEF Open
<1>2. PICK c2 \in EspChannels : c2 = Start(esp.ch) BY StartTypes
<1>3. PICK e1 : e1 = [esp EXCEPT !.ch = c2] OBVIOUS
<1>4. e1 \in EspStates /\ e1.up /\ e1.q = esp.q /\ e1.ch = c2 BY <1>1, <1>3 DEF EspStates
<1>5. /\ c2.state = "Opening" /\ c2.epoch = (esp.ch.epoch + 1) % EpochNos
      /\ c2.gen = esp.ch.gen + 1 /\ c2.count = 0 /\ c2.oldest = 0 /\ c2.expected = 0
      /\ c2.rx = <<>> /\ EspLocal(c2) /\ InSession(c2)
      /\ c2.epoch \in 0..(EpochNos - 1) /\ c2.gen \in Nat /\ esp.ch.gen \in Nat
  BY <1>2, StartTypes DEF EspChannels
<1>6. sess + 1 \in Nat /\ "OPEN" \in FrameTypes /\ <<>> \in Seq(Bytes) BY DEF FrameTypes
<1>7. PICK k \in 0..(EpochNos - 1) : k = c2.epoch BY <1>5
<1>17. PICK z \in Seq(Bytes) : z = <<>> BY <1>6
<1>18. PICK n \in Nat : n = sess + 1 BY <1>6
<1>8. PICK f \in Frames : f = Frame("OPEN", k, n, z) BY <1>6, FrameTypesOf
<1>19. f.type = "OPEN" /\ f.epoch = k /\ f.seq = n BY <1>6, <1>8, FrameTypesOf
<1>9. f.type = "OPEN" /\ f.epoch = c2.epoch /\ f.seq = sess + 1 BY <1>7, <1>18, <1>19
<1>10. <<f>> \in Seq(Frames) BY AppendSet
<1>11. PICK t \in Seq(Frames) : t = <<f>> BY <1>10
<1>12. ToSet(t) = {f} BY <1>11, SetOne
<1>13. PICK e2 : e2 = EnqueueAll(e1, t) OBVIOUS
<1>14. e2 = Enqueue([esp EXCEPT !.ch = Start(@)], "OPEN", sess + 1)
  BY <1>2, <1>3, <1>4, <1>7, <1>8, <1>11, <1>13, <1>17, <1>18 DEF Enqueue
<1>15. CASE ~e2.up
  <2>1. esp' = [e2 EXCEPT !.ch = Release(@)] /\ UNCHANGED <<client, phase, sess>>
    BY <1>14, <1>15 DEF Open
  <2>2. e2 = FailLink(e1) BY <1>4, <1>13, <1>15, EnqueueCases
  <2>3. e2 \in EspStates /\ e2.q = <<>> BY <2>2, <1>4, <1>5, FailLinkTypes
  <2>4. e2.ch \in EspChannels BY <2>3, EspTypes
  <2>5. PICK c3 \in EspChannels : c3 = Release(e2.ch) BY <2>4, AbortTypes
  <2>6. c3.state = "Idle" /\ c3.count = 0 /\ c3.rx = <<>> BY <2>4, <2>5, AbortTypes
  <2>7. PICK e3 : e3 = [e2 EXCEPT !.ch = c3] OBVIOUS
  <2>8. e3 \in EspStates /\ ~e3.up /\ e3.q = <<>> /\ e3.ch = c3 BY <2>3, <2>7, <1>15 DEF EspStates
  <2>9. ~InSession(c3) BY <2>6, NotInSession
  <2>10. ToSet(e3.q) = {} BY <2>8, SetOne
  <2>11. Derived(esp, e3) BY <2>6, <2>8, <2>9, <2>10 DEF Derived
  <2>12. esp' = e3 BY <2>1, <2>5, <2>7
  <2>13. Callers' BY <1>1, <2>1, SameCalls
  <2>14. Derived(esp, esp') /\ ~InSession(esp'.ch) BY <2>8, <2>9, <2>11, <2>12
  <2> QED BY <1>1, <2>1, <2>13, <2>14, StepLeavesQuietly
<1>16. CASE e2.up
  <2>1. /\ esp' = e2 /\ sess' = sess + 1 /\ phase' = [phase EXCEPT ![sess + 1] = "open"]
        /\ client' = [pc |-> "opening", gen |-> e2.ch.gen, epoch |-> e2.ch.epoch]
    BY <1>14, <1>16 DEF Open
  <2>2. /\ e2 \in EspStates /\ e2.ch = c2 /\ FramesIn(e2.q) = FramesIn(esp.q) \o t
        /\ \A x \in ToSet(e2.q) :
             \/ x \in ToSet(esp.q)
             \/ x \in Items /\ x.gen = c2.gen /\ x.frame = f
    <3>1. ~(e2 = FailLink(e1)) BY <1>16, <1>4, <1>5, FailLinkTypes
    <3>2. /\ e2 \in EspStates /\ e2.ch = e1.ch /\ FramesIn(e2.q) = FramesIn(e1.q) \o t
          /\ \A x \in ToSet(e2.q) :
               \/ x \in ToSet(e1.q)
               \/ x \in Items /\ x.gen = e1.ch.gen /\ x.frame \in ToSet(t)
      BY <3>1, <1>4, <1>13, <1>16, EnqueueCases
    <3> QED BY <3>2, <1>4, <1>12
  <2>3. Callers'
    <3>1. e2.ch.gen \in Nat /\ e2.ch.epoch \in 0..(EpochNos - 1) BY <2>2, <1>5
    <3>2. sess + 1 \in 0..MaxOpens /\ sess + 1 >= 1 BY <1>1, RelayAssumption
    <3> QED BY <3>1, <3>2, <2>1, <1>1 DEF IInv, Callers
  <2>4. PICK d \in 0..(EpochNos - 1) : Dates(d, sess, esp, Forth, ToSet(toEsp), Ops, ph, used)
    BY DEF IInv, DatesNow
  <2>5. d \in Nat BY RelayAssumption
  <2>6. c2.epoch = EpochOf(d, sess + 1)
    <3>1. esp.ch.epoch = EpochOf(d, sess) BY <1>1, <2>4 DEF Dates
    <3> QED BY <3>1, <2>5, <1>5, EpochNext
  <2>7. c2.epoch \notin Past(d, sess) BY <2>5, <2>6, <1>1, EpochNew
  <2>8. ToSet(FramesIn(esp.q)) = {y.frame : y \in ToSet(esp.q)} BY FramesInSeq, ItemTypes
  <2>9. ASSUME NEW x \in ToSet(e2.q)
        PROVE  Entry(x, c2) /\ (x.frame.epoch = c2.epoch => x.gen = c2.gen)
    <3>1. CASE x \in ToSet(esp.q)
      <4>1. x.frame \in Forth BY <3>1, <2>8 DEF Forth
      <4>2. x.frame.epoch # c2.epoch BY <4>1, <2>4, <2>7 DEF Dates, Sent
      <4>3. x.gen <= esp.ch.gen BY <3>1 DEF IInv, EspNow, EspOk, Entry
      <4>4. x.gen \in Nat BY <3>1, EspTypes, ItemTypes
      <4> QED BY <4>2, <4>3, <4>4, <1>5 DEF Entry
    <3>2. CASE x \in Items /\ x.gen = c2.gen /\ x.frame = f
      BY <3>2, <1>5, <1>9, ItemTypes DEF Entry
    <3> QED BY <3>1, <3>2, <2>2
  <2>10. EspOk(e2, sess + 1) BY <2>2, <2>9, <1>5, <1>16 DEF EspOk
  <2>11. EspNow' BY <2>1, <2>10 DEF EspNow
  <2>12. /\ inHand' = inHand /\ toPhone' = toPhone /\ toEsp' = toEsp
         /\ phoneUp' = phoneUp /\ used' = used /\ ph' = ph /\ pq' = pq /\ active' = active
    BY <1>1 DEF airVars, phoneVars
  <2>13. Wires' /\ PhoneOk' BY <2>12 DEF IInv, Wires, PhoneOk
  <2>14. DatesNow'
    <3>1. PICK F2 : F2 = ToSet(toPhone) \cup ToSet(inHand) \cup ToSet(FramesIn(e2.q)) OBVIOUS
    <3>2. ToSet(FramesIn(e2.q)) = ToSet(FramesIn(esp.q)) \cup {f}
      <4>1. PICK qu \in Seq(Frames) : qu = FramesIn(esp.q) OBVIOUS
      <4>2. ToSet(qu \o t) = ToSet(qu) \cup ToSet(t) BY SetConcat
      <4> QED BY <4>1, <4>2, <2>2, <1>12
    <3>3. Past(d, sess) \subseteq Past(d, sess + 1) /\ c2.epoch \in Past(d, sess + 1)
          /\ sess + 1 \in 1..(sess + 1)
      BY <2>6, PastGrows DEF Past
    <3>4. ASSUME NEW g \in F2 PROVE Sent(d, sess + 1, g)
      <4>1. CASE g \in Forth
        <5>1. Sent(d, sess, g) BY <4>1, <2>4 DEF Dates
        <5> QED BY <5>1, <3>3 DEF Sent
      <4>2. CASE g = f BY <4>2, <3>3, <2>6, <1>9 DEF Sent
      <4> QED BY <4>1, <4>2, <3>1, <3>2, <3>4 DEF Forth
    <3>5. \A o \in Ops : OpDated(d, sess + 1, o) BY <2>4 DEF Dates, OpDated
    <3>6. ph.sess # 0 => ph.sess \in 1..(sess + 1) /\ ph.epoch = EpochOf(d, ph.sess)
      BY <2>4 DEF Dates
    <3>7. /\ \A g \in ToSet(toEsp) : g.epoch \in Past(d, sess + 1)
          /\ used \subseteq Past(d, sess + 1)
      BY <2>4, <3>3 DEF Dates
    <3>8. Dates(d, sess + 1, e2, F2, ToSet(toEsp), Ops, ph, used)
      BY <3>4, <3>5, <3>6, <3>7, <2>2, <2>6 DEF Dates
    <3> QED BY <3>1, <3>8, <2>1, <2>12 DEF DatesNow, Forth, Ops
  <2>15. ProtoNow'
    <3>1. PICK qu \in Seq(Frames) : qu = FramesIn(esp.q) OBVIOUS
    <3>2. PICK po \in Seq(Frames) : po = FramesIn(pq) OBVIOUS
    <3>3. PICK air \in Seq(Frames) : air = toPhone \o inHand OBVIOUS
    <3>4. Proto(esp.ch, ph, toEsp, po, air, qu, used) BY <3>1, <3>2, <3>3 DEF IInv, ProtoNow
    <3>5. c2.epoch \notin used BY <2>4, <2>7 DEF Dates
    <3>6. Proto(c2, ph, toEsp, po, air, qu \o <<f>>, used)
      BY <3>4, <3>5, <1>5, <1>9, EspOpens
    <3> QED BY <3>1, <3>2, <3>3, <3>6, <2>1, <2>2, <2>12, <1>11 DEF ProtoNow
  <2> QED BY <2>3, <2>11, <2>13, <2>14, <2>15 DEF IInv
<1> QED BY <1>15, <1>16

\* Frames of the session may be acknowledged only once the phone knows it.
LEMMA KnownEpoch ==
  ASSUME IInv, InSession(esp.ch), esp.ch.state # "Opening" PROVE esp.ch.epoch \in used
BY DEF IInv, ProtoNow, Proto, Known

\* The link stays up and the frames of the session join the queue.
LEMMA StepSends ==
  ASSUME IInv, UNCHANGED <<inHand, airVars, phoneVars, sess>>, Callers',
         esp.up, InSession(esp.ch), esp.ch.state # "Opening",
         NEW c2 \in EspChannels, c2.state = esp.ch.state, c2.epoch = esp.ch.epoch,
         c2.gen = esp.ch.gen, EspLocal(c2),
         NEW t \in Seq(Frames),
         \A f \in ToSet(t) : f.epoch = c2.epoch /\ f.type \in {"DATA", "ACK"},
         NEW e1, e1 = [esp EXCEPT !.ch = c2],
         NEW e2, e2 = EnqueueAll(e1, t),
         esp' = e2, e2.up,
         Proto(c2, ph, toEsp, FramesIn(pq), toPhone \o inHand, FramesIn(esp.q) \o t, used)
  PROVE  IInv'
<1> USE Facts
<1>1. e1 \in EspStates /\ e1.up /\ e1.q = esp.q /\ e1.ch = c2 BY DEF EspStates
<1>2. /\ e2 \in EspStates /\ e2.ch = c2 /\ FramesIn(e2.q) = FramesIn(esp.q) \o t
      /\ \A x \in ToSet(e2.q) :
           \/ x \in ToSet(esp.q)
           \/ x \in Items /\ x.gen = c2.gen /\ x.frame \in ToSet(t)
  <2>0. e1.ch.state # "Idle" BY <1>1 DEF InSession
  <2>1. ~(e2 = FailLink(e1)) BY <2>0, <1>1, FailLinkTypes
  <2>2. /\ e2 \in EspStates /\ e2.ch = e1.ch /\ FramesIn(e2.q) = FramesIn(e1.q) \o t
        /\ \A x \in ToSet(e2.q) :
             \/ x \in ToSet(e1.q)
             \/ x \in Items /\ x.gen = e1.ch.gen /\ x.frame \in ToSet(t)
    BY <2>1, <1>1, EnqueueCases
  <2> QED BY <2>2, <1>1
<1>3. InSession(c2) /\ sess >= 1 BY DEF InSession, IInv, EspNow, EspOk
<1>4. ASSUME NEW x \in ToSet(e2.q)
      PROVE  Entry(x, c2) /\ (x.frame.epoch = c2.epoch => x.gen = c2.gen)
  <2>1. CASE x \in ToSet(esp.q)
    BY <2>1, <1>3 DEF IInv, EspNow, EspOk, Entry
  <2>2. CASE x \in Items /\ x.gen = c2.gen /\ x.frame \in ToSet(t)
    BY <2>2, <1>3, ItemTypes DEF Entry
  <2> QED BY <2>1, <2>2, <1>2
<1>5. EspOk(e2, sess) BY <1>2, <1>3, <1>4 DEF EspOk
<1>6. EspNow' BY <1>5 DEF EspNow
<1>7. /\ inHand' = inHand /\ toPhone' = toPhone /\ toEsp' = toEsp
      /\ phoneUp' = phoneUp /\ used' = used /\ ph' = ph /\ pq' = pq /\ active' = active
  BY DEF airVars, phoneVars
<1>8. Wires' BY <1>7 DEF IInv, Wires
<1>9. ToSet(FramesIn(e2.q)) = ToSet(FramesIn(esp.q)) \cup ToSet(t) BY <1>2, SetConcat
<1>10. \A f \in ToSet(toPhone') \cup ToSet(inHand') \cup ToSet(FramesIn(esp'.q)) :
         \/ f \in Forth
         \/ esp.up /\ sess >= 1 /\ f.epoch = esp.ch.epoch /\ f.type # "OPEN"
  BY <1>3, <1>7, <1>9 DEF Forth
<1>11. esp'.up => esp.up /\ esp'.ch.epoch = esp.ch.epoch BY <1>2
<1>12. ToSet(toEsp') \subseteq ToSet(toEsp) BY <1>7
<1>13. PhoneOk' /\ DatesNow' BY <1>7, <1>8, <1>10, <1>11, <1>12, StepStays
<1>14. ProtoNow' BY <1>2, <1>7 DEF ProtoNow
<1> QED BY <1>6, <1>8, <1>13, <1>14 DEF IInv

\* The link fails for want of room, or the channel is aborted afterwards.
LEMMA SendDerives ==
  ASSUME IInv, InSession(esp.ch), esp.ch.state # "Opening",
         NEW c2 \in EspChannels, c2.state = esp.ch.state, c2.epoch = esp.ch.epoch,
         c2.gen = esp.ch.gen, esp.up,
         NEW t \in Seq(Frames),
         \A f \in ToSet(t) : f.epoch = c2.epoch /\ f.type \in {"DATA", "ACK"},
         NEW e1, e1 = [esp EXCEPT !.ch = c2],
         NEW e2, e2 = EnqueueAll(e1, t)
  PROVE  Derived(esp, e2) /\ (~e2.up => ~InSession(e2.ch))
<1> USE Facts
<1>1. e1 \in EspStates /\ e1.up /\ e1.q = esp.q /\ e1.ch = c2 BY DEF EspStates
<1>2. InSession(c2) /\ sess >= 1 BY DEF InSession, IInv, EspNow, EspOk
<1>3. \A x \in ToSet(e1.q) : Entry(x, c2) /\ x \in ToSet(esp.q)
  BY <1>1, <1>2 DEF IInv, EspNow, EspOk, Entry
<1>4. Derived(esp, e1) BY <1>1, <1>2, <1>3 DEF Derived
<1>5. esp.ch.epoch \in used BY KnownEpoch
<1>6. \A f \in ToSet(t) :
        /\ f.epoch = e1.ch.epoch /\ f.type # "OPEN"
        /\ f.type \in {"DATA", "ACK"} => f.epoch \in used
        /\ ~InSession(e1.ch) => f.type \in Terminal
  BY <1>1, <1>2, <1>5
<1>7. /\ Derived(esp, EnqueueAll(e1, t))
      /\ ~InSession(e1.ch) \/ ~EnqueueAll(e1, t).up => ~InSession(EnqueueAll(e1, t).ch)
  BY <1>2, <1>4, <1>6, DerivedEnqueue
<1> QED BY <1>7

\* Least is the smaller of two numbers.
LEMMA LeastOf ==
  ASSUME NEW a \in Int, NEW b \in Int
  PROVE  /\ Least(a, b) \in Int /\ Least(a, b) <= a /\ Least(a, b) <= b
         /\ Least(a, b) = a \/ Least(a, b) = b
BY DEF Least

\* A payload is a sequence of bytes.
LEMMA PayloadOf ==
  ASSUME NEW s \in Sessions, NEW from \in Nat, NEW n \in Int
  PROVE  Payload(s, from, n) \in Seq(Bytes)
<1>1. \A k \in 1..n : Byte(s, from + k) \in Bytes BY DEF Byte, Bytes
<1>2. PICK m \in Nat : 1..n = 1..m
  <2>1. CASE n >= 0 BY <2>1
  <2>2. CASE n < 0
    <3>1. 1..n = 1..0 BY <2>2
    <3> QED BY <3>1
  <2> QED BY <2>1, <2>2
<1>3. Payload(s, from, n) = [k \in 1..m |-> Byte(s, from + k)] BY <1>2 DEF Payload
<1>4. [k \in 1..m |-> Byte(s, from + k)] \in [1..m -> Bytes] BY <1>1, <1>2
<1> QED BY <1>3, <1>4

\* How many frames a request needs.
LEMMA NeedOf ==
  ASSUME NEW n \in Nat PROVE (n + MaxPayload - 1) \div MaxPayload \in Nat
<1>1. PICK M \in Nat \ {0} : M = MaxPayload BY RelayAssumption
<1>2. PICK a \in Nat : a = n + M - 1 OBVIOUS
<1>3. PICK q \in Int : q = a \div M BY <1>1
<1>4. a = M * q + (a % M) /\ a % M \in 0..(M - 1) BY <1>1, <1>3
<1>5. q >= 0
  <2> SUFFICES ASSUME q <= -1 PROVE FALSE OBVIOUS
  <2>1. M * q <= -M BY <1>1
  <2> QED BY <2>1, <1>2, <1>4
<1> QED BY <1>1, <1>2, <1>3, <1>5

\* The DATA frames of one pass continue the numbering of the window.
LEMMA CutFrames ==
  ASSUME IInv, esp.ch.state = "Open", NEW k \in Nat
  PROVE  /\ WriteFrames(k) \in Seq(Frames) /\ Len(WriteFrames(k)) = k
         /\ \A i \in DOMAIN WriteFrames(k) :
              /\ Of(WriteFrames(k)[i], "DATA", esp.ch.epoch)
              /\ WriteFrames(k)[i].seq = (esp.ch.oldest + esp.ch.count + (i - 1)) % SeqNos
<1> USE Facts
<1>1. sess \in Sessions BY RelayAssumption DEF IInv, EspNow, EspOk, Sessions
<1>2. written[sess] \in Nat /\ writer.left \in Nat BY <1>1 DEF IInv, Callers
<1>3. /\ esp.ch.epoch \in 0..(EpochNos - 1) /\ esp.ch.oldest \in Nat /\ esp.ch.next \in Nat
      /\ esp.ch.count \in Nat
  BY EspFields DEF EspChannels, SeqNo
<1>4. esp.ch.next = (esp.ch.oldest + esp.ch.count) % SeqNos BY DEF EspLocal, InSession
<1>5. PICK M \in Nat : M = MaxPayload BY RelayAssumption
<1>6. PICK W \in Nat : W = written[sess] BY <1>2
<1>7. PICK L \in Nat : L = writer.left BY <1>2
<1>8. PICK N \in Nat : N = esp.ch.next BY <1>3
<1>9. PICK E \in 0..(EpochNos - 1) : E = esp.ch.epoch BY <1>3
<1>10. PICK fr : fr = [i \in 1..k |->
                         Frame("DATA", E, (N + i - 1) % SeqNos,
                               Payload(sess, W + (i - 1) * M, Least(L - (i - 1) * M, M)))]
  OBVIOUS
<1>11. fr = WriteFrames(k) BY <1>5, <1>6, <1>7, <1>8, <1>9, <1>10 DEF WriteFrames
<1>12. ASSUME NEW i \in 1..k
       PROVE  /\ fr[i] \in Frames /\ fr[i].type = "DATA" /\ fr[i].epoch = E
              /\ fr[i].seq = (N + i - 1) % SeqNos
  <2>1. PICK j \in Nat : j = i - 1 OBVIOUS
  <2>2. PICK p \in Nat : p = j * M OBVIOUS
  <2>3. PICK a \in Int : a = Least(L - p, M) BY LeastOf
  <2>8. PICK g \in Nat : g = W + p OBVIOUS
  <2>9. Payload(sess, g, a) \in Seq(Bytes) BY <1>1, PayloadOf
  <2>4. PICK z \in Seq(Bytes) : z = Payload(sess, g, a) BY <2>9
  <2>5. PICK m \in Nat : m = (N + i - 1) % SeqNos
    <3>1. N + i - 1 \in Int OBVIOUS
    <3>2. (N + i - 1) % SeqNos \in 0..(SeqNos - 1) BY <3>1, Division
    <3> QED BY <3>2, RelayAssumption
  <2>6. fr[i] = Frame("DATA", E, m, z) BY <1>10, <2>1, <2>2, <2>3, <2>4, <2>5, <2>8
  <2>7. "DATA" \in FrameTypes BY DEF FrameTypes
  <2> QED BY <2>5, <2>6, <2>7, FrameTypesOf
<1>13. fr \in Seq(Frames) /\ Len(fr) = k /\ DOMAIN fr = 1..k
  <2>1. fr \in [1..k -> Frames] BY <1>10, <1>12
  <2> QED BY <2>1
<1>14. ASSUME NEW i \in 1..k
       PROVE  fr[i].seq = (esp.ch.oldest + esp.ch.count + (i - 1)) % SeqNos
  <2>1. PICK a \in Int : a = esp.ch.oldest + esp.ch.count BY <1>3
  <2>2. PICK b \in Int : b = i - 1 OBVIOUS
  <2>3. (a + b) % SeqNos = ((a % SeqNos) + b) % SeqNos BY SeqSum
  <2>4. N = a % SeqNos BY <1>4, <1>8, <2>1
  <2>5. N + i - 1 = N + b BY <2>2
  <2>6. fr[i].seq = (N + b) % SeqNos BY <1>12, <2>5
  <2> QED BY <2>1, <2>2, <2>3, <2>4, <2>6
<1> QED BY <1>9, <1>11, <1>12, <1>13, <1>14 DEF Of

\* TxWindow::reserve: what it leaves.
LEMMA ReserveTypes ==
  ASSUME NEW c \in EspChannels, EspLocal(c), c.state = "Open", NEW k \in Nat,
         k <= Window - c.count
  PROVE  /\ Reserve(c, k) \in EspChannels /\ Reserve(c, k).state = "Open"
         /\ Reserve(c, k).epoch = c.epoch /\ Reserve(c, k).gen = c.gen
         /\ Reserve(c, k).oldest = c.oldest /\ Reserve(c, k).expected = c.expected
         /\ Reserve(c, k).rx = c.rx /\ Reserve(c, k).count = c.count + k
         /\ EspLocal(Reserve(c, k))
<1>1. c.next \in Nat /\ c.oldest \in Nat /\ c.count \in Nat BY EspFields DEF SeqNo
<1>2. PICK m : m = (c.next + k) % SeqNos OBVIOUS
<1>3. m \in SeqNo BY <1>1, <1>2, Division DEF SeqNo
<1>4. PICK n \in 0..Window : n = c.count + k BY <1>1, RelayAssumption
<1>5. PICK b : b = [c EXCEPT !.next = m, !.count = n] OBVIOUS
<1>6. b = Reserve(c, k) BY <1>2, <1>4, <1>5 DEF Reserve
<1>7. /\ b \in EspChannels /\ b.state = "Open" /\ b.epoch = c.epoch /\ b.gen = c.gen
      /\ b.oldest = c.oldest /\ b.expected = c.expected /\ b.rx = c.rx
      /\ b.count = n /\ b.next = m
  BY <1>3, <1>5 DEF EspChannels
<1>8. m = (c.oldest + n) % SeqNos
  <2>1. PICK a \in Int : a = c.oldest + c.count BY <1>1
  <2>2. c.next = a % SeqNos BY <2>1 DEF EspLocal, InSession
  <2>3. (a + k) % SeqNos = ((a % SeqNos) + k) % SeqNos BY SeqSum
  <2>4. c.oldest + n = a + k BY <1>1, <1>4, <2>1
  <2> QED BY <1>2, <2>2, <2>3, <2>4
<1>9. EspLocal(b) BY <1>7, <1>8 DEF EspLocal, InSession
<1> QED BY <1>4, <1>6, <1>7, <1>9

\* WritePass keeps the invariant.
LEMMA WritePassStep == ASSUME IInv, WritePass PROVE IInv'
<1> USE Facts
<1>1. /\ writer.on /\ writer.gen = esp.ch.gen /\ esp.up /\ esp.ch.state = "Open"
      /\ UNCHANGED <<client, inHand, airVars, phoneVars, link, sess, phase, fetched>>
  BY DEF WritePass
<1>2. InSession(esp.ch) /\ esp.ch.state # "Opening" BY <1>1 DEF InSession
<1>3. sess \in Sessions BY <1>1, RelayAssumption DEF IInv, EspNow, EspOk, Sessions
<1>4. /\ written[sess] \in Nat /\ writer.left \in Nat /\ writer.gen \in Nat
      /\ written \in [Sessions -> Nat] /\ writer \in [on : BOOLEAN, gen : Nat, left : Nat]
  BY <1>3 DEF IInv, Callers
<1>5. PICK need \in Nat : need = (writer.left + MaxPayload - 1) \div MaxPayload
  BY <1>4, NeedOf
<1>6. PICK k \in Nat : k = Least(need, Window - esp.ch.count) /\ k <= Window - esp.ch.count
  <2>1. Window - esp.ch.count \in Nat BY EspFields, RelayAssumption
  <2>2. PICK w \in Nat : w = Window - esp.ch.count BY <2>1
  <2>3. Least(need, w) \in Nat /\ Least(need, w) <= w BY LeastOf DEF Least
  <2> QED BY <2>2, <2>3
<1>7. PICK bytes \in Nat : bytes = Least(writer.left, k * MaxPayload) /\ bytes <= writer.left
  <2>1. PICK z \in Nat : z = k * MaxPayload BY RelayAssumption
  <2>2. PICK l \in Nat : l = writer.left BY <1>4
  <2>3. Least(l, z) \in Nat /\ Least(l, z) <= l BY DEF Least
  <2> QED BY <2>1, <2>2, <2>3
<1>8. PICK c2 \in EspChannels :
        /\ c2 = Reserve(esp.ch, k) /\ c2.state = "Open" /\ c2.epoch = esp.ch.epoch
        /\ c2.gen = esp.ch.gen /\ c2.oldest = esp.ch.oldest /\ c2.expected = esp.ch.expected
        /\ c2.rx = esp.ch.rx /\ c2.count = esp.ch.count + k /\ EspLocal(c2)
  BY <1>1, <1>6, ReserveTypes
<1>9. PICK t \in Seq(Frames) : t = WriteFrames(k) BY <1>1, CutFrames
<1>10. /\ Len(t) = k
       /\ \A i \in DOMAIN t : /\ Of(t[i], "DATA", esp.ch.epoch)
                              /\ t[i].seq = (esp.ch.oldest + esp.ch.count + (i - 1)) % SeqNos
  BY <1>1, <1>9, CutFrames
<1>11. \A f \in ToSet(t) : f.epoch = c2.epoch /\ f.type \in {"DATA", "ACK"}
  BY <1>8, <1>10 DEF ToSet, Of
<1>12. PICK e1 : e1 = [esp EXCEPT !.ch = c2] OBVIOUS
<1>13. PICK e2 : e2 = EnqueueAll(e1, t) OBVIOUS
<1>14. Derived(esp, e2) /\ (~e2.up => ~InSession(e2.ch))
  BY <1>1, <1>2, <1>8, <1>11, <1>12, <1>13, SendDerives
<1>15. e2 = EnqueueAll([esp EXCEPT !.ch = Reserve(@, k)], WriteFrames(k))
  BY <1>8, <1>9, <1>12, <1>13
<1>16. IF e2.up
       THEN /\ written' = [written EXCEPT ![sess] = @ + bytes]
            /\ \/ /\ esp' = e2
                  /\ writer' = [writer EXCEPT !.left = @ - bytes, !.on = bytes < writer.left]
               \/ esp' = AbortChannel(e2) /\ writer' = [writer EXCEPT !.on = FALSE]
       ELSE esp' = AbortChannel(e2) /\ writer' = [writer EXCEPT !.on = FALSE] /\ UNCHANGED written
  BY <1>5, <1>6, <1>7, <1>15 DEF WritePass
<1>17. Callers'
  <2>1. written' \in [Sessions -> Nat]
    <3>1. PICK m \in Nat : m = written[sess] + bytes BY <1>4
    <3>2. [written EXCEPT ![sess] = m] \in [Sessions -> Nat] BY <1>4
    <3> QED BY <3>1, <3>2, <1>4, <1>16
  <2>2. writer' \in [on : BOOLEAN, gen : Nat, left : Nat]
    <3>1. PICK m \in Nat : m = writer.left - bytes BY <1>4, <1>7
    <3>4. (bytes < writer.left) \in BOOLEAN OBVIOUS
    <3>2. PICK b \in BOOLEAN : b = (bytes < writer.left) BY <3>4, Zenon
    <3>3. /\ [writer EXCEPT !.left = m, !.on = b] \in [on : BOOLEAN, gen : Nat, left : Nat]
          /\ [writer EXCEPT !.on = FALSE] \in [on : BOOLEAN, gen : Nat, left : Nat]
      BY <1>4
    <3> QED BY <3>1, <3>2, <3>3, <1>16
  <2> QED BY <2>1, <2>2, <1>1 DEF IInv, Callers
<1>18. CASE esp' = AbortChannel(e2)
  <2>1. Derived(esp, esp') /\ ~InSession(esp'.ch) BY <1>14, <1>18, DerivedAbortChannel
  <2> QED BY <1>1, <1>17, <2>1, StepLeavesQuietly
<1>19. CASE esp' = e2 /\ e2.up
  <2>1. PICK qu \in Seq(Frames) : qu = FramesIn(esp.q) OBVIOUS
  <2>2. PICK po \in Seq(Frames) : po = FramesIn(pq) OBVIOUS
  <2>3. PICK air \in Seq(Frames) : air = toPhone \o inHand OBVIOUS
  <2>4. Proto(esp.ch, ph, toEsp, po, air, qu, used) BY <2>1, <2>2, <2>3 DEF IInv, ProtoNow
  <2>5. c2.count = esp.ch.count + Len(t) BY <1>8, <1>10
  <2>6. Proto(c2, ph, toEsp, po, air, qu \o t, used)
    BY <2>4, <2>5, <1>1, <1>8, <1>10, EspSends
  <2>7. Proto(c2, ph, toEsp, FramesIn(pq), toPhone \o inHand, FramesIn(esp.q) \o t, used)
    BY <2>1, <2>2, <2>3, <2>6
  <2>8. UNCHANGED <<inHand, airVars, phoneVars, sess>> /\ c2.state = esp.ch.state BY <1>1, <1>8
  <2> QED BY <2>7, <2>8, <1>1, <1>2, <1>8, <1>11, <1>12, <1>13, <1>17, <1>19, StepSends
<1> QED BY <1>16, <1>18, <1>19

\* read() shortens the oldest slot and leaves its number alone.
LEMMA SlotTypes ==
  ASSUME NEW rx \in Seq(Slots), rx # <<>>, NEW n \in 1..Len(Head(rx).data)
  PROVE  /\ Head(rx) \in Slots /\ Head(rx) = rx[1] /\ Tail(rx) \in Seq(Slots)
         /\ Len(Tail(rx)) = Len(rx) - 1 /\ Len(rx) \in Nat
         /\ SubSeq(Head(rx).data, n + 1, Len(Head(rx).data)) \in Seq(Bytes)
<1>1. Head(rx) \in Slots /\ Head(rx) = rx[1] /\ Tail(rx) \in Seq(Slots)
      /\ Len(Tail(rx)) = Len(rx) - 1 /\ Len(rx) \in Nat
  OBVIOUS
<1>2. PICK s \in Seq(Bytes) : s = Head(rx).data BY <1>1 DEF Slots
<1>3. n \in 1..Len(s) /\ Len(s) \in Nat BY <1>2
<1>4. SubSeq(s, n + 1, Len(s)) \in Seq(Bytes) BY <1>3
<1> QED BY <1>1, <1>2, <1>4

\* The oldest slot with fewer bytes in it keeps its number.
LEMMA FirstSlot ==
  ASSUME NEW rx \in Seq(Slots), rx # <<>>, NEW d \in Seq(Bytes)
  PROVE  /\ <<[Head(rx) EXCEPT !.data = d]>> \o Tail(rx) \in Seq(Slots)
         /\ Len(<<[Head(rx) EXCEPT !.data = d]>> \o Tail(rx)) = Len(rx)
         /\ \A i \in DOMAIN rx :
              (<<[Head(rx) EXCEPT !.data = d]>> \o Tail(rx))[i].seq = rx[i].seq
<1>1. PICK h \in Slots : h = Head(rx) OBVIOUS
<1>2. PICK s : s = [h EXCEPT !.data = d] OBVIOUS
<1>3. s \in Slots /\ s.seq = h.seq BY <1>2 DEF Slots
<1>4. PICK y : y = <<s>> \o Tail(rx) OBVIOUS
<1>5. /\ y \in Seq(Slots) /\ Len(y) = Len(rx) /\ y[1] = s /\ h = rx[1]
      /\ \A i \in 2..Len(rx) : y[i] = rx[i]
  BY <1>1, <1>3, <1>4
<1>6. DOMAIN rx = 1..Len(rx) /\ Len(rx) \in Nat OBVIOUS
<1>7. \A i \in DOMAIN rx : y[i].seq = rx[i].seq BY <1>3, <1>5, <1>6
<1> QED BY <1>1, <1>2, <1>4, <1>5, <1>7

\* Read keeps the invariant.
LEMMA ReadStep == ASSUME IInv, NEW n \in 1..MaxPayload, Read(n) PROVE IInv'
<1> USE Facts
<1>1. /\ esp.up /\ esp.ch.state \in {"Open", "PeerClosed"} /\ esp.ch.rx # <<>>
      /\ UNCHANGED <<client, writer, inHand, airVars, phoneVars, link, sess, phase, written, fetched>>
  BY DEF Read
<1>2. InSession(esp.ch) /\ esp.ch.state # "Opening" BY <1>1 DEF InSession
<1>3. Callers' BY <1>1, SameCalls
<1>4. PICK rx \in Seq(Slots) : rx = esp.ch.rx BY EspFields
<1>5. PICK slot \in Slots : slot = Head(rx) /\ slot = rx[1] BY <1>1, <1>4
<1>6. n \in 1..Len(Head(rx).data) BY <1>4 DEF Read
<1>7. PICK rest \in Seq(Bytes) : rest = SubSeq(slot.data, n + 1, Len(slot.data))
  BY <1>1, <1>4, <1>5, <1>6, SlotTypes
<1>8. CASE rest # <<>>
  <2>1. PICK rx2 \in Seq(Slots) :
          /\ rx2 = <<[slot EXCEPT !.data = rest]>> \o Tail(rx) /\ Len(rx2) = Len(rx)
          /\ \A i \in DOMAIN rx : rx2[i].seq = rx[i].seq
    BY <1>1, <1>4, <1>5, FirstSlot
  <2>2. esp' = [esp EXCEPT !.ch.rx = rx2] BY <2>1, <1>4, <1>5, <1>7, <1>8 DEF Read
  <2>3. PICK c2 : c2 = [esp.ch EXCEPT !.rx = rx2] OBVIOUS
  <2>4. esp' = [esp EXCEPT !.ch = c2] BY <2>2, <2>3
  <2>5. /\ c2 \in EspChannels /\ c2.state = esp.ch.state /\ c2.epoch = esp.ch.epoch
        /\ c2.oldest = esp.ch.oldest /\ c2.expected = esp.ch.expected /\ c2.next = esp.ch.next
        /\ c2.count = esp.ch.count /\ c2.rx = rx2 /\ c2.gen = esp.ch.gen
    BY <2>3 DEF EspChannels
  <2>6. PICK e2 : e2 = [esp EXCEPT !.ch = c2] OBVIOUS
  <2>7. e2 \in EspStates /\ e2.up = esp.up /\ e2.q = esp.q /\ e2.ch = c2
    BY <2>5, <2>6 DEF EspStates
  <2>8. EspLocal(c2) BY <2>1, <2>5, <1>1, <1>2, <1>4 DEF EspLocal, InSession
  <2>9. EspOk(e2, sess)
    <3>1. InSession(c2) BY <2>5, <1>2 DEF InSession
    <3>2. sess >= 1 BY <1>2 DEF IInv, EspNow, EspOk, InSession
    <3>3. \A x \in ToSet(esp.q) :
            /\ Entry(x, esp.ch)
            /\ (InSession(esp.ch) /\ x.frame.epoch = esp.ch.epoch) => x.gen = esp.ch.gen
      BY DEF IInv, EspNow, EspOk
    <3>4. \A x \in ToSet(e2.q) :
            /\ Entry(x, c2) /\ (x.frame.epoch = c2.epoch => x.gen = c2.gen)
      BY <3>1, <3>3, <2>5, <2>7, <1>2 DEF Entry
    <3> QED BY <3>1, <3>2, <3>4, <2>7, <2>8, <1>1 DEF EspOk
  <2>10. EspNow' BY <2>4, <2>6, <2>9, <1>1 DEF EspNow
  <2>11. /\ inHand' = inHand /\ toPhone' = toPhone /\ toEsp' = toEsp
         /\ phoneUp' = phoneUp /\ used' = used /\ ph' = ph /\ pq' = pq /\ active' = active
         /\ sess' = sess
    BY <1>1 DEF airVars, phoneVars
  <2>12. Wires' BY <2>11 DEF IInv, Wires
  <2>13. \A f \in ToSet(toPhone') \cup ToSet(inHand') \cup ToSet(FramesIn(esp'.q)) :
           \/ f \in Forth
           \/ esp.up /\ sess >= 1 /\ f.epoch = esp.ch.epoch /\ f.type # "OPEN"
    BY <2>4, <2>6, <2>7, <2>11 DEF Forth
  <2>14. esp'.up => esp.up /\ esp'.ch.epoch = esp.ch.epoch BY <2>4, <2>5, <2>6, <2>7
  <2>15. ToSet(toEsp') \subseteq ToSet(toEsp) BY <2>11
  <2>16. PhoneOk' /\ DatesNow' BY <2>11, <2>12, <2>13, <2>14, <2>15, <1>1, StepStays
  <2>17. ProtoNow'
    <3>1. PICK qu \in Seq(Frames) : qu = FramesIn(esp.q) OBVIOUS
    <3>2. PICK po \in Seq(Frames) : po = FramesIn(pq) OBVIOUS
    <3>3. PICK air \in Seq(Frames) : air = toPhone \o inHand OBVIOUS
    <3>4. Proto(esp.ch, ph, toEsp, po, air, qu, used) BY <3>1, <3>2, <3>3 DEF IInv, ProtoNow
    <3>5. Len(c2.rx) = Len(esp.ch.rx) /\ \A i \in DOMAIN esp.ch.rx : c2.rx[i].seq = esp.ch.rx[i].seq
      BY <2>1, <2>5, <1>4
    <3>6. Proto(c2, ph, toEsp, po, air, qu, used) BY <3>4, <3>5, <2>5, EspReads
    <3> QED BY <3>1, <3>2, <3>3, <3>6, <2>4, <2>6, <2>7, <2>11 DEF ProtoNow
  <2> QED BY <1>3, <2>10, <2>12, <2>16, <2>17 DEF IInv
<1>9. CASE rest = <<>>
  <2>1. PICK rx2 \in Seq(Slots) : rx2 = Tail(rx) /\ Len(rx2) = Len(rx) - 1
    BY <1>1, <1>4, <1>6, SlotTypes
  <2>2. PICK c2 : c2 = [esp.ch EXCEPT !.rx = rx2] OBVIOUS
  <2>3. /\ c2 \in EspChannels /\ c2.state = esp.ch.state /\ c2.epoch = esp.ch.epoch
        /\ c2.oldest = esp.ch.oldest /\ c2.expected = esp.ch.expected /\ c2.next = esp.ch.next
        /\ c2.count = esp.ch.count /\ c2.rx = rx2 /\ c2.gen = esp.ch.gen
    BY <2>2 DEF EspChannels
  <2>4. PICK e1 : e1 = [esp EXCEPT !.ch = c2] OBVIOUS
  <2>5. e1 = [esp EXCEPT !.ch.rx = Tail(@)] BY <2>1, <2>2, <2>4, <1>4
  <2>6. slot.seq \in Nat BY <1>5, RelayAssumption DEF Slots, SeqNo
  <2>7. PICK m \in Nat : m = slot.seq BY <2>6
  <2>8. PICK k \in 0..(EpochNos - 1) : k = c2.epoch BY <2>3 DEF EspChannels
  <2>9. PICK z \in Seq(Bytes) : z = <<>> BY <1>9
  <2>10. "ACK" \in FrameTypes BY DEF FrameTypes
  <2>11. PICK f \in Frames : f = Frame("ACK", k, m, z) BY <2>10, FrameTypesOf
  <2>12. f.type = "ACK" /\ f.epoch = k /\ f.seq = m BY <2>10, <2>11, FrameTypesOf
  <2>13. <<f>> \in Seq(Frames) BY AppendSet
  <2>14. PICK t \in Seq(Frames) : t = <<f>> BY <2>13
  <2>15. ToSet(t) = {f} BY <2>14, SetOne
  <2>16. PICK e2 : e2 = EnqueueAll(e1, t) OBVIOUS
  <2>17. e1.ch = c2 BY <2>4 DEF EspStates
  <2>18. esp' = e2
    <3>1. esp' = Enqueue([esp EXCEPT !.ch.rx = Tail(@)], "ACK", slot.seq)
      BY <1>4, <1>5, <1>7, <1>9 DEF Read
    <3>2. Enqueue(e1, "ACK", slot.seq) = EnqueueAll(e1, <<Frame("ACK", e1.ch.epoch, slot.seq, <<>>)>>)
      BY DEF Enqueue
    <3>3. <<Frame("ACK", e1.ch.epoch, slot.seq, <<>>)>> = t
      BY <2>7, <2>8, <2>9, <2>11, <2>14, <2>17
    <3> QED BY <3>1, <3>2, <3>3, <2>5, <2>16
  <2>19. \A g \in ToSet(t) : g.epoch = c2.epoch /\ g.type \in {"DATA", "ACK"}
    BY <2>8, <2>12, <2>15
  <2>20. Derived(esp, e2) /\ (~e2.up => ~InSession(e2.ch))
    BY <2>3, <2>4, <2>16, <2>19, <1>1, <1>2, SendDerives
  <2>21. CASE ~e2.up
    <3>1. Derived(esp, esp') /\ ~InSession(esp'.ch) BY <2>18, <2>20, <2>21
    <3> QED BY <3>1, <1>1, <1>3, StepLeavesQuietly
  <2>22. CASE e2.up
    <3>10. Len(rx2) <= Window
      <4>1. Len(rx) <= Window BY <1>4 DEF EspLocal
      <4>2. PICK l \in Nat : l = Len(rx) OBVIOUS
      <4> QED BY <2>1, <4>1, <4>2, RelayAssumption
    <3>11. /\ InSession(esp.ch) => esp.ch.next = (esp.ch.oldest + esp.ch.count) % SeqNos
           /\ c2.state # "Opening" /\ InSession(c2)
      BY <2>3, <1>1 DEF EspLocal, InSession
    <3>1. EspLocal(c2) BY <3>10, <3>11, <2>3, <1>2 DEF EspLocal
    <3>2. PICK qu \in Seq(Frames) : qu = FramesIn(esp.q) OBVIOUS
    <3>3. PICK po \in Seq(Frames) : po = FramesIn(pq) OBVIOUS
    <3>4. PICK air \in Seq(Frames) : air = toPhone \o inHand OBVIOUS
    <3>5. Proto(esp.ch, ph, toEsp, po, air, qu, used) BY <3>2, <3>3, <3>4 DEF IInv, ProtoNow
    <3>6. Of(f, "ACK", esp.ch.epoch) /\ f.seq = esp.ch.rx[1].seq /\ c2.rx = Tail(esp.ch.rx)
      BY <2>1, <2>3, <2>7, <2>8, <2>12, <1>4, <1>5 DEF Of
    <3>7. Proto(c2, ph, toEsp, po, air, qu \o <<f>>, used)
      BY <3>5, <3>6, <2>3, <1>1, EspDrains
    <3>8. Proto(c2, ph, toEsp, FramesIn(pq), toPhone \o inHand, FramesIn(esp.q) \o t, used)
      BY <3>2, <3>3, <3>4, <3>7, <2>14
    <3>9. UNCHANGED <<inHand, airVars, phoneVars, sess>> BY <1>1
    <3> QED BY <3>1, <3>8, <3>9, <2>3, <2>4, <2>16, <2>18, <2>19, <2>22, <1>1, <1>2, <1>3, StepSends
  <2> QED BY <2>21, <2>22
<1> QED BY <1>8, <1>9

\* WorkerPop keeps the invariant: a stale entry is of a session that is over.
LEMMA WorkerPopStep == ASSUME IInv, WorkerPop PROVE IInv'
<1> USE Facts
<1>1. /\ inHand = <<>> /\ esp.up /\ esp.q # <<>> /\ esp' = [esp EXCEPT !.q = Tail(@)]
      /\ UNCHANGED <<client, writer, airVars, phoneVars, link, sess, phase, written, fetched>>
  BY DEF WorkerPop, Nothing, history
<1>2. Callers' BY <1>1, SameCalls
<1>3. PICK item \in Items : item = Head(esp.q) BY <1>1, FramesInHead, ItemTypes
<1>4. PICK rest \in Seq(Items) : rest = Tail(esp.q) BY <1>1, FramesInHead, ItemTypes
<1>5. PICK f \in Frames : f = item.frame BY ItemTypes
<1>6. PICK q2 \in Seq(Frames) : q2 = FramesIn(rest) BY FramesInSeq, ItemTypes
<1>7. /\ item \in ToSet(esp.q) /\ ToSet(rest) \subseteq ToSet(esp.q)
      /\ FramesIn(esp.q) = <<f>> \o q2
  BY <1>1, <1>3, <1>4, <1>5, <1>6, FramesInHead, ItemTypes
<1>8. PICK e2 : e2 = [esp EXCEPT !.q = rest] OBVIOUS
<1>9. e2 \in EspStates /\ e2.up = esp.up /\ e2.q = rest /\ e2.ch = esp.ch /\ esp' = e2
  BY <1>1, <1>4, <1>8 DEF EspStates
<1>10. EspOk(e2, sess) BY <1>7, <1>9, <1>1 DEF IInv, EspNow, EspOk
<1>11. EspNow' BY <1>1, <1>9, <1>10 DEF EspNow
<1>12. <<f>> \in Seq(Frames) BY AppendSet
<1>13. PICK x \in Seq(Frames) : x = <<f>> /\ Len(x) = 1 /\ x[1] = f BY <1>12
<1>14. ToSet(x) = {f} BY <1>13, SetOne
<1>15. ToSet(FramesIn(esp.q)) = {f} \cup ToSet(q2)
  <2>1. FramesIn(esp.q) = x \o q2 BY <1>7, <1>13
  <2> QED BY <2>1, <1>14, SetConcat
<1>16. /\ toPhone' = toPhone /\ toEsp' = toEsp
       /\ phoneUp' = phoneUp /\ used' = used /\ ph' = ph /\ pq' = pq /\ active' = active
       /\ sess' = sess
  BY <1>1 DEF airVars, phoneVars
<1>17. toPhone \o inHand = toPhone BY <1>1, Unit
<1>18. PICK po \in Seq(Frames) : po = FramesIn(pq) OBVIOUS
<1>19. Proto(esp.ch, ph, toEsp, po, toPhone, x \o q2, used)
  BY <1>7, <1>13, <1>17, <1>18 DEF IInv, ProtoNow
<1>20. /\ Entry(item, esp.ch)
       /\ (InSession(esp.ch) /\ f.epoch = esp.ch.epoch) => item.gen = esp.ch.gen
  BY <1>5, <1>7 DEF IInv, EspNow, EspOk
<1>21. PICK send \in BOOLEAN : send <=> (item.gen = esp.ch.gen /\ f.epoch = esp.ch.epoch)
  OBVIOUS
<1>22. inHand' = IF send THEN x ELSE <<>>
  BY <1>3, <1>5, <1>13, <1>21 DEF WorkerPop, Nothing
<1>23. Wires' BY <1>13, <1>16, <1>22 DEF IInv, Wires
<1>24. \A g \in ToSet(toPhone') \cup ToSet(inHand') \cup ToSet(FramesIn(esp'.q)) :
         \/ g \in Forth
         \/ esp.up /\ sess >= 1 /\ g.epoch = esp.ch.epoch /\ g.type # "OPEN"
  <2>1. ToSet(inHand') \subseteq {f} BY <1>14, <1>22, SetOne
  <2>2. FramesIn(esp'.q) = q2 BY <1>6, <1>9
  <2> QED BY <2>1, <2>2, <1>15, <1>16 DEF Forth
<1>25. esp'.up => esp.up /\ esp'.ch.epoch = esp.ch.epoch BY <1>9
<1>26. ToSet(toEsp') \subseteq ToSet(toEsp) BY <1>16
<1>27. PhoneOk' /\ DatesNow' BY <1>16, <1>23, <1>24, <1>25, <1>26, StepStays DEF phoneVars
<1>28. CASE send
  <2>1. (InSession(esp.ch) /\ f.epoch = esp.ch.epoch) \/ f.type \notin {"DATA", "ACK"}
    BY <1>5, <1>20, <1>21, <1>28 DEF Entry, Terminal
  <2>2. Proto(esp.ch, ph, toEsp, po, toPhone \o x, q2, used)
    BY <2>1, <1>13, <1>19, WorkerSends
  <2>3. ProtoNow' BY <2>2, <1>6, <1>9, <1>16, <1>18, <1>22, <1>28 DEF ProtoNow
  <2> QED BY <2>3, <1>2, <1>11, <1>23, <1>27 DEF IInv
<1>29. CASE ~send
  <2>1. ~InSession(esp.ch) \/ f.epoch # esp.ch.epoch BY <1>20, <1>21, <1>29
  <2>2. Proto(esp.ch, ph, toEsp, po, toPhone, q2, used) BY <2>1, <1>13, <1>19, WorkerDrops
  <2>3. toPhone' \o inHand' = toPhone BY <1>16, <1>22, <1>29, Unit
  <2>4. ProtoNow' BY <2>2, <2>3, <1>6, <1>9, <1>16, <1>18 DEF ProtoNow
  <2> QED BY <2>4, <1>2, <1>11, <1>23, <1>27 DEF IInv
<1> QED BY <1>28, <1>29

\* WorkerNotify keeps the invariant.
LEMMA WorkerNotifyStep == ASSUME IInv, WorkerNotify PROVE IInv'
<1> USE Facts
<1>1. /\ inHand' = <<>>
      /\ toPhone' = IF esp.up /\ phoneUp THEN toPhone \o inHand ELSE toPhone
      /\ UNCHANGED <<esp, client, writer, toEsp, phoneVars, link, sess, phase, written, fetched>>
  BY DEF WorkerNotify, Nothing, history
<1>2. Callers' BY <1>1, SameCalls
<1>3. EspNow' BY <1>1 DEF IInv, EspNow
<1>4. toPhone' \in Seq(Frames) BY <1>1
<1>5. Wires' BY <1>1, <1>4 DEF IInv, Wires
<1>6. ToSet(toPhone') \subseteq ToSet(toPhone) \cup ToSet(inHand) /\ ToSet(inHand') = {}
  BY <1>1, SetConcat, SetOne
<1>7. \A g \in ToSet(toPhone') \cup ToSet(inHand') \cup ToSet(FramesIn(esp'.q)) :
        \/ g \in Forth
        \/ esp.up /\ sess >= 1 /\ g.epoch = esp.ch.epoch /\ g.type # "OPEN"
  BY <1>1, <1>6 DEF Forth
<1>8. PhoneOk' /\ DatesNow' BY <1>1, <1>5, <1>7, StepStays
<1>9. PICK po \in Seq(Frames) : po = FramesIn(pq) OBVIOUS
<1>10. PICK qu \in Seq(Frames) : qu = FramesIn(esp.q) OBVIOUS
<1>11. Proto(esp.ch, ph, toEsp, po, toPhone \o inHand, qu, used)
  BY <1>9, <1>10 DEF IInv, ProtoNow
<1>12. toPhone' \o inHand' = toPhone' BY <1>1, <1>4, Unit
<1>13. Proto(esp.ch, ph, toEsp, po, toPhone', qu, used)
  <2>1. CASE esp.up /\ phoneUp BY <2>1, <1>1, <1>11
  <2>2. CASE ~(esp.up /\ phoneUp)
    <3>1. ~Met(esp.ch, ph)
      <4>1. CASE ~esp.up
        <5>1. ~InSession(esp.ch) BY <4>1 DEF IInv, EspNow, EspOk
        <5> QED BY <5>1 DEF InSession, Met, Streaming
      <4>2. CASE ~phoneUp
        <5>1. ph.st = "closed" BY <4>2 DEF IInv, PhoneOk
        <5> QED BY <5>1 DEF Met, Live
      <4> QED BY <2>2, <4>1, <4>2
    <3>2. Proto(esp.ch, ph, toEsp, po, toPhone, qu, used) BY <3>1, <1>11, AirLoses
    <3> QED BY <3>2, <2>2, <1>1
  <2> QED BY <2>1, <2>2
<1>14. /\ esp' = esp /\ toEsp' = toEsp /\ used' = used /\ ph' = ph /\ pq' = pq
  BY <1>1 DEF phoneVars
<1>15. ProtoNow' BY <1>9, <1>10, <1>12, <1>13, <1>14 DEF ProtoNow
<1> QED BY <1>2, <1>3, <1>5, <1>8, <1>15 DEF IInv

\* The recorder takes a frame and stays in its session.
LEMMA StepHears ==
  ASSUME IInv, EspOk(esp', sess), esp'.q = esp.q,
         esp'.up => esp.up /\ esp'.ch.epoch = esp.ch.epoch,
         UNCHANGED <<client, writer, inHand, toPhone, phoneVars, link, sess, phase, written, fetched>>,
         toEsp' \in Seq(Frames), ToSet(toEsp') \subseteq ToSet(toEsp),
         Proto(esp'.ch, ph, toEsp', FramesIn(pq), toPhone \o inHand, FramesIn(esp.q), used)
  PROVE  IInv'
<1>1. Callers' BY SameCalls
<1>2. EspNow' BY DEF EspNow
<1>3. Wires' BY DEF IInv, Wires
<1>4. \A g \in ToSet(toPhone') \cup ToSet(inHand') \cup ToSet(FramesIn(esp'.q)) :
        \/ g \in Forth
        \/ esp.up /\ sess >= 1 /\ g.epoch = esp.ch.epoch /\ g.type # "OPEN"
  BY DEF Forth
<1>5. PhoneOk' /\ DatesNow' BY <1>3, <1>4, StepStays
<1>6. ph' = ph /\ pq' = pq /\ used' = used BY DEF phoneVars
<1>7. ProtoNow' BY <1>6 DEF ProtoNow
<1> QED BY <1>1, <1>2, <1>3, <1>5, <1>7 DEF IInv

\* The channel after a legal frame.
LEMMA ReceivedOk ==
  ASSUME IInv, InSession(esp.ch), NEW c2 \in EspChannels, InSession(c2), EspLocal(c2),
         c2.epoch = esp.ch.epoch, c2.gen = esp.ch.gen, NEW e2, e2 = [esp EXCEPT !.ch = c2]
  PROVE  EspOk(e2, sess) /\ e2.q = esp.q /\ e2.up = esp.up /\ e2.ch = c2
<1> USE Facts
<1>1. e2 \in EspStates /\ e2.up = esp.up /\ e2.q = esp.q /\ e2.ch = c2 BY DEF EspStates
<1>2. sess >= 1 /\ (~esp.up => FALSE) BY DEF IInv, EspNow, EspOk, InSession
<1>3. \A x \in ToSet(esp.q) :
        /\ Entry(x, esp.ch)
        /\ (InSession(esp.ch) /\ x.frame.epoch = esp.ch.epoch) => x.gen = esp.ch.gen
  BY DEF IInv, EspNow, EspOk
<1>4. \A x \in ToSet(e2.q) :
        /\ Entry(x, c2) /\ (x.frame.epoch = c2.epoch => x.gen = c2.gen)
  BY <1>1, <1>3 DEF Entry
<1> QED BY <1>1, <1>2, <1>4 DEF EspOk

\* A slot that a frame fills.
LEMMA SlotOf ==
  ASSUME NEW f \in Frames, NEW c \in EspChannels, f.seq = c.expected
  PROVE  \E y \in Slots : y = [seq |-> f.seq, data |-> f.data] /\ y.seq = f.seq
<1>1. f.data \in Seq(Bytes) /\ f.seq \in SeqNo BY EspFields DEF Frames
<1>2. PICK y : y = [seq |-> f.seq, data |-> f.data] OBVIOUS
<1>3. y \in Slots /\ y.seq = f.seq BY <1>1, <1>2 DEF Slots
<1> QED BY <1>2, <1>3

\* RxWindow::push: what it leaves.
LEMMA PushTypes ==
  ASSUME NEW c \in EspChannels, EspLocal(c), c.state = "Open", Len(c.rx) < Window,
         NEW f \in Frames, f.seq = c.expected, NEW c2, c2 = Push(c, f)
  PROVE  /\ c2 \in EspChannels /\ c2.state = "Open" /\ c2.epoch = c.epoch
         /\ c2.oldest = c.oldest /\ c2.expected = NextSeq(c.expected)
         /\ c2.count = c.count /\ c2.gen = c.gen /\ EspLocal(c2)
         /\ \E y \in Slots : y.seq = f.seq /\ c2.rx = Append(c.rx, y)
<1>9. PICK y \in Slots : y = [seq |-> f.seq, data |-> f.data] /\ y.seq = f.seq BY SlotOf
<1>1. PICK m \in SeqNo : m = NextSeq(c.expected) BY EspFields, SeqSmall
<1>2. PICK rx \in Seq(Slots) : rx = c.rx BY EspFields
<1>3. Append(rx, y) \in Seq(Slots) /\ Len(Append(rx, y)) = Len(rx) + 1 /\ Len(rx) \in Nat
  OBVIOUS
<1>4. PICK rx2 \in Seq(Slots) : rx2 = Append(rx, y) BY <1>3
<1>5. c2 = [c EXCEPT !.expected = m, !.rx = rx2] BY <1>1, <1>2, <1>4, <1>9 DEF Push
<1>6. /\ c2 \in EspChannels /\ c2.state = "Open" /\ c2.epoch = c.epoch
      /\ c2.oldest = c.oldest /\ c2.expected = m /\ c2.next = c.next
      /\ c2.count = c.count /\ c2.rx = rx2 /\ c2.gen = c.gen
  BY <1>5 DEF EspChannels
<1>7. Len(rx2) <= Window BY <1>2, <1>3, <1>4, RelayAssumption
<1>8. EspLocal(c2) BY <1>6, <1>7 DEF InSession, EspLocal
<1> QED BY <1>1, <1>2, <1>4, <1>6, <1>8, <1>9

\* TxWindow::acknowledge: what it leaves.
LEMMA AcknowledgeTypes ==
  ASSUME NEW c \in EspChannels, EspLocal(c), c.state = "Open", c.count > 0,
         NEW c2, c2 = Acknowledge(c)
  PROVE  /\ c2 \in EspChannels /\ c2.state = "Open" /\ c2.epoch = c.epoch
         /\ c2.oldest = NextSeq(c.oldest) /\ c2.expected = c.expected
         /\ c2.count = c.count - 1 /\ c2.rx = c.rx /\ c2.gen = c.gen
         /\ EspLocal(c2)
<1>1. PICK m \in SeqNo : m = NextSeq(c.oldest) BY EspFields, SeqSmall
<1>2. c.oldest \in Nat /\ c.count \in Nat /\ c.count <= Window
  BY EspFields, RelayAssumption DEF SeqNo
<1>3. PICK n \in Nat : c.count = n + 1 BY <1>2
<1>4. n \in 0..Window /\ n = c.count - 1 BY <1>2, <1>3, RelayAssumption
<1>5. c2 = [c EXCEPT !.oldest = m, !.count = n] BY <1>1, <1>4 DEF Acknowledge
<1>6. /\ c2 \in EspChannels /\ c2.state = "Open" /\ c2.epoch = c.epoch
      /\ c2.oldest = m /\ c2.expected = c.expected /\ c2.next = c.next
      /\ c2.count = n /\ c2.rx = c.rx /\ c2.gen = c.gen
  BY <1>4, <1>5 DEF EspChannels
<1>7. c.next = (m + n) % SeqNos
  <2>1. PICK o \in Nat : o = c.oldest BY <1>2
  <2>2. c.next = (o + (n + 1)) % SeqNos BY <2>1, <1>3 DEF EspLocal, InSession
  <2>3. PICK a \in Int : a = o + 1 OBVIOUS
  <2>4. (a + n) % SeqNos = ((a % SeqNos) + n) % SeqNos BY SeqSum
  <2>5. m = a % SeqNos BY <1>1, <2>1, <2>3 DEF NextSeq
  <2>6. o + (n + 1) = a + n BY <2>3
  <2> QED BY <2>2, <2>4, <2>5, <2>6
<1>8. EspLocal(c2) BY <1>6, <1>7 DEF InSession, EspLocal
<1> QED BY <1>1, <1>4, <1>6, <1>8

\* EspHearsData for the slot that Push makes.
LEMMA HearsData ==
  ASSUME NEW c \in EspChannels, NEW c2 \in EspChannels, NEW p \in PhChannels,
         NEW te \in Seq(Frames), NEW po \in Seq(Frames),
         NEW air \in Seq(Frames), NEW qu \in Seq(Frames), NEW u, NEW f \in Frames,
         NEW y \in Slots, y.seq = f.seq,
         InSession(c), Of(f, "DATA", c.epoch),
         c2.state = "Open", c2.epoch = c.epoch, c2.oldest = c.oldest,
         c2.expected = NextSeq(c.expected), c2.count = c.count,
         c2.rx = Append(c.rx, y),
         Proto(c, p, <<f>> \o te, po, air, qu, u)
  PROVE  Proto(c2, p, te, po, air, qu, u)
BY EspHearsData

\* EspReceive keeps the invariant.
LEMMA EspReceiveStep == ASSUME IInv, EspReceive PROVE IInv'
<1> USE Facts
<1>1. /\ toEsp # <<>> /\ toEsp' = Tail(toEsp)
      /\ UNCHANGED <<client, writer, inHand, toPhone, phoneVars, link, sess, phase, written, fetched>>
  BY DEF EspReceive, history
<1>2. PICK f \in Frames : f = Head(toEsp) BY <1>1, HeadTail
<1>3. PICK te \in Seq(Frames) : te = Tail(toEsp) BY <1>1, HeadTail
<1>4. toEsp = <<f>> \o te BY <1>1, <1>2, <1>3, HeadTail
<1>5. <<f>> \in Seq(Frames) BY AppendSet
<1>6. PICK x \in Seq(Frames) : x = <<f>> BY <1>5
<1>7. toEsp' = te /\ toEsp = x \o toEsp' BY <1>1, <1>3, <1>4, <1>6
<1>8. ToSet(toEsp) = ToSet(x) \cup ToSet(te) BY <1>4, <1>6, SetConcat
<1>9. PICK po \in Seq(Frames) : po = FramesIn(pq) OBVIOUS
<1>10. PICK qu \in Seq(Frames) : qu = FramesIn(esp.q) OBVIOUS
<1>11. PICK air \in Seq(Frames) : air = toPhone \o inHand OBVIOUS
<1>12. Proto(esp.ch, ph, <<f>> \o te, po, air, qu, used)
  BY <1>4, <1>9, <1>10, <1>11 DEF IInv, ProtoNow
<1>13. Callers' BY <1>1, SameCalls
<1>14. ASSUME Derived(esp, esp'), ~InSession(esp'.ch) PROVE IInv'
  <2>1. UNCHANGED <<inHand, toPhone, phoneVars, sess>> BY <1>1
  <2>2. toEsp' \in Seq(Frames) BY <1>7
  <2>3. EspNow' /\ Wires' /\ PhoneOk' /\ DatesNow' /\ ProtoNow'
    BY <2>1, <2>2, <1>7, <1>14, StepLeaves
  <2> QED BY <2>3, <1>13 DEF IInv
<1>15. ASSUME NEW c2 \in EspChannels, InSession(esp.ch), InSession(c2), EspLocal(c2),
              c2.epoch = esp.ch.epoch, c2.gen = esp.ch.gen, esp' = [esp EXCEPT !.ch = c2],
              Proto(c2, ph, te, po, air, qu, used)
       PROVE  IInv'
  <2>1. PICK e2 : e2 = esp' OBVIOUS
  <2>2. EspOk(e2, sess) /\ e2.q = esp.q /\ e2.up = esp.up /\ e2.ch = c2
    BY <2>1, <1>15, ReceivedOk
  <2>3. Proto(e2.ch, ph, te, FramesIn(pq), toPhone \o inHand, FramesIn(esp.q), used)
    BY <2>2, <1>9, <1>10, <1>11, <1>15
  <2>4. /\ EspOk(esp', sess) /\ esp'.q = esp.q
        /\ esp'.up => esp.up /\ esp'.ch.epoch = esp.ch.epoch
        /\ toEsp' \in Seq(Frames) /\ ToSet(toEsp') \subseteq ToSet(toEsp)
        /\ Proto(esp'.ch, ph, toEsp', FramesIn(pq), toPhone \o inHand, FramesIn(esp.q), used)
    BY <2>1, <2>2, <2>3, <1>7, <1>8, <1>15
  <2> QED BY <2>4, <1>1, StepHears
<1>16. CASE ~esp.up
  <2>1. esp' = FailLink(esp) BY <1>16 DEF EspReceive
  <2>2. Derived(esp, esp') /\ ~InSession(esp'.ch) BY <2>1, DerivedFail
  <2> QED BY <2>2, <1>14
<1>17. CASE esp.up /\ (f.epoch # esp.ch.epoch \/ esp.ch.state \in {"Idle", "Aborted"})
  <2>1. esp' = esp BY <1>2, <1>17 DEF EspReceive
  <2>2. ~InSession(esp.ch) \/ f.epoch # esp.ch.epoch BY <1>17 DEF InSession
  <2>3. Proto(esp.ch, ph, te, po, air, qu, used) BY <2>2, <1>12, EspSkips
  <2>4. /\ EspOk(esp', sess) /\ esp'.q = esp.q
        /\ esp'.up => esp.up /\ esp'.ch.epoch = esp.ch.epoch
        /\ toEsp' \in Seq(Frames) /\ ToSet(toEsp') \subseteq ToSet(toEsp)
        /\ Proto(esp'.ch, ph, toEsp', FramesIn(pq), toPhone \o inHand, FramesIn(esp.q), used)
    BY <2>1, <2>3, <1>7, <1>8, <1>9, <1>10, <1>11 DEF IInv, EspNow
  <2> QED BY <2>4, <1>1, StepHears
<1>18. CASE esp.up /\ f.epoch = esp.ch.epoch /\ esp.ch.state \notin {"Idle", "Aborted"}
  <2>1. InSession(esp.ch) /\ sess >= 1
    BY <1>18 DEF InSession, EspChannels, IInv, EspNow, EspOk
  <2>2. CASE f.type = "ERROR"
    <3>1. esp' = [esp EXCEPT !.ch = Abort(@)] BY <1>2, <1>18, <2>2 DEF EspReceive
    <3>2. Derived(esp, esp') /\ ~InSession(esp'.ch) BY <3>1, <2>1, DerivedAbort
    <3> QED BY <3>2, <1>14
  <2>3. CASE f.type # "ERROR" /\ ~Acceptable(esp.ch, f)
    <3>1. esp' = AbortChannel([esp EXCEPT !.ch = Abort(@)]) BY <1>2, <1>18, <2>3 DEF EspReceive
    <3>2. PICK a : a = [esp EXCEPT !.ch = Abort(@)] OBVIOUS
    <3>3. Derived(esp, a) BY <3>2, <2>1, DerivedAbort
    <3>4. Derived(esp, esp') /\ ~InSession(esp'.ch) BY <3>1, <3>2, <3>3, DerivedAbortChannel
    <3> QED BY <3>4, <1>14
  <2>4. CASE f.type # "ERROR" /\ Acceptable(esp.ch, f)
    <3>1. esp' = [esp EXCEPT !.ch = Received(@, f)] BY <1>2, <1>18, <2>4 DEF EspReceive
    <3>2. CASE f.type = "OPENED"
      <4>1. esp.ch.state = "Opening" BY <3>2, <2>4 DEF Acceptable
      <4>2. PICK c2 : c2 = [esp.ch EXCEPT !.state = "Open"] OBVIOUS
      <4>3. esp' = [esp EXCEPT !.ch = c2] BY <3>1, <3>2, <4>2 DEF Received
      <4>4. /\ c2 \in EspChannels /\ c2.state = "Open" /\ c2.epoch = esp.ch.epoch
            /\ c2.oldest = esp.ch.oldest /\ c2.expected = esp.ch.expected /\ c2.next = esp.ch.next
            /\ c2.count = esp.ch.count /\ c2.rx = esp.ch.rx /\ c2.gen = esp.ch.gen
        BY <4>2 DEF EspChannels
      <4>5. InSession(c2) /\ EspLocal(c2) BY <4>4, <2>1 DEF InSession, EspLocal
      <4>6. Of(f, "OPENED", esp.ch.epoch) BY <3>2, <1>18 DEF Of
      <4>7. Proto(c2, ph, te, po, air, qu, used) BY <4>4, <4>6, <2>1, <1>12, EspHearsOpened
      <4> QED BY <4>3, <4>4, <4>5, <4>7, <2>1, <1>15
    <3>3. CASE f.type = "DATA"
      <4>1. esp.ch.state = "Open" /\ Len(esp.ch.rx) < Window /\ f.seq = esp.ch.expected
        BY <3>3, <2>4 DEF Acceptable
      <4>3. PICK c2 : c2 = Push(esp.ch, f) OBVIOUS
      <4>4. esp' = [esp EXCEPT !.ch = c2] BY <3>1, <3>3, <4>3 DEF Received
      <4>2. /\ c2 \in EspChannels /\ c2.state = "Open" /\ c2.epoch = esp.ch.epoch
            /\ c2.oldest = esp.ch.oldest /\ c2.expected = NextSeq(esp.ch.expected)
            /\ c2.count = esp.ch.count /\ c2.gen = esp.ch.gen /\ EspLocal(c2)
            /\ \E y \in Slots : y.seq = f.seq /\ c2.rx = Append(esp.ch.rx, y)
        BY <4>1, <4>3, PushTypes
      <4>5. PICK y \in Slots : y.seq = f.seq /\ c2.rx = Append(esp.ch.rx, y) BY <4>2
      <4>6. InSession(c2) BY <4>2 DEF InSession
      <4>7. Of(f, "DATA", esp.ch.epoch) BY <3>3, <1>18 DEF Of
      <4>8. Proto(c2, ph, te, po, air, qu, used)
        BY <4>2, <4>5, <4>7, <2>1, <1>12, HearsData
      <4> QED BY <4>2, <4>4, <4>6, <4>8, <2>1, <1>15
    <3>4. CASE f.type = "ACK"
      <4>1. esp.ch.state = "Open" /\ esp.ch.count > 0 /\ f.seq = esp.ch.oldest
        BY <3>4, <2>4 DEF Acceptable
      <4>2. PICK c2 : c2 = Acknowledge(esp.ch) OBVIOUS
      <4>3. esp' = [esp EXCEPT !.ch = c2] BY <3>1, <3>4, <4>2 DEF Received
      <4>4. /\ c2 \in EspChannels /\ c2.state = "Open" /\ c2.epoch = esp.ch.epoch
            /\ c2.oldest = NextSeq(esp.ch.oldest) /\ c2.expected = esp.ch.expected
            /\ c2.count = esp.ch.count - 1 /\ c2.rx = esp.ch.rx /\ c2.gen = esp.ch.gen
            /\ EspLocal(c2)
        BY <4>1, <4>2, AcknowledgeTypes
      <4>5. InSession(c2) BY <4>4 DEF InSession
      <4>6. Of(f, "ACK", esp.ch.epoch) BY <3>4, <1>18 DEF Of
      <4>7. Proto(c2, ph, te, po, air, qu, used)
        BY <4>4, <4>6, <2>1, <1>12, EspHearsAck
      <4> QED BY <4>3, <4>4, <4>5, <4>7, <2>1, <1>15
    <3>5. CASE f.type = "CLOSE"
      <4>1. esp.ch.state # "PeerClosed" /\ esp.ch.count = 0 BY <3>5, <2>4 DEF Acceptable
      <4>2. PICK c2 : c2 = [esp.ch EXCEPT !.state = "PeerClosed"] OBVIOUS
      <4>3. esp' = [esp EXCEPT !.ch = c2] BY <3>1, <3>5, <4>2 DEF Received
      <4>4. /\ c2 \in EspChannels /\ c2.state = "PeerClosed" /\ c2.epoch = esp.ch.epoch
            /\ c2.oldest = esp.ch.oldest /\ c2.expected = esp.ch.expected /\ c2.next = esp.ch.next
            /\ c2.count = esp.ch.count /\ c2.rx = esp.ch.rx /\ c2.gen = esp.ch.gen
        BY <4>2 DEF EspChannels
      <4>5. InSession(c2) /\ EspLocal(c2) BY <4>4, <2>1 DEF InSession, EspLocal
      <4>6. Of(f, "CLOSE", esp.ch.epoch) BY <3>5, <1>18 DEF Of
      <4>7. Proto(c2, ph, te, po, air, qu, used) BY <4>4, <4>6, <2>1, <1>12, EspHearsClose
      <4> QED BY <4>3, <4>4, <4>5, <4>7, <2>1, <1>15
    <3> QED BY <3>2, <3>3, <3>4, <3>5, <2>4 DEF Acceptable
  <2> QED BY <2>2, <2>3, <2>4
<1> QED BY <1>16, <1>17, <1>18

-----------------------------------------------------------------------------
(* The steps of the phone keep it.                                         *)

\* A step of the phone: what is left to show of it.
LEMMA PhoneStep ==
  ASSUME IInv, UNCHANGED <<espVars, link, sess, phase, written>>,
         fetched' \in [Sessions -> Nat],
         PhoneOk', ProtoNow', toPhone' \in Seq(Frames), toEsp' \in Seq(Frames),
         ToSet(toPhone') \subseteq ToSet(toPhone),
         \A f \in ToSet(toEsp') : f \in ToSet(toEsp) \/ \E o \in Ops : f = o.frame,
         \A o \in ToSet(pq') \cup ToSet(active') :
           o \in Ops \/ (ph'.sess # 0 /\ o.sess = ph'.sess /\ o.frame.epoch = ph'.epoch),
         \/ ph'.sess = ph.sess /\ ph'.epoch = ph.epoch
         \/ \E f \in Forth : f.type = "OPEN" /\ ph'.sess = f.seq /\ ph'.epoch = f.epoch,
         \A e \in used' : e \in used \/ \E f \in Forth : f.epoch = e
  PROVE  IInv'
<1>1. esp' = esp /\ client' = client /\ writer' = writer /\ inHand' = inHand
      /\ link' = link /\ sess' = sess /\ phase' = phase /\ written' = written
  BY DEF espVars
<1>2. EspNow' BY <1>1 DEF IInv, EspNow
<1>3. Callers' BY <1>1 DEF IInv, Callers
<1>4. Wires' BY <1>1 DEF IInv, Wires
<1>5. DatesNow'
  <2>1. PICK d \in 0..(EpochNos - 1) : Dates(d, sess, esp, Forth, ToSet(toEsp), Ops, ph, used)
    BY DEF IInv, DatesNow
  <2>2. PICK F2 : F2 = ToSet(toPhone') \cup ToSet(inHand) \cup ToSet(FramesIn(esp.q)) OBVIOUS
  <2>3. PICK B2 : B2 = ToSet(toEsp') OBVIOUS
  <2>4. PICK P2 : P2 = ToSet(pq') \cup ToSet(active') OBVIOUS
  <2>5. PICK p2 : p2 = ph' OBVIOUS
  <2>6. PICK u2 : u2 = used' OBVIOUS
  <2>7. d \in Nat /\ sess \in Nat BY Facts, RelayAssumption
  <2>8. \A f \in F2 : Sent(d, sess, f)
    <3>1. F2 \subseteq Forth BY <2>2 DEF Forth
    <3> QED BY <3>1, <2>1 DEF Dates
  <2>9. p2.sess # 0 => p2.sess \in 1..sess /\ p2.epoch = EpochOf(d, p2.sess)
    <3>1. CASE p2.sess = ph.sess /\ p2.epoch = ph.epoch BY <3>1, <2>1 DEF Dates
    <3>2. CASE \E f \in Forth : f.type = "OPEN" /\ p2.sess = f.seq /\ p2.epoch = f.epoch
      BY <3>2, <2>1 DEF Dates, Sent
    <3> QED BY <3>1, <3>2, <2>5
  <2>10. ASSUME NEW o \in P2 PROVE OpDated(d, sess, o)
    <3>1. CASE o \in Ops BY <3>1, <2>1 DEF Dates
    <3>2. CASE p2.sess # 0 /\ o.sess = p2.sess /\ o.frame.epoch = p2.epoch
      BY <3>2, <2>9 DEF OpDated
    <3> QED BY <3>1, <3>2, <2>4, <2>5, <2>10
  <2>11. ASSUME NEW f \in B2 PROVE f.epoch \in Past(d, sess)
    <3>1. CASE f \in ToSet(toEsp) BY <3>1, <2>1 DEF Dates
    <3>2. CASE \E o \in Ops : f = o.frame
      <4>1. PICK o \in Ops : f = o.frame BY <3>2
      <4>2. OpDated(d, sess, o) BY <4>1, <2>1 DEF Dates
      <4> QED BY <4>1, <4>2, <2>7, PastGrows DEF OpDated
    <3> QED BY <3>1, <3>2, <2>3, <2>11
  <2>12. u2 \subseteq Past(d, sess)
    <3> SUFFICES ASSUME NEW e \in u2 PROVE e \in Past(d, sess) OBVIOUS
    <3>1. CASE e \in used BY <3>1, <2>1 DEF Dates
    <3>2. CASE \E f \in Forth : f.epoch = e BY <3>2, <2>1 DEF Dates, Sent
    <3> QED BY <3>1, <3>2, <2>6
  <2>13. Dates(d, sess, esp, F2, B2, P2, p2, u2)
    BY <2>1, <2>8, <2>9, <2>10, <2>11, <2>12 DEF Dates
  <2>14. \E k \in 0..(EpochNos - 1) : Dates(k, sess, esp, F2, B2, P2, p2, u2) BY <2>13
  <2>15. Forth' = F2 /\ Ops' = P2 BY <1>1, <2>2, <2>4 DEF Forth, Ops
  <2> QED BY <2>14, <2>15, <2>3, <2>5, <2>6, <1>1 DEF DatesNow
<1> QED BY <1>2, <1>3, <1>4, <1>5 DEF IInv

\* A queued write of the channel p.
OpOf(o, p, type, n) ==
  /\ o.frame \in Frames /\ o.frame.type = type /\ o.frame.epoch = p.epoch
  /\ o.frame.seq = n /\ o.sess = p.sess /\ (o.terminal <=> type \in Terminal)

\* The queue with that write at its end.
Joins(q, q2, o) ==
  /\ q2 \in Seq(GattOps) /\ ToSet(q2) = ToSet(q) \cup {o}
  /\ FramesIn(q2) = FramesIn(q) \o <<o.frame>>

\* emit(): the queue gains one write of that channel.
LEMMA EmitOp ==
  ASSUME NEW q \in Seq(GattOps), NEW p \in PhChannels, NEW type \in FrameTypes, NEW n \in Nat,
         NEW d \in Seq(Bytes), NEW q2,
         \/ type \in Terminal /\ q2 = Emit(q, p, type, n, d, TRUE)
         \/ type \notin Terminal /\ q2 = Emit(q, p, type, n, d, FALSE)
  PROVE  \E o \in GattOps : OpOf(o, p, type, n) /\ Joins(q, q2, o)
<1>1. PICK e \in 0..(EpochNos - 1) : e = p.epoch BY DEF PhChannels
<1>2. PICK f \in Frames : f = Frame(type, e, n, d) BY FrameTypesOf
<1>3. f.type = type /\ f.epoch = e /\ f.seq = n BY <1>2, FrameTypesOf
<1>4. p.sess \in 0..MaxOpens BY DEF PhChannels
<1>0. PICK b \in BOOLEAN : (b <=> type \in Terminal) /\ q2 = Emit(q, p, type, n, d, b)
  OBVIOUS
<1>5. PICK o : o = [frame |-> f, sess |-> p.sess, terminal |-> b] OBVIOUS
<1>6. o \in GattOps /\ o.frame = f /\ o.sess = p.sess /\ (o.terminal <=> type \in Terminal)
  BY <1>0, <1>4, <1>5 DEF GattOps
<1>7. <<o>> \in Seq(GattOps) /\ FramesIn(<<o>>) = <<f>> BY <1>6, FramesInOne, ItemTypes
<1>8. PICK y \in Seq(GattOps) : y = <<o>> BY <1>7
<1>9. Append(q, o) = q \o y BY <1>6, <1>8
<1>10. q \o y \in Seq(GattOps) OBVIOUS
<1>14. ToSet(y) = {o} BY <1>8, SetOne
<1>15. ToSet(q \o y) = ToSet(q) \cup ToSet(y) BY SetConcat
<1>11. ToSet(q \o y) = ToSet(q) \cup {o} BY <1>14, <1>15
<1>12. FramesIn(q \o y) = FramesIn(q) \o <<f>> BY <1>7, <1>8, FramesInConcat, ItemTypes
<1>13. q2 = q \o y BY <1>0, <1>1, <1>2, <1>5, <1>9 DEF Emit
<1> QED BY <1>1, <1>3, <1>6, <1>10, <1>11, <1>12, <1>13 DEF OpOf, Joins

\* closeChannel: what it leaves.
LEMMA ClosedTypes ==
  ASSUME NEW p \in PhChannels, p.next = (p.oldest + p.count) % SeqNos
  PROVE  /\ Closed(p) \in PhChannels /\ Closed(p).st = "closed" /\ ~Live(Closed(p))
         /\ Closed(p).sess = p.sess /\ Closed(p).epoch = p.epoch /\ PhLocal(Closed(p))
<1>1. <<>> \in Seq(Bytes) /\ <<>> \in Seq(Frames) /\ 0 \in Nat OBVIOUS
<1>2. PICK c : c = Closed(p) OBVIOUS
<1>3. c = [p EXCEPT !.st = "closed", !.rx = <<>>, !.rd = "off", !.wr = "off",
                    !.held = <<>>, !.batch = 0]
  BY <1>2 DEF Closed
<1>4. c \in PhChannels BY <1>1, <1>3 DEF PhChannels
<1>5. /\ c.st = "closed" /\ c.rx = <<>> /\ c.rd = "off" /\ c.wr = "off" /\ c.held = <<>>
      /\ c.batch = 0 /\ c.sess = p.sess /\ c.epoch = p.epoch /\ c.next = p.next
      /\ c.oldest = p.oldest /\ c.count = p.count
  BY <1>3 DEF PhChannels
<1>6. Len(c.rx) = 0 BY <1>5
<1>7. PhLocal(c) BY <1>5, <1>6, RelayAssumption DEF PhLocal
<1>8. ~Live(c) BY <1>5 DEF Live
<1> QED BY <1>2, <1>4, <1>5, <1>7, <1>8

\* ReaderOk asks nothing of a channel that is not live.
LEMMA ReaderClosed ==
  ASSUME NEW p, ~Live(p), NEW P, NEW A, NEW u, \A o \in A : o.frame.epoch \in u
  PROVE  ReaderOk(p, P, A, u)
BY DEF ReaderOk

\* The phone closes a live channel and says so.
LEMMA PhoneClosesStep ==
  ASSUME IInv, phoneUp, Live(ph), NEW p \in PhChannels, p.epoch = ph.epoch, p.sess = ph.sess,
         p.next = (p.oldest + p.count) % SeqNos, ph' = Closed(p),
         NEW type \in Terminal, pq' = Emit(pq, p, type, 0, <<>>, TRUE),
         NEW x \in Seq(Frames), toPhone' \in Seq(Frames), toPhone = x \o toPhone',
         UNCHANGED <<espVars, toEsp, phoneUp, used, active, link, sess, phase, written, fetched>>
  PROVE  IInv'
<1>0. PICK tp \in Seq(Frames) : tp = toPhone' OBVIOUS
<1>1. inHand \in Seq(Frames) BY Facts
<1>2. (x \o tp) \o inHand = x \o (tp \o inHand) BY <1>1, FrameAssoc
<1>3. toPhone \o inHand = x \o (tp \o inHand) BY <1>0, <1>2
<1> USE Facts
<1>4. type \in FrameTypes /\ 0 \in Nat /\ <<>> \in Seq(Bytes) /\ TRUE \in BOOLEAN
  BY DEF Terminal, FrameTypes
<1>5. PICK o \in GattOps :
        /\ o.frame \in Frames /\ o.frame.type = type /\ o.frame.epoch = p.epoch
        /\ o.frame.seq = 0 /\ o.sess = p.sess /\ o.terminal = TRUE
        /\ pq' \in Seq(GattOps) /\ ToSet(pq') = ToSet(pq) \cup {o}
        /\ FramesIn(pq') = FramesIn(pq) \o <<o.frame>>
  <2>1. PICK z \in Seq(Bytes) : z = <<>> BY <1>4
  <2>2. PICK q2 : q2 = Emit(pq, p, type, 0, z, TRUE) OBVIOUS
  <2>3. PICK q \in Seq(GattOps) : q = pq OBVIOUS
  <2>8. PICK n \in Nat : n = 0 OBVIOUS
  <2>9. PICK ty \in FrameTypes : ty = type BY <1>4
  <2>4. ty \in Terminal /\ q2 = Emit(q, p, ty, n, z, TRUE) BY <2>2, <2>3, <2>8, <2>9
  <2>5. \E o \in GattOps : OpOf(o, p, ty, n) /\ Joins(q, q2, o)
    BY <2>4, EmitOp
  <2>6. pq' = q2 BY <2>1, <2>2
  <2> QED BY <2>3, <2>4, <2>5, <2>6, <2>8, <2>9 DEF OpOf, Joins
<1>6. PICK g \in Frames : g = o.frame BY <1>5
<1>7. PICK p2 \in PhChannels : p2 = Closed(p) BY ClosedTypes
<1>8. /\ p2.st = "closed" /\ ~Live(p2) /\ p2.sess = ph.sess /\ p2.epoch = ph.epoch
      /\ PhLocal(p2) /\ ph' = p2
  BY <1>7, ClosedTypes
<1>9. /\ inHand' = inHand /\ esp' = esp /\ toEsp' = toEsp /\ phoneUp' = phoneUp
      /\ used' = used /\ active' = active
  BY DEF espVars
<1>10. ph.sess # 0 BY DEF IInv, PhoneOk
<1>11. PhoneOk'
  <2>1. ReaderOk(p2, ToSet(pq'), ToSet(active), used)
    <3>1. \A a \in ToSet(active) : a.frame.epoch \in used BY DEF IInv, PhoneOk, ReaderOk
    <3> QED BY <3>1, <1>8, ReaderClosed
  <2>2. \A a \in ToSet(pq') : a.terminal <=> a.frame.type \in Terminal
    BY <1>5 DEF IInv, PhoneOk
  <2>3. p2.st # "none" BY <1>8
  <2>4. /\ phoneUp' \in BOOLEAN /\ used' \subseteq 0..(EpochNos - 1)
        /\ active' \in Seq(GattOps) /\ Len(active') <= 1 /\ phoneUp'
    BY <1>9 DEF IInv, PhoneOk
  <2>5. ph' \in PhChannels /\ PhLocal(ph') /\ ph'.st # "none" /\ ~Live(ph')
    BY <1>7, <1>8, <2>3
  <2>6. pq' \in Seq(GattOps) BY <1>5
  <2>7. ReaderOk(ph', ToSet(pq'), ToSet(active'), used') BY <2>1, <1>8, <1>9
  <2> HIDE Facts
  <2> QED BY <2>2, <2>4, <2>5, <2>6, <2>7 DEF PhoneOk
<1>12. ProtoNow'
  <2>1. PICK po \in Seq(Frames) : po = FramesIn(pq) OBVIOUS
  <2>2. PICK qu \in Seq(Frames) : qu = FramesIn(esp.q) OBVIOUS
  <2>13. tp \o inHand \in Seq(Frames) BY <1>1
  <2>3. PICK air \in Seq(Frames) : air = tp \o inHand BY <2>13
  <2>4. Proto(esp.ch, ph, toEsp, po, x \o air, qu, used)
    BY <2>1, <2>2, <2>3, <1>3 DEF IInv, ProtoNow
  <2>5. g.type \in Terminal /\ (Live(ph) /\ g.epoch = ph.epoch) BY <1>5, <1>6
  <2>6. p2.st # "ready" /\ used \subseteq used BY <1>8
  <2>7. Proto(esp.ch, p2, toEsp, po \o <<g>>, air, qu, used)
    BY <2>4, <2>5, <2>6, <1>8, PhoneCloses
  <2> QED BY <2>1, <2>2, <2>3, <2>7, <1>0, <1>5, <1>6, <1>8, <1>9 DEF ProtoNow
<1>13. ToSet(toPhone') \subseteq ToSet(toPhone)
  <2>1. toPhone = x \o tp BY <1>0
  <2>2. ToSet(toPhone) = ToSet(x) \cup ToSet(tp) BY <2>1, SetConcat
  <2> QED BY <2>2, <1>0
<1>14. \A a \in ToSet(pq') \cup ToSet(active') :
         a \in Ops \/ (ph'.sess # 0 /\ a.sess = ph'.sess /\ a.frame.epoch = ph'.epoch)
  BY <1>5, <1>8, <1>9, <1>10 DEF Ops
<1>15. /\ \A f \in ToSet(toEsp') : f \in ToSet(toEsp)
       /\ ph'.sess = ph.sess /\ ph'.epoch = ph.epoch
       /\ \A e \in used' : e \in used
       /\ toEsp' \in Seq(Frames) /\ fetched' \in [Sessions -> Nat]
  BY <1>8, <1>9 DEF IInv, Callers
<1> QED BY <1>9, <1>11, <1>12, <1>13, <1>14, <1>15, PhoneStep

\* A step of the phone that moves no frame.
LEMMA PhoneStillStep ==
  ASSUME IInv, phoneUp, NEW p \in PhChannels, ph' = p, PhLocal(p),
         p.st = ph.st, p.sess = ph.sess, p.epoch = ph.epoch, p.oldest = ph.oldest,
         p.expected = ph.expected, p.count = ph.count, p.rx = ph.rx,
         ReaderOk(p, ToSet(pq), ToSet(active'), used),
         active' = active \/ active' = <<>>,
         UNCHANGED <<espVars, airVars, phoneUp, used, pq, link, sess, phase, written>>,
         fetched' \in [Sessions -> Nat]
  PROVE  IInv'
<1> USE Facts
<1>1. /\ inHand' = inHand /\ esp' = esp /\ toEsp' = toEsp /\ toPhone' = toPhone
      /\ phoneUp' = phoneUp /\ used' = used /\ pq' = pq
  BY DEF espVars, airVars
<1>2. active' \in Seq(GattOps) /\ Len(active') <= 1 /\ ToSet(active') \subseteq ToSet(active)
  <2>1. CASE active' = active BY <2>1 DEF IInv, PhoneOk
  <2>2. CASE active' = <<>>
    <3>1. ToSet(active') = {} BY <2>2, SetOne
    <3>2. <<>> \in Seq(GattOps) /\ Len(<<>>) = 0 OBVIOUS
    <3> QED BY <3>1, <3>2, <2>2
  <2> QED BY <2>1, <2>2
<1>3. PhoneOk' BY <1>1, <1>2 DEF IInv, PhoneOk, Live
<1>4. ProtoNow'
  <2>1. PICK po \in Seq(Frames) : po = FramesIn(pq) OBVIOUS
  <2>2. PICK qu \in Seq(Frames) : qu = FramesIn(esp.q) OBVIOUS
  <2>3. PICK air \in Seq(Frames) : air = toPhone \o inHand OBVIOUS
  <2>4. Proto(esp.ch, ph, toEsp, po, air, qu, used) BY <2>1, <2>2, <2>3 DEF IInv, ProtoNow
  <2>5. Proto(esp.ch, p, toEsp, po, air, qu, used) BY <2>4, ProtoSame
  <2> QED BY <2>1, <2>2, <2>3, <2>5, <1>1 DEF ProtoNow
<1>5. /\ \A o \in ToSet(pq') \cup ToSet(active') : o \in Ops
      /\ \A f \in ToSet(toEsp') : f \in ToSet(toEsp)
      /\ \A e \in used' : e \in used
      /\ ToSet(toPhone') \subseteq ToSet(toPhone)
      /\ toEsp' \in Seq(Frames) /\ toPhone' \in Seq(Frames)
      /\ ph'.sess = ph.sess /\ ph'.epoch = ph.epoch
  BY <1>1, <1>2 DEF Ops
<1> QED BY <1>1, <1>3, <1>4, <1>5, PhoneStep

\* A live channel of the phone queues something of its own.
LEMMA PhoneQueueStep ==
  ASSUME IInv, phoneUp, NEW p \in PhChannels, ph' = p, PhLocal(p), Live(p), p.sess # 0,
         p.sess = ph.sess, p.epoch = ph.epoch, NEW q2 \in Seq(GattOps), pq' = q2,
         \A o \in ToSet(q2) :
           o \in ToSet(pq) \/ /\ o.sess = p.sess /\ o.frame.epoch = p.epoch
                              /\ (o.terminal <=> o.frame.type \in Terminal),
         ReaderOk(p, ToSet(q2), ToSet(active), used),
         Proto(esp.ch, p, toEsp, FramesIn(q2), toPhone \o inHand, FramesIn(esp.q), used),
         UNCHANGED <<espVars, airVars, phoneUp, used, active, link, sess, phase, written, fetched>>
  PROVE  IInv'
<1>1. /\ inHand' = inHand /\ esp' = esp /\ toEsp' = toEsp /\ toPhone' = toPhone
      /\ phoneUp' = phoneUp /\ used' = used /\ active' = active
  BY DEF espVars, airVars
<1>2. PhoneOk'
  <2>1. /\ phoneUp' \in BOOLEAN /\ used' \subseteq 0..(EpochNos - 1)
        /\ active' \in Seq(GattOps) /\ Len(active') <= 1 /\ phoneUp'
    BY <1>1 DEF IInv, PhoneOk
  <2>2. ph' \in PhChannels /\ PhLocal(ph') /\ ph'.st # "none" /\ ph'.sess # 0
    BY DEF Live
  <2>3. ReaderOk(ph', ToSet(pq'), ToSet(active'), used') BY <1>1
  <2>4. \A o \in ToSet(pq') : o.terminal <=> o.frame.type \in Terminal BY DEF IInv, PhoneOk
  <2> QED BY <2>1, <2>2, <2>3, <2>4 DEF PhoneOk
<1>3. ProtoNow' BY <1>1 DEF ProtoNow
<1>4. /\ toPhone' \in Seq(Frames) /\ toEsp' \in Seq(Frames) /\ fetched' \in [Sessions -> Nat]
      /\ ToSet(toPhone') \subseteq ToSet(toPhone)
      /\ \A f \in ToSet(toEsp') : f \in ToSet(toEsp)
      /\ \A e \in used' : e \in used
      /\ ph'.sess = ph.sess /\ ph'.epoch = ph.epoch
  BY <1>1 DEF IInv, Wires, Callers
<1>5. \A o \in ToSet(pq') \cup ToSet(active') :
        o \in Ops \/ (ph'.sess # 0 /\ o.sess = ph'.sess /\ o.frame.epoch = ph'.epoch)
  BY <1>1 DEF Ops
<1> QED BY <1>1, <1>2, <1>3, <1>4, <1>5, PhoneStep

\* Proto in this state, its sequences named.
LEMMA ProtoIs ==
  ASSUME IInv
  PROVE  \E po \in Seq(Frames), air \in Seq(Frames), qu \in Seq(Frames) :
           /\ po = FramesIn(pq) /\ air = toPhone \o inHand /\ qu = FramesIn(esp.q)
           /\ Proto(esp.ch, ph, toEsp, po, air, qu, used)
<1>1. PICK po \in Seq(Frames) : po = FramesIn(pq) BY Facts
<1>2. PICK qu \in Seq(Frames) : qu = FramesIn(esp.q) BY Facts
<1>3. PICK air \in Seq(Frames) : air = toPhone \o inHand BY Facts
<1> QED BY <1>1, <1>2, <1>3 DEF IInv, ProtoNow

\* The channel whose socket is ready.
LEMMA ConnectedTypes ==
  ASSUME NEW p \in PhChannels, PhLocal(p), p.st = "connecting"
  PROVE  \E r \in PhChannels :
           /\ r = [p EXCEPT !.st = "ready"] /\ PhLocal(r) /\ Live(r)
           /\ r.st = "ready" /\ r.sess = p.sess /\ r.epoch = p.epoch /\ r.count = p.count
           /\ r.oldest = p.oldest /\ r.expected = p.expected /\ r.rx = p.rx /\ r.rd = "off"
<1>1. PICK r : r = [p EXCEPT !.st = "ready"] OBVIOUS
<1>2. r \in PhChannels BY <1>1 DEF PhChannels
<1>3. /\ r.st = "ready" /\ r.sess = p.sess /\ r.epoch = p.epoch /\ r.count = p.count
      /\ r.oldest = p.oldest /\ r.expected = p.expected /\ r.rx = p.rx /\ r.rd = p.rd
      /\ r.wr = p.wr /\ r.held = p.held /\ r.next = p.next /\ r.batch = p.batch
  BY <1>1 DEF PhChannels
<1>4. p.rd = "off" /\ p.wr = "off" BY DEF PhLocal
<1>5. PhLocal(r) BY <1>3, <1>4 DEF PhLocal, Live
<1> QED BY <1>1, <1>2, <1>3, <1>4, <1>5 DEF Live

\* PhoneConnected keeps the invariant.
LEMMA ConnectedStep == ASSUME IInv, PhoneConnected PROVE IInv'
<1>1. /\ phoneUp /\ ph.st = "connecting" /\ ph' = [ph EXCEPT !.st = "ready"]
      /\ pq' = Emit(pq, ph, "OPENED", 0, <<>>, FALSE)
      /\ UNCHANGED <<espVars, airVars, phoneUp, used, active, link, sess, phase, written, fetched>>
  BY DEF PhoneConnected, history
<1>2. ph \in PhChannels /\ PhLocal(ph) /\ pq \in Seq(GattOps) /\ esp.ch \in EspChannels
      /\ toEsp \in Seq(Frames)
  BY Facts
<1>3. PICK p \in PhChannels : p = ph BY <1>2
<1>4. PICK r \in PhChannels :
           /\ r = [p EXCEPT !.st = "ready"] /\ PhLocal(r) /\ Live(r)
           /\ r.st = "ready" /\ r.sess = p.sess /\ r.epoch = p.epoch /\ r.count = p.count
           /\ r.oldest = p.oldest /\ r.expected = p.expected /\ r.rx = p.rx /\ r.rd = "off"
  BY <1>1, <1>2, <1>3, ConnectedTypes
<1>5. PICK q \in Seq(GattOps) : q = pq BY <1>2
<1>6. PICK q2 : q2 = pq' OBVIOUS
<1>7. PICK o \in GattOps : OpOf(o, p, "OPENED", 0) /\ Joins(q, q2, o)
  <2>1. <<>> \in Seq(Bytes) OBVIOUS
  <2>2. PICK z \in Seq(Bytes) : z = <<>> BY <2>1
  <2>3. PICK n \in Nat : n = 0 OBVIOUS
  <2>4. PICK ty \in FrameTypes : ty = "OPENED" BY DEF FrameTypes
  <2>5. ty \notin Terminal BY <2>4 DEF Terminal
  <2>6. q2 = Emit(q, p, ty, n, z, FALSE) BY <1>1, <1>3, <1>5, <1>6, <2>2, <2>3, <2>4
  <2>7. \E o \in GattOps : OpOf(o, p, ty, n) /\ Joins(q, q2, o) BY <2>5, <2>6, EmitOp
  <2> QED BY <2>3, <2>4, <2>7
<1>8. /\ q2 \in Seq(GattOps) /\ ToSet(q2) = ToSet(q) \cup {o}
      /\ FramesIn(q2) = FramesIn(q) \o <<o.frame>>
      /\ o.frame \in Frames /\ o.frame.type = "OPENED" /\ o.frame.epoch = p.epoch
      /\ o.sess = p.sess /\ ~o.terminal
  BY <1>7 DEF OpOf, Joins, Terminal
<1>9. Live(p) /\ p.sess # 0 BY <1>1, <1>3 DEF Live, IInv, PhoneOk
<1>10. ReaderOk(r, ToSet(q2), ToSet(active), used)
  <2>1. ReaderOk(p, ToSet(q), ToSet(active), used) BY <1>3, <1>5 DEF IInv, PhoneOk
  <2>2. ~\E a \in ToSet(q) \cup ToSet(active) : OpensMine(p, a)
    BY <1>1, <1>3, <1>9, <2>1 DEF ReaderOk
  <2>3. ~\E a \in ToSet(active) : OpensMine(r, a) BY <1>4, <2>2 DEF OpensMine
  <2> QED BY <1>4, <2>1, <2>3 DEF ReaderOk
<1>11. Proto(esp.ch, r, toEsp, FramesIn(q2), toPhone \o inHand, FramesIn(esp.q), used)
  <2>1. PICK po \in Seq(Frames), air \in Seq(Frames), qu \in Seq(Frames) :
           /\ po = FramesIn(pq) /\ air = toPhone \o inHand /\ qu = FramesIn(esp.q)
           /\ Proto(esp.ch, ph, toEsp, po, air, qu, used)
    BY ProtoIs
  <2>2. PICK g \in Frames : g = o.frame BY <1>8
  <2>3. Of(g, "OPENED", p.epoch) BY <1>8, <2>2 DEF Of
  <2>4. Proto(esp.ch, p, toEsp, po, air, qu, used) BY <2>1, <1>3
  <2>5. p.st = "connecting" BY <1>1, <1>3
  <2>6. PICK te \in Seq(Frames) : te = toEsp BY <1>2
  <2>7. PICK c \in EspChannels : c = esp.ch BY <1>2
  <2>8. Proto(c, p, te, po, air, qu, used) BY <2>4, <2>6, <2>7
  <2>9. Proto(c, r, te, po \o <<g>>, air, qu, used)
    BY <2>3, <2>5, <2>8, <1>4, PhoneConnects
  <2> QED BY <2>1, <2>2, <2>6, <2>7, <2>9, <1>5, <1>8
<1>12. \A a \in ToSet(q2) :
         a \in ToSet(pq) \/ /\ a.sess = r.sess /\ a.frame.epoch = r.epoch
                            /\ (a.terminal <=> a.frame.type \in Terminal)
  BY <1>4, <1>5, <1>8 DEF Terminal
<1>13. /\ ph' = r /\ PhLocal(r) /\ Live(r) /\ r.sess # 0 /\ r.sess = ph.sess
       /\ r.epoch = ph.epoch /\ pq' = q2 /\ q2 \in Seq(GattOps) /\ phoneUp
  BY <1>1, <1>3, <1>4, <1>6, <1>8, <1>9
<1>14. UNCHANGED <<espVars, airVars, phoneUp, used, active, link, sess, phase, written, fetched>>
  BY <1>1
<1> QED BY <1>10, <1>11, <1>12, <1>13, <1>14, PhoneQueueStep

\* A worker is at work: the channel is ready.
LEMMA WorkersReady ==
  ASSUME NEW p \in PhChannels, PhLocal(p), p.rd # "off" \/ p.wr # "off"
  PROVE  p.st = "ready" /\ Live(p)
BY DEF PhLocal, Live, PhChannels

\* SendWindow.reserve: what it leaves.
LEMMA EmittedTypes ==
  ASSUME NEW p \in PhChannels, PhLocal(p), p.rd = "hold"
  PROVE  \E r \in PhChannels :
           /\ r = [p EXCEPT !.next = NextSeq(@), !.count = @ + 1, !.rd = "gate", !.held = <<>>]
           /\ PhLocal(r) /\ r.st = "ready" /\ r.sess = p.sess /\ r.epoch = p.epoch
           /\ r.count = p.count + 1 /\ r.oldest = p.oldest /\ r.expected = p.expected
           /\ r.rx = p.rx
<1>1. p.next \in SeqNo /\ p.oldest \in Nat /\ p.count \in Nat /\ p.count < Window
  BY PhFields DEF SeqNo, PhLocal
<1>2. PICK m \in SeqNo : m = NextSeq(p.next) BY <1>1, SeqSmall
<1>3. PICK n \in 0..Window : n = p.count + 1 BY <1>1, RelayAssumption
<1>4. <<>> \in Seq(Bytes) OBVIOUS
<1>5. PICK r : r = [p EXCEPT !.next = m, !.count = n, !.rd = "gate", !.held = <<>>] OBVIOUS
<1>6. r \in PhChannels BY <1>4, <1>5 DEF PhChannels
<1>7. /\ r.st = p.st /\ r.sess = p.sess /\ r.epoch = p.epoch /\ r.count = n
      /\ r.oldest = p.oldest /\ r.expected = p.expected /\ r.rx = p.rx /\ r.rd = "gate"
      /\ r.wr = p.wr /\ r.held = <<>> /\ r.next = m /\ r.batch = p.batch
  BY <1>5 DEF PhChannels
<1>8. p.st = "ready" BY WorkersReady
<1>9. m = (p.oldest + n) % SeqNos
  <2>1. PICK a \in Int : a = p.oldest + p.count BY <1>1
  <2>2. p.next = a % SeqNos BY <2>1 DEF PhLocal
  <2>3. (a + 1) % SeqNos = ((a % SeqNos) + 1) % SeqNos BY SeqSum
  <2>4. p.oldest + n = a + 1 BY <1>1, <1>3, <2>1
  <2> QED BY <1>2, <2>2, <2>3, <2>4 DEF NextSeq
<1>10. PhLocal(r)
  <2>1. r.st = "ready" /\ Live(r) BY <1>7, <1>8 DEF Live
  <2>2. r.wr \in {"write", "ack"} => r.batch \in 1..Len(r.rx) BY <1>7 DEF PhLocal
  <2>3. Len(r.rx) <= Window BY <1>7 DEF PhLocal
  <2> QED BY <2>1, <2>2, <2>3, <1>7, <1>9 DEF PhLocal
<1> QED BY <1>2, <1>3, <1>5, <1>6, <1>7, <1>8, <1>10

\* ReaderEmit keeps the invariant.
LEMMA ReaderEmitStep == ASSUME IInv, ReaderEmit PROVE IInv'
<1>1. /\ phoneUp /\ ph.rd = "hold"
      /\ pq' = Emit(pq, ph, "DATA", ph.next, ph.held, FALSE)
      /\ ph' = [ph EXCEPT !.next = NextSeq(@), !.count = @ + 1, !.rd = "gate", !.held = <<>>]
      /\ UNCHANGED <<espVars, airVars, phoneUp, used, active, link, sess, phase, written, fetched>>
  BY DEF ReaderEmit, history
<1>2. ph \in PhChannels /\ PhLocal(ph) /\ pq \in Seq(GattOps) /\ esp.ch \in EspChannels
      /\ toEsp \in Seq(Frames)
  BY Facts
<1>3. PICK p \in PhChannels : p = ph BY <1>2
<1>4. PICK r \in PhChannels :
           /\ r = [p EXCEPT !.next = NextSeq(@), !.count = @ + 1, !.rd = "gate", !.held = <<>>]
           /\ PhLocal(r) /\ r.st = "ready" /\ r.sess = p.sess /\ r.epoch = p.epoch
           /\ r.count = p.count + 1 /\ r.oldest = p.oldest /\ r.expected = p.expected
           /\ r.rx = p.rx
  BY <1>1, <1>2, <1>3, EmittedTypes
<1>5. PICK q \in Seq(GattOps) : q = pq BY <1>2
<1>6. PICK q2 : q2 = pq' OBVIOUS
<1>7. PICK o \in GattOps : OpOf(o, p, "DATA", p.next) /\ Joins(q, q2, o)
  <2>1. p.held \in Seq(Bytes) /\ p.next \in Nat BY PhFields DEF PhChannels, SeqNo
  <2>2. PICK z \in Seq(Bytes) : z = p.held BY <2>1
  <2>3. PICK n \in Nat : n = p.next BY <2>1
  <2>4. PICK ty \in FrameTypes : ty = "DATA" BY DEF FrameTypes
  <2>5. ty \notin Terminal BY <2>4 DEF Terminal
  <2>6. q2 = Emit(q, p, ty, n, z, FALSE) BY <1>1, <1>3, <1>5, <1>6, <2>2, <2>3, <2>4
  <2>7. \E o \in GattOps : OpOf(o, p, ty, n) /\ Joins(q, q2, o) BY <2>5, <2>6, EmitOp
  <2> QED BY <2>3, <2>4, <2>7
<1>8. /\ q2 \in Seq(GattOps) /\ ToSet(q2) = ToSet(q) \cup {o}
      /\ FramesIn(q2) = FramesIn(q) \o <<o.frame>>
      /\ o.frame \in Frames /\ o.frame.type = "DATA" /\ o.frame.epoch = p.epoch
      /\ o.frame.seq = p.next /\ o.sess = p.sess /\ ~o.terminal
  BY <1>7 DEF OpOf, Joins, Terminal
<1>9. p.st = "ready" /\ Live(p) /\ Live(r) /\ p.sess # 0
  <2>1. p.st = "ready" /\ Live(p) BY <1>1, <1>2, <1>3, WorkersReady
  <2> QED BY <2>1, <1>3, <1>4 DEF Live, IInv, PhoneOk
<1>10. ReaderOk(r, ToSet(q2), ToSet(active), used)
  <2>1. ReaderOk(p, ToSet(q), ToSet(active), used) BY <1>3, <1>5 DEF IInv, PhoneOk
  <2>2. ~\E a \in ToSet(q) \cup ToSet(active) : OpensMine(p, a)
    BY <1>1, <1>3, <1>9, <2>1 DEF ReaderOk
  <2>3. ~OpensMine(r, o) BY <1>8 DEF OpensMine
  <2>4. ~\E a \in ToSet(q2) \cup ToSet(active) : OpensMine(r, a)
    BY <1>4, <1>8, <2>2, <2>3 DEF OpensMine
  <2> QED BY <2>1, <2>4 DEF ReaderOk
<1>11. Proto(esp.ch, r, toEsp, FramesIn(q2), toPhone \o inHand, FramesIn(esp.q), used)
  <2>1. PICK po \in Seq(Frames), air \in Seq(Frames), qu \in Seq(Frames) :
           /\ po = FramesIn(pq) /\ air = toPhone \o inHand /\ qu = FramesIn(esp.q)
           /\ Proto(esp.ch, ph, toEsp, po, air, qu, used)
    BY ProtoIs
  <2>2. PICK g \in Frames : g = o.frame BY <1>8
  <2>3. Of(g, "DATA", p.epoch) BY <1>8, <2>2 DEF Of
  <2>5. g.seq = (p.oldest + p.count) % SeqNos BY <1>2, <1>3, <1>8, <2>2 DEF PhLocal
  <2>6. PICK te \in Seq(Frames) : te = toEsp BY <1>2
  <2>7. PICK c \in EspChannels : c = esp.ch BY <1>2
  <2>8. Proto(c, p, te, po, air, qu, used) BY <2>1, <2>6, <2>7, <1>3
  <2>9. Proto(c, r, te, po \o <<g>>, air, qu, used)
    BY <2>3, <2>5, <2>8, <1>4, <1>9, PhoneSends
  <2> QED BY <2>1, <2>2, <2>6, <2>7, <2>9, <1>5, <1>8
<1>12. \A a \in ToSet(q2) :
         a \in ToSet(pq) \/ /\ a.sess = r.sess /\ a.frame.epoch = r.epoch
                            /\ (a.terminal <=> a.frame.type \in Terminal)
  BY <1>4, <1>5, <1>8 DEF Terminal
<1>13. /\ ph' = r /\ PhLocal(r) /\ Live(r) /\ r.sess # 0 /\ r.sess = ph.sess
       /\ r.epoch = ph.epoch /\ pq' = q2 /\ q2 \in Seq(GattOps) /\ phoneUp
  BY <1>1, <1>3, <1>4, <1>6, <1>8, <1>9
<1>14. UNCHANGED <<espVars, airVars, phoneUp, used, active, link, sess, phase, written, fetched>>
  BY <1>1
<1> QED BY <1>10, <1>11, <1>12, <1>13, <1>14, PhoneQueueStep

\* The channel whose batch is acknowledged.
LEMMA AckedTypes ==
  ASSUME NEW p \in PhChannels, PhLocal(p), p.wr = "ack"
  PROVE  \E r \in PhChannels :
           /\ r = [p EXCEPT !.rx = SubSeq(@, p.batch + 1, Len(@)), !.wr = "take", !.batch = 0]
           /\ PhLocal(r) /\ r.st = "ready" /\ r.sess = p.sess /\ r.epoch = p.epoch
           /\ r.count = p.count /\ r.oldest = p.oldest /\ r.expected = p.expected
           /\ r.rd = p.rd /\ Len(r.rx) = Len(p.rx) - p.batch
           /\ \A i \in 1..Len(r.rx) : r.rx[i] = p.rx[i + p.batch]
<1>1. PICK k \in Nat : k = p.batch BY DEF PhChannels
<1>2. PICK s \in Seq(Frames) : s = p.rx BY PhFields
<1>3. k \in 1..Len(s) /\ Len(s) <= Window /\ Len(s) \in Nat BY <1>1, <1>2 DEF PhLocal
<1>4. PICK t : t = SubSeq(s, k + 1, Len(s)) OBVIOUS
<1>5. /\ t \in Seq(Frames) /\ Len(t) = Len(s) - k /\ \A i \in 1..Len(t) : t[i] = s[i + k]
  <2>1. t \in Seq(Frames) BY <1>3, <1>4
  <2>2. Len(t) = Len(s) - k BY <1>3, <1>4
  <2>3. \A i \in 1..(Len(s) - k) : t[i] = s[i + k] BY <1>3, <1>4
  <2> QED BY <2>1, <2>2, <2>3
<1>6. PICK r : r = [p EXCEPT !.rx = t, !.wr = "take", !.batch = 0] OBVIOUS
<1>7. r \in PhChannels BY <1>5, <1>6 DEF PhChannels
<1>8. /\ r.st = p.st /\ r.sess = p.sess /\ r.epoch = p.epoch /\ r.count = p.count
      /\ r.oldest = p.oldest /\ r.expected = p.expected /\ r.rx = t /\ r.rd = p.rd
      /\ r.wr = "take" /\ r.held = p.held /\ r.next = p.next /\ r.batch = 0
  BY <1>6 DEF PhChannels
<1>9. p.st = "ready" BY WorkersReady
<1>10. PhLocal(r)
  <2>1. r.st = "ready" /\ Live(r) BY <1>8, <1>9 DEF Live
  <2>2. Len(r.rx) <= Window BY <1>3, <1>5, <1>8, RelayAssumption
  <2> QED BY <2>1, <2>2, <1>8 DEF PhLocal
<1>11. r = [p EXCEPT !.rx = SubSeq(@, p.batch + 1, Len(@)), !.wr = "take", !.batch = 0]
  BY <1>1, <1>2, <1>4, <1>6
<1> QED BY <1>1, <1>2, <1>5, <1>7, <1>8, <1>9, <1>10, <1>11

\* The ACKs of the first k frames of rx.
AcksOf(p, k) == [i \in 1..k |-> [frame |-> Frame("ACK", p.epoch, p.rx[i].seq, <<>>),
                                 sess |-> p.sess, terminal |-> FALSE]]

\* The writes of the ACKs of a batch.
LEMMA AckOps ==
  ASSUME NEW p \in PhChannels, NEW k \in 1..Len(p.rx), NEW y, y = AcksOf(p, k)
  PROVE  /\ y \in Seq(GattOps) /\ Len(y) = k
         /\ \A o \in ToSet(y) : /\ o.sess = p.sess /\ o.frame.epoch = p.epoch
                                /\ o.frame.type = "ACK" /\ ~o.terminal
         /\ \A i \in 1..k : y[i].frame.type = "ACK" /\ y[i].frame.epoch = p.epoch
                            /\ y[i].frame.seq = p.rx[i].seq
<1>1. PICK s \in Seq(Frames) : s = p.rx BY PhFields
<1>2. PICK e \in 0..(EpochNos - 1) : e = p.epoch BY DEF PhChannels
<1>3. PICK m \in 0..MaxOpens : m = p.sess BY DEF PhChannels
<1>4. k \in Nat /\ \A i \in 1..k : s[i].seq \in Nat
  <2>1. k \in Nat /\ \A i \in 1..k : i \in 1..Len(s) BY <1>1
  <2>2. \A i \in 1..Len(s) : s[i] \in Frames OBVIOUS
  <2>3. \A f \in Frames : f.seq \in Nat BY DEF Frames
  <2> QED BY <2>1, <2>2, <2>3
<1>5. "ACK" \in FrameTypes /\ <<>> \in Seq(Bytes) BY DEF FrameTypes
<1>6. PICK z \in Seq(Bytes) : z = <<>> BY <1>5
<1>7. ASSUME NEW i \in 1..k
      PROVE  /\ y[i] \in GattOps /\ y[i].sess = m /\ ~y[i].terminal
             /\ y[i].frame.type = "ACK" /\ y[i].frame.epoch = e /\ y[i].frame.seq = s[i].seq
  <2>1. PICK n \in Nat : n = s[i].seq BY <1>4
  <2>2. PICK f \in Frames : f = Frame("ACK", e, n, z) BY <1>5, FrameTypesOf
  <2>3. f.type = "ACK" /\ f.epoch = e /\ f.seq = n BY <1>5, <2>2, FrameTypesOf
  <2>4. y[i] = [frame |-> f, sess |-> m, terminal |-> FALSE]
    BY <1>1, <1>2, <1>3, <1>6, <2>1, <2>2 DEF AcksOf
  <2>5. y[i] \in GattOps BY <2>4 DEF GattOps
  <2> QED BY <2>1, <2>3, <2>4, <2>5
<1>8. DOMAIN y = 1..k BY DEF AcksOf
<1>9. y \in Seq(GattOps) /\ Len(y) = k
  <2>1. y \in [1..k -> GattOps] BY <1>7 DEF AcksOf
  <2> QED BY <1>4, <2>1
<1>10. \A o \in ToSet(y) : \E i \in 1..k : o = y[i] BY <1>8 DEF ToSet
<1>11. ASSUME NEW o \in ToSet(y)
       PROVE  o.sess = p.sess /\ o.frame.epoch = p.epoch /\ o.frame.type = "ACK" /\ ~o.terminal
  <2>1. PICK i \in 1..k : o = y[i] BY <1>10
  <2> QED BY <2>1, <1>2, <1>3, <1>7
<1>12. \A i \in 1..k : y[i].frame.type = "ACK" /\ y[i].frame.epoch = p.epoch
                        /\ y[i].frame.seq = p.rx[i].seq
  BY <1>1, <1>2, <1>7
<1> QED BY <1>9, <1>11, <1>12

\* WriterAck keeps the invariant.
LEMMA WriterAckStep == ASSUME IInv, WriterAck PROVE IInv'
<1>1. /\ phoneUp /\ ph.wr = "ack"
      /\ ph' = [ph EXCEPT !.rx = SubSeq(@, ph.batch + 1, Len(@)), !.wr = "take", !.batch = 0]
      /\ pq' = pq \o [i \in 1..ph.batch |->
                    [frame |-> Frame("ACK", ph.epoch, ph.rx[i].seq, <<>>),
                     sess |-> ph.sess, terminal |-> FALSE]]
      /\ UNCHANGED <<espVars, airVars, phoneUp, used, active, link, sess, phase, written, fetched>>
  BY DEF WriterAck, history
<1>2. ph \in PhChannels /\ PhLocal(ph) /\ pq \in Seq(GattOps) /\ esp.ch \in EspChannels
      /\ toEsp \in Seq(Frames)
  BY Facts
<1>3. PICK p \in PhChannels : p = ph BY <1>2
<1>4. PICK r \in PhChannels :
           /\ r = [p EXCEPT !.rx = SubSeq(@, p.batch + 1, Len(@)), !.wr = "take", !.batch = 0]
           /\ PhLocal(r) /\ r.st = "ready" /\ r.sess = p.sess /\ r.epoch = p.epoch
           /\ r.count = p.count /\ r.oldest = p.oldest /\ r.expected = p.expected
           /\ r.rd = p.rd /\ Len(r.rx) = Len(p.rx) - p.batch
           /\ \A i \in 1..Len(r.rx) : r.rx[i] = p.rx[i + p.batch]
  BY <1>1, <1>2, <1>3, AckedTypes
<1>5. PICK q \in Seq(GattOps) : q = pq BY <1>2
<1>6. PICK y : y = AcksOf(p, p.batch) OBVIOUS
<1>7. PICK k \in 1..Len(p.rx) : k = p.batch BY <1>1, <1>2, <1>3 DEF PhLocal
<1>8. /\ y \in Seq(GattOps) /\ Len(y) = k
      /\ \A o \in ToSet(y) : /\ o.sess = p.sess /\ o.frame.epoch = p.epoch
                             /\ o.frame.type = "ACK" /\ ~o.terminal
      /\ \A i \in 1..k : y[i].frame.type = "ACK" /\ y[i].frame.epoch = p.epoch
                         /\ y[i].frame.seq = p.rx[i].seq
  BY <1>6, <1>7, AckOps
<1>9. PICK v \in Seq(GattOps) : v = y BY <1>8
<1>10. q \o v \in Seq(GattOps) OBVIOUS
<1>11. PICK q2 \in Seq(GattOps) : q2 = q \o v BY <1>10
<1>12. pq' = q2 BY <1>1, <1>3, <1>5, <1>6, <1>9, <1>11 DEF AcksOf
<1>13. ToSet(q2) = ToSet(q) \cup ToSet(v)
  <2>1. ToSet(q \o v) = ToSet(q) \cup ToSet(v) BY SetConcat
  <2> QED BY <2>1, <1>11
<1>14. p.st = "ready" /\ Live(p) /\ Live(r) /\ p.sess # 0
  <2>1. p.st = "ready" /\ Live(p) BY <1>1, <1>2, <1>3, WorkersReady
  <2> QED BY <2>1, <1>3, <1>4 DEF Live, IInv, PhoneOk
<1>15. ReaderOk(r, ToSet(q2), ToSet(active), used)
  <2>1. ReaderOk(p, ToSet(q), ToSet(active), used) BY <1>3, <1>5 DEF IInv, PhoneOk
  <2>2. \A a \in ToSet(v) : ~OpensMine(p, a) BY <1>8, <1>9 DEF OpensMine
  <2>3. \A a : OpensMine(r, a) <=> OpensMine(p, a) BY <1>4 DEF OpensMine
  <2>4. r.rd = p.rd /\ r.st = p.st BY <1>4, <1>14
  <2> QED BY <2>1, <2>2, <2>3, <2>4, <1>13, <1>14 DEF ReaderOk
<1>16. Proto(esp.ch, r, toEsp, FramesIn(q2), toPhone \o inHand, FramesIn(esp.q), used)
  <2>1. PICK po \in Seq(Frames), air \in Seq(Frames), qu \in Seq(Frames) :
           /\ po = FramesIn(pq) /\ air = toPhone \o inHand /\ qu = FramesIn(esp.q)
           /\ Proto(esp.ch, ph, toEsp, po, air, qu, used)
    BY ProtoIs
  <2>2. PICK w \in Seq(Frames) : w = FramesIn(v) BY FramesInSeq, ItemTypes
  <2>3. Len(w) = Len(v) /\ \A i \in 1..Len(v) : w[i] = v[i].frame
    BY <2>2, FramesInSeq, ItemTypes
  <2>4. Len(w) = k /\ \A i \in 1..k : Of(w[i], "ACK", p.epoch) /\ w[i].seq = p.rx[i].seq
    BY <2>3, <1>8, <1>9 DEF Of
  <2>5. FramesIn(q2) = po \o w BY <2>1, <2>2, <1>5, <1>11, FramesInConcat, ItemTypes
  <2>6. PICK te \in Seq(Frames) : te = toEsp BY <1>2
  <2>7. PICK c \in EspChannels : c = esp.ch BY <1>2
  <2>8. Proto(c, p, te, po, air, qu, used) BY <2>1, <2>6, <2>7, <1>3
  <2>9. DOMAIN w = 1..k /\ Len(w) <= Len(p.rx) BY <2>4, <1>7
  <2>10. /\ Len(r.rx) = Len(p.rx) - Len(w)
         /\ \A i \in 1..Len(r.rx) : r.rx[i] = p.rx[i + Len(w)]
         /\ \A i \in DOMAIN w : Of(w[i], "ACK", p.epoch) /\ w[i].seq = p.rx[i].seq
    BY <2>4, <2>9, <1>4, <1>7
  <2>11. Proto(c, r, te, po \o w, air, qu, used)
    BY <2>8, <2>9, <2>10, <1>4, <1>14, PhoneAcks
  <2> QED BY <2>1, <2>5, <2>6, <2>7, <2>11
<1>17. \A a \in ToSet(q2) :
         a \in ToSet(pq) \/ /\ a.sess = r.sess /\ a.frame.epoch = r.epoch
                            /\ (a.terminal <=> a.frame.type \in Terminal)
  BY <1>4, <1>5, <1>8, <1>9, <1>13 DEF Terminal
<1>18. /\ ph' = r /\ PhLocal(r) /\ Live(r) /\ r.sess # 0 /\ r.sess = ph.sess
       /\ r.epoch = ph.epoch /\ pq' = q2 /\ q2 \in Seq(GattOps) /\ phoneUp
  BY <1>1, <1>3, <1>4, <1>12, <1>14
<1>19. UNCHANGED <<espVars, airVars, phoneUp, used, active, link, sess, phase, written, fetched>>
  BY <1>1
<1> QED BY <1>15, <1>16, <1>17, <1>18, <1>19, PhoneQueueStep

\* ReaderOk looks at these fields only.
LEMMA ReaderKeeps ==
  ASSUME NEW p, NEW p2, NEW P, NEW A, NEW u, ReaderOk(p, P, A, u), p2.sess = p.sess,
         p2.st = p.st, p.rd = "off" => p2.rd = "off"
  PROVE  ReaderOk(p2, P, A, u)
BY DEF ReaderOk, OpensMine, Live

\* Nothing but the two workers' own fields changes.
Worker(p, r) ==
  /\ r \in PhChannels /\ PhLocal(r) /\ r.st = p.st /\ r.sess = p.sess /\ r.epoch = p.epoch
  /\ r.oldest = p.oldest /\ r.expected = p.expected /\ r.count = p.count /\ r.rx = p.rx
  /\ (p.rd = "off" => r.rd = "off")

\* A step of a worker of the phone that sends nothing.
LEMMA WorkerStep ==
  ASSUME IInv, phoneUp, NEW r, Worker(ph, r), ph' = r, fetched' \in [Sessions -> Nat],
         UNCHANGED <<espVars, airVars, phoneUp, used, pq, active, link, sess, phase, written>>
  PROVE  IInv'
<1>1. /\ r \in PhChannels /\ PhLocal(r) /\ r.st = ph.st /\ r.sess = ph.sess /\ r.epoch = ph.epoch
      /\ r.oldest = ph.oldest /\ r.expected = ph.expected /\ r.count = ph.count /\ r.rx = ph.rx
      /\ (ph.rd = "off" => r.rd = "off")
  BY DEF Worker
<1>2. PICK p \in PhChannels : p = r BY <1>1
<1>3. ReaderOk(p, ToSet(pq), ToSet(active), used)
  <2>1. ReaderOk(ph, ToSet(pq), ToSet(active), used) BY DEF IInv, PhoneOk
  <2> QED BY <2>1, <1>1, <1>2, ReaderKeeps
<1>4. active' = active OBVIOUS
<1>5. ReaderOk(p, ToSet(pq), ToSet(active'), used) BY <1>3, <1>4
<1>6. /\ ph' = p /\ PhLocal(p) /\ p.st = ph.st /\ p.sess = ph.sess /\ p.epoch = ph.epoch
      /\ p.oldest = ph.oldest /\ p.expected = ph.expected /\ p.count = ph.count /\ p.rx = ph.rx
      /\ (active' = active \/ active' = <<>>)
  BY <1>1, <1>2, <1>4
<1>7. UNCHANGED <<espVars, airVars, phoneUp, used, pq, link, sess, phase, written>>
  OBVIOUS
<1> QED BY <1>5, <1>6, <1>7, PhoneStillStep

\* The reader that has found credit.
LEMMA GateTypes ==
  ASSUME NEW p \in PhChannels, PhLocal(p), p.rd = "gate", p.count < Window
  PROVE  Worker(p, [p EXCEPT !.rd = "read"])
<1>1. PICK r : r = [p EXCEPT !.rd = "read"] OBVIOUS
<1>2. r \in PhChannels BY <1>1 DEF PhChannels
<1>3. /\ r.st = p.st /\ r.sess = p.sess /\ r.epoch = p.epoch /\ r.count = p.count
      /\ r.oldest = p.oldest /\ r.expected = p.expected /\ r.rx = p.rx /\ r.rd = "read"
      /\ r.wr = p.wr /\ r.held = p.held /\ r.next = p.next /\ r.batch = p.batch
  BY <1>1 DEF PhChannels
<1>4. p.st = "ready" /\ p.held = <<>> BY WorkersReady DEF PhLocal
<1>5. PhLocal(r) BY <1>3, <1>4 DEF PhLocal, Live
<1> QED BY <1>1, <1>2, <1>3, <1>5 DEF Worker

\* ReaderGate keeps the invariant.
LEMMA ReaderGateStep == ASSUME IInv, ReaderGate PROVE IInv'
<1>1. ph \in PhChannels /\ PhLocal(ph) BY Facts
<1>2. /\ phoneUp /\ ph.rd = "gate" /\ ph.count < Window /\ ph' = [ph EXCEPT !.rd = "read"]
      /\ UNCHANGED <<espVars, airVars, phoneUp, used, pq, active, link, sess, phase, written>>
      /\ fetched' = fetched
  BY DEF ReaderGate, history
<1>3. PICK r : r = [ph EXCEPT !.rd = "read"] OBVIOUS
<1>4. Worker(ph, r) BY <1>1, <1>2, <1>3, GateTypes
<1>5. fetched' \in [Sessions -> Nat] BY <1>2 DEF IInv, Callers
<1> QED BY <1>2, <1>3, <1>4, <1>5, WorkerStep

\* The reader that has read bytes.
LEMMA HoldTypes ==
  ASSUME NEW p \in PhChannels, PhLocal(p), p.rd = "read", NEW d \in Seq(Bytes)
  PROVE  Worker(p, [p EXCEPT !.rd = "hold", !.held = d])
<1>1. PICK r : r = [p EXCEPT !.rd = "hold", !.held = d] OBVIOUS
<1>2. r \in PhChannels BY <1>1 DEF PhChannels
<1>3. /\ r.st = p.st /\ r.sess = p.sess /\ r.epoch = p.epoch /\ r.count = p.count
      /\ r.oldest = p.oldest /\ r.expected = p.expected /\ r.rx = p.rx /\ r.rd = "hold"
      /\ r.wr = p.wr /\ r.next = p.next /\ r.batch = p.batch
  BY <1>1 DEF PhChannels
<1>4. p.st = "ready" BY WorkersReady
<1>5. PhLocal(r) BY <1>3, <1>4 DEF PhLocal, Live
<1> QED BY <1>1, <1>2, <1>3, <1>5 DEF Worker

\* ReaderBytes keeps the invariant.
LEMMA ReaderBytesStep == ASSUME IInv, NEW n \in 1..MaxPayload, ReaderBytes(n) PROVE IInv'
<1>1. ph \in PhChannels /\ PhLocal(ph) BY Facts
<1>2. /\ phoneUp /\ ph.rd = "read"
      /\ ph' = [ph EXCEPT !.rd = "hold", !.held = Payload(ph.sess, fetched[ph.sess], n)]
      /\ fetched' = [fetched EXCEPT ![ph.sess] = @ + n]
      /\ UNCHANGED <<espVars, airVars, phoneUp, used, pq, active, link, sess, phase, written>>
  BY DEF ReaderBytes
<1>3. Live(ph) BY <1>1, <1>2, WorkersReady
<1>4. ph.sess \in Sessions
  <2>1. ph.sess # 0 BY <1>3 DEF IInv, PhoneOk
  <2>2. ph.sess \in 0..MaxOpens BY <1>1 DEF PhChannels
  <2> QED BY <2>1, <2>2, RelayAssumption DEF Sessions
<1>5. fetched \in [Sessions -> Nat] BY DEF IInv, Callers
<1>6. n \in Nat BY RelayAssumption
<1>7. Payload(ph.sess, fetched[ph.sess], n) \in Seq(Bytes) BY <1>4, <1>5, <1>6, PayloadOf
<1>8. PICK d \in Seq(Bytes) : d = Payload(ph.sess, fetched[ph.sess], n) BY <1>7
<1>9. PICK r : r = [ph EXCEPT !.rd = "hold", !.held = d] OBVIOUS
<1>10. Worker(ph, r) BY <1>1, <1>2, <1>9, HoldTypes
<1>11. fetched' \in [Sessions -> Nat] BY <1>2, <1>4, <1>5, <1>6
<1>12. ph' = r BY <1>2, <1>8, <1>9
<1> QED BY <1>2, <1>10, <1>11, <1>12, WorkerStep

\* The writer that takes a batch, or finds none.
LEMMA TakeTypes ==
  ASSUME NEW p \in PhChannels, PhLocal(p), p.wr = "take"
  PROVE  /\ p.rx = <<>> => Worker(p, [p EXCEPT !.wr = "off"])
         /\ p.rx # <<>> => Worker(p, [p EXCEPT !.wr = "write", !.batch = Len(p.rx)])
<1>0. p.st = "ready" BY WorkersReady
<1>1. ASSUME p.rx = <<>> PROVE Worker(p, [p EXCEPT !.wr = "off"])
  <2>1. PICK r : r = [p EXCEPT !.wr = "off"] OBVIOUS
  <2>2. r \in PhChannels BY <2>1 DEF PhChannels
  <2>3. /\ r.st = p.st /\ r.sess = p.sess /\ r.epoch = p.epoch /\ r.count = p.count
        /\ r.oldest = p.oldest /\ r.expected = p.expected /\ r.rx = p.rx /\ r.rd = p.rd
        /\ r.wr = "off" /\ r.held = p.held /\ r.next = p.next /\ r.batch = p.batch
    BY <2>1 DEF PhChannels
  <2>4. PhLocal(r) BY <1>0, <2>3 DEF PhLocal, Live
  <2> QED BY <2>1, <2>2, <2>3, <2>4 DEF Worker
<1>2. ASSUME p.rx # <<>> PROVE Worker(p, [p EXCEPT !.wr = "write", !.batch = Len(p.rx)])
  <2>0. PICK k \in Nat : k = Len(p.rx) BY PhFields
  <2>1. PICK r : r = [p EXCEPT !.wr = "write", !.batch = k] OBVIOUS
  <2>2. r \in PhChannels BY <2>1 DEF PhChannels
  <2>3. /\ r.st = p.st /\ r.sess = p.sess /\ r.epoch = p.epoch /\ r.count = p.count
        /\ r.oldest = p.oldest /\ r.expected = p.expected /\ r.rx = p.rx /\ r.rd = p.rd
        /\ r.wr = "write" /\ r.held = p.held /\ r.next = p.next /\ r.batch = k
    BY <2>1 DEF PhChannels
  <2>4. k \in 1..Len(p.rx)
    <3>1. PICK s \in Seq(Frames) : s = p.rx BY PhFields
    <3>2. Len(s) \in Nat /\ Len(s) # 0 BY <3>1, <1>2
    <3> QED BY <2>0, <3>1, <3>2
  <2>5. PhLocal(r) BY <1>0, <2>3, <2>4 DEF PhLocal, Live
  <2> QED BY <2>0, <2>1, <2>2, <2>3, <2>5 DEF Worker
<1> QED BY <1>1, <1>2

\* WriterTake keeps the invariant.
LEMMA WriterTakeStep == ASSUME IInv, WriterTake PROVE IInv'
<1>1. ph \in PhChannels /\ PhLocal(ph) BY Facts
<1>2. /\ phoneUp /\ ph.wr = "take"
      /\ ph' = IF ph.rx = <<>> THEN [ph EXCEPT !.wr = "off"]
               ELSE [ph EXCEPT !.wr = "write", !.batch = Len(ph.rx)]
      /\ UNCHANGED <<espVars, airVars, phoneUp, used, pq, active, link, sess, phase, written>>
      /\ fetched' = fetched
  BY DEF WriterTake, history
<1>3. PICK r : r = ph' OBVIOUS
<1>4. Worker(ph, r)
  <2>1. CASE ph.rx = <<>>
    <3>1. r = [ph EXCEPT !.wr = "off"] BY <1>2, <1>3, <2>1
    <3> QED BY <3>1, <2>1, <1>1, <1>2, TakeTypes
  <2>2. CASE ph.rx # <<>>
    <3>1. r = [ph EXCEPT !.wr = "write", !.batch = Len(ph.rx)] BY <1>2, <1>3, <2>2
    <3> QED BY <3>1, <2>2, <1>1, <1>2, TakeTypes
  <2> QED BY <2>1, <2>2
<1>5. fetched' \in [Sessions -> Nat] BY <1>2 DEF IInv, Callers
<1> QED BY <1>2, <1>3, <1>4, <1>5, WorkerStep

\* The writer that has written its batch.
LEMMA WrittenTypes ==
  ASSUME NEW p \in PhChannels, PhLocal(p), p.wr = "write"
  PROVE  Worker(p, [p EXCEPT !.wr = "ack"])
<1>1. PICK r : r = [p EXCEPT !.wr = "ack"] OBVIOUS
<1>2. r \in PhChannels BY <1>1 DEF PhChannels
<1>3. /\ r.st = p.st /\ r.sess = p.sess /\ r.epoch = p.epoch /\ r.count = p.count
      /\ r.oldest = p.oldest /\ r.expected = p.expected /\ r.rx = p.rx /\ r.rd = p.rd
      /\ r.wr = "ack" /\ r.held = p.held /\ r.next = p.next /\ r.batch = p.batch
  BY <1>1 DEF PhChannels
<1>4. p.st = "ready" BY WorkersReady
<1>5. PhLocal(r) BY <1>3, <1>4 DEF PhLocal, Live
<1> QED BY <1>1, <1>2, <1>3, <1>5 DEF Worker

\* WriterWrite keeps the invariant.
LEMMA WriterWriteStep == ASSUME IInv, WriterWrite PROVE IInv'
<1>1. ph \in PhChannels /\ PhLocal(ph) BY Facts
<1>2. /\ phoneUp /\ ph.wr = "write" /\ ph' = [ph EXCEPT !.wr = "ack"]
      /\ UNCHANGED <<espVars, airVars, phoneUp, used, pq, active, link, sess, phase, written>>
      /\ fetched' = fetched
  BY DEF WriterWrite
<1>3. PICK r : r = [ph EXCEPT !.wr = "ack"] OBVIOUS
<1>4. Worker(ph, r) BY <1>1, <1>2, <1>3, WrittenTypes
<1>5. fetched' \in [Sessions -> Nat] BY <1>2 DEF IInv, Callers
<1> QED BY <1>2, <1>3, <1>4, <1>5, WorkerStep

\* The reader that has met the end of the stream.
LEMMA EofTypes ==
  ASSUME NEW p \in PhChannels, PhLocal(p), p.rd = "read"
  PROVE  Worker(p, [p EXCEPT !.eof = TRUE, !.rd = "off"])
<1>1. PICK r : r = [p EXCEPT !.eof = TRUE, !.rd = "off"] OBVIOUS
<1>2. r \in PhChannels BY <1>1 DEF PhChannels
<1>3. /\ r.st = p.st /\ r.sess = p.sess /\ r.epoch = p.epoch /\ r.count = p.count
      /\ r.oldest = p.oldest /\ r.expected = p.expected /\ r.rx = p.rx /\ r.rd = "off"
      /\ r.wr = p.wr /\ r.held = p.held /\ r.next = p.next /\ r.batch = p.batch
  BY <1>1 DEF PhChannels
<1>4. p.st = "ready" /\ p.held = <<>> BY WorkersReady DEF PhLocal
<1>5. PhLocal(r) BY <1>3, <1>4 DEF PhLocal, Live
<1> QED BY <1>1, <1>2, <1>3, <1>5 DEF Worker

\* The phone closes a channel while no frame comes in.
LEMMA PhoneEndsStep ==
  ASSUME IInv, phoneUp, Live(ph), NEW p \in PhChannels, p.epoch = ph.epoch, p.sess = ph.sess,
         PhLocal(p), ph' = Closed(p), NEW type \in Terminal, pq' = Emit(pq, p, type, 0, <<>>, TRUE),
         UNCHANGED <<espVars, airVars, phoneUp, used, active, link, sess, phase, written, fetched>>
  PROVE  IInv'
<1>1. toPhone' = toPhone /\ toEsp' = toEsp BY DEF airVars
<1>2. toPhone \in Seq(Frames) BY Facts
<1>3. <<>> \in Seq(Frames) /\ toPhone = <<>> \o toPhone BY <1>2
<1>4. PICK x \in Seq(Frames) : x = <<>> BY <1>3
<1>5. toPhone' \in Seq(Frames) /\ toPhone = x \o toPhone' BY <1>1, <1>2, <1>3, <1>4
<1>6. p.next = (p.oldest + p.count) % SeqNos BY DEF PhLocal
<1>7. UNCHANGED <<espVars, toEsp, phoneUp, used, active, link, sess, phase, written, fetched>>
  BY <1>1
<1> QED BY <1>5, <1>6, <1>7, PhoneClosesStep

\* ReaderEof keeps the invariant.
LEMMA ReaderEofStep == ASSUME IInv, ReaderEof PROVE IInv'
<1>1. ph \in PhChannels /\ PhLocal(ph) BY Facts
<1>2. /\ phoneUp /\ ph.rd = "read"
      /\ UNCHANGED <<espVars, airVars, phoneUp, used, active, link, sess, phase, written, fetched>>
  BY DEF ReaderEof, history
<1>3. PICK r : r = [ph EXCEPT !.eof = TRUE, !.rd = "off"] OBVIOUS
<1>4. IF Drained(r)
      THEN ph' = Closed(r) /\ pq' = Emit(pq, r, "CLOSE", 0, <<>>, TRUE)
      ELSE ph' = r /\ UNCHANGED pq
  BY <1>3 DEF ReaderEof
<1>5. Worker(ph, r) BY <1>1, <1>2, <1>3, EofTypes
<1>6. CASE Drained(r)
  <2>1. Live(ph) BY <1>1, <1>2, WorkersReady
  <2>2. r \in PhChannels /\ PhLocal(r) /\ r.epoch = ph.epoch /\ r.sess = ph.sess
    BY <1>5 DEF Worker
  <2>3. "CLOSE" \in Terminal BY DEF Terminal
  <2>4. PICK p \in PhChannels : p = r BY <2>2
  <2>5. PICK ty \in Terminal : ty = "CLOSE" BY <2>3
  <2>6. ph' = Closed(p) /\ pq' = Emit(pq, p, ty, 0, <<>>, TRUE) BY <1>4, <1>6, <2>4, <2>5
  <2>7. p.epoch = ph.epoch /\ p.sess = ph.sess /\ PhLocal(p) BY <2>2, <2>4
  <2> QED BY <1>2, <2>1, <2>6, <2>7, PhoneEndsStep
<1>7. CASE ~Drained(r)
  <2>1. ph' = r /\ pq' = pq BY <1>4, <1>7
  <2>2. fetched' \in [Sessions -> Nat] BY <1>2 DEF IInv, Callers
  <2>3. UNCHANGED <<espVars, airVars, phoneUp, used, pq, active, link, sess, phase, written>>
    BY <1>2, <2>1
  <2> QED BY <1>2, <1>5, <2>1, <2>2, <2>3, WorkerStep
<1> QED BY <1>6, <1>7

\* PhoneFail keeps the invariant.
LEMMA PhoneFailStep == ASSUME IInv, PhoneFail PROVE IInv'
<1>1. ph \in PhChannels /\ PhLocal(ph) BY Facts
<1>2. /\ phoneUp /\ Live(ph) /\ ph' = Closed(ph) /\ pq' = Emit(pq, ph, "ERROR", 0, <<>>, TRUE)
      /\ UNCHANGED <<espVars, airVars, phoneUp, used, active, link, sess, phase, written, fetched>>
  BY DEF PhoneFail, CloseChannel, history
<1>3. PICK p \in PhChannels : p = ph BY <1>1
<1>4. "ERROR" \in Terminal BY DEF Terminal
<1>5. PICK ty \in Terminal : ty = "ERROR" BY <1>4
<1>6. ph' = Closed(p) /\ pq' = Emit(pq, p, ty, 0, <<>>, TRUE) BY <1>2, <1>3, <1>5
<1>7. p.epoch = ph.epoch /\ p.sess = ph.sess /\ PhLocal(p) BY <1>1, <1>3
<1> QED BY <1>2, <1>6, <1>7, PhoneEndsStep

\* The reader that starts.
LEMMA GatedTypes ==
  ASSUME NEW p \in PhChannels, PhLocal(p), p.st = "ready", p.rd = "off"
  PROVE  /\ [p EXCEPT !.rd = "gate"] \in PhChannels /\ PhLocal([p EXCEPT !.rd = "gate"])
         /\ \A r : r = [p EXCEPT !.rd = "gate"] =>
              /\ r.st = p.st /\ r.sess = p.sess /\ r.epoch = p.epoch /\ r.count = p.count
              /\ r.oldest = p.oldest /\ r.expected = p.expected /\ r.rx = p.rx
<1>1. PICK r : r = [p EXCEPT !.rd = "gate"] OBVIOUS
<1>2. r \in PhChannels BY <1>1 DEF PhChannels
<1>3. /\ r.st = p.st /\ r.sess = p.sess /\ r.epoch = p.epoch /\ r.count = p.count
      /\ r.oldest = p.oldest /\ r.expected = p.expected /\ r.rx = p.rx /\ r.rd = "gate"
      /\ r.wr = p.wr /\ r.held = p.held /\ r.next = p.next /\ r.batch = p.batch
  BY <1>1 DEF PhChannels
<1>4. p.held = <<>> BY DEF PhLocal
<1>5. PhLocal(r) BY <1>3, <1>4 DEF PhLocal, Live
<1> QED BY <1>1, <1>2, <1>3, <1>5

\* GattDone keeps the invariant: the reader starts once.
LEMMA GattDoneStep == ASSUME IInv, GattDone PROVE IInv'
<1>1. ph \in PhChannels /\ PhLocal(ph) BY Facts
<1>2. PICK op : op = Head(active) OBVIOUS
<1>3. /\ phoneUp /\ active # <<>> /\ active' = <<>>
      /\ ph' = IF op.frame.type = "OPENED" /\ op.sess = ph.sess /\ Live(ph)
               THEN [ph EXCEPT !.rd = "gate"] ELSE ph
      /\ UNCHANGED <<espVars, airVars, phoneUp, used, pq, link, sess, phase, written>>
      /\ fetched' = fetched
  BY <1>2 DEF GattDone, history, Nothing
<1>4. op \in ToSet(active)
  <2>1. active \in Seq(GattOps) BY DEF IInv, PhoneOk
  <2> QED BY <1>2, <1>3, <2>1, FramesInHead, ItemTypes
<1>5. ReaderOk(ph, ToSet(pq), ToSet(active), used) BY DEF IInv, PhoneOk
<1>6. ToSet(active') = {} BY <1>3, SetOne
<1>7. fetched' \in [Sessions -> Nat] BY <1>3 DEF IInv, Callers
<1>8. UNCHANGED <<espVars, airVars, phoneUp, used, pq, link, sess, phase, written>>
  BY <1>3
<1>9. CASE op.frame.type = "OPENED" /\ op.sess = ph.sess /\ Live(ph)
  <2>1. OpensMine(ph, op) BY <1>9 DEF OpensMine
  <2>2. ph.st = "ready" /\ ph.rd = "off" /\ ~\E o \in ToSet(pq) : OpensMine(ph, o)
    BY <1>4, <1>5, <1>9, <2>1 DEF ReaderOk
  <2>3. [ph EXCEPT !.rd = "gate"] \in PhChannels BY <1>1, <2>2, GatedTypes
  <2>4. PICK r \in PhChannels : r = [ph EXCEPT !.rd = "gate"] BY <2>3
  <2>5. PhLocal(r) /\ r.st = ph.st /\ r.sess = ph.sess /\ r.epoch = ph.epoch
        /\ r.count = ph.count /\ r.oldest = ph.oldest /\ r.expected = ph.expected
        /\ r.rx = ph.rx
    BY <1>1, <2>2, <2>4, GatedTypes
  <2>6. ph' = r BY <1>3, <1>9, <2>4
  <2>7. ReaderOk(r, ToSet(pq), ToSet(active'), used)
    <3>1. ~\E o \in ToSet(pq) : OpensMine(r, o) BY <2>2, <2>5 DEF OpensMine
    <3> QED BY <3>1, <1>6 DEF ReaderOk
  <2> QED BY <1>3, <1>7, <1>8, <2>5, <2>6, <2>7, PhoneStillStep
<1>10. CASE ~(op.frame.type = "OPENED" /\ op.sess = ph.sess /\ Live(ph))
  <2>1. PICK r \in PhChannels : r = ph BY <1>1
  <2>2. ph' = r BY <1>3, <1>10, <2>1
  <2>3. ReaderOk(r, ToSet(pq), ToSet(active'), used) BY <1>5, <1>6, <2>1 DEF ReaderOk
  <2>4. PhLocal(r) /\ r.st = ph.st /\ r.sess = ph.sess /\ r.epoch = ph.epoch
        /\ r.count = ph.count /\ r.oldest = ph.oldest /\ r.expected = ph.expected
        /\ r.rx = ph.rx
    BY <1>1, <2>1
  <2> QED BY <1>3, <1>7, <1>8, <2>2, <2>3, <2>4, PhoneStillStep
<1> QED BY <1>9, <1>10

\* What the Dates say of the queued writes and of the channel.
LEMMA OpEpochs ==
  ASSUME IInv
  PROVE  /\ \A o \in Ops : o.sess # 0 /\ o.sess \in Nat
         /\ \A a \in Ops, b \in Ops : a.sess = b.sess => a.frame.epoch = b.frame.epoch
         /\ \A o \in Ops : Live(ph) => (o.frame.epoch = ph.epoch <=> o.sess = ph.sess)
<1>1. PICK d \in 0..(EpochNos - 1) : Dates(d, sess, esp, Forth, ToSet(toEsp), Ops, ph, used)
  BY DEF IInv, DatesNow
<1>2. sess \in Nat /\ sess <= EpochNos /\ d \in Nat
  BY Facts, RelayAssumption, EpochsAssumption
<1>3. \A o \in Ops : o.sess \in 1..sess /\ o.frame.epoch = EpochOf(d, o.sess)
  BY <1>1 DEF Dates, OpDated
<1>4. Live(ph) => ph.sess \in 1..sess /\ ph.epoch = EpochOf(d, ph.sess)
  BY <1>1 DEF Dates, IInv, PhoneOk
<1>5. ASSUME NEW s \in 1..sess, NEW t \in 1..sess, s # t PROVE EpochOf(d, s) # EpochOf(d, t)
  <2>1. s \in Nat /\ t \in Nat /\ s - t < EpochNos /\ t - s < EpochNos
    BY <1>2, RelayAssumption
  <2> QED BY <1>2, <1>5, <2>1, EpochApart
<1>6. \A o \in Ops : o.sess # 0 /\ o.sess \in Nat BY <1>2, <1>3
<1>7. ASSUME NEW o \in Ops, Live(ph) PROVE o.frame.epoch = ph.epoch <=> o.sess = ph.sess
  <2>1. PICK s \in 1..sess : s = o.sess BY <1>3
  <2>2. PICK t \in 1..sess : t = ph.sess BY <1>4, <1>7
  <2>3. s = t <=> EpochOf(d, s) = EpochOf(d, t) BY <1>5
  <2> QED BY <2>1, <2>2, <2>3, <1>3, <1>4, <1>7
<1> QED BY <1>3, <1>6, <1>7

\* GattStart keeps the invariant: a write that is skipped is of a session that
\* is over.
LEMMA GattStartStep == ASSUME IInv, GattStart PROVE IInv'
<1>1. /\ ph \in PhChannels /\ PhLocal(ph) /\ pq \in Seq(GattOps) /\ esp.ch \in EspChannels
      /\ toEsp \in Seq(Frames) /\ toPhone \in Seq(Frames)
  BY Facts
<1>2. PICK op : op = Head(pq) OBVIOUS
<1>3. /\ phoneUp /\ active = <<>> /\ pq # <<>> /\ pq' = Tail(pq)
      /\ IF StillValid(op)
         THEN active' = <<op>> /\ toEsp' = Append(toEsp, op.frame)
         ELSE active' = active /\ toEsp' = toEsp
      /\ UNCHANGED <<espVars, toPhone, phoneUp, used, ph, link, sess, phase, written, fetched>>
  BY <1>2 DEF GattStart, history, Nothing
<1>4. /\ op \in GattOps /\ op \in ToSet(pq) /\ pq' \in Seq(GattOps)
      /\ ToSet(pq') \subseteq ToSet(pq) /\ FramesIn(pq) = <<op.frame>> \o FramesIn(pq')
  BY <1>1, <1>2, <1>3, FramesInHead, ItemTypes
<1>5. PICK q2 \in Seq(GattOps) : q2 = pq' BY <1>4
<1>6. PICK po2 \in Seq(Frames) : po2 = FramesIn(q2) BY FramesInSeq, ItemTypes
<1>7. PICK g \in Frames : g = op.frame BY <1>4, ItemTypes
<1>8. <<g>> \in Seq(Frames) OBVIOUS
<1>9. PICK y \in Seq(Frames) : y = <<g>> BY <1>8
<1>10. Len(y) = 1 /\ y[1] = g BY <1>9
<1>11. PICK po \in Seq(Frames), air \in Seq(Frames), qu \in Seq(Frames) :
           /\ po = FramesIn(pq) /\ air = toPhone \o inHand /\ qu = FramesIn(esp.q)
           /\ Proto(esp.ch, ph, toEsp, po, air, qu, used)
  BY ProtoIs
<1>12. po = y \o po2 BY <1>4, <1>5, <1>6, <1>7, <1>9, <1>11
<1>13. PICK te \in Seq(Frames) : te = toEsp BY <1>1
<1>14. PICK c \in EspChannels : c = esp.ch BY <1>1
<1>15. PICK p \in PhChannels : p = ph BY <1>1
<1>16. Proto(c, p, te, y \o po2, air, qu, used) BY <1>11, <1>12, <1>13, <1>14, <1>15
<1>17. op \in Ops BY <1>4 DEF Ops
<1>18. op.terminal <=> g.type \in Terminal BY <1>4, <1>7 DEF IInv, PhoneOk
<1>19. ReaderOk(p, ToSet(pq), ToSet(active), used) BY <1>15 DEF IInv, PhoneOk
<1>20. /\ inHand' = inHand /\ esp' = esp /\ toPhone' = toPhone /\ phoneUp' = phoneUp
       /\ used' = used /\ ph' = p /\ link' = link /\ sess' = sess /\ phase' = phase
       /\ written' = written /\ fetched' = fetched
  BY <1>3, <1>15 DEF espVars
<1>21. /\ toPhone' \in Seq(Frames) /\ fetched' \in [Sessions -> Nat]
       /\ ToSet(toPhone') \subseteq ToSet(toPhone)
       /\ \A e \in used' : e \in used
       /\ ph'.sess = ph.sess /\ ph'.epoch = ph.epoch
       /\ UNCHANGED <<espVars, link, sess, phase, written>>
  BY <1>1, <1>3, <1>15, <1>20 DEF IInv, Callers
<1>22. /\ phoneUp' /\ phoneUp' \in BOOLEAN /\ used' \subseteq 0..(EpochNos - 1)
       /\ ph' \in PhChannels /\ PhLocal(ph') /\ pq' \in Seq(GattOps)
       /\ (ph'.st = "none" => ph'.sess = 0) /\ (Live(ph') => ph'.sess # 0)
       /\ \A o \in ToSet(pq') : o.terminal <=> o.frame.type \in Terminal
  BY <1>1, <1>3, <1>4, <1>15, <1>20 DEF IInv, PhoneOk
<1>23. CASE StillValid(op)
  <2>1. op.sess = p.sess /\ (op.terminal \/ p.st # "closed") BY <1>15, <1>23 DEF StillValid
  <2>2. g.type \in Terminal \/ (Live(p) /\ g.epoch = p.epoch)
    <3>1. CASE op.terminal BY <3>1, <1>18
    <3>2. CASE ~op.terminal
      <4>1. p.sess # 0 BY <2>1, <1>17, OpEpochs
      <4>2. p.st # "none" BY <4>1, <1>15 DEF IInv, PhoneOk
      <4>3. Live(p) BY <4>2, <2>1, <3>2 DEF Live, PhChannels
      <4>4. Live(ph) => (op.frame.epoch = ph.epoch <=> op.sess = ph.sess) BY <1>17, OpEpochs
      <4> QED BY <4>3, <4>4, <2>1, <1>7, <1>15
    <3> QED BY <3>1, <3>2
  <2>3. Proto(c, p, te \o y, po2, air, qu, used) BY <2>2, <1>10, <1>16, GattSends
  <2>4. toEsp' = te \o y
    <3>1. toEsp' = Append(te, g) BY <1>3, <1>7, <1>13, <1>23
    <3>2. Append(te, g) = te \o <<g>> OBVIOUS
    <3> QED BY <3>1, <3>2, <1>9
  <2>5. active' = <<op>> BY <1>3, <1>23
  <2>6. ToSet(active') = {op} BY <2>5, SetOne
  <2>7. /\ active' \in Seq(GattOps) /\ Len(active') <= 1
    <3>1. <<op>> \in Seq(GattOps) /\ Len(<<op>>) = 1 BY <1>4
    <3> QED BY <3>1, <2>5
  <2>8. ToSet(toEsp') = ToSet(toEsp) \cup {g} /\ toEsp' \in Seq(Frames)
    <3>1. ToSet(te \o y) = ToSet(te) \cup ToSet(y) BY SetConcat
    <3>2. ToSet(y) = {g} BY <1>9, SetOne
    <3>3. te \o y \in Seq(Frames) OBVIOUS
    <3> QED BY <3>1, <3>2, <3>3, <2>4, <1>13
  <2>9. ReaderOk(p, ToSet(pq'), {op}, used)
    <3>1. op.frame.epoch \in used
      <4>1. ToSet(y \o po2) = ToSet(y) \cup ToSet(po2) BY SetConcat
      <4>2. g \in ToSet(y) BY <1>9, SetOne
      <4>3. PICK po1 \in Seq(Frames) : po1 = y \o po2 BY <1>12
      <4>4. ToSet(te \o po1) = ToSet(te) \cup ToSet(po1) BY SetConcat
      <4>5. g \in ToSet(te \o po1) BY <4>1, <4>2, <4>3, <4>4
      <4>6. Known(c, p, te \o po1, air \o qu, used) BY <4>3, <1>16 DEF Proto
      <4> QED BY <4>5, <4>6, <1>7 DEF Known
    <3>2. ASSUME Live(p), \E o \in ToSet(pq') \cup {op} : OpensMine(p, o)
          PROVE  p.rd = "off" /\ p.st = "ready"
      BY <3>2, <1>4, <1>19 DEF ReaderOk
    <3>3. ASSUME Live(p), OpensMine(p, op), NEW o \in ToSet(pq'), OpensMine(p, o) PROVE FALSE
      <4>1. o.sess = op.sess /\ o.frame.type = "OPENED" BY <3>3 DEF OpensMine
      <4>2. o \in Ops BY <3>3, <1>4 DEF Ops
      <4>3. o.frame.epoch = g.epoch BY <4>1, <4>2, <1>7, <1>17, OpEpochs
      <4>4. PICK po1 \in Seq(Frames) : po1 = y \o po2 BY <1>12
      <4>5. InOrder(te \o po1) BY <4>4, <1>16 DEF Proto
      <4>6. InOrder(y \o po2) BY <4>4, <4>5, OrderConcat
      <4>7. Follows(y, po2) BY <4>6, OrderConcat
      <4>8. g \in ToSet(y) BY <1>9, SetOne
      <4>9. ToSet(po2) = {x.frame : x \in ToSet(q2)} BY <1>6, FramesInSeq, ItemTypes
      <4>10. o.frame \in ToSet(po2) BY <4>9, <3>3, <1>5
      <4> QED BY <4>1, <4>3, <4>7, <4>8, <4>10 DEF Follows
    <3> QED BY <3>1, <3>2, <3>3 DEF ReaderOk
  <2>10. ProtoNow' BY <2>3, <2>4, <1>5, <1>6, <1>11, <1>14, <1>20 DEF ProtoNow
  <2>11. PhoneOk'
    <3>1. ReaderOk(ph', ToSet(pq'), ToSet(active'), used') BY <2>6, <2>9, <1>20
    <3> QED BY <3>1, <2>7, <1>22 DEF PhoneOk
  <2>12. \A f \in ToSet(toEsp') : f \in ToSet(toEsp) \/ \E o \in Ops : f = o.frame
    BY <2>8, <1>7, <1>17
  <2>13. \A o \in ToSet(pq') \cup ToSet(active') : o \in Ops BY <2>6, <1>4, <1>17 DEF Ops
  <2> QED BY <2>8, <2>10, <2>11, <2>12, <2>13, <1>21, PhoneStep
<1>24. CASE ~StillValid(op)
  <2>1. active' = active /\ toEsp' = toEsp BY <1>3, <1>24
  <2>2. ~Live(p) \/ g.epoch # p.epoch
    <3>1. Live(ph) => (op.frame.epoch = ph.epoch <=> op.sess = ph.sess) BY <1>17, OpEpochs
    <3>2. op.sess # ph.sess \/ ~(op.terminal \/ ph.st # "closed") BY <1>24 DEF StillValid
    <3> QED BY <3>1, <3>2, <1>7, <1>15 DEF Live
  <2>3. Proto(c, p, te, po2, air, qu, used) BY <2>2, <1>10, <1>16, GattDrops
  <2>4. ProtoNow' BY <2>1, <2>3, <1>5, <1>6, <1>11, <1>13, <1>14, <1>20 DEF ProtoNow
  <2>5. ToSet(active') = {} BY <2>1, <1>3, SetOne
  <2>6. ReaderOk(ph', ToSet(pq'), ToSet(active'), used')
    BY <2>5, <1>4, <1>19, <1>20 DEF ReaderOk
  <2>7. active' \in Seq(GattOps) /\ Len(active') <= 1 BY <2>1 DEF IInv, PhoneOk
  <2>8. PhoneOk' BY <2>6, <2>7, <1>22 DEF PhoneOk
  <2>9. /\ \A f \in ToSet(toEsp') : f \in ToSet(toEsp)
        /\ toEsp' \in Seq(Frames)
        /\ \A o \in ToSet(pq') \cup ToSet(active') : o \in Ops
    BY <2>1, <1>1, <1>4 DEF Ops
  <2> QED BY <2>4, <2>8, <2>9, <1>21, PhoneStep
<1> QED BY <1>23, <1>24

\* PhoneLinkLost keeps the invariant.
LEMMA PhoneLinkLostStep == ASSUME IInv, PhoneLinkLost PROVE IInv'
<1>1. /\ ph \in PhChannels /\ PhLocal(ph) /\ esp.ch \in EspChannels
      /\ toEsp \in Seq(Frames) /\ toPhone \in Seq(Frames) /\ inHand \in Seq(Frames)
  BY Facts
<1>2. /\ phoneUp' = FALSE /\ ph' = Closed(ph) /\ pq' = <<>> /\ active' = <<>> /\ toPhone' = <<>>
      /\ UNCHANGED <<espVars, toEsp, used, link, sess, phase, written, fetched>>
  BY DEF PhoneLinkLost, history, Nothing
<1>3. /\ inHand' = inHand /\ esp' = esp /\ toEsp' = toEsp /\ used' = used
  BY <1>2 DEF espVars
<1>4. PICK r \in PhChannels : r = Closed(ph) BY <1>1, ClosedTypes DEF PhLocal
<1>5. /\ r.st = "closed" /\ ~Live(r) /\ r.sess = ph.sess /\ r.epoch = ph.epoch /\ PhLocal(r)
      /\ ph' = r
  BY <1>1, <1>2, <1>4, ClosedTypes DEF PhLocal
<1>6. ToSet(pq') = {} /\ ToSet(active') = {} /\ ToSet(toPhone') = {} BY <1>2, SetOne
<1>7. /\ <<>> \in Seq(GattOps) /\ <<>> \in Seq(Frames) /\ Len(<<>>) = 0 OBVIOUS
<1>8. PhoneOk'
  <2>1. ReaderOk(ph', ToSet(pq'), ToSet(active'), used') BY <1>6 DEF ReaderOk
  <2>2. /\ phoneUp' \in BOOLEAN /\ used' \subseteq 0..(EpochNos - 1)
    BY <1>2, <1>3 DEF IInv, PhoneOk
  <2>3. /\ pq' \in Seq(GattOps) /\ active' \in Seq(GattOps) /\ Len(active') <= 1
        /\ toPhone' = <<>> /\ pq' = <<>> /\ active' = <<>>
    BY <1>2, <1>7
  <2> QED BY <2>1, <2>2, <2>3, <1>5, <1>6 DEF PhoneOk
<1>9. ProtoNow'
  <2>1. PICK po \in Seq(Frames), air \in Seq(Frames), qu \in Seq(Frames) :
           /\ po = FramesIn(pq) /\ air = toPhone \o inHand /\ qu = FramesIn(esp.q)
           /\ Proto(esp.ch, ph, toEsp, po, air, qu, used)
    BY ProtoIs
  <2>2. PICK x \in Seq(Frames) : x = toPhone BY <1>1
  <2>3. PICK a \in Seq(Frames) : a = inHand BY <1>1
  <2>4. PICK te \in Seq(Frames) : te = toEsp BY <1>1
  <2>5. Proto(esp.ch, ph, te, po, x \o a, qu, used) BY <2>1, <2>2, <2>3, <2>4
  <2>6. r.st # "ready" BY <1>5
  <2>7. Proto(esp.ch, r, te, <<>>, a, qu, used) BY <2>5, <2>6, <1>5, PhoneLost
  <2>8. FramesIn(pq') = <<>> BY <1>2 DEF FramesIn
  <2>9. toPhone' \o inHand' = a BY <1>2, <1>3, <2>3
  <2> QED BY <2>1, <2>4, <2>7, <2>8, <2>9, <1>3, <1>5 DEF ProtoNow
<1>10. /\ toPhone' \in Seq(Frames) /\ toEsp' \in Seq(Frames) /\ fetched' \in [Sessions -> Nat]
       /\ ToSet(toPhone') \subseteq ToSet(toPhone)
       /\ \A f \in ToSet(toEsp') : f \in ToSet(toEsp)
       /\ \A o \in ToSet(pq') \cup ToSet(active') : o \in Ops
       /\ ph'.sess = ph.sess /\ ph'.epoch = ph.epoch
       /\ \A e \in used' : e \in used
       /\ UNCHANGED <<espVars, link, sess, phase, written>>
  BY <1>1, <1>2, <1>3, <1>5, <1>6, <1>7 DEF IInv, Callers
<1> QED BY <1>8, <1>9, <1>10, PhoneStep

\* A phone without a channel.
LEMMA NoneTypes ==
  ASSUME NEW p \in PhChannels, PhLocal(p)
  PROVE  \E r \in PhChannels :
           /\ r = [Closed(p) EXCEPT !.st = "none", !.sess = 0, !.eof = FALSE, !.next = 0,
                                    !.oldest = 0, !.count = 0, !.expected = 0, !.epoch = 0]
           /\ r.st = "none" /\ r.sess = 0 /\ PhLocal(r) /\ ~Live(r)
<1>1. PICK c : c = Closed(p) OBVIOUS
<1>2. c = [p EXCEPT !.st = "closed", !.rx = <<>>, !.rd = "off", !.wr = "off",
                    !.held = <<>>, !.batch = 0]
  BY <1>1 DEF Closed
<1>3. PICK r : r = [c EXCEPT !.st = "none", !.sess = 0, !.eof = FALSE, !.next = 0,
                             !.oldest = 0, !.count = 0, !.expected = 0, !.epoch = 0]
  OBVIOUS
<1>4. 0 \in SeqNo /\ 0 \in 0..Window /\ 0 \in 0..(EpochNos - 1) /\ 0 \in 0..MaxOpens
  BY RelayAssumption DEF SeqNo
<1>5. c \in PhChannels /\ c.rx = <<>> /\ c.rd = "off" /\ c.wr = "off" /\ c.held = <<>>
      /\ c.batch = 0
  <2>1. c \in PhChannels BY <1>1, ClosedTypes DEF PhLocal
  <2> QED BY <2>1, <1>2 DEF PhChannels
<1>6. r \in PhChannels BY <1>3, <1>4, <1>5 DEF PhChannels
<1>7. /\ r.st = "none" /\ r.sess = 0 /\ r.next = 0 /\ r.oldest = 0 /\ r.count = 0
      /\ r.rx = <<>> /\ r.rd = "off" /\ r.wr = "off" /\ r.held = <<>> /\ r.batch = 0
  BY <1>3, <1>5 DEF PhChannels
<1>8. Len(r.rx) = 0 BY <1>7
<1>9. 0 = (0 + 0) % SeqNos BY <1>4, SeqSmall
<1>10. PhLocal(r) BY <1>7, <1>8, <1>9, RelayAssumption DEF PhLocal
<1> QED BY <1>1, <1>3, <1>6, <1>7, <1>10 DEF Live

\* Reconnect keeps the invariant.
LEMMA ReconnectStep == ASSUME IInv, Reconnect PROVE IInv'
<1>1. /\ ph \in PhChannels /\ PhLocal(ph) /\ esp \in EspStates /\ esp.ch \in EspChannels
      /\ sess \in Nat
  BY Facts
<1>2. /\ ~phoneUp /\ ~esp.up /\ inHand = <<>> /\ link' = link + 1
      /\ esp' = [esp EXCEPT !.up = TRUE] /\ toPhone' = <<>> /\ toEsp' = <<>>
      /\ phoneUp' = TRUE /\ used' = {}
      /\ ph' = [Closed(ph) EXCEPT !.st = "none", !.sess = 0, !.eof = FALSE,
                              !.next = 0, !.oldest = 0, !.count = 0,
                              !.expected = 0, !.epoch = 0]
      /\ UNCHANGED <<client, writer, inHand, pq, active, sess, phase, written, fetched>>
  BY DEF Reconnect, history, Nothing
<1>3. PICK r \in PhChannels :
           /\ r = [Closed(ph) EXCEPT !.st = "none", !.sess = 0, !.eof = FALSE, !.next = 0,
                                    !.oldest = 0, !.count = 0, !.expected = 0, !.epoch = 0]
           /\ r.st = "none" /\ r.sess = 0 /\ PhLocal(r) /\ ~Live(r)
  BY <1>1, NoneTypes
<1>4. ph' = r BY <1>2, <1>3
<1>5. pq = <<>> /\ active = <<>> BY <1>2 DEF IInv, PhoneOk
<1>6. esp.q = <<>> /\ ~InSession(esp.ch) BY <1>2 DEF IInv, EspNow, EspOk
<1>7. PICK e2 : e2 = esp' OBVIOUS
<1>8. /\ e2 \in EspStates /\ e2.up /\ e2.q = <<>> /\ e2.ch = esp.ch
  BY <1>1, <1>2, <1>6, <1>7 DEF EspStates
<1>9. ToSet(e2.q) = {} /\ FramesIn(e2.q) = <<>> /\ ToSet(FramesIn(e2.q)) = {}
  <2>1. FramesIn(e2.q) = <<>> BY <1>8 DEF FramesIn
  <2> QED BY <2>1, <1>8, SetOne
<1>10. EspOk(e2, sess)
  <2>1. EspOk(esp, sess) BY DEF IInv, EspNow
  <2> QED BY <2>1, <1>8, <1>9 DEF EspOk
<1>11. EspNow' BY <1>2, <1>7, <1>10 DEF EspNow
<1>12. Callers'
  <2>1. link' \in Nat BY <1>2 DEF IInv, Callers
  <2> QED BY <2>1, <1>2 DEF IInv, Callers
<1>13. /\ <<>> \in Seq(GattOps) /\ <<>> \in Seq(Frames) /\ Len(<<>>) = 0 OBVIOUS
<1>14. Wires' BY <1>2, <1>13 DEF Wires
<1>15. ToSet(pq') = {} /\ ToSet(active') = {} /\ ToSet(toPhone') = {} /\ ToSet(inHand') = {}
       /\ ToSet(toEsp') = {}
  BY <1>2, <1>5, SetOne
<1>16. PhoneOk'
  <2>1. ReaderOk(ph', ToSet(pq'), ToSet(active'), used') BY <1>15 DEF ReaderOk
  <2>2. /\ pq' \in Seq(GattOps) /\ active' \in Seq(GattOps) /\ Len(active') <= 1
        /\ phoneUp' \in BOOLEAN /\ phoneUp' /\ used' \subseteq 0..(EpochNos - 1)
    BY <1>2, <1>5, <1>13
  <2> QED BY <2>1, <2>2, <1>3, <1>4, <1>15 DEF PhoneOk
<1>17. DatesNow'
  <2>1. PICK e \in 0..(EpochNos - 1) : e = esp.ch.epoch BY <1>1 DEF EspChannels
  <2>2. PICK d \in 0..(EpochNos - 1) : EpochOf(d, sess) = e BY <1>1, EpochStart
  <2>3. Dates(d, sess, e2, {}, {}, {}, r, {}) BY <2>1, <2>2, <1>3, <1>8 DEF Dates
  <2>4. \E k \in 0..(EpochNos - 1) : Dates(k, sess, e2, {}, {}, {}, r, {}) BY <2>3
  <2>5. Forth' = {} /\ Ops' = {} BY <1>7, <1>9, <1>15 DEF Forth, Ops
  <2>6. sess' = sess /\ used' = {} BY <1>2
  <2> QED BY <2>4, <2>5, <2>6, <1>4, <1>7, <1>15 DEF DatesNow
<1>18. ProtoNow'
  <2>1. Proto(esp.ch, r, <<>>, <<>>, <<>>, <<>>, {}) BY <1>3, <1>6, ProtoFresh
  <2>2. FramesIn(pq') = <<>> BY <1>2, <1>5 DEF FramesIn
  <2>3. toPhone' \o inHand' = <<>> BY <1>2
  <2> QED BY <2>1, <2>2, <2>3, <1>2, <1>4, <1>7, <1>8, <1>9 DEF ProtoNow
<1> QED BY <1>11, <1>12, <1>14, <1>16, <1>17, <1>18 DEF IInv

\* The phone takes a frame.
LEMMA PhoneTakesStep ==
  ASSUME IInv, phoneUp, NEW x \in Seq(Frames), NEW tp \in Seq(Frames), toPhone = x \o tp,
         toPhone' = tp, NEW r \in PhChannels, ph' = r, PhLocal(r),
         r.st = "none" => r.sess = 0, Live(r) => r.sess # 0,
         NEW q2 \in Seq(GattOps), pq' = q2, NEW u2, used' = u2, u2 \subseteq 0..(EpochNos - 1),
         \A o \in ToSet(q2) :
           o \in ToSet(pq) \/ /\ r.sess # 0 /\ o.sess = r.sess /\ o.frame.epoch = r.epoch
                              /\ (o.terminal <=> o.frame.type \in Terminal),
         ReaderOk(r, ToSet(q2), ToSet(active), u2),
         \/ r.sess = ph.sess /\ r.epoch = ph.epoch
         \/ \E f \in Forth : f.type = "OPEN" /\ r.sess = f.seq /\ r.epoch = f.epoch,
         \A e \in u2 : e \in used \/ \E f \in Forth : f.epoch = e,
         Proto(esp.ch, r, toEsp, FramesIn(q2), tp \o inHand, FramesIn(esp.q), u2),
         UNCHANGED <<espVars, toEsp, phoneUp, active, link, sess, phase, written, fetched>>
  PROVE  IInv'
<1>1. /\ inHand' = inHand /\ esp' = esp /\ toEsp' = toEsp /\ phoneUp' = phoneUp
      /\ active' = active
  BY DEF espVars
<1>2. PhoneOk'
  <2>1. /\ phoneUp' \in BOOLEAN /\ phoneUp' /\ used' \subseteq 0..(EpochNos - 1)
        /\ active' \in Seq(GattOps) /\ Len(active') <= 1
    BY <1>1 DEF IInv, PhoneOk
  <2>2. \A o \in ToSet(pq') : o.terminal <=> o.frame.type \in Terminal BY DEF IInv, PhoneOk
  <2>3. ReaderOk(ph', ToSet(pq'), ToSet(active'), used') BY <1>1
  <2> QED BY <2>1, <2>2, <2>3 DEF PhoneOk
<1>3. ProtoNow' BY <1>1 DEF ProtoNow
<1>4. ToSet(toPhone') \subseteq ToSet(toPhone)
  <2>1. ToSet(x \o tp) = ToSet(x) \cup ToSet(tp) BY SetConcat
  <2> QED BY <2>1
<1>5. /\ toPhone' \in Seq(Frames) /\ toEsp' \in Seq(Frames) /\ fetched' \in [Sessions -> Nat]
      /\ \A f \in ToSet(toEsp') : f \in ToSet(toEsp)
  BY <1>1 DEF IInv, Wires, Callers
<1>6. \A o \in ToSet(pq') \cup ToSet(active') :
        o \in Ops \/ (ph'.sess # 0 /\ o.sess = ph'.sess /\ o.frame.epoch = ph'.epoch)
  BY <1>1 DEF Ops
<1>7. /\ \/ ph'.sess = ph.sess /\ ph'.epoch = ph.epoch
         \/ \E f \in Forth : f.type = "OPEN" /\ ph'.sess = f.seq /\ ph'.epoch = f.epoch
      /\ \A e \in used' : e \in used \/ \E f \in Forth : f.epoch = e
  OBVIOUS
<1>8. UNCHANGED <<espVars, link, sess, phase, written>> OBVIOUS
<1> QED BY <1>2, <1>3, <1>4, <1>5, <1>6, <1>7, <1>8, PhoneStep

\* The first frame on its way to the phone, and the rest.
LEMMA HeadIs ==
  ASSUME IInv, toPhone # <<>>
  PROVE  \E f \in Frames, x \in Seq(Frames), tp \in Seq(Frames), po \in Seq(Frames),
            a \in Seq(Frames), qu \in Seq(Frames) :
           /\ f = Head(toPhone) /\ tp = Tail(toPhone) /\ toPhone = x \o tp
           /\ x = <<f>> /\ Len(x) = 1 /\ x[1] = f /\ f \in Forth
           /\ po = FramesIn(pq) /\ a = tp \o inHand /\ qu = FramesIn(esp.q)
           /\ Proto(esp.ch, ph, toEsp, po, x \o a, qu, used)
<1>1. PICK s \in Seq(Frames) : s = toPhone BY Facts
<1>2. Head(s) \in Frames /\ Tail(s) \in Seq(Frames) /\ s = <<Head(s)>> \o Tail(s)
  BY <1>1, HeadTail
<1>3. PICK f \in Frames : f = Head(s) BY <1>2
<1>4. PICK tp \in Seq(Frames) : tp = Tail(s) BY <1>2
<1>5. <<f>> \in Seq(Frames) /\ Len(<<f>>) = 1 /\ <<f>>[1] = f OBVIOUS
<1>6. PICK x \in Seq(Frames) : x = <<f>> BY <1>5
<1>7. s = x \o tp BY <1>2, <1>3, <1>4, <1>6
<1>8. PICK h \in Seq(Frames) : h = inHand BY Facts
<1>9. (x \o tp) \o h = x \o (tp \o h) BY FrameAssoc
<1>10. tp \o h \in Seq(Frames) OBVIOUS
<1>11. PICK a \in Seq(Frames) : a = tp \o h BY <1>10
<1>12. PICK po \in Seq(Frames), air \in Seq(Frames), qu \in Seq(Frames) :
           /\ po = FramesIn(pq) /\ air = toPhone \o inHand /\ qu = FramesIn(esp.q)
           /\ Proto(esp.ch, ph, toEsp, po, air, qu, used)
  BY ProtoIs
<1>13. air = x \o a BY <1>1, <1>7, <1>8, <1>9, <1>11, <1>12
<1>14. f \in Forth
  <2>1. ToSet(x \o tp) = ToSet(x) \cup ToSet(tp) BY SetConcat
  <2>2. f \in ToSet(x) BY <1>6, SetOne
  <2> QED BY <2>1, <2>2, <1>1, <1>7 DEF Forth
<1>15. Len(x) = 1 /\ x[1] = f BY <1>5, <1>6
<1>16. /\ f = Head(toPhone) /\ tp = Tail(toPhone) /\ toPhone = x \o tp
       /\ a = tp \o inHand /\ Proto(esp.ch, ph, toEsp, po, x \o a, qu, used)
  BY <1>1, <1>3, <1>4, <1>7, <1>8, <1>11, <1>12, <1>13
<1> QED BY <1>6, <1>12, <1>14, <1>15, <1>16

\* The fields of IInv that a step of the phone needs.
LEMMA PhoneFacts ==
  ASSUME IInv
  PROVE  /\ ph \in PhChannels /\ PhLocal(ph) /\ pq \in Seq(GattOps) /\ esp.ch \in EspChannels
         /\ EspLocal(esp.ch) /\ toEsp \in Seq(Frames) /\ used \subseteq 0..(EpochNos - 1)
         /\ ReaderOk(ph, ToSet(pq), ToSet(active), used)
         /\ (ph.st = "none" => ph.sess = 0) /\ (Live(ph) => ph.sess # 0)
BY Facts DEF IInv, PhoneOk

\* A frame the phone has no use for.
LEMMA PhoneIgnores ==
  ASSUME IInv, phoneUp, toPhone # <<>>, NEW f, f = Head(toPhone), toPhone' = Tail(toPhone),
         ~Live(ph) \/ f.epoch # ph.epoch \/ f.type \notin {"DATA", "ACK"},
         UNCHANGED <<ph, pq, used>>,
         UNCHANGED <<espVars, toEsp, phoneUp, active, link, sess, phase, written, fetched>>
  PROVE  IInv'
<1>1. PICK g \in Frames, x \in Seq(Frames), tp \in Seq(Frames), po \in Seq(Frames),
            a \in Seq(Frames), qu \in Seq(Frames) :
           /\ g = Head(toPhone) /\ tp = Tail(toPhone) /\ toPhone = x \o tp
           /\ x = <<g>> /\ Len(x) = 1 /\ x[1] = g /\ g \in Forth
           /\ po = FramesIn(pq) /\ a = tp \o inHand /\ qu = FramesIn(esp.q)
           /\ Proto(esp.ch, ph, toEsp, po, x \o a, qu, used)
  BY HeadIs
<1>2. PICK p \in PhChannels : p = ph BY PhoneFacts
<1>3. PICK c \in EspChannels : c = esp.ch BY PhoneFacts
<1>4. PICK te \in Seq(Frames) : te = toEsp BY PhoneFacts
<1>5. PICK q \in Seq(GattOps) : q = pq BY PhoneFacts
<1>6. Proto(c, p, te, po, <<g>> \o a, qu, used) BY <1>1, <1>2, <1>3, <1>4
<1>7. ~Live(p) \/ g.epoch # p.epoch \/ g.type \notin {"DATA", "ACK"} BY <1>1, <1>2
<1>8. Proto(c, p, te, po, a, qu, used) BY <1>6, <1>7, PhoneSkips
<1>9. Proto(esp.ch, p, toEsp, FramesIn(q), tp \o inHand, FramesIn(esp.q), used)
  BY <1>1, <1>3, <1>4, <1>5, <1>8
<1>10. PICK u2 : u2 = used OBVIOUS
<1>11. /\ toPhone' = tp /\ ph' = p /\ PhLocal(p) /\ (p.st = "none" => p.sess = 0)
       /\ (Live(p) => p.sess # 0) /\ pq' = q /\ used' = u2 /\ u2 \subseteq 0..(EpochNos - 1)
       /\ \A o \in ToSet(q) : o \in ToSet(pq)
       /\ ReaderOk(p, ToSet(q), ToSet(active), u2)
       /\ p.sess = ph.sess /\ p.epoch = ph.epoch /\ \A e \in u2 : e \in used
  BY <1>1, <1>2, <1>5, <1>10, PhoneFacts
<1>12. Proto(esp.ch, p, toEsp, FramesIn(q), tp \o inHand, FramesIn(esp.q), u2)
  BY <1>9, <1>10
<1>13. toPhone = x \o tp BY <1>1
<1> QED BY <1>11, <1>12, <1>13, PhoneTakesStep

\* The frame is taken by the live channel.
LEMMA PhoneChangesStep ==
  ASSUME IInv, phoneUp, Live(ph), NEW x \in Seq(Frames), NEW tp \in Seq(Frames),
         toPhone = x \o tp, toPhone' = tp, NEW r \in PhChannels, ph' = r, PhLocal(r),
         r.sess = ph.sess, r.epoch = ph.epoch, r.st = "ready", ph.st = "ready", r.rd = ph.rd,
         Proto(esp.ch, r, toEsp, FramesIn(pq), tp \o inHand, FramesIn(esp.q), used),
         UNCHANGED <<pq, used>>,
         UNCHANGED <<espVars, toEsp, phoneUp, active, link, sess, phase, written, fetched>>
  PROVE  IInv'
<1>1. PICK q \in Seq(GattOps) : q = pq BY PhoneFacts
<1>2. PICK u2 : u2 = used OBVIOUS
<1>3. ReaderOk(r, ToSet(q), ToSet(active), u2)
  <2>1. ReaderOk(ph, ToSet(q), ToSet(active), u2) BY <1>1, <1>2, PhoneFacts
  <2> QED BY <2>1, ReaderKeeps
<1>4. Proto(esp.ch, r, toEsp, FramesIn(q), tp \o inHand, FramesIn(esp.q), u2)
  BY <1>1, <1>2
<1>5. /\ (r.st = "none" => r.sess = 0) /\ (Live(r) => r.sess # 0)
      /\ pq' = q /\ used' = u2 /\ u2 \subseteq 0..(EpochNos - 1)
      /\ \A o \in ToSet(q) : o \in ToSet(pq)
      /\ \A e \in u2 : e \in used
  BY <1>1, <1>2, PhoneFacts
<1> QED BY <1>3, <1>4, <1>5, PhoneTakesStep

\* The channel that takes a DATA frame.
PhPush(p, f) ==
  [p EXCEPT !.expected = NextSeq(@), !.rx = Append(@, f), !.wr = Schedule(@)]
\* The channel that takes an ACK.
PhAck(p) == [p EXCEPT !.oldest = NextSeq(@), !.count = @ - 1]

\* What receive() does with a frame of its channel.
LEMMA FrameCases ==
  ASSUME NEW f, PhoneFrame(f)
  PROVE  \/ /\ f.type = "DATA" /\ PhoneAccepts(f) /\ ph' = PhPush(ph, f) /\ pq' = pq
         \/ /\ f.type = "ACK" /\ ph.count > 0 /\ f.seq = ph.oldest
            /\ IF AckEnds(PhAck(ph))
               THEN /\ ph' = Closed(PhAck(ph))
                    /\ pq' = Emit(pq, PhAck(ph), "CLOSE", 0, <<>>, TRUE)
               ELSE ph' = PhAck(ph) /\ pq' = pq
         \/ \E ty \in Terminal : ph' = Closed(ph) /\ pq' = Emit(pq, ph, ty, 0, <<>>, TRUE)
<1>1. CASE f.type = "DATA" /\ PhoneAccepts(f) BY <1>1, Zenon DEF PhoneFrame, PhPush
<1>2. CASE f.type = "ACK" /\ ph.count > 0 /\ f.seq = ph.oldest
  <2>1. ~(f.type = "DATA") BY <1>2
  <2> QED BY <1>2, <2>1, Zenon DEF PhoneFrame, PhAck
<1>3. CASE /\ ~(f.type = "DATA" /\ PhoneAccepts(f))
           /\ ~(f.type = "ACK" /\ ph.count > 0 /\ f.seq = ph.oldest)
  <2>1. CloseChannel("CLOSE") \/ CloseChannel("ERROR") BY <1>3, Zenon DEF PhoneFrame
  <2>2. "CLOSE" \in Terminal /\ "ERROR" \in Terminal BY DEF Terminal
  <2> QED BY <2>1, <2>2, Zenon DEF CloseChannel
<1> QED BY <1>1, <1>2, <1>3

\* The fields of PhPush.
LEMMA PhPushTypes ==
  ASSUME NEW p \in PhChannels, PhLocal(p), p.st = "ready", Len(p.rx) < Window,
         NEW f \in Frames
  PROVE  /\ PhPush(p, f) \in PhChannels /\ PhLocal(PhPush(p, f))
         /\ PhPush(p, f).st = "ready" /\ PhPush(p, f).sess = p.sess
         /\ PhPush(p, f).epoch = p.epoch /\ PhPush(p, f).oldest = p.oldest
         /\ PhPush(p, f).expected = NextSeq(p.expected) /\ PhPush(p, f).count = p.count
         /\ PhPush(p, f).rx = Append(p.rx, f) /\ PhPush(p, f).rd = p.rd
<1>1. PICK m \in SeqNo : m = NextSeq(p.expected) BY PhFields, SeqSmall
<1>2. PICK s \in Seq(Frames) : s = p.rx BY PhFields
<1>3. Append(s, f) \in Seq(Frames) /\ Len(Append(s, f)) = Len(s) + 1 /\ Len(s) \in Nat
  OBVIOUS
<1>4. PICK t \in Seq(Frames) : t = Append(s, f) BY <1>3
<1>5. Schedule(p.wr) \in {"off", "take", "write", "ack"}
      /\ (Schedule(p.wr) \in {"write", "ack"} => p.wr = Schedule(p.wr))
  BY DEF PhChannels, Schedule
<1>6. PICK w \in {"off", "take", "write", "ack"} : w = Schedule(p.wr) BY <1>5
<1>7. PICK r : r = [p EXCEPT !.expected = m, !.rx = t, !.wr = w] OBVIOUS
<1>8. r = PhPush(p, f) BY <1>1, <1>2, <1>4, <1>6, <1>7 DEF PhPush
<1>9. r \in PhChannels BY <1>7 DEF PhChannels
<1>10. /\ r.st = p.st /\ r.sess = p.sess /\ r.epoch = p.epoch /\ r.count = p.count
       /\ r.oldest = p.oldest /\ r.expected = m /\ r.rx = t /\ r.rd = p.rd
       /\ r.wr = w /\ r.held = p.held /\ r.next = p.next /\ r.batch = p.batch
  BY <1>7 DEF PhChannels
<1>11. Len(t) <= Window /\ Len(t) = Len(s) + 1 BY <1>2, <1>3, <1>4, RelayAssumption
<1>12. w \in {"write", "ack"} => p.batch \in 1..Len(t)
  <2>1. w \in {"write", "ack"} => p.batch \in 1..Len(s) BY <1>2, <1>5, <1>6 DEF PhLocal
  <2>2. 1..Len(s) \subseteq 1..Len(t) BY <1>3, <1>11
  <2> QED BY <2>1, <2>2
<1>13. PhLocal(r) BY <1>10, <1>11, <1>12 DEF PhLocal, Live
<1> QED BY <1>1, <1>2, <1>4, <1>8, <1>9, <1>10, <1>13

\* The fields of PhAck.
LEMMA PhAckTypes ==
  ASSUME NEW p \in PhChannels, PhLocal(p), p.st = "ready", p.count > 0
  PROVE  /\ PhAck(p) \in PhChannels /\ PhLocal(PhAck(p))
         /\ PhAck(p).st = "ready" /\ PhAck(p).sess = p.sess
         /\ PhAck(p).epoch = p.epoch /\ PhAck(p).oldest = NextSeq(p.oldest)
         /\ PhAck(p).expected = p.expected /\ PhAck(p).count = p.count - 1
         /\ PhAck(p).rx = p.rx /\ PhAck(p).rd = p.rd
<1>1. PICK m \in SeqNo : m = NextSeq(p.oldest) BY PhFields, SeqSmall
<1>2. p.oldest \in Nat /\ p.count \in Nat /\ p.count <= Window
  BY PhFields, RelayAssumption DEF SeqNo
<1>3. PICK n \in Nat : p.count = n + 1 BY <1>2
<1>4. n \in 0..Window /\ n = p.count - 1 /\ n < p.count BY <1>2, <1>3, RelayAssumption
<1>5. PICK r : r = [p EXCEPT !.oldest = m, !.count = n] OBVIOUS
<1>6. r = PhAck(p) BY <1>1, <1>4, <1>5 DEF PhAck
<1>7. r \in PhChannels BY <1>4, <1>5 DEF PhChannels
<1>8. /\ r.st = p.st /\ r.sess = p.sess /\ r.epoch = p.epoch /\ r.count = n
      /\ r.oldest = m /\ r.expected = p.expected /\ r.rx = p.rx /\ r.rd = p.rd
      /\ r.wr = p.wr /\ r.held = p.held /\ r.next = p.next /\ r.batch = p.batch
  BY <1>5 DEF PhChannels
<1>9. p.next = (m + n) % SeqNos
  <2>1. PICK o \in Nat : o = p.oldest BY <1>2
  <2>2. p.next = (o + (n + 1)) % SeqNos BY <2>1, <1>3 DEF PhLocal
  <2>3. PICK a \in Int : a = o + 1 OBVIOUS
  <2>4. (a + n) % SeqNos = ((a % SeqNos) + n) % SeqNos BY SeqSum
  <2>5. m = a % SeqNos BY <1>1, <2>1, <2>3 DEF NextSeq
  <2>6. o + (n + 1) = a + n BY <2>3
  <2> QED BY <2>2, <2>4, <2>5, <2>6
<1>10. n < Window BY <1>2, <1>4, RelayAssumption
<1>11. PhLocal(r) BY <1>8, <1>9, <1>10 DEF PhLocal, Live
<1> QED BY <1>1, <1>4, <1>6, <1>7, <1>8, <1>11

\* PhoneHearsData for a channel that is given.
LEMMA PhHearsData ==
  ASSUME NEW c \in EspChannels, NEW p \in PhChannels, NEW p2 \in PhChannels,
         NEW te \in Seq(Frames), NEW po \in Seq(Frames),
         NEW air \in Seq(Frames), NEW qu \in Seq(Frames), NEW u, NEW f \in Frames,
         NEW x \in Seq(Frames), Len(x) = 1, x[1] = f,
         Live(p), Of(f, "DATA", p.epoch),
         Proto(c, p, te, po, x \o air, qu, u),
         p2.st = "ready", p2.epoch = p.epoch, p2.oldest = p.oldest,
         p2.expected = NextSeq(p.expected), p2.count = p.count, p2.rx = Append(p.rx, f)
  PROVE  Proto(c, p2, te, po, air, qu, u)
BY PhoneHearsData

\* PhoneHearsAck for a channel that is given.
LEMMA PhHearsAck ==
  ASSUME NEW c \in EspChannels, NEW p \in PhChannels, NEW p2 \in PhChannels,
         NEW te \in Seq(Frames), NEW po \in Seq(Frames),
         NEW air \in Seq(Frames), NEW qu \in Seq(Frames), NEW u, NEW f \in Frames,
         NEW x \in Seq(Frames), Len(x) = 1, x[1] = f,
         Live(p), Of(f, "ACK", p.epoch), PhLocal(p),
         Proto(c, p, te, po, x \o air, qu, u),
         p2.st = "ready", p2.epoch = p.epoch, p2.oldest = NextSeq(p.oldest),
         p2.expected = p.expected, p2.count = p.count - 1, p2.rx = p.rx
  PROVE  Proto(c, p2, te, po, air, qu, u)
BY PhoneHearsAck

\* The next ACK for a live channel is for its oldest pending frame.
LEMMA PhAckIsNext ==
  ASSUME NEW c, NEW p \in PhChannels,
         NEW te, NEW po,
         NEW air \in Seq(Frames), NEW qu, NEW u, NEW f \in Frames,
         NEW x \in Seq(Frames), Len(x) = 1, x[1] = f,
         Live(p), Of(f, "ACK", p.epoch), PhLocal(p),
         Proto(c, p, te, po, x \o air, qu, u)
  PROVE  p.st = "ready" /\ f.seq = p.oldest /\ p.count > 0
<1>1. x = <<f>> OBVIOUS
<1>2. Side(x \o air, p.oldest, p.count, p.expected, Len(p.rx), p.epoch)
  BY Zenon DEF Proto, Sides
<1>3. f.seq = p.oldest /\ p.count > 0 BY <1>1, <1>2, PhFields, SideAck
<1> QED BY <1>3 DEF PhLocal, Live

\* The next DATA for a live channel is the expected one, finds room and finds
\* a socket.
LEMMA PhDataIsNext ==
  ASSUME NEW c, NEW p \in PhChannels,
         NEW te, NEW po,
         NEW air \in Seq(Frames), NEW qu, NEW u, NEW f \in Frames,
         NEW x \in Seq(Frames), Len(x) = 1, x[1] = f,
         Live(p), Of(f, "DATA", p.epoch),
         Proto(c, p, te, po, x \o air, qu, u)
  PROVE  p.st = "ready" /\ f.seq = p.expected /\ Len(p.rx) < Window
<1>1. x = <<f>> OBVIOUS
<1>2. Sides(c, p, te, x \o air) BY DEF Proto
<1>3. Side(x \o air, p.oldest, p.count, p.expected, Len(p.rx), p.epoch)
  BY <1>2 DEF Sides
<1>4. f.seq = p.expected /\ Len(p.rx) < Window BY <1>1, <1>3, PhFields, SideTake
<1>5. f \in ToSet(x \o air) BY <1>1, AppendSet
<1> QED BY <1>2, <1>4, <1>5 DEF Sides, Live

\* receive() of a frame of the live channel keeps the invariant.
LEMMA PhFrameStep ==
  ASSUME IInv, phoneUp, toPhone # <<>>, NEW f, f = Head(toPhone), toPhone' = Tail(toPhone),
         Live(ph), ph.epoch = f.epoch, PhoneFrame(f), UNCHANGED used,
         UNCHANGED <<espVars, toEsp, phoneUp, active, link, sess, phase, written, fetched>>
  PROVE  IInv'
<1>1. PICK g \in Frames, x \in Seq(Frames), tp \in Seq(Frames), po \in Seq(Frames),
            a \in Seq(Frames), qu \in Seq(Frames) :
           /\ g = Head(toPhone) /\ tp = Tail(toPhone) /\ toPhone = x \o tp
           /\ x = <<g>> /\ Len(x) = 1 /\ x[1] = g /\ g \in Forth
           /\ po = FramesIn(pq) /\ a = tp \o inHand /\ qu = FramesIn(esp.q)
           /\ Proto(esp.ch, ph, toEsp, po, x \o a, qu, used)
  BY HeadIs
<1>2. g = f /\ toPhone' = tp /\ toPhone = x \o tp BY <1>1
<1>3. PICK p \in PhChannels : p = ph BY PhoneFacts
<1>4. PICK c \in EspChannels : c = esp.ch BY PhoneFacts
<1>5. PICK te \in Seq(Frames) : te = toEsp BY PhoneFacts
<1>6. Proto(c, p, te, po, x \o a, qu, used) BY <1>1, <1>3, <1>4, <1>5
<1>7. PhLocal(p) /\ Live(p) /\ g.epoch = p.epoch BY <1>2, <1>3, PhoneFacts
<1>9. ASSUME f.type = "DATA", PhoneAccepts(f), ph' = PhPush(ph, f), pq' = pq PROVE IInv'
  <2>1. p.st = "ready" /\ Len(p.rx) < Window BY <1>3, <1>9 DEF PhoneAccepts
  <2>2. PhPush(p, g) \in PhChannels BY <2>1, <1>7, PhPushTypes
  <2>3. PICK r \in PhChannels : r = PhPush(p, g) BY <2>2
  <2>4. /\ PhLocal(r) /\ r.st = "ready" /\ r.sess = p.sess /\ r.epoch = p.epoch
        /\ r.oldest = p.oldest /\ r.expected = NextSeq(p.expected) /\ r.count = p.count
        /\ r.rx = Append(p.rx, g) /\ r.rd = p.rd
    BY <2>1, <2>3, <1>7, PhPushTypes
  <2>5. Of(g, "DATA", p.epoch) BY <1>2, <1>7, <1>9 DEF Of
  <2>6. Proto(c, r, te, po, a, qu, used) BY <2>4, <2>5, <1>1, <1>6, <1>7, PhHearsData
  <2>7. Proto(esp.ch, r, toEsp, FramesIn(pq), tp \o inHand, FramesIn(esp.q), used)
    BY <2>6, <1>1, <1>4, <1>5
  <2>8. /\ ph' = r /\ r.sess = ph.sess /\ r.epoch = ph.epoch /\ ph.st = "ready" /\ r.rd = ph.rd
        /\ UNCHANGED <<pq, used>>
    BY <2>1, <2>3, <2>4, <1>2, <1>3, <1>9
  <2> QED BY <2>4, <2>7, <2>8, <1>2, PhoneChangesStep
<1>10. ASSUME f.type = "ACK", ph.count > 0, f.seq = ph.oldest,
              IF AckEnds(PhAck(ph))
               THEN /\ ph' = Closed(PhAck(ph))
                    /\ pq' = Emit(pq, PhAck(ph), "CLOSE", 0, <<>>, TRUE)
               ELSE ph' = PhAck(ph) /\ pq' = pq
       PROVE  IInv'
  <2>0. Of(g, "ACK", p.epoch) BY <1>2, <1>7, <1>10 DEF Of
  <2>1. p.st = "ready" /\ p.count > 0
    <3>1. p.count > 0 BY <1>3, <1>10
    <3> QED BY <3>1, <1>7 DEF PhLocal, Live
  <2>2. PhAck(p) \in PhChannels BY <2>1, <1>7, PhAckTypes
  <2>3. PICK r \in PhChannels : r = PhAck(p) BY <2>2
  <2>4. /\ PhLocal(r) /\ r.st = "ready" /\ r.sess = p.sess /\ r.epoch = p.epoch
        /\ r.oldest = NextSeq(p.oldest) /\ r.expected = p.expected /\ r.count = p.count - 1
        /\ r.rx = p.rx /\ r.rd = p.rd
    BY <2>1, <2>3, <1>7, PhAckTypes
  <2>5. CASE AckEnds(r)
    <3>1. PICK ty \in Terminal : ty = "CLOSE" BY DEF Terminal
    <3>2. ph' = Closed(r) /\ pq' = Emit(pq, r, ty, 0, <<>>, TRUE)
      BY <2>3, <2>5, <3>1, <1>3, <1>10
    <3>3. /\ r.epoch = ph.epoch /\ r.sess = ph.sess
          /\ r.next = (r.oldest + r.count) % SeqNos
      BY <2>4, <1>3 DEF PhLocal
    <3>4. toPhone' \in Seq(Frames) /\ toPhone = x \o toPhone' BY <1>2
    <3>5. UNCHANGED <<espVars, toEsp, phoneUp, used, active, link, sess, phase, written, fetched>>
      OBVIOUS
    <3> QED BY <3>2, <3>3, <3>4, <3>5, PhoneClosesStep
  <2>6. CASE ~AckEnds(r)
    <3>1. ph' = r /\ pq' = pq BY <2>3, <2>6, <1>3, <1>10
    <3>2. Proto(c, r, te, po, a, qu, used) BY <2>0, <2>4, <1>1, <1>6, <1>7, PhHearsAck
    <3>3. Proto(esp.ch, r, toEsp, FramesIn(pq), tp \o inHand, FramesIn(esp.q), used)
      BY <3>2, <1>1, <1>4, <1>5
    <3>4. /\ r.sess = ph.sess /\ r.epoch = ph.epoch /\ ph.st = "ready" /\ r.rd = ph.rd
          /\ UNCHANGED <<pq, used>>
      BY <2>1, <2>4, <3>1, <1>3
    <3> QED BY <2>4, <3>1, <3>3, <3>4, <1>2, PhoneChangesStep
  <2> QED BY <2>5, <2>6
<1>11. ASSUME NEW ty \in Terminal, ph' = Closed(ph), pq' = Emit(pq, ph, ty, 0, <<>>, TRUE)
       PROVE  IInv'
  <2>1. ph' = Closed(p) /\ pq' = Emit(pq, p, ty, 0, <<>>, TRUE) BY <1>3, <1>11
  <2>2. /\ p.epoch = ph.epoch /\ p.sess = ph.sess
        /\ p.next = (p.oldest + p.count) % SeqNos
    BY <1>3, <1>7 DEF PhLocal
  <2>3. toPhone' \in Seq(Frames) /\ toPhone = x \o toPhone' BY <1>2
  <2>4. UNCHANGED <<espVars, toEsp, phoneUp, used, active, link, sess, phase, written, fetched>>
    OBVIOUS
  <2> QED BY <2>1, <2>2, <2>3, <2>4, PhoneClosesStep
<1> QED BY <1>9, <1>10, <1>11, FrameCases

\* The channel that receive(OPEN) makes.
Fresh(f) ==
  [st |-> "connecting", epoch |-> f.epoch, sess |-> f.seq,
   rd |-> "off", held |-> <<>>, eof |-> FALSE, next |-> 0,
   oldest |-> 0, count |-> 0, expected |-> 0, rx |-> <<>>,
   wr |-> "off", batch |-> 0]

\* The fields of Fresh.
LEMMA FreshTypes ==
  ASSUME NEW f \in Frames, f.seq \in 1..MaxOpens
  PROVE  /\ Fresh(f) \in PhChannels /\ PhLocal(Fresh(f)) /\ Live(Fresh(f))
         /\ Fresh(f).st = "connecting" /\ Fresh(f).epoch = f.epoch /\ Fresh(f).sess = f.seq
         /\ Fresh(f).count = 0 /\ Fresh(f).oldest = 0 /\ Fresh(f).expected = 0
         /\ Fresh(f).rx = <<>> /\ Fresh(f).next = 0
<1>1. PICK n \in 1..MaxOpens : n = f.seq OBVIOUS
<1>2. PICK e \in 0..(EpochNos - 1) : e = f.epoch BY DEF Frames
<1>3. PICK r : r = [st |-> "connecting", epoch |-> e, sess |-> n,
                    rd |-> "off", held |-> <<>>, eof |-> FALSE, next |-> 0,
                    oldest |-> 0, count |-> 0, expected |-> 0, rx |-> <<>>,
                    wr |-> "off", batch |-> 0] OBVIOUS
<1>4. r = Fresh(f) BY <1>1, <1>2, <1>3 DEF Fresh
<1>5. 0 \in SeqNo /\ 0 \in 0..Window /\ n \in 0..MaxOpens /\ 0 \in Nat
  BY <1>1, RelayAssumption DEF SeqNo
<1>6. <<>> \in Seq(Bytes) /\ <<>> \in Seq(Frames) OBVIOUS
<1>7. r \in PhChannels BY <1>3, <1>5, <1>6 DEF PhChannels
<1>8. /\ r.st = "connecting" /\ r.epoch = e /\ r.sess = n /\ r.rd = "off" /\ r.held = <<>>
      /\ r.eof = FALSE /\ r.next = 0 /\ r.oldest = 0 /\ r.count = 0 /\ r.expected = 0
      /\ r.rx = <<>> /\ r.wr = "off" /\ r.batch = 0
  BY <1>3
<1>9. Len(r.rx) = 0 BY <1>8
<1>10. 0 = (0 + 0) % SeqNos BY <1>5, SeqSmall
<1>11. PhLocal(r) /\ Live(r) BY <1>8, <1>9, <1>10, RelayAssumption DEF PhLocal, Live
<1> QED BY <1>1, <1>2, <1>4, <1>7, <1>8, <1>11

\* An OPEN of a new epoch is of a session the phone has heard nothing of.
LEMMA OpenIsNew ==
  ASSUME IInv, NEW f \in Forth, f.type = "OPEN", f.epoch \notin used
  PROVE  f.seq \in 1..MaxOpens /\ \A o \in Ops : o.sess # f.seq
<1>1. PICK d \in 0..(EpochNos - 1) : Dates(d, sess, esp, Forth, ToSet(toEsp), Ops, ph, used)
  BY DEF IInv, DatesNow
<1>2. f.seq \in 1..sess /\ f.epoch = EpochOf(d, f.seq) BY <1>1 DEF Dates, Sent
<1>3. \A o \in Ops : o.frame.epoch = EpochOf(d, o.sess) BY <1>1 DEF Dates, OpDated
<1>4. ASSUME NEW o \in Ops PROVE o.frame.epoch \in used
  <2>1. CASE o \in ToSet(active) BY <2>1 DEF IInv, PhoneOk, ReaderOk
  <2>2. CASE o \in ToSet(pq)
    <3>1. PICK q \in Seq(GattOps) : q = pq BY PhoneFacts
    <3>2. PICK te \in Seq(Frames) : te = toEsp BY PhoneFacts
    <3>3. PICK po \in Seq(Frames) : po = FramesIn(q) BY FramesInSeq, ItemTypes
    <3>4. ToSet(po) = {x.frame : x \in ToSet(q)} BY <3>3, FramesInSeq, ItemTypes
    <3>5. ToSet(te \o po) = ToSet(te) \cup ToSet(po) BY SetConcat
    <3>6. o.frame \in ToSet(te \o po) BY <2>2, <3>1, <3>4, <3>5
    <3>7. \A g \in ToSet(te \o po) : g.epoch \in used
      BY <3>1, <3>2, <3>3 DEF IInv, ProtoNow, Proto, Known
    <3> QED BY <3>6, <3>7
  <2> QED BY <2>1, <2>2 DEF Ops
<1>5. sess \in Nat /\ sess <= MaxOpens BY Facts
<1> QED BY <1>2, <1>3, <1>4, <1>5, RelayAssumption

\* ReaderOk of a channel that no write is of.
LEMMA ReaderFresh ==
  ASSUME NEW p, NEW P, NEW A, NEW u, NEW v, NEW q, ReaderOk(q, P, A, u), u \subseteq v,
         \A o \in P \cup A : o.sess # p.sess
  PROVE  ReaderOk(p, P, A, v)
BY DEF ReaderOk, OpensMine

\* receive(OPEN) keeps the invariant.
LEMMA PhoneOpenStep ==
  ASSUME IInv, phoneUp, toPhone # <<>>, NEW f, f = Head(toPhone), toPhone' = Tail(toPhone),
         f.type = "OPEN", NEW allowed \in BOOLEAN, PhoneOpen(f, allowed),
         UNCHANGED <<espVars, toEsp, phoneUp, active, link, sess, phase, written, fetched>>
  PROVE  IInv'
<1>1. PICK g \in Frames, x \in Seq(Frames), tp \in Seq(Frames), po \in Seq(Frames),
            a \in Seq(Frames), qu \in Seq(Frames) :
           /\ g = Head(toPhone) /\ tp = Tail(toPhone) /\ toPhone = x \o tp
           /\ x = <<g>> /\ Len(x) = 1 /\ x[1] = g /\ g \in Forth
           /\ po = FramesIn(pq) /\ a = tp \o inHand /\ qu = FramesIn(esp.q)
           /\ Proto(esp.ch, ph, toEsp, po, x \o a, qu, used)
  BY HeadIs
<1>2. g = f /\ toPhone' = tp /\ toPhone = x \o tp BY <1>1
<1>3. CASE f.epoch \in used
  <2>1. UNCHANGED <<ph, pq, used>> BY <1>3 DEF PhoneOpen
  <2> QED BY <2>1, PhoneIgnores
<1>4. CASE f.epoch \notin used
  <2>1. g.seq \in 1..MaxOpens /\ \A o \in Ops : o.sess # g.seq BY <1>1, <1>2, <1>4, OpenIsNew
  <2>2. Fresh(g) \in PhChannels BY <2>1, FreshTypes
  <2>3. PICK n \in PhChannels : n = Fresh(g) BY <2>2
  <2>4. /\ PhLocal(n) /\ Live(n) /\ n.st = "connecting" /\ n.epoch = g.epoch /\ n.sess = g.seq
        /\ n.count = 0 /\ n.oldest = 0 /\ n.expected = 0 /\ n.rx = <<>> /\ n.next = 0
    BY <2>1, <2>3, FreshTypes
  <2>5. /\ used' = used \cup {f.epoch}
        /\ \/ allowed /\ ph' = Fresh(f) /\ pq' = pq
           \/ ~allowed /\ ph' = Closed(Fresh(f)) /\ pq' = Emit(pq, Fresh(f), "ERROR", 0, <<>>, TRUE)
    BY <1>4, Zenon DEF PhoneOpen, Fresh, Refuse
  <2>6. PICK u2 : u2 = used \cup {g.epoch} OBVIOUS
  <2>7. /\ used' = u2 /\ u2 \subseteq 0..(EpochNos - 1)
        /\ \A e \in u2 : e \in used \/ \E h \in Forth : h.epoch = e
    <3>1. g.epoch \in 0..(EpochNos - 1) BY DEF Frames
    <3>2. used \subseteq 0..(EpochNos - 1) BY PhoneFacts
    <3> QED BY <1>1, <1>2, <2>5, <2>6, <3>1, <3>2
  <2>8. n.sess # 0 BY <2>1, <2>4, RelayAssumption
  <2>9. PICK c \in EspChannels : c = esp.ch BY PhoneFacts
  <2>10. PICK te \in Seq(Frames) : te = toEsp BY PhoneFacts
  <2>11. PICK q \in Seq(GattOps) : q = pq BY PhoneFacts
  <2>12. PICK p \in PhChannels : p = ph BY PhoneFacts
  <2>13. Proto(c, p, te, po, x \o a, qu, used) /\ EspLocal(c)
    BY <1>1, <2>9, <2>10, <2>12, PhoneFacts
  <2>14. \A o \in ToSet(q) \cup ToSet(active) : o.sess # n.sess BY <2>1, <2>4, <2>11 DEF Ops
  <2>15. ReaderOk(p, ToSet(q), ToSet(active), used) BY <2>11, <2>12, PhoneFacts
  <2>16. ASSUME allowed, ph' = Fresh(f), pq' = pq PROVE IInv'
    <3>1. ph' = n /\ pq' = q BY <1>2, <2>3, <2>11, <2>16
    <3>2. ReaderOk(n, ToSet(q), ToSet(active), u2)
      <4>1. used \subseteq u2 BY <2>6
      <4> QED BY <4>1, <2>14, <2>15, ReaderFresh
    <3>3. Proto(c, n, te, po, a, qu, u2)
      <4>1. g.epoch \notin used BY <1>2, <1>4
      <4>2. Proto(c, n, te, po, a, qu, used \cup {g.epoch})
        BY <4>1, <2>4, <2>13, PhoneOpens
      <4> QED BY <4>2, <2>6
    <3>4. Proto(esp.ch, n, toEsp, FramesIn(q), tp \o inHand, FramesIn(esp.q), u2)
      BY <3>3, <1>1, <2>9, <2>10, <2>11
    <3>5. /\ n.st = "none" => n.sess = 0
          /\ Live(n) => n.sess # 0
          /\ \A o \in ToSet(q) : o \in ToSet(pq)
          /\ \E h \in Forth : h.type = "OPEN" /\ n.sess = h.seq /\ n.epoch = h.epoch
      BY <1>1, <1>2, <2>4, <2>8, <2>11
    <3> QED BY <3>1, <3>2, <3>4, <3>5, <1>2, <2>4, <2>7, PhoneTakesStep
  <2>17. ASSUME ~allowed, ph' = Closed(Fresh(f)), pq' = Emit(pq, Fresh(f), "ERROR", 0, <<>>, TRUE)
         PROVE  IInv'
    <3>1. Closed(n) \in PhChannels BY <2>4, ClosedTypes DEF PhLocal
    <3>2. PICK r \in PhChannels : r = Closed(n) BY <3>1
    <3>3. /\ r.st = "closed" /\ ~Live(r) /\ r.sess = n.sess /\ r.epoch = n.epoch /\ PhLocal(r)
      BY <2>4, <3>2, ClosedTypes DEF PhLocal
    <3>0. <<>> \in Seq(Bytes) OBVIOUS
    <3>4. PICK z \in Seq(Bytes) : z = <<>> BY <3>0
    <3>5. PICK k \in Nat : k = 0 OBVIOUS
    <3>6. PICK ty \in FrameTypes : ty = "ERROR" BY DEF FrameTypes
    <3>7. PICK q2 : q2 = Emit(q, n, ty, k, z, TRUE) OBVIOUS
    <3>8. ty \in Terminal /\ q2 = Emit(q, n, ty, k, z, TRUE) BY <3>6, <3>7 DEF Terminal
    <3>9. PICK o \in GattOps : OpOf(o, n, ty, k) /\ Joins(q, q2, o) BY <3>8, EmitOp
    <3>10. pq' = q2 BY <1>2, <2>3, <2>11, <2>17, <3>4, <3>5, <3>6, <3>7
    <3>11. /\ o.frame \in Frames /\ o.frame.type = ty /\ o.frame.epoch = n.epoch
           /\ o.sess = n.sess /\ (o.terminal <=> ty \in Terminal)
           /\ q2 \in Seq(GattOps) /\ ToSet(q2) = ToSet(q) \cup {o}
           /\ FramesIn(q2) = FramesIn(q) \o <<o.frame>>
      BY <3>9 DEF OpOf, Joins
    <3>12. PICK h \in Frames : h = o.frame BY <3>11
    <3>13. Proto(c, r, te, po \o <<h>>, a, qu, u2)
      <4>1. /\ ~Live(r) /\ r.st # "ready" /\ h.type \in Terminal /\ used \subseteq u2
            /\ h.epoch \notin used /\ h.epoch \in u2
        BY <1>2, <1>4, <2>4, <2>6, <3>3, <3>8, <3>11, <3>12
      <4> QED BY <4>1, <2>13, PhoneCloses
    <3>14. Proto(esp.ch, r, toEsp, FramesIn(q2), tp \o inHand, FramesIn(esp.q), u2)
      BY <3>11, <3>12, <3>13, <1>1, <2>9, <2>10, <2>11
    <3>15. ReaderOk(r, ToSet(q2), ToSet(active), u2)
      <4>1. \A b \in ToSet(active) : b.frame.epoch \in u2
        BY <2>15, <2>6 DEF ReaderOk
      <4> QED BY <4>1, <3>3, ReaderClosed
    <3>16. /\ r.st = "none" => r.sess = 0
           /\ Live(r) => r.sess # 0
           /\ \E w \in Forth : w.type = "OPEN" /\ r.sess = w.seq /\ r.epoch = w.epoch
      BY <1>1, <1>2, <2>4, <3>3
    <3>17. \A b \in ToSet(q2) :
             b \in ToSet(pq) \/ /\ r.sess # 0 /\ b.sess = r.sess /\ b.frame.epoch = r.epoch
                                /\ (b.terminal <=> b.frame.type \in Terminal)
      BY <2>8, <2>11, <3>3, <3>11
    <3>18. ph' = r /\ q2 \in Seq(GattOps) BY <1>2, <2>3, <2>17, <3>2, <3>11
    <3> QED BY <3>3, <3>10, <3>14, <3>15, <3>16, <3>17, <3>18, <1>2, <2>7, PhoneTakesStep
  <2> QED BY <2>5, <2>16, <2>17
<1> QED BY <1>3, <1>4

\* PhoneReceive keeps the invariant.
LEMMA PhoneReceiveStep == ASSUME IInv, NEW allowed \in BOOLEAN, PhoneReceive(allowed) PROVE IInv'
<1>1. PICK f : f = Head(toPhone) OBVIOUS
<1>2. /\ toPhone # <<>> /\ phoneUp /\ toPhone' = Tail(toPhone)
      /\ UNCHANGED <<espVars, toEsp, phoneUp, active, link, history>>
  BY DEF PhoneReceive
<1>3. UNCHANGED <<espVars, toEsp, phoneUp, active, link, sess, phase, written, fetched>>
  BY <1>2 DEF history
<1>4. CASE f.type = "OPEN"
  <2>1. PhoneOpen(f, allowed) BY <1>1, <1>4 DEF PhoneReceive
  <2> QED BY <2>1, <1>1, <1>2, <1>3, <1>4, PhoneOpenStep
<1>5. CASE f.type # "OPEN" /\ Live(ph) /\ ph.epoch = f.epoch
  <2>1. PhoneFrame(f) /\ UNCHANGED used BY <1>1, <1>5, Zenon DEF PhoneReceive
  <2> QED BY <2>1, <1>1, <1>2, <1>3, <1>5, PhFrameStep
<1>6. CASE f.type # "OPEN" /\ ~(Live(ph) /\ ph.epoch = f.epoch)
  <2>1. UNCHANGED <<ph, pq, used>> BY <1>1, <1>6 DEF PhoneReceive
  <2> QED BY <2>1, <1>1, <1>2, <1>3, <1>6, PhoneIgnores
<1> QED BY <1>4, <1>5, <1>6

-----------------------------------------------------------------------------
(* The invariant holds, and what follows from it.                          *)

\* The invariant holds at the start.
LEMMA InitInv == ASSUME Init PROVE IInv
<1>0. /\ <<>> \in Seq(GattOps) /\ <<>> \in Seq(Frames) /\ <<>> \in Seq(Items)
      /\ <<>> \in Seq(Slots) /\ <<>> \in Seq(Bytes) /\ Len(<<>>) = 0
  OBVIOUS
<1>1. 0 \in SeqNo /\ 0 \in 0..Window /\ 0 \in 0..(EpochNos - 1) /\ 0 \in 0..MaxOpens
      /\ 0 \in Nat
  BY RelayAssumption DEF SeqNo
<1>2. 0 = (0 + 0) % SeqNos BY <1>1, SeqSmall
<1>3. PICK c : c = NewChannel OBVIOUS
<1>4. /\ c.state = "Idle" /\ c.epoch = 0 /\ c.gen = 0 /\ c.next = 0 /\ c.oldest = 0
      /\ c.count = 0 /\ c.expected = 0 /\ c.rx = <<>>
  BY <1>3 DEF NewChannel
<1>5. c \in EspChannels BY <1>0, <1>1, <1>3 DEF NewChannel, EspChannels
<1>6. PICK e : e = esp OBVIOUS
<1>7. e \in EspStates /\ e.up /\ e.q = <<>> /\ e.ch = c
  BY <1>0, <1>3, <1>5, <1>6 DEF Init, EspStates
<1>8. ~InSession(c) BY <1>4 DEF InSession
<1>9. ToSet(e.q) = {} /\ FramesIn(e.q) = <<>> /\ ToSet(FramesIn(e.q)) = {}
  <2>1. FramesIn(e.q) = <<>> BY <1>7 DEF FramesIn
  <2> QED BY <2>1, <1>7, SetOne
<1>10. EspNow
  <2>1. EspLocal(c) BY <1>0, <1>4, <1>8, RelayAssumption DEF EspLocal
  <2> QED BY <2>1, <1>4, <1>6, <1>7, <1>9 DEF EspNow, EspOk
<1>11. PICK p : p = ph OBVIOUS
<1>12. p = [st |-> "none", epoch |-> 0, sess |-> 0, rd |-> "off", held |-> <<>>,
           eof |-> FALSE, next |-> 0, oldest |-> 0, count |-> 0,
           expected |-> 0, rx |-> <<>>, wr |-> "off", batch |-> 0]
  BY <1>11 DEF Init
<1>13. p \in PhChannels BY <1>0, <1>1, <1>12 DEF PhChannels
<1>14. /\ p.st = "none" /\ p.sess = 0 /\ p.rd = "off" /\ p.held = <<>>
       /\ p.next = 0 /\ p.oldest = 0 /\ p.count = 0 /\ p.rx = <<>> /\ p.wr = "off"
       /\ p.batch = 0
  BY <1>12
<1>15. PhLocal(p) /\ ~Live(p) BY <1>0, <1>2, <1>14, RelayAssumption DEF PhLocal, Live
<1>16. /\ inHand = <<>> /\ toPhone = <<>> /\ toEsp = <<>> /\ pq = <<>> /\ active = <<>>
       /\ phoneUp /\ phoneUp \in BOOLEAN /\ used = {} /\ sess = 0
  BY DEF Init, Nothing
<1>17. /\ ToSet(inHand) = {} /\ ToSet(toPhone) = {} /\ ToSet(toEsp) = {} /\ ToSet(pq) = {}
       /\ ToSet(active) = {}
  BY <1>16, SetOne
<1>18. Callers BY <1>1 DEF Init, Callers
<1>19. Wires BY <1>0, <1>16 DEF Wires
<1>20. PhoneOk
  <2>1. ReaderOk(ph, ToSet(pq), ToSet(active), used) BY <1>17 DEF ReaderOk
  <2> QED BY <2>1, <1>0, <1>11, <1>13, <1>14, <1>15, <1>16, <1>17 DEF PhoneOk
<1>21. DatesNow
  <2>1. PICK k \in 0..(EpochNos - 1) : k = 0 BY <1>1
  <2>2. PICK d \in 0..(EpochNos - 1) : EpochOf(d, 0) = k BY <1>1, EpochStart
  <2>3. Dates(d, 0, e, {}, {}, {}, p, {}) BY <2>1, <2>2, <1>4, <1>7, <1>14 DEF Dates
  <2>4. \E j \in 0..(EpochNos - 1) : Dates(j, 0, e, {}, {}, {}, p, {}) BY <2>3
  <2>5. Forth = {} /\ Ops = {} BY <1>6, <1>9, <1>17 DEF Forth, Ops
  <2> QED BY <2>4, <2>5, <1>6, <1>11, <1>16, <1>17 DEF DatesNow
<1>22. ProtoNow
  <2>1. Proto(c, p, <<>>, <<>>, <<>>, <<>>, {}) BY <1>8, <1>14, ProtoFresh
  <2>2. FramesIn(pq) = <<>> BY <1>16 DEF FramesIn
  <2>3. toPhone \o inHand = <<>> BY <1>16
  <2> QED BY <2>1, <2>2, <2>3, <1>6, <1>7, <1>9, <1>11, <1>16 DEF ProtoNow
<1> QED BY <1>10, <1>18, <1>19, <1>20, <1>21, <1>22 DEF IInv

\* A step that changes nothing keeps it.
LEMMA StutterInv == ASSUME IInv, UNCHANGED vars PROVE IInv'
<1>1. Callers' BY DEF vars, IInv, Callers
<1>2. UNCHANGED <<esp, inHand, airVars, phoneVars, sess>> BY DEF vars, airVars, phoneVars
<1> QED BY <1>1, <1>2, StepSame

\* The steps of the recorder keep it.
LEMMA FirmwareInv == ASSUME IInv, Firmware PROVE IInv'
BY OpenStep, OpenInvalidStep, OpenDoneStep, OpenTimeoutStep, WriteCallStep, WritePassStep,
   WriteBrokenStep, ReadStep, CloseStep, AckTimeoutStep, WorkerPopStep, WorkerNotifyStep,
   EspReceiveStep DEF Firmware

\* The steps of the phone keep it.
LEMMA PhoneInv == ASSUME IInv, Phone PROVE IInv'
BY PhoneReceiveStep, ConnectedStep, GattStartStep, GattDoneStep, ReaderGateStep,
   ReaderEofStep, ReaderEmitStep, ReaderBytesStep, WriterTakeStep, WriterWriteStep,
   WriterAckStep, PhoneFailStep DEF Phone

\* The loss and the return of the link keep it.
LEMMA LinkInv == ASSUME IInv, LinkChange PROVE IInv'
BY EspLinkLostStep, PhoneLinkLostStep, EspDisconnectedStep, ReconnectStep DEF LinkChange

\* The inductive invariant holds of every behaviour of the relay, whatever the
\* window, the number of sequence numbers and of sessions, and the bounds.
THEOREM RelayInductive == Spec => []IInv
<1>1. Init => IInv BY InitInv
<1>2. IInv /\ [Next]_vars => IInv'
  BY FirmwareInv, PhoneInv, LinkInv, StutterInv DEF Next
<1> QED BY <1>1, <1>2, PTL DEF Spec

(* What the invariant says of the next frame at each end.                    *)

\* Channel::receive: the next DATA of the session is the expected one and finds
\* a slot.
LEMMA EspDataIsNext ==
  ASSUME NEW c \in EspChannels, NEW p,
         NEW te \in Seq(Frames), NEW po \in Seq(Frames),
         NEW air, NEW qu, NEW u, NEW f \in Frames,
         InSession(c), Of(f, "DATA", c.epoch), Proto(c, p, <<f>> \o te, po, air, qu, u)
  PROVE  c.state = "Open" /\ f.seq = c.expected /\ Len(c.rx) < Window
<1>0. PICK x \in Seq(Frames) : x = <<f>> BY AppendSet
<1>1. PICK B \in Seq(Frames) : B = te \o po BY BackSet
<1>2. (x \o te) \o po = x \o B BY <1>1, FrameAssoc
<1>3. ToSet(x \o B) = {f} \cup ToSet(B) BY <1>0, AppendSet
<1>4. Ends(c, p, x \o B) BY <1>0, <1>2 DEF Proto
<1>5. c.state # "PeerClosed" BY <1>3, <1>4 DEF Ends, Of
<1>6. c.state # "Opening"
  <2>1. c.state = "Opening" => OpenedFirst(<<f>> \o te, c.epoch) BY DEF Proto, Opened
  <2> QED BY <2>1, FirstTail
<1>7. c.state = "Open" BY <1>5, <1>6 DEF InSession
<1>8. Side(<<f>> \o te, c.oldest, c.count, c.expected, Len(c.rx), c.epoch)
  BY <1>7 DEF Proto, Sides, Streaming
<1> QED BY <1>7, <1>8, EspFields, SideTake

\* Channel::receive: the next ACK of the session is for the oldest pending frame.
LEMMA EspAckIsNext ==
  ASSUME NEW c \in EspChannels, EspLocal(c), NEW p,
         NEW te \in Seq(Frames), NEW po \in Seq(Frames),
         NEW air, NEW qu, NEW u, NEW f \in Frames,
         InSession(c), Of(f, "ACK", c.epoch), Proto(c, p, <<f>> \o te, po, air, qu, u)
  PROVE  c.state = "Open" /\ f.seq = c.oldest /\ c.count > 0
<1>0. PICK x \in Seq(Frames) : x = <<f>> BY AppendSet
<1>1. PICK B \in Seq(Frames) : B = te \o po BY BackSet
<1>2. (x \o te) \o po = x \o B BY <1>1, FrameAssoc
<1>3. ToSet(x \o B) = {f} \cup ToSet(B) BY <1>0, AppendSet
<1>4. Ends(c, p, x \o B) BY <1>0, <1>2 DEF Proto
<1>5. c.state # "PeerClosed" BY <1>3, <1>4 DEF Ends, Of
<1>6. Side(<<f>> \o te, c.oldest, c.count, c.expected, Len(c.rx), c.epoch)
  BY <1>5 DEF Proto, Sides, Streaming, InSession
<1>7. f.seq = c.oldest /\ c.count > 0 BY <1>6, EspFields, SideAck
<1> QED BY <1>5, <1>7 DEF InSession, EspLocal

\* Channel::receive: OPENED comes to a channel that waits for it.
LEMMA EspOpenedIsNext ==
  ASSUME NEW c, NEW p, NEW te \in Seq(Frames), NEW po \in Seq(Frames),
         NEW air, NEW qu, NEW u, NEW f \in Frames,
         InSession(c), Of(f, "OPENED", c.epoch), Proto(c, p, <<f>> \o te, po, air, qu, u)
  PROVE  c.state = "Opening"
<1>0. PICK x \in Seq(Frames) : x = <<f>> BY AppendSet
<1>1. PICK B \in Seq(Frames) : B = te \o po BY BackSet
<1>2. (x \o te) \o po = x \o B BY <1>1, FrameAssoc
<1>3. ToSet(x \o B) = {f} \cup ToSet(B) BY <1>0, AppendSet
<1>4. Ends(c, p, x \o B) BY <1>0, <1>2 DEF Proto
<1> QED BY <1>3, <1>4 DEF Ends, Of

\* The next frame in the air for the recorder is in its turn.
LEMMA EspHears ==
  ASSUME IInv, toEsp # <<>>
  PROVE  EspInSequence(Head(toEsp))
<1>1. PICK s \in Seq(Frames) : s = toEsp BY Facts
<1>2. Head(s) \in Frames /\ Tail(s) \in Seq(Frames) /\ s = <<Head(s)>> \o Tail(s)
  BY <1>1, HeadTail
<1>3. PICK f \in Frames : f = Head(s) BY <1>2
<1>4. PICK te \in Seq(Frames) : te = Tail(s) BY <1>2
<1>5. PICK po \in Seq(Frames), air \in Seq(Frames), qu \in Seq(Frames) :
           /\ po = FramesIn(pq) /\ air = toPhone \o inHand /\ qu = FramesIn(esp.q)
           /\ Proto(esp.ch, ph, toEsp, po, air, qu, used)
  BY ProtoIs
<1>6. PICK c \in EspChannels : c = esp.ch BY PhoneFacts
<1>7. Proto(c, ph, <<f>> \o te, po, air, qu, used) BY <1>1, <1>2, <1>3, <1>4, <1>5, <1>6
<1>8. EspLocal(c) BY <1>6, PhoneFacts
<1>9. SUFFICES ASSUME f.epoch = c.epoch, c.state \notin {"Idle", "Aborted"},
                      f.type \in {"OPENED", "DATA", "ACK"}
               PROVE  Acceptable(c, f)
  BY <1>1, <1>3, <1>6, Zenon DEF EspInSequence
<1>10. InSession(c) BY <1>9 DEF InSession, EspChannels
<1>11. CASE f.type = "OPENED"
  <2>1. Of(f, "OPENED", c.epoch) BY <1>9, <1>11 DEF Of
  <2> QED BY <2>1, <1>7, <1>10, <1>11, EspOpenedIsNext DEF Acceptable
<1>12. CASE f.type = "DATA"
  <2>1. Of(f, "DATA", c.epoch) BY <1>9, <1>12 DEF Of
  <2> QED BY <2>1, <1>7, <1>10, <1>12, EspDataIsNext DEF Acceptable
<1>13. CASE f.type = "ACK"
  <2>1. Of(f, "ACK", c.epoch) BY <1>9, <1>13 DEF Of
  <2> QED BY <2>1, <1>7, <1>8, <1>10, <1>13, EspAckIsNext DEF Acceptable
<1> QED BY <1>9, <1>11, <1>12, <1>13

\* The next frame in the air for the phone is in its turn.
LEMMA PhoneHears ==
  ASSUME IInv, toPhone # <<>>
  PROVE  PhoneInSequence(Head(toPhone))
<1>1. PICK f \in Frames, x \in Seq(Frames), tp \in Seq(Frames), po \in Seq(Frames),
            a \in Seq(Frames), qu \in Seq(Frames) :
           /\ f = Head(toPhone) /\ tp = Tail(toPhone) /\ toPhone = x \o tp
           /\ x = <<f>> /\ Len(x) = 1 /\ x[1] = f /\ f \in Forth
           /\ po = FramesIn(pq) /\ a = tp \o inHand /\ qu = FramesIn(esp.q)
           /\ Proto(esp.ch, ph, toEsp, po, x \o a, qu, used)
  BY HeadIs
<1>2. PICK p \in PhChannels : p = ph BY PhoneFacts
<1>3. PhLocal(p) /\ Proto(esp.ch, p, toEsp, po, x \o a, qu, used) BY <1>1, <1>2, PhoneFacts
<1>4. SUFFICES ASSUME Live(p), f.epoch = p.epoch
               PROVE  /\ f.type = "DATA" => p.st = "ready" /\ f.seq = p.expected /\ Len(p.rx) < Window
                      /\ f.type = "ACK" => p.count > 0 /\ f.seq = p.oldest
  BY <1>1, <1>2 DEF PhoneInSequence, PhoneAccepts
<1>5. ASSUME f.type = "DATA" PROVE p.st = "ready" /\ f.seq = p.expected /\ Len(p.rx) < Window
  <2>1. Of(f, "DATA", p.epoch) BY <1>4, <1>5 DEF Of
  <2>2. Len(x) = 1 /\ x[1] = f BY <1>1
  <2> QED BY <2>1, <2>2, <1>3, <1>4, PhDataIsNext
<1>6. ASSUME f.type = "ACK" PROVE p.count > 0 /\ f.seq = p.oldest
  <2>1. Of(f, "ACK", p.epoch) BY <1>4, <1>6 DEF Of
  <2>2. Len(x) = 1 /\ x[1] = f BY <1>1
  <2> QED BY <2>1, <2>2, <1>3, <1>4, PhAckIsNext
<1> QED BY <1>5, <1>6

\* No interleaving of the two ends, of cancelled sessions and of broken links
\* brings a live channel a frame out of turn: the branches of Channel::receive
\* (ble_relay.cpp) and of RelayEngine.receive that fault an illegal sequence are
\* left to peers that break the protocol.
THEOREM AlwaysInSequence == Spec => []InSequence
<1>1. IInv => InSequence BY EspHears, PhoneHears DEF InSequence
<1> QED BY <1>1, RelayInductive, PTL

(* What the invariant says of the credits.                                   *)

\* The entries of the present generation are the frames of the present epoch.
LEMMA QueueCount ==
  ASSUME IInv, InSession(esp.ch), NEW ty
  PROVE  Cardinality({i \in DOMAIN esp.q : esp.q[i].frame.type = ty /\ esp.q[i].gen = esp.ch.gen})
           = FramesOf(FramesIn(esp.q), ty, esp.ch.epoch)
<1>1. PICK q \in Seq(Items) : q = esp.q BY Facts
<1>2. PICK c \in EspChannels : c = esp.ch BY PhoneFacts
<1>3. PICK z \in Seq(Frames) : z = FramesIn(q) BY FramesInSeq, ItemTypes
<1>4. DOMAIN q = 1..Len(q) /\ DOMAIN z = 1..Len(z) OBVIOUS
<1>5. Len(z) = Len(q) /\ \A i \in 1..Len(q) : z[i] = q[i].frame
  BY <1>3, FramesInSeq, ItemTypes
<1>6. ASSUME NEW i \in 1..Len(q) PROVE q[i].gen = c.gen <=> q[i].frame.epoch = c.epoch
  <2>1. q[i] \in ToSet(q) BY <1>4 DEF ToSet
  <2>2. EspOk(esp, sess) BY DEF IInv, EspNow
  <2> QED BY <2>1, <2>2, <1>1, <1>2 DEF EspOk, Entry
<1>7. {i \in DOMAIN q : q[i].frame.type = ty /\ q[i].gen = c.gen}
        = {i \in DOMAIN z : z[i].type = ty /\ z[i].epoch = c.epoch}
  BY <1>4, <1>5, <1>6
<1> QED BY <1>1, <1>2, <1>3, <1>7 DEF FramesOf

\* The GATT writes of the channel are the frames of its epoch.
LEMMA OpsCount ==
  ASSUME IInv, Live(ph), NEW ty
  PROVE  Cardinality({i \in DOMAIN pq : pq[i].frame.type = ty /\ pq[i].sess = ph.sess})
           = FramesOf(FramesIn(pq), ty, ph.epoch)
<1>1. PICK q \in Seq(GattOps) : q = pq BY PhoneFacts
<1>2. PICK p \in PhChannels : p = ph BY PhoneFacts
<1>3. PICK z \in Seq(Frames) : z = FramesIn(q) BY FramesInSeq, ItemTypes
<1>4. DOMAIN q = 1..Len(q) /\ DOMAIN z = 1..Len(z) OBVIOUS
<1>5. Len(z) = Len(q) /\ \A i \in 1..Len(q) : z[i] = q[i].frame
  BY <1>3, FramesInSeq, ItemTypes
<1>6. ASSUME NEW i \in 1..Len(q) PROVE q[i].sess = p.sess <=> q[i].frame.epoch = p.epoch
  <2>1. q[i] \in ToSet(q) BY <1>4 DEF ToSet
  <2>2. q[i] \in Ops BY <2>1, <1>1 DEF Ops
  <2> QED BY <2>2, <1>2, OpEpochs
<1>7. {i \in DOMAIN q : q[i].frame.type = ty /\ q[i].sess = p.sess}
        = {i \in DOMAIN z : z[i].type = ty /\ z[i].epoch = p.epoch}
  BY <1>4, <1>5, <1>6
<1> QED BY <1>1, <1>2, <1>3, <1>7 DEF FramesOf

\* Counting in what is on its way to the phone.
LEMMA ForthCount ==
  ASSUME NEW a \in Seq(Frames), NEW h \in Seq(Frames), NEW q \in Seq(Frames), NEW ty, NEW e
  PROVE  FramesOf((a \o h) \o q, ty, e)
           = FramesOf(q, ty, e) + FramesOf(h, ty, e) + FramesOf(a, ty, e)
<1>1. a \o h \in Seq(Frames) OBVIOUS
<1>2. PICK b \in Seq(Frames) : b = a \o h BY <1>1
<1>3. FramesOf(b, ty, e) = FramesOf(a, ty, e) + FramesOf(h, ty, e) BY <1>2, CountConcat
<1>4. FramesOf(b \o q, ty, e) = FramesOf(b, ty, e) + FramesOf(q, ty, e) BY CountConcat
<1>5. /\ FramesOf(a, ty, e) \in Nat /\ FramesOf(h, ty, e) \in Nat /\ FramesOf(q, ty, e) \in Nat
  BY CountIs
<1> QED BY <1>2, <1>3, <1>4, <1>5

\* A sum of three, turned round.
LEMMA Swap == \A a \in Nat, b \in Nat, d \in Nat : a + b + d = d + b + a
OBVIOUS

\* Credit is conserved while both ends hold the session: no frame that a window
\* counts is lost or invented.
LEMMA CreditHolds == ASSUME IInv PROVE CreditConserved
<1> DEFINE queued(ty) == Cardinality({i \in DOMAIN esp.q :
                           esp.q[i].frame.type = ty /\ esp.q[i].gen = esp.ch.gen})
           waits(ty)  == Cardinality({i \in DOMAIN pq :
                           pq[i].frame.type = ty /\ pq[i].sess = ph.sess})
           out(ty)  == queued(ty) + FramesOf(inHand, ty, ph.epoch)
                       + FramesOf(toPhone, ty, ph.epoch)
           back(ty) == waits(ty) + FramesOf(toEsp, ty, ph.epoch)
<1>1. SUFFICES ASSUME esp.up, phoneUp, esp.ch.state = "Open", ph.st = "ready",
                      ph.epoch = esp.ch.epoch
               PROVE  /\ esp.ch.count = out("DATA") + Len(ph.rx) + back("ACK")
                      /\ ph.count = back("DATA") + Len(esp.ch.rx) + out("ACK")
  BY Zenon DEF CreditConserved, HowMany
<1>2. PICK c \in EspChannels : c = esp.ch BY PhoneFacts
<1>3. PICK p \in PhChannels : p = ph BY PhoneFacts
<1>4. PICK e : e = p.epoch OBVIOUS
<1>5. InSession(c) /\ Live(p) /\ Met(c, p) /\ c.epoch = e
  BY <1>1, <1>2, <1>3, <1>4 DEF InSession, Live, Met, Streaming
<1>6. PICK po \in Seq(Frames), air \in Seq(Frames), qu \in Seq(Frames) :
           /\ po = FramesIn(pq) /\ air = toPhone \o inHand /\ qu = FramesIn(esp.q)
           /\ Proto(esp.ch, ph, toEsp, po, air, qu, used)
  BY ProtoIs
<1>7. PICK te \in Seq(Frames) : te = toEsp BY Facts
<1>8. PICK a \in Seq(Frames) : a = toPhone BY Facts
<1>9. PICK h \in Seq(Frames) : h = inHand BY Facts
<1>10. Joined(c, p, te \o po, (a \o h) \o qu)
  BY <1>2, <1>3, <1>6, <1>7, <1>8, <1>9 DEF Proto
<1>11. \A ty : queued(ty) = FramesOf(qu, ty, e) BY <1>2, <1>5, <1>6, QueueCount
<1>12. \A ty : waits(ty) = FramesOf(po, ty, e) BY <1>3, <1>4, <1>5, <1>6, OpsCount
<1> HIDE DEF queued, waits
<1>13. te \o po \in Seq(Frames) /\ a \o h \in Seq(Frames) OBVIOUS
<1>14. PICK B \in Seq(Frames) : B = te \o po BY <1>13
<1>15. PICK b \in Seq(Frames) : b = a \o h BY <1>13
<1>16. b \o qu \in Seq(Frames) OBVIOUS
<1>17. PICK F \in Seq(Frames) : F = b \o qu BY <1>16
<1>18. \A ty : FramesOf(B, ty, e) = FramesOf(te, ty, e) + FramesOf(po, ty, e)
  BY <1>14, CountConcat
<1>19. \A ty : FramesOf(F, ty, e) = FramesOf(qu, ty, e) + FramesOf(h, ty, e) + FramesOf(a, ty, e)
  BY <1>15, <1>17, ForthCount
<1>20. \A ty : out(ty) = FramesOf(F, ty, e) BY <1>3, <1>4, <1>8, <1>9, <1>11, <1>19
<1>21. \A ty : back(ty) = FramesOf(B, ty, e)
  <2>1. \A ty : FramesOf(te, ty, e) \in Nat /\ FramesOf(po, ty, e) \in Nat BY CountIs
  <2> QED BY <2>1, <1>3, <1>4, <1>7, <1>12, <1>18
<1> HIDE DEF out, back
<1>22. Joined(c, p, B, F) BY <1>10, <1>14, <1>15, <1>17
<1>23. /\ c.count = FramesOf(B, "ACK", e) + Len(p.rx) + FramesOf(F, "DATA", e)
       /\ p.count = FramesOf(F, "ACK", e) + Len(c.rx) + FramesOf(B, "DATA", e)
  BY <1>5, <1>22, Credit
<1>24. /\ FramesOf(B, "ACK", e) \in Nat /\ FramesOf(F, "DATA", e) \in Nat
       /\ FramesOf(F, "ACK", e) \in Nat /\ FramesOf(B, "DATA", e) \in Nat
       /\ Len(p.rx) \in Nat /\ Len(c.rx) \in Nat
  BY CountIs, PhFields, EspFields
<1>25. /\ out("DATA") = FramesOf(F, "DATA", e) /\ out("ACK") = FramesOf(F, "ACK", e)
       /\ back("DATA") = FramesOf(B, "DATA", e) /\ back("ACK") = FramesOf(B, "ACK", e)
  BY <1>20, <1>21
<1>26. /\ c.count = out("DATA") + Len(p.rx) + back("ACK")
       /\ p.count = back("DATA") + Len(c.rx) + out("ACK")
  <2>1. /\ FramesOf(B, "ACK", e) + Len(p.rx) + FramesOf(F, "DATA", e)
             = FramesOf(F, "DATA", e) + Len(p.rx) + FramesOf(B, "ACK", e)
        /\ FramesOf(F, "ACK", e) + Len(c.rx) + FramesOf(B, "DATA", e)
             = FramesOf(B, "DATA", e) + Len(c.rx) + FramesOf(F, "ACK", e)
    BY <1>24, Swap
  <2> QED BY <2>1, <1>23, <1>25
<1> QED BY <1>2, <1>3, <1>26

\* An entry of the queue of the present generation has the present epoch.
LEMMA TokenHolds == ASSUME IInv PROVE TokenInv
<1>1. PICK q \in Seq(Items) : q = esp.q BY Facts
<1>2. \A i \in DOMAIN q : q[i] \in ToSet(q) BY DEF ToSet
<1>3. \A x \in ToSet(q) : Entry(x, esp.ch) BY <1>1 DEF IInv, EspNow, EspOk
<1> QED BY <1>1, <1>2, <1>3 DEF TokenInv, Entry

\* Type correctness.
LEMMA TypesHold == ASSUME IInv PROVE TypeOK
<1>1. esp \in [up : BOOLEAN, q : Seq([frame : Frames, gen : Nat]), ch : EspChannels]
  BY Facts DEF EspStates, Items
<1> QED BY <1>1 DEF IInv, Callers, Wires, PhoneOk, TypeOK

\* The workers of the phone find what they left, and the windows are numbered
\* oldest .. next - 1.
LEMMA WindowsHold == ASSUME IInv PROVE WorkersInv /\ WindowInv
<1>1. PICK p \in PhChannels : p = ph BY PhoneFacts
<1>2. PICK c \in EspChannels : c = esp.ch BY PhoneFacts
<1>3. PhLocal(p) /\ EspLocal(c) BY <1>1, <1>2, PhoneFacts
<1>4. WorkersInv BY <1>1, <1>3 DEF WorkersInv, PhLocal
<1>5. c.count > 0 => c.next = (c.oldest + c.count) % SeqNos
  BY <1>3 DEF EspLocal
<1>6. WindowInv BY <1>1, <1>2, <1>3, <1>5 DEF WindowInv, PhLocal, EspLocal
<1> QED BY <1>4, <1>6

\* The types, the credit, the tokens of the queue, the workers of the phone and
\* the windows of both ends: what the two ends rely on between their lock
\* sections holds of every behaviour.
THEOREM AlwaysRelayInv == Spec => []RelayInv
<1>1. IInv => RelayInv
  BY CreditHolds, TokenHolds, TypesHold, WindowsHold DEF RelayInv
<1> QED BY <1>1, RelayInductive, PTL
================================================================================
