-------------------------- MODULE MediaStoreProofs --------------------------
(***************************************************************************)
(* Proofs about FileNames and MediaStore, for any settings, files, names   *)
(* and URLs.  The first part is about prefixes: the key that               *)
(* extractKeyFromUrl cuts off a URL is the one key whose URL that is.  The *)
(* second is about what sanitizeFilename makes of a name, of any length:   *)
(* two of its steps put a name together piece by piece with FlattenSeq,    *)
(* which is recursive, and are followed by induction.  With these, an      *)
(* upload's object is gone only after a delete of its own URL, and a file  *)
(* without two dots in its name can be deleted.                            *)
(***************************************************************************)
EXTENDS MediaStore, SequenceTheorems, SetInduction, TLAPS

(* A path that starts with the base path is the base path and the rest.     *)
LEMMA RestOfPrefix ==
    ASSUME NEW S, NEW s \in Seq(S), NEW t \in Seq(S), IsPrefix(s, t)
    PROVE  /\ SubSeq(t, Len(s) + 1, Len(t)) \in Seq(S)
           /\ t = s \o SubSeq(t, Len(s) + 1, Len(t))
<1> DEFINE m == Len(s)
           n == Len(t)
           rest == SubSeq(t, m + 1, n)
<1>1. m \in Nat /\ n \in Nat /\ m <= n /\ SubSeq(s, 1, m) = SubSeq(t, 1, m)
  BY LenProperties DEF IsPrefix
<1>2. \A i \in 1..n : t[i] \in S
  BY ElementOfSeq
<1>3. \A i \in 1..m : s[i] \in S
  BY ElementOfSeq
<1>4. /\ rest \in Seq(S) /\ Len(rest) = n - m
      /\ \A i \in 1..(n - m) : rest[i] = t[m + i]
  <2>1. m + 1 \in Int /\ n \in Int /\ \A i \in (m + 1)..n : t[i] \in S
    BY <1>1, <1>2
  <2>2. /\ rest \in Seq(S) /\ Len(rest) = IF m + 1 <= n THEN n - (m + 1) + 1 ELSE 0
        /\ \A i \in 1..(n - (m + 1) + 1) : rest[i] = t[(m + 1) + i - 1]
    BY <2>1, SubSeqProperties
  <2> HIDE DEF rest
  <2> QED
    BY <1>1, <2>2
<1>5. \A i \in 1..m : t[i] = s[i]
  <2>1. \A i \in 1..(m - 1 + 1) : SubSeq(s, 1, m)[i] = s[1 + i - 1]
    BY <1>1, <1>3, SubSeqProperties
  <2>2. \A i \in 1..(m - 1 + 1) : SubSeq(t, 1, m)[i] = t[1 + i - 1]
    <3>1. \A i \in 1..m : t[i] \in S
      BY <1>1, <1>2
    <3> QED
      BY <1>1, <3>1, SubSeqProperties
  <2>3. SUFFICES ASSUME NEW i \in 1..m
                 PROVE  t[i] = s[i]
    OBVIOUS
  <2>4. i \in 1..(m - 1 + 1) /\ 1 + i - 1 = i
    BY <1>1
  <2> QED
    BY <1>1, <2>1, <2>2, <2>4
<1> HIDE DEF rest
<1>6. /\ s \o rest \in Seq(S) /\ Len(s \o rest) = m + (n - m)
      /\ \A i \in 1..(m + (n - m)) :
            (s \o rest)[i] = IF i <= m THEN s[i] ELSE rest[i - m]
  BY <1>4, ConcatProperties
<1>7. m + (n - m) = n
  BY <1>1
<1>8. \A i \in 1..n : (s \o rest)[i] = t[i]
  <2> SUFFICES ASSUME NEW i \in 1..n
               PROVE  (s \o rest)[i] = t[i]
    OBVIOUS
  <2>1. CASE i <= m
    <3>1. i \in 1..m
      BY <1>1, <2>1
    <3> QED
      BY <1>5, <1>6, <1>7, <2>1, <3>1
  <2>2. CASE ~(i <= m)
    <3>1. i - m \in 1..(n - m) /\ m + (i - m) = i
      BY <1>1, <2>2
    <3> QED
      BY <1>4, <1>6, <1>7, <2>2, <3>1
  <2> QED
    BY <2>1, <2>2
<1>9. s \o rest = t
  BY <1>6, <1>7, <1>8, SeqEqual
<1> QED
  BY <1>4, <1>9 DEF rest

(* And what follows a base path is cut off again as it was put on.          *)
LEMMA PrefixOfConcat ==
    ASSUME NEW S, NEW s \in Seq(S), NEW t \in Seq(S)
    PROVE  IsPrefix(s, s \o t) /\ SubSeq(s \o t, Len(s) + 1, Len(s \o t)) = t
<1> DEFINE m == Len(s)
           n == Len(t)
           c == s \o t
<1>1. /\ m \in Nat /\ n \in Nat /\ c \in Seq(S) /\ Len(c) = m + n
      /\ \A i \in 1..(m + n) : c[i] = IF i <= m THEN s[i] ELSE t[i - m]
  BY LenProperties, ConcatProperties
<1>2. \A i \in 1..(m + n) : c[i] \in S
  BY <1>1, ElementOfSeq
<1> HIDE DEF c
<1>3. SubSeq(c, 1, m) = s
  <2>1. \A i \in 1..m : c[i] \in S /\ c[i] = s[i]
    BY <1>1, <1>2
  <2>2. /\ SubSeq(c, 1, m) \in Seq(S)
        /\ Len(SubSeq(c, 1, m)) = IF 1 <= m THEN m - 1 + 1 ELSE 0
        /\ \A i \in 1..(m - 1 + 1) : SubSeq(c, 1, m)[i] = c[1 + i - 1]
    BY <1>1, <2>1, SubSeqProperties
  <2>3. Len(SubSeq(c, 1, m)) = m /\ \A i \in 1..m : SubSeq(c, 1, m)[i] = c[i]
    BY <1>1, <2>2
  <2> QED
    BY <2>1, <2>2, <2>3, SeqEqual
<1>4. SubSeq(s, 1, m) = s
  BY SubSeqFull
<1>5. SubSeq(c, m + 1, m + n) = t
  <2>1. \A i \in (m + 1)..(m + n) : c[i] \in S
    BY <1>1, <1>2
  <2>2. m + 1 \in Int /\ m + n \in Int
    BY <1>1
  <2>3. /\ SubSeq(c, m + 1, m + n) \in Seq(S)
        /\ Len(SubSeq(c, m + 1, m + n)) = IF m + 1 <= m + n THEN (m + n) - (m + 1) + 1 ELSE 0
        /\ \A i \in 1..((m + n) - (m + 1) + 1) :
              SubSeq(c, m + 1, m + n)[i] = c[(m + 1) + i - 1]
    BY <2>1, <2>2, SubSeqProperties
  <2>4. /\ Len(SubSeq(c, m + 1, m + n)) = n
        /\ \A i \in 1..n : SubSeq(c, m + 1, m + n)[i] = c[m + i]
    BY <1>1, <2>3
  <2>5. \A i \in 1..n : c[m + i] = t[i]
    <3> SUFFICES ASSUME NEW i \in 1..n
                 PROVE  c[m + i] = t[i]
      OBVIOUS
    <3>1. m + i \in 1..(m + n) /\ ~(m + i <= m) /\ (m + i) - m = i
      BY <1>1
    <3> QED
      BY <1>1, <3>1
  <2> QED
    BY <2>3, <2>4, <2>5, SeqEqual
<1>6. m <= Len(c)
  BY <1>1
<1> QED
  BY <1>1, <1>3, <1>4, <1>5, <1>6 DEF IsPrefix, c

-----------------------------------------------------------------------------
(* FlattenSeq.                                                              *)
(* s \o t, as a name the provers do not look into.                          *)
Joined(s, t) == s \o t

(* Joining sequences of a set gives one.                                    *)
LEMMA JoinedType ==
    ASSUME NEW S, NEW s \in Seq(S), NEW t \in Seq(S)
    PROVE  Joined(s, t) \in Seq(S)
BY ConcatProperties DEF Joined

(* F[i] is the join of the first i sequences of ss.                         *)
AreJoins(F, ss, n) == F[0] = <<>> /\ \A i \in 1..n : F[i] = Joined(F[i - 1], ss[i])

HaveJoins(S, ss, n) == \E F \in [0..n -> Seq(S)] : AreJoins(F, ss, n)

(* They exist, and with them the recursive function that FlattenSeq chooses. *)
LEMMA JoinsExist ==
    ASSUME NEW S, NEW ss \in Seq(Seq(S))
    PROVE  HaveJoins(S, ss, Len(ss))
<1> DEFINE T == {n \in Nat : n <= Len(ss) => HaveJoins(S, ss, n)}
<1>0. Len(ss) \in Nat
  BY LenProperties
<1>1. 0 \in T
  <2> DEFINE F == [i \in 0..0 |-> <<>>]
  <2>1. F \in [0..0 -> Seq(S)] /\ AreJoins(F, ss, 0)
    BY DEF AreJoins
  <2> QED
    BY <2>1 DEF HaveJoins
<1>2. ASSUME NEW n \in Nat, n \in T
      PROVE  n + 1 \in T
  <2>1. ASSUME n + 1 <= Len(ss)
        PROVE  HaveJoins(S, ss, n + 1)
    <3>1. PICK F \in [0..n -> Seq(S)] : AreJoins(F, ss, n)
      BY <1>0, <1>2, <2>1 DEF HaveJoins
    <3>2. Joined(F[n], ss[n + 1]) \in Seq(S)
      BY <1>0, <2>1, ElementOfSeq, JoinedType
    <3> DEFINE G == [i \in 0..(n + 1) |-> IF i <= n THEN F[i] ELSE Joined(F[n], ss[n + 1])]
    <3>3. G \in [0..(n + 1) -> Seq(S)]
      BY <3>2
    <3>4. \A i \in 0..n : G[i] = F[i]
      OBVIOUS
    <3>5. G[n + 1] = Joined(F[n], ss[n + 1])
      OBVIOUS
    <3> HIDE DEF G
    <3>6. AreJoins(G, ss, n + 1)
      <4>1. G[0] = <<>>
        BY <3>1, <3>4 DEF AreJoins
      <4>2. ASSUME NEW i \in 1..n
            PROVE  G[i] = Joined(G[i - 1], ss[i])
        <5>1. G[i] = F[i] /\ G[i - 1] = F[i - 1]
          BY <3>4
        <5> QED
          BY <3>1, <5>1 DEF AreJoins
      <4>3. G[n + 1] = Joined(G[(n + 1) - 1], ss[n + 1])
        BY <3>4, <3>5
      <4>4. 1..(n + 1) = 1..n \cup {n + 1}
        OBVIOUS
      <4> QED
        BY <4>1, <4>2, <4>3, <4>4 DEF AreJoins
    <3> QED
      BY <3>3, <3>6 DEF HaveJoins
  <2> QED
    BY <2>1
<1> HIDE DEF T
<1>3. Nat \subseteq T
  BY <1>1, <1>2, NatSetInduction
<1> QED
  BY <1>0, <1>3 DEF T

(* And FlattenSeq is the last of the joins.                                 *)
LEMMA FlattenSteps ==
    ASSUME NEW S, NEW ss \in Seq(Seq(S)),
           NEW F \in [0..Len(ss) -> Seq(S)],
           AreJoins(F, ss, Len(ss))
    PROVE  FlattenSeq(ss) = F[Len(ss)]
<1> DEFINE n == Len(ss)
           Body(f) == [i \in 1..n |-> IF i = 1 THEN ss[i] ELSE Joined(f[i - 1], ss[i])]
           flatten == CHOOSE f : f = Body(f)
<1>0. n \in Nat /\ F[0] = <<>> /\ \A i \in 1..n : F[i] = Joined(F[i - 1], ss[i])
  BY LenProperties DEF AreJoins
<1>1. CASE n = 0
  BY <1>0, <1>1, EmptySeq DEF FlattenSeq
<1>2. CASE n # 0
  <2>1. FlattenSeq(ss) = flatten[n]
    BY <1>2 DEF FlattenSeq, Joined
  <2>2. F[1] = ss[1]
    <3>1. 1 \in 1..n /\ ss[1] \in Seq(S)
      BY <1>0, <1>2, ElementOfSeq
    <3>2. F[1] = Joined(F[0], ss[1])
      BY <1>0, <3>1
    <3>3. Joined(<<>>, ss[1]) = ss[1]
      BY <3>1, ConcatEmptySeq DEF Joined
    <3> QED
      BY <1>0, <3>2, <3>3
  <2> DEFINE G == [i \in 1..n |-> F[i]]
  <2>3. G = Body(G)
    <3> SUFFICES ASSUME NEW i \in 1..n
                 PROVE  F[i] = IF i = 1 THEN ss[i] ELSE Joined(G[i - 1], ss[i])
      OBVIOUS
    <3>1. CASE i # 1
      <4>1. G[i - 1] = F[i - 1]
        BY <3>1
      <4> QED
        BY <1>0, <3>1, <4>1
    <3> QED
      BY <2>2, <3>1
  <2>4. flatten = Body(flatten)
    BY <2>3
  <2> HIDE DEF flatten
  <2> DEFINE T == {i \in Nat : i \in 1..n => flatten[i] = F[i]}
  <2>5. 0 \in T
    OBVIOUS
  <2>6. ASSUME NEW i \in Nat, i \in T
        PROVE  i + 1 \in T
    <3> SUFFICES ASSUME i + 1 \in 1..n
                 PROVE  flatten[i + 1] = F[i + 1]
      OBVIOUS
    <3>1. flatten[i + 1] = Body(flatten)[i + 1]
      BY <2>4
    <3>2. CASE i = 0
      BY <2>2, <3>1, <3>2
    <3>3. CASE i # 0
      BY <1>0, <2>6, <3>1, <3>3
    <3> QED
      BY <3>2, <3>3
  <2> HIDE DEF T
  <2>7. Nat \subseteq T
    BY <2>5, <2>6, NatSetInduction
  <2> QED
    BY <1>0, <1>2, <2>1, <2>7 DEF T
<1> QED
  BY <1>1, <1>2

(* Joining nothing changes nothing.                                         *)
LEMMA JoinNothing ==
    ASSUME NEW S, NEW s \in Seq(S)
    PROVE  Joined(s, <<>>) = s
BY ConcatEmptySeq DEF Joined

(* Joining one character puts it at the end.                                *)
LEMMA JoinOne ==
    ASSUME NEW S, NEW s \in Seq(S), NEW e \in S
    PROVE  /\ Joined(s, <<e>>) \in Seq(S) /\ Len(Joined(s, <<e>>)) = Len(s) + 1
           /\ \A i \in 1..Len(s) : Joined(s, <<e>>)[i] = s[i]
           /\ Joined(s, <<e>>)[Len(s) + 1] = e
<1> DEFINE t == <<e>>
<1>1. t \in Seq(S) /\ Len(t) = 1 /\ t[1] = e
  OBVIOUS
<1> HIDE DEF t
<1>2. /\ s \o t \in Seq(S) /\ Len(s \o t) = Len(s) + Len(t)
      /\ \A i \in 1..(Len(s) + Len(t)) :
            (s \o t)[i] = IF i <= Len(s) THEN s[i] ELSE t[i - Len(s)]
  BY <1>1, ConcatProperties
<1>3. Len(s) \in Nat
  BY LenProperties
<1> DEFINE j == s \o t
<1>4. j = Joined(s, <<e>>)
  BY DEF Joined, t
<1> HIDE DEF j
<1>5. /\ j \in Seq(S) /\ Len(j) = Len(s) + 1
      /\ \A i \in 1..(Len(s) + 1) : j[i] = IF i <= Len(s) THEN s[i] ELSE t[i - Len(s)]
  BY <1>1, <1>2 DEF j
<1>6. j[Len(s) + 1] = e /\ \A i \in 1..Len(s) : j[i] = s[i]
  BY <1>1, <1>3, <1>5
<1> HIDE DEF Joined
<1> QED
  BY <1>4, <1>5, <1>6, Zenon

(* What joining one character puts next to each other.                      *)
LEMMA TwoAfterJoin ==
    ASSUME NEW S, NEW s \in Seq(S), NEW e \in S, NEW x, HasTwo(Joined(s, <<e>>), x)
    PROVE  HasTwo(s, x) \/ (Len(s) > 0 /\ s[Len(s)] = x /\ e = x)
<1> DEFINE j == Joined(s, <<e>>)
           n == Len(s)
<1>1. /\ n \in Nat /\ Len(j) = n + 1 /\ j[n + 1] = e /\ \A i \in 1..n : j[i] = s[i]
  BY JoinOne, LenProperties
<1> HIDE DEF j
<1>2. PICK i \in 1..(Len(j) - 1) : j[i] = x /\ j[i + 1] = x
  BY DEF HasTwo, j
<1>3. CASE i = n
  BY <1>1, <1>2, <1>3
<1>4. CASE i # n
  <2>1. i \in 1..(n - 1) /\ s[i] = x /\ s[i + 1] = x
    BY <1>1, <1>2, <1>4
  <2> QED
    BY <2>1 DEF HasTwo
<1> QED
  BY <1>3, <1>4

(* Characters of one piece each are put together as they were.              *)
LEMMA FlattenSingletons ==
    ASSUME NEW S, NEW s \in Seq(S)
    PROVE  FlattenSeq([i \in DOMAIN s |-> <<s[i]>>]) = s
<1> DEFINE ss == [i \in DOMAIN s |-> <<s[i]>>]
           n == Len(s)
           F == [i \in 0..n |-> SubSeq(s, 1, i)]
<1>1. n \in Nat /\ DOMAIN s = 1..n /\ \A i \in 1..n : s[i] \in S
  BY LenProperties, ElementOfSeq
<1>2. ss \in Seq(Seq(S)) /\ Len(ss) = n
  <2>1. \A i \in 1..n : <<s[i]>> \in Seq(S)
    BY <1>1
  <2>2. ss = [i \in 1..n |-> <<s[i]>>]
    BY <1>1
  <2> QED
    BY <1>1, <2>1, <2>2
<1>3. F \in [0..n -> Seq(S)]
  <2> SUFFICES ASSUME NEW i \in 0..n
               PROVE  SubSeq(s, 1, i) \in Seq(S)
    OBVIOUS
  <2>1. i \in Int /\ 1 \in Int /\ \A k \in 1..i : s[k] \in S
    BY <1>1
  <2> QED
    BY <2>1, SubSeqProperties
<1>4. F[0] = <<>>
  BY <1>1, SubSeqEmpty
<1>5. ASSUME NEW i \in 1..n
      PROVE  F[i] = Joined(F[i - 1], ss[i])
  <2>1. SubSeq(s, 1, i) = SubSeq(s, 1, i - 1) \o <<s[i]>>
    BY <1>1, SubSeqRecursiveSecond
  <2>2. Joined(SubSeq(s, 1, i - 1), <<s[i]>>) = SubSeq(s, 1, i)
    BY <2>1 DEF Joined
  <2>3. F[i] = SubSeq(s, 1, i) /\ F[i - 1] = SubSeq(s, 1, i - 1) /\ ss[i] = <<s[i]>>
    BY <1>1
  <2> QED
    BY <2>2, <2>3
<1> HIDE DEF F
<1>6. AreJoins(F, ss, Len(ss))
  BY <1>2, <1>4, <1>5 DEF AreJoins
<1>7. F[n] = s
  BY <1>1, SubSeqFull DEF F
<1> HIDE DEF ss
<1> QED
  BY <1>2, <1>3, <1>6, <1>7, FlattenSteps DEF ss

-----------------------------------------------------------------------------
(* Min and Max are what they should be.                                     *)
LEMMA FirstOf ==
    ASSUME NEW I, I \subseteq Nat, I # {}
    PROVE  Min(I) \in I /\ \A j \in I : Min(I) <= j
BY LeastNumber DEF Min

(* A bounded set of numbers that is not empty has a greatest one.           *)
LEMMA LastOf ==
    ASSUME NEW n \in Nat, NEW I, I \subseteq 1..n, I # {}
    PROVE  Max(I) \in I
<1> DEFINE U == {m \in Nat : \A i \in I : i <= m}
           m == Min(U)
<1>1. U \subseteq Nat /\ n \in U
  OBVIOUS
<1>2. m \in U /\ \A k \in U : m <= k
  BY <1>1, FirstOf
<1> HIDE DEF m
<1>3. m \in I
  <2> SUFFICES ASSUME m \notin I
               PROVE  FALSE
    OBVIOUS
  <2>0. PICK i \in I : i \in 1..n
    OBVIOUS
  <2>1. m \in Nat /\ m # 0
    BY <1>2, <2>0
  <2>2. m - 1 \in U
    BY <1>2, <2>1
  <2> QED
    BY <1>2, <2>1, <2>2
<1>4. \A j \in I : m >= j
  BY <1>2
<1> QED
  BY <1>3, <1>4 DEF Max

-----------------------------------------------------------------------------
(* The steps of sanitizeFilename.                                           *)
(* A part of a name holds what the name holds there.                        *)
LEMMA PartOfName ==
    ASSUME NEW S, NEW s \in Seq(S), NEW m \in 1..(Len(s) + 1), NEW k \in (m - 1)..Len(s)
    PROVE  /\ SubSeq(s, m, k) \in Seq(S) /\ Len(SubSeq(s, m, k)) = k - m + 1
           /\ \A i \in 1..(k - m + 1) : SubSeq(s, m, k)[i] = s[m + i - 1]
           /\ \A x : HasTwo(SubSeq(s, m, k), x) => HasTwo(s, x)
<1> DEFINE t == SubSeq(s, m, k)
           n == Len(s)
<1>1. n \in Nat /\ \A i \in 1..n : s[i] \in S
  BY LenProperties, ElementOfSeq
<1>2. /\ t \in Seq(S) /\ Len(t) = IF m <= k THEN k - m + 1 ELSE 0
      /\ \A i \in 1..(k - m + 1) : t[i] = s[m + i - 1]
  <2>1. m \in Int /\ k \in Int /\ \A i \in m..k : s[i] \in S
    BY <1>1
  <2> QED
    BY <2>1, SubSeqProperties
<1> HIDE DEF t
<1>3. Len(t) = k - m + 1
  BY <1>1, <1>2
<1>4. ASSUME NEW x, HasTwo(t, x)
      PROVE  HasTwo(s, x)
  <2>1. PICK i \in 1..(k - m) : t[i] = x /\ t[i + 1] = x
    BY <1>1, <1>3, <1>4 DEF HasTwo
  <2>2. /\ m + i - 1 \in 1..(n - 1) /\ s[m + i - 1] = x
        /\ s[(m + i - 1) + 1] = x
    <3>1. i \in 1..(k - m + 1) /\ i + 1 \in 1..(k - m + 1) /\ m + (i + 1) - 1 = (m + i - 1) + 1
      BY <1>1
    <3>2. s[m + i - 1] = x /\ s[m + (i + 1) - 1] = x
      BY <1>2, <2>1, <3>1
    <3> QED
      BY <1>1, <3>1, <3>2
  <2> QED
    BY <2>2 DEF HasTwo
<1> QED
  BY <1>2, <1>3, <1>4 DEF t

(* The base of a name is its end, and all of it without a separator.        *)
LEMMA BaseIsPart ==
    ASSUME NEW S, NEW name \in Seq(S)
    PROVE  /\ \E m \in 1..(Len(name) + 1) : Base(name) = SubSeq(name, m, Len(name))
           /\ (\A i \in DOMAIN name : name[i] \notin Separators) => Base(name) = name
<1> DEFINE n == Len(name)
           I == {i \in 1..n : name[i] \in Separators}
           last == IF I # {} THEN Max(I) ELSE 0
<1>1. n \in Nat /\ DOMAIN name = 1..n
  BY LenProperties
<1>2. Base(name) = SubSeq(name, last + 1, n)
  BY DEF Base, SelectLastInSeq
<1>3. last \in 0..n
  <2>1. CASE I # {}
    <3>1. I \subseteq 1..n
      OBVIOUS
    <3>2. Max(I) \in I
      BY <1>1, <2>1, <3>1, LastOf
    <3> QED
      BY <2>1, <3>2
  <2> QED
    BY <1>1, <2>1
<1>4. (\A i \in DOMAIN name : name[i] \notin Separators) => last = 0
  BY <1>1
<1>5. SubSeq(name, 1, n) = name
  BY SubSeqFull
<1> HIDE DEF last
<1>6. last + 1 \in 1..(n + 1)
  BY <1>1, <1>3
<1>7. (\A i \in DOMAIN name : name[i] \notin Separators) => Base(name) = name
  <2> SUFFICES ASSUME \A i \in DOMAIN name : name[i] \notin Separators
               PROVE  Base(name) = name
    OBVIOUS
  <2>1. last + 1 = 1
    BY <1>4
  <2> QED
    BY <1>2, <1>5, <2>1
<1> QED
  BY <1>2, <1>6, <1>7

(* NFKD yields characters, the same ones where it has no ellipsis to write. *)
LEMMA DecomposedNames ==
    ASSUME NEW name \in Seq(Characters)
    PROVE  /\ Decomposed(name) \in Seq(Characters)
           /\ (\A i \in DOMAIN name : name[i] # "ellipsis") => Decomposed(name) = name
<1> DEFINE n == Len(name)
           ss == [i \in DOMAIN name |-> Nfkd(name[i])]
<1>1. n \in Nat /\ DOMAIN name = 1..n /\ \A i \in 1..n : name[i] \in Characters
  BY LenProperties, ElementOfSeq
<1>2. \A i \in 1..n : Nfkd(name[i]) \in Seq(Characters)
  <2>1. ASSUME NEW c \in Characters
        PROVE  Nfkd(c) \in Seq(Characters)
    <3>1. <<".", ".", ".">> \in Seq(Characters) /\ <<c>> \in Seq(Characters)
      BY DEF Characters
    <3> QED
      BY <3>1 DEF Nfkd
  <2> QED
    BY <1>1, <2>1
<1>3. ss \in Seq(Seq(Characters)) /\ Len(ss) = n
  <2>1. ss = [i \in 1..n |-> Nfkd(name[i])]
    BY <1>1
  <2> QED
    BY <1>1, <1>2, <2>1
<1>4. Decomposed(name) \in Seq(Characters)
  <2>1. Decomposed(name) = FlattenSeq(ss)
    BY DEF Decomposed
  <2> HIDE DEF ss
  <2>2. PICK F \in [0..n -> Seq(Characters)] : AreJoins(F, ss, n)
    BY <1>3, JoinsExist DEF HaveJoins
  <2>3. FlattenSeq(ss) = F[n] /\ F[n] \in Seq(Characters)
    BY <1>1, <1>3, <2>2, FlattenSteps
  <2> QED
    BY <2>1, <2>3
<1>5. ASSUME \A i \in DOMAIN name : name[i] # "ellipsis"
      PROVE  Decomposed(name) = name
  <2>1. ss = [i \in DOMAIN name |-> <<name[i]>>]
    BY <1>5 DEF Nfkd
  <2> QED
    BY <2>1, FlattenSingletons DEF Decomposed
<1> QED
  BY <1>4, <1>5

(* Replacing what is not kept leaves the dots, and all of a name that is    *)
(* kept.                                                                    *)
LEMMA ConservativeNames ==
    ASSUME NEW S, NEW name \in Seq(S)
    PROVE  /\ Conservative(name) \in Seq(Kept)
           /\ HasTwoDots(Conservative(name)) => HasTwoDots(name)
           /\ name \in Seq(Kept) => Conservative(name) = name
<1> DEFINE n == Len(name)
           c == Conservative(name)
<1>1. n \in Nat /\ DOMAIN name = 1..n
  BY LenProperties
<1>2. c = [i \in 1..n |-> IF name[i] \in Kept THEN name[i] ELSE "-"]
  BY <1>1 DEF Conservative
<1>3. \A i \in 1..n : (IF name[i] \in Kept THEN name[i] ELSE "-") \in Kept
  BY DEF Kept
<1>4. c \in Seq(Kept) /\ Len(c) = n
  BY <1>1, <1>2, <1>3
<1>5. \A i \in 1..n : c[i] = "." => name[i] = "."
  BY <1>2 DEF Kept
<1>6. ASSUME name \in Seq(Kept)
      PROVE  c = name
  <2>1. \A i \in 1..n : name[i] \in Kept /\ c[i] = name[i]
    BY <1>2, <1>6, ElementOfSeq
  <2> HIDE DEF c
  <2> QED
    BY <1>4, <1>6, <2>1, SeqEqual
<1> HIDE DEF c
<1>7. HasTwo(c, ".") => HasTwo(name, ".")
  BY <1>1, <1>4, <1>5 DEF HasTwo
<1> QED
  BY <1>4, <1>6, <1>7 DEF HasTwoDots, c

(* What is left of the first k characters of name, while it is collapsed.   *)
CollapsedSoFar(out, name, k, x) ==
    /\ k > 0 => Len(out) > 0 /\ out[Len(out)] = name[k]
    /\ ~HasTwo(out, "-")
    /\ HasTwo(out, x) => HasTwo(name, x)

(* Collapsing leaves no two dashes in a row, and brings no two of any other *)
(* character together.                                                      *)
LEMMA CollapsedNames ==
    ASSUME NEW S, NEW name \in Seq(S), NEW x
    PROVE  /\ Collapsed(name) \in Seq(S)
           /\ ~HasTwo(Collapsed(name), "-")
           /\ HasTwo(Collapsed(name), x) => HasTwo(name, x)
<1> DEFINE n == Len(name)
           Again(i) == i > 1 /\ name[i] = "-" /\ name[i - 1] = "-"
           ss == [i \in DOMAIN name |-> IF Again(i) THEN <<>> ELSE <<name[i]>>]
<1>1. n \in Nat /\ DOMAIN name = 1..n /\ \A i \in 1..n : name[i] \in S
  BY LenProperties, ElementOfSeq
<1>2. /\ ss \in Seq(Seq(S)) /\ Len(ss) = n
      /\ \A i \in 1..n : ss[i] = IF Again(i) THEN <<>> ELSE <<name[i]>>
  <2> HIDE DEF Again
  <2>1. \A i \in 1..n : <<name[i]>> \in Seq(S) /\ <<>> \in Seq(S)
    BY <1>1
  <2>2. ss = [i \in 1..n |-> IF Again(i) THEN <<>> ELSE <<name[i]>>]
    BY <1>1
  <2> QED
    BY <1>1, <2>1, <2>2
<1>3. Collapsed(name) = FlattenSeq(ss)
  BY DEF Collapsed
<1> HIDE DEF ss
<1>4. PICK F \in [0..n -> Seq(S)] : AreJoins(F, ss, n)
  BY <1>2, JoinsExist DEF HaveJoins
<1>5. FlattenSeq(ss) = F[n] /\ F[n] \in Seq(S)
  BY <1>1, <1>2, <1>4, FlattenSteps
<1> DEFINE T == {k \in Nat : k <= n => CollapsedSoFar(F[k], name, k, x)}
<1>6. 0 \in T
  <2>1. F[0] = <<>> /\ Len(<<>>) = 0
    BY <1>4 DEF AreJoins
  <2>2. ~HasTwo(<<>>, "-") /\ ~HasTwo(<<>>, x)
    BY <2>1 DEF HasTwo
  <2> QED
    BY <2>1, <2>2 DEF CollapsedSoFar
<1>7. ASSUME NEW k \in Nat, k \in T
      PROVE  k + 1 \in T
  <2> SUFFICES ASSUME k + 1 <= n
               PROVE  CollapsedSoFar(F[k + 1], name, k + 1, x)
    OBVIOUS
  <2> DEFINE s == F[k]
             e == name[k + 1]
  <2>1. s \in Seq(S) /\ Len(s) \in Nat /\ CollapsedSoFar(s, name, k, x) /\ k + 1 \in 1..n
    BY <1>1, <1>7, LenProperties
  <2>2. F[k + 1] = Joined(s, ss[k + 1])
    <3>1. F[k + 1] = Joined(F[(k + 1) - 1], ss[k + 1])
      BY <1>4, <2>1 DEF AreJoins
    <3> QED
      BY <3>1
  <2>3. CASE Again(k + 1)
    <3>1. F[k + 1] = s
      BY <1>2, <2>1, <2>2, <2>3, JoinNothing
    <3>2. k > 0 /\ name[k + 1] = name[k]
      BY <2>3
    <3> QED
      BY <2>1, <3>1, <3>2 DEF CollapsedSoFar
  <2>4. CASE ~Again(k + 1)
    <3>1. F[k + 1] = Joined(s, <<e>>) /\ e \in S
      BY <1>1, <1>2, <2>1, <2>2, <2>4
    <3> DEFINE j == Joined(s, <<e>>)
    <3>2. Len(j) = Len(s) + 1 /\ j[Len(s) + 1] = e
      BY <2>1, <3>1, JoinOne
    <3>3. \A y : HasTwo(j, y) => HasTwo(s, y) \/ (Len(s) > 0 /\ s[Len(s)] = y /\ e = y)
      BY <2>1, <3>1, TwoAfterJoin
    <3>4. Len(s) > 0 => k > 0 /\ s[Len(s)] = name[k]
      <4>1. CASE k = 0
        <5>1. s = <<>>
          BY <1>4, <4>1 DEF AreJoins
        <5> QED
          BY <5>1
      <4>2. CASE k # 0
        BY <2>1, <4>2 DEF CollapsedSoFar
      <4> QED
        BY <4>1, <4>2
    <3> HIDE DEF j, s
    <3>5. ~HasTwo(j, "-")
      <4> SUFFICES ASSUME HasTwo(j, "-")
                   PROVE  FALSE
        OBVIOUS
      <4>1. Len(s) > 0 /\ s[Len(s)] = "-" /\ e = "-"
        BY <2>1, <3>3 DEF CollapsedSoFar
      <4> QED
        BY <2>4, <3>4, <4>1
    <3>6. HasTwo(j, x) => HasTwo(name, x)
      <4> SUFFICES ASSUME HasTwo(j, x), ~HasTwo(s, x)
                   PROVE  HasTwo(name, x)
        BY <2>1 DEF CollapsedSoFar
      <4>1. k \in 1..(n - 1) /\ name[k] = x /\ name[k + 1] = x
        BY <1>1, <2>1, <3>3, <3>4
      <4> QED
        BY <4>1 DEF HasTwo
    <3>7. Len(j) > 0 /\ j[Len(j)] = name[k + 1]
      BY <2>1, <3>2
    <3> QED
      BY <3>1, <3>5, <3>6, <3>7 DEF CollapsedSoFar, j
  <2> QED
    BY <2>3, <2>4
<1> HIDE DEF T
<1>8. Nat \subseteq T
  BY <1>6, <1>7, NatSetInduction
<1>9. CollapsedSoFar(F[n], name, n, x)
  BY <1>1, <1>8 DEF T
<1> QED
  BY <1>3, <1>5, <1>9 DEF CollapsedSoFar

(* What has no two dashes in a row is left as it is.                        *)
LEMMA CollapsedStays ==
    ASSUME NEW S, NEW name \in Seq(S), ~HasTwo(name, "-")
    PROVE  Collapsed(name) = name
<1>1. Len(name) \in Nat /\ DOMAIN name = 1..Len(name)
  BY LenProperties
<1>2. \A i \in DOMAIN name : ~(i > 1 /\ name[i] = "-" /\ name[i - 1] = "-")
  <2> SUFFICES ASSUME NEW i \in DOMAIN name, i > 1, name[i] = "-", name[i - 1] = "-"
               PROVE  FALSE
    OBVIOUS
  <2>1. i - 1 \in 1..(Len(name) - 1) /\ (i - 1) + 1 = i
    BY <1>1
  <2> QED
    BY <2>1 DEF HasTwo
<1>3. [i \in DOMAIN name |-> IF i > 1 /\ name[i] = "-" /\ name[i - 1] = "-"
                             THEN <<>> ELSE <<name[i]>>] = [i \in DOMAIN name |-> <<name[i]>>]
  BY <1>2
<1> QED
  BY <1>3, FlattenSingletons DEF Collapsed

(* What stripping leaves is an end of the name whose first character stays. *)
LEMMA StrippedNames ==
    ASSUME NEW S, NEW name \in Seq(S)
    PROVE  /\ Stripped(name) \in Seq(S)
           /\ \A x : HasTwo(Stripped(name), x) => HasTwo(name, x)
           /\ Stripped(name) # <<>> => Len(Stripped(name)) > 0 /\ Stripped(name)[1] \notin Trimmed
           /\ (Len(name) > 0 /\ name[1] \notin Trimmed) => Stripped(name) = name
<1> DEFINE n == Len(name)
           I == {i \in 1..n : name[i] \notin Trimmed}
           first == Min(I)
<1>1. n \in Nat
  BY LenProperties
<1>2. CASE I = {}
  <2>1. Stripped(name) = <<>>
    BY <1>2 DEF Stripped, SelectInSeq
  <2>2. <<>> \in Seq(S) /\ \A x : ~HasTwo(<<>>, x)
    BY DEF HasTwo
  <2>3. ~(Len(name) > 0 /\ name[1] \notin Trimmed)
    BY <1>1, <1>2
  <2> QED
    BY <2>1, <2>2, <2>3
<1>3. CASE I # {}
  <2>1. I \subseteq Nat
    OBVIOUS
  <2>2. first \in I /\ \A j \in I : first <= j
    BY <1>3, <2>1, FirstOf
  <2>3. Stripped(name) = SubSeq(name, first, n)
    <3>1. first # 0
      BY <2>2
    <3> QED
      BY <1>3, <3>1 DEF Stripped, SelectInSeq
  <2> HIDE DEF first
  <2>4. first \in 1..n /\ name[first] \notin Trimmed
    BY <2>2
  <2> DEFINE t == SubSeq(name, first, n)
  <2>5. /\ t \in Seq(S) /\ Len(t) = n - first + 1
        /\ \A i \in 1..(n - first + 1) : t[i] = name[first + i - 1]
        /\ \A x : HasTwo(t, x) => HasTwo(name, x)
    BY <1>1, <2>4, PartOfName
  <2>6. SubSeq(name, 1, n) = name
    BY SubSeqFull
  <2>7. (n > 0 /\ name[1] \notin Trimmed) => first = 1
    BY <1>1, <2>2
  <2>8. Len(t) > 0 /\ t[1] \notin Trimmed
    BY <1>1, <2>4, <2>5
  <2> HIDE DEF t
  <2>9. (n > 0 /\ name[1] \notin Trimmed) => t = name
    BY <2>6, <2>7 DEF t
  <2> QED
    BY <2>3, <2>5, <2>8, <2>9 DEF t
<1> QED
  BY <1>2, <1>3

-----------------------------------------------------------------------------
(* And all of them.                                                         *)
(* A name before it is cut: no two dashes, no dot or dash in front, and no  *)
(* two dots that were not there.                                            *)
LEMMA CleanedNames ==
    ASSUME NEW name \in Seq(Characters)
    PROVE  LET cleaned == Stripped(Collapsed(Conservative(Decomposed(Base(name)))))
           IN  /\ cleaned \in Seq(Kept) /\ ~HasTwo(cleaned, "-")
               /\ cleaned # <<>> => Len(cleaned) > 0 /\ cleaned[1] \notin Trimmed
               /\ PlainName(name) => ~HasTwoDots(cleaned)
<1> DEFINE b == Base(name)
           d == Decomposed(b)
           c == Conservative(d)
           o == Collapsed(c)
           n == Len(name)
<1>1. /\ b \in Seq(Characters)
      /\ HasTwoDots(b) => HasTwoDots(name)
      /\ (\A i \in DOMAIN name : name[i] # "ellipsis") => \A i \in DOMAIN b : b[i] # "ellipsis"
  <2>0. n \in Nat /\ DOMAIN name = 1..n
    BY LenProperties
  <2>1. PICK m \in 1..(n + 1) : b = SubSeq(name, m, n)
    BY BaseIsPart
  <2>2. n \in (m - 1)..n
    BY <2>0
  <2>3. /\ b \in Seq(Characters) /\ Len(b) = n - m + 1
        /\ \A i \in 1..(n - m + 1) : b[i] = name[m + i - 1]
        /\ HasTwo(b, ".") => HasTwo(name, ".")
    BY <2>1, <2>2, PartOfName
  <2> HIDE DEF b
  <2>4. DOMAIN b = 1..(n - m + 1)
    BY <2>3, LenProperties
  <2>5. \A i \in 1..(n - m + 1) : m + i - 1 \in 1..n
    BY <2>0
  <2> QED
    BY <2>0, <2>3, <2>4, <2>5 DEF HasTwoDots
<1>2. d \in Seq(Characters) /\ (PlainName(name) => ~HasTwoDots(d))
  BY <1>1, DecomposedNames DEF PlainName
<1>3. c \in Seq(Kept) /\ (PlainName(name) => ~HasTwoDots(c))
  BY <1>2, ConservativeNames
<1>4. o \in Seq(Kept) /\ ~HasTwo(o, "-") /\ (PlainName(name) => ~HasTwo(o, "."))
  BY <1>3, CollapsedNames DEF HasTwoDots
<1> HIDE DEF o
<1> QED
  BY <1>4, StrippedNames DEF o, HasTwoDots

(* And file is such a name.                                                 *)
LEMMA DefaultIsClean == CleanName(DefaultName) /\ ~HasTwoDots(DefaultName)
<1>1. /\ DefaultName \in Seq(Kept) /\ Len(DefaultName) = 4
      /\ \A i \in 1..4 : DefaultName[i] = "a"
  BY DEF DefaultName, Kept
<1>2. Len(DefaultName) \in 1..MaxName /\ DefaultName[1] \notin Trimmed
  BY <1>1, NameAssumption DEF Trimmed
<1>3. ~HasTwo(DefaultName, "-") /\ ~HasTwo(DefaultName, ".")
  BY <1>1 DEF HasTwo
<1> QED
  BY <1>1, <1>2, <1>3 DEF CleanName, HasTwoDots

(* Whatever a file is called, its name is cleaned to at least one character *)
(* of those that are kept, at most MaxName, the first a letter or digit,    *)
(* and no two dashes in a row: it is one segment of a key.                  *)
THEOREM NamesAreClean ==
    ASSUME NEW name \in Seq(Characters)
    PROVE  CleanName(SanitizeFilename(name))
<1> DEFINE cleaned == Stripped(Collapsed(Conservative(Decomposed(Base(name)))))
           m == IF Len(cleaned) < MaxName THEN Len(cleaned) ELSE MaxName
<1>1. /\ cleaned \in Seq(Kept) /\ ~HasTwo(cleaned, "-")
      /\ cleaned # <<>> => Len(cleaned) > 0 /\ cleaned[1] \notin Trimmed
  BY CleanedNames
<1>2. SanitizeFilename(name) = IF cleaned = <<>> THEN DefaultName ELSE SubSeq(cleaned, 1, m)
  BY DEF SanitizeFilename
<1> HIDE DEF cleaned
<1>3. CASE cleaned = <<>>
  BY <1>2, <1>3, DefaultIsClean
<1>4. CASE cleaned # <<>>
  <2>1. Len(cleaned) \in Nat /\ m \in 1..Len(cleaned) /\ m \in 1..MaxName
    <3>1. MaxName \in Nat /\ MaxName > 0
      BY DefaultIsClean, NameAssumption DEF CleanName
    <3> QED
      BY <1>1, <1>4, <3>1, LenProperties
  <2> HIDE DEF m
  <2> DEFINE t == SubSeq(cleaned, 1, m)
  <2>2. /\ t \in Seq(Kept) /\ Len(t) = m - 1 + 1
        /\ \A i \in 1..(m - 1 + 1) : t[i] = cleaned[1 + i - 1]
        /\ HasTwo(t, "-") => HasTwo(cleaned, "-")
    <3>1. 1 \in 1..(Len(cleaned) + 1) /\ m \in (1 - 1)..Len(cleaned)
      BY <2>1
    <3> QED
      BY <1>1, <3>1, PartOfName
  <2> HIDE DEF t
  <2>3. Len(t) \in 1..MaxName /\ t[1] = cleaned[1]
    BY <2>1, <2>2
  <2>4. CleanName(t)
    BY <1>1, <1>4, <2>2, <2>3 DEF CleanName
  <2> QED
    BY <1>2, <1>4, <2>4 DEF t
<1> QED
  BY <1>3, <1>4

(* And no two dots come together that the name did not have, itself or in a *)
(* character that NFKD takes apart: extractKeyFromUrl takes it back.        *)
THEOREM PlainNamesStayPlain ==
    ASSUME NEW name \in Seq(Characters), PlainName(name)
    PROVE  ~HasTwoDots(SanitizeFilename(name))
<1> DEFINE cleaned == Stripped(Collapsed(Conservative(Decomposed(Base(name)))))
           m == IF Len(cleaned) < MaxName THEN Len(cleaned) ELSE MaxName
<1>1. cleaned \in Seq(Kept) /\ ~HasTwo(cleaned, ".")
  BY CleanedNames DEF HasTwoDots
<1>2. SanitizeFilename(name) = IF cleaned = <<>> THEN DefaultName ELSE SubSeq(cleaned, 1, m)
  BY DEF SanitizeFilename
<1> HIDE DEF cleaned
<1>3. 1 \in 1..(Len(cleaned) + 1) /\ m \in (1 - 1)..Len(cleaned)
  BY <1>1, NameAssumption, LenProperties
<1> HIDE DEF m
<1>4. HasTwo(SubSeq(cleaned, 1, m), ".") => HasTwo(cleaned, ".")
  BY <1>1, <1>3, PartOfName
<1> QED
  BY <1>1, <1>2, <1>4, DefaultIsClean DEF HasTwoDots

(* A clean name is kept as it is: cleaning a name again changes nothing.    *)
THEOREM CleanNamesStay ==
    ASSUME NEW name, CleanName(name)
    PROVE  SanitizeFilename(name) = name
<1>1. /\ name \in Seq(Kept) /\ name \in Seq(Characters)
      /\ Len(name) \in 1..MaxName /\ name[1] \notin Trimmed /\ ~HasTwo(name, "-")
  <2>1. \A i \in 1..Len(name) : name[i] \in Characters
    BY ElementOfSeq DEF CleanName, Kept, Characters
  <2> QED
    BY <2>1, SeqMonotonic DEF CleanName
<1>2. \A i \in DOMAIN name : name[i] \notin Separators /\ name[i] # "ellipsis"
  BY <1>1, ElementOfSeq, LenProperties DEF Kept, Separators
<1>3. Base(name) = name
  BY <1>1, <1>2, BaseIsPart
<1>4. Decomposed(name) = name
  BY <1>1, <1>2, DecomposedNames
<1>5. Conservative(name) = name
  BY <1>1, ConservativeNames
<1>6. Collapsed(name) = name
  BY <1>1, CollapsedStays
<1>7. Stripped(name) = name
  BY <1>1, StrippedNames
<1>8. SubSeq(name, 1, Len(name)) = name /\ name # <<>>
  BY <1>1, SubSeqFull
<1>9. (IF Len(name) < MaxName THEN Len(name) ELSE MaxName) = Len(name)
  BY <1>1, NameAssumption
<1> QED
  BY <1>3, <1>4, <1>5, <1>6, <1>7, <1>8, <1>9 DEF SanitizeFilename

-----------------------------------------------------------------------------
(* Keys and URLs.                                                           *)

(* A configured service has a base that is a URL, or a text like one.       *)
LEMMA BaseIsUrl ==
    ASSUME env \in Environments, ResolveConfig
    PROVE  config.url \in Url
BY UrlAssumption DEF ResolveConfig, config, OptionalEnv, IsBlank

(* The key that a URL yields is the one key whose URL it is.                *)
LEMMA KeyOfUrl ==
    ASSUME env \in Environments, NEW x \in Url, Deletable(x)
    PROVE  x = UrlOf(ExtractKeyFromUrl(x))
<1> DEFINE base == config.url
           key == SubSeq(x.path, Len(base.path) + 1, Len(x.path))
<1>1. base \in Url /\ base.form = "url"
  BY BaseIsUrl DEF Deletable
<1>2. /\ x.form = "url" /\ x.origin = base.origin /\ IsPrefix(base.path, x.path)
      /\ ExtractKeyFromUrl(x) = key
  BY DEF Deletable, ExtractKeyFromUrl
<1>3. base.path \in Seq(Segment) /\ x.path \in Seq(Segment)
  BY <1>1 DEF Url
<1>4. x.path = base.path \o key
  BY <1>2, <1>3, RestOfPrefix
<1>5. x = [form |-> x.form, origin |-> x.origin, path |-> x.path]
  BY DEF Url
<1> HIDE DEF key
<1> QED
  BY <1>1, <1>2, <1>4, <1>5 DEF UrlOf

(* A key is one segment, named after its upload.                            *)
LEMMA KeyIsSegment ==
    ASSUME NEW u \in Uploads, NEW f \in Files
    PROVE  /\ Key(u, f) \in Seq(Segment) /\ Len(Key(u, f)) = 1 /\ Key(u, f) # NoKey
           /\ Key(u, f)[1].id = u
<1> DEFINE x == [id |-> u, name |-> SanitizeFilename(f.name)]
<1>1. Key(u, f) = <<x>> /\ x.id = u
  BY DEF Key
<1> HIDE DEF x
<1>2. Key(u, f)[1] = x /\ Len(Key(u, f)) = 1 /\ Key(u, f) # <<>>
  BY <1>1
<1>3. x \in Segment
  BY <1>2 DEF Segment
<1>4. <<x>> \in Seq(Segment)
  BY <1>3
<1> QED
  BY <1>1, <1>2, <1>4 DEF NoKey

(* The URL of an upload yields its key, unless the name kept two dots.      *)
LEMMA UrlOfKey ==
    ASSUME env \in Environments, ResolveConfig, NEW u \in Uploads, NEW f \in Files
    PROVE  /\ UrlOf(Key(u, f)) \in Url
           /\ config.url.form = "url" =>
                 ExtractKeyFromUrl(UrlOf(Key(u, f))) =
                    IF HasTwoDots(Key(u, f)[1].name) THEN NoKey ELSE Key(u, f)
<1> DEFINE base == config.url
           k == Key(u, f)
           x == UrlOf(k)
<1>1. base \in Url /\ base.path \in Seq(Segment) /\ base.form \in {"url", "word"}
  BY BaseIsUrl DEF Url
<1>2. k \in Seq(Segment) /\ Len(k) = 1
  BY KeyIsSegment
<1> HIDE DEF k
<1>3. x = [form |-> base.form, origin |-> base.origin, path |-> base.path \o k]
  BY DEF UrlOf
<1>4. /\ base.path \o k \in Seq(Segment) /\ IsPrefix(base.path, base.path \o k)
      /\ SubSeq(base.path \o k, Len(base.path) + 1, Len(base.path \o k)) = k
  BY <1>1, <1>2, PrefixOfConcat, ConcatProperties
<1>5. x \in Url
  BY <1>1, <1>3, <1>4 DEF Url
<1>6. ASSUME base.form = "url"
      PROVE  ExtractKeyFromUrl(x) = IF HasTwoDots(k[1].name) THEN NoKey ELSE k
  <2>1. x.form = "url" /\ x.origin = base.origin /\ x.path = base.path \o k
    BY <1>3, <1>6
  <2>2. (\A i \in DOMAIN k : ~HasTwoDots(k[i].name)) <=> ~HasTwoDots(k[1].name)
    <3>1. DOMAIN k = {1}
      BY <1>2, LenProperties
    <3> QED
      BY <3>1
  <2> QED
    BY <1>4, <2>1, <2>2 DEF ExtractKeyFromUrl
<1> QED
  BY <1>5, <1>6 DEF k

-----------------------------------------------------------------------------
(* The invariant.                                                           *)
TypesOK ==
    /\ env \in Environments
    /\ file \in [Uploads -> Files \cup {Null}]
    /\ put \in [Uploads -> {"none", "sent", "stored", "answered", "failed"}]
    /\ upload = [u \in Uploads |-> upload[u]]
    /\ url \in [Deletes -> Url \cup {Null}]
    /\ delete \in [Deletes -> {"none", "sent", "done", "refused"}]

\* What is sent to the bucket is for a file, or for a URL that yields a key.
CallsOK ==
    /\ \A u \in Uploads :
          /\ put[u] # "none" => file[u] # Null /\ ResolveConfig
          /\ put[u] = "answered" => /\ upload[u].key = Key(u, file[u])
                                    /\ upload[u].url = UrlOf(Key(u, file[u]))
    /\ \A d \in Deletes :
          /\ url[d] = Null => delete[d] = "none"
          /\ delete[d] = "sent" => Deletable(url[d])

\* An object that was stored is there until its own URL is deleted.
Held(u) ==
    LET k == Key(u, file[u])
    IN  \/ k \in DOMAIN objects /\ objects[k] = u
        \/ \E d \in Deletes : delete[d] = "done" /\ url[d] = UrlOf(k)

StoredIsHeld == \A u \in Uploads : put[u] \in {"stored", "answered"} => Held(u)

IInv == TypesOK /\ CallsOK /\ StoredIsHeld

-----------------------------------------------------------------------------
(* The steps.                                                               *)
\* The settings never change, and what is computed from them does not either.
LEMMA SettingsStay ==
    ASSUME env' = env
    PROVE  /\ config' = config /\ (ResolveConfig' <=> ResolveConfig)
           /\ \A k : UrlOf(k)' = UrlOf(k)
           /\ \A x : Deletable(x)' <=> Deletable(x)
BY DEF config, ResolveConfig, UrlOf, Deletable, ExtractKeyFromUrl

(* A call of uploadFile that stores nothing, or is only on its way.         *)
LEMMA UploadStep ==
    ASSUME IInv, NEW u \in Uploads, NEW f \in Files, UploadRefused(u, f) \/ UploadFile(u, f)
    PROVE  IInv'
<1> USE MediaNullAssumption DEF IInv
<1>1. /\ file[u] = Null /\ put[u] = "none" /\ file' = [file EXCEPT ![u] = f] /\ f # Null
      /\ UNCHANGED <<env, objects, url, delete>>
      /\ put' = put \/ (put' = [put EXCEPT ![u] = "sent"] /\ ResolveConfig)
      /\ upload' = upload \/ \E answer : upload' = [upload EXCEPT ![u] = answer]
  BY DEF UploadRefused, UploadFile, CallsOK, NotConfigured
<1>2. /\ file'[u] = f /\ put'[u] \in {"none", "sent"} /\ (put'[u] = "sent" => ResolveConfig)
      /\ \A v \in Uploads \ {u} :
            file'[v] = file[v] /\ put'[v] = put[v] /\ upload'[v] = upload[v]
  BY <1>1 DEF TypesOK
<1>3. TypesOK'
  BY <1>1 DEF TypesOK
<1>4. CallsOK'
  BY <1>1, <1>2, SettingsStay DEF CallsOK
<1>5. StoredIsHeld'
  BY <1>1, <1>2, SettingsStay DEF StoredIsHeld, Held
<1> QED
  BY <1>3, <1>4, <1>5

(* Storing an object reaches no other upload's: their keys differ.          *)
LEMMA StoredStep ==
    ASSUME IInv, NEW u \in Uploads, ObjectStored(u)
    PROVE  IInv'
<1> USE DEF IInv
<1> DEFINE k == Key(u, file[u])
<1>1. /\ put[u] \in {"sent", "stored"} /\ file[u] \in Files
      /\ objects' = [x \in {k} \cup DOMAIN objects |-> IF x = k THEN u ELSE objects[x]]
      /\ put' = [put EXCEPT ![u] = "stored"]
      /\ UNCHANGED <<env, file, upload, url, delete>>
  BY DEF ObjectStored, CallsOK, TypesOK
<1>2. put'[u] = "stored" /\ \A v \in Uploads \ {u} : put'[v] = put[v]
  BY <1>1 DEF TypesOK
<1>3. /\ DOMAIN objects' = {k} \cup DOMAIN objects /\ objects'[k] = u
      /\ \A x \in DOMAIN objects : x # k => objects'[x] = objects[x]
  <2> HIDE DEF k
  <2> QED
    BY <1>1
<1>4. TypesOK'
  BY <1>1 DEF TypesOK
<1>5. CallsOK'
  BY <1>1, <1>2, SettingsStay DEF CallsOK
<1>6. ASSUME NEW v \in Uploads, put'[v] \in {"stored", "answered"}
      PROVE  Held(v)'
  <2>1. CASE v = u
    BY <1>1, <1>3, <2>1 DEF Held
  <2>2. CASE v # u
    <3>1. put[v] \in {"stored", "answered"} /\ file[v] \in Files
      BY <1>2, <1>6, <2>2 DEF TypesOK, CallsOK
    <3>2. Key(v, file[v]) # k
      BY <1>1, <2>2, <3>1, KeyIsSegment
    <3>3. Held(v)
      BY <3>1 DEF StoredIsHeld
    <3> HIDE DEF k
    <3> QED
      BY <1>1, <1>3, <3>2, <3>3, SettingsStay DEF Held
  <2> QED
    BY <2>1, <2>2
<1> QED
  BY <1>4, <1>5, <1>6 DEF StoredIsHeld

(* PutObject is answered, or seems to have failed.                          *)
LEMMA PutEndsStep ==
    ASSUME IInv, NEW u \in Uploads, PutAnswered(u) \/ PutFails(u)
    PROVE  IInv'
<1> USE DEF IInv
<1>1. /\ UNCHANGED <<env, objects, file, url, delete>>
      /\ put[u] \in {"sent", "stored"}
      /\ \/ /\ put' = [put EXCEPT ![u] = "answered"] /\ put[u] = "stored"
            /\ upload' = [upload EXCEPT ![u] = [status |-> 200, key |-> Key(u, file[u]),
                                                url |-> UrlOf(Key(u, file[u]))]]
         \/ /\ put' = [put EXCEPT ![u] = "failed"]
            /\ \E answer : upload' = [upload EXCEPT ![u] = answer]
  BY DEF PutAnswered, PutFails
<1>2. /\ \/ /\ put'[u] = "answered" /\ put[u] = "stored"
            /\ upload'[u].key = Key(u, file[u]) /\ upload'[u].url = UrlOf(Key(u, file[u]))
         \/ put'[u] = "failed"
      /\ \A v \in Uploads \ {u} : put'[v] = put[v] /\ upload'[v] = upload[v]
  BY <1>1 DEF TypesOK
<1>3. TypesOK'
  BY <1>1 DEF TypesOK
<1>4. CallsOK'
  BY <1>1, <1>2, SettingsStay DEF CallsOK
<1>5. StoredIsHeld'
  BY <1>1, <1>2, SettingsStay DEF StoredIsHeld, Held
<1> QED
  BY <1>3, <1>4, <1>5

(* A delete that is asked for goes to the bucket only with a key.           *)
LEMMA DeleteStep ==
    ASSUME IInv, NEW d \in Deletes, NEW x \in ForeignUrls \cup {upload[u].url : u \in Uploaded},
           DeleteFile(d, x)
    PROVE  IInv'
<1> USE MediaNullAssumption DEF IInv
<1>1. x \in Url
  <2>1. ASSUME NEW u \in Uploads, put[u] = "answered"
        PROVE  upload[u].url \in Url
    BY <2>1, UrlOfKey DEF CallsOK, TypesOK
  <2> QED
    BY <2>1, UrlAssumption DEF Uploaded
<1>2. /\ url[d] = Null /\ delete[d] = "none" /\ url' = [url EXCEPT ![d] = x] /\ x # Null
      /\ delete' = [delete EXCEPT ![d] = IF Deletable(x) THEN "sent" ELSE "refused"]
      /\ UNCHANGED <<env, objects, file, put, upload>>
  BY <1>1 DEF DeleteFile, CallsOK
<1>3. /\ url'[d] = x /\ delete'[d] = IF Deletable(x) THEN "sent" ELSE "refused"
      /\ \A e \in Deletes \ {d} : url'[e] = url[e] /\ delete'[e] = delete[e]
  BY <1>2 DEF TypesOK
<1>4. TypesOK'
  BY <1>1, <1>2 DEF TypesOK
<1>5. CallsOK'
  BY <1>2, <1>3, SettingsStay DEF CallsOK
<1>6. ASSUME NEW u \in Uploads, put[u] \in {"stored", "answered"}
      PROVE  Held(u)'
  <2>1. Held(u)
    BY <1>6 DEF StoredIsHeld
  <2>2. \A e \in Deletes : delete[e] = "done" => e # d
    BY <1>2
  <2> QED
    BY <1>2, <1>3, <2>1, <2>2, SettingsStay DEF Held
<1> QED
  BY <1>2, <1>4, <1>5, <1>6 DEF StoredIsHeld

(* What a delete removes has the URL the delete was given.                  *)
LEMMA DeletedKey ==
    ASSUME IInv, NEW d \in Deletes, delete[d] = "sent"
    PROVE  url[d] = UrlOf(ExtractKeyFromUrl(url[d]))
BY KeyOfUrl DEF IInv, TypesOK, CallsOK

(* DeleteObject is answered, or seems to have failed.                       *)
LEMMA DeleteEndsStep ==
    ASSUME IInv, NEW d \in Deletes, ObjectDeleted(d) \/ DeleteFails(d)
    PROVE  IInv'
<1> USE DEF IInv
<1> DEFINE k == ExtractKeyFromUrl(url[d])
<1>1. /\ delete[d] = "sent" /\ UNCHANGED <<env, file, put, upload, url>>
      /\ \/ /\ delete' = [delete EXCEPT ![d] = "done"]
            /\ objects' = [x \in DOMAIN objects \ {k} |-> objects[x]]
         \/ delete' = [delete EXCEPT ![d] = "refused"] /\ objects' = objects
  BY DEF ObjectDeleted, DeleteFails
<1>2. /\ delete'[d] \in {"done", "refused"}
      /\ \A e \in Deletes \ {d} : delete'[e] = delete[e]
      /\ \A x \in DOMAIN objects :
            \/ x \in DOMAIN objects' /\ objects'[x] = objects[x]
            \/ x = k /\ delete'[d] = "done"
  BY <1>1 DEF TypesOK
<1>3. TypesOK'
  BY <1>1 DEF TypesOK
<1>4. CallsOK'
  BY <1>1, <1>2, SettingsStay DEF CallsOK
<1>5. url[d] = UrlOf(k)
  BY <1>1, DeletedKey
<1> HIDE DEF k
<1>6. ASSUME NEW u \in Uploads, put[u] \in {"stored", "answered"}
      PROVE  Held(u)'
  <2>1. Held(u)
    BY <1>6 DEF StoredIsHeld
  <2>2. CASE Key(u, file[u]) \in DOMAIN objects /\ objects[Key(u, file[u])] = u
    BY <1>1, <1>2, <1>5, <2>2, SettingsStay DEF Held
  <2>3. ASSUME NEW e \in Deletes, delete[e] = "done", url[e] = UrlOf(Key(u, file[u]))
        PROVE  Held(u)'
    BY <1>1, <1>2, <2>3, SettingsStay DEF Held
  <2> QED
    BY <2>1, <2>2, <2>3 DEF Held
<1> QED
  BY <1>1, <1>3, <1>4, <1>6 DEF StoredIsHeld

-----------------------------------------------------------------------------
(* The bucket starts without uploads.                                       *)
LEMMA IInvInit == Init => IInv
BY DEF Init, IInv, TypesOK, CallsOK, StoredIsHeld

(* No step loses an upload.                                                 *)
LEMMA IInvStep == IInv /\ [Next]_vars => IInv'
<1> SUFFICES ASSUME IInv, [Next]_vars
             PROVE  IInv'
  OBVIOUS
<1>1. CASE UNCHANGED vars
  BY <1>1, SettingsStay DEF vars, IInv, TypesOK, CallsOK, StoredIsHeld, Held
<1> QED
  BY <1>1, UploadStep, StoredStep, PutEndsStep, DeleteStep, DeleteEndsStep DEF Next

(* IInv holds in every state.                                               *)
THEOREM Invariance == Spec => []IInv
BY IInvInit, IInvStep, PTL DEF Spec

(* An uploaded object stays until its own URL is deleted, whatever other    *)
(* files are called and whatever other URLs are deleted.                    *)
THEOREM UploadsAreKept == Spec => []UploadsKeepTheirContent
<1>1. IInv => UploadsKeepTheirContent
  <2> SUFFICES ASSUME IInv, NEW u \in Uploads, put[u] = "answered"
               PROVE  \/ upload[u].key \in DOMAIN objects /\ objects[upload[u].key] = u
                      \/ \E d \in Deletes : delete[d] = "done" /\ url[d] = upload[u].url
    BY DEF UploadsKeepTheirContent, Uploaded
  <2> QED
    BY DEF IInv, CallsOK, StoredIsHeld, Held
<1> QED
  BY <1>1, Invariance, PTL

(* The URL of an upload leads back to its object, except in the two cases   *)
(* named: a base that is no URL, and a name that kept two dots.             *)
THEOREM UrlsAreInvertible == Spec => []UrlsLeadBack
<1>1. IInv => UrlsLeadBack
  <2> SUFFICES ASSUME IInv, NEW u \in Uploads, put[u] = "answered"
               PROVE  (/\ Deletable(upload[u].url)
                       /\ ExtractKeyFromUrl(upload[u].url) = upload[u].key)
                      <=> (config.url.form = "url" /\ ~HasTwoDots(upload[u].key[1].name))
    BY DEF UrlsLeadBack, Uploaded
  <2> DEFINE k == Key(u, file[u])
  <2>1. /\ upload[u].key = k /\ upload[u].url = UrlOf(k)
        /\ file[u] \in Files /\ ResolveConfig /\ env \in Environments
    BY DEF IInv, TypesOK, CallsOK
  <2>2. /\ k # NoKey
        /\ config.url.form = "url" =>
              ExtractKeyFromUrl(UrlOf(k)) = IF HasTwoDots(k[1].name) THEN NoKey ELSE k
    BY <2>1, UrlOfKey, KeyIsSegment
  <2> HIDE DEF k
  <2> QED
    BY <2>1, <2>2 DEF Deletable
<1> QED
  BY <1>1, Invariance, PTL

(* A file whose name has no two dots in a row, nor a character that NFKD    *)
(* writes so, can be deleted by its URL, whatever else its name holds.      *)
THEOREM PlainNamesCanGo == Spec => []PlainNamesAreDeletable
<1>1. IInv /\ UrlsLeadBack => PlainNamesAreDeletable
  <2> SUFFICES ASSUME IInv, UrlsLeadBack, NEW u \in Uploaded,
                      config.url.form = "url", PlainName(file[u].name)
               PROVE  /\ Deletable(upload[u].url)
                      /\ ExtractKeyFromUrl(upload[u].url) = upload[u].key
    BY DEF PlainNamesAreDeletable
  <2>1. file[u] \in Files /\ upload[u].key = Key(u, file[u])
    BY DEF Uploaded, IInv, TypesOK, CallsOK
  <2>2. upload[u].key[1].name = SanitizeFilename(file[u].name)
    BY <2>1 DEF Key
  <2>3. ~HasTwoDots(SanitizeFilename(file[u].name))
    BY <2>1, FilesAssumption, PlainNamesStayPlain
  <2> QED
    BY <2>2, <2>3 DEF UrlsLeadBack
<1> QED
  BY <1>1, Invariance, UrlsAreInvertible, PTL

(* A delete removes the object whose URL it was given and no other.         *)
THEOREM DeletesAreExact == Spec => DeletesHitTheirUrl
<1>1. IInv /\ [Next]_vars =>
        [\A k \in DOMAIN objects \ DOMAIN objects' :
            \E d \in Deletes : delete[d] = "sent" /\ url[d] = UrlOf(k)]_vars
  <2> SUFFICES ASSUME IInv, Next, NEW k \in DOMAIN objects \ DOMAIN objects'
               PROVE  \E d \in Deletes : delete[d] = "sent" /\ url[d] = UrlOf(k)
    OBVIOUS
  <2>1. ASSUME NEW u \in Uploads, ObjectStored(u)
        PROVE  FALSE
    BY <2>1 DEF ObjectStored
  <2>2. PICK d \in Deletes : ObjectDeleted(d)
    BY <2>1 DEF Next, UploadRefused, UploadFile, PutAnswered, PutFails, DeleteFile, DeleteFails
  <2>3. delete[d] = "sent" /\ k = ExtractKeyFromUrl(url[d])
    BY <2>2 DEF ObjectDeleted
  <2> QED
    BY <2>3, DeletedKey
<1> QED
  BY <1>1, Invariance, PTL DEF Spec, DeletesHitTheirUrl
=============================================================================
