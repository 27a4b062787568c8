---------------------------- MODULE SequenceFacts ----------------------------
(***************************************************************************)
(* Lemmas about splitting a sequence of bytes, as a partial send() and a   *)
(* partial read do, and about what is in a queue that grows at its end and *)
(* is read at its front, as everything between the program and TWS is;     *)
(* about the least and the greatest of a set of numbers, and counting up.  *)
(***************************************************************************)
EXTENDS SequencesExt, SequenceTheorems, WellFoundedInduction, TLAPS

\* Sending a prefix and keeping the rest loses nothing: the two parts of a
\* split at n concatenate to the whole (bufferedSend).
LEMMA SplitAt ==
  ASSUME NEW Byte, NEW data \in Seq(Byte), NEW n \in 0 .. Len(data)
  PROVE  /\ SubSeq(data, 1, n) \in Seq(Byte)
         /\ SubSeq(data, n + 1, Len(data)) \in Seq(Byte)
         /\ SubSeq(data, 1, n) \o SubSeq(data, n + 1, Len(data)) = data
<1>1. Len(data) \in Nat /\ \A i \in 1 .. Len(data) : data[i] \in Byte
  BY LenProperties, ElementOfSeq
<1>2. SubSeq(data, 1, n) \in Seq(Byte)
  BY <1>1, SubSeqProperties
<1>3. SubSeq(data, n + 1, Len(data)) \in Seq(Byte)
  BY <1>1, SubSeqProperties
<1>4. SubSeq(data, 1, n) \o SubSeq(data, n + 1, Len(data)) = SubSeq(data, 1, Len(data))
  <2>1. /\ 1 \in 1 .. Len(data) + 1
        /\ n \in 1 - 1 .. Len(data)
        /\ Len(data) \in n .. Len(data)
    BY <1>1
  <2> QED
    BY <2>1, ConcatAdjacentSubSeq
<1>5. SubSeq(data, 1, Len(data)) = data
  BY SubSeqFull
<1> QED
  BY <1>2, <1>3, <1>4, <1>5

\* Moving the first part h of h \o t behind p leaves all in its place.
LEMMA MoveFront ==
  ASSUME NEW Byte, NEW p \in Seq(Byte), NEW h \in Seq(Byte), NEW t \in Seq(Byte)
  PROVE  p \o h \in Seq(Byte) /\ (p \o h) \o t = p \o (h \o t)
<1>1. p \o h \in Seq(Byte)
  BY ConcatProperties
<1>2. (p \o h) \o t = p \o (h \o t)
  BY ConcatAssociative
<1> QED
  BY <1>1, <1>2

\* Reading n bytes from the kernel takes them from the front of all the bytes
\* that are due.
LEMMA DropFromFirst ==
  ASSUME NEW Byte, NEW s \in Seq(Byte), NEW t \in Seq(Byte), NEW n \in 1 .. Len(s)
  PROVE  /\ n \in 1 .. Len(s \o t)
         /\ SubSeq(s, n + 1, Len(s)) \o t = SubSeq(s \o t, n + 1, Len(s \o t))
<1>1. /\ Len(s) \in Nat /\ Len(t) \in Nat
      /\ \A i \in 1 .. Len(s) : s[i] \in Byte
      /\ s \o t \in Seq(Byte) /\ Len(s \o t) = Len(s) + Len(t)
      /\ \A i \in 1 .. Len(s \o t) : (s \o t)[i] \in Byte
      /\ \A i \in 1 .. Len(s) + Len(t) :
           (s \o t)[i] = IF i <= Len(s) THEN s[i] ELSE t[i - Len(s)]
  BY LenProperties, ElementOfSeq, ConcatProperties
<1> DEFINE rest == SubSeq(s, n + 1, Len(s))
           all  == SubSeq(s \o t, n + 1, Len(s \o t))
<1>2. /\ rest \in Seq(Byte)
      /\ Len(rest) = Len(s) - n
      /\ \A i \in 1 .. Len(s) - n : rest[i] = s[n + i]
  <2>1. /\ rest \in Seq(Byte)
        /\ Len(rest) = IF n + 1 <= Len(s) THEN Len(s) - (n + 1) + 1 ELSE 0
        /\ \A i \in 1 .. Len(s) - (n + 1) + 1 : rest[i] = s[(n + 1) + i - 1]
    BY <1>1, SubSeqProperties
  <2> QED
    BY <1>1, <2>1
<1>3. /\ all \in Seq(Byte)
      /\ Len(all) = Len(s) + Len(t) - n
      /\ \A i \in 1 .. Len(s) + Len(t) - n : all[i] = (s \o t)[n + i]
  <2>1. /\ all \in Seq(Byte)
        /\ Len(all) = IF n + 1 <= Len(s \o t) THEN Len(s \o t) - (n + 1) + 1 ELSE 0
        /\ \A i \in 1 .. Len(s \o t) - (n + 1) + 1 : all[i] = (s \o t)[(n + 1) + i - 1]
    BY <1>1, SubSeqProperties
  <2> QED
    BY <1>1, <2>1
<1> HIDE DEF rest, all
<1>4. /\ rest \o t \in Seq(Byte)
      /\ Len(rest \o t) = Len(s) - n + Len(t)
      /\ \A i \in 1 .. Len(s) - n + Len(t) :
           (rest \o t)[i] = IF i <= Len(s) - n THEN rest[i] ELSE t[i - (Len(s) - n)]
  <2> rest \in Seq(Byte) /\ t \in Seq(Byte)
    BY <1>2
  <2>1. /\ rest \o t \in Seq(Byte)
        /\ Len(rest \o t) = Len(rest) + Len(t)
        /\ \A i \in 1 .. Len(rest) + Len(t) :
             (rest \o t)[i] = IF i <= Len(rest) THEN rest[i] ELSE t[i - Len(rest)]
    BY ConcatProperties
  <2> QED
    BY <1>2, <2>1
<1>5. ASSUME NEW i \in 1 .. Len(rest \o t)
      PROVE  (rest \o t)[i] = all[i]
  <2>1. i \in 1 .. Len(s) + Len(t) - n /\ n + i \in 1 .. Len(s) + Len(t)
    BY <1>1, <1>4
  <2>2. CASE i <= Len(s) - n
    BY <1>1, <1>2, <1>3, <1>4, <2>1, <2>2
  <2>3. CASE ~(i <= Len(s) - n)
    <3>1. (rest \o t)[i] = t[i - (Len(s) - n)]
      BY <1>1, <1>4, <2>1, <2>3
    <3>2. all[i] = t[(n + i) - Len(s)]
      BY <1>1, <1>3, <2>1, <2>3
    <3> QED
      BY <1>1, <3>1, <3>2, <2>1
  <2> QED
    BY <2>2, <2>3
<1>6. rest \o t = all
  <2>1. Len(rest \o t) = Len(all)
    BY <1>1, <1>3, <1>4
  <2> QED
    BY <1>3, <1>4, <1>5, <2>1, SeqEqual
<1>7. n \in 1 .. Len(s \o t)
  BY <1>1
<1> QED
  BY <1>6, <1>7 DEF rest, all

\* What is left of a sequence behind its first n elements.
LEMMA Drop ==
  ASSUME NEW S, NEW s \in Seq(S), NEW n \in 0 .. Len(s)
  PROVE  /\ SubSeq(s, n + 1, Len(s)) \in Seq(S)
         /\ Len(SubSeq(s, n + 1, Len(s))) = Len(s) - n
         /\ \A i \in 1 .. Len(s) - n : SubSeq(s, n + 1, Len(s))[i] = s[n + i]
<1>1. Len(s) \in Nat /\ \A i \in 1 .. Len(s) : s[i] \in S
  BY LenProperties, ElementOfSeq
<1>2. /\ SubSeq(s, n + 1, Len(s)) \in Seq(S)
      /\ Len(SubSeq(s, n + 1, Len(s))) = IF n + 1 <= Len(s) THEN Len(s) - (n + 1) + 1 ELSE 0
      /\ \A i \in 1 .. Len(s) - (n + 1) + 1 :
           SubSeq(s, n + 1, Len(s))[i] = s[(n + 1) + i - 1]
  BY <1>1, SubSeqProperties
<1> QED
  BY <1>1, <1>2

\* What is left behind n and then k more.
LEMMA DropTwice ==
  ASSUME NEW S, NEW s \in Seq(S), NEW n \in 0 .. Len(s), NEW k \in 0 .. Len(s) - n
  PROVE  LET rest == SubSeq(s, n + 1, Len(s))
         IN  SubSeq(rest, k + 1, Len(rest)) = SubSeq(s, (n + k) + 1, Len(s))
<1> DEFINE rest == SubSeq(s, n + 1, Len(s))
           once == SubSeq(s, (n + k) + 1, Len(s))
           twice == SubSeq(rest, k + 1, Len(rest))
<1>1. Len(s) \in Nat /\ n + k \in 0 .. Len(s)
  BY LenProperties
<1>2. /\ rest \in Seq(S) /\ Len(rest) = Len(s) - n
      /\ \A i \in 1 .. Len(s) - n : rest[i] = s[n + i]
  BY Drop
<1>3. /\ once \in Seq(S) /\ Len(once) = Len(s) - (n + k)
      /\ \A i \in 1 .. Len(s) - (n + k) : once[i] = s[(n + k) + i]
  <2> DEFINE m == n + k
  <2>1. m \in 0 .. Len(s)
    BY <1>1
  <2> HIDE DEF m
  <2>2. /\ SubSeq(s, m + 1, Len(s)) \in Seq(S) /\ Len(SubSeq(s, m + 1, Len(s))) = Len(s) - m
        /\ \A i \in 1 .. Len(s) - m : SubSeq(s, m + 1, Len(s))[i] = s[m + i]
    BY <2>1, Drop
  <2> QED
    BY <2>2 DEF m
<1> HIDE DEF rest, once
<1>4. k \in 0 .. Len(rest)
  BY <1>1, <1>2
<1>5. /\ twice \in Seq(S) /\ Len(twice) = Len(rest) - k
      /\ \A i \in 1 .. Len(rest) - k : twice[i] = rest[k + i]
  BY <1>2, <1>4, Drop
<1> HIDE DEF twice
<1>6. ASSUME NEW i \in 1 .. Len(s) - (n + k)
      PROVE  twice[i] = once[i]
  <2>1. i \in 1 .. Len(rest) - k /\ k + i \in 1 .. Len(s) - n /\ n + (k + i) = (n + k) + i
    BY <1>1, <1>2
  <2> QED
    BY <1>2, <1>3, <1>5, <2>1
<1>7. Len(twice) = Len(once) /\ Len(once) = Len(s) - (n + k)
  BY <1>1, <1>2, <1>3, <1>5
<1>8. twice = once
  BY <1>3, <1>5, <1>6, <1>7, SeqEqual
<1> QED
  BY <1>8 DEF rest, once, twice

\* The first n elements of s are the first n of all.
LEMMA TakeFromFirst ==
  ASSUME NEW S, NEW s \in Seq(S), NEW t \in Seq(S), NEW n \in 0 .. Len(s)
  PROVE  SubSeq(s, 1, n) = SubSeq(s \o t, 1, n)
<1> DEFINE a == SubSeq(s, 1, n)
           b == SubSeq(s \o t, 1, n)
<1>1. /\ Len(s) \in Nat /\ Len(t) \in Nat /\ \A i \in 1 .. Len(s) : s[i] \in S
      /\ \A i \in 1 .. Len(s) + Len(t) : (s \o t)[i] = IF i <= Len(s) THEN s[i] ELSE t[i - Len(s)]
  BY LenProperties, ElementOfSeq, ConcatProperties
<1>2. \A i \in 1 .. n : s[i] \in S /\ (s \o t)[i] = s[i]
  BY <1>1
<1>3. /\ a \in Seq(S) /\ Len(a) = IF 1 <= n THEN n - 1 + 1 ELSE 0
      /\ \A i \in 1 .. n - 1 + 1 : a[i] = s[1 + i - 1]
  BY <1>2, SubSeqProperties
<1>4. /\ b \in Seq(S) /\ Len(b) = IF 1 <= n THEN n - 1 + 1 ELSE 0
      /\ \A i \in 1 .. n - 1 + 1 : b[i] = (s \o t)[1 + i - 1]
  BY <1>2, SubSeqProperties
<1> HIDE DEF a, b
<1>5. Len(a) = n /\ \A i \in 1 .. n : a[i] = s[i]
  BY <1>1, <1>3
<1>6. Len(b) = n /\ \A i \in 1 .. n : b[i] = (s \o t)[i]
  BY <1>1, <1>4
<1>7. a = b
  BY <1>2, <1>3, <1>4, <1>5, <1>6, SeqEqual
<1> QED
  BY <1>7 DEF a, b

\* A concatenation splits again into its parts.
LEMMA SplitConcat ==
  ASSUME NEW S, NEW m \in Seq(S), NEW w \in Seq(S)
  PROVE  /\ m = SubSeq(m \o w, 1, Len(m))
         /\ w = SubSeq(m \o w, Len(m) + 1, Len(m \o w))
<1>1. Len(m) \in Nat /\ Len(m) \in 0 .. Len(m)
  BY LenProperties
<1>2. SubSeq(m, 1, Len(m)) = m
  BY SubSeqFull
<1>3. SubSeq(m, 1, Len(m)) = SubSeq(m \o w, 1, Len(m))
  BY <1>1, TakeFromFirst
<1>4. CASE Len(m) = 0
  <2>1. m = <<>>
    BY <1>4, EmptySeq
  <2>2. m \o w = w
    BY <2>1, ConcatEmptySeq
  <2> QED
    BY <1>2, <1>3, <1>4, <2>2, SubSeqFull
<1>5. CASE Len(m) # 0
  <2>1. Len(m) \in 1 .. Len(m)
    BY <1>1, <1>5
  <2>2. SubSeq(m, Len(m) + 1, Len(m)) \o w = SubSeq(m \o w, Len(m) + 1, Len(m \o w))
    BY <2>1, DropFromFirst
  <2>3. SubSeq(m, Len(m) + 1, Len(m)) = <<>>
    BY <1>1, SubSeqEmpty
  <2>4. <<>> \o w = w
    BY ConcatEmptySeq
  <2> QED
    BY <1>2, <1>3, <2>2, <2>3, <2>4
<1> QED
  BY <1>4, <1>5

\* What is appended is appended to what is left, too.
LEMMA DropOfAppend ==
  ASSUME NEW S, NEW s \in Seq(S), NEW e \in S, NEW n \in 0 .. Len(s)
  PROVE  SubSeq(Append(s, e), n + 1, Len(Append(s, e)))
           = Append(SubSeq(s, n + 1, Len(s)), e)
<1> DEFINE t == Append(s, e)
           rest == SubSeq(s, n + 1, Len(s))
           all == SubSeq(t, n + 1, Len(t))
           new == Append(rest, e)
<1>1. /\ Len(s) \in Nat /\ t \in Seq(S) /\ Len(t) = Len(s) + 1
      /\ \A i \in 1 .. Len(s) : t[i] = s[i]
      /\ t[Len(s) + 1] = e
  BY LenProperties, AppendProperties
<1> HIDE DEF t
<1>2. /\ rest \in Seq(S) /\ Len(rest) = Len(s) - n
      /\ \A i \in 1 .. Len(s) - n : rest[i] = s[n + i]
  BY Drop
<1> HIDE DEF rest
<1>3. /\ new \in Seq(S) /\ Len(new) = Len(rest) + 1
      /\ \A i \in 1 .. Len(rest) : new[i] = rest[i]
      /\ new[Len(rest) + 1] = e
  BY <1>2, AppendProperties
<1>4. n \in 0 .. Len(t)
  BY <1>1
<1>5. /\ all \in Seq(S) /\ Len(all) = Len(t) - n
      /\ \A i \in 1 .. Len(t) - n : all[i] = t[n + i]
  BY <1>1, <1>4, Drop
<1> HIDE DEF all, new
<1>6. Len(all) = Len(new) /\ Len(all) = Len(s) - n + 1
  BY <1>1, <1>2, <1>3, <1>5
<1>7. ASSUME NEW i \in 1 .. Len(all)
      PROVE  all[i] = new[i]
  <2>1. CASE i <= Len(s) - n
    <3>1. i \in 1 .. Len(s) - n /\ i \in 1 .. Len(rest) /\ n + i \in 1 .. Len(s) /\ i \in 1 .. Len(t) - n
      BY <1>1, <1>2, <1>6, <2>1
    <3> QED
      BY <1>1, <1>2, <1>3, <1>5, <3>1
  <2>2. CASE ~(i <= Len(s) - n)
    <3>1. i = Len(rest) + 1 /\ n + i = Len(s) + 1 /\ i \in 1 .. Len(t) - n
      BY <1>1, <1>2, <1>6, <2>2
    <3> QED
      BY <1>1, <1>3, <1>5, <3>1
  <2> QED
    BY <2>1, <2>2
<1>8. all = new
  BY <1>3, <1>5, <1>6, <1>7, SeqEqual
<1> QED
  BY <1>8 DEF t, all, new, rest

\* A prefix has the same elements as far as it goes.
LEMMA PrefixElements ==
  ASSUME NEW S, NEW s \in Seq(S), NEW t \in Seq(S)
  PROVE  IsPrefix(s, t) <=> Len(s) <= Len(t) /\ \A i \in 1 .. Len(s) : s[i] = t[i]
<1>1. /\ Len(s) \in Nat /\ Len(t) \in Nat
      /\ \A i \in 1 .. Len(s) : s[i] \in S
      /\ \A i \in 1 .. Len(t) : t[i] \in S
  BY LenProperties, ElementOfSeq
<1>2. SubSeq(s, 1, Len(s)) = s
  BY SubSeqFull
<1>3. ASSUME Len(s) <= Len(t)
      PROVE  SubSeq(t, 1, Len(s)) = s <=> \A i \in 1 .. Len(s) : s[i] = t[i]
  <2> DEFINE u == SubSeq(t, 1, Len(s))
  <2>1. \A i \in 1 .. Len(s) : t[i] \in S
    BY <1>1, <1>3
  <2>2. /\ u \in Seq(S) /\ Len(u) = IF 1 <= Len(s) THEN Len(s) - 1 + 1 ELSE 0
        /\ \A i \in 1 .. Len(s) - 1 + 1 : u[i] = t[1 + i - 1]
    BY <1>1, <2>1, SubSeqProperties
  <2> HIDE DEF u
  <2>3. Len(u) = Len(s) /\ \A i \in 1 .. Len(s) : u[i] = t[i]
    BY <1>1, <2>2
  <2>4. (\A i \in 1 .. Len(u) : u[i] = s[i]) => u = s
    BY <2>2, <2>3, SeqEqual
  <2> QED
    BY <2>3, <2>4 DEF u
<1> QED
  BY <1>1, <1>2, <1>3 DEF IsPrefix

\* A prefix stays one when what it is of grows, or when it takes the next element.
LEMMA PrefixOfAppend ==
  ASSUME NEW S, NEW s \in Seq(S), NEW t \in Seq(S), NEW e \in S, IsPrefix(s, t)
  PROVE  IsPrefix(s, Append(t, e))
<1>1. Len(s) \in Nat /\ Len(t) \in Nat /\ Len(s) <= Len(t) /\ \A i \in 1 .. Len(s) : s[i] = t[i]
  BY PrefixElements, LenProperties
<1> DEFINE u == Append(t, e)
<1>2. u \in Seq(S) /\ Len(u) = Len(t) + 1 /\ \A i \in 1 .. Len(t) : u[i] = t[i]
  BY AppendProperties
<1> HIDE DEF u
<1>3. Len(s) <= Len(u) /\ \A i \in 1 .. Len(s) : s[i] = u[i]
  BY <1>1, <1>2
<1>4. IsPrefix(s, u)
  BY <1>2, <1>3, PrefixElements
<1> QED
  BY <1>4 DEF u

LEMMA NextOfPrefix ==
  ASSUME NEW S, NEW s \in Seq(S), NEW t \in Seq(S), IsPrefix(s, t),
         NEW k \in 1 .. Len(t), k = Len(s) + 1
  PROVE  IsPrefix(Append(s, t[k]), t)
<1>1. Len(s) \in Nat /\ Len(t) \in Nat /\ \A i \in 1 .. Len(s) : s[i] = t[i]
  BY PrefixElements, LenProperties
<1>2. t[k] \in S
  BY ElementOfSeq
<1> DEFINE e == t[k]
<1>3. e \in S
  BY <1>2
<1> HIDE DEF e
<1> DEFINE u == Append(s, e)
<1>4. u \in Seq(S) /\ Len(u) = Len(s) + 1 /\ u[Len(s) + 1] = e /\ \A i \in 1 .. Len(s) : u[i] = s[i]
  BY <1>3, AppendProperties
<1> HIDE DEF u
<1>5. Len(u) <= Len(t)
  BY <1>1, <1>4
<1>6. ASSUME NEW i \in 1 .. Len(u)
      PROVE  u[i] = t[i]
  <2>1. i \in 1 .. Len(s) \/ i = k
    BY <1>1, <1>4
  <2> QED
    BY <1>1, <1>4, <2>1 DEF e
<1>7. IsPrefix(u, t)
  BY <1>4, <1>5, <1>6, PrefixElements
<1> QED
  BY <1>7 DEF u, e

\* What is put at the end of a queue is added to what is in it.
LEMMA RangeAppend ==
  ASSUME NEW S, NEW s \in Seq(S), NEW e \in S
  PROVE  Append(s, e) \in Seq(S) /\ Range(Append(s, e)) = Range(s) \cup {e}
<1>1. /\ DOMAIN s = 1 .. Len(s) /\ Len(s) \in Nat
      /\ Append(s, e) \in Seq(S) /\ DOMAIN Append(s, e) = 1 .. Len(s) + 1
      /\ \A i \in 1 .. Len(s) : Append(s, e)[i] = s[i]
      /\ Append(s, e)[Len(s) + 1] = e
  BY LenProperties, AppendProperties
<1> QED
  BY <1>1 DEF Range

\* What is taken from the front of a queue was in it, like what stays.
LEMMA RangeTail ==
  ASSUME NEW S, NEW s \in Seq(S), s # <<>>
  PROVE  /\ Head(s) \in S /\ Tail(s) \in Seq(S)
         /\ Range(s) = {Head(s)} \cup Range(Tail(s))
<1>1. /\ DOMAIN s = 1 .. Len(s) /\ Len(s) \in Nat \ {0}
      /\ Head(s) \in S /\ Tail(s) \in Seq(S) /\ DOMAIN Tail(s) = 1 .. Len(s) - 1
      /\ \A i \in 1 .. Len(s) - 1 : Tail(s)[i] = s[i + 1]
      /\ Head(s) = s[1]
  BY LenProperties, EmptySeq, HeadTailProperties
<1>2. \A x \in Range(s) : x = Head(s) \/ x \in Range(Tail(s))
  <2> SUFFICES ASSUME NEW i \in 1 .. Len(s), i # 1
               PROVE  s[i] \in Range(Tail(s))
    BY <1>1 DEF Range
  <2>1. i - 1 \in 1 .. Len(s) - 1 /\ Tail(s)[i - 1] = s[i]
    BY <1>1
  <2> QED
    BY <1>1, <2>1 DEF Range
<1>3. Head(s) \in Range(s) /\ \A x \in Range(Tail(s)) : x \in Range(s)
  BY <1>1 DEF Range
<1> QED
  BY <1>2, <1>3

-----------------------------------------------------------------------------
(* Sets of numbers.                                                        *)

\* A set of natural numbers has a least one.
LEMMA Smallest ==
  ASSUME NEW S \in SUBSET Nat, S # {}
  PROVE  \E m \in S : \A i \in S : m <= i
<1> DEFINE R == OpToRel(<, Nat)
<1>1. IsWellFoundedOn(R, Nat)
  BY NatLessThanWellFounded
<1>2. \A x, y \in Nat : x < y => <<x, y>> \in R
  BY DEF OpToRel
<1> HIDE DEF R
<1>3. PICK m \in S : \A y \in S : ~ (<<y, m>> \in R)
  BY <1>1, WFMin
<1>4. ASSUME NEW i \in S
      PROVE  m <= i
  <2>1. i \in Nat /\ m \in Nat /\ ~(i < m)
    BY <1>2, <1>3
  <2> QED
    BY <2>1
<1> QED
  BY <1>3, <1>4

\* A set of numbers with a bound has a greatest one.
LEMMA Largest ==
  ASSUME NEW S, S # {}, NEW b \in Int, \A i \in S : i \in Int /\ i <= b
  PROVE  \E m \in S : \A i \in S : i <= m
<1> DEFINE T == {n \in Nat : b - n \in S}
<1>1. T # {}
  <2>1. PICK i \in S : i \in Int /\ i <= b
    OBVIOUS
  <2>2. b - i \in Nat /\ b - (b - i) = i
    BY <2>1
  <2> QED
    BY <2>1, <2>2
<1>2. PICK m \in T : \A i \in T : m <= i
  BY <1>1, Smallest
<1>3. b - m \in S
  BY <1>2
<1>4. ASSUME NEW i \in S
      PROVE  i <= b - m
  <2>1. i \in Int /\ b - i \in Nat /\ b - (b - i) = i
    OBVIOUS
  <2>2. b - i \in T
    BY <2>1
  <2>3. m \in Nat /\ m <= b - i
    BY <1>2, <2>2
  <2> QED
    BY <2>1, <2>3
<1> QED
  BY <1>3, <1>4

\* What holds of 0 and of i + 1 whenever it holds of i holds up to n.
LEMMA UpTo ==
  ASSUME NEW n \in Nat, NEW S, 0 \in S, \A i \in 0 .. n - 1 : i \in S => i + 1 \in S
  PROVE  \A i \in 0 .. n : i \in S
<1> DEFINE Bad == {i \in 0 .. n : i \notin S}
<1> SUFFICES ASSUME Bad # {} PROVE FALSE
  OBVIOUS
<1>1. PICK m \in Bad : \A i \in Bad : m <= i
  <2>1. Bad \in SUBSET Nat
    OBVIOUS
  <2> HIDE DEF Bad
  <2> QED
    BY <2>1, Smallest
<1>2. m # 0 /\ m \in 0 .. n /\ m \notin S
  BY <1>1
<1>3. m - 1 \in 0 .. n - 1 /\ ~(m <= m - 1) /\ (m - 1) + 1 = m
  BY <1>2
<1>4. m - 1 \in S
  BY <1>1, <1>3
<1> QED
  BY <1>2, <1>3, <1>4

\* A function on 1 .. n is a sequence of length n.
LEMMA LenOf ==
  ASSUME NEW S, NEW n \in Nat, NEW v \in [1 .. n -> S]
  PROVE  v \in Seq(S) /\ Len(v) = n /\ DOMAIN v = 1 .. n
<1>1. v \in Seq(S)
  BY IsASeq
<1>2. DOMAIN v = 1 .. Len(v) /\ Len(v) \in Nat
  BY <1>1, LenProperties
<1> QED
  BY <1>1, <1>2, LenProperties

-----------------------------------------------------------------------------
(* FlattenSeq, which concatenates the sequences of a sequence.             *)

\* F[i] is the concatenation of the first i elements of s.
Flattens(F, s) ==
  F = [i \in 1 .. Len(s) |-> IF i = 1 THEN s[i] ELSE F[i - 1] \o s[i]]

LEMMA FlattensExists ==
  ASSUME NEW S, NEW s \in Seq(Seq(S))
  PROVE  \E F : Flattens(F, s)
<1> DEFINE Upto(n) == \E F : F = [i \in 1 .. n |-> IF i = 1 THEN s[i] ELSE F[i - 1] \o s[i]]
           Bad == {n \in Nat : ~Upto(n)}
<1>1. Bad = {}
  <2> SUFFICES ASSUME Bad # {} PROVE FALSE
    OBVIOUS
  <2>1. PICK m \in Bad : \A i \in Bad : m <= i
    <3> HIDE DEF Bad
    <3>1. Bad \in SUBSET Nat
      BY DEF Bad
    <3> QED
      BY <3>1, Smallest
  <2>2. CASE m = 0
    <3> DEFINE F == [i \in 1 .. 0 |-> s[i]]
    <3>1. F = [i \in 1 .. 0 |-> IF i = 1 THEN s[i] ELSE F[i - 1] \o s[i]]
      OBVIOUS
    <3> QED
      BY <2>1, <2>2, <3>1
  <2>3. CASE m # 0
    <3>1. m - 1 \in Nat /\ m \in Nat /\ ~(m <= m - 1)
      BY <2>1, <2>3
    <3>2. Upto(m - 1)
      BY <2>1, <3>1
    <3>3. PICK F : F = [i \in 1 .. m - 1 |-> IF i = 1 THEN s[i] ELSE F[i - 1] \o s[i]]
      BY <3>2
    <3> DEFINE G == [i \in 1 .. m |-> IF i < m THEN F[i] ELSE IF i = 1 THEN s[i] ELSE F[i - 1] \o s[i]]
    <3>4. ASSUME NEW i \in 1 .. m
          PROVE  G[i] = IF i = 1 THEN s[i] ELSE G[i - 1] \o s[i]
      <4>1. CASE i = 1
        <5>1. 1 < m => F[1] = s[1]
          BY <3>1, <3>3
        <5> QED
          BY <4>1, <5>1
      <4>2. CASE i # 1
        <5>1. i - 1 \in 1 .. m /\ i - 1 < m /\ i - 1 \in 1 .. m - 1
          BY <3>1, <4>2
        <5>2. G[i - 1] = F[i - 1]
          BY <5>1
        <5>3. G[i] = F[i - 1] \o s[i]
          <6>1. CASE i < m
            <7>1. i \in 1 .. m - 1
              BY <3>1, <6>1
            <7>2. F[i] = F[i - 1] \o s[i]
              BY <3>3, <4>2, <7>1
            <7> QED
              BY <6>1, <7>2
          <6>2. CASE ~(i < m)
            BY <6>2, <4>2
          <6> QED
            BY <6>1, <6>2
        <5> QED
          BY <4>2, <5>2, <5>3
      <4> QED
        BY <4>1, <4>2
    <3>5. G = [i \in 1 .. m |-> G[i]]
      OBVIOUS
    <3> HIDE DEF G
    <3>6. G = [i \in 1 .. m |-> IF i = 1 THEN s[i] ELSE G[i - 1] \o s[i]]
      BY <3>4, <3>5
    <3>7. Upto(m)
      BY <3>6
    <3> QED
      BY <2>1, <3>7
  <2> QED
    BY <2>2, <2>3
<1>2. Len(s) \in Nat
  BY LenProperties
<1> QED
  BY <1>1, <1>2 DEF Flattens

LEMMA FlattenFunction ==
  ASSUME NEW S, NEW s \in Seq(Seq(S)), s # <<>>
  PROVE  \E F : Flattens(F, s) /\ FlattenSeq(s) = F[Len(s)]
<1>1. Len(s) # 0
  BY EmptySeq, LenProperties
<1>2. \E F : Flattens(F, s)
  BY FlattensExists
<1> QED
  BY <1>1, <1>2 DEF FlattenSeq, Flattens

LEMMA FlattensProperties ==
  ASSUME NEW S, NEW s \in Seq(Seq(S)), NEW F, Flattens(F, s)
  PROVE  /\ \A i \in 1 .. Len(s) : F[i] \in Seq(S)
         /\ \A i \in 1 .. Len(s) : F[i] = IF i = 1 THEN s[i] ELSE F[i - 1] \o s[i]
<1>1. \A i \in 1 .. Len(s) : F[i] = IF i = 1 THEN s[i] ELSE F[i - 1] \o s[i]
  BY DEF Flattens
<1>2. Len(s) \in Nat /\ \A i \in 1 .. Len(s) : s[i] \in Seq(S)
  BY LenProperties, ElementOfSeq
<1> DEFINE Bad == {i \in 1 .. Len(s) : F[i] \notin Seq(S)}
<1>3. Bad = {}
  <2> SUFFICES ASSUME Bad # {} PROVE FALSE
    OBVIOUS
  <2>1. PICK m \in Bad : \A i \in Bad : m <= i
    <3>1. Bad \in SUBSET Nat
      BY <1>2
    <3> HIDE DEF Bad
    <3> QED
      BY <3>1, Smallest
  <2>2. m # 1
    BY <1>1, <1>2, <2>1
  <2>3. m - 1 \in 1 .. Len(s) /\ ~(m <= m - 1)
    BY <1>2, <2>1, <2>2
  <2>4. F[m - 1] \in Seq(S)
    BY <2>1, <2>3
  <2>5. F[m] = F[m - 1] \o s[m]
    BY <1>1, <2>1, <2>2
  <2>6. F[m] \in Seq(S)
    BY <1>2, <2>1, <2>4, <2>5, ConcatProperties
  <2> QED
    BY <2>1, <2>6
<1> QED
  BY <1>1, <1>3

LEMMA Regroup ==
  ASSUME NEW S
  PROVE  \A a, b, c \in Seq(S) : (a \o b) \o c = a \o (b \o c)
BY ConcatAssociative

\* FlattenSeq concatenates: of no sequences, of one more, and of one at the front.
LEMMA FlattenType ==
  ASSUME NEW S, NEW s \in Seq(Seq(S))
  PROVE  /\ FlattenSeq(s) \in Seq(S)
         /\ s = <<>> => FlattenSeq(s) = <<>>
<1>1. CASE s = <<>>
  BY <1>1, EmptySeq DEF FlattenSeq
<1>2. CASE s # <<>>
  <2>1. PICK F : Flattens(F, s) /\ FlattenSeq(s) = F[Len(s)]
    BY <1>2, FlattenFunction
  <2>2. Len(s) \in 1 .. Len(s)
    BY <1>2, EmptySeq, LenProperties
  <2> QED
    BY <1>2, <2>1, <2>2, FlattensProperties
<1> QED
  BY <1>1, <1>2

LEMMA FlattenAppend ==
  ASSUME NEW S, NEW s \in Seq(Seq(S)), NEW e \in Seq(S)
  PROVE  FlattenSeq(Append(s, e)) = FlattenSeq(s) \o e
<1> DEFINE t == Append(s, e)
<1>1. /\ t \in Seq(Seq(S)) /\ t # <<>> /\ Len(t) = Len(s) + 1 /\ Len(s) \in Nat
      /\ \A i \in 1 .. Len(s) : t[i] = s[i]
      /\ t[Len(s) + 1] = e
  BY AppendProperties, LenProperties
<1> HIDE DEF t
<1>2. PICK G : Flattens(G, t) /\ FlattenSeq(t) = G[Len(t)]
  BY <1>1, FlattenFunction
<1>3. \A i \in 1 .. Len(t) : G[i] = IF i = 1 THEN t[i] ELSE G[i - 1] \o t[i]
  BY <1>2 DEF Flattens
<1>4. CASE s = <<>>
  <2>1. Len(s) = 0 /\ 1 \in 1 .. Len(t)
    BY <1>1, <1>4, EmptySeq
  <2>2. FlattenSeq(t) = e
    BY <1>1, <1>2, <1>3, <2>1
  <2>3. FlattenSeq(s) = <<>> /\ <<>> \o e = e
    BY <1>4, FlattenType, ConcatEmptySeq
  <2> QED
    BY <2>2, <2>3 DEF t
<1>5. CASE s # <<>>
  <2>1. PICK F : Flattens(F, s) /\ FlattenSeq(s) = F[Len(s)]
    BY <1>5, FlattenFunction
  <2>2. \A i \in 1 .. Len(s) : F[i] = IF i = 1 THEN s[i] ELSE F[i - 1] \o s[i]
    BY <2>1, FlattensProperties
  <2> DEFINE Bad == {i \in 1 .. Len(s) : F[i] # G[i]}
  <2>3. Bad = {}
    <3> SUFFICES ASSUME Bad # {} PROVE FALSE
      OBVIOUS
    <3>1. PICK m \in Bad : \A i \in Bad : m <= i
      <4>1. Bad \in SUBSET Nat
        BY <1>1
      <4> HIDE DEF Bad
      <4> QED
        BY <4>1, Smallest
    <3>2. m \in 1 .. Len(s) /\ m \in 1 .. Len(t) /\ t[m] = s[m] /\ F[m] # G[m]
      BY <1>1, <3>1
    <3>3. m # 1
      BY <1>3, <2>2, <3>2
    <3>4. m - 1 \in 1 .. Len(s) /\ ~(m <= m - 1)
      BY <1>1, <3>2, <3>3
    <3>5. F[m - 1] = G[m - 1]
      BY <3>1, <3>4
    <3> QED
      BY <1>3, <2>2, <3>2, <3>3, <3>5
  <2>4. Len(s) \in 1 .. Len(s) /\ Len(t) \in 1 .. Len(t) /\ Len(t) # 1 /\ Len(t) - 1 = Len(s)
    BY <1>1, <1>5, EmptySeq
  <2>5. G[Len(s)] = FlattenSeq(s)
    BY <2>1, <2>3, <2>4
  <2>6. G[Len(t)] = G[Len(s)] \o t[Len(t)]
    BY <1>3, <2>4
  <2> QED
    BY <1>1, <1>2, <2>5, <2>6 DEF t
<1> QED
  BY <1>4, <1>5

LEMMA FlattenFirst ==
  ASSUME NEW S, NEW s \in Seq(Seq(S)), s # <<>>
  PROVE  /\ Tail(s) \in Seq(Seq(S)) /\ Head(s) \in Seq(S)
         /\ FlattenSeq(s) = Head(s) \o FlattenSeq(Tail(s))
<1>0. \A a, b, c \in Seq(S) : (a \o b) \o c = a \o (b \o c)
  BY ONLY Regroup
<1> DEFINE Wrong(t) == t # <<>> /\ FlattenSeq(t) # Head(t) \o FlattenSeq(Tail(t))
           Bad == {n \in Nat : \E t \in Seq(Seq(S)) : Len(t) = n /\ Wrong(t)}
<1>1. Bad = {}
  <2> SUFFICES ASSUME Bad # {} PROVE FALSE
    OBVIOUS
  <2>1. PICK n \in Bad : \A i \in Bad : n <= i
    <3>1. Bad \in SUBSET Nat
      OBVIOUS
    <3> HIDE DEF Bad
    <3> QED
      BY <3>1, Smallest
  <2>2. PICK t \in Seq(Seq(S)) : Len(t) = n /\ Wrong(t)
    BY <2>1
  <2>3. PICK u \in Seq(Seq(S)), e \in Seq(S) : t = Append(u, e)
    BY <2>2, SequenceEmptyOrAppend
  <2>4. FlattenSeq(t) = FlattenSeq(u) \o e
    BY <2>3, FlattenAppend
  <2>5. CASE u = <<>>
    <3>1. t = <<e>>
      BY <2>3, <2>5
    <3>2. Head(t) = e /\ Tail(t) = <<>>
      BY <3>1
    <3>3. FlattenSeq(u) = <<>> /\ FlattenSeq(Tail(t)) = <<>>
      BY <2>5, <3>2, FlattenType
    <3>4. <<>> \o e = e /\ e \o <<>> = e
      BY ConcatEmptySeq
    <3> QED
      BY <2>2, <2>4, <3>2, <3>3, <3>4
  <2>6. CASE u # <<>>
    <3>1. Len(u) \in Nat /\ n = Len(u) + 1
      BY <2>2, <2>3, AppendProperties, LenProperties
    <3>2. Len(u) \notin Bad
      <4>1. ~(n <= Len(u))
        BY <3>1
      <4> HIDE DEF Bad
      <4> QED
        BY <2>1, <4>1
    <3>3. FlattenSeq(u) = Head(u) \o FlattenSeq(Tail(u))
      BY <2>6, <3>1, <3>2
    <3>4. /\ Head(u) \in Seq(S) /\ Tail(u) \in Seq(Seq(S))
          /\ Head(t) = Head(u) /\ Tail(t) = Append(Tail(u), e)
      <4> HIDE DEF Bad
      <4>1. Head(u) \in Seq(S) /\ Tail(u) \in Seq(Seq(S))
        BY <2>6, HeadTailProperties
      <4>2. Head(t) = Head(u)
        BY <2>3, <2>6, HeadTailAppend
      <4>3. Tail(t) = Append(Tail(u), e)
        BY <2>3, <2>6, HeadTailAppend
      <4> QED
        BY <4>1, <4>2, <4>3
    <3>5. FlattenSeq(Tail(t)) = FlattenSeq(Tail(u)) \o e
      BY <3>4, FlattenAppend
    <3>6. FlattenSeq(Tail(u)) \in Seq(S)
      BY <3>4, FlattenType
    <3> DEFINE h == Head(u)
               r == FlattenSeq(Tail(u))
    <3>7. (h \o r) \o e = h \o (r \o e)
      <4>1. h \in Seq(S) /\ r \in Seq(S) /\ e \in Seq(S)
        BY <3>4, <3>6
      <4> HIDE DEF Bad, h, r
      <4> QED
        BY <4>1, <1>0
    <3> HIDE DEF Bad
    <3> QED
      BY <2>2, <2>4, <3>3, <3>4, <3>5, <3>7
  <2> QED
    BY <2>5, <2>6
<1>2. Len(s) \notin Bad
  BY <1>1
<1>3. Len(s) \in Nat /\ Tail(s) \in Seq(Seq(S)) /\ Head(s) \in Seq(S)
  BY LenProperties, HeadTailProperties
<1> QED
  BY <1>2, <1>3
==============================================================================
