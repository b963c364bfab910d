----------------------------- MODULE ChannelsProofs ----------------------------
(****************************************************************************)
(* What the operations of Channels do to the messages on their way: a       *)
(* pipeline of channels is the concatenation of what they hold, the oldest  *)
(* message first, and these lemmas say which numbers are in it and whether  *)
(* they are in order after a message is taken, passed on or overwritten.    *)
(****************************************************************************)
EXTENDS Channels, SequenceTheorems, TLAPS

Below(A, B) == \A a \in A, b \in B : a < b

(* t holds the same numbers as s, and in order if s does.                   *)
SameOrder(s, t, C) == Numbers(t, C) = Numbers(s, C) /\ (Rising(s, C) <=> Rising(t, C))

(* The type of a channel, as a set: IsChannel in terms of Seq.              *)
ChannelOf(M, n) == {ch \in [buf : Seq(M), lagged : BOOLEAN] : Len(ch.buf) <= n}

LEMMA ConcatOrder ==
  ASSUME NEW S, NEW s \in Seq(S), NEW t \in Seq(S), NEW C
  PROVE  /\ s \o t \in Seq(S)
         /\ Numbers(s \o t, C) = Numbers(s, C) \cup Numbers(t, C)
         /\ Rising(s \o t, C) <=> /\ Rising(s, C) /\ Rising(t, C)
                                  /\ Below(Numbers(s, C), Numbers(t, C))
<1> DEFINE p == s \o t
           m == Len(s)
           n == Len(t)
<1>1. /\ m \in Nat /\ n \in Nat /\ DOMAIN s = 1..m /\ DOMAIN t = 1..n
      /\ p \in Seq(S) /\ Len(p) = m + n /\ DOMAIN p = 1..(m + n)
      /\ \A i \in 1..(m + n) : p[i] = IF i <= m THEN s[i] ELSE t[i - m]
  BY LenProperties, ConcatProperties
<1>2. /\ \A i \in 1..m : i \in 1..(m + n) /\ p[i] = s[i]
      /\ \A j \in 1..n : m + j \in 1..(m + n) /\ p[m + j] = t[j]
      /\ \A k \in 1..(m + n) : k \in 1..m \/ (k - m \in 1..n /\ k = m + (k - m))
  BY <1>1
<1> HIDE DEF p, m, n
<1>3. Numbers(p, C) = Numbers(s, C) \cup Numbers(t, C)
  <2>1. ASSUME NEW x \in Numbers(p, C) PROVE x \in Numbers(s, C) \cup Numbers(t, C)
    <3>1. PICK k \in 1..(m + n) : p[k] \in C /\ x = p[k][2]
      BY <1>1, <2>1 DEF Numbers
    <3>2. CASE k \in 1..m
      BY <1>1, <1>2, <3>1, <3>2 DEF Numbers
    <3>3. CASE k - m \in 1..n /\ k = m + (k - m)
      <4>1. t[k - m] = p[k]
        BY <1>2, <3>3
      <4>2. QED
        BY <1>1, <3>1, <3>3, <4>1 DEF Numbers
    <3>4. QED
      BY <1>2, <3>1, <3>2, <3>3
  <2>2. ASSUME NEW x \in Numbers(s, C) PROVE x \in Numbers(p, C)
    <3>1. PICK k \in 1..m : s[k] \in C /\ x = s[k][2]
      BY <1>1, <2>2 DEF Numbers
    <3>2. k \in DOMAIN p /\ p[k] = s[k]
      BY <1>1, <1>2
    <3>3. QED
      BY <3>1, <3>2 DEF Numbers
  <2>3. ASSUME NEW x \in Numbers(t, C) PROVE x \in Numbers(p, C)
    <3>1. PICK k \in 1..n : t[k] \in C /\ x = t[k][2]
      BY <1>1, <2>3 DEF Numbers
    <3>2. m + k \in DOMAIN p /\ p[m + k] = t[k]
      BY <1>1, <1>2
    <3>3. QED
      BY <3>1, <3>2 DEF Numbers
  <2>4. QED
    BY <2>1, <2>2, <2>3
<1>4. ASSUME Rising(p, C)
      PROVE  Rising(s, C) /\ Rising(t, C) /\ Below(Numbers(s, C), Numbers(t, C))
  <2>1. Rising(s, C)
    BY <1>1, <1>2, <1>4 DEF Rising
  <2>2. Rising(t, C)
    <3> SUFFICES ASSUME NEW i \in 1..n, NEW j \in 1..n, i < j, t[i] \in C, t[j] \in C
                 PROVE  t[i][2] < t[j][2]
      BY <1>1 DEF Rising
    <3>1. /\ m + i \in DOMAIN p /\ m + j \in DOMAIN p /\ m + i < m + j
          /\ p[m + i] = t[i] /\ p[m + j] = t[j]
      BY <1>1, <1>2
    <3>2. p[m + i][2] < p[m + j][2]
      BY <1>4, <3>1 DEF Rising
    <3>3. QED
      BY <3>1, <3>2
  <2>3. Below(Numbers(s, C), Numbers(t, C))
    <3> SUFFICES ASSUME NEW i \in 1..m, NEW j \in 1..n, s[i] \in C, t[j] \in C
                 PROVE  s[i][2] < t[j][2]
      BY <1>1 DEF Below, Numbers
    <3>1. /\ i \in DOMAIN p /\ m + j \in DOMAIN p /\ i < m + j
          /\ p[i] = s[i] /\ p[m + j] = t[j]
      BY <1>1, <1>2
    <3>2. p[i][2] < p[m + j][2]
      BY <1>4, <3>1 DEF Rising
    <3>3. QED
      BY <3>1, <3>2
  <2>4. QED
    BY <2>1, <2>2, <2>3
<1>5. ASSUME Rising(s, C), Rising(t, C), Below(Numbers(s, C), Numbers(t, C))
      PROVE  Rising(p, C)
  <2> SUFFICES ASSUME NEW i \in 1..(m + n), NEW j \in 1..(m + n), i < j, p[i] \in C, p[j] \in C
               PROVE  p[i][2] < p[j][2]
    BY <1>1 DEF Rising
  <2>1. CASE i \in 1..m /\ j \in 1..m
    BY <1>1, <1>2, <1>5, <2>1 DEF Rising
  <2>2. CASE i \in 1..m /\ j - m \in 1..n
    <3>1. p[i] = s[i] /\ p[j] = t[j - m]
      BY <1>1, <1>2, <2>2
    <3>2. p[i][2] \in Numbers(s, C) /\ p[j][2] \in Numbers(t, C)
      BY <1>1, <2>2, <3>1 DEF Numbers
    <3>3. QED
      BY <1>5, <3>2 DEF Below
  <2>3. CASE i - m \in 1..n /\ j - m \in 1..n
    <3>1. p[i] = t[i - m] /\ p[j] = t[j - m] /\ i - m < j - m
      BY <1>1, <1>2, <2>3
    <3>2. QED
      BY <1>1, <1>5, <2>3, <3>1 DEF Rising
  <2>4. QED
    BY <1>1, <1>2, <2>1, <2>2, <2>3
<1>6. QED
  BY <1>1, <1>3, <1>4, <1>5 DEF p

LEMMA FewMessages ==
  ASSUME NEW C, NEW m
  PROVE  /\ Numbers(<<>>, C) = {} /\ Rising(<<>>, C)
         /\ Numbers(<<m>>, C) = SetNumbers({m}, C) /\ Rising(<<m>>, C)
<1>1. DOMAIN <<m>> = {1} /\ <<m>>[1] = m
  OBVIOUS
<1>2. Numbers(<<>>, C) = {} /\ Rising(<<>>, C)
  BY DEF Numbers, Rising
<1>3. Numbers(<<m>>, C) = SetNumbers({m}, C)
  BY <1>1 DEF Numbers, SetNumbers
<1>4. Rising(<<m>>, C)
  BY <1>1 DEF Rising
<1>5. QED
  BY <1>2, <1>3, <1>4

LEMMA NumbersTyped ==
  ASSUME NEW C, \A m \in C : m[2] \in Nat, NEW s
  PROVE  \A x \in Numbers(s, C) : x \in Nat
BY DEF Numbers

LEMMA JoinedNumbers ==
  ASSUME NEW A, NEW B, NEW C
  PROVE  /\ SetNumbers(A \cup B, C) = SetNumbers(A, C) \cup SetNumbers(B, C)
         /\ A \cap C = {} => SetNumbers(A, C) = {}
BY DEF SetNumbers

LEMMA HeadFirst ==
  ASSUME NEW S, NEW s \in Seq(S), s # <<>>
  PROVE  /\ Head(s) \in S /\ Tail(s) \in Seq(S) /\ <<Head(s)>> \in Seq(S)
         /\ <<Head(s)>> \o Tail(s) = s
<1>1. /\ Head(s) \in S /\ Tail(s) \in Seq(S) /\ Len(Tail(s)) = Len(s) - 1
      /\ \A i \in 1..Len(Tail(s)) : Tail(s)[i] = s[i + 1]
      /\ Len(s) \in Nat \ {0} /\ Head(s) = s[1]
  BY HeadTailProperties, EmptySeq, LenProperties
<1>2. <<Head(s)>> \in Seq(S) /\ Len(<<Head(s)>>) = 1 /\ <<Head(s)>>[1] = s[1]
  BY <1>1
<1> DEFINE t == <<Head(s)>> \o Tail(s)
<1>3. /\ t \in Seq(S) /\ Len(t) = Len(s)
      /\ \A i \in 1..Len(s) :
           t[i] = IF i <= 1 THEN <<Head(s)>>[i] ELSE Tail(s)[i - 1]
  BY <1>1, <1>2, ConcatProperties
<1>4. ASSUME NEW i \in 1..Len(s) PROVE t[i] = s[i]
  <2>1. CASE i = 1
    BY <1>2, <1>3, <2>1
  <2>2. CASE i # 1
    <3>1. i - 1 \in 1..Len(Tail(s)) /\ (i - 1) + 1 = i
      BY <1>1, <2>2
    <3>2. Tail(s)[i - 1] = s[i]
      BY <1>1, <3>1
    <3>3. QED
      BY <1>1, <1>3, <2>2, <3>2
  <2>3. QED
    BY <2>1, <2>2
<1>5. t = s
  BY <1>3, <1>4, SeqEqual
<1>6. QED
  BY <1>1, <1>2, <1>5

(* The oldest message of s is passed on to what is ahead of s.              *)
LEMMA Passed ==
  ASSUME NEW S, NEW f \in Seq(S), NEW s \in Seq(S), s # <<>>
  PROVE  (f \o <<Head(s)>>) \o Tail(s) = f \o s
  BY HeadFirst, ConcatAssociative

LEMMA SameOrderConcat ==
  ASSUME NEW S, NEW s \in Seq(S), NEW t \in Seq(S), NEW u \in Seq(S), NEW C,
         SameOrder(s, t, C)
  PROVE  SameOrder(s \o u, t \o u, C)
<1>1. /\ Numbers(s \o u, C) = Numbers(s, C) \cup Numbers(u, C)
      /\ Rising(s \o u, C) <=> /\ Rising(s, C) /\ Rising(u, C)
                               /\ Below(Numbers(s, C), Numbers(u, C))
  BY ConcatOrder
<1>2. /\ Numbers(t \o u, C) = Numbers(t, C) \cup Numbers(u, C)
      /\ Rising(t \o u, C) <=> /\ Rising(t, C) /\ Rising(u, C)
                               /\ Below(Numbers(t, C), Numbers(u, C))
  BY ConcatOrder
<1>3. Numbers(t, C) = Numbers(s, C) /\ (Rising(s, C) <=> Rising(t, C))
  BY DEF SameOrder
<1>4. QED
  BY <1>1, <1>2, <1>3, Zenon DEF SameOrder

(* A message that is not counted changes nothing.                           *)
LEMMA UncountedMessage ==
  ASSUME NEW S, NEW s \in Seq(S), NEW m \in S, NEW C, m \notin C
  PROVE  <<m>> \in Seq(S) /\ SameOrder(s, s \o <<m>>, C)
<1> DEFINE t == <<m>>
<1>1. t \in Seq(S)
  OBVIOUS
<1>2. Numbers(t, C) = {} /\ Rising(t, C)
  BY FewMessages DEF SetNumbers
<1> HIDE DEF t
<1>3. /\ Numbers(s \o t, C) = Numbers(s, C) \cup Numbers(t, C)
      /\ Rising(s \o t, C) <=> /\ Rising(s, C) /\ Rising(t, C)
                               /\ Below(Numbers(s, C), Numbers(t, C))
  BY <1>1, ConcatOrder
<1>4. Below(Numbers(s, C), Numbers(t, C))
  BY <1>2 DEF Below
<1>5. SameOrder(s, s \o t, C)
  BY <1>2, <1>3, <1>4 DEF SameOrder
<1>6. QED
  BY <1>1, <1>5 DEF t

(* The oldest message of s is lost, or passed on to nobody.                 *)
LEMMA Dropped ==
  ASSUME NEW S, NEW f \in Seq(S), NEW s \in Seq(S), s # <<>>,
         NEW C, \A m \in C : m[2] \in Nat, Rising(f \o s, C)
  PROVE  /\ Rising(f \o Tail(s), C)
         /\ Numbers(f \o Tail(s), C) = Numbers(f \o s, C) \ SetNumbers({Head(s)}, C)
         /\ SetNumbers({Head(s)}, C) \subseteq Numbers(f \o s, C)
<1> DEFINE h == <<Head(s)>>
           F == Numbers(f, C)
           H == SetNumbers({Head(s)}, C)
           t == Tail(s)
           T == Numbers(t, C)
<1>1. h \in Seq(S) /\ t \in Seq(S) /\ h \o t = s
  BY HeadFirst
<1>b. h \in Seq(S) /\ t \in Seq(S)
  BY <1>1
<1>2. Numbers(h, C) = H /\ Rising(h, C)
  BY FewMessages
<1> HIDE DEF h, t, F, H, T
<1>3. /\ Numbers(h \o t, C) = Numbers(h, C) \cup Numbers(t, C)
      /\ Rising(h \o t, C) <=> /\ Rising(h, C) /\ Rising(t, C)
                               /\ Below(Numbers(h, C), Numbers(t, C))
  BY <1>b, ConcatOrder
<1>4. /\ Numbers(f \o s, C) = Numbers(f, C) \cup Numbers(s, C)
      /\ Rising(f \o s, C) <=> /\ Rising(f, C) /\ Rising(s, C)
                               /\ Below(Numbers(f, C), Numbers(s, C))
  BY ConcatOrder
<1>5. /\ Numbers(f \o t, C) = Numbers(f, C) \cup Numbers(t, C)
      /\ Rising(f \o t, C) <=> /\ Rising(f, C) /\ Rising(t, C)
                               /\ Below(Numbers(f, C), Numbers(t, C))
  BY <1>b, ConcatOrder
<1>6. \A x \in H : x \in Nat
  BY DEF SetNumbers, H
<1>a. Numbers(s, C) = H \cup T /\ Rising(t, C) /\ Below(H, T)
  BY <1>1, <1>2, <1>3, <1>4 DEF T
<1>c. F = Numbers(f, C) /\ T = Numbers(t, C)
  BY DEF F, T
<1>7. Below(F, T) /\ Below(F, H)
  BY <1>a, <1>4, <1>c DEF Below
<1>8. \A x \in H : x \notin F /\ x \notin T
  BY <1>6, <1>7, <1>a DEF Below
<1>9. Numbers(f \o t, C) = Numbers(f \o s, C) \ H
  BY <1>4, <1>5, <1>8, <1>a, <1>c
<1>10. Rising(f \o t, C) /\ H \subseteq Numbers(f \o s, C)
  BY <1>4, <1>5, <1>7, <1>a, <1>c
<1>11. QED
  BY <1>9, <1>10 DEF H, t

(* From P the numbers G, all in it, are gone, and N are new.                *)
Renewed(P, G, N, Q) == G \subseteq P /\ Q = (P \ G) \cup N

(* A new message is the last, and overwrites the oldest if there is no room.*)
LEMMA PublishedOrder ==
  ASSUME NEW S, NEW n \in Nat \ {0}, NEW ch \in ChannelOf(S, n), NEW m \in S,
         NEW f \in Seq(S), NEW C, \A x \in C : x[2] \in Nat, Rising(f \o ch.buf, C),
         m \in C => \A a \in Numbers(f \o ch.buf, C) : a < m[2]
  PROVE  /\ Published(ch, n, m) \in ChannelOf(S, n) /\ Overwritten(ch, n) \subseteq S
         /\ Rising(f \o Published(ch, n, m).buf, C)
         /\ Renewed(Numbers(f \o ch.buf, C), SetNumbers(Overwritten(ch, n), C),
                    SetNumbers({m}, C), Numbers(f \o Published(ch, n, m).buf, C))
<1> DEFINE rest == IF Full(ch, n) THEN Tail(ch.buf) ELSE ch.buf
           new  == Published(ch, n, m)
           gone == SetNumbers(Overwritten(ch, n), C)
<1>1. ch.buf \in Seq(S) /\ Len(ch.buf) <= n /\ ch.lagged \in BOOLEAN /\ <<m>> \in Seq(S)
  BY DEF ChannelOf
<1>2. /\ rest \in Seq(S) /\ Len(rest) + 1 <= n /\ Rising(f \o rest, C)
      /\ Numbers(f \o rest, C) = Numbers(f \o ch.buf, C) \ gone
      /\ gone \subseteq Numbers(f \o ch.buf, C) /\ Overwritten(ch, n) \subseteq S
  <2>1. CASE Full(ch, n)
    <3>1. ch.buf # <<>> /\ Len(ch.buf) = n
      BY <1>1, <2>1 DEF Full
    <3>2. Overwritten(ch, n) = {Head(ch.buf)} /\ rest = Tail(ch.buf)
      BY <2>1 DEF Overwritten
    <3>3. Tail(ch.buf) \in Seq(S) /\ Len(Tail(ch.buf)) = n - 1 /\ Head(ch.buf) \in S
      BY <1>1, <3>1, HeadTailProperties
    <3>4. /\ Rising(f \o Tail(ch.buf), C)
          /\ Numbers(f \o Tail(ch.buf), C)
               = Numbers(f \o ch.buf, C) \ SetNumbers({Head(ch.buf)}, C)
          /\ SetNumbers({Head(ch.buf)}, C) \subseteq Numbers(f \o ch.buf, C)
      BY <1>1, <3>1, Dropped
    <3>5. Len(rest) + 1 <= n
      <4>1. Len(rest) = n - 1
        BY <3>2, <3>3
      <4>2. QED
        BY <4>1, SMT
    <3>6. QED
      BY <3>2, <3>3, <3>4, <3>5
  <2>2. CASE ~Full(ch, n)
    <3>1. Overwritten(ch, n) = {} /\ rest = ch.buf
      BY <2>2 DEF Overwritten
    <3>2. gone = {}
      BY <3>1 DEF SetNumbers
    <3>3. Len(ch.buf) \in Nat /\ Len(ch.buf) # n
      BY <1>1, <2>2, LenProperties DEF Full
    <3>4. Len(ch.buf) + 1 <= n
      BY <1>1, <3>3
    <3>5. QED
      BY <1>1, <3>1, <3>2, <3>4
  <2>3. QED
    BY <2>1, <2>2
<1>3. new.buf = Append(rest, m) /\ new \in [buf : Seq(S), lagged : BOOLEAN]
  <2>1. CASE Full(ch, n)
    BY <1>2, <2>1, AppendProperties DEF Published
  <2>2. CASE ~Full(ch, n)
    BY <1>1, <1>2, <2>2, AppendProperties DEF Published, ChannelOf
  <2>3. QED
    BY <2>1, <2>2
<1> HIDE DEF rest, new, gone
<1>4. new.buf = rest \o <<m>> /\ Len(new.buf) = Len(rest) + 1
  BY <1>2, <1>3, AppendIsConcat, AppendProperties
<1>5. f \o new.buf = (f \o rest) \o <<m>> /\ f \o rest \in Seq(S)
  <2>1. f \o new.buf = f \o (rest \o <<m>>)
    BY <1>4
  <2>2. QED
    BY <1>1, <1>2, <2>1, ConcatAssociative, ConcatProperties
<1>6. ASSUME NEW a \in Seq(S), NEW b \in Seq(S)
      PROVE  /\ Numbers(a \o b, C) = Numbers(a, C) \cup Numbers(b, C)
             /\ Rising(a \o b, C) <=> /\ Rising(a, C) /\ Rising(b, C)
                                      /\ Below(Numbers(a, C), Numbers(b, C))
  BY ConcatOrder
<1>7. Numbers(<<m>>, C) = SetNumbers({m}, C) /\ Rising(<<m>>, C)
  BY FewMessages
<1>t. /\ Numbers(f \o new.buf, C) = Numbers(f \o rest, C) \cup Numbers(<<m>>, C)
      /\ Rising(f \o new.buf, C) <=>
           /\ Rising(f \o rest, C) /\ Rising(<<m>>, C)
           /\ Below(Numbers(f \o rest, C), Numbers(<<m>>, C))
  <2> DEFINE a == f \o rest
             b == <<m>>
  <2>1. a \in Seq(S) /\ b \in Seq(S) /\ f \o new.buf = a \o b
    BY <1>1, <1>5
  <2> HIDE DEF a, b
  <2>2. /\ Numbers(a \o b, C) = Numbers(a, C) \cup Numbers(b, C)
        /\ Rising(a \o b, C) <=> /\ Rising(a, C) /\ Rising(b, C)
                                 /\ Below(Numbers(a, C), Numbers(b, C))
    BY <1>6, <2>1
  <2>3. QED
    BY <2>1, <2>2 DEF a, b
<1>8. Below(Numbers(f \o rest, C), SetNumbers({m}, C))
  BY <1>2 DEF Below, SetNumbers
<1>9. new \in ChannelOf(S, n)
  BY <1>2, <1>3, <1>4 DEF ChannelOf
<1>10. Rising(f \o new.buf, C)
       /\ Numbers(f \o new.buf, C) = (Numbers(f \o ch.buf, C) \ gone) \cup SetNumbers({m}, C)
  BY <1>2, <1>7, <1>8, <1>t
<1>11. QED
  BY <1>2, <1>9, <1>10 DEF Renewed, new, gone

LEMMA PublishedTyped ==
  ASSUME NEW S, NEW n \in Nat \ {0}, NEW ch \in ChannelOf(S, n), NEW m \in S
  PROVE  Published(ch, n, m) \in ChannelOf(S, n) /\ Overwritten(ch, n) \subseteq S
<1> DEFINE f == <<>>
           C == {}
<1>1. f \in Seq(S) /\ \A x \in C : x[2] \in Nat
  BY EmptySeq
<1>2. Rising(f \o ch.buf, C) /\ m \notin C
  BY DEF Rising
<1> HIDE DEF f, C
<1>3. QED
  BY <1>1, <1>2, PublishedOrder

(* A message goes on from the head of t into a channel ahead of t, which    *)
(* may overwrite an older one.                                              *)
LEMMA PublishedInside ==
  ASSUME NEW S, NEW n \in Nat \ {0}, NEW ch \in ChannelOf(S, n), NEW m \in S,
         NEW f \in Seq(S), NEW t \in Seq(S), NEW C, \A x \in C : x[2] \in Nat,
         Rising((f \o ch.buf) \o (<<m>> \o t), C)
  PROVE  /\ Rising((f \o Published(ch, n, m).buf) \o t, C)
         /\ Renewed(Numbers((f \o ch.buf) \o (<<m>> \o t), C),
                    SetNumbers(Overwritten(ch, n), C), {},
                    Numbers((f \o Published(ch, n, m).buf) \o t, C))
<1> DEFINE h == <<m>>
           a == f \o ch.buf
           b == h \o t
           d == f \o Published(ch, n, m).buf
           G == SetNumbers(Overwritten(ch, n), C)
           M == SetNumbers({m}, C)
<1>1. h \in Seq(S) /\ ch.buf \in Seq(S) /\ Published(ch, n, m) \in ChannelOf(S, n)
  <2>1. Published(ch, n, m) \in ChannelOf(S, n)
    BY PublishedTyped
  <2>2. QED
    BY <2>1 DEF ChannelOf
<1>2. a \in Seq(S) /\ b \in Seq(S) /\ d \in Seq(S)
  <2>1. Published(ch, n, m).buf \in Seq(S)
    BY <1>1 DEF ChannelOf
  <2>2. QED
    BY <1>1, <2>1, ConcatProperties
<1>3. Numbers(h, C) = M /\ Rising(h, C)
  BY FewMessages
<1>4. Rising(a \o b, C)
  OBVIOUS
<1>5. \A x \in M : x = m[2] /\ m \in C /\ x \in Nat
  BY DEF SetNumbers
<1>6. m \in C => m[2] \in M
  BY DEF SetNumbers
<1> HIDE DEF h, M
<1>7. /\ Numbers(b, C) = Numbers(h, C) \cup Numbers(t, C)
      /\ Rising(b, C) <=> /\ Rising(h, C) /\ Rising(t, C)
                          /\ Below(Numbers(h, C), Numbers(t, C))
  BY <1>1, ConcatOrder
<1>8. m \in S /\ f \in Seq(S) /\ ch \in ChannelOf(S, n)
  OBVIOUS
<1> HIDE DEF a, b, d
<1>9. /\ Numbers(a \o b, C) = Numbers(a, C) \cup Numbers(b, C)
      /\ Rising(a \o b, C) <=> /\ Rising(a, C) /\ Rising(b, C)
                               /\ Below(Numbers(a, C), Numbers(b, C))
  BY <1>2, ConcatOrder
<1>10. /\ Numbers(d \o t, C) = Numbers(d, C) \cup Numbers(t, C)
       /\ Rising(d \o t, C) <=> /\ Rising(d, C) /\ Rising(t, C)
                                /\ Below(Numbers(d, C), Numbers(t, C))
  BY <1>2, ConcatOrder
<1>11. /\ Rising(a, C) /\ Rising(t, C) /\ Below(Numbers(a, C), M)
       /\ Below(Numbers(a, C), Numbers(t, C)) /\ Below(M, Numbers(t, C))
  BY <1>3, <1>4, <1>7, <1>9 DEF Below
<1>12. m \in C => \A x \in Numbers(a, C) : x < m[2]
  BY <1>6, <1>11 DEF Below
<1>13. Rising(d, C) /\ Renewed(Numbers(a, C), G, M, Numbers(d, C))
  BY <1>11, <1>12, PublishedOrder DEF a, d, G, M
<1> HIDE DEF G
<1>14. G \subseteq Numbers(a, C) /\ Numbers(d, C) = (Numbers(a, C) \ G) \cup M
  BY <1>13 DEF Renewed
<1>15. Rising(d \o t, C)
  BY <1>10, <1>11, <1>13, <1>14 DEF Below
<1>16. \A x \in G : x \notin M /\ x \notin Numbers(t, C)
  <2>1. \A x \in Numbers(a, C) \cap M : x < x /\ x \in Nat
    BY <1>5, <1>11 DEF Below
  <2>2. \A x \in Numbers(t, C) : x \in Nat
    BY NumbersTyped
  <2>3. \A x \in Numbers(a, C) \cap Numbers(t, C) : x < x /\ x \in Nat
    BY <1>11, <2>2 DEF Below
  <2>4. QED
    BY <1>14, <2>1, <2>3
<1>17. Numbers(d \o t, C) = Numbers(a \o b, C) \ G /\ G \subseteq Numbers(a \o b, C)
  BY <1>3, <1>7, <1>9, <1>10, <1>14, <1>16
<1>18. Renewed(Numbers(a \o b, C), G, {}, Numbers(d \o t, C))
  BY <1>17 DEF Renewed
<1>19. QED
  BY <1>15, <1>18 DEF a, b, d, h, G

LEMMA Widened ==
  ASSUME NEW S, NEW T, S \subseteq T, NEW n \in Nat, NEW ch \in ChannelOf(S, n)
  PROVE  ch \in ChannelOf(T, n)
<1>1. /\ ch \in [buf : Seq(S), lagged : BOOLEAN] /\ ch.buf \in Seq(S)
      /\ Len(ch.buf) <= n
  BY DEF ChannelOf
<1>2. ch.buf \in Seq(T)
  BY <1>1, SeqMonotonic
<1>3. QED
  BY <1>1, <1>2 DEF ChannelOf

LEMMA TakenChannel ==
  ASSUME NEW S, NEW n \in Nat, NEW ch \in ChannelOf(S, n)
  PROVE  /\ LagSeen(ch) \in ChannelOf(S, n) /\ LagSeen(ch).buf = ch.buf
         /\ ch.buf # <<>> => /\ Taken(ch) \in ChannelOf(S, n) /\ Taken(ch).buf = Tail(ch.buf)
                             /\ Head(ch.buf) \in S /\ <<Head(ch.buf)>> \in Seq(S)
<1>1. ch.buf \in Seq(S) /\ Len(ch.buf) <= n
  BY DEF ChannelOf
<1>2. ASSUME ch.buf # <<>>
      PROVE  /\ Taken(ch) \in ChannelOf(S, n) /\ Taken(ch).buf = Tail(ch.buf)
             /\ Head(ch.buf) \in S /\ <<Head(ch.buf)>> \in Seq(S)
  <2>1. /\ Tail(ch.buf) \in Seq(S) /\ Len(Tail(ch.buf)) = Len(ch.buf) - 1
        /\ Head(ch.buf) \in S /\ Len(ch.buf) \in Nat
    BY <1>1, <1>2, HeadTailProperties, LenProperties
  <2>2. QED
    BY <1>1, <2>1 DEF Taken, ChannelOf
<1>3. LagSeen(ch) \in ChannelOf(S, n) /\ LagSeen(ch).buf = ch.buf
  BY <1>1 DEF LagSeen, ChannelOf
<1>4. QED
  BY <1>2, <1>3

LEMMA ChannelTyped ==
  ASSUME NEW S, NEW n \in Nat, NEW ch \in ChannelOf(S, n)
  PROVE  IsChannel(ch, S, n)
<1>1. ch.buf \in Seq(S) /\ Len(ch.buf) <= n /\ ch.lagged \in BOOLEAN
  BY DEF ChannelOf
<1>2. \A i \in DOMAIN ch.buf : ch.buf[i] \in S
  BY <1>1, LenProperties, ElementOfSeq
<1>3. QED
  BY <1>1, <1>2 DEF IsChannel

================================================================================
