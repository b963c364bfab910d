----------------------------- MODULE SettingsProofs -----------------------------
(****************************************************************************)
(* What the getters tell is what the hardware is set to, as far as the      *)
(* history sure goes, for any configurations and modulations and any number *)
(* of operations that a failing bus or pin cuts short, at any write.        *)
(*                                                                          *)
(* The proof is about sequences of writes: an operation leaves at a place   *)
(* the value of its last write there (Leaves), and elsewhere what there was *)
(* (PlacesIn); both are known of a concatenation from its parts.  The       *)
(* invariant adds to AsReported which values each register can hold.        *)
(****************************************************************************)
EXTENDS Settings, SequenceTheorems, WellFoundedInduction, TLAPS

Nowhere == <<"none", "">>

Phys == {"off", "fsk", "ofdm", "qpsk"}

(* What a register or a pin can hold. *)
OptionValues == {<<>>} \cup (Phys \X Nat)
FrontendValues == {<<>>, <<"default">>} \cup (Bands \X Phys \X Nat)

Bits(top) == {x \in Int : 0 <= x /\ x <= top}
U8 == Bits(255)
U16 == Bits(65535)

RegisterHolds(r) ==
  IF r = "state" THEN {"TrxOff", "TrxPrep", "Rx"}
  ELSE IF r = "bben" THEN {"on", "off"}
  ELSE IF r = "phy" THEN Phys
  ELSE IF r = "mod" THEN OptionValues
  ELSE IF r \in {"tx", "rx"} THEN FrontendValues
  ELSE IF r = "pac" THEN 0..31
  ELSE IF r = "ccf0" THEN U16
  ELSE U8

ValuesOf(p) ==
  IF p = Mode THEN {"BasebandRadio", "Radio"}
  ELSE IF p = Nowhere THEN {""}
  ELSE IF p[1] = "pin" THEN {"high", "low"}
  ELSE RegisterHolds(p[2])

Writes == UNION {{p} \X ValuesOf(p) : p \in Places \cup {Nowhere}}

TypedHw(h) == DOMAIN h = Places /\ \A p \in Places : h[p] \in ValuesOf(p)

(* Where an operation writes, and the value it leaves at a place.           *)
Place(w) == w[1]
Value(w) == w[2]

PlacesIn(ops) == {Place(ops[k]) : k \in 1..Len(ops)}

LastAt(ops, k, p) == Place(ops[k]) = p /\ \A j \in 1..Len(ops) : j > k => Place(ops[j]) # p
Leaves(ops, p, v) == \E k \in 1..Len(ops) : LastAt(ops, k, p) /\ Value(ops[k]) = v

--------------------------------------------------------------------------------
(* FiniteSetsExt's Max is the greatest element.                             *)
LEMMA MaxIsGreatest ==
  ASSUME NEW n \in Nat, NEW S \in SUBSET (1..n), S # {}
  PROVE  Max(S) \in S /\ \A y \in S : Max(S) >= y
<1> DEFINE T == {n - x : x \in S}
<1>1. PICK s \in S : TRUE  OBVIOUS
<1>2. T \subseteq Nat /\ n - s \in T  OBVIOUS
<1>3. PICK m \in T : \A y \in T : <<y, m>> \notin OpToRel(<, Nat)
  BY <1>2, WFMin, NatLessThanWellFounded
<1>4. \A y \in T : y >= m
  <2> SUFFICES ASSUME NEW y \in T, y < m PROVE FALSE  BY <1>2
  <2>1. y \in Nat /\ m \in Nat  BY <1>2
  <2>2. <<y, m>> \in OpToRel(<, Nat)  BY <2>1, Zenon DEF OpToRel
  <2> QED BY <1>3, <2>2
<1>5. PICK x \in S : m = n - x  OBVIOUS
<1>6. \A y \in S : x >= y
  <2> SUFFICES ASSUME NEW y \in S PROVE x >= y  OBVIOUS
  <2>1. n - y \in T  OBVIOUS
  <2>2. n - y >= m  BY <1>4, <2>1
  <2> QED BY <1>5, <2>2
<1>7. \E z \in S : \A y \in S : z >= y  BY <1>6
<1> QED BY <1>7 DEF Max

(* At a place that the first n writes do not concern, the value stays; at   *)
(* another, it is that of the last of them there.                           *)
LEMMA AppliedAway ==
  ASSUME NEW h, NEW ops, NEW n \in Nat, NEW p \in DOMAIN h,
         \A i \in 1..n : Place(ops[i]) # p
  PROVE  Applied(h, ops, n)[p] = h[p]
  BY DEF Applied, Place, Value

LEMMA AppliedLast ==
  ASSUME NEW h, NEW ops, NEW n \in Nat, NEW p \in DOMAIN h,
         NEW k \in 1..n, Place(ops[k]) = p, \A j \in 1..n : j > k => Place(ops[j]) # p
  PROVE  Applied(h, ops, n)[p] = Value(ops[k])
<1> DEFINE at == {i \in 1..n : Place(ops[i]) = p}
<1>1. k \in at /\ at \in SUBSET (1..n)  OBVIOUS
<1>2. Max(at) \in at /\ \A y \in at : Max(at) >= y  BY <1>1, MaxIsGreatest
<1>3. Max(at) = k
  <2>1. Max(at) \in 1..n /\ Max(at) >= k /\ Place(ops[Max(at)]) = p  BY <1>1, <1>2
  <2> QED BY <2>1
<1> QED BY <1>1, <1>3 DEF Applied, Place, Value

LEMMA AppliedSome ==
  ASSUME NEW h, NEW ops, NEW n \in Nat, NEW p \in DOMAIN h, NEW i \in 1..n, Place(ops[i]) = p
  PROVE  \E k \in 1..n : Place(ops[k]) = p /\ Applied(h, ops, n)[p] = Value(ops[k])
<1> DEFINE at == {j \in 1..n : Place(ops[j]) = p}
<1>1. i \in at /\ at \in SUBSET (1..n)  OBVIOUS
<1>2. Max(at) \in at  BY <1>1, MaxIsGreatest
<1> QED BY <1>1, <1>2 DEF Applied, Place, Value

LEMMA AppliedDomain ==
  ASSUME NEW h, NEW ops, NEW n
  PROVE  DOMAIN Applied(h, ops, n) = DOMAIN h
  BY DEF Applied, Place, Value

LEMMA AWrite ==
  ASSUME NEW p \in Places \cup {Nowhere}, NEW v \in ValuesOf(p)
  PROVE  <<p, v>> \in Writes /\ Place(<<p, v>>) = p /\ Value(<<p, v>>) = v
<1>1. <<p, v>> \in {p} \X ValuesOf(p)  OBVIOUS
<1> QED BY <1>1 DEF Writes, Place, Value

LEMMA WritesAre ==
  ASSUME NEW w \in Writes
  PROVE  Place(w) \in Places \cup {Nowhere} /\ Value(w) \in ValuesOf(Place(w))
  BY DEF Writes, Place, Value

(* However much of an operation is done, every place holds a value it can.  *)
LEMMA AppliedTyped ==
  ASSUME NEW h, TypedHw(h), NEW ops \in Seq(Writes), NEW n \in 0..Len(ops)
  PROVE  TypedHw(Applied(h, ops, n))
<1> SUFFICES ASSUME NEW p \in Places PROVE Applied(h, ops, n)[p] \in ValuesOf(p)
  BY AppliedDomain DEF TypedHw
<1>1. n \in Nat /\ p \in DOMAIN h /\ h[p] \in ValuesOf(p) /\ \A i \in 1..n : ops[i] \in Writes
  BY DEF TypedHw
<1>2. CASE \A i \in 1..n : Place(ops[i]) # p
  BY <1>1, <1>2, AppliedAway
<1>3. CASE ~ \A i \in 1..n : Place(ops[i]) # p
  <2>1. PICK i \in 1..n : Place(ops[i]) = p  BY <1>3
  <2>2. PICK k \in 1..n : Place(ops[k]) = p /\ Applied(h, ops, n)[p] = Value(ops[k])
    BY <1>1, <2>1, AppliedSome
  <2> QED BY <1>1, <2>2, WritesAre
<1> QED BY <1>2, <1>3

(* Cut short or not, an operation keeps what it does not write; done, it    *)
(* leaves what it writes last.                                              *)
LEMMA Kept ==
  ASSUME NEW h, NEW ops \in Seq(Writes), NEW n \in 0..Len(ops), NEW p \in DOMAIN h,
         p \notin PlacesIn(ops)
  PROVE  Applied(h, ops, n)[p] = h[p]
<1>1. \A i \in 1..n : Place(ops[i]) # p  BY DEF PlacesIn
<1> QED BY <1>1, AppliedAway

LEMMA Left ==
  ASSUME NEW h, NEW ops \in Seq(Writes), NEW p \in DOMAIN h, NEW v, Leaves(ops, p, v)
  PROVE  Applied(h, ops, Len(ops))[p] = v
<1>1. PICK k \in 1..Len(ops) : LastAt(ops, k, p) /\ Value(ops[k]) = v  BY DEF Leaves
<1>2. Place(ops[k]) = p /\ \A j \in 1..Len(ops) : j > k => Place(ops[j]) # p  BY <1>1 DEF LastAt
<1>3. Len(ops) \in Nat  OBVIOUS
<1> QED BY <1>1, <1>2, <1>3, AppliedLast

LEMMA PlacesOfConcat ==
  ASSUME NEW s \in Seq(Writes), NEW t \in Seq(Writes)
  PROVE  s \o t \in Seq(Writes) /\ PlacesIn(s \o t) = PlacesIn(s) \cup PlacesIn(t)
<1> DEFINE r == s \o t
<1>1. r \in Seq(Writes) /\ Len(r) = Len(s) + Len(t)  OBVIOUS
<1>2. \A k \in 1..Len(s) : r[k] = s[k] /\ k \in 1..Len(r)  OBVIOUS
<1>3. \A k \in 1..Len(t) : r[Len(s) + k] = t[k] /\ Len(s) + k \in 1..Len(r)  OBVIOUS
<1>4. \A k \in 1..Len(r) : k \notin 1..Len(s) => k - Len(s) \in 1..Len(t) /\ r[k] = t[k - Len(s)]
  OBVIOUS
<1> HIDE DEF r
<1>5. PlacesIn(r) \subseteq PlacesIn(s) \cup PlacesIn(t)
  <2> SUFFICES ASSUME NEW k \in 1..Len(r) PROVE Place(r[k]) \in PlacesIn(s) \cup PlacesIn(t)
    BY DEF PlacesIn
  <2> QED BY <1>2, <1>4 DEF PlacesIn
<1>6. PlacesIn(s) \subseteq PlacesIn(r)  BY <1>2 DEF PlacesIn
<1>7. PlacesIn(t) \subseteq PlacesIn(r)  BY <1>3 DEF PlacesIn
<1> QED BY <1>1, <1>5, <1>6, <1>7 DEF r

LEMMA LeavesFirst ==
  ASSUME NEW s \in Seq(Writes), NEW t \in Seq(Writes), NEW p, NEW v,
         Leaves(s, p, v), p \notin PlacesIn(t)
  PROVE  Leaves(s \o t, p, v)
<1> DEFINE r == s \o t
<1>1. PICK k \in 1..Len(s) : LastAt(s, k, p) /\ Value(s[k]) = v  BY DEF Leaves
<1>2. r \in Seq(Writes) /\ k \in 1..Len(r) /\ r[k] = s[k]  OBVIOUS
<1>3. \A j \in 1..Len(r) : j > k => Place(r[j]) # p
  <2> SUFFICES ASSUME NEW j \in 1..Len(r), j > k PROVE Place(r[j]) # p  OBVIOUS
  <2>1. CASE j \in 1..Len(s)
    <3>1. r[j] = s[j]  BY <2>1
    <3> QED BY <1>1, <2>1, <3>1 DEF LastAt
  <2>2. CASE j \notin 1..Len(s)
    <3>1. j - Len(s) \in 1..Len(t) /\ r[j] = t[j - Len(s)]  BY <2>2
    <3> QED BY <3>1 DEF PlacesIn
  <2> QED BY <2>1, <2>2
<1> QED BY <1>1, <1>2, <1>3 DEF Leaves, LastAt

LEMMA LeavesLater ==
  ASSUME NEW s \in Seq(Writes), NEW t \in Seq(Writes), NEW p, NEW v, Leaves(t, p, v)
  PROVE  Leaves(s \o t, p, v)
<1> DEFINE r == s \o t
<1>1. PICK k \in 1..Len(t) : LastAt(t, k, p) /\ Value(t[k]) = v  BY DEF Leaves
<1> DEFINE m == Len(s) + k
<1>2. r \in Seq(Writes) /\ m \in 1..Len(r) /\ r[m] = t[k]  OBVIOUS
<1>3. \A j \in 1..Len(r) : j > m => Place(r[j]) # p
  <2> SUFFICES ASSUME NEW j \in 1..Len(r), j > m PROVE Place(r[j]) # p  OBVIOUS
  <2>1. j - Len(s) \in 1..Len(t) /\ r[j] = t[j - Len(s)] /\ j - Len(s) > k  OBVIOUS
  <2> QED BY <1>1, <2>1 DEF LastAt
<1> HIDE DEF r, m
<1>4. Leaves(r, p, v)
  BY <1>1, <1>2, <1>3 DEF Leaves, LastAt
<1> QED BY <1>4 DEF r
LEMMA Concat ==
  ASSUME NEW s \in Seq(Writes), NEW t \in Seq(Writes)
  PROVE  /\ s \o t \in Seq(Writes) /\ PlacesIn(s \o t) = PlacesIn(s) \cup PlacesIn(t)
         /\ \A p, v : Leaves(t, p, v) => Leaves(s \o t, p, v)
         /\ \A p, v : p \notin PlacesIn(t) /\ Leaves(s, p, v) => Leaves(s \o t, p, v)
<1>1. \A p, v : Leaves(t, p, v) => Leaves(s \o t, p, v)  BY LeavesLater
<1>2. \A p, v : p \notin PlacesIn(t) /\ Leaves(s, p, v) => Leaves(s \o t, p, v)
  BY LeavesFirst
<1> QED BY <1>1, <1>2, PlacesOfConcat

--------------------------------------------------------------------------------
(* The operations.  First the places and what each can hold.                *)
RegisterNames == {"state", "bben", "phy", "mod", "tx", "rx", "pac", "cs", "ccf0", "cnl", "cnm"}

LEMMA PlacesAre ==
  /\ \A b \in Bands, r \in RegisterNames : At(b, r) \in Places
  /\ \A q \in {"v1", "v2", "ant_24"} : Pin(q) \in Places
  /\ Mode \in Places
  BY DEF Places, RegisterNames

LEMMA PlacesDiffer ==
  /\ \A b \in Bands, r \in RegisterNames :
       /\ \A c \in Bands, q \in RegisterNames : At(b, r) = At(c, q) <=> b = c /\ r = q
       /\ \A q \in {"v1", "v2", "ant_24"} : At(b, r) # Pin(q)
       /\ At(b, r) # Mode /\ At(b, r) # Nowhere
  /\ \A q \in {"v1", "v2", "ant_24"} : /\ Pin(q) # Mode /\ Pin(q) # Nowhere
                                       /\ \A o \in {"v1", "v2", "ant_24"} : Pin(q) = Pin(o) <=> q = o
  /\ Mode # Nowhere
  BY DEF At, Pin, Mode, Nowhere, Bands, RegisterNames

LEMMA RegisterValues ==
  ASSUME NEW b \in Bands, NEW r
  PROVE  ValuesOf(At(b, r)) = RegisterHolds(r)
<1>1. /\ At(b, r) # Mode /\ At(b, r) # Nowhere
      /\ At(b, r)[1] # "pin" /\ At(b, r)[2] = r
  BY DEF At, Mode, Nowhere, Bands
<1> QED BY <1>1 DEF ValuesOf

LEMMA OtherValues ==
  /\ ValuesOf(Mode) = {"BasebandRadio", "Radio"}
  /\ ValuesOf(Nowhere) = {""}
  /\ \A q \in {"v1", "v2", "ant_24"} : ValuesOf(Pin(q)) = {"high", "low"}
<1>1. \A q \in {"v1", "v2", "ant_24"} : Pin(q) # Mode /\ Pin(q) # Nowhere /\ Pin(q)[1] = "pin"
  BY DEF Pin, Mode, Nowhere
<1>2. Mode # Nowhere  BY PlacesDiffer
<1> QED BY <1>1, <1>2 DEF ValuesOf

LEMMA WaitWrite == Wait \in Writes /\ Place(Wait) = Nowhere
<1>1. Wait = <<Nowhere, "">>  BY DEF Wait, Nowhere
<1>2. "" \in ValuesOf(Nowhere)  BY OtherValues
<1> QED BY <1>1, <1>2, AWrite

LEMMA RegisterWrite ==
  ASSUME NEW b \in Bands, NEW r \in RegisterNames, NEW v \in RegisterHolds(r)
  PROVE  /\ <<At(b, r), v>> \in Writes
         /\ Place(<<At(b, r), v>>) = At(b, r) /\ Value(<<At(b, r), v>>) = v
<1>1. At(b, r) \in Places \cup {Nowhere}  BY PlacesAre
<1>2. v \in ValuesOf(At(b, r))  BY RegisterValues
<1> QED BY <1>1, <1>2, AWrite

LEMMA PinWrite ==
  ASSUME NEW q \in {"v1", "v2", "ant_24"}, NEW v \in {"high", "low"}
  PROVE  /\ <<Pin(q), v>> \in Writes
         /\ Place(<<Pin(q), v>>) = Pin(q) /\ Value(<<Pin(q), v>>) = v
<1>1. Pin(q) \in Places \cup {Nowhere}  BY PlacesAre
<1>2. v \in ValuesOf(Pin(q))  BY OtherValues
<1> QED BY <1>1, <1>2, AWrite

(* Operations of a few writes.                                              *)
LEMMA NoWrites == <<>> \in Seq(Writes) /\ PlacesIn(<<>>) = {}
<1>1. <<>> \in Seq(Writes) /\ Len(<<>>) = 0 /\ 1..0 = {}  OBVIOUS
<1> QED BY <1>1 DEF PlacesIn

LEMMA SeqLiterals ==
  ASSUME NEW u, NEW v, NEW w, NEW x
  PROVE  /\ <<v, w>> = <<v>> \o <<w>>
         /\ <<u, v, w>> = <<u>> \o <<v, w>>
         /\ <<x, u, v, w>> = <<x>> \o <<u, v, w>>
<1>1. <<v, w>> = <<v>> \o <<w>>
  <2>1. <<v>> \in Seq({v, w}) /\ <<v, w>> = Append(<<v>>, w)  OBVIOUS
  <2> QED BY <2>1, AppendIsConcat
<1>2. <<u, v, w>> = <<u>> \o <<v, w>>  OBVIOUS
<1>3. <<x, u, v, w>> = <<x>> \o <<u, v, w>>  OBVIOUS
<1> QED BY <1>1, <1>2, <1>3

LEMMA OneWrite ==
  ASSUME NEW w \in Writes
  PROVE  /\ <<w>> \in Seq(Writes) /\ PlacesIn(<<w>>) = {Place(w)}
         /\ Leaves(<<w>>, Place(w), Value(w))
<1> DEFINE ops == <<w>>
<1>1. ops \in Seq(Writes) /\ Len(ops) = 1 /\ ops[1] = w  OBVIOUS
<1>2. 1..1 = {1}  OBVIOUS
<1> HIDE DEF ops
<1>3. PlacesIn(ops) = {Place(w)}  BY <1>1, <1>2 DEF PlacesIn
<1>4. Leaves(ops, Place(w), Value(w))  BY <1>1, <1>2 DEF Leaves, LastAt
<1> QED BY <1>1, <1>3, <1>4 DEF ops

(* One write before an operation.                                           *)
LEMMA WriteFirst ==
  ASSUME NEW w \in Writes, NEW t \in Seq(Writes)
  PROVE  /\ <<w>> \o t \in Seq(Writes) /\ PlacesIn(<<w>> \o t) = {Place(w)} \cup PlacesIn(t)
         /\ Place(w) \notin PlacesIn(t) => Leaves(<<w>> \o t, Place(w), Value(w))
         /\ \A p, v : Leaves(t, p, v) => Leaves(<<w>> \o t, p, v)
<1> DEFINE s == <<w>>
<1>1. s \in Seq(Writes) /\ PlacesIn(s) = {Place(w)} /\ Leaves(s, Place(w), Value(w))
  BY OneWrite
<1> HIDE DEF s
<1>2. s \o t \in Seq(Writes) /\ PlacesIn(s \o t) = {Place(w)} \cup PlacesIn(t)
  BY <1>1, PlacesOfConcat
<1>3. Place(w) \notin PlacesIn(t) => Leaves(s \o t, Place(w), Value(w))
  BY <1>1, LeavesFirst
<1>4. \A p, v : Leaves(t, p, v) => Leaves(s \o t, p, v)
  BY <1>1, LeavesLater
<1> QED BY <1>2, <1>3, <1>4 DEF s

LEMMA TwoWrites ==
  ASSUME NEW v \in Writes, NEW w \in Writes
  PROVE  /\ <<v, w>> \in Seq(Writes) /\ PlacesIn(<<v, w>>) = {Place(v), Place(w)}
         /\ Leaves(<<v, w>>, Place(w), Value(w))
         /\ Place(v) # Place(w) => Leaves(<<v, w>>, Place(v), Value(v))
<1> DEFINE t == <<w>>
<1>1. <<v, w>> = <<v>> \o t  BY SeqLiterals
<1>2. t \in Seq(Writes) /\ PlacesIn(t) = {Place(w)} /\ Leaves(t, Place(w), Value(w))
  BY OneWrite
<1> HIDE DEF t
<1>3. /\ <<v>> \o t \in Seq(Writes) /\ PlacesIn(<<v>> \o t) = {Place(v)} \cup PlacesIn(t)
      /\ Place(v) \notin PlacesIn(t) => Leaves(<<v>> \o t, Place(v), Value(v))
      /\ \A p, x : Leaves(t, p, x) => Leaves(<<v>> \o t, p, x)
  BY <1>2, WriteFirst
<1> QED BY <1>1, <1>2, <1>3

LEMMA ThreeWrites ==
  ASSUME NEW u \in Writes, NEW v \in Writes, NEW w \in Writes
  PROVE  /\ <<u, v, w>> \in Seq(Writes) /\ PlacesIn(<<u, v, w>>) = {Place(u), Place(v), Place(w)}
         /\ Leaves(<<u, v, w>>, Place(w), Value(w))
         /\ Place(v) # Place(w) => Leaves(<<u, v, w>>, Place(v), Value(v))
         /\ Place(u) \notin {Place(v), Place(w)} => Leaves(<<u, v, w>>, Place(u), Value(u))
<1> DEFINE t == <<v, w>>
<1>1. <<u, v, w>> = <<u>> \o t  BY SeqLiterals
<1>2. /\ t \in Seq(Writes) /\ PlacesIn(t) = {Place(v), Place(w)} /\ Leaves(t, Place(w), Value(w))
      /\ Place(v) # Place(w) => Leaves(t, Place(v), Value(v))
  BY TwoWrites
<1> HIDE DEF t
<1> QED BY <1>1, <1>2, WriteFirst

LEMMA SwitchOffWrites ==
  ASSUME NEW b \in Bands
  PROVE  SwitchOff(b) \in Seq(Writes) /\ PlacesIn(SwitchOff(b)) = {At(b, "state"), Nowhere}
<1> DEFINE v == <<At(b, "state"), "TrxOff">>
<1>1. "TrxOff" \in RegisterHolds("state") /\ "state" \in RegisterNames
  BY DEF RegisterNames, RegisterHolds
<1>2. v \in Writes /\ Place(v) = At(b, "state")  BY <1>1, RegisterWrite
<1>3. SwitchOff(b) = <<v, Wait>>  BY DEF SwitchOff
<1> HIDE DEF v
<1> QED BY <1>2, <1>3, WaitWrite, TwoWrites

LEMMA ReceiveWrites ==
  ASSUME NEW b \in Bands
  PROVE  /\ Receive(b) \in Seq(Writes) /\ PlacesIn(Receive(b)) = {At(b, "state"), Nowhere}
         /\ Leaves(Receive(b), At(b, "state"), "Rx")
<1> DEFINE u == <<At(b, "state"), "TrxPrep">>
           v == <<At(b, "state"), "Rx">>
<1>1. /\ {"TrxPrep", "Rx"} \subseteq RegisterHolds("state") /\ "state" \in RegisterNames
  BY DEF RegisterNames, RegisterHolds
<1>2. u \in Writes /\ Place(u) = At(b, "state")  BY <1>1, RegisterWrite
<1>3. v \in Writes /\ Place(v) = At(b, "state") /\ Value(v) = "Rx"  BY <1>1, RegisterWrite
<1>4. Wait \in Writes /\ Place(Wait) = Nowhere  BY WaitWrite
<1>5. Receive(b) = <<u, v, Wait>>  BY DEF Receive
<1>6. At(b, "state") # Nowhere  BY <1>1, PlacesDiffer
<1> HIDE DEF u, v
<1>7. /\ <<u, v, Wait>> \in Seq(Writes)
      /\ PlacesIn(<<u, v, Wait>>) = {Place(u), Place(v), Place(Wait)}
      /\ Place(v) # Place(Wait) => Leaves(<<u, v, Wait>>, Place(v), Value(v))
  BY <1>2, <1>3, <1>4, ThreeWrites
<1> QED BY <1>2, <1>3, <1>4, <1>5, <1>6, <1>7
--------------------------------------------------------------------------------
(* set_frequency. *)
ConfigType == [freq : 1..MaxFreq, spacing : 1..MaxSpacing, channel : Nat, filter : 0..2]

LEMMA FourWrites ==
  ASSUME NEW x \in Writes, NEW u \in Writes, NEW v \in Writes, NEW w \in Writes,
         Place(x) \notin {Place(u), Place(v), Place(w)}, Place(u) \notin {Place(v), Place(w)},
         Place(v) # Place(w)
  PROVE  /\ <<x, u, v, w>> \in Seq(Writes)
         /\ PlacesIn(<<x, u, v, w>>) = {Place(x), Place(u), Place(v), Place(w)}
         /\ Leaves(<<x, u, v, w>>, Place(x), Value(x))
         /\ Leaves(<<x, u, v, w>>, Place(u), Value(u))
         /\ Leaves(<<x, u, v, w>>, Place(v), Value(v))
         /\ Leaves(<<x, u, v, w>>, Place(w), Value(w))
<1> DEFINE t == <<u, v, w>>
<1>1. <<x, u, v, w>> = <<x>> \o t  BY SeqLiterals
<1>2. /\ t \in Seq(Writes) /\ PlacesIn(t) = {Place(u), Place(v), Place(w)}
      /\ Leaves(t, Place(u), Value(u)) /\ Leaves(t, Place(v), Value(v))
      /\ Leaves(t, Place(w), Value(w))
  BY ThreeWrites
<1> HIDE DEF t
<1>3. /\ <<x>> \o t \in Seq(Writes) /\ PlacesIn(<<x>> \o t) = {Place(x)} \cup PlacesIn(t)
      /\ Place(x) \notin PlacesIn(t) => Leaves(<<x>> \o t, Place(x), Value(x))
      /\ \A p, y : Leaves(t, p, y) => Leaves(<<x>> \o t, p, y)
  BY <1>2, WriteFirst
<1> QED BY <1>1, <1>2, <1>3

(* The four values of a channel that is accepted fit their registers.       *)
LEMMA ChannelFits ==
  ASSUME NEW b \in Bands, NEW c \in ConfigType, Accepted(b, c)
  PROVE  /\ c.spacing \div 25 \in U8 /\ (c.freq - Offset(b)) * 40 \in U16
         /\ c.channel % 256 \in U8 /\ c.channel \div 256 \in U8
<1>1. c.freq \in Nat /\ c.spacing \in Nat /\ c.channel \in Nat
  <2>1. c.freq \in 1..MaxFreq /\ c.spacing \in 1..MaxSpacing /\ c.channel \in Nat
    BY DEF ConfigType
  <2>2. \A x, n : x \in 1..n => x \in Nat  OBVIOUS
  <2> QED BY <2>1, <2>2
<1>2. c.channel <= 511 /\ c.spacing \div 25 <= 255
  BY <1>1 DEF Accepted, MaxChannel, Bands
<1>3. (c.freq - Offset(b)) * 40 \in U16
  BY <1>1 DEF Accepted, InBand, Offset, Bands, U16, Bits
<1>4. c.spacing \div 25 \in U8  BY <1>1, <1>2 DEF U8, Bits
<1>5. c.channel % 256 \in U8 /\ c.channel \div 256 \in U8  BY <1>1, <1>2 DEF U8, Bits
<1> QED BY <1>3, <1>4, <1>5

ChannelPlaces(b) == {At(b, "cs"), At(b, "ccf0"), At(b, "cnl"), At(b, "cnm")}

LeavesChannel(ops, b, c) ==
  /\ Leaves(ops, At(b, "cs"), c.spacing \div 25)
  /\ Leaves(ops, At(b, "ccf0"), (c.freq - Offset(b)) * 40)
  /\ Leaves(ops, At(b, "cnl"), c.channel % 256)
  /\ Leaves(ops, At(b, "cnm"), c.channel \div 256)

LEMMA ChannelWritesLeave ==
  ASSUME NEW b \in Bands, NEW c \in ConfigType, Accepted(b, c)
  PROVE  /\ ChannelWrites(b, c) \in Seq(Writes) /\ PlacesIn(ChannelWrites(b, c)) = ChannelPlaces(b)
         /\ LeavesChannel(ChannelWrites(b, c), b, c)
<1> DEFINE x == <<At(b, "cs"), c.spacing \div 25>>
           u == <<At(b, "ccf0"), (c.freq - Offset(b)) * 40>>
           v == <<At(b, "cnl"), c.channel % 256>>
           w == <<At(b, "cnm"), c.channel \div 256>>
<1>1. /\ RegisterHolds("cs") = U8 /\ RegisterHolds("ccf0") = U16
      /\ RegisterHolds("cnl") = U8 /\ RegisterHolds("cnm") = U8
      /\ {"cs", "ccf0", "cnl", "cnm"} \subseteq RegisterNames
  BY DEF RegisterHolds, RegisterNames
<1>2. x \in Writes /\ Place(x) = At(b, "cs") /\ Value(x) = c.spacing \div 25
  BY <1>1, ChannelFits, RegisterWrite
<1>3. u \in Writes /\ Place(u) = At(b, "ccf0") /\ Value(u) = (c.freq - Offset(b)) * 40
  BY <1>1, ChannelFits, RegisterWrite
<1>4. v \in Writes /\ Place(v) = At(b, "cnl") /\ Value(v) = c.channel % 256
  BY <1>1, ChannelFits, RegisterWrite
<1>5. w \in Writes /\ Place(w) = At(b, "cnm") /\ Value(w) = c.channel \div 256
  BY <1>1, ChannelFits, RegisterWrite
<1>6. ChannelWrites(b, c) = <<x, u, v, w>>  BY DEF ChannelWrites
<1> HIDE DEF x, u, v, w
<1>7. /\ Place(x) \notin {Place(u), Place(v), Place(w)} /\ Place(u) \notin {Place(v), Place(w)}
      /\ Place(v) # Place(w)
  BY <1>1, <1>2, <1>3, <1>4, <1>5, PlacesDiffer
<1>8. /\ <<x, u, v, w>> \in Seq(Writes)
      /\ PlacesIn(<<x, u, v, w>>) = {Place(x), Place(u), Place(v), Place(w)}
      /\ Leaves(<<x, u, v, w>>, Place(x), Value(x)) /\ Leaves(<<x, u, v, w>>, Place(u), Value(u))
      /\ Leaves(<<x, u, v, w>>, Place(v), Value(v)) /\ Leaves(<<x, u, v, w>>, Place(w), Value(w))
  BY <1>2, <1>3, <1>4, <1>5, <1>7, FourWrites
<1> QED BY <1>2, <1>3, <1>4, <1>5, <1>6, <1>8 DEF ChannelPlaces, LeavesChannel

LEMMA SetFrequencyWrites ==
  ASSUME NEW b \in Bands, NEW c \in ConfigType
  PROVE  /\ SetFrequency(b, c) \in Seq(Writes)
         /\ PlacesIn(SetFrequency(b, c)) \subseteq ChannelPlaces(b) \cup {At(b, "state"), Nowhere}
         /\ Accepted(b, c) => /\ LeavesChannel(SetFrequency(b, c), b, c)
                              /\ Leaves(SetFrequency(b, c), At(b, "state"), "Rx")
<1>1. SwitchOff(b) \in Seq(Writes) /\ PlacesIn(SwitchOff(b)) = {At(b, "state"), Nowhere}
  BY SwitchOffWrites
<1>2. CASE ~Accepted(b, c)
  <2>1. SetFrequency(b, c) = SwitchOff(b) \o <<>>  BY <1>2 DEF SetFrequency
  <2>2. /\ SwitchOff(b) \o <<>> \in Seq(Writes)
        /\ PlacesIn(SwitchOff(b) \o <<>>) = PlacesIn(SwitchOff(b)) \cup {}
    BY <1>1, NoWrites, PlacesOfConcat
  <2> QED BY <1>1, <1>2, <2>1, <2>2
<1>3. CASE Accepted(b, c)
  <2> DEFINE s == ChannelWrites(b, c)
             t == Receive(b)
             r == s \o t
  <2>1. s \in Seq(Writes) /\ PlacesIn(s) = ChannelPlaces(b) /\ LeavesChannel(s, b, c)
    BY <1>3, ChannelWritesLeave
  <2>2. /\ t \in Seq(Writes) /\ PlacesIn(t) = {At(b, "state"), Nowhere}
        /\ Leaves(t, At(b, "state"), "Rx")
    BY ReceiveWrites
  <2>3. SetFrequency(b, c) = SwitchOff(b) \o r  BY <1>3 DEF SetFrequency
  <2>4. \A p \in ChannelPlaces(b) : p \notin {At(b, "state"), Nowhere}
    BY PlacesDiffer DEF ChannelPlaces, RegisterNames
  <2> HIDE DEF s, t
  <2>5. r \in Seq(Writes) /\ PlacesIn(r) = ChannelPlaces(b) \cup {At(b, "state"), Nowhere}
    BY <2>1, <2>2, PlacesOfConcat
  <2>6. \A p \in ChannelPlaces(b) : \A v : Leaves(s, p, v) => Leaves(r, p, v)
    BY <2>1, <2>2, <2>4, LeavesFirst
  <2>7. Leaves(r, At(b, "state"), "Rx")  BY <2>1, <2>2, LeavesLater
  <2> HIDE DEF r
  <2> DEFINE o == SwitchOff(b) \o r
  <2>8. o \in Seq(Writes) /\ PlacesIn(o) = ChannelPlaces(b) \cup {At(b, "state"), Nowhere}
    BY <1>1, <2>5, PlacesOfConcat
  <2>9. \A p, v : Leaves(r, p, v) => Leaves(o, p, v)  BY <1>1, <2>5, LeavesLater
  <2> HIDE DEF o
  <2>10. LeavesChannel(o, b, c)
    <3>1. \A p \in ChannelPlaces(b) : \A v : Leaves(s, p, v) => Leaves(o, p, v)  BY <2>6, <2>9
    <3>2. ChannelPlaces(b) = {At(b, "cs"), At(b, "ccf0"), At(b, "cnl"), At(b, "cnm")}
      BY DEF ChannelPlaces
    <3> QED BY <2>1, <3>1, <3>2 DEF LeavesChannel
  <2>11. Leaves(o, At(b, "state"), "Rx")  BY <2>7, <2>9
  <2> QED BY <2>3, <2>8, <2>10, <2>11 DEF o
<1> QED BY <1>2, <1>3
--------------------------------------------------------------------------------
(* Configure. *)
ModulationType == [phy : Phys, opt : Nat, power : Nat]

LEMMA FrontendFits ==
  ASSUME NEW b \in Bands, NEW m \in ModulationType
  PROVE  Frontend(b, m) \in FrontendValues
<1>1. m.phy \in Phys /\ m.opt \in Nat  BY DEF ModulationType
<1>2. <<b, m.phy, m.opt>> \in Bands \X Phys \X Nat  BY <1>1
<1>3. Frontend(b, m) \in {<<b, m.phy, m.opt>>, <<"default">>}
  BY DEF Frontend, Frontend09, Frontend24, Bands
<1> QED BY <1>2, <1>3 DEF FrontendValues

LEMMA PowerFits ==
  ASSUME NEW m \in ModulationType
  PROVE  Power(m) \in 0..31
<1>1. m.power \in Nat  BY DEF ModulationType
<1>2. Min({31, m.power}) \in 0..31
  <2> DEFINE S == {31, m.power}
  <2>1. \E x \in S : \A y \in S : x <= y  BY <1>1
  <2>2. Min(S) \in S /\ \A y \in S : Min(S) <= y  BY <2>1 DEF Min
  <2> QED BY <1>1, <2>2
<1> QED BY <1>2 DEF Power

LeavesFrontend(ops, b, m) ==
  /\ Leaves(ops, At(b, "tx"), Frontend(b, m)) /\ Leaves(ops, At(b, "pac"), Power(m))
  /\ Leaves(ops, At(b, "rx"), Frontend(b, m))

LEMMA FrontendWritesLeave ==
  ASSUME NEW b \in Bands, NEW m \in ModulationType
  PROVE  /\ FrontendWrites(b, m) \in Seq(Writes)
         /\ PlacesIn(FrontendWrites(b, m)) = {At(b, "tx"), At(b, "pac"), At(b, "rx")}
         /\ LeavesFrontend(FrontendWrites(b, m), b, m)
<1> DEFINE u == <<At(b, "tx"), Frontend(b, m)>>
           v == <<At(b, "pac"), Power(m)>>
           w == <<At(b, "rx"), Frontend(b, m)>>
           ops == <<u, v, w>>
<1>1. RegisterHolds("tx") = FrontendValues /\ RegisterHolds("rx") = FrontendValues
  BY DEF RegisterHolds
<1>2. RegisterHolds("pac") = 0..31  BY DEF RegisterHolds
<1>3. {"tx", "pac", "rx"} \subseteq RegisterNames  BY DEF RegisterNames
<1>4. u \in Writes /\ Place(u) = At(b, "tx") /\ Value(u) = Frontend(b, m)
  BY <1>1, <1>3, FrontendFits, RegisterWrite
<1>5. v \in Writes /\ Place(v) = At(b, "pac") /\ Value(v) = Power(m)
  BY <1>2, <1>3, PowerFits, RegisterWrite
<1>6. w \in Writes /\ Place(w) = At(b, "rx") /\ Value(w) = Frontend(b, m)
  BY <1>1, <1>3, FrontendFits, RegisterWrite
<1>7. FrontendWrites(b, m) = ops  BY DEF FrontendWrites
<1> HIDE DEF u, v, w
<1>8. Place(v) # Place(w) /\ Place(u) \notin {Place(v), Place(w)}
  BY <1>3, <1>4, <1>5, <1>6, PlacesDiffer
<1>9. /\ ops \in Seq(Writes) /\ PlacesIn(ops) = {Place(u), Place(v), Place(w)}
      /\ Leaves(ops, Place(u), Value(u)) /\ Leaves(ops, Place(v), Value(v))
      /\ Leaves(ops, Place(w), Value(w))
  BY <1>4, <1>5, <1>6, <1>8, ThreeWrites
<1> HIDE DEF ops
<1> QED BY <1>4, <1>5, <1>6, <1>7, <1>9 DEF LeavesFrontend

LEMMA BasebandWritesLeave ==
  ASSUME NEW b \in Bands, NEW m \in ModulationType
  PROVE  /\ BasebandWrites(b, m) \in Seq(Writes)
         /\ PlacesIn(BasebandWrites(b, m)) \subseteq {At(b, "phy"), At(b, "mod")}
         /\ Leaves(BasebandWrites(b, m), At(b, "phy"), m.phy)
<1> DEFINE v == <<At(b, "phy"), m.phy>>
           w == <<At(b, "mod"), <<m.phy, m.opt>>>>
           s == <<v>>
           t == OptionWrites(b, m)
<1>1. m.phy \in Phys /\ m.opt \in Nat  BY DEF ModulationType
<1>2. /\ RegisterHolds("phy") = Phys /\ RegisterHolds("mod") = OptionValues
      /\ {"phy", "mod"} \subseteq RegisterNames
  BY DEF RegisterHolds, RegisterNames
<1>3. <<m.phy, m.opt>> \in OptionValues
  <2>1. <<m.phy, m.opt>> \in Phys \X Nat  BY <1>1
  <2> QED BY <2>1 DEF OptionValues
<1>4. v \in Writes /\ Place(v) = At(b, "phy") /\ Value(v) = m.phy
  BY <1>1, <1>2, RegisterWrite
<1>5. w \in Writes /\ Place(w) = At(b, "mod")  BY <1>2, <1>3, RegisterWrite
<1>6. t = <<>> \/ t = <<w>>  BY DEF OptionWrites
<1>7. BasebandWrites(b, m) = s \o t  BY DEF BasebandWrites
<1> HIDE DEF v, w, t
<1>8. s \in Seq(Writes) /\ PlacesIn(s) = {Place(v)} /\ Leaves(s, Place(v), Value(v))
  BY <1>4, OneWrite
<1>9. t \in Seq(Writes) /\ PlacesIn(t) \subseteq {At(b, "mod")}
  <2>1. <<w>> \in Seq(Writes) /\ PlacesIn(<<w>>) = {At(b, "mod")}  BY <1>5, OneWrite
  <2> QED BY <1>6, <2>1, NoWrites
<1>10. At(b, "phy") # At(b, "mod")  BY <1>2, PlacesDiffer
<1> HIDE DEF s
<1> QED BY <1>4, <1>7, <1>8, <1>9, <1>10, Concat

(* The end of Transreceiver::configure, and of a reception.                 *)
LeavesOn(ops, b) == Leaves(ops, At(b, "state"), "Rx") /\ Leaves(ops, At(b, "bben"), "on")

LEMMA SwitchWrites ==
  ASSUME NEW b \in Bands
  PROVE  /\ Enable(b) \in Seq(Writes) /\ PlacesIn(Enable(b)) = {At(b, "bben")}
         /\ Leaves(Enable(b), At(b, "bben"), "on")
         /\ Disable(b) \in Seq(Writes) /\ PlacesIn(Disable(b)) = {At(b, "bben")}
<1> DEFINE v == <<At(b, "bben"), "on">>
           w == <<At(b, "bben"), "off">>
<1>1. {"on", "off"} \subseteq RegisterHolds("bben") /\ "bben" \in RegisterNames
  BY DEF RegisterHolds, RegisterNames
<1>2. v \in Writes /\ Place(v) = At(b, "bben") /\ Value(v) = "on"  BY <1>1, RegisterWrite
<1>3. w \in Writes /\ Place(w) = At(b, "bben")  BY <1>1, RegisterWrite
<1>4. Enable(b) = <<v>> /\ Disable(b) = <<w>>  BY DEF Enable, Disable
<1> HIDE DEF v, w
<1> QED BY <1>2, <1>3, <1>4, OneWrite

LEMMA EnableReceive ==
  ASSUME NEW b \in Bands
  PROVE  /\ Enable(b) \o Receive(b) \in Seq(Writes)
         /\ PlacesIn(Enable(b) \o Receive(b)) = {At(b, "bben"), At(b, "state"), Nowhere}
         /\ LeavesOn(Enable(b) \o Receive(b), b)
<1> DEFINE s == Enable(b)
           t == Receive(b)
<1>1. /\ s \in Seq(Writes) /\ PlacesIn(s) = {At(b, "bben")} /\ Leaves(s, At(b, "bben"), "on")
  BY SwitchWrites
<1>2. /\ t \in Seq(Writes) /\ PlacesIn(t) = {At(b, "state"), Nowhere}
      /\ Leaves(t, At(b, "state"), "Rx")
  BY ReceiveWrites
<1>3. At(b, "bben") \notin {At(b, "state"), Nowhere}  BY PlacesDiffer DEF RegisterNames
<1> HIDE DEF s, t
<1>4. s \o t \in Seq(Writes) /\ PlacesIn(s \o t) = {At(b, "bben"), At(b, "state"), Nowhere}
  BY <1>1, <1>2, Concat
<1>5. Leaves(s \o t, At(b, "state"), "Rx") /\ Leaves(s \o t, At(b, "bben"), "on")
  BY <1>1, <1>2, <1>3, Concat
<1> QED BY <1>4, <1>5 DEF LeavesOn, s, t
BandPlaces(b) ==
  {At(b, "state"), At(b, "bben"), At(b, "tx"), At(b, "pac"), At(b, "rx"), At(b, "phy"), At(b, "mod"),
   Nowhere}

LeavesModulation(ops, b, m) == LeavesFrontend(ops, b, m) /\ Leaves(ops, At(b, "phy"), m.phy)

LEMMA ConfigureBandWrites ==
  ASSUME NEW b \in Bands, NEW m \in ModulationType
  PROVE  /\ ConfigureBand(b, m) \in Seq(Writes) /\ PlacesIn(ConfigureBand(b, m)) \subseteq BandPlaces(b)
         /\ m.phy # "fsk" => /\ LeavesModulation(ConfigureBand(b, m), b, m)
                             /\ LeavesOn(ConfigureBand(b, m), b)
<1> DEFINE end == IF m.phy = "fsk" THEN <<>> ELSE Enable(b) \o Receive(b)
           s1 == SwitchOff(b) \o Disable(b)
           s2 == s1 \o FrontendWrites(b, m)
           s3 == s2 \o BasebandWrites(b, m)
           s4 == s3 \o end
<1>1. s1 \in Seq(Writes) /\ PlacesIn(s1) = {At(b, "state"), At(b, "bben"), Nowhere}
  BY SwitchOffWrites, SwitchWrites, Concat
<1>2. /\ FrontendWrites(b, m) \in Seq(Writes)
      /\ PlacesIn(FrontendWrites(b, m)) = {At(b, "tx"), At(b, "pac"), At(b, "rx")}
      /\ LeavesFrontend(FrontendWrites(b, m), b, m)
  BY FrontendWritesLeave
<1>3. /\ BasebandWrites(b, m) \in Seq(Writes)
      /\ PlacesIn(BasebandWrites(b, m)) \subseteq {At(b, "phy"), At(b, "mod")}
      /\ Leaves(BasebandWrites(b, m), At(b, "phy"), m.phy)
  BY BasebandWritesLeave
<1>4. /\ end \in Seq(Writes) /\ PlacesIn(end) \subseteq {At(b, "bben"), At(b, "state"), Nowhere}
      /\ m.phy # "fsk" => LeavesOn(end, b)
  <2>1. CASE m.phy = "fsk"
    <3>1. end = <<>>  BY <2>1
    <3> HIDE DEF end
    <3> QED BY <2>1, <3>1, NoWrites
  <2>2. CASE m.phy # "fsk"
    <3>1. end = Enable(b) \o Receive(b)  BY <2>2
    <3> HIDE DEF end
    <3> QED BY <3>1, EnableReceive
  <2> QED BY <2>1, <2>2
<1>5. ConfigureBand(b, m) = s4  BY DEF ConfigureBand
<1> HIDE DEF end, s1
<1>6. /\ s2 \in Seq(Writes) /\ PlacesIn(s2) \subseteq BandPlaces(b)
      /\ \A p, v : Leaves(FrontendWrites(b, m), p, v) => Leaves(s2, p, v)
  BY <1>1, <1>2, Concat DEF BandPlaces
<1> HIDE DEF s2
<1>7. /\ s3 \in Seq(Writes) /\ PlacesIn(s3) \subseteq BandPlaces(b)
      /\ \A p, v : Leaves(BasebandWrites(b, m), p, v) => Leaves(s3, p, v)
      /\ \A p, v : p \notin {At(b, "phy"), At(b, "mod")} /\ Leaves(s2, p, v) => Leaves(s3, p, v)
  BY <1>3, <1>6, Concat DEF BandPlaces
<1> HIDE DEF s3
<1>8. /\ s4 \in Seq(Writes) /\ PlacesIn(s4) \subseteq BandPlaces(b)
      /\ \A p, v : Leaves(end, p, v) => Leaves(s4, p, v)
      /\ \A p, v : /\ p \notin {At(b, "bben"), At(b, "state"), Nowhere}
                   /\ Leaves(s3, p, v)
                   => Leaves(s4, p, v)
  BY <1>4, <1>7, Concat DEF BandPlaces
<1> HIDE DEF s4
<1>9. /\ {At(b, "tx"), At(b, "pac"), At(b, "rx")} \cap {At(b, "phy"), At(b, "mod")} = {}
      /\ {At(b, "tx"), At(b, "pac"), At(b, "rx"), At(b, "phy")}
           \cap {At(b, "bben"), At(b, "state"), Nowhere} = {}
  BY PlacesDiffer DEF RegisterNames
<1>10. LeavesFrontend(s4, b, m)
  <2>1. LeavesFrontend(s2, b, m)  BY <1>2, <1>6 DEF LeavesFrontend
  <2>2. LeavesFrontend(s3, b, m)  BY <2>1, <1>7, <1>9 DEF LeavesFrontend
  <2> QED BY <2>2, <1>8, <1>9 DEF LeavesFrontend
<1>11. Leaves(s4, At(b, "phy"), m.phy)  BY <1>3, <1>7, <1>8, <1>9
<1>12. m.phy # "fsk" => LeavesOn(s4, b)  BY <1>4, <1>8 DEF LeavesOn
<1> QED BY <1>5, <1>8, <1>10, <1>11, <1>12 DEF LeavesModulation

LEMMA ConfigureWrites ==
  ASSUME NEW m \in ModulationType
  PROVE  /\ Configure(m) \in Seq(Writes)
         /\ PlacesIn(Configure(m)) \subseteq BandPlaces("09") \cup BandPlaces("24")
         /\ m.phy # "fsk" => \A b \in Bands : /\ LeavesModulation(Configure(m), b, m)
                                              /\ LeavesOn(Configure(m), b)
<1> DEFINE s == ConfigureBand("09", m)
           t == ConfigureBand("24", m)
<1>1. "09" \in Bands /\ "24" \in Bands /\ Bands = {"09", "24"}  BY DEF Bands
<1>2. /\ s \in Seq(Writes) /\ PlacesIn(s) \subseteq BandPlaces("09")
      /\ m.phy # "fsk" => LeavesModulation(s, "09", m) /\ LeavesOn(s, "09")
  BY <1>1, ConfigureBandWrites
<1>3. /\ t \in Seq(Writes) /\ PlacesIn(t) \subseteq BandPlaces("24")
      /\ m.phy # "fsk" => LeavesModulation(t, "24", m) /\ LeavesOn(t, "24")
  BY <1>1, ConfigureBandWrites
<1>4. CASE m.phy = "fsk"
  <2>1. Configure(m) = s \o <<>>  BY <1>4 DEF Configure
  <2> HIDE DEF s
  <2>2. s \o <<>> \in Seq(Writes) /\ PlacesIn(s \o <<>>) = PlacesIn(s) \cup {}
    BY <1>2, NoWrites, PlacesOfConcat
  <2> QED BY <1>2, <1>4, <2>1, <2>2
<1>5. CASE m.phy # "fsk"
  <2>1. Configure(m) = s \o t  BY <1>5 DEF Configure
  <2> HIDE DEF s, t
  <2>2. /\ s \o t \in Seq(Writes) /\ PlacesIn(s \o t) = PlacesIn(s) \cup PlacesIn(t)
        /\ \A p, v : Leaves(t, p, v) => Leaves(s \o t, p, v)
        /\ \A p, v : p \notin PlacesIn(t) /\ Leaves(s, p, v) => Leaves(s \o t, p, v)
    BY <1>2, <1>3, Concat
  <2>3. \A r \in RegisterNames : At("09", r) \notin BandPlaces("24")
    BY <1>1, PlacesDiffer DEF BandPlaces, RegisterNames
  <2>4. /\ At("09", "tx") \notin PlacesIn(t) /\ At("09", "pac") \notin PlacesIn(t)
        /\ At("09", "rx") \notin PlacesIn(t) /\ At("09", "phy") \notin PlacesIn(t)
        /\ At("09", "state") \notin PlacesIn(t) /\ At("09", "bben") \notin PlacesIn(t)
    BY <1>3, <2>3 DEF RegisterNames
  <2>5. LeavesModulation(s \o t, "09", m) /\ LeavesOn(s \o t, "09")
    BY <1>2, <1>5, <2>2, <2>4 DEF LeavesModulation, LeavesFrontend, LeavesOn
  <2>6. LeavesModulation(s \o t, "24", m) /\ LeavesOn(s \o t, "24")
    BY <1>3, <1>5, <2>2 DEF LeavesModulation, LeavesFrontend, LeavesOn
  <2> QED BY <1>1, <1>2, <1>3, <2>1, <2>2, <2>5, <2>6
<1> QED BY <1>4, <1>5

--------------------------------------------------------------------------------
(* start_receive, the platform's pins and the chip's mode.                  *)
StatePlaces == {At("09", "state"), At("24", "state"), Nowhere}

LEMMA StartReceiveWrites ==
  ASSUME NEW h
  PROVE  /\ StartReceive(h) \in Seq(Writes) /\ PlacesIn(StartReceive(h)) \subseteq StatePlaces
         /\ \A b \in Bands : \/ Leaves(StartReceive(h), At(b, "state"), "Rx")
                             \/ /\ h[At(b, "state")] = "Rx"
                                /\ At(b, "state") \notin PlacesIn(StartReceive(h))
<1> DEFINE On(b) == IF h[At(b, "state")] = "Rx" THEN <<Wait>> ELSE Receive(b)
           s == On("09")
           t == On("24")
<1>1. ASSUME NEW b \in Bands
      PROVE  /\ On(b) \in Seq(Writes) /\ PlacesIn(On(b)) \subseteq {At(b, "state"), Nowhere}
             /\ \/ Leaves(On(b), At(b, "state"), "Rx")
                \/ h[At(b, "state")] = "Rx" /\ At(b, "state") \notin PlacesIn(On(b))
  <2>1. CASE h[At(b, "state")] = "Rx"
    <3>1. On(b) = <<Wait>>  BY <2>1
    <3>2. <<Wait>> \in Seq(Writes) /\ PlacesIn(<<Wait>>) = {Nowhere}
      BY WaitWrite, OneWrite
    <3>3. At(b, "state") # Nowhere  BY PlacesDiffer DEF RegisterNames
    <3> HIDE DEF On
    <3> QED BY <2>1, <3>1, <3>2, <3>3
  <2>2. CASE h[At(b, "state")] # "Rx"
    <3>1. On(b) = Receive(b)  BY <2>2
    <3> HIDE DEF On
    <3> QED BY <3>1, ReceiveWrites
  <2> QED BY <2>1, <2>2
<1>2. "09" \in Bands /\ "24" \in Bands /\ Bands = {"09", "24"}  BY DEF Bands
<1>3. StartReceive(h) = s \o t  BY DEF StartReceive
<1>4. /\ s \in Seq(Writes) /\ PlacesIn(s) \subseteq {At("09", "state"), Nowhere}
      /\ \/ Leaves(s, At("09", "state"), "Rx")
         \/ h[At("09", "state")] = "Rx" /\ At("09", "state") \notin PlacesIn(s)
  BY <1>1, <1>2
<1>5. /\ t \in Seq(Writes) /\ PlacesIn(t) \subseteq {At("24", "state"), Nowhere}
      /\ \/ Leaves(t, At("24", "state"), "Rx")
         \/ h[At("24", "state")] = "Rx" /\ At("24", "state") \notin PlacesIn(t)
  BY <1>1, <1>2
<1> HIDE DEF s, t
<1>6. At("09", "state") \notin {At("24", "state"), Nowhere} /\ At("24", "state") # Nowhere
  BY <1>2, PlacesDiffer DEF RegisterNames
<1>7. /\ s \o t \in Seq(Writes) /\ PlacesIn(s \o t) = PlacesIn(s) \cup PlacesIn(t)
      /\ \A p, v : Leaves(t, p, v) => Leaves(s \o t, p, v)
      /\ \A p, v : p \notin PlacesIn(t) /\ Leaves(s, p, v) => Leaves(s \o t, p, v)
  BY <1>4, <1>5, Concat
<1>8. \/ Leaves(s \o t, At("09", "state"), "Rx")
      \/ h[At("09", "state")] = "Rx" /\ At("09", "state") \notin PlacesIn(s \o t)
  BY <1>4, <1>5, <1>6, <1>7
<1>9. \/ Leaves(s \o t, At("24", "state"), "Rx")
      \/ h[At("24", "state")] = "Rx" /\ At("24", "state") \notin PlacesIn(s \o t)
  BY <1>4, <1>5, <1>6, <1>7
<1>10. PlacesIn(s \o t) \subseteq StatePlaces  BY <1>4, <1>5, <1>7 DEF StatePlaces
<1> QED BY <1>2, <1>3, <1>7, <1>8, <1>9, <1>10

Antennas == {"Internal", "External"}

LEMMA FilterPinsAre ==
  ASSUME NEW c \in ConfigType
  PROVE  FilterPins(c) \in {<<>>, <<"high", "low">>, <<"low", "high">>}
<1> DEFINE A == c.filter = 1 \/ c.freq < 862 \/ (902 <= c.freq /\ c.freq <= 928)
           B == c.filter = 0 /\ 862 <= c.freq /\ c.freq <= 876
<1>1. c.freq \in Int
  <2>1. c.freq \in 1..MaxFreq  BY DEF ConfigType
  <2>2. \A x, n : x \in 1..n => x \in Int  OBVIOUS
  <2> QED BY <2>1, <2>2
<1>2. ~(A /\ B)  BY <1>1
<1>3. FilterPins(c) = CASE A -> <<"high", "low">> [] B -> <<"low", "high">> [] OTHER -> <<>>
  BY DEF FilterPins
<1> HIDE DEF A, B
<1>4. CASE A
  <2>1. FilterPins(c) = <<"high", "low">>  BY <1>2, <1>3, <1>4, Zenon
  <2> QED BY <2>1
<1>5. CASE B
  <2>1. FilterPins(c) = <<"low", "high">>  BY <1>2, <1>3, <1>5, Zenon
  <2> QED BY <2>1
<1>6. CASE ~A /\ ~B
  <2>1. FilterPins(c) = <<>>  BY <1>3, <1>6, Zenon
  <2> QED BY <2>1
<1> QED BY <1>4, <1>5, <1>6

LEMMA FilterWritesLeave ==
  ASSUME NEW c \in ConfigType
  PROVE  /\ FilterWrites(c) \in Seq(Writes)
         /\ PlacesIn(FilterWrites(c)) \subseteq {Pin("v1"), Pin("v2")}
         /\ FilterPins(c) # <<>> => /\ Leaves(FilterWrites(c), Pin("v1"), FilterPins(c)[1])
                                    /\ Leaves(FilterWrites(c), Pin("v2"), FilterPins(c)[2])
<1>1. CASE FilterPins(c) = <<>>
  <2>1. FilterWrites(c) = <<>>  BY <1>1 DEF FilterWrites
  <2> QED BY <1>1, <2>1, NoWrites
<1>2. CASE FilterPins(c) # <<>>
  <2> DEFINE v == <<Pin("v1"), FilterPins(c)[1]>>
             w == <<Pin("v2"), FilterPins(c)[2]>>
             ops == <<v, w>>
  <2>1. FilterPins(c)[1] \in {"high", "low"} /\ FilterPins(c)[2] \in {"high", "low"}
    BY <1>2, FilterPinsAre
  <2>2. v \in Writes /\ Place(v) = Pin("v1") /\ Value(v) = FilterPins(c)[1]  BY <2>1, PinWrite
  <2>3. w \in Writes /\ Place(w) = Pin("v2") /\ Value(w) = FilterPins(c)[2]  BY <2>1, PinWrite
  <2>4. FilterWrites(c) = ops  BY <1>2 DEF FilterWrites
  <2>5. Pin("v1") # Pin("v2")  BY PlacesDiffer
  <2> HIDE DEF v, w
  <2>6. /\ ops \in Seq(Writes) /\ PlacesIn(ops) = {Place(v), Place(w)}
        /\ Leaves(ops, Place(v), Value(v)) /\ Leaves(ops, Place(w), Value(w))
    BY <2>2, <2>3, <2>5, TwoWrites
  <2> HIDE DEF ops
  <2> QED BY <2>2, <2>3, <2>4, <2>6
<1> QED BY <1>1, <1>2

LEMMA AntennaWrite ==
  ASSUME NEW a \in Antennas
  PROVE  /\ <<Pin("ant_24"), AntennaPin(a)>> \in Writes
         /\ Place(<<Pin("ant_24"), AntennaPin(a)>>) = Pin("ant_24")
         /\ Value(<<Pin("ant_24"), AntennaPin(a)>>) = AntennaPin(a)
<1>1. AntennaPin(a) \in {"high", "low"}  BY DEF AntennaPin
<1> QED BY <1>1, PinWrite

LEMMA ApplyAnt24Writes ==
  ASSUME NEW a \in Antennas
  PROVE  /\ ApplyAnt24(a) \in Seq(Writes) /\ PlacesIn(ApplyAnt24(a)) \subseteq {Pin("ant_24")}
         /\ HasAnt24 => Leaves(ApplyAnt24(a), Pin("ant_24"), AntennaPin(a))
         /\ ~HasAnt24 => ApplyAnt24(a) = <<>>
<1>1. CASE HasAnt24
  <2> DEFINE w == <<Pin("ant_24"), AntennaPin(a)>>
  <2>1. ApplyAnt24(a) = <<w>>  BY <1>1 DEF ApplyAnt24
  <2>2. w \in Writes /\ Place(w) = Pin("ant_24") /\ Value(w) = AntennaPin(a)  BY AntennaWrite
  <2> HIDE DEF w
  <2> QED BY <1>1, <2>1, <2>2, OneWrite
<1>2. CASE ~HasAnt24
  <2>1. ApplyAnt24(a) = <<>>  BY <1>2 DEF ApplyAnt24
  <2> QED BY <1>2, <2>1, NoWrites
<1> QED BY <1>1, <1>2

PinPlaces == {Pin("v1"), Pin("v2"), Pin("ant_24")}

LEMMA AdjustWrites ==
  ASSUME NEW a \in Antennas, NEW c \in ConfigType
  PROVE  /\ Adjust(a, c) \in Seq(Writes) /\ PlacesIn(Adjust(a, c)) \subseteq PinPlaces
         /\ HasAnt24 => Leaves(Adjust(a, c), Pin("ant_24"), AntennaPin(a))
         /\ ~HasAnt24 => Pin("ant_24") \notin PlacesIn(Adjust(a, c))
         /\ FilterPins(c) # <<>> => /\ Leaves(Adjust(a, c), Pin("v1"), FilterPins(c)[1])
                                    /\ Leaves(Adjust(a, c), Pin("v2"), FilterPins(c)[2])
<1> DEFINE s == ApplyAnt24(a)
           t == FilterWrites(c)
<1>1. /\ s \in Seq(Writes) /\ PlacesIn(s) \subseteq {Pin("ant_24")}
      /\ HasAnt24 => Leaves(s, Pin("ant_24"), AntennaPin(a))
      /\ ~HasAnt24 => PlacesIn(s) = {}
  BY ApplyAnt24Writes, NoWrites
<1>2. /\ t \in Seq(Writes) /\ PlacesIn(t) \subseteq {Pin("v1"), Pin("v2")}
      /\ FilterPins(c) # <<>> => /\ Leaves(t, Pin("v1"), FilterPins(c)[1])
                                 /\ Leaves(t, Pin("v2"), FilterPins(c)[2])
  BY FilterWritesLeave
<1>3. Adjust(a, c) = s \o t  BY DEF Adjust
<1>4. Pin("ant_24") \notin {Pin("v1"), Pin("v2")}  BY PlacesDiffer
<1> HIDE DEF s, t
<1>5. /\ s \o t \in Seq(Writes) /\ PlacesIn(s \o t) = PlacesIn(s) \cup PlacesIn(t)
      /\ \A p, v : Leaves(t, p, v) => Leaves(s \o t, p, v)
      /\ \A p, v : p \notin PlacesIn(t) /\ Leaves(s, p, v) => Leaves(s \o t, p, v)
  BY <1>1, <1>2, Concat
<1> QED BY <1>1, <1>2, <1>3, <1>4, <1>5 DEF PinPlaces

(* Whatever the last write that is done, the first of a place not written   *)
(* again has been.                                                          *)
LEMMA FirstStays ==
  ASSUME NEW h, NEW w \in Writes, NEW t \in Seq(Writes), Place(w) \notin PlacesIn(t),
         Place(w) \in DOMAIN h, NEW n \in 1..Len(<<w>> \o t)
  PROVE  Applied(h, <<w>> \o t, n)[Place(w)] = Value(w)
<1> DEFINE s == <<w>>
           r == s \o t
<1>1. s \in Seq(Writes) /\ Len(s) = 1 /\ s[1] = w  OBVIOUS
<1>2. n \in 1..Len(r)  OBVIOUS
<1> HIDE DEF s
<1>3. /\ Len(r) = 1 + Len(t) /\ r[1] = s[1]
      /\ \A j \in 2..Len(r) : j - 1 \in 1..Len(t) /\ r[j] = t[j - 1]
  <2>1. Len(r) = Len(s) + Len(t)  BY <1>1, ConcatProperties
  <2>2. \A j \in 1..(Len(s) + Len(t)) :
          r[j] = IF j <= Len(s) THEN s[j] ELSE t[j - Len(s)]
    BY <1>1, ConcatProperties
  <2> HIDE DEF r
  <2>3. Len(t) \in Nat  OBVIOUS
  <2> QED BY <1>1, <2>1, <2>2, <2>3
<1>4. \A j \in 1..n : j > 1 => j - 1 \in 1..Len(t) /\ r[j] = t[j - 1]
  <2>1. Len(r) \in Nat  BY <1>3
  <2> HIDE DEF r
  <2> QED BY <1>2, <1>3, <2>1
<1> HIDE DEF r
<1>5. \A j \in 1..n : j > 1 => Place(r[j]) # Place(w)
  <2> SUFFICES ASSUME NEW j \in 1..n, j > 1 PROVE Place(r[j]) # Place(w)  OBVIOUS
  <2>1. j - 1 \in 1..Len(t) /\ r[j] = t[j - 1]  BY <1>4
  <2>2. Place(t[j - 1]) \in PlacesIn(t)  BY <2>1 DEF PlacesIn
  <2> QED BY <2>1, <2>2
<1>6. n \in Nat /\ 1 \in 1..n  BY <1>2
<1>7. Applied(h, r, n)[Place(w)] = Value(r[1])
  BY <1>1, <1>3, <1>5, <1>6, AppliedLast
<1> QED BY <1>1, <1>3, <1>7 DEF r, s

LEMMA ModeWritesLeave ==
  ASSUME NEW a \in {"Native", "Hardware"}
  PROVE  /\ ModeWrites(a) \in Seq(Writes) /\ PlacesIn(ModeWrites(a)) \subseteq {Mode, Nowhere}
         /\ Leaves(ModeWrites(a), Mode, IF a = "Hardware" THEN "Radio" ELSE "BasebandRadio")
<1> DEFINE v == <<Mode, "Radio">>
           w == <<Mode, "BasebandRadio">>
<1>1. /\ Mode \in Places \cup {Nowhere} /\ "Radio" \in ValuesOf(Mode)
      /\ "BasebandRadio" \in ValuesOf(Mode) /\ Mode # Nowhere
  BY PlacesAre, OtherValues, PlacesDiffer
<1>2. v \in Writes /\ Place(v) = Mode /\ Value(v) = "Radio"  BY <1>1, AWrite
<1>3. w \in Writes /\ Place(w) = Mode /\ Value(w) = "BasebandRadio"  BY <1>1, AWrite
<1>4. a = "Hardware" => ModeWrites(a) = <<v>>  BY DEF ModeWrites
<1>5. a # "Hardware" => ModeWrites(a) = <<w, Wait>>  BY DEF ModeWrites
<1>6. Wait \in Writes /\ Place(Wait) = Nowhere  BY WaitWrite
<1> HIDE DEF v, w
<1>7. /\ <<v>> \in Seq(Writes) /\ PlacesIn(<<v>>) = {Mode} /\ Leaves(<<v>>, Mode, "Radio")
  BY <1>2, OneWrite
<1>8. /\ <<w, Wait>> \in Seq(Writes) /\ PlacesIn(<<w, Wait>>) = {Mode, Nowhere}
      /\ Leaves(<<w, Wait>>, Mode, "BasebandRadio")
  BY <1>1, <1>3, <1>6, TwoWrites
<1>9. CASE a = "Hardware"  BY <1>4, <1>7, <1>9
<1>10. CASE a # "Hardware"  BY <1>5, <1>8, <1>10
<1> QED BY <1>9, <1>10
--------------------------------------------------------------------------------
(* What is kept of one radio: its hardware h, the driver's configuration f, *)
(* what the platform remembers (c, m, a and n), and what is sure (s).       *)
ChannelHeld(h, c) ==
  LET b == BandOf(c)
  IN /\ h[At(b, "cs")] = c.spacing \div 25 /\ h[At(b, "ccf0")] = (c.freq - Offset(b)) * 40
     /\ h[At(b, "cnl")] = c.channel % 256 /\ h[At(b, "cnm")] = c.channel \div 256

FilterHeld(h, c) ==
  FilterPins(c) # <<>> => h[Pin("v1")] = FilterPins(c)[1] /\ h[Pin("v2")] = FilterPins(c)[2]

BandModulated(h, b, m) ==
  /\ h[At(b, "phy")] = m.phy /\ h[At(b, "tx")] = Frontend(b, m)
  /\ h[At(b, "rx")] = Frontend(b, m) /\ h[At(b, "pac")] = Power(m)

BandOn(h, b) == h[At(b, "state")] = "Rx" /\ h[At(b, "bben")] = "on"

Remembered(f, c, m, a, n) ==
  /\ f \in ConfigType /\ c \in ConfigType /\ m \in ModulationType
  /\ a \in {"Native", "Hardware"} /\ n \in Antennas
  /\ Accepted(BandOf(f), f)

Held(h, f, c, m, a, n, s) ==
  /\ "set" \in s => c = f
  /\ "channel" \in s => ChannelHeld(h, f)
  /\ "set" \in s /\ "pins" \in s => FilterHeld(h, f)
  /\ "modulation" \in s => \A b \in Bands : BandModulated(h, b, m)
  /\ "on" \in s => \A b \in Bands : BandOn(h, b)
  /\ "accelerator" \in s => h[Mode] = IF a = "Hardware" THEN "Radio" ELSE "BasebandRadio"
  /\ "antenna" \in s /\ HasAnt24 => h[Pin("ant_24")] = AntennaPin(n)

(* Two states of the hardware that agree where a setting is.                *)
Agree(g, h, P) == \A p \in P : g[p] = h[p]

ModulationPlaces == UNION {{At(b, "phy"), At(b, "tx"), At(b, "rx"), At(b, "pac")} : b \in Bands}
OnPlaces == UNION {{At(b, "state"), At(b, "bben")} : b \in Bands}

LEMMA BandsAre == Bands = {"09", "24"} /\ \A c : BandOf(c) \in Bands
  BY DEF Bands, BandOf

LEMMA ChannelAgrees ==
  ASSUME NEW g, NEW h, NEW c, Agree(g, h, ChannelPlaces(BandOf(c))), ChannelHeld(h, c)
  PROVE  ChannelHeld(g, c)
<1> DEFINE b == BandOf(c)
<1>1. /\ g[At(b, "cs")] = h[At(b, "cs")] /\ g[At(b, "ccf0")] = h[At(b, "ccf0")]
      /\ g[At(b, "cnl")] = h[At(b, "cnl")] /\ g[At(b, "cnm")] = h[At(b, "cnm")]
  BY DEF Agree, ChannelPlaces
<1> QED BY <1>1 DEF ChannelHeld

LEMMA FilterAgrees ==
  ASSUME NEW g, NEW h, NEW c, Agree(g, h, {Pin("v1"), Pin("v2")}), FilterHeld(h, c)
  PROVE  FilterHeld(g, c)
<1>1. g[Pin("v1")] = h[Pin("v1")] /\ g[Pin("v2")] = h[Pin("v2")]  BY DEF Agree
<1> QED BY <1>1 DEF FilterHeld

LEMMA ModulationAgrees ==
  ASSUME NEW g, NEW h, NEW m, Agree(g, h, ModulationPlaces), NEW b \in Bands,
         BandModulated(h, b, m)
  PROVE  BandModulated(g, b, m)
<1>1. {At(b, "phy"), At(b, "tx"), At(b, "rx"), At(b, "pac")} \subseteq ModulationPlaces
  BY DEF ModulationPlaces
<1>2. /\ g[At(b, "phy")] = h[At(b, "phy")] /\ g[At(b, "tx")] = h[At(b, "tx")]
      /\ g[At(b, "rx")] = h[At(b, "rx")] /\ g[At(b, "pac")] = h[At(b, "pac")]
  BY <1>1 DEF Agree
<1> QED BY <1>2 DEF BandModulated

(* The same for a change that makes nothing more sure: each setting that    *)
(* is still sure is where it was.                                           *)
LEMMA StillHeld ==
  ASSUME NEW g, NEW h, NEW f, NEW c, NEW m, NEW a, NEW n, NEW s, NEW u,
         Held(h, f, c, m, a, n, s), u \subseteq s,
         "channel" \in u => Agree(g, h, ChannelPlaces(BandOf(f))),
         "pins" \in u => Agree(g, h, {Pin("v1"), Pin("v2")}),
         "modulation" \in u => Agree(g, h, ModulationPlaces),
         "on" \in u => \A b \in Bands : BandOn(g, b),
         "accelerator" \in u => g[Mode] = h[Mode],
         "antenna" \in u => g[Pin("ant_24")] = h[Pin("ant_24")]
  PROVE  Held(g, f, c, m, a, n, u)
<1>1. "set" \in u => c = f  BY DEF Held
<1>2. "channel" \in u => ChannelHeld(g, f)  BY ChannelAgrees DEF Held
<1>3. "set" \in u /\ "pins" \in u => FilterHeld(g, f)  BY FilterAgrees DEF Held
<1>4. "modulation" \in u => \A b \in Bands : BandModulated(g, b, m)
  BY ModulationAgrees DEF Held
<1>5. "accelerator" \in u => g[Mode] = IF a = "Hardware" THEN "Radio" ELSE "BasebandRadio"
  BY DEF Held
<1>6. "antenna" \in u /\ HasAnt24 => g[Pin("ant_24")] = AntennaPin(n)  BY DEF Held
<1> QED BY <1>1, <1>2, <1>3, <1>4, <1>5, <1>6 DEF Held

LEMMA Untouched ==
  ASSUME NEW h, TypedHw(h), NEW ops \in Seq(Writes), NEW k \in 0..Len(ops),
         NEW P \in SUBSET Places, P \cap PlacesIn(ops) = {}
  PROVE  Agree(Applied(h, ops, k), h, P)
<1> SUFFICES ASSUME NEW p \in P PROVE Applied(h, ops, k)[p] = h[p]  BY DEF Agree
<1>1. p \in DOMAIN h /\ p \notin PlacesIn(ops)  BY DEF TypedHw
<1> QED BY <1>1, Kept

LEMMA AllDone ==
  ASSUME NEW h, TypedHw(h), NEW ops \in Seq(Writes)
  PROVE  /\ TypedHw(Applied(h, ops, Len(ops)))
         /\ \A p \in Places : \A v : Leaves(ops, p, v) => Applied(h, ops, Len(ops))[p] = v
<1>1. Len(ops) \in 0..Len(ops) /\ DOMAIN h = Places  BY DEF TypedHw
<1> QED BY <1>1, AppliedTyped, Left

(* The places of the settings do not meet.                                  *)
Regs(R) == {At(b, r) : b \in Bands, r \in R}

LEMMA RegsDiffer ==
  ASSUME NEW R \in SUBSET RegisterNames, NEW Q \in SUBSET RegisterNames, R \cap Q = {}
  PROVE  /\ Regs(R) \cap Regs(Q) = {} /\ Regs(R) \subseteq Places
         /\ Regs(R) \cap PinPlaces = {} /\ Mode \notin Regs(R) /\ Nowhere \notin Regs(R)
  BY PlacesDiffer, PlacesAre DEF Regs, PinPlaces

ChannelRegs == {"cs", "ccf0", "cnl", "cnm"}
ModulationRegs == {"phy", "tx", "rx", "pac"}
OnRegs == {"state", "bben"}

LEMMA PlaceSets ==
  /\ \A b \in Bands : ChannelPlaces(b) \subseteq Regs(ChannelRegs)
  /\ ModulationPlaces = Regs(ModulationRegs)
  /\ OnPlaces = Regs(OnRegs)
  /\ StatePlaces \subseteq OnPlaces \cup {Nowhere}
  /\ \A b \in Bands : BandPlaces(b) \subseteq OnPlaces \cup ModulationPlaces \cup Regs({"mod"})
                                              \cup {Nowhere}
<1>1. \A b \in Bands : \A r : \A R : r \in R => At(b, r) \in Regs(R)  BY DEF Regs
<1>2. \A b \in Bands : ChannelPlaces(b) \subseteq Regs(ChannelRegs)
  BY <1>1 DEF ChannelPlaces, ChannelRegs
<1>3. ModulationPlaces = Regs(ModulationRegs)
  BY DEF ModulationPlaces, ModulationRegs, Regs
<1>4. OnPlaces = Regs(OnRegs)  BY DEF OnPlaces, OnRegs, Regs
<1>5. StatePlaces \subseteq OnPlaces \cup {Nowhere}
  BY BandsAre DEF StatePlaces, OnPlaces
<1>6. \A b \in Bands : /\ At(b, "mod") \in Regs({"mod"})
                       /\ {At(b, "state"), At(b, "bben")} \subseteq OnPlaces
                       /\ {At(b, "phy"), At(b, "tx"), At(b, "rx"), At(b, "pac")} \subseteq ModulationPlaces
  BY DEF OnPlaces, ModulationPlaces, Regs
<1>7. \A b \in Bands : BandPlaces(b) \subseteq OnPlaces \cup ModulationPlaces \cup Regs({"mod"})
                                              \cup {Nowhere}
  BY <1>6 DEF BandPlaces
<1> QED BY <1>2, <1>3, <1>4, <1>5, <1>7

LEMMA Apart ==
  ASSUME NEW b \in Bands
  PROVE  /\ ChannelPlaces(b) \subseteq Places /\ ModulationPlaces \subseteq Places
         /\ PinPlaces \subseteq Places /\ OnPlaces \subseteq Places
         /\ ChannelPlaces(b) \cap (PinPlaces \cup ModulationPlaces \cup OnPlaces \cup Regs({"mod"})
                                   \cup {Mode, Nowhere}) = {}
         /\ ModulationPlaces \cap (PinPlaces \cup OnPlaces \cup {Mode, Nowhere}) = {}
         /\ OnPlaces \cap (PinPlaces \cup Regs({"mod"}) \cup {Mode, Nowhere}) = {}
         /\ PinPlaces \cap (Regs({"mod"}) \cup {Mode, Nowhere}) = {}
         /\ Mode \notin Regs({"mod"}) \cup {Nowhere} /\ Mode \in Places
<1>1. /\ ChannelRegs \subseteq RegisterNames /\ ModulationRegs \subseteq RegisterNames
      /\ OnRegs \subseteq RegisterNames /\ {"mod"} \subseteq RegisterNames
  BY DEF ChannelRegs, ModulationRegs, OnRegs, RegisterNames
<1>2. /\ ChannelRegs \cap ModulationRegs = {} /\ ChannelRegs \cap OnRegs = {}
      /\ ChannelRegs \cap {"mod"} = {} /\ ModulationRegs \cap OnRegs = {} /\ OnRegs \cap {"mod"} = {}
  BY DEF ChannelRegs, ModulationRegs, OnRegs
<1>3. /\ Regs(ChannelRegs) \cap Regs(ModulationRegs) = {} /\ Regs(ChannelRegs) \subseteq Places
      /\ Regs(ChannelRegs) \cap PinPlaces = {} /\ Mode \notin Regs(ChannelRegs)
      /\ Nowhere \notin Regs(ChannelRegs)
  BY <1>1, <1>2, RegsDiffer
<1>4. /\ Regs(ModulationRegs) \cap Regs(OnRegs) = {} /\ Regs(ModulationRegs) \subseteq Places
      /\ Regs(ModulationRegs) \cap PinPlaces = {} /\ Mode \notin Regs(ModulationRegs)
      /\ Nowhere \notin Regs(ModulationRegs)
  BY <1>1, <1>2, RegsDiffer
<1>5. /\ Regs(OnRegs) \cap Regs({"mod"}) = {} /\ Regs(OnRegs) \subseteq Places
      /\ Regs(OnRegs) \cap PinPlaces = {} /\ Mode \notin Regs(OnRegs) /\ Nowhere \notin Regs(OnRegs)
  BY <1>1, <1>2, RegsDiffer
<1>6. Regs(ChannelRegs) \cap Regs(OnRegs) = {} /\ Regs(ChannelRegs) \cap Regs({"mod"}) = {}
  BY <1>1, <1>2, RegsDiffer
<1>7. Regs({"mod"}) \cap PinPlaces = {} /\ Mode \notin Regs({"mod"})
  <2>1. {"mod"} \cap {} = {} /\ {} \subseteq RegisterNames  OBVIOUS
  <2> QED BY <1>1, <2>1, RegsDiffer
<1>8. PinPlaces \subseteq Places /\ PinPlaces \cap {Mode, Nowhere} = {}
  BY PlacesAre, PlacesDiffer DEF PinPlaces
<1>9. Mode \in Places /\ Mode # Nowhere  BY PlacesAre, PlacesDiffer
<1>10. ChannelPlaces(b) \subseteq Regs(ChannelRegs)  BY PlaceSets
<1>11. ModulationPlaces = Regs(ModulationRegs) /\ OnPlaces = Regs(OnRegs)  BY PlaceSets
<1> QED BY <1>3, <1>4, <1>5, <1>6, <1>7, <1>8, <1>9, <1>10, <1>11

--------------------------------------------------------------------------------
(* set_config, refused or not, on the state of the radio.                   *)
DriverWrites(f, r) == IF f # r THEN SetFrequency(BandOf(r), r) ELSE <<>>
ConfigWrites(n, f, r) == Adjust(n, r) \o DriverWrites(f, r)

LEMMA DriverWritesLeave ==
  ASSUME NEW f, NEW r \in ConfigType
  PROVE  /\ DriverWrites(f, r) \in Seq(Writes)
         /\ PlacesIn(DriverWrites(f, r)) \subseteq
              ChannelPlaces(BandOf(r)) \cup {At(BandOf(r), "state"), Nowhere}
         /\ f = r => PlacesIn(DriverWrites(f, r)) = {}
         /\ f # r /\ Accepted(BandOf(r), r)
              => /\ LeavesChannel(DriverWrites(f, r), BandOf(r), r)
                 /\ Leaves(DriverWrites(f, r), At(BandOf(r), "state"), "Rx")
<1>1. CASE f = r
  <2>1. DriverWrites(f, r) = <<>>  BY <1>1 DEF DriverWrites
  <2> QED BY <1>1, <2>1, NoWrites
<1>2. CASE f # r
  <2>1. DriverWrites(f, r) = SetFrequency(BandOf(r), r)  BY <1>2 DEF DriverWrites
  <2>2. BandOf(r) \in Bands  BY BandsAre
  <2> QED BY <1>2, <2>1, <2>2, SetFrequencyWrites
<1> QED BY <1>1, <1>2

LEMMA ConfigWritesLeave ==
  ASSUME NEW n \in Antennas, NEW f, NEW r \in ConfigType
  PROVE  /\ ConfigWrites(n, f, r) \in Seq(Writes)
         /\ PlacesIn(ConfigWrites(n, f, r)) \subseteq
              PinPlaces \cup ChannelPlaces(BandOf(r)) \cup {At(BandOf(r), "state"), Nowhere}
         /\ f = r => PlacesIn(ConfigWrites(n, f, r)) \subseteq PinPlaces
         /\ ~HasAnt24 => Pin("ant_24") \notin PlacesIn(ConfigWrites(n, f, r))
         /\ HasAnt24 => Leaves(ConfigWrites(n, f, r), Pin("ant_24"), AntennaPin(n))
         /\ FilterPins(r) # <<>> => /\ Leaves(ConfigWrites(n, f, r), Pin("v1"), FilterPins(r)[1])
                                    /\ Leaves(ConfigWrites(n, f, r), Pin("v2"), FilterPins(r)[2])
         /\ f # r /\ Accepted(BandOf(r), r)
              => /\ LeavesChannel(ConfigWrites(n, f, r), BandOf(r), r)
                 /\ Leaves(ConfigWrites(n, f, r), At(BandOf(r), "state"), "Rx")
<1> DEFINE s == Adjust(n, r)
           t == DriverWrites(f, r)
           b == BandOf(r)
<1>1. /\ s \in Seq(Writes) /\ PlacesIn(s) \subseteq PinPlaces
      /\ HasAnt24 => Leaves(s, Pin("ant_24"), AntennaPin(n))
      /\ ~HasAnt24 => Pin("ant_24") \notin PlacesIn(s)
      /\ FilterPins(r) # <<>> => /\ Leaves(s, Pin("v1"), FilterPins(r)[1])
                                 /\ Leaves(s, Pin("v2"), FilterPins(r)[2])
  BY AdjustWrites
<1>2. /\ t \in Seq(Writes)
      /\ PlacesIn(t) \subseteq ChannelPlaces(b) \cup {At(b, "state"), Nowhere}
      /\ f = r => PlacesIn(t) = {}
      /\ f # r /\ Accepted(b, r) => /\ LeavesChannel(t, b, r)
                                    /\ Leaves(t, At(b, "state"), "Rx")
  BY DriverWritesLeave
<1>3. ConfigWrites(n, f, r) = s \o t  BY DEF ConfigWrites
<1>4. b \in Bands /\ At(b, "state") \in OnPlaces  BY BandsAre DEF OnPlaces
<1>5. PinPlaces \cap (ChannelPlaces(b) \cup {At(b, "state"), Nowhere}) = {}  BY <1>4, Apart
<1>6. {Pin("v1"), Pin("v2"), Pin("ant_24")} = PinPlaces  BY DEF PinPlaces
<1> HIDE DEF s, t, b
<1>7. /\ s \o t \in Seq(Writes) /\ PlacesIn(s \o t) = PlacesIn(s) \cup PlacesIn(t)
      /\ \A p, v : Leaves(t, p, v) => Leaves(s \o t, p, v)
      /\ \A p, v : p \notin PlacesIn(t) /\ Leaves(s, p, v) => Leaves(s \o t, p, v)
  BY <1>1, <1>2, Concat
<1>8. f # r /\ Accepted(b, r) => LeavesChannel(s \o t, b, r) /\ Leaves(s \o t, At(b, "state"), "Rx")
  BY <1>2, <1>7 DEF LeavesChannel
<1>9. FilterPins(r) # <<>> => /\ Leaves(s \o t, Pin("v1"), FilterPins(r)[1])
                              /\ Leaves(s \o t, Pin("v2"), FilterPins(r)[2])
  BY <1>1, <1>2, <1>5, <1>6, <1>7
<1>10. /\ HasAnt24 => Leaves(s \o t, Pin("ant_24"), AntennaPin(n))
       /\ ~HasAnt24 => Pin("ant_24") \notin PlacesIn(s \o t)
  BY <1>1, <1>2, <1>5, <1>6, <1>7
<1>11. /\ PlacesIn(s \o t) \subseteq PinPlaces \cup ChannelPlaces(b) \cup {At(b, "state"), Nowhere}
       /\ f = r => PlacesIn(s \o t) \subseteq PinPlaces
  BY <1>1, <1>2, <1>7
<1> QED BY <1>3, <1>7, <1>8, <1>9, <1>10, <1>11 DEF b

(* It succeeds: what is set is what was asked for, whatever was before.     *)
LEMMA ConfigDone ==
  ASSUME NEW h, NEW f, NEW c, NEW m, NEW a, NEW n, NEW s,
         TypedHw(h), Remembered(f, c, m, a, n), Held(h, f, c, m, a, n, s),
         NEW r \in ConfigType, f # r => Accepted(BandOf(r), r), NEW u,
         u \subseteq s \cup {"set", "pins", "antenna", "channel"},
         "channel" \in u => f # r \/ "channel" \in s
  PROVE  LET g == Applied(h, ConfigWrites(n, f, r), Len(ConfigWrites(n, f, r)))
         IN TypedHw(g) /\ Remembered(r, r, m, a, n) /\ Held(g, r, r, m, a, n, u)
<1> DEFINE ops == ConfigWrites(n, f, r)
           g == Applied(h, ops, Len(ops))
           b == BandOf(r)
<1>1. n \in Antennas /\ Accepted(b, r)  BY DEF Remembered
<1>2. b \in Bands /\ At(b, "state") \in OnPlaces  BY BandsAre DEF OnPlaces
<1>3. /\ ops \in Seq(Writes)
      /\ PlacesIn(ops) \subseteq PinPlaces \cup ChannelPlaces(b) \cup {At(b, "state"), Nowhere}
      /\ f = r => PlacesIn(ops) \subseteq PinPlaces
      /\ HasAnt24 => Leaves(ops, Pin("ant_24"), AntennaPin(n))
      /\ FilterPins(r) # <<>> => /\ Leaves(ops, Pin("v1"), FilterPins(r)[1])
                                 /\ Leaves(ops, Pin("v2"), FilterPins(r)[2])
      /\ f # r => LeavesChannel(ops, b, r) /\ Leaves(ops, At(b, "state"), "Rx")
  BY <1>1, ConfigWritesLeave
<1> HIDE DEF ops
<1>4. /\ TypedHw(g)
      /\ \A p \in Places : \A v : Leaves(ops, p, v) => g[p] = v
  BY <1>3, AllDone
<1>5. Len(ops) \in 0..Len(ops)  BY <1>3
<1>6. \A P \in SUBSET Places : P \cap PlacesIn(ops) = {} => Agree(g, h, P)
  BY <1>3, <1>5, Untouched
<1>7. /\ ChannelPlaces(b) \subseteq Places /\ ModulationPlaces \subseteq Places
      /\ PinPlaces \subseteq Places /\ OnPlaces \subseteq Places /\ Mode \in Places
      /\ ChannelPlaces(b) \cap PinPlaces = {}
      /\ ModulationPlaces \cap (PinPlaces \cup ChannelPlaces(b) \cup OnPlaces \cup {Nowhere}) = {}
      /\ OnPlaces \cap (PinPlaces \cup ChannelPlaces(b) \cup {Nowhere}) = {}
      /\ Mode \notin PinPlaces \cup ChannelPlaces(b) \cup OnPlaces \cup {Nowhere}
  BY <1>2, Apart
<1> HIDE DEF g, b
<1>8. "channel" \in u => ChannelHeld(g, r)
  <2>1. CASE f = r /\ "channel" \in s
    <3>1. Agree(g, h, ChannelPlaces(b))  BY <1>3, <1>6, <1>7, <2>1
    <3>2. ChannelHeld(h, r)  BY <2>1 DEF Held
    <3> QED BY <3>1, <3>2, ChannelAgrees DEF b
  <2>2. CASE f # r
    <3>1. /\ Leaves(ops, At(b, "cs"), r.spacing \div 25)
          /\ Leaves(ops, At(b, "ccf0"), (r.freq - Offset(b)) * 40)
          /\ Leaves(ops, At(b, "cnl"), r.channel % 256)
          /\ Leaves(ops, At(b, "cnm"), r.channel \div 256)
      BY <1>3, <2>2 DEF LeavesChannel
    <3>2. {At(b, "cs"), At(b, "ccf0"), At(b, "cnl"), At(b, "cnm")} \subseteq Places
      BY <1>7 DEF ChannelPlaces
    <3>3. /\ g[At(b, "cs")] = r.spacing \div 25 /\ g[At(b, "ccf0")] = (r.freq - Offset(b)) * 40
          /\ g[At(b, "cnl")] = r.channel % 256 /\ g[At(b, "cnm")] = r.channel \div 256
      BY <1>4, <3>1, <3>2
    <3> QED BY <3>3 DEF ChannelHeld, b
  <2> QED BY <2>1, <2>2
<1>9. FilterHeld(g, r)
  <2>1. Pin("v1") \in Places /\ Pin("v2") \in Places  BY PlacesAre
  <2>2. FilterPins(r) # <<>> => g[Pin("v1")] = FilterPins(r)[1] /\ g[Pin("v2")] = FilterPins(r)[2]
    BY <1>3, <1>4, <2>1
  <2> QED BY <2>2 DEF FilterHeld
<1>10. "modulation" \in u => \A d \in Bands : BandModulated(g, d, m)
  <2>1. Agree(g, h, ModulationPlaces)  BY <1>2, <1>3, <1>6, <1>7
  <2> QED BY <2>1, ModulationAgrees DEF Held
<1>11. "on" \in u => \A d \in Bands : BandOn(g, d)
  <2> SUFFICES ASSUME "on" \in u, NEW d \in Bands PROVE BandOn(g, d)  OBVIOUS
  <2>1. BandOn(h, d)  BY DEF Held
  <2>2. {At(d, "state"), At(d, "bben")} \subseteq OnPlaces  BY DEF OnPlaces
  <2>3. At(d, "bben") # At(b, "state")
    BY <1>2, PlacesDiffer DEF RegisterNames
  <2>4. Agree(g, h, {At(d, "bben")})  BY <1>3, <1>6, <1>7, <2>2, <2>3
  <2>5. g[At(d, "bben")] = "on"  BY <2>1, <2>4 DEF Agree, BandOn
  <2>6. g[At(d, "state")] = "Rx"
    <3>1. CASE f # r /\ d = b
      BY <1>3, <1>4, <1>7, <2>2, <3>1
    <3>2. CASE f = r \/ d # b
      <4>1. d # b => At(d, "state") # At(b, "state")
        BY <1>2, PlacesDiffer DEF RegisterNames
      <4>2. Agree(g, h, {At(d, "state")})  BY <1>3, <1>6, <1>7, <2>2, <3>2, <4>1
      <4> QED BY <2>1, <4>2 DEF Agree, BandOn
    <3> QED BY <3>1, <3>2
  <2> QED BY <2>5, <2>6 DEF BandOn
<1>12. "accelerator" \in u => g[Mode] = IF a = "Hardware" THEN "Radio" ELSE "BasebandRadio"
  <2>1. Agree(g, h, {Mode})  BY <1>2, <1>3, <1>6, <1>7
  <2> QED BY <2>1 DEF Agree, Held
<1>13. HasAnt24 => g[Pin("ant_24")] = AntennaPin(n)
  BY <1>3, <1>4, PlacesAre
<1>14. Held(g, r, r, m, a, n, u)
  BY <1>8, <1>9, <1>10, <1>11, <1>12, <1>13 DEF Held
<1>15. Remembered(r, r, m, a, n)  BY <1>1 DEF Remembered, b
<1> QED BY <1>4, <1>14, <1>15 DEF g, ops

(* It is refused at its end, or cut short after k writes: the antenna is    *)
(* sure once the first is done.                                             *)
LEMMA ConfigBroken ==
  ASSUME NEW h, NEW f, NEW c, NEW m, NEW a, NEW n, NEW s,
         TypedHw(h), Remembered(f, c, m, a, n), Held(h, f, c, m, a, n, s),
         NEW r \in ConfigType, NEW k \in 0..Len(ConfigWrites(n, f, r)), NEW u,
         u \subseteq (s \ {"pins", "channel", "on"}) \cup {"antenna"},
         "antenna" \in u /\ HasAnt24 /\ k = 0 => "antenna" \in s
  PROVE  LET g == Applied(h, ConfigWrites(n, f, r), k)
         IN TypedHw(g) /\ Held(g, f, c, m, a, n, u)
<1> DEFINE ops == ConfigWrites(n, f, r)
           g == Applied(h, ops, k)
           b == BandOf(r)
<1>1. n \in Antennas  BY DEF Remembered
<1>2. b \in Bands /\ At(b, "state") \in OnPlaces  BY BandsAre DEF OnPlaces
<1>3. /\ ops \in Seq(Writes)
      /\ PlacesIn(ops) \subseteq PinPlaces \cup ChannelPlaces(b) \cup {At(b, "state"), Nowhere}
  BY <1>1, ConfigWritesLeave
<1>4. HasAnt24 /\ k # 0 => g[Pin("ant_24")] = AntennaPin(n)
  <2> SUFFICES ASSUME HasAnt24, k # 0 PROVE g[Pin("ant_24")] = AntennaPin(n)  OBVIOUS
  <2> DEFINE w == <<Pin("ant_24"), AntennaPin(n)>>
             q == FilterWrites(r)
             d == DriverWrites(f, r)
  <2>1. w \in Writes /\ Place(w) = Pin("ant_24") /\ Value(w) = AntennaPin(n)
    BY <1>1, AntennaWrite
  <2>2. q \in Seq(Writes) /\ PlacesIn(q) \subseteq {Pin("v1"), Pin("v2")}
    BY FilterWritesLeave
  <2>3. /\ d \in Seq(Writes)
        /\ PlacesIn(d) \subseteq ChannelPlaces(b) \cup {At(b, "state"), Nowhere}
    BY DriverWritesLeave
  <2>4. ops = (<<w>> \o q) \o d  BY DEF ConfigWrites, Adjust, ApplyAnt24
  <2>5. Pin("ant_24") \in PinPlaces /\ Pin("ant_24") \in Places
        /\ Pin("ant_24") \notin {Pin("v1"), Pin("v2")}
    BY PlacesAre, PlacesDiffer DEF PinPlaces
  <2>6. PinPlaces \cap (ChannelPlaces(b) \cup {At(b, "state"), Nowhere}) = {}  BY <1>2, Apart
  <2>7. k \in 1..Len(ops)  BY <1>3
  <2> HIDE DEF w, q, d, ops
  <2>8. <<w>> \in Seq(Writes)  BY <2>1
  <2>9. ops = <<w>> \o (q \o d)  BY <2>2, <2>3, <2>4, <2>8, ConcatAssociative
  <2>10. q \o d \in Seq(Writes) /\ PlacesIn(q \o d) = PlacesIn(q) \cup PlacesIn(d)
    BY <2>2, <2>3, PlacesOfConcat
  <2> DEFINE t == q \o d
  <2>11. t \in Seq(Writes) /\ Place(w) \notin PlacesIn(t)
    BY <2>1, <2>2, <2>3, <2>5, <2>6, <2>10
  <2>12. Place(w) \in DOMAIN h  BY <2>1, <2>5 DEF TypedHw
  <2> HIDE DEF t
  <2>13. Applied(h, <<w>> \o t, k)[Place(w)] = Value(w)
    BY <2>1, <2>7, <2>9, <2>11, <2>12, FirstStays DEF t
  <2> QED BY <2>1, <2>9, <2>13 DEF t
<1>5. k \in 0..Len(ops)  OBVIOUS
<1> HIDE DEF ops
<1>6. TypedHw(g)  BY <1>3, <1>5, AppliedTyped
<1>7. \A P \in SUBSET Places : P \cap PlacesIn(ops) = {} => Agree(g, h, P)
  BY <1>3, <1>5, Untouched
<1>8. /\ ModulationPlaces \subseteq Places /\ Mode \in Places
      /\ ModulationPlaces \cap (PinPlaces \cup ChannelPlaces(b) \cup OnPlaces \cup {Nowhere}) = {}
      /\ Mode \notin PinPlaces \cup ChannelPlaces(b) \cup OnPlaces \cup {Nowhere}
  BY <1>2, Apart
<1>9. k = 0 => g[Pin("ant_24")] = h[Pin("ant_24")]
  <2>1. Pin("ant_24") \in DOMAIN h  BY PlacesAre DEF TypedHw
  <2>2. \A i \in 1..0 : Place(ops[i]) # Pin("ant_24")  OBVIOUS
  <2> QED BY <2>1, <2>2, AppliedAway
<1> HIDE DEF g, b
<1>10. Agree(g, h, ModulationPlaces)  BY <1>2, <1>3, <1>7, <1>8
<1>11. g[Mode] = h[Mode]
  <2>1. Agree(g, h, {Mode})  BY <1>2, <1>3, <1>7, <1>8
  <2> QED BY <2>1 DEF Agree
<1>12. "modulation" \in u => \A d \in Bands : BandModulated(g, d, m)
  BY <1>10, ModulationAgrees DEF Held
<1>13. "antenna" \in u /\ HasAnt24 => g[Pin("ant_24")] = AntennaPin(n)
  BY <1>4, <1>9 DEF Held
<1>14. Held(g, f, c, m, a, n, u)
  BY <1>11, <1>12, <1>13 DEF Held
<1> QED BY <1>6, <1>14 DEF g, ops

--------------------------------------------------------------------------------
(* set_modulation.                                                          *)
LEMMA ModulationPlacesIn ==
  ASSUME NEW r \in ModulationType
  PROVE  /\ Configure(r) \in Seq(Writes)
         /\ \A b \in Bands : ChannelPlaces(b) \cap PlacesIn(Configure(r)) = {}
         /\ PinPlaces \cap PlacesIn(Configure(r)) = {} /\ Mode \notin PlacesIn(Configure(r))
<1> DEFINE ops == Configure(r)
<1>1. /\ ops \in Seq(Writes)
      /\ PlacesIn(ops) \subseteq BandPlaces("09") \cup BandPlaces("24")
  BY ConfigureWrites
<1> HIDE DEF ops
<1>2. PlacesIn(ops) \subseteq OnPlaces \cup ModulationPlaces \cup Regs({"mod"}) \cup {Nowhere}
  BY <1>1, BandsAre, PlaceSets
<1>3. \A b \in Bands : ChannelPlaces(b) \cap PlacesIn(ops) = {}
  <2> SUFFICES ASSUME NEW b \in Bands PROVE ChannelPlaces(b) \cap PlacesIn(ops) = {}  OBVIOUS
  <2>1. ChannelPlaces(b) \cap (OnPlaces \cup ModulationPlaces \cup Regs({"mod"}) \cup {Nowhere}) = {}
    BY Apart
  <2> QED BY <1>2, <2>1
<1>4. "09" \in Bands  BY BandsAre
<1>5. /\ PinPlaces \cap (OnPlaces \cup ModulationPlaces \cup Regs({"mod"}) \cup {Nowhere}) = {}
      /\ Mode \notin OnPlaces \cup ModulationPlaces \cup Regs({"mod"}) \cup {Nowhere}
  BY <1>4, Apart
<1> QED BY <1>1, <1>2, <1>3, <1>5 DEF ops

LEMMA ModulationBroken ==
  ASSUME NEW h, NEW f, NEW c, NEW m, NEW a, NEW n, NEW s,
         TypedHw(h), Held(h, f, c, m, a, n, s),
         NEW r \in ModulationType, NEW k \in 0..Len(Configure(r)), NEW u,
         u \subseteq s \ {"modulation", "on"}
  PROVE  LET g == Applied(h, Configure(r), k)
         IN TypedHw(g) /\ Held(g, f, c, m, a, n, u)
<1> DEFINE ops == Configure(r)
           g == Applied(h, ops, k)
<1>1. /\ ops \in Seq(Writes) /\ \A b \in Bands : ChannelPlaces(b) \cap PlacesIn(ops) = {}
      /\ PinPlaces \cap PlacesIn(ops) = {} /\ Mode \notin PlacesIn(ops)
  BY ModulationPlacesIn
<1>2. k \in 0..Len(ops)  OBVIOUS
<1> HIDE DEF ops
<1>3. TypedHw(g)  BY <1>1, <1>2, AppliedTyped
<1>4. \A P \in SUBSET Places : P \cap PlacesIn(ops) = {} => Agree(g, h, P)
  BY <1>1, <1>2, Untouched
<1> HIDE DEF g
<1>5. Agree(g, h, ChannelPlaces(BandOf(f)))
  <2>1. BandOf(f) \in Bands  BY BandsAre
  <2>2. ChannelPlaces(BandOf(f)) \subseteq Places  BY <2>1, Apart
  <2> QED BY <1>1, <1>4, <2>1, <2>2
<1>6. Agree(g, h, PinPlaces)
  <2>1. PinPlaces \subseteq Places  BY PlacesAre DEF PinPlaces
  <2> QED BY <1>1, <1>4, <2>1
<1>7. Agree(g, h, {Pin("v1"), Pin("v2")}) /\ g[Pin("ant_24")] = h[Pin("ant_24")]
  BY <1>6 DEF Agree, PinPlaces
<1>8. g[Mode] = h[Mode]
  <2>1. Agree(g, h, {Mode})  BY <1>1, <1>4, PlacesAre
  <2> QED BY <2>1 DEF Agree
<1>9. Held(g, f, c, m, a, n, u)
  <2>1. "on" \notin u /\ "modulation" \notin u /\ u \subseteq s  OBVIOUS
  <2> QED BY <1>5, <1>7, <1>8, <2>1, StillHeld
<1> QED BY <1>3, <1>9 DEF g, ops

LEMMA ModulationDone ==
  ASSUME NEW h, NEW f, NEW c, NEW m, NEW a, NEW n, NEW s,
         TypedHw(h), Held(h, f, c, m, a, n, s),
         NEW r \in ModulationType, r.phy # "fsk", NEW u,
         u \subseteq s \cup {"modulation", "on"}
  PROVE  LET g == Applied(h, Configure(r), Len(Configure(r)))
         IN TypedHw(g) /\ Held(g, f, c, r, a, n, u)
<1> DEFINE ops == Configure(r)
           k == Len(ops)
           g == Applied(h, ops, k)
           w == u \ {"modulation", "on"}
<1>1. /\ ops \in Seq(Writes)
      /\ \A b \in Bands : LeavesModulation(ops, b, r) /\ LeavesOn(ops, b)
  BY ConfigureWrites
<1>2. k \in 0..Len(ops)  BY <1>1
<1>3. TypedHw(g) /\ Held(g, f, c, m, a, n, w)  BY <1>2, ModulationBroken
<1> HIDE DEF ops
<1>4. \A p \in Places : \A v : Leaves(ops, p, v) => g[p] = v  BY <1>1, AllDone
<1> HIDE DEF g
<1>5. \A b \in Bands : BandModulated(g, b, r) /\ BandOn(g, b)
  <2> SUFFICES ASSUME NEW b \in Bands PROVE BandModulated(g, b, r) /\ BandOn(g, b)  OBVIOUS
  <2>1. \A q \in RegisterNames : At(b, q) \in Places  BY PlacesAre
  <2>2. /\ At(b, "phy") \in Places /\ At(b, "tx") \in Places /\ At(b, "rx") \in Places
        /\ At(b, "pac") \in Places /\ At(b, "state") \in Places /\ At(b, "bben") \in Places
    BY <2>1 DEF RegisterNames
  <2>3. /\ Leaves(ops, At(b, "tx"), Frontend(b, r)) /\ Leaves(ops, At(b, "pac"), Power(r))
        /\ Leaves(ops, At(b, "rx"), Frontend(b, r)) /\ Leaves(ops, At(b, "phy"), r.phy)
        /\ Leaves(ops, At(b, "state"), "Rx") /\ Leaves(ops, At(b, "bben"), "on")
    BY <1>1 DEF LeavesModulation, LeavesFrontend, LeavesOn
  <2> QED BY <1>4, <2>2, <2>3 DEF BandModulated, BandOn
<1>6. Held(g, f, c, r, a, n, u)
  <2>1. \A x : x \in u /\ x \notin {"modulation", "on"} => x \in w  OBVIOUS
  <2> HIDE DEF w
  <2> QED BY <1>3, <1>5, <2>1 DEF Held
<1> QED BY <1>3, <1>6 DEF g, ops

--------------------------------------------------------------------------------
(* set_accelerator and set_antenna.                                         *)
LEMMA AcceleratorBroken ==
  ASSUME NEW h, NEW f, NEW c, NEW m, NEW a, NEW n, NEW s,
         TypedHw(h), Held(h, f, c, m, a, n, s),
         NEW r \in {"Native", "Hardware"}, NEW k \in 0..Len(ModeWrites(r)), NEW u,
         u \subseteq s \ {"accelerator"}
  PROVE  LET g == Applied(h, ModeWrites(r), k)
         IN TypedHw(g) /\ Held(g, f, c, m, a, n, u)
<1> DEFINE ops == ModeWrites(r)
           g == Applied(h, ops, k)
<1>1. ops \in Seq(Writes) /\ PlacesIn(ops) \subseteq {Mode, Nowhere}  BY ModeWritesLeave
<1>2. k \in 0..Len(ops)  OBVIOUS
<1> HIDE DEF ops
<1>3. TypedHw(g)  BY <1>1, <1>2, AppliedTyped
<1>4. \A P \in SUBSET Places : P \cap PlacesIn(ops) = {} => Agree(g, h, P)
  BY <1>1, <1>2, Untouched
<1> HIDE DEF g
<1>5. BandOf(f) \in Bands  BY BandsAre
<1>6. /\ ChannelPlaces(BandOf(f)) \subseteq Places /\ ModulationPlaces \subseteq Places
      /\ PinPlaces \subseteq Places /\ OnPlaces \subseteq Places
      /\ (ChannelPlaces(BandOf(f)) \cup PinPlaces \cup ModulationPlaces \cup OnPlaces)
            \cap {Mode, Nowhere} = {}
  BY <1>5, Apart
<1>7. /\ Agree(g, h, ChannelPlaces(BandOf(f))) /\ Agree(g, h, ModulationPlaces)
      /\ Agree(g, h, PinPlaces) /\ Agree(g, h, OnPlaces)
  BY <1>1, <1>4, <1>6
<1>8. Agree(g, h, {Pin("v1"), Pin("v2")}) /\ g[Pin("ant_24")] = h[Pin("ant_24")]
  BY <1>7 DEF Agree, PinPlaces
<1>9. "on" \in u => \A b \in Bands : BandOn(g, b)
  BY <1>7 DEF Agree, OnPlaces, BandOn, Held
<1>10. Held(g, f, c, m, a, n, u)
  <2>1. "accelerator" \notin u /\ u \subseteq s  OBVIOUS
  <2> QED BY <1>7, <1>8, <1>9, <2>1, StillHeld
<1> QED BY <1>3, <1>10 DEF g, ops

LEMMA AcceleratorDone ==
  ASSUME NEW h, NEW f, NEW c, NEW m, NEW a, NEW n, NEW s,
         TypedHw(h), Held(h, f, c, m, a, n, s),
         NEW r \in {"Native", "Hardware"}, NEW u, u \subseteq s \cup {"accelerator"}
  PROVE  LET g == Applied(h, ModeWrites(r), Len(ModeWrites(r)))
         IN TypedHw(g) /\ Held(g, f, c, m, r, n, u)
<1> DEFINE ops == ModeWrites(r)
           k == Len(ops)
           g == Applied(h, ops, k)
           w == u \ {"accelerator"}
<1>1. /\ ops \in Seq(Writes)
      /\ Leaves(ops, Mode, IF r = "Hardware" THEN "Radio" ELSE "BasebandRadio")
  BY ModeWritesLeave
<1>2. k \in 0..Len(ops)  BY <1>1
<1>3. TypedHw(g) /\ Held(g, f, c, m, a, n, w)  BY <1>2, AcceleratorBroken
<1> HIDE DEF ops
<1>4. g[Mode] = IF r = "Hardware" THEN "Radio" ELSE "BasebandRadio"
  BY <1>1, AllDone, PlacesAre
<1> HIDE DEF g
<1>5. Held(g, f, c, m, r, n, u)
  <2>1. \A x : x \in u /\ x # "accelerator" => x \in w  OBVIOUS
  <2> HIDE DEF w
  <2> QED BY <1>3, <1>4, <2>1 DEF Held
<1> QED BY <1>3, <1>5 DEF g, ops

LEMMA AntennaBroken ==
  ASSUME NEW h, NEW f, NEW c, NEW m, NEW a, NEW n, NEW s,
         TypedHw(h), Held(h, f, c, m, a, n, s),
         NEW r \in Antennas, NEW k \in 0..Len(SelectWrites(r)), NEW u,
         u \subseteq s \ {"antenna"}
  PROVE  LET g == Applied(h, SelectWrites(r), k)
         IN TypedHw(g) /\ Held(g, f, c, m, a, r, u)
<1> DEFINE ops == SelectWrites(r)
           g == Applied(h, ops, k)
<1>1. ops \in Seq(Writes) /\ PlacesIn(ops) \subseteq {Pin("ant_24")}
  BY ApplyAnt24Writes DEF SelectWrites
<1>2. k \in 0..Len(ops)  OBVIOUS
<1> HIDE DEF ops
<1>3. TypedHw(g)  BY <1>1, <1>2, AppliedTyped
<1>4. \A P \in SUBSET Places : P \cap PlacesIn(ops) = {} => Agree(g, h, P)
  BY <1>1, <1>2, Untouched
<1> HIDE DEF g
<1>5. BandOf(f) \in Bands /\ Pin("ant_24") \in PinPlaces  BY BandsAre DEF PinPlaces
<1>6. /\ ChannelPlaces(BandOf(f)) \subseteq Places /\ ModulationPlaces \subseteq Places
      /\ OnPlaces \subseteq Places /\ Mode \in Places
      /\ (ChannelPlaces(BandOf(f)) \cup ModulationPlaces \cup OnPlaces \cup {Mode})
            \cap {Pin("ant_24")} = {}
  BY <1>5, Apart
<1>7. /\ Agree(g, h, ChannelPlaces(BandOf(f))) /\ Agree(g, h, ModulationPlaces)
      /\ Agree(g, h, OnPlaces) /\ Agree(g, h, {Mode})
  BY <1>1, <1>4, <1>6
<1>8. Agree(g, h, {Pin("v1"), Pin("v2")})
  <2>1. /\ {Pin("v1"), Pin("v2")} \subseteq Places
        /\ {Pin("v1"), Pin("v2")} \cap {Pin("ant_24")} = {}
    BY PlacesAre, PlacesDiffer
  <2> QED BY <1>1, <1>4, <2>1
<1>9. "on" \in u => \A b \in Bands : BandOn(g, b)
  BY <1>7 DEF Agree, OnPlaces, BandOn, Held
<1>10. Held(g, f, c, m, a, n, u)
  <2>1. "antenna" \notin u /\ u \subseteq s /\ g[Mode] = h[Mode]  BY <1>7 DEF Agree
  <2> QED BY <1>7, <1>8, <1>9, <2>1, StillHeld
<1>11. Held(g, f, c, m, a, r, u)
  <2>1. "antenna" \notin u  OBVIOUS
  <2> QED BY <1>10, <2>1 DEF Held
<1> QED BY <1>3, <1>11 DEF g, ops

LEMMA AntennaDone ==
  ASSUME NEW h, NEW f, NEW c, NEW m, NEW a, NEW n, NEW s,
         TypedHw(h), Held(h, f, c, m, a, n, s),
         NEW r \in Antennas, NEW u, u \subseteq s \cup {"antenna"}
  PROVE  LET g == Applied(h, SelectWrites(r), Len(SelectWrites(r)))
         IN TypedHw(g) /\ Held(g, f, c, m, a, r, u)
<1> DEFINE ops == SelectWrites(r)
           k == Len(ops)
           g == Applied(h, ops, k)
           w == u \ {"antenna"}
<1>1. ops \in Seq(Writes) /\ (HasAnt24 => Leaves(ops, Pin("ant_24"), AntennaPin(r)))
  BY ApplyAnt24Writes DEF SelectWrites
<1>2. k \in 0..Len(ops)  BY <1>1
<1>3. TypedHw(g) /\ Held(g, f, c, m, a, r, w)  BY <1>2, AntennaBroken
<1> HIDE DEF ops
<1>4. HasAnt24 => g[Pin("ant_24")] = AntennaPin(r)  BY <1>1, AllDone, PlacesAre
<1> HIDE DEF g
<1>5. Held(g, f, c, m, a, r, u)
  <2>1. \A x : x \in u /\ x # "antenna" => x \in w  OBVIOUS
  <2> HIDE DEF w
  <2> QED BY <1>3, <1>4, <2>1 DEF Held
<1> QED BY <1>3, <1>5 DEF g, ops

--------------------------------------------------------------------------------
(* Transmission and reception, which write only how a band is on: what they *)
(* did to it first, e, and then start_receive.                              *)
LEMMA Receiving ==
  ASSUME NEW h, NEW f, NEW c, NEW m, NEW a, NEW n, NEW s,
         TypedHw(h), Held(h, f, c, m, a, n, s),
         NEW e, TypedHw(e), Agree(e, h, Places \ OnPlaces),
         NEW k \in 0..Len(StartReceive(e)), NEW u, u \subseteq s,
         "on" \in u => k = Len(StartReceive(e)) /\ \A b \in Bands : e[At(b, "bben")] = "on"
  PROVE  LET g == Applied(e, StartReceive(e), k)
         IN TypedHw(g) /\ Held(g, f, c, m, a, n, u)
<1> DEFINE ops == StartReceive(e)
           g == Applied(e, ops, k)
<1>1. /\ ops \in Seq(Writes) /\ PlacesIn(ops) \subseteq StatePlaces
      /\ \A b \in Bands : \/ Leaves(ops, At(b, "state"), "Rx")
                          \/ e[At(b, "state")] = "Rx" /\ At(b, "state") \notin PlacesIn(ops)
  BY StartReceiveWrites
<1>2. k \in 0..Len(ops) /\ ("on" \in u => k = Len(ops))  OBVIOUS
<1> HIDE DEF ops
<1>3. TypedHw(g)  BY <1>1, <1>2, AppliedTyped
<1>4. \A P \in SUBSET Places : P \cap PlacesIn(ops) = {} => Agree(g, e, P)
  BY <1>1, <1>2, Untouched
<1>5. "on" \in u => \A p \in Places : \A v : Leaves(ops, p, v) => g[p] = v
  BY <1>1, <1>2, AllDone
<1> HIDE DEF g
<1>6. BandOf(f) \in Bands /\ StatePlaces \subseteq OnPlaces \cup {Nowhere}
  BY BandsAre, PlaceSets
<1>7. /\ ChannelPlaces(BandOf(f)) \subseteq Places /\ ModulationPlaces \subseteq Places
      /\ PinPlaces \subseteq Places /\ Mode \in Places
      /\ (ChannelPlaces(BandOf(f)) \cup PinPlaces \cup ModulationPlaces \cup {Mode})
            \cap (OnPlaces \cup {Nowhere}) = {}
  BY <1>6, Apart
<1>8. \A P \in SUBSET Places : P \cap (OnPlaces \cup {Nowhere}) = {} => Agree(g, h, P)
  <2> SUFFICES ASSUME NEW P \in SUBSET Places, P \cap (OnPlaces \cup {Nowhere}) = {}
               PROVE  Agree(g, h, P)
    OBVIOUS
  <2>1. Agree(g, e, P)  BY <1>1, <1>4, <1>6
  <2> QED BY <2>1 DEF Agree
<1>9. /\ Agree(g, h, ChannelPlaces(BandOf(f))) /\ Agree(g, h, ModulationPlaces)
      /\ Agree(g, h, PinPlaces) /\ Agree(g, h, {Mode})
  BY <1>7, <1>8
<1>10. /\ Agree(g, h, {Pin("v1"), Pin("v2")}) /\ g[Pin("ant_24")] = h[Pin("ant_24")]
       /\ g[Mode] = h[Mode]
  BY <1>9 DEF Agree, PinPlaces
<1>11. "on" \in u => \A b \in Bands : BandOn(g, b)
  <2> SUFFICES ASSUME "on" \in u, NEW b \in Bands PROVE BandOn(g, b)  OBVIOUS
  <2>1. At(b, "state") \in Places /\ At(b, "bben") \in Places
    BY PlacesAre DEF RegisterNames
  <2>2. At(b, "bben") \notin StatePlaces
    BY BandsAre, PlacesDiffer DEF RegisterNames, StatePlaces
  <2>3. Agree(g, e, {At(b, "bben")})  BY <1>1, <1>4, <2>1, <2>2
  <2>4. g[At(b, "bben")] = "on"  BY <2>3 DEF Agree
  <2>5. g[At(b, "state")] = "Rx"
    <3>1. CASE Leaves(ops, At(b, "state"), "Rx")  BY <1>5, <2>1, <3>1
    <3>2. CASE e[At(b, "state")] = "Rx" /\ At(b, "state") \notin PlacesIn(ops)
      <4>1. Agree(g, e, {At(b, "state")})  BY <1>4, <2>1, <3>2
      <4> QED BY <3>2, <4>1 DEF Agree
    <3> QED BY <1>1, <3>1, <3>2
  <2> QED BY <2>4, <2>5 DEF BandOn
<1>12. Held(g, f, c, m, a, n, u)  BY <1>9, <1>10, <1>11, StillHeld
<1> QED BY <1>3, <1>12 DEF g, ops

--------------------------------------------------------------------------------
(* create_radio. *)
LEMMA Defaults ==
  /\ DefaultConfig \in ConfigType /\ DefaultModulation \in ModulationType
  /\ BootModulation \in ModulationType /\ BootModulation.phy # "fsk"
<1>1. 1 <= 869 /\ 869 <= MaxFreq /\ MaxFreq \in Nat  BY DEF MaxFreq
<1>2. 1 <= 200 /\ 200 <= MaxSpacing /\ MaxSpacing \in Nat  BY DEF MaxSpacing
<1>3. \A x, y \in Nat : 1 <= x /\ x <= y => x \in 1..y  OBVIOUS
<1>4. 869 \in 1..MaxFreq /\ 200 \in 1..MaxSpacing  BY <1>1, <1>2, <1>3
<1>5. 10 \in Nat /\ 0 \in 0..2  OBVIOUS
<1>6. DefaultConfig \in ConfigType  BY <1>4, <1>5 DEF DefaultConfig, ConfigType
<1>7. DefaultModulation \in ModulationType  BY DEF DefaultModulation, ModulationType, Phys
<1>8. BootModulation \in ModulationType /\ BootModulation.phy # "fsk"
  BY DEF BootModulation, DefaultModulation, ModulationType, Phys
<1> QED BY <1>6, <1>7, <1>8

LEMMA BootAccepted ==
  ASSUME NEW i \in {0, 1}
  PROVE  /\ BootConfig(i) \in ConfigType /\ BandOf(BootConfig(i)) = "09"
         /\ Accepted("09", BootConfig(i))
<1> DEFINE n == (i + 1) * 5
<1>1. n \in {5, 10} /\ n \in Nat  OBVIOUS
<1>2. BootConfig(i) = [DefaultConfig EXCEPT !.channel = n]  BY DEF BootConfig
<1> HIDE DEF n
<1>3. BootConfig(i) \in ConfigType  BY <1>1, <1>2, Defaults DEF ConfigType
<1>4. BootConfig(i) = [freq |-> 869, spacing |-> 200, channel |-> n, filter |-> 0]
  BY <1>2 DEF DefaultConfig
<1>5. BootConfig(i).freq = 869 /\ BootConfig(i).spacing = 200 /\ BootConfig(i).channel = n
  BY <1>4
<1>6. BandOf(BootConfig(i)) = "09" /\ InBand("09", BootConfig(i).freq)
  BY <1>5 DEF BandOf, InBand
<1>7. n <= MaxChannel("09") /\ 200 \div 25 <= 255  BY <1>1 DEF MaxChannel
<1> QED BY <1>3, <1>5, <1>6, <1>7 DEF Accepted

(* What a register or a pin holds after a reset.                            *)
ResetAt(p) ==
  CASE p = Mode             -> "BasebandRadio"
    [] p[1] = "pin"         -> "low"
    [] p[2] = "state"       -> "TrxOff"
    [] p[2] = "bben"        -> "on"
    [] p[2] = "phy"         -> "off"
    [] p[2] \in {"mod", "tx", "rx"} -> <<>>
    [] OTHER                -> 0

LEMMA ResetRegister ==
  ASSUME NEW b \in Bands, NEW r \in RegisterNames
  PROVE  ResetAt(At(b, r)) \in ValuesOf(At(b, r))
<1> DEFINE p == At(b, r)
<1>1. p # Mode /\ p[1] # "pin" /\ p[2] = r  BY DEF At, Mode, Bands
<1>2. ValuesOf(p) = RegisterHolds(r)  BY RegisterValues
<1> HIDE DEF p
<1>3. CASE r = "state"
  <2>1. ResetAt(p) = "TrxOff"  BY <1>1, <1>3, Zenon DEF ResetAt
  <2>2. "TrxOff" \in RegisterHolds("state")  BY DEF RegisterHolds
  <2> QED BY <1>2, <1>3, <2>1, <2>2 DEF p
<1>4. CASE r = "bben"
  <2>1. ResetAt(p) = "on"  BY <1>1, <1>4, Zenon DEF ResetAt
  <2>2. "on" \in RegisterHolds("bben")  BY DEF RegisterHolds
  <2> QED BY <1>2, <1>4, <2>1, <2>2 DEF p
<1>5. CASE r = "phy"
  <2>1. ResetAt(p) = "off"  BY <1>1, <1>5, Zenon DEF ResetAt
  <2>2. "off" \in RegisterHolds("phy")  BY DEF RegisterHolds, Phys
  <2> QED BY <1>2, <1>5, <2>1, <2>2 DEF p
<1>6. CASE r \in {"mod", "tx", "rx"}
  <2>1. ResetAt(p) = <<>>
    <3>1. r # "state" /\ r # "bben" /\ r # "phy"  BY <1>6
    <3> QED BY <1>1, <1>6, <3>1, Zenon DEF ResetAt
  <2>2. <<>> \in OptionValues /\ <<>> \in FrontendValues  BY DEF OptionValues, FrontendValues
  <2>3. /\ RegisterHolds("mod") = OptionValues /\ RegisterHolds("tx") = FrontendValues
        /\ RegisterHolds("rx") = FrontendValues
    BY DEF RegisterHolds
  <2>4. <<>> \in RegisterHolds(r)  BY <1>6, <2>2, <2>3
  <2> QED BY <1>2, <2>1, <2>4 DEF p
<1>7. CASE r \in {"pac", "cs", "ccf0", "cnl", "cnm"}
  <2>1. ResetAt(p) = 0
    <3>1. /\ r # "state" /\ r # "bben" /\ r # "phy" /\ r \notin {"mod", "tx", "rx"}
      BY <1>7
    <3> QED BY <1>1, <3>1, Zenon DEF ResetAt
  <2>2. 0 \in U8 /\ 0 \in U16 /\ 0 \in 0..31  BY DEF U8, U16, Bits
  <2>3. /\ RegisterHolds("pac") = 0..31 /\ RegisterHolds("ccf0") = U16
        /\ RegisterHolds("cs") = U8 /\ RegisterHolds("cnl") = U8 /\ RegisterHolds("cnm") = U8
    BY DEF RegisterHolds
  <2>4. 0 \in RegisterHolds(r)  BY <1>7, <2>2, <2>3
  <2> QED BY <1>2, <2>1, <2>4 DEF p
<1> QED BY <1>3, <1>4, <1>5, <1>6, <1>7 DEF RegisterNames, p

LEMMA ResetPin ==
  ASSUME NEW q \in {"v1", "v2", "ant_24"}
  PROVE  ResetAt(Pin(q)) = "low" /\ Pin(q) \in Places
<1> DEFINE p == Pin(q)
<1>1. p # Mode /\ p[1] = "pin" /\ p[2] = q  BY DEF Pin, Mode
<1>2. /\ q # "state" /\ q # "bben" /\ q # "phy" /\ q \notin {"mod", "tx", "rx"}  OBVIOUS
<1> HIDE DEF p
<1>3. ResetAt(p) = "low"  BY <1>1, <1>2, Zenon DEF ResetAt
<1> QED BY <1>3, PlacesAre DEF p

LEMMA ResetMode == ResetAt(Mode) = "BasebandRadio"
<1>1. Mode[1] # "pin" /\ Mode[2] # "state" /\ Mode[2] # "bben" /\ Mode[2] # "phy"
      /\ Mode[2] \notin {"mod", "tx", "rx"}
  BY DEF Mode
<1> QED BY <1>1, Zenon DEF ResetAt

LEMMA ResetTyped ==
  /\ TypedHw(Reset) /\ Reset[Mode] = "BasebandRadio" /\ Reset[Pin("ant_24")] = "low"
<1>1. Reset = [p \in Places |-> ResetAt(p)]  BY DEF Reset, ResetAt
<1>2. ASSUME NEW p \in Places PROVE ResetAt(p) \in ValuesOf(p)
  <2>1. CASE \E b \in Bands, r \in RegisterNames : p = At(b, r)
    BY <2>1, ResetRegister
  <2>2. CASE \E q \in {"v1", "v2", "ant_24"} : p = Pin(q)
    <3>1. PICK q \in {"v1", "v2", "ant_24"} : p = Pin(q)  BY <2>2
    <3> QED BY <3>1, ResetPin, OtherValues
  <2>3. CASE p = Mode
    BY <2>3, ResetMode, OtherValues
  <2> QED BY <2>1, <2>2, <2>3 DEF Places, RegisterNames
<1>3. TypedHw(Reset)  BY <1>1, <1>2 DEF TypedHw
<1>4. Reset[Mode] = "BasebandRadio"  BY <1>1, ResetMode, PlacesAre
<1>5. Reset[Pin("ant_24")] = "low"  BY <1>1, ResetPin
<1> QED BY <1>3, <1>4, <1>5

BootSure == {"accelerator", "antenna", "channel", "on"}

LEMMA BootHeld ==
  ASSUME NEW i \in {0, 1}
  PROVE  LET g == Applied(Reset, Boot(i), Len(Boot(i)))
         IN TypedHw(g) /\ Held(g, BootConfig(i), DefaultConfig, DefaultModulation,
                               "Native", "Internal", BootSure)
<1> DEFINE c == BootConfig(i)
           s1 == SetFrequency("09", DefaultConfig)
           s2 == SetFrequency("09", c)
           s3 == Configure(BootModulation)
           s12 == s1 \o s2
           ops == s12 \o s3
           g == Applied(Reset, ops, Len(ops))
           CP == ChannelPlaces("09") \cup {At("09", "state"), Nowhere}
<1>1. "09" \in Bands /\ At("09", "state") \in OnPlaces  BY BandsAre DEF OnPlaces
<1>2. s1 \in Seq(Writes) /\ PlacesIn(s1) \subseteq CP
  BY <1>1, Defaults, SetFrequencyWrites
<1>3. c \in ConfigType /\ BandOf(c) = "09" /\ Accepted("09", c)  BY BootAccepted
<1> HIDE DEF c
<1>4. s2 \in Seq(Writes) /\ PlacesIn(s2) \subseteq CP /\ LeavesChannel(s2, "09", c)
  BY <1>1, <1>3, SetFrequencyWrites
<1>5. /\ s3 \in Seq(Writes) /\ ChannelPlaces("09") \cap PlacesIn(s3) = {}
      /\ PinPlaces \cap PlacesIn(s3) = {} /\ Mode \notin PlacesIn(s3)
      /\ \A b \in Bands : LeavesOn(s3, b)
  BY <1>1, Defaults, ModulationPlacesIn, ConfigureWrites
<1>6. Boot(i) = ops  BY DEF Boot, c
<1> HIDE DEF s1, s2, s3
<1>7. /\ s12 \in Seq(Writes) /\ PlacesIn(s12) \subseteq CP
      /\ \A p, v : Leaves(s2, p, v) => Leaves(s12, p, v)
  BY <1>2, <1>4, Concat
<1> HIDE DEF s12
<1>8. /\ ops \in Seq(Writes) /\ PlacesIn(ops) = PlacesIn(s12) \cup PlacesIn(s3)
      /\ \A p, v : Leaves(s3, p, v) => Leaves(ops, p, v)
      /\ \A p, v : p \notin PlacesIn(s3) /\ Leaves(s12, p, v) => Leaves(ops, p, v)
  BY <1>5, <1>7, Concat
<1> HIDE DEF ops
<1>9. TypedHw(g) /\ \A p \in Places : \A v : Leaves(ops, p, v) => g[p] = v
  BY <1>8, AllDone, ResetTyped
<1>10. \A P \in SUBSET Places : P \cap PlacesIn(ops) = {} => Agree(g, Reset, P)
  <2>1. Len(ops) \in 0..Len(ops)  BY <1>8
  <2> QED BY <1>8, <2>1, Untouched, ResetTyped
<1> HIDE DEF g
<1>11. ChannelHeld(g, c)
  <2>1. /\ Leaves(s2, At("09", "cs"), c.spacing \div 25)
        /\ Leaves(s2, At("09", "ccf0"), (c.freq - Offset("09")) * 40)
        /\ Leaves(s2, At("09", "cnl"), c.channel % 256)
        /\ Leaves(s2, At("09", "cnm"), c.channel \div 256)
    BY <1>4 DEF LeavesChannel
  <2>2. \A p \in ChannelPlaces("09") : \A v : Leaves(s2, p, v) => g[p] = v
    <3>1. ChannelPlaces("09") \subseteq Places  BY <1>1, Apart
    <3> QED BY <1>5, <1>7, <1>8, <1>9, <3>1
  <2>3. ChannelPlaces("09") = {At("09", "cs"), At("09", "ccf0"), At("09", "cnl"), At("09", "cnm")}
    BY DEF ChannelPlaces
  <2>4. /\ g[At("09", "cs")] = c.spacing \div 25 /\ g[At("09", "ccf0")] = (c.freq - Offset("09")) * 40
        /\ g[At("09", "cnl")] = c.channel % 256 /\ g[At("09", "cnm")] = c.channel \div 256
    BY <2>1, <2>2, <2>3
  <2> QED BY <1>3, <2>4 DEF ChannelHeld
<1>12. \A b \in Bands : BandOn(g, b)
  <2> SUFFICES ASSUME NEW b \in Bands PROVE BandOn(g, b)  OBVIOUS
  <2>1. At(b, "state") \in Places /\ At(b, "bben") \in Places  BY PlacesAre DEF RegisterNames
  <2>2. Leaves(ops, At(b, "state"), "Rx") /\ Leaves(ops, At(b, "bben"), "on")
    BY <1>5, <1>8 DEF LeavesOn
  <2> QED BY <1>9, <2>1, <2>2 DEF BandOn
<1>13. Mode \notin PlacesIn(ops) /\ Pin("ant_24") \notin PlacesIn(ops)
  <2>1. Mode \notin CP /\ PinPlaces \cap CP = {}  BY <1>1, Apart
  <2> QED BY <1>5, <1>7, <1>8, <2>1 DEF PinPlaces
<1>14. g[Mode] = "BasebandRadio" /\ g[Pin("ant_24")] = "low"
  <2>1. Agree(g, Reset, {Mode}) /\ Agree(g, Reset, {Pin("ant_24")})
    BY <1>10, <1>13, PlacesAre
  <2> QED BY <2>1, ResetTyped DEF Agree
<1>15. Held(g, c, DefaultConfig, DefaultModulation, "Native", "Internal", BootSure)
  BY <1>11, <1>12, <1>14 DEF Held, BootSure, AntennaPin
<1> QED BY <1>6, <1>9, <1>15 DEF g, c

--------------------------------------------------------------------------------
(* The invariant. *)
RadioInv(h, f, c, m, a, n, s) ==
  TypedHw(h) /\ Remembered(f, c, m, a, n) /\ Held(h, f, c, m, a, n, s)

Inv ==
  /\ DOMAIN hw = Modules /\ DOMAIN freq_config = Modules /\ DOMAIN config = Modules
  /\ DOMAIN modulation = Modules /\ DOMAIN accelerator = Modules /\ DOMAIN ant_24_sel = Modules
  /\ DOMAIN sure = Modules
  /\ fpga \in {"low", "high"} /\ faults \in 0..MaxFaults
  /\ \A i \in Modules : RadioInv(hw[i], freq_config[i], config[i], modulation[i],
                                 accelerator[i], ant_24_sel[i], sure[i])

(* A step changes what is kept of one radio at most.                        *)
Only(i, f, g) == DOMAIN g = DOMAIN f /\ \A j \in DOMAIN f : j # i => g[j] = f[j]

LEMMA OnlyOne ==
  ASSUME NEW f, NEW i \in DOMAIN f, NEW x
  PROVE  Only(i, f, f) /\ Only(i, f, [f EXCEPT ![i] = x]) /\ [f EXCEPT ![i] = x][i] = x
  BY DEF Only

LEMMA StepAt ==
  ASSUME Inv, NEW i \in Modules, fpga' \in {"low", "high"}, faults' \in 0..MaxFaults,
         Only(i, hw, hw'), Only(i, freq_config, freq_config'), Only(i, config, config'),
         Only(i, modulation, modulation'), Only(i, accelerator, accelerator'),
         Only(i, ant_24_sel, ant_24_sel'), Only(i, sure, sure'),
         RadioInv(hw'[i], freq_config'[i], config'[i], modulation'[i],
                  accelerator'[i], ant_24_sel'[i], sure'[i])
  PROVE  Inv'
<1>1. /\ DOMAIN hw' = Modules /\ DOMAIN freq_config' = Modules /\ DOMAIN config' = Modules
      /\ DOMAIN modulation' = Modules /\ DOMAIN accelerator' = Modules
      /\ DOMAIN ant_24_sel' = Modules /\ DOMAIN sure' = Modules
  BY DEF Inv, Only
<1>2. ASSUME NEW j \in Modules
      PROVE  RadioInv(hw'[j], freq_config'[j], config'[j], modulation'[j],
                      accelerator'[j], ant_24_sel'[j], sure'[j])
  <2>1. CASE j = i  BY <2>1
  <2>2. CASE j # i
    <3>1. /\ hw'[j] = hw[j] /\ freq_config'[j] = freq_config[j] /\ config'[j] = config[j]
          /\ modulation'[j] = modulation[j] /\ accelerator'[j] = accelerator[j]
          /\ ant_24_sel'[j] = ant_24_sel[j] /\ sure'[j] = sure[j]
      BY <2>2 DEF Inv, Only
    <3>2. RadioInv(hw[j], freq_config[j], config[j], modulation[j],
                   accelerator[j], ant_24_sel[j], sure[j])
      BY DEF Inv
    <3> QED BY <3>1, <3>2
  <2> QED BY <2>1, <2>2
<1> QED BY <1>1, <1>2 DEF Inv

(* The requests, as the daemon receives them.                               *)
LEMMA ReceivedTyped ==
  ASSUME NEW via, NEW r \in Configs
  PROVE  Received(via, r) \in ConfigType
<1>1. r \in ConfigType  BY SettingsAssumption DEF ConfigType
<1> DEFINE ch == r.channel % 2^16
           fi == IF r.filter = 1 THEN 1 ELSE 0
<1>2. ch \in Nat
  <2>1. r.channel \in Nat  BY <1>1 DEF ConfigType
  <2>2. \A x \in Nat : x % 65536 \in Nat  OBVIOUS
  <2>3. 2^16 = 65536  OBVIOUS
  <2> QED BY <2>1, <2>2, <2>3
<1>3. fi \in 0..2  OBVIOUS
<1>4. FromProto(r) = [r EXCEPT !.channel = ch, !.filter = fi]  BY DEF FromProto
<1> HIDE DEF ch, fi
<1>5. FromProto(r) \in ConfigType  BY <1>1, <1>2, <1>3, <1>4 DEF ConfigType
<1> QED BY <1>1, <1>5 DEF Received

LEMMA ReceivedModulationTyped ==
  ASSUME NEW via, NEW r \in Modulations
  PROVE  ReceivedModulation(via, r) \in ModulationType
<1>1. r \in ModulationType  BY SettingsAssumption DEF ModulationType, Phys
<1> DEFINE op == OptionFromProto(r.opt)
           po == r.power % 2^8
<1>2. po \in Nat
  <2>1. r.power \in Nat  BY <1>1 DEF ModulationType
  <2>2. \A x \in Nat : x % 256 \in Nat  OBVIOUS
  <2>3. 2^8 = 256  OBVIOUS
  <2> QED BY <2>1, <2>2, <2>3
<1>3. op \in Nat
  <2>1. r.opt \in Nat  BY <1>1 DEF ModulationType
  <2> QED BY <2>1 DEF OptionFromProto
<1>4. ModulationFromProto(r) = [r EXCEPT !.opt = op, !.power = po]  BY DEF ModulationFromProto
<1> HIDE DEF op, po
<1>5. ModulationFromProto(r) \in ModulationType  BY <1>1, <1>2, <1>3, <1>4 DEF ModulationType
<1> QED BY <1>1, <1>5 DEF ReceivedModulation

LEMMA SetConfigKeeps ==
  ASSUME Inv, NEW via, NEW i \in Modules, NEW request \in Configs, SetConfig(via, i, request)
  PROVE  Inv'
<1> DEFINE c == Received(via, request)
           f == freq_config[i]
           ops == ConfigWrites(ant_24_sel[i], f, c)
           Switched(n) == IF HasAnt24 /\ n > 0 THEN {"antenna"} ELSE {}
           less == sure[i] \ {"pins", "channel", "on"}
<1>1. c \in ConfigType  BY ReceivedTyped
<1>2. /\ TypedHw(hw[i]) /\ Remembered(f, config[i], modulation[i], accelerator[i], ant_24_sel[i])
      /\ Held(hw[i], f, config[i], modulation[i], accelerator[i], ant_24_sel[i], sure[i])
  BY DEF Inv, RadioInv
<1>3. /\ i \in DOMAIN hw /\ i \in DOMAIN freq_config /\ i \in DOMAIN config
      /\ i \in DOMAIN modulation /\ i \in DOMAIN accelerator /\ i \in DOMAIN ant_24_sel
      /\ i \in DOMAIN sure
  BY DEF Inv
<1>4. Adjust(ant_24_sel[i], c) \o DriverSetFrequency(i, c) = ops
  BY DEF ConfigWrites, DriverWrites, DriverSetFrequency
<1>5. UNCHANGED <<fpga, modulation, accelerator, ant_24_sel>>  BY DEF SetConfig
<1>6. fpga' \in {"low", "high"} /\ faults \in 0..MaxFaults /\ MaxFaults \in Nat
  BY <1>5, SettingsAssumption DEF Inv
<1>7. CASE /\ Completes(i, ops) /\ ~(f # c /\ ~Accepted(BandOf(c), c))
           /\ freq_config' = [freq_config EXCEPT ![i] = c]
           /\ config' = [config EXCEPT ![i] = c]
           /\ Surer(i, {"set", "pins"} \cup Switched(1) \cup (IF f # c THEN {"channel"} ELSE {}))
  <2> DEFINE u == sure[i] \cup ({"set", "pins"} \cup Switched(1)
                                \cup (IF f # c THEN {"channel"} ELSE {}))
             g == Applied(hw[i], ops, Len(ops))
  <2>1. hw' = [hw EXCEPT ![i] = g] /\ faults' = faults  BY <1>7 DEF Completes, Does
  <2>2. sure' = [sure EXCEPT ![i] = u]  BY <1>7 DEF Surer
  <2>3. /\ u \subseteq sure[i] \cup {"set", "pins", "antenna", "channel"}
        /\ "channel" \in u => f # c \/ "channel" \in sure[i]
    OBVIOUS
  <2>4. f # c => Accepted(BandOf(c), c)  BY <1>7
  <2> HIDE DEF u
  <2>5. /\ TypedHw(g)
        /\ Remembered(c, c, modulation[i], accelerator[i], ant_24_sel[i])
        /\ Held(g, c, c, modulation[i], accelerator[i], ant_24_sel[i], u)
    BY <1>1, <1>2, <2>3, <2>4, ConfigDone
  <2> HIDE DEF g, c
  <2>6. RadioInv(hw'[i], freq_config'[i], config'[i], modulation'[i],
                 accelerator'[i], ant_24_sel'[i], sure'[i])
    BY <1>3, <1>5, <1>7, <2>1, <2>2, <2>5 DEF RadioInv
  <2>7. /\ Only(i, hw, hw') /\ Only(i, freq_config, freq_config') /\ Only(i, config, config')
        /\ Only(i, modulation, modulation') /\ Only(i, accelerator, accelerator')
        /\ Only(i, ant_24_sel, ant_24_sel') /\ Only(i, sure, sure')
    BY <1>3, <1>5, <1>7, <2>1, <2>2, OnlyOne
  <2> QED BY <1>6, <2>1, <2>6, <2>7, StepAt
<1>8. CASE \E k \in 0..Len(ops) : \E u :
             /\ hw' = [hw EXCEPT ![i] = Applied(hw[i], ops, k)]
             /\ faults' \in {faults, faults + 1} /\ (faults' = faults + 1 => faults < MaxFaults)
             /\ sure' = [sure EXCEPT ![i] = u] /\ u \subseteq less \cup {"antenna"}
             /\ "antenna" \in u /\ HasAnt24 /\ k = 0 => "antenna" \in sure[i]
             /\ UNCHANGED <<freq_config, config>>
  <2>0. PICK k \in 0..Len(ops) : \E u :
             /\ hw' = [hw EXCEPT ![i] = Applied(hw[i], ops, k)]
             /\ faults' \in {faults, faults + 1} /\ (faults' = faults + 1 => faults < MaxFaults)
             /\ sure' = [sure EXCEPT ![i] = u] /\ u \subseteq less \cup {"antenna"}
             /\ "antenna" \in u /\ HasAnt24 /\ k = 0 => "antenna" \in sure[i]
             /\ UNCHANGED <<freq_config, config>>
    BY <1>8
  <2>1. PICK u :
             /\ hw' = [hw EXCEPT ![i] = Applied(hw[i], ops, k)]
             /\ faults' \in {faults, faults + 1} /\ (faults' = faults + 1 => faults < MaxFaults)
             /\ sure' = [sure EXCEPT ![i] = u] /\ u \subseteq less \cup {"antenna"}
             /\ "antenna" \in u /\ HasAnt24 /\ k = 0 => "antenna" \in sure[i]
             /\ UNCHANGED <<freq_config, config>>
    BY <2>0
  <2> DEFINE g == Applied(hw[i], ops, k)
  <2>2. TypedHw(g) /\ Held(g, f, config[i], modulation[i], accelerator[i], ant_24_sel[i], u)
    BY <1>1, <1>2, <2>1, ConfigBroken
  <2>3. faults' \in 0..MaxFaults  BY <1>6, <2>1
  <2> HIDE DEF g, ops
  <2>4. hw' = [hw EXCEPT ![i] = g]  BY <2>1 DEF g
  <2>5. RadioInv(hw'[i], freq_config'[i], config'[i], modulation'[i],
                 accelerator'[i], ant_24_sel'[i], sure'[i])
    BY <1>2, <1>3, <1>5, <2>1, <2>2, <2>4 DEF RadioInv
  <2>6. /\ Only(i, hw, hw') /\ Only(i, freq_config, freq_config') /\ Only(i, config, config')
        /\ Only(i, modulation, modulation') /\ Only(i, accelerator, accelerator')
        /\ Only(i, ant_24_sel, ant_24_sel') /\ Only(i, sure, sure')
    <3>1. /\ sure' = [sure EXCEPT ![i] = u] /\ freq_config' = freq_config /\ config' = config
          /\ modulation' = modulation /\ accelerator' = accelerator /\ ant_24_sel' = ant_24_sel
      BY <1>5, <2>1
    <3> QED BY ONLY <1>3, <2>4, <3>1, OnlyOne
  <2> QED BY <1>6, <2>3, <2>5, <2>6, StepAt
<1> QED
  <2>0. ant_24_sel[i] \in Antennas  BY <1>2 DEF Remembered
  <2>1. ops \in Seq(Writes) /\ (HasAnt24 => Len(ops) # 0)
    <3>1. ops \in Seq(Writes) /\ (HasAnt24 => Leaves(ops, Pin("ant_24"), AntennaPin(ant_24_sel[i])))
      BY <1>1, <2>0, ConfigWritesLeave
    <3> HIDE DEF ops
    <3>2. ASSUME HasAnt24, Len(ops) = 0 PROVE FALSE
      <4>1. PICK k \in 1..Len(ops) : TRUE  BY <3>1, <3>2 DEF Leaves
      <4> QED BY <3>2, <4>1
    <3> QED BY <3>1, <3>2
  <2>2. Len(ops) \in Nat  BY <2>1
  <2>3. CASE Completes(i, ops) /\ (f # c /\ ~Accepted(BandOf(c), c))
             /\ sure' = [sure EXCEPT ![i] = (@ \ {"pins", "channel", "on"}) \cup Switched(1)]
             /\ UNCHANGED <<freq_config, config>>
    <3> DEFINE u == less \cup Switched(1)
    <3>1. hw' = [hw EXCEPT ![i] = Applied(hw[i], ops, Len(ops))] /\ faults' = faults
      BY <2>3 DEF Completes, Does
    <3>2. sure' = [sure EXCEPT ![i] = u] /\ u \subseteq less \cup {"antenna"}  BY <2>3
    <3>3. Len(ops) \in 0..Len(ops)  BY <2>2
    <3>4. UNCHANGED <<freq_config, config>>  BY <2>3
    <3>5. "antenna" \in u /\ HasAnt24 /\ Len(ops) = 0 => "antenna" \in sure[i]  BY <2>1
    <3>6. PICK k \in 0..Len(ops) : k = Len(ops)  BY <3>3
    <3>7. /\ hw' = [hw EXCEPT ![i] = Applied(hw[i], ops, k)]
          /\ "antenna" \in u /\ HasAnt24 /\ k = 0 => "antenna" \in sure[i]
      BY <3>1, <3>5, <3>6
    <3>8. faults' \in {faults, faults + 1} /\ (faults' = faults + 1 => faults < MaxFaults)
      BY <1>6, <3>1
    <3> HIDE DEF u, ops
    <3> QED BY <1>8, <3>2, <3>4, <3>6, <3>7, <3>8
  <2>4. CASE /\ \E n \in 0..(Len(ops) - 1) :
                  /\ Breaks(i, ops, n)
                  /\ sure' = [sure EXCEPT ![i] = (@ \ {"pins", "channel", "on"}) \cup Switched(n)]
             /\ UNCHANGED <<freq_config, config>>
    <3>1. PICK n \in 0..(Len(ops) - 1) :
             /\ Breaks(i, ops, n)
             /\ sure' = [sure EXCEPT ![i] = (@ \ {"pins", "channel", "on"}) \cup Switched(n)]
      BY <2>4
    <3> DEFINE u == less \cup Switched(n)
    <3>2. /\ hw' = [hw EXCEPT ![i] = Applied(hw[i], ops, n)] /\ faults' = faults + 1
          /\ faults < MaxFaults
      BY <3>1 DEF Breaks, Does
    <3>3. /\ sure' = [sure EXCEPT ![i] = u] /\ u \subseteq less \cup {"antenna"}
          /\ "antenna" \in u /\ HasAnt24 /\ n = 0 => "antenna" \in sure[i]
      BY <3>1
    <3>4. n \in 0..Len(ops)  BY <2>2
    <3>5. UNCHANGED <<freq_config, config>>  BY <2>4
    <3> HIDE DEF u
    <3> QED BY <1>8, <3>2, <3>3, <3>4, <3>5
  <2> QED BY <1>4, <1>7, <2>3, <2>4 DEF SetConfig

LEMMA SetModulationKeeps ==
  ASSUME Inv, NEW via, NEW i \in Modules, NEW request \in Modulations,
         SetModulation(via, i, request)
  PROVE  Inv'
<1> DEFINE m == ReceivedModulation(via, request)
           ops == Configure(m)
           less == sure[i] \ {"modulation", "on"}
           more == sure[i] \cup {"modulation", "on"}
<1>1. m \in ModulationType  BY ReceivedModulationTyped
<1>2. /\ TypedHw(hw[i])
      /\ Remembered(freq_config[i], config[i], modulation[i], accelerator[i], ant_24_sel[i])
      /\ Held(hw[i], freq_config[i], config[i], modulation[i], accelerator[i], ant_24_sel[i], sure[i])
  BY DEF Inv, RadioInv
<1>3. i \in DOMAIN hw /\ i \in DOMAIN modulation /\ i \in DOMAIN sure  BY DEF Inv
<1>4. UNCHANGED <<fpga, freq_config, config, accelerator, ant_24_sel>>  BY DEF SetModulation
<1>5. fpga' \in {"low", "high"} /\ faults \in 0..MaxFaults /\ MaxFaults \in Nat
  BY <1>4, SettingsAssumption DEF Inv
<1>6. i \in DOMAIN freq_config /\ i \in DOMAIN config /\ i \in DOMAIN accelerator
      /\ i \in DOMAIN ant_24_sel
  BY DEF Inv
<1>7. ops \in Seq(Writes) /\ Len(ops) \in 0..Len(ops)
  <2>1. ops \in Seq(Writes)  BY <1>1, ConfigureWrites
  <2> QED BY <2>1
<1>8. CASE Completes(i, ops) /\ m.phy # "fsk" /\ modulation' = [modulation EXCEPT ![i] = m]
           /\ Surer(i, {"modulation", "on"})
  <2> DEFINE g == Applied(hw[i], ops, Len(ops))
  <2>1. hw' = [hw EXCEPT ![i] = g] /\ faults' = faults  BY <1>8 DEF Completes, Does
  <2>2. sure' = [sure EXCEPT ![i] = more] /\ modulation' = [modulation EXCEPT ![i] = m]
    BY <1>8 DEF Surer
  <2>3. TypedHw(g) /\ Held(g, freq_config[i], config[i], m, accelerator[i], ant_24_sel[i], more)
    BY <1>1, <1>2, <1>8, ModulationDone
  <2> HIDE DEF g, m, ops, more
  <2>4. RadioInv(hw'[i], freq_config'[i], config'[i], modulation'[i],
                 accelerator'[i], ant_24_sel'[i], sure'[i])
    BY <1>1, <1>2, <1>3, <1>4, <2>1, <2>2, <2>3 DEF RadioInv, Remembered
  <2>5. /\ Only(i, hw, hw') /\ Only(i, freq_config, freq_config') /\ Only(i, config, config')
        /\ Only(i, modulation, modulation') /\ Only(i, accelerator, accelerator')
        /\ Only(i, ant_24_sel, ant_24_sel') /\ Only(i, sure, sure')
    BY <1>3, <1>4, <1>6, <2>1, <2>2, OnlyOne
  <2> QED BY <1>5, <2>1, <2>4, <2>5, StepAt
<1>9. CASE \E k \in 0..Len(ops) :
             /\ hw' = [hw EXCEPT ![i] = Applied(hw[i], ops, k)] /\ faults' \in 0..MaxFaults
             /\ sure' = [sure EXCEPT ![i] = less] /\ modulation' = modulation
  <2>1. PICK k \in 0..Len(ops) :
             /\ hw' = [hw EXCEPT ![i] = Applied(hw[i], ops, k)] /\ faults' \in 0..MaxFaults
             /\ sure' = [sure EXCEPT ![i] = less] /\ modulation' = modulation
    BY <1>9
  <2> DEFINE g == Applied(hw[i], ops, k)
  <2>2. /\ TypedHw(g)
        /\ Held(g, freq_config[i], config[i], modulation[i], accelerator[i], ant_24_sel[i], less)
    BY <1>1, <1>2, ModulationBroken
  <2>3. hw' = [hw EXCEPT ![i] = g]  BY <2>1
  <2> HIDE DEF g, ops, less, m
  <2>4. RadioInv(hw'[i], freq_config'[i], config'[i], modulation'[i],
                 accelerator'[i], ant_24_sel'[i], sure'[i])
    BY <1>2, <1>3, <1>4, <2>1, <2>2, <2>3 DEF RadioInv
  <2>5. /\ Only(i, hw, hw') /\ Only(i, freq_config, freq_config') /\ Only(i, config, config')
        /\ Only(i, modulation, modulation') /\ Only(i, accelerator, accelerator')
        /\ Only(i, ant_24_sel, ant_24_sel') /\ Only(i, sure, sure')
    <3>1. /\ sure' = [sure EXCEPT ![i] = less] /\ freq_config' = freq_config /\ config' = config
          /\ modulation' = modulation /\ accelerator' = accelerator /\ ant_24_sel' = ant_24_sel
      BY <1>4, <2>1
    <3> QED BY ONLY <1>3, <1>6, <2>3, <3>1, OnlyOne
  <2> QED BY <1>5, <2>1, <2>4, <2>5, StepAt
<1> HIDE DEF ops, less
<1>10. CASE Completes(i, ops) /\ LessSure(i, {"modulation", "on"}) /\ UNCHANGED modulation
  <2>1. PICK k \in 0..Len(ops) : k = Len(ops)  BY <1>7
  <2>2. hw' = [hw EXCEPT ![i] = Applied(hw[i], ops, k)] /\ faults' \in 0..MaxFaults
    BY <1>5, <1>10, <2>1 DEF Completes, Does
  <2>3. sure' = [sure EXCEPT ![i] = less]  BY <1>10 DEF LessSure, less
  <2> QED BY <1>9, <1>10, <2>2, <2>3
<1>11. CASE (\E n \in 0..(Len(ops) - 1) : Breaks(i, ops, n)) /\ LessSure(i, {"modulation", "on"})
            /\ UNCHANGED modulation
  <2>1. PICK n \in 0..(Len(ops) - 1) : Breaks(i, ops, n)  BY <1>11
  <2>2. n \in 0..Len(ops)  BY <1>7
  <2>3. hw' = [hw EXCEPT ![i] = Applied(hw[i], ops, n)] /\ faults' \in 0..MaxFaults
    BY <1>5, <2>1 DEF Breaks, Does
  <2>4. sure' = [sure EXCEPT ![i] = less]  BY <1>11 DEF LessSure, less
  <2> QED BY <1>9, <1>11, <2>2, <2>3, <2>4
<1> QED BY <1>8, <1>10, <1>11 DEF SetModulation, ops

LEMMA SetAcceleratorKeeps ==
  ASSUME Inv, NEW via, NEW i \in Modules, NEW a \in {"Native", "Hardware"},
         SetAccelerator(via, i, a)
  PROVE  Inv'
<1> DEFINE ops == ModeWrites(a)
           less == sure[i] \ {"accelerator"}
           more == sure[i] \cup {"accelerator"}
<1>1. /\ TypedHw(hw[i])
      /\ Remembered(freq_config[i], config[i], modulation[i], accelerator[i], ant_24_sel[i])
      /\ Held(hw[i], freq_config[i], config[i], modulation[i], accelerator[i], ant_24_sel[i], sure[i])
  BY DEF Inv, RadioInv
<1>2. /\ i \in DOMAIN hw /\ i \in DOMAIN freq_config /\ i \in DOMAIN config
      /\ i \in DOMAIN modulation /\ i \in DOMAIN accelerator /\ i \in DOMAIN ant_24_sel
      /\ i \in DOMAIN sure
  BY DEF Inv
<1>3. UNCHANGED <<freq_config, config, modulation, ant_24_sel>>  BY DEF SetAccelerator
<1>4. fpga \in {"low", "high"} /\ faults \in 0..MaxFaults /\ MaxFaults \in Nat
  BY SettingsAssumption DEF Inv
<1>5. CASE UNCHANGED <<hw, faults, fpga, accelerator, sure>>
  <2>1. UNCHANGED <<hw, fpga, freq_config, config, modulation, accelerator, ant_24_sel, faults, sure>>
    BY <1>3, <1>5
  <2> QED BY <2>1 DEF Inv
<1>6. CASE /\ Completes(i, ops) /\ fpga' = (IF HasFpga THEN FpgaWrite(a) ELSE fpga)
           /\ accelerator' = [accelerator EXCEPT ![i] = a] /\ Surer(i, {"accelerator"})
  <2> DEFINE g == Applied(hw[i], ops, Len(ops))
  <2>1. hw' = [hw EXCEPT ![i] = g] /\ faults' = faults  BY <1>6 DEF Completes, Does
  <2>2. sure' = [sure EXCEPT ![i] = more] /\ accelerator' = [accelerator EXCEPT ![i] = a]
    BY <1>6 DEF Surer
  <2>3. TypedHw(g) /\ Held(g, freq_config[i], config[i], modulation[i], a, ant_24_sel[i], more)
    BY <1>1, AcceleratorDone
  <2>4. fpga' \in {"low", "high"}  BY <1>4, <1>6 DEF FpgaWrite
  <2> HIDE DEF g, ops, more
  <2>5. RadioInv(hw'[i], freq_config'[i], config'[i], modulation'[i],
                 accelerator'[i], ant_24_sel'[i], sure'[i])
    BY <1>1, <1>2, <1>3, <2>1, <2>2, <2>3 DEF RadioInv, Remembered
  <2>6. /\ Only(i, hw, hw') /\ Only(i, freq_config, freq_config') /\ Only(i, config, config')
        /\ Only(i, modulation, modulation') /\ Only(i, accelerator, accelerator')
        /\ Only(i, ant_24_sel, ant_24_sel') /\ Only(i, sure, sure')
    BY <1>2, <1>3, <2>1, <2>2, OnlyOne
  <2> QED BY <1>4, <2>1, <2>4, <2>5, <2>6, StepAt
<1>7. CASE (\E n \in 0..Len(ops) : Breaks(i, ops, n)) /\ LessSure(i, {"accelerator"})
           /\ UNCHANGED <<fpga, accelerator>>
  <2>1. PICK n \in 0..Len(ops) : Breaks(i, ops, n)  BY <1>7
  <2> DEFINE g == Applied(hw[i], ops, n)
  <2>2. hw' = [hw EXCEPT ![i] = g] /\ faults' \in 0..MaxFaults
    BY <1>4, <2>1 DEF Breaks, Does
  <2>3. sure' = [sure EXCEPT ![i] = less] /\ fpga' = fpga /\ accelerator' = accelerator
    BY <1>7 DEF LessSure
  <2>4. /\ TypedHw(g)
        /\ Held(g, freq_config[i], config[i], modulation[i], accelerator[i], ant_24_sel[i], less)
    BY <1>1, AcceleratorBroken
  <2> HIDE DEF g, ops, less
  <2>5. RadioInv(hw'[i], freq_config'[i], config'[i], modulation'[i],
                 accelerator'[i], ant_24_sel'[i], sure'[i])
    BY <1>1, <1>2, <1>3, <2>2, <2>3, <2>4 DEF RadioInv
  <2>6. /\ Only(i, hw, hw') /\ Only(i, freq_config, freq_config') /\ Only(i, config, config')
        /\ Only(i, modulation, modulation') /\ Only(i, accelerator, accelerator')
        /\ Only(i, ant_24_sel, ant_24_sel') /\ Only(i, sure, sure')
    BY <1>2, <1>3, <2>2, <2>3, OnlyOne
  <2> QED BY <1>4, <2>2, <2>3, <2>5, <2>6, StepAt
<1> QED BY <1>5, <1>6, <1>7 DEF SetAccelerator

LEMMA SetAntennaKeeps ==
  ASSUME Inv, NEW via, NEW i \in Modules, NEW b \in Bands, NEW a \in Antennas,
         SetAntenna(via, i, b, a)
  PROVE  Inv'
<1> DEFINE ops == SelectWrites(a)
           less == sure[i] \ {"antenna"}
           more == sure[i] \cup {"antenna"}
<1>1. /\ TypedHw(hw[i])
      /\ Remembered(freq_config[i], config[i], modulation[i], accelerator[i], ant_24_sel[i])
      /\ Held(hw[i], freq_config[i], config[i], modulation[i], accelerator[i], ant_24_sel[i], sure[i])
  BY DEF Inv, RadioInv
<1>2. /\ i \in DOMAIN hw /\ i \in DOMAIN freq_config /\ i \in DOMAIN config
      /\ i \in DOMAIN modulation /\ i \in DOMAIN accelerator /\ i \in DOMAIN ant_24_sel
      /\ i \in DOMAIN sure
  BY DEF Inv
<1>3. UNCHANGED <<fpga, freq_config, config, modulation, accelerator>>  BY DEF SetAntenna
<1>4. fpga' \in {"low", "high"} /\ faults \in 0..MaxFaults /\ MaxFaults \in Nat
  BY <1>3, SettingsAssumption DEF Inv
<1>5. CASE UNCHANGED <<hw, faults, ant_24_sel, sure>>
  <2>1. UNCHANGED <<hw, fpga, freq_config, config, modulation, accelerator, ant_24_sel, faults, sure>>
    BY <1>3, <1>5
  <2> QED BY <2>1 DEF Inv
<1>6. CASE ant_24_sel' = [ant_24_sel EXCEPT ![i] = a] /\ Completes(i, ops) /\ Surer(i, {"antenna"})
  <2> DEFINE g == Applied(hw[i], ops, Len(ops))
  <2>1. hw' = [hw EXCEPT ![i] = g] /\ faults' = faults  BY <1>6 DEF Completes, Does
  <2>2. sure' = [sure EXCEPT ![i] = more] /\ ant_24_sel' = [ant_24_sel EXCEPT ![i] = a]
    BY <1>6 DEF Surer
  <2>3. TypedHw(g) /\ Held(g, freq_config[i], config[i], modulation[i], accelerator[i], a, more)
    BY <1>1, AntennaDone
  <2> HIDE DEF g, ops, more
  <2>4. RadioInv(hw'[i], freq_config'[i], config'[i], modulation'[i],
                 accelerator'[i], ant_24_sel'[i], sure'[i])
    BY <1>1, <1>2, <1>3, <2>1, <2>2, <2>3 DEF RadioInv, Remembered
  <2>5. /\ Only(i, hw, hw') /\ Only(i, freq_config, freq_config') /\ Only(i, config, config')
        /\ Only(i, modulation, modulation') /\ Only(i, accelerator, accelerator')
        /\ Only(i, ant_24_sel, ant_24_sel') /\ Only(i, sure, sure')
    BY <1>2, <1>3, <2>1, <2>2, OnlyOne
  <2> QED BY <1>4, <2>1, <2>4, <2>5, StepAt
<1>7. CASE /\ ant_24_sel' = [ant_24_sel EXCEPT ![i] = a] /\ HasAnt24 /\ Breaks(i, ops, 0)
           /\ LessSure(i, {"antenna"})
  <2>0. PICK k \in 0..Len(ops) : k = 0
    <3>1. ops \in Seq(Writes)  BY ApplyAnt24Writes DEF SelectWrites
    <3>2. Len(ops) \in Nat  BY <3>1
    <3> QED BY <3>2
  <2> DEFINE g == Applied(hw[i], ops, k)
  <2>1. hw' = [hw EXCEPT ![i] = g] /\ faults' \in 0..MaxFaults
    BY <1>4, <1>7, <2>0 DEF Breaks, Does
  <2>2. sure' = [sure EXCEPT ![i] = less] /\ ant_24_sel' = [ant_24_sel EXCEPT ![i] = a]
    BY <1>7 DEF LessSure
  <2>3. TypedHw(g) /\ Held(g, freq_config[i], config[i], modulation[i], accelerator[i], a, less)
    BY <1>1, AntennaBroken
  <2> HIDE DEF g, ops, less
  <2>4. RadioInv(hw'[i], freq_config'[i], config'[i], modulation'[i],
                 accelerator'[i], ant_24_sel'[i], sure'[i])
    BY <1>1, <1>2, <1>3, <2>1, <2>2, <2>3 DEF RadioInv, Remembered
  <2>5. /\ Only(i, hw, hw') /\ Only(i, freq_config, freq_config') /\ Only(i, config, config')
        /\ Only(i, modulation, modulation') /\ Only(i, accelerator, accelerator')
        /\ Only(i, ant_24_sel, ant_24_sel') /\ Only(i, sure, sure')
    BY <1>2, <1>3, <2>1, <2>2, OnlyOne
  <2> QED BY <1>4, <2>1, <2>4, <2>5, StepAt
<1> QED BY <1>5, <1>6, <1>7 DEF SetAntenna

(* transmit and the end of receive.                                         *)
LEMMA ReceiveStep ==
  ASSUME Inv, NEW i \in Modules,
         UNCHANGED <<fpga, freq_config, config, modulation, accelerator, ant_24_sel>>,
         NEW e, TypedHw(e), Agree(e, hw[i], Places \ OnPlaces),
         NEW k \in 0..Len(StartReceive(e)), NEW u, u \subseteq sure[i],
         "on" \in u => k = Len(StartReceive(e)) /\ \A b \in Bands : e[At(b, "bben")] = "on",
         hw' = [hw EXCEPT ![i] = Applied(e, StartReceive(e), k)],
         sure' = [sure EXCEPT ![i] = u], faults' \in 0..MaxFaults
  PROVE  Inv'
<1> DEFINE g == Applied(e, StartReceive(e), k)
<1>1. /\ TypedHw(hw[i])
      /\ Remembered(freq_config[i], config[i], modulation[i], accelerator[i], ant_24_sel[i])
      /\ Held(hw[i], freq_config[i], config[i], modulation[i], accelerator[i], ant_24_sel[i], sure[i])
  BY DEF Inv, RadioInv
<1>2. /\ i \in DOMAIN hw /\ i \in DOMAIN freq_config /\ i \in DOMAIN config
      /\ i \in DOMAIN modulation /\ i \in DOMAIN accelerator /\ i \in DOMAIN ant_24_sel
      /\ i \in DOMAIN sure /\ fpga' \in {"low", "high"}
  BY DEF Inv
<1>3. TypedHw(g) /\ Held(g, freq_config[i], config[i], modulation[i], accelerator[i], ant_24_sel[i], u)
  BY <1>1, Receiving
<1>4. /\ hw' = [hw EXCEPT ![i] = g] /\ sure' = [sure EXCEPT ![i] = u]
      /\ freq_config' = freq_config /\ config' = config /\ modulation' = modulation
      /\ accelerator' = accelerator /\ ant_24_sel' = ant_24_sel
  OBVIOUS
<1> HIDE DEF g
<1>5. RadioInv(hw'[i], freq_config'[i], config'[i], modulation'[i],
               accelerator'[i], ant_24_sel'[i], sure'[i])
  BY <1>1, <1>2, <1>3, <1>4 DEF RadioInv
<1>6. /\ Only(i, hw, hw') /\ Only(i, freq_config, freq_config') /\ Only(i, config, config')
      /\ Only(i, modulation, modulation') /\ Only(i, accelerator, accelerator')
      /\ Only(i, ant_24_sel, ant_24_sel') /\ Only(i, sure, sure')
  BY ONLY <1>2, <1>4, OnlyOne
<1> QED BY <1>2, <1>5, <1>6, StepAt

LEMMA ThenStartReceiveKeeps ==
  ASSUME Inv, NEW i \in Modules,
         UNCHANGED <<fpga, freq_config, config, modulation, accelerator, ant_24_sel>>,
         NEW e, TypedHw(e), Agree(e, hw[i], Places \ OnPlaces),
         "on" \in sure[i] => \A b \in Bands : e[At(b, "bben")] = "on",
         ThenStartReceive(i, e)
  PROVE  Inv'
<1> DEFINE ops == StartReceive(e)
<1>1. ops \in Seq(Writes)  BY StartReceiveWrites
<1>2. faults \in 0..MaxFaults /\ MaxFaults \in Nat /\ i \in DOMAIN sure
  BY SettingsAssumption DEF Inv
<1>3. CASE hw' = [hw EXCEPT ![i] = Applied(e, ops, Len(ops))] /\ faults' = faults /\ LessSure(i, {})
  <2>1. PICK k \in 0..Len(ops) : k = Len(ops)  BY <1>1
  <2>2. sure' = [sure EXCEPT ![i] = sure[i]]  BY <1>2, <1>3 DEF LessSure
  <2> QED BY <1>2, <1>3, <2>1, <2>2, ReceiveStep
<1>4. CASE /\ faults < MaxFaults /\ faults' = faults + 1
           /\ \E n \in 0..(Len(ops) - 1) : hw' = [hw EXCEPT ![i] = Applied(e, ops, n)]
           /\ LessSure(i, {"on"})
  <2>1. PICK n \in 0..(Len(ops) - 1) : hw' = [hw EXCEPT ![i] = Applied(e, ops, n)]  BY <1>4
  <2>2. n \in 0..Len(ops)  BY <1>1
  <2> DEFINE u == sure[i] \ {"on"}
  <2>3. sure' = [sure EXCEPT ![i] = u]  BY <1>4 DEF LessSure
  <2>4. u \subseteq sure[i] /\ "on" \notin u  OBVIOUS
  <2>5. faults' \in 0..MaxFaults  BY <1>2, <1>4
  <2> HIDE DEF u
  <2> QED BY <2>1, <2>2, <2>3, <2>4, <2>5, ReceiveStep
<1> QED BY <1>3, <1>4 DEF ThenStartReceive

LEMMA OnPlaceValues ==
  ASSUME NEW b \in Bands
  PROVE  /\ At(b, "bben") \in Places /\ At(b, "state") \in Places
         /\ {At(b, "bben"), At(b, "state")} \subseteq OnPlaces
         /\ At(b, "bben") # At(b, "state")
         /\ ValuesOf(At(b, "bben")) = {"on", "off"}
         /\ ValuesOf(At(b, "state")) = {"TrxOff", "TrxPrep", "Rx"}
         /\ \A a \in Bands : At(a, "bben") # At(b, "state") /\ (At(a, "bben") = At(b, "bben") <=> a = b)
<1>1. "bben" \in RegisterNames /\ "state" \in RegisterNames  BY DEF RegisterNames
<1>2. RegisterHolds("bben") = {"on", "off"} /\ RegisterHolds("state") = {"TrxOff", "TrxPrep", "Rx"}
  BY DEF RegisterHolds
<1>3. {At(b, "bben"), At(b, "state")} \subseteq OnPlaces  BY DEF OnPlaces
<1> QED BY <1>1, <1>2, <1>3, PlacesAre, PlacesDiffer, RegisterValues

LEMMA TransmitKeeps ==
  ASSUME Inv, NEW via, NEW i \in Modules, Transmit(via, i)
  PROVE  Inv'
<1> DEFINE b == BandOf(freq_config[i])
<1>1. b \in Bands  BY BandsAre
<1>2. TypedHw(hw[i]) /\ i \in DOMAIN hw /\ faults \in 0..MaxFaults /\ MaxFaults \in Nat
  BY SettingsAssumption DEF Inv, RadioInv
<1>3. UNCHANGED <<fpga, freq_config, config, modulation, accelerator, ant_24_sel>>
  BY DEF Transmit
<1>4. "on" \in sure[i] => \A a \in Bands : hw[i][At(a, "bben")] = "on"
  BY DEF Inv, RadioInv, Held, BandOn
<1> HIDE DEF b
<1>5. ASSUME NEW v \in {"TrxPrep", "Rx"},
             ThenStartReceive(i, [hw[i] EXCEPT ![At(b, "bben")] = "on", ![At(b, "state")] = v])
      PROVE  Inv'
  <2> DEFINE e == [hw[i] EXCEPT ![At(b, "bben")] = "on", ![At(b, "state")] = v]
  <2>1. /\ DOMAIN e = Places
        /\ \A p \in Places : /\ p = At(b, "state") => e[p] = v
                             /\ p = At(b, "bben") => e[p] = "on"
                             /\ p \notin {At(b, "state"), At(b, "bben")} => e[p] = hw[i][p]
    BY <1>1, <1>2, OnPlaceValues DEF TypedHw
  <2>2. ThenStartReceive(i, e)  BY <1>5
  <2> HIDE DEF e
  <2>3. TypedHw(e)  BY <1>1, <1>2, <2>1, OnPlaceValues DEF TypedHw
  <2>4. Agree(e, hw[i], Places \ OnPlaces)  BY <1>1, <2>1, OnPlaceValues DEF Agree
  <2>5. "on" \in sure[i] => \A a \in Bands : e[At(a, "bben")] = "on"
    BY <1>1, <1>4, <2>1, OnPlaceValues
  <2> QED BY <1>3, <2>2, <2>3, <2>4, <2>5, ThenStartReceiveKeeps
<1>6. ASSUME faults < MaxFaults, faults' = faults + 1, LessSure(i, {"on"}),
             NEW ops \in {<<>>, Disable(b), Disable(b) \o Receive(b)},
             hw' = [hw EXCEPT ![i] = Applied(Applied(hw[i], ops, Len(ops)),
                                             StartReceive(Applied(hw[i], ops, Len(ops))),
                                             Len(StartReceive(Applied(hw[i], ops, Len(ops)))))]
      PROVE  Inv'
  <2> DEFINE e == Applied(hw[i], ops, Len(ops))
             u == sure[i] \ {"on"}
  <2>1. ops \in Seq(Writes) /\ PlacesIn(ops) \subseteq {At(b, "bben"), At(b, "state"), Nowhere}
    <3>1. Disable(b) \in Seq(Writes) /\ PlacesIn(Disable(b)) = {At(b, "bben")}
      BY <1>1, SwitchWrites
    <3>2. Receive(b) \in Seq(Writes) /\ PlacesIn(Receive(b)) = {At(b, "state"), Nowhere}
      BY <1>1, ReceiveWrites
    <3>3. /\ Disable(b) \o Receive(b) \in Seq(Writes)
          /\ PlacesIn(Disable(b) \o Receive(b)) = PlacesIn(Disable(b)) \cup PlacesIn(Receive(b))
      BY <3>1, <3>2, PlacesOfConcat
    <3>4. CASE ops = <<>>  BY <3>4, NoWrites
    <3>5. CASE ops = Disable(b)  BY <3>1, <3>5
    <3>6. CASE ops = Disable(b) \o Receive(b)  BY <3>1, <3>2, <3>3, <3>6
    <3> QED BY <3>4, <3>5, <3>6
  <2>2. TypedHw(e)  BY <1>2, <2>1, AllDone
  <2>3. Agree(e, hw[i], Places \ OnPlaces)
    <3>1. Nowhere \notin Places  BY DEF Nowhere, Places, At, Pin, Mode, Bands
    <3>2. (Places \ OnPlaces) \cap PlacesIn(ops) = {}  BY <1>1, <2>1, <3>1, OnPlaceValues
    <3>3. Len(ops) \in 0..Len(ops)  BY <2>1
    <3>4. Places \ OnPlaces \in SUBSET Places  OBVIOUS
    <3> QED BY <1>2, <2>1, <3>2, <3>3, <3>4, Untouched
  <2>4. hw' = [hw EXCEPT ![i] = Applied(e, StartReceive(e), Len(StartReceive(e)))]  BY <1>6
  <2>5. sure' = [sure EXCEPT ![i] = u] /\ u \subseteq sure[i] /\ "on" \notin u
    BY <1>6 DEF LessSure
  <2>6. faults' \in 0..MaxFaults  BY <1>2, <1>6
  <2> HIDE DEF e, u
  <2>7. PICK k \in 0..Len(StartReceive(e)) : k = Len(StartReceive(e))
    BY StartReceiveWrites
  <2> QED BY <1>3, <2>2, <2>3, <2>4, <2>5, <2>6, <2>7, ReceiveStep
<1>7. CASE \E ok \in BOOLEAN :
             ThenStartReceive(i, [hw[i] EXCEPT ![At(b, "bben")] = "on",
                                  ![At(b, "state")] = IF ok THEN "TrxPrep" ELSE "Rx"])
  <2>1. PICK ok \in BOOLEAN :
             ThenStartReceive(i, [hw[i] EXCEPT ![At(b, "bben")] = "on",
                                  ![At(b, "state")] = IF ok THEN "TrxPrep" ELSE "Rx"])
    BY <1>7
  <2> DEFINE v == IF ok THEN "TrxPrep" ELSE "Rx"
  <2>2. v \in {"TrxPrep", "Rx"}
        /\ ThenStartReceive(i, [hw[i] EXCEPT ![At(b, "bben")] = "on", ![At(b, "state")] = v])
    BY <2>1
  <2> HIDE DEF v
  <2> QED BY <1>5, <2>2
<1> QED BY <1>6, <1>7 DEF Transmit, b

LEMMA ListenKeeps ==
  ASSUME Inv, NEW i \in Modules, Listen(i)
  PROVE  Inv'
<1>1. TypedHw(hw[i])  BY DEF Inv, RadioInv
<1>2. UNCHANGED <<fpga, freq_config, config, modulation, accelerator, ant_24_sel>>
  BY DEF Listen
<1>3. "on" \in sure[i] => \A a \in Bands : hw[i][At(a, "bben")] = "on"
  BY DEF Inv, RadioInv, Held, BandOn
<1>4. PICK ended \in SUBSET Bands :
        ThenStartReceive(i, [p \in Places |-> IF \E b \in ended : p = At(b, "state") THEN "TrxPrep"
                                              ELSE hw[i][p]])
  BY DEF Listen
<1> DEFINE e == [p \in Places |-> IF \E b \in ended : p = At(b, "state") THEN "TrxPrep"
                                  ELSE hw[i][p]]
<1>5. TypedHw(e)
  <2> SUFFICES ASSUME NEW p \in Places PROVE e[p] \in ValuesOf(p)  BY DEF TypedHw
  <2>1. CASE \E b \in ended : p = At(b, "state")  BY <2>1, OnPlaceValues
  <2>2. CASE ~ \E b \in ended : p = At(b, "state")  BY <1>1, <2>2 DEF TypedHw
  <2> QED BY <2>1, <2>2
<1>6. Agree(e, hw[i], Places \ OnPlaces)  BY OnPlaceValues DEF Agree
<1>7. "on" \in sure[i] => \A a \in Bands : e[At(a, "bben")] = "on"
  <2> SUFFICES ASSUME "on" \in sure[i], NEW a \in Bands PROVE e[At(a, "bben")] = "on"
    OBVIOUS
  <2>1. At(a, "bben") \in Places /\ \A b \in ended : At(a, "bben") # At(b, "state")
    BY OnPlaceValues
  <2> QED BY <1>3, <2>1
<1> HIDE DEF e
<1> QED BY <1>2, <1>4, <1>5, <1>6, <1>7, ThenStartReceiveKeeps DEF e

--------------------------------------------------------------------------------
LEMMA InitHolds ==
  ASSUME Init
  PROVE  Inv
<1>1. ASSUME NEW i \in Modules
      PROVE  RadioInv(hw[i], freq_config[i], config[i], modulation[i],
                      accelerator[i], ant_24_sel[i], sure[i])
  <2>1. i \in {0, 1}  BY SettingsAssumption
  <2> DEFINE g == Applied(Reset, Boot(i), Len(Boot(i)))
  <2>2. TypedHw(g) /\ Held(g, BootConfig(i), DefaultConfig, DefaultModulation,
                           "Native", "Internal", BootSure)
    BY <2>1, BootHeld
  <2>3. Remembered(BootConfig(i), DefaultConfig, DefaultModulation, "Native", "Internal")
    BY <2>1, Defaults, BootAccepted DEF Remembered, Antennas
  <2>4. /\ hw[i] = g /\ freq_config[i] = BootConfig(i) /\ config[i] = DefaultConfig
        /\ modulation[i] = DefaultModulation /\ accelerator[i] = "Native"
        /\ ant_24_sel[i] = "Internal" /\ sure[i] = BootSure
    BY DEF Init, BootSure
  <2> HIDE DEF g
  <2> QED BY <2>2, <2>3, <2>4 DEF RadioInv
<1>2. /\ DOMAIN hw = Modules /\ DOMAIN freq_config = Modules /\ DOMAIN config = Modules
      /\ DOMAIN modulation = Modules /\ DOMAIN accelerator = Modules
      /\ DOMAIN ant_24_sel = Modules /\ DOMAIN sure = Modules
  BY DEF Init
<1>3. fpga \in {"low", "high"} /\ faults \in 0..MaxFaults  BY SettingsAssumption DEF Init
<1> QED BY <1>1, <1>2, <1>3 DEF Inv

LEMMA StepKeeps ==
  ASSUME Inv, [Next]_vars
  PROVE  Inv'
<1>1. ASSUME NEW i \in Modules, NEW via \in {"udp", "grpc"}, NEW c \in Configs,
             SetConfig(via, i, c)
      PROVE  Inv'
  BY <1>1, SetConfigKeeps
<1>2. ASSUME NEW i \in Modules, NEW via \in {"udp", "grpc"}, NEW m \in Modulations,
             SetModulation(via, i, m)
      PROVE  Inv'
  BY <1>2, SetModulationKeeps
<1>3. ASSUME NEW i \in Modules, NEW via \in {"udp", "grpc"}, NEW a \in {"Native", "Hardware"},
             SetAccelerator(via, i, a)
      PROVE  Inv'
  BY <1>3, SetAcceleratorKeeps
<1>4. ASSUME NEW i \in Modules, NEW via \in {"udp", "grpc"}, NEW b \in Bands,
             NEW a \in {"Internal", "External"}, SetAntenna(via, i, b, a)
      PROVE  Inv'
  <2>1. a \in Antennas  BY DEF Antennas
  <2> QED BY <1>4, <2>1, SetAntennaKeeps
<1>5. ASSUME NEW i \in Modules, NEW via \in {"udp", "grpc"}, Transmit(via, i)
      PROVE  Inv'
  BY <1>5, TransmitKeeps
<1>6. ASSUME NEW i \in Modules, Listen(i) PROVE Inv'  BY <1>6, ListenKeeps
<1>7. CASE NoSuchModule  BY <1>7 DEF NoSuchModule, Inv
<1>8. CASE UNCHANGED vars  BY <1>8 DEF vars, Inv
<1> QED BY <1>1, <1>2, <1>3, <1>4, <1>5, <1>6, <1>7, <1>8 DEF Next

(* The invariant of the settings' specification.                            *)
THEOREM Invariance == Spec => []Inv
<1>1. Init => Inv  BY InitHolds
<1>2. Inv /\ [Next]_vars => Inv'  BY StepKeeps
<1> QED BY <1>1, <1>2, PTL DEF Spec

--------------------------------------------------------------------------------
(* What follows from it. *)
LEMMA Interval ==
  ASSUME NEW n \in Nat
  PROVE  Bits(n) \subseteq 0..n
  BY DEF Bits

LEMMA TypeFollows ==
  ASSUME Inv
  PROVE  TypeOK
<1>1. ASSUME NEW i \in Modules
      PROVE  /\ hw[i][Mode] \in {"BasebandRadio", "Radio"}
             /\ Accepted(BandOf(freq_config[i]), freq_config[i])
  BY PlacesAre, OtherValues DEF Inv, RadioInv, TypedHw, Remembered
<1>2. ASSUME NEW i \in Modules, NEW b \in Bands
      PROVE  /\ hw[i][At(b, "state")] \in {"TrxOff", "TrxPrep", "Rx"}
             /\ hw[i][At(b, "bben")] \in {"on", "off"}
             /\ hw[i][At(b, "pac")] \in 0..31
             /\ hw[i][At(b, "ccf0")] \in 0..(2^16 - 1)
             /\ {hw[i][At(b, r)] : r \in {"cs", "cnl", "cnm"}} \subseteq 0..255
  <2>1. ASSUME NEW r \in RegisterNames PROVE hw[i][At(b, r)] \in RegisterHolds(r)
    <3>1. At(b, r) \in Places  BY PlacesAre
    <3>2. ValuesOf(At(b, r)) = RegisterHolds(r)  BY RegisterValues
    <3> QED BY <3>1, <3>2 DEF Inv, RadioInv, TypedHw
  <2>2. {"state", "bben", "pac", "ccf0", "cs", "cnl", "cnm"} \subseteq RegisterNames
    BY DEF RegisterNames
  <2>3. /\ RegisterHolds("state") = {"TrxOff", "TrxPrep", "Rx"}
        /\ RegisterHolds("bben") = {"on", "off"} /\ RegisterHolds("pac") = 0..31
        /\ RegisterHolds("ccf0") = U16
        /\ RegisterHolds("cs") = U8 /\ RegisterHolds("cnl") = U8 /\ RegisterHolds("cnm") = U8
    BY DEF RegisterHolds
  <2>4. U16 \subseteq 0..(2^16 - 1)
    <3> DEFINE n == 2^16 - 1
    <3>1. n = 65535  OBVIOUS
    <3>2. n \in Nat  BY <3>1
    <3>3. U16 = Bits(n)  BY <3>1 DEF U16
    <3> HIDE DEF n
    <3>4. U16 \subseteq 0..n  BY ONLY <3>2, <3>3, Interval
    <3> QED BY ONLY <3>4, Zenon DEF n
  <2>5. U8 \subseteq 0..255
    <3>1. PICK n \in Nat : n = 255  OBVIOUS
    <3>2. U8 \subseteq 0..n  BY ONLY <3>1, Interval DEF U8
    <3> QED BY <3>1, <3>2, Zenon
  <2>6. hw[i][At(b, "ccf0")] \in 0..(2^16 - 1)  BY <2>1, <2>2, <2>3, <2>4, Zenon
  <2>7. {hw[i][At(b, r)] : r \in {"cs", "cnl", "cnm"}} \subseteq 0..255
    <3>1. \A r \in {"cs", "cnl", "cnm"} : r \in RegisterNames /\ RegisterHolds(r) = U8
      BY <2>2, <2>3
    <3>2. \A r \in {"cs", "cnl", "cnm"} : hw[i][At(b, r)] \in U8
      BY ONLY <2>1, <3>1, Zenon
    <3> QED BY ONLY <3>2, <2>5, Zenon
  <2>8. /\ hw[i][At(b, "state")] \in {"TrxOff", "TrxPrep", "Rx"}
        /\ hw[i][At(b, "bben")] \in {"on", "off"} /\ hw[i][At(b, "pac")] \in 0..31
    BY <2>1, <2>2, <2>3, Zenon
  <2> QED BY <2>6, <2>7, <2>8, Zenon
<1>3. fpga \in {"low", "high"} /\ faults \in 0..MaxFaults  BY DEF Inv
<1> QED BY <1>1, <1>2, <1>3, Zenon DEF TypeOK

(* Each register holds what it has room for, and the driver remembers only  *)
(* a configuration that its band accepts.                                   *)
THEOREM TypeCorrect == Spec => []TypeOK
<1>1. Inv => TypeOK  BY TypeFollows
<1> QED BY <1>1, Invariance, PTL

LEMMA Gets ==
  ASSUME NEW i
  PROVE  /\ Get(i, "config") = config[i] /\ Get(i, "modulation") = modulation[i]
         /\ Get(i, "accelerator") = accelerator[i] /\ Get(i, "24") = ant_24_sel[i]
<1>1. Get(i, "config") = config[i]  BY Zenon DEF Get
<1>2. Get(i, "modulation") = modulation[i]  BY Zenon DEF Get
<1>3. Get(i, "accelerator") = accelerator[i]  BY Zenon DEF Get
<1>4. Get(i, "24") = ant_24_sel[i]  BY Zenon DEF Get
<1> QED BY <1>1, <1>2, <1>3, <1>4

LEMMA ChannelIsWritten ==
  ASSUME NEW h, NEW c, ChannelHeld(h, c), NEW k \in 1..4
  PROVE  LET w == ChannelWrites(BandOf(c), c)[k] IN h[w[1]] = w[2]
<1> DEFINE b == BandOf(c)
           ws == ChannelWrites(b, c)
<1>1. /\ ws[1] = <<At(b, "cs"), c.spacing \div 25>>
      /\ ws[2] = <<At(b, "ccf0"), (c.freq - Offset(b)) * 40>>
      /\ ws[3] = <<At(b, "cnl"), c.channel % 256>>
      /\ ws[4] = <<At(b, "cnm"), c.channel \div 256>>
  BY DEF ChannelWrites
<1>2. k \in {1, 2, 3, 4}  OBVIOUS
<1> HIDE DEF ws, b
<1>3. h[ws[k][1]] = ws[k][2]
  <2>1. CASE k = 1  BY <1>1, <2>1 DEF ChannelHeld, b
  <2>2. CASE k = 2  BY <1>1, <2>2 DEF ChannelHeld, b
  <2>3. CASE k = 3  BY <1>1, <2>3 DEF ChannelHeld, b
  <2>4. CASE k = 4  BY <1>1, <2>4 DEF ChannelHeld, b
  <2> QED BY <1>2, <2>1, <2>2, <2>3, <2>4
<1> QED BY <1>3 DEF ws, b

LEMMA FilterIsWritten ==
  ASSUME NEW h, NEW c, FilterHeld(h, c), NEW k \in DOMAIN FilterWrites(c)
  PROVE  LET w == FilterWrites(c)[k] IN h[w[1]] = w[2]
<1>1. CASE FilterPins(c) = <<>>
  <2>1. FilterWrites(c) = <<>>  BY <1>1 DEF FilterWrites
  <2>2. DOMAIN FilterWrites(c) = {}  BY <2>1
  <2> QED BY <2>2
<1>2. CASE FilterPins(c) # <<>>
  <2> DEFINE x == FilterPins(c)[1]
             y == FilterPins(c)[2]
  <2>1. FilterWrites(c) = << <<Pin("v1"), x>>, <<Pin("v2"), y>> >>  BY <1>2 DEF FilterWrites
  <2>2. h[Pin("v1")] = x /\ h[Pin("v2")] = y  BY <1>2 DEF FilterHeld
  <2> HIDE DEF x, y
  <2>3. k \in {1, 2}  BY <2>1
  <2>4. FilterWrites(c)[1] = <<Pin("v1"), x>> /\ FilterWrites(c)[2] = <<Pin("v2"), y>>  BY <2>1
  <2>5. CASE k = 1  BY <2>2, <2>4, <2>5
  <2>6. CASE k = 2  BY <2>2, <2>4, <2>6
  <2> QED BY <2>3, <2>5, <2>6
<1> QED BY <1>1, <1>2

LEMMA ReportFollows ==
  ASSUME Inv
  PROVE  AsReported
<1>1. ASSUME NEW i \in Modules
      PROVE  Held(hw[i], freq_config[i], config[i], modulation[i], accelerator[i],
                  ant_24_sel[i], sure[i])
  BY DEF Inv, RadioInv
<1>2. TunedAsReported
  <2> SUFFICES ASSUME NEW i \in Modules
               PROVE  LET c == freq_config[i]
                      IN /\ "set" \in sure[i] => Get(i, "config") = c
                         /\ "channel" \in sure[i] =>
                              \A k \in 1..4 : LET w == ChannelWrites(BandOf(c), c)[k]
                                              IN hw[i][w[1]] = w[2]
                         /\ {"set", "pins"} \subseteq sure[i] =>
                              \A k \in DOMAIN FilterWrites(c) :
                                LET w == FilterWrites(c)[k] IN hw[i][w[1]] = w[2]
    BY DEF TunedAsReported
  <2>1. "set" \in sure[i] => Get(i, "config") = freq_config[i]  BY <1>1, Gets DEF Held
  <2>2. ASSUME "channel" \in sure[i], NEW k \in 1..4
        PROVE  LET w == ChannelWrites(BandOf(freq_config[i]), freq_config[i])[k]
               IN hw[i][w[1]] = w[2]
    <3>1. ChannelHeld(hw[i], freq_config[i])  BY <1>1, <2>2 DEF Held
    <3> QED BY <3>1, ChannelIsWritten
  <2>3. ASSUME {"set", "pins"} \subseteq sure[i], NEW k \in DOMAIN FilterWrites(freq_config[i])
        PROVE  LET w == FilterWrites(freq_config[i])[k] IN hw[i][w[1]] = w[2]
    <3>1. FilterHeld(hw[i], freq_config[i])  BY <1>1, <2>3 DEF Held
    <3> QED BY <3>1, FilterIsWritten
  <2> QED BY <2>1, <2>2, <2>3, Zenon
<1>3. BothBandsModulated  BY <1>1, Gets DEF BothBandsModulated, Held, BandModulated, BandOn
<1>4. ModeAndAntennaFollow  BY <1>1, Gets DEF ModeAndAntennaFollow, Held
<1> QED BY <1>2, <1>3, <1>4 DEF AsReported

(* What get_modulation, get_accelerator and get_antenna tell is what the    *)
(* registers and the pins hold where the last attempt at that setting       *)
(* succeeded; what get_configuration tells is in the tuned band's registers *)
(* where no set_config was refused or cut short since one wrote them all.   *)
THEOREM SettingsAsReported == Spec => []AsReported
<1>1. Inv => AsReported  BY ReportFollows
<1> QED BY <1>1, Invariance, PTL
================================================================================
