--------------------------- MODULE MultiPart_proofs ---------------------------
(***************************************************************************)
(* Proofs about MultiPart.                                                 *)
(***************************************************************************)
EXTENDS MultiPart, WellFoundedInduction, SequenceTheorems, TLAPS

-----------------------------------------------------------------------------
(* Induction over the natural numbers, in terms of sets.                   *)

LEMMA LeastNat ==
  ASSUME NEW T \in SUBSET Nat, T # {}
  PROVE  \E x \in T : \A y \in T : x <= y
<1> DEFINE Less == {p \in Nat \X Nat : p[1] < p[2]}
<1>1. IsWellFoundedOn(Less, Nat)
  <2>1. OpToRel(<, Nat) = Less
    BY DEF OpToRel
  <2> QED
    BY <2>1, NatLessThanWellFounded
<1> HIDE DEF Less
<1>2. PICK x \in T : \A y \in T : ~(<<y, x>> \in Less)
  BY <1>1, WFMin
<1>3. ASSUME NEW y \in T PROVE x <= y
  <2>1. <<y, x>> \in Nat \X Nat /\ ~(<<y, x>> \in Less)
    BY <1>2
  <2> QED
    BY <2>1 DEF Less
<1> QED
  BY <1>3

LEMMA UpTo ==
  ASSUME NEW n \in Nat, NEW S, 0 \in S, \A i \in 0..(n - 1) : i \in S => i + 1 \in S
  PROVE  0..n \subseteq S
<1> DEFINE T == {i \in 0..n : i \notin S}
<1>1. SUFFICES ASSUME T # {} PROVE FALSE
  OBVIOUS
<1>2. PICK x \in T : \A y \in T : x <= y
  <2>1. T \in SUBSET Nat
    OBVIOUS
  <2> HIDE DEF T
  <2> QED
    BY <1>1, <2>1, LeastNat
<1>3. x # 0 /\ x \in 1..n
  BY <1>2
<1>4. x - 1 \notin T
  BY <1>2, <1>3
<1>5. x - 1 \in S /\ x - 1 \in 0..(n - 1)
  BY <1>3, <1>4
<1> QED
  BY <1>3, <1>5

-----------------------------------------------------------------------------
(* Where the parts of a table end.                                         *)

LEMMA ByteIsNat == \A x \in Byte : x \in Nat /\ x <= 255
BY DEF Byte

LEMMA PartsAreNat ==
  ASSUME NEW table \in Seq(Byte)
  PROVE  Len(table) \in Nat /\ \A p \in 1..Len(table) : table[p] \in Nat
BY LenProperties, ByteIsNat

LEMMA EndsAre ==
  ASSUME NEW table \in Seq(Byte)
  PROVE  /\ Ends(table) \in [0..Len(table) -> Nat]
         /\ Ends(table)[0] = 0
         /\ \A p \in 1..Len(table) : Ends(table)[p] = Ends(table)[p - 1] + table[p]
<1> DEFINE n == Len(table)
           Step(f, p) == IF p = 0 THEN 0 ELSE f[p - 1] + table[p]
<1>1. n \in Nat /\ \A p \in 1..n : table[p] \in Nat
  BY PartsAreNat
<1> HIDE DEF n
<1>2. \E f : f = [p \in 0..n |-> Step(f, p)]
  <2> DEFINE Good(m, f) == f[0] = 0 /\ \A p \in 1..m : f[p] = f[p - 1] + table[p]
             Has(m) == \E f \in [0..m -> Nat] : Good(m, f)
             S == {m \in 0..n : Has(m)}
  <2>1. 0 \in S
    <3>1. [p \in 0..0 |-> 0] \in [0..0 -> Nat] /\ Good(0, [p \in 0..0 |-> 0])
      OBVIOUS
    <3>2. Has(0)
      BY <3>1
    <3> HIDE DEF Has
    <3> QED
      BY <1>1, <3>2
  <2>2. ASSUME NEW m \in 0..(n - 1), m \in S PROVE m + 1 \in S
    <3>1. PICK f \in [0..m -> Nat] : Good(m, f)
      BY <2>2
    <3> DEFINE g == [p \in 0..(m + 1) |-> IF p = m + 1 THEN f[m] + table[m + 1] ELSE f[p]]
    <3>2. g \in [0..(m + 1) -> Nat] /\ g[0] = 0
      BY <1>1, <3>1
    <3>3. \A p \in 1..(m + 1) : g[p] = g[p - 1] + table[p]
      BY <1>1, <3>1
    <3> HIDE DEF g
    <3>4. Has(m + 1)
      BY <3>2, <3>3
    <3> HIDE DEF Has
    <3> QED
      BY <1>1, <3>4
  <2>3. n \in S
    <3> HIDE DEF S
    <3>1. 0..n \subseteq S
      BY <1>1, <2>1, <2>2, UpTo
    <3> QED
      BY <1>1, <3>1
  <2>4. PICK f \in [0..n -> Nat] : Good(n, f)
    BY <2>3
  <2>5. f = [p \in 0..n |-> Step(f, p)]
    BY <1>1, <2>4
  <2> QED
    BY <2>5
<1> DEFINE e == Ends(table)
<1>3. e = [p \in 0..n |-> Step(e, p)]
  BY <1>2 DEF Ends, n
<1> HIDE DEF e
<1>4. e[0] = 0 /\ \A p \in 1..n : e[p] = e[p - 1] + table[p]
  BY <1>1, <1>3
<1>5. \A p \in 0..n : e[p] \in Nat
  <2> DEFINE S == {p \in 0..n : e[p] \in Nat}
  <2>1. 0 \in S
    BY <1>1, <1>4
  <2>2. ASSUME NEW p \in 0..(n - 1), p \in S PROVE p + 1 \in S
    BY <1>1, <1>4, <2>2
  <2> HIDE DEF S
  <2>3. 0..n \subseteq S
    BY <1>1, <2>1, <2>2, UpTo
  <2> QED
    BY <2>3 DEF S
<1>6. e \in [0..n -> Nat]
  BY <1>3, <1>5
<1> QED
  BY <1>4, <1>6 DEF e, n

-----------------------------------------------------------------------------
(* Runs of bytes.                                                          *)

LEMMA SeqOfFunction ==
  ASSUME NEW S, NEW n \in Nat, NEW s \in [1..n -> S]
  PROVE  s \in Seq(S) /\ Len(s) = n
<1>1. s \in Seq(S)
  BY SeqDef
<1>2. Len(s) \in Nat /\ DOMAIN s = 1..Len(s)
  BY <1>1, LenProperties
<1>3. 1..Len(s) = 1..n
  BY <1>2
<1> HIDE <1>1
<1>4. \A a, b \in Nat : 1..a = 1..b => a = b
  <2>1. ASSUME NEW a \in Nat, NEW b \in Nat, 1..a = 1..b PROVE a <= b
    <3>1. a = 0 \/ a \in 1..b
      BY <2>1
    <3> QED
      BY <3>1
  <2> QED
    BY <2>1
<1> QED
  BY <1>1, <1>2, <1>3, <1>4, Zenon

LEMMA BytesAre ==
  ASSUME NEW from \in Places, NEW n \in Nat
  PROVE  /\ Bytes(from, n) \in Seq(Places)
         /\ Len(Bytes(from, n)) = n
         /\ \A i \in 1..n :
              Bytes(from, n)[i] = [part |-> from.part, off |-> from.off + i - 1]
<1>1. \A i \in 1..n : [from EXCEPT !.off = @ + i - 1]
                       = [part |-> from.part, off |-> from.off + i - 1]
  BY DEF Places
<1>2. Bytes(from, n) \in [1..n -> Places]
  BY <1>1 DEF Bytes, Places
<1>3. \A i \in 1..n : Bytes(from, n)[i] = [from EXCEPT !.off = @ + i - 1]
  BY DEF Bytes
<1> QED
  BY <1>1, <1>2, <1>3, SeqOfFunction

\* Reading on where the last read ended.
LEMMA BytesSplit ==
  ASSUME NEW from \in Places, NEW m \in Nat, NEW n \in Nat
  PROVE  LET next == [from EXCEPT !.off = @ + m]
         IN  /\ next \in Places
             /\ Bytes(from, m + n) = Bytes(from, m) \o Bytes(next, n)
<1> DEFINE next == [from EXCEPT !.off = @ + m]
           a == Bytes(from, m)
           b == Bytes(next, n)
           c == Bytes(from, m + n)
<1>1. next \in Places /\ next.part = from.part /\ next.off = from.off + m
  BY DEF Places
<1> HIDE DEF next
<1>2. /\ a \in Seq(Places) /\ Len(a) = m
      /\ \A i \in 1..m : a[i] = [part |-> from.part, off |-> from.off + i - 1]
  BY BytesAre
<1>3. /\ b \in Seq(Places) /\ Len(b) = n
      /\ \A i \in 1..n : b[i] = [part |-> next.part, off |-> next.off + i - 1]
  BY <1>1, BytesAre
<1>4. /\ c \in Seq(Places) /\ Len(c) = m + n
      /\ \A i \in 1..(m + n) : c[i] = [part |-> from.part, off |-> from.off + i - 1]
  BY BytesAre
<1> HIDE DEF a, b, c
<1>5. /\ a \o b \in Seq(Places) /\ Len(a \o b) = m + n
      /\ \A i \in 1..(m + n) : (a \o b)[i] = IF i <= m THEN a[i] ELSE b[i - m]
  BY <1>2, <1>3, ConcatProperties
<1>6. ASSUME NEW i \in 1..(m + n) PROVE (a \o b)[i] = c[i]
  <2>1. c[i] = [part |-> from.part, off |-> from.off + i - 1]
    BY <1>4
  <2>2. (a \o b)[i] = IF i <= m THEN a[i] ELSE b[i - m]
    BY <1>5
  <2>3. CASE i <= m
    <3>1. i \in 1..m
      BY <2>3
    <3>2. a[i] = [part |-> from.part, off |-> from.off + i - 1]
      BY <1>2, <3>1
    <3> QED
      BY <2>1, <2>2, <2>3, <3>2
  <2>4. CASE ~(i <= m)
    <3>1. i - m \in 1..n
      BY <2>4
    <3>2. b[i - m] = [part |-> next.part, off |-> next.off + (i - m) - 1]
      BY <1>3, <3>1
    <3>3. from.off \in Nat
      BY DEF Places
    <3>4. next.off + (i - m) - 1 = from.off + i - 1
      BY <1>1, <3>3
    <3> QED
      BY <1>1, <2>1, <2>2, <2>4, <3>2, <3>4
  <2> QED
    BY <2>3, <2>4
<1>7. c = a \o b
  BY <1>4, <1>5, <1>6, SeqEqual
<1> QED
  BY <1>1, <1>7 DEF next, a, b, c

\* The function FlattenSeq() is defined by.
LEMMA FlattenExists ==
  ASSUME NEW S, NEW n \in Nat, NEW seqs \in [1..n -> Seq(S)]
  PROVE  \E f : f = [i \in 1..n |-> IF i = 1 THEN seqs[i] ELSE f[i - 1] \o seqs[i]]
<1> DEFINE Step(f, i) == IF i = 1 THEN seqs[i] ELSE f[i - 1] \o seqs[i]
           Has(m) == \E f \in [1..m -> Seq(S)] : \A i \in 1..m : f[i] = Step(f, i)
           T == {m \in 0..n : Has(m)}
<1>1. 0 \in T
  <2>1. [i \in 1..0 |-> <<>>] \in [1..0 -> Seq(S)]
    OBVIOUS
  <2>2. Has(0)
    <3>1. \A i \in 1..0 : FALSE
      OBVIOUS
    <3> HIDE DEF Step
    <3> QED
      BY <2>1, <3>1
  <2> HIDE DEF Has
  <2> QED
    BY <2>2
<1>2. ASSUME NEW m \in 0..(n - 1), m \in T PROVE m + 1 \in T
  <2>1. PICK f \in [1..m -> Seq(S)] : \A i \in 1..m : f[i] = Step(f, i)
    BY <1>2
  <2> DEFINE last == Step(f, m + 1)
             g == [i \in 1..(m + 1) |-> IF i = m + 1 THEN last ELSE f[i]]
  <2>2. last \in Seq(S)
    <3>1. seqs[m + 1] \in Seq(S)
      OBVIOUS
    <3>2. CASE m = 0
      BY <3>1, <3>2
    <3>3. CASE m # 0
      <4>1. f[m] \in Seq(S)
        BY <3>3
      <4>2. f[m] \o seqs[m + 1] \in Seq(S)
        BY <3>1, <4>1, ConcatProperties
      <4> QED
        BY <3>3, <4>2
    <3> QED
      BY <3>2, <3>3
  <2>3. g \in [1..(m + 1) -> Seq(S)]
    <3> HIDE DEF last
    <3> QED
      BY <2>2
  <2>4. ASSUME NEW i \in 1..(m + 1) PROVE g[i] = Step(g, i)
    <3>1. CASE i = m + 1
      <4>1. m # 0 => g[m] = f[m]
        OBVIOUS
      <4>2. g[i] = last
        BY <3>1
      <4> QED
        BY <3>1, <4>1, <4>2
    <3>2. CASE i # m + 1
      <4>1. i \in 1..m /\ g[i] = f[i] /\ (i # 1 => g[i - 1] = f[i - 1])
        BY <3>2
      <4> HIDE DEF g
      <4> QED
        BY <2>1, <4>1
    <3> QED
      BY <3>1, <3>2
  <2>5. Has(m + 1)
    <3> HIDE DEF g, Step
    <3> QED
      BY <2>3, <2>4
  <2> HIDE DEF Has
  <2> QED
    BY <2>5
<1>3. Has(n)
  <2> HIDE DEF T
  <2>1. 0..n \subseteq T
    BY <1>1, <1>2, UpTo
  <2>2. n \in T
    BY <2>1
  <2> QED
    BY <2>2 DEF T
<1>4. PICK f \in [1..n -> Seq(S)] : \A i \in 1..n : f[i] = Step(f, i)
  BY <1>3
<1>5. f = [i \in 1..n |-> Step(f, i)]
  <2> HIDE DEF Step
  <2> QED
    BY <1>4
<1> QED
  BY <1>5

\* The bytes of a table: its i-th byte of part p is where p - 1 parts and i
\* bytes end.
LEMMA TableBytesAre ==
  ASSUME NEW table \in Seq(Byte), table # <<>>
  PROVE  /\ TableBytes(table) \in Seq(Places)
         /\ Len(TableBytes(table)) = TotalLength(table)
         /\ \A p \in 1..Len(table) : \A i \in 1..table[p] :
              /\ Ends(table)[p - 1] + i \in 1..TotalLength(table)
              /\ TableBytes(table)[Ends(table)[p - 1] + i]
                   = [part |-> p, off |-> i - 1]
<1> DEFINE n == Len(table)
           e == Ends(table)
           seqs == [p \in 1..n |-> Bytes(Begin(p - 1), table[p])]
           flat(f) == [i \in 1..n |-> IF i = 1 THEN seqs[i] ELSE f[i - 1] \o seqs[i]]
           F == CHOOSE f : f = flat(f)
<1>1. n \in Nat \ {0} /\ \A p \in 1..n : table[p] \in Nat
  BY PartsAreNat, EmptySeq
<1>2. /\ e \in [0..n -> Nat] /\ e[0] = 0
      /\ \A p \in 1..n : e[p] = e[p - 1] + table[p]
  BY EndsAre
<1>3. ASSUME NEW p \in 1..n
      PROVE  /\ seqs[p] \in Seq(Places) /\ Len(seqs[p]) = table[p]
             /\ \A i \in 1..table[p] : seqs[p][i] = [part |-> p, off |-> i - 1]
  <2>1. Begin(p - 1) = [part |-> p, off |-> 0] /\ Begin(p - 1) \in Places
    BY <1>1 DEF Begin, Places
  <2>2. table[p] \in Nat /\ seqs[p] = Bytes(Begin(p - 1), table[p])
    BY <1>1
  <2> HIDE DEF seqs, n
  <2>3. /\ seqs[p] \in Seq(Places) /\ Len(seqs[p]) = table[p]
        /\ \A i \in 1..table[p] : seqs[p][i] = [part |-> Begin(p - 1).part,
                                              off |-> Begin(p - 1).off + i - 1]
    BY <2>1, <2>2, BytesAre, ZenonT(40)
  <2>4. ASSUME NEW i \in 1..table[p]
        PROVE  seqs[p][i] = [part |-> p, off |-> i - 1]
    <3>1. Begin(p - 1).part = p /\ Begin(p - 1).off + i - 1 = i - 1
      BY <2>1, <2>2
    <3> QED
      BY <2>3, <3>1
  <2> QED
    BY <2>3, <2>4
<1>4. TableBytes(table) = F[n] /\ TotalLength(table) = e[n]
  <2>1. Len(seqs) = n
    BY <1>1
  <2> QED
    BY <1>1, <2>1 DEF TableBytes, FlattenSeq, TotalLength
<1> HIDE DEF n, e
<1>5. seqs \in [1..n -> Seq(Places)]
  <2>1. seqs = [p \in 1..n |-> seqs[p]]
    OBVIOUS
  <2> HIDE DEF seqs
  <2> QED
    BY <1>3, <2>1
<1> HIDE DEF seqs
<1>6. F = flat(F)
  <2>1. \E f : f = flat(f)
    <3>1. n \in Nat
      BY <1>1
    <3> QED
      BY <1>5, <3>1, FlattenExists
  <2> HIDE DEF flat
  <2> QED
    BY <2>1
<1> HIDE DEF F
<1> DEFINE Upto(k) ==
             /\ F[k] \in Seq(Places) /\ Len(F[k]) = e[k]
             /\ \A p \in 1..k : \A i \in 1..table[p] :
                  /\ e[p - 1] + i \in 1..e[k]
                  /\ F[k][e[p - 1] + i] = [part |-> p, off |-> i - 1]
           T == {k \in 0..n : k # 0 => Upto(k)}
<1>7. 0 \in T
  BY <1>1
<1>8. ASSUME NEW k \in 0..(n - 1), k \in T PROVE k + 1 \in T
  <2>1. k + 1 \in 1..n /\ k \in 0..n
    BY <1>1
  <2>2. /\ F[k + 1] = IF k = 0 THEN seqs[k + 1] ELSE F[k] \o seqs[k + 1]
        /\ e[k] \in Nat /\ e[k + 1] = e[k] + table[k + 1] /\ table[k + 1] \in Nat
    <3>1. F[k + 1] = IF k + 1 = 1 THEN seqs[k + 1] ELSE F[(k + 1) - 1] \o seqs[k + 1]
      BY <1>6, <2>1
    <3>2. (k + 1) - 1 = k /\ (k + 1 = 1 <=> k = 0)
      BY <2>1
    <3>3. e[k] \in Nat /\ e[k + 1] = e[k] + table[k + 1] /\ table[k + 1] \in Nat
      BY <1>1, <1>2, <2>1, <3>2
    <3> QED
      BY <3>1, <3>2, <3>3
  <2>3. /\ seqs[k + 1] \in Seq(Places) /\ Len(seqs[k + 1]) = table[k + 1]
        /\ \A i \in 1..table[k + 1] :
             seqs[k + 1][i] = [part |-> k + 1, off |-> i - 1]
    BY <1>3, <2>1
  <2>4. CASE k = 0
    BY <1>1, <1>2, <2>1, <2>2, <2>3, <2>4
  <2>5. CASE k # 0
    <3>1. Upto(k)
      BY <1>8, <2>5
    <3>2. /\ F[k + 1] \in Seq(Places) /\ Len(F[k + 1]) = e[k] + table[k + 1]
          /\ \A j \in 1..(e[k] + table[k + 1]) :
               F[k + 1][j] = IF j <= e[k] THEN F[k][j] ELSE seqs[k + 1][j - e[k]]
      <4>1. F[k] \in Seq(Places) /\ Len(F[k]) = e[k]
        BY <3>1
      <4>2. F[k + 1] = F[k] \o seqs[k + 1]
        BY <2>2, <2>5
      <4>3. seqs[k + 1] \in Seq(Places) /\ Len(seqs[k + 1]) = table[k + 1]
        BY <2>3
      <4> HIDE DEF Upto
      <4>4. /\ F[k] \o seqs[k + 1] \in Seq(Places)
            /\ Len(F[k] \o seqs[k + 1]) = Len(F[k]) + Len(seqs[k + 1])
            /\ \A j \in 1..(Len(F[k]) + Len(seqs[k + 1])) :
                 (F[k] \o seqs[k + 1])[j] =
                   IF j <= Len(F[k]) THEN F[k][j] ELSE seqs[k + 1][j - Len(F[k])]
        BY <4>1, <4>3, ConcatProperties
      <4> QED
        BY <4>1, <4>2, <4>3, <4>4
    <3>3. ASSUME NEW p \in 1..(k + 1), NEW i \in 1..table[p]
          PROVE  /\ e[p - 1] + i \in 1..e[k + 1]
                 /\ F[k + 1][e[p - 1] + i] = [part |-> p, off |-> i - 1]
      <4>1. CASE p = k + 1
        <5>1. e[p - 1] + i \in 1..e[k + 1] /\ ~(e[p - 1] + i <= e[k])
          BY <2>2, <4>1
        <5>2. F[k + 1][e[k] + i] = seqs[k + 1][i]
          <6>1. e[k] + i \in 1..(e[k] + table[k + 1]) /\ ~(e[k] + i <= e[k])
                /\ (e[k] + i) - e[k] = i
            BY <2>2, <4>1
          <6> QED
            BY <3>2, <6>1
        <5> QED
          BY <2>3, <4>1, <5>1, <5>2
      <4>2. CASE p # k + 1
        <5>1. p \in 1..k
          BY <4>2
        <5>2. e[p - 1] + i \in 1..e[k] /\ F[k][e[p - 1] + i] = [part |-> p, off |-> i - 1]
          BY <3>1, <5>1
        <5>3. F[k + 1][e[p - 1] + i] = F[k][e[p - 1] + i]
          <6>1. e[p - 1] + i \in 1..(e[k] + table[k + 1]) /\ e[p - 1] + i <= e[k]
            BY <2>2, <5>2
          <6> QED
            BY <3>2, <6>1
        <5>4. e[p - 1] + i \in 1..e[k + 1]
          BY <2>2, <5>2
        <5> QED
          BY <5>2, <5>3, <5>4
      <4> QED
        BY <4>1, <4>2
    <3>4. Upto(k + 1)
      BY <2>2, <3>2, <3>3
    <3> HIDE DEF Upto
    <3> QED
      BY <2>1, <3>4
  <2> QED
    BY <2>4, <2>5
<1>9. Upto(n)
  <2> HIDE DEF T
  <2>1. 0..n \subseteq T
    BY <1>1, <1>7, <1>8, UpTo
  <2>2. n \in T
    BY <1>1, <2>1
  <2> QED
    BY <1>1, <2>2 DEF T
<1> QED
  BY <1>4, <1>9 DEF n, e

LEMMA TotalIsNat ==
  ASSUME NEW table \in Seq(Byte)
  PROVE  TotalLength(table) \in Nat
<1>1. Len(table) \in 0..Len(table)
  BY PartsAreNat
<1> QED
  BY <1>1, EndsAre DEF TotalLength

\* No part ends past the table.
LEMMA EndsWithin ==
  ASSUME NEW table \in Seq(Byte), NEW p \in 0..Len(table)
  PROVE  Ends(table)[p] <= TotalLength(table)
<1> DEFINE n == Len(table)
           e == Ends(table)
           T == {k \in 0..n : e[n - k] <= e[n]}
<1>1. n \in Nat /\ \A q \in 1..n : table[q] \in Nat
  BY PartsAreNat
<1>2. e \in [0..n -> Nat] /\ \A q \in 1..n : e[q] = e[q - 1] + table[q]
  BY EndsAre
<1> HIDE DEF n, e
<1>3. 0 \in T
  BY <1>1, <1>2
<1>4. ASSUME NEW k \in 0..(n - 1), k \in T PROVE k + 1 \in T
  <2>1. n - k \in 1..n /\ (n - k) - 1 = n - (k + 1) /\ n - (k + 1) \in 0..n
    BY <1>1
  <2>2. e[n - k] = e[n - (k + 1)] + table[n - k] /\ e[n - k] <= e[n]
    BY <1>2, <1>4, <2>1
  <2>3. e[n - (k + 1)] \in Nat /\ table[n - k] \in Nat /\ e[n] \in Nat
    BY <1>1, <1>2, <2>1
  <2>4. k + 1 \in 0..n /\ e[n - (k + 1)] <= e[n]
    BY <1>1, <2>2, <2>3
  <2> QED
    BY <2>4
<1>5. 0..n \subseteq T
  <2> HIDE DEF T
  <2> QED
    BY <1>1, <1>3, <1>4, UpTo
<1>6. n - p \in 0..n /\ n - (n - p) = p
  BY <1>1 DEF n
<1> QED
  BY <1>5, <1>6 DEF n, e, TotalLength

\* What is read within a part is a run of the table's bytes.
LEMMA ReadWithinPart ==
  ASSUME NEW table \in Seq(Byte), NEW p \in 1..Len(table),
         NEW off \in 0..table[p], NEW n \in 0..(table[p] - off)
  PROVE  LET at == Ends(table)[p - 1] + off
         IN  /\ at \in Nat /\ at + n <= TotalLength(table)
             /\ Bytes([part |-> p, off |-> off], n)
                  = SubSeq(TableBytes(table), at + 1, at + n)
<1> DEFINE at == Ends(table)[p - 1] + off
           from == [part |-> p, off |-> off]
           a == Bytes(from, n)
           run == TableBytes(table)
           b == SubSeq(run, at + 1, at + n)
<1>1. table # <<>> /\ table[p] \in Nat /\ p \in Nat /\ off \in Nat /\ n \in Nat
      /\ off + n <= table[p]
  BY PartsAreNat, EmptySeq
<1>2. at \in Nat /\ Ends(table)[p - 1] \in Nat
      /\ Ends(table)[p] = Ends(table)[p - 1] + table[p]
  <2>1. /\ Ends(table) \in [0..Len(table) -> Nat]
        /\ Ends(table)[p] = Ends(table)[p - 1] + table[p]
    BY EndsAre
  <2>2. p - 1 \in 0..Len(table)
    BY PartsAreNat
  <2>3. Ends(table)[p - 1] \in Nat
    BY <2>1, <2>2
  <2> QED
    BY <1>1, <2>1, <2>3
<1>3. Ends(table)[p] <= TotalLength(table) /\ TotalLength(table) \in Nat
  <2>1. p \in 0..Len(table)
    BY PartsAreNat
  <2> QED
    BY <2>1, EndsWithin, TotalIsNat
<1>4. at + n <= TotalLength(table)
  <2>1. Ends(table)[p - 1] + (off + n) <= Ends(table)[p - 1] + table[p]
    BY <1>1, <1>2
  <2> QED
    BY <1>1, <1>2, <1>3, <2>1, SMTT(40)
<1>5. /\ run \in Seq(Places) /\ Len(run) = TotalLength(table)
      /\ \A i \in 1..table[p] :
           run[Ends(table)[p - 1] + i] = [part |-> p, off |-> i - 1]
  BY <1>1, TableBytesAre
<1>6. /\ a \in Seq(Places) /\ Len(a) = n
      /\ \A i \in 1..n : a[i] = [part |-> p, off |-> off + i - 1]
  <2>1. from \in Places /\ from.part = p /\ from.off = off
    BY <1>1 DEF Places
  <2> HIDE DEF from
  <2> QED
    BY <1>1, <2>1, BytesAre
<1>7. /\ b \in Seq(Places) /\ Len(b) = n
      /\ \A i \in 1..n : b[i] = run[at + i]
  <2>1. \A i \in (at + 1)..(at + n) : run[i] \in Places
    BY <1>2, <1>3, <1>4, <1>5, ElementOfSeq, SMTT(40)
  <2>2. at + 1 \in Int /\ at + n \in Int
    BY <1>1, <1>2
  <2> HIDE DEF run, at
  <2>3. /\ b \in Seq(Places)
        /\ Len(b) = IF at + 1 <= at + n THEN (at + n) - (at + 1) + 1 ELSE 0
        /\ \A i \in 1..((at + n) - (at + 1) + 1) : b[i] = run[(at + 1) + i - 1]
    BY <2>1, <2>2, SubSeqProperties
  <2> HIDE DEF b
  <2>4. (at + n) - (at + 1) + 1 = n /\ (~(at + 1 <= at + n) => n = 0)
    BY <1>1, <1>2, SMTT(40) DEF at
  <2>5. \A i \in 1..n : (at + 1) + i - 1 = at + i
    BY <1>1, <1>2 DEF at
  <2> QED
    BY <2>3, <2>4, <2>5
<1>8. ASSUME NEW i \in 1..n PROVE a[i] = b[i]
  <2>1. off + i \in 1..table[p] /\ Ends(table)[p - 1] + (off + i) = at + i
    BY <1>1, <1>2, SMTT(40)
  <2>2. run[at + i] = [part |-> p, off |-> (off + i) - 1]
    BY <1>5, <2>1
  <2>3. (off + i) - 1 = off + i - 1
    BY <1>1
  <2> QED
    BY <1>6, <1>7, <2>2, <2>3
<1>9. a = b
  <2> HIDE DEF a, b
  <2> QED
    BY <1>6, <1>7, <1>8, SeqEqual
<1> QED
  BY <1>2, <1>4, <1>9

-----------------------------------------------------------------------------
(* The invariant.                                                          *)

\* The chips write their packet memory in words of this many bytes.
Word == IF chip = "stm32f1" THEN 2 ELSE IF chip = "tm4c123gh6pm" THEN 4 ELSE 1

\* The bytes in packets, the one being written included, and where the next
\* byte is in the run of the table's bytes.
Packed   == asked - ep.transferCount
Position == Ends(ep.table)[ep.partNumber] + ep.memBuffer.off

\* The pointer is in its part, and at the part's end only if it is the last.
AtPart ==
  /\ ep.memBuffer.part = ep.partNumber + 1
  /\ ep.memBuffer.off \in 0..PartLength
  /\ ep.memBuffer.off = PartLength => ep.partNumber + 1 = Len(ep.table)

\* Before writeEP(): the packets so far are full ones, unless they are all.
Between ==
  /\ sent = SubSeq(TableBytes(ep.table), 1, Packed)
  /\ ep.transferCount # 0 => AtPart /\ Position = Packed /\ Packed % epBufferSize = 0

\* In the loop: what is in packet memory and the leftover continue what was
\* sent, up to the pointer; the leftover is the rest of a word; and the loop
\* goes on only at the beginning of a part.
InTheLoop ==
  LET start == Packed - writer.sendCount
      moved == writer.sendCount - writer.sendAmount
  IN  /\ start >= 0 /\ moved >= 0
      /\ start % epBufferSize = 0
      /\ writer.sendCount = epBufferSize \/ ep.transferCount = 0
      /\ sent = SubSeq(TableBytes(ep.table), 1, start)
      /\ writer.written \o writer.leftover
           = SubSeq(TableBytes(ep.table), start + 1, start + moved)
      /\ Len(writer.leftover) = moved % Word
      /\ AtPart /\ Position = start + moved
      /\ writer.sendAmount # 0 /\ moved # 0 => ep.memBuffer.off = 0

InOrder ==
  /\ pc = "write" => /\ sent = <<>> /\ ep.transferCount = asked
                     /\ ep.memBuffer = NullPtr /\ ep.partNumber = 0
  /\ pc = "idle" => Between
  /\ pc = "loop" => InTheLoop

\* A leftover is less than a word, supported or not.
Inv ==
  /\ TypeOK
  /\ Len(writer.leftover) < Word
  /\ asked <= TotalLength(ep.table) /\ ep.transferCount <= asked
  /\ Supported => InOrder

-----------------------------------------------------------------------------
(* The types.                                                              *)

LEMMA Words ==
  /\ UINT16_MAX \in Nat /\ UINT16_MAX >= 256 /\ Word16 \subseteq Nat /\ 0 \in Word16
  /\ \A x \in Nat : x \in Word16 <=> x <= UINT16_MAX
<1>1. UINT16_MAX \in Nat /\ UINT16_MAX >= 256
  BY SMT DEF UINT16_MAX
<1> QED
  BY <1>1, SMT DEF Word16

LEMMA ByteRange ==
  /\ \A a \in Nat, n \in 1..256 : a + 1 < n => a + 1 \in Byte
  /\ \A i \in Int : i % 256 \in Byte
<1>1. \A a \in Nat, n \in 1..256 : a + 1 < n => a + 1 \in Byte
  BY DEF Byte
<1>2. \A i \in Int : i % 256 \in Byte
  BY DEF Byte
<1> QED
  BY <1>1, <1>2

LEMMA Remainders ==
  \A i \in Int, m \in Nat \ {0} : i % m \in 0..(m - 1) /\ i % m \in Nat
OBVIOUS

LEMMA TablesTyped ==
  ASSUME NEW table \in Tables
  PROVE  /\ table \in Seq(Byte) /\ Len(table) \in 1..256 /\ table # <<>>
         /\ TotalLength(table) \in Word16
         /\ \A p \in 1..Len(table) :
              table[p] \in Byte /\ (table[p] = 0 => p = Len(table) /\ p # 1)
<1>1. /\ table \in Seq(Byte) /\ Len(table) \in 1..256 /\ TotalLength(table) <= UINT16_MAX
      /\ \A p \in 1..Len(table) : table[p] = 0 => p = Len(table) /\ p # 1
  BY TableAssumption, Zenon
<1>2. TotalLength(table) \in Nat
  BY <1>1, TotalIsNat
<1>3. \A p \in 1..Len(table) : table[p] \in Byte
  BY <1>1, ElementOfSeq
<1>4. table # <<>>
  <2>1. table = <<>> => Len(table) = 0
    BY EmptySeq
  <2>2. \A n \in 1..256 : n # 0
    OBVIOUS
  <2>3. Len(table) # 0
    BY <1>1, <2>2, Zenon
  <2> QED
    BY <2>1, <2>3
<1>5. TotalLength(table) \in Word16
  BY <1>1, <1>2, Words
<1> QED
  BY <1>1, <1>3, <1>4, <1>5, Zenon

LEMMA NullPtrTyped ==
  /\ NullPtr \in Places /\ Stale \in Places
  /\ \A index \in Nat : Begin(index) \in Places
BY DEF NullPtr, Stale, Places, Begin

LEMMA WordTyped ==
  ASSUME chip \in Chips
  PROVE  /\ Word \in {1, 2, 4}
         /\ chip = "stm32f1" => Word = 2
         /\ chip = "tm4c123gh6pm" => Word = 4
         /\ chip = "atxmega256a3u" => Word = 1
BY TableAssumption DEF Word

LEMMA PartAmountTyped ==
  ASSUME TypeOK
  PROVE  PartLength \in Byte /\ PartAmount \in Byte
<1>1. ep.partNumber + 1 \in 1..Len(ep.table) /\ ep.table \in Tables
  <2>1. ep.partNumber \in Byte /\ ep.table \in Tables /\ ep.partNumber < Len(ep.table)
    BY DEF TypeOK
  <2>2. Len(ep.table) \in 1..256
    BY <2>1, TablesTyped
  <2>3. \A a \in Byte, n \in 1..256 : a < n => a + 1 \in 1..n
    BY DEF Byte
  <2> QED
    BY <2>1, <2>2, <2>3
<1>2. PartLength \in Byte
  BY <1>1, TablesTyped DEF PartLength
<1>3. ep.memBuffer.off \in Nat /\ writer.sendAmount \in Byte
  BY DEF TypeOK, Places
<1> DEFINE left == PartLength - (ep.memBuffer.off % (UINT16_MAX + 1))
<1>4. left \in Int
  BY <1>2, <1>3, Words, ByteIsNat
<1>5. PartAmount = IF left > writer.sendAmount THEN writer.sendAmount ELSE left % 256
  BY DEF PartAmount
<1> HIDE DEF left
<1>6. left % 256 \in Byte
  BY <1>4 DEF Byte
<1> QED
  BY <1>2, <1>3, <1>5, <1>6

LEMMA NextPartTyped ==
  ASSUME TypeOK, NEW buffer \in Places
  PROVE  /\ NextPart(buffer) \in [table : Tables, transferCount : Word16,
               partNumber : Byte, memBuffer : Places, isMultiPart : BOOLEAN]
         /\ NextPart(buffer).partNumber < Len(NextPart(buffer).table)
         /\ NextPart(buffer).table = ep.table
         /\ NextPart(buffer).transferCount = ep.transferCount
         /\ IF buffer.off = PartLength /\ ep.partNumber + 1 < Len(ep.table)
            THEN /\ NextPart(buffer).partNumber = ep.partNumber + 1
                 /\ NextPart(buffer).memBuffer = Begin(ep.partNumber + 1)
            ELSE /\ NextPart(buffer).partNumber = ep.partNumber
                 /\ NextPart(buffer).memBuffer = buffer
<1>1. /\ ep \in [table : Tables, transferCount : Word16, partNumber : Byte,
                 memBuffer : Places, isMultiPart : BOOLEAN]
      /\ ep.partNumber < Len(ep.table)
  BY DEF TypeOK
<1>2. ep.partNumber \in Byte /\ ep.partNumber \in Nat /\ Len(ep.table) \in 1..256
  BY <1>1, TablesTyped, ByteIsNat
<1>3. Begin(ep.partNumber + 1) \in Places
  BY <1>2, NullPtrTyped
<1>4. CASE buffer.off = PartLength /\ ep.partNumber + 1 < Len(ep.table)
  <2> DEFINE number == ep.partNumber + 1
             pointer == Begin(ep.partNumber + 1)
  <2>1. NextPart(buffer) = [ep EXCEPT !.partNumber = number, !.memBuffer = pointer]
    BY <1>4 DEF NextPart
  <2>2. number \in Byte /\ pointer \in Places /\ number < Len(ep.table)
    BY <1>2, <1>3, <1>4, ByteRange
  <2> HIDE DEF number, pointer
  <2>3. /\ NextPart(buffer) \in [table : Tables, transferCount : Word16, partNumber : Byte,
                                memBuffer : Places, isMultiPart : BOOLEAN]
        /\ NextPart(buffer).partNumber = number
        /\ NextPart(buffer).memBuffer = pointer
        /\ NextPart(buffer).table = ep.table
        /\ NextPart(buffer).transferCount = ep.transferCount
    BY <1>1, <2>1, <2>2
  <2> QED
    BY <1>4, <2>2, <2>3 DEF number, pointer
<1>5. CASE ~(buffer.off = PartLength /\ ep.partNumber + 1 < Len(ep.table))
  <2>1. NextPart(buffer) = [ep EXCEPT !.memBuffer = buffer]
    BY <1>5 DEF NextPart
  <2> QED
    BY <1>1, <1>5, <2>1
<1> QED
  BY <1>4, <1>5

LEMMA TurnTyped ==
  ASSUME TypeOK, NEW word \in {1, 2, 4}, NEW limit \in Nat, limit >= 256,
         Len(writer.leftover) < word, pc = "loop",
         UNCHANGED <<chip, pc, asked, sent>>, Turn(word, limit)
  PROVE  /\ TypeOK' /\ Len(writer'.leftover) < word
         /\ ep'.table = ep.table /\ ep'.transferCount = ep.transferCount
<1> DEFINE fill      == IF writer.leftover = <<>> THEN 0
                        ELSE word - Len(writer.leftover)
           remainder == (PartAmount - fill) % word
           direct    == (PartAmount - fill - remainder) % limit
           last      == [ep.memBuffer EXCEPT !.off = @ + fill + direct]
           buffer    == [last EXCEPT !.off = @ + remainder]
           left      == IF fill = 0 THEN <<>> ELSE writer.leftover
           amount    == (writer.sendAmount - PartAmount) % 256
           written   == writer.written \o left \o Bytes(ep.memBuffer, fill + direct)
           leftover  == Bytes(last, remainder)
<1>1. /\ writer \in [sendCount : 0..epBufferSize, sendAmount : Byte,
                     leftover : Seq(Places), written : Seq(Places)]
      /\ ep.memBuffer \in Places
  BY DEF TypeOK
<1>2. /\ writer.sendAmount \in Nat /\ PartAmount \in Nat
      /\ Len(writer.leftover) \in Nat /\ word \in Nat \ {0}
  <2>1. PartAmount \in Byte /\ writer.sendAmount \in Byte
    BY <1>1, PartAmountTyped
  <2>2. Len(writer.leftover) \in Nat
    BY <1>1, LenProperties
  <2>3. word \in Nat \ {0}
    OBVIOUS
  <2> QED
    BY <2>1, <2>2, <2>3, ByteIsNat
<1>3. writer' = [writer EXCEPT !.sendAmount = amount, !.written = written,
                               !.leftover = leftover]
      /\ ep' = NextPart(buffer)
  BY DEF Turn
<1>4. fill \in Nat
  BY <1>2
<1> HIDE DEF fill
<1>5. remainder \in 0..(word - 1) /\ remainder \in Nat
  <2>1. PartAmount - fill \in Int
    BY <1>2, <1>4
  <2> QED
    BY <1>2, <2>1, Remainders
<1> HIDE DEF remainder
<1>6. direct \in Nat
  <2>1. PartAmount - fill - remainder \in Int /\ limit \in Nat \ {0}
    BY <1>2, <1>4, <1>5
  <2> QED
    BY <2>1, Remainders
<1> HIDE DEF direct
<1>7. last \in Places
  <2>1. ep.memBuffer.off + fill + direct \in Nat
    BY <1>1, <1>4, <1>6 DEF Places
  <2> QED
    BY <1>1, <2>1 DEF Places
<1> HIDE DEF last
<1>8. buffer \in Places
  <2>1. last.off + remainder \in Nat
    BY <1>5, <1>7 DEF Places
  <2> QED
    BY <1>7, <2>1 DEF Places
<1> HIDE DEF buffer
<1>9. leftover \in Seq(Places) /\ Len(leftover) = remainder
  BY <1>5, <1>7, BytesAre
<1>10. written \in Seq(Places)
  <2>1. left \in Seq(Places)
    BY <1>1, EmptySeq
  <2>2. fill + direct \in Nat
    BY <1>4, <1>6
  <2>3. Bytes(ep.memBuffer, fill + direct) \in Seq(Places)
    BY <1>1, <2>2, BytesAre
  <2> HIDE DEF left
  <2>4. writer.written \o left \in Seq(Places)
    BY <1>1, <2>1, ConcatProperties
  <2> QED
    BY <2>3, <2>4, ConcatProperties
<1>11. amount \in Byte
  BY <1>2, ByteRange
<1> HIDE DEF leftover, written, amount
<1>12. /\ writer' \in [sendCount : 0..epBufferSize, sendAmount : Byte,
                      leftover : Seq(Places), written : Seq(Places)]
       /\ writer'.leftover = leftover
  BY <1>1, <1>3, <1>9, <1>10, <1>11
<1>13. Len(writer'.leftover) < word /\ Len(writer'.leftover) < 4
  BY <1>5, <1>9, <1>12
<1>14. /\ ep' \in [table : Tables, transferCount : Word16, partNumber : Byte,
                  memBuffer : Places, isMultiPart : BOOLEAN]
       /\ ep'.partNumber < Len(ep'.table)
       /\ ep'.table = ep.table /\ ep'.transferCount = ep.transferCount
  BY <1>3, <1>8, NextPartTyped
<1> QED
  BY <1>12, <1>13, <1>14 DEF TypeOK

-----------------------------------------------------------------------------
(* One turn of the loop, when the chip supports the request.               *)

LEMMA InLoopNumbers ==
  ASSUME TypeOK, InTheLoop, writer.sendAmount # 0,
         asked <= TotalLength(ep.table), ep.transferCount <= asked
  PROVE  /\ ep.partNumber \in Nat /\ ep.partNumber + 1 \in 1..Len(ep.table)
         /\ ep.memBuffer.off \in Nat /\ PartLength \in Nat
         /\ ep.memBuffer.off < PartLength
         /\ PartAmount \in 1..writer.sendAmount
         /\ PartAmount <= PartLength - ep.memBuffer.off
         /\ PartAmount = writer.sendAmount \/ PartAmount = PartLength - ep.memBuffer.off
         /\ Ends(ep.table)[ep.partNumber] \in Nat
         /\ Ends(ep.table)[ep.partNumber + 1] = Ends(ep.table)[ep.partNumber] + PartLength
         /\ Position \in Nat /\ Position + writer.sendAmount = Packed
         /\ Packed \in Nat /\ Packed <= asked /\ asked \in Nat
         /\ ep.transferCount = 0 => Packed = asked
<1> DEFINE table == ep.table
           p == ep.partNumber + 1
           off == ep.memBuffer.off
           n == Len(table)
<1>1. /\ ep.partNumber \in Byte /\ table \in Tables /\ ep.partNumber < n
      /\ ep.transferCount \in Word16 /\ asked \in Word16
      /\ writer.sendAmount \in Byte /\ writer.sendCount \in 0..epBufferSize
      /\ ep.memBuffer \in Places
  BY DEF TypeOK
<1>2. /\ table \in Seq(Byte) /\ n \in Nat /\ TotalLength(table) \in Nat
      /\ ep.partNumber \in Nat /\ p \in 1..n
  <2>1. table \in Seq(Byte)
    BY <1>1, TablesTyped
  <2>2. n \in Nat /\ TotalLength(table) \in Nat /\ ep.partNumber \in Nat
    BY <1>1, <2>1, PartsAreNat, TotalIsNat, ByteIsNat
  <2>3. p \in 1..n
    BY <1>1, <2>2
  <2> QED
    BY <2>1, <2>2, <2>3
<1>3. /\ PartLength = table[p] /\ PartLength \in Byte /\ PartLength \in Nat /\ PartLength <= 255
      /\ Ends(table)[p - 1] \in Nat /\ Ends(table)[p] = Ends(table)[p - 1] + table[p]
      /\ p - 1 = ep.partNumber
  <2>1. PartLength = table[p] /\ PartLength \in Byte
    BY PartAmountTyped DEF PartLength
  <2>2. p - 1 = ep.partNumber /\ p - 1 \in 0..n
    BY <1>2
  <2> QED
    BY <1>2, <2>1, <2>2, EndsAre, ByteIsNat
<1>4. /\ ep.transferCount \in Nat /\ asked \in Nat
      /\ writer.sendAmount \in Nat /\ writer.sendAmount <= 255
      /\ writer.sendCount \in Nat
  <2>1. writer.sendCount \in Nat
    BY <1>1, TableAssumption
  <2> QED
    BY <1>1, <2>1, Words, ByteIsNat
<1>5. /\ off \in 0..PartLength /\ (off = PartLength => p = n)
      /\ Position = (Packed - writer.sendCount) + (writer.sendCount - writer.sendAmount)
  BY DEF InTheLoop, AtPart
<1>6. Packed \in Nat /\ Packed <= asked /\ (ep.transferCount = 0 => Packed = asked)
  BY <1>4 DEF Packed
<1>7. Position + writer.sendAmount = Packed
  BY <1>4, <1>5, <1>6
<1>8. Position = Ends(table)[p - 1] + off /\ off \in Nat /\ Position \in Nat
  BY <1>3, <1>5 DEF Position
<1>9. off < PartLength
  <2>1. SUFFICES ASSUME off = PartLength PROVE FALSE
    BY <1>3, <1>5, <1>8
  <2>2. Position = Ends(table)[n]
    BY <1>3, <1>5, <1>8, <2>1
  <2>3. Position = TotalLength(table)
    BY <2>2 DEF TotalLength
  <2> QED
    BY <1>2, <1>4, <1>6, <1>7, <1>8, <2>3
<1>10. PartAmount = IF PartLength - off > writer.sendAmount THEN writer.sendAmount
                    ELSE PartLength - off
  <2> DEFINE offset == off % (UINT16_MAX + 1)
             left   == PartLength - offset
  <2>1. offset = off
    <3>1. off < UINT16_MAX + 1 /\ UINT16_MAX + 1 \in Nat \ {0}
      BY <1>3, <1>8, <1>9, Words
    <3> QED
      BY <1>8, <3>1
  <2>2. (PartLength - off) % 256 = PartLength - off
    BY <1>3, <1>8, <1>9
  <2>3. PartAmount = IF left > writer.sendAmount THEN writer.sendAmount ELSE left % 256
    BY DEF PartAmount
  <2> HIDE DEF offset
  <2>4. left = PartLength - off
    BY <2>1
  <2> HIDE DEF left
  <2> QED
    BY <2>2, <2>3, <2>4
<1> HIDE DEF table, p, off, n
<1>11. /\ PartAmount \in 1..writer.sendAmount /\ PartAmount <= PartLength - off
       /\ PartAmount = writer.sendAmount \/ PartAmount = PartLength - off
  BY <1>3, <1>4, <1>8, <1>9, <1>10
<1> QED
  BY <1>2, <1>3, <1>4, <1>6, <1>7, <1>8, <1>9, <1>11 DEF table, p, off, n

\* A packet, a whole number of words, still takes the rest of a word begun.
LEMMA ToNextWord ==
  \A c, m \in Nat : c % 4 = 0 /\ m < c /\ m % 4 # 0 => c - m >= 4 - (m % 4)
OBVIOUS

\* What a word is completed with is there: on the TM4C because the request is
\* supported, on the others because no part but the last is empty.
LEMMA WordCompleted ==
  ASSUME TypeOK, Supported, InTheLoop, writer.sendAmount # 0,
         writer.leftover # <<>>, asked <= TotalLength(ep.table),
         ep.transferCount <= asked
  PROVE  Word - Len(writer.leftover) <= PartAmount
<1> DEFINE start == Packed - writer.sendCount
           moved == writer.sendCount - writer.sendAmount
           p     == ep.partNumber + 1
<1>1. /\ ep.partNumber \in Nat /\ p \in 1..Len(ep.table)
      /\ PartLength \in Nat /\ PartAmount \in 1..writer.sendAmount
      /\ PartAmount = writer.sendAmount \/ PartAmount = PartLength - ep.memBuffer.off
      /\ Ends(ep.table)[ep.partNumber] \in Nat
      /\ Position \in Nat /\ Position + writer.sendAmount = Packed
      /\ Packed \in Nat /\ Packed <= asked /\ asked \in Nat
      /\ ep.transferCount = 0 => Packed = asked
  BY InLoopNumbers
<1>2. /\ start >= 0 /\ moved >= 0 /\ start % epBufferSize = 0
      /\ writer.sendCount = epBufferSize \/ ep.transferCount = 0
      /\ Len(writer.leftover) = moved % Word /\ Position = start + moved
      /\ moved # 0 => ep.memBuffer.off = 0
  BY DEF InTheLoop
<1>3. /\ chip \in Chips /\ writer.sendAmount \in Nat /\ writer.sendCount \in Nat
      /\ Len(writer.leftover) \in Nat \ {0} /\ epBufferSize \in {8, 16, 32, 64}
  <2>1. writer \in [sendCount : 0..epBufferSize, sendAmount : Byte,
                    leftover : Seq(Places), written : Seq(Places)]
    BY DEF TypeOK
  <2>2. epBufferSize \in {8, 16, 32, 64} /\ chip \in Chips
    BY TableAssumption DEF TypeOK
  <2>3. Len(writer.leftover) \in Nat \ {0}
    BY <2>1, EmptySeq
  <2> QED
    BY <2>1, <2>2, <2>3, ByteIsNat
<1>4. moved \in Nat /\ start \in Nat
  <2>1. moved \in Int /\ start \in Int
    BY <1>1, <1>3, SMTT(40)
  <2>2. moved >= 0 /\ start >= 0
    BY <1>2
  <2> HIDE DEF start, moved
  <2> QED
    BY <2>1, <2>2
<1> HIDE DEF start, moved
<1>5. Word \in {1, 2, 4} /\ (Word = 4 => chip = "tm4c123gh6pm")
  BY <1>3, TableAssumption DEF Word
<1>6. CASE Word = 1
  BY <1>2, <1>3, <1>4, <1>6
<1>7. CASE Word = 2
  BY <1>1, <1>2, <1>3, <1>4, <1>7
<1>8. CASE Word = 4
  <2> DEFINE over == moved % 4
  <2>1. over \in 1..3 /\ Len(writer.leftover) = over /\ moved # 0 /\ ep.memBuffer.off = 0
    BY <1>2, <1>3, <1>4, <1>8
  <2>2. start % 4 = 0 /\ Position % 4 = over
    <3>1. start % 4 = 0
      <4>1. start \in Nat /\ epBufferSize \in {8, 16, 32, 64} /\ start % epBufferSize = 0
        BY <1>2, <1>3, <1>4
      <4>2. \A size \in {8, 16, 32, 64}, i \in Nat : i % size = 0 => i % 4 = 0
        OBVIOUS
      <4> QED
        BY <4>1, <4>2, Zenon
    <3>2. (start + moved) % 4 = moved % 4
      BY <1>4, <3>1
    <3> QED
      BY <1>2, <3>1, <3>2
  <2>3. Position = Ends(ep.table)[ep.partNumber]
    BY <1>1, <2>1 DEF Position
  <2>4. ep.partNumber # 0
    <3>1. ep.table \in Seq(Byte)
      BY TablesTyped DEF TypeOK
    <3>2. Ends(ep.table)[0] = 0
      BY <3>1, EndsAre
    <3> QED
      BY <2>1, <2>2, <2>3, <3>2
  <2>5. p \in 2..Len(ep.table) /\ p - 1 = ep.partNumber
    BY <1>1, <2>4
  <2>6. Position < asked
    BY <1>1, <1>3
  <2>7. Smaller(ep.table[p], asked - Position) >= 4 - over
    <3>1. \A q \in 2..Len(ep.table) :
            Ends(ep.table)[q - 1] < asked /\ Ends(ep.table)[q - 1] % 4 # 0 =>
              Smaller(ep.table[q], asked - Ends(ep.table)[q - 1])
                >= 4 - (Ends(ep.table)[q - 1] % 4)
      BY <1>5, <1>8 DEF Supported, WordsAreCompleted
    <3>2. Ends(ep.table)[p - 1] = Position /\ over # 0
      BY <2>1, <2>3, <2>5
    <3> HIDE DEF over
    <3> QED
      BY <2>2, <2>5, <2>6, <3>1, <3>2
  <2> HIDE DEF over
  <2>8. PartLength >= 4 - over /\ asked - Position >= 4 - over
    <3>1. PartLength = ep.table[p] /\ asked - Position \in Int /\ 4 - over \in Int
      BY <1>1, <2>1 DEF PartLength
    <3> QED
      BY <1>1, <2>7, <3>1, SMTT(40) DEF Smaller
  <2>9. writer.sendAmount >= 4 - over
    <3>1. CASE ep.transferCount = 0
      <4>1. writer.sendAmount = asked - Position
        BY <1>1, <1>3, <3>1
      <4> QED
        BY <2>8, <4>1
    <3>2. CASE writer.sendCount = epBufferSize
      <4>1. writer.sendCount % 4 = 0
        BY <1>3, <3>2
      <4>2. moved < writer.sendCount /\ writer.sendCount - moved = writer.sendAmount
        BY <1>3 DEF moved
      <4>3. moved % 4 # 0 /\ moved % 4 = over
        BY <2>1 DEF over
      <4>4. writer.sendCount - moved >= 4 - (moved % 4)
        BY <1>3, <1>4, <4>1, <4>2, <4>3, ToNextWord, Zenon
      <4> QED
        BY <1>3, <1>4, <2>1, <4>2, <4>3, <4>4
    <3> QED
      BY <1>2, <3>1, <3>2
  <2> QED
    BY <1>1, <1>8, <2>1, <2>8, <2>9
<1> QED
  BY <1>5, <1>6, <1>7, <1>8

\* The pointer moved on within its part, or to the next.
LEMMA Advanced ==
  ASSUME TypeOK, NEW buffer \in Places, ep' = NextPart(buffer),
         buffer.part = ep.partNumber + 1, buffer.off <= PartLength
  PROVE  /\ AtPart' /\ Position' = Ends(ep.table)[ep.partNumber] + buffer.off
         /\ buffer.off = PartLength /\ Position' # TotalLength(ep.table) =>
              ep'.memBuffer.off = 0
<1> DEFINE table == ep.table
           p == ep.partNumber + 1
           n == Len(table)
<1>1. /\ table \in Tables /\ table \in Seq(Byte) /\ n \in Nat /\ ep.partNumber \in Nat
      /\ p \in 1..n
  <2>1. table \in Tables /\ ep.partNumber \in Byte /\ ep.partNumber < n
    BY DEF TypeOK
  <2>2. table \in Seq(Byte)
    BY <2>1, TablesTyped
  <2>3. n \in Nat /\ ep.partNumber \in Nat
    BY <2>1, <2>2, PartsAreNat, ByteIsNat
  <2> QED
    BY <2>1, <2>2, <2>3
<1>2. buffer.off \in 0..PartLength /\ PartLength \in Nat /\ PartLength = table[p]
  <2>1. PartLength \in Nat /\ buffer.off \in Nat
    BY PartAmountTyped, ByteIsNat DEF Places
  <2> QED
    BY <2>1 DEF PartLength
<1>3. ep'.table = table
  BY NextPartTyped
<1>4. CASE buffer.off = PartLength /\ p < n
  <2>1. ep'.partNumber = p /\ ep'.memBuffer = Begin(p)
    BY <1>4, NextPartTyped
  <2>2. ep'.memBuffer.part = p + 1 /\ ep'.memBuffer.off = 0
    BY <2>1 DEF Begin
  <2>3. PartLength' = table[p + 1] /\ p + 1 \in 1..n
    BY <1>1, <1>3, <1>4, <2>1 DEF PartLength
  <2>4. table[p + 1] \in Nat /\ (table[p + 1] = 0 => p + 1 = n)
    BY <1>1, <2>3, TablesTyped, ByteIsNat
  <2>5. AtPart'
    BY <1>3, <2>1, <2>2, <2>3, <2>4 DEF AtPart
  <2>6. Ends(table)[p] \in Nat /\ Ends(table)[p] = Ends(table)[ep.partNumber] + PartLength
    <3>1. p - 1 = ep.partNumber /\ p \in 0..n
      BY <1>1
    <3> QED
      BY <1>1, <1>2, <3>1, EndsAre
  <2>7. Position' = Ends(table)[p]
    BY <1>3, <2>1, <2>2, <2>6 DEF Position
  <2> QED
    BY <1>4, <2>2, <2>5, <2>6, <2>7
<1>5. CASE ~(buffer.off = PartLength /\ p < n)
  <2>1. ep'.partNumber = ep.partNumber /\ ep'.memBuffer = buffer
    BY <1>5, NextPartTyped
  <2>2. PartLength' = PartLength
    BY <1>3, <2>1 DEF PartLength
  <2>3. buffer.off = PartLength => p = n
    BY <1>1, <1>5
  <2>4. AtPart'
    BY <1>2, <1>3, <2>1, <2>2, <2>3 DEF AtPart
  <2>5. Position' = Ends(table)[ep.partNumber] + buffer.off
    BY <1>3, <2>1 DEF Position
  <2>6. buffer.off = PartLength => Position' = TotalLength(table)
    <3>1. p - 1 = ep.partNumber
      BY <1>1
    <3>2. Ends(table)[p] = Ends(table)[ep.partNumber] + PartLength
      BY <1>1, <1>2, <3>1, EndsAre
    <3> QED
      BY <2>3, <2>5, <3>2 DEF TotalLength
  <2> QED
    BY <2>4, <2>5, <2>6
<1> QED
  BY <1>4, <1>5

LEMMA TwoByTwo ==
  \A a, b, c, d \in Seq(Places) : (a \o b \o c) \o d = (a \o b) \o (c \o d)
<1>1. TAKE a, b, c, d \in Seq(Places)
<1>2. a \o b \in Seq(Places)
  BY ConcatProperties
<1> QED
  BY <1>2, ConcatAssociative, SMTT(40)

LEMMA TurnInOrder ==
  ASSUME TypeOK, NEW limit \in Nat, limit >= 256, Len(writer.leftover) < Word,
         pc = "loop", UNCHANGED <<chip, pc, asked, sent>>, Turn(Word, limit),
         asked <= TotalLength(ep.table), ep.transferCount <= asked, Supported,
         InTheLoop, writer.sendAmount # 0
  PROVE  InTheLoop' /\ writer'.sendAmount < writer.sendAmount
<1> DEFINE start     == Packed - writer.sendCount
           moved     == writer.sendCount - writer.sendAmount
           run       == TableBytes(ep.table)
           fill      == IF writer.leftover = <<>> THEN 0
                        ELSE Word - Len(writer.leftover)
           remainder == (PartAmount - fill) % Word
           direct    == (PartAmount - fill - remainder) % limit
           last      == [ep.memBuffer EXCEPT !.off = @ + fill + direct]
           buffer    == [last EXCEPT !.off = @ + remainder]
           left      == IF fill = 0 THEN <<>> ELSE writer.leftover
           amount    == (writer.sendAmount - PartAmount) % 256
           front     == Bytes(ep.memBuffer, fill + direct)
           written   == writer.written \o left \o front
           leftover  == Bytes(last, remainder)
<1>1. /\ writer \in [sendCount : 0..epBufferSize, sendAmount : Byte,
                     leftover : Seq(Places), written : Seq(Places)]
      /\ ep.memBuffer \in Places /\ chip \in Chips /\ ep.table \in Tables
  BY DEF TypeOK
<1>2. /\ ep.partNumber \in Nat /\ ep.partNumber + 1 \in 1..Len(ep.table)
      /\ Ends(ep.table)[ep.partNumber] \in Nat
  BY InLoopNumbers
<1> DEFINE off == ep.memBuffer.off
<1>0. /\ off \in Nat /\ PartLength \in Nat
      /\ PartAmount \in Nat /\ PartAmount >= 1 /\ PartAmount <= writer.sendAmount
      /\ off + PartAmount <= PartLength
      /\ PartAmount = writer.sendAmount \/ off + PartAmount = PartLength
      /\ Position \in Nat /\ Position + writer.sendAmount = Packed
      /\ Packed \in Nat /\ Packed <= TotalLength(ep.table)
      /\ TotalLength(ep.table) \in Nat
      /\ writer.sendAmount \in Nat /\ writer.sendAmount <= 255
      /\ writer.sendCount \in Nat
  <2>1. writer.sendAmount \in Nat /\ writer.sendAmount <= 255
    BY <1>1, ByteIsNat
  <2>2. writer.sendCount \in Nat
    BY <1>1, TableAssumption, SMTT(40)
  <2>3. TotalLength(ep.table) \in Nat
    BY <1>1, TablesTyped, Words
  <2>4. /\ off \in Nat /\ PartLength \in Nat
        /\ PartAmount \in 1..writer.sendAmount
        /\ PartAmount <= PartLength - off
        /\ PartAmount = writer.sendAmount \/ PartAmount = PartLength - off
        /\ Position \in Nat /\ Position + writer.sendAmount = Packed
        /\ Packed \in Nat /\ Packed <= asked /\ asked \in Nat
    BY InLoopNumbers
  <2> HIDE DEF off
  <2>5. PartAmount \in Nat /\ PartAmount >= 1 /\ PartAmount <= writer.sendAmount
    BY <2>1, <2>4
  <2>6. off + PartAmount <= PartLength
        /\ (PartAmount = PartLength - off => off + PartAmount = PartLength)
    BY <2>4, <2>5
  <2>7. Packed <= TotalLength(ep.table)
    BY <2>3, <2>4
  <2> QED
    BY <2>1, <2>2, <2>3, <2>4, <2>5, <2>6, <2>7
<1>3. /\ start >= 0 /\ moved >= 0 /\ start % epBufferSize = 0
      /\ writer.sendCount = epBufferSize \/ ep.transferCount = 0
      /\ sent = SubSeq(run, 1, start)
      /\ writer.written \o writer.leftover = SubSeq(run, start + 1, start + moved)
      /\ Len(writer.leftover) = moved % Word /\ Position = start + moved
      /\ ep.memBuffer.part = ep.partNumber + 1
  BY DEF InTheLoop, AtPart
<1>4. Word \in {1, 2, 4} /\ moved \in Nat /\ start \in Nat
  <2>1. moved \in Int /\ start \in Int
    BY <1>0
  <2>2. moved \in Nat /\ start \in Nat
    <3> HIDE DEF moved, start
    <3> QED
      BY <1>3, <2>1
  <2> QED
    BY <1>1, <2>2, WordTyped
<1>5. /\ fill = IF moved % Word = 0 THEN 0 ELSE Word - (moved % Word)
      /\ fill \in Nat /\ fill <= PartAmount
      /\ fill = 0 <=> writer.leftover = <<>>
  <2>1. Len(writer.leftover) \in Nat /\ (writer.leftover = <<>> <=> Len(writer.leftover) = 0)
    BY <1>1, EmptySeq, LenProperties
  <2>2. writer.leftover # <<>> => Word - Len(writer.leftover) <= PartAmount
    BY WordCompleted
  <2> DEFINE kept == Len(writer.leftover)
             rest == moved % Word
  <2>3. fill = IF kept = 0 THEN 0 ELSE Word - kept
    BY <2>1
  <2>4. kept = rest /\ kept \in Nat /\ rest \in Nat /\ Word \in Nat /\ rest < Word
    <3> HIDE DEF moved, fill
    <3>1. \A m \in Nat, w \in {1, 2, 4} : m % w \in Nat /\ m % w < w /\ w \in Nat
      OBVIOUS
    <3>2. moved % Word \in Nat /\ moved % Word < Word /\ Word \in Nat
      BY <1>4, <3>1, Zenon
    <3> QED
      BY <1>3, <2>1, <3>2
  <2>5. PartAmount \in Nat
    BY <1>0
  <2>6. kept # 0 => Word - kept <= PartAmount
    BY <2>1, <2>2
  <2> HIDE DEF kept, rest, fill
  <2>7. /\ fill = IF rest = 0 THEN 0 ELSE Word - rest
        /\ fill \in Nat /\ fill <= PartAmount
        /\ fill = 0 <=> kept = 0
    BY <2>3, <2>4, <2>5, <2>6
  <2>8. fill = IF moved % Word = 0 THEN 0 ELSE Word - (moved % Word)
    BY <2>7 DEF rest
  <2>9. kept = 0 <=> writer.leftover = <<>>
    BY <2>1 DEF kept
  <2> QED
    BY <2>7, <2>8, <2>9
<1>6. writer' = [writer EXCEPT !.sendAmount = amount, !.written = written,
                               !.leftover = leftover]
      /\ ep' = NextPart(buffer)
  BY DEF Turn
<1> HIDE DEF fill, moved, start, run
<1>7. /\ remainder \in Nat /\ direct \in Nat /\ fill + direct + remainder = PartAmount
      /\ remainder = (moved + PartAmount) % Word
  <2> HIDE DEF off
  <2>1. PartAmount <= 255 /\ PartAmount \in Nat
    BY <1>0
  <2>2. LET rest  == (PartAmount - fill) % Word
            whole == (PartAmount - fill - rest) % limit
        IN  /\ rest \in Nat /\ whole \in Nat /\ fill + whole + rest = PartAmount
            /\ rest = (moved + PartAmount) % Word
    <3>1. /\ Word \in {1, 2, 4} /\ moved \in Nat /\ fill \in Nat /\ fill <= PartAmount
          /\ fill = IF moved % Word = 0 THEN 0 ELSE Word - (moved % Word)
      BY <1>4, <1>5
    <3>2. PartAmount \in Nat /\ limit \in Nat /\ limit >= 256
      BY <2>1
    <3> DEFINE word == Word
               size == PartAmount
    <3>3. /\ word \in {1, 2, 4} /\ moved \in Nat /\ fill \in Nat /\ fill <= size
          /\ fill = IF moved % word = 0 THEN 0 ELSE word - (moved % word)
          /\ size \in Nat /\ size <= 255
      BY <2>1, <3>1
    <3> HIDE DEF word, size
    <3> DEFINE rest  == (size - fill) % word
               whole == (size - fill - rest) % limit
    <3>4. rest \in Nat /\ rest <= size - fill
      <4>1. CASE word = 1
        BY <3>3, <4>1
      <4>2. CASE word = 2
        BY <3>3, <4>2
      <4>3. CASE word = 4
        BY <3>3, <4>3
      <4> QED
        BY <3>3, <4>1, <4>2, <4>3
    <3>5. rest = (moved + size) % word
      <4>1. CASE word = 1
        BY <3>3, <4>1
      <4>2. CASE word = 2
        BY <3>3, <4>2
      <4>3. CASE word = 4
        BY <3>3, <4>3
      <4> QED
        BY <3>3, <4>1, <4>2, <4>3
    <3> HIDE DEF rest
    <3>6. whole = size - fill - rest
      <4>1. size - fill - rest \in Nat /\ size - fill - rest < limit
        BY <3>2, <3>3, <3>4
      <4>2. \A a, b \in Nat : a < b => a % b = a
        OBVIOUS
      <4> QED
        BY <3>2, <4>1, <4>2, Zenon
    <3> HIDE DEF whole
    <3>7. whole \in Nat /\ fill + whole + rest = size
      BY <3>3, <3>4, <3>6
    <3> QED
      BY <3>4, <3>5, <3>7 DEF word, size, rest, whole
  <2> QED
    BY <2>2, Zenon
<1> HIDE DEF remainder, direct
<1>8. /\ last \in Places /\ last = [ep.memBuffer EXCEPT !.off = @ + (fill + direct)]
      /\ Bytes(ep.memBuffer, (fill + direct) + remainder) = front \o leftover
  <2>1. ep.memBuffer.off + fill + direct = ep.memBuffer.off + (fill + direct)
    BY <1>0, <1>5, <1>7
  <2>2. last = [ep.memBuffer EXCEPT !.off = @ + (fill + direct)]
    BY <2>1
  <2>3. fill + direct \in Nat
    BY <1>5, <1>7
  <2> HIDE DEF last
  <2> QED
    BY <1>1, <1>7, <2>2, <2>3, BytesSplit
<1>9. buffer \in Places /\ buffer.part = ep.partNumber + 1
      /\ buffer.off = ep.memBuffer.off + PartAmount
  <2>1. last.part = ep.partNumber + 1 /\ last.off = ep.memBuffer.off + (fill + direct)
    BY <1>1, <1>3, <1>8 DEF Places
  <2>2. last.off + remainder = ep.memBuffer.off + PartAmount
        /\ last.off + remainder \in Nat
    <3> DEFINE lastOff == last.off
    <3>1. lastOff = off + (fill + direct)
      BY <2>1
    <3> HIDE DEF lastOff, off, last
    <3>2. lastOff + remainder = off + PartAmount /\ lastOff + remainder \in Nat
      <4>2. /\ off \in Nat /\ PartAmount \in Nat /\ fill \in Nat /\ direct \in Nat
            /\ remainder \in Nat /\ fill + direct + remainder = PartAmount
        BY <1>0, <1>5, <1>7
      <4>3. (off + (fill + direct)) + remainder = off + PartAmount
            /\ (off + (fill + direct)) + remainder \in Nat
        BY <4>2, SMT
      <4> QED
        BY <3>1, <4>3, Zenon
    <3> QED
      BY <3>2 DEF lastOff, off
  <2> HIDE DEF last
  <2> QED
    BY <1>8, <2>1, <2>2 DEF Places
<1> HIDE DEF buffer, last
<1>10. /\ front \in Seq(Places) /\ leftover \in Seq(Places) /\ Len(leftover) = remainder
  <2>1. fill + direct \in Nat
    BY <1>5, <1>7
  <2> QED
    BY <1>1, <1>7, <1>8, <2>1, BytesAre
<1>11. front \o leftover = SubSeq(run, (start + moved) + 1, (start + moved) + PartAmount)
  <2>1. ep.memBuffer = [part |-> ep.partNumber + 1, off |-> ep.memBuffer.off]
    BY <1>1, <1>3 DEF Places
  <2>2. front \o leftover = Bytes(ep.memBuffer, PartAmount)
    BY <1>7, <1>8
  <2>3. ep.table \in Seq(Byte)
    BY <1>1, TablesTyped
  <2>4. ep.memBuffer.off \in 0..ep.table[ep.partNumber + 1]
        /\ PartAmount \in 0..(ep.table[ep.partNumber + 1] - ep.memBuffer.off)
    BY <1>0 DEF PartLength
  <2>5. Ends(ep.table)[(ep.partNumber + 1) - 1] + ep.memBuffer.off = start + moved
    <3>1. (ep.partNumber + 1) - 1 = ep.partNumber
      BY <1>2
    <3> QED
      BY <1>3, <3>1 DEF Position
  <2>6. Bytes([part |-> ep.partNumber + 1, off |-> ep.memBuffer.off], PartAmount)
         = SubSeq(run, (start + moved) + 1, (start + moved) + PartAmount)
    BY <1>2, <2>3, <2>4, <2>5, ReadWithinPart DEF run
  <2> QED
    BY <2>1, <2>2, <2>6
<1>12. written \o leftover = SubSeq(run, start + 1, start + (moved + PartAmount))
  <2>1. left = writer.leftover
    BY <1>5
  <2> HIDE DEF left, front, leftover
  <2>2. written \o leftover = (writer.written \o writer.leftover) \o (front \o leftover)
    <3>1. writer.written \o writer.leftover \in Seq(Places)
      BY <1>1, ConcatProperties
    <3> QED
      <4>1. writer.written \in Seq(Places) /\ writer.leftover \in Seq(Places)
        BY <1>1
      <4>2. (writer.written \o writer.leftover \o front) \o leftover
              = (writer.written \o writer.leftover) \o (front \o leftover)
        <5>1. \A b, c, d \in Seq(Places) :
                (writer.written \o b \o c) \o d = (writer.written \o b) \o (c \o d)
          <6> QED
            BY <4>1, TwoByTwo, Zenon
        <5> QED
          BY <1>10, <4>1, <5>1, Zenon
      <4> QED
        BY <2>1, <4>2
  <2>3. run \in Seq(Places) /\ Len(run) = TotalLength(ep.table)
    <3>1. ep.table \in Seq(Byte) /\ ep.table # <<>>
      BY <1>1, TablesTyped
    <3> QED
      BY <3>1, TableBytesAre DEF run
  <2>4. (start + moved) + PartAmount = start + (moved + PartAmount)
    <3>1. PartAmount \in Nat /\ moved \in Nat /\ start \in Nat
      BY <1>0, <1>4
    <3> QED
      BY <3>1
  <2>5. /\ start + 1 \in 1..(Len(run) + 1) /\ start + moved \in ((start + 1) - 1)..Len(run)
        /\ (start + moved) + PartAmount \in (start + moved)..Len(run)
    <3>1. (start + moved) + PartAmount <= TotalLength(ep.table)
      BY <1>0, <1>3, <1>4
    <3>2. \A s, m, a, n \in Nat : (s + m) + a <= n =>
            /\ s + 1 \in 1..(n + 1) /\ s + m \in ((s + 1) - 1)..n
            /\ (s + m) + a \in (s + m)..n
      OBVIOUS
    <3>3. /\ PartAmount \in Nat /\ moved \in Nat /\ start \in Nat
          /\ TotalLength(ep.table) \in Nat
      BY <1>0, <1>4
    <3>4. LET n == TotalLength(ep.table)
          IN  /\ start + 1 \in 1..(n + 1) /\ start + moved \in ((start + 1) - 1)..n
              /\ (start + moved) + PartAmount \in (start + moved)..n
      BY <3>1, <3>2, <3>3, Zenon
    <3> QED
      BY <2>3, <3>4, Zenon
  <2>6. SubSeq(run, start + 1, start + moved)
          \o SubSeq(run, (start + moved) + 1, (start + moved) + PartAmount)
        = SubSeq(run, start + 1, (start + moved) + PartAmount)
    BY <2>3, <2>5, ConcatAdjacentSubSeq
  <2> QED
    BY <1>3, <1>11, <2>2, <2>4, <2>6
<1>13. amount = writer.sendAmount - PartAmount /\ amount \in Byte
  <2>1. writer.sendAmount - PartAmount \in 0..255
    <3>1. \A s, a \in Nat : a <= s /\ s <= 255 => s - a \in 0..255
      OBVIOUS
    <3>2. /\ writer.sendAmount \in Nat /\ PartAmount \in Nat
          /\ PartAmount <= writer.sendAmount /\ writer.sendAmount <= 255
      BY <1>0
    <3> QED
      BY <3>1, <3>2, Zenon
  <2>2. \A i \in 0..255 : i % 256 = i /\ i \in Byte
    BY DEF Byte
  <2> QED
    BY <2>1, <2>2
<1> HIDE DEF amount, written, leftover
<1>14. /\ writer'.sendAmount = amount /\ writer'.written = written
       /\ writer'.leftover = leftover /\ writer'.sendCount = writer.sendCount
  BY <1>1, <1>6, <1>10
<1>15. ep'.table = ep.table /\ ep'.transferCount = ep.transferCount
  BY <1>6, <1>9, NextPartTyped
<1>16. Packed' = Packed /\ Word' = Word
  BY <1>15 DEF Packed, Word
<1>17. /\ AtPart' /\ Position' = Ends(ep.table)[ep.partNumber] + buffer.off
       /\ buffer.off = PartLength /\ Position' # TotalLength(ep.table) =>
            ep'.memBuffer.off = 0
  <2>1. buffer.off <= PartLength
    BY <1>0, <1>9
  <2> QED
    BY <1>6, <1>9, <2>1, Advanced
<1>18. Position' = start + (moved + PartAmount)
  <2>1. Position = Ends(ep.table)[ep.partNumber] + off
    BY DEF Position
  <2>3. Position = start + moved /\ buffer.off = off + PartAmount
    BY <1>3, <1>9
  <2>4. /\ Ends(ep.table)[ep.partNumber] \in Nat /\ off \in Nat /\ PartAmount \in Nat
        /\ start \in Nat /\ moved \in Nat
    BY <1>0, <1>2, <1>4
  <2> HIDE DEF off
  <2>5. Ends(ep.table)[ep.partNumber] + (off + PartAmount) = start + (moved + PartAmount)
    <3>1. Ends(ep.table)[ep.partNumber] + off = start + moved
      BY <2>1, <2>3, Zenon
    <3> DEFINE ends == Ends(ep.table)[ep.partNumber]
    <3>2. ends \in Nat /\ ends + off = start + moved
      BY <2>4, <3>1
    <3> HIDE DEF ends
    <3>3. ends + (off + PartAmount) = start + (moved + PartAmount)
      BY <2>4, <3>2
    <3> QED
      BY <3>3 DEF ends
  <2> QED
    BY <1>17, <2>3, <2>5
<1>19. writer'.sendCount - writer'.sendAmount = moved + PartAmount
       /\ Packed' - writer'.sendCount = start /\ writer'.sendAmount < writer.sendAmount
  <2> DEFINE toGo  == writer.sendAmount
             part  == PartAmount
             count == writer.sendCount
  <2>1. /\ toGo \in Nat /\ part \in Nat /\ count \in Nat
        /\ part >= 1 /\ part <= toGo
    BY <1>0
  <2>2. /\ writer'.sendCount = count /\ writer'.sendAmount = toGo - part
        /\ Packed' - writer'.sendCount = Packed - count
    BY <1>13, <1>14, <1>16
  <2>3. moved = count - toGo /\ start = Packed - count
    BY DEF moved, start
  <2> HIDE DEF toGo, part, count
  <2>4. count - (toGo - part) = (count - toGo) + part /\ toGo - part < toGo
    BY <2>1, SMT
  <2>5. /\ writer'.sendCount - writer'.sendAmount = moved + part
        /\ Packed' - writer'.sendCount = start /\ writer'.sendAmount < toGo
    BY <2>2, <2>3, <2>4
  <2> QED
    BY <2>5 DEF toGo, part
<1>20. writer'.sendAmount # 0 => ep'.memBuffer.off = 0
  <2>1. SUFFICES ASSUME writer'.sendAmount # 0 PROVE ep'.memBuffer.off = 0
    OBVIOUS
  <2>2. buffer.off = PartLength
    BY <1>0, <1>9, <1>13, <1>14, <2>1
  <2>3. Position' # TotalLength(ep.table)
    <3> DEFINE whole == TotalLength(ep.table)
               here == Position
               toGo == writer.sendAmount
               part == PartAmount
    <3>1. /\ here = start + moved /\ here + toGo = Packed /\ Packed <= whole
          /\ part <= toGo /\ toGo - part # 0
      BY <1>0, <1>3, <1>13, <1>14, <2>1
    <3>2. /\ here \in Nat /\ toGo \in Nat /\ part \in Nat /\ Packed \in Nat
          /\ whole \in Nat /\ start \in Nat /\ moved \in Nat
      BY <1>0, <1>4
    <3> HIDE DEF whole, here, toGo, part
    <3>3. start + (moved + part) # whole
      BY <3>1, <3>2, SMT
    <3> QED
      BY <1>18, <3>3 DEF whole, part
  <2> QED
    BY <1>17, <2>2, <2>3
<1>21. moved + PartAmount >= 0
  BY <1>0, <1>4
<1> QED
  BY <1>3, <1>7, <1>10, <1>12, <1>14, <1>15, <1>16, <1>17, <1>18, <1>19, <1>20, <1>21
     DEF InTheLoop, run

-----------------------------------------------------------------------------
(* Every step keeps the invariant.                                         *)

LEMMA SmallerIs ==
  \A a, b \in Nat : /\ Smaller(a, b) \in Nat /\ Smaller(a, b) <= a /\ Smaller(a, b) <= b
                    /\ Smaller(a, b) = a \/ Smaller(a, b) = b
BY DEF Smaller

LEMMA SendCountIs ==
  ASSUME TypeOK
  PROVE  /\ SendCount \in 0..epBufferSize /\ SendCount \in Byte /\ SendCount \in Nat
         /\ SendCount <= ep.transferCount
         /\ SendCount = epBufferSize \/ SendCount = ep.transferCount
         /\ ep.transferCount - SendCount \in Word16
         /\ epBufferSize \in Nat /\ epBufferSize <= 64
<1>1. epBufferSize \in Nat /\ epBufferSize <= 64
  BY TableAssumption
<1>2. ep.transferCount \in Nat /\ ep.transferCount <= UINT16_MAX
  BY Words DEF TypeOK
<1> DEFINE count == SendCount
           total == ep.transferCount
<1>3. /\ count \in Nat /\ count <= total /\ count <= epBufferSize
      /\ count = total \/ count = epBufferSize
  BY <1>1, <1>2, SmallerIs DEF SendCount
<1> HIDE DEF count, total
<1>4. count \in 0..epBufferSize /\ count \in Byte
  BY <1>1, <1>3 DEF Byte
<1>5. total - count \in Word16
  <2>1. total \in Nat /\ total <= UINT16_MAX
    BY <1>2 DEF total
  <2>2. total - count \in Nat /\ total - count <= UINT16_MAX
    BY <1>3, <2>1, Words
  <2> QED
    BY <2>2, Words
<1> QED
  BY <1>1, <1>3, <1>4, <1>5 DEF count, total

LEMMA InitInv == Init => Inv
<1>1. SUFFICES ASSUME Init PROVE Inv
  OBVIOUS
<1>2. /\ chip \in Chips /\ pc = "idle" /\ asked = 0 /\ sent = <<>>
      /\ writer = [sendCount |-> 0, sendAmount |-> 0, leftover |-> <<>>, written |-> <<>>]
      /\ ep \in [table : Tables, transferCount : {0}, partNumber : {0},
                 memBuffer : {NullPtr}, isMultiPart : {FALSE}]
  BY <1>1, Zenon DEF Init
<1>3. /\ ep \in [table : Tables, transferCount : {0}, partNumber : {0},
                 memBuffer : {NullPtr}, isMultiPart : {FALSE}]
      /\ ep.table \in Tables /\ ep.transferCount = 0 /\ ep.partNumber = 0
  BY <1>2
<1>4. 0 \in Byte /\ 0 \in Word16 /\ 0 \in 0..epBufferSize
  BY TableAssumption, Words DEF Byte
<1>5. Len(ep.table) \in 1..256 /\ TotalLength(ep.table) \in Word16
      /\ ep.table \in Seq(Byte) /\ ep.table # <<>>
  BY <1>3, TablesTyped
<1>6. <<>> \in Seq(Places) /\ Len(<<>>) = 0
  BY EmptySeq
<1>7. /\ writer \in [sendCount : 0..epBufferSize, sendAmount : Byte,
                     leftover : Seq(Places), written : Seq(Places)]
      /\ writer.leftover = <<>>
  BY <1>2, <1>4, <1>6
<1>8. ep \in [table : Tables, transferCount : Word16, partNumber : Byte,
              memBuffer : Places, isMultiPart : BOOLEAN]
  BY <1>3, <1>4, NullPtrTyped
<1>9. ep.partNumber < Len(ep.table)
  BY <1>3, <1>5
<1>10. TypeOK
  BY <1>2, <1>4, <1>6, <1>7, <1>8, <1>9 DEF TypeOK
<1>11. Len(writer.leftover) < Word
  BY <1>2, <1>6, <1>7, WordTyped
<1>12. asked <= TotalLength(ep.table) /\ ep.transferCount <= asked
  <2>1. TotalLength(ep.table) \in Nat
    BY <1>5, Words
  <2> QED
    BY <1>2, <1>3, <2>1
<1>13. Between
  <2>1. Packed = 0
    BY <1>2, <1>3 DEF Packed
  <2>2. SubSeq(TableBytes(ep.table), 1, 0) = <<>>
    BY SubSeqEmpty
  <2> QED
    BY <1>2, <1>3, <2>1, <2>2 DEF Between
<1>14. InOrder
  BY <1>2, <1>13 DEF InOrder
<1> QED
  BY <1>10, <1>11, <1>12, <1>14 DEF Inv

LEMMA GetDescriptorKeepsInv ==
  ASSUME Inv, NEW table \in Tables, NEW length \in Lengths,
         HandleGetDescriptor(table, length)
  PROVE  Inv'
<1> DEFINE count == Smaller(TotalLength(table), length)
<1>1. TypeOK
  BY DEF Inv
<1>2. /\ pc' = "write" /\ chip' = chip /\ writer' = writer /\ asked' = count /\ sent' = <<>>
      /\ ep' = [table |-> table, transferCount |-> count, partNumber |-> 0,
                memBuffer |-> NullPtr, isMultiPart |-> TRUE]
  BY DEF HandleGetDescriptor
<1>3. Len(table) \in 1..256 /\ TotalLength(table) \in Word16 /\ table \in Seq(Byte)
  BY TablesTyped
<1>4. count \in Word16 /\ count \in Nat /\ count <= TotalLength(table)
      /\ TotalLength(table) \in Nat
  <2>1. TotalLength(table) \in Nat /\ TotalLength(table) <= UINT16_MAX /\ length \in Nat
    <3>1. length \in Word16
      BY TableAssumption, Zenon
    <3> QED
      BY <1>3, <3>1, Words
  <2>2. count \in Nat /\ count <= TotalLength(table)
    BY <2>1, SmallerIs, Zenon
  <2> HIDE DEF count
  <2>3. count <= UINT16_MAX
    BY <2>1, <2>2, Words
  <2> QED
    BY <2>1, <2>2, <2>3, Words
<1> HIDE DEF count
<1>5. TypeOK'
  <2>1. 0 \in Byte /\ 0 < Len(table)
    <3>1. 0 \in Byte /\ \A n \in 1..256 : 0 < n
      BY DEF Byte
    <3> QED
      BY <1>3, <3>1
  <2>2. ep' \in [table : Tables, transferCount : Word16, partNumber : Byte,
                 memBuffer : Places, isMultiPart : BOOLEAN]
        /\ ep'.partNumber < Len(ep'.table)
    BY <1>2, <1>4, <2>1, NullPtrTyped
  <2>3. <<>> \in Seq(Places)
    BY EmptySeq
  <2> QED
    BY <1>1, <1>2, <1>4, <2>2, <2>3 DEF TypeOK
<1>6. Len(writer'.leftover) < Word'
  BY <1>2 DEF Inv, Word
<1>7. asked' <= TotalLength(ep'.table) /\ ep'.transferCount <= asked'
  BY <1>2, <1>4
<1>8. InOrder'
  BY <1>2 DEF InOrder
<1> QED
  BY <1>5, <1>6, <1>7, <1>8 DEF Inv

LEMMA WriteEPKeepsInv ==
  ASSUME Inv, WriteEP
  PROVE  Inv'
<1> DEFINE count   == SendCount
           pointer == IF ep.memBuffer = NullPtr THEN Begin(0) ELSE ep.memBuffer
           total   == ep.transferCount
<1>1. /\ TypeOK /\ asked <= TotalLength(ep.table) /\ total <= asked
      /\ Supported => InOrder
  BY DEF Inv
<1>2. /\ pc = "write" \/ (pc = "idle" /\ total # 0)
      /\ pc' = "loop" /\ chip' = chip /\ asked' = asked /\ sent' = sent
      /\ ep' = [ep EXCEPT !.transferCount = total - count, !.memBuffer = pointer]
      /\ writer' = [sendCount |-> count, sendAmount |-> count,
                    leftover |-> <<>>, written |-> <<>>]
  BY DEF WriteEP
<1>3. /\ ep \in [table : Tables, transferCount : Word16, partNumber : Byte,
                 memBuffer : Places, isMultiPart : BOOLEAN]
      /\ ep.partNumber < Len(ep.table) /\ asked \in Nat /\ total \in Nat
      /\ chip \in Chips /\ pc' = "loop" /\ sent \in Seq(Places) /\ asked \in Word16
  BY <1>1, <1>2, Words DEF TypeOK
<1>4. /\ count \in 0..epBufferSize /\ count \in Byte /\ count \in Nat
      /\ count <= total
      /\ count = epBufferSize \/ count = total
      /\ total - count \in Word16
      /\ epBufferSize \in Nat /\ epBufferSize > 0
  BY <1>1, SendCountIs, TableAssumption
<1>5. pointer \in Places
  BY <1>3, NullPtrTyped
<1> HIDE DEF count, pointer, total
<1>6. /\ ep' \in [table : Tables, transferCount : Word16, partNumber : Byte,
                  memBuffer : Places, isMultiPart : BOOLEAN]
      /\ ep'.table = ep.table /\ ep'.partNumber = ep.partNumber
      /\ ep'.transferCount = total - count /\ ep'.memBuffer = pointer
  BY <1>2, <1>3, <1>4, <1>5
<1>7. /\ writer'.sendCount = count /\ writer'.sendAmount = count
      /\ writer'.leftover = <<>> /\ writer'.written = <<>>
  BY <1>2
<1>8. <<>> \in Seq(Places) /\ Len(<<>>) = 0 /\ <<>> \o <<>> = <<>>
  BY EmptySeq, ConcatEmptySeq
<1>9. TypeOK'
  <2>1. writer' \in [sendCount : 0..epBufferSize, sendAmount : Byte,
                     leftover : Seq(Places), written : Seq(Places)]
    BY <1>2, <1>4, <1>8
  <2>2. Len(writer'.leftover) < 4
    BY <1>7, <1>8
  <2> QED
    BY <1>2, <1>3, <1>6, <2>1, <2>2 DEF TypeOK
<1>10. Len(writer'.leftover) < Word'
  <2>1. Word' \in {1, 2, 4}
    <3>1. Word' = Word
      BY <1>2 DEF Word
    <3> QED
      BY <1>3, <3>1, WordTyped
  <2> QED
    BY <1>7, <1>8, <2>1
<1>11. asked' <= TotalLength(ep'.table) /\ ep'.transferCount <= asked'
  BY <1>1, <1>2, <1>3, <1>4, <1>6 DEF total
<1>12. ASSUME Supported' PROVE InTheLoop'
  <2>1. InOrder
    <3>1. Supported
      BY <1>2, <1>6, <1>12 DEF Supported, WordsAreCompleted
    <3> QED
      BY <1>1, <3>1
  <2> DEFINE before == asked - total
  <2>2. before \in Nat
    BY <1>1, <1>3 DEF total
  <2>3. /\ sent = SubSeq(TableBytes(ep.table), 1, before) /\ before % epBufferSize = 0
        /\ pointer.part = ep.partNumber + 1
        /\ pointer.off \in 0..PartLength
        /\ pointer.off = PartLength => ep.partNumber + 1 = Len(ep.table)
        /\ Ends(ep.table)[ep.partNumber] + pointer.off = before
    <3>1. CASE pc = "write"
      <4>1. sent = <<>> /\ total = asked /\ ep.memBuffer = NullPtr /\ ep.partNumber = 0
        BY <2>1, <3>1 DEF InOrder, total
      <4>2. before = 0
        BY <1>3, <4>1
      <4>3. SubSeq(TableBytes(ep.table), 1, 0) = <<>>
        BY SubSeqEmpty
      <4>4. pointer = [part |-> 1, off |-> 0]
        BY <4>1 DEF pointer, Begin
      <4>5. /\ Len(ep.table) \in 1..256 /\ ep.table \in Seq(Byte)
            /\ \A p \in 1..Len(ep.table) :
                 ep.table[p] \in Byte /\ (ep.table[p] = 0 => p = Len(ep.table) /\ p # 1)
        BY <1>3, TablesTyped
      <4>6. PartLength \in Nat /\ PartLength # 0
        <5>1. 1 \in 1..Len(ep.table) /\ 0 + 1 = 1
          <6>1. 0 + 1 = 1 /\ \A n \in 1..256 : 1 \in 1..n
            OBVIOUS
          <6> QED
            BY <4>5, <6>1
        <5>2. ep.table[1] \in Byte /\ ep.table[1] # 0
          BY <4>5, <5>1
        <5>3. PartLength = ep.table[1]
          BY <4>1, <5>1 DEF PartLength
        <5> QED
          BY <5>2, <5>3, ByteIsNat
      <4>7. Ends(ep.table)[0] = 0
        BY <4>5, EndsAre
      <4>8. 0 % epBufferSize = 0
        BY <1>4
      <4> HIDE DEF before
      <4> QED
        BY <4>1, <4>2, <4>3, <4>4, <4>6, <4>7, <4>8
    <3>2. CASE pc = "idle" /\ total # 0
      <4>1. /\ sent = SubSeq(TableBytes(ep.table), 1, Packed)
            /\ AtPart /\ Position = Packed /\ Packed % epBufferSize = 0
        BY <2>1, <3>2 DEF InOrder, Between, total
      <4>2. Packed = before
        BY DEF Packed, total
      <4>3. ep.memBuffer # NullPtr
        <5>1. ep.memBuffer.part = ep.partNumber + 1 /\ ep.partNumber \in Nat
          BY <1>3, <4>1, ByteIsNat DEF AtPart
        <5> QED
          BY <5>1 DEF NullPtr
      <4>4. pointer = ep.memBuffer
        BY <4>3 DEF pointer
      <4> HIDE DEF before
      <4> QED
        BY <4>1, <4>2, <4>4 DEF AtPart, Position
    <3> QED
      BY <1>2, <3>1, <3>2
  <2>4. /\ Packed' - writer'.sendCount = before
        /\ writer'.sendCount - writer'.sendAmount = 0
        /\ writer'.sendCount = epBufferSize \/ ep'.transferCount = 0
    <3>1. Packed' = asked - (total - count)
      BY <1>2, <1>6 DEF Packed
    <3>2. (asked - (total - count)) - count = asked - total
          /\ count - count = 0 /\ (count = total => total - count = 0)
      BY <1>3, <1>4
    <3> QED
      BY <1>4, <1>6, <1>7, <3>1, <3>2
  <2>5. before + 0 = before /\ SubSeq(TableBytes(ep.table), before + 1, before + 0) = <<>>
    <3>1. before + 0 = before /\ before + 1 \in Int /\ before < before + 1 /\ before \in Int
      BY <2>2
    <3> HIDE DEF before
    <3> QED
      BY <3>1, SubSeqEmpty
  <2>6. /\ PartLength' = PartLength
        /\ Position' = Ends(ep.table)[ep.partNumber] + pointer.off
    BY <1>6 DEF PartLength, Position
  <2>7. AtPart'
    BY <1>6, <2>3, <2>6 DEF AtPart
  <2>8. 0 % Word' = 0
    <3>1. Word' = Word
      BY <1>2 DEF Word
    <3>2. \A w \in {1, 2, 4} : 0 % w = 0
      OBVIOUS
    <3> QED
      BY <1>3, <3>1, <3>2, WordTyped
  <2> HIDE DEF before
  <2>9. /\ sent' = SubSeq(TableBytes(ep'.table), 1, before)
        /\ writer'.written \o writer'.leftover
             = SubSeq(TableBytes(ep'.table), before + 1, before + 0)
        /\ Len(writer'.leftover) = 0 % Word'
        /\ Position' = before + 0
    BY <1>2, <1>6, <1>7, <1>8, <2>3, <2>5, <2>6, <2>8
  <2> QED
    BY <2>2, <2>3, <2>4, <2>7, <2>9 DEF InTheLoop
<1>13. Supported' => InOrder'
  BY <1>2, <1>12 DEF InOrder
<1> QED
  BY <1>9, <1>10, <1>11, <1>13 DEF Inv

LEMMA TurnKeepsInv ==
  ASSUME Inv, NEW limit \in Nat, limit >= 256, pc = "loop", writer.sendAmount # 0,
         UNCHANGED <<chip, pc, asked, sent>>, Turn(Word, limit)
  PROVE  /\ Inv'
         /\ Supported => /\ writer'.sendAmount < writer.sendAmount
                         /\ ep'.memBuffer.off <= ep'.table[ep'.partNumber + 1]
<1>1. /\ TypeOK /\ asked <= TotalLength(ep.table) /\ ep.transferCount <= asked
      /\ Len(writer.leftover) < Word /\ (Supported => InTheLoop)
  BY DEF Inv, InOrder
<1>2. Word \in {1, 2, 4}
  BY <1>1, WordTyped DEF TypeOK
<1>3. /\ TypeOK' /\ Len(writer'.leftover) < Word
      /\ ep'.table = ep.table /\ ep'.transferCount = ep.transferCount
  BY <1>1, <1>2, TurnTyped
<1>4. ASSUME Supported PROVE InTheLoop' /\ writer'.sendAmount < writer.sendAmount
  BY <1>1, <1>4, TurnInOrder
<1>5. Word' = Word /\ (Supported' <=> Supported)
  BY <1>3 DEF Word, Supported, WordsAreCompleted
<1>6. ASSUME Supported PROVE ep'.memBuffer.off <= ep'.table[ep'.partNumber + 1]
  <2>1. AtPart'
    BY <1>4, <1>6 DEF InTheLoop
  <2>2. ep'.memBuffer.off \in 0..ep'.table[ep'.partNumber + 1]
    BY <2>1 DEF AtPart, PartLength
  <2> QED
    BY <2>2
<1>7. Inv'
  BY <1>1, <1>3, <1>4, <1>5 DEF Inv, InOrder
<1> QED
  BY <1>4, <1>6, <1>7

LEMMA ATurn ==
  ASSUME TypeOK, Stm32f1Turn \/ Tm4cTurn \/ AtxmegaTurn
  PROVE  /\ pc = "loop" /\ writer.sendAmount # 0 /\ UNCHANGED <<chip, pc, asked, sent>>
         /\ \E limit \in Nat : limit >= 256 /\ Turn(Word, limit)
<1>1. /\ chip \in Chips /\ UINT16_MAX + 1 \in Nat /\ UINT16_MAX + 1 >= 256
      /\ 256 \in Nat /\ 256 >= 256
  BY Words DEF TypeOK
<1>2. CASE Stm32f1Turn
  BY <1>1, <1>2, WordTyped DEF Stm32f1Turn, InLoop
<1>3. CASE Tm4cTurn
  BY <1>1, <1>3, WordTyped DEF Tm4cTurn, InLoop
<1>4. CASE AtxmegaTurn
  BY <1>1, <1>4, WordTyped DEF AtxmegaTurn, InLoop
<1> QED
  BY <1>2, <1>3, <1>4

\* What is sent of the packet memory is what was written to it, if that is all.
LEMMA BufferIsWritten ==
  ASSUME NEW written \in Seq(Places)
  PROVE  FromBuffer(written, Len(written)) = written
<1> DEFINE n == Len(written)
           b == FromBuffer(written, n)
<1>1. n \in Nat /\ \A i \in 1..n : i <= n /\ written[i] \in Places
  <2>1. n \in Nat
    BY LenProperties
  <2>2. \A i \in 1..n : written[i] \in Places
    BY ElementOfSeq
  <2>3. \A i \in 1..n : i <= n
    BY <2>1
  <2> QED
    BY <2>1, <2>2, <2>3
<1>2. b = [i \in 1..n |-> written[i]]
  <2>1. b = [i \in 1..n |-> IF i <= n THEN written[i] ELSE Stale]
    BY DEF FromBuffer
  <2> HIDE DEF b, n
  <2> QED
    BY <1>1, <2>1
<1>3. b \in Seq(Places) /\ Len(b) = n
  <2>1. b \in [1..n -> Places]
    BY <1>1, <1>2
  <2> HIDE DEF b, n
  <2> QED
    BY <1>1, <2>1, SeqOfFunction
<1>4. \A i \in 1..n : b[i] = written[i]
  BY <1>2
<1> HIDE DEF b
<1> QED
  BY <1>3, <1>4, SeqEqual DEF b

LEMMA BufferTyped ==
  ASSUME NEW written \in Seq(Places), NEW count \in Nat
  PROVE  FromBuffer(written, count) \in Seq(Places)
<1> DEFINE b == FromBuffer(written, count)
<1>1. \A i \in 1..count : i <= Len(written) => written[i] \in Places
  <2>1. Len(written) \in Nat
    BY LenProperties
  <2>2. \A i \in 1..count : i <= Len(written) => i \in 1..Len(written)
    BY <2>1
  <2> QED
    BY <2>2, ElementOfSeq
<1>2. b \in [1..count -> Places]
  BY <1>1, NullPtrTyped DEF FromBuffer
<1> HIDE DEF b
<1> QED
  BY <1>2, SeqOfFunction DEF b

LEMMA EndPacketKeepsInv ==
  ASSUME Inv, EndPacket
  PROVE  Inv'
<1> DEFINE written == writer.written \o
                        (IF ep.transferCount = 0 THEN writer.leftover ELSE <<>>)
           packet  == IF chip = "tm4c123gh6pm" THEN FromFIFO(written)
                      ELSE FromBuffer(written, writer.sendCount)
           multi   == ep.isMultiPart /\ ep.transferCount # 0
<1>1. /\ TypeOK /\ asked <= TotalLength(ep.table) /\ ep.transferCount <= asked
      /\ Len(writer.leftover) < Word
  BY DEF Inv
<1>2. /\ pc = "loop" /\ writer.sendAmount = 0 /\ pc' = "idle" /\ chip' = chip
      /\ asked' = asked /\ sent' = sent \o packet
      /\ ep' = [ep EXCEPT !.isMultiPart = multi]
      /\ writer' = [writer EXCEPT !.written = <<>>, !.leftover = <<>>]
  BY DEF EndPacket
<1>3. /\ writer \in [sendCount : 0..epBufferSize, sendAmount : Byte,
                     leftover : Seq(Places), written : Seq(Places)]
      /\ ep \in [table : Tables, transferCount : Word16, partNumber : Byte,
                 memBuffer : Places, isMultiPart : BOOLEAN]
      /\ ep.partNumber < Len(ep.table) /\ asked \in Nat /\ ep.transferCount \in Nat
      /\ chip \in Chips /\ sent \in Seq(Places) /\ asked \in Word16
  BY <1>1, Words DEF TypeOK
<1>4. writer.sendCount \in Nat /\ epBufferSize \in Nat
  BY <1>3, TableAssumption
<1>5. <<>> \in Seq(Places) /\ Len(<<>>) = 0
  BY EmptySeq
<1>6. written \in Seq(Places)
  BY <1>3, <1>5, ConcatProperties
<1> HIDE DEF written
<1>7. packet \in Seq(Places)
  BY <1>4, <1>6, BufferTyped DEF FromFIFO
<1> HIDE DEF packet, multi
<1>8. /\ ep'.table = ep.table /\ ep'.partNumber = ep.partNumber
      /\ ep'.transferCount = ep.transferCount /\ ep'.memBuffer = ep.memBuffer
      /\ ep' \in [table : Tables, transferCount : Word16, partNumber : Byte,
                  memBuffer : Places, isMultiPart : BOOLEAN]
  BY <1>2, <1>3 DEF multi
<1>9. TypeOK'
  <2>1. sent \o packet \in Seq(Places)
    BY <1>3, <1>7, ConcatProperties
  <2>2. writer' \in [sendCount : 0..epBufferSize, sendAmount : Byte,
                     leftover : Seq(Places), written : Seq(Places)]
        /\ Len(writer'.leftover) < 4
    <3>1. writer' = [sendCount |-> writer.sendCount, sendAmount |-> writer.sendAmount,
                     leftover |-> <<>>, written |-> <<>>]
      BY <1>2, <1>3
    <3> QED
      BY <1>3, <1>5, <3>1
  <2> QED
    BY <1>2, <1>3, <1>8, <2>1, <2>2 DEF TypeOK
<1>10. Len(writer'.leftover) < Word'
  <2>1. Word' = Word /\ Word \in {1, 2, 4} /\ writer'.leftover = <<>>
    BY <1>2, <1>3, WordTyped DEF Word
  <2> QED
    BY <1>5, <2>1
<1>11. asked' <= TotalLength(ep'.table) /\ ep'.transferCount <= asked'
  BY <1>1, <1>2, <1>8
<1>12. ASSUME Supported' PROVE Between'
  <2>1. InTheLoop
    <3>1. Supported
      BY <1>2, <1>8, <1>12 DEF Supported, WordsAreCompleted
    <3> QED
      BY <1>2, <3>1 DEF Inv, InOrder
  <2> DEFINE start == Packed - writer.sendCount
             moved == writer.sendCount - writer.sendAmount
             run   == TableBytes(ep.table)
  <2>2. /\ start >= 0 /\ start % epBufferSize = 0
        /\ writer.sendCount = epBufferSize \/ ep.transferCount = 0
        /\ sent = SubSeq(run, 1, start)
        /\ writer.written \o writer.leftover = SubSeq(run, start + 1, start + moved)
        /\ Len(writer.leftover) = moved % Word
        /\ AtPart /\ Position = start + moved
    BY <2>1 DEF InTheLoop
  <2>3. Packed \in Nat /\ Packed <= asked
    BY <1>1, <1>3 DEF Packed
  <2>4. moved = writer.sendCount /\ start \in Nat /\ start + moved = Packed
        /\ start <= Packed /\ Packed - start = writer.sendCount
    BY <1>2, <1>4, <2>2, <2>3
  <2>5. /\ run \in Seq(Places) /\ Len(run) = TotalLength(ep.table)
        /\ TotalLength(ep.table) \in Nat
    <3>1. ep.table \in Seq(Byte) /\ ep.table # <<>> /\ TotalLength(ep.table) \in Nat
      BY <1>3, TablesTyped, Words
    <3> QED
      BY <3>1, TableBytesAre
  <2> HIDE DEF start, moved, run
  <2>6. written = SubSeq(run, start + 1, Packed)
    <3>1. CASE ep.transferCount = 0
      BY <2>2, <2>4, <3>1 DEF written
    <3>2. CASE ep.transferCount # 0
      <4>1. writer.sendCount = epBufferSize
        BY <2>2, <3>2
      <4>2. \A n \in {8, 16, 32, 64}, w \in {1, 2, 4} : n % w = 0
        OBVIOUS
      <4>3. Len(writer.leftover) = 0
        <5>1. epBufferSize \in {8, 16, 32, 64} /\ Word \in {1, 2, 4}
          BY <1>3, WordTyped, TableAssumption, Zenon
        <5>2. epBufferSize % Word = 0
          BY <4>2, <5>1, Zenon
        <5> QED
          BY <2>2, <2>4, <4>1, <5>2
      <4>4. writer.leftover = <<>>
        BY <1>3, <4>3, EmptySeq
      <4> QED
        BY <2>2, <2>4, <3>2, <4>4 DEF written
    <3> QED
      BY <3>1, <3>2
  <2>7. /\ start + 1 \in 1..(Len(run) + 1) /\ start \in (1 - 1)..Len(run)
        /\ Packed \in start..Len(run) /\ 1 \in 1..(Len(run) + 1)
    <3>1. \A a, p, n \in Nat : a <= p /\ p <= n =>
            /\ a + 1 \in 1..(n + 1) /\ a \in (1 - 1)..n
            /\ p \in a..n /\ 1 \in 1..(n + 1)
      OBVIOUS
    <3>2. Packed <= TotalLength(ep.table)
      BY <1>1, <1>3, <2>3, <2>5
    <3> QED
      BY <2>3, <2>4, <2>5, <3>1, <3>2
  <2>8. Len(written) = writer.sendCount
    <3>1. \A i \in (start + 1)..Packed : run[i] \in Places
      <4>1. \A i \in (start + 1)..Packed : i \in 1..Len(run)
        BY <2>4, <2>7
      <4> QED
        BY <2>5, <4>1, ElementOfSeq
    <3>2. Len(SubSeq(run, start + 1, Packed))
            = IF start + 1 <= Packed THEN Packed - (start + 1) + 1 ELSE 0
      <4>1. start + 1 \in Int /\ Packed \in Int
        BY <2>3, <2>4
      <4> QED
        BY <3>1, <4>1, SubSeqProperties
    <3>3. \A a, p \in Nat : a <= p =>
            p - a = IF a + 1 <= p THEN p - (a + 1) + 1 ELSE 0
      OBVIOUS
    <3> QED
      BY <2>3, <2>4, <2>6, <3>2, <3>3
  <2>9. packet = written
    BY <1>6, <2>8, BufferIsWritten DEF packet, FromFIFO
  <2>10. sent' = SubSeq(run, 1, Packed)
    <3>1. SubSeq(run, 1, start) \o SubSeq(run, start + 1, Packed) = SubSeq(run, 1, Packed)
      BY <2>5, <2>7, ConcatAdjacentSubSeq
    <3> QED
      BY <1>2, <2>2, <2>6, <2>9, <3>1
  <2>11. /\ Packed' = Packed /\ Position' = Position /\ (AtPart' <=> AtPart)
         /\ TableBytes(ep'.table) = run
    BY <1>2, <1>8 DEF Packed, Position, AtPart, PartLength, run
  <2>12. ep.transferCount # 0 => Packed % epBufferSize = 0
    <3>1. SUFFICES ASSUME ep.transferCount # 0 PROVE Packed % epBufferSize = 0
      OBVIOUS
    <3>2. Packed = start + epBufferSize
      BY <2>2, <2>4, <3>1
    <3>3. \A a \in Nat : \A n \in {8, 16, 32, 64} : a % n = 0 => (a + n) % n = 0
      OBVIOUS
    <3>4. epBufferSize \in {8, 16, 32, 64}
      BY TableAssumption, Zenon
    <3>5. (start + epBufferSize) % epBufferSize = 0
      BY <2>2, <2>4, <3>3, <3>4, Zenon
    <3> QED
      BY <3>2, <3>5
  <2> QED
    BY <1>8, <2>2, <2>4, <2>10, <2>11, <2>12 DEF Between
<1>13. Supported' => InOrder'
  BY <1>2, <1>12 DEF InOrder
<1> QED
  BY <1>9, <1>10, <1>11, <1>13 DEF Inv

LEMMA NextKeepsInv == Inv /\ [Next]_vars => Inv'
<1>1. SUFFICES ASSUME Inv, [Next]_vars PROVE Inv'
  OBVIOUS
<1>2. ASSUME NEW table \in Tables, NEW length \in Lengths,
             HandleGetDescriptor(table, length)
      PROVE  Inv'
  BY <1>1, <1>2, GetDescriptorKeepsInv
<1>3. CASE WriteEP
  BY <1>1, <1>3, WriteEPKeepsInv
<1>4. CASE Stm32f1Turn \/ Tm4cTurn \/ AtxmegaTurn
  <2>1. TypeOK
    BY <1>1 DEF Inv
  <2> QED
    BY <1>1, <1>4, <2>1, ATurn, TurnKeepsInv
<1>5. CASE EndPacket
  BY <1>1, <1>5, EndPacketKeepsInv
<1>6. CASE UNCHANGED vars
  BY <1>1, <1>6
     DEF vars, Inv, TypeOK, Word, Supported, WordsAreCompleted, InOrder, Between,
         InTheLoop, AtPart, Position, Packed, PartLength
<1> QED
  BY <1>1, <1>2, <1>3, <1>4, <1>5, <1>6 DEF Next

-----------------------------------------------------------------------------
(* The theorems.                                                           *)

\* The invariant holds in every reachable state, for every packet size, every
\* set of tables the build may have and every length asked for.
THEOREM Invariance == Spec => []Inv
BY InitInv, NextKeepsInv, PTL DEF Spec

\* Every variable of the writers keeps its type, the 8-bit counters included.
THEOREM TypeCorrect == Spec => []TypeOK
<1>1. Inv => TypeOK
  BY DEF Inv
<1> QED
  BY <1>1, Invariance, PTL

\* Between packets the host has the first bytes of the table, none missing and
\* none twice (writeEPMultipart(), src/stm32f1/core.cxx:267): on stm32f1 and
\* atxmega256a3u for every length asked for; on tm4c123gh6pm for the tables and
\* lengths that leave each part enough bytes to complete the word begun before
\* it, the reads that the 8-bit length of src/tm4c123gh6pm/core.cxx:295 is right
\* for.
THEOREM HostGetsTheTable == Spec => []PacketsHoldTheTable
<1>1. Inv => PacketsHoldTheTable
  <2>1. SUFFICES ASSUME Inv, pc # "loop", Supported
                 PROVE  FirstBytes
    BY DEF PacketsHoldTheTable
  <2>2. CASE pc = "write"
    <3>1. sent = <<>>
      BY <2>1, <2>2 DEF Inv, InOrder
    <3>2. SubSeq(TableBytes(ep.table), 1, 0) = <<>>
      BY SubSeqEmpty
    <3> QED
      BY <2>2, <3>1, <3>2 DEF FirstBytes
  <2>3. CASE pc = "idle"
    BY <2>1, <2>3 DEF Inv, InOrder, Between, Packed, FirstBytes
  <2> QED
    BY <2>1, <2>2, <2>3 DEF Inv, TypeOK
<1> QED
  BY <1>1, Invariance, PTL

\* In a build for stm32f1 or atxmega256a3u the host may cut the read of any table
\* at any length.  On tm4c123gh6pm it may not: the run multipart_cut_part.
THEOREM AnyCutIsServed ==
  ASSUME "tm4c123gh6pm" \notin Chips
  PROVE  Spec => []AnyCutHoldsTheTable
<1>1. TypeOK /\ PacketsHoldTheTable => AnyCutHoldsTheTable
  BY DEF TypeOK, PacketsHoldTheTable, Supported, AnyCutHoldsTheTable
<1> QED
  BY <1>1, TypeCorrect, HostGetsTheTable, PTL

\* Every turn of the loop takes from the packet's count and leaves the pointer
\* within a part, so the loop ends (src/stm32f1/core.cxx:281); on tm4c123gh6pm
\* for the reads that WordsAreCompleted allows.
THEOREM TurnsSend == Spec => EveryTurnSends
<1>1. Inv /\ [Next]_vars =>
        [pc = "loop" /\ pc' = "loop" /\ Supported =>
           /\ writer'.sendAmount < writer.sendAmount
           /\ ep'.memBuffer.off <= ep'.table[ep'.partNumber + 1]]_vars
  <2>1. SUFFICES ASSUME Inv, Next, pc = "loop", pc' = "loop", Supported
                 PROVE  /\ writer'.sendAmount < writer.sendAmount
                        /\ ep'.memBuffer.off <= ep'.table[ep'.partNumber + 1]
    OBVIOUS
  <2>2. Stm32f1Turn \/ Tm4cTurn \/ AtxmegaTurn
    BY <2>1 DEF Next, HandleGetDescriptor, WriteEP, EndPacket
  <2>3. TypeOK
    BY <2>1 DEF Inv
  <2> QED
    BY <2>1, <2>2, <2>3, ATurn, TurnKeepsInv
<1> QED
  BY <1>1, Invariance, PTL DEF Spec, EveryTurnSends

===============================================================================
