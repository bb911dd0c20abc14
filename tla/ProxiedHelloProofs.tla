-------------------------- MODULE ProxiedHelloProofs --------------------------
(***************************************************************************)
(* Theorems about ProxiedHello, and with it about the codec ProxyHeader    *)
(* and about PeekHello: for all headers, TLVs and client data, however the *)
(* stream is split.                                                        *)
(***************************************************************************)
EXTENDS ProxiedHello, SequenceTheorems, TLAPS

-----------------------------------------------------------------------------
(* Concatenations.                                                         *)

\* Where the elements of s and of t are in s \o t.
LEMMA Concat ==
  ASSUME NEW s \in Seq(Nat), NEW t \in Seq(Nat)
  PROVE  /\ s \o t \in Seq(Nat)
         /\ Len(s \o t) = Len(s) + Len(t)
         /\ \A i \in 1..Len(s) : (s \o t)[i] = s[i]
         /\ \A i \in 1..Len(t) : (s \o t)[Len(s) + i] = t[i]
<1>1. /\ s \o t \in Seq(Nat)
      /\ Len(s \o t) = Len(s) + Len(t)
      /\ \A i \in 1..Len(s) + Len(t) :
           (s \o t)[i] = IF i <= Len(s) THEN s[i] ELSE t[i - Len(s)]
  BY ConcatProperties
<1>2. Len(s) \in Nat /\ Len(t) \in Nat
  BY LenProperties
<1>3. ASSUME NEW i \in 1..Len(t) PROVE (s \o t)[Len(s) + i] = t[i]
  <2>1. Len(s) + i \in 1..Len(s) + Len(t) /\ ~(Len(s) + i <= Len(s)) /\ (Len(s) + i) - Len(s) = i
    BY <1>2
  <2>2. QED
    BY <1>1, <2>1
<1>4. QED
  BY <1>1, <1>2, <1>3

\* w is s, which has m elements, and then t, which has n.
IsConcat(w, s, m, t, n) ==
  /\ w \in Seq(Nat) /\ Len(w) = m + n
  /\ \A i \in 1..m : w[i] = s[i]
  /\ \A i \in 1..n : w[m + i] = t[i]

\* So is the concatenation of the two.
LEMMA ConcatIs ==
  ASSUME NEW s, NEW m, s \in Seq(Nat) /\ Len(s) = m,
         NEW t, NEW n, t \in Seq(Nat) /\ Len(t) = n
  PROVE  IsConcat(s \o t, s, m, t, n)
  BY Concat DEF IsConcat

\* The part of s from m to n.
LEMMA Part ==
  ASSUME NEW s \in Seq(Nat), NEW m \in 1..Len(s) + 1, NEW n \in 0..Len(s), m <= n + 1
  PROVE  /\ SubSeq(s, m, n) \in Seq(Nat)
         /\ Len(SubSeq(s, m, n)) = n - m + 1
         /\ \A i \in 1..n - m + 1 : SubSeq(s, m, n)[i] = s[m + i - 1]
<1>1. Len(s) \in Nat /\ \A i \in 1..Len(s) : s[i] \in Nat
  BY LenProperties
<1>2. m \in Int /\ n \in Int /\ \A i \in m..n : s[i] \in Nat
  BY <1>1
<1>3. QED
  BY <1>2, SubSeqProperties

\* t is the 16 bit number x in network byte order.
Encodes(t, x) == t \in Seq(Nat) /\ Len(t) = 2 /\ x = 256 * t[1] + t[2]

\* PutUint16 writes numbers of 16 bits in full.
LEMMA TwoBytes ==
  ASSUME NEW x \in Nat, x <= 65535
  PROVE  Encodes(BigEndian(x), x)
<1>1. x \div 256 \in Int /\ x % 256 \in 0..255
  OBVIOUS
<1>2. x = 256 * (x \div 256) + (x % 256)
  BY <1>1, SMTT(30)
<1>3. x \div 256 \in 0..255
  BY <1>1, <1>2
<1>4. \A y \in 0..255 : y % 256 = y
  OBVIOUS
<1>5. (x \div 256) % 256 = x \div 256
  BY <1>3, <1>4
<1>6. QED
  BY <1>1, <1>2, <1>3, <1>5 DEF BigEndian, Encodes
-----------------------------------------------------------------------------
(* Format.                                                                 *)

\* What all headers begin with.
IsStart(s, family) ==
  /\ s \in Seq(Nat) /\ Len(s) = 16
  /\ \A i \in 1..12 : s[i] = protocolSignature[i]
  /\ s[13] = 33 /\ s[14] = family

Preface(family, t) == protocolSignature \o <<16 * protocolVersion + commandProxy, family>> \o t

\* So does whatever Format begins with.
LEMMA Start ==
  ASSUME NEW family \in Nat, NEW t \in Seq(Nat), Len(t) = 2
  PROVE  IsStart(Preface(family, t), family)
<1> DEFINE u == <<16 * protocolVersion + commandProxy, family>>
           v == protocolSignature \o u
           w == v \o t
<1>1. protocolSignature \in Seq(Nat) /\ Len(protocolSignature) = 12
  BY DEF protocolSignature
<1>2. u \in Seq(Nat) /\ Len(u) = 2 /\ u[1] = 33 /\ u[2] = family
  BY DEF protocolVersion, commandProxy
<1> HIDE DEF u
<1>3. IsConcat(v, protocolSignature, 12, u, 2)
  BY <1>1, <1>2, ConcatIs
<1> HIDE DEF v
<1>4. /\ v \in Seq(Nat) /\ Len(v) = 14
      /\ \A i \in 1..12 : v[i] = protocolSignature[i]
      /\ \A i \in 1..2 : v[12 + i] = u[i]
  BY <1>3 DEF IsConcat
<1>5. v[13] = 33 /\ v[14] = family
  BY <1>2, <1>4, v[12 + 1] = u[1], v[12 + 2] = u[2]
<1>6. IsConcat(w, v, 14, t, 2)
  <2>1. v \in Seq(Nat) /\ Len(v) = 14
    BY <1>4
  <2>2. QED
    BY <2>1, ConcatIs
<1> HIDE DEF w
<1>7. /\ w \in Seq(Nat) /\ Len(w) = 16
      /\ \A i \in 1..14 : w[i] = v[i]
      /\ \A i \in 1..2 : w[14 + i] = t[i]
  BY <1>6 DEF IsConcat
<1>8. IsStart(w, family)
  BY <1>4, <1>5, <1>7 DEF IsStart
<1>9. QED
  BY <1>8 DEF Preface, w, v, u

\* Addresses have this many bytes.
Sizes == {4, 16}

\* Where the addresses and the ports are in a header with addresses.
Joined(s, a, b, c, d) == s \o a \o b \o c \o d

HasFields(f, n, s, a, b, c, d) ==
  /\ f \in Seq(Nat) /\ Len(f) = 20 + 2 * n
  /\ \A i \in 1..16 : f[i] = s[i]
  /\ \A i \in 1..n : f[16 + i] = a[i] /\ f[16 + n + i] = b[i]
  /\ \A i \in 1..2 : f[16 + 2 * n + i] = c[i] /\ f[18 + 2 * n + i] = d[i]

\* Where the parts of a concatenation are.
LEMMA Fields ==
  ASSUME NEW n \in Sizes,
         NEW s \in Seq(Nat), Len(s) = 16,
         NEW a \in Seq(Nat), Len(a) = n, NEW b \in Seq(Nat), Len(b) = n,
         NEW c \in Seq(Nat), Len(c) = 2, NEW d \in Seq(Nat), Len(d) = 2
  PROVE  HasFields(Joined(s, a, b, c, d), n, s, a, b, c, d)
<1> USE DEF Sizes
<1> DEFINE w1 == s \o a
           w2 == w1 \o b
           w3 == w2 \o c
           w4 == w3 \o d
<1>1. IsConcat(w1, s, 16, a, n)
  BY ConcatIs
<1> HIDE DEF w1
<1>2. /\ w1 \in Seq(Nat) /\ Len(w1) = 16 + n
      /\ \A i \in 1..16 : w1[i] = s[i]
      /\ \A i \in 1..n : w1[16 + i] = a[i]
  BY <1>1 DEF IsConcat
<1>3. IsConcat(w2, w1, 16 + n, b, n)
  <2>1. w1 \in Seq(Nat) /\ Len(w1) = 16 + n
    BY <1>2
  <2>2. QED
    BY <2>1, ConcatIs
<1> HIDE DEF w2
<1>4. /\ w2 \in Seq(Nat) /\ Len(w2) = 16 + 2 * n
      /\ \A i \in 1..16 + n : w2[i] = w1[i]
      /\ \A i \in 1..n : w2[16 + n + i] = b[i]
  BY <1>3 DEF IsConcat
<1>5. IsConcat(w3, w2, 16 + 2 * n, c, 2)
  <2>1. w2 \in Seq(Nat) /\ Len(w2) = 16 + 2 * n
    BY <1>4
  <2>2. QED
    BY <2>1, ConcatIs
<1> HIDE DEF w3
<1>6. /\ w3 \in Seq(Nat) /\ Len(w3) = 18 + 2 * n
      /\ \A i \in 1..16 + 2 * n : w3[i] = w2[i]
      /\ \A i \in 1..2 : w3[16 + 2 * n + i] = c[i]
  BY <1>5 DEF IsConcat
<1>7. IsConcat(w4, w3, 18 + 2 * n, d, 2)
  <2>1. w3 \in Seq(Nat) /\ Len(w3) = 18 + 2 * n
    BY <1>6
  <2>2. QED
    BY <2>1, ConcatIs
<1> HIDE DEF w4
<1>8. /\ w4 \in Seq(Nat) /\ Len(w4) = 20 + 2 * n
      /\ \A i \in 1..18 + 2 * n : w4[i] = w3[i]
      /\ \A i \in 1..2 : w4[18 + 2 * n + i] = d[i]
  BY <1>7 DEF IsConcat
<1>9. \A i \in 1..16 : w4[i] = s[i]
  <2> TAKE i \in 1..16
  <2>1. i \in 1..16 + n /\ i \in 1..16 + 2 * n /\ i \in 1..18 + 2 * n
    OBVIOUS
  <2>2. w4[i] = w3[i] /\ w3[i] = w2[i] /\ w2[i] = w1[i] /\ w1[i] = s[i]
    BY <2>1, <1>2, <1>4, <1>6, <1>8
  <2>3. QED
    BY <2>2
<1>10. \A i \in 1..n : w4[16 + i] = a[i] /\ w4[16 + n + i] = b[i]
  <2> TAKE i \in 1..n
  <2>1. /\ 16 + i \in 1..16 + n /\ 16 + i \in 1..16 + 2 * n /\ 16 + i \in 1..18 + 2 * n
        /\ 16 + n + i \in 1..16 + 2 * n /\ 16 + n + i \in 1..18 + 2 * n
    OBVIOUS
  <2>2. w4[16 + i] = w3[16 + i] /\ w4[16 + n + i] = w3[16 + n + i]
    BY <2>1, <1>8
  <2>3. w3[16 + i] = w2[16 + i] /\ w3[16 + n + i] = w2[16 + n + i]
    BY <2>1, <1>6
  <2>4. w2[16 + i] = a[i] /\ w2[16 + n + i] = b[i]
    BY <2>1, <1>2, <1>4
  <2>5. QED
    BY <2>2, <2>3, <2>4
<1>11. \A i \in 1..2 : w4[16 + 2 * n + i] = c[i] /\ w4[18 + 2 * n + i] = d[i]
  <2> TAKE i \in 1..2
  <2>1. 16 + 2 * n + i \in 1..18 + 2 * n
    OBVIOUS
  <2>2. w4[16 + 2 * n + i] = w3[16 + 2 * n + i]
    BY <2>1, <1>8
  <2>3. QED
    BY <2>2, <1>6, <1>8
<1>12. HasFields(w4, n, s, a, b, c, d)
  BY <1>8, <1>9, <1>10, <1>11 DEF HasFields
<1>13. QED
  BY <1>12 DEF Joined, w4, w3, w2, w1

\* Bytes are numbers.
LEMMA BytesAreNumbers ==
  ASSUME NEW s \in Seq(Byte)
  PROVE  s \in Seq(Nat)
<1>1. Byte \subseteq Nat
  BY DEF Byte
<1>2. QED
  BY <1>1, SeqMonotonic

\* copy keeps bytes for which there is exactly enough room.
LEMMA CopiedAll ==
  ASSUME NEW s \in Seq(Nat), NEW n \in Nat, Len(s) = n
  PROVE  Copied(s, n) = s
<1>1. s \in [1..n -> Nat]
  BY LenProperties
<1>2. Copied(s, n) = [i \in 1..n |-> s[i]]
  BY DEF Copied
<1>3. QED
  BY <1>1, <1>2

\* To4 recognizes both forms of an IPv4 address, and keeps the address.
LEMMA IPForms ==
  ASSUME NEW ip \in Seq(Nat), Len(ip) \in {4, 16}
  PROVE  /\ To4(ip) = <<>> => Len(ip) = 16
         /\ To4(ip) # <<>> => /\ To4(ip) \in Seq(Nat)
                             /\ Len(To4(ip)) = 4
                             /\ To16(To4(ip)) = To16(ip)
<1>1. CASE Len(ip) = 4
  <2>1. Len(<<>>) = 0
    BY EmptySeq
  <2>2. QED
    BY <1>1, <2>1, Len(ip) # 0 DEF To4
<1>2. CASE Len(ip) = 16 /\ SubSeq(ip, 1, 12) = MappedPrefix
  <2>1. SubSeq(ip, 13, 16) \in Seq(Nat) /\ Len(SubSeq(ip, 13, 16)) = 4
    <3>1. 13 \in 1..Len(ip) + 1 /\ 16 \in 0..Len(ip) /\ 13 <= 16 + 1
      BY <1>2
    <3>2. SubSeq(ip, 13, 16) \in Seq(Nat) /\ Len(SubSeq(ip, 13, 16)) = 16 - 13 + 1
      BY <3>1, Part
    <3>3. QED
      BY <3>2
  <2>2. SubSeq(ip, 1, 12) \o SubSeq(ip, 12 + 1, 16) = SubSeq(ip, 1, 16)
    <3>1. 1 \in 1..Len(ip) + 1 /\ 12 \in 1 - 1..Len(ip) /\ 16 \in 12..Len(ip)
      BY <1>2
    <3>2. QED
      BY <3>1, ConcatAdjacentSubSeq
  <2>3. SubSeq(ip, 1, 16) = ip
    BY <1>2, SubSeqFull
  <2>4. To4(ip) = SubSeq(ip, 13, 16)
    BY <1>2 DEF To4
  <2>5. To16(To4(ip)) = MappedPrefix \o SubSeq(ip, 13, 16)
    BY <2>1, <2>4 DEF To16
  <2>6. To16(ip) = ip
    BY <1>2 DEF To16
  <2>7. To16(To4(ip)) = To16(ip)
    <3>1. 12 + 1 = 13
      OBVIOUS
    <3>2. QED
      BY <1>2, <2>2, <2>3, <2>5, <2>6, <3>1, Zenon
  <2>8. QED
    BY <1>2, <2>1, <2>4, <2>7
<1>3. CASE Len(ip) = 16 /\ SubSeq(ip, 1, 12) # MappedPrefix
  BY <1>3 DEF To4
<1>4. QED
  BY <1>1, <1>2, <1>3

\* What Format writes of a header h: addresses of so many bytes,
Size(h) == IF IsIPv4(h) THEN 4 ELSE 16

\* each of them in this form,
Stored(h, ip) == IF IsIPv4(h) THEN To4(ip) ELSE ip

\* and this family.
Family(h) ==
  IF h.remote.net = "TCP" THEN IF IsIPv4(h) THEN familyTCP4 ELSE familyTCP6
  ELSE IF IsIPv4(h) THEN familyUDP4 ELSE familyUDP6

\* The form that Format chooses is another form of the same address.
LEMMA StoredForm ==
  ASSUME NEW h \in Headers, Spoken(h), NEW addr \in {h.remote, h.local}
  PROVE  /\ addr.net = h.remote.net
         /\ addr.port \in Nat /\ addr.port <= 65535
         /\ Stored(h, addr.ip) \in Seq(Nat)
         /\ Len(Stored(h, addr.ip)) = Size(h)
         /\ To16(Stored(h, addr.ip)) = To16(addr.ip)
<1>1. IsAddr(addr) /\ addr.net = h.remote.net /\ addr.net \in {"TCP", "UDP"}
  BY ProxyHeaderAssumption DEF Spoken
<1>2. addr.ip \in Seq(Byte) /\ Len(addr.ip) \in {4, 16} /\ addr.port \in Nat /\ addr.port <= 65535
  BY <1>1 DEF IsAddr
<1>3. PICK ip \in Seq(Nat) : ip = addr.ip
  BY <1>2, BytesAreNumbers
<1>4. To4(ip) # <<>> <=> IsIPv4(h)
  BY <1>3, OneFamily DEF IsIPv4
<1>5. Len(ip) \in {4, 16}
  BY <1>2, <1>3
<1>6. Stored(h, ip) \in Seq(Nat) /\ Len(Stored(h, ip)) = Size(h) /\ To16(Stored(h, ip)) = To16(ip)
  BY <1>4, <1>5, IPForms DEF Stored, Size
<1>7. QED
  BY <1>1, <1>2, <1>3, <1>6

\* f is a header with this family, with addresses a and b of n bytes and
\* ports x and y.
IsHeader(f, n, family, a, b, x, y) ==
  /\ f \in Seq(Nat) /\ Len(f) = 20 + 2 * n
  /\ \A i \in 1..12 : f[i] = protocolSignature[i]
  /\ f[13] = 33 /\ f[14] = family
  /\ \A i \in 1..n : f[16 + i] = a[i] /\ f[16 + n + i] = b[i]
  /\ x = 256 * f[17 + 2 * n] + f[18 + 2 * n]
  /\ y = 256 * f[19 + 2 * n] + f[20 + 2 * n]

\* What begins with the preamble begins with the signature.
LEMMA SignatureKept ==
  ASSUME NEW f, NEW s, NEW family, IsStart(s, family), \A i \in 1..16 : f[i] = s[i]
  PROVE  /\ \A i \in 1..12 : f[i] = protocolSignature[i]
         /\ f[13] = 33 /\ f[14] = family
<1>1. ASSUME NEW i \in 1..12 PROVE f[i] = protocolSignature[i]
  <2>1. i \in 1..16
    OBVIOUS
  <2>2. f[i] = s[i]
    BY <2>1
  <2>3. \A j \in 1..12 : s[j] = protocolSignature[j]
    BY DEF IsStart
  <2>4. s[i] = protocolSignature[i]
    BY <2>3
  <2>5. QED
    BY <2>2, <2>4
<1>2. f[13] = 33 /\ f[14] = family
  BY DEF IsStart
<1>3. QED
  BY <1>1, <1>2

\* A preamble, addresses and ports of the right sizes are a header.
LEMMA Composed ==
  ASSUME NEW n \in Nat, NEW family, NEW f, NEW s, NEW a, NEW b, NEW c, NEW d,
         NEW x, NEW y,
         IsStart(s, family), HasFields(f, n, s, a, b, c, d), Encodes(c, x), Encodes(d, y)
  PROVE  IsHeader(f, n, family, a, b, x, y)
<1>1. \A i \in 1..16 : f[i] = s[i]
  BY DEF HasFields
<1>2. /\ \A i \in 1..12 : f[i] = protocolSignature[i]
      /\ f[13] = 33 /\ f[14] = family
  BY <1>1, SignatureKept
<1>3. /\ f[16 + 2 * n + 1] = c[1] /\ f[16 + 2 * n + 2] = c[2]
      /\ f[18 + 2 * n + 1] = d[1] /\ f[18 + 2 * n + 2] = d[2]
  BY DEF HasFields
<1>4. /\ 16 + 2 * n + 1 = 17 + 2 * n /\ 16 + 2 * n + 2 = 18 + 2 * n
      /\ 18 + 2 * n + 1 = 19 + 2 * n /\ 18 + 2 * n + 2 = 20 + 2 * n
  OBVIOUS
<1>5. f[17 + 2 * n] = c[1] /\ f[18 + 2 * n] = c[2] /\ f[19 + 2 * n] = d[1] /\ f[20 + 2 * n] = d[2]
  BY <1>3, <1>4
<1>6. x = 256 * f[17 + 2 * n] + f[18 + 2 * n] /\ y = 256 * f[19 + 2 * n] + f[20 + 2 * n]
  BY <1>5 DEF Encodes
<1>7. /\ f \in Seq(Nat) /\ Len(f) = 20 + 2 * n
      /\ \A i \in 1..n : f[16 + i] = a[i] /\ f[16 + n + i] = b[i]
  BY DEF HasFields
<1>8. QED
  BY <1>2, <1>6, <1>7 DEF IsHeader

\* The concatenation that formatIPv4Header and formatIPv6Header return is
\* a header.
LEMMA Assembled ==
  ASSUME NEW n \in Sizes, NEW family \in Nat,
         NEW a \in Seq(Nat), Len(a) = n, NEW b \in Seq(Nat), Len(b) = n,
         NEW x \in Nat, x <= 65535, NEW y \in Nat, y <= 65535
  PROVE  IsHeader(Joined(Preface(family, BigEndian(2 * n + 4)), a, b, BigEndian(x), BigEndian(y)),
                  n, family, a, b, x, y)
<1>1. n \in Nat /\ 2 * n + 4 \in Nat /\ 2 * n + 4 <= 65535
  BY DEF Sizes
<1>2. PICK l : l = BigEndian(2 * n + 4) /\ Encodes(l, 2 * n + 4)
  BY <1>1, TwoBytes
<1>3. PICK c : c = BigEndian(x) /\ Encodes(c, x)
  BY TwoBytes
<1>4. PICK d : d = BigEndian(y) /\ Encodes(d, y)
  BY TwoBytes
<1>5. l \in Seq(Nat) /\ Len(l) = 2 /\ c \in Seq(Nat) /\ Len(c) = 2 /\ d \in Seq(Nat) /\ Len(d) = 2
  BY <1>2, <1>3, <1>4 DEF Encodes
<1>6. PICK s : s = Preface(family, l) /\ IsStart(s, family)
  BY <1>5, Start
<1>7. s \in Seq(Nat) /\ Len(s) = 16
  BY <1>6 DEF IsStart
<1>8. HasFields(Joined(s, a, b, c, d), n, s, a, b, c, d)
  BY <1>5, <1>7, Fields
<1>9. IsHeader(Joined(s, a, b, c, d), n, family, a, b, x, y)
  BY <1>1, <1>3, <1>4, <1>6, <1>8, Composed
<1>10. QED
  BY <1>2, <1>3, <1>4, <1>6, <1>9

\* What Format writes if the addresses are for TCP or UDP.
LEMMA Written ==
  ASSUME NEW h \in Headers, Spoken(h)
  PROVE  IsHeader(Format(h), Size(h), Family(h), Stored(h, h.remote.ip), Stored(h, h.local.ip),
                  h.remote.port, h.local.port)
<1>1. Size(h) \in Sizes /\ Family(h) \in Nat
  BY DEF Sizes, Size, Family, familyTCP4, familyTCP6, familyUDP4, familyUDP6
<1>2. PICK a \in Seq(Nat) : a = Stored(h, h.remote.ip) /\ Len(a) = Size(h)
  BY StoredForm
<1>3. PICK b \in Seq(Nat) : b = Stored(h, h.local.ip) /\ Len(b) = Size(h)
  BY StoredForm
<1>4. PICK x \in Nat : x = h.remote.port /\ x <= 65535
  BY StoredForm
<1>5. PICK y \in Nat : y = h.local.port /\ y <= 65535
  BY StoredForm
<1>6. Format(h) = Joined(Preface(Family(h), BigEndian(2 * Size(h) + 4)), a, b, BigEndian(x), BigEndian(y))
  <2>1. CASE IsIPv4(h)
    <3>1. Copied(a, 4) = a
      BY <1>2, <2>1, CopiedAll DEF Size
    <3>2. Copied(b, 4) = b
      BY <1>3, <2>1, CopiedAll DEF Size
    <3>3. a = To4(h.remote.ip) /\ b = To4(h.local.ip) /\ 2 * Size(h) + 4 = 12
      BY <1>2, <1>3, <2>1 DEF Stored, Size
    <3>4. Format(h) = formatIPv4Header(Family(h), h.remote, h.local)
      BY <2>1 DEF Format, Family, Spoken
    <3>5. /\ Copied(To4(h.remote.ip), 4) = a /\ Copied(To4(h.local.ip), 4) = b
          /\ BigEndian(12) = BigEndian(2 * Size(h) + 4)
          /\ BigEndian(h.remote.port) = BigEndian(x) /\ BigEndian(h.local.port) = BigEndian(y)
      BY <1>4, <1>5, <3>1, <3>2, <3>3
    <3>6. QED
      BY <3>4, <3>5 DEF formatIPv4Header, Joined, Preface
  <2>2. CASE ~IsIPv4(h)
    <3>1. Copied(a, 16) = a
      BY <1>2, <2>2, CopiedAll DEF Size
    <3>2. Copied(b, 16) = b
      BY <1>3, <2>2, CopiedAll DEF Size
    <3>3. a = h.remote.ip /\ b = h.local.ip /\ 2 * Size(h) + 4 = 36
      BY <1>2, <1>3, <2>2 DEF Stored, Size
    <3>4. Format(h) = formatIPv6Header(Family(h), h.remote, h.local)
      BY <2>2 DEF Format, Family, Spoken
    <3>5. /\ Copied(h.remote.ip, 16) = a /\ Copied(h.local.ip, 16) = b
          /\ BigEndian(36) = BigEndian(2 * Size(h) + 4)
          /\ BigEndian(h.remote.port) = BigEndian(x) /\ BigEndian(h.local.port) = BigEndian(y)
      BY <1>4, <1>5, <3>1, <3>2, <3>3
    <3>6. QED
      BY <3>4, <3>5 DEF formatIPv6Header, Joined, Preface
  <2>3. QED
    BY <2>1, <2>2
<1>7. IsHeader(Format(h), Size(h), Family(h), a, b, x, y)
  <2>1. PICK n \in Sizes, family \in Nat : n = Size(h) /\ family = Family(h)
    BY <1>1
  <2>2. Len(a) = n /\ Len(b) = n /\ x <= 65535 /\ y <= 65535
    BY <1>2, <1>3, <1>4, <1>5, <2>1
  <2>3. Format(h) = Joined(Preface(family, BigEndian(2 * n + 4)), a, b, BigEndian(x), BigEndian(y))
    BY <1>6, <2>1
  <2>4. IsHeader(Format(h), n, family, a, b, x, y)
    BY <2>2, <2>3, Assembled
  <2>5. QED
    BY <2>1, <2>4
<1>8. QED
  BY <1>2, <1>3, <1>4, <1>5, <1>7

\* So many bytes follow the preamble.
AddressSize(h) == IF Spoken(h) THEN 2 * Size(h) + 4 ELSE 0
FamilyIn(h) == IF Spoken(h) THEN Family(h) ELSE familyUnspecified

\* f begins with the first 14 bytes of a header; l bytes follow the preamble.
IsHeading(f, l, family) ==
  /\ f \in Seq(Nat) /\ Len(f) = 16 + l
  /\ \A i \in 1..12 : f[i] = protocolSignature[i]
  /\ f[13] = 33 /\ f[14] = family

\* All that Format returns begins with the preamble of a PROXY header.
LEMMA Heading ==
  ASSUME NEW h \in Headers
  PROVE  /\ IsHeading(Format(h), AddressSize(h), FamilyIn(h))
         /\ AddressSize(h) \in 0..36
<1>1. CASE Spoken(h)
  <2>1. Size(h) \in {4, 16}
    BY DEF Size
  <2>2. PICK f, a, b, x, y : f = Format(h) /\ IsHeader(f, Size(h), Family(h), a, b, x, y)
    BY <1>1, Written
  <2>3. /\ f \in Seq(Nat) /\ Len(f) = 20 + 2 * Size(h)
        /\ \A i \in 1..12 : f[i] = protocolSignature[i]
        /\ f[13] = 33 /\ f[14] = Family(h)
    BY <2>2 DEF IsHeader
  <2>4. 20 + 2 * Size(h) = 16 + AddressSize(h) /\ AddressSize(h) \in 0..36 /\ FamilyIn(h) = Family(h)
    BY <1>1, <2>1 DEF AddressSize, FamilyIn
  <2>5. QED
    BY <2>2, <2>3, <2>4 DEF IsHeading
<1>2. CASE ~Spoken(h)
  <2>1. Format(h) = Preface(0, <<0, 0>>)
    <3>1. Format(h) = formatUnspecifiedHeader
      BY <1>2 DEF Format, Spoken
    <3>2. QED
      BY <3>1 DEF formatUnspecifiedHeader, Preface, familyUnspecified
  <2>2. <<0, 0>> \in Seq(Nat) /\ Len(<<0, 0>>) = 2
    OBVIOUS
  <2>3. IsStart(Preface(0, <<0, 0>>), 0)
    BY <2>2, Start
  <2>4. PICK f : f = Format(h) /\ IsStart(f, 0)
    BY <2>1, <2>3
  <2>5. AddressSize(h) = 0 /\ FamilyIn(h) = 0
    BY <1>2 DEF AddressSize, FamilyIn, familyUnspecified
  <2>6. IsHeading(f, 0, 0)
    BY <2>4 DEF IsStart, IsHeading
  <2>7. QED
    BY <2>4, <2>5, <2>6
<1>3. QED
  BY <1>1, <1>2
-----------------------------------------------------------------------------
(* What a peer sends.                                                      *)

\* The length of its payload.
PayloadSize(p) ==
  IF p.fault = "short" THEN AddressSize(p.header) - 1
  ELSE AddressSize(p.header) + Len(p.extra)

\* q is what is left of the addresses in f, and perhaps more.
IsPayload(q, size, f) ==
  /\ q \in Seq(Nat) /\ Len(q) = size
  /\ \A i \in 1..size : 16 + i <= Len(f) => q[i] = f[16 + i]

PayloadOf(p, f) ==
  LET address == SubSeq(f, 17, Len(f))
  IN IF p.fault = "short" THEN SubSeq(address, 1, Len(address) - 1) ELSE address \o p.extra

\* What follows the preamble of a message, and that its length fits into 16
\* bits.
LEMMA Payload ==
  ASSUME NEW p \in Peers
  PROVE  /\ IsPayload(PayloadOf(p, Format(p.header)), PayloadSize(p), Format(p.header))
         /\ PayloadSize(p) \in Nat /\ PayloadSize(p) <= 65535
<1>1. p.header \in Headers /\ p.extra \in Extras /\ p.fault \in Faults
  BY DEF Peers
<1>2. PICK f, l : /\ f = Format(p.header) /\ l = AddressSize(p.header) /\ l \in 0..36
                  /\ f \in Seq(Nat) /\ Len(f) = 16 + l
  BY <1>1, Heading DEF IsHeading
<1>3. PICK a : a = SubSeq(f, 17, Len(f))
  OBVIOUS
<1>4. a \in Seq(Nat) /\ Len(a) = l /\ \A i \in 1..l : a[i] = f[16 + i]
  <2>1. 17 \in 1..Len(f) + 1 /\ Len(f) \in 0..Len(f) /\ 17 <= Len(f) + 1
    <3>1. l \in 0..36 /\ Len(f) = 16 + l
      BY <1>2
    <3>2. \A k : k = 16 + l => 17 \in 1..k + 1 /\ k \in 0..k /\ 17 <= k + 1
      BY <3>1
    <3>3. QED
      BY <3>1, <3>2
  <2>2. /\ a \in Seq(Nat) /\ Len(a) = Len(f) - 17 + 1
        /\ \A i \in 1..Len(f) - 17 + 1 : a[i] = f[17 + i - 1]
    BY <1>2, <1>3, <2>1, Part
  <2>3. Len(f) - 17 + 1 = l
    BY <1>2
  <2>4. ASSUME NEW i \in 1..l PROVE a[i] = f[16 + i]
    <3>1. 17 + i - 1 = 16 + i
      OBVIOUS
    <3>2. QED
      BY <2>2, <2>3, <3>1
  <2>5. QED
    BY <2>2, <2>3, <2>4
<1>5. CASE p.fault = "short"
  <2>1. l \in {12, 36}
    BY <1>2, <1>5 DEF Peers, AddressSize, Size
  <2>2. PICK q : q = SubSeq(a, 1, Len(a) - 1)
    OBVIOUS
  <2>3. /\ q \in Seq(Nat) /\ Len(q) = Len(a) - 1 - 1 + 1
        /\ \A i \in 1..Len(a) - 1 - 1 + 1 : q[i] = a[1 + i - 1]
    <3>1. 1 \in 1..Len(a) + 1 /\ Len(a) - 1 \in 0..Len(a) /\ 1 <= Len(a) - 1 + 1
      BY <1>4, <2>1
    <3>2. QED
      BY <1>4, <2>2, <3>1, Part
  <2>4. PayloadSize(p) = l - 1 /\ Len(a) - 1 - 1 + 1 = l - 1
    BY <1>2, <1>4, <1>5 DEF PayloadSize
  <2>5. ASSUME NEW i \in 1..l - 1 PROVE q[i] = f[16 + i]
    <3>1. 1 + i - 1 = i /\ i \in 1..l
      BY <1>2
    <3>2. QED
      BY <1>4, <2>3, <2>4, <3>1
  <2>6. IsPayload(q, l - 1, f)
    BY <2>3, <2>4, <2>5 DEF IsPayload
  <2>7. PayloadOf(p, f) = q
    BY <1>3, <1>5, <2>2 DEF PayloadOf
  <2>8. l - 1 \in Nat /\ l - 1 <= 65535
    BY <2>1
  <2>9. QED
    BY <1>2, <2>4, <2>6, <2>7, <2>8
<1>6. CASE p.fault # "short"
  <2>1. PICK e, k : e = p.extra /\ e \in Seq(Byte) /\ k = Len(e) /\ k + 36 <= 65535
    BY <1>1, ProxyHeaderAssumption
  <2>2. e \in Seq(Nat) /\ k \in Nat
    BY <2>1, BytesAreNumbers, LenProperties
  <2>3. PICK q : q = a \o e
    OBVIOUS
  <2>4. /\ q \in Seq(Nat) /\ Len(q) = Len(a) + Len(e)
        /\ \A i \in 1..Len(a) : q[i] = a[i]
    BY <1>4, <2>2, <2>3, Concat
  <2>5. PayloadSize(p) = l + k
    BY <1>2, <1>6, <2>1 DEF PayloadSize
  <2>6. ASSUME NEW i \in 1..l + k, 16 + i <= Len(f) PROVE q[i] = f[16 + i]
    <3>1. i \in 1..l
      BY <1>2, <2>2, <2>6
    <3>2. QED
      BY <1>4, <2>4, <3>1
  <2>7. q \in Seq(Nat) /\ Len(q) = l + k
    BY <1>4, <2>1, <2>4
  <2>8. IsPayload(q, l + k, f)
    BY <2>6, <2>7 DEF IsPayload
  <2>9. PayloadOf(p, f) = q
    <3>1. PayloadOf(p, f) = SubSeq(f, 17, Len(f)) \o p.extra
      BY <1>6, Zenon DEF PayloadOf
    <3>2. p.extra = e
      BY <2>1
    <3>3. QED
      BY <1>3, <2>3, <3>1, <3>2, Zenon
  <2>10. l + k \in Nat /\ l + k <= 65535
    <3>1. l \in 0..36
      BY <1>2
    <3>2. k \in Nat /\ k + 36 <= 65535
      BY <2>1, <2>2
    <3>3. QED
      BY <3>1, <3>2
  <2>11. QED
    BY <1>2, <2>5, <2>8, <2>9, <2>10
<1>7. QED
  BY <1>5, <1>6

\* The first 14 bytes of a header with fault in it, of a header whose
\* preamble r has none.
ChangedBy(fault, r) ==
  CASE fault = "signature" -> [r EXCEPT ![12] = 13]
    [] fault = "version"   -> [r EXCEPT ![13] = 16 + commandProxy]
    [] fault = "command"   -> [r EXCEPT ![13] = 32 + 2]
    [] fault = "local"     -> [r EXCEPT ![13] = 32 + commandLocal]
    [] fault = "family"    -> [r EXCEPT ![14] = 49]
    [] OTHER               -> r

CommandByte(fault) ==
  CASE fault = "version" -> 17 [] fault = "command" -> 34 [] fault = "local" -> 32 [] OTHER -> 33

\* m announces a payload of l bytes, and has this fault.
IsPreamble(m, fault, family, l) ==
  /\ \A i \in 1..11 : m[i] = protocolSignature[i]
  /\ m[12] = IF fault = "signature" THEN 13 ELSE protocolSignature[12]
  /\ m[13] = CommandByte(fault)
  /\ m[14] = IF fault = "family" THEN 49 ELSE family
  /\ l = 256 * m[15] + m[16]

\* Replacing one byte changes no other.
LEMMA Replaced ==
  ASSUME NEW r \in [1..16 -> Nat], NEW i \in 1..16, NEW e \in Nat
  PROVE  /\ [r EXCEPT ![i] = e] \in [1..16 -> Nat]
         /\ \A j \in 1..16 : [r EXCEPT ![i] = e][j] = IF j = i THEN e ELSE r[j]
OBVIOUS

\* The same of a sequence.
LEMMA OneByte ==
  ASSUME NEW r \in Seq(Nat), Len(r) = 16, NEW i \in 1..16, NEW e \in Nat
  PROVE  /\ [r EXCEPT ![i] = e] \in Seq(Nat) /\ Len([r EXCEPT ![i] = e]) = 16
         /\ \A j \in 1..16 : [r EXCEPT ![i] = e][j] = IF j = i THEN e ELSE r[j]
<1> DEFINE x == [r EXCEPT ![i] = e]
<1>1. r \in [1..16 -> Nat]
  BY LenProperties
<1>2. x \in [1..16 -> Nat] /\ \A j \in 1..16 : x[j] = IF j = i THEN e ELSE r[j]
  BY <1>1, Replaced
<1> HIDE DEF x
<1>3. x \in Seq(Nat)
  BY <1>2, SeqDef
<1>4. Len(x) = 16
  <2>1. Len(x) \in Nat /\ DOMAIN x = 1..Len(x)
    BY <1>3, LenProperties
  <2>2. DOMAIN x = 1..16
    BY <1>2
  <2>3. 1..Len(x) = 1..16
    BY <2>1, <2>2
  <2>4. QED
    BY <2>1, <2>3
<1>5. QED
  BY <1>2, <1>3, <1>4 DEF x

\* r is the preamble of a header of this family and size.
IsIntact(r, family, l) ==
  /\ r \in Seq(Nat) /\ Len(r) = 16
  /\ \A i \in 1..12 : r[i] = protocolSignature[i]
  /\ r[13] = 33 /\ r[14] = family
  /\ l = 256 * r[15] + r[16]

\* A preamble that is right, or has one fault.
LEMMA Changed ==
  ASSUME NEW r, NEW fault, NEW family, NEW l, IsIntact(r, family, l)
  PROVE  /\ ChangedBy(fault, r) \in Seq(Nat) /\ Len(ChangedBy(fault, r)) = 16
         /\ IsPreamble(ChangedBy(fault, r), fault, family, l)
<1>1. /\ r \in Seq(Nat) /\ Len(r) = 16
      /\ \A i \in 1..12 : r[i] = protocolSignature[i]
      /\ r[13] = 33 /\ r[14] = family /\ l = 256 * r[15] + r[16]
  BY DEF IsIntact
<1>2. PICK c : c = ChangedBy(fault, r)
  BY Zenon
<1>3. CASE fault = "signature"
  <2>1. c = [r EXCEPT ![12] = 13]
    BY <1>2, <1>3 DEF ChangedBy
  <2>2. c \in Seq(Nat) /\ Len(c) = 16 /\ \A j \in 1..16 : c[j] = IF j = 12 THEN 13 ELSE r[j]
    BY <1>1, <2>1, OneByte
  <2>3. IsPreamble(c, fault, family, l)
    BY <1>1, <1>3, <2>2 DEF IsPreamble, CommandByte
  <2>4. QED
    BY <1>2, <2>2, <2>3
<1>4. CASE fault \in {"version", "command", "local"}
  <2>1. c = [r EXCEPT ![13] = CommandByte(fault)] /\ CommandByte(fault) \in Nat
    <3>1. CASE fault = "version"
      <4>1. CommandByte(fault) = 16 + commandProxy /\ CommandByte(fault) \in Nat
        BY <3>1 DEF CommandByte, commandProxy
      <4>2. c = [r EXCEPT ![13] = 16 + commandProxy]
        BY <1>2, <3>1 DEF ChangedBy
      <4>3. QED
        BY <4>1, <4>2, Zenon
    <3>2. CASE fault = "command"
      <4>1. CommandByte(fault) = 32 + 2 /\ CommandByte(fault) \in Nat
        BY <3>2 DEF CommandByte
      <4>2. c = [r EXCEPT ![13] = 32 + 2]
        BY <1>2, <3>2 DEF ChangedBy
      <4>3. QED
        BY <4>1, <4>2, Zenon
    <3>3. CASE fault = "local"
      <4>1. CommandByte(fault) = 32 + commandLocal /\ CommandByte(fault) \in Nat
        BY <3>3 DEF CommandByte, commandLocal
      <4>2. c = [r EXCEPT ![13] = 32 + commandLocal]
        BY <1>2, <3>3 DEF ChangedBy
      <4>3. QED
        BY <4>1, <4>2, Zenon
    <3>4. QED
      BY <1>4, <3>1, <3>2, <3>3, Zenon
  <2>2. c \in Seq(Nat) /\ Len(c) = 16 /\ \A j \in 1..16 : c[j] = IF j = 13 THEN CommandByte(fault) ELSE r[j]
    BY <1>1, <2>1, OneByte
  <2>3. IsPreamble(c, fault, family, l)
    BY <1>1, <1>4, <2>2 DEF IsPreamble
  <2>4. QED
    BY <1>2, <2>2, <2>3
<1>5. CASE fault = "family"
  <2>1. c = [r EXCEPT ![14] = 49]
    BY <1>2, <1>5 DEF ChangedBy
  <2>2. c \in Seq(Nat) /\ Len(c) = 16 /\ \A j \in 1..16 : c[j] = IF j = 14 THEN 49 ELSE r[j]
    BY <1>1, <2>1, OneByte
  <2>3. IsPreamble(c, fault, family, l)
    BY <1>1, <1>5, <2>2 DEF IsPreamble, CommandByte
  <2>4. QED
    BY <1>2, <2>2, <2>3
<1>6. CASE fault \notin {"signature", "version", "command", "local", "family"}
  <2>1. c = r
    BY <1>2, <1>6 DEF ChangedBy
  <2>2. IsPreamble(c, fault, family, l)
    BY <1>1, <1>6, <2>1 DEF IsPreamble, CommandByte
  <2>3. QED
    BY <1>1, <1>2, <2>1, <2>2
<1>7. QED
  BY <1>3, <1>4, <1>5, <1>6

\* m is the message of p, and f the header that it is made of.
IsMessage(m, p, f) ==
  /\ m \in Seq(Nat) /\ Len(m) = 16 + PayloadSize(p)
  /\ IsPreamble(m, p.fault, FamilyIn(p.header), PayloadSize(p))
  /\ \A i \in 1..PayloadSize(p) : 16 + i <= Len(f) => m[16 + i] = f[16 + i]

\* g is the part of f up to n.
IsInitial(g, f, n) == g \in Seq(Nat) /\ Len(g) = n /\ \A i \in 1..n : g[i] = f[i]

\* SubSeq from the first byte on.
LEMMA Initial ==
  ASSUME NEW f \in Seq(Nat), NEW n \in 0..Len(f)
  PROVE  IsInitial(SubSeq(f, 1, n), f, n)
<1>1. Len(f) \in Nat
  BY LenProperties
<1>2. 1 \in 1..Len(f) + 1 /\ 1 <= n + 1
  BY <1>1
<1>3. /\ SubSeq(f, 1, n) \in Seq(Nat) /\ Len(SubSeq(f, 1, n)) = n - 1 + 1
      /\ \A i \in 1..n - 1 + 1 : SubSeq(f, 1, n)[i] = f[1 + i - 1]
  BY <1>2, Part
<1>4. n - 1 + 1 = n /\ \A i \in 1..n : 1 + i - 1 = i
  BY <1>1
<1>5. QED
  BY <1>3, <1>4 DEF IsInitial

\* r is the first 14 bytes of f and the length l.
Announces(r, f, l) ==
  /\ r \in Seq(Nat) /\ Len(r) = 16
  /\ \A i \in 1..14 : r[i] = f[i]
  /\ l = 256 * r[15] + r[16]

\* The first 14 bytes and a length are a preamble.
LEMMA Announced ==
  ASSUME NEW f, NEW g, NEW b, NEW l, IsInitial(g, f, 14), Encodes(b, l)
  PROVE  Announces(g \o b, f, l)
<1> DEFINE r == g \o b
<1>1. g \in Seq(Nat) /\ Len(g) = 14
  BY DEF IsInitial
<1>2. b \in Seq(Nat) /\ Len(b) = 2 /\ l = 256 * b[1] + b[2]
  BY DEF Encodes
<1>3. /\ r \in Seq(Nat) /\ Len(r) = Len(g) + Len(b)
      /\ \A i \in 1..Len(g) : r[i] = g[i]
      /\ \A i \in 1..Len(b) : r[Len(g) + i] = b[i]
  BY <1>1, <1>2, Concat
<1> HIDE DEF r
<1>4. r \in Seq(Nat) /\ Len(r) = 16 /\ r[14 + 1] = b[1] /\ r[14 + 2] = b[2]
  BY <1>1, <1>2, <1>3
<1>5. l = 256 * r[15] + r[16]
  BY <1>2, <1>4
<1>6. \A i \in 1..14 : r[i] = g[i]
  BY <1>1, <1>3
<1>7. \A i \in 1..14 : g[i] = f[i]
  BY DEF IsInitial
<1>8. \A i \in 1..14 : r[i] = f[i]
  BY <1>6, <1>7
<1>9. Announces(r, f, l)
  BY <1>4, <1>5, <1>8 DEF Announces
<1>10. QED
  BY <1>9 DEF r

PreambleOf(f, l) == SubSeq(f, 1, 14) \o BigEndian(l)

\* The preamble of a message without a fault.
LEMMA Intact ==
  ASSUME NEW f, NEW family, NEW size, size \in Nat, IsHeading(f, size, family),
         NEW l \in Nat, l <= 65535
  PROVE  IsIntact(PreambleOf(f, l), family, l)
<1>1. Encodes(BigEndian(l), l)
  BY TwoBytes
<1>2. IsInitial(SubSeq(f, 1, 14), f, 14)
  <2>1. f \in Seq(Nat) /\ 14 \in 0..Len(f)
    BY DEF IsHeading
  <2>2. QED
    BY <2>1, Initial
<1>3. Announces(PreambleOf(f, l), f, l)
  BY <1>1, <1>2, Announced DEF PreambleOf
<1>4. ASSUME NEW r, Announces(r, f, l)
      PROVE  IsIntact(r, family, l)
  <2>1. \A i \in 1..14 : r[i] = f[i]
    BY <1>4 DEF Announces
  <2>2. /\ \A i \in 1..12 : f[i] = protocolSignature[i]
        /\ f[13] = 33 /\ f[14] = family
    BY DEF IsHeading
  <2>3. ASSUME NEW i \in 1..12 PROVE r[i] = protocolSignature[i]
    <3>1. i \in 1..14
      OBVIOUS
    <3>2. QED
      BY <2>1, <2>2, <3>1
  <2>4. r[13] = 33 /\ r[14] = family
    BY <2>1, <2>2
  <2>5. QED
    BY <1>4, <2>3, <2>4 DEF Announces, IsIntact
<1>5. QED
  BY <1>3, <1>4

\* How the parts of a message are put together.
LEMMA MessageIs ==
  ASSUME NEW p, NEW f, f = Format(p.header)
  PROVE  Message(p) = ChangedBy(p.fault, PreambleOf(f, Len(PayloadOf(p, f)))) \o PayloadOf(p, f)
  BY DEF Message, ChangedBy, PreambleOf, PayloadOf

\* The message of a peer: its preamble, and the header it is made of.
LEMMA MessageForm ==
  ASSUME NEW p \in Peers
  PROVE  /\ IsMessage(Message(p), p, Format(p.header))
         /\ PayloadSize(p) \in Nat
<1>1. p.header \in Headers
  BY DEF Peers
<1>2. PICK f, q, l : /\ f = Format(p.header) /\ l = PayloadSize(p) /\ q = PayloadOf(p, f)
                     /\ IsPayload(q, l, f) /\ l \in Nat /\ l <= 65535
  BY Payload
<1>3. PICK size, family : /\ size = AddressSize(p.header) /\ family = FamilyIn(p.header)
                          /\ size \in Nat /\ IsHeading(f, size, family)
  BY <1>1, <1>2, Heading
<1>4. PICK r : r = PreambleOf(f, l)
  BY Zenon
<1>5. IsIntact(r, family, l)
  BY <1>2, <1>3, <1>4, Intact
<1>6. PICK c : c = ChangedBy(p.fault, r)
  BY Zenon
<1>7. c \in Seq(Nat) /\ Len(c) = 16 /\ IsPreamble(c, p.fault, family, l)
  BY <1>5, <1>6, Changed
<1>8. PICK m : m = c \o q
  BY Zenon
<1>9. q \in Seq(Nat) /\ Len(q) = l /\ \A i \in 1..l : 16 + i <= Len(f) => q[i] = f[16 + i]
  BY <1>2 DEF IsPayload
<1>10. /\ m \in Seq(Nat) /\ Len(m) = Len(c) + Len(q)
       /\ \A i \in 1..Len(c) : m[i] = c[i]
       /\ \A i \in 1..Len(q) : m[Len(c) + i] = q[i]
  BY <1>7, <1>8, <1>9, Concat
<1>11. /\ m \in Seq(Nat) /\ Len(m) = 16 + l
       /\ \A i \in 1..16 : m[i] = c[i]
       /\ \A i \in 1..l : m[16 + i] = q[i]
  BY <1>7, <1>9, <1>10
<1>12. IsPreamble(m, p.fault, family, l)
  <2>1. \A i \in 1..16 : m[i] = c[i]
    BY <1>11
  <2>2. IsPreamble(c, p.fault, family, l)
    BY <1>7
  <2>3. QED
    BY <2>1, <2>2 DEF IsPreamble
<1>13. \A i \in 1..l : 16 + i <= Len(f) => m[16 + i] = f[16 + i]
  BY <1>9, <1>11
<1>14. m = Message(p)
  <2>1. Len(q) = l
    BY <1>9
  <2>2. q = PayloadOf(p, f) /\ f = Format(p.header)
    BY <1>2
  <2>3. r = PreambleOf(f, l)
    BY <1>4
  <2>4. r = PreambleOf(f, Len(PayloadOf(p, f)))
    BY <2>1, <2>2, <2>3, Zenon
  <2>5. Message(p) = ChangedBy(p.fault, PreambleOf(f, Len(PayloadOf(p, f)))) \o PayloadOf(p, f)
    BY <2>2, MessageIs, Zenon
  <2>6. QED
    BY <1>6, <1>8, <2>2, <2>4, <2>5, Zenon
<1>15. IsMessage(m, p, f)
  BY <1>2, <1>3, <1>11, <1>12, <1>13 DEF IsMessage
<1>16. QED
  BY <1>2, <1>14, <1>15

\* s is the stream of peer p: its message and the client's data.
IsStream(s, p) ==
  /\ s \in Seq(Nat) /\ Len(s) = 16 + PayloadSize(p) + Len(Data)
  /\ IsPreamble(s, p.fault, FamilyIn(p.header), PayloadSize(p))
  /\ \A i \in 1..PayloadSize(p) :
       16 + i <= Len(Format(p.header)) => s[16 + i] = Format(p.header)[16 + i]
  /\ \A i \in 1..Len(Data) : s[16 + PayloadSize(p) + i] = Data[i]

\* The client's data.
LEMMA DataAreBytes == Data \in Seq(Nat) /\ Len(Data) \in Nat
<1>1. Data \in Seq(Byte)
  BY ProxyHeaderAssumption
<1>2. Data \in Seq(Nat)
  BY <1>1, BytesAreNumbers
<1>3. QED
  BY <1>2, LenProperties

\* The stream of a peer: the message and the data.
LEMMA StreamForm ==
  ASSUME NEW p \in Peers
  PROVE  IsStream(Message(p) \o Data, p) /\ PayloadSize(p) \in Nat
<1> DEFINE m == Message(p)
           f == Format(p.header)
           l == PayloadSize(p)
           s == m \o Data
<1>1. IsMessage(m, p, f) /\ l \in Nat
  BY MessageForm
<1> HIDE DEF m, f, l
<1>2. /\ m \in Seq(Nat) /\ Len(m) = 16 + l
      /\ IsPreamble(m, p.fault, FamilyIn(p.header), l)
      /\ \A i \in 1..l : 16 + i <= Len(f) => m[16 + i] = f[16 + i]
  BY <1>1 DEF IsMessage, l
<1>3. /\ s \in Seq(Nat) /\ Len(s) = Len(m) + Len(Data)
      /\ \A i \in 1..Len(m) : s[i] = m[i]
      /\ \A i \in 1..Len(Data) : s[Len(m) + i] = Data[i]
  BY <1>2, DataAreBytes, Concat
<1> HIDE DEF s
<1>4. /\ s \in Seq(Nat) /\ Len(s) = 16 + l + Len(Data)
      /\ \A i \in 1..16 + l : s[i] = m[i]
      /\ \A i \in 1..Len(Data) : s[16 + l + i] = Data[i]
  BY <1>2, <1>3
<1>5. IsPreamble(s, p.fault, FamilyIn(p.header), l)
  <2>1. \A i \in 1..16 : i \in 1..16 + l
    BY <1>1
  <2>2. \A i \in 1..16 : s[i] = m[i]
    BY <1>4, <2>1
  <2>3. IsPreamble(m, p.fault, FamilyIn(p.header), l)
    BY <1>2
  <2>4. QED
    BY <2>2, <2>3 DEF IsPreamble
<1>6. ASSUME NEW i \in 1..l, 16 + i <= Len(f) PROVE s[16 + i] = f[16 + i]
  <2>1. 16 + i \in 1..16 + l
    BY <1>1
  <2>2. s[16 + i] = m[16 + i]
    BY <1>4, <2>1
  <2>3. m[16 + i] = f[16 + i]
    BY <1>2, <1>6
  <2>4. QED
    BY <2>2, <2>3
<1>7. IsStream(s, p)
  BY <1>4, <1>5, <1>6 DEF IsStream, f, l
<1>8. QED
  BY <1>1, <1>7 DEF s, m, l
-----------------------------------------------------------------------------
(* What ReadHeader makes of it.                                            *)

\* ReadHeader compares 12 bytes with the signature.
LEMMA SignatureSeen ==
  ASSUME NEW r \in Seq(Nat), Len(r) = 16, NEW fault, NEW family, NEW l,
         IsPreamble(r, fault, family, l)
  PROVE  SubSeq(r, 1, 12) = protocolSignature <=> fault # "signature"
<1> DEFINE g == SubSeq(r, 1, 12)
<1>1. IsInitial(g, r, 12)
  <2>1. 12 \in 0..Len(r)
    OBVIOUS
  <2>2. QED
    BY <2>1, Initial
<1> HIDE DEF g
<1>2. g \in Seq(Nat) /\ Len(g) = 12
  BY <1>1 DEF IsInitial
<1>3. \A i \in 1..12 : g[i] = r[i]
  BY <1>1 DEF IsInitial
<1>4. \A i \in 1..11 : g[i] = protocolSignature[i]
  <2>1. \A i \in 1..11 : r[i] = protocolSignature[i]
    BY DEF IsPreamble
  <2>2. QED
    BY <1>3, <2>1
<1>5. g[12] = IF fault = "signature" THEN 13 ELSE protocolSignature[12]
  BY <1>3 DEF IsPreamble
<1>6. protocolSignature \in Seq(Nat) /\ Len(protocolSignature) = 12 /\ protocolSignature[12] = 10
  BY DEF protocolSignature
<1>7. ASSUME fault # "signature" PROVE g = protocolSignature
  <2>1. g[12] = protocolSignature[12]
    BY <1>5, <1>7
  <2>2. ASSUME NEW i \in 1..12 PROVE g[i] = protocolSignature[i]
    <3>1. i \in 1..11 \/ i = 12
      OBVIOUS
    <3>2. QED
      BY <1>4, <2>1, <3>1
  <2>3. QED
    BY <1>2, <1>6, <2>2, SeqEqual
<1>8. ASSUME fault = "signature" PROVE g # protocolSignature
  BY <1>5, <1>6, <1>8
<1>9. QED
  BY <1>7, <1>8 DEF g

\* What ReadHeader reads in the preamble.
LEMMA PreambleSeen ==
  ASSUME NEW p \in Peers, NEW s, IsStream(s, p)
  PROVE  /\ Recognized(SubSeq(s, 1, 16)) <=> p.fault \notin {"signature", "version"}
         /\ PayloadLength(SubSeq(s, 1, 16)) = PayloadSize(p)
         /\ SubSeq(s, 1, 16)[13] = CommandByte(p.fault)
         /\ SubSeq(s, 1, 16)[14] = IF p.fault = "family" THEN 49 ELSE FamilyIn(p.header)
<1> DEFINE r == SubSeq(s, 1, 16)
           l == PayloadSize(p)
           family == FamilyIn(p.header)
<1>1. IsInitial(r, s, 16)
  <2>1. s \in Seq(Nat) /\ Len(s) = 16 + l + Len(Data) /\ l \in Nat
    BY StreamForm DEF IsStream
  <2>2. 16 \in 0..Len(s)
    BY <2>1, DataAreBytes
  <2>3. QED
    BY <2>1, <2>2, Initial
<1> HIDE DEF r
<1>2. \A i \in 1..16 : r[i] = s[i]
  BY <1>1 DEF IsInitial
<1>3. IsPreamble(s, p.fault, family, l)
  BY DEF IsStream
<1>4. IsPreamble(r, p.fault, family, l)
  BY <1>2, <1>3 DEF IsPreamble
<1>5. r \in Seq(Nat) /\ Len(r) = 16
  BY <1>1 DEF IsInitial
<1>6. SubSeq(r, 1, 12) = protocolSignature <=> p.fault # "signature"
  BY <1>4, <1>5, SignatureSeen
<1>7. /\ r[13] = CommandByte(p.fault)
      /\ r[14] = IF p.fault = "family" THEN 49 ELSE family
      /\ l = 256 * r[15] + r[16]
  BY <1>4 DEF IsPreamble
<1>8. r[13] \div 16 = 2 <=> p.fault # "version"
  BY <1>7 DEF CommandByte
<1>9. Recognized(r) <=> p.fault \notin {"signature", "version"}
  BY <1>6, <1>8 DEF Recognized, protocolVersion
<1>10. PayloadLength(r) = l
  BY <1>7 DEF PayloadLength, Uint16
<1>11. QED
  BY <1>7, <1>9, <1>10 DEF r

\* q is the payload of a header of this form, with or without TLVs.
HasAddresses(q, n, a, b, x, y) ==
  /\ SubSeq(q, 1, n) = a /\ SubSeq(q, n + 1, 2 * n) = b
  /\ Uint16(q, 2 * n + 1) = x /\ Uint16(q, 2 * n + 3) = y

\* What it reads in a payload are the addresses and ports of the header.
LEMMA AddressesSeen ==
  ASSUME NEW n \in Nat, n > 0, NEW f, NEW family, NEW a, NEW b, NEW x, NEW y,
         IsHeader(f, n, family, a, b, x, y),
         a \in Seq(Nat), Len(a) = n, b \in Seq(Nat), Len(b) = n,
         NEW q \in Seq(Nat), Len(q) >= 2 * n + 4,
         \A i \in 1..2 * n + 4 : q[i] = f[16 + i]
  PROVE  HasAddresses(q, n, a, b, x, y)
<1>1. Len(q) \in Nat
  BY LenProperties
<1>2. \A i \in 1..n : f[16 + i] = a[i] /\ f[16 + n + i] = b[i]
  BY DEF IsHeader
<1>3. SubSeq(q, 1, n) = a
  <2> DEFINE g == SubSeq(q, 1, n)
  <2>1. n \in 0..Len(q)
    BY <1>1
  <2>2. IsInitial(g, q, n)
    BY <2>1, Initial
  <2> HIDE DEF g
  <2>3. g \in Seq(Nat) /\ Len(g) = n
    BY <2>2 DEF IsInitial
  <2>4. ASSUME NEW i \in 1..n PROVE g[i] = a[i]
    <3>1. g[i] = q[i]
      BY <2>2 DEF IsInitial
    <3>2. i \in 1..2 * n + 4
      OBVIOUS
    <3>3. q[i] = f[16 + i]
      BY <3>2
    <3>4. f[16 + i] = a[i]
      BY <1>2
    <3>5. QED
      BY <3>1, <3>3, <3>4
  <2>5. g = a
    BY <2>3, <2>4, SeqEqual
  <2>6. QED
    BY <2>5 DEF g
<1>4. SubSeq(q, n + 1, 2 * n) = b
  <2> DEFINE g == SubSeq(q, n + 1, 2 * n)
  <2>1. n + 1 \in 1..Len(q) + 1 /\ 2 * n \in 0..Len(q) /\ n + 1 <= 2 * n + 1
    BY <1>1
  <2>2. /\ g \in Seq(Nat) /\ Len(g) = 2 * n - (n + 1) + 1
        /\ \A i \in 1..2 * n - (n + 1) + 1 : g[i] = q[n + 1 + i - 1]
    BY <2>1, Part
  <2> HIDE DEF g
  <2>3. 2 * n - (n + 1) + 1 = n
    OBVIOUS
  <2>4. g \in Seq(Nat) /\ Len(g) = n
    BY <2>2, <2>3
  <2>5. ASSUME NEW i \in 1..n PROVE g[i] = b[i]
    <3>1. g[i] = q[n + 1 + i - 1]
      BY <2>2, <2>3
    <3>2. n + 1 + i - 1 = n + i /\ n + i \in 1..2 * n + 4 /\ 16 + (n + i) = 16 + n + i
      OBVIOUS
    <3>3. q[n + i] = f[16 + (n + i)]
      BY <3>2
    <3>4. f[16 + n + i] = b[i]
      BY <1>2
    <3>5. QED
      BY <3>1, <3>2, <3>3, <3>4
  <2>6. g = b
    BY <2>4, <2>5, SeqEqual
  <2>7. QED
    BY <2>6 DEF g
<1>5. Uint16(q, 2 * n + 1) = x /\ Uint16(q, 2 * n + 3) = y
  <2>1. /\ q[2 * n + 1] = f[17 + 2 * n] /\ q[2 * n + 2] = f[18 + 2 * n]
        /\ q[2 * n + 3] = f[19 + 2 * n] /\ q[2 * n + 4] = f[20 + 2 * n]
    <3>1. /\ 2 * n + 1 \in 1..2 * n + 4 /\ 16 + (2 * n + 1) = 17 + 2 * n
          /\ 2 * n + 2 \in 1..2 * n + 4 /\ 16 + (2 * n + 2) = 18 + 2 * n
          /\ 2 * n + 3 \in 1..2 * n + 4 /\ 16 + (2 * n + 3) = 19 + 2 * n
          /\ 2 * n + 4 \in 1..2 * n + 4 /\ 16 + (2 * n + 4) = 20 + 2 * n
      OBVIOUS
    <3>2. QED
      BY <3>1
  <2>2. x = 256 * f[17 + 2 * n] + f[18 + 2 * n] /\ y = 256 * f[19 + 2 * n] + f[20 + 2 * n]
    BY DEF IsHeader
  <2>3. 2 * n + 1 + 1 = 2 * n + 2 /\ 2 * n + 3 + 1 = 2 * n + 4
    OBVIOUS
  <2>4. QED
    BY <2>1, <2>2, <2>3 DEF Uint16
<1>6. QED
  BY <1>3, <1>4, <1>5 DEF HasAddresses

\* parseProxyHeader takes the addresses for what Format took them for.
LEMMA ParserChosen ==
  ASSUME NEW h, Spoken(h), NEW q
  PROVE  parseProxyHeader(Family(h), q) = Parsed(h.remote.net, Size(h), q)
<1>1. h.remote.net \in {"TCP", "UDP"}
  BY DEF Spoken
<1>2. QED
  BY <1>1 DEF parseProxyHeader, Family, Size, familyTCP4, familyTCP6, familyUDP4, familyUDP6

\* A header and the addresses it is about.
Matches(header, truth) ==
  /\ header # NoHeader
  /\ Equal(header.remote, truth.remote) /\ Equal(header.local, truth.local)

\* What ReadHeader interprets.
PayloadSeen(s, p) == SubSeq(s, 17, 16 + PayloadSize(p))

\* The payload that is read ends before the client's data.
LEMMA PayloadForm ==
  ASSUME NEW p \in Peers, NEW s, IsStream(s, p)
  PROVE  /\ PayloadSeen(s, p) \in Seq(Nat) /\ Len(PayloadSeen(s, p)) = PayloadSize(p)
         /\ \A i \in 1..PayloadSize(p) :
              16 + i <= Len(Format(p.header)) => PayloadSeen(s, p)[i] = Format(p.header)[16 + i]
<1>1. PICK l, f : l = PayloadSize(p) /\ f = Format(p.header)
  BY Zenon
<1>2. s \in Seq(Nat) /\ Len(s) = 16 + l + Len(Data) /\ l \in Nat
  BY <1>1, StreamForm DEF IsStream
<1>3. \A i \in 1..l : 16 + i <= Len(f) => s[16 + i] = f[16 + i]
  BY <1>1 DEF IsStream
<1>4. PICK n : n = 16 + l
  BY Zenon
<1>5. 17 \in 1..Len(s) + 1 /\ n \in 0..Len(s) /\ 17 <= n + 1
  BY <1>2, <1>4, DataAreBytes
<1> DEFINE q == SubSeq(s, 17, n)
<1>6. /\ q \in Seq(Nat) /\ Len(q) = n - 17 + 1
      /\ \A i \in 1..n - 17 + 1 : q[i] = s[17 + i - 1]
  BY <1>2, <1>5, Part
<1> HIDE DEF q
<1>7. n - 17 + 1 = l /\ \A i \in 1..l : 17 + i - 1 = 16 + i
  BY <1>2, <1>4
<1>8. q \in Seq(Nat) /\ Len(q) = l /\ \A i \in 1..l : q[i] = s[16 + i]
  BY <1>6, <1>7
<1>9. \A i \in 1..l : 16 + i <= Len(f) => q[i] = f[16 + i]
  BY <1>3, <1>8
<1>10. q = PayloadSeen(s, p)
  BY <1>1, <1>4 DEF PayloadSeen, q
<1>11. QED
  BY <1>1, <1>8, <1>9, <1>10

\* What ReadHeader parses is about the addresses that were formatted.
LEMMA HeaderRead ==
  ASSUME NEW p \in Peers, p.fault # "short", Spoken(p.header), NEW s, IsStream(s, p)
  PROVE  Matches(parseProxyHeader(Family(p.header), PayloadSeen(s, p)), p.header)
<1> DEFINE h == p.header
           net == h.remote.net
           res == parseProxyHeader(Family(h), PayloadSeen(s, p))
<1>1. h \in Headers /\ p.extra \in Extras
  BY DEF Peers
<1>2. PICK n, family, f, a, b, x, y :
        /\ n = Size(h) /\ family = Family(h) /\ f = Format(h)
        /\ a = Stored(h, h.remote.ip) /\ b = Stored(h, h.local.ip)
        /\ x = h.remote.port /\ y = h.local.port
        /\ IsHeader(f, n, family, a, b, x, y)
  BY <1>1, Written
<1>3. /\ a \in Seq(Nat) /\ Len(a) = n /\ To16(a) = To16(h.remote.ip)
      /\ b \in Seq(Nat) /\ Len(b) = n /\ To16(b) = To16(h.local.ip)
      /\ h.local.net = net
  BY <1>1, <1>2, StoredForm
<1>4. n \in {4, 16}
  BY <1>2 DEF Size
<1>5. PICK q : q = PayloadSeen(s, p)
  BY Zenon
<1>6. PayloadSize(p) \in Nat /\ PayloadSize(p) >= 2 * n + 4
  <2>1. PICK e : e = p.extra /\ e \in Seq(Byte)
    BY <1>1, ProxyHeaderAssumption
  <2>2. Len(e) \in Nat
    BY <2>1, LenProperties
  <2>3. PayloadSize(p) = 2 * n + 4 + Len(e)
    BY <1>2, <2>1 DEF PayloadSize, AddressSize
  <2>4. QED
    BY <1>4, <2>2, <2>3
<1>7. /\ q \in Seq(Nat) /\ Len(q) = PayloadSize(p)
      /\ \A i \in 1..PayloadSize(p) : 16 + i <= Len(f) => q[i] = f[16 + i]
  BY <1>2, <1>5, PayloadForm
<1>8. \A i \in 1..2 * n + 4 : q[i] = f[16 + i]
  <2>1. Len(f) = 20 + 2 * n
    BY <1>2 DEF IsHeader
  <2>2. ASSUME NEW i \in 1..2 * n + 4 PROVE i \in 1..PayloadSize(p) /\ 16 + i <= Len(f)
    BY <1>4, <1>6, <2>1
  <2>3. QED
    BY <1>7, <2>2
<1>9. Len(q) >= 2 * n + 4
  BY <1>6, <1>7
<1>10. n \in Nat /\ n > 0
  BY <1>4
<1>11. HasAddresses(q, n, a, b, x, y)
  BY <1>2, <1>3, <1>7, <1>8, <1>9, <1>10, AddressesSeen
<1>12. res = Parsed(net, n, q)
  BY <1>2, <1>5, ParserChosen
<1>13. ~(Len(q) < 2 * n + 4)
  BY <1>6, <1>7, <1>10
<1>14. res = [remote |-> [net |-> net, ip |-> SubSeq(q, 1, n), port |-> Uint16(q, 2 * n + 1)],
              local |-> [net |-> net, ip |-> SubSeq(q, n + 1, 2 * n), port |-> Uint16(q, 2 * n + 3)]]
  BY <1>12, <1>13, Zenon DEF Parsed, PortAt
<1> HIDE DEF res
<1>15. res = [remote |-> [net |-> net, ip |-> a, port |-> x], local |-> [net |-> net, ip |-> b, port |-> y]]
  BY <1>11, <1>14, Zenon DEF HasAddresses
<1>16. net \in {"TCP", "UDP"}
  BY DEF Spoken
<1>17. /\ res.remote.net = net /\ res.remote.ip = a /\ res.remote.port = x
       /\ res.local.net = net /\ res.local.ip = b /\ res.local.port = y
  BY <1>15
<1>18. res # NoHeader
  <2>1. NoHeader.remote.net = "nil"
    BY DEF NoHeader, NoAddr
  <2>2. QED
    BY <1>16, <1>17, <2>1
<1>19. Equal(res.remote, h.remote) /\ Equal(res.local, h.local)
  BY <1>2, <1>3, <1>17 DEF Equal
<1>20. Matches(res, h)
  BY <1>18, <1>19 DEF Matches
<1>21. QED
  BY <1>20 DEF res

\* The header that ReadHeader finds in the stream of p, ...
Found(s, p) ==
  LET command == SubSeq(s, 1, 16)[13] % 16
  IN CASE command = commandLocal -> ConnAddrs
       [] command = commandProxy -> parseProxyHeader(SubSeq(s, 1, 16)[14], PayloadSeen(s, p))
       [] OTHER -> NoHeader

\* ... what it should be, and if there should be one.
Truth(p) == IF p.fault = "local" THEN ConnAddrs ELSE p.header
Understood(p) == p.fault = "local" \/ (p.fault = "none" /\ Spoken(p.header))

\* Whatever the fault, ReadHeader finds the true addresses or none.
LEMMA Interpreted ==
  ASSUME NEW p \in Peers, p.fault \notin {"signature", "version"}, NEW s, IsStream(s, p)
  PROVE  /\ Understood(p) => Matches(Found(s, p), Truth(p))
         /\ ~Understood(p) => Found(s, p) = NoHeader
<1> DEFINE command == SubSeq(s, 1, 16)[13] % 16
           family == SubSeq(s, 1, 16)[14]
           h == p.header
<1>1. /\ SubSeq(s, 1, 16)[13] = CommandByte(p.fault)
      /\ family = IF p.fault = "family" THEN 49 ELSE FamilyIn(h)
  BY PreambleSeen
<1>2. command = CommandByte(p.fault) % 16
  BY <1>1
<1>3. p.fault \in Faults /\ (p.fault = "short" => Spoken(h))
  BY DEF Peers
<1> HIDE DEF command, family
<1>4. CASE p.fault = "local"
  <2>1. CommandByte(p.fault) = 32
    BY <1>4 DEF CommandByte
  <2>2. command = 0
    BY <1>2, <2>1
  <2>3. Found(s, p) = ConnAddrs
    BY <2>2 DEF Found, command, commandLocal, commandProxy
  <2>4. ConnAddrs # NoHeader
    BY ProxyHeaderAssumption DEF NoHeader, NoAddr
  <2>5. Matches(ConnAddrs, ConnAddrs)
    BY <2>4 DEF Matches, Equal
  <2>6. QED
    BY <1>4, <2>3, <2>5 DEF Truth, Understood
<1>5. CASE p.fault = "command"
  <2>1. CommandByte(p.fault) = 34
    BY <1>5 DEF CommandByte
  <2>2. command = 2
    BY <1>2, <2>1
  <2>3. Found(s, p) = NoHeader
    BY <2>2 DEF Found, command, commandLocal, commandProxy
  <2>4. QED
    BY <1>5, <2>3 DEF Understood
<1>6. CASE p.fault \in {"none", "family", "short"}
  <2>1. CommandByte(p.fault) = 33
    BY <1>6 DEF CommandByte
  <2>2. command = 1
    BY <1>2, <2>1
  <2>3. Found(s, p) = parseProxyHeader(family, PayloadSeen(s, p))
    BY <2>2 DEF Found, command, family, commandLocal, commandProxy
  <2>4. CASE p.fault = "none" /\ Spoken(h)
    <3>1. family = Family(h)
      BY <1>1, <2>4 DEF FamilyIn
    <3>2. Matches(Found(s, p), h)
      BY <2>3, <2>4, <3>1, HeaderRead
    <3>3. QED
      BY <2>4, <3>2 DEF Truth, Understood
  <2>5. CASE p.fault = "family" \/ (p.fault = "none" /\ ~Spoken(h))
    <3>1. family \in {0, 49}
      BY <1>1, <2>5 DEF FamilyIn, familyUnspecified
    <3>2. Found(s, p) = NoHeader
      BY <2>3, <3>1 DEF parseProxyHeader, familyTCP4, familyTCP6, familyUDP4, familyUDP6
    <3>3. QED
      BY <2>5, <3>2 DEF Understood
  <2>6. CASE p.fault = "short"
    <3>1. family = Family(h) /\ Spoken(h)
      BY <1>1, <1>3, <2>6 DEF FamilyIn
    <3>2. Found(s, p) = Parsed(h.remote.net, Size(h), PayloadSeen(s, p))
      BY <2>3, <3>1, ParserChosen
    <3>3. Size(h) \in {4, 16}
      BY DEF Size
    <3>4. Len(PayloadSeen(s, p)) < 2 * Size(h) + 4
      <4>1. Len(PayloadSeen(s, p)) = PayloadSize(p)
        BY PayloadForm
      <4>2. PayloadSize(p) = 2 * Size(h) + 4 - 1
        <5>1. AddressSize(h) = 2 * Size(h) + 4
          BY <3>1, Zenon DEF AddressSize
        <5>2. PayloadSize(p) = AddressSize(h) - 1
          BY <2>6, Zenon DEF PayloadSize
        <5>3. QED
          BY <3>3, <5>1, <5>2
      <4>3. QED
        BY <3>3, <4>1, <4>2
    <3>5. Found(s, p) = NoHeader
      BY <3>2, <3>4 DEF Parsed
    <3>6. QED
      BY <2>6, <3>5 DEF Understood
  <2>7. QED
    BY <1>6, <2>4, <2>5, <2>6
<1>7. QED
  BY <1>3, <1>4, <1>5, <1>6 DEF Faults
-----------------------------------------------------------------------------
(* The client's data.                                                      *)

\* What follows the first m bytes of it, up to n.
DataPart(m, n) == SubSeq(Data, m + 1, n)

\* What a part of the data is.
LEMMA PartOfData ==
  ASSUME NEW m \in Nat, NEW n \in Nat, m <= n, n <= Len(Data)
  PROVE  /\ DataPart(m, n) \in Seq(Nat) /\ Len(DataPart(m, n)) = n - m
         /\ \A i \in 1..n - m : DataPart(m, n)[i] = Data[m + i]
<1>1. m + 1 \in 1..Len(Data) + 1 /\ n \in 0..Len(Data) /\ m + 1 <= n + 1
  BY DataAreBytes
<1>2. /\ DataPart(m, n) \in Seq(Nat) /\ Len(DataPart(m, n)) = n - (m + 1) + 1
      /\ \A i \in 1..n - (m + 1) + 1 : DataPart(m, n)[i] = Data[m + 1 + i - 1]
  BY <1>1, DataAreBytes, Part DEF DataPart
<1>3. n - (m + 1) + 1 = n - m /\ \A i \in 1..n - m : m + 1 + i - 1 = m + i
  OBVIOUS
<1>4. QED
  BY <1>2, <1>3

\* A part without bytes.
LEMMA NoData == ASSUME NEW n \in Nat PROVE DataPart(n, n) = <<>>
<1>1. n < n + 1 /\ n \in Int /\ n + 1 \in Int
  OBVIOUS
<1>2. QED
  BY <1>1, SubSeqEmpty DEF DataPart

\* Two parts, one after the other.
LEMMA Adjacent ==
  ASSUME NEW m \in Nat, NEW k \in Nat, NEW n \in Nat, m <= k, k <= n, n <= Len(Data)
  PROVE  DataPart(m, k) \o DataPart(k, n) = DataPart(m, n)
<1>1. m + 1 \in 1..Len(Data) + 1 /\ k \in m + 1 - 1..Len(Data) /\ n \in k..Len(Data)
  BY DataAreBytes
<1>2. SubSeq(Data, m + 1, k) \o SubSeq(Data, k + 1, n) = SubSeq(Data, m + 1, n)
  BY <1>1, DataAreBytes, ConcatAdjacentSubSeq
<1>3. QED
  BY <1>2, Zenon DEF DataPart

\* A buffer that holds a part of the data, after a read of j bytes.
LEMMA SplitPart ==
  ASSUME NEW m \in Nat, NEW n \in Nat, m <= n, n <= Len(Data), NEW j \in 1..n - m
  PROVE  /\ SubSeq(DataPart(m, n), 1, j) = DataPart(m, m + j)
         /\ SubSeq(DataPart(m, n), j + 1, n - m) = DataPart(m + j, n)
<1>1. /\ m + 1 \in 1..Len(Data) /\ n \in 1..Len(Data)
      /\ 1 \in 1..n - (m + 1) + 1 /\ j \in 1..n - (m + 1) + 1
      /\ n - (m + 1) + 1 = n - m /\ m + 1 + j - 1 = m + j /\ m + 1 + 1 - 1 = m + 1
  BY DataAreBytes
<1>2. SubSeq(DataPart(m, n), 1, j) = SubSeq(Data, m + 1 + 1 - 1, m + 1 + j - 1)
  BY <1>1, DataAreBytes, SubSeqOfSubSeq DEF DataPart
<1>3. SubSeq(DataPart(m, n), 1, j) = DataPart(m, m + j)
  BY <1>1, <1>2 DEF DataPart
<1>4. CASE j = n - m
  <2>1. n - m < j + 1 /\ n - m \in Int /\ j + 1 \in Int
    BY <1>4
  <2>2. SubSeq(DataPart(m, n), j + 1, n - m) = <<>>
    BY <2>1, SubSeqEmpty
  <2>3. m + j = n
    BY <1>4
  <2>4. QED
    BY <1>3, <2>2, <2>3, NoData
<1>5. CASE j # n - m
  <2>1. /\ j + 1 \in 1..n - (m + 1) + 1 /\ n - m \in 1..n - (m + 1) + 1
        /\ m + 1 + (j + 1) - 1 = m + j + 1 /\ m + 1 + (n - m) - 1 = n
    BY <1>5
  <2>2. SubSeq(DataPart(m, n), j + 1, n - m) = SubSeq(Data, m + 1 + (j + 1) - 1, m + 1 + (n - m) - 1)
    BY <1>1, <2>1, DataAreBytes, SubSeqOfSubSeq DEF DataPart
  <2>3. SubSeq(DataPart(m, n), j + 1, n - m) = DataPart(m + j, n)
    BY <2>1, <2>2 DEF DataPart
  <2>4. QED
    BY <1>3, <2>3
<1>6. QED
  BY <1>4, <1>5

\* On the wire the data follow the message.
LEMMA DataOnWire ==
  ASSUME NEW p \in Peers, NEW s, IsStream(s, p),
         NEW k \in Nat, NEW n \in Nat, k <= n, n <= Len(Data)
  PROVE  SubSeq(s, 16 + PayloadSize(p) + k + 1, 16 + PayloadSize(p) + n) = DataPart(k, n)
<1>1. PICK l : l = 16 + PayloadSize(p)
  BY Zenon
<1>2. /\ s \in Seq(Nat) /\ Len(s) = l + Len(Data) /\ l \in Nat
      /\ \A i \in 1..Len(Data) : s[l + i] = Data[i]
  BY <1>1, StreamForm DEF IsStream
<1>3. PICK x, y : x = l + k + 1 /\ y = l + n
  BY Zenon
<1>4. x \in 1..Len(s) + 1 /\ y \in 0..Len(s) /\ x <= y + 1
  BY <1>2, <1>3, DataAreBytes
<1> DEFINE q == SubSeq(s, x, y)
<1>5. /\ q \in Seq(Nat) /\ Len(q) = y - x + 1
      /\ \A i \in 1..y - x + 1 : q[i] = s[x + i - 1]
  BY <1>2, <1>4, Part
<1> HIDE DEF q
<1>6. y - x + 1 = n - k
  BY <1>2, <1>3
<1>7. q \in Seq(Nat) /\ Len(q) = n - k
  BY <1>5, <1>6
<1>8. ASSUME NEW i \in 1..n - k PROVE q[i] = Data[k + i]
  <2>1. q[i] = s[x + i - 1]
    BY <1>5, <1>6
  <2>2. x + i - 1 = l + (k + i) /\ k + i \in 1..Len(Data)
    BY <1>2, <1>3, DataAreBytes
  <2>3. s[l + (k + i)] = Data[k + i]
    BY <1>2, <2>2
  <2>4. QED
    BY <2>1, <2>2, <2>3
<1>9. /\ DataPart(k, n) \in Seq(Nat) /\ Len(DataPart(k, n)) = n - k
      /\ \A i \in 1..n - k : DataPart(k, n)[i] = Data[k + i]
  BY PartOfData
<1>10. PICK d : d = DataPart(k, n)
  BY Zenon
<1>11. \A i \in 1..Len(q) : q[i] = d[i]
  BY <1>7, <1>8, <1>9, <1>10
<1>12. q = d
  BY <1>7, <1>9, <1>10, <1>11, SeqEqual
<1>13. QED
  BY <1>1, <1>3, <1>10, <1>12 DEF q
-----------------------------------------------------------------------------
(* The inductive invariant.                                                *)

Streaming == peer \in Peers /\ stream = Message(peer) \o Data

Counters ==
  /\ sent \in Nat /\ taken \in Nat /\ taken <= sent /\ sent <= Len(stream)
  /\ closed \in BOOLEAN

\* ReadHeader takes no more than the header before it returns, and has an
\* error only when there is one.
Reading ==
  /\ pc \in {"preamble", "payload", "ok", "error"}
  /\ pc = "preamble" => taken <= 16 /\ result = NoHeader
  /\ pc = "payload" => /\ taken <= 16 + PayloadSize(peer)
                       /\ peer.fault \notin {"signature", "version"}
                       /\ result = NoHeader
  /\ pc = "error" => /\ result = NoHeader
                     /\ ~Understood(peer) \/ (closed /\ sent < 16 + PayloadSize(peer))
  /\ pc = "ok" => Understood(peer) /\ Matches(result, Truth(peer))

\* The data of the client, up to what has been taken, is in what has been
\* replayed and what has been peeked at.
Split(n, k) ==
  /\ n \in Nat /\ k \in Nat /\ n <= k /\ k <= Len(Data)
  /\ taken = 16 + PayloadSize(peer) + k
  /\ replayed = DataPart(0, n) /\ peeked = DataPart(n, k)

Replaying ==
  /\ pc = "ok" => \E n, k \in 0..Len(Data) : Split(n, k)
  /\ pc # "ok" => peekPc = "peek" /\ peeked = <<>> /\ replayed = <<>> /\ ~ended
  /\ ended \in BOOLEAN
  /\ ended => closed /\ taken = sent /\ peeked = <<>>

IInv == Streaming /\ Counters /\ Reading /\ Replaying

\* What the invariant says of the stream.
LEMMA StreamFacts ==
  ASSUME Streaming
  PROVE  /\ peer \in Peers /\ IsStream(stream, peer)
         /\ PayloadSize(peer) \in Nat
         /\ Len(stream) = 16 + PayloadSize(peer) + Len(Data)
         /\ MessageSize = 16 + PayloadSize(peer)
         /\ PayloadLength(Preamble) = PayloadSize(peer)
         /\ Recognized(Preamble) <=> peer.fault \notin {"signature", "version"}
<1>1. peer \in Peers /\ IsStream(stream, peer) /\ PayloadSize(peer) \in Nat
  BY StreamForm DEF Streaming
<1>2. Len(stream) = 16 + PayloadSize(peer) + Len(Data)
  BY <1>1 DEF IsStream
<1>3. MessageSize = 16 + PayloadSize(peer)
  <2>1. \A x, l, d : x = 16 + l + d /\ l \in Nat /\ d \in Nat => x - d = 16 + l
    OBVIOUS
  <2>2. QED
    BY <1>1, <1>2, <2>1, DataAreBytes DEF MessageSize
<1>4. /\ PayloadLength(Preamble) = PayloadSize(peer)
      /\ Recognized(Preamble) <=> peer.fault \notin {"signature", "version"}
  BY <1>1, PreambleSeen DEF Preamble, preambleSize
<1>5. QED
  BY <1>1, <1>2, <1>3, <1>4

\* ReadFull wants the preamble, then the payload.
LEMMA Wants ==
  ASSUME Streaming
  PROVE  Wanted = IF pc = "preamble" THEN 16 ELSE 16 + PayloadSize(peer)
BY StreamFacts DEF Wanted, preambleSize

\* A new connection satisfies the invariant.
LEMMA InitHolds == WireInit => IInv
<1> SUFFICES ASSUME WireInit PROVE IInv
  OBVIOUS
<1>1. Streaming
  BY DEF WireInit, Init, Streaming
<1>2. Counters
  <2>1. Len(stream) \in Nat
    BY <1>1, StreamFacts, DataAreBytes
  <2>2. sent = 0 /\ taken = 0 /\ closed = FALSE
    BY DEF WireInit, Init
  <2>3. 0 <= Len(stream)
    BY <2>1
  <2>4. sent \in Nat /\ taken \in Nat /\ taken <= sent
    BY <2>2
  <2>5. sent <= Len(stream)
    BY <2>2, <2>3
  <2>6. closed \in BOOLEAN
    BY <2>2, Zenon
  <2>7. QED
    BY <2>4, <2>5, <2>6 DEF Counters
<1>3. Reading
  BY DEF WireInit, Init, Reading
<1>4. Replaying
  BY DEF WireInit, Init, Hello!Init, Replaying
<1>5. QED
  BY <1>1, <1>2, <1>3, <1>4 DEF IInv

\* The network only adds bytes, or ends the stream.
LEMMA NetworkKeeps == IInv /\ Network => IInv'
<1> SUFFICES ASSUME IInv, Network PROVE IInv'
  OBVIOUS
<1> USE DEF IInv
<1>1. UNCHANGED <<peer, stream, taken, pc, result, peeked, peekPc, replayed, ended>>
  BY DEF Network, Arrive, Hangup, helloVars
<1>2. \/ ~closed /\ closed' = closed
      \/ ~closed /\ closed' = TRUE /\ sent' = sent
  BY DEF Network, Arrive, Hangup
<1>3. sent' \in Nat /\ sent <= sent' /\ sent' <= Len(stream)
  <2>1. Len(stream) \in Nat
    BY StreamFacts, DataAreBytes
  <2>2. ASSUME NEW n \in Segments, Arrive(n)
        PROVE  sent' \in Nat /\ sent <= sent' /\ sent' <= Len(stream)
    <3>1. n \in Nat
      BY ProxyHeaderAssumption
    <3>2. sent' = IF sent + n <= Len(stream) THEN sent + n ELSE Len(stream)
      BY <2>2 DEF Arrive
    <3>3. QED
      BY <2>1, <3>1, <3>2 DEF Counters
  <2>3. ASSUME Hangup PROVE sent' = sent
    BY <2>3 DEF Hangup
  <2>4. QED
    BY <2>2, <2>3 DEF Network, Counters
<1>4. Streaming'
  BY <1>1 DEF Streaming
<1>5. Counters'
  <2>1. Len(stream') = Len(stream) /\ taken' = taken
    BY <1>1
  <2>2. taken \in Nat /\ taken <= sent /\ sent \in Nat /\ closed' \in BOOLEAN
    BY <1>2 DEF Counters
  <2>3. taken' <= sent'
    BY <1>3, <2>1, <2>2
  <2>4. QED
    BY <1>3, <2>1, <2>2, <2>3 DEF Counters
<1>6. Reading'
  BY <1>1, <1>2 DEF Reading
<1>7. Replaying'
  BY <1>1, <1>2 DEF Replaying, Split
<1>8. QED
  BY <1>4, <1>5, <1>6, <1>7

\* ReadFull takes no more than it wants.
LEMMA ReadSomeKeeps == IInv /\ ReadSome /\ UNCHANGED helloVars => IInv'
<1> SUFFICES ASSUME IInv, ReadSome, UNCHANGED helloVars PROVE IInv'
  OBVIOUS
<1> USE DEF IInv
<1>1. /\ UNCHANGED <<peer, stream, sent, closed, pc, result, peeked, peekPc, replayed, ended>>
      /\ pc \in {"preamble", "payload"}
      /\ taken' = IF sent <= Wanted THEN sent ELSE Wanted
  BY DEF ReadSome, helloVars
<1>2. Wanted \in Nat /\ (pc = "preamble" => Wanted = 16) /\ (pc = "payload" => Wanted = 16 + PayloadSize(peer))
  BY StreamFacts, Wants
<1>3. taken' \in Nat /\ taken' <= sent /\ taken' <= Wanted
  BY <1>1, <1>2 DEF Counters
<1>4. Streaming'
  BY <1>1 DEF Streaming
<1>5. Counters'
  BY <1>1, <1>3 DEF Counters
<1>6. Reading'
  BY <1>1, <1>2, <1>3 DEF Reading
<1>7. Replaying'
  BY <1>1 DEF Replaying
<1>8. QED
  BY <1>4, <1>5, <1>6, <1>7

\* An early end is within the header.
LEMMA ReadEndsKeeps == IInv /\ ReadEnds /\ UNCHANGED helloVars => IInv'
<1> SUFFICES ASSUME IInv, ReadEnds, UNCHANGED helloVars PROVE IInv'
  OBVIOUS
<1> USE DEF IInv
<1>1. /\ UNCHANGED <<peer, stream, sent, closed, taken, result, peeked, peekPc, replayed, ended>>
      /\ pc \in {"preamble", "payload"} /\ pc' = "error"
      /\ closed /\ taken = sent /\ taken < Wanted
  BY DEF ReadEnds, helloVars
<1>2. sent < 16 + PayloadSize(peer)
  <2>1. PayloadSize(peer) \in Nat
    BY StreamFacts
  <2>2. Wanted \in {16, 16 + PayloadSize(peer)}
    BY Wants
  <2>3. QED
    BY <1>1, <2>1, <2>2 DEF Counters
<1>3. Streaming'
  BY <1>1 DEF Streaming
<1>4. Counters'
  BY <1>1 DEF Counters
<1>5. Reading'
  BY <1>1, <1>2 DEF Reading
<1>6. Replaying'
  BY <1>1 DEF Replaying
<1>7. QED
  BY <1>3, <1>4, <1>5, <1>6

\* Only a preamble with a fault is refused.
LEMMA CheckPreambleKeeps == IInv /\ CheckPreamble /\ UNCHANGED helloVars => IInv'
<1> SUFFICES ASSUME IInv, CheckPreamble, UNCHANGED helloVars PROVE IInv'
  OBVIOUS
<1> USE DEF IInv
<1>1. /\ UNCHANGED <<peer, stream, sent, closed, taken, result, peeked, peekPc, replayed, ended>>
      /\ pc = "preamble" /\ taken = Wanted
      /\ pc' = IF Recognized(Preamble) THEN "payload" ELSE "error"
  BY DEF CheckPreamble, helloVars
<1>2. taken = 16 /\ 16 <= 16 + PayloadSize(peer)
  <2>1. PayloadSize(peer) \in Nat
    BY StreamFacts
  <2>2. Wanted = 16
    BY <1>1, Wants
  <2>3. QED
    BY <1>1, <2>1, <2>2
<1>3. \/ pc' = "payload" /\ peer.fault \notin {"signature", "version"}
      \/ pc' = "error" /\ peer.fault \in {"signature", "version"}
  BY <1>1, StreamFacts
<1>4. Streaming'
  BY <1>1 DEF Streaming
<1>5. Counters'
  BY <1>1 DEF Counters
<1>6. Reading'
  BY <1>1, <1>2, <1>3 DEF Reading, Understood
<1>7. Replaying'
  BY <1>1, <1>3 DEF Replaying
<1>8. QED
  BY <1>4, <1>5, <1>6, <1>7

\* Where ReadHeader ends the payload ends, and the data begin.
LEMMA InterpretKeeps == IInv /\ Interpret /\ UNCHANGED helloVars => IInv'
<1> SUFFICES ASSUME IInv, Interpret, UNCHANGED helloVars PROVE IInv'
  OBVIOUS
<1> USE DEF IInv
<1>1. /\ UNCHANGED <<peer, stream, sent, closed, taken, peeked, peekPc, replayed, ended>>
      /\ pc = "payload" /\ taken = Wanted
      /\ pc' = IF result' = NoHeader THEN "error" ELSE "ok"
  BY DEF Interpret, helloVars
<1>2. taken = 16 + PayloadSize(peer) /\ peer.fault \notin {"signature", "version"}
  BY <1>1, Wants DEF Reading
<1>3. result' = Found(stream, peer)
  <2>1. SubSeq(stream, preambleSize + 1, taken) = PayloadSeen(stream, peer)
    BY <1>2 DEF PayloadSeen, preambleSize
  <2>2. Preamble = SubSeq(stream, 1, 16)
    BY DEF Preamble, preambleSize
  <2>3. QED
    BY <2>1, <2>2 DEF Interpret, Found
<1>4. /\ Understood(peer) => Matches(result', Truth(peer))
      /\ ~Understood(peer) => result' = NoHeader
  BY <1>2, <1>3, StreamFacts, Interpreted
<1>5. \/ pc' = "ok" /\ Understood(peer) /\ Matches(result', Truth(peer))
      \/ pc' = "error" /\ ~Understood(peer) /\ result' = NoHeader
  BY <1>1, <1>4 DEF Matches
<1>6. Streaming'
  BY <1>1 DEF Streaming
<1>7. Counters'
  BY <1>1 DEF Counters
<1>8. Reading'
  BY <1>1, <1>5 DEF Reading
<1>9. Replaying'
  <2>1. peekPc = "peek" /\ peeked = <<>> /\ replayed = <<>> /\ ~ended
    BY <1>1 DEF Replaying
  <2>2. DataPart(0, 0) = <<>>
    BY NoData
  <2>3. PayloadSize(peer) \in Nat /\ Len(Data) \in Nat
    BY StreamFacts, DataAreBytes
  <2>4. Split(0, 0)'
    BY <1>1, <1>2, <2>1, <2>2, <2>3 DEF Split
  <2>5. 0 \in 0..Len(Data)
    BY <2>3
  <2>6. QED
    BY <1>1, <2>1, <2>4, <2>5 DEF Replaying
<1>10. QED
  BY <1>6, <1>7, <1>8, <1>9

\* The next bytes that are taken are the next of the data.
LEMMA NextBytes ==
  ASSUME IInv, NEW n, NEW k, Split(n, k), NEW j \in 1..sent - taken
  PROVE  /\ k + j \in Nat /\ k + j <= Len(Data)
         /\ taken + j \in Nat /\ taken + j <= sent
         /\ taken + j = 16 + PayloadSize(peer) + (k + j)
         /\ Hello!Bytes(taken, taken + j) = DataPart(k, k + j)
<1>1. k \in Nat /\ k <= Len(Data) /\ taken = 16 + PayloadSize(peer) + k
  BY DEF Split
<1>2. /\ taken \in Nat /\ sent \in Nat /\ sent <= Len(stream)
      /\ PayloadSize(peer) \in Nat /\ Len(stream) = 16 + PayloadSize(peer) + Len(Data)
  BY StreamFacts DEF IInv, Counters
<1>3. j \in Nat /\ taken + j \in Nat /\ taken + j <= sent
  BY <1>2
<1>4. /\ k + j \in Nat /\ k + j <= Len(Data) /\ k <= k + j
      /\ taken + j = 16 + PayloadSize(peer) + (k + j)
  <2>1. taken + j <= 16 + PayloadSize(peer) + Len(Data)
    <3>1. Len(stream) = 16 + PayloadSize(peer) + Len(Data) /\ sent <= Len(stream)
      BY <1>2
    <3>2. PICK x : x = 16 + PayloadSize(peer) + Len(Data)
      BY Zenon
    <3>3. x \in Nat /\ sent <= x
      BY <1>2, <3>1, <3>2, DataAreBytes
    <3>4. taken + j <= x
      BY <1>2, <1>3, <3>3
    <3>5. QED
      BY <3>2, <3>4
  <2>2. \A l, d : l \in Nat /\ d \in Nat /\ 16 + l + k + j <= 16 + l + d => k + j <= d
    BY <1>1, <1>3
  <2>3. k + j <= Len(Data)
    BY <1>1, <1>2, <2>1, <2>2, DataAreBytes
  <2>4. taken + j = 16 + PayloadSize(peer) + (k + j) /\ k <= k + j /\ k + j \in Nat
    BY <1>1, <1>2, <1>3
  <2>5. QED
    BY <2>3, <2>4
<1>5. /\ SubSeq(stream, 16 + PayloadSize(peer) + k + 1, 16 + PayloadSize(peer) + (k + j))
           = DataPart(k, k + j)
  BY <1>1, <1>4, StreamFacts, DataOnWire DEF IInv
<1>6. Hello!Bytes(taken, taken + j) = DataPart(k, k + j)
  BY <1>1, <1>4, <1>5, Zenon DEF Hello!Bytes
<1>7. QED
  BY <1>3, <1>4, <1>6

\* What the handshake reads ends up in the buffer.
LEMMA PeekKeeps == IInv /\ Peek => IInv'
<1> SUFFICES ASSUME IInv, Peek PROVE IInv'
  OBVIOUS
<1>1. /\ UNCHANGED <<peer, stream, sent, closed, pc, result, replayed, ended>>
      /\ pc = "ok"
  BY DEF Peek, Hello!Peek, Hello!Read, Hello!ReadEnds, Hello!HelloKept, Hello!NoHello, Hello!given
<1>2. Streaming'
  BY <1>1 DEF IInv, Streaming
<1>3. Reading'
  BY <1>1 DEF IInv, Reading
<1>4. CASE UNCHANGED <<taken, peeked>>
  <2>1. Counters'
    BY <1>1, <1>4 DEF IInv, Counters
  <2>2. Replaying'
    BY <1>1, <1>4 DEF IInv, Replaying, Split
  <2>3. QED
    BY <1>2, <1>3, <2>1, <2>2 DEF IInv
<1>5. CASE Hello!Read
  <2>1. PICK n, k : Split(n, k)
    BY <1>1 DEF IInv, Replaying
  <2>2. PICK j \in 1..sent - taken :
          taken' = taken + j /\ peeked' = peeked \o Hello!Bytes(taken, taken + j)
    BY <1>5 DEF Hello!Read, Hello!Teed
  <2>3. /\ k + j \in Nat /\ k + j <= Len(Data)
        /\ taken' \in Nat /\ taken' <= sent
        /\ taken' = 16 + PayloadSize(peer) + (k + j)
        /\ peeked' = peeked \o DataPart(k, k + j)
    BY <2>1, <2>2, NextBytes
  <2>4. /\ n \in Nat /\ k \in Nat /\ n <= k /\ k <= Len(Data)
        /\ replayed = DataPart(0, n) /\ peeked = DataPart(n, k)
    BY <2>1 DEF Split
  <2>5. k <= k + j /\ n <= k + j
    BY <2>4, DataAreBytes
  <2>6. peeked' = DataPart(n, k + j)
    BY <2>3, <2>4, <2>5, Adjacent
  <2>7. Split(n, k + j)'
    BY <1>1, <2>3, <2>4, <2>5, <2>6 DEF Split
  <2>8. n \in 0..Len(Data) /\ k + j \in 0..Len(Data)
    BY <2>3, <2>4, <2>5, DataAreBytes
  <2>9. ended = FALSE
    <3>1. ended \in BOOLEAN /\ (ended => taken = sent)
      BY DEF IInv, Replaying
    <3>2. taken \in Nat /\ sent \in Nat
      BY DEF IInv, Counters
    <3>3. taken # sent
      BY <2>2, <3>2
    <3>4. QED
      BY <3>1, <3>3
  <2>10. Replaying'
    BY <1>1, <2>7, <2>8, <2>9 DEF Replaying
  <2>11. Counters'
    BY <1>1, <2>3 DEF IInv, Counters
  <2>12. QED
    BY <1>2, <1>3, <2>10, <2>11 DEF IInv
<1>6. QED
  BY <1>4, <1>5 DEF Peek, Hello!Peek, Hello!ReadEnds, Hello!HelloKept, Hello!NoHello

\* The buffer is replayed from its beginning.
LEMMA ReplayKeeps == IInv /\ pc = "ok" /\ Hello!Replay /\ UNCHANGED <<peer, pc, result>> => IInv'
<1> SUFFICES ASSUME IInv, pc = "ok", Hello!Replay, UNCHANGED <<peer, pc, result>> PROVE IInv'
  OBVIOUS
<1>1. /\ UNCHANGED <<peer, stream, sent, closed, taken, pc, result, ended>>
      /\ ~ended
  BY DEF Hello!Replay, Hello!given
<1>2. PICK n, k : Split(n, k)
  BY DEF IInv, Replaying
<1>3. /\ n \in Nat /\ k \in Nat /\ n <= k /\ k <= Len(Data)
      /\ taken = 16 + PayloadSize(peer) + k
      /\ replayed = DataPart(0, n) /\ peeked = DataPart(n, k)
  BY <1>2 DEF Split
<1>4. Len(peeked) = k - n
  BY <1>3, PartOfData
<1>5. PICK j \in 1..k - n :
        /\ replayed' = replayed \o SubSeq(peeked, 1, j)
        /\ peeked' = SubSeq(peeked, j + 1, k - n)
  BY <1>4 DEF Hello!Replay, Hello!Unread
<1>6. SubSeq(peeked, 1, j) = DataPart(n, n + j) /\ SubSeq(peeked, j + 1, k - n) = DataPart(n + j, k)
  BY <1>3, SplitPart
<1>7. n + j \in Nat /\ n <= n + j /\ n + j <= k /\ n + j <= Len(Data) /\ 0 <= n
  BY <1>3, DataAreBytes
<1>8. replayed' = DataPart(0, n + j) /\ peeked' = DataPart(n + j, k)
  BY <1>3, <1>5, <1>6, <1>7, Adjacent
<1>9. Split(n + j, k)'
  BY <1>1, <1>3, <1>7, <1>8 DEF Split
<1>10. n + j \in 0..Len(Data) /\ k \in 0..Len(Data)
  BY <1>3, <1>7, DataAreBytes
<1>11. Replaying'
  <2>1. ended' = FALSE
    BY <1>1 DEF IInv, Replaying
  <2>2. QED
    BY <1>1, <1>9, <1>10, <2>1 DEF Replaying
<1>12. Streaming' /\ Counters' /\ Reading'
  BY <1>1 DEF IInv, Streaming, Counters, Reading
<1>13. QED
  BY <1>11, <1>12 DEF IInv

\* The connection is read when the buffer is empty.
LEMMA PassOnKeeps == IInv /\ pc = "ok" /\ Hello!PassOn /\ UNCHANGED <<peer, pc, result>> => IInv'
<1> SUFFICES ASSUME IInv, pc = "ok", Hello!PassOn, UNCHANGED <<peer, pc, result>> PROVE IInv'
  OBVIOUS
<1>1. /\ UNCHANGED <<peer, stream, sent, closed, pc, result, peeked>>
      /\ ~ended /\ peeked = <<>>
  BY DEF Hello!PassOn, Hello!given
<1>2. Streaming' /\ Reading'
  BY <1>1 DEF IInv, Streaming, Reading
<1>3. CASE closed /\ taken = sent /\ ended' = TRUE /\ UNCHANGED <<replayed, taken>>
  <2>1. Counters'
    BY <1>1, <1>3 DEF IInv, Counters
  <2>2. Replaying'
    BY <1>1, <1>3 DEF IInv, Replaying, Split
  <2>3. QED
    BY <1>2, <2>1, <2>2 DEF IInv
<1>4. CASE /\ ended' = ended
           /\ \E j \in 1..sent - taken : /\ replayed' = replayed \o Hello!Bytes(taken, taken + j)
                                         /\ taken' = taken + j
  <2>1. PICK n, k : Split(n, k)
    BY DEF IInv, Replaying
  <2>2. PICK j \in 1..sent - taken :
          taken' = taken + j /\ replayed' = replayed \o Hello!Bytes(taken, taken + j)
    BY <1>4
  <2>3. /\ k + j \in Nat /\ k + j <= Len(Data)
        /\ taken' \in Nat /\ taken' <= sent
        /\ taken' = 16 + PayloadSize(peer) + (k + j)
        /\ replayed' = replayed \o DataPart(k, k + j)
    BY <2>1, <2>2, NextBytes
  <2>4. /\ n \in Nat /\ k \in Nat /\ n <= k /\ k <= Len(Data)
        /\ replayed = DataPart(0, n) /\ peeked = DataPart(n, k)
    BY <2>1 DEF Split
  <2>5. n = k
    <3>1. Len(peeked) = k - n
      BY <2>4, PartOfData
    <3>2. Len(peeked) = 0
      BY <1>1
    <3>3. QED
      BY <2>4, <3>1, <3>2
  <2>6. k <= k + j /\ 0 <= k
    BY <2>4, DataAreBytes
  <2>7. replayed' = DataPart(0, k + j)
    BY <2>3, <2>4, <2>5, <2>6, Adjacent
  <2>8. peeked' = DataPart(k + j, k + j)
    BY <1>1, <2>3, NoData
  <2>9. Split(k + j, k + j)'
    BY <1>1, <2>3, <2>7, <2>8 DEF Split
  <2>10. k + j \in 0..Len(Data)
    BY <2>3, DataAreBytes
  <2>11. Replaying'
    <3>1. ended' = FALSE
      BY <1>1, <1>4 DEF IInv, Replaying
    <3>2. QED
      BY <1>1, <2>9, <2>10, <3>1 DEF Replaying
  <2>12. Counters'
    BY <1>1, <2>3 DEF IInv, Counters
  <2>13. QED
    BY <1>2, <2>11, <2>12 DEF IInv
<1>5. QED
  BY <1>3, <1>4 DEF Hello!PassOn

\* The invariant holds in every reachable state.
THEOREM Invariance == WireSpec => []IInv
<1>1. WireInit => IInv
  BY InitHolds
<1>2. IInv /\ [WireNext]_allVars => IInv'
  <2> SUFFICES ASSUME IInv, [WireNext]_allVars PROVE IInv'
    OBVIOUS
  <2>1. CASE Network
    BY <2>1, NetworkKeeps
  <2>2. CASE ReadSome /\ UNCHANGED helloVars
    BY <2>2, ReadSomeKeeps
  <2>3. CASE ReadEnds /\ UNCHANGED helloVars
    BY <2>3, ReadEndsKeeps
  <2>4. CASE CheckPreamble /\ UNCHANGED helloVars
    BY <2>4, CheckPreambleKeeps
  <2>5. CASE Interpret /\ UNCHANGED helloVars
    BY <2>5, InterpretKeeps
  <2>6. CASE Peek
    BY <2>6, PeekKeeps
  <2>7. CASE UseReader
    BY <2>7, ReplayKeeps, PassOnKeeps DEF UseReader, Hello!UseReader
  <2>8. CASE UNCHANGED allVars
    BY <2>8 DEF IInv, Streaming, Counters, Reading, Replaying, Split, allVars, vars, helloVars
  <2>9. QED
    BY <2>1, <2>2, <2>3, <2>4, <2>5, <2>6, <2>7, <2>8 DEF WireNext, Handshake, ReadHeader
<1>3. QED
  BY <1>1, <1>2, PTL DEF WireSpec
-----------------------------------------------------------------------------
(* What it implies.                                                        *)

\* Whatever addresses a peer formats, and whatever TLVs follow them, the
\* connection that Accept returns has them, and that of a health check its
\* own (proxy/header.go:61-95, 160-196).
THEOREM AddressesSurvive == WireSpec => []RoundTrip
<1>1. IInv => RoundTrip
  BY DEF IInv, Reading, Matches, Truth, RoundTrip, proxyConn
<1>2. QED
  BY <1>1, Invariance, PTL

\* ReadHeader accepts exactly the headers that it understands, unless the
\* connection ends within one (proxy/header.go:61-95).
THEOREM VerdictIsRight == WireSpec => []Verdict
<1>1. IInv => Verdict
  <2> SUFFICES ASSUME IInv PROVE Verdict
    OBVIOUS
  <2>1. MessageSize = 16 + PayloadSize(peer)
    BY StreamFacts DEF IInv
  <2>2. pc = "ok" <=> result # NoHeader
    BY DEF IInv, Reading, Matches
  <2>3. pc = "ok" => Understood(peer)
    BY DEF IInv, Reading
  <2>4. pc = "error" => ~Understood(peer) \/ (closed /\ sent < MessageSize)
    BY <2>1 DEF IInv, Reading
  <2>5. QED
    BY <2>2, <2>3, <2>4 DEF Verdict, Understood
<1>2. QED
  BY <1>1, Invariance, PTL

\* The caller reads the client's data from their first byte on, whoever
\* peeked at them before (tlsutil/hello.go:48-55).
THEOREM DataSurvive == WireSpec => []Replayed
<1>1. IInv => Replayed
  <2> SUFFICES ASSUME IInv PROVE Replayed
    OBVIOUS
  <2>1. MessageSize = 16 + PayloadSize(peer) /\ PayloadSize(peer) \in Nat
    BY StreamFacts DEF IInv
  <2>2. CASE pc = "ok"
    <3>1. PICK n, k : Split(n, k)
      BY <2>2 DEF IInv, Replaying
    <3>2. /\ n \in Nat /\ k \in Nat /\ n <= k /\ k <= Len(Data)
          /\ taken = 16 + PayloadSize(peer) + k
          /\ replayed = DataPart(0, n) /\ peeked = DataPart(n, k)
      BY <3>1 DEF Split
    <3>3. Len(replayed) = n /\ Len(peeked) = k - n
      <4>1. 0 \in Nat /\ 0 <= n /\ n <= Len(Data) /\ n - 0 = n
        BY <3>2, DataAreBytes
      <4>2. Len(replayed) = n - 0
        BY <3>2, <4>1, PartOfData
      <4>3. Len(peeked) = k - n
        BY <3>2, PartOfData
      <4>4. QED
        BY <4>1, <4>2, <4>3
    <3>4. replayed = SubSeq(Data, 1, Len(replayed))
      BY <3>2, <3>3 DEF DataPart
    <3>5. ASSUME ended PROVE Len(replayed) = sent - MessageSize
      <4>1. taken = sent /\ peeked = <<>>
        BY <3>5 DEF IInv, Replaying
      <4>2. Len(peeked) = 0
        BY <4>1
      <4>3. n = k
        BY <3>2, <3>3, <4>2
      <4>4. QED
        BY <2>1, <3>2, <3>3, <4>1, <4>3
    <3>6. taken = MessageSize + Len(replayed) + Len(peeked)
      <4>1. taken = MessageSize + k
        BY <2>1, <3>2
      <4>2. MessageSize \in Nat
        BY <2>1
      <4>3. \A x \in Nat : x + k = x + n + (k - n)
        BY <3>2
      <4>4. QED
        BY <3>3, <4>1, <4>2, <4>3
    <3>7. QED
      BY <3>4, <3>5, <3>6 DEF Replayed
  <2>3. CASE pc # "ok"
    <3>1. replayed = <<>> /\ ~ended
      BY <2>3 DEF IInv, Replaying
    <3>2. SubSeq(Data, 1, 0) = <<>>
      BY SubSeqEmpty
    <3>3. Len(replayed) = 0
      BY <3>1
    <3>4. QED
      BY <2>3, <3>1, <3>2, <3>3 DEF Replayed
  <2>4. QED
    BY <2>2, <2>3
<1>2. QED
  BY <1>1, Invariance, PTL
===============================================================================
