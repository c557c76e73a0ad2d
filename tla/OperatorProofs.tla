--------------------------- MODULE OperatorProofs ---------------------------
(***************************************************************************)
(* Proofs about the operators of Wire, Payloads and Child.                 *)
(*                                                                         *)
(* The payloads of RFC 4254, of any length: the readers never run past the *)
(* end and read back what PutUint32 and the length prefixes write; every   *)
(* parser accepts a payload exactly when it begins with the encoding of    *)
(* all its fields, and gives those back (AllExact).  A parser is a chain   *)
(* of readers, so the argument is one lemma per reader in each direction:  *)
(* it reads an encoded field and leaves what follows (StringRead,          *)
(* NumberRead, SizeRead), and it succeeds only on bytes that begin with    *)
(* one (StringNeeded, NumberNeeded, SizeNeeded).  Join, And and Read keep  *)
(* concatenation, Append and the readers' records folded while the chains  *)
(* are put together.                                                       *)
(*                                                                         *)
(* The child's environment, for any requests and any host environment      *)
(* (EnvBuilt).  The two loops that make it have invariants that say which  *)
(* of the first i requests or lines count; the last one for a name wins.   *)
(***************************************************************************)
EXTENDS Payloads, Child, SequenceTheorems, WellFoundedInduction, TLAPS

\* binary.BigEndian: Uint32 reads what PutUint32 writes.
LEMMA Uint32RoundTrip ==
  ASSUME NEW n \in Uint32s
  PROVE  /\ PutUint32(n) \in Seq(Byte) /\ Len(PutUint32(n)) = 4
         /\ Uint32(PutUint32(n)) = n
<1> n \in Int /\ n >= 0 /\ n \div 16777216 < 256
  BY SMT DEF Uint32s
<1> DEFINE a == (n \div 16777216) % 256
           b == (n \div 65536) % 256
           c == (n \div 256) % 256
           d == n % 256
<1>1. a \in Byte /\ b \in Byte /\ c \in Byte /\ d \in Byte
  <2>1. \A q \in Int : q % 256 \in 0 .. 255
    BY SMT
  <2>2. n \div 16777216 \in Int /\ n \div 65536 \in Int /\ n \div 256 \in Int
    BY SMT
  <2> QED
    BY <2>1, <2>2, SMT DEF Byte
<1>2. 16777216 * a + 65536 * b + 256 * c + d = n
  <2> DEFINE q1 == n \div 256
             q2 == n \div 65536
             q3 == n \div 16777216
  <2>1. /\ q1 \in Int /\ 256 * q1 <= n /\ n < 256 * q1 + 256
        /\ q2 \in Int /\ 65536 * q2 <= n /\ n < 65536 * q2 + 65536
        /\ q3 \in Int /\ 16777216 * q3 <= n /\ n < 16777216 * q3 + 16777216
    BY SMT
  <2>2. n % 256 = n - 256 * q1
    BY SMT
  <2> HIDE DEF q1, q2, q3
  <2>3. q1 % 256 = q1 - 256 * q2 /\ q2 % 256 = q2 - 256 * q3 /\ q3 % 256 = q3
    BY <2>1, SMT
  <2> QED
    BY <2>1, <2>2, <2>3, SMT DEF q1, q2, q3
<1>3. PutUint32(n) = <<a, b, c, d>>
  BY SMT DEF PutUint32
<1> HIDE DEF a, b, c, d
<1>4. <<a, b, c, d>> \in Seq(Byte) /\ Len(<<a, b, c, d>>) = 4
  BY <1>1
<1>5. Uint32(<<a, b, c, d>>) = 16777216 * a + 65536 * b + 256 * c + d
  BY SMT DEF Uint32
<1> QED
  BY <1>2, <1>3, <1>4, <1>5, SMT

\* binary.BigEndian: every four bytes are a number.
LEMMA Uint32Nat ==
  ASSUME NEW b \in Seq(Byte), Len(b) >= 4
  PROVE  Uint32(b) \in Nat
<1>1. b[1] \in Byte /\ b[2] \in Byte /\ b[3] \in Byte /\ b[4] \in Byte
  BY ElementOfSeq
<1> DEFINE p == b[1]
           q == b[2]
           r == b[3]
           s == b[4]
<1>3. Uint32(b) = 16777216 * p + 65536 * q + 256 * r + s
  BY SMT DEF Uint32
<1>4. p \in Byte /\ q \in Byte /\ r \in Byte /\ s \in Byte
  BY <1>1
<1> HIDE DEF p, q, r, s
<1>5. 16777216 * p + 65536 * q + 256 * r + s \in Nat
  BY <1>4, SMT DEF Byte
<1> QED
  BY <1>3, <1>5, SMT

\* readSSHString reads inside the payload: what it accepts is the four bytes of
\* the length, as many bytes as they say, and the rest, with nothing added,
\* dropped or read twice, whatever the length prefix says.
THEOREM ReadsInside ==
  ASSUME NEW b \in Seq(Byte), readSSHString(b).ok
  PROVE  /\ readSSHString(b).value \in Seq(Byte)
         /\ readSSHString(b).rest \in Seq(Byte)
         /\ Len(readSSHString(b).value) = Uint32(b)
         /\ b = SubSeq(b, 1, 4) \o readSSHString(b).value \o readSSHString(b).rest
<1> DEFINE n == Uint32(b)
           v == SubSeq(b, 5, 4 + n)
           r == SubSeq(b, 4 + n + 1, Len(b))
<1>1. ~(Len(b) < 4 \/ Len(b) - 4 < n)
  BY DEF readSSHString, Malformed
<1>2. readSSHString(b) = [ok |-> TRUE, value |-> v, rest |-> r]
  BY <1>1 DEF readSSHString
<1>3. Len(b) \in Nat /\ Len(b) >= 4
  BY <1>1
<1>4. n \in Nat
  BY <1>3, Uint32Nat
<1>5. readSSHString(b).value = v /\ readSSHString(b).rest = r
  <2> HIDE DEF v, r
  <2> QED
    BY <1>2
<1> HIDE DEF n
<1>6. n <= Len(b) - 4
  BY <1>1, <1>3, <1>4
<1>7. v \in Seq(Byte) /\ Len(v) = n
  BY <1>3, <1>4, <1>6, SubSeqProperties
<1>8. r \in Seq(Byte) /\ Len(r) = Len(b) - 4 - n
  BY <1>3, <1>4, <1>6, SubSeqProperties
<1>9. b = SubSeq(b, 1, 4) \o v \o r
  <2>1. SubSeq(b, 1, 4) \o v = SubSeq(b, 1, 4 + n)
    BY <1>3, <1>4, <1>6, ConcatAdjacentSubSeq
  <2>2. SubSeq(b, 1, 4 + n) \o r = SubSeq(b, 1, Len(b))
    <3> DEFINE k == 4 + n
    <3>1. 1 \in 1 .. Len(b) + 1 /\ k \in 1 - 1 .. Len(b) /\ Len(b) \in k .. Len(b)
      BY <1>3, <1>4, <1>6
    <3> HIDE DEF k
    <3>2. SubSeq(b, 1, k) \o SubSeq(b, k + 1, Len(b)) = SubSeq(b, 1, Len(b))
      BY <3>1, ConcatAdjacentSubSeq, Zenon
    <3> QED
      BY <3>2 DEF k
  <2> QED
    BY <2>1, <2>2, SubSeqFull
<1> QED
  BY <1>5, <1>7, <1>8, <1>9 DEF n

\* A four-byte field in front of a payload.
LEMMA Prefixed ==
  ASSUME NEW p \in Seq(Byte), Len(p) = 4, NEW t \in Seq(Byte)
  PROVE  /\ p \o t \in Seq(Byte) /\ Len(p \o t) = 4 + Len(t)
         /\ Uint32(p \o t) = Uint32(p)
         /\ \A n \in 0 .. Len(t) : SubSeq(p \o t, 5, 4 + n) = SubSeq(t, 1, n)
         /\ \A n \in 0 .. Len(t) :
              SubSeq(p \o t, 4 + n + 1, Len(p \o t)) = SubSeq(t, n + 1, Len(t))
<1> DEFINE b == p \o t
<1>1. /\ b \in Seq(Byte) /\ Len(b) = 4 + Len(t)
      /\ \A i \in 1 .. 4 + Len(t) : b[i] = IF i <= 4 THEN p[i] ELSE t[i - 4]
  <2>1. /\ b \in Seq(Byte) /\ Len(b) = Len(p) + Len(t)
        /\ \A i \in 1 .. Len(p) + Len(t) :
              b[i] = IF i <= Len(p) THEN p[i] ELSE t[i - Len(p)]
    BY ConcatProperties, Zenon
  <2> HIDE DEF b
  <2> QED
    BY <2>1
<1> HIDE DEF b
<1>2. b[1] = p[1] /\ b[2] = p[2] /\ b[3] = p[3] /\ b[4] = p[4]
  BY <1>1
<1>3. Uint32(b) = Uint32(p)
  BY <1>2, SMT DEF Uint32
<1>4. ASSUME NEW n \in 0 .. Len(t) PROVE SubSeq(b, 5, 4 + n) = SubSeq(t, 1, n)
  BY <1>1
<1>5. ASSUME NEW n \in 0 .. Len(t)
      PROVE  SubSeq(b, 4 + n + 1, Len(b)) = SubSeq(t, n + 1, Len(t))
  BY <1>1
<1> QED
  BY <1>1, <1>3, <1>4, <1>5 DEF b

\* readSSHString gives back the string that appendSSHString wrote and leaves
\* exactly what follows it.
THEOREM StringRoundTrip ==
  ASSUME NEW s \in Seq(Byte), NEW after \in Seq(Byte), Len(s) \in Uint32s
  PROVE  readSSHString(appendSSHString(<<>>, s) \o after)
           = [ok |-> TRUE, value |-> s, rest |-> after]
<1> DEFINE p == PutUint32(Len(s))
           t == s \o after
           b == p \o t
<1>1. p \in Seq(Byte) /\ Len(p) = 4
  BY Uint32RoundTrip
<1>2. Uint32(p) = Len(s)
  BY Uint32RoundTrip
<1>3. appendSSHString(<<>>, s) \o after = b
  <2>1. <<>> \o p = p
    BY <1>1, ConcatEmptySeq, Zenon
  <2>2. (p \o s) \o after = b
    <3> HIDE DEF p
    <3>1. p \in Seq(Byte)
      BY <1>1
    <3> QED
      BY <3>1, ConcatAssociative
  <2> QED
    BY <2>1, <2>2, Zenon DEF appendSSHString
<1> HIDE DEF p
<1>4. /\ t \in Seq(Byte) /\ Len(t) = Len(s) + Len(after)
      /\ SubSeq(t, 1, Len(s)) = s /\ SubSeq(t, Len(s) + 1, Len(t)) = after
  OBVIOUS
<1>5. Len(s) \in 0 .. Len(t)
  BY <1>4
<1> HIDE DEF t
<1>6. /\ Len(b) = 4 + Len(t) /\ Uint32(b) = Len(s)
      /\ SubSeq(b, 5, 4 + Len(s)) = s
      /\ SubSeq(b, 4 + Len(s) + 1, Len(b)) = after
  BY <1>1, <1>2, <1>4, <1>5, Prefixed
<1> HIDE DEF b
<1>7. ~(Len(b) < 4) /\ ~(Len(b) - 4 < Uint32(b))
  BY <1>4, <1>5, <1>6
<1> QED
  BY <1>3, <1>6, <1>7 DEF readSSHString

\* readUint32 gives back the number that PutUint32 wrote and leaves exactly what
\* follows it.
THEOREM NumberRoundTrip ==
  ASSUME NEW n \in Uint32s, NEW after \in Seq(Byte)
  PROVE  readUint32(PutUint32(n) \o after) = [ok |-> TRUE, value |-> n, rest |-> after]
<1> DEFINE p == PutUint32(n)
           b == p \o after
<1>1. p \in Seq(Byte) /\ Len(p) = 4
  BY Uint32RoundTrip
<1>2. Uint32(p) = n
  BY Uint32RoundTrip
<1>3. PutUint32(n) \o after = b
  OBVIOUS
<1> HIDE DEF p
<1>4. SubSeq(after, 1, Len(after)) = after /\ 0 \in 0 .. Len(after)
  BY SubSeqFull
<1>5. Len(b) = 4 + Len(after) /\ Uint32(b) = n /\ SubSeq(b, 5, Len(b)) = after
  BY <1>1, <1>2, <1>4, Prefixed
<1> HIDE DEF b
<1>6. ~(Len(b) < 4)
  BY <1>5
<1> QED
  BY <1>3, <1>5, <1>6 DEF readUint32

-----------------------------------------------------------------------------
(***************************************************************************)
(* Fields.  A reader accepts what is left of a payload exactly when it     *)
(* begins with an encoded field.                                           *)
(***************************************************************************)
SSHStrings == {s \in Seq(Byte) : Len(s) \in Uint32s}

\* binary.BigEndian: PutUint32 writes the four bytes that Uint32 has read.
LEMMA PutUint32RoundTrip ==
  ASSUME NEW b \in Seq(Byte), Len(b) = 4
  PROVE  Uint32(b) \in Uint32s /\ PutUint32(Uint32(b)) = b
<1>0. b[1] \in Byte /\ b[2] \in Byte /\ b[3] \in Byte /\ b[4] \in Byte
  <2>1. 1 \in 1 .. Len(b) /\ 2 \in 1 .. Len(b) /\ 3 \in 1 .. Len(b) /\ 4 \in 1 .. Len(b)
    OBVIOUS
  <2> QED
    BY <2>1, ElementOfSeq, Zenon
<1> DEFINE p == b[1]
           q == b[2]
           r == b[3]
           s == b[4]
           n == 16777216 * p + 65536 * q + 256 * r + s
<1>1. p \in Byte /\ q \in Byte /\ r \in Byte /\ s \in Byte
  BY <1>0
<1>2. b = <<p, q, r, s>>
  OBVIOUS
<1>3. Uint32(b) = n
  BY SMT DEF Uint32
<1> HIDE DEF p, q, r, s
<1>4. n \in Nat
  BY <1>1, SMT DEF Byte
<1>5. n \div 16777216 = p /\ n \div 65536 = 256 * p + q /\ n \div 256 = 65536 * p + 256 * q + r
  BY <1>1, SMT DEF Byte
<1>6. n % 256 = s
  BY <1>1, SMT DEF Byte
<1>7. p % 256 = p /\ (256 * p + q) % 256 = q /\ (65536 * p + 256 * q + r) % 256 = r
  BY <1>1, SMT DEF Byte
<1>8. n \in Uint32s
  BY <1>1, <1>4, <1>5, SMT DEF Byte, Uint32s
<1> HIDE DEF n
<1>9. PutUint32(n) = <<p, q, r, s>>
  BY <1>5, <1>6, <1>7 DEF PutUint32
<1> QED
  BY <1>2, <1>3, <1>8, <1>9

\* An encoded string is what appendSSHString appends.
LEMMA StringBytes ==
  ASSUME NEW s \in SSHStrings
  PROVE  /\ String(s) \in Seq(Byte) /\ Len(String(s)) = 4 + Len(s)
         /\ appendSSHString(<<>>, s) = String(s)
<1> DEFINE p == PutUint32(Len(s))
<1>1. p \in Seq(Byte) /\ Len(p) = 4 /\ s \in Seq(Byte)
  BY Uint32RoundTrip DEF SSHStrings
<1>2. String(s) = p \o s /\ appendSSHString(<<>>, s) = <<>> \o p \o s
  BY Zenon DEF String, appendSSHString
<1> HIDE DEF p
<1>3. <<>> \o p = p
  BY <1>1, ConcatEmptySeq, Zenon
<1>4. p \o s \in Seq(Byte) /\ Len(p \o s) = 4 + Len(s)
  BY <1>1, Prefixed
<1> QED
  BY <1>2, <1>3, <1>4, Zenon

\* readSSHString accepts exactly what begins with an encoded string.
LEMMA StringField ==
  ASSUME NEW b \in Seq(Byte)
  PROVE  /\ \A s \in SSHStrings, after \in Seq(Byte) :
              b = String(s) \o after
                => readSSHString(b) = [ok |-> TRUE, value |-> s, rest |-> after]
         /\ readSSHString(b).ok
              => \E s \in SSHStrings, after \in Seq(Byte) : b = String(s) \o after
<1>1. ASSUME NEW s \in SSHStrings, NEW after \in Seq(Byte), b = String(s) \o after
      PROVE  readSSHString(b) = [ok |-> TRUE, value |-> s, rest |-> after]
  <2>1. s \in Seq(Byte) /\ Len(s) \in Uint32s
    BY DEF SSHStrings
  <2> QED
    BY <1>1, <2>1, StringBytes, StringRoundTrip
<1>2. ASSUME readSSHString(b).ok
      PROVE  \E s \in SSHStrings, after \in Seq(Byte) : b = String(s) \o after
  <2> DEFINE h == SubSeq(b, 1, 4)
             v == readSSHString(b).value
             t == readSSHString(b).rest
  <2>1. v \in Seq(Byte) /\ t \in Seq(Byte) /\ Len(v) = Uint32(b) /\ b = h \o v \o t
    BY <1>2, ReadsInside
  <2>2. Len(b) \in Nat /\ ~(Len(b) < 4)
    BY <1>2 DEF readSSHString, Malformed
  <2> HIDE DEF v, t
  <2>3. h \in Seq(Byte) /\ Len(h) = 4 /\ h[1] = b[1] /\ h[2] = b[2] /\ h[3] = b[3] /\ h[4] = b[4]
    BY <2>2
  <2> HIDE DEF h
  <2>4. Uint32(h) = Uint32(b)
    BY <2>3, SMT DEF Uint32
  <2>5. Uint32(b) \in Uint32s /\ PutUint32(Len(v)) = h
    BY <2>1, <2>3, <2>4, PutUint32RoundTrip
  <2>6. v \in SSHStrings /\ String(v) = h \o v
    BY <2>1, <2>5 DEF SSHStrings, String
  <2> QED
    BY <2>1, <2>6
<1> QED
  BY <1>1, <1>2

\* readUint32 accepts exactly what begins with an encoded number.
LEMMA NumberField ==
  ASSUME NEW b \in Seq(Byte)
  PROVE  /\ \A n \in Uint32s, after \in Seq(Byte) :
              b = PutUint32(n) \o after
                => readUint32(b) = [ok |-> TRUE, value |-> n, rest |-> after]
         /\ readUint32(b).ok
              => \E n \in Uint32s, after \in Seq(Byte) : b = PutUint32(n) \o after
<1>1. ASSUME NEW n \in Uint32s, NEW after \in Seq(Byte), b = PutUint32(n) \o after
      PROVE  readUint32(b) = [ok |-> TRUE, value |-> n, rest |-> after]
  BY <1>1, NumberRoundTrip
<1>2. ASSUME readUint32(b).ok
      PROVE  \E n \in Uint32s, after \in Seq(Byte) : b = PutUint32(n) \o after
  <2> DEFINE h == SubSeq(b, 1, 4)
             t == SubSeq(b, 5, Len(b))
  <2>1. Len(b) \in Nat /\ ~(Len(b) < 4)
    BY <1>2 DEF readUint32, Malformed
  <2>2. h \in Seq(Byte) /\ Len(h) = 4 /\ t \in Seq(Byte)
    BY <2>1
  <2>3. b = h \o t
    BY <2>1
  <2> HIDE DEF h, t
  <2>4. Uint32(h) \in Uint32s /\ PutUint32(Uint32(h)) = h
    BY <2>2, PutUint32RoundTrip
  <2> QED
    BY <2>2, <2>3, <2>4
<1> QED
  BY <1>1, <1>2

\* What a parser has read so far, if it has not failed.  Byte strings, their
\* concatenation and the list of values are named, so that the parsers can be
\* reasoned about by equations alone.
Bytes == Seq(Byte)
Join(x, y) == x \o y
And(vs, v) == Append(vs, v)
Read(values, rest) == [ok |-> TRUE, values |-> values, rest |-> rest]

\* Concatenation of byte strings is associative.
LEMMA Regroup ==
  \A x, y, z \in Bytes : Join(x, y) \in Bytes /\ Join(Join(x, y), z) = Join(x, Join(y, z))
<1> SUFFICES ASSUME NEW x \in Seq(Byte), NEW y \in Seq(Byte), NEW z \in Seq(Byte)
             PROVE  x \o y \in Seq(Byte) /\ (x \o y) \o z = x \o (y \o z)
  BY Zenon DEF Bytes, Join
<1> QED
  BY ConcatProperties, ConcatAssociative

\* An encoded field is a byte string.
LEMMA FieldBytes ==
  /\ \A n \in Uint32s : PutUint32(n) \in Bytes
  /\ \A s \in SSHStrings : String(s) \in Bytes
BY Uint32RoundTrip, StringBytes, Zenon DEF Bytes

\* A parser that meets an encoded string reads it.
LEMMA StringRead ==
  \A vs : \A s \in SSHStrings, after \in Bytes :
    TakeString(Read(vs, Join(String(s), after))) = Read(And(vs, s), after)
<1> SUFFICES ASSUME NEW vs, NEW s \in SSHStrings, NEW after \in Seq(Byte)
             PROVE  TakeString(Read(vs, Join(String(s), after))) = Read(And(vs, s), after)
  BY Zenon DEF Bytes
<1> DEFINE b == Join(String(s), after)
           f == readSSHString(b)
<1>1. b \in Seq(Byte)
  BY Regroup, FieldBytes, Zenon DEF Bytes
<1>2. b = String(s) \o after
  BY Zenon DEF Join
<1> HIDE DEF b
<1>3. TakeString(Read(vs, b)) = [ok |-> f.ok, values |-> And(vs, f.value), rest |-> f.rest]
  BY DEF TakeString, Read, Taken, And
<1>4. f = [ok |-> TRUE, value |-> s, rest |-> after]
  BY <1>1, <1>2, StringField, Zenon
<1> HIDE DEF f
<1>5. f.ok = TRUE /\ f.value = s /\ f.rest = after
  BY <1>4
<1> QED
  BY <1>3, <1>5, Zenon DEF Read, b

\* A parser that meets anything else fails.
LEMMA StringNeeded ==
  \A vs : \A b \in Bytes :
    TakeString(Read(vs, b)).ok
      => \E s \in SSHStrings, after \in Bytes : b = Join(String(s), after)
<1> SUFFICES ASSUME NEW vs, NEW b \in Seq(Byte)
             PROVE  TakeString(Read(vs, b)).ok
                      => \E s \in SSHStrings, after \in Seq(Byte) : b = String(s) \o after
  BY Zenon DEF Bytes, Join
<1> DEFINE f == readSSHString(b)
<1>1. TakeString(Read(vs, b)) = [ok |-> f.ok, values |-> And(vs, f.value), rest |-> f.rest]
  BY DEF TakeString, Read, Taken, And
<1>2. TakeString(Read(vs, b)).ok = f.ok
  <2> HIDE DEF f
  <2> QED BY <1>1
<1> QED
  BY <1>2, StringField, Zenon

\* A parser that meets an encoded number reads it.
LEMMA NumberRead ==
  \A vs : \A n \in Uint32s, after \in Bytes :
    TakeUint32(Read(vs, Join(PutUint32(n), after))) = Read(And(vs, n), after)
<1> SUFFICES ASSUME NEW vs, NEW n \in Uint32s, NEW after \in Seq(Byte)
             PROVE  TakeUint32(Read(vs, Join(PutUint32(n), after))) = Read(And(vs, n), after)
  BY Zenon DEF Bytes
<1> DEFINE b == Join(PutUint32(n), after)
           f == readUint32(b)
<1>1. b \in Seq(Byte)
  BY Regroup, FieldBytes, Zenon DEF Bytes
<1>2. b = PutUint32(n) \o after
  BY Zenon DEF Join
<1> HIDE DEF b
<1>3. TakeUint32(Read(vs, b)) = [ok |-> f.ok, values |-> And(vs, f.value), rest |-> f.rest]
  BY DEF TakeUint32, Read, Taken, And
<1>4. f = [ok |-> TRUE, value |-> n, rest |-> after]
  BY <1>1, <1>2, NumberField, Zenon
<1> HIDE DEF f
<1>5. f.ok = TRUE /\ f.value = n /\ f.rest = after
  BY <1>4
<1> QED
  BY <1>3, <1>5, Zenon DEF Read, b

\* A parser that meets fewer than four bytes fails.
LEMMA NumberNeeded ==
  \A vs : \A b \in Bytes :
    TakeUint32(Read(vs, b)).ok
      => \E n \in Uint32s, after \in Bytes : b = Join(PutUint32(n), after)
<1> SUFFICES ASSUME NEW vs, NEW b \in Seq(Byte)
             PROVE  TakeUint32(Read(vs, b)).ok
                      => \E n \in Uint32s, after \in Seq(Byte) : b = PutUint32(n) \o after
  BY Zenon DEF Bytes, Join
<1> DEFINE f == readUint32(b)
<1>1. TakeUint32(Read(vs, b)) = [ok |-> f.ok, values |-> And(vs, f.value), rest |-> f.rest]
  BY DEF TakeUint32, Read, Taken, And
<1>2. TakeUint32(Read(vs, b)).ok = f.ok
  <2> HIDE DEF f
  <2> QED BY <1>1
<1> QED
  BY <1>2, NumberField, Zenon

\* A field that is not there ends the parse.
LEMMA Stops ==
  \A r : ~r.ok => TakeString(r) = r /\ TakeUint32(r) = r /\ TakeSize(r) = r
BY DEF TakeString, TakeUint32, TakeSize

\* The four numbers of a window size, one after the other.
LEMMA SizeBytes ==
  \A a, b, c, d \in Uint32s :
    /\ Size(a, b, c, d) \in Bytes
    /\ \A after \in Bytes :
         Join(Size(a, b, c, d), after)
           = Join(PutUint32(a), Join(PutUint32(b), Join(PutUint32(c), Join(PutUint32(d), after))))
<1> SUFFICES ASSUME NEW a \in Uint32s, NEW b \in Uint32s, NEW c \in Uint32s, NEW d \in Uint32s
             PROVE  /\ Size(a, b, c, d) \in Bytes
                    /\ \A after \in Bytes :
                         Join(Size(a, b, c, d), after)
                           = Join(PutUint32(a), Join(PutUint32(b),
                               Join(PutUint32(c), Join(PutUint32(d), after))))
  OBVIOUS
<1>1. Size(a, b, c, d)
        = Join(Join(Join(PutUint32(a), PutUint32(b)), PutUint32(c)), PutUint32(d))
  BY Zenon DEF Size, Join
<1>2. /\ PutUint32(a) \in Bytes /\ PutUint32(b) \in Bytes
      /\ PutUint32(c) \in Bytes /\ PutUint32(d) \in Bytes
  BY FieldBytes
<1> DEFINE x == Join(PutUint32(a), PutUint32(b))
           y == Join(x, PutUint32(c))
<1>3. x \in Bytes /\ y \in Bytes /\ Join(y, PutUint32(d)) \in Bytes
  BY <1>2, Regroup
<1>4. ASSUME NEW after \in Bytes
      PROVE  Join(Join(y, PutUint32(d)), after)
               = Join(PutUint32(a), Join(PutUint32(b),
                   Join(PutUint32(c), Join(PutUint32(d), after))))
  <2> DEFINE u == Join(PutUint32(d), after)
             v == Join(PutUint32(c), u)
  <2>1. u \in Bytes /\ v \in Bytes
    BY <1>2, Regroup
  <2>2. Join(Join(y, PutUint32(d)), after) = Join(y, u)
    BY <1>2, <1>3, Regroup
  <2>3. Join(y, u) = Join(x, v)
    BY <1>2, <1>3, <2>1, Regroup
  <2>4. Join(x, v) = Join(PutUint32(a), Join(PutUint32(b), v))
    BY <1>2, <2>1, Regroup
  <2> QED
    BY <2>2, <2>3, <2>4
<1> QED
  BY <1>1, <1>3, <1>4

\* A parser that meets an encoded window size reads its four numbers.
LEMMA SizeRead ==
  \A vs : \A a, b, c, d \in Uint32s, after \in Bytes :
    TakeSize(Read(vs, Join(Size(a, b, c, d), after)))
      = Read(And(And(And(And(vs, a), b), c), d), after)
<1> SUFFICES ASSUME NEW vs, NEW a \in Uint32s, NEW b \in Uint32s, NEW c \in Uint32s,
                    NEW d \in Uint32s, NEW after \in Bytes
             PROVE  TakeSize(Read(vs, Join(Size(a, b, c, d), after)))
                      = Read(And(And(And(And(vs, a), b), c), d), after)
  OBVIOUS
<1> DEFINE C == Join(PutUint32(d), after)
           B == Join(PutUint32(c), C)
           A == Join(PutUint32(b), B)
<1>1. A \in Bytes /\ B \in Bytes /\ C \in Bytes
  BY Regroup, FieldBytes
<1>2. Join(Size(a, b, c, d), after) = Join(PutUint32(a), A)
  BY SizeBytes
<1> QED
  BY <1>1, <1>2, NumberRead DEF TakeSize

\* A parser that meets anything else fails.
LEMMA SizeNeeded ==
  \A vs : \A t \in Bytes :
    TakeSize(Read(vs, t)).ok
      => \E a, b, c, d \in Uint32s, after \in Bytes : t = Join(Size(a, b, c, d), after)
<1> SUFFICES ASSUME NEW vs, NEW t \in Bytes, TakeSize(Read(vs, t)).ok
             PROVE  \E a, b, c, d \in Uint32s, after \in Bytes : t = Join(Size(a, b, c, d), after)
  OBVIOUS
<1> DEFINE r1 == TakeUint32(Read(vs, t))
           r2 == TakeUint32(r1)
           r3 == TakeUint32(r2)
           r4 == TakeUint32(r3)
<1>1. r1.ok /\ r2.ok /\ r3.ok /\ r4.ok
  <2>1. r4.ok
    BY DEF TakeSize
  <2> QED
    BY <2>1, Stops
<1>2. PICK a \in Uint32s, A \in Bytes : t = Join(PutUint32(a), A)
  BY <1>1, NumberNeeded
<1>3. r1 = Read(And(vs, a), A)
  BY <1>2, NumberRead
<1>4. PICK b \in Uint32s, B \in Bytes : A = Join(PutUint32(b), B)
  BY <1>1, <1>3, NumberNeeded
<1>5. r2 = Read(And(And(vs, a), b), B)
  BY <1>3, <1>4, NumberRead
<1>6. PICK c \in Uint32s, C \in Bytes : B = Join(PutUint32(c), C)
  BY <1>1, <1>5, NumberNeeded
<1>7. r3 = Read(And(And(And(vs, a), b), c), C)
  BY <1>5, <1>6, NumberRead
<1>8. PICK d \in Uint32s, after \in Bytes : C = Join(PutUint32(d), after)
  BY <1>1, <1>7, NumberNeeded
<1>9. t = Join(Size(a, b, c, d), after)
  BY <1>2, <1>4, <1>6, <1>8, SizeBytes
<1> QED
  BY <1>9

-----------------------------------------------------------------------------
(***************************************************************************)
(* Parsers.  Each accepts exactly what begins with all its fields.         *)
(***************************************************************************)
ReqTypes == {"pty-req", "window-change", "env", "exec", "subsystem", "direct-tcpip"}

\* The values that the fields of a payload can have.
HasFields(req, v) ==
  CASE req = "pty-req" ->
         \E s, t \in SSHStrings, a, b, c, d \in Uint32s : v = <<s, a, b, c, d, t>>
    [] req = "window-change" -> \E a, b, c, d \in Uint32s : v = <<a, b, c, d>>
    [] req = "env" -> \E s, t \in SSHStrings : v = <<s, t>>
    [] req = "direct-tcpip" ->
         \E s, t \in SSHStrings, m, n \in Uint32s : v = <<s, m, t, n>>
    [] req \in {"exec", "subsystem"} -> \E s \in SSHStrings : v = <<s>>

\* parseDirectTCPIP up to its two last checks.
DirectTCPIPFields(data) == TakeUint32(TakeString(TakeUint32(TakeString(Start(data)))))

FieldsRead(req, payload) ==
  IF req = "direct-tcpip" THEN DirectTCPIPFields(payload) ELSE Parsed(req, payload)

\* The fields of a request are read exactly when they are all there.
Exact(req) ==
  /\ \A v : HasFields(req, v) =>
       /\ Marshal(req, v) \in Bytes
       /\ \A after \in Bytes :
            FieldsRead(req, Join(Marshal(req, v), after)) = Read(v, after)
  /\ \A payload \in Bytes :
       FieldsRead(req, payload).ok =>
         \E v : HasFields(req, v) /\ \E after \in Bytes : payload = Join(Marshal(req, v), after)

\* The list of values that a parser builds.
LEMMA ValueList ==
  /\ \A a : And(<<>>, a) = <<a>>
  /\ \A a, b : And(And(<<>>, a), b) = <<a, b>>
  /\ \A a, b, c, d : And(And(And(And(<<>>, a), b), c), d) = <<a, b, c, d>>
  /\ \A a, b, c, d, e, f :
       And(And(And(And(And(And(<<>>, a), b), c), d), e), f) = <<a, b, c, d, e, f>>
<1>1. ASSUME NEW a
      PROVE  And(<<>>, a) = <<a>>
  BY DEF And
<1>2. ASSUME NEW a, NEW b
      PROVE  And(<<a>>, b) = <<a, b>>
  <2> DEFINE l == Append(<<a>>, b)
  <2>1. l \in Seq({a, b}) /\ Len(l) = 2
    OBVIOUS
  <2>2. l[1] = a /\ l[2] = b
    OBVIOUS
  <2> HIDE DEF l
  <2>3. l = <<a, b>>
    BY <2>1, <2>2
  <2> QED
    BY <2>3 DEF l, And
<1>3. ASSUME NEW a, NEW b, NEW c
      PROVE  And(<<a, b>>, c) = <<a, b, c>>
  <2> DEFINE l == Append(<<a, b>>, c)
  <2>1. l \in Seq({a, b, c}) /\ Len(l) = 3
    OBVIOUS
  <2>2. l[1] = a /\ l[2] = b /\ l[3] = c
    OBVIOUS
  <2> HIDE DEF l
  <2>3. l = <<a, b, c>>
    BY <2>1, <2>2
  <2> QED
    BY <2>3 DEF l, And
<1>4. ASSUME NEW a, NEW b, NEW c, NEW d
      PROVE  And(<<a, b, c>>, d) = <<a, b, c, d>>
  <2> DEFINE l == Append(<<a, b, c>>, d)
  <2>1. l \in Seq({a, b, c, d}) /\ Len(l) = 4
    OBVIOUS
  <2>2. l[1] = a /\ l[2] = b /\ l[3] = c /\ l[4] = d
    OBVIOUS
  <2> HIDE DEF l
  <2>3. l = <<a, b, c, d>>
    BY <2>1, <2>2
  <2> QED
    BY <2>3 DEF l, And
<1>5. ASSUME NEW a, NEW b, NEW c, NEW d, NEW e
      PROVE  And(<<a, b, c, d>>, e) = <<a, b, c, d, e>>
  <2> DEFINE l == Append(<<a, b, c, d>>, e)
  <2>1. l \in Seq({a, b, c, d, e}) /\ Len(l) = 5
    OBVIOUS
  <2>2. l[1] = a /\ l[2] = b /\ l[3] = c /\ l[4] = d /\ l[5] = e
    OBVIOUS
  <2> HIDE DEF l
  <2>3. l = <<a, b, c, d, e>>
    BY <2>1, <2>2
  <2> QED
    BY <2>3 DEF l, And
<1>6. ASSUME NEW a, NEW b, NEW c, NEW d, NEW e, NEW f
      PROVE  And(<<a, b, c, d, e>>, f) = <<a, b, c, d, e, f>>
  <2> DEFINE l == Append(<<a, b, c, d, e>>, f)
  <2>1. l \in Seq({a, b, c, d, e, f}) /\ Len(l) = 6
    OBVIOUS
  <2>2. l[1] = a /\ l[2] = b /\ l[3] = c /\ l[4] = d /\ l[5] = e /\ l[6] = f
    OBVIOUS
  <2> HIDE DEF l
  <2>3. l = <<a, b, c, d, e, f>>
    BY <2>1, <2>2
  <2> QED
    BY <2>3 DEF l, And
<1>7. ASSUME NEW a, NEW b
      PROVE  And(And(<<>>, a), b) = <<a, b>>
  <2>1. And(<<>>, a) = <<a>>
    BY <1>1
  <2>2. And(<<a>>, b) = <<a, b>>
    BY <1>2
  <2> QED
    BY <2>1, <2>2, Zenon
<1>8. ASSUME NEW a, NEW b, NEW c, NEW d
      PROVE  And(And(And(And(<<>>, a), b), c), d) = <<a, b, c, d>>
  <2>1. And(<<>>, a) = <<a>>
    BY <1>1
  <2>2. And(<<a>>, b) = <<a, b>>
    BY <1>2
  <2>3. And(<<a, b>>, c) = <<a, b, c>>
    BY <1>3
  <2>4. And(<<a, b, c>>, d) = <<a, b, c, d>>
    BY <1>4
  <2> QED
    BY <2>1, <2>2, <2>3, <2>4, Zenon
<1>9. ASSUME NEW a, NEW b, NEW c, NEW d, NEW e, NEW f
      PROVE  And(And(And(And(And(And(<<>>, a), b), c), d), e), f) = <<a, b, c, d, e, f>>
  <2>1. And(<<>>, a) = <<a>>
    BY <1>1
  <2>2. And(<<a>>, b) = <<a, b>>
    BY <1>2
  <2>3. And(<<a, b>>, c) = <<a, b, c>>
    BY <1>3
  <2>4. And(<<a, b, c>>, d) = <<a, b, c, d>>
    BY <1>4
  <2>5. And(<<a, b, c, d>>, e) = <<a, b, c, d, e>>
    BY <1>5
  <2>6. And(<<a, b, c, d, e>>, f) = <<a, b, c, d, e, f>>
    BY <1>6
  <2> QED
    BY <2>1, <2>2, <2>3, <2>4, <2>5, <2>6, Zenon
<1> QED
  <2>1. \A a, b, c, d : And(And(And(And(<<>>, a), b), c), d) = <<a, b, c, d>>
    BY <1>8, Zenon
  <2>2. \A a, b, c, d, e, f :
          And(And(And(And(And(And(<<>>, a), b), c), d), e), f) = <<a, b, c, d, e, f>>
    BY <1>9, Zenon
  <2> QED
    BY <1>1, <1>7, <2>1, <2>2, Zenon

\* parsePtyReq: the terminal name, the size and the modes.
LEMMA PtyReqExact == Exact("pty-req")
<1>0. ASSUME NEW v
      PROVE  HasFields("pty-req", v)
               <=> \E s, t \in SSHStrings, a, b, c, d \in Uint32s : v = <<s, a, b, c, d, t>>
  BY DEF HasFields
<1>1. \A p : FieldsRead("pty-req", p) = TakeString(TakeSize(TakeString(Start(p))))
  BY DEF FieldsRead, Parsed, parsePtyReq
<1>2. ASSUME NEW s \in SSHStrings, NEW a \in Uint32s, NEW b \in Uint32s,
             NEW c \in Uint32s, NEW d \in Uint32s, NEW t \in SSHStrings
      PROVE  /\ Marshal("pty-req", <<s, a, b, c, d, t>>) \in Bytes
             /\ \A after \in Bytes :
                  Join(Marshal("pty-req", <<s, a, b, c, d, t>>), after)
                    = Join(String(s), Join(Size(a, b, c, d), Join(String(t), after)))
  <2>1. String(s) \in Bytes /\ Size(a, b, c, d) \in Bytes /\ String(t) \in Bytes
    BY FieldBytes, SizeBytes
  <2> DEFINE x1 == String(s)
             x2 == Join(x1, Size(a, b, c, d))
             x3 == Join(x2, String(t))
  <2>2. Marshal("pty-req", <<s, a, b, c, d, t>>) = x3
    BY DEF Marshal, Join
  <2>3. x1 \in Bytes /\ x2 \in Bytes /\ x3 \in Bytes
    BY <2>1, Regroup
  <2>4. ASSUME NEW after \in Bytes
        PROVE  Join(x3, after) = Join(String(s), Join(Size(a, b, c, d), Join(String(t), after)))
    <3> DEFINE y3 == after
               y2 == Join(String(t), y3)
               y1 == Join(Size(a, b, c, d), y2)
    <3>1. y1 \in Bytes /\ y2 \in Bytes
      BY <2>1, Regroup
    <3>2. Join(x3, y3) = Join(x2, y2)
      BY <2>1, <2>3, <3>1, Regroup
    <3>3. Join(x2, y2) = Join(x1, y1)
      BY <2>1, <2>3, <3>1, Regroup
    <3> QED
      BY <3>2, <3>3
  <2> QED
    BY <2>2, <2>3, <2>4
<1>3. ASSUME NEW s \in SSHStrings, NEW a \in Uint32s, NEW b \in Uint32s,
             NEW c \in Uint32s, NEW d \in Uint32s, NEW t \in SSHStrings,
             NEW after \in Bytes
      PROVE  FieldsRead("pty-req", Join(Marshal("pty-req", <<s, a, b, c, d, t>>), after))
               = Read(<<s, a, b, c, d, t>>, after)
  <2> DEFINE y3 == after
             y2 == Join(String(t), y3)
             y1 == Join(Size(a, b, c, d), y2)
             y0 == Join(String(s), y1)
             v1 == And(<<>>, s)
             v2 == And(And(And(And(v1, a), b), c), d)
             v3 == And(v2, t)
  <2>1. y0 \in Bytes /\ y1 \in Bytes /\ y2 \in Bytes /\ y3 \in Bytes
    BY FieldBytes, SizeBytes, Regroup
  <2>2. Join(Marshal("pty-req", <<s, a, b, c, d, t>>), after) = y0
    BY <1>2
  <2>3. Start(y0) = Read(<<>>, y0)
    BY DEF Start, Read
  <2>4. TakeString(Read(<<>>, y0)) = Read(v1, y1)
    BY <2>1, StringRead
  <2>5. TakeSize(Read(v1, y1)) = Read(v2, y2)
    BY <2>1, SizeRead
  <2>6. TakeString(Read(v2, y2)) = Read(v3, y3)
    BY <2>1, StringRead
  <2>7. v3 = <<s, a, b, c, d, t>>
    BY ValueList
  <2> HIDE DEF y0, y1, y2, v1, v2, v3
  <2> QED
    BY <1>1, <2>2, <2>3, <2>4, <2>5, <2>6, <2>7
<1>4. ASSUME NEW p \in Bytes, FieldsRead("pty-req", p).ok
      PROVE  \E v : /\ HasFields("pty-req", v)
                    /\ \E after \in Bytes : p = Join(Marshal("pty-req", v), after)
  <2> DEFINE r0 == Read(<<>>, p)
             r1 == TakeString(r0)
             r2 == TakeSize(r1)
             r3 == TakeString(r2)
  <2>1. Start(p) = r0
    BY DEF Start, Read
  <2>2. r1.ok /\ r2.ok /\ r3.ok
    BY <1>1, <1>4, <2>1, Stops
  <2>3. PICK s \in SSHStrings, p1 \in Bytes : p = Join(String(s), p1)
    BY <2>2, StringNeeded
  <2>4. r1 = Read(And(<<>>, s), p1)
    BY <2>3, StringRead
  <2>5. PICK a \in Uint32s, b \in Uint32s, c \in Uint32s, d \in Uint32s, p2 \in Bytes :
          p1 = Join(Size(a, b, c, d), p2)
    BY <2>2, <2>4, SizeNeeded
  <2>6. r2 = Read(And(And(And(And(And(<<>>, s), a), b), c), d), p2)
    BY <2>4, <2>5, SizeRead
  <2>7. PICK t \in SSHStrings, after \in Bytes : p2 = Join(String(t), after)
    BY <2>2, <2>6, StringNeeded
  <2>8. p = Join(Marshal("pty-req", <<s, a, b, c, d, t>>), after)
    BY <1>2, <2>3, <2>5, <2>7
  <2>9. HasFields("pty-req", <<s, a, b, c, d, t>>)
    BY <1>0, Zenon
  <2> QED
    BY <2>8, <2>9, Zenon
<1>5. ASSUME NEW v, HasFields("pty-req", v)
      PROVE  /\ Marshal("pty-req", v) \in Bytes
             /\ \A after \in Bytes :
                  FieldsRead("pty-req", Join(Marshal("pty-req", v), after)) = Read(v, after)
  <2>1. PICK s, t \in SSHStrings, a, b, c, d \in Uint32s :
          v = <<s, a, b, c, d, t>>
    BY <1>0, <1>5
  <2>2. Marshal("pty-req", <<s, a, b, c, d, t>>) \in Bytes
    BY <1>2
  <2>3. \A after \in Bytes :
          FieldsRead("pty-req", Join(Marshal("pty-req", <<s, a, b, c, d, t>>), after))
            = Read(<<s, a, b, c, d, t>>, after)
    BY <1>3
  <2> QED
    BY <2>1, <2>2, <2>3, Zenon
<1> QED
  BY <1>4, <1>5, Zenon DEF Exact

\* parseWindowChange: the size.
LEMMA WindowChangeExact == Exact("window-change")
<1>0. ASSUME NEW v
      PROVE  HasFields("window-change", v) <=> \E a, b, c, d \in Uint32s : v = <<a, b, c, d>>
  BY DEF HasFields
<1>1. \A p : FieldsRead("window-change", p) = TakeSize(Start(p))
  BY DEF FieldsRead, Parsed, parseWindowChange
<1>2. ASSUME NEW a \in Uint32s, NEW b \in Uint32s, NEW c \in Uint32s,
             NEW d \in Uint32s
      PROVE  /\ Marshal("window-change", <<a, b, c, d>>) \in Bytes
             /\ \A after \in Bytes :
                  Join(Marshal("window-change", <<a, b, c, d>>), after)
                    = Join(Size(a, b, c, d), after)
  <2>1. Size(a, b, c, d) \in Bytes
    BY FieldBytes, SizeBytes
  <2>2. Marshal("window-change", <<a, b, c, d>>) = Size(a, b, c, d)
    BY DEF Marshal
  <2> QED
    BY <2>1, <2>2
<1>3. ASSUME NEW a \in Uint32s, NEW b \in Uint32s, NEW c \in Uint32s,
             NEW d \in Uint32s, NEW after \in Bytes
      PROVE  FieldsRead("window-change", Join(Marshal("window-change", <<a, b, c, d>>), after))
               = Read(<<a, b, c, d>>, after)
  <2> DEFINE y1 == after
             y0 == Join(Size(a, b, c, d), y1)
             v1 == And(And(And(And(<<>>, a), b), c), d)
  <2>1. y0 \in Bytes /\ y1 \in Bytes
    BY FieldBytes, SizeBytes, Regroup
  <2>2. Join(Marshal("window-change", <<a, b, c, d>>), after) = y0
    BY <1>2
  <2>3. Start(y0) = Read(<<>>, y0)
    BY DEF Start, Read
  <2>4. TakeSize(Read(<<>>, y0)) = Read(v1, y1)
    BY <2>1, SizeRead
  <2>5. v1 = <<a, b, c, d>>
    BY ValueList
  <2> HIDE DEF y0, v1
  <2> QED
    BY <1>1, <2>2, <2>3, <2>4, <2>5
<1>4. ASSUME NEW p \in Bytes, FieldsRead("window-change", p).ok
      PROVE  \E v : /\ HasFields("window-change", v)
                    /\ \E after \in Bytes : p = Join(Marshal("window-change", v), after)
  <2> DEFINE r0 == Read(<<>>, p)
             r1 == TakeSize(r0)
  <2>1. Start(p) = r0
    BY DEF Start, Read
  <2>2. r1.ok
    BY <1>1, <1>4, <2>1, Stops
  <2>3. PICK a \in Uint32s, b \in Uint32s, c \in Uint32s, d \in Uint32s, after \in Bytes :
          p = Join(Size(a, b, c, d), after)
    BY <2>2, SizeNeeded
  <2>4. p = Join(Marshal("window-change", <<a, b, c, d>>), after)
    BY <1>2, <2>3
  <2>5. HasFields("window-change", <<a, b, c, d>>)
    BY <1>0, Zenon
  <2> QED
    BY <2>4, <2>5, Zenon
<1>5. ASSUME NEW v, HasFields("window-change", v)
      PROVE  /\ Marshal("window-change", v) \in Bytes
             /\ \A after \in Bytes :
                  FieldsRead("window-change", Join(Marshal("window-change", v), after))
                    = Read(v, after)
  <2>1. PICK a, b, c, d \in Uint32s :
          v = <<a, b, c, d>>
    BY <1>0, <1>5
  <2>2. Marshal("window-change", <<a, b, c, d>>) \in Bytes
    BY <1>2
  <2>3. \A after \in Bytes :
          FieldsRead("window-change", Join(Marshal("window-change", <<a, b, c, d>>), after))
            = Read(<<a, b, c, d>>, after)
    BY <1>3
  <2> QED
    BY <2>1, <2>2, <2>3, Zenon
<1> QED
  BY <1>4, <1>5, Zenon DEF Exact

\* parseEnvReq: a name and a value.
LEMMA EnvReqExact == Exact("env")
<1>0. ASSUME NEW v
      PROVE  HasFields("env", v) <=> \E s, t \in SSHStrings : v = <<s, t>>
  BY DEF HasFields
<1>1. \A p : FieldsRead("env", p) = TakeString(TakeString(Start(p)))
  BY DEF FieldsRead, Parsed, parseEnvReq
<1>2. ASSUME NEW s \in SSHStrings, NEW t \in SSHStrings
      PROVE  /\ Marshal("env", <<s, t>>) \in Bytes
             /\ \A after \in Bytes :
                  Join(Marshal("env", <<s, t>>), after)
                    = Join(String(s), Join(String(t), after))
  <2>1. String(s) \in Bytes /\ String(t) \in Bytes
    BY FieldBytes, SizeBytes
  <2> DEFINE x1 == String(s)
             x2 == Join(x1, String(t))
  <2>2. Marshal("env", <<s, t>>) = x2
    BY DEF Marshal, Join
  <2>3. x1 \in Bytes /\ x2 \in Bytes
    BY <2>1, Regroup
  <2>4. ASSUME NEW after \in Bytes
        PROVE  Join(x2, after) = Join(String(s), Join(String(t), after))
    <3> DEFINE y2 == after
               y1 == Join(String(t), y2)
    <3>1. y1 \in Bytes
      BY <2>1, Regroup
    <3>2. Join(x2, y2) = Join(x1, y1)
      BY <2>1, <2>3, <3>1, Regroup
    <3> QED
      BY <3>2
  <2> QED
    BY <2>2, <2>3, <2>4
<1>3. ASSUME NEW s \in SSHStrings, NEW t \in SSHStrings,
             NEW after \in Bytes
      PROVE  FieldsRead("env", Join(Marshal("env", <<s, t>>), after)) = Read(<<s, t>>, after)
  <2> DEFINE y2 == after
             y1 == Join(String(t), y2)
             y0 == Join(String(s), y1)
             v1 == And(<<>>, s)
             v2 == And(v1, t)
  <2>1. y0 \in Bytes /\ y1 \in Bytes /\ y2 \in Bytes
    BY FieldBytes, SizeBytes, Regroup
  <2>2. Join(Marshal("env", <<s, t>>), after) = y0
    BY <1>2
  <2>3. Start(y0) = Read(<<>>, y0)
    BY DEF Start, Read
  <2>4. TakeString(Read(<<>>, y0)) = Read(v1, y1)
    BY <2>1, StringRead
  <2>5. TakeString(Read(v1, y1)) = Read(v2, y2)
    BY <2>1, StringRead
  <2>6. v2 = <<s, t>>
    BY ValueList
  <2> HIDE DEF y0, y1, v1, v2
  <2> QED
    BY <1>1, <2>2, <2>3, <2>4, <2>5, <2>6
<1>4. ASSUME NEW p \in Bytes, FieldsRead("env", p).ok
      PROVE  \E v : /\ HasFields("env", v)
                    /\ \E after \in Bytes : p = Join(Marshal("env", v), after)
  <2> DEFINE r0 == Read(<<>>, p)
             r1 == TakeString(r0)
             r2 == TakeString(r1)
  <2>1. Start(p) = r0
    BY DEF Start, Read
  <2>2. r1.ok /\ r2.ok
    BY <1>1, <1>4, <2>1, Stops
  <2>3. PICK s \in SSHStrings, p1 \in Bytes : p = Join(String(s), p1)
    BY <2>2, StringNeeded
  <2>4. r1 = Read(And(<<>>, s), p1)
    BY <2>3, StringRead
  <2>5. PICK t \in SSHStrings, after \in Bytes : p1 = Join(String(t), after)
    BY <2>2, <2>4, StringNeeded
  <2>6. p = Join(Marshal("env", <<s, t>>), after)
    BY <1>2, <2>3, <2>5
  <2>7. HasFields("env", <<s, t>>)
    BY <1>0, Zenon
  <2> QED
    BY <2>6, <2>7, Zenon
<1>5. ASSUME NEW v, HasFields("env", v)
      PROVE  /\ Marshal("env", v) \in Bytes
             /\ \A after \in Bytes :
                  FieldsRead("env", Join(Marshal("env", v), after)) = Read(v, after)
  <2>1. PICK s, t \in SSHStrings :
          v = <<s, t>>
    BY <1>0, <1>5
  <2>2. Marshal("env", <<s, t>>) \in Bytes
    BY <1>2
  <2>3. \A after \in Bytes :
          FieldsRead("env", Join(Marshal("env", <<s, t>>), after)) = Read(<<s, t>>, after)
    BY <1>3
  <2> QED
    BY <2>1, <2>2, <2>3, Zenon
<1> QED
  BY <1>4, <1>5, Zenon DEF Exact

\* parseExecCommand: a command.
LEMMA ExecExact == Exact("exec")
<1>0. ASSUME NEW v
      PROVE  HasFields("exec", v) <=> \E s \in SSHStrings : v = <<s>>
  BY DEF HasFields
<1>1. \A p : FieldsRead("exec", p) = TakeString(Start(p))
  BY DEF FieldsRead, Parsed, parseExecCommand
<1>2. ASSUME NEW s \in SSHStrings
      PROVE  /\ Marshal("exec", <<s>>) \in Bytes
             /\ \A after \in Bytes :
                  Join(Marshal("exec", <<s>>), after)
                    = Join(String(s), after)
  <2>1. String(s) \in Bytes
    BY FieldBytes, SizeBytes
  <2>2. Marshal("exec", <<s>>) = String(s)
    BY DEF Marshal
  <2> QED
    BY <2>1, <2>2
<1>3. ASSUME NEW s \in SSHStrings, NEW after \in Bytes
      PROVE  FieldsRead("exec", Join(Marshal("exec", <<s>>), after)) = Read(<<s>>, after)
  <2> DEFINE y1 == after
             y0 == Join(String(s), y1)
             v1 == And(<<>>, s)
  <2>1. y0 \in Bytes /\ y1 \in Bytes
    BY FieldBytes, SizeBytes, Regroup
  <2>2. Join(Marshal("exec", <<s>>), after) = y0
    BY <1>2
  <2>3. Start(y0) = Read(<<>>, y0)
    BY DEF Start, Read
  <2>4. TakeString(Read(<<>>, y0)) = Read(v1, y1)
    BY <2>1, StringRead
  <2>5. v1 = <<s>>
    BY ValueList
  <2> HIDE DEF y0, v1
  <2> QED
    BY <1>1, <2>2, <2>3, <2>4, <2>5
<1>4. ASSUME NEW p \in Bytes, FieldsRead("exec", p).ok
      PROVE  \E v : /\ HasFields("exec", v)
                    /\ \E after \in Bytes : p = Join(Marshal("exec", v), after)
  <2> DEFINE r0 == Read(<<>>, p)
             r1 == TakeString(r0)
  <2>1. Start(p) = r0
    BY DEF Start, Read
  <2>2. r1.ok
    BY <1>1, <1>4, <2>1, Stops
  <2>3. PICK s \in SSHStrings, after \in Bytes : p = Join(String(s), after)
    BY <2>2, StringNeeded
  <2>4. p = Join(Marshal("exec", <<s>>), after)
    BY <1>2, <2>3
  <2>5. HasFields("exec", <<s>>)
    BY <1>0, Zenon
  <2> QED
    BY <2>4, <2>5, Zenon
<1>5. ASSUME NEW v, HasFields("exec", v)
      PROVE  /\ Marshal("exec", v) \in Bytes
             /\ \A after \in Bytes :
                  FieldsRead("exec", Join(Marshal("exec", v), after)) = Read(v, after)
  <2>1. PICK s \in SSHStrings :
          v = <<s>>
    BY <1>0, <1>5
  <2>2. Marshal("exec", <<s>>) \in Bytes
    BY <1>2
  <2>3. \A after \in Bytes :
          FieldsRead("exec", Join(Marshal("exec", <<s>>), after)) = Read(<<s>>, after)
    BY <1>3
  <2> QED
    BY <2>1, <2>2, <2>3, Zenon
<1> QED
  BY <1>4, <1>5, Zenon DEF Exact

\* parseSubsystemName does what parseExecCommand does.
LEMMA SubsystemExact == Exact("subsystem")
<1>1. /\ \A p : FieldsRead("subsystem", p) = FieldsRead("exec", p)
      /\ \A v : Marshal("subsystem", v) = Marshal("exec", v)
      /\ \A v : HasFields("subsystem", v) <=> HasFields("exec", v)
  BY DEF FieldsRead, Parsed, parseSubsystemName, parseExecCommand, Marshal, HasFields
<1> QED
  BY <1>1, ExecExact, Zenon DEF Exact

\* parseDirectTCPIP: a host and a port, twice.
LEMMA DirectTCPIPExact == Exact("direct-tcpip")
<1>0. ASSUME NEW v
      PROVE  HasFields("direct-tcpip", v)
               <=> \E s, t \in SSHStrings, m, n \in Uint32s : v = <<s, m, t, n>>
  BY DEF HasFields
<1>1. \A p : FieldsRead("direct-tcpip", p)
        = TakeUint32(TakeString(TakeUint32(TakeString(Start(p)))))
  BY DEF FieldsRead, DirectTCPIPFields
<1>2. ASSUME NEW s \in SSHStrings, NEW m \in Uint32s,
             NEW t \in SSHStrings, NEW n \in Uint32s
      PROVE  /\ Marshal("direct-tcpip", <<s, m, t, n>>) \in Bytes
             /\ \A after \in Bytes :
                  Join(Marshal("direct-tcpip", <<s, m, t, n>>), after)
                    = Join(String(s),
                        Join(PutUint32(m), Join(String(t), Join(PutUint32(n), after))))
  <2>1. /\ String(s) \in Bytes /\ PutUint32(m) \in Bytes
        /\ String(t) \in Bytes /\ PutUint32(n) \in Bytes
    BY FieldBytes, SizeBytes
  <2> DEFINE x1 == String(s)
             x2 == Join(x1, PutUint32(m))
             x3 == Join(x2, String(t))
             x4 == Join(x3, PutUint32(n))
  <2>2. Marshal("direct-tcpip", <<s, m, t, n>>) = x4
    BY DEF Marshal, Join
  <2>3. x1 \in Bytes /\ x2 \in Bytes /\ x3 \in Bytes /\ x4 \in Bytes
    BY <2>1, Regroup
  <2>4. ASSUME NEW after \in Bytes
        PROVE  Join(x4, after)
                 = Join(String(s), Join(PutUint32(m), Join(String(t), Join(PutUint32(n), after))))
    <3> DEFINE y4 == after
               y3 == Join(PutUint32(n), y4)
               y2 == Join(String(t), y3)
               y1 == Join(PutUint32(m), y2)
    <3>1. y1 \in Bytes /\ y2 \in Bytes /\ y3 \in Bytes
      BY <2>1, Regroup
    <3>2. Join(x4, y4) = Join(x3, y3)
      BY <2>1, <2>3, <3>1, Regroup
    <3>3. Join(x3, y3) = Join(x2, y2)
      BY <2>1, <2>3, <3>1, Regroup
    <3>4. Join(x2, y2) = Join(x1, y1)
      BY <2>1, <2>3, <3>1, Regroup
    <3> QED
      BY <3>2, <3>3, <3>4
  <2> QED
    BY <2>2, <2>3, <2>4
<1>3. ASSUME NEW s \in SSHStrings, NEW m \in Uint32s,
             NEW t \in SSHStrings, NEW n \in Uint32s,
             NEW after \in Bytes
      PROVE  FieldsRead("direct-tcpip", Join(Marshal("direct-tcpip", <<s, m, t, n>>), after))
               = Read(<<s, m, t, n>>, after)
  <2> DEFINE y4 == after
             y3 == Join(PutUint32(n), y4)
             y2 == Join(String(t), y3)
             y1 == Join(PutUint32(m), y2)
             y0 == Join(String(s), y1)
             v1 == And(<<>>, s)
             v2 == And(v1, m)
             v3 == And(v2, t)
             v4 == And(v3, n)
  <2>1. y0 \in Bytes /\ y1 \in Bytes /\ y2 \in Bytes /\ y3 \in Bytes /\ y4 \in Bytes
    BY FieldBytes, SizeBytes, Regroup
  <2>2. Join(Marshal("direct-tcpip", <<s, m, t, n>>), after) = y0
    BY <1>2
  <2>3. Start(y0) = Read(<<>>, y0)
    BY DEF Start, Read
  <2>4. TakeString(Read(<<>>, y0)) = Read(v1, y1)
    BY <2>1, StringRead
  <2>5. TakeUint32(Read(v1, y1)) = Read(v2, y2)
    BY <2>1, NumberRead
  <2>6. TakeString(Read(v2, y2)) = Read(v3, y3)
    BY <2>1, StringRead
  <2>7. TakeUint32(Read(v3, y3)) = Read(v4, y4)
    BY <2>1, NumberRead
  <2>8. v4 = <<s, m, t, n>>
    BY ValueList
  <2> HIDE DEF y0, y1, y2, y3, v1, v2, v3, v4
  <2> QED
    BY <1>1, <2>2, <2>3, <2>4, <2>5, <2>6, <2>7, <2>8
<1>4. ASSUME NEW p \in Bytes, FieldsRead("direct-tcpip", p).ok
      PROVE  \E v : /\ HasFields("direct-tcpip", v)
                    /\ \E after \in Bytes : p = Join(Marshal("direct-tcpip", v), after)
  <2> DEFINE r0 == Read(<<>>, p)
             r1 == TakeString(r0)
             r2 == TakeUint32(r1)
             r3 == TakeString(r2)
             r4 == TakeUint32(r3)
  <2>1. Start(p) = r0
    BY DEF Start, Read
  <2>2. r1.ok /\ r2.ok /\ r3.ok /\ r4.ok
    BY <1>1, <1>4, <2>1, Stops
  <2>3. PICK s \in SSHStrings, p1 \in Bytes : p = Join(String(s), p1)
    BY <2>2, StringNeeded
  <2>4. r1 = Read(And(<<>>, s), p1)
    BY <2>3, StringRead
  <2>5. PICK m \in Uint32s, p2 \in Bytes : p1 = Join(PutUint32(m), p2)
    BY <2>2, <2>4, NumberNeeded
  <2>6. r2 = Read(And(And(<<>>, s), m), p2)
    BY <2>4, <2>5, NumberRead
  <2>7. PICK t \in SSHStrings, p3 \in Bytes : p2 = Join(String(t), p3)
    BY <2>2, <2>6, StringNeeded
  <2>8. r3 = Read(And(And(And(<<>>, s), m), t), p3)
    BY <2>6, <2>7, StringRead
  <2>9. PICK n \in Uint32s, after \in Bytes : p3 = Join(PutUint32(n), after)
    BY <2>2, <2>8, NumberNeeded
  <2>10. p = Join(Marshal("direct-tcpip", <<s, m, t, n>>), after)
    BY <1>2, <2>3, <2>5, <2>7, <2>9
  <2>11. HasFields("direct-tcpip", <<s, m, t, n>>)
    BY <1>0, Zenon
  <2> QED
    BY <2>10, <2>11, Zenon
<1>5. ASSUME NEW v, HasFields("direct-tcpip", v)
      PROVE  /\ Marshal("direct-tcpip", v) \in Bytes
             /\ \A after \in Bytes :
                  FieldsRead("direct-tcpip", Join(Marshal("direct-tcpip", v), after))
                    = Read(v, after)
  <2>1. PICK s, t \in SSHStrings, m, n \in Uint32s :
          v = <<s, m, t, n>>
    BY <1>0, <1>5
  <2>2. Marshal("direct-tcpip", <<s, m, t, n>>) \in Bytes
    BY <1>2
  <2>3. \A after \in Bytes :
          FieldsRead("direct-tcpip", Join(Marshal("direct-tcpip", <<s, m, t, n>>), after))
            = Read(<<s, m, t, n>>, after)
    BY <1>3
  <2> QED
    BY <2>1, <2>2, <2>3, Zenon
<1> QED
  BY <1>4, <1>5, Zenon DEF Exact

\* parsePtyReq, parseWindowChange, parseEnvReq, parseExecCommand,
\* parseSubsystemName and parseDirectTCPIP read the fields of a payload exactly
\* when they are all there.
THEOREM AllExact ==
  ASSUME NEW req \in ReqTypes
  PROVE  Exact(req)
BY PtyReqExact, WindowChangeExact, EnvReqExact, ExecExact, SubsystemExact, DirectTCPIPExact
   DEF ReqTypes

\* parseDirectTCPIP adds two checks to the reading of its fields.
LEMMA ParsedFields ==
  ASSUME NEW req, NEW p
  PROVE  /\ req # "direct-tcpip" => Parsed(req, p) = FieldsRead(req, p)
         /\ Parsed("direct-tcpip", p).values = DirectTCPIPFields(p).values
         /\ Parsed("direct-tcpip", p).ok <=>
              /\ DirectTCPIPFields(p).ok /\ DirectTCPIPFields(p).rest = <<>>
              /\ DirectTCPIPFields(p).values[2] \in PortNumbers
<1> DEFINE r == DirectTCPIPFields(p)
           ok == r.ok /\ r.rest = <<>> /\ r.values[2] \in PortNumbers
<1>1. req # "direct-tcpip" => Parsed(req, p) = FieldsRead(req, p)
  BY Zenon DEF FieldsRead
<1>2. \A q : DOMAIN q = {"ok", "values", "rest"} =>
        /\ DOMAIN TakeString(q) = {"ok", "values", "rest"}
        /\ DOMAIN TakeUint32(q) = {"ok", "values", "rest"}
  BY DEF TakeString, TakeUint32, Taken
<1>3. DOMAIN Start(p) = {"ok", "values", "rest"}
  BY DEF Start
<1>4. DOMAIN r = {"ok", "values", "rest"}
  BY <1>2, <1>3, Zenon DEF DirectTCPIPFields
<1>5. parseDirectTCPIP(p) = [r EXCEPT !.ok = ok]
  BY Zenon DEF parseDirectTCPIP, DirectTCPIPFields
<1>6. Parsed("direct-tcpip", p) = parseDirectTCPIP(p)
  BY DEF Parsed
<1>7. parseDirectTCPIP(p).values = r.values /\ parseDirectTCPIP(p).ok = ok
  <2> HIDE DEF r, ok
  <2> QED
    BY <1>4, <1>5
<1> QED
  BY <1>1, <1>6, <1>7, Zenon

\* A parser that accepts has read what was sent.
LEMMA ReadsOnlySent ==
  ASSUME NEW req \in ReqTypes, NEW p \in Bytes, Parsed(req, p).ok
  PROVE  LET m == Marshal(req, Parsed(req, p).values)
         IN  Len(m) <= Len(p) /\ SubSeq(m, 1, Len(m)) = SubSeq(p, 1, Len(m))
<1>1. FieldsRead(req, p).ok /\ Parsed(req, p).values = FieldsRead(req, p).values
  BY ParsedFields, Zenon DEF FieldsRead
<1>2. PICK v : HasFields(req, v) /\ \E after \in Bytes : p = Join(Marshal(req, v), after)
  BY <1>1, AllExact, Zenon DEF Exact
<1> PICK after \in Bytes : p = Join(Marshal(req, v), after)
  BY <1>2
<1>3. FieldsRead(req, p) = Read(v, after) /\ Marshal(req, v) \in Bytes
  BY <1>2, AllExact, Zenon DEF Exact
<1>4. Parsed(req, p).values = v
  BY <1>1, <1>3 DEF Read
<1> DEFINE m == Marshal(req, v)
<1>5. m \in Seq(Byte) /\ p = m \o after /\ after \in Seq(Byte)
  BY <1>2, <1>3, Zenon DEF Bytes, Join
<1> HIDE DEF m
<1>6. Len(m) <= Len(p) /\ SubSeq(m, 1, Len(m)) = SubSeq(p, 1, Len(m))
  BY <1>5
<1> QED
  BY <1>4, <1>6 DEF m

\* What is cut off the second part of a concatenation leaves the first.
LEMMA KeptWhole ==
  ASSUME NEW m \in Seq(Byte), NEW tail \in Seq(Byte), NEW cut \in 0 .. Len(tail)
  PROVE  /\ SubSeq(m \o tail, 1, Len(m \o tail) - cut) = m \o SubSeq(tail, 1, Len(tail) - cut)
         /\ SubSeq(tail, 1, Len(tail) - cut) \in Seq(Byte)
         /\ Len(SubSeq(tail, 1, Len(tail) - cut)) = Len(tail) - cut
OBVIOUS

\* A prefix of a concatenation ends in the one part or in the other.
LEMMA Truncated ==
  ASSUME NEW m \in Seq(Byte), NEW tail \in Seq(Byte), NEW cut \in 0 .. Len(m \o tail)
  PROVE  /\ SubSeq(m \o tail, 1, Len(m \o tail) - cut) \in Seq(Byte)
         /\ Len(SubSeq(m \o tail, 1, Len(m \o tail) - cut)) = Len(m) + Len(tail) - cut
         /\ \E lost \in Seq(Byte) : m \o tail = SubSeq(m \o tail, 1, Len(m \o tail) - cut) \o lost
<1> DEFINE w == m \o tail
           kept == SubSeq(w, 1, Len(w) - cut)
<1>1. w \in Seq(Byte) /\ Len(w) = Len(m) + Len(tail) /\ Len(w) - cut \in 0 .. Len(w)
  OBVIOUS
<1> HIDE DEF w
<1> DEFINE n == Len(w) - cut
           lost == SubSeq(w, n + 1, Len(w))
<1>3. n \in 0 .. Len(w) /\ kept = SubSeq(w, 1, n) /\ n = Len(m) + Len(tail) - cut
  BY <1>1
<1> HIDE DEF n, kept
<1>4. kept \in Seq(Byte) /\ Len(kept) = n /\ lost \in Seq(Byte)
  BY <1>1, <1>3
<1>5. w = kept \o lost
  <2>1. 1 \in 1 .. Len(w) + 1 /\ n \in 1 - 1 .. Len(w) /\ Len(w) \in n .. Len(w)
    BY <1>1, <1>3
  <2>2. SubSeq(w, 1, n) \o SubSeq(w, n + 1, Len(w)) = SubSeq(w, 1, Len(w))
    BY <1>1, <2>1, ConcatAdjacentSubSeq, Zenon
  <2> QED
    BY <1>1, <1>3, <2>2, SubSeqFull, Zenon
<1> QED
  BY <1>3, <1>4, <1>5, Zenon DEF w, kept

\* Whether a payload still holds all its fields once its last bytes are cut off:
\* only parseDirectTCPIP refuses bytes after the fields, and a port out of range.
Acceptable(req, v, tail, cut) ==
  IF req = "direct-tcpip" THEN cut = Len(tail) /\ v[2] \in PortNumbers
  ELSE cut <= Len(tail)

\* Of a payload that was cut, a parser accepts what still holds all the fields.
LEMMA CutPayload ==
  ASSUME NEW req \in ReqTypes, NEW v, HasFields(req, v), NEW tail \in Bytes,
         NEW whole, whole = Join(Marshal(req, v), tail), NEW cut \in 0 .. Len(whole),
         NEW answered, answered = Parsed(req, SubSeq(whole, 1, Len(whole) - cut))
  PROVE  /\ answered.ok <=> Acceptable(req, v, tail, cut)
         /\ answered.ok => answered.values = v
<1> DEFINE m == Marshal(req, v)
           w == m \o tail
           kept == SubSeq(w, 1, Len(w) - cut)
           a == Parsed(req, kept)
           f == FieldsRead(req, kept)
           left == SubSeq(tail, 1, Len(tail) - cut)
<1>0. w = whole /\ answered = a /\ m \in Bytes
  BY AllExact, Zenon DEF Exact, Join
<1>1. m \in Seq(Byte) /\ tail \in Seq(Byte) /\ cut \in 0 .. Len(w)
  BY <1>0, Zenon DEF Bytes
<1>2. /\ kept \in Seq(Byte) /\ Len(kept) = Len(m) + Len(tail) - cut
      /\ \E lost \in Seq(Byte) : w = kept \o lost
  <2> HIDE DEF m
  <2> QED
    BY <1>1, Truncated, Zenon
<1>3. cut <= Len(tail) => kept = m \o left /\ left \in Seq(Byte) /\ Len(left) = Len(tail) - cut
  <2> HIDE DEF m
  <2> SUFFICES ASSUME cut <= Len(tail)
               PROVE  kept = m \o left /\ left \in Seq(Byte) /\ Len(left) = Len(tail) - cut
    OBVIOUS
  <2>1. cut \in 0 .. Len(tail)
    BY <1>1
  <2> QED
    BY <1>1, <2>1, KeptWhole, Zenon
<1> HIDE DEF m, w, kept, left
<1>4. Len(m) \in Nat /\ Len(tail) \in Nat /\ cut \in Nat
  BY <1>1
<1>5. cut <= Len(tail) => f = Read(v, left)
  <2> SUFFICES ASSUME cut <= Len(tail)
               PROVE  f = Read(v, left)
    OBVIOUS
  <2>1. kept = Join(m, left) /\ left \in Bytes
    BY <1>2, <1>3 DEF Join, Bytes
  <2> QED
    BY <2>1, AllExact, Zenon DEF Exact, m
<1>6. f.ok => cut <= Len(tail)
  <2> SUFFICES ASSUME f.ok
               PROVE  cut <= Len(tail)
    OBVIOUS
  <2>1. kept \in Bytes
    BY <1>2, <1>3 DEF Bytes
  <2>2. PICK u : HasFields(req, u) /\ \E after \in Bytes : kept = Join(Marshal(req, u), after)
    BY <2>1, AllExact, Zenon DEF Exact
  <2> PICK after \in Bytes : kept = Join(Marshal(req, u), after)
    BY <2>2
  <2>3. PICK lost \in Bytes : w = Join(kept, lost)
    BY <1>2, <1>3 DEF Join, Bytes
  <2>4. Marshal(req, u) \in Bytes
    BY <2>2, AllExact, Zenon DEF Exact
  <2>5. w = Join(Marshal(req, u), Join(after, lost)) /\ Join(after, lost) \in Bytes
    BY <2>2, <2>3, <2>4, Regroup
  <2>6. FieldsRead(req, w) = Read(u, Join(after, lost))
    BY <2>2, <2>5, AllExact, Zenon DEF Exact
  <2>7. FieldsRead(req, w) = Read(v, tail)
    BY <1>0, AllExact, Zenon DEF Exact, m
  <2>8. u = v
    BY <2>6, <2>7 DEF Read
  <2>9. kept = m \o after /\ after \in Seq(Byte)
    BY <2>2, <2>8, Zenon DEF m, Join, Bytes
  <2>10. Len(kept) = Len(m) + Len(after) /\ Len(after) \in Nat
    BY <1>1, <2>9
  <2> QED
    BY <1>2, <1>3, <1>4, <2>10
<1>7. cut <= Len(tail) => (left = <<>> <=> cut = Len(tail))
  <2> SUFFICES ASSUME cut <= Len(tail)
               PROVE  left = <<>> <=> cut = Len(tail)
    OBVIOUS
  <2>1. left \in Seq(Byte) /\ Len(left) = Len(tail) - cut
    BY <1>2, <1>3
  <2>2. left = <<>> <=> Len(left) = 0
    BY <2>1
  <2> QED
    BY <1>4, <2>1, <2>2
<1>8. cut <= Len(tail) => f.ok /\ f.values = v /\ f.rest = left
  <2> HIDE DEF f
  <2> QED
    BY <1>5 DEF Read
<1>9. CASE req # "direct-tcpip"
  <2>1. a = f
    BY <1>9, ParsedFields, Zenon
  <2> HIDE DEF a, f
  <2>2. /\ a.ok <=> Acceptable(req, v, tail, cut)
        /\ a.ok => a.values = v
    BY <1>6, <1>8, <1>9, <2>1 DEF Acceptable
  <2> QED
    BY <1>0, <2>2
<1>10. CASE req = "direct-tcpip"
  <2>1. f = DirectTCPIPFields(kept)
    BY <1>10 DEF FieldsRead
  <2>2. a.values = f.values /\ (a.ok <=> f.ok /\ f.rest = <<>> /\ f.values[2] \in PortNumbers)
    BY <1>10, <2>1, ParsedFields, Zenon
  <2> HIDE DEF a, f
  <2>3. a.ok <=> cut = Len(tail) /\ v[2] \in PortNumbers
    BY <1>4, <1>6, <1>7, <1>8, <2>2
  <2>4. a.ok => a.values = v
    BY <1>6, <1>8, <2>2
  <2>5. /\ a.ok <=> Acceptable(req, v, tail, cut)
        /\ a.ok => a.values = v
    BY <1>10, <2>3, <2>4 DEF Acceptable
  <2> QED
    BY <1>0, <2>5
<1> QED
  BY <1>9, <1>10

\* The last field of a payload is followed by nothing.
LEMMA NothingAfter ==
  /\ <<>> \in Bytes
  /\ \A x \in Bytes : Join(x, <<>>) = x
<1>1. <<>> \in Seq(Byte)
  OBVIOUS
<1>2. \A x \in Seq(Byte) : x \o <<>> = x
  BY ConcatEmptySeq, Zenon
<1> QED
  BY <1>1, <1>2, Zenon DEF Bytes, Join

\* exitStatusPayload: the client reads the status, and nothing is left over.
LEMMA StatusRead ==
  ASSUME NEW n \in Uint32s
  PROVE  TakeUint32(Start(exitStatusPayload(n))) = [ok |-> TRUE, rest |-> <<>>, values |-> <<n>>]
<1>1. PutUint32(n) \in Bytes
  BY FieldBytes
<1>2. Start(exitStatusPayload(n)) = Read(<<>>, Join(PutUint32(n), <<>>))
  BY <1>1, NothingAfter, Zenon DEF Start, Read, exitStatusPayload
<1>3. TakeUint32(Read(<<>>, Join(PutUint32(n), <<>>))) = Read(And(<<>>, n), <<>>)
  BY NothingAfter, NumberRead, Zenon
<1>4. And(<<>>, n) = <<n>>
  BY ValueList, Zenon
<1>5. Read(<<n>>, <<>>) = [ok |-> TRUE, rest |-> <<>>, values |-> <<n>>]
  BY DEF Read
<1> QED
  BY <1>2, <1>3, <1>4, <1>5, Zenon

\* The core dumped byte of an exit-signal request.
CoreFlag(core) == IF core THEN 1 ELSE 0

\* exitSignalPayload: the client reads the name, the core flag and the message.
LEMMA SignalRead ==
  ASSUME NEW name \in SSHStrings, NEW core \in BOOLEAN, NEW msg \in SSHStrings,
         NEW payload, payload = exitSignalPayload(name, core, msg)
  PROVE  /\ readSSHString(payload).ok /\ readSSHString(payload).value = name
         /\ readSSHString(payload).rest[1] = CoreFlag(core)
         /\ Message(payload) = Read(<<msg, <<>>>>, <<>>)
<1> DEFINE flag == CoreFlag(core)
           sn == String(name)
           sm == String(msg)
           se == String(<<>>)
           end == Join(sm, se)
           rest == Join(<<flag>>, end)
           r == readSSHString(payload)
<1>1. name \in Seq(Byte) /\ msg \in Seq(Byte) /\ <<>> \in SSHStrings
  BY DEF SSHStrings, Uint32s
<1>2. flag \in Byte
  BY DEF Byte, CoreFlag
<1> HIDE DEF flag
<1>3. sn \in Bytes /\ sm \in Bytes /\ se \in Bytes /\ <<flag>> \in Bytes
  BY <1>1, <1>2, FieldBytes DEF Bytes
<1>4. end \in Bytes /\ rest \in Bytes
  BY <1>3, Regroup
<1>5. payload = Join(sn, rest)
  <2> DEFINE named == Append(sn, flag)
  <2>1. appendSSHString(<<>>, name) = sn
    BY StringBytes, Zenon
  <2>2. payload = appendSSHString(appendSSHString(named, msg), <<>>)
    BY <2>1, Zenon DEF exitSignalPayload, flag, CoreFlag
  <2>3. \A x, s : appendSSHString(x, s) = Join(Join(x, PutUint32(Len(s))), s)
    BY Zenon DEF appendSSHString, Join
  <2>4. ASSUME NEW x \in Bytes, NEW s \in SSHStrings
        PROVE  appendSSHString(x, s) = Join(x, String(s))
    <3>1. PutUint32(Len(s)) \in Bytes /\ s \in Bytes
      BY FieldBytes DEF SSHStrings, Bytes
    <3>2. String(s) = Join(PutUint32(Len(s)), s)
      BY Zenon DEF String, Join
    <3> QED
      BY <2>3, <3>1, <3>2, Regroup
  <2>5. named = Join(sn, <<flag>>)
    <3> HIDE DEF sn
    <3> QED
      BY <1>2, <1>3, AppendIsConcat, Zenon DEF Bytes, Join
  <2>6. Join(sn, <<flag>>) \in Bytes
    BY <1>3, Regroup
  <2>7. appendSSHString(named, msg) = Join(Join(sn, <<flag>>), sm)
    BY <2>4, <2>5, <2>6, Zenon
  <2>8. Join(Join(sn, <<flag>>), sm) \in Bytes
    BY <1>3, <2>6, Regroup
  <2>9. payload = Join(Join(Join(sn, <<flag>>), sm), se)
    BY <1>1, <2>2, <2>4, <2>7, <2>8, Zenon
  <2>10. Join(Join(Join(sn, <<flag>>), sm), se) = Join(Join(sn, <<flag>>), end)
    BY <1>3, <2>6, Regroup
  <2>11. Join(Join(sn, <<flag>>), end) = Join(sn, rest)
    BY <1>3, <1>4, Regroup
  <2> QED
    BY <2>9, <2>10, <2>11, Zenon
<1>6. r = [ok |-> TRUE, value |-> name, rest |-> rest]
  <2>1. payload \in Seq(Byte) /\ rest \in Seq(Byte) /\ payload = String(name) \o rest
    <3>1. Join(sn, rest) \in Bytes
      BY <1>3, <1>4, Regroup
    <3> HIDE DEF rest
    <3> QED
      BY <1>4, <1>5, <3>1, Zenon DEF Bytes, Join
  <2> HIDE DEF rest
  <2> QED
    BY <2>1, StringField, Zenon
<1>7. rest[1] = flag /\ Tail(rest) = end
  <2>1. end \in Seq(Byte) /\ rest = <<flag>> \o end
    BY <1>4, Zenon DEF Join, Bytes
  <2> HIDE DEF end, rest
  <2>2. rest[1] = flag
    BY <1>2, <2>1
  <2>3. Tail(rest) = end
    BY <1>2, <2>1
  <2> QED
    BY <2>2, <2>3
<1> HIDE DEF rest, end
<1>8. r.ok /\ r.value = name /\ r.rest = rest
  <2> HIDE DEF r
  <2> QED
    BY <1>6
<1>9. Message(payload) = TakeString(TakeString(Start(end)))
  BY <1>7, <1>8, Zenon DEF Message
<1>10. Start(end) = Read(<<>>, Join(sm, se))
  BY Zenon DEF Start, Read, end
<1>11. TakeString(Read(<<>>, Join(sm, se))) = Read(And(<<>>, msg), se)
  BY <1>3, StringRead, Zenon
<1>12. se = Join(se, <<>>)
  BY <1>3, NothingAfter, Zenon
<1>13. TakeString(Read(And(<<>>, msg), Join(se, <<>>))) = Read(And(And(<<>>, msg), <<>>), <<>>)
  BY <1>1, NothingAfter, StringRead, Zenon
<1>14. And(And(<<>>, msg), <<>>) = <<msg, <<>>>>
  BY ValueList
<1>15. Message(payload) = Read(<<msg, <<>>>>, <<>>)
  BY <1>9, <1>10, <1>11, <1>12, <1>13, <1>14, Zenon
<1> QED
  BY <1>7, <1>8, <1>15, Zenon DEF flag

-----------------------------------------------------------------------------
(***************************************************************************)
(* Loops.  A loop over a sequence is a function on 0 .. n chosen for its   *)
(* equation: LoopExists shows that there is one, and UpTo goes along it    *)
(* step by step.                                                           *)
(***************************************************************************)
\* A set of natural numbers has a least element.
LEMMA NatMin == ASSUME NEW T \in SUBSET Nat, T # {} PROVE \E x \in T : \A y \in T : x <= y
<1> DEFINE R == OpToRel(<, Nat)
<1>0. IsWellFoundedOn(R, Nat)
  BY NatLessThanWellFounded
<1>2. \A y, x \in T : y < x => <<y, x>> \in R
  BY DEF OpToRel
<1> HIDE DEF R
<1>1. PICK x \in T : \A y \in T : ~(<<y, x>> \in R)
  BY <1>0, WFMin, Zenon
<1>3. \A y \in T : ~(y < x)
  BY <1>1, <1>2
<1> QED BY <1>3

\* Induction up to n.
LEMMA UpTo ==
  ASSUME NEW n \in Nat, NEW T, 0 \in T, \A i \in 1 .. n : i - 1 \in T => i \in T
  PROVE  \A i \in 0 .. n : i \in T
<1> SUFFICES ASSUME NEW k \in 0 .. n, k \notin T PROVE FALSE
  OBVIOUS
<1> DEFINE B == {i \in 0 .. n : i \notin T}
<1>1. B \in SUBSET Nat /\ B # {}
  OBVIOUS
<1>2. PICK x \in B : \A y \in B : x <= y
  BY <1>1, NatMin, Zenon
<1>3. x # 0 /\ x \in 1 .. n /\ x - 1 \in 0 .. n /\ x \notin T
  OBVIOUS
<1>4. x - 1 \in B
  BY <1>3
<1> QED
  BY <1>2, <1>3, <1>4

\* Max, of a set that has a largest element.
LEMMA MaxOf == ASSUME NEW S \in SUBSET Int, NEW m \in S, \A x \in S : x <= m PROVE Max(S) = m
<1>1. \A x \in S : (\A y \in S : x >= y) => x = m
  OBVIOUS
<1>2. \A y \in S : m >= y
  OBVIOUS
<1>3. \E x \in S : \A y \in S : x >= y
  BY <1>2
<1> DEFINE P(x) == \A y \in S : x >= y
<1>4. Max(S) = CHOOSE x \in S : P(x)
  BY DEF Max
<1>5. Max(S) \in S /\ P(Max(S))
  BY <1>3, <1>4, Zenon
<1> QED
  BY <1>1, <1>5, Zenon

\* g holds the values of a loop with the body F, the one after step i at i.
Loop(g, n, first, F) == g[0] = first /\ \A i \in 1 .. n : g[i] = F[<<g[i - 1], i>>]

\* There is a loop from every first value with every body.
LEMMA LoopExists ==
  ASSUME NEW n \in Nat, NEW X, NEW first \in X, NEW F \in [X \X (1 .. n) -> X]
  PROVE  \E g \in [0 .. n -> X] : Loop(g, n, first, F)
<1> DEFINE Q(k, g) == g[0] = first /\ \A i \in 1 .. k : g[i] = F[<<g[i - 1], i>>]
           T == {k \in 0 .. n : \E g \in [0 .. k -> X] : Q(k, g)}
<1>1. 0 \in T
  <2> DEFINE g == [i \in 0 .. 0 |-> first]
  <2>1. g \in [0 .. 0 -> X] /\ Q(0, g) /\ 0 \in 0 .. n
    OBVIOUS
  <2> HIDE DEF Q, g
  <2> QED
    BY <2>1, Zenon
<1>2. ASSUME NEW k \in 1 .. n, k - 1 \in T PROVE k \in T
  <2>1. PICK h \in [0 .. k - 1 -> X] : Q(k - 1, h)
    BY <1>2
  <2>2. h[k - 1] \in X
    OBVIOUS
  <2> DEFINE v == F[<<h[k - 1], k>>]
  <2>3. v \in X
    BY <2>2
  <2> HIDE DEF v
  <2> DEFINE g == [i \in 0 .. k |-> IF i = k THEN v ELSE h[i]]
  <2>4. g \in [0 .. k -> X]
    BY <2>3
  <2>5. g[k] = v /\ \A i \in 0 .. (k - 1) : g[i] = h[i]
    OBVIOUS
  <2> HIDE DEF g
  <2>6. Q(k, g)
    <3>1. g[0] = first
      BY <2>1, <2>5
    <3>2. ASSUME NEW i \in 1 .. k PROVE g[i] = F[<<g[i - 1], i>>]
      <4>1. CASE i = k
        BY <2>5, <4>1 DEF v
      <4>2. CASE i # k
        <5>1. i \in 1 .. (k - 1) /\ i - 1 \in 0 .. (k - 1) /\ i \in 0 .. (k - 1)
          BY <4>2
        <5> QED
          BY <2>1, <2>5, <5>1
      <4> QED
        BY <4>1, <4>2
    <3> QED
      BY <3>1, <3>2
  <2> HIDE DEF Q
  <2> QED
    BY <2>4, <2>6
<1> HIDE DEF T
<1>3. n \in T
  <2>1. \A i \in 1 .. n : i - 1 \in T => i \in T
    BY <1>2
  <2>2. \A i \in 0 .. n : i \in T
    BY <1>1, <2>1, UpTo, Zenon
  <2> QED
    BY <2>2
<1> QED
  BY <1>3 DEF T, Loop

-----------------------------------------------------------------------------
(***************************************************************************)
(* The requests of a channel (preSpawnDispatch, handlePtyReq, handleEnv).  *)
(***************************************************************************)
\* Go maps from K to V.
Maps(K, V) == UNION {[D -> V] : D \in SUBSET K}

\* An assignment sets one key and leaves the others.
LEMMA MapAssign ==
  ASSUME NEW K, NEW V, NEW m \in Maps(K, V), NEW k \in K, NEW v \in V
  PROVE  /\ Assign(m, k, v) \in Maps(K, V)
         /\ DOMAIN Assign(m, k, v) = DOMAIN m \cup {k}
         /\ Assign(m, k, v)[k] = v
         /\ \A x \in DOMAIN m : x # k => Assign(m, k, v)[x] = m[x]
<1>1. PICK D \in SUBSET K : m \in [D -> V]
  BY DEF Maps
<1>2. Assign(m, k, v) \in [D \cup {k} -> V]
  BY <1>1 DEF Assign
<1>3. D \cup {k} \in SUBSET K
  OBVIOUS
<1> QED
  BY <1>2, <1>3 DEF Maps, Assign

\* The empty map is a map.
LEMMA EmptyIsMap ==
  ASSUME NEW K, NEW V
  PROVE  EmptyMap \in Maps(K, V) /\ DOMAIN EmptyMap = {}
<1>1. EmptyMap \in [{} -> V] /\ {} \in SUBSET K
  BY DEF EmptyMap
<1> QED
  BY <1>1 DEF Maps, EmptyMap

\* What a sessionState holds, and holds at first.
States == [pty : Terms \cup {Nil}, envFromCh : Maps(Names, EnvValues)]
Fresh == [pty |-> Nil, envFromCh |-> EmptyMap]

\* The fields of a request.
LEMMA RequestTypes ==
  ASSUME NEW r \in Requests
  PROVE  /\ r.type = "pty-req" => r.term \in Terms
         /\ r.type # "pty-req" => r.type = "env" /\ r.name \in Names /\ r.value \in EnvValues
         /\ r.ok \in BOOLEAN
BY DEF Requests

\* A request leaves a sessionState.
LEMMA DispatchType ==
  ASSUME NEW st \in States, NEW r \in Requests
  PROVE  preSpawnDispatch(st, r) \in States
<1>1. CASE r.type = "pty-req"
  BY <1>1, RequestTypes DEF preSpawnDispatch, handlePtyReq, States
<1>2. CASE r.type # "pty-req"
  <2>1. Assign(st.envFromCh, r.name, r.value) \in Maps(Names, EnvValues)
    BY <1>2, RequestTypes, MapAssign DEF States
  <2> QED
    BY <1>2, <2>1 DEF preSpawnDispatch, handleEnv, States
<1> QED
  BY <1>1, <1>2

\* The first one is a sessionState.
LEMMA FreshType == Fresh \in States
BY EmptyIsMap DEF Fresh, States

\* Received goes through the requests in order, one preSpawnDispatch for each.
LEMMA ReceivedLoop ==
  ASSUME NEW reqs \in Seq(Requests)
  PROVE  \E got \in [0 .. Len(reqs) -> States] :
           /\ got[0] = Fresh /\ got[Len(reqs)] = Received(reqs)
           /\ \A i \in 1 .. Len(reqs) : got[i] = preSpawnDispatch(got[i - 1], reqs[i])
<1> DEFINE n == Len(reqs)
           Eq(g) == g = [i \in 0 .. n |-> IF i = 0 THEN Fresh
                                          ELSE preSpawnDispatch(g[i - 1], reqs[i])]
           got == CHOOSE g : Eq(g)
           F == [p \in States \X (1 .. n) |-> preSpawnDispatch(p[1], reqs[p[2]])]
<1>1. Received(reqs) = got[n]
  BY Zenon DEF Received, Fresh
<1>2. n \in Nat /\ \A i \in 1 .. n : reqs[i] \in Requests
  OBVIOUS
<1>3. F \in [States \X (1 .. n) -> States]
  BY <1>2, DispatchType
<1> HIDE DEF n
<1>4. PICK g \in [0 .. n -> States] : Loop(g, n, Fresh, F)
  <2> HIDE DEF F
  <2> QED
    BY <1>2, <1>3, FreshType, LoopExists, Zenon
<1>5. g[0] = Fresh /\ \A i \in 1 .. n : g[i] = preSpawnDispatch(g[i - 1], reqs[i])
  <2>1. ASSUME NEW i \in 1 .. n PROVE F[<<g[i - 1], i>>] = preSpawnDispatch(g[i - 1], reqs[i])
    <3>1. g[i - 1] \in States
      BY <1>2
    <3> QED
      BY <3>1
  <2> QED
    BY <1>4, <2>1 DEF Loop
<1>6. Eq(g)
  BY <1>2, <1>5
<1>7. Eq(got)
  BY <1>6, Zenon
<1> HIDE DEF got
<1>8. got[0] = Fresh /\ \A i \in 1 .. n : got[i] = preSpawnDispatch(got[i - 1], reqs[i])
  BY <1>2, <1>7
<1>9. got \in [0 .. n -> States]
  <2> DEFINE T == {j \in 0 .. n : got[j] \in States}
  <2>1. 0 \in T
    BY <1>2, <1>8, FreshType
  <2>2. \A i \in 1 .. n : i - 1 \in T => i \in T
    BY <1>2, <1>8, DispatchType
  <2> HIDE DEF T
  <2>3. \A i \in 0 .. n : i \in T
    BY <1>2, <2>1, <2>2, UpTo, Zenon
  <2> QED
    BY <1>7, <2>3 DEF T
<1> QED
  BY <1>1, <1>8, <1>9 DEF n

\* filterEnv admits LANG and LC_ with something after it.
LEMMA Filtered ==
  ASSUME NEW k \in Seq(STRING)
  PROVE  filterEnv(k) <=> FromChannel(k)
BY DEF filterEnv, FromChannel

\* The requests among the first i that count, for a name and for the PTY.
AskedBy(reqs, k, i) ==
  {j \in 1 .. i : FromChannel(k) /\ reqs[j].type = "env" /\ reqs[j].ok /\ reqs[j].name = k}
PtyBy(reqs, i) == {j \in 1 .. i : reqs[j].type = "pty-req" /\ reqs[j].ok}

\* Invariants of the loop: the PTY is that of the first request for one, and the
\* stored variables are those asked for, each with the last value.
PtyInv(reqs, i, pty) ==
  IF PtyBy(reqs, i) = {} THEN pty = Nil
  ELSE \E j \in PtyBy(reqs, i) : pty = reqs[j].term /\ \A l \in PtyBy(reqs, i) : j <= l

EnvInv(reqs, i, env) ==
  /\ DOMAIN env = {k \in Names : AskedBy(reqs, k, i) # {}}
  /\ \A k \in DOMAIN env : \E j \in AskedBy(reqs, k, i) :
       env[k] = reqs[j].value /\ \A l \in AskedBy(reqs, k, i) : l <= j

\* preSpawnDispatch keeps them.
LEMMA DispatchInv ==
  ASSUME NEW reqs \in Seq(Requests), NEW i \in 1 .. Len(reqs), NEW st \in States,
         PtyInv(reqs, i - 1, st.pty), EnvInv(reqs, i - 1, st.envFromCh),
         NEW after, after = preSpawnDispatch(st, reqs[i])
  PROVE  PtyInv(reqs, i, after.pty) /\ EnvInv(reqs, i, after.envFromCh)
<1> DEFINE r == reqs[i]
<1>0. r \in Requests /\ r = reqs[i] /\ 1 .. i = 1 .. (i - 1) \cup {i} /\ i - 1 \in Nat /\ i \in Int
      /\ \A j \in 1 .. (i - 1) : j < i
  OBVIOUS
<1>1. PtyBy(reqs, i) = PtyBy(reqs, i - 1)
                         \cup (IF r.type = "pty-req" /\ r.ok THEN {i} ELSE {})
  BY <1>0 DEF PtyBy
<1>2. \A k : AskedBy(reqs, k, i) =
        AskedBy(reqs, k, i - 1)
          \cup (IF FromChannel(k) /\ r.type = "env" /\ r.ok /\ r.name = k THEN {i} ELSE {})
  BY <1>0 DEF AskedBy
<1>3. \A j \in PtyBy(reqs, i - 1) : j < i
  BY <1>0 DEF PtyBy
<1>4. \A k : \A j \in AskedBy(reqs, k, i - 1) : j \in Int /\ j < i
  BY <1>0 DEF AskedBy
<1> HIDE DEF r
<1>5. CASE r.type = "pty-req"
  <2>1. after = handlePtyReq(st, r)
    BY <1>5 DEF preSpawnDispatch, r
  <2>2. after.envFromCh = st.envFromCh
        /\ after.pty = IF st.pty = Nil /\ r.ok THEN r.term ELSE st.pty
    BY <2>1 DEF handlePtyReq, States
  <2>3. \A k : AskedBy(reqs, k, i) = AskedBy(reqs, k, i - 1)
    BY <1>2, <1>5
  <2>4. EnvInv(reqs, i, after.envFromCh)
    BY <2>2, <2>3 DEF EnvInv
  <2>5. PtyInv(reqs, i, after.pty)
    <3>1. CASE PtyBy(reqs, i - 1) = {}
      <4>1. st.pty = Nil
        BY <3>1 DEF PtyInv
      <4>2. CASE r.ok
        <5>1. PtyBy(reqs, i) = {i} /\ after.pty = r.term
          BY <1>1, <1>5, <2>2, <3>1, <4>1, <4>2
        <5> QED
          BY <1>0, <5>1 DEF PtyInv, r
      <4>3. CASE ~r.ok
        <5>1. PtyBy(reqs, i) = {} /\ after.pty = Nil
          BY <1>1, <2>2, <3>1, <4>1, <4>3
        <5> QED
          BY <5>1 DEF PtyInv
      <4> QED
        BY <4>2, <4>3
    <3>2. CASE PtyBy(reqs, i - 1) # {}
      <4>1. PICK j \in PtyBy(reqs, i - 1) :
              st.pty = reqs[j].term /\ \A l \in PtyBy(reqs, i - 1) : j <= l
        BY <3>2 DEF PtyInv
      <4>2. reqs[j] \in Requests /\ reqs[j].type = "pty-req" /\ j \in Int
        BY DEF PtyBy
      <4>3. st.pty # Nil
        BY <4>1, <4>2, RequestTypes, ChildAssumption
      <4>4. after.pty = reqs[j].term /\ j \in PtyBy(reqs, i)
        BY <1>1, <2>2, <4>1, <4>3
      <4>5. \A l \in PtyBy(reqs, i) : j <= l
        BY <1>0, <1>1, <1>3, <4>1, <4>2
      <4> QED
        BY <4>4, <4>5 DEF PtyInv
    <3> QED
      BY <3>1, <3>2
  <2> QED
    BY <2>4, <2>5
<1>6. CASE r.type # "pty-req"
  <2>1. after = handleEnv(st, r)
    BY <1>6 DEF preSpawnDispatch, r
  <2>2. after.pty = st.pty
        /\ after.envFromCh = IF r.ok /\ filterEnv(r.name)
                             THEN Assign(st.envFromCh, r.name, r.value) ELSE st.envFromCh
    BY <2>1 DEF handleEnv, States
  <2>3. PtyInv(reqs, i, after.pty)
    BY <1>1, <1>6, <2>2 DEF PtyInv
  <2>4. EnvInv(reqs, i, after.envFromCh)
    <3> DEFINE m == st.envFromCh
    <3>0. r.type = "env" /\ r.name \in Names /\ r.value \in EnvValues
      BY <1>0, <1>6, RequestTypes DEF r
    <3>1. r.name \in Seq(STRING)
      BY <3>0, ChildAssumption
    <3>2. filterEnv(r.name) <=> FromChannel(r.name)
      BY <3>1, Filtered
    <3>3. CASE r.ok /\ FromChannel(r.name)
      <4> DEFINE k0 == r.name
                 a == after.envFromCh
      <4>1. m \in Maps(Names, EnvValues) /\ a = Assign(m, k0, r.value)
        BY <2>2, <3>2, <3>3 DEF States
      <4>2. /\ DOMAIN a = DOMAIN m \cup {k0}
            /\ a[k0] = r.value /\ \A x \in DOMAIN m : x # k0 => a[x] = m[x]
        <5> HIDE DEF a, m, k0
        <5>1. k0 \in Names
          BY <3>0 DEF k0
        <5> DEFINE v0 == r.value
        <5>2. v0 \in EnvValues /\ m \in Maps(Names, EnvValues) /\ a = Assign(m, k0, v0)
          BY <3>0, <4>1
        <5> HIDE DEF v0
        <5>3. /\ DOMAIN Assign(m, k0, v0) = DOMAIN m \cup {k0}
              /\ Assign(m, k0, v0)[k0] = v0
              /\ \A x \in DOMAIN m : x # k0 => Assign(m, k0, v0)[x] = m[x]
          BY DEF Assign
        <5> QED
          BY <5>2, <5>3 DEF v0
      <4>3. AskedBy(reqs, k0, i) = AskedBy(reqs, k0, i - 1) \cup {i}
        BY <1>2, <3>0, <3>3
      <4>4. \A k : k # k0 => AskedBy(reqs, k, i) = AskedBy(reqs, k, i - 1)
        BY <1>2
      <4> HIDE DEF a, m, k0
      <4>5. DOMAIN a = {k \in Names : AskedBy(reqs, k, i) # {}}
        BY <3>0, <4>2, <4>3, <4>4 DEF EnvInv, m, k0
      <4>6. ASSUME NEW k \in DOMAIN a
            PROVE  \E j \in AskedBy(reqs, k, i) :
                     a[k] = reqs[j].value /\ \A l \in AskedBy(reqs, k, i) : l <= j
        <5>1. CASE k = k0
          <6>1. a[k] = reqs[i].value /\ i \in AskedBy(reqs, k, i)
            BY <4>2, <4>3, <5>1 DEF r
          <6>2. \A l \in AskedBy(reqs, k, i) : l <= i
            BY <1>0, <1>4, <4>3, <5>1
          <6> QED
            BY <6>1, <6>2
        <5>2. CASE k # k0
          <6>1. k \in DOMAIN m /\ a[k] = m[k]
            BY <4>2, <5>2
          <6>2. AskedBy(reqs, k, i) = AskedBy(reqs, k, i - 1)
            BY <4>4, <5>2
          <6> QED
            BY <6>1, <6>2 DEF EnvInv, m
        <5> QED
          BY <5>1, <5>2
      <4> QED
        BY <4>5, <4>6 DEF EnvInv, a
    <3>4. CASE ~(r.ok /\ FromChannel(r.name))
      <4>1. after.envFromCh = m
        BY <2>2, <3>2, <3>4
      <4>2. \A k : AskedBy(reqs, k, i) = AskedBy(reqs, k, i - 1)
        BY <1>2, <3>4
      <4> QED
        BY <4>1, <4>2 DEF EnvInv
    <3> QED
      BY <3>3, <3>4
  <2> QED
    BY <2>3, <2>4
<1> QED
  BY <1>5, <1>6

\* Min, of a set that has a smallest element.
LEMMA MinOf == ASSUME NEW S \in SUBSET Int, NEW m \in S, \A x \in S : m <= x PROVE Min(S) = m
<1>1. \A x \in S : (\A y \in S : x <= y) => x = m
  OBVIOUS
<1>2. \E x \in S : \A y \in S : x <= y
  OBVIOUS
<1> DEFINE P(x) == \A y \in S : x <= y
<1>4. Min(S) = CHOOSE x \in S : P(x)
  BY DEF Min
<1>5. Min(S) \in S /\ P(Min(S))
  BY <1>2, <1>4, Zenon
<1> QED
  BY <1>1, <1>5, Zenon

\* So they hold of what the requests leave.
LEMMA ReceivedInv ==
  ASSUME NEW reqs \in Seq(Requests), NEW st, st = Received(reqs)
  PROVE  /\ st \in States
         /\ PtyInv(reqs, Len(reqs), st.pty) /\ EnvInv(reqs, Len(reqs), st.envFromCh)
<1> DEFINE n == Len(reqs)
<1>1. PICK got \in [0 .. n -> States] :
        /\ got[0] = Fresh /\ got[n] = st
        /\ \A i \in 1 .. n : got[i] = preSpawnDispatch(got[i - 1], reqs[i])
  BY ReceivedLoop
<1> DEFINE T == {i \in 0 .. n : PtyInv(reqs, i, got[i].pty) /\ EnvInv(reqs, i, got[i].envFromCh)}
<1>2. n \in Nat
  OBVIOUS
<1>3. 0 \in T
  <2>1. PtyBy(reqs, 0) = {} /\ \A k : AskedBy(reqs, k, 0) = {}
    BY DEF PtyBy, AskedBy
  <2>2. got[0].pty = Nil /\ got[0].envFromCh = EmptyMap
    BY <1>1 DEF Fresh
  <2>3. DOMAIN EmptyMap = {}
    BY DEF EmptyMap
  <2> QED
    BY <1>2, <2>1, <2>2, <2>3 DEF PtyInv, EnvInv
<1>4. ASSUME NEW i \in 1 .. n, i - 1 \in T PROVE i \in T
  <2>1. got[i - 1] \in States /\ i \in 0 .. n
    BY <1>2
  <2>2. got[i] = preSpawnDispatch(got[i - 1], reqs[i])
    BY <1>1
  <2>3. PtyInv(reqs, i, got[i].pty) /\ EnvInv(reqs, i, got[i].envFromCh)
    BY <1>4, <2>1, <2>2, DispatchInv
  <2> QED
    BY <2>1, <2>3
<1> HIDE DEF T
<1>5. n \in T
  <2>1. \A i \in 1 .. n : i - 1 \in T => i \in T
    BY <1>4
  <2> HIDE DEF n
  <2>2. \A i \in 0 .. n : i \in T
    BY <1>2, <1>3, <2>1, UpTo, Zenon
  <2> QED
    BY <1>2, <2>2
<1> QED
  BY <1>1, <1>2, <1>5 DEF T

-----------------------------------------------------------------------------
(***************************************************************************)
(* The host's environment (buildEnv).                                      *)
(***************************************************************************)
\* indexEqual gives the first "=".
LEMMA IndexEqual ==
  ASSUME NEW kv \in Seq(STRING), NEW e, e = indexEqual(kv)
  PROVE  /\ e \in 0 .. Len(kv)
         /\ e = 0 => \A i \in 1 .. Len(kv) : kv[i] # "="
         /\ e # 0 => kv[e] = "=" /\ \A i \in 1 .. (e - 1) : kv[i] # "="
<1> DEFINE n == Len(kv)
           at == {i \in 1 .. n : kv[i] = "="}
<1>1. DOMAIN kv = 1 .. n /\ n \in Nat
  OBVIOUS
<1>2. e = IF at = {} THEN 0 ELSE Min(at)
  BY <1>1 DEF indexEqual
<1>3. CASE at = {}
  BY <1>1, <1>2, <1>3
<1>4. CASE at # {}
  <2>1. at \in SUBSET Nat /\ at \in SUBSET Int
    OBVIOUS
  <2> HIDE DEF at
  <2>2. PICK m \in at : \A x \in at : m <= x
    BY <1>4, <2>1, NatMin, Zenon
  <2>3. e = m
    BY <1>2, <1>4, <2>1, <2>2, MinOf
  <2>4. m \in 1 .. n /\ kv[m] = "=" /\ \A i \in 1 .. n : kv[i] = "=" => m <= i
    BY <2>2 DEF at
  <2> QED
    BY <1>1, <2>3, <2>4
<1> QED
  BY <1>3, <1>4

\* A line begins with k and c, and c is not in k, exactly when k is what stands
\* before the first c.
LEMMA LineNamed ==
  ASSUME NEW S, NEW k \in Seq(S), Len(k) > 0, NEW kv \in Seq(S), NEW c, NEW e \in 0 .. Len(kv),
         e = 0 => \A i \in 1 .. Len(kv) : kv[i] # c,
         e # 0 => kv[e] = c /\ \A i \in 1 .. (e - 1) : kv[i] # c
  PROVE  c \notin Range(k) /\ Len(k) < Len(kv) /\ SubSeq(kv, 1, Len(k) + 1) = Append(k, c)
           <=> e > 1 /\ k = SubSeq(kv, 1, e - 1)
<1> DEFINE n == Len(k)
           P == S \cup {c}
           p == Append(k, c)
           Begins == n < Len(kv) /\ SubSeq(kv, 1, n + 1) = p
<1>1. n \in Nat /\ n > 0 /\ k \in Seq(P) /\ kv \in Seq(P) /\ Len(kv) \in Nat
  OBVIOUS
<1>2. p \in Seq(P) /\ Len(p) = n + 1 /\ p[n + 1] = c /\ \A i \in 1 .. n : p[i] = k[i]
  BY <1>1
<1>3. c \in Range(k) <=> \E i \in 1 .. n : k[i] = c
  BY DEF Range
<1> HIDE DEF p, n
<1>4. ASSUME n < Len(kv)
      PROVE  /\ SubSeq(kv, 1, n + 1) \in Seq(P) /\ Len(SubSeq(kv, 1, n + 1)) = n + 1
             /\ \A i \in 1 .. (n + 1) : SubSeq(kv, 1, n + 1)[i] = kv[i]
  BY <1>1, <1>4
<1>5. Begins <=> n < Len(kv) /\ kv[n + 1] = c /\ \A i \in 1 .. n : k[i] = kv[i]
  <2>1. ASSUME n < Len(kv)
        PROVE  SubSeq(kv, 1, n + 1) = p <=> \A i \in 1 .. (n + 1) : p[i] = kv[i]
    BY <1>1, <1>2, <1>4, <2>1
  <2>2. (\A i \in 1 .. (n + 1) : p[i] = kv[i]) <=> kv[n + 1] = c /\ \A i \in 1 .. n : k[i] = kv[i]
    BY <1>1, <1>2
  <2> QED
    BY <2>1, <2>2
<1> HIDE DEF Begins
<1>6. ASSUME c \notin Range(k), Begins
      PROVE  e > 1 /\ k = SubSeq(kv, 1, e - 1)
  <2>1. \A i \in 1 .. n : kv[i] # c
    BY <1>3, <1>5, <1>6
  <2>2. e = n + 1
    BY <1>1, <1>5, <1>6, <2>1
  <2>3. /\ SubSeq(kv, 1, n) \in Seq(P) /\ Len(SubSeq(kv, 1, n)) = n
        /\ \A i \in 1 .. n : SubSeq(kv, 1, n)[i] = kv[i]
    BY <1>1, <1>5, <1>6
  <2>4. k = SubSeq(kv, 1, n)
    BY <1>1, <1>5, <1>6, <2>3 DEF n
  <2> QED
    BY <1>1, <2>2, <2>4
<1>7. ASSUME e > 1, k = SubSeq(kv, 1, e - 1)
      PROVE  c \notin Range(k) /\ Begins
  <2>1. Len(SubSeq(kv, 1, e - 1)) = e - 1 /\ \A i \in 1 .. (e - 1) : SubSeq(kv, 1, e - 1)[i] = kv[i]
    BY <1>1, <1>7
  <2>2. n = e - 1 /\ \A i \in 1 .. n : k[i] = kv[i]
    BY <1>7, <2>1 DEF n
  <2>3. \A i \in 1 .. n : k[i] # c
    BY <1>7, <2>2
  <2> QED
    BY <1>1, <1>3, <1>5, <1>7, <2>2, <2>3
<1> QED
  BY <1>6, <1>7 DEF Begins, n, p

\* The value that a line has for the name k.
Rest(kv, k) == SubSeq(kv, Len(k) + 2, Len(kv))
\* The maps that buildEnv makes of the lines.
Texts == Seq(STRING)
HostMaps == Maps(Texts, Texts)

\* No name on the list is empty.
LEMMA FromHostNamed ==
  ASSUME NEW k \in Seq(STRING), FromHost(k)
  PROVE  Len(k) > 0
<1>1. \A x : Len(<<x>>) = 1
  OBVIOUS
<1>2. Len(k) = 1 \/ Len(k) > 1
  BY <1>1, Zenon DEF FromHost, FromChannel, Picked
<1>3. Len(k) \in Nat /\ \A n \in Nat : n = 1 \/ n > 1 => n > 0
  OBVIOUS
<1> QED
  BY <1>2, <1>3, Zenon

\* What a line does to the map: it sets the names it gives a value to.
PickStep(env, kv, after) ==
  /\ DOMAIN after = DOMAIN env \cup {k \in Seq(STRING) : Gives(kv, k)}
  /\ \A k \in DOMAIN after : Gives(kv, k) => after[k] = Rest(kv, k)
  /\ \A k \in DOMAIN after : ~Gives(kv, k) => after[k] = env[k]

\* pickLine does just that.
LEMMA PickLine ==
  ASSUME NEW env \in HostMaps, NEW kv \in Seq(STRING), NEW after, after = pickLine(env, kv)
  PROVE  after \in HostMaps /\ PickStep(env, kv, after)
<1> DEFINE e == indexEqual(kv)
           k0 == SubSeq(kv, 1, e - 1)
           v0 == SubSeq(kv, e + 1, Len(kv))
<1>1. /\ e \in 0 .. Len(kv)
      /\ e = 0 => \A i \in 1 .. Len(kv) : kv[i] # "="
      /\ e # 0 => kv[e] = "=" /\ \A i \in 1 .. (e - 1) : kv[i] # "="
  <2> HIDE DEF e
  <2> QED
    BY IndexEqual DEF e
<1>2. after = IF e > 1 /\ (k0 \in Picked \/ filterEnv(k0)) THEN Assign(env, k0, v0) ELSE env
  BY DEF pickLine
<1> HIDE DEF e
<1>3. e > 1 => k0 \in Seq(STRING) /\ v0 \in Seq(STRING) /\ Len(k0) = e - 1
  BY <1>1
<1>4. ASSUME NEW k \in Seq(STRING) PROVE Gives(kv, k) <=> FromHost(k) /\ e > 1 /\ k = k0
  <2>1. FromHost(k) =>
         ("=" \notin Range(k) /\ Len(k) < Len(kv) /\ SubSeq(kv, 1, Len(k) + 1) = Append(k, "=")
            <=> e > 1 /\ k = k0)
    BY <1>1, FromHostNamed, LineNamed
  <2> QED
    BY <2>1 DEF Gives
<1>5. e > 1 => (FromHost(k0) <=> k0 \in Picked \/ filterEnv(k0))
  BY <1>3, Filtered DEF FromHost
<1>6. e > 1 => v0 = Rest(kv, k0)
  <2>1. e > 1 => Len(k0) + 2 = e + 1
    BY <1>1, <1>3
  <2> HIDE DEF k0
  <2> QED
    BY <2>1 DEF Rest
<1> HIDE DEF k0, v0
<1>7. CASE e > 1 /\ FromHost(k0)
  <2>1. k0 \in Seq(STRING) /\ v0 \in Seq(STRING) /\ after = Assign(env, k0, v0)
    BY <1>2, <1>3, <1>5, <1>7
  <2>2. after \in HostMaps
    <3>1. k0 \in Texts /\ v0 \in Texts /\ env \in Maps(Texts, Texts)
      BY <2>1 DEF Texts, HostMaps
    <3>2. Assign(env, k0, v0) \in Maps(Texts, Texts)
      BY <3>1, MapAssign
    <3> QED
      BY <2>1, <3>2 DEF HostMaps
  <2>3. /\ DOMAIN after = DOMAIN env \cup {k0} /\ after[k0] = v0
        /\ \A x \in DOMAIN env : x # k0 => after[x] = env[x]
    BY <2>1 DEF Assign
  <2>4. {k \in Seq(STRING) : Gives(kv, k)} = {k0}
    BY <1>4, <1>7, <2>1
  <2>5. DOMAIN env \subseteq Seq(STRING)
    BY DEF HostMaps, Maps, Texts
  <2>6. \A k \in DOMAIN after : Gives(kv, k) <=> k = k0
    BY <2>3, <2>4, <2>5, <2>1
  <2> QED
    BY <1>6, <1>7, <2>2, <2>3, <2>4, <2>6 DEF PickStep
<1>8. CASE ~(e > 1 /\ FromHost(k0))
  <2>1. after = env
    BY <1>2, <1>5, <1>8
  <2>2. \A k \in Seq(STRING) : ~Gives(kv, k)
    BY <1>4, <1>8
  <2>3. DOMAIN env \subseteq Seq(STRING)
    BY DEF HostMaps, Maps, Texts
  <2> QED
    BY <2>1, <2>2, <2>3 DEF PickStep
<1> QED
  BY <1>7, <1>8

\* picked goes through the lines in order.
LEMMA PickedLoop ==
  ASSUME NEW host \in Seq(Seq(STRING))
  PROVE  \E got \in [0 .. Len(host) -> HostMaps] :
           /\ got[0] = EmptyMap /\ got[Len(host)] = picked(host)
           /\ \A i \in 1 .. Len(host) : got[i] = pickLine(got[i - 1], host[i])
<1> DEFINE n == Len(host)
           Eq(g) == g = [i \in 0 .. n |-> IF i = 0 THEN EmptyMap ELSE pickLine(g[i - 1], host[i])]
           got == CHOOSE g : Eq(g)
           F == [p \in HostMaps \X (1 .. n) |-> pickLine(p[1], host[p[2]])]
<1>0. EmptyMap \in HostMaps
  BY EmptyIsMap DEF HostMaps
<1>1. picked(host) = got[n]
  BY Zenon DEF picked
<1>2. n \in Nat /\ \A i \in 1 .. n : host[i] \in Seq(STRING)
  OBVIOUS
<1>3. F \in [HostMaps \X (1 .. n) -> HostMaps]
  BY <1>2, PickLine
<1> HIDE DEF n
<1>4. PICK g \in [0 .. n -> HostMaps] : Loop(g, n, EmptyMap, F)
  <2> HIDE DEF F
  <2> QED
    BY <1>0, <1>2, <1>3, LoopExists, Zenon
<1>5. g[0] = EmptyMap /\ \A i \in 1 .. n : g[i] = pickLine(g[i - 1], host[i])
  <2>1. ASSUME NEW i \in 1 .. n PROVE F[<<g[i - 1], i>>] = pickLine(g[i - 1], host[i])
    <3>1. g[i - 1] \in HostMaps
      BY <1>2
    <3> QED
      BY <3>1
  <2> QED
    BY <1>4, <2>1 DEF Loop
<1>6. Eq(g)
  BY <1>2, <1>5
<1>7. Eq(got)
  BY <1>6, Zenon
<1> HIDE DEF got
<1>8. got[0] = EmptyMap /\ \A i \in 1 .. n : got[i] = pickLine(got[i - 1], host[i])
  BY <1>2, <1>7
<1>9. got \in [0 .. n -> HostMaps]
  <2> DEFINE T == {j \in 0 .. n : got[j] \in HostMaps}
  <2>1. 0 \in T
    BY <1>0, <1>2, <1>8
  <2>2. ASSUME NEW i \in 1 .. n, i - 1 \in T PROVE i \in T
    <3>1. got[i] = pickLine(got[i - 1], host[i]) /\ got[i - 1] \in HostMaps
      BY <1>2, <1>8, <2>2
    <3>2. got[i] \in HostMaps
      BY <1>2, <3>1, PickLine
    <3> QED
      BY <1>2, <3>2
  <2>3. \A i \in 1 .. n : i - 1 \in T => i \in T
    BY <2>2
  <2> HIDE DEF T
  <2>4. \A i \in 0 .. n : i \in T
    BY <1>2, <2>1, <2>3, UpTo, Zenon
  <2> QED
    BY <1>7, <2>4 DEF T
<1> QED
  BY <1>1, <1>8, <1>9 DEF n

\* The lines among the first i that give k a value.
GivenBy(host, k, i) == {j \in 1 .. i : Gives(host[j], k)}

\* Invariant of the loop: each name has the value of the last line for it.
HostInv(host, i, env) ==
  /\ DOMAIN env = {k \in Seq(STRING) : GivenBy(host, k, i) # {}}
  /\ \A k \in DOMAIN env : \E j \in GivenBy(host, k, i) :
       env[k] = Rest(host[j], k) /\ \A l \in GivenBy(host, k, i) : l <= j

\* pickLine keeps it.
LEMMA PickInv ==
  ASSUME NEW host \in Seq(Seq(STRING)), NEW i \in 1 .. Len(host), NEW env \in HostMaps,
         HostInv(host, i - 1, env), NEW after, after = pickLine(env, host[i])
  PROVE  HostInv(host, i, after)
<1>0. host[i] \in Seq(STRING) /\ i \in Int /\ 1 .. i = 1 .. (i - 1) \cup {i}
      /\ \A j \in 1 .. (i - 1) : j \in Int /\ j < i
  OBVIOUS
<1>1. \A k : GivenBy(host, k, i) =
               GivenBy(host, k, i - 1) \cup (IF Gives(host[i], k) THEN {i} ELSE {})
  BY <1>0 DEF GivenBy
<1>2. \A k : \A j \in GivenBy(host, k, i - 1) : j \in Int /\ j < i
  BY <1>0 DEF GivenBy
<1> DEFINE kv == host[i]
<1> HIDE DEF kv
<1>3. /\ DOMAIN after = DOMAIN env \cup {k \in Seq(STRING) : Gives(kv, k)}
      /\ \A k \in DOMAIN after : Gives(kv, k) => after[k] = Rest(kv, k)
      /\ \A k \in DOMAIN after : ~Gives(kv, k) => after[k] = env[k]
  <2>1. kv \in Seq(STRING) /\ after = pickLine(env, kv)
    BY <1>0 DEF kv
  <2>2. PickStep(env, kv, after)
    BY <2>1, PickLine, Zenon
  <2> QED
    BY <2>2 DEF PickStep
<1>4. DOMAIN after = {k \in Seq(STRING) : GivenBy(host, k, i) # {}}
  BY <1>1, <1>3 DEF HostInv, kv
<1>5. ASSUME NEW k \in DOMAIN after
      PROVE  \E j \in GivenBy(host, k, i) :
               after[k] = Rest(host[j], k) /\ \A l \in GivenBy(host, k, i) : l <= j
  <2>1. CASE Gives(kv, k)
    <3>1. after[k] = Rest(host[i], k) /\ i \in GivenBy(host, k, i)
      BY <1>1, <1>3, <2>1 DEF kv
    <3>2. \A l \in GivenBy(host, k, i) : l <= i
      BY <1>0, <1>1, <1>2
    <3> QED
      BY <3>1, <3>2
  <2>2. CASE ~Gives(kv, k)
    <3>1. k \in DOMAIN env /\ after[k] = env[k]
      BY <1>3, <2>2
    <3>2. GivenBy(host, k, i) = GivenBy(host, k, i - 1)
      BY <1>1, <2>2 DEF kv
    <3> QED
      BY <3>1, <3>2 DEF HostInv
  <2> QED
    BY <2>1, <2>2
<1> QED
  BY <1>4, <1>5 DEF HostInv

\* So it holds of what the host contributes.
LEMMA PickedInv ==
  ASSUME NEW host \in Seq(Seq(STRING)), NEW env, env = picked(host)
  PROVE  env \in HostMaps /\ HostInv(host, Len(host), env)
<1> DEFINE n == Len(host)
<1>1. PICK got \in [0 .. n -> HostMaps] :
        /\ got[0] = EmptyMap /\ got[n] = env
        /\ \A i \in 1 .. n : got[i] = pickLine(got[i - 1], host[i])
  BY PickedLoop
<1> DEFINE T == {i \in 0 .. n : HostInv(host, i, got[i])}
<1>2. n \in Nat
  OBVIOUS
<1>3. 0 \in T
  <2>1. \A k : GivenBy(host, k, 0) = {}
    BY DEF GivenBy
  <2>2. DOMAIN got[0] = {}
    BY <1>1 DEF EmptyMap
  <2> QED
    BY <1>2, <2>1, <2>2 DEF HostInv
<1>4. ASSUME NEW i \in 1 .. n, i - 1 \in T PROVE i \in T
  <2>1. got[i - 1] \in HostMaps /\ i \in 0 .. n
    BY <1>2
  <2>2. got[i] = pickLine(got[i - 1], host[i])
    BY <1>1
  <2>3. HostInv(host, i, got[i])
    BY <1>4, <2>1, <2>2, PickInv
  <2> QED
    BY <2>1, <2>3
<1> HIDE DEF T
<1>5. n \in T
  <2>1. \A i \in 1 .. n : i - 1 \in T => i \in T
    BY <1>4
  <2> HIDE DEF n
  <2>2. \A i \in 0 .. n : i \in T
    BY <1>2, <1>3, <2>1, UpTo, Zenon
  <2> QED
    BY <1>2, <2>2
<1> QED
  BY <1>1, <1>2, <1>5 DEF T

-----------------------------------------------------------------------------
(***************************************************************************)
(* The child's environment and command line.                               *)
(***************************************************************************)
\* TERM is that of the first PTY.
LEMMA TermFromPty ==
  ASSUME NEW reqs \in Seq(Requests), NEW pty, PtyInv(reqs, Len(reqs), pty),
         NEW P, P = PtyBy(reqs, Len(reqs))
  PROVE  /\ pty = Nil <=> P = {}
         /\ P # {} => pty = reqs[Min(P)].term
<1>1. CASE P = {}
  BY <1>1 DEF PtyInv
<1>2. CASE P # {}
  <2>1. PICK j \in P : pty = reqs[j].term /\ \A l \in P : j <= l
    BY <1>2 DEF PtyInv
  <2>2. reqs[j] \in Requests /\ reqs[j].type = "pty-req" /\ P \in SUBSET Int
    BY DEF PtyBy
  <2>3. Min(P) = j
    BY <2>1, <2>2, MinOf
  <2>4. pty # Nil
    BY <2>1, <2>2, RequestTypes, ChildAssumption
  <2> QED
    BY <1>2, <2>1, <2>3, <2>4
<1> QED
  BY <1>1, <1>2

\* A variable from the channel has the last value asked for.
LEMMA LastAsked ==
  ASSUME NEW reqs \in Seq(Requests), NEW env, EnvInv(reqs, Len(reqs), env), NEW k \in DOMAIN env
  PROVE  env[k] = reqs[Max(AskedBy(reqs, k, Len(reqs)))].value
<1> DEFINE A == AskedBy(reqs, k, Len(reqs))
<1>1. PICK j \in A : env[k] = reqs[j].value /\ \A l \in A : l <= j
  BY DEF EnvInv
<1>2. A \in SUBSET Int
  BY DEF AskedBy
<1>3. Max(A) = j
  <2> HIDE DEF A
  <2> QED
    BY <1>1, <1>2, MaxOf
<1> QED
  BY <1>1, <1>3

\* A variable from the host has the value of the last line for it.
LEMMA LastGiven ==
  ASSUME NEW host \in Seq(Seq(STRING)), NEW env, HostInv(host, Len(host), env), NEW k \in DOMAIN env
  PROVE  env[k] = Rest(host[Max(GivenBy(host, k, Len(host)))], k)
<1> DEFINE A == GivenBy(host, k, Len(host))
<1>1. PICK j \in A : env[k] = Rest(host[j], k) /\ \A l \in A : l <= j
  BY DEF HostInv
<1>2. A \in SUBSET Int
  BY DEF GivenBy
<1>3. Max(A) = j
  <2> HIDE DEF A
  <2> QED
    BY <1>1, <1>2, MaxOf
<1> QED
  BY <1>1, <1>3

\* A name that a line gives a value to is the beginning of that line.
LEMMA GivenIsVariable ==
  ASSUME NEW kv \in HostLines, NEW k \in Seq(STRING), Gives(kv, k)
  PROVE  k \in Variables
<1> DEFINE e == indexEqual(kv)
<1>0. kv \in Seq(STRING)
  BY ChildAssumption
<1>1. /\ e \in 0 .. Len(kv)
      /\ e = 0 => \A i \in 1 .. Len(kv) : kv[i] # "="
      /\ e # 0 => kv[e] = "=" /\ \A i \in 1 .. (e - 1) : kv[i] # "="
  <2> HIDE DEF e
  <2> QED
    BY <1>0, IndexEqual DEF e
<1> HIDE DEF e
<1>2. Len(k) > 0
  BY FromHostNamed DEF Gives
<1>3. e > 1 /\ k = SubSeq(kv, 1, e - 1)
  BY <1>0, <1>1, <1>2, LineNamed DEF Gives
<1>4. e - 1 \in DOMAIN kv
  BY <1>0, <1>1, <1>3
<1> QED
  BY <1>3, <1>4 DEF Variables

\* Variables are sequences of pieces.
LEMMA VariablesAreTexts == Variables \subseteq Seq(STRING)
<1>1. ASSUME NEW kv \in HostLines, NEW i \in DOMAIN kv PROVE SubSeq(kv, 1, i) \in Seq(STRING)
  BY ChildAssumption
<1>2. ASSUME NEW k \in Variables, k \notin Names PROVE k \in Seq(STRING)
  <2>1. PICK kv \in HostLines : \E i \in DOMAIN kv : k = SubSeq(kv, 1, i)
    BY <1>2, Zenon DEF Variables
  <2> QED
    BY <1>1, <2>1
<1> QED
  BY <1>2, ChildAssumption

\* Neither the host nor the channel may set TERM.
LEMMA TermNotOnList == ~FromHost(<<"TERM">>)
BY DEF FromHost, FromChannel, Picked

\* The environment that ChildPrepared asks for.
EnvIs(env, reqs, host, term) ==
  /\ DOMAIN env =
       {k \in Variables : AskedBy(reqs, k, Len(reqs)) \cup GivenBy(host, k, Len(host)) # {}}
         \cup (IF term = <<>> THEN {} ELSE {<<"TERM">>})
  /\ \A k \in DOMAIN env :
       /\ k = <<"TERM">> => env[k] = term
       /\ k # <<"TERM">> /\ AskedBy(reqs, k, Len(reqs)) # {} =>
            env[k] = reqs[Max(AskedBy(reqs, k, Len(reqs)))].value
       /\ k # <<"TERM">> /\ AskedBy(reqs, k, Len(reqs)) = {} =>
            env[k] = Rest(host[Max(GivenBy(host, k, Len(host)))], k)

\* buildEnv makes it: the host's variables on the list, the channel's last value
\* over them, and TERM from the first PTY that was allocated.
THEOREM EnvBuilt ==
  ASSUME NEW reqs \in Seq(Requests), NEW host \in Seq(HostLines),
         NEW st, st = Received(reqs), NEW env, env = buildEnv(st, host),
         NEW P, P = PtyBy(reqs, Len(reqs)),
         NEW term, term = IF P = {} THEN <<>> ELSE reqs[Min(P)].term
  PROVE  EnvIs(env, reqs, host, term)
<1> DEFINE asked(k) == AskedBy(reqs, k, Len(reqs))
           given(k) == GivenBy(host, k, Len(host))
           ch == st.envFromCh
           pk == picked(host)
           both == [k \in DOMAIN pk \cup DOMAIN ch |-> IF k \in DOMAIN ch THEN ch[k] ELSE pk[k]]
<1>0. host \in Seq(Seq(STRING)) /\ \A i \in 1 .. Len(host) : host[i] \in HostLines
  BY ChildAssumption
<1>1. PtyInv(reqs, Len(reqs), st.pty) /\ EnvInv(reqs, Len(reqs), ch)
  BY ReceivedInv
<1>2. HostInv(host, Len(host), pk)
  BY <1>0, PickedInv
<1>3. /\ st.pty = Nil <=> P = {}
      /\ P # {} => st.pty = reqs[Min(P)].term
  BY <1>1, TermFromPty
<1>4. env = IF st.pty # Nil /\ st.pty # <<>> THEN Assign(both, <<"TERM">>, st.pty) ELSE both
  BY DEF buildEnv
<1>5. \A k \in DOMAIN ch : ch[k] = reqs[Max(asked(k))].value
  <2> HIDE DEF ch
  <2> QED
    BY <1>1, LastAsked
<1>6. \A k \in DOMAIN pk : pk[k] = Rest(host[Max(given(k))], k)
  <2> HIDE DEF pk
  <2> QED
    BY <1>0, <1>2, LastGiven
<1> HIDE DEF pk, ch
<1>7. DOMAIN ch = {k \in Names : asked(k) # {}} /\ DOMAIN pk = {k \in Seq(STRING) : given(k) # {}}
  BY <1>1, <1>2 DEF EnvInv, HostInv
<1>8. ASSUME NEW k \in Seq(STRING), given(k) # {} PROVE k \in Variables /\ FromHost(k)
  <2>1. PICK j \in 1 .. Len(host) : Gives(host[j], k)
    BY <1>8 DEF GivenBy
  <2> QED
    BY <1>0, <2>1, GivenIsVariable DEF Gives
<1>9. \A k : asked(k) # {} => k \in Names /\ FromHost(k)
  <2> SUFFICES ASSUME NEW k, asked(k) # {} PROVE k \in Names /\ FromHost(k)
    OBVIOUS
  <2>1. PICK j \in 1 .. Len(reqs) : FromChannel(k) /\ reqs[j].type = "env" /\ reqs[j].name = k
    BY DEF AskedBy
  <2>2. reqs[j] \in Requests
    OBVIOUS
  <2> QED
    BY <2>1, <2>2, RequestTypes DEF FromHost
<1> HIDE DEF asked, given
<1>10. DOMAIN both = {k \in Variables : asked(k) \cup given(k) # {}}
  <2>1. DOMAIN both = DOMAIN pk \cup DOMAIN ch
    OBVIOUS
  <2>2. Names \subseteq Variables
    BY DEF Variables
  <2> HIDE DEF both
  <2> QED
    BY <1>7, <1>8, <1>9, <2>1, <2>2, VariablesAreTexts
<1>11. <<"TERM">> \notin DOMAIN both
  <2> DEFINE T == <<"TERM">>
  <2> HIDE DEF both, T
  <2>1. T \in Variables /\ asked(T) \cup given(T) # {} => FromHost(T)
    BY <1>8, <1>9, VariablesAreTexts
  <2>2. ~FromHost(T)
    BY TermNotOnList DEF T
  <2>3. T \notin DOMAIN both
    BY <1>10, <2>1, <2>2
  <2> QED
    BY <2>3 DEF T
<1>12. ASSUME NEW k \in DOMAIN both
       PROVE  /\ asked(k) # {} => both[k] = reqs[Max(asked(k))].value
              /\ asked(k) = {} => both[k] = Rest(host[Max(given(k))], k)
  <2>1. CASE asked(k) # {}
    <3>1. k \in DOMAIN ch
      BY <1>7, <1>9, <2>1
    <3> QED
      BY <1>5, <2>1, <3>1
  <2>2. CASE asked(k) = {}
    <3>1. k \notin DOMAIN ch
      BY <1>7, <2>2
    <3>2. k \in DOMAIN pk
      BY <3>1
    <3> QED
      BY <1>6, <2>2, <3>1, <3>2
  <2> QED
    BY <2>1, <2>2
<1> HIDE DEF both
<1>13. CASE term = <<>>
  <2>1. env = both
    BY <1>3, <1>4, <1>13
  <2> QED
    BY <1>10, <1>11, <1>12, <1>13, <2>1 DEF asked, given, EnvIs
<1>14. CASE term # <<>>
  <2> DEFINE T == <<"TERM">>
  <2>1. P # {} /\ st.pty = term
    BY <1>3, <1>14
  <2>2. env = Assign(both, T, term)
    BY <1>3, <1>4, <1>14, <2>1
  <2> HIDE DEF T
  <2>3. /\ DOMAIN env = DOMAIN both \cup {T} /\ env[T] = term
        /\ \A x \in DOMAIN both : x # T => env[x] = both[x]
    BY <2>2 DEF Assign
  <2> QED
    BY <1>10, <1>12, <1>14, <2>3 DEF asked, given, T, EnvIs
<1> QED
  BY <1>13, <1>14

=============================================================================
