--------------------------- MODULE FramingProofs ---------------------------
(***************************************************************************)
(* Proofs about Framing, for any messages, limits and numbers of messages. *)
(***************************************************************************)
EXTENDS Framing, SequenceTheorems, TLAPS

Bytes == 0..255

\* A length a body can have is written as four bytes, the first of them positive.
LEMMA EncodeType ==
  ASSUME NEW n \in Nat, n <= MaxInt32
  PROVE  /\ Encode(n) \in Seq(Bytes) /\ Len(Encode(n)) = HeaderBytes
         /\ Encode(n)[1] \in 0..127
         /\ \A j \in 1..HeaderBytes : Encode(n)[j] \in Bytes
<1> DEFINE a == n \div 16777216
           b == (n \div 65536) % 256
           c == (n \div 256) % 256
           d == n % 256
<1>1. a \in 0..127 /\ b \in Bytes /\ c \in Bytes /\ d \in Bytes
  BY SMT DEF Bytes, MaxInt32
<1>2. Encode(n) = <<a, b, c, d>>
  BY SMT DEF Encode
<1> HIDE DEF a, b, c, d
<1> QED BY <1>1, <1>2 DEF Bytes, HeaderBytes

\* What the reader decodes is the length that was encoded.
LEMMA DecodeEncode ==
  ASSUME NEW n \in Nat, n <= MaxInt32
  PROVE  Decode(Encode(n)) = n
<1> DEFINE a == n \div 16777216
           b == n \div 65536
           c == n \div 256
<1>1. n = 256 * c + (n % 256) /\ c \in Nat
  BY SMT
<1>2. c = 256 * b + (c % 256) /\ b \in Nat
  <2>1. b = c \div 256
    BY SMT
  <2> QED BY <1>1, <2>1, SMT
<1>3. b = 256 * a + (b % 256) /\ a \in 0..127
  <2>1. a = b \div 256
    BY SMT
  <2> QED BY <1>2, <2>1, SMT DEF MaxInt32
<1>4. Encode(n) = <<a, b % 256, c % 256, n % 256>>
  BY SMT DEF Encode
<1> HIDE DEF a, b, c
<1>5. Decode(Encode(n)) = a * 16777216 + (b % 256) * 65536 + (c % 256) * 256 + (n % 256)
  BY <1>3, <1>4, SMT DEF Decode, Signed
<1> QED BY <1>1, <1>2, <1>3, <1>5, SMT
-----------------------------------------------------------------------------
(***************************************************************************)
(* The invariant: where each message lies on the wire, what is written     *)
(* there, and which place of it the reader has reached.                    *)
(***************************************************************************)
Laid == /\ starts[1] = 0
        /\ \A i \in 1..Len(sent) : starts[i + 1] = starts[i] + HeaderBytes + Len(sent[i])
        /\ \A i \in 1..Len(sent) + 1 : starts[i] <= starts[Len(sent) + 1]
        /\ Len(wire) <= starts[Len(sent) + 1]
        /\ ~closed => Len(wire) = starts[Len(sent) + 1]

HeaderWritten(i) == \A j \in 1..HeaderBytes :
    starts[i] + j <= Len(wire) => wire[starts[i] + j] = Encode(Len(sent[i]))[j]

BodyWritten(i) == \A j \in 1..Len(sent[i]) :
    starts[i] + HeaderBytes + j <= Len(wire) => wire[starts[i] + HeaderBytes + j] = sent[i][j]

Written == \A i \in 1..Len(sent) : HeaderWritten(i) /\ BodyWritten(i)

\* The message that is being read, or will be.
Current == Len(received) + 1

Collected == \A j \in 1..Len(buffer) : buffer[j] = wire[taken - Len(buffer) + j]

InHeader == /\ want = HeaderBytes
            /\ taken = starts[Current] + Len(buffer)
            /\ Collected

InBody == /\ Current <= Len(sent)
          /\ want = Len(sent[Current])
          /\ taken = starts[Current] + HeaderBytes + Len(buffer)
          /\ Collected

InPlace == /\ Current <= Len(sent) + 1
           /\ phase = "header" => InHeader
           /\ phase = "body" => InBody

FInv == TypeOK /\ Laid /\ Written /\ InPlace /\ RefusesOnlyOversized

LEMMA FInvInit == Init => FInv
<1> SUFFICES ASSUME Init PROVE FInv
    OBVIOUS
<1>1. TypeOK
  <2>1. <<>> \in Seq(0..255) /\ <<>> \in Seq(Messages) /\ Len(<<>>) = 0
    BY EmptySeq
  <2>2. <<0>> \in Seq(Nat) /\ Len(<<0>>) = 1
    OBVIOUS
  <2>3. /\ wire \in Seq(0..255) /\ Len(wire) = 0 /\ buffer \in Seq(0..255) /\ Len(buffer) = 0
        /\ sent \in Seq(Messages) /\ Len(sent) = 0 /\ received \in Seq(Messages)
        /\ starts \in Seq(Nat) /\ Len(starts) = 1
    BY <2>1, <2>2 DEF Init
  <2>4. taken = 0 /\ want \in Nat /\ 0 <= want
    BY DEF Init, HeaderBytes
  <2>5. closed \in BOOLEAN /\ phase \in {"header", "body", "refused", "ended", "cancelled"}
    BY Zenon DEF Init
  <2> QED BY <2>3, <2>4, <2>5 DEF TypeOK
<1>2. Laid /\ Written
  BY DEF Init, Laid, Written
<1>3. InPlace /\ RefusesOnlyOversized
  BY DEF Init, InPlace, Current, InHeader, Collected, RefusesOnlyOversized
<1> QED BY <1>1, <1>2, <1>3 DEF FInv

\* A body is bytes, and its length has an encoding.
LEMMA MessageType ==
  ASSUME NEW m \in Messages
  PROVE  /\ m \in Seq(Bytes) /\ Len(m) \in Nat \ {0} /\ Len(m) <= MaxInt32
         /\ Encode(Len(m)) \in Seq(Bytes) /\ Len(Encode(Len(m))) = HeaderBytes
<1>1. m \in Seq(Bytes) /\ m # <<>> /\ Len(m) <= MaxInt32
  BY FramingAssumption DEF FramingAssumption, Bytes
<1>2. Len(m) \in Nat \ {0}
  BY <1>1, EmptySeq
<1> QED BY <1>1, <1>2, EncodeType

\* What a message adds to the wire, and where.
LEMMA Appended ==
  ASSUME TypeOK, NEW m \in Messages, WriteMessage(m)
  PROVE  /\ wire' \in Seq(Bytes)
         /\ Len(wire') = Len(wire) + HeaderBytes + Len(m)
         /\ \A i \in 1..Len(wire) : wire'[i] = wire[i]
         /\ \A j \in 1..HeaderBytes : wire'[Len(wire) + j] = Encode(Len(m))[j]
         /\ \A j \in 1..Len(m) : wire'[Len(wire) + HeaderBytes + j] = m[j]
         /\ Len(sent') = Len(sent) + 1 /\ sent' \in Seq(Messages)
         /\ \A i \in 1..Len(sent) : sent'[i] = sent[i]
         /\ sent'[Len(sent) + 1] = m
         /\ Len(starts') = Len(starts) + 1 /\ starts' \in Seq(Nat)
         /\ \A i \in 1..Len(starts) : starts'[i] = starts[i]
         /\ starts'[Len(starts) + 1] = Len(wire')
<1> DEFINE e == Encode(Len(m))
           f == e \o m
<1>1. m \in Seq(Bytes) /\ Len(m) \in Nat /\ e \in Seq(Bytes) /\ Len(e) = 4
  BY MessageType DEF HeaderBytes
<1>2. wire \in Seq(Bytes) /\ Len(wire) \in Nat /\ sent \in Seq(Messages) /\ starts \in Seq(Nat)
  BY LenProperties DEF TypeOK, Bytes
<1>3. wire' = wire \o f /\ sent' = Append(sent, m) /\ starts' = Append(starts, Len(wire'))
  BY DEF WriteMessage
<1> HIDE DEF e
<1>4. /\ f \in Seq(Bytes) /\ Len(f) = 4 + Len(m)
      /\ \A j \in 1..4 : f[j] = e[j]
      /\ \A j \in 1..Len(m) : f[4 + j] = m[j]
  <2>1. f \in Seq(Bytes) /\ Len(f) = Len(e) + Len(m)
    BY <1>1, ConcatProperties
  <2>2. \A i \in 1..Len(e) + Len(m) : f[i] = IF i <= Len(e) THEN e[i] ELSE m[i - Len(e)]
    BY <1>1, ConcatProperties
  <2> HIDE DEF f
  <2> QED BY <1>1, <2>1, <2>2
<1> HIDE DEF f
<1>5. wire' \in Seq(Bytes) /\ Len(wire') = Len(wire) + Len(f)
  BY <1>2, <1>3, <1>4, ConcatProperties
<1>6. \A i \in 1..Len(wire) + Len(f) :
         wire'[i] = IF i <= Len(wire) THEN wire[i] ELSE f[i - Len(wire)]
  BY <1>2, <1>3, <1>4, ConcatProperties
<1>7. /\ \A i \in 1..Len(wire) : wire'[i] = wire[i]
      /\ \A j \in 1..4 : wire'[Len(wire) + j] = e[j]
      /\ \A j \in 1..Len(m) : wire'[Len(wire) + 4 + j] = m[j]
  <2> DEFINE L == Len(wire)
             M == Len(m)
  <2>1. L \in Nat /\ M \in Nat /\ Len(f) = 4 + M
    BY <1>1, <1>2, <1>4
  <2>2. \A i \in 1..L + (4 + M) : wire'[i] = IF i <= L THEN wire[i] ELSE f[i - L]
    BY <1>6, <2>1
  <2> HIDE DEF L, M
  <2>3. \A i \in 1..L : wire'[i] = wire[i]
    BY <2>1, <2>2
  <2>4. ASSUME NEW j \in 1..4 + M PROVE wire'[L + j] = f[j]
    <3>1. L + j \in 1..L + (4 + M) /\ ~(L + j <= L) /\ (L + j) - L = j
      BY <2>1
    <3> QED BY <2>2, <3>1
  <2>5. \A j \in 1..4 : wire'[L + j] = e[j]
    BY <1>4, <2>1, <2>4
  <2>6. ASSUME NEW j \in 1..M PROVE wire'[L + 4 + j] = m[j]
    <3>1. 4 + j \in 1..4 + M /\ L + (4 + j) = L + 4 + j
      BY <2>1
    <3>2. wire'[L + (4 + j)] = f[4 + j]
      BY <2>4, <3>1
    <3> QED BY <1>4, <3>1, <3>2 DEF M
  <2> QED BY <2>3, <2>5, <2>6 DEF L, M
<1>8. /\ Len(sent') = Len(sent) + 1 /\ sent' \in Seq(Messages)
      /\ \A i \in 1..Len(sent) : sent'[i] = sent[i]
      /\ sent'[Len(sent) + 1] = m
  BY <1>2, <1>3, AppendProperties
<1>9. Len(wire') \in Nat
  BY <1>5, LenProperties
<1>10. /\ Len(starts') = Len(starts) + 1 /\ starts' \in Seq(Nat)
       /\ \A i \in 1..Len(starts) : starts'[i] = starts[i]
       /\ starts'[Len(starts) + 1] = Len(wire')
  BY <1>2, <1>3, <1>9, AppendProperties
<1> QED BY <1>1, <1>4, <1>5, <1>7, <1>8, <1>10 DEF e, HeaderBytes

LEMMA WriteStep ==
  ASSUME FInv, NEW m \in Messages, WriteMessage(m)
  PROVE  FInv'
<1> DEFINE N == Len(sent)
<1>1. TypeOK
  BY DEF FInv
<1>2. /\ wire \in Seq(Bytes) /\ Len(wire) \in Nat /\ N \in Nat /\ Len(starts) = N + 1
      /\ Len(m) \in Nat /\ \A i \in 1..N : sent[i] \in Messages /\ Len(sent[i]) \in Nat
      /\ \A i \in 1..N + 1 : starts[i] \in Nat
  <2>1. \A i \in 1..N : sent[i] \in Messages
    BY <1>1, ElementOfSeq DEF TypeOK
  <2>2. \A i \in 1..N + 1 : starts[i] \in Nat
    BY <1>1, ElementOfSeq DEF TypeOK
  <2> QED BY <1>1, <2>1, <2>2, MessageType, LenProperties DEF TypeOK, Bytes
<1>3. /\ ~closed /\ ~closed' /\ Len(wire) = starts[N + 1]
      /\ UNCHANGED <<taken, phase, want, buffer, received>>
  BY DEF WriteMessage, reader, FInv, Laid
<1>4. /\ Len(sent') = N + 1
      /\ \A i \in 1..N : sent'[i] = sent[i] /\ starts'[i] = starts[i] /\ starts'[i + 1] = starts[i + 1]
      /\ sent'[N + 1] = m
      /\ starts'[N + 1] = Len(wire) /\ starts'[N + 2] = Len(wire')
      /\ starts'[1] = starts[1]
  BY <1>1, <1>2, <1>3, Appended
<1>5. /\ Len(wire') = Len(wire) + HeaderBytes + Len(m)
      /\ \A i \in 1..Len(wire) : wire'[i] = wire[i]
      /\ \A j \in 1..HeaderBytes : wire'[Len(wire) + j] = Encode(Len(m))[j]
      /\ \A j \in 1..Len(m) : wire'[Len(wire) + HeaderBytes + j] = m[j]
  BY <1>1, Appended
<1>6. TypeOK'
  <2>1. /\ wire' \in Seq(Bytes) /\ sent' \in Seq(Messages) /\ starts' \in Seq(Nat)
        /\ Len(starts') = Len(sent') + 1
    BY <1>1, <1>2, Appended
  <2>2. taken' \in 0..Len(wire')
    BY <1>1, <1>2, <1>3, <1>5 DEF TypeOK, HeaderBytes
  <2>3. closed' \in BOOLEAN
    BY DEF WriteMessage, TypeOK, FInv
  <2>4. /\ phase' \in {"header", "body", "refused", "ended", "cancelled"}
        /\ buffer' \in Seq(0..255) /\ received' \in Seq(Messages)
        /\ want' \in Nat /\ Len(buffer') <= want'
    BY <1>1, <1>3 DEF TypeOK
  <2> QED BY <2>1, <2>2, <2>3, <2>4 DEF TypeOK, Bytes
<1>7. Laid'
  <2>1. \A i \in 1..N + 1 : starts[i] <= starts[N + 1]
    BY DEF FInv, Laid
  <2>2. \A i \in 1..N : starts[i + 1] = starts[i] + HeaderBytes + Len(sent[i])
    BY DEF FInv, Laid
  <2>3. \A i \in 1..N + 2 : starts'[i] <= starts'[N + 2]
    <3>1. \A i \in 1..N + 1 : starts'[i] = starts[i]
      BY <1>2, <1>4, <1>3
    <3>2. Len(wire) <= Len(wire') /\ Len(wire') \in Nat
      BY <1>2, <1>5 DEF HeaderBytes
    <3>3. \A i \in 1..N + 1 : starts'[i] <= starts'[N + 2]
      BY <1>2, <1>3, <1>4, <2>1, <3>1, <3>2
    <3>4. starts'[N + 2] <= starts'[N + 2]
      BY <1>4, <3>2
    <3> QED BY <1>2, <3>3, <3>4
  <2>4. \A i \in 1..N + 1 : starts'[i + 1] = starts'[i] + HeaderBytes + Len(sent'[i])
    <3>1. ASSUME NEW i \in 1..N
          PROVE  starts'[i + 1] = starts'[i] + HeaderBytes + Len(sent'[i])
      <4>1. sent'[i] = sent[i] /\ starts'[i] = starts[i] /\ starts'[i + 1] = starts[i + 1]
        BY <1>4
      <4> QED BY <2>2, <4>1
    <3>2. starts'[(N + 1) + 1] = starts'[N + 1] + HeaderBytes + Len(sent'[N + 1])
      <4>1. (N + 1) + 1 = N + 2
        BY <1>2
      <4> QED BY <1>4, <1>5, <4>1
    <3> QED BY <1>2, <3>1, <3>2
  <2>5. starts'[1] = 0 /\ N + 2 = Len(sent') + 1 /\ N + 1 = Len(sent')
    BY <1>2, <1>4 DEF FInv, Laid
  <2>6. Len(wire') <= starts'[N + 2] /\ Len(wire') = starts'[N + 2]
    BY <1>2, <1>4, <1>5 DEF HeaderBytes
  <2> QED BY <2>3, <2>4, <2>5, <2>6 DEF Laid
<1>8. ASSUME NEW i \in 1..N + 1 PROVE HeaderWritten(i)' /\ BodyWritten(i)'
  <2>1. CASE i = N + 1
    BY <1>2, <1>4, <1>5, <2>1 DEF HeaderWritten, BodyWritten
  <2>2. CASE i \in 1..N
    <3>1. starts[i + 1] = starts[i] + HeaderBytes + Len(sent[i]) /\ starts[i + 1] <= Len(wire)
      BY <1>2, <1>3, <2>2 DEF FInv, Laid
    <3>2. HeaderWritten(i) /\ BodyWritten(i)
      BY <2>2 DEF FInv, Written
    <3>3. starts'[i] = starts[i] /\ sent'[i] = sent[i] /\ starts[i] \in Nat /\ Len(sent[i]) \in Nat
      BY <1>2, <1>4, <2>2
    <3>4. \A j \in 1..HeaderBytes : starts[i] + j \in 1..Len(wire)
      BY <1>2, <3>1, <3>3 DEF HeaderBytes
    <3>5. \A j \in 1..Len(sent[i]) : starts[i] + HeaderBytes + j \in 1..Len(wire)
      BY <1>2, <3>1, <3>3 DEF HeaderBytes
    <3>6. HeaderWritten(i)'
      BY <1>5, <3>2, <3>3, <3>4 DEF HeaderWritten
    <3>7. BodyWritten(i)'
      BY <1>5, <3>2, <3>3, <3>5 DEF BodyWritten
    <3> QED BY <3>6, <3>7
  <2> QED BY <1>2, <1>8, <2>1, <2>2
<1>9. Written'
  BY <1>4, <1>8 DEF Written
<1>10. InPlace' /\ RefusesOnlyOversized'
  <2>1. /\ Len(received) \in Nat /\ Current <= N + 1 /\ Current \in 1..N + 1 /\ Current' = Current
        /\ starts'[Current] = starts[Current]
        /\ Current <= N => sent'[Current] = sent[Current]
    <3>1. Len(received) \in Nat /\ Current <= N + 1
      BY <1>1, LenProperties DEF TypeOK, FInv, InPlace
    <3>2. Current \in 1..N + 1 /\ Current' = Current
      BY <1>2, <1>3, <3>1 DEF Current
    <3>3. starts'[Current] = starts[Current]
      BY <1>1, <1>2, <3>2, Appended
    <3> QED BY <1>2, <1>4, <3>1, <3>2, <3>3
  <2>2. taken \in 0..Len(wire) /\ Len(buffer) \in Nat
    BY <1>1, LenProperties DEF TypeOK
  <2>3. phase \in {"header", "body"} => Collected'
    <3> SUFFICES ASSUME phase \in {"header", "body"}, NEW j \in 1..Len(buffer)
                 PROVE  buffer[j] = wire'[taken - Len(buffer) + j]
        BY <1>3 DEF Collected
    <3>1. taken >= Len(buffer) /\ Collected
      BY <1>2, <2>1, <2>2 DEF FInv, InPlace, InHeader, InBody, HeaderBytes
    <3>2. taken - Len(buffer) + j \in 1..Len(wire)
      BY <1>2, <2>2, <3>1
    <3> QED BY <1>5, <3>1, <3>2 DEF Collected
  <2>4. InPlace'
    BY <1>2, <1>3, <1>4, <2>1, <2>3 DEF FInv, InPlace, InHeader, InBody
  <2>5. RefusesOnlyOversized'
    BY <1>2, <1>3, <1>4, <2>1 DEF FInv, RefusesOnlyOversized, Current
  <2> QED BY <2>4, <2>5
<1> QED BY <1>6, <1>7, <1>9, <1>10 DEF FInv

\* What the invariant says of lengths and places, for the steps that follow.
LEMMA Places ==
  ASSUME FInv
  PROVE  /\ wire \in Seq(Bytes) /\ Len(wire) \in Nat /\ taken \in 0..Len(wire)
         /\ buffer \in Seq(Bytes) /\ Len(buffer) \in Nat
         /\ Len(received) \in Nat /\ Len(sent) \in Nat /\ Len(starts) = Len(sent) + 1
         /\ Current \in 1..Len(sent) + 1
         /\ \A i \in 1..Len(sent) : sent[i] \in Messages /\ Len(sent[i]) \in Nat \ {0} /\ Len(sent[i]) <= MaxInt32
         /\ \A i \in 1..Len(sent) + 1 : starts[i] \in Nat
         /\ want \in Nat
<1>1. TypeOK
  BY DEF FInv
<1>2. /\ wire \in Seq(Bytes) /\ Len(wire) \in Nat /\ taken \in 0..Len(wire)
      /\ buffer \in Seq(Bytes) /\ Len(buffer) \in Nat
      /\ Len(received) \in Nat /\ Len(sent) \in Nat /\ Len(starts) = Len(sent) + 1
      /\ want \in Nat
  BY <1>1, LenProperties DEF TypeOK, Bytes
<1>3. Current \in 1..Len(sent) + 1
  BY <1>2 DEF FInv, InPlace, Current
<1>4. \A i \in 1..Len(sent) : sent[i] \in Messages
  BY <1>1, ElementOfSeq DEF TypeOK
<1>5. \A i \in 1..Len(sent) + 1 : starts[i] \in Nat
  BY <1>1, ElementOfSeq DEF TypeOK
<1> QED BY <1>2, <1>3, <1>4, <1>5, MessageType

LEMMA StopStep ==
  ASSUME FInv, WriterStops
  PROVE  FInv'
<1>1. PICK n \in taken..Len(wire) : wire' = SubSeq(wire, 1, n)
  BY DEF WriterStops
<1>2. closed' = TRUE /\ UNCHANGED <<sent, starts, taken, reader>>
  BY DEF WriterStops
<1>3. n \in Nat /\ n <= Len(wire) /\ taken <= n /\ taken \in Nat
  BY Places
<1>4. \A i \in 1..n : wire[i] \in Bytes
  BY <1>3, Places, ElementOfSeq
<1>5. /\ wire' \in Seq(Bytes) /\ Len(wire') = n
      /\ \A i \in 1..n : wire'[i] = wire[i]
  BY <1>1, <1>3, <1>4, SubSeqProperties
<1>6. TypeOK'
  <2>1. wire' \in Seq(0..255) /\ taken' \in 0..Len(wire')
    BY <1>2, <1>3, <1>5 DEF Bytes
  <2>2. closed' \in BOOLEAN
    BY <1>2
  <2> QED BY <1>2, <2>1, <2>2 DEF FInv, TypeOK, reader
<1>7. Laid'
  BY <1>2, <1>3, <1>5, Places DEF FInv, Laid
<1>8. Written'
  <2> SUFFICES ASSUME NEW i \in 1..Len(sent) PROVE (HeaderWritten(i) /\ BodyWritten(i))'
      BY <1>2 DEF Written
  <2>1. HeaderWritten(i) /\ BodyWritten(i) /\ starts[i] \in Nat
    BY Places DEF FInv, Written
  <2>2. Len(sent[i]) \in Nat
    BY Places
  <2>3. ASSUME NEW j \in 1..HeaderBytes, starts[i] + j <= n PROVE wire'[starts[i] + j] = wire[starts[i] + j]
    BY <1>3, <1>5, <2>1, <2>3 DEF HeaderBytes
  <2>4. ASSUME NEW j \in 1..Len(sent[i]), starts[i] + HeaderBytes + j <= n
        PROVE  wire'[starts[i] + HeaderBytes + j] = wire[starts[i] + HeaderBytes + j]
    BY <1>3, <1>5, <2>1, <2>2, <2>4 DEF HeaderBytes
  <2>5. starts' = starts /\ sent' = sent /\ Len(wire') = n /\ n <= Len(wire) /\ Len(wire) \in Nat
    BY <1>2, <1>3, <1>5, Places
  <2>6. HeaderWritten(i)'
    <3> SUFFICES ASSUME NEW j \in 1..HeaderBytes, starts[i] + j <= n
                 PROVE  wire'[starts[i] + j] = Encode(Len(sent[i]))[j]
        BY <2>5 DEF HeaderWritten
    <3>1. starts[i] + j <= Len(wire)
      BY <1>3, <2>1, <2>5 DEF HeaderBytes
    <3> QED BY <2>1, <2>3, <3>1 DEF HeaderWritten
  <2>7. BodyWritten(i)'
    <3> SUFFICES ASSUME NEW j \in 1..Len(sent[i]), starts[i] + HeaderBytes + j <= n
                 PROVE  wire'[starts[i] + HeaderBytes + j] = sent[i][j]
        BY <2>5 DEF BodyWritten
    <3>1. starts[i] + HeaderBytes + j <= Len(wire)
      BY <1>3, <2>1, <2>2, <2>5 DEF HeaderBytes
    <3> QED BY <2>1, <2>4, <3>1 DEF BodyWritten
  <2> QED BY <2>6, <2>7
<1>9. InPlace' /\ RefusesOnlyOversized'
  <2>1. phase \in {"header", "body"} => Collected'
    <3> SUFFICES ASSUME phase \in {"header", "body"}, NEW j \in 1..Len(buffer)
                 PROVE  buffer[j] = wire'[taken - Len(buffer) + j]
        BY <1>2 DEF Collected, reader
    <3>1. taken >= Len(buffer) /\ Collected
      BY Places DEF FInv, InPlace, InHeader, InBody, HeaderBytes
    <3>2. taken - Len(buffer) + j \in 1..n
      BY <1>3, <3>1, Places
    <3> QED BY <1>5, <3>1, <3>2 DEF Collected
  <2> QED BY <1>2, <2>1 DEF FInv, InPlace, InHeader, InBody, Current, RefusesOnlyOversized, reader
<1> QED BY <1>6, <1>7, <1>8, <1>9 DEF FInv

\* Where the writer does nothing, its part of the invariant stays.
LEMMA WireStays == ASSUME FInv, UNCHANGED writer PROVE Laid' /\ Written'
  BY DEF FInv, writer, Laid, Written, HeaderWritten, BodyWritten

LEMMA ReadStep ==
  ASSUME FInv, ReadSome
  PROVE  FInv'
<1>1. PICK n \in 1..(want - Len(buffer)) :
         Takes(n) /\ buffer' = buffer \o SubSeq(wire, taken + 1, taken + n)
  BY DEF ReadSome
<1>2. /\ phase \in {"header", "body"}
      /\ taken + n <= Len(wire) /\ taken' = taken + n
      /\ UNCHANGED <<writer, phase, want, received>>
  BY <1>1 DEF Takes, Reading
<1> DEFINE piece == SubSeq(wire, taken + 1, taken + n)
<1>3. n \in Nat \ {0} /\ n + Len(buffer) <= want /\ taken \in Nat
  BY Places
<1>4. /\ piece \in Seq(Bytes) /\ Len(piece) = n
      /\ \A i \in 1..n : piece[i] = wire[taken + i]
  <2>1. \A i \in taken + 1..taken + n : wire[i] \in Bytes
    BY <1>2, <1>3, Places, ElementOfSeq
  <2>2. /\ piece \in Seq(Bytes)
        /\ Len(piece) = IF taken + 1 <= taken + n THEN taken + n - (taken + 1) + 1 ELSE 0
        /\ \A i \in 1..taken + n - (taken + 1) + 1 : piece[i] = wire[taken + 1 + i - 1]
    BY <1>3, <2>1, SubSeqProperties
  <2> HIDE DEF piece
  <2>3. taken + n - (taken + 1) + 1 = n /\ taken + 1 <= taken + n
    BY <1>3
  <2>4. ASSUME NEW i \in 1..n PROVE piece[i] = wire[taken + i]
    <3>1. taken + 1 + i - 1 = taken + i
      BY <1>3
    <3> QED BY <2>2, <2>3, <3>1
  <2> QED BY <2>2, <2>3, <2>4
<1>5. buffer' = buffer \o piece
  BY <1>1
<1> HIDE DEF piece
<1>6. /\ buffer' \in Seq(Bytes) /\ Len(buffer') = Len(buffer) + n
      /\ \A i \in 1..Len(buffer) + n :
            buffer'[i] = IF i <= Len(buffer) THEN buffer[i] ELSE piece[i - Len(buffer)]
  BY <1>4, <1>5, Places, ConcatProperties
<1>7. TypeOK'
  BY <1>2, <1>3, <1>6, Places DEF FInv, TypeOK, Bytes, writer
<1>8. InPlace' /\ RefusesOnlyOversized'
  <2>1. Collected
    BY <1>2 DEF FInv, InPlace, InHeader, InBody
  <2>2. Collected'
    <3> SUFFICES ASSUME NEW i \in 1..Len(buffer) + n
                 PROVE  buffer'[i] = wire[taken - Len(buffer) + i]
        BY <1>2, <1>3, <1>6, Places DEF Collected, writer
    <3>1. CASE i <= Len(buffer)
      <4>1. i \in 1..Len(buffer)
        BY <1>3, <3>1, Places
      <4>2. buffer[i] = wire[taken - Len(buffer) + i]
        BY <2>1, <4>1 DEF Collected
      <4> QED BY <1>6, <3>1, <4>2
    <3>2. CASE i > Len(buffer)
      <4>1. i - Len(buffer) \in 1..n /\ taken + (i - Len(buffer)) = taken - Len(buffer) + i
        BY <1>3, <3>2, Places
      <4>2. buffer'[i] = piece[i - Len(buffer)]
        BY <1>3, <1>6, <3>2, Places
      <4>3. piece[i - Len(buffer)] = wire[taken + (i - Len(buffer))]
        BY <1>4, <4>1
      <4> QED BY <4>1, <4>2, <4>3
    <3> QED BY <1>3, <3>1, <3>2, Places
  <2>3. /\ UNCHANGED <<sent, starts, wire, phase, want, received>>
        /\ taken' = taken + n /\ Len(buffer') = Len(buffer) + n /\ Current' = Current
    BY <1>2, <1>6 DEF writer, Current
  <2> DEFINE P == starts[Current]
  <2>4. /\ P \in Nat /\ Len(buffer) \in Nat /\ n \in Nat /\ taken \in Nat
        /\ starts'[Current'] = P /\ sent'[Current'] = sent[Current]
    BY <1>3, <2>3, Places
  <2>5. phase = "header" => InHeader'
    <3>1. phase = "header" => want = HeaderBytes /\ taken = P + Len(buffer)
      BY DEF FInv, InPlace, InHeader
    <3> HIDE DEF P
    <3>2. phase = "header" => taken' = P + Len(buffer')
      BY <2>3, <2>4, <3>1
    <3> QED BY <2>2, <2>3, <2>4, <3>1, <3>2 DEF InHeader
  <2>6. phase = "body" => InBody'
    <3>1. phase = "body" => /\ Current <= Len(sent) /\ want = Len(sent[Current])
                            /\ taken = P + HeaderBytes + Len(buffer)
      BY DEF FInv, InPlace, InBody
    <3> HIDE DEF P
    <3>2. phase = "body" => taken' = P + HeaderBytes + Len(buffer')
      BY <2>3, <2>4, <3>1 DEF HeaderBytes
    <3> QED BY <2>2, <2>3, <2>4, <3>1, <3>2 DEF InBody
  <2>7. InPlace'
    BY <2>3, <2>5, <2>6 DEF FInv, InPlace
  <2> QED BY <1>2, <2>3, <2>7 DEF RefusesOnlyOversized
<1> QED BY <1>2, <1>7, <1>8, WireStays DEF FInv

\* A complete header holds the length of the message that was sent next.
LEMMA HeaderTells ==
  ASSUME FInv, HeaderComplete
  PROVE  /\ Current \in 1..Len(sent) /\ Decode(buffer) = Len(sent[Current])
         /\ taken = starts[Current] + HeaderBytes
<1>1. /\ want = HeaderBytes /\ Len(buffer) = HeaderBytes
      /\ taken = starts[Current] + Len(buffer) /\ Collected
  BY DEF FInv, InPlace, InHeader, HeaderComplete
<1>2. Current \in 1..Len(sent)
  BY <1>1, Places DEF FInv, Laid, HeaderBytes
<1> DEFINE e == Encode(Len(sent[Current]))
<1>3. HeaderWritten(Current) /\ starts[Current] \in Nat /\ taken <= Len(wire)
  BY <1>2, Places DEF FInv, Written
<1>4. e \in Seq(Bytes) /\ Len(e) = HeaderBytes
  BY <1>2, Places, MessageType
<1>5. \A j \in 1..HeaderBytes : buffer[j] = e[j]
  <2> SUFFICES ASSUME NEW j \in 1..HeaderBytes PROVE buffer[j] = e[j]
      OBVIOUS
  <2>1. taken - Len(buffer) + j = starts[Current] + j /\ starts[Current] + j <= Len(wire)
    BY <1>1, <1>3, Places DEF HeaderBytes
  <2> QED BY <1>1, <1>3, <2>1 DEF HeaderWritten, Collected
<1>6. buffer = e
  <2> HIDE DEF e
  <2> QED BY <1>1, <1>4, <1>5, Places, SeqEqual
<1> QED BY <1>1, <1>2, <1>6, Places, DecodeEncode

\* A complete body is the message that was sent next.
LEMMA BodyTells ==
  ASSUME FInv, phase = "body", Len(buffer) = want
  PROVE  /\ Current \in 1..Len(sent) /\ buffer = sent[Current]
         /\ taken = starts[Current + 1]
<1>1. /\ Current \in 1..Len(sent) /\ Len(buffer) = Len(sent[Current])
      /\ taken = starts[Current] + HeaderBytes + Len(buffer) /\ Collected
  BY Places DEF FInv, InPlace, InBody
<1>2. BodyWritten(Current) /\ starts[Current] \in Nat /\ taken <= Len(wire)
  BY <1>1, Places DEF FInv, Written
<1>3. \A j \in 1..Len(buffer) : buffer[j] = sent[Current][j]
  <2> SUFFICES ASSUME NEW j \in 1..Len(buffer) PROVE buffer[j] = sent[Current][j]
      OBVIOUS
  <2>1. /\ taken - Len(buffer) + j = starts[Current] + HeaderBytes + j
        /\ starts[Current] + HeaderBytes + j <= Len(wire)
    BY <1>1, <1>2, Places DEF HeaderBytes
  <2> QED BY <1>1, <1>2, <2>1 DEF BodyWritten, Collected
<1>4. sent[Current] \in Seq(Bytes)
  BY <1>1, Places, MessageType
<1>5. buffer = sent[Current]
  BY <1>1, <1>3, <1>4, Places, SeqEqual
<1> QED BY <1>1, <1>5 DEF FInv, Laid

LEMMA HeaderStep ==
  ASSUME FInv, ReadHeader
  PROVE  FInv'
<1>1. /\ HeaderComplete /\ phase' = "body" /\ want' = Decode(buffer) /\ buffer' = <<>>
      /\ UNCHANGED <<taken, writer, received>>
  BY DEF ReadHeader
<1>2. /\ Current \in 1..Len(sent) /\ want' = Len(sent[Current])
      /\ taken = starts[Current] + HeaderBytes
  BY <1>1, HeaderTells
<1>3. Len(buffer') = 0 /\ buffer' \in Seq(Bytes) /\ want' \in Nat
  BY <1>1, <1>2, Places, EmptySeq
<1>4. TypeOK'
  BY <1>1, <1>3 DEF FInv, TypeOK, Bytes, writer
<1>5. Current' = Current /\ starts' = starts /\ sent' = sent /\ taken' = taken /\ wire' = wire
  BY <1>1 DEF Current, writer
<1>6. InBody'
  BY <1>2, <1>3, <1>5, Places DEF InBody, Collected, HeaderBytes
<1>7. InPlace' /\ RefusesOnlyOversized'
  BY <1>1, <1>5, <1>6, Places DEF InPlace, RefusesOnlyOversized
<1> QED BY <1>1, <1>4, <1>7, WireStays DEF FInv

LEMMA BodyStep ==
  ASSUME FInv, ReadBody
  PROVE  FInv'
<1>1. /\ phase = "body" /\ Len(buffer) = want
      /\ received' = Append(received, buffer) /\ buffer' = <<>>
      /\ phase' = "header" /\ want' = HeaderBytes /\ UNCHANGED <<taken, writer>>
  BY DEF ReadBody, Return
<1>2. Current \in 1..Len(sent) /\ buffer = sent[Current] /\ taken = starts[Current + 1]
  BY <1>1, BodyTells
<1>3. received \in Seq(Messages) /\ buffer \in Messages
  BY <1>2, Places DEF FInv, TypeOK
<1>4. received' \in Seq(Messages) /\ Len(received') = Len(received) + 1
  BY <1>1, <1>3, AppendProperties
<1>5. Len(buffer') = 0 /\ buffer' \in Seq(Bytes) /\ want' \in Nat
  BY <1>1, EmptySeq DEF HeaderBytes
<1>6. TypeOK'
  BY <1>1, <1>4, <1>5 DEF FInv, TypeOK, Bytes, writer, HeaderBytes
<1>7. Current' = Current + 1 /\ starts' = starts /\ sent' = sent /\ taken' = taken
  BY <1>1, <1>4, Places DEF Current, writer
<1>8. InHeader'
  <2>1. want' = HeaderBytes /\ taken' = starts'[Current'] + Len(buffer')
    BY <1>1, <1>2, <1>5, <1>7, Places
  <2>2. Collected'
    BY <1>5 DEF Collected
  <2> QED BY <2>1, <2>2 DEF InHeader
<1>9. InPlace' /\ RefusesOnlyOversized'
  BY <1>1, <1>2, <1>7, <1>8, Places DEF InPlace, RefusesOnlyOversized
<1> QED BY <1>1, <1>6, <1>9, WireStays DEF FInv

LEMMA RefuseStep ==
  ASSUME FInv, RefuseHeader
  PROVE  FInv'
<1>1. /\ HeaderComplete /\ ~Plausible(Decode(buffer)) /\ phase' = "refused"
      /\ UNCHANGED <<taken, writer, want, buffer, received>>
  BY DEF RefuseHeader
<1>2. /\ Current \in 1..Len(sent) /\ Decode(buffer) = Len(sent[Current])
      /\ taken = starts[Current] + HeaderBytes
  BY <1>1, HeaderTells
<1>3. Len(sent[Current]) > MaxMessageBytes
  BY <1>1, <1>2, Places, FramingAssumption DEF Plausible, FramingAssumption
<1>4. TypeOK'
  BY <1>1 DEF FInv, TypeOK, writer
<1>5. InPlace'
  BY <1>1 DEF FInv, InPlace, Current, writer
<1>6. RefusesOnlyOversized'
  BY <1>1, <1>2, <1>3, Places DEF RefusesOnlyOversized, Current, writer
<1> QED BY <1>1, <1>4, <1>5, <1>6, WireStays DEF FInv

LEMMA OverStep ==
  ASSUME FInv, EndOfStream \/ ReadStops
  PROVE  FInv'
<1>1. /\ phase' \in {"ended", "cancelled"}
      /\ UNCHANGED <<taken, writer, want, buffer, received>>
  BY DEF EndOfStream, ReadStops
<1>2. TypeOK'
  BY <1>1 DEF FInv, TypeOK, writer
<1>3. InPlace' /\ RefusesOnlyOversized'
  BY <1>1 DEF FInv, InPlace, RefusesOnlyOversized, Current, writer
<1> QED BY <1>1, <1>2, <1>3, WireStays DEF FInv

LEMMA FInvStep == FInv /\ [Next]_vars => FInv'
<1> SUFFICES ASSUME FInv, [Next]_vars PROVE FInv'
    OBVIOUS
<1>1. ASSUME NEW m \in Messages, WriteMessage(m) PROVE FInv'
  BY <1>1, WriteStep
<1>2. CASE WriterStops
  BY <1>2, StopStep
<1>3. CASE ReadSome
  BY <1>3, ReadStep
<1>4. CASE ReadHeader
  BY <1>4, HeaderStep
<1>5. CASE RefuseHeader
  BY <1>5, RefuseStep
<1>6. CASE ReadBody
  BY <1>6, BodyStep
<1>7. CASE EndOfStream \/ ReadStops
  BY <1>7, OverStep
<1>8. CASE UNCHANGED vars
  <2>1. UNCHANGED <<writer, taken, phase, want, buffer, received>>
    BY <1>8 DEF vars, reader
  <2>2. TypeOK' /\ InPlace' /\ RefusesOnlyOversized'
    BY <2>1 DEF FInv, TypeOK, InPlace, InHeader, InBody, Collected, Current, RefusesOnlyOversized, writer
  <2> QED BY <2>1, <2>2, WireStays DEF FInv
<1> QED BY <1>1, <1>2, <1>3, <1>4, <1>5, <1>6, <1>7, <1>8 DEF Next, ReadMessage

LEMMA FInvAlways == Spec => []FInv
  BY FInvInit, FInvStep, PTL DEF Spec

\* Every variable keeps to its values: in particular every body that is returned is one
\* that can be sent.
THEOREM TypeCorrect == Spec => []TypeOK
  BY FInvAlways, PTL DEF FInv

\* A reader that refuses a length stands at a message that is too long, after all before it.
THEOREM RefusesOnlyOversizedAlways == Spec => []RefusesOnlyOversized
  BY FInvAlways, PTL DEF FInv
-----------------------------------------------------------------------------
(***************************************************************************)
(* The refinement of MessageChannel.                                       *)
(***************************************************************************)
LEMMA ChannelStep == FInv /\ [Next]_vars => [Channel!Next]_(Channel!chan)
<1> SUFFICES ASSUME FInv, [Next]_vars PROVE [Channel!Next]_(Channel!chan)
    OBVIOUS
<1> USE DEF Channel!Next, Channel!chan
<1>1. ASSUME NEW m \in Messages, WriteMessage(m) PROVE Channel!Send(m)
  BY <1>1 DEF WriteMessage, reader, Reading, Channel!Send
<1>2. CASE WriterStops
  BY <1>2 DEF WriterStops, reader, Reading
<1>3. CASE ReadSome
  BY <1>3 DEF ReadSome, Takes, writer, Reading
<1>4. CASE ReadHeader
  BY <1>4 DEF ReadHeader, HeaderComplete, writer, Reading
<1>5. CASE RefuseHeader
  BY <1>5 DEF RefuseHeader, HeaderComplete, writer, Reading, Channel!End
<1>6. CASE ReadBody
  <2>1. /\ phase = "body" /\ Len(buffer) = want /\ received' = Append(received, buffer)
        /\ phase' = "header" /\ sent' = sent
    BY <1>6 DEF ReadBody, Return, writer
  <2>2. Current \in 1..Len(sent) /\ buffer = sent[Current]
    BY <2>1, BodyTells
  <2>3. Len(received) < Len(sent)
    BY <2>2, Places DEF Current
  <2>4. Channel!Receive
    BY <2>1, <2>2, <2>3 DEF Channel!Receive, Reading, Current
  <2> QED BY <2>4
<1>7. CASE EndOfStream \/ ReadStops
  BY <1>7 DEF EndOfStream, ReadStops, writer, Reading, Channel!End
<1>8. CASE UNCHANGED vars
  BY <1>8 DEF vars, writer, reader, Reading
<1> QED BY <1>1, <1>2, <1>3, <1>4, <1>5, <1>6, <1>7, <1>8 DEF Next, ReadMessage

\* Whatever the reads return, and wherever writer and reader stop, callers see the
\* messages whole, once and in the order they were sent.
THEOREM Implementation == Spec => ImplementsChannel
<1>1. Init => Channel!Init
  BY DEF Init, Channel!Init, Reading
<1> QED BY <1>1, FInvAlways, ChannelStep, PTL DEF Spec, ImplementsChannel, Channel!Spec
-----------------------------------------------------------------------------
(***************************************************************************)
(* What was returned is what was sent first, and nothing is withheld.      *)
(***************************************************************************)
Prefix == /\ Len(received) <= Len(sent)
          /\ \A i \in 1..Len(received) : received[i] = sent[i]

\* A step of the channel of whole messages keeps the order.
LEMMA PrefixStep ==
  ASSUME sent \in Seq(Messages), received \in Seq(Messages), Prefix,
         [Channel!Next]_(Channel!chan)
  PROVE  Prefix'
<1>1. ASSUME NEW m \in Messages, Channel!Send(m) PROVE Prefix'
  <2>1. sent' = Append(sent, m) /\ received' = received
    BY <1>1 DEF Channel!Send
  <2> QED BY <2>1 DEF Prefix
<1>2. CASE Channel!Receive
  <2>1. /\ Len(received) < Len(sent) /\ sent' = sent
        /\ received' = Append(received, sent[Len(received) + 1])
    BY <1>2 DEF Channel!Receive
  <2>2. sent[Len(received) + 1] \in Messages
    BY <2>1
  <2> QED BY <2>1, <2>2 DEF Prefix
<1>3. CASE Channel!End \/ UNCHANGED Channel!chan
  BY <1>3 DEF Channel!End, Channel!chan, Prefix
<1> QED BY <1>1, <1>2, <1>3 DEF Channel!Next

\* A reader at the end of what was written stands between two messages, after the last.
LEMMA AtTheEnd ==
  ASSUME FInv, ~closed, Reading, taken = Len(wire), Len(buffer) < want
  PROVE  Len(received) = Len(sent)
<1>1. taken = starts[Len(sent) + 1]
  BY DEF FInv, Laid
<1>2. SUFFICES ASSUME Current \in 1..Len(sent) PROVE FALSE
  BY Places DEF Current
<1>3. /\ starts[Current + 1] = starts[Current] + HeaderBytes + Len(sent[Current])
      /\ starts[Current + 1] <= starts[Len(sent) + 1]
      /\ starts[Current] \in Nat /\ Len(sent[Current]) \in Nat \ {0}
  BY <1>2, Places DEF FInv, Laid
<1>4. CASE phase = "header"
  <2>1. want = HeaderBytes /\ taken = starts[Current] + Len(buffer)
    BY <1>4 DEF FInv, InPlace, InHeader
  <2> QED BY <1>1, <1>3, <2>1, Places DEF HeaderBytes
<1>5. CASE phase = "body"
  <2>1. want = Len(sent[Current]) /\ taken = starts[Current] + HeaderBytes + Len(buffer)
    BY <1>5 DEF FInv, InPlace, InBody
  <2> QED BY <1>1, <1>3, <2>1, Places DEF HeaderBytes
<1> QED BY <1>4, <1>5 DEF Reading

\* A reader that waits for bytes while the writer is there has returned all that was sent.
THEOREM NothingWithheldAlways == Spec => []NothingWithheld
<1>1. Init => Prefix
  BY DEF Init, Prefix
<1>2. FInv /\ Prefix /\ [Next]_vars => Prefix'
  BY ChannelStep, PrefixStep DEF FInv, TypeOK
<1>3. FInv /\ Prefix => NothingWithheld
  <2> SUFFICES ASSUME FInv, Prefix, ~closed, Reading, taken = Len(wire), Len(buffer) < want
               PROVE  received = sent
    BY DEF NothingWithheld
  <2>1. Len(received) = Len(sent)
    BY AtTheEnd
  <2>2. received \in Seq(Messages) /\ sent \in Seq(Messages)
    BY DEF FInv, TypeOK
  <2> QED BY <2>1, <2>2, SeqEqual DEF Prefix
<1> QED
  BY <1>1, <1>2, <1>3, FInvAlways, PTL DEF Spec
=============================================================================
