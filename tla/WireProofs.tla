------------------------------ MODULE WireProofs ------------------------------
(***************************************************************************)
(* Proofs about Wire, for any requests, any length of their texts and any  *)
(* size of block that satisfy WireConstants.                               *)
(***************************************************************************)
EXTENDS Wire, RequestsProofs

Bytes == Chars \cup {NUL}

-----------------------------------------------------------------------------
(* Blocks.                                                                 *)

(* A block without a NUL is taken as it is.                                *)
LEMMA NoNul ==
  ASSUME NEW b, \A i \in DOMAIN b : b[i] # NUL
  PROVE  BeforeNul(b) = b
  BY DEF BeforeNul

(* A block that ends in its only NUL gives what is before it.              *)
LEMMA NulAtTheEnd ==
  ASSUME NEW b \in Seq(Bytes), Len(b) > 0, b[Len(b)] = NUL,
         \A i \in 1 .. Len(b) - 1 : b[i] # NUL
  PROVE  BeforeNul(b) = SubSeq(b, 1, Len(b) - 1)
<1> DEFINE First(i) == b[i] = NUL /\ \A j \in 1 .. i - 1 : b[j] # NUL
<1>1. DOMAIN b = 1 .. Len(b) /\ Len(b) \in Nat OBVIOUS
<1>2. Len(b) \in DOMAIN b /\ First(Len(b)) BY <1>1
<1>3. \A i \in DOMAIN b : First(i) => i = Len(b) BY <1>1
<1>4. (CHOOSE i \in DOMAIN b : First(i)) = Len(b) BY <1>2, <1>3
<1>5. \E i \in DOMAIN b : b[i] = NUL BY <1>2
<1> QED BY <1>4, <1>5 DEF BeforeNul

(* A block as long as the stream leaves nothing of it.                     *)
LEMMA NoRest ==
  ASSUME NEW stream, NEW k, 1 .. Len(stream) - k = {}
  PROVE  Rest(stream, k) = <<>>
BY DEF Rest

(* One read of a request of which text has been read and stream is to      *)
(* come: the text and the stream still make it up, and the stream is empty *)
(* when the block was not full.                                            *)
LEMMA ReadMakesUp ==
  ASSUME NEW m \in Seq(Chars), NEW text \in Seq(Chars), NEW stream \in Seq(Bytes),
         stream # <<>>, text \o stream = m \o <<NUL>>
  PROVE  LET k     == Full(stream)
             after == text \o BeforeNul(SubSeq(stream, 1, k))
             rest  == Rest(stream, k)
         IN /\ after \in Seq(Chars) /\ rest \in Seq(Bytes)
            /\ IF rest = <<>> THEN after = m ELSE after \o rest = m \o <<NUL>>
            /\ k # Block => rest = <<>>
<1> DEFINE n     == Len(text)
           k     == Full(stream)
           block == SubSeq(stream, 1, k)
           after == text \o BeforeNul(block)
           rest  == Rest(stream, k)
<1> HIDE DEF k
<1>1. Block \in Nat \ {0} /\ NUL \notin Chars BY WireConstants
<1>2. n \in Nat /\ Len(stream) \in Nat \ {0} /\ Len(m) \in Nat OBVIOUS
<1>3. k \in 1 .. Len(stream) /\ (k # Block => k = Len(stream))
  BY <1>1, <1>2 DEF k, Full
<1>4. n + Len(stream) = Len(m) + 1
  <2>1. Len(text \o stream) = n + Len(stream) OBVIOUS
  <2>2. Len(m \o <<NUL>>) = Len(m) + 1 OBVIOUS
  <2> QED BY <2>1, <2>2
<1>5. \A i \in 1 .. n : text[i] = m[i]
  <2>1. \A i \in 1 .. n : (text \o stream)[i] = text[i] OBVIOUS
  <2>2. \A i \in 1 .. Len(m) : (m \o <<NUL>>)[i] = m[i] OBVIOUS
  <2>3. n <= Len(m) BY <1>2, <1>4
  <2> QED BY <1>2, <2>1, <2>2, <2>3
<1>6. /\ \A i \in 1 .. Len(stream) - 1 : stream[i] = m[n + i]
      /\ stream[Len(stream)] = NUL
  <2>1. \A i \in 1 .. Len(stream) : (text \o stream)[n + i] = stream[i]
    BY <1>2
  <2>2. \A i \in 1 .. Len(m) : (m \o <<NUL>>)[i] = m[i] OBVIOUS
  <2>3. (m \o <<NUL>>)[Len(m) + 1] = NUL OBVIOUS
  <2>4. (text \o stream)[n + Len(stream)] = stream[Len(stream)] BY <1>2, <2>1
  <2>5. stream[Len(stream)] = NUL BY <1>4, <2>3, <2>4
  <2>6. ASSUME NEW i \in 1 .. Len(stream) - 1 PROVE stream[i] = m[n + i]
    <3>1. n + i \in 1 .. Len(m) /\ i \in 1 .. Len(stream) BY <1>2, <1>4
    <3> QED BY <2>1, <2>2, <3>1
  <2> QED BY <2>5, <2>6
<1>7. \A i \in 1 .. Len(stream) - 1 : stream[i] \in Chars /\ stream[i] # NUL
  <2>1. \A i \in 1 .. Len(m) : m[i] \in Chars OBVIOUS
  <2>2. \A i \in 1 .. Len(stream) - 1 : n + i \in 1 .. Len(m) BY <1>2, <1>4
  <2> QED BY <1>1, <1>6, <2>1, <2>2
<1>8. /\ block \in Seq(Bytes) /\ Len(block) = k
      /\ \A i \in 1 .. k : block[i] = stream[i]
  BY <1>2, <1>3
<1>9. rest = [i \in 1 .. Len(stream) - k |-> stream[i + k]]
  BY DEF Rest
<1>10. text \in Seq(Bytes) /\ after = text \o BeforeNul(block)
  <2>1. Chars \subseteq Bytes BY DEF Bytes
  <2> QED BY <2>1, SeqMonotonic
<1> DEFINE Goal == /\ after \in Seq(Chars) /\ rest \in Seq(Bytes)
                   /\ IF rest = <<>> THEN after = m ELSE after \o rest = m \o <<NUL>>
                   /\ k # Block => rest = <<>>
<1> HIDE DEF block, after, rest
<1>11. ASSUME k = Len(stream) PROVE Goal
  <2> DEFINE last == SubSeq(block, 1, k - 1)
  <2>1. rest = <<>>
    <3>1. 1 .. Len(stream) - k = {} BY <1>2, <1>11
    <3> QED BY <3>1, NoRest DEF rest
  <2>2. BeforeNul(block) = last
    <3>1. Len(block) > 0 /\ block[Len(block)] = NUL
      BY <1>3, <1>6, <1>8, <1>11
    <3>2. \A i \in 1 .. Len(block) - 1 : block[i] # NUL
      <4>1. \A i \in 1 .. k - 1 : block[i] = stream[i] BY <1>2, <1>3, <1>8
      <4> QED BY <1>7, <1>8, <1>11, <4>1
    <3>3. BeforeNul(block) = SubSeq(block, 1, Len(block) - 1)
      BY <1>8, <3>1, <3>2, NulAtTheEnd
    <3> QED BY <1>8, <3>3
  <2>3. /\ last \in Seq(Chars) /\ Len(last) = k - 1
        /\ \A i \in 1 .. k - 1 : last[i] = stream[i]
    <3>1. \A i \in 1 .. k - 1 : block[i] = stream[i] /\ block[i] \in Chars
      BY <1>2, <1>3, <1>7, <1>8, <1>11
    <3>2. 1 \in Int /\ k - 1 \in Int /\ 1 <= k BY <1>2, <1>3
    <3>3. /\ last \in Seq(Chars)
          /\ Len(last) = IF 1 <= k - 1 THEN k - 1 - 1 + 1 ELSE 0
          /\ \A i \in 1 .. k - 1 - 1 + 1 : last[i] = block[1 + i - 1]
      BY <3>1, <3>2, SubSeqProperties
    <3> QED BY <1>2, <1>3, <3>1, <3>3
  <2> HIDE DEF last
  <2>4. /\ after \in Seq(Chars) /\ Len(after) = Len(text) + Len(last)
        /\ \A i \in 1 .. Len(text) + Len(last) :
             after[i] = IF i <= Len(text) THEN text[i] ELSE last[i - Len(text)]
    <3>1. after = text \o last BY <1>10, <2>2
    <3> QED BY <2>3, <3>1, ConcatProperties
  <2>5. Len(after) = Len(m) BY <1>2, <1>4, <1>11, <2>3, <2>4
  <2>6. ASSUME NEW i \in 1 .. Len(m) PROVE after[i] = m[i]
    <3>1. CASE i <= n BY <1>2, <1>5, <2>4, <2>5, <3>1
    <3>2. CASE i > n
      <4>1. i - n \in 1 .. Len(stream) - 1 BY <1>2, <1>4, <3>2
      <4>2. after[i] = last[i - n] BY <1>2, <2>4, <2>5, <3>2
      <4>3. stream[i - n] = m[n + (i - n)] BY <1>6, <4>1
      <4>4. last[i - n] = stream[i - n] BY <1>11, <2>3, <4>1
      <4> QED BY <1>2, <4>2, <4>3, <4>4
    <3> QED BY <1>2, <3>1, <3>2
  <2>7. after = m BY <2>4, <2>5, <2>6, SeqEqual
  <2>8. <<>> \in Seq(Bytes) OBVIOUS
  <2> QED BY <1>11, <2>1, <2>4, <2>7, <2>8
<1>12. ASSUME k # Len(stream) PROVE Goal
  <2>1. k \in 1 .. Len(stream) - 1 /\ k = Block BY <1>2, <1>3, <1>12
  <2>2. BeforeNul(block) = block
    <3>1. \A i \in 1 .. k : block[i] # NUL
      <4>1. \A i \in 1 .. k : i \in 1 .. Len(stream) - 1 BY <1>2, <2>1
      <4> QED BY <1>7, <1>8, <4>1
    <3>2. DOMAIN block = 1 .. k BY <1>8, LenProperties
    <3> QED BY <3>1, <3>2, NoNul
  <2>3. block \in Seq(Chars)
    <3>1. \A i \in 1 .. k : stream[i] \in Chars
      <4>1. \A i \in 1 .. k : i \in 1 .. Len(stream) - 1 BY <1>2, <2>1
      <4> QED BY <1>7, <4>1
    <3>2. 1 \in Int /\ k \in Int BY <1>2, <2>1
    <3>3. SubSeq(stream, 1, k) \in Seq(Chars) BY <3>1, <3>2, SubSeqProperties
    <3> QED BY <3>3 DEF block
  <2>4. /\ rest \in Seq(Bytes) /\ Len(rest) = Len(stream) - k
        /\ \A i \in 1 .. Len(stream) - k : rest[i] = stream[i + k]
    BY <1>2, <1>9, <2>1
  <2>5. rest # <<>> BY <1>2, <2>1, <2>4
  <2>6. block \o rest = stream
    <3> DEFINE both == block \o rest
    <3>1. both \in Seq(Bytes) /\ Joins(block, rest, both) BY <1>8, <2>4, Joined
    <3> HIDE DEF both
    <3>2. Len(both) = Len(stream)
      <4>1. Len(both) = k + (Len(stream) - k) BY <1>8, <2>4, <3>1 DEF Joins
      <4> QED BY <1>2, <2>1, <4>1
    <3>3. ASSUME NEW i \in 1 .. Len(stream) PROVE both[i] = stream[i]
      <4>1. CASE i <= k
        <5>1. i \in 1 .. k BY <2>1, <4>1
        <5>2. both[i] = block[i] BY <1>8, <3>1, <5>1 DEF Joins
        <5> QED BY <1>8, <5>1, <5>2
      <4>2. CASE i > k
        <5>1. i - k \in 1 .. Len(stream) - k BY <1>2, <2>1, <4>2
        <5>2. both[k + (i - k)] = rest[i - k] BY <1>8, <2>4, <3>1, <5>1 DEF Joins
        <5>3. rest[i - k] = stream[(i - k) + k] BY <2>4, <5>1
        <5>4. k + (i - k) = i /\ (i - k) + k = i BY <1>2, <2>1
        <5> QED BY <5>2, <5>3, <5>4
      <4> QED BY <1>2, <2>1, <4>1, <4>2
    <3>4. both = stream BY <3>1, <3>2, <3>3, SeqEqual
    <3> QED BY <3>4 DEF both
  <2>7. (text \o block) \o rest = text \o (block \o rest)
    <3>1. text \in Seq(Bytes) /\ block \in Seq(Bytes) /\ rest \in Seq(Bytes)
      BY <1>8, <1>10, <2>4
    <3>2. \A s, t, u \in Seq(Bytes) : (s \o t) \o u = s \o (t \o u)
      BY ConcatAssociative
    <3> QED BY <3>1, <3>2, Zenon
  <2>8. after = text \o block /\ after \in Seq(Chars) BY <1>10, <2>2, <2>3
  <2> QED BY <2>1, <2>4, <2>5, <2>6, <2>7, <2>8
<1>13. Goal BY <1>11, <1>12
<1> QED BY <1>13 DEF k, block, after, rest

(* The bytes of a whole text are still to come when it has been sent.      *)
LEMMA SentMakesUp ==
  ASSUME NEW m \in Seq(Chars)
  PROVE  LET sent == <<>> \o m \o <<NUL>>
         IN sent \in Seq(Bytes) /\ sent # <<>> /\ <<>> \o sent = m \o <<NUL>>
<1>1. m \in Seq(Bytes) /\ <<NUL>> \in Seq(Bytes) /\ <<>> \in Seq(Bytes)
  <2>1. Chars \subseteq Bytes /\ NUL \in Bytes BY DEF Bytes
  <2> QED BY <2>1, SeqMonotonic
<1>2. <<>> \o m = m BY <1>1, ConcatEmptySeq
<1>3. m \o <<NUL>> \in Seq(Bytes) /\ m \o <<NUL>> # <<>>
  BY <1>1, ConcatProperties, ConcatEqualIffEmpty
<1>4. <<>> \o (m \o <<NUL>>) = m \o <<NUL>> BY <1>3, ConcatEmptySeq
<1> QED BY <1>2, <1>3, <1>4

(* What a block gives is a text.                                           *)
LEMMA BeforeNulType ==
  ASSUME NEW b \in Seq(Bytes) PROVE BeforeNul(b) \in Seq(Chars)
<1> DEFINE First(i) == b[i] = NUL /\ \A j \in 1 .. i - 1 : b[j] # NUL
<1>1. DOMAIN b = 1 .. Len(b) /\ Len(b) \in Nat /\ \A i \in 1 .. Len(b) : b[i] \in Bytes
  OBVIOUS
<1>2. ASSUME NEW n \in 0 .. Len(b), \A i \in 1 .. n : b[i] # NUL
      PROVE  SubSeq(b, 1, n) \in Seq(Chars)
  <2>1. \A i \in 1 .. n : b[i] \in Chars BY <1>1, <1>2 DEF Bytes
  <2>2. 1 \in Int /\ n \in Int BY <1>1
  <2> QED BY <2>1, <2>2, SubSeqProperties
<1>3. CASE \A i \in DOMAIN b : b[i] # NUL
  <2>1. BeforeNul(b) = b BY <1>3, NoNul
  <2>2. Len(b) \in 0 .. Len(b) BY <1>1
  <2>3. SubSeq(b, 1, Len(b)) \in Seq(Chars) BY <1>1, <1>2, <1>3, <2>2
  <2>4. SubSeq(b, 1, Len(b)) = b BY SubSeqFull
  <2> QED BY <2>1, <2>3, <2>4
<1>4. CASE \E i \in DOMAIN b : b[i] = NUL
  <2> DEFINE T == {i \in 1 .. Len(b) : b[i] = NUL}
             c == CHOOSE i \in DOMAIN b : First(i)
  <2>1. PICK n \in T : \A m \in T : n <= m
    <3>1. T \in SUBSET Nat /\ T # {} BY <1>1, <1>4
    <3> HIDE DEF T
    <3> QED BY <3>1, Least
  <2>2. n \in DOMAIN b /\ First(n)
    <3>1. n \in 1 .. Len(b) /\ b[n] = NUL BY <2>1
    <3>2. ASSUME NEW j \in 1 .. n - 1 PROVE b[j] # NUL
      <4>1. j \in 1 .. Len(b) /\ ~(n <= j) BY <1>1, <3>1
      <4>2. j \notin T BY <2>1, <4>1
      <4> QED BY <4>1, <4>2
    <3> QED BY <1>1, <3>1, <3>2
  <2>3. c \in DOMAIN b /\ First(c) BY <2>2
  <2>4. BeforeNul(b) = SubSeq(b, 1, c - 1) BY <1>4 DEF BeforeNul
  <2> HIDE DEF c
  <2>5. c - 1 \in 0 .. Len(b) /\ \A i \in 1 .. c - 1 : b[i] # NUL BY <1>1, <2>3
  <2> QED BY <1>2, <2>4, <2>5
<1> QED BY <1>3, <1>4

-----------------------------------------------------------------------------
(* The parts of a turn of readAll().                                       *)

(* A block that is not full and that the network did not cut is the rest   *)
(* of the stream.                                                          *)
LEMMA NothingLeft ==
  ASSUME NEW stream, NEW k \in 1 .. Full(stream), k = Full(stream), k # Block
  PROVE  Rest(stream, k) = <<>>
<1>1. k = Len(stream) BY DEF Full
<1>2. 1 .. Len(stream) - k = {} BY <1>1
<1> QED BY <1>2, NoRest

(* A turn that finds data.                                                 *)
LEMMA TurnWithData ==
  ASSUME ~broken, NEW stream, stream # <<>>, NEW text, NEW ended,
         NEW t \in Turns(stream, text, ended)
  PROVE  \E k \in 1 .. Full(stream) :
           t = Turn(Rest(stream, k), text \o BeforeNul(SubSeq(stream, 1, k)),
                    k = Block, IF k = Full(stream) THEN 0 ELSE 1)
  BY DEF Turns

(* A turn that does not.                                                   *)
LEMMA TurnWithoutData ==
  ASSUME NEW stream, broken \/ stream = <<>>, NEW text, NEW ended,
         NEW t \in Turns(stream, text, ended)
  PROVE  /\ t.cut = 0 /\ t.stream = <<>> /\ ~t.more
         /\ t.text = IF broken THEN <<>> ELSE text
<1>1. CASE broken
  <2>1. t = Turn(<<>>, <<>>, FALSE, 0) BY <1>1 DEF Turns
  <2> QED BY <1>1, <2>1 DEF Turn
<1>2. CASE ~broken
  <2>1. ended /\ t = Turn(<<>>, text, FALSE, 0) BY <1>2 DEF Turns
  <2> QED BY <1>2, <2>1 DEF Turn
<1> QED BY <1>1, <1>2

LEMMA TurnCut ==
  ASSUME NEW stream, NEW text, NEW ended, NEW t \in Turns(stream, text, ended)
  PROVE  t.cut \in {0, 1}
<1>1. CASE broken \/ stream = <<>> BY <1>1, TurnWithoutData
<1>2. CASE ~broken /\ stream # <<>>
  <2>1. PICK k \in 1 .. Full(stream) :
          t = Turn(Rest(stream, k), text \o BeforeNul(SubSeq(stream, 1, k)),
                   k = Block, IF k = Full(stream) THEN 0 ELSE 1)
    BY <1>2, TurnWithData
  <2> QED BY <2>1 DEF Turn
<1> QED BY <1>1, <1>2

(* What readAll() makes of a stream is a text and a stream.                *)
LEMMA TurnType ==
  ASSUME NEW stream \in Seq(Bytes), NEW text \in Seq(Chars), NEW ended,
         NEW t \in Turns(stream, text, ended)
  PROVE  /\ t.stream \in Seq(Bytes) /\ t.text \in Seq(Chars)
         /\ t.cut \in {0, 1}
         /\ (t.cut = 0 /\ ~t.more) => t.stream = <<>>
<1>1. CASE broken \/ stream = <<>>
  <2>1. /\ t.cut = 0 /\ t.stream = <<>>
        /\ t.text = IF broken THEN <<>> ELSE text
    BY <1>1, TurnWithoutData
  <2>2. <<>> \in Seq(Bytes) /\ <<>> \in Seq(Chars) OBVIOUS
  <2> QED BY <2>1, <2>2
<1>2. CASE ~broken /\ stream # <<>>
  <2>1. PICK k \in 1 .. Full(stream) :
          t = Turn(Rest(stream, k), text \o BeforeNul(SubSeq(stream, 1, k)),
                   k = Block, IF k = Full(stream) THEN 0 ELSE 1)
    BY <1>2, TurnWithData
  <2> DEFINE got == BeforeNul(SubSeq(stream, 1, k))
             n   == Len(stream)
  <2>2. /\ t.stream = Rest(stream, k) /\ t.text = text \o got
        /\ t.cut = IF k = Full(stream) THEN 0 ELSE 1
    BY <2>1 DEF Turn
  <2>3. ~t.more => k # Block BY <2>1, Zenon DEF Turn
  <2>4. n \in Nat /\ Block \in Nat BY WireConstants
  <2>5. k \in 1 .. n
    <3>1. Full(stream) \in Nat /\ Full(stream) <= n BY <2>4 DEF Full
    <3> QED BY <2>4, <3>1
  <2>6. got \in Seq(Chars)
    <3>1. SubSeq(stream, 1, k) \in Seq(Bytes)
      <4>1. \A i \in 1 .. k : stream[i] \in Bytes BY <2>4, <2>5
      <4>2. 1 \in Int /\ k \in Int BY <2>5
      <4> QED BY <4>1, <4>2, SubSeqProperties
    <3> QED BY <3>1, BeforeNulType
  <2> HIDE DEF got
  <2>7. text \o got \in Seq(Chars) BY <2>6
  <2>8. Rest(stream, k) \in Seq(Bytes)
    <3>1. n - k \in Nat BY <2>4, <2>5
    <3>2. \A i \in 1 .. n - k : stream[i + k] \in Bytes
      <4>1. \A i \in 1 .. n - k : i + k \in 1 .. n BY <2>4, <2>5
      <4> QED BY <4>1
    <3> QED BY <3>1, <3>2 DEF Rest
  <2>9. (t.cut = 0 /\ ~t.more) => t.stream = <<>> BY <2>2, <2>3, NothingLeft
  <2> QED BY <2>2, <2>7, <2>8, <2>9
<1> QED BY <1>1, <1>2

LEMMA WrittenType ==
  ASSUME NEW stream \in Seq(Bytes), NEW text \in Seq(Chars), NEW reader
  PROVE  Written(stream, text, reader) \in Seq(Bytes)
<1>1. text \in Seq(Bytes) /\ <<NUL>> \in Seq(Bytes)
  <2>1. Chars \subseteq Bytes /\ NUL \in Bytes BY DEF Bytes
  <2> QED BY <2>1, SeqMonotonic
<1>2. stream \o text \in Seq(Bytes) BY <1>1, ConcatProperties
<1>3. (stream \o text) \o <<NUL>> \in Seq(Bytes) BY <1>1, <1>2, ConcatProperties
<1> QED BY <1>3 DEF Written

(* The fields of an end that has moved.                                    *)
LEMMA Moved ==
  ASSUME NEW s, s = [at |-> s.at, text |-> s.text, user |-> s.user],
         NEW where, NEW text
  PROVE  [s EXCEPT !.at = where, !.text = text]
           = [at |-> where, text |-> text, user |-> s.user]
<1> DEFINE z == [s EXCEPT !.at = where, !.text = text]
<1>1. s \in [at : {s.at, where}, text : {s.text}, user : {s.user}] OBVIOUS
<1>2. /\ z.at = where /\ z.text = text /\ z.user = s.user
      /\ z \in [at : {s.at, where}, text : {text}, user : {s.user}]
  BY <1>1
<1> HIDE DEF z
<1>3. z = [at |-> where, text |-> text, user |-> s.user] BY <1>2
<1> QED BY <1>3 DEF z

(* The same for an end that moves and logs in.                             *)
LEMMA MovedAs ==
  ASSUME NEW s, s = [at |-> s.at, text |-> s.text, user |-> s.user],
         NEW where, NEW text, NEW user
  PROVE  [s EXCEPT !.at = where, !.text = text, !.user = user]
           = [at |-> where, text |-> text, user |-> user]
<1> DEFINE z == [s EXCEPT !.at = where, !.text = text, !.user = user]
<1>1. s \in [at : {s.at, where}, text : {s.text}, user : {s.user}] OBVIOUS
<1>2. /\ z.at = where /\ z.text = text /\ z.user = user
      /\ z \in [at : {s.at, where}, text : {text}, user : {user}]
  BY <1>1
<1> HIDE DEF z
<1>3. z = [at |-> where, text |-> text, user |-> user] BY <1>2
<1> QED BY <1>3 DEF z

-----------------------------------------------------------------------------
(* Types, and the mails that were asked for: there are ids for all of them *)
(* only because of the latter, so the two are proved together.             *)

(* What may become a mail: a text not read yet, and one that was read.     *)
Texts(stream, at) ==
  (IF stream # <<>> \/ at = "read" THEN 1 ELSE 0)
    + (IF at = "process" THEN 1 ELSE 0)

LEMMA TextsType == \A stream, at : Texts(stream, at) \in {0, 1, 2}
<1> SUFFICES ASSUME NEW stream, NEW at PROVE Texts(stream, at) \in {0, 1, 2} OBVIOUS
<1>1. (IF stream # <<>> \/ at = "read" THEN 1 ELSE 0) \in {0, 1} OBVIOUS
<1>2. (IF at = "process" THEN 1 ELSE 0) \in {0, 1} OBVIOUS
<1> QED BY <1>1, <1>2 DEF Texts

Asked == Len(world.mails) + Texts(up, server.at) <= asked + cuts

LEMMA AskedFor == TypeOK => (MailsAreAskedFor <=> Asked)
<1> DEFINE unread == IF up # <<>> \/ server.at = "read" THEN 1 ELSE 0
           inHand == IF server.at = "process" THEN 1 ELSE 0
           n      == Len(world.mails)
<1> SUFFICES ASSUME TypeOK PROVE MailsAreAskedFor <=> Asked OBVIOUS
<1>1. unread \in Nat /\ inHand \in Nat OBVIOUS
<1>2. n \in Nat
  <2>1. WorldOK(world) BY DEF TypeOK, WorldOK
  <2> QED BY <2>1, WorldParts
<1>3. MailsAreAskedFor <=> n + unread + inHand <= asked + cuts
  BY Zenon DEF MailsAreAskedFor
<1>4. Asked <=> n + (unread + inHand) <= asked + cuts BY Zenon DEF Asked, Texts
<1> HIDE DEF unread, inHand, n
<1> QED BY <1>1, <1>2, <1>3, <1>4

TypeInv == TypeOK /\ Asked

(* The types of the parts.                                                 *)
LEMMA Parts ==
  ASSUME TypeInv
  PROVE  /\ client = [at |-> client.at, text |-> client.text, user |-> client.user]
         /\ server = [at |-> server.at, text |-> server.text, user |-> server.user]
         /\ client.text \in Seq(Chars) /\ server.text \in Seq(Chars)
         /\ client.user \in Line \cup {Nobody} /\ server.user \in Line \cup {Nobody}
         /\ up \in Seq(Bytes) /\ down \in Seq(Bytes)
         /\ asked \in 0 .. MaxRequests /\ cuts \in 0 .. MaxCuts
         /\ WorldOK(world) /\ Len(world.mails) \in Nat
         /\ Len(world.mails) <= Len(Ids)
<1> DEFINE T == Seq(Chars)
           U == Line \cup {Nobody}
           C == {"prompt", "read", "show", "gone"}
           S == {"start", "wait", "read", "process", "gone"}
<1>1. client \in [at : C, text : T, user : U] /\ server \in [at : S, text : T, user : U]
  BY DEF TypeInv, TypeOK
<1> HIDE DEF T, U, C, S
<1>2. /\ client = [at |-> client.at, text |-> client.text, user |-> client.user]
      /\ server = [at |-> server.at, text |-> server.text, user |-> server.user]
      /\ client.text \in T /\ server.text \in T
      /\ client.user \in U /\ server.user \in U
  BY <1>1
<1>3. up \in Seq(Bytes) /\ down \in Seq(Bytes) BY DEF TypeInv, TypeOK, Bytes
<1>4. asked \in 0 .. MaxRequests /\ cuts \in 0 .. MaxCuts BY DEF TypeInv, TypeOK
<1>5. WorldOK(world) BY DEF TypeInv, TypeOK, WorldOK
<1>6. Len(world.mails) \in Nat BY <1>5, WorldParts
<1>7. Len(world.mails) <= Len(Ids)
  <2> DEFINE n == Len(world.mails)
             t == Texts(up, server.at)
             m == Len(Ids)
  <2>1. t \in Nat BY TextsType
  <2>2. n + t <= asked + cuts BY DEF TypeInv, Asked
  <2>3. MaxRequests + MaxCuts <= m /\ MaxRequests \in Nat /\ MaxCuts \in Nat
    BY WireConstants
  <2>4. m \in Nat BY IdsType
  <2>5. n \in Nat BY <1>6
  <2> HIDE DEF n, t, m
  <2>6. n <= m BY <1>4, <2>1, <2>2, <2>3, <2>4, <2>5
  <2> QED BY <2>6 DEF n, m
<1> QED BY <1>2, <1>3, <1>4, <1>5, <1>6, <1>7 DEF T, U

LEMMA TypeInit == Init => TypeInv
<1> DEFINE T == Seq(Chars)
           U == Line \cup {Nobody}
           B == Seq(Chars \cup {NUL})
           C == [at : {"prompt", "read", "show", "gone"}, text : T, user : U]
           S == [at : {"start", "wait", "read", "process", "gone"}, text : T, user : U]
<1> SUFFICES ASSUME Init PROVE TypeInv OBVIOUS
<1>1. MaxCuts \in Nat /\ MaxRequests \in Nat /\ MaxConnections \in Nat \ {0}
  BY WireConstants
<1>2. <<>> \in T /\ Nobody \in U /\ <<>> \in B /\ <<>> \in Seq(Mails) OBVIOUS
<1>3. world = [mails |-> <<>>, inbox |-> {}] BY DEF Init, NoMail
<1>4. world \in Worlds /\ world.inbox = {} BY <1>2, <1>3 DEF Worlds
<1>5. client \in C /\ server \in S
  <2> HIDE DEF T, U
  <2> QED BY <1>2 DEF Init
<1>6. client.at = "prompt" BY DEF Init
<1>7. cuts \in 0 .. MaxCuts /\ asked \in 0 .. MaxRequests
      /\ connections \in 0 .. MaxConnections
  BY <1>1 DEF Init
<1>8. up \in B /\ down \in B /\ broken \in BOOLEAN BY <1>2 DEF Init
<1> HIDE DEF T, U, B
<1>9. request = None /\ shown = None /\ reply = None BY DEF Init
<1>10. TypeOK
  <2>1. client.at \in {"read", "show"} => request \in Typed BY <1>6
  <2>2. \A entry \in world.inbox : entry[2] \in DOMAIN world.mails BY <1>4
  <2> QED BY <1>4, <1>5, <1>7, <1>8, <1>9, <2>1, <2>2, Zenon DEF TypeOK, B, T, U
<1>11. Len(world.mails) = 0 BY <1>3
<1>12. Texts(up, server.at) = 0 BY DEF Init, Texts
<1>13. Asked BY <1>11, <1>12 DEF Init, Asked
<1> QED BY <1>10, <1>13 DEF TypeInv

(* An end that moves keeps its type.                                       *)
ClientType ==
  client \in [at : {"prompt", "read", "show", "gone"}, text : Seq(Chars),
              user : Line \cup {Nobody}]
ServerType ==
  server \in [at : {"start", "wait", "read", "process", "gone"},
              text : Seq(Chars), user : Line \cup {Nobody}]

LEMMA ClientMoves ==
  ASSUME TypeInv, NEW at \in {"prompt", "read", "show", "gone"},
         NEW text \in Seq(Chars), NEW user \in Line \cup {Nobody},
         client' = [at |-> at, text |-> text, user |-> user]
  PROVE  ClientType' /\ client'.at = at /\ client'.text = text /\ client'.user = user
<1> DEFINE T == Seq(Chars)
           U == Line \cup {Nobody}
<1>1. text \in T /\ user \in U OBVIOUS
<1> HIDE DEF T, U
<1>2. client' \in [at : {"prompt", "read", "show", "gone"}, text : T, user : U]
  BY <1>1
<1> QED BY <1>2 DEF ClientType, T, U

LEMMA ServerMovesTo ==
  ASSUME TypeInv, NEW at \in {"start", "wait", "read", "process", "gone"},
         NEW text \in Seq(Chars), NEW user \in Line \cup {Nobody},
         server' = [at |-> at, text |-> text, user |-> user]
  PROVE  ServerType' /\ server'.at = at /\ server'.text = text /\ server'.user = user
<1> DEFINE T == Seq(Chars)
           U == Line \cup {Nobody}
<1>1. text \in T /\ user \in U OBVIOUS
<1> HIDE DEF T, U
<1>2. server' \in [at : {"start", "wait", "read", "process", "gone"}, text : T, user : U]
  BY <1>1
<1> QED BY <1>2 DEF ServerType, T, U

LEMMA ServerAtMoves ==
  ASSUME TypeInv, NEW where \in {"start", "wait", "read", "process", "gone"},
         ServerAt(where)
  PROVE  /\ server' = [at |-> where, text |-> <<>>, user |-> server.user]
         /\ ServerType' /\ server'.at = where
<1>1. server' = [at |-> where, text |-> <<>>, user |-> server.user]
  BY Parts, Moved DEF ServerAt
<1>2. <<>> \in Seq(Chars) OBVIOUS
<1>3. ServerType' /\ server'.at = where BY <1>1, <1>2, Parts, ServerMovesTo
<1> QED BY <1>1, <1>3

(* There are no more mails or texts, for as many requests and cuts.        *)
LEMMA AskedKept ==
  ASSUME TypeInv, UNCHANGED world, asked' = asked, cuts' \in Nat, cuts' >= cuts,
         \/ Texts(up', server'.at) <= Texts(up, server.at)
         \/ cuts' > cuts /\ Texts(up', server'.at) <= Texts(up, server.at) + 1
  PROVE  Asked'
<1> DEFINE n == Len(world.mails)
           t == Texts(up, server.at)
           u == Texts(up', server'.at)
           d == cuts'
<1>1. n \in Nat BY Parts
<1>2. t \in Nat /\ u \in Nat BY TextsType
<1>3. asked \in Nat /\ cuts \in Nat BY Parts
<1>4. n + t <= asked + cuts BY DEF TypeInv, Asked
<1>5. u <= t \/ (d > cuts /\ u <= t + 1) OBVIOUS
<1>6. d \in Nat /\ d >= cuts OBVIOUS
<1> HIDE DEF n, t, u, d
<1>7. n + u <= asked + d BY <1>1, <1>2, <1>3, <1>4, <1>5, <1>6
<1> QED BY <1>7 DEF Asked, n, u, d

LEMMA AskType == ASSUME TypeInv, NEW r \in Typed, Ask(r) PROVE TypeInv'
<1>1. client' = [at |-> "read", text |-> <<>>, user |-> client.user]
  BY Parts, Moved DEF Ask
<1>2. <<>> \in Seq(Chars) OBVIOUS
<1>3. ClientType' /\ client'.at = "read" BY <1>1, <1>2, Parts, ClientMoves
<1>4. up' \in Seq(Bytes)
  <2>1. Compose(r) \in Seq(Chars)
    <3>1. Compose(r) \in Contents BY ComposedText, WireConstants
    <3> QED BY <3>1 DEF Contents
  <2> QED BY <2>1, Parts, WrittenType DEF Ask
<1>5. asked' \in 0 .. MaxRequests /\ asked' = asked + 1
  BY Parts, WireConstants DEF Ask
<1>6. TypeOK'
  BY <1>3, <1>4, <1>5 DEF Ask, TypeInv, TypeOK, ClientType, Bytes
<1>7. Asked'
  <2> DEFINE n == Len(world.mails)
             t == Texts(up, server.at)
             u == Texts(up', server'.at)
  <2>1. u <= t + 1
    <3>1. server' = server BY DEF Ask
    <3>2. \A a, b : Texts(a, server.at) <= Texts(b, server.at) + 1
      <4> SUFFICES ASSUME NEW a, NEW b
                   PROVE  Texts(a, server.at) <= Texts(b, server.at) + 1
        OBVIOUS
      <4> DEFINE x(s) == IF s # <<>> \/ server.at = "read" THEN 1 ELSE 0
                 y == IF server.at = "process" THEN 1 ELSE 0
      <4>1. x(a) \in {0, 1} /\ x(b) \in {0, 1} /\ y \in {0, 1} OBVIOUS
      <4>2. Texts(a, server.at) = x(a) + y /\ Texts(b, server.at) = x(b) + y
        BY Zenon DEF Texts
      <4> HIDE DEF x, y
      <4> QED BY <4>1, <4>2
    <3> QED BY <3>1, <3>2
  <2>2. /\ n \in Nat /\ t \in Nat /\ u \in Nat /\ asked \in Nat /\ cuts \in Nat
    <3>1. n \in Nat /\ asked \in Nat /\ cuts \in Nat BY Parts
    <3>2. t \in Nat /\ u \in Nat BY TextsType
    <3> QED BY <3>1, <3>2
  <2>3. n + t <= asked + cuts BY DEF TypeInv, Asked
  <2>4. UNCHANGED <<world, cuts>> BY DEF Ask
  <2> HIDE DEF n, t, u
  <2>5. n + u <= asked' + cuts BY <1>5, <2>1, <2>2, <2>3
  <2> QED BY <2>4, <2>5 DEF Asked, n, u
<1> QED BY <1>6, <1>7 DEF TypeInv

LEMMA ReadReplyType == ASSUME TypeInv, ReadReply PROVE TypeInv'
<1>1. PICK t \in Turns(down, client.text, server.at = "gone") :
        /\ cuts + t.cut <= MaxCuts /\ cuts' = cuts + t.cut /\ down' = t.stream
        /\ client' = [client EXCEPT !.at = IF t.more THEN "read" ELSE "show",
                                    !.text = t.text]
  BY DEF ReadReply
<1> DEFINE where == IF t.more THEN "read" ELSE "show"
<1>2. client' = [at |-> where, text |-> t.text, user |-> client.user]
  BY <1>1, Parts, Moved
<1>3. t.cut \in {0, 1} /\ t.stream \in Seq(Bytes) /\ t.text \in Seq(Chars)
  BY Parts, TurnType
<1>4. ClientType'
  <2>1. where \in {"prompt", "read", "show", "gone"} OBVIOUS
  <2> HIDE DEF where
  <2> QED BY <1>2, <1>3, <2>1, Parts, ClientMoves
<1>5. cuts' \in 0 .. MaxCuts /\ cuts' >= cuts BY <1>1, <1>3, Parts, WireConstants
<1>6. request \in Typed BY DEF ReadReply, TypeInv, TypeOK
<1>7. TypeOK'
  BY <1>1, <1>3, <1>4, <1>5, <1>6 DEF ReadReply, TypeInv, TypeOK, ClientType, Bytes, count
<1>8. Asked'
  <2>1. UNCHANGED <<world, asked, up, server>> BY DEF ReadReply, count
  <2>2. Texts(up', server'.at) <= Texts(up, server.at) BY <2>1, TextsType
  <2> QED BY <1>5, <2>1, <2>2, AskedKept
<1> QED BY <1>7, <1>8 DEF TypeInv

(* How many texts there are where the thread is.                           *)
LEMMA TextsValues ==
  /\ \A s : Texts(s, "read") = 1
  /\ \A s : Texts(s, "process") = Texts(s, "wait") + 1
  /\ \A s : Texts(s, "wait") \in {0, 1}
  /\ \A s : s # <<>> => Texts(s, "wait") = 1
  /\ \A s : Texts(s, "start") = Texts(s, "wait")
  /\ Texts(<<>>, "wait") = 0 /\ Texts(<<>>, "gone") = 0
  BY DEF Texts

LEMMA ShowType == ASSUME TypeInv, Show PROVE TypeInv'
<1>1. client.at = "show" /\ request \in Typed BY DEF Show, TypeInv, TypeOK
<1>2. <<>> \in Seq(Chars) /\ <<>> \in Seq(Bytes) OBVIOUS
<1>3. ASSUME Exit PROVE ClientType' /\ client'.at = "gone" /\ down' \in Seq(Bytes)
  <2>1. client' = [at |-> "gone", text |-> <<>>, user |-> client.user]
    BY <1>3, Parts, Moved DEF Exit
  <2>2. ClientType' /\ client'.at = "gone" BY <1>2, <2>1, Parts, ClientMoves
  <2> QED BY <1>2, <1>3, <2>2 DEF Exit
<1>4. UNCHANGED <<up, broken, server, world, cuts, asked, connections>>
  BY DEF Show, count
<1>5. Asked'
  <2>1. cuts \in Nat BY Parts
  <2>2. Texts(up', server'.at) <= Texts(up, server.at) BY <1>4, TextsType
  <2> QED BY <1>4, <2>1, <2>2, AskedKept
<1>6. CASE client.text = <<>>
  <2>1. Exit /\ UNCHANGED <<request, reply, shown>> BY <1>6 DEF Show
  <2>2. TypeOK'
    BY <1>3, <1>4, <2>1 DEF TypeInv, TypeOK, ClientType, Bytes
  <2> QED BY <1>5, <2>2 DEF TypeInv
<1>7. CASE client.text # <<>>
  <2> DEFINE z == Shows(request, client.text)
  <2>1. /\ shown' = z /\ request' = None /\ reply' = None
        /\ IF z.result = "abort" THEN Exit
           ELSE /\ client' = [client EXCEPT
                     !.at = "prompt", !.text = <<>>,
                     !.user = IF request.kind = "LOGIN" /\ z.result = "done"
                              THEN request.user ELSE @]
                /\ UNCHANGED down
    BY <1>7 DEF Show
  <2>2. z \in Results BY Parts, ShowsType
  <2> HIDE DEF z
  <2>3. ClientType' /\ client'.at \in {"prompt", "gone"} /\ down' \in Seq(Bytes)
    <3>1. CASE z.result = "abort" BY <1>3, <2>1, <3>1
    <3>2. CASE z.result # "abort"
      <4> DEFINE u == IF request.kind = "LOGIN" /\ z.result = "done"
                      THEN request.user ELSE client.user
      <4>1. u \in Line \cup {Nobody}
        <5>1. CASE request.kind = "LOGIN"
          <6>1. request.user \in Line BY <1>1, <5>1, WireConstants DEF Typeable
          <6> QED BY <6>1, Parts
        <5>2. CASE request.kind # "LOGIN" BY <5>2, Parts
        <5> QED BY <5>1, <5>2
      <4>2. client' = [client EXCEPT !.at = "prompt", !.text = <<>>, !.user = u]
        BY <2>1, <3>2
      <4> HIDE DEF u
      <4>3. client' = [at |-> "prompt", text |-> <<>>, user |-> u]
        BY <4>2, Parts, MovedAs
      <4>4. ClientType' /\ client'.at = "prompt" BY <1>2, <4>1, <4>3, ClientMoves
      <4>5. down' \in Seq(Bytes) BY <2>1, <3>2, Parts
      <4> QED BY <4>4, <4>5
    <3> QED BY <3>1, <3>2
  <2>4. TypeOK'
    BY <1>4, <2>1, <2>2, <2>3 DEF TypeInv, TypeOK, ClientType, Bytes
  <2> QED BY <1>5, <2>4 DEF TypeInv
<1> QED BY <1>6, <1>7

LEMMA QuitType == ASSUME TypeInv, Quit PROVE TypeInv'
<1>1. <<>> \in Seq(Chars) /\ <<>> \in Seq(Bytes) OBVIOUS
<1>2. client' = [at |-> "gone", text |-> <<>>, user |-> client.user]
  BY Parts, Moved DEF Quit, Exit
<1>3. ClientType' /\ client'.at = "gone" BY <1>1, <1>2, Parts, ClientMoves
<1>4. /\ UNCHANGED <<up, broken, server, request, shown, world, reply, cuts>>
      /\ UNCHANGED <<asked, connections>> /\ down' = <<>>
  BY DEF Quit, Exit, count
<1>5. TypeOK' BY <1>1, <1>3, <1>4 DEF TypeInv, TypeOK, ClientType, Bytes
<1>6. Texts(up', server'.at) <= Texts(up, server.at) BY <1>4, TextsType
<1>7. cuts \in Nat BY Parts
<1>8. Asked' BY <1>4, <1>6, <1>7, AskedKept
<1> QED BY <1>5, <1>8 DEF TypeInv

(* The steps of the thread that leave everything but itself and its stream *)
(* alone.                                                                  *)
LEMMA ServerStepType ==
  ASSUME TypeInv, NEW where \in {"wait", "read", "gone"}, ServerAt(where),
         \/ up' = up /\ server.at = "start" /\ where = "wait"
         \/ up' = up /\ server.at = "wait" /\ where = "read" /\ up # <<>>
         \/ up' = <<>> /\ where = "gone",
         UNCHANGED <<down, broken, client, request, shown, world, reply>>,
         UNCHANGED <<cuts, asked, connections>>
  PROVE  TypeInv'
<1>1. ServerType' /\ server'.at = where BY ServerAtMoves
<1>2. <<>> \in Seq(Bytes) OBVIOUS
<1>3. TypeOK' BY <1>1, <1>2 DEF TypeInv, TypeOK, ServerType, Bytes
<1>4. cuts \in Nat BY Parts
<1>5. Texts(up', where) <= Texts(up, server.at)
  <2>1. Texts(up, server.at) \in Nat BY TextsType
  <2>2. CASE up' = up /\ server.at = "start" /\ where = "wait"
    BY <2>1, <2>2, TextsValues
  <2>3. CASE up' = up /\ server.at = "wait" /\ where = "read" /\ up # <<>>
    BY <2>3, TextsValues
  <2>4. CASE up' = <<>> /\ where = "gone" BY <2>1, <2>4, TextsValues
  <2> QED BY <2>2, <2>3, <2>4
<1>6. Asked' BY <1>1, <1>4, <1>5, AskedKept
<1> QED BY <1>3, <1>6 DEF TypeInv

LEMMA ServerStepsType ==
  ASSUME TypeInv, CheckBan \/ IsOpen \/ DropBanned \/ KillServer PROVE TypeInv'
<1>1. CASE CheckBan
  <2>1. /\ server.at = "start"
        /\ UNCHANGED <<down, broken, client, request, shown, world, reply>>
        /\ UNCHANGED <<cuts, asked, connections>>
    BY <1>1 DEF CheckBan, count
  <2>2. CASE ServerAt("wait") /\ UNCHANGED up
    <3>1. ServerAt("wait") BY <2>2
    <3>2. up' = up BY <2>2
    <3>3. Texts(up', "wait") <= Texts(up, "start")
      BY <3>2, TextsValues, TextsType
    <3>4. ServerType' /\ server'.at = "wait" BY <3>1, ServerAtMoves
    <3>5. TypeOK' BY <2>1, <3>2, <3>4 DEF TypeInv, TypeOK, ServerType
    <3>6. cuts \in Nat BY Parts
    <3>7. Asked' BY <2>1, <3>3, <3>4, <3>6, AskedKept
    <3> QED BY <3>5, <3>7 DEF TypeInv
  <2>3. CASE ServerAt("gone") /\ up' = <<>> BY <2>1, <2>3, ServerStepType
  <2> QED BY <1>1, <2>2, <2>3 DEF CheckBan
<1>2. CASE IsOpen
  BY <1>2, ServerStepType DEF IsOpen, wire, count
<1>3. CASE DropBanned BY <1>3, ServerStepType DEF DropBanned, count
<1>4. CASE KillServer BY <1>4, ServerStepType DEF KillServer, count
<1> QED BY <1>1, <1>2, <1>3, <1>4

LEMMA ReadRequestType == ASSUME TypeInv, ReadRequest PROVE TypeInv'
<1>1. PICK t \in Turns(up, server.text, client.at = "gone") :
        /\ cuts + t.cut <= MaxCuts /\ cuts' = cuts + t.cut /\ up' = t.stream
        /\ server' = [server EXCEPT !.at = IF t.more THEN "read" ELSE "process",
                                    !.text = t.text]
  BY DEF ReadRequest
<1> DEFINE where == IF t.more THEN "read" ELSE "process"
<1>2. server' = [at |-> where, text |-> t.text, user |-> server.user]
  BY <1>1, Parts, Moved
<1>3. /\ t.cut \in {0, 1} /\ t.stream \in Seq(Bytes) /\ t.text \in Seq(Chars)
      /\ (t.cut = 0 /\ ~t.more) => t.stream = <<>>
  BY Parts, TurnType
<1>4. ServerType' /\ server'.at = where
  <2>1. where \in {"start", "wait", "read", "process", "gone"} OBVIOUS
  <2> HIDE DEF where
  <2> QED BY <1>2, <1>3, <2>1, Parts, ServerMovesTo
<1>5. cuts' \in 0 .. MaxCuts /\ cuts' >= cuts /\ (t.cut = 1 => cuts' > cuts)
  BY <1>1, <1>3, Parts, WireConstants
<1>6. UNCHANGED <<down, broken, client, request, shown, world, reply, asked, connections>>
  BY DEF ReadRequest, count
<1>7. TypeOK'
  BY <1>1, <1>3, <1>4, <1>5, <1>6 DEF TypeInv, TypeOK, ServerType, Bytes
<1>8. Asked'
  <2>1. Texts(up, server.at) = 1 BY TextsValues DEF ReadRequest
  <2>2. CASE t.more
    <3>1. Texts(up', server'.at) = 1 BY <1>4, <2>2, TextsValues
    <3> QED BY <1>5, <1>6, <2>1, <3>1, AskedKept
  <2>3. CASE ~t.more /\ t.stream = <<>>
    <3>1. Texts(up', server'.at) = 1 BY <1>1, <1>4, <2>3, TextsValues
    <3> QED BY <1>5, <1>6, <2>1, <3>1, AskedKept
  <2>4. CASE ~t.more /\ t.stream # <<>>
    <3>1. Texts(up', server'.at) <= 2 BY <1>1, <1>4, <2>4, TextsValues
    <3>2. cuts' > cuts BY <1>3, <1>5, <2>4
    <3> QED BY <1>5, <1>6, <2>1, <3>1, <3>2, AskedKept
  <2> QED BY <2>2, <2>3, <2>4
<1> QED BY <1>7, <1>8 DEF TypeInv

LEMMA HandleType == ASSUME TypeInv, Handle PROVE TypeInv'
<1>1. PICK o \in Process(server.text, server.user, world) :
        /\ server' = [at |-> "wait", text |-> <<>>, user |-> o.user]
        /\ world' = o.world
        /\ down' = Written(down, o.reply, client)
        /\ reply' = IF server.text = <<>> THEN reply ELSE o.reply
  BY DEF Handle
<1>2. /\ server.at = "process"
      /\ UNCHANGED <<up, broken, client, request, shown, cuts, asked, connections>>
  BY DEF Handle, count
<1>3. /\ o.reply \in Contents /\ o.user \in Line \cup {Nobody}
      /\ WorldOK(o.world)
      /\ \/ Len(o.world.mails) = Len(world.mails)
         \/ Len(o.world.mails) = Len(world.mails) + 1
  <2>1. /\ server.text \in Seq(Chars) /\ server.user \in Line \cup {Nobody}
        /\ WorldOK(world) /\ Len(world.mails) <= Len(Ids)
    BY Parts
  <2> QED BY <2>1, ProcessType
<1>4. o.reply \in Seq(Chars) BY <1>3 DEF Contents
<1>5. <<>> \in Seq(Chars) OBVIOUS
<1>6. ServerType' /\ server'.at = "wait" BY <1>1, <1>3, <1>5, ServerMovesTo
<1>7. down' \in Seq(Bytes) BY <1>1, <1>4, Parts, WrittenType
<1>8. reply' = None \/ reply' \in Seq(Chars) BY <1>1, <1>4 DEF TypeInv, TypeOK
<1>9. TypeOK'
  BY <1>1, <1>2, <1>3, <1>6, <1>7, <1>8
  DEF TypeInv, TypeOK, ServerType, Bytes, WorldOK
<1>10. Asked'
  <2> DEFINE n == Len(world.mails)
             m == Len(world'.mails)
             t == Texts(up, server.at)
             u == Texts(up', server'.at)
  <2>1. t = u + 1 BY <1>2, <1>6, TextsValues
  <2>2. u \in Nat BY TextsType
  <2>3. n \in Nat /\ asked \in Nat /\ cuts \in Nat BY Parts
  <2>4. m = n \/ m = n + 1 BY <1>1, <1>3
  <2>5. n + t <= asked + cuts BY DEF TypeInv, Asked
  <2> HIDE DEF n, m, t, u
  <2>6. m + u <= asked + cuts BY <2>1, <2>2, <2>3, <2>4, <2>5
  <2> QED BY <1>2, <2>6 DEF Asked, m, u
<1> QED BY <1>9, <1>10 DEF TypeInv

LEMMA BreakNetworkType == ASSUME TypeInv, BreakNetwork PROVE TypeInv'
<1>1. <<>> \in Seq(Bytes) OBVIOUS
<1>2. /\ broken' = TRUE /\ up' = <<>> /\ down' = <<>>
      /\ UNCHANGED <<client, server, request, shown, world, reply, cuts>>
      /\ UNCHANGED <<asked, connections>>
  BY DEF BreakNetwork, count
<1>3. TypeOK' BY <1>1, <1>2 DEF TypeInv, TypeOK, Bytes
<1>4. Texts(up', server'.at) <= Texts(up, server.at)
  <2> DEFINE x(r) == IF r # <<>> \/ server.at = "read" THEN 1 ELSE 0
             y == IF server.at = "process" THEN 1 ELSE 0
  <2>1. x(<<>>) \in Nat /\ x(up) \in Nat /\ y \in Nat /\ x(<<>>) <= x(up) OBVIOUS
  <2>2. Texts(<<>>, server.at) = x(<<>>) + y /\ Texts(up, server.at) = x(up) + y
    BY Zenon DEF Texts
  <2> HIDE DEF x, y
  <2>3. Texts(<<>>, server.at) <= Texts(up, server.at) BY <2>1, <2>2
  <2> QED BY <1>2, <2>3
<1>5. cuts \in Nat BY Parts
<1>6. Asked' BY <1>2, <1>4, <1>5, AskedKept
<1> QED BY <1>3, <1>6 DEF TypeInv

LEMMA ReconnectType == ASSUME TypeInv, Reconnect PROVE TypeInv'
<1>1. <<>> \in Seq(Chars) /\ <<>> \in Seq(Bytes) /\ Nobody \in Line \cup {Nobody}
  OBVIOUS
<1>2. /\ up' = <<>> /\ down' = <<>> /\ broken' = FALSE
      /\ request' = None /\ shown' = None /\ reply' = None
      /\ connections < MaxConnections /\ connections' = connections + 1
      /\ UNCHANGED <<world, cuts, asked>>
  BY DEF Reconnect, Fresh
<1>3. ClientType' /\ client'.at = "prompt"
  BY <1>1, ClientMoves DEF Reconnect, Fresh
<1>4. ServerType' /\ server'.at = "start"
  BY <1>1, ServerMovesTo DEF Reconnect, Fresh
<1>5. connections' \in 0 .. MaxConnections
  <2>1. connections \in 0 .. MaxConnections BY DEF TypeInv, TypeOK
  <2> QED BY <1>2, <2>1, WireConstants
<1>6. TypeOK'
  BY <1>1, <1>2, <1>3, <1>4, <1>5
  DEF TypeInv, TypeOK, ClientType, ServerType, Bytes
<1>7. Texts(up', server'.at) <= Texts(up, server.at)
  BY <1>2, <1>4, TextsType, TextsValues
<1>8. cuts \in Nat BY Parts
<1>9. Asked' BY <1>2, <1>7, <1>8, AskedKept
<1> QED BY <1>6, <1>9 DEF TypeInv

LEMMA TypeNext == TypeInv /\ [Next]_vars => TypeInv'
<1> SUFFICES ASSUME TypeInv, [Next]_vars PROVE TypeInv' OBVIOUS
<1>1. ASSUME NEW r \in Typed, Ask(r) PROVE TypeInv' BY <1>1, AskType
<1>2. CASE ReadReply BY <1>2, ReadReplyType
<1>3. CASE Show BY <1>3, ShowType
<1>4. CASE Quit BY <1>4, QuitType
<1>5. CASE CheckBan \/ IsOpen \/ DropBanned \/ KillServer BY <1>5, ServerStepsType
<1>6. CASE ReadRequest BY <1>6, ReadRequestType
<1>7. CASE Handle BY <1>7, HandleType
<1>8. CASE BreakNetwork BY <1>8, BreakNetworkType
<1>9. CASE Reconnect BY <1>9, ReconnectType
<1>10. CASE UNCHANGED vars
  BY <1>10 DEF vars, wire, count, TypeInv, TypeOK, Asked
<1> QED
  BY <1>1, <1>2, <1>3, <1>4, <1>5, <1>6, <1>7, <1>8, <1>9, <1>10
  DEF Next, Receive, Serve

LEMMA TypesInvariant == Spec => []TypeInv
  BY TypeInit, TypeNext, PTL DEF Spec

(* The streams, the ends and the mails keep their types, and there is an   *)
(* id for every mail.                                                      *)
THEOREM Types == Spec => []TypeOK
<1>1. TypeInv => TypeOK BY DEF TypeInv
<1> QED BY <1>1, TypesInvariant, PTL

(* No step of the two processes or of the network, faults and cuts         *)
(* included, makes a mail that no request asked for.                       *)
THEOREM NoMailUnasked == Spec => []MailsAreAskedFor
<1>1. TypeInv => MailsAreAskedFor BY AskedFor DEF TypeInv
<1> QED BY <1>1, TypesInvariant, PTL

-----------------------------------------------------------------------------
(* The invariant.                                                          *)

Sound == ClientWaits /\ ServerReads /\ ClientReads /\ LinesAreThere

(* It is enough to keep the parts that hold as long as nothing was cut.    *)
LEMMA InvKept ==
  ASSUME TypeInv', cuts' = 0 => Sound'
  PROVE  WireInv'
<1>1. Ends' BY DEF TypeInv, TypeOK, Ends
<1>2. (cuts \in Nat)'
  <2>1. cuts' \in 0 .. MaxCuts BY DEF TypeInv, TypeOK
  <2> QED BY <2>1
<1> QED BY <1>1, <1>2 DEF WireInv, Sound

LEMMA InvInit == Init => TypeInv /\ WireInv
<1> SUFFICES ASSUME Init PROVE TypeInv /\ WireInv OBVIOUS
<1>1. TypeInv BY TypeInit
<1>2. WireInv
  BY DEF Init, WireInv, Ends, ClientWaits, ServerReads, ClientReads,
         LinesAreThere, Pending
<1> QED BY <1>1, <1>2

(* What a step of the other end leaves alone.                              *)
LEMMA ClientKept ==
  ASSUME ClientReads, LinesAreThere,
         UNCHANGED <<down, broken, client, request, shown, reply, cuts>>
  PROVE  ClientReads' /\ LinesAreThere'
  BY DEF ClientReads, LinesAreThere, Whole

LEMMA ServerKept ==
  ASSUME ServerReads, UNCHANGED <<up, broken, server, request, reply>>
  PROVE  ServerReads'
  BY DEF ServerReads, MakesUp, Whole

LEMMA AskInv ==
  ASSUME TypeInv, WireInv, NEW r \in Typed, Ask(r), TypeInv' PROVE WireInv'
<1>1. client' = [at |-> "read", text |-> <<>>, user |-> client.user]
  BY Parts, Moved DEF Ask
<1>2. cuts' = cuts BY DEF Ask
<1>3. ASSUME cuts = 0 PROVE Sound'
  <2>1. client.at = "prompt" /\ down = <<>> /\ ~Pending
    BY <1>3 DEF Ask, WireInv, ClientWaits
  <2>2. up = <<>> /\ server.at \in {"start", "wait", "gone"}
    BY <2>1 DEF Pending, WireInv, Ends
  <2>3. ClientWaits' BY <1>1, <2>1 DEF Ask, ClientWaits
  <2>4. ClientReads' BY <1>1, <2>1 DEF Ask, ClientReads
  <2>5. LinesAreThere' BY <1>3 DEF Ask, WireInv, LinesAreThere
  <2>6. ServerReads BY <1>3 DEF WireInv
  <2>7. server' = server /\ broken' = broken BY DEF Ask
  <2>8. CASE broken \/ server.at = "gone"
    <3>1. up' = <<>> BY <2>2, <2>8 DEF Ask, Written
    <3>2. ServerReads' BY <2>2, <2>6, <2>7, <3>1 DEF ServerReads
    <3> QED BY <2>3, <2>4, <2>5, <3>2 DEF Sound
  <2>9. CASE ~broken /\ server.at # "gone"
    <3>1. up' = <<>> \o Compose(r) \o <<NUL>> BY <2>2, <2>9 DEF Ask, Written
    <3>2. Compose(r) \in Seq(Chars)
      <4>1. Compose(r) \in Contents BY ComposedText, WireConstants
      <4> QED BY <4>1 DEF Contents
    <3>3. up' \in Seq(Bytes) /\ up' # <<>> /\ <<>> \o up' = Compose(r) \o <<NUL>>
      BY <3>1, <3>2, SentMakesUp
    <3>4. <<>> \in Seq(Chars) OBVIOUS
    <3>5. request' = r /\ reply' = None BY DEF Ask
    <3>6. MakesUp(<<>>, up)' BY <3>3, <3>4, <3>5 DEF MakesUp, Whole, Bytes
    <3>7. ServerReads' BY <2>2, <2>6, <2>7, <2>9, <3>6 DEF ServerReads
    <3> QED BY <2>3, <2>4, <2>5, <3>7 DEF Sound
  <2> QED BY <2>8, <2>9
<1> QED BY <1>2, <1>3, InvKept

LEMMA ReadReplyInv == ASSUME TypeInv, WireInv, ReadReply, TypeInv' PROVE WireInv'
<1>1. PICK t \in Turns(down, client.text, server.at = "gone") :
        /\ cuts' = cuts + t.cut /\ down' = t.stream
        /\ client' = [client EXCEPT !.at = IF t.more THEN "read" ELSE "show",
                                    !.text = t.text]
  BY DEF ReadReply
<1> DEFINE where == IF t.more THEN "read" ELSE "show"
<1>2. client' = [at |-> where, text |-> t.text, user |-> client.user]
  BY <1>1, Parts, Moved
<1>3. t.cut \in {0, 1} BY TurnCut
<1>4. cuts' = 0 => cuts = 0 /\ t.cut = 0
  <2>1. cuts \in Nat BY Parts
  <2> QED BY <1>1, <1>3, <2>1
<1>5. ASSUME cuts = 0, t.cut = 0 PROVE Sound'
  <2>1. /\ client.at = "read" /\ ClientWaits /\ ServerReads /\ ClientReads
        /\ LinesAreThere
        /\ UNCHANGED <<up, broken, server, request, shown, reply>>
    BY <1>5 DEF ReadReply, WireInv
  <2>2. ServerReads' BY <2>1, ServerKept
  <2>3. Pending' <=> Pending BY <2>1 DEF Pending
  <2>4. LinesAreThere' BY <1>5, <2>1 DEF LinesAreThere
  <2>5. /\ reply # None => /\ request \in Typed
                           /\ Shows(request, reply).result # "abort"
    BY <2>1 DEF ClientReads
  <2>6. CASE broken
    <3>1. t.stream = <<>> /\ t.text = <<>> /\ ~t.more BY <2>6, TurnWithoutData
    <3>2. client'.at = "show" /\ client'.text = <<>> /\ down' = <<>> /\ broken'
      BY <1>1, <1>2, <2>1, <2>6, <3>1
    <3>3. ClientReads' BY <2>1, <2>5, <3>2 DEF ClientReads
    <3>4. ClientWaits' BY <3>2 DEF ClientWaits
    <3> QED BY <2>2, <2>4, <3>3, <3>4 DEF Sound
  <2>7. CASE ~broken /\ down = <<>>
    <3>1. t.stream = <<>> /\ server.at = "gone" BY <2>7 DEF Turns, Turn
    <3>2. t.text = client.text /\ ~t.more BY <2>7, TurnWithoutData
    <3>3. ~Pending BY <2>1, <3>1 DEF ServerReads, Pending
    <3>4. ClientWaits' BY <1>1, <2>3, <3>1, <3>3 DEF ClientWaits
    <3>5. client.text = <<>> \/ reply = client.text
      BY <2>1, <2>7 DEF ClientReads, Whole
    <3>6. client'.at = "show" /\ client'.text = client.text BY <1>2, <3>2
    <3>7. ClientReads' BY <2>1, <2>5, <3>5, <3>6 DEF ClientReads
    <3> QED BY <2>2, <2>4, <3>4, <3>7 DEF Sound
  <2>8. CASE ~broken /\ down # <<>>
    <3>1. PICK k \in 1 .. Full(down) :
            t = Turn(Rest(down, k), client.text \o BeforeNul(SubSeq(down, 1, k)),
                     k = Block, IF k = Full(down) THEN 0 ELSE 1)
      BY <2>8, TurnWithData
    <3>2. /\ t.stream = Rest(down, k) /\ t.cut = IF k = Full(down) THEN 0 ELSE 1
          /\ t.text = client.text \o BeforeNul(SubSeq(down, 1, k))
      BY <3>1 DEF Turn
    <3>3. k = Full(down) BY <1>5, <3>2
    <3>4. ~t.more => k # Block BY <3>1, Zenon DEF Turn
    <3>5. /\ reply # None /\ reply \in Seq(Chars)
          /\ client.text \in Seq(Chars) /\ down \in Seq(Bytes)
          /\ client.text \o down = reply \o <<NUL>>
      BY <2>1, <2>8 DEF ClientReads, Whole, TypeInv, TypeOK, Bytes
    <3>6. /\ t.text \in Seq(Chars) /\ t.stream \in Seq(Bytes)
          /\ IF t.stream = <<>> THEN t.text = reply
             ELSE t.text \o t.stream = reply \o <<NUL>>
          /\ k # Block => t.stream = <<>>
      <4> DEFINE got  == client.text \o BeforeNul(SubSeq(down, 1, Full(down)))
                 rest == Rest(down, Full(down))
      <4>1. /\ got \in Seq(Chars) /\ rest \in Seq(Bytes)
            /\ IF rest = <<>> THEN got = reply ELSE got \o rest = reply \o <<NUL>>
            /\ Full(down) # Block => rest = <<>>
        <5>1. down # <<>> BY <2>8
        <5> QED BY <3>5, <5>1, ReadMakesUp
      <4>2. t.text = got /\ t.stream = rest BY <3>2, <3>3
      <4> HIDE DEF got, rest
      <4> QED BY <3>3, <4>1, <4>2
    <3>7. /\ client'.at \in {"read", "show"} /\ client'.text = t.text
          /\ client'.at = "show" => down' = <<>>
      BY <1>1, <1>2, <3>4, <3>6
    <3>8. ~Pending BY <2>1, <2>8 DEF ClientWaits
    <3>9. ClientWaits' BY <2>3, <3>7, <3>8 DEF ClientWaits
    <3>10. Whole(reply, client.text, down)'
      BY <1>1, <2>1, <3>6, <3>7 DEF Whole, Bytes
    <3>11. client'.at = "show" => reply' = client'.text
      BY <3>7, <3>10 DEF Whole
    <3>12. ClientReads' BY <2>1, <2>5, <3>5, <3>7, <3>10, <3>11 DEF ClientReads
    <3> QED BY <2>2, <2>4, <3>9, <3>12 DEF Sound
  <2> QED BY <2>6, <2>7, <2>8
<1> QED BY <1>4, <1>5, InvKept

(* The end of the client.                                                  *)
LEMMA ExitInv ==
  ASSUME TypeInv, WireInv, Exit, TypeInv',
         UNCHANGED <<up, broken, server, request, shown, reply, cuts>>
  PROVE  WireInv'
<1>1. client' = [at |-> "gone", text |-> <<>>, user |-> client.user] /\ down' = <<>>
  BY Parts, Moved DEF Exit
<1>2. ClientWaits' BY <1>1 DEF ClientWaits
<1>3. ASSUME cuts = 0 PROVE Sound'
  <2>1. ServerReads /\ ClientReads /\ LinesAreThere BY <1>3 DEF WireInv
  <2>2. ServerReads' BY <2>1, ServerKept
  <2>3. client'.at = "gone" BY <1>1
  <2>4. ClientReads' BY <2>1, <2>3 DEF ClientReads
  <2>5. LinesAreThere' BY <2>1 DEF LinesAreThere
  <2> QED BY <1>2, <2>2, <2>4, <2>5 DEF Sound
<1> QED BY <1>3, InvKept

LEMMA ShowInv == ASSUME TypeInv, WireInv, Show, TypeInv' PROVE WireInv'
<1>1. CASE client.text = <<>> BY <1>1, ExitInv DEF Show, count
<1>2. CASE client.text # <<>>
  <2> DEFINE z == Shows(request, client.text)
  <2>1. PICK user :
          /\ shown' = z
          /\ IF z.result = "abort" THEN Exit
             ELSE /\ client' = [client EXCEPT
                                  !.at = "prompt", !.text = <<>>, !.user = user]
                  /\ UNCHANGED down
    BY <1>2 DEF Show
  <2>2. /\ client.at = "show" /\ request' = None /\ reply' = None
        /\ UNCHANGED <<up, broken, server, cuts>>
    BY <1>2 DEF Show
  <2>3. ASSUME cuts = 0 PROVE Sound'
    <3>1. ClientWaits /\ ServerReads /\ ClientReads BY <2>3 DEF WireInv
    <3>2. down = <<>> /\ ~Pending BY <1>2, <2>2, <3>1 DEF ClientWaits
    <3>3. up = <<>> /\ server.at \notin {"read", "process"} BY <3>2 DEF Pending
    <3>4. ServerReads' BY <2>2, <3>1, <3>3 DEF ServerReads
    <3>5. reply = client.text /\ reply # None
      <4>1. reply = client.text BY <1>2, <2>2, <3>1 DEF ClientReads
      <4> QED BY <4>1, Parts, WireConstants
    <3>6. z.result # "abort" BY <3>1, <3>5 DEF ClientReads
    <3>7. shown' = z BY <2>1
    <3>8. LinesAreThere' BY <3>6, <3>7 DEF LinesAreThere
    <3>9. UNCHANGED down
          /\ client' = [client EXCEPT !.at = "prompt", !.text = <<>>, !.user = user]
      BY <2>1, <3>6
    <3> HIDE DEF z
    <3>10. client' = [at |-> "prompt", text |-> <<>>, user |-> user]
      BY <3>9, Parts, MovedAs
    <3>11. ClientWaits' BY <2>2, <3>2, <3>3, <3>9, <3>10 DEF ClientWaits, Pending
    <3>12. ClientReads' BY <2>2, <3>10 DEF ClientReads
    <3> QED BY <3>4, <3>8, <3>11, <3>12 DEF Sound
  <2> QED BY <2>2, <2>3, InvKept
<1> QED BY <1>1, <1>2

LEMMA QuitInv == ASSUME TypeInv, WireInv, Quit, TypeInv' PROVE WireInv'
  BY ExitInv DEF Quit

(* The thread ends, from wherever it is.                                   *)
LEMMA ServerGoneInv ==
  ASSUME TypeInv, WireInv, ServerAt("gone"), up' = <<>>, TypeInv',
         UNCHANGED <<down, broken, client, request, shown, reply, cuts>>
  PROVE  WireInv'
<1>1. server'.at = "gone" /\ server'.text = <<>> BY ServerAtMoves
<1>2. ~Pending' BY <1>1 DEF Pending
<1>3. ASSUME cuts = 0 PROVE Sound'
  <2>1. ClientWaits' /\ ServerReads'
    BY <1>1, <1>2, <1>3 DEF WireInv, ClientWaits, ServerReads
  <2>2. ClientReads' /\ LinesAreThere' BY <1>3, ClientKept DEF WireInv
  <2> QED BY <2>1, <2>2 DEF Sound
<1> QED BY <1>3, InvKept

LEMMA CheckBanInv == ASSUME TypeInv, WireInv, CheckBan, TypeInv' PROVE WireInv'
<1>1. CASE ServerAt("wait") /\ UNCHANGED up
  <2>1. server'.at = "wait" /\ server'.text = <<>>
    <3>1. ServerAt("wait") BY <1>1
    <3> QED BY <3>1, ServerAtMoves
  <2>2. UNCHANGED <<up, down, broken, client, request, shown, reply, cuts>>
    BY <1>1 DEF CheckBan
  <2>3. ASSUME cuts = 0 PROVE Sound'
    <3>1. /\ ClientWaits /\ ServerReads /\ ClientReads /\ LinesAreThere
          /\ server.at = "start"
      BY <2>3 DEF CheckBan, WireInv
    <3>2. ClientWaits' BY <2>1, <2>2, <3>1 DEF ClientWaits, Pending
    <3>3. ServerReads' BY <2>1, <2>2, <3>1 DEF ServerReads, MakesUp, Whole
    <3>4. ClientReads' /\ LinesAreThere' BY <2>2, <3>1, ClientKept
    <3> QED BY <3>2, <3>3, <3>4 DEF Sound
  <2> QED BY <2>2, <2>3, InvKept
<1>2. CASE ServerAt("gone") /\ up' = <<>>
  BY <1>2, ServerGoneInv DEF CheckBan
<1> QED BY <1>1, <1>2 DEF CheckBan

LEMMA IsOpenInv == ASSUME TypeInv, WireInv, IsOpen, TypeInv' PROVE WireInv'
<1>1. CASE up # <<>> /\ ServerAt("read")
  <2>1. server'.at = "read" /\ server'.text = <<>> /\ up # <<>>
    <3>1. ServerAt("read") /\ up # <<>> BY <1>1
    <3> QED BY <3>1, ServerAtMoves
  <2>2. UNCHANGED <<up, down, broken, client, request, shown, reply, cuts>>
    BY DEF IsOpen, wire
  <2>3. ASSUME cuts = 0 PROVE Sound'
    <3>1. /\ ClientWaits /\ ServerReads /\ ClientReads /\ LinesAreThere
          /\ server.at = "wait"
      BY <2>3 DEF IsOpen, WireInv
    <3>2. ClientWaits' BY <2>1, <2>2, <3>1 DEF ClientWaits, Pending
    <3>3. MakesUp(<<>>, up) BY <2>1, <3>1 DEF ServerReads
    <3>4. MakesUp(server.text, up)' BY <2>1, <2>2, <3>3 DEF MakesUp, Whole
    <3>5. ServerReads' BY <2>1, <2>2, <3>1, <3>4 DEF ServerReads
    <3>6. ClientReads' /\ LinesAreThere' BY <2>2, <3>1, ClientKept
    <3> QED BY <3>2, <3>5, <3>6 DEF Sound
  <2> QED BY <2>2, <2>3, InvKept
<1>2. CASE up = <<>> /\ ServerAt("gone")
  BY <1>2, ServerGoneInv DEF IsOpen, wire
<1> QED BY <1>1, <1>2 DEF IsOpen

LEMMA ReadRequestInv == ASSUME TypeInv, WireInv, ReadRequest, TypeInv' PROVE WireInv'
<1>1. PICK t \in Turns(up, server.text, client.at = "gone") :
        /\ cuts' = cuts + t.cut /\ up' = t.stream
        /\ server' = [server EXCEPT !.at = IF t.more THEN "read" ELSE "process",
                                    !.text = t.text]
  BY DEF ReadRequest
<1> DEFINE where == IF t.more THEN "read" ELSE "process"
<1>2. server' = [at |-> where, text |-> t.text, user |-> server.user]
  BY <1>1, Parts, Moved
<1>3. t.cut \in {0, 1} BY TurnCut
<1>4. cuts' = 0 => cuts = 0 /\ t.cut = 0
  <2>1. cuts \in Nat BY Parts
  <2> QED BY <1>1, <1>3, <2>1
<1>5. ASSUME cuts = 0, t.cut = 0 PROVE Sound'
  <2>1. /\ server.at = "read" /\ ClientWaits /\ ServerReads
        /\ UNCHANGED <<down, broken, client, request, shown, reply>>
    BY <1>5 DEF ReadRequest, WireInv
  <2>2. ClientWaits' BY <2>1 DEF ClientWaits, Pending
  <2>3. ClientReads' /\ LinesAreThere'
    <3>1. cuts' = cuts
      <4>1. cuts \in Nat BY Parts
      <4> QED BY <1>1, <1>5, <4>1
    <3>2. ClientReads /\ LinesAreThere BY <1>5 DEF WireInv
    <3> QED BY <2>1, <3>1, <3>2, ClientKept
  <2>4. CASE broken
    <3>1. t.stream = <<>> /\ t.text = <<>> /\ ~t.more BY <2>4, TurnWithoutData
    <3>2. server'.at = "process" /\ server'.text = <<>> /\ up' = <<>> /\ broken'
      BY <1>1, <1>2, <2>1, <2>4, <3>1
    <3>3. ServerReads' BY <3>2 DEF ServerReads
    <3> QED BY <2>2, <2>3, <3>3 DEF Sound
  <2>5. CASE ~broken /\ up = <<>>
    <3>1. t.stream = <<>> /\ t.text = server.text /\ ~t.more
      BY <2>5, TurnWithoutData
    <3>2. server'.at = "process" /\ server'.text = server.text /\ up' = <<>>
      BY <1>1, <1>2, <3>1
    <3>3. MakesUp(server.text, <<>>) BY <2>1, <2>5 DEF ServerReads
    <3>4. MakesUp(server.text, <<>>)' BY <2>1, <3>2, <3>3 DEF MakesUp, Whole
    <3>5. ServerReads' BY <3>2, <3>4 DEF ServerReads
    <3> QED BY <2>2, <2>3, <3>5 DEF Sound
  <2>6. CASE ~broken /\ up # <<>>
    <3>1. PICK k \in 1 .. Full(up) :
            t = Turn(Rest(up, k), server.text \o BeforeNul(SubSeq(up, 1, k)),
                     k = Block, IF k = Full(up) THEN 0 ELSE 1)
      BY <2>6, TurnWithData
    <3>2. /\ t.stream = Rest(up, k) /\ t.cut = IF k = Full(up) THEN 0 ELSE 1
          /\ t.text = server.text \o BeforeNul(SubSeq(up, 1, k))
      BY <3>1 DEF Turn
    <3>3. k = Full(up) BY <1>5, <3>2
    <3>4. ~t.more => k # Block BY <3>1, Zenon DEF Turn
    <3> DEFINE m == Compose(request)
    <3>5. /\ server.text \in Seq(Chars) /\ up \in Seq(Bytes)
          /\ server.text \o up = m \o <<NUL>>
          /\ request \in Typed /\ reply = None
      BY <2>1, <2>6 DEF ServerReads, MakesUp, Whole, Bytes
    <3>6. m \in Seq(Chars)
      <4>1. m \in Contents BY <3>5, ComposedText, WireConstants
      <4> QED BY <4>1 DEF Contents
    <3> HIDE DEF m
    <3>7. /\ t.text \in Seq(Chars) /\ t.stream \in Seq(Bytes)
          /\ IF t.stream = <<>> THEN t.text = m
             ELSE t.text \o t.stream = m \o <<NUL>>
          /\ k # Block => t.stream = <<>>
      <4> DEFINE got  == server.text \o BeforeNul(SubSeq(up, 1, Full(up)))
                 rest == Rest(up, Full(up))
      <4>1. /\ got \in Seq(Chars) /\ rest \in Seq(Bytes)
            /\ IF rest = <<>> THEN got = m ELSE got \o rest = m \o <<NUL>>
            /\ Full(up) # Block => rest = <<>>
        <5>1. up # <<>> BY <2>6
        <5> QED BY <3>5, <3>6, <5>1, ReadMakesUp
      <4>2. t.text = got /\ t.stream = rest BY <3>2, <3>3
      <4> HIDE DEF got, rest
      <4> QED BY <3>3, <4>1, <4>2
    <3>8. MakesUp(server.text, up)'
      <4>1. server'.text = t.text /\ up' = t.stream BY <1>1, <1>2
      <4> QED BY <2>1, <3>5, <3>7, <4>1 DEF MakesUp, Whole, Bytes, m
    <3>9. ServerReads'
      <4>1. CASE t.more
        <5>1. server'.at = "read" /\ ~broken' BY <1>2, <2>1, <2>6, <4>1
        <5> QED BY <3>8, <5>1 DEF ServerReads
      <4>2. CASE ~t.more
        <5>1. server'.at = "process" /\ up' = <<>> BY <1>1, <1>2, <3>4, <3>7, <4>2
        <5>2. MakesUp(server.text, <<>>)' BY <3>8, <5>1 DEF MakesUp, Whole
        <5> QED BY <5>1, <5>2 DEF ServerReads
      <4> QED BY <4>1, <4>2
    <3> QED BY <2>2, <2>3, <3>9 DEF Sound
  <2> QED BY <2>4, <2>5, <2>6
<1> QED BY <1>4, <1>5, InvKept

(* A request that the thread has read is processed as it was composed.     *)
LEMMA TakenAsComposed ==
  ASSUME TypeInv, WireInv, cuts = 0, server.at = "process"
  PROVE  \/ server.text = <<>> /\ broken
         \/ /\ server.text # <<>> /\ request \in Typed /\ reply = None
            /\ server.text = Compose(request)
<1>1. ServerReads BY DEF WireInv
<1>2. CASE broken /\ server.text = <<>> BY <1>2
<1>3. CASE MakesUp(server.text, <<>>)
  <2>1. request \in Typed /\ reply = None /\ server.text = Compose(request)
    BY <1>3 DEF MakesUp, Whole
  <2>2. Compose(request) \in Contents BY <2>1, ComposedText, WireConstants
  <2>3. Compose(request) # <<>> BY <2>2 DEF Contents
  <2> QED BY <2>1, <2>3
<1> QED BY <1>1, <1>2, <1>3 DEF ServerReads

(* The client can take the lines it needs from the reply to its request.   *)
LEMMA ShowsNoAbort ==
  ASSUME NEW r, NEW user, NEW w, NEW x, NEW u, NEW v, Served(r, user, w, x, u, v)
  PROVE  x.result # "abort"
  BY DEF Served, Failure, Success

LEMMA HandleInv == ASSUME TypeInv, WireInv, Handle, TypeInv' PROVE WireInv'
<1>1. PICK o \in Process(server.text, server.user, world) :
        /\ server' = [at |-> "wait", text |-> <<>>, user |-> o.user]
        /\ down' = Written(down, o.reply, client)
        /\ reply' = IF server.text = <<>> THEN reply ELSE o.reply
  BY DEF Handle
<1>2. /\ server.at = "process"
      /\ UNCHANGED <<up, broken, client, request, shown, cuts>>
  BY DEF Handle
<1>3. server'.at = "wait" /\ server'.text = <<>> BY <1>1
<1>4. ASSUME cuts = 0 PROVE Sound'
  <2>1. ClientWaits /\ ServerReads /\ ClientReads /\ LinesAreThere
    BY <1>4 DEF WireInv
  <2>2. /\ up = <<>> /\ down = <<>> /\ client.text = <<>>
        /\ client.at = "read" \/ client.at = "gone" \/ (client.at = "show" /\ broken)
    BY <1>2, <2>1 DEF ClientWaits, ServerReads, Pending
  <2>3. ~Pending' /\ up' = <<>> BY <1>2, <1>3, <2>2 DEF Pending
  <2>4. client.at # "read" => down' = <<>> BY <1>1, <2>2 DEF Written
  <2>5. ClientWaits' BY <1>2, <2>3, <2>4 DEF ClientWaits
  <2>6. ServerReads' BY <1>3, <2>3 DEF ServerReads
  <2>7. LinesAreThere' BY <1>2, <2>1 DEF LinesAreThere
  <2>8. ClientReads'
    <3>1. CASE server.text = <<>> /\ broken
      <4>1. reply' = reply /\ down' = down BY <1>1, <3>1 DEF Written
      <4> QED BY <1>2, <2>1, <4>1 DEF ClientReads, Whole
    <3>2. CASE /\ server.text # <<>> /\ request \in Typed
               /\ server.text = Compose(request)
      <4>1. /\ server.user \in Line \cup {Nobody}
            /\ WorldOK(world) /\ Len(world.mails) <= Len(Ids)
        BY Parts
      <4>2. o \in Process(Compose(request), server.user, world) BY <3>2
      <4>3. Served(request, server.user, world, Shows(request, o.reply), o.user, o.world)
        BY <3>2, <4>1, <4>2, ServedAs, WireConstants
      <4>4. Shows(request, o.reply).result # "abort" BY <4>3, ShowsNoAbort
      <4>5. reply' = o.reply BY <1>1, <3>2
      <4>6. o.reply \in Seq(Chars)
        <5>1. server.text \in Seq(Chars) BY Parts
        <5>2. o.reply \in Contents BY <4>1, <5>1, ProcessType
        <5> QED BY <5>2 DEF Contents
      <4>7. o.reply # None BY <4>6, WireConstants
      <4>8. ASSUME client.at = "read", ~broken
            PROVE  Whole(o.reply, <<>>, down')
        <5>1. down' = <<>> \o o.reply \o <<NUL>> BY <1>1, <2>2, <4>8 DEF Written
        <5>2. down' \in Seq(Bytes) /\ down' # <<>> /\ <<>> \o down' = o.reply \o <<NUL>>
          BY <4>6, <5>1, SentMakesUp
        <5>3. <<>> \in Seq(Chars) OBVIOUS
        <5> QED BY <5>2, <5>3 DEF Whole, Bytes
      <4>9. client'.at = "read" => broken' \/ Whole(reply, client.text, down)'
        BY <1>2, <2>2, <4>5, <4>8 DEF Whole
      <4> QED BY <1>2, <2>2, <3>2, <4>4, <4>5, <4>7, <4>9 DEF ClientReads
    <3> QED BY <1>2, <1>4, <3>1, <3>2, TakenAsComposed
  <2> QED BY <2>5, <2>6, <2>7, <2>8 DEF Sound
<1> QED BY <1>2, <1>4, InvKept

LEMMA BreakNetworkInv ==
  ASSUME TypeInv, WireInv, BreakNetwork, TypeInv' PROVE WireInv'
<1>1. /\ broken' /\ up' = <<>> /\ down' = <<>>
      /\ UNCHANGED <<client, server, request, shown, reply, cuts>>
  BY DEF BreakNetwork
<1>2. ASSUME cuts = 0 PROVE Sound'
  <2>1. ClientWaits /\ ServerReads /\ ClientReads /\ LinesAreThere
    BY <1>2 DEF WireInv
  <2>2. Pending' => Pending BY <1>1 DEF Pending
  <2>3. ClientWaits' BY <1>1, <2>1, <2>2 DEF ClientWaits
  <2>4. MakesUp(server.text, <<>>)' <=> MakesUp(server.text, <<>>)
    BY <1>1 DEF MakesUp, Whole
  <2>5. ~broken BY DEF BreakNetwork
  <2>6. ServerReads' BY <1>1, <2>1, <2>4, <2>5 DEF ServerReads
  <2>7. ClientReads' BY <1>1, <2>1 DEF ClientReads
  <2>8. LinesAreThere' BY <1>1, <2>1 DEF LinesAreThere
  <2> QED BY <2>3, <2>6, <2>7, <2>8 DEF Sound
<1> QED BY <1>1, <1>2, InvKept

LEMMA ReconnectInv == ASSUME TypeInv, WireInv, Reconnect, TypeInv' PROVE WireInv'
<1>1. /\ up' = <<>> /\ down' = <<>> /\ cuts' = cuts
      /\ client' = [at |-> "prompt", text |-> <<>>, user |-> Nobody]
      /\ server' = [at |-> "start", text |-> <<>>, user |-> Nobody]
      /\ request' = None /\ shown' = None /\ reply' = None
  BY DEF Reconnect, Fresh
<1>2. Sound'
  BY <1>1 DEF Sound, ClientWaits, ServerReads, ClientReads, LinesAreThere, Pending
<1> QED BY <1>2, InvKept

LEMMA InvNext == TypeInv /\ WireInv /\ [Next]_vars => TypeInv' /\ WireInv'
<1> SUFFICES ASSUME TypeInv, WireInv, [Next]_vars PROVE TypeInv' /\ WireInv'
  OBVIOUS
<1>1. TypeInv' BY TypeNext
<1>2. ASSUME NEW r \in Typed, Ask(r) PROVE WireInv' BY <1>1, <1>2, AskInv
<1>3. CASE ReadReply BY <1>1, <1>3, ReadReplyInv
<1>4. CASE Show BY <1>1, <1>4, ShowInv
<1>5. CASE Quit BY <1>1, <1>5, QuitInv
<1>6. CASE CheckBan BY <1>1, <1>6, CheckBanInv
<1>7. CASE IsOpen BY <1>1, <1>7, IsOpenInv
<1>8. CASE ReadRequest BY <1>1, <1>8, ReadRequestInv
<1>9. CASE Handle BY <1>1, <1>9, HandleInv
<1>10. CASE DropBanned BY <1>1, <1>10, ServerGoneInv DEF DropBanned
<1>11. CASE KillServer BY <1>1, <1>11, ServerGoneInv DEF KillServer
<1>12. CASE BreakNetwork BY <1>1, <1>12, BreakNetworkInv
<1>13. CASE Reconnect BY <1>1, <1>13, ReconnectInv
<1>14. CASE UNCHANGED vars
  <2>1. UNCHANGED <<up, down, broken, client, server, request, shown, reply, cuts>>
    BY <1>14 DEF vars, wire
  <2>2. ASSUME cuts = 0 PROVE Sound'
    <3>1. ClientWaits /\ ServerReads /\ ClientReads /\ LinesAreThere
      BY <2>2 DEF WireInv
    <3>2. ClientWaits' BY <2>1, <3>1 DEF ClientWaits, Pending
    <3>3. ServerReads' BY <2>1, <3>1, ServerKept
    <3>4. ClientReads' /\ LinesAreThere' BY <2>1, <3>1, ClientKept
    <3> QED BY <3>2, <3>3, <3>4 DEF Sound
  <2> QED BY <1>1, <2>1, <2>2, InvKept
<1> QED
  BY <1>1, <1>2, <1>3, <1>4, <1>5, <1>6, <1>7, <1>8, <1>9, <1>10, <1>11,
     <1>12, <1>13, <1>14
  DEF Next, Receive, Serve

-----------------------------------------------------------------------------
(* The two ends of a connection never read at once, and what each has read *)
(* of a request or a reply and what is still in the stream make it up: for *)
(* every size of block and every length of a text (socketUtils.hpp:13-36,  *)
(* handleClient(), client.cpp), until the network cuts a text.             *)
THEOREM Invariant == Spec => []WireInv
<1>1. Spec => [](TypeInv /\ WireInv) BY InvInit, InvNext, PTL DEF Spec
<1> QED BY <1>1, PTL

(* Every text that RequestProcessor::process() gets is the request that    *)
(* the client composed and waits for, whole, and has not been processed    *)
(* before.                                                                 *)
THEOREM TakenUp == Spec => []TakenUpOnceAsTyped
<1>1. TypeInv /\ WireInv => TakenUpOnceAsTyped
  <2> SUFFICES ASSUME TypeInv, WireInv, cuts = 0, server.at = "process",
                      server.text # <<>>
               PROVE  /\ request # None /\ server.text = Compose(request)
                      /\ reply = None
    BY DEF TakenUpOnceAsTyped
  <2> QED BY TakenAsComposed, WireConstants
<1> QED BY <1>1, TypesInvariant, Invariant, PTL

(* The lines that the client takes from a reply by number are there, since *)
(* every reply of the server is read whole and has them (client.cpp:98 and *)
(* 125).                                                                   *)
THEOREM LinesThere == Spec => []LinesAreThere
<1>1. WireInv => LinesAreThere BY DEF WireInv, LinesAreThere
<1> QED BY <1>1, Invariant, PTL

=============================================================================
