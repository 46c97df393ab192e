------------------------------ MODULE TextProofs ------------------------------
(***************************************************************************)
(* What split() and its inverse give, for texts of any length over any     *)
(* tokens.  Both are recursive functions: that they are defined at all,    *)
(* and what they give, is shown by induction over positions.  Induction    *)
(* itself comes from the least element of a set of numbers.                *)
(***************************************************************************)
EXTENDS Requests, SequenceTheorems, WellFoundedInduction, TLAPS

LEMMA Least ==
  ASSUME NEW T \in SUBSET Nat, T # {}
  PROVE  \E n \in T : \A m \in T : n <= m
<1> DEFINE R == OpToRel(<, Nat)
<1>1. IsWellFoundedOn(R, Nat) BY NatLessThanWellFounded
<1>2. \A x, y \in Nat : x < y => <<x, y>> \in R BY DEF OpToRel
<1> HIDE DEF R
<1>3. \E n \in T : \A m \in T : ~ (<<m, n>> \in R) BY <1>1, WFMin
<1>4. PICK n \in T : \A m \in T : ~ (<<m, n>> \in R) BY <1>3
<1>5. ASSUME NEW m \in T PROVE n <= m
  <2>1. ~(m < n) BY <1>2, <1>4
  <2> QED BY <2>1
<1> QED BY <1>5

(* Induction, for the set of the numbers of which something holds.         *)
LEMMA Induction ==
  ASSUME NEW T \in SUBSET Nat, 0 \in T, \A n \in T : n + 1 \in T
  PROVE  T = Nat
<1> SUFFICES ASSUME Nat \ T # {} PROVE FALSE OBVIOUS
<1>1. PICK n \in Nat \ T : \A m \in Nat \ T : n <= m
  <2>1. Nat \ T \in SUBSET Nat /\ Nat \ T # {} OBVIOUS
  <2> QED BY <2>1, Least
<1>2. n - 1 \in Nat /\ ~(n <= n - 1) OBVIOUS
<1>3. n - 1 \in T BY <1>1, <1>2
<1> QED BY <1>3

(* Induction from the end of a text to its beginning.                      *)
LEMMA Backwards ==
  ASSUME NEW L \in Nat, NEW T,
         \A prev \in 1 .. L + 1 : (\A i \in prev + 1 .. L + 1 : i \in T) => prev \in T
  PROVE  \A prev \in 1 .. L + 1 : prev \in T
<1> DEFINE B == {n \in Nat : n <= L /\ L + 1 - n \notin T}
<1> SUFFICES ASSUME NEW prev \in 1 .. L + 1, prev \notin T PROVE FALSE OBVIOUS
<1>1. L + 1 - prev \in B
  <2>1. L + 1 - (L + 1 - prev) = prev /\ L + 1 - prev \in Nat /\ L + 1 - prev <= L
    OBVIOUS
  <2> QED BY <2>1
<1>2. PICK n \in B : \A m \in B : n <= m
  <2>1. B \in SUBSET Nat /\ B # {} BY <1>1
  <2> HIDE DEF B
  <2> QED BY <2>1, Least
<1>3. n \in Nat /\ n <= L /\ L + 1 - n \notin T BY <1>2
<1>4. ASSUME NEW i \in (L + 1 - n) + 1 .. L + 1 PROVE i \in T
  <2>1. L + 1 - i \in Nat /\ L + 1 - i < n /\ L + 1 - i <= L BY <1>3
  <2>2. L + 1 - i \notin B
    <3>1. ~(n <= L + 1 - i) BY <1>3, <2>1
    <3> QED BY <1>2, <3>1
  <2>3. L + 1 - (L + 1 - i) = i BY <1>3
  <2> QED BY <2>1, <2>2, <2>3
<1>5. L + 1 - n \in 1 .. L + 1 BY <1>3
<1> QED BY <1>3, <1>4, <1>5

-----------------------------------------------------------------------------
(* Find.                                                                   *)

IsFound(text, delim, prev, pos) ==
  /\ pos \in prev .. Len(text) + 1
  /\ \A i \in prev .. pos - 1 : text[i] # delim
  /\ pos <= Len(text) => text[pos] = delim

(* Find gives the first delimiter from prev on, or the end.                *)
LEMMA FindFinds ==
  ASSUME NEW text, Len(text) \in Nat, NEW delim, NEW prev \in 1 .. Len(text) + 1
  PROVE  IsFound(text, delim, prev, Find(text, delim, prev))
<1> DEFINE T == {i \in prev .. Len(text) : text[i] = delim} \cup {Len(text) + 1}
<1>1. T \in SUBSET Nat /\ T # {} OBVIOUS
<1>2. T \subseteq prev .. Len(text) + 1 OBVIOUS
<1>3. \A i \in T : i <= Len(text) => text[i] = delim OBVIOUS
<1>4. \A i \in prev .. Len(text) : text[i] = delim => i \in T OBVIOUS
<1>5. Find(text, delim, prev) = Min(T) BY DEF Find
<1> HIDE DEF T
<1>6. Min(T) \in T /\ \A i \in T : Min(T) <= i BY <1>1, Least DEF Min
<1> DEFINE pos == Min(T)
<1> HIDE DEF pos
<1>7. pos \in T /\ \A i \in T : pos <= i BY <1>6 DEF pos
<1>8. pos \in prev .. Len(text) + 1 BY <1>2, <1>7
<1>9. ASSUME NEW i \in prev .. pos - 1 PROVE text[i] # delim
  <2>1. i < pos /\ i \in prev .. Len(text) BY <1>8
  <2>2. i \notin T BY <1>7, <1>8, <2>1
  <2> QED BY <1>4, <2>1, <2>2
<1> QED BY <1>3, <1>5, <1>7, <1>8, <1>9 DEF IsFound, pos

LEMMA FoundOnce ==
  ASSUME NEW text, Len(text) \in Nat, NEW delim, NEW prev \in 1 .. Len(text) + 1,
         NEW p, IsFound(text, delim, prev, p)
  PROVE  Find(text, delim, prev) = p
<1> DEFINE q == Find(text, delim, prev)
<1>1. IsFound(text, delim, prev, q) BY FindFinds
<1> HIDE DEF q
<1>2. p \in Nat /\ q \in Nat /\ p >= prev /\ q >= prev
      /\ p <= Len(text) + 1 /\ q <= Len(text) + 1
  BY <1>1 DEF IsFound
<1>3. ~(p < q)
  <2> SUFFICES ASSUME p < q PROVE FALSE OBVIOUS
  <2>1. p \in prev .. q - 1 /\ p <= Len(text) BY <1>2
  <2> QED BY <1>1, <2>1 DEF IsFound
<1>4. ~(q < p)
  <2> SUFFICES ASSUME q < p PROVE FALSE OBVIOUS
  <2>1. q \in prev .. p - 1 /\ q <= Len(text) BY <1>2
  <2> QED BY <1>1, <2>1 DEF IsFound
<1> QED BY <1>2, <1>3, <1>4 DEF q

-----------------------------------------------------------------------------
(* Split.                                                                  *)

Token(text, delim, prev) == SubSeq(text, prev, Find(text, delim, prev) - 1)

Kept(token, withEmpty) ==
  IF token # <<>> \/ withEmpty THEN <<token>> ELSE <<>>

(* What split() gives from prev on, when f is what it gives further on.    *)
From(f, text, delim, withEmpty, prev) ==
  Kept(Token(text, delim, prev), withEmpty)
    \o (IF Find(text, delim, prev) < Len(text)
        THEN f[Find(text, delim, prev) + 1] ELSE <<>>)

Tokens(text, delim, withEmpty) ==
  CHOOSE f : f = [prev \in 1 .. Len(text) + 1 |->
                    From(f, text, delim, withEmpty, prev)]

LEMMA SplitIsTokens ==
  \A text, delim : \A withEmpty \in BOOLEAN :
    Split(text, delim, withEmpty) = Tokens(text, delim, withEmpty)[1]
  BY DEF Split, Tokens, From, Kept, Token

(* The recursion ends, so that it defines a function.                      *)
LEMMA TokensFrom ==
  ASSUME NEW text, Len(text) \in Nat, NEW delim, NEW withEmpty \in BOOLEAN
  PROVE  \A prev \in 1 .. Len(text) + 1 :
           Tokens(text, delim, withEmpty)[prev]
             = From(Tokens(text, delim, withEmpty), text, delim, withEmpty, prev)
<1> DEFINE L == Len(text)
           F(f, prev) == From(f, text, delim, withEmpty, prev)
           D(n) == L + 1 - n .. L + 1
           T == {n \in Nat : n <= L => \E f : f = [prev \in D(n) |-> F(f, prev)]}
<1>1. ASSUME NEW f, NEW g, NEW prev \in 1 .. L + 1,
             \A i \in prev + 1 .. L + 1 : f[i] = g[i]
      PROVE  F(f, prev) = F(g, prev)
  <2>1. Find(text, delim, prev) \in prev .. L + 1 BY FindFinds DEF IsFound
  <2>2. Find(text, delim, prev) < L =>
          Find(text, delim, prev) + 1 \in prev + 1 .. L + 1
    BY <2>1
  <2> QED BY <1>1, <2>2 DEF From
<1>2. 0 \in T
  <2> DEFINE f == [prev \in D(0) |-> F(<<>>, prev)]
  <2>1. D(0) = {L + 1} OBVIOUS
  <2>2. \A i \in L + 1 + 1 .. L + 1 : f[i] = <<>>[i] OBVIOUS
  <2>3. L + 1 \in 1 .. L + 1 OBVIOUS
  <2> HIDE DEF F
  <2>4. f[L + 1] = F(<<>>, L + 1) BY <2>1
  <2>5. F(<<>>, L + 1) = F(f, L + 1)
    <3> HIDE DEF f
    <3> QED BY <1>1, <2>2, <2>3
  <2>6. f = [prev \in D(0) |-> F(f, prev)]
    <3>1. \A prev \in D(0) : F(<<>>, prev) = F(f, prev) BY <2>1, <2>5
    <3> QED BY <3>1
  <2> QED BY <2>6
<1>3. ASSUME NEW n \in T PROVE n + 1 \in T
  <2> SUFFICES ASSUME n + 1 <= L
               PROVE  \E g : g = [prev \in D(n + 1) |-> F(g, prev)]
    OBVIOUS
  <2>1. n \in Nat /\ n <= L BY <1>3
  <2>2. PICK f : f = [prev \in D(n) |-> F(f, prev)] BY <1>3, <2>1
  <2> HIDE DEF F, T
  <2> DEFINE g == [prev \in D(n + 1) |-> IF prev \in D(n) THEN f[prev] ELSE F(f, prev)]
  <2>3. D(n) \subseteq D(n + 1) /\ D(n + 1) \subseteq 1 .. L + 1 BY <2>1
  <2>4. \A i \in D(n) : g[i] = f[i] BY <2>3
  <2>5. \A prev \in D(n + 1) : prev + 1 .. L + 1 \subseteq D(n) BY <2>1
  <2>6. ASSUME NEW prev \in D(n + 1) PROVE g[prev] = F(g, prev)
    <3>1. g[prev] = F(f, prev)
      <4>1. prev \in D(n) => f[prev] = F(f, prev) BY <2>2
      <4> QED BY <4>1
    <3>2. \A i \in prev + 1 .. L + 1 : f[i] = g[i] BY <2>4, <2>5
    <3>3. prev \in 1 .. L + 1 BY <2>3
    <3> HIDE DEF g
    <3> QED BY <1>1, <3>1, <3>2, <3>3
  <2>7. g = [prev \in D(n + 1) |-> g[prev]] OBVIOUS
  <2>8. g = [prev \in D(n + 1) |-> F(g, prev)]
    <3> HIDE DEF g
    <3> QED BY <2>6, <2>7
  <2> QED BY <2>8
<1>4. T = Nat
  <2> HIDE DEF T
  <2>1. T \in SUBSET Nat BY DEF T
  <2> QED BY <1>2, <1>3, <2>1, Induction
<1>5. L \in T BY <1>4
<1>6. \E f : f = [prev \in 1 .. L + 1 |-> F(f, prev)]
  <2>1. D(L) = 1 .. L + 1 OBVIOUS
  <2> QED BY <1>5, <2>1
<1>7. Tokens(text, delim, withEmpty)
        = [prev \in 1 .. L + 1 |-> F(Tokens(text, delim, withEmpty), prev)]
  <2> HIDE DEF F
  <2>1. Tokens(text, delim, withEmpty)
          = CHOOSE f : f = [prev \in 1 .. L + 1 |-> F(f, prev)]
    BY DEF Tokens, F
  <2> HIDE DEF L
  <2> QED BY <1>6, <2>1
<1> QED BY <1>7

LEMMA TokenType ==
  ASSUME NEW C, NEW text \in Seq(C), NEW delim, NEW prev \in 1 .. Len(text) + 1
  PROVE  /\ Find(text, delim, prev) \in prev .. Len(text) + 1
         /\ Token(text, delim, prev) \in Seq(C \ {delim})
         /\ Len(Token(text, delim, prev)) = Find(text, delim, prev) - prev
         /\ \A i \in 1 .. Find(text, delim, prev) - prev :
              Token(text, delim, prev)[i] = text[prev + i - 1]
<1> DEFINE pos == Find(text, delim, prev)
<1>1. Len(text) \in Nat OBVIOUS
<1>2. IsFound(text, delim, prev, pos) BY <1>1, FindFinds
<1> HIDE DEF pos
<1>3. pos \in prev .. Len(text) + 1 BY <1>2 DEF IsFound
<1>4. \A i \in prev .. pos - 1 : text[i] \in C \ {delim}
  <2>1. \A i \in prev .. pos - 1 : i \in 1 .. Len(text) BY <1>1, <1>3
  <2> QED BY <1>2, <2>1 DEF IsFound
<1>5. Token(text, delim, prev) = SubSeq(text, prev, pos - 1) BY DEF Token, pos
<1>6. /\ SubSeq(text, prev, pos - 1) \in Seq(C \ {delim})
      /\ Len(SubSeq(text, prev, pos - 1)) =
           IF prev <= pos - 1 THEN pos - 1 - prev + 1 ELSE 0
      /\ \A i \in 1 .. pos - 1 - prev + 1 :
           SubSeq(text, prev, pos - 1)[i] = text[prev + i - 1]
  <2>1. prev \in Int /\ pos - 1 \in Int BY <1>1, <1>3
  <2> QED BY <1>4, <2>1, SubSeqProperties
<1>7. pos - 1 - prev + 1 = pos - prev BY <1>1, <1>3
<1>8. (IF prev <= pos - 1 THEN pos - 1 - prev + 1 ELSE 0) = pos - prev BY <1>1, <1>3
<1> QED BY <1>3, <1>5, <1>6, <1>7, <1>8 DEF pos

LEMMA TokensType ==
  ASSUME NEW C, NEW text \in Seq(C), NEW delim, NEW withEmpty \in BOOLEAN
  PROVE  \A prev \in 1 .. Len(text) + 1 :
           Tokens(text, delim, withEmpty)[prev] \in Seq(Seq(C \ {delim}))
<1> DEFINE L == Len(text)
           S == Seq(Seq(C \ {delim}))
           f == Tokens(text, delim, withEmpty)
           T == {prev \in 1 .. L + 1 : f[prev] \in S}
<1>1. L \in Nat OBVIOUS
<1>2. ASSUME NEW prev \in 1 .. L + 1, \A i \in prev + 1 .. L + 1 : i \in T
      PROVE  prev \in T
  <2> DEFINE token == Token(text, delim, prev)
             pos   == Find(text, delim, prev)
             rest  == IF pos < L THEN f[pos + 1] ELSE <<>>
  <2>1. pos \in prev .. L + 1 /\ token \in Seq(C \ {delim}) BY TokenType
  <2>2. f[prev] = Kept(token, withEmpty) \o rest BY <1>1, TokensFrom DEF From
  <2> HIDE DEF f, pos, token
  <2> HIDE DEF S
  <2>3. Kept(token, withEmpty) \in S
    <3>1. <<token>> \in S /\ <<>> \in S BY <2>1 DEF S
    <3> QED BY <3>1, Zenon DEF Kept
  <2>4. rest \in S
    <3>1. pos < L => pos + 1 \in prev + 1 .. L + 1 BY <1>1, <2>1
    <3>2. pos < L => f[pos + 1] \in S BY <1>2, <3>1
    <3>3. <<>> \in S BY DEF S
    <3> QED BY <3>2, <3>3
  <2> HIDE DEF rest
  <2>5. Kept(token, withEmpty) \o rest \in S
    BY <2>3, <2>4, ConcatProperties DEF S
  <2>6. f[prev] \in S BY <2>2, <2>5
  <2> QED BY <2>6
<1>3. \A prev \in 1 .. L + 1 : prev \in T
  <2> HIDE DEF T, L
  <2> QED BY <1>1, <1>2, Backwards
<1> QED BY <1>3

(* The fields of a text are texts without the delimiter.                   *)
LEMMA SplitType ==
  ASSUME NEW C, NEW text \in Seq(C), NEW delim, NEW withEmpty \in BOOLEAN
  PROVE  Split(text, delim, withEmpty) \in Seq(Seq(C \ {delim}))
<1>1. Len(text) \in Nat OBVIOUS
<1>2. 1 \in 1 .. Len(text) + 1 BY <1>1
<1> QED BY <1>2, SplitIsTokens, TokensType

(* A text and its delimiter are one field.                                 *)
LEMMA SplitOne ==
  ASSUME NEW C, NEW delim, NEW a \in Seq(C), \A i \in 1 .. Len(a) : a[i] # delim
  PROVE  Split(a \o <<delim>>, delim, TRUE) = <<a>>
<1> DEFINE text == a \o <<delim>>
<1>1. /\ text \in Seq(C \cup {delim}) /\ Len(text) = Len(a) + 1 /\ Len(a) \in Nat
      /\ \A i \in 1 .. Len(a) : text[i] = a[i]
      /\ text[Len(a) + 1] = delim
  OBVIOUS
<1> HIDE DEF text
<1>2. Find(text, delim, 1) = Len(text)
  <2>1. IsFound(text, delim, 1, Len(text)) BY <1>1 DEF IsFound
  <2>2. Len(text) \in Nat /\ 1 \in 1 .. Len(text) + 1 BY <1>1
  <2> QED BY <2>1, <2>2, FoundOnce
<1>3. /\ Token(text, delim, 1) \in Seq(C \cup {delim})
      /\ Len(Token(text, delim, 1)) = Len(a)
      /\ \A i \in 1 .. Len(a) : Token(text, delim, 1)[i] = a[i]
  <2>1. 1 \in 1 .. Len(text) + 1 BY <1>1
  <2>2. /\ Token(text, delim, 1) \in Seq((C \cup {delim}) \ {delim})
        /\ Len(Token(text, delim, 1)) = Len(text) - 1
        /\ \A i \in 1 .. Len(text) - 1 : Token(text, delim, 1)[i] = text[1 + i - 1]
    <3> DEFINE D == C \cup {delim}
    <3>1. text \in Seq(D) BY <1>1
    <3> HIDE DEF D
    <3>2. \A prev \in 1 .. Len(text) + 1 :
            /\ Token(text, delim, prev) \in Seq(D \ {delim})
            /\ Len(Token(text, delim, prev)) = Find(text, delim, prev) - prev
            /\ \A i \in 1 .. Find(text, delim, prev) - prev :
                 Token(text, delim, prev)[i] = text[prev + i - 1]
      BY <3>1, TokenType DEF Token
    <3> QED BY <1>2, <2>1, <3>2 DEF D
  <2>3. \A i \in 1 .. Len(a) : 1 + i - 1 = i BY <1>1
  <2> QED BY <1>1, <2>2, <2>3
<1>4. Token(text, delim, 1) = a
  <2>1. a \in Seq(C \cup {delim}) OBVIOUS
  <2> QED BY <1>3, <2>1, SeqEqual
<1>5. Tokens(text, delim, TRUE)[1] = <<a>> \o <<>>
  <2>1. Len(text) \in Nat /\ 1 \in 1 .. Len(text) + 1 /\ ~(Len(text) < Len(text)) BY <1>1
  <2>2. Tokens(text, delim, TRUE)[1] = From(Tokens(text, delim, TRUE), text, delim, TRUE, 1)
    BY <2>1, TokensFrom
  <2> QED BY <1>2, <1>4, <2>1, <2>2 DEF From, Kept
<1>6. <<a>> \o <<>> = <<a>> OBVIOUS
<1> QED BY <1>5, <1>6, SplitIsTokens DEF text

(* f is g from position k on.                                              *)
Shifted(f, g, k, n) == \A p \in 1 .. n : f[k + p] = g[p]

(* What split() makes of the end of a text does not depend on what is      *)
(* before it.                                                              *)
LEMMA TokensShift ==
  ASSUME NEW C, NEW w \in Seq(C), NEW b \in Seq(C), NEW delim,
         NEW withEmpty \in BOOLEAN, NEW k \in Nat, Len(w) = k + Len(b),
         Shifted(w, b, k, Len(b))
  PROVE  Shifted(Tokens(w, delim, withEmpty), Tokens(b, delim, withEmpty),
                 k, Len(b) + 1)
<1> DEFINE L == Len(b)
           f == Tokens(w, delim, withEmpty)
           g == Tokens(b, delim, withEmpty)
           T == {p \in 1 .. L + 1 : f[k + p] = g[p]}
<1>1. L \in Nat /\ Len(w) \in Nat /\ Len(w) = k + L OBVIOUS
<1>0. \A i \in 1 .. L : w[k + i] = b[i] BY DEF Shifted
<1>2. ASSUME NEW p \in 1 .. L + 1, \A i \in p + 1 .. L + 1 : i \in T PROVE p \in T
  <2> DEFINE pos == Find(b, delim, p)
             wos == Find(w, delim, k + p)
  <2>1. IsFound(b, delim, p, pos) BY <1>1, FindFinds
  <2>2. k + p \in 1 .. Len(w) + 1 BY <1>1
  <2>3. wos = k + pos
    <3> HIDE DEF pos
    <3>1. pos \in p .. L + 1 BY <2>1 DEF IsFound
    <3>2. ASSUME NEW i \in k + p .. (k + pos) - 1 PROVE w[i] # delim
      <4>1. i - k \in p .. pos - 1 /\ i - k \in 1 .. L /\ k + (i - k) = i BY <1>1, <3>1
      <4>2. w[k + (i - k)] = b[i - k] BY <1>0, <4>1
      <4>3. b[i - k] # delim BY <2>1, <4>1 DEF IsFound
      <4> QED BY <4>1, <4>2, <4>3
    <3>3. k + pos <= Len(w) => w[k + pos] = delim
      <4>1. k + pos <= Len(w) => pos <= L /\ pos \in 1 .. L BY <1>1, <3>1
      <4>2. pos <= L => b[pos] = delim BY <2>1 DEF IsFound
      <4> QED BY <1>0, <4>1, <4>2
    <3>4. k + pos \in k + p .. Len(w) + 1 BY <1>1, <3>1
    <3>5. IsFound(w, delim, k + p, k + pos) BY <3>2, <3>3, <3>4 DEF IsFound
    <3> QED BY <1>1, <2>2, <3>5, FoundOnce
  <2>4. pos \in p .. L + 1 BY <2>1 DEF IsFound
  <2>5. Token(w, delim, k + p) = Token(b, delim, p)
    <3> DEFINE s == Token(w, delim, k + p)
               t == Token(b, delim, p)
    <3>1. /\ t \in Seq(C) /\ Len(t) = pos - p
          /\ \A i \in 1 .. pos - p : t[i] = b[p + i - 1]
      <4>1. t \in Seq(C \ {delim}) /\ Len(t) = pos - p
            /\ \A i \in 1 .. pos - p : t[i] = b[p + i - 1]
        BY TokenType DEF Token
      <4>2. C \ {delim} \subseteq C OBVIOUS
      <4> HIDE DEF t, pos
      <4> QED BY <4>1, <4>2, SeqMonotonic
    <3>2. /\ s \in Seq(C) /\ Len(s) = wos - (k + p)
          /\ \A i \in 1 .. wos - (k + p) : s[i] = w[(k + p) + i - 1]
      <4>1. s \in Seq(C \ {delim}) /\ Len(s) = wos - (k + p)
            /\ \A i \in 1 .. wos - (k + p) : s[i] = w[(k + p) + i - 1]
        BY <2>2, TokenType DEF Token
      <4>2. C \ {delim} \subseteq C OBVIOUS
      <4> HIDE DEF s, wos
      <4> QED BY <4>1, <4>2, SeqMonotonic
    <3> HIDE DEF s, t, pos, wos
    <3>3. wos - (k + p) = pos - p BY <1>1, <2>3, <2>4
    <3>4. ASSUME NEW i \in 1 .. pos - p PROVE s[i] = t[i]
      <4>1. p + i - 1 \in 1 .. L /\ (k + p) + i - 1 = k + (p + i - 1) BY <1>1, <2>4
      <4>2. w[k + (p + i - 1)] = b[p + i - 1] BY <1>0, <4>1
      <4> QED BY <3>1, <3>2, <3>3, <4>1, <4>2
    <3>5. Len(s) = Len(t) /\ \A i \in 1 .. Len(s) : s[i] = t[i]
      BY <3>1, <3>2, <3>3, <3>4
    <3>6. s = t BY <3>1, <3>2, <3>5, SeqEqual
    <3> QED BY <3>6 DEF s, t
  <2>6. /\ f[k + p] = From(f, w, delim, withEmpty, k + p)
        /\ g[p] = From(g, b, delim, withEmpty, p)
    BY <1>1, <2>2, TokensFrom
  <2> HIDE DEF f, g, pos, wos
  <2>7. wos < Len(w) <=> pos < L BY <1>1, <2>3, <2>4
  <2>8. pos < L => f[wos + 1] = g[pos + 1]
    <3>1. pos < L => pos + 1 \in p + 1 .. L + 1 BY <1>1, <2>4
    <3>2. pos < L => f[k + (pos + 1)] = g[pos + 1] BY <1>2, <3>1
    <3>3. k + (pos + 1) = wos + 1 BY <1>1, <2>3, <2>4
    <3> QED BY <3>2, <3>3
  <2>9. From(f, w, delim, withEmpty, k + p) = From(g, b, delim, withEmpty, p)
    BY <2>5, <2>7, <2>8 DEF From, pos, wos
  <2> QED BY <2>6, <2>9
<1>3. \A p \in 1 .. L + 1 : p \in T
  <2> HIDE DEF T, L
  <2> QED BY <1>1, <1>2, Backwards
<1> QED BY <1>3 DEF Shifted

(* Two texts, the first of which ends with the delimiter, are split apart. *)
LEMMA SplitConcat ==
  ASSUME NEW C, NEW u \in Seq(C), NEW b \in Seq(C), NEW delim,
         NEW withEmpty \in BOOLEAN, u # <<>>, b # <<>>, u[Len(u)] = delim
  PROVE  Split(u \o b, delim, withEmpty)
           = Split(u, delim, withEmpty) \o Split(b, delim, withEmpty)
<1> DEFINE w == u \o b
           L == Len(u)
           f == Tokens(w, delim, withEmpty)
           g == Tokens(u, delim, withEmpty)
           h == Tokens(b, delim, withEmpty)
           T == {p \in 1 .. L + 1 : p = L + 1 \/ f[p] = g[p] \o h[1]}
           E == Seq(C \ {delim})
           D == Seq(E)
<1>1. /\ L \in Nat /\ L >= 1 /\ L = Len(u) /\ Len(b) \in Nat /\ Len(b) >= 1
      /\ w \in Seq(C)
      /\ Len(w) = L + Len(b)
      /\ \A i \in 1 .. L : w[i] = u[i]
      /\ \A i \in 1 .. Len(b) : w[L + i] = b[i]
      /\ u[L] = delim
  OBVIOUS
<1> HIDE DEF w, L, E
<1>2. f[L + 1] = h[1]
  <2>1. L \in Nat /\ 1 \in 1 .. Len(b) + 1 BY <1>1
  <2>2. Shifted(w, b, L, Len(b)) BY <1>1 DEF Shifted
  <2>3. Shifted(f, h, L, Len(b) + 1) BY <1>1, <2>2, TokensShift
  <2> HIDE DEF f, h
  <2> QED BY <2>1, <2>3 DEF Shifted
<1>3. ASSUME NEW p \in 1 .. L + 1, \A i \in p + 1 .. L + 1 : i \in T PROVE p \in T
  <2> SUFFICES ASSUME p # L + 1 PROVE f[p] = g[p] \o h[1] OBVIOUS
  <2>0. p \in 1 .. L BY <1>1
  <2> DEFINE pos == Find(u, delim, p)
             wos == Find(w, delim, p)
  <2>1. IsFound(u, delim, p, pos) BY <1>1, FindFinds
  <2>2. pos \in p .. L
    <3>1. pos \in p .. L + 1 BY <1>1, <2>1 DEF IsFound
    <3>2. pos # L + 1
      <4>1. pos = L + 1 => L \in p .. pos - 1 BY <1>1, <2>0
      <4> HIDE DEF pos
      <4> QED BY <1>1, <2>1, <4>1 DEF IsFound
    <3> HIDE DEF pos
    <3> QED BY <1>1, <3>1, <3>2
  <2>3. wos = pos
    <3> HIDE DEF pos
    <3>1. \A i \in p .. pos - 1 : i \in 1 .. L BY <1>1, <2>0, <2>2
    <3>2. \A i \in p .. pos - 1 : w[i] # delim BY <1>1, <2>1, <3>1 DEF IsFound
    <3>3. w[pos] = delim
      <4>1. pos \in 1 .. L /\ pos <= L BY <1>1, <2>2
      <4> QED BY <1>1, <2>1, <4>1 DEF IsFound
    <3>4. pos \in p .. Len(w) + 1 BY <1>1, <2>2
    <3>5. IsFound(w, delim, p, pos) BY <3>2, <3>3, <3>4 DEF IsFound
    <3>6. Len(w) \in Nat /\ p \in 1 .. Len(w) + 1 BY <1>1
    <3> QED BY <3>5, <3>6, FoundOnce
  <2>4. Token(w, delim, p) = Token(u, delim, p)
    <3>1. pos - 1 \in 0 .. L /\ p \in 1 .. L BY <1>1, <2>0, <2>2
    <3>2. SubSeq(w, p, pos - 1) = SubSeq(u, p, pos - 1)
      <4> HIDE DEF pos
      <4>1. CASE pos - 1 < p
        <5>1. pos - 1 \in Int /\ p \in Int BY <1>1, <3>1
        <5> QED BY <4>1, <5>1, SubSeqEmpty
      <4>2. CASE pos - 1 >= p
        <5>1. pos - 1 \in 1 .. L BY <1>1, <3>1, <4>2
        <5> QED BY <1>1, <3>1, <5>1, SubSeqOfConcat1 DEF w
      <4> QED BY <1>1, <3>1, <4>1, <4>2
    <3> QED BY <2>3, <3>2 DEF Token
  <2> DEFINE kept == Kept(Token(u, delim, p), withEmpty)
  <2>5. /\ f[p] = From(f, w, delim, withEmpty, p)
        /\ g[p] = From(g, u, delim, withEmpty, p)
    <3>1. /\ Len(w) \in Nat /\ p \in 1 .. Len(w) + 1
          /\ Len(u) \in Nat /\ p \in 1 .. Len(u) + 1
      BY <1>1
    <3> QED BY <3>1, TokensFrom
  <2>6. /\ f[p] = kept \o (IF pos < Len(w) THEN f[pos + 1] ELSE <<>>)
        /\ g[p] = kept \o (IF pos < L THEN g[pos + 1] ELSE <<>>)
    <3> HIDE DEF f, g
    <3> QED BY <1>1, <2>3, <2>4, <2>5 DEF From
  <2>7. kept \in D
    <3>1. Token(u, delim, p) \in Seq(C \ {delim}) BY <1>1, TokenType
    <3>2. <<Token(u, delim, p)>> \in D /\ <<>> \in D BY <3>1 DEF E
    <3> QED BY <3>2, Zenon DEF Kept
  <2>8. h[1] \in D /\ \A i \in 1 .. L + 1 : g[i] \in D
    <3>1. 1 \in 1 .. Len(b) + 1 BY <1>1
    <3> QED BY <1>1, <3>1, TokensType DEF E
  <2> HIDE DEF f, g, h, pos, kept
  <2>9. pos < Len(w) /\ pos + 1 \in p + 1 .. L + 1 /\ pos \in 1 .. L
    BY <1>1, <2>0, <2>2
  <2>10. CASE pos = L
    <3>1. f[p] = kept \o f[L + 1] BY <2>6, <2>9, <2>10
    <3>2. ~(pos < L) BY <1>1, <2>10
    <3>3. g[p] = kept \o <<>> BY <2>6, <3>2
    <3>4. g[p] = kept BY <2>7, <3>3
    <3> QED BY <1>2, <3>1, <3>4
  <2>11. CASE pos < L
    <3>0. pos + 1 \in T
      <4> HIDE DEF T
      <4> QED BY <1>3, <2>9
    <3>1. f[pos + 1] = g[pos + 1] \o h[1]
      <4>1. pos + 1 # L + 1 BY <1>1, <2>9, <2>11
      <4> QED BY <3>0, <4>1
    <3>2. f[p] = kept \o (g[pos + 1] \o h[1]) BY <2>6, <2>9, <3>1
    <3>3. g[p] = kept \o g[pos + 1] BY <2>6, <2>11
    <3>4. g[pos + 1] \in D BY <1>1, <2>8, <2>9
    <3>5. (kept \o g[pos + 1]) \o h[1] = kept \o (g[pos + 1] \o h[1])
      <4>1. \A q, r, v \in D : (q \o r) \o v = q \o (r \o v) BY ConcatAssociative
      <4> HIDE DEF D
      <4> QED BY <2>7, <2>8, <3>4, <4>1, Zenon
    <3> QED BY <3>2, <3>3, <3>5
  <2>12. pos = L \/ pos < L BY <1>1, <2>9
  <2> QED BY <2>10, <2>11, <2>12
<1>4. \A p \in 1 .. L + 1 : p \in T
  <2> HIDE DEF T
  <2>1. L \in Nat BY <1>1
  <2> QED BY <1>3, <2>1, Backwards
<1>5. f[1] = g[1] \o h[1]
  <2>1. 1 \in 1 .. L + 1 /\ 1 # L + 1 BY <1>1
  <2> HIDE DEF f, g, h
  <2> QED BY <1>4, <2>1
<1> QED BY <1>5, SplitIsTokens DEF w

-----------------------------------------------------------------------------
(* FlattenSeq and Unlines.                                                 *)

(* Induction, for the set of the sequences of which something holds.       *)
LEMMA SeqInduction ==
  ASSUME NEW S, NEW T, <<>> \in T,
         \A s \in Seq(S), e \in S : s \in T => Append(s, e) \in T
  PROVE  Seq(S) \subseteq T
<1> DEFINE N == {n \in Nat : \A s \in Seq(S) : Len(s) = n => s \in T}
<1>1. 0 \in N
  <2>1. \A s \in Seq(S) : Len(s) = 0 => s = <<>> OBVIOUS
  <2> QED BY <2>1
<1>2. ASSUME NEW n \in N PROVE n + 1 \in N
  <2> SUFFICES ASSUME NEW s \in Seq(S), Len(s) = n + 1 PROVE s \in T OBVIOUS
  <2>1. n \in Nat /\ \A t \in Seq(S) : Len(t) = n => t \in T OBVIOUS
  <2>2. s # <<>> BY <2>1
  <2>3. PICK t \in Seq(S), e \in S : s = Append(t, e) BY <2>2, SequenceEmptyOrAppend
  <2>4. Len(t) = n BY <2>1, <2>3
  <2> QED BY <2>1, <2>3, <2>4
<1>3. N = Nat
  <2>1. N \in SUBSET Nat OBVIOUS
  <2> HIDE DEF N
  <2> QED BY <1>1, <1>2, <2>1, Induction
<1> QED BY <1>3

Flat(seqs) ==
  CHOOSE f : f = [i \in 1 .. Len(seqs) |->
                    IF i = 1 THEN seqs[i] ELSE f[i - 1] \o seqs[i]]

LEMMA FlattenIsFlat ==
  ASSUME NEW seqs, Len(seqs) # 0
  PROVE  FlattenSeq(seqs) = Flat(seqs)[Len(seqs)]
  BY DEF FlattenSeq, Flat

LEMMA FlatFrom ==
  ASSUME NEW seqs, Len(seqs) \in Nat
  PROVE  \A i \in 1 .. Len(seqs) :
           Flat(seqs)[i] = IF i = 1 THEN seqs[i] ELSE Flat(seqs)[i - 1] \o seqs[i]
<1> DEFINE F(f, i) == IF i = 1 THEN seqs[i] ELSE f[i - 1] \o seqs[i]
           T == {n \in Nat : \E f : f = [i \in 1 .. n |-> F(f, i)]}
<1>1. 0 \in T
  <2>1. <<>> = [i \in 1 .. 0 |-> F(<<>>, i)] OBVIOUS
  <2> QED BY <2>1
<1>2. ASSUME NEW n \in T PROVE n + 1 \in T
  <2>1. PICK f : f = [i \in 1 .. n |-> F(f, i)] OBVIOUS
  <2>2. n \in Nat OBVIOUS
  <2> DEFINE g == [i \in 1 .. n + 1 |-> IF i <= n THEN f[i] ELSE F(f, i)]
  <2>3. \A i \in 1 .. n : g[i] = f[i] BY <2>2
  <2>4. ASSUME NEW i \in 1 .. n + 1 PROVE g[i] = F(g, i)
    <3>1. i \in Nat /\ (i # 1 => i - 1 \in 1 .. n) BY <2>2
    <3>2. F(f, i) = F(g, i)
      <4> HIDE DEF g
      <4> QED BY <2>3, <3>1
    <3>3. i <= n => i \in 1 .. n BY <2>2
    <3> HIDE DEF F
    <3>4. i <= n => f[i] = F(f, i) BY <2>1, <3>3
    <3>5. g[i] = F(f, i) BY <3>4
    <3> QED BY <3>2, <3>5
  <2>5. g = [i \in 1 .. n + 1 |-> g[i]] OBVIOUS
  <2> HIDE DEF g, F
  <2>6. g = [i \in 1 .. n + 1 |-> F(g, i)] BY <2>4, <2>5
  <2>7. n + 1 \in Nat BY <2>2
  <2> QED BY <2>6, <2>7
<1>3. Len(seqs) \in T
  <2>1. T \in SUBSET Nat OBVIOUS
  <2> HIDE DEF T
  <2>2. T = Nat BY <1>1, <1>2, <2>1, Induction
  <2> QED BY <2>2
<1>4. Flat(seqs) = [i \in 1 .. Len(seqs) |-> F(Flat(seqs), i)]
  <2>1. Flat(seqs) = CHOOSE f : f = [i \in 1 .. Len(seqs) |-> F(f, i)] BY DEF Flat
  <2> HIDE DEF F
  <2> QED BY <1>3, <2>1
<1> QED BY <1>4

LEMMA FlatType ==
  ASSUME NEW C, NEW seqs \in Seq(Seq(C))
  PROVE  \A i \in 1 .. Len(seqs) : Flat(seqs)[i] \in Seq(C)
<1> DEFINE L == Len(seqs)
           f == Flat(seqs)
           S == Seq(C)
           T == {n \in Nat : n \in 1 .. L => f[n] \in S}
<1>1. L \in Nat /\ \A i \in 1 .. L : seqs[i] \in S OBVIOUS
<1>2. \A i \in 1 .. L : f[i] = IF i = 1 THEN seqs[i] ELSE f[i - 1] \o seqs[i]
  BY <1>1, FlatFrom
<1> HIDE DEF f, L
<1>3. ASSUME NEW n \in T PROVE n + 1 \in T
  <2> SUFFICES ASSUME n + 1 \in 1 .. L PROVE f[n + 1] \in S OBVIOUS
  <2>1. n \in Nat OBVIOUS
  <2>2. CASE n = 0 BY <1>1, <1>2, <2>2
  <2>3. CASE n # 0
    <3>1. n \in 1 .. L /\ n + 1 # 1 /\ (n + 1) - 1 = n BY <1>1, <2>1, <2>3
    <3>2. f[n] \in S BY <3>1
    <3>3. f[n + 1] = f[n] \o seqs[n + 1] BY <1>2, <3>1
    <3> QED BY <1>1, <3>2, <3>3, ConcatProperties
  <2> QED BY <2>2, <2>3
<1>4. T = Nat
  <2>1. T \in SUBSET Nat /\ 0 \in T BY <1>1
  <2> HIDE DEF T
  <2> QED BY <1>3, <2>1, Induction
<1> QED BY <1>1, <1>4 DEF f, L

LEMMA FlattenType ==
  ASSUME NEW C, NEW seqs \in Seq(Seq(C))
  PROVE  FlattenSeq(seqs) \in Seq(C)
<1>1. CASE Len(seqs) = 0
  <2>1. FlattenSeq(seqs) = seqs BY <1>1 DEF FlattenSeq
  <2>2. seqs = <<>> BY <1>1
  <2> QED BY <2>1, <2>2
<1>2. CASE Len(seqs) # 0
  <2>1. Len(seqs) \in 1 .. Len(seqs) BY <1>2
  <2> QED BY <1>2, <2>1, FlattenIsFlat, FlatType
<1> QED BY <1>1, <1>2

LEMMA FlattenAppend ==
  ASSUME NEW C, NEW seqs \in Seq(Seq(C)), NEW x \in Seq(C)
  PROVE  FlattenSeq(Append(seqs, x)) = FlattenSeq(seqs) \o x
<1> DEFINE L  == Len(seqs)
           ws == Append(seqs, x)
           f  == Flat(seqs)
           g  == Flat(ws)
           T  == {n \in Nat : n \in 1 .. L => g[n] = f[n]}
<1>1. /\ L \in Nat /\ L = Len(seqs) /\ Len(ws) = L + 1
      /\ \A i \in 1 .. L : ws[i] = seqs[i]
      /\ ws[L + 1] = x
  OBVIOUS
<1> HIDE DEF ws
<1>2. /\ \A i \in 1 .. L : f[i] = IF i = 1 THEN seqs[i] ELSE f[i - 1] \o seqs[i]
      /\ \A i \in 1 .. L + 1 : g[i] = IF i = 1 THEN ws[i] ELSE g[i - 1] \o ws[i]
  <2>1. Len(ws) \in Nat BY <1>1
  <2> QED BY <1>1, <2>1, FlatFrom
<1>3. FlattenSeq(ws) = g[L + 1]
  <2>1. Len(ws) # 0 BY <1>1
  <2> QED BY <1>1, <2>1, FlattenIsFlat
<1>4. L # 0 => FlattenSeq(seqs) = f[L] BY FlattenIsFlat
<1>5. L = 0 => FlattenSeq(seqs) = <<>> BY DEF FlattenSeq
<1> HIDE DEF f, g, L
<1>6. ASSUME NEW n \in T PROVE n + 1 \in T
  <2> SUFFICES ASSUME n + 1 \in 1 .. L PROVE g[n + 1] = f[n + 1] OBVIOUS
  <2>1. n \in Nat OBVIOUS
  <2>2. n + 1 \in 1 .. L + 1 /\ ws[n + 1] = seqs[n + 1] BY <1>1
  <2>3. CASE n = 0 BY <1>2, <2>2, <2>3
  <2>4. CASE n # 0
    <3>1. n \in 1 .. L /\ n + 1 # 1 /\ (n + 1) - 1 = n BY <1>1, <2>1, <2>4
    <3>2. g[n] = f[n] BY <3>1
    <3> QED BY <1>2, <2>2, <3>1, <3>2
  <2> QED BY <2>3, <2>4
<1>7. T = Nat
  <2>1. T \in SUBSET Nat /\ 0 \in T BY <1>1
  <2> HIDE DEF T
  <2> QED BY <1>6, <2>1, Induction
<1>8. CASE L = 0
  <2>1. g[1] = x BY <1>1, <1>2, <1>8
  <2>2. <<>> \o x = x BY ConcatEmptySeq
  <2> QED BY <1>3, <1>5, <1>8, <2>1, <2>2 DEF ws
<1>9. CASE L # 0
  <2>1. L \in 1 .. L /\ L + 1 \in 1 .. L + 1 /\ L + 1 # 1 /\ (L + 1) - 1 = L
    BY <1>1, <1>9
  <2>2. g[L] = f[L] BY <1>1, <1>7, <2>1
  <2>3. g[L + 1] = g[L] \o x BY <1>1, <1>2, <2>1
  <2> QED BY <1>3, <1>4, <1>9, <2>2, <2>3 DEF ws
<1> QED BY <1>8, <1>9

(* A function on the indices of a sequence is a sequence.                  *)
LEMMA EachOfSeq ==
  ASSUME NEW A, NEW S, NEW s \in Seq(A), NEW f \in [DOMAIN s -> S]
  PROVE  f \in Seq(S)
<1> DEFINE n == Len(s)
<1>1. DOMAIN s = 1 .. n /\ n \in Nat OBVIOUS
<1> HIDE DEF n
<1> QED BY <1>1

LEMMA UnlinesType ==
  ASSUME NEW C, NL \in C, NEW lines \in Seq(Seq(C))
  PROVE  Unlines(lines) \in Seq(C)
<1> DEFINE ended == [i \in DOMAIN lines |-> lines[i] \o <<NL>>]
<1>1. \A i \in DOMAIN lines : lines[i] \o <<NL>> \in Seq(C)
  <2>1. <<NL>> \in Seq(C) OBVIOUS
  <2>2. \A i \in DOMAIN lines : lines[i] \in Seq(C) OBVIOUS
  <2> QED BY <2>1, <2>2, ConcatProperties
<1>2. ended \in Seq(Seq(C))
  <2> DEFINE S == Seq(C)
  <2>1. ended \in [DOMAIN lines -> S] BY <1>1
  <2> HIDE DEF S, ended
  <2>2. ended \in Seq(S)
    <3>1. lines \in Seq(S) BY DEF S
    <3> QED BY <2>1, <3>1, EachOfSeq
  <2> QED BY <2>2 DEF S
<1> HIDE DEF ended
<1>3. FlattenSeq(ended) \in Seq(C) BY <1>2, FlattenType
<1> QED BY <1>3 DEF Unlines, ended

LEMMA UnlinesEmpty == Unlines(<<>>) = <<>>
<1> DEFINE ended == [i \in DOMAIN <<>> |-> <<>>[i] \o <<NL>>]
<1>1. ended = <<>> /\ Len(ended) = 0 OBVIOUS
<1> HIDE DEF ended
<1>2. FlattenSeq(ended) = <<>> BY <1>1 DEF FlattenSeq
<1> QED BY <1>2 DEF Unlines, ended

LEMMA UnlinesAppend ==
  ASSUME NEW C, NL \in C, NEW lines \in Seq(Seq(C)), NEW line \in Seq(C)
  PROVE  Unlines(Append(lines, line)) = Unlines(lines) \o (line \o <<NL>>)
<1> DEFINE ended(ls) == [i \in DOMAIN ls |-> ls[i] \o <<NL>>]
           all == Append(lines, line)
<1>1. <<NL>> \in Seq(C) /\ line \o <<NL>> \in Seq(C) OBVIOUS
<1>2. ended(lines) \in Seq(Seq(C))
  <2>1. \A i \in DOMAIN lines : lines[i] \in Seq(C) OBVIOUS
  <2>2. \A i \in DOMAIN lines : lines[i] \o <<NL>> \in Seq(C)
    BY <1>1, <2>1, ConcatProperties
  <2> DEFINE S == Seq(C)
             e == ended(lines)
  <2>3. e \in [DOMAIN lines -> S] BY <2>2
  <2> HIDE DEF S, e
  <2>4. e \in Seq(S)
    <3>1. lines \in Seq(S) BY DEF S
    <3> QED BY <2>3, <3>1, EachOfSeq
  <2> QED BY <2>4 DEF S, e
<1>3. ended(all) = Append(ended(lines), line \o <<NL>>)
  <2> DEFINE n == Len(lines)
             e == ended(lines)
             a == ended(all)
             w == Append(e, line \o <<NL>>)
  <2>1. /\ n \in Nat /\ DOMAIN lines = 1 .. n /\ DOMAIN all = 1 .. n + 1
        /\ \A i \in 1 .. n : all[i] = lines[i]
        /\ all[n + 1] = line
    OBVIOUS
  <2>2. Len(e) = n /\ \A i \in 1 .. n : e[i] = lines[i] \o <<NL>>
    <3>1. e = [i \in 1 .. n |-> lines[i] \o <<NL>>] BY <2>1
    <3> QED BY <2>1, <3>1
  <2>3. DOMAIN a = 1 .. n + 1 /\ \A i \in 1 .. n + 1 : a[i] = all[i] \o <<NL>>
    <3> HIDE DEF all
    <3> QED BY <2>1
  <2>4. /\ DOMAIN w = 1 .. n + 1
        /\ \A i \in 1 .. n : w[i] = e[i]
        /\ w[n + 1] = line \o <<NL>>
    <3> HIDE DEF e, n
    <3> QED BY <1>1, <1>2, <2>1, <2>2, AppendProperties, LenProperties DEF e
  <2>5. ASSUME NEW i \in 1 .. n + 1 PROVE a[i] = w[i]
    <3> HIDE DEF a, w, e, all, n
    <3>1. CASE i = n + 1 BY <2>1, <2>3, <2>4, <3>1
    <3>2. CASE i # n + 1
      <4>1. i \in 1 .. n BY <2>1, <3>2
      <4> QED BY <2>1, <2>2, <2>3, <2>4, <4>1
    <3> QED BY <3>1, <3>2
  <2>6. a = [i \in 1 .. n + 1 |-> a[i]] /\ w = [i \in 1 .. n + 1 |-> w[i]]
    <3>1. a = [i \in DOMAIN a |-> a[i]] BY DEF all
    <3>2. w = [i \in DOMAIN w |-> w[i]]
      <4> HIDE DEF e
      <4>1. w \in Seq(Seq(C)) BY <1>1, <1>2, AppendProperties DEF e
      <4> QED BY <4>1, LenProperties
    <3> HIDE DEF a, w
    <3> QED BY <2>3, <2>4, <3>1, <3>2
  <2>7. a = w
    <3> HIDE DEF a, w
    <3> QED BY <2>5, <2>6
  <2> QED BY <2>7
<1> HIDE DEF ended
<1>4. FlattenSeq(Append(ended(lines), line \o <<NL>>))
        = FlattenSeq(ended(lines)) \o (line \o <<NL>>)
  BY <1>1, <1>2, FlattenAppend
<1> QED BY <1>3, <1>4 DEF Unlines, ended

LEMMA UnlinesOne ==
  ASSUME NEW C, NL \in C, NEW line \in Seq(C)
  PROVE  Unlines(<<line>>) = line \o <<NL>>
<1> DEFINE S == Seq(C)
           b == line \o <<NL>>
<1>1. b \in Seq(C) /\ <<>> \in Seq(S) /\ Append(<<>>, line) = <<line>> OBVIOUS
<1>2. <<>> \o b = b
  <2> HIDE DEF b
  <2> QED BY <1>1, ConcatEmptySeq
<1>3. Unlines(Append(<<>>, line)) = Unlines(<<>>) \o b BY <1>1, UnlinesAppend
<1> QED BY <1>1, <1>2, <1>3, UnlinesEmpty

(* What two sequences make.                                                *)
Joins(s, t, u) ==
  /\ Len(u) = Len(s) + Len(t) /\ Len(s) \in Nat /\ Len(t) \in Nat
  /\ DOMAIN u = 1 .. Len(u)
  /\ \A i \in 1 .. Len(s) : u[i] = s[i]
  /\ \A i \in 1 .. Len(t) : u[Len(s) + i] = t[i]

LEMMA Joined ==
  ASSUME NEW C, NEW s \in Seq(C), NEW t \in Seq(C)
  PROVE  s \o t \in Seq(C) /\ Joins(s, t, s \o t)
<1> DEFINE u == s \o t
<1>1. u \in Seq(C) BY ConcatProperties
<1>2. Len(u) = Len(s) + Len(t) BY ConcatProperties, Zenon
<1>3. /\ Len(s) \in Nat /\ Len(t) \in Nat
      /\ \A i \in 1 .. Len(s) : u[i] = s[i]
      /\ \A i \in 1 .. Len(t) : u[Len(s) + i] = t[i]
  OBVIOUS
<1> HIDE DEF u
<1>4. DOMAIN u = 1 .. Len(u) BY <1>1
<1>5. Joins(s, t, u) BY <1>2, <1>3, <1>4 DEF Joins
<1> QED BY <1>1, <1>5 DEF u

LEMMA Regroup == \A C : \A s, t, u \in Seq(C) : (s \o t) \o u = s \o (t \o u)
  BY ConcatAssociative

LEMMA UnlinesConcat ==
  ASSUME NEW C, NL \in C, NEW a \in Seq(Seq(C)), NEW b \in Seq(Seq(C))
  PROVE  Unlines(a \o b) = Unlines(a) \o Unlines(b)
<1> DEFINE S == Seq(C)
           D == Seq(S)
           T == {c \in D : Unlines(a \o c) = Unlines(a) \o Unlines(c)}
<1>1. \A lines \in D : Unlines(lines) \in S BY UnlinesType
<1>2. \A s, t, u \in S : (s \o t) \o u = s \o (t \o u) BY Regroup
<1>3. <<>> \in T
  <2>1. a \o <<>> = a OBVIOUS
  <2>2. Unlines(a) \o <<>> = Unlines(a)
    <3>1. Unlines(a) \in Seq(C) BY UnlinesType
    <3> QED BY <3>1, ConcatEmptySeq
  <2>3. <<>> \in D OBVIOUS
  <2> HIDE DEF D
  <2> QED BY <2>1, <2>2, <2>3, UnlinesEmpty
<1>4. ASSUME NEW c \in D, NEW e \in S, c \in T PROVE Append(c, e) \in T
  <2> DEFINE x == e \o <<NL>>
  <2>1. x \in S OBVIOUS
  <2>2. Append(c, e) \in D /\ a \o c \in D OBVIOUS
  <2>3. a \o Append(c, e) = Append(a \o c, e) OBVIOUS
  <2>4. Unlines(Append(a \o c, e)) = Unlines(a \o c) \o x BY <2>2, UnlinesAppend
  <2>5. Unlines(Append(c, e)) = Unlines(c) \o x BY UnlinesAppend
  <2>7. Unlines(a) \in S /\ Unlines(c) \in S BY <1>1
  <2> HIDE DEF S, D, x
  <2>8. (Unlines(a) \o Unlines(c)) \o x = Unlines(a) \o (Unlines(c) \o x)
    BY <2>1, <1>2, <2>7, Zenon
  <2> QED BY <1>4, <2>2, <2>3, <2>4, <2>5, <2>8
<1>5. D \subseteq T
  <2> HIDE DEF T, S
  <2> QED BY <1>3, <1>4, SeqInduction
<1> QED BY <1>5

LEMMA NLInChars == NL \in Chars BY RequestsConstants

LEMMA LineInChars == ASSUME NEW line \in Line PROVE line \in Seq(Chars)
<1>1. Chars \ {NL} \subseteq Chars OBVIOUS
<1> QED BY <1>1, SeqMonotonic DEF Line

LEMMA LinesInChars == ASSUME NEW lines \in Seq(Line) PROVE lines \in Seq(Seq(Chars))
<1>1. Line \subseteq Seq(Chars) BY LineInChars
<1> QED BY <1>1, SeqMonotonic

LEMMA LinesType == ASSUME NEW text \in Seq(Chars) PROVE Lines(text) \in Seq(Line)
  BY SplitType DEF Lines, Line

(* The lines of a text that starts with whole lines.                       *)
LEMMA LinesAfter ==
  ASSUME NEW text \in Contents, NEW b \in Seq(Chars), b # <<>>
  PROVE  Lines(text \o b) = Lines(text) \o Lines(b)
<1>1. text \in Seq(Chars) /\ text # <<>> /\ text[Len(text)] = NL
  BY DEF Contents, Last
<1> QED BY <1>1, SplitConcat DEF Lines

(* Lines that were put together, as the client does with what is typed and *)
(* the server with what it stores, come out of split() as they went in,    *)
(* with the empty ones (stringUtils.hpp:7-22).                             *)
THEOREM LinesOfUnlines ==
  ASSUME NEW lines \in Seq(Line), lines # <<>>
  PROVE  Unlines(lines) \in Contents /\ Lines(Unlines(lines)) = lines
<1> DEFINE T == {ls \in Seq(Line) : ls # <<>> =>
                   Unlines(ls) \in Contents /\ Lines(Unlines(ls)) = ls}
<1>1. <<>> \in T OBVIOUS
<1>2. ASSUME NEW ls \in Seq(Line), NEW line \in Line, ls \in T
      PROVE  Append(ls, line) \in T
  <2> DEFINE all == Unlines(Append(ls, line))
             b   == line \o <<NL>>
             u   == Unlines(ls)
  <2>1. NL \in Chars /\ line \in Seq(Chars) /\ ls \in Seq(Seq(Chars))
    BY NLInChars, LineInChars, LinesInChars
  <2>2. all = u \o b BY <2>1, UnlinesAppend
  <2>3. /\ b \in Seq(Chars) /\ Len(b) \in Nat /\ Len(b) >= 1 /\ b # <<>>
        /\ b[Len(b)] = NL
    BY <2>1
  <2>4. Lines(b) = <<line>>
    <3>1. \A i \in 1 .. Len(line) : line[i] # NL BY DEF Line
    <3> QED BY <2>1, <3>1, SplitOne DEF Lines
  <2> HIDE DEF b, T
  <2>5. Append(ls, line) \in Seq(Line) OBVIOUS
  <2>6. CASE ls = <<>>
    <3>1. all = b
      <4>1. u = <<>> BY <2>6, UnlinesEmpty
      <4> QED BY <2>2, <2>3, <4>1, ConcatEmptySeq
    <3>2. Append(ls, line) = <<line>> BY <2>6
    <3> QED BY <2>3, <2>4, <2>5, <3>1, <3>2 DEF T, Contents, Last
  <2>7. CASE ls # <<>>
    <3>1. u \in Contents /\ Lines(u) = ls BY <1>2, <2>7 DEF T
    <3> HIDE DEF u
    <3>2. /\ u \in Seq(Chars) /\ u # <<>> /\ u[Len(u)] = NL
      BY <3>1 DEF Contents, Last
    <3>3. u \o b \in Seq(Chars) /\ u \o b # <<>> /\ (u \o b)[Len(u \o b)] = NL
      BY <2>3, <3>2
    <3>4. Lines(u \o b) = Lines(u) \o Lines(b) BY <2>3, <3>1, LinesAfter
    <3>5. ls \o <<line>> = Append(ls, line) BY AppendIsConcat
    <3> QED BY <2>2, <2>4, <2>5, <3>1, <3>3, <3>4, <3>5 DEF T, Contents, Last
  <2> QED BY <2>6, <2>7
<1>3. Seq(Line) \subseteq T
  <2> HIDE DEF T
  <2> QED BY <1>1, <1>2, SeqInduction
<1> QED BY <1>3

(* Every text is lines with their ends and a line without one.             *)
LEMMA MadeOfLines ==
  \A text \in Seq(Chars) : \E ls \in Seq(Line), line \in Line :
    text = Unlines(ls) \o line
<1> DEFINE Made(s) == \E ls \in Seq(Line), line \in Line : s = Unlines(ls) \o line
           T == {s \in Seq(Chars) : Made(s)}
<1>1. <<>> \in T
  <2>1. <<>> \in Seq(Line) /\ <<>> \in Line BY DEF Line
  <2>2. Unlines(<<>>) \o <<>> = <<>> BY UnlinesEmpty
  <2>3. <<>> \in Seq(Chars) OBVIOUS
  <2> QED BY <2>1, <2>2, <2>3
<1>2. ASSUME NEW s \in Seq(Chars), NEW c \in Chars, s \in T
      PROVE  Append(s, c) \in T
  <2>1. PICK ls \in Seq(Line), line \in Line : s = Unlines(ls) \o line BY <1>2
  <2>2. ls \in Seq(Seq(Chars)) /\ line \in Seq(Chars) BY LinesInChars, LineInChars
  <2> DEFINE u == Unlines(ls)
  <2>3. u \in Seq(Chars) BY <2>2, NLInChars, UnlinesType
  <2> HIDE DEF u
  <2>4. Append(s, c) = u \o (line \o <<c>>)
    <3>1. Append(s, c) = s \o <<c>> BY AppendIsConcat
    <3>2. \A q, r, t \in Seq(Chars) : (q \o r) \o t = q \o (r \o t) BY Regroup
    <3>3. <<c>> \in Seq(Chars) OBVIOUS
    <3>4. s = u \o line BY <2>1 DEF u
    <3> QED BY <2>2, <2>3, <3>1, <3>2, <3>3, <3>4, Zenon
  <2>5. Made(Append(s, c))
    <3>1. CASE c = NL
      <4>1. Append(ls, line) \in Seq(Line) /\ <<>> \in Line BY DEF Line
      <4>2. Unlines(Append(ls, line)) = u \o (line \o <<NL>>)
        BY <2>2, NLInChars, UnlinesAppend DEF u
      <4>3. Append(s, c) = Unlines(Append(ls, line)) BY <2>4, <3>1, <4>2
      <4>4. Unlines(Append(ls, line)) \in Seq(Chars)
        BY <4>1, LinesInChars, NLInChars, UnlinesType
      <4>5. Append(s, c) = Unlines(Append(ls, line)) \o <<>>
        BY <4>3, <4>4, ConcatEmptySeq
      <4> QED BY <4>1, <4>5
    <3>2. CASE c # NL
      <4>1. line \o <<c>> \in Line BY <3>2 DEF Line
      <4> HIDE DEF Made
      <4> QED BY <2>4, <4>1 DEF u, Made
    <3> QED BY <3>1, <3>2
  <2>6. Append(s, c) \in Seq(Chars) OBVIOUS
  <2> HIDE DEF Made
  <2> QED BY <2>5, <2>6
<1>3. Seq(Chars) \subseteq T
  <2> HIDE DEF T
  <2> QED BY <1>1, <1>2, SeqInduction
<1> QED BY <1>3

(* Nothing is lost either: a text that ends with a line end is what its    *)
(* lines are put together to.                                              *)
THEOREM UnlinesOfLines ==
  ASSUME NEW text \in Contents
  PROVE  Lines(text) # <<>> /\ Unlines(Lines(text)) = text
<1>1. text \in Seq(Chars) /\ text # <<>> /\ text[Len(text)] = NL
  BY DEF Contents, Last
<1>2. PICK ls \in Seq(Line), line \in Line : text = Unlines(ls) \o line
  BY <1>1, MadeOfLines
<1> DEFINE u == Unlines(ls)
<1>3. u \in Seq(Chars) /\ line \in Seq(Chars)
  BY LinesInChars, LineInChars, NLInChars, UnlinesType
<1>4. text = u \o line BY <1>2
<1> HIDE DEF u
<1>5. line = <<>>
  <2> SUFFICES ASSUME line # <<>> PROVE FALSE OBVIOUS
  <2>1. Joins(u, line, text) BY <1>3, <1>4, Joined
  <2>2. Len(line) \in 1 .. Len(line) BY <1>3
  <2>3. text[Len(text)] = line[Len(line)] BY <2>1, <2>2 DEF Joins
  <2>4. line[Len(line)] # NL BY <2>2 DEF Line
  <2> QED BY <1>1, <2>3, <2>4
<1>6. text = u BY <1>3, <1>4, <1>5, ConcatEmptySeq
<1>7. ls # <<>> BY <1>1, <1>6, UnlinesEmpty DEF u
<1>8. Lines(Unlines(ls)) = ls BY <1>7, LinesOfUnlines
<1>9. Lines(text) = ls BY <1>6, <1>8 DEF u
<1> QED BY <1>6, <1>7, <1>9 DEF u

(* A line with its end is a content, and so are contents one after another. *)
LEMMA OneLine ==
  ASSUME NEW line \in Line
  PROVE  line \o <<NL>> \in Contents /\ Lines(line \o <<NL>>) = <<line>>
<1> DEFINE c == line \o <<NL>>
<1>1. NL \in Chars /\ line \in Seq(Chars) BY NLInChars, LineInChars
<1>2. c \in Seq(Chars) /\ c # <<>> /\ c[Len(c)] = NL BY <1>1
<1>3. Lines(c) = <<line>>
  <2>1. \A i \in 1 .. Len(line) : line[i] # NL BY DEF Line
  <2> QED BY <1>1, <2>1, SplitOne DEF Lines
<1> HIDE DEF c
<1>4. c \in Contents BY <1>2 DEF Contents, Last
<1> QED BY <1>3, <1>4 DEF c

LEMMA MoreLines ==
  ASSUME NEW text \in Contents, NEW c \in Contents
  PROVE  text \o c \in Contents /\ Lines(text \o c) = Lines(text) \o Lines(c)
<1> DEFINE all == text \o c
<1>1. /\ text \in Seq(Chars) /\ c \in Seq(Chars) /\ c # <<>> /\ c[Len(c)] = NL
  BY DEF Contents, Last
<1>2. all \in Seq(Chars) /\ Joins(text, c, all) BY <1>1, Joined
<1>3. Len(c) \in 1 .. Len(c) BY <1>1
<1> HIDE DEF all
<1>4. all[Len(all)] = NL /\ Len(all) # 0 BY <1>1, <1>2, <1>3 DEF Joins
<1>5. all # <<>> BY <1>2, <1>4
<1>6. all \in Contents BY <1>2, <1>4, <1>5 DEF Contents, Last
<1>7. Lines(text \o c) = Lines(text) \o Lines(c) BY <1>1, LinesAfter
<1> QED BY <1>6, <1>7 DEF all

(* There is always a line.                                                 *)
LEMMA LinesNotEmpty ==
  ASSUME NEW text \in Seq(Chars)
  PROVE  Lines(text) \in Seq(Line) /\ Lines(text) # <<>>
<1> DEFINE t == Tokens(text, NL, TRUE)
           S == Seq(Seq(Chars \ {NL}))
           L == Len(text)
<1>1. Lines(text) = t[1] BY SplitIsTokens DEF Lines
<1>2. L \in Nat /\ 1 \in 1 .. L + 1 OBVIOUS
<1>3. t[1] = From(t, text, NL, TRUE, 1) BY <1>2, TokensFrom
<1>4. \A prev \in 1 .. L + 1 : t[prev] \in S BY TokensType
<1> DEFINE pos   == Find(text, NL, 1)
           token == Token(text, NL, 1)
           rest  == IF pos < L THEN t[pos + 1] ELSE <<>>
<1>5. pos \in 1 .. L + 1 /\ token \in Seq(Chars \ {NL}) BY <1>2, TokenType
<1> HIDE DEF t, L
<1>6. t[1] = <<token>> \o rest
  <2>1. t[1] = Kept(token, TRUE) \o rest BY <1>3, Zenon DEF From, L
  <2>2. Kept(token, TRUE) = <<token>> BY DEF Kept
  <2> QED BY <2>1, <2>2
<1>7. <<token>> \in S /\ Len(<<token>>) = 1
  <2> HIDE DEF token
  <2> QED BY <1>5
<1>8. rest \in S
  <2> HIDE DEF pos, S
  <2>1. pos < L => pos + 1 \in 1 .. L + 1 BY <1>2, <1>5
  <2>2. <<>> \in S BY DEF S
  <2> QED BY <1>4, <2>1, <2>2
<1> DEFINE one == <<token>>
           D == Seq(Chars \ {NL})
<1> HIDE DEF rest, one, D
<1>9. one \in Seq(D) /\ rest \in Seq(D) /\ Len(one) = 1
  BY <1>7, <1>8 DEF one, D
<1> DEFINE all == one \o rest
<1>10. all \in Seq(D) /\ Joins(one, rest, all) BY <1>9, Joined
<1> HIDE DEF all
<1>11. Len(all) # 0 BY <1>9, <1>10 DEF Joins
<1>12. all # <<>> BY <1>10, <1>11
<1> QED BY <1>1, <1>6, <1>12, LinesType DEF all, one

=============================================================================
