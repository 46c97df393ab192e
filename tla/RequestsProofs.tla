---------------------------- MODULE RequestsProofs ----------------------------
(***************************************************************************)
(* What the server makes of the texts that the client composes and the     *)
(* client of the texts that the server replies, for any fields and any     *)
(* limits on them.                                                         *)
(***************************************************************************)
EXTENDS TextProofs, FiniteSetTheorems

-----------------------------------------------------------------------------
(* The request.                                                            *)

(* The lines of a request.                                                 *)
RequestLines(r) ==
  CASE r.kind = "LOGIN" -> << <<r.kind>>, r.user, Password(r.keys) >>
    [] r.kind = "SEND"  ->
         << <<r.kind>>, r.receivers, r.subject >> \o r.body \o <<DOT>>
    [] r.kind \in {"LIST", "LIST_SENT"} -> << <<r.kind>> >>
    [] r.kind \in {"READ", "DEL"} -> << <<r.kind>>, r.id >>

LEMMA TwoTokens == ASSUME NEW x, NEW y PROVE <<x>> \o <<y>> = <<x, y>>
<1> DEFINE S == {x, y}
           s == <<x>> \o <<y>>
           t == <<x, y>>
<1>1. t \in Seq(S) /\ Len(t) = 2 /\ t[1] = x /\ t[2] = y OBVIOUS
<1>2. s \in Seq(S) /\ Len(s) = 2 /\ s[1] = x /\ s[2] = y
  <2> DEFINE p == <<x>>
             q == <<y>>
  <2>1. p \in Seq(S) /\ q \in Seq(S) /\ Len(p) = 1 /\ Len(q) = 1 /\ p[1] = x /\ q[1] = y
    OBVIOUS
  <2> HIDE DEF p, q, S
  <2>2. p \o q \in Seq(S) /\ Len(p \o q) = 2 /\ (p \o q)[1] = x /\ (p \o q)[2] = y
    BY <2>1, ConcatProperties
  <2> QED BY <2>2 DEF p, q
<1> HIDE DEF s, t, S
<1>3. \A i \in 1 .. 2 : s[i] = t[i]
  <2>1. \A i \in 1 .. 2 : i = 1 \/ i = 2 OBVIOUS
  <2> QED BY <1>1, <1>2, <2>1
<1>4. s = t BY <1>1, <1>2, <1>3, SeqEqual
<1> QED BY <1>4 DEF s, t

LEMMA ThreeTokens ==
  ASSUME NEW x, NEW y, NEW z PROVE <<x, y>> \o <<z>> = <<x, y, z>>
<1> DEFINE S == {x, y, z}
           p == <<x, y>>
           q == <<z>>
           s == p \o q
           t == <<x, y, z>>
<1>1. t \in Seq(S) /\ Len(t) = 3 /\ t[1] = x /\ t[2] = y /\ t[3] = z OBVIOUS
<1>2. /\ p \in Seq(S) /\ q \in Seq(S) /\ Len(p) = 2 /\ Len(q) = 1
      /\ p[1] = x /\ p[2] = y /\ q[1] = z
  OBVIOUS
<1> HIDE DEF p, q, S
<1>3. s \in Seq(S) /\ Joins(p, q, s) BY <1>2, Joined
<1> HIDE DEF s, t
<1>4. s[1] = x /\ s[2] = y /\ s[3] = z /\ Len(s) = 3
  <2>1. 1 \in 1 .. 2 /\ 2 \in 1 .. 2 /\ 1 \in 1 .. 1 /\ 2 + 1 = 3 OBVIOUS
  <2> QED BY <1>2, <1>3, <2>1 DEF Joins
<1>5. \A i \in 1 .. 3 : s[i] = t[i]
  <2>1. \A i \in 1 .. 3 : i = 1 \/ i = 2 \/ i = 3 OBVIOUS
  <2> QED BY <1>1, <1>4, <2>1
<1>6. s = t BY <1>1, <1>3, <1>4, <1>5, SeqEqual
<1> QED BY <1>6 DEF s, t, p, q

LEMMA TokensOfLines ==
  /\ \A k \in Keywords \cup {SP, ".", "OK", "ERR"} : k \in Chars \ {NL}
  /\ \A c \in Chars \ {NL} : <<c>> \in Line
<1>1. Keywords \cup {SP, ".", "OK", "ERR"} \subseteq Chars BY RequestsConstants
<1>2. NL \notin Keywords \cup {SP, ".", "OK", "ERR"} BY DEF NL, SP, Keywords
<1>3. \A c \in Chars \ {NL} : <<c>> \in Line BY DEF Line
<1> QED BY <1>1, <1>2, <1>3

LEMMA RequestLinesType ==
  ASSUME NEW r, Typeable(r)
  PROVE  /\ RequestLines(r) \in Seq(Line) /\ RequestLines(r) # <<>>
         /\ RequestLines(r)[1] = <<r.kind>>
         /\ Compose(r) = Unlines(RequestLines(r))
<1>1. r.kind \in Keywords /\ <<r.kind>> \in Line /\ DOT \in Line
  BY TokensOfLines DEF Typeable, DOT
<1> DEFINE k == <<r.kind>>
<1> HIDE DEF k
<1>2. CASE r.kind = "LOGIN"
  <2>1. r.user \in Line /\ Password(r.keys) \in Line BY <1>2 DEF Typeable
  <2>2. RequestLines(r) = << k, r.user, Password(r.keys) >>
    BY <1>2 DEF RequestLines, k
  <2>3. Compose(r) = Unlines(<< k, r.user, Password(r.keys) >>)
    BY <1>2 DEF Compose, k
  <2> QED BY <1>1, <2>1, <2>2, <2>3 DEF k
<1>3. CASE r.kind = "SEND"
  <2>1. r.receivers \in Line /\ r.subject \in Line /\ r.body \in Seq(Line)
    BY <1>3 DEF Typeable
  <2>2. RequestLines(r) = << k, r.receivers, r.subject >> \o r.body \o <<DOT>>
    BY <1>3 DEF RequestLines, k
  <2>3. Compose(r) = Unlines(<< k, r.receivers, r.subject >> \o r.body \o <<DOT>>)
    BY <1>3 DEF Compose, k
  <2> DEFINE h == << k, r.receivers, r.subject >>
  <2>4. h \in Seq(Line) /\ Len(h) = 3 /\ h[1] = k BY <1>1, <2>1 DEF k
  <2> DEFINE b == r.body
             d == <<DOT>>
  <2>5. /\ h \o b \o d \in Seq(Line) /\ h \o b \o d # <<>>
        /\ (h \o b \o d)[1] = k
    <3>1. b \in Seq(Line) /\ d \in Seq(Line) BY <1>1, <2>1
    <3> HIDE DEF h, b, d
    <3> DEFINE hb == h \o b
               all == hb \o d
    <3>2. hb \in Seq(Line) /\ Joins(h, b, hb) BY <3>1, <2>4, Joined
    <3> HIDE DEF hb
    <3>3. all \in Seq(Line) /\ Joins(hb, d, all) BY <3>1, <3>2, Joined
    <3> HIDE DEF all
    <3>4. Len(all) >= 3 /\ all[1] = k BY <2>4, <3>2, <3>3 DEF Joins
    <3>5. all # <<>> BY <3>3, <3>4
    <3> QED BY <3>3, <3>4, <3>5 DEF all, hb
  <2> QED BY <2>2, <2>3, <2>5 DEF h, k
<1>4. CASE r.kind \in {"LIST", "LIST_SENT"}
  <2>1. RequestLines(r) = <<k>> BY <1>4 DEF RequestLines, k
  <2>2. Compose(r) = Unlines(<<k>>) BY <1>4 DEF Compose, k
  <2> QED BY <1>1, <2>1, <2>2 DEF k
<1>5. CASE r.kind \in {"READ", "DEL"}
  <2>1. r.id \in Line BY <1>5 DEF Typeable
  <2>2. RequestLines(r) = <<k, r.id>> BY <1>5 DEF RequestLines, k
  <2>3. Compose(r) = Unlines(<<k, r.id>>) BY <1>5 DEF Compose, k
  <2> QED BY <1>1, <2>1, <2>2, <2>3 DEF k
<1> QED BY <1>1, <1>2, <1>3, <1>4, <1>5 DEF Keywords

(* The keyword of a text whose first line is one.                          *)
LEMMA KeywordOf ==
  ASSUME NEW k \in Keywords, NEW u \in Seq(Chars)
  PROVE  Keyword(<<k, NL>> \o u) = k
<1> DEFINE text == <<k, NL>> \o u
           I    == {i \in 1 .. Len(text) : text[i] = NL}
           end  == SelectInSeq(text, LAMBDA c : c = NL)
<1>1. k \in Chars /\ NL \in Chars /\ k # NL BY TokensOfLines, NLInChars
<1>2. /\ text \in Seq(Chars) /\ Len(text) \in Nat /\ Len(text) >= 2
      /\ text[1] = k /\ text[2] = NL /\ Head(text) = k
  BY <1>1
<1>3. end = IF I # {} THEN Min(I) ELSE 0 BY DEF SelectInSeq
<1>4. 2 \in I /\ \A i \in I : 2 <= i
  <2> HIDE DEF text
  <2> QED BY <1>1, <1>2
<1>5. end = 2
  <2> HIDE DEF I, end
  <2>1. \A i \in I : i \in Nat BY DEF I
  <2>2. Min(I) = 2 BY <1>4, <2>1 DEF Min
  <2> QED BY <1>3, <1>4, <2>2
<1>6. SubSeq(text, 1, 2) = <<k, NL>>
  <2> DEFINE s == SubSeq(text, 1, 2)
             t == <<k, NL>>
  <2> HIDE DEF text
  <2>1. s \in Seq(Chars) /\ Len(s) = 2 /\ s[1] = k /\ s[2] = NL BY <1>2
  <2>2. t \in Seq(Chars) /\ Len(t) = 2 /\ t[1] = k /\ t[2] = NL BY <1>1
  <2> HIDE DEF s, t
  <2>3. \A i \in 1 .. 2 : s[i] = t[i]
    <3>1. \A i \in 1 .. 2 : i = 1 \/ i = 2 OBVIOUS
    <3> QED BY <2>1, <2>2, <3>1
  <2>4. s = t BY <2>1, <2>2, <2>3, SeqEqual
  <2> QED BY <2>4 DEF s, t
<1>7. Keyword(text) = IF \E x \in Keywords : SubSeq(text, 1, end) = <<x, NL>>
                      THEN Head(text) ELSE "unknown"
  BY DEF Keyword
<1> HIDE DEF text, end
<1>8. \E x \in Keywords : SubSeq(text, 1, end) = <<x, NL>> BY <1>5, <1>6
<1>9. Keyword(text) = k BY <1>2, <1>7, <1>8
<1> QED BY <1>9 DEF text

(* The server finds the lines and the keyword of the request in the text   *)
(* that the client composed of it (client.cpp:50-196, split()).            *)
THEOREM ComposedText ==
  ASSUME NEW r, Typeable(r)
  PROVE  /\ Compose(r) \in Contents
         /\ Lines(Compose(r)) = RequestLines(r)
         /\ Keyword(Compose(r)) = r.kind
<1> DEFINE ls == RequestLines(r)
<1>1. ls \in Seq(Line) /\ ls # <<>> /\ ls[1] = <<r.kind>> /\ Compose(r) = Unlines(ls)
  BY RequestLinesType
<1>2. Compose(r) \in Contents /\ Lines(Compose(r)) = ls BY <1>1, LinesOfUnlines
<1>3. \E u \in Seq(Chars) : Unlines(ls) = <<r.kind, NL>> \o u
  <2> HIDE DEF ls
  <2> DEFINE S == Seq(Chars)
             k == <<r.kind>>
             rest == Tail(ls)
  <2>1. ls \in Seq(S) /\ rest \in Seq(S) /\ ls = <<k>> \o rest
    <3>1. ls \in Seq(S) BY <1>1, LinesInChars
    <3> HIDE DEF S
    <3> QED BY <1>1, <3>1
  <2>2. k \in S BY TokensOfLines DEF Typeable
  <2>3. <<k>> \in Seq(S)
    <3> HIDE DEF S, k
    <3> QED BY <2>2
  <2>4. Unlines(ls) = Unlines(<<k>>) \o Unlines(rest)
    <3> HIDE DEF k, rest
    <3> QED BY <2>1, <2>3, NLInChars, UnlinesConcat
  <2>5. Unlines(<<k>>) = <<r.kind, NL>>
    <3>1. k \o <<NL>> = <<r.kind, NL>> BY TwoTokens
    <3> HIDE DEF k
    <3> QED BY <2>2, <3>1, NLInChars, UnlinesOne
  <2>6. Unlines(rest) \in S BY <2>1, NLInChars, UnlinesType
  <2> QED BY <2>4, <2>5, <2>6
<1>4. Keyword(Compose(r)) = r.kind BY <1>1, <1>3, KeywordOf DEF Typeable
<1> QED BY <1>2, <1>4

-----------------------------------------------------------------------------
(* The reply.                                                              *)

LEMMA TailOfCons ==
  ASSUME NEW C, NEW x \in C, NEW s \in Seq(C)
  PROVE  Tail(<<x>> \o s) = s
<1> DEFINE a == <<x>> \o s
           t == Tail(a)
           n == Len(s)
<1>1. /\ a \in Seq(C) /\ n \in Nat /\ Len(a) = n + 1
      /\ \A i \in 1 .. n : a[i + 1] = s[i]
  <2> DEFINE o == <<x>>
  <2>1. o \in Seq(C) /\ Len(o) = 1 OBVIOUS
  <2> HIDE DEF o
  <2>2. o \o s \in Seq(C) /\ Joins(o, s, o \o s) BY <2>1, Joined
  <2> DEFINE u == o \o s
  <2> HIDE DEF u
  <2>3. u \in Seq(C) /\ Joins(o, s, u) BY <2>2 DEF u
  <2>4. n \in Nat /\ Len(u) = n + 1 /\ \A i \in 1 .. n : u[i + 1] = s[i]
    BY <2>1, <2>3 DEF Joins
  <2> QED BY <2>3, <2>4 DEF u, o
<1> HIDE DEF a, n
<1>2. t \in Seq(C) /\ Len(t) = n /\ \A i \in 1 .. n : t[i] = a[i + 1]
  <2>1. a # <<>> BY <1>1
  <2> QED BY <1>1, <2>1, HeadTailProperties
<1> HIDE DEF t
<1>3. \A i \in 1 .. n : t[i] = s[i] BY <1>1, <1>2
<1>4. t = s BY <1>2, <1>3, SeqEqual DEF n
<1> QED BY <1>4 DEF t, a

(* A text that starts with two others that are different tokens.           *)
LEMMA Replies ==
  /\ OK \in Contents /\ ERR \in Contents
  /\ Lines(OK) = << <<"OK">> >> /\ OK # ERR
  /\ ~IsPrefix(OK, ERR)
<1>1. <<"OK">> \in Line /\ <<"ERR">> \in Line BY TokensOfLines
<1>2. OK = <<"OK">> \o <<NL>> /\ ERR = <<"ERR">> \o <<NL>>
  BY TwoTokens DEF OK, ERR
<1>3. OK # ERR
  <2>1. OK[1] = "OK" /\ ERR[1] = "ERR" BY DEF OK, ERR
  <2> QED BY <2>1
<1>4. ~IsPrefix(OK, ERR)
  <2>1. Len(OK) = 2 /\ Len(ERR) = 2 /\ OK \in Seq(Chars) /\ ERR \in Seq(Chars)
    BY TokensOfLines, NLInChars DEF OK, ERR
  <2>2. SubSeq(OK, 1, 2) = OK /\ SubSeq(ERR, 1, 2) = ERR BY <2>1, SubSeqFull
  <2> QED BY <1>3, <2>1, <2>2 DEF IsPrefix
<1> QED BY <1>1, <1>2, <1>3, <1>4, OneLine

LEMMA PrefixOf ==
  ASSUME NEW s \in Seq(Chars), NEW t \in Seq(Chars)
  PROVE  IsPrefix(s, s \o t)
<1> DEFINE u == s \o t
           n == Len(s)
           a == SubSeq(s, 1, n)
           b == SubSeq(u, 1, n)
<1>1. u \in Seq(Chars) /\ Joins(s, t, u) BY Joined
<1> HIDE DEF u
<1>2. n \in Nat /\ n <= Len(u) /\ \A i \in 1 .. n : u[i] = s[i] BY <1>1 DEF Joins
<1>3. a = s BY SubSeqFull
<1>4. b \in Seq(Chars) /\ Len(b) = n /\ \A i \in 1 .. n : b[i] = u[i]
  <2> HIDE DEF n
  <2> QED BY <1>1, <1>2
<1> HIDE DEF b
<1>5. b = s BY <1>2, <1>4, SeqEqual
<1>6. IsPrefix(s, u) BY <1>2, <1>3, <1>5 DEF IsPrefix, b
<1> QED BY <1>6 DEF u

(* A list: a line with the number of its entries, then the entries.        *)
LEMMA ListReplyLines ==
  ASSUME NEW E \in Seq(Line), Numeral(Len(E)) \in Chars \ {NL}
  PROVE  /\ ListReply(E) \in Contents /\ IsPrefix(OK, ListReply(E))
         /\ Tail(Lines(ListReply(E))) = << <<Numeral(Len(E))>> >> \o E
<1> DEFINE n    == Numeral(Len(E))
           num  == <<n, NL>>
           body == Unlines(E)
<1>0. ListReply(E) = (OK \o num) \o body BY DEF ListReply
<1>1. num \in Contents /\ Lines(num) = << <<n>> >> /\ <<n>> \in Line
  <2> HIDE DEF n
  <2>1. <<n>> \in Line BY TokensOfLines DEF n
  <2>2. num = <<n>> \o <<NL>> BY TwoTokens
  <2> QED BY <2>1, <2>2, OneLine
<1> DEFINE l == <<n>>
           ok == <<"OK">>
<1>2. ok \in Line BY TokensOfLines
<1> HIDE DEF num, body, n, l
<1>3. OK \o num \in Contents /\ Lines(OK \o num) = <<ok>> \o <<l>>
  BY <1>1, Replies, MoreLines DEF l
<1> HIDE DEF ok
<1>4. \A c \in Contents : c \in Seq(Chars) BY DEF Contents
<1>5. /\ (OK \o num) \o body \in Contents
      /\ Lines((OK \o num) \o body) = <<ok>> \o (<<l>> \o E)
  <2> DEFINE head == OK \o num
  <2> HIDE DEF head
  <2>1. CASE E = <<>>
    <3>1. body = <<>> BY <2>1, UnlinesEmpty DEF body
    <3>2. head \o <<>> = head
      <4>1. head \in Seq(Chars) BY <1>3, <1>4 DEF head
      <4> QED BY <4>1, ConcatEmptySeq
    <3>3. <<l>> \o E = <<l>> BY <2>1
    <3> QED BY <1>3, <3>1, <3>2, <3>3 DEF head
  <2>2. CASE E # <<>>
    <3>1. body \in Contents /\ Lines(body) = E BY <2>2, LinesOfUnlines DEF body
    <3>2. head \o body \in Contents /\ Lines(head \o body) = (<<ok>> \o <<l>>) \o E
      BY <1>3, <3>1, MoreLines DEF head
    <3>3. (<<ok>> \o <<l>>) \o E = <<ok>> \o (<<l>> \o E)
      <4> DEFINE p == <<ok>>
                 q == <<l>>
      <4>1. p \in Seq(Line) /\ q \in Seq(Line) BY <1>1, <1>2 DEF l
      <4>2. \A s, t, u \in Seq(Line) : (s \o t) \o u = s \o (t \o u) BY Regroup
      <4> HIDE DEF p, q
      <4>3. (p \o q) \o E = p \o (q \o E) BY <4>1, <4>2, Zenon
      <4> QED BY <4>3 DEF p, q
    <3> QED BY <3>2, <3>3 DEF head
  <2> QED BY <2>1, <2>2
<1>6. <<l>> \o E \in Seq(Line)
  <2> DEFINE q == <<l>>
  <2>1. q \in Seq(Line) BY <1>1 DEF l
  <2> HIDE DEF q
  <2>2. q \o E \in Seq(Line) BY <2>1
  <2> QED BY <2>2 DEF q
<1>7. Tail(<<ok>> \o (<<l>> \o E)) = <<l>> \o E
  <2> DEFINE s == <<l>> \o E
  <2> HIDE DEF s
  <2>1. s \in Seq(Line) BY <1>6 DEF s
  <2>2. Tail(<<ok>> \o s) = s BY <1>2, <2>1, TailOfCons
  <2> QED BY <2>2 DEF s
<1>8. IsPrefix(OK, (OK \o num) \o body)
  <2>1. OK \in Seq(Chars) /\ num \in Seq(Chars) BY <1>1, <1>4, Replies
  <2>2. body \in Seq(Chars) BY LinesInChars, NLInChars, UnlinesType DEF body
  <2>3. (OK \o num) \o body = OK \o (num \o body)
    <3>1. \A s, t, u \in Seq(Chars) : (s \o t) \o u = s \o (t \o u) BY Regroup
    <3> QED BY <2>1, <2>2, <3>1, Zenon
  <2>4. num \o body \in Seq(Chars) BY <2>1, <2>2
  <2> QED BY <2>1, <2>3, <2>4, PrefixOf
<1> QED BY <1>0, <1>5, <1>7, <1>8 DEF l, n

(* The receivers as toString() writes them.                                *)
Named(mail) ==
  FlattenSeq([i \in DOMAIN mail.receivers |-> mail.receivers[i] \o <<SP>>])

LEMMA NamedType == ASSUME NEW mail \in Mails PROVE Named(mail) \in Line
<1> DEFINE C == Chars \ {NL}
           S == Seq(C)
           names == mail.receivers
           f == [i \in DOMAIN names |-> names[i] \o <<SP>>]
<1>1. names \in Seq(S) BY DEF Mails, Line
<1>2. <<SP>> \in S
  <2>1. SP \in C BY TokensOfLines
  <2> HIDE DEF C
  <2> QED BY <2>1
<1>3. \A i \in DOMAIN names : names[i] \o <<SP>> \in S
  <2> DEFINE sp == <<SP>>
  <2> HIDE DEF names, sp, C
  <2>1. \A i \in DOMAIN names : names[i] \in S
    <3> HIDE DEF S
    <3> QED BY <1>1
  <2>2. sp \in S BY <1>2 DEF sp
  <2>3. \A i \in DOMAIN names : names[i] \o sp \in S BY <2>1, <2>2, ConcatProperties
  <2> QED BY <2>3 DEF sp
<1>4. f \in [DOMAIN names -> S] BY <1>3
<1> HIDE DEF S, names, f
<1>5. f \in Seq(S) BY <1>1, <1>4, EachOfSeq
<1>6. FlattenSeq(f) \in S BY <1>5, FlattenType DEF S
<1> QED BY <1>6 DEF Named, Line, S, f, names

(* A mail: three lines, the content, and an empty line.                    *)
MailReply(mail) == OK \o MailText(mail) \o <<NL>>

PageLines(mail) ==
  <<mail.sender, Named(mail), mail.subject>> \o Lines(mail.content) \o << <<>> >>

LEMMA MailReplyLines ==
  ASSUME NEW mail \in Mails
  PROVE  /\ MailReply(mail) \in Contents /\ IsPrefix(OK, MailReply(mail))
         /\ PageLines(mail) \in Seq(Line) /\ Len(PageLines(mail)) >= 3
         /\ Tail(Lines(MailReply(mail))) = PageLines(mail)
<1> DEFINE a == mail.sender
           b == Named(mail)
           c == mail.subject
           t == mail.content
           m == MailText(mail)
           end == <<NL>>
<1>1. a \in Line /\ b \in Line /\ c \in Line /\ t \in Contents
  BY NamedType DEF Mails
<1>2. m = ((((((a \o end) \o b) \o end) \o c) \o end) \o t)
  BY DEF MailText, Named
<1>3. /\ end \in Contents /\ Lines(end) = << <<>> >>
  <2>1. <<>> \in Line BY DEF Line
  <2>2. <<>> \o end = end OBVIOUS
  <2> QED BY <2>1, <2>2, OneLine
<1>4. \A x \in Contents : x \in Seq(Chars) BY DEF Contents
<1>5. a \in Seq(Chars) /\ b \in Seq(Chars) /\ c \in Seq(Chars)
  BY <1>1, LineInChars
<1> HIDE DEF a, b, c, t, m, end
<1>6. \A q, r, s \in Seq(Chars) : (q \o r) \o s = q \o (r \o s) BY Regroup
<1> DEFINE a1 == a \o end
           b1 == b \o end
           c1 == c \o end
<1>7. /\ a1 \in Contents /\ Lines(a1) = <<a>>
      /\ b1 \in Contents /\ Lines(b1) = <<b>>
      /\ c1 \in Contents /\ Lines(c1) = <<c>>
  BY <1>1, OneLine DEF end
<1>8. (a1 \o b) \o end = a1 \o b1
  <2> HIDE DEF a1
  <2>1. a1 \in Seq(Chars) /\ end \in Seq(Chars) BY <1>3, <1>4, <1>7
  <2> QED BY <1>5, <1>6, <2>1, Zenon
<1> HIDE DEF a1, b1
<1>9. /\ a1 \o b1 \in Contents /\ Lines(a1 \o b1) = <<a>> \o <<b>>
  BY <1>7, MoreLines
<1> DEFINE d == a1 \o b1
<1> HIDE DEF d
<1>10. (d \o c) \o end = d \o c1
  <2>1. d \in Seq(Chars) /\ end \in Seq(Chars) BY <1>3, <1>4, <1>9 DEF d
  <2> QED BY <1>5, <1>6, <2>1, Zenon
<1> HIDE DEF c1
<1>11. /\ d \o c1 \in Contents /\ Lines(d \o c1) = (<<a>> \o <<b>>) \o <<c>>
  BY <1>7, <1>9, MoreLines DEF d
<1> DEFINE e == d \o c1
           ls == (<<a>> \o <<b>>) \o <<c>>
<1> HIDE DEF e
<1>12. m = e \o t BY <1>2, <1>8, <1>10 DEF a1, d, e
<1>13. ls = <<a, b, c>> /\ ls \in Seq(Line) /\ Len(ls) = 3
  <2>1. <<a>> \o <<b>> = <<a, b>> BY TwoTokens
  <2>2. <<a, b>> \o <<c>> = <<a, b, c>> BY ThreeTokens
  <2>3. <<a, b, c>> \in Seq(Line) /\ Len(<<a, b, c>>) = 3 BY <1>1
  <2> QED BY <2>1, <2>2, <2>3
<1> HIDE DEF ls
<1>14. /\ e \o t \in Contents /\ Lines(e \o t) = ls \o Lines(t)
  BY <1>1, <1>11, MoreLines DEF e, ls
<1> DEFINE u  == e \o t
           lt == Lines(t)
           ok == <<"OK">>
<1> HIDE DEF u, ok
<1>15. OK \o u \in Contents /\ Lines(OK \o u) = <<ok>> \o (ls \o lt)
  BY <1>14, Replies, MoreLines DEF u, ok
<1> DEFINE v == OK \o u
           last == << <<>> >>
<1>16. lt \in Seq(Line) BY <1>1, <1>4, LinesType
<1>17. last \in Seq(Line) BY DEF Line
<1>18. ok \in Line BY TokensOfLines DEF ok
<1> HIDE DEF v, lt, last
<1>19. v \o end \in Contents /\ Lines(v \o end) = (<<ok>> \o (ls \o lt)) \o last
  BY <1>3, <1>15, MoreLines DEF v, last
<1>20. MailReply(mail) = v \o end BY <1>12 DEF MailReply, v, u, m, end
<1> DEFINE page == (ls \o lt) \o last
<1>21. PageLines(mail) = page BY <1>13 DEF PageLines, a, b, c, t, lt, last
<1>22. (<<ok>> \o (ls \o lt)) \o last = <<ok>> \o page
  <2> DEFINE o == <<ok>>
             p == ls \o lt
  <2>1. o \in Seq(Line) /\ p \in Seq(Line) BY <1>13, <1>16, <1>18, ConcatProperties
  <2>2. \A q, r, s \in Seq(Line) : (q \o r) \o s = q \o (r \o s) BY Regroup
  <2> HIDE DEF o, p
  <2>3. (o \o p) \o last = o \o (p \o last) BY <1>17, <2>1, <2>2, Zenon
  <2> QED BY <2>3 DEF o, p
<1>23. page \in Seq(Line) /\ Len(page) >= 3
  <2> DEFINE p == ls \o lt
  <2>1. p \in Seq(Line) /\ Joins(ls, lt, p) BY <1>13, <1>16, Joined
  <2> HIDE DEF p
  <2>2. p \o last \in Seq(Line) /\ Joins(p, last, p \o last) BY <1>17, <2>1, Joined
  <2> HIDE DEF page
  <2>3. page \in Seq(Line) /\ Joins(p, last, page) BY <2>2 DEF p, page
  <2>4. Len(page) >= 3 BY <1>13, <2>1, <2>3 DEF Joins
  <2> QED BY <2>3, <2>4
<1> HIDE DEF page
<1>24. Tail(<<ok>> \o page) = page BY <1>18, <1>23, TailOfCons
<1>25. IsPrefix(OK, v \o end)
  <2>1. OK \in Seq(Chars) /\ u \in Seq(Chars) /\ end \in Seq(Chars)
    BY <1>3, <1>4, <1>14, Replies DEF u
  <2>2. (OK \o u) \o end = OK \o (u \o end) BY <1>6, <2>1, Zenon
  <2>3. u \o end \in Seq(Chars) BY <2>1, ConcatProperties
  <2> QED BY <2>1, <2>2, <2>3, PrefixOf DEF v
<1> QED BY <1>19, <1>20, <1>21, <1>22, <1>23, <1>24, <1>25

-----------------------------------------------------------------------------
(* What the client shows.                                                  *)

LEMMA ShowsType ==
  ASSUME NEW r, NEW reply \in Seq(Chars)
  PROVE  Shows(r, reply) \in Results
<1> DEFINE all   == Lines(reply)
           lines == Tail(all)
           least == IF r.kind = "READ" THEN 3 ELSE 1
<1>1. all \in Seq(Line) /\ all # <<>> BY LinesNotEmpty
<1> HIDE DEF all
<1>2. lines \in Seq(Line) BY <1>1
<1>3. <<>> \in Seq(Line) OBVIOUS
<1> HIDE DEF lines
<1>4. \/ \E x \in {"done", "failed", "abort"} :
           Shows(r, reply) = [result |-> x, lines |-> <<>>]
      \/ Shows(r, reply) = [result |-> "done", lines |-> lines]
  <2>1. CASE r.kind \in {"LIST", "LIST_SENT", "READ"}
    BY <2>1, Zenon DEF Shows, lines, all
  <2>2. CASE r.kind \notin {"LIST", "LIST_SENT", "READ"}
    <3>1. Shows(r, reply)
            = [result |-> IF reply = OK THEN "done" ELSE "failed", lines |-> <<>>]
      BY <2>2, Zenon DEF Shows
    <3> QED BY <3>1
  <2> QED BY <2>1, <2>2
<1> DEFINE L == Seq(Line)
           R == {"done", "failed", "abort"}
<1>5. lines \in L /\ <<>> \in L BY <1>2, <1>3
<1> HIDE DEF L
<1>6. Shows(r, reply) \in [result : R, lines : L]
  <2>1. \A x \in R : [result |-> x, lines |-> <<>>] \in [result : R, lines : L]
    BY <1>5
  <2>2. [result |-> "done", lines |-> lines] \in [result : R, lines : L] BY <1>5
  <2> QED BY <1>4, <2>1, <2>2
<1> QED BY <1>6 DEF Results, L

Failure == [result |-> "failed", lines |-> <<>>]
Success(lines) == [result |-> "done", lines |-> lines]

LEMMA ShowsFailure == ASSUME NEW r PROVE Shows(r, ERR) = Failure
<1>1. CASE r.kind \in {"LIST", "LIST_SENT", "READ"}
  BY <1>1, Replies, Zenon DEF Shows, Failure
<1>2. CASE r.kind \notin {"LIST", "LIST_SENT", "READ"}
  <2>1. Shows(r, ERR)
          = [result |-> IF ERR = OK THEN "done" ELSE "failed", lines |-> <<>>]
    BY <1>2, Zenon DEF Shows
  <2> QED BY <2>1, Replies DEF Failure
<1> QED BY <1>1, <1>2

LEMMA ShowsSuccess ==
  ASSUME NEW r, r.kind \notin {"LIST", "LIST_SENT", "READ"}
  PROVE  Shows(r, OK) = Success(<<>>)
<1>1. Shows(r, OK)
        = [result |-> IF OK = OK THEN "done" ELSE "failed", lines |-> <<>>]
  BY Zenon DEF Shows
<1> QED BY <1>1 DEF Success

LEMMA ShowsLines ==
  ASSUME NEW r, NEW reply, IsPrefix(OK, reply),
         \/ r.kind \in {"LIST", "LIST_SENT"} /\ Len(Tail(Lines(reply))) >= 1
         \/ r.kind = "READ" /\ Len(Tail(Lines(reply))) >= 3,
         Len(Tail(Lines(reply))) \in Nat
  PROVE  Shows(r, reply) = Success(Tail(Lines(reply)))
<1> DEFINE lines == Tail(Lines(reply))
           least == IF r.kind = "READ" THEN 3 ELSE 1
<1>1. r.kind \in {"LIST", "LIST_SENT", "READ"} OBVIOUS
<1>2. Shows(r, reply)
        = IF ~IsPrefix(OK, reply) THEN [result |-> "failed", lines |-> <<>>]
          ELSE IF Len(lines) < least THEN [result |-> "abort", lines |-> <<>>]
          ELSE [result |-> "done", lines |-> lines]
  BY <1>1, Zenon DEF Shows
<1> HIDE DEF lines
<1>3. ~(Len(lines) < least) BY DEF lines
<1> HIDE DEF least
<1> QED BY <1>2, <1>3, Zenon DEF Success, lines

-----------------------------------------------------------------------------
(* The mails.                                                              *)

(* What is kept of them is well formed, and there are ids enough.          *)
WorldOK(w) ==
  /\ w \in Worlds
  /\ \A entry \in w.inbox : entry[2] \in DOMAIN w.mails

LEMMA WorldParts ==
  ASSUME NEW w, WorldOK(w)
  PROVE  /\ w = [mails |-> w.mails, inbox |-> w.inbox]
         /\ w.mails \in Seq(Mails) /\ w.inbox \subseteq Line \X Nat
         /\ DOMAIN w.mails = 1 .. Len(w.mails) /\ Len(w.mails) \in Nat
         /\ \A i \in DOMAIN w.mails : w.mails[i] \in Mails
<1>1. /\ w = [mails |-> w.mails, inbox |-> w.inbox]
      /\ w.mails \in Seq(Mails) /\ w.inbox \subseteq Line \X Nat
  BY DEF WorldOK, Worlds
<1> DEFINE m == w.mails
<1> HIDE DEF m
<1>2. m \in Seq(Mails) BY <1>1 DEF m
<1>3. DOMAIN m = 1 .. Len(m) /\ Len(m) \in Nat /\ \A i \in DOMAIN m : m[i] \in Mails
  BY <1>2
<1> QED BY <1>1, <1>3 DEF m

LEMMA IdsType == Len(Ids) \in Nat /\ \A i \in 1 .. Len(Ids) : Ids[i] \in Chars \ {NL}
  BY RequestsConstants DEF Line

LEMMA EntriesType ==
  ASSUME NEW w, WorldOK(w), Len(w.mails) <= Len(Ids),
         NEW folder \in SUBSET DOMAIN w.mails
  PROVE  /\ Entries(w, folder) \in Seq(Line)
         /\ Len(Entries(w, folder)) \in 0 .. Len(Ids)
<1> DEFINE n == Cardinality(folder)
           m == w.mails
           f == SetToSeq(folder)
<1>1. /\ DOMAIN m = 1 .. Len(m) /\ Len(m) \in Nat
      /\ \A i \in DOMAIN m : m[i] \in Mails
  BY WorldParts
<1> HIDE DEF m
<1>2. IsFiniteSet(folder) /\ n <= Len(m) /\ n \in Nat
  <2>1. IsFiniteSet(1 .. Len(m)) /\ Cardinality(1 .. Len(m)) = Len(m)
    <3>1. 1 \in Int /\ Len(m) \in Int BY <1>1
    <3>2. /\ IsFiniteSet(1 .. Len(m))
          /\ Cardinality(1 .. Len(m)) = IF 1 > Len(m) THEN 0 ELSE Len(m) - 1 + 1
      BY <3>1, FS_Interval
    <3>3. (IF 1 > Len(m) THEN 0 ELSE Len(m) - 1 + 1) = Len(m) BY <1>1
    <3> QED BY <3>2, <3>3
  <2>2. folder \in SUBSET (1 .. Len(m)) BY <1>1 DEF m
  <2>3. IsFiniteSet(folder) /\ n <= Cardinality(1 .. Len(m)) BY <2>1, <2>2, FS_Subset
  <2> QED BY <2>1, <2>3, FS_CardinalityType
<1>3. f \in [1 .. n -> folder]
  <2>1. ExistsBijection(1 .. n, folder) BY <1>2, FS_CardinalityType
  <2>2. \E g \in [1 .. n -> folder] : IsInjective(g)
    BY <2>1 DEF ExistsBijection, Bijection, Injection
  <2> QED BY <2>2 DEF SetToSeq
<1> HIDE DEF n, f
<1> DEFINE e(k) == <<Ids[f[k]], SP>> \o m[f[k]].subject
<1>4. ASSUME NEW k \in 1 .. n PROVE e(k) \in Line
  <2> DEFINE i == f[k]
  <2>1. i \in 1 .. Len(m) BY <1>1, <1>3 DEF m
  <2> HIDE DEF i
  <2>2. Ids[i] \in Chars \ {NL}
    <3>1. i \in 1 .. Len(Ids) BY <1>1, <2>1, IdsType DEF m
    <3> QED BY <3>1, IdsType
  <2>3. m[i].subject \in Line BY <1>1, <2>1 DEF Mails
  <2> DEFINE x == Ids[i]
             s == m[i].subject
             C == Chars \ {NL}
  <2> HIDE DEF x, s
  <2>4. <<x, SP>> \in Seq(C) /\ s \in Seq(C)
    <3>1. SP \in C BY TokensOfLines
    <3> QED BY <2>2, <2>3, <3>1 DEF x, s, Line
  <2>5. <<x, SP>> \o s \in Seq(C)
    <3> DEFINE p == <<x, SP>>
    <3> HIDE DEF p, C
    <3>1. p \o s \in Seq(C) BY <2>4 DEF p
    <3> QED BY <3>1 DEF p
  <2> QED BY <2>5 DEF Line, x, s, i
<1>5. Entries(w, folder) = [k \in 1 .. n |-> e(k)] BY DEF Entries, n, m, f
<1> HIDE DEF e
<1> DEFINE E == [k \in 1 .. n |-> e(k)]
<1>6. E \in Seq(Line) /\ Len(E) = n BY <1>2, <1>4
<1> HIDE DEF E
<1>7. n \in 0 .. Len(Ids) BY <1>1, <1>2, IdsType DEF m
<1> QED BY <1>5, <1>6, <1>7 DEF E

-----------------------------------------------------------------------------
(* process().                                                              *)

(* What it can do with a text.                                             *)
Processed(text, lines, user, w, o) ==
  \/ /\ ~IsValid(text) \/ Keyword(text) = "LOGIN" \/ user = Nobody
     /\ o = Done(ERR, user, w)
  \/ /\ Keyword(text) = "LOGIN" /\ <<lines[2], lines[3]>> \in Accounts
     /\ IsValid(text) /\ o = Done(OK, lines[2], w)
  \/ /\ IsValid(text) /\ user # Nobody
     /\ \/ Keyword(text) = "SEND" /\ o = ProcessSend(lines, user, w)
        \/ Keyword(text) = "READ" /\ o = ProcessRead(lines, user, w)
        \/ Keyword(text) = "DEL"  /\ o = ProcessDel(lines, user, w)
        \/ /\ Keyword(text) = "LIST"
           /\ o = Done(ListReply(Entries(w, Inbox(w, user))), user, w)
        \/ /\ Keyword(text) = "LIST_SENT"
           /\ o = Done(ListReply(Entries(w, Sent(w, user))), user, w)

LEMMA ProcessCases ==
  ASSUME NEW text, NEW user, NEW w, NEW o \in Process(text, user, w)
  PROVE  Processed(text, Lines(text), user, w, o)
<1> DEFINE k == Keyword(text)
           lines == Lines(text)
           valid == IsValid(text)
<1>1. k \notin Keywords => valid = FALSE BY Zenon DEF IsValid, Keywords
<1> HIDE DEF k, lines, valid
<1>2. CASE ~valid
  <2>1. Process(text, user, w) = {Done(ERR, user, w)} BY <1>2 DEF Process, valid
  <2> QED BY <1>2, <2>1 DEF Processed, valid
<1>3. CASE valid /\ k = "LOGIN"
  <2>1. Process(text, user, w)
          = {Done(ERR, user, w)}
              \cup (IF <<lines[2], lines[3]>> \in Accounts
                    THEN {Done(OK, lines[2], w)} ELSE {})
    BY <1>3, Zenon DEF Process, valid, k, lines
  <2> QED BY <1>3, <2>1 DEF Processed, valid, k, lines
<1>4. CASE valid /\ k # "LOGIN" /\ user = Nobody
  <2>1. Process(text, user, w) = {Done(ERR, user, w)}
    BY <1>4, Zenon DEF Process, valid, k
  <2> QED BY <1>4, <2>1 DEF Processed
<1>5. CASE valid /\ k # "LOGIN" /\ user # Nobody
  <2>1. k \in {"SEND", "READ", "DEL", "LIST", "LIST_SENT"} BY <1>1, <1>5 DEF Keywords
  <2>2. o = CASE k = "SEND" -> ProcessSend(lines, user, w)
              [] k = "READ" -> ProcessRead(lines, user, w)
              [] k = "DEL"  -> ProcessDel(lines, user, w)
              [] k = "LIST" ->
                   Done(ListReply(Entries(w, Inbox(w, user))), user, w)
              [] k = "LIST_SENT" ->
                   Done(ListReply(Entries(w, Sent(w, user))), user, w)
    BY <1>5, Zenon DEF Process, valid, k, lines
  <2> QED BY <1>5, <2>1, <2>2, Zenon DEF Processed, valid, k, lines
<1> QED BY <1>2, <1>3, <1>4, <1>5

LEMMA ValidLogin ==
  ASSUME NEW text \in Seq(Chars), IsValid(text), Keyword(text) = "LOGIN"
  PROVE  Lines(text)[2] \in Line
<1> DEFINE lines == Lines(text)
<1>1. lines \in Seq(Line) BY LinesType
<1>2. 2 \in 1 .. Len(lines)
  <2>1. Len(lines) = 3 BY Zenon DEF IsValid
  <2> QED BY <2>1
<1> HIDE DEF lines
<1>3. lines[2] \in Line BY <1>1, <1>2, ElementOfSeq
<1> QED BY <1>3 DEF lines

LEMMA SendIsValid ==
  ASSUME NEW text, Keyword(text) = "SEND"
  PROVE  IsValid(text) <=> ValidSend(Lines(text))
  BY Zenon DEF IsValid

(* A mail is added at the end, and everybody it names gets it.             *)
LEMMA AddedType ==
  ASSUME NEW w, WorldOK(w), NEW mail \in Mails
  PROVE  WorldOK(Added(w, mail)) /\ Len(Added(w, mail).mails) = Len(w.mails) + 1
<1> DEFINE m   == w.mails
           n   == Len(m) + 1
           new == Append(m, mail)
           box == w.inbox
           got == ToSet(mail.receivers)
<1>1. /\ m \in Seq(Mails) /\ box \subseteq Line \X Nat
      /\ DOMAIN m = 1 .. Len(m) /\ Len(m) \in Nat
  BY WorldParts
<1>2. got \subseteq Line
  <2> DEFINE r == mail.receivers
  <2>1. r \in Seq(Line) BY DEF Mails
  <2> HIDE DEF r
  <2>2. \A i \in DOMAIN r : r[i] \in Line BY <2>1
  <2> QED BY <2>2 DEF ToSet, r
<1>3. \A entry \in box : entry[2] \in DOMAIN m BY DEF WorldOK
<1> HIDE DEF m, box, got
<1>4. new \in Seq(Mails) /\ DOMAIN new = 1 .. n /\ Len(new) = n BY <1>1
<1>5. box \cup (got \X {n}) \subseteq Line \X Nat BY <1>1, <1>2
<1>6. \A entry \in box \cup (got \X {n}) : entry[2] \in DOMAIN new BY <1>1, <1>3, <1>4
<1>7. Added(w, mail) = [mails |-> new, inbox |-> box \cup (got \X {n})]
  BY DEF Added, m, box, got
<1> HIDE DEF new, n
<1>8. /\ Added(w, mail) \in [mails : Seq(Mails), inbox : SUBSET (Line \X Nat)]
      /\ Added(w, mail).mails = new
      /\ Added(w, mail).inbox = box \cup (got \X {n})
  BY <1>4, <1>5, <1>7
<1> QED BY <1>4, <1>6, <1>8 DEF WorldOK, Worlds, n, m

LEMMA SendMail ==
  ASSUME NEW lines \in Seq(Line), ValidSend(lines), NEW user \in Line
  PROVE  [sender |-> user, receivers |-> Words(lines[2]), subject |-> lines[3],
          content |-> Unlines(SubSeq(lines, 4, Len(lines) - 1))] \in Mails
<1> DEFINE body == SubSeq(lines, 4, Len(lines) - 1)
<1>1. Len(lines) >= 5 /\ Len(lines) \in Nat BY DEF ValidSend
<1>2. lines[2] \in Line /\ lines[3] \in Line BY <1>1
<1>3. Words(lines[2]) \in Seq(Line)
  <2> DEFINE l == lines[2]
             C == Chars \ {NL}
  <2> HIDE DEF l
  <2>1. l \in Seq(C) BY <1>2 DEF l, Line
  <2>2. Words(l) \in Seq(Seq(C \ {SP}))
    <3> HIDE DEF C
    <3> QED BY <2>1, SplitType DEF Words
  <2>3. Seq(C \ {SP}) \subseteq Seq(C)
    <3>1. C \ {SP} \subseteq C OBVIOUS
    <3> HIDE DEF C
    <3> QED BY <3>1, SeqMonotonic
  <2> DEFINE A == Seq(C \ {SP})
             B == Seq(C)
  <2> HIDE DEF A, B
  <2>4. Seq(A) \subseteq Seq(B) BY <2>3, SeqMonotonic DEF A, B
  <2> QED BY <2>2, <2>4 DEF A, B, Line, l
<1>4. body \in Seq(Line) /\ body # <<>>
  <2>1. body \in Seq(Line) /\ Len(body) = Len(lines) - 4 BY <1>1
  <2> HIDE DEF body
  <2>2. Len(body) # 0 BY <1>1, <2>1
  <2> QED BY <2>1, <2>2
<1>5. Unlines(body) \in Contents BY <1>4, LinesOfUnlines
<1> HIDE DEF body
<1> DEFINE W == Seq(Line)
           ws == Words(lines[2])
           s == lines[3]
           t == Unlines(body)
<1> HIDE DEF W, ws, s, t
<1>6. ws \in W /\ s \in Line /\ t \in Contents BY <1>2, <1>3, <1>5 DEF ws, s, t, W
<1>7. [sender |-> user, receivers |-> ws, subject |-> s, content |-> t]
        \in [sender : Line, receivers : W, subject : Line, content : Contents]
  BY <1>6
<1> QED BY <1>7 DEF Mails, W, ws, s, t, body

LEMMA Removed ==
  ASSUME NEW w, w = [mails |-> w.mails, inbox |-> w.inbox], NEW X
  PROVE  [w EXCEPT !.inbox = @ \ X] = [mails |-> w.mails, inbox |-> w.inbox \ X]
  OBVIOUS

LEMMA MailReplyType ==
  ASSUME NEW w, WorldOK(w), NEW i \in DOMAIN w.mails
  PROVE  MailReply(w.mails[i]) \in Contents
  BY WorldParts, MailReplyLines

LEMMA ListType ==
  ASSUME NEW w, WorldOK(w), Len(w.mails) <= Len(Ids),
         NEW folder \in SUBSET DOMAIN w.mails
  PROVE  /\ ListReply(Entries(w, folder)) \in Contents
         /\ Entries(w, folder) \in Seq(Line)
         /\ Numeral(Len(Entries(w, folder))) \in Chars \ {NL}
<1> DEFINE E == Entries(w, folder)
<1>1. E \in Seq(Line) /\ Len(E) \in 0 .. Len(Ids) BY EntriesType
<1> HIDE DEF E
<1>2. Numeral(Len(E)) \in Chars \ {NL} BY <1>1, RequestsConstants
<1> QED BY <1>1, <1>2, ListReplyLines DEF E

(* Whatever the text that process() gets, the reply is made of lines, the  *)
(* session has a user or none, every link is to a mail, and there is at    *)
(* most one mail more (requestProcessor.hpp:57-83).                        *)
THEOREM ProcessType ==
  ASSUME NEW text \in Seq(Chars), NEW user \in Line \cup {Nobody},
         NEW w, WorldOK(w), Len(w.mails) <= Len(Ids),
         NEW o \in Process(text, user, w)
  PROVE  /\ o = Done(o.reply, o.user, o.world)
         /\ o.reply \in Contents /\ o.user \in Line \cup {Nobody}
         /\ WorldOK(o.world)
         /\ \/ Len(o.world.mails) = Len(w.mails)
            \/ Len(o.world.mails) = Len(w.mails) + 1
<1> DEFINE lines == Lines(text)
<1>1. Processed(text, lines, user, w, o) BY ProcessCases
<1>2. lines \in Seq(Line) BY LinesType
<1>3. OK \in Contents /\ ERR \in Contents BY Replies
<1>4. ASSUME NEW x \in Contents, NEW u \in Line \cup {Nobody}, NEW v, WorldOK(v),
             \/ Len(v.mails) = Len(w.mails)
             \/ Len(v.mails) = Len(w.mails) + 1,
             o = Done(x, u, v)
      PROVE  /\ o = Done(o.reply, o.user, o.world)
             /\ o.reply \in Contents /\ o.user \in Line \cup {Nobody}
             /\ WorldOK(o.world)
             /\ \/ Len(o.world.mails) = Len(w.mails)
                \/ Len(o.world.mails) = Len(w.mails) + 1
  <2>1. o.reply = x /\ o.user = u /\ o.world = v BY <1>4 DEF Done
  <2> QED BY <1>4, <2>1
<1> HIDE DEF lines
<1>5. CASE o = Done(ERR, user, w) BY <1>3, <1>4, <1>5
<1>6. CASE Keyword(text) = "LOGIN" /\ IsValid(text) /\ o = Done(OK, lines[2], w)
  <2>1. lines[2] \in Line BY <1>6, ValidLogin DEF lines
  <2> QED BY <1>3, <1>4, <1>6, <2>1
<1>7. CASE /\ Keyword(text) = "SEND" /\ IsValid(text) /\ user # Nobody
           /\ o = ProcessSend(lines, user, w)
  <2>1. ValidSend(lines) BY <1>7, SendIsValid DEF lines
  <2> DEFINE mail == [sender |-> user, receivers |-> Words(lines[2]),
                      subject |-> lines[3],
                      content |-> Unlines(SubSeq(lines, 4, Len(lines) - 1))]
  <2>2. mail \in Mails BY <1>2, <1>7, <2>1, SendMail
  <2>3. o = Done(OK, user, Added(w, mail)) BY <1>7 DEF ProcessSend
  <2> HIDE DEF mail
  <2>4. WorldOK(Added(w, mail)) /\ Len(Added(w, mail).mails) = Len(w.mails) + 1
    BY <2>2, AddedType
  <2> QED BY <1>3, <1>4, <2>3, <2>4
<1>8. CASE o = ProcessRead(lines, user, w)
  <2> DEFINE i == Number(lines[2])
  <2>1. o = Done(IF i \in DOMAIN w.mails THEN MailReply(w.mails[i]) ELSE ERR, user, w)
    BY <1>8 DEF ProcessRead, MailReply
  <2> HIDE DEF i
  <2>2. CASE i \in DOMAIN w.mails
    <3>1. o = Done(MailReply(w.mails[i]), user, w) BY <2>1, <2>2
    <3> QED BY <1>4, <2>2, <3>1, MailReplyType
  <2>3. CASE i \notin DOMAIN w.mails
    <3>1. o = Done(ERR, user, w) BY <2>1, <2>3
    <3> QED BY <1>5, <3>1
  <2> QED BY <2>2, <2>3
<1>9. CASE o = ProcessDel(lines, user, w)
  <2> DEFINE i == Number(lines[2])
             v == [w EXCEPT !.inbox = @ \ {<<user, i>>}]
  <2>1. o = Done(OK, user, v) \/ o = Done(ERR, user, w) BY <1>9 DEF ProcessDel
  <2>2. WorldOK(v) /\ v.mails = w.mails
    <3> DEFINE m == w.mails
               b == w.inbox
               c == b \ {<<user, i>>}
    <3>1. w = [mails |-> m, inbox |-> b] /\ m \in Seq(Mails) /\ b \subseteq Line \X Nat
      BY WorldParts
    <3>2. \A entry \in b : entry[2] \in DOMAIN m BY DEF WorldOK
    <3>3. v = [mails |-> m, inbox |-> c] BY <3>1, Removed
    <3> HIDE DEF m, b
    <3> HIDE DEF v
    <3>4. v.mails = m /\ v.inbox = c BY <3>3
    <3>5. v \in [mails : Seq(Mails), inbox : SUBSET (Line \X Nat)] BY <3>1, <3>3
    <3> QED BY <3>2, <3>4, <3>5 DEF WorldOK, Worlds, m
  <2> HIDE DEF v
  <2> QED BY <1>3, <1>4, <1>5, <2>1, <2>2
<1>10. CASE o = Done(ListReply(Entries(w, Inbox(w, user))), user, w)
  <2>1. Inbox(w, user) \in SUBSET DOMAIN w.mails BY DEF Inbox
  <2> QED BY <1>4, <1>10, <2>1, ListType
<1>11. CASE o = Done(ListReply(Entries(w, Sent(w, user))), user, w)
  <2>1. Sent(w, user) \in SUBSET DOMAIN w.mails BY DEF Sent
  <2> QED BY <1>4, <1>11, <2>1, ListType
<1> QED BY <1>1, <1>5, <1>6, <1>7, <1>8, <1>9, <1>10, <1>11 DEF Processed

(* The empty text, of a read that failed, is refused.                      *)
LEMMA ProcessNothing ==
  ASSUME NEW user, NEW w PROVE Process(<<>>, user, w) = {Done(ERR, user, w)}
<1> DEFINE k == Keyword(<<>>)
<1>1. k = "unknown"
  <2> DEFINE end == SelectInSeq(<<>>, LAMBDA c : c = NL)
  <2>1. end = 0 BY DEF SelectInSeq
  <2>2. k = IF \E x \in Keywords : SubSeq(<<>>, 1, end) = <<x, NL>>
            THEN Head(<<>>) ELSE "unknown"
    BY DEF Keyword
  <2> HIDE DEF end, k
  <2>3. SubSeq(<<>>, 1, 0) = <<>> OBVIOUS
  <2>4. \A x : <<>> # <<x, NL>> OBVIOUS
  <2> QED BY <2>1, <2>2, <2>3, <2>4
<1>2. k \notin Keywords BY <1>1 DEF Keywords
<1>3. IsValid(<<>>) = FALSE BY <1>2, Zenon DEF IsValid, Keywords
<1> QED BY <1>3 DEF Process

-----------------------------------------------------------------------------
(* What a request of the client comes to.                                  *)

WithinLimits(r) ==
  /\ Words(r.receivers) # <<>> /\ r.body # <<>>
  /\ \A name \in ToSet(Words(r.receivers)) : Len(name) <= MaxName
  /\ Len(r.subject) <= MaxSubject

LEMMA LoginText ==
  ASSUME NEW r, Typeable(r), r.kind = "LOGIN"
  PROVE  /\ IsValid(Compose(r)) <=> Len(r.user) <= MaxName
         /\ Lines(Compose(r))[2] = r.user /\ Lines(Compose(r))[3] = Password(r.keys)
<1> DEFINE a == r.user
           b == Password(r.keys)
           k == <<r.kind>>
           lines == Lines(Compose(r))
<1>1. Keyword(Compose(r)) = "LOGIN" /\ lines = RequestLines(r) BY ComposedText
<1> HIDE DEF a, b, k, lines
<1>2. lines = <<k, a, b>> BY <1>1 DEF RequestLines, a, b, k
<1>3. Len(lines) = 3 /\ lines[2] = a /\ lines[3] = b BY <1>2
<1>4. IsValid(Compose(r)) <=> Len(lines) = 3 /\ Len(lines[2]) <= MaxName
  BY <1>1, Zenon DEF IsValid, lines
<1> QED BY <1>3, <1>4, Zenon DEF lines, a, b

LEMMA SendText ==
  ASSUME NEW r, Typeable(r), r.kind = "SEND"
  PROVE  LET lines == Lines(Compose(r))
         IN /\ IsValid(Compose(r)) <=> WithinLimits(r)
            /\ lines[2] = r.receivers /\ lines[3] = r.subject
            /\ SubSeq(lines, 4, Len(lines) - 1) = r.body
<1> DEFINE a == r.receivers
           b == r.subject
           k == <<r.kind>>
           head == <<k, a, b>>
           body == r.body
           dot  == <<DOT>>
           most == head \o body
           all  == most \o dot
           lines == Lines(Compose(r))
           n == Len(body)
<1>1. Keyword(Compose(r)) = "SEND" /\ lines = RequestLines(r) BY ComposedText
<1>2. lines = all BY <1>1 DEF RequestLines
<1>3. a \in Line /\ b \in Line /\ k \in Line /\ body \in Seq(Line) /\ DOT \in Line
  BY TokensOfLines DEF Typeable, DOT
<1> HIDE DEF a, b, k, lines, body
<1>4. /\ head \in Seq(Line) /\ Len(head) = 3 /\ head[2] = a /\ head[3] = b
      /\ dot \in Seq(Line) /\ Len(dot) = 1 /\ dot[1] = DOT
  BY <1>3
<1> HIDE DEF head, dot
<1>5. most \in Seq(Line) /\ Joins(head, body, most) BY <1>3, <1>4, Joined
<1> HIDE DEF most
<1>6. all \in Seq(Line) /\ Joins(most, dot, all) BY <1>4, <1>5, Joined
<1> HIDE DEF all
<1>7. n \in Nat /\ Len(most) = n + 3 /\ Len(all) = n + 4
  BY <1>4, <1>5, <1>6 DEF Joins
<1> HIDE DEF n
<1>8. all[2] = a /\ all[3] = b
  <2>1. 2 \in 1 .. 3 /\ 3 \in 1 .. 3 /\ 2 \in 1 .. n + 3 /\ 3 \in 1 .. n + 3
    BY <1>7
  <2> QED BY <1>4, <1>5, <1>6, <1>7, <2>1 DEF Joins
<1>9. Last(all) = DOT
  <2>1. 1 \in 1 .. 1 /\ (n + 3) + 1 = n + 4 BY <1>7
  <2> QED BY <1>4, <1>6, <1>7, <2>1 DEF Joins, Last
<1>10. SubSeq(all, 4, Len(all) - 1) = body
  <2> DEFINE s == SubSeq(all, 4, Len(all) - 1)
  <2>1. s \in Seq(Line) /\ Len(s) = n /\ \A i \in 1 .. n : s[i] = all[i + 3]
    <3>1. s = SubSeq(all, 4, n + 3) BY <1>7
    <3> DEFINE t == SubSeq(all, 4, n + 3)
    <3>2. t \in Seq(Line) /\ Len(t) = n /\ \A i \in 1 .. n : t[i] = all[i + 3]
      BY <1>6, <1>7
    <3> QED BY <3>1, <3>2
  <2> HIDE DEF s
  <2>2. \A i \in 1 .. n : s[i] = body[i]
    <3> SUFFICES ASSUME NEW i \in 1 .. n PROVE s[i] = body[i] OBVIOUS
    <3>1. 3 + i = i + 3 /\ i + 3 \in 1 .. n + 3 BY <1>7
    <3>2. most[i + 3] = body[i] BY <1>4, <1>5, <3>1 DEF Joins, n
    <3>3. all[i + 3] = most[i + 3] BY <1>6, <1>7, <3>1 DEF Joins
    <3> QED BY <2>1, <3>2, <3>3
  <2>3. s = body BY <1>3, <2>1, <2>2, SeqEqual DEF n
  <2> QED BY <2>3 DEF s
<1>11. Len(all) >= 5 <=> body # <<>>
  <2>1. n = 0 <=> body = <<>> BY <1>3 DEF n
  <2> QED BY <1>7, <2>1
<1>12. IsValid(Compose(r)) <=> ValidSend(lines) BY <1>1, SendIsValid DEF lines
<1> DEFINE W == Words(a)
           short == \A name \in ToSet(W) : Len(name) <= MaxName
           small == Len(b) <= MaxSubject
<1>13. ValidSend(all) <=> Len(all) >= 5 /\ W # <<>> /\ short /\ small
  BY <1>8, <1>9 DEF ValidSend
<1>14. WithinLimits(r) <=> W # <<>> /\ body # <<>> /\ short /\ small
  BY DEF WithinLimits, a, b, body
<1> HIDE DEF W, short, small
<1>15. IsValid(Compose(r)) <=> WithinLimits(r)
  BY <1>2, <1>11, <1>12, <1>13, <1>14
<1> QED BY <1>2, <1>8, <1>10, <1>15 DEF lines, a, b, body

LEMMA ListText ==
  ASSUME NEW r, Typeable(r), r.kind \in {"LIST", "LIST_SENT"}
  PROVE  IsValid(Compose(r))
<1> DEFINE text == Compose(r)
           k == <<r.kind>>
<1>1. Keyword(text) = r.kind BY ComposedText
<1>2. text = Unlines(<<k>>)
  <2>1. RequestLines(r) = <<k>> BY DEF RequestLines
  <2> QED BY <2>1, RequestLinesType
<1>3. k \in Seq(Chars)
  <2>1. r.kind \in Chars BY TokensOfLines DEF Typeable
  <2> QED BY <2>1
<1>4. Unlines(<<k>>) = k \o <<NL>>
  <2> HIDE DEF k
  <2> QED BY <1>3, NLInChars, UnlinesOne
<1>5. k \o <<NL>> = <<r.kind, NL>> BY TwoTokens
<1> HIDE DEF text, k
<1>6. text = <<Keyword(text), NL>> BY <1>1, <1>2, <1>4, <1>5
<1>7. IsValid(text) <=> text = <<Keyword(text), NL>>
  <2>1. Keyword(text) \in {"LIST", "LIST_SENT"} BY <1>1
  <2>2. Keyword(text) \notin {"LOGIN", "SEND"} BY <2>1
  <2> QED BY <2>1, <2>2, Zenon DEF IsValid
<1> QED BY <1>6, <1>7 DEF text

LEMMA IdText ==
  ASSUME NEW r, Typeable(r), r.kind \in {"READ", "DEL"}
  PROVE  /\ IsValid(Compose(r)) <=> IsUuid(r.id)
         /\ Lines(Compose(r))[2] = r.id
<1> DEFINE text == Compose(r)
           lines == Lines(text)
           k == <<r.kind>>
           id == r.id
<1>1. Keyword(text) = r.kind /\ lines = RequestLines(r) BY ComposedText
<1>2. lines = <<k, id>> BY <1>1 DEF RequestLines
<1> HIDE DEF text, lines, k, id
<1>3. Len(lines) = 2 /\ lines[2] = id BY <1>2
<1>4. IsValid(text) <=> Len(lines) >= 2 /\ IsUuid(lines[2])
  <2>1. Keyword(text) \in {"READ", "DEL"} BY <1>1
  <2>2. Keyword(text) \notin {"LOGIN", "SEND", "LIST", "LIST_SENT"} BY <2>1
  <2> QED BY <2>1, <2>2, Zenon DEF IsValid, lines
<1>5. Len(lines) >= 2 BY <1>3
<1> QED BY <1>3, <1>4, <1>5 DEF text, lines, id

(* Why a request is refused; a login may always be.                        *)
MayBeRefused(r, user, w) ==
  \/ r.kind = "LOGIN" \/ user = Nobody
  \/ r.kind = "SEND" /\ ~WithinLimits(r)
  \/ r.kind = "READ" /\ ~(IsUuid(r.id) /\ Number(r.id) \in DOMAIN w.mails)
  \/ r.kind = "DEL"  /\ ~(IsUuid(r.id) /\ Number(r.id) \in Inbox(w, user))

ListLines(E) == << <<Numeral(Len(E))>> >> \o E

(* What its user is shown of a request, who is logged in after it and what *)
(* mails there are.                                                        *)
Served(r, user, w, shows, u, v) ==
  \/ MayBeRefused(r, user, w) /\ shows = Failure /\ u = user /\ v = w
  \/ /\ r.kind = "LOGIN" /\ <<r.user, Password(r.keys)>> \in Accounts
     /\ Len(r.user) <= MaxName
     /\ shows = Success(<<>>) /\ u = r.user /\ v = w
  \/ /\ user # Nobody /\ u = user
     /\ \/ /\ r.kind = "SEND" /\ WithinLimits(r) /\ shows = Success(<<>>)
           /\ v = Added(w, [sender |-> user, receivers |-> Words(r.receivers),
                            subject |-> r.subject, content |-> Unlines(r.body)])
        \/ /\ r.kind = "LIST" /\ v = w
           /\ shows = Success(ListLines(Entries(w, Inbox(w, user))))
        \/ /\ r.kind = "LIST_SENT" /\ v = w
           /\ shows = Success(ListLines(Entries(w, Sent(w, user))))
        \/ /\ r.kind = "READ" /\ v = w
           /\ IsUuid(r.id) /\ Number(r.id) \in DOMAIN w.mails
           /\ shows = Success(PageLines(w.mails[Number(r.id)]))
        \/ /\ r.kind = "DEL" /\ shows = Success(<<>>)
           /\ IsUuid(r.id) /\ Number(r.id) \in Inbox(w, user)
           /\ v = [w EXCEPT !.inbox = @ \ {<<user, Number(r.id)>>}]

LEMMA ShowsList ==
  ASSUME NEW w, WorldOK(w), Len(w.mails) <= Len(Ids),
         NEW folder \in SUBSET DOMAIN w.mails,
         NEW r, r.kind \in {"LIST", "LIST_SENT"}
  PROVE  Shows(r, ListReply(Entries(w, folder))) = Success(ListLines(Entries(w, folder)))
<1> DEFINE E == Entries(w, folder)
           num == << <<Numeral(Len(E))>> >>
           ls == num \o E
           reply == ListReply(E)
<1>1. E \in Seq(Line) /\ Numeral(Len(E)) \in Chars \ {NL} BY ListType
<1>2. num \in Seq(Line) /\ Len(num) = 1
  <2> DEFINE n == Numeral(Len(E))
  <2> HIDE DEF n
  <2>1. <<n>> \in Line BY <1>1, TokensOfLines DEF n
  <2> DEFINE l == <<n>>
  <2> HIDE DEF l
  <2>2. <<l>> \in Seq(Line) /\ Len(<<l>>) = 1 BY <2>1 DEF l
  <2> QED BY <2>2 DEF l, n
<1> HIDE DEF E
<1>3. IsPrefix(OK, reply) /\ Tail(Lines(reply)) = ls BY <1>1, ListReplyLines
<1> HIDE DEF num, reply
<1>4. ls \in Seq(Line) /\ Joins(num, E, ls) BY <1>1, <1>2, Joined
<1> HIDE DEF ls
<1>5. Len(ls) \in Nat /\ Len(ls) >= 1 BY <1>2, <1>4 DEF Joins
<1>6. Shows(r, reply) = Success(ls) BY <1>3, <1>5, ShowsLines
<1> QED BY <1>6 DEF ListLines, ls, num, reply, E

LEMMA ShowsPage ==
  ASSUME NEW w, WorldOK(w), NEW i \in DOMAIN w.mails, NEW r, r.kind = "READ"
  PROVE  Shows(r, MailReply(w.mails[i])) = Success(PageLines(w.mails[i]))
<1> DEFINE mail == w.mails[i]
           p == PageLines(mail)
<1>1. mail \in Mails BY WorldParts
<1> HIDE DEF mail
<1>2. /\ IsPrefix(OK, MailReply(mail))
      /\ p \in Seq(Line) /\ Len(p) >= 3
      /\ Tail(Lines(MailReply(mail))) = p
  BY <1>1, MailReplyLines
<1> HIDE DEF p
<1>3. Len(p) \in Nat BY <1>2
<1>4. Shows(r, MailReply(mail)) = Success(p) BY <1>2, <1>3, ShowsLines
<1> QED BY <1>4 DEF mail, p

(* What process() does with the text of a request is what its fields call  *)
(* for, and the client shows just that of the reply: the composing in      *)
(* client.cpp, split(), the validators, the requests and the taking apart  *)
(* of their replies fit together.                                          *)
THEOREM ServedAs ==
  ASSUME NEW r, Typeable(r), NEW user \in Line \cup {Nobody},
         NEW w, WorldOK(w), Len(w.mails) <= Len(Ids),
         NEW o \in Process(Compose(r), user, w)
  PROVE  Served(r, user, w, Shows(r, o.reply), o.user, o.world)
<1> DEFINE text == Compose(r)
           lines == Lines(text)
           k == r.kind
           Goal == Served(r, user, w, Shows(r, o.reply), o.user, o.world)
<1>1. Keyword(text) = k BY ComposedText
<1>2. Processed(text, lines, user, w, o) BY ProcessCases
<1>3. k \in Keywords BY DEF Typeable
<1>4. ASSUME NEW x, NEW u, NEW v, o = Done(x, u, v)
      PROVE  o.reply = x /\ o.user = u /\ o.world = v
  BY <1>4 DEF Done
<1> HIDE DEF text, lines, k
<1>5. ASSUME o = Done(ERR, user, w), MayBeRefused(r, user, w) PROVE Goal
  BY <1>4, <1>5, ShowsFailure DEF Served
<1>6. CASE o = Done(ERR, user, w) /\ (k = "LOGIN" \/ user = Nobody)
  BY <1>5, <1>6 DEF MayBeRefused, k
<1>7. CASE o = Done(ERR, user, w) /\ ~IsValid(text)
  <2>1. CASE k = "LOGIN" BY <1>6, <1>7, <2>1
  <2>2. CASE k = "SEND"
    <3>1. ~WithinLimits(r) BY <1>7, <2>2, SendText DEF text, k
    <3> QED BY <1>5, <1>7, <2>2, <3>1 DEF MayBeRefused, k
  <2>3. k \notin {"LIST", "LIST_SENT"} BY <1>7, ListText DEF text, k
  <2>4. CASE k \in {"READ", "DEL"}
    <3>1. ~IsUuid(r.id) BY <1>7, <2>4, IdText DEF text, k
    <3> QED BY <1>5, <1>7, <2>4, <3>1 DEF MayBeRefused, k
  <2> QED BY <1>3, <2>1, <2>2, <2>3, <2>4 DEF Keywords
<1>8. CASE /\ k = "LOGIN" /\ <<lines[2], lines[3]>> \in Accounts
           /\ IsValid(text) /\ o = Done(OK, lines[2], w)
  <2>1. /\ Len(r.user) <= MaxName
        /\ lines[2] = r.user /\ lines[3] = Password(r.keys)
    BY <1>8, LoginText DEF text, lines, k
  <2>2. Shows(r, OK) = Success(<<>>) BY <1>8, ShowsSuccess DEF k
  <2>3. o.reply = OK /\ o.user = r.user /\ o.world = w BY <1>4, <1>8, <2>1
  <2> QED BY <1>8, <2>1, <2>2, <2>3 DEF Served, k
<1>9. CASE /\ k = "SEND" /\ IsValid(text) /\ user # Nobody
           /\ o = ProcessSend(lines, user, w)
  <2>1. /\ WithinLimits(r)
        /\ lines[2] = r.receivers /\ lines[3] = r.subject
        /\ SubSeq(lines, 4, Len(lines) - 1) = r.body
    BY <1>9, SendText DEF text, lines, k
  <2> DEFINE v == Added(w, [sender |-> user, receivers |-> Words(r.receivers),
                            subject |-> r.subject, content |-> Unlines(r.body)])
  <2>2. o = Done(OK, user, v) BY <1>9, <2>1 DEF ProcessSend
  <2>3. Shows(r, OK) = Success(<<>>) BY <1>9, ShowsSuccess DEF k
  <2>4. o.reply = OK /\ o.user = user /\ o.world = v BY <1>4, <2>2
  <2> QED BY <1>9, <2>1, <2>3, <2>4 DEF Served, k
<1>10. CASE /\ k = "READ" /\ IsValid(text) /\ user # Nobody
            /\ o = ProcessRead(lines, user, w)
  <2> DEFINE i == Number(r.id)
  <2>1. IsUuid(r.id) /\ lines[2] = r.id BY <1>10, IdText DEF text, lines, k
  <2>2. o = Done(IF i \in DOMAIN w.mails THEN MailReply(w.mails[i]) ELSE ERR, user, w)
    BY <1>10, <2>1 DEF ProcessRead, MailReply
  <2>3. CASE i \in DOMAIN w.mails
    <3>1. o = Done(MailReply(w.mails[i]), user, w) BY <2>2, <2>3
    <3>2. o.reply = MailReply(w.mails[i]) /\ o.user = user /\ o.world = w
      BY <1>4, <3>1
    <3>3. Shows(r, o.reply) = Success(PageLines(w.mails[i]))
      BY <1>10, <2>3, <3>2, ShowsPage DEF k
    <3> QED BY <1>10, <2>1, <2>3, <3>2, <3>3 DEF Served, k
  <2>4. CASE i \notin DOMAIN w.mails
    <3>1. o = Done(ERR, user, w) BY <2>2, <2>4
    <3> QED BY <1>5, <1>10, <2>4, <3>1 DEF MayBeRefused, k
  <2> QED BY <2>3, <2>4
<1>11. CASE /\ k = "DEL" /\ IsValid(text) /\ user # Nobody
            /\ o = ProcessDel(lines, user, w)
  <2> DEFINE i == Number(r.id)
             v == [w EXCEPT !.inbox = @ \ {<<user, i>>}]
  <2>1. IsUuid(r.id) /\ lines[2] = r.id BY <1>11, IdText DEF text, lines, k
  <2>2. o = IF i \in Inbox(w, user) THEN Done(OK, user, v) ELSE Done(ERR, user, w)
    BY <1>11, <2>1 DEF ProcessDel
  <2>3. CASE i \in Inbox(w, user)
    <3>1. o = Done(OK, user, v) BY <2>2, <2>3
    <3>2. o.reply = OK /\ o.user = user /\ o.world = v BY <1>4, <3>1
    <3>3. Shows(r, OK) = Success(<<>>) BY <1>11, ShowsSuccess DEF k
    <3> QED BY <1>11, <2>1, <2>3, <3>2, <3>3 DEF Served, k
  <2>4. CASE i \notin Inbox(w, user)
    <3>1. o = Done(ERR, user, w) BY <2>2, <2>4
    <3> QED BY <1>5, <1>11, <2>4, <3>1 DEF MayBeRefused, k
  <2> QED BY <2>3, <2>4
<1>12. CASE /\ k = "LIST" /\ user # Nobody
            /\ o = Done(ListReply(Entries(w, Inbox(w, user))), user, w)
  <2>1. Inbox(w, user) \in SUBSET DOMAIN w.mails BY DEF Inbox
  <2>2. o.reply = ListReply(Entries(w, Inbox(w, user))) /\ o.user = user /\ o.world = w
    BY <1>4, <1>12
  <2>3. Shows(r, o.reply) = Success(ListLines(Entries(w, Inbox(w, user))))
    BY <1>12, <2>1, <2>2, ShowsList DEF k
  <2> QED BY <1>12, <2>2, <2>3 DEF Served, k
<1>13. CASE /\ k = "LIST_SENT" /\ user # Nobody
            /\ o = Done(ListReply(Entries(w, Sent(w, user))), user, w)
  <2>1. Sent(w, user) \in SUBSET DOMAIN w.mails BY DEF Sent
  <2>2. o.reply = ListReply(Entries(w, Sent(w, user))) /\ o.user = user /\ o.world = w
    BY <1>4, <1>13
  <2>3. Shows(r, o.reply) = Success(ListLines(Entries(w, Sent(w, user))))
    BY <1>13, <2>1, <2>2, ShowsList DEF k
  <2> QED BY <1>13, <2>2, <2>3 DEF Served, k
<1> QED
  BY <1>1, <1>2, <1>6, <1>7, <1>8, <1>9, <1>10, <1>11, <1>12, <1>13 DEF Processed

=============================================================================
