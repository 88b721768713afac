--------------------------- MODULE ProtocolProofs ---------------------------
(***************************************************************************)
(* Proofs about Protocol and WebsocketFraming, for every set of routes,    *)
(* requests and frames and every way of cutting the stream into segments:  *)
(* what the two parsers make of a buffer that begins like the message that *)
(* comes next, that the layers keep in step with the client (InStep), that *)
(* a connection has one processor at a time, that it carries frames only   *)
(* after a handshake; and, byte by byte, that frames are cut at their      *)
(* borders (FramesInStep) and answers can be read (AnswersReadable).       *)
(***************************************************************************)
EXTENDS Protocol, WebsocketFraming, FiniteSetTheorems, SequenceTheorems, WellFoundedInduction, TLAPS

-----------------------------------------------------------------------------
(* What is left of a sequence, and least numbers.                          *)

\* What From leaves of a sequence, also behind its end.
LEMMA FromProperties ==
  ASSUME NEW S, NEW b \in Seq(S), NEW i \in Nat \ {0}, i <= Len(b) + 1
  PROVE  /\ From(b, i) \in Seq(S)
         /\ Len(From(b, i)) = Len(b) + 1 - i
         /\ \A j \in 1..(Len(b) + 1 - i) : From(b, i)[j] = b[i + j - 1]
  <1>1. Len(b) \in Nat /\ \A j \in i..Len(b) : b[j] \in S
    OBVIOUS
  <1>2. /\ SubSeq(b, i, Len(b)) \in Seq(S)
        /\ Len(SubSeq(b, i, Len(b))) = IF i <= Len(b) THEN Len(b) - i + 1 ELSE 0
        /\ \A j \in 1..(Len(b) - i + 1) : SubSeq(b, i, Len(b))[j] = b[i + j - 1]
    BY <1>1, SubSeqProperties
  <1> HIDE DEF From
  <1>3. From(b, i) = SubSeq(b, i, Len(b))
    BY DEF From
  <1>4. (IF i <= Len(b) THEN Len(b) - i + 1 ELSE 0) = Len(b) + 1 - i
    BY <1>1
  <1>5. Len(b) + 1 - i = Len(b) - i + 1
    BY <1>1
  <1> QED BY <1>2, <1>3, <1>4, <1>5

\* What is left after two cuts.
LEMMA FromFrom ==
  ASSUME NEW S, NEW b \in Seq(S), NEW i \in Nat \ {0}, NEW j \in Nat \ {0}, i + j <= Len(b) + 2
  PROVE  From(From(b, i), j) = From(b, i + j - 1)
  <1> DEFINE c == From(b, i)
             d == From(c, j)
             e == From(b, i + j - 1)
  <1>0. Len(b) \in Nat
    OBVIOUS
  <1>1. /\ c \in Seq(S) /\ Len(c) = Len(b) + 1 - i
        /\ \A k \in 1..(Len(b) + 1 - i) : c[k] = b[i + k - 1]
    <2>1. i <= Len(b) + 1
      BY <1>0
    <2> QED BY <2>1, FromProperties
  <1> HIDE DEF c
  <1>2. /\ d \in Seq(S) /\ Len(d) = Len(c) + 1 - j
        /\ \A k \in 1..(Len(c) + 1 - j) : d[k] = c[j + k - 1]
    <2>1. j <= Len(c) + 1
      BY <1>0, <1>1
    <2> QED BY <1>1, <2>1, FromProperties
  <1>3. /\ e \in Seq(S) /\ Len(e) = Len(b) + 1 - (i + j - 1)
        /\ \A k \in 1..(Len(b) + 1 - (i + j - 1)) : e[k] = b[(i + j - 1) + k - 1]
    <2>1. i + j - 1 \in Nat \ {0} /\ i + j - 1 <= Len(b) + 1
      BY <1>0
    <2> QED BY <2>1, FromProperties
  <1> HIDE DEF d, e
  <1>4. Len(d) = Len(e)
    BY <1>0, <1>1, <1>2, <1>3
  <1>5. ASSUME NEW k \in 1..Len(d) PROVE d[k] = e[k]
    <2>1. /\ k \in 1..(Len(c) + 1 - j) /\ k \in 1..(Len(b) + 1 - (i + j - 1))
          /\ j + k - 1 \in 1..(Len(b) + 1 - i) /\ i + (j + k - 1) - 1 = (i + j - 1) + k - 1
      BY <1>0, <1>1, <1>2, <1>3
    <2> QED BY <1>1, <1>2, <1>3, <2>1
  <1>6. d = e
    BY <1>2, <1>3, <1>4, <1>5, SeqEqual
  <1> QED BY <1>6 DEF c, d, e

\* The first of a sequence, as a sequence.
LEMMA FirstOf ==
  ASSUME NEW S, NEW b \in Seq(S), Len(b) >= 1
  PROVE  SubSeq(b, 1, 2 - 1) = <<b[1]>>
  <1>1. 1 \in 1..Len(b) /\ b[1] \in S /\ Len(b) \in Nat
    OBVIOUS
  <1>2. /\ SubSeq(b, 1, 1) \in Seq(S) /\ Len(SubSeq(b, 1, 1)) = 1
        /\ SubSeq(b, 1, 1)[1] = b[1]
    <2>1. \A i \in 1..1 : b[i] \in S
      BY <1>1
    <2>2. /\ SubSeq(b, 1, 1) \in Seq(S)
          /\ Len(SubSeq(b, 1, 1)) = IF 1 <= 1 THEN 1 - 1 + 1 ELSE 0
          /\ \A i \in 1..(1 - 1 + 1) : SubSeq(b, 1, 1)[i] = b[1 + i - 1]
      BY <2>1, SubSeqProperties
    <2>3. SubSeq(b, 1, 1)[1] = b[1 + 1 - 1]
      BY <2>2
    <2> QED BY <2>2, <2>3
  <1>3. <<b[1]>> \in Seq(S) /\ Len(<<b[1]>>) = 1 /\ <<b[1]>>[1] = b[1]
    BY <1>1
  <1>4. SubSeq(b, 1, 1) = <<b[1]>>
    <2> DEFINE s == SubSeq(b, 1, 1)
               t == <<b[1]>>
    <2>1. s \in Seq(S) /\ t \in Seq(S) /\ Len(s) = Len(t) /\ Len(s) = 1 /\ s[1] = t[1]
      BY <1>2, <1>3
    <2> HIDE DEF s, t
    <2>2. \A i \in 1..Len(s) : s[i] = t[i]
      BY <2>1
    <2>3. s = t
      BY <2>1, <2>2, SeqEqual
    <2> QED BY <2>3 DEF s, t
  <1> QED BY <1>4

\* A set of numbers has a least member.
LEMMA LeastNumber ==
  ASSUME NEW T, T \subseteq Nat, T # {}
  PROVE  \E m \in T : \A n \in T : m <= n
  <1> DEFINE R == OpToRel(<, Nat)
  <1>1. IsWellFoundedOn(R, Nat)
    BY NatLessThanWellFounded
  <1>2. \E m \in T : \A n \in T : ~ (<<n, m>> \in R)
    <2> HIDE DEF R
    <2> QED BY <1>1, WFMin
  <1>3. PICK m \in T : \A n \in T : ~ (<<n, m>> \in R)
    BY <1>2
  <1>4. ASSUME NEW n \in T PROVE m <= n
    <2>1. m \in Nat /\ n \in Nat
      OBVIOUS
    <2>2. ~ (n < m)
      BY <1>3, <2>1, Zenon DEF OpToRel
    <2> QED BY <2>1, <2>2
  <1> QED BY <1>4

\* The least of some numbers, if one of them is known to be.
LEMMA MinIs ==
  ASSUME NEW T, T \subseteq Int, NEW m \in T, \A n \in T : m <= n
  PROVE  Min(T) = m
  <1>1. Min(T) \in T /\ \A n \in T : Min(T) <= n
    BY DEF Min
  <1>2. Min(T) \in Int /\ m \in Int /\ Min(T) <= m /\ m <= Min(T)
    BY <1>1
  <1> QED BY <1>2

-----------------------------------------------------------------------------
(* The parts of the HTTP parser.                                           *)

\* White space is not skipped where there is none,
LEMMA NothingToSkip ==
  ASSUME NEW b \in Seq(Units), b # <<>> => b[1].u # "space"
  PROVE  SkipWhiteSpaces(b) = b
  <1> DEFINE text == {i \in DOMAIN b : b[i].u # "space"}
  <1>1. CASE b = <<>>
    BY <1>1 DEF SkipWhiteSpaces
  <1>2. CASE b # <<>>
    <2>1. Len(b) \in Nat \ {0} /\ DOMAIN b = 1..Len(b)
      BY <1>2
    <2>2. 1 \in text /\ text \subseteq Int /\ \A n \in text : 1 <= n
      BY <1>2, <2>1
    <2>3. Min(text) = 1
      BY <2>2, MinIs
    <2>4. From(b, 1) = b
      BY SubSeqFull DEF From
    <2> QED BY <2>2, <2>3, <2>4 DEF SkipWhiteSpaces
  <1> QED BY <1>1, <1>2

\* and one space is.
LEMMA OneToSkip ==
  ASSUME NEW b \in Seq(Units), b # <<>>, b[1].u = "space", Len(b) >= 2 => b[2].u # "space"
  PROVE  SkipWhiteSpaces(b) = From(b, 2)
  <1> DEFINE text == {i \in DOMAIN b : b[i].u # "space"}
  <1>1. Len(b) \in Nat \ {0} /\ DOMAIN b = 1..Len(b)
    OBVIOUS
  <1>2. CASE Len(b) = 1
    <2>1. text = {}
      BY <1>1, <1>2
    <2>2. From(b, 2) = <<>>
      BY <1>2, SubSeqEmpty DEF From
    <2> QED BY <2>1, <2>2 DEF SkipWhiteSpaces
  <1>3. CASE Len(b) # 1
    <2>1. 2 \in text /\ text \subseteq Int /\ \A n \in text : 2 <= n
      BY <1>1, <1>3
    <2>2. Min(text) = 2
      BY <2>1, MinIs
    <2> QED BY <2>1, <2>2 DEF SkipWhiteSpaces
  <1> QED BY <1>2, <1>3

\* A token is one word, once the unit after it has come; the space after it
\* is gone with it, an end of line stays.
LEMMA TokenIsAWord ==
  ASSUME NEW b \in Seq(Units),
         Len(b) >= 1 => b[1].u = "word",
         Len(b) >= 2 => b[2].u \in {"space", "eol"},
         Len(b) >= 3 => b[3].u # "space"
  PROVE  /\ Len(b) < 2 => ParseToken(b) = Failed
         /\ Len(b) >= 2 => ParseToken(b) = [value |-> <<b[1]>>,
                             rest |-> IF b[2].u = "space" THEN From(b, 3) ELSE From(b, 2)]
  <1> DEFINE ends == {i \in DOMAIN b : b[i].u \in {"space", "eol"}}
             c == From(b, 2)
  <1>1. Len(b) \in Nat /\ DOMAIN b = 1..Len(b) /\ (b # <<>> => Len(b) >= 1)
    OBVIOUS
  <1>2. SkipWhiteSpaces(b) = b
    BY <1>1, NothingToSkip
  <1>3. ASSUME Len(b) < 2 PROVE ParseToken(b) = Failed
    <2>1. ends = {}
      BY <1>1, <1>3
    <2> QED BY <1>2, <2>1 DEF ParseToken
  <1>4. ASSUME Len(b) >= 2
        PROVE  ParseToken(b) = [value |-> <<b[1]>>,
                 rest |-> IF b[2].u = "space" THEN From(b, 3) ELSE From(b, 2)]
    <2>1. 2 \in ends /\ ends \subseteq Int /\ \A n \in ends : 2 <= n
      BY <1>1, <1>4
    <2>2. Min(ends) = 2
      BY <2>1, MinIs
    <2>3. SubSeq(b, 1, 2 - 1) = <<b[1]>>
      BY <1>1, <1>4, FirstOf
    <2>4. /\ c \in Seq(Units) /\ Len(c) = Len(b) - 1 /\ c # <<>> /\ c[1] = b[2]
          /\ Len(c) >= 2 => c[2] = b[3]
      <3>1. /\ c \in Seq(Units) /\ Len(c) = Len(b) + 1 - 2
            /\ \A j \in 1..(Len(b) + 1 - 2) : c[j] = b[2 + j - 1]
        <4>1. 2 \in Nat \ {0} /\ 2 <= Len(b) + 1
          BY <1>1, <1>4
        <4> QED BY <4>1, FromProperties
      <3> HIDE DEF c
      <3>2. 1 \in 1..(Len(b) + 1 - 2) /\ (Len(c) >= 2 => 2 \in 1..(Len(b) + 1 - 2))
        BY <1>1, <1>4, <3>1
      <3>3. c[1] = b[2 + 1 - 1] /\ (Len(c) >= 2 => c[2] = b[2 + 2 - 1])
        BY <3>1, <3>2
      <3> QED BY <1>1, <1>4, <3>1, <3>3
    <2>5. From(c, 2) = From(b, 3)
      BY <1>1, <1>4, FromFrom
    <2>6. SkipWhiteSpaces(c) = IF b[2].u = "space" THEN From(b, 3) ELSE c
      <3> HIDE DEF c
      <3>1. CASE b[2].u = "space"
        <4>1. Len(c) >= 2 => c[2].u # "space"
          BY <1>1, <2>4
        <4> QED BY <2>4, <2>5, <3>1, <4>1, OneToSkip
      <3>2. CASE b[2].u # "space"
        BY <2>4, <3>2, NothingToSkip
      <3> QED BY <3>1, <3>2
    <2>7. ParseToken(b) = [value |-> SubSeq(b, 1, Min(ends) - 1),
                           rest |-> SkipWhiteSpaces(From(b, Min(ends)))]
      BY <1>2, <2>1 DEF ParseToken
    <2> QED BY <2>2, <2>3, <2>6, <2>7
  <1> QED BY <1>3, <1>4

-----------------------------------------------------------------------------
(* Header lines: a field, a value and an end of line each.                 *)

Lines(h, k) ==
  /\ h \in Seq(Units) /\ Len(h) = 3 * k
  /\ \A j \in 1..k : /\ h[3 * j - 2].u = "field"
                     /\ h[3 * j - 1].u = "value"
                     /\ h[3 * j].u = "eol"

\* What the lines say.
Says(h, k) == {<<h[3 * j - 2].name, h[3 * j - 1].n>> : j \in 1..k}

\* Every unit belongs to a line.
LEMMA LineOf ==
  ASSUME NEW k \in Nat, NEW i \in 1..(3 * k)
  PROVE  \E j \in 1..k : i = 3 * j - 2 \/ i = 3 * j - 1 \/ i = 3 * j
  <1> DEFINE j == (i + 2) \div 3
  <1>1. j \in Int /\ 3 * j <= i + 2 /\ i + 2 <= 3 * j + 2
    OBVIOUS
  <1> HIDE DEF j
  <1>2. j \in 1..k /\ (i = 3 * j - 2 \/ i = 3 * j - 1 \/ i = 3 * j)
    BY <1>1
  <1> QED BY <1>2

\* Three units in a row.
LEMMA ThreeInARow ==
  ASSUME NEW a \in Units, NEW b \in Units, NEW c \in Units
  PROVE  /\ <<a, b, c>> \in Seq(Units) /\ Len(<<a, b, c>>) = 3
         /\ <<a, b, c>>[1] = a /\ <<a, b, c>>[2] = b /\ <<a, b, c>>[3] = c
  OBVIOUS

\* The units of a header line.
LEMMA LineUnits ==
  ASSUME NEW name \in Texts, NEW n \in Int
  PROVE  /\ Field(name) \in Units /\ Field(name).u = "field" /\ Field(name).name = name
         /\ Value(n) \in Units /\ Value(n).u = "value" /\ Value(n).n = n
         /\ EndOfLine \in Units /\ EndOfLine.u = "eol"
  <1>1. Field(name) \in Units /\ Field(name).u = "field" /\ Field(name).name = name
    BY DEF Field, Unit, Units
  <1>2. Value(n) \in Units /\ Value(n).u = "value" /\ Value(n).n = n
    BY DEF Value, Unit, Units, Texts
  <1>3. EndOfLine \in Units /\ EndOfLine.u = "eol"
    <2>1. EndOfLine = [u |-> "eol", name |-> "", n |-> 0] /\ "" \in Texts
      BY DEF EndOfLine, Unit, Texts
    <2>2. [u |-> "eol", name |-> "", n |-> 0] \in Units
      <3>1. PICK x \in Texts : x = ""
        BY <2>1
      <3>2. [u |-> "eol", name |-> x, n |-> 0] \in Units
        BY DEF Units
      <3> QED BY <3>1, <3>2
    <2> QED BY <2>1, <2>2
  <1> QED BY <1>1, <1>2, <1>3

\* A header that was sent is a line, one that was not is none.
LEMMA OneLine ==
  ASSUME NEW name \in Texts, NEW n \in Int, NEW names
  PROVE  \E k \in Nat : /\ Lines(HeaderLine(name, n, names), k)
                        /\ Says(HeaderLine(name, n, names), k) =
                             IF name \in names THEN {<<name, n>>} ELSE {}
  <1>1. CASE name \in names
    <2> DEFINE h == <<Field(name), Value(n), EndOfLine>>
    <2>1. HeaderLine(name, n, names) = h
      BY <1>1 DEF HeaderLine
    <2>3. h \in Seq(Units) /\ Len(h) = 3 /\ h[1] = Field(name) /\ h[2] = Value(n) /\ h[3] = EndOfLine
      BY LineUnits, ThreeInARow
    <2> HIDE DEF h
    <2>4. /\ h[1].u = "field" /\ h[2].u = "value" /\ h[3].u = "eol"
          /\ h[1].name = name /\ h[2].n = n
      BY <2>3, LineUnits
    <2>5. \A j \in 1..1 : 3 * j - 2 = 1 /\ 3 * j - 1 = 2 /\ 3 * j = 3
      OBVIOUS
    <2>6. Lines(h, 1)
      BY <2>3, <2>4, <2>5 DEF Lines
    <2>7. Says(h, 1) = {<<name, n>>}
      <3>1. \A j \in 1..1 : <<h[3 * j - 2].name, h[3 * j - 1].n>> = <<name, n>>
        BY <2>4, <2>5
      <3>2. 1 \in 1..1
        OBVIOUS
      <3> QED BY <3>1, <3>2 DEF Says
    <2> QED BY <1>1, <2>1, <2>6, <2>7
  <1>2. CASE name \notin names
    <2>1. HeaderLine(name, n, names) = <<>>
      BY <1>2 DEF HeaderLine
    <2>2. Lines(<<>>, 0) /\ Says(<<>>, 0) = {}
      BY DEF Lines, Says
    <2> QED BY <1>2, <2>1, <2>2
  <1> QED BY <1>1, <1>2

\* Lines behind lines.
LEMMA MoreLines ==
  ASSUME NEW g \in Seq(Units), NEW h \in Seq(Units), NEW k \in Nat, NEW l \in Nat,
         Lines(g, k), Lines(h, l)
  PROVE  Lines(g \o h, k + l) /\ Says(g \o h, k + l) = Says(g, k) \cup Says(h, l)
  <1> DEFINE s == g \o h
  <1>1. g \in Seq(Units) /\ Len(g) = 3 * k /\ h \in Seq(Units) /\ Len(h) = 3 * l
    BY DEF Lines
  <1>2. /\ s \in Seq(Units) /\ Len(s) = 3 * k + 3 * l
        /\ \A i \in 1..(3 * k + 3 * l) : s[i] = IF i <= 3 * k THEN g[i] ELSE h[i - 3 * k]
    <2>1. /\ s \in Seq(Units) /\ Len(s) = Len(g) + Len(h)
          /\ \A i \in 1..(Len(g) + Len(h)) : s[i] = IF i <= Len(g) THEN g[i] ELSE h[i - Len(g)]
      BY <1>1, ConcatProperties
    <2> HIDE DEF s
    <2> QED BY <1>1, <2>1
  <1> HIDE DEF s
  <1>3. ASSUME NEW j \in 1..k
        PROVE  s[3 * j - 2] = g[3 * j - 2] /\ s[3 * j - 1] = g[3 * j - 1] /\ s[3 * j] = g[3 * j]
    <2>1. \A i \in {3 * j - 2, 3 * j - 1, 3 * j} : i \in 1..(3 * k + 3 * l) /\ i <= 3 * k
      OBVIOUS
    <2> QED BY <1>2, <2>1
  <1>4. ASSUME NEW j \in 1..l
        PROVE  /\ s[3 * (k + j) - 2] = h[3 * j - 2] /\ s[3 * (k + j) - 1] = h[3 * j - 1]
               /\ s[3 * (k + j)] = h[3 * j]
    <2>1. /\ \A i \in {3 * (k + j) - 2, 3 * (k + j) - 1, 3 * (k + j)} :
               i \in 1..(3 * k + 3 * l) /\ ~ (i <= 3 * k)
          /\ 3 * (k + j) - 2 - 3 * k = 3 * j - 2 /\ 3 * (k + j) - 1 - 3 * k = 3 * j - 1
          /\ 3 * (k + j) - 3 * k = 3 * j
      OBVIOUS
    <2> QED BY <1>2, <2>1
  <1>5. ASSUME NEW j \in 1..(k + l)
        PROVE  j \in 1..k \/ \E i \in 1..l : j = k + i
    <2>1. j \in 1..k \/ (j - k \in 1..l /\ j = k + (j - k))
      OBVIOUS
    <2> QED BY <2>1
  <1>6. Lines(s, k + l)
    <2>1. Len(s) = 3 * (k + l)
      BY <1>2
    <2>2. ASSUME NEW j \in 1..(k + l)
          PROVE  s[3 * j - 2].u = "field" /\ s[3 * j - 1].u = "value" /\ s[3 * j].u = "eol"
      <3>1. CASE j \in 1..k
        BY <1>3, <3>1 DEF Lines
      <3>2. CASE \E i \in 1..l : j = k + i
        BY <1>4, <3>2 DEF Lines
      <3> QED BY <1>5, <3>1, <3>2
    <2> QED BY <1>2, <2>1, <2>2 DEF Lines
  <1>7. Says(s, k + l) = Says(g, k) \cup Says(h, l)
    <2>1. ASSUME NEW j \in 1..(k + l)
          PROVE  <<s[3 * j - 2].name, s[3 * j - 1].n>> \in Says(g, k) \cup Says(h, l)
      <3>1. CASE j \in 1..k
        BY <1>3, <3>1 DEF Says
      <3>2. CASE \E i \in 1..l : j = k + i
        BY <1>4, <3>2 DEF Says
      <3> QED BY <1>5, <3>1, <3>2
    <2>2. ASSUME NEW j \in 1..k PROVE <<g[3 * j - 2].name, g[3 * j - 1].n>> \in Says(s, k + l)
      <3>1. j \in 1..(k + l)
        OBVIOUS
      <3> QED BY <1>3, <3>1 DEF Says
    <2>3. ASSUME NEW j \in 1..l PROVE <<h[3 * j - 2].name, h[3 * j - 1].n>> \in Says(s, k + l)
      <3>1. k + j \in 1..(k + l)
        OBVIOUS
      <3> QED BY <1>4, <3>1 DEF Says
    <2> QED BY <2>1, <2>2, <2>3 DEF Says
  <1> QED BY <1>6, <1>7 DEF s

\* The header lines of a request say what its headers are.
LEMMA HeadersSaid ==
  ASSUME NEW m \in Requests
  PROVE  \E k \in Nat :
           /\ Lines(HeaderLines(m), k)
           /\ Says(HeaderLines(m), k) =
                {<<x, 0>> : x \in m.headers}
                  \cup (IF m.length # 0 THEN {<<"content-length", m.length>>} ELSE {})
  <1> DEFINE names == m.headers \cup (IF m.length # 0 THEN {"content-length"} ELSE {})
             gu == HeaderLine("upgrade", 0, names)
             gk == HeaderLine("sec-websocket-key", 0, names)
             gl == HeaderLine("content-length", m.length, names)
  <1>1. m.headers \subseteq {"upgrade", "sec-websocket-key"} /\ m.length \in Int
    BY MessagesAssumption DEF NotANumber
  <1>2. HeaderLines(m) = (gu \o gk) \o gl
    BY DEF HeaderLines
  <1>3. /\ "upgrade" \in names <=> "upgrade" \in m.headers
        /\ "sec-websocket-key" \in names <=> "sec-websocket-key" \in m.headers
        /\ "content-length" \in names <=> m.length # 0
    BY <1>1
  <1>4. {<<x, 0>> : x \in m.headers} =
          (IF "upgrade" \in m.headers THEN {<<"upgrade", 0>>} ELSE {})
            \cup (IF "sec-websocket-key" \in m.headers THEN {<<"sec-websocket-key", 0>>} ELSE {})
    BY <1>1
  <1>0. {"upgrade", "sec-websocket-key", "content-length"} \subseteq Texts
    BY DEF Texts
  <1> HIDE DEF names
  <1>5. PICK ku \in Nat :
          Lines(gu, ku) /\ Says(gu, ku) = IF "upgrade" \in names THEN {<<"upgrade", 0>>} ELSE {}
    BY <1>0, OneLine
  <1>6. PICK kk \in Nat :
          /\ Lines(gk, kk)
          /\ Says(gk, kk) = IF "sec-websocket-key" \in names THEN {<<"sec-websocket-key", 0>>} ELSE {}
    BY <1>0, OneLine
  <1>7. PICK kl \in Nat :
          /\ Lines(gl, kl)
          /\ Says(gl, kl) = IF "content-length" \in names THEN {<<"content-length", m.length>>} ELSE {}
    <2>1. PICK n \in Int : n = m.length
      BY <1>1
    <2>2. \E kl \in Nat :
            /\ Lines(HeaderLine("content-length", n, names), kl)
            /\ Says(HeaderLine("content-length", n, names), kl) =
                 IF "content-length" \in names THEN {<<"content-length", n>>} ELSE {}
      BY <1>0, OneLine
    <2> QED BY <2>1, <2>2
  <1> HIDE DEF gu, gk, gl
  <1>8. Lines(gu \o gk, ku + kk) /\ Says(gu \o gk, ku + kk) = Says(gu, ku) \cup Says(gk, kk)
    <2>1. Lines(gu, ku) /\ Lines(gk, kk) /\ gu \in Seq(Units) /\ gk \in Seq(Units)
      BY <1>5, <1>6 DEF Lines
    <2> QED BY <2>1, MoreLines
  <1>9. /\ Lines((gu \o gk) \o gl, (ku + kk) + kl)
        /\ Says((gu \o gk) \o gl, (ku + kk) + kl) = Says(gu \o gk, ku + kk) \cup Says(gl, kl)
    <2> DEFINE g == gu \o gk
               k == ku + kk
    <2>1. k \in Nat /\ Lines(g, k) /\ Lines(gl, kl) /\ g \in Seq(Units) /\ gl \in Seq(Units)
      BY <1>7, <1>8 DEF Lines
    <2> HIDE DEF g, k
    <2>2. Lines(g \o gl, k + kl) /\ Says(g \o gl, k + kl) = Says(g, k) \cup Says(gl, kl)
      BY <2>1, MoreLines
    <2> QED BY <2>2 DEF g, k
  <1>10. (ku + kk) + kl \in Nat
    OBVIOUS
  <1>11. Says(HeaderLines(m), (ku + kk) + kl) =
           {<<x, 0>> : x \in m.headers}
             \cup (IF m.length # 0 THEN {<<"content-length", m.length>>} ELSE {})
    BY <1>2, <1>3, <1>4, <1>5, <1>6, <1>7, <1>8, <1>9
  <1> QED BY <1>2, <1>9, <1>10, <1>11

-----------------------------------------------------------------------------
(* Facts about FlattenSeq. Its definition is recursive; what holds of all  *)
(* its values is shown by a least counterexample.                          *)

\* What FlattenSeq computes: the concatenation of the first i sequences.
Flattens(s, n, f) ==
  f = [i \in 1..n |-> IF i = 1 THEN s[i] ELSE f[i - 1] \o s[i]]

\* It is defined,
LEMMA FlattenExists ==
  ASSUME NEW s, NEW n \in Nat
  PROVE  \E f : Flattens(s, n, f)
  <1> DEFINE Bad == {m \in Nat : ~ \E f : Flattens(s, m, f)}
  <1> SUFFICES ASSUME n \in Bad PROVE FALSE
    OBVIOUS
  <1>1. PICK m \in Bad : \A k \in Bad : m <= k
    BY LeastNumber
  <1>2. CASE m = 0
    <2> DEFINE f == [i \in 1..0 |-> 0]
    <2>1. Flattens(s, 0, f)
      BY DEF Flattens
    <2> QED BY <1>2, <2>1
  <1>3. CASE m # 0
    <2>1. m - 1 \in Nat /\ m - 1 \notin Bad
      BY <1>1, <1>3
    <2>2. PICK g : Flattens(s, m - 1, g)
      BY <2>1
    <2> DEFINE f == [i \in 1..m |-> IF i < m THEN g[i] ELSE IF m = 1 THEN s[m] ELSE g[m - 1] \o s[m]]
    <2>3. \A i \in 1..m : f[i] = IF i = 1 THEN s[i] ELSE f[i - 1] \o s[i]
      <3> TAKE i \in 1..m
      <3>1. CASE i < m
        <4>1. i \in 1..(m - 1)
          BY <3>1
        <4>2. g[i] = IF i = 1 THEN s[i] ELSE g[i - 1] \o s[i]
          BY <2>2, <4>1 DEF Flattens
        <4>3. f[i] = g[i] /\ (i # 1 => f[i - 1] = g[i - 1])
          BY <3>1, <2>1
        <4> QED BY <4>2, <4>3
      <3>2. CASE i = m
        <4>1. f[i] = IF m = 1 THEN s[m] ELSE g[m - 1] \o s[m]
          BY <3>2
        <4>2. m # 1 => f[m - 1] = g[m - 1]
          BY <2>1
        <4> QED BY <3>2, <4>1, <4>2
      <3> QED BY <3>1, <3>2
    <2>4. Flattens(s, m, f)
      <3> DEFINE h == [i \in 1..m |-> IF i = 1 THEN s[i] ELSE f[i - 1] \o s[i]]
      <3>1. \A i \in 1..m : f[i] = h[i]
        BY <2>3
      <3>2. f = h
        <4> HIDE DEF h
        <4>1. DOMAIN h = 1..m /\ h = [i \in DOMAIN h |-> h[i]]
          BY DEF h
        <4>2. DOMAIN f = 1..m /\ f = [i \in DOMAIN f |-> f[i]]
          OBVIOUS
        <4> HIDE DEF f
        <4> QED BY <3>1, <4>1, <4>2
      <3> QED BY <3>2 DEF Flattens
    <2> QED BY <2>4
  <1> QED BY <1>2, <1>3

\* FlattenSeq is the last value of such a function,
LEMMA FlattenIs ==
  ASSUME NEW s, Len(s) \in Nat, Len(s) # 0
  PROVE  \E f : Flattens(s, Len(s), f) /\ FlattenSeq(s) = f[Len(s)]
  <1> DEFINE f == CHOOSE f : Flattens(s, Len(s), f)
  <1>1. Flattens(s, Len(s), f)
    BY FlattenExists
  <1>2. FlattenSeq(s) = f[Len(s)]
    BY DEF FlattenSeq, Flattens
  <1> QED BY <1>1, <1>2

\* whose values are sequences, and do not depend on the sequences to come.
LEMMA FlattenValues ==
  ASSUME NEW S, NEW s \in Seq(Seq(S)), NEW n \in 0..Len(s), NEW f, Flattens(s, n, f),
         NEW i \in 1..n
  PROVE  f[i] \in Seq(S)
  <1> DEFINE Bad == {m \in 1..n : f[m] \notin Seq(S)}
  <1> SUFFICES ASSUME i \in Bad PROVE FALSE
    OBVIOUS
  <1>1. Bad \subseteq Nat
    BY LenProperties
  <1>2. PICK m \in Bad : \A k \in Bad : m <= k
    BY <1>1, LeastNumber
  <1>3. f[m] = IF m = 1 THEN s[m] ELSE f[m - 1] \o s[m]
    BY DEF Flattens
  <1>4. m \in 1..Len(s) /\ s[m] \in Seq(S)
    BY ElementOfSeq, LenProperties
  <1>5. m # 1 => f[m - 1] \in Seq(S)
    <2>1. m # 1 => m - 1 \in 1..n /\ m - 1 \notin Bad
      BY <1>2, LenProperties
    <2> QED BY <2>1
  <1> QED BY <1>3, <1>4, <1>5, ConcatProperties

\* Two such functions agree where their sequences do.
LEMMA FlattenSame ==
  ASSUME NEW S, NEW s \in Seq(Seq(S)), NEW x \in Seq(S),
         NEW f, Flattens(s, Len(s), f), NEW g, Flattens(Append(s, x), Len(s) + 1, g),
         NEW i \in 1..Len(s)
  PROVE  f[i] = g[i]
  <1> DEFINE n == Len(s)
             t == Append(s, x)
             Bad == {k \in 1..n : f[k] # g[k]}
  <1> SUFFICES ASSUME i \in Bad PROVE FALSE
    OBVIOUS
  <1>1. n \in Nat /\ \A k \in 1..n : s[k] = t[k]
    BY AppendProperties, LenProperties
  <1>2. Bad \subseteq Nat
    OBVIOUS
  <1>3. PICK k \in Bad : \A j \in Bad : k <= j
    BY <1>2, LeastNumber
  <1>4. /\ f[k] = IF k = 1 THEN s[k] ELSE f[k - 1] \o s[k]
        /\ g[k] = IF k = 1 THEN t[k] ELSE g[k - 1] \o t[k]
    <2>1. k \in 1..n /\ k \in 1..(n + 1)
      BY <1>1
    <2> HIDE DEF n, t
    <2>2. Flattens(s, n, f) /\ Flattens(t, n + 1, g)
      BY DEF n, t
    <2> QED BY <2>1, <2>2 DEF Flattens
  <1>5. k # 1 => f[k - 1] = g[k - 1]
    <2>1. n \in Nat /\ k \in 1..n
      BY <1>1
    <2> SUFFICES ASSUME k # 1 PROVE f[k - 1] = g[k - 1]
      OBVIOUS
    <2>2. k - 1 \in 1..n /\ ~ (k <= k - 1)
      BY <2>1
    <2>3. k - 1 \notin Bad
      BY <1>3, <2>2
    <2> QED BY <2>2, <2>3
  <1>6. s[k] = t[k]
    BY <1>1
  <1> QED BY <1>4, <1>5, <1>6

\* Flattening nothing gives nothing.
LEMMA FlattenEmpty == FlattenSeq(<<>>) = <<>>
  BY DEF FlattenSeq

\* Flattening gives a sequence of the same elements,
LEMMA FlattenType ==
  ASSUME NEW S, NEW s \in Seq(Seq(S))
  PROVE  FlattenSeq(s) \in Seq(S)
  <1>1. CASE Len(s) = 0
    <2>1. s = <<>>
      BY <1>1, EmptySeq
    <2> QED BY <2>1, FlattenEmpty, EmptySeq
  <1>2. CASE Len(s) # 0
    <2>1. Len(s) \in Nat /\ Len(s) \in 1..Len(s) /\ Len(s) \in 0..Len(s)
      BY <1>2, LenProperties
    <2>2. PICK f : Flattens(s, Len(s), f) /\ FlattenSeq(s) = f[Len(s)]
      BY <1>2, <2>1, FlattenIs
    <2> QED BY <2>1, <2>2, FlattenValues
  <1> QED BY <1>1, <1>2

\* grows at its end with the sequence of sequences,
LEMMA FlattenAppend ==
  ASSUME NEW S, NEW s \in Seq(Seq(S)), NEW x \in Seq(S)
  PROVE  FlattenSeq(Append(s, x)) = FlattenSeq(s) \o x
  <1> DEFINE t == Append(s, x)
             n == Len(s)
  <1>1. /\ t \in Seq(Seq(S)) /\ Len(t) = n + 1 /\ n \in Nat
        /\ \A i \in 1..n : s[i] = t[i]
        /\ t[n + 1] = x
    BY AppendProperties, LenProperties
  <1> HIDE DEF t
  <1>2. PICK g : Flattens(t, n + 1, g) /\ FlattenSeq(t) = g[n + 1]
    BY <1>1, FlattenIs
  <1>3. g[n + 1] = IF n = 0 THEN x ELSE g[n] \o x
    <2>1. n + 1 \in 1..(n + 1) /\ (n + 1) - 1 = n /\ (n + 1 = 1 <=> n = 0)
      BY <1>1
    <2>2. g[n + 1] = IF n + 1 = 1 THEN t[n + 1] ELSE g[(n + 1) - 1] \o t[n + 1]
      BY <1>2, <2>1 DEF Flattens
    <2> QED BY <1>1, <2>1, <2>2
  <1>4. CASE n = 0
    <2>1. s = <<>>
      BY <1>4, EmptySeq
    <2>2. FlattenSeq(s) = <<>>
      BY <2>1, FlattenEmpty
    <2> QED BY <1>2, <1>3, <1>4, <2>2, ConcatEmptySeq DEF t
  <1>5. CASE n # 0
    <2>1. PICK f : Flattens(s, n, f) /\ FlattenSeq(s) = f[n]
      BY <1>1, <1>5, FlattenIs
    <2>2. f[n] = g[n]
      <3>1. n \in 1..n
        BY <1>1, <1>5
      <3>2. Flattens(Append(s, x), n + 1, g)
        BY <1>2 DEF t
      <3> QED BY <2>1, <3>1, <3>2, FlattenSame
    <2> QED BY <1>2, <1>3, <1>5, <2>1, <2>2 DEF t
  <1> QED BY <1>4, <1>5

\* and keeps its head when it grows,
LEMMA FlattenHeadStep ==
  ASSUME NEW S, NEW p \in Seq(Seq(S)), NEW x \in Seq(S)
  PROVE  p # <<>> /\ FlattenSeq(p) = Head(p) \o FlattenSeq(Tail(p)) =>
           FlattenSeq(Append(p, x)) = Head(p) \o FlattenSeq(Append(Tail(p), x))
  <1>1. ASSUME NEW h \in Seq(S), NEW r \in Seq(S)
        PROVE  (h \o r) \o x = h \o (r \o x)
    BY ConcatAssociative
  <1>2. FlattenSeq(Append(p, x)) = FlattenSeq(p) \o x
    BY FlattenAppend
  <1> SUFFICES ASSUME p # <<>>, FlattenSeq(p) = Head(p) \o FlattenSeq(Tail(p))
               PROVE  FlattenSeq(Append(p, x)) = Head(p) \o FlattenSeq(Append(Tail(p), x))
    OBVIOUS
  <1>3. Head(p) \in Seq(S) /\ Tail(p) \in Seq(Seq(S))
    BY HeadTailProperties
  <1>4. FlattenSeq(Append(Tail(p), x)) = FlattenSeq(Tail(p)) \o x
    BY <1>3, FlattenAppend
  <1>5. FlattenSeq(Tail(p)) \in Seq(S)
    BY <1>3, FlattenType
  <1> QED BY <1>1, <1>2, <1>3, <1>4, <1>5

\* and begins with its first element.
LEMMA FlattenHead ==
  ASSUME NEW S, NEW s \in Seq(Seq(S)), s # <<>>
  PROVE  FlattenSeq(s) = Head(s) \o FlattenSeq(Tail(s))
  <1> DEFINE Q == Seq(Seq(S))
             Right(q) == FlattenSeq(q) = Head(q) \o FlattenSeq(Tail(q))
             Bad == {n \in Nat : \E q \in Q : q # <<>> /\ Len(q) = n /\ ~ Right(q)}
  <1> SUFFICES ASSUME ~ Right(s) PROVE FALSE
    OBVIOUS
  <1>1. Len(s) \in Bad
    BY LenProperties
  <1>2. PICK n \in Bad : \A k \in Bad : n <= k
    BY <1>1, LeastNumber
  <1>3. PICK q \in Q : q # <<>> /\ Len(q) = n /\ ~ Right(q)
    BY <1>2
  <1>4. PICK p \in Q, x \in Seq(S) : q = Append(p, x)
    BY <1>3, SequenceEmptyOrAppend
  <1>5. FlattenSeq(q) = FlattenSeq(p) \o x
    BY <1>4, FlattenAppend
  <1>6. CASE p = <<>>
    <2>1. Head(q) = x /\ Tail(q) = <<>>
      BY <1>4, <1>6, HeadTailAppend
    <2>2. FlattenSeq(q) = x /\ FlattenSeq(Tail(q)) = <<>>
      BY <1>5, <1>6, <2>1, FlattenEmpty, ConcatEmptySeq
    <2> QED BY <1>3, <2>1, <2>2, ConcatEmptySeq
  <1>7. CASE p # <<>>
    <2>1. Head(q) = Head(p) /\ Tail(q) = Append(Tail(p), x)
      BY <1>4, <1>7, HeadTailAppend
    <2>2. Head(p) \in Seq(S) /\ Tail(p) \in Q
      BY <1>7, HeadTailProperties
    <2>3. Len(p) \in Nat /\ Len(p) < n
      BY <1>3, <1>4, AppendProperties, LenProperties
    <2>4. Right(p)
      <3>1. Len(p) \notin Bad
        BY <1>2, <1>3, <2>3
      <3> QED BY <1>7, <2>3, <3>1
    <2>5. FlattenSeq(q) = Head(p) \o FlattenSeq(Append(Tail(p), x))
      BY <1>4, <1>7, <2>4, FlattenHeadStep
    <2> QED BY <1>3, <2>1, <2>5
  <1> QED BY <1>6, <1>7

\* Two sequences of units are the same as far as both go.
Agree(c, h) == \A i \in 1..Len(c) : i <= Len(h) => c[i] = h[i]

\* There are as many first units of lines as lines.
LEMMA StartsCounted ==
  ASSUME NEW k \in Nat
  PROVE  Cardinality({3 * j - 2 : j \in 1..k}) = k
  <1> DEFINE T == {3 * j - 2 : j \in 1..k}
             f == [j \in 1..k |-> 3 * j - 2]
  <1>1. f \in [1..k -> T] /\ \A j \in 1..k : f[j] = 3 * j - 2
    OBVIOUS
  <1>2. \A i, j \in 1..k : f[i] = f[j] => i = j
    BY <1>1
  <1>3. \A t \in T : \E j \in 1..k : f[j] = t
    BY <1>1
  <1> HIDE DEF T, f
  <1>4. f \in Bijection(1..k, T)
    BY <1>1, <1>2, <1>3 DEF Bijection, Injection, Surjection, IsInjective
  <1>5. ExistsBijection(1..k, T)
    BY <1>4 DEF ExistsBijection
  <1>6. Cardinality(T) = k
    BY <1>5, FS_CountingElements
  <1> QED BY <1>6 DEF T

\* Where a line starts there is the field of one.
LEMMA StartsSeen ==
  ASSUME NEW k \in Nat, NEW h \in Seq(Units), Lines(h, k),
         NEW c \in Seq(Units), Agree(c, h), NEW i \in 1..(3 * k), i <= Len(c),
         i = 1 \/ c[i - 1].u = "eol"
  PROVE  c[i].u = "field" /\ \E j \in 1..k : i = 3 * j - 2
  <1>1. Len(c) \in Nat /\ Len(h) = 3 * k
    BY DEF Lines
  <1>2. PICK j \in 1..k : i = 3 * j - 2 \/ i = 3 * j - 1 \/ i = 3 * j
    BY LineOf
  <1>3. c[i] = h[i] /\ (i # 1 => c[i - 1] = h[i - 1])
    <2>1. i \in 1..Len(c) /\ i <= Len(h) /\ (i # 1 => i - 1 \in 1..Len(c) /\ i - 1 <= Len(h))
      BY <1>1
    <2> QED BY <2>1 DEF Agree
  <1>4. CASE i = 3 * j - 2
    BY <1>3, <1>4 DEF Lines
  <1>5. CASE i = 3 * j - 1
    <2>1. i # 1 /\ i - 1 = 3 * j - 2
      BY <1>5
    <2>2. c[i - 1].u = "field"
      BY <1>3, <2>1 DEF Lines
    <2> QED BY <2>1, <2>2
  <1>6. CASE i = 3 * j
    <2>1. i # 1 /\ i - 1 = 3 * j - 1
      BY <1>6
    <2>2. c[i - 1].u = "value"
      BY <1>3, <2>1 DEF Lines
    <2> QED BY <2>1, <2>2
  <1> QED BY <1>2, <1>4, <1>5, <1>6

\* A line that was seen starts behind another.
LEMMA FieldSeen ==
  ASSUME NEW k \in Nat, NEW h \in Seq(Units), Lines(h, k),
         NEW c \in Seq(Units), Agree(c, h), NEW j \in 1..k, 3 * j - 2 <= Len(c)
  PROVE  c[3 * j - 2].u = "field" /\ (j # 1 => c[3 * j - 3].u = "eol")
  <1>1. Len(c) \in Nat /\ Len(h) = 3 * k
    BY DEF Lines
  <1>2. 3 * j - 2 \in 1..Len(c) /\ 3 * j - 2 <= Len(h)
    BY <1>1
  <1>3. c[3 * j - 2].u = "field"
    BY <1>2 DEF Lines, Agree
  <1>4. ASSUME j # 1 PROVE c[3 * j - 3].u = "eol"
    <2>1. j - 1 \in 1..k /\ 3 * (j - 1) = 3 * j - 3 /\ 3 * j - 3 \in 1..Len(c) /\ 3 * j - 3 <= Len(h)
      BY <1>1, <1>4
    <2>2. h[3 * (j - 1)].u = "eol"
      BY <2>1 DEF Lines
    <2> QED BY <2>1, <2>2 DEF Agree
  <1> QED BY <1>3, <1>4

\* The last unit of lines that were seen ends one.
LEMMA EndSeen ==
  ASSUME NEW k \in Nat, NEW h \in Seq(Units), Lines(h, k),
         NEW c \in Seq(Units), Agree(c, h), k # 0, 3 * k <= Len(c)
  PROVE  c[3 * k].u = "eol"
  <1>1. k \in 1..k /\ 3 * k \in 1..Len(c) /\ 3 * k <= Len(h)
    BY DEF Lines
  <1> QED BY <1>1 DEF Lines, Agree

\* ParseHeaders finds no empty line before the lines are complete,
LEMMA HeadersOpen ==
  ASSUME NEW k \in Nat, NEW h \in Seq(Units), Lines(h, k),
         NEW c \in Seq(Units), Agree(c, h), Len(c) <= 3 * k
  PROVE  ParseHeaders(c) = Failed
  <1> DEFINE starts == {i \in DOMAIN c : i = 1 \/ c[i - 1].u = "eol"}
             empty == {i \in starts : c[i].u = "eol"}
  <1>1. Len(c) \in Nat /\ DOMAIN c = 1..Len(c)
    OBVIOUS
  <1>2. empty = {}
    <2> SUFFICES ASSUME NEW i \in 1..Len(c), i = 1 \/ c[i - 1].u = "eol", c[i].u = "eol"
                 PROVE  FALSE
      BY <1>1
    <2>1. i \in 1..(3 * k) /\ i <= Len(c)
      BY <1>1
    <2>2. c[i].u = "field"
      BY <2>1, StartsSeen
    <2> QED BY <2>2
  <1> QED BY <1>2 DEF ParseHeaders

\* and takes them when the empty line is there.
LEMMA HeadersClosed ==
  ASSUME NEW k \in Nat, NEW h \in Seq(Units), Lines(h, k),
         NEW c \in Seq(Units), Agree(c, h), Len(c) > 3 * k, c[3 * k + 1].u = "eol"
  PROVE  ParseHeaders(c) = [value |-> [j \in 1..k |-> SubSeq(c, 3 * j - 2, 3 * j - 1)],
                            rest |-> From(c, 3 * k + 1)]
  <1> DEFINE starts == {i \in DOMAIN c : i = 1 \/ c[i - 1].u = "eol"}
             empty == {i \in starts : c[i].u = "eol"}
             last == 3 * k + 1
             head == {i \in starts : i < Min(empty)}
  <1>1. Len(c) \in Nat /\ DOMAIN c = 1..Len(c) /\ last \in 1..Len(c)
    OBVIOUS
  <1>2. last = 1 \/ c[last - 1].u = "eol"
    <2> SUFFICES ASSUME k # 0 PROVE c[last - 1].u = "eol"
      OBVIOUS
    <2>1. 3 * k <= Len(c) /\ last - 1 = 3 * k
      BY <1>1
    <2>2. c[3 * k].u = "eol"
      BY <2>1, EndSeen
    <2> QED BY <2>1, <2>2
  <1>3. ASSUME NEW i \in empty PROVE last <= i
    <2> SUFFICES ASSUME i < last PROVE FALSE
      BY <1>1
    <2>1. i \in 1..(3 * k) /\ i <= Len(c)
      BY <1>1
    <2>2. c[i].u = "field"
      BY <2>1, StartsSeen
    <2> QED BY <2>2
  <1>4. Min(empty) = last
    <2>1. last \in empty /\ empty \subseteq Int
      BY <1>1, <1>2
    <2> HIDE DEF empty
    <2> QED BY <1>3, <2>1, MinIs
  <1>5. empty # {}
    BY <1>1, <1>2
  <1>6. \A i : i \in head <=> i \in {3 * j - 2 : j \in 1..k}
    <2>1. ASSUME NEW i \in head PROVE i \in {3 * j - 2 : j \in 1..k}
      <3>1. i \in 1..(3 * k) /\ i <= Len(c) /\ (i = 1 \/ c[i - 1].u = "eol")
        BY <1>1, <1>4
      <3>2. \E j \in 1..k : i = 3 * j - 2
        BY <3>1, StartsSeen
      <3> QED BY <3>2
    <2>2. ASSUME NEW j \in 1..k PROVE 3 * j - 2 \in head
      <3> DEFINE i == 3 * j - 2
      <3>1. i \in 1..(3 * k) /\ i <= Len(c) /\ i \in 1..Len(c) /\ i < last
        BY <1>1
      <3>2. i - 1 = 3 * j - 3 /\ (j = 1 => i = 1) /\ 3 * j - 2 <= Len(c)
        BY <1>1
      <3>3. i = 1 \/ c[i - 1].u = "eol"
        <4> HIDE DEF i
        <4>1. j # 1 => c[3 * j - 3].u = "eol"
          BY <3>2, FieldSeen
        <4> QED BY <3>2, <4>1
      <3> HIDE DEF i
      <3>4. i \in head
        BY <1>1, <1>4, <3>1, <3>3
      <3> QED BY <3>4 DEF i
    <2> QED BY <2>1, <2>2
  <1>7. head = {3 * j - 2 : j \in 1..k}
    BY <1>6
  <1>8. \A i \in head : c[i].u = "field"
    <2> SUFFICES ASSUME NEW j \in 1..k PROVE c[3 * j - 2].u = "field"
      BY <1>7
    <2>1. 3 * j - 2 <= Len(c)
      BY <1>1
    <2> QED BY <2>1, FieldSeen
  <1>9. Cardinality(head) = k
    BY <1>7, StartsCounted
  <1>10. ParseHeaders(c) = IF empty = {} \/ \E i \in head : c[i].u # "field" THEN Failed
           ELSE [value |-> [j \in 1..Cardinality(head) |-> SubSeq(c, 3 * j - 2, 3 * j - 1)],
                 rest |-> From(c, Min(empty))]
    BY DEF ParseHeaders
  <1> HIDE DEF head, empty
  <1> QED BY <1>4, <1>5, <1>8, <1>9, <1>10

\* What was taken says what the lines say.
LEMMA HeadersRead ==
  ASSUME NEW k \in Nat, NEW h \in Seq(Units), Lines(h, k),
         NEW c \in Seq(Units), Agree(c, h), Len(c) > 3 * k, NEW j \in 1..k
  PROVE  /\ SubSeq(c, 3 * j - 2, 3 * j - 1)[1] = h[3 * j - 2]
         /\ SubSeq(c, 3 * j - 2, 3 * j - 1)[2] = h[3 * j - 1]
  <1> DEFINE a == 3 * j - 2
             b == 3 * j - 1
  <1>1. /\ a \in Int /\ b \in Int /\ b - a + 1 = 2 /\ a + 1 - 1 = a /\ a + 2 - 1 = b
        /\ a \in 1..Len(c) /\ b \in 1..Len(c) /\ a <= Len(h) /\ b <= Len(h)
        /\ \A i \in a..b : i \in 1..Len(c)
    BY DEF Lines
  <1>2. c[a] = h[a] /\ c[b] = h[b]
    BY <1>1 DEF Agree
  <1> HIDE DEF a, b
  <1>3. \A i \in a..b : c[i] \in Units
    BY <1>1
  <1>4. \A i \in 1..(b - a + 1) : SubSeq(c, a, b)[i] = c[a + i - 1]
    BY <1>1, <1>3, SubSeqProperties
  <1>5. SubSeq(c, a, b)[1] = c[a] /\ SubSeq(c, a, b)[2] = c[b]
    <2>1. 1 \in 1..(b - a + 1) /\ 2 \in 1..(b - a + 1)
      BY <1>1
    <2>2. SubSeq(c, a, b)[1] = c[a + 1 - 1] /\ SubSeq(c, a, b)[2] = c[a + 2 - 1]
      BY <1>4, <2>1
    <2> QED BY <1>1, <2>2
  <1> QED BY <1>2, <1>5 DEF a, b

\* The units of requests.
LEMMA RequestUnits ==
  ASSUME NEW m \in Requests
  PROVE  /\ Word(m.method, 0) \in Units /\ Word(m.uri, m.skip) \in Units
         /\ Word("HTTP/1.1", 0) \in Units
         /\ Space \in Units /\ EndOfLine \in Units /\ Byte \in Units
         /\ \A w, n : Word(w, n).u = "word" /\ Word(w, n).name = w /\ Word(w, n).n = n
         /\ Space.u = "space" /\ EndOfLine.u = "eol"
  <1>1. m.method \in Texts /\ m.uri \in Texts /\ m.skip \in Int
    <2>1. m.skip \in Int
      BY MessagesAssumption DEF NotANumber
    <2>2. m.method \in {r.method : r \in Requests} /\ m.uri \in {r.uri : r \in Requests}
      OBVIOUS
    <2> QED BY <2>1, <2>2 DEF Texts
  <1>2. PICK x \in Texts, y \in Texts : x = "" /\ y = "HTTP/1.1"
    BY DEF Texts
  <1>3. ASSUME NEW w \in Texts, NEW n \in Int
        PROVE  /\ Word(w, n) \in Units
               /\ [u |-> "space", name |-> w, n |-> n] \in Units
               /\ [u |-> "eol", name |-> w, n |-> n] \in Units
               /\ [u |-> "byte", name |-> w, n |-> n] \in Units
    BY DEF Word, Unit, Units
  <1>4. PICK z \in Int : z = 0
    OBVIOUS
  <1>5. Word(m.method, 0) \in Units /\ Word(m.uri, m.skip) \in Units /\ Word("HTTP/1.1", 0) \in Units
    <2>1. Word(m.method, z) \in Units /\ Word(m.uri, m.skip) \in Units /\ Word(y, z) \in Units
      BY <1>1, <1>3
    <2> QED BY <1>2, <1>4, <2>1
  <1>6. Space \in Units /\ EndOfLine \in Units /\ Byte \in Units
    <2>1. /\ Space = [u |-> "space", name |-> x, n |-> z] /\ Byte = [u |-> "byte", name |-> x, n |-> z]
          /\ EndOfLine = [u |-> "eol", name |-> x, n |-> z]
      BY <1>2, <1>4 DEF Space, EndOfLine, Byte, Unit
    <2> QED BY <1>3, <2>1
  <1>7. \A w, n : Word(w, n).u = "word" /\ Word(w, n).name = w /\ Word(w, n).n = n
    BY DEF Word, Unit
  <1>8. Space.u = "space" /\ EndOfLine.u = "eol"
    BY DEF Space, EndOfLine, Unit
  <1> QED BY <1>5, <1>6, <1>7, <1>8

\* Six units in a row.
LEMMA SixInARow ==
  ASSUME NEW S, NEW a \in S, NEW b \in S, NEW c \in S, NEW d \in S, NEW e \in S, NEW f \in S
  PROVE  LET s == <<a, b, c, d, e, f>> IN
           /\ s \in Seq(S) /\ Len(s) = 6
           /\ s[1] = a /\ s[2] = b /\ s[3] = c /\ s[4] = d /\ s[5] = e /\ s[6] = f
  OBVIOUS

\* Requests are no frames.
LEMMA RequestsAreNoFrames ==
  ASSUME NEW m \in Requests
  PROVE  ~IsFrame(m)
  <1> SUFFICES ASSUME m \in Frames PROVE FALSE
    BY DEF IsFrame
  <1>1. "uri" \in DOMAIN m
    BY MessagesAssumption
  <1>2. DOMAIN m = {"opcode", "length"}
    BY MessagesAssumption
  <1> QED BY <1>1, <1>2

\* A request is its line, its headers, an empty line and its body.
LEMMA RequestEncoded ==
  ASSUME NEW m \in Requests, NEW k \in Nat, Lines(HeaderLines(m), k)
  PROVE  LET e == Encode(m) IN
           /\ e \in Seq(Units)
           /\ Len(e) = 7 + 3 * k + (IF m.length > 0 THEN m.length ELSE 0)
           /\ e[1] = Word(m.method, 0) /\ e[2] = Space /\ e[3] = Word(m.uri, m.skip)
           /\ e[4] = Space /\ e[5] = Word("HTTP/1.1", 0) /\ e[6] = EndOfLine
           /\ \A i \in 1..(3 * k) : e[6 + i] = HeaderLines(m)[i]
           /\ e[7 + 3 * k] = EndOfLine
  <1> DEFINE n == IF m.length > 0 THEN m.length ELSE 0
             s == <<Word(m.method, 0), Space, Word(m.uri, m.skip), Space, Word("HTTP/1.1", 0), EndOfLine>>
             h == HeaderLines(m)
             t == <<EndOfLine>>
             d == Bytes(m.length)
             r == s \o h
             q == r \o t
             e == q \o d
  <1>1. Encode(m) = e
    BY RequestsAreNoFrames DEF Encode
  <1>2. /\ s \in Seq(Units) /\ Len(s) = 6
        /\ s[1] = Word(m.method, 0) /\ s[2] = Space /\ s[3] = Word(m.uri, m.skip)
        /\ s[4] = Space /\ s[5] = Word("HTTP/1.1", 0) /\ s[6] = EndOfLine
    BY RequestUnits, SixInARow
  <1>3. h \in Seq(Units) /\ Len(h) = 3 * k
    BY DEF Lines
  <1>4. t \in Seq(Units) /\ Len(t) = 1 /\ t[1] = EndOfLine
    BY RequestUnits
  <1>5. n \in Nat /\ d \in Seq(Units) /\ Len(d) = n
    <2>1. m.length \in Int
      BY MessagesAssumption DEF NotANumber
    <2>2. n \in Nat /\ 1..m.length = 1..n
      BY <2>1
    <2> HIDE DEF n
    <2>3. d = [i \in 1..n |-> Byte] /\ Byte \in Units
      BY <2>2, RequestUnits DEF Bytes
    <2> QED BY <2>2, <2>3
  <1> HIDE DEF s, h, t, d, n
  <1>6. /\ r \in Seq(Units) /\ Len(r) = 6 + 3 * k
        /\ \A i \in 1..6 : r[i] = s[i]
        /\ \A i \in 1..(3 * k) : r[6 + i] = h[i]
    <2>1. /\ r \in Seq(Units) /\ Len(r) = Len(s) + Len(h)
          /\ \A i \in 1..(Len(s) + Len(h)) : r[i] = IF i <= Len(s) THEN s[i] ELSE h[i - Len(s)]
      BY <1>2, <1>3, ConcatProperties
    <2> HIDE DEF r
    <2>2. ASSUME NEW i \in 1..6 PROVE r[i] = s[i]
      <3>1. i \in 1..(Len(s) + Len(h)) /\ i <= Len(s)
        BY <1>2, <1>3
      <3> QED BY <2>1, <3>1
    <2>3. ASSUME NEW i \in 1..(3 * k) PROVE r[6 + i] = h[i]
      <3>1. 6 + i \in 1..(Len(s) + Len(h)) /\ ~ (6 + i <= Len(s)) /\ 6 + i - Len(s) = i
        BY <1>2, <1>3
      <3> QED BY <2>1, <3>1
    <2> QED BY <1>2, <1>3, <2>1, <2>2, <2>3
  <1> HIDE DEF r
  <1>7. /\ q \in Seq(Units) /\ Len(q) = 7 + 3 * k
        /\ \A i \in 1..(6 + 3 * k) : q[i] = r[i]
        /\ q[7 + 3 * k] = EndOfLine
    <2>1. /\ q \in Seq(Units) /\ Len(q) = Len(r) + Len(t)
          /\ \A i \in 1..(Len(r) + Len(t)) : q[i] = IF i <= Len(r) THEN r[i] ELSE t[i - Len(r)]
      BY <1>4, <1>6, ConcatProperties
    <2> HIDE DEF q
    <2>2. ASSUME NEW i \in 1..(6 + 3 * k) PROVE q[i] = r[i]
      <3>1. i \in 1..(Len(r) + Len(t)) /\ i <= Len(r)
        BY <1>4, <1>6
      <3> QED BY <2>1, <3>1
    <2>3. q[7 + 3 * k] = EndOfLine
      <3>1. 7 + 3 * k \in 1..(Len(r) + Len(t)) /\ ~ (7 + 3 * k <= Len(r)) /\ 7 + 3 * k - Len(r) = 1
        BY <1>4, <1>6
      <3> QED BY <1>4, <2>1, <3>1
    <2>4. Len(q) = 7 + 3 * k
      BY <1>4, <1>6, <2>1
    <2> QED BY <2>1, <2>2, <2>3, <2>4
  <1> HIDE DEF q
  <1>8. /\ e \in Seq(Units) /\ Len(e) = 7 + 3 * k + n
        /\ \A i \in 1..(7 + 3 * k) : e[i] = q[i]
    <2>1. /\ e \in Seq(Units) /\ Len(e) = Len(q) + Len(d)
          /\ \A i \in 1..(Len(q) + Len(d)) : e[i] = IF i <= Len(q) THEN q[i] ELSE d[i - Len(q)]
      BY <1>5, <1>7, ConcatProperties
    <2> HIDE DEF e
    <2>2. ASSUME NEW i \in 1..(7 + 3 * k) PROVE e[i] = q[i]
      <3>1. i \in 1..(Len(q) + Len(d)) /\ i <= Len(q)
        BY <1>5, <1>7
      <3> QED BY <2>1, <3>1
    <2>3. Len(e) = 7 + 3 * k + n
      BY <1>5, <1>7, <2>1
    <2> QED BY <2>1, <2>2, <2>3
  <1> HIDE DEF e
  <1>9. ASSUME NEW i \in 1..6 PROVE e[i] = s[i]
    <2>1. i \in 1..(7 + 3 * k) /\ i \in 1..(6 + 3 * k)
      OBVIOUS
    <2> QED BY <1>6, <1>7, <1>8, <2>1
  <1>10. ASSUME NEW i \in 1..(3 * k) PROVE e[6 + i] = h[i]
    <2>1. 6 + i \in 1..(7 + 3 * k) /\ 6 + i \in 1..(6 + 3 * k)
      OBVIOUS
    <2> QED BY <1>6, <1>7, <1>8, <2>1
  <1>11. e[7 + 3 * k] = EndOfLine
    <2>1. 7 + 3 * k \in 1..(7 + 3 * k)
      OBVIOUS
    <2> QED BY <1>7, <1>8, <2>1
  <1>12. e[1] = s[1] /\ e[2] = s[2] /\ e[3] = s[3] /\ e[4] = s[4] /\ e[5] = s[5] /\ e[6] = s[6]
    BY <1>9
  <1> QED BY <1>1, <1>2, <1>8, <1>10, <1>11, <1>12 DEF h, n

-----------------------------------------------------------------------------
(* The HTTP parser on a buffer that begins like a request.                 *)

\* The units of the buffer are those of the request, as far as it goes.
LEMMA RequestSeen ==
  ASSUME NEW m \in Requests, NEW k \in Nat, Lines(HeaderLines(m), k),
         NEW b \in Seq(Units), Agree(b, Encode(m))
  PROVE  /\ Len(b) >= 1 => b[1] = Word(m.method, 0)
         /\ Len(b) >= 2 => b[2].u = "space"
         /\ Len(b) >= 3 => b[3] = Word(m.uri, m.skip)
         /\ Len(b) >= 4 => b[4].u = "space"
         /\ Len(b) >= 5 => b[5] = Word("HTTP/1.1", 0)
         /\ Len(b) >= 6 => b[6].u = "eol"
         /\ \A i \in 1..(3 * k) : Len(b) >= 6 + i => b[6 + i] = HeaderLines(m)[i]
         /\ Len(b) >= 7 + 3 * k => b[7 + 3 * k].u = "eol"
  <1> DEFINE e == Encode(m)
  <1>1. /\ Len(e) >= 7 + 3 * k /\ Len(e) \in Nat
        /\ e[1] = Word(m.method, 0) /\ e[2] = Space /\ e[3] = Word(m.uri, m.skip)
        /\ e[4] = Space /\ e[5] = Word("HTTP/1.1", 0) /\ e[6] = EndOfLine
        /\ \A i \in 1..(3 * k) : e[6 + i] = HeaderLines(m)[i]
        /\ e[7 + 3 * k] = EndOfLine
    <2>1. (IF m.length > 0 THEN m.length ELSE 0) \in Nat
      BY MessagesAssumption DEF NotANumber
    <2>2. Len(e) = 7 + 3 * k + (IF m.length > 0 THEN m.length ELSE 0)
      BY RequestEncoded
    <2>3. Len(e) >= 7 + 3 * k /\ Len(e) \in Nat
      BY <2>1, <2>2
    <2> QED BY <2>3, RequestEncoded
  <1> HIDE DEF e
  <1>2. ASSUME NEW i \in Nat \ {0}, i <= 7 + 3 * k, Len(b) >= i PROVE b[i] = e[i]
    <2>1. i \in 1..Len(b) /\ i <= Len(e)
      BY <1>1, <1>2
    <2> QED BY <2>1 DEF Agree, e
  <1>3. Space.u = "space" /\ EndOfLine.u = "eol"
    BY RequestUnits
  <1>4. /\ Len(b) >= 1 => b[1] = e[1]
        /\ Len(b) >= 2 => b[2] = e[2]
        /\ Len(b) >= 3 => b[3] = e[3]
        /\ Len(b) >= 4 => b[4] = e[4]
        /\ Len(b) >= 5 => b[5] = e[5]
        /\ Len(b) >= 6 => b[6] = e[6]
        /\ Len(b) >= 7 + 3 * k => b[7 + 3 * k] = e[7 + 3 * k]
    BY <1>2
  <1>5. ASSUME NEW i \in 1..(3 * k), Len(b) >= 6 + i PROVE b[6 + i] = HeaderLines(m)[i]
    <2>1. 6 + i \in Nat \ {0} /\ 6 + i <= 7 + 3 * k
      BY <1>5
    <2> QED BY <1>1, <1>2, <1>5, <2>1
  <1> QED BY <1>1, <1>3, <1>4, <1>5

\* One word of the request line: the token and what is left behind it.
LEMMA WordTaken ==
  ASSUME NEW b \in Seq(Units), NEW i \in Nat, i <= Len(b),
         Len(b) >= i + 1 => b[i + 1].u = "word",
         Len(b) >= i + 2 => b[i + 2].u \in {"space", "eol"},
         Len(b) >= i + 3 => b[i + 3].u # "space"
  PROVE  /\ Len(b) < i + 2 => ParseToken(From(b, i + 1)) = Failed
         /\ Len(b) >= i + 2 =>
              ParseToken(From(b, i + 1)) =
                [value |-> <<b[i + 1]>>,
                 rest |-> IF b[i + 2].u = "space" THEN From(b, i + 3) ELSE From(b, i + 2)]
  <1> DEFINE c == From(b, i + 1)
  <1>1. /\ c \in Seq(Units) /\ Len(c) = Len(b) - i
        /\ \A j \in 1..(Len(b) - i) : c[j] = b[i + j]
    <2>1. i + 1 \in Nat \ {0} /\ i + 1 <= Len(b) + 1 /\ Len(b) \in Nat
      OBVIOUS
    <2>2. /\ c \in Seq(Units) /\ Len(c) = Len(b) + 1 - (i + 1)
          /\ \A j \in 1..(Len(b) + 1 - (i + 1)) : c[j] = b[(i + 1) + j - 1]
      BY <2>1, FromProperties
    <2> HIDE DEF c
    <2>3. \A j \in 1..(Len(b) - i) : j \in 1..(Len(b) + 1 - (i + 1)) /\ (i + 1) + j - 1 = i + j
      BY <2>1
    <2> QED BY <2>1, <2>2, <2>3
  <1>2. /\ Len(b) >= i + 2 => From(c, 2) = From(b, i + 2)
        /\ Len(b) >= i + 2 => From(c, 3) = From(b, i + 3)
    <2>1. Len(b) >= i + 2 => From(c, 2) = From(b, (i + 1) + 2 - 1)
      BY FromFrom
    <2>2. Len(b) >= i + 2 => From(c, 3) = From(b, (i + 1) + 3 - 1)
      BY FromFrom
    <2>3. (i + 1) + 2 - 1 = i + 2 /\ (i + 1) + 3 - 1 = i + 3
      OBVIOUS
    <2> HIDE DEF c
    <2> QED BY <2>1, <2>2, <2>3
  <1> HIDE DEF c
  <1>3. /\ Len(b) \in Nat
        /\ Len(c) >= 1 => c[1] = b[i + 1] /\ c[1].u = "word"
        /\ Len(c) >= 2 => c[2] = b[i + 2] /\ c[2].u \in {"space", "eol"}
        /\ Len(c) >= 3 => c[3] = b[i + 3] /\ c[3].u # "space"
    BY <1>1
  <1>4. Len(b) < i + 2 => Len(c) < 2
    BY <1>1, <1>3
  <1>5. Len(b) >= i + 2 => Len(c) >= 2
    BY <1>1, <1>3
  <1>6. Len(c) < 2 => ParseToken(c) = Failed
    BY <1>1, <1>3, TokenIsAWord
  <1>7. Len(c) >= 2 => ParseToken(c) = [value |-> <<c[1]>>,
                         rest |-> IF c[2].u = "space" THEN From(c, 3) ELSE From(c, 2)]
    BY <1>1, <1>3, TokenIsAWord
  <1>8. Len(b) >= i + 2 => c[1] = b[i + 1] /\ c[2] = b[i + 2]
    BY <1>3, <1>5, <1>1
  <1> QED BY <1>2, <1>4, <1>5, <1>6, <1>7, <1>8 DEF c

\* The end of a line that is there is taken.
LEMMA EndOfLineTaken ==
  ASSUME NEW b \in Seq(Units), NEW i \in Nat \ {0}, i <= Len(b), b[i].u = "eol"
  PROVE  ConsumeEndOfLine(From(b, i)) = From(b, i + 1) /\ From(b, i + 1) # None
  <1> DEFINE c == From(b, i)
  <1>1. /\ c \in Seq(Units) /\ Len(c) = Len(b) + 1 - i /\ c[1] = b[i]
    <2>1. i <= Len(b) + 1 /\ Len(b) \in Nat /\ 1 \in 1..(Len(b) + 1 - i) /\ i + 1 - 1 = i
      OBVIOUS
    <2>2. /\ c \in Seq(Units) /\ Len(c) = Len(b) + 1 - i
          /\ \A j \in 1..(Len(b) + 1 - i) : c[j] = b[i + j - 1]
      BY <2>1, FromProperties
    <2> HIDE DEF c
    <2> QED BY <2>1, <2>2
  <1>2. From(c, 2) = From(b, i + 1)
    <2>1. From(c, 2) = From(b, i + 2 - 1)
      BY FromFrom
    <2> QED BY <2>1
  <1>3. From(b, i + 1) \in Seq(Units)
    BY FromProperties
  <1>4. c # <<>> /\ Tail(c) = From(c, 2)
    <2> HIDE DEF c
    <2>1. Len(c) >= 1
      BY <1>1
    <2>2. c # <<>>
      BY <2>1
    <2> QED BY <1>1, <2>2, TailIsSubSeq DEF From
  <1>5. ConsumeEndOfLine(c) = Tail(c)
    BY <1>1, <1>4 DEF ConsumeEndOfLine
  <1> QED BY <1>2, <1>3, <1>4, <1>5, NoneAssumption

\* The request line, as far as it has come.
LEMMA RequestLineRead ==
  ASSUME NEW m \in Requests, NEW k \in Nat, Lines(HeaderLines(m), k),
         NEW b \in Seq(Units), Agree(b, Encode(m))
  PROVE  /\ Len(b) < 2 => ParseToken(b) = Failed
         /\ Len(b) >= 2 => ParseToken(b) = [value |-> <<Word(m.method, 0)>>, rest |-> From(b, 3)]
         /\ Len(b) \in 2..3 => ParseToken(From(b, 3)) = Failed
         /\ Len(b) >= 4 => ParseToken(From(b, 3)) =
                             [value |-> <<Word(m.uri, m.skip)>>, rest |-> From(b, 5)]
         /\ Len(b) \in 4..5 => ParseToken(From(b, 5)) = Failed
         /\ Len(b) >= 6 => ParseToken(From(b, 5)) =
                             [value |-> <<Word("HTTP/1.1", 0)>>, rest |-> From(b, 6)]
  <1>1. \A w, n : Word(w, n).u = "word"
    BY RequestUnits
  <1>2. /\ Len(b) >= 1 => b[1] = Word(m.method, 0) /\ b[1].u = "word"
        /\ Len(b) >= 2 => b[2].u = "space"
        /\ Len(b) >= 3 => b[3] = Word(m.uri, m.skip) /\ b[3].u = "word"
        /\ Len(b) >= 4 => b[4].u = "space"
        /\ Len(b) >= 5 => b[5] = Word("HTTP/1.1", 0) /\ b[5].u = "word"
        /\ Len(b) >= 6 => b[6].u = "eol"
    BY <1>1, RequestSeen
  <1>3. Len(b) >= 7 => b[7].u # "space"
    <2>1. CASE k = 0
      <3>1. 7 + 3 * k = 7
        BY <2>1
      <3>2. Len(b) >= 7 => b[7].u = "eol"
        BY <3>1, RequestSeen
      <3> QED BY <3>2
    <2>2. CASE k # 0
      <3>1. 1 \in 1..(3 * k) /\ 1 \in 1..k /\ 6 + 1 = 7 /\ 3 * 1 - 2 = 1
        BY <2>2
      <3>2. Len(b) >= 6 + 1 => b[6 + 1] = HeaderLines(m)[1]
        BY <3>1, RequestSeen
      <3>3. HeaderLines(m)[3 * 1 - 2].u = "field"
        BY <3>1 DEF Lines
      <3> QED BY <3>1, <3>2, <3>3
    <2> QED BY <2>1, <2>2
  <1>4. Len(b) \in Nat
    OBVIOUS
  <1>5. /\ Len(b) < 0 + 2 => ParseToken(From(b, 0 + 1)) = Failed
        /\ Len(b) >= 0 + 2 =>
             ParseToken(From(b, 0 + 1)) =
               [value |-> <<b[0 + 1]>>,
                rest |-> IF b[0 + 2].u = "space" THEN From(b, 0 + 3) ELSE From(b, 0 + 2)]
    <2>1. /\ 0 \in Nat /\ 0 <= Len(b)
          /\ Len(b) >= 0 + 1 => b[0 + 1].u = "word"
          /\ Len(b) >= 0 + 2 => b[0 + 2].u \in {"space", "eol"}
          /\ Len(b) >= 0 + 3 => b[0 + 3].u # "space"
      BY <1>2, <1>4
    <2> QED BY <2>1, WordTaken
  <1>6. ASSUME Len(b) >= 2
        PROVE  /\ Len(b) < 2 + 2 => ParseToken(From(b, 2 + 1)) = Failed
               /\ Len(b) >= 2 + 2 =>
                    ParseToken(From(b, 2 + 1)) =
                      [value |-> <<b[2 + 1]>>,
                       rest |-> IF b[2 + 2].u = "space" THEN From(b, 2 + 3) ELSE From(b, 2 + 2)]
    <2>1. /\ 2 \in Nat /\ 2 <= Len(b)
          /\ Len(b) >= 2 + 1 => b[2 + 1].u = "word"
          /\ Len(b) >= 2 + 2 => b[2 + 2].u \in {"space", "eol"}
          /\ Len(b) >= 2 + 3 => b[2 + 3].u # "space"
      BY <1>2, <1>4, <1>6
    <2> QED BY <2>1, WordTaken
  <1>7. ASSUME Len(b) >= 4
        PROVE  /\ Len(b) < 4 + 2 => ParseToken(From(b, 4 + 1)) = Failed
               /\ Len(b) >= 4 + 2 =>
                    ParseToken(From(b, 4 + 1)) =
                      [value |-> <<b[4 + 1]>>,
                       rest |-> IF b[4 + 2].u = "space" THEN From(b, 4 + 3) ELSE From(b, 4 + 2)]
    <2>1. /\ 4 \in Nat /\ 4 <= Len(b)
          /\ Len(b) >= 4 + 1 => b[4 + 1].u = "word"
          /\ Len(b) >= 4 + 2 => b[4 + 2].u \in {"space", "eol"}
          /\ Len(b) >= 4 + 3 => b[4 + 3].u # "space"
      BY <1>2, <1>3, <1>4, <1>7
    <2> QED BY <2>1, WordTaken
  <1>8. From(b, 1) = b
    BY SubSeqFull DEF From
  <1>9. /\ 0 + 1 = 1 /\ 0 + 2 = 2 /\ 0 + 3 = 3 /\ 2 + 1 = 3 /\ 2 + 2 = 4 /\ 2 + 3 = 5
        /\ 4 + 1 = 5 /\ 4 + 2 = 6 /\ 4 + 3 = 7
    OBVIOUS
  <1>10. /\ Len(b) < 2 => ParseToken(b) = Failed
         /\ Len(b) >= 2 => ParseToken(b) = [value |-> <<Word(m.method, 0)>>, rest |-> From(b, 3)]
    <2>1. Len(b) >= 2 => Len(b) >= 1
      BY <1>4
    <2> QED BY <1>2, <1>5, <1>8, <1>9, <2>1
  <1>11. /\ Len(b) \in 2..3 => ParseToken(From(b, 3)) = Failed
         /\ Len(b) >= 4 => ParseToken(From(b, 3)) =
                             [value |-> <<Word(m.uri, m.skip)>>, rest |-> From(b, 5)]
    <2>1. /\ Len(b) \in 2..3 => Len(b) >= 2 /\ Len(b) < 4
          /\ Len(b) >= 4 => Len(b) >= 2 /\ Len(b) >= 3
      <3>1. PICK l \in Nat : l = Len(b)
        BY <1>4
      <3>2. /\ l \in 2..3 => l >= 2 /\ l < 4
            /\ l >= 4 => l >= 2 /\ l >= 3
        OBVIOUS
      <3> QED BY <3>1, <3>2
    <2> QED BY <1>2, <1>6, <1>9, <2>1
  <1>12. /\ Len(b) \in 4..5 => ParseToken(From(b, 5)) = Failed
         /\ Len(b) >= 6 => ParseToken(From(b, 5)) =
                             [value |-> <<Word("HTTP/1.1", 0)>>, rest |-> From(b, 6)]
    <2>1. /\ Len(b) \in 4..5 => Len(b) >= 4 /\ Len(b) < 6
          /\ Len(b) >= 6 => Len(b) >= 4 /\ Len(b) >= 5
      <3>1. PICK l \in Nat : l = Len(b)
        BY <1>4
      <3>2. /\ l \in 4..5 => l >= 4 /\ l < 6
            /\ l >= 6 => l >= 4 /\ l >= 5
        OBVIOUS
      <3> QED BY <3>1, <3>2
    <2> QED BY <1>2, <1>7, <1>9, <2>1
  <1> QED BY <1>10, <1>11, <1>12

\* The headers and the empty line, as far as they have come.
LEMMA HeadersTaken ==
  ASSUME NEW m \in Requests, NEW k \in Nat, Lines(HeaderLines(m), k),
         NEW b \in Seq(Units), Agree(b, Encode(m)), Len(b) >= 6
  PROVE  LET c == From(b, 7) IN
           /\ c \in Seq(Units) /\ Len(c) = Len(b) - 6 /\ Agree(c, HeaderLines(m))
           /\ Len(b) < 7 + 3 * k => ParseHeaders(c) = Failed
           /\ Len(b) >= 7 + 3 * k =>
                ParseHeaders(c) = [value |-> [j \in 1..k |-> SubSeq(c, 3 * j - 2, 3 * j - 1)],
                                   rest |-> From(b, 7 + 3 * k)]
  <1> DEFINE c == From(b, 7)
             h == HeaderLines(m)
  <1>1. Len(b) \in Nat /\ h \in Seq(Units) /\ Len(h) = 3 * k
    BY DEF Lines
  <1>2. /\ c \in Seq(Units) /\ Len(c) = Len(b) - 6
        /\ \A j \in 1..(Len(b) - 6) : c[j] = b[6 + j]
    <2>1. 7 \in Nat \ {0} /\ 7 <= Len(b) + 1
      BY <1>1
    <2>2. /\ c \in Seq(Units) /\ Len(c) = Len(b) + 1 - 7
          /\ \A j \in 1..(Len(b) + 1 - 7) : c[j] = b[7 + j - 1]
      BY <2>1, FromProperties
    <2> HIDE DEF c
    <2>3. \A j \in 1..(Len(b) - 6) : j \in 1..(Len(b) + 1 - 7) /\ 7 + j - 1 = 6 + j
      BY <1>1
    <2> QED BY <1>1, <2>2, <2>3
  <1>3. Len(b) >= 7 + 3 * k => From(c, 3 * k + 1) = From(b, 7 + 3 * k)
    <2>1. ASSUME Len(b) >= 7 + 3 * k PROVE From(c, 3 * k + 1) = From(b, 7 + (3 * k + 1) - 1)
      <3>1. 7 \in Nat \ {0} /\ 3 * k + 1 \in Nat \ {0} /\ 7 + (3 * k + 1) <= Len(b) + 2
        BY <1>1, <2>1
      <3> QED BY <3>1, FromFrom
    <2>2. 7 + (3 * k + 1) - 1 = 7 + 3 * k
      OBVIOUS
    <2> HIDE DEF c
    <2> QED BY <2>1, <2>2
  <1> HIDE DEF c, h
  <1>4. Agree(c, h)
    <2> SUFFICES ASSUME NEW j \in 1..Len(c), j <= Len(h) PROVE c[j] = h[j]
      BY DEF Agree
    <2>1. j \in 1..(3 * k) /\ Len(b) >= 6 + j /\ j \in 1..(Len(b) - 6)
      BY <1>1, <1>2
    <2>2. b[6 + j] = h[j]
      BY <2>1, RequestSeen DEF h
    <2> QED BY <1>2, <2>1, <2>2
  <1>5. Lines(h, k)
    BY DEF h
  <1>6. ASSUME Len(b) < 7 + 3 * k PROVE ParseHeaders(c) = Failed
    <2>1. Len(c) <= 3 * k
      BY <1>1, <1>2, <1>6
    <2> QED BY <1>1, <1>2, <1>4, <1>5, <2>1, HeadersOpen
  <1>7. ASSUME Len(b) >= 7 + 3 * k
        PROVE  ParseHeaders(c) = [value |-> [j \in 1..k |-> SubSeq(c, 3 * j - 2, 3 * j - 1)],
                                  rest |-> From(c, 3 * k + 1)]
    <2>1. Len(c) > 3 * k /\ 3 * k + 1 \in 1..(Len(b) - 6) /\ 6 + (3 * k + 1) = 7 + 3 * k
      BY <1>1, <1>2, <1>7
    <2>2. b[7 + 3 * k].u = "eol"
      BY <1>7, RequestSeen
    <2>3. c[3 * k + 1].u = "eol"
      BY <1>2, <2>1, <2>2
    <2> QED BY <1>1, <1>2, <1>4, <1>5, <2>1, <2>3, HeadersClosed
  <1> QED BY <1>2, <1>3, <1>4, <1>6, <1>7 DEF c, h

\* A set of numbers has a least one.
LEMMA MinExists ==
  ASSUME NEW T, T \subseteq Nat, T # {}
  PROVE  Min(T) \in T
  <1>1. PICK m \in T : \A n \in T : m <= n
    BY LeastNumber
  <1>2. T \subseteq Int
    OBVIOUS
  <1>3. Min(T) = m
    BY <1>1, <1>2, MinIs
  <1> QED BY <1>3

\* The greatest of some numbers, if one of them is known to be.
LEMMA MaxIs ==
  ASSUME NEW T, T \subseteq Int, NEW m \in T, \A n \in T : m >= n
  PROVE  Max(T) = m
  <1>1. Max(T) \in T /\ \A n \in T : Max(T) >= n
    BY DEF Max
  <1>2. Max(T) \in Int /\ m \in Int /\ Max(T) >= m /\ m >= Max(T)
    BY <1>1
  <1> QED BY <1>2

\* What ParseHeaders took, looked up.
LEMMA LengthFound ==
  ASSUME NEW m \in Requests, NEW k \in Nat, Lines(HeaderLines(m), k),
         Says(HeaderLines(m), k) =
           {<<x, 0>> : x \in m.headers}
             \cup (IF m.length # 0 THEN {<<"content-length", m.length>>} ELSE {}),
         NEW c \in Seq(Units), Agree(c, HeaderLines(m)), Len(c) > 3 * k
  PROVE  LET value == [j \in 1..k |-> SubSeq(c, 3 * j - 2, 3 * j - 1)] IN
           /\ FindContentLength(value) = m.length
           /\ {g[1].name : g \in ToSet(value)} \ {"content-length"} = m.headers
  <1> DEFINE h == HeaderLines(m)
             value == [j \in 1..k |-> SubSeq(c, 3 * j - 2, 3 * j - 1)]
             found == {i \in DOMAIN value : value[i][1].name = "content-length"}
             pair(j) == <<value[j][1].name, value[j][2].n>>
  <1>1. \A j \in 1..k : value[j][1] = h[3 * j - 2] /\ value[j][2] = h[3 * j - 1]
    <2>1. h \in Seq(Units)
      BY DEF Lines
    <2>2. ASSUME NEW j \in 1..k
          PROVE  /\ SubSeq(c, 3 * j - 2, 3 * j - 1)[1] = h[3 * j - 2]
                 /\ SubSeq(c, 3 * j - 2, 3 * j - 1)[2] = h[3 * j - 1]
      BY <2>1, HeadersRead
    <2> QED BY <2>2
  <1>2. DOMAIN value = 1..k
    OBVIOUS
  <1>3. m.headers \subseteq {"upgrade", "sec-websocket-key"}
    BY MessagesAssumption
  <1> HIDE DEF h, value
  <1>4. {pair(j) : j \in 1..k} = Says(h, k)
    BY <1>1 DEF Says
  <1>5. Says(h, k) = {<<x, 0>> : x \in m.headers}
                       \cup (IF m.length # 0 THEN {<<"content-length", m.length>>} ELSE {})
    BY DEF h
  <1>6. ASSUME NEW j \in 1..k
        PROVE  \/ value[j][1].name \in m.headers
               \/ m.length # 0 /\ value[j][1].name = "content-length" /\ value[j][2].n = m.length
    <2>1. pair(j) \in Says(h, k)
      BY <1>4
    <2>2. \/ \E x \in m.headers : pair(j) = <<x, 0>>
          \/ m.length # 0 /\ pair(j) = <<"content-length", m.length>>
      BY <1>5, <2>1
    <2> QED BY <2>2
  <1>7. ASSUME NEW x \in m.headers PROVE \E j \in 1..k : value[j][1].name = x
    <2>1. <<x, 0>> \in {pair(j) : j \in 1..k}
      BY <1>4, <1>5
    <2> QED BY <2>1
  <1>8. ASSUME m.length # 0 PROVE \E j \in 1..k : value[j][1].name = "content-length"
    <2>1. <<"content-length", m.length>> \in {pair(j) : j \in 1..k}
      BY <1>4, <1>5, <1>8
    <2> QED BY <2>1
  <1>9. FindContentLength(value) = m.length
    <2>1. FindContentLength(value) = IF found = {} THEN 0 ELSE value[Min(found)][2].n
      BY DEF FindContentLength
    <2>2. CASE m.length = 0
      <3>1. found = {}
        BY <1>2, <1>3, <1>6, <2>2
      <3> QED BY <2>1, <2>2, <3>1
    <2>3. CASE m.length # 0
      <3>1. found # {} /\ found \subseteq Nat
        BY <1>2, <1>8, <2>3
      <3>2. Min(found) \in found
        <4> HIDE DEF found
        <4> QED BY <3>1, MinExists
      <3>3. value[Min(found)][2].n = m.length
        <4> DEFINE i == Min(found)
        <4>1. i \in 1..k /\ value[i][1].name = "content-length"
          BY <1>2, <3>2
        <4> HIDE DEF i
        <4>2. value[i][2].n = m.length
          BY <1>3, <1>6, <4>1
        <4> QED BY <4>2 DEF i
      <3> QED BY <2>1, <3>1, <3>3
    <2> QED BY <2>2, <2>3
  <1>10. {g[1].name : g \in ToSet(value)} \ {"content-length"} = m.headers
    <2>1. ToSet(value) = {value[j] : j \in 1..k}
      BY <1>2 DEF ToSet
    <2>2. ASSUME NEW g \in ToSet(value), g[1].name # "content-length" PROVE g[1].name \in m.headers
      BY <1>6, <2>1, <2>2
    <2>3. ASSUME NEW x \in m.headers
          PROVE  x # "content-length" /\ \E g \in ToSet(value) : g[1].name = x
      BY <1>3, <1>7, <2>1
    <2> QED BY <2>2, <2>3
  <1> QED BY <1>9, <1>10 DEF value

\* A request as it is made of its parts.
LEMMA RequestIsItsParts ==
  ASSUME NEW m \in Requests
  PROVE  /\ m = [method |-> m.method, uri |-> m.uri, skip |-> m.skip, headers |-> m.headers,
                 length |-> m.length]
         /\ m.length \in Int /\ m # None
  BY MessagesAssumption, NoneAssumption DEF NotANumber

\* The parser gives nothing before a request is complete, then the request
\* and what is behind it; one with an unknown method it never gives.
LEMMA RequestParsed ==
  ASSUME NEW m \in Requests, NEW b \in Seq(Units), Agree(b, Encode(m))
  PROVE  /\ Malformed(m) => HttpParse(b) = Nothing
         /\ Len(b) < Len(Encode(m)) => HttpParse(b) = Nothing
         /\ ~Malformed(m) /\ Len(b) >= Len(Encode(m)) =>
              HttpParse(b) = [message |-> m, rest |-> From(b, Len(Encode(m)) + 1)]
  <1> DEFINE h == HeaderLines(m)
             method == ParseToken(b)
             uri == ParseToken(method.rest)
             version == ParseToken(uri.rest)
             headers == ParseHeaders(ConsumeEndOfLine(version.rest))
             bodyRemaining == FindContentLength(headers.value)
             payload == ConsumeEndOfLine(headers.rest)
             bad == \/ method = Failed
                    \/ method.value \notin {<<Word(w, 0)>> : w \in HttpMethod}
                    \/ uri = Failed
                    \/ version = Failed
                    \/ ConsumeEndOfLine(version.rest) = None
                    \/ headers = Failed
                    \/ Len(payload) < bodyRemaining
             parsed == [message |-> [method  |-> method.value[1].name,
                                     uri     |-> uri.value[1].name,
                                     skip    |-> uri.value[1].n,
                                     headers |-> {g[1].name : g \in ToSet(headers.value)}
                                                   \ {"content-length"},
                                     length  |-> bodyRemaining],
                        rest |-> From(payload, Max({bodyRemaining, 0}) + 1)]
  <1>1. HttpParse(b) = IF bad THEN Nothing ELSE parsed
    BY DEF HttpParse
  <1>2. PICK k \in Nat :
          /\ Lines(h, k)
          /\ Says(h, k) = {<<x, 0>> : x \in m.headers}
                            \cup (IF m.length # 0 THEN {<<"content-length", m.length>>} ELSE {})
    BY HeadersSaid
  <1> DEFINE n == IF m.length > 0 THEN m.length ELSE 0
  <1>3. Len(b) \in Nat /\ n \in Nat /\ Len(Encode(m)) = 7 + 3 * k + n /\ m.length \in Int
    BY <1>2, RequestEncoded, RequestIsItsParts
  <1>4. /\ Len(b) < 2 => method = Failed
        /\ Len(b) >= 2 => method = [value |-> <<Word(m.method, 0)>>, rest |-> From(b, 3)]
        /\ Len(b) \in 2..3 => ParseToken(From(b, 3)) = Failed
        /\ Len(b) >= 4 => ParseToken(From(b, 3)) =
                            [value |-> <<Word(m.uri, m.skip)>>, rest |-> From(b, 5)]
        /\ Len(b) \in 4..5 => ParseToken(From(b, 5)) = Failed
        /\ Len(b) >= 6 => ParseToken(From(b, 5)) =
                            [value |-> <<Word("HTTP/1.1", 0)>>, rest |-> From(b, 6)]
    BY <1>2, RequestLineRead
  <1> HIDE DEF method
  <1>5. ASSUME Len(b) >= 2
        PROVE  method.value = <<Word(m.method, 0)>> /\ uri = ParseToken(From(b, 3))
    BY <1>4, <1>5
  <1>6. ASSUME Len(b) >= 4
        PROVE  /\ uri = [value |-> <<Word(m.uri, m.skip)>>, rest |-> From(b, 5)]
               /\ version = ParseToken(From(b, 5))
    <2>1. Len(b) >= 2
      BY <1>3, <1>6
    <2> QED BY <1>4, <1>5, <1>6, <2>1
  <1>7. ASSUME Len(b) >= 6
        PROVE  /\ version = [value |-> <<Word("HTTP/1.1", 0)>>, rest |-> From(b, 6)]
               /\ ConsumeEndOfLine(version.rest) = From(b, 7) /\ From(b, 7) # None
               /\ headers = ParseHeaders(From(b, 7))
    <2>1. Len(b) >= 4
      BY <1>3, <1>7
    <2>2. version = [value |-> <<Word("HTTP/1.1", 0)>>, rest |-> From(b, 6)]
      BY <1>4, <1>6, <1>7, <2>1
    <2>3. b[6].u = "eol"
      BY <1>2, <1>7, RequestSeen
    <2>4. ConsumeEndOfLine(From(b, 6)) = From(b, 6 + 1) /\ From(b, 6 + 1) # None
      BY <1>3, <1>7, <2>3, EndOfLineTaken
    <2>5. version.rest = From(b, 6)
      BY <2>2
    <2> HIDE DEF version
    <2> QED BY <2>2, <2>4, <2>5
  <1>8. ASSUME Malformed(m) PROVE HttpParse(b) = Nothing
    <2>1. CASE Len(b) < 2
      BY <1>1, <1>4, <2>1
    <2>2. CASE Len(b) >= 2
      <3>1. ASSUME NEW w \in HttpMethod PROVE <<Word(m.method, 0)>> # <<Word(w, 0)>>
        <4>1. w # m.method
          BY <1>8 DEF Malformed
        <4>2. Word(m.method, 0).name # Word(w, 0).name
          BY <4>1 DEF Word, Unit
        <4> QED BY <4>2
      <3>2. method.value \notin {<<Word(w, 0)>> : w \in HttpMethod}
        BY <1>5, <2>2, <3>1
      <3> QED BY <1>1, <3>2
    <2> QED BY <1>3, <2>1, <2>2
  <1> DEFINE c == From(b, 7)
             value == [j \in 1..k |-> SubSeq(c, 3 * j - 2, 3 * j - 1)]
  <1>9. ASSUME Len(b) >= 6
        PROVE  /\ c \in Seq(Units) /\ Len(c) = Len(b) - 6 /\ Agree(c, h)
               /\ Len(b) < 7 + 3 * k => headers = Failed
               /\ Len(b) >= 7 + 3 * k => headers = [value |-> value, rest |-> From(b, 7 + 3 * k)]
    <2>1. /\ c \in Seq(Units) /\ Len(c) = Len(b) - 6 /\ Agree(c, h)
          /\ Len(b) < 7 + 3 * k => ParseHeaders(c) = Failed
          /\ Len(b) >= 7 + 3 * k =>
               ParseHeaders(c) = [value |-> value, rest |-> From(b, 7 + 3 * k)]
      BY <1>2, <1>9, HeadersTaken
    <2>2. headers = ParseHeaders(c)
      BY <1>7, <1>9
    <2> HIDE DEF c, headers, value, h
    <2> QED BY <2>1, <2>2
  <1>10. ASSUME Len(b) >= 7 + 3 * k
         PROVE  /\ headers # Failed /\ bodyRemaining = m.length
                /\ {g[1].name : g \in ToSet(headers.value)} \ {"content-length"} = m.headers
                /\ payload = From(b, 8 + 3 * k) /\ payload \in Seq(Units)
                /\ Len(payload) = Len(b) - (7 + 3 * k)
    <2>1. Len(b) >= 6
      BY <1>3, <1>10
    <2>2. /\ c \in Seq(Units) /\ Len(c) > 3 * k /\ Agree(c, h)
          /\ headers = [value |-> value, rest |-> From(b, 7 + 3 * k)]
      <3>1. c \in Seq(Units) /\ Len(c) = Len(b) - 6 /\ Agree(c, h)
            /\ headers = [value |-> value, rest |-> From(b, 7 + 3 * k)]
        BY <1>9, <1>10, <2>1
      <3> HIDE DEF c, headers, value, h
      <3> QED BY <1>3, <1>10, <3>1
    <2>3. /\ FindContentLength(value) = m.length
          /\ {g[1].name : g \in ToSet(value)} \ {"content-length"} = m.headers
      BY <1>2, <2>2, LengthFound
    <2>4. b[7 + 3 * k].u = "eol"
      BY <1>2, <1>10, RequestSeen
    <2>5. 7 + 3 * k \in Nat \ {0} /\ 7 + 3 * k + 1 = 8 + 3 * k
      OBVIOUS
    <2>6. ConsumeEndOfLine(From(b, 7 + 3 * k)) = From(b, 8 + 3 * k)
      <3>1. ConsumeEndOfLine(From(b, 7 + 3 * k)) = From(b, 7 + 3 * k + 1)
        BY <1>10, <2>4, <2>5, EndOfLineTaken
      <3> QED BY <2>5, <3>1
    <2>7. From(b, 8 + 3 * k) \in Seq(Units) /\ Len(From(b, 8 + 3 * k)) = Len(b) + 1 - (8 + 3 * k)
      <3>1. 8 + 3 * k \in Nat \ {0} /\ 8 + 3 * k <= Len(b) + 1
        BY <1>3, <1>10
      <3> QED BY <3>1, FromProperties
    <2>8. Len(b) + 1 - (8 + 3 * k) = Len(b) - (7 + 3 * k)
      BY <1>3
    <2>9. value # None
      <3>1. ASSUME NEW j \in 1..k PROVE SubSeq(c, 3 * j - 2, 3 * j - 1) \in Seq(Units)
        <4> DEFINE a == 3 * j - 2
                   e == 3 * j - 1
        <4>1. a \in Int /\ e \in Int /\ \A i \in a..e : i \in 1..Len(c)
          BY <2>2
        <4> HIDE DEF a, e, c
        <4>2. \A i \in a..e : c[i] \in Units
          BY <2>2, <4>1
        <4>3. SubSeq(c, a, e) \in Seq(Units)
          BY <4>1, <4>2, SubSeqProperties
        <4> QED BY <4>3 DEF a, e
      <3>2. value \in Seq(Seq(Units))
        BY <3>1
      <3> HIDE DEF value
      <3> QED BY <3>2, NoneAssumption
    <2>10. headers # Failed
      BY <2>2, <2>9 DEF Failed
    <2>11. headers.value = value /\ headers.rest = From(b, 7 + 3 * k)
      <3> HIDE DEF headers, value
      <3> QED BY <2>2
    <2> HIDE DEF headers, value
    <2> QED BY <2>3, <2>6, <2>7, <2>8, <2>10, <2>11
  <1>11. ASSUME Len(b) < Len(Encode(m)) PROVE HttpParse(b) = Nothing
    <2>1. CASE Len(b) < 2
      BY <1>1, <1>4, <2>1
    <2>2. CASE Len(b) \in 2..3
      <3>1. Len(b) >= 2
        <4>1. PICK l \in 2..3 : l = Len(b)
          BY <2>2
        <4> QED BY <4>1
      <3>2. uri = Failed
        BY <1>4, <1>5, <2>2, <3>1
      <3> QED BY <1>1, <3>2
    <2>3. CASE Len(b) \in 4..5
      <3>1. Len(b) >= 4
        <4>1. PICK l \in 4..5 : l = Len(b)
          BY <2>3
        <4> QED BY <4>1
      <3>2. version = Failed
        BY <1>4, <1>6, <2>3, <3>1
      <3> QED BY <1>1, <3>2
    <2>4. CASE Len(b) >= 6 /\ Len(b) < 7 + 3 * k
      <3>1. headers = Failed
        BY <1>9, <2>4
      <3> QED BY <1>1, <3>1
    <2>5. CASE Len(b) >= 7 + 3 * k
      <3>1. Len(payload) = Len(b) - (7 + 3 * k) /\ bodyRemaining = m.length
        BY <1>10, <2>5
      <3>2. Len(b) - (7 + 3 * k) < m.length
        BY <1>3, <1>11, <2>5
      <3>3. Len(payload) < bodyRemaining
        BY <3>1, <3>2
      <3> QED BY <1>1, <3>3
    <2> HIDE DEF headers, payload, bodyRemaining, bad, parsed, uri, version
    <2>6. Len(b) < 2 \/ Len(b) \in 2..3 \/ Len(b) \in 4..5 \/ (Len(b) >= 6 /\ Len(b) < 7 + 3 * k)
            \/ Len(b) >= 7 + 3 * k
      <3>1. PICK l \in Nat : l = Len(b)
        BY <1>3
      <3>2. l < 2 \/ l \in 2..3 \/ l \in 4..5 \/ (l >= 6 /\ l < 7 + 3 * k) \/ l >= 7 + 3 * k
        OBVIOUS
      <3> QED BY <3>1, <3>2
    <2> QED BY <2>1, <2>2, <2>3, <2>4, <2>5, <2>6
  <1>12. ASSUME ~Malformed(m), Len(b) >= Len(Encode(m))
         PROVE  HttpParse(b) = [message |-> m, rest |-> From(b, Len(Encode(m)) + 1)]
    <2>1. Len(b) >= 7 + 3 * k /\ Len(b) >= 6 /\ Len(b) >= 4 /\ Len(b) >= 2
      BY <1>3, <1>12
    <2>2. ASSUME NEW w \in Units PROVE <<w>> # None
      <3>1. <<w>> \in Seq(Units)
        OBVIOUS
      <3> QED BY <3>1, NoneAssumption
    <2>3. /\ method = [value |-> <<Word(m.method, 0)>>, rest |-> From(b, 3)]
          /\ uri = [value |-> <<Word(m.uri, m.skip)>>, rest |-> From(b, 5)]
          /\ version = [value |-> <<Word("HTTP/1.1", 0)>>, rest |-> From(b, 6)]
          /\ ConsumeEndOfLine(version.rest) # None
      BY <1>4, <1>6, <1>7, <2>1
    <2>4. /\ headers # Failed /\ bodyRemaining = m.length
          /\ {g[1].name : g \in ToSet(headers.value)} \ {"content-length"} = m.headers
          /\ payload = From(b, 8 + 3 * k) /\ Len(payload) = Len(b) - (7 + 3 * k)
      BY <1>10, <2>1
    <2>5. m = [method |-> m.method, uri |-> m.uri, skip |-> m.skip, headers |-> m.headers,
               length |-> m.length]
      BY RequestIsItsParts
    <2>6. /\ Word(m.method, 0) \in Units /\ Word(m.uri, m.skip) \in Units
          /\ Word("HTTP/1.1", 0) \in Units
          /\ \A w, l : Word(w, l).u = "word" /\ Word(w, l).name = w /\ Word(w, l).n = l
      BY RequestUnits
    <2>7. Max({m.length, 0}) = n
      <3>1. n \in {m.length, 0} /\ {m.length, 0} \subseteq Int /\ \A x \in {m.length, 0} : n >= x
        BY <1>3
      <3> HIDE DEF n
      <3> QED BY <1>3, <3>1, MaxIs
    <2> HIDE DEF method, uri, version, headers, bodyRemaining, payload, n
    <2>8. /\ method.value = <<Word(m.method, 0)>> /\ uri.value = <<Word(m.uri, m.skip)>>
          /\ method # Failed /\ uri # Failed /\ version # Failed
      BY <2>2, <2>3, <2>6 DEF Failed
    <2>9. method.value \in {<<Word(w, 0)>> : w \in HttpMethod}
      BY <1>12, <2>8, RequestsAreNoFrames DEF Malformed
    <2>10. ~ (Len(payload) < bodyRemaining)
      <3>1. Len(b) - (7 + 3 * k) >= n /\ n >= m.length
        BY <1>3, <1>12 DEF n
      <3>2. ~ (Len(b) - (7 + 3 * k) < m.length)
        BY <1>3, <3>1
      <3> QED BY <2>4, <3>2
    <2>11. ~bad
      BY <2>3, <2>4, <2>8, <2>9, <2>10
    <2>12. method.value[1].name = m.method /\ uri.value[1].name = m.uri /\ uri.value[1].n = m.skip
      BY <2>6, <2>8
    <2>13. parsed.message = m
      BY <2>4, <2>5, <2>12
    <2>14. parsed.rest = From(b, Len(Encode(m)) + 1)
      <3>1. parsed.rest = From(From(b, 8 + 3 * k), n + 1)
        BY <2>4, <2>7
      <3>2. /\ 8 + 3 * k \in Nat \ {0} /\ n + 1 \in Nat \ {0} /\ (8 + 3 * k) + (n + 1) <= Len(b) + 2
            /\ (8 + 3 * k) + (n + 1) - 1 = Len(Encode(m)) + 1
        BY <1>3, <1>12
      <3> HIDE DEF parsed
      <3>3. From(From(b, 8 + 3 * k), n + 1) = From(b, (8 + 3 * k) + (n + 1) - 1)
        BY <3>2, FromFrom
      <3> QED BY <3>1, <3>2, <3>3
    <2>15. HttpParse(b) = parsed
      BY <1>1, <2>11
    <2>16. parsed = [message |-> parsed.message, rest |-> parsed.rest]
      OBVIOUS
    <2> HIDE DEF parsed, bad
    <2> QED BY <2>13, <2>14, <2>15, <2>16
  <1> QED BY <1>8, <1>11, <1>12

-----------------------------------------------------------------------------
(* The websocket parser.                                                   *)

\* The numbers in the fixed part of a frame.
LEMMA FrameNumbers ==
  ASSUME NEW l \in Nat, NEW o \in 0..15
  PROVE  (l * 16 + o) \div 16 = l /\ (l * 16 + o) % 16 = o /\ l * 16 + o \in Int
  OBVIOUS

\* A frame is its fixed part and its payload.
LEMMA FrameEncoded ==
  ASSUME NEW f \in Frames
  PROVE  /\ Encode(f) \in Seq(Units) /\ Len(Encode(f)) = 1 + f.length
         /\ Encode(f)[1] = FrameHead(f)
         /\ f.length \in Nat /\ f.opcode \in 0..15 /\ f = [opcode |-> f.opcode, length |-> f.length]
         /\ FrameHead(f).u = "frame" /\ FrameHead(f).n = f.length * 16 + f.opcode
  <1> DEFINE s == <<FrameHead(f)>>
             d == Bytes(f.length)
  <1>1. /\ f.length \in Nat /\ f.opcode \in 0..15
        /\ f = [opcode |-> f.opcode, length |-> f.length]
    BY MessagesAssumption
  <1>2. FrameHead(f) = [u |-> "frame", name |-> "", n |-> f.length * 16 + f.opcode]
    BY DEF FrameHead, Unit
  <1>3. PICK x \in Texts, z \in Int : x = "" /\ z = 0
    <2>1. "" \in Texts
      BY DEF Texts
    <2>2. PICK z \in Int : z = 0
      OBVIOUS
    <2> QED BY <2>1, <2>2
  <1>4. FrameHead(f) \in Units /\ Byte \in Units
    <2>1. PICK y \in Int : y = f.length * 16 + f.opcode
      BY <1>1, FrameNumbers
    <2>2. [u |-> "frame", name |-> x, n |-> y] \in Units /\ [u |-> "byte", name |-> x, n |-> z] \in Units
      BY DEF Units
    <2>3. Byte = [u |-> "byte", name |-> x, n |-> z]
      BY <1>3 DEF Byte, Unit
    <2> QED BY <1>2, <1>3, <2>1, <2>2, <2>3
  <1>5. s \in Seq(Units) /\ Len(s) = 1 /\ s[1] = FrameHead(f)
    BY <1>4
  <1>6. d \in Seq(Units) /\ Len(d) = f.length
    BY <1>1, <1>4 DEF Bytes
  <1>7. Encode(f) = s \o d
    BY DEF Encode, IsFrame
  <1> HIDE DEF s, d
  <1>8. /\ s \o d \in Seq(Units) /\ Len(s \o d) = Len(s) + Len(d)
        /\ \A i \in 1..(Len(s) + Len(d)) : (s \o d)[i] = IF i <= Len(s) THEN s[i] ELSE d[i - Len(s)]
    BY <1>5, <1>6, ConcatProperties
  <1>9. (s \o d)[1] = s[1]
    <2>1. 1 \in 1..(Len(s) + Len(d)) /\ 1 <= Len(s)
      BY <1>1, <1>5, <1>6
    <2> QED BY <1>8, <2>1
  <1>10. FrameHead(f).u = "frame" /\ FrameHead(f).n = f.length * 16 + f.opcode
    <2>1. PICK y \in Int : y = f.length * 16 + f.opcode
      BY <1>1, FrameNumbers
    <2>2. PICK head : head = [u |-> "frame", name |-> "", n |-> y]
      OBVIOUS
    <2>3. head.u = "frame" /\ head.n = y
      BY <2>2
    <2>4. FrameHead(f) = head
      BY <1>2, <2>1, <2>2
    <2> QED BY <2>1, <2>3, <2>4
  <1> QED BY <1>1, <1>5, <1>6, <1>7, <1>8, <1>9, <1>10

\* The parser gives nothing before a frame is complete, then the frame and
\* what is behind it.
LEMMA FrameParsed ==
  ASSUME NEW f \in Frames, NEW b \in Seq(Units), Agree(b, Encode(f))
  PROVE  /\ Len(b) < Len(Encode(f)) => WebsocketParse(b) = Nothing
         /\ Len(b) >= Len(Encode(f)) =>
              WebsocketParse(b) = [message |-> f, rest |-> From(b, Len(Encode(f)) + 1)]
  <1> DEFINE e == Encode(f)
  <1>1. /\ Len(e) = 1 + f.length /\ e[1] = FrameHead(f) /\ f.length \in Nat /\ f.opcode \in 0..15
        /\ f = [opcode |-> f.opcode, length |-> f.length]
        /\ FrameHead(f).u = "frame" /\ FrameHead(f).n = f.length * 16 + f.opcode
    BY FrameEncoded
  <1> HIDE DEF e
  <1>2. CASE b = <<>>
    <2>1. Len(b) < Len(e)
      BY <1>1, <1>2
    <2>2. WebsocketParse(b) = Nothing
      BY <1>2 DEF WebsocketParse
    <2> QED BY <1>1, <2>1, <2>2 DEF e
  <1>3. CASE b # <<>>
    <2>1. Len(b) \in Nat \ {0} /\ 1 \in 1..Len(b) /\ 1 <= Len(e)
      BY <1>1, <1>3
    <2>2. b[1] = FrameHead(f)
      BY <1>1, <2>1 DEF Agree, e
    <2>3. b[1].u = "frame" /\ b[1].n \div 16 = f.length /\ b[1].n % 16 = f.opcode
      <3>1. b[1].n = f.length * 16 + f.opcode
        BY <1>1, <2>2
      <3>2. /\ (f.length * 16 + f.opcode) \div 16 = f.length
            /\ (f.length * 16 + f.opcode) % 16 = f.opcode
        BY <1>1, FrameNumbers
      <3> QED BY <1>1, <2>2, <3>1, <3>2
    <2>4. WebsocketParse(b) =
            IF Len(b) - 1 < f.length THEN Nothing
            ELSE [message |-> [opcode |-> f.opcode, length |-> f.length], rest |-> From(b, 2 + f.length)]
      BY <1>3, <2>3 DEF WebsocketParse
    <2>5. /\ Len(b) < Len(e) <=> Len(b) - 1 < f.length
          /\ 2 + f.length = Len(e) + 1
          /\ Len(b) >= Len(e) => ~ (Len(b) - 1 < f.length)
      BY <1>1, <2>1
    <2> QED BY <1>1, <2>4, <2>5 DEF e
  <1> QED BY <1>2, <1>3

-----------------------------------------------------------------------------
(* Both parsers.                                                           *)

\* A layer's parser, on a buffer that begins like the message that comes
\* next, takes nothing until the message is complete, and then exactly it.
LEMMA MessageParsed ==
  ASSUME NEW m \in Requests \cup Frames, NEW b \in Seq(Units), Agree(b, Encode(m)),
         NEW p, p = IF IsFrame(m) THEN WebsocketParse(b) ELSE HttpParse(b)
  PROVE  /\ Malformed(m) \/ Len(b) < Len(Encode(m)) => p = Nothing
         /\ ~Malformed(m) /\ Len(b) >= Len(Encode(m)) =>
              p # Nothing /\ p.message = m /\ p.rest = From(b, Len(Encode(m)) + 1)
         /\ Encode(m) \in Seq(Units) /\ Len(Encode(m)) >= 1
  <1>1. m # None
    BY NoneAssumption
  <1>2. CASE IsFrame(m)
    <2>1. m \in Frames /\ ~Malformed(m)
      BY <1>2 DEF IsFrame, Malformed
    <2>2. Encode(m) \in Seq(Units) /\ Len(Encode(m)) >= 1
      <3>1. Encode(m) \in Seq(Units) /\ Len(Encode(m)) = 1 + m.length /\ m.length \in Nat
        BY <2>1, FrameEncoded
      <3> QED BY <3>1
    <2>3. /\ Len(b) < Len(Encode(m)) => p = Nothing
          /\ Len(b) >= Len(Encode(m)) => p = [message |-> m, rest |-> From(b, Len(Encode(m)) + 1)]
      BY <1>2, <2>1, FrameParsed
    <2> QED BY <1>1, <2>1, <2>2, <2>3 DEF Nothing
  <1>3. CASE ~IsFrame(m)
    <2>1. m \in Requests
      BY <1>3 DEF IsFrame
    <2>2. Encode(m) \in Seq(Units) /\ Len(Encode(m)) >= 1
      <3>1. PICK k \in Nat : Lines(HeaderLines(m), k)
        BY <2>1, HeadersSaid
      <3>2. Encode(m) \in Seq(Units) /\ Len(Encode(m)) = 7 + 3 * k + (IF m.length > 0 THEN m.length ELSE 0)
        BY <2>1, <3>1, RequestEncoded
      <3>3. m.length \in Int
        BY <2>1, RequestIsItsParts
      <3> QED BY <3>2, <3>3
    <2>3. /\ Malformed(m) => p = Nothing
          /\ Len(b) < Len(Encode(m)) => p = Nothing
          /\ ~Malformed(m) /\ Len(b) >= Len(Encode(m)) =>
               p = [message |-> m, rest |-> From(b, Len(Encode(m)) + 1)]
      BY <1>3, <2>1, RequestParsed
    <2> QED BY <1>1, <2>2, <2>3 DEF Nothing
  <1> QED BY <1>2, <1>3

Messages == Requests \cup Frames

-----------------------------------------------------------------------------
(* The messages that wait, and their units.                                *)

\* The units of one message,
LEMMA MessageEncoded ==
  ASSUME NEW m \in Messages
  PROVE  Encode(m) \in Seq(Units) /\ Len(Encode(m)) \in Nat /\ Len(Encode(m)) >= 1
  <1>1. PICK b : b = <<>>
    OBVIOUS
  <1>2. b \in Seq(Units) /\ Len(b) = 0
    BY <1>1, EmptySeq
  <1>3. Agree(b, Encode(m))
    BY <1>2 DEF Agree
  <1>4. PICK p : p = IF IsFrame(m) THEN WebsocketParse(b) ELSE HttpParse(b)
    OBVIOUS
  <1>5. Encode(m) \in Seq(Units) /\ Len(Encode(m)) >= 1
    BY <1>2, <1>3, <1>4, MessageParsed DEF Messages
  <1> QED BY <1>5, LenProperties

\* of no message,
LEMMA EncodingEmpty == Encoding(<<>>) = <<>>
  <1>1. [i \in DOMAIN <<>> |-> Encode(<<>>[i])] = <<>>
    OBVIOUS
  <1> QED BY <1>1, FlattenEmpty DEF Encoding

\* of each of several,
LEMMA Encoded ==
  ASSUME NEW r \in Seq(Messages)
  PROVE  /\ [i \in DOMAIN r |-> Encode(r[i])] \in Seq(Seq(Units))
         /\ Len([i \in DOMAIN r |-> Encode(r[i])]) = Len(r)
  <1>1. DOMAIN r = 1..Len(r) /\ Len(r) \in Nat /\ \A i \in 1..Len(r) : r[i] \in Messages
    BY LenProperties, ElementOfSeq
  <1>2. \A i \in 1..Len(r) : Encode(r[i]) \in Seq(Units)
    BY <1>1, MessageEncoded
  <1> QED BY <1>1, <1>2

\* and of one more.
LEMMA EncodingAppend ==
  ASSUME NEW r \in Seq(Messages), NEW m \in Messages
  PROVE  Encoding(Append(r, m)) = Encoding(r) \o Encode(m)
  <1> DEFINE q == Append(r, m)
             e == [i \in DOMAIN r |-> Encode(r[i])]
             f == [i \in DOMAIN q |-> Encode(q[i])]
             g == Append(e, Encode(m))
  <1>1. /\ q \in Seq(Messages) /\ Len(q) = Len(r) + 1 /\ Len(r) \in Nat
        /\ \A i \in 1..Len(r) : q[i] = r[i]
        /\ q[Len(r) + 1] = m
    BY AppendProperties, LenProperties
  <1>2. /\ DOMAIN q = 1..(Len(r) + 1) /\ DOMAIN r = 1..Len(r)
    BY <1>1, LenProperties
  <1>3. e \in Seq(Seq(Units)) /\ Len(e) = Len(r)
    BY Encoded
  <1>4. f \in Seq(Seq(Units)) /\ Len(f) = Len(r) + 1
    BY <1>1, Encoded
  <1>5. Encode(m) \in Seq(Units)
    BY MessageEncoded
  <1>6. /\ g \in Seq(Seq(Units)) /\ Len(g) = Len(r) + 1
        /\ \A i \in 1..Len(r) : g[i] = e[i]
        /\ g[Len(r) + 1] = Encode(m)
    BY <1>3, <1>5, AppendProperties
  <1>7. ASSUME NEW i \in 1..(Len(r) + 1) PROVE f[i] = g[i]
    <2>1. f[i] = Encode(q[i])
      BY <1>2
    <2>2. CASE i = Len(r) + 1
      BY <1>1, <1>6, <2>1, <2>2
    <2>3. CASE i # Len(r) + 1
      <3>1. i \in 1..Len(r)
        BY <1>1, <2>3
      <3>2. e[i] = Encode(r[i])
        BY <1>2, <3>1
      <3> QED BY <1>1, <1>6, <2>1, <3>1, <3>2
    <2> QED BY <2>2, <2>3
  <1> HIDE DEF f, g
  <1>8. f = g
    BY <1>4, <1>6, <1>7, SeqEqual
  <1>9. FlattenSeq(g) = FlattenSeq(e) \o Encode(m)
    BY <1>3, <1>5, FlattenAppend DEF g
  <1> QED BY <1>8, <1>9 DEF Encoding, f

\* The units of messages are units, and begin with those of the first.
LEMMA EncodingHead ==
  ASSUME NEW r \in Seq(Messages)
  PROVE  /\ Encoding(r) \in Seq(Units)
         /\ r # <<>> => /\ Encoding(From(r, 2)) \in Seq(Units)
                        /\ Encoding(r) = Encode(r[1]) \o Encoding(From(r, 2))
  <1> DEFINE e == [i \in DOMAIN r |-> Encode(r[i])]
             t == From(r, 2)
             f == [i \in DOMAIN t |-> Encode(t[i])]
  <1>1. e \in Seq(Seq(Units)) /\ Len(e) = Len(r)
    BY Encoded
  <1>2. Encoding(r) \in Seq(Units)
    BY <1>1, FlattenType DEF Encoding
  <1>3. ASSUME r # <<>>
        PROVE  /\ Encoding(t) \in Seq(Units)
               /\ Encoding(r) = Encode(r[1]) \o Encoding(t)
    <2>1. PICK l \in Nat : l = Len(r) /\ l >= 1 /\ DOMAIN r = 1..l
      <3>1. Len(r) \in Nat /\ DOMAIN r = 1..Len(r)
        BY LenProperties
      <3>2. Len(r) # 0
        BY <1>3, EmptySeq
      <3>3. Len(r) >= 1
        BY <3>1, <3>2
      <3> QED BY <3>1, <3>3, Zenon
    <2>2. /\ t \in Seq(Messages) /\ Len(t) = l - 1
          /\ \A j \in 1..(l - 1) : t[j] = r[j + 1]
      <3>1. 2 \in Nat \ {0} /\ 2 <= Len(r) + 1
        BY <2>1
      <3>2. /\ t \in Seq(Messages)
            /\ Len(t) = Len(r) + 1 - 2
            /\ \A j \in 1..(Len(r) + 1 - 2) : t[j] = r[2 + j - 1]
        BY <3>1, FromProperties
      <3>3. \A j \in 1..(l - 1) : 2 + j - 1 = j + 1
        OBVIOUS
      <3> HIDE DEF t
      <3> QED BY <2>1, <3>2, <3>3
    <2>3. f \in Seq(Seq(Units)) /\ Len(f) = l - 1
      BY <2>2, Encoded
    <2>4. e # <<>>
      BY <1>1, <2>1, EmptySeq
    <2>5. /\ Head(e) = e[1] /\ Tail(e) \in Seq(Seq(Units)) /\ Len(Tail(e)) = l - 1
          /\ \A i \in 1..(l - 1) : Tail(e)[i] = e[i + 1]
      BY <1>1, <2>1, <2>4, HeadTailProperties
    <2>6. ASSUME NEW i \in 1..(l - 1) PROVE f[i] = Tail(e)[i]
      <3>1. i \in DOMAIN t
        BY <2>2, LenProperties
      <3>2. i + 1 \in DOMAIN r
        BY <2>1
      <3>3. f[i] = Encode(t[i]) /\ e[i + 1] = Encode(r[i + 1])
        BY <3>1, <3>2
      <3> QED BY <2>2, <2>5, <3>3
    <2> HIDE DEF f
    <2>7. f = Tail(e)
      BY <2>3, <2>5, <2>6, SeqEqual
    <2>8. e[1] = Encode(r[1])
      BY <2>1
    <2>9. FlattenSeq(e) = Head(e) \o FlattenSeq(Tail(e))
      BY <1>1, <2>4, FlattenHead
    <2>10. FlattenSeq(f) \in Seq(Units)
      BY <2>3, FlattenType
    <2> QED BY <2>5, <2>7, <2>8, <2>9, <2>10 DEF Encoding, f
  <1> QED BY <1>2, <1>3

-----------------------------------------------------------------------------
(* Cutting the stream.                                                     *)

\* A sequence that begins another agrees with it,
LEMMA AgreeAtFirst ==
  ASSUME NEW b \in Seq(Units), NEW x \in Seq(Units), NEW e \in Seq(Units), NEW c \in Seq(Units),
         b \o x = e \o c
  PROVE  Agree(b, e)
  <1>1. \A i \in 1..Len(b) : (b \o x)[i] = b[i]
    BY ConcatProperties
  <1>2. \A i \in 1..Len(e) : (e \o c)[i] = e[i]
    BY ConcatProperties
  <1>3. ASSUME NEW i \in 1..Len(b), i <= Len(e) PROVE b[i] = e[i]
    <2>1. i \in 1..Len(e)
      BY <1>3, LenProperties
    <2> QED BY <1>1, <1>2, <2>1
  <1> QED BY <1>3 DEF Agree

\* and what is behind its beginning goes on like the other.
LEMMA CutAtFirst ==
  ASSUME NEW b \in Seq(Units), NEW x \in Seq(Units), NEW e \in Seq(Units), NEW c \in Seq(Units),
         b \o x = e \o c, Len(b) >= Len(e)
  PROVE  /\ From(b, Len(e) + 1) \in Seq(Units)
         /\ From(b, Len(e) + 1) \o x = c
  <1> DEFINE k == Len(e)
             l == Len(b)
             d == From(b, k + 1)
             f == SubSeq(b, 1, k)
  <1>1. k \in Nat /\ l \in Nat /\ k <= l
    BY LenProperties
  <1> HIDE DEF k, l
  <1>2. d \in Seq(Units)
    <2>1. k + 1 \in Nat \ {0} /\ k + 1 <= Len(b) + 1
      BY <1>1 DEF l
    <2> QED BY <2>1, FromProperties
  <1>3. f \in Seq(Units) /\ Len(f) = k /\ \A i \in 1..k : f[i] = b[i]
    <2>1. \A i \in 1..k : b[i] \in Units
      BY <1>1 DEF l
    <2>2. /\ SubSeq(b, 1, k) \in Seq(Units)
          /\ Len(SubSeq(b, 1, k)) = IF 1 <= k THEN k - 1 + 1 ELSE 0
          /\ \A i \in 1..(k - 1 + 1) : SubSeq(b, 1, k)[i] = b[1 + i - 1]
      BY <1>1, <2>1, SubSeqProperties
    <2>3. (IF 1 <= k THEN k - 1 + 1 ELSE 0) = k /\ k - 1 + 1 = k /\ \A i \in 1..k : 1 + i - 1 = i
      BY <1>1
    <2> HIDE DEF f
    <2>4. f = SubSeq(b, 1, k)
      BY DEF f
    <2> QED BY <2>2, <2>3, <2>4
  <1>4. f = e
    <2>1. Agree(b, e)
      BY AgreeAtFirst
    <2>2. ASSUME NEW i \in 1..k PROVE f[i] = e[i]
      <3>1. i \in 1..Len(b) /\ i <= Len(e)
        BY <1>1 DEF k, l
      <3>2. b[i] = e[i]
        BY <2>1, <3>1 DEF Agree
      <3> QED BY <1>3, <3>2
    <2> HIDE DEF f
    <2>3. Len(f) = Len(e)
      BY <1>3 DEF k
    <2>4. \A i \in 1..Len(f) : f[i] = e[i]
      BY <1>3, <2>2
    <2> QED BY <1>3, <2>3, <2>4, SeqEqual
  <1>5. b = f \o d
    <2>1. 1 \in 1..(Len(b) + 1) /\ k \in (1 - 1)..Len(b) /\ Len(b) \in k..Len(b)
      BY <1>1 DEF l
    <2>2. SubSeq(b, 1, k) \o SubSeq(b, k + 1, Len(b)) = SubSeq(b, 1, Len(b))
      BY <2>1, ConcatAdjacentSubSeq
    <2>3. SubSeq(b, 1, Len(b)) = b
      BY SubSeqFull
    <2> QED BY <2>2, <2>3 DEF From
  <1> HIDE DEF d, f
  <1>6. e \o (d \o x) = e \o c
    <2>1. (e \o d) \o x = e \o (d \o x)
      BY <1>2, ConcatAssociative
    <2> QED BY <1>4, <1>5, <2>1
  <1>7. d \o x \in Seq(Units)
    BY <1>2, ConcatProperties
  <1>8. d \o x = c
    BY <1>6, <1>7, ConcatSimplifications
  <1> QED BY <1>2, <1>8 DEF d, k

\* An empty buffer has no message.
LEMMA EmptyParsed == HttpParse(<<>>) = Nothing /\ WebsocketParse(<<>>) = Nothing
  <1>1. SkipWhiteSpaces(<<>>) = <<>>
    BY DEF SkipWhiteSpaces
  <1>2. ParseToken(<<>>) = Failed
    BY <1>1 DEF ParseToken
  <1>3. HttpParse(<<>>) = Nothing
    BY <1>2 DEF HttpParse
  <1> QED BY <1>3 DEF WebsocketParse

-----------------------------------------------------------------------------
(* The router's processors, and what the connection has sent.              *)

Items == {"switching", "response", "notfound", "close", "frame", "part"}

\* Before the handshake there is no websocket processor and nothing has been
\* switched; after it the HTTP processor is gone.
RouterInv ==
  /\ out \in Seq(Items)
  /\ processor \in {"http", "websocket"}
  /\ processor = "http" =>
       /\ websocketProcessor = None
       /\ \A i \in DOMAIN out : out[i] # "switching"
  /\ processor = "websocket" => httpProcessor = None /\ websocketProcessor = "lambda"
  /\ OnlyFramesAfterSwitching

\* One more item is sent: anything while nothing has been switched, and a
\* frame or a close frame at any time.
LEMMA SentOneMore ==
  ASSUME NEW s \in Seq(Items), NEW x \in Items,
         \A i, j \in DOMAIN s : i < j /\ s[i] = "switching" => s[j] \in {"frame", "close"},
         x \in {"frame", "close"} \/ \A i \in DOMAIN s : s[i] # "switching"
  PROVE  /\ Append(s, x) \in Seq(Items)
         /\ \A i, j \in DOMAIN Append(s, x) :
              i < j /\ Append(s, x)[i] = "switching" => Append(s, x)[j] \in {"frame", "close"}
         /\ x # "switching" /\ (\A i \in DOMAIN s : s[i] # "switching") =>
              \A i \in DOMAIN Append(s, x) : Append(s, x)[i] # "switching"
  <1> DEFINE t == Append(s, x)
  <1>1. /\ t \in Seq(Items) /\ Len(t) = Len(s) + 1 /\ Len(s) \in Nat
        /\ \A i \in 1..Len(s) : t[i] = s[i]
        /\ t[Len(s) + 1] = x
    BY AppendProperties, LenProperties
  <1>2. DOMAIN t = 1..(Len(s) + 1) /\ DOMAIN s = 1..Len(s)
    BY <1>1, LenProperties
  <1> HIDE DEF t
  <1>3. ASSUME NEW i \in DOMAIN t, NEW j \in DOMAIN t, i < j, t[i] = "switching"
        PROVE  t[j] \in {"frame", "close"}
    <2>1. i \in DOMAIN s /\ t[i] = s[i]
      BY <1>1, <1>2, <1>3
    <2>2. CASE j = Len(s) + 1
      BY <1>1, <1>3, <2>1, <2>2
    <2>3. CASE j # Len(s) + 1
      <3>1. j \in DOMAIN s /\ t[j] = s[j]
        BY <1>1, <1>2, <2>3
      <3> QED BY <1>3, <2>1, <3>1
    <2> QED BY <2>2, <2>3
  <1>4. ASSUME x # "switching", \A i \in DOMAIN s : s[i] # "switching", NEW i \in DOMAIN t
        PROVE  t[i] # "switching"
    BY <1>1, <1>2, <1>4
  <1> QED BY <1>1, <1>3, <1>4 DEF t

\* It holds at first,
LEMMA RouterInit == Init => RouterInv
  <1> SUFFICES ASSUME Init PROVE RouterInv
    OBVIOUS
  <1>1. out \in Seq(Items) /\ DOMAIN out = {}
    BY EmptySeq DEF Init
  <1> QED BY <1>1 DEF Init, RouterInv, OnlyFramesAfterSwitching

\* and every step of the connection keeps it.
LEMMA RouterStep == RouterInv /\ [Next]_vars => RouterInv'
  <1> SUFFICES ASSUME RouterInv, [Next]_vars PROVE RouterInv'
    OBVIOUS
  <1>1. /\ out \in Seq(Items) /\ processor \in {"http", "websocket"}
        /\ \A i, j \in DOMAIN out : i < j /\ out[i] = "switching" => out[j] \in {"frame", "close"}
    BY DEF RouterInv, OnlyFramesAfterSwitching
  <1>2. processor = "http" =>
          websocketProcessor = None /\ \A i \in DOMAIN out : out[i] # "switching"
    BY DEF RouterInv
  <1>3. processor = "websocket" => httpProcessor = None /\ websocketProcessor = "lambda"
    BY DEF RouterInv
  <1>4. CASE UNCHANGED <<routerVars, out>>
    BY <1>4 DEF RouterInv, OnlyFramesAfterSwitching, routerVars
  <1>5. CASE Upgrade
    <2>1. processor = "http" /\ out' = Append(out, "switching") /\ "switching" \in Items
      BY <1>5 DEF Upgrade, Reply, Items
    <2>2. /\ out' \in Seq(Items)
          /\ \A i, j \in DOMAIN out' : i < j /\ out'[i] = "switching" => out'[j] \in {"frame", "close"}
      BY <1>1, <1>2, <2>1, SentOneMore
    <2>3. processor' = "websocket" /\ httpProcessor' = None /\ websocketProcessor' = "lambda"
      BY <1>5 DEF Upgrade
    <2> QED BY <2>2, <2>3 DEF RouterInv, OnlyFramesAfterSwitching
  <1>6. CASE Route \/ NotFound
    <2>1. PICK x \in {"response", "notfound"} : out' = Append(out, x)
      BY <1>6 DEF Route, NotFound, Reply
    <2>2. processor = "http" /\ processor' = "http" /\ websocketProcessor' = None
      BY <1>2, <1>6 DEF Route, NotFound, routerVars
    <2>3. x \in Items /\ x # "switching"
      BY DEF Items
    <2>4. /\ out' \in Seq(Items)
          /\ \A i, j \in DOMAIN out' : i < j /\ out'[i] = "switching" => out'[j] \in {"frame", "close"}
          /\ \A i \in DOMAIN out' : out'[i] # "switching"
      BY <1>1, <1>2, <2>1, <2>2, <2>3, SentOneMore
    <2> QED BY <2>2, <2>4 DEF RouterInv, OnlyFramesAfterSwitching
  <1>7. CASE CloseFrame \/ Frame
    <2>1. processor = "websocket" /\ UNCHANGED routerVars
      BY <1>7 DEF CloseFrame, Frame
    <2>2. out' = out \/ \E x \in {"frame", "close"} : out' = Append(out, x)
      BY <1>7 DEF CloseFrame, Frame, Reply
    <2>3. /\ out' \in Seq(Items)
          /\ \A i, j \in DOMAIN out' : i < j /\ out'[i] = "switching" => out'[j] \in {"frame", "close"}
      <3>1. CASE out' = out
        BY <1>1, <3>1
      <3>2. CASE \E x \in {"frame", "close"} : out' = Append(out, x)
        <4>1. PICK x \in {"frame", "close"} : out' = Append(out, x)
          BY <3>2
        <4>2. x \in Items
          BY DEF Items
        <4> QED BY <1>1, <4>1, <4>2, SentOneMore
      <3> QED BY <2>2, <3>1, <3>2
    <2> QED BY <1>3, <2>1, <2>3 DEF RouterInv, OnlyFramesAfterSwitching, routerVars
  <1>8. CASE StreamPart
    <2>1. httpProcessor = "stream" /\ UNCHANGED routerVars /\ out' = Append(out, "part")
      BY <1>8 DEF StreamPart, Reply
    <2>2. processor = "http"
      BY <1>1, <1>3, <2>1, NoneAssumption
    <2>3. "part" \in Items /\ "part" # "switching"
      BY DEF Items
    <2>4. /\ out' \in Seq(Items)
          /\ \A i, j \in DOMAIN out' : i < j /\ out'[i] = "switching" => out'[j] \in {"frame", "close"}
          /\ \A i \in DOMAIN out' : out'[i] # "switching"
      BY <1>1, <1>2, <2>1, <2>2, <2>3, SentOneMore
    <2> QED BY <1>2, <2>1, <2>2, <2>4 DEF RouterInv, OnlyFramesAfterSwitching, routerVars
  <1>9. CASE Return \/ Terminate
    BY <1>4, <1>9 DEF Return, Terminate
  <1>10. ASSUME NEW m \in Requests \cup Frames, ClientSend(m) PROVE RouterInv'
    BY <1>4, <1>10 DEF ClientSend
  <1>11. ASSUME NEW n \in 1..MaxSegment, Receive(n) PROVE RouterInv'
    BY <1>4, <1>11 DEF Receive
  <1>12. CASE Exhausted \/ UNCHANGED vars
    BY <1>4, <1>12 DEF Exhausted, vars
  <1> QED BY <1>5, <1>6, <1>7, <1>8, <1>9, <1>10, <1>11, <1>12 DEF Next, Layers

\* So it always holds.
THEOREM RouterInvariant == Spec => []RouterInv
  BY RouterInit, RouterStep, PTL DEF Spec

\* What is sent on a connection has one source, and the layer in charge of the
\* bytes has its processor: TryUpgrade drops the one when it makes the other.
THEOREM OneProcessorAtATime == Spec => []OneProcessor
  <1>1. RouterInv => OneProcessor
    BY NoneAssumption DEF RouterInv, OneProcessor
  <1> QED BY <1>1, RouterInvariant, PTL

\* Behind "101 Switching Protocols" the connection carries frames only,
\* although a streaming processor may have sent from the capturer's thread
\* until the moment of the handshake.
THEOREM FramesAfterSwitching == Spec => []OnlyFramesAfterSwitching
  <1>1. RouterInv => OnlyFramesAfterSwitching
    BY DEF RouterInv
  <1> QED BY <1>1, RouterInvariant, PTL

-----------------------------------------------------------------------------
(* The protocol layer keeps in step with the client.                       *)

\* A request that makes the protocol layer go on with the other layer.
Switches(m) == ~IsFrame(m) /\ ~Throws(m) /\ Upgrades(m)

\* The client sends frames after a handshake that switches, and nothing else;
\* the layer in charge is the one that the messages handled so far ask for.
OrderInv ==
  /\ \A i, j \in DOMAIN messages :
       i < j /\ Switches(messages[i]) => IsFrame(messages[j])
  /\ \A j \in DOMAIN messages : IsFrame(messages[j]) =>
       \E i \in DOMAIN messages : i < j /\ Switches(messages[i])
  /\ \A i \in DOMAIN handled : Switches(handled[i]) => processor = "websocket"
  /\ processor = "websocket" => \E i \in DOMAIN handled : Switches(handled[i])

\* What the client has sent and the router has not been given.
Waiting == From(messages, Len(handled) + 1)

StepType ==
  /\ messages \in Seq(Messages) /\ handled \in Seq(Messages)
  /\ buffer \in Seq(Units) /\ inflight \in Seq(Units)
  /\ processor \in {"http", "websocket"}
  /\ ~(looping /\ terminated)

\* InStep, by its parts.
Prefix ==
  /\ Len(handled) <= Len(messages)
  /\ \A i \in 1..Len(handled) : handled[i] = messages[i]
Kept == Encoding(Waiting) = buffer \o inflight
Prompt ==
  ~looping /\ ~terminated /\ Waiting # <<>> =>
    Len(buffer) < Len(Encode(Waiting[1])) \/ Malformed(Waiting[1])
InTurn == terminated => Waiting # <<>> /\ ~IsFrame(Waiting[1]) /\ Throws(Waiting[1])

StepInv == StepType /\ OrderInv /\ Prefix /\ Kept /\ Prompt /\ InTurn

\* A sequence is a prefix of another that begins with its elements.
LEMMA PrefixIs ==
  ASSUME NEW S, NEW s \in Seq(S), NEW t \in Seq(S), Len(s) <= Len(t),
         \A i \in 1..Len(s) : s[i] = t[i]
  PROVE  IsPrefix(s, t)
  <1>1. Len(s) \in Nat /\ Len(t) \in Nat /\ \A i \in 1..Len(s) : s[i] \in S /\ t[i] \in S
    BY LenProperties, ElementOfSeq
  <1>2. PICK n \in Nat : n = Len(s)
    BY <1>1
  <1>3. /\ SubSeq(t, 1, n) \in Seq(S)
        /\ Len(SubSeq(t, 1, n)) = IF 1 <= n THEN n - 1 + 1 ELSE 0
        /\ \A i \in 1..(n - 1 + 1) : SubSeq(t, 1, n)[i] = t[1 + i - 1]
    BY <1>1, <1>2, SubSeqProperties
  <1>4. (IF 1 <= n THEN n - 1 + 1 ELSE 0) = n /\ n - 1 + 1 = n /\ \A i \in 1..n : 1 + i - 1 = i
    OBVIOUS
  <1>5. Len(SubSeq(t, 1, n)) = n /\ \A i \in 1..n : SubSeq(t, 1, n)[i] = t[i]
    BY <1>3, <1>4
  <1>6. SubSeq(t, 1, n) = s
    BY <1>2, <1>3, <1>5, SeqEqual
  <1>7. SubSeq(s, 1, Len(s)) = s
    BY SubSeqFull
  <1> QED BY <1>2, <1>6, <1>7 DEF IsPrefix

\* The parts say InStep.
LEMMA StepsAreInStep == StepInv => InStep
  <1> SUFFICES ASSUME StepInv PROVE InStep
    OBVIOUS
  <1>1. IsPrefix(handled, messages)
    BY PrefixIs DEF StepInv, StepType, Prefix
  <1>2. SubSeq(messages, Len(handled) + 1, Len(messages)) = Waiting
    BY DEF Waiting, From
  <1>3. Kept /\ Prompt /\ InTurn
    BY DEF StepInv
  <1> QED BY <1>1, <1>2, <1>3 DEF InStep, Kept, Prompt, InTurn

-----------------------------------------------------------------------------
(* The messages that wait.                                                 *)

\* They are messages, and the first of them is the next one.
LEMMA WaitingIs ==
  ASSUME StepType, Prefix
  PROVE  /\ Waiting \in Seq(Messages)
         /\ Len(Waiting) = Len(messages) - Len(handled)
         /\ Len(messages) \in Nat /\ Len(handled) \in Nat
         /\ Waiting # <<>> => /\ Waiting[1] \in Messages
                              /\ Len(handled) + 1 \in 1..Len(messages)
                              /\ Waiting[1] = messages[Len(handled) + 1]
                              /\ From(Waiting, 2) = From(messages, Len(handled) + 2)
  <1>1. PICK h \in Nat, l \in Nat : h = Len(handled) /\ l = Len(messages) /\ h <= l
    BY LenProperties DEF StepType, Prefix
  <1>2. messages \in Seq(Messages)
    BY DEF StepType
  <1>3. /\ Waiting \in Seq(Messages)
        /\ Len(Waiting) = l - h
        /\ \A j \in 1..(l - h) : Waiting[j] = messages[h + j]
    <2>1. h + 1 \in Nat \ {0} /\ h + 1 <= Len(messages) + 1
      BY <1>1
    <2>2. /\ From(messages, h + 1) \in Seq(Messages)
          /\ Len(From(messages, h + 1)) = Len(messages) + 1 - (h + 1)
          /\ \A j \in 1..(Len(messages) + 1 - (h + 1)) :
               From(messages, h + 1)[j] = messages[(h + 1) + j - 1]
      BY <1>2, <2>1, FromProperties
    <2>3. Len(messages) + 1 - (h + 1) = l - h /\ \A j \in 1..(l - h) : (h + 1) + j - 1 = h + j
      BY <1>1
    <2>4. Waiting = From(messages, h + 1)
      BY <1>1 DEF Waiting
    <2> HIDE DEF From
    <2> QED BY <2>2, <2>3, <2>4
  <1>4. ASSUME Waiting # <<>>
        PROVE  /\ Waiting[1] \in Messages
               /\ h + 1 \in 1..l
               /\ Waiting[1] = messages[h + 1]
               /\ From(Waiting, 2) = From(messages, h + 2)
    <2>1. l - h # 0
      BY <1>3, <1>4, EmptySeq
    <2>2. 1 \in 1..(l - h) /\ h + 1 \in 1..l
      BY <1>1, <2>1
    <2>3. Waiting[1] = messages[h + 1] /\ Waiting[1] \in Messages
      BY <1>3, <2>2, ElementOfSeq
    <2>4. h + 1 \in Nat \ {0} /\ 2 \in Nat \ {0} /\ (h + 1) + 2 <= Len(messages) + 2
      BY <1>1, <2>2
    <2>5. From(From(messages, h + 1), 2) = From(messages, (h + 1) + 2 - 1)
      BY <1>2, <2>4, FromFrom
    <2>6. (h + 1) + 2 - 1 = h + 2 /\ Waiting = From(messages, h + 1)
      BY <1>1 DEF Waiting
    <2> QED BY <2>2, <2>3, <2>5, <2>6
  <1> QED BY <1>1, <1>3, <1>4

\* When no message waits, nothing is in the buffer.
LEMMA NothingWaits ==
  ASSUME StepType, Kept, Waiting = <<>>
  PROVE  buffer = <<>> /\ Parsed = Nothing
  <1>1. buffer \o inflight = <<>>
    BY EncodingEmpty DEF Kept
  <1>2. buffer = <<>>
    BY <1>1, ConcatSimplifications DEF StepType
  <1> QED BY <1>2, EmptyParsed DEF Parsed

\* The layer in charge is the one for the next message.
LEMMA InCharge ==
  ASSUME StepType, Prefix, OrderInv, Waiting # <<>>
  PROVE  /\ processor = "http" => ~IsFrame(Waiting[1])
         /\ processor = "websocket" => IsFrame(Waiting[1])
  <1>1. PICK h \in Nat, l \in Nat : h = Len(handled) /\ l = Len(messages) /\ h + 1 \in 1..l
    BY WaitingIs
  <1>2. Waiting[1] = messages[h + 1] /\ \A i \in 1..h : handled[i] = messages[i]
    BY <1>1, WaitingIs DEF Prefix
  <1>3. DOMAIN handled = 1..h /\ DOMAIN messages = 1..l
    BY <1>1, LenProperties DEF StepType
  <1>4. ASSUME processor = "http", IsFrame(messages[h + 1]) PROVE FALSE
    <2>1. PICK i \in DOMAIN messages : i < h + 1 /\ Switches(messages[i])
      BY <1>1, <1>3, <1>4 DEF OrderInv
    <2>2. i \in DOMAIN handled /\ handled[i] = messages[i]
      BY <1>1, <1>2, <1>3, <2>1
    <2>3. Switches(handled[i])
      BY <2>1, <2>2
    <2> QED BY <1>4, <2>2, <2>3 DEF OrderInv
  <1>5. ASSUME processor = "websocket" PROVE IsFrame(messages[h + 1])
    <2>1. PICK i \in DOMAIN handled : Switches(handled[i])
      BY <1>5 DEF OrderInv
    <2>2. i \in DOMAIN messages /\ h + 1 \in DOMAIN messages /\ i < h + 1 /\ handled[i] = messages[i]
      BY <1>1, <1>2, <1>3
    <2>3. Switches(messages[i])
      BY <2>1, <2>2
    <2> QED BY <2>2, <2>3 DEF OrderInv
  <1> QED BY <1>2, <1>4, <1>5

\* What the layer in charge finds in the buffer.
LEMMA NextParsed ==
  ASSUME StepType, Prefix, OrderInv, Kept, Waiting # <<>>
  PROVE  /\ Malformed(Waiting[1]) \/ Len(buffer) < Len(Encode(Waiting[1])) => Parsed = Nothing
         /\ Parsed # Nothing =>
              /\ Parsed.message = Waiting[1]
              /\ Parsed.rest \in Seq(Units)
              /\ Encoding(From(Waiting, 2)) = Parsed.rest \o inflight
  <1> DEFINE m == Waiting[1]
             e == Encode(m)
             c == Encoding(From(Waiting, 2))
  <1>1. m \in Messages /\ Waiting \in Seq(Messages)
    BY WaitingIs
  <1>2. e \in Seq(Units) /\ Len(e) \in Nat
    BY <1>1, MessageEncoded
  <1>3. c \in Seq(Units) /\ buffer \o inflight = e \o c
    BY <1>1, EncodingHead DEF Kept
  <1>4. buffer \in Seq(Units) /\ inflight \in Seq(Units) /\ Len(buffer) \in Nat
    BY LenProperties DEF StepType
  <1> HIDE DEF m, e, c
  <1>5. Agree(buffer, e)
    BY <1>2, <1>3, <1>4, AgreeAtFirst
  <1>6. Parsed = IF IsFrame(m) THEN WebsocketParse(buffer) ELSE HttpParse(buffer)
    BY InCharge DEF Parsed, StepType, m
  <1>7. /\ Malformed(m) \/ Len(buffer) < Len(e) => Parsed = Nothing
        /\ ~Malformed(m) /\ Len(buffer) >= Len(e) =>
             Parsed.message = m /\ Parsed.rest = From(buffer, Len(e) + 1)
    BY <1>1, <1>4, <1>5, <1>6, MessageParsed DEF Messages, e
  <1>8. ASSUME Parsed # Nothing
        PROVE  Parsed.message = m /\ Parsed.rest \in Seq(Units) /\ c = Parsed.rest \o inflight
    <2>1. ~Malformed(m) /\ Len(buffer) >= Len(e)
      BY <1>2, <1>4, <1>7, <1>8
    <2>2. Parsed.message = m /\ Parsed.rest = From(buffer, Len(e) + 1)
      BY <1>7, <2>1
    <2>3. From(buffer, Len(e) + 1) \in Seq(Units) /\ From(buffer, Len(e) + 1) \o inflight = c
      BY <1>2, <1>3, <1>4, <2>1, CutAtFirst
    <2> QED BY <2>2, <2>3
  <1> QED BY <1>7, <1>8 DEF m, e, c

\* And what it finds when it finds nothing.
LEMMA NextFound ==
  ASSUME StepType, Prefix, OrderInv, Kept, Waiting # <<>>, Parsed = Nothing
  PROVE  Len(buffer) < Len(Encode(Waiting[1])) \/ Malformed(Waiting[1])
  <1>1. Waiting[1] \in Messages /\ Waiting \in Seq(Messages)
    BY WaitingIs
  <1>2. Encode(Waiting[1]) \in Seq(Units) /\ Len(Encode(Waiting[1])) \in Nat
    BY <1>1, MessageEncoded
  <1>3. /\ Encoding(From(Waiting, 2)) \in Seq(Units)
        /\ buffer \o inflight = Encode(Waiting[1]) \o Encoding(From(Waiting, 2))
    BY <1>1, EncodingHead DEF Kept
  <1>4. buffer \in Seq(Units) /\ inflight \in Seq(Units) /\ Len(buffer) \in Nat
    BY LenProperties DEF StepType
  <1>5. Agree(buffer, Encode(Waiting[1]))
    BY <1>2, <1>3, <1>4, AgreeAtFirst
  <1>6. Parsed = IF IsFrame(Waiting[1]) THEN WebsocketParse(buffer) ELSE HttpParse(buffer)
    BY InCharge DEF Parsed, StepType
  <1>7. ~Malformed(Waiting[1]) /\ Len(buffer) >= Len(Encode(Waiting[1])) => Parsed # Nothing
    BY <1>1, <1>4, <1>5, <1>6, MessageParsed DEF Messages
  <1> QED BY <1>2, <1>4, <1>7

-----------------------------------------------------------------------------
(* Each action keeps step.                                                 *)

\* A layer takes the next message.
LEMMA Taken ==
  ASSUME StepInv, Consume
  PROVE  /\ Waiting # <<>> /\ Parsed.message = Waiting[1]
         /\ messages' = messages /\ handled' = Append(handled, Waiting[1])
         /\ looping /\ ~terminated /\ terminated' = terminated
         /\ buffer' \in Seq(Units) /\ inflight' = inflight
         /\ Encoding(From(Waiting, 2)) = buffer' \o inflight
  <1>1. /\ looping /\ Parsed # Nothing
        /\ buffer' = Parsed.rest /\ handled' = Append(handled, Parsed.message)
        /\ messages' = messages /\ inflight' = inflight /\ terminated' = terminated
    BY DEF Consume, HasMessage, clientVars
  <1>2. Waiting # <<>>
    BY <1>1, NothingWaits DEF StepInv
  <1>3. /\ Parsed.message = Waiting[1] /\ Parsed.rest \in Seq(Units)
        /\ Encoding(From(Waiting, 2)) = Parsed.rest \o inflight
    BY <1>1, <1>2, NextParsed DEF StepInv
  <1>4. ~terminated
    BY <1>1 DEF StepInv, StepType
  <1> QED BY <1>1, <1>2, <1>3, <1>4

\* What is left is what the client has sent behind it,
LEMMA TakenInStep ==
  ASSUME StepInv, Consume, looping' = looping
  PROVE  /\ messages' \in Seq(Messages) /\ handled' \in Seq(Messages)
         /\ buffer' \in Seq(Units) /\ inflight' \in Seq(Units)
         /\ ~(looping' /\ terminated')
         /\ Prefix' /\ Kept' /\ Prompt' /\ InTurn'
  <1>1. PICK h \in Nat, l \in Nat : h = Len(handled) /\ l = Len(messages) /\ h + 1 \in 1..l
    BY Taken, WaitingIs DEF StepInv
  <1>2. /\ Waiting[1] \in Messages /\ Waiting[1] = messages[h + 1]
        /\ From(Waiting, 2) = From(messages, h + 2)
    BY <1>1, Taken, WaitingIs DEF StepInv
  <1>3. /\ handled' \in Seq(Messages) /\ Len(handled') = h + 1
        /\ \A i \in 1..h : handled'[i] = handled[i]
        /\ handled'[h + 1] = Waiting[1]
    <2>1. PICK m \in Messages : m = Waiting[1]
      BY <1>2
    <2>2. PICK d : d = Append(handled, m)
      OBVIOUS
    <2>3. handled \in Seq(Messages)
      BY DEF StepInv, StepType
    <2>4. d \in Seq(Messages) /\ Len(d) = h + 1 /\ (\A i \in 1..h : d[i] = handled[i]) /\ d[h + 1] = m
      BY <1>1, <2>2, <2>3, AppendProperties
    <2>5. handled' = d
      BY <2>1, <2>2, Taken
    <2> QED BY <2>1, <2>4, <2>5
  <1>4. Prefix'
    <2>1. ASSUME NEW i \in 1..(h + 1) PROVE handled'[i] = messages[i]
      <3>1. CASE i = h + 1
        BY <1>2, <1>3, <3>1
      <3>2. CASE i # h + 1
        <4>1. i \in 1..h
          BY <1>1, <3>2
        <4> QED BY <1>1, <1>3, <4>1 DEF StepInv, Prefix
      <3> QED BY <3>1, <3>2
    <2> QED BY <1>1, <1>3, <2>1, Taken DEF Prefix
  <1>5. Waiting' = From(messages, (h + 1) + 1)
    BY <1>3, Taken DEF Waiting
  <1>6. Kept'
    <2>1. (h + 1) + 1 = h + 2
      BY <1>1
    <2>2. Encoding(Waiting') = buffer' \o inflight'
      BY <1>2, <1>5, <2>1, Taken
    <2> QED BY <2>2 DEF Kept
  <1>7. looping' /\ ~terminated'
    BY Taken
  <1>8. Prompt' /\ InTurn'
    BY <1>7 DEF Prompt, InTurn
  <1> QED BY <1>3, <1>4, <1>6, <1>7, <1>8, Taken DEF StepInv, StepType

\* and the layer in charge is the one it asks for.
LEMMA TakenInOrder ==
  ASSUME StepInv, Consume,
         processor = "websocket" => processor' = "websocket",
         Switches(Parsed.message) => processor' = "websocket",
         processor' = "websocket" => processor = "websocket" \/ Switches(Parsed.message)
  PROVE  OrderInv'
  <1>1. PICK h \in Nat : h = Len(handled)
    BY LenProperties DEF StepInv, StepType
  <1>2. Parsed.message = Waiting[1] /\ Waiting[1] \in Messages /\ messages' = messages
    BY Taken, WaitingIs DEF StepInv
  <1>3. /\ handled' \in Seq(Messages) /\ Len(handled') = h + 1
        /\ \A i \in 1..h : handled'[i] = handled[i]
        /\ handled'[h + 1] = Parsed.message
    <2>1. PICK m \in Messages : m = Waiting[1]
      BY <1>2
    <2>2. PICK d : d = Append(handled, m)
      OBVIOUS
    <2>3. handled \in Seq(Messages)
      BY DEF StepInv, StepType
    <2>4. d \in Seq(Messages) /\ Len(d) = h + 1 /\ (\A i \in 1..h : d[i] = handled[i]) /\ d[h + 1] = m
      BY <1>1, <2>2, <2>3, AppendProperties
    <2>5. handled' = d
      BY <2>1, <2>2, Taken
    <2> QED BY <1>2, <2>1, <2>4, <2>5
  <1>4. DOMAIN handled' = 1..(h + 1) /\ DOMAIN handled = 1..h
    BY <1>1, <1>3, LenProperties DEF StepInv, StepType
  <1>5. ASSUME NEW i \in DOMAIN handled', Switches(handled'[i]) PROVE processor' = "websocket"
    <2>1. CASE i = h + 1
      <3>1. Switches(Parsed.message)
        BY <1>3, <1>5, <2>1
      <3> QED BY <3>1
    <2>2. CASE i # h + 1
      <3>1. i \in DOMAIN handled /\ handled'[i] = handled[i]
        BY <1>3, <1>4, <2>2
      <3>2. Switches(handled[i])
        BY <1>5, <3>1
      <3>3. processor = "websocket"
        BY <3>1, <3>2 DEF StepInv, OrderInv
      <3> QED BY <3>3
    <2> QED BY <2>1, <2>2
  <1>6. ASSUME processor' = "websocket" PROVE \E i \in DOMAIN handled' : Switches(handled'[i])
    <2>1. CASE processor = "websocket"
      <3>1. PICK i \in DOMAIN handled : Switches(handled[i])
        BY <2>1 DEF StepInv, OrderInv
      <3>2. i \in DOMAIN handled' /\ handled'[i] = handled[i]
        BY <1>3, <1>4, <3>1
      <3>3. Switches(handled'[i])
        BY <3>1, <3>2
      <3> QED BY <3>2, <3>3
    <2>2. CASE Switches(Parsed.message)
      <3>1. h + 1 \in DOMAIN handled'
        BY <1>4
      <3>2. Switches(handled'[h + 1])
        BY <1>3, <2>2
      <3> QED BY <3>1, <3>2
    <2> QED BY <1>6, <2>1, <2>2
  <1>7. /\ \A i, j \in DOMAIN messages :
             i < j /\ Switches(messages[i]) => IsFrame(messages[j])
        /\ \A j \in DOMAIN messages : IsFrame(messages[j]) =>
             \E i \in DOMAIN messages : i < j /\ Switches(messages[i])
    BY DEF StepInv, OrderInv
  <1>8. /\ \A i, j \in DOMAIN messages' :
             i < j /\ Switches(messages'[i]) => IsFrame(messages'[j])
        /\ \A j \in DOMAIN messages' : IsFrame(messages'[j]) =>
             \E i \in DOMAIN messages' : i < j /\ Switches(messages'[i])
    BY <1>2, <1>7
  <1> QED BY <1>5, <1>6, <1>8 DEF OrderInv

\* The client sends one more message.
LEMMA SendInStep ==
  ASSUME StepInv, NEW m \in Messages, ClientSend(m)
  PROVE  StepInv'
  <1>1. /\ ~terminated /\ IsFrame(m) = Upgraded
        /\ messages' = Append(messages, m) /\ inflight' = inflight \o Encode(m)
        /\ buffer' = buffer /\ looping' = looping /\ terminated' = terminated
        /\ processor' = processor /\ handled' = handled
    BY DEF ClientSend, routerVars
  <1>2. PICK h \in Nat, l \in Nat : h = Len(handled) /\ l = Len(messages) /\ h <= l
    BY LenProperties DEF StepInv, StepType, Prefix
  <1>3. /\ messages' \in Seq(Messages) /\ Len(messages') = l + 1
        /\ \A i \in 1..l : messages'[i] = messages[i]
        /\ messages'[l + 1] = m
    BY <1>1, <1>2, AppendProperties DEF StepInv, StepType
  <1>4. /\ Encode(m) \in Seq(Units) /\ Len(Encode(m)) \in Nat /\ Len(Encode(m)) >= 1
    BY MessageEncoded
  <1>5. DOMAIN messages' = 1..(l + 1) /\ DOMAIN messages = 1..l
    BY <1>2, <1>3, LenProperties DEF StepInv, StepType
  <1>6. StepType'
    <2>1. inflight' \in Seq(Units)
      BY <1>1, <1>4, ConcatProperties DEF StepInv, StepType
    <2> QED BY <1>1, <1>3, <2>1 DEF StepInv, StepType
  <1>7. Prefix'
    <2>1. \A i \in 1..h : i \in 1..l
      BY <1>2
    <2> QED BY <1>1, <1>2, <1>3, <2>1 DEF StepInv, Prefix
  <1>8. OrderInv'
    <2>1. IsFrame(m) <=> \E i \in DOMAIN messages : Switches(messages[i])
      BY <1>1 DEF Upgraded, Switches, IsFrame
    <2>2. ASSUME NEW i \in DOMAIN messages', NEW j \in DOMAIN messages', i < j, Switches(messages'[i])
          PROVE  IsFrame(messages'[j])
      <3>1. i \in DOMAIN messages /\ messages'[i] = messages[i]
        BY <1>2, <1>3, <1>5, <2>2
      <3>2. Switches(messages[i])
        BY <2>2, <3>1
      <3>3. CASE j = l + 1
        BY <1>3, <2>1, <3>1, <3>2, <3>3
      <3>4. CASE j # l + 1
        <4>1. j \in DOMAIN messages /\ messages'[j] = messages[j]
          BY <1>2, <1>3, <1>5, <3>4
        <4>2. IsFrame(messages[j])
          BY <2>2, <3>1, <3>2, <4>1 DEF StepInv, OrderInv
        <4> QED BY <4>1, <4>2
      <3> QED BY <3>3, <3>4
    <2>3. ASSUME NEW j \in DOMAIN messages', IsFrame(messages'[j])
          PROVE  \E i \in DOMAIN messages' : i < j /\ Switches(messages'[i])
      <3>1. PICK i \in DOMAIN messages : i < j /\ Switches(messages[i])
        <4>1. CASE j = l + 1
          <5>1. PICK i \in DOMAIN messages : Switches(messages[i])
            BY <1>3, <2>1, <2>3, <4>1
          <5>2. i < j
            BY <1>2, <1>5, <4>1
          <5> QED BY <5>1, <5>2
        <4>2. CASE j # l + 1
          <5>1. j \in DOMAIN messages /\ messages'[j] = messages[j]
            BY <1>2, <1>3, <1>5, <4>2
          <5>2. IsFrame(messages[j])
            BY <2>3, <5>1
          <5> QED BY <5>1, <5>2 DEF StepInv, OrderInv
        <4> QED BY <4>1, <4>2
      <3>2. i \in DOMAIN messages' /\ messages'[i] = messages[i]
        BY <1>2, <1>3, <1>5
      <3>3. Switches(messages'[i])
        BY <3>1, <3>2
      <3> QED BY <3>1, <3>2, <3>3
    <2>4. /\ \A i \in DOMAIN handled' : Switches(handled'[i]) => processor' = "websocket"
          /\ processor' = "websocket" => \E i \in DOMAIN handled' : Switches(handled'[i])
      <3>1. /\ \A i \in DOMAIN handled : Switches(handled[i]) => processor = "websocket"
            /\ processor = "websocket" => \E i \in DOMAIN handled : Switches(handled[i])
        BY DEF StepInv, OrderInv
      <3> QED BY <1>1, <3>1
    <2> QED BY <2>2, <2>3, <2>4 DEF OrderInv
  <1>9. Waiting \in Seq(Messages) /\ Waiting' = Append(Waiting, m)
    <2>1. Waiting \in Seq(Messages) /\ Len(Waiting) = l - h
      BY <1>2, WaitingIs DEF StepInv
    <2>2. PICK a : a = Append(Waiting, m)
      OBVIOUS
    <2>3. /\ a \in Seq(Messages) /\ Len(a) = (l - h) + 1
          /\ \A i \in 1..(l - h) : a[i] = Waiting[i]
          /\ a[(l - h) + 1] = m
      BY <2>1, <2>2, AppendProperties
    <2>4. \A j \in 1..(l - h) : Waiting[j] = messages[h + j]
      <3>1. h + 1 \in Nat \ {0} /\ h + 1 <= Len(messages) + 1 /\ messages \in Seq(Messages)
        BY <1>2 DEF StepInv, StepType
      <3>2. \A j \in 1..(Len(messages) + 1 - (h + 1)) :
              From(messages, h + 1)[j] = messages[(h + 1) + j - 1]
        BY <3>1, FromProperties
      <3>3. Len(messages) + 1 - (h + 1) = l - h /\ \A j \in 1..(l - h) : (h + 1) + j - 1 = h + j
        BY <1>2
      <3>4. Waiting = From(messages, h + 1)
        BY <1>2 DEF Waiting
      <3> HIDE DEF From
      <3> QED BY <3>2, <3>3, <3>4
    <2>5. PICK w : w = From(messages', h + 1)
      OBVIOUS
    <2>6. /\ w \in Seq(Messages) /\ Len(w) = (l - h) + 1
          /\ \A j \in 1..((l - h) + 1) : w[j] = messages'[h + j]
      <3>1. h + 1 \in Nat \ {0} /\ h + 1 <= Len(messages') + 1
        BY <1>2, <1>3
      <3>2. /\ w \in Seq(Messages) /\ Len(w) = Len(messages') + 1 - (h + 1)
            /\ \A j \in 1..(Len(messages') + 1 - (h + 1)) : w[j] = messages'[(h + 1) + j - 1]
        BY <1>3, <2>5, <3>1, FromProperties
      <3>3. /\ Len(messages') + 1 - (h + 1) = (l - h) + 1
            /\ \A j \in 1..((l - h) + 1) : (h + 1) + j - 1 = h + j
        BY <1>2, <1>3
      <3> QED BY <3>2, <3>3
    <2>7. ASSUME NEW j \in 1..((l - h) + 1) PROVE a[j] = w[j]
      <3>1. CASE j = (l - h) + 1
        <4>1. h + j = l + 1
          BY <1>2, <3>1
        <4> QED BY <1>3, <2>3, <2>6, <3>1, <4>1
      <3>2. CASE j # (l - h) + 1
        <4>1. j \in 1..(l - h) /\ h + j \in 1..l
          BY <1>2, <3>2
        <4> QED BY <1>3, <2>3, <2>4, <2>6, <4>1
      <3> QED BY <3>1, <3>2
    <2>8. a = w
      BY <2>3, <2>6, <2>7, SeqEqual
    <2>9. Waiting' = w
      BY <1>1, <1>2, <2>5 DEF Waiting
    <2> QED BY <2>1, <2>2, <2>8, <2>9
  <1>10. Kept'
    <2>1. Encoding(Waiting') = Encoding(Waiting) \o Encode(m)
      BY <1>9, EncodingAppend
    <2>2. (buffer \o inflight) \o Encode(m) = buffer \o (inflight \o Encode(m))
      BY <1>4, ConcatAssociative DEF StepInv, StepType
    <2> QED BY <1>1, <2>1, <2>2 DEF StepInv, Kept
  <1>11. Prompt'
    <2>1. CASE Waiting = <<>>
      <3>1. buffer = <<>>
        BY <2>1, NothingWaits DEF StepInv
      <3>2. Waiting' = <<m>>
        BY <1>9, <2>1
      <3>3. Len(buffer') < Len(Encode(Waiting'[1]))
        BY <1>1, <1>4, <3>1, <3>2
      <3> QED BY <3>3 DEF Prompt
    <2>2. CASE Waiting # <<>>
      <3>1. Waiting'[1] = Waiting[1]
        <4>1. 1 \in 1..Len(Waiting)
          BY <1>9, <2>2, EmptySeq, LenProperties
        <4> QED BY <1>9, <4>1, AppendProperties
      <3> QED BY <1>1, <2>2, <3>1 DEF StepInv, Prompt
    <2> QED BY <2>1, <2>2
  <1>12. InTurn'
    BY <1>1 DEF InTurn
  <1> QED BY <1>6, <1>7, <1>8, <1>10, <1>11, <1>12 DEF StepInv

\* What the client has sent and what the router has been given stay.
LEMMA OrderStays ==
  ASSUME OrderInv, messages' = messages, handled' = handled, processor' = processor
  PROVE  OrderInv'
  <1>1. /\ \A i, j \in DOMAIN messages :
             i < j /\ Switches(messages[i]) => IsFrame(messages[j])
        /\ \A j \in DOMAIN messages : IsFrame(messages[j]) =>
             \E i \in DOMAIN messages : i < j /\ Switches(messages[i])
        /\ \A i \in DOMAIN handled : Switches(handled[i]) => processor = "websocket"
        /\ processor = "websocket" => \E i \in DOMAIN handled : Switches(handled[i])
    BY DEF OrderInv
  <1> QED BY <1>1 DEF OrderInv

\* and so do the messages that wait.
LEMMA WaitingStays ==
  ASSUME Prefix, messages' = messages, handled' = handled
  PROVE  Prefix' /\ Waiting' = Waiting
  BY DEF Prefix, Waiting

\* A segment moves from the connection into the buffer.
LEMMA ReceiveInStep ==
  ASSUME StepInv, NEW n \in 1..MaxSegment, Receive(n)
  PROVE  StepInv'
  <1>1. /\ ~terminated /\ n <= Len(inflight) /\ n \in Nat
        /\ buffer' = buffer \o SubSeq(inflight, 1, n)
        /\ inflight' = SubSeq(inflight, n + 1, Len(inflight))
        /\ looping' = TRUE /\ messages' = messages /\ terminated' = terminated
        /\ processor' = processor /\ handled' = handled
    BY ProtocolBounds DEF Receive, routerVars
  <1>2. PICK a, b : a = SubSeq(inflight, 1, n) /\ b = SubSeq(inflight, n + 1, Len(inflight))
    OBVIOUS
  <1>3. a \in Seq(Units) /\ b \in Seq(Units) /\ a \o b = inflight
    <2>1. inflight \in Seq(Units) /\ Len(inflight) \in Nat
      BY LenProperties DEF StepInv, StepType
    <2>2. /\ \A i \in 1..n : inflight[i] \in Units
          /\ \A i \in (n + 1)..Len(inflight) : inflight[i] \in Units
      BY <1>1, <2>1
    <2>3. a \in Seq(Units) /\ b \in Seq(Units)
      BY <1>1, <1>2, <2>1, <2>2, SubSeqProperties
    <2>4. 1 \in 1..(Len(inflight) + 1) /\ n \in (1 - 1)..Len(inflight) /\ Len(inflight) \in n..Len(inflight)
      BY <1>1, <2>1
    <2>5. SubSeq(inflight, 1, n) \o SubSeq(inflight, n + 1, Len(inflight)) = SubSeq(inflight, 1, Len(inflight))
      BY <2>1, <2>4, ConcatAdjacentSubSeq
    <2>6. SubSeq(inflight, 1, Len(inflight)) = inflight
      BY <2>1, SubSeqFull
    <2> QED BY <1>2, <2>3, <2>5, <2>6
  <1>4. buffer' \in Seq(Units) /\ buffer' \o inflight' = buffer \o inflight
    <2>1. buffer \in Seq(Units)
      BY DEF StepInv, StepType
    <2>2. (buffer \o a) \o b = buffer \o (a \o b)
      <3>1. a \in Seq(Units) /\ b \in Seq(Units) /\ buffer \in Seq(Units)
        BY <1>3, <2>1
      <3> QED BY <3>1, ConcatAssociative
    <2> QED BY <1>1, <1>2, <1>3, <2>1, <2>2, ConcatProperties
  <1>5. StepType'
    BY <1>1, <1>2, <1>3, <1>4 DEF StepInv, StepType
  <1>6. OrderInv' /\ Prefix' /\ Waiting' = Waiting
    BY <1>1, OrderStays, WaitingStays DEF StepInv
  <1>7. Kept'
    BY <1>4, <1>6 DEF StepInv, Kept
  <1>8. Prompt' /\ InTurn'
    BY <1>1 DEF Prompt, InTurn
  <1> QED BY <1>5, <1>6, <1>7, <1>8 DEF StepInv

\* A layer finds no message and the loop ends.
LEMMA ReturnInStep ==
  ASSUME StepInv, Return
  PROVE  StepInv'
  <1>1. /\ Parsed = Nothing /\ looping /\ looping' = FALSE
        /\ messages' = messages /\ inflight' = inflight /\ buffer' = buffer
        /\ terminated' = terminated /\ processor' = processor /\ handled' = handled
    BY DEF Return, clientVars, routerVars
  <1>2. OrderInv' /\ Prefix' /\ Waiting' = Waiting
    BY <1>1, OrderStays, WaitingStays DEF StepInv
  <1>3. StepType' /\ Kept' /\ InTurn'
    BY <1>1, <1>2 DEF StepInv, StepType, Kept, InTurn
  <1>4. Prompt'
    <2>1. ASSUME Waiting # <<>>
          PROVE  Len(buffer) < Len(Encode(Waiting[1])) \/ Malformed(Waiting[1])
      BY <1>1, <2>1, NextFound DEF StepInv
    <2> QED BY <1>1, <1>2, <2>1 DEF Prompt
  <1> QED BY <1>2, <1>3, <1>4 DEF StepInv

\* A number that is none ends the process.
LEMMA TerminateInStep ==
  ASSUME StepInv, Terminate
  PROVE  StepInv'
  <1>1. /\ Parsed # Nothing /\ looping /\ processor = "http" /\ Throws(Parsed.message)
        /\ looping' = FALSE /\ terminated' = TRUE
        /\ messages' = messages /\ inflight' = inflight /\ buffer' = buffer
        /\ processor' = processor /\ handled' = handled
    BY DEF Terminate, HasMessage, clientVars, routerVars
  <1>2. OrderInv' /\ Prefix' /\ Waiting' = Waiting
    BY <1>1, OrderStays, WaitingStays DEF StepInv
  <1>3. StepType' /\ Kept' /\ Prompt'
    BY <1>1, <1>2 DEF StepInv, StepType, Kept, Prompt
  <1>4. InTurn'
    <2>1. Waiting # <<>>
      BY <1>1, NothingWaits DEF StepInv
    <2>2. Parsed.message = Waiting[1] /\ ~IsFrame(Waiting[1])
      BY <1>1, <2>1, NextParsed, InCharge DEF StepInv
    <2>3. Throws(Waiting[1])
      BY <1>1, <2>2
    <2> QED BY <1>2, <2>1, <2>2, <2>3 DEF InTurn
  <1> QED BY <1>2, <1>3, <1>4 DEF StepInv

\* The HTTP layer takes a request.
LEMMA RequestInStep ==
  ASSUME StepInv, Upgrade \/ Route \/ NotFound
  PROVE  StepInv'
  <1>1. Consume /\ processor = "http" /\ looping' = looping /\ ~Throws(Parsed.message)
    BY DEF Upgrade, Route, NotFound, Consume
  <1>2. /\ Upgrade => Upgrades(Parsed.message) /\ processor' = "websocket"
        /\ Route \/ NotFound => ~Upgrades(Parsed.message) /\ processor' = "http"
    BY DEF Upgrade, Route, NotFound, routerVars
  <1>3. ~IsFrame(Parsed.message)
    BY <1>1, Taken, InCharge DEF StepInv
  <1>4. CASE Upgrade
    <2>1. Switches(Parsed.message) /\ processor' = "websocket"
      BY <1>1, <1>2, <1>3, <1>4 DEF Switches
    <2>2. OrderInv'
      BY <1>1, <2>1, TakenInOrder
    <2> QED BY <1>1, <2>1, <2>2, TakenInStep DEF StepInv, StepType
  <1>5. CASE Route \/ NotFound
    <2>1. ~Switches(Parsed.message) /\ processor' = "http"
      BY <1>2, <1>5 DEF Switches
    <2>2. OrderInv'
      BY <1>1, <2>1, TakenInOrder
    <2> QED BY <1>1, <2>1, <2>2, TakenInStep DEF StepInv, StepType
  <1> QED BY <1>4, <1>5

\* The websocket layer takes a frame.
LEMMA FrameInStep ==
  ASSUME StepInv, CloseFrame \/ Frame
  PROVE  StepInv'
  <1>1. Consume /\ processor = "websocket" /\ processor' = "websocket" /\ looping' = looping
    BY DEF CloseFrame, Frame, routerVars
  <1>2. OrderInv'
    BY <1>1, TakenInOrder
  <1> QED BY <1>1, <1>2, TakenInStep DEF StepInv, StepType

\* The layers are in step at first,
LEMMA StepInit == Init => StepInv
  <1> SUFFICES ASSUME Init PROVE StepInv
    OBVIOUS
  <1>1. /\ messages = <<>> /\ handled = <<>> /\ buffer = <<>> /\ inflight = <<>>
        /\ processor = "http" /\ looping = FALSE /\ terminated = FALSE
    BY DEF Init
  <1>2. DOMAIN messages = {} /\ DOMAIN handled = {} /\ Len(handled) = 0 /\ Len(messages) = 0
    BY <1>1
  <1>3. StepType /\ OrderInv /\ Prefix
    BY <1>1, <1>2 DEF StepType, OrderInv, Prefix
  <1>4. Waiting = <<>>
    <2>1. Waiting \in Seq(Messages) /\ Len(Waiting) = 0
      BY <1>2, <1>3, WaitingIs
    <2> QED BY <2>1, EmptySeq
  <1>5. Kept
    <2>1. buffer \o inflight = <<>>
      BY <1>1
    <2> QED BY <1>4, <2>1, EncodingEmpty DEF Kept
  <1> QED BY <1>1, <1>3, <1>4, <1>5 DEF StepInv, Prompt, InTurn

\* and after every step.
LEMMA StepStep == StepInv /\ [Next]_vars => StepInv'
  <1> SUFFICES ASSUME StepInv, [Next]_vars PROVE StepInv'
    OBVIOUS
  <1>1. ASSUME NEW m \in Requests \cup Frames, ClientSend(m) PROVE StepInv'
    BY <1>1, SendInStep DEF Messages
  <1>2. ASSUME NEW n \in 1..MaxSegment, Receive(n) PROVE StepInv'
    BY <1>2, ReceiveInStep
  <1>3. CASE Upgrade \/ Route \/ NotFound
    BY <1>3, RequestInStep
  <1>4. CASE CloseFrame \/ Frame
    BY <1>4, FrameInStep
  <1>5. CASE Return
    BY <1>5, ReturnInStep
  <1>6. CASE Terminate
    BY <1>6, TerminateInStep
  <1>7. CASE StreamPart \/ Exhausted \/ UNCHANGED vars
    <2>1. /\ messages' = messages /\ inflight' = inflight /\ buffer' = buffer
          /\ looping' = looping /\ terminated' = terminated
          /\ processor' = processor /\ handled' = handled
      BY <1>7 DEF StreamPart, Exhausted, vars, clientVars, routerVars
    <2>2. OrderInv' /\ Prefix' /\ Waiting' = Waiting
      BY <2>1, OrderStays, WaitingStays DEF StepInv
    <2> QED BY <2>1, <2>2 DEF StepInv, StepType, Kept, Prompt, InTurn
  <1> QED BY <1>1, <1>2, <1>3, <1>4, <1>5, <1>6, <1>7 DEF Next, Layers

\* So its parts always hold.
THEOREM StepInvariant == Spec => []StepInv
  BY StepInit, StepStep, PTL DEF Spec

\* However the stream is cut into segments, the router is given the client's
\* messages, each once and in order, every other byte is kept, no whole
\* message is left in the buffer when ProtocolLayer::Process returns, and a
\* number that is none ends the process when its turn comes.
THEOREM LayersKeepInStep == Spec => []InStep
  BY StepInvariant, StepsAreInStep, PTL

-----------------------------------------------------------------------------
(* Websocket frames as bytes. The leaves that see lengths, which are large *)
(* numbers, are for the SMT solver alone.                                  *)

\* What a length in two bytes, and in four, amounts to.
LEMMA TwoBytes ==
  ASSUME NEW n \in Nat, n < 65536, NEW x, x = (n \div 256) % 256, NEW y, y = n % 256
  PROVE  x * 256 + y = n
  <1>1. PICK q \in Nat : q = n \div 256
    BY SMT
  <1>2. y \in 0..255
    BY SMT
  <1>3. n = q * 256 + y
    BY SMT, <1>1, <1>2
  <1>4. q < 256
    BY SMT, <1>2, <1>3
  <1>5. q % 256 = q
    BY SMT, <1>4
  <1>6. x = q
    BY SMT, <1>1, <1>5
  <1> QED BY SMT, <1>3, <1>6

LEMMA FourBytes ==
  ASSUME NEW n \in Nat, n <= 2147483647,
         NEW w, w = (n \div 16777216) % 256, NEW x, x = (n \div 65536) % 256,
         NEW y, y = (n \div 256) % 256, NEW z, z = n % 256
  PROVE  w * 16777216 + x * 65536 + y * 256 + z = n
  <1>1. PICK a \in Nat : a = n \div 16777216
    BY SMT
  <1>2. PICK b \in Nat : b = n \div 65536
    BY SMT
  <1>3. PICK c \in Nat : c = n \div 256
    BY SMT
  <1>4. z \in 0..255
    BY SMT
  <1>5. n = c * 256 + z
    BY SMT, <1>3, <1>4
  <1>6. b * 65536 <= n /\ n < b * 65536 + 65536
    BY SMT, <1>2
  <1>7. a * 16777216 <= n /\ n < a * 16777216 + 16777216
    BY SMT, <1>1
  <1>8. c % 256 = c - 256 * b
    BY SMT, <1>4, <1>5, <1>6
  <1>9. b % 256 = b - 256 * a
    BY SMT, <1>6, <1>7
  <1>10. a % 256 = a
    BY SMT, <1>7
  <1>11. a * 16777216 + (b - 256 * a) * 65536 + (c - 256 * b) * 256 + z = n
    BY SMT, <1>4, <1>5
  <1>12. w = a
    BY SMT, <1>1, <1>10
  <1>13. x = b - 256 * a
    BY SMT, <1>2, <1>9
  <1>14. y = c - 256 * b
    BY SMT, <1>3, <1>8
  <1> QED BY SMT, <1>11, <1>12, <1>13, <1>14

\* The bytes that BigEndian writes.
LEMMA BigEndianIs ==
  ASSUME NEW n, NEW w \in Int, NEW x \in Int, NEW y \in Int, NEW z \in Int,
         Octets(n) = <<0, 0, 0, 0, w, x, y, z>>
  PROVE  /\ BigEndian(n, 2) \in Seq(Int) /\ Len(BigEndian(n, 2)) = 2
         /\ BigEndian(n, 2)[1] = y /\ BigEndian(n, 2)[2] = z
         /\ BigEndian(n, 8) \in Seq(Int) /\ Len(BigEndian(n, 8)) = 8
         /\ BigEndian(n, 8)[5] = w /\ BigEndian(n, 8)[6] = x
         /\ BigEndian(n, 8)[7] = y /\ BigEndian(n, 8)[8] = z
  <1>1. PICK s : s = Octets(n)
    OBVIOUS
  <1>2. s = <<0, 0, 0, 0, w, x, y, z>>
    BY SMT, <1>1
  <1>3. s \in Seq(Int) /\ Len(s) = 8
    BY SMT, <1>2
  <1>4. s[5] = w /\ s[6] = x /\ s[7] = y /\ s[8] = z
    BY SMT, <1>2
  <1>5. SubSeq(s, 1, 8) = s
    BY SMT, <1>3, SubSeqFull
  <1>6. 9 - 8 = 1 /\ 9 - 2 = 7
    BY SMT
  <1>7. BigEndian(n, 8) = s
    BY SMT, <1>1, <1>5, <1>6 DEF BigEndian
  <1>8. PICK u : u = SubSeq(s, 7, 8)
    OBVIOUS
  <1>9. /\ u \in Seq(Int) /\ Len(u) = 8 - 7 + 1
        /\ \A i \in 1..2 : u[i] = s[7 + i - 1]
    <2>1. \A i \in 7..8 : s[i] \in Int
      BY SMT, <1>4
    <2> QED BY SMT, <2>1, <1>3, <1>8, SubSeqProperties
  <1>10. BigEndian(n, 2) = u
    BY SMT, <1>1, <1>6, <1>8 DEF BigEndian
  <1>11. u[1] = y /\ u[2] = z
    BY SMT, <1>4, <1>9
  <1>12. u \in Seq(Int) /\ Len(u) = 2
    BY SMT, <1>9
  <1>13. BigEndian(n, 8) \in Seq(Int) /\ Len(BigEndian(n, 8)) = 8
    BY SMT, <1>3, <1>7
  <1>14. /\ BigEndian(n, 8)[5] = w /\ BigEndian(n, 8)[6] = x
         /\ BigEndian(n, 8)[7] = y /\ BigEndian(n, 8)[8] = z
    BY SMT, <1>4, <1>7
  <1>15. BigEndian(n, 2) \in Seq(Int) /\ Len(BigEndian(n, 2)) = 2
    BY SMT, <1>10, <1>12
  <1>16. BigEndian(n, 2)[1] = y /\ BigEndian(n, 2)[2] = z
    BY SMT, <1>10, <1>11
  <1> QED BY SMT, <1>13, <1>14, <1>15, <1>16

\* The four bytes of n, and what a parser makes of them.
OctetsOf(n, w, x, y, z) ==
  /\ Octets(n) = <<0, 0, 0, 0, w, x, y, z>>
  /\ n < 65536 => y * 256 + z = n
  /\ n <= 2147483647 => w * 16777216 + x * 65536 + y * 256 + z = n

\* A number has four bytes.
LEMMA OctetsAre ==
  ASSUME NEW n \in Nat
  PROVE  \E w, x, y, z \in Int : OctetsOf(n, w, x, y, z)
  <1>1. PICK w \in Int : w = (n \div 16777216) % 256
    BY SMT
  <1>2. PICK x \in Int : x = (n \div 65536) % 256
    BY SMT
  <1>3. PICK y \in Int : y = (n \div 256) % 256
    BY SMT
  <1>4. PICK z \in Int : z = n % 256
    BY SMT
  <1>5. Octets(n) = <<0, 0, 0, 0, w, x, y, z>>
    BY SMT, <1>1, <1>2, <1>3, <1>4 DEF Octets
  <1>6. n < 65536 => y * 256 + z = n
    BY SMT, <1>3, <1>4, TwoBytes
  <1>7. n <= 2147483647 => w * 16777216 + x * 65536 + y * 256 + z = n
    BY SMT, <1>1, <1>2, <1>3, <1>4, FourBytes
  <1>8. OctetsOf(n, w, x, y, z)
    BY SMT, <1>5, <1>6, <1>7 DEF OctetsOf
  <1> QED BY Zenon, <1>8

\* A sequence that begins with two bytes.
LEMMA TwoAndMore ==
  ASSUME NEW a \in Int, NEW b \in Int, NEW s \in Seq(Int), NEW t \in Seq(Int)
  PROVE  LET h == <<a>> \o (<<b>> \o s) \o t
         IN /\ h \in Seq(Int)
            /\ Len(h) = 2 + Len(s) + Len(t)
            /\ h[1] = a /\ h[2] = b
            /\ \A i \in 1..Len(s) : h[2 + i] = s[i]
  BY SMT

\* How long the length in a frame's head is, beyond its second byte,
Ext(f) == IF f.length < 126 THEN 0 ELSE IF f.length < 65536 THEN 2 ELSE 8

\* and what the second byte says of it.
Code(f) == IF f.length < 126 THEN f.length ELSE IF f.length < 65536 THEN 126 ELSE 127

\* A frame's fields.
LEMMA FrameType ==
  ASSUME NEW f \in WebsocketFrame
  PROVE  /\ f.length \in Nat /\ f.length <= 2147483647
         /\ f.fin \in 0..1 /\ f.opcode \in 0..15
  <1>1. f.length \in Lengths /\ f.fin \in 0..1 /\ f.opcode \in Opcodes
    BY SMT DEF WebsocketFrame
  <1>2. \A n \in Lengths : n \in Nat
    BY SMT, FramingAssumption
  <1>7. \A n \in Opcodes : n \in 0..15
    BY SMT, FramingAssumption
  <1>3. \A n \in Lengths : n <= 2147483647
    BY SMT, FramingAssumption
  <1>4. f.length <= 2147483647
    BY SMT, <1>1, <1>3
  <1>5. f.length \in Nat
    BY SMT, <1>1, <1>2
  <1>6. f.opcode \in 0..15
    BY SMT, <1>1, <1>7
  <1> QED BY SMT, <1>1, <1>4, <1>5, <1>6

\* The length of f is in the bytes behind the second one, unless it is in that.
LengthIn(f, h) ==
  /\ Ext(f) = 2 => h[3] * 256 + h[4] = f.length
  /\ Ext(f) = 8 => h[7] * 16777216 + h[8] * 65536 + h[9] * 256 + h[10] = f.length

\* The head a client writes, byte by byte.
LEMMA HeadIs ==
  ASSUME NEW f \in WebsocketFrame, NEW mask \in 0..1, NEW h, h = ClientHead(f, mask)
  PROVE  /\ h \in Seq(Int)
         /\ Len(h) = 2 + Ext(f) + 4 * mask
         /\ h[1] = f.fin * 128 + f.opcode
         /\ h[2] = mask * 128 + Code(f)
         /\ LengthIn(f, h)
  <1> DEFINE key == IF mask = 1 THEN <<Payload, Payload, Payload, Payload>> ELSE <<>>
  <1>1. PICK n \in Nat : n = f.length
    BY SMT, FrameType
  <1>2. n <= 2147483647
    BY SMT, FrameType, <1>1
  <1>3. Payload \in Int
    BY SMT, FramingAssumption
  <1>4. PICK t : t = key
    OBVIOUS
  <1>5. t \in Seq(Int) /\ Len(t) = 4 * mask
    BY SMT, <1>3, <1>4
  <1>6. PICK a \in Int : a = f.fin * 128 + f.opcode
    BY SMT, FrameType
  <1>7. PICK b \in Int : b = mask * 128 + Code(f)
    BY SMT, <1>1 DEF Code
  <1>8. PICK w \in Int, x \in Int, y \in Int, z \in Int : OctetsOf(n, w, x, y, z)
    BY Zenon, OctetsAre
  <1>9. /\ BigEndian(n, 2) \in Seq(Int) /\ Len(BigEndian(n, 2)) = 2
        /\ BigEndian(n, 2)[1] = y /\ BigEndian(n, 2)[2] = z
        /\ BigEndian(n, 8) \in Seq(Int) /\ Len(BigEndian(n, 8)) = 8
        /\ BigEndian(n, 8)[5] = w /\ BigEndian(n, 8)[6] = x
        /\ BigEndian(n, 8)[7] = y /\ BigEndian(n, 8)[8] = z
    BY SMT, <1>8, BigEndianIs DEF OctetsOf
  <1>10. PICK s : s = IF n < 126 THEN <<>> ELSE IF n < 65536 THEN BigEndian(n, 2) ELSE BigEndian(n, 8)
    OBVIOUS
  <1>11. s \in Seq(Int)
    BY SMT, <1>9, <1>10
  <1>12. Len(s) = Ext(f)
    <2>1. Len(BigEndian(n, 2)) = 2 /\ Len(BigEndian(n, 8)) = 8
      BY SMT, <1>9
    <2>2. n < 126 => Len(s) = Ext(f)
      BY SMT, <1>1, <1>10 DEF Ext
    <2>3. n >= 126 /\ n < 65536 => Len(s) = Ext(f)
      <3>1. n >= 126 /\ n < 65536 => s = BigEndian(n, 2)
        BY SMT, <1>10
      <3>2. n >= 126 /\ n < 65536 => Ext(f) = 2
        BY SMT, <1>1 DEF Ext
      <3> QED BY SMT, <2>1, <3>1, <3>2
    <2>4. n >= 65536 => Len(s) = Ext(f)
      <3>1. n >= 65536 => s = BigEndian(n, 8)
        BY SMT, <1>10
      <3>2. n >= 65536 => Ext(f) = 8
        BY SMT, <1>1 DEF Ext
      <3> QED BY SMT, <2>1, <3>1, <3>2
    <2> QED BY SMT, <2>2, <2>3, <2>4
  <1>13. ClientHead(f, mask) = <<a>> \o (<<b>> \o s) \o t
    <2>1. <<b>> \o <<>> = <<b>>
      BY SMT, <1>7
    <2>2. CASE n < 126
      BY SMT, <2>1, <2>2, <1>1, <1>4, <1>6, <1>7, <1>10 DEF ClientHead, Code
    <2>3. CASE n >= 126 /\ n < 65536
      <3>1. b = mask * 128 + 126 /\ s = BigEndian(n, 2)
        BY SMT, <2>3, <1>1, <1>7, <1>10 DEF Code
      <3>2. ClientHead(f, mask) = <<a>> \o (<<mask * 128 + 126>> \o BigEndian(n, 2)) \o t
        <4>1. ~(f.length < 126) /\ f.length < 65536
          BY SMT, <2>3, <1>1
        <4>2. ClientHead(f, mask)
              = <<f.fin * 128 + f.opcode>> \o (<<mask * 128 + 126>> \o BigEndian(f.length, 2)) \o key
          BY SMT, <4>1 DEF ClientHead
        <4> HIDE DEF key
        <4> QED BY SMT, <4>2, <1>1, <1>4, <1>6
      <3> QED BY SMT, <3>1, <3>2
    <2>4. CASE n >= 65536
      <3>1. b = mask * 128 + 127 /\ s = BigEndian(n, 8)
        BY SMT, <2>4, <1>1, <1>7, <1>10 DEF Code
      <3>2. ClientHead(f, mask) = <<a>> \o (<<mask * 128 + 127>> \o BigEndian(n, 8)) \o t
        <4>1. ~(f.length < 126) /\ ~(f.length < 65536)
          BY SMT, <2>4, <1>1
        <4>2. ClientHead(f, mask)
              = <<f.fin * 128 + f.opcode>> \o (<<mask * 128 + 127>> \o BigEndian(f.length, 8)) \o key
          BY SMT, <4>1 DEF ClientHead
        <4> HIDE DEF key
        <4> QED BY SMT, <4>2, <1>1, <1>4, <1>6
      <3> QED BY SMT, <3>1, <3>2
    <2> QED BY SMT, <2>2, <2>3, <2>4
  <1>14. h = <<a>> \o (<<b>> \o s) \o t
    BY SMT, <1>13
  <1>15. /\ h \in Seq(Int)
         /\ Len(h) = 2 + Len(s) + Len(t)
         /\ h[1] = a /\ h[2] = b
         /\ \A i \in 1..Len(s) : h[2 + i] = s[i]
    BY SMT, <1>5, <1>11, <1>14, TwoAndMore
  <1>16. Len(h) = 2 + Ext(f) + 4 * mask
    BY SMT, <1>5, <1>12, <1>15 DEF Ext
  <1>17. Ext(f) = 2 => h[3] * 256 + h[4] = f.length
    <2> SUFFICES ASSUME Ext(f) = 2 PROVE h[3] * 256 + h[4] = f.length
      OBVIOUS
    <2>1. n >= 126 /\ n < 65536
      BY SMT, <1>1 DEF Ext
    <2>2. s = BigEndian(n, 2)
      BY SMT, <1>10, <2>1
    <2>3. h[2 + 1] = s[1] /\ h[2 + 2] = s[2]
      BY SMT, <1>12, <1>15
    <2>4. s[1] = y /\ s[2] = z
      <3>1. BigEndian(n, 2)[1] = y /\ BigEndian(n, 2)[2] = z
        BY SMT, <1>9
      <3> QED BY SMT, <3>1, <2>2
    <2>5. h[3] = y /\ h[4] = z
      BY SMT, <2>3, <2>4
    <2>6. y * 256 + z = n
      BY SMT, <1>8, <2>1 DEF OctetsOf
    <2> QED BY SMT, <1>1, <2>5, <2>6
  <1>18. Ext(f) = 8 => h[7] * 16777216 + h[8] * 65536 + h[9] * 256 + h[10] = f.length
    <2> SUFFICES ASSUME Ext(f) = 8 PROVE h[7] * 16777216 + h[8] * 65536 + h[9] * 256 + h[10] = f.length
      OBVIOUS
    <2>1. n >= 65536
      BY SMT, <1>1 DEF Ext
    <2>2. s = BigEndian(n, 8)
      BY SMT, <1>10, <2>1
    <2>3. h[2 + 5] = s[5] /\ h[2 + 6] = s[6] /\ h[2 + 7] = s[7] /\ h[2 + 8] = s[8]
      BY SMT, <1>12, <1>15
    <2>4. s[5] = w /\ s[6] = x /\ s[7] = y /\ s[8] = z
      <3>1. /\ BigEndian(n, 8)[5] = w /\ BigEndian(n, 8)[6] = x
            /\ BigEndian(n, 8)[7] = y /\ BigEndian(n, 8)[8] = z
        BY SMT, <1>9
      <3> QED BY SMT, <3>1, <2>2
    <2>5. h[7] = w /\ h[8] = x /\ h[9] = y /\ h[10] = z
      BY SMT, <2>3, <2>4
    <2>6. w * 16777216 + x * 65536 + y * 256 + z = n
      BY SMT, <1>2, <1>8 DEF OctetsOf
    <2> QED BY SMT, <1>1, <2>5, <2>6
  <1>19. h[1] = f.fin * 128 + f.opcode /\ h[2] = mask * 128 + Code(f)
    BY SMT, <1>6, <1>7, <1>15
  <1>20. LengthIn(f, h)
    BY SMT, <1>17, <1>18 DEF LengthIn
  <1> QED BY SMT, <1>15, <1>16, <1>19, <1>20

\* What the parser reads in the two bytes that every head begins with.
LEMMA BeginningRead ==
  ASSUME NEW f \in WebsocketFrame, NEW mask \in 0..1,
         NEW a, a = f.fin * 128 + f.opcode, NEW b, b = mask * 128 + Code(f)
  PROVE  /\ a \div 128 = f.fin /\ a % 16 = f.opcode
         /\ b % 128 = Code(f) /\ b \div 128 = mask
         /\ ExtLen(b % 128) = Ext(f)
         /\ Ext(f) = 0 => b % 128 = f.length
  <1>1. PICK n \in Nat : n = f.length
    BY SMT, FrameType
  <1>2. PICK u \in 0..1 : u = f.fin
    BY SMT, FrameType
  <1>3. PICK v \in 0..15 : v = f.opcode
    BY SMT, FrameType
  <1>4. PICK c \in 0..127 : c = Code(f)
    BY SMT, <1>1 DEF Code
  <1>5. a = u * 128 + v /\ b = mask * 128 + c
    BY SMT, <1>2, <1>3, <1>4
  <1>6. a \div 128 = u /\ a % 16 = v
    BY SMT, <1>5
  <1>7. b % 128 = c /\ b \div 128 = mask
    BY SMT, <1>5
  <1>8. ExtLen(c) = Ext(f)
    BY SMT, <1>1, <1>4 DEF ExtLen, Ext, Code, ext1Len, ext2Len
  <1>9. Ext(f) = 0 => c = n
    BY SMT, <1>1, <1>4 DEF Ext, Code
  <1> QED BY SMT, <1>1, <1>2, <1>3, <1>4, <1>6, <1>7, <1>8, <1>9

\* What Parse returns of a frame, with the bytes it takes.
Found(f, n) == [fin |-> f.fin, opcode |-> f.opcode, length |-> f.length, taken |-> n]

\* What has arrived in p begins like h.
Begins(p, have, h) == \A i \in 1..14 : i <= Len(h) /\ i <= have => p[i] = h[i]

\* The parser takes the frame whose head the buffer begins with as soon as
\* all of it is there, and nothing before, whatever the buffer holds behind it.
LEMMA ParseFrame ==
  ASSUME NEW f \in WebsocketFrame, NEW mask \in 0..1, NEW h, h = ClientHead(f, mask),
         NEW have \in Nat, NEW p, Begins(p, have, h)
  PROVE  Parse(p, have) = IF have >= Len(h) + f.length
                          THEN Found(f, Len(h) + f.length)
                          ELSE NoFrame
  <1>1. /\ h \in Seq(Int) /\ Len(h) = 2 + Ext(f) + 4 * mask
        /\ h[1] = f.fin * 128 + f.opcode /\ h[2] = mask * 128 + Code(f)
    BY SMT, HeadIs
  <1>2. LengthIn(f, h)
    BY SMT, HeadIs
  <1>3. PICK n \in Nat : n = f.length
    BY SMT, FrameType
  <1>4. PICK e \in {0, 2, 8} : e = Ext(f)
    BY SMT DEF Ext
  <1>5. PICK l \in Nat : l = Len(h)
    BY SMT, <1>1
  <1>6. l = 2 + e + 4 * mask /\ l \in 2..14
    <2>1. l = 2 + e + 4 * mask
      BY SMT, <1>1, <1>4, <1>5
    <2> QED BY SMT, <2>1
  <1>7. CASE have < 2
    <2>1. Parse(p, have) = NoFrame
      BY SMT, <1>7 DEF Parse, Complete, headerLen
    <2>2. ~(have >= l + n)
      BY SMT, <1>6, <1>7
    <2> QED BY SMT, <2>1, <2>2, <1>3, <1>5
  <1>8. CASE have >= 2
    <2>1. p[1] = h[1] /\ p[2] = h[2]
      BY SMT, <1>5, <1>6, <1>8 DEF Begins
    <2>2. /\ p[1] \div 128 = f.fin /\ p[1] % 16 = f.opcode
          /\ p[2] % 128 = Code(f) /\ p[2] \div 128 = mask
          /\ ExtLen(p[2] % 128) = Ext(f)
          /\ Ext(f) = 0 => p[2] % 128 = f.length
      <3>1. p[1] = f.fin * 128 + f.opcode /\ p[2] = mask * 128 + Code(f)
        BY SMT, <2>1, <1>1
      <3> QED BY SMT, <3>1, BeginningRead
    <2>3. CASE have < l
      <3>1. ~Complete(have, headerLen + Ext(f) + mask * maskLen)
        BY SMT, <2>3, <1>4, <1>6 DEF Complete, headerLen, maskLen
      <3>2. Parse(p, have) = NoFrame
        BY SMT, <3>1, <2>2 DEF Parse
      <3>3. ~(have >= l + n)
        BY SMT, <2>3
      <3> QED BY SMT, <3>2, <3>3, <1>3, <1>5
    <2>4. CASE have >= l
      <3>1. Complete(have, headerLen) /\ Complete(have, headerLen + Ext(f) + mask * maskLen)
        BY SMT, <2>4, <1>4, <1>6, <1>8 DEF Complete, headerLen, maskLen
      <3>2. PICK len : len = PayloadLen(p, Ext(f))
        OBVIOUS
      <3>3. len = n
        <4>1. CASE e = 0
          BY SMT, <4>1, <3>2, <2>2, <1>3, <1>4 DEF PayloadLen
        <4>2. CASE e = 2
          <5>1. p[3] = h[3] /\ p[4] = h[4]
            BY SMT, <4>2, <2>4, <1>5, <1>6 DEF Begins
          <5>2. len = p[3] * 256 + p[4]
            BY SMT, <4>2, <3>2, <1>4 DEF PayloadLen, ExtendedLength, ext1Len, headerLen
          <5> QED BY SMT, <5>1, <5>2, <4>2, <1>2, <1>3, <1>4 DEF LengthIn
        <4>3. CASE e = 8
          <5>1. p[7] = h[7] /\ p[8] = h[8] /\ p[9] = h[9] /\ p[10] = h[10]
            BY SMT, <4>3, <2>4, <1>5, <1>6 DEF Begins
          <5>2. len = p[7] * 16777216 + p[8] * 65536 + p[9] * 256 + p[10]
            BY SMT, <4>3, <3>2, <1>4 DEF PayloadLen, ExtendedLength, ext1Len, headerLen
          <5> QED BY SMT, <5>1, <5>2, <4>3, <1>2, <1>3, <1>4 DEF LengthIn
        <4> QED BY SMT, <4>1, <4>2, <4>3
      <3>4. Required(Ext(f), mask, len) = l + n
        BY SMT, <3>3, <1>4, <1>6 DEF Required, headerLen, maskLen
      <3>5. Parse(p, have) = IF ~Complete(have, Required(Ext(f), mask, len)) THEN NoFrame
                             ELSE [fin |-> f.fin, opcode |-> f.opcode, length |-> len,
                                   taken |-> Required(Ext(f), mask, len)]
        BY SMT, <3>1, <3>2, <2>2 DEF Parse
      <3> QED BY SMT, <3>3, <3>4, <3>5, <1>3, <1>5 DEF Complete, Found
    <2> QED BY SMT, <2>3, <2>4, <1>5
  <1> QED BY SMT, <1>7, <1>8

-----------------------------------------------------------------------------
(* The invariant of the framing: the stream is made of the client's heads, *)
(* its frames follow each other without a gap, and the parser stands at    *)
(* the border behind the last frame it took.                               *)

\* An answer the sender wrote.
Written == {[frame |-> f, head |-> SendHead(f)] : f \in WebsocketFrame}

FramingType ==
  /\ sent \in Seq(WebsocketFrame) /\ frames \in Seq(WebsocketFrame) /\ answers \in Seq(Written)
  /\ arrived \in Nat /\ erased \in Nat /\ parsing \in BOOLEAN

Heads ==
  /\ stream \in Seq([head : Seq(Int), start : Nat]) /\ Len(stream) = Len(sent)
  /\ \A k \in 1..Len(sent) : \E mask \in 0..1 : stream[k].head = ClientHead(sent[k], mask)

Borders ==
  /\ Start(1) = 0
  /\ \A k \in 1..Len(sent) : Start(k + 1) = Start(k) + Size(k)
  /\ \A j \in 1..Len(sent), k \in 1..(Len(sent) + 1) : j < k => Start(j) + Size(j) <= Start(k)

Reader ==
  /\ Len(frames) <= Len(sent) /\ \A i \in 1..Len(frames) : frames[i] = sent[i]
  /\ erased = Start(Len(frames) + 1) /\ erased <= arrived /\ arrived <= Total
  /\ ~parsing /\ Len(frames) < Len(sent) => arrived < Start(Len(frames) + 2)

FramingInv == FramingType /\ Heads /\ Borders /\ Reader

\* Where frames begin, and how long they are, are numbers.
LEMMA BorderTypes ==
  ASSUME FramingType, Heads
  PROVE  /\ Len(sent) \in Nat
         /\ \A k \in 1..Len(sent) : /\ Start(k) = stream[k].start /\ Start(k) \in Nat
                                    /\ stream[k].head \in Seq(Int) /\ Len(stream[k].head) >= 2
                                    /\ Size(k) = Len(stream[k].head) + sent[k].length
                                    /\ sent[k].length \in Nat
         /\ Start(Len(sent) + 1) = Total
         /\ Total \in Nat
  <1>1. PICK m \in Nat : m = Len(sent) /\ m = Len(stream)
    BY DEF FramingType, Heads
  <1>2. DOMAIN stream = 1..m
    BY <1>1 DEF Heads
  <1>3. ASSUME NEW k \in 1..m
        PROVE  /\ Start(k) = stream[k].start /\ Start(k) \in Nat
               /\ stream[k].head \in Seq(Int) /\ Len(stream[k].head) >= 2
               /\ Size(k) = Len(stream[k].head) + sent[k].length
               /\ sent[k].length \in Nat
    <2>1. stream[k] \in [head : Seq(Int), start : Nat]
      BY <1>1, ElementOfSeq DEF Heads
    <2>2. Start(k) = stream[k].start
      BY <1>2 DEF Start
    <2>3. sent[k] \in WebsocketFrame
      BY <1>1, ElementOfSeq DEF FramingType
    <2>4. sent[k].length \in Nat
      BY <2>3, FrameType
    <2>5. PICK mask \in 0..1 : stream[k].head = ClientHead(sent[k], mask)
      BY <1>1 DEF Heads
    <2>6. Len(stream[k].head) = 2 + Ext(sent[k]) + 4 * mask
      BY <2>3, <2>5, HeadIs, SMT
    <2>7. Ext(sent[k]) \in {0, 2, 8}
      BY SMT DEF Ext
    <2>8. Len(stream[k].head) >= 2
      BY <2>6, <2>7, SMT
    <2> QED BY <2>1, <2>2, <2>4, <2>8 DEF Size
  <1>4. Start(m + 1) = Total
    BY <1>1, <1>2 DEF Start
  <1>5. Total \in Nat
    <2>1. CASE stream = <<>>
      BY <2>1 DEF Total
    <2>2. CASE stream # <<>>
      <3>1. m \in 1..m
        BY <2>2, <1>1 DEF Heads
      <3>2. Total = stream[m].start + Size(m)
        BY <2>2, <1>1 DEF Total
      <3>3. /\ stream[m].start \in Nat /\ Size(m) = Len(stream[m].head) + sent[m].length
            /\ stream[m].head \in Seq(Int) /\ sent[m].length \in Nat
        BY <3>1, <1>3
      <3> QED BY <3>2, <3>3
    <2> QED BY <2>1, <2>2
  <1> QED BY <1>1, <1>3, <1>4, <1>5

\* The stream holds, from where a frame begins, the bytes of its head.
LEMMA AtIs ==
  ASSUME FramingInv, NEW k \in 1..Len(sent), NEW i \in 1..Len(stream[k].head)
  PROVE  At(Start(k) + i) = stream[k].head[i]
  <1>1. PICK m \in Nat : m = Len(sent) /\ m = Len(stream)
    BY DEF FramingInv, FramingType, Heads
  <1>2. DOMAIN stream = 1..m
    BY <1>1 DEF FramingInv, Heads
  <1>3. \A j \in 1..m : Start(j) \in Nat /\ Size(j) \in Nat
    <2> SUFFICES ASSUME NEW j \in 1..m PROVE Start(j) \in Nat /\ Size(j) \in Nat
      OBVIOUS
    <2>1. /\ Start(j) \in Nat /\ Size(j) = Len(stream[j].head) + sent[j].length
          /\ sent[j].length \in Nat /\ stream[j].head \in Seq(Int)
      BY <1>1, BorderTypes DEF FramingInv
    <2> QED BY <2>1
  <1>4. i <= Size(k) /\ i \in Nat \ {0} /\ i <= Len(stream[k].head)
    <2>1. /\ Size(k) = Len(stream[k].head) + sent[k].length /\ sent[k].length \in Nat
          /\ stream[k].head \in Seq(Int)
      BY BorderTypes DEF FramingInv
    <2> QED BY <2>1
  <1>0. PICK x : x = Start(k) + i
    OBVIOUS
  <1> DEFINE Holds(j) == Start(j) < x /\ x <= Start(j) + Size(j)
  <1>5. \A j, l \in 1..m : j < l => Start(j) + Size(j) <= Start(l)
    BY <1>1 DEF FramingInv, Borders
  <1>6. k \in 1..m /\ Start(k) \in Nat /\ Size(k) \in Nat
    BY <1>1, <1>3
  <1>7. Holds(k)
    BY <1>0, <1>4, <1>6
  <1>8. ASSUME NEW j \in 1..m, Holds(j) PROVE j = k
    <2>1. CASE j < k
      <3>1. Start(j) + Size(j) <= Start(k)
        BY <2>1, <1>5, <1>6
      <3> QED BY <3>1, <1>0, <1>3, <1>4, <1>6, <1>8
    <2>2. CASE k < j
      <3>1. Start(k) + Size(k) <= Start(j)
        BY <2>2, <1>5, <1>6
      <3> QED BY <3>1, <1>0, <1>3, <1>4, <1>6, <1>8
    <2> QED BY <2>1, <2>2, <1>6
  <1>9. FrameAt(x) = k
    <2>1. FrameAt(x) = CHOOSE j \in DOMAIN stream : Holds(j)
      BY DEF FrameAt
    <2> HIDE DEF Holds
    <2> QED BY <2>1, <1>2, <1>6, <1>7, <1>8
  <1>10. At(x) = LET head == stream[k].head
                 IN IF x - Start(k) <= Len(head) THEN head[x - Start(k)] ELSE Payload
    BY <1>9 DEF At
  <1>11. x - Start(k) = i
    BY <1>0, <1>4, <1>6
  <1>12. At(x) = stream[k].head[i]
    BY <1>4, <1>10, <1>11
  <1> QED BY <1>0, <1>12

\* Where the parser stands it finds the next frame if all of it has arrived,
\* and nothing otherwise.
LEMMA ParsedIs ==
  ASSUME FramingInv, NEW k, k = Len(frames) + 1
  PROVE  IF k <= Len(sent) /\ arrived - erased >= Size(k)
         THEN ParsedFrame = Found(sent[k], Size(k))
         ELSE ParsedFrame = NoFrame
  <1> DEFINE p == [i \in 1..14 |-> IF erased + i <= arrived THEN At(erased + i) ELSE 0]
  <1>1. PICK m \in Nat : m = Len(sent) /\ m = Len(stream)
    BY DEF FramingInv, FramingType, Heads
  <1>2. k \in 1..(m + 1)
    BY <1>1 DEF FramingInv, FramingType, Reader
  <1>3. erased \in Nat /\ arrived \in Nat /\ erased <= arrived /\ erased = Start(k) /\ arrived <= Total
    BY DEF FramingInv, FramingType, Reader
  <1>4. PICK have \in Nat : have = arrived - erased
    BY <1>3
  <1>5. ParsedFrame = Parse(p, have)
    BY <1>4 DEF ParsedFrame
  <1>6. CASE k = m + 1
    <2>1. Start(k) = Total /\ Total \in Nat
      BY <1>1, <1>6, BorderTypes DEF FramingInv
    <2>2. have = 0
      BY <2>1, <1>3, <1>4
    <2> HIDE DEF p
    <2>3. ParsedFrame = NoFrame
      BY <2>2, <1>5, SMT DEF Parse, Complete, headerLen
    <2> QED BY <2>3, <1>1, <1>2, <1>6
  <1>7. CASE k <= m
    <2>1. k \in 1..Len(sent)
      BY <1>1, <1>2, <1>7
    <2>2. PICK h : h = stream[k].head
      OBVIOUS
    <2>3. PICK f \in WebsocketFrame : f = sent[k]
      BY <2>1, ElementOfSeq DEF FramingInv, FramingType
    <2>4. PICK mask \in 0..1 : h = ClientHead(f, mask)
      BY <2>1, <2>2, <2>3 DEF FramingInv, Heads
    <2>5. Size(k) = Len(h) + f.length /\ h \in Seq(Int) /\ f.length \in Nat
      BY <2>1, <2>2, <2>3, BorderTypes DEF FramingInv
    <2>6. ASSUME NEW i \in 1..14, i <= Len(h), i <= have PROVE p[i] = h[i]
      <3>1. i \in 1..Len(h)
        BY <2>5, <2>6
      <3>2. At(erased + i) = h[i]
        BY <3>1, <2>1, <2>2, <1>3, AtIs
      <3>3. erased + i <= arrived
        BY <2>6, <1>3, <1>4
      <3> QED BY <3>2, <3>3
    <2> HIDE DEF p
    <2>7. Begins(p, have, h)
      BY <2>6 DEF Begins
    <2>8. Parse(p, have) = IF have >= Len(h) + f.length
                           THEN Found(f, Len(h) + f.length)
                           ELSE NoFrame
      BY <2>4, <2>7, ParseFrame, Zenon
    <2> QED BY <2>1, <2>3, <2>5, <2>8, <1>4, <1>5
  <1> QED BY <1>2, <1>6, <1>7

\* The parser's step keeps its place.
LEMMA ReaderStep ==
  ASSUME FramingInv, Take \/ Wait
  PROVE  FramingType' /\ Heads' /\ Borders' /\ Reader'
  <1>1. PICK m \in Nat : m = Len(sent)
    BY DEF FramingInv, FramingType
  <1>2. PICK n \in Nat : n = Len(frames)
    BY DEF FramingInv, FramingType
  <1>3. sent' = sent /\ stream' = stream /\ arrived' = arrived
    BY DEF Take, Wait
  <1>4. Total' = Total /\ \A k : Start(k)' = Start(k) /\ Size(k)' = Size(k)
    BY <1>3 DEF Total, Start, Size
  <1>5. Heads' /\ Borders'
    BY <1>3, <1>4 DEF FramingInv, Heads, Borders
  <1>6. /\ n <= m /\ erased = Start(n + 1) /\ erased <= arrived /\ arrived <= Total
        /\ \A i \in 1..n : frames[i] = sent[i]
        /\ sent \in Seq(WebsocketFrame) /\ frames \in Seq(WebsocketFrame)
        /\ arrived \in Nat /\ erased \in Nat /\ answers \in Seq(Written)
    BY <1>1, <1>2 DEF FramingInv, FramingType, Reader
  <1>7. IF n + 1 <= m /\ arrived - erased >= Size(n + 1)
        THEN ParsedFrame = Found(sent[n + 1], Size(n + 1))
        ELSE ParsedFrame = NoFrame
    BY <1>1, <1>2, ParsedIs
  <1>8. CASE Take
    <2>1. n + 1 <= m /\ arrived - erased >= Size(n + 1) /\ ParsedFrame = Found(sent[n + 1], Size(n + 1))
      BY <1>7, <1>8 DEF Take
    <2>2. PICK f \in WebsocketFrame : f = sent[n + 1]
      <3>1. n + 1 \in 1..m
        BY <2>1
      <3> QED BY <3>1, <1>1, <1>6, ElementOfSeq
    <2>3. f = [fin |-> ParsedFrame.fin, opcode |-> ParsedFrame.opcode, length |-> ParsedFrame.length]
      BY <2>1, <2>2 DEF Found, WebsocketFrame
    <2>4. frames' = Append(frames, f) /\ answers' = Append(answers, [frame |-> f, head |-> SendHead(f)])
      BY <2>3, <1>8 DEF Take, Send
    <2>5. erased' = erased + Size(n + 1) /\ parsing' = parsing /\ parsing
      BY <2>1, <1>8 DEF Take, Found
    <2>6. /\ frames' \in Seq(WebsocketFrame) /\ Len(frames') = n + 1
          /\ \A i \in 1..n : frames'[i] = frames[i]
          /\ frames'[n + 1] = f
      BY <2>2, <2>4, <1>2, <1>6
    <2>7. \A i \in 1..(n + 1) : frames'[i] = sent[i]
      BY <2>2, <2>6, <1>2, <1>6
    <2>8. [frame |-> f, head |-> SendHead(f)] \in Written
      BY DEF Written
    <2>9. answers' \in Seq(Written)
      BY <2>4, <2>8, <1>6
    <2>10. /\ Start(n + 2) = Start(n + 1) + Size(n + 1)
           /\ Start(n + 1) \in Nat /\ Size(n + 1) \in Nat
      <3>1. n + 1 \in 1..Len(sent) /\ n + 1 + 1 = n + 2
        BY <2>1, <1>1
      <3>2. Start(n + 1 + 1) = Start(n + 1) + Size(n + 1)
        BY <3>1 DEF FramingInv, Borders
      <3>3. /\ Start(n + 1) \in Nat /\ Size(n + 1) = Len(stream[n + 1].head) + sent[n + 1].length
            /\ sent[n + 1].length \in Nat /\ stream[n + 1].head \in Seq(Int)
        BY <3>1, BorderTypes DEF FramingInv
      <3> QED BY <3>1, <3>2, <3>3
    <2>11. erased' = Start(n + 2) /\ erased' \in Nat /\ erased' <= arrived
      BY <2>1, <2>5, <2>10, <1>6
    <2>12. FramingType'
      BY <2>5, <2>6, <2>9, <2>11, <1>3, <1>6 DEF FramingType
    <2>13. n + 1 + 1 = n + 2
      OBVIOUS
    <2>14. Reader'
      BY <2>1, <2>5, <2>6, <2>7, <2>11, <2>13, <1>1, <1>3, <1>4, <1>6 DEF Reader
    <2> QED BY <2>12, <2>14, <1>5
  <1>9. CASE Wait
    <2>1. erased' = erased /\ frames' = frames /\ answers' = answers /\ parsing' = FALSE
      BY <1>9 DEF Wait
    <2>2. n < m => arrived < Start(n + 2)
      <3> SUFFICES ASSUME n < m PROVE arrived < Start(n + 2)
        OBVIOUS
      <3>1. n + 1 \in 1..Len(sent) /\ n + 1 + 1 = n + 2 /\ n + 1 <= m
        BY <1>1
      <3>2. ParsedFrame = NoFrame /\ NoFrame.fin = -1
        BY <1>9 DEF Wait, NoFrame
      <3>3. sent[n + 1] \in WebsocketFrame
        BY <3>1, <1>6, ElementOfSeq
      <3>4. Found(sent[n + 1], Size(n + 1)).fin \in 0..1
        BY <3>3, FrameType DEF Found
      <3>5. ~(arrived - erased >= Size(n + 1))
        BY <3>1, <3>2, <3>4, <1>7
      <3>6. Start(n + 1 + 1) = Start(n + 1) + Size(n + 1)
        BY <3>1 DEF FramingInv, Borders
      <3>7. /\ Start(n + 1) \in Nat /\ Size(n + 1) = Len(stream[n + 1].head) + sent[n + 1].length
            /\ sent[n + 1].length \in Nat /\ stream[n + 1].head \in Seq(Int)
        BY <3>1, BorderTypes DEF FramingInv
      <3> QED BY <3>1, <3>5, <3>6, <3>7, <1>6
    <2>3. FramingType'
      BY <2>1, <1>3, <1>6 DEF FramingType
    <2>4. Reader'
      BY <2>1, <2>2, <1>1, <1>2, <1>3, <1>4, <1>6 DEF Reader
    <2> QED BY <2>3, <2>4, <1>5
  <1> QED BY <1>8, <1>9

\* A segment ends within what the client sent.
LEMMA SegmentStep ==
  ASSUME FramingInv, Segment
  PROVE  FramingType' /\ Heads' /\ Borders' /\ Reader'
  <1>1. /\ sent' = sent /\ stream' = stream /\ erased' = erased /\ frames' = frames
        /\ answers' = answers /\ parsing' = TRUE
    BY DEF Segment
  <1>2. Total' = Total /\ \A k : Start(k)' = Start(k) /\ Size(k)' = Size(k)
    BY <1>1 DEF Total, Start, Size
  <1>3. Heads' /\ Borders'
    BY <1>1, <1>2 DEF FramingInv, Heads, Borders
  <1>4. arrived' \in Cuts /\ arrived' > arrived
    BY DEF Segment
  <1>5. PICK k \in DOMAIN stream :
          \E i \in (1..Len(stream[k].head)) \cup {Size(k) - 1, Size(k)} : arrived' = Start(k) + i
    BY <1>4 DEF Cuts
  <1>6. PICK i \in (1..Len(stream[k].head)) \cup {Size(k) - 1, Size(k)} : arrived' = Start(k) + i
    BY <1>5
  <1>7. PICK m \in Nat : m = Len(sent)
    BY DEF FramingInv, FramingType
  <1>8. k \in 1..m
    BY <1>7 DEF FramingInv, Heads
  <1>9. /\ Start(k) \in Nat /\ Size(k) = Len(stream[k].head) + sent[k].length
        /\ sent[k].length \in Nat /\ stream[k].head \in Seq(Int) /\ Len(stream[k].head) >= 2
        /\ Start(m + 1) = Total /\ Total \in Nat
    BY <1>7, <1>8, BorderTypes DEF FramingInv
  <1>10. Start(k) + Size(k) <= Total
    <2>1. k < m + 1 /\ m + 1 \in 1..(m + 1)
      BY <1>8
    <2>2. Start(k) + Size(k) <= Start(m + 1)
      BY <2>1, <1>7, <1>8 DEF FramingInv, Borders
    <2> QED BY <2>2, <1>9
  <1>11. i \in Int /\ i <= Size(k)
    BY <1>9
  <1>12. arrived' \in Int /\ arrived' <= Total
    <2>1. PICK b \in Nat : b = Start(k)
      BY <1>9
    <2>2. PICK t \in Nat : t = Total
      BY <1>9
    <2>3. PICK z : z = Size(k)
      OBVIOUS
    <2>4. z \in Int
      BY <1>9, <2>3
    <2>5. arrived' = b + i /\ b + z <= t /\ i \in Int /\ i <= z
      BY <1>6, <1>10, <1>11, <2>1, <2>2, <2>3
    <2>6. arrived' \in Int /\ arrived' <= t
      BY <2>4, <2>5
    <2> QED BY <2>2, <2>6
  <1>13. arrived \in Nat /\ erased \in Nat /\ erased <= arrived
    BY DEF FramingInv, FramingType, Reader
  <1>14. arrived' \in Nat /\ erased <= arrived'
    BY <1>4, <1>12, <1>13
  <1>15. FramingType'
    BY <1>1, <1>14 DEF FramingInv, FramingType
  <1>16. Reader'
    BY <1>1, <1>2, <1>12, <1>14 DEF FramingInv, Reader
  <1> QED BY <1>3, <1>15, <1>16

\* A frame the client sends begins where the stream ended.
LEMMA SendFrameStep ==
  ASSUME FramingInv, NEW f \in WebsocketFrame, NEW mask \in 0..1, SendFrame(f, mask)
  PROVE  FramingType' /\ Heads' /\ Borders' /\ Reader'
  <1>1. PICK m \in Nat : m = Len(sent) /\ m = Len(stream)
    BY DEF FramingInv, FramingType, Heads
  <1>2. PICK h : h = ClientHead(f, mask)
    OBVIOUS
  <1>3. PICK r : r = [head |-> h, start |-> Total]
    OBVIOUS
  <1>4. /\ sent' = Append(sent, f) /\ stream' = Append(stream, r)
        /\ arrived' = arrived /\ erased' = erased /\ parsing' = parsing /\ frames' = frames
        /\ answers' = answers
    BY <1>2, <1>3 DEF SendFrame
  <1>5. h \in Seq(Int) /\ Len(h) >= 2
    <2>1. h \in Seq(Int) /\ Len(h) = 2 + Ext(f) + 4 * mask
      BY <1>2, HeadIs, SMT
    <2>2. Ext(f) \in {0, 2, 8}
      BY SMT DEF Ext
    <2> QED BY <2>1, <2>2, SMT
  <1>6. f.length \in Nat
    BY FrameType
  <1>7. /\ \A k \in 1..m : Start(k) \in Nat /\ stream[k].start = Start(k)
        /\ Total \in Nat /\ Start(m + 1) = Total
    BY <1>1, BorderTypes DEF FramingInv
  <1>8. r \in [head : Seq(Int), start : Nat] /\ r.head = h /\ r.start = Total
    BY <1>3, <1>5, <1>7
  <1>9. sent \in Seq(WebsocketFrame) /\ stream \in Seq([head : Seq(Int), start : Nat])
    BY DEF FramingInv, FramingType, Heads
  <1>10. /\ sent' \in Seq(WebsocketFrame) /\ Len(sent') = m + 1
         /\ \A k \in 1..m : sent'[k] = sent[k]
         /\ sent'[m + 1] = f
    <2>1. sent \in Seq(WebsocketFrame)
      BY <1>9
    <2>2. /\ Append(sent, f) \in Seq(WebsocketFrame)
          /\ Len(Append(sent, f)) = Len(sent) + 1
          /\ \A k \in 1..Len(sent) : Append(sent, f)[k] = sent[k]
          /\ Append(sent, f)[Len(sent) + 1] = f
      BY <2>1, AppendProperties
    <2> QED BY <1>1, <1>4, <2>2
  <1>11. /\ stream' \in Seq([head : Seq(Int), start : Nat]) /\ Len(stream') = m + 1
         /\ \A k \in 1..m : stream'[k] = stream[k]
         /\ stream'[m + 1] = r
    BY <1>1, <1>4, <1>8, <1>9
  <1>12. DOMAIN stream' = 1..(m + 1) /\ stream' # <<>>
    BY <1>11
  <1>13. FramingType'
    BY <1>4, <1>10 DEF FramingInv, FramingType
  <1>14. Heads'
    <2>1. ASSUME NEW k \in 1..(m + 1) PROVE \E key \in 0..1 : stream'[k].head = ClientHead(sent'[k], key)
      <3>1. CASE k = m + 1
        BY <3>1, <1>2, <1>8, <1>10, <1>11
      <3>2. CASE k # m + 1
        <4>1. k \in 1..m
          BY <3>2
        <4>2. \E key \in 0..1 : stream[k].head = ClientHead(sent[k], key)
          BY <4>1, <1>1 DEF FramingInv, Heads
        <4> QED BY <4>1, <4>2, <1>10, <1>11
      <3> QED BY <3>1, <3>2
    <2> QED BY <2>1, <1>10, <1>11 DEF Heads
  <1>15. \A k \in 1..m : Start(k)' = Start(k) /\ Size(k)' = Size(k)
    <2> SUFFICES ASSUME NEW k \in 1..m PROVE Start(k)' = Start(k) /\ Size(k)' = Size(k)
      OBVIOUS
    <2>1. Start(k)' = stream'[k].start
      BY <1>12 DEF Start
    <2>2. stream'[k] = stream[k] /\ sent'[k] = sent[k] /\ stream[k].start = Start(k)
      BY <1>7, <1>10, <1>11
    <2> QED BY <2>1, <2>2 DEF Size
  <1>16. Start(m + 1)' = Total /\ Size(m + 1)' = Len(h) + f.length
    <2>1. Start(m + 1)' = stream'[m + 1].start
      BY <1>12 DEF Start
    <2> QED BY <2>1, <1>8, <1>10, <1>11 DEF Size
  <1>17. Start(m + 1)' = Start(m + 1)
    BY <1>7, <1>16
  <1>18. Total' = Start(m + 1)' + Size(m + 1)'
    <2>1. Total' = stream'[m + 1].start + Size(m + 1)'
      BY <1>11, <1>12 DEF Total
    <2> QED BY <2>1, <1>8, <1>11, <1>16
  <1>19. Start(m + 2)' = Total'
    <2>1. m + 2 \notin DOMAIN stream'
      BY <1>12
    <2> QED BY <2>1 DEF Start
  <1>20. Total < Total' /\ Total' \in Nat
    BY <1>5, <1>6, <1>7, <1>16, <1>18
  <1>21. \A k \in 1..(m + 1) : Start(k)' = Start(k)
    BY <1>15, <1>17
  <1>22. \A k \in 1..(m + 1) : Start(k + 1)' = Start(k)' + Size(k)'
    <2> SUFFICES ASSUME NEW k \in 1..(m + 1) PROVE Start(k + 1)' = Start(k)' + Size(k)'
      OBVIOUS
    <2>1. CASE k = m + 1
      <3>1. m + 1 + 1 = m + 2
        OBVIOUS
      <3> QED BY <2>1, <3>1, <1>18, <1>19
    <2>2. CASE k # m + 1
      <3>1. k \in 1..m /\ k + 1 \in 1..(m + 1)
        BY <2>2
      <3>2. Start(k + 1) = Start(k) + Size(k)
        BY <3>1, <1>1 DEF FramingInv, Borders
      <3>3. Start(k + 1)' = Start(k + 1) /\ Start(k)' = Start(k) /\ Size(k)' = Size(k)
        BY <3>1, <1>15, <1>21
      <3> QED BY <3>2, <3>3
    <2> QED BY <2>1, <2>2
  <1>23. \A j \in 1..(m + 1), k \in 1..(m + 2) : j < k => Start(j)' + Size(j)' <= Start(k)'
    <2> SUFFICES ASSUME NEW j \in 1..(m + 1), NEW k \in 1..(m + 2), j < k
                 PROVE  Start(j)' + Size(j)' <= Start(k)'
      OBVIOUS
    <2>1. CASE j = m + 1
      <3>1. k = m + 2
        BY <2>1
      <3> QED BY <2>1, <3>1, <1>16, <1>18, <1>19, <1>20
    <2>2. CASE j # m + 1
      <3>1. j \in 1..m /\ Start(j)' = Start(j) /\ Size(j)' = Size(j)
        BY <2>2, <1>15
      <3>2. CASE k = m + 2
        <4>1. m + 1 \in 1..(m + 1) /\ j < m + 1
          BY <3>1
        <4>2. Start(j) + Size(j) <= Start(m + 1)
          BY <3>1, <4>1, <1>1 DEF FramingInv, Borders
        <4>3. Start(j) \in Nat /\ Size(j) \in Int
          <5>1. /\ Start(j) \in Nat /\ Size(j) = Len(stream[j].head) + sent[j].length
                /\ sent[j].length \in Nat /\ stream[j].head \in Seq(Int)
            BY <3>1, <1>1, BorderTypes DEF FramingInv
          <5> QED BY <5>1
        <4> QED BY <3>1, <3>2, <4>2, <4>3, <1>7, <1>19, <1>20
      <3>3. CASE k # m + 2
        <4>1. k \in 1..(m + 1)
          BY <3>3
        <4>2. Start(j) + Size(j) <= Start(k)
          BY <3>1, <4>1, <1>1 DEF FramingInv, Borders
        <4>3. Start(k)' = Start(k)
          BY <4>1, <1>21
        <4> QED BY <3>1, <4>2, <4>3
      <3> QED BY <3>2, <3>3
    <2> QED BY <2>1, <2>2
  <1>24. Borders'
    <2>1. Start(1)' = 0
      BY <1>21 DEF FramingInv, Borders
    <2>2. m + 1 + 1 = m + 2
      OBVIOUS
    <2> QED BY <2>1, <2>2, <1>10, <1>22, <1>23 DEF Borders
  <1>25. PICK n \in Nat : n = Len(frames)
    BY DEF FramingInv, FramingType
  <1>26. /\ n <= m /\ \A i \in 1..n : frames[i] = sent[i]
         /\ erased = Start(n + 1) /\ erased <= arrived /\ arrived <= Total
         /\ ~parsing /\ n < m => arrived < Start(n + 2)
         /\ arrived \in Nat
    BY <1>1, <1>25 DEF FramingInv, FramingType, Reader
  <1>27. \A i \in 1..n : frames'[i] = sent'[i]
    BY <1>4, <1>10, <1>26
  <1>28. erased' = Start(n + 1)'
    <2>1. n + 1 \in 1..(m + 1)
      BY <1>26
    <2> QED BY <2>1, <1>4, <1>21, <1>26
  <1>29. erased' <= arrived' /\ arrived' <= Total'
    BY <1>4, <1>7, <1>20, <1>26
  <1>30. ~parsing' /\ n < m + 1 => arrived' < Start(n + 2)'
    <2> SUFFICES ASSUME ~parsing, n < m + 1 PROVE arrived < Start(n + 2)'
      BY <1>4
    <2>1. CASE n = m
      BY <2>1, <1>7, <1>19, <1>20, <1>26
    <2>2. CASE n # m
      <3>1. n < m /\ n + 2 \in 1..(m + 1)
        BY <2>2, <1>26
      <3> QED BY <3>1, <1>21, <1>26
    <2> QED BY <2>1, <2>2
  <1>31. Reader'
    <2>1. Len(frames') = n /\ Len(sent') = m + 1 /\ n <= m + 1
      BY <1>4, <1>10, <1>25, <1>26
    <2> QED BY <2>1, <1>27, <1>28, <1>29, <1>30 DEF Reader
  <1> QED BY <1>13, <1>14, <1>24, <1>31

\* The invariant of the framing.
THEOREM FramingInvariant == FramingSpec => []FramingInv
  <1>1. FramingInit => FramingInv
    <2> SUFFICES ASSUME FramingInit PROVE FramingInv
      OBVIOUS
    <2>1. /\ sent = <<>> /\ stream = <<>> /\ arrived = 0 /\ erased = 0 /\ parsing = FALSE
          /\ frames = <<>> /\ answers = <<>>
      BY DEF FramingInit
    <2>2. Total = 0
      BY <2>1 DEF Total
    <2>3. Start(1) = 0 /\ Start(Len(frames) + 1) = 0
      BY <2>1, <2>2 DEF Start
    <2>4. FramingType
      <3>1. <<>> \in Seq(WebsocketFrame) /\ <<>> \in Seq(Written)
        BY EmptySeq
      <3> QED BY <2>1, <3>1 DEF FramingType
    <2>5. Heads
      BY <2>1 DEF Heads
    <2>6. Borders
      BY <2>1, <2>3 DEF Borders
    <2>7. Reader
      BY <2>1, <2>2, <2>3 DEF Reader
    <2> QED BY <2>4, <2>5, <2>6, <2>7 DEF FramingInv
  <1>2. FramingInv /\ [FramingNext]_framingVars => FramingInv'
    <2> SUFFICES ASSUME FramingInv, [FramingNext]_framingVars PROVE FramingInv'
      OBVIOUS
    <2>1. ASSUME NEW f \in WebsocketFrame, NEW mask \in 0..1, SendFrame(f, mask) PROVE FramingInv'
      BY <2>1, SendFrameStep DEF FramingInv
    <2>2. CASE Segment
      BY <2>2, SegmentStep DEF FramingInv
    <2>3. CASE Take
      BY <2>3, ReaderStep DEF FramingInv
    <2>4. CASE Wait
      BY <2>4, ReaderStep DEF FramingInv
    <2>5. CASE AllFramed \/ UNCHANGED framingVars
      <3>1. /\ sent' = sent /\ stream' = stream /\ arrived' = arrived /\ erased' = erased
            /\ parsing' = parsing /\ frames' = frames /\ answers' = answers
        BY <2>5 DEF AllFramed, framingVars
      <3>2. Total' = Total /\ \A k : Start(k)' = Start(k) /\ Size(k)' = Size(k)
        BY <3>1 DEF Total, Start, Size
      <3> QED BY <3>1, <3>2 DEF FramingInv, FramingType, Heads, Borders, Reader
    <2> QED BY <2>1, <2>2, <2>3, <2>4, <2>5 DEF FramingNext
  <1> QED BY <1>1, <1>2, PTL DEF FramingSpec

\* The parser returns the client's frames, in order, with flag, opcode and
\* length, cuts the buffer exactly at the border between two of them, and
\* waits only while the next one is incomplete, for any lengths and however
\* the stream is cut.
THEOREM FramesKeepInStep == FramingSpec => []FramesInStep
  <1>1. FramingInv => FramesInStep
    <2> SUFFICES ASSUME FramingInv PROVE FramesInStep
      OBVIOUS
    <2>1. IsPrefix(frames, sent)
      BY PrefixIs DEF FramingInv, FramingType, Reader
    <2> QED BY <2>1 DEF FramingInv, Reader, FramesInStep
  <1> QED BY <1>1, FramingInvariant, PTL

\* Two bytes of a number are a sequence.
LEMMA BytesType ==
  ASSUME NEW n \in Nat
  PROVE  BigEndian(n, 2) \in Seq(Int)
  <1>1. PICK w \in Int, x \in Int, y \in Int, z \in Int : OctetsOf(n, w, x, y, z)
    BY Zenon, OctetsAre
  <1> QED BY SMT, <1>1, BigEndianIs DEF OctetsOf

\* A sender's head is the one a client writes that does not mask.
LEMMA SendHeadIs ==
  ASSUME NEW f \in WebsocketFrame, f.length < 65536
  PROVE  SendHead(f) = ClientHead(f, 0)
  <1>1. PICK n \in Nat : n = f.length
    BY SMT, FrameType
  <1>2. n < 65536
    BY SMT, <1>1
  <1>3. PICK a \in Int : a = f.fin * 128 + f.opcode
    BY SMT, FrameType
  <1>4. 0 * 128 + n = n /\ 0 * 128 + 126 = 126
    BY SMT
  <1>5. PICK t : t = BigEndian(n, 2)
    OBVIOUS
  <1>6. t \in Seq(Int)
    <2>1. BigEndian(n, 2) \in Seq(Int)
      BY SMT, BytesType
    <2> QED BY SMT, <1>5, <2>1
  <1>7. CASE n < 126
    <2>1. SendHead(f) = <<a>> \o <<n>>
      BY SMT, <1>1, <1>3, <1>7 DEF SendHead
    <2>2. ClientHead(f, 0) = <<a>> \o <<n>> \o <<>>
      BY SMT, <1>1, <1>3, <1>4, <1>7 DEF ClientHead
    <2>3. (<<a>> \o <<n>>) \o <<>> = <<a>> \o <<n>>
      BY SMT, <1>3
    <2> QED BY SMT, <2>1, <2>2, <2>3
  <1>8. CASE n >= 126
    <2>1. SendHead(f) = <<a>> \o (<<126>> \o t)
      BY SMT, <1>1, <1>2, <1>3, <1>5, <1>8 DEF SendHead
    <2>2. ClientHead(f, 0) = (<<a>> \o (<<126>> \o t)) \o <<>>
      BY SMT, <1>1, <1>2, <1>3, <1>4, <1>5, <1>8 DEF ClientHead
    <2>3. (<<a>> \o (<<126>> \o t)) \o <<>> = <<a>> \o (<<126>> \o t)
      BY SMT, <1>3, <1>6
    <2> QED BY SMT, <2>1, <2>2, <2>3
  <1> QED BY SMT, <1>7, <1>8

\* What Send writes is read back by a parser as the same frame, and all of it
\* is taken, for every payload of up to 65535 bytes.
THEOREM AnswersAreReadable == FramingSpec => []AnswersReadable
  <1>1. FramingInv => AnswersReadable
    <2> SUFFICES ASSUME FramingInv, NEW i \in DOMAIN answers, answers[i].frame.length < 65536
                 PROVE  LET f == answers[i].frame
                            head == answers[i].head
                            all == Len(head) + f.length
                            p == [j \in 1..14 |-> IF j <= Len(head) THEN head[j] ELSE Payload]
                        IN Parse(p, all) = [fin |-> f.fin, opcode |-> f.opcode, length |-> f.length,
                                            taken |-> all]
      BY SMT DEF AnswersReadable
    <2>1. answers[i] \in Written
      <3>1. answers \in Seq(Written)
        BY SMT DEF FramingInv, FramingType
      <3> QED BY SMT, <3>1
    <2>2. PICK f \in WebsocketFrame : answers[i] = [frame |-> f, head |-> SendHead(f)]
      BY SMT, <2>1 DEF Written
    <2>3. PICK h : h = SendHead(f)
      OBVIOUS
    <2>4. answers[i].frame = f /\ answers[i].head = h
      BY SMT, <2>2, <2>3
    <2>5. f.length < 65536 /\ f.length \in Nat
      BY SMT, <2>4, FrameType
    <2>6. h = ClientHead(f, 0)
      BY SMT, <2>3, <2>5, SendHeadIs
    <2>7. h \in Seq(Int) /\ Len(h) \in Nat
      BY SMT, <2>6, HeadIs
    <2>8. PICK all \in Nat : all = Len(h) + f.length
      BY SMT, <2>5, <2>7
    <2> DEFINE p == [j \in 1..14 |-> IF j <= Len(h) THEN h[j] ELSE Payload]
    <2>10. Begins(p, all, h)
      BY SMT, <2>7 DEF Begins
    <2> HIDE DEF p
    <2>11. Parse(p, all) = IF all >= Len(h) + f.length THEN Found(f, Len(h) + f.length) ELSE NoFrame
      <3>1. 0 \in 0..1
        BY SMT
      <3> QED BY SMT, <3>1, <2>6, <2>10, ParseFrame
    <2>12. Parse(p, all) = Found(f, all)
      BY SMT, <2>8, <2>11
    <2> QED BY SMT, <2>4, <2>8, <2>12 DEF Found, p
  <1> QED BY <1>1, FramingInvariant, PTL
=============================================================================
