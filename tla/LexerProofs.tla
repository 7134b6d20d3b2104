----------------------------- MODULE LexerProofs ----------------------------
(***************************************************************************)
(* Theorems about Lexer, for sources of any length.                        *)
(***************************************************************************)
EXTENDS Lexer, SequenceTheorems, FiniteSetTheorems, TLAPS

-----------------------------------------------------------------------------
(* The inductive invariant. *)

Newlines(p) == {n \in 1..p : source[n] = "\n"}

(* A line starts behind the last newline before it. *)
Starts(p, s) == s \in Newlines(p) \cup {0} /\ \A n \in Newlines(p) : n <= s

(* Line l and column c are those of position p. *)
InLine(p, l, c) == l = Cardinality(Newlines(p)) + 1 /\ Starts(p, p + 1 - c)

(* What has been read of the token that is scanned. *)
Chars(from, to, chars) == \A n \in from + 1..to : source[n] \in chars

Scanning == mode \in {"word", "number", "bad"}

Scanned ==
  Scanning =>
    /\ began.pos < pos
    /\ InLine(began.pos, began.line, began.col - 1)
    /\ mode = "word" => /\ source[began.pos + 1] \in Alpha
                        /\ Chars(began.pos, pos, Alnum \cup {"underscore"})
    /\ mode = "number" => Chars(began.pos, pos, Digit)
    /\ mode = "bad" =>
         /\ Chars(began.pos, pos, Alnum)
         /\ \E n \in began.pos + 1..pos - 1 :
              Chars(began.pos, n, Digit) /\ source[n + 1] \in Letter

(* Since the last token there was only white space. *)
LastEnd == IF tokens = <<>> THEN 0 ELSE tokens[Len(tokens)].end
Front   == IF Scanning THEN began.pos ELSE pos

Gap == LastEnd <= Front /\ Chars(LastEnd, Front, Space)

(* A call starts behind a token, or at the start of the source. *)
Behind == mode = "main" /\ verdict = "lexing" => pos = 0 \/ source[pos] \notin Space

IInv ==
  /\ TypeOK
  /\ InLine(pos, line, col)
  /\ Scanned
  /\ Gap
  /\ Behind
  /\ TokensAreMaximal
  /\ PlacesAreRight
  /\ AbortsAtEdgesOnly

-----------------------------------------------------------------------------
(* Characters and spellings. *)

LEMMA Characters ==
  /\ Letter \subseteq Alpha /\ Alpha \subseteq Char /\ Alnum \subseteq Char
  /\ Letter \subseteq Alnum /\ Digit \subseteq Alnum
  /\ Digit \subseteq Char /\ Space \subseteq Char /\ Other \subseteq Char
  /\ Alnum \cup {"underscore"} = Alpha \cup Digit
  /\ "\n" \in Space /\ "end" \notin Char
  /\ Digit \cap Alpha = {} /\ Digit \cap Letter = {}
  /\ Alpha \cap Space = {} /\ Alnum \cap Space = {} /\ Other \cap Space = {}
  /\ Alpha \cap Other = {} /\ Alnum \cap Other = {}
BY DEF Char, Letter, Digit, Space, Alpha, Alnum, Other

LEMMA SingleCharacters ==
  ASSUME NEW t \in Single
  PROVE  /\ t[1] \in Other /\ t[3] \in Char
         /\ t[2] \in DOMAIN Spelling
         /\ t[1] \in {"&", "|"} \/ Spelling[t[2]] = <<t[1]>>
BY DEF Single, Other, Char, Spelling

LEMMA DoubleCharacters ==
  ASSUME NEW t \in Double
  PROVE  /\ t[1] \in Other /\ t[2] \in Other
         /\ t[3] \in DOMAIN Spelling
         /\ (t[1] = "&" /\ t[2] = "|") \/ Spelling[t[3]] = <<t[1], t[2]>>
BY DEF Double, Other, Spelling

LEMMA Keywords ==
  ASSUME NEW w \in DOMAIN Keyword
  PROVE  /\ Keyword[w] \in DOMAIN Spelling /\ Spelling[Keyword[w]] = w
         /\ w \in Seq(Letter) /\ Len(w) >= 2
<1>1. {"i", "f", "n", "t", "v", "o", "d", "e", "l", "s", "r", "u"} \subseteq Letter
  BY DEF Letter
<1>2. w \in {<<"i","f">>, <<"i","n","t">>, <<"v","o","i","d">>, <<"e","l","s","e">>,
            <<"r","e","t","u","r","n">>}
  BY DEF Keyword
<1>3. Keyword[w] \in DOMAIN Spelling /\ Spelling[Keyword[w]] = w
  BY DEF Keyword, Spelling
<1>4. <<"i","f">> \in Seq(Letter) /\ Len(<<"i","f">>) >= 2
  BY <1>1
<1>5. <<"i","n","t">> \in Seq(Letter) /\ Len(<<"i","n","t">>) >= 2
  BY <1>1
<1>6. <<"v","o","i","d">> \in Seq(Letter) /\ Len(<<"v","o","i","d">>) >= 2
  BY <1>1
<1>7. <<"e","l","s","e">> \in Seq(Letter) /\ Len(<<"e","l","s","e">>) >= 2
  BY <1>1
<1>8. <<"r","e","t","u","r","n">> \in Seq(Letter) /\ Len(<<"r","e","t","u","r","n">>) >= 2
  BY <1>1
<1> QED
  BY <1>2, <1>3, <1>4, <1>5, <1>6, <1>7, <1>8

LEMMA NotKeywords ==
  /\ DOMAIN Spelling \cap {"CONSTANT", "IDENTIFIER", "INVALID", "ENDOFFILE"} = {}
  /\ Spelling["ASSIGNMENT"] = <<"=">> /\ "ASSIGNMENT" \in DOMAIN Spelling
BY DEF Spelling

(* What is spelled is one or two other characters, or a keyword. *)
Ones == {"!", "<", ">", "=", "+", "-", "semicolon", "lbrace", "rbrace", "(", ")", "~",
         "*", "/", "%", "?", ":"}

LEMMA SpelledWords ==
  ASSUME NEW w \in Spelled
  PROVE  \/ \E c \in Ones : w = <<c>>
         \/ \E t \in Double : w = <<t[1], t[2]>> /\ ~(t[1] = "&" /\ t[2] = "|")
         \/ w \in DOMAIN Keyword
BY DEF Spelled, Spelling, Ones, Double, Keyword

LEMMA OneCharacterWords ==
  /\ Ones \subseteq Other \ {"&", "|", "@"}
  /\ \A c \in Other : c \notin {"=", "@"} => \E t \in Single : t[1] = c
BY DEF Ones, Other, Single
-----------------------------------------------------------------------------
(* Pieces of the source. *)

LEMMA Piece ==
  ASSUME NEW s \in Seq(Char), NEW a \in Nat, NEW b \in Nat, a <= b, b <= Len(s)
  PROVE  /\ SubSeq(s, a + 1, b) \in Seq(Char)
         /\ Len(SubSeq(s, a + 1, b)) = b - a
         /\ DOMAIN SubSeq(s, a + 1, b) = 1..(b - a)
         /\ \A i \in 1..(b - a) : SubSeq(s, a + 1, b)[i] = s[a + i]
         /\ \A C : All(SubSeq(s, a + 1, b), C) <=> \A n \in a + 1..b : s[n] \in C
<1> DEFINE w == SubSeq(s, a + 1, b)
<1>1. Len(s) \in Nat /\ \A i \in 1..Len(s) : s[i] \in Char
  BY LenProperties
<1>2. \A i \in a + 1..b : s[i] \in Char
  BY <1>1
<1>3. /\ w \in Seq(Char)
      /\ Len(w) = IF a + 1 <= b THEN b - (a + 1) + 1 ELSE 0
      /\ \A i \in 1..b - (a + 1) + 1 : w[i] = s[a + 1 + i - 1]
  BY <1>2, SubSeqProperties
<1>4. Len(w) = b - a
  BY <1>3
<1>5. DOMAIN w = 1..(b - a)
  BY <1>3, <1>4, LenProperties
<1>6. \A i \in 1..(b - a) : w[i] = s[a + i]
  <2>1. \A i \in 1..(b - a) : i \in 1..b - (a + 1) + 1 /\ a + 1 + i - 1 = a + i
    OBVIOUS
  <2> QED
    BY <1>3, <2>1
<1>7. ASSUME NEW C PROVE All(w, C) <=> \A n \in a + 1..b : s[n] \in C
  <2>1. \A n \in a + 1..b : n - a \in 1..(b - a) /\ a + (n - a) = n
    OBVIOUS
  <2>2. \A i \in 1..(b - a) : a + i \in a + 1..b
    OBVIOUS
  <2> HIDE DEF w
  <2>3. ASSUME All(w, C), NEW n \in a + 1..b PROVE s[n] \in C
    BY <1>5, <1>6, <2>1, <2>3 DEF All
  <2>4. ASSUME \A n \in a + 1..b : s[n] \in C, NEW i \in 1..(b - a) PROVE w[i] \in C
    BY <1>6, <2>2, <2>4
  <2> QED
    BY <1>5, <2>3, <2>4 DEF All
<1> QED
  BY <1>3, <1>4, <1>5, <1>6, <1>7

(* A longer lexeme has characters of its first one's class. *)
LEMMA LongLexeme ==
  ASSUME NEW w \in Seq(Char), Len(w) >= 2, IsLexeme(w)
  PROVE  /\ w[1] \in Digit => All(w, Alnum)
         /\ w[1] \in Alpha => All(w, Alnum \cup {"underscore"})
         /\ w[1] \in Other => Len(w) = 2 /\ \E t \in Double : t[1] = w[1] /\ t[2] = w[2]
<1>1. Len(w) \in Nat /\ DOMAIN w = 1..Len(w) /\ 1 \in DOMAIN w
  BY LenProperties
<1>2. CASE IsConstant(w)
  BY <1>1, <1>2, Characters DEF IsConstant, All
<1>3. CASE IsIdentifier(w)
  BY <1>1, <1>3, Characters DEF IsIdentifier
<1>4. CASE IsInvalid(w)
  <2>1. PICK n \in 1..Len(w) - 1 : IsConstant(SubSeq(w, 1, n)) /\ All(w, Alnum)
    BY <1>1, <1>4 DEF IsInvalid
  <2>2. n \in Nat /\ 0 <= n /\ n <= Len(w) /\ 1 \in 1..(n - 0) /\ 0 + 1 = 1
    BY <1>1
  <2>3. DOMAIN SubSeq(w, 1, n) = 1..(n - 0) /\ SubSeq(w, 1, n)[1] = w[1]
    BY <2>2, Piece
  <2>4. w[1] \in Digit
    BY <2>1, <2>2, <2>3 DEF IsConstant, All
  <2> QED
    BY <2>1, <2>4, Characters
<1>5. CASE w \in Spelled
  <2>1. CASE \E c \in Ones : w = <<c>>
    BY <2>1
  <2>2. CASE \E t \in Double : w = <<t[1], t[2]>>
    <3>1. PICK t \in Double : w = <<t[1], t[2]>>
      BY <2>2
    <3>2. Len(w) = 2 /\ w[1] = t[1] /\ w[2] = t[2]
      BY <3>1
    <3> QED
      BY <3>2, DoubleCharacters, Characters
  <2>3. CASE w \in DOMAIN Keyword
    <3>1. \A i \in DOMAIN w : w[i] \in Letter
      BY <1>1, <2>3, Keywords, ElementOfSeq
    <3> QED
      BY <1>1, <3>1, Characters DEF All
  <2> QED
    BY <1>5, <2>1, <2>2, <2>3, SpelledWords
<1> QED
  BY <1>2, <1>3, <1>4, <1>5 DEF IsLexeme
-----------------------------------------------------------------------------
(* A token that is right where it is. *)

Token ==
  [token : DOMAIN Spelling \cup {"CONSTANT", "IDENTIFIER", "INVALID", "ENDOFFILE"},
   text : Seq(Char), line : Nat, col : Nat, first : Nat, end : Nat]

Munched(t, previous) ==
  /\ previous <= t.first
  /\ All(SubSeq(source, previous + 1, t.first), Space)
  /\ \/ Stray(t)
     \/ /\ Lexeme(t.token, Consumed(t))
        /\ \A n \in t.end + 1..Len(source) : ~IsLexeme(SubSeq(source, t.first + 1, n))
  /\ t.token \in {"IDENTIFIER", "CONSTANT"} => t.text = Consumed(t)
  /\ t.token = "ENDOFFILE" => t.end = Len(source)

Placed(t) ==
  LET newlines == {n \in 1..t.first : source[n] = "\n"}
      start == CHOOSE n \in newlines \cup {0} : \A m \in newlines : m <= n
      word == Consumed(t) # <<>> /\ Consumed(t)[1] \in Alpha \cup Digit
  IN  /\ t.line = Cardinality(newlines) + 1
      /\ t.col = t.first - start + 1 + (IF word THEN 1 ELSE 0)

LEMMA TokensByPart ==
  /\ TokensAreMaximal <=>
       \A k \in DOMAIN tokens : Munched(tokens[k], IF k = 1 THEN 0 ELSE tokens[k - 1].end)
  /\ PlacesAreRight <=> \A k \in DOMAIN tokens : Placed(tokens[k])
BY DEF TokensAreMaximal, PlacesAreRight, Munched, Placed

LEMMA Delivery ==
  ASSUME tokens \in Seq(Token), TokensAreMaximal, PlacesAreRight,
         NEW t \in Token, tokens' = Append(tokens, t), source' = source,
         Munched(t, LastEnd), Placed(t)
  PROVE  tokens' \in Seq(Token) /\ TokensAreMaximal' /\ PlacesAreRight' /\ LastEnd' = t.end
<1>1. /\ tokens' \in Seq(Token) /\ tokens' # <<>> /\ Len(tokens') = Len(tokens) + 1
      /\ \A k \in 1..Len(tokens) : tokens'[k] = tokens[k]
      /\ tokens'[Len(tokens) + 1] = t
  BY AppendProperties
<1>2. /\ Len(tokens) \in Nat /\ DOMAIN tokens = 1..Len(tokens)
      /\ DOMAIN tokens' = 1..Len(tokens) + 1
      /\ tokens # <<>> => Len(tokens) # 0
      /\ tokens = <<>> => Len(tokens) = 0
  BY <1>1, LenProperties, EmptySeq
<1>3. LastEnd' = t.end
  BY <1>1 DEF LastEnd
<1>4. \A k \in 1..Len(tokens) : k # 1 => k - 1 \in 1..Len(tokens)
  BY <1>2
<1>5. ASSUME NEW k \in 1..Len(tokens)
      PROVE  Munched(tokens[k], IF k = 1 THEN 0 ELSE tokens[k - 1].end)' /\ Placed(tokens[k])'
  <2>1. Munched(tokens[k], IF k = 1 THEN 0 ELSE tokens[k - 1].end) /\ Placed(tokens[k])
    BY <1>2, <1>5, TokensByPart
  <2>2. tokens'[k] = tokens[k] /\ (k # 1 => tokens'[k - 1] = tokens[k - 1])
    BY <1>1, <1>4, <1>5
  <2>3. Placed(tokens[k])'
    BY <2>1, <2>2 DEF Placed, Consumed
  <2>4. Munched(tokens[k], IF k = 1 THEN 0 ELSE tokens[k - 1].end)'
    BY <2>1, <2>2 DEF Munched, Stray, Consumed
  <2> QED
    BY <2>3, <2>4
<1>6. ASSUME NEW k \in {Len(tokens) + 1}
      PROVE  Munched(tokens[k], IF k = 1 THEN 0 ELSE tokens[k - 1].end)' /\ Placed(tokens[k])'
  <2>1. tokens'[k] = t
    BY <1>1, <1>6
  <2>2. LastEnd = IF k = 1 THEN 0 ELSE tokens'[k - 1].end
    <3>1. CASE tokens = <<>>
      BY <1>2, <1>6, <3>1 DEF LastEnd
    <3>2. CASE tokens # <<>>
      <4>1. k # 1 /\ k - 1 = Len(tokens) /\ k - 1 \in 1..Len(tokens)
        BY <1>2, <1>6, <3>2
      <4> QED
        BY <1>1, <3>2, <4>1 DEF LastEnd
    <3> QED
      BY <3>1, <3>2
  <2>3. Placed(tokens[k])'
    BY <2>1 DEF Placed, Consumed
  <2>4. Munched(tokens[k], IF k = 1 THEN 0 ELSE tokens[k - 1].end)'
    BY <2>1, <2>2 DEF Munched, Stray, Consumed
  <2> QED
    BY <2>3, <2>4
<1>7. TokensAreMaximal' /\ PlacesAreRight'
  <2>1. \A k \in DOMAIN tokens' : k \in 1..Len(tokens) \/ k \in {Len(tokens) + 1}
    BY <1>2
  <2>2. \A k \in DOMAIN tokens' :
          Munched(tokens[k], IF k = 1 THEN 0 ELSE tokens[k - 1].end)' /\ Placed(tokens[k])'
    BY <1>5, <1>6, <2>1
  <2> QED
    BY <2>2 DEF TokensAreMaximal, PlacesAreRight, Munched, Placed
<1> QED
  BY <1>1, <1>3, <1>7
-----------------------------------------------------------------------------
(* Lines and columns. *)

LEMMA OneStart ==
  ASSUME NEW p \in Nat, NEW s, Starts(p, s)
  PROVE  s = CHOOSE n \in Newlines(p) \cup {0} : \A m \in Newlines(p) : m <= n
<1>1. \A n \in Newlines(p) : n \in 1..p
  BY DEF Newlines
<1>2. ASSUME NEW u \in Newlines(p) \cup {0}, \A m \in Newlines(p) : m <= u PROVE u = s
  BY <1>1, <1>2 DEF Starts
<1>3. \E u \in Newlines(p) \cup {0} : \A m \in Newlines(p) : m <= u
  BY DEF Starts
<1> DEFINE start == CHOOSE n \in Newlines(p) \cup {0} : \A m \in Newlines(p) : m <= n
<1>4. start \in Newlines(p) \cup {0} /\ \A m \in Newlines(p) : m <= start
  BY <1>3
<1> QED
  BY <1>2, <1>4

LEMMA PlacedIn ==
  ASSUME NEW t \in Token, NEW c \in Nat, InLine(t.first, t.line, c),
         t.col = c + (IF Consumed(t) # <<>> /\ Consumed(t)[1] \in Alpha \cup Digit
                      THEN 1 ELSE 0)
  PROVE  Placed(t)
<1>1. t.first \in Nat /\ t.col \in Nat
  BY DEF Token
<1> DEFINE start == CHOOSE n \in Newlines(t.first) \cup {0} : \A m \in Newlines(t.first) : m <= n
<1>2. t.first + 1 - c = start
  BY <1>1, OneStart DEF InLine
<1> DEFINE more == IF Consumed(t) # <<>> /\ Consumed(t)[1] \in Alpha \cup Digit THEN 1 ELSE 0
<1>3. start \in Int /\ t.first - start + 1 = c
  <2>1. start \in Newlines(t.first) \cup {0}
    BY <1>1, <1>2 DEF InLine, Starts
  <2> HIDE DEF start
  <2>2. start \in Nat
    BY <1>1, <2>1 DEF Newlines
  <2> QED
    BY <1>1, <1>2, <2>2
<1>4. t.col = t.first - start + 1 + more
  BY <1>3
<1>5. t.line = Cardinality(Newlines(t.first)) + 1
  BY DEF InLine
<1> QED
  BY <1>4, <1>5 DEF Placed, Newlines

LEMMA CountNewlines ==
  ASSUME NEW p \in Nat
  PROVE  IsFiniteSet(Newlines(p)) /\ Cardinality(Newlines(p)) \in Nat
<1>1. IsFiniteSet(1..p)
  BY FS_Interval
<1>2. Newlines(p) \subseteq 1..p
  BY DEF Newlines
<1> QED
  BY <1>1, <1>2, FS_Subset, FS_CardinalityType

LEMMA NextPlace ==
  ASSUME NEW p \in Nat, NEW l \in Nat, NEW c \in Nat, InLine(p, l, c)
  PROVE  IF source[p + 1] = "\n" THEN InLine(p + 1, l + 1, 1) ELSE InLine(p + 1, l, c + 1)
<1>1. Newlines(p + 1) = Newlines(p) \cup (IF source[p + 1] = "\n" THEN {p + 1} ELSE {})
  BY DEF Newlines
<1>2. \A n \in Newlines(p) : n \in 1..p
  BY DEF Newlines
<1>3. CASE source[p + 1] = "\n"
  <2>1. Newlines(p + 1) = Newlines(p) \cup {p + 1} /\ p + 1 \notin Newlines(p)
    BY <1>1, <1>2, <1>3
  <2>2. Cardinality(Newlines(p + 1)) = Cardinality(Newlines(p)) + 1
    BY <2>1, CountNewlines, FS_AddElement
  <2>3. p + 1 + 1 - 1 = p + 1 /\ \A n \in Newlines(p) \cup {p + 1} : n <= p + 1
    BY <1>2
  <2>4. Starts(p + 1, p + 1 + 1 - 1)
    BY <2>1, <2>3 DEF Starts
  <2> QED
    BY <1>3, <2>2, <2>4 DEF InLine
<1>4. CASE source[p + 1] # "\n"
  <2>1. Newlines(p + 1) = Newlines(p)
    BY <1>1, <1>4, Zenon
  <2>2. p + 1 + 1 - (c + 1) = p + 1 - c
    OBVIOUS
  <2> QED
    BY <1>4, <2>1, <2>2 DEF InLine, Starts
<1> QED
  BY <1>3, <1>4

LEMMA FirstPlace ==
  InLine(0, 1, 1)
<1>1. Newlines(0) = {}
  BY DEF Newlines
<1>2. Cardinality({}) = 0
  BY FS_EmptySet
<1> QED
  BY <1>1, <1>2 DEF InLine, Starts
-----------------------------------------------------------------------------
(* No longer lexeme. *)

LEMMA OneAndTwo ==
  ASSUME NEW s \in Seq(Char), NEW a \in Nat
  PROVE  /\ a + 1 <= Len(s) => SubSeq(s, a + 1, a + 1) = <<s[a + 1]>>
         /\ a + 2 <= Len(s) => SubSeq(s, a + 1, a + 2) = <<s[a + 1], s[a + 2]>>
<1>1. Len(s) \in Nat
  BY LenProperties
<1>2. ASSUME a + 1 <= Len(s) PROVE SubSeq(s, a + 1, a + 1) = <<s[a + 1]>>
  <2>1. /\ SubSeq(s, a + 1, a + 1) \in Seq(Char) /\ Len(SubSeq(s, a + 1, a + 1)) = 1
        /\ SubSeq(s, a + 1, a + 1)[1] = s[a + 1]
    BY <1>1, <1>2, Piece
  <2>2. s[a + 1] \in Char
    BY <1>1, <1>2, ElementOfSeq
  <2> DEFINE one == <<s[a + 1]>>
  <2>3. one \in Seq(Char) /\ Len(one) = 1 /\ one[1] = s[a + 1]
    BY <2>2
  <2> HIDE DEF one
  <2>4. \A i \in 1..1 : SubSeq(s, a + 1, a + 1)[i] = one[i]
    BY <2>1, <2>3
  <2>5. SubSeq(s, a + 1, a + 1) = one
    BY <2>1, <2>3, <2>4, SeqEqual
  <2> QED
    BY <2>5 DEF one
<1>3. ASSUME a + 2 <= Len(s) PROVE SubSeq(s, a + 1, a + 2) = <<s[a + 1], s[a + 2]>>
  <2>1. a + 2 \in Nat /\ a <= a + 2 /\ a + 2 - a = 2 /\ 1 \in 1..2 /\ 2 \in 1..2
    OBVIOUS
  <2>2. /\ SubSeq(s, a + 1, a + 2) \in Seq(Char) /\ Len(SubSeq(s, a + 1, a + 2)) = 2
        /\ SubSeq(s, a + 1, a + 2)[1] = s[a + 1] /\ SubSeq(s, a + 1, a + 2)[2] = s[a + 2]
    BY <1>1, <1>3, <2>1, Piece
  <2>3. s[a + 1] \in Char /\ s[a + 2] \in Char
    BY <1>1, <1>3, ElementOfSeq
  <2> DEFINE two == <<s[a + 1], s[a + 2]>>
  <2>4. two \in Seq(Char) /\ Len(two) = 2 /\ two[1] = s[a + 1] /\ two[2] = s[a + 2]
    BY <2>3
  <2> HIDE DEF two
  <2>5. \A i \in 1..2 : SubSeq(s, a + 1, a + 2)[i] = two[i]
    BY <2>2, <2>4
  <2>6. SubSeq(s, a + 1, a + 2) = two
    BY <2>2, <2>4, <2>5, SeqEqual
  <2> QED
    BY <2>6 DEF two
<1> QED
  BY <1>2, <1>3

LEMMA NoneLonger ==
  ASSUME source \in Seq(Char), NEW a \in Nat, NEW b \in Nat, a < b, b <= Len(source),
         \/ source[a + 1] \in Digit /\ (b < Len(source) => source[b + 1] \notin Alnum)
         \/ source[a + 1] \in Alpha
            /\ (b < Len(source) => source[b + 1] \notin Alnum \cup {"underscore"})
         \/ source[a + 1] \in Other /\ b = a + 1
            /\ \A t \in Double : ~(t[1] = source[a + 1] /\ b < Len(source) /\ t[2] = source[b + 1])
         \/ source[a + 1] \in Other /\ b = a + 2,
         NEW n \in b + 1..Len(source)
  PROVE  ~IsLexeme(SubSeq(source, a + 1, n))
<1> DEFINE w == SubSeq(source, a + 1, n)
<1>1. Len(source) \in Nat /\ n \in Nat /\ a <= n /\ n <= Len(source) /\ b < Len(source)
  BY LenProperties
<1>2. /\ w \in Seq(Char) /\ Len(w) = n - a /\ DOMAIN w = 1..(n - a)
      /\ \A i \in 1..(n - a) : w[i] = source[a + i]
  BY <1>1, Piece
<1>3. 1 \in 1..(n - a) /\ n - a >= 2 /\ b - a + 1 \in 1..(n - a) /\ a + (b - a + 1) = b + 1
  BY <1>1
<1>4. w[1] = source[a + 1] /\ w[b - a + 1] = source[b + 1] /\ Len(w) >= 2
  BY <1>2, <1>3
<1> HIDE DEF w
<1> SUFFICES ASSUME IsLexeme(w) PROVE FALSE
  BY DEF w
<1>5. /\ w[1] \in Digit => All(w, Alnum)
      /\ w[1] \in Alpha => All(w, Alnum \cup {"underscore"})
      /\ w[1] \in Other => Len(w) = 2 /\ \E t \in Double : t[1] = w[1] /\ t[2] = w[2]
  BY <1>2, <1>4, LongLexeme
<1>6. CASE source[a + 1] \in Digit /\ source[b + 1] \notin Alnum
  BY <1>2, <1>3, <1>4, <1>5, <1>6 DEF All
<1>7. CASE source[a + 1] \in Alpha /\ source[b + 1] \notin Alnum \cup {"underscore"}
  BY <1>2, <1>3, <1>4, <1>5, <1>7 DEF All
<1>8. CASE /\ source[a + 1] \in Other /\ b = a + 1
           /\ \A t \in Double : ~(t[1] = source[a + 1] /\ b < Len(source) /\ t[2] = source[b + 1])
  <2>1. b - a + 1 = 2
    BY <1>8
  <2> QED
    BY <1>1, <1>4, <1>5, <1>8, <2>1
<1>9. CASE source[a + 1] \in Other /\ b = a + 2
  <2>1. n - a >= 3
    BY <1>1, <1>9
  <2> QED
    BY <1>1, <1>2, <1>4, <1>5, <1>9, <2>1
<1> QED
  BY <1>1, <1>6, <1>7, <1>8, <1>9

LEMMA LastEndType ==
  ASSUME TypeOK
  PROVE  LastEnd \in Nat
<1>1. CASE tokens = <<>>
  BY <1>1 DEF LastEnd
<1>2. CASE tokens # <<>>
  <2>1. tokens \in Seq(Token) /\ Len(tokens) \in Nat /\ Len(tokens) # 0
    BY <1>2, LenProperties, EmptySeq DEF TypeOK, Token
  <2>2. tokens[Len(tokens)] \in Token
    BY <2>1, ElementOfSeq
  <2> QED
    BY <1>2, <2>2 DEF LastEnd, Token
<1> QED
  BY <1>1, <1>2

(* What a token shows of itself, when it is delivered. *)
LEMMA MunchedHere ==
  ASSUME TypeOK, Gap, NEW t \in Token, t.first = Front, Front \in 0..Len(source),
         \/ Stray(t)
         \/ /\ Lexeme(t.token, Consumed(t))
            /\ \A n \in t.end + 1..Len(source) : ~IsLexeme(SubSeq(source, t.first + 1, n)),
         t.token \in {"IDENTIFIER", "CONSTANT"} => t.text = Consumed(t),
         t.token = "ENDOFFILE" => t.end = Len(source)
  PROVE  Munched(t, LastEnd)
<1>1. LastEnd \in Nat
  BY LastEndType
<1>2. LastEnd <= Front /\ \A n \in LastEnd + 1..Front : source[n] \in Space
  BY DEF Gap, Chars
<1>3. source \in Seq(Char) /\ Len(source) \in Nat /\ Front \in Nat /\ Front <= Len(source)
  BY LenProperties DEF TypeOK
<1>4. All(SubSeq(source, LastEnd + 1, Front), Space)
  BY <1>1, <1>2, <1>3, Piece
<1> QED
  BY <1>2, <1>4 DEF Munched
-----------------------------------------------------------------------------
(* A token is delivered. *)

LEMMA DeliverStep ==
  ASSUME IInv, NEW t \in Token, Deliver(t.token, t.text, <<t.line, t.col>>, t.first, t.end),
         t.first = Front, t.end = pos', t.end \in 0..Len(source),
         \/ Stray(t)
         \/ /\ Lexeme(t.token, Consumed(t))
            /\ \A n \in t.end + 1..Len(source) : ~IsLexeme(SubSeq(source, t.first + 1, n)),
         t.token \in {"IDENTIFIER", "CONSTANT"} => t.text = Consumed(t),
         t.token = "ENDOFFILE" => t.end = Len(source),
         t.token # "ENDOFFILE" => source[t.end] \notin Space,
         Placed(t),
         line' \in Nat \ {0}, col' \in Nat \ {0}, InLine(pos', line', col')
  PROVE  IInv'
<1>1. /\ TypeOK /\ Gap /\ TokensAreMaximal /\ PlacesAreRight
      /\ source \in Seq(Char) /\ Len(source) \in Nat /\ pos \in 0..Len(source)
      /\ began \in [pos : 0..Len(source), line : Nat, col : Nat]
      /\ tokens \in Seq(Token)
  BY LenProperties DEF IInv, TypeOK, Token
<1>2. source' = source /\ began' = began /\ mode' = "main"
  BY DEF Deliver
<1>3. t = [token |-> t.token, text |-> t.text, line |-> t.line, col |-> t.col,
           first |-> t.first, end |-> t.end]
  BY DEF Token
<1>4. tokens' = Append(tokens, t)
  BY <1>3 DEF Deliver
<1>5. Front \in 0..Len(source)
  BY <1>1 DEF Front
<1>6. Munched(t, LastEnd)
  BY <1>1, <1>5, MunchedHere
<1>7. tokens' \in Seq(Token) /\ TokensAreMaximal' /\ PlacesAreRight' /\ LastEnd' = t.end
  BY <1>1, <1>2, <1>4, <1>6, Delivery
<1>8. verdict' \in {"invalid", "done", "lexing"} /\ (t.token = "ENDOFFILE" => verdict' = "done")
  BY DEF Deliver
<1>9. TypeOK'
  BY <1>1, <1>2, <1>7, <1>8 DEF TypeOK, Token, Mode, Verdict
<1>10. InLine(pos, line, col)'
  BY <1>2 DEF InLine, Newlines, Starts
<1>11. ~Scanning' /\ Scanned' /\ Front' = t.end
  BY <1>2 DEF Scanning, Scanned, Front
<1>12. Gap'
  BY <1>7, <1>11 DEF Gap, Chars
<1>13. Behind'
  BY <1>2, <1>8 DEF Behind
<1>14. AbortsAtEdgesOnly'
  BY <1>8 DEF AbortsAtEdgesOnly
<1> QED
  BY <1>7, <1>9, <1>10, <1>11, <1>12, <1>13, <1>14 DEF IInv

LEMMA EndOfFileStep ==
  ASSUME IInv, EndOfFile
  PROVE  IInv'
<1>1. /\ source \in Seq(Char) /\ Len(source) \in Nat /\ pos \in 0..Len(source)
      /\ line \in Nat \ {0} /\ col \in Nat \ {0} /\ InLine(pos, line, col)
  BY LenProperties DEF IInv, TypeOK
<1>2. pos = Len(source) /\ mode = "space" /\ pos' = pos /\ line' = line /\ col' = col
  BY <1>1 DEF EndOfFile, In, AtEnd, position
<1> DEFINE t == [token |-> "ENDOFFILE", text |-> <<>>, line |-> line, col |-> col,
                 first |-> pos, end |-> pos]
<1>3. Deliver(t.token, t.text, <<t.line, t.col>>, t.first, t.end)
  BY DEF EndOfFile, Deliver
<1>4. <<>> \in Seq(Char)
  OBVIOUS
<1>5. t \in Token
  BY <1>1, <1>4 DEF Token
<1>6. Consumed(t) = <<>>
  <2>1. Len(SubSeq(source, pos + 1, pos)) = 0 /\ SubSeq(source, pos + 1, pos) \in Seq(Char)
    BY <1>1, Piece
  <2> QED
    BY <2>1, EmptySeq DEF Consumed
<1>7. Lexeme(t.token, Consumed(t))
  BY <1>6 DEF Lexeme
<1>8. Placed(t)
  BY <1>1, <1>5, <1>6, PlacedIn
<1>9. t.first = Front
  BY <1>2 DEF Front, Scanning
<1>10. /\ t.token = "ENDOFFILE" /\ t.end = pos /\ t.first = pos
       /\ \A n \in pos + 1..Len(source) : FALSE
  BY <1>1, <1>2
<1> HIDE DEF t
<1> QED
  BY <1>1, <1>2, <1>3, <1>5, <1>7, <1>8, <1>9, <1>10, DeliverStep

LEMMA Peek ==
  ASSUME TypeOK
  PROVE  /\ peek \in Char <=> pos < Len(source)
         /\ pos < Len(source) => peek = source[pos + 1]
         /\ pos = Len(source) <=> AtEnd
         /\ after \in Char <=> pos + 1 < Len(source)
         /\ pos + 1 < Len(source) => after = source[pos + 2]
<1>1. source \in Seq(Char) /\ Len(source) \in Nat /\ pos \in 0..Len(source)
  BY LenProperties DEF TypeOK
<1>2. pos < Len(source) => source[pos + 1] \in Char
  BY <1>1, ElementOfSeq
<1>3. pos + 1 < Len(source) => source[pos + 2] \in Char
  BY <1>1, ElementOfSeq
<1> QED
  BY <1>1, <1>2, <1>3, Characters DEF peek, after, AtEnd

LEMMA OperatorStep ==
  ASSUME IInv, In("space"), peek \in Other,
         NEW type \in DOMAIN Spelling \cup {"INVALID"}, NEW text \in Seq(Char), NEW n \in {1, 2},
         DeliverHere(type, text, n), pos + n <= Len(source),
         n = 2 => source[pos + 2] \in Other,
         LET w == SubSeq(source, pos + 1, pos + n) IN
         \/ w # <<>> /\ w[1] \in {"&", "|"} /\ w \notin Spelled
         \/ /\ Lexeme(type, w)
            /\ \A m \in pos + n + 1..Len(source) : ~IsLexeme(SubSeq(source, pos + 1, m))
  PROVE  IInv'
<1>1. /\ source \in Seq(Char) /\ Len(source) \in Nat /\ pos \in 0..Len(source) /\ TypeOK
      /\ line \in Nat \ {0} /\ col \in Nat \ {0} /\ InLine(pos, line, col)
  BY LenProperties DEF IInv, TypeOK
<1>2. mode = "space" /\ pos' = pos + n /\ line' = line /\ col' = col + n
  BY DEF In, DeliverHere, AdvanceBy
<1>3. /\ n \in Nat /\ pos < Len(source) /\ source[pos + 1] \in Other
      /\ pos + n \in 0..Len(source) /\ source[pos + n] \in Other
      /\ pos + 2 = pos + 1 + 1 /\ col + 2 = col + 1 + 1 /\ pos + 1 \in Nat /\ col + 1 \in Nat
  BY <1>1, Peek
<1>4. "\n" \notin Other /\ Other \cap Space = {} /\ Other \cap (Alpha \cup Digit) = {}
  BY Characters
<1>5. InLine(pos + 1, line, col + 1)
  BY <1>1, <1>3, <1>4, NextPlace
<1>6. InLine(pos + n, line, col + n)
  <2>1. CASE n = 1
    BY <1>5, <2>1
  <2>2. CASE n = 2
    <3>1. source[pos + 1 + 1] # "\n"
      BY <1>3, <1>4, <2>2
    <3>2. InLine(pos + 1 + 1, line, col + 1 + 1)
      BY <1>1, <1>3, <1>5, <3>1, NextPlace
    <3> QED
      BY <1>3, <2>2, <3>2
  <2> QED
    BY <2>1, <2>2
<1> DEFINE t == [token |-> type, text |-> text, line |-> line, col |-> col,
                 first |-> pos, end |-> pos + n]
<1>7. Deliver(t.token, t.text, <<t.line, t.col>>, t.first, t.end)
  BY DEF DeliverHere
<1>8. t \in Token
  BY <1>1, <1>3 DEF Token
<1>9. /\ t.token = type /\ t.first = pos /\ t.end = pos + n /\ t.line = line /\ t.col = col
      /\ Consumed(t) = SubSeq(source, pos + 1, pos + n)
  BY DEF Consumed
<1>10. t.first = Front
  BY <1>2 DEF Front, Scanning
<1> HIDE DEF t
<1>11. ~(Consumed(t) # <<>> /\ Consumed(t)[1] \in Alpha \cup Digit)
  <2>1. 1 \in 1..(pos + n - pos) /\ pos <= pos + n /\ pos + n <= Len(source) /\ pos + n \in Nat
    BY <1>1, <1>3
  <2>2. SubSeq(source, pos + 1, pos + n)[1] = source[pos + 1]
    BY <1>1, <2>1, Piece
  <2> QED
    BY <1>3, <1>4, <1>9, <2>2
<1>12. Placed(t)
  <2> DEFINE word == Consumed(t) # <<>> /\ Consumed(t)[1] \in Alpha \cup Digit
  <2>1. (IF word THEN 1 ELSE 0) = 0
    BY <1>11
  <2> HIDE DEF word
  <2>2. t.col = col + (IF word THEN 1 ELSE 0)
    BY <1>1, <1>9, <2>1
  <2>3. InLine(t.first, t.line, col) /\ col \in Nat
    BY <1>1, <1>9
  <2> QED
    BY <1>8, <2>2, <2>3, PlacedIn DEF word
<1>13. type \notin {"IDENTIFIER", "CONSTANT", "ENDOFFILE"}
  BY NotKeywords
<1>14. line' \in Nat \ {0} /\ col' \in Nat \ {0} /\ InLine(pos', line', col')
  BY <1>1, <1>2, <1>3, <1>6
<1>15. source[t.end] \notin Space /\ t.end = pos' /\ t.end \in 0..Len(source)
  BY <1>2, <1>3, <1>4, <1>9
<1>16. \/ Stray(t)
       \/ /\ Lexeme(t.token, Consumed(t))
          /\ \A m \in t.end + 1..Len(source) : ~IsLexeme(SubSeq(source, t.first + 1, m))
  BY <1>9 DEF Stray
<1> QED
  BY <1>7, <1>8, <1>9, <1>10, <1>12, <1>13, <1>14, <1>15, <1>16, DeliverStep

LEMMA NoDouble ==
  ASSUME TypeOK, ~IsDouble, pos < Len(source)
  PROVE  \A t \in Double : ~(t[1] = source[pos + 1] /\ pos + 1 < Len(source)
                             /\ t[2] = source[pos + 1 + 1])
<1>1. pos + 2 = pos + 1 + 1
  BY DEF TypeOK
<1> QED
  BY <1>1, Peek DEF IsDouble

LEMMA NotSpelled ==
  /\ \A c \in {"&", "|", "@"} : <<c>> \notin Spelled
  /\ <<"&", "|">> \notin Spelled
<1>1. ASSUME NEW w \in Spelled, w \in {<<"&">>, <<"|">>, <<"@">>, <<"&", "|">>} PROVE FALSE
  <2>1. CASE \E c \in Ones : w = <<c>>
    BY <1>1, <2>1 DEF Ones
  <2>2. CASE \E t \in Double : w = <<t[1], t[2]>> /\ ~(t[1] = "&" /\ t[2] = "|")
    BY <1>1, <2>2
  <2>3. CASE w \in DOMAIN Keyword
    BY <1>1, <2>3 DEF Keyword
  <2> QED
    BY <2>1, <2>2, <2>3, SpelledWords
<1> QED
  BY <1>1

LEMMA OneCharacterStep ==
  ASSUME IInv, OneCharacter
  PROVE  IInv'
<1>1. PICK t \in Single : t[1] = peek /\ DeliverHere(t[2], <<t[3]>>, 1)
  BY DEF OneCharacter
<1>2. /\ peek \in Other /\ t[2] \in DOMAIN Spelling /\ <<t[3]>> \in Seq(Char)
      /\ peek \in {"&", "|"} \/ Spelling[t[2]] = <<peek>>
  BY <1>1, SingleCharacters
<1>3. TypeOK /\ source \in Seq(Char) /\ Len(source) \in Nat /\ pos \in 0..Len(source)
  BY LenProperties DEF IInv, TypeOK
<1>4. pos < Len(source) /\ peek = source[pos + 1] /\ pos + 1 <= Len(source)
  BY <1>2, <1>3, Peek, Characters
<1>5. SubSeq(source, pos + 1, pos + 1) = <<peek>>
  BY <1>3, <1>4, OneAndTwo
<1>6. CASE peek \in {"&", "|"}
  <2>1. <<peek>> # <<>> /\ <<peek>>[1] = peek /\ <<peek>> \notin Spelled
    BY <1>6, NotSpelled
  <2> QED
    BY <1>1, <1>2, <1>4, <1>5, <1>6, <2>1, OperatorStep DEF OneCharacter
<1>7. CASE Spelling[t[2]] = <<peek>>
  <2>1. Lexeme(t[2], SubSeq(source, pos + 1, pos + 1))
    BY <1>2, <1>5, <1>7, NotKeywords DEF Lexeme
  <2>2. pos \in Nat /\ pos + 1 \in Nat /\ pos < pos + 1 /\ source[pos + 1] \in Other
    BY <1>2, <1>3, <1>4
  <2>3. \A m \in pos + 1 + 1..Len(source) : ~IsLexeme(SubSeq(source, pos + 1, m))
    BY <1>3, <1>4, <2>2, NoDouble, NoneLonger DEF OneCharacter, IsSingle
  <2> QED
    BY <1>1, <1>2, <1>4, <2>1, <2>3, OperatorStep DEF OneCharacter
<1> QED
  BY <1>2, <1>6, <1>7

LEMMA TwoCharactersStep ==
  ASSUME IInv, TwoCharacters
  PROVE  IInv'
<1>1. PICK t \in Double : /\ t[1] = peek /\ t[2] = after
                          /\ DeliverHere(t[3], Slice(pos - 1, pos + 2), 2)
  BY DEF TwoCharacters
<1>2. /\ peek \in Other /\ after \in Other /\ t[3] \in DOMAIN Spelling
      /\ (peek = "&" /\ after = "|") \/ Spelling[t[3]] = <<peek, after>>
  BY <1>1, DoubleCharacters
<1>3. TypeOK /\ source \in Seq(Char) /\ Len(source) \in Nat /\ pos \in 0..Len(source)
  BY LenProperties DEF IInv, TypeOK
<1>4. pos < Len(source) /\ pos + 1 < Len(source) /\ peek = source[pos + 1] /\ after = source[pos + 2]
  BY <1>2, <1>3, Peek, Characters
<1>5. pos + 2 <= Len(source) /\ pos > 0 /\ pos - 1 \in Nat /\ pos - 1 <= pos + 2 /\ pos + 2 \in Nat
  BY <1>3, <1>4 DEF TwoCharacters
<1>6. Slice(pos - 1, pos + 2) \in Seq(Char)
  BY <1>3, <1>5, Piece DEF Slice
<1>7. SubSeq(source, pos + 1, pos + 2) = <<peek, after>>
  BY <1>3, <1>4, <1>5, OneAndTwo
<1>8. CASE peek = "&" /\ after = "|"
  <2>1. <<peek, after>> # <<>> /\ <<peek, after>>[1] = "&" /\ <<peek, after>> \notin Spelled
    BY <1>8, NotSpelled
  <2> QED
    BY <1>1, <1>2, <1>4, <1>5, <1>6, <1>7, <2>1, OperatorStep DEF TwoCharacters
<1>9. CASE Spelling[t[3]] = <<peek, after>>
  <2>1. Lexeme(t[3], SubSeq(source, pos + 1, pos + 2))
    BY <1>2, <1>7, <1>9, NotKeywords DEF Lexeme
  <2>2. pos \in Nat /\ pos + 2 \in Nat /\ pos < pos + 2 /\ source[pos + 1] \in Other
    BY <1>2, <1>3, <1>4
  <2>3. \A m \in pos + 2 + 1..Len(source) : ~IsLexeme(SubSeq(source, pos + 1, m))
    BY <1>3, <1>5, <2>2, NoneLonger
  <2> QED
    BY <1>1, <1>2, <1>4, <1>5, <1>6, <2>1, <2>3, OperatorStep DEF TwoCharacters
<1> QED
  BY <1>2, <1>8, <1>9

LEMMA AssignmentOrInvalidStep ==
  ASSUME IInv, AssignmentOrInvalid
  PROVE  IInv'
<1> DEFINE type == IF peek = "=" THEN "ASSIGNMENT" ELSE "INVALID"
<1>1. /\ peek \in Other /\ ~IsDouble /\ pos > 0 /\ In("space")
      /\ DeliverHere(type, Slice(pos - 1, pos + 1), 1)
  BY DEF AssignmentOrInvalid, IsSliced
<1>2. peek \in {"=", "@"}
  BY <1>1, OneCharacterWords DEF AssignmentOrInvalid, IsSliced, IsSingle
<1>3. TypeOK /\ source \in Seq(Char) /\ Len(source) \in Nat /\ pos \in 0..Len(source)
  BY LenProperties DEF IInv, TypeOK
<1>4. pos < Len(source) /\ peek = source[pos + 1] /\ pos + 1 <= Len(source)
  BY <1>1, <1>3, Peek, Characters
<1>5. /\ pos \in Nat /\ pos + 1 \in Nat /\ pos < pos + 1 /\ pos - 1 \in Nat
      /\ pos - 1 <= pos + 1 /\ source[pos + 1] \in Other
  BY <1>1, <1>3, <1>4
<1>6. Slice(pos - 1, pos + 1) \in Seq(Char)
  BY <1>3, <1>4, <1>5, Piece DEF Slice
<1>7. SubSeq(source, pos + 1, pos + 1) = <<peek>>
  BY <1>3, <1>4, OneAndTwo
<1>8. type \in DOMAIN Spelling \cup {"INVALID"}
  BY NotKeywords
<1>9. Lexeme(type, <<peek>>)
  <2>1. CASE peek = "="
    BY <2>1, NotKeywords DEF Lexeme
  <2>2. CASE peek = "@"
    <3>1. <<peek>> \notin Spelled /\ Len(<<peek>>) = 1 /\ <<peek>>[1] = peek
      BY <2>2, NotSpelled
    <3> QED
      BY <1>1, <2>2, <3>1 DEF Lexeme, IsInvalid
  <2> QED
    BY <1>2, <2>1, <2>2
<1>10. \A m \in pos + 1 + 1..Len(source) : ~IsLexeme(SubSeq(source, pos + 1, m))
  BY <1>1, <1>3, <1>4, <1>5, NoDouble, NoneLonger
<1> HIDE DEF type
<1> QED
  BY <1>1, <1>4, <1>6, <1>7, <1>8, <1>9, <1>10, OperatorStep
-----------------------------------------------------------------------------
(* Words and numbers. *)

LEMMA ScannedStep ==
  ASSUME IInv, mode \in {"word", "number", "bad"}, verdict = "lexing",
         NEW type \in DOMAIN Spelling \cup {"CONSTANT", "IDENTIFIER", "INVALID"},
         DeliverScanned(type),
         LET w == SubSeq(source, began.pos + 1, pos) IN
         /\ Lexeme(type, w) /\ w # <<>> /\ w[1] \in Alpha \cup Digit
         /\ \A m \in pos + 1..Len(source) : ~IsLexeme(SubSeq(source, began.pos + 1, m)),
         source[pos] \notin Space
  PROVE  IInv'
<1>1. /\ source \in Seq(Char) /\ Len(source) \in Nat /\ pos \in 0..Len(source) /\ TypeOK
      /\ line \in Nat \ {0} /\ col \in Nat \ {0} /\ InLine(pos, line, col)
      /\ began \in [pos : 0..Len(source), line : Nat, col : Nat]
  BY LenProperties DEF IInv, TypeOK
<1>2. began.pos < pos /\ InLine(began.pos, began.line, began.col - 1)
  BY DEF IInv, Scanned, Scanning
<1>3. began.pos \in Nat /\ began.line \in Nat /\ began.col \in Nat /\ began.pos <= Len(source)
  <2>1. began.pos \in 0..Len(source) /\ began.line \in Nat /\ began.col \in Nat
    BY <1>1
  <2> QED
    BY <1>1, <2>1
<1>4. began.col - 1 \in Nat
  <2>1. began.pos + 1 - (began.col - 1) \in Newlines(began.pos) \cup {0}
    BY <1>2 DEF InLine, Starts
  <2>2. \A n \in Newlines(began.pos) \cup {0} : n \in 0..began.pos
    <3> DEFINE p == began.pos
    <3>1. p \in Nat
      BY <1>3
    <3> HIDE DEF p
    <3>2. \A n \in Newlines(p) \cup {0} : n \in 0..p
      BY <3>1 DEF Newlines
    <3> QED
      BY <3>2 DEF p
  <2>3. began.pos + 1 - (began.col - 1) \in 0..began.pos
    BY <2>1, <2>2
  <2> QED
    BY <1>3, <2>3, SMTT(30)
<1>5. pos' = pos /\ line' = line /\ col' = col
  BY DEF DeliverScanned, position
<1> DEFINE t == [token |-> type, text |-> Slice(began.pos, pos), line |-> began.line,
                 col |-> began.col, first |-> began.pos, end |-> pos]
<1>6. Deliver(t.token, t.text, <<t.line, t.col>>, t.first, t.end)
  BY DEF DeliverScanned
<1>7. Slice(began.pos, pos) \in Seq(Char)
  BY <1>1, <1>2, <1>3, Piece, SMTT(30) DEF Slice
<1>8. t \in Token
  BY <1>1, <1>3, <1>7 DEF Token
<1>9. /\ t.token = type /\ t.first = began.pos /\ t.end = pos /\ t.line = began.line
      /\ t.col = began.col /\ t.text = SubSeq(source, began.pos + 1, pos)
      /\ Consumed(t) = SubSeq(source, began.pos + 1, pos)
  BY DEF Consumed, Slice
<1>10. t.first = Front
  BY DEF Front, Scanning
<1> HIDE DEF t
<1>11. Placed(t)
  <2> DEFINE word == Consumed(t) # <<>> /\ Consumed(t)[1] \in Alpha \cup Digit
  <2>1. (IF word THEN 1 ELSE 0) = 1
    BY <1>9
  <2> HIDE DEF word
  <2>2. t.col = began.col - 1 + (IF word THEN 1 ELSE 0)
    BY <1>3, <1>9, <2>1
  <2>3. InLine(t.first, t.line, began.col - 1)
    BY <1>2, <1>9
  <2> QED
    BY <1>4, <1>8, <2>2, <2>3, PlacedIn DEF word
<1>12. type # "ENDOFFILE"
  BY NotKeywords
<1>13. line' \in Nat \ {0} /\ col' \in Nat \ {0} /\ InLine(pos', line', col')
  BY <1>1, <1>5
<1>14. source[t.end] \notin Space /\ t.end = pos' /\ t.end \in 0..Len(source)
  BY <1>1, <1>5, <1>9
<1> QED
  BY <1>6, <1>8, <1>9, <1>10, <1>11, <1>12, <1>13, <1>14, DeliverStep

LEMMA ScannedWord ==
  ASSUME IInv, Scanning
  PROVE  /\ source \in Seq(Char) /\ Len(source) \in Nat /\ pos \in 0..Len(source) /\ TypeOK
         /\ pos \in Nat /\ began.pos \in Nat /\ began.pos < pos /\ pos <= Len(source)
         /\ LET w == SubSeq(source, began.pos + 1, pos) IN
            /\ w \in Seq(Char) /\ Len(w) = pos - began.pos /\ w # <<>>
            /\ DOMAIN w = 1..(pos - began.pos) /\ w[1] = source[began.pos + 1]
            /\ \A i \in 1..(pos - began.pos) : w[i] = source[began.pos + i]
            /\ \A C : All(w, C) <=> Chars(began.pos, pos, C)
<1>1. /\ source \in Seq(Char) /\ Len(source) \in Nat /\ pos \in 0..Len(source) /\ TypeOK
      /\ began \in [pos : 0..Len(source), line : Nat, col : Nat]
  BY LenProperties DEF IInv, TypeOK
<1>2. began.pos < pos
  BY DEF IInv, Scanned
<1>3. began.pos \in 0..Len(source)
  BY <1>1
<1>4. pos \in Nat /\ began.pos \in Nat /\ began.pos < pos /\ began.pos <= pos /\ pos <= Len(source)
  BY <1>1, <1>2, <1>3
<1> DEFINE w == SubSeq(source, began.pos + 1, pos)
<1>5. /\ w \in Seq(Char) /\ Len(w) = pos - began.pos /\ DOMAIN w = 1..(pos - began.pos)
      /\ \A i \in 1..(pos - began.pos) : w[i] = source[began.pos + i]
      /\ \A C : All(w, C) <=> \A n \in began.pos + 1..pos : source[n] \in C
  <2> DEFINE a == began.pos
  <2>1. a \in Nat /\ a <= pos
    BY <1>4
  <2> HIDE DEF a
  <2>2. /\ SubSeq(source, a + 1, pos) \in Seq(Char)
        /\ Len(SubSeq(source, a + 1, pos)) = pos - a
        /\ DOMAIN SubSeq(source, a + 1, pos) = 1..(pos - a)
        /\ \A i \in 1..(pos - a) : SubSeq(source, a + 1, pos)[i] = source[a + i]
        /\ \A C : All(SubSeq(source, a + 1, pos), C) <=> \A n \in a + 1..pos : source[n] \in C
    BY <1>1, <1>4, <2>1, Piece
  <2> QED
    BY <2>2 DEF a
<1> HIDE DEF w
<1>6. 1 \in 1..(pos - began.pos) /\ pos - began.pos # 0
  BY <1>4
<1>7. w # <<>> /\ w[1] = source[began.pos + 1]
  BY <1>5, <1>6, EmptySeq
<1> QED
  BY <1>1, <1>4, <1>5, <1>7 DEF Chars, w

LEMMA EndIdentifierStep ==
  ASSUME IInv, EndIdentifier
  PROVE  IInv'
<1> DEFINE w == SubSeq(source, began.pos + 1, pos)
<1>1. /\ mode = "word" /\ verdict = "lexing" /\ DeliverScanned(check_keyword(w))
      /\ peek \notin Alnum \cup {"underscore"} /\ Scanning
  BY DEF EndIdentifier, In, Slice, Scanning
<1>2. /\ source \in Seq(Char) /\ Len(source) \in Nat /\ TypeOK
      /\ pos \in Nat /\ began.pos \in Nat /\ began.pos < pos /\ pos <= Len(source)
      /\ w \in Seq(Char) /\ Len(w) = pos - began.pos /\ w # <<>>
      /\ DOMAIN w = 1..(pos - began.pos) /\ w[1] = source[began.pos + 1]
      /\ \A i \in 1..(pos - began.pos) : w[i] = source[began.pos + i]
      /\ \A C : All(w, C) <=> Chars(began.pos, pos, C)
  BY <1>1, ScannedWord
<1>3. source[began.pos + 1] \in Alpha /\ Chars(began.pos, pos, Alnum \cup {"underscore"})
  BY <1>1 DEF IInv, Scanned
<1> HIDE DEF w
<1>4. w[1] \in Alpha /\ All(w, Alnum \cup {"underscore"})
  BY <1>2, <1>3
<1>5. Lexeme(check_keyword(w), w)
  <2>1. CASE w \in DOMAIN Keyword
    <3>1. /\ check_keyword(w) \in DOMAIN Spelling /\ Spelling[check_keyword(w)] = w
      BY <2>1, Keywords DEF check_keyword
    <3> QED
      BY <3>1, NotKeywords DEF Lexeme
  <2>2. CASE w \notin DOMAIN Keyword
    <3>1. ASSUME w \in Spelled PROVE FALSE
      <4>1. CASE \E c \in Ones : w = <<c>>
        BY <1>4, <4>1, OneCharacterWords, Characters
      <4>2. CASE \E t \in Double : w = <<t[1], t[2]>>
        BY <1>4, <4>2, DoubleCharacters, Characters
      <4> QED
        BY <2>2, <3>1, <4>1, <4>2, SpelledWords
    <3>2. IsIdentifier(w)
      BY <1>2, <1>4, <3>1 DEF IsIdentifier
    <3> QED
      BY <2>2, <3>2 DEF Lexeme, check_keyword
  <2> QED
    BY <2>1, <2>2
<1>6. check_keyword(w) \in DOMAIN Spelling \cup {"CONSTANT", "IDENTIFIER", "INVALID"}
  BY Keywords DEF check_keyword
<1>7. pos < Len(source) => source[pos + 1] \notin Alnum \cup {"underscore"}
  BY <1>1, <1>2, Peek
<1>8. \A m \in pos + 1..Len(source) : ~IsLexeme(SubSeq(source, began.pos + 1, m))
  BY <1>2, <1>3, <1>7, NoneLonger
<1>9. source[pos] \notin Space
  <2>1. pos \in began.pos + 1..pos
    BY <1>2
  <2> QED
    BY <1>3, <2>1, Characters DEF Chars
<1> QED
  BY <1>1, <1>2, <1>4, <1>5, <1>6, <1>8, <1>9, ScannedStep DEF w

LEMMA EndConstantStep ==
  ASSUME IInv, EndConstant
  PROVE  IInv'
<1> DEFINE w == SubSeq(source, began.pos + 1, pos)
<1>1. /\ mode = "number" /\ verdict = "lexing" /\ DeliverScanned("CONSTANT")
      /\ peek \notin Alnum /\ Scanning
  BY DEF EndConstant, In, Slice, Scanning
<1>2. /\ source \in Seq(Char) /\ Len(source) \in Nat /\ TypeOK
      /\ pos \in Nat /\ began.pos \in Nat /\ began.pos < pos /\ pos <= Len(source)
      /\ w # <<>> /\ DOMAIN w = 1..(pos - began.pos)
      /\ \A C : All(w, C) <=> Chars(began.pos, pos, C)
  BY <1>1, ScannedWord
<1>3. Chars(began.pos, pos, Digit)
  BY <1>1 DEF IInv, Scanned
<1>4. 1 \in 1..(pos - began.pos) /\ began.pos + 1 \in began.pos + 1..pos /\ pos \in began.pos + 1..pos
  BY <1>2
<1>5. source[began.pos + 1] \in Digit /\ source[pos] \notin Space
  BY <1>3, <1>4, Characters DEF Chars
<1> HIDE DEF w
<1>6. All(w, Digit) /\ w[1] \in Digit
  BY <1>2, <1>3, <1>4 DEF All
<1>7. Lexeme("CONSTANT", w)
  BY <1>2, <1>6 DEF Lexeme, IsConstant
<1>8. pos < Len(source) => source[pos + 1] \notin Alnum
  BY <1>1, <1>2, Peek
<1>9. \A m \in pos + 1..Len(source) : ~IsLexeme(SubSeq(source, began.pos + 1, m))
  BY <1>2, <1>5, <1>8, NoneLonger
<1> QED
  BY <1>1, <1>2, <1>5, <1>6, <1>7, <1>9, ScannedStep DEF w

LEMMA Prefix ==
  ASSUME NEW s \in Seq(Char), NEW n \in Nat, n # 0, n <= Len(s), \A i \in 1..n : s[i] \in Digit
  PROVE  IsConstant(SubSeq(s, 1, n))
<1>1. 0 + 1 = 1 /\ 0 \in Nat /\ 0 <= n /\ n - 0 = n
  OBVIOUS
<1> DEFINE u == SubSeq(s, 0 + 1, n)
<1>2. u \in Seq(Char) /\ Len(u) = n - 0
  BY <1>1, Piece
<1>3. All(u, Digit) <=> \A i \in 0 + 1..n : s[i] \in Digit
  BY <1>1, Piece
<1> HIDE DEF u
<1>4. u # <<>> /\ All(u, Digit)
  BY <1>1, <1>2, <1>3, EmptySeq
<1> QED
  BY <1>1, <1>4 DEF IsConstant, u

LEMMA EndBadConstantStep ==
  ASSUME IInv, EndBadConstant
  PROVE  IInv'
<1> DEFINE w == SubSeq(source, began.pos + 1, pos)
<1>1. /\ mode = "bad" /\ verdict = "lexing" /\ DeliverScanned("INVALID")
      /\ peek \notin Alnum /\ Scanning
  BY DEF EndBadConstant, In, Slice, Scanning
<1>2. /\ source \in Seq(Char) /\ Len(source) \in Nat /\ TypeOK
      /\ pos \in Nat /\ began.pos \in Nat /\ began.pos < pos /\ pos <= Len(source)
      /\ w \in Seq(Char) /\ Len(w) = pos - began.pos
      /\ w # <<>> /\ DOMAIN w = 1..(pos - began.pos)
      /\ \A i \in 1..(pos - began.pos) : w[i] = source[began.pos + i]
      /\ \A C : All(w, C) <=> Chars(began.pos, pos, C)
  BY <1>1, ScannedWord
<1>3. Chars(began.pos, pos, Alnum)
  BY <1>1 DEF IInv, Scanned
<1>4. PICK m \in began.pos + 1..pos - 1 : Chars(began.pos, m, Digit) /\ source[m + 1] \in Letter
  BY <1>1 DEF IInv, Scanned
<1> DEFINE n == m - began.pos
<1> HIDE DEF w
<1>5. /\ m \in Nat /\ n \in Nat /\ n \in 1..(pos - began.pos) - 1 /\ n + 1 \in 1..(pos - began.pos)
      /\ began.pos + (n + 1) = m + 1 /\ 1 \in 1..(n - 0) /\ n <= pos - began.pos
      /\ began.pos + 1 \in began.pos + 1..m /\ pos \in began.pos + 1..pos
      /\ n - 0 # 0 /\ \A i \in 1..(n - 0) : /\ i \in 1..(pos - began.pos) /\ 0 + i = i
                                            /\ began.pos + i \in began.pos + 1..m
  <2> DEFINE a == began.pos
  <2>1. a \in Nat /\ pos \in Nat /\ a < pos /\ m \in a + 1..pos - 1
    BY <1>2
  <2> HIDE DEF a
  <2>2. /\ m \in Nat /\ m - a \in Nat /\ m - a \in 1..(pos - a) - 1 /\ m - a + 1 \in 1..(pos - a)
        /\ a + (m - a + 1) = m + 1 /\ 1 \in 1..(m - a - 0) /\ m - a <= pos - a
        /\ a + 1 \in a + 1..m /\ pos \in a + 1..pos
        /\ m - a - 0 # 0 /\ \A i \in 1..(m - a - 0) : /\ i \in 1..(pos - a) /\ 0 + i = i
                                                      /\ a + i \in a + 1..m
    BY <2>1
  <2> QED
    BY <2>2 DEF a
<1>6. source[began.pos + 1] \in Digit /\ source[pos] \notin Space
  BY <1>3, <1>4, <1>5, Characters DEF Chars
<1> HIDE DEF n
<1>8. All(w, Alnum) /\ w[n + 1] \in Letter
  BY <1>2, <1>3, <1>4, <1>5, SMTT(30)
<1>9. \A i \in 1..(n - 0) : w[i] \in Digit
  BY <1>2, <1>4, <1>5 DEF Chars
<1>10. w[1] \in Digit
  BY <1>5, <1>9
<1>11. IsConstant(SubSeq(w, 1, n))
  <2>1. n # 0 /\ n <= Len(w) /\ n - 0 = n
    BY <1>2, <1>5
  <2> QED
    BY <1>2, <1>5, <1>9, <2>1, Prefix
<1>12. IsInvalid(w)
  BY <1>2, <1>5, <1>8, <1>11 DEF IsInvalid
<1>13. Lexeme("INVALID", w)
  BY <1>12 DEF Lexeme
<1>14. pos < Len(source) => source[pos + 1] \notin Alnum
  BY <1>1, <1>2, Peek
<1>15. \A k \in pos + 1..Len(source) : ~IsLexeme(SubSeq(source, began.pos + 1, k))
  BY <1>2, <1>6, <1>14, NoneLonger
<1> QED
  BY <1>1, <1>2, <1>6, <1>10, <1>13, <1>15, ScannedStep DEF w
-----------------------------------------------------------------------------
(* The steps that deliver nothing. *)

LEMMA AdvanceFacts ==
  ASSUME IInv, advance, source' = source, pos < Len(source)
  PROVE  /\ source \in Seq(Char) /\ Len(source) \in Nat /\ pos \in Nat /\ TypeOK
         /\ peek = source[pos + 1] /\ pos' = pos + 1 /\ pos' \in 0..Len(source)
         /\ line' \in Nat \ {0} /\ col' \in Nat \ {0} /\ InLine(pos, line, col)'
         /\ peek # "\n" => line' = line /\ col' = col + 1
<1>1. /\ source \in Seq(Char) /\ Len(source) \in Nat /\ pos \in 0..Len(source) /\ TypeOK
      /\ line \in Nat \ {0} /\ col \in Nat \ {0} /\ InLine(pos, line, col)
  BY LenProperties DEF IInv, TypeOK
<1>2. /\ peek = source[pos + 1] /\ pos' = pos + 1 /\ pos' \in 0..Len(source) /\ pos \in Nat
      /\ IF peek = "\n" THEN line' = line + 1 /\ col' = 1 ELSE line' = line /\ col' = col + 1
  BY <1>1, Peek DEF advance
<1>3. InLine(pos + 1, line', col')
  BY <1>1, <1>2, NextPlace
<1>4. InLine(pos, line, col)'
  BY <1>2, <1>3 DEF InLine, Newlines, Starts
<1>5. line' \in Nat \ {0} /\ col' \in Nat \ {0}
  BY <1>1, <1>2
<1> QED
  BY <1>1, <1>2, <1>4, <1>5

LEMMA QuietStep ==
  ASSUME IInv, source' = source, tokens' = tokens, verdict' = "lexing",
         pos' \in 0..Len(source), line' \in Nat \ {0}, col' \in Nat \ {0}, mode' \in Mode,
         began' \in [pos : 0..Len(source), line : Nat, col : Nat],
         InLine(pos, line, col)', Scanned', Gap', Behind'
  PROVE  IInv'
<1>1. TypeOK'
  BY DEF IInv, TypeOK, Verdict
<1>2. TokensAreMaximal' /\ PlacesAreRight'
  <2>1. TokensAreMaximal /\ PlacesAreRight
    BY DEF IInv
  <2>2. TokensAreMaximal'
    BY <2>1 DEF TokensAreMaximal, Stray, Consumed
  <2>3. ASSUME NEW k \in DOMAIN tokens PROVE Placed(tokens[k])'
    <3>1. Placed(tokens[k]) /\ tokens'[k] = tokens[k]
      BY <2>1, TokensByPart
    <3> QED
      BY <3>1 DEF Placed, Consumed
  <2>4. PlacesAreRight'
    BY <2>3 DEF PlacesAreRight, Placed
  <2> QED
    BY <2>2, <2>4
<1>3. AbortsAtEdgesOnly'
  BY DEF AbortsAtEdgesOnly
<1> QED
  BY <1>1, <1>2, <1>3 DEF IInv

LEMMA CallStep ==
  ASSUME IInv, Call
  PROVE  IInv'
<1>1. /\ mode = "main" /\ mode' = "space" /\ verdict = "lexing"
      /\ UNCHANGED <<source, pos, line, col, began, tokens, verdict>>
  BY DEF Call, In, position
<1>2. /\ pos \in 0..Len(source) /\ line \in Nat \ {0} /\ col \in Nat \ {0} /\ "space" \in Mode
      /\ began \in [pos : 0..Len(source), line : Nat, col : Nat]
      /\ InLine(pos, line, col) /\ Gap
  BY DEF IInv, TypeOK, Mode
<1>3. InLine(pos, line, col)'
  BY <1>1, <1>2 DEF InLine, Newlines, Starts
<1>4. Scanned' /\ Gap' /\ Behind'
  BY <1>1, <1>2 DEF Scanned, Scanning, Gap, Chars, Front, LastEnd, Behind
<1> QED
  BY <1>1, <1>2, <1>3, <1>4, QuietStep

LEMMA SkipSpaceStep ==
  ASSUME IInv, SkipSpace
  PROVE  IInv'
<1>1. /\ mode = "space" /\ mode' = "space" /\ verdict = "lexing" /\ peek \in Space /\ advance
      /\ UNCHANGED <<source, began, tokens, verdict>>
  BY DEF SkipSpace, In
<1>2. /\ TypeOK /\ began \in [pos : 0..Len(source), line : Nat, col : Nat] /\ "space" \in Mode
      /\ LastEnd <= pos /\ Chars(LastEnd, pos, Space)
  BY <1>1 DEF IInv, TypeOK, Mode, Gap, Front, Scanning
<1>3. pos < Len(source)
  BY <1>1, <1>2, Peek, Characters
<1>4. /\ pos \in Nat /\ pos' = pos + 1 /\ pos' \in 0..Len(source) /\ source[pos + 1] \in Space
      /\ line' \in Nat \ {0} /\ col' \in Nat \ {0} /\ InLine(pos, line, col)'
  BY <1>1, <1>3, AdvanceFacts
<1>5. LastEnd \in Nat
  BY <1>2, LastEndType
<1>6. /\ LastEnd <= pos + 1
      /\ \A n \in LastEnd + 1..pos + 1 : n \in LastEnd + 1..pos \/ n = pos + 1
  BY <1>2, <1>4, <1>5
<1>7. Chars(LastEnd, pos + 1, Space)
  BY <1>2, <1>4, <1>6 DEF Chars
<1>8. LastEnd' = LastEnd /\ Front' = pos + 1
  BY <1>1, <1>4 DEF LastEnd, Front, Scanning
<1>9. Gap'
  BY <1>1, <1>6, <1>7, <1>8 DEF Gap, Chars
<1>10. Scanned' /\ Behind'
  BY <1>1 DEF Scanned, Scanning, Behind
<1> QED
  BY <1>1, <1>2, <1>4, <1>9, <1>10, QuietStep

LEMMA ScanStep ==
  ASSUME IInv, StartConstant \/ StartIdentifier
  PROVE  IInv'
<1>1. /\ mode = "space" /\ verdict = "lexing" /\ advance /\ peek \in Alpha \cup Digit
      /\ began' = [pos |-> pos, line |-> line', col |-> col']
      /\ UNCHANGED <<source, tokens, verdict>>
      /\ \/ mode' = "number" /\ peek \in Digit
         \/ mode' = "word" /\ peek \in Alpha
  BY DEF StartConstant, StartIdentifier, Scan, In
<1>2. /\ TypeOK /\ pos \in 0..Len(source) /\ line \in Nat \ {0} /\ col \in Nat \ {0}
      /\ InLine(pos, line, col) /\ LastEnd <= pos /\ Chars(LastEnd, pos, Space)
  BY <1>1 DEF IInv, TypeOK, Gap, Front, Scanning
<1>3. pos < Len(source) /\ peek # "\n"
  BY <1>1, <1>2, Peek, Characters
<1>4. /\ pos \in Nat /\ pos' = pos + 1 /\ pos' \in 0..Len(source) /\ peek = source[pos + 1]
      /\ line' = line /\ col' = col + 1
      /\ line' \in Nat \ {0} /\ col' \in Nat \ {0} /\ InLine(pos, line, col)'
  BY <1>1, <1>3, AdvanceFacts
<1>5. began' \in [pos : 0..Len(source), line : Nat, col : Nat]
  BY <1>1, <1>2, <1>4
<1>6. began'.pos = pos /\ began'.line = line /\ began'.col = col + 1 /\ began'.col - 1 = col
  BY <1>1, <1>2, <1>4
<1>7. InLine(began.pos, began.line, began.col - 1)'
  BY <1>1, <1>2, <1>6 DEF InLine, Newlines, Starts
<1>8. \A n \in pos + 1..pos + 1 : n = pos + 1
  BY <1>4
<1>9. Scanned'
  <2>1. Scanning' /\ began'.pos < pos'
    BY <1>1, <1>4, <1>6 DEF Scanning
  <2>2. CASE mode' = "number" /\ peek \in Digit
    <3>1. Chars(began.pos, pos, Digit)'
      BY <1>1, <1>4, <1>6, <1>8, <2>2 DEF Chars
    <3> QED
      BY <1>7, <2>1, <2>2, <3>1 DEF Scanned
  <2>3. CASE mode' = "word" /\ peek \in Alpha
    <3>1. peek \in Alnum \cup {"underscore"}
      BY <2>3, Characters
    <3>2. Chars(began.pos, pos, Alnum \cup {"underscore"})' /\ source'[began'.pos + 1] \in Alpha
      BY <1>1, <1>4, <1>6, <1>8, <2>3, <3>1 DEF Chars
    <3> QED
      BY <1>7, <2>1, <2>3, <3>2 DEF Scanned
  <2> QED
    BY <1>1, <2>2, <2>3
<1>10. Gap'
  <2>1. LastEnd' = LastEnd /\ Front' = pos
    BY <1>1, <1>6 DEF LastEnd, Front, Scanning
  <2> QED
    BY <1>1, <1>2, <2>1 DEF Gap, Chars
<1>11. Behind' /\ mode' \in Mode
  BY <1>1 DEF Behind, Mode
<1> QED
  BY <1>1, <1>4, <1>5, <1>9, <1>10, <1>11, QuietStep

LEMMA ConsumeStep ==
  ASSUME IInv,
         ConsumeIdentifier \/ ConsumeConstant \/ LetterInConstant \/ ConsumeBadConstant
  PROVE  IInv'
<1>1. /\ Scanning /\ Scanning' /\ mode' \in Mode /\ verdict = "lexing" /\ advance
      /\ UNCHANGED <<source, began, tokens, verdict>> /\ peek \in Alnum \cup {"underscore"}
      /\ \/ mode = "word" /\ mode' = "word"
         \/ mode = "number" /\ mode' = "number" /\ peek \in Digit
         \/ mode = "number" /\ mode' = "bad" /\ peek \in Letter
         \/ mode = "bad" /\ mode' = "bad" /\ peek \in Alnum
  BY Characters DEF ConsumeIdentifier, ConsumeConstant, LetterInConstant, ConsumeBadConstant,
                    Consume, In, Scanning, Mode
<1>2. /\ TypeOK /\ began \in [pos : 0..Len(source), line : Nat, col : Nat]
      /\ began.pos < pos /\ InLine(began.pos, began.line, began.col - 1)
      /\ Gap /\ Front = began.pos
  BY <1>1 DEF IInv, TypeOK, Scanned, Front
<1>3. pos < Len(source)
  BY <1>1, <1>2, Peek, Characters
<1>4. /\ pos \in Nat /\ pos' = pos + 1 /\ pos' \in 0..Len(source) /\ peek = source[pos + 1]
      /\ line' \in Nat \ {0} /\ col' \in Nat \ {0} /\ InLine(pos, line, col)'
  BY <1>1, <1>3, AdvanceFacts
<1>5. began.pos \in Nat
  <2>1. began.pos \in 0..Len(source)
    BY <1>2
  <2> QED
    BY <2>1
<1>6. InLine(began.pos, began.line, began.col - 1)'
  BY <1>1, <1>2 DEF InLine, Newlines, Starts
<1>7. /\ began'.pos < pos'
      /\ \A n \in began.pos + 1..pos + 1 : n \in began.pos + 1..pos \/ n = pos + 1
      /\ pos \in began.pos + 1..pos + 1 - 1
      /\ \A n \in began.pos + 1..pos - 1 : n \in began.pos + 1..pos + 1 - 1
  BY <1>1, <1>2, <1>4, <1>5
<1>8. \A C : Chars(began.pos, pos, C) /\ peek \in C => Chars(began.pos, pos + 1, C)
  BY <1>4, <1>7 DEF Chars
<1>9. Scanned'
  <2>1. CASE mode = "word" /\ mode' = "word"
    <3>1. source[began.pos + 1] \in Alpha /\ Chars(began.pos, pos, Alnum \cup {"underscore"})
      BY <1>1, <2>1 DEF IInv, Scanned
    <3>2. Chars(began.pos, pos, Alnum \cup {"underscore"})'
      BY <1>1, <1>4, <1>8, <3>1 DEF Chars
    <3> QED
      BY <1>1, <1>6, <1>7, <2>1, <3>1, <3>2 DEF Scanned
  <2>2. CASE mode = "number" /\ mode' = "number" /\ peek \in Digit
    <3>1. Chars(began.pos, pos, Digit)
      BY <1>1, <2>2 DEF IInv, Scanned
    <3>2. Chars(began.pos, pos, Digit)'
      BY <1>1, <1>4, <1>8, <2>2, <3>1 DEF Chars
    <3> QED
      BY <1>1, <1>6, <1>7, <2>2, <3>2 DEF Scanned
  <2>3. CASE mode = "number" /\ mode' = "bad" /\ peek \in Letter
    <3>1. Chars(began.pos, pos, Digit)
      BY <1>1, <2>3 DEF IInv, Scanned
    <3>2. Chars(began.pos, pos, Alnum)
      BY <3>1, Characters DEF Chars
    <3>3. peek \in Alnum
      BY <2>3, Characters
    <3>4. Chars(began.pos, pos, Alnum)'
      BY <1>1, <1>4, <1>8, <3>2, <3>3 DEF Chars
    <3>5. \E n \in began.pos + 1..pos + 1 - 1 :
            Chars(began.pos, n, Digit) /\ source[n + 1] \in Letter
      BY <1>4, <1>7, <2>3, <3>1
    <3>6. (\E n \in began.pos + 1..pos - 1 :
             Chars(began.pos, n, Digit) /\ source[n + 1] \in Letter)'
      BY <1>1, <1>4, <3>5 DEF Chars
    <3> QED
      BY <1>1, <1>6, <1>7, <2>3, <3>4, <3>6 DEF Scanned
  <2>4. CASE mode = "bad" /\ mode' = "bad" /\ peek \in Alnum
    <3>1. /\ Chars(began.pos, pos, Alnum)
          /\ \E n \in began.pos + 1..pos - 1 :
               Chars(began.pos, n, Digit) /\ source[n + 1] \in Letter
      BY <1>1, <2>4 DEF IInv, Scanned
    <3>2. Chars(began.pos, pos, Alnum)'
      BY <1>1, <1>4, <1>8, <2>4, <3>1 DEF Chars
    <3>3. \E n \in began.pos + 1..pos + 1 - 1 :
            Chars(began.pos, n, Digit) /\ source[n + 1] \in Letter
      BY <1>7, <3>1
    <3>4. (\E n \in began.pos + 1..pos - 1 :
             Chars(began.pos, n, Digit) /\ source[n + 1] \in Letter)'
      BY <1>1, <1>4, <3>3 DEF Chars
    <3> QED
      BY <1>1, <1>6, <1>7, <2>4, <3>2, <3>4 DEF Scanned
  <2> QED
    BY <1>1, <2>1, <2>2, <2>3, <2>4
<1>10. Gap'
  <2>1. LastEnd' = LastEnd /\ Front' = Front
    BY <1>1, <1>2 DEF LastEnd, Front
  <2> QED
    BY <1>1, <1>2, <2>1 DEF Gap, Chars
<1>11. Behind' /\ mode' \in Mode
  BY <1>1 DEF Behind, Scanning
<1> QED
  BY <1>1, <1>2, <1>4, <1>9, <1>10, <1>11, QuietStep

LEMMA Unmoved ==
  ASSUME IInv, UNCHANGED <<source, pos, line, col, mode, began, tokens>>
  PROVE  /\ InLine(pos, line, col)' /\ Scanned' /\ Gap' /\ TokensAreMaximal' /\ PlacesAreRight'
         /\ verdict' \in Verdict => TypeOK'
<1>1. TypeOK /\ InLine(pos, line, col) /\ Scanned /\ Gap /\ TokensAreMaximal /\ PlacesAreRight
  BY DEF IInv
<1>2. InLine(pos, line, col)'
  BY <1>1 DEF InLine, Newlines, Starts
<1>3. Scanned'
  BY <1>1 DEF Scanned, Scanning, InLine, Newlines, Starts, Chars
<1>4. Gap'
  BY <1>1 DEF Gap, LastEnd, Front, Scanning, Chars
<1>5. TokensAreMaximal'
  BY <1>1 DEF TokensAreMaximal, Stray, Consumed
<1>6. ASSUME NEW k \in DOMAIN tokens PROVE Placed(tokens[k])'
  <2>1. Placed(tokens[k]) /\ tokens'[k] = tokens[k]
    BY <1>1, TokensByPart
  <2> QED
    BY <2>1 DEF Placed, Consumed
<1>7. PlacesAreRight'
  BY <1>6 DEF PlacesAreRight, Placed
<1>8. verdict' \in Verdict => TypeOK'
  BY <1>1 DEF TypeOK
<1> QED
  BY <1>2, <1>3, <1>4, <1>5, <1>7, <1>8

LEMMA AbortStep ==
  ASSUME IInv, AssertionFails \/ SliceThrows
  PROVE  IInv'
<1>1. /\ source \in Seq(Char) /\ Len(source) \in Nat /\ pos \in 0..Len(source) /\ TypeOK
      /\ UNCHANGED <<source, pos, line, col, mode, began, tokens>>
      /\ verdict' \in {"assertion", "exception"} /\ verdict' \in Verdict
  BY LenProperties DEF IInv, TypeOK, AssertionFails, SliceThrows, Stop, position, Verdict
<1>2. Behind'
  BY <1>1 DEF Behind
<1>3. AbortsAtEdgesOnly'
  <2>1. CASE AssertionFails
    <3>1. pos = Len(source) /\ (pos = 0 \/ source[pos] \notin Space) /\ verdict' = "assertion"
      BY <1>1, <2>1 DEF AssertionFails, In, check_invariants, IInv, Behind, Stop
    <3>2. source = <<>> \/ source[Len(source)] \notin Space
      BY <1>1, <3>1, EmptySeq
    <3> QED
      BY <1>1, <3>1, <3>2 DEF AbortsAtEdgesOnly
  <2>2. CASE SliceThrows
    <3>1. pos = 0 /\ peek \in Other /\ verdict' = "exception"
      BY <2>2 DEF SliceThrows, IsSliced, Stop
    <3>2. source[1] \in Other
      BY <1>1, <3>1, Peek, Characters
    <3> QED
      BY <1>1, <3>1, <3>2 DEF AbortsAtEdgesOnly
  <2> QED
    BY <2>1, <2>2
<1> QED
  BY <1>1, <1>2, <1>3, Unmoved DEF IInv
-----------------------------------------------------------------------------
LEMMA InitEstablishes ==
  ASSUME Init
  PROVE  IInv
<1>1. /\ source \in Seq(Char) /\ pos = 0 /\ line = 1 /\ col = 1 /\ mode = "main"
      /\ began = [pos |-> 0, line |-> 1, col |-> 1] /\ tokens = <<>> /\ verdict = "lexing"
  BY SourceAssumption DEF Init
<1>2. Len(source) \in Nat
  BY <1>1, LenProperties
<1>3. TypeOK
  BY <1>1, <1>2 DEF TypeOK, Mode, Verdict
<1>4. InLine(pos, line, col)
  BY <1>1, FirstPlace
<1>5. Scanned /\ Gap /\ Behind
  BY <1>1 DEF Scanned, Scanning, Gap, LastEnd, Front, Chars, Behind
<1>6. TokensAreMaximal /\ PlacesAreRight /\ AbortsAtEdgesOnly
  BY <1>1 DEF TokensAreMaximal, PlacesAreRight, AbortsAtEdgesOnly
<1> QED
  BY <1>3, <1>4, <1>5, <1>6 DEF IInv

LEMMA StutterPreserves ==
  ASSUME IInv, UNCHANGED vars
  PROVE  IInv'
<1>1. UNCHANGED <<source, pos, line, col, mode, began, tokens, verdict>>
  BY DEF vars, position
<1>2. Behind' /\ AbortsAtEdgesOnly' /\ verdict' \in Verdict
  BY <1>1 DEF IInv, Behind, AbortsAtEdgesOnly, TypeOK
<1> QED
  BY <1>1, <1>2, Unmoved DEF IInv

LEMMA NextPreserves ==
  ASSUME IInv, [Next]_vars
  PROVE  IInv'
<1>1. CASE AssertionFails \/ SliceThrows
  BY <1>1, AbortStep
<1>2. CASE Call \/ SkipSpace
  BY <1>2, CallStep, SkipSpaceStep
<1>3. CASE EndOfFile \/ OneCharacter \/ TwoCharacters \/ AssignmentOrInvalid
  BY <1>3, EndOfFileStep, OneCharacterStep, TwoCharactersStep, AssignmentOrInvalidStep
<1>4. CASE StartConstant \/ StartIdentifier
  BY <1>4, ScanStep
<1>5. CASE ConsumeIdentifier \/ ConsumeConstant \/ LetterInConstant \/ ConsumeBadConstant
  BY <1>5, ConsumeStep
<1>6. CASE EndIdentifier \/ EndConstant \/ EndBadConstant
  BY <1>6, EndIdentifierStep, EndConstantStep, EndBadConstantStep
<1>7. CASE UNCHANGED vars
  BY <1>7, StutterPreserves
<1> QED
  BY <1>1, <1>2, <1>3, <1>4, <1>5, <1>6, <1>7 DEF Next
-----------------------------------------------------------------------------
(* The invariant is one of the specification. *)
THEOREM Inductive == Spec => []IInv
BY InitEstablishes, NextPreserves, PTL DEF Spec

(* Every variable keeps its type: in particular pos never leaves the       *)
(* source, whatever combination of advances a token takes.                 *)
THEOREM TypesHold == Spec => []TypeOK
<1>1. IInv => TypeOK
  BY DEF IInv
<1> QED
  BY <1>1, Inductive, PTL

(* Of every text, the tokens cover what is not white space, in its order,  *)
(* and each is the longest lexeme at its place, but for a single & or |,   *)
(* whose missing break makes it part of another token.                     *)
THEOREM MaximalHolds == Spec => []TokensAreMaximal
<1>1. IInv => TokensAreMaximal
  BY DEF IInv
<1> QED
  BY <1>1, Inductive, PTL

(* The lines and the columns that error messages show are those of the     *)
(* text, but for the column of a word or a number, one too large.          *)
THEOREM PlacesHold == Spec => []PlacesAreRight
<1>1. IInv => PlacesAreRight
  BY DEF IInv
<1> QED
  BY <1>1, Inductive, PTL

(* The assertion of get_next_token and substr fail on the two kinds of     *)
(* text named only: not on one that starts with a word and ends in a       *)
(* newline, as gcc -E -P leaves it.                                        *)
THEOREM AbortsHold == Spec => []AbortsAtEdgesOnly
<1>1. IInv => AbortsAtEdgesOnly
  BY DEF IInv
<1> QED
  BY <1>1, Inductive, PTL
=============================================================================
