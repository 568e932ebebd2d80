---------------------------- MODULE LexerProofs -----------------------------
(***************************************************************************)
(* Proofs about Lexer, for inputs of any length.  What CHOOSE picks in     *)
(* After exists and is the only such position; all else follows the        *)
(* characters.                                                             *)
(***************************************************************************)
EXTENDS Lexer, SequenceTheorems, WellFoundedInduction, TLAPS

\* The characters from p up to q, without q, are all in C.
Run(p, q, C) == \A k \in p .. q - 1 : At(k, C)

\* Every set of numbers has a least one.
LEMMA LeastNumber ==
  ASSUME NEW T, T \subseteq Nat, T # {}
  PROVE  \E n \in T : \A m \in T : n <= m
<1>1. \E n \in T : \A m \in T : <<m, n>> \notin OpToRel(<, Nat)
  BY WFMin, NatLessThanWellFounded
<1>2. \A m, n \in Nat : m < n => <<m, n>> \in OpToRel(<, Nat)
  BY Zenon DEF OpToRel
<1>3. \A m, n \in Nat : ~(m < n) => n <= m
  OBVIOUS
<1>. QED
  BY <1>1, <1>2, <1>3

\* The loop that skips characters of C ends, in the string or at its end.
LEMMA AfterEnds ==
  ASSUME input \in Seq(Char), NEW p \in 1 .. Len(input) + 1, NEW C
  PROVE  /\ After(p, C) \in p .. Len(input) + 1
         /\ Run(p, After(p, C), C)
         /\ ~At(After(p, C), C)
<1> DEFINE T == {k \in p .. Len(input) + 1 : ~At(k, C)}
<1>1. Len(input) + 1 \in T
  BY DEF At
<1>2. T \subseteq Nat
  OBVIOUS
<1>3. PICK q \in T : \A m \in T : q <= m
  BY <1>1, <1>2, LeastNumber
<1>4. \A k \in p .. q - 1 : At(k, C)
  BY <1>3
<1>5. \E r \in p .. Len(input) + 1 :
        (\A k \in p .. r - 1 : At(k, C)) /\ ~At(r, C)
  BY <1>3, <1>4
<1>. QED
  BY <1>5 DEF After, Run

\* It ends at the first character that is not of C.
LEMMA AfterIs ==
  ASSUME input \in Seq(Char), NEW p \in 1 .. Len(input) + 1, NEW C,
         NEW q \in p .. Len(input) + 1, Run(p, q, C), ~At(q, C)
  PROVE  After(p, C) = q
<1>1. /\ After(p, C) \in p .. Len(input) + 1
      /\ Run(p, After(p, C), C)
      /\ ~At(After(p, C), C)
  BY AfterEnds
<1>. QED
  BY <1>1 DEF Run

\* The loops of a number, one after the other, stay in the string, and none of
\* them takes a p.
LEMMA NumberSpan ==
  ASSUME input \in Seq(Char), NEW s \in 1 .. Len(input) + 1, NumberStarts(s)
  PROVE  /\ NumberEnd(s) \in s + 1 .. Len(input) + 1
         /\ Run(s, NumberEnd(s), Char \ (Space \cup {"p"}))
<1> DEFINE a == IntegerEnd(s)
           b == FractionEnd(a)
           c == ExponentEnd(b)
           N == Char \ (Space \cup {"p"})
<1>0. /\ Digit \subseteq N /\ HexDigit \subseteq N /\ BinaryDigit \subseteq N
      /\ OctalDigit \subseteq N /\ Sign \subseteq N /\ Suffix \subseteq N
      /\ {"."} \subseteq N /\ {"e"} \subseteq N /\ {"0"} \subseteq N
      /\ {"x"} \subseteq N /\ {"b"} \subseteq N
  BY DEF Char, Space, Digit, HexDigit, BinaryDigit, OctalDigit, Sign, Suffix,
         Letter, CSymbol, Other
<1>1. /\ a \in s .. Len(input) + 1
      /\ Run(s, a, N)
      /\ At(s, Digit) => a > s
      /\ ~At(s, Digit) => a = s
  <2>1. CASE ~At(s, {"0"})
    <3>1. a = After(s, Digit)
      BY <2>1 DEF IntegerEnd
    <3>. QED
      BY <1>0, <3>1, AfterEnds DEF Run, At
  <2>2. CASE At(s, {"0"})
    <3>0. s \in 1 .. Len(input) /\ At(s, N) /\ At(s, Digit)
      BY <1>0, <2>2 DEF At, Digit
    <3>1. CASE At(s + 1, {"x"})
      <4>1. a = After(s + 2, HexDigit) /\ s + 2 \in 1 .. Len(input) + 1
            /\ At(s + 1, N)
        BY <1>0, <2>2, <3>0, <3>1 DEF IntegerEnd, At
      <4>2. a \in s + 2 .. Len(input) + 1 /\ Run(s + 2, a, HexDigit)
        BY <4>1, AfterEnds
      <4>. QED
        BY <1>0, <3>0, <4>1, <4>2 DEF Run, At
    <3>2. CASE ~At(s + 1, {"x"}) /\ At(s + 1, {"b"})
      <4>1. a = After(s + 2, BinaryDigit) /\ s + 2 \in 1 .. Len(input) + 1
            /\ At(s + 1, N)
        BY <1>0, <2>2, <3>0, <3>2 DEF IntegerEnd, At
      <4>2. a \in s + 2 .. Len(input) + 1 /\ Run(s + 2, a, BinaryDigit)
        BY <4>1, AfterEnds
      <4>. QED
        BY <1>0, <3>0, <4>1, <4>2 DEF Run, At
    <3>3. CASE ~At(s + 1, {"x"}) /\ ~At(s + 1, {"b"}) /\ At(s + 1, Digit)
      <4>1. a = After(s + 1, OctalDigit) /\ s + 1 \in 1 .. Len(input) + 1
        BY <2>2, <3>0, <3>3 DEF IntegerEnd, At
      <4>2. a \in s + 1 .. Len(input) + 1 /\ Run(s + 1, a, OctalDigit)
        BY <4>1, AfterEnds
      <4>. QED
        BY <1>0, <3>0, <4>1, <4>2 DEF Run, At
    <3>4. CASE ~At(s + 1, {"x"}) /\ ~At(s + 1, {"b"}) /\ ~At(s + 1, Digit)
      <4>1. a = s + 1
        BY <2>2, <3>4 DEF IntegerEnd
      <4>. QED
        BY <3>0, <4>1 DEF Run
    <3>. QED
      BY <3>1, <3>2, <3>3, <3>4
  <2>. QED
    BY <2>1, <2>2
<1>2. /\ b \in a .. Len(input) + 1
      /\ Run(a, b, N)
      /\ ~At(s, Digit) => b > s
  <2>. HIDE DEF a
  <2>1. CASE At(a, {"."})
    <3>1. b = After(a + 1, Digit) /\ a + 1 \in 1 .. Len(input) + 1 /\ At(a, N)
      BY <1>0, <1>1, <2>1 DEF FractionEnd, At
    <3>2. b \in a + 1 .. Len(input) + 1 /\ Run(a + 1, b, Digit)
      BY <3>1, AfterEnds
    <3>. QED
      BY <1>0, <1>1, <3>1, <3>2 DEF Run, At
  <2>2. CASE ~At(a, {"."})
    BY <1>1, <2>2 DEF FractionEnd, Run, NumberStarts
  <2>. QED
    BY <2>1, <2>2
<1>3. c \in b .. Len(input) + 1 /\ Run(b, c, N)
  <2>. HIDE DEF a, b
  <2>1. CASE At(b, {"e"})
    <3>1. /\ c = After(SignEnd(b + 1), Digit)
          /\ SignEnd(b + 1) \in b + 1 .. Len(input) + 1
          /\ Run(b, SignEnd(b + 1), N)
      BY <1>0, <1>1, <1>2, <2>1 DEF ExponentEnd, SignEnd, At, Run
    <3>2. c \in SignEnd(b + 1) .. Len(input) + 1 /\ Run(SignEnd(b + 1), c, Digit)
      BY <1>1, <1>2, <3>1, AfterEnds
    <3>. QED
      BY <1>0, <1>1, <1>2, <3>1, <3>2 DEF Run, At
  <2>2. CASE ~At(b, {"e"})
    BY <1>1, <1>2, <2>2 DEF ExponentEnd, Run
  <2>. QED
    BY <2>1, <2>2
<1>4. /\ NumberEnd(s) \in c .. Len(input) + 1
      /\ Run(c, NumberEnd(s), N)
  <2>1. c \in 1 .. Len(input) + 1 /\ NumberEnd(s) = After(c, Suffix)
    BY <1>1, <1>2, <1>3 DEF NumberEnd
  <2>. HIDE DEF a, b, c
  <2>. QED
    BY <1>0, <2>1, AfterEnds DEF Run, At
<1>5. \A k \in s .. NumberEnd(s) - 1 : At(k, N)
  <2>. HIDE DEF a, b, c, N
  <2>1. /\ a \in Nat /\ b \in Nat /\ c \in Nat /\ NumberEnd(s) \in Nat
    BY <1>1, <1>2, <1>3, <1>4
  <2>. TAKE k \in s .. NumberEnd(s) - 1
  <2>2. \/ k \in s .. a - 1 \/ k \in a .. b - 1
        \/ k \in b .. c - 1 \/ k \in c .. NumberEnd(s) - 1
    BY <2>1
  <2>. QED
    BY <1>1, <1>2, <1>3, <1>4, <2>2 DEF Run
<1>6. NumberEnd(s) \in s + 1 .. Len(input) + 1
  <2>. HIDE DEF a, b, c
  <2>. QED
    BY <1>1, <1>2, <1>3, <1>4
<1>. QED
  BY <1>5, <1>6 DEF Run

-----------------------------------------------------------------------------
(***************************************************************************)
(* Types and tiling.                                                       *)
(***************************************************************************)
TilingInv == TypeOK /\ Tiled /\ pos = EndsBefore(Len(out) + 1)

\* The blanks before a token.
LEMMA Skipped ==
  ASSUME TilingInv
  PROVE  /\ input \in Seq(Char) /\ pos \in 1 .. Len(input) + 1
         /\ SkipSpace(pos) \in pos .. Len(input) + 1
         /\ Run(pos, SkipSpace(pos), Space)
         /\ ~At(SkipSpace(pos), Space)
<1>1. input \in Seq(Char) /\ pos \in 1 .. Len(input) + 1
  BY DEF TilingInv, TypeOK
<1>. QED
  BY <1>1, AfterEnds DEF SkipSpace

\* What is returned begins after the blanks, has none and ends in the string.
LEMMA ReturnTiles ==
  ASSUME TilingInv, NEW kind \in Kinds, NEW s, s = SkipSpace(pos),
         NEW e \in s .. Len(input) + 1, Run(s, e, Char \ Space),
         Return(kind, s, e)
  PROVE  TilingInv'
<1> DEFINE token == [kind |-> kind, from |-> s, to |-> e]
           T == [kind : Kinds, from : 1 .. Len(input) + 1,
                 to : 1 .. Len(input) + 1]
<1>1. /\ pos' = e /\ out' = Append(out, token) /\ input' = input
      /\ out \in Seq(T)
      /\ pos = EndsBefore(Len(out) + 1)
  BY DEF Return, TilingInv, TypeOK
<1>2. /\ pos \in 1 .. Len(input) + 1 /\ s \in pos .. Len(input) + 1
      /\ Run(pos, s, Space) /\ input \in Seq(Char)
  BY Skipped
<1>3. token \in T
  BY <1>2
<1> HIDE DEF T
<1>4. PICK n \in Nat : n = Len(out)
  BY <1>1
<1>5. /\ out' \in Seq(T) /\ Len(out') = n + 1 /\ out'[n + 1] = token
      /\ \A k \in 1 .. n : out'[k] = out[k]
      /\ DOMAIN out' = 1 .. n + 1 /\ DOMAIN out = 1 .. n
  BY <1>1, <1>3, <1>4
<1>6. TypeOK'
  <2>1. input' \in Seq(Char) /\ pos' \in 1 .. Len(input') + 1
    BY <1>1, <1>2 DEF TilingInv, TypeOK
  <2>. QED
    BY <1>1, <1>5, <2>1 DEF TypeOK, T
<1>7. /\ \A k \in 1 .. n + 1 : EndsBefore(k)' = EndsBefore(k)
      /\ EndsBefore(n + 2)' = e
  <2>1. ASSUME NEW k \in 1 .. n + 1
        PROVE  EndsBefore(k)' = EndsBefore(k)
    <3>1. CASE k = 1
      BY <3>1 DEF EndsBefore
    <3>2. CASE k # 1
      <4>1. k - 1 \in 1 .. n
        BY <1>4, <3>2
      <4>. QED
        BY <1>5, <3>2, <4>1 DEF EndsBefore
    <3>. QED
      BY <3>1, <3>2
  <2>2. EndsBefore(n + 2)' = e
    <3>1. n + 2 # 1 /\ (n + 2) - 1 = n + 1
      OBVIOUS
    <3>. QED
      BY <1>5, <3>1 DEF EndsBefore
  <2>. QED
    BY <2>1, <2>2
<1>8. Tiled'
  <2>1. ASSUME NEW k \in 1 .. n
        PROVE  /\ out'[k].from \in EndsBefore(k)' .. out'[k].to
               /\ \A p \in EndsBefore(k)' .. out'[k].from - 1 :
                    input'[p] \in Space
               /\ \A p \in out'[k].from .. out'[k].to - 1 :
                    input'[p] \notin Space
    BY <1>1, <1>5, <1>7 DEF TilingInv, Tiled
  <2>2. /\ token.from \in pos .. token.to
        /\ \A p \in pos .. token.from - 1 : input[p] \in Space
        /\ \A p \in token.from .. token.to - 1 : input[p] \notin Space
    BY <1>2 DEF Run, At
  <2>3. EndsBefore(n + 1)' = pos
    BY <1>1, <1>4, <1>7
  <2>. QED
    BY <1>1, <1>5, <2>1, <2>2, <2>3 DEF Tiled
<1>9. pos' = EndsBefore(Len(out) + 1)'
  <2>1. Len(out') + 1 = n + 2
    BY <1>5
  <2>. QED
    BY <1>1, <1>7, <2>1 DEF EndsBefore
<1>. QED
  BY <1>6, <1>8, <1>9 DEF TilingInv

\* Whatever next returns, it returns so.
LEMMA TilingStep == TilingInv /\ [Next]_vars => TilingInv'
<1> SUFFICES ASSUME TilingInv, [Next]_vars
             PROVE  TilingInv'
  OBVIOUS
<1> DEFINE s == SkipSpace(pos)
<1>1. /\ input \in Seq(Char) /\ pos \in 1 .. Len(input) + 1
      /\ s \in 1 .. Len(input) + 1 /\ ~At(s, Space) /\ s = SkipSpace(pos)
  BY Skipped
<1> HIDE DEF s
<1>2. CASE EndOfFile
  BY <1>1, <1>2, ReturnTiles DEF EndOfFile, Kinds, Run
<1>3. CASE Word
  <2> DEFINE e == After(s, Letter \cup Digit)
             kind == IF SubSeq(input, s, e - 1) \in Keywords
                     THEN "Keyword" ELSE "Identifier"
  <2>1. Return(kind, s, e) /\ kind \in Kinds
    BY <1>1, <1>3 DEF Word, Kinds
  <2>2. e \in s .. Len(input) + 1 /\ Run(s, e, Letter \cup Digit)
    BY <1>1, AfterEnds
  <2>3. Letter \cup Digit \subseteq Char \ Space
    BY DEF Letter, Digit, Char, Space
  <2>4. Run(s, e, Char \ Space)
    BY <2>2, <2>3 DEF Run, At
  <2>. HIDE DEF kind, e
  <2>. QED
    BY <1>1, <2>1, <2>2, <2>4, ReturnTiles
<1>4. CASE Number
  <2>1. NumberStarts(s) /\ Return("Constant", s, NumberEnd(s))
    BY <1>1, <1>4 DEF Number
  <2>2. /\ NumberEnd(s) \in s + 1 .. Len(input) + 1
        /\ Run(s, NumberEnd(s), Char \ (Space \cup {"p"}))
    BY <1>1, <2>1, NumberSpan
  <2>3. /\ NumberEnd(s) \in s .. Len(input) + 1
        /\ Run(s, NumberEnd(s), Char \ Space)
    BY <1>1, <2>2 DEF Run, At
  <2>. QED
    BY <1>1, <2>1, <2>3, ReturnTiles DEF Kinds
<1>5. CASE Symbol
  <2>1. At(s, CSymbol) /\ Return("Symbol", s, s + 1)
    BY <1>1, <1>5 DEF Symbol
  <2>0. CSymbol \subseteq Char \ Space
    BY DEF CSymbol, Char, Space
  <2>2. s \in 1 .. Len(input) /\ input[s] \in Char \ Space
    BY <1>1, <2>0, <2>1 DEF At
  <2>3. s + 1 \in s .. Len(input) + 1 /\ Run(s, s + 1, Char \ Space)
    BY <2>2 DEF At, Run
  <2>. QED
    BY <1>1, <2>1, <2>3, ReturnTiles DEF Kinds
<1>6. CASE InvalidCharacter
  <2>1. s <= Len(input) /\ Return("Error", s, s + 1)
    BY <1>1, <1>6 DEF InvalidCharacter, ErrorEnd
  <2>2. s \in 1 .. Len(input) /\ input[s] \in Char \ Space
    BY <1>1, <2>1 DEF At
  <2>3. s + 1 \in s .. Len(input) + 1 /\ Run(s, s + 1, Char \ Space)
    BY <2>2 DEF At, Run
  <2>. QED
    BY <1>1, <2>1, <2>3, ReturnTiles DEF Kinds
<1>7. CASE UNCHANGED vars
  BY <1>7 DEF vars, TilingInv, TypeOK, Tiled, EndsBefore
<1>. QED
  BY <1>2, <1>3, <1>4, <1>5, <1>6, <1>7 DEF Next

\* No character has been read.
LEMMA TilingInit == Init => TilingInv
<1> SUFFICES ASSUME Init
             PROVE  TilingInv
  OBVIOUS
<1>1. input \in Seq(Char) /\ pos = 1 /\ out = <<>>
  BY InputAssumption DEF Init
<1>2. Len(input) \in Nat /\ Len(out) = 0 /\ DOMAIN out = {}
  BY <1>1
<1>3. out \in Seq([kind : Kinds, from : 1 .. Len(input) + 1,
                   to : 1 .. Len(input) + 1])
  BY <1>1
<1>. QED
  BY <1>1, <1>2, <1>3 DEF TilingInv, TypeOK, Tiled, EndsBefore

\* The tokens cover what has been read.
LEMMA Tiling == Spec => []TilingInv
BY TilingInit, TilingStep, PTL DEF Spec

\* The positions of Lexer::next stay inside the input, in its tokens too.
THEOREM TypeCorrect == Spec => []TypeOK
<1>1. TilingInv => TypeOK
  BY DEF TilingInv
<1>. QED
  BY <1>1, Tiling, PTL

\* For inputs of any length: what Lexer::next returns lies one after the other,
\* without a blank in it, and only blanks lie between.
THEOREM NothingLost == Spec => []Tiled
<1>1. TilingInv => Tiled
  BY DEF TilingInv
<1>. QED
  BY <1>1, Tiling, PTL
-----------------------------------------------------------------------------
(***************************************************************************)
(* Constants come out whole.                                               *)
(***************************************************************************)

\* The text between two places of the input.
Between(a, b) == SubSeq(input, a, b - 1)

\* A piece of the input, character by character.
LEMMA Texts ==
  ASSUME input \in Seq(Char), NEW a \in 1 .. Len(input) + 1,
         NEW b \in a .. Len(input) + 1
  PROVE  /\ Between(a, b) \in Seq(Char)
         /\ Len(Between(a, b)) = b - a
         /\ DOMAIN Between(a, b) = 1 .. b - a
         /\ \A k \in 1 .. b - a : Between(a, b)[k] = input[a + k - 1]
         /\ \A C : Made(Between(a, b), C) => Run(a, b, C)
         /\ \A p \in a .. b - 1 : Between(a, b)[p - a + 1] = input[p]
<1>1. /\ Between(a, b) \in Seq(Char)
      /\ Len(Between(a, b)) = b - a
      /\ DOMAIN Between(a, b) = 1 .. b - a
      /\ \A k \in 1 .. b - a : Between(a, b)[k] = input[a + k - 1]
  BY DEF Between
<1>2. \A p \in a .. b - 1 : /\ p - a + 1 \in 1 .. b - a
                            /\ a + (p - a + 1) - 1 = p
                            /\ p \in 1 .. Len(input)
  OBVIOUS
<1>3. \A p \in a .. b - 1 : Between(a, b)[p - a + 1] = input[p]
  BY <1>1, <1>2
<1>4. ASSUME NEW C, Made(Between(a, b), C)
      PROVE  Run(a, b, C)
  <2>. SUFFICES ASSUME NEW p \in a .. b - 1
                PROVE  At(p, C)
    BY DEF Run
  <2>1. p - a + 1 \in 1 .. b - a /\ p \in 1 .. Len(input)
    BY <1>2
  <2>2. Between(a, b)[p - a + 1] \in C
    BY <1>1, <1>4, <2>1 DEF Made
  <2>. QED
    BY <1>3, <2>1, <2>2 DEF At
<1>. QED
  BY <1>1, <1>3, <1>4

\* A part of a text is the text between two other places.
LEMMA TextOfText ==
  ASSUME input \in Seq(Char), NEW a \in 1 .. Len(input) + 1,
         NEW b \in a .. Len(input) + 1,
         NEW i \in 1 .. (b - a) + 1, NEW j \in i - 1 .. b - a
  PROVE  SubSeq(Between(a, b), i, j) = Between(a + i - 1, a + j)
<1> DEFINE t == Between(a, b)
           u == SubSeq(t, i, j)
           c == a + i - 1
           d == a + j
           v == Between(c, d)
<1>1. /\ t \in Seq(Char) /\ Len(t) = b - a
      /\ \A k \in 1 .. b - a : t[k] = input[a + k - 1]
  BY Texts
<1>2. /\ c \in 1 .. Len(input) + 1 /\ d \in c .. Len(input) + 1
      /\ d - c = j - i + 1
  OBVIOUS
<1>3. /\ v \in Seq(Char) /\ Len(v) = j - i + 1
      /\ \A k \in 1 .. j - i + 1 : v[k] = input[c + k - 1]
  <2>. HIDE DEF c, d
  <2>1. /\ v \in Seq(Char) /\ Len(v) = d - c
        /\ \A k \in 1 .. d - c : v[k] = input[c + k - 1]
    BY <1>2, Texts
  <2>. QED
    BY <1>2, <2>1
<1> HIDE DEF t
<1>4. /\ u \in Seq(Char) /\ Len(u) = j - i + 1
      /\ \A k \in 1 .. j - i + 1 : u[k] = t[i + k - 1]
  <2>1. i \in 1 .. Len(t) + 1 /\ j \in i - 1 .. Len(t)
    BY <1>1
  <2>2. \A k \in i .. j : t[k] \in Char
    BY <1>1, <2>1
  <2>. QED
    BY <1>1, <2>1, <2>2, SubSeqProperties
<1>5. \A k \in 1 .. j - i + 1 : u[k] = v[k]
  <2>. TAKE k \in 1 .. j - i + 1
  <2>1. i + k - 1 \in 1 .. b - a /\ a + (i + k - 1) - 1 = c + k - 1
    OBVIOUS
  <2>. QED
    BY <1>1, <1>3, <1>4, <2>1
<1> HIDE DEF u, v
<1>6. u = v
  BY <1>3, <1>4, <1>5
<1>. QED
  BY <1>6 DEF u, v, t

\* A text is cut in two at a place between its ends.
LEMMA Splitting ==
  ASSUME input \in Seq(Char), NEW a \in 1 .. Len(input) + 1,
         NEW b \in a .. Len(input) + 1, NEW k \in 1 .. b - a
  PROVE  /\ UpTo(Between(a, b), k) = Between(a, a + k)
         /\ From(Between(a, b), k + 1) = Between(a + k, b)
<1> DEFINE t == Between(a, b)
<1>1. Len(t) = b - a
  BY Texts
<1>2. /\ 1 \in 1 .. (b - a) + 1 /\ k \in 1 - 1 .. b - a /\ a + 1 - 1 = a
      /\ k + 1 \in 1 .. (b - a) + 1 /\ b - a \in (k + 1) - 1 .. b - a
      /\ a + (k + 1) - 1 = a + k /\ a + (b - a) = b
  OBVIOUS
<1>3. SubSeq(t, 1, k) = Between(a + 1 - 1, a + k)
  BY <1>2, TextOfText
<1>4. SubSeq(t, k + 1, b - a) = Between(a + (k + 1) - 1, a + (b - a))
  BY <1>2, TextOfText
<1> HIDE DEF t
<1>5. UpTo(t, k) = Between(a, a + k) /\ From(t, k + 1) = Between(a + k, b)
  BY <1>1, <1>2, <1>3, <1>4 DEF From, UpTo
<1>. QED
  BY <1>5 DEF t

\* Where no character continues a constant, no loop goes on.
LEMMA Delimiter ==
  ASSUME input \in Seq(Char), NEW e \in 1 .. Len(input) + 1, Delimited(e)
  PROVE  /\ ~At(e, Digit) /\ ~At(e, OctalDigit) /\ ~At(e, HexDigit)
         /\ ~At(e, BinaryDigit) /\ ~At(e, Suffix) /\ ~At(e, {"."})
         /\ ~At(e, {"e"}) /\ ~At(e, {"x"}) /\ ~At(e, {"b"})
         /\ FractionEnd(e) = e /\ ExponentEnd(e) = e /\ After(e, Suffix) = e
<1>1. \A C \in {Digit, OctalDigit, HexDigit, BinaryDigit, Suffix, {"."}, {"e"},
                {"x"}, {"b"}} : C \subseteq Letter \cup Digit \cup {"."}
  BY DEF Digit, OctalDigit, HexDigit, BinaryDigit, Suffix, Letter
<1>2. \A C : C \subseteq Letter \cup Digit \cup {"."} => ~At(e, C)
  BY DEF Delimited, At
<1>3. /\ ~At(e, Digit) /\ ~At(e, OctalDigit) /\ ~At(e, HexDigit)
      /\ ~At(e, BinaryDigit) /\ ~At(e, Suffix) /\ ~At(e, {"."})
      /\ ~At(e, {"e"}) /\ ~At(e, {"x"}) /\ ~At(e, {"b"})
  BY <1>1, <1>2
<1>4. After(e, Suffix) = e
  BY <1>3, AfterIs DEF Run
<1>. QED
  BY <1>3, <1>4 DEF FractionEnd, ExponentEnd

\* An integer constant without suffix ends where IntegerEnd says.
LEMMA IntegerRead ==
  ASSUME input \in Seq(Char), NEW s \in 1 .. Len(input),
         NEW e \in s + 1 .. Len(input) + 1, Integer(Between(s, e)),
         ~At(e, HexDigit), ~At(e, {"x"})
  PROVE  At(s, Digit) /\ IntegerEnd(s) = e
<1> DEFINE t == Between(s, e)
<1>1. /\ Len(t) = e - s /\ t[1] = input[s]
      /\ e > s + 1 => t[2] = input[s + 1]
      /\ \A C : Made(t, C) => Run(s, e, C)
  <2>1. s \in 1 .. Len(input) + 1 /\ e \in s .. Len(input) + 1
    OBVIOUS
  <2>2. /\ Len(t) = e - s
        /\ \A k \in 1 .. e - s : t[k] = input[s + k - 1]
        /\ \A C : Made(t, C) => Run(s, e, C)
    BY <2>1, Texts
  <2>3. 1 \in 1 .. e - s /\ s + 1 - 1 = s /\ s + 2 - 1 = s + 1
        /\ (e > s + 1 => 2 \in 1 .. e - s)
    OBVIOUS
  <2>. HIDE DEF t
  <2>. QED
    BY <2>2, <2>3
<1>2. /\ ~At(e, Digit) /\ ~At(e, OctalDigit) /\ ~At(e, HexDigit)
      /\ ~At(e, BinaryDigit) /\ ~At(e, {"x"}) /\ ~At(e, {"b"})
  BY DEF At, HexDigit, Digit, OctalDigit, BinaryDigit
<1>3. CASE t[1] # "0" /\ Made(t, Digit)
  <2>1. Run(s, e, Digit) /\ ~At(s, {"0"})
    BY <1>1, <1>3 DEF At
  <2>2. After(s, Digit) = e
    BY <1>2, <2>1, AfterIs
  <2>. QED
    BY <2>1, <2>2 DEF IntegerEnd, Run
<1>4. CASE t[1] = "0" /\ Made(t, OctalDigit)
  <2>1. Run(s, e, OctalDigit) /\ At(s, {"0"}) /\ At(s, Digit)
    BY <1>1, <1>4 DEF At, Digit
  <2>2. CASE e = s + 1
    BY <1>2, <2>1, <2>2 DEF IntegerEnd
  <2>3. CASE e > s + 1
    <3>1. At(s + 1, OctalDigit)
      BY <2>1, <2>3 DEF Run
    <3>2. ~At(s + 1, {"x"}) /\ ~At(s + 1, {"b"}) /\ At(s + 1, Digit)
      BY <3>1 DEF At, OctalDigit, Digit
    <3>3. Run(s + 1, e, OctalDigit)
      BY <2>1 DEF Run
    <3>4. After(s + 1, OctalDigit) = e
      BY <1>2, <3>3, AfterIs
    <3>. QED
      BY <2>1, <3>2, <3>4 DEF IntegerEnd
  <2>. QED
    BY <2>2, <2>3
<1>5. ASSUME NEW x, NEW C, Prefixed(t, x, C)
      PROVE  /\ At(s, {"0"}) /\ At(s, Digit) /\ At(s + 1, {x})
             /\ s + 2 \in 1 .. Len(input) + 1 /\ e \in s + 2 .. Len(input) + 1
             /\ Run(s + 2, e, C)
  <2>1. e - s > 2 /\ t[1] = "0" /\ t[2] = x /\ Made(From(t, 3), C)
    BY <1>1, <1>5 DEF Prefixed
  <2>2. /\ At(s, {"0"}) /\ At(s, Digit) /\ At(s + 1, {x})
        /\ s + 2 \in 1 .. Len(input) + 1 /\ e \in s + 2 .. Len(input) + 1
    BY <1>1, <2>1 DEF At, Digit
  <2>3. From(t, 3) = Between(s + 2, e)
    <3>1. /\ s \in 1 .. Len(input) + 1 /\ e \in s .. Len(input) + 1
          /\ 3 \in 1 .. (e - s) + 1 /\ e - s \in 3 - 1 .. e - s
          /\ s + 3 - 1 = s + 2 /\ s + (e - s) = e
      BY <2>1
    <3>. QED
      BY <1>1, <3>1, TextOfText DEF From
  <2>4. Run(s + 2, e, C)
    BY <2>1, <2>2, <2>3, Texts
  <2>. QED
    BY <2>2, <2>4
<1>6. CASE Prefixed(t, "x", HexDigit)
  <2>1. After(s + 2, HexDigit) = e
    BY <1>2, <1>5, <1>6, AfterIs
  <2>. QED
    BY <1>5, <1>6, <2>1 DEF IntegerEnd
<1>7. CASE Prefixed(t, "b", BinaryDigit)
  <2>1. After(s + 2, BinaryDigit) = e
    BY <1>2, <1>5, <1>7, AfterIs
  <2>2. ~At(s + 1, {"x"})
    BY <1>5, <1>7 DEF At
  <2>. QED
    BY <1>5, <1>7, <2>1, <2>2 DEF IntegerEnd
<1>. QED
  BY <1>3, <1>4, <1>6, <1>7 DEF Integer

\* The exponent of a floating constant ends where ExponentEnd says.
LEMMA ExponentRead ==
  ASSUME input \in Seq(Char), NEW c \in 1 .. Len(input),
         NEW d \in c .. Len(input) + 1, ExponentPart(Between(c, d), "e"),
         ~At(d, Digit)
  PROVE  At(c, {"e"}) /\ ExponentEnd(c) = d
<1> DEFINE t == Between(c, d)
<1>1. /\ Len(t) = d - c
      /\ \A k \in 1 .. d - c : t[k] = input[c + k - 1]
  <2>1. c \in 1 .. Len(input) + 1
    OBVIOUS
  <2>. QED
    BY <2>1, Texts
<1>2. ASSUME NEW i \in 1 .. (d - c) + 1
      PROVE  /\ From(t, i) = Between(c + i - 1, d)
             /\ \A C : Made(From(t, i), C) => Run(c + i - 1, d, C)
  <2>1. From(t, i) = Between(c + i - 1, d)
    <3>1. d - c \in i - 1 .. d - c /\ c + (d - c) = d /\ c \in 1 .. Len(input) + 1
      OBVIOUS
    <3>2. SubSeq(t, i, d - c) = Between(c + i - 1, c + (d - c))
      BY <3>1, TextOfText
    <3>. QED
      BY <1>1, <3>1, <3>2 DEF From
  <2>2. c + i - 1 \in 1 .. Len(input) + 1 /\ d \in c + i - 1 .. Len(input) + 1
    OBVIOUS
  <2>. QED
    BY <2>1, <2>2, Texts
<1> HIDE DEF t
<1>3. d - c > 1 /\ t[1] = "e"
  BY <1>1 DEF ExponentPart, t
<1>4. At(c, {"e"})
  BY <1>1, <1>3 DEF At
<1>5. CASE Made(From(t, 2), Digit)
  <2>1. Run(c + 1, d, Digit)
    <3>1. 2 \in 1 .. (d - c) + 1 /\ c + 2 - 1 = c + 1
      BY <1>3
    <3>. QED
      BY <1>2, <1>5, <3>1
  <2>2. At(c + 1, Digit)
    BY <1>3, <2>1 DEF Run
  <2>3. SignEnd(c + 1) = c + 1
    BY <2>2 DEF At, SignEnd, Sign, Digit
  <2>4. After(c + 1, Digit) = d
    <3>1. c + 1 \in 1 .. Len(input) + 1 /\ d \in c + 1 .. Len(input) + 1
      BY <1>3
    <3>. QED
      BY <2>1, <3>1, AfterIs
  <2>. QED
    BY <1>4, <2>3, <2>4 DEF ExponentEnd
<1>6. CASE Len(t) > 2 /\ t[2] \in Sign /\ Made(From(t, 3), Digit)
  <2>0. d - c > 2
    BY <1>1, <1>6
  <2>1. Run(c + 2, d, Digit)
    <3>1. 3 \in 1 .. (d - c) + 1 /\ c + 3 - 1 = c + 2
      BY <2>0
    <3>. QED
      BY <1>2, <1>6, <3>1
  <2>2. At(c + 1, Sign)
    <3>1. 2 \in 1 .. d - c /\ c + 2 - 1 = c + 1 /\ c + 1 <= Len(input)
      BY <2>0
    <3>. QED
      BY <1>1, <1>6, <3>1 DEF At
  <2>3. SignEnd(c + 1) = c + 2
    BY <2>2 DEF SignEnd
  <2>4. After(c + 2, Digit) = d
    <3>1. c + 2 \in 1 .. Len(input) + 1 /\ d \in c + 2 .. Len(input) + 1
      BY <2>0
    <3>. QED
      BY <2>1, <3>1, AfterIs
  <2>. QED
    BY <1>4, <2>3, <2>4 DEF ExponentEnd
<1>. QED
  BY <1>4, <1>5, <1>6 DEF ExponentPart, t

\* Digits that no digit continues are the integer part of a decimal constant,
\* if they are octal where they begin with a zero.
LEMMA DigitsRead ==
  ASSUME input \in Seq(Char), NEW s \in 1 .. Len(input),
         NEW j \in s .. Len(input), Run(s, j, Digit), At(j, {".", "e"}),
         At(s, {"0"}) => Run(s, j, OctalDigit)
  PROVE  IntegerEnd(s) = j
<1>1. /\ ~At(j, Digit) /\ ~At(j, {"x"}) /\ ~At(j, {"b"}) /\ ~At(j, {"0"})
  BY DEF At, Digit
<1>2. CASE ~At(s, {"0"})
  BY <1>1, <1>2, AfterIs DEF IntegerEnd
<1>3. CASE At(s, {"0"})
  <2>1. CASE j = s + 1
    BY <1>1, <1>3, <2>1 DEF IntegerEnd
  <2>2. CASE j > s + 1
    <3>1. At(s + 1, OctalDigit) /\ Run(s + 1, j, OctalDigit)
      BY <1>3, <2>2 DEF Run
    <3>2. ~At(s + 1, {"x"}) /\ ~At(s + 1, {"b"}) /\ At(s + 1, Digit)
      BY <3>1 DEF At, OctalDigit, Digit
    <3>3. ~At(j, OctalDigit)
      BY <1>1 DEF At, OctalDigit, Digit
    <3>4. After(s + 1, OctalDigit) = j
      BY <2>2, <3>1, <3>3, AfterIs
    <3>. QED
      BY <1>3, <3>2, <3>4 DEF IntegerEnd
  <2>3. j # s
    BY <1>1, <1>3
  <2>. QED
    BY <2>1, <2>2, <2>3
<1>. QED
  BY <1>2, <1>3

\* A decimal constant ends where ExponentEnd says.
LEMMA DecimalRead ==
  ASSUME input \in Seq(Char), NEW s \in 1 .. Len(input),
         NEW d \in s + 1 .. Len(input) + 1, DecimalFloat(Between(s, d)),
         ~At(d, Digit), ~At(d, {"."}), ~At(d, {"e"}),
         \A j \in s .. d : At(s, {"0"}) /\ Run(s, j, Digit) => Run(s, j, OctalDigit)
  PROVE  /\ NumberStarts(s)
         /\ ExponentEnd(FractionEnd(IntegerEnd(s))) = d
<1> DEFINE t == Between(s, d)
<1>0. s \in 1 .. Len(input) + 1 /\ d \in s .. Len(input) + 1
  OBVIOUS
<1>1. /\ Len(t) = d - s /\ DOMAIN t = 1 .. d - s
      /\ \A k \in 1 .. d - s : t[k] = input[s + k - 1]
  BY <1>0, Texts
<1>3. PICK k \in 1 .. d - s :
        \/ /\ Fractional(UpTo(t, k), Digit)
           /\ From(t, k + 1) = <<>> \/ ExponentPart(From(t, k + 1), "e")
        \/ Made(UpTo(t, k), Digit) /\ ExponentPart(From(t, k + 1), "e")
  BY <1>1 DEF DecimalFloat
<1> DEFINE c == s + k
           m == Between(s, c)
<1>4. c \in s + 1 .. d /\ c \in s .. Len(input) + 1 /\ c - s = k
  OBVIOUS
<1>5. UpTo(t, k) = m /\ From(t, k + 1) = Between(c, d)
  BY <1>0, Splitting
<1>6. /\ Len(m) = c - s /\ DOMAIN m = 1 .. c - s
      /\ \A p \in s .. c - 1 : m[p - s + 1] = input[p]
      /\ \A i \in 1 .. c - s : m[i] = input[s + i - 1]
      /\ \A C : Made(m, C) => Run(s, c, C)
  <2>. HIDE DEF c
  <2>. QED
    BY <1>0, <1>4, Texts
<1> HIDE DEF t, c, m
<1>7. ASSUME ExponentPart(Between(c, d), "e")
      PROVE  c \in 1 .. Len(input) /\ At(c, {"e"}) /\ ExponentEnd(c) = d
  <2>1. c < d
    <3>1. CASE c = d
      <4>1. Len(Between(d, d)) = d - d
        <5>1. d \in 1 .. Len(input) + 1 /\ d \in d .. Len(input) + 1
          BY <1>0
        <5>. QED
          BY <5>1, Texts
      <4>. QED
        BY <1>7, <3>1, <4>1 DEF ExponentPart
    <3>. QED
      BY <1>4, <3>1
  <2>2. c \in 1 .. Len(input) /\ d \in c .. Len(input) + 1
    BY <1>0, <1>4, <2>1
  <2>. QED
    BY <1>7, <2>2, ExponentRead
<1>8. CASE Made(m, Digit) /\ ExponentPart(Between(c, d), "e")
  <2>1. Run(s, c, Digit) /\ At(s, Digit)
    BY <1>4, <1>6, <1>8 DEF Run
  <2>2. /\ c \in s .. Len(input) /\ At(c, {"e"}) /\ ExponentEnd(c) = d
        /\ c < d
    BY <1>4, <1>7, <1>8 DEF At
  <2>3. At(c, {".", "e"}) /\ ~At(c, {"."}) /\ ~At(c, Digit)
    BY <2>2 DEF At, Digit
  <2>4. At(s, {"0"}) => Run(s, c, OctalDigit)
    BY <1>4, <2>1
  <2>5. IntegerEnd(s) = c
    BY <2>1, <2>2, <2>3, <2>4, DigitsRead
  <2>. QED
    BY <2>1, <2>2, <2>3, <2>5 DEF NumberStarts, FractionEnd
<1>9. CASE /\ Fractional(m, Digit)
           /\ Between(c, d) = <<>> \/ ExponentPart(Between(c, d), "e")
  <2>1. ~At(c, Digit) /\ ExponentEnd(c) = d
    <3>1. CASE Between(c, d) = <<>>
      <4>1. Len(Between(c, d)) = d - c
        <5>1. c \in 1 .. Len(input) + 1 /\ d \in c .. Len(input) + 1
          BY <1>0, <1>4
        <5>. QED
          BY <5>1, Texts
      <4>2. c = d
        BY <1>0, <1>4, <3>1, <4>1
      <4>. QED
        BY <4>2 DEF ExponentEnd
    <3>2. CASE ExponentPart(Between(c, d), "e")
      BY <1>7, <3>2 DEF At, Digit
    <3>. QED
      BY <1>9, <3>1, <3>2
  <2>2. /\ c - s > 1
        /\ \E i \in 1 .. c - s :
             m[i] = "." /\ \A l \in (1 .. c - s) \ {i} : m[l] \in Digit
    BY <1>6, <1>9 DEF Fractional
  <2>3. PICK j \in s .. c - 1 :
          /\ input[j] = "."
          /\ \A p \in (s .. c - 1) \ {j} : input[p] \in Digit
    <3>1. PICK i \in 1 .. c - s :
             m[i] = "." /\ \A l \in (1 .. c - s) \ {i} : m[l] \in Digit
      BY <2>2
    <3>2. s + i - 1 \in s .. c - 1 /\ input[s + i - 1] = "."
      BY <1>4, <1>6, <3>1
    <3>3. ASSUME NEW p \in (s .. c - 1) \ {s + i - 1}
          PROVE  input[p] \in Digit
      <4>1. p - s + 1 \in (1 .. c - s) \ {i}
        BY <1>4
      <4>. QED
        BY <1>6, <3>1, <3>3, <4>1
    <3>. QED
      BY <3>2, <3>3
  <2>4. /\ j \in s .. Len(input) /\ At(j, {".", "e"}) /\ At(j, {"."})
        /\ Run(s, j, Digit) /\ Run(j + 1, c, Digit)
        /\ j + 1 \in 1 .. Len(input) + 1 /\ c \in j + 1 .. Len(input) + 1
    BY <1>4, <2>3 DEF At, Run
  <2>5. At(s, {"0"}) => Run(s, j, OctalDigit)
    BY <1>4, <2>4
  <2>6. IntegerEnd(s) = j
    BY <2>4, <2>5, DigitsRead
  <2>7. FractionEnd(j) = c
    BY <2>1, <2>4, AfterIs DEF FractionEnd
  <2>8. NumberStarts(s)
    <3>1. CASE j = s
      <4>1. At(s + 1, Digit)
        BY <1>4, <2>2, <2>4, <3>1 DEF Run
      <4>. QED
        BY <2>4, <3>1, <4>1 DEF NumberStarts
    <3>2. CASE j # s
      BY <2>4, <3>2 DEF NumberStarts, Run
    <3>. QED
      BY <3>1, <3>2
  <2>. QED
    BY <2>1, <2>6, <2>7, <2>8
<1>. QED
  BY <1>3, <1>5, <1>8, <1>9

\* The suffixes of constants.
LEMMA SuffixMade ==
  /\ \A x \in IntegerSuffix : Made(x, {"u", "l"})
  /\ \A x \in FloatingSuffix : Made(x, {"f", "l"})
<1>1. ASSUME NEW x \in IntegerSuffix
      PROVE  Made(x, {"u", "l"})
  <2>1. /\ Made(<<>>, {"u", "l"})
        /\ Made(<<"u">>, {"u", "l"}) /\ Made(<<"l">>, {"u", "l"})
        /\ Made(<<"l", "l">>, {"u", "l"}) /\ Made(<<"u", "l">>, {"u", "l"})
        /\ Made(<<"l", "u">>, {"u", "l"})
        /\ Made(<<"u", "l", "l">>, {"u", "l"})
        /\ Made(<<"l", "l", "u">>, {"u", "l"})
    BY DEF Made
  <2>. QED
    BY Zenon, <2>1 DEF IntegerSuffix
<1>2. ASSUME NEW x \in FloatingSuffix
      PROVE  Made(x, {"f", "l"})
  <2>1. /\ Made(<<>>, {"f", "l"})
        /\ Made(<<"f">>, {"f", "l"}) /\ Made(<<"l">>, {"f", "l"})
    BY DEF Made
  <2>. QED
    BY Zenon, <2>1 DEF FloatingSuffix
<1>. QED
  BY <1>1, <1>2

\* Where a suffix cuts a constant, its loop takes what is left.
LEMMA SuffixRead ==
  ASSUME input \in Seq(Char), NEW s \in 1 .. Len(input),
         NEW e \in s + 1 .. Len(input) + 1, Delimited(e),
         NEW C \in {{"u", "l"}, {"f", "l"}}, NEW k \in 1 .. e - s,
         Made(From(Between(s, e), k + 1), C)
  PROVE  /\ UpTo(Between(s, e), k) = Between(s, s + k)
         /\ s + k = e \/ At(s + k, C)
         /\ After(s + k, Suffix) = e
<1> DEFINE d == s + k
<1>1. s \in 1 .. Len(input) + 1 /\ e \in s .. Len(input) + 1
  OBVIOUS
<1>2. d \in s + 1 .. e /\ d \in 1 .. Len(input) + 1 /\ e \in d .. Len(input) + 1
  OBVIOUS
<1>3. UpTo(Between(s, e), k) = Between(s, d) /\ Made(Between(d, e), C)
  BY <1>1, Splitting
<1> HIDE DEF d
<1>4. Run(d, e, C)
  BY <1>2, <1>3, Texts
<1>5. C \subseteq Suffix
  BY DEF Suffix
<1>6. Run(d, e, Suffix) /\ ~At(e, Suffix)
  BY <1>1, <1>4, <1>5, Delimiter DEF Run, At
<1>7. After(d, Suffix) = e
  BY <1>2, <1>6, AfterIs
<1>8. d = e \/ At(d, C)
  BY <1>2, <1>4 DEF Run
<1>. QED
  BY <1>3, <1>7, <1>8 DEF d

\* An integer constant ends where NumberEnd says, with its suffix.
LEMMA IntegerConstantRead ==
  ASSUME input \in Seq(Char), NEW s \in 1 .. Len(input),
         NEW e \in s + 1 .. Len(input) + 1, Delimited(e),
         IntegerConstant(Between(s, e))
  PROVE  NumberStarts(s) /\ NumberEnd(s) = e
<1>1. PICK d \in s + 1 .. e : /\ Integer(Between(s, d))
                              /\ d = e \/ At(d, {"u", "l"})
                              /\ After(d, Suffix) = e
  <2>1. PICK k \in 1 .. e - s : /\ Integer(UpTo(Between(s, e), k))
                                /\ From(Between(s, e), k + 1) \in IntegerSuffix
    <3>1. s \in 1 .. Len(input) + 1 /\ e \in s .. Len(input) + 1
      OBVIOUS
    <3>2. DOMAIN Between(s, e) = 1 .. e - s
      BY <3>1, Texts
    <3>. QED
      BY <3>2 DEF IntegerConstant, Suffixed
  <2>2. /\ UpTo(Between(s, e), k) = Between(s, s + k)
        /\ s + k = e \/ At(s + k, {"u", "l"})
        /\ After(s + k, Suffix) = e
    BY <2>1, SuffixMade, SuffixRead
  <2>3. s + k \in s + 1 .. e
    OBVIOUS
  <2>. QED
    BY <2>1, <2>2, <2>3
<1>2. ~At(d, HexDigit) /\ ~At(d, {"x"}) /\ ~At(d, {"."}) /\ ~At(d, {"e"})
  <2>1. CASE d = e
    <3>1. e \in 1 .. Len(input) + 1
      OBVIOUS
    <3>. QED
      BY <2>1, <3>1, Delimiter
  <2>2. CASE At(d, {"u", "l"})
    BY <2>2 DEF At, HexDigit, Digit
  <2>. QED
    BY <1>1, <2>1, <2>2
<1>3. At(s, Digit) /\ IntegerEnd(s) = d
  BY <1>1, <1>2, IntegerRead
<1>. QED
  BY <1>1, <1>2, <1>3 DEF NumberStarts, NumberEnd, FractionEnd, ExponentEnd

\* A decimal floating constant ends there too, unless it begins as octal.
LEMMA DecimalFloatingRead ==
  ASSUME input \in Seq(Char), NEW s \in 1 .. Len(input),
         NEW e \in s + 1 .. Len(input) + 1, Delimited(e),
         DecimalFloating(Between(s, e)), ~OctalByMistake(Between(s, e))
  PROVE  NumberStarts(s) /\ NumberEnd(s) = e
<1> DEFINE t == Between(s, e)
<1>0. s \in 1 .. Len(input) + 1 /\ e \in s .. Len(input) + 1
  OBVIOUS
<1>1. PICK d \in s + 1 .. e : /\ DecimalFloat(Between(s, d))
                              /\ d = e \/ At(d, {"f", "l"})
                              /\ After(d, Suffix) = e
  <2>1. PICK k \in 1 .. e - s : /\ DecimalFloat(UpTo(Between(s, e), k))
                                /\ From(Between(s, e), k + 1) \in FloatingSuffix
    <3>1. s \in 1 .. Len(input) + 1 /\ e \in s .. Len(input) + 1
      OBVIOUS
    <3>2. DOMAIN Between(s, e) = 1 .. e - s
      BY <3>1, Texts
    <3>. QED
      BY <3>2 DEF DecimalFloating, Suffixed
  <2>2. /\ UpTo(Between(s, e), k) = Between(s, s + k)
        /\ s + k = e \/ At(s + k, {"f", "l"})
        /\ After(s + k, Suffix) = e
    BY <2>1, SuffixMade, SuffixRead
  <2>3. s + k \in s + 1 .. e
    OBVIOUS
  <2>. QED
    BY <2>1, <2>2, <2>3
<1>2. ~At(d, Digit) /\ ~At(d, {"."}) /\ ~At(d, {"e"})
  <2>1. CASE d = e
    <3>1. e \in 1 .. Len(input) + 1
      OBVIOUS
    <3>. QED
      BY <2>1, <3>1, Delimiter
  <2>2. CASE At(d, {"f", "l"})
    BY <2>2 DEF At, Digit
  <2>. QED
    BY <1>1, <2>1, <2>2
<1>3. ASSUME NEW j \in s .. d, At(s, {"0"}), Run(s, j, Digit)
      PROVE  Run(s, j, OctalDigit)
  <2>. SUFFICES ASSUME NEW p \in s .. j - 1
                PROVE  At(p, OctalDigit)
    BY DEF Run
  <2> DEFINE k == p - s + 1
  <2>1. k \in 1 .. e - s /\ s + k = p + 1 /\ p \in s .. e - 1 /\ s \in s .. e - 1
        /\ s - s + 1 = 1 /\ p + 1 \in s .. Len(input) + 1
    OBVIOUS
  <2>2. DOMAIN t = 1 .. e - s /\ t[k] = input[p] /\ t[1] = input[s]
    <3>1. /\ DOMAIN t = 1 .. e - s
          /\ \A q \in s .. e - 1 : t[q - s + 1] = input[q]
      BY <1>0, Texts
    <3>. QED
      BY <2>1, <3>1
  <2>3. Made(UpTo(t, k), Digit)
    <3>1. UpTo(t, k) = Between(s, p + 1)
      BY <1>0, <2>1, Splitting
    <3>2. /\ DOMAIN Between(s, p + 1) = 1 .. (p + 1) - s
          /\ \A i \in 1 .. (p + 1) - s : Between(s, p + 1)[i] = input[s + i - 1]
      BY <1>0, <2>1, Texts
    <3>3. \A i \in 1 .. (p + 1) - s : s + i - 1 \in s .. j - 1
      OBVIOUS
    <3>4. \A i \in 1 .. (p + 1) - s : input[s + i - 1] \in Digit
      BY <1>3, <3>3 DEF Run, At
    <3>. QED
      BY <3>1, <3>2, <3>4 DEF Made
  <2>. HIDE DEF k, t
  <2>4. ~OctalByMistake(t) /\ t[1] = "0"
    BY <1>3, <2>2 DEF t, At
  <2>5. t[k] \notin Digit \ OctalDigit
    BY <2>1, <2>2, <2>3, <2>4 DEF OctalByMistake
  <2>6. At(p, Digit)
    BY <1>3 DEF Run
  <2>. QED
    BY <2>2, <2>5, <2>6 DEF At
<1>4. NumberStarts(s) /\ ExponentEnd(FractionEnd(IntegerEnd(s))) = d
  BY <1>1, <1>2, <1>3, DecimalRead
<1>. QED
  BY <1>1, <1>4 DEF NumberEnd

\* A hexadecimal floating constant has a p, which no loop takes.
LEMMA HexadecimalFloatingRead ==
  ASSUME input \in Seq(Char), NEW s \in 1 .. Len(input),
         NEW e \in s + 1 .. Len(input) + 1, Delimited(e),
         HexadecimalFloating(Between(s, e))
  PROVE  NumberStarts(s) /\ NumberEnd(s) # e
<1>1. PICK d \in s + 1 .. e : HexadecimalFloat(Between(s, d))
  <2>0. s \in 1 .. Len(input) + 1 /\ e \in s .. Len(input) + 1
    OBVIOUS
  <2>1. DOMAIN Between(s, e) = 1 .. e - s
    BY <2>0, Texts
  <2>2. PICK k \in 1 .. e - s : HexadecimalFloat(UpTo(Between(s, e), k))
    BY <2>1 DEF HexadecimalFloating, Suffixed
  <2>3. UpTo(Between(s, e), k) = Between(s, s + k) /\ s + k \in s + 1 .. e
    BY <2>0, Splitting
  <2>. QED
    BY <2>2, <2>3
<1> DEFINE t == Between(s, d)
<1>0. s \in 1 .. Len(input) + 1 /\ d \in s .. Len(input) + 1
  OBVIOUS
<1>2. Len(t) = d - s /\ \A k \in 1 .. d - s : t[k] = input[s + k - 1]
  BY <1>0, Texts
<1>3. PICK k \in 3 .. d - s : ExponentPart(From(t, k + 1), "p")
  BY <1>1, <1>2 DEF HexadecimalFloat
<1>4. NumberStarts(s)
  <2>1. d - s > 2 /\ t[1] = "0"
    BY <1>1, <1>2 DEF HexadecimalFloat
  <2>2. 1 \in 1 .. d - s /\ s + 1 - 1 = s
    OBVIOUS
  <2>3. input[s] = "0"
    BY <1>2, <2>1, <2>2
  <2>. QED
    BY <2>3 DEF NumberStarts, At, Digit
<1> DEFINE c == s + k
           x == Between(c, d)
<1>5. k \in 1 .. d - s /\ c \in 1 .. Len(input) + 1 /\ d \in c .. Len(input) + 1
      /\ c \in s .. e
  OBVIOUS
<1>6. From(t, k + 1) = x
  BY <1>0, <1>5, Splitting
<1>7. Len(x) = d - c /\ \A i \in 1 .. d - c : x[i] = input[c + i - 1]
  <2>. HIDE DEF c
  <2>. QED
    BY <1>5, Texts
<1> HIDE DEF t, x, c
<1>8. d - c > 1 /\ x[1] = "p"
  BY <1>3, <1>6, <1>7 DEF ExponentPart
<1>9. c \in s .. e - 1 /\ input[c] = "p"
  <2>1. 1 \in 1 .. d - c /\ c + 1 - 1 = c /\ c \in s .. e - 1
    BY <1>5, <1>8
  <2>. QED
    BY <1>7, <1>8, <2>1
<1>10. Run(s, NumberEnd(s), Char \ (Space \cup {"p"}))
  BY <1>0, <1>4, NumberSpan
<1>11. ASSUME NumberEnd(s) = e
       PROVE  FALSE
  <2>1. At(c, Char \ (Space \cup {"p"}))
    BY <1>9, <1>10, <1>11 DEF Run
  <2>. QED
    BY <1>9, <2>1 DEF At
<1>. QED
  BY <1>4, <1>11

\* A constant that begins as octal ends, for the lexer, at the first digit that
\* is not.
LEMMA OctalRead ==
  ASSUME input \in Seq(Char), NEW s \in 1 .. Len(input),
         NEW e \in s + 1 .. Len(input) + 1, OctalByMistake(Between(s, e))
  PROVE  NumberStarts(s) /\ NumberEnd(s) # e
<1> DEFINE t == Between(s, e)
<1>0. s \in 1 .. Len(input) + 1 /\ e \in s .. Len(input) + 1
  OBVIOUS
<1>1. /\ DOMAIN t = 1 .. e - s
      /\ \A k \in 1 .. e - s : t[k] = input[s + k - 1]
  BY <1>0, Texts
<1>2. PICK k \in 1 .. e - s : t[k] \in Digit \ OctalDigit /\ Made(UpTo(t, k), Digit)
  BY <1>1 DEF OctalByMistake
<1> DEFINE q == s + k - 1
<1>3. /\ q \in s .. e - 1 /\ q \in 1 .. Len(input) /\ s + k = q + 1
      /\ q + 1 \in s .. Len(input) + 1
      /\ 1 \in 1 .. e - s /\ s + 1 - 1 = s
  OBVIOUS
<1>4. Run(s, q + 1, Digit)
  <2>1. UpTo(t, k) = Between(s, q + 1)
    BY <1>0, <1>3, Splitting
  <2>2. Made(Between(s, q + 1), Digit)
    BY <1>2, <2>1
  <2>. HIDE DEF q
  <2>. QED
    BY <1>0, <1>3, <2>2, Texts
<1>5. input[q] \in Digit \ OctalDigit /\ input[s] = "0"
  <2>1. input[q] = t[k] /\ input[s] = t[1]
    BY <1>1, <1>3
  <2>. QED
    BY <1>2, <2>1 DEF OctalByMistake
<1> HIDE DEF q, t
<1>6. q > s
  <2>1. q # s
    BY <1>5 DEF OctalDigit
  <2>. QED
    BY <1>3, <2>1
<1>7. /\ At(s, {"0"}) /\ At(s, Digit) /\ At(s + 1, Digit)
      /\ ~At(s + 1, {"x"}) /\ ~At(s + 1, {"b"})
  <2>1. At(s, {"0"}) /\ At(s, Digit)
    BY <1>5 DEF At, Digit
  <2>2. At(s + 1, Digit)
    BY <1>3, <1>4, <1>6 DEF Run
  <2>. QED
    BY <2>1, <2>2 DEF At, Digit
<1> DEFINE a == After(s + 1, OctalDigit)
<1>8. IntegerEnd(s) = a
  BY <1>7 DEF IntegerEnd
<1>9. /\ a \in s + 1 .. Len(input) + 1
      /\ Run(s + 1, a, OctalDigit) /\ ~At(a, OctalDigit)
  <2>1. s + 1 \in 1 .. Len(input) + 1
    OBVIOUS
  <2>. QED
    BY <2>1, AfterEnds
<1> HIDE DEF a
<1>10. a \in s + 1 .. q
  <2>1. ~At(q, OctalDigit)
    BY <1>5 DEF At
  <2>. QED
    BY <1>3, <1>6, <1>9, <2>1 DEF Run
<1>11. At(a, Digit)
  BY <1>3, <1>4, <1>10 DEF Run
<1>12. ~At(a, {"."}) /\ ~At(a, {"e"}) /\ ~At(a, Suffix)
  BY <1>11 DEF At, Digit, Suffix
<1>13. After(a, Suffix) = a
  <2>1. a \in 1 .. Len(input) + 1 /\ a \in a .. Len(input) + 1 /\ Run(a, a, Suffix)
    BY <1>9 DEF Run
  <2>. QED
    BY <1>12, <2>1, AfterIs
<1>14. NumberEnd(s) = a /\ a # e
  BY <1>3, <1>8, <1>10, <1>12, <1>13 DEF NumberEnd, FractionEnd, ExponentEnd
<1>. QED
  BY <1>7, <1>14 DEF NumberStarts

\* What ConstantsWhole speaks of.
Constant(t) == IntegerConstant(t) \/ FloatingConstant(t)

\* So a constant is what the loops of a number read, and no more, unless it is
\* one of Broken.
LEMMA ConstantRead ==
  ASSUME input \in Seq(Char), NEW s \in 1 .. Len(input),
         NEW e \in s + 1 .. Len(input) + 1, Delimited(e),
         Constant(Between(s, e))
  PROVE  NumberStarts(s) /\ (NumberEnd(s) = e <=> ~Broken(Between(s, e)))
<1> DEFINE t == Between(s, e)
<1>1. IntegerConstant(t) => NumberStarts(s) /\ NumberEnd(s) = e
  BY IntegerConstantRead
<1>2. DecimalFloating(t) /\ ~OctalByMistake(t)
        => NumberStarts(s) /\ NumberEnd(s) = e
  BY DecimalFloatingRead
<1>3. HexadecimalFloating(t) => NumberStarts(s) /\ NumberEnd(s) # e
  BY HexadecimalFloatingRead
<1>4. OctalByMistake(t) => NumberStarts(s) /\ NumberEnd(s) # e
  BY OctalRead
<1> HIDE DEF t
<1>5. NumberStarts(s) /\ (NumberEnd(s) = e <=> ~Broken(t))
  <2>1. Constant(t)
    BY DEF t
  <2>. QED
    BY <1>1, <1>2, <1>3, <1>4, <2>1 DEF Constant, FloatingConstant, Broken
<1>. QED
  BY <1>5 DEF t

\* What a call returns is the whole constant, if one begins there.
LEMMA WholeStep ==
  ASSUME TilingInv, TilingInv', ConstantsWhole, [Next]_vars
  PROVE  ConstantsWhole'
<1> DEFINE s == SkipSpace(pos)
           n == Len(out)
<1>1. /\ input \in Seq(Char) /\ pos \in 1 .. Len(input) + 1
      /\ s \in 1 .. Len(input) + 1
  BY Skipped
<1>2. n \in Nat /\ DOMAIN out = 1 .. n
  BY DEF TilingInv, TypeOK
<1>3. \A k \in DOMAIN out : \A e \in out[k].from + 1 .. Len(input) + 1 :
        Delimited(e) /\ Constant(SubSeq(input, out[k].from, e - 1))
          => (out[k].kind = "Constant" /\ out[k].to = e
                <=> ~Broken(SubSeq(input, out[k].from, e - 1)))
  BY DEF ConstantsWhole, TakenWhole, Constant
<1> HIDE DEF s, n
<1>4. ASSUME NEW kind, NEW z, Return(kind, s, z),
             NumberStarts(s) => kind = "Constant" /\ z = NumberEnd(s)
      PROVE  ConstantsWhole'
  <2> DEFINE token == [kind |-> kind, from |-> s, to |-> z]
  <2>1. /\ out' = Append(out, token) /\ input' = input
    BY <1>4 DEF Return
  <2>2. /\ DOMAIN out' = 1 .. n + 1 /\ out'[n + 1] = token
        /\ \A k \in 1 .. n : out'[k] = out[k]
    <3>1. out \in Seq([kind : Kinds, from : 1 .. Len(input) + 1,
                       to : 1 .. Len(input) + 1])
      BY DEF TilingInv, TypeOK
    <3>. QED
      BY <1>2, <2>1, <3>1 DEF n
  <2>3. \A e \in s + 1 .. Len(input) + 1 :
          Delimited(e) /\ Constant(SubSeq(input, s, e - 1))
            => (kind = "Constant" /\ z = e
                  <=> ~Broken(SubSeq(input, s, e - 1)))
    <3>. SUFFICES ASSUME NEW e \in s + 1 .. Len(input) + 1,
                         Delimited(e), Constant(Between(s, e))
                  PROVE  kind = "Constant" /\ z = e <=> ~Broken(Between(s, e))
      BY DEF Between
    <3>1. s \in 1 .. Len(input)
      BY <1>1
    <3>2. NumberStarts(s) /\ (NumberEnd(s) = e <=> ~Broken(Between(s, e)))
      BY <1>1, <3>1, ConstantRead
    <3>. QED
      BY <1>4, <3>2
  <2>4. \A e : Delimited(e)' = Delimited(e)
    BY <2>1 DEF Delimited, At
  <2>5. \A k \in DOMAIN out' : \A e \in out'[k].from + 1 .. Len(input) + 1 :
          Delimited(e) /\ Constant(SubSeq(input, out'[k].from, e - 1))
            => (out'[k].kind = "Constant" /\ out'[k].to = e
                  <=> ~Broken(SubSeq(input, out'[k].from, e - 1)))
    <3>. TAKE k \in DOMAIN out'
    <3>1. CASE k \in 1 .. n
      BY <1>2, <1>3, <2>2, <3>1
    <3>2. CASE k = n + 1
      BY <2>2, <2>3, <3>2
    <3>. QED
      BY <1>2, <2>2, <3>1, <3>2
  <2>. QED
    BY <2>1, <2>4, <2>5 DEF ConstantsWhole, TakenWhole, Constant
<1>5. CASE EndOfFile
  <2>1. Return("EndOfFile", s, s) /\ s > Len(input)
    BY <1>5 DEF EndOfFile, Ended, s
  <2>2. ~NumberStarts(s)
    BY <1>1, <2>1 DEF NumberStarts, At
  <2>. QED
    BY <1>4, <2>1, <2>2
<1>6. CASE Word
  <2>1. /\ At(s, Letter)
        /\ \E kind : Return(kind, s, After(s, Letter \cup Digit))
    BY <1>6 DEF Word, s
  <2>2. ~NumberStarts(s)
    BY <2>1 DEF NumberStarts, At, Letter, Digit
  <2>. QED
    BY <1>4, <2>1, <2>2
<1>7. CASE Number
  <2>1. Return("Constant", s, NumberEnd(s))
    BY <1>7 DEF Number, s
  <2>. QED
    BY <1>4, <2>1
<1>8. CASE Symbol
  <2>1. ~NumberStarts(s) /\ Return("Symbol", s, s + 1)
    BY <1>8 DEF Symbol, s
  <2>. QED
    BY <1>4, <2>1
<1>9. CASE InvalidCharacter
  <2>1. /\ ~At(s, Letter \cup Digit \cup CSymbol)
        /\ Return("Error", s, ErrorEnd(s))
    BY <1>9 DEF InvalidCharacter, s
  <2>2. ~NumberStarts(s)
    BY <2>1 DEF NumberStarts, At, CSymbol
  <2>. QED
    BY <1>4, <2>1, <2>2
<1>10. CASE UNCHANGED vars
  <2>1. input' = input /\ out' = out
    BY <1>10 DEF vars
  <2>. QED
    BY <2>1 DEF ConstantsWhole, TakenWhole, Delimited, At
<1>. QED
  BY <1>5, <1>6, <1>7, <1>8, <1>9, <1>10 DEF Next

\* For inputs of any length: every C99 constant that no character continues
\* comes out as one token of kind Constant, with its suffix, unless it is a
\* hexadecimal floating constant, or a decimal one whose digits begin with a zero
\* and are not all octal; and none of these does.
THEOREM ConstantsTaken == Spec => []ConstantsWhole
<1>1. Init => ConstantsWhole
  <2>1. Init => DOMAIN out = {}
    BY DEF Init
  <2>. QED
    BY <2>1 DEF ConstantsWhole
<1>2. TilingInv /\ TilingInv' /\ ConstantsWhole /\ [Next]_vars => ConstantsWhole'
  BY WholeStep
<1>. QED
  BY <1>1, <1>2, Tiling, PTL DEF Spec
=============================================================================
