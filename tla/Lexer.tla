------------------------------- MODULE Lexer -------------------------------
(***************************************************************************)
(* Lexer::next of src/c_frontend/lib/lexer.cpp, called until it reports    *)
(* the end of the input.  A character stands for its class:                *)
(*   1, 7, 8     the other binary digits, octal digits and digits          *)
(*   a           the letters that are hexadecimal digits and no more       *)
(*   b, e, f, l, u, x   themselves and their capitals                      *)
(*   p, i        the other letters and _ ; i is there for the keyword      *)
(*   +, *        the two signs, and every other symbol but the dot         *)
(*   $           what no token begins with                                 *)
(*                                                                         *)
(* pos is pos_ + 1: a position of the TLA+ sequence.                       *)
(***************************************************************************)
EXTENDS Naturals, Sequences

CONSTANT Inputs    \* the strings given to the lexer

Space == {" "}
Digit == {"0", "1", "7", "8"}
Letter == {"a", "b", "e", "f", "i", "l", "p", "u", "x"}
CSymbol == {".", "+", "*"}
Other == {"$"}

BinaryDigit == {"0", "1"}
OctalDigit == {"0", "1", "7"}
HexDigit == Digit \cup {"a", "b", "e", "f"}
Suffix == {"u", "l", "f"}
Sign == {"+"}

Keywords == {<<"i", "f">>}

Char == Space \cup Digit \cup Letter \cup CSymbol \cup Other

ASSUME InputAssumption == Inputs \subseteq Seq(Char)

VARIABLES
  input,   \* input_
  pos,     \* pos_ + 1
  out      \* what next has returned: tokens and errors, with their places

vars == <<input, pos, out>>

Init ==
  /\ input \in Inputs
  /\ pos = 1
  /\ out = <<>>
-----------------------------------------------------------------------------
\* pos_ < input_.size() && input_[pos_] is one of C.
At(p, C) == p <= Len(input) /\ input[p] \in C

\* Where the loop that skips characters of C, begun at p, ends.
After(p, C) ==
  CHOOSE q \in p .. Len(input) + 1 :
    /\ \A k \in p .. q - 1 : At(k, C)
    /\ ~At(q, C)

\* A slip: a character that begins no token is skipped like a blank.
SkipInvalid(p) == After(p, Space \cup Other)

SkipSpace(p) == After(p, Space)

NumberStarts(p) ==
  \/ At(p, Digit)
  \/ At(p, {"."}) /\ At(p + 1, Digit)

IntegerEnd(p) ==
  IF ~At(p, {"0"}) THEN After(p, Digit)
  ELSE IF At(p + 1, {"x"}) THEN After(p + 2, HexDigit)
  ELSE IF At(p + 1, {"b"}) THEN After(p + 2, BinaryDigit)
  ELSE IF At(p + 1, Digit) THEN After(p + 1, OctalDigit)
  ELSE p + 1

FractionEnd(p) == IF At(p, {"."}) THEN After(p + 1, Digit) ELSE p

\* A slip: the sign of an exponent is not looked for.
Unsigned(p) == p

SignEnd(p) == IF At(p, Sign) THEN p + 1 ELSE p

ExponentEnd(p) ==
  IF At(p, {"e"}) THEN After(SignEnd(p + 1), Digit) ELSE p

NumberEnd(p) ==
  After(ExponentEnd(FractionEnd(IntegerEnd(p))), Suffix)
-----------------------------------------------------------------------------
\* next returns what it read from s up to e.
Return(kind, s, e) ==
  /\ pos' = e
  /\ out' = Append(out, [kind |-> kind, from |-> s, to |-> e])
  /\ UNCHANGED input

\* A slip: the end of the input is looked for before the blanks are skipped.
EndedBefore(s) == pos > Len(input)

Ended(s) == s > Len(input)

EndOfFile ==
  LET s == SkipSpace(pos)
  IN  Ended(s) /\ Return("EndOfFile", s, s)

Word ==
  LET s == SkipSpace(pos)
      e == After(s, Letter \cup Digit)
  IN  /\ At(s, Letter)
      /\ Return(IF SubSeq(input, s, e - 1) \in Keywords
                THEN "Keyword" ELSE "Identifier", s, e)

Number ==
  LET s == SkipSpace(pos)
  IN  NumberStarts(s) /\ Return("Constant", s, NumberEnd(s))

Symbol ==
  LET s == SkipSpace(pos)
  IN  /\ At(s, CSymbol) /\ ~NumberStarts(s)
      /\ Return("Symbol", s, s + 1)

\* A slip: the character after the one that begins no token is lost too.
ErrorEndTwo(p) == p + 2

ErrorEnd(p) == p + 1

InvalidCharacter ==
  LET s == SkipSpace(pos)
  IN  /\ s <= Len(input) /\ ~At(s, Letter \cup Digit \cup CSymbol)
      /\ Return("Error", s, ErrorEnd(s))

AtEnd == out # <<>> /\ out[Len(out)].kind = "EndOfFile"

Next ==
  /\ ~AtEnd
  /\ EndOfFile \/ Word \/ Number \/ Symbol \/ InvalidCharacter

Spec == Init /\ [][Next]_vars

\* Whoever calls next goes on until the end of the input.
FairSpec == Spec /\ WF_vars(Next)
-----------------------------------------------------------------------------
Kinds == {"EndOfFile", "Keyword", "Identifier", "Constant", "Symbol", "Error"}

TypeOK ==
  /\ input \in Seq(Char)
  /\ pos \in 1 .. Len(input) + 1
  /\ out \in Seq([kind : Kinds, from : 1 .. Len(input) + 1,
                  to : 1 .. Len(input) + 1])

EndsBefore(k) == IF k = 1 THEN 1 ELSE out[k - 1].to

\* Nothing is lost and nothing is read twice: what next returned lies one
\* after the other, and what lies between is blank.
Tiled ==
  \A k \in DOMAIN out :
    /\ out[k].from \in EndsBefore(k) .. out[k].to
    /\ \A p \in EndsBefore(k) .. out[k].from - 1 : input[p] \in Space
    /\ \A p \in out[k].from .. out[k].to - 1 : input[p] \notin Space

Text(k) == SubSeq(input, out[k].from, out[k].to - 1)

(***************************************************************************)
(* What C99 calls an integer or floating constant, over these characters,  *)
(* with the binary prefix of the lexer besides.                            *)
(***************************************************************************)
Made(t, C) == \A k \in DOMAIN t : t[k] \in C

UpTo(t, k) == SubSeq(t, 1, k)
From(t, k) == SubSeq(t, k, Len(t))

Prefixed(t, x, C) ==
  Len(t) > 2 /\ t[1] = "0" /\ t[2] = x /\ Made(From(t, 3), C)

Integer(t) ==
  \/ t # <<>> /\ t[1] # "0" /\ Made(t, Digit)
  \/ t # <<>> /\ t[1] = "0" /\ Made(t, OctalDigit)
  \/ Prefixed(t, "x", HexDigit)
  \/ Prefixed(t, "b", BinaryDigit)

IntegerSuffix ==
  {<<>>, <<"u">>, <<"l">>, <<"l", "l">>, <<"u", "l">>, <<"l", "u">>,
   <<"u", "l", "l">>, <<"l", "l", "u">>}

FloatingSuffix == {<<>>, <<"f">>, <<"l">>}

\* t is what F says, with one of the suffixes S.
Suffixed(t, F(_), S) ==
  \E k \in DOMAIN t : F(UpTo(t, k)) /\ From(t, k + 1) \in S

IntegerConstant(t) == Suffixed(t, Integer, IntegerSuffix)

\* The exponent that x begins: e in a decimal constant, p in a hexadecimal one.
ExponentPart(t, x) ==
  /\ Len(t) > 1 /\ t[1] = x
  /\ \/ Made(From(t, 2), Digit)
     \/ Len(t) > 2 /\ t[2] \in Sign /\ Made(From(t, 3), Digit)

Fractional(t, C) ==
  /\ Len(t) > 1
  /\ \E k \in DOMAIN t :
       t[k] = "." /\ \A j \in DOMAIN t \ {k} : t[j] \in C

DecimalFloat(t) ==
  \E k \in DOMAIN t :
    LET m == UpTo(t, k)
        x == From(t, k + 1)
    IN  \/ Fractional(m, Digit) /\ (x = <<>> \/ ExponentPart(x, "e"))
        \/ Made(m, Digit) /\ ExponentPart(x, "e")

HexadecimalFloat(t) ==
  /\ Len(t) > 2 /\ t[1] = "0" /\ t[2] = "x"
  /\ \E k \in 3 .. Len(t) :
       LET m == SubSeq(t, 3, k)
       IN  /\ Made(m, HexDigit) \/ Fractional(m, HexDigit)
           /\ ExponentPart(From(t, k + 1), "p")

DecimalFloating(t) == Suffixed(t, DecimalFloat, FloatingSuffix)

HexadecimalFloating(t) == Suffixed(t, HexadecimalFloat, FloatingSuffix)

FloatingConstant(t) == DecimalFloating(t) \/ HexadecimalFloating(t)

\* The lexer takes the constant t, which begins the k-th thing it returned
\* and which no character continues, as one token.
TakenWhole(k, e) ==
  out[k].kind = "Constant" /\ out[k].to = e

Delimited(e) == ~At(e, Letter \cup Digit \cup {"."})

Whole(Accepts(_)) ==
  \A k \in DOMAIN out : \A e \in out[k].from + 1 .. Len(input) + 1 :
    Delimited(e) /\ Accepts(SubSeq(input, out[k].from, e - 1))
      => TakenWhole(k, e)

\* The digits that t begins with are octal by their zero and not all octal.
OctalByMistake(t) ==
  /\ t[1] = "0"
  /\ \E k \in DOMAIN t : t[k] \in Digit \ OctalDigit /\ Made(UpTo(t, k), Digit)

\* The constants the lexer breaks: the hexadecimal floating ones, whose
\* exponent it does not know, and the decimal floating ones it begins as octal.
Broken(t) ==
  \/ HexadecimalFloating(t)
  \/ DecimalFloating(t) /\ OctalByMistake(t)

\* Every C99 constant that no character continues, with its suffix, comes out
\* as one token, except those of Broken; and none of those does.
ConstantsWhole ==
  \A k \in DOMAIN out : \A e \in out[k].from + 1 .. Len(input) + 1 :
    LET t == SubSeq(input, out[k].from, e - 1)
    IN  Delimited(e) /\ (IntegerConstant(t) \/ FloatingConstant(t))
          => (TakenWhole(k, e) <=> ~Broken(t))

\* TokenType::ConstantNumberLiteral (lexer.h, line 12): "integer or
\* floating-point numeric literals", those of Broken too.
FloatsWhole == Whole(FloatingConstant)

\* The comment before the fraction (line 82): "for decimal only".
DecimalOnly ==
  \A k \in DOMAIN out :
    out[k].kind = "Constant" /\ "." \in {Text(k)[j] : j \in DOMAIN Text(k)}
      => \A x \in {"x", "b"} : SubSeq(Text(k), 1, 2) # <<"0", x>>

\* So the floating constants come out as tokens of their own, and the decimal
\* ones only.
FloatsExact == FloatsWhole /\ DecimalOnly

\* next makes progress: the calls reach the end of any input.
ReachesEnd == <>AtEnd
=============================================================================
