------------------------------ MODULE MCLexer ------------------------------
(***************************************************************************)
(* Lexer on all short strings: over all its characters, and longer ones    *)
(* over some that floating constants are made of.                          *)
(***************************************************************************)
EXTENDS Lexer

CONSTANTS
  MaxLength,   \* of the strings over Char
  MaxFloat,    \* of the strings over FloatChar
  FloatChar

\* The strings over C, one set for each length up to n.
Strings(n, C) == {[1 .. m -> C] : m \in 0 .. n}

MCInputs == UNION (Strings(MaxLength, Char) \cup Strings(MaxFloat, FloatChar))
=============================================================================
