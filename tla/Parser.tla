------------------------------- MODULE Parser -------------------------------
(***************************************************************************)
(* The recursive descent of src/c_frontend/lib/parser.cpp.  The tokens are *)
(* chosen one by one, as the parser comes to look at them; a token is its  *)
(* class, since the parser never looks further: every type keyword is      *)
(* "type", every other keyword but return is "keyword", every symbol that  *)
(* the grammar does not have is "symbol".                                  *)
(***************************************************************************)
EXTENDS Naturals, Sequences, SequencesExt

CONSTANTS
  MaxFunctions,    \* bound on the functions of the input
  MaxStatements    \* bound on the statements of all its functions

ASSUME ParserAssumption == MaxFunctions \in Nat /\ MaxStatements \in Nat

Marks == {"(", ")", "{", "}", "=", ";"}

Token == {"type", "return", "keyword", "identifier", "constant", "symbol"}
           \cup Marks

\* What may stand at pos_ when there is no token: the token EndOfFile, which
\* a caller may or may not have left in the vector, or the end of the vector.
End == {"eof", "none"}

IsTypeKeyword == {"type"}
IsIdentifier == {"identifier"}
IsConstant == {"constant"}

\* A statement of the syntax tree.  Expressions are bare AstNodes: what they
\* were is not kept.
VarDecl(init) == [node |-> "VarDecl", init |-> init]
Assignment(lhs) == [node |-> "AssignmentExpr", lhs |-> lhs]

Statement == {VarDecl(init) : init \in BOOLEAN}
               \cup {Assignment(lhs) : lhs \in {"name", "return"}}

VARIABLES
  pc,      \* the check that comes next
  read,    \* the tokens before pos_
  stop,    \* what was at pos_ when parsing ended
  body,    \* the body of the function being parsed
  stmt,    \* the statement being parsed
  decls    \* the bodies of the functions of the translation unit

vars == <<pc, read, stop, body, stmt, decls>>

NoStatement == [node |-> "none"]

Init ==
  /\ pc = "Parse"
  /\ read = <<>>
  /\ stop = "none"
  /\ body = <<>>
  /\ stmt = NoStatement
  /\ decls = <<>>

\* How many statements the functions of d have.
Size(d) ==
  LET upTo[n \in 0 .. Len(d)] ==
        IF n = 0 THEN 0 ELSE upTo[n - 1] + Len(d[n])
  IN  upTo[Len(d)]

Statements == Len(body) + Size(decls)
-----------------------------------------------------------------------------
\* ++pos_
Take(t, then) ==
  /\ read' = Append(read, t)
  /\ pc' = then
  /\ UNCHANGED stop

\* Parse returns, with pos_ at t.
Return(t, result) ==
  /\ stop' = t
  /\ pc' = result
  /\ UNCHANGED <<read, body, stmt, decls>>

\* An error made anywhere is handed up through every caller; the tree built
\* so far is dropped.
Reject(t, C) == t \notin C /\ Return(t, "Rejected")

\* The checks that only ask whether the next token is the one expected.
Expect(here, C, then) ==
  /\ pc = here
  /\ \E t \in Token \cup End :
       \/ Reject(t, C)
       \/ t \in C /\ Take(t, then) /\ UNCHANGED <<body, stmt, decls>>

\* Parse: another function, or the end.
Parse ==
  /\ pc = "Parse"
  /\ \/ \E t \in End : Return(t, "Accepted")
     \/ \E t \in Token : Reject(t, IsTypeKeyword)
     \/ \E t \in IsTypeKeyword :
          /\ Len(decls) < MaxFunctions
          /\ Take(t, "Name")
          /\ UNCHANGED <<body, stmt, decls>>

\* ParseFunction up to its body.
FunctionHead ==
  \/ Expect("Name", IsIdentifier, "LParen")
  \/ Expect("LParen", {"("}, "RParen")
  \/ Expect("RParen", {")"}, "LBrace")
  \/ Expect("LBrace", {"{"}, "Body")

\* The loop over the statements of the body begins one.
Begin(t, s, then) ==
  /\ Statements < MaxStatements
  /\ Take(t, then)
  /\ stmt' = s
  /\ UNCHANGED <<body, decls>>

FunctionBody ==
  /\ pc = "Body"
  /\ \/ \E t \in IsTypeKeyword : Begin(t, VarDecl(FALSE), "VarName")
     \/ Begin("return", Assignment("return"), "Expr")
     \/ \E t \in IsIdentifier : Begin(t, Assignment("name"), "Equals")
     \/ \E t \in Token \cup End :
          Reject(t, IsTypeKeyword \cup {"return", "}"} \cup IsIdentifier)

\* A slip: the statements stay for the next function.
KeptBody == body

NextBody == <<>>

FunctionEnd ==
  /\ pc = "Body"
  /\ Take("}", "Parse")
  /\ decls' = Append(decls, body)
  /\ body' = NextBody
  /\ UNCHANGED stmt

\* A slip: the statement is pushed in front.
PushedFirst(s) == <<s>> \o body

Pushed(s) == Append(body, s)

\* func->body.push_back
Push(t) ==
  /\ Take(t, "Body")
  /\ body' = Pushed(stmt)
  /\ stmt' = NoStatement
  /\ UNCHANGED decls

\* ParseVarDecl after its type.
VarDeclRest ==
  \/ Expect("VarName", IsIdentifier, "VarInit")
  \/ /\ pc = "VarInit"
     /\ \/ /\ Take("=", "Expr")
           /\ stmt' = VarDecl(TRUE)
           /\ UNCHANGED <<body, decls>>
        \/ Push(";")
        \/ \E t \in Token \cup End : Reject(t, {"=", ";"})

\* A slip: only constants are expressions.
ConstantOnly == IsConstant

Primary == IsConstant \cup IsIdentifier

AssignmentRest == Expect("Equals", {"="}, "Expr")

ParseExpr == Expect("Expr", Primary, "Semicolon")

StatementEnd ==
  /\ pc = "Semicolon"
  /\ \/ Push(";")
     \/ \E t \in Token \cup End : Reject(t, {";"})

Next ==
  \/ Parse \/ FunctionHead \/ FunctionBody \/ FunctionEnd
  \/ VarDeclRest \/ AssignmentRest \/ ParseExpr \/ StatementEnd

Spec == Init /\ [][Next]_vars
-----------------------------------------------------------------------------
(***************************************************************************)
(* The language, written down by its sentences.                            *)
(***************************************************************************)
Expressions == {"constant", "identifier"}

Spellings(s) ==
  IF s = VarDecl(FALSE) THEN {<<"type", "identifier", ";">>}
  ELSE IF s = VarDecl(TRUE)
  THEN {<<"type", "identifier", "=", e, ";">> : e \in Expressions}
  ELSE IF s = Assignment("name")
  THEN {<<"identifier", "=", e, ";">> : e \in Expressions}
  ELSE {<<"return", e, ";">> : e \in Expressions}

Then(A, B) == {a \o b : a \in A, b \in B}

\* The texts that are made of one text of each member of L.
Joined(L) ==
  LET upTo[n \in 0 .. Len(L)] ==
        IF n = 0 THEN {<<>>} ELSE Then(upTo[n - 1], L[n])
  IN  upTo[Len(L)]

Signature == <<"type", "identifier", "(", ")", "{">>

BodySpellings(b) == Joined([k \in DOMAIN b |-> Spellings(b[k])])

FunctionSpellings(b) == Then(Then({Signature}, BodySpellings(b)), {<<"}">>})

UnitSpellings(d) == Joined([k \in DOMAIN d |-> FunctionSpellings(d[k])])

Bodies == UNION {[1 .. n -> Statement] : n \in 0 .. MaxStatements}

Units ==
  {d \in UNION {[1 .. n -> Bodies] : n \in 0 .. MaxFunctions} :
     Size(d) <= MaxStatements}

Sentences == UNION {UnitSpellings(d) : d \in Units}

Viable(p) == \E s \in Sentences : IsPrefix(p, s)
-----------------------------------------------------------------------------
TypeOK ==
  /\ pc \in {"Parse", "Name", "LParen", "RParen", "LBrace", "Body",
             "VarName", "VarInit", "Equals", "Expr", "Semicolon",
             "Accepted", "Rejected"}
  /\ read \in Seq(Token)
  /\ stop \in Token \cup End
  /\ body \in Bodies
  /\ stmt \in Statement \cup {NoStatement}
  /\ decls \in Units

\* What is accepted is the text of the tree that is returned: no statement is
\* lost, moved to another place or function, or taken for another.
TreeSpellsInput == pc = "Accepted" => read \in UnitSpellings(decls)

\* Every sentence is accepted, and a text that is not one is rejected at its
\* first token that no sentence continues with: the error names the place.
RejectsAtFirstError ==
  IF pc = "Rejected"
  THEN IF stop \in End THEN read \notin Sentences
       ELSE ~Viable(Append(read, stop))
  ELSE Viable(read)
=============================================================================
