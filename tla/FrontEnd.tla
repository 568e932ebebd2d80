------------------------------ MODULE FrontEnd ------------------------------
(***************************************************************************)
(* The compiler driver of src/c_frontend/main/main.cpp around Parser, with *)
(* the code generator.  What was asked for, what the exit status says and  *)
(* what is left in the file system must fit together on every path, and    *)
(* each stage only runs on what the one before it accepted.                *)
(*                                                                         *)
(* The lexer has a module of its own: here it fails or it does not, and    *)
(* the tokens are chosen by Parser.  Standard output is the file "stdout", *)
(* and writing to it does not fail.                                        *)
(***************************************************************************)
EXTENDS Parser

VARIABLES
  stage,     \* the part of main that runs; "test": the parser on its own
  opt,       \* which options were given, and which strings are not empty
  module,    \* what Codegen::generate returned
  file,      \* the contents of each file
  status     \* what main returned

driver == <<stage, opt, module, file, status>>

Paths == {"stdout",    \* standard output
          "out",       \* output_file
          "asm_file"}  \* output_file + ".s"

\* "old" is whatever was there before, "cut" is a part of what was written.
Contents == {"old", "empty", "cut", "ir", "asm", "exe", "gone"}

\* A module is the body of the function it was made of, and what it returns.
NoModule == <<>>

FrontInit ==
  /\ Init
  /\ stage \in {"args", "test"}
  /\ opt = [input |-> FALSE, output |-> FALSE, asm |-> FALSE, exe |-> FALSE,
            help |-> FALSE]
  /\ module = NoModule
  /\ file = [p \in Paths |-> "old"]
  /\ status = "running"

Exit(s) == stage' = "exit" /\ status' = s /\ UNCHANGED <<opt, module>>

Go(next) == stage' = next /\ UNCHANGED <<opt, module, status>>

Set(f, v) ==
  opt' = [opt EXCEPT ![f] = v] /\ UNCHANGED <<stage, module, file, status>>

\* One more argument.  An empty string counts as none; what begins with a
\* dash and is not known is the name of the input.
Argument ==
  /\ stage = "args"
  /\ \/ /\ stage' = "exit" /\ status' = "0" /\ opt' = [opt EXCEPT !.help = TRUE]
        /\ UNCHANGED <<module, file>>
     \/ \E given \in BOOLEAN : Set("output", given)
     \/ Set("asm", TRUE) \/ Set("exe", TRUE)
     \/ \E given \in BOOLEAN : ~opt.input /\ Set("input", given)
     \/ Exit("1") /\ UNCHANGED file     \* -o is the last one
     \/ opt.input /\ Exit("1") /\ UNCHANGED file

\* The end of the arguments; a.out is a name like another.
Arguments ==
  /\ stage = "args"
  /\ UNCHANGED file
  /\ \/ ~opt.input /\ Exit("1")
     \/ /\ opt.input
        /\ stage' = "lex"
        /\ opt' = [opt EXCEPT !.output = @ \/ opt.exe]
        /\ UNCHANGED <<module, status>>

\* The input is opened and all its tokens are collected, up to EndOfFile.
Lex ==
  /\ stage = "lex"
  /\ UNCHANGED file
  /\ Exit("1") \/ Go("parse")

\* main has left EndOfFile out.
ParseInput ==
  /\ \/ stage = "parse" /\ Next /\ stop' # "eof"
     \/ stage = "test" /\ Next
  /\ UNCHANGED driver

Parsed ==
  /\ stage = "parse"
  /\ UNCHANGED file
  /\ \/ pc = "Rejected" /\ Exit("1")
     \/ pc = "Accepted" /\ Go("codegen")

\* Codegen::generate: the first function alone, and it returns 0.  The tree
\* is a TranslationUnit of FunctionDecls: nothing else is ever made.
Generate ==
  /\ stage = "codegen"
  /\ UNCHANGED file
  /\ \/ decls = <<>> /\ Exit("1")
     \/ /\ decls # <<>>
        /\ module' = <<Head(decls), 0>>
        /\ stage' = "emit"
        /\ UNCHANGED <<opt, status>>

Write(p, c) == file' = [file EXCEPT ![p] = c]

\* A slip: what was not written is taken for written.
EmittedAnyway(p, then) ==
  /\ Write(p, "cut")
  /\ then

\* EmitAssembly, which goes on with then when it returns true.  No target, or
\* the file cannot be opened; the file has been emptied and the target emits
\* no assembly; the stream of LLVM ends the program when it could not write.
EmitAssembly(p, then) ==
  \/ UNCHANGED file /\ Exit("1")
  \/ \E c \in {"empty", "cut"} : Write(p, c) /\ Exit("1")
  \/ Write(p, "asm") /\ then

EmitExe == opt.exe /\ EmitAssembly("asm_file", Go("link"))

\* A slip: both options emit to the intermediate file, which becomes the output
\* when it is whole.
EmitAsmAside ==
  /\ opt.asm /\ ~opt.exe
  /\ \/ ~opt.output /\ UNCHANGED file /\ Exit("1")
     \/ \E c \in {"empty", "cut"} : opt.output /\ Write("asm_file", c) /\ Exit("1")
     \/ /\ opt.output /\ Exit("0")
        /\ file' = [file EXCEPT !["out"] = "asm", !["asm_file"] = "gone"]

EmitAsm ==
  /\ opt.asm /\ ~opt.exe
  /\ \/ ~opt.output /\ UNCHANGED file /\ Exit("1")
     \/ opt.output /\ EmitAssembly("out", Exit("0"))

\* The printed module.  Nobody asks the ofstream whether it could write.
EmitIR ==
  /\ ~opt.asm /\ ~opt.exe
  /\ \/ ~opt.output /\ Write("stdout", "ir") /\ Exit("0")
     \/ opt.output /\ UNCHANGED file /\ Exit("1")
     \/ \E c \in {"ir", "cut"} : opt.output /\ Write("out", c) /\ Exit("0")

Emit == stage = "emit" /\ (EmitExe \/ EmitAsm \/ EmitIR)

\* A slip: the code that clang returns is not looked at.
LinkedAnyway ==
  /\ stage = "link"
  /\ \E c \in {"old", "gone", "exe"} :
       file' = [file EXCEPT !["out"] = c, !["asm_file"] = "gone"]
  /\ Exit("0")

\* clang, and the removal of its input, whose failure goes unnoticed.
Link ==
  /\ stage = "link"
  /\ \/ \E c \in {"old", "gone"} : Write("out", c) /\ Exit("1")
     \/ /\ \E left \in {"asm", "gone"} :
             file' = [file EXCEPT !["out"] = "exe", !["asm_file"] = left]
        /\ Exit("0")

FrontNext ==
  \/ ParseInput
  \/ /\ \/ Argument \/ Arguments \/ Lex \/ Parsed \/ Generate \/ Emit \/ Link
     /\ UNCHANGED vars

FrontSpec == FrontInit /\ [][FrontNext]_<<vars, driver>>
-----------------------------------------------------------------------------
FrontTypeOK ==
  /\ TypeOK
  /\ stage \in {"args", "lex", "parse", "codegen", "emit", "link", "exit",
                "test"}
  /\ opt \in [{"input", "output", "asm", "exe", "help"} -> BOOLEAN]
  /\ module \in {NoModule} \cup (Bodies \X {0})
  /\ file \in [Paths -> Contents]
  /\ status \in {"running", "0", "1"}

\* What the options ask for.
Target == IF opt.output THEN "out" ELSE "stdout"

Wanted == IF opt.exe THEN "exe" ELSE IF opt.asm THEN "asm" ELSE "ir"

\* The exit status tells whether what was asked for is there, whole and made
\* from a program that the parser accepted, but for the printed module, which
\* may be cut short by a full disk.
ExitTellsOutcome ==
  /\ status = "0" /\ ~opt.help =>
       /\ pc = "Accepted" /\ decls # <<>>
       /\ \/ file[Target] = Wanted
          \/ Wanted = "ir" /\ Target = "out" /\ file["out"] = "cut"
  /\ status = "1" => file[Target] # Wanted

\* A run that fails before it emits anything has changed no file, and the
\* intermediate file, which may have been the user's, is touched only on the
\* way to an executable.
OnlyAskedForTouched ==
  /\ file["asm_file"] # "old" => opt.exe
  /\ \A p \in Paths \ {"asm_file", Target} : file[p] = "old"
  /\ module = NoModule => \A p \in Paths : file[p] = "old"
=============================================================================
