--------------------------- MODULE FrontEndProofs ---------------------------
(***************************************************************************)
(* Proofs about the front end, for inputs of any size: the exit status     *)
(* tells what is in the file system and no other file is touched, the      *)
(* syntax tree spells the tokens that were read, and an error is reported  *)
(* where the first one is.                                                 *)
(*                                                                         *)
(* The invariant of the driver says what each stage may rely on: the       *)
(* program accepted, the files untouched before the module is emitted, the *)
(* name of the output given before clang is called.  That of the parser    *)
(* says, for every check, what text has been read (TextInv), what any      *)
(* sentence goes on with (Awaits), and that there is room for what has     *)
(* been begun (Counts).                                                    *)
(***************************************************************************)
EXTENDS FrontEnd, SequenceTheorems, WellFoundedInduction, TLAPS

DriverTypes ==
  /\ opt \in [input : BOOLEAN, output : BOOLEAN, asm : BOOLEAN,
              exe : BOOLEAN, help : BOOLEAN]
  /\ file \in [Paths -> Contents]

Untouched == \A p \in Paths : file[p] = "old"

\* Nothing has been emitted, and nothing has been answered.
Early == status = "running" /\ module = NoModule /\ Untouched

AcceptedInput == pc = "Accepted" /\ decls # <<>>

StageInv ==
  /\ stage \in {"args", "lex", "parse", "test"} => Early
  /\ stage = "codegen" => Early /\ pc = "Accepted"
  /\ stage \notin {"args", "exit", "test"} => (opt.exe => opt.output)
  /\ stage = "emit" => Untouched
  /\ stage = "link" => opt.exe /\ file["out"] = "old" /\ file["stdout"] = "old"
  /\ stage \in {"emit", "link"} =>
       status = "running" /\ AcceptedInput /\ module # NoModule

DriverInv ==
  /\ stage \in {"args", "lex", "parse", "codegen", "emit", "link", "exit",
                "test"}
  /\ DriverTypes /\ StageInv /\ ExitTellsOutcome /\ OnlyAskedForTouched

\* At the start no option is given and no file touched.
LEMMA DriverInit == FrontInit => DriverInv
<1> SUFFICES ASSUME FrontInit
             PROVE  DriverInv
  OBVIOUS
<1>1. stage \in {"args", "test"} /\ Early /\ DriverTypes
  BY DEF FrontInit, Early, Untouched, DriverTypes, Contents
<1>2. StageInv /\ ExitTellsOutcome
  BY <1>1 DEF StageInv, ExitTellsOutcome, Early
<1>3. OnlyAskedForTouched
  BY <1>1 DEF OnlyAskedForTouched, Early, Untouched, Paths
<1>. QED
  BY <1>1, <1>2, <1>3 DEF DriverInv

\* The arguments: options change, and nothing else but the exit.
LEMMA ArgumentsKeep ==
  DriverInv /\ (Argument \/ Arguments) /\ UNCHANGED vars => DriverInv'
<1> SUFFICES ASSUME DriverInv, Argument \/ Arguments, UNCHANGED vars
             PROVE  DriverInv'
  OBVIOUS
<1>1. stage = "args" /\ Early /\ DriverTypes /\ UNCHANGED <<file, module>>
  BY DEF Argument, Arguments, Set, Exit, DriverInv, StageInv
<1>2. DriverTypes' /\ Untouched' /\ module' = NoModule
  BY <1>1 DEF Argument, Arguments, Set, Exit, Early, Untouched, DriverTypes
<1>3. \/ stage' = "args" /\ status' = "running"
      \/ stage' = "lex" /\ status' = "running" /\ (opt'.exe => opt'.output)
      \/ stage' = "exit" /\ status' = "0" /\ opt'.help
      \/ stage' = "exit" /\ status' = "1"
  BY <1>1 DEF Argument, Arguments, Set, Exit, Early, DriverTypes
<1>4. StageInv'
  BY <1>2, <1>3 DEF StageInv, Early
<1>5. ExitTellsOutcome'
  BY <1>2, <1>3 DEF ExitTellsOutcome, Untouched, Target, Wanted, Paths
<1>6. OnlyAskedForTouched'
  BY <1>2 DEF OnlyAskedForTouched, Untouched, Paths
<1>. QED
  BY <1>2, <1>3, <1>4, <1>5, <1>6 DEF DriverInv

\* The stages that only read.
LEMMA ReadersKeep ==
  \/ DriverInv /\ ParseInput
  \/ DriverInv /\ (Lex \/ Parsed \/ Generate) /\ UNCHANGED vars
  => DriverInv'
<1> SUFFICES ASSUME DriverInv,
                    \/ ParseInput
                    \/ (Lex \/ Parsed \/ Generate) /\ UNCHANGED vars
             PROVE  DriverInv'
  OBVIOUS
<1>1. /\ stage \in {"lex", "parse", "codegen", "test"} /\ Early /\ DriverTypes
      /\ UNCHANGED <<file, opt>>
      /\ stage # "test" => (opt.exe => opt.output)
  BY DEF ParseInput, Lex, Parsed, Generate, Exit, Go, driver, DriverInv,
         StageInv
<1>2. DriverTypes' /\ Untouched'
  BY <1>1 DEF Early, Untouched, DriverTypes
<1>3. \/ /\ stage' \in {"parse", "test"} /\ status' = "running"
         /\ module' = NoModule
         /\ stage' # "test" => (opt.exe => opt.output)
      \/ /\ stage' = "codegen" /\ status' = "running" /\ module' = NoModule
         /\ pc' = "Accepted" /\ stage # "test"
      \/ /\ stage' = "emit" /\ status' = "running" /\ AcceptedInput'
         /\ stage # "test" /\ module' # NoModule
      \/ stage' = "exit" /\ status' = "1"
  BY <1>1 DEF ParseInput, Lex, Parsed, Generate, Exit, Go, driver, Early,
              DriverInv, StageInv, AcceptedInput, vars, NoModule
<1>4. StageInv'
  BY <1>1, <1>2, <1>3 DEF StageInv, Early
<1>5. ExitTellsOutcome'
  BY <1>2, <1>3 DEF ExitTellsOutcome, Untouched, Target, Wanted, Paths
<1>6. OnlyAskedForTouched'
  BY <1>2 DEF OnlyAskedForTouched, Untouched, Paths
<1>. QED
  BY <1>2, <1>3, <1>4, <1>5, <1>6 DEF DriverInv

\* The files after EmitAssembly, and where it leads.
EmitsTo(p, next) ==
  \/ /\ stage' = "exit" /\ status' = "1"
     /\ \E c \in {"old", "empty", "cut"} : file' = [file EXCEPT ![p] = c]
  \/ /\ file' = [file EXCEPT ![p] = "asm"] /\ stage' = next
     /\ status' = IF next = "exit" THEN "0" ELSE "running"

\* The module is written, as assembly or as it is.
LEMMA EmitKeeps == DriverInv /\ Emit /\ UNCHANGED vars => DriverInv'
<1> SUFFICES ASSUME DriverInv, Emit, UNCHANGED vars
             PROVE  DriverInv'
  OBVIOUS
<1>1. /\ stage = "emit" /\ status = "running" /\ Untouched /\ DriverTypes
      /\ AcceptedInput /\ AcceptedInput' /\ module # NoModule
      /\ opt.exe => opt.output
      /\ opt.exe \in BOOLEAN /\ opt.asm \in BOOLEAN /\ opt.output \in BOOLEAN
  BY DEF Emit, DriverInv, StageInv, AcceptedInput, vars, DriverTypes
<1>2. \A p \in Paths : [file EXCEPT ![p] = "old"] = file
  BY <1>1 DEF Untouched, DriverTypes
<1>3. UNCHANGED <<opt, module>>
  BY DEF Emit, EmitExe, EmitAsm, EmitIR, EmitAssembly, Exit, Go
<1>4. CASE EmitExe
  <2>1. opt.exe /\ EmitsTo("asm_file", "link")
    BY <1>1, <1>2, <1>4 DEF EmitExe, EmitAssembly, EmitsTo, Exit, Go, Write, Paths
  <2>2. /\ DriverTypes' /\ file'["out"] = "old" /\ file'["stdout"] = "old"
        /\ stage' = "link" \/ (stage' = "exit" /\ status' = "1")
        /\ stage' = "link" => status' = "running"
    BY <1>1, <1>3, <2>1 DEF EmitsTo, DriverTypes, Untouched, Paths, Contents
  <2>3. StageInv'
    BY <1>1, <1>3, <2>1, <2>2 DEF StageInv
  <2>4. ExitTellsOutcome'
    BY <1>1, <1>3, <2>1, <2>2 DEF ExitTellsOutcome, Target, Wanted
  <2>5. OnlyAskedForTouched'
    BY <1>1, <1>3, <2>1, <2>2 DEF OnlyAskedForTouched, Target, Paths
  <2>. QED
    BY <2>2, <2>3, <2>4, <2>5 DEF DriverInv
<1>5. CASE EmitAsm /\ opt.output
  <2>1. opt.asm /\ ~opt.exe /\ opt.output /\ EmitsTo("out", "exit")
    BY <1>1, <1>2, <1>5 DEF EmitAsm, EmitAssembly, EmitsTo, Exit, Write, Paths
  <2>2. /\ DriverTypes' /\ file'["asm_file"] = "old" /\ file'["stdout"] = "old"
        /\ stage' = "exit"
        /\ \/ status' = "1" /\ file'["out"] \in {"old", "empty", "cut"}
           \/ status' = "0" /\ file'["out"] = "asm"
    BY <1>1, <1>3, <2>1 DEF EmitsTo, DriverTypes, Untouched, Paths, Contents
  <2>3. StageInv'
    BY <2>2 DEF StageInv
  <2>4. ExitTellsOutcome'
    BY <1>1, <1>3, <2>1, <2>2
       DEF ExitTellsOutcome, Target, Wanted, AcceptedInput
  <2>5. OnlyAskedForTouched'
    BY <1>1, <1>3, <2>1, <2>2 DEF OnlyAskedForTouched, Target, Paths
  <2>. QED
    BY <2>2, <2>3, <2>4, <2>5 DEF DriverInv
<1>6. CASE EmitAsm /\ ~opt.output
  <2>1. UNCHANGED file /\ stage' = "exit" /\ status' = "1"
    BY <1>6 DEF EmitAsm, Exit
  <2>2. DriverTypes' /\ Untouched' /\ StageInv'
    BY <1>1, <1>3, <2>1 DEF DriverTypes, Untouched, StageInv
  <2>3. ExitTellsOutcome' /\ OnlyAskedForTouched'
    BY <2>1, <2>2
       DEF ExitTellsOutcome, OnlyAskedForTouched, Untouched, Target, Wanted, Paths
  <2>. QED
    BY <2>1, <2>2, <2>3 DEF DriverInv
<1>7. CASE EmitIR
  <2>1. /\ ~opt.asm /\ ~opt.exe /\ stage' = "exit"
        /\ \/ ~opt.output /\ file' = [file EXCEPT !["stdout"] = "ir"] /\ status' = "0"
           \/ opt.output /\ UNCHANGED file /\ status' = "1"
           \/ /\ opt.output /\ status' = "0"
              /\ \E c \in {"ir", "cut"} : file' = [file EXCEPT !["out"] = c]
    BY <1>7 DEF EmitIR, Exit, Write
  <2>2. /\ DriverTypes' /\ file'["asm_file"] = "old" /\ StageInv'
        /\ \/ ~opt.output /\ file'["out"] = "old" /\ status' = "0"
              /\ file'["stdout"] = "ir"
           \/ opt.output /\ file'["stdout"] = "old" /\ file'["out"] = "old"
              /\ status' = "1"
           \/ opt.output /\ file'["stdout"] = "old" /\ status' = "0"
              /\ file'["out"] \in {"ir", "cut"}
    BY <1>1, <1>3, <2>1
       DEF DriverTypes, Untouched, Paths, Contents, StageInv
  <2>3. ExitTellsOutcome'
    BY <1>1, <1>3, <2>1, <2>2
       DEF ExitTellsOutcome, Target, Wanted, AcceptedInput
  <2>4. OnlyAskedForTouched'
    BY <1>1, <1>3, <2>1, <2>2 DEF OnlyAskedForTouched, Target, Paths
  <2>. QED
    BY <2>1, <2>2, <2>3, <2>4 DEF DriverInv
<1>. QED
  BY <1>1, <1>4, <1>5, <1>6, <1>7 DEF Emit

\* clang makes the executable or fails.
LEMMA LinkKeeps == DriverInv /\ Link /\ UNCHANGED vars => DriverInv'
<1> SUFFICES ASSUME DriverInv, Link, UNCHANGED vars
             PROVE  DriverInv'
  OBVIOUS
<1>1. /\ opt.exe /\ opt.output /\ DriverTypes /\ file["stdout"] = "old"
      /\ AcceptedInput' /\ module # NoModule
      /\ stage' = "exit" /\ UNCHANGED <<opt, module>>
  BY DEF Link, Exit, DriverInv, StageInv, AcceptedInput, vars
<1>2. \/ /\ status' = "1"
         /\ \E c \in {"old", "gone"} : file' = [file EXCEPT !["out"] = c]
      \/ /\ status' = "0"
         /\ \E left \in {"asm", "gone"} :
              file' = [file EXCEPT !["out"] = "exe", !["asm_file"] = left]
  BY DEF Link, Exit, Write
<1>3. /\ DriverTypes' /\ file'["stdout"] = "old"
      /\ \/ status' = "1" /\ file'["out"] # "exe"
         \/ status' = "0" /\ file'["out"] = "exe"
  BY <1>1, <1>2 DEF DriverTypes, Paths, Contents
<1>4. StageInv'
  BY <1>1 DEF StageInv
<1>5. ExitTellsOutcome'
  BY <1>1, <1>3 DEF ExitTellsOutcome, Target, Wanted, AcceptedInput
<1>6. OnlyAskedForTouched'
  BY <1>1, <1>3 DEF OnlyAskedForTouched, Target, Paths
<1>. QED
  BY <1>1, <1>3, <1>4, <1>5, <1>6 DEF DriverInv

\* Every step of the compiler keeps the invariant.
LEMMA DriverStep == DriverInv /\ [FrontNext]_<<vars, driver>> => DriverInv'
<1>1. DriverInv /\ UNCHANGED <<vars, driver>> => DriverInv'
  BY DEF vars, driver, DriverInv, DriverTypes, StageInv, Early, Untouched,
         AcceptedInput, ExitTellsOutcome, OnlyAskedForTouched, Target, Wanted
<1>. QED
  BY <1>1, ArgumentsKeep, ReadersKeep, EmitKeeps, LinkKeeps DEF FrontNext

\* For inputs of any size and every failure of a file, of LLVM and of clang:
\* the exit status is 0 only when what was asked for is there, made from a
\* program that was accepted, and 1 only when it is not.
THEOREM ExitIsHonest == FrontSpec => []ExitTellsOutcome
<1>1. DriverInv => ExitTellsOutcome
  BY DEF DriverInv
<1>. QED
  BY <1>1, DriverInit, DriverStep, PTL DEF FrontSpec

\* On the same terms no file is touched that was not asked for.
THEOREM OthersUntouched == FrontSpec => []OnlyAskedForTouched
<1>1. DriverInv => OnlyAskedForTouched
  BY DEF DriverInv
<1>. QED
  BY <1>1, DriverInit, DriverStep, PTL DEF FrontSpec
-----------------------------------------------------------------------------
(***************************************************************************)
(* Size and Joined: what their recursions compute, and what one more       *)
(* function, or one more statement, adds.                                  *)
(***************************************************************************)

\* Induction up to a number, for the numbers of a set.
LEMMA Upto ==
  ASSUME NEW N \in Nat, NEW T, 0 \in T,
         \A n \in 1 .. N : n - 1 \in T => n \in T
  PROVE  0 .. N \subseteq T
<1> DEFINE U == (0 .. N) \ T
<1>1. ASSUME U # {}
      PROVE  FALSE
  <2>0. U \subseteq Nat
    OBVIOUS
  <2>1. PICK n \in U : \A m \in U : <<m, n>> \notin OpToRel(<, Nat)
    BY <1>1, <2>0, WFMin, NatLessThanWellFounded
  <2>2. n \in 1 .. N /\ n - 1 \in 0 .. N
    OBVIOUS
  <2>3. <<n - 1, n>> \in OpToRel(<, Nat)
    <3>1. n - 1 \in Nat /\ n \in Nat /\ n - 1 < n
      BY <2>2
    <3>. QED
      BY <3>1, Zenon DEF OpToRel
  <2>. QED
    BY <2>1, <2>2, <2>3
<1>. QED
  BY <1>1

\* A recursion that gives each number a value from the one before it.
Steps(S, N) == [1 .. N -> [S -> S]]

Follow(f, S, v, N, step) ==
  /\ f \in [0 .. N -> S]
  /\ f[0] = v
  /\ \A n \in 1 .. N : f[n] = step[n][f[n - 1]]

\* Such a recursion has a solution: no CHOOSE picks in vain.
LEMMA Recursion ==
  ASSUME NEW S, NEW v \in S, NEW N \in Nat, NEW step \in Steps(S, N)
  PROVE  \E f : Follow(f, S, v, N, step)
<1> DEFINE Done(f, m) == f[0] = v /\ \A n \in 1 .. m : f[n] = step[n][f[n - 1]]
           T == {m \in 0 .. N : \E f \in [0 .. m -> S] : Done(f, m)}
<1>1. 0 \in T
  <2> DEFINE f == [k \in 0 .. 0 |-> v]
  <2>1. f \in [0 .. 0 -> S] /\ Done(f, 0)
    OBVIOUS
  <2>. HIDE DEF f, Done
  <2>2. 0 \in 0 .. N /\ \E h \in [0 .. 0 -> S] : Done(h, 0)
    BY <2>1
  <2>. QED
    BY <2>2
<1>2. ASSUME NEW m \in 1 .. N, m - 1 \in T
      PROVE  m \in T
  <2>1. PICK f \in [0 .. m - 1 -> S] : Done(f, m - 1)
    BY <1>2
  <2> DEFINE g == [k \in 0 .. m |-> IF k = m THEN step[m][f[m - 1]] ELSE f[k]]
  <2>2. step[m][f[m - 1]] \in S
    BY <2>1 DEF Steps
  <2>3. g \in [0 .. m -> S]
    BY <2>2
  <2>4. /\ g[m] = step[m][f[m - 1]]
        /\ \A k \in 0 .. m - 1 : g[k] = f[k]
    OBVIOUS
  <2>. HIDE DEF g
  <2>5. g[0] = v
    BY <2>1, <2>4
  <2>6. \A n \in 1 .. m : g[n] = step[n][g[n - 1]]
    <3>. TAKE n \in 1 .. m
    <3>1. CASE n = m
      BY <2>4, <3>1
    <3>2. CASE n # m
      <4>1. n \in 1 .. m - 1 /\ n \in 0 .. m - 1 /\ n - 1 \in 0 .. m - 1
        BY <3>2
      <4>. QED
        BY <2>1, <2>4, <4>1
    <3>. QED
      BY <3>1, <3>2
  <2>. QED
    BY <2>3, <2>5, <2>6
<1> HIDE DEF T
<1>3. N \in T
  <2>1. 0 .. N \subseteq T
    BY <1>1, <1>2, Upto
  <2>. QED
    BY <2>1
<1>. QED
  BY <1>3 DEF T, Follow


\* Recursions that begin alike agree as long as their steps do.
LEMMA FollowTogether ==
  ASSUME NEW S, NEW v, NEW N \in Nat, NEW M \in Nat, N <= M,
         NEW d, NEW e, NEW f, NEW g,
         Follow(f, S, v, N, d), Follow(g, S, v, M, e),
         \A n \in 1 .. N : d[n] = e[n]
  PROVE  \A n \in 0 .. N : f[n] = g[n]
<1> DEFINE T == {n \in 0 .. N : f[n] = g[n]}
<1>1. 0 \in T
  BY DEF Follow
<1>2. ASSUME NEW n \in 1 .. N, n - 1 \in T
      PROVE  n \in T
  <2>1. n \in 1 .. M /\ n \in 0 .. N
    OBVIOUS
  <2>2. f[n] = d[n][f[n - 1]] /\ g[n] = e[n][g[n - 1]] /\ d[n] = e[n]
    BY <2>1 DEF Follow
  <2>3. f[n - 1] = g[n - 1]
    BY <1>2
  <2>. QED
    BY <2>1, <2>2, <2>3
<1> HIDE DEF T
<1>3. 0 .. N \subseteq T
  BY <1>1, <1>2, Upto
<1>. QED
  BY <1>3 DEF T

\* Adding the lengths, one after the other.
Adding(d) == [n \in 1 .. Len(d) |-> [x \in Nat |-> x + Len(d[n])]]

\* Size is what the recursion reaches at the last function.
LEMMA SizeFollows ==
  ASSUME NEW X, NEW d \in Seq(Seq(X))
  PROVE  \E f : Follow(f, Nat, 0, Len(d), Adding(d)) /\ Size(d) = f[Len(d)]
<1> DEFINE N == Len(d)
           step == Adding(d)
           Is(f) == f = [n \in 0 .. N |->
                           IF n = 0 THEN 0 ELSE f[n - 1] + Len(d[n])]
<1>1. N \in Nat
  OBVIOUS
<1>2. \A n \in 1 .. N : Len(d[n]) \in Nat
  <2>. TAKE n \in 1 .. N
  <2>1. d[n] \in Seq(X)
    OBVIOUS
  <2>. QED
    BY <2>1
<1>3. step \in Steps(Nat, N)
  BY <1>2 DEF Adding, Steps
<1>4. \A x \in Nat, n \in 1 .. N : step[n][x] = x + Len(d[n])
  BY DEF Adding
<1> HIDE DEF N, step
<1>5. PICK f : Follow(f, Nat, 0, N, step)
  BY <1>1, <1>3, Recursion
<1>6. Is(f)
  <2>1. \A n \in 1 .. N : f[n] = f[n - 1] + Len(d[n])
    <3>. TAKE n \in 1 .. N
    <3>1. n - 1 \in 0 .. N
      BY <1>1
    <3>2. f[n] = step[n][f[n - 1]] /\ f[n - 1] \in Nat
      BY <1>5, <3>1 DEF Follow
    <3>. QED
      BY <1>4, <3>2
  <2>2. \A n \in 0 .. N : n # 0 => n \in 1 .. N
    BY <1>1
  <2>3. \A n \in 0 .. N : f[n] = IF n = 0 THEN 0 ELSE f[n - 1] + Len(d[n])
    BY <1>5, <2>1, <2>2, Zenon DEF Follow
  <2>4. f = [n \in 0 .. N |-> f[n]]
    BY <1>5 DEF Follow
  <2>. QED
    BY <2>3, <2>4, Zenon
<1> DEFINE g == CHOOSE h : Is(h)
<1>7. Is(g)
  BY <1>6
<1>8. Size(d) = g[N]
  BY DEF Size, N
<1> HIDE DEF g
<1>9. /\ g[0] = 0
      /\ \A n \in 1 .. N : g[n] = g[n - 1] + Len(d[n])
  <2>1. \A n \in 0 .. N : g[n] = IF n = 0 THEN 0 ELSE g[n - 1] + Len(d[n])
    BY <1>7, Zenon
  <2>2. 0 \in 0 .. N /\ \A n \in 1 .. N : n \in 0 .. N /\ n # 0
    BY <1>1
  <2>. QED
    BY <2>1, <2>2, Zenon
<1>10. \A n \in 0 .. N : g[n] = f[n]
  <2> DEFINE T == {n \in 0 .. N : g[n] = f[n]}
  <2>1. 0 \in T
    BY <1>1, <1>5, <1>9 DEF Follow
  <2>2. ASSUME NEW n \in 1 .. N, n - 1 \in T
        PROVE  n \in T
    <3>1. f[n] = step[n][f[n - 1]] /\ f[n - 1] \in Nat
      BY <1>1, <1>5 DEF Follow
    <3>2. f[n] = f[n - 1] + Len(d[n])
      BY <1>4, <3>1
    <3>3. g[n] = g[n - 1] + Len(d[n]) /\ g[n - 1] = f[n - 1]
      BY <1>9, <2>2
    <3>. QED
      BY <1>1, <3>2, <3>3
  <2>. HIDE DEF T
  <2>3. 0 .. N \subseteq T
    BY <1>1, <2>1, <2>2, Upto
  <2>. QED
    BY <2>3 DEF T
<1>11. Size(d) = f[N]
  BY <1>1, <1>8, <1>10
<1>. QED
  BY <1>5, <1>11 DEF N, step

\* One more function adds its statements.
LEMMA SizeOfMore ==
  ASSUME NEW X, NEW d \in Seq(Seq(X)), NEW b \in Seq(X)
  PROVE  /\ Size(<<>>) = 0 /\ Size(d) \in Nat
         /\ Size(Append(d, b)) = Size(d) + Len(b)
<1> DEFINE N == Len(d)
           e == Append(d, b)
<1>1. /\ N \in Nat /\ e \in Seq(Seq(X)) /\ Len(e) = N + 1
      /\ e[N + 1] = b /\ \A n \in 1 .. N : e[n] = d[n]
  OBVIOUS
<1>2. PICK f : Follow(f, Nat, 0, N, Adding(d)) /\ Size(d) = f[N]
  BY SizeFollows
<1> HIDE DEF e, N
<1>3. PICK g : Follow(g, Nat, 0, N + 1, Adding(e)) /\ Size(e) = g[N + 1]
  <2>1. \E g : Follow(g, Nat, 0, Len(e), Adding(e)) /\ Size(e) = g[Len(e)]
    BY <1>1, SizeFollows
  <2>. QED
    BY <1>1, <2>1
<1>4. \A n \in 1 .. N : Adding(d)[n] = Adding(e)[n]
  <2>. TAKE n \in 1 .. N
  <2>1. n \in 1 .. Len(d) /\ n \in 1 .. Len(e) /\ d[n] = e[n]
    BY <1>1 DEF N
  <2>2. /\ Adding(d)[n] = [x \in Nat |-> x + Len(d[n])]
        /\ Adding(e)[n] = [x \in Nat |-> x + Len(e[n])]
    BY <2>1, Zenon DEF Adding
  <2>. QED
    BY <2>1, <2>2, Zenon
<1>5. N + 1 \in Nat /\ N <= N + 1 /\ N \in 0 .. N /\ N + 1 \in 1 .. N + 1
  BY <1>1
<1>6. f[N] = g[N]
  BY <1>1, <1>2, <1>3, <1>4, <1>5, FollowTogether
<1>7. f[N] \in Nat
  BY <1>2, <1>5 DEF Follow
<1>8. Size(e) = Adding(e)[N + 1][g[N]]
  <2>1. N + 1 - 1 = N
    BY <1>1
  <2>. QED
    BY <1>3, <1>5, <2>1 DEF Follow
<1>9. \A x \in Nat : Adding(e)[N + 1][x] = x + Len(b)
  BY <1>1, <1>5 DEF Adding
<1>10. Size(<<>>) = 0
  <2>1. <<>> \in Seq(Seq(X)) /\ Len(<<>>) = 0
    OBVIOUS
  <2>2. \E h : Follow(h, Nat, 0, 0, Adding(<<>>)) /\ Size(<<>>) = h[0]
    BY <2>1, SizeFollows
  <2>. QED
    BY <2>2 DEF Follow
<1>. QED
  BY <1>2, <1>6, <1>7, <1>8, <1>9, <1>10 DEF e

Texts == SUBSET Seq(Token)

\* Texts of two languages, one after the other.
LEMMA ThenTyped ==
  ASSUME NEW A \in Texts, NEW B \in Texts
  PROVE  Then(A, B) \in Texts
<1>1. \A a \in A, b \in B : a \in Seq(Token) /\ b \in Seq(Token)
  BY DEF Texts
<1>2. \A a, b \in Seq(Token) : a \o b \in Seq(Token)
  OBVIOUS
<1>3. ASSUME NEW t \in Then(A, B)
      PROVE  t \in Seq(Token)
  <2>1. PICK a \in A, b \in B : t = a \o b
    BY DEF Then
  <2>. QED
    BY <1>1, <1>2, <2>1, Zenon
<1>. QED
  BY <1>3 DEF Texts

\* Joining the members of L, one after the other.
Joining(L) == [n \in 1 .. Len(L) |-> [A \in Texts |-> Then(A, L[n])]]

\* Joined is what the recursion reaches at the last member.
LEMMA JoinedFollows ==
  ASSUME NEW L \in Seq(Texts)
  PROVE  \E f : /\ Follow(f, Texts, {<<>>}, Len(L), Joining(L))
                /\ Joined(L) = f[Len(L)]
<1> DEFINE N == Len(L)
           step == Joining(L)
           Is(f) == f = [n \in 0 .. N |->
                           IF n = 0 THEN {<<>>} ELSE Then(f[n - 1], L[n])]
<1>1. N \in Nat /\ {<<>>} \in Texts
  BY DEF Texts
<1>2. \A n \in 1 .. N : L[n] \in Texts
  OBVIOUS
<1>3. step \in Steps(Texts, N)
  BY <1>2, ThenTyped DEF Joining, Steps
<1>4. \A A \in Texts, n \in 1 .. N : step[n][A] = Then(A, L[n])
  BY DEF Joining
<1> HIDE DEF N, step
<1>5. PICK f : Follow(f, Texts, {<<>>}, N, step)
  BY <1>1, <1>3, Recursion
<1>6. \A n \in 1 .. N : f[n] = Then(f[n - 1], L[n])
  <2>. TAKE n \in 1 .. N
  <2>1. n - 1 \in 0 .. N
    BY <1>1
  <2>2. f[n] = step[n][f[n - 1]] /\ f[n - 1] \in Texts
    BY <1>5, <2>1 DEF Follow
  <2>. QED
    BY <1>4, <2>2
<1>7. Is(f)
  <2>1. \A n \in 0 .. N : n # 0 => n \in 1 .. N
    BY <1>1
  <2>2. \A n \in 0 .. N : f[n] = IF n = 0 THEN {<<>>} ELSE Then(f[n - 1], L[n])
    BY <1>5, <1>6, <2>1, Zenon DEF Follow
  <2>3. f = [n \in 0 .. N |-> f[n]]
    BY <1>5 DEF Follow
  <2>. QED
    BY <2>2, <2>3, Zenon
<1> DEFINE g == CHOOSE h : Is(h)
<1>8. Is(g)
  BY <1>7
<1>9. Joined(L) = g[N]
  BY DEF Joined, N
<1> HIDE DEF g
<1>10. /\ g[0] = {<<>>}
       /\ \A n \in 1 .. N : g[n] = Then(g[n - 1], L[n])
  <2>1. \A n \in 0 .. N : g[n] = IF n = 0 THEN {<<>>} ELSE Then(g[n - 1], L[n])
    BY <1>8, Zenon
  <2>2. 0 \in 0 .. N /\ \A n \in 1 .. N : n \in 0 .. N /\ n # 0
    BY <1>1
  <2>. QED
    BY <2>1, <2>2, Zenon
<1>11. \A n \in 0 .. N : g[n] = f[n]
  <2> DEFINE T == {n \in 0 .. N : g[n] = f[n]}
  <2>1. 0 \in T
    <3>1. f[0] = {<<>>} /\ g[0] = {<<>>} /\ 0 \in 0 .. N
      BY <1>1, <1>5, <1>10 DEF Follow
    <3>. QED
      BY <3>1
  <2>2. ASSUME NEW n \in 1 .. N, n - 1 \in T
        PROVE  n \in T
    <3>1. g[n - 1] = f[n - 1] /\ n \in 0 .. N
      BY <1>1, <2>2
    <3>. QED
      BY <1>6, <1>10, <3>1
  <2>. HIDE DEF T
  <2>3. 0 .. N \subseteq T
    BY <1>1, <2>1, <2>2, Upto
  <2>. QED
    BY <2>3 DEF T
<1>12. Joined(L) = f[N]
  BY <1>1, <1>9, <1>11
<1>. QED
  BY <1>5, <1>12 DEF N, step

\* One more member is joined at the end.
LEMMA JoinedOfMore ==
  ASSUME NEW L \in Seq(Texts), NEW B \in Texts
  PROVE  /\ Joined(<<>>) = {<<>>} /\ Joined(L) \in Texts
         /\ Joined(Append(L, B)) = Then(Joined(L), B)
<1> DEFINE N == Len(L)
           M == Append(L, B)
<1>1. /\ N \in Nat /\ M \in Seq(Texts) /\ Len(M) = N + 1
      /\ M[N + 1] = B /\ \A n \in 1 .. N : M[n] = L[n]
  OBVIOUS
<1>2. PICK f : /\ Follow(f, Texts, {<<>>}, N, Joining(L))
               /\ Joined(L) = f[N]
  BY JoinedFollows
<1> HIDE DEF M, N
<1>3. PICK g : /\ Follow(g, Texts, {<<>>}, N + 1, Joining(M))
               /\ Joined(M) = g[N + 1]
  <2>1. \E g : /\ Follow(g, Texts, {<<>>}, Len(M), Joining(M))
               /\ Joined(M) = g[Len(M)]
    BY <1>1, JoinedFollows
  <2>. QED
    BY <1>1, <2>1
<1>4. \A n \in 1 .. N : Joining(L)[n] = Joining(M)[n]
  <2>. TAKE n \in 1 .. N
  <2>1. n \in 1 .. Len(L) /\ n \in 1 .. Len(M) /\ L[n] = M[n]
    BY <1>1 DEF N
  <2>2. /\ Joining(L)[n] = [A \in Texts |-> Then(A, L[n])]
        /\ Joining(M)[n] = [A \in Texts |-> Then(A, M[n])]
    BY <2>1, Zenon DEF Joining
  <2>. QED
    BY <2>1, <2>2, Zenon
<1>5. N + 1 \in Nat /\ N <= N + 1 /\ N \in 0 .. N /\ N + 1 \in 1 .. N + 1
  BY <1>1
<1>6. f[N] = g[N]
  BY <1>1, <1>2, <1>3, <1>4, <1>5, FollowTogether
<1>7. f[N] \in Texts
  BY <1>2, <1>5 DEF Follow
<1>8. Joined(M) = Joining(M)[N + 1][g[N]]
  <2>1. N + 1 - 1 = N
    BY <1>1
  <2>. QED
    BY <1>3, <1>5, <2>1 DEF Follow
<1>9. \A A \in Texts : Joining(M)[N + 1][A] = Then(A, B)
  BY <1>1, <1>5 DEF Joining
<1>10. Joined(<<>>) = {<<>>}
  <2>1. <<>> \in Seq(Texts) /\ Len(<<>>) = 0
    OBVIOUS
  <2>2. \E h : /\ Follow(h, Texts, {<<>>}, 0, Joining(<<>>))
               /\ Joined(<<>>) = h[0]
    BY <2>1, JoinedFollows
  <2>. QED
    BY <2>2 DEF Follow
<1>. QED
  BY <1>2, <1>6, <1>7, <1>8, <1>9, <1>10 DEF M

\* The texts of a statement, of a body and of a function.
LEMMA SpellingsTyped ==
  /\ Signature \in Seq(Token)
  /\ \A s \in Statement : Spellings(s) \in Texts
<1>1. /\ {"type", "return", "identifier", "constant", "(", ")", "{", "}",
           "=", ";"} \subseteq Token
      /\ Expressions \subseteq Token
  BY DEF Token, Marks, Expressions
<1>2. /\ \A t1, t2, t3 \in Token : <<t1, t2, t3>> \in Seq(Token)
      /\ \A t1, t2, t3, t4 \in Token : <<t1, t2, t3, t4>> \in Seq(Token)
      /\ \A t1, t2, t3, t4, t5 \in Token :
           <<t1, t2, t3, t4, t5>> \in Seq(Token)
  OBVIOUS
<1>3. Signature \in Seq(Token)
  BY <1>1, <1>2 DEF Signature
<1>4. ASSUME NEW s, NEW t \in Spellings(s)
      PROVE  t \in Seq(Token)
  <2>1. \/ t = <<"type", "identifier", ";">>
        \/ \E e \in Expressions : \/ t = <<"type", "identifier", "=", e, ";">>
                                 \/ t = <<"identifier", "=", e, ";">>
                                 \/ t = <<"return", e, ";">>
    BY <1>4 DEF Spellings
  <2>2. CASE t = <<"type", "identifier", ";">>
    BY <1>1, <1>2, <2>2
  <2>3. ASSUME NEW e \in Expressions,
               \/ t = <<"type", "identifier", "=", e, ";">>
               \/ t = <<"identifier", "=", e, ";">>
               \/ t = <<"return", e, ";">>
        PROVE  t \in Seq(Token)
    <3>1. /\ "type" \in Token /\ "identifier" \in Token /\ "=" \in Token
          /\ ";" \in Token /\ "return" \in Token /\ e \in Token
      BY <1>1
    <3>2. /\ <<"type", "identifier", "=", e, ";">> \in Seq(Token)
          /\ <<"identifier", "=", e, ";">> \in Seq(Token)
          /\ <<"return", e, ";">> \in Seq(Token)
      BY <1>2, <3>1
    <3>. QED
      BY <2>3, <3>2, Zenon
  <2>. QED
    BY <2>1, <2>2, <2>3
<1>. QED
  BY <1>3, <1>4 DEF Texts

\* A function that is L with B at its end is the sequence Append(L, B).
LEMMA Appended ==
  ASSUME NEW S, NEW L \in Seq(S), NEW B \in S, NEW R,
         DOMAIN R = 1 .. Len(L) + 1, R = [k \in DOMAIN R |-> R[k]],
         R[Len(L) + 1] = B, \A k \in 1 .. Len(L) : R[k] = L[k]
  PROVE  R = Append(L, B)
<1> DEFINE Q == Append(L, B)
           N == Len(L)
<1>1. /\ Q = [k \in 1 .. N + 1 |-> Q[k]] /\ Q[N + 1] = B
      /\ \A k \in 1 .. N : Q[k] = L[k]
      /\ N \in Nat
  <2>1. /\ Q \in Seq(S) /\ Len(Q) = N + 1 /\ N \in Nat
        /\ Q[N + 1] = B /\ \A k \in 1 .. N : Q[k] = L[k]
    OBVIOUS
  <2>. HIDE DEF Q, N
  <2>2. Q = [k \in 1 .. Len(Q) |-> Q[k]]
    BY <2>1
  <2>. QED
    BY <2>1, <2>2, Zenon
<1> HIDE DEF Q, N
<1>2. \A k \in 1 .. N + 1 : Q[k] = R[k]
  <2>. TAKE k \in 1 .. N + 1
  <2>1. k \in 1 .. N \/ k = N + 1
    BY <1>1
  <2>. QED
    BY <1>1, <2>1, Zenon DEF N
<1>3. R = Q
  BY <1>1, <1>2, Zenon DEF N
<1>. QED
  BY <1>3 DEF Q

\* What one more statement adds to the texts of a body.
LEMMA BodyGrows ==
  ASSUME NEW b \in Seq(Statement), NEW s \in Statement
  PROVE  /\ BodySpellings(<<>>) = {<<>>} /\ BodySpellings(b) \in Texts
         /\ BodySpellings(Append(b, s)) = Then(BodySpellings(b), Spellings(s))
<1> DEFINE L == [k \in DOMAIN b |-> Spellings(b[k])]
           c == Append(b, s)
<1>1. DOMAIN b = 1 .. Len(b) /\ Len(b) \in Nat
  OBVIOUS
<1>2. L \in Seq(Texts) /\ Len(L) = Len(b)
  BY <1>1, SpellingsTyped
<1>3. [k \in DOMAIN c |-> Spellings(c[k])] = Append(L, Spellings(s))
  <2>1. /\ DOMAIN c = 1 .. Len(b) + 1 /\ c[Len(b) + 1] = s
        /\ \A k \in 1 .. Len(b) : c[k] = b[k]
    OBVIOUS
  <2>2. /\ \A k \in 1 .. Len(b) : L[k] = Spellings(b[k])
        /\ Len(b) + 1 \in 1 .. Len(b) + 1
        /\ \A k \in 1 .. Len(b) : k \in 1 .. Len(b) + 1
    BY <1>1
  <2> DEFINE R == [k \in DOMAIN c |-> Spellings(c[k])]
  <2>. HIDE DEF c, L
  <2>3. /\ DOMAIN R = 1 .. Len(L) + 1 /\ R = [k \in DOMAIN R |-> R[k]]
    BY <1>2, <2>1, Zenon
  <2>4. R[Len(L) + 1] = Spellings(s) /\ \A k \in 1 .. Len(L) : R[k] = L[k]
    BY <1>2, <2>1, <2>2, Zenon
  <2>. HIDE DEF R
  <2>5. R = Append(L, Spellings(s))
    BY <1>2, <2>3, <2>4, SpellingsTyped, Appended
  <2>. QED
    BY <2>5 DEF R
<1>4. BodySpellings(<<>>) = Joined(<<>>)
  <2>1. [k \in DOMAIN <<>> |-> Spellings(<<>>[k])] = <<>>
    OBVIOUS
  <2>. QED
    BY <2>1 DEF BodySpellings
<1>5. BodySpellings(b) = Joined(L)
  BY DEF BodySpellings
<1>6. BodySpellings(c) = Joined(Append(L, Spellings(s)))
  BY <1>3 DEF BodySpellings
<1> HIDE DEF L, c
<1>. QED
  BY <1>2, <1>4, <1>5, <1>6, SpellingsTyped, JoinedOfMore DEF c

\* The texts of a function are sequences of tokens.
LEMMA FunctionTyped ==
  ASSUME NEW b \in Seq(Statement)
  PROVE  FunctionSpellings(b) \in Texts
<1>1. /\ Signature \in Seq(Token) /\ <<"}">> \in Seq(Token)
      /\ BodySpellings(b) \in Texts
  <2>1. \A s \in Statement : BodySpellings(b) \in Texts
    BY BodyGrows
  <2>2. \E s : s \in Statement
    BY DEF Statement
  <2>3. "}" \in Token
    BY DEF Token, Marks
  <2>4. <<"}">> \in Seq(Token)
    <3>1. \A t \in Token : <<t>> \in Seq(Token)
      OBVIOUS
    <3>. QED
      BY <2>3, <3>1
  <2>. QED
    BY <2>1, <2>2, <2>4, SpellingsTyped
<1>2. {Signature} \in Texts /\ {<<"}">>} \in Texts
  BY <1>1 DEF Texts
<1>3. Then({Signature}, BodySpellings(b)) \in Texts
  BY <1>1, <1>2, ThenTyped
<1>. QED
  BY <1>2, <1>3, ThenTyped DEF FunctionSpellings

\* What one more function adds to the texts of a translation unit.
LEMMA UnitGrows ==
  ASSUME NEW b \in Seq(Seq(Statement)), NEW s \in Seq(Statement)
  PROVE  /\ UnitSpellings(<<>>) = {<<>>} /\ UnitSpellings(b) \in Texts
         /\ UnitSpellings(Append(b, s))
              = Then(UnitSpellings(b), FunctionSpellings(s))
<1> DEFINE L == [k \in DOMAIN b |-> FunctionSpellings(b[k])]
           c == Append(b, s)
<1>1. DOMAIN b = 1 .. Len(b) /\ Len(b) \in Nat
  OBVIOUS
<1>2. L \in Seq(Texts) /\ Len(L) = Len(b)
  <2>1. \A k \in 1 .. Len(b) : FunctionSpellings(b[k]) \in Texts
    BY FunctionTyped
  <2>. QED
    BY <1>1, <2>1
<1>3. [k \in DOMAIN c |-> FunctionSpellings(c[k])] = Append(L, FunctionSpellings(s))
  <2>1. /\ DOMAIN c = 1 .. Len(b) + 1 /\ c[Len(b) + 1] = s
        /\ \A k \in 1 .. Len(b) : c[k] = b[k]
    OBVIOUS
  <2>2. /\ \A k \in 1 .. Len(b) : L[k] = FunctionSpellings(b[k])
        /\ Len(b) + 1 \in 1 .. Len(b) + 1
        /\ \A k \in 1 .. Len(b) : k \in 1 .. Len(b) + 1
    BY <1>1
  <2> DEFINE R == [k \in DOMAIN c |-> FunctionSpellings(c[k])]
  <2>. HIDE DEF c, L
  <2>3. /\ DOMAIN R = 1 .. Len(L) + 1 /\ R = [k \in DOMAIN R |-> R[k]]
    BY <1>2, <2>1, Zenon
  <2>4. R[Len(L) + 1] = FunctionSpellings(s) /\ \A k \in 1 .. Len(L) : R[k] = L[k]
    BY <1>2, <2>1, <2>2, Zenon
  <2>. HIDE DEF R
  <2>5. R = Append(L, FunctionSpellings(s))
    BY <1>2, <2>3, <2>4, FunctionTyped, Appended
  <2>. QED
    BY <2>5 DEF R
<1>4. UnitSpellings(<<>>) = Joined(<<>>)
  <2>1. [k \in DOMAIN <<>> |-> FunctionSpellings(<<>>[k])] = <<>>
    OBVIOUS
  <2>. QED
    BY <2>1 DEF UnitSpellings
<1>5. UnitSpellings(b) = Joined(L)
  BY DEF UnitSpellings
<1>6. UnitSpellings(c) = Joined(Append(L, FunctionSpellings(s)))
  BY <1>3 DEF UnitSpellings
<1> HIDE DEF L, c
<1>. QED
  BY <1>2, <1>4, <1>5, <1>6, FunctionTyped, JoinedOfMore DEF c

\* Languages one after the other.
LEMMA InThen ==
  ASSUME NEW A, NEW B, NEW a \in A, NEW b \in B
  PROVE  a \o b \in Then(A, B)
BY DEF Then

\* Every text of Then(A, B) has two parts.
LEMMA FromThen ==
  ASSUME NEW A, NEW B, NEW t \in Then(A, B)
  PROVE  \E a \in A, b \in B : t = a \o b
BY DEF Then

\* Then grows with its second language.
LEMMA ThenGrows ==
  ASSUME NEW A, NEW B, NEW C, B \subseteq C
  PROVE  Then(A, B) \subseteq Then(A, C)
BY DEF Then

\* Three languages in a row, taken from the left or from the right.
LEMMA ThenAssociates ==
  ASSUME NEW A \in Texts, NEW B \in Texts, NEW C \in Texts
  PROVE  Then(Then(A, B), C) = Then(A, Then(B, C))
<1>1. \A a \in A, b \in B, c \in C : (a \o b) \o c = a \o (b \o c)
  <2>. TAKE a \in A, b \in B, c \in C
  <2>1. a \in Seq(Token) /\ b \in Seq(Token) /\ c \in Seq(Token)
    BY DEF Texts
  <2>. QED
    BY <2>1
<1>2. ASSUME NEW t \in Then(Then(A, B), C)
      PROVE  t \in Then(A, Then(B, C))
  <2>1. PICK u \in Then(A, B), c \in C : t = u \o c
    BY FromThen
  <2>2. PICK a \in A, b \in B : u = a \o b
    BY FromThen
  <2>3. b \o c \in Then(B, C)
    BY InThen
  <2>4. a \o (b \o c) \in Then(A, Then(B, C))
    BY <2>3, InThen
  <2>. QED
    BY <1>1, <2>1, <2>2, <2>4
<1>3. ASSUME NEW t \in Then(A, Then(B, C))
      PROVE  t \in Then(Then(A, B), C)
  <2>1. PICK a \in A, u \in Then(B, C) : t = a \o u
    BY FromThen
  <2>2. PICK b \in B, c \in C : u = b \o c
    BY FromThen
  <2>3. a \o b \in Then(A, B)
    BY InThen
  <2>4. (a \o b) \o c \in Then(Then(A, B), C)
    BY <2>3, InThen
  <2>. QED
    BY <1>1, <2>1, <2>2, <2>4
<1>. QED
  BY <1>2, <1>3

\* The same for four, as a body with one more statement needs it.
LEMMA ThenReordered ==
  ASSUME NEW A \in Texts, NEW B \in Texts, NEW C \in Texts, NEW D \in Texts
  PROVE  Then(Then(A, Then(B, C)), D) = Then(A, Then(B, Then(C, D)))
<1>1. Then(B, C) \in Texts
  BY ThenTyped
<1>2. Then(Then(A, Then(B, C)), D) = Then(A, Then(Then(B, C), D))
  BY <1>1, ThenAssociates
<1>3. Then(Then(B, C), D) = Then(B, Then(C, D))
  BY ThenAssociates
<1>. QED
  BY <1>2, <1>3

\* The empty text after a language, and before one.
LEMMA ThenNothing ==
  ASSUME NEW A \in Texts
  PROVE  Then(A, {<<>>}) = A
<1>1. \A a \in A : a \o <<>> = a
  <2>. TAKE a \in A
  <2>1. a \in Seq(Token)
    BY DEF Texts
  <2>. QED
    BY <2>1
<1>2. ASSUME NEW t \in Then(A, {<<>>})
      PROVE  t \in A
  <2>1. PICK a \in A, b \in {<<>>} : t = a \o b
    BY DEF Then
  <2>. QED
    BY <1>1, <2>1
<1>3. ASSUME NEW t \in A
      PROVE  t \in Then(A, {<<>>})
  <2>1. t \o <<>> \in Then(A, {<<>>})
    BY InThen
  <2>. QED
    BY <1>1, <2>1
<1>. QED
  BY <1>2, <1>3

\* One more token is appended to the last text.
LEMMA NothingThen ==
  ASSUME NEW A \in Texts
  PROVE  Then({<<>>}, A) = A
<1>1. \A a \in A : <<>> \o a = a
  <2>. TAKE a \in A
  <2>1. a \in Seq(Token)
    BY DEF Texts
  <2>. QED
    BY <2>1
<1>2. ASSUME NEW t \in Then({<<>>}, A)
      PROVE  t \in A
  <2>1. PICK a \in {<<>>}, b \in A : t = a \o b
    BY DEF Then
  <2>. QED
    BY <1>1, <2>1
<1>3. ASSUME NEW t \in A
      PROVE  t \in Then({<<>>}, A)
  <2>1. <<>> \o t \in Then({<<>>}, A)
    BY InThen
  <2>. QED
    BY <1>1, <2>1
<1>. QED
  BY <1>2, <1>3

\* One more token on the second part.
LEMMA ThenToken ==
  ASSUME NEW A \in Texts, NEW B \in Texts, NEW C,
         NEW t \in Token, NEW r \in Then(A, B),
         \A b \in B : Append(b, t) \in C
  PROVE  Append(r, t) \in Then(A, C)
<1>1. PICK a \in A, b \in B : r = a \o b
  BY FromThen
<1>2. a \in Seq(Token) /\ b \in Seq(Token)
  BY DEF Texts
<1>3. Append(a \o b, t) = a \o Append(b, t)
  BY <1>2
<1>4. a \o Append(b, t) \in Then(A, C)
  BY InThen
<1>. QED
  BY <1>1, <1>3, <1>4
-----------------------------------------------------------------------------
(***************************************************************************)
(* The parser: what it has read is the text of the tree it has built and   *)
(* of the part of a function, or of a statement, that it is in.            *)
(***************************************************************************)
Heading == {"Name", "LParen", "RParen", "LBrace"}

InStatement == {"VarName", "VarInit", "Equals", "Expr", "Semicolon"}

\* The moves of the parser: it ends, or it takes a token.
Ended ==
  /\ pc' \in {"Accepted", "Rejected"} /\ (pc' = "Accepted" => pc = "Parse")
  /\ stop' \in Token \cup End
  /\ UNCHANGED <<read, body, stmt, decls>>

Takes(from, t, to) ==
  pc = from /\ t \in Token /\ Take(t, to) /\ UNCHANGED decls

MovesOn ==
  \/ /\ UNCHANGED <<body, stmt>>
     /\ \/ Takes("Parse", "type", "Name") /\ Len(decls) < MaxFunctions
        \/ Takes("Name", "identifier", "LParen")
        \/ Takes("LParen", "(", "RParen")
        \/ Takes("RParen", ")", "LBrace")
        \/ Takes("LBrace", "{", "Body")
        \/ Takes("VarName", "identifier", "VarInit")
        \/ Takes("Equals", "=", "Expr")
        \/ \E t \in Expressions : Takes("Expr", t, "Semicolon")
  \/ /\ UNCHANGED body /\ Statements < MaxStatements
     /\ \/ Takes("Body", "type", "VarName") /\ stmt' = VarDecl(FALSE)
        \/ Takes("Body", "return", "Expr") /\ stmt' = Assignment("return")
        \/ Takes("Body", "identifier", "Equals") /\ stmt' = Assignment("name")
  \/ Takes("VarInit", "=", "Expr") /\ stmt' = VarDecl(TRUE) /\ UNCHANGED body

Pushes ==
  /\ pc \in {"VarInit", "Semicolon"} /\ ";" \in Token /\ Take(";", "Body")
  /\ body' = Append(body, stmt) /\ stmt' = NoStatement /\ UNCHANGED decls

EndsFunction ==
  /\ pc = "Body" /\ "}" \in Token /\ Take("}", "Parse")
  /\ decls' = Append(decls, body) /\ body' = <<>> /\ UNCHANGED stmt

\* Every step of the parser is one of these moves.
LEMMA Moves == Next => Ended \/ MovesOn \/ Pushes \/ EndsFunction
<1> SUFFICES ASSUME Next
             PROVE  Ended \/ MovesOn \/ Pushes \/ EndsFunction
  OBVIOUS
<1>0. /\ {"type", "return", "identifier", "constant", "(", ")", "{", "}",
           "=", ";"} \subseteq Token
      /\ Expressions = Primary /\ Expressions \subseteq Token
  BY DEF Token, Marks, Expressions, Primary, IsConstant, IsIdentifier
<1>1. ASSUME NEW t \in Token \cup End, NEW C, Reject(t, C)
      PROVE  Ended
  BY <1>1 DEF Reject, Return, Ended
<1>2. ASSUME NEW here, NEW C \in SUBSET Token, NEW to, Expect(here, C, to)
      PROVE  Ended \/ \E t \in C : Takes(here, t, to) /\ UNCHANGED <<body, stmt>>
  <2>1. pc = here
    BY <1>2 DEF Expect
  <2>2. PICK t \in Token \cup End :
          \/ Reject(t, C)
          \/ t \in C /\ Take(t, to) /\ UNCHANGED <<body, stmt, decls>>
    BY <1>2 DEF Expect
  <2>3. CASE Reject(t, C)
    BY <1>1, <2>3
  <2>4. CASE t \in C /\ Take(t, to) /\ UNCHANGED <<body, stmt, decls>>
    BY <1>0, <2>1, <2>2, <2>4 DEF Takes
  <2>. QED
    BY <2>2, <2>3, <2>4
<1>3. ASSUME NEW here, NEW c \in Token, NEW to, Expect(here, {c}, to)
      PROVE  Ended \/ (Takes(here, c, to) /\ UNCHANGED <<body, stmt>>)
  <2>1. {c} \in SUBSET Token
    OBVIOUS
  <2>2. Ended \/ \E t \in {c} : Takes(here, t, to) /\ UNCHANGED <<body, stmt>>
    BY <1>2, <1>3, <2>1
  <2>. QED
    BY <2>2
<1>4. CASE Parse
  BY <1>0, <1>1, <1>4 DEF Parse, Ended, Return, MovesOn, Takes, IsTypeKeyword
<1>5. CASE FunctionHead
  <2>1. CASE Expect("Name", IsIdentifier, "LParen")
    BY <1>0, <1>3, <2>1 DEF MovesOn, IsIdentifier
  <2>2. CASE Expect("LParen", {"("}, "RParen")
    BY <1>0, <1>3, <2>2 DEF MovesOn
  <2>3. CASE Expect("RParen", {")"}, "LBrace")
    BY <1>0, <1>3, <2>3 DEF MovesOn
  <2>4. CASE Expect("LBrace", {"{"}, "Body")
    BY <1>0, <1>3, <2>4 DEF MovesOn
  <2>. QED
    BY <1>5, <2>1, <2>2, <2>3, <2>4 DEF FunctionHead
<1>6. CASE FunctionBody
  BY <1>0, <1>1, <1>6
  DEF FunctionBody, Begin, MovesOn, Takes, IsTypeKeyword, IsIdentifier
<1>7. CASE FunctionEnd
  BY <1>0, <1>7 DEF FunctionEnd, EndsFunction, NextBody
<1>8. CASE VarDeclRest
  <2>1. CASE Expect("VarName", IsIdentifier, "VarInit")
    BY <1>0, <1>3, <2>1 DEF MovesOn, IsIdentifier
  <2>2. CASE /\ pc = "VarInit" /\ Take("=", "Expr") /\ stmt' = VarDecl(TRUE)
             /\ UNCHANGED <<body, decls>>
    BY <1>0, <2>2 DEF MovesOn, Takes
  <2>3. CASE pc = "VarInit" /\ Push(";")
    BY <1>0, <2>3 DEF Push, Pushed, Pushes
  <2>. QED
    BY <1>1, <1>8, <2>1, <2>2, <2>3 DEF VarDeclRest
<1>9. CASE AssignmentRest \/ ParseExpr
  <2>1. CASE Expect("Equals", {"="}, "Expr")
    BY <1>0, <1>3, <2>1 DEF MovesOn
  <2>2. CASE Expect("Expr", Primary, "Semicolon")
    BY <1>0, <1>2, <2>2 DEF MovesOn
  <2>. QED
    BY <1>9, <2>1, <2>2 DEF AssignmentRest, ParseExpr
<1>10. CASE StatementEnd
  BY <1>0, <1>1, <1>10 DEF StatementEnd, Push, Pushed, Pushes
<1>. QED
  BY <1>4, <1>5, <1>6, <1>7, <1>8, <1>9, <1>10 DEF Next
ParserTypes ==
  /\ pc \in {"Parse", "Body", "Accepted", "Rejected"} \cup Heading \cup InStatement
  /\ read \in Seq(Token)
  /\ stop \in Token \cup End
  /\ body \in Seq(Statement)
  /\ stmt \in Statement \cup {NoStatement}
  /\ pc \in InStatement => stmt \in Statement
  /\ decls \in Seq(Bodies)

\* What the parser has begun counts for what it has not yet pushed.
FunctionBegun == IF pc \in {"Body"} \cup Heading \cup InStatement THEN 1 ELSE 0

StatementBegun == IF pc \in InStatement THEN 1 ELSE 0

Counts ==
  /\ Len(decls) + FunctionBegun <= MaxFunctions
  /\ Statements + StatementBegun <= MaxStatements

ParserInv == ParserTypes /\ Counts

\* A body is a sequence that is not too long, and a unit is one of bodies.
LEMMA BodiesFit ==
  /\ \A b \in Bodies : b \in Seq(Statement)
  /\ \A b \in Seq(Statement) : Len(b) <= MaxStatements => b \in Bodies
<1>1. ASSUME NEW b \in Bodies
      PROVE  b \in Seq(Statement)
  <2>1. PICK n \in 0 .. MaxStatements : b \in [1 .. n -> Statement]
    BY DEF Bodies
  <2>2. n \in Nat
    BY ParserAssumption
  <2>. QED
    BY <2>1, <2>2
<1>2. ASSUME NEW b \in Seq(Statement), Len(b) <= MaxStatements
      PROVE  b \in Bodies
  <2>1. Len(b) \in 0 .. MaxStatements
    BY <1>2, ParserAssumption
  <2>2. b \in [1 .. Len(b) -> Statement]
    OBVIOUS
  <2>. QED
    BY <2>1, <2>2 DEF Bodies
<1>. QED
  BY <1>1, <1>2

\* A list of bodies within both bounds is a translation unit.
LEMMA UnitsFit ==
  ASSUME NEW d \in Seq(Bodies), Len(d) <= MaxFunctions, Size(d) <= MaxStatements
  PROVE  d \in Units
<1>1. Len(d) \in 0 .. MaxFunctions
  BY ParserAssumption
<1>2. d \in [1 .. Len(d) -> Bodies]
  OBVIOUS
<1>3. d \in UNION {[1 .. n -> Bodies] : n \in 0 .. MaxFunctions}
  BY <1>1, <1>2
<1>. QED
  BY <1>3 DEF Units

\* A list of bodies is a list of sequences of statements.
LEMMA UnitsAreBodies ==
  ASSUME NEW d \in Seq(Bodies)
  PROVE  d \in Seq(Seq(Statement))
<1>1. \A k \in 1 .. Len(d) : d[k] \in Seq(Statement)
  BY BodiesFit
<1>. QED
  BY <1>1

\* A sequence with one element more.
LEMMA OneLonger ==
  ASSUME NEW S, NEW q \in Seq(S), NEW x \in S
  PROVE  /\ Append(q, x) \in Seq(S) /\ Len(Append(q, x)) = Len(q) + 1
         /\ <<>> \in Seq(S) /\ Len(<<>>) = 0
OBVIOUS

\* Nothing has been begun at the start.
LEMMA ParserBegins == Init => ParserInv
<1> SUFFICES ASSUME Init
             PROVE  ParserInv
  OBVIOUS
<1>1. /\ pc = "Parse" /\ read = <<>> /\ stop = "none" /\ body = <<>>
      /\ stmt = NoStatement /\ decls = <<>>
  BY DEF Init
<1>2. /\ read \in Seq(Token) /\ body \in Seq(Statement) /\ decls \in Seq(Bodies)
      /\ Len(body) = 0 /\ Len(decls) = 0
  BY <1>1
<1>3. ParserTypes
  BY <1>1, <1>2 DEF ParserTypes, End, Heading, InStatement
<1>4. Size(decls) = 0
  <2>1. <<>> \in Seq(Seq(Statement)) /\ <<>> \in Seq(Statement)
    OBVIOUS
  <2>. QED
    BY <1>1, <2>1, SizeOfMore
<1>5. Counts
  <2>1. FunctionBegun = 0 /\ StatementBegun = 0
    BY <1>1 DEF FunctionBegun, StatementBegun, Heading, InStatement
  <2>. QED
    BY <1>1, <1>2, <1>4, <2>1, ParserAssumption DEF Counts, Statements
<1>. QED
  BY <1>3, <1>5 DEF ParserInv

\* A token begins a function or a statement only where there is room.
LEMMA ParserStep == ParserInv /\ Next => ParserInv'
<1> SUFFICES ASSUME ParserInv, Next
             PROVE  ParserInv'
  OBVIOUS
<1>1. ParserTypes /\ Counts /\ MaxFunctions \in Nat /\ MaxStatements \in Nat
  BY ParserAssumption DEF ParserInv
<1>2. decls \in Seq(Seq(Statement)) /\ Size(decls) \in Nat /\ Len(decls) \in Nat
      /\ Len(body) \in Nat
      /\ FunctionBegun \in {0, 1} /\ StatementBegun \in {0, 1}
  BY <1>1, UnitsAreBodies, SizeOfMore
  DEF ParserTypes, FunctionBegun, StatementBegun
<1>3. \A t \in Token : Append(read, t) \in Seq(Token)
  BY <1>1 DEF ParserTypes
<1>4. CASE Ended
  <2>1. /\ pc' \in {"Accepted", "Rejected"} /\ stop' \in Token \cup End
        /\ UNCHANGED <<read, body, stmt, decls>>
    BY <1>4 DEF Ended
  <2>2. ParserTypes'
    BY <1>1, <2>1 DEF ParserTypes, Heading, InStatement
  <2>3. Counts'
    <3>1. FunctionBegun' = 0 /\ StatementBegun' = 0
      BY <2>1 DEF FunctionBegun, StatementBegun, Heading, InStatement
    <3>. QED
      BY <1>1, <1>2, <2>1, <3>1 DEF Counts, Statements
  <2>. QED
    BY <2>2, <2>3 DEF ParserInv
<1>5. CASE MovesOn
  <2>1. /\ \E t \in Token : read' = Append(read, t)
        /\ UNCHANGED <<stop, body, decls>>
    BY <1>5 DEF MovesOn, Takes, Take
  <2>2. /\ pc' \in {"Body"} \cup Heading \cup InStatement
        /\ stmt' \in Statement \cup {NoStatement}
        /\ pc' \in InStatement => stmt' \in Statement
    BY <1>1, <1>5
    DEF MovesOn, Takes, Take, ParserTypes, Heading, InStatement, Statement
  <2>3. /\ pc \notin {"Accepted", "Rejected"}
        /\ pc = "Parse" => Len(decls) < MaxFunctions
        /\ pc' \in InStatement /\ pc \notin InStatement
             => Statements < MaxStatements
    BY <1>5 DEF MovesOn, Takes, Take, InStatement
  <2>4. ParserTypes'
    BY <1>1, <1>3, <2>1, <2>2 DEF ParserTypes
  <2>5. Counts'
    <3>1. FunctionBegun = 1 \/ Len(decls) < MaxFunctions
      BY <1>1, <2>3 DEF FunctionBegun, ParserTypes
    <3>2. /\ StatementBegun' <= 1
          /\ \/ StatementBegun' <= StatementBegun
             \/ Statements < MaxStatements
      BY <2>3 DEF StatementBegun
    <3>3. FunctionBegun' = 1 /\ StatementBegun' \in {0, 1}
      BY <2>2 DEF FunctionBegun, StatementBegun
    <3>4. Statements' = Statements /\ Statements \in Nat
      BY <1>2, <2>1 DEF Statements
    <3>5. Len(decls') + FunctionBegun' <= MaxFunctions
      BY <1>1, <1>2, <2>1, <3>1, <3>3 DEF Counts
    <3>6. Statements' + StatementBegun' <= MaxStatements
      <4>1. /\ Statements + StatementBegun <= MaxStatements
            /\ MaxStatements \in Nat /\ StatementBegun \in Nat
        BY <1>1, <1>2 DEF Counts
      <4>2. PICK n \in {0, 1} : n = StatementBegun'
        BY <3>3
      <4>3. n <= StatementBegun \/ Statements < MaxStatements
        BY <3>2, <4>2, Zenon
      <4>4. Statements + n <= MaxStatements
        BY <3>4, <4>1, <4>3
      <4>. QED
        BY <3>4, <4>2, <4>4, Zenon
    <3>. QED
      BY <3>5, <3>6 DEF Counts
  <2>. QED
    BY <2>4, <2>5 DEF ParserInv
<1>6. CASE Pushes
  <2>1. /\ pc \in InStatement /\ pc' = "Body" /\ read' = Append(read, ";")
        /\ ";" \in Token /\ body' = Append(body, stmt) /\ stmt' = NoStatement
        /\ UNCHANGED <<stop, decls>>
    BY <1>6 DEF Pushes, Take, InStatement
  <2>2. stmt \in Statement
    BY <1>1, <2>1 DEF ParserTypes
  <2>3. body' \in Seq(Statement) /\ Len(body') = Len(body) + 1
    BY <1>1, <2>1, <2>2, OneLonger DEF ParserTypes
  <2>4. ParserTypes'
    BY <1>1, <1>3, <2>1, <2>3 DEF ParserTypes, InStatement
  <2>5. Counts'
    <3>1. FunctionBegun = 1 /\ StatementBegun = 1
      BY <2>1 DEF FunctionBegun, StatementBegun
    <3>2. Statements' = Len(body) + 1 + Size(decls)
      BY <2>1, <2>3 DEF Statements
    <3>3. FunctionBegun' = 1 /\ StatementBegun' = 0
      BY <2>1 DEF FunctionBegun, StatementBegun, InStatement
    <3>4. Len(decls') + FunctionBegun' <= MaxFunctions
      BY <1>1, <1>2, <2>1, <3>1, <3>3 DEF Counts
    <3>5. Len(body) + Size(decls) + 1 <= MaxStatements
      BY <1>1, <1>2, <3>1 DEF Counts, Statements
    <3>6. Statements' + StatementBegun' <= MaxStatements
      BY <1>1, <1>2, <3>2, <3>3, <3>5
    <3>. QED
      BY <3>4, <3>6 DEF Counts
  <2>. QED
    BY <2>4, <2>5 DEF ParserInv
<1>7. CASE EndsFunction
  <2>1. /\ pc = "Body" /\ pc' = "Parse" /\ read' = Append(read, "}")
        /\ "}" \in Token /\ decls' = Append(decls, body) /\ body' = <<>>
        /\ UNCHANGED <<stop, stmt>>
    BY <1>7 DEF EndsFunction, Take
  <2>2. Len(body) <= MaxStatements /\ body \in Seq(Statement)
    <3>1. body \in Seq(Statement)
      BY <1>1 DEF ParserTypes
    <3>2. Len(body) <= MaxStatements
      BY <1>1, <1>2 DEF Counts, Statements
    <3>. QED
      BY <3>1, <3>2
  <2>3. body \in Bodies
    BY <2>2, BodiesFit
  <2>4. decls' \in Seq(Bodies) /\ Len(decls') = Len(decls) + 1
    BY <1>1, <2>1, <2>3, OneLonger DEF ParserTypes
  <2>5. body' \in Seq(Statement) /\ Len(body') = 0
    <3>1. <<>> \in Seq(Statement) /\ Len(<<>>) = 0
      OBVIOUS
    <3>. QED
      BY <2>1, <3>1
  <2>6. ParserTypes'
    BY <1>1, <1>3, <2>1, <2>4, <2>5 DEF ParserTypes, InStatement
  <2>7. Size(decls') = Size(decls) + Len(body)
    BY <1>2, <2>1, <2>2, SizeOfMore
  <2>8. Counts'
    <3>1. FunctionBegun = 1 /\ StatementBegun = 0
      BY <2>1 DEF FunctionBegun, StatementBegun, InStatement
    <3>2. Statements' = Size(decls) + Len(body)
      BY <1>2, <2>5, <2>7 DEF Statements
    <3>3. FunctionBegun' = 0 /\ StatementBegun' = 0
      BY <2>1 DEF FunctionBegun, StatementBegun, Heading, InStatement
    <3>. QED
      BY <1>1, <1>2, <2>4, <3>1, <3>2, <3>3 DEF Counts, Statements
  <2>. QED
    BY <2>6, <2>8 DEF ParserInv
<1>. QED
  BY <1>4, <1>5, <1>6, <1>7, Moves
\* The texts of the functions that are complete, and of those with the one
\* that is open as far as its statements are.
Complete == UnitSpellings(decls)

Opened == Then(Complete, Then({Signature}, BodySpellings(body)))

\* The statements that have an expression, and what stands before it.
Led == {VarDecl(TRUE), Assignment("name"), Assignment("return")}

Lead(s) ==
  IF s = VarDecl(TRUE) THEN <<"type", "identifier", "=">>
  ELSE IF s = Assignment("name") THEN <<"identifier", "=">>
  ELSE <<"return">>

TextOfUnit ==
  /\ pc \in {"Parse", "Accepted"} => read \in Complete
  /\ pc = "Name" => read \in Then(Complete, {<<"type">>})
  /\ pc = "LParen" => read \in Then(Complete, {<<"type", "identifier">>})
  /\ pc = "RParen" => read \in Then(Complete, {<<"type", "identifier", "(">>})
  /\ pc = "LBrace" => read \in Then(Complete, {<<"type", "identifier", "(", ")">>})
  /\ pc \in {"Parse"} \cup Heading => body = <<>>

TextOfBody ==
  /\ pc = "Body" => read \in Opened
  /\ pc = "VarName" => read \in Then(Opened, {<<"type">>})
  /\ pc = "VarInit" => read \in Then(Opened, {<<"type", "identifier">>})
  /\ pc = "Equals" => read \in Then(Opened, {<<"identifier">>})
  /\ pc = "Expr" => read \in Then(Opened, {Lead(stmt)})
  /\ pc = "Semicolon" =>
       read \in Then(Opened, {Append(Lead(stmt), e) : e \in Expressions})
  /\ pc \in {"VarName", "VarInit"} => stmt = VarDecl(FALSE)
  /\ pc = "Equals" => stmt = Assignment("name")
  /\ pc \in {"Expr", "Semicolon"} => stmt \in Led

TextInv == TextOfUnit /\ TextOfBody

\* The three kinds of statement with an expression are not the fourth.
LEMMA StatementsDiffer ==
  /\ Led \subseteq Statement /\ VarDecl(FALSE) \in Statement
  /\ VarDecl(FALSE) \notin Led
  /\ VarDecl(TRUE) # Assignment("name") /\ VarDecl(TRUE) # Assignment("return")
  /\ Assignment("name") # Assignment("return")
<1>1. /\ \A b, l : VarDecl(b) # Assignment(l)
      /\ VarDecl(TRUE) # VarDecl(FALSE)
      /\ Assignment("name") # Assignment("return")
  <2>1. \A b, l : VarDecl(b).node = "VarDecl" /\ Assignment(l).node = "AssignmentExpr"
    BY DEF VarDecl, Assignment
  <2>2. /\ VarDecl(TRUE).init = TRUE /\ VarDecl(FALSE).init = FALSE
        /\ Assignment("name").lhs = "name" /\ Assignment("return").lhs = "return"
    BY DEF VarDecl, Assignment
  <2>3. \A b, l : VarDecl(b) # Assignment(l)
    BY <2>1
  <2>. QED
    BY <2>2, <2>3
<1>2. /\ VarDecl(TRUE) \in Statement /\ VarDecl(FALSE) \in Statement
      /\ Assignment("name") \in Statement /\ Assignment("return") \in Statement
  BY DEF Statement
<1>. QED
  BY <1>1, <1>2 DEF Led

\* Short texts, one token longer each.
Grows(q, x, r) == Append(q, x) = r

\* The texts of up to five tokens, one token longer each.
LEMMA TokenByToken ==
  /\ \A a \in Token : Grows(<<>>, a, <<a>>)
  /\ \A a, b \in Token : Grows(<<a>>, b, <<a, b>>)
  /\ \A a, b, c \in Token : Grows(<<a, b>>, c, <<a, b, c>>)
  /\ \A a, b, c, d \in Token : Grows(<<a, b, c>>, d, <<a, b, c, d>>)
  /\ \A a, b, c, d, e \in Token : Grows(<<a, b, c, d>>, e, <<a, b, c, d, e>>)
  /\ \A a \in Token : <<a>> \in Seq(Token)
  /\ \A a, b \in Token : <<a, b>> \in Seq(Token)
  /\ \A a, b, c \in Token : <<a, b, c>> \in Seq(Token)
  /\ \A a, b, c, d \in Token : <<a, b, c, d>> \in Seq(Token)
  /\ \A a, b, c, d, e \in Token : <<a, b, c, d, e>> \in Seq(Token)
<1>0. ASSUME NEW q \in Seq(Token), NEW r \in Seq(Token), NEW x \in Token,
             Len(r) = Len(q) + 1, r[Len(q) + 1] = x,
             \A k \in 1 .. Len(q) : r[k] = q[k]
      PROVE  Grows(q, x, r)
  BY <1>0 DEF Grows
<1>1. ASSUME NEW a \in Token, NEW b \in Token, NEW c \in Token, NEW d \in Token,
             NEW e \in Token
      PROVE  /\ <<a>> \in Seq(Token) /\ <<a, b>> \in Seq(Token)
             /\ <<a, b, c>> \in Seq(Token) /\ <<a, b, c, d>> \in Seq(Token)
             /\ <<a, b, c, d, e>> \in Seq(Token)
             /\ Grows(<<>>, a, <<a>>) /\ Grows(<<a>>, b, <<a, b>>)
             /\ Grows(<<a, b>>, c, <<a, b, c>>)
             /\ Grows(<<a, b, c>>, d, <<a, b, c, d>>)
             /\ Grows(<<a, b, c, d>>, e, <<a, b, c, d, e>>)
  <2> DEFINE p0 == <<>>
             p1 == <<a>>
             p2 == <<a, b>>
             p3 == <<a, b, c>>
             p4 == <<a, b, c, d>>
             p5 == <<a, b, c, d, e>>
  <2>1. /\ p0 \in Seq(Token) /\ Len(p0) = 0
        /\ p1 \in Seq(Token) /\ Len(p1) = 1 /\ p1[1] = a
        /\ p2 \in Seq(Token) /\ Len(p2) = 2 /\ p2[1] = a /\ p2[2] = b
        /\ p3 \in Seq(Token) /\ Len(p3) = 3 /\ p3[1] = a /\ p3[2] = b
        /\ p3[3] = c
        /\ p4 \in Seq(Token) /\ Len(p4) = 4 /\ p4[1] = a /\ p4[2] = b
        /\ p4[3] = c /\ p4[4] = d
        /\ p5 \in Seq(Token) /\ Len(p5) = 5 /\ p5[1] = a /\ p5[2] = b
        /\ p5[3] = c /\ p5[4] = d /\ p5[5] = e
    OBVIOUS
  <2>. HIDE DEF p0, p1, p2, p3, p4, p5
  <2>2. Grows(p0, a, p1)
    <3>1. /\ \A k \in 1 .. Len(p0) : p1[k] = p0[k]
          /\ Len(p1) = Len(p0) + 1 /\ p1[Len(p0) + 1] = a
      BY <2>1
    <3>. QED
      BY <1>0, <2>1, <3>1, Zenon
  <2>3. Grows(p1, b, p2)
    <3>1. /\ \A k \in 1 .. Len(p1) : p2[k] = p1[k]
          /\ Len(p2) = Len(p1) + 1 /\ p2[Len(p1) + 1] = b
      BY <2>1
    <3>. QED
      BY <1>0, <2>1, <3>1, Zenon
  <2>4. Grows(p2, c, p3)
    <3>1. /\ \A k \in 1 .. Len(p2) : p3[k] = p2[k]
          /\ Len(p3) = Len(p2) + 1 /\ p3[Len(p2) + 1] = c
      BY <2>1
    <3>. QED
      BY <1>0, <2>1, <3>1, Zenon
  <2>5. Grows(p3, d, p4)
    <3>1. /\ \A k \in 1 .. Len(p3) : p4[k] = p3[k]
          /\ Len(p4) = Len(p3) + 1 /\ p4[Len(p3) + 1] = d
      BY <2>1
    <3>. QED
      BY <1>0, <2>1, <3>1, Zenon
  <2>6. Grows(p4, e, p5)
    <3>1. /\ \A k \in 1 .. Len(p4) : p5[k] = p4[k]
          /\ Len(p5) = Len(p4) + 1 /\ p5[Len(p4) + 1] = e
      BY <2>1
    <3>. QED
      BY <1>0, <2>1, <3>1, Zenon
  <2>. QED
    BY <2>1, <2>2, <2>3, <2>4, <2>5, <2>6, Zenon DEF p0, p1, p2, p3, p4, p5
<1>. QED
  BY <1>1, Zenon

\* A lead, an expression and a semicolon spell the statement.
LEMMA LeadSpells ==
  ASSUME NEW s \in Led, NEW e \in Expressions
  PROVE  /\ Lead(s) \in Seq(Token) /\ Append(Lead(s), e) \in Seq(Token)
         /\ Append(Append(Lead(s), e), ";") \in Spellings(s)
<1>0. /\ "type" \in Token /\ "identifier" \in Token /\ "=" \in Token
      /\ "return" \in Token /\ ";" \in Token /\ e \in Token
  BY DEF Token, Marks, Expressions
<1>1. CASE s = VarDecl(TRUE)
  <2>1. Lead(s) = <<"type", "identifier", "=">>
    BY <1>1 DEF Lead
  <2>2. <<"type", "identifier", "=">> \in Seq(Token)
    BY <1>0, TokenByToken, Zenon
  <2>3. Grows(<<"type", "identifier", "=">>, e, <<"type", "identifier", "=", e>>)
    BY <1>0, TokenByToken, Zenon
  <2>4. Grows(<<"type", "identifier", "=", e>>, ";", <<"type", "identifier", "=", e, ";">>)
    BY <1>0, TokenByToken, Zenon
  <2>5. <<"type", "identifier", "=", e, ";">> \in Spellings(s)
    BY <1>1, StatementsDiffer DEF Spellings, Led
  <2>6. Append(<<"type", "identifier", "=">>, e) \in Seq(Token)
    BY <1>0, <2>2, OneLonger
  <2>. QED
    BY <2>1, <2>2, <2>3, <2>4, <2>5, <2>6, Zenon DEF Grows
<1>2. CASE s = Assignment("name")
  <2>1. Lead(s) = <<"identifier", "=">>
    BY <1>2, StatementsDiffer DEF Lead
  <2>2. <<"identifier", "=">> \in Seq(Token)
    BY <1>0, TokenByToken, Zenon
  <2>3. Grows(<<"identifier", "=">>, e, <<"identifier", "=", e>>)
    BY <1>0, TokenByToken, Zenon
  <2>4. Grows(<<"identifier", "=", e>>, ";", <<"identifier", "=", e, ";">>)
    BY <1>0, TokenByToken, Zenon
  <2>5. <<"identifier", "=", e, ";">> \in Spellings(s)
    BY <1>2, StatementsDiffer DEF Spellings, Led
  <2>6. Append(<<"identifier", "=">>, e) \in Seq(Token)
    BY <1>0, <2>2, OneLonger
  <2>. QED
    BY <2>1, <2>2, <2>3, <2>4, <2>5, <2>6, Zenon DEF Grows
<1>3. CASE s = Assignment("return")
  <2>1. Lead(s) = <<"return">>
    BY <1>3, StatementsDiffer DEF Lead
  <2>2. <<"return">> \in Seq(Token)
    BY <1>0, TokenByToken, Zenon
  <2>3. Grows(<<"return">>, e, <<"return", e>>)
    BY <1>0, TokenByToken, Zenon
  <2>4. Grows(<<"return", e>>, ";", <<"return", e, ";">>)
    BY <1>0, TokenByToken, Zenon
  <2>5. <<"return", e, ";">> \in Spellings(s)
    BY <1>3, StatementsDiffer DEF Spellings, Led
  <2>6. Append(<<"return">>, e) \in Seq(Token)
    BY <1>0, <2>2, OneLonger
  <2>. QED
    BY <2>1, <2>2, <2>3, <2>4, <2>5, <2>6, Zenon DEF Grows
<1>. QED
  BY <1>1, <1>2, <1>3 DEF Led
\* A token more on a text that is a fixed one after others.
LEMMA TokenAfter ==
  ASSUME NEW A \in Texts, NEW q \in Seq(Token), NEW t \in Token, NEW p,
         Grows(q, t, p), NEW r \in Then(A, {q})
  PROVE  Append(r, t) \in Then(A, {p})
<1>1. {q} \in Texts
  BY DEF Texts
<1>2. \A b \in {q} : Append(b, t) \in {p}
  BY DEF Grows
<1>. QED
  BY <1>1, <1>2, ThenToken

\* The first token after a language of complete texts.
LEMMA FirstToken ==
  ASSUME NEW A \in Texts, NEW t \in Token, NEW r \in A
  PROVE  Append(r, t) \in Then(A, {<<t>>})
<1>1. r \in Then(A, {<<>>})
  BY ThenNothing
<1>2. Grows(<<>>, t, <<t>>) /\ <<>> \in Seq(Token)
  <2>1. <<>> \in Seq(Token)
    OBVIOUS
  <2>. QED
    BY <2>1, TokenByToken, Zenon
<1>. QED
  BY <1>1, <1>2, TokenAfter

\* The texts of the tree so far are sequences of tokens.
LEMMA TextsOfTree ==
  ASSUME ParserTypes
  PROVE  /\ Complete \in Texts /\ Opened \in Texts
         /\ BodySpellings(body) \in Texts /\ {Signature} \in Texts
         /\ Then({Signature}, BodySpellings(body)) \in Texts
<1>1. body \in Seq(Statement) /\ decls \in Seq(Seq(Statement))
  BY UnitsAreBodies DEF ParserTypes
<1>2. VarDecl(FALSE) \in Statement /\ <<>> \in Seq(Statement)
  <2>1. <<>> \in Seq(Statement)
    OBVIOUS
  <2>. QED
    BY <2>1, StatementsDiffer
<1>3. Complete \in Texts
  BY <1>1, <1>2, UnitGrows DEF Complete
<1>4. BodySpellings(body) \in Texts
  BY <1>1, <1>2, BodyGrows
<1>5. {Signature} \in Texts
  <2>1. Signature \in Seq(Token)
    <3>1. /\ "type" \in Token /\ "identifier" \in Token /\ "(" \in Token
          /\ ")" \in Token /\ "{" \in Token
      BY DEF Token, Marks
    <3>. QED
      BY <3>1, TokenByToken, Zenon DEF Signature
  <2>. QED
    BY <2>1 DEF Texts
<1>6. Then({Signature}, BodySpellings(body)) \in Texts
  BY <1>4, <1>5, ThenTyped
<1>7. Opened \in Texts
  BY <1>3, <1>6, ThenTyped DEF Opened
<1>. QED
  BY <1>3, <1>4, <1>5, <1>6, <1>7

\* Nothing has been read, and the empty tree spells it.
LEMMA TextBegins == Init => TextInv
<1> SUFFICES ASSUME Init
             PROVE  TextInv
  OBVIOUS
<1>1. pc = "Parse" /\ read = <<>> /\ body = <<>> /\ decls = <<>>
  BY DEF Init
<1>2. UnitSpellings(<<>>) = {<<>>}
  <2>1. <<>> \in Seq(Seq(Statement)) /\ <<>> \in Seq(Statement)
    OBVIOUS
  <2>. QED
    BY <2>1, UnitGrows
<1>3. read \in Complete
  BY <1>1, <1>2 DEF Complete
<1>4. TextOfUnit
  BY <1>1, <1>3 DEF TextOfUnit, Heading
<1>5. TextOfBody
  BY <1>1 DEF TextOfBody
<1>. QED
  BY <1>4, <1>5 DEF TextInv
\* What is read and what is built stay together, token by token.
LEMMA TextStep == ParserInv /\ TextInv /\ Next => TextInv'
<1> SUFFICES ASSUME ParserTypes, TextOfUnit, TextOfBody, Next
             PROVE  TextInv'
  BY DEF ParserInv, TextInv
<1>0. /\ Complete \in Texts /\ Opened \in Texts
      /\ BodySpellings(body) \in Texts /\ {Signature} \in Texts
      /\ Then({Signature}, BodySpellings(body)) \in Texts
  BY TextsOfTree
<1>t. /\ {"type", "return", "identifier", "constant", "(", ")", "{", "}",
           "=", ";"} \subseteq Token
      /\ "type" \in Token /\ "identifier" \in Token /\ "(" \in Token
      /\ ")" \in Token /\ "{" \in Token /\ "=" \in Token /\ ";" \in Token
      /\ "return" \in Token /\ "}" \in Token /\ Expressions \subseteq Token
  BY DEF Token, Marks, Expressions
<1>s. body \in Seq(Statement) /\ decls \in Seq(Seq(Statement))
  BY UnitsAreBodies DEF ParserTypes
<1>1. CASE Ended
  <2>1. /\ pc' \in {"Accepted", "Rejected"} /\ (pc' = "Accepted" => pc = "Parse")
        /\ UNCHANGED <<read, body, decls>>
    BY <1>1 DEF Ended
  <2>2. Complete' = Complete
    BY <2>1 DEF Complete
  <2>3. TextOfUnit'
    BY <2>1, <2>2 DEF TextOfUnit, Heading
  <2>4. TextOfBody'
    BY <2>1 DEF TextOfBody
  <2>. QED
    BY <2>3, <2>4 DEF TextInv
<1>2. CASE Pushes
  <2>1. /\ pc \in {"VarInit", "Semicolon"} /\ pc' = "Body" /\ read' = Append(read, ";")
        /\ body' = Append(body, stmt) /\ decls' = decls
    BY <1>2 DEF Pushes, Take
  <2>2. stmt \in Statement
    BY <2>1 DEF ParserTypes, InStatement
  <2>3. /\ Spellings(stmt) \in Texts
        /\ BodySpellings(body') = Then(BodySpellings(body), Spellings(stmt))
    BY <1>s, <2>1, <2>2, BodyGrows, SpellingsTyped
  <2>4. Append(read, ";") \in Then(Opened, Spellings(stmt))
    <3>1. CASE pc = "VarInit"
      <4>1. stmt = VarDecl(FALSE) /\ read \in Then(Opened, {<<"type", "identifier">>})
        BY <3>1 DEF TextOfBody
      <4>2. /\ Grows(<<"type", "identifier">>, ";", <<"type", "identifier", ";">>)
            /\ <<"type", "identifier">> \in Seq(Token)
        BY <1>t, TokenByToken, Zenon
      <4>3. Spellings(stmt) = {<<"type", "identifier", ";">>}
        BY <4>1 DEF Spellings
      <4>. QED
        BY <1>0, <1>t, <4>1, <4>2, <4>3, TokenAfter
    <3>2. CASE pc = "Semicolon"
      <4> DEFINE B == {Append(Lead(stmt), e) : e \in Expressions}
      <4>1. stmt \in Led /\ read \in Then(Opened, B)
        BY <3>2 DEF TextOfBody
      <4>2. B \in Texts
        BY <4>1, LeadSpells DEF Texts
      <4>3. \A b \in B : Append(b, ";") \in Spellings(stmt)
        BY <4>1, LeadSpells
      <4>. HIDE DEF B
      <4>. QED
        BY <1>0, <1>t, <4>1, <4>2, <4>3, ThenToken
    <3>. QED
      BY <2>1, <3>1, <3>2
  <2>5. Opened' = Then(Opened, Spellings(stmt))
    <3>1. Opened' = Then(Complete, Then({Signature}, BodySpellings(body')))
      BY <2>1 DEF Opened, Complete
    <3>2. Then({Signature}, Then(BodySpellings(body), Spellings(stmt)))
            = Then(Then({Signature}, BodySpellings(body)), Spellings(stmt))
      BY <1>0, <2>3, ThenAssociates
    <3>3. Then(Complete, Then(Then({Signature}, BodySpellings(body)), Spellings(stmt)))
            = Then(Opened, Spellings(stmt))
      BY <1>0, <2>3, ThenAssociates DEF Opened
    <3>. QED
      BY <2>3, <3>1, <3>2, <3>3, Zenon
  <2>6. read' \in Opened'
    BY <2>1, <2>4, <2>5, Zenon
  <2>7. TextOfUnit'
    BY <2>1 DEF TextOfUnit, Heading
  <2>8. TextOfBody'
    BY <2>1, <2>6 DEF TextOfBody
  <2>. QED
    BY <2>7, <2>8 DEF TextInv
<1>3. CASE EndsFunction
  <2>1. /\ pc = "Body" /\ pc' = "Parse" /\ read' = Append(read, "}")
        /\ decls' = Append(decls, body) /\ body' = <<>>
    BY <1>3 DEF EndsFunction, Take
  <2>2. Append(read, "}") \in Then(Opened, {<<"}">>})
    <3>1. read \in Opened
      BY <2>1 DEF TextOfBody
    <3>. QED
      BY <1>0, <1>t, <3>1, FirstToken
  <2>3. Complete' = Then(Complete, FunctionSpellings(body))
    BY <1>s, <2>1, UnitGrows DEF Complete
  <2>4. Then(Opened, {<<"}">>}) = Then(Complete, FunctionSpellings(body))
    <3>1. {<<"}">>} \in Texts
      <4>1. <<"}">> \in Seq(Token)
        BY <1>t, TokenByToken, Zenon
      <4>. QED
        BY <4>1 DEF Texts
    <3>2. Then(Opened, {<<"}">>})
            = Then(Complete, Then(Then({Signature}, BodySpellings(body)), {<<"}">>}))
      <4> DEFINE F == Then({Signature}, BodySpellings(body))
                 R == {<<"}">>}
      <4>1. Complete \in Texts /\ F \in Texts /\ R \in Texts
        BY <1>0, <3>1
      <4>2. Opened = Then(Complete, F)
        BY DEF Opened
      <4>. HIDE DEF F, R
      <4>3. Then(Then(Complete, F), R) = Then(Complete, Then(F, R))
        BY <4>1, ThenAssociates
      <4>. QED
        BY <4>2, <4>3, Zenon DEF F, R
    <3>. QED
      BY <3>2 DEF FunctionSpellings
  <2>5. read' \in Complete'
    BY <2>1, <2>2, <2>3, <2>4, Zenon
  <2>6. TextOfUnit'
    BY <2>1, <2>5 DEF TextOfUnit, Heading
  <2>7. TextOfBody'
    BY <2>1 DEF TextOfBody
  <2>. QED
    BY <2>6, <2>7 DEF TextInv
<1>4. CASE MovesOn
  <2>1. UNCHANGED <<body, decls>>
    BY <1>4 DEF MovesOn, Takes
  <2>2. Complete' = Complete /\ Opened' = Opened
    BY <2>1 DEF Complete, Opened
  <2>3. CASE Takes("Parse", "type", "Name") /\ stmt' = stmt
    <3>1. pc = "Parse" /\ pc' = "Name" /\ read' = Append(read, "type")
      BY <2>3 DEF Takes, Take
    <3>2. read \in Complete
      BY <3>1 DEF TextOfUnit
    <3>4. read' \in Then(Complete, {<<"type">>})
      BY <1>0, <1>t, <3>1, <3>2, FirstToken
    <3>5. TextOfUnit'
      BY <2>1, <2>2, <3>1, <3>4 DEF TextOfUnit, Heading
    <3>6. TextOfBody'
      BY <3>1 DEF TextOfBody
    <3>. QED
      BY <3>5, <3>6 DEF TextInv
  <2>4. CASE Takes("Name", "identifier", "LParen") /\ stmt' = stmt
    <3>1. pc = "Name" /\ pc' = "LParen" /\ read' = Append(read, "identifier")
      BY <2>4 DEF Takes, Take
    <3>2. read \in Then(Complete, {<<"type">>})
      BY <3>1 DEF TextOfUnit
    <3>3. /\ Grows(<<"type">>, "identifier", <<"type", "identifier">>)
          /\ <<"type">> \in Seq(Token)
      BY <1>t, TokenByToken, Zenon
    <3>4. read' \in Then(Complete, {<<"type", "identifier">>})
      BY <1>0, <1>t, <3>1, <3>2, <3>3, TokenAfter
    <3>5. TextOfUnit'
      BY <2>1, <2>2, <3>1, <3>4 DEF TextOfUnit, Heading
    <3>6. TextOfBody'
      BY <3>1 DEF TextOfBody
    <3>. QED
      BY <3>5, <3>6 DEF TextInv
  <2>5. CASE Takes("LParen", "(", "RParen") /\ stmt' = stmt
    <3>1. pc = "LParen" /\ pc' = "RParen" /\ read' = Append(read, "(")
      BY <2>5 DEF Takes, Take
    <3>2. read \in Then(Complete, {<<"type", "identifier">>})
      BY <3>1 DEF TextOfUnit
    <3>3. /\ Grows(<<"type", "identifier">>, "(", <<"type", "identifier", "(">>)
          /\ <<"type", "identifier">> \in Seq(Token)
      BY <1>t, TokenByToken, Zenon
    <3>4. read' \in Then(Complete, {<<"type", "identifier", "(">>})
      BY <1>0, <1>t, <3>1, <3>2, <3>3, TokenAfter
    <3>5. TextOfUnit'
      BY <2>1, <2>2, <3>1, <3>4 DEF TextOfUnit, Heading
    <3>6. TextOfBody'
      BY <3>1 DEF TextOfBody
    <3>. QED
      BY <3>5, <3>6 DEF TextInv
  <2>6. CASE Takes("RParen", ")", "LBrace") /\ stmt' = stmt
    <3>1. pc = "RParen" /\ pc' = "LBrace" /\ read' = Append(read, ")")
      BY <2>6 DEF Takes, Take
    <3>2. read \in Then(Complete, {<<"type", "identifier", "(">>})
      BY <3>1 DEF TextOfUnit
    <3>3. /\ Grows(<<"type", "identifier", "(">>, ")", <<"type", "identifier", "(", ")">>)
          /\ <<"type", "identifier", "(">> \in Seq(Token)
      BY <1>t, TokenByToken, Zenon
    <3>4. read' \in Then(Complete, {<<"type", "identifier", "(", ")">>})
      BY <1>0, <1>t, <3>1, <3>2, <3>3, TokenAfter
    <3>5. TextOfUnit'
      BY <2>1, <2>2, <3>1, <3>4 DEF TextOfUnit, Heading
    <3>6. TextOfBody'
      BY <3>1 DEF TextOfBody
    <3>. QED
      BY <3>5, <3>6 DEF TextInv
  <2>7. CASE Takes("LBrace", "{", "Body") /\ stmt' = stmt
    <3>1. pc = "LBrace" /\ pc' = "Body" /\ read' = Append(read, "{")
      BY <2>7 DEF Takes, Take
    <3>2. /\ read \in Then(Complete, {<<"type", "identifier", "(", ")">>})
          /\ body = <<>>
      BY <3>1 DEF TextOfUnit, Heading
    <3>3. /\ Grows(<<"type", "identifier", "(", ")">>, "{", Signature)
          /\ <<"type", "identifier", "(", ")">> \in Seq(Token)
      BY <1>t, TokenByToken, Zenon DEF Signature
    <3>4. read' \in Then(Complete, {Signature})
      BY <1>0, <1>t, <3>1, <3>2, <3>3, TokenAfter
    <3>5. BodySpellings(body) = {<<>>}
      BY <1>s, <3>2, StatementsDiffer, BodyGrows
    <3>6. Then({Signature}, BodySpellings(body)) = {Signature}
      BY <1>0, <3>5, ThenNothing
    <3>7. read' \in Opened'
      BY <2>2, <3>4, <3>6, Zenon DEF Opened
    <3>8. TextOfUnit'
      BY <3>1 DEF TextOfUnit, Heading
    <3>9. TextOfBody'
      BY <3>1, <3>7 DEF TextOfBody
    <3>. QED
      BY <3>8, <3>9 DEF TextInv
  <2>8. CASE Takes("VarName", "identifier", "VarInit") /\ stmt' = stmt
    <3>1. pc = "VarName" /\ pc' = "VarInit" /\ read' = Append(read, "identifier")
      BY <2>8 DEF Takes, Take
    <3>2. read \in Then(Opened, {<<"type">>})
      BY <3>1 DEF TextOfBody
    <3>3. /\ Grows(<<"type">>, "identifier", <<"type", "identifier">>)
          /\ <<"type">> \in Seq(Token)
      BY <1>t, TokenByToken, Zenon
    <3>4. read' \in Then(Opened, {<<"type", "identifier">>})
      BY <1>0, <1>t, <3>1, <3>2, <3>3, TokenAfter
    <3>5. TextOfUnit'
      BY <3>1 DEF TextOfUnit, Heading
    <3>6. TextOfBody'
      BY <2>2, <2>8, <3>1, <3>4 DEF TextOfBody, Lead, Led
    <3>. QED
      BY <3>5, <3>6 DEF TextInv
  <2>9. CASE Takes("Body", "type", "VarName") /\ stmt' = VarDecl(FALSE)
    <3>1. pc = "Body" /\ pc' = "VarName" /\ read' = Append(read, "type")
      BY <2>9 DEF Takes, Take
    <3>2. read \in Opened
      BY <3>1 DEF TextOfBody
    <3>4. read' \in Then(Opened, {<<"type">>})
      BY <1>0, <1>t, <3>1, <3>2, FirstToken
    <3>5. TextOfUnit'
      BY <3>1 DEF TextOfUnit, Heading
    <3>6. TextOfBody'
      BY <2>2, <2>9, <3>1, <3>4 DEF TextOfBody, Lead, Led
    <3>. QED
      BY <3>5, <3>6 DEF TextInv
  <2>10. CASE Takes("Body", "return", "Expr") /\ stmt' = Assignment("return")
    <3>1. pc = "Body" /\ pc' = "Expr" /\ read' = Append(read, "return")
      BY <2>10 DEF Takes, Take
    <3>2. read \in Opened
      BY <3>1 DEF TextOfBody
    <3>4. read' \in Then(Opened, {<<"return">>})
      BY <1>0, <1>t, <3>1, <3>2, FirstToken
    <3>5. TextOfUnit'
      BY <3>1 DEF TextOfUnit, Heading
    <3>6. stmt' = Assignment("return")
      BY <2>10
    <3>7. Lead(Assignment("return")) = <<"return">> /\ Assignment("return") \in Led
      BY StatementsDiffer DEF Lead, Led
    <3>8. read' \in Then(Opened', {Lead(stmt')})
      BY <2>2, <3>4, <3>6, <3>7, Zenon
    <3>9. TextOfBody'
      BY <3>1, <3>6, <3>7, <3>8 DEF TextOfBody
    <3>. QED
      BY <3>5, <3>9 DEF TextInv
  <2>11. CASE Takes("Body", "identifier", "Equals") /\ stmt' = Assignment("name")
    <3>1. pc = "Body" /\ pc' = "Equals" /\ read' = Append(read, "identifier")
      BY <2>11 DEF Takes, Take
    <3>2. read \in Opened
      BY <3>1 DEF TextOfBody
    <3>4. read' \in Then(Opened, {<<"identifier">>})
      BY <1>0, <1>t, <3>1, <3>2, FirstToken
    <3>5. TextOfUnit'
      BY <3>1 DEF TextOfUnit, Heading
    <3>6. TextOfBody'
      BY <2>2, <2>11, <3>1, <3>4 DEF TextOfBody, Lead, Led
    <3>. QED
      BY <3>5, <3>6 DEF TextInv
  <2>12. CASE Takes("Equals", "=", "Expr") /\ stmt' = stmt
    <3>1. pc = "Equals" /\ pc' = "Expr" /\ read' = Append(read, "=")
      BY <2>12 DEF Takes, Take
    <3>2. read \in Then(Opened, {<<"identifier">>})
      BY <3>1 DEF TextOfBody
    <3>3. /\ Grows(<<"identifier">>, "=", <<"identifier", "=">>)
          /\ <<"identifier">> \in Seq(Token)
      BY <1>t, TokenByToken, Zenon
    <3>4. read' \in Then(Opened, {<<"identifier", "=">>})
      BY <1>0, <1>t, <3>1, <3>2, <3>3, TokenAfter
    <3>5. TextOfUnit'
      BY <3>1 DEF TextOfUnit, Heading
    <3>6. stmt' = Assignment("name")
      BY <2>12, <3>1 DEF TextOfBody
    <3>7. Lead(Assignment("name")) = <<"identifier", "=">> /\ Assignment("name") \in Led
      BY StatementsDiffer DEF Lead, Led
    <3>8. read' \in Then(Opened', {Lead(stmt')})
      BY <2>2, <3>4, <3>6, <3>7, Zenon
    <3>9. TextOfBody'
      BY <3>1, <3>6, <3>7, <3>8 DEF TextOfBody
    <3>. QED
      BY <3>5, <3>9 DEF TextInv
  <2>13. CASE Takes("VarInit", "=", "Expr") /\ stmt' = VarDecl(TRUE)
    <3>1. pc = "VarInit" /\ pc' = "Expr" /\ read' = Append(read, "=")
      BY <2>13 DEF Takes, Take
    <3>2. read \in Then(Opened, {<<"type", "identifier">>})
      BY <3>1 DEF TextOfBody
    <3>3. /\ Grows(<<"type", "identifier">>, "=", <<"type", "identifier", "=">>)
          /\ <<"type", "identifier">> \in Seq(Token)
      BY <1>t, TokenByToken, Zenon
    <3>4. read' \in Then(Opened, {<<"type", "identifier", "=">>})
      BY <1>0, <1>t, <3>1, <3>2, <3>3, TokenAfter
    <3>5. TextOfUnit'
      BY <3>1 DEF TextOfUnit, Heading
    <3>6. stmt' = VarDecl(TRUE)
      BY <2>13
    <3>7. Lead(VarDecl(TRUE)) = <<"type", "identifier", "=">> /\ VarDecl(TRUE) \in Led
      BY StatementsDiffer DEF Lead, Led
    <3>8. read' \in Then(Opened', {Lead(stmt')})
      BY <2>2, <3>4, <3>6, <3>7, Zenon
    <3>9. TextOfBody'
      BY <3>1, <3>6, <3>7, <3>8 DEF TextOfBody
    <3>. QED
      BY <3>5, <3>9 DEF TextInv
  <2>14. ASSUME NEW t \in Expressions, Takes("Expr", t, "Semicolon"), stmt' = stmt
        PROVE  TextInv'
    <3>1. pc = "Expr" /\ pc' = "Semicolon" /\ read' = Append(read, t)
      BY <2>14 DEF Takes, Take
    <3>2. read \in Then(Opened, {Lead(stmt)}) /\ stmt \in Led
      BY <3>1 DEF TextOfBody
    <3> DEFINE B == {Append(Lead(stmt), e) : e \in Expressions}
    <3>3. {Lead(stmt)} \in Texts
      BY <3>2, LeadSpells DEF Texts
    <3>4. \A b \in {Lead(stmt)} : Append(b, t) \in B
      BY <2>14
    <3>5. B = B'
      BY <2>14 DEF Lead
    <3>. HIDE DEF B
    <3>6. read' \in Then(Opened, B)
      BY <1>0, <1>t, <3>1, <3>2, <3>3, <3>4, ThenToken
    <3>7. TextOfUnit'
      BY <3>1 DEF TextOfUnit, Heading
    <3>8. read' \in Then(Opened', B')
      BY <2>2, <3>5, <3>6, Zenon
    <3>9. TextOfBody'
      BY <2>14, <3>1, <3>2, <3>8 DEF TextOfBody, B
    <3>. QED
      BY <3>7, <3>9 DEF TextInv
  <2>. QED
    BY <1>4, <2>3, <2>4, <2>5, <2>6, <2>7, <2>8, <2>9, <2>10, <2>11, <2>12, <2>13, <2>14 DEF MovesOn
<1>. QED
  BY <1>1, <1>2, <1>3, <1>4, Moves
\* The whole front end: a module is made of one body, and the parser is left
\* alone by all that comes after it.
Results ==
  /\ module \in {NoModule} \cup (Bodies \X {0})
  /\ status \in {"running", "0", "1"}

FrontInv == ParserInv /\ TextInv /\ DriverInv /\ Results

\* The parser is left alone by the stages after it.
LEMMA ParserKept == ParserInv /\ TextInv /\ UNCHANGED vars => ParserInv' /\ TextInv'
<1> SUFFICES ASSUME ParserInv, TextInv, UNCHANGED vars
             PROVE  ParserInv' /\ TextInv'
  OBVIOUS
<1>1. UNCHANGED <<pc, read, stop, body, stmt, decls>>
  BY DEF vars
<1>2. ParserTypes'
  BY <1>1 DEF ParserInv, ParserTypes
<1>3. Counts'
  <2>1. /\ FunctionBegun' = FunctionBegun /\ StatementBegun' = StatementBegun
        /\ Statements' = Statements
    BY <1>1 DEF FunctionBegun, StatementBegun, Statements
  <2>. QED
    BY <1>1, <2>1 DEF ParserInv, Counts
<1>4. Complete' = Complete /\ Opened' = Opened
  BY <1>1 DEF Complete, Opened
<1>5. TextOfUnit'
  BY <1>1, <1>4 DEF TextInv, TextOfUnit
<1>6. TextOfBody'
  BY <1>1, <1>4 DEF TextInv, TextOfBody, Lead
<1>. QED
  BY <1>2, <1>3, <1>5, <1>6 DEF ParserInv, TextInv

\* The module is made of one body, the status is one of three.
LEMMA ResultsKept == FrontInv /\ [FrontNext]_<<vars, driver>> => Results'
<1> SUFFICES ASSUME FrontInv, [FrontNext]_<<vars, driver>>
             PROVE  Results'
  OBVIOUS
<1>1. Results /\ decls \in Seq(Bodies)
  BY DEF FrontInv, ParserInv, ParserTypes
<1>2. CASE ParseInput \/ UNCHANGED <<vars, driver>>
  BY <1>1, <1>2 DEF ParseInput, driver, Results
<1>3. CASE Argument \/ Arguments \/ Lex \/ Parsed
  BY <1>1, <1>3 DEF Argument, Arguments, Lex, Parsed, Set, Exit, Go, Results
<1>4. CASE Generate
  <2>1. CASE decls = <<>> /\ Exit("1")
    BY <1>1, <2>1 DEF Exit, Results
  <2>2. CASE decls # <<>> /\ module' = <<Head(decls), 0>> /\ status' = status
    <3>1. Head(decls) \in Bodies
      BY <1>1, <2>2
    <3>. QED
      BY <1>1, <2>2, <3>1 DEF Results
  <2>. QED
    BY <1>4, <2>1, <2>2 DEF Generate
<1>5. CASE Emit
  <2>1. module' = module
    BY <1>5 DEF Emit, EmitExe, EmitAsm, EmitIR, EmitAssembly, Exit, Go
  <2>2. status' \in {status, "0", "1"}
    BY <1>5 DEF Emit, EmitExe, EmitAsm, EmitIR, EmitAssembly, Exit, Go
  <2>. QED
    BY <1>1, <2>1, <2>2 DEF Results
<1>6. CASE Link
  BY <1>1, <1>6 DEF Link, Exit, Results
<1>. QED
  BY <1>2, <1>3, <1>4, <1>5, <1>6 DEF FrontNext

\* The invariant of parser and driver together.
LEMMA FrontInvariant == FrontSpec => []FrontInv
<1>1. FrontInit => FrontInv
  <2> SUFFICES ASSUME FrontInit
               PROVE  FrontInv
    OBVIOUS
  <2>1. Init /\ module = NoModule /\ status = "running"
    BY DEF FrontInit
  <2>. QED
    BY <2>1, DriverInit, ParserBegins, TextBegins DEF FrontInv, Results
<1>2. FrontInv /\ [FrontNext]_<<vars, driver>> => FrontInv'
  <2> SUFFICES ASSUME FrontInv, [FrontNext]_<<vars, driver>>
               PROVE  FrontInv'
    OBVIOUS
  <2>1. DriverInv' /\ Results'
    BY DriverStep, ResultsKept DEF FrontInv
  <2>2. Next \/ UNCHANGED vars
    BY DEF FrontNext, ParseInput
  <2>3. ParserInv' /\ TextInv'
    BY <2>2, ParserStep, TextStep, ParserKept DEF FrontInv
  <2>. QED
    BY <2>1, <2>3 DEF FrontInv
<1>. QED
  BY <1>1, <1>2, PTL DEF FrontSpec

\* The syntax tree of an accepted program spells the tokens that were read,
\* whatever the number of functions and statements: no statement is lost, put
\* into another place or function, or taken for one of another kind
\* (ParseFunction and ParseStatement of parser.cpp).
THEOREM TreeIsTheInput == FrontSpec => []TreeSpellsInput
<1>1. FrontInv => TreeSpellsInput
  BY DEF FrontInv, TextInv, TextOfUnit, Complete, TreeSpellsInput
<1>. QED
  BY <1>1, FrontInvariant, PTL

\* Parser and driver stay within their types, and the tree within the bounds:
\* what the parser has begun counts for what it has not pushed yet, so that no
\* path through the grammar builds more than it was let in for.
THEOREM FrontTyped == FrontSpec => []FrontTypeOK
<1>1. FrontInv => FrontTypeOK
  <2> SUFFICES ASSUME FrontInv
               PROVE  FrontTypeOK
    OBVIOUS
  <2>1. ParserTypes /\ Counts /\ DriverInv /\ DriverTypes /\ Results
    BY DEF FrontInv, ParserInv, DriverInv
  <2>2. /\ Len(decls) \in Nat /\ Size(decls) \in Nat /\ Len(body) \in Nat
        /\ FunctionBegun \in {0, 1} /\ StatementBegun \in {0, 1}
        /\ body \in Seq(Statement) /\ decls \in Seq(Bodies)
    BY <2>1, UnitsAreBodies, SizeOfMore
    DEF ParserTypes, FunctionBegun, StatementBegun
  <2>3. /\ Len(decls) <= MaxFunctions /\ Size(decls) <= MaxStatements
        /\ Len(body) <= MaxStatements
    BY <2>1, <2>2, ParserAssumption DEF Counts, Statements
  <2>4. body \in Bodies /\ decls \in Units
    BY <2>2, <2>3, BodiesFit, UnitsFit
  <2>5. TypeOK
    BY <2>1, <2>4 DEF TypeOK, ParserTypes, Heading, InStatement
  <2>6. opt \in [{"input", "output", "asm", "exe", "help"} -> BOOLEAN]
    BY <2>1 DEF DriverTypes
  <2>. QED
    BY <2>1, <2>5, <2>6 DEF FrontTypeOK, DriverInv, DriverTypes, Results
<1>. QED
  BY <1>1, FrontInvariant, PTL
-----------------------------------------------------------------------------
(***************************************************************************)
(* Where errors are reported.  What may follow is said for every position  *)
(* of the parser as a language of its own, read from its first token on;   *)
(* whatever makes a sentence of what has been read is in the language of   *)
(* the position that the parser is at.                                     *)
(***************************************************************************)

\* A language of lists that grows on the right grows on the left.
GrowsOnTheRight(S, G, E) ==
  /\ G \in [Seq(S) -> Texts] /\ E \in [S -> Texts] /\ G[<<>>] = {<<>>}
  /\ \A b \in Seq(S), s \in S : G[Append(b, s)] = Then(G[b], E[s])

GrowsOnTheLeft(S, G, E) ==
  \A b \in Seq(S), s \in S : G[<<s>> \o b] = Then(E[s], G[b])

\* By the least length of a list for which it fails.
LEMMA FromLeft ==
  ASSUME NEW S, NEW G, NEW E, GrowsOnTheRight(S, G, E)
  PROVE  GrowsOnTheLeft(S, G, E)
<1> SUFFICES ASSUME NEW b \in Seq(S), NEW s \in S
             PROVE  G[<<s>> \o b] = Then(E[s], G[b])
  BY DEF GrowsOnTheLeft
<1>0. /\ G \in [Seq(S) -> Texts] /\ E \in [S -> Texts] /\ G[<<>>] = {<<>>}
      /\ \A c \in Seq(S), x \in S : G[Append(c, x)] = Then(G[c], E[x])
  BY DEF GrowsOnTheRight
<1> DEFINE Good(c) == G[<<s>> \o c] = Then(E[s], G[c])
           Bad == {n \in Nat : \E c \in Seq(S) : Len(c) = n /\ ~Good(c)}
<1>1. Good(<<>>)
  <2>1. <<s>> \o <<>> = Append(<<>>, s) /\ <<>> \in Seq(S)
    OBVIOUS
  <2>2. G[<<s>> \o <<>>] = Then({<<>>}, E[s])
    BY <1>0, <2>1
  <2>3. E[s] \in Texts
    BY <1>0
  <2>4. Then({<<>>}, E[s]) = E[s] /\ Then(E[s], {<<>>}) = E[s]
    BY <2>3, ThenNothing, NothingThen
  <2>. QED
    BY <1>0, <2>2, <2>4
<1>2. ASSUME NEW c \in Seq(S), NEW x \in S, Good(c)
      PROVE  Good(Append(c, x))
  <2>1. <<s>> \o Append(c, x) = Append(<<s>> \o c, x) /\ <<s>> \o c \in Seq(S)
    OBVIOUS
  <2>2. G[<<s>> \o Append(c, x)] = Then(G[<<s>> \o c], E[x])
    BY <1>0, <2>1
  <2>3. G[<<s>> \o Append(c, x)] = Then(Then(E[s], G[c]), E[x])
    BY <1>2, <2>2
  <2>4. G[c] \in Texts /\ E[s] \in Texts /\ E[x] \in Texts
    BY <1>0
  <2>5. G[<<s>> \o Append(c, x)] = Then(E[s], Then(G[c], E[x]))
    BY <2>3, <2>4, ThenAssociates
  <2>. QED
    BY <1>0, <2>5
<1>3. SUFFICES ASSUME ~Good(b)
               PROVE  FALSE
  OBVIOUS
<1>. HIDE DEF Good
<1>4. Bad \subseteq Nat /\ Len(b) \in Bad
  BY <1>3
<1>5. PICK n \in Bad : \A m \in Bad : <<m, n>> \notin OpToRel(<, Nat)
  BY <1>4, WFMin, NatLessThanWellFounded
<1>6. PICK c \in Seq(S) : Len(c) = n /\ ~Good(c)
  OBVIOUS
<1>7. c # <<>>
  BY <1>1, <1>6
<1>8. PICK front \in Seq(S), x \in S : c = Append(front, x)
  BY <1>7, SequenceEmptyOrAppend
<1>9. ~Good(front)
  BY <1>2, <1>6, <1>8
<1>10. Len(front) \in Bad /\ Len(front) < n /\ n \in Nat /\ Len(front) \in Nat
  <2>1. Len(front) \in Nat /\ Len(c) = Len(front) + 1
    BY <1>8
  <2>. QED
    BY <1>4, <1>6, <1>9, <2>1
<1>11. <<Len(front), n>> \in OpToRel(<, Nat)
  BY <1>10, Zenon DEF OpToRel
<1>. QED
  BY <1>5, <1>10, <1>11

\* A body is a statement and the rest, a unit a function and the rest.
LEMMA BodyFromLeft ==
  ASSUME NEW b \in Seq(Statement), NEW s \in Statement
  PROVE  BodySpellings(<<s>> \o b) = Then(Spellings(s), BodySpellings(b))
<1> DEFINE G == [c \in Seq(Statement) |-> BodySpellings(c)]
           E == [x \in Statement |-> Spellings(x)]
<1>1. G \in [Seq(Statement) -> Texts] /\ E \in [Statement -> Texts]
  BY BodyGrows, SpellingsTyped
<1>2. /\ G[<<>>] = {<<>>} /\ \A c \in Seq(Statement) : G[c] = BodySpellings(c)
      /\ \A x \in Statement : E[x] = Spellings(x)
  <2>1. <<>> \in Seq(Statement)
    OBVIOUS
  <2>. QED
    BY <2>1, BodyGrows
<1>3. ASSUME NEW c \in Seq(Statement), NEW x \in Statement
      PROVE  G[Append(c, x)] = Then(G[c], E[x])
  <2>1. Append(c, x) \in Seq(Statement)
    OBVIOUS
  <2>2. BodySpellings(Append(c, x)) = Then(BodySpellings(c), Spellings(x))
    BY BodyGrows
  <2>. QED
    BY <1>2, <2>1, <2>2
<1>4. <<s>> \o b \in Seq(Statement)
  OBVIOUS
<1>. HIDE DEF G, E
<1>5. /\ \A c \in Seq(Statement), x \in Statement : G[Append(c, x)] = Then(G[c], E[x])
      /\ G[<<>>] = {<<>>}
  BY <1>2, <1>3
<1>6. GrowsOnTheRight(Statement, G, E)
  BY <1>1, <1>5 DEF GrowsOnTheRight
<1>7. GrowsOnTheLeft(Statement, G, E)
  BY <1>6, FromLeft
<1>8. G[<<s>> \o b] = Then(E[s], G[b])
  BY <1>7 DEF GrowsOnTheLeft
<1>. QED
  BY <1>2, <1>4, <1>8

\* The same for the functions of a translation unit.
LEMMA UnitFromLeft ==
  ASSUME NEW d \in Seq(Seq(Statement)), NEW b \in Seq(Statement)
  PROVE  UnitSpellings(<<b>> \o d) = Then(FunctionSpellings(b), UnitSpellings(d))
<1> DEFINE S == Seq(Statement)
           G == [c \in Seq(S) |-> UnitSpellings(c)]
           E == [x \in S |-> FunctionSpellings(x)]
<1>0. <<>> \in S /\ <<>> \in Seq(S)
  OBVIOUS
<1>1. G \in [Seq(S) -> Texts] /\ E \in [S -> Texts]
  BY <1>0, UnitGrows, FunctionTyped
<1>2. /\ G[<<>>] = {<<>>} /\ \A c \in Seq(S) : G[c] = UnitSpellings(c)
      /\ \A x \in S : E[x] = FunctionSpellings(x)
  BY <1>0, UnitGrows
<1>3. ASSUME NEW c \in Seq(S), NEW x \in S
      PROVE  G[Append(c, x)] = Then(G[c], E[x])
  <2>1. Append(c, x) \in Seq(S)
    OBVIOUS
  <2>2. UnitSpellings(Append(c, x)) = Then(UnitSpellings(c), FunctionSpellings(x))
    BY UnitGrows
  <2>. QED
    BY <1>2, <2>1, <2>2
<1>4. <<b>> \o d \in Seq(S)
  OBVIOUS
<1>. HIDE DEF S, G, E
<1>5. /\ \A c \in Seq(S), x \in S : G[Append(c, x)] = Then(G[c], E[x])
      /\ G[<<>>] = {<<>>} /\ b \in S /\ d \in Seq(S)
  BY <1>2, <1>3 DEF S
<1>6. GrowsOnTheRight(S, G, E)
  BY <1>1, <1>5 DEF GrowsOnTheRight
<1>7. GrowsOnTheLeft(S, G, E)
  BY <1>6, FromLeft
<1>8. G[<<b>> \o d] = Then(E[b], G[d])
  BY <1>5, <1>7 DEF GrowsOnTheLeft
<1>. QED
  BY <1>2, <1>4, <1>5, <1>8 DEF S

\* What may follow when the parser is at a check: after the end of a function,
\* inside a body, inside a statement, inside the head of a function.
Starting(t, R) == {<<t>> \o r : r \in R}

RestOfUnit == UNION {UnitSpellings(d) : d \in Seq(Seq(Statement))}

RestOfBody ==
  Then(UNION {BodySpellings(b) : b \in Seq(Statement)},
       Then({<<"}">>}, RestOfUnit))

AtSemicolon == Starting(";", RestOfBody)

AtExpr == UNION {Starting(e, AtSemicolon) : e \in Expressions}

AtEquals == Starting("=", AtExpr)

AtVarInit == Starting("=", AtExpr) \cup Starting(";", RestOfBody)

AtVarName == Starting("identifier", AtVarInit)

AtLBrace == Starting("{", RestOfBody)

AtRParen == Starting(")", AtLBrace)

AtLParen == Starting("(", AtRParen)

AtName == Starting("identifier", AtLParen)

\* A token before a language of texts.
LEMMA StartingTyped ==
  ASSUME NEW t \in Token, NEW R \in Texts
  PROVE  Starting(t, R) \in Texts
<1>1. ASSUME NEW r \in R
      PROVE  <<t>> \o r \in Seq(Token)
  <2>1. r \in Seq(Token) /\ <<t>> \in Seq(Token)
    BY DEF Texts
  <2>. QED
    BY <2>1
<1>. QED
  BY <1>1 DEF Starting, Texts

\* What follows the first token is determined.
LEMMA Started ==
  ASSUME NEW t \in Token, NEW R \in Texts, NEW u \in Token, NEW r \in Seq(Token),
         <<u>> \o r \in Starting(t, R)
  PROVE  u = t /\ r \in R
<1>1. PICK q \in R : <<u>> \o r = <<t>> \o q
  BY DEF Starting
<1>2. q \in Seq(Token)
  BY DEF Texts
<1>3. u = t
  <2>1. (<<u>> \o r)[1] = u /\ (<<t>> \o q)[1] = t
    BY <1>2
  <2>. QED
    BY <1>1, <2>1
<1>4. r = q
  <2>1. Tail(<<u>> \o r) = r /\ Tail(<<t>> \o q) = q
    BY <1>2
  <2>. QED
    BY <1>1, <2>1
<1>. QED
  BY <1>3, <1>4

\* All that may follow are sequences of tokens.
LEMMA RestsTyped ==
  /\ RestOfUnit \in Texts /\ RestOfBody \in Texts
  /\ AtSemicolon \in Texts /\ AtExpr \in Texts /\ AtEquals \in Texts
  /\ AtVarInit \in Texts /\ AtVarName \in Texts
  /\ AtLBrace \in Texts /\ AtRParen \in Texts /\ AtLParen \in Texts
  /\ AtName \in Texts
<1>t. /\ "identifier" \in Token /\ "(" \in Token /\ ")" \in Token /\ "{" \in Token
      /\ "}" \in Token /\ "=" \in Token /\ ";" \in Token /\ Expressions \subseteq Token
  BY DEF Token, Marks, Expressions
<1>0. <<>> \in Seq(Statement) /\ VarDecl(FALSE) \in Statement
  <2>1. <<>> \in Seq(Statement)
    OBVIOUS
  <2>. QED
    BY <2>1, StatementsDiffer
<1>1. RestOfUnit \in Texts
  <2>1. \A d \in Seq(Seq(Statement)) : UnitSpellings(d) \in Texts
    BY <1>0, UnitGrows
  <2>. QED
    BY <2>1 DEF RestOfUnit, Texts
<1>2. RestOfBody \in Texts
  <2>1. \A b \in Seq(Statement) : BodySpellings(b) \in Texts
    BY <1>0, BodyGrows
  <2>2. UNION {BodySpellings(b) : b \in Seq(Statement)} \in Texts
    BY <2>1 DEF Texts
  <2>3. {<<"}">>} \in Texts
    <3>1. <<"}">> \in Seq(Token)
      BY <1>t, TokenByToken, Zenon
    <3>. QED
      BY <3>1 DEF Texts
  <2>4. Then({<<"}">>}, RestOfUnit) \in Texts
    BY <1>1, <2>3, ThenTyped
  <2>. QED
    BY <2>2, <2>4, ThenTyped DEF RestOfBody
<1>3. AtSemicolon \in Texts
  BY <1>t, <1>2, StartingTyped DEF AtSemicolon
<1>4. AtExpr \in Texts
  <2>1. \A e \in Expressions : Starting(e, AtSemicolon) \in Texts
    BY <1>t, <1>3, StartingTyped
  <2>. QED
    BY <2>1 DEF AtExpr, Texts
<1>5. AtEquals \in Texts
  BY <1>t, <1>4, StartingTyped DEF AtEquals
<1>6. AtVarInit \in Texts
  <2>1. Starting("=", AtExpr) \in Texts /\ Starting(";", RestOfBody) \in Texts
    BY <1>t, <1>2, <1>4, StartingTyped
  <2>. QED
    BY <2>1 DEF AtVarInit, Texts
<1>7. AtVarName \in Texts
  BY <1>t, <1>6, StartingTyped DEF AtVarName
<1>8. AtLBrace \in Texts
  BY <1>t, <1>2, StartingTyped DEF AtLBrace
<1>9. AtRParen \in Texts
  BY <1>t, <1>8, StartingTyped DEF AtRParen
<1>10. AtLParen \in Texts
  BY <1>t, <1>9, StartingTyped DEF AtLParen
<1>11. AtName \in Texts
  BY <1>t, <1>10, StartingTyped DEF AtName
<1>. QED
  BY <1>1, <1>2, <1>3, <1>4, <1>5, <1>6, <1>7, <1>8, <1>9, <1>10, <1>11

\* A text that starts with t.
LEMMA InStarting ==
  ASSUME NEW t, NEW R, NEW r \in R
  PROVE  <<t>> \o r \in Starting(t, R)
BY DEF Starting

\* A short text and what follows it, token by token.
Reads(q, x, y) == q \o x = y

\* The texts of up to five tokens, read from the first one on.
LEMMA TokensRead ==
  /\ \A a \in Token, x \in Seq(Token) : Reads(<<a>>, x, <<a>> \o x)
  /\ \A a, b \in Token, x \in Seq(Token) : Reads(<<a, b>>, x, <<a>> \o (<<b>> \o x))
  /\ \A a, b, c \in Token, x \in Seq(Token) :
       Reads(<<a, b, c>>, x, <<a>> \o (<<b>> \o (<<c>> \o x)))
  /\ \A a, b, c, d \in Token, x \in Seq(Token) :
       Reads(<<a, b, c, d>>, x, <<a>> \o (<<b>> \o (<<c>> \o (<<d>> \o x))))
  /\ \A a, b, c, d, e \in Token, x \in Seq(Token) :
       Reads(<<a, b, c, d, e>>, x,
             <<a>> \o (<<b>> \o (<<c>> \o (<<d>> \o (<<e>> \o x)))))
<1>0. ASSUME NEW q \in Seq(Token), NEW t \in Token, NEW p, Grows(q, t, p),
             NEW x \in Seq(Token), NEW y, Reads(q, <<t>> \o x, y)
      PROVE  Reads(p, x, y)
  <2>1. Append(q, t) \o x = q \o (<<t>> \o x)
    OBVIOUS
  <2>. QED
    BY <1>0, <2>1 DEF Grows, Reads
<1>n. \A t \in Token, x \in Seq(Token) : <<t>> \o x \in Seq(Token)
  <2>. TAKE t \in Token, x \in Seq(Token)
  <2>1. <<t>> \in Seq(Token)
    OBVIOUS
  <2>. QED
    BY <2>1
<1>1. \A a \in Token, x \in Seq(Token) : Reads(<<a>>, x, <<a>> \o x)
  BY DEF Reads
<1>2. ASSUME NEW a \in Token, NEW b \in Token,
             NEW x \in Seq(Token)
      PROVE  Reads(<<a, b>>, x, <<a>> \o (<<b>> \o x))
  <2> DEFINE q == <<a>>
             p == <<a, b>>
             y == <<a>> \o (<<b>> \o x)
  <2>1. Grows(q, b, p) /\ q \in Seq(Token)
    BY TokenByToken, Zenon
  <2>2. <<b>> \o x \in Seq(Token)
    BY <1>n
  <2>3. Reads(q, <<b>> \o x, y)
    BY <1>1, <2>2, Zenon
  <2>. HIDE DEF q, p, y
  <2>4. Reads(p, x, y)
    BY <1>0, <2>1, <2>2, <2>3
  <2>. QED
    BY <2>4 DEF p, y
<1>3. ASSUME NEW a \in Token, NEW b \in Token, NEW c \in Token,
             NEW x \in Seq(Token)
      PROVE  Reads(<<a, b, c>>, x, <<a>> \o (<<b>> \o (<<c>> \o x)))
  <2> DEFINE q == <<a, b>>
             p == <<a, b, c>>
             y == <<a>> \o (<<b>> \o (<<c>> \o x))
  <2>1. Grows(q, c, p) /\ q \in Seq(Token)
    BY TokenByToken, Zenon
  <2>2. <<c>> \o x \in Seq(Token)
    BY <1>n
  <2>3. Reads(q, <<c>> \o x, y)
    BY <1>2, <2>2, Zenon
  <2>. HIDE DEF q, p, y
  <2>4. Reads(p, x, y)
    BY <1>0, <2>1, <2>2, <2>3
  <2>. QED
    BY <2>4 DEF p, y
<1>4. ASSUME NEW a \in Token, NEW b \in Token, NEW c \in Token, NEW d \in Token,
             NEW x \in Seq(Token)
      PROVE  Reads(<<a, b, c, d>>, x, <<a>> \o (<<b>> \o (<<c>> \o (<<d>> \o x))))
  <2> DEFINE q == <<a, b, c>>
             p == <<a, b, c, d>>
             y == <<a>> \o (<<b>> \o (<<c>> \o (<<d>> \o x)))
  <2>1. Grows(q, d, p) /\ q \in Seq(Token)
    BY TokenByToken, Zenon
  <2>2. <<d>> \o x \in Seq(Token)
    BY <1>n
  <2>3. Reads(q, <<d>> \o x, y)
    BY <1>3, <2>2, Zenon
  <2>. HIDE DEF q, p, y
  <2>4. Reads(p, x, y)
    BY <1>0, <2>1, <2>2, <2>3
  <2>. QED
    BY <2>4 DEF p, y
<1>5. ASSUME NEW a \in Token, NEW b \in Token, NEW c \in Token, NEW d \in Token, NEW e \in Token,
             NEW x \in Seq(Token)
      PROVE  Reads(<<a, b, c, d, e>>, x, <<a>> \o (<<b>> \o (<<c>> \o (<<d>> \o (<<e>> \o x)))))
  <2> DEFINE q == <<a, b, c, d>>
             p == <<a, b, c, d, e>>
             y == <<a>> \o (<<b>> \o (<<c>> \o (<<d>> \o (<<e>> \o x))))
  <2>1. Grows(q, e, p) /\ q \in Seq(Token)
    BY TokenByToken, Zenon
  <2>2. <<e>> \o x \in Seq(Token)
    BY <1>n
  <2>3. Reads(q, <<e>> \o x, y)
    BY <1>4, <2>2, Zenon
  <2>. HIDE DEF q, p, y
  <2>4. Reads(p, x, y)
    BY <1>0, <2>1, <2>2, <2>3
  <2>. QED
    BY <2>4 DEF p, y
<1>. QED
  BY <1>1, <1>2, <1>3, <1>4, <1>5, Zenon

\* Every sequence that is not empty is its first element and the rest.
LEMMA HeadFirst ==
  ASSUME NEW S, NEW q \in Seq(S), q # <<>>
  PROVE  \E x \in S, r \in Seq(S) : q = <<x>> \o r
<1>1. Head(q) \in S /\ Tail(q) \in Seq(S)
  OBVIOUS
<1>2. q = <<Head(q)>> \o Tail(q)
  OBVIOUS
<1>. QED
  BY <1>1, <1>2

\* A statement starts with its first token, and its semicolon ends it.
LEMMA StatementReads ==
  ASSUME NEW s \in Statement, NEW p \in Spellings(s), NEW x \in RestOfBody
  PROVE  p \o x \in Starting("type", AtVarName) \cup Starting("return", AtExpr)
                      \cup Starting("identifier", AtEquals)
<1>0. x \in Seq(Token)
  BY RestsTyped DEF Texts
<1>t. /\ "type" \in Token /\ "identifier" \in Token /\ "=" \in Token
      /\ ";" \in Token /\ "return" \in Token /\ Expressions \subseteq Token
  BY DEF Token, Marks, Expressions
<1>1. <<";">> \o x \in AtSemicolon
  BY InStarting DEF AtSemicolon
<1>2. \A e \in Expressions : <<e>> \o (<<";">> \o x) \in AtExpr
  BY <1>1, InStarting DEF AtExpr
<1>3. \A e \in Expressions : <<"=">> \o (<<e>> \o (<<";">> \o x)) \in AtEquals
  BY <1>2, InStarting DEF AtEquals
<1>4. CASE s = VarDecl(FALSE)
  <2>1. p = <<"type", "identifier", ";">>
    BY <1>4 DEF Spellings
  <2>2. Reads(<<"type", "identifier", ";">>, x,
              <<"type">> \o (<<"identifier">> \o (<<";">> \o x)))
    BY <1>0, <1>t, TokensRead, Zenon
  <2>3. <<";">> \o x \in AtVarInit
    BY InStarting DEF AtVarInit
  <2>4. <<"identifier">> \o (<<";">> \o x) \in AtVarName
    BY <2>3, InStarting DEF AtVarName
  <2>5. <<"type">> \o (<<"identifier">> \o (<<";">> \o x)) \in Starting("type", AtVarName)
    BY <2>4, InStarting
  <2>6. p \o x \in Starting("type", AtVarName)
    BY <2>1, <2>2, <2>5, Zenon DEF Reads
  <2>. QED
    BY <2>6
<1>5. CASE s = VarDecl(TRUE)
  <2>1. PICK e \in Expressions : p = <<"type", "identifier", "=", e, ";">>
    BY <1>5, StatementsDiffer DEF Spellings, Led
  <2> DEFINE y == <<"=">> \o (<<e>> \o (<<";">> \o x))
  <2>2. Reads(<<"type", "identifier", "=", e, ";">>, x,
              <<"type">> \o (<<"identifier">> \o y))
    BY <1>0, <1>t, TokensRead, Zenon
  <2>3. y \in AtVarInit
    BY <1>3 DEF AtVarInit, AtEquals
  <2>. HIDE DEF y
  <2>4. <<"identifier">> \o y \in AtVarName
    BY <2>3, InStarting DEF AtVarName
  <2>5. <<"type">> \o (<<"identifier">> \o y) \in Starting("type", AtVarName)
    BY <2>4, InStarting
  <2>6. p \o x \in Starting("type", AtVarName)
    BY <2>1, <2>2, <2>5, Zenon DEF Reads
  <2>. QED
    BY <2>6
<1>6. CASE s = Assignment("name")
  <2>1. PICK e \in Expressions : p = <<"identifier", "=", e, ";">>
    BY <1>6, StatementsDiffer DEF Spellings, Led
  <2> DEFINE y == <<"=">> \o (<<e>> \o (<<";">> \o x))
  <2>2. Reads(<<"identifier", "=", e, ";">>, x, <<"identifier">> \o y)
    BY <1>0, <1>t, TokensRead, Zenon
  <2>3. y \in AtEquals
    BY <1>3
  <2>. HIDE DEF y
  <2>4. <<"identifier">> \o y \in Starting("identifier", AtEquals)
    BY <2>3, InStarting
  <2>5. p \o x \in Starting("identifier", AtEquals)
    BY <2>1, <2>2, <2>4, Zenon DEF Reads
  <2>. QED
    BY <2>5
<1>7. CASE s = Assignment("return")
  <2>1. PICK e \in Expressions : p = <<"return", e, ";">>
    BY <1>7, StatementsDiffer DEF Spellings, Led
  <2> DEFINE y == <<e>> \o (<<";">> \o x)
  <2>2. Reads(<<"return", e, ";">>, x, <<"return">> \o y)
    BY <1>0, <1>t, TokensRead, Zenon
  <2>3. y \in AtExpr
    BY <1>2
  <2>. HIDE DEF y
  <2>4. <<"return">> \o y \in Starting("return", AtExpr)
    BY <2>3, InStarting
  <2>5. p \o x \in Starting("return", AtExpr)
    BY <2>1, <2>2, <2>4, Zenon DEF Reads
  <2>. QED
    BY <2>5
<1>. QED
  BY <1>4, <1>5, <1>6, <1>7 DEF Statement

\* The two parts of a text.
Parts(A, B, t) == \E a \in A, b \in B : t = a \o b

\* Both parts, for every text of Then(A, B).
LEMMA HasParts ==
  \A A, B, t : t \in Then(A, B) => Parts(A, B, t)
<1>1. ASSUME NEW A, NEW B, NEW t \in Then(A, B)
      PROVE  Parts(A, B, t)
  BY FromThen DEF Parts
<1>. QED
  BY <1>1

\* What follows a language of one token starts with it.
LEMMA OneThen ==
  ASSUME NEW t, NEW R, NEW z, z \in Then({<<t>>}, R)
  PROVE  z \in Starting(t, R)
<1> DEFINE A == {<<t>>}
<1>1. z \in Then(A, R)
  OBVIOUS
<1>. HIDE DEF A
<1>2. PICK a \in A, r \in R : z = a \o r
  <2>1. Parts(A, R, z)
    BY <1>1, HasParts, Zenon
  <2>. QED
    BY <2>1 DEF Parts
<1>3. a = <<t>>
  BY DEF A
<1>. QED
  BY <1>2, <1>3, InStarting

\* The first statement, and what follows it.
LEMMA FirstOfBody ==
  ASSUME NEW s \in Statement, NEW c \in Seq(Statement), NEW y,
         y \in Then(Spellings(s), BodySpellings(c))
  PROVE  \E p \in Spellings(s), q \in BodySpellings(c) :
            y = p \o q /\ p \in Seq(Token) /\ q \in Seq(Token)
<1> DEFINE P == Spellings(s)
           Q == BodySpellings(c)
<1>1. y \in Then(P, Q) /\ P \in Texts /\ Q \in Texts
  BY SpellingsTyped, BodyGrows
<1>. HIDE DEF P, Q
<1>2. PICK p \in P, q \in Q : y = p \o q
  <2>1. Parts(P, Q, y)
    BY <1>1, HasParts, Zenon
  <2>. QED
    BY <2>1 DEF Parts
<1>3. p \in Seq(Token) /\ q \in Seq(Token)
  BY <1>1 DEF Texts
<1>. QED
  BY <1>2, <1>3 DEF P, Q

\* A body goes on with a statement or ends.
LEMMA BodyReads ==
  ASSUME NEW r \in RestOfBody
  PROVE  r \in Starting("}", RestOfUnit) \cup Starting("type", AtVarName)
                 \cup Starting("return", AtExpr) \cup Starting("identifier", AtEquals)
<1> DEFINE B == UNION {BodySpellings(b) : b \in Seq(Statement)}
           E == Then({<<"}">>}, RestOfUnit)
<1>e. /\ B \in Texts /\ E \in Texts /\ RestOfBody = Then(B, E)
      /\ \A c \in Seq(Statement) : BodySpellings(c) \subseteq B
      /\ \A z \in E : z \in Seq(Token) /\ z \in Starting("}", RestOfUnit)
      /\ \A y \in B : \E b \in Seq(Statement) : y \in BodySpellings(b)
  <2>1. VarDecl(FALSE) \in Statement
    BY StatementsDiffer
  <2>2. \A c \in Seq(Statement) : BodySpellings(c) \in Texts
    BY <2>1, BodyGrows
  <2>3. B \in Texts
    BY <2>2 DEF Texts
  <2>4. {<<"}">>} \in Texts
    <3>1. "}" \in Token
      BY DEF Token, Marks
    <3>2. <<"}">> \in Seq(Token)
      BY <3>1, TokenByToken, Zenon
    <3>. QED
      BY <3>2 DEF Texts
  <2>5. E \in Texts
    BY <2>4, RestsTyped, ThenTyped
  <2>6. \A z \in E : z \in Seq(Token) /\ z \in Starting("}", RestOfUnit)
    <3>1. \A z \in E : z \in Seq(Token)
      BY <2>5 DEF Texts
    <3>2. \A z \in E : z \in Starting("}", RestOfUnit)
      BY OneThen
    <3>. QED
      BY <3>1, <3>2
  <2>7. /\ \A c \in Seq(Statement) : BodySpellings(c) \subseteq B
        /\ \A y \in B : \E b \in Seq(Statement) : y \in BodySpellings(b)
    OBVIOUS
  <2>. QED
    BY <2>3, <2>5, <2>6, <2>7 DEF RestOfBody
<1>. HIDE DEF B, E
<1>1. PICK y \in B, z \in E : r = y \o z
  <2>1. r \in Then(B, E)
    BY <1>e
  <2>. QED
    BY <2>1 DEF Then
<1>2. PICK b \in Seq(Statement) : y \in BodySpellings(b)
  BY <1>e
<1>3. CASE b = <<>>
  <2>1. y = <<>>
    <3>1. <<>> \in Seq(Statement) /\ VarDecl(FALSE) \in Statement
      BY <1>3, StatementsDiffer
    <3>2. BodySpellings(<<>>) = {<<>>}
      BY <3>1, BodyGrows
    <3>. QED
      BY <1>2, <1>3, <3>2
  <2>2. r = z
    <3>1. \A q \in Seq(Token) : <<>> \o q = q
      OBVIOUS
    <3>. QED
      BY <1>1, <1>e, <2>1, <3>1
  <2>3. z \in Starting("}", RestOfUnit)
    BY <1>e
  <2>. QED
    BY <2>2, <2>3
<1>4. CASE b # <<>>
  <2>1. PICK s \in Statement, c \in Seq(Statement) : b = <<s>> \o c
    BY <1>4, HeadFirst
  <2>2. BodySpellings(b) = Then(Spellings(s), BodySpellings(c))
    BY <2>1, BodyFromLeft
  <2>3. PICK p \in Spellings(s), q \in BodySpellings(c) :
          y = p \o q /\ p \in Seq(Token) /\ q \in Seq(Token)
    <3>1. y \in Then(Spellings(s), BodySpellings(c))
      BY <1>2, <2>2
    <3>. QED
      BY <3>1, FirstOfBody
  <2>5. q \o z \in RestOfBody
    <3>1. q \in B
      BY <1>e, <2>3
    <3>. QED
      BY <1>e, <3>1, InThen
  <2>6. r = p \o (q \o z)
    <3>1. z \in Seq(Token)
      BY <1>e
    <3>2. (p \o q) \o z = p \o (q \o z)
      BY <2>3, <3>1
    <3>. QED
      BY <1>1, <2>3, <3>2
  <2>. QED
    BY <2>3, <2>5, <2>6, StatementReads
<1>. QED
  BY <1>3, <1>4

\* A unit goes on with a function or ends.
LEMMA FirstOfUnit ==
  ASSUME NEW b \in Seq(Statement), NEW d \in Seq(Seq(Statement)), NEW y,
         y \in Then(FunctionSpellings(b), UnitSpellings(d))
  PROVE  Parts({Signature}, RestOfBody, y)
<1> DEFINE B == BodySpellings(b)
           R == {<<"}">>}
           U == UnitSpellings(d)
           F == {Signature}
<1>1. y \in Then(Then(Then(F, B), R), U)
  BY DEF FunctionSpellings
<1>2. B \in Texts /\ R \in Texts /\ U \in Texts /\ F \in Texts
  <2>1. /\ "type" \in Token /\ "identifier" \in Token /\ "(" \in Token
        /\ ")" \in Token /\ "{" \in Token /\ "}" \in Token
    BY DEF Token, Marks
  <2>2. Signature \in Seq(Token)
    BY <2>1, TokenByToken, Zenon DEF Signature
  <2>3. <<"}">> \in Seq(Token)
    BY <2>1, TokenByToken, Zenon
  <2>4. B \in Texts /\ U \in Texts
    BY StatementsDiffer, BodyGrows, UnitGrows
  <2>. QED
    BY <2>2, <2>3, <2>4 DEF Texts
<1>3. \A p \in B, z \in Then(R, U) : p \o z \in RestOfBody
  <2>1. B \subseteq UNION {BodySpellings(c) : c \in Seq(Statement)}
    OBVIOUS
  <2>2. U \subseteq RestOfUnit
    BY DEF RestOfUnit
  <2>. HIDE DEF B, R, U
  <2>3. Then(R, U) \subseteq Then(R, RestOfUnit)
    BY <2>2, ThenGrows
  <2>. QED
    BY <2>1, <2>3, InThen DEF RestOfBody, R
<1>. HIDE DEF B, R, U, F
<1>4. Then(Then(Then(F, B), R), U) = Then(F, Then(B, Then(R, U)))
  <2>1. Then(F, B) \in Texts /\ Then(R, U) \in Texts
    BY <1>2, ThenTyped
  <2>2. Then(Then(Then(F, B), R), U) = Then(Then(F, B), Then(R, U))
    BY <1>2, <2>1, ThenAssociates
  <2>3. Then(Then(F, B), Then(R, U)) = Then(F, Then(B, Then(R, U)))
    BY <1>2, <2>1, ThenAssociates
  <2>. QED
    BY <2>2, <2>3
<1> DEFINE W == Then(R, U)
           V == Then(B, W)
<1>5. /\ y \in Then(F, V) /\ V = Then(B, W)
      /\ \A p \in B, z \in W : p \o z \in RestOfBody
  BY <1>1, <1>3, <1>4
<1>. HIDE DEF V, W
<1>6. PICK f \in F, x \in V : y = f \o x
  <2>1. Parts(F, V, y)
    BY <1>5, HasParts, Zenon
  <2>. QED
    BY <2>1 DEF Parts
<1>7. x \in RestOfBody
  <2>1. x \in Then(B, W)
    BY <1>5
  <2>2. PICK p \in B, z \in W : x = p \o z
    <3>1. Parts(B, W, x)
      BY <2>1, HasParts, Zenon
    <3>. QED
      BY <3>1 DEF Parts
  <2>. QED
    BY <1>5, <2>2
<1>. QED
  BY <1>6, <1>7 DEF F, Parts

\* A unit ends or goes on with the type of a function.
LEMMA UnitReads ==
  ASSUME NEW r \in RestOfUnit
  PROVE  r = <<>> \/ r \in Starting("type", AtName)
<1>1. PICK d \in Seq(Seq(Statement)) : r \in UnitSpellings(d)
  BY DEF RestOfUnit
<1>2. CASE d = <<>>
  <2>1. UnitSpellings(<<>>) = {<<>>}
    <3>1. <<>> \in Seq(Statement) /\ <<>> \in Seq(Seq(Statement))
      OBVIOUS
    <3>. QED
      BY <3>1, UnitGrows
  <2>. QED
    BY <1>1, <1>2, <2>1
<1>3. CASE d # <<>>
  <2>1. PICK b \in Seq(Statement), c \in Seq(Seq(Statement)) : d = <<b>> \o c
    BY <1>3, HeadFirst
  <2>2. r \in Then(FunctionSpellings(b), UnitSpellings(c))
    BY <1>1, <2>1, UnitFromLeft
  <2>3. PICK x \in RestOfBody : r = Signature \o x
    <3>1. Parts({Signature}, RestOfBody, r)
      BY <2>2, FirstOfUnit
    <3>. QED
      BY <3>1 DEF Parts
  <2>t. /\ "type" \in Token /\ "identifier" \in Token /\ "(" \in Token
        /\ ")" \in Token /\ "{" \in Token
    BY DEF Token, Marks
  <2>4. x \in Seq(Token)
    BY RestsTyped DEF Texts
  <2>5. <<"{">> \o x \in AtLBrace
    BY InStarting DEF AtLBrace
  <2>6. <<")">> \o (<<"{">> \o x) \in AtRParen
    BY <2>5, InStarting DEF AtRParen
  <2>7. <<"(">> \o (<<")">> \o (<<"{">> \o x)) \in AtLParen
    BY <2>6, InStarting DEF AtLParen
  <2>8. <<"identifier">> \o (<<"(">> \o (<<")">> \o (<<"{">> \o x))) \in AtName
    BY <2>7, InStarting DEF AtName
  <2> DEFINE y == <<"identifier">> \o (<<"(">> \o (<<")">> \o (<<"{">> \o x)))
  <2>9. Reads(Signature, x, <<"type">> \o y)
    BY <2>t, <2>4, TokensRead, Zenon DEF Signature
  <2>10. y \in AtName
    BY <2>8
  <2>. HIDE DEF y
  <2>11. <<"type">> \o y \in Starting("type", AtName)
    BY <2>10, InStarting
  <2>. QED
    BY <2>3, <2>9, <2>11 DEF Reads
<1>. QED
  BY <1>2, <1>3

\* Whatever makes a sentence of p is in R.
Left(p, R) == \A r \in Seq(Token) : p \o r \in Sentences => r \in R

\* One token more has been read: what is left is one token less.
LEMMA LeftAfter ==
  ASSUME NEW p \in Seq(Token), NEW R, Left(p, R), NEW t \in Token, NEW Q,
         \A r \in Seq(Token) : <<t>> \o r \in R => r \in Q
  PROVE  Left(Append(p, t), Q)
<1>1. ASSUME NEW r \in Seq(Token), Append(p, t) \o r \in Sentences
      PROVE  r \in Q
  <2>1. Append(p, t) \o r = p \o (<<t>> \o r) /\ <<t>> \o r \in Seq(Token)
    OBVIOUS
  <2>2. p \o (<<t>> \o r) \in Sentences
    BY <1>1, <2>1
  <2>. QED
    BY <2>1, <2>2 DEF Left
<1>. QED
  BY <1>1 DEF Left

\* A text that can be made a sentence is the beginning of one.
LEMMA ViableMeans ==
  ASSUME NEW p \in Seq(Token), Sentences \subseteq Seq(Token)
  PROVE  Viable(p) <=> \E r \in Seq(Token) : p \o r \in Sentences
<1>1. ASSUME NEW r \in Seq(Token), p \o r \in Sentences
      PROVE  Viable(p)
  <2>1. /\ Len(p) <= Len(p \o r)
        /\ SubSeq(p, 1, Len(p)) = SubSeq(p \o r, 1, Len(p))
    OBVIOUS
  <2>2. IsPrefix(p, p \o r)
    BY <2>1 DEF IsPrefix
  <2>. QED
    BY <1>1, <2>2 DEF Viable
<1>2. ASSUME NEW s \in Sentences, IsPrefix(p, s)
      PROVE  \E r \in Seq(Token) : p \o r \in Sentences
  <2>1. s \in Seq(Token) /\ Len(p) <= Len(s)
        /\ SubSeq(p, 1, Len(p)) = SubSeq(s, 1, Len(p))
    BY <1>2 DEF IsPrefix
  <2> DEFINE r == SubSeq(s, Len(p) + 1, Len(s))
  <2>2. r \in Seq(Token)
    BY <2>1
  <2>3. s = p \o r
    BY <2>1
  <2>. HIDE DEF r
  <2>. QED
    BY <2>2, <2>3
<1>. QED
  BY <1>1, <1>2 DEF Viable

\* A text of R starts with a token of T, and after t it is a text of Q.
Opens(R, T) == <<>> \notin R /\ \A u \in Token, r \in Seq(Token) : <<u>> \o r \in R => u \in T

Goes(R, t, Q) == \A r \in Seq(Token) : <<t>> \o r \in R => r \in Q

\* A language whose texts all start with t.
LEMMA StartingOpens ==
  ASSUME NEW t \in Token, NEW R \in Texts
  PROVE  Opens(Starting(t, R), {t}) /\ Goes(Starting(t, R), t, R)
<1>1. <<>> \notin Starting(t, R)
  <2>1. ASSUME NEW r \in R
        PROVE  <<t>> \o r # <<>>
    <3>1. r \in Seq(Token)
      BY DEF Texts
    <3>2. Len(<<t>> \o r) = 1 + Len(r) /\ Len(r) \in Nat
      BY <3>1
    <3>3. Len(<<>>) = 0
      OBVIOUS
    <3>. QED
      BY <3>2, <3>3
  <2>. QED
    BY <2>1 DEF Starting
<1>2. ASSUME NEW u \in Token, NEW r \in Seq(Token), <<u>> \o r \in Starting(t, R)
      PROVE  u = t /\ r \in R
  BY <1>2, Started
<1>3. Opens(Starting(t, R), {t})
  BY <1>1, <1>2 DEF Opens
<1>4. Goes(Starting(t, R), t, R)
  BY <1>2 DEF Goes
<1>. QED
  BY <1>3, <1>4

\* The first tokens of what may follow, and where they lead.
LEMMA HeadingOpens ==
  /\ Opens(AtName, {"identifier"}) /\ Goes(AtName, "identifier", AtLParen)
  /\ Opens(AtLParen, {"("}) /\ Goes(AtLParen, "(", AtRParen)
  /\ Opens(AtRParen, {")"}) /\ Goes(AtRParen, ")", AtLBrace)
  /\ Opens(AtLBrace, {"{"}) /\ Goes(AtLBrace, "{", RestOfBody)
<1>t. /\ "identifier" \in Token /\ "(" \in Token /\ ")" \in Token /\ "{" \in Token
  BY DEF Token, Marks
<1>1. Opens(AtName, {"identifier"}) /\ Goes(AtName, "identifier", AtLParen)
  BY <1>t, RestsTyped, StartingOpens DEF AtName
<1>2. Opens(AtLParen, {"("}) /\ Goes(AtLParen, "(", AtRParen)
  BY <1>t, RestsTyped, StartingOpens DEF AtLParen
<1>3. Opens(AtRParen, {")"}) /\ Goes(AtRParen, ")", AtLBrace)
  BY <1>t, RestsTyped, StartingOpens DEF AtRParen
<1>4. Opens(AtLBrace, {"{"}) /\ Goes(AtLBrace, "{", RestOfBody)
  BY <1>t, RestsTyped, StartingOpens DEF AtLBrace
<1>. QED
  BY <1>1, <1>2, <1>3, <1>4

\* The same for the positions in a statement.
LEMMA StatementOpens ==
  /\ Opens(AtVarName, {"identifier"}) /\ Goes(AtVarName, "identifier", AtVarInit)
  /\ Opens(AtVarInit, {"=", ";"})
  /\ Goes(AtVarInit, "=", AtExpr) /\ Goes(AtVarInit, ";", RestOfBody)
  /\ Opens(AtEquals, {"="}) /\ Goes(AtEquals, "=", AtExpr)
  /\ Opens(AtExpr, Expressions) /\ \A e \in Expressions : Goes(AtExpr, e, AtSemicolon)
  /\ Opens(AtSemicolon, {";"}) /\ Goes(AtSemicolon, ";", RestOfBody)
<1>t. "identifier" \in Token /\ "=" \in Token /\ ";" \in Token /\ Expressions \subseteq Token
  BY DEF Token, Marks, Expressions
<1>1. Opens(AtVarName, {"identifier"}) /\ Goes(AtVarName, "identifier", AtVarInit)
  BY <1>t, RestsTyped, StartingOpens DEF AtVarName
<1>2. Opens(AtEquals, {"="}) /\ Goes(AtEquals, "=", AtExpr)
  BY <1>t, RestsTyped, StartingOpens DEF AtEquals
<1>3. Opens(AtSemicolon, {";"}) /\ Goes(AtSemicolon, ";", RestOfBody)
  BY <1>t, RestsTyped, StartingOpens DEF AtSemicolon
<1>4. /\ Opens(AtVarInit, {"=", ";"})
      /\ Goes(AtVarInit, "=", AtExpr) /\ Goes(AtVarInit, ";", RestOfBody)
  <2>1. <<>> \notin AtVarInit
    BY <1>t, RestsTyped, StartingOpens DEF AtVarInit, Opens
  <2>2. ASSUME NEW u \in Token, NEW r \in Seq(Token), <<u>> \o r \in AtVarInit
        PROVE  (u = "=" /\ r \in AtExpr) \/ (u = ";" /\ r \in RestOfBody)
    <3>1. \/ <<u>> \o r \in Starting("=", AtExpr)
          \/ <<u>> \o r \in Starting(";", RestOfBody)
      BY <2>2 DEF AtVarInit
    <3>. QED
      BY <1>t, <3>1, RestsTyped, Started
  <2>. QED
    BY <1>t, <2>1, <2>2 DEF Opens, Goes
<1>5. /\ Opens(AtExpr, Expressions)
      /\ \A e \in Expressions : Goes(AtExpr, e, AtSemicolon)
  <2>1. \A e \in Expressions : /\ Opens(Starting(e, AtSemicolon), {e})
                               /\ Goes(Starting(e, AtSemicolon), e, AtSemicolon)
    BY <1>t, RestsTyped, StartingOpens
  <2>2. <<>> \notin AtExpr
    BY <2>1 DEF AtExpr, Opens
  <2>3. ASSUME NEW u \in Token, NEW r \in Seq(Token), <<u>> \o r \in AtExpr
        PROVE  u \in Expressions /\ r \in AtSemicolon
    <3>1. PICK e \in Expressions : <<u>> \o r \in Starting(e, AtSemicolon)
      BY <2>3 DEF AtExpr
    <3>. QED
      BY <1>t, <3>1, RestsTyped, Started
  <2>. QED
    BY <1>t, <2>2, <2>3 DEF Opens, Goes
<1>. QED
  BY <1>1, <1>2, <1>3, <1>4, <1>5

\* The same between statements and between functions.
LEMMA ListsOpen ==
  /\ Opens(RestOfBody, {"}", "type", "return", "identifier"})
  /\ Goes(RestOfBody, "}", RestOfUnit) /\ Goes(RestOfBody, "type", AtVarName)
  /\ Goes(RestOfBody, "return", AtExpr) /\ Goes(RestOfBody, "identifier", AtEquals)
  /\ \A u \in Token, r \in Seq(Token) : <<u>> \o r \in RestOfUnit => u = "type"
  /\ Goes(RestOfUnit, "type", AtName)
<1>t. /\ "identifier" \in Token /\ "type" \in Token /\ "return" \in Token
      /\ "}" \in Token
  BY DEF Token, Marks
<1>1. /\ Opens(Starting("}", RestOfUnit), {"}"})
      /\ Opens(Starting("type", AtVarName), {"type"})
      /\ Opens(Starting("return", AtExpr), {"return"})
      /\ Opens(Starting("identifier", AtEquals), {"identifier"})
  BY <1>t, RestsTyped, StartingOpens
<1>2. <<>> \notin RestOfBody
  BY <1>1, BodyReads DEF Opens
<1>3. ASSUME NEW u \in Token, NEW r \in Seq(Token), <<u>> \o r \in RestOfBody
      PROVE  \/ u = "}" /\ r \in RestOfUnit
             \/ u = "type" /\ r \in AtVarName
             \/ u = "return" /\ r \in AtExpr
             \/ u = "identifier" /\ r \in AtEquals
  <2>1. \/ <<u>> \o r \in Starting("}", RestOfUnit)
        \/ <<u>> \o r \in Starting("type", AtVarName)
        \/ <<u>> \o r \in Starting("return", AtExpr)
        \/ <<u>> \o r \in Starting("identifier", AtEquals)
    BY <1>3, BodyReads
  <2>. QED
    BY <1>t, <2>1, RestsTyped, Started
<1>4. ASSUME NEW u \in Token, NEW r \in Seq(Token), <<u>> \o r \in RestOfUnit
      PROVE  u = "type" /\ r \in AtName
  <2>1. <<u>> \o r # <<>>
    <3>1. Len(<<u>> \o r) = 1 + Len(r) /\ Len(r) \in Nat
      OBVIOUS
    <3>2. Len(<<>>) = 0
      OBVIOUS
    <3>. QED
      BY <3>1, <3>2
  <2>2. <<u>> \o r \in Starting("type", AtName)
    BY <1>4, <2>1, UnitReads
  <2>. QED
    BY <1>t, <2>2, RestsTyped, Started
<1>. QED
  BY <1>t, <1>2, <1>3, <1>4 DEF Opens, Goes

\* A text goes on with none but the tokens that open what is left.
LEMMA NoneLeft ==
  ASSUME NEW p \in Seq(Token), NEW R, NEW T, Left(p, R), Opens(R, T),
         Sentences \subseteq Seq(Token)
  PROVE  p \notin Sentences /\ \A t \in Token : t \notin T => ~Viable(Append(p, t))
<1>1. p \notin Sentences
  <2>1. p \o <<>> = p /\ <<>> \in Seq(Token)
    OBVIOUS
  <2>. QED
    BY <2>1 DEF Left, Opens
<1>2. ASSUME NEW t \in Token, t \notin T
      PROVE  ~Viable(Append(p, t))
  <2>1. Left(Append(p, t), {})
    <3>1. \A r \in Seq(Token) : <<t>> \o r \in R => r \in {}
      BY <1>2 DEF Opens
    <3>. QED
      BY <3>1, LeftAfter
  <2>2. Append(p, t) \in Seq(Token)
    OBVIOUS
  <2>. QED
    BY <2>1, <2>2, ViableMeans DEF Left
<1>. QED
  BY <1>1, <1>2

\* A sentence is the text of some unit, the bounds left aside.
LEMMA SentencesTyped == Sentences \subseteq RestOfUnit /\ Sentences \subseteq Seq(Token)
<1>1. ASSUME NEW d \in Units
      PROVE  d \in Seq(Seq(Statement))
  <2>1. PICK n \in 0 .. MaxFunctions : d \in [1 .. n -> Bodies]
    BY DEF Units
  <2>2. n \in Nat
    BY ParserAssumption
  <2>3. d \in Seq(Bodies)
    BY <2>1, <2>2
  <2>. QED
    BY <2>3, UnitsAreBodies
<1>2. Sentences \subseteq RestOfUnit
  BY <1>1 DEF Sentences, RestOfUnit
<1>. QED
  BY <1>2, RestsTyped DEF Texts

\* What the parser is at is what any sentence goes on with.
AwaitsUnit ==
  /\ pc = "Parse" => Left(read, RestOfUnit)
  /\ pc = "Name" => Left(read, AtName)
  /\ pc = "LParen" => Left(read, AtLParen)
  /\ pc = "RParen" => Left(read, AtRParen)
  /\ pc = "LBrace" => Left(read, AtLBrace)
  /\ pc = "Body" => Left(read, RestOfBody)

AwaitsStatement ==
  /\ pc = "VarName" => Left(read, AtVarName)
  /\ pc = "VarInit" => Left(read, AtVarInit)
  /\ pc = "Equals" => Left(read, AtEquals)
  /\ pc = "Expr" => Left(read, AtExpr)
  /\ pc = "Semicolon" => Left(read, AtSemicolon)

RejectedRightly ==
  pc = "Rejected" =>
    /\ stop \in End => read \notin Sentences
    /\ stop \in Token => ~Viable(Append(read, stop))

Awaits == AwaitsUnit /\ AwaitsStatement /\ RejectedRightly

\* What is rejected is none of the tokens that the check is for.
Refuses(at, T) == pc = at /\ stop' \in (Token \cup End) \ T

RejectsHead ==
  \/ pc = "Parse" /\ stop' \in Token \ {"type"}
  \/ Refuses("Name", {"identifier"}) \/ Refuses("LParen", {"("})
  \/ Refuses("RParen", {")"}) \/ Refuses("LBrace", {"{"})
  \/ Refuses("Body", {"}", "type", "return", "identifier"})

RejectsStatement ==
  \/ Refuses("VarName", {"identifier"}) \/ Refuses("VarInit", {"=", ";"})
  \/ Refuses("Equals", {"="}) \/ Refuses("Expr", Expressions)
  \/ Refuses("Semicolon", {";"})

\* Every check refuses what none of its branches takes.
LEMMA Refused ==
  ASSUME Next, pc' = "Rejected"
  PROVE  read' = read /\ (RejectsHead \/ RejectsStatement)
<1>0. Expressions = Primary
  BY DEF Expressions, Primary, IsConstant, IsIdentifier
<1>1. ASSUME NEW here, NEW C, NEW to, to # "Rejected", Expect(here, C, to)
      PROVE  read' = read /\ Refuses(here, C)
  BY <1>1 DEF Expect, Reject, Return, Take, Refuses
<1>2. CASE Parse
  BY <1>2 DEF Parse, Reject, Return, Take, RejectsHead, IsTypeKeyword
<1>3. CASE FunctionHead
  BY <1>1, <1>3 DEF FunctionHead, RejectsHead, IsIdentifier
<1>4. CASE FunctionBody
  <2>1. PICK t \in Token \cup End :
          pc = "Body" /\ Reject(t, IsTypeKeyword \cup {"return", "}"} \cup IsIdentifier)
    BY <1>4 DEF FunctionBody, Begin, Take
  <2>2. read' = read /\ stop' = t /\ t \notin {"}", "type", "return", "identifier"}
    BY <2>1 DEF Reject, Return, IsTypeKeyword, IsIdentifier
  <2>. QED
    BY <2>1, <2>2 DEF RejectsHead, Refuses
<1>5. CASE FunctionEnd
  BY <1>5 DEF FunctionEnd, Take
<1>6. CASE VarDeclRest
  <2>1. CASE Expect("VarName", IsIdentifier, "VarInit")
    BY <1>1, <2>1 DEF RejectsStatement, IsIdentifier
  <2>2. CASE pc = "VarInit" /\ \E t \in Token \cup End : Reject(t, {"=", ";"})
    BY <2>2 DEF Reject, Return, RejectsStatement, Refuses
  <2>. QED
    BY <1>6, <2>1, <2>2 DEF VarDeclRest, Take, Push
<1>7. CASE AssignmentRest \/ ParseExpr
  BY <1>0, <1>1, <1>7 DEF AssignmentRest, ParseExpr, RejectsStatement
<1>8. CASE StatementEnd
  BY <1>8 DEF StatementEnd, Push, Take, Reject, Return, RejectsStatement, Refuses
<1>. QED
  BY <1>2, <1>3, <1>4, <1>5, <1>6, <1>7, <1>8 DEF Next

\* At the start a whole unit is awaited.
LEMMA AwaitsBegins == Init => Awaits
<1> SUFFICES ASSUME Init
             PROVE  Awaits
  OBVIOUS
<1>1. pc = "Parse" /\ read = <<>>
  BY DEF Init
<1>2. Left(read, RestOfUnit)
  <2>1. \A r \in Seq(Token) : <<>> \o r = r
    OBVIOUS
  <2>. QED
    BY <1>1, <2>1, SentencesTyped DEF Left
<1>. QED
  BY <1>1, <1>2 DEF Awaits, AwaitsUnit, AwaitsStatement, RejectedRightly

\* The parser takes a token and goes to another check.
Taken(from, t, to) == pc = from /\ read' = Append(read, t) /\ pc' = to

\* Every token taken leads to what may follow it, and none but a token or end
\* that nothing can follow is refused.
LEMMA AwaitsStep == ParserInv /\ Awaits /\ Next => Awaits'
<1> SUFFICES ASSUME ParserTypes, AwaitsUnit, AwaitsStatement, Next
             PROVE  Awaits'
  BY DEF ParserInv, Awaits
<1>t. /\ "type" \in Token /\ "identifier" \in Token /\ "(" \in Token
      /\ ")" \in Token /\ "{" \in Token /\ "=" \in Token /\ ";" \in Token
      /\ "return" \in Token /\ "}" \in Token /\ Expressions \subseteq Token
      /\ read \in Seq(Token)
  BY DEF Token, Marks, Expressions, ParserTypes
<1>1. ASSUME NEW R, NEW t \in Token, NEW Q, Left(read, R), Goes(R, t, Q),
             read' = Append(read, t)
      PROVE  Left(read', Q)
  BY <1>1, <1>t, LeftAfter DEF Goes
<1>2. CASE pc' = "Rejected"
  <2>1. read' = read /\ (RejectsHead \/ RejectsStatement)
    BY <1>2, Refused
  <2>2. ASSUME NEW R, NEW T, Left(read, R), Opens(R, T), stop' \in (Token \cup End) \ T
        PROVE  RejectedRightly'
    <3>1. read \notin Sentences /\ \A t \in Token : t \notin T => ~Viable(Append(read, t))
      BY <1>t, <2>2, SentencesTyped, NoneLeft
    <3>2. stop' \in Token => ~Viable(Append(read', stop'))
      BY <2>1, <2>2, <3>1
    <3>. QED
      BY <2>1, <3>1, <3>2 DEF RejectedRightly, Viable, Sentences
  <2>3. ASSUME pc = "Parse", stop' \in Token \ {"type"}
        PROVE  RejectedRightly'
    <3>1. Left(read, RestOfUnit)
      BY <2>3 DEF AwaitsUnit
    <3>2. PICK t \in Token : t = stop' /\ t # "type"
      BY <2>3
    <3>3. Left(Append(read, t), {})
      <4>1. \A r \in Seq(Token) : <<t>> \o r \in RestOfUnit => r \in {}
        BY <3>2, ListsOpen
      <4>. QED
        BY <1>t, <3>1, <4>1, LeftAfter
    <3>4. ~Viable(Append(read, t))
      <4>1. Append(read, t) \in Seq(Token)
        BY <1>t, OneLonger
      <4>. QED
        BY <3>3, <4>1, SentencesTyped, ViableMeans DEF Left
    <3>5. t \notin End
      BY DEF Token, Marks, End
    <3>. QED
      BY <2>1, <3>2, <3>4, <3>5 DEF RejectedRightly
  <2>4. ASSUME NEW at, NEW T, Refuses(at, T), NEW R, Left(read, R), Opens(R, T)
        PROVE  RejectedRightly'
    BY <2>2, <2>4 DEF Refuses
  <2>5. ASSUME Refuses("Name", {"identifier"})
        PROVE  RejectedRightly'
    <3>1. Left(read, AtName) /\ Opens(AtName, {"identifier"})
      BY <2>5, HeadingOpens, ListsOpen, StatementOpens DEF Refuses, AwaitsUnit
    <3>. QED
      BY <2>4, <2>5, <3>1
  <2>6. ASSUME Refuses("LParen", {"("})
        PROVE  RejectedRightly'
    <3>1. Left(read, AtLParen) /\ Opens(AtLParen, {"("})
      BY <2>6, HeadingOpens, ListsOpen, StatementOpens DEF Refuses, AwaitsUnit
    <3>. QED
      BY <2>4, <2>6, <3>1
  <2>7. ASSUME Refuses("RParen", {")"})
        PROVE  RejectedRightly'
    <3>1. Left(read, AtRParen) /\ Opens(AtRParen, {")"})
      BY <2>7, HeadingOpens, ListsOpen, StatementOpens DEF Refuses, AwaitsUnit
    <3>. QED
      BY <2>4, <2>7, <3>1
  <2>8. ASSUME Refuses("LBrace", {"{"})
        PROVE  RejectedRightly'
    <3>1. Left(read, AtLBrace) /\ Opens(AtLBrace, {"{"})
      BY <2>8, HeadingOpens, ListsOpen, StatementOpens DEF Refuses, AwaitsUnit
    <3>. QED
      BY <2>4, <2>8, <3>1
  <2>9. ASSUME Refuses("Body", {"}", "type", "return", "identifier"})
        PROVE  RejectedRightly'
    <3>1. Left(read, RestOfBody) /\ Opens(RestOfBody, {"}", "type", "return", "identifier"})
      BY <2>9, HeadingOpens, ListsOpen, StatementOpens DEF Refuses, AwaitsUnit
    <3>. QED
      BY <2>4, <2>9, <3>1
  <2>10. ASSUME Refuses("VarName", {"identifier"})
        PROVE  RejectedRightly'
    <3>1. Left(read, AtVarName) /\ Opens(AtVarName, {"identifier"})
      BY <2>10, HeadingOpens, ListsOpen, StatementOpens DEF Refuses, AwaitsStatement
    <3>. QED
      BY <2>4, <2>10, <3>1
  <2>11. ASSUME Refuses("VarInit", {"=", ";"})
        PROVE  RejectedRightly'
    <3>1. Left(read, AtVarInit) /\ Opens(AtVarInit, {"=", ";"})
      BY <2>11, HeadingOpens, ListsOpen, StatementOpens DEF Refuses, AwaitsStatement
    <3>. QED
      BY <2>4, <2>11, <3>1
  <2>12. ASSUME Refuses("Equals", {"="})
        PROVE  RejectedRightly'
    <3>1. Left(read, AtEquals) /\ Opens(AtEquals, {"="})
      BY <2>12, HeadingOpens, ListsOpen, StatementOpens DEF Refuses, AwaitsStatement
    <3>. QED
      BY <2>4, <2>12, <3>1
  <2>13. ASSUME Refuses("Expr", Expressions)
        PROVE  RejectedRightly'
    <3>1. Left(read, AtExpr) /\ Opens(AtExpr, Expressions)
      BY <2>13, HeadingOpens, ListsOpen, StatementOpens DEF Refuses, AwaitsStatement
    <3>. QED
      BY <2>4, <2>13, <3>1
  <2>14. ASSUME Refuses("Semicolon", {";"})
        PROVE  RejectedRightly'
    <3>1. Left(read, AtSemicolon) /\ Opens(AtSemicolon, {";"})
      BY <2>14, HeadingOpens, ListsOpen, StatementOpens DEF Refuses, AwaitsStatement
    <3>. QED
      BY <2>4, <2>14, <3>1
  <2>15. RejectedRightly'
    BY <2>1, <2>3, <2>5, <2>6, <2>7, <2>8, <2>9, <2>10, <2>11,
       <2>12, <2>13, <2>14
       DEF RejectsHead, RejectsStatement
  <2>. QED
    BY <1>2, <2>15 DEF Awaits, AwaitsUnit, AwaitsStatement
<1>3. CASE pc' = "Accepted"
  BY <1>3 DEF Awaits, AwaitsUnit, AwaitsStatement, RejectedRightly
<1>5. CASE Taken("Parse", "type", "Name")
  <2>1. Left(read, RestOfUnit) /\ Goes(RestOfUnit, "type", AtName)
    BY <1>5, HeadingOpens, StatementOpens, ListsOpen DEF Taken, AwaitsUnit, AwaitsStatement
  <2>2. Left(read', AtName)
    BY <1>1, <1>t, <1>5, <2>1 DEF Taken
  <2>. QED
    BY <1>5, <2>2 DEF Taken, Awaits, AwaitsUnit, AwaitsStatement, RejectedRightly
<1>6. CASE Taken("Name", "identifier", "LParen")
  <2>1. Left(read, AtName) /\ Goes(AtName, "identifier", AtLParen)
    BY <1>6, HeadingOpens, StatementOpens, ListsOpen DEF Taken, AwaitsUnit, AwaitsStatement
  <2>2. Left(read', AtLParen)
    BY <1>1, <1>t, <1>6, <2>1 DEF Taken
  <2>. QED
    BY <1>6, <2>2 DEF Taken, Awaits, AwaitsUnit, AwaitsStatement, RejectedRightly
<1>7. CASE Taken("LParen", "(", "RParen")
  <2>1. Left(read, AtLParen) /\ Goes(AtLParen, "(", AtRParen)
    BY <1>7, HeadingOpens, StatementOpens, ListsOpen DEF Taken, AwaitsUnit, AwaitsStatement
  <2>2. Left(read', AtRParen)
    BY <1>1, <1>t, <1>7, <2>1 DEF Taken
  <2>. QED
    BY <1>7, <2>2 DEF Taken, Awaits, AwaitsUnit, AwaitsStatement, RejectedRightly
<1>8. CASE Taken("RParen", ")", "LBrace")
  <2>1. Left(read, AtRParen) /\ Goes(AtRParen, ")", AtLBrace)
    BY <1>8, HeadingOpens, StatementOpens, ListsOpen DEF Taken, AwaitsUnit, AwaitsStatement
  <2>2. Left(read', AtLBrace)
    BY <1>1, <1>t, <1>8, <2>1 DEF Taken
  <2>. QED
    BY <1>8, <2>2 DEF Taken, Awaits, AwaitsUnit, AwaitsStatement, RejectedRightly
<1>9. CASE Taken("LBrace", "{", "Body")
  <2>1. Left(read, AtLBrace) /\ Goes(AtLBrace, "{", RestOfBody)
    BY <1>9, HeadingOpens, StatementOpens, ListsOpen DEF Taken, AwaitsUnit, AwaitsStatement
  <2>2. Left(read', RestOfBody)
    BY <1>1, <1>t, <1>9, <2>1 DEF Taken
  <2>. QED
    BY <1>9, <2>2 DEF Taken, Awaits, AwaitsUnit, AwaitsStatement, RejectedRightly
<1>10. CASE Taken("Body", "type", "VarName")
  <2>1. Left(read, RestOfBody) /\ Goes(RestOfBody, "type", AtVarName)
    BY <1>10, HeadingOpens, StatementOpens, ListsOpen DEF Taken, AwaitsUnit, AwaitsStatement
  <2>2. Left(read', AtVarName)
    BY <1>1, <1>t, <1>10, <2>1 DEF Taken
  <2>. QED
    BY <1>10, <2>2 DEF Taken, Awaits, AwaitsUnit, AwaitsStatement, RejectedRightly
<1>11. CASE Taken("Body", "return", "Expr")
  <2>1. Left(read, RestOfBody) /\ Goes(RestOfBody, "return", AtExpr)
    BY <1>11, HeadingOpens, StatementOpens, ListsOpen DEF Taken, AwaitsUnit, AwaitsStatement
  <2>2. Left(read', AtExpr)
    BY <1>1, <1>t, <1>11, <2>1 DEF Taken
  <2>. QED
    BY <1>11, <2>2 DEF Taken, Awaits, AwaitsUnit, AwaitsStatement, RejectedRightly
<1>12. CASE Taken("Body", "identifier", "Equals")
  <2>1. Left(read, RestOfBody) /\ Goes(RestOfBody, "identifier", AtEquals)
    BY <1>12, HeadingOpens, StatementOpens, ListsOpen DEF Taken, AwaitsUnit, AwaitsStatement
  <2>2. Left(read', AtEquals)
    BY <1>1, <1>t, <1>12, <2>1 DEF Taken
  <2>. QED
    BY <1>12, <2>2 DEF Taken, Awaits, AwaitsUnit, AwaitsStatement, RejectedRightly
<1>13. CASE Taken("Body", "}", "Parse")
  <2>1. Left(read, RestOfBody) /\ Goes(RestOfBody, "}", RestOfUnit)
    BY <1>13, HeadingOpens, StatementOpens, ListsOpen DEF Taken, AwaitsUnit, AwaitsStatement
  <2>2. Left(read', RestOfUnit)
    BY <1>1, <1>t, <1>13, <2>1 DEF Taken
  <2>. QED
    BY <1>13, <2>2 DEF Taken, Awaits, AwaitsUnit, AwaitsStatement, RejectedRightly
<1>14. CASE Taken("VarName", "identifier", "VarInit")
  <2>1. Left(read, AtVarName) /\ Goes(AtVarName, "identifier", AtVarInit)
    BY <1>14, HeadingOpens, StatementOpens, ListsOpen DEF Taken, AwaitsUnit, AwaitsStatement
  <2>2. Left(read', AtVarInit)
    BY <1>1, <1>t, <1>14, <2>1 DEF Taken
  <2>. QED
    BY <1>14, <2>2 DEF Taken, Awaits, AwaitsUnit, AwaitsStatement, RejectedRightly
<1>15. CASE Taken("VarInit", "=", "Expr")
  <2>1. Left(read, AtVarInit) /\ Goes(AtVarInit, "=", AtExpr)
    BY <1>15, HeadingOpens, StatementOpens, ListsOpen DEF Taken, AwaitsUnit, AwaitsStatement
  <2>2. Left(read', AtExpr)
    BY <1>1, <1>t, <1>15, <2>1 DEF Taken
  <2>. QED
    BY <1>15, <2>2 DEF Taken, Awaits, AwaitsUnit, AwaitsStatement, RejectedRightly
<1>16. CASE Taken("VarInit", ";", "Body")
  <2>1. Left(read, AtVarInit) /\ Goes(AtVarInit, ";", RestOfBody)
    BY <1>16, HeadingOpens, StatementOpens, ListsOpen DEF Taken, AwaitsUnit, AwaitsStatement
  <2>2. Left(read', RestOfBody)
    BY <1>1, <1>t, <1>16, <2>1 DEF Taken
  <2>. QED
    BY <1>16, <2>2 DEF Taken, Awaits, AwaitsUnit, AwaitsStatement, RejectedRightly
<1>17. CASE Taken("Equals", "=", "Expr")
  <2>1. Left(read, AtEquals) /\ Goes(AtEquals, "=", AtExpr)
    BY <1>17, HeadingOpens, StatementOpens, ListsOpen DEF Taken, AwaitsUnit, AwaitsStatement
  <2>2. Left(read', AtExpr)
    BY <1>1, <1>t, <1>17, <2>1 DEF Taken
  <2>. QED
    BY <1>17, <2>2 DEF Taken, Awaits, AwaitsUnit, AwaitsStatement, RejectedRightly
<1>18. CASE Taken("Semicolon", ";", "Body")
  <2>1. Left(read, AtSemicolon) /\ Goes(AtSemicolon, ";", RestOfBody)
    BY <1>18, HeadingOpens, StatementOpens, ListsOpen DEF Taken, AwaitsUnit, AwaitsStatement
  <2>2. Left(read', RestOfBody)
    BY <1>1, <1>t, <1>18, <2>1 DEF Taken
  <2>. QED
    BY <1>18, <2>2 DEF Taken, Awaits, AwaitsUnit, AwaitsStatement, RejectedRightly
<1>19. ASSUME NEW t \in Expressions, Taken("Expr", t, "Semicolon")
       PROVE  Awaits'
  <2>1. Left(read, AtExpr) /\ Goes(AtExpr, t, AtSemicolon) /\ t \in Token
    BY <1>t, <1>19, StatementOpens DEF Taken, AwaitsStatement
  <2>2. Left(read', AtSemicolon)
    BY <1>1, <1>19, <2>1 DEF Taken
  <2>. QED
    BY <1>19, <2>2 DEF Taken, Awaits, AwaitsUnit, AwaitsStatement, RejectedRightly
<1>20. CASE Ended
  BY <1>2, <1>3, <1>20 DEF Ended
<1>21. CASE MovesOn
  <2>1. \A from, t, to : Takes(from, t, to) => Taken(from, t, to)
    BY DEF Takes, Take, Taken
  <2>2. \/ Taken("Parse", "type", "Name") \/ Taken("Name", "identifier", "LParen")
        \/ Taken("LParen", "(", "RParen") \/ Taken("RParen", ")", "LBrace")
        \/ Taken("LBrace", "{", "Body") \/ Taken("Body", "type", "VarName")
        \/ Taken("Body", "return", "Expr") \/ Taken("Body", "identifier", "Equals")
        \/ Taken("VarName", "identifier", "VarInit") \/ Taken("VarInit", "=", "Expr")
        \/ Taken("Equals", "=", "Expr")
        \/ \E t \in Expressions : Taken("Expr", t, "Semicolon")
    BY <1>21, <2>1, Zenon DEF MovesOn
  <2>. QED
    BY <1>5, <1>6, <1>7, <1>8, <1>9, <1>10, <1>11, <1>12, <1>14, <1>15, <1>17,
       <1>19, <2>2
<1>22. CASE Pushes
  BY <1>16, <1>18, <1>22 DEF Pushes, Take, Taken
<1>23. CASE EndsFunction
  BY <1>13, <1>23 DEF EndsFunction, Take, Taken
<1>. QED
  BY <1>20, <1>21, <1>22, <1>23, Moves

\* What has been read can be made a sentence: what is open is closed by the
\* shortest way, for which there is room.
LEMMA ViableFrom ==
  ASSUME NEW p \in Seq(Token)
  PROVE  /\ p \in Sentences => Viable(p)
         /\ \A t \in Token : Viable(Append(p, t)) => Viable(p)
<1>1. ASSUME p \in Sentences
      PROVE  Viable(p)
  <2>1. p \o <<>> = p /\ <<>> \in Seq(Token)
    OBVIOUS
  <2>. QED
    BY <1>1, <2>1, SentencesTyped, ViableMeans
<1>2. ASSUME NEW t \in Token, Viable(Append(p, t))
      PROVE  Viable(p)
  <2>1. Append(p, t) \in Seq(Token)
    BY OneLonger
  <2>2. PICK r \in Seq(Token) : Append(p, t) \o r \in Sentences
    BY <1>2, <2>1, SentencesTyped, ViableMeans
  <2>3. Append(p, t) \o r = p \o (<<t>> \o r) /\ <<t>> \o r \in Seq(Token)
    OBVIOUS
  <2>4. p \o (<<t>> \o r) \in Sentences
    BY <2>2, <2>3
  <2>. QED
    BY <2>3, <2>4, SentencesTyped, ViableMeans
<1>. QED
  BY <1>1, <1>2

\* An open function is closed by its brace.
LEMMA OpenIsViable ==
  ASSUME NEW d \in Seq(Bodies), NEW b \in Seq(Statement),
         Len(d) + 1 <= MaxFunctions, Len(b) + Size(d) <= MaxStatements,
         NEW r \in Then(UnitSpellings(d), Then({Signature}, BodySpellings(b)))
  PROVE  Viable(r)
<1> DEFINE U == UnitSpellings(d)
           F == Then({Signature}, BodySpellings(b))
           R == {<<"}">>}
<1>1. /\ d \in Seq(Seq(Statement)) /\ Size(d) \in Nat /\ Len(d) \in Nat
      /\ Len(b) \in Nat /\ "}" \in Token
  BY UnitsAreBodies, SizeOfMore DEF Token, Marks
<1>a. /\ Len(b) <= MaxStatements /\ Len(d) + 1 <= MaxFunctions
      /\ Size(d) + Len(b) <= MaxStatements
  <2> DEFINE n == Len(b)
             m == Size(d)
  <2>1. n \in Nat /\ m \in Nat /\ n + m <= MaxStatements /\ MaxStatements \in Nat
    BY <1>1, ParserAssumption
  <2>. HIDE DEF n, m
  <2>2. n <= MaxStatements /\ m + n <= MaxStatements
    BY <2>1
  <2>. QED
    BY <2>2 DEF n, m
<1>2. U \in Texts /\ F \in Texts /\ R \in Texts
  <2>1. U \in Texts /\ BodySpellings(b) \in Texts
    BY <1>1, UnitGrows, BodyGrows, StatementsDiffer
  <2>2. {Signature} \in Texts
    <3>1. /\ "type" \in Token /\ "identifier" \in Token /\ "(" \in Token
          /\ ")" \in Token /\ "{" \in Token
      BY DEF Token, Marks
    <3>2. Signature \in Seq(Token)
      BY <3>1, TokenByToken, Zenon DEF Signature
    <3>. QED
      BY <3>2 DEF Texts
  <2>3. <<"}">> \in Seq(Token)
    BY <1>1, TokenByToken, Zenon
  <2>4. R \in Texts
    BY <2>3 DEF Texts
  <2>. QED
    BY <2>1, <2>2, <2>4, ThenTyped
<1>3. Append(d, b) \in Seq(Bodies) /\ Len(Append(d, b)) <= MaxFunctions
      /\ Size(Append(d, b)) <= MaxStatements
  <2>1. b \in Bodies
    <3>1. Len(b) <= MaxStatements
      BY <1>a
    <3>. QED
      BY <3>1, BodiesFit
  <2>2. Append(d, b) \in Seq(Bodies) /\ Len(Append(d, b)) = Len(d) + 1
    BY <2>1, OneLonger
  <2>3. Size(Append(d, b)) = Size(d) + Len(b)
    BY <1>1, SizeOfMore
  <2>4. Len(Append(d, b)) <= MaxFunctions
    BY <1>a, <2>2, Zenon
  <2>5. Size(Append(d, b)) <= MaxStatements
    BY <1>a, <2>3, Zenon
  <2>. QED
    BY <2>2, <2>4, <2>5
<1>4. UnitSpellings(Append(d, b)) \subseteq Sentences
  BY <1>3, UnitsFit DEF Sentences
<1>5. UnitSpellings(Append(d, b)) = Then(U, Then(F, R))
  BY <1>1, UnitGrows DEF FunctionSpellings
<1>6. r \in Then(U, F)
  OBVIOUS
<1>. HIDE DEF U, F, R
<1>7. Then(Then(U, F), R) = Then(U, Then(F, R)) /\ Then(U, F) \in Texts
  BY <1>2, ThenAssociates, ThenTyped
<1>8. Append(r, "}") \in Then(Then(U, F), R)
  BY <1>1, <1>6, <1>7, FirstToken DEF R
<1>9. r \in Seq(Token) /\ Append(r, "}") \in Sentences
  BY <1>4, <1>5, <1>6, <1>7, <1>8 DEF Texts
<1>10. Append(r, "}") \in Seq(Token)
  BY <1>9, SentencesTyped
<1>. QED
  BY <1>1, <1>9, <1>10, ViableFrom

\* There is room for the function, and for the statement, that are open.
Room ==
  /\ ParserTypes /\ Len(decls) + 1 <= MaxFunctions
  /\ Len(body) + Size(decls) + 1 <= MaxStatements

\* The statement that is open fits, which is what its begin made sure of.
LEMMA RoomForOneMore ==
  ASSUME Room, NEW s \in Statement
  PROVE  Len(Append(body, s)) + Size(decls) <= MaxStatements
<1>1. body \in Seq(Statement) /\ decls \in Seq(Seq(Statement))
  BY UnitsAreBodies DEF Room, ParserTypes
<1>2. Len(body) \in Nat /\ Len(Append(body, s)) = Len(body) + 1
  BY <1>1
<1>3. Size(decls) \in Nat
  BY <1>1, SizeOfMore
<1>4. Len(body) + Size(decls) + 1 <= MaxStatements
  BY DEF Room
<1> DEFINE n == Len(body)
           m == Size(decls)
<1>5. n \in Nat /\ m \in Nat /\ n + m + 1 <= MaxStatements
  BY <1>2, <1>3, <1>4
<1>6. Len(Append(body, s)) = n + 1 /\ Size(decls) = m
  BY <1>2
<1>. HIDE DEF n, m
<1>7. n + 1 + m <= MaxStatements
  BY <1>5, ParserAssumption
<1>. QED
  BY <1>6, <1>7, Zenon

\* The texts of the open function with one more statement.
LEMMA OpenedWithOneMore ==
  ASSUME Room, NEW s \in Statement
  PROVE  Then(Opened, Spellings(s))
           = Then(Complete, Then({Signature}, BodySpellings(Append(body, s))))
<1>1. body \in Seq(Statement)
  BY DEF Room, ParserTypes
<1>2. BodySpellings(Append(body, s)) = Then(BodySpellings(body), Spellings(s))
  BY <1>1, BodyGrows
<1> DEFINE U == Complete
           F == {Signature}
           B == BodySpellings(body)
           S == Spellings(s)
<1>3. U \in Texts /\ F \in Texts /\ B \in Texts /\ S \in Texts
  BY TextsOfTree, SpellingsTyped DEF Room
<1>. HIDE DEF U, F, B, S
<1>4. Then(Then(U, Then(F, B)), S) = Then(U, Then(F, Then(B, S)))
  BY <1>3, ThenReordered
<1>. QED
  BY <1>2, <1>4 DEF Opened, U, F, B, S

\* An open statement is closed by its semicolon.
LEMMA PushedIsViable ==
  ASSUME Room, NEW s \in Statement, NEW r \in Seq(Token),
         Append(r, ";") \in Then(Opened, Spellings(s))
  PROVE  Viable(r)
<1>1. /\ body \in Seq(Statement) /\ decls \in Seq(Bodies) /\ ";" \in Token
  BY DEF Room, ParserTypes, Token, Marks
<1>2. Append(body, s) \in Seq(Statement)
  BY <1>1, OneLonger
<1>3. Append(r, ";") \in Then(UnitSpellings(decls),
                             Then({Signature}, BodySpellings(Append(body, s))))
  BY OpenedWithOneMore DEF Complete
<1>4. Len(Append(body, s)) + Size(decls) <= MaxStatements
  BY RoomForOneMore
<1>5. Len(decls) + 1 <= MaxFunctions
  BY DEF Room
<1>6. Viable(Append(r, ";"))
  BY <1>1, <1>2, <1>3, <1>4, <1>5, OpenIsViable
<1>. QED
  BY <1>1, <1>6, ViableFrom

\* The positions inside a statement, from its end to its beginning.
LEMMA InStatementViable ==
  ASSUME Room
  PROVE  /\ \A s \in Led, r \in Seq(Token) :
              r \in Then(Opened, {Append(Lead(s), e) : e \in Expressions}) => Viable(r)
         /\ \A s \in Led, r \in Seq(Token) : r \in Then(Opened, {Lead(s)}) => Viable(r)
         /\ \A r \in Seq(Token) : r \in Then(Opened, {<<"identifier">>}) => Viable(r)
         /\ \A r \in Seq(Token) : r \in Then(Opened, {<<"type", "identifier">>}) => Viable(r)
         /\ \A r \in Seq(Token) : r \in Then(Opened, {<<"type">>}) => Viable(r)
<1>t. /\ "type" \in Token /\ "identifier" \in Token /\ "=" \in Token
      /\ ";" \in Token /\ "constant" \in Token /\ "constant" \in Expressions
      /\ Expressions \subseteq Token /\ Opened \in Texts
  BY TextsOfTree DEF Token, Marks, Expressions, Room
<1>1. ASSUME NEW s \in Led, NEW r \in Seq(Token),
             r \in Then(Opened, {Append(Lead(s), e) : e \in Expressions})
      PROVE  Viable(r)
  <2> DEFINE B == {Append(Lead(s), e) : e \in Expressions}
  <2>1. B \in Texts /\ \A b \in B : Append(b, ";") \in Spellings(s)
    BY LeadSpells DEF Texts
  <2>2. r \in Then(Opened, B)
    BY <1>1
  <2>. HIDE DEF B
  <2>3. Append(r, ";") \in Then(Opened, Spellings(s))
    BY <1>t, <2>1, <2>2, ThenToken
  <2>. QED
    BY <2>3, StatementsDiffer, PushedIsViable
<1>2. ASSUME NEW s \in Led, NEW r \in Seq(Token), r \in Then(Opened, {Lead(s)})
      PROVE  Viable(r)
  <2> DEFINE B == {Append(Lead(s), e) : e \in Expressions}
             L == {Lead(s)}
  <2>1. L \in Texts /\ \A b \in L : Append(b, "constant") \in B
    BY <1>t, LeadSpells DEF Texts
  <2>2. r \in Then(Opened, L)
    BY <1>2
  <2>3. Append(r, "constant") \in Seq(Token)
    BY <1>t, OneLonger
  <2>4. Append(r, "constant") \in Then(Opened, B) => Viable(Append(r, "constant"))
    BY <1>1, <2>3
  <2>. HIDE DEF B, L
  <2>5. Append(r, "constant") \in Then(Opened, B)
    BY <1>t, <2>1, <2>2, ThenToken
  <2>. QED
    BY <1>t, <2>4, <2>5, ViableFrom
<1>3. ASSUME NEW r \in Seq(Token), r \in Then(Opened, {<<"identifier">>})
      PROVE  Viable(r)
  <2>1. /\ Grows(<<"identifier">>, "=", <<"identifier", "=">>)
        /\ <<"identifier">> \in Seq(Token)
    BY <1>t, TokenByToken, Zenon
  <2>2. Append(r, "=") \in Then(Opened, {<<"identifier", "=">>})
    BY <1>t, <1>3, <2>1, TokenAfter
  <2>3. Lead(Assignment("name")) = <<"identifier", "=">> /\ Assignment("name") \in Led
    BY StatementsDiffer DEF Lead, Led
  <2>4. Append(r, "=") \in Seq(Token)
    BY <1>t, OneLonger
  <2>5. Viable(Append(r, "="))
    BY <1>2, <2>2, <2>3, <2>4
  <2>. QED
    BY <1>t, <2>5, ViableFrom
<1>4. ASSUME NEW r \in Seq(Token), r \in Then(Opened, {<<"type", "identifier">>})
      PROVE  Viable(r)
  <2>1. /\ Grows(<<"type", "identifier">>, ";", <<"type", "identifier", ";">>)
        /\ <<"type", "identifier">> \in Seq(Token)
    BY <1>t, TokenByToken, Zenon
  <2>2. Append(r, ";") \in Then(Opened, {<<"type", "identifier", ";">>})
    BY <1>t, <1>4, <2>1, TokenAfter
  <2>3. Spellings(VarDecl(FALSE)) = {<<"type", "identifier", ";">>}
    BY DEF Spellings
  <2>. QED
    BY <2>2, <2>3, StatementsDiffer, PushedIsViable
<1>5. ASSUME NEW r \in Seq(Token), r \in Then(Opened, {<<"type">>})
      PROVE  Viable(r)
  <2>1. Grows(<<"type">>, "identifier", <<"type", "identifier">>) /\ <<"type">> \in Seq(Token)
    BY <1>t, TokenByToken, Zenon
  <2>2. Append(r, "identifier") \in Then(Opened, {<<"type", "identifier">>})
    BY <1>t, <1>5, <2>1, TokenAfter
  <2>3. Append(r, "identifier") \in Seq(Token)
    BY <1>t, OneLonger
  <2>. QED
    BY <1>t, <1>4, <2>2, <2>3, ViableFrom
<1>. QED
  BY <1>1, <1>2, <1>3, <1>4, <1>5

\* The positions in the head of a function, from its end to its beginning.
LEMMA InHeadingViable ==
  ASSUME ParserTypes, Len(decls) + 1 <= MaxFunctions, Size(decls) <= MaxStatements
  PROVE  /\ \A r \in Seq(Token) : r \in Then(Complete, {<<"type">>}) => Viable(r)
         /\ \A r \in Seq(Token) : r \in Then(Complete, {<<"type", "identifier">>}) => Viable(r)
         /\ \A r \in Seq(Token) : r \in Then(Complete, {<<"type", "identifier", "(">>}) => Viable(r)
         /\ \A r \in Seq(Token) :
              r \in Then(Complete, {<<"type", "identifier", "(", ")">>}) => Viable(r)
<1>t. /\ "type" \in Token /\ "identifier" \in Token /\ "(" \in Token
      /\ ")" \in Token /\ "{" \in Token /\ Complete \in Texts /\ {Signature} \in Texts
  BY TextsOfTree DEF Token, Marks
<1>1. ASSUME NEW r \in Seq(Token), r \in Then(Complete, {Signature})
      PROVE  Viable(r)
  <2>1. BodySpellings(<<>>) = {<<>>} /\ <<>> \in Seq(Statement) /\ Len(<<>>) = 0
    <3>1. <<>> \in Seq(Statement) /\ Len(<<>>) = 0
      OBVIOUS
    <3>. QED
      BY <3>1, BodyGrows, StatementsDiffer
  <2>2. Then({Signature}, BodySpellings(<<>>)) = {Signature}
    BY <1>t, <2>1, ThenNothing
  <2>3. r \in Then(UnitSpellings(decls), Then({Signature}, BodySpellings(<<>>)))
    BY <1>1, <2>2 DEF Complete
  <2>4. decls \in Seq(Bodies) /\ Len(<<>>) + Size(decls) <= MaxStatements
    <3>1. decls \in Seq(Bodies) /\ Size(decls) \in Nat
      BY UnitsAreBodies, SizeOfMore DEF ParserTypes
    <3>. QED
      BY <2>1, <3>1
  <2>. QED
    BY <2>1, <2>3, <2>4, OpenIsViable
<1>2. ASSUME NEW r \in Seq(Token), r \in Then(Complete, {<<"type", "identifier", "(", ")">>})
      PROVE  Viable(r)
  <2>1. /\ Grows(<<"type", "identifier", "(", ")">>, "{", Signature)
        /\ <<"type", "identifier", "(", ")">> \in Seq(Token)
    BY <1>t, TokenByToken, Zenon DEF Signature
  <2>2. Append(r, "{") \in Then(Complete, {Signature})
    BY <1>t, <1>2, <2>1, TokenAfter
  <2>3. Append(r, "{") \in Seq(Token)
    BY <1>t, OneLonger
  <2>. QED
    BY <1>t, <1>1, <2>2, <2>3, ViableFrom
<1>3. ASSUME NEW r \in Seq(Token), r \in Then(Complete, {<<"type", "identifier", "(">>})
      PROVE  Viable(r)
  <2>1. /\ Grows(<<"type", "identifier", "(">>, ")", <<"type", "identifier", "(", ")">>)
        /\ <<"type", "identifier", "(">> \in Seq(Token)
    BY <1>t, TokenByToken, Zenon
  <2>2. Append(r, ")") \in Then(Complete, {<<"type", "identifier", "(", ")">>})
    BY <1>t, <1>3, <2>1, TokenAfter
  <2>3. Append(r, ")") \in Seq(Token)
    BY <1>t, OneLonger
  <2>. QED
    BY <1>t, <1>2, <2>2, <2>3, ViableFrom
<1>4. ASSUME NEW r \in Seq(Token), r \in Then(Complete, {<<"type", "identifier">>})
      PROVE  Viable(r)
  <2>1. /\ Grows(<<"type", "identifier">>, "(", <<"type", "identifier", "(">>)
        /\ <<"type", "identifier">> \in Seq(Token)
    BY <1>t, TokenByToken, Zenon
  <2>2. Append(r, "(") \in Then(Complete, {<<"type", "identifier", "(">>})
    BY <1>t, <1>4, <2>1, TokenAfter
  <2>3. Append(r, "(") \in Seq(Token)
    BY <1>t, OneLonger
  <2>. QED
    BY <1>t, <1>3, <2>2, <2>3, ViableFrom
<1>5. ASSUME NEW r \in Seq(Token), r \in Then(Complete, {<<"type">>})
      PROVE  Viable(r)
  <2>1. /\ Grows(<<"type">>, "identifier", <<"type", "identifier">>)
        /\ <<"type">> \in Seq(Token)
    BY <1>t, TokenByToken, Zenon
  <2>2. Append(r, "identifier") \in Then(Complete, {<<"type", "identifier">>})
    BY <1>t, <1>5, <2>1, TokenAfter
  <2>3. Append(r, "identifier") \in Seq(Token)
    BY <1>t, OneLonger
  <2>. QED
    BY <1>t, <1>4, <2>2, <2>3, ViableFrom
<1>. QED
  BY <1>2, <1>3, <1>4, <1>5

\* Wherever the parser is, short of an error, what it has read is the
\* beginning of a sentence.
LEMMA ReadIsViable ==
  ASSUME ParserInv, TextInv, pc # "Rejected"
  PROVE  Viable(read)
<1>1. ParserTypes /\ Counts /\ TextOfUnit /\ TextOfBody
  BY DEF ParserInv, TextInv
<1>2. /\ decls \in Seq(Bodies) /\ body \in Seq(Statement) /\ read \in Seq(Token)
      /\ decls \in Seq(Seq(Statement))
  BY <1>1, UnitsAreBodies DEF ParserTypes
<1>3. /\ Len(decls) \in Nat /\ Len(body) \in Nat /\ Size(decls) \in Nat
      /\ MaxFunctions \in Nat /\ MaxStatements \in Nat
  BY <1>2, SizeOfMore, ParserAssumption
<1>4. /\ Len(decls) + FunctionBegun <= MaxFunctions
      /\ Len(body) + Size(decls) + StatementBegun <= MaxStatements
  BY <1>1 DEF Counts, Statements
<1>5. FunctionBegun \in {0, 1} /\ StatementBegun \in {0, 1}
  BY DEF FunctionBegun, StatementBegun
<1> DEFINE k == Len(decls)
           n == Len(body)
           m == Size(decls)
<1>6. k <= MaxFunctions /\ n + m <= MaxStatements /\ m <= MaxStatements
  <2>1. /\ k \in Nat /\ n \in Nat /\ m \in Nat
        /\ k + FunctionBegun <= MaxFunctions
        /\ n + m + StatementBegun <= MaxStatements
    BY <1>3, <1>4
  <2>. HIDE DEF k, n, m
  <2>. QED
    BY <1>3, <1>5, <2>1
<1>7. CASE pc \in {"Parse", "Accepted"}
  <2>1. read \in UnitSpellings(decls)
    BY <1>1, <1>7 DEF TextOfUnit, Complete
  <2>2. decls \in Units
    BY <1>2, <1>6, UnitsFit
  <2>3. read \in Sentences
    BY <2>1, <2>2 DEF Sentences
  <2>. QED
    BY <1>2, <2>3, ViableFrom
<1>8. CASE pc \in Heading
  <2>1. FunctionBegun = 1
    BY <1>8 DEF FunctionBegun
  <2>2. Len(decls) + 1 <= MaxFunctions
    BY <1>4, <2>1
  <2>3. \/ read \in Then(Complete, {<<"type">>})
        \/ read \in Then(Complete, {<<"type", "identifier">>})
        \/ read \in Then(Complete, {<<"type", "identifier", "(">>})
        \/ read \in Then(Complete, {<<"type", "identifier", "(", ")">>})
    BY <1>1, <1>8 DEF TextOfUnit, Heading
  <2>4. Size(decls) <= MaxStatements
    BY <1>6
  <2>. QED
    BY <1>1, <1>2, <2>2, <2>3, <2>4, InHeadingViable
<1>9. CASE pc = "Body"
  <2>1. Len(decls) + 1 <= MaxFunctions
    BY <1>4, <1>9 DEF FunctionBegun
  <2>2. Len(body) + Size(decls) <= MaxStatements
    BY <1>6
  <2>3. read \in Then(UnitSpellings(decls), Then({Signature}, BodySpellings(body)))
    BY <1>1, <1>9 DEF TextOfBody, Opened, Complete
  <2>. QED
    BY <1>2, <2>1, <2>2, <2>3, OpenIsViable
<1>10. CASE pc \in InStatement
  <2>1. FunctionBegun = 1 /\ StatementBegun = 1
    BY <1>10 DEF FunctionBegun, StatementBegun
  <2>2. Room
    BY <1>1, <1>4, <2>1 DEF Room
  <2>3. \/ read \in Then(Opened, {<<"type">>})
        \/ read \in Then(Opened, {<<"type", "identifier">>})
        \/ read \in Then(Opened, {<<"identifier">>})
        \/ stmt \in Led /\ read \in Then(Opened, {Lead(stmt)})
        \/ /\ stmt \in Led
           /\ read \in Then(Opened, {Append(Lead(stmt), e) : e \in Expressions})
    BY <1>1, <1>10 DEF TextOfBody, InStatement
  <2>. QED
    BY <1>2, <2>2, <2>3, InStatementViable
<1>. QED
  BY <1>1, <1>7, <1>8, <1>9, <1>10 DEF ParserTypes

\* The stages after the parser leave it where it was.
LEMMA AwaitsKept == Awaits /\ UNCHANGED vars => Awaits'
<1> SUFFICES ASSUME Awaits, UNCHANGED vars
             PROVE  Awaits'
  OBVIOUS
<1>1. pc' = pc /\ read' = read /\ stop' = stop
  BY DEF vars
<1>2. AwaitsUnit' /\ AwaitsStatement'
  BY <1>1 DEF Awaits, AwaitsUnit, AwaitsStatement, Left
<1>3. RejectedRightly'
  BY <1>1 DEF Awaits, RejectedRightly, Viable
<1>. QED
  BY <1>2, <1>3 DEF Awaits

\* Every sentence is accepted as far as it is read, and an error is reported
\* at the first token that no sentence goes on with, or at the end of a text
\* that is none: ParseFunction, ParseStatement and ParseExpr of parser.cpp
\* never give up on a program that is right, and never read on in one that
\* can no longer become right, whatever its size.
THEOREM ErrorsArePlaced == FrontSpec => []RejectsAtFirstError
<1>1. FrontInit => Awaits
  BY AwaitsBegins DEF FrontInit
<1>2. FrontInv /\ Awaits /\ [FrontNext]_<<vars, driver>> => Awaits'
  <2> SUFFICES ASSUME FrontInv, Awaits, [FrontNext]_<<vars, driver>>
               PROVE  Awaits'
    OBVIOUS
  <2>1. Next \/ UNCHANGED vars
    BY DEF FrontNext, ParseInput
  <2>. QED
    BY <2>1, AwaitsStep, AwaitsKept DEF FrontInv
<1>3. FrontInv /\ Awaits => RejectsAtFirstError
  <2> SUFFICES ASSUME FrontInv, Awaits
               PROVE  RejectsAtFirstError
    OBVIOUS
  <2>1. stop \in Token \cup End
    BY DEF FrontInv, ParserInv, ParserTypes
  <2>2. pc # "Rejected" => Viable(read)
    BY ReadIsViable DEF FrontInv
  <2>. QED
    BY <2>1, <2>2 DEF Awaits, RejectedRightly, RejectsAtFirstError
<1>. QED
  BY <1>1, <1>2, <1>3, FrontInvariant, PTL DEF FrontSpec
=============================================================================
