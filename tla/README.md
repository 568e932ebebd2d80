# TLA+ models of test-cpp

`test-cpp` is a collection of C++ programs: a few small libraries (an event
loop with sockets, asynchronous scopes, a C front end, core utilities) and many
programs that try out one feature each. This directory models the parts that
have behaviour of their own, checks the models with TLC on small instances, and
proves the main results for all values of the constants with TLAPS.

Paths below are relative to `src/src/`. Every definition that stands for code
is listed with its lines in `PROJECT.json` under `map`.

Contents: [inventory](#1-inventory) · [plan](#2-plan) ·
[models](#3-the-models) · [runs](#4-the-runs) · [proofs](#5-the-proofs) ·
[disagreements](#6-where-code-and-documentation-disagree) ·
[not modelled](#7-not-modelled)

## 1. Inventory

| component | state | operations | what is hard | what makes it right |
|---|---|---|---|---|
| **Asynchronous scopes v1** `lang/random/test_async_scopes_1.cpp` | per object: parent, children, lock state, "parent asked" flag, life state; holders and locked pointers; a blocking root | create in a scope, lock, unlock, move, assign and drop a holder, copy a pointer, request from above, end of a child, `~BlockingScope` | the request, the unlocking and the end of the last child come in any order; whichever is last must act | inside out, once, never under a lock, nobody forgotten, the root returns |
| **Asynchronous scopes v0** `lang/random/test_async_scopes_0.cpp` | a context with operations in a random order, scopes that count | enqueue, poll, scope ends when a count is reached | an operation enqueued once that may see the count too early | the context drains |
| **Message pools** `boost_test/common/test_spsc_queue_0.cpp` | three pools of messages with atomic flags, a bounded lock-free queue, two threads | take, push, pop, visit, give back | the producer scans flags while the consumer clears them; the queue is full; the pool is empty | one owner at a time; nothing leaks |
| **C front end: lexer** `c_frontend/lib/lexer.cpp` | input and position | `next` | prefixes, fractions, exponents, look-ahead at the end, going on after an error | all of the input accounted for, constants whole |
| **C front end: parser** `c_frontend/lib/parser.cpp` | tokens, position, half-built tree | `Parse`, one function per nonterminal | an error inside three calls with a half-built body | the tree spells the input; the first error is reported |
| **C front end: code generator, driver** `c_frontend/lib/codegen.cpp`, `c_frontend/main/main.cpp` | options, module, files | arguments, the stages in order, emission, `clang` | a file that cannot be opened or written, a stage that fails after the one before has left a file | status and files tell the same story |
| **minaio v0** `minaio/v0` | `IOContext`: completion handlers, event handlers, epoll; `Acceptor`, `Connector`: one callback slot each | `Poll`, `AsyncAccept`, `AsyncConnect`, `Close`, dispatch | callbacks that enqueue while the loop pops; level-triggered events nobody takes | one accept in flight, order, every client served |
| **minaio v1** `minaio/v1` | none | wrappers of system calls | – | – |
| **minaio v2** `minaio/v2` | `Context`: queue of operations; `Reactor`: table of descriptors and handlers; `DatagramSocket`: a shared state with two callback slots | `Poll`, `Enqueue`, `Stop`, `Add`, `Remove`, reads, writes, moves, `Close` | a table that changes while it is walked; close with operations under way; exceptions through `Poll` | each callback called once, each descriptor owned once, the loop ends |
| **Core** `core` | values: `SmallFunction` over `SmallTypeErasedBase`; `Result`, `Error`, `UniqueRef`; `Range` | make, copy, move, assign, destroy, access | storage that does not know what is in it; what is left after a move or an exception | one owner for each object; checked access |
| **Object pools** `random/test_mempools.cpp` | a queue of free objects | take, give back | an object that outlives its pool | – |
| **Condition variables** `lang/random/test_condition_var_0.cpp`, `random/test_condition_var_0.cpp`, `random/test_unique_lock_0.cpp` | mutex, flags | wait, notify | a notification before the wait | both threads end |
| **Demos** (Boost.Asio, coroutines, signals, POSIX, command line, exercises, gRPC, language features) | see `PROJECT.json` | | | |

How they interact. The scopes are driven by calls of their users and by an
execution context whose operations call `handleFinishDestroy`. The producer and
the consumer share the queue and the flags of the messages. In `minaio` the
loop calls the handlers of the reactors, which enqueue completion handlers,
which the loop calls, which start the next operation. The front end is a
pipeline: `main.cpp` collects the tokens of the lexer, gives them to the parser
and its tree to the code generator.

The hazards are in `PROJECT.json`, each at the line where it bites, with the
properties that watch it or the reason why none does yet.

Two remarks on the state of the source. `minaio/v0` is skipped by its
CMakeLists (`return()` on line 2) and `minaio/v2` does not compile at this
commit (a missing semicolon, and callbacks that the header keeps in another
class than the definitions): they are designs, read as they are meant. In
`test_async_scopes_1.cpp` the class `T` that finishes later stands under `#if 0`
(lines 399-405); the one that is compiled finishes inside the call. The models
take the disabled one, which the classes are built for: with the other,
`children_` changes under the loop that iterates over it.

## 2. Plan

In the order of importance; all of these are there:

1. `StructuredLifetime` (what scopes promise), `AsyncScope` (what they do),
   `AsyncScopeProofs` (the inductive invariant, the safety properties, the
   refinement); `ScopeHolders`, a layer over `AsyncScope`, proved in the same
   module.
2. `SpscPool` and its proofs: the two threads, single ownership, exhaustion.
3. `Lexer` and its proofs; `Parser`, and `FrontEnd`, which composes it with the
   code generator and the driver, with proofs of both in `FrontEndProofs`.
4. `Acceptor`, and `Connector` beside it on one loop, with proofs.
5. `Context` and `Reactor`, composed by `DatagramSockets`, with proofs.
6. `SmallFunction` and `Results`, with proofs.

Every safety property that a run checks is a theorem; liveness is left to TLC.
What is left is in section 7. Of it, worth the effort one day: the callbacks of
`DatagramSockets` called by handlers of the user's, and the array of events of
minaio v0.

Modules are written to be proved about: constants with named assumptions, one
action per operation, invariants that are conjunctions of named parts. `After`
in the lexer is a CHOOSE and `Notified` in the scopes is a least set, where the
code has loops and recursive calls; the three recursions there are (`Size` and
`Joined` in the parser, `Without` in the reactor) are recursive functions, each
from a sequence's beginning to its end.

## 3. The models

Each operator marked as a slip is a change that a plausible mistake would make
to the definition after it; see *Mutants* in section 4.

### AsyncScope, StructuredLifetime

An object is an `AsyncScoped<T>` together with its holder; the root is the
`BlockingScope`.

| variable | code |
|---|---|
| `parent`, `children`, `user_state`, `parent_triggered_destroy`, `object_state` | the members of `AsyncScopedBase` |
| `pending` | calls of `T::StartDestroy` that `T` has not answered with `handleFinishDestroy` |

| action | code |
|---|---|
| `Create` | `MakeUniqueAsyncScoped` and the constructor |
| `Lock`, `Unlock`, `Detach` | the functions of that name, reached through `LockedPtr` and the holder |
| `FinishDestroy` | `handleFinishDestroy` with `parent_->Remove(*this)` |
| `DestroyRoot` | `~BlockingScope` up to its loop |

The program has one thread. Each action is one call of the user or one
operation of the execution context, run to its end with all the calls it
makes. `handleParentStartDestroy` calls itself down the tree; `Notified(s)` is
what that marks: the least set that contains the children of `s` not told
before and, for each unlocked one in it, its children. Since `T` finishes
later, nothing in the tree changes during the calls, and their order does not
matter.

What users may do is narrowed by two constants, because it matters which
properties need what. `LateDrop`: a holder may be dropped after its object has
started to end (the code then starts it again). `EarlyDrop`: a holder may be
dropped while its scope has children and the scope above has not asked. The
program itself does the second and not the first. That locks and requests
survive a late drop is proved (`LocksAreSafe`, `RequestsArrive`) and has no run
of its own.

`StructuredLifetime` says what a user may rely on: objects are created in
something alive, begin their end once and after everything in them is gone,
and all end once the root is closing. `AsyncScope!Lifetime` maps the state of
an object to its phase; several objects may begin in one call, which is why
`Begin` takes a set.

### ScopeHolders

`holds` is `ptr_` of each holder, `lock` the two addresses in each locked
pointer. Every action is one operation of a handle together with the action of
`AsyncScope` it calls: `Make`, `TakeLock`, `ReturnLock`, `CopyLock`, `Move` (the
move constructor and the move assignment, of a holder to itself too) and `Drop`.
An assertion or a null pointer ends the program (`stopped`). The ghost `misused`
says that a holder was moved, assigned or dropped while a lock taken through it
was out, or that a locked pointer was copied: the TODO in `ReturnLock` is about
exactly this, and `LocksProtect` says that nothing else can go wrong.

A holder whose address a pointer still has is not used to hold a new object.

### SpscPool

Two threads, with one action for each access to shared memory: the flag of one
message (`Skip`, `Claim`), the push, the pop, and the deleter (`Drop`). The
test of a flag and its store are one action, since no other thread sets flags.
The queue is `boost::lockfree::spsc_queue`, modelled by its contract: a bounded
sequence whose push and pop are atomic. The visit of a message touches nothing
that is shared and is left out. When a pool is exhausted `emplace_back()` adds a
null pointer, dereferenced on the next line: `Exhausted` ends the program.

Flags are sequentially consistent in the model; the code uses the default order
of `std::atomic`, which is that.

### Lexer

One action per branch of `Lexer::next`, in the order of the branches, over
classes of characters: two that no test of the code tells apart are one (a
letter and its capital; `a`, `c` and `d`; the digits 2 to 7; `+` and `-`; all
other symbols but the dot). A position of TLA+ is `pos_ + 1`. The value of a
token is its extent. The reference definitions `IntegerConstant` and
`FloatingConstant` are written from C99, suffixes and hexadecimal floating
constants included (and the binary prefix the lexer knows), not from the code.
`ConstantsWhole` says of each constant whether it comes out whole, and so which
ones the lexer breaks (`Broken`): the hexadecimal floating constants, such as
`0x1p3`, read as `0x1` and `p3`, and the decimal ones whose digits begin with a
zero and are not all octal, such as `08.`; no others.

### Parser

The tokens are not given beforehand: each check of the parser chooses the token
it looks at, so that all inputs are explored up to their first error, and an
input is `read` followed by `stop`. Each value of `pc` is one check; between
checks the functions only return to each other. The tree keeps what the code
keeps: statements by kind, in functions. `Sentences` is the language written
down by its sentences and is the reference for `RejectsAtFirstError`.

### FrontEnd

`stage` is the part of `main` that runs, `opt` what the arguments said, `file`
what is in the three files that main may write, `status` what it returned. The
lexer fails or does not; the parser is `Parser`, step by step; `Generate` is
what `Codegen::generate` decides (the first function alone, always 0).
`EmitAssembly`, `EmitIR` and `Link` fail in each way the calls in them can: no
target, no file, no assembly from this target, a write that LLVM ends the
program for, a write that nobody checks, `clang`. Names of functions are
abstract, so that `clang` may reject a program for any reason. The stage
`test` is the parser on its own, as the unit tests use it. Standard output is a
file whose writes do not fail.

### Acceptor, Connector

`IOContext::Poll` is two loops: run the completion handlers until there are
none, then ask epoll while it has events. `pc` is the loop. `Handle` is
`AcceptorReactor::Handle`, called by dispatch and, at once, by `AsyncAccept`.
The callback is that of `unittests/test_acceptor.cpp`: count, and accept again
until `Wanted`, or close the acceptor. Clients connect between any two steps.
epoll, `accept4` and the backlog are the kernel's, modelled from their use:
level-triggered, in order, gone when the socket is closed.

`Connector` adds a connector to the loop. Its initiation is an empty function
and connects nothing, yet its socket is registered for `EPOLLOUT`, and epoll
reports that of a socket that is not connected too. So the loop over events
does not end while there is a connector; `HandleConnector` may enqueue a
completion, which never runs. This is why no action of the module runs it.

### Context, Reactor, DatagramSockets

`Context` is the queue `ops_` with `Poll` in steps: `PollBegin` takes its batch
and appends the turn of the reactor; `Ran` is the end of one operation, `Thrown`
the way out by an exception, where the scope guard resets
`poll_in_progress_`. `Reactor` is the table, walked by index; a handler leaves
the table as it likes, and the index moves on only if its size is the same.

`DatagramSockets` composes the two. A state, with its descriptor and two
callback slots, is shared by the socket and by what it has enqueued. The queue
holds `Completion` records; the code moves whatever callback it finds out of
the slot, and the model notes for which callback it was meant, so that `wrong`
can say that it found another or none. `User` is what the user may do, between
two calls of `Poll` or at the end of a callback. `Init` chooses whether the
sockets' descriptors are in the reactor at all (`Registers`): the constructor
prepares the flags for `Add` and does not call it. `HandleEvent` is `HandleEvent`
with the reads (`Restarted`), writes and the close it leads to.

Two ghosts say where the code gives no promise: `rushed`, an operation was
started, by the user or again by an event, or closed while a completion of its
direction was queued; `meddled`, a handler did more to the table than remove itself or one entry before it.

### SmallFunction

One variable is two pointers and some bytes. `object` is what lives in the
bytes: nothing, a whole object, one that was moved from, or one made from the
bytes of a destroyed one. `held` is what a `std::function` treated alike would
hold. `spoilt` collects the variables that met the two operations the class does
not survive (section 6); the properties are about all others.

### Results

One module for the four kinds of `Result` that the code uses, with what they
carry: `is` is the alternative, `ptr` the pointer in it (of a `UniqueRef` or an
`Error`), `used` the objects on the heap. `Answers` is what checked access
does: answer, throw, follow null, or end the program.

## 4. The runs

| run | instance | distinct states | what it shows |
|---|---|---|---|
| `scopes` | every tree of at most 4 objects; `EarlyDrop`, not `LateDrop` | 106,386 | `ChildrenFirst`, `LockedIsAlive`, `NoLostRequest`, `NothingForgotten`, `DestroyOnce`; refinement of `StructuredLifetime`, liveness included; `~BlockingScope` returns |
| `scope_waiting` | 3 objects; `EarlyDrop` | – | violation of `JustWaiting` (section 6) |
| `holders` | 3 objects, 2 holders, 2 pointers | 441,860 | `LocksProtect`; `ReturnsOrStops` |
| `spsc` | pools of 4, 4 and 2, queue of 2 | 6,087 | `OwnedOnce`, `NeverExhausted`, `Recycled` |
| `lexer_all` | all strings of at most 4 of 18 characters, and of at most 6 of 7 | 1,198,367 | `Tiled`, `ConstantsWhole`, `ReachesEnd` |
| `lexer_float` | at most 5 of 5 characters | – | violation of `FloatsExact` (section 6) |
| `frontend` | 2 functions sharing 2 statements, all arguments, all failures | 152,420 | `TreeSpellsInput`, `RejectsAtFirstError`, `ExitTellsOutcome`, `OnlyAskedForTouched` |
| `acceptor` | 5 clients, 3 at a time, 4 wanted; failing accepts, close, a connector | 413 | `OneInFlight`, `InOrder`, `ServedOrStarved` |
| `acceptor_crowd` | 5 clients, two at a time, no connector | – | violation of `EveryoneServed` (section 6) |
| `datagrams` | 2 sockets, 2 descriptors of the user's, 2 operations, a table of 2 | 470,580 | `Matched`, `OneOwner`, `HandledOnce`, `ClosedIsAnswered`, `StopEnds` |
| `callables` | 3 variables, 2 callables | 8,580 | `Owned`, `CallsWhatItHolds` |
| `results` | 3 variables, 4 objects | 907 | `OneOwner`, `CheckedAccess` |

Every passing run checks one type invariant too, but for `holders`, whose types
are part of the proof.

**Bounds.** Four objects give a chain of depth four, a scope with three
children and the shapes between: the code treats a parent, a node and its
children, so a request that is passed on, held up by a lock half-way and
carried on below it needs three levels and a sibling. Three objects with two
holders leave one that no holder holds any more; two pointers are a lock and
its copy, or the locks of two holders that are exchanged. The safety properties
of both modules are proved for any number. Three pools are the program's own: a
pool of two runs out behind a queue of two, one of four, two larger than the
queue, is the smallest for which `NeverExhausted` is claimed. Two functions and
two statements let a statement go astray between functions and within one. Four
characters hold each prefix with a digit, a suffix and its neighbours, and
`1e+1`; six of those of floating constants hold `0x.8p8` and `08.8e8`, and
nothing in `next` looks further ahead than two. In the acceptor
three waiting clients are one accepted, one queued and one behind; one client
more than are wanted is never served. Two sockets are the least that can be
moved onto each other. Two operations (`MaxCalls`) are one in each direction,
two in one direction, or one on each socket; one datagram (`MaxWaiting`) is
there or is not; a table of two (`MaxTable`) can shrink before, at and behind
the index, and grow again, while the sockets may be in it beside the user's
descriptors. Three variables are the target, the source and a bystander that was
copied from either.

`CHECK_DEADLOCK FALSE` stands in every cfg because each of these systems may
stop: all objects ended, the producer has crashed, the end of the input, the
driver has exited, the server has exited, the loop has ended; of `callables` and
`results` nobody asks that they go on, and a copy of a moved-from error ends the
program.

**Fairness.** `AsyncScope`, `ScopeHolders`: weak fairness of `Polling /\
FinishDestroy(o)`, because `~BlockingScope` runs the execution context as long
as it has children and only then is anybody bound to; weak fairness of
`Unlock(o)` (of `ReturnLock(p)` with handles), because a locked pointer lives in
a block and the program has one thread. Nobody has to create, lock or drop.
`SpscPool`: both threads run on, each is weakly fair as a whole, not action by
action. `Lexer`: its caller calls `next` until the end. `Acceptor`,
`Connector`, `DatagramSockets`: the thread of the loop runs on, as a whole;
clients and users owe nothing, and datagrams need not arrive.

**Conditions in the liveness properties.** `BlockingScopeReturns`,
`ServedOrStarved`, `ClosedIsAnswered` and `StopEnds` name the states in which
the code does not keep its promise, each one found by TLC and each one a
hazard: a dropped scope that was forgotten; a loop over events that starves the
handlers; a completion that calls an empty function; a handler that meddles with
the table, so that the walk need not end. They show that there are no others.

**Mutants.** Each property of a passing run has a change of one definition,
such as a plausible slip would make (a state that is not looked at, a test one
off, a reset that is missing), under which TLC finds it violated. They are the
operators marked as slips in the modules.

## 5. The proofs

`AsyncScopeProofs`, for every set of objects, of any size:

- `Invariance`: `Inv` holds always, whatever users do. The safety properties
  are not inductive. `NoLostRequest` speaks of children, so `Inv` ties
  `children` to `parent` (`ChildrenOk`) and says that what does not exist has
  no state (`UnbornOk`); to show that nothing starts under a lock or above
  children it carries `StartedOk`; `PendingOk` ties the answers awaited to the
  objects started.
- `TypeCorrect`, `LocksAreSafe`, `RequestsArrive`, `NobodyForgotten`: the types,
  `LockedIsAlive`, `NoLostRequest`, `NothingForgotten` follow from `Inv`, with no
  assumption on the holders.
- `DestroyedInsideOut`, `DestroyedOnce`: `ChildrenFirst` and `DestroyOnce`,
  assuming `LateDrop = FALSE`. The strengthening `OnceInv` adds that at most
  one answer is awaited and that an object is among its parent's children
  exactly until it is destroyed.
- `DetachedJustWaiting`: `JustWaiting`, assuming `EarlyDrop = FALSE`: the
  comment in the code is right about scopes that are not dropped early.
- `Refinement`: `Spec => ImplementsLifetime`, assuming `LateDrop = FALSE`. Each
  action maps to one action of `StructuredLifetime` or to a stutter.

The least set `Notified` is dealt with once, in `NotifiedFacts`: the marked
objects are closed under the rule, were not told before, and are children of
something.

There also, about `ScopeHolders`, for any number of objects, holders and
pointers: `LocksAreKept` (`LocksProtect`). Its invariant says, until something
is misused, that holders hold different objects which exist and were not
detached, that each pointer is alone on its object and at home in its holder,
and that whatever is locked has a pointer. No assumption on `LateDrop` or
`EarlyDrop`.

`SpscPoolProofs`, for any number and size of pools and any queue: `TypeCorrect`,
`SingleOwner` (`OwnedOnce`), which needs one more fact: while the producer scans
it holds nothing (`ScansEmptyHanded`). `LargePoolsSuffice` (`NeverExhausted`)
counts: what the scan has passed over and what is in use ahead of it were
together in the queue or with the consumer, so no more than its capacity and
one (`ScanBound`); a pool larger than that has a free message ahead.

`LexerProofs`, for inputs of any length: `TypeCorrect`, `NothingLost` (`Tiled`),
`ConstantsTaken` (`ConstantsWhole`). Each branch of `next` looks for the first
position whose character is not of a class; `AfterEnds` shows, by the least
number, that there is one and that all before it are of the class, so that the
CHOOSE in `After` is what the loop of the code computes. `TilingInv` adds that
the position is where the last token ends. For `ConstantsTaken` the C99
constants are taken apart (prefix, digits, fraction, exponent, suffix) and
followed through the branches one by one; that none of them continues a longer
constant is used where the next character decides. For those of `Broken` it is
shown that the loops stop before the end: none of them takes a `p`
(`NumberSpan`), and the octal one stops at the first digit that is not octal
(`OctalRead`).

`ConnectorProofs`, for any number of clients: `OneAccept` (`OneInFlight`) is
inductive once the types of the queues are known (`LoopTypes`); three lemmas say
what appending and popping do to the set of queued accepts. `TypesKept`
(`ConnectTypeOK`) adds that at most one completion of the connector is queued
(`OneConnect`), for the bound on the queue. `HandedOverInOrder` (`InOrder`):
the connections served, the one in flight and those in the backlog are numbered
one after the other (`Ordered`, with `Follows`). It needs both others: as one
accept is in flight at most, what runs is the next one, and it is a client's
number.

`DatagramProofs`: `SocketsOwn` (`OneOwner`) for any number of sockets, moves of
a socket onto itself included; inductive with the types of `state` and `open`.
`CompletionsMatch` (`Matched`) for any number of sockets, operations and
descriptors. `MatchInv` says that as long as nothing is `rushed` the queue is
`Orderly`: it holds one completion at most for each direction of a state
(`EachOnce`), and the callback that completion is for is still set (`EachSet`).
An operation that completes, an event and a close enqueue only for directions
that are `Free` (`Enqueues`); the completion that runs frees its own (`FrontRuns`,
`OtherCallback`). Exceptions leave the queue as it is, and the proof needs that
the reactor runs inside a batch (`at = 0 \/ left > 0`).
`EachHandledOnce` (`HandledOnce`) is about the table of the reactor: no two
entries have one descriptor (`Distinct`), the handlers before the index have been
called once and those from it on not at all. What `Without` leaves is the
entries of other descriptors in their order (by induction along the table), so
that when a handler takes out its own entry or one before it, the entries behind
move down by one and the index, which stays, is at the next one. `SocketsTyped` (`TypeOK`) is inductive together
with it; it needs that a walk is on only while the turn of the reactor is at the
front of the queue. `DatagramAssumption` asks that the descriptors be finitely
many, which they are in every process.

`FrontEndProofs`, for programs of any size. Of the driver: `ExitIsHonest`
(`ExitTellsOutcome`) and `OthersUntouched` (`OnlyAskedForTouched`). `DriverInv`
says what each stage may rely on (`StageInv`): before the code generator has
succeeded nothing is touched and nothing answered, from it on the program is an
accepted one, and an executable always has a name.

Of the parser, under the driver's steps: `TreeIsTheInput` (`TreeSpellsInput`),
`FrontTyped` (`FrontTypeOK`), `ErrorsArePlaced` (`RejectsAtFirstError`).

- The texts of a tree are defined by recursion; `Recursion` shows that such a
  function exists and `FollowTogether` that two of them agree where their steps
  do, from which `JoinedOfMore` and `SizeOfMore` say what one more member adds.
- `TextInv` says for each check what has been read: the texts of the complete
  functions, then of the open one, then the beginning of a statement. `Counts`
  counts what has been begun before it is pushed.
- For errors the language is read from the left (`FromLeft`: a list that grows
  at its end also grows at its beginning). `RestOfBody`, `AtExpr` and the like
  are what may follow at each check; `Awaits` says that whatever makes a
  sentence of what has been read is among them. The first tokens of these
  languages (`HeadingOpens`, `StatementOpens`, `ListsOpen`) are exactly those the
  checks let through, so a token that is refused continues no sentence.
- The converse is `ReadIsViable`: what is open can be closed, with a semicolon, a
  brace or more, and `Counts` says that there is room for it. This is what the
  bounds could have spoilt, and why `Viable` is a claim about them too.

`SmallFunctionProofs`: `TypeCorrect`, `DestroyedOnce` (`Owned`), `ValueSemantics`
(`CallsWhatItHolds`) for any number of variables and types; the three are
inductive together. `ResultsProofs`: `TypeCorrect`, `Ownership` (`OneOwner`),
`AccessIsSafe` (`CheckedAccess`); to show that null is only met after a move it
carries `NullIfMoved`.

Assumptions on constants are those named in the modules; TLC evaluates them on
every run. Induction, over the length of an input, a table or a list, is done
with the least number for which a claim fails (`WFMin` of the library), since the
induction theorems, which take an operator, cannot be applied.

Only model-checked is liveness (`BlockingScopeReturns`, `ImplementsLifetimeLive`,
`ReturnsOrStops`, `Recycled`, `ReachesEnd`, `ServedOrStarved`, `ClosedIsAnswered`,
`StopEnds`), which is out of the prover's reach, and what the runs of section 6
refute.

## 6. Where code and documentation disagree

Shown by runs:

- `scope_waiting`: a detached scope is said to be "just waiting for completion
  of destruction" when its parent's request comes. One that was dropped with a
  child, and whose child ended before that request, waits for nothing and is
  never started; `~BlockingScope` then spins. `scopes` shows that it returns in
  all other cases.
- `lexer_float`: `FloatsExact` has two halves. `FloatsWhole`: `08.` is the two
  constants `0` and `8.`, with no error, and `0x1p3` the constant `0x1` and the
  identifier `p3`. `DecimalOnly`: the fraction, "for
  decimal only", is read after any base.
- `acceptor_crowd`: when a second client waits, the loop over events goes round
  for ever and no completion handler runs: `ch_` is empty, so the event is not
  taken, and level-triggered epoll repeats it.

Met while modelling, and built into the models as they are:

- `SmallTypeErasedBase::operator=(SmallTypeErasedBase const&)` copies from its
  own storage, just destroyed, and not from the other variable's; and every
  assignment sets `policy_` before a constructor that may throw (`spoilt`).
- A connector's socket keeps the loop over events going (`Starved`).
- An event, or a close, adds a second completion for a callback whose first is
  queued (`Matched`, with `rushed`).
- The printed module may be cut short with exit status 0 (`EmitIR`).
- A socket or a holder that is move-assigned to itself is empty afterwards.

## 7. Not modelled

By intention: code that only calls a library or a system call (minaio v1, most
of the Boost, gRPC, POSIX and LLVM code), programs that show a language feature
and keep no state, `protos` and other generated code, build files. The exercises,
object pools, condition variables and coroutines are sequential or are
demonstrations that promise nothing a property could state.

Scopes v0: its operations run in a random order and count until a random
number; whether it ends depends on those numbers.

Within the modelled parts:

- scopes: the `T` that finishes inside `StartDestroy` (undefined behaviour in the
  loop over `children_`); the assignment of `nullptr` to a holder, which returns
  nothing and is not used;
- front end: the instructions generated; failures of standard output;
- minaio v0: ownership of the descriptors of accepted connections, where sockets
  are copied and close their descriptor when destroyed; the array of events,
  whose stale entries are dispatched too (with one descriptor a stale entry only
  repeats `Handle`); the stream socket, which has no body;
- minaio v2: adding a descriptor twice; handlers of the user's that call the
  sockets themselves; what a callback is told (an empty datagram is reported as
  a closed descriptor);
- core: `Range`, class identifiers, `SmallAny` (commented out).
