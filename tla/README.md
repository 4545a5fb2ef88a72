# A TLA+ model of the brisk compiler

`briskc` compiles one brisk source file to an x64 COFF object file.  It is a
single-threaded program of some 6000 lines of C++ (`src/src/briskc`,
`src/src/common`): a lexer, a recursive-descent parser with deferred calls, a
type checker that also retypes literals, and a one-pass code generator on top of
an emitter, a register allocator, a stack allocator and a COFF writer.  Nothing
runs concurrently; what is hard is *order*: which visit pushes and which pops,
which register is still needed, when a deferred call runs, which scope a name is
looked up in, which byte is patched later.

Line numbers below are those of the source files.

## 1. Inventory

| Component | State | Operations | Correct if |
|---|---|---|---|
| Lexer, tokens (`lexing/`, `token*.cpp`) | file offset, row, column, peek queue | `next`, `peek(n)` | the tokens are those of the lexical grammar, each handed out once and in order however far one looks ahead; nothing is read beyond the file; a row and column lead back to the text |
| UTF-8 reader, string views (`utf8.cpp`, `string_view.cpp`) | none | `read_code_point`, `to_unescaped_string` | a character is read whole or refused; an escaped text comes back |
| Symbol tables (`ast/symbols.cpp`) | tree of scopes: name to declaration | `add_var`, `add_fn`, `add_fn_arg`, `find` | a name means one declaration at each place |
| Parser, grammar (`parsing/`) | current token, scopes, deferred calls, stack of explicit literal types | one parser per construct, `defer`, `parse` | tree respects precedence; every type is set before it is read |
| Type checker, converters (`types/`) | number of errors, the types in the tree | one visit per node, `try_static_convert` | nothing ill-typed reaches the generator |
| Register allocator (`register_allocator.cpp`) | registers in use, mode, evaluation stack | `get_free`, `free`, `push`, `pop`, `prepare_call`, `end_call_prepare` | a register in use is never handed out; RAX, RDX, RSP never |
| Stack allocator, address tables (`stack_allocator.cpp`, `addr_table.cpp`) | next displacement; stack of name-to-slot tables | `reserve`, `reset`, `add`, `find`, push and pop of tables | live variables share no byte; a name means the innermost slot |
| Generator (`generator.cpp`) | all of the above, `.data`, indices of symbols | one visit per node, `write_to_disk` | operands survive until they are used; jumps land; patch sites are disjoint |
| Emitter (`emitter.cpp`, `x64.h`) | a byte buffer | one function per instruction | the bytes decode to the instruction that was asked for |
| Byte buffer (`byte_buffer.cpp`) | block, length, write offset, capacity | `write`, `write_at`, growth | writes stay in the block, growth loses nothing |
| COFF writer, reader (`codegen/coff/`) | sections, symbols, string table | `add_symbol`, `add_relocation`, `set_section_content`, `write_to_disk` | every pointer of the file leads to what it is for |
| Driver (`briskc.cpp`) | none | the stages in order | an exception ends the compilation |

**Interaction.**  The driver calls parser, checker and generator in order on one
tree.  The parser pulls tokens from the lexer, builds nodes and scopes, and
queues closures (`BriskParser::defer`) that set types once the whole file has
been read.  The checker reads and rewrites the types of that tree.  The generator
visits the tree and calls the allocators and the emitter; it remembers offsets
into the emitter's buffer (jumps, relocations) that are patched later, by itself
or by the linker, and hands its buffers to the COFF writer.

**Hard behaviours.**  Balance of the evaluation stack over nested visits;
thirteen shared registers, three reserved ones and a call mode that forgets what
the argument registers hold; deferred calls whose order must respect the flow of
types; two independent name lookups (parser scopes and address tables) that must
agree; literals retyped in place; one-byte jump distances and displacements; an
unordered map of sections traversed three times; a lexer that reads words twice
(once for keywords, once for names) and counts columns in characters but lengths in
bytes.  `PROJECT.json` lists each of
these hazards at its line with the properties that cover it.

## 2. Modules

| Module | Models | Correspondence |
|---|---|---|
| `Utf8`, `StringView` | `utf8.cpp`, `string_view.cpp` | `read_num_bytes`, `read_code_point` and when it throws; unescaping |
| `Lexer` | `lexer.cpp`, `token_type.cpp` | a call of `next` or `peek` and, below it, `next_internal` as a machine with one action per character consumed; the queue of `peek` |
| `LexicalGrammar`, `TokenStream` | nothing: the specification of a lexer | tokens as whole runs of characters; a stream that hands each out once. `Lexer` implements it (`KeepsStream`) |
| `RegisterAllocator` | `register_allocator.cpp`, registers of `x64.h` | `Candidates`/`Grants`/`CanGrant` = `get_free` in both modes and its throw; `Freed`, `PreparedForCall` |
| `StackFrame` | `stack_allocator.cpp`, `addr_table.cpp` | constants of the frame, `WithEntry` = `add`, `IsInnermost` = `find` |
| `Emitter` | `emitter.cpp` | one operator per emitter function, returning the bytes it appends |
| `X64Decoder` | nothing of the repository: the instruction set | decodes the subset of x64 the emitter uses, written from the meaning of prefixes, opcodes and ModRM |
| `EmitterCheck` | sequences of emitter calls | `buffer` against the list of instructions asked for, each with the registers its bytes can name (`Named`) |
| `OperatorCode` | `integral_bin_op`, `boolean_bin_op` of `generator.cpp` | the code of each operator, what it does to the registers (`Effect`), and when an instruction cannot name the register meant (`Misnames`) |
| `Processor` | the generator's operators, run | loads literals and emits operators as the generator does; an x64 machine on decoded instructions executes the bytes, and its registers are compared with what `Effect` says they hold |
| `Generator` | the rest of `generator.cpp`, on top of the allocators, the frame and the emitter | the C++ recursion as an `agenda`; `VisitX` is a visit up to its first recursive call, `EndX`/`PopX`/`ApplyX` what follows it |
| `OperandStack` | abstract machine with a stack of operands | the specification the registers implement (`KeepsOperands`) |
| `ByteBuffer`, `ByteLog` | `byte_buffer.cpp`; an append-only log with patches | `Write`, `WriteAt`; the buffer implements the log (`KeepsLog`) |
| `CoffWriter` | `coff_writer.cpp`, `coff.h`, reader of `coff.cpp` | the file as a sequence of sized chunks; `ReadsSection`/`ReadsSymbol` follow its pointers |
| `SymbolTable` | `symbols.cpp`, `precedence.h`, infix part of `grammar.cpp` | `find_base`, `Addable` = `validate_add`, `Binds` |
| `BriskParser` | `brisk_parser.cpp`, `parsers/*.cpp` | one action per step of a parser; `Run...` actions run the deferred calls |
| `FrontEnd` | `type_checker.cpp`, `type_converters.cpp`, and the names of `generator.cpp` | `Check...` and `Generate...` actions walk the tree the parser built |
| `MCGenerator`, `MCCoff`, `MCFrontEnd`, `MCLexer` | small instances | symmetry, orders of sections, families of programs and files |
| `GeneratorProofs`, `RegisterProofs`, `OperandProofs`, `LayoutProofs`, `ByteBufferProofs`, `LexerProofs`, `FrontEndProofs`, `BindingProofs` | theorems | section 5 |

**Programs are chosen while they are compiled.**  Neither `BriskParser` nor
`Generator` gets a program.  Whenever the code looks at the next token or node,
the model lets it be any that is allowed there.  So a run covers every program
within its bounds.  `Generator` starts from typed trees: the type an
expression must have is handed down (`ExprItem`) as the checker guarantees it;
what the front end really lets through is `FrontEnd`'s subject.

**What is abstracted.**  `Generator` keeps of the emitted code its length, the
places patched later, and its effect: `contents[r]` is the node whose value
register `r` holds when the code emitted so far has run.  That is the effect of the
bytes, not of what was meant: a move into R8 is recorded in RAX, a byte put into RBP
in the register of CH, because that is where the bytes put it (`Moved`, `Addressed`,
`Effect`).  Three history variables are read by properties only: `leaks` counts
registers lost, `abandoned` the entries of the evaluation stack that nothing will pop
(arguments of calls, values of expression statements), and `misencoded` is set by the
first instruction that names another register than the generator means.  Values of literals,
texts of names and messages are left out there.  `Processor` keeps the values and
leaves out the rest: in it a byte has `ByteBits` bits, so that a register can be
enumerated, and the sizes of types are still 1, 2, 4 and 8 such bytes.  In `Lexer` a
character outside ASCII is represented by its first byte, which is all the lexer
tells apart; `extra` is a free choice of what `std::isalpha` and `std::isdigit`,
undefined for such values, answer.  In `CoffWriter` a name is its length
and an identity; content is a size.  In `ByteBuffer` a byte is one of two values.

**Mistakes.**  Next to some definitions stands a variant under a comment
"Mistake": the same operator with a plausible slip (a reset left out, an offset
off by one, operands swapped).  They are never used in a specification.  Put in
place of the real definition, each makes the property it was written for fail;
that is how it is known that the property says something about the code.

## 3. Runs

Each run is a `.cfg` file beside its module; `tlc -config X.cfg M`.

| Run | Question | Bounds, and why they suffice |
|---|---|---|
| `MCExpressions` | do the registers implement an operand stack in programs without calls; is exactly what `ret` and `if` pop lost; do jumps land | 4 nodes, all nine operators, sizes 1, 4 and 8; two operands in progress, an `if` around them, unused values left below and bytes moved to RBP already occur |
| `MCCalls` | does the allocator give arguments RCX, RDX, R8 in order, and are they there as far as the encoding allows; does what a call leaves on the stack stay out of the way; are strings, symbols and relocations consistent | 4 nodes, up to 3 arguments that are literals, strings or names, two functions |
| `MCFrames` | do live variables overlap; do tables follow blocks; does call mode end with the outermost call | 6 nodes, calls in arguments of calls, 5 interchangeable names, 1- and 8-byte types, 0 to 5 parameters (five throw) |
| `MCExhaustion` | when does `get_free` throw; does every compilation end | 28 nodes: enough `ret`s for thirteen lost registers |
| `MCEmitter` | do the bytes decode, and which registers do they name | two instructions, registers 0 to 3 and 6 as operands, 1, 3 and 6 in byte instructions, 1, 6, 8 and 15 as sources of stores, 1, 3, 6, 8, 10 and 13 in moves, displacements 8 and 127 |
| `MCByteBuffer` | does growth stay in the block and keep the bytes; does `write_at` refuse what is not written | up to 7 bytes, writes of 0 to 3, both constructors, patches at offsets to 7 |
| `MCCoff` | does every offset lead back; where do section numbers lead | both orders of the sections, 2 symbols with names of 7, 8 and 11 characters, 2 relocations |
| `MCOperators` | do the bytes of the operators compute what they mean, without a fault | 1-bit bytes, so words of 4 and 8 bits; 5 emissions, so that results are operands again; RCX, RBX and RBP, whose number means CH in byte instructions, with up to three of them in use, so that a byte put into CH meets an operand |
| `MCLexer` | is the lexer a token stream; do positions lead back; does every call return | every file of up to 3 varied characters or symbols and up to 4 of words, strings with comments and lines, or characters of several bytes; looking 2 tokens ahead |
| `MCFrontEnd` | is all that is referred to there; precedence, deferred types, agreement of the two lookups, typing | all statements to 5 nodes, then nested declarations and long expressions to 8 |

Two runs end in a violation.  Each shows a place where the code does not do what a
comment of it says:

* `MCComputedArgument`: an argument that is a binary expression ends up in the
  register of the next argument (`generator.cpp:197` lists the registers in order).
* `MCThirdArgument`: the literal that is the third argument of a call is moved into
  EAX instead of R8, since the move has no REX.B (`generator.cpp:197`,
  `emitter.cpp:140-145`).  Variables and strings as third or fourth arguments are
  lost likewise (`emitter.cpp:222-229`, `251-308`).

The other runs keep clear of the first: `MCCalls` has no computed arguments.  They do
meet the second, and say what holds up to there: properties about values in registers
(`ValuesHeld`, `KeepsOperands`, the second half of `ArgumentsInOrder`) speak of
programs in which no instruction so far has named another register than the one meant
(`misencoded`).

**Scope of some properties.**

* Code that runs after a `misencoded` instruction works on wrong values, and nothing is
  claimed of it.  There are two families: R8 to R15, which no instruction but the stores
  to a stack slot extends, and byte instructions on RBP, RSI and RDI, which have no REX
  prefix and so mean CH, DH and BH.  The second needs no large program: in
  `ret true` followed by `ret a == b`, or in `a == (b == c)`, the result is due in RBP,
  the third register that is handed out, and is written into CH instead.
  `BufferDecodes` fixes which register the bytes name and `OperatorsCompute` what
  running them does, so the generator's record is not taken on trust.
* `ValuesHeld` and `Balanced` hold in `MCCalls` because there a call is a statement.
  A call statement leaves its arguments on the evaluation stack for good; `Balanced`
  says that no later pop meets one of them and that nothing else is left.
  A call used *as a value* pushes nothing (`generator.cpp:195-211`), so whoever pops
  takes another operand or pops an empty stack; the model has that behaviour
  (`PopEmpty`, status "undefined") and `MCFrames` explores it.
* `MCCalls` has no division.  `prepare_call` frees RDX among the argument registers
  and nothing reserves it again (`register_allocator.cpp:78-81`), so after a call RDX
  may hold an operand when a division clears it.
* `OperatorsCompute` has premises, gathered in `Meant`: division of types of at least
  four bytes, on non-negative numbers and by something other than zero (RDX is cleared,
  not sign-extended, and a move of one or two bytes leaves the rest of EAX);
  `==` and `!=` on registers whose upper bytes are clear (they compare four).  When a
  byte goes to CH the run has no value to check in the register meant, and checks that
  all others are as the model says.  Outside them the code computes something else; section 6 lists the cases.
* `PositionsPointBack` is about tokens without characters of several bytes: a column
  counts characters, the length subtracted from it counts bytes.
* `CallsReturn` says that a call of the lexer ends, unless it is inside a string that
  is never closed; that one is consumed beyond the end of the file for ever
  (`lexer.cpp:346`), which `LexicalGrammar` calls "hang".
* `InBounds` is about patches at offsets up to the longest buffer; the end of an offset
  next to 2^32 wraps (`byte_buffer.cpp:68`) and would pass the guard.
* `SectionsNumbered` does not say that the numbers are right: they are for one order of
  the map of sections, and wrong for the other.
* `peek(m)` for a place *before* an end of file that is already queued is left out: the
  code answers with the end of the file (`lexer.cpp:62`), and the parser never asks,
  since it only calls `peek(1)`.

**Fairness.**  `MCExhaustion` assumes `WF_vars(Next)` and `MCLexer` weak fairness of
`Scan`, the steps of a call in progress.  The compiler is one thread that waits for
nothing, so it takes its next step while it has one; that the parser calls the lexer
again is not assumed.  A program is finite (`MaxNodes`), and so is a file.

**Bounds of the lexer.**  `MaxPeek` limits the offsets asked for, `ColumnLimit` stands for
2^32 and is larger than any column of the files, and `Finished` ends the questions
after the second end of file.  Loops of the lexer react to one character and the one
after it, keywords to a whole word: files of four characters hold a word with a keyword
in front, a comment with something on both sides, an escape in a string, and a
character cut off by the end.

**Deadlock** is checked in every run.  A compilation that has ended (`done`,
`threw`, `undefined`, `aborted`) stutters in an action of its own.

## 4. What the properties say

*Lexer.*  `KeepsStream`: refinement of `TokenStream`: whatever `peek` did before, `next`
hands out the tokens of the grammar in order, `peek(n)` shows the one that will be the
n-th, and the lexer throws only when reading ahead meets something that is no token.
`ReadsInsideFile`, `LexerTypeOK`: offsets and tokens stay in the file.
`PositionsPointBack`: from the row and the columns of a token one finds its text.
`StringsUnescape`: the text of a string literal, escaped again, gives the literal.
`CallsReturn`: liveness, above.

*Generator.*  `Balanced`: whoever pops the evaluation stack gets the operand it
has just visited, and between statements nothing is left on it but arguments of earlier
calls and unused values, one entry for each.  `ValuesHeld`: an
operand or argument that is still to be used is still in its register.
`KeepsOperands`: refinement of `OperandStack`.  `ReservedRegisters`: nothing is
ever computed in RAX or RSP.  `RegistersAccounted`, `ThrowsOnlyWhenFull`: the
allocator's count is the reserved registers, those in use and those lost by `ret`
and `if`, and it throws only when that is all of them.  `ArgumentsInOrder`: the
allocator follows the calling convention, and the values are there as far as the
encoding allows; `ArgumentsDelivered`: they are there, which fails for the third.
`CallModeInCalls`: however calls are nested, the allocator is out of
call mode when the outermost is over.  `SlotsDisjoint`, `SlotsInFrame`,
`ScopesFollowBodies`: the frame.  `JumpsLandInReach`, `PatchSitesDisjoint`,
`StringsDistinct`: the emitted code and the object file's tables.

*Emitter.*  `BufferDecodes`: what is decoded is what was asked for, but for the registers
that the bytes cannot name.

*Processor.*  `OperatorsCompute`: when the code of an operator has run, each register that
stands for an operand contains its value, in all bytes that later code looks at.
`RunsWithoutFault`: the fixed jumps inside an operator land on its instructions and a
division whose divisor is not zero does not fault.  `ProcessorTypeOK`.

*Byte buffer.*  `InBounds`, `CapacityBound`, `KeepsLog`.

*COFF.*  `ReadsBack`: every offset leads to what it is for, whatever the order of the
sections.  `SectionsNumbered`: the section number of a symbol leads to its section
exactly if `.data` comes first.  `StringTableSized`.

*Front end.*  `FrontTypeOK`: children, owners, callees, symbols and scopes are there, a
scope that is closed has one around it.  `PrecedenceRespected`: shape of the tree for any sequence of
operators.  `TypesResolved`: unless a name is used before its declaration is
complete, no null type is ever read and every name is found.  `BindingsAgree`:
the declaration whose type the parser used is the one whose slot the generator
uses.  `WellTyped`: after the literals have been retyped, everything outside
arguments has the type asked for.

## 5. Theorems

Checked by TLAPS for every value of the constants that satisfies the named
assumptions of the modules: for the generator any types, names, operators, shapes of
expressions and lengths of programs; for the byte buffer any widths and capacities
(`NoWrapAssumption`: four times the longest buffer fits in `u32`); for the lexer any
files; for the front end any names, headers of functions, operators and lengths of
programs.  Each theorem rests on an inductive invariant; there is one lemma per action or
family of actions.

| Module | Theorem | States | Strengthening |
|---|---|---|---|
| `GeneratorProofs` | `TypeCorrect`, `RegistersReserved`, `ScopesBalanced` | `TypeOK`, `ReservedRegisters`, `ScopesFollowBodies` | `IInv` |
| `GeneratorProofs` | `CallModeEnds`, `StackBalanced` | `CallModeInCalls`, `Balanced` | `CInv` |
| `RegisterProofs` | `OperandsKept` | `ValuesHeld` | `PlainInv`, `HeldInv` |
| `RegisterProofs` | `EveryRegisterAccounted`, `FullWhenThrown` | `RegistersAccounted`, `ThrowsOnlyWhenFull` | `AccountInv` |
| `OperandProofs` | `ArgumentsPlaced` | `ArgumentsInOrder` | `ArgInv` |
| `OperandProofs` | `OperandsImplementStack` | `KeepsOperands` | `NumberedInv` |
| `LayoutProofs` | `VariablesInFrame`, `VariablesApart` | `SlotsInFrame`, `SlotsDisjoint` | `FInv` |
| `LayoutProofs` | `StringsApart` | `StringsDistinct` | `StringsIn` |
| `LayoutProofs` | `SitesApart`, `JumpsLand` | `PatchSitesDisjoint`, `JumpsLandInReach` | `SitesInv` |
| `ByteBufferProofs` | `WritesInBounds`, `CapacityBounded`, `ImplementsLog` | `InBounds`, `CapacityBound`, `KeepsLog` | `IInv`, `LInv` |
| `LexerProofs` | `Types`, `NoReadBeyondEnd` | `LexerTypeOK`, `ReadsInsideFile` | `IInv` |
| `FrontEndProofs` | `FrontTyped`, `PrecedenceSafe`, `WellTypedSafe` | `FrontTypeOK`, `PrecedenceRespected`, `WellTyped` | `FrontInv` |
| `BindingProofs` | `BindingsSafe`, `TypesSafe` | `BindingsAgree`, `TypesResolved` | `BindingInv`, `OrderInv`, `TypedInv` |

`GeneratorProofs` begins with lemmas about the emitter: what its operators return is a
sequence of bytes and, for the two instructions with a relocation, at least four bytes
long.

*Types, reserved registers, tables* (`IInv`).  That no operand is in RAX or RSP holds
because both are taken from the start and never freed, and they are never freed because
whoever frees a register frees that of an operand: `IInv` has both halves
(`AllocatorInv`, and `SafeItem` for the left operands that wait in the agenda).  That a
block's table can be popped needs the number of tables to be one more than that of open
bodies in the agenda (`ControlInv`).

*Control* (`CInv`).  The agenda has a function at its bottom and, while the mode is
"Call", a call in it; that gives `CallModeInCalls` for all programs, however calls nest.
`Balanced` has the premise `CallsAreStatements` (no call inside an expression or
argument), because a call pushes no value and the property is false otherwise.  Under it
the invariant relates two structures: `Nested` says which visit waits for which
expression, `Poised` that the top of the evaluation stack is what the first visit waits
for, and `Held` counts what is below it: the entries that earlier statements have
abandoned, and one for each argument visited of the call in progress.  The code pops no
argument of a call and no value of an expression statement, so the stack only grows from
statement to statement; that no later pop reaches down to them is what is proved.

*Operands* (`PlainInv`, `HeldInv`).  Each operand still to be used, on the stack or
waiting in the agenda, has an allocated register of its own that contains its value.
Distinctness is what makes `free` of the left operand harmless and keeps an operator from
overwriting a third operand; it is inductive because `get_free` only grants registers
that are not allocated.  That a register contains the value is under the condition that no
instruction has been misencoded: one that is leaves a register without the value it is
recorded for.  Division writes RAX and RDX: RAX is reserved in all programs, RDX only as
long as there was no call (`RemainderReserved`), hence the premise
`DivisionApart`: no calls, or no division.  `PlainInv` says that awaited nodes have
numbers, and that in programs without calls the agenda has none and the mode is "None".
At the start and the end of a statement nothing is held (`Quiet`), which follows from
`Balanced`'s invariant; so only the steps inside an expression need the argument.

*Account of registers* (`AccountInv`, programs without calls).  The number of registers
in use is three, plus those lost, plus the live entries of the stack, plus the left
operands in the agenda.  A `free` counts only if the register was allocated and two
operands never share one, both of which come from `HeldInv`.  When `get_free` throws,
all sixteen are in use, so the lost and the live ones are thirteen.

*Arguments* (`ArgInv`).  The registers are those of the convention at every step; that
they contain the values needs that no instruction has been misencoded, which a third or
fourth argument ends.  While a call is in progress its finished arguments lie above what
the call found on the evaluation stack, in RCX, RDX, R8 and R9 in their order, and no
other argument register is allocated; then the first one that is free, which `get_free`
grants in call mode, is that of the next argument.  This needs that only a leaf is ever
visited above the call, hence the premise `LeafArguments`: an argument that is computed
takes registers out of turn, and `MCComputedArgument` shows what happens then.

*Refinement of the operand stack* (`NumberedInv`).  The operands of `OperandStack` are
those in the agenda, outermost first, and then those of the evaluation stack above the
abandoned ones.  The mapping puts these parts one after the other
(`Joined`, a recursive function); that a push, a pop or a replacement of a part changes
the whole only there is shown from a least position at which it would not.  Since an
operand is known by its node, the steps also need that the nodes on the agenda and the
stack are numbered in the order of their visits (`NumberedInv`): the value an operator
leaves in a register is then not mistaken for a left operand further out.  `OperandStack`
may break, and promises nothing from then on; the mapping breaks it with the first
misencoded instruction (`broken <- misencoded`).  The premise
`NoCalls` is necessary, as the arguments of a call are not taken one by one.

*Frame* (`FInv`).  All slots lie between the first local and the offset, or are one of
the four parameter homes below it; a new local begins at the offset, so it meets none of
them.  A function resets the offset: then only the empty table at the bottom is left,
which the invariant must say.

*Object file and jumps* (`StringsIn`, `SitesInv`).  Relocations are ordered and inside
the code; distance bytes of jumps, and of the `if`s that wait in the agenda to be patched,
are different from one another and from all bytes of relocations.  Jumps of operators
land because the lengths of the instructions between, for every operator, type and
register, add up to the constants 3, 5 and 10 of the source.

*Byte buffer* (`IInv`, `LInv`).  The bound on the capacity keeps the doubling from
wrapping, and without wrapping the block is large enough; the guard of `write_at` lets
only bytes that are written be patched, as no end of an offset in range wraps.  `ImplementsLog` is the
refinement of `ByteLog`: a write maps to an append, `write_at` to a patch, and growth to
nothing; it needs in addition that all bytes below the length have been written.

*Lexer* (`IInv`).  Reading a character is safe because the one before was read whole
(`Readable`), and the start of a token is never behind the offset (`ScanInv`).

*Front end* (`FrontInv`).  The parser is recursive descent with an agenda of active
parsers, so what holds of the tree has to be said together with what is still missing.

* `Syntax`: each node of an active parser has just the children that parser has already
  given it, and no other node has it as a child; parsers lie on the agenda in the order
  of recursion, with nodes that grow towards the top; the value just returned belongs to
  no node yet.  For `PrecedenceRespected` it relates three levels: that of the returned
  value, that of the waiting operator, and that of the next token.  A level of the loop in
  `parse_expr` is left only when the next token does not bind tighter, which is exactly
  what the operator below it needs.
* `NodesInv`, `TrailInv`: types and nodes correspond, and a visitor leaves a node only when
  its parser has left it, so the children the checker reads are there.
* `TablesInv`, `ScopesInv`: a table is inside an earlier one, its symbols are declarations
  of that name; the scopes open at each body of the agenda form a chain that ends in the
  root, so a body that ends has a scope to return to.
* `ExplicitInv`: at most one explicit type is waiting, the one of the declaration on the
  agenda; expressions contain no declarations.
* `CallsInv`, `ResolvedInv`: each identifier has exactly one lookup in the queue, a call's
  callee is found immediately before its type is set; what has been run has had its
  effect.  Lookup terminates because tables lie inside earlier ones, and a name found is
  a declaration (`FindExists`, `LooksUp`).
* `CheckedInv`: without errors, all nodes visited so far are well typed.  The step that
  matters is the retyping of literals in place: a literal is a child of one node only
  (`Syntax`), so giving it another type disturbs no node that was accepted before.
* `HistoryInv`: the chain of open scopes at each step of the trail.  The parser extends
  the history and the generator runs along it a second time; its address tables are as
  many as the scopes that were open there, so none is popped that was not pushed.

*Names* (`BindingInv`).  The parser binds a name in its scopes as they are at the end of
the file, when later declarations have been added; the generator sees only what it has
passed.  That both agree needs, for the history of `HistoryInv`, where each declaration
lies on the trail:

* a variable is in the table of the scope that is open when it is left, the parameters are
  in the scope that their function opens, and the outermost table has only functions
  (`LetsPlaced`, `LetsFound`, `ArgsPlaced`, `ArgsFound`, `Outermost`);
* a declaration further out that one further in hides was not complete when the inner
  scope was open (`Shadow`): `validate_add` looks through the enclosing tables, so only a
  function or an outer variable that comes later can have the name of an inner one.  Scopes opened later
  have greater numbers (`Newest`), so a table that is open again is the same table;
* each lookup is in the scope open where the identifier is left (`FindsFit`);
* the address tables contain the parameters and the variables that are complete at that
  point of the trail, and nothing else (`SlotsFit`).

*Types* (`OrderInv`, `TypedInv`).  The calls that set types run in the order in which they
were put off, so what has to hold while parsing is about that order.  `OrderInv` says of
each node: it has a type, a call for it is in the queue, or the parser that will put one
off is active and has not returned it (`ValuesTyped`); and of each call that reads a type:
the one that sets it comes earlier (`OperandsRead`, `LiteralsRead`, `LetsRead`,
`ArgsRead`).  A child is complete before its parent, a declaration before a use that is
not premature, parameters before the body.  While the queue is run the nodes of the calls
already run have types (`TypedInv`), hence all of them at the end; the checker changes
types only into types; and the generator finds a name because a declaration that is not
premature is complete in one of the open scopes (`FoundOpen`, `NamesResolve`).

**Only model-checked.**  `KeepsStream`, `PositionsPointBack`, `StringsUnescape`, `BufferDecodes`,
`OperatorsCompute`, `RunsWithoutFault` (recursive definitions over texts and bytes);
`ProcessorTypeOK` (the processor's steps run those definitions); `ReadsBack`,
`SectionsNumbered` and `StringTableSized` of the COFF file (its sizes are folds over
sequences).  `Finishes` and `CallsReturn` are liveness
properties.

## 6. Not modelled

Floating-point types and registers; pointers other than `u8*`; `let`, `ret` and `if`
as operands of an expression; top-level `let`; packages beyond one and `import`;
ranges of integer literals; formatting of messages, printing, files and the
Windows calls.  Parser and generator choose tokens and nodes freely: a run covers all
programs in its bounds, so feeding one from the other would check fewer of them.

Seen while reading, and written down without a run of their own:

*Code generator*

* the jump around an `if` body longer than 127 bytes goes elsewhere
  (`generator.cpp:228-230`); `JumpsLandInReach` says so by its premise;
* the frame is 132 bytes whatever the function declares, and displacements above
  127 become negative (`stack_allocator.cpp:23-38`, `x64.h:32`);
* statements after a `ret` are executed, and a division or another `ret` among them
  overwrites EAX (`generator.cpp:171-172`);
* a call inside an argument list switches call mode off for the remaining arguments of
  the outer call (`generator.cpp:199`);
* after a call RDX is an ordinary register (`register_allocator.cpp:80`): `f()` and then
  `let x = 6 / 2` puts the divisor there, and it is cleared before `idiv`
  (`generator.cpp:440`);
* a call that is the right operand of an operator loses the left one when it was
  in an argument register (`register_allocator.cpp:78`, a TODO);
* RDX is cleared where the sign should be extended before `idiv`; dividing types of one
  or two bytes also divides what is left in the upper bytes of EAX; a comparison of narrow
  types compares four bytes; a 64-bit literal in an expression is loaded by a 32-bit move
  (`generator.cpp:79`);
* registers R8 to R15 in the `rm` field or in an opcode get REX.R where they need
  REX.B, or no prefix (`emitter.cpp:408-426`, `x64.h:43`); `misencoded` marks the first
  use of one;
* byte instructions on RBP, RSI and RDI name CH, DH and BH (`emitter.cpp:117-130`,
  `180-188`, `348-354`): `a == (b == c)` loses `a` and returns the wrong value;
* `added_symbols_` is never filled (`generator.cpp:585`), so every call adds another
  external symbol.

*Object file*

* names of exactly eight characters go to the string table although they fit
  (`coff_writer.cpp:66`, `coff.h:88`);
* section numbers of symbols are fixed in the generator (data 1, code 2) while the order
  of the sections is that of an unordered map (`coff_writer.cpp:120`), against `coff.h:95`,
  "The first section in the section table is section one.": with libstdc++ `.code` comes
  first and every number leads to the other section; `SectionsNumbered` states both cases;
* numbers of symbols and relocations are cut to 16 bits (`coff_writer.cpp:103`), far
  beyond what the runs reach.

*Front end*

* a name used before its declaration is complete (`let x = x`) has a null type or
  is not found by `AddrTable::find`, whose `const char*` nothing catches;
* `1 + ret x` and `let y = ret x` use the null type that `ret` copied before it was set
  (`ret_parser.cpp:19`);
* the checker does not visit arguments, so `f(1 + true)` passes (`type_checker.cpp:36`,
  `85-88`);
* `u8` and `u8*` have the same type id (`type.h:141`), so operators accept a mix;
* literals out of range are cut without a message (`literal_parser.cpp:39`,
  `type_converters.cpp:27`), and a token that is no type is only reported at the end of
  the file, where the deferred call runs;
* `symbols.cpp:72` says "in the current scope" though enclosing scopes count too;
  the variant `AddableHere` shows that the wider search is what keeps the two
  lookups in agreement.

*Lexer*

* a file that ends in blanks, or in a character of several bytes, is refused
  (`lexer.cpp:86-89`, `utf8.cpp:55`);
* a string without its closing quote is read for ever (`lexer.cpp:346`); lines inside a
  string are not counted;
* `if_x` is the keyword `if` and the name `_x` (`lexer.cpp:274`);
* `peek(m)` before a queued end of file answers with the end of the file
  (`lexer.cpp:62`); the token of the end has no file, which a message about it
  dereferences (`parsing_exception.cpp:19`, `lexer.cpp:87`).

## 7. Plan

1. *Extend the model.*  `let`, `ret` and `if` as operands; general pointers and
   floating-point types; the token choices of `BriskParser` restricted to what `Lexer`
   delivers; composition of `FrontEnd`, `Generator` and `CoffWriter` on one program; a
   type invariant of the writer.
2. *Prove more.*  The positions of tokens; the layout of the COFF file; that what
   `Processor` executes does not fault.
