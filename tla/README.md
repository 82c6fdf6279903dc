# EEL: a verification development

EEL (Extensible Embeddable Language) is a compiler and a virtual machine in C,
with Eelium, a set of modules for multimedia and networking. This directory
holds TLA+ models of the parts whose correctness rests on long sequences of
calls, on combinations of constructs or on threads, TLC configurations that
check them on small instances, and proofs checked by TLAPS. `PROJECT.json` lists the runs, which lines of the
source every definition stands for, the mutations each property was tested
with, the hazards and the findings.

## 1. The system

| part | source | state | operations | interacts with |
|---|---|---|---|---|
| virtual machine | `core/e_vm.c`, `e_vm.h` | the VM heap with call frames (variables, clean table, argument stack, limbo list, result index, catcher), the pending exception | instructions, `call_eel`, `call_c`, `eel_callf`, `eel__throw`, `eel__scheduler`, `unwind` | C functions (both ways), object memory |
| object memory | `core/e_object.[ch]` | refcounts, links of the limbo list, vectors of weak references | own, disown, receive, grab, attach, detach, kill | every part that holds a value |
| string pool | `core/e_string.c` | hash buckets, cache of dead strings | `eel_ps_nnew*`, resurrect, cache, spill, close | object memory (shares its links) |
| modules | `core/e_module.c`, `e_register.c`, `builtin.eel` | table of weak references, list of dead modules, `module_lock`, sums of references to functions | load, import, initialise, destroy or refuse, collect | compiler (imports), VM (init functions), functions, state |
| state | `core/e_state.c`, `e_sharedstate.c`, `e_exceptions.c` | classes, environment, registry shared by states | open, close, bootstrapping | all of the above |
| compiler: statements | `core/eelc/ec_parser.c`, `ec_context.c`, `ec_event.c`, `ec_coder.c` | contexts, event lists, places of jumps to be wired, code, registers in use | one function per grammar rule | VM (runs the code), modules (imports) |
| compiler: operands | `core/eelc/ec_manip.c`, `ec_mlist.c`, `ec_optimizer.c`, `ec_coder.c` | descriptions of operands, temporary registers, the fragment to optimize | read, write, push, copy, fold instructions | VM |
| compiler: names | `core/eelc/ec_lexer.c`, `ec_bio.c`, `ec_symtab.c` | position in the source, symbol tables | lex, look up, declare, export | parser, modules |
| containers | `core/e_table.c`, `e_array.c`, `e_vector.c`, `e_dstring.c` | blocks of items | index, insert, delete, clone, join, vector arithmetic | object memory, weak references |
| memory files | `core/io/eel_io.c` | a dynamic string and a position in it | read, write, seek, exchange the string, close | dynamic strings |
| classes, casts, operators | `core/e_class.c`, `e_cast.c`, `e_operate.*`, `e_register.c`, `e_builtin.c` | tables of metamethods and casts | dispatch | VM |
| FIFO | `eelium/sfifo.[ch]` | ring, read and write position | read, write | audio callback, network sender |
| network sockets | `eelium/eel_net.[ch]` | real socket, FIFO, `closed`, `status`, `sender` | TCPSend, TCPSetBuffer, TCPClose, destructor, sender thread | FIFO, NET2 (third-party) |
| media bindings | `eelium/eel_sdl.c`, `eel_opengl.c`, `eel_image.c`, `midi/`, `audiality2/` | handles, audio FIFO | wrappers | external libraries |
| physics | `eelium/eel_physics.c` | bodies, constraints | step, callbacks into EEL, cleanup | VM |
| ZeeSpace | `eelium/zeespace/*` | pixel buffers, pipe | render | none |
| executive, EEL modules, tests, tools | `executive/`, `modules/`, `test/`, `tools/` | | | |

What is hard here, and what correct means:

- *Two stacks.* EEL code calls C functions and C functions run EEL code; each
  `eel_run` loop handles the exceptions of the frames above its C caller. After
  every exception both stacks must tell the same story, no handler may be
  passed over, and results must go to the function that asked for them.
- *Ownership without a collector.* Variables own, registers do not; what a
  register points to is kept by the limbo list of a frame. `eel_v_receive` and
  `eel_v_grab` decide from one bit (is it in *some* limbo list) what to do with
  a count. Counts must be exact on every path, errors included.
- *Strings that come back.* Dead strings wait in a cache on the links of the
  limbo list and can be resurrected.
- *Threads without locks.* The FIFO and the socket that uses it.
- *Code that depends on what may have happened.* The compiler keeps, in one
  pass, what the code so far has certainly, possibly or never done, drops code
  that it takes for dead and counts initialised variables; every statement
  merges what its branches know.
- *Assignments to lists.* Operands are read as late as possible, sources that a
  target overwrites are to be saved first, an optimizer folds instructions, and
  registers borrow their values.
- *Modules that cannot be destroyed.* A module nobody owns lives as long as
  something uses one of its functions; whether it does is found by comparing
  sums of references, at moments when modules may be half made.
- *Weak references in things that move.* Objects know the addresses of the weak
  references to them, which are in blocks that grow, shrink and are shifted.
- *Order of shutdown*, destructors that call back.

## 2. The modules

### `EelVM`: calls, exceptions and ownership

`frames` are the call frames of the VM heap and `cstack` the C stack: C
functions (`"c"`, with the frame `call_c` made for each) and `eel_run` loops
(`"run"`). `rc` holds the refcounts, `exc` is `VMP->exception` and `static` one
static variable. A frame's `block` says whether it runs a function or the body
of a try, untry or except block, which all have frames of their own; `tmp` is
the register results land in.

One action per instruction that touches references or frames (`INEW` ..
`THROW`), `Fault` for an instruction that fails, and four for C code:
`eel_callf` enters a new loop, `ReturnC` and `FailC` are `call_c` after the
callback, `Drop` is C code letting go of a result. `Throw` is all of
`eel__throw` and `eel__scheduler`; `Leave` all of a return, by instruction or
by `EEL_XRETURN`.

Abstractions: only references to objects are kept. A program is any sequence of
instructions the compiler can emit for a block, so TRY, RETURN, RETX and RETRY,
which are statements, need an empty argument stack; a block reaches the
variables of the function around it one level up; RETRY occurs in except
blocks, as `docs/eel-language.txt` says (the compiler does not check it); the
source of an ASSIGN is a register (`Assignments` has the other operands). Exceptions are
an object or a code; that programs throw the integers the VM uses for itself
(XOK, XYIELD, XEND, XRETURN) is left out. A C function passes on the failure of
a call it made or fails itself, as those of the repository do; it does not call
another C function through `eel_call`. Objects have destructors without side
effects.

### `StringPool`: the pool and the cache of dead strings

`heap` is a record of everything `e_string.c` and the list templates of
`e_util.h` change: the pool, the cache with its two ends and its count,
refcounts, weak references, and `lnext` and `lprev` of every string, pointer by
pointer, because limbo and the cache share them and `eel_in_limbo` reads one.
`SV` are variables (and C owners), `R` a register. Actions: making a string
(`eel_ps_nnew`, then `eel_v_receive`), `GETVAR`, `SETVAR`, weak assignment,
`limbo_clean`, closing the pool, and the classes letting go of their names
afterwards. `Outlive` says whether a weak reference may outlive its string;
programs in which none does are checked, programs in which one does show the
finding below. Texts are abstract, and a bucket is a set: the search visits all
of it. Allocations do not fail.

### `SFifo`, `BoundedQueue`: the lock-free ring

One writer and one reader, each with the program counter and the locals of
its call. A call takes one look at the other side's position, copies byte by
byte, and publishes its own position with a single store. Bytes are numbered,
so that any loss, duplication or reordering shows. `BoundedQueue` is what the
ring promises; `RefinesQueue` checks the refinement. Loads and stores of the
positions are taken to be atomic and in program order, which `sfifo.h` says it
relies on (`sfifo_atomic_t`); on hardware that reorders stores the code would
need barriers it does not have. `sfifo_flush` and `sfifo_close` may not be
called next to other calls and are left out.

### `NetSocket`: buffered sockets

The VM thread (TCPSend, TCPSetBuffer, TCPClose, the destructor) and the sender
thread, interleaved at every access to a shared field. The FIFO is the bounded
queue `SFifo` implements. NET2 is external: a send takes all bytes or fails.

### `Events`, `Compiler`: statements, contexts and dead code

`Events` has the event lists of `ec_event.c`: for every register whether it has
been initialised, whether the code has returned, set a result, left a context
by `break` or been landed on by a jump, each `NO`, `MAYBE` or `YES`; and how
lists are moved up and merged when contexts are closed (`eel_e_merge` and the
popping of contexts). `Compiler` has the statements of the parser. A program is
chosen statement by statement while it is compiled (`frames` are the parser
rules in progress, `gen` is what they work on: contexts, code, registers), and
then run with every branch going either way (`stack` is the call frames, with
their clean tables). One action per statement and per place where a rule goes on
after a nested one (`IfStat`, `ElseStat`, `EndIf`, ...); one per kind of
instruction. Dead code, which the coder drops, is kept and marked as not live,
so that running into it shows.

Abstractions: a program is its control flow and its local variables. Names,
expressions, calls and nested functions are left out; upvalues only occur as
the variables of the function around a try or except block.
`Themes` are sets of statement kinds with a number of statements, because all
mixes of all kinds are too many. `Risky` names six constructs that the compiler
gets wrong; the passing run leaves them out, so its properties hold *except* for
them: `maybeContinue` (shown by `compiler_continue`); `leaveInner`, break,
continue or repeat out of inner bodies whose variables `code_leave_context`
does not look at (ec_parser.c:126); `defaultLocals`, variables in the default
case of a switch, which is left without `code_leave_context` (3380);
`declareForever` and `breakForever`, events of an endless loop's body that are
taken for certain (3446); `doCondition`, a do loop's condition that reads a
variable of the body behind the CLEAN that dropped it (3558).

### `Assignments`: operands, the optimizer and their code

Operands are descriptions (manipulators) that become code when they are read,
written, copied or pushed. `assignstat` first saves the sources that an earlier
target may overwrite (`SaveSource`, by `eel_m_independent`), then assigns
(`AssignNext`), then the optimizer rewrites the fragment (`EndAssign`:
`PairSubst` and `SingleSubst` are the tables of `ec_optimizer.c`); calls push
their arguments (`PushNext`, `EndCall`). The code is then run, one action per
group of instructions. Values are terms, so that two are equal only if they
were computed alike, and `Meant` computes what the statement means without any
of this. Objects are destroyed when nothing holds them; `dangling` records an
instruction that uses one afterwards. Left out: in-place operators, calls inside
expressions, tuple arguments. `Risky`: `compound` (shown by `assign_overlap`) and
`onlyOwner`, statements like `x = x` and swaps of local variables, when what they
hold was assigned by an inner function and has no other owner: `ASSIGN` disowns
the object before it copies it.

### `Modules`: loading, importing and collecting

`heap` holds the modules (name, sum of references after compilation, static
variable, the modules whose functions they use and export), the table of shared
modules, `es->deadmods` in its order, `module_lock`, the compilations and
initialisations in progress (`frames`), symbol tables that failed compilations
leave behind, and the program's variables. Actions: `Load` of a file the program
or an import names (found in the table, also while it waits, or compiled),
`ImportNext`, `ImportConflict`, `Finish`, `CompileError`, `InitReturns`,
`InitThrows`, assignments that store and drop modules and functions,
`CleanModules`, and the steps of `es_close`. `Disown` of a module is all of
`m_destruct`, with the collector it calls. A function's refcount is computed
from its owners. Left out, as they destroy modules in use: `f.module` of a waiting
module (`Risky`), `__modules()`, keeping what `__exports()` returns, and removing
the export of a function that is held. Two files that declare the same module
name are left out too, and with them the error of `compile2` for a shared module
whose name is already loaded (ec_parser.c:4391); it ends a compilation like any
other error, which `CompileError` models.

### `Collections`, `Buffers`, `Containers`: collections and weak references

`Collections` is the abstract specification: an array is a sequence, a table a
function from keys to values, vectors and dynamic strings are sequences of
numbers (those of a vector wrap around), a memory file has a position in one, an
object exists as long as a variable or something that exists owns it, so that
cycles stay, and weak references are nil from the moment it does not (`Settled`).
`Containers` is the code: refcounts, vectors of weak references with the places
and indices the two sides keep of each other (`Attach`, `Detach`, `Relocated`,
`KillWeakrefs`), blocks with their sizes, tables sorted by hash code
(`BinaryFind`, `Find`), and destruction that goes on through items. A statement
(`Statement`) reads what it uses into limbo, performs the operation, and leaves
the function, which empties limbo; it updates `heap`, by the code, and
`promised`, by `Collections`, and `BehavesAsPromised` compares them. The state is
at rest between statements. A block that is resized always moves, the harder
case: references into it point nowhere until they are relocated.

`Buffers` is the memory of vectors and dynamic strings: a block of cells with its
size (`Resize`), the number of items, and `within`, which is lost by the first
access outside the block. Memory nobody has written contains `Garbage`, which
differs from every item, so that `BytesAsPromised`, a part of
`BehavesAsPromised`, sees a byte that was not cleared and a terminator that was
not moved. `Cell` and `ItemOf` are the conversions to as many bits as an item has
and back. In `Containers` vectors, strings and files are objects like the others:
they are held by static variables, strongly or weakly, and the string of a file
is an item that the file owns and that `f.buffer` shares with the program.
`Together` bounds which objects exist at a time: arrays and tables, or vectors,
or strings and a file.

Keys are strings, of which two have the same hash code. The base sizes are those
of the instance, 1 instead of 4 to 16, and tables are searched by bisection from
two items on instead of ten, so that growing, shrinking and both searches occur.
Left out: `t.+ u` when values of u go with what t drops (`addGone` in `Risky`),
`insert` beyond the end and `delete` at the end of an array, a vector or a
string, `delete(a, obj)` past items that are nil, `v + x`, values that are no
numbers in vectors, `v #*= nil`, strings that are inserted into themselves, added
to themselves when that moves them, or written to the file they are the buffer
of, bytes set behind the end of what `read` returned, and closing a file whose
string others own, all of which the code gets wrong or leaves undefined
(section 5); other classes of keys, vectors of reals, failing allocations.

### `MC*`

`MCEelVM`, `MCStringPool`, `MCSFifo`, `MCNetSocket`, `MCCompiler`,
`MCAssignments`, `MCModules` and `MCContainers` extend a model for TLC with
symmetry sets and the constants that are not plain numbers: the mixes of
statements, the lists of operands, the imports of four files, hash codes, bits.

### `*_proofs`

`SFifo_proofs`, `NetSocket_proofs`, `EelVM_proofs`, `StringPool_proofs`,
`Modules_proofs`, `Compiler_proofs` and `Containers_proofs` hold the theorems and
proofs of section 4 about the module they are named after; `ContainersHeap_proofs`
has the lemmas about the heap on which `Containers_proofs` rests.

Operators preceded by a comment that starts with *Mutation* are not part of a
model. They are the faulty variants the properties were tested against.

## 3. What is checked

| run | instance | shows |
|---|---|---|
| `vm` | 1 object, 5 frames, 1 variable and 1 argument per frame, no untry | `Counted`: a refcount is the number of owners; `StacksAgree`: frames and C stack agree; `ResultHome`: a block's result index is that of the function around it; `NoHandlerBypassed`: C gets a code only when no try block was active (its exception for untry blocks never applies in this run) |
| `vm_objects` | 2 interchangeable objects, 4 frames, with untry blocks | `LimboOnce`, `TempsAlive`: no object in two limbo lists, registers point to living objects; `UntryUnprotectsHere`: within one `eel_run` an untry block keeps handlers below it from running |
| `strings` | 4 objects, 4 texts, 2 variables, `scache_max` 1 | `OneStringPerText`, `ListsWhole` (cache, limbo and count agree), `RefsCounted` (and what is owned lives), `ClosedLeavesOwned` |
| `strings_weak` | the same, with weak references that outlive a string | finding 3 |
| `sfifo` | ring of 4, transfers up to 4, 9 bytes | `InOrder`, `UsedExact`, `NoOverrun`, `RefinesQueue`, and `Drained` under fairness |
| `netsocket` | FIFO of 3, fragments of 2, 5 bytes, 3 setups | `WireInOrder`, `NothingLost`, `NoUseAfterFree`, and `BufferedIsSent` under fairness |
| `compiler` | 13 themes of 3 to 5 statements, 2 variables, 5 contexts | `NothingLiveDropped`: code that runs was not dropped as dead; `CleanTableTrue`: the clean table holds the initialised variables of open scopes, each once; `NeverEndsWithoutResult` |
| `compiler_continue` | 4 statements of one theme | finding 1 |
| `assign` | 8 groups of statements: up to 3 targets and sources, 12 places, 5 constants, 11 expressions; calls with up to 4 arguments | `AsMeant`: targets and arguments get what the sources were worth before; `ValuesAlive`: nothing destroyed is used |
| `assign_overlap` | pairs of variables and `a + 1` | finding 2 |
| `modules` | 3 module objects, 4 files over a C module, 2 variables, 1 failure | `HeldExist`: nothing in use is destroyed; `OneModulePerName`; `WaitingExact`: the dead list holds exactly the unowned modules; `ClosedLeavesCycles` |
| `containers` | 2 arrays and 2 tables with 3 keys of which 2 collide, 3 live objects and 2 items in all; or 2 of 3 vectors, of 2 bits and of 1 bit with sign; or 2 dynamic strings and a memory file; 2 static variables, vectors and strings of up to 2 items | `Wired`: weak references and their objects know each other, whatever moved; `CountsExact`; `BehavesAsPromised`: what a program sees is what `Collections` promises |

Every module has one type invariant, checked by its passing run.

Bounds. Five frames hold the host, a function, a try body, a C function and a
function it calls, or an except block around a second try: every kind of frame
directly above every other, and an exception that crosses a C function. Two
objects let the value thrown, the value returned and the one held differ. A cache
of `scache_max` 1 holds two strings, so four texts can fill it, spill it and still
have one alive. The ring of four slots has both ends of the index range, and 9
bytes take it round more than twice. Three setups cover a first, a second and a
failed TCPSetBuffer. Four statements hold a loop, a conditional in it, what the
conditional does and something behind it, which is what it takes for events of
one context to be wrong in another; the themes that use few kinds go to five.
Lists of two and three have every order of overlap between targets and sources;
four arguments fill the longest instruction the optimizer makes and start a
second. The three scripts that exist at a time are a library, a module that
exports it again and a program that uses both; the fourth file imports two that
conflict. Two items are enough for an item to move within a block while a weak
reference to it or in it exists, for a collision and for a search by bisection;
with the static variables up to four weak references make a vector grow and
shrink. Vectors and strings of two items have blocks of one to four cells, with
memory behind the items that was written before or never; adding 3 to 3 wraps
around in both classes of vectors, and a file can stand before, at and behind the
end of a string that was shortened.

Deadlock is checked in `vm`, `sfifo` and `netsocket`. It is off in `strings` and
`modules`, where nothing is left to do once all is closed, in `compiler` and
`assign`, where a program ends, in `containers`, whose statements are
unconditional anyway, and with untry blocks, where the VM can end in a frame that
is not that of the running C function and the model goes no further.

Fairness. `SFifo!FairSpec`: a call that has started is finished by its thread,
and the reader polls for ever, as the audio callback and the sender loop do; the
writer owes nothing. `NetSocket!FairSpec`: the sender thread is scheduled by the
OS and calls of the VM thread end. Nothing makes the VM thread call at all.

## 4. What is proved

TLAPS checks these for every value of the constants that satisfies the
assumptions of the module (`tlapm <module>.tla`). The bounds of the models, such
as `MaxBytes` or `MaxFrames`, are constants like the others: the theorems hold
however large they are.

**The ring** (`SFifo_proofs`, from `Size > 0`: `sfifo_init` makes the size a power
of two so that its mask is a remainder, and the proof needs the remainder only).
`TypeCorrect`, `FifoOrder`, `UsedCorrect` and `NeverOverruns` follow from the
inductive invariant `IInv`. The properties say nothing of a copy that is under
way, so `IInv` adds three things: `Granted`, a call copies no more than the look
it took at the other position allowed, and that is still there; `Standing`, the
positions are the slots of the streams' bytes; `Stream`, from `readpos` on the
slots hold consecutive bytes, up to those the writer has put but not yet
published. The arithmetic rests on two lemmas about `%`, proved from the
division theorem.

**The ring is a queue** (`SFifo_proofs`). `Refinement` is
`Spec => RefinesQueue`: the one store that publishes a position is the step of
the bounded queue, all others stutter. `Mapped` says what `IInv` means for the
queue, namely that it is a part of the stream; parts are joined and split by
lemmas about sequences. `NetSocket` uses the queue in the place of the ring on
the strength of this.

**The socket** (`NetSocket_proofs`, from positive `Capacity`, `Fragment` and
sizes). `SenderIsSafe`, `NoOvertaking`, `KeepsEveryByte` and `TypeCorrect` follow
from `IInv`, with four parts of its own. `Lifecycle`: a thread that runs is known
to the VM thread, by `sender` or because it is about to store it, which is the
window between SDL_CreateThread and its assignment. `Counting`: a round is under
way only while the thread drains, and a call that has looked at `sender` still
has an argument to send. `Ordered`: what was sent is older than what
waits, *as long as a thread runs that can send it*; it is not true of the bytes
a dead thread left behind, and TCPSend sends directly then. `EndsForAReason`:
only a close or an error ends a thread, so that without either the FIFO is never
left without one.

**The two stacks** (`EelVM_proofs`, from `~Untry`). `StacksAlwaysAgree` is
`~Untry => (Spec => []StacksAgree)`; with untry blocks the two stacks do come
apart (end of section 5). The invariant `Stacks` says that C functions and `eel_run` loops
alternate on the C stack, that later C functions have their frames further up,
that the frames above a C function's start with an EEL function and not with a
block, and that no other frame is a C function's. From it `StopIsBase`: an
exception unwinds to exactly the frame of the C function that called the loop,
and `Cut`, `BackToC`, `PopC`, `PushEel`, `PushC`, `PushRun`: each way up or down
keeps it. A part of the invariant, `Home`, is `ResultHome`; it is inductive on
the frames alone, as a frame either starts a function or copies the index below
it (`ResultsGoHome`).

**Handlers** (`EelVM_proofs`, from `~Untry`). `HandlersAreFound` is the
action property `NoHandlerBypassed`: of the steps that leave fewer loops on the C
stack, `RETURN` ends a loop in the function it started with, which is no block;
`RETX` leaves another code; and `Throw` gives up only when `Tries` is empty above
`Stop`, which `StopIsBase` says is all there is of the loop.

**Reference counts** (`EelVM_proofs`, from `~Untry`). `EveryOwnerCounted`
is `Counted`, `NeverInTwoLists` is `LimboOnce`, `RegistersAlive` is `TempsAlive`.
All follow from the inductive invariant `Books` (`BooksBalance`), which is
`Stacks` with a ledger:

- `Balance`: a refcount is the sum over the frames of what each owns, and
  `VMP->exception` and the static variable. `SumOf` counts pairs, so that sums
  are split and changed in one place (`SumSplit`, `OwnersExcept`) by the theorems
  about finite sets, and no induction over a stack is needed.
- `OneList` and `Borrowed`: no object is in two limbo lists, and what a register
  of EEL code refers to, which owns nothing, is in the limbo list of its own frame
  or of one below. This is what lets `eel_v_receive` and `eel_v_grab` decide by
  one bit.
- `CleanC`: the frame of a C function has no variables and no limbo list, and
  its R[0] is empty while it waits for a call, so `call_c` can pop it without
  cleaning either.
- `ArgsGone`: a callback that has returned took the arguments from the frame of
  the C function, so `ReturnC` drops nothing that is owned. `Bases` says that
  loops on the C stack have no frame of their own to drop.

One lemma per action says what the step does to the counts, object by object;
`ThrowLedger` and `LeaveLedger` carry those for unwinding to any depth. `~Untry`
is needed: `FailC` pops an untry frame in the place of the C function's (section
5), and what the latter holds is lost.

**The string pool** (`StringPool_proofs`, from `~Outlive`: no weak reference
outlives the owners of its string, without which `GETVAR` puts into limbo a
string that the cache holds or that is freed, and all of this is false: finding
3). `ListsStayWhole` is `ListsWhole`, and with it come `TextsShared`, `RefsAreOwners` and
`NoStringLeaks`. The proof has three layers:

- *Links.* `Wired` says that limbo and the cache are two disjoint sets, each
  strung on the shared links so that `lnext` and `lprev` are inverse to each
  other and a rank grows along them, which keeps cycles out. `PushLimbo`,
  `UnlinkLimbo`, `PushCache` and `UnlinkCache` say what the list templates make
  of the two sets, `OnListIs` that the strings met from the first are all of them,
  from either end.
- *Books.* A refcount is a number of owners and one more in limbo; the cache is
  what is live with a refcount of 0, `scache_size` its cardinality; the pool is
  what is live while it is open; texts differ. Each operation has a lemma
  (`ResurrectOwns`, `ReceiveKeeps`, `GrabKeeps`, `DisownKeeps`, `CreateKeeps`).
- *Variables.* `Balanced` says that the owners are the variables, the weak
  references the vectors of the heap, that the register's string is in limbo and
  that nothing is in limbo after the pool is closed.

The loops of `limbo_clean` and `ps_uncache` are recursive functions; `LoopRuns`
and `LoopKeeps` show that they exist and keep what a turn keeps, with
the least-number principle over a set (`LeastNat`) in the place of induction over
a predicate, and the length of the list bounds the turns they need.

**Modules** (`Modules_proofs`, from `Risky = {}`: a function gives out its module
only while somebody owns that. `f_getindex` does not look; it gives out modules
that wait for the collector and leaves them in the list, and `HeldExist` is false
then: section 5). `NothingHeldDestroyed` is `HeldExist`, `OnlyOne` is
`OneModulePerName`, `ListIsExact` is `WaitingExact`, `OnlyCyclesLeft` is
`ClosedLeavesCycles`, `TypesHold` is `TypeOK`, for any modules, imports, program
variables and number of failures. They follow from the inductive invariant
`Sound` (`ModulesSound`):

- `Stages`: a module is gone, in compilation or given up (`refsum` is -1), empty,
  or *adult*: compiled, with its function in its exports and a `refsum` that
  counts just the two references every module has to its own function.
- `Kept`: whatever is used by somebody else is adult. As `refsum` is 2, the count
  of `eel_module_countref` differs from it exactly when somebody else owns the
  function (`CountOwners`), so comparing the two is enough.
- `Nested`: running compilations have modules and names of their own, which the
  table does not have yet, and each that is imported has its importer below it.
- `Tabled` and `Waiting`: the table has all adult shared modules, the list all
  modules without owner. In the middle of a step one of them may not be in it;
  `Whole(h, open, x)` names it, so that the lemmas about `Clean`,
  `Disown` and `Import` can speak of heaps inside a step.
- `Unbroken` and `Closing`: without failures nothing but modules and the program
  keeps a module, and the last round of `es_close` found only modules in use.

Each operation on the heap has a lemma, each action a step in `ModulesSound`.
The walk of `eel_clean_modules` over the list as it was found is a loop to which
`LoopKeeps` applies: `Without` keeps the rest of the list, and what `Destroy`
releases is put in front, behind the walk.

**Collections** (`Containers_proofs`, from `Risky = {}`: no table is added to
itself, which copies values that are gone: section 5). `TypeCorrect` is `TypeOK`,
`AllWired` is `Wired`, `CountsAreExact` is `CountsExact`, for any numbers of
objects of every class, static variables, keys, hash codes, base sizes and items.
`NothingOutside` says that no operation of vectors, strings and memory files
leaves its block, `KeysFound` that `t__find` finds exactly what a table has,
whether it searches from the start or by bisection. The inductive invariant is
`Sound` (`SoundAlways`). It is `Books(h, L, X, Z, Y)` when all four sets are empty;
they are what makes it hold between the steps of a statement, where neither
`Wired` nor `CountsExact` does:

- L are the objects that limbo owns once each. A statement reads its operands
  into it, and `Returned` empties it.
- X and Z are places and keys that have been disowned and not yet overwritten,
  as `eel_v_disown_nz` leaves behind. Nothing there may still be a weak reference,
  and they are only in objects that L keeps or that are in Y.
- Y are the objects whose count is 0 and whose destructor is running.
- `Wiring` and `RoomForRefs` are about every place outside of limbo: the k-th
  place in the vector of an object has the weak reference with index k - 1, and no
  other place has one to it. `Shapes` gives each class its items; `BlocksFit` says
  that blocks hold their items and strings their terminator; `Ordered` that tables
  are sorted by hash code and have no key twice.

Destruction goes on through items, in the code by calls within calls. `Disown` is
a function of the depth of those; `DownsWell` says of one depth that it takes a
reference away and keeps the books, and the step to the next is `DownOnce`. A
depth of as many levels as there are objects is enough, because each destructor
runs within that of another object. What destruction may do to a heap that
somebody is in the middle of changing is `Fades`: objects go, weak references
become nil, and nothing is moved, so that a place a statement holds stays a place
unless its object went. Loops are recursive functions again, and the lemmas on
them are about sets of heaps. Moving items (`Rearranged`) needs the indices, not
the vectors: an item knows its index wherever it is, so `eel_weakref_relocate`
finds its entry. `KeysFound` follows the two ends of the bisection (`Searching`),
and a search without a hit ends where the key belongs, which is why insertion
keeps `Ordered`.

**The compiler's bookkeeping** (`Compiler_proofs`, for any number of registers,
contexts and statements, any mix of statement kinds, and whatever is in `Risky`:
the six constructs lose events, not branches). `TypesHold` states `TypeOK`: every
event list holds events, registers stay within their number, and the running
program is always at an instruction of a code that exists, with registers in its
clean table. The last part is what takes an invariant. A call frame is at an
instruction only if every branch was wired to one, and nothing in a rule of the
parser says that it was: `EndWhile` wires what `WhileStat` coded and what any
`break` between the two has marked, and `EndExcept` codes the TRY of two blocks
that were opened and closed by other rules. `IInv` says what holds in between:

- while compiling, `Scoped`: contexts have a list of events, a code that exists
  and a start in it, and the contexts of one function share its code;
  `Coded`: a branch lands inside its code or right behind its end, where the
  next instruction comes, and a code that no context writes to any more is
  `Finished`, ends in `end` and has no branch behind it;
- `Nests`: there is a depth for every rule in progress, such that the contexts
  between a rule's depth and the one before are those it owns (`Owned`: a for
  loop two, an if one, a wrapper none). This is what makes each rule pop what it
  pushed, and the wrapped rules find their own context on top;
- while running, `RunsWell`: all codes are finished, and a frame below the top
  is at its TRY, which is never the last instruction, so there is one behind it.

A step is not proved on `gen` as a whole. `Keeps`, `Opens` and `Closes` say that a
generator is good and leads on from another one, with the contexts it had, one
more, or one less; each operator (`Code`, `SetJump`, `Leave`, `Jump`, `Merge`,
`Push`, `Pop`, `Wire`, ...) has a lemma that it does one of them, and the proof of
a rule composes them in the order of its calls.

**Merging branches** (`Compiler_proofs`, from nothing but the shape of a context: a
list of events of its own and lists that wait). `MergedExact` says what
`eel_e_merge` makes of events, for any number of registers and branches: the
code has certainly returned, has certainly set a result or has certainly
initialised a register behind a condition exactly if it had before or has in
every branch, one of them being certain to run; and certainly not, exactly if it
had not before and no branch that may run has. `ClosedKeeps` is about closing a
context: nothing its parent knew is forgotten, what was certain in a context that
always runs is certain behind it, and the scope's own variables do not leave it.
Both rest on `GreatestExact`, about the order NO, MAYBE, YES. This is what
makes `if` and `switch` right; the flaws of section 5 are in what the rules and
`eel_test_exit` do with the lists.

Model-checked only:

- liveness (`Drained`, `BufferedIsSent`), which needs fairness and ENABLED;
- `UntryUnprotectsHere`, and all properties of the VM in programs with untry
  blocks (`LimboOnce` and `TempsAlive` hold there in `vm_objects`);
- the string pool of programs in which a weak reference outlives its string,
  where finding 3 is;
- `BehavesAsPromised` of `Containers`: its proof would have to follow the values
  of every statement on both sides, and show that the objects that go one by one,
  by counting, are those without which `Settled` ends. Wiring, counts, blocks and
  searches, on which the behaviour rests, are proved;
- `Assignments` (operands, the optimizer), which declares RECURSIVE operators: it is
  about what programs compute, which is induction over data;
- `NothingLiveDropped`, `CleanTableTrue` and `NeverEndsWithoutResult` of
  `Compiler`: they follow a program along every path through its finished code, and
  the events that justified each instruction are gone by then. That they hold
  needs, for every position of the code, what the contexts knew when it was
  written, carried through the merges; what one merge knows is `MergedExact`.

## 5. Findings

1. *A continue that is taken for none* (`compiler_continue`). `ec_event.h:36` says
   that the events of all contexts together always reflect the current state of
   things. `eel_test_exit` (ec_event.c:312) lets a jump that lands revive code
   only if it lands for certain, but behind a conditional `return` a `continue`
   only lands maybe. In `if(a) return; for .. { if(b) continue; return; }` the
   instruction that closes the loop is dropped.
2. *Sources that are not saved* (`assign_overlap`). `ec_manip.h:229` promises that
   `eel_m_independent` returns 1 only for operands that are definitely
   independent. It returns 1 for every operation and cast (ec_manip.c:611), so
   that `a, b = b, a + 1` computes `a + 1` from the new `a`, while
   `a, b = b, a` swaps.
3. *Weak references to strings* (`strings_weak`). `e_object.h:43` says that a weak
   reference becomes nil when its object is destroyed. A string dies into the
   cache without its weak references being cleared, and spilling
   (e_string.c:261) frees it without clearing them either.

Also met, and kept out of the passing runs or stated as they are. Each is
listed as a hazard unless it follows from one:

- *VM.* An exception that an untry block stops under a C callback leaves
  `call_c` popping the untry frame for its own (e_vm.c:611), and a handler is run
  that the block should have kept from running: `UntryUnprotectsHere` does not
  extend to it. `docs/eel-internals.txt` has limbo lists cleaned when a `{...}`
  block is left; `CLEAN` cleans variables only.
- *Compiler.* The six constructs of `Risky` (section 2), one of which is finding 1.
  With `Risky = {"leaveInner"}` TLC finds `CleanTableTrue` violated: a `break`
  or `continue` out of an if body with a variable codes no CLEAN, and after 20 rounds of
  `while(..) { if(a) { local x = b; continue; } }` the program ends in a
  segmentation fault, as the clean table outgrows its place in the frame.
- *Modules.* A failed import of three modules that use each other in a row leaves
  one of them undestroyed when the state is closed; an `export import` that
  clashes keeps its reference to the module; `f.module` of a waiting module,
  `__modules()`, the table of `__exports()` and removed exports lead to the
  destruction of modules in use.
- *Containers.* `t.+ u` disowns a value it replaces before it copies the new one
  (e_table.c:303), so that an object `u` refers to weakly and only `t` owns ends
  as nil, and `t.+ t` copies values that are gone; `insert` beyond the end of
  an array and `delete` at its length pass their checks (e_array.c:217);
  `delete(a, obj)` compares addresses and takes what is left of a dead weak
  reference for the object; 0.0 and -0.0 are equal keys with different hash
  codes.
- *Vectors.* `v + x` appends to `v` and returns what it was (e_vector.c:1183);
  `v[i] = x` and `insert(v, i, x)` with a value that is no number throw after
  the vector has become longer (e_vector.c:459), by an item nobody wrote;
  `v #*= nil` leaves the items where `v #* nil` has zeros; `insert` beyond the
  end moves a negative number of bytes.
- *Dynamic strings and memory files.* `insert(d, i, d)`, `d.+ d` and
  `write(f, f.buffer)` read through a pointer taken before the block moves
  (e_dstring.c:346, :722, :303); what `read` returns has no terminator
  (eel_io.c:570), so that an item set behind its end shows a byte nobody wrote;
  `close` of a memory file frees the string even if the program holds it
  (eel_io.c:759).
- *Strings.* The cache holds one string more than `scache_max` (`ListsWhole`
  states the real bound).
- *Sockets and audio.* A closed socket drops what it buffered (eel_net.c:249),
  where `eel_net.h:50` has the thread die after emptying the FIFO, so
  `BufferedIsSent` promises nothing once a socket is closed; `closed = 2` is never
  reset by TCPSetBuffer, so the second thread ends at once; a failed
  SDL_CreateThread leaves a freed buffer that TCPClose frees again; PlayAudio
  tears the frame that fills the ring.

## 6. Not modelled, and the plan

In this order:

1. `Assignments` with in-place operators and calls inside expressions, and
   `Compiler` with expressions that call: the order in which operands are read.
2. Names: declarations of functions, constants and upvalues, the symbol table,
   imports and exports as the parser sees them, the lexer's position and its
   way back.
3. `EelVM` with destructors that call back into EEL (`kill_body`), with the
   growth of the VM heap and the pointers it invalidates, with tuple arguments;
   `StacksAgree` with untry blocks outside C callbacks.
4. `Containers` with keys of other classes, vectors of reals, weak references to
   modules, and failing allocations.
5. `Audio`: PlayAudio and the audio callback on top of `SFifo`, frame by frame.
6. `NetSocket` with reading and listening sockets.
7. Physics: bodies destroyed while the space runs callbacks.
8. Bootstrapping, and the registry that states share.

Proofs wanted next: what the contexts of `Compiler` knew at every position of the
code, by `MergedExact` on top of `TypesHold`, for `NeverEndsWithoutResult` first;
that the sequences and functions of `Collections` are what the items of `Containers` are,
statement by statement; `ValuesAlive` of `Assignments`, for which its recursion has
to become recursive functions; the counts of `EelVM` with untry blocks outside C
callbacks.

Left out for good: pure I/O wrappers (files, `dir`, `system`, `math`), numeric
code (`dsp`, ZeeSpace), bindings to external libraries, third-party code (NET2,
KISS FFT), the wording of messages.
