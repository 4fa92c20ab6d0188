# HowlFrame in TLA+

HowlFrame compiles a small s-expression language to bytecode and runs it on a VM
that holds explicit capability grants and finite budgets. This directory models
the parts of it where order, concurrency or failure decide what happens, checks
them with TLC on small instances, and proves theorems about them with TLAPS for
every instance.

`PROJECT.json` is the index: components, runs, the source lines each definition
stands for, hazards, findings and theorems. This file explains them.

    cd tla
    tlc -workers 2 -config NativeStoreCrash.cfg MCNativeStore   # one run
    tlapm NativeStoreProofs.tla                                 # one proof module

Contents: [1 Inventory](#1-inventory) · [2 Modules](#2-modules) ·
[3 Native store](#3-native-store) · [4 HTTP server](#4-http-server) ·
[5 Exec containment](#5-exec-containment) · [6 Compiler and VM](#6-compiler-and-vm) ·
[7 Authority](#7-authority-and-evidence) · [8 HFIR](#8-hfir) ·
[9 Findings and divergences](#9-findings-and-known-divergences) · [10 What is proved](#10-what-is-proved) ·
[11 What is not modelled](#11-what-is-not-modelled) · [12 Plan](#12-plan)

## 1. Inventory

Line numbers below are those of `src/internal/vm/vm.go` unless another file is
named.

| Component | State it keeps | Operations | Interacts with |
|---|---|---|---|
| **Native store** (`STORE_*`, 1817-1994, 2130-2340, 2637-2713) | a registry of open stores under a mutex; per store a map of records under a read/write lock; one JSON file per `file://` store | open, put, get, delete, keys; copy, persist, publish; atomic replacement (temporary sibling, write, sync, close, rename, directory sync) | every goroutine of a VM; the file system; grants (a file store needs read, a write needs write) |
| **HTTP server** (`HTTP_ROUTE`, `HTTP_SERVER_SERVE`, request and response opcodes, `http_response.go`) | per request: body, response recorder or buffer, instruction budget; one mutex for `(serialize_requests)` | accept, read the body within `--max-request-bytes`, run the handler, recover from its failure, flush | net/http; stores and captured variables that handlers share; clients that stall or break off |
| **Exec containment** (`exec_contain_linux.go`, `EXEC`) | runner: select loop over three events; supervisor: a subreaper with a sweep over `/proc`; the process tree | start, copy output, report, cancel, kill the group, sweep, safety timer | three pipes; the kernel's reparenting and reaping; the deadline |
| **Bytecode VM** (`BCVM.run`, 2496-4016) | operand stack shared by all activations, environments, call depth, instruction count, memory counter, deadline | one opcode each: load, store, jump, loop, call, return, try, agent, effects | everything above |
| **Bytecode compiler and scoping** (`internal/bytecode`) | the scope pass renames inner bindings; the emitter counts relative jumps | one case per form | VM, interpreter (same programs) |
| **AST interpreter** (`Interpreter`, 46-1816) | chained environments | one method per form | the reference that `stack_discipline_test.go` and the differential tests compare with |
| **Capability grants** (`internal/capability`) | grant lists; attenuation for spawned bodies and routes | check, attenuate | every effect of the VM |
| **Execution receipts** (`receipt.go`) | one recorder of decisions, de-duplicated, capped, sealed | record, finish | every capability check, all goroutines |
| **Scoped file system** (`capability/scopedfs.go`) | none | open beneath a granted root, check, then truncate | a file system that changes underneath |
| **Outbound HTTP** (`capability/network.go`, `FETCH`) | headers and hops of one request | redirect loop, vetted addresses | grants, receipts |
| **Detached spawn** (2926-2947) | variables copied when spawned, shared lists, dictionaries and stores | spawn, mutate | memory budget, deadline |
| **Map ledger** (`mapEvidence`, 4100-4400) | for each dictionary of the main body a version, its events, whether the record is complete | register, note a read, a change, a deletion | the dictionary operations; the evidence file |
| **HFIR graphs and lowering** (`internal/hfir`) | a graph of typed nodes | lower the AST, verify, lower to bytecode | front end, bytecode validation |
| **HFIR incremental compiler and storage** (`incremental.go`, `storage.go`, `manifest.go`) | the last manifest, fragments per node, a content-addressed directory | compile, compile again after an edit, put, validate, restore | graphs |
| **HFIR model transport and repair** (`model_adapter.go`) | none | decode, gate a candidate, hand out a repair context, apply a delta | a model outside; graphs |
| **Type checker** (`internal/checker`) | the types of names in scope, the signatures of functions, the errors found | infer each form, require a value, join branches | runs before every compiler; its errors stop them |
| **Front end** (lexer, parser, desugaring) | none | text to trees, trees to trees | type checker, compilers |
| **SSA and WebAssembly** (`ir/ssa.go`, `backend/wasm/ssa_serializer.go`) | blocks, and the value of each name, of the form being lowered | lower each form, validate, recognise a loop, serialize | type checker; `--compile-wasm` |
| **Back ends** (Go, JavaScript, other WebAssembly) | none | code generation | - |
| **Tools, module API, CLI, applications** | none of their own | - | - |

### What is hard here

* *Concurrency.* Handlers, spawned bodies and the main program share stores,
  lists and dictionaries. Request goroutines share one lock with clients that
  may never answer. A supervisor reads `/proc` while the tree it reads changes
  and a goroutine of its own reaps one of its members.
* *Failure.* Six I/O steps can fail between copying records and publishing them;
  a handler fails before, between or after its responses; the supervisor or the
  runner is killed half-way; the process or the machine stops.
* *Ordering.* Rename before directory sync, flush after unlock, the end of the
  output before or after the end of the program.
* *Shared stacks.* Values that nobody wants, loop state and call operands live on
  one operand stack that a return or an error truncates; one flat environment
  per function stands for nested scopes.
* *Limits.* Instructions, call depth, memory, request bytes, output bytes,
  deadlines: each interrupts at a place nobody wrote a test for, and some of
  these interruptions can be caught by the program.

`PROJECT.json` lists these hazards one by one at their lines, with the properties
that would notice them going wrong, or why no property does yet.

### What makes each component correct

* **Native store**: it behaves as a set of maps whose operations each take effect
  at one moment (linearizability), a failed operation has changed nothing, what
  was answered survives a power loss, no file is ever half-written, no failure
  leaves a lock behind.
* **HTTP server**: with `(serialize_requests)` every read-modify-write is atomic;
  no partial or oversize body reaches a handler as a value; the status sent is
  true of what happened; a client that stalls delays no other; timeouts end
  every request.
* **Exec containment**: when a call returns nothing of its tree runs; a call that
  nobody stops is never cut short; success means the whole output of a program
  that ended with zero; the call returns and the supervisor ends.
* **Compiler and VM**: a program prints on the VM what it prints on the
  interpreter; no activation takes the operands of another; call depth is the
  number of calls; every program stops.
* **Type checker**: the VM never finds an operand missing in a program it accepts.
* **SSA and WebAssembly**: a program it takes computes what the VM prints.
* **Grants, receipts, scoped files, outbound HTTP**: no effect without a decision, no
  spawned body with more than its parent, no file outside a granted root whoever
  changes the tree meanwhile, no hop that was not authorised, a sealed receipt that
  lists what happened.
* **Map ledger**: evidence that says it is complete tells how each dictionary came to
  hold what it holds.
* **HFIR**: a graph compiles to what its source compiles to; an incremental
  compilation gives what a clean one gives; a stored manifest names objects that can
  be read; a repair changes its region only.

## 2. Modules

| Module | What it is |
|---|---|
| `RecordData` | the requests, replies and records that the two store modules share |
| `RecordStore` | abstract specification: a crash-safe linearizable record store |
| `NativeStore` | the store as the VM implements it; `INSTANCE RecordStore` is its refinement |
| `HttpServe` | the server around its handlers |
| `ExecContain` | runner, supervisor and process tree |
| `Grants` | what a set of grants allows, and how a body's are derived from its parent's |
| `Authority` | bodies of a governed run, their effects, the receipt and the evidence |
| `Terms` | values, errors, instructions that interpreter, compilers and VM share |
| `Data` | integers of a width, texts, lists, dictionaries and their conversions |
| `Interpreter` | meaning of a program, as a recursive operator |
| `Checker` | the type checker, as recursive operators over the same programs |
| `Ssa` | forms to SSA graphs |
| `Wat` | SSA graphs to WebAssembly, and what that computes |
| `Emission` | the jumps of each form, shared by both compilers |
| `Compiler` | scoping and code generation, as recursive operators |
| `Vm` | the run loop, one action per opcode, over an arbitrary set of programs |
| `HfirGraph` | graphs: shapes of nodes, dependency closures, verification |
| `HfirLowering` | a graph to bytecode, with cached fragments; validation of a program |
| `HfirTransport` | what a model may propose, and repairs |
| `HfirSession` | incremental compiler over a store with faults and restarts |
| `HfirSource` | a program to its graph |
| `Execution` | composes interpreter, both compilers and VM and compares them |
| `NativeStoreProofs` | theorems about the store, and that it implements `RecordStore` |
| `HttpServeProofs`, `ExecContainProofs`, `VmProofs` | theorems about the modules they are named for |
| `AuthorityProofs`, `AccountProofs` | theorems about `Authority`: grants and redirects; receipt and evidence |
| `FileProofs` | the theorem about the files of `Authority`, on top of `AuthorityProofs` |
| `HfirSessionProofs` | theorems about `HfirSession`: what a manifest promises, what a repair may change |
| `MC...` | small instances, one module per group of runs |

`NativeStore`, `HttpServe`, `ExecContain`, `Authority`, `Data`, `Vm` and the HFIR modules
but `HfirSource` declare no RECURSIVE operator and extend none, so that they can be proved
about; the compilers, the checker, the interpreter, `Ssa` and `Wat` are recursive and are not.

## 3. Native store

**State.** `registryMu`, `opened`: `bcStoreRegistry`'s mutex and map. `mem[u]`,
`writer[u]`, `readers[u]`: `bcMemoryStore.records` and the two sides of its
`sync.RWMutex` (a writer that holds the lock still waits for readers to drain,
action `DrainReaders`). `pc`, `req`, `draft`, `tmp`, `out`: where a goroutine is,
the operation it executes, the copy of the records it is about to publish, its
temporary file, and what it will push or raise. `file[f]` is what the file holds
now, `survives[f]` the set of contents it may hold after a power loss: a rename
adds a content, a successful directory sync leaves only that one.

**Actions.** A write is `Invoke`, `StoreHandle` (the handle is looked up and the
grants checked) or `Refused`, `Lock`, `DrainReaders`, `CloneRecords`, then for a
file store `CreateTemp`, `WriteTemp`, `SyncTemp`, `CloseTemp`, `RenameTemp`,
`SyncDir`, then `CommitRecords`, `Unlock`, `Finish`. Each step of the persistence
may end in `FailPersist`, each step in a critical section in a panic (`Abort`,
`recoverStorePanic`); both release the lock through the deferred unlock.
`OpenStore` loads the file under the registry's mutex and refuses one that does
not decode. `CrashProcess` loses all memory, `PowerLoss` also picks for every file
one of the contents it may hold.

**Abstract specification.** `RecordStore` has one map per store, `Begin`, one
atomic `Effect`, `End` and `Crash`. The refinement mapping (`NativeStore!Visible`,
`Answer`) lets an operation on a file store take effect when its directory sync
is over, one on a memory store when it is published.

| Run | Instance | Shows |
|---|---|---|
| `store_crash` | a `file://` and a `memory://` store, one key, two values, two goroutines of which one may write; I/O errors, panics, failing directory syncs, process crashes | `ImplementsRecordStore`, `MemoryMatchesFile`, `LocksHeldByWorkers` |
| `store_power` | one `file://` store, two writers; I/O errors, panics, power losses | `AnsweredWriteIsDurable`, `FileStaysComplete`, `ImplementsRecordStore`, and `EveryOperationEnds` under fairness |

**Bounds.** Two goroutines suffice for every order of a writer against a writer, a
reader or an opener of the same store; two values tell old, new and lost records
apart; one key is enough because records are copied, written and published whole.
`store_crash` has two stores because the lock of one must not cover the other. The
number of operations and of crashes is not bounded. No run checks the store's `TypeOK`:
it is proved for every instance (`TypeCorrect`, section 10).

**Fairness** (`FairSpec`): WF of each goroutine's own steps, since Go runs what is
runnable; SF of taking a lock, since `sync.Mutex` hands over to a waiter in
starvation mode and `sync.RWMutex` blocks new readers behind a waiting writer. No
fairness is asked of crashes or of callers that might not start an operation.

**When it does not hold.** The refinement assumes what the code needs and does
not check: every file is opened under one URI (`NoAlias`; two spellings of one
path are two stores with two locks), and power losses are combined neither with
failing directory syncs (their errors are dropped at 1987, so an acknowledged write
may be lost) nor with process crashes (a process restarted between rename and
directory sync reads, and answers, a record that a later power loss takes back).
These are listed as hazards without a property.

## 4. HTTP server

**State.** Per request: `arrived`/`upload` (bytes the client has delivered, and
whether it goes on, is done or has broken off), `taken` and `input` (how much the
server took off the connection, and what `r.Body` is now: the connection, a buffer
with the bytes `[from, upto)`, or the reader that only returns an error), `values`
(the ranges that reads gave the handler), `fuel` (its instruction budget),
`seen`/`data` (the handler's copy of shared data, and the data), `committed`,
`fault`, `logged`, `answer` (what was written, what ended the handler, whether a
fault line was, and what the client got). `serial` is the holder of
`__http_serial`. A body is a range of byte positions: the properties ask whether a
value is the whole body, never what it says.

**Actions.** `Accept`; with `(serialize_requests)` `Preread` (the bounded read
happens *before* the lock) and `Lock`; then the handler, any sequence of
`ReadBody` (`parse_json`, `req_body`), `GetData`, `PutData`, `Respond`, `Raise`,
within its fuel (`OutOfFuel`), where a caught error goes on and an uncaught one
ends it (`Throw`); `End` or `Recover` (the deferred function that turns a failure
into 400 or 500 if nothing was answered, and logs it); `Unlock`, and after it
`Flush` (the order of the deferred calls matters: a client that does not read
must not hold the lock). Without the lock `Respond` writes to the client at once
(`Send`). `Deliver`, `ReadTimeout` and `WriteDeadline` are the client and
net/http. A write has a deadline where the code sets one: `flushTo` before it sends a
buffered response, the recorder before each direct write (4387-4415). The server has no
`WriteTimeout`, so the answer net/http makes up for a direct handler that wrote nothing
has none (`FlushIsTimed`).

Handlers are not programs here but every sequence of the operations above, so a
property holds whatever the program is.

| Run | Instance | Shows |
|---|---|---|
| `http_serial` | with the lock; a body of twice the limit, and one of exactly the limit from a client that may stall for ever; three instructions each | `UpdatesAreAtomic`, `StatusIsTruthful`, `SerialBodyIsWhole`, `OthersAreAnswered` although nothing is assumed of the stalled client, not even a timeout, and `EveryRequestEnds`: if the timeouts do expire, they end the stalled one too |
| `http_parallel` | without it; the same requests, two instructions | `NoPartialBody`, and `EveryRequestEnds`, except for a handler that wrote nothing to a client that does not read |
| `http_oversize` | one oversize request | *violates* `OversizeIsRefused` (finding) |

**Bounds.** `Limit` is 2, so that a bounded read takes 3 bytes of a body of 4 and
leaves one; the body of exactly 2 tells `limit` from `limit + 1`. Three
instructions let a handler read, write back and fail. Two requests are every pair
of places in the closure; the theorems cover any number, and requests without a
body (`Bodyless`), which no run has.

**Fairness**: WF for goroutines, SF for the lock (as above), WF for clients that
do not stall. That `ReadTimeout` (30 s) and the write deadlines expire, which net/http
implements, is no part of it: it is the hypothesis `TimeoutsExpire` of
`EveryRequestEnds`, so that `OthersAreAnswered` is shown without it.

Observed, without a property: headers set after the first response of a buffered
handler reach the client although net/http would drop them in direct mode; without
`(serialize_requests)`, the connection of a handler that wrote nothing is held for as long
as its client does not read the 200 that net/http sends, although the comment at 3173 says
that timeouts keep a stalled client from holding one (the exception in
`EveryRequestEnds`); a body
spawned by a serialized handler runs outside the lock; a serialized handler that
fetches a route of its own server waits for itself until the deadline; `exit`
inside a handler becomes a 500.

## 5. Exec containment

**State.** The process tree: `state`, `parent`, `inGroup` (the process group that
the supervisor leads), `holders` of the output pipe, `unread` output, `exit` of the
program. The runner: its place, its three local flags, the copying goroutine, the
deadline, the result. The supervisor: its place, whether its goroutine in
`child.Wait` has returned (`waited`), what it wrote to the status pipe, how it
ended, and its sweep (`scan`: entries of `/proc` still to be read in this pass;
`kids`: children found; `passes`; `clean`: it ended with a pass that found none; `blind`:
an error kept that pass from reading what was there).

**Actions.** Processes of the tree, the program among them, fork, move to another
session, write, close their output and exit at will; the kernel lets killed ones die (late, if
`Stubborn`), re-parents orphans to the subreaper and to init when that is gone,
and gives zombies to whoever waits. The supervisor starts the program, selects
between its exit and the control pipe, reports, and sweeps: list `/proc`, *then* read
each process's parent, one read per step, kill the children found, reap, until a pass
finds none (and reaps once more) or the passes are used up. `childrenOf` drops its
errors: a listing that fails is one without children (`ListFails`), a process whose
`stat` cannot be read, for want of a descriptor say, is passed over like one that is
gone (`ReadStatFails`). The runner selects
between the copy's end, the report and a cancellation, closes the control pipe,
waits, kills the group, and has the five-second timer that kills the supervisor with it
(`SweepTimesOut`). The faults are constants: deadline, output limit, no such
program, death of the runner, death of the supervisor, sweep timeout, `/proc`
unreadable.

| Run | Instance | Shows |
|---|---|---|
| `exec_tree` | the program and two more processes, both slow to die, all faults, three passes | `SweptTreeIsGone`, `GroupIsKilled`, `NotCutShort`, `SuccessIsWhole` |
| `exec_live` | one more process, slow to die, two passes, all faults but the sweep timeout | `CallsReturn`, `SupervisorEnds` |
| `exec_guarantee` | no slow process, passes to spare, only a deadline | *violates* `NothingLeftRunning` (finding) |

**Bounds.** Two further processes make chains (program, child, grandchild) and
siblings, so an orphan can appear behind the reader of `/proc`; trees of any size are
left to the theorems. With two or three passes sweeps do give up, the code's 200 only
make this rare. The two further processes are
interchangeable, hence `SYMMETRY` in the run without liveness. `exec_live` leaves
out the sweep timeout because the timer must not be what ends the call.

**Fairness**: WF of the runner, its copier, the supervisor, its waiting goroutine
and the kernel. None for the tree: a process may run, hold the output or do
nothing for ever.

`SweptTreeIsGone` is the part of the guarantee that does hold: if the program had
exited before the sweep began (so that no goroutine reaps beside it), a pass that could
read `/proc` and every process listed there, and finds no child, means that the whole
tree is gone. The condition is needed: the code cannot tell such a pass from one whose
reads failed, which ends the sweep as clean with the tree alive. (The kill of the group
still reaches those who stayed in it: `GroupIsKilled` holds with these failures too.)
Types are proved only (`TypeCorrect`). Reuse of process ids and
processes that cannot be signalled are outside the model.

## 6. Compiler and VM

**Reference.** `Interpreter!Interpret` gives a program's output and exit status as
the tree-walking interpreter computes them (with fuel for recursion: a program
that needs more than `Fuel` nested evaluations `diverges`, and none of those
compared does). The interpreter does not run `try_let`; its meaning is that of
`tryLet` in `internal/backend/wasmgc/compile.go`.

**Data.** `Data` has what interpreter and VM share: integers of the width of
`MaxInt` with the overflow checks as the code writes them (an assumption checks
each against the exact result, another that a printed number parses to itself),
comparison, texts as short character sequences, lists by value, dictionaries as
places in a heap so that two names may share one, and the conversions between them.

**Compilers.** `Compiler` has the pass of `scoping.go`, which renames inner bindings
that would overwrite an outer one of the same function, and the emitter with its
relative jumps (`Emission`). Names are pairs of a text and a rename count.
`HfirSource` lowers the same programs to HFIR graphs, and `HfirLowering` those to
bytecode, so that a share of the programs is run both ways.

**Type checker.** `Checker!Analyze` infers a program as `types.go` does: an environment
of names that every form but `let`, `for` and `try_let` shares with what follows it, the
types of lists and dictionaries with `any` where branches disagree, and the two ideas its
errors rest on: a form may give no value (`lacks`), and a form may never end normally
(`Diverging`). A form that is used for its value and may have none is an error, except as the condition
of an `if` or `while` and as the key of a dictionary, which the code infers without asking
for a value. `open` marks the programs that use one there, and `NoOperandIsMissing`
excuses them (`AcceptsClosed`).

**SSA and WebAssembly.** `Ssa!Lower` threads the builder of `ssa.go` through a form: the
block it appends to, the environment from names to values, phis where branches meet and
at the head of a loop, a block that is closed although the form around it goes on.
`Wat!CompileToWasm` is the serializer: it finds the one loop it takes, checks operators and
signatures, and gives folded expressions whose evaluation (`Value`, with integers that
wrap) is the machine's. `WasmAgrees` compares the entry's value with what the VM prints of
the same expression, for programs the checker and the serializer accept. The last part of
`Wat` says which shapes the serializer takes without representing them; `WasmAgrees`
excuses those and they are listed in section 9. Of the 98 programs of the instance that
compile 94 are not excused, a quarter of them with a loop.

**VM.** `Vm` has the state of `BCVM.run`: the frames with their environment, place
and pending ends (`bases` of loops, `kept` operands of the frame below), the operand
`stack`, the heap of dictionaries, the call depth, the instruction and memory
counters, `panic` for an error on its way out, the output, and the map `ledger`.
One action per opcode or group of opcodes of one shape; errors of each (unknown
name, wrong type, empty stack, the limits), the unwinding of frames, the catch of a
`try_let`, and the deadline. Its `TypeOK` says that every activation stays in the code
it was given to run, and that no limit is exceeded.

**Programs.** The VM's programs are `WellFormed`, which TLC evaluates for every program
of the run. Most of that is what `ValidateProgram` checks (no negative length, jumps
within the code of the function). Two things are not checked by it but true of what the
compilers emit: a jump inside a body of a `try_let` or an agent lands in that body
(artifact.go:290 compares it with the code of the whole function, while the VM runs the
body as code of its own), and counts of operands are not negative. Constants are scalars
and texts (`IsConstant`): the compilers make lists and dictionaries with instructions of
their own.

| Run | Instance | Shows |
|---|---|---|
| `vm` | about 5,000 programs: every pair of 53 statements about a number, every pair of 47 about a dictionary, a list and a number, some 200 of them by way of their HFIR graph; calls (a return from inside a loop, a recursion, a failure after a change), plus hand-assembled agents and wrong operands, with and without a model adapter; some 280 programs that use each form for its value inside each other, all accepted by the checker; 130 that print a function of a number, for WebAssembly | `AgreesWithInterpreter`, `OperandsNest`, `NoOperandIsMissing`, `WasmAgrees`, `DepthIsCalls`, `LedgerTellsTheMaps`, `AgentsKeepToCopies`, `Terminates`, `TypeOK` |
| `vm_operands` | four programs that discard a value inside a later operand | *violates* `DiscardsDoNoHarm` (finding) |

**Bounds.** The statements are chosen so that each form occurs inside and around
every other: loops left by return, error and exit; names shadowed by let, for,
catch and parameter; values discarded before loops, calls and branches; two names
for one dictionary; keys that are numbers; arithmetic at the width of an integer
(`MaxInt` = 31). Pairs put each after the leftovers of another. 70 instructions, 14
units of memory and 4 nested calls are enough for most programs, so that both the
limits and the results are reached; agreement is asked of programs no limit
stopped. Six ledger events and two resources overflow the ledger in some programs
and not in others. Deadlines strike only in the programs that are doubled for it and
the hand-assembled ones, otherwise every state of every program would have one.

**Abstractions.** Texts are uncharged, and memory counts slots: one for the item of
a list, two for a new key. That keeps the order of charge and failure but not the
byte amounts. Numerals have at most two digits and separators at most one
character. `/`, floats, bytes, JSON, regular expressions, escaping, `cli`, `env` and
`sleep` are left out. A dictionary inside a printed one is shown by its identity, and
one that contains itself is not copied for an agent.

**Fairness**: WF of the run loop only. `Terminates` needs no more because the
instruction count bounds every program; recursion, loops and agents that spawn
agents are in the instance. Runs of this group, of `Authority` and of `ExecContain`
switch the deadlock check off because their systems really end; the store's runs keep
it on, and the HTTP runs end with every request done, so they switch it off.

## 7. Authority and evidence

**State.** `Authority` runs one of `Programs`, a tree of bodies: `bodies[b]` has the
grants, the code still to do, the line of bodies above, and the operation in
progress (`io`, with the phase of its system calls). `tree` is what each path names,
changed by another process too; `performed` and `refused` are history: the effects
that happened and the refusals. `receipt` is the recorder all bodies share, `ledger`
and `evidence` the map ledger of the main body and what is copied from it at the end.

**Actions.** `Begin` counts the instruction and checks its coarse class; then each kind
of effect goes its own way. A file operation matches a root, then `StatRoot`, `OpenRoot`,
`LstatTarget`, `OpenTarget`, or `OpenPinned`, `VerifyPinned`, `CreatePinned` for a grant
of a single file, each against a tree that may change in between. A fetch authorises its
first URL, dials a vetted address, and follows each redirect with a new check. An exec
grant matches arguments slot by slot, with wildcards and backslash escapes
(`slotMatches`; the run's grant asks for a literal star). `EXEC` and `ENV` are checked
and performed; dictionaries are changed with or without a ledger; agents and detached
bodies get what attenuation leaves. `CopyEvidence`, `Seal` and `SealOnReturn` end the
run; detached bodies run on.

| Run | Instance | Shows |
|---|---|---|
| `authority` | governed runs of one to four bodies | `ChildrenStayCovered`, `FilesStayInRoots`, `ChainsAreGuarded`, `EffectsAreRecorded`, `RefusalsAreRecorded`, `SealedReceiptStands`, `LedgerIsFaithful`, and `RunIsSealed` under fairness |

**Bounds.** Seven instructions in all bodies together, two nested agents, receipts of
four entries (so that they truncate), two redirects, ledgers of four events and two
resources, three dictionaries, and three changes of the tree by the other process.
Three changes suffice to swap a name away and back again between the check and the
open and once more after it.

**Fairness** (`FairSpec`): goroutines run on and servers answer.

**What the code does that these properties do not ask.** A refusal at I/O time of a
path that was allowed a moment before is dropped by the de-duplication per
instruction and capability (receipt.go:102; `RefusalsAreRecorded` excludes it).
Whether a parent's grant covers a child's is decided on the text of the paths
(process.go:286), so a link inside a granted root can let a child name what its
parent could open too. An `O_CREATE` through a dangling link may leave an empty
sibling file (scopedfs.go:92). The other process changes names below a root, not the
root's own component between `matchRoot` and `OpenRoot` (scopedfs.go:170), unless it makes a link to a steady file of it; section 10
says exactly what is assumed (`RootsStandFirm`). Grants are
a set here and a list in the code, which takes the first that matches; the
attenuation of the bodies of HTTP routes is not modelled.

## 8. HFIR

**Graphs.** `HfirGraph` has the shapes of the node kinds, the dependency closures and
the verifier; `HfirLowering` the checks and the lowering of every kind with a cache of
fragments, and the program validation; `HfirTransport` what a model may propose.

**State of `HfirSession`.** The graph at hand; the compiler with its last manifest and
its cached fragments; the round in progress and the objects it has still to put; the
store (readable and damaged objects); the answer of the last round; the repair context
handed out.

**Actions.** `Compile` (reuse of an artifact, or lowering with the fragments of
preserved nodes), `PutBlob` and `PutFails` one object at a time in the code's order,
`Finish`, `Crash`, `SetPreviousState`, `Damage`, `DeleteBlob`, `Clear`, `Offer` of a
repair context and `ApplyRepair`.

| Run | Instance | Shows |
|---|---|---|
| `hfir` | eleven graphs, two targets | `IncrementalIsClean`, `StoreIsWhole`, `RepairsStayInRegion` |

**Bounds.** Three compilations, faults, crashes or offers in any order: one compilation to
fill the cache, a fault or an edit, and one to fall over it. The graphs differ by a deep
leaf, a node more, a function defined at the top or inside a sequence, and by what
makes them unverifiable or unlowerable. Candidates have at most 12 nodes of 3 inputs,
depth 6 and 20 nodes when expanded; a repair has two operations and a region of
five nodes.

**A known fault of the code.** Cached fragments do not contain the functions defined
inside them. When an object of the store is lost or damaged, compiling the unchanged
graph takes the whole `program` fragment from the cache, so that the function table
is empty: a program with a call is refused by the validation, and one with a function
nobody calls loses it. The same happens to a function inside a preserved sequence.
`hfir/bytecode.go:98` and `cas_incremental_test.go:482` expect otherwise.
`IncrementalIsClean` excuses exactly these functions (`Hidden`).

**Abstractions.** Two objects have one hash if and only if they are equal. The unnamed
role of `sleep` is called `duration`; JSON and its byte limits, provenance, types, the
graph's version and the limit of four million fragments are left out; two functions of
one name do not occur. Puts that find a readable object are merged with the next
write. Faults strike between rounds, and a repair is offered only after an answer.
`Verify` adds inferred effects to the graph it is given, so a fresh copy of an unchanged
graph with a capability node is never reused; this is modelled. A graph decoded from
JSON has no node map and does not verify, and `SetPreviousState` on a compiler in use
leaves the fragments of another graph (incremental.go:46); both are not.

## 9. Findings and known divergences

Three statements of the repository that the code does not keep are runs that TLC ends
with a counterexample.

1. **A second read of an oversize body succeeds** (`http_oversize`, 3646).
   `LIMIT_EXCEEDED` is catchable, and the refused read has consumed `limit + 1`
   bytes and not replaced `r.Body`: the next `req_body` returns the rest of the
   body as a complete value (an empty one with `(serialize_requests)`).
   `docs/cli.md:32` says that reading a larger body raises.
2. **A process can outlive a stopped exec** (`exec_guarantee`,
   `exec_contain_linux.go:237`). The program is reaped by `child.Wait` after
   `/proc` was listed and before it was read, so its child in another session is
   found neither by the listing nor by its parent; the pass is "clean".
   The comment at 31-32 guarantees the contrary.
3. **A discarded value is consumed by an operator** (`vm_operands`,
   `internal/bytecode/bytecode.go:972`). `(+ 1 (do 5 2))` is 7 on the VM, 3 on the
   interpreter; `stack_discipline_test.go:10-13` says discarded values leave
   nothing behind.

Known divergences without a run; the instances stay clear of them or the properties
name them:

* An incomplete body leaves no fault line: the recovery returns before it writes the
  line that `docs/cli.md:35` says a fault always has (3134).
* Typed parameters are not scoped: a `let` of the same name in the body overwrites the
  parameter (`scoping.go:111`, against the comment at 12-16). Neither are the keys of a
  dictionary: after `(let (x "a") (let (x "b") (dict (x 1))))` the key is looked up under
  the outer name (`scoping.go:126-133`).
* A callee's scope hangs under its caller's (3562), so `set` of a name that a function
  does not have changes the caller's variable.
* A body without `return` gives nil on the VM and its last value on the interpreter;
  `(exit true)` is status 0 on the VM and an error on the interpreter; a name bound by
  `let` is still visible after its body on the VM.
* The interpreter's `append`, `list_get` and `map_*` read and check the variable before
  they evaluate the operands, the VM after; a path `map_get` evaluates the key before it
  checks the dictionary on the VM. The interpreter's lists are `[]any` only, the VM's
  also bytes; the VM's `str_split`, `str_join` and the regular expressions require
  strings where the interpreter formats any value.
* An `if` without `else`, and the other forms without a value on some path, are accepted
  as the condition of an `if` or `while` and as the key of a dictionary
  (`internal/checker/types.go:530-551, 645-655` call `infer`, not `inferValue`), and the VM
  then finds no operand, which is what `inferValue` is there to rule out (1055-1056).
* A `set` of a name that was never bound is accepted, and makes later reads of it
  accepted, also from a branch that was not taken (`types.go:624-632`); the VM stops with
  `UNDEFINED_VAR`. `(exit x)` with a nil `x` is status 0 on the VM (3603-3614) and an error
  on the interpreter (393-399).
* The HFIR fault of section 8.
* `--compile-wasm` takes these forms and computes something else, although unsupported
  shapes should be errors (`ssa_serializer.go:14`): a `let` of a loop variable that is read
  after the variable is set in the same turn (values are recomputed where they are used,
  483-506); an inner `let` that shadows a loop variable and is set (550-558); a return
  inside a loop's body, or beside a loop (426-433); a return inside an operand
  (`ssa.go:459-470`); a loop under an `if`, which runs whatever the condition; a call on
  the right of `and` or `or`, which is always made. Bodies of several forms keep the last
  one (`howlframe.go:405`). An operand whose branches both return makes `emit` fail on a
  block that is not there (`ssa.go:646`). Integers wrap where the VM stops.

## 10. What is proved

TLAPS checks every theorem below, for all values of the constants that satisfy the
named assumptions of the modules (`StoreAssumption`, `CorruptAssumption`,
`NativeStoreAssumption`, `HttpServeAssumption`, `NoneAssumption`,
`ExecContainAssumption`, `AuthorityAssumption`, `LimitsAreNumbers`, `LedgerLimitsAreNumbers`,
`MaxIntIsNumber`: nobody's name is a process's or a request's, sizes and limits are natural
numbers, "nothing" is not a value). Five more say what programs, trees and graphs are:
`CodeAssumption` (what is left of a body's code, and the code of each body it starts, is code
too, and files and roots are named by sequences of names), `TreeAssumption` (trees and the
changes to them are made of files, directories and links), `GraphAssumption` (graphs are
nodes and modules with names), `ProgramsAreWellFormed` and `ConstantsAreLiterals` (section 6). These are about the
choice of constants.

Two theorems about the store restrict what may happen, to what the code needs and does not
check (section 3): `NoAlias`, that no file has two URIs, and a condition on `Faults`, that
power losses are not combined with failing directory syncs, nor, for the refinement, with
crashes of the process. `MemoryMatches` needs `NoAlias` alone, and the theorems about
`(serialize_requests)` the option itself. The theorem about files needs two conditions that
the code takes for granted of the machine it runs on, `RootsStandFirm` and `FilesKeepNames`,
and the one about repairs that graphs are such as the transport can express,
`OnlyTransports`. Each run satisfies the conditions of the theorems about the properties it
checks, and TLC evaluates those last three as assumptions of `MCAuthority` and `MCHfir`.

The theorems about the values of the VM are for any operator `Cloned`, and take of it that
each copy an agent is started on is whole (`CopiesAreWhole`): the dictionaries there were are
as they were, and what the agent is given is made of new ones alone. `CloneScope`, which the
run uses, is a recursion over values, like `cloneStoreValue`; TLC evaluates as an assumption
of `MCExecution` that its copies of a nested and shared heap are whole. Of a dictionary that
holds itself no copy ends, in the code (vm.go:2322) as in the model, and no agent starts.

**`NativeStoreProofs`** (any number of goroutines, stores, keys and values, all
faults together).

* `IInvHolds`: `Spec => []IInv`, where `IInv` is `TypeOK`, `RequestsInPlace` (a
  goroutine in a critical section executes a request of the kind that enters it),
  `FilesDecode` (only a synced temporary file is renamed, what a file may hold after
  a power loss decodes exactly if the file does, and an opened file decodes) and
  `LocksHeldByWorkers`. `LocksHeldByWorkers` alone is not inductive: which store a
  place in the code is about is in `req`, so that the lock released is the one taken
  only follows with `RequestsInPlace`.
* `TypeCorrect`, `LocksSafe`: its first and last conjuncts. `LocksSafe` is mutual
  exclusion of writers against writers and readers, and that a failed or panicking
  operation holds nothing once it is back.
* `FilesComplete`: `Spec => FileStaysComplete`, the action property that no step,
  crash and power loss included, makes a complete file a corrupt one or a file
  that could not be read a complete one.
* `MemoryMatches`: `NoAlias => (Spec => []MemoryMatchesFile)`. It rests on
  `OnePublisher` (the lock leaves at most one goroutine of a store between rename
  and publication) and `QuietStep` (steps that touch neither side).

Its second part, the same constants:

* `WritesAreDurable`: `AnsweredWriteIsDurable`, if no directory sync fails. A goroutine
  between rename and directory sync has its draft in the file (`RenamedFileIsDraft`, from
  `MemoryMatchesFile` and the lock), so that the sync leaves the draft only; and until it
  releases the lock no other goroutine renames.
* `StoreRefines`: `Spec => ImplementsRecordStore`, step by step. `RInv` is `IInv`,
  `MemoryMatchesFile` and four more: `OutcomesInPlace` (a goroutine that has still to work
  has no outcome, so that the abstract answer is empty until the operation takes effect),
  `DraftsInPlace` (a draft is the result of the operation on what memory holds *now*: nobody
  published since it was cloned), `ClosedIsEmpty` (a crash forgets what is not in a file) and
  `SurvivesOldOrNew` (what a power loss may leave of a file is what it holds, or the records
  before or after one rename whose sync is not over). Renaming, opening and crashing are where
  the mapping is delicate: the effect of a file's write is its directory sync, so the step
  that publishes in memory is a stutter, and a power loss between the two is either the
  abstract effect followed by nothing or no effect.

**`HttpServeProofs`** (any number of requests, any sizes, limit and budget, with and
without the lock).

* `IInvHolds`: `TypeOK` and, for each request, `LockInv` (the lock is held exactly
  from `Lock` to `Unlock`, and a copy of the data that its holder has is the data),
  `StreamInv` (what was taken has arrived, and with the lock nothing is read from a
  connection after `Preread`), `BufferInv` (a buffer that starts where the body
  starts is the whole body or more than the limit) and `ReplyInv` (what is
  committed and answered fits the fault).
* `UpdatesAtomic` (with `(serialize_requests)`), `StatusTruthful`, `BodiesAreWhole`
  (`NoPartialBody`) and `SerialBodies` follow from it. The body properties need
  `BufferInv` because a failed read puts back what it consumed: a value read later
  is only whole if everything that was ever put back was.

**`ExecContainProofs`** (any number of processes and passes, all faults together).

* `IInvHolds`: `TypeOK` and, in named parts, `ProgramEnds` (the supervisor reports only
  what it has waited for), `OutputEnds`, `RunnerWaits` (nothing is killed before the
  runner has closed its control pipe), `GroupEnds`, `PassesLeft` and `SweepSees`. The
  last is what `SweptTreeIsGone` needs: the processes alive can be ranked by age so that
  each is younger than its parent or a child of the supervisor (`Descend`), and in a pass
  after the program's exit that no error has blinded, a tree that is not gone has a child
  of the supervisor among the entries still to be read or among the children found. Each
  step keeps this only because, once the program has been waited for, nothing but the
  sweep reaps a child of the supervisor; the finding `exec_guarantee` is this argument's
  failure while `Wait` still runs.
* `SweepIsThorough` (`SweptTreeIsGone`), `GroupIsAlwaysKilled`, `NothingIsCutShort`,
  `SuccessMeansWhole` and `TypeCorrect` follow.

**`AuthorityProofs`** (any programs, grants, limits, number of bodies, changes of the tree).

* `SealStands`: `SealedReceiptStands`; every step that decides writes through `Noted`.
* `InvariantHolds`: `IInv`. Its parts: the bodies are a sequence of records of which only the
  first is the main one, what is left of each is known code (`CodeIsKnown`), an agent's parent
  waits for it and for no other (`AgentsAreAwaited`), main does nothing once its evidence is
  copied (`MainRests`), each body's grants are covered by those of every body it descends from
  (`LinesAreCovered`), what an instruction in progress has been allowed fits its phase
  (`InstructionsAreGranted`), and every effect performed was within the grants of the body
  and of all above it (`EffectsAreGranted`).
* `ChildrenCovered` (`ChildrenStayCovered`): attenuation keeps only grants that some grant of
  the parent covers, `Covers` is transitive on grants whose roots are sequences of names, and
  what a covered grant permits the covering one permits. The code compares a child's grants with
  its direct parent's only; that all ancestors are covered is this transitivity.
* `ChainsGuarded` (`ChainsAreGuarded`): between two hops the request rests with a chain whose
  hops were all authorised and never left `https`, and a referer only if the origin never
  changed.

**`FileProofs`** (the same, and any trees).

* `FilesInRoots`: `RootsStandFirm /\ FilesKeepNames => (Spec => []FilesStayInRoots)`. The
  property is about one moment, the effect; what makes it true was learnt several system
  calls earlier, while another process could change the tree between any two. So the invariant
  `FInv` says what stays true of that knowledge. `PlacesAreKnown`: the handle of an operation
  is the directory its root names, or the one above a single file, and every later step is
  relative to the handle, where a link that leads out is refused; an operation on a single
  file has first seen and then opened a file, each under a name it had at that moment, and
  `VerifyPinned` compares their numbers: of what `Lstat` saw at the granted path, and of what was
  opened, wherever the name led by then. `EntriesAreNamed`: a number has one
  name, which is what makes that comparison mean anything; for files that bodies create, the
  number is new, which needs that a body creates at most one file for each instruction left
  of its code (`Spent`). `TreeIsFirm`: `Outside` keeps `RootsStandFirm` true of the tree as it
  is, and so does every directory or file a body makes. `GrantsAreKnown`: attenuation makes up
  no roots. None of the five is inductive without the others.
* `RootsStandFirm`: a root's own path has no link on it, and the other process puts none there
  except at the root itself and to a file that stays one. `openScope` resolves the root once
  more after it is checked and would follow a link put at it to a directory elsewhere.
  `FilesKeepNames`: the other process neither renames a file nor links it under a second name.
  `os.SameFile` compares numbers, so a file moved to another name is, to the code, still the
  file that was granted.

**`AccountProofs`** (any programs, grants, limits, bodies, changes of the tree), about the
receipt:

* `AccountsHold`: `RInv`. `Accounts` counts: for each operation and target, the entries that
  allow it are at least the effects performed and those *due*, allowed and not performed yet
  by some body; the entries that deny it, at least the refusals. Without the due ones this is not inductive, since
  entry and effect are written by different steps, with the steps of other bodies between.
  `DecidedFirst` is what makes an effect due before it happens.
* `RefusalsRecorded`, `EffectsRecorded` (`RefusalsAreRecorded`, `EffectsAreRecorded`) follow.

and about the evidence:

* `AccountsTell`: `LInv`. A ledger that is complete has as many events of a dictionary as
  that counts changes, the versions of the events number them in order, and dictionaries that no
  detached body changed have no other change (`LedgerTells`); evidence, once there, is the
  ledger (`EvidenceIsLedger`), because main rests from then on and only main writes the ledger.
* `LedgerFaithful` (`LedgerIsFaithful`) follows.

**`VmProofs`** (any well-formed programs, any limits).

* `ActivationsStack`: `IInv`. The frames are stacked (`Stacked`): each but the first rests
  on the instruction that waits for it, a call, or a `try_let` or agent of the same function
  whose bodies end within the code of the frame below (`Under`); each is at a place of the body
  it runs; `callDepth` counts the calls among them (`DepthsAgree`); nothing is over its limit.
  The bounds are needed for the frame below as well as for the innermost: when an activation
  ends, the one below goes on behind all the bodies of its instruction, and that this is within
  its code is the validation of the lengths, seen from a frame that may itself be a body. That
  the caller's place does not move while it waits is what `Stacked` says of all but the last.
* `FramesStayInCode` (`FramesInCode`) and `LimitsAreKept` (`LimitsHold`), two conjuncts of
  `TypeOK`, and `DepthsCount` (`DepthIsCalls`) follow.
* `ValuesStayApart`: `Spec /\ CopiesAreWhole => []VInv`. A function `h` gives each dictionary
  to the cloned scope it was made under, 1 for the program, and `Apart` says that a scope,
  the operands of a frame, a pending panic and the dictionaries themselves hold values made of
  dictionaries of their own scope alone. `m` says which activation each scope is of
  (`Matches`), so that the end of an agent leaves the scopes and operands of its spawner as
  they were. A value nests to any depth, but no recursion is needed: `Sound` says that it is in
  a set of values closed under taking items. `h` and `m` are witnesses of each state, and grow
  with it. The lemmas say what each operation on values gives: that splitting gives one text more
  than there are separators, that joining and concatenating give texts, that the keys in order
  are the keys (by way of the order by rank), and that a dictionary of pairs, or one changed at
  a key, is a dictionary again.
* `TypesAreKept` (`TypeOK`) follows: `memory` is a natural number because the lengths that are
  charged are, and a panic is of a kind that the unwinding knows.
* `LedgerIsTrue` (`LedgerTellsTheMaps`). `VInv` says that a complete ledger numbers exactly the
  dictionaries of the program (`LedgerKnows`), each once (`LedgerTyped`), and what the last
  change of a key says is what its dictionary holds (`LedgerTells`). A step notes a read or a
  change of one dictionary and leaves the others as they are (`TouchLedger`), or begins one
  (`BeginLedger`). That an agent cannot change a dictionary the ledger knows is the part of the
  proof that needs `Apart`: the ledger is not given the steps of agents.

**`HfirSessionProofs`** (any graphs, targets, edits, any number of faults, compilations and
offers).

* `ManifestsAreBacked`: `Spec => []StoreIsWhole`. A manifest names objects that the store has
  to hold, and all of them are put before it; a put finds an object that is there, or writes
  it, and a fault may strike any object between two puts. The inductive invariant says of
  the round in progress that what its manifest names and the store does not hold is still to
  be put or was damaged since; `InOrderIsWhole` says that the order of the puts misses no node
  and no module, whatever the graph.
* `RepairsKeepToRegion`: `OnlyTransports => (Spec => [][...StaysInRegion]_vars)`: when a repair
  is accepted, the graph it leaves agrees with the graph offered on every node outside the
  region, the names of the functions included. It goes through the operations of a candidate
  one by one (`RepairedNode`): each touches the region or a node that was not there. The
  hypothesis is that the graphs at hand are ones the transport format can express.
  The other conjuncts of `RepairStays`, that a repaired graph lowers to a valid program, stay
  with TLC, since lowering is a recursion over the graph.

Only model-checked:

* `Execution` and lowering in the HFIR modules, `AgreesWithInterpreter`, `WasmAgrees`,
  `NoOperandIsMissing`, `IncrementalIsClean` and the rest: they compare with recursive
  definitions, beyond the prover. So are `OperandsNest` (true of compiled code only, and the
  compilers are recursive), and `AgentsKeepToCopies`: what a value reaches is recursive.
  `ValuesStayApart` says the same without recursion, of the dictionaries a value is made of.
* All liveness (`EveryOperationEnds`, `OthersAreAnswered`, `EveryRequestEnds`,
  `CallsReturn`, `SupervisorEnds`, `Terminates`, `RunIsSealed`), since the prover handles
  neither fairness nor ENABLED.

## 11. What is not modelled

* **Lexer, parser, desugaring**: functions from text or trees to trees without state or
  order. `Execution` starts after desugaring (`when` is the `if` it
  becomes). Hand-assembled code stays within what `ValidateProgram` accepts except for
  the operands it finds on the stack.
* **Shapes of forms** (`checker.go`, the construct tables): arity and syntax; the programs
  of the instances are well formed. Of the types, structs, namespaces, floats, JSON and the
  forms of hosts, files and processes.
* **JSON, floats, bytes, Unicode, masking, routing patterns**: conversions of data; the
  repository compares its back ends on them with differential tests.
* **Go, JavaScript, wasm_app and wasmgc back ends**: generators whose output runs on
  other machines. Of `--compile-wasm`, floats and division, and the second reading of the
  text it generates (`validate.go`).
* **HFIR localization**: one pass that ranks nodes from sealed evidence.
* **Exec containment on other systems**: one call of `exec.Cmd`.
* **Tools, benchmarks, applications, CLI flags**: around the components above.

Within the modelled components: traces, log wording, the JSON form of receipts and
evidence, the text of agent prompts, `lazy_synthesize`, what two bodies read from one Go
map at once (undefined in Go), and bytes of memory.

## 12. Plan

Done, in this order: native store, HTTP server, exec containment, compiler and VM with
data and ledger, authority and evidence, HFIR, type checker, SSA and WebAssembly, and eight
proof modules: the store's invariants and its refinement, the server, exec containment, grants
and redirects, the files of governed runs, their receipt and evidence, the activations, values
and map ledger of the VM, and the manifests and repairs of HFIR.

What would come next: a compiler written as a recursive function, for `OperandsNest`; in
`HfirSessionProofs` that a fragment found in the cache is the one lowering would give, as far
as that needs no induction over the graph.
