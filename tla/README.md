# A TLA+ verification development for MIND

MIND is a compiler (`mindc`, in Rust), a C runtime that the compiled programs
link (`runtime-support/`), and a standard library written in MIND (`std/`). This
directory holds TLA+ models of the parts of it whose correctness depends on
interleaving, failure, long histories or the interplay of several passes, the TLC
configurations that check them on small instances, and proofs, checked by TLAPS,
that nearly all of their safety properties hold for every instance. Paths below are
relative to the repository and carry the prefix `src/`.

## 1. The system

### 1.1 Parts, state, operations

| Part | State it keeps | Operations | Model |
|---|---|---|---|
| Thread pool of the multithreaded kernels (`src/runtime-support/mind_intrinsics.c:1962-2132`, partition emitted by `src/src/mlir/lowering.rs`) | worker handles, round number, bands of the round, finished count, stop flag, two mutexes and two condition variables | `__mind_blas_mt_dispatch`, `mind_mt_worker_loop`, pool init, pool shutdown | `MtPool`, `ParallelFor` |
| Build transaction and object cache (`src/src/build/`, `src/src/project/build_lock.rs`) | the lock file, `Mind.toml`, `target/`, `.cache/objects` with sidecars and `manifest.json`, the artifact | `mindc build`, `mindc clean` | `BuildTx` |
| Generation-checked references (`mind_intrinsics.c:1755-1960`) | slot table, capacity, length | `__mind_gen_alloc`, `_deref`, `_free` | `GenRef`, `HandleMap` |
| Regions (`mind_intrinsics.c:1684-1753` and the calls the lowering emits) | a stack of frames, each a list of addresses | `__mind_region_enter`, `_track`, `_exit` | `Regions` |
| Interpreter (`src/src/eval/mod.rs`) | bindings of names | evaluation of a module | `MindEval` |
| Lowering to IR (`src/src/eval/lower.rs`) | names to SSA ids, instruction streams | `lower_to_ir` | `MindLower` |
| IR, verifier, canonicaliser, optimiser (`src/src/ir/`, `src/src/opt/`) | a module of nested streams | `verify_module`, `canonicalize_module`, `optimize_mic3` | `MindIr` |
| MLIR emitter (`src/src/mlir/lowering.rs`) | emitted text | `emit_instr`, `substitute_ids` | `MindEmit` |
| Pipeline (`prepare_ir_for_backend`, `src/src/ir/mod.rs:1494`) | the module between the passes | verify, canonicalise, optimise, verify, emit | `Compiler` |
| External tool runner (`run_command`, `src/src/eval/mlir_build.rs:887`) | a child process, three pipes, two drain threads, a deadline | run with timeout | `RunCommand` |
| Test runner (`src/src/test/runner.rs`) | work queue, result slots | run, join, report | `TestRunner` |
| Dependencies and lockfile (`src/src/deps/`) | `Mind.lock`, git cache | lock, fetch, clean, verification | `Deps`; `mindc clean` of `target/` in `BuildTx` |
| Byte ring (`src/std/ring.mind`) | head, tail, storage | new, push, pop, read, write, clear, free | `ByteRing`, `ByteFifo` |
| Reactor and canonical completions (`src/std/reactor.mind`, `io_canon.mind`) | table of connections with request counters, a batch of completions | accept, next request, close; push, drain, anchor, clear | `Reactor`, `ConnTable` |
| Async senders (`src/std/async.mind`) | sender records, arrays of stages, replay log | submit, then, run | `Senders` |
| Arena (`src/std/arena.mind`) | offset, high-water mark | new, alloc, reset, free | `Arena` |
| Vector and map (`src/std/vec.mind`, `map.mind`) | arrays on the heap, length, capacity | push, set, get, free, insert | `Containers` |
| Project driver (`src/src/project/`) | manifest, source set, stdlib bundle | load, resolve, compile, link | its order of inputs in `BuildTx` |
| Parser, type checker, autodiff, shapes, binary formats | terms being transformed | one pass each | not modelled |
| Formatter, linter, docs, packages, workspaces, FFI, linear algebra, cryptography and protocols, io_uring, in-memory cache, distributed plans, the self-hosted compiler | - | - | not modelled |

`PROJECT.json` lists the same parts with the reason for every one left out.

### 1.2 How they interact

- A multithreaded kernel is a function the lowering emits. Each call reads the
  number of online CPUs, splits its rows, packs one argument struct per band on
  its own stack, and calls the dispatcher of the runtime. The workers write into
  the caller's structs and output. Several threads of a program may do this at
  once, and the destructor of the library tears the pool down.
- A region block compiles to calls of the runtime around its body. The runtime
  knows nothing about scopes: only the calls keep its stack in step with them.
- Handles of generation-checked references are plain integers in the program,
  which may keep, copy, or invent them.
- Build processes share a project directory with each other, with the user's
  editor, and with `mindc clean`. They coordinate only through an advisory file
  lock, and communicate through `Mind.toml`, which a build rewrites for its own
  duration, and the cache.
- A program reaches the backend as a chain of terms: the AST is lowered to a
  module whose `if` and `while` instructions hold their own streams, two passes
  rewrite it between two verifications, and the emitter turns it into text in
  which a loop's values are renamed by substitution. The passes share no data but
  the module, so each relies on conventions the one before must keep: which id a
  name has, which ids a loop carries, what a region exposes.
- The backend calls external tools through `run_command`, which talks to the
  child through pipes of bounded size while two threads drain its output.
- `mindc lock`, `fetch` and `clean --cache` of all projects of a user share one
  directory of git trees, without any lock.
- The libraries of `std/` are called by one thread. They share the heap: a block
  that one of them gives back may be the next one another gets.

### 1.3 What is hard, and what makes each part correct

- *Pool*: lost or early wake-ups, a worker of one round running into the next,
  band arguments that outlive the call that owns them, a thread that was never
  created, and a CPU count that is read twice. It is correct if every row of
  every call is computed exactly once before the call returns, and calls and
  teardown end.
- *Build*: any two processes interleave at every file-system effect; any call
  may fail; a process may be killed between (or during) two writes; sources
  change during a build. It is correct if a build that reports success delivers
  the program of its captured sources, the user's `Mind.toml` comes back, and
  every build ends.
- *Generation-checked references*: slots, addresses and handles are reused over
  long histories, up to the last generation. They are correct if a handle leads
  to its own allocation or to nothing.
- *Regions*: every way of leaving a scope must leave the frame stack right. They
  are correct if exactly what a region owns is freed when it is left.
- *Compiler*: what is right depends on how passes combine: names that share an
  id, shadowing, values merged at the end of branches and carried around loops,
  passes that do not look into regions. It is correct if a program that is
  accepted prints what the interpreter prints, and no program is refused for a
  fault of the compiler.
- *Tool runner*: both sides wait for pipes, and the child may hang, die early or
  leave descendants. It is correct if a call ends and success means complete
  output.
- *Test runner*: workers finish in any order. It is correct if the report does
  not show it.
- *Dependencies*: processes copy, replace and remove the same directories, and a
  process may be killed in the middle. They are correct if a directory that
  counts as cached is whole, and `Mind.lock` verifies after it was made.
- *Ring, reactor, senders, arena, containers*: sequences of legal calls at
  boundaries: full, empty, wrapped around, moved, reset, reused. Each is correct
  if it behaves as the abstract object it stands for.

`PROJECT.json` lists the hazards one by one, at the line where each bites.

## 2. Modules

| Module | Contents |
|---|---|
| `ParallelFor` | abstract: what a dispatch promises a kernel |
| `MtPool` | callers, workers, destructor, mutexes and condition variables |
| `MtPoolProofs` | inductive invariant of `MtPool`, refinement of `ParallelFor`, progress of calls |
| `HandleMap` | abstract: what a handle promises |
| `GenRef` | the slot table |
| `GenRefProofs` | inductive invariant of `GenRef`, refinement of `HandleMap`, stale handles |
| `BuildTx` | build processes, cache, clean, editor, kills and faults |
| `BuildTxProofs` | inductive invariant of `BuildTx`, honesty of the cache, progress of builds |
| `Regions` | frame stack and lexical scopes |
| `RegionsProofs` | inductive invariant of `Regions` |
| `MindInt` | integers of a width, and the operators on them |
| `MindEval` | the interpreter; programs as terms |
| `MindCanon` | instructions, canonicaliser, what a plain instruction does |
| `CompilerProofs` | what canonicalisation preserves |
| `MindIr` | verifier, optimiser |
| `MindLower` | lowering of programs to the IR |
| `MindEmit` | emission, and what emitted code does |
| `Compiler` | the pipeline, stage by stage, and its properties |
| `RunCommand`, `TestRunner`, `Deps` | tool runner, test runner, dependency commands |
| `ToolsProofs` | invariants and progress of `RunCommand` and `TestRunner`, inductive invariant of `Deps` |
| `ByteFifo`, `ConnTable` | abstract: a bounded queue, a map of counters |
| `ByteRing`, `Reactor`, `Senders`, `Arena`, `Containers` | the libraries |
| `StdProofs` | invariants of `Arena`, `Containers` and `Senders`, refinement of `ByteFifo` |
| `ReactorProofs` | invariants of `Reactor`, refinement of `ConnTable` |
| `MCMtPool`, `MCBuildTx`, `MCGenRef`, `MCRegions`, `MCCompiler`, `MCTools`, `MCStd` | instances for TLC |

`MtPool` instantiates `ParallelFor`, `GenRef` instantiates `HandleMap`,
`ByteRing` `ByteFifo` and `Reactor` `ConnTable`, each under a refinement mapping.
`BuildTx` composes the lock, manifest edit, snapshot, cache and clean of the
build in one state, because they share every file; `Compiler` composes the
passes, because each depends on what the others leave. `MCTools` and `MCStd`
put modules that share nothing side by side: one of them moves, the others rest,
so each is explored as if it were alone.

Definitions whose comment begins with "Mutant" are altered forms of the
definition after them. Putting one in that definition's place must break a named
property (the pairs are in `PROJECT.json`), which shows that the property
depends on that piece of code. They take no part in the specifications.

### 2.1 MtPool

One step is everything a thread does between getting and giving up
`mind_mt.mtx`, because the round state is touched only under it. A band runs
outside the mutex, so taking, running and reporting it are three steps.

| Action | Code |
|---|---|
| `Call` | kernel entry: `T = max(1, min(ncpu, min(M, MAX_THREADS)))` |
| `PoolInit` | `pthread_once` of `mind_mt_pool_init`; any `pthread_create` may fail unnoticed |
| `Truncate` | `n_bands` capped at `pool_n` |
| `LockDispatch`, `Publish`, `Rewait`, `Return` | the dispatcher: outer mutex, new round and broadcast, the waiting loop, both unlocks |
| `Park`, `Take`, `Skip`, `Exit`, `Run`, `Report` | the worker loop |
| `SpuriousWorker`, `SpuriousCaller` | a `pthread_cond_wait` that returns unasked |
| `ShutdownNoPool`, `ShutdownBegin`, `ShutdownJoined` | the destructor; joining a handle that was never set is undefined, so it may crash |
| `Hotplug` | the environment changes the CPU count |

The round number is a natural number here and a `long` in the code: it would take 2^63
rounds to overflow. The destructor runs only when no kernel call is in flight, which is
what unloading a library requires of its user. The Windows build runs the bands
in a loop, and is `ParallelFor` itself with one caller at a time.

### 2.2 BuildTx

One step per effect on the file system that another process can see. An artifact
is represented by the inputs it was compiled from, so "the right program" is
equality: this takes the compiler to be a function of the captured sources, and
SHA-256 to be injective. `atomic_write` is one step (a rename); `fs::write` of
`Mind.toml` is not atomic: it truncates first, so a kill during it leaves `Torn`, and
a write that fails leaves the file as it was or `Torn`.

`Probe`, `Lock`, `Open` are the opening of the transaction (root discovery
without a lock, `ProjectBuildLock::acquire`, `open_explicit`); `Capture` reads
one source file; `CacheHit`/`CacheMiss` are the probe and restore;
`EditManifest`, `Compile`, `Unedit`, `Drop`, `Move` the compilation under a
temporary manifest; `ReadBack`, `PutObject`, `PutMeta` the publication. Each
fallible step has its failing twin (`...Fails`). `ManifestEdit` has three attempts in a
row: a failing write of the temporary manifest (`EditFails`) goes on to the restore, a
failing restore (`UneditFails`) to the retry in `Drop`, and when that fails too
(`DropFails`) its error is ignored and what is there stays. `Crash`, `EditSource`,
`UserEdit`, `Rot` and `Clean` are what others do meanwhile.

### 2.3 GenRef and HandleMap

The table is a function from indices to slots; `genref_pack` and its inverses
are the real arithmetic with base `GenBase` (2^32 in the code). `malloc` is
external and returns any address not in use, freed ones included. `Deref`,
`Free`, `FreeWraps`, `FreeIgnored` take any number as a handle. `abort()` ends
the process, so the memory it leaves behind is not modelled.

### 2.4 Regions

A program is the stack of lexical scopes it is in: functions, regions, and inner
blocks. `EnterRegion`, `Alloc`, `ExitRegion` act on the runtime's frames exactly
as the emitted calls do; `Break` and `Return` leave scopes without a call, as the
lowering does. The history variable `strayed` records whether the program has done
either of the two things the RFC and the lowering disagree about: leave a region
by a branch, or allocate in a block inside one. A failing `malloc` of
a frame's list and `realloc` of a tracked address are left out.

### 2.5 The compiler

The language is what makes values flow through control flow: integers, `let`,
assignment, `if`, `while` and bare expressions, at the top level of a module. A
program is a term, an expression or statement a record with its kind.

`MindEval` gives a program its meaning as the interpreter does, including scopes
that restore shadowed names and arithmetic that wraps around at `MaxInt`
(`MindInt`, shared with the compiled program). A loop of more than `MaxIters` iterations counts as diverging on both sides.

`MindLower` follows `lower_to_ir`: an environment from names to ids, streams
for the regions of `if` and `while`, merges of the two branches, the list of
values a loop carries, and the copies made at the entry of a loop when two names
share an id (`AliasBreak`). The field `copies` of a module records which
instructions are such copies; nothing in the code reads it, only the exceptions
in the properties do. `MindCanon` holds the instructions and the canonicaliser
(dead code, operand order, constants, ids), whose passes are recursive functions
over the positions of a stream, so that they can be proved about; `MindIr` holds the
verifier with its scopes and exposed ids and the passes of level `basic` (`if` of a constant, multiplication by zero, identities, common
subexpressions), in the code's order. `MindEmit` emits blocks and block arguments;
`SubstituteIds` is the textual replacement the emitter does on the body of a
loop, and the meaning of emitted operations is external. An emitted value that no
executed path set is `Undef`.

`Compiler` makes each stage an action: `Lower`, `Verify` (twice),
`Canonicalise`, `Optimise`, `EmitMlir`, `RunProgram`.

### 2.6 RunCommand and TestRunner

Bytes are counted, not represented. The caller's actions are `Spawn`,
`WriteStdin`, `CloseStdin`, `SeeExit`, `PollFails`, `TimeOut` and `Collect`, in the
order of `run_command`; `Drain` is one of the two threads. The child first chooses
what it does next, and then does it when the pipes let it, so that a hung child and
one that waits for a pipe are told apart. `TimeOut` may happen at any poll: the
model has no clock.

A worker of `TestRunner` takes a test, stores its result and ends when it finds
the queue empty. The tests that pass are fixed at the start. `run_one_test` catches
panics, so a worker never dies with a test in hand.

### 2.7 Deps

One step per effect on the cache or on `Mind.lock` that another process can see. A
tree is the set of its files; what they hold follows from dependency and revision.
`fs::write` of `Mind.lock` is two steps with `Torn` between. `BeginGit` is the
clone, which gives the revision or fails; `Stage` is the test for the directory in
`resolve_git_dep`, and `Replace`, `RemoveFile`, `RemoveDir`, `Create`, `CopyFile`,
`Staged` are what `fetch_git_dep_into`, `copy_dir_all` and `clean --cache` do. `Kill`
may hit any process at any step, `Commit` and `Edit` are others' doing.
`Verdict` is `resolve_and_verify_deps`. The history `broken` records that a copy or
a removal was interrupted, or that `fetch` or `clean` removed a directory while
another command ran. A plain `fetch` can: it looks for the directory before its
clone and removes whatever is there after it (`src/src/deps/mod.rs:670-673`), which
may be one that another command began to stage meanwhile.

### 2.8 The libraries

`ByteRing` keeps the positions unbounded, as the code does up to 2^63 bytes, and
reduces them at each access. `ByteFifo` is a sequence with a capacity.

`Reactor` joins the connection table and the completion batch by what lies between:
a caller submits an operation under the number it got, and hardware completes
operations in any order. Table and batch are arrays as in the code, with the swap
on close and the selection sort on drain. The history `reopened` records a close
with operations pending.

`Senders` keeps arrays apart from the sender records that point to them, so that
two senders can share one. `lineage` records what each sender stands for: the
stages it was made with, and its line, the senders it was chained from.

Loops over data (`ring_write`, `ring_read`, `canon_sort`, the log of `run`) are
local recursive functions, one value per iteration, which can be proved about.

`Arena` works with offsets. `Containers` has a heap of blocks with addresses;
`Realloc` stays in place or moves to any free address, the old one becoming free at
once. A vector or map is used linearly: a value that an append superseded is not
read again.

## 3. Runs

Passing runs:

| Run | Question and answer |
|---|---|
| `mtpool` | Two callers share a pool of up to three workers, 2 or 3 CPUs changing at any time, one thread possibly missing. No band outlives its call (`NoBandOutlivesCall`), each band handed over runs once (`DispatchedBandsRunOnce`), each row of a call that was not truncated is computed by one band (`UntruncatedRowsOnce`), the pool implements `ParallelFor`, calls return (`CallReturns`) and the destructor finishes (`UnloadCompletes`) unless a worker is missing. |
| `build_project` | Three builds of one multi-file project with any two of: an edit of a source, a saved `Mind.toml`, a failing call, a kill, a damaged object, `mindc clean`. Success means the right and current artifact (`ArtifactFresh`), and the user's `Mind.toml` comes back (`ManifestRestored`). |
| `build_scratch` | Named files in a directory without `Mind.toml`, failing calls and a kill, five events in all, up to four of them failing calls: each compiles alone (`StandaloneScope`); while nobody is killed and at most two calls have failed, none is refused because of another build's temporary manifest (`StandaloneOpens`); with at most one, none leaves one behind (`ManifestRestored`); and every build that is not killed ends (`BuildEnds`). |
| `genref` | Every history of up to three slots with three generations, every handle from 0 to 16. |
| `regions` | All programs with up to six nested scopes: nothing is freed early (`OpenRegionsLive`) or twice and the stack stays in bounds (`NoMemoryError`). As long as a program has left its regions at their end and allocated directly in them, all is freed (`RegionFreesAll`), and the frames are the open regions (`FramesMatchRegions`). |
| `compiler` | A family of programs around a loop, at both levels: the program prints what the interpreter prints (`CompiledAgrees`), what lowering produces is accepted (`LoweringVerifies`), nothing undefined is read (`NoUndefRead`), and canonicalisation is idempotent (`CanonicalFixpoint`). |
| `std_library` | Ring, reactor, arena, senders and containers, each with every sequence of calls within the bounds: `ImplementsFifo`, `ImplementsTable`, `DrainCanonical`, `KeysUnique`, `BlocksApart`, `PipelinesKept`, `TraceExact`, `BlocksOwned`, `ContainersExact`. |
| `tools` | `run_command` returns all output when it succeeds (`OutputComplete`) and ends but for two named cases (`CallEnds`). The test runner reports each test once, in order, with its own verdict (`ReportExact`), and ends (`RunEnds`). Dependency commands of two processes leave no partial tree unless one was interrupted or removed something beside another (`CacheWhole`), `fetch --update` repairs whatever is broken (`UpdateRepairs`), and after `mindc lock` the dependencies verify (`LockVerifies`). |

Runs that end in a violation, each of a sentence the repository states:

| Run | Stated | What happens |
|---|---|---|
| `mtpool_truncates` | `mind_intrinsics.c:2074-2075`: the cap "never truncates a band in practice" | The count is read by the call and again when its pool is made. A first call sees three CPUs and packs two rows in two bands; the count falls to one before the same call makes the pool, which gets one worker; the second band is cut off and its row is never written. (Bands of later calls are cut off likewise when the pool was made while few CPUs were on line.) |
| `build_shared_out` | `src/src/build/source_key.rs:10-11`: a key is a claim about what a fresh compile would produce | Two projects with the same `--out` hold different locks; one reads back the other's artifact and caches it under its own key. |
| `compiler_alias` | `src/src/eval/lower.rs:8452-8456`: "When the source is unread the alias is harmless" | Two names that share an id and are both assigned in a loop are carried with one init id; the emitter renames it to the first one's block argument, and an edge of a merge forwards the wrong value. |
| `compiler_stale` | `src/src/ir/mod.rs:655-657`: a merge takes "the value of that variable at the EXIT of the respective branch" | A bare expression at the end of a branch pushes nothing, so the merges of an earlier nested `if` are applied once more and a later assignment is lost. |

### 3.1 What the exceptions stand for

Some properties except a case in which the code does not do what one would wish,
or what a comment says. They are, in one place:

- `CallReturns`, `UnloadCompletes`: the result of `pthread_create` is ignored
  (`mind_intrinsics.c:2062`); a call with a band for a missing worker waits for
  ever.
- `RegionFreesAll`: RFC 0010 (`src/docs/rfcs/0010-memory-safety-and-c-abi.md:118-119`)
  has allocations freed on exit "normally, via early return, or via panic".
  `return`, `break` and `continue` branch past `__mind_region_exit`, and an
  allocation in a loop or branch inside a region is not tracked. TLC finds
  both as violations of `NothingLeaked`.
- `ManifestRestored`: the original manifest is in memory only, so a kill leaves
  the temporary one; and a second failing call, of the retry or of the restore after a
  failing write, leaves the temporary or a torn one.
- `StandaloneOpens`: with a kill, or three failing calls (a write, the restore and the
  retry), a torn `Mind.toml` stays, and the next build of a named file is refused. TLC
  finds this when the bound in the property is raised to three.
- `CompiledAgrees`, at level `basic`: `fold_algebraic_identities` removes the copy
  `x + 0` that keeps two names apart in a loop, and the program is compiled wrongly
  without an error, against `src/src/opt/native_opt.rs:320-321` ("never a wrong
  fold") and `342`. Without the exception TLC finds `let j = x` before a loop over
  `j = p + 1; x = 0 - x * 1`: the second iteration reads `j` for `x`.
- `LoweringVerifies`: `prune_dead` (`src/src/opt/ir_canonical.rs:194-232`) does not
  look into regions, and deletes such a copy when only the loop's body reads it; the
  second verification then refuses a valid program.
- `KeysUnique`: a connection closed with operations pending and accepted again
  counts from 0, so `(conn_id, req_id)` repeats. This is against
  `src/std/reactor.mind:110-112`.
- `CallEnds`: the timeout of `run_command` starts when the input has been written,
  and the joins have none. A child that exits before it has read its input makes
  the call return an I/O error at once, without its error output.
- `PipelinesKept`: a `then` writes into the array of the sender it extends while
  there is room. A later `then` on the same sender, or on another that shares its
  array, may take the place of a stage, although "The Sender is treated as a value
  (immutable)" (`src/std/async.mind:224-225`). Senders whose line has lost a stage
  in this way are excepted, and no others.
- `CacheWhole`, `LockVerifies`: a copy that failed or was killed leaves a directory
  that `lock` and `fetch` take for cached, and so may a removal beside another
  command, by `clean --cache`, `fetch --update` or a plain `fetch`. The message for a
  drifted tree recommends just these two (`src/src/deps/mod.rs:529`); only `fetch
  --update` or `clean --cache` helps.

Two more that concern no property: `resolve_and_verify_deps` is documented as
called by `mindc build` (`src/src/deps/mod.rs:161-162`), but only tests call it;
and a `Vec` or `Map` value superseded by a push may name a freed block, although
push is documented as non-mutating (`src/std/vec.mind:56`).

### 3.2 Bounds

Two callers and three workers are enough for every pair of roles that meet in a
round, and two callers' calls follow each other in both orders, so a late worker
can meet a round that is not its own. CPU counts 2 and 3 give pools of both
sizes and T below, equal to and above the size; up to three rows give M below,
equal to, and not a multiple of T. One missing worker shows what two would.

Three builds are needed for the worst cases of the build: one publishes, a second
is killed or fails half way, and a third relies on what is left. Two files make
a stale sibling possible and an edit makes it stale; two events are a failure or
edit and one more that hits while it lasts. The four failing calls in `build_scratch`
cover a failing write, restore and retry, which leave a torn `Mind.toml`, with one more
to hit what follows, or two builds whose restore and retry both fail; the fifth event is
a kill.

In `genref` an initial capacity of one makes the table double twice, three
generations reach the wrap, and three addresses make `malloc` reuse some. In
`Regions` three frames reach the overflow with six scopes, and four addresses
fill several frames at once. Symmetry is used over interchangeable builds and
over addresses, and only in runs without temporal properties.

The programs of `MCCompiler` set four variables, two of which may start as aliases,
and run a loop of two iterations whose body has one or two statements: assignments,
a shadowing `let`, an `if` with any two of five branches (empty, assigning,
assigning before and after a shadowing `let`, assigning under it, with a loop), or a
nested loop. They were chosen so that each mechanism of the lowering (freezing,
merging, carrying, alias break, rebinding after a region, back-edge operands) meets
every other. Three bits make arithmetic wrap, and six iterations exceed any that
ends. Bare expressions at the end of a branch are switched on in `compiler_stale`
only, whose finding they are.

In `MCStd` one operation code and one `req_id` per connection leave `conn_id` and
`result` to order a batch by; that all four fields count is proved
(`DrainIsCanonical`). A ring of up to three bytes with six bytes passed through
wraps twice; two connections are needed for the swap on close; three events in a
batch sort non-trivially and two results make keys collide; arenas of 7, 16 and 25
bytes fit requests before rounding and not after; bulk calls of up to three bytes
fill and empty the largest ring in one call. With `MinCap` 3 (4 in the code) six
senders are just enough for two lines that share an array to overwrite each other at
different depths, which five senders with arrays of two did not show; four events
make the log grow. `FirstCap` 1 makes vector and map grow twice within three
entries, and four blocks leave one free to move to when all three arrays exist. In
`MCTools` input and output exceed the pipes by one byte; four tests on three threads
make one worker take two; and two processes with three commands over one git and one
path dependency, two files and two revisions let a third command meet what two left.

### 3.3 Fairness

`MtPool!Fairness`: each caller inside the dispatcher, each worker, and the join
of the destructor keep taking steps, that is, threads are scheduled and mutexes
granted. Weak fairness is enough: a caller waiting for the dispatch lock stays
able to take it only while it is free, but each caller makes finitely many calls,
so it is free for good in the end; the bound on calls stands for the code's
callers not starving each other for ever, which a POSIX mutex alone does not
promise. No fairness is given to calls, unloading, hotplug or spurious wake-ups.

`BuildTx!FairSpec`: a running process keeps running. The environment is not
fair. Each build takes the lock at most once and gives it up when it ends or is
killed, so no waiting build is passed over for ever. Compilation is taken to end.

`CommandFairness`: the caller and the drain threads are scheduled, time passes, and
a child that has not decided to hang goes on when its pipes let it. A descendant
left behind owes nothing. `RunnerFairness`: every worker and the coordinator are
scheduled. The libraries and the dependency commands have no liveness to state: a
call is a step, and a process may always be killed.

## 4. Proofs

The theorems hold for every value of the constants that satisfies the named
assumptions. These ask no more than that bounds, sizes and counts are natural
numbers (at least one where the code has at least one), that ids, codes and results
are integers, and that special values differ from ordinary ones. The bounds on
calls, events and lengths that TLC needs are constants like any others, so what is
proved holds however large they are.

Every safety invariant and every refinement that a passing run checks is the
conclusion of a theorem, except those of the compiler. In each module the argument
is the same: an inductive invariant, one lemma per action that it is kept, and the
properties as consequences. For each component with a liveness property, the two facts
it rests on are proved as well: that no reachable state is stuck, and that what goes
on uses up something finite. The invariants are given here with the reason why the
properties are not inductive alone.

**MtPool** (`MtPoolProofs`). `TypeCorrect`, `BandsStayInsideCalls`, `BandsRunOnce`,
`RowsOnce` and `Refinement` follow from `Invariance`:

- `LockInv`: a caller past `LockDispatch` owns the dispatch lock, so there is at
  most one round;
- `SizeInv`: a caller past `Truncate` has at least one band and no more than the
  pool has workers;
- `RoundInv`: during a round `active` and the slots are the caller's;
- `SeenInv`: no worker has seen a round that was not published, and one that
  works has seen the current one;
- `CountInv`: `finished` counts exactly the workers of the round that have seen
  it and are no longer in flight; this is the heart of the argument, and uses
  cardinalities of finite sets. It makes "all bands in" mean that no worker is
  in flight;
- `RanInv`: during a round a band has run once if its worker has reported or is
  about to, and not at all otherwise;
- `QuietInv`, `TeardownInv`: outside a round no worker is in flight and none has
  anything to take, and during teardown no caller is inside.

`RowsOnce` adds the arithmetic of the ceiling partition for every row count and
thread count: multiples of the band size are at least a band apart, so every row
lies between exactly two neighbouring ones, and the last band reaches the last row.
The refinement maps a caller's position to `idle`, `called` or `busy`: `Call`,
`Truncate`, `Run` and `Return` are steps of `ParallelFor`, all others stutter.
It covers missing workers and spurious wake-ups, which can delay a return but not
make it early.

`NoLostWakeUp` adds `WakeInv` to the invariant: a worker is parked only if it has seen
the last generation, a caller waits only while a band is missing, workers that were
created go round until the teardown, and while the destructor joins each of them has
left or has not yet seen the last generation. From it follow `CallsGoOn` (while a call
is under way, a caller or a worker with a band can take a step, unless a worker the
pool counts was never started) and `JoinsGoOn` (so can each worker the destructor
waits for).
`RoundsAdvance`: within a round the bands taken, run and reported only grow, and each
step on a band adds one.

**GenRef** (`GenRefProofs`). `TypeCorrect`, `HeapIsExact` and `Refinement` follow
from `Invariance` of `IInv`: the type, `HeapExact`, `UnusedSlots` (slots beyond the
length are as created, so appending one gives generation 1) and the length bound.
The refinement needs the arithmetic of handles: packing and unpacking are inverse
(`PackUnpack`, `UnpackPack`), so packed handles are distinct (`PackInjective`)
and `Matches` accepts exactly the live handles (`MatchesIffLive`). A slot has
been through all generations below its own, which is what makes a handle packed
now one that was never given out before. `StaleForEver` is what a program builds on,
derived through the refinement: a handle that is no longer live never is again, and
a live one keeps its address.

**BuildTx** (`BuildTxProofs`), for any builds, projects, files and numbers of
edits, faults, kills and damaged objects. `MutualExclusion`, `RestoresManifest`,
`CapturesAlone` and `OpensStandalone` follow from `IInv`:

- `Resolved`, `Locked`: a build in its transaction has an entry and holds the lock
  of its project; a killed one holds none;
- `Restorable`: `Mind.toml` is one the user wrote, or a build that edited it holds
  one to put back, whatever a failing write made of the file. A second attempt means
  that a write has failed before, which is why one failure is harmless;
- `Unspoilt`: in a directory without a `Mind.toml` of the user's no manifest
  declares sources, in place or kept for putting back. Without it a build could not
  rely on what it probed;
- `Costly`: what it takes, without a kill, to leave a manifest in such a directory or
  to have one kept for putting back: two failing calls for a temporary one, three for
  a torn one. While an edit is pending the file may be torn for less, but the build
  that edited it holds the lock. So `OpensStandalone` says: without a kill, and with at
  most two failing calls over any number of builds, no named file is refused. With three
  the code does leave a torn file, and the statement would be false;
- `Alone`, `Recent`: what a build captured, and that it is no older than its lock.

`DeliversFresh` (`ArtifactFresh`) and `CacheStaysHonest` need, besides,
`Published` (a sidecar's object is the one its key names) and `Own` (what a build
has in hand at each step is the program of its own inputs). They are proved under
`OutsSeparate`: builds of different projects write to different paths. The
hypothesis is needed: `build_shared_out` shows the cache dishonest without it.

`LockNeverOrphaned` is the converse of `Locked`: a lock that is held is held by a
build that runs, inside its transaction. With it each build can go on or waits for one
that can (`BuildsGoOn`), and `BuildsGoForward` orders the steps of a build by stage: its
only loop captures files, and reads a new one each time.

**Deps** (`ToolsProofs`), for any dependencies, files and processes. `CacheIsWhole`,
`UpdateRestores` and `LockedVerifies` follow from `IInv`:

- `Typed`: the types, and `Orderly`, which ties what a process has in hand to its
  step and command;
- `Worked`: unless `broken`, a directory with a part of a tree is one some process
  copies or removes, and one that removes is the only one running;
- `Alone`: a command that counts as having run alone did;
- `Repairing`, `Locking`, `Locked`: what `fetch --update` or `lock` alone has been
  through is whole, or pinned.

The attempt to prove `CacheWhole` as it was stated before failed in the step of a
plain `fetch` that removes what another command began to stage (section 2.7). TLC
had not reached that within its bounds; the exception now names it.

**Regions** (`RegionsProofs`), for any heap, stack depth and nesting. `MemorySafe`,
`OpenStaysLive`, `ExitFreesAll` and `FramesAreRegions` follow from `IInv`:

- `Rooted`: the outermost scope is a function and inner blocks own nothing;
- `Held`: what scopes own and frames hold is allocated, and nothing is held twice;
- `Nested`: there are at least as many frames as open regions, and what a region
  owns lies below the frames of the regions inside it, counted from the top. This is
  what makes early exits safe: a frame left behind is freed by an enclosing region,
  never before it;
- `Exact`: without strays, the frames are the open regions with what they own.

**RunCommand and TestRunner** (`ToolsProofs`). `CommandReturnsAll` needs
`Conserved` (each byte written is in its pipe or its buffer), `AtEnd` (a drain
thread ends only when its pipe is empty and nobody can write to it any more),
`Started` and `Succeeds` (success means both threads ended). `RunnerReportsAll`
needs `InOnePlace` and `InSomePlace` (a test is in the queue, in a worker's hands or
among the results, never in two of them), `OwnVerdict` and `Through` (all workers
have ended only when the queue is empty); then the results are a permutation of the
tests, and ordering them gives one per ordinal.

`CommandNeverStuck` names a step that can be taken in every reachable state before the
call returns, but for the two cases `CallEnds` excepts: a tool that hangs while its
input is written, and a descendant that keeps a pipe open during the join. It needs
`Running`, which ties the caller's step to the pipes that are open. `CommandUsesSteps`
gives the variant: input not yet sent or read, output not yet written or drained, and
what is left of the caller's and the tool's lives, with weights. `RunnerNeverWaits` and `RunnerUsesSteps` are
the same for the test runner. With no test at all there is nothing to wait for and the
report is empty, which `RunnerNeverStuck` excepts.

**Canonicaliser** (`CompilerProofs`), for streams of any length and any `MaxInt`.
The library has no usable induction over data, so `Recursion` and `Upward` derive from
the well-foundedness of the naturals that a function defined step by step exists and
that what each step keeps holds at the end; each pass is then described by the table of
its steps (`UsedIs`, `KeptIs`, `RetainedIs`, `KnownIs`).

- `CanonicaliseIdempotent`: a canonicalised module is `Canonical`, whatever its
  regions hold, if its ids are below `next`, as the verifier asks. Pruning loses no
  mark (`MarksRemain`), so pruning again drops nothing; what is known in a pruned
  stream is a part of what was known before (`LearntLess`, `LearntOther`), so nothing
  new folds (`FoldPruned`); folding makes no operation to reorder (`CommutedIs`); and
  the new `next` still bounds every id that is left (`NextIs`).
- `CanonicalisePrintsTheSame`: for streams of constants, operations and outputs that
  the verifier accepts. What is pruned is read by nothing that is kept (`UsedClosed`,
  which needs definitions before uses), so the machines agree on the ids that are
  kept (`StepAgrees`, `StepSkips`); what folding knows the machine holds
  (`FoldStep`, which needs single definitions); a folded result is the wrapped one
  because it is an integer of the width (`ApplyIs`). The result is verified again.
  With regions the second part is false: `LoweringVerifies` excepts the copies that
  only a loop's body reads, and pruning drops.

**Arena, Containers, ByteRing, Senders** (`StdProofs`).

- `ArenaBlocksApart`: the offset is a multiple of 8 and blocks given out end at or
  below it.
- `ContainersOwnBlocks`, `ContainersHoldAll`: arrays are backed by blocks of their
  capacity, are apart, and are all there is on the heap; each holds what was stored
  up to its length. A move copies before the old block can be reused.
- `RingIsFifo`: the ring implements `ByteFifo`, bulk calls included. Its core is
  that positions less than a capacity apart have different slots, for every
  capacity (`SlotsApart`). A bulk call is a recursive function over single ones: the
  lemma `Recursion` shows once that such a function exists and `Induction` that its
  values stay in the sets its steps lead to; `FilledIs` and `EmptiedIs` are their
  uses here.
- `PipelinesKeepStages`, `TraceIsExact`: a sender has no array or one of its
  capacity (`Hosted`); it is of its own line, with senders made before it (`Lines`);
  of two senders that share an array, each stage the longer one reads beyond the
  other's was written by one of its own line (`Lineal`), so a `then` that writes
  over it overwrites that one; and where nothing of a line is lost the stages are in
  place (`Kept`). `IsLog` says the same of the log. The property as it was stated before, with an exception only for a second
  `then` of the same sender, was not inductive, and was false with one sender and one
  place in an array more than TLC had tried; statement and bounds were corrected.

**Reactor** (`ReactorProofs`). `KeysAreUnique` needs `Distinct`, `Fitting`, and
three facts that hold while no connection was closed with operations pending:
`Numbered` (what is pending was numbered below its connection's counter), `KeyOnce`
and `Single`. `ReactorIsTable` maps the array of slots to the map of its counters;
the swap on close is where it could go wrong. `DrainIsCanonical` needs `BatchInv`:
the places of the batch that count hold each event as often as it was pushed, and
what was drained is the batch in order. It rests on the correctness of the
selection sort for every batch: `MinIs` for the inner loop, `SortIs` for the outer,
with `LessTransitive` for the order of the four fields and a bijection of places for
each swap.

**Only model-checked.**

- Liveness (`CallReturns`, `UnloadCompletes`, `BuildEnds`, `CallEnds`, `RunEnds`):
  fairness and `ENABLED` are out of the provers' reach. What is proved for every
  instance is that something can go on and that it cannot go on for ever; the guards
  in those theorems repeat the guards of the actions. That a step whose guard stays
  true is taken is what fairness adds, and TLC checks it on the instances of the runs.
- `CompiledAgrees`, `LoweringVerifies`, `NoUndefRead`: lowering, verifier, optimiser and
  emission are recursive operators over programs, and the statements need induction
  over them, which the installed provers cannot do.
- `CanonicalFixpoint` as an invariant of `Compiler`, which uses those operators;
  `CanonicaliseIdempotent` is the fact behind it, for every module.
- The properties of the violation runs, which do not hold.

## 5. Not modelled

Of the compiler: functions, `if` as a value, `break`, `continue`, `return`, `match`,
narrow integers, floats, tensors, aggregates and strings. They multiply the
instructions without adding to how names, ids and regions interact, except for
the early exits, which `Regions` treats for the frame stack. The parser and the type
checker transform unbounded terms without shared state, and autodiff and shapes are
numeric; the repository's byte-identity gates and tests are the better tool, as for
the binary formats and the self-hosted compiler, which is compared with the first
one byte for byte.

Of the build: a torn `Mind.toml` is taken not to parse; an empty one does not, but a
longer prefix might. Compiler, flags, target and dependencies, which the key holds too,
are constant in the model. Of `run_command`: the drain threads discard an error of
`read_to_end` (`src/src/eval/mlir_build.rs:923`, `930`), so a failing read would lose
output silently; the model's pipes do not fail. A descendant that inherited the child's
input would keep `write_all` (938) waiting after the child's death, where the model's
write fails at once.

Of the libraries: the weak C versions of the containers, used where `std` is not
linked in (`src/runtime-support/mind_intrinsics.c:474-495`, `604-632`) never give an
old array back; `Containers` is about `std/vec.mind` and `std/map.mind`. `trace_hash` and `canon_anchor` are functions of what is modelled;
strings grow like vectors. The queues of `iouring.mind` are shared with the kernel,
whose side is not in the repository. Cryptography, TLS and HTTP are arithmetic and
wire formats checked by known answers.

Of the tools: assembling of command lines, discovery of tests, parsing of git URLs,
hashing, `clean --all`. The in-memory compile cache is a map behind one mutex that
the driver does not use. Formatters, linters, documentation and packaging read and
write text. The distributed directory computes plans at compile time and runs no
distributed protocol.

## 6. Plan

1. More of `Containers`: strings and string keys, which grow as vectors do.
2. The partition arithmetic of the distributed plans, as operators like the bands of
   `MtPool`.
3. Early exits (`break`, `continue`, `return`) in the compiler modules.
