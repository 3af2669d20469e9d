# vue-tsgo in TLA+

Models, model checks and proofs for [vue-tsgo](../src/README.md): a Vue type
checker that puts a Vue front end in front of typescript-go. The repository's
own code is small (about 10,000 lines of Go, JavaScript and TypeScript around a
vendored compiler). This directory holds one module per component, `MC*`
modules and `.cfg` files with small instances for TLC, and eight proof modules
for TLAPS. `PROJECT.json` maps every definition to the lines it models, lists the
runs, a mutant for every property, the hazards and the findings.

## 1. The system

```
 vue-go-tsc (launcher) --spawns--> tsgo --CompilerHost--> GetSourceFile(.vue)
                                     |                        |
                                     |            plugin? ----+---- built in
                                     |              |                 |
                                     |   pluginhost <=> node / Go     SFC parser
                                     |      (pipes)    plugin         codegen
                                     |              |                 |
                                     |              +--> service text + mappings
                                     |                            |
                                     +-- checker, binder --> diagnostics --wrap--> report
                                     +-- language server <--> editor (VS Code extension)
```

| Component | State | Operations | Hard part |
|---|---|---|---|
| Plugin protocol (`internal/pluginhost`, `packages/plugin`, `plugin`) | request counter, callbacks by id, one send buffer under a mutex; in the plugin the receive buffer, queue, workers, busy flags | `NewPlugin`, `CreateServiceCode`, reader goroutine; stdin handlers, worker messages; the Go plugin's loop and workers | concurrent callers, two byte streams with back pressure, crash of either side |
| Source map (`internal/mapping/mapping.go`) | mappings, two lazily built memos | range and location queries in both directions | unsynchronised memo, binary search at its edges, results in map order |
| Diagnostics (`golar.go`, `directive_mapping.go`, patched call sites) | positions of diagnostics the compiler caches, `unusedCollected` | `WrapDiagnostics`, `WrapSemanticDiagnostics` from five call sites | moved in place, called a different number of times by each front end |
| Launcher (`cli/bin/vue-go-tsc`) | registry directory, budget, child process | register, count, prune, spawn, forward, exit | unlocked shared directory, kills, reused process ids |
| Installer (`cli/install.js`) | binary, cache, temporary files | restore from the cache, download, share | kills between any two calls, concurrent installs |
| SFC tokenizer and parser (`internal/vue/parser`) | state, section start, element stack | one step per character; callbacks | long state machine, end of input in any state |
| Code generation (`internal/vue/codegen`) | output, conditions of v-if chains, scopes, flags of silencing comments | one visit per node, nested as the template is | state shared by all depths of the walk |
| Host and overlay (`golar.go`, `overlayfs.go`) | virtual files | `GetSourceFile`, `ReadFile`, ... | which of several files wins |
| Plugin source map import (`sourceMapToMapping`) | current segment, mappings so far | one step per segment | unsigned arithmetic, cutting to equal text, merging |
| Volar, Vue, Svelte plugins (`packages/*`) | service code cache on disk | `createServiceCode`, read, write and rename of an entry | cache shared by processes and releases, UTF-16 to UTF-8 |
| VS Code extension (`editors/vscode`) | language clients, executable, registered command, context key | activate, restart, dispose | awaits that overlap, restart with another executable |

They interact through calls (`GetSourceFile` to parser, generator or plugin),
through messages (host and plugin, editor and language server), through shared
state (diagnostic pointers shared by compiler caches and callbacks; the source
map shared by goroutines; the registry and the cache directory shared by
processes) and through callbacks stored in a source file.

What makes each right, in one line: a caller gets its own file's code, whatever
the interleaving (plugin); a lookup finds exactly the mappings that cover the
offset (source map); every error is shown once, at its place in the `.vue` file,
unless a directive silences it (diagnostics); runs share the machine and exit
codes tell the truth (launcher); a binary is never truncated (installer);
sections of the input are handed over once and in order (tokenizer); names,
guards, blocks and silenced ranges are those of the template (code generation);
every mapping of an imported map relates equal text (import); an answer from the
cache is what would be generated now (Volar plugin); one server per window
(extension).

The hazards, each at its line and with the properties that would catch it, are
in `PROJECT.json`.

## 2. Plan

| Step | Modules | Composition and abstraction | State |
|---|---|---|---|
| 1 | `PluginPipes`, `PluginHost`, `PluginNode`, `PluginNodeSystem` | host and node plugin composed over two pipes; implements `PluginRpc` | done |
| 2 | `GoPlugin`, `GoPluginSystem` | the same host with a Go plugin; implements `PluginRpc` | done |
| 3 | `PluginProofs` | types, answers, frames for every instance | done |
| 4 | `Mappings`, `SourceMap` | operators as the reference, the lookup as a state machine | done |
| 5 | `Diagnostics` | uses `Mappings` | done |
| 6 | `Budget`, `Launcher`, `Installer` | runs on one machine, installs on one cache | done |
| 7 | `Tokenizer`, `SfcParser` | parser driven by the tokenizer's callbacks, one character a step | done |
| 8 | `SegmentImport`, `ImportedMap` | the import as a state machine, composed with `SourceMap`: an imported map is then asked | done |
| 9 | `VolarMappings`, `ServiceCode` | the conversion as operators, used by the workers on one cache | done |
| 10 | `TemplateWalk` | the walk against the meaning of the finished template | done |
| 11 | `EditorClient` | restarts whose awaits overlap | done |
| 12 | `SourceMapProofs` | bounds, exactness and text of lookups, for every list of mappings and every sequence of segments | done |
| 13 | `TemplateWalkProofs`, `CliProofs` for the installer | cuts of the conditions; no truncated binary, success, temporary files | done |
| 14 | `CliProofs` for the launcher, `ServiceCodeProofs`, `EditorClientProofs`, and `PluginProofs` for the Go plugin | exit codes and registry; the shared cache; servers of one window; whole responses | done |
| 15 | `DiagnosticsProofs`, more of `SourceMapProofs` and `EditorClientProofs` | silenced, placed, lost and unused diagnostics; exactness of the import; the setting that is followed | done |
| 16 | more of `PluginProofs` | messages in flight as a set without copies; both systems implement the safety part of `PluginRpc` | done |
| 17 | more of `TemplateWalkProofs`, `ServiceCodeProofs` and `CliProofs` | names, blocks, guards and silenced ranges of any template; bytes and ignored ranges of any texts; the machine shared by any number of runs | done |
| 18 | `TokenizerProofs` | the scope of `v-pre`, and where the parser panics, in any text | done |
| open | the mapping emitter; more of `TokenizerProofs` | mappings in step with the text of one element; the tree as nested ranges, raw text to its end | |

Recursion is written with functions or folds in every module that a proof
module extends.

## 3. Modules and the code they stand for

**Plugin protocol.** `PluginPipes` has the two pipes and the messages. A frame
is two units, header and payload, because the code writes and reads them with
two calls; a pipe holds `PipeCap` units, and a write that does not fit waits. A
unit arrives with its last byte: a part of a unit has no effect on the reader
in the code either (`io.ReadFull`, the length test of the `data` handler).
`PluginHost` is `pluginhost.go`: `pc` is where each goroutine in
`CreateServiceCode` is, `readerPc` where the reader goroutine is. `PluginNode`
is `packages/plugin/src/index.ts`: the stdin handler runs as one step (Node runs
it to its end), the workers run concurrently, and what they write passes through
the main thread (`Forward`, `MainWrite`). `GoPlugin` is `plugin/plugin.go`: the
read loop, the bounded task channel, the workers and `writeMu`. `Next` of the
system modules lets any of them step. `PluginRpc` is what the file loader is
promised, and both systems implement it under the mapping in `ImplementsRpc`
(`ImplementsRpcSafely` is its part without fairness, which the proofs are about).

**Source map.** `Mappings` defines what an answer should be, straight from the
meaning of a mapping. `SourceMap` is how the code finds it: memo, binary search,
buckets. `pc[t]` is where a goroutine's lookup is; `GetMemo` reads the pointer and
`CreateMemo` builds and stores, two steps, as nothing orders two goroutines there.
The set of results stands for a list in the order of a Go map's iteration.
`SegmentImport` is `sourceMapToMapping`: each `DecodeSegment` takes one more
segment, any segment, as the map comes from a plugin; line and column are one
offset. A text is a sequence of bytes, so that `Same` can compare. A segment that
lies before the one it ends makes Go slice with a wrapped length: `panicked`.
`ImportedMap` composes the two as `parseFile` does: the plugin's mappings as they
are, or those imported, then the questions.

**Diagnostics.** One `.vue` file, the diagnostics of the phases, and `loc`, the
range in each diagnostic that `adjustDiagnostic` overwrites. One action per phase,
in the order of the front end that `mode` (one of `Modes`) says:
`EmitFilesAndReportErrors` for tsc, the cached second wrap of the incremental
program, the three calls of a pull. A mapping is as in `Mappings`; where several
ranges are possible the code takes the first of an unordered list, so the model
takes any. `EditOtherFile` makes new checker diagnostics and keeps the parsed file
with its binder and parse diagnostics and its callbacks; `EditThisFile` parses
anew.

**Launcher.** `Budget` has the arithmetic in MiB. `Launcher` has one action per
file system call on the registry, as the runs share it without a lock; creation
and writing of the entry are two. `phase` is the launcher, `tsgo` its child.

**Installer.** One action per file system call. A file is absent, a part, whole,
or whole but not running ("bad": the leftover of an older version). `copyAtomic`
and `download` write to the temporary file of the process id and rename.

**Tokenizer and parser.** `SfcParser` is what the callbacks of `parser.go` do to
the tree, `Tokenizer` the loop and the state handlers of `tokenizer.go`. A step
reads one character: `Reads(state, Handler)` is the handler of a state, a function
from the world (`tok` and `par`) and the character to the world after it, with the
callbacks it makes inside. The long names of tags and directives are cut to three
letters or one, so that `script` is `scr`, `template` is `tem` and `v-pre` is `v-p`;
`W` and `~` are the two bytes of one character; `CDATA[` is `CA[`. A slice with its
ends out of bounds, a failed assertion and a nil pointer end the parse with
`panic` set. `open`, the end of the start tag, is kept for every element, where the
code sets `InnerLoc` for blocks only, so that nesting can be stated.
`delimiterIndex` is left out: between two characters it is 1 in the states that
read it.

**Template walk.** `TemplateWalk` is `visit` of `template.go`. The recursion over
the children is a stack of calls, `open`: `OpenElement` is what happens in front of
the children, `CloseElement` what happens behind them, and a step visits any node
of the catalogue, so that all templates of at most `MaxNodes` nodes are walked. The
service text is a sequence of tokens: the blocks, the names with whether they are
bare, the variables that are declared, the guards of a handler, and `own` for the
rest of an element's code. Every expression is written by `MapExpression`, as the
code writes all of them with `mapInNonBindingPosition`: conditions, a loop's source,
bound values, handlers, interpolations. It reads a name, a function in it declares a
variable, and it reads one more name; the variable goes into the innermost scope of
the template (`Declare`) and stays there, so each step that writes an expression
also changes `scopes` (`ScopesAfter`). What a component binds is written twice, for
its constructor and for its call. Names that a function binds itself are in the
locals of its syntax tree and bare in any case; they are not modelled. The condition
texts are the nodes they come from. What the properties compare with (`InForce`,
`ScopesAround`, `Blocks`, `Heirs`) is read off the nodes alone.

**Volar plugin.** `VolarMappings` is `generate` of `packages/volar`: a text is the
sequence of its UTF-16 units, each as the bytes it takes; half a pair is three
(`UnitBytes`). language-core's mappings each hold a list of ranges, so a range is
a pair of indices. Bytes are sums over the units of a slice (`SumTo`), ranges are
merged in sorted order (`InOrder`, `Merging`). `ServiceCode` is the cache
around it. A worker's step is one synchronous call of the file system, since other
processes run between two; `Generated` keeps everything code may depend on, so
that a stale answer differs from a fresh one. `Identity` is what
`JSON.stringify` keeps of the options.

**Extension.** `EditorClient` has one action per stretch between two awaits:
`Restart` up to `getExe`'s, `GotExe` up to that of the client's start, `Started` or
`NotStarted` behind it. `servers` holds every language client ever made, the last
one being `this.client`. `call[c].got` is the setting as `getExe` read it.
`overlapped` is a history variable, for `SettingFollowed` alone.

## 4. Runs

| Run | Instance | Shows |
|---|---|---|
| `node_plugin` | 2 callers, 2 files, 2 units per pipe, 1, 3 or 4 cores | `AnswersOwnFile`, `FramesIntact`, `EveryResponseIsExpected` (no panic on an unknown id), `OneTaskPerWorker`; `NewPluginReturns`, `NoOrphanPlugin`; `ImplementsRpc` |
| `go_plugin` | 2 callers, 2 workers, a channel of one task | `ResponsesIntact` under `writeMu`; `ImplementsRpc`: every call is answered although reader and workers block |
| `source_map` | eleven maps, or every import of up to three segments of two texts; then two goroutines, any query on offsets 0, 1, 3 | `ImportExact`; `LocationsExact`, `RangesExact` against the reference under the memo race; `LocationsComeBack`, `LookupSameText` |
| `diagnostics` | three front ends, three compiled files, two diagnostics, up to 3 pulls between edits | `SilencedStaysSilent`, `NothingLost`, `RightPlaceWrappedOnce`, `UnusedExactWrappedOnce` |
| `launcher` | 3 runs, the third with the first's process id, every fault, one tick that makes entries stale | `ExitTellsTsgo`, `RegistryTidy`, `MachineShared` |
| `installer` | 3 installs in 2 packages with one cache, two that may be killed or cut off | `NeverTruncated`, `OkMeansUsable`, `NoTempLeft`, `UndisturbedSucceeds` |
| `tokenizer` | files of up to four pieces in eleven frames | `TreeNested`, `RawWhole`, `VPreScoped`, `KnownPanics` |
| `template` | all templates of up to five nodes of one of five catalogues | `SavedFits`, `GuardsUnlessNested`, `BareIffBound`, `BlocksMatch`, `MarksWhatFollows` |
| `service_code` | two workers, two releases, three sets of options, two files, two contents; and some fifty lists of mappings for one worker | `AnswerIsGenerated`, `CacheNeverFails`; `OffsetsInBytes`, `IgnoredOrMapped` |
| `editor` | activation, three restarts, a setting that is changed and changed back | `OneServerUnlessMoved`, `SettingFollowed` |

A module's types are not checked by a run of their own: where there are proofs they
are part of the invariants, and elsewhere a variable of the wrong type makes one
of the properties fail.

Runs that refute a statement of the repository (the quotes are in
`PROJECT.json`):

| Run | What happens |
|---|---|
| `incremental_errors` | cached diagnostics, moved when they were made, are moved again when they are taken from the cache |
| `template_guards` | a v-if chain inside a branch overwrites the one saved length, so that the outer chain's conditions are not dropped behind it: `<p v-if="a"><b v-if="c"/></p><p v-else/><q @click="x(); y()"/>` guards the click with `!a` |

### What the passing properties leave out

Some properties hold only on a condition, and the condition is what the code does
otherwise:

- `RightPlaceWrappedOnce` speaks of diagnostics that one phase alone has moved
  (`WrappedOnce`). Two more phases move them a second time: `GetBindDiagnostics`,
  called by tsc for its timing, moves the binder's before the semantic pass does;
  and each pull of the language server moves what the checker and the binder keep.
- `UnusedExactWrappedOnce` is, for the same reason, about tsc without binder errors
  and about the first pull.
- The unused directive's error is collected in the first pull only: `unusedCollected`
  is set once per parsed file (`golar.go:361-369`), although its comment speaks of
  the two calls of one pull.
- `MachineShared` speaks of runs that all know of each other. Three runs started
  one after the other, each counting those before it, take 1/2 + 3/8 + 1/4 of the
  memory: the count is taken once, at the start.
- A launcher's entry is created empty and written afterwards (`vue-go-tsc:255`). A
  run that reads it in between takes it for a stale one, does not count it and
  unlinks it, although `vue-go-tsc:249` says that two runs starting at the same
  moment see each other. `RegistryTidy` allows it.
- The installer's process ids differ. In containers that share the cache they need
  not, and then two installs write one temporary file.
- `KnownPanics` lists where the parser panics: a comment of one or two dashes
  (`<!-->`), the end of the file in `AfterClosingTagName` or `InSelfClosingTag` (a
  slice from -1 at `tokenizer.go:1202`, though the comment above it says that an
  unfinished tag is ignored), a nameless directive (`v-:x`), and a root script whose
  start tag is cut short by `</` and which then gets a child other than text.
- `TreeNested` reads a comment's place off its content, four behind and three
  before its range: the range of a comment that the file's end breaks off ends
  beyond the file. A start tag that `</` cuts short has an inner range that begins
  behind the `<` (`CutShort`).
- `VPreScoped` speaks of a parse that goes on. A panic leaves both flags wherever it
  strikes: in `<scr v-p=''</a>` with text and a comment in it the block panics at its
  end tag, before `v-pre` is left for good.
- `RawWhole` is about blocks other than `template`; in a `template` of another
  language the text may be cut in several. A root block whose name has a capital
  never meets its end tag, and one whose name has a `<` (`<a<b>`) may overlook it:
  behind half an end tag only the first character starts another match
  (`tokenizer.go:465`). In one whose name has a character of several bytes
  (`WideName`) the end of the text is the index, in bytes, less the length of the
  awaited end tag, in characters (`tokenizer.go:427`): of `<café>x</café>` the text is
  `x<`, the tag read behind it `afé`, and the block stays open and takes in the blocks
  that follow, although the code "skips over the `</`" there. `TreeNested` makes an
  exception for that text too.
- `ImportExact` demands order and disjointness only of segments that are in the
  order of the generated text. Any order is imported without a wrong pair, unless
  Go panics at a segment that lies before its predecessor.
- `GuardsUnlessNested` leaves out handlers behind a branch that had a chain inside
  (`NestedChainBefore`): `template_guards`.
- `BareIffBound` says which names are bare, not that this is what one would wish. A
  name is bare if a scope around it holds it, and a scope holds what its `v-for`,
  `v-slot` or `$event` binds and the variables of functions in any expression of
  which it was the innermost scope, from there to its end
  (`template.go:1231`, `1123`): in `<li v-for="x in xs">{{ x.map(a => { const y = a;
  return y }) }}{{ y }}</li>` the last `y` is bare. The source of a loop stands in the
  loop's own scope, so that of `v-for="x in x.y"` is bare. A function's parameters are
  locals and are declared nowhere. The only exception is everything behind a `v-slot`
  that belongs to no component (`StraySlot`), which leaves a scope it did not enter.
- `BlocksMatch` leaves out the same slot, whose brace closes nothing, and an
  interpolation between a branch and its `v-else` (`TextBetweenBranches`), which is
  written between the brace and the `else`.
- `MarksWhatFollows` lets a comment mark its follower and, inside it, the first
  child, and so on: the flags are cleared only when the child is done, so an
  `@vue-expect-error` on an element expects one error more in its first child. The
  range a component ignores by itself (`template.go:572`) is no comment's.
- `AnswerIsGenerated` says that code is fresh if all who share the cache and an
  identity have the same release and options (`SharesIdentity`). The comments promise
  more: the key "must identify everything the codegen output depends on besides the
  file" (`volar/src/index.ts:38`) and is made of "everything the generated code depends
  on besides the .vue file itself" (`vue/src/index.ts:99`). It holds language-core's
  version and the options as JSON, but not this package's own release, and nothing
  JSON drops, such as functions.
- `OffsetsInBytes` and `IgnoredOrMapped` are for mappings that split no surrogate
  pair (`WholeCharacters`). `IgnoredOrMapped` further wants equal lengths
  (`SameLengths`): the generated length is sent as `serviceLengths`
  (`volar/src/index.ts:171`), which the protocol does not read.
- `CacheNeverFails` says that a worker goes on, not that the directory stays small:
  nobody removes the temporary file of a worker killed before its rename. Nor does it
  say that code is generated: where `generate` throws (`volar/src/index.ts:210`) the
  worker gives no answer, which in `ServiceCode` is a `Kill` before its next step.
- `OneServerUnlessMoved` allows two servers of different executables: `restart`
  does not stop the one before. A start after the first throws when it registers
  its command again, so its disposable is lost.
- `SettingFollowed` leaves out restarts that look up different executables at the
  same time: the answers may come in the other order.

### Bounds, and why they are enough

- Plugin: two callers fill the worker and the queue of a pool of one; pipes of two
  units, one frame, make every second write wait. Requests are numbered in order,
  so a caller asks once; a second request by the same goroutine is a new caller.
  Core count 3 is the odd one that makes the pool size a fraction. The theorems
  need none of these bounds.
- Source map: the eleven maps have mappings that nest, touch, overlap, coincide,
  cross, are empty or far apart; more mappings repeat these. Offset 3 lies at or
  beyond the end of most.
- Diagnostics: two diagnostics interact through a directive; each of the three
  files has one feature (order swapped, an expression generated twice, masks).
  `MaxPulls` bounds the pulls between edits; the second already differs.
- Launcher: with three runs one can be dead, one starting and one counting.
  `MaxTime` and `StaleAge` of one tick make an entry stale or not. The theorems are
  for any number of runs.
- Installer: two installs in one package (a retry) and one beside them share the
  cache; every kind of fault can hit each but the second.
- Tokenizer: a piece is a character or the few that only matter together. Up to
  four in a frame reach every state, every callback, each known panic, sequences
  matched by half, and characters of two bytes next to each of them. The frames
  stand for the contexts: between blocks, in a template, in raw text, in a start
  tag, in an attribute, in a declaration, in a block's name.
- Import: with `MaxSegments = 3` a mapping can follow another, be joined to it or
  lie before it. The generated text repeats the source's bytes around a byte of its
  own, so pieces agree as a whole, in part or not at all. The theorems need no bound.
- Template: `MaxNodes = 5` holds a chain with a nested one and a handler behind
  both, three branches and what follows them, a loop in a slot in a loop. The
  catalogues separate features that do not touch the same variables; `Braces`,
  `Scoping` and `Functions` mix those that do. `Functions` has an expression that
  declares a variable in each part of an element and in an interpolation, some read
  before and behind, with scopes to be innermost and without. The theorems are for
  templates of any size and catalogues with any expressions.
- Volar: two workers are a writer and a reader; the environments differ in release,
  in options JSON tells apart, in options it does not, and in having a cache. The
  texts have a character of each length and a pair, the pairs of ranges nest, touch,
  overlap, coincide, are empty or end inside the pair. The theorems are for any
  texts and mappings.
- Extension: three restarts overlap in every way with the activation; `<<1, 2, 1>>`
  is a setting that comes back to what it was.

### Fairness

Weak fairness only, and only of what the code or the system runs on by itself: a
goroutine or worker that can step does (Go's and Node's schedulers), `MainStep`
(Node's event loop), an installer's own next step. A codegen worker's own next step is fair too
(`ServiceCode`), its being killed is not. No fairness for callers asking,
for kills, faults or process exits. `UndisturbedSucceeds` is for installs outside
`Mortal`, whose network works. The other modules are checked for safety only and
state none.

### Deadlock

`CHECK_DEADLOCK FALSE` where the program ends: all callers answered, the report
made, the runs, installs and the text at their end. In the source map run an
import may end in a panic. That nobody waits for ever where somebody should go on
is what `ImplementsRpc`, `NewPluginReturns`, `NoOrphanPlugin`,
`UndisturbedSucceeds` and `CacheNeverFails` say.

## 5. Proofs

### Plugin protocol

`PluginProofs` proves about `PluginNodeSystem`, for any sets of callers and
files, any pipe capacity, any core counts:

- `TypeCorrect`: `Spec => []TypeOK`;
- `AnswersAreOwn`: `Spec => []AnswersOwnFile`, no caller gets another file's code;
- `FramesStayIntact`: `Spec => []FramesIntact`, the plugin's input is whole frames;
- `WorkersTakeTurns`: `Spec => []OneTaskPerWorker`;
- `ResponsesExpected`: `Spec => []EveryResponseIsExpected`, the reader goroutine
  never finds a response without its callback;
- `NodeImplementsRpc`: `Spec => ImplementsRpcSafely`, the refinement of `PluginRpc`
  without its fairness.

The first three rest on `Invariance`: `Spec => []IInv`. Neither property is inductive.
`AnswersOwnFile` looks at a caller after its answer; that the answer is right
depends on the response being the request of the owner of its id, wherever it has
been: in the send buffer, the pipe, the receive buffer, the queue, a worker, the
outbox, the other pipe. Hence `IdsOwned` (an id has one owner), `SendBufGuarded`
(who is in the critical section holds the mutex, and the buffer is its request),
`PluginHoldsAsked`, `WireFramed` and `OutFramed` (both streams alternate headers
and payloads of requests made). There is a lemma per action: `Invariance` puts
them together over the disjuncts of `Next`. `IInv` can be given to TLC as an
invariant of `MCPluginNode`, where it holds. `WorkersTakeTurns` needs `PoolInv` alone:
a worker is free, or busy with one task, or busy with its acknowledgement on the
way. The assumptions are those of the modules on their constants.

The last two need more: `LoadAndDelete` takes the callback away, so a second copy of
a response, anywhere, would make the reader panic. `NodeFlight` (theorem
`OneCopyInFlight`) says there is none. `CallsInv` ties callers to callbacks: stored
before anything is written, kept while there is no answer. `FlightInv` says of the
messages in flight (from `WritePayload` to `Dispatch`) that each has its callback
and that none belongs to a caller still to write. `OneCopy` says that the places a
message can be in (wire, queue, each worker with its outbox, output stream, receive
buffer) are disjoint and that none holds a message twice; a data event, which deals
the frames of a whole chunk to the idle workers and the queue, is the hard step
(`RankOfItsOwn`, `Dealing`, `StdinDataCopies`). For the refinement, `CallsInv` then
gives that an answer is the first (`Answer`) and that the program ends only between
calls (`End`): `HostServes` takes each step of the host to a step of `PluginRpc`,
and a step of the plugin is a stutter.

About `GoPluginSystem`, for any workers, tasks and pipes, it proves

- `GoResponsesIntact`: `GoSpec => []ResponsesIntact`;
- `GoAnswersAreOwn` and `GoResponsesExpected`, the same two properties of the answers;
- `GoImplementsRpc`: `GoSpec => ImplementsRpcSafely`.

`OutInv` adds to `ResponsesIntact` what a step
needs: no worker has a task before the initialization message is written
(`InitFirst`), who is about to write holds `writeMu` (`WriterAlone`), and a payload
is missing exactly when that worker is about to write it, its header being the last
unit (`FrameOpen`). Which units are headers is counted from the host's end, so that
each read shifts the count by one (`HeaderRead`, `InitLeft`). The other three rest on
`GoFlight` (theorem `GoOneCopyInFlight`): the host's invariants as above
(the lemmas `Host*` are shared by both systems), whole frames on stdin (`InFramed`,
counted from the plugin's end), and one copy of each message in the pipe, the read
buffer, the channel, a worker, the other pipe or the receive buffer (`GoOneCopy`).
It too holds in TLC on the instance of `MCGoPlugin`.

### Source map and import

`SourceMapProofs` proves about `ImportedMap`, for every list of mappings, any
texts, any number of segments, offsets and goroutines:

- `BisectionStaysInBounds`: the search reads the index only where it is;
- `LookupsAreExact`, `RangeLookupsAreExact`: answers are those of `Mappings`;
- `LookupsComeBack`: what a lookup leads to leads back;
- `LookupsKeepText`: in an imported map a byte leads to an equal byte;
- `ImportIsExact`: the imported mappings relate exactly the equal bytes that the
  segments relate, and are apart and as long as can be if the segments are in order.

The first four rest on the inductive invariant `LookupInv`. A result is right only
if the memo was: the invariant says that a memo, whoever built it, is that of the
mappings (sorted, each boundary with its bucket), which is why building it twice is
harmless; that the search has excluded everything outside `low..high`; and what
each `pc` has established. `LookupsKeepText` rests on `ImportedSame`: every mapping imported so far
relates equal bytes inside both texts, and one that is extended touches its
predecessor on both sides. `ImportIsExact` rests on `RelateInv`: the segment that
waits for its end is the last one decoded (`CurrentIsLast`), the mappings relate what
the segments before it do (`AllRelated`), and in order they are apart (`Apart`) and
end where the last segment begins (`EndBy`). A segment taken adds the bytes of one
piece (`PieceAdded`), as a mapping of its own or by lengthening the last one
(`LengthenedRelates`). Assumptions: `OffsetsAssumption`,
`MappingListsAssumption` (offsets and lengths are natural numbers),
`SegmentsAssumption` (texts are finite sequences, `None` is no segment).

### Diagnostics

`DiagnosticsProofs` proves, for any source maps, directives, props and diagnostics,
in all three modes:

- `SilencedIsSilent`: `Spec => []SilencedStaysSilent`;
- `WrappedOnceInPlace`: `Spec => []RightPlaceWrappedOnce`;
- `NothingIsLost`: `Spec => []NothingLost`;
- `UnusedIsExact`: `Spec => []UnusedExactWrappedOnce`.

The first rests on `SilenceInv`. Diagnostics are moved in place and the callbacks run
again over what was moved, so a silenced one must never have been moved
(`MovedWereKept`), golar's own never are (`OwnStay`), and whatever was handed out was
kept when it was wrapped (`OutWasKept`). The other three are about the first pass
over a parsed file and need `OnceInv` (theorem `FirstPassInvariance`): what each
phase finds when it begins (`PassOrder`), a diagnostic whose phase has not run is
where it was created (`Untouched`), one that has been wrapped once is in its place
(`Placed`), and what is to be reported and what counts as unused so far are right
(`Collected`, `UnusedRight`). What a second pass does to the
place of a diagnostic is shown by `MCIncrementalTwice`, where `RightPlace` is violated. Assumption: `DiagnosticsAssumption`.

### Template walk

`TemplateWalkProofs` proves, for any catalogues and templates of any size:

- `ChainCutsFit`: `Spec => []SavedFits`, no cut of the conditions is beyond their end;
- `NamesAreBareIfBound`: `Spec => []BareIffBound`;
- `BlocksAreMatched`: `Spec => []BlocksMatch`;
- `GuardsAreInForce`: `Spec => []GuardsUnlessNested`;
- `MarksAreOfWhatFollows`: `Spec => []MarksWhatFollows`.

The first rests on `ChainInv`, `SavedFits` with the types of what the walk keeps:
each cut (`Restored`) leaves at least what is saved, negating the last condition
leaves their number, and whoever saves a length saves the one there is.

The other four compare what was written during the walk with functions over the
finished template (`Above`, `Branch`, `InForce`, `Blocks`, `Heirs`), while the
invariants speak of the calls under way. What joins the two is `WalkTree`: the calls
under way are the elements above the next node, in order. Each function is first
shown to solve its equation (`AboveIs`, `BlocksAre`, `BranchIs`, `InForceIs`,
`HeirsIs`) and to keep its values when a node is added. The library's induction
theorems cannot be used here, so `LeastNat` takes a least counterexample among
numbers, and `Induction`, `Recursion` and `Agree` are derived from it for the few
shapes needed. On top of this,

- `BareInv`: the scopes of the elements under way (`Occupied`), in the order they were
  entered, are those the code holds, one for one (`Fits`): each holds what its element
  binds and what was declared while it was the innermost (`Put`). The scopes are told
  apart by the node and the part they belong to (`at`), so a declaration made
  in a scope that was left is never taken for one of a scope with the same names.
  What an element writes is followed expression by expression (`GoodExpression`,
  `GoodElement`), as each may change the innermost scope for the next;
- `BlocksInv`: the blocks open in the text can be dealt to the calls in the same way
  (`Stacked`), so that each brace a call writes closes its own; and while a chain goes
  on the text ends with the block of its last branch (`ChainClosed`);
- `GuardsInv`: the conditions kept are those in force at the next node, and those of
  the last branch while a chain goes on (`CondsSay`), and the one saved length is that
  outside of every chain under way (`SavedSay`) - unless a branch with another
  chain inside was left (`ClosedNested`), from where on nothing is claimed: that is
  `template_guards`;
- `PreInv` and `MarksInv`: behind a comment comes a sibling or none ever; a flag is
  set exactly while the next node is an heir of its comment (`FlagsInv`), a
  mark holds the code of heirs and plain text only, and every element that inherits is inside
  a mark.

Both ways of leaving a slot that belongs to no component (`Straying`) end what is
claimed of scopes and blocks, as in the properties. Assumptions:
`MaxNodesAssumption`, and `CataloguesAssumption` on what an element can hold.

### Installer

For any installs, packages, process ids and faults: `NoTruncatedBinary`
(`[]NeverTruncated`), `SuccessIsUsable` (`[]OkMeansUsable`) and the action property
`SuccessLeavesNoTemp` (`NoTempLeft`). They rest on `InstallInv`: an install that
copies or downloads has a temporary file that is nobody else's (`Alone`: `Start`
lets no two installs at work share a process id or a package directory), what it
renames is whole (`TempWhole`), what it has verified is usable as long as no other install ran in the package
(`BinKnown`), and behind the removal of stale files only its own can be left
(`NoStrangerLeft`, `NoTempOfOwn`).

### Launcher

For any runs, process ids, machine and faults: `ExitCodesTellTsgo`
(`[]ExitTellsTsgo`) and `RegistryStaysTidy` (`[]RegistryTidy`). The first rests on
`ChildInv`: before `spawn` there is no tsgo, and behind the exit handlers there is
one of its ends. The second rests on `RegistryInv`: every entry, and everything
listed, is of a run that has started (`EntriesMade`, `ScanSound`), so an entry that
comes back is of a second run with that process id (`EntryComes`); and what a run
has listed is counted, gone, about to be visited or being visited (`Accounted`).

`MachineIsShared`: `Spec => []MachineShared`. A run's settings are those of as many
runs as it has counted, itself included, and it never counts itself twice
(`ShareInv`). If all who run know of each other, each has counted at least as many
as there are (`AllCounted`), more runs never mean a larger share (`LessForMore`), and
a run takes at most the n-th part of processors and memory (`EnvBound`). The sum
over the runs, a fold over a set in any order, is then at most n such parts
(`SumExists`, `SumBound`, by a least counterexample in the size of the set).
Assumption: `LauncherAssumption`.

### Tokenizer

`VPreIsScoped`: `Spec => []VPreScoped`, for any frames of any pieces and any number
of them. It rests on `VPreInv`: as long as nothing has panicked, the states of the
tokenizer tell whether a start tag is being read (`Phased`), `openTag` is set exactly
then (`Tagged`, `Plain`), and `v-pre` is in force, for both, exactly while the element
that brought it is the one being read or among the open ones (`Scoped`). Most callbacks
touch nothing of that (`Like`); of those that do, and of every handler, a lemma says
what state it leads to (`Reads...`), handlers that call handlers from the inside out.
Closing several elements at once and ending the file are recursions over the stack,
taken one element at a time (`CloseTopsIs`, `OnendIs`), by a least counterexample.

`PanicsAreKnown`: `Spec => []KnownPanics`, for the same texts. Every slice that a
callback takes starts where its section starts, so `KnownInv` says, for each state,
where that may be and what stands there (`Fine`): a section's start is not behind
the index (`Section`); after `<!--` it is, and `CommentOk` counts the dashes by which
a comment can end before it has begun; in an argument it is not a lone bracket; a
property whose argument is read is a directive unless `v-pre` or a missing name made
it an attribute (`Property`). Of the tree it says that the open elements are nodes,
the outermost one a block, and that the element whose start tag is read is none of
them and has no child (`Tree`); that a script block is cut short (`CutScript`) or is
raw text with nothing in it yet, of whose end tag as much stands before the index as
`sequenceIndex` says (`RawScript`, `StandsBefore`): its end tag then closes it by
name (`NamesScript`) around one text at most (`ShutsScript`). A lemma for each state
(`Lands...`) takes the invariant over a character, at whose end it holds again or
one of the known panics has struck (`Reached`), and `EndsKnown` takes it to the end
of the file. Assumption of both: `FramesAssumption` (the second byte of a character
follows the first).

### Volar plugin

`AnswersAreGenerated`: `Spec => []AnswerIsGenerated`, for any workers, environments
and files and whatever `Identity` keeps of options. It rests on `CacheInv`: an entry
is torn or what some worker that has the cache generated for its key
(`EntryGenerated`), a worker writes only what it generated, and what it returns is
fresh or such an entry. A key is taken for the tuple it hashes: collisions of
SHA-256 are left out.

`OffsetsAreBytes` (`Spec => []OffsetsInBytes`) and `BytesAreIgnoredOrMapped`
(`Spec => []IgnoredOrMapped`) add what an answer says, for any two texts and any
mappings between them. By `CacheInv` its code is `Generate` of the contents. The
bytes up to each place of a text form a running count (`Counts`), of which every sum
over a slice is a difference (`SumIsRunning`, `SumOfTail`), provided that the slice
splits no pair (`SliceBytes`). So summing the slices between sorted offsets is
counting from the start (`Utf8Is`), which is the first theorem. For the second,
finite ranges can be sorted, each taken once (`RangesSort`, `InOrderIs`); absorbing
the next one keeps the merged ranges apart and adds just its bytes
(`Apart`, `AbsorbTakes`, `MergingIs`); and what lies between ranges that are apart is
what none of them covers (`GapsAreBetween`). Assumption: `SourcesAssumption` (the
ranges lie inside the texts, and the texts decode: halves of a pair come in pairs).

### Extension

`ServersMoved`: `Spec => []OneServerUnlessMoved`, for any number of restarts and any
settings. It rests on `ServersInv`: the client knows the executable of its current
server (`ExeKnown`), the activation looks one up before there is a server and a
restart after, and a server that a call waits for is starting and awaited by that
call alone (`StartAwaited`), so that no server but the current one is ever started
again. `SettingIsFollowed`: `Spec => []SettingFollowed` rests on `FollowInv`: unless
look-ups of different executables have overlapped, the call with the latest setting
agrees with every call that looks up now, and if none does with what the client
holds to be the executable. Assumption: `EditorAssumption`.

### What is only model-checked

Of the tokenizer `TreeNested` and `RawWhole`: a proof would need the ranges of all
nodes of the tree in the invariant, and that no end stood between a node's start and
the index; nothing proved here depends on it. All liveness
(`NewPluginReturns`, `NoOrphanPlugin`, `UndisturbedSucceeds`, `CacheNeverFails`) and
the fairness of `ImplementsRpc`: liveness under fairness and `ENABLED` are outside the
prover, so a run checks the whole refinement and the proof covers its steps.

## 6. What is not modelled

Components marked `not_modelled` in `PROJECT.json`, with the reason there. Nearly
all lines of the repository (some 260,000 of 271,000) are the vendored
typescript-go compiler under `thirdparty/`: another project's type checker, parser,
printer and language service, which this repository builds on through five call
sites and a compiler host. A model of it would be a model of TypeScript; it is
represented by what it does at those call sites, and nothing is claimed of it.

Of the modelled ones: the second pass under `noEmitOnError`, TypeScript's own
`@ts-ignore` handling, message chains and related information (they keep the
generated code's place); the launcher's argument parsing and the user's own
settings of `GOMAXPROCS` and `GOMEMLIMIT`; the release server, assumed to announce
the length of what it sends; in the parser, the contents of expressions
(`ParseTsAst`, `v-for` and its regular expressions), entities (unfinished in the
code), whitespace other than the blank, and the errors that `onerr` drops, among
them most of those at the end of the file, as Go's `switch` does not fall through
from one empty `case` to the next; in the code generator the text of a single
element (component calls, props, events' types, v-model, slot types) beyond one bound
value and one handler, what `<slot>` passes on (`template.go:719`), the expression of
`:is`, default values in what `v-for` and `v-slot` bind, `v-bind` in styles, names that
are never prefixed (globals, the result of `defineProps`), the script blocks and the
mapping emitter; in the Volar plugin how `packages/vue` finds
`@vue/language-core` and its options; in the extension middleware, output channels,
menus and the server's environment.
