# graydr in TLA+

graydr compiles *templates* (`.gtpl`) that instantiate *modules* (`.gmod`) into
infrastructure code.  A module has a `case` block whose arms hold code; code can
include *fragments* (`.gfrag`) and modules of a *registry*, an HTTP server with a
directory of files behind it.  This directory holds TLA+ models of that system,
the TLC runs that check them and proofs for TLAPS.

## 1. Inventory

| Component | State it keeps | Operations | What is hard |
|---|---|---|---|
| Registry server (`graydr-registry`) | per coordinate `module.gmod`, `meta.json`, and a `.tmp` of each | PUT module, PATCH lifecycle, GET content / meta / versions | handlers run concurrently, take no lock and share the `.tmp` files; check-then-write; crash between two renames; handlers dropped when a client leaves |
| Registry client (`graydr/src/registry`, `cli/publish.rs`) | the module cache, plain files shared by all processes of a machine | lifecycle check, fetch through the cache, publish | in-place writes of the cache; kill; timeouts while the server goes on; retirement against a cached copy |
| Fragment expansion (`graydr/src/fragment`) | call stack, output, source map | `expand_includes`, recursive | circles, repeated use, lookup order, offsets of nested map entries |
| Resolution (`graydr/src/resolver`) | the variable context | `build`, dispatch, validation | two passes over hash maps whose order differs per run |
| Dependency graph (`graydr/src/graph`) | nodes and edges | edges, order, circles, groups | dependencies against groups |
| Code generation (`graydr/src/codegen`) | none | validate, expand, render | which failures leave what behind |
| Compile command (`graydr/src/cli/compile.rs`) | the maps of one run, the output file | 17 steps and a hook | a failing step after others succeeded; truncated output |
| Properties merge (`resolver/merge.rs`) | none | merge, flatten, `-D` | null documents, key order |
| Hooks (`graydr/src/hooks`) | none | module resolver, registry backend, post-compile | order with respect to the output |
| Parser (`graydr/src/parser`, types in `ast`) | none | `parse_module_file`, `parse_template_file` | which of several blocks counts, what is an error and what is ignored |
| Linter (`graydr/src/lint`) | none | five checks over a module | what counts as a use |
| Formatter (`graydr/src/fmt`) | none | indentation, alignment, blank lines | one pass must reach the canonical form |
| File commands (`main.rs`, `cli/validate.rs`, `lint.rs`, `fmt.rs`, `init.rs`) | the list they work through, the files | validate, lint, fmt, init | one bad file among good ones; a write in two halves; an editor on the same files |
| Language server (`cli/lsp.rs`) | open documents, root | open, change, save, close, completion, definition, hover | concurrent handlers, diagnostics of old versions |
| Registry start-up (`main.rs`, `config.rs`) | none | read the configuration, serve | nothing |

Interaction: `run_compile` resolves modules through a hook, resolves variables,
orders resources and calls `assemble_output` per group, which calls
`expand_includes` per arm, which calls the registry client for coordinates;
the client talks HTTP to the server; `publish` and the operator's lifecycle
changes are the server's writers.  The compiler, the file commands and the
language server share the parsers; the file commands, the server and the editor
share the files.

What makes each correct: a published text never changes and never disappears, a
retired module is not used, the cache agrees with the registry, an expansion is
the text the include graph defines and ends, values follow the chain of sources,
dependencies come first, the output file is all or nothing, an exit code tells
the truth about every file, formatting keeps the meaning, and an editor shows
what its own text deserves.  The code does not keep all of this, nor all that
its documents say: section 3 has counterexamples, and section 5 lists the rest.

## 2. Modules

```
FilesystemStore, ModuleStore <-- StoreProperties <-- MCStore, StoreRaces
StoreProperties <-- FilesystemStoreProofs <-- StoreRefinementProofs
FilesystemStoreProofs, StoreRaces <-- StoreRacesProofs
StoreRaces <-- RegistryClient
StoreRacesProofs, RegistryClient <-- RegistryClientProofs
MCStore, StoreRaces <-- MCRaces
MCStore, RegistryClient <-- MCClient

FragmentExpansion <-- FragmentProperties <-- MCFragment, FragmentProofs

HclSyntax <-- ModuleParser <-- Linter
HclSyntax <-- TemplateParser, Scaffold
HclSyntax <-- ResolveContext <-- PropertiesMerge
Formatter <-- FormatterProofs
Linter, TemplateParser, Formatter <-- SourceFiles <-- LanguageServer
SourceFiles, Scaffold <-- FileCommands
LanguageServer, FileCommands <-- Workspace <-- WorkspaceProperties
WorkspaceProperties <-- MCWorkspace, WorkspaceProofs

ModuleParser, TemplateParser, PropertiesMerge, DependencyGraph <-- CompilePipeline
CompilePipeline <-- CompileProperties <-- MCCompile, CompileProofs
```

**`ModuleStore`** is what the `ModuleStore` trait and its comments promise:
a coordinate takes a text once, then becomes visible as `active`, then moves
to `deprecated` and `retired`.  It has no files and no requests.

**`FilesystemStore`** is the server.  A request occupies a slot; `pc[r]` is the
next filesystem operation of its handler, so that each `.await` is a point where
other requests run.  `fs::write` is two actions (open and truncate; write).  A
handle follows its file through a rename, so a slow writer may write into a file
another put has published: `fd[r]` says at which entry its file is linked, and
`MetaOver` and `ModuleOver` what two texts in one file become.  Several handlers
share actions: `OpenMetaTmp`, `WriteMetaTmp` and `RenameMeta` serve put and
patch.  The faults are a constant: `IoError` answers 500 and leaves the files
as they are, `Cancel` drops a handler that is not inside a blocking call,
`Crash` drops all.  The properties of `StoreProperties` come under `Spec` or
under `SerialSpec`, with one mutating request at a time per coordinate; neither
changes a handler.  **`StoreRaces`** adds a history variable, `solo`, true while
no two puts of a coordinate have overlapped, and states what a team with one
publishing job per coordinate can rely on while its lifecycle changes race.
`atArrival` is a history variable for the freshness
properties.  Bad requests (`Refuse`) end before the store is touched; why they
are bad is abstracted, and so are timestamps and response texts.

**`RegistryClient`** puts compilations in front of that very server, races,
crashes and all: `Serve` is a step of `FilesystemStore`, and the slots of the
server are the connections.  Slot `p` carries, one after the other, the requests
of a compilation `p` (`step[p]` is what it does next) and publications and
lifecycle changes of anybody (`Mutate`); a publication is one request, so
`graydr publish` says "Published" exactly if that request is answered 201.  A
compilation that asked waits until its slot is idle again; no reply means that
the handler was dropped or the server restarted.  Clients have faults of their
own: `network` (the 30 s pass or the connection breaks, while the server goes
on), `disk` (the cache) and `kill`.  The cache file of a coordinate is missing,
truncated (`Empty`, `Mixed`) or a text.  What holds only while no two puts of a
coordinate overlapped says so with `solo`.  Retirement can be undone at the
server, so `barred[p]` records whether a module was retired when `p` last asked
and stayed so.

**`FragmentExpansion`** gives each activation of `expand_includes` a frame with
its output and its map.  An output byte is the place it was copied from, which
makes the source map checkable.  The status of every path (missing, unreadable,
unparsable, fragment) and the codes of all files are part of the initial state.
A body is lines of text, includes of a path, and includes of a coordinate.  A
path is a name that `Canonical` takes, from a directory, to a file: it can have
directory parts, so that different names lead to one file and the same name to
different files.
`FragmentProperties` compares with a reference that knows no calls: who includes
whom (`IncludeGraph`), and what a file comes to, as recursive functions over the
depth of nesting (`Expansion`) and the lines of a file (`LinesExpanded`).
`Resolve` is `SourceMap::resolve`, which answers with the first entry over a
byte: `ResolvesToArmsInclude` says what that is, the file that the arm's own line
includes.

**`HclSyntax`** is what the HCL library makes of a text: a tree of blocks with
labels and attributes; the library is external.  **`ModuleParser`** and
**`TemplateParser`** are the two parsers: every check in its order, the first
error or a record of the fields any command uses.  They are used by the compiler
and by the commands, so a compilation begins with texts and not with parsed
modules.

**`ResolveContext`**, **`PropertiesMerge`** and **`DependencyGraph`** are the
pure parts of a compilation as operators.  A properties file is a function from
paths of keys to leaves (a scalar, null or a list), no path above another;
`DeepMerge` is then one comprehension for the recursive merge.  Keys hold no dot
and mappings are not empty, so that the order of a document does not matter.
`Reaches` is the least relation closed under the edges, as sets closed under
them, which serves TLC and the proofs.  What the code filters, sorts or folds is
stated in the same spirit: the last declaration of a resource is the one at the
greatest place, a group is the order of its members in the order of all
(`InOrder`, `Earlier`), a flag has the value of its last occurrence, and
`MergeFiles` is a recursive function of the number of files.
**`CompilePipeline`** is `run_compile`, an action per
step: `Load` (1-3), `BuildContext` (4-8), `Dispatch` (9), `AddEdges` (10),
`Sort` (11), `GroupResources` (12-14), `AssembleOutput` per group and
`EndAssembly` (15-16), `OpenOutput` and `WriteOutput` (17), `OnCompileSuccess`.
Modules are looked up along the search path; hash-map iteration and the
topological order, of which `toposort` returns some valid one, are chosen
nondeterministically.  Abstractions: values are numbers in
the order of the strings; a binding is a literal; or a text that begins with a
`$` (and not with `${`), all of which is looked up as the name of a variable, so
that `$env-logs` has no value; or any other text, which is passed on as it is.  A
rule is a set of allowed values of one variable; a fragment is the variables its
text uses and whether expanding it fails.  The text of code is the set of names
after a `$` in it and whether a brace follows, and a block says for each which
name was replaced there (`NameStarts` are the names that start with others).  A
value can hold variables itself (`Held`): names are replaced one after the other
in the whole text, so those that come `Later` are replaced inside it too, and a
block says by what (`within`); a variable whose name is partly in a value and
partly in the text after it is left out.  At the end the text goes through Tera:
code that is an error to it, and values whose text is one once they are put in
(`TeraRejects`), make rendering fail.  What Tera makes of expressions it accepts,
governance comments, warnings and the hook's summary are left out; output goes
to a file.

**`Linter`**, **`Formatter`** and **`Scaffold`** are the checks of `lint`, what
`fmt` does to the layout of a text and what `init` writes.  A layout is, body by
body, the lengths of keys and the spaces, blank lines and comments around them.
`fmt` replaces all that stands on the line of a key before it, and all around its
`=`: a comment there is dropped, and of one that began on an earlier line the end
is (`Tears`).
**`SourceFiles`** is the disk of a workspace; a text has a tree, which says what
it means, and a layout.  `FormatText` gives the layout the formatter makes, with
the tree as it was, or `Broken`, a text that is no HCL, where a comment was torn.
(A comment that is torn ends at the end of a later one, if the file has one; the
model's files have not.)  That nothing but torn comments changes the tree is how
`format_file` is modelled, not something the runs or the proofs find out; what
they are about is which texts reach which files.
**`FileCommands`** is one process that works through a list of files, an action
per branch of the loops of `run_validate`, `run_lint` and `run_fmt`; a write is
two actions, as in the store, with disk errors and kills.  `Commands` are the
calls a world can make.
**`LanguageServer`** has the editor as environment and an action per handler.
tower-lsp starts handlers in the order of the messages, up to `Slots` at once.
The handlers touch the document map before their first await and hold no guard
of it across one, so the whole synchronous part is one action; what remains of a
handler is a publication, and those reach the editor in any order.  Directories
are searched under the names they have in URIs (`InUri`), which are others where
a URI escapes characters, and an answer is a path that was not escaped, in which
the editor may see another file or none (`AsUri`).
**`Workspace`** composes the two on one disk.

Definitions called mutants in the comments are wrong variants of a neighbouring
definition; no specification uses them.  They say what each property would catch.

## 3. Runs

| Run | Question | Bounds |
|---|---|---|
| `store_races` | What holds whatever two requests do, with every fault, and what while no puts race? | 1 coordinate, 2 texts, 2 slots, symmetry |
| `store_serial` | Does a store used serially implement `ModuleStore`, and are reads fresh? | 2 coordinates, 1 text, 2 slots, crashes, symmetry |
| `store_live` | Is stored content made visible, every request answered? | 1 coordinate, 1 text, 2 slots, crashes and dropped handlers |
| `client_any` | Cache, retirement and publication under races and faults; does everything end? | 1 coordinate, 2 texts, 2 + 2 processes |
| `frag_expand` | Is expansion right on every include graph? | 2 directories of 2 names, 5 bodies per file |
| `compile_run` | Is a compilation right, in every hash order? | 1 to 3 resources, 12666 inputs |
| `workspace` | Do the commands tell the truth and leave texts intact, is the editor shown what its text deserves? | 19 module and 7 template texts, 584 layouts, 4 editor messages, or 2 beside a `fmt` |
| `store_retired_race` | *violated*: "retired is terminal" | 2 patches |
| `client_truncated` | *violated*: "if already downloaded" | 1 compilation, 1 kill |
| `compile_own_input` | *violated*: a resource's own literal is used | as `compile_run` |
| `compile_fragment_variables` | *violated*: fragment variables resolve like others | as `compile_run` |
| `compile_depends_on` | *violated*: dependencies are emitted first | as `compile_run` |

Only the `workspace` run has a counter to cap: `messages`, those the editor still
sends.  Everywhere else slots are reused for ever, or the program ends, so the
runs cover executions of any length.

* *Store.*  Two slots suffice for every race between two handlers, and the
  properties relate at most two requests.  With three racing puts the content
  can also be served torn, which is why `ServedAsPublished` and `ContentSetOnce`
  ask for `solo`; the proofs hold for any number of requests.
* *Fragments.*  Two directories and two names allow a circle of one and of two
  files, a diamond, the same name in two directories, empty files and every
  status.
* *Compilation.*  Each value of each source is overridden by each stronger one,
  files replace sections by scalars, scalars by sections and anything by null,
  resources disagree, groups are one to three, some resource has no place, and
  every failure occurs.
* *Workspace.*  Command worlds have no editor: a file of each flaw before and
  after good ones, so that an error must survive what follows it, and all
  layouts of one body with up to three entries of eight kinds (short, long,
  multi-line, misplaced, with an inline comment, after no, one or two blank
  lines, blocks), which contain every way a run of keys begins and ends.  Four
  messages are an open, two changes and a request, or two of each document, or a
  close and an open again; with `Slots = 2` the server is full with two
  unpublished changes.  tower-lsp allows four; for safety any number is proved,
  and a full server is reached sooner with two.

`CHECK_DEADLOCK` is off where a run of the program ends (`frag_expand`, the
compile runs and `workspace`).

**Fairness.**
* *Store* (`FairSpec`): weak fairness of each handler: tokio polls a ready task
  and filesystem calls return.  Its steps are those of `LiveNext`: clients give
  up and the server restarts, but no filesystem call fails.  A put that was
  struck between its two renames leaves its content hidden for ever, as nothing
  repairs it; `EventuallyVisible` says that this is the only way.
* *Client*: weak fairness of each compilation and of the server's side of each
  publication: a process that runs keeps running.
* *Expansion and compilation* are sequential code: weak fairness of `Next`.
* *Workspace*: weak fairness of `Serve` and of each `Publish(k)`: tower-lsp takes
  the next message when a slot is free, tokio polls handlers that are ready.

Nothing is assumed of arrivals, of faults, of the editor, of the operator or of
the file commands.

**tower-lsp** is not part of the repository.  What is assumed of it: handlers
start in the order of the messages, several run at once on one task, and
notifications of different handlers may leave in any order.  The last is
conservative: a property that holds with it also holds if they leave in order.
An editor counts versions on when a document is opened again.

**Where code and documentation disagree** (the violation runs):
`filesystem.rs` calls retired terminal, two racing patches undo it; the client's
cache takes a truncated file for a download; the bare alias of an input belongs
to whichever resource a hash map yields first; only an arm's own variables are
replaced in the text its includes expand to; `depends_on` orders resources
inside a group only.

## 4. Proofs

| Theorem | Statement |
|---|---|
| `FilesystemStoreProofs!TypeCorrect` | `Spec => []TypeOK` |
| `...!MetaImpliesModuleCorrect` | metadata never without content |
| `...!PublishedForeverCorrect` | nothing published disappears |
| `...!SettledModuleImmutableCorrect` | settled content is immutable |
| `StoreRefinementProofs!ImplementsModuleStoreCorrect` | `SerialSpec` implements `ModuleStore` |
| `...!RetirementGateCorrect` | retired before the request: not served |
| `...!MetaIsFreshCorrect`, `ListIsFreshCorrect` | reads are neither stale nor ahead |
| `StoreRacesProofs!ContentSetOnceCorrect`, `ServedAsPublishedCorrect`, `NoLifecycleSkipCorrect` | as long as no two puts overlapped |
| `RegistryClientProofs!ClientTypeCorrect`, `CacheAgreesCorrect`, `RetiredNotUsedCorrect`, `PublishedOkIsMineCorrect` | as in `client_any` |
| `FragmentProofs!FragmentTypeCorrect`, `NoReentryCorrect`, `CycleIsRealCorrect` | the recursion is never deeper than there are files, and its error names a real circle |
| `...!OkMeansAcyclicCorrect` | after a success no files that are reached include each other in a circle |
| `...!OutputIsExpansionCorrect`, `EveryDropMarkedCorrect` | a success is the reference expansion, and marks what it dropped |
| `...!MapKnowsOriginCorrect` | the innermost entry over a byte names its file |
| `CompileProofs!CompileTypes` | `Spec => []TypeOK` |
| `...!CycleRefusedCorrect` | refused as circular exactly when resources wait for one another |
| `...!ResolvedByChainCorrect` | what is rendered used the values of the chain, whatever the order of the maps |
| `...!DependenciesFirstCorrect` | dependencies come first among the blocks of a place |
| `...!AllOrNothingCorrect` | an output file that was written has every resource with a place once, any other is the previous one or cut off by a failing disk |
| `WorkspaceProofs!WorkspaceTypes` | `Spec => []TypeOK` |
| `...!DiagnosticsAreTruthful`, `DocumentsAlwaysFollow`, `AnswersAlwaysFit` | as in `workspace`, for any documents, texts, messages and slots |
| `...!ExitsAreTrue` | success means that every file passes, failure that one does not or could not be dealt with |
| `...!MeaningIsKept`, `WrittenWell` | formatting keeps the meaning of every file, and leaves each one canonical |
| `FormatterProofs!FormatIdempotent`, `FormatCanonical`, `CanonicalIsFormatted` | for layouts of any size and depth; what `fmt --check` accepts is what it would leave alone |

They hold for every value of the constants, under the assumptions the modules
name and TLC evaluates.

* *Store and clients.*  The sentinels (`Absent`, `Missing`, ...) are no texts
  (`ContentsAssumption`, `TextsAssumption` of `RegistryClient`); requests use the
  five endpoints (`OpsAssumption`).
* *Fragments.*  Bodies consist of the three kinds of line (`BodiesAssumption`,
  `PathsAssumption`); a source tree has finitely many files (`FilesAssumption`).
* *Compilation.*  The bodies of a text are lists, so that a template names
  finitely many resources (`TextsAssumption`); what is bound is a number or a
  reference, the variables in code are `$i` and `$r.i`, and `Bare`, which marks
  the bare form, is no name (`WrittenAssumption`); files and flags come in lists,
  and their values are scalars (`CompilationsAssumption`); of two names at most
  one starts with the other (`StartsAssumption`).
* *Workspace.*  A source has blocks in lists, and there is an empty one
  (`TreesAssumption`); paths have a directory, a stem and an extension
  (`PathsAssumption` of `SourceFiles`); the scaffolds are texts
  (`ScaffoldsAssumption`); a world has files and a command (`WorldsAssumption`);
  documents are files and edits are texts (`DocsAssumption`, `EditsAssumption`);
  an editor opens folders or none (`RootsAssumption`); at least one handler can
  run (`SlotsAssumption`).

Induction over data has no rule here that the provers can use.  Where a proof
needs it (the nesting of fragments, the files that are merged, an order of
resources) it goes by a least counterexample, which is a lemma about sets of
numbers.

The arguments.

*Server.*  `MetaImpliesModule` is not inductive, since a request
about to rename its metadata must know the module is there; the strengthening
says that every request in `MetaSteps` has a coordinate with content, which
holds as content is never removed.  Settled content cannot change because the
handles that could still write into it belong to requests in `ModuleSteps`.

*Refinement.*  The map takes `module` and the parsed `meta`; serial use makes the
temporary files private, so that `SerialInv` can say what a request's `.tmp`
holds between its own steps, and that the state a patch validated is still the
current one at its rename.  `FreshInv` adds what each read has learnt so far:
that its answer lies between the state at its arrival and the current one, and
for a listing that every version is either still to be visited or already in it.

*Races.*  `RaceInv` is the unrestricted invariant together with
`solo => SoloInv`.  Without overlapping puts, patches still share one temporary
file: `TmpOK` says that while the module is active that file holds nothing beyond
`deprecated`, and `Patching` that a patch to `retired` saw a module that is no
longer active, so that whichever document a rename publishes skips no state.

*Client.*  `CacheAgrees` needs that a text in hand is
the registry's, which holds because content is set once; `PublishedOkIsMine`
needs that a publication past its store owns the coordinate.

*Fragments.*  `NoReentry` follows from the guard of the recursive call;
`CycleIsReal` needs that neighbouring frames are joined by an include of the line
at which the lower one waits.  Of what a call has returned nothing is left but its
output and its map, so the rest is said about those (`InlineInv`): the files a
map names, which are those inlined so far, are closed under inclusion and
acyclic, none of them is on the stack below, and the map is right for the call's
own output, which shifting it to the place of an include preserves.  `ExpandInv`
adds that every call has made of the lines it passed what the reference makes of
them, and that the files it inlined no longer change beyond a nesting as deep as
there are such files; so the depth at which the reference stops, the number of
all files, is enough.

*Compilation.*  If `toposort` has an order, no set of resources all of which wait
for one another exists, for its earliest member would wait for a later one; if
it has none, the resources left over when a longest beginning of an order cannot
be continued are such a set.  The members the error names are such a set because
the last edge on the way to each of them comes from another one.
`Prepared` says what the steps before the output leave to the next ones: the
resources are those of the template with the modules they name (`Loaded`),
`Ordering` carries what the sort needs, `Made` that a run that got past a step
has its context, arms and order.  Its heart is `ContextMeans`: every variable has
the `Meaning` the chain gives it, which is one value wherever the resources agree and
one of several for a plain name they disagree about.  `TwoPassMeans` shows it for
every walk over the hash maps: the first pass gives each variable a value from
its strongest source, and the second only adds plain names that have none, from
references or mixed texts.
`Assembled` is about the output: groups that are left have different places and
no resource in common, each in the order of all, and every resource with a place
is either in one of them, or valid and in the output once (`Accounted`).
`DependenciesFirst` and `AllOrNothing` are what remains of it when no group is
left.

*Workspace.*  A message takes its meaning when it is sent and its effect later.
`Truthful` says of every message in the inbox, every text in the map and every
pending notice that it is some version the editor sent, and the one it names;
`Following` that the messages about a document, in order, lead from the server's
text to the editor's, and at each request to the text it was asked about.

*File commands.*  `CommandInv` ties the two flags of a loop to the list: a command
would end with a failure exactly if one of the files it has read does not pass
(`Tallied`), whatever comes after that file, and what it is about to write is the
text it has just read, formatted (`Changing`).  `FilesInv` follows the files: one
that was read says what it said unless the editor saved it or the write was cut
off (`SeenKept`), also when a list names a file twice (`HeldKeeps`), and those
before the one at hand are as the command should leave them (`WrittenSoFar`).
The lemmas about the parsers say which sources pass: what the two parsers
accept, and the linter complains about, are conditions on the blocks of a source
in which no order of checks is left.

*Formatter.*  A run of keys before formatting is one after it, since blank lines
are reduced but none is removed between entries; so the longest key of each run,
and with it every padding, is the same the second time.  A layout that is
canonical already is one that formatting leaves as it is, which is what
`fmt --check` answers and why a success of it can be trusted.

Every invariant and action property of a passing run is stated by a theorem.
Only model-checked are the liveness properties (`EventuallyVisible`, that
requests, clients, expansions and compilations end, and those of the editor):
fairness and ENABLED are out of the prover's reach.  The violation runs are
counterexamples, for TLC to find.

## 5. Not modelled, and known differences

Left out:

* `parse_fragment_file`, `add_implicit_edges`, `resolve_output_mapping` and
  `check_case_completeness`, which no command calls, and
  `load_properties_file`, which only tests call.
* Spans, wording and colours; governance comments and the hook's summary;
  `SourceMap::resolve`, which returns the outermost entry and adds bytes to a
  line number (the entries are modelled).
* Keys with a dot in properties files: `a.b` and a `b` below `a` become one
  variable, and the later of the two in the merged mapping wins
  (`merge.rs:30`), which need not be the later file's.
* Registry start-up: it reads a configuration and serves; a stop is `Crash`.

What the code does, and the models with it, that a reader may not expect:

* Diagnostics of a save carry no version, and those of a change can arrive after
  the close that cleared the document's (`lsp.rs:98`).  So `DiagnosticsTruthful`
  speaks of the version that a notice names.
* A comment at `lsp.rs:173` says completion tries the workspace and then falls
  back to the document's directory; it does so only without a workspace.
  Definition has no such fallback at all.
* `fmt` reads, formats and writes without a look at what happened in between:
  what an editor saves there is lost (`MeaningKept` excepts such files).
* `fmt` deletes a comment on the line of a key before it (`rules.rs:140`),
  although `fmt/mod.rs:8` says comments are preserved.
* The comment at `fmt/rules.rs:13` asks for exactly one blank line between blocks
  and none among attributes; the code only reduces several to one.
* `init` overwrites a file that is there.
* Directives (`%{...}`) in a heredoc of code are dropped (`module.rs:168`).
* A name only in the label of a case is no use of an input for the linter.
* `validate` reports the first error of a file only, for the parsers return at
  it, although `docs/cli-reference.md:100` says it reports all of them.
* Of several module blocks the last one counts, of several sections and of
  several templates the first; an unknown block is an error in a module and
  ignored in a template.
* A rule without a condition, or one that cannot be evaluated, fails whatever its
  severity.
* Module defaults are never parsed, so the weakest source in
  `language-spec.md:171` is always empty.
* In the resolver's search path the first directory that has the file decides;
  if it cannot be read there, the others are not tried (`hooks/mod.rs:36`).
* A place given as a literal is that of the resource whatever flags say
  (`compile.rs:204`), unlike every other variable.

## 6. What is left

1. Documents with an order, for keys with dots.
2. A composition of `RegistryClient` with `FilesystemStore` in place of the
   abstract store: the clients' properties are now checked against
   `ModuleStore`, which the files implement when used serially.
