# DocSearcher: verification development

TLA+ models of DocSearcher (`hwp-searcher`), the TLC runs that check them and
the TLAPS proofs about them. Every definition is translated from the Go source;
`PROJECT.json` maps each one to its lines.

DocSearcher keeps a full-text index of the HWP, HWPX and PDF documents under
the folders a user watches. One process holds an HTTP server, a file watcher, a
scanner with a pool of workers, a Bleve index and a `config.json`. Almost all of
its state is shared between goroutines that nobody orders: every HTTP request
runs on its own, the watcher's event loop runs on another, and a scan adds one
for itself, one for its pool and four workers. That is what is modelled.

## 1. Inventory

| Part | Source | State | Operations | Hard behaviour |
| --- | --- | --- | --- | --- |
| Index runner | `internal/usecase/index_runner.go`, `infra/worker`, `infra/scanner` | `running` flag; per scan a channel, a pool, a wait group, `done` | `Start`, `Run`, `IsIndexing` | load and store of the flag apart; shutdown of channel, workers and caller; a walk that ends on an error |
| Watched paths | `internal/usecase/watchpaths.go` | none of its own: the configuration, the watches, the index | `Start`, `Add`, `Remove`, `ResetIndex` | two lists kept together by order alone; early returns; refused scans |
| Indexer | `internal/usecase/indexing.go` | none | `IndexFile`, `RemoveFile` | text extracted now, written later |
| File watcher | `internal/infra/watcher/watcher.go` | fsnotify handle, watched directories, event queue | `Start`, `Close`, `AddPath`, `RemovePath`, `handleEvent` | events behind the file system; new directories; lost events |
| Index store | `internal/infra/search/store.go`, `engine.go` | Bleve handle, RWMutex, directory | open, index, delete, search, count, reset, close | a reset under readers; failure or death in the middle of it |
| Configuration store | `internal/infra/config/config.go` | list of paths, mutex, `config.json` | `Load`, `AddPath`, `RemovePath`, `WatchedPaths` | list and file changed in two critical sections; truncate-then-write |
| Search | `search/query.go`, `hit_mapper.go`, `codec.go`, `mapping.go`, `usecase/searching.go`, `domain` | none | validate, build a query, map hits | lengths counted over blanks here and n-grams there |
| Server | `internal/server/server.go` | none | the endpoints of `docs/contracts.md` | concurrent requests; highlighted fragments escaped piece by piece |
| Parsers | `infra/parser`, `goHwpTxt` | the lists being read | `ExtractText` | files that end anywhere; nested lists; 16-bit counters; order of sections; code tables |
| Statistics | `internal/usecase/stats.go` | none | `Current` | three reads that promise nothing of one moment |
| Client, templates | `cmd/client`, `web/templates` | none | | pure I/O and markup |

How they interact: `cmd/app/main.go` opens the index, starts the watcher, runs
`WatchPaths.Start` and then serves. `WatchPaths` calls `watcher.Registry`, which
watches a folder and calls `IndexRunner.Start` on it; the scan calls
`Indexer.IndexFile` for each document, as `handleEvent` does for each event;
both end in the index store. Handlers call `WatchPaths`, the index store and the
configuration store directly.

What makes each part correct:

- a scan processes each reachable document once, and leaves nothing behind;
- one scan at a time; the flag always comes down; `IsIndexing` is truthful;
- the watches are those of the configured folders; configured folders get indexed;
- every directory below a configured folder is watched, and no others are;
- a document agrees with its file once the file's events are handled;
- clients see the index change atomically, over resets, failures and crashes;
- the file holds the list; what an `Add` acknowledged is persistent;
- the text of a document is in the index once, in order, and extraction ends;
- a name is found however it is spaced; a fragment reaches the page whole and
  escaped.

The hazards in `PROJECT.json` list, line by line, where each could go wrong.

## 2. Modules

| Module | Models | Abstract specification or composition |
| --- | --- | --- |
| `ScanContract` | what one `Run` promises | abstract |
| `IndexRun` | `Run`, `Pool.Run`, `scanner.Walk` | implements `ScanContract` |
| `IndexRunner` | `Start` and the end of a scan | a live scan stands for an `IndexRun` |
| `WatchPaths` | main, handlers, `Registry`, `WatchPaths` | composes `IndexRunner` (by `INSTANCE`), the list of `ConfigStore`, the reset of `IndexStore` |
| `WatchTree` | `addPath`'s walk, `RemovePath`, `handleEvent` on directories | the detail of what `WatchPaths` calls watching a root |
| `DocumentIndex` | what the index promises its clients | abstract |
| `IndexStore` | `indexStore` and its RWMutex | implements `DocumentIndex` |
| `ConfigStore` | `config.Store` and `config.json` | |
| `LiveIndex` | files, events, `handleEvent`, scan workers, `IndexFile` | uses the index as one atomic step, which `IndexStore` justifies |
| `Extraction` | `IsSupportedDocumentPath`, `Parse`, `ExtractText` | composes `Hwp3` and `SectionFiles` (by `INSTANCE`) |
| `Hwp3`, `Hwp3Format`, `HncCodes` | the reader of HWP 3, its parameters, its letters | |
| `SectionFiles` | the readers of HWP 5 and HWPX | |
| `Searching` | request, validation, query, mapping, fragment | uses the index as one atomic step |
| `SequenceLoops` | `Without`, the loop that keeps what is not equal to a value | used by `ConfigStore` and `Hwp3` |
| `UsecaseProof` | | theorems about `IndexRun`, `IndexRunner`, `Searching` |
| `LiveIndexProof`, `IndexStoreProof`, `WatchTreeProof`, `ConfigStoreProof`, `WatchPathsProof`, `ExtractionProof` | | theorems about the modules they are named for; `ExtractionProof`'s also about `Hwp3`, `HncCodes`, `SectionFiles` |
| `SequenceLemmas` | | what the loops over sequences compute |
| `MC*` | instances for TLC | |

State and actions follow the code as below.

**IndexRun.** `jobs` is the channel's buffer, `closed` its closing, `wg` the wait
group, `done` the done channel; `caller`, `pool` and `worker` say where each
goroutine is. One action per step another goroutine can see: a send (blocked
when the buffer is full), the close, the wait, a spawn, a receive, a processing,
an exit. The tree is a sequence of entries of three kinds (document, other,
error), chosen in `Init`; whether a document can be indexed is chosen when it is
processed, and a failure is only logged, as in `process`. A panic in a parser,
which would end the process, is not modelled here.

**IndexRunner.** `Start` is three atomic steps (`LoadFlag`, `RaiseFlag`,
`Spawn`), as the code is `Load`, `Store`, `go`. A scan's end and its deferred
`Store(false)` are one step: nothing lies between them that anyone can see.
`overlapped` is history: two callers have been past the load together, and a scan
has been live ever since.

**WatchPaths.** `proc` says what each goroutine is doing. `Add` is
`WatchRoot`, the three steps of `Start`, `StorePath`; `Remove` is `ForgetPath`,
`UnwatchRoot`; `ResetIndex` is the reset and then, like `Start`, a loop over the
list as it was when it read it. Main serves only when its loop is over. `watched`
holds roots: the directories below them are `WatchTree`'s. `indexed` holds the
paths a scan has gone through to its end since the index was last emptied (what
becomes of each file is `LiveIndex`'s). fsnotify may refuse to watch a root, which
`addPath` only logs: the call goes on to the scan and the configuration
(`WatchRoot`). The walk of a scan may fail, which `Start` only logs (`FinishRun`).
`torn`, `missed` and `parted` are history: they name the events that excuse a path,
and the properties say there are no others. A removal leaves the order of the other paths
open, which nothing here depends on (`ConfigStore` keeps it).

**WatchTree.** The tree is a parent function; `exists` is what there is of it now.
`filepath.Walk` reads the names in a directory before it calls the function that
registers it, so a walk is a set `todo` of directories to visit and, between
`Visit` and `AddWatch`, the directory in hand with the names read. A request and
the event goroutine walk at the same time; the tree changes under both. A watch
may be refused (logged), a walk may fail (returned, or logged by the handler), an
event may be dropped. `lost` and `stray` are history: what nothing will watch any
more, and what stays watched although nobody wants it. Directories are made and
removed; renames of directories are not modelled.

**IndexStore.** Go's RWMutex is modelled as documented: a writer first
announces itself (`pending`), which keeps new readers out (`blocked`), then waits
for the readers before it; on `Unlock` the readers that waited go first. A reset
is seven steps, each of which may fail as its call may. The documents are taken
to be gone when `os.RemoveAll` starts. The process may die in any state and start
again. A start may be refused whatever the directory holds, for `openOrCreate`
returns any error of `bleve.Open` or `bleve.New` and main exits; the next one may
succeed. A directory whose creation or removal was cut short may also open, as an
empty index. `Status` maps the store to what `DocumentIndex` says of it: a refused
start costs no document.

**ConfigStore.** The list is changed in one critical section and saved in
another. A save is a truncation and a write; a failed open leaves the file as it
was, a failed write or a death leaves it torn. A load may fail on any file, torn or
not; main logs it and goes on with the empty list. The first `config.json` is any
list, as a user may have edited it. `acked` remembers what the last answered call on
a path promised; calls on one path that overlap promise nothing. `stale` is set by a
load or a save that failed, until a save succeeds; `doubled` are the paths the first
file had twice, until a save is rid of that.

**LiveIndex.** A file is a version number. Every change of a watched file appends
an event, or, when `Lossy`, nothing: fsnotify reports an overflow as an error,
which the loop only logs. One goroutine handles the events in order. `IndexFile`
is two steps, in the watcher and in the scan workers alike: the text is read in
one, written in the other. Each may fail: a file cannot be opened for a moment, or
the index answers with an error; main.go and `process` only log it, and nothing is
tried again. A reset may empty the index between any two steps. A rename is a
removal, and a creation under the new name. Three histories name what can leave a
document wrong. `overtaken`: a change was handled while a scan worker had the file's
text. `unseen`: nobody was told of a change, because its event was dropped or its
directory was not watched yet. `unwritten`: the watcher failed on the file, or a
reset emptied the index, and no write has succeeded since. A failure of a scan worker
needs no excuse, for it leaves the document as it was.

**Extraction.** A file is its extension, whether it is a lock file, and its first
bytes; the reader these choose takes its steps until it has a text or an error.

**Hwp3.** `stack` holds the paragraphs being read, the innermost last: the
recursion of `parseParagraph` through tables, drawings and notes. The file is not
fixed beforehand: each read finds anything the format allows, damage, or the end
of the data, which may come between any two reads. `count` is `nCharsRead`, modulo
`Width`; `total` is what was read in truth. `parseParagraphs`' pages are `pages`
and `height`. All that is read past before the paragraphs (signature,
information, fonts, styles) is one step. `HncCodes` turns a code into signs: a code point, or an
entry of a table named by the table and its index. `L_MAP`, `V_MAP`, `T_MAP` and
the keys of `hnc2uni_map` are modelled; which character an entry of the large
tables is, is not.

**SectionFiles.** A section is its number; `names` is the list that is sorted as
strings, `streams` the map by name, which keeps the last entry of a name. Records
may end where the next could begin, which reads as the end of the section, or be
cut inside, which is an error; a section that does not decompress is read as it
is. `hwpx.go` reads the header, footer, footnote, endnote and master page files of an
archive in the same loop; their names sort before those of the sections and they are
left out.

**Searching.** A text is a sequence of signs: letters, blanks that
`NormalizeNoSpaceContent` removes, and wide blanks that only `unicode.IsSpace`
counts. The n-grams of the mapping and the match over them are modelled; what a
phrase or a query string finds is left open, as are the fragments that come back.
`highlightFragment`'s loop is one action per piece.

## 3. Runs

| Run | Instance | Shows | Distinct states |
| --- | --- | --- | --- |
| `index_run` | 4 entries, channel 2, 2 workers | `EachDocumentOnce`, `GoroutineProtocol`, `NothingOutlivesRun`, refinement of `ScanContract` with liveness | 6,470 |
| `index_runner` | 3 callers, 2 roots, 3 scans | `FlagHasOwner`, `OneRunUnlessOverlapped`, `TruthfulUnlessOverlapped`, `FlagComesDown` | 6,470 |
| `watch_paths` | 2 handlers, 2 folders, 2 scans, failures of every call, refused watches | `WatchesFollowConfig`, `IndexedUnlessMissed` | 2,554,241 |
| `watch_paths_startup` | 1 handler, 2 folders, no failure | violated: `ConfiguredIsIndexed` | |
| `watch_tree` | 4 directories in 3 levels, 2 nested roots, 1 request, 2 changes, failures | `TreeFollowed`, `WatchedIsWanted`, `TreeCatchesUp` | 1,172,499 |
| `index_store` | 2 readers, 2 writers, failures, refused starts, crashes | `HandleMatchesDirectory`, refinement of `DocumentIndex`, `OperationsReturn` | 437,961 |
| `config_store` | 3 clients, 3 paths, any first file of 3 entries, failures, crashes | `NoDuplicates`, `FileHoldsList`, `TornOnlyWhenWriting` | 505,215 |
| `config_store_retry` | 1 client, failures | violated: `AddedIsPersisted` | |
| `live_index` | 2 files, one in a new directory, 2 scan workers, 3 changes, dropped events, failing reads and writes, resets | `StaleOnlyIfMissed`, `CatchesUp` | 913,756 |
| `live_index_race` | 1 file, 1 scan worker, no lost event, no failure, no reset | violated: `SettledIsInSync` | |
| `documents` | all kinds of file; 4 codes, 6 units of text, 3 nested paragraphs; up to 11 sections of 2 paragraphs; content of 4 signs, query of 3, fragment of 4 pieces | `TextInOrder`, `NoOverrun`, `CutNoticed`, `SyllablesKept`, `SectionsOnce`, `SectionsInOrder`, `ExtractionEnds`, `IgnoreSpacesFinds`, `PageKeepsFragment`, `SearchEnds` | 1,796,939 |
| `old_hangul` | the same files, with codes of old Hangul | violated: `LettersWritten` | |

`documents` runs `Searching` and `Extraction` in one instance (`MCDocuments`). They
share no state, so one order stands for all: a request is answered, then a file is
read. Every request meets one file, which is ignored, and every file one request,
which is refused; what each does with the other standing still is what it does.

Every run but the violated ones also checks its module's type invariant: `TypeOK`,
in `IndexRunner` `FlagTypeOK`, in `Searching` `SearchTypeOK`.

Why the bounds are enough. The channel is smaller than the number of documents
and larger than one, so it blocks, holds several paths and is closed with some
inside; two workers race for them. Two callers are what it takes to break the
flag, and a third can still come while two scans are live. Two handlers and two
folders give every pair of operations on the same folder and on different ones,
and two live scans are as many as two handlers need to meet. Two readers and two
writers put a reader before, among and behind the waiting writers. Three clients
overlap in every order on the configuration's two critical sections; three entries
are enough for a path that is there twice beside one that is not. Three changes
let a file be created, written and removed while its earlier events wait. Four
directories give the walk a choice between siblings, a level below one of them,
and a root inside another root; two changes let a directory go and come back, or
two appear, behind a walk. A count of codes modulo 8 instead of 65,536 wraps
within a few codes; a line of two signs and a page of two lines overflow; eleven
sections are the least that `Section10` can come too early among; a query of three
signs has one with a blank between two letters. Symmetry is used only in runs
without liveness. Every bound is a CONSTANT; `MaxEdits`, `MaxScans`, `MaxVersion`,
`MaxUnits`, `MaxDepth`, `MaxShort`, `Length` and `Runs` cap what the program leaves open.

Deadlock is checked except where the system may stop: `LiveIndex` and `WatchTree`
when the file system is at rest, `Extraction` and `Searching` when they have
answered.

Fairness. `IndexRun`: weak fairness of each goroutine; Go's scheduler runs every
goroutine that can run, and `processFile` returns. `IndexRunner`: a goroutine
inside `Start` goes on and a scan ends; nobody has to call. `IndexStore`
(`LiveSpec`): weak fairness of each client's steps, and strong fairness of a
writer's turn to announce itself, which `sync.Mutex` grants by its starvation
mode; nobody has to call, and nothing is fair about a crash. `LiveIndex` and
`WatchTree`: the watcher, the walks and the workers run; the file system and the
clients do what they like. `Extraction` and `Searching`: the one goroutine that
does the work runs; where the data of a file end is not its doing. The other
modules' runs assume none.

### What the violated runs say

1. `watch_paths_startup`: of several configured folders only those whose turn
   comes between two scans are indexed; a refused scan is dropped silently. The
   same happens after a reset.
2. `config_store_retry`: an `Add` that failed to save, retried, returns nil
   without saving.
3. `live_index_race`: a scan worker brings a removed file's document back.
4. `old_hangul`: a letter of old Hangul gives no text. The guard at
   hnc2unicode.go:39 asks the table of initials about the vowel and repeats the test
   for a lone initial, so that the cases behind it for lone vowels and finals and for
   old Hangul (`Old` in `HncCodes`) cannot be reached. `LettersWritten` fails for one
   more reason, which the run may show instead: `L_MAP` has numbers for the initials
   21 and 22, so that these pass for modern ones and give code points behind the
   block of syllables.

Each is quoted against its document or comment under "findings".

### What the exceptions in the properties say

A property that holds with an exception names a weakness. A reader of the code
should know these:

- two `Start` calls that overlap both scan, and the first to end takes the flag
  down under the other (`OneRunUnlessOverlapped`, `TruthfulUnlessOverlapped`);
- an `Add` that overlaps a `Remove` of the same folder can leave it configured and
  not watched, and a root that fsnotify refuses is configured and scanned without
  anybody being told that it is not watched (`parted` in `WatchesFollowConfig`);
- a scan whose walk fails leaves a folder indexed in part, and nothing repeats it
  (`missed` in `IndexedUnlessMissed`);
- a `config.json` that cannot be read is an empty list, which the next save puts in
  its place (`stale` in `FileHoldsList`); one that has a path twice keeps it twice
  until a save after a removal (`doubled` in `NoDuplicates`);
- a death while `config.json` is rewritten leaves a file the next start cannot
  read, and so an empty list (`TornOnlyWhenWriting`);
- files created in a new directory before its watch is registered, and files whose
  events fsnotify dropped, are not indexed (`unseen` in `StaleOnlyIfMissed`);
- a file the watcher fails to read or to write to the index, and one whose document a
  reset took away, stays as it is until its next event or scan (`unwritten`);
- a directory that appears between the reading of its parent's names and its
  parent's registration, or behind a walk that failed, is not watched; nor is one
  whose root, or whose own watch, was removed under a folder above it (`lost` in
  `TreeFollowed`);
- removing a folder takes away the watch of the folder alone: its subdirectories
  stay watched and their files indexed (`stray` in `WatchedIsWanted`);
- an HWP 3 file cut where a paragraph could begin, and an HWP 5 section cut where
  a record could begin, are taken for whole ones (`CutNoticed`, `short` in
  `SectionsOnce`); compressed HWP 3 data are not, for `flate` notices;
- a paragraph whose count of codes comes near 2^16 reads into what follows it
  (`NoOverrun`);
- with more than ten sections `Section10` is written before `Section2`
  (`SectionsInOrder`), although hwpx.go:35 says it sorts "to ensure correct order"; of two
  streams with one section name in different storages the later is written twice
  and the other never (`SectionsOnce`);
- modern syllables are those of the nineteen modern initials: for the two that the
  table lets pass beyond them `SyllablesKept` says nothing (`LettersWritten` does);
- a `nospace` query keeps its own blanks: one of single letters is accepted, being
  long enough, and finds nothing; wide blanks in a document stay in its text
  (`IgnoreSpacesFinds`).

Met while modelling, and in no property: the `encrypted` flag of HWP 3 is read
and never looked at; `NewHwpV3File` opens the file and nothing closes it.

## 4. Proofs

Checked by TLAPS for every value of the constants. The assumptions are the ones
named in the modules: bounds are naturals; names are distinct; the paths of
`WatchPaths` are finitely many, as those of a disk are (`PathsAssumption`); every directory has
finitely many above it and is not above itself (`TreeAssumption`); an n-gram has at
least two signs and the shortest is no longer than the longest, as in `mapping.go`
(`PolicyAssumption`); sections have at most two digits, so that comparing their
numbers as `SectionFiles` does is comparing their names as strings
(`CountsAssumption`). TLC evaluates each of them.

Every safety property that a passing run checks is proved, types included, and so
are the safety parts of the three refinements.

- `UsecaseProof`, one scan. `IndInv` is `TypeOK /\ EachDocumentOnce /\
  GoroutineProtocol`. Neither of the last two is inductive alone: that a worker
  leaves only after the close needs the caller's place, that the pool finishes only
  after its workers needs the wait group to count them, and that nothing is lost
  needs both. `DocumentsProcessedOnce`, `GoroutinesKeepStep` and `RunLeavesNothing`
  follow, and with `IndInv` each step maps to a step or a stutter of
  `ScanContract` (`RunImplementsContract`). Two theorems stand behind its liveness:
  `ScanNeverStuck`, that until `Run` has returned one of its goroutines can take its
  next step, by the guards of the actions; and `ScanShortens`, that every step
  lowers a natural number (`StepsLeft`), which is `3N + 2P + 4` at first for `N`
  entries and `P` workers.
- `UsecaseProof`, the flag. `FlagHasOwner` is inductive with the types: whoever
  takes the flag down takes it down for all. `OneRunWithoutOverlap` and
  `TruthfulWithoutOverlap` need in addition that, until calls overlap, a caller
  past the load is the only one and finds no scan (`SerialInv`).
- `UsecaseProof`, a search. `PageInv` says that page and remaining fragment
  together are the fragment, piece by piece (`Whole`), and that of the marks
  written so far at no place more are closed than opened, the difference being
  `openMarks` (`Balanced`). `PagesKeepFragments` and the types follow, and so does
  `LoopShortens`: each turn of `highlightFragment`'s loop leaves less of the
  fragment, which is the measure behind `SearchEnds`. `SearchIgnoresSpaces` is about
  n-grams: a part of the query long enough to be one and found in the text without
  its blanks shares with it its first signs, as many as an n-gram has at least;
  conversely an n-gram of query and text has two letters side by side in a part of
  the query, which stay so (`NextTo`) in the query without its blanks, by induction
  on what `Without` does.
- `WatchPathsProof`. `WatchesFollowConfig` says nothing of a folder somebody works
  on, so it cannot be inductive. `WatchInv` says, for each folder that is not
  parted, who is still to see to it (`Seen`), that nobody removes it while somebody
  registers it and that the loops are over configured folders (`Unopposed`), and
  that what is registered stays watched while its call goes on (`InOrder`); and
  that no request runs before main is done. `ScanInv` does the same for the index:
  a configured folder is scanned, or somebody will start its scan, and what is about
  to be stored has been started. Both are kept by one lemma on the step of one
  goroutine and one lemma per action. `WatchPathsTyped` adds that no folder is
  configured twice, or twice in a loop (`OneEach`), however the requests meet.
  `ScansFollowRunner` is a refinement: with `WatchInv` every step is one of
  `IndexRunner` or leaves it alone, so that what is proved of the flag and of
  the scans there holds under main, the handlers and their failures.
- `WatchTreeProof`. `TreeFollowed` is about directories under a configured folder;
  inductive is `HeldInv`: what is in a directory that is watched, or about to be,
  is itself watched, due or lost, and so is each folder that is configured or being
  walked. That a whole chain is then followed takes the topmost directory on it
  that is not. That there is one, and that what is above a directory above `d` is
  above `d`, is proved from the parent function by induction on the number of
  directories above (`ChainsAreOrdered`). `MeantInv` does the same for
  `WatchedIsWanted`. An attempt at this proof showed that the history `stray`
  forgot a removed directory too early, which four directories did not show.
- `IndexStoreProof`. `IndInv` says that what the lock knows is where the clients
  are and that writer and readers exclude each other (`LockInv`), and how handle,
  directory and documents stand at each place of a reset and before the program
  serves (`DirInv`). `StoreImplementsIndex` is the whole
  refinement of `DocumentIndex`, crashes, failures and refused starts included. `LockNeverStuck`
  says that of the operations under way one can go on, by the guards of the actions:
  whoever waits, waits for the announced writer, which waits for readers that wait
  for nobody.
- `ConfigStoreProof`. `FileInv` is `FileHoldsList /\ TornOnlyWhenWriting` with the
  shape of the operations under way. What the list is does not matter to it: only
  that a save writes the list as it is when the mutex is taken for it. `ListInv`
  adds that a path is listed once in memory and in the file, those apart that the
  first file had twice and no save is rid of: an `Add` keeps it by its check, a
  `Remove` because `Without` of a list has what is left of it as often, a load and a
  save because each carries it over (`ListHasNoDuplicates`, `StoreTyped`).
- `LiveIndexProof`. `FilesFollowed` is the invariant: the last event of a file in
  the queue tells whether the file exists; a file with no event is in sync, in
  the watcher's hands, or left unwritten by it; a scan worker holds the file's present
  text. `IndexFollowsFiles` follows for every file that was not overtaken, changed
  unseen or left unwritten, and `WatcherAloneFollows` is the case with no scan, no
  subdirectory, no dropped event, no failure and no reset, where no file can be.
- `ExtractionProof`, HWP 3. `HwpInv` says that, unless its count may wrap, a
  paragraph has read what it has counted, at every depth of the stack, and that
  after an end of the data inside a paragraph one is left that lacks codes, which
  cannot be finished (`ParagraphsEndInTime`, `CutsAreNoticed`, `ParseTyped`).
  `TextIsInOrder` needs an invariant on all that is held at once: the finished
  paragraphs and then the texts on the stack from the outermost in, taken together
  and without the line breaks that nesting puts between them, are what was read
  (`TextInv`); the pages hold the numbers of the paragraphs in order (`PagesInv`).
  `ParseShortens` is the measure behind the reader's end: each step takes a unit of
  the file, or finds its end, or leaves fewer lists and paragraphs to be ended.
  `SyllablesAreKept` is arithmetic on the codes: the tables are increasing, with gaps,
  so syllables keep their order.
- `ExtractionProof`, sections. `SecInv` says of the names after the sort that they
  are the entries' in their order (`Arranged`, a bijection of places), that the map
  has for each name the last entry of it (`Stands`), and that a paragraph of a whole
  section is in the text as often as its name was met (`SecCounted`).
  `SectionsAreInOrder` and `SectionsAreOnce` follow for any numbers of sections (two
  digits) and of paragraphs; the sort is proved to arrange, and to keep the numerical
  order below ten.
- `SequenceLemmas`. The induction theorems of the library take a predicate as a
  parameter, which no prover at hand can instantiate. `NatSetInduction` and
  `SeqSetInduction` induct on a set instead and follow from the well-foundedness of
  the order of the naturals. With them it is proved what `Without` and `FlattenSeq`
  compute of an appended and of a joined sequence, that `Without` keeps a sequence
  free of duplicates, and what stands side by side in it.

Model-checked only: liveness (that of `ImplementsContract`, `FlagComesDown`,
`OperationsReturn`, `CatchesUp`, `TreeCatchesUp`, `ExtractionEnds`, `SearchEnds`),
which this prover does not reach beyond the measures above, and of course the
violated runs, which are
counterexamples. `NextTo`, `Arranged` and the other predicates of the proof modules
are lemmas' notions and say nothing of the code by themselves.

## 5. Not modelled, and why

- Bleve, fsnotify, the file system and the PDF library are external: their
  operations are atomic, their errors are chosen freely.
- A panic on a worker goroutine: nothing recovers it, the process dies; the
  crash actions of `IndexStore` and `ConfigStore` cover what is left on disk.
- `Watcher.Close`, behind a server that never returns.
- Statistics: three reads that change nothing. The codec and
  `normalizeIndexPath`: stateless, their result is a constant of a process.
- The handlers that only render what they are given; the client; the templates.
- The characters in the tables of `hnc2unicode_tables.go`. These are 12,728 of the
  15,468 lines of the implementation: data, of which the models keep the shape
  (indices, gaps, lengths, keys). The definitions of this project cover most of the
  2,740 lines that are code.
- Renames of directories; symbolic links.
- `docs/server-index-smb` describes a later design with no code yet.

## 6. Plan

Done: all modules and proofs above. What is left:

1. What is left of liveness to be said without fairness: that `WatchTree`'s walks
   and `LiveIndex`'s queue shorten while the file system rests.
2. `WatchTree` and `LiveIndex` in one module: files in directories that come and
   go, the overlap of two requests with the events, renames of directories.
3. The design of `docs/server-index-smb`, when there is code.
