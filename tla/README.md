# noAbi in TLA+

TLA+ models, TLC runs and TLAPS proofs for [noAbi](../src/README.md): a command line
for scenarios against EVM chains (JavaScript, `src/src`), and a Go backend
(`src/plugins/backend/src`) whose *event logger* collects contract events from a node
and hands them to actors.

The core is the event logger: it is the part with concurrency, durable state and
failures, and the part that promises something over time ("collects the events up to the
latest block, saves them as JSON"). Of the backend there are also the signing service, the
log files and the libraries for events, documents and call arguments; of the command line,
the prompt, the session (`use`, `snapshot`, scripts, calls) and deployment. Paths of the
backend are relative to `src/plugins/backend/src`, those that begin with `src/` to the
repository.

## 1. Inventory

| component | state | operations | hard behaviour | what makes it correct | status |
|---|---|---|---|---|---|
| **event collector** `pkg/eventLogger/eventCollector`, `common/blockchain/eventLog` | `event.meta` (the cursor) and `<n>.json` per collector on disk; `latestBlockNumber`, the range and the fetched logs in a goroutine | poll the height, fetch a range of logs, save each block's file, move the cursor | crash between any two file operations, random order of saving, endpoint with backends at different heights, syncing node, failing requests, `uint64` arithmetic | no event below the cursor is missing; only committed blocks are saved; no torn file; every event is saved in the end | modelled, checked, proved |
| **event actor** `pkg/eventLogger/eventActor` | the listing it works through; the files are the collector's | list a directory, read a file, look up block and receipts, handle events, remove the file | actors that share a directory, failure in the middle of a file, files that vanish or reappear, numeric order of names | no file removed before its events are handled; block order; every event handled in the end | modelled, checked, proved |
| **event logger process** `build/eventLogger` | all of the above | start, crash, restart | collectors and actors meet only in directories | what holds of the collector holds of what the actors see | modelled, checked, proved |
| **chain administration** `api/routers/v1/eventLogger`, `api/preference`, `runner.go` | registry of chains, list of aliases, table of cancel functions, `event.meta` | PUT (add or update), DELETE, against running workers | check-then-act across a lock, unlocked readers, cancellation that races with start, a cursor written by the API and by a cycle in flight | registry and list agree; cancelled workers stop; registered chains are collected; live chains are untouchable | partly modelled, checked, proved |
| **event declarations and logs** `eventMapper.go`, `common/blockchain/{types,utils/events,utils/encode}` | the tables compiled from `config.yaml` | compile a declaration, decode a log, group by block | one panic loses the whole reply, and the range is asked for again; a declaration may differ from the contract's; numbers go through floats | what is saved is what was emitted; only certain logs can stop a collector | partly modelled, checked, proved |
| **signer API** `api/routers/v1/signer`, `common/blockchain/keystore` | a table of signers under a lock; key files | sign EIP-191/712 for several accounts, recover | a goroutine per request, key files that change meanwhile, panics as errors, 64-bit chain ids | every request is answered; signed by whom and over what was asked | modelled, checked, proved |
| **log files** `api/logHandler`, `common/log` | per log the time it was begun, in memory and in `.meta`; the files `name.txt`, `name.txt.1`, ... | write, rotate | a rotation is many file operations: stops between them and errors that are dropped; one lock for all logs | order, only the oldest lines dropped, a period per file | modelled, checked, proved |
| **JSON documents** `common/utils/json/mapper` | a document | find, insert, remove by a path | keys with dots, null, arrays | what is inserted is found, nothing else changes | partly modelled, checked |
| **ABI encoding** `common/blockchain/pack` | none | arguments by name from maps and structs | widths, casts, missing keys, nested tuples | packed is what was asked, nothing made up | partly modelled, checked |
| **prompt and statements** `src/src/core/cli`, `src/src/core/utils/multilineParser.js` | the unfinished statement, history and its file, the screen | keys, a line entered, a script read | state kept from line to line; two scanners with rules of their own; JavaScript bodies, where a line end is no blank | a statement ends where its semicolon is; both scanners find the same words; the history gives back what was typed | modelled, checked, proved |
| **session and snapshots** `src/src/core/command/{snapshot,use,memory}.js` | `varStore`, snapshot table, current chain, wallet, key and address | create, revert, list, switch, clear | values read after an `await`, ids used up by the node, partial switch when a passphrase fails | chain state and `varStore` go back together; the key in force belongs to the address in force | partly modelled, checked, proved |
| **script runner** `src/src/core/command/sh.js` | position in the script, rounds left | run a line, repeat | first failing line ends the script; arguments of the outer command reach inner ones | the line ends, with nothing left of the script | partly modelled, checked |
| **calls that send transactions** `src/src/core/chain`, `src/src/lib/sendtx.js` | `varStore` | nonce, sign, submit, poll for the receipt | polling against block time, a nonce that is no number | results are stored for what was mined | partly modelled (not view calls), checked |
| **compose and deploy** `src/src/core/deploy`, `src/src/lib/deploy.js` | manifests; `deployedContract`, `varStore`, `currentCollection` | compose, deploy in order, import an ABI | nonces taken by others, creations that are reverted, attempts that fail half-way and are repeated | addresses are the contracts' own; contracts know each other | partly modelled, checked, proved |
| semaphores, signals, event bus `common/sem`, `common/event`, `common/signal`; `common/utils/json/indexer` | counters, handler tables, an index | | | | not modelled: nothing in the repository imports them |
| JSON-RPC client, YAML, database query builders, generated tables, help texts | none that matters | input and output | | | not modelled: no protocol of their own; what callers make of a bad reply is in their modules |

How they interact: `main` starts the collectors (`worker` starts `workerForChain`, that one
`workerForContract` per collector), then the actors, then the HTTP API. Collectors write
`<path>/<chain>/<collector>/<n>.json`; actors read and delete these files; there is no
other channel between them. The API's handlers run in goroutines of their own and change
the registry, from which every worker reads its `startBlockNumber` and the path of
`event.meta` in each cycle. Every goroutine of a process writes its log lines through one
lock. What the collector saves is what `EventDecode` makes of a reply; that a log can stop a
collector for good is where the two meet. The signing service is a process of its own. In the
command line the prompt hands statements to `_do`, whose commands share the globals of
`globals.js` and meet again at the node. `PROJECT.json` lists the hazards of all this, each at its line.

## 2. Modules

| module | models | role |
|---|---|---|
| `Uint64` | Go's wrapping `uint64`, `math.Max`, `math.Min` | data |
| `LogDirectory` | a collector's directory: `<n>.json.lock`, `<n>.json`, rename | shared by collector and actor |
| `EventFeed` | *abstract specification* of what a collector promises | refined by the next one |
| `EventCollector` | one chain's collectors, the node, crash and restart | core |
| `EventActor` | one chain's actors | component |
| `EventPipeline` | collectors and actors of a process | composition of the two |
| `EventDecode` | from declarations and logs to what is saved | component |
| `EventPipelineProofs` | theorems about `EventCollector`, `EventPipeline` (and so the actors) and `EventDecode` | proofs |
| `LeastNumber` | the least-number principle, induction up to a number, recursive functions | lemmas of the proofs |
| `ChainAdmin`, `ChainAdminProofs` | PUT and DELETE against the workers, and theorems about them | component, proofs |
| `Session`, `SessionProofs` | a session of the command line against development nodes, and theorems about it | component, proofs |
| `Statements`, `Repl`, `ReplProofs` | the scanners of prompt and script; the prompt with its history; theorems about both | algorithm, component, proofs |
| `Deploy`, `DeployProofs` | compose and deploy against a node, and theorems about them | component, proofs |
| `Signer`, `SignerProofs` | the signing service, and theorems about it | component, proofs |
| `RotatingLog`, `RotatingLogProofs` | the log files, and theorems about them | component, proofs |
| `JsonMap`, `AbiPack` | paths into documents; call arguments | algorithms; `MCData` runs them and `EventDecode` |
| `MC...` | values of constants for TLC; `MCCollectorFaults` also states what the documentation promises where it does not hold | runs |

Definitions named in a way like `FooUnchecked`, just before `Foo`, are versions of `Foo`
with a bug. They are used by nothing; putting one in the place of `Foo` must make TLC report
the property that `PROJECT.json` ("mutants") pairs it with.

### 2.1 EventCollector and the code

| action | code |
|---|---|
| `ReadCursor` | top of the loop of `workerForContract`: the larger of `event.meta` and `startBlockNumber` |
| `Poll` | `eth_syncing`, `eth_blockNumber`, the early return and the range (`worker.go:216-254`) |
| `Fetch` | `GetContractEventLogsEx` down to `GetLogEx`; a reply without `result` and `error` is a list without logs |
| `GiveUp` | a panic and its `recover` in `getLogAndSaveToFile` |
| `OpenLock`, `WriteLock`, `RenameLock` | `SaveToFile` and `_writeFile`; the blocks come in any order, as from a Go map |
| `TruncateMeta`, `WriteMeta` | `UpdateEventMetaInfo`: `O_TRUNC`, then the write |
| `Wake` | the end of `time.After(Period)` |
| `Mine`, `ToggleSyncing`, `Heights` | the node and its endpoint (external): backends trail by at most `Lag` |
| `Crash`, `Restart` | the process; `meta` and `dir` survive, everything else is lost |

`meta` is the number `event.meta` *reads as*, so the truncated file is 0. Two steps are one
where nobody can see between them: `eth_syncing` and `eth_blockNumber` (the node may change
between them, which `Heights` covers), and reading `startBlockNumber` and `event.meta`
(in live mode nobody else writes either; `ChainAdmin` keeps them apart because there the
API does). Data is abstracted to what the properties tell apart: the logs of a block for a
collector are one thing that is there or not, a file is empty or complete. No reorganisation
of the chain is modelled: the code answers that only by `commitBlockCount`, and the model's
`head` never shrinks, which is the premise under which `commitBlockCount` means "committed".

Errors of file operations, which the code does not look at, are in the model
(`DiskFaults`), switched off in the runs: with them events are lost at once and no model
checker is needed to see it.

### 2.2 EventActor and the code

`List` is `getFilePaths` (any order of names from the directory, then the insertion by
number), `ReadFile` the read and parse of one file, `GetBlock` and `Deliver` are `logSwitch`,
`RemoveFile` is `removeFile`, `Abort` the panic that `readEventLogFile` recovers outside its
loop, `EndOfListing` and `Wake` the way to the next directory and the next period. Handling
an event is what `onDefaultEventLog` does: it writes it out, which nothing takes back; so
`delivered` survives a crash. A file that cannot be read is passed over and stays: the
directory `failed/` it should be renamed into is never created.

### 2.3 ChainAdmin and the code

A client's handler goes through `Put`, `PutLookup` and then either `AddLock`, `AddChain`,
`InitializeChain`, `RunChain`, `UpdateMeta` or `UpdateLock`, `UpdateChain`, `UpdateMeta`; or
through `Delete`, `DeleteLookup`, `StopChain`, `DeleteLock`, `DeleteChain`. A worker goes
through `Register` (its cancel function goes into the table), `LoadChain`, and the loop
`CheckContext`, `ReadStart`, `ReadMeta`, `Collect`, `WriteMeta`, `Wait`. The registry's
critical sections are two steps each, entered with `lockMutex`: the readers, which do not
lock, see the state between. `fate` says how the process ended: by a nil dereference outside
the part that recovers, or because Go's runtime noticed an unlocked read of a map during a
write (`MapRace`, a data race: it may happen or not).

At first the process is `starting`: `main` has a worker for every alias of the configuration, also
for one whose entry does not decode, which is listed and not in the registry (`Init`). `Start` is the last
thing before the API is served, `eventActor.Run`, which looks into the entry of every listed chain: one
without an entry ends the process there, if its worker has not ended it before (`LoadChain`). So
list and registry may differ only as long as nobody can ask for a change, and `ListMatchesRegistry`
speaks of a process that is `up`.

A chain has one collector here, and of an entry only `mode` and `startBlockNumber`. The
copy of the configuration in `mapYaml` is left out: nothing reads it back or saves it.

### 2.4 Session and the code

`Type` is the handler of a line, which starts `_do` and does not await it; from there on a
line goes from one `await` to the next, one action each, and the actions of other lines may
come between. `Lines` are the lines that can overlap.

| action | code |
|---|---|
| `RunScript`, `Finish` | `_commandSh`: the lines, the rounds of `--repeat`, the end at the first error; `Finish` is the common end of every command |
| `AskSnapshot`, `KeepSnapshot` | `_createSnapshot` up to its `await`, and after it |
| `AskRevert`, `FinishRevert` | `_revertSnapshot`, in the same way; `NamesOf` is its lookup by name, then by id |
| `SnapshotInScript` | a script's `snapshot`, which is given the tokens of the `sh` line (`sh.js:99`) |
| `UseUnknown`, `UsePrivateKey`, `OpenWallet`, `UseKeyStore`, `OpenKeyStore` | `_changeSettings`: where it throws, and its two ways to a wallet |
| `Tokenize`, `OpenSigner`, `AskNonce`, `Submit`, `Poll`, `Then` | `_query` of a function that changes state, down to `sendtx.js` |
| `RequestFails` | the error of a request, and those error replies that are looked at; `Fail` is the way through `.catch()` |
| `ClearMemory` | `memory -clear` |
| `Mine` and the effects of requests | the node (external): snapshots as a development node takes them, a pool with replacement |

A call is abstracted to its variable, a receipt to sender, nonce, call and status, a wallet to
its name. Left out: a request that is processed although its reply is lost, `--repeat -1`
(a script that never ends), view calls, settings of gas. The node never uses the
id of a snapshot twice (as anvil and hardhat number them).

### 2.5 EventDecode and the code

`Configure` is `getEventMapper` with `compileEvents`, `CompileEvent` and `tokenizeParams`;
`EmitEvent` is the chain (external). Decoding has no state of its own, so it is operators:
`LogPanics` and `ReplyPanics` say when `MapToLog`, `GetDecodedLog` or `DecodeLog` panics,
`GetEventLogs`, `GetBlockLog` and `SaveToFile` what the block's file says otherwise. A declaration is
its words, as the regular expression leaves them; the hash of a signature is the name and types it is
made of. Parameters are words, strings and lists of integers; tuples and nested lists are left out.

On the way to the file a value changes twice. `BigIntToText` is the loop of `GetEventLogs` which
turns a `*big.Int` into its digits, but none that is inside a list. `ThroughFloat` is
`InterfaceToJsonString`: the JSON of a block is read back into a map, where each number becomes a
`float64`, and written again. `Float64` is the nearest float, `MaxExact` (2^53) the number up to which every
integer is one; the run has floats of two bits and 5 as the number that becomes 4. A loop that keeps some
elements of a list is `Picked`, the elements at the `Place`s that are kept. The assumptions say
what a declaration is (two words at least before the parameters, of which the second is its
name), that two names of one type are decoded alike, that arguments are numbers, strings or lists of
numbers and never the hash of a signature, and that small integers are floats.

### 2.6 Statements, Repl and the code

A line is a sequence of words and of the characters the scanners look at: brackets, quotes, the
backslash, the dot, the slash, the semicolon and the blank (`Chars`); no line begins with a blank, since
the handler of the prompt and the parser of scripts trim it. The text of a statement is kept in two
parts: its words (`Bare`), and its white space, as the numbers of words after which there is a blank or
the end of a line (`Whites`). They are two kinds because the body of `.then()` and `.catch()` is JavaScript:
there a line end ends a comment, or stands for a semicolon. White space is a line end if there is
one in it; how much of it there is, is left out.

The two scanners have one loop over the characters in common, `ScanChar`; what they do with a line
is written out for each. `PromptCheck` is `_checkMultilineComplete`, which keeps its state in globals
(`input`), `ScriptCheck` is `checkMultilineComplete`, with the state in the parser (`ScriptLine`).
`PromptSeparator` and `ScriptSeparator` say what each puts between two lines, `Cleaned` what is taken out
of a complete statement (at the prompt not of `curl` and `event`). In `Repl`, `Type`, `Up` and `Down`
are the keys, and `SkipBlank`, `Statement`, `OneLine`, `Command` and `Exit` the cases of
`defaultLineHandler`, whose end is `Hand` or `MoreLines`; `HistoryLine` is an entry as the arrow keys show it,
with a blank for each line end; `Kill` ends the process with what the history file has. What the
statements do is in `Session` and `Deploy`.

The reference for the scanners, `StatementEnds` and `StatementOf`, is read off a whole text without any
state: a character is `Escaped` by an odd number of backslashes before it.

### 2.7 Deploy and the code

`Compose` writes the manifest that `ManifestOf` computes (`_compiling`, `_importing`,
`_compose`: JavaScript objects keep the place of a key, and a later package's spread replaces
the entry of a source file). `StartDeploy`, `ReadManifest`, then for each contract `AskNonce`,
`Submit`, `Poll`, `Store`, and `Complete` are the awaits of `_commandDeploy`, `_deploy`,
`ethDeploy` and `sendtx.js`; `RequestFails` is the throw at any of them. `Mine` and
`MineForeign` are the node (external), which replaces a pooled transaction only for a higher
price. A creation that is mined makes its contract or is reverted (`reverted`): the estimate that would have
refused it is of an earlier block, or skipped, since `customChain.gasLimit` is set. `Store` takes the
address from the receipt in both cases, as the code does, and the status goes to the log
(`deployLog`); `Stands` is what is left to promise of an address: a contract is there, or the log says
that it is not. An address is the nonce it was created with. A compose file is a sequence of packages
(`ComposeAssumption`), each with source files, contracts and imports; the compiler's output is the set
`Artifacts`. `Lines` has one element in the run: the user waits for the prompt.

### 2.8 Signer and the code

A request is a goroutine: `Arrive` (gin), `Parse` (binding, conversion and checks of the three
handlers), then for each pair of account and passphrase `Lock`, `LookUp`, `Insert` (`NewSigner`),
`Find` and `Sign` (`SignHash`), or `Recover`. `Fail` is a panic that `APIErrorHandler` turns into
a reply, `BareError` one that comes before it is deferred. `ChangeFile` is the operator. What is
signed is `HashOf` the request; `Accepts191` and `Accepts712` are the conversions as far as they
accept or refuse. The width of a chain id is `Width`, for 2^64. The middleware that could
check a token is left out: every route of the repository has it switched off.

### 2.9 RotatingLog and the code

`Write` is the part of a call before the lock, `Lock` takes it and reads the clock, `LoadCreated`,
`FillMeta`, `Decide`, `DropLast`, `Shift`, `StampMeta`, `ShiftFirst` are `_tryRotate`, one action
for each file operation, `Append` the end; `Panic` is the division by a frequency of 0. `meta` is
the number that the `.meta` file reads as (`Blank`, 0, for an empty one). `Refuse` is an error of any file
operation, which the code prints at most: a `.meta` file that cannot be read (`LoadCreatedRefused`)
or written, a removal or a rename (`Refused`), a line that cannot be appended and is lost. `Crash`
and `Tick` are the system. A line is its number and the time read under the lock; the time *printed*
in it is read before the lock and may be out of order, which no property here speaks of.

### 2.10 JsonMap, AbiPack and the code

`Find`, `RemoveOf` and `InsertOf` are the three calls; `Found`, `Removed` and `Inserted` the
`_root`, `_map_r` and `_slice_r` functions together, which differ only in what they hold;
`MapStep` is the loop that lengthens a key by one token after another. A string is the sequence
of its tokens between dots. Not modelled: that Go maps are shared, so that a caller who changes
a map after inserting it changes the document.

`PackAny` walks over the inputs: `Lookup` is the search by name, `ToArg` the switch over types,
`ToInt64`, `ToUint64`, `ToBigInt`, `ToAbiInt`, `ToAbiUint` the conversions. Go leaves it to the
machine what `int64(y)` and `uint64(y)` make of a float they cannot hold: such a float carries the bits it
becomes, and the run has three machines' choices of them. A text is decoded as hexadecimal wherever an
address is asked for, with `0x` or without. `OwnGoType` says which items can be put into the slice
of a list: bytes of a fixed length and arrays come out of `toArg` as slices, so that a list of them
panics, and a call that panics is one that is not packed. `Packs` and `Packed`
are go-ethereum (external), `Means`, `Asked` and `Read` the reference they are compared with:
which values mean something for a type, what they mean, and what a contract reads. Widths are
scaled: a machine word has 4 bits, a packed word 6, a byte 2. `Means` leaves out a float beyond
the machine word, and a list of what has not its own Go type. Nil pointers and functions as
values are not modelled. No package of the repository imports `pack` yet.

## 3. Runs

Safety is checked on every reachable state of the instance; bounds are those of the cfg.

| run | question | instance | states |
|---|---|---|---|
| `collector` | does a safe deployment lose nothing, save everything in the end and implement `EventFeed`? | 1 collector, 5 blocks, ranges of 2, 2 crashes, `CommitBlockCount` = `Lag` = 1 | about 74,000 |
| `pipeline` | is every event handled before its file goes, in order, with actors that share a directory and a crash? | 1 collector, 2 actors, 2 events a block, 3 blocks | about 605,000 |
| `pipeline_live` | is every event handled in the end, when a failure gives up the rest of a listing or of a file? | 1 collector, 1 actor, 2 events a block, 2 committed blocks, 1 crash, fairness | about 50,000 |
| `admin` | do registry and list agree, do cancelled workers stop, are registered chains collected? | 1 alias, which may be listed without an entry at start, 2 clients, 2 workers | about 264,000 |
| `admin_live` | is a live chain safe from the API? | a live chain and an alias, 2 clients | about 87,000 |
| `session` | do chain and `varStore` go back together, do signer and address agree, does every line end? | 1 chain, 2 wallets, 2 names, 11 commands, 4 lines | about 1,150,000 |
| `repl` | are statements cut where they end, the same in a script, and word for word in the history? | 10 lines of brackets and strings and the arrow keys, or 14 of calls with bodies and of curl; 4 entered, 3 arrow keys in a row, a history of 2 saved every 2 | about 1,085,000 |
| `deploy` | are addresses the contracts' own, do contracts know each other, does every command end? | 1 compose file of 2 packages, 3 contracts and an imported ABI, 5 commands, 3 lines, 2 prices, 1 foreign transaction, 2 reverted creations, 2 polls | about 651,000 |
| `signer` | is every request answered, by whom and over what it asked? | 3 requests out of 8 and recoveries, 2 accounts, 1 change of a key file | about 410,000 |
| `log` | do log files keep their order and lose the oldest lines only? | 2 writers, 2 logs, 3 lines, times 3 to 8 in periods of 2, 1 restart, 1 refused file operation | about 9,463,000 |
| `data` | do the libraries do what a reference says? | documents after 3 changes; replies of 2 logs out of 9 events and 8 declarations, with numbers of more bits than a float has; 15 methods, the ends of 2, 3, 4 and 6 bits, floats beyond the word | about 1,015,000 |
| `blank_reply` | a disagreement, see 5 | | stops at the counterexample |

Why the bounds are enough. Collectors do not touch each other's state, so one of them shows
all a collector does (the theorems hold for any set). Five blocks with ranges of two give a full range, a partial range and a range that
begins after a crash, at a start above 0. `Lag` 1 with `CommitBlockCount` 1 is the tight
case. Two crashes allow one during the recovery from another. Two actors, two events and one
crash give every overlap of one file: handled twice, removed under the other's feet,
recollected while being removed. `pipeline_live` has what its question needs: two committed blocks,
so that a failure gives up the second file of a listing, of two events each, so that it gives up the
second event of a file; that an actor turns to its other directories is in no live run. In `ChainAdmin` two clients meet in every step of a handler,
and two workers are the old one and the new one of an alias that was deleted and added
again; more of them need a third request. In `Session` four lines give a snapshot, a call, a
revert and a second revert, and with two names a revert to the earlier of two snapshots and
then to the one it made the node forget; two polls are the first and the last; one wallet has
its key in the settings and one in a key store. Its run has one line at a time (a user who
waits for the prompt) and reverts by name: what goes wrong otherwise is in 5 and among the
hazards. `U64` is far above the numbers counted with, as 2^64 is.

In `Repl` four lines open, continue, end and repeat a statement, with a history that is full
after two. All the lines together are too many for one user: `topic` says which half of them she
types, and only the first half is with the arrow keys, since the second is about what joins lines
and not about what a key brings back. In `Deploy` three lines are compose, an attempt that fails and one
that succeeds; the second contract needs the first one's address, either creation may be reverted, and
two packages have a source file in common. In `Signer` two requests race for one signer while a third
recovers or fails; two chain ids agree modulo `Width`. In `RotatingLog` two files beside `name.txt` are the
least with a rename in the loop; the times cover three periods, so that a rotation can be begun
again in the next period after a stop; three lines fill three files; writers do the same, so that
permuting them is a symmetry, and no property of the run is temporal. In `data`, three changes
make a document of depth three with null, arrays and dotted keys; two logs are one that
decodes and one beside it; 5 is a number that a float of two bits does not hold, as 2^53 + 1 is one
that a float64 does not, and stands alone and in a list; numbers lie on both sides of each width, and a
float beyond the word becomes what each of three kinds of machines makes of it.

CHECK_DEADLOCK FALSE in the `ChainAdmin` configurations: the process may end (`fate`), and
the bound on workers stops new requests; and where the bounds end what users, clients and
writers do: `Session`, `Repl`, `Deploy`, `Signer`, `RotatingLog` and `MCData`. The others
never stop.

### Properties

Type invariants are conjuncts of the first invariant of a run; `TypeOK` is one of its own.

* `NoEventLost`, `NothingSkipped`: what the cursor has passed is in a file (or handled).
* `CursorIsCommitted`: nothing newer than `commitBlockCount` deep.
* `NoTornFile`, `SavedUntilHandled`: a file is complete when it appears and stays until all
  of its events are handled.
* `CollectsBeyondCursor`, `HandledInOrder`: ranges do not overlap; block order.
* `EventuallySaved`, `EventuallyHandled`: liveness.
* `ImplementsFeed`: refinement. The mapping: `saved` is the set of
  blocks with a complete file, `cursor` the larger of
  `event.meta` and `startBlockNumber`, except while `event.meta` is being rewritten, when it
  is the number about to be written. The crash between truncation and write is thereby the
  abstract step `Forget`.
* `ListMatchesRegistry`, `LiveChainUntouched`, `CancelledWorkerStops`,
  `RegisteredChainCollects`: the API. The first speaks of the time from when the API is served until the
  process ends: before it, an alias whose entry does not decode is in the list only.
* `RevertRestoresVars`, `VarsOnChain`: a revert takes the chain and the `varStore` to the
  same moment, a failed one neither; no variable holds the receipt of an undone transaction.
* `SignerIsUser`: the key a call signs with is that of the address it puts for `${USER}`.
* `LineEnds`, `DeployEnds`, `EveryoneAnswered`: the prompt comes back; a request is answered.
* `FileKeepsUp`: a killed process loses fewer than `SavePeriod` entries, also of a full history.
* `StatementsAreWhole`, `RecalledOnOneLine`, `ScriptReadsTheSame`: a statement is what was typed up
  to the semicolon outside strings and brackets; the history brings it back word for word; a
  script of the same lines is the same statements, word for word. Words are half of it, as white space
  has a meaning in a body, so each says what becomes of that too. `RecalledOnOneLine`: it is where it
  was, and line ends are blanks, which makes another statement of a body with a comment in it (see 5).
  `ScriptReadsTheSame`: it is the same but in `curl` and `.catch()`, for which the two readers have
  different rules (see 5). They speak of lines that are `Tidy`
  (nothing after a semicolon, no backslash at the end) and, for scripts, of what both readers
  are meant to know (`InBoth`); what happens to other lines is in 5. `RecalledOnOneLine` is about
  statements with their semicolon on the last line, without a line of `curl` that begins with its path, in
  which no blank follows a backslash (`BlanksStay`): an entry of one line is kept without its blanks, and
  the backslash would then escape what came after the blank.
* `AddressIsOwn`, `CompleteIsWired`, `NoHalfCollection`: `varStore` has addresses of creations that
  the named entries sent; a deployment of everything leaves contracts that were created with each
  other's addresses, each of which stands, or has the status of its failure in the log;
  `deployedContract` is whole or untouched.
* `SignedAsAsked`, `OneSigner`, `OwnSignaturesRecover`: the signing service.
* `LinesInOrder`, `OnlyOldestDropped`, `OnePeriodPerFile`: the log files. `mixed` and `refused`
  name the logs for which the code promises less, and why.
* `DecodedAsEmitted`, `PanicsOnlyWhen`: what is saved is what was emitted, but for numbers that went
  through a float and do not fit it (`Precise`); and the logs that stop a collector.
* `ChangeIsFound`, `OthersUntouched`; `AskedIsPacked`, `NothingIsMadeUp`: documents and arguments.

### Fairness

Weak fairness for each goroutine (Go schedules every runnable goroutine; sleeps end) and for
the restart (the service is run by something that restarts it: an assumption on the
deployment); in `ChainAdmin` also for `Start`, since `main` goes on from starting the workers to serving
the API. Strong fairness of the requests, `Poll`, `Fetch`, `GetBlock`, `Deliver`: an
endpoint that is asked again and again does not refuse one request for ever; the code relies
on this, since all it does about a failure is to ask again in the next period. Strong
fairness of taking `lockMutex`: `sync.Mutex` hands the lock to a waiter that has starved for
a millisecond. `EventuallySaved` and `EventuallyHandled` have the premise that the node is at
last in sync: while it is syncing, the status is decoded into a copy and nothing is
collected.

`LineEnds` and `DeployEnds` have weak fairness of each line's own steps, `Proceed`: the event
loop runs what is ready, sleeps end, and a request is answered (the client sets no timeout, so
an endpoint that keeps a connection open for ever is excluded by assumption). Neither failing
nor mining is fair: the polling gives up by itself. `EveryoneAnswered` has weak fairness of
each request's goroutine (`Handle`); the lock is needed a bounded number of times, so nothing
stronger is assumed of it.

## 4. Proofs

### The collector

`EventPipelineProofs` proves, for every set of collectors, chain, range, lag and number of
crashes, under `SafeDeployment`:

`TypeCorrect`, `NothingLost` (`NoEventLost`), `CursorCommitted`, `FilesWhole` (`NoTornFile`),
`BeyondCursor` (`CollectsBeyondCursor`) and `CollectorImplementsFeed` (`ImplementsFeed`).

Assumptions: `ConfigAssumption` and `WidthAssumption` on the constants (block numbers stay
far below 2^64), and `SafeDeployment`: `commitBlockCount` is at least the lag between
backends, no backend is ever lower than `commitBlockCount`, a successful reply holds the
logs, the disk takes every write. Each of these is needed: the run `blank_reply` drops one,
and 5 says what comes of a short chain.

The argument. `NoEventLost` is not inductive: it says nothing of a cycle that is under way.
`IInv` adds, for each collector: what the goroutine counts from is the cursor, and the range
it works on is committed (`CursorInv`); each block of the range with events is either still in
`blockLogs` or saved, and when the range is done all are saved, so `event.meta` may be
overwritten (`SavedInv`); the lock file of the block being written is as far as the goroutine
is and names in a directory are unique, so that the rename publishes a complete file
(`DirInv`). The lag enters in `Fetch`: the range is committed, so even the slowest backend has
all of it. There is one lemma per action, `Next` combines them, and refinement is shown
step by step: `RenameLock` is `Save`, `TruncateMeta` is `Advance`, `Crash` is `Forget` or a
stutter, the rest stutters.

### The log files

`RotatingLogProofs` proves, for every configuration, set of writers, clock and number of restarts
and refused file operations: `TypeCorrect` (`RotatingLogTypeOK`, which includes that `lockMutex` is held by
the one writer at work, a panic notwithstanding), `InOrder` (`LinesInOrder`), `LosesOldest`
(`OnlyOldestDropped`) and `OnePeriod` (`OnePeriodPerFile`). Assumptions: the settings are natural
numbers (`ConfigAssumption`), clock readings are positive (`ClockAssumption`) and the clock does not
go back (`Tick`).

The argument. `TypeInv` adds that a call at work has a log, and one that rotates has files, so that
a move stays inside them. For the order, `OrderInv` adds that lines are numbered as they are
appended, so that a new line is younger than all (`NumberInv`); `FileSteps` says that every
step appends, drops the last file, moves one file up, or leaves the files alone, and `AfterDrop`,
`AfterMove` and `AfterAppend` what that does. `OnlyOldestDropped` is not inductive, since a
move replaces its target: `FreeInv` adds that the next target is free while no rename was refused.
It holds because the loop runs from the top down, and a rotation begun anew meets at most the
gap that the stop left. For the periods, `StampInv` says for each point of a rotation how the
time in memory, the `.meta` file and the lines of `name.txt` belong together (`Stamped`): no line
is of a period before the one in the file or in memory, except between `StampMeta` and
`ShiftFirst`, which is just where a stop or a refusal puts the log into `mixed`. (The lines may be of a later period than
`.meta`, when that could not be written.) `TimeInv` and `PeriodMonotone` carry the clock: a period
that is not over is the present one.

### Collectors and actors

`EventPipelineProofs` proves, for every set of collectors and actors, every assignment of
directories to actors and any number of events in a block, under `SafeDeployment`:
`PipelineSkipsNothing` (`NothingSkipped`), `ListingInOrder` (`HandledInOrder`), `SavedIsSafe`
(`SavedUntilHandled`) and `PipelineFeeds` (`PipelineImplementsFeed`: `EventFeed` of what is *kept*, that
is saved or handled; no run checks this one). `ActorAssumption`: an actor has a directory, a block an event.

The argument. The collector's `IInv` does not survive an actor, which removes files. `KeptInv`
is the same with a set of files that are gone, each of them handled: the lemmas about the
collector's actions are proved for it, whatever is gone, so that the collector alone
(nothing gone) and the pipeline (`Gone`) share them. `ListingInv` adds, for each actor, that its listing
is sorted, that what lies behind it is handled, and that the events of the file at hand are
delivered up to `nextEvent`; then `RemoveFile` takes away only what was handled. That the listing is
sorted is a fact about `getFilePaths`, an insertion by number that the model writes as a
recursive function: `InsertedAt` says what one round does, and the induction over the rounds is
done by hand with `LeastNumber` (a least round for which the claim fails), also for the
existence of the function.

### Decoding

`EventPipelineProofs` proves, for every set of contracts and events, every configuration of
interfaces and replies of any length, `RepliesLost` (`PanicsOnlyWhen`) and `SavedAsEmitted`
(`DecodedAsEmitted`), from `InterfacesAssumption`, `ArgumentsAssumption` and `FloatAssumption` (2.5). The
last one is all that is known of `Float64`: it keeps the numbers up to `MaxExact`.

The argument. The state is simple (`DecodeInv`: all that is emitted are logs of the contracts'
events, with arguments that fit), decoding is not. A place and its rank in a set of places are
inverse to each other (`Places`), and with the signature put before the parameters every rank
grows by one (`ShiftedPlaces`). So the n-th topic is that of the n-th indexed parameter of the
contract (`LogOf`), and the n-th argument decoded is that of the n-th indexed parameter of the
declaration (`OptionPlaces`): with the same parameters indexed they are the same one (`MatchPanics`,
`MatchDecodes`). Which declaration a log is decoded by is `EventOfLog`: equal signatures have
equally many parameters and strings at the same places, and a table holds an event under its own
signature only (`TableOf`), so that the first argument of an anonymous event finds none. `KeptAreOurs`
and `EventLogsOf` carry this through the filter of a reply and its blocks. At the end stands the way to
the file: a `Precise` argument comes out of `BigIntToText` and `ThroughFloat` as it was, of the others nothing
is claimed.

### The prompt

`ReplProofs` proves, for every set of lines, commands and drafts, every size of the history and
period of saving, and any number of lines and keys: `HistoryIsKept` (`FileKeepsUp`), `ReadersAgree`
(`ScriptReadsTheSame`), `NothingIsCut` (`StatementsAreWhole`) and `RecalledWordForWord`
(`RecalledOnOneLine`). Assumptions: `CharsAssumption`, `CommandsAssumption`, and
`ReplAssumption`, where `HistoryMax` is a multiple of `SavePeriod`, as 1000 is of 10.

The argument. For the history, `FileInv`: the file is a prefix of it and behind by what came since the
last multiple of `SavePeriod`; a full history has such a length, so that each entry which pushes out the
oldest is saved. For the readers, `ReaderInv` has the parser of a script, run over the lines
so far, where the prompt is (`InStep`): the same words, handed over and unfinished, the same scan, and white
space at the same places. Since the readers separate lines by rules of their own, that what they put
between two lines is of one kind has to be shown outside `curl` and `.catch(` (`Apart`): there a script
ends a line where a `.then(` or an open brace is in what came before, as the prompt does. For the
statements, `WholeInv` relates what is carried from line to line to the whole text (`WholeSoFar`): the
scan `Follows` the text when its quote, its escape and its depths are those read off it, where the
escape, one bit, stands for an odd number of backslashes; `Tidy` lines end with none of them, so that
the joint between lines escapes nothing. For the recall, `RecallInv` says that the lines kept for the
history scan and read as the unfinished statement does, with a blank where that has white space.

All of these are facts about recursive functions on sequences. The induction is done with sets in
the place of predicates (`AppendInduction`: a set with the empty sequence in it, and with every
element's successors), which the provers can instantiate.

### The administration

`ChainAdminProofs` proves, for every configuration, number of concurrent requests and of
workers, `ListIsRegistry` (`ListMatchesRegistry`) and `LiveIsUntouched` (`LiveChainUntouched`).
`AdminAssumption` says what a configuration is and that chains and workers are finitely many.

The argument. While the process starts, the list may have aliases that the registry has not; the API
is served (`fate = "up"`) only if `Start` found an entry for each of them. Between the two writes of a critical section list and registry differ, so
`RegistryInv` says what they are while the lock is held (`ListInv`) and that the request which
holds it found the registry as it needs it (`HandlerInv`): a lookup before the lock may be
stale, the one under it is not. `LiveInv` says that a request for a live chain never gets
past its lookup, that the chain has one worker, and that what this worker is about to write
is not behind its cursor; `CancelsInv`, that a chain's cancel function belongs to a worker
of that chain, so that stopping another chain stops none of its own.

### The signer

`SignerProofs` proves, for every number of requests, set of bodies, accounts and key files,
`OneOfEach` (`OneSigner`), `AsAsked` (`SignedAsAsked`) and `OwnAreRecovered`
(`OwnSignaturesRecover`), from `SignerAssumption` and `BodyAssumption` (what a body is made of).

The argument. `SignerInv` is about three things: the table and the signers, each of which is at its
chain and account (`TableInv`; a signer is never moved or removed); a request at
work, whose signatures so far are those asked for and whose signer is that of the pair at hand
(`WorkInv`), where one that is about to insert holds the lock and has found its place free; and the
replies (`ReplyInv`).

### The session

`SessionProofs` proves `SignerAgrees` (`SignerIsUser`) under `OneAtATime`, and `HeldIsOnChain`
(`VarsOnChain`) and `RevertRestores` (`RevertRestoresVars`) under `OneNamedChain`, for every set of
wallets, names, variables and commands. `OneAtATime`: the user waits for the prompt.
`OneNamedChain` adds that she works on one chain and reverts by name. Both are
needed: lines that overlap change settings under each other, a revert by id is in 5, and a
second chain is not undone with the first although the one `varStore` is. The cfg's instance satisfies
them (`MCSessionAssumption`).

The argument. `SessionInv` relates what a command keeps across an `await` to what is in force; key and address
differ only between the two assignments of `use`. `KeptInv` is about snapshots: those a node
still has are nested, and older than the chain (`SnapsInv`); a name stands for the `varStore` of the
moment its snapshot was taken, also when the node has forgotten the snapshot and a revert to it
fails (`NamesInv`); what the variables hold is on the chain, but between the node's answer to
a revert and the assignment that follows it (`StoreInv`).

### Deployment

`DeployProofs` proves, for every set of compose files, commands, prices and foreign
transactions: `OwnAddresses` (`AddressIsOwn`) for lines that overlap, `WholeCollections`
(`NoHalfCollection`) under `OneAtATime`, and `CompletedAreWired` (`CompleteIsWired`) under
`OneAtATime` and `ContractsInOrder`: contracts come after the one they need and have variables
of their own; without it, the code deploys them in an order that cannot work, or overwrites an address.
`ComposeAssumption` is the form of compose files. That the instance's contracts are in order is what
`CompleteIsWired` finds out, since it depends on how manifests are composed (the mutant
`PutLast`); `OneAtATime` is evaluated on it (`MCDeployAssumption`).

The argument. `AddressInv`: a receipt is found by the transaction itself, so what waits in
`receipt` is on the chain at its nonce, and what is mined stays; without the comparison by hash
(the mutant `HasReceiptOfNonce`) the address could be that of another program's contract. Whether there is
a contract at it is not said here, as the code does not ask.
`LoopInv` says where in the manifest a deployment is: what is left is the manifest from there
on, and the names gathered are those of the entries before it. `WiredInv`: every creation passed is on the
chain, has the address that `varStore` still has for the one it needs, and `Stands`: it was not reverted, or
its nonce is in `deployLog` since `Store`. What a manifest is made of
(`ManifestType`, `EntriesType`: its entries are a sequence and name variables) is proved
along the loops of `_compose`, by induction over contracts, sources, imports and packages.

### What is assumed, and what is only model-checked

Every assumption on constants is a named `ASSUME` of the module that declares them and is
evaluated by TLC in the runs; most of them say that `None` and its like are none of the values they are
told apart from, that sets of chains, workers or packages are finite and that counters are numbers.

Only model-checked: liveness and fairness (out of the prover's reach: `EventuallySaved`,
`EventuallyHandled`, `CancelledWorkerStops`, `RegisteredChainCollects`, `LineEnds`, `DeployEnds`,
`EveryoneAnswered`); and what the recursive operators of `JsonMap` and `AbiPack` compute, since
the SMT backend is lost in a module with a `RECURSIVE` operator and documents and arguments nest to
any depth.

## 5. Where code and documentation disagree

* `blank_reply` (a run): a reply with neither `result` nor `error` (an HTTP error page in JSON, a
  `"result": null`) is taken for "no events" and the cursor moves on (`logger.go:39`).

Seen on the way, without a run of their own.

Event logger:
* Below `commitBlockCount` the height wraps around and every block counts as committed
  (`worker.go:233`).
* A chain deleted right after it was added keeps its worker (`runner.go:64`; the comment at `:59`
  says StopChain stops all workers).
* A cycle in flight overwrites the cursor the API has set (`worker.go:279`; the comments at `:139`
  and `:156` ask for the opposite).
* Collecting starts at the block *after* `startBlockNumber` (`worker.go:252`;
  `src/doc/plugins.md:336` calls it the block where collecting starts).
* Events: `address indexed` without a name is read as a parameter called `indexed`; `uint` is
  not written out as `uint256`, so that the event is never recognised; parameters without names or
  with one name overwrite each other, and one called `method` hides the signature
  (`abiCompiler.go:10-41`, `decoder.go:98-106`). The branch for an event that decodes to nothing
  (`eventLogger.go:194`) is never taken, since the signature is always there.
* Numbers: a big integer is saved as text, so that no error of a float gets into it
  (`eventLogger.go:181-190` and its comment), but on the way to the file every other number becomes a
  float64 (`convert.go:312-328`): an `int64` or `uint64` beyond 2^53 is rounded, and so is a big integer in
  a list, of which only the list itself is looked at.
* An alias that is listed, but whose entry does not decode, is skipped in the registry
  (`eventLoggerPreferenceV2.go:92-99`) and started all the same: `main` dereferences nil when it starts the
  actors (`eventActor/worker.go:11`) and the process ends, at every start.
* Logs: a section missing from `log.yaml` has an empty path and never rotates; without the file
  every write returns false and nothing says so; the time printed in a line is read before the
  lock; errors of the writes are dropped, so that a line which is refused is lost (`private.go:88-96`,
  `file.go:14-22`); an empty `.meta` file stops rotation for good (`private.go:24`).

Session:
* A revert to the id of a snapshot whose name was used again leaves the `varStore` as it is
  (`src/src/core/command/snapshot.js:94`; `src/doc/commands.md:330` and `:334` promise both).
* `.then()` stores the receipt of a transaction that was reverted
  (`src/src/core/chain/executeQuery.js:485`; `src/doc/dsl.md:194` sends it to `.catch()`).
* `snapshot` in a script always fails, as the script's own arguments are handed to it
  (`src/src/core/command/sh.js:99`); `sleep` in a script is never reached (`:146`).

Prompt:
* A statement is cut at the first semicolon of a line, be it inside a string or brackets
  (`src/src/core/cli/multiline.js:110`; `src/doc/dsl.md:72`).
* The history shows a statement of several lines on one, with blanks for the line ends
  (`src/src/core/cli/history.js:105`), and that line is what runs again. Where a line end means something, it is
  another statement then: the rest of a `.then()` body is in its first `//` comment
  (`src/doc/dsl.md:164-168` has one), lines that end in no semicolon run into each other, and a string
  with a line end in it has a blank. A body with semicolons at its line ends loses them one by one as it is
  typed; when it comes back, all that follows the first of them is lost. A `curl` path on a line of its own
  comes back with a blank before it.
* Prompt and script separate the lines of a statement by rules of their own. After `.catch(` a script keeps
  line ends (`multilineParser.js:98`) and the prompt does not; in a `curl` with `-d`, `-H` or an open string the
  prompt does (`multiline.js:123-133`) and a script does not; a script takes the white space out of
  `) .` and `. name (` in a `curl` too, in its data as anywhere (`multilineParser.js:137-139`); an empty line before
  the path of a `curl` leaves a blank in it at the prompt.
* `event` may take several lines at the prompt only (`multilineParser.js:201`;
  `src/doc/dsl.md:49-51`). A backslash at the end of a line escapes the first
  character of the next one. A closing bracket too many never completes. A string left open on a
  line with a semicolon does not begin a multi-line input, so that a command word discards it
  (`lineHandler.js:44`).
* Down after two Ups does not bring back what was typed, and Down erases a typed line
  (`readline.js:26`, `:42`). With `multiline` off an entry gains a semicolon each time it
  is recalled and run.

Deployment:
* An error of the nonce request makes the nonce undefined (`src/src/lib/deploy.js:84`), and
  "nonce too low" is taken for sent: the receipt found is that of an identical creation before.
  `AddressIsOwn` holds with it.
* The status of a receipt is not looked at (`deploy.js:151-165`): of a creation that was reverted when it
  was mined, the address where no contract is is stored and handed to the contracts after it, and the
  command ends with "Complete!"; the screen and the log have the status. With `customChain.gasLimit` set no
  estimate is made that might have refused it (`src/src/lib/deploy.js:106-118`).
* Contracts are deployed in the order of source files in the manifest, where a later package's entries
  for a source file replace an earlier one's (`compose.js:29`, `:172`; `src/doc/commands.md:301`
  promises the order of the compose file).
* A deployment of some contracts drops the ABIs of the others; `currentCollection` is read at the
  end (`deploy.js:175`); an unreadable output of the compiler leaves the old manifest; two compose
  files of one collection share it (`command/compose.js:21-28`).

Signer:
* The error of hashing a domain or message is dropped, so that what is signed does not depend on it:
  a chain id from 2^63 on, or a value that cannot be encoded (`signer.go:220`; `src/doc/plugins.md:129`).
* Wide JSON numbers are rounded on their way through a float (`routers.eip712DataSign.go:77`),
  arrays of numbers refused (`:84-98`), chain ids that are equal modulo 2^64 share a signer
  (`signer.go:72`), and requests that panic before the handler of errors is deferred get a
  bare 500.

Libraries:
* `AbiPack`: what a JSON number of 2^64 or more (2^63 for `int`) becomes as a type wider than 64 bits is
  left to the machine (`to_xxx.go:294-297`, `:340-343`); a list of fixed arrays or of `bytesN` panics
  (`:167-184`).
* `AbiPack`: a missing key is packed as address zero, or looks a tuple up in the outer map; numbers
  beyond 64 bits wrap around before they are compared with their type; types wider than 64 bits
  are not checked at all; `bytesN` can never be packed; the limit on the length of strings
  (`to_xxx.go:108`) never applies.

## 6. Plan

1. *done*: `EventCollector` and `RotatingLog` with their proofs, `EventActor`, `EventPipeline`,
   `ChainAdmin`, `Session`, `Statements` and `Repl`, `Deploy`, `Signer`, `EventDecode`, `JsonMap`,
   `AbiPack`.
2. *done*: proofs for `EventPipeline`, `ChainAdmin`, `Signer`, `Session`, `Deploy`, `Repl` and
   `EventDecode`. To come: `JsonMap` and `AbiPack`, with functions on documents of bounded depth.
3. `Session` with two chains, `Deploy` with lines that overlap and together with `Session`;
   `ChainAdmin` with several collectors of a chain and with changes of `path`.

### Not modelled

`common/sem`, `common/event`, `common/signal` and `common/utils/json/indexer`: nothing imports them.
View calls, `set`, `import` and `export` of the session: they read, or change one setting. The
JSON-RPC client, the loading of YAML, query builders and generated tables: input and output.
Errors of file operations in the collector (`DiskFaults`) are in the model and in no run.

## 7. Checking it

```
tlc -workers 2 -config MCEventCollector.cfg MCEventCollector
tlapm LeastNumber.tla
tlapm EventPipelineProofs.tla
tlapm RotatingLogProofs.tla
tlapm ChainAdminProofs.tla
tlapm SignerProofs.tla
tlapm SessionProofs.tla
tlapm DeployProofs.tla
tlapm ReplProofs.tla
```
