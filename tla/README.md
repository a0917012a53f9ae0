# A TLA+ verification of TokenSlim

TokenSlim shortens the output of development tools before a model reads it.  A
hook of Claude Code or Codex (or `tokenslim optimize`) hands it the output of a
command; it classifies the command, reduces the text, stores the original in a
content-addressed cache, appends a marker that names the original, and gives the
result back.  Later `cache inspect`, or a model through the MCP server, reads the
original again.  The program promises never to lose output: whatever fails, the
host keeps what it had or has a shortened text whose original can be recovered.

The modules here model the parts of the program where that promise can break, and
check or prove that it does not.  Source paths below are relative to the
repository's root.

## 1. Inventory

| component | source | state | operations | modelled by |
|---|---|---|---|---|
| Cache of originals | `internal/cache/cache.go`, `read*.go`, `rename_unix.go` | a directory of `ts_<sha256>.zst` and `.json` files, no lock | `Put`, `Get`, `Prune`, `Clear` | `CacheStore`, `OriginalStore` |
| Windows file replacement | `internal/cache/rename_windows.go`, `read_windows.go` | none | retry a sharing violation for two seconds | `ReplaceFile` |
| Engine | `internal/engine/engine.go` | the `Result` of one call | `Process`: gates, reducers, guard, marker, `Put`, `Prune`, metrics | `Invocation`, `Marker` |
| Hook adapters | `internal/hook/hook.go` | none | `RunAgent`, `runCodex` | `Invocation` |
| Metrics | `internal/metrics/metrics.go` | a directory of one JSON file per invocation | `Write`, `Read`, `Total.add`, `Debug` | `Metrics` |
| Recovery service | `internal/recovery/recovery.go` | none; the client keeps `next_offset` or `next_line` | describe, page, range, search | `Recovery` |
| MCP server | `internal/mcp/server.go` | `initialized`, `ready`, the input buffer | `Serve`, `call` | `McpServer` |
| CLI | `cmd/tokenslim/main.go` | none | `run` | the cache commands in `CacheStore`, `optimize` and `benchmark` in `Invocation`, `--mode` in `ConfiguredInvocation` |
| Configuration | `internal/config/config.go` | none | `Load`, `merge`, `Validate`, `Key` | `Configuration` |
| Reducers, integrity guard | `internal/compressor/*.go` | none (pure) | `Compress` and its passes, `IntactFor` | `Reducer` |
| Custom rules | `internal/rules/rules.go` | none (pure) | `Compile`, `MatchesCommand`, `Key` | `Rules` |
| Classifier | `internal/classifier/*.go` | none (pure) | `Detect`, `BuildReduction`, `PHPReduction` | `Classifier` |
| Report | `internal/report/report.go` | none (pure) | `Build`, `Render` | `Build` in `Metrics` |

How they interact.  A hook process runs adapter, engine, cache and metrics as one
sequence of calls, and the host kills it at a timeout (`hooks/hooks.json:10`).  Any
number of hook processes, `cache prune`, `cache clear`, `stats`, `report`, readers
and MCP servers share two directories.  There is no lock; each file appears by
`rename` and goes by `unlink`.  The MCP server is a sequential loop between a client that
writes whenever it likes and a cache that others change.

What is hard there, and what makes each part correct:

- *Cache.*  A sweep decides on sizes and times it read earlier, while others write,
  sweep and clear; an entry is two files that appear and go one after the other;
  writers can be killed in between.  Correct: a read returns exactly the original or
  an error it is entitled to; a hook's own sweep spares the original it is about to
  name; an undisturbed sweep meets its budget and takes the oldest first; a
  successful clear left nothing; every call returns.
- *Engine and adapters.*  Some fifteen places where an invocation gives up, each of
  which must leave the host's output alone, and two channels for the result.
  Correct: nothing is lost; the record tells what happened; a dry run touches
  nothing; what is stored can be read.
- *Marker.*  It states the size of a text that contains it.  Correct: that size is true.
- *Metrics.*  Records are committed while summaries read.  Correct: each record is
  counted exactly once and none is seen half-written.
- *Recovery.*  A client pages through bytes that are characters, or through lines,
  while the entry may be replaced.  Correct: pages tile the text, searches and ranges
  miss nothing, a client is never stuck.
- *Reducers and rules.*  Several passes over the lines of a text, each with counters it
  must flush, windows of two lines and states that must not be left again.  Correct: the
  lines behind the markers and the others are all the lines that were read; only whole success records of the one
  program that ran are left out, and none once a diagnostic has begun; lines that are
  joined differ in nothing but what the rule ignores; the guard accepts all of it.
- *Configuration.*  Three layers and a flag, merged as YAML nodes.  Correct: whatever
  says "off" last is obeyed, and nothing is off that nobody switched off.
- *Replacement on Windows.*  A refused rename or open is tried again until a deadline.
  Correct: each call returns, not too early and not after too many tries, a file that is
  let go in time is replaced, and readers never find it missing.
- *MCP server.*  A client may pipeline, repeat or reorder the handshake.  Correct: one
  reply for each line that wants one, in order and under its id; tools only after the
  handshake; no line holds up those behind it.

`PROJECT.json` lists the hazards one by one, at the line where each bites.

## 2. Plan

Done first, because the program's promise rests on them: `OriginalStore` and
`CacheStore`, then `Invocation` (which uses the store and the
marker through what they promise) and `Marker`, then the readers' side,
`Recovery`, `McpServer` and `Metrics`.  Then what `Invocation`
takes for granted: `Classifier`, `Rules` and `Reducer` for the texts it is given back,
`Configuration` and its composition with it, `ConfiguredInvocation`, for the switches;
and `ReplaceFile` for what `Atomic` does on Windows.  Every safety property of a passing
run is now proved (section 5).  Next:

1. Proofs: that `Metrics` implements a counter per session and `Recovery` a reader that
   goes through a text once from left to right.
2. Composition: a reader of `CacheStore` behind `McpServer` and `Recovery`, so that
   what a client was told in one call holds in the next.

Abstract specifications worth stating: `OriginalStore` (stated), and the two of item 1.

## 3. Modules

### CacheStore and OriginalStore

`CacheStore` is the directory and the processes that share it.  A step is one system
call that reads or changes a name.  `zst`, `meta` and `mtime` are the files of each
reference: `zst[r]` the decoded contents or `Garbage`, `meta[r] = b` a
record with the id and length of `b`.  `pc`, `ref`, `body`, `names`, `items` and
`total` are the local variables of `Put`, `Prune`, `Clear` and `Get`; `lost` and `seen`
are history.  A hook is `HookBegin`, `PutZst` and `PutMeta`, the sweep with its own
reference as `keep`, and `Emit` (`engine.go:141-158`); it leaves by `TooLarge` when the
original or its compressed form exceeds the limit of `Put`, by `PutFail` when a system call fails.  `PruneList`, `PruneScan`,
`PruneKeep`, `PruneDropZst`, `PruneDropMeta`, `PruneEnd` and `PruneFail` are the three
parts of `Prune`: `ReadDir`, `Info` and `Stat` for each name, and the loop over the
entries sorted by time.  `ClearBegin`, `ClearRemove`, `ClearFail`, `ClearEnd` are
`Clear`; `GetBegin`, `GetOpen`, `GetMeta`, `GetFail` are `Get`.  `Atomic`'s temporary
file has no entry's name, so writing it and renaming it is one step.  `Crash`, `Tick`
and `Damage` are the world: the host kills a process, time passes, somebody edits,
exchanges or removes a file.

`OriginalStore` says what a holder of a marker is promised: a successful read returns
the original with the asked name; a read fails only if the original was not there
when asked for, was disturbed since, is longer than the reader accepts, or a system call
failed.  `CacheStore` implements it under the mapping in `Promise`: `held` is the set
of references whose two files agree, `steady` says that nobody took a file since the read began.

### Invocation

One run of `RunAgent`/`runCodex` or of the commands `optimize` and `benchmark`, from
the input to what the host has in the end.  Texts are their sizes.  `Start` is the
adapter up to `Process`; `Refuse` and `Pass` the gates in their order; `Reduce` the
reducers, the guard and the checks after them, where the reducers return any sizes;
`Put`, `PutFails`, `Build`, `Record`, `Deliver` the rest of `Process`
and the adapter's write; `Panic` and `Kill` may end it earlier, the former by way of the
deferred record (`unwind`), behind which a hook recovers and a command dies.  `host` is
what the host has.  A hook that declines leaves it its own output; whoever reads
`optimize` has nothing at first, gets the text reduced or not (`Deliver`), or a file that
is too long unread (`Copy`), and a failing write (`WriteFails`) leaves him a part.  The store is a set of entries
(`Put` replaces the entry of the same original and its sweep removes any others, which
is what `CacheStore` shows of it), the marker a constant length (which `Marker` justifies).

### Configuration and ConfiguredInvocation

A document is a function from paths (sequences of `Keys`) to `map`, `null` or the text of a
scalar, and a tree: what lies below something lies below a mapping.  `Merge`
is `merge` on two of them, `Merged` the three layers, `Decodes` (every setting there is) and `Field`/`EntryField`
the decoder over the defaults: a null leaves a field, empties a map, and leaves or zeroes
an entry of a map as it is or is not one of the defaults.  `Valid` is `Validate`, `Key`
the name a family is configured by, and `Loaded` what `Process` then reads.
`ConfiguredInvocation` starts `Invocation` from two files and the `--mode` flag; its
steps are those of `Invocation`.

### Classifier, Rules and Reducer

`Classifier` has the three functions of its package on a command as a sequence of words
and a Boolean for quotes and shell operators.  Beside them stands what the two reductions
are for, said without them: `Programs`, the programs that the words may turn out to run
when each switch that is not known may or may not take the next word (`Operands`), through
the wrappers and interpreters, and `Prints`, whose records a program prints.  `Rules` is `Compile` and `Rule.Key`; a
regular expression is the set of lines it matches with the spans of its captures, and a
key is a sequence of bytes with a NUL for each ignored capture.  Beside it stands what
it is for: two lines are `Alike` when as many captures are cut out of them and the same
bytes stand behind each of the cuts (`Pieces`).

`Reducer` runs `Compress` on one stream.  `Compile` accepts or refuses the rules and
settles the `context`: the family, the reducer and the rules of the command.  `pass` says which pass runs, `lines` is what it
reads, `pos` the next line, `out` what it has written, `count` and `diagnostic` are its
local variables.  `SanitizeLine`; `Omit` and `Keep` for `reduceBuild` and
`reduceSuccess`, which differ in what begins a diagnostic (`Begins`) and in what is a
success record (`RecordAt`); `GroupLogs`; `PassBy` and `Aggregate` for `aggregateRules`;
`Repeat`; `Return`; and `GuardLine`, `Refuse` and `Accept` for `IntactFor`.  A line is a name with what the regular
expressions say of it; the rules read a group of log lines as `groupLogs` writes it, with
its suffix (`Written`), and may join it with others.  The guard looks for a line's bytes anywhere behind the last
place, the model only at whole lines, so it refuses whenever the code does.

### ReplaceFile

`Begin`, `Refused`, `Rename` or `Open`, `Check`, `Wake` are `retrySharing` around the
rename of `Atomic` and around the open of `Get`.  Other programs (`Hold`, `Release`)
have the file open, for themselves or sharing everything but renames; a reader's own
handle may or may not let a rename pass.  A tick takes one off what is left until each deadline
and each sleep's end, and may come between any two steps.  `Delay` and `Slept` are the
delays and their sum, as recursive functions; `MostTries` is how many fit into a deadline.

### Marker

The loop at `engine.go:126-135` with `len` written out: `body` is the reduced text,
`fixed` the marker without the number, `finalSize` the program's variable.

### Metrics

`Create`, `Fill`, `Commit`, `Unlink` are `Write` with its deferred `Remove`; `List`,
`ReadOne`, `ReadEnd` and `ReadFail` are `Read`, `Add`, `AddRule` and `AddTo` its sums, in all, by family,
by rule and by reason, and `Build` is what `report` makes of them.  `os.CreateTemp` draws a number and draws again only
while a file with that very temporary name exists; `MayRepeat` says whether a number
can come back after its file was renamed.

### Recovery

`Page`, `LineRange` and `Search` are the three functions of `Service.Call` on a text given as
lines of characters, each its width of one to four bytes; the client follows
`next_offset` and `next_line`, each time with another size, range or limit.
`Prune` and `Store` change the entry between two calls, `auto` follows its format.

### McpServer

`Send`, `Close` and `CacheChanges` are the client and the other processes.  The other
actions are one turn of `Serve`'s loop for each kind of line; `Outcomes` are its
switches, `LegalCall` the argument checks of `call` against `tools()`.  A reply may
fail to be written, which ends the server.

## 4. Runs

All bounds are constants of the modules and are set in the `.cfg` files.

| run | instance | shows |
|---|---|---|
| `cache_store` | scene one: a hook and a `cache prune`, three originals, clock to 1, kills; scene two: a hook and a reader, three originals, damage to `a` and `c`, kills; scene three: a `cache prune` and a reader, one original, damage to it, clock to 1, kills; no failing system call | `TypeOK`, `SweepMeetsBudget`, `EmittedUnlessTaken`, `SweepTakesOldest`, `ImplementsPromise` |
| `cache_clear` | a hook, a clear and a reader, two originals, I/O errors, kills, fairness | `ClearLeavesNothing`, `EveryCallReturns` |
| `cache_stale_sweep` | two hooks without a size limit, clock to 2 | finding: `RetentionIsKept` is violated |
| `replace_file` | a write, a read and another program, delays 1, 2, 3 within a deadline of 6, I/O errors, kills, fairness | `AlwaysReadable`, `WaitsToTheDeadline`, `FewTries`, `EveryCallReturns`, `ReplacesOnceFree` |
| `metrics_stats` | two writers, one summary, two records of four outcomes, no number twice, I/O errors, kills | `NoneIsGarbled`, `SummaryIsExact`, `ReportAddsUp` |
| `metrics_collision` | two writers, three records, a number may come back | finding: `EachInvocationCounts` is violated |
| `recovery` | texts of five and three lines with characters of one to four bytes, pages of up to 7 bytes, three lines | `PagesTile`, `LinesAreComplete`, `NeverStuck` |
| `text` | every text of up to four lines (more where the alphabet is smaller) for each kind of loop, simple, wrapped and compound commands, switches known and unknown, lists of rules, over grouped logs too; for the marker every size within some 25 of a power of ten, the shortest and the longest marker text and one between | `ReducerTypeOK`, `GuardAccepts`, `EveryLineCounted`, `OnlySuccessOmitted`, `DiagnosticBodyKept`, `RuleEffectsMatch`, `OmissionHasOneProducer`, `AggregatedAlike`, `MarkerIsTrue` |
| `reducer_rules` | two rules, every text of up to four lines over three | finding: `FirstRuleOwns` is violated |
| `invocation` | every host and command and six shapes of output under every file that sets one thing, three requests under every two files, with `--mode` | `NothingIsLost`, `RecordIsTrue`, `StoredCanBeRead`, `SwitchesAreObeyed`, `NothingElseIsOff`, `DryRunTouchesNothing` |
| `invocation_off` | the same requests with a compressor's own mode | finding: `OffIsOff` is violated |
| `mcp` | a client that writes up to three of 22 lines, at any pace, while the cache changes, fairness | `RepliesMatch`, `LifecycleIsKept`, `EveryLineIsRead` |

`cache_store` takes the processes and faults of `CacheStore` in three scenes (`MCCacheScenes`):
a sweep, a reader, damage and the clock at once have too many states.  The proofs are
about `Spec`, which has all of them.  No system call fails in this run, because
then, and only then, the promise has no excuse for a read that fails: `IOMayFail` is
false, and each refusal of `Get` must be one that `OriginalStore` allows.  System calls
fail in `cache_clear` (`FairNext`), where nobody asks for a malformed reference: it is refused before
anything is read, which scenes two and three show.

Why the bounds are enough.  Three originals are the least for which "oldest first"
and `keep` both matter: any two of `a`, `b` and `c` fit the budget of scene one and
the three do not, so that a hook's sweep keeps the one it stored and takes the older of
two others.  What a clock of 1 makes old is expired for the
hook, whose retention is shorter than for the `cache prune`, which goes by the budget.  In
scene two and in `cache_clear` two originals exceed the budget together, and one of them is
too long for the reader; two are enough for what one reference does to another.  `b` is
too long for the hook of scene two.
In `metrics_stats` two writers and a summary give
each order of commit, listing and read, with two sessions and two families.
Page sizes around the widths 1 to 4 cut every character at every place.  The sizes of
`invocation` lie on both sides of each limit: input, original and text above and below
`max_input_mb`, the hard cap, empty streams, savings around both percentages.  Three lines hold
initialize, the notification and a call in every order, and each of them repeated.
Four lines hold a record before and behind a diagnostic, a RUN separated from its PASS, a
group with what ends it on both sides, and the loops of the reducers keep nothing else
from line to line; two groups of one rule need more lines, which is why two short lines
make texts of up to seven.  Delays 1, 2, 3, 3 have what 5, 10, 20, 40, 50, 50, ...
ms have: doubling, a cap, and a last sleep that the deadline cuts short (with the program's
numbers `MostTries` is 44).
Two files of `invocation` set the same switch or two that interact; a third layer
is the default.

Deadlock checking is off in every run: an invocation, a client or a bounded clock
really stops.

Fairness.  `cache_clear` assumes weak fairness of `Proceed(p)` for each process: the
operating system schedules every process, and the code between two system calls is
sequential and does not wait.  Starting another call, kills, ticks and damage are not
fair, and neither is a system call that fails: `Proceed(p)` holds the steps in which the
call in hand succeeds, `Fail(p)` those in which the system refuses it.  `mcp` assumes weak fairness of `ServeStep` only: the client owes nothing.
`replace_file` assumes that time passes and that each call in hand is scheduled; nobody
has to close the file, no call has to begin.

### Findings

- `cache_stale_sweep`: `Prune` decides by the modification time it read before its
  loop (`cache.go:206`, `228`).  If another hook stores the same original again
  meanwhile, the fresh entry is removed as expired, perhaps just before its marker is
  out.  With retention alone this removes what is younger than every retention.
- `metrics_collision`: the name of a record is drawn against the temporary files only
  (`metrics.go:45`), so a number drawn again after its record was committed replaces
  that record (`metrics.go:58`), against "Each invocation counts separately"
  (`docs/reports.md:43`).  The numbers have 32 random bits and "Metrics retention is manual"
  (`docs/architecture.md:48`), so a directory of 77,000 records has lost one with
  probability one half; the run shows that nothing but chance prevents it.
- `invocation_off`: for `terraform` the mode is forced to `safe` after the compressor's
  own mode was taken (`engine.go:84-90`), so `compressors.terraform.mode: off` does not
  switch it off, against "Per-compressor mode and enabled settings still apply to the
  entire pipeline" (`docs/custom-rules.md:99`).
- `reducer_rules`: `aggregateRules` asks only the rule of a group's first line for the
  keys of those that follow (`compressor/rules.go:42`), so a line whose first matching rule is
  an earlier one joins the group of a later rule, against "The first matching rule in
  configuration order owns the line" (`docs/custom-rules.md:64`).

Observations, which no document speaks against:

- The marker of the vitest reducer ("passed test files omitted") holds the diagnostic words
  `test files` (`compressor.go:73`); `aggregateRules`, which runs behind it, takes it for a
  diagnostic and no custom rule applies to what follows (`IsDiagnostic`).
- A null in a configuration file takes back what a lower layer says, and so does any scalar
  where a mapping belongs: `merge` replaces the whole mapping by it (`config.go:189`).  Such
  an entry in the global file and a partial one in the project's give an entry of zero
  values, a disabled compressor.  `SwitchesAreObeyed` speaks of switches on whose way
  there is no null, `NothingElseIsOff` of those whose way is a mapping in each layer
  (`Unbroken`).
- `composer update phpunit/phpunit` is detected as `php-test`, by its last word, and
  reduced as `composer`: the switches of `compressors.composer` do not apply to it.
- A process killed inside `Atomic` or `Write` leaves a `.tmp-` file that nothing removes.

## 5. Proofs

The theorems of `CacheStoreProofs`, `InvocationProofs` (with `ConfiguredInvocation`),
`McpServerProofs`, `MetricsProofs`, `RecoveryProofs`, `ReplaceFileProofs` and `TextProofs`
(`Reducer`, `Rules` and `Marker`) hold for every value of the constants that satisfies the assumptions
in the modules, so for any number of processes, originals, configurations, texts, lines,
limits and faults.  They state every invariant and every action property of the passing
runs, and the refinement; what the runs show on small instances they show in general.

*Sums, runs and sequences.*  `FoldProofs` has what the other modules need of the folds.
`FoldFunctionOnSet`, `FlattenSeq`, `Delay` and `Slept` are recursive functions, and such
a function exists by induction over the subsets of a finite set or over the naturals, which
the least element of a set of naturals gives (`Upwards`, `OneByOne`).  From there a sum grows by what is added to the
set (`SumAdd`, `SumGrow`), a tally over a sequence by its next line (`TallyStep`), and
a concatenation by its last part (`JoinedStep`).

*The cache.*

- `Typing`: `Spec => []TypeOK`.
- `StoreInvariant`: `Spec => []StoreInv`.  `EmittedUnlessTaken` is not inductive: it
  says nothing of a hook between its two writes, nor of what its sweep is
  about to remove.  `StoreInv` adds `HookKeeps` (the files of a hook's reference hold its
  bytes from the write on while `lost` is false, and an entry about to lose its `.json`
  is not the hook's own) and `ReaderKnows` (what a reader holds is acceptable, and its
  reference is held while nobody took a file).  The proof goes action by action: a
  write by another process can only write the same bytes, since references determine
  originals; a removal by another process sets `lost`; the process's own removals
  concern other references.
- `MarkersAreBacked`: `Spec => []EmittedUnlessTaken`, from it.
- `StoreImplementsPromise`: `Spec => Promise!Spec`.  Each step maps to `Store`,
  `Disturb`, `Ask`, `Refuse`, `Answer`, `Fail`, `Leave` or to a stutter; `ReaderKnows`
  shows that `GetOpen` and `GetMeta` fail only where `Fail` may.
- `ClearsEverything`: `Spec => []ClearLeavesNothing`, from `ClearInv`: while nobody wrote
  since it listed the directory, every file that is there is one the clear has still to
  remove.  A step of anybody else removes files, changes none, or is a write that the clear's
  `seen` records (lemma `NextIsDistant`); the clear itself takes a name off its list only
  together with the file.
- `SweepsMeetTheBudget`, `SweepsTakeTheOldest`: `Spec => []SweepMeetsBudget` and
  `Spec => SweepTakesOldest`, from `SweepInv`.  At the end of a sweep nothing is left to
  see of how it came about; `Tracks` says at each step that an entry of the directory has
  still to be collected, or waits to be decided, or stays for good, and that the running
  total is the sum of the sizes of those collected.  `Half` is the same between the two
  removals of one entry, when the `.zst` is gone and the total has it still.  Both hold
  only while the sweep is undisturbed, and a step of anybody else disturbs it or leaves the
  directory alone.

*Metrics.*

- `InvocationsCount`, `RecordsAreWhole`, `SummariesAreExact`: if `MayRepeat` is false,
  `Spec => []` of `EachInvocationCounts`, `NoneIsGarbled` and `SummaryIsExact`.  With
  `metrics_collision`, which violates the first when a number can be drawn again, this says
  that a repeated number is the only way to lose a record.  `MetricsInv` relates the three
  sides: each file is named by the number drawn for its record, a number bears the temporary
  file or the complete record and never both (`FilesInv`); active writers own different
  numbers and find their own record under it (`WritersInv`); a summary has counted or has
  still to read what was there when it began, and nothing twice (`Reads`, `Counts`).
- `ReportsAddUp`: if `MayRepeat` is false, `Spec => []ReportAddsUp`, from `BooksInv`: each of
  a summary's tables is a sum over the records counted so far, of all, of a family, of a
  rule or of a reason, and each of them grows by one record at a time.  Only then
  are the sums of the tables equal.

*Texts.*

- `MarkersAreTrue`: `Spec => []MarkerIsTrue`, from `MarkerInv`: after the first round the guess
  has as many digits as `body + fixed` or one more, it does not shrink, and the third
  round settles it.  So five rounds are always enough and the loop never gives up.
- `GuardAlwaysAccepts`, `EveryLineIsCounted`, `BodyIsKept`: `ReducerSpec => []` of
  `GuardAccepts`, `EveryLineCounted` and `DiagnosticBodyKept`, from `Ledger`.  The guard
  follows two texts at once, and nothing about a single pass implies that it succeeds.
  `Ledger` says what each written line stands for: the lines of the input from where the
  lines before it end (`UpTo`), for an unmarked line copies of itself, for a marked one lines
  that the guard does not look for and none behind the first alarm (`Speaks`, `Faithful`).
  Each pass keeps this line by line and hands on a text that stands for all of the input
  (`Handed`).  What a rule's marker says of them is less: it counts the lines as `groupLogs`
  wrote them, which are as many as the lines read unless a group is among them.  In the guard the cursor is never beyond the line that stands for the one
  looked for (`Found`).  A blank text that `Return` gives back as it was is the one
  case without such books (`GivenBack`).
- `ReducerTyped`, `EffectsAreTheMarkers`: `ReducerSpec => []` of `ReducerTypeOK` and
  `RuleEffectsMatch`, from `Effects`: while the rules run, `effects` has for each rule as many groups and
  lines as the markers in `out` tell of it (`Books`).  After that it has those that the markers
  in `lines` tell, and `Repeat` carries them over: what `out` tells is what `lines` told
  before `pos`, since no two markers of a rule are equal neighbours that could be joined.
- `JoinedLinesAreAlike`: `ReducerSpec => []AggregatedAlike`.  A key can be read back
  (`KeyReads`): it has a NUL for each ignored capture, and what stands behind the k-th are
  the bytes behind the k-th cut; so equal keys tell lines that are alike (`KeysTell`).
  The marker names the rule by its name, which `Accepted` makes unique and picking the rules
  of a command keeps so (`ThoseNamed`).  What is alike are the lines as they are written,
  with the suffix of a group.
- `OneProducer`: `ReducerSpec => []OmissionHasOneProducer`.  `Marked` says of what every
  pass reads and writes that a marker of omitted records is there only under a reducer of such
  records, and that the context is the one of the command.  Then the words that
  `BuildReduction` and `PHPReduction` accept are followed to the program they run: a switch
  that is known leaves one way to go on (`BehindSwitches`), and no other is passed over before
  the program or its verb is found, so every reading ends there (`VerbFound`, `ProgramFound`,
  `BuildPrograms`, `PhpPrograms`).  That a pass over runs of lines goes on behind the run (lemma `RunEnds`) rests on
  the well-ordering of the numbers.
- `OnlyRecordsAreOmitted`: `ReducerSpec => []OnlySuccessOmitted`, from `OnlyRecords`: while no
  diagnostic was seen, no line before `pos` begins one.  The step that needs an argument
  is `Omit` on a pair of go, whose second line is never looked at by itself.

*Invocations and their switches.*

- `NoOutputLost`, `RecordsAreTrue`, `StoredIsReadable`: `Spec => []` of `NothingIsLost`,
  `RecordIsTrue`, `StoredCanBeRead`; `BenchmarksAreDry`: `Spec => DryRunTouchesNothing`.
  All four follow from `InvocationInv`, which carries from step to step what the four
  only ask at the end: the cut is within the budget and empties no stream (`Reduced`),
  the entry with that size is stored before the result is built (`IsStored`), and a
  changed result has exactly the size the budget was asked about.  The step that needs
  an argument is `Build` (lemma `MarkerSeen`): for `codex` and `optimize` the marker is
  lost if it goes to stderr, and it never does, because an emptied stdout fails the guard
  and an output that was empty from the start cannot pay for a marker within the budget.
  That a command which has succeeded delivered its text follows from where it can end.
- `SwitchesObeyed`, `NothingElseOff`: `CSpec => []` of `SwitchesAreObeyed` and
  `NothingElseIsOff`, from `SwitchInv`, a step behind a gate is taken only with that gate's
  switch on and a reason to stop names the switch that is off, and from `Known`, the
  configuration is what `Loaded` made of the files and the flag, and the files are trees.
  Lemmas say what merging two trees can lose, only what is below a non-mapping; that the last
  word on a path is what the decoder reads; and that a default survives where the way to it is a
  mapping in each layer.

*Files on Windows.*

- `AlwaysReadableHolds`, `WaitsToTheDeadlineHolds`: `Spec => []` of `AlwaysReadable` and
  `WaitsToTheDeadline` of `ReplaceFile`.  `Readable` adds that what the file holds is among
  what it has held since any reader that still tries began; `Timely` that a sleep is never
  longer than what is left, which a tick keeps as it takes one off both.
- `FewTriesHolds`: `Spec => []FewTries`, from `Pacing`: behind its k-th try a call has slept
  `Slept[k]`, so what is left of its deadline is no more than the rest.  The delay of each
  try is `Delay[k]`, and the sleep that the deadline cuts short is the last.

*The readers' side.*

- `OneReplyEach`, `HandshakeFirst`: `Spec => []RepliesMatch` and `[]LifecycleIsKept`.
  Lemma `TurnShape` reduces the actions of the server that read a line to one form: a
  turn reads the next line, sets the flags as that line demands, and either answers
  nothing or adds one fitting reply.  `FlagsRemember` relates the two flags to the whole
  history of lines read, which is what makes the lifecycle inductive.
- `PagesTileAlways`, `LinesAlwaysComplete`, `NeverStuckAlways`: `Spec => []` of `PagesTile`,
  `LinesAreComplete` and `NeverStuck`, from `RecoveryInv`.  The properties speak of a client
  that one stream served; the entry may be pruned and stored again and `auto` change what
  it selects, and then nothing is said.  So the invariant says that a client served by
  nothing is where it began, that one which reads pages stands on a boundary of a character,
  no page it was given reaches beyond it, and the pages cover each byte before it once. That a
  page gets on rests on the next boundary being at most four bytes away.

Assumptions that carry weight.  Each is named in the module that declares its constants,
and TLC evaluates it in the runs.

- `CacheAssumption`: SHA-256 has no collisions (`Ref` is injective).
- `MarkerAssumption`: the bounds of `max_input_mb` and of the marker's wording.
- `InvocationAssumption`: a Codex result and a file have one stream (`hook.go:121`,
  `main.go`'s `optimize`), the original that is cached is part of the adapter's input, and
  the marker is not empty.
- `ClassifierAssumption`: the switches that the classifier knows are words that begin with
  "-" and have no value attached, and the programs and verbs are none.
- `ConfigurationAssumption`: the defaults are a document in which the mode, the cache and
  every compressor are on (`config.go:62-90`), and no compressor has a mode of its own by default (the field is
  `omitempty` and `Default` leaves it).  `ScenariosAssumption`: what the YAML parser gives is a tree.
- `LineAssumption`: a critical line is a diagnostic one, no header of dotnet is a test that
  passed, an empty line is neither (the regular expressions of `compressor.go` and
  `build.go`).  `CallsAssumption`: texts and lists of rules are finite sequences, and each rule's
  expression is one of those that `Match` describes.  `BlankRunAssumption`: at least two blank
  lines in a row are kept, which the code does (`compressor.go`).
- `RulesAssumption`: a capture lies within its line and there are finitely many, which is
  what `regexp` returns.
- `RecoveryAssumption`: a character has one to four bytes; `Get`'s result is refused
  unless it is valid UTF-8 (`recovery.go:32`).  The default sizes of a page are at least one
  and within the limits.
- `MetricsAssumption`: the engine never records more bytes behind than before, and effects
  of rules only for what it changed (both are in `RecordIsTrue` and `Compress`).
- `ReplaceFileAssumption`: the first delay is not longer than the longest.

Only model-checked: liveness (`EveryCallReturns`, `EveryLineIsRead`, `ReplacesOnceFree`), since
fairness and `ENABLED` are out of the proof system's reach.  The four findings are
counterexamples, on instances small enough to read.

## 6. Not modelled

- *Texts that are one JSON value*: `Compress` only compacts them and the guard compares
  them as values; the model has lines.
- *Regular expressions*: what they say of a line is an attribute of it.
- *The rendering of reports and statistics, `config`, `status`, `version`*: no state and
  no choice that the properties tell apart.
- *The environment variables*, and what the settings do that no gate reads: `retention` and
  `max_size_mb` are constants of `CacheStore`, the token estimate is arithmetic.  A
  `max_size_mb` of 2^43 overflows the shift at `main.go:177`; what a limit that is not
  positive means is modelled in `CacheStore`.
- *The sum of the two streams' rule effects* (`engine.go:159-167`): `Reducer` runs on one
  stream, and `Metrics` takes an invocation's effects as they come.
- *The debug log*: `metrics.Debug` replaces one file by `Atomic`, and nothing reads it.
- *Cleaning up temporary files*: the code does none.
- *zstd, SHA-256, JSON, the syntax of YAML*: external; a file holds an original, or garbage
  that the decoder or the hash refuses.
- Packaging, scripts, scenarios: tooling around the program.
