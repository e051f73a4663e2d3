# Verification of evm-benchmarking

`evmbench` replays a fixed window of BSC blocks against a copy of a state
database and reports how fast that went. Its numbers are worth something only
if what is measured is what is reported: the state the measured pass starts
from is the corpus's own, each block's gas, time and bytes are attributed to
that block once, the samples of the process are complete when they are
written, and a result file appears only for a measurement that took place.
This directory holds TLA+ models of the code that has to get this right, the
TLC configurations that check them, and theorems about them checked by TLAPS.
Source paths below are relative to `src/`.

## 1. Inventory

| component | code | state it keeps | operations | what makes it correct |
|---|---|---|---|---|
| process sampler | `internal/metrics/proc_sampler.go` | samples, previous reading, stop and done channels, a ticker | Start, loop/tick, Stop | windows tile the time, CPU time counted once, Stop drains and returns |
| one pass | `internal/runner/pass.go` | counters, collector, sampler handle, open iterator | RunPass | a block-by-block replay, interruptible between blocks, all or nothing in its result |
| block execution | `internal/chain/apply_block.go`, `config.go` | per-block result, gas pool, tracer, timer readings | ApplyBlock, isSystemTx, ResolveChainConfig | every transaction skipped or executed, never both; time and operations are the block's |
| byte and operation counters | `internal/metrics/db_wrapper.go`, `tracer.go` | atomic totals | Get, Put, batches, Counts; OnOpcode | a byte belongs to one block |
| block collector | `internal/metrics/block_collector.go` | records and totals | Record, BlockRecords, Aggregate | one record per finished block |
| corpus | `internal/corpus/` | manifest, position in `blocks.rlp` | LoadManifest, Validate, Open, OpenBlockIter, Next | the stream is what the manifest says |
| double pass | `internal/runner/double_pass.go` | work directories (on disk), results of both passes | RunDoublePass | both passes start on the same image; warm means warmed |
| state copy | `internal/runner/copy_state.go` | a directory being copied | CopyState, RemoveWorkdir | the copy is exact, whichever way it was made |
| database handle | `internal/chain/open.go` | pebble, freezers, their locks | Open, Close | no contention for a lock |
| replay command | `cmd/evmbench/replay.go`, `main.go` | context, exit code | runReplay | outputs of one complete run, or an error |
| report writers | `internal/report/*_writer.go` | files of the output directory | WriteResult, CSV writers | result.json whole or absent, exit 0 means three whole files |
| cloud detection | `internal/sysinfo/cloud.go` | goroutines, channel, wait group | runCloudProbes, Detect | first useful answer, no panic, no leak |
| percentiles, sample totals, disk selection | `internal/metrics/aggregator.go`, `cmd/evmbench/replay.go`, `internal/sysinfo/disk.go` | none | Percentile, summarizeSamples, diskDelta, relevantMountsForPaths | a figure is what its name says, at every boundary |
| host, CPU, memory, Go inventory | `internal/sysinfo/` | none | Collect, parsers | cores are counted once |
| fixture generator | `scripts/prepare-fixture/main.go` | a temporary and a final database, two files | main, replayHeatUp, validate | the corpus it writes replays; what a failed run leaves can be told |
| commands, schema, build files | `cmd/evmbench/root.go`, `version.go`, `sysinfo.go`, `internal/report/schema.go`, `Dockerfile`, `.github/` | none | - | - |

How they interact. `runReplay` opens the corpus and calls `RunDoublePass`,
which for each pass removes a directory, copies the state, opens it, and calls
`RunPass`; that reads blocks from the iterator, calls `ApplyBlock` for each,
reads the byte counters around the call and hands a record to the collector.
A measured pass starts a sampler goroutine which outlives the pass: it is
`runReplay` that stops it. Then the host is described, which includes the
concurrent cloud probes, and three files are written. A signal cancels a
context that RunPass looks at between blocks and the probes all the time.

Where it is hard: two goroutines and a ticker around the samples; readers in
the background of the byte counters; clocks that are set; Ctrl-C anywhere; a `cp`
child that may die half way and a fall-back that runs over its remains; work,
output and fixture directories that survive a killed process; a fan-out whose
caller leaves at the first answer; readings of `/proc` that fail and count as
zero. The hazards are listed, each at its line, in
`PROJECT.json`.

## 2. Modules

| module | models | checked by |
|---|---|---|
| `ProcSampler` | the sampling goroutine, the ticker, the kernel's CPU counter, and the command's Start, Stop, abandon and exit | `ProcSampler_all`, `ProcSampler_failedread` |
| `Chain` | what a corpus, block and transaction are, `isSystemTx`, and the acceptance rule of `core.ApplyTransaction` (external) | through `Pass` and `Fixture` |
| `BlockReplay` | abstract: what a pass promises, one block at a time | implemented by `Pass`; its rules for a block judge the fixture's stream |
| `Pass` | `RunPass` with `ApplyBlock`, the iterator, the collector and the counters, statement group by statement group | `Pass_all`, `Pass_exec_ns`, `Pass_clock_step` |
| `DoublePass` | `RunDoublePass`, `CopyState`, `RemoveWorkdir`, `Open`/`Close`, over several processes on the same directories | `Replay_all`, `DoublePass_linked_ancient`, `DoublePass_fallback` |
| `Replay` | `runReplay` and the three writers around `DoublePass` (it EXTENDS it: the two step together) | `Replay_all` |
| `FirstAnswer` | abstract: what `runCloudProbes` promises | implemented by `CloudProbes` |
| `CloudProbes` | `runCloudProbes` and the probes | through `Report` |
| `Sums` | the sum of a sequence, a fold | through the modules that use it |
| `Figures` | `Percentile`, `summarizeSamples`, `diskDelta`, `collectDisks` and `parseCPUInfo` as operators | through `Report` |
| `Report` | what `runReplay` does between the drained sampler and the files: Collect with the cloud detection, Aggregate, the summaries | `Report_all`, `Report_disks` |
| `Loader` | what `corpus.Open` accepts: manifest validation, and how far the iterator gets | through `Fixture` |
| `Fixture` | the generator of the integration corpus, over several processes on one output directory | `Fixture_all`, `Fixture_torn` |
| `MCPass`, `MCReport`, `MCFixture` | instances for TLC | |
| `FixtureStream` | a fixture's stream as a pass executes it: `Fixture` with `BlockReplay`'s rules for a block | `Fixture_all` |
| `ProcSamplerProofs`, `PassProofs`, `PassReplayProofs`, `DoublePassProofs`, `ReplayProofs`, `ReportProofs`, `FixtureProofs` | theorems | TLAPS |
| `SumLemmas` | lemmas about sums, least and greatest numbers, which the proofs share | TLAPS |

### ProcSampler

`loop` is the goroutine's position: `tick` is the three steps ReadClock,
ReadStat and Record, because the clock, `/proc/self/stat` and the append are
separate moments for the rest of the process. The select is two actions,
SelectTick and SelectStop, enabled when their channel is ready. `tickC` is the
ticker's channel of capacity 1; a tick that finds it full is dropped, which is
the absence of an action. `main` is what `RunPass` and `runReplay` do with the
sampler; Abandon is any error return of `RunPass` after Start. The struct's
mutex needs no variable: the append is one step and Stop reads after the
goroutine has ended. `ts` of a model sample is the instant of the reading, not
the wall-clock millisecond that is written to the CSV file.

### Pass and BlockReplay

`pc` names the statement group. `txi` walks through the block's transactions;
each is skipped (SkipTx), executed (ApplyTx) or ends the run (RejectTx). A
transaction carries what its execution takes and yields (`used`, `ok`, `ops`);
whether it is accepted is decided by the nonce in the state, the gas left in
the pool, its signature and its balance. `clock` is the monotonic clock that
`time.Since` uses and `wall` the one `UnixNano` reads; StepWall sets only the
latter, back or forward, and `setBack` remembers that it was set back.
`Canonical` says what a healthy chain promises of a corpus: every block executes
where all of its transactions do, the ordinary ones sharing the block's gas;
system transactions are outside the pool and declare whatever gas they like. One byte counter and one operation counter stand for the two of
each kind, which the code handles alike. BlockReplay executes a block in one
step and computes its summary directly from the transactions; `Pass` maps to it
by `Applied`, the number of blocks finished, and `Summaries`, the records
without times and bytes.

### DoublePass

A work directory maps every entry of the state directory, and one extra file
for what an open database adds, to what it holds. `cp -a` and `walkCopy` copy
the entries in any order; a file is truncated first and whole at the end; `cp`
may stop anywhere, and then the walk starts over with every entry. Removal
takes entries away one by one. `Stores` are the entries that hold databases,
chaindata/ and ancient/: opening writes to those that are entries of the copy and,
through one that is a link, into the corpus itself (`source`), since both ways of
copying keep a link. `Crash` ends the process at any step and
`Restart` starts another on the same directories. What a pass yields is what
`BlockReplay` promises: over an unspoilt copy, a function of the corpus; over
anything else, anything. `locks` are the freezers locked by triedbs, which
`RunPass` never closes; `Finalize` is the garbage collector that may or may not
release them. The measured directory stays behind after a run, as the comment
at `double_pass.go:36-37` says (design.md:82 still removes it).

### Replay

`cmd` is the position in `runReplay`. While it is "passes", `DoublePass`'s steps
are its steps. WriteResult is CreateTemp, Encode and Rename with its deferred
removal; a CSV file is truncated by Create and is any prefix until its rows have
been written and flushed. The removal's error is dropped in the code, so it may
fail here and `stuck` remembers that. `out` remembers for each file which run
wrote it. Kill stops the process between any two steps, and what has been written
stays; RunAgain starts the next with the same output directory.

### CloudProbes and FirstAnswer

Every provider's `Detect` is a list of questions; without an answer to some
(`Needed`: the AWS token, the instance type) it returns nil, without another it
leaves a field empty. The three providers differ only in their lists
(AwsQuestions, AliyunQuestions, GcpQuestions). The
caller may spawn, and the closer and the probes run, in any order that the
channel and the wait group allow.

### Report and Figures

`stage` is the position in `runReplay` between Stop and WriteResult; the cloud
detection of `CloudProbes` takes place in one of the stages, and goroutines
that lost the race go on during the later ones. `input` is fixed: what the pass
has left (`rows` is one of the three columns that have percentiles, `samples`
what Stop returned) and what the host shows (`mounts`, `cpuinfo`). A path is
absolute or relative, a list of names, and the place where the kernel's walk ends,
the working directory and links resolved; the program sees only the former two. A
mount that a later one has covered stays in the table and is `hidden`. `Figures` holds the functions
themselves, each by what it computes: sorting and indexing is taking the order
statistic, the last `current` of a stanza is the value of the greatest line under
the key since the blank line before. A quantile is in percent: `ceil(q * float64(n))` gives the same
number as the rational ceiling for 0.50, 0.95 and 0.99 at every length up to two
million, which was computed once for all of them. `readSelfIO`'s zero for a
failed reading is part of the operator that reads a sample. The properties say
what the figures mean without the code's way of computing them: a percentile
counts the values below it, the holder of a path is the deepest mount in reach
above the place it leads to. Collect's steps without a choice (host, memory, Go) are left out.

### Loader and Fixture

`pc` is the position in the generator's `main`: for the path scheme a temporary
database, the generation, the final database, the heat-up replay and the trie
journal, for the hash scheme the final database alone; then `blocks.rlp`, the
read-back hash, the manifest and `validate`. A state root stands for the state:
the sender's nonce and the rewards paid to the miner, so a replay that forgets
the reward or a block ends on another root. `db` is the set of roots that the
database yields when it is opened again. `file` describes `blocks.rlp` by the
flags it was made with, its whole blocks, and whether a cut one follows; a hash
stands for the file it is of. `Die` is `os.Exit`, which runs nothing that was
deferred (so every error path after OpenTemp leaves the temporary directory
behind); `Return` runs it. Kill stops the process between any two steps and
RunAgain starts another, with any flags, on what the one before has left; a
database used before may be refused by pebble or the trie database.
`StreamExecutes` judges the stream by `BlockReplay`, the abstract pass: the
generator and the program are checked against one definition of a block that
executes.

## 3. Runs

| run | expects | shows |
|---|---|---|
| `ProcSampler_all` | pass | CpuConserved, WindowsTile, DrainComplete, NoSampleAfterDrain, StopReturns: 2 cores, 3 instants, 3 samples. Three samples are needed for two adjacent windows with a dropped tick between; more repeat the pattern. |
| `ProcSampler_failedread` | violation of CpuDeltaIsReal | a reading that fails counts as zero: the next delta wraps or covers the life of the process |
| `Pass_all` | pass | TypeOK, CountersAgree, RejectOnlyAfterSkip, AtMostOneBlockAfterInterrupt, ImplementsReplay: all streams of up to two blocks over ten kinds of transaction (two in the first block, one in the second), three short blocks, malformed items, unfit manifests; measured and not; a signal anywhere. Two accounts and one system contract give every outcome of `isSystemTx` and the nonce rule, within a block and across blocks. System transactions declare far more gas than a block has. BytesCountedOnce, PhasesWithinWall: on two fixed blocks each, background reads, and clocks that run and are set back and forward. |
| `Pass_exec_ns` | violation of ExecIncludesCommit | exec_ns stops before IntermediateRoot (design.md:164 says after) |
| `Pass_clock_step` | violation of PhaseShorterThanPass | the timer is the wall clock (apply_block.go:158 says monotonic) |
| `Replay_all` | pass | PristineOpen, PassesAgree, WarmIsWarm, InterruptWins of the double pass and ReplayTypeOK, ResultNeverPartial, CSVsNotNewer, ExitZeroMeansAllThree, NoTempLeft, ResultOnlyAfterMeasured, RunEnds of the command around it: two files and a link, any file operation may fail, removals included, cp may die, kills anywhere, two runs. Two runs suffice for every kind of remains, since a run's start depends on the directories only. |
| `DoublePass_linked_ancient` | violation of NoFreezerContention | a linked `ancient/` makes both passes lock one freezer |
| `DoublePass_fallback` | violation of FallbackCopies | the walk fails on a link that cp has already made |
| `Report_all` | pass | ReportTypeOK, NoSendOnClosed, FoundIsUsable, NothingLeaks, ImplementsFirstAnswer: the program's three providers. PercentilesAreRanks: all columns of up to four values out of three, and lengths 20, 21, 100 and 101, where 95 and 99 percent are whole numbers or just not. DiskTotalsAreTrue: all growing lists of up to three samples, each readable or not. DisksAreTheHolders: all tables of up to three of nine mounts (nested, covered by a later one on the same point or above, pseudo file systems), with absolute, relative and linked output directories; it is about absolute paths through no link whose holder no covered device shadows, and `Report_disks` is about the others. CoresCounted: up to three processors on two packages of two cores, with and without a last blank line. The inputs vary one at a time, as the functions do not see each other's, and the cloud answers in every order with one of them. |
| `Report_disks` | violation of DisksCoverTouched | one input for each of: the default, relative flags with a disk mounted below the root; a linked state directory; a disk mounted over another; a work directory on its own disk. Each alone violates it (design.md:268 promises every device); TLC shows the first. |
| `Fixture_all` | pass | TypeOK, ExitZeroIsWhole, FailsForAReason, HashTells, StreamExecutes, ColdSlotsUnique: two heat-up blocks, up to two replay blocks; block sizes of one call, of calls and transfers, of more calls than slots, and of more than the gas limit; invalid flags; both schemes; two processes. The second may find anything the first can leave. |
| `Fixture_torn` | violation of LoadedCountFits | a regeneration killed between the two files leaves a corpus that loads with the wrong count (design.md:127 rejects it) |

Bounds: `Horizon` (instants), `MaxSamples`, `MaxBytes`, `ReadBytes` and
`MaxRuns` cap counters in guards; `Word` stands for 2^64 and is larger than any
counter, so that a wrap is visible as a huge number. `CheckDeadlock` is on in
every run: the states in which a program has ended step to themselves
explicitly, and nothing else may stop.

The modules contain, beside each operator of the code that a mistake could hit,
a "slip": the same operator with a plausible mistake, used nowhere. Replacing
the operator by its slip makes the property listed with it in `PROJECT.json`
fail; so each property does depend on the code it is about.

### Fairness

* `ProcSampler`: both goroutines are scheduled (weak fairness of their steps).
  Go's select picks uniformly among the ready cases, so a case that is ready
  again and again is taken: strong fairness of SelectStop. Without it Stop could
  wait for ever behind a ticker that is always ready. Nothing is assumed of the
  ticker, the clock, or the end of the pass.
* `Pass`, `DoublePass`: the code is one goroutine that waits for nobody, so weak
  fairness of its steps as a whole. `RunEnds` in `Replay` rests on the same, and
  on the disk and `cp` answering at all; a hung disk hangs the program.
* `CloudProbes` and `Report`: every goroutine is scheduled, and a request ends,
  since both `http.Client.Timeout` and the context bound it. The command's own
  steps in `Report` never wait but for the channel.
* `Fixture` has no liveness property and no fairness: its loops are over lists.

## 4. Proofs

The theorems hold for every value of the constants, from the named assumptions
of the modules, which say what kind of thing each constant is, and besides:

* `SamplerAssumption`, `PassAssumption`: no counter reaches the width of its word
  before the horizon;
* `CloudAssumption`: finitely many probes, each with a question it needs;
* `ReportAssumption`: the kernel's byte counter does not decrease, and no two
  mounts in reach have one mount point;
* `FixtureAssumption`: sender and miner are two accounts, no address in use is
  a system contract, and the gas limit takes at least a transfer, which a heat-up
  block consists of;
* `MarksAreNoData` (`Fixture`): the values that stand for a missing, broken or
  empty thing are not things of that kind;
* where it is stated in the theorem, `Stores \cap Links = {}`, and for CpuConserved
  `ReadsMayFail = FALSE` (`ProcSampler_failedread` shows what happens otherwise).

TLC evaluates all of them on the instances it checks.

TLAPS has no induction over data here, as a scheme would need an operator for its
parameter. Three devices replace it. A claim about every number is refuted at the
least number at which it fails (LeastOfSet in `SumLemmas`, from the
well-foundedness of <). A sum is a fold, defined by recursion over the set of
places; AddsExists and AddsUnique show that there is one such function, and from
them TotalEmpty, TotalAppend and TotalNext give what one more element adds, which
is all a step of a program needs. And what a step does not do to the whole of a
sequence is an invariant about its past, which the steps establish one by one.

* `ProcSamplerProofs`. **TypeCorrect** adds to TypeOK that the previous reading
  is not later than the present one, which is not later than the clock; without
  it a window could have a negative length. **DrainCompleteCorrect** and
  **NoSampleAfterDrainCorrect** rest on HandOver: the done channel is closed
  exactly when the goroutine has ended, which only a closed stop channel brings
  about; so after Stop's receive no step of the loop is possible.
  **WindowsTileCorrect** needs that the last sample ends at the previous
  reading, which each Record re-establishes. **CpuConservedCorrect** needs the
  CPU readings in order, first, previous, present and the counter (`Readings`);
  what an append adds to the sum is then a difference that does not wrap.
* `PassProofs`. **TypeCorrect** and **CountersAgreeCorrect** are proved together,
  neither being inductive alone: that a record's TxCount is a natural number
  follows from skips and receipts adding up, and that its byte delta is one from
  the counter never falling below the baseline taken at the start of the block
  (`Inside`). **AtMostOneBlockCorrect**: from the interrupt on, `Late` stays true;
  the one block that may still be decoded is that whose context check came first.
  **BytesCountedOnceCorrect** and **PhasesWithinWallCorrect** rest on `Accounted`:
  the bytes of all records were counted before the baseline of the block under
  way, and until the wall clock is set back the phases of all records lie before
  its first timer reading on that clock. The corpus is arbitrary: any number of
  blocks and transactions, and AtMostOneBlockAfterInterrupt counts to the end of
  the longest.
* `PassReplayProofs`. **PassIsReplay** is the step simulation of `BlockReplay`. Its
  invariant `Follows` says at each transaction how far the code has come by the
  abstract pass's own operators: the pool is the limit less GasUpTo the place, a
  nonce is what the sender has sent in the blocks before and up to the place, and
  every transaction so far was acceptable there; so when the block is recorded it
  was Executable, and its record is its Summary. RejectTx is the abstract Fail
  because the one transaction refused is a witness that the block is not.
  **RejectOnlyAfterSkipCorrect** combines `Follows` with what a healthy corpus
  promises: if no earlier transaction of the sender was skipped, the number of
  those executed is the number of all, hence the nonce fits (NonceCounts), and
  the gas that the ordinary transactions before it took leaves this one's share
  (GasFits), whatever the system transactions declare.
* `DoublePassProofs`. **PristineOpenCorrect** is proved through CopyInv: during a
  copy every entry no longer to be copied is as in the corpus, the extra file is
  absent, and the corpus itself is untouched. When cp dies the walk's list is
  every entry again, which makes the invariant hold trivially at that moment and
  is why the remains of cp do no harm. It needs `Stores \cap Links = {}`: through a
  linked chaindata/ or ancient/ an open database writes into the corpus. Other
  links do no harm.
  **PassesAgreeCorrect** and **WarmIsWarmCorrect** add ResultInv, the order in
  which the results appear. Files, links and number of runs are arbitrary. The
  lemmas are about AnyNext, which allows more than Next does: a signal outside a
  pass, a new process at any moment. So they also serve a program around it.

* `ReplayProofs`. Every step of the command is one of AnyNext or leaves the double
  pass alone (CmdIsAny), so **PristineInCommand**, **PassesAgreeInCommand** and
  **WarmInCommand** follow from the lemmas above. **InterruptWinsInCommand** needs
  that a measured result appears only when the measured blocks are over
  (`Unmeasured`) and that an interrupted run stays short of them (`Cut`). The
  properties of the output files are proved together: `Progress` says which files
  are whole at each step and that no file is of a later run, `Temporary` when the
  temporary file is there, that it is whole when it is renamed, and that only a
  failed removal leaves it behind. A machine that fails is outside all of them.
  **ResultOnlyAfterMeasuredCorrect** joins both halves: only Rename changes
  result.json, and what comes after a double pass comes after a successful one.
* `ReportProofs`. **NoSendOnClosedCorrect** is the wait group's argument: `wg` is
  the number of goroutines between their start and their Done, the closer is
  started when all have been, so a closed channel has no sender left (`Counted`).
  **FoundIsUsableCorrect** needs that a probe goes on only with the answers it
  needs, and that an answer in the channel is one that its probe will not change
  (`Heard`). **PromiseKept** is the step simulation of `FirstAnswer`; it adds that
  no useful answer is lost before the call returns (`Delivered`), so nil really
  means that every probe said nil. The figures are functions of the fixed
  input once their stage is over (`Figured`), so the rest is about the functions.
  **PercentilesAreRanksCorrect** adds to the arithmetic of the rank (RankIsNearest) that a
  value of every rank exists (SortedIs: the least value with enough places at or
  below it). **DisksAreTheHoldersCorrect**: the mount points above a path are
  prefixes of it, so two of one length are one point (SamePoint), and the
  longest device is the deepest mount in reach unless one out of reach is as long
  (HolderIsLongest). **CoresCountedCorrect** pairs each processor line with the
  flush that ends its stanza: with well-formed processors no two share a flush
  (OwnStanza), every counted flush has a line, and what `current` holds there is
  what that processor's own lines say (CurrentIs).
  **DiskTotalsAreTrueCorrect** is about any growing list of readings: exact when
  the first and the last have succeeded, never wrapped otherwise;
  **ReportTypeCorrect** is about any input.
* `FixtureProofs`. **ExitZeroIsWholeCorrect** and **HashTellsCorrect** rest on
  `Written`: what `file`, `sum` and `manifest` are at each step of the generator,
  and that a manifest is only ever written of a whole file, which survives every
  failure and the next run. **ErrorHasAReasonCorrect** is the first half of
  FailsForAReason for any number of heat-up blocks: executing one gives the root
  that the generator computed (HeatUpRoot, which the block reward is needed for),
  the database holds the last of them when it is closed (the journal, or the
  writes of the hash scheme), and so `validate` never finds the run at fault
  (`Sound`). **FailsForAReasonCorrect** adds `Fitting`: what gets beyond the
  generator, and into a file, fits the gas limit, whichever run it is of.
  **StreamExecutesCorrect** joins that to the abstract pass: after the heat-up
  blocks the sender has sent as many transactions as there were blocks
  (AfterHeatUp), each block adds its size (SizesAdd, SentAlong), so every nonce
  is the one that BlockReplay expects, and the gas limits of the transactions
  before leave this one's (GasLeft). The file may be one run's and the manifest
  another's. **TypeCorrect** includes which states and files can be found.
  **SlotsDiffer** is the arithmetic of ColdSlotsUnique.

Every invariant and every safety action property that a passing run checks is
proved. Only model-checked are the liveness properties (StopReturns, RunEnds,
NothingLeaks) and the fairness part of the two refinements (ImplementsReplay,
ImplementsFirstAnswer), which are beyond TLAPS, and that the seven violations
happen.

## 5. Observations

Seven of the runs expect a violation; `PROJECT.json` quotes the text that each
disagrees with under "findings". Modelling brought out more, which the models
contain as it is:

* `die` in the generator skips the deferred removal of the temporary database.
* `input_hash` covers `blocks.rlp` alone, so fixtures of both schemes have the same
  one. design.md:119 says that it is over the blocks and the state. The replay copies
  it into the report and compares it with nothing, so no run is about it.
* A path on a mount whose source is not under `/dev/` (overlayfs, NFS, ZFS) is
  reported as being on the mount above it; DisksAreTheHolders excludes it.
* A state directory whose chaindata/ or ancient/ is a symbolic link is not copied
  for it: the passes write into the corpus, and a later run starts on what they
  left. The theorems of the double pass exclude it.
* result.json is renamed without having been synced (`result_writer.go:27-30`), so
  a machine that loses power may be left with an empty or a cut one. The models
  kill processes; ResultNeverPartial is about those.
* From 1530 transactions per block on, a block has more than 1024 writer calls and
  the slots of the last ones are the next block's (`main.go:196`), whose stores are
  then not the cold ones of `main.go:19`. ColdSlotsUnique is stated below that.
* CSV files of an earlier run may lie beside a new result.json after a kill.
* `cpu.go:103` falls back to the logical cores only for a file without any
  processor: without ids all processors have the same key, and one is counted.
* A first reading of `/proc/self/io` that fails makes the totals cover the life
  of the process, and a last one that fails makes them zero; DiskTotalsAreTrue
  excludes the former and states the latter.

## 6. Not modelled

The EVM, the tries, pebble and the freezers are go-ethereum's: a transaction
carries its outcome, and a database is its files or its roots. Report
formatting, the parsers of `/proc` and `/sys` other than the two in `Figures`,
the attributes that `fillBlockDevAttrs` copies, the commands that only print,
and the build files have no state and nothing to go wrong in several steps. A
`cp` that survives its killed parent, and two programs that share the default
work directory, are hazards that the code does not guard against in any way:
there is no promise of the code that a model could test. A machine that fails, and
what a file system then keeps of files that nobody synced, is in none of the models:
Kill and Crash end a process. A pass so short that its wall time is
zero, which would put an infinite rate before the encoder, is left out: setting up
a pass and decoding the end of its stream takes time.

## 7. Plan

Done: what the measured numbers rest on (sampler, pass), what the passes start
from (double pass), what is left behind (replay), the concurrent probes, the
figures, the generator and the loader; and the theorems of section 4. Next:

1. The meaning of cpuSum, cpuMax and rssPeak over the samples of a run: so far
   they are typed, and each sample is right by CpuConserved and WindowsTile.
2. The three conditional theorems of the double pass without the assumption on
   links, as far as a linked chaindata/ or ancient/ leaves them true.
