------------------------------ MODULE Report ------------------------------
(***************************************************************************)
(* What runReplay does between the drained sampler and the output files    *)
(* (cmd/evmbench/replay.go:84-140): sysinfo.Collect describes the host, its *)
(* CPU, its disks and, with CloudProbes, its cloud; then the blocks and    *)
(* the samples are summed up.  Goroutines of the cloud detection that lost *)
(* the race run on meanwhile.                                              *)
(***************************************************************************)
EXTENDS CloudProbes, Figures

CONSTANT Inputs  \* what the pass has left and the host shows

Quantiles == {50, 95, 99}

\* A path as it is given, and the names from the root that the kernel's walk
\* ends at, the working directory and symbolic links resolved (external).
Path == [abs: BOOLEAN, names: Seq(STRING), real: Seq(STRING)]

\* hidden: a later mount on the same point or above it has made the mount out
\* of reach, though the table still lists it (external).
Mount == [at: Seq(STRING), dev: BOOLEAN, source: STRING, hidden: BOOLEAN]
ProcSample == [cpu: Nat, rss: Nat, bytes: Nat, readable: BOOLEAN]

\* rows stands for one of the three per-block columns that have percentiles.
\* The program is given the state and output directories, and works in work.
Input == [rows: Seq(Nat), samples: Seq(ProcSample), mounts: Seq(Mount),
          state: Path, out: Path, work: Path,
          cpuinfo: Seq([key: STRING, value: STRING])]

ASSUME ReportAssumption ==
    /\ Inputs \subseteq Input
    /\ \A in \in Inputs : \A i, j \in DOMAIN in.samples :
            i <= j => in.samples[i].bytes <= in.samples[j].bytes
    /\ \A in \in Inputs : \A i, j \in DOMAIN in.mounts :
            /\ ~in.mounts[i].hidden /\ ~in.mounts[j].hidden
            /\ in.mounts[i].at = in.mounts[j].at
            => i = j

VARIABLES
    stage,   \* where the command is
    input,   \* fixed: what it is about to read
    cores, disks,  \* Sysinfo.CPU and Sysinfo.Disk
    pct,     \* the percentiles of the result
    summary, \* cpu and memory
    total    \* disk_read_total_bytes

figures == <<cores, disks, pct, summary, total>>
rvars == <<stage, input, figures>>
allvars == <<vars, rvars>>

NoCores == [logical |-> 0, physical |-> 0]
NoPct == [q \in Quantiles |-> 0]
NoSummary == SummarizeSamples(<< >>)

ReportTypeOK ==
    /\ TypeOK
    /\ stage \in {"cpu", "disk", "cloud", "blocks", "samples", "done"}
    /\ input \in Input
    /\ cores \in [logical: Nat, physical: Nat] /\ cores.physical <= cores.logical
    /\ disks \subseteq ToSet(input.mounts)
    /\ pct \in [Quantiles -> {0} \cup ToSet(input.rows)]
    /\ summary \in [cpuSum: Nat, cpuMax: Nat, rssPeak: Nat]
    /\ total \in Nat

ReportInit ==
    /\ Init
    /\ stage = "cpu" /\ input \in Inputs
    /\ cores = NoCores /\ disks = {} /\ pct = NoPct /\ summary = NoSummary /\ total = 0

-----------------------------------------------------------------------------

CollectCPU ==
    /\ stage = "cpu" /\ stage' = "disk"
    /\ cores' = ParseCPUInfo(input.cpuinfo)
    /\ UNCHANGED <<vars, input, disks, pct, summary, total>>

\* The paths the disks are looked up for: c.StateDir() and outDir, as given.
Interesting == {input.state, input.out}

CollectDisk ==
    /\ stage = "disk" /\ stage' = "cloud"
    /\ disks' = CollectDisks(input.mounts, Interesting)
    /\ UNCHANGED <<vars, input, cores, pct, summary, total>>

\* collectCloud; the caller goes on when runCloudProbes has returned.
DetectCloud == stage = "cloud" /\ Caller /\ UNCHANGED rvars

CloudDetected ==
    /\ stage = "cloud" /\ stage' = "blocks"
    /\ main = "returned"
    /\ UNCHANGED <<vars, input, figures>>

AggregateBlocks ==
    /\ stage = "blocks" /\ stage' = "samples"
    /\ pct' = [q \in Quantiles |-> Percentile(input.rows, q)]
    /\ UNCHANGED <<vars, input, cores, disks, summary, total>>

Summarize ==
    /\ stage = "samples" /\ stage' = "done"
    /\ summary' = SummarizeSamples(input.samples)
    /\ total' = DiskDelta(input.samples)
    /\ UNCHANGED <<vars, input, cores, disks, pct>>

\* The goroutines, and the context.
Goroutine(p) == (Ask(p) \/ Send(p) \/ Done(p)) /\ UNCHANGED rvars
Closer == Close /\ UNCHANGED rvars
Cancel == TimeOut /\ UNCHANGED rvars

Over == stage = "done" /\ AllOver /\ UNCHANGED rvars

Command ==
    \/ CollectCPU \/ CollectDisk \/ DetectCloud \/ CloudDetected
    \/ AggregateBlocks \/ Summarize

ReportNext == Command \/ Closer \/ Cancel \/ Over \/ \E p \in Probes : Goroutine(p)

\* As in CloudProbes: every goroutine runs, the command's included.
ReportSpec == ReportInit /\ [][ReportNext]_allvars /\ Fairness /\ WF_allvars(Command)

-----------------------------------------------------------------------------
(* Properties.                                                             *)

Below(v, x) == Cardinality({i \in DOMAIN v : v[i] <= x})

\* Each percentile is the smallest value of the column that q percent of the
\* blocks do not exceed, also where q*n is a whole number, for few blocks
\* and for none (aggregator.go:24, block_collector.go:135-143).
PercentilesAreRanks ==
    stage \in {"samples", "done"} =>
        \A q \in Quantiles :
            IF input.rows = << >> THEN pct[q] = 0
            ELSE /\ pct[q] \in ToSet(input.rows)
                 /\ 100 * Below(input.rows, pct[q]) >= q * Len(input.rows)
                 /\ \A x \in ToSet(input.rows) :
                        x < pct[q] => 100 * Below(input.rows, x) < q * Len(input.rows)

\* The total is what the process did between its first and its last sample,
\* whatever readings between them failed; when the last one failed it is
\* zero and never a wrapped difference.  A first reading that failed is no
\* part of the promise: the bytes since the start of the process are then
\* counted (replay.go:219-232, proc_sampler.go:159-162).
DiskTotalsAreTrue ==
    stage = "done" =>
        LET s == input.samples
            n == Len(s)
        IN  /\ n < 2 => total = 0
            /\ n >= 2 /\ s[n].readable /\ s[1].readable => total = s[n].bytes - s[1].bytes
            /\ n >= 2 /\ ~s[n].readable => total = 0
            /\ n >= 2 => total <= s[n].bytes

\* The mount a path is on: of those in reach above the place it leads to, the
\* deepest (external: the kernel's path walk).
Above(p) ==
    {i \in DOMAIN input.mounts : ~input.mounts[i].hidden /\ IsPrefix(input.mounts[i].at, p.real)}
Deepest(p) ==
    CHOOSE i \in Above(p) :
        \A j \in Above(p) : Len(input.mounts[j].at) <= Len(input.mounts[i].at)
Holder(p) == input.mounts[Deepest(p)]

\* A device that is out of reach is listed for the holder's mount point, or
\* for one below it on the path.
Shadowed(p) ==
    \E i \in DOMAIN input.mounts :
        /\ input.mounts[i].hidden /\ input.mounts[i].dev
        /\ IsPrefix(input.mounts[i].at, p.real)
        /\ Len(Holder(p).at) <= Len(input.mounts[i].at)

\* An absolute path that leads through no link to a device that no hidden one
\* shadows has that device's mount reported, never only a mount further up;
\* and with nothing but such paths no other disk is reported
\* (disk.go:71-93, design.md:268).  What is left out is what
\* violates DisksCoverTouched.
DisksAreTheHolders ==
    stage \notin {"cpu", "disk"} =>
        LET plain(p) ==
                /\ p.abs /\ p.real = p.names
                /\ Above(p) # {} /\ Holder(p).dev /\ ~Shadowed(p)
        IN  /\ \A p \in Interesting : plain(p) => Holder(p) \in disks
            /\ (\A p \in Interesting : plain(p)) => disks = {Holder(p) : p \in Interesting}

\* What a cpuinfo says of the processor at line i, up to the next processor.
Processors == {i \in DOMAIN input.cpuinfo : input.cpuinfo[i].key = "processor"}
Described(i) == {j \in DOMAIN input.cpuinfo : j >= i /\ (i + 1) .. j \cap Processors = {}}
Says(i, key) == {j \in Described(i) : input.cpuinfo[j].key = key}
Id(i, key) == input.cpuinfo[CHOOSE j \in Says(i, key) : TRUE].value

\* It names its package and its core once each, then leaves a line blank unless
\* it is the last.
WellFormed(i) ==
    /\ \A key \in {"physical id", "core id"} :
          \E j \in Says(i, key) : Says(i, key) = {j} /\ \A b \in Says(i, "blank") : j < b
    /\ Says(i, "blank") # {} \/ \A k \in Processors : k <= i

\* Where every processor names its package and its core, each is counted
\* once, the last one too, and threads of one core are one physical core
\* (cpu.go:92-102).
CoresCounted ==
    stage # "cpu" /\ (\A i \in Processors : WellFormed(i)) =>
        /\ cores.logical = Cardinality(Processors)
        /\ cores.physical =
              Cardinality({<<Id(i, "physical id"), Id(i, "core id")>> : i \in Processors})

\* design.md:268: "The `disk` array covers all devices the process touches".
\* It touches the state, the output and the work directory.
DisksCoverTouched ==
    stage = "done" =>
        \A p \in {input.state, input.out, input.work} :
            Above(p) # {} /\ Holder(p).dev => Holder(p) \in disks

=============================================================================
