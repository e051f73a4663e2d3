------------------------------ MODULE Figures ------------------------------
(***************************************************************************)
(* The figures of a report: percentiles over the blocks                    *)
(* (internal/metrics/aggregator.go), totals over the samples               *)
(* (cmd/evmbench/replay.go), the disks that hold some paths and the cores  *)
(* of the machine (internal/sysinfo/disk.go, cpu.go).                      *)
(*                                                                         *)
(* A path is absolute or not, and a list of names; a mount point is a list *)
(* of names, "/" being the empty one.                                      *)
(***************************************************************************)
EXTENDS Sums

-----------------------------------------------------------------------------
(* Percentile: nearest rank.  q is in percent.                             *)

\* A slip: the conversion to int truncates.
RankDown(n, q) == (q * n) \div 100

\* ceil(q*n).  The code's float64 product and ceiling give this number for
\* the three quantiles it asks for, at every length up to two million.
Rank(n, q) == (q * n + 99) \div 100

Clamp(i, lo, hi) == IF i < lo THEN lo ELSE IF i > hi THEN hi ELSE i

\* The places of the values of v that are at most x, and of the smaller ones.
UpToValue(v, x) == {i \in DOMAIN v : v[i] <= x}
Smaller(v, x) == {i \in DOMAIN v : v[i] < x}

\* sort.Slice, and then the r-th element: it and those before it are at least
\* r values, and those that are smaller come before it.
Sorted(v, r) ==
    CHOOSE x \in ToSet(v) : Cardinality(Smaller(v, x)) < r /\ r <= Cardinality(UpToValue(v, x))

Percentile(v, q) ==
    IF v = << >> THEN 0
    ELSE Sorted(v, Clamp(Rank(Len(v), Clamp(q, 0, 100)), 1, Len(v)))

-----------------------------------------------------------------------------
(* summarizeSamples and diskDelta.                                         *)

\* What the sampler writes into a sample: zero when /proc/self/io fails.
ReadSelfIO(s) == IF s.readable THEN s.bytes ELSE 0

\* cpuAvg is cpuSum over the number of samples, and 0 without any.
SummarizeSamples(samples) ==
    [cpuSum  |-> Total([i \in DOMAIN samples |-> samples[i].cpu]),
     cpuMax  |-> Max({0} \cup {s.cpu : s \in ToSet(samples)}),
     rssPeak |-> Max({0} \cup {s.rss : s \in ToSet(samples)})]

\* A slip: samples without bytes are passed over.
DeltaOfRead(samples) ==
    LET read == SelectSeq(samples, LAMBDA s : ReadSelfIO(s) > 0) IN
    IF Len(read) < 1 THEN 0 ELSE ReadSelfIO(Last(read)) - ReadSelfIO(Head(samples))

\* Read and written bytes are handled alike; one stands for both.
DiskDelta(samples) ==
    IF Len(samples) < 2 THEN 0
    ELSE LET first == ReadSelfIO(Head(samples))
             last == ReadSelfIO(Last(samples))
         IN  IF last > first THEN last - first ELSE 0

-----------------------------------------------------------------------------
(* collectDisks.                                                           *)

\* parseMountinfo drops every mount whose source is not under /dev/.
ParseMountinfo(table) == {i \in DOMAIN table : table[i].dev}

\* hasPathPrefix, after filepath.Clean: a relative path stays relative and
\* is below no mount point but "/".
HasPathPrefix(p, at) == at = << >> \/ (p.abs /\ IsPrefix(at, p.names))

\* A slip: the first mount that matches is taken.
FirstMatch(mounts, matching) == Min(matching)

\* The longest mount point wins, and of equal ones the first.
Longest(mounts, matching) ==
    Min({i \in matching : \A j \in matching : Len(mounts[j].at) <= Len(mounts[i].at)})

Matching(table, p) == {i \in ParseMountinfo(table) : HasPathPrefix(p, table[i].at)}

\* relevantMountsForPaths
CollectDisks(table, paths) ==
    {table[Longest(table, Matching(table, p))] : p \in {q \in paths : Matching(table, q) # {}}}

-----------------------------------------------------------------------------
(* parseCPUInfo: a stanza is counted at the blank line, or the end of the  *)
(* file, if a "processor" line was in it.                                  *)

Blanks(lines) == {e \in DOMAIN lines : lines[e].key = "blank"}

\* A slip: what follows the last blank line is dropped.
LastDropped(lines) == Blanks(lines)

\* Where flush is called.
Flushes(lines) == Blanks(lines) \cup {Len(lines) + 1}

\* The lines since the flush before e.
Stanza(lines, e) == {i \in 1 .. e - 1 : i .. e - 1 \cap Blanks(lines) = {}}

\* What current holds at flush e: the last value under a key, or "".
Current(lines, e, key) ==
    LET given == {i \in Stanza(lines, e) : lines[i].key = key} IN
    IF given = {} THEN "" ELSE lines[Max(given)].value

Procs(lines) == {e \in Flushes(lines) : \E i \in Stanza(lines, e) : lines[i].key = "processor"}

\* The two ids are compared together; without any, every processor has the
\* same key, and the fall-back to CoresLogical is for an empty file only.
ParseCPUInfo(lines) ==
    [logical  |-> Cardinality(Procs(lines)),
     physical |-> Cardinality({<<Current(lines, e, "physical id"), Current(lines, e, "core id")>> :
                                  e \in Procs(lines)})]

=============================================================================
