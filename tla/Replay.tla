------------------------------- MODULE Replay -------------------------------
(***************************************************************************)
(* The replay command (cmd/evmbench/replay.go) around RunDoublePass: flags, *)
(* output directory, corpus; then the sampler is stopped, the host is      *)
(* described, and the three output files are written by report.WriteResult *)
(* and the two CSV writers.  The process may be killed at any point, and a *)
(* later run may use the same output directory.                            *)
(***************************************************************************)
EXTENDS DoublePass

CONSTANTS
    BadFlags,      \* may --from/--to be given?
    BadCorpora     \* may corpus.Open fail?

ASSUME ReplayAssumption == BadFlags \in BOOLEAN /\ BadCorpora \in BOOLEAN

VARIABLES
    cmd,    \* where runReplay is
    exit,   \* the exit code of the process
    out,    \* the three files of the output directory
    temps,  \* the temporary file of every run
    stuck   \* history: has this run failed to remove its temporary file?

vars == <<dpvars, cmd, exit, out, temps, stuck>>

CmdSteps == {"flags", "outdir", "corpus", "passes", "drain", "sysinfo", "temp", "encode",
             "rename", "blocks", "blockrows", "procs", "procrows"}

\* What is on the disk: the run that wrote it (0: none), and how much.
Parts == {"none", "partial", "full"}
File == [run: 0 .. MaxRuns, part: Parts]
NoFile == [run |-> 0, part |-> "none"]
Outputs == {"result", "blocks", "procs"}

ReplayTypeOK ==
    /\ TypeOK
    /\ cmd \in CmdSteps \cup {"ended", "killed"}
    /\ exit \in {"none", "zero", "one"}
    /\ out \in [Outputs -> File]
    /\ temps \in [1 .. MaxRuns -> Parts]
    /\ stuck \in BOOLEAN

CmdInit ==
    /\ Init
    /\ cmd = "flags" /\ exit = "none"
    /\ out = [o \in Outputs |-> NoFile]
    /\ temps = [k \in 1 .. MaxRuns |-> "none"]
    /\ stuck = FALSE

-----------------------------------------------------------------------------
(* Before and around the double pass.                                      *)

Now(step) == cmd = step
Goto(step) == cmd' = step /\ UNCHANGED exit

\* runReplay returns; main turns an error into exit code 1.
Leave(code) == cmd' = "ended" /\ exit' = code

Write(o, p) == out' = [out EXCEPT ![o] = [run |-> runs, part |-> p]]

ParseFlags ==
    /\ Now("flags")
    /\ Goto("outdir") \/ (BadFlags /\ Leave("one"))
    /\ UNCHANGED <<dpvars, out, temps, stuck>>

MakeOutDir ==
    /\ Now("outdir")
    /\ Goto("corpus") \/ (IOErrors /\ Leave("one"))
    /\ UNCHANGED <<dpvars, out, temps, stuck>>

OpenCorpus ==
    /\ Now("corpus")
    /\ Goto("passes") \/ (BadCorpora /\ Leave("one"))
    /\ UNCHANGED <<dpvars, out, temps, stuck>>

DoublePassStep ==
    /\ Now("passes")
    /\ Step
    /\ UNCHANGED <<cmd, exit, out, temps, stuck>>

\* A slip: the error of the double pass is not looked at.
IgnoreError == TRUE

PassesSucceeded == err = "none"

PassesDone ==
    /\ Now("passes")
    /\ pc = "returned"
    /\ IF PassesSucceeded THEN Goto("drain") ELSE Leave("one")
    /\ UNCHANGED <<dpvars, out, temps, stuck>>

\* A slip: the sampling goroutine listens to the context, not to Stop.
SamplerEndsOnCancel == ctxErr

\* measured.Sampler.Stop() returns (ProcSampler's StopReturns).
SamplerEnds == TRUE

DrainSampler ==
    /\ Now("drain")
    /\ SamplerEnds
    /\ Goto("sysinfo")
    /\ UNCHANGED <<dpvars, out, temps, stuck>>

\* A slip: the CSV files are written first.
RowsFirst == "blocks"

AfterSysinfo == "temp"

\* sysinfo.Collect and the aggregation report no error.
CollectSysinfo ==
    /\ Now("sysinfo")
    /\ Goto(AfterSysinfo)
    /\ UNCHANGED <<dpvars, out, temps, stuck>>

-----------------------------------------------------------------------------
(* WriteResult.                                                            *)

CreateTemp ==
    /\ Now("temp")
    /\ \/ Goto("encode") /\ temps' = [temps EXCEPT ![runs] = "partial"]
       \/ IOErrors /\ Leave("one") /\ UNCHANGED temps
    /\ UNCHANGED <<dpvars, out, stuck>>

\* A slip: the temporary file is removed on success only.
KeepTemp == UNCHANGED <<temps, stuck>>

\* The deferred os.Remove of the temporary file, whose error is dropped.
RemoveTemp ==
    \/ temps' = [temps EXCEPT ![runs] = "none"] /\ UNCHANGED stuck
    \/ IOErrors /\ stuck' = TRUE /\ UNCHANGED temps

\* A slip: the encoder's error is not looked at.
EncodeErrorIgnored == Goto("rename") /\ UNCHANGED <<temps, stuck>>

OnEncodeError == Leave("one") /\ RemoveTemp

\* Encode and Close: the encoder or the file reports an error, or all is written.
Encode ==
    /\ Now("encode")
    /\ \/ Goto("rename") /\ temps' = [temps EXCEPT ![runs] = "full"] /\ UNCHANGED stuck
       \/ IOErrors /\ OnEncodeError
    /\ UNCHANGED <<dpvars, out>>

\* After a rename os.Remove finds no file of that name any more.
Rename ==
    /\ Now("rename")
    /\ \/ /\ Goto("blocks") /\ Write("result", temps[runs])
          /\ temps' = [temps EXCEPT ![runs] = "none"] /\ UNCHANGED stuck
       \/ IOErrors /\ Leave("one") /\ RemoveTemp /\ UNCHANGED out
    /\ UNCHANGED dpvars

-----------------------------------------------------------------------------
(* The CSV writers: os.Create truncates; rows go through a buffer, so until *)
(* Close has flushed it the file holds any prefix.                          *)

CreateCSV(o, rows) ==
    /\ \/ Goto(rows) /\ Write(o, "partial")
       \/ IOErrors /\ Leave("one") /\ UNCHANGED out
    /\ UNCHANGED <<dpvars, temps, stuck>>

\* A slip: an error of Close, which flushes, is not looked at.
FlushUnchecked == Leave("zero")

OnRowError == Leave("one")

\* Write the rows and close: the file is whole, or any prefix with an error.
WriteRows(o, next) ==
    /\ \/ next /\ Write(o, "full")
       \/ IOErrors /\ OnRowError /\ UNCHANGED out
    /\ UNCHANGED <<dpvars, temps, stuck>>

CreateBlocks == Now("blocks") /\ CreateCSV("blocks", "blockrows")
CreateProcs == Now("procs") /\ CreateCSV("procs", "procrows")

WriteBlocks == Now("blockrows") /\ WriteRows("blocks", Goto("procs"))
WriteProcs == Now("procrows") /\ WriteRows("procs", Leave("zero"))

-----------------------------------------------------------------------------
(* The user, the kernel, and the next run.                                 *)

Busy == cmd \in CmdSteps

\* NotifyContext takes SIGINT and SIGTERM until the process ends: a signal
\* cancels the context and does nothing else.
Interrupt ==
    /\ Busy
    /\ ~ctxErr
    /\ ctxErr' = TRUE
    /\ UNCHANGED <<pc, pass, skip, dirs, todo, source, locks, fresh, results, err,
                   verdict, runs, cmd, exit, out, temps, stuck>>

\* SIGKILL, the OOM killer, log.Crit: nothing deferred runs, and the files
\* stay as the process has left them: the machine goes on.
Kill ==
    /\ Busy
    /\ cmd' = "killed"
    /\ UNCHANGED <<dpvars, exit, out, temps, stuck>>

Collect ==
    /\ Now("passes")
    /\ Finalize
    /\ UNCHANGED <<cmd, exit, out, temps, stuck>>

RunAgain ==
    /\ ~Busy
    /\ NewProcess
    /\ cmd' = "flags" /\ exit' = "none" /\ stuck' = FALSE
    /\ UNCHANGED <<out, temps>>

Over == ~Busy /\ runs = MaxRuns /\ UNCHANGED vars

CmdStep ==
    \/ ParseFlags \/ MakeOutDir \/ OpenCorpus \/ DoublePassStep \/ PassesDone
    \/ DrainSampler \/ CollectSysinfo
    \/ CreateTemp \/ Encode \/ Rename
    \/ CreateBlocks \/ WriteBlocks \/ CreateProcs \/ WriteProcs

CmdNext == CmdStep \/ Interrupt \/ Collect \/ Kill \/ RunAgain \/ Over

CmdSpec == CmdInit /\ [][CmdNext]_vars /\ WF_vars(CmdStep)

-----------------------------------------------------------------------------
(* Properties.                                                             *)

\* result_writer.go:10, "WriteResult atomically writes r": whoever reads
\* result.json at any moment, also after the process was killed, finds a whole
\* one or none.
ResultNeverPartial == out["result"].part # "partial"

\* result.json is a run's first visible output and the rows follow: a CSV
\* file is never of a later run than result.json, nor the samples than the
\* blocks (replay.go:142-172).
CSVsNotNewer ==
    /\ out["blocks"].run <= out["result"].run
    /\ out["procs"].run <= out["blocks"].run

\* Exit code 0 promises the three files of this run, whole (design.md:193).
ExitZeroMeansAllThree ==
    exit = "zero" => \A o \in Outputs : out[o] = [run |-> runs, part |-> "full"]

\* A temporary file outlives a run only if the run was killed or could not
\* remove it, and then the run says that it failed; and what is left over is
\* never beside a result.json of the same run (result_writer.go:15-34).
NoTempLeft ==
    /\ cmd = "ended" /\ temps[runs] # "none" => stuck /\ exit = "one"
    /\ \A k \in 1 .. MaxRuns : temps[k] # "none" => out["result"].run # k

\* result.json changes only after both passes of this very process have
\* succeeded (the warm-up unless it was skipped); a failed or interrupted
\* run leaves an earlier run's result as it was.
ResultOnlyAfterMeasured ==
    [][out'["result"] # out["result"] =>
          /\ err = "none"
          /\ results["measured"] = "same"
          /\ skip \/ results["warmup"] = "same"]_vars

\* Every run that is not killed ends, whatever cp, the disk, the corpus and
\* the user do.
RunEnds == \A k \in 1 .. MaxRuns : (runs = k /\ Busy) ~> (~Busy \/ runs > k)

=============================================================================
