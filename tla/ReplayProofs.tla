---------------------------- MODULE ReplayProofs ----------------------------
(***************************************************************************)
(* What TLAPS proves of Replay, for any state directory and any number of  *)
(* runs on the same directories, each killed anywhere: the properties of   *)
(* the double pass hold within the command, and what is left in the output *)
(* directory is what the exit code says.                                   *)
(***************************************************************************)
EXTENDS Replay, DoublePassProofs

\* Every step of the command is one that the double pass allows, or none of
\* its own.
LEMMA CmdIsAny == [CmdNext]_vars => [AnyNext]_dpvars
<1> SUFFICES ASSUME CmdNext PROVE [AnyNext]_dpvars
  BY DEF vars
<1>1. CASE CmdStep
  BY <1>1 DEF CmdStep, ParseFlags, MakeOutDir, OpenCorpus, DoublePassStep, PassesDone, DrainSampler,
       CollectSysinfo, CreateTemp, Encode, Rename, CreateBlocks, WriteBlocks, CreateProcs,
       WriteProcs, CreateCSV, WriteRows, AnyNext
<1>2. CASE Interrupt
  BY <1>2 DEF Interrupt, AnyNext, CtxDone
<1>3. CASE Collect \/ RunAgain
  BY <1>3 DEF Collect, RunAgain, AnyNext
<1>4. CASE Kill \/ Over
  BY <1>4 DEF Kill, Over, vars
<1> QED BY <1>1, <1>2, <1>3, <1>4 DEF CmdNext

LEMMA PassTypes == CmdSpec => []TypeOK
<1>1. CmdInit => TypeOK
  BY TypeInit DEF CmdInit
<1>2. TypeOK /\ [CmdNext]_vars => TypeOK'
  BY TypeStep, CmdIsAny
<1> QED BY <1>1, <1>2, PTL DEF CmdSpec

-----------------------------------------------------------------------------
(* The double pass within the command.                                     *)

LEMMA PassInvariant ==
    ASSUME Stores \cap Links = {}
    PROVE  CmdSpec => [](TypeOK /\ CopyInv /\ ResultInv)
<1>1. CmdInit => CopyInv
  BY DEF CmdInit, Init, CopyInv
<1>2. CmdInit => ResultInv
  BY DEF CmdInit, Init, ResultInv, NoResults, FirstPass, Passes
<1>3. TypeOK /\ CopyInv /\ [CmdNext]_vars => CopyInv'
  BY CopyStep, CmdIsAny
<1>4. TypeOK /\ CopyInv /\ ResultInv /\ [CmdNext]_vars => ResultInv'
  BY ResultStep, CmdIsAny
<1> QED BY <1>1, <1>2, <1>3, <1>4, PassTypes, PTL DEF CmdSpec

\* Within the command too, a database is opened on an exact image of the corpus
\* whatever killed and failed runs have left (double_pass.go:39-60).
THEOREM PristineInCommand ==
    ASSUME Stores \cap Links = {}
    PROVE  CmdSpec => []PristineOpen
<1>1. CopyInv => PristineOpen
  BY DEF CopyInv, PristineOpen, At
<1> QED BY <1>1, PassInvariant, PTL

\* The two passes of a command do the same work (double_pass.go:56-80).
THEOREM PassesAgreeInCommand ==
    ASSUME Stores \cap Links = {}
    PROVE  CmdSpec => []PassesAgree
<1>1. TypeOK /\ ResultInv => PassesAgree
  BY DEF TypeOK, ResultInv, PassesAgree, Gas
<1> QED BY <1>1, PassInvariant, PTL

\* A result that the command labels warm has been warmed (replay.go:179).
THEOREM WarmInCommand ==
    ASSUME Stores \cap Links = {}
    PROVE  CmdSpec => []WarmIsWarm
<1>1. ResultInv => WarmIsWarm
  BY DEF ResultInv, WarmIsWarm
<1> QED BY <1>1, PassInvariant, PTL

-----------------------------------------------------------------------------
(* The interrupt.                                                          *)

\* A measured result appears when the blocks of the measured pass are over.
Unmeasured ==
    results["measured"] # "none" => pass = "measured" /\ pc \in {"close", "returned", "down"}

\* The k-th run, if it is still going on, is interrupted and has neither a
\* measured result nor begun to measure.
Cut(k) ==
    /\ runs >= k
    /\ runs = k => /\ ctxErr /\ results["measured"] = "none"
                   /\ pass = "warmup" \/ pc \notin {"blocks", "close"}

LEMMA UnmeasuredStep == TypeOK /\ Unmeasured /\ [AnyNext]_dpvars => Unmeasured'
<1> SUFFICES ASSUME TypeOK, Unmeasured, [AnyNext]_dpvars PROVE Unmeasured'
  OBVIOUS
<1> USE DEF Unmeasured, At, Return, Fails
<1>1. CASE Remove \/ Copy
  BY <1>1 DEF Remove, RemoveEntry, RemoveDone, RemoveFails, Copy, CopyStart, CopyEnd, CopyLink,
              LinkExists, CpEndsBadly, CopyFails, CopyDone
<1>2. CASE Open \/ OpenFails \/ OpenTrie \/ EnterLoop \/ ReplayFails
  BY <1>2 DEF Open, OpenFails, OpenTrie, EnterLoop, ReplayFails
<1>3. CASE ReplayEnds
  BY <1>3 DEF ReplayEnds, TypeOK, Passes
<1>4. CASE Close
  BY <1>4 DEF Close, CloseWarmup, ToMeasured, CloseMeasured
<1>5. CASE CtxDone \/ Finalize \/ Crash
  BY <1>5 DEF CtxDone, Finalize, Crash
<1>6. CASE NewProcess
  BY <1>6 DEF NewProcess, NoResults, Passes
<1>7. CASE UNCHANGED dpvars
  BY <1>7 DEF dpvars
<1> QED BY <1>1, <1>2, <1>3, <1>4, <1>5, <1>6, <1>7 DEF AnyNext, Step, Replay

LEMMA CutStep ==
    ASSUME NEW k \in Nat
    PROVE  TypeOK /\ Cut(k) /\ [AnyNext]_dpvars => Cut(k)'
<1> SUFFICES ASSUME TypeOK, Cut(k), [AnyNext]_dpvars PROVE Cut(k)'
  OBVIOUS
<1>0. runs \in Nat
  BY DoublePassAssumption DEF TypeOK
<1> USE DEF Cut, At, Return, Fails
<1>1. CASE Remove \/ Copy
  BY <1>1 DEF Remove, RemoveEntry, RemoveDone, RemoveFails, Copy, CopyStart, CopyEnd, CopyLink,
              LinkExists, CpEndsBadly, CopyFails, CopyDone
<1>2. CASE Open \/ OpenFails \/ OpenTrie \/ ReplayFails
  BY <1>2 DEF Open, OpenFails, OpenTrie, ReplayFails
<1>3. CASE EnterLoop
  BY <1>3 DEF EnterLoop, Interrupted
<1>4. CASE ReplayEnds
  BY <1>4 DEF ReplayEnds, TypeOK, Passes
<1>5. CASE Close
  BY <1>5 DEF Close, CloseWarmup, ToMeasured, CloseMeasured
<1>6. CASE CtxDone \/ Finalize \/ Crash
  BY <1>6 DEF CtxDone, Finalize, Crash
<1>7. CASE NewProcess
  BY <1>0, <1>7 DEF NewProcess
<1>8. CASE UNCHANGED dpvars
  BY <1>8 DEF dpvars
<1> QED BY <1>1, <1>2, <1>3, <1>4, <1>5, <1>6, <1>7, <1>8 DEF AnyNext, Step, Replay

\* A command interrupted before it has begun to measure yields no measured
\* result, whatever the pass under way still comes to (double_pass.go:63-69).
THEOREM InterruptWinsInCommand == CmdSpec => InterruptWins
<1>1. CmdSpec => [](TypeOK /\ Unmeasured)
  <2>1. CmdInit => Unmeasured
    BY DEF CmdInit, Init, Unmeasured, NoResults, Passes
  <2>2. TypeOK /\ Unmeasured /\ [CmdNext]_vars => Unmeasured'
    BY UnmeasuredStep, CmdIsAny
  <2> QED BY <2>1, <2>2, PassTypes, PTL DEF CmdSpec
<1> SUFFICES ASSUME NEW k \in 1 .. MaxRuns
             PROVE  CmdSpec => []((ctxErr /\ runs = k /\ BeforeMeasuring)
                                     => [](runs = k => results["measured"] = "none"))
  BY DEF InterruptWins
<1>2. TypeOK /\ Unmeasured /\ ctxErr /\ runs = k /\ BeforeMeasuring => Cut(k)
  BY DEF Unmeasured, BeforeMeasuring, Running, Steps, Cut
<1>3. Cut(k) => (runs = k => results["measured"] = "none")
  BY DEF Cut
<1>4. TypeOK /\ Cut(k) /\ [CmdNext]_vars => Cut(k)'
  BY CutStep, CmdIsAny
<1> QED BY <1>1, <1>2, <1>3, <1>4, PTL DEF CmdSpec

-----------------------------------------------------------------------------
(* The output files.                                                       *)

Whole == [run |-> runs, part |-> "full"]

BeforeRename == {"flags", "outdir", "corpus", "passes", "drain", "sysinfo", "temp",
                 "encode", "rename"}

\* How far the run has come, and the files it has written by then.
Progress ==
    /\ exit = "none" <=> cmd \in CmdSteps \cup {"killed"}
    /\ exit = "zero" => \A o \in Outputs : out[o] = Whole
    /\ cmd \in {"blocks", "blockrows", "procs", "procrows"} => out["result"] = Whole
    /\ cmd \in {"procs", "procrows"} => out["blocks"] = Whole
    /\ cmd \in BeforeRename => out["result"].run < runs
    /\ \A o \in Outputs : out[o].run <= runs
    /\ ResultNeverPartial
    /\ CSVsNotNewer

\* The run's own temporary file is there from CreateTemp to Rename, or for good
\* if the run is killed or cannot remove it; later runs have none yet.
Temporary ==
    /\ cmd = "rename" => temps[runs] = "full"
    /\ cmd \notin {"encode", "rename", "killed"} =>
          temps[runs] = "none" \/ (cmd = "ended" /\ stuck /\ exit = "one")
    /\ \A k \in 1 .. MaxRuns : k > runs => temps[k] = "none"
    /\ \A k \in 1 .. MaxRuns : temps[k] # "none" => out["result"].run # k

\* What runReplay does after a double pass, it does after a successful one.
AfterPasses == CmdSteps \ {"flags", "outdir", "corpus", "passes"}
Succeeded == cmd \in AfterPasses => pc = "returned" /\ err = "none"

OutInv == ReplayTypeOK /\ Progress /\ Temporary /\ Succeeded

LEMMA OutInit == CmdInit => OutInv
<1> SUFFICES ASSUME CmdInit PROVE OutInv
  OBVIOUS
<1>1. TypeOK /\ runs = 1
  BY TypeInit DEF CmdInit, Init
<1>2. NoFile \in File
  BY DoublePassAssumption DEF NoFile, File, Parts
<1>4. ReplayTypeOK
  BY <1>1, <1>2 DEF CmdInit, ReplayTypeOK, CmdSteps, Parts
<1>5. Progress
  BY <1>1 DEF CmdInit, Progress, NoFile, ResultNeverPartial, CSVsNotNewer, Outputs, CmdSteps,
              BeforeRename
<1>6. Temporary
  BY <1>1, DoublePassAssumption DEF CmdInit, Temporary
<1> QED BY <1>4, <1>5, <1>6 DEF OutInv, Succeeded, AfterPasses, CmdInit

\* A step that leaves the files alone, and goes on to a step that presupposes
\* nothing of them, or ends with an error.
LEMMA FilesAlone ==
    ASSUME OutInv, TypeOK',
           UNCHANGED <<runs, out, temps, stuck>>,
           cmd \in BeforeRename \ {"encode", "rename"},
           \/ cmd' \in {"flags", "outdir", "corpus", "passes", "drain", "sysinfo", "temp"}
                 /\ UNCHANGED exit
           \/ cmd' = "ended" /\ exit' = "one"
    PROVE  ReplayTypeOK' /\ Progress' /\ Temporary'
<1> USE DEF OutInv
<1>1. ReplayTypeOK'
  BY DEF ReplayTypeOK, CmdSteps, BeforeRename
<1>2. Progress'
  BY DEF Progress, CmdSteps, BeforeRename, ResultNeverPartial, CSVsNotNewer, Whole
<1>3. temps[runs] = "none"
  BY DEF Temporary, BeforeRename
<1>4. cmd' \notin {"encode", "rename", "killed"}
  OBVIOUS
<1>5. Temporary'
  BY <1>3, <1>4 DEF Temporary
<1> QED BY <1>1, <1>2, <1>5

LEMMA WriteResultStep ==
    ASSUME OutInv, TypeOK', CreateTemp \/ Encode \/ Rename
    PROVE  OutInv'
<1> USE DEF OutInv, Now, Goto, Leave, RemoveTemp, OnEncodeError
<1>1. runs' = runs /\ runs \in 1 .. MaxRuns /\ UNCHANGED <<pc, err>> /\ stuck' \in BOOLEAN
  BY DEF CreateTemp, Encode, Rename, ReplayTypeOK, TypeOK, dpvars
<1>2. temps' \in [1 .. MaxRuns -> Parts]
  BY <1>1 DEF CreateTemp, Encode, Rename, ReplayTypeOK, Parts
<1>3. out["result"].run < runs /\ out["result"].run \in Nat
  BY DEF CreateTemp, Encode, Rename, Progress, BeforeRename, ReplayTypeOK, Outputs, File
<1>4. \A p \in Parts : temps' = [temps EXCEPT ![runs] = p] =>
         temps'[runs] = p /\ \A k \in 1 .. MaxRuns : k # runs => temps'[k] = temps[k]
  BY <1>1 DEF ReplayTypeOK
<1> DEFINE Onward == \/ cmd' \in {"encode", "rename"} /\ UNCHANGED exit
                     \/ cmd' = "ended" /\ exit' = "one"
<1>5. ASSUME out' = out, Onward, cmd \in {"temp", "encode", "rename"}, Temporary'
      PROVE  OutInv'
  <2>1. ReplayTypeOK'
    BY <1>1, <1>2, <1>5 DEF ReplayTypeOK, CmdSteps
  <2>2. Progress'
    BY <1>1, <1>3, <1>5 DEF Progress, CmdSteps, BeforeRename, ResultNeverPartial, CSVsNotNewer,
                            Whole
  <2> QED BY <1>1, <1>5, <2>1, <2>2 DEF Succeeded, AfterPasses, CmdSteps
<1>6. CASE CreateTemp
  <2>1. Temporary'
    BY <1>1, <1>3, <1>4, <1>6 DEF CreateTemp, Temporary, Parts
  <2> QED BY <1>5, <1>6, <2>1 DEF CreateTemp
<1>7. CASE Encode
  <2>1. Temporary'
    BY <1>1, <1>3, <1>4, <1>7 DEF Encode, Temporary, Parts
  <2> QED BY <1>5, <1>7, <2>1 DEF Encode
<1>8. CASE Rename /\ cmd' = "ended"
  <2>1. Temporary'
    BY <1>1, <1>3, <1>4, <1>8 DEF Rename, Temporary, Parts
  <2>2. out' = out /\ Onward /\ cmd = "rename"
    BY <1>8 DEF Rename
  <2> QED BY <1>5, <2>1, <2>2
<1>9. CASE Rename /\ cmd' = "blocks"
  <2>1. out' = [out EXCEPT !["result"] = Whole] /\ temps' = [temps EXCEPT ![runs] = "none"]
    BY <1>9 DEF Rename, Write, Temporary, Whole
  <2>2. Whole \in File /\ Whole.part = "full" /\ Whole.run = runs /\ Whole' = Whole
    BY <1>1 DEF Whole, File, Parts
  <2>3. ReplayTypeOK'
    BY <1>1, <1>2, <1>9, <2>1, <2>2 DEF Rename, ReplayTypeOK, CmdSteps
  <2>4. Progress'
    BY <1>1, <1>9, <2>1, <2>2
       DEF Rename, Progress, CmdSteps, BeforeRename, ResultNeverPartial, CSVsNotNewer, ReplayTypeOK,
           Outputs, File
  <2>5. Temporary'
    BY <1>1, <1>4, <1>9, <2>1, <2>2 DEF Rename, Temporary, Parts, ReplayTypeOK, Outputs
  <2> QED BY <1>1, <1>9, <2>3, <2>4, <2>5 DEF Rename, Succeeded, AfterPasses, CmdSteps
<1> QED BY <1>6, <1>7, <1>8, <1>9 DEF Rename

LEMMA RowsStep ==
    ASSUME OutInv, TypeOK', CreateBlocks \/ WriteBlocks \/ CreateProcs \/ WriteProcs
    PROVE  OutInv'
<1> USE DEF OutInv, Now, Goto, Leave, OnRowError, CreateBlocks, WriteBlocks, CreateProcs, WriteProcs,
            CreateCSV, WriteRows
<1>1. /\ runs' = runs /\ runs \in 1 .. MaxRuns /\ UNCHANGED <<pc, err, temps, stuck>>
      /\ cmd \in {"blocks", "blockrows", "procs", "procrows"}
      /\ cmd' \in {"blockrows", "procs", "procrows", "ended"}
  BY DEF ReplayTypeOK, TypeOK, dpvars
<1>2. out'["result"] = out["result"] => Temporary'
  BY <1>1 DEF Temporary
<1>3. CASE out' = out /\ cmd' = "ended" /\ exit' = "one"
  <2>1. ReplayTypeOK'
    BY <1>1, <1>3 DEF ReplayTypeOK
  <2>2. Progress'
    BY <1>1, <1>3 DEF Progress, CmdSteps, BeforeRename, ResultNeverPartial, CSVsNotNewer, Whole
  <2> QED BY <1>1, <1>2, <1>3, <2>1, <2>2 DEF Succeeded, AfterPasses, CmdSteps
<1>4. ASSUME NEW o \in {"blocks", "procs"}, NEW p \in {"partial", "full"}, Write(o, p),
             o = "blocks" => cmd \in {"blocks", "blockrows"},
             o = "blocks" => cmd' \in {"blockrows", "procs"} /\ (cmd' = "procs" => p = "full"),
             o = "procs" => cmd \in {"procs", "procrows"},
             o = "procs" => cmd' \in {"procrows", "ended"},
             cmd' # "ended" => exit' = exit,
             cmd' = "ended" => exit' = "zero" /\ p = "full"
      PROVE  OutInv'
  <2>1. out' = [out EXCEPT ![o] = [run |-> runs, part |-> p]]
    BY <1>4 DEF Write
  <2>2. [run |-> runs, part |-> p] \in File
    BY <1>1 DEF File, Parts
  <2>3. ReplayTypeOK'
    BY <1>1, <1>4, <2>1, <2>2 DEF ReplayTypeOK, CmdSteps
  <2>4. /\ out'["result"] = out["result"] /\ out["result"] = Whole
        /\ Whole' = Whole /\ Whole.run = runs /\ Whole.part = "full"
    BY <1>1, <2>1 DEF Progress, Whole, ReplayTypeOK, Outputs
  <2>5. out'[o] = [run |-> runs, part |-> p] /\ \A q \in Outputs \ {o} : out'[q] = out[q]
    BY <2>1 DEF ReplayTypeOK, Outputs
  <2>6. Progress'
    BY <1>1, <1>4, <2>4, <2>5
       DEF Progress, CmdSteps, BeforeRename, ResultNeverPartial, CSVsNotNewer, ReplayTypeOK, Outputs,
           File, Whole
  <2> QED BY <1>1, <1>2, <2>3, <2>4, <2>6 DEF Succeeded, AfterPasses, CmdSteps
<1>5. CASE CreateBlocks
  BY <1>3, <1>4, <1>5
<1>6. CASE WriteBlocks
  BY <1>3, <1>4, <1>6
<1>7. CASE CreateProcs
  BY <1>3, <1>4, <1>7
<1>8. CASE WriteProcs
  BY <1>3, <1>4, <1>8
<1> QED BY <1>5, <1>6, <1>7, <1>8

LEMMA OutStep == OutInv /\ [CmdNext]_vars => OutInv'
<1> SUFFICES ASSUME OutInv, [CmdNext]_vars PROVE OutInv'
  OBVIOUS
<1> USE DEF OutInv
<1>1. TypeOK'
  BY TypeStep, CmdIsAny DEF ReplayTypeOK
<1>2. CASE ParseFlags \/ MakeOutDir \/ OpenCorpus \/ PassesDone \/ DrainSampler \/ CollectSysinfo
  <2>1. Succeeded'
    BY <1>2 DEF ParseFlags, MakeOutDir, OpenCorpus, PassesDone, DrainSampler, CollectSysinfo, Now,
         Goto, Leave, PassesSucceeded, Succeeded, AfterPasses, CmdSteps, AfterSysinfo, dpvars
  <2>2. ReplayTypeOK' /\ Progress' /\ Temporary'
    BY <1>1, <1>2, FilesAlone DEF ParseFlags, MakeOutDir, OpenCorpus, PassesDone, DrainSampler,
         CollectSysinfo, Now, Goto, Leave, AfterSysinfo, BeforeRename, dpvars
  <2> QED BY <2>1, <2>2
<1>3. CASE DoublePassStep \/ Collect
  <2>1. runs' = runs
    BY <1>3 DEF DoublePassStep, Step, Remove, Copy, Replay, Close, RemoveEntry, RemoveDone, RemoveFails,
         CopyStart, CopyEnd, CopyLink, LinkExists, CpEndsBadly, CopyFails, CopyDone, Open, OpenFails,
         OpenTrie, EnterLoop, ReplayEnds, ReplayFails, CloseWarmup, ToMeasured, CloseMeasured, Fails,
         Collect, Finalize
  <2>2. Succeeded'
    BY <1>3 DEF DoublePassStep, Collect, Now, Succeeded, AfterPasses
  <2>3. ReplayTypeOK' /\ Progress' /\ Temporary'
    BY <1>1, <1>3, <2>1, FilesAlone DEF DoublePassStep, Collect, Now, BeforeRename
  <2> QED BY <2>2, <2>3
<1>4. CASE CreateTemp \/ Encode \/ Rename
  BY <1>1, <1>4, WriteResultStep
<1>5. CASE CreateBlocks \/ WriteBlocks \/ CreateProcs \/ WriteProcs
  BY <1>1, <1>5, RowsStep
<1>6. CASE Interrupt
  BY <1>1, <1>6 DEF Interrupt, ReplayTypeOK, Progress, Temporary, Succeeded, ResultNeverPartial,
       CSVsNotNewer, Whole, BeforeRename
<1>7. CASE Kill
  BY <1>1, <1>7 DEF Kill, Busy, dpvars, ReplayTypeOK, Progress, Temporary, Succeeded, CmdSteps,
       AfterPasses, ResultNeverPartial, CSVsNotNewer, Whole, BeforeRename
<1>8. CASE RunAgain
  <2>1. /\ runs \in 1 .. MaxRuns /\ runs' = runs + 1 /\ cmd' = "flags" /\ exit' = "none"
        /\ out' = out /\ temps' = temps /\ stuck' = FALSE
    BY <1>8 DEF RunAgain, NewProcess, ReplayTypeOK, TypeOK
  <2>2. ReplayTypeOK'
    BY <1>1, <2>1 DEF ReplayTypeOK, CmdSteps
  <2>3. Progress'
    BY <2>1 DEF Progress, CmdSteps, BeforeRename, ResultNeverPartial, CSVsNotNewer, ReplayTypeOK,
         File, Outputs
  <2>4. Temporary'
    BY <1>1, <2>1 DEF Temporary, TypeOK
  <2> QED BY <2>1, <2>2, <2>3, <2>4 DEF Succeeded, AfterPasses
<1>9. CASE UNCHANGED vars
  BY <1>1, <1>9 DEF vars, dpvars, ReplayTypeOK, Progress, Temporary, Succeeded, ResultNeverPartial,
       CSVsNotNewer, Whole, BeforeRename
<1> QED BY <1>2, <1>3, <1>4, <1>5, <1>6, <1>7, <1>8, <1>9 DEF CmdNext, CmdStep, Over

LEMMA OutInvariant == CmdSpec => []OutInv
BY OutInit, OutStep, PTL DEF CmdSpec

\* Every reachable state of the command is well typed.
THEOREM ReplayTypeCorrect == CmdSpec => []ReplayTypeOK
<1>1. OutInv => ReplayTypeOK
  BY DEF OutInv
<1> QED BY <1>1, OutInvariant, PTL

\* result.json is whole or absent at every moment, wherever a process is killed
\* (result_writer.go:15-34); the machine does not fail.
THEOREM ResultNeverPartialCorrect == CmdSpec => []ResultNeverPartial
<1>1. OutInv => ResultNeverPartial
  BY DEF OutInv, Progress
<1> QED BY <1>1, OutInvariant, PTL

\* No CSV file is of a later run than result.json (replay.go:142-172).
THEOREM CSVsNotNewerCorrect == CmdSpec => []CSVsNotNewer
<1>1. OutInv => CSVsNotNewer
  BY DEF OutInv, Progress
<1> QED BY <1>1, OutInvariant, PTL

\* Exit code 0 means three whole files of this very run (replay.go:142-176).
THEOREM ExitZeroCorrect == CmdSpec => []ExitZeroMeansAllThree
<1>1. OutInv => ExitZeroMeansAllThree
  BY DEF OutInv, Progress, ExitZeroMeansAllThree, Whole
<1> QED BY <1>1, OutInvariant, PTL

\* A temporary file is left only by a run that was killed, or that failed and
\* could not remove it, and never beside that run's own result.json
\* (result_writer.go:15-34).
THEOREM NoTempLeftCorrect == CmdSpec => []NoTempLeft
<1>1. OutInv => NoTempLeft
  BY DEF OutInv, ReplayTypeOK, TypeOK, Temporary, NoTempLeft
<1> QED BY <1>1, OutInvariant, PTL

\* result.json changes only in a run both of whose passes have succeeded on
\* unspoilt copies (replay.go:68-76, 142).
THEOREM ResultOnlyAfterMeasuredCorrect ==
    ASSUME Stores \cap Links = {}
    PROVE  CmdSpec => ResultOnlyAfterMeasured
<1> DEFINE Earned == /\ err = "none"
                     /\ results["measured"] = "same"
                     /\ skip \/ results["warmup"] = "same"
<1>1. OutInv /\ ResultInv /\ [CmdNext]_vars => [out'["result"] # out["result"] => Earned]_vars
  <2> SUFFICES ASSUME OutInv, ResultInv, [CmdNext]_vars, out'["result"] # out["result"]
               PROVE  Earned
    OBVIOUS
  <2>1. cmd = "rename"
    BY DEF CmdNext, CmdStep, ParseFlags, MakeOutDir, OpenCorpus, DoublePassStep, PassesDone, DrainSampler,
         CollectSysinfo, CreateTemp, Encode, Rename, CreateBlocks, WriteBlocks, CreateProcs,
         WriteProcs, CreateCSV, WriteRows, Write, Interrupt, Collect, Kill, RunAgain, Over, vars, Now,
         OutInv, ReplayTypeOK, Outputs
  <2>2. pc = "returned" /\ err = "none"
    BY <2>1 DEF OutInv, Succeeded, AfterPasses, CmdSteps
  <2> QED BY <2>2, ResultsSame DEF OutInv, ReplayTypeOK
<1> QED BY <1>1, OutInvariant, PassInvariant, PTL DEF CmdSpec, ResultOnlyAfterMeasured

=============================================================================
