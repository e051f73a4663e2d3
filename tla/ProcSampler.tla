---------------------------- MODULE ProcSampler ----------------------------
(***************************************************************************)
(* The process sampler of a measured pass: a goroutine that reads          *)
(* /proc/self on every tick of a time.Ticker, and the goroutine of the     *)
(* command that starts it and either stops and drains it or, when the pass *)
(* fails, abandons it (internal/metrics/proc_sampler.go, and its callers   *)
(* runner/pass.go and cmd/evmbench/replay.go).                             *)
(*                                                                         *)
(* utime and stime are read, subtracted and added together by the same     *)
(* statements, so one counter stands for both.  The memory and I/O columns *)
(* of a sample are stored as read and are left out.                        *)
(***************************************************************************)
EXTENDS Sums

CONSTANTS
    Cores,        \* jiffies the process can burn in one instant
    Horizon,      \* bound: instants after it are not told apart
    MaxSamples,   \* bound: samples after this many are not kept
    Word,         \* the range of a uint64
    ReadsMayFail  \* may reading or parsing /proc/self/stat fail?

ASSUME SamplerAssumption ==
    /\ Cores \in Nat \ {0}
    /\ Horizon \in Nat
    /\ MaxSamples \in Nat
    /\ Word \in Nat \ {0}
    /\ Cores * Horizon < Word
    /\ ReadsMayFail \in BOOLEAN

VARIABLES
    loop,      \* program counter of the sampling goroutine
    main,      \* what the command has done with the sampler
    stopChan,  \* TRUE once closed by Stop
    doneChan,  \* TRUE once closed by the exit of loop
    tickC,     \* TRUE while the ticker's channel (capacity 1) holds a tick
    initial,   \* the argument of the tick() being executed
    clock,     \* the instant, as time.Now() reads it
    cpu,       \* jiffies burned by the process so far (kept by the kernel)
    now,       \* tick's local: the instant it read
    reading,   \* tick's local: the jiffies it read
    prevTs, prevCpu,
    samples,   \* p.samples
    drained,   \* what Stop returned
    base       \* history: the reading of the initial tick

clocks == <<clock, cpu>>
locals == <<initial, now, reading, prevTs, prevCpu, base>>
vars == <<loop, main, stopChan, doneChan, tickC, clocks, locals, samples, drained>>

LoopPC == {"off", "spawned", "clock", "stat", "append", "select", "return", "done"}
MainPC == {"new", "running", "stopping", "drained", "abandoned", "exited"}
Sample == [ts: Nat, dt: Nat, cpu: 0 .. Word - 1]

TypeOK ==
    /\ loop \in LoopPC
    /\ main \in MainPC
    /\ stopChan \in BOOLEAN /\ doneChan \in BOOLEAN /\ tickC \in BOOLEAN
    /\ initial \in BOOLEAN
    /\ clock \in 0 .. Horizon
    /\ cpu \in 0 .. Cores * clock
    /\ now \in Nat /\ prevTs \in Nat
    /\ reading \in 0 .. Word - 1
    /\ prevCpu \in 0 .. Word - 1
    /\ base \in 0 .. Word - 1
    /\ samples \in Seq(Sample)
    /\ drained \in Seq(Sample)

Init ==
    /\ loop = "off" /\ main = "new"
    /\ stopChan = FALSE /\ doneChan = FALSE /\ tickC = FALSE
    /\ initial = TRUE
    /\ clock = 0 /\ cpu = 0
    /\ now = 0 /\ reading = 0
    /\ prevTs = 0 /\ prevCpu = 0
    /\ samples = << >> /\ drained = << >>
    /\ base = 0

-----------------------------------------------------------------------------
(* Arithmetic of tick().                                                   *)

\* Slips: operands swapped; the total since the start instead of the delta.
CpuSwapped(a, b) == b - a
CpuSinceStart(a, b) == a - base

\* utime-p.prevUtime on uint64: it wraps below zero.
CpuSince(a, b) == IF a >= b THEN a - b ELSE Word + a - b

\* cpu_pct is a rate over dt; when dt is not positive the sample says 0.
CpuShown(dt, burned) == IF dt > 0 THEN burned ELSE 0

\* A slip: the window taken to be one ticker interval, ticks being dropped or not.
FixedWindow(t, r) == [ts |-> t, dt |-> 1, cpu |-> CpuShown(1, CpuSince(r, prevCpu))]

\* The window of a sample starts at the previous reading, whatever happened
\* to it.
NewSample(t, r) ==
    [ts |-> t, dt |-> t - prevTs, cpu |-> CpuShown(t - prevTs, CpuSince(r, prevCpu))]

-----------------------------------------------------------------------------
(* The command.                                                            *)

Start ==
    /\ main = "new"
    /\ main' = "running"
    /\ loop' = "spawned"
    /\ UNCHANGED <<stopChan, doneChan, tickC, clocks, locals, samples, drained>>

\* Stop, first statement: close(p.stopChan).
CloseStop ==
    /\ main = "running"
    /\ main' = "stopping"
    /\ stopChan' = TRUE
    /\ UNCHANGED <<loop, doneChan, tickC, clocks, locals, samples, drained>>

\* A slip: Stop does not wait.
DrainAtOnce == TRUE

\* <-p.doneChan blocks until the goroutine has returned.
MayDrain == doneChan

Drain ==
    /\ main = "stopping"
    /\ MayDrain
    /\ main' = "drained"
    /\ drained' = samples
    /\ UNCHANGED <<loop, stopChan, doneChan, tickC, clocks, locals, samples>>

\* RunPass returns PassResult{} on an error after Start: nobody holds the
\* sampler any more and nobody stops it.
Abandon ==
    /\ main = "running"
    /\ main' = "abandoned"
    /\ UNCHANGED <<loop, stopChan, doneChan, tickC, clocks, locals, samples, drained>>

\* The process ends, and the goroutine with it.
Exit ==
    /\ main \in {"drained", "abandoned"}
    /\ main' = "exited"
    /\ UNCHANGED <<loop, stopChan, doneChan, tickC, clocks, locals, samples, drained>>

-----------------------------------------------------------------------------
(* The sampling goroutine.                                                 *)

Alive == main # "exited"

\* NewTicker, then p.tick(true).
Begin ==
    /\ Alive
    /\ loop = "spawned"
    /\ loop' = "clock"
    /\ initial' = TRUE
    /\ UNCHANGED <<main, stopChan, doneChan, tickC, clocks, now, reading,
                   prevTs, prevCpu, base, samples, drained>>

\* now := time.Now()
ReadClock ==
    /\ Alive
    /\ loop = "clock"
    /\ loop' = "stat"
    /\ now' = clock
    /\ UNCHANGED <<main, stopChan, doneChan, tickC, clocks, initial, reading,
                   prevTs, prevCpu, base, samples, drained>>

\* What readUtimeStime can return: the counters, or zeros when it fails.
Readable == {cpu} \cup (IF ReadsMayFail THEN {0} ELSE {})

ReadStat ==
    /\ Alive
    /\ loop = "stat"
    /\ loop' = "append"
    /\ reading' \in Readable
    /\ UNCHANGED <<main, stopChan, doneChan, tickC, clocks, initial, now,
                   prevTs, prevCpu, base, samples, drained>>

\* The rest of tick(): append unless initial, then remember the reading.
Record ==
    /\ Alive
    /\ loop = "append"
    /\ loop' = "select"
    /\ samples' = IF initial \/ Len(samples) >= MaxSamples
                  THEN samples
                  ELSE Append(samples, NewSample(now, reading))
    /\ base' = IF initial THEN reading ELSE base
    /\ prevTs' = now
    /\ prevCpu' = reading
    /\ UNCHANGED <<main, stopChan, doneChan, tickC, clocks, initial, now,
                   reading, drained>>

\* A slip: the stop case is taken only when no tick waits.
StopOnlyWhenIdle == stopChan /\ ~tickC

\* select chooses among its ready cases; these are the two cases.
TickReady == tickC
StopReady == stopChan

SelectTick ==
    /\ Alive
    /\ loop = "select"
    /\ TickReady
    /\ tickC' = FALSE
    /\ initial' = FALSE
    /\ loop' = "clock"
    /\ UNCHANGED <<main, stopChan, doneChan, clocks, now, reading, prevTs,
                   prevCpu, base, samples, drained>>

SelectStop ==
    /\ Alive
    /\ loop = "select"
    /\ StopReady
    /\ loop' = "return"
    /\ UNCHANGED <<main, stopChan, doneChan, tickC, clocks, locals, samples, drained>>

\* The deferred t.Stop() and close(p.doneChan).
Return ==
    /\ Alive
    /\ loop = "return"
    /\ loop' = "done"
    /\ doneChan' = TRUE
    /\ UNCHANGED <<main, stopChan, tickC, clocks, locals, samples, drained>>

-----------------------------------------------------------------------------
(* The runtime and the kernel.                                             *)

\* The ticker sends without blocking: a tick finding the channel full is
\* dropped.  It stops when loop returns.
Ticker ==
    /\ Alive
    /\ loop \notin {"off", "spawned", "done"}
    /\ ~tickC
    /\ tickC' = TRUE
    /\ UNCHANGED <<loop, main, stopChan, doneChan, clocks, locals, samples, drained>>

Elapse ==
    /\ Alive
    /\ clock < Horizon
    /\ clock' = clock + 1
    /\ \E n \in 0 .. Cores : cpu' = cpu + n
    /\ UNCHANGED <<loop, main, stopChan, doneChan, tickC, locals, samples, drained>>

\* The process is gone: the one state with nothing left to do.
Exited == main = "exited" /\ UNCHANGED vars

Tick == ReadClock \/ ReadStat \/ Record

Next ==
    \/ Start \/ CloseStop \/ Drain \/ Abandon \/ Exit
    \/ Begin \/ Tick \/ SelectTick \/ SelectStop \/ Return
    \/ Ticker \/ Elapse
    \/ Exited

\* Both goroutines are scheduled.  A Go select picks among its ready cases
\* uniformly at random, so a case that is ready again and again is taken:
\* strong fairness for the stop case.  Nothing is assumed of the ticker,
\* of the clock, or of the moment the pass ends.
Fairness ==
    /\ WF_vars(Begin) /\ WF_vars(Tick) /\ WF_vars(SelectTick) /\ WF_vars(Return)
    /\ SF_vars(SelectStop)
    /\ WF_vars(Drain) /\ WF_vars(Exit)

Spec == Init /\ [][Next]_vars /\ Fairness

-----------------------------------------------------------------------------
(* Properties.                                                             *)

SumCpu(s) == Total([i \in DOMAIN s |-> s[i].cpu])

\* CPU time is attributed at most once: the jiffies of all samples together
\* are jiffies burned between the initial reading and the last one, and
\* none is lost while every window has a length (proc_sampler.go:70-96).
CpuConserved ==
    /\ SumCpu(samples) <= prevCpu - base
    /\ Len(samples) < MaxSamples /\ (\A i \in DOMAIN samples : samples[i].dt > 0)
          => SumCpu(samples) = prevCpu - base

\* The windows of the samples tile the sampled time: each starts where the
\* one before ended, also across dropped ticks, so no instant is counted in
\* two samples or in none.
WindowsTile ==
    \A i \in 2 .. Len(samples) :
        samples[i].ts - samples[i].dt = samples[i - 1].ts

\* Stop's contract: when it has returned, the goroutine has ended, what it
\* returned is every sample there is, and its two channels are closed.
DrainComplete ==
    main = "drained" => /\ loop = "done"
                        /\ stopChan /\ doneChan
                        /\ drained = samples

\* After Stop has returned no step touches the samples: the report is
\* written from a set that is no longer being appended to (replay.go:80-83).
NoSampleAfterDrain ==
    [][(main = "drained" \/ main = "exited") => UNCHANGED <<samples, drained>>]_vars

\* Stop returns, even when ticks keep arriving faster than the loop handles
\* them (replay.go:81 blocks on it after every successful measured pass).
StopReturns == (main = "stopping") ~> (main = "drained")

\* design.md:152: cpu_pct's 100% is one logical core.  So a sample never
\* shows more jiffies than the process had burned in its whole life.
CpuDeltaIsReal == \A i \in DOMAIN samples : samples[i].cpu <= cpu

=============================================================================
