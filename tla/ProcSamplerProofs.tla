------------------------- MODULE ProcSamplerProofs -------------------------
(***************************************************************************)
(* What TLAPS proves of ProcSampler, for any number of cores, any horizon, *)
(* any number of samples, and whether or not reads of /proc fail.          *)
(***************************************************************************)
EXTENDS ProcSampler, SumLemmas, TLAPS

-----------------------------------------------------------------------------
(* Types.  The arithmetic of a sample needs the readings to be ordered.    *)

Ordered == prevTs <= now /\ now <= clock

\* Jiffies never reach the width of their counter.
LEMMA CpuFits ==
    ASSUME NEW t \in 0 .. Horizon, NEW c \in 0 .. Cores * t
    PROVE  c \in 0 .. Word - 1
<1>1. Cores \in Nat /\ Horizon \in Nat /\ Word \in Nat /\ Cores * Horizon < Word
  BY SamplerAssumption
<1>2. Cores * t <= Cores * Horizon
  BY <1>1
<1>3. Cores * t \in Nat
  BY <1>1
<1> QED BY <1>1, <1>2, <1>3

LEMMA NewSampleType ==
    ASSUME TypeOK, Ordered
    PROVE  NewSample(now, reading) \in Sample
<1>1. Word \in Nat \ {0}
  BY SamplerAssumption
<1>2. CpuSince(reading, prevCpu) \in 0 .. Word - 1
  BY <1>1 DEF TypeOK, CpuSince
<1>3. now - prevTs \in Nat
  BY DEF TypeOK, Ordered
<1> QED BY <1>1, <1>2, <1>3 DEF TypeOK, NewSample, CpuShown, Sample

LEMMA TypeInit == Init => TypeOK /\ Ordered
<1> SUFFICES ASSUME Init PROVE TypeOK /\ Ordered
  OBVIOUS
<1>1. Cores \in Nat /\ Horizon \in Nat /\ Word \in Nat \ {0}
  BY SamplerAssumption
<1>2. Cores * clock = 0
  BY <1>1 DEF Init
<1>3. clock \in 0 .. Horizon /\ cpu \in 0 .. Cores * clock
  BY <1>1, <1>2 DEF Init
<1>4. samples \in Seq(Sample) /\ drained \in Seq(Sample)
  BY DEF Init
<1>5. reading \in 0 .. Word - 1 /\ prevCpu \in 0 .. Word - 1 /\ base \in 0 .. Word - 1
  BY <1>1 DEF Init
<1>6. /\ loop \in LoopPC /\ main \in MainPC
      /\ stopChan \in BOOLEAN /\ doneChan \in BOOLEAN /\ tickC \in BOOLEAN
      /\ initial \in BOOLEAN
  BY DEF Init, LoopPC, MainPC
<1>7. now \in Nat /\ prevTs \in Nat /\ prevTs <= now /\ now <= clock
  BY DEF Init
<1> QED BY <1>3, <1>4, <1>5, <1>6, <1>7 DEF TypeOK, Ordered

LEMMA TypeStep == TypeOK /\ Ordered /\ [Next]_vars => TypeOK' /\ Ordered'
<1> SUFFICES ASSUME TypeOK, Ordered, [Next]_vars PROVE TypeOK' /\ Ordered'
  OBVIOUS
<1> USE DEF TypeOK, Ordered, LoopPC, MainPC, clocks, locals
<1>1. CASE Start \/ CloseStop \/ Drain \/ Abandon \/ Exit
  BY <1>1 DEF Start, CloseStop, Drain, Abandon, Exit
<1>2. CASE Begin \/ SelectTick \/ SelectStop \/ Return \/ Ticker
  <2>1. CASE Begin
    BY <2>1 DEF Begin
  <2>2. CASE SelectTick \/ SelectStop
    BY <2>2 DEF SelectTick, SelectStop
  <2>3. CASE Return \/ Ticker
    BY <2>3 DEF Return, Ticker
  <2> QED BY <1>2, <2>1, <2>2, <2>3
<1>3. CASE ReadClock
  BY <1>3 DEF ReadClock
<1>4. CASE ReadStat
  <2>1. cpu \in 0 .. Word - 1
    BY CpuFits
  <2>2. Readable \subseteq 0 .. Word - 1
    BY <2>1, SamplerAssumption DEF Readable
  <2> QED BY <1>4, <2>2 DEF ReadStat
<1>5. CASE Record
  <2>1. NewSample(now, reading) \in Sample
    BY NewSampleType
  <2>2. samples' \in Seq(Sample)
    BY <1>5, <2>1 DEF Record
  <2> QED BY <1>5, <2>2 DEF Record
<1>6. CASE Elapse
  <2>1. clock' \in 0 .. Horizon
    BY <1>6, SamplerAssumption DEF Elapse
  <2>2. Cores * (clock + 1) = Cores * clock + Cores
    BY SamplerAssumption
  <2>3. Cores * clock \in Nat
    BY SamplerAssumption
  <2>4. cpu' \in 0 .. Cores * clock'
    BY <1>6, <2>2, <2>3, SamplerAssumption DEF Elapse
  <2> QED BY <1>6, <2>1, <2>4 DEF Elapse
<1>7. CASE UNCHANGED vars
  BY <1>7 DEF vars
<1> QED
  BY <1>1, <1>2, <1>3, <1>4, <1>5, <1>6, <1>7 DEF Next, Tick, Exited

\* Every reachable state is well typed: readings and deltas stay within a
\* uint64 and every sample has a length that is not negative.
THEOREM TypeCorrect == Spec => []TypeOK
<1>1. Spec => [](TypeOK /\ Ordered)
  BY TypeInit, TypeStep, PTL DEF Spec
<1> QED BY <1>1, PTL

-----------------------------------------------------------------------------
(* The hand-over of the samples.                                           *)

\* doneChan is the goroutine's end, and that only Stop brings about; once
\* the command holds the samples the goroutine has ended.
HandOver ==
    /\ main = "new" => loop = "off" /\ ~stopChan
    /\ doneChan <=> loop = "done"
    /\ loop \in {"return", "done"} => stopChan
    /\ main = "drained" => doneChan /\ drained = samples

LEMMA HandOverInit == Init => HandOver
BY DEF Init, HandOver

LEMMA HandOverStep == TypeOK /\ HandOver /\ [Next]_vars => HandOver'
<1> SUFFICES ASSUME TypeOK, HandOver, [Next]_vars PROVE HandOver'
  OBVIOUS
<1> USE DEF TypeOK, HandOver, clocks, locals
<1>1. CASE Start \/ CloseStop \/ Abandon \/ Exit
  BY <1>1 DEF Start, CloseStop, Abandon, Exit
<1>2. CASE Drain
  BY <1>2 DEF Drain, MayDrain
<1>3. CASE Begin \/ ReadClock \/ ReadStat \/ Record
  BY <1>3 DEF Begin, ReadClock, ReadStat, Record
<1>4. CASE SelectTick \/ SelectStop \/ Return
  BY <1>4 DEF SelectTick, SelectStop, Return, StopReady
<1>5. CASE Ticker \/ Elapse
  BY <1>5 DEF Ticker, Elapse
<1>6. CASE UNCHANGED vars
  BY <1>6 DEF vars
<1> QED
  BY <1>1, <1>2, <1>3, <1>4, <1>5, <1>6 DEF Next, Tick, Exited

LEMMA HandOverInvariant == Spec => [](TypeOK /\ HandOver)
<1>1. Spec => []HandOver
  BY HandOverInit, HandOverStep, TypeCorrect, PTL DEF Spec
<1> QED BY <1>1, TypeCorrect, PTL

\* When Stop has returned, the goroutine has ended and what Stop returned is
\* all there is.
THEOREM DrainCompleteCorrect == Spec => []DrainComplete
<1>1. HandOver => DrainComplete
  BY DEF HandOver, DrainComplete
<1> QED BY <1>1, HandOverInvariant, PTL

\* No sample is appended once Stop has returned, nor after the process ended.
THEOREM NoSampleAfterDrainCorrect == Spec => NoSampleAfterDrain
<1> DEFINE Quiet == (main = "drained" \/ main = "exited") => UNCHANGED <<samples, drained>>
<1>1. HandOver /\ [Next]_vars => [Quiet]_vars
  <2> SUFFICES ASSUME HandOver, Next PROVE Quiet
    BY DEF vars
  <2>1. CASE Start \/ CloseStop \/ Drain \/ Abandon \/ Exit
    BY <2>1 DEF Start, CloseStop, Drain, Abandon, Exit
  <2>2. CASE Begin \/ ReadClock \/ ReadStat \/ SelectTick \/ SelectStop \/ Return
    BY <2>2 DEF Begin, ReadClock, ReadStat, SelectTick, SelectStop, Return
  <2>3. CASE Record
    BY <2>3 DEF Record, Alive, HandOver
  <2>4. CASE Ticker \/ Elapse \/ Exited
    BY <2>4 DEF Ticker, Elapse, Exited, vars
  <2> QED BY <2>1, <2>2, <2>3, <2>4 DEF Next, Tick
<1> QED BY <1>1, HandOverInvariant, PTL DEF Spec, NoSampleAfterDrain

-----------------------------------------------------------------------------
(* The windows of the samples.                                             *)

\* While samples are kept, the last one ends where the next will begin.
Tiling ==
    /\ WindowsTile
    /\ samples # << >> /\ Len(samples) < MaxSamples
          => samples[Len(samples)].ts = prevTs

\* Appending a sample whose window starts at the end of the last one.
LEMMA TilingAppend ==
    ASSUME TypeOK, Ordered, Tiling, Len(samples) < MaxSamples,
           samples' = Append(samples, NewSample(now, reading)), prevTs' = now
    PROVE  Tiling'
<1> DEFINE n == Len(samples)
           s == NewSample(now, reading)
<1>1. s \in Sample /\ s.ts = now /\ s.ts - s.dt = prevTs
  BY NewSampleType DEF NewSample, TypeOK
<1>2. samples \in Seq(Sample) /\ n \in Nat
  BY DEF TypeOK
<1> HIDE DEF s
<1>3. Len(samples') = n + 1 /\ samples'[n + 1] = s
      /\ \A i \in 1 .. n : samples'[i] = samples[i]
  BY <1>1, <1>2 DEF s
<1>4. \A i \in 2 .. n : samples[i].ts - samples[i].dt = samples[i - 1].ts
  BY DEF Tiling, WindowsTile
<1>5. n > 0 => samples[n].ts = prevTs
  BY <1>2 DEF Tiling
<1>6. ASSUME NEW i \in 2 .. n + 1
      PROVE  samples'[i].ts - samples'[i].dt = samples'[i - 1].ts
  <2>1. CASE i <= n
    <3>1. i \in 2 .. n /\ i \in 1 .. n /\ i - 1 \in 1 .. n
      BY <2>1, <1>2
    <3> QED BY <3>1, <1>3, <1>4
  <2>2. CASE i = n + 1
    <3>1. n > 0 /\ i - 1 = n /\ n \in 1 .. n
      BY <2>2, <1>2
    <3> QED BY <3>1, <2>2, <1>1, <1>3, <1>5
  <2> QED BY <2>1, <2>2, <1>2
<1>7. WindowsTile'
  BY <1>3, <1>6 DEF WindowsTile
<1>8. samples'[Len(samples')].ts = prevTs'
  BY <1>1, <1>3
<1> QED BY <1>7, <1>8 DEF Tiling

\* tick(true) is called once, before there is any sample.
FirstTick == initial \/ loop = "spawned" \/ loop = "off" => samples = << >>

LEMMA TilingStep ==
    TypeOK /\ Ordered /\ HandOver /\ Tiling /\ FirstTick /\ [Next]_vars
        => Tiling' /\ FirstTick'
<1> SUFFICES ASSUME TypeOK, Ordered, HandOver, Tiling, FirstTick, [Next]_vars
             PROVE  Tiling' /\ FirstTick'
  OBVIOUS
<1>1. CASE Record
  <2>1. CASE initial \/ Len(samples) >= MaxSamples
    BY <1>1, <2>1, SamplerAssumption DEF Record, Tiling, WindowsTile, FirstTick, TypeOK
  <2>2. CASE ~initial /\ Len(samples) < MaxSamples
    <3>1. samples' = Append(samples, NewSample(now, reading)) /\ prevTs' = now
      BY <1>1, <2>2, SamplerAssumption DEF Record, TypeOK
    <3> QED BY <1>1, <2>2, <3>1, TilingAppend DEF Record, FirstTick
  <2> QED BY <2>1, <2>2, SamplerAssumption DEF TypeOK
<1>2. CASE UNCHANGED <<samples, prevTs>> /\ FirstTick'
  BY <1>2 DEF Tiling, WindowsTile
<1>3. CASE Start \/ CloseStop \/ Drain \/ Abandon \/ Exit \/ Ticker \/ Elapse
  BY <1>2, <1>3 DEF HandOver, FirstTick, Start, CloseStop, Drain, Abandon, Exit, Ticker,
     Elapse, locals
<1>4. CASE Begin \/ ReadClock \/ ReadStat \/ SelectTick \/ SelectStop \/ Return
  BY <1>2, <1>4 DEF FirstTick, Begin, ReadClock, ReadStat, SelectTick, SelectStop,
     Return, locals
<1>5. CASE UNCHANGED vars
  BY <1>2, <1>5 DEF FirstTick, vars, locals
<1> QED BY <1>1, <1>3, <1>4, <1>5 DEF Next, Tick, Exited

\* For any run of ticks, kept or dropped, the windows of the samples tile
\* the sampled time.
THEOREM WindowsTileCorrect == Spec => []WindowsTile
<1>1. Init => Tiling /\ FirstTick
  BY DEF Init, Tiling, WindowsTile, FirstTick
<1>2. Spec => [](TypeOK /\ Ordered)
  BY TypeInit, TypeStep, PTL DEF Spec
<1>3. Spec => [](Tiling /\ FirstTick)
  BY <1>1, <1>2, HandOverInvariant, TilingStep, PTL DEF Spec
<1>4. Tiling => WindowsTile
  BY DEF Tiling
<1> QED BY <1>3, <1>4, PTL

-----------------------------------------------------------------------------
(* The CPU time of the samples.                                            *)

\* Readings of the process's counter, in the order they were taken.
Readings == base <= prevCpu /\ prevCpu <= reading /\ reading <= cpu

LEMMA ReadingsStep ==
    ASSUME ReadsMayFail = FALSE, TypeOK, Readings, [Next]_vars
    PROVE  Readings'
<1> USE DEF Readings, TypeOK, clocks, locals
<1>1. CASE Start \/ CloseStop \/ Drain \/ Abandon \/ Exit
  BY <1>1 DEF Start, CloseStop, Drain, Abandon, Exit
<1>2. CASE Begin \/ ReadClock \/ SelectTick \/ SelectStop \/ Return \/ Ticker
  BY <1>2 DEF Begin, ReadClock, SelectTick, SelectStop, Return, Ticker
<1>3. CASE ReadStat
  <2>1. reading' = cpu
    BY <1>3, ReadsMayFail = FALSE DEF ReadStat, Readable
  <2>2. cpu \in Nat /\ reading \in Nat /\ prevCpu \in Nat /\ base \in Nat
    BY SamplerAssumption
  <2> QED BY <1>3, <2>1, <2>2 DEF ReadStat
<1>4. CASE Record
  <2>1. cpu \in Nat /\ reading \in Nat /\ prevCpu \in Nat /\ base \in Nat
    BY SamplerAssumption
  <2> QED BY <1>4, <2>1 DEF Record
<1>5. CASE Elapse
  <2>1. cpu \in Nat /\ reading \in Nat
    BY SamplerAssumption
  <2>2. PICK n \in 0 .. Cores : cpu' = cpu + n
    BY <1>5 DEF Elapse
  <2>3. n \in Nat
    BY <2>2, SamplerAssumption
  <2> QED BY <1>5, <2>1, <2>2, <2>3 DEF Elapse
<1>6. CASE UNCHANGED vars
  BY <1>6 DEF vars
<1> QED BY <1>1, <1>2, <1>3, <1>4, <1>5, <1>6 DEF Next, Tick, Exited

LEMMA SumCpuAppend ==
    ASSUME NEW s \in Seq(Sample), NEW x \in Sample
    PROVE  SumCpu(Append(s, x)) = SumCpu(s) + x.cpu
<1> DEFINE t == Append(s, x)
           c == [i \in DOMAIN s |-> s[i].cpu]
<1>0. Word \in Nat
  BY SamplerAssumption
<1>1. \A y \in Sample : y.cpu \in Int
  BY <1>0 DEF Sample
<1>2. c \in Seq(Int) /\ Len(c) = Len(s) /\ x.cpu \in Int
  BY <1>1
<1>3. [i \in DOMAIN t |-> t[i].cpu] = Append(c, x.cpu)
  BY <1>2
<1> QED BY <1>2, <1>3, TotalAppend DEF SumCpu

\* The sum itself, beside its comparison with the readings.
Conserved == SumCpu(samples) \in Nat /\ CpuConserved

\* What one more window shows fits beside what the earlier ones show.
LEMMA ShownFits ==
    ASSUME NEW b \in Nat, NEW p \in Nat, NEW r \in Nat, b <= p, p <= r,
           NEW t \in Nat, t <= p - b, NEW x \in 0 .. (r - p)
    PROVE  t + x \in Nat /\ t + x <= r - b
OBVIOUS

\* Appending the sample of one tick: what it shows is what was burned since
\* the last reading, or nothing when its window has no length.
LEMMA ConservedAppend ==
    ASSUME TypeOK, Ordered, Readings, Conserved, Len(samples) < MaxSamples,
           samples' = Append(samples, NewSample(now, reading)),
           prevCpu' = reading, base' = base
    PROVE  Conserved'
<1> DEFINE s == NewSample(now, reading)
           n == Len(samples)
<1>1. /\ base \in Nat /\ prevCpu \in Nat /\ reading \in Nat
      /\ base <= prevCpu /\ prevCpu <= reading
      /\ now \in Nat /\ prevTs \in Nat
  BY SamplerAssumption DEF TypeOK, Readings
<1>2. s.cpu = CpuShown(now - prevTs, reading - prevCpu) /\ s.dt = now - prevTs
  BY <1>1 DEF NewSample, CpuSince
<1>3. s.cpu \in 0 .. (reading - prevCpu) /\ (s.dt > 0 => s.cpu = reading - prevCpu)
  BY <1>1, <1>2 DEF CpuShown
<1>4. s \in Sample /\ samples \in Seq(Sample)
  BY NewSampleType DEF TypeOK
<1> HIDE DEF s
<1>5. SumCpu(samples') = SumCpu(samples) + s.cpu
  BY <1>4, SumCpuAppend DEF s
<1>6. /\ SumCpu(samples) \in Nat
      /\ SumCpu(samples) <= prevCpu - base
      /\ (\A i \in 1 .. n : samples[i].dt > 0) => SumCpu(samples) = prevCpu - base
  BY <1>4 DEF Conserved, CpuConserved
<1>7. SumCpu(samples') \in Nat /\ SumCpu(samples') <= reading - base
  <2>1. SumCpu(samples) + s.cpu \in Nat /\ SumCpu(samples) + s.cpu <= reading - base
    <3>1. SumCpu(samples) \in Nat /\ SumCpu(samples) <= prevCpu - base
      BY <1>6
    <3>2. s.cpu \in 0 .. (reading - prevCpu)
      BY <1>3
    <3> QED BY <1>1, <3>1, <3>2, ShownFits
  <2> QED BY <1>5, <2>1
<1>8. ASSUME \A i \in DOMAIN samples' : samples'[i].dt > 0
      PROVE  SumCpu(samples') = reading - base
  <2>1. n \in Nat /\ DOMAIN samples' = 1 .. (n + 1) /\ samples'[n + 1] = s
        /\ \A i \in 1 .. n : samples'[i] = samples[i]
    BY <1>4 DEF s
  <2>2. s.dt > 0 /\ \A i \in 1 .. n : samples[i].dt > 0
    BY <1>8, <2>1
  <2> QED BY <1>1, <1>3, <1>5, <1>6, <2>2
<1> QED BY <1>7, <1>8 DEF Conserved, CpuConserved

LEMMA ConservedStep ==
    ASSUME TypeOK, Ordered, HandOver, FirstTick, Readings, Conserved, [Next]_vars
    PROVE  Conserved'
<1>1. CASE Record
  <2>1. CASE initial
    <3>1. samples' = << >> /\ base' = reading /\ prevCpu' = reading
      BY <1>1, <2>1 DEF Record, FirstTick
    <3>2. SumCpu(<< >>) = 0
      <4>1. [i \in DOMAIN << >> |-> << >>[i].cpu] = << >>
        OBVIOUS
      <4> QED BY <4>1, TotalEmpty DEF SumCpu
    <3>3. reading \in Nat
      BY SamplerAssumption DEF TypeOK
    <3> QED BY <3>1, <3>2, <3>3 DEF Conserved, CpuConserved
  <2>2. CASE ~initial /\ Len(samples) >= MaxSamples
    <3>1. samples' = samples /\ base' = base /\ prevCpu' = reading
      BY <1>1, <2>2 DEF Record
    <3>2. base \in Nat /\ prevCpu \in Nat /\ reading \in Nat /\ prevCpu <= reading
      BY SamplerAssumption DEF TypeOK, Readings
    <3>3. ~(Len(samples) < MaxSamples)
      BY <2>2, SamplerAssumption DEF TypeOK
    <3> QED BY <3>1, <3>2, <3>3 DEF Conserved, CpuConserved
  <2>3. CASE ~initial /\ Len(samples) < MaxSamples
    <3>1. samples' = Append(samples, NewSample(now, reading))
          /\ prevCpu' = reading /\ base' = base
      BY <1>1, <2>3, SamplerAssumption DEF Record, TypeOK
    <3> QED BY <2>3, <3>1, ConservedAppend
  <2> QED BY <2>1, <2>2, <2>3, SamplerAssumption DEF TypeOK
<1>2. CASE UNCHANGED <<samples, prevCpu, base>>
  BY <1>2 DEF Conserved, CpuConserved
<1>3. CASE Start \/ CloseStop \/ Drain \/ Abandon \/ Exit \/ Ticker \/ Elapse
  BY <1>2, <1>3 DEF Start, CloseStop, Drain, Abandon, Exit, Ticker, Elapse, locals
<1>4. CASE Begin \/ ReadClock \/ ReadStat \/ SelectTick \/ SelectStop \/ Return
  BY <1>2, <1>4 DEF Begin, ReadClock, ReadStat, SelectTick, SelectStop, Return, locals
<1>5. CASE UNCHANGED vars
  BY <1>2, <1>5 DEF vars, locals
<1> QED BY <1>1, <1>3, <1>4, <1>5 DEF Next, Tick, Exited

\* While /proc can be read, no jiffy is attributed to two samples, whatever
\* ticks are dropped or fall into one instant, and none is lost as long as
\* every window has a length.
THEOREM CpuConservedCorrect ==
    ASSUME ReadsMayFail = FALSE
    PROVE  Spec => []CpuConserved
<1>1. Init => Readings /\ Conserved /\ FirstTick
  <2>1. [i \in DOMAIN << >> |-> << >>[i].cpu] = << >>
    OBVIOUS
  <2>2. SumCpu(<< >>) = 0
    BY <2>1, TotalEmpty DEF SumCpu
  <2> QED BY <2>2 DEF Init, Readings, Conserved, CpuConserved, FirstTick
<1>2. Spec => [](TypeOK /\ Ordered)
  BY TypeInit, TypeStep, PTL DEF Spec
<1>3. TypeOK /\ Readings /\ [Next]_vars => Readings'
  BY ReadingsStep, ReadsMayFail = FALSE
<1>4. TypeOK /\ Ordered /\ HandOver /\ FirstTick /\ Readings /\ Conserved /\ [Next]_vars
          => Conserved'
  BY ConservedStep
<1>5. Init => Tiling
  BY DEF Init, Tiling, WindowsTile
<1>6. Spec => [](Tiling /\ FirstTick)
  BY <1>1, <1>5, <1>2, HandOverInvariant, TilingStep, PTL DEF Spec
<1>7. Spec => [](Readings /\ Conserved)
  BY <1>1, <1>2, <1>3, <1>4, <1>6, HandOverInvariant, PTL DEF Spec
<1>8. Conserved => CpuConserved
  BY DEF Conserved
<1> QED BY <1>7, <1>8, PTL
=============================================================================
