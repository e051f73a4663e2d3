------------------------------- MODULE Pass -------------------------------
(***************************************************************************)
(* One pass over the corpus: runner.RunPass, the chain.ApplyBlock it calls *)
(* for every block, the block iterator it reads, and the block collector   *)
(* and byte counter it fills, statement group by statement group, while    *)
(* the clock runs, the user may press Ctrl-C and the state database reads  *)
(* in the background.                                                      *)
(*                                                                         *)
(* The two byte counters of CountingDB and the two counters of the tracer  *)
(* are handled alike; one of each stands for both.                         *)
(***************************************************************************)
EXTENDS Chain, Sums

CONSTANTS
    Corpora,     \* the corpora a pass may be given
    ReadBytes,   \* bound: bytes one step may read from the database
    MaxBytes,    \* bound: background reads stop at this count
    Horizon,     \* bound: nanoseconds the pass may take
    ClockSteps,  \* may the wall clock be set while the pass runs?
    Word         \* the range of a uint64

ASSUME PassAssumption ==
    /\ Corpora \subseteq Corpus
    /\ ReadBytes \in Nat /\ MaxBytes \in Nat /\ Horizon \in Nat
    /\ ClockSteps \in BOOLEAN
    /\ Word \in Nat /\ Horizon < Word
    /\ Create \notin SystemContracts

VARIABLES
    pc,
    corpus,    \* the manifest and the block file
    measured,  \* PassConfig.Measured
    ctxErr,    \* ctx.Err() # nil
    count,     \* BlockIter.count: blocks decoded so far
    txi,       \* transactions of the current block handled so far
    pool,      \* the block's gas pool
    nonces,    \* the account nonces in stateDB
    receipts,  \* res.Receipts, as their Status
    usedGas,   \* res.UsedGas
    skipped,   \* res.SystemTxSkipped
    ops,       \* the tracer's count
    t0, t1, t2,  \* ApplyBlock's timer readings
    totalGas,
    coll,      \* BlockCollector: one record per Record call
    sampler,   \* has the sampler been started?
    dbRead,    \* CountingDB.readBytes
    dbBefore,  \* its value before the block
    began,     \* RunPass's t0 := time.Now()
    clock,     \* the monotonic clock
    wall,      \* the wall clock, as UnixNano reads it
    setBack,   \* history: has the wall clock been set back?
    result     \* what RunPass returned

disk == <<dbRead, dbBefore>>
time == <<clock, wall, setBack>>
timers == <<t0, t1, t2>>
block == <<txi, pool, receipts, usedGas, skipped, ops>>
totals == <<totalGas, coll>>
setup == <<measured, sampler, began>>
vars == <<pc, corpus, ctxErr, count, nonces, block, timers, totals, setup,
          disk, time, result>>

blk == corpus.items[count]

PC == {"state", "config", "iter", "setup", "check", "next", "begin", "txs",
       "commit", "record", "returned"}

BlockRecord == [number: Nat, txs: Nat, reverted: Nat, gas: Nat, ops: Nat,
                exec: 0 .. Word - 1, commit: 0 .. Word - 1, bytes: Nat]

Errors == {"state", "config", "iter", "context", "read", "apply"}
Result == [err: Errors \cup {"none", "pending"}, gas: Nat, coll: Seq(BlockRecord),
           sampler: BOOLEAN, wall: Nat]

\* The zero PassResult, with an error.
NoResult(e) == [err |-> e, gas |-> 0, coll |-> << >>, sampler |-> FALSE, wall |-> 0]
Pending == NoResult("pending")

TypeOK ==
    /\ pc \in PC
    /\ corpus \in Corpora /\ measured \in BOOLEAN
    /\ ctxErr \in BOOLEAN
    /\ count \in 0 .. Len(corpus.items)
    /\ txi \in Nat /\ pool \in Nat /\ usedGas \in Nat /\ skipped \in Nat /\ ops \in Nat
    /\ receipts \in Seq(BOOLEAN)
    /\ nonces \in [Accounts -> Nat]
    /\ t0 \in 0 .. Horizon /\ t1 \in 0 .. Horizon /\ t2 \in 0 .. Horizon
    /\ totalGas \in Nat
    /\ coll \in Seq(BlockRecord)
    /\ sampler \in BOOLEAN
    /\ dbRead \in Nat /\ dbBefore \in Nat
    /\ clock \in 0 .. Horizon /\ wall \in 0 .. Horizon /\ began \in 0 .. Horizon
    /\ setBack \in BOOLEAN
    /\ result \in Result

Init ==
    /\ pc = "state"
    /\ corpus \in Corpora /\ measured \in BOOLEAN
    /\ ctxErr = FALSE
    /\ count = 0 /\ txi = 0 /\ pool = 0 /\ usedGas = 0 /\ skipped = 0 /\ ops = 0
    /\ receipts = << >>
    /\ nonces = [a \in Accounts |-> 0]
    /\ t0 = 0 /\ t1 = 0 /\ t2 = 0
    /\ totalGas = 0 /\ coll = << >>
    /\ sampler = FALSE /\ began = 0
    /\ dbRead = 0 /\ dbBefore = 0
    /\ clock = 0 /\ wall = 0 /\ setBack = FALSE
    /\ result = Pending

-----------------------------------------------------------------------------
(* Opening, and the two ways to return.                                    *)

\* Every error path is `return PassResult{}, err`.
ReturnError(e) ==
    /\ pc' = "returned"
    /\ result' = NoResult(e)

\* Executing or opening reads the database through CountingDB.Get.
ReadDB == \E n \in 0 .. ReadBytes : dbRead' = dbRead + n

OpenState ==
    /\ pc = "state"
    /\ ReadDB
    /\ IF corpus.rootKnown THEN pc' = "config" /\ UNCHANGED result
                           ELSE ReturnError("state")
    /\ UNCHANGED <<corpus, ctxErr, count, nonces, block, timers, totals, setup,
                   dbBefore, time>>

ResolveConfig ==
    /\ pc = "config"
    /\ IF corpus.chainID \in KnownChains THEN pc' = "iter" /\ UNCHANGED result
                                         ELSE ReturnError("config")
    /\ UNCHANGED <<corpus, ctxErr, count, nonces, block, timers, totals, setup,
                   disk, time>>

OpenIter ==
    /\ pc = "iter"
    /\ IF corpus.readable THEN pc' = "setup" /\ UNCHANGED result
                          ELSE ReturnError("iter")
    /\ UNCHANGED <<corpus, ctxErr, count, nonces, block, timers, totals, setup,
                   disk, time>>

\* A collector and a started sampler only when measured; then the clock.
Setup ==
    /\ pc = "setup"
    /\ pc' = "check"
    /\ sampler' = measured
    /\ began' = clock
    /\ UNCHANGED <<corpus, measured, ctxErr, count, nonces, block, timers, totals,
                   disk, time, result>>

-----------------------------------------------------------------------------
(* The block loop.                                                         *)

\* A slip: the context is looked at once, before the first block.
InterruptedAtStart == ctxErr /\ count = 0

Interrupted == ctxErr

CheckContext ==
    /\ pc = "check"
    /\ IF Interrupted THEN ReturnError("context") ELSE pc' = "next" /\ UNCHANGED result
    /\ UNCHANGED <<corpus, ctxErr, count, nonces, block, timers, totals, setup,
                   disk, time>>

\* BlockIter.Next: io.EOF at the end, an error on an item that does not
\* decode, otherwise the block, counted.
AtEOF == count = Len(corpus.items)

NextBlock ==
    /\ pc = "next"
    /\ ~AtEOF
    /\ IF corpus.items[count + 1] = Malformed
       THEN ReturnError("read") /\ UNCHANGED count
       ELSE pc' = "begin" /\ count' = count + 1 /\ UNCHANGED result
    /\ UNCHANGED <<corpus, ctxErr, nonces, block, timers, totals, setup, disk, time>>

\* EOF breaks the loop: the pass has a result.
Finish ==
    /\ pc = "next"
    /\ AtEOF
    /\ pc' = "returned"
    /\ result' = [err |-> "none", gas |-> totalGas, coll |-> coll,
                  sampler |-> sampler, wall |-> clock - began]
    /\ UNCHANGED <<corpus, ctxErr, count, nonces, block, timers, totals, setup,
                   disk, time>>

\* A slip: the baseline is taken once, not for every block.
BaselineOnce == IF count = 1 THEN dbRead ELSE dbBefore

\* cdb.Counts(), and ApplyBlock up to its first timer reading: a fresh
\* result, gas pool and tracer.
CountBefore == dbRead

\* A slip: the pool is filled for the first block only.
PoolOnce == IF count = 1 THEN blk.limit ELSE pool

GasPool == blk.limit

BeginBlock ==
    /\ pc = "begin"
    /\ pc' = "txs"
    /\ dbBefore' = CountBefore
    /\ txi' = 0
    /\ pool' = GasPool
    /\ receipts' = << >> /\ usedGas' = 0 /\ skipped' = 0
    /\ ops' = 0
    /\ t0' = wall
    /\ UNCHANGED <<corpus, ctxErr, count, nonces, t1, t2, totals, setup, dbRead,
                   time, result>>

tx == blk.txs[txi + 1]
\* A slip: the loop ends one transaction early.
AllButLast == txi + 1 < Len(blk.txs)

MoreTxs == txi < Len(blk.txs)

SkipTx ==
    /\ pc = "txs"
    /\ MoreTxs
    /\ IsSystemTx(tx, blk.coinbase)
    /\ skipped' = skipped + 1
    /\ txi' = txi + 1
    /\ UNCHANGED <<pc, corpus, ctxErr, count, nonces, pool, receipts, usedGas, ops,
                   timers, totals, setup, disk, time, result>>

\* The tracer is installed only in a measured pass.
CountedOps(o) == IF measured THEN o ELSE 0

ApplyTx ==
    /\ pc = "txs"
    /\ MoreTxs
    /\ ~IsSystemTx(tx, blk.coinbase)
    /\ Acceptable(tx, nonces[tx.from], pool)
    /\ nonces' = [nonces EXCEPT ![tx.from] = @ + 1]
    /\ pool' = pool - tx.used
    /\ usedGas' = usedGas + tx.used
    /\ receipts' = Append(receipts, tx.ok)
    /\ ops' = ops + CountedOps(tx.ops)
    /\ txi' = txi + 1
    /\ ReadDB
    /\ UNCHANGED <<pc, corpus, ctxErr, count, skipped, timers, totals, setup,
                   dbBefore, time, result>>

RejectTx ==
    /\ pc = "txs"
    /\ MoreTxs
    /\ ~IsSystemTx(tx, blk.coinbase)
    /\ ~Acceptable(tx, nonces[tx.from], pool)
    /\ ReadDB
    /\ ReturnError("apply")
    /\ UNCHANGED <<corpus, ctxErr, count, nonces, block, timers, totals, setup,
                   dbBefore, time>>

\* The second timer reading; then IntermediateRoot, which reads trie nodes.
EndTxs ==
    /\ pc = "txs"
    /\ ~MoreTxs
    /\ pc' = "commit"
    /\ t1' = wall
    /\ UNCHANGED <<corpus, ctxErr, count, nonces, block, t0, t2, totals, setup,
                   disk, time, result>>

Commit ==
    /\ pc = "commit"
    /\ pc' = "record"
    /\ ReadDB
    /\ t2' = wall
    /\ UNCHANGED <<corpus, ctxErr, count, nonces, block, t0, t1, totals, setup,
                   dbBefore, time, result>>

\* uint64 subtraction of two timer readings, and the two intervals.
Sub64(a, b) == IF a >= b THEN a - b ELSE Word + a - b
ExecNs == Sub64(t1, t0)

\* A slip: the commit phase is measured from the start of the block.
CommitFromStart == Sub64(t2, t0)

TrieCommitNs == Sub64(t2, t1)

\* Slips: skipped transactions are counted; they are taken off twice.
TxCountAll == Len(blk.txs)
TxCountTwice == Len(receipts) - skipped

\* uint32(len(txs)) - SystemTxSkipped
TxCount == Len(blk.txs) - skipped
Reverted == Cardinality({i \in DOMAIN receipts : ~receipts[i]})

RecordBlock ==
    /\ pc = "record"
    /\ pc' = "check"
    /\ totalGas' = totalGas + usedGas
    /\ coll' = IF measured
               THEN Append(coll, [number |-> blk.number, txs |-> TxCount,
                                  reverted |-> Reverted, gas |-> usedGas, ops |-> ops,
                                  exec |-> ExecNs, commit |-> TrieCommitNs,
                                  bytes |-> dbRead - dbBefore])
               ELSE coll
    /\ UNCHANGED <<corpus, ctxErr, count, nonces, block, timers, setup, disk, time, result>>

-----------------------------------------------------------------------------
(* The world around the pass.                                              *)

Running == pc # "returned"

Signal ==
    /\ Running
    /\ ~ctxErr
    /\ ctxErr' = TRUE
    /\ UNCHANGED <<pc, corpus, count, nonces, block, timers, totals, setup, disk,
                   time, result>>

Elapse ==
    /\ Running
    /\ clock < Horizon /\ wall < Horizon
    /\ clock' = clock + 1
    /\ wall' = wall + 1
    /\ UNCHANGED <<pc, corpus, ctxErr, count, nonces, block, timers, totals, setup,
                   disk, setBack, result>>

\* The wall clock is set, back or forward, while the monotonic one runs on
\* (a step of NTP, an administrator, a virtual machine that is resumed).
StepWall ==
    /\ Running
    /\ ClockSteps
    /\ wall' \in {wall - 1, wall + 1} \cap 0 .. Horizon
    /\ setBack' = (setBack \/ wall' < wall)
    /\ UNCHANGED <<pc, corpus, ctxErr, count, nonces, block, timers, totals, setup,
                   disk, clock, result>>

\* The state database reads through the same counter on its own threads.
BackgroundRead ==
    /\ Running
    /\ dbRead < MaxBytes
    /\ dbRead' = dbRead + 1
    /\ UNCHANGED <<pc, corpus, ctxErr, count, nonces, block, timers, totals, setup,
                   dbBefore, time, result>>

Returned == pc = "returned" /\ UNCHANGED vars

Step ==
    \/ OpenState \/ ResolveConfig \/ OpenIter \/ Setup
    \/ CheckContext \/ NextBlock \/ Finish
    \/ BeginBlock \/ SkipTx \/ ApplyTx \/ RejectTx \/ EndTxs \/ Commit \/ RecordBlock

Next == Step \/ Signal \/ Elapse \/ StepWall \/ BackgroundRead \/ Returned

\* The pass is one goroutine that never waits for another: it is scheduled.
Spec == Init /\ [][Next]_vars /\ WF_vars(Step)

-----------------------------------------------------------------------------
(* Properties.                                                             *)

InBlock == pc \in {"begin", "txs", "commit", "record"} \/ result.err = "apply"

\* Blocks executed to their end.
Applied == IF InBlock THEN count - 1 ELSE count

Outcome == CASE result.err = "pending" -> "running"
             [] result.err = "none"    -> "ok"
             [] result.err = "context" -> "interrupted"
             [] OTHER                  -> "failed"

Summaries == [i \in DOMAIN coll |->
                [number |-> coll[i].number, txs |-> coll[i].txs,
                 reverted |-> coll[i].reverted, gas |-> coll[i].gas, ops |-> coll[i].ops]]

Promise == INSTANCE BlockReplay WITH
    applied <- Applied, gas <- totalGas, summaries <- Summaries, outcome <- Outcome

\* RunPass does what it promises: whatever the corpus and whenever the user
\* interrupts, it is a block-by-block replay that totals and reports exactly
\* what the transactions determine, fails only where the corpus is at fault,
\* and returns.
ImplementsReplay == Promise!Spec

\* Inside a block every transaction handled was either skipped or has a
\* receipt, so TxCount cannot underflow (the comment of pass.go:120), and a
\* measured pass has one record for every block it has finished.
CountersAgree ==
    /\ pc = "txs" => skipped + Len(receipts) = txi /\ txi <= Len(blk.txs)
    /\ pc \in {"commit", "record"} => skipped + Len(receipts) = Len(blk.txs)
    /\ measured => Len(coll) = Applied
    /\ ~measured => coll = << >>

\* The byte deltas of the records overlap nowhere: together they are at most
\* what the counter has counted since the state was opened, whoever reads
\* in the background meanwhile (pass.go:102, 108).
BytesCountedOnce ==
    Total([i \in DOMAIN coll |-> coll[i].bytes]) <= dbRead

\* The phases are read off the wall clock and wall_sec off the monotonic one
\* (apply_block.go:163, pass.go:133).  As long as nobody sets the wall clock
\* back, the phases of all blocks exceed the pass by no more than the wall
\* clock was set forward; with no setting at all they fit in it, no
\* nanosecond in two of them.
PhasesWithinWall ==
    ~setBack =>
        Total([i \in DOMAIN coll |-> coll[i].exec + coll[i].commit])
            <= (clock - began) + (wall - clock)

\* The corpora a healthy chain hands over: complete, and every block was valid
\* where all of its transactions were executed.  There the ordinary ones share
\* the block's gas; the system ones are outside the pool, whatever they buy.
IsBefore(b, i, c, j) == b < c \/ (b = c /\ i < j)
EarlierOf(b, i) ==
    LET items == corpus.items IN
    UNION {{<<c, j>> : j \in {k \in DOMAIN items[c].txs :
                                /\ IsBefore(c, k, b, i)
                                /\ items[c].txs[k].from = items[b].txs[i].from}} : c \in 1 .. b}
Canonical ==
    /\ \A b \in DOMAIN corpus.items : corpus.items[b] # Malformed
    /\ \A b \in DOMAIN corpus.items : \A i \in DOMAIN corpus.items[b].txs :
          LET t == corpus.items[b].txs[i] IN
          /\ t.signed /\ t.funded
          /\ t.nonce = Cardinality(EarlierOf(b, i))
          /\ IsSystemTx(t, corpus.items[b].coinbase)
                \/ t.gas + Promise!GasUpTo(corpus.items[b], i - 1) <= corpus.items[b].limit

\* A block of a healthy chain is rejected only downstream of a skipped
\* system transaction: it is of the validator, whose nonce the skip did not
\* advance (apply_block.go:74-77).  The gas a transaction uses and its sender's
\* means are taken to be what they were on the chain; the effect of a skip on
\* them is what design.md:298 leaves open.
RejectOnlyAfterSkip ==
    result.err = "apply" /\ Canonical =>
        \E e \in EarlierOf(count, txi + 1) :
            IsSystemTx(corpus.items[e[1]].txs[e[2]], corpus.items[e[1]].coinbase)

\* After Ctrl-C at most the block being executed is finished; no other is
\* begun and completed (pass.go:91).
Counts == UNION {0 .. Len(c.items) : c \in Corpora}
AtMostOneBlockAfterInterrupt ==
    \A k \in Counts : []((ctxErr /\ Applied = k) => [](Applied <= k + 1))

\* README.md:23 and design.md:164: exec_ns runs from the first
\* ApplyTransaction to IntermediateRoot's return, so it contains the time
\* trie_commit_ns reports for that call.
ExecIncludesCommit == \A i \in DOMAIN coll : coll[i].exec >= coll[i].commit

\* apply_block.go:158: the timer counts from some monotonic epoch.  So no
\* phase is longer than the pass it is part of.
PhaseShorterThanPass ==
    \A i \in DOMAIN coll : coll[i].exec <= clock /\ coll[i].commit <= clock

=============================================================================
