---------------------------- MODULE BlockReplay ----------------------------
(***************************************************************************)
(* What a pass over a corpus promises, one whole block at a time: blocks   *)
(* are applied in stream order, each contributing the gas and, in a        *)
(* measured pass, the summary that its transactions determine; the pass    *)
(* ends well only at the end of the stream, badly only where the corpus is *)
(* at fault or the user interrupted it, and it always ends.  runner.Pass   *)
(* is shown to implement this.                                             *)
(***************************************************************************)
EXTENDS Chain, Sums

CONSTANT Corpora

VARIABLES corpus, measured, ctxErr, applied, gas, summaries, outcome

vars == <<corpus, measured, ctxErr, applied, gas, summaries, outcome>>

\* The places of a block's transactions that execute, and what those among
\* the first k of them use, do and send.
Executed(blk) == {i \in DOMAIN blk.txs : ~IsSystemTx(blk.txs[i], blk.coinbase)}
GasUpTo(blk, k) ==
    Total([i \in 1 .. k |-> IF i \in Executed(blk) THEN blk.txs[i].used ELSE 0])
OpsUpTo(blk, k) ==
    Total([i \in 1 .. k |-> IF i \in Executed(blk) THEN blk.txs[i].ops ELSE 0])
SentUpTo(blk, k, a) == Cardinality({i \in Executed(blk) : i <= k /\ blk.txs[i].from = a})

\* What a has sent in the first n blocks.
SentBefore(n, a) ==
    Total([c \in 1 .. n |-> SentUpTo(corpus.items[c], Len(corpus.items[c].txs), a)])

\* Every executed transaction of the block is acceptable where it stands.
Executable(n) ==
    LET blk == corpus.items[n] IN
    \A i \in Executed(blk) :
        LET a == blk.txs[i].from IN
        Acceptable(blk.txs[i], SentBefore(n - 1, a) + SentUpTo(blk, i - 1, a),
                   blk.limit - GasUpTo(blk, i - 1))

Summary(n) ==
    LET blk == corpus.items[n] IN
    [number   |-> blk.number,
     txs      |-> Cardinality(Executed(blk)),
     reverted |-> Cardinality({i \in Executed(blk) : ~blk.txs[i].ok}),
     gas      |-> GasUpTo(blk, Len(blk.txs)),
     ops      |-> OpsUpTo(blk, Len(blk.txs))]

Usable == corpus.rootKnown /\ corpus.chainID \in KnownChains /\ corpus.readable

NextIsGood ==
    /\ Usable
    /\ applied < Len(corpus.items)
    /\ corpus.items[applied + 1] # Malformed
    /\ Executable(applied + 1)

Init ==
    /\ corpus \in Corpora /\ measured \in BOOLEAN
    /\ ctxErr = FALSE
    /\ applied = 0 /\ gas = 0 /\ summaries = << >>
    /\ outcome = "running"

Apply ==
    /\ outcome = "running"
    /\ NextIsGood
    /\ applied' = applied + 1
    /\ gas' = gas + Summary(applied + 1).gas
    /\ summaries' = IF measured THEN Append(summaries, Summary(applied + 1)) ELSE summaries
    /\ UNCHANGED <<corpus, measured, ctxErr, outcome>>

Complete ==
    /\ outcome = "running"
    /\ Usable
    /\ applied = Len(corpus.items)
    /\ outcome' = "ok"
    /\ UNCHANGED <<corpus, measured, ctxErr, applied, gas, summaries>>

Fail ==
    /\ outcome = "running"
    /\ ~NextIsGood
    /\ ~(Usable /\ applied = Len(corpus.items))
    /\ outcome' = "failed"
    /\ UNCHANGED <<corpus, measured, ctxErr, applied, gas, summaries>>

StopOnSignal ==
    /\ outcome = "running"
    /\ ctxErr
    /\ outcome' = "interrupted"
    /\ UNCHANGED <<corpus, measured, ctxErr, applied, gas, summaries>>

Signal ==
    /\ outcome = "running"
    /\ ~ctxErr
    /\ ctxErr' = TRUE
    /\ UNCHANGED <<corpus, measured, applied, gas, summaries, outcome>>

Step == Apply \/ Complete \/ Fail \/ StopOnSignal

Next == Step \/ Signal

Spec == Init /\ [][Next]_vars /\ WF_vars(Step)
=============================================================================
