----------------------------- MODULE PassProofs -----------------------------
(***************************************************************************)
(* What TLAPS proves of Pass, for any set of corpora, any clock and any    *)
(* interleaving of signals, clock steps and background reads: every state  *)
(* is well typed, which for the record of a block means that none of its   *)
(* unsigned subtractions goes below zero except a phase timer under a wall *)
(* clock that is set back; the counters of a block agree; and bytes and    *)
(* phases are counted once.                                                *)
(***************************************************************************)
EXTENDS Pass, SumLemmas, FiniteSetTheorems, TLAPS

\* Inside a block: there is one, and the byte counter is past its baseline.
Inside ==
    /\ pc \in {"begin", "txs", "commit", "record"} => count >= 1 /\ blk # Malformed
    /\ pc \in {"txs", "commit", "record"} => dbBefore <= dbRead
    /\ began <= clock
    /\ ~setBack => clock <= wall
    /\ result.err = "apply" => pc = "returned" /\ count >= 1
    /\ result.err = "pending" <=> pc # "returned"
    /\ result.err = "none" => count = Len(corpus.items)

IInv == TypeOK /\ Inside /\ CountersAgree

-----------------------------------------------------------------------------
(* The corpus.                                                             *)

LEMMA CorpusType ==
    ASSUME TypeOK
    PROVE  corpus \in Corpus /\ corpus.items \in Seq(Block \cup {Malformed})
                             /\ Len(corpus.items) \in Nat
BY PassAssumption DEF TypeOK, Corpus

LEMMA BlkType ==
    ASSUME TypeOK, Inside, pc \in {"begin", "txs", "commit", "record"}
    PROVE  blk \in Block /\ blk.txs \in Seq(Tx) /\ Len(blk.txs) \in Nat
<1>1. count \in 1 .. Len(corpus.items)
  BY CorpusType DEF TypeOK, Inside
<1>2. blk \in Block
  BY <1>1, CorpusType DEF Inside, blk
<1> QED BY <1>2 DEF Block

LEMMA TxType ==
    ASSUME TypeOK, Inside, pc = "txs", MoreTxs
    PROVE  /\ tx.from \in Accounts /\ tx.gas \in Nat /\ tx.used \in Nat
           /\ tx.used <= tx.gas /\ tx.ok \in BOOLEAN /\ tx.ops \in Nat
<1>1. txi + 1 \in 1 .. Len(blk.txs)
  BY BlkType DEF MoreTxs, TypeOK
<1>2. tx \in Tx
  BY <1>1, BlkType DEF tx
<1> QED BY <1>2 DEF Tx, TxFields

-----------------------------------------------------------------------------
(* The record of a block.                                                  *)

LEMMA Sub64Type ==
    ASSUME NEW a \in 0 .. Horizon, NEW b \in 0 .. Horizon
    PROVE  Sub64(a, b) \in 0 .. Word - 1
BY PassAssumption DEF Sub64

LEMMA RevertedType == TypeOK => Reverted \in Nat
<1> SUFFICES ASSUME TypeOK PROVE Reverted \in Nat
  OBVIOUS
<1>1. DOMAIN receipts = 1 .. Len(receipts) /\ Len(receipts) \in Nat
  BY DEF TypeOK
<1>2. IsFiniteSet(1 .. Len(receipts))
  BY <1>1, FS_Interval
<1>3. {i \in DOMAIN receipts : ~receipts[i]} \subseteq 1 .. Len(receipts)
  BY <1>1
<1>4. IsFiniteSet({i \in DOMAIN receipts : ~receipts[i]})
  BY <1>2, <1>3, FS_Subset
<1> QED BY <1>4, FS_CardinalityType DEF Reverted

LEMMA CollType ==
    ASSUME IInv, RecordBlock
    PROVE  coll' \in Seq(BlockRecord)
<1> USE DEF IInv
<1>1. pc = "record"
  BY DEF RecordBlock
<1>2. blk.number \in Nat /\ Len(blk.txs) \in Nat
  BY <1>1, BlkType DEF Block
<1>3. TxCount \in Nat
  BY <1>1, <1>2 DEF TxCount, CountersAgree, TypeOK
<1>4. ExecNs \in 0 .. Word - 1 /\ TrieCommitNs \in 0 .. Word - 1
  BY Sub64Type DEF ExecNs, TrieCommitNs, TypeOK
<1>5. dbRead - dbBefore \in Nat
  BY <1>1 DEF TypeOK, Inside
<1> DEFINE r == [number |-> blk.number, txs |-> TxCount, reverted |-> Reverted,
                 gas |-> usedGas, ops |-> ops, exec |-> ExecNs, commit |-> TrieCommitNs,
                 bytes |-> dbRead - dbBefore]
<1>6. r \in BlockRecord
  BY <1>2, <1>3, <1>4, <1>5, RevertedType DEF TypeOK, BlockRecord
<1>7. coll' = IF measured THEN Append(coll, r) ELSE coll
  BY DEF RecordBlock
<1> HIDE DEF r
<1> QED BY <1>6, <1>7 DEF TypeOK

-----------------------------------------------------------------------------
(* Every step keeps the invariant.                                         *)

LEMMA NoResultType ==
    ASSUME NEW e \in Errors \cup {"pending"}
    PROVE  NoResult(e) \in Result /\ NoResult(e).err = e
<1>1. << >> \in Seq(BlockRecord)
  OBVIOUS
<1> QED BY <1>1 DEF NoResult, Result

LEMMA InitInv == Init => IInv
<1> SUFFICES ASSUME Init PROVE IInv
  OBVIOUS
<1>1. Len(corpus.items) \in Nat
  BY PassAssumption DEF Init, Corpus
<1>2. TypeOK
  <2>1. /\ pc \in PC /\ corpus \in Corpora
        /\ measured \in BOOLEAN /\ ctxErr \in BOOLEAN /\ sampler \in BOOLEAN
    BY DEF Init, PC
  <2>2. count \in 0 .. Len(corpus.items)
    BY <1>1 DEF Init
  <2>3. nonces \in [Accounts -> Nat] /\ receipts \in Seq(BOOLEAN) /\ coll \in Seq(BlockRecord)
    BY DEF Init
  <2>4. result \in Result
    BY NoResultType DEF Init, Pending
  <2>5. /\ txi \in Nat /\ pool \in Nat /\ usedGas \in Nat /\ skipped \in Nat /\ ops \in Nat
        /\ totalGas \in Nat /\ dbRead \in Nat /\ dbBefore \in Nat
    BY DEF Init
  <2>6. /\ t0 \in 0 .. Horizon /\ t1 \in 0 .. Horizon /\ t2 \in 0 .. Horizon
        /\ clock \in 0 .. Horizon /\ wall \in 0 .. Horizon /\ began \in 0 .. Horizon
    BY PassAssumption DEF Init
  <2>7. setBack \in BOOLEAN
    BY DEF Init
  <2> QED BY <2>1, <2>2, <2>3, <2>4, <2>5, <2>6, <2>7 DEF TypeOK
<1>3. Inside
  BY DEF Init, Inside, Pending, NoResult
<1>4. CountersAgree
  BY DEF Init, CountersAgree, Applied, InBlock, Pending, NoResult
<1> QED BY <1>2, <1>3, <1>4 DEF IInv

\* An error return from a state where the pass has not returned yet.
LEMMA ErrorStep ==
    ASSUME IInv, pc # "returned", NEW e \in Errors, ReturnError(e), dbRead' \in Nat,
           e = "apply" => pc = "txs",
           e # "apply" => pc \notin {"begin", "txs", "commit", "record"},
           UNCHANGED <<corpus, ctxErr, count, nonces, block, timers, totals, setup,
                       dbBefore, time>>
    PROVE  IInv'
<1> USE DEF IInv, block, timers, totals, setup, time
<1>1. pc' = "returned" /\ result' = NoResult(e) /\ result'.err = e
  BY NoResultType DEF ReturnError
<1>2. TypeOK'
  <2>1. result' \in Result
    BY <1>1, NoResultType
  <2> QED BY <1>1, <2>1 DEF TypeOK, PC
<1>3. Inside'
  BY <1>1 DEF Inside, Errors
<1>4. Applied' = Applied
  BY <1>1 DEF Applied, InBlock, Inside
<1>5. CountersAgree'
  BY <1>1, <1>4 DEF CountersAgree
<1> QED BY <1>2, <1>3, <1>5

LEMMA OpenStep ==
    ASSUME IInv, OpenState \/ ResolveConfig \/ OpenIter \/ Setup \/ CheckContext
    PROVE  IInv'
<1> USE DEF IInv
<1>1. CASE pc' = "returned"
  <2>1. pc \in {"state", "config", "iter", "check"} /\ pc # "returned"
    BY <1>1 DEF OpenState, ResolveConfig, OpenIter, Setup, CheckContext
  <2>2. PICK e \in Errors \ {"apply"} : ReturnError(e)
    BY <1>1 DEF OpenState, ResolveConfig, OpenIter, Setup, CheckContext, Errors
  <2>3. dbRead' \in Nat
    BY PassAssumption DEF OpenState, ResolveConfig, OpenIter, Setup, CheckContext, ReadDB,
       disk, TypeOK
  <2>4. UNCHANGED <<corpus, ctxErr, count, nonces, block, timers, totals, setup, dbBefore,
                    time>>
    BY <1>1 DEF OpenState, ResolveConfig, OpenIter, Setup, CheckContext, disk
  <2> QED BY <2>1, <2>2, <2>3, <2>4, ErrorStep
<1>2. CASE pc' # "returned"
  <2>1. pc \in {"state", "config", "iter", "setup", "check"}
        /\ pc' \in {"config", "iter", "setup", "check", "next"} /\ UNCHANGED result
    BY <1>2 DEF OpenState, ResolveConfig, OpenIter, Setup, CheckContext, ReturnError
  <2>2. dbRead' \in Nat
    BY PassAssumption DEF OpenState, ResolveConfig, OpenIter, Setup, CheckContext, ReadDB,
       disk, TypeOK
  <2>3. UNCHANGED <<corpus, measured, ctxErr, count, nonces, block, timers, totals, dbBefore,
                    time>>
    BY DEF OpenState, ResolveConfig, OpenIter, Setup, CheckContext, disk, setup
  <2>4. sampler' \in BOOLEAN /\ began' \in 0 .. Horizon /\ began' <= clock
    BY PassAssumption
       DEF OpenState, ResolveConfig, OpenIter, Setup, CheckContext, setup, TypeOK, Inside
  <2>5. TypeOK'
    BY <2>1, <2>2, <2>3, <2>4 DEF TypeOK, PC, block, timers, totals, time
  <2>6. Inside'
    BY <2>1, <2>3, <2>4 DEF Inside, time
  <2>7. Applied' = Applied
    BY <2>1, <2>3 DEF Applied, InBlock
  <2>8. CountersAgree'
    BY <2>1, <2>3, <2>7 DEF CountersAgree, totals
  <2> QED BY <2>5, <2>6, <2>8
<1> QED BY <1>1, <1>2

LEMMA NextBlockStep == ASSUME IInv, NextBlock PROVE IInv'
<1> USE DEF IInv
<1>0. count \in Nat /\ Len(corpus.items) \in Nat /\ count <= Len(corpus.items)
      /\ count # Len(corpus.items) /\ pc = "next"
  BY CorpusType DEF TypeOK, NextBlock, AtEOF
<1>1. CASE corpus.items[count + 1] = Malformed
  <2>1. ReturnError("read") /\ dbRead' \in Nat /\ "read" \in Errors
        /\ UNCHANGED <<corpus, ctxErr, count, nonces, block, timers, totals, setup,
                       dbBefore, time>>
    BY <1>1 DEF NextBlock, disk, TypeOK, Errors
  <2> QED BY <1>0, <2>1, ErrorStep
<1>2. CASE corpus.items[count + 1] # Malformed
  <2>1. /\ pc' = "begin" /\ count' = count + 1
        /\ UNCHANGED <<corpus, ctxErr, nonces, block, timers, totals, setup, disk, time,
                       result>>
    BY <1>2 DEF NextBlock
  <2>2. TypeOK'
    BY <1>0, <2>1 DEF TypeOK, PC, block, timers, totals, setup, disk, time
  <2>3. result.err = "pending"
    BY <1>0 DEF Inside
  <2>4. Inside'
    BY <1>0, <1>2, <2>1, <2>3 DEF Inside, blk, time, setup
  <2>5. Applied' = Applied
    BY <1>0, <2>1, <2>3 DEF Applied, InBlock
  <2>6. CountersAgree'
    BY <2>1, <2>5 DEF CountersAgree, totals, setup
  <2> QED BY <2>2, <2>4, <2>6
<1> QED BY <1>1, <1>2

LEMMA FinishStep == ASSUME IInv, Finish PROVE IInv'
<1> USE DEF IInv, Finish, block, timers, totals, setup, disk, time
<1>1. clock - began \in Nat
  BY PassAssumption DEF TypeOK, Inside
<1>2. result' \in Result /\ result'.err = "none"
  BY <1>1 DEF TypeOK, Result
<1>3. TypeOK'
  BY <1>2 DEF TypeOK, PC
<1>4. Inside'
  BY <1>2 DEF Inside, AtEOF
<1>5. Applied' = Applied
  BY <1>2 DEF Applied, InBlock, Inside
<1>6. CountersAgree'
  BY <1>5 DEF CountersAgree
<1> QED BY <1>3, <1>4, <1>6

LEMMA BeginBlockStep == ASSUME IInv, BeginBlock PROVE IInv'
<1> USE DEF IInv, BeginBlock, totals, setup, time
<1>1. blk \in Block /\ blk.limit \in Nat
  BY BlkType DEF Block
<1>2. TypeOK'
  BY <1>1 DEF TypeOK, PC, GasPool, CountBefore
<1>3. Inside'
  BY DEF Inside, CountBefore, TypeOK, blk
<1>4. Applied' = Applied
  BY DEF Applied, InBlock
<1>5. CountersAgree'
  BY <1>1, <1>4, BlkType DEF CountersAgree, blk
<1> QED BY <1>2, <1>3, <1>5

\* One transaction, skipped or executed.
LEMMA Paid ==
    ASSUME NEW p \in Nat, NEW g \in Nat, NEW u \in Nat, u <= g, g <= p, NEW s \in Nat
    PROVE  p - u \in Nat /\ s + u \in Nat
OBVIOUS

LEMMA ReadDBGrows ==
    ASSUME dbRead \in Nat, ReadDB
    PROVE  dbRead' \in Nat /\ dbRead <= dbRead'
<1>1. ReadBytes \in Nat
  BY PassAssumption
<1>2. PICK k \in 0 .. ReadBytes : dbRead' = dbRead + k
  BY DEF ReadDB
<1> QED BY <1>1, <1>2

LEMMA TxStep == ASSUME IInv, SkipTx \/ ApplyTx PROVE IInv'
<1> USE DEF IInv, timers, totals, setup, time
<1>1. pc = "txs" /\ MoreTxs /\ pc' = pc /\ txi' = txi + 1
      /\ UNCHANGED <<corpus, count, timers, totals, setup, time, result, dbBefore>>
  BY DEF SkipTx, ApplyTx, disk
<1>2. txi' \in Nat /\ txi' <= Len(blk.txs)
  BY <1>1, BlkType DEF MoreTxs, TypeOK
<1>3. dbRead' \in Nat /\ dbRead <= dbRead'
  <2>1. dbRead \in Nat /\ (dbRead' = dbRead \/ ReadDB)
    BY DEF SkipTx, ApplyTx, disk, TypeOK
  <2> QED BY <2>1, ReadDBGrows
<1>4. TypeOK' /\ skipped' + Len(receipts') = txi'
  <2>1. CASE SkipTx
    <3>1. skipped' = skipped + 1 /\ receipts' = receipts
      BY <2>1 DEF SkipTx
    <3>2. skipped \in Nat /\ Len(receipts) \in Nat /\ skipped + Len(receipts) = txi
      BY <1>1 DEF TypeOK, CountersAgree
    <3>3. skipped' \in Nat /\ skipped' + Len(receipts') = txi'
      BY <1>1, <3>1, <3>2
    <3>4. TypeOK'
      BY <1>1, <1>2, <1>3, <2>1, <3>3 DEF SkipTx, TypeOK
    <3> QED BY <3>3, <3>4
  <2>2. CASE ApplyTx
    <3>1. /\ tx.from \in Accounts /\ tx.gas \in Nat /\ tx.used \in Nat
          /\ tx.used <= tx.gas /\ tx.ok \in BOOLEAN /\ tx.ops \in Nat
      BY <1>1, TxType
    <3>2. pool' \in Nat /\ usedGas' \in Nat
      <4>1. pool' = pool - tx.used /\ usedGas' = usedGas + tx.used /\ tx.gas <= pool
        BY <2>2 DEF ApplyTx, Acceptable
      <4>2. pool \in Nat /\ usedGas \in Nat
        BY DEF TypeOK
      <4>3. tx.used \in Nat /\ tx.gas \in Nat /\ tx.used <= tx.gas
        BY <3>1
      <4> QED BY <4>1, <4>2, <4>3, Paid
    <3>3. ops' \in Nat
      <4>1. ops' = ops + tx.ops \/ ops' = ops + 0
        BY <2>2 DEF ApplyTx, CountedOps
      <4>2. ops \in Nat
        BY DEF TypeOK
      <4>3. tx.ops \in Nat
        BY <3>1
      <4> HIDE DEF IInv
      <4> QED BY <4>1, <4>2, <4>3
    <3>4. nonces' \in [Accounts -> Nat]
      <4>1. nonces' = [nonces EXCEPT ![tx.from] = @ + 1]
        BY <2>2 DEF ApplyTx
      <4>2. nonces \in [Accounts -> Nat]
        BY DEF TypeOK
      <4> QED BY <3>1, <4>1, <4>2
    <3>5. receipts' \in Seq(BOOLEAN) /\ Len(receipts') = Len(receipts) + 1
      BY <2>2, <3>1 DEF ApplyTx, TypeOK
    <3>6. skipped' = skipped /\ ctxErr' = ctxErr
      BY <2>2 DEF ApplyTx
    <3>7. skipped' + Len(receipts') = txi'
      <4>1. skipped + Len(receipts) = txi
        BY <1>1 DEF CountersAgree
      <4>2. skipped \in Nat /\ Len(receipts) \in Nat
        BY DEF TypeOK
      <4> QED BY <1>1, <3>5, <3>6, <4>1, <4>2
    <3> QED BY <1>1, <1>2, <1>3, <3>2, <3>3, <3>4, <3>5, <3>6, <3>7 DEF TypeOK
  <2> QED BY <2>1, <2>2
<1>5. Inside'
  BY <1>1, <1>3 DEF Inside, TypeOK, blk
<1>6. Applied' = Applied
  BY <1>1 DEF Applied, InBlock
<1>7. CountersAgree'
  BY <1>1, <1>2, <1>4, <1>6 DEF CountersAgree, blk
<1> QED BY <1>4, <1>5, <1>7

LEMMA RejectStep == ASSUME IInv, RejectTx PROVE IInv'
<1>1. pc = "txs" /\ ReturnError("apply") /\ dbRead' \in Nat /\ "apply" \in Errors
      /\ UNCHANGED <<corpus, ctxErr, count, nonces, block, timers, totals, setup, dbBefore,
                     time>>
  BY PassAssumption DEF IInv, RejectTx, ReadDB, TypeOK, Errors
<1> QED BY <1>1, ErrorStep

LEMMA EndTxsStep == ASSUME IInv, EndTxs \/ Commit PROVE IInv'
<1> USE DEF IInv, block, totals, setup, time
<1>1. /\ pc \in {"txs", "commit"} /\ pc' \in {"commit", "record"}
      /\ pc = "txs" => ~MoreTxs
      /\ UNCHANGED <<corpus, ctxErr, count, nonces, block, totals, setup, time, result, dbBefore>>
  BY DEF EndTxs, Commit, disk
<1>2. dbRead' \in Nat /\ dbRead <= dbRead'
  <2>1. dbRead \in Nat /\ (dbRead' = dbRead \/ ReadDB)
    BY DEF EndTxs, Commit, disk, TypeOK
  <2> QED BY <2>1, ReadDBGrows
<1>3. t0' \in 0 .. Horizon /\ t1' \in 0 .. Horizon /\ t2' \in 0 .. Horizon
  BY DEF EndTxs, Commit, TypeOK
<1>4. TypeOK'
  BY <1>1, <1>2, <1>3 DEF TypeOK, PC
<1>5. Inside'
  BY <1>1, <1>2 DEF Inside, TypeOK, blk
<1>6. Applied' = Applied
  BY <1>1 DEF Applied, InBlock
<1>7. skipped + Len(receipts) = Len(blk.txs)
  BY <1>1, BlkType DEF CountersAgree, MoreTxs, TypeOK
<1>8. CountersAgree'
  BY <1>1, <1>6, <1>7 DEF CountersAgree, blk
<1> QED BY <1>4, <1>5, <1>8

LEMMA RecordStep == ASSUME IInv, RecordBlock PROVE IInv'
<1> USE DEF IInv, RecordBlock, block, timers, setup, disk, time
<1>1. coll' \in Seq(BlockRecord)
  BY CollType
<1>2. TypeOK'
  BY <1>1 DEF TypeOK, PC
<1>3. Inside'
  BY DEF Inside
<1>4. result.err # "apply"
  BY DEF Inside
<1>5. Applied = count - 1 /\ Applied' = count
  BY <1>4 DEF Applied, InBlock
<1>6. measured => Len(coll') = Len(coll) + 1
  BY DEF TypeOK
<1>7. CountersAgree'
  BY <1>5, <1>6 DEF CountersAgree, TypeOK
<1> QED BY <1>2, <1>3, <1>7

LEMMA WorldStep ==
    ASSUME IInv, Signal \/ Elapse \/ StepWall \/ BackgroundRead \/ UNCHANGED vars
    PROVE  IInv'
<1> USE DEF IInv, block, timers, totals, setup, disk, time
<1>1. /\ UNCHANGED <<pc, corpus, count, nonces, block, timers, totals, setup, dbBefore, result>>
      /\ ctxErr' \in BOOLEAN /\ dbRead' \in Nat /\ dbRead <= dbRead'
  <2>1. UNCHANGED <<pc, corpus, count, nonces, block, timers, totals, setup, dbBefore, result>>
    BY DEF Signal, Elapse, StepWall, BackgroundRead, vars
  <2>2. ctxErr' = TRUE \/ ctxErr' = ctxErr
    BY DEF Signal, Elapse, StepWall, BackgroundRead, vars
  <2>3. dbRead' = dbRead \/ dbRead' = dbRead + 1
    BY DEF Signal, Elapse, StepWall, BackgroundRead, vars
  <2>4. ctxErr' \in BOOLEAN
    BY <2>2 DEF TypeOK
  <2>5. dbRead' \in Nat /\ dbRead <= dbRead'
    BY <2>3 DEF TypeOK
  <2> QED BY <2>1, <2>4, <2>5
<1>2. /\ clock' \in 0 .. Horizon /\ wall' \in 0 .. Horizon /\ clock <= clock'
      /\ setBack' \in BOOLEAN /\ (~setBack' => clock' <= wall')
  <2>1. \/ clock' = clock /\ wall' = wall /\ setBack' = setBack
        \/ /\ clock' = clock + 1 /\ wall' = wall + 1 /\ clock < Horizon /\ wall < Horizon
           /\ setBack' = setBack
        \/ StepWall
    BY DEF Signal, Elapse, BackgroundRead, vars
  <2>2. /\ clock \in 0 .. Horizon /\ wall \in 0 .. Horizon /\ Horizon \in Nat
        /\ setBack \in BOOLEAN /\ (~setBack => clock <= wall)
    BY PassAssumption DEF TypeOK, Inside
  <2>3. CASE StepWall
    <3>1. /\ clock' = clock /\ wall' \in 0 .. Horizon
          /\ setBack' \in BOOLEAN /\ (~setBack' => ~setBack /\ ~(wall' < wall))
      BY <2>2, <2>3 DEF StepWall
    <3>2. ~setBack' => clock' <= wall'
      BY <2>2, <3>1
    <3> QED BY <2>2, <3>1, <3>2
  <2> QED BY <2>1, <2>2, <2>3
<1>3. TypeOK'
  BY <1>1, <1>2 DEF TypeOK
<1>4. Inside'
  BY <1>1, <1>2, PassAssumption DEF Inside, TypeOK, blk
<1>5. Applied' = Applied
  BY <1>1 DEF Applied, InBlock
<1>6. CountersAgree'
  BY <1>1, <1>5 DEF CountersAgree, blk
<1> QED BY <1>3, <1>4, <1>6

LEMMA NextInv == IInv /\ [Next]_vars => IInv'
<1> SUFFICES ASSUME IInv, [Next]_vars PROVE IInv'
  OBVIOUS
<1>1. CASE OpenState \/ ResolveConfig \/ OpenIter \/ Setup \/ CheckContext
  BY <1>1, OpenStep
<1>2. CASE NextBlock
  BY <1>2, NextBlockStep
<1>3. CASE Finish
  BY <1>3, FinishStep
<1>4. CASE BeginBlock
  BY <1>4, BeginBlockStep
<1>5. CASE SkipTx \/ ApplyTx
  BY <1>5, TxStep
<1>6. CASE RejectTx
  BY <1>6, RejectStep
<1>7. CASE EndTxs \/ Commit
  BY <1>7, EndTxsStep
<1>8. CASE RecordBlock
  BY <1>8, RecordStep
<1>9. CASE Signal \/ Elapse \/ StepWall \/ BackgroundRead \/ UNCHANGED vars
  BY <1>9, WorldStep
<1> QED
  BY <1>1, <1>2, <1>3, <1>4, <1>5, <1>6, <1>7, <1>8, <1>9 DEF Next, Step, Returned

LEMMA Invariance == Spec => []IInv
BY InitInv, NextInv, PTL DEF Spec

-----------------------------------------------------------------------------

\* Every reachable state is well typed: gas pool, transaction count and byte
\* deltas never go below zero, and every timer difference is a uint64.
THEOREM TypeCorrect == Spec => []TypeOK
<1>1. IInv => TypeOK
  BY DEF IInv
<1> QED BY <1>1, Invariance, PTL

\* For any corpus: inside a block every transaction handled was skipped or
\* has a receipt, and a measured pass has one record per finished block.
THEOREM CountersAgreeCorrect == Spec => []CountersAgree
<1>1. IInv => CountersAgree
  BY DEF IInv
<1> QED BY <1>1, Invariance, PTL

-----------------------------------------------------------------------------
(* The interrupt.                                                          *)

\* The context is done, and no block after the k + 1st will be begun.
Late(k) ==
    /\ ctxErr
    /\ count <= k + 1
    /\ pc = "next" => count <= k

LEMMA LateStep ==
    ASSUME NEW k \in Nat
    PROVE  IInv /\ Late(k) /\ [Next]_vars => Late(k)'
<1> SUFFICES ASSUME IInv, Late(k), [Next]_vars PROVE Late(k)'
  OBVIOUS
<1> USE DEF Late
<1>1. CASE CheckContext
  BY <1>1 DEF CheckContext, Interrupted, ReturnError
<1>2. CASE NextBlock
  <2>1. count \in Nat /\ count <= k
    BY <1>2, CorpusType DEF NextBlock, IInv, TypeOK
  <2> QED BY <1>2, <2>1 DEF NextBlock, ReturnError
<1>3. CASE OpenState \/ ResolveConfig \/ OpenIter \/ Setup \/ Finish
  BY <1>3 DEF OpenState, ResolveConfig, OpenIter, Setup, Finish, ReturnError
<1>4. CASE BeginBlock \/ SkipTx \/ ApplyTx \/ RejectTx \/ EndTxs \/ Commit \/ RecordBlock
  BY <1>4 DEF BeginBlock, SkipTx, ApplyTx, RejectTx, EndTxs, Commit, RecordBlock, ReturnError
<1>5. CASE Signal \/ Elapse \/ StepWall \/ BackgroundRead
  BY <1>5 DEF Signal, Elapse, StepWall, BackgroundRead
<1>6. CASE UNCHANGED vars
  BY <1>6 DEF vars
<1> QED BY <1>1, <1>2, <1>3, <1>4, <1>5, <1>6 DEF Next, Step, Returned

\* For any set of corpora, however long, at most the block that is being
\* executed when the user interrupts is finished (pass.go:91).
THEOREM AtMostOneBlockCorrect == Spec => AtMostOneBlockAfterInterrupt
<1> SUFFICES ASSUME NEW k \in Counts
             PROVE  Spec => []((ctxErr /\ Applied = k) => [](Applied <= k + 1))
  BY DEF AtMostOneBlockAfterInterrupt
<1>0. k \in Nat
  BY PassAssumption DEF Counts, Corpus
<1>1. IInv /\ ctxErr /\ Applied = k => Late(k)
  BY <1>0, CorpusType DEF IInv, TypeOK, Inside, Applied, InBlock, Late
<1>2. IInv /\ Late(k) => Applied <= k + 1
  BY <1>0, CorpusType DEF IInv, TypeOK, Applied, Late
<1>3. IInv /\ Late(k) /\ [Next]_vars => Late(k)'
  BY <1>0, LateStep
<1> QED BY <1>1, <1>2, <1>3, Invariance, PTL DEF Spec

-----------------------------------------------------------------------------
(* The bytes and the phases of the records.                                *)

BytesOf(c) == [i \in DOMAIN c |-> c[i].bytes]
PhasesOf(c) == [i \in DOMAIN c |-> c[i].exec + c[i].commit]

LEMMA SumsEmpty == Total(BytesOf(<< >>)) = 0 /\ Total(PhasesOf(<< >>)) = 0
<1>1. BytesOf(<< >>) = << >> /\ PhasesOf(<< >>) = << >>
  BY DEF BytesOf, PhasesOf
<1> QED BY <1>1, TotalEmpty

LEMMA SumsAppend ==
    ASSUME NEW c \in Seq(BlockRecord), NEW r \in BlockRecord
    PROVE  /\ Total(BytesOf(Append(c, r))) = Total(BytesOf(c)) + r.bytes
           /\ Total(PhasesOf(Append(c, r))) = Total(PhasesOf(c)) + (r.exec + r.commit)
<1>1. \A x \in BlockRecord : x.bytes \in Int /\ x.exec + x.commit \in Int
  <2>1. Word \in Nat
    BY PassAssumption
  <2> TAKE x \in BlockRecord
  <2>2. x.bytes \in Nat /\ x.exec \in 0 .. Word - 1 /\ x.commit \in 0 .. Word - 1
    BY DEF BlockRecord
  <2> QED BY <2>1, <2>2
<1>2. /\ BytesOf(c) \in Seq(Int) /\ Len(BytesOf(c)) = Len(c) /\ r.bytes \in Int
      /\ PhasesOf(c) \in Seq(Int) /\ Len(PhasesOf(c)) = Len(c) /\ r.exec + r.commit \in Int
  BY <1>1 DEF BytesOf, PhasesOf
<1>3. BytesOf(Append(c, r)) = Append(BytesOf(c), r.bytes)
  BY <1>2 DEF BytesOf
<1>4. PhasesOf(Append(c, r)) = Append(PhasesOf(c), r.exec + r.commit)
  BY <1>2 DEF PhasesOf
<1> QED BY <1>2, <1>3, <1>4, TotalAppend

\* The bytes of the records were counted before the block's baseline was
\* read; and as long as the wall clock has not been set back its timers are
\* ordered and the phases of the records lie before them.
Accounted ==
    /\ Total(BytesOf(coll)) \in Nat /\ Total(PhasesOf(coll)) \in Nat
    /\ Total(BytesOf(coll)) <= dbRead
    /\ pc \in {"txs", "commit", "record"} => Total(BytesOf(coll)) <= dbBefore
    /\ pc \in {"state", "config", "iter", "setup"} => coll = << >>
    /\ ~setBack =>
         /\ Total(PhasesOf(coll)) <= wall - began
         /\ pc \in {"txs", "commit", "record"} =>
              t0 <= wall /\ Total(PhasesOf(coll)) <= t0 - began
         /\ pc \in {"commit", "record"} => t0 <= t1 /\ t1 <= wall
         /\ pc = "record" => t1 <= t2 /\ t2 <= wall

LEMMA AccountedRecord == ASSUME IInv, Accounted, RecordBlock PROVE Accounted'
<1> USE DEF IInv
<1>1. pc = "record" /\ pc' = "check"
      /\ UNCHANGED <<t0, t1, t2, began, dbRead, dbBefore, clock, wall, setBack, measured>>
  BY DEF RecordBlock, timers, setup, disk, time
<1>2. /\ dbRead \in Nat /\ dbBefore \in Nat /\ dbBefore <= dbRead
      /\ t0 \in 0 .. Horizon /\ t1 \in 0 .. Horizon /\ t2 \in 0 .. Horizon
      /\ wall \in 0 .. Horizon /\ began \in 0 .. Horizon
  BY <1>1 DEF TypeOK, Inside
<1>3. CASE ~measured
  BY <1>1, <1>3 DEF RecordBlock, Accounted
<1>4. CASE measured
  <2> DEFINE r == [number |-> blk.number, txs |-> TxCount, reverted |-> Reverted,
                   gas |-> usedGas, ops |-> ops, exec |-> ExecNs, commit |-> TrieCommitNs,
                   bytes |-> dbRead - dbBefore]
  <2>1. coll' = Append(coll, r) /\ coll \in Seq(BlockRecord) /\ coll' \in Seq(BlockRecord)
    BY <1>4, CollType DEF RecordBlock, TypeOK
  <2>2. r.bytes = dbRead - dbBefore /\ r.exec = ExecNs /\ r.commit = TrieCommitNs
    OBVIOUS
  <2> HIDE DEF r
  <2>3. r \in BlockRecord
    <3>1. r = coll'[Len(coll) + 1] /\ Len(coll') = Len(coll) + 1 /\ Len(coll) \in Nat
      BY <2>1
    <3> QED BY <2>1, <3>1
  <2>4. /\ Total(BytesOf(coll')) = Total(BytesOf(coll)) + (dbRead - dbBefore)
        /\ Total(PhasesOf(coll')) = Total(PhasesOf(coll)) + (ExecNs + TrieCommitNs)
    BY <2>1, <2>2, <2>3, SumsAppend
  <2>5. ExecNs \in Nat /\ TrieCommitNs \in Nat
    <3>1. ExecNs \in 0 .. Word - 1 /\ TrieCommitNs \in 0 .. Word - 1
      BY <1>2, Sub64Type DEF ExecNs, TrieCommitNs
    <3>2. Word \in Nat
      BY PassAssumption
    <3> QED BY <3>1, <3>2
  <2>6. Total(BytesOf(coll')) \in Nat /\ Total(PhasesOf(coll')) \in Nat
        /\ Total(BytesOf(coll')) <= dbRead
    <3>1. Total(BytesOf(coll)) \in Nat /\ Total(PhasesOf(coll)) \in Nat
          /\ Total(BytesOf(coll)) <= dbBefore
      BY <1>1 DEF Accounted
    <3>2. Total(BytesOf(coll')) \in Nat /\ Total(BytesOf(coll')) <= dbRead
      BY <1>2, <2>4, <3>1
    <3>3. Total(PhasesOf(coll')) \in Nat
      BY <2>4, <2>5, <3>1
    <3> QED BY <3>2, <3>3
  <2>7. ASSUME ~setBack PROVE Total(PhasesOf(coll')) <= wall - began
    <3>1. t0 <= t1 /\ t1 <= t2 /\ t2 <= wall /\ Total(PhasesOf(coll)) <= t0 - began
      BY <1>1, <2>7 DEF Accounted
    <3>2. t0 \in Nat /\ t1 \in Nat /\ t2 \in Nat /\ wall \in Nat /\ began \in Nat
          /\ Total(PhasesOf(coll)) \in Nat
      BY <1>2, PassAssumption DEF Accounted
    <3>3. ExecNs = t1 - t0 /\ TrieCommitNs = t2 - t1
      BY <3>1, <3>2 DEF ExecNs, TrieCommitNs, Sub64
    <3> QED BY <2>4, <3>1, <3>2, <3>3
  <2> QED BY <1>1, <2>6, <2>7 DEF Accounted
<1> QED BY <1>3, <1>4 DEF TypeOK

LEMMA AccountedStep == ASSUME IInv, Accounted, [Next]_vars PROVE Accounted'
<1> USE DEF IInv
<1>0. /\ dbRead \in Nat /\ clock \in Nat /\ wall \in Nat /\ began \in Nat
      /\ (~setBack => clock <= wall) /\ setBack \in BOOLEAN /\ began <= clock /\ t0 \in Nat /\ t1 \in Nat /\ t2 \in Nat
      /\ (pc \in {"txs", "commit", "record"} => dbBefore <= dbRead)
      /\ Total(BytesOf(coll)) \in Nat /\ Total(PhasesOf(coll)) \in Nat
  BY PassAssumption DEF TypeOK, Inside, Accounted
<1>1. CASE RecordBlock
  BY <1>1, AccountedRecord
<1>2. CASE OpenState \/ ResolveConfig \/ OpenIter \/ CheckContext \/ NextBlock \/ Finish
           \/ SkipTx \/ ApplyTx \/ RejectTx
  <2>1. /\ UNCHANGED <<coll, clock, wall, setBack, began, t0, t1, t2, dbBefore>>
        /\ pc' \in {"txs", "commit", "record"} => pc' = pc
        /\ pc' \in {"state", "config", "iter", "setup"}
             => pc \in {"state", "config", "iter", "setup"}
    BY <1>2 DEF OpenState, ResolveConfig, OpenIter, CheckContext, NextBlock, Finish, SkipTx,
       ApplyTx, RejectTx, ReturnError, timers, totals, setup, disk, time
  <2>2. dbRead' \in Nat /\ dbRead <= dbRead'
    <3>1. dbRead' = dbRead \/ ReadDB
      BY <1>2 DEF OpenState, ResolveConfig, OpenIter, CheckContext, NextBlock, Finish, SkipTx,
         ApplyTx, RejectTx, disk
    <3> QED BY <1>0, <3>1, PassAssumption DEF ReadDB
  <2> QED BY <1>0, <2>1, <2>2 DEF Accounted
<1>3. CASE Setup
  BY <1>0, <1>3, SumsEmpty DEF Setup, Accounted, timers, totals, disk, time
<1>4. CASE BeginBlock
  BY <1>0, <1>4 DEF BeginBlock, Accounted, CountBefore, totals, setup, time
<1>5. CASE EndTxs \/ Commit
  <2>1. /\ UNCHANGED <<coll, clock, wall, setBack, began, t0, dbBefore>>
        /\ \/ pc = "txs" /\ pc' = "commit" /\ t1' = wall /\ t2' = t2
           \/ pc = "commit" /\ pc' = "record" /\ t2' = wall /\ t1' = t1
    BY <1>5 DEF EndTxs, Commit, timers, totals, setup, disk, time
  <2>2. dbRead' \in Nat /\ dbRead <= dbRead'
    BY <1>0, <1>5, PassAssumption DEF EndTxs, Commit, ReadDB, disk
  <2> QED BY <1>0, <2>1, <2>2 DEF Accounted
<1>6. CASE Signal \/ Elapse \/ StepWall \/ BackgroundRead \/ UNCHANGED vars
  <2>1. UNCHANGED <<pc, coll, began, t0, t1, t2, dbBefore>>
    BY <1>6 DEF Signal, Elapse, StepWall, BackgroundRead, vars, timers, totals, setup, disk
  <2>2. /\ wall' \in Int
        /\ ~setBack' => ~setBack /\ wall <= wall'
    <3>1. CASE StepWall
      <4>1. wall' = wall - 1 \/ wall' = wall + 1
        BY <3>1 DEF StepWall
      <4>2. setBack' = (setBack \/ wall' < wall)
        BY <3>1 DEF StepWall
      <4>3. wall \in Nat
        BY <1>0
      <4>4. wall' \in Int
        BY <4>1, <4>3
      <4>5. ~setBack' => ~setBack /\ ~(wall' < wall)
        BY <4>2
      <4> QED BY <4>3, <4>4, <4>5
    <3>2. CASE Elapse
      BY <1>0, <3>2 DEF Elapse
    <3>3. CASE Signal \/ BackgroundRead \/ UNCHANGED vars
      BY <1>0, <3>3 DEF Signal, BackgroundRead, vars, time
    <3> QED BY <1>6, <3>1, <3>2, <3>3
  <2>3. dbRead' = dbRead \/ dbRead' = dbRead + 1
    BY <1>6 DEF Signal, Elapse, StepWall, BackgroundRead, vars, disk
  <2> QED BY <1>0, <2>1, <2>2, <2>3 DEF Accounted
<1> QED BY <1>1, <1>2, <1>3, <1>4, <1>5, <1>6 DEF Next, Step, Returned

LEMMA AccountedInvariant == Spec => []Accounted
<1>1. Init => Accounted
  BY SumsEmpty DEF Init, Accounted
<1>2. IInv /\ Accounted /\ [Next]_vars => Accounted'
  BY AccountedStep
<1> QED BY <1>1, <1>2, Invariance, PTL DEF Spec

\* For any corpus and any background reads, no byte is in two records.
THEOREM BytesCountedOnceCorrect == Spec => []BytesCountedOnce
<1>1. Accounted => BytesCountedOnce
  BY DEF Accounted, BytesCountedOnce, BytesOf
<1> QED BY <1>1, AccountedInvariant, PTL

\* For any corpus and any clocks: until the wall clock is first set back the
\* phases exceed the pass by no more than it was set forward.
THEOREM PhasesWithinWallCorrect == Spec => []PhasesWithinWall
<1>1. IInv /\ Accounted => PhasesWithinWall
  <2> SUFFICES ASSUME IInv, Accounted, ~setBack
               PROVE  Total(PhasesOf(coll)) <= (clock - began) + (wall - clock)
    BY DEF PhasesWithinWall, PhasesOf
  <2>1. clock \in Nat /\ wall \in Nat /\ began \in Nat /\ Total(PhasesOf(coll)) \in Nat
    BY PassAssumption DEF IInv, TypeOK, Accounted
  <2>2. Total(PhasesOf(coll)) <= wall - began
    BY DEF Accounted
  <2> QED BY <2>1, <2>2
<1> QED BY <1>1, Invariance, AccountedInvariant, PTL

=============================================================================
