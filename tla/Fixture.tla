------------------------------ MODULE Fixture ------------------------------
(***************************************************************************)
(* The fixture generator (scripts/prepare-fixture/main.go), which writes   *)
(* the corpus that the integration test and local runs replay: it generates *)
(* the blocks, brings a state database to the block before the first of    *)
(* them, writes blocks.rlp and manifest.json and validates what it wrote.  *)
(* Any file operation may fail, the process may be killed, and a later run *)
(* with other flags may use the same output directory.                     *)
(***************************************************************************)
EXTENDS Loader, Sums

CONSTANTS
    FromBlock,    \* heat-up blocks (10 in the source)
    Stride,       \* storage slots set aside for one block (1024)
    WriterPct,    \* percentage of a block's transactions that call the writer (67)
    GasLimit,     \* gas limit of every block
    WriterGas,    \* gas a writer call buys ...
    WriterUsed,   \* ... and takes
    TransferGas,  \* gas a transfer buys and takes
    BlockFlags, TxFlags, SchemeFlags,  \* values of --blocks, --tx-per-block, --scheme
    Sender, Writer, Recipient, Miner,  \* the four addresses in use
    IOErrors,     \* may file operations fail?
    MaxRuns       \* bound: processes on one output directory

ASSUME FixtureAssumption ==
    /\ FromBlock \in Nat \ {0} /\ Stride \in Nat \ {0} /\ MaxRuns \in Nat \ {0}
    /\ WriterPct \in 0 .. 100
    /\ GasLimit \in Nat /\ WriterGas \in Nat /\ TransferGas \in Nat
    /\ WriterUsed \in 0 .. WriterGas /\ TransferGas <= GasLimit
    /\ BlockFlags \subseteq Nat /\ TxFlags \subseteq Nat
    /\ {Sender, Miner} \subseteq Accounts /\ Sender # Miner
    /\ {Sender, Writer, Recipient} \subseteq OtherAddresses
    /\ OtherAddresses \cap SystemContracts = {}
    /\ IOErrors \in BOOLEAN

VARIABLES
    pc,
    run,      \* how many processes there have been
    arg,      \* the flags of this one
    exit,     \* how it ended
    fault,    \* did the disk fail it, or refuse a database used before?
    made,     \* blocks generated so far
    heat,     \* heat-up blocks executed on the final database
    parent,   \* the state they have led to, in memory
    db,       \* state roots that the database under out/state yields
    state,    \* does out/state exist?
    temp,     \* runs whose temporary directory exists
    file,     \* blocks.rlp
    sum,      \* the hash of blocks.rlp as read back
    manifest  \* manifest.json

mem == <<made, heat, parent, sum>>
disk == <<db, state, temp, file, manifest>>
vars == <<pc, run, arg, exit, fault, mem, disk>>

-----------------------------------------------------------------------------
(* The chain that blockGenFn and core.GenerateChain make.                  *)

WriterTxs(k) ==
    LET n == (k * WriterPct) \div 100 IN IF n = 0 /\ k > 0 THEN 1 ELSE n

\* A slip: the block's own slots are not set apart.
SlotUnspaced(b, j) == b + j

\* The storage slot that the j-th writer call of block b sets for the first time.
Slot(b, j) == b * Stride + j

Tx0 == [from |-> Sender, to |-> Sender, price |-> 1, nonce |-> 0, gas |-> TransferGas,
        used |-> TransferGas, ok |-> TRUE, ops |-> 0, signed |-> TRUE, funded |-> TRUE]

WriterCall == [Tx0 EXCEPT !.to = Writer, !.gas = WriterGas, !.used = WriterUsed, !.ops = 3]
Transfer == [Tx0 EXCEPT !.to = Recipient]

\* One self-transfer in a heat-up block; writer calls, then transfers, in
\* a block to be replayed.
Shape(b, k) ==
    IF b <= FromBlock THEN <<Tx0>>
    ELSE [j \in 1 .. k |-> IF j <= WriterTxs(k) THEN WriterCall ELSE Transfer]

\* b.TxNonce(sender): the sender's transactions before block b.
TxsBefore(b, k) == IF b <= FromBlock THEN b - 1 ELSE FromBlock + (b - FromBlock - 1) * k

BlockOf(b, k) ==
    [number |-> b, coinbase |-> Miner, limit |-> GasLimit,
     txs |-> [j \in DOMAIN Shape(b, k) |->
                [Shape(b, k)[j] EXCEPT !.nonce = TxsBefore(b, k) + j - 1]]]

\* BlockGen.AddTx panics when a transaction does not fit in the block's pool.
Overfull(b, k) ==
    LET txs == Shape(b, k)
        taken(j) == Total([i \in 1 .. j - 1 |-> txs[i].used])
    IN  \E j \in DOMAIN txs : taken(j) + txs[j].gas > GasLimit

\* A state root stands for the state it is the root of: the sender's nonce,
\* and the rewards the miner has been paid.
Root(b, k) == [nonce |-> TxsBefore(b + 1, k), rewards |-> b]

-----------------------------------------------------------------------------
(* Files.                                                                  *)

\* A slip: blocks[fromBlock-1:] is written.
FromHead(i) == FromBlock + i - 1

\* blocks[fromBlock : fromBlock+nReplay].
ReplayBlock(i) == FromBlock + i

\* What a blocks.rlp of n whole blocks, the last cut short or not, decodes to.
Items(f) ==
    [i \in 1 .. f.n |-> BlockOf(ReplayBlock(i), f.per)]
        \o (IF f.cut THEN <<Malformed>> ELSE << >>)

Content == IF file = Missing THEN Missing ELSE Items(file)

Directory == [manifest |-> manifest, blocks |-> Content, state |-> state]

Roots == {Root(b, k) : b \in 0 .. FromBlock, k \in TxFlags} \cup
         {Root(FromBlock + i, k) : i \in UNION {1 .. n : n \in BlockFlags}, k \in TxFlags}

BlocksFile == [per: TxFlags, n: Nat, cut: BOOLEAN]

Manifest == [schema: {"1"}, chainID: {97}, from: Nat, to: Nat, count: BlockFlags,
             root: Roots, named: {TRUE}, hash: BlocksFile]

\* What stands for a missing, broken or empty thing is never the thing.
ASSUME MarksAreNoData ==
    /\ Malformed \notin Block
    /\ Missing \notin BlocksFile \cup Seq(Block) \cup Manifest
    /\ Garbled \notin Manifest
    /\ Unset \notin Roots \cup BlocksFile

Steps == {"flags", "mkdirs", "temp", "open", "generate", "closetemp", "heatup", "journal",
          "close", "create", "encode", "readback", "manifest", "validate"}
Exits == {"none", "zero", "one", "panic", "killed"}

TypeOK ==
    /\ pc \in Steps \cup {"ended"}
    /\ run \in 1 .. MaxRuns
    /\ arg \in [blocks: BlockFlags, per: TxFlags, scheme: SchemeFlags]
    /\ exit \in Exits /\ (pc = "ended") = (exit # "none")
    /\ fault \in BOOLEAN
    /\ made \in 0 .. FromBlock + arg.blocks
    /\ heat \in 0 .. FromBlock
    /\ parent \in [nonce: 0 .. FromBlock, rewards: 0 .. FromBlock]
    /\ db \subseteq Roots
    /\ state \in BOOLEAN
    /\ temp \subseteq 1 .. MaxRuns
    /\ file = Missing \/ file \in BlocksFile
    /\ sum = Missing \/ sum \in BlocksFile
    /\ manifest \in {Missing, Garbled} \/ manifest \in Manifest

Args == [blocks: BlockFlags, per: TxFlags, scheme: SchemeFlags]

Init ==
    /\ run = 1
    /\ pc = "flags" /\ arg \in Args /\ exit = "none" /\ fault = FALSE
    /\ made = 0 /\ heat = 0 /\ parent = Root(0, 0) /\ sum = Missing
    /\ db = {} /\ state = FALSE /\ temp = {} /\ file = Missing /\ manifest = Missing

-----------------------------------------------------------------------------
(* Ways to go on and to stop.                                              *)

At(step) == pc = step
Goto(step) == pc' = step /\ UNCHANGED <<exit, fault>>
Exit(code, why) == pc' = "ended" /\ exit' = code /\ fault' = (fault \/ why)

\* die is os.Exit(1): what was deferred does not run.
Die == Exit("one", FALSE)
DiskFails == IOErrors /\ Exit("one", TRUE)

\* main returns or panics: the deferred RemoveAll runs, its error ignored.
RemoveTemp ==
    \/ temp' = temp \ {run} /\ UNCHANGED fault
    \/ IOErrors /\ temp' = temp /\ fault' = (fault \/ run \in temp)

Return(code) == pc' = "ended" /\ exit' = code /\ RemoveTemp

-----------------------------------------------------------------------------

FlagsValid == arg.blocks > 0 /\ arg.per > 0 /\ arg.scheme \in {"hash", "path"}

ParseFlags ==
    /\ At("flags")
    /\ IF FlagsValid THEN Goto("mkdirs") ELSE Die
    /\ UNCHANGED <<run, arg, mem, disk>>

MakeDirs ==
    /\ At("mkdirs")
    /\ \/ Goto(IF arg.scheme = "hash" THEN "open" ELSE "temp") /\ state' = TRUE
       \/ DiskFails /\ state' \in {state, TRUE}
    /\ UNCHANGED <<run, arg, mem, db, temp, file, manifest>>

\* Path scheme: a temporary database for GenerateChain, which forces the
\* hash scheme, and its genesis.
OpenTemp ==
    /\ At("temp")
    /\ \/ Goto("generate") /\ temp' = temp \cup {run}
       \/ DiskFails /\ temp' \in {temp, temp \cup {run}}
    /\ UNCHANGED <<run, arg, mem, db, state, file, manifest>>

\* The final database and its genesis.  One that an earlier run has used may
\* be refused (external).
OpenFinal ==
    /\ At("open")
    /\ LET genesis == db \cup {Root(0, 0)} IN
       \/ Goto(IF arg.scheme = "hash" THEN "generate" ELSE "heatup") /\ db' = genesis
       \/ DiskFails /\ db' \in {db, genesis}
       \/ db # {} /\ Exit("one", TRUE) /\ UNCHANGED db
    /\ UNCHANGED <<run, arg, mem, state, temp, file, manifest>>

total == FromBlock + arg.blocks

\* One block of GenerateChain.  The hash scheme writes each state through.
Generate ==
    /\ At("generate")
    /\ made < total
    /\ ~Overfull(made + 1, arg.per)
    /\ made' = made + 1
    /\ db' = IF arg.scheme = "hash" THEN db \cup {Root(made + 1, arg.per)} ELSE db
    /\ UNCHANGED <<pc, run, arg, exit, fault, heat, parent, sum, state, temp, file, manifest>>

GeneratePanics ==
    /\ At("generate")
    /\ made < total
    /\ Overfull(made + 1, arg.per)
    /\ Return("panic")
    /\ UNCHANGED <<run, arg, mem, db, state, file, manifest>>

Generated ==
    /\ At("generate")
    /\ made = total
    /\ Goto(IF arg.scheme = "hash" THEN "close" ELSE "closetemp")
    /\ UNCHANGED <<run, arg, mem, disk>>

CloseTemp ==
    /\ At("closetemp")
    /\ Goto("open") \/ DiskFails
    /\ UNCHANGED <<run, arg, mem, disk>>

-----------------------------------------------------------------------------
(* replayHeatUp: each heat-up block again, on the path-scheme database.    *)

\* A slip: the block reward that the consensus engine pays is left out.
Unrewarded(p) == [p EXCEPT !.nonce = @ + 1]

Executed(p) == [nonce |-> p.nonce + 1, rewards |-> p.rewards + 1]

HeatUp ==
    /\ At("heatup")
    /\ heat < FromBlock
    /\ LET root == Executed(parent) IN
       \/ /\ root = Root(heat + 1, arg.per)
          /\ Goto("heatup")
          /\ heat' = heat + 1 /\ parent' = root
       \/ root # Root(heat + 1, arg.per) /\ Die /\ UNCHANGED <<heat, parent>>
       \/ DiskFails /\ UNCHANGED <<heat, parent>>
    /\ UNCHANGED <<run, arg, made, sum, disk>>

\* A slip: Close is trusted to write what is in memory.
NotJournaled == db

\* Journal writes the layers in memory, of which tdb.Commit has left one,
\* the head; without it Close drops them and only the genesis is on disk.
Journaled == {parent}

Journal ==
    /\ At("heatup")
    /\ heat = FromBlock
    /\ \/ Goto("close") /\ db' = Journaled
       \/ DiskFails /\ db' \in {db, Journaled}
    /\ UNCHANGED <<run, arg, mem, state, temp, file, manifest>>

CloseFinal ==
    /\ At("close")
    /\ Goto("create") \/ DiskFails
    /\ UNCHANGED <<run, arg, mem, disk>>

-----------------------------------------------------------------------------
(* The two files, and the check of what has been written.                  *)

\* os.Create truncates what an earlier run has written.
CreateBlocks ==
    /\ At("create")
    /\ \/ Goto("encode") /\ file' = [per |-> arg.per, n |-> 0, cut |-> FALSE]
       \/ DiskFails /\ UNCHANGED file
    /\ UNCHANGED <<run, arg, mem, db, state, temp, manifest>>

\* A slip: an encoding error ends the loop only.
StopEncoding == IOErrors /\ pc' = "readback" /\ fault' = TRUE /\ UNCHANGED exit

OnEncodeError == DiskFails

Encode ==
    /\ At("encode")
    /\ file.n < arg.blocks
    /\ \/ Goto("encode") /\ file' = [file EXCEPT !.n = @ + 1]
       \/ OnEncodeError /\ \E c \in BOOLEAN : file' = [file EXCEPT !.cut = c]
    /\ UNCHANGED <<run, arg, mem, db, state, temp, manifest>>

CloseBlocks ==
    /\ At("encode")
    /\ file.n = arg.blocks
    /\ Goto("readback") \/ DiskFails
    /\ UNCHANGED <<run, arg, mem, disk>>

\* A slip: the last block is in a write buffer when the file is read back.
BeforeFlush == [file EXCEPT !.n = @ - 1]

\* The hash is taken of the file as it is on disk, not of the blocks in memory.
OnDisk == file

ReadBack ==
    /\ At("readback")
    /\ \/ Goto("manifest") /\ sum' = OnDisk
       \/ DiskFails /\ UNCHANGED sum
    /\ UNCHANGED <<run, arg, made, heat, parent, disk>>

\* A slip: BlockCount is the length of the whole chain.
CountAll == total

BlockCount == arg.blocks

NewManifest ==
    [schema |-> "1", chainID |-> 97, from |-> FromBlock, to |-> FromBlock + arg.blocks,
     count |-> BlockCount, root |-> Root(FromBlock, arg.per), named |-> TRUE, hash |-> sum]

\* os.WriteFile truncates, then writes.
WriteManifest ==
    /\ At("manifest")
    /\ \/ Goto("validate") /\ manifest' = NewManifest
       \/ DiskFails /\ manifest' \in {manifest, Garbled}
    /\ UNCHANGED <<run, arg, mem, db, state, temp, file>>

\* validate: Open, the state root, and every block to the end of the stream.
Valid ==
    /\ Opens(Directory)
    /\ manifest.root \in db
    /\ DecodesCleanly(Content)
    /\ Count(Content) = manifest.count

Validation ==
    /\ At("validate")
    /\ \/ Valid /\ Return("zero")
       \/ ~Valid /\ Die /\ UNCHANGED temp
       \/ DiskFails /\ UNCHANGED temp
    /\ UNCHANGED <<run, arg, mem, db, state, file, manifest>>

-----------------------------------------------------------------------------
(* The kernel and the next run.                                            *)

\* A signal or a crash: a block, or the manifest, may be half written.
Kill ==
    /\ pc # "ended"
    /\ pc' = "ended" /\ exit' = "killed"
    /\ \/ UNCHANGED <<file, manifest>>
       \/ At("encode") /\ file.n < arg.blocks
             /\ file' = [file EXCEPT !.cut = TRUE] /\ UNCHANGED manifest
       \/ At("manifest") /\ manifest' = Garbled /\ UNCHANGED file
    /\ UNCHANGED <<run, arg, fault, mem, db, state, temp>>

RunAgain ==
    /\ pc = "ended" /\ run < MaxRuns
    /\ run' = run + 1
    /\ pc' = "flags" /\ arg' \in Args /\ exit' = "none" /\ fault' = FALSE
    /\ made' = 0 /\ heat' = 0 /\ parent' = Root(0, 0) /\ sum' = Missing
    /\ UNCHANGED disk

Over == pc = "ended" /\ run = MaxRuns /\ UNCHANGED vars

Step ==
    \/ ParseFlags \/ MakeDirs \/ OpenTemp \/ OpenFinal
    \/ Generate \/ GeneratePanics \/ Generated \/ CloseTemp
    \/ HeatUp \/ Journal \/ CloseFinal
    \/ CreateBlocks \/ Encode \/ CloseBlocks \/ ReadBack \/ WriteManifest \/ Validation

Next == Step \/ Kill \/ RunAgain \/ Over

Spec == Init /\ [][Next]_vars

-----------------------------------------------------------------------------
(* Properties.                                                             *)

\* Exit code 0 promises a corpus that Open accepts: the state of the block
\* before the first, as many blocks as asked for, made with these flags, and
\* the hash of exactly this file; and nothing is left in the temporary
\* directory unless its removal failed (main.go:378-394, README.md:34).
ExitZeroIsWhole ==
    exit = "zero" =>
        /\ Opens(Directory)
        /\ manifest.root = Root(FromBlock, arg.per) /\ manifest.root \in db
        /\ file = [per |-> arg.per, n |-> arg.blocks, cut |-> FALSE]
        /\ manifest.count = file.n /\ manifest.hash = file
        /\ run \in temp => fault

\* The generator's own checks (heat-up root, state root and count on
\* validation) never find it wrong, so the reward, the journal and the order
\* of the closes are right (main.go:292-325, 397-436).
ErrorHasAReason == exit = "one" => fault \/ ~FlagsValid

\* The generator fails only for a reason outside it: flags, the disk, a used
\* database; and it panics only on blocks too large for the gas limit, the
\* heat-up blocks never being to blame.
FailsForAReason ==
    /\ ErrorHasAReason
    /\ exit = "panic" => Overfull(FromBlock + 1, arg.per)

\* Whatever a failed or killed regeneration leaves behind: if the manifest's
\* input_hash is that of the block file, the file is whole and has the
\* promised number of blocks (design.md:119).
HashTells ==
    Opens(Directory) /\ manifest.hash = file =>
        /\ DecodesCleanly(Content)
        /\ Count(Content) = manifest.count

\* As long as a block's writer calls fit in its slots, each call of the whole
\* file sets a slot of its own, and never the shared counter in slot 0: the
\* "SSTORE unique cold slot" of main.go:19, for up to 1529 transactions a block.
ColdSlotsUnique ==
    file # Missing /\ WriterTxs(file.per) <= Stride =>
        LET calls == {ReplayBlock(i) : i \in 1 .. file.n} \X (0 .. WriterTxs(file.per) - 1)
        IN  \A c, d \in calls :
                /\ Slot(c[1], c[2]) # 0
                /\ Slot(c[1], c[2]) = Slot(d[1], d[2]) => c = d

\* docs/design.md:127, "count equals `block_count`": a corpus that loads and
\* decodes to its end has the number of blocks its manifest states.  Open does
\* not count, and neither does a pass.
LoadedCountFits ==
    Opens(Directory) /\ DecodesCleanly(Content) => Count(Content) = manifest.count

=============================================================================
