--------------------------- MODULE FixtureProofs ---------------------------
(***************************************************************************)
(* What TLAPS proves of Fixture, for any flags and any number of runs on   *)
(* one directory: what exit code 0 and the input hash promise of the       *)
(* files, that a failure has a reason outside the generator, that the      *)
(* slots of the writer calls are distinct, and that every block in the     *)
(* file, whoever left it there, can be replayed from the manifest's state. *)
(***************************************************************************)
EXTENDS FixtureStream, SumLemmas, FiniteSetTheorems, TLAPS

\* What a run has written once all its blocks are encoded.
Whole == [per |-> arg.per, n |-> arg.blocks, cut |-> FALSE]

\* A manifest is written only of a whole file.
OfWholeFile ==
    manifest \notin {Missing, Garbled} =>
        /\ manifest.hash \in BlocksFile
        /\ manifest.hash.n = manifest.count
        /\ manifest.hash.cut = FALSE

\* How far the files have come at each step.
Written ==
    /\ arg \in Args
    /\ pc = "ended" <=> exit # "none"
    /\ file = Missing \/ file \in BlocksFile
    /\ pc = "encode" =>
        /\ file \in BlocksFile /\ file.n \in 0 .. arg.blocks
        /\ file.per = arg.per /\ file.cut = FALSE
    /\ pc \in {"readback", "manifest", "validate"} => file = Whole
    /\ pc \in {"manifest", "validate"} => sum = Whole
    /\ pc = "validate" => manifest = NewManifest
    /\ OfWholeFile
    /\ ExitZeroIsWhole

LEMMA ArgTypes ==
    ASSUME Written
    PROVE  arg.blocks \in Nat /\ arg.per \in TxFlags /\ Whole \in BlocksFile
BY FixtureAssumption DEF Written, Args, Whole, BlocksFile

LEMMA WrittenInit == Init => Written
BY DEF Init, Written, OfWholeFile, ExitZeroIsWhole

\* A step before the files, or one that ends the run with an error.
LEMMA FilesAlone ==
    ASSUME Written, UNCHANGED <<arg, file, manifest, sum>>,
           \/ pc' \in {"mkdirs", "temp", "open", "generate", "closetemp", "heatup", "journal",
                       "close", "create"} /\ exit' = exit /\ pc # "ended"
           \/ pc' = "ended" /\ exit' \in {"one", "panic", "killed"}
    PROVE  Written'
<1>1. OfWholeFile'
  BY DEF Written, OfWholeFile
<1>2. ExitZeroIsWhole'
  BY DEF Written, ExitZeroIsWhole
<1> QED BY <1>1, <1>2 DEF Written

LEMMA EarlyStep ==
    ASSUME Written,
           \/ ParseFlags \/ MakeDirs \/ OpenTemp \/ OpenFinal
           \/ Generate \/ GeneratePanics \/ Generated \/ CloseTemp
           \/ HeatUp \/ Journal \/ CloseFinal
    PROVE  Written'
<1> USE FilesAlone DEF At, Goto, Exit, Die, DiskFails, Return, mem, disk
<1>1. CASE ParseFlags \/ MakeDirs \/ OpenTemp
  BY <1>1 DEF ParseFlags, MakeDirs, OpenTemp
<1>2. CASE OpenFinal
  BY <1>2 DEF OpenFinal
<1>3. CASE Generate \/ GeneratePanics
  BY <1>3 DEF Generate, GeneratePanics
<1>4. CASE Generated \/ CloseTemp
  BY <1>4 DEF Generated, CloseTemp
<1>5. CASE HeatUp
  BY <1>5 DEF HeatUp
<1>6. CASE Journal \/ CloseFinal
  BY <1>6 DEF Journal, CloseFinal
<1> QED BY <1>1, <1>2, <1>3, <1>4, <1>5, <1>6

\* A step from one of the last stages to the next keeps the older facts.
LEMMA FilesStep ==
    ASSUME Written, CreateBlocks \/ Encode \/ CloseBlocks \/ ReadBack \/ WriteManifest
    PROVE  Written'
<1> USE DEF At, Goto, Exit, DiskFails, mem, disk
<1>1. CASE CreateBlocks
  <2>1. arg' = arg /\ manifest' = manifest /\ exit' # "zero"
    BY <1>1 DEF CreateBlocks, Written
  <2>2. OfWholeFile' /\ ExitZeroIsWhole'
    BY <2>1 DEF Written, OfWholeFile, ExitZeroIsWhole
  <2>3. CASE Goto("encode") /\ file' = [per |-> arg.per, n |-> 0, cut |-> FALSE]
    <3>1. file' \in BlocksFile /\ file'.n \in 0 .. arg.blocks
          /\ file'.per = arg.per /\ file'.cut = FALSE
      BY <2>3, ArgTypes DEF BlocksFile
    <3> QED BY <1>1, <2>1, <2>2, <2>3, <3>1 DEF CreateBlocks, Written
  <2>4. CASE DiskFails /\ UNCHANGED file
    BY <1>1, <2>1, <2>2, <2>4 DEF CreateBlocks, Written
  <2> QED BY <1>1, <2>3, <2>4 DEF CreateBlocks
<1>2. CASE Encode
  <2>1. arg' = arg /\ manifest' = manifest /\ exit' # "zero"
    BY <1>2 DEF Encode, OnEncodeError, Written
  <2>2. OfWholeFile' /\ ExitZeroIsWhole'
    BY <2>1 DEF Written, OfWholeFile, ExitZeroIsWhole
  <2>3. file \in BlocksFile /\ file.n \in 0 .. arg.blocks
        /\ file.per = arg.per /\ file.cut = FALSE
    BY <1>2 DEF Encode, Written
  <2>4. CASE Goto("encode") /\ file' = [file EXCEPT !.n = @ + 1]
    <3>1. file' \in BlocksFile /\ file'.n \in 0 .. arg.blocks
          /\ file'.per = arg.per /\ file'.cut = FALSE
      BY <1>2, <2>3, <2>4, ArgTypes DEF Encode, BlocksFile
    <3> QED BY <1>2, <2>1, <2>2, <2>4, <3>1 DEF Encode, Written
  <2>5. CASE OnEncodeError /\ \E c \in BOOLEAN : file' = [file EXCEPT !.cut = c]
    <3>1. file' \in BlocksFile
      BY <2>3, <2>5 DEF BlocksFile
    <3> QED BY <1>2, <2>1, <2>2, <2>5, <3>1 DEF Encode, OnEncodeError, Written
  <2> QED BY <1>2, <2>4, <2>5 DEF Encode
<1>3. CASE CloseBlocks
  <2>1. file = Whole
    BY <1>3, ArgTypes DEF CloseBlocks, Written, Whole, BlocksFile
  <2>2. OfWholeFile' /\ ExitZeroIsWhole'
    BY <1>3 DEF CloseBlocks, Written, OfWholeFile, ExitZeroIsWhole
  <2> QED BY <1>3, <2>1, <2>2 DEF CloseBlocks, Written, Whole
<1>4. CASE ReadBack
  <2>1. OfWholeFile' /\ ExitZeroIsWhole'
    BY <1>4 DEF ReadBack, Written, OfWholeFile, ExitZeroIsWhole
  <2> QED BY <1>4, <2>1 DEF ReadBack, OnDisk, Written, Whole
<1>5. CASE WriteManifest
  <2>1. sum = Whole /\ arg' = arg /\ sum' = sum /\ file' = file
    BY <1>5 DEF WriteManifest, Written
  <2>2. OfWholeFile'
    <3>1. NewManifest.hash = Whole /\ NewManifest.count = Whole.n
      BY <2>1 DEF NewManifest, BlockCount, Whole
    <3>2. NewManifest.hash \in BlocksFile /\ NewManifest.hash.cut = FALSE
      BY <3>1, ArgTypes DEF Whole
    <3>3. manifest' \in {NewManifest, manifest, Garbled}
      BY <1>5 DEF WriteManifest
    <3> HIDE DEF NewManifest
    <3> QED BY <3>1, <3>2, <3>3 DEF Written, OfWholeFile
  <2>3. ExitZeroIsWhole'
    BY <1>5 DEF WriteManifest, Written, ExitZeroIsWhole
  <2>4. NewManifest' = NewManifest
    BY <2>1 DEF NewManifest, BlockCount, Root, TxsBefore
  <2> QED BY <1>5, <2>1, <2>2, <2>3, <2>4 DEF WriteManifest, Written, Whole
<1> QED BY <1>1, <1>2, <1>3, <1>4, <1>5

LEMMA ValidationStep ==
    ASSUME Written, Validation
    PROVE  Written'
<1> USE DEF At, Exit, Die, DiskFails, mem, disk
<1>1. UNCHANGED <<run, arg, sum, db, state, file, manifest>> /\ pc = "validate" /\ pc' = "ended"
  BY DEF Validation, Return
<1>2. CASE exit' = "one"
  BY <1>1, <1>2, FilesAlone
<1>3. CASE Valid /\ Return("zero")
  <2>1. Opens(Directory)' /\ manifest.root \in db
    BY <1>1, <1>3 DEF Valid, Directory, Content, Items
  <2>2. run' \in temp' => fault'
    BY <1>1, <1>3 DEF Return, RemoveTemp
  <2>3. manifest = NewManifest /\ file = Whole /\ sum = Whole
    BY <1>1 DEF Written
  <2>4. /\ manifest.root = Root(FromBlock, arg.per)
        /\ manifest.count = arg.blocks /\ manifest.hash = Whole
        /\ Whole.n = arg.blocks
    BY <2>3 DEF NewManifest, BlockCount, Whole
  <2>5. ExitZeroIsWhole'
    BY <1>1, <2>1, <2>2, <2>3, <2>4 DEF ExitZeroIsWhole, Whole
  <2>6. OfWholeFile'
    BY <1>1 DEF Written, OfWholeFile
  <2> QED BY <1>1, <1>3, <2>5, <2>6 DEF Written, Return
<1> QED BY <1>2, <1>3 DEF Validation

LEMMA WrittenStep == Written /\ [Next]_vars => Written'
<1> SUFFICES ASSUME Written, [Next]_vars PROVE Written'
  OBVIOUS
<1>1. CASE ParseFlags \/ MakeDirs \/ OpenTemp \/ OpenFinal \/ Generate \/ GeneratePanics
             \/ Generated \/ CloseTemp \/ HeatUp \/ Journal \/ CloseFinal
  BY <1>1, EarlyStep
<1>2. CASE CreateBlocks \/ Encode \/ CloseBlocks \/ ReadBack \/ WriteManifest
  BY <1>2, FilesStep
<1>3. CASE Validation
  BY <1>3, ValidationStep
<1>4. CASE Kill
  <2>1. UNCHANGED <<arg, sum>> /\ pc' = "ended" /\ exit' = "killed"
    BY <1>4 DEF Kill, mem
  <2>2. file' = Missing \/ file' \in BlocksFile
    <3>1. CASE At("encode") /\ file' = [file EXCEPT !.cut = TRUE]
      BY <3>1 DEF At, Written, BlocksFile
    <3> QED BY <1>4, <3>1 DEF Kill, Written
  <2>3. manifest' = manifest \/ manifest' = Garbled
    BY <1>4 DEF Kill
  <2>4. OfWholeFile' /\ ExitZeroIsWhole'
    BY <2>1, <2>3 DEF Written, OfWholeFile, ExitZeroIsWhole
  <2> QED BY <2>1, <2>2, <2>4 DEF Written
<1>5. CASE RunAgain
  <2>1. /\ UNCHANGED <<file, manifest>> /\ arg' \in Args
        /\ pc' = "flags" /\ exit' = "none"
    BY <1>5 DEF RunAgain, disk
  <2>2. OfWholeFile' /\ ExitZeroIsWhole'
    BY <2>1 DEF Written, OfWholeFile, ExitZeroIsWhole
  <2> QED BY <2>1, <2>2 DEF Written
<1>6. CASE UNCHANGED vars
  <2>1. OfWholeFile' /\ ExitZeroIsWhole' /\ NewManifest' = NewManifest /\ Whole' = Whole
    BY <1>6 DEF vars, mem, disk, Written, OfWholeFile, ExitZeroIsWhole, Opens, Directory, Content,
         Items, NewManifest, BlockCount, Whole
  <2> QED BY <1>6, <2>1 DEF vars, mem, disk, Written
<1> QED BY <1>1, <1>2, <1>3, <1>4, <1>5, <1>6 DEF Next, Step, Over

LEMMA WrittenInvariant == Spec => []Written
BY WrittenInit, WrittenStep, PTL DEF Spec

\* For any flags, and whatever runs have been there before: exit code 0 means
\* a corpus that Open accepts, of this run's blocks, all of them, under their
\* own hash (main.go:336-390).
THEOREM ExitZeroIsWholeCorrect == Spec => []ExitZeroIsWhole
<1>1. Written => ExitZeroIsWhole
  BY DEF Written
<1> QED BY <1>1, WrittenInvariant, PTL

-----------------------------------------------------------------------------
(* The input hash.                                                         *)

LEMMA BlockType ==
    ASSUME NEW k \in TxFlags, NEW i \in Nat, 1 <= i
    PROVE  BlockOf(ReplayBlock(i), k) \in Block
<1> DEFINE b == ReplayBlock(i)
<1>1. b \in Nat /\ b > FromBlock /\ FromBlock \in Nat /\ k \in Nat
  BY FixtureAssumption DEF ReplayBlock
<1>2. TxsBefore(b, k) \in Nat
  <2>1. b - FromBlock - 1 \in Nat
    BY <1>1
  <2>2. (b - FromBlock - 1) * k \in Nat
    BY <1>1, <2>1
  <2> QED BY <1>1, <2>2 DEF TxsBefore
<1>3. /\ Tx0 \in Tx /\ WriterCall \in Tx /\ Transfer \in Tx
  <2>1. /\ TransferGas \in Nat /\ WriterGas \in Nat /\ WriterUsed \in Nat /\ WriterUsed <= WriterGas
        /\ Sender \in Accounts
        /\ {Sender, Writer, Recipient} \subseteq SystemContracts \cup OtherAddresses \cup {Create}
    BY FixtureAssumption
  <2>2. Tx0 \in TxFields /\ Tx0.used <= Tx0.gas
    BY <2>1 DEF Tx0, TxFields
  <2>3. Transfer \in TxFields /\ Transfer.used <= Transfer.gas
    BY <2>1, <2>2 DEF Tx0, Transfer, TxFields
  <2>4. [Tx0 EXCEPT !.to = Writer, !.gas = WriterGas] \in TxFields
    BY <2>1, <2>2 DEF TxFields
  <2>5. WriterCall \in TxFields /\ WriterCall.used <= WriterCall.gas
    BY <2>1, <2>4 DEF Tx0, WriterCall, TxFields
  <2> QED BY <2>2, <2>3, <2>5 DEF Tx
<1>4. Shape(b, k) = [j \in 1 .. k |-> IF j <= WriterTxs(k) THEN WriterCall ELSE Transfer]
  BY <1>1 DEF Shape
<1>5. DOMAIN Shape(b, k) = 1 .. k /\ \A j \in 1 .. k : Shape(b, k)[j] \in Tx
  BY <1>3, <1>4
<1>6. \A j \in 1 .. k : [Shape(b, k)[j] EXCEPT !.nonce = TxsBefore(b, k) + j - 1] \in Tx
  <2> TAKE j \in 1 .. k
  <2>1. Shape(b, k)[j] \in Tx /\ TxsBefore(b, k) + j - 1 \in Nat
    BY <1>1, <1>2, <1>5
  <2> QED BY <2>1 DEF Tx, TxFields
<1>7. BlockOf(b, k).txs \in Seq(Tx)
  <2>1. BlockOf(b, k).txs =
          [j \in 1 .. k |-> [Shape(b, k)[j] EXCEPT !.nonce = TxsBefore(b, k) + j - 1]]
    BY <1>5 DEF BlockOf
  <2>2. BlockOf(b, k).txs \in [1 .. k -> Tx]
    BY <1>6, <2>1
  <2>3. k \in Nat
    BY <1>1
  <2> HIDE DEF b
  <2> QED BY <2>2, <2>3
<1> QED BY <1>1, <1>7, FixtureAssumption DEF BlockOf, Block

\* A file that is not cut decodes to its end.
LEMMA WholeDecodes ==
    ASSUME NEW f \in BlocksFile, f.cut = FALSE
    PROVE  /\ Items(f) \in Seq(Block) /\ Len(Items(f)) = f.n
           /\ DecodesCleanly(Items(f)) /\ Count(Items(f)) = f.n
<1> DEFINE blocks == [i \in 1 .. f.n |-> BlockOf(ReplayBlock(i), f.per)]
<1>1. f.n \in Nat /\ f.per \in TxFlags
  BY DEF BlocksFile
<1>2. \A i \in 1 .. f.n : BlockOf(ReplayBlock(i), f.per) \in Block
  BY <1>1, BlockType
<1>3. blocks \in Seq(Block) /\ Len(blocks) = f.n
  BY <1>1, <1>2
<1>4. Items(f) = blocks \o << >>
  BY DEF Items
<1> HIDE DEF blocks
<1>5. Items(f) = blocks
  BY <1>3, <1>4
<1>6. \A i \in DOMAIN blocks : blocks[i] # Malformed
  BY <1>3, MarksAreNoData
<1>7. Decoded(Items(f)) = Items(f)
  BY <1>5, <1>6 DEF Decoded
<1> QED BY <1>3, <1>5, <1>7 DEF DecodesCleanly, Count

\* Whatever failed and killed runs leave behind, a block file that has the
\* manifest's hash decodes to its end and has the manifest's count.
THEOREM HashTellsCorrect == Spec => []HashTells
<1>1. Written => HashTells
  <2> SUFFICES ASSUME Written, Opens(Directory), manifest.hash = file
               PROVE  DecodesCleanly(Content) /\ Count(Content) = manifest.count
    BY DEF HashTells
  <2>1. manifest \notin {Missing, Garbled}
    BY DEF Opens, LoadManifest, Directory
  <2>2. file \in BlocksFile /\ file.n = manifest.count /\ file.cut = FALSE
    BY <2>1 DEF Written, OfWholeFile
  <2>3. Content = Items(file)
    BY <2>2, MarksAreNoData DEF Content
  <2> QED BY <2>2, <2>3, WholeDecodes
<1> QED BY <1>1, WrittenInvariant, PTL

-----------------------------------------------------------------------------
(* The generator's own checks.                                             *)

\* The state of the last heat-up block, which the manifest will name.
HeadRoot == Root(FromBlock, arg.per)

\* What a run has made by each step, whatever database it began with.
Sound ==
    /\ Written
    /\ pc \notin {"flags", "ended"} => FlagsValid
    /\ pc \notin {"flags", "mkdirs", "ended"} => state = TRUE
    /\ pc \in {"flags", "mkdirs", "temp"} => made = 0
    /\ pc = "open" /\ arg.scheme = "hash" => made = 0
    /\ pc \in {"temp", "closetemp"} => arg.scheme # "hash"
    /\ pc = "generate" => made \in 0 .. total
    /\ pc = "generate" /\ arg.scheme = "hash" /\ made >= FromBlock => HeadRoot \in db
    /\ pc \in {"flags", "mkdirs", "temp", "open", "generate", "closetemp"} =>
        heat = 0 /\ parent = Root(0, arg.per)
    /\ pc = "heatup" => heat \in 0 .. FromBlock /\ parent = Root(heat, arg.per)
    /\ pc \in {"close", "create", "encode", "readback", "manifest", "validate"} => HeadRoot \in db
    /\ ErrorHasAReason

\* The genesis is the same whatever the flags.
LEMMA GenesisRoot == \A k : Root(0, k) = Root(0, 0)
BY FixtureAssumption DEF Root, TxsBefore

\* Executing a heat-up block gives the root that the generator computed.
LEMMA HeatUpRoot ==
    ASSUME NEW h \in Nat, h < FromBlock, NEW k \in Nat
    PROVE  Executed(Root(h, k)) = Root(h + 1, k)
<1>1. FromBlock \in Nat /\ FromBlock >= 1
  BY FixtureAssumption
<1>2. TxsBefore(h + 1, k) = h
  BY <1>1 DEF TxsBefore
<1>3. TxsBefore(h + 2, k) = h + 1
  <2>1. CASE h + 2 <= FromBlock
    BY <1>1, <2>1 DEF TxsBefore
  <2>2. CASE h + 2 = FromBlock + 1
    <3>1. h + 2 - FromBlock - 1 = 0 /\ ~(h + 2 <= FromBlock)
      BY <1>1, <2>2
    <3> QED BY <1>1, <2>2, <3>1 DEF TxsBefore
  <2> QED BY <1>1, <2>1, <2>2
<1> QED BY <1>2, <1>3 DEF Executed, Root

LEMMA SoundInit == Init => Sound
BY WrittenInit, GenesisRoot DEF Init, Sound, ErrorHasAReason

\* A run that ends, in whatever way but an error without a reason.
LEMMA EndIsSound ==
    ASSUME Written', pc' = "ended", exit' = "one" => fault' \/ ~FlagsValid'
    PROVE  Sound'
BY DEF Sound, ErrorHasAReason

LEMMA SoundEarly ==
    ASSUME Sound, Written',
           \/ ParseFlags \/ MakeDirs \/ OpenTemp \/ OpenFinal
           \/ Generate \/ GeneratePanics \/ Generated \/ CloseTemp
    PROVE  Sound'
<1> USE DEF At, Goto, Exit, Die, DiskFails, Return, mem, disk
<1>0. FromBlock \in Nat /\ FromBlock >= 1 /\ total \in Nat /\ total >= FromBlock
  BY ArgTypes, FixtureAssumption DEF Sound, total
<1>1. CASE ParseFlags
  BY <1>1, EndIsSound DEF ParseFlags, Sound, FlagsValid, ErrorHasAReason
<1>2. CASE MakeDirs
  BY <1>2, EndIsSound DEF MakeDirs, Sound, FlagsValid, ErrorHasAReason
<1>3. CASE OpenTemp
  <2>1. CASE Goto("generate")
    <3>1. UNCHANGED <<arg, made, heat, parent, state>> /\ pc = "temp" /\ total' = total
      BY <1>3 DEF OpenTemp, total
    <3>2. made' \in 0 .. total' /\ arg'.scheme # "hash"
      BY <1>0, <3>1 DEF Sound
    <3> QED BY <2>1, <3>1, <3>2 DEF Sound, FlagsValid, ErrorHasAReason
  <2>2. CASE DiskFails
    BY <2>2, EndIsSound
  <2> QED BY <1>3, <2>1, <2>2 DEF OpenTemp
<1>4. CASE OpenFinal
  <2>1. CASE Goto(IF arg.scheme = "hash" THEN "generate" ELSE "heatup")
    <3>1. UNCHANGED <<arg, made, heat, parent, state>> /\ total' = total /\ pc = "open"
      BY <1>4 DEF OpenFinal, total
    <3>2. CASE arg.scheme = "hash"
      <4>1. made' \in 0 .. total' /\ ~(made' >= FromBlock) /\ pc' = "generate"
        BY <1>0, <2>1, <3>1, <3>2 DEF Sound
      <4> QED BY <1>4, <2>1, <3>1, <4>1 DEF OpenFinal, Sound, FlagsValid, ErrorHasAReason
    <3>3. CASE arg.scheme # "hash"
      <4>1. heat' \in 0 .. FromBlock /\ parent' = Root(heat', arg'.per) /\ pc' = "heatup"
        BY <1>0, <2>1, <3>1, <3>3 DEF Sound
      <4> QED BY <1>4, <2>1, <3>1, <4>1 DEF OpenFinal, Sound, FlagsValid, ErrorHasAReason
    <3> QED BY <3>2, <3>3
  <2>2. CASE pc' = "ended" /\ fault' /\ exit' = "one"
    BY <2>2, EndIsSound
  <2> QED BY <1>4, <2>1, <2>2 DEF OpenFinal
<1>5. CASE Generate
  <2>0. /\ made \in Nat /\ made < total /\ made' = made + 1 /\ pc = "generate" /\ total' = total
        /\ HeadRoot' = HeadRoot
        /\ db' = IF arg.scheme = "hash" THEN db \cup {Root(made + 1, arg.per)} ELSE db
        /\ arg.scheme = "hash" /\ made >= FromBlock => HeadRoot \in db
    <3>1. pc = "generate" /\ UNCHANGED arg
      BY <1>5 DEF Generate
    <3>2. made \in 0 .. total /\ (arg.scheme = "hash" /\ made >= FromBlock => HeadRoot \in db)
      BY <3>1 DEF Sound
    <3> QED BY <1>0, <1>5, <3>1, <3>2 DEF Generate, total, HeadRoot
  <2>1. made' \in 0 .. total'
    BY <1>0, <2>0
  <2>2. arg.scheme = "hash" /\ made' >= FromBlock => HeadRoot' \in db'
    <3>1. CASE made + 1 = FromBlock
      BY <2>0, <3>1 DEF HeadRoot
    <3>2. CASE made >= FromBlock
      BY <2>0, <3>2
    <3> QED BY <1>0, <2>0, <3>1, <3>2
  <2> QED BY <1>5, <2>1, <2>2 DEF Generate, Sound, FlagsValid, ErrorHasAReason
<1>6. CASE GeneratePanics
  BY <1>6, EndIsSound DEF GeneratePanics
<1>7. CASE Generated
  <2>1. /\ UNCHANGED <<arg, heat, parent, state, db>> /\ HeadRoot' = HeadRoot
        /\ pc = "generate" /\ made >= FromBlock
        /\ arg.scheme = "hash" => HeadRoot \in db
    BY <1>0, <1>7 DEF Generated, Sound, HeadRoot
  <2> QED BY <1>7, <2>1 DEF Generated, Sound, FlagsValid, ErrorHasAReason
<1>8. CASE CloseTemp
  BY <1>8, EndIsSound DEF CloseTemp, Sound, FlagsValid, ErrorHasAReason
<1> QED BY <1>1, <1>2, <1>3, <1>4, <1>5, <1>6, <1>7, <1>8

LEMMA SoundHeatUp ==
    ASSUME Sound, Written', HeatUp \/ Journal
    PROVE  Sound'
<1> USE DEF At, Goto, Exit, Die, DiskFails, mem, disk
<1>1. heat \in 0 .. FromBlock /\ parent = Root(heat, arg.per) /\ FromBlock \in Nat
  BY FixtureAssumption DEF HeatUp, Journal, Sound
<1>2. CASE HeatUp
  <2>1. arg.per \in Nat
    BY ArgTypes, FixtureAssumption DEF Sound
  <2>2. Executed(parent) = Root(heat + 1, arg.per)
    BY <1>1, <1>2, <2>1, HeatUpRoot DEF HeatUp
  <2>3. CASE Goto("heatup") /\ heat' = heat + 1 /\ parent' = Executed(parent)
    <3>1. heat' \in 0 .. FromBlock /\ parent' = Root(heat', arg.per)
      BY <1>1, <1>2, <2>2, <2>3 DEF HeatUp
    <3>2. parent' = Root(heat', arg'.per)
      BY <1>2, <3>1 DEF HeatUp
    <3> QED BY <1>2, <2>3, <3>1, <3>2 DEF HeatUp, Sound, FlagsValid, ErrorHasAReason
  <2>4. CASE DiskFails
    BY <2>4, EndIsSound
  <2> QED BY <1>2, <2>2, <2>3, <2>4 DEF HeatUp
<1>3. CASE Journal
  <2>1. CASE Goto("close") /\ db' = Journaled
    <3>1. HeadRoot \in db' /\ HeadRoot' = HeadRoot
      BY <1>1, <1>3, <2>1 DEF Journal, Journaled, HeadRoot
    <3> QED BY <1>3, <2>1, <3>1 DEF Journal, Sound, FlagsValid, ErrorHasAReason
  <2>2. CASE DiskFails
    BY <2>2, EndIsSound
  <2> QED BY <1>3, <2>1, <2>2 DEF Journal
<1> QED BY <1>2, <1>3

LEMMA SoundLate ==
    ASSUME Sound, Written',
           CloseFinal \/ CreateBlocks \/ Encode \/ CloseBlocks \/ ReadBack \/ WriteManifest
    PROVE  Sound'
<1> USE DEF At, Goto, Exit, DiskFails, mem, disk
<1>1. UNCHANGED <<arg, db, state>> /\ HeadRoot' = HeadRoot
  BY DEF CloseFinal, CreateBlocks, Encode, CloseBlocks, ReadBack, WriteManifest, HeadRoot
<1>2. HeadRoot \in db /\ FlagsValid /\ state = TRUE /\ exit # "one"
  BY DEF CloseFinal, CreateBlocks, Encode, CloseBlocks, ReadBack, WriteManifest, Sound, Written
<1>3. \/ /\ pc' \in {"create", "encode", "readback", "manifest", "validate"}
         /\ exit' = exit
      \/ DiskFails
  BY DEF CloseFinal, CreateBlocks, Encode, OnEncodeError, CloseBlocks, ReadBack, WriteManifest
<1> QED BY <1>1, <1>2, <1>3, EndIsSound DEF Sound, FlagsValid, ErrorHasAReason

\* The corpus that validate looks at is the one it should find.
LEMMA AlwaysValid ==
    ASSUME Sound, At("validate")
    PROVE  Valid
<1>1. /\ manifest = NewManifest /\ file = Whole /\ sum = Whole
      /\ HeadRoot \in db /\ state = TRUE /\ FlagsValid
  BY DEF At, Sound, Written
<1>2. /\ arg.blocks \in Nat /\ arg.blocks \in BlockFlags /\ arg.per \in TxFlags
      /\ Whole \in BlocksFile /\ arg.blocks > 0 /\ FromBlock \in Nat /\ FromBlock >= 1
  <2>1. arg.blocks \in BlockFlags
    BY DEF Sound, Written, Args
  <2> QED BY <1>1, <2>1, ArgTypes, FixtureAssumption DEF Sound, FlagsValid
<1>3. HeadRoot \in Roots
  BY <1>2 DEF HeadRoot, Roots
<1>4. NewManifest \in Manifest
  BY <1>1, <1>2, <1>3 DEF NewManifest, Manifest, BlockCount, HeadRoot
<1>5. Validate(NewManifest)
  BY <1>1, <1>2, <1>3, MarksAreNoData DEF NewManifest, Validate, BlockCount, HeadRoot
<1>6. LoadManifest(manifest)
  BY <1>1, <1>4, <1>5, MarksAreNoData DEF LoadManifest
<1>7. file # Missing /\ Content = Items(Whole)
  BY <1>1, <1>2, MarksAreNoData DEF Content
<1>8. /\ Items(Whole) \in Seq(Block) /\ Len(Items(Whole)) = arg.blocks
      /\ DecodesCleanly(Items(Whole)) /\ Count(Items(Whole)) = arg.blocks
  BY <1>2, WholeDecodes DEF Whole
<1>9. Content # Missing /\ Content # << >>
  BY <1>2, <1>7, <1>8, MarksAreNoData
<1>10. Opens(Directory)
  BY <1>1, <1>6, <1>9 DEF Opens, Directory
<1>11. manifest.root = HeadRoot /\ manifest.count = arg.blocks
  BY <1>1 DEF NewManifest, BlockCount, HeadRoot
<1> QED BY <1>1, <1>7, <1>8, <1>10, <1>11 DEF Valid

LEMMA SoundStep == Sound /\ [Next]_vars => Sound'
<1> SUFFICES ASSUME Sound, [Next]_vars PROVE Sound'
  OBVIOUS
<1>1. Written'
  BY WrittenStep DEF Sound
<1>2. CASE ParseFlags \/ MakeDirs \/ OpenTemp \/ OpenFinal
             \/ Generate \/ GeneratePanics \/ Generated \/ CloseTemp
  BY <1>1, <1>2, SoundEarly
<1>3. CASE HeatUp \/ Journal
  BY <1>1, <1>3, SoundHeatUp
<1>4. CASE CloseFinal \/ CreateBlocks \/ Encode \/ CloseBlocks \/ ReadBack \/ WriteManifest
  BY <1>1, <1>4, SoundLate
<1>5. CASE Validation
  <2>1. Valid
    BY <1>5, AlwaysValid DEF Validation
  <2> QED BY <1>1, <1>5, <2>1, EndIsSound DEF Validation, Return, DiskFails, Exit
<1>6. CASE Kill
  BY <1>1, <1>6, EndIsSound DEF Kill
<1>7. CASE RunAgain
  BY <1>1, <1>7, GenesisRoot DEF RunAgain, Sound, ErrorHasAReason
<1>8. CASE UNCHANGED vars
  BY <1>1, <1>8 DEF vars, mem, disk, Sound, FlagsValid, ErrorHasAReason, total, HeadRoot
<1> QED BY <1>2, <1>3, <1>4, <1>5, <1>6, <1>7, <1>8 DEF Next, Step, Over

\* For any number of heat-up blocks, any flags and either scheme, an exit with
\* code 1 has its reason in the flags, the disk or a used database: the
\* recomputed heat-up roots agree, and validation finds the state and every
\* block (main.go:292-325, 397-436).
THEOREM ErrorHasAReasonCorrect == Spec => []ErrorHasAReason
<1>1. Spec => []Sound
  BY SoundInit, SoundStep, PTL DEF Spec
<1>2. Sound => ErrorHasAReason
  BY DEF Sound
<1> QED BY <1>1, <1>2, PTL

-----------------------------------------------------------------------------
(* The slots.                                                              *)

\* Slots of different calls differ as long as a block's calls fit in the
\* stride, and none is the counter's (main.go:195-198).
THEOREM SlotsDiffer ==
    ASSUME NEW b \in Nat, NEW c \in Nat, NEW j \in 0 .. Stride - 1, NEW k \in 0 .. Stride - 1,
           b >= 1, Slot(b, j) = Slot(c, k)
    PROVE  b = c /\ j = k /\ Slot(b, j) # 0
<1>1. Stride \in Nat /\ Stride >= 1
  BY FixtureAssumption
<1>2. b * Stride \in Nat /\ c * Stride \in Nat
  BY <1>1
<1>3. b * Stride + j = c * Stride + k
  BY DEF Slot
<1>4. ASSUME b < c PROVE FALSE
  <2>1. (b + 1) * Stride <= c * Stride
    BY <1>1, <1>4
  <2>2. (b + 1) * Stride = b * Stride + Stride
    BY <1>1
  <2> QED BY <1>1, <1>2, <1>3, <2>1, <2>2
<1>5. ASSUME c < b PROVE FALSE
  <2>1. (c + 1) * Stride <= b * Stride
    BY <1>1, <1>5
  <2>2. (c + 1) * Stride = c * Stride + Stride
    BY <1>1
  <2> QED BY <1>1, <1>2, <1>3, <2>1, <2>2
<1>6. b = c
  BY <1>4, <1>5
<1>7. b * Stride >= 1
  BY <1>1
<1> QED BY <1>1, <1>2, <1>3, <1>6, <1>7 DEF Slot

\* Each writer call of a fixture sets a slot of its own, for any flags for
\* which a block's calls fit in the stride.
THEOREM ColdSlotsUniqueCorrect == Spec => []ColdSlotsUnique
<1>1. Written => ColdSlotsUnique
  <2> SUFFICES ASSUME Written, file # Missing, WriterTxs(file.per) <= Stride,
                      NEW i1 \in 1 .. file.n, NEW i2 \in 1 .. file.n,
                      NEW j1 \in 0 .. WriterTxs(file.per) - 1,
                      NEW j2 \in 0 .. WriterTxs(file.per) - 1
               PROVE  /\ Slot(ReplayBlock(i1), j1) # 0
                      /\ Slot(ReplayBlock(i1), j1) = Slot(ReplayBlock(i2), j2) =>
                            ReplayBlock(i1) = ReplayBlock(i2) /\ j1 = j2
    BY DEF ColdSlotsUnique
  <2>1. file.n \in Nat /\ file.per \in Nat /\ WriterTxs(file.per) \in Nat
    <3>1. file.n \in Nat /\ file.per \in Nat /\ WriterPct \in Nat
      <4>1. file \in BlocksFile
        BY DEF Written
      <4>2. file.n \in Nat /\ file.per \in TxFlags
        BY <4>1 DEF BlocksFile
      <4>3. TxFlags \subseteq Nat /\ WriterPct \in Nat
        BY FixtureAssumption
      <4> QED BY <4>2, <4>3
    <3>2. file.per * WriterPct \in Nat
      BY <3>1
    <3> QED BY <3>1, <3>2 DEF WriterTxs
  <2>2. /\ ReplayBlock(i1) \in Nat /\ ReplayBlock(i1) >= 1
        /\ ReplayBlock(i2) \in Nat
        /\ j1 \in 0 .. Stride - 1 /\ j2 \in 0 .. Stride - 1
    BY <2>1, FixtureAssumption DEF ReplayBlock
  <2> HIDE DEF Slot
  <2> QED BY <2>2, SlotsDiffer
<1> QED BY <1>1, WrittenInvariant, PTL

-----------------------------------------------------------------------------
(* Types.                                                                  *)

LEMMA Numbers ==
    /\ FromBlock \in Nat /\ FromBlock >= 1
    /\ MaxRuns \in Nat /\ MaxRuns >= 1
    /\ BlockFlags \subseteq Nat /\ TxFlags \subseteq Nat
BY FixtureAssumption

LEMMA Flags ==
    ASSUME NEW a \in Args
    PROVE  a.blocks \in BlockFlags /\ a.per \in TxFlags /\ a.blocks \in Nat /\ a.per \in Nat
BY Numbers DEF Args

LEMMA RootsOfRun ==
    ASSUME arg \in Args, NEW b \in 0 .. FromBlock + arg.blocks
    PROVE  Root(b, arg.per) \in Roots
<1>1. arg.blocks \in BlockFlags /\ arg.blocks \in Nat /\ arg.per \in TxFlags /\ FromBlock \in Nat
  BY FixtureAssumption DEF Args
<1>2. CASE b <= FromBlock
  <2>1. b \in 0 .. FromBlock
    BY <1>1, <1>2
  <2> QED BY <1>1, <2>1 DEF Roots
<1>3. CASE b > FromBlock
  <2>1. b - FromBlock \in 1 .. arg.blocks /\ FromBlock + (b - FromBlock) = b
    BY <1>1, <1>3
  <2>2. b - FromBlock \in UNION {1 .. n : n \in BlockFlags}
    BY <1>1, <2>1
  <2>3. Root(FromBlock + (b - FromBlock), arg.per) \in Roots
    BY <1>1, <2>2 DEF Roots
  <2> QED BY <2>1, <2>3
<1> QED BY <1>1, <1>2, <1>3

LEMMA GenesisState == Root(0, 0) \in [nonce: 0 .. FromBlock, rewards: 0 .. FromBlock]
<1>1. TxsBefore(0 + 1, 0) = 0 /\ 0 \in 0 .. FromBlock
  BY Numbers DEF TxsBefore
<1> QED BY <1>1 DEF Root

LEMMA TypesInit == Init => TypeOK
<1> SUFFICES ASSUME Init PROVE TypeOK
  OBVIOUS
<1>1. arg \in Args /\ arg.blocks \in Nat
  BY Flags DEF Init
<1>2. parent \in [nonce: 0 .. FromBlock, rewards: 0 .. FromBlock]
  BY GenesisState DEF Init
<1>3. 0 \in 0 .. FromBlock + arg.blocks /\ 0 \in 0 .. FromBlock /\ 1 \in 1 .. MaxRuns
  BY <1>1, Numbers
<1>4. made \in 0 .. FromBlock + arg.blocks /\ heat \in 0 .. FromBlock /\ run \in 1 .. MaxRuns
  BY <1>3 DEF Init
<1>5. pc = "flags" /\ exit = "none" /\ fault = FALSE /\ state = FALSE
      /\ db = {} /\ temp = {} /\ file = Missing /\ sum = Missing /\ manifest = Missing
  BY DEF Init
<1> QED BY <1>1, <1>2, <1>4, <1>5 DEF TypeOK, Args, Steps, Exits

\* The part of the type invariant that is about one process and where it is.
Process ==
    /\ pc \in Steps \cup {"ended"}
    /\ run \in 1 .. MaxRuns
    /\ arg \in Args
    /\ exit \in Exits /\ (pc = "ended") = (exit # "none")
    /\ fault \in BOOLEAN
    /\ made \in 0 .. FromBlock + arg.blocks
    /\ heat \in 0 .. FromBlock
    /\ parent \in [nonce: 0 .. FromBlock, rewards: 0 .. FromBlock]
    /\ sum = Missing \/ sum \in BlocksFile

\* The part about the directory, which the next process finds.
Files ==
    /\ db \subseteq Roots
    /\ state \in BOOLEAN
    /\ temp \subseteq 1 .. MaxRuns
    /\ file = Missing \/ file \in BlocksFile
    /\ manifest \in {Missing, Garbled} \/ manifest \in Manifest

LEMMA TypeParts == TypeOK <=> Process /\ Files
BY DEF TypeOK, Process, Files, Args

LEMMA ProcessStep ==
    ASSUME TypeOK, Sound, [Next]_vars
    PROVE  Process'
<1> USE TypeParts DEF At, Goto, Exit, Die, DiskFails, Return, RemoveTemp, mem, disk, Steps, Exits
<1>1. CASE ParseFlags
  BY <1>1 DEF ParseFlags, Process
<1>2. CASE MakeDirs
  BY <1>2 DEF MakeDirs, Process
<1>3. CASE OpenTemp
  BY <1>3 DEF OpenTemp, Process
<1>4. CASE OpenFinal
  BY <1>4 DEF OpenFinal, Process
<1>5. CASE Generate
  <2>1. made' \in 0 .. FromBlock + arg.blocks
    <3>1. made \in Nat /\ made < FromBlock + arg.blocks /\ arg.blocks \in Nat
      BY <1>5, Numbers, Flags DEF Generate, total, Process
    <3> QED BY <1>5, <3>1, Numbers DEF Generate
  <2> QED BY <1>5, <2>1 DEF Generate, Process
<1>6. CASE GeneratePanics
  BY <1>6 DEF GeneratePanics, Process
<1>7. CASE Generated \/ CloseTemp
  BY <1>7 DEF Generated, CloseTemp, Process
<1>8. CASE HeatUp
  <2>1. FromBlock \in Nat /\ heat \in Nat /\ parent = Root(heat, arg.per) /\ arg.per \in Nat
        /\ heat < FromBlock
    <3>1. heat < FromBlock /\ heat \in 0 .. FromBlock /\ parent = Root(heat, arg.per)
      BY <1>8 DEF HeatUp, Sound
    <3> QED BY <3>1, Numbers, Flags DEF Process
  <2>2. Executed(parent) \in [nonce: 0 .. FromBlock, rewards: 0 .. FromBlock]
    <3>1. TxsBefore(heat + 1, arg.per) = heat
      BY <2>1 DEF TxsBefore
    <3>2. heat + 1 \in 0 .. FromBlock
      BY <2>1
    <3> QED BY <2>1, <3>1, <3>2 DEF Executed, Root
  <2>3. heat + 1 \in 0 .. FromBlock
    BY <2>1
  <2> HIDE DEF Executed
  <2> QED BY <1>8, <2>2, <2>3 DEF HeatUp, Process
<1>9. CASE Journal \/ CloseFinal
  BY <1>9 DEF Journal, CloseFinal, Process
<1>10. CASE CreateBlocks \/ Encode \/ CloseBlocks
  BY <1>10 DEF CreateBlocks, Encode, OnEncodeError, CloseBlocks, Process
<1>11. CASE ReadBack
  <2>1. file \in BlocksFile
    BY <1>11, ArgTypes DEF ReadBack, Sound, Written
  <2> QED BY <1>11, <2>1 DEF ReadBack, OnDisk, Process
<1>12. CASE WriteManifest \/ Validation
  BY <1>12 DEF WriteManifest, Validation, Process
<1>13. CASE Kill
  BY <1>13 DEF Kill, Process
<1>14. CASE RunAgain
  <2>1. FromBlock \in Nat /\ run' \in 1 .. MaxRuns /\ arg'.blocks \in Nat
    <3>1. arg' \in Args /\ run \in 1 .. MaxRuns /\ run < MaxRuns /\ run' = run + 1
      BY <1>14 DEF RunAgain, Process
    <3> QED BY <3>1, Numbers, Flags
  <2>2. parent' \in [nonce: 0 .. FromBlock, rewards: 0 .. FromBlock]
    BY <1>14, GenesisState DEF RunAgain
  <2>3. made' \in 0 .. FromBlock + arg'.blocks /\ heat' \in 0 .. FromBlock
    BY <1>14, <2>1 DEF RunAgain
  <2> QED BY <1>14, <2>1, <2>2, <2>3 DEF RunAgain, Process
<1>15. CASE UNCHANGED vars
  BY <1>15 DEF vars, Process
<1> QED BY <1>1, <1>2, <1>3, <1>4, <1>5, <1>6, <1>7, <1>8, <1>9, <1>10, <1>11, <1>12,
           <1>13, <1>14, <1>15 DEF Next, Step, Over

LEMMA FilesTyped ==
    ASSUME TypeOK, Sound, [Next]_vars
    PROVE  Files'
<1> USE TypeParts DEF At, Goto, Exit, Die, DiskFails, Return, RemoveTemp, mem, disk
<1>0. arg \in Args /\ FromBlock \in Nat /\ arg.blocks \in Nat
  BY FixtureAssumption DEF Process, Args
<1>1. CASE ParseFlags \/ MakeDirs \/ OpenTemp
  BY <1>1 DEF ParseFlags, MakeDirs, OpenTemp, Files, Process
<1>2. CASE OpenFinal
  <2>1. Root(0, 0) \in Roots
    BY <1>0, RootsOfRun, GenesisRoot
  <2> QED BY <1>2, <2>1 DEF OpenFinal, Files
<1>3. CASE Generate
  <2>1. made + 1 \in 0 .. FromBlock + arg.blocks
    BY <1>0, <1>3 DEF Generate, total, Process
  <2>2. Root(made + 1, arg.per) \in Roots
    BY <1>0, <2>1, RootsOfRun
  <2> QED BY <1>3, <2>2 DEF Generate, Files
<1>4. CASE GeneratePanics \/ Generated \/ CloseTemp
  BY <1>4 DEF GeneratePanics, Generated, CloseTemp, Files
<1>5. CASE HeatUp \/ CloseFinal \/ CloseBlocks \/ ReadBack
  BY <1>5 DEF HeatUp, CloseFinal, CloseBlocks, ReadBack, Files
<1>6. CASE Journal
  <2>1. heat \in 0 .. FromBlock + arg.blocks
    BY <1>0 DEF Process
  <2>2. parent \in Roots
    BY <1>0, <1>6, <2>1, RootsOfRun DEF Journal, Sound
  <2> QED BY <1>6, <2>2 DEF Journal, Journaled, Files
<1>7. CASE CreateBlocks \/ Encode
  <2>1. file' = Missing \/ file' \in BlocksFile
    BY <1>7, WrittenStep DEF Sound, Written
  <2> QED BY <1>7, <2>1 DEF CreateBlocks, Encode, OnEncodeError, Files
<1>8. CASE WriteManifest
  <2>1. NewManifest \in Manifest
    <3>1. sum \in BlocksFile /\ arg.blocks \in BlockFlags
      BY <1>8, ArgTypes DEF WriteManifest, Sound, Written, Args
    <3>2. Root(FromBlock, arg.per) \in Roots
      BY <1>0, RootsOfRun
    <3> QED BY <1>0, <3>1, <3>2 DEF NewManifest, BlockCount, Manifest
  <2> HIDE DEF NewManifest
  <2> QED BY <1>8, <2>1 DEF WriteManifest, Files
<1>9. CASE Validation
  BY <1>9 DEF Validation, Files
<1>10. CASE Kill
  <2>1. file' = Missing \/ file' \in BlocksFile
    BY <1>10, WrittenStep DEF Sound, Written
  <2> QED BY <1>10, <2>1 DEF Kill, Files
<1>11. CASE RunAgain \/ UNCHANGED vars
  BY <1>11 DEF RunAgain, vars, Files
<1> QED BY <1>1, <1>2, <1>3, <1>4, <1>5, <1>6, <1>7, <1>8, <1>9, <1>10, <1>11
        DEF Next, Step, Over

\* Whatever flags successive runs have, and wherever they end: the state roots
\* in the database are roots of the generated chain, the rebuilt state is one
\* of its heat-up states, and a manifest has a count some flag has asked for.
THEOREM TypeCorrect == Spec => []TypeOK
<1>1. TypeOK /\ Sound /\ [Next]_vars => TypeOK'
  BY ProcessStep, FilesTyped DEF TypeOK, Process, Files, Args
<1> QED BY <1>1, TypesInit, SoundInit, SoundStep, PTL DEF Spec

-----------------------------------------------------------------------------
(* The blocks fit.                                                         *)

\* Blocks of k transactions fit in the gas limit, all alike.
Fit(k) == ~Overfull(FromBlock + 1, k)

\* Only blocks that fit get beyond the generator and into the file, and every
\* manifest names the state of the last heat-up block.
Fitting ==
    /\ pc = "generate" /\ made > FromBlock => Fit(arg.per)
    /\ pc = "open" /\ arg.scheme # "hash" => Fit(arg.per)
    /\ pc \in {"closetemp", "heatup", "close", "create", "encode", "readback", "manifest",
               "validate"} => Fit(arg.per)
    /\ exit = "panic" => ~Fit(arg.per)
    /\ file # Missing /\ file.n > 0 => Fit(file.per)
    /\ manifest \notin {Missing, Garbled} =>
          manifest.root = [nonce |-> FromBlock, rewards |-> FromBlock]

LEMMA SameShape ==
    ASSUME NEW b \in Nat, b > FromBlock, NEW k
    PROVE  Overfull(b, k) <=> ~Fit(k)
<1>1. Shape(b, k) = Shape(FromBlock + 1, k)
  BY Numbers DEF Shape
<1> QED BY <1>1 DEF Overfull, Fit

LEMMA HeatUpFits ==
    ASSUME NEW b \in Nat, b <= FromBlock, NEW k
    PROVE  ~Overfull(b, k)
<1>1. Shape(b, k) = <<Tx0>> /\ DOMAIN <<Tx0>> = {1}
  BY DEF Shape
<1>2. Total([i \in 1 .. 1 - 1 |-> Shape(b, k)[i].used]) = 0
  <2>1. [i \in 1 .. 1 - 1 |-> Shape(b, k)[i].used] = << >>
    OBVIOUS
  <2> QED BY <2>1, TotalEmpty
<1>3. Tx0.gas = TransferGas /\ TransferGas \in Nat /\ GasLimit \in Nat /\ TransferGas <= GasLimit
  BY FixtureAssumption DEF Tx0
<1>4. ~(0 + Tx0.gas > GasLimit)
  BY <1>3
<1>5. <<Tx0>>[1] = Tx0
  OBVIOUS
<1> HIDE DEF Tx0
<1> QED BY <1>1, <1>2, <1>4, <1>5 DEF Overfull

LEMMA HeadState ==
    ASSUME NEW k \in Nat
    PROVE  Root(FromBlock, k) = [nonce |-> FromBlock, rewards |-> FromBlock]
<1>1. TxsBefore(FromBlock + 1, k) = FromBlock
  <2>1. FromBlock + 1 - FromBlock - 1 = 0 /\ ~(FromBlock + 1 <= FromBlock)
    BY Numbers
  <2> QED BY Numbers, <2>1 DEF TxsBefore
<1> QED BY <1>1 DEF Root

LEMMA FittingInit == Init => Fitting
BY DEF Init, Fitting

LEMMA FittingStep ==
    ASSUME TypeOK, Sound, Fitting, [Next]_vars
    PROVE  Fitting'
<1> USE TypeParts DEF At, Goto, Exit, Die, DiskFails, Return, mem, disk, Fitting
<1>1. CASE ParseFlags \/ MakeDirs
  BY <1>1 DEF ParseFlags, MakeDirs
<1>2. CASE OpenTemp \/ OpenFinal
  BY <1>2, Numbers DEF OpenTemp, OpenFinal, Sound
<1>3. CASE Generate
  <2>1. made \in Nat /\ arg' = arg /\ made' = made + 1 /\ ~Overfull(made + 1, arg.per)
    BY <1>3, Numbers, Flags DEF Generate, Process
  <2>2. made' > FromBlock => Fit(arg.per)
    BY <2>1, SameShape, Numbers
  <2> QED BY <1>3, <2>1, <2>2 DEF Generate
<1>4. CASE GeneratePanics
  <2>1. made \in Nat /\ arg' = arg /\ Overfull(made + 1, arg.per)
    BY <1>4, Numbers, Flags DEF GeneratePanics, Process
  <2>2. made + 1 > FromBlock
    <3>1. FromBlock \in Nat /\ made + 1 \in Nat
      BY <2>1, Numbers
    <3>2. ~ (made + 1 <= FromBlock)
      BY <2>1, <3>1, HeatUpFits
    <3> QED BY <3>1, <3>2
  <2>3. ~Fit(arg.per)
    BY <2>1, <2>2, SameShape
  <2> QED BY <1>4, <2>1, <2>3 DEF GeneratePanics
<1>5. CASE Generated
  <2>1. made > FromBlock /\ pc = "generate"
    <3>1. made = FromBlock + arg.blocks /\ arg.blocks > 0 /\ arg.blocks \in Nat
      BY <1>5, Flags DEF Generated, total, Sound, FlagsValid, Process
    <3> QED BY <1>5, <3>1, Numbers DEF Generated
  <2> QED BY <1>5, <2>1 DEF Generated
<1>6. CASE CloseTemp \/ HeatUp \/ Journal \/ CloseFinal
  BY <1>6 DEF CloseTemp, HeatUp, Journal, CloseFinal, Sound
<1>7. CASE CreateBlocks \/ Encode
  <2>1. Fit(arg.per) /\ arg' = arg
    BY <1>7 DEF CreateBlocks, Encode
  <2>2. file' # Missing /\ file'.n > 0 => Fit(file'.per)
    <3>1. CASE CreateBlocks
      BY <3>1, Numbers DEF CreateBlocks
    <3>2. CASE Encode
      <4>1. file \in BlocksFile /\ file.per = arg.per
        BY <3>2 DEF Encode, Sound, Written
      <4>2. file'.per = arg.per
        BY <3>2, <4>1 DEF Encode, OnEncodeError, BlocksFile
      <4> QED BY <2>1, <4>2
    <3> QED BY <1>7, <3>1, <3>2
  <2> QED BY <1>7, <2>1, <2>2 DEF CreateBlocks, Encode, OnEncodeError
<1>8. CASE CloseBlocks \/ ReadBack \/ Validation
  BY <1>8 DEF CloseBlocks, ReadBack, Validation
<1>9. CASE WriteManifest
  <2>1. NewManifest.root = [nonce |-> FromBlock, rewards |-> FromBlock]
    BY HeadState, Flags DEF Process, NewManifest
  <2> HIDE DEF NewManifest
  <2> QED BY <1>9, <2>1 DEF WriteManifest
<1>10. CASE Kill
  <2>1. file' # Missing /\ file'.n > 0 => Fit(file'.per)
    <3>1. CASE At("encode") /\ file' = [file EXCEPT !.cut = TRUE]
      <4>1. file \in BlocksFile /\ file.per = arg.per
        BY <3>1 DEF Sound, Written
      <4>2. file'.per = arg.per
        BY <3>1, <4>1 DEF BlocksFile
      <4> QED BY <3>1, <4>2
    <3> QED BY <1>10, <3>1 DEF Kill
  <2> QED BY <1>10, <2>1 DEF Kill
<1>11. CASE RunAgain \/ UNCHANGED vars
  BY <1>11 DEF RunAgain, vars
<1> QED BY <1>1, <1>2, <1>3, <1>4, <1>5, <1>6, <1>7, <1>8, <1>9, <1>10, <1>11
        DEF Next, Step, Over

LEMMA FittingInvariant == Spec => [](TypeOK /\ Sound /\ Fitting)
<1>1. Sound /\ Fitting /\ TypeOK /\ [Next]_vars => Fitting'
  BY FittingStep
<1> QED BY <1>1, SoundInit, SoundStep, FittingInit, TypeCorrect, PTL DEF Spec

\* For any number of heat-up blocks, any flags and any gas limit that takes a
\* transfer, a failure has a reason outside the generator, and a panic means
\* that the blocks asked for are too large (main.go:193-213, 292-325, 397-436).
THEOREM FailsForAReasonCorrect == Spec => []FailsForAReason
<1>1. Sound /\ Fitting => FailsForAReason
  BY DEF Sound, Fitting, Fit, FailsForAReason
<1> QED BY <1>1, FittingInvariant, PTL

-----------------------------------------------------------------------------
(* A pass over the fixture.                                                *)

\* Replayed has its own copies of the operators that Fixture has from Chain.
LEMMA SameOperators ==
    /\ \A s : Replayed!Total(s) = Total(s)
    /\ \A S : Replayed!Cardinality(S) = Cardinality(S)
    /\ \A t, c : Replayed!IsSystemTx(t, c) <=> IsSystemTx(t, c)
    /\ \A t, n, p : Replayed!Acceptable(t, n, p) <=> Acceptable(t, n, p)
<1>1. \A s : Replayed!Total(s) = Total(s)
  BY DEF Replayed!Total, Total, Replayed!FoldLeft, FoldLeft, Replayed!MapThenFoldSet,
     MapThenFoldSet, Replayed!Max, Max
<1>2. \A S : Replayed!Cardinality(S) = Cardinality(S)
  BY DEF Replayed!Cardinality, Cardinality
<1>3. \A t, c : Replayed!IsSystemTx(t, c) <=> IsSystemTx(t, c)
  BY DEF Replayed!IsSystemTx, IsSystemTx
<1>4. \A t, n, p : Replayed!Acceptable(t, n, p) <=> Acceptable(t, n, p)
  BY DEF Replayed!Acceptable, Acceptable
<1> QED BY <1>1, <1>2, <1>3, <1>4

\* The number of transactions of block b.
Size(b, k) == IF b <= FromBlock THEN 1 ELSE k

LEMMA ShapeIs ==
    ASSUME NEW b \in Nat, NEW k \in Nat
    PROVE  /\ Size(b, k) \in Nat /\ DOMAIN Shape(b, k) = 1 .. Size(b, k)
           /\ \A j \in 1 .. Size(b, k) : Shape(b, k)[j] \in {Tx0, WriterCall, Transfer}
<1>1. CASE b <= FromBlock
  <2>1. Shape(b, k) = <<Tx0>>
    BY <1>1 DEF Shape
  <2>2. DOMAIN <<Tx0>> = 1 .. 1 /\ \A j \in 1 .. 1 : <<Tx0>>[j] = Tx0
    OBVIOUS
  <2> HIDE DEF Tx0
  <2> QED BY <1>1, <2>1, <2>2 DEF Size
<1>2. CASE ~(b <= FromBlock)
  <2>1. Shape(b, k) = [j \in 1 .. k |-> IF j <= WriterTxs(k) THEN WriterCall ELSE Transfer]
    BY <1>2 DEF Shape
  <2> QED BY <1>2, <2>1 DEF Size
<1> QED BY <1>1, <1>2

LEMMA KindsOfTx ==
    ASSUME NEW t \in {Tx0, WriterCall, Transfer}
    PROVE  /\ DOMAIN t = DOMAIN Tx0
           /\ t.from = Sender /\ t.signed /\ t.funded /\ t.price = 1
           /\ t.gas \in Nat /\ t.used \in Nat
<1>1. TransferGas \in Nat /\ WriterGas \in Nat /\ WriterUsed \in Nat
  BY FixtureAssumption
<1>2. CASE t = Tx0
  BY <1>1, <1>2 DEF Tx0
<1>3. CASE t = WriterCall
  BY <1>1, <1>3 DEF Tx0, WriterCall
<1>4. CASE t = Transfer
  BY <1>1, <1>4 DEF Tx0, Transfer
<1> QED BY <1>2, <1>3, <1>4

LEMMA BlockIs ==
    ASSUME NEW b \in Nat, NEW k \in Nat, NEW B, B = BlockOf(b, k)
    PROVE  /\ B.number = b /\ B.coinbase = Miner /\ B.limit = GasLimit
           /\ DOMAIN B.txs = 1 .. Size(b, k) /\ Len(B.txs) = Size(b, k)
<1>1. Size(b, k) \in Nat /\ DOMAIN Shape(b, k) = 1 .. Size(b, k)
  BY ShapeIs
<1>2. B.txs = [j \in 1 .. Size(b, k) |->
                 [Shape(b, k)[j] EXCEPT !.nonce = TxsBefore(b, k) + j - 1]]
  BY <1>1 DEF BlockOf
<1>3. Len(B.txs) = Size(b, k) /\ DOMAIN B.txs = 1 .. Size(b, k)
  BY <1>1, <1>2
<1> QED BY <1>2, <1>3 DEF BlockOf

LEMMA TxIs ==
    ASSUME NEW b \in Nat, NEW k \in Nat, NEW B, B = BlockOf(b, k), NEW j \in 1 .. Size(b, k),
           NEW t, t = B.txs[j]
    PROVE  /\ t.from = Sender /\ t.signed /\ t.funded /\ t.price = 1
           /\ t.nonce = TxsBefore(b, k) + j - 1
           /\ t.gas = Shape(b, k)[j].gas /\ t.gas \in Nat
           /\ t.used = Shape(b, k)[j].used /\ t.used \in Nat
<1> DEFINE s == Shape(b, k)[j]
           x == TxsBefore(b, k) + j - 1
<1>1. s \in {Tx0, WriterCall, Transfer} /\ t = [s EXCEPT !.nonce = x]
  <2>1. DOMAIN Shape(b, k) = 1 .. Size(b, k)
    BY ShapeIs
  <2>2. s \in {Tx0, WriterCall, Transfer}
    BY ShapeIs
  <2> QED BY <2>1, <2>2 DEF BlockOf
<1> HIDE DEF s, x
<1>2. /\ DOMAIN s = DOMAIN Tx0
      /\ s.from = Sender /\ s.signed /\ s.funded /\ s.price = 1
      /\ s.gas \in Nat /\ s.used \in Nat
  BY <1>1, KindsOfTx
<1>3. "nonce" \in DOMAIN s
  BY <1>2 DEF Tx0
<1> QED BY <1>1, <1>2, <1>3 DEF s, x

\* A block file decodes to its whole blocks, the last being cut short or not.
LEMMA DecodedFile ==
    ASSUME NEW f \in BlocksFile
    PROVE  Decoded(Items(f)) = [i \in 1 .. f.n |-> BlockOf(ReplayBlock(i), f.per)]
<1> DEFINE blocks == [i \in 1 .. f.n |-> BlockOf(ReplayBlock(i), f.per)]
<1>1. f.n \in Nat /\ f.per \in TxFlags /\ f.cut \in BOOLEAN
  BY DEF BlocksFile
<1>2. \A i \in 1 .. f.n : BlockOf(ReplayBlock(i), f.per) \in Block
  BY <1>1, BlockType
<1>3. /\ blocks \in Seq(Block) /\ Len(blocks) = f.n /\ DOMAIN blocks = 1 .. f.n
      /\ \A i \in 1 .. f.n : blocks[i] # Malformed
  BY <1>1, <1>2, MarksAreNoData
<1>4. Items(f) = blocks \o (IF f.cut THEN <<Malformed>> ELSE << >>)
  BY DEF Items
<1> HIDE DEF blocks
<1>5. CASE ~f.cut
  <2>1. Items(f) = blocks
    BY <1>3, <1>4, <1>5
  <2> QED BY <1>3, <2>1 DEF Decoded, blocks
<1>6. CASE f.cut
  <2> DEFINE s == blocks \o <<Malformed>>
  <2>1. /\ DOMAIN s = 1 .. (f.n + 1) /\ s[f.n + 1] = Malformed
        /\ \A i \in 1 .. f.n : s[i] = blocks[i]
    BY <1>1, <1>3
  <2>2. SubSeq(s, 1, f.n) = blocks
    BY <1>1, <1>3
  <2>3. Items(f) = s
    BY <1>4, <1>6
  <2> HIDE DEF s
  <2>4. {i \in DOMAIN s : s[i] = Malformed} = {f.n + 1}
    <3>1. \A i \in 1 .. (f.n + 1) : s[i] = Malformed <=> i = f.n + 1
      BY <1>1, <1>3, <2>1
    <3>2. f.n + 1 \in 1 .. (f.n + 1)
      BY <1>1
    <3> QED BY <2>1, <3>1, <3>2
  <2>5. Min({f.n + 1}) = f.n + 1
    BY <1>1 DEF Min
  <2>6. Min({f.n + 1}) - 1 = f.n
    BY <1>1, <2>5
  <2>7. {i \in DOMAIN s : s[i] = Malformed} # {}
    BY <2>4
  <2>8. Decoded(s) = SubSeq(s, 1, Min({i \in DOMAIN s : s[i] = Malformed}) - 1)
    BY <2>7 DEF Decoded
  <2>9. Decoded(s) = blocks
    BY <2>2, <2>4, <2>6, <2>8
  <2> QED BY <2>3, <2>9 DEF blocks
<1> QED BY <1>1, <1>5, <1>6

\* The stream is the chain from its first block on.
LEMMA StreamIs ==
    ASSUME file \in BlocksFile, manifest.root.rewards = FromBlock
    PROVE  Stream = [b \in 1 .. FromBlock + file.n |-> BlockOf(b, file.per)]
<1> DEFINE old == [b \in 1 .. FromBlock |-> BlockOf(b, file.per)]
           new == [i \in 1 .. file.n |-> BlockOf(FromBlock + i, file.per)]
           all == [b \in 1 .. FromBlock + file.n |-> BlockOf(b, file.per)]
<1>1. file.n \in Nat /\ FromBlock \in Nat
  BY Numbers DEF BlocksFile
<1>2. Decoded(Items(file)) = new
  BY DecodedFile DEF ReplayBlock
<1>3. Stream = old \o new
  BY <1>2 DEF Stream
<1>4. old \o new = all
  <2> DEFINE chain == {BlockOf(b, file.per) : b \in Nat}
             both == old \o new
  <2>1. old \in Seq(chain) /\ Len(old) = FromBlock
    BY <1>1
  <2>2. new \in Seq(chain) /\ Len(new) = file.n
    BY <1>1
  <2>3. both \in Seq(chain) /\ DOMAIN both = 1 .. FromBlock + file.n
    <3> HIDE DEF chain, old, new
    <3> QED BY <1>1, <2>1, <2>2
  <2>4. ASSUME NEW b \in 1 .. FromBlock + file.n
        PROVE  both[b] = BlockOf(b, file.per)
    <3>1. CASE b <= FromBlock
      BY <1>1, <2>1, <2>2, <3>1
    <3>2. CASE ~(b <= FromBlock)
      <4>1. b - FromBlock \in 1 .. file.n /\ FromBlock + (b - FromBlock) = b
        BY <1>1, <3>2
      <4> QED BY <1>1, <2>1, <2>2, <3>2, <4>1
    <3> QED BY <3>1, <3>2
  <2>5. /\ all \in Seq(chain) /\ DOMAIN all = 1 .. FromBlock + file.n
        /\ \A b \in 1 .. FromBlock + file.n : all[b] = BlockOf(b, file.per)
    BY <1>1
  <2>6. /\ both \in Seq(chain) /\ all \in Seq(chain)
        /\ DOMAIN both = DOMAIN all /\ \A b \in DOMAIN all : both[b] = all[b]
    BY <2>3, <2>4, <2>5
  <2> HIDE DEF both, all, chain
  <2>7. both = all
    BY <2>6
  <2> QED BY <2>7 DEF both
<1> QED BY <1>3, <1>4

\* No transaction of a generated block is taken for one of the system's.
LEMMA AllExecuted ==
    ASSUME NEW b \in Nat, NEW k \in Nat, NEW B, B = BlockOf(b, k)
    PROVE  Replayed!Executed(B) = DOMAIN B.txs
<1>1. \A j \in DOMAIN B.txs : ~Replayed!IsSystemTx(B.txs[j], B.coinbase)
  <2>1. DOMAIN B.txs = 1 .. Size(b, k)
    BY BlockIs
  <2>2. ASSUME NEW j \in 1 .. Size(b, k) PROVE B.txs[j].price = 1
    BY TxIs
  <2> QED BY <2>1, <2>2, SameOperators DEF IsSystemTx
<1> QED BY <1>1 DEF Replayed!Executed

\* The sender has sent every transaction of the block so far.
LEMMA AllSentHere ==
    ASSUME NEW b \in Nat, NEW k \in Nat, NEW B, B = BlockOf(b, k), NEW j \in 0 .. Size(b, k)
    PROVE  Replayed!SentUpTo(B, j, Sender) = j
<1>1. /\ Size(b, k) \in Nat /\ DOMAIN B.txs = 1 .. Size(b, k)
      /\ \A i \in 1 .. Size(b, k) : B.txs[i].from = Sender
  <2>1. Size(b, k) \in Nat
    BY ShapeIs
  <2>2. DOMAIN B.txs = 1 .. Size(b, k)
    BY BlockIs
  <2>3. ASSUME NEW i \in 1 .. Size(b, k) PROVE B.txs[i].from = Sender
    BY TxIs
  <2> QED BY <2>1, <2>2, <2>3
<1>2. Replayed!Executed(B) = 1 .. Size(b, k)
  BY <1>1, AllExecuted
<1>3. {i \in Replayed!Executed(B) : i <= j /\ B.txs[i].from = Sender} = 1 .. j
  <2>1. \A i \in 1 .. Size(b, k) : i <= j /\ B.txs[i].from = Sender <=> i \in 1 .. j
    BY <1>1
  <2>2. 1 .. j \subseteq 1 .. Size(b, k)
    BY <1>1
  <2> QED BY <1>2, <2>1, <2>2
<1>4. j \in Nat /\ Cardinality(1 .. j) = j
  <2>1. j \in Nat /\ 0 \in Int /\ 1 \in Int
    BY <1>1
  <2>2. Cardinality(1 .. j) = IF 1 > j THEN 0 ELSE j - 1 + 1
    BY <2>1, FS_Interval
  <2> QED BY <2>1, <2>2
<1> QED BY <1>3, <1>4, SameOperators DEF Replayed!SentUpTo

LEMMA AfterHeatUp ==
    ASSUME NEW m \in Nat, NEW k
    PROVE  TxsBefore(FromBlock + 1 + m, k) = FromBlock + m * k
<1> DEFINE b == FromBlock + 1 + m
<1>1. ~(b <= FromBlock) /\ b - FromBlock - 1 = m
  BY Numbers
<1> HIDE DEF b
<1>2. TxsBefore(b, k) = FromBlock + m * k
  BY <1>1, Zenon DEF TxsBefore
<1> QED BY <1>2 DEF b

LEMMA TxsNext ==
    ASSUME NEW n \in Nat, NEW k \in Nat
    PROVE  /\ TxsBefore(n + 1, k) \in Nat
           /\ TxsBefore(n + 2, k) = TxsBefore(n + 1, k) + Size(n + 1, k)
<1>1. FromBlock \in Nat /\ FromBlock >= 1
  BY Numbers
<1>2. CASE n + 2 <= FromBlock
  BY <1>1, <1>2 DEF TxsBefore, Size
<1>3. CASE n + 1 = FromBlock
  <2>1. n + 2 = FromBlock + 1 + 0 /\ n + 1 <= FromBlock /\ n + 1 - 1 = n
    BY <1>1, <1>3
  <2>2. TxsBefore(FromBlock + 1 + 0, k) = FromBlock + 0 * k
    BY AfterHeatUp
  <2>3. 0 * k = 0
    OBVIOUS
  <2>4. TxsBefore(n + 2, k) = FromBlock + 0
    BY <2>1, <2>2, <2>3
  <2>5. TxsBefore(n + 1, k) = n /\ Size(n + 1, k) = 1
    BY <2>1 DEF TxsBefore, Size
  <2> QED BY <1>1, <1>3, <2>4, <2>5
<1>4. CASE n + 1 > FromBlock
  <2> DEFINE m == n - FromBlock
  <2>1. /\ m \in Nat /\ m + 1 \in Nat /\ ~(n + 1 <= FromBlock)
        /\ n + 1 = FromBlock + 1 + m /\ n + 2 = FromBlock + 1 + (m + 1)
    BY <1>1, <1>4
  <2> HIDE DEF m
  <2>2. TxsBefore(FromBlock + 1 + m, k) = FromBlock + m * k
    BY <2>1, AfterHeatUp
  <2>3. TxsBefore(FromBlock + 1 + (m + 1), k) = FromBlock + (m + 1) * k
    BY <2>1, AfterHeatUp
  <2>4. m * k \in Nat /\ (m + 1) * k = m * k + k
    BY <2>1
  <2>5. TxsBefore(n + 1, k) = FromBlock + m * k /\ TxsBefore(n + 2, k) = FromBlock + m * k + k
    BY <1>1, <2>1, <2>2, <2>3, <2>4
  <2> QED BY <1>1, <2>1, <2>4, <2>5 DEF Size
<1> QED BY <1>1, <1>2, <1>3, <1>4

\* The nonce that TxsBefore computes is the number of transactions so far.
LEMMA SizesAdd ==
    ASSUME NEW k \in Nat
    PROVE  \A n \in Nat : Total([c \in 1 .. n |-> Size(c, k)]) = TxsBefore(n + 1, k)
<1> DEFINE Bad == {n \in Nat : Total([c \in 1 .. n |-> Size(c, k)]) # TxsBefore(n + 1, k)}
<1>1. SUFFICES ASSUME Bad # {} PROVE FALSE
  OBVIOUS
<1>2. PICK m \in Bad : \A i \in Bad : m <= i
  <2>1. Bad \subseteq Nat
    OBVIOUS
  <2> HIDE DEF Bad
  <2> QED BY <1>1, <2>1, LeastOfSet
<1>3. m # 0
  <2>1. [c \in 1 .. 0 |-> Size(c, k)] = << >>
    OBVIOUS
  <2>2. TxsBefore(0 + 1, k) = 0
    BY Numbers DEF TxsBefore
  <2>3. Total([c \in 1 .. 0 |-> Size(c, k)]) = TxsBefore(0 + 1, k)
    BY <2>1, <2>2, TotalEmpty
  <2> QED BY <2>3
<1> DEFINE n == m - 1
<1>4. n \in Nat /\ n + 1 = m /\ n \notin Bad
  BY <1>2, <1>3
<1>5. Total([c \in 1 .. n |-> Size(c, k)]) = TxsBefore(n + 1, k)
  BY <1>4
<1> HIDE DEF n
<1>6. Total([c \in 1 .. (n + 1) |-> Size(c, k)])
      = Total([c \in 1 .. n |-> Size(c, k)]) + Size(n + 1, k)
  <2> DEFINE f == [c \in 1 .. (n + 1) |-> Size(c, k)]
  <2>1. \A c \in 1 .. (n + 1) : f[c] = Size(c, k) /\ f[c] \in Int
    BY <1>4 DEF Size
  <2>2. /\ n + 1 \in 1 .. (n + 1)
        /\ [c \in 1 .. (n + 1) |-> f[c]] = [c \in 1 .. (n + 1) |-> Size(c, k)]
        /\ [c \in 1 .. n |-> f[c]] = [c \in 1 .. n |-> Size(c, k)]
    BY <1>4, <2>1
  <2> HIDE DEF f
  <2>3. Total([c \in 1 .. (n + 1) |-> f[c]]) = Total([c \in 1 .. n |-> f[c]]) + f[n + 1]
    BY <1>4, <2>1, TotalNext
  <2> QED BY <2>1, <2>2, <2>3
<1>7. Total([c \in 1 .. m |-> Size(c, k)]) = TxsBefore(m + 1, k)
  <2>1. TxsBefore(n + 2, k) = TxsBefore(n + 1, k) + Size(n + 1, k) /\ n + 2 = m + 1
    BY <1>4, TxsNext
  <2> QED BY <1>4, <1>5, <1>6, <2>1
<1> QED BY <1>2, <1>7

\* The sender's nonce, as the pass counts it, is the generator's.
LEMMA SentAlong ==
    ASSUME file \in BlocksFile, manifest.root.rewards = FromBlock,
           NEW n \in 0 .. FromBlock + file.n
    PROVE  Replayed!SentBefore(n, Sender) = TxsBefore(n + 1, file.per)
<1>1. /\ n \in Nat /\ file.n \in Nat /\ file.per \in Nat /\ FromBlock \in Nat
      /\ Stream = [b \in 1 .. FromBlock + file.n |-> BlockOf(b, file.per)]
  <2>1. file.n \in Nat /\ file.per \in Nat /\ FromBlock \in Nat
    BY Numbers DEF BlocksFile
  <2> QED BY <2>1, StreamIs
<1>2. ASSUME NEW c \in 1 .. n
      PROVE  Replayed!SentUpTo(Stream[c], Len(Stream[c].txs), Sender) = Size(c, file.per)
  <2>1. c \in Nat /\ Stream[c] = BlockOf(c, file.per)
    BY <1>1
  <2>2. Len(Stream[c].txs) = Size(c, file.per)
    BY <1>1, <2>1, BlockIs
  <2>3. Size(c, file.per) \in 0 .. Size(c, file.per)
    <3>1. Size(c, file.per) \in Nat
      BY <1>1, <2>1, ShapeIs
    <3> QED BY <3>1
  <2> QED BY <1>1, <2>1, <2>2, <2>3, AllSentHere
<1>3. [c \in 1 .. n |-> Replayed!SentUpTo(Stream[c], Len(Stream[c].txs), Sender)]
      = [c \in 1 .. n |-> Size(c, file.per)]
  BY <1>2
<1>4. Replayed!SentBefore(n, Sender)
      = Total([c \in 1 .. n |-> Replayed!SentUpTo(Stream[c], Len(Stream[c].txs), Sender)])
  BY SameOperators DEF Replayed!SentBefore
<1> QED BY <1>1, <1>3, <1>4, SizesAdd

\* A transaction of a block that fits finds its gas in the pool.
LEMMA GasLeft ==
    ASSUME NEW b \in Nat, NEW k \in Nat, ~Overfull(b, k),
           NEW B, B = BlockOf(b, k), NEW j \in 1 .. Size(b, k)
    PROVE  B.txs[j].gas <= B.limit - Replayed!GasUpTo(B, j - 1)
<1>1. /\ Size(b, k) \in Nat /\ DOMAIN Shape(b, k) = 1 .. Size(b, k)
  BY ShapeIs
<1>2. /\ B.limit = GasLimit /\ DOMAIN B.txs = 1 .. Size(b, k)
      /\ \A i \in 1 .. Size(b, k) :
            /\ B.txs[i].gas = Shape(b, k)[i].gas /\ B.txs[i].gas \in Nat
            /\ B.txs[i].used = Shape(b, k)[i].used /\ B.txs[i].used \in Nat
  <2>1. B.limit = GasLimit /\ DOMAIN B.txs = 1 .. Size(b, k)
    BY BlockIs
  <2>2. ASSUME NEW i \in 1 .. Size(b, k)
        PROVE  /\ B.txs[i].gas = Shape(b, k)[i].gas /\ B.txs[i].gas \in Nat
               /\ B.txs[i].used = Shape(b, k)[i].used /\ B.txs[i].used \in Nat
    BY TxIs
  <2> QED BY <2>1, <2>2
<1> DEFINE used == [i \in 1 .. j - 1 |-> Shape(b, k)[i].used]
<1>3. j \in Nat /\ j - 1 \in Nat /\ \A i \in 1 .. j - 1 : i \in 1 .. Size(b, k)
  BY <1>1
<1>4. [i \in 1 .. j - 1 |-> IF i \in Replayed!Executed(B) THEN B.txs[i].used ELSE 0] = used
  <2>1. Replayed!Executed(B) = 1 .. Size(b, k)
    BY <1>2, AllExecuted
  <2> QED BY <1>2, <1>3, <2>1
<1>5. Replayed!GasUpTo(B, j - 1) = Total(used)
  BY <1>4, SameOperators DEF Replayed!GasUpTo
<1>6. Total(used) \in Nat
  <2>1. \A i \in 1 .. j - 1 : Shape(b, k)[i].used \in Nat
    BY <1>2, <1>3
  <2> DEFINE f == [i \in 1 .. j - 1 |-> Shape(b, k)[i].used]
  <2>2. \A i \in 1 .. j - 1 : f[i] \in Nat
    BY <2>1
  <2>3. [i \in 1 .. j - 1 |-> f[i]] = used /\ j - 1 \in 0 .. j - 1
    BY <1>3
  <2> HIDE DEF f
  <2>4. Total([i \in 1 .. j - 1 |-> f[i]]) \in Nat
    BY <1>3, <2>2, <2>3, TotalNat
  <2> QED BY <2>3, <2>4
<1>7. ~(Total(used) + Shape(b, k)[j].gas > GasLimit)
  BY <1>1 DEF Overfull
<1> HIDE DEF used
<1>8. B.txs[j].gas \in Nat /\ Shape(b, k)[j].gas = B.txs[j].gas /\ GasLimit \in Nat
  BY <1>2, FixtureAssumption
<1> QED BY <1>2, <1>5, <1>6, <1>7, <1>8

\* A transaction has what executing it where it stands asks for.
LEMMA TxFits ==
    ASSUME NEW n \in Nat, NEW k \in Nat, NEW B, B = BlockOf(n, k), NEW i \in 1 .. Size(n, k)
    PROVE  /\ B.txs[i].from = Sender /\ B.txs[i].signed /\ B.txs[i].funded
           /\ B.txs[i].nonce = TxsBefore(n, k) + i - 1
<1> DEFINE t == B.txs[i]
<1> HIDE DEF t
<1>1. t = B.txs[i]
  BY DEF t
<1>2. t.from = Sender /\ t.signed /\ t.funded /\ t.nonce = TxsBefore(n, k) + i - 1
  BY <1>1, TxIs
<1> QED BY <1>1, <1>2

\* For any flags, any number of runs on the directory and any gas limit that
\* takes a transfer: every whole block beside a valid manifest, left by the
\* same run or not, follows the one before and executes from the manifest's
\* state, without the generator ever executing it (main.go:182-255, 488-503).
THEOREM StreamExecutesCorrect == Spec => []StreamExecutes
<1>1. TypeOK /\ Sound /\ Fitting => StreamExecutes
  <2> SUFFICES ASSUME TypeOK, Sound, Fitting, LoadManifest(manifest), file # Missing,
                      NEW n \in manifest.root.rewards + 1 .. Len(Stream)
               PROVE  /\ Stream[n].number = n
                      /\ Replayed!Executed(Stream[n]) = DOMAIN Stream[n].txs
                      /\ Replayed!Executable(n)
    BY DEF StreamExecutes
  <2>1. /\ file \in BlocksFile /\ file.n \in Nat /\ file.per \in Nat
        /\ FromBlock \in Nat /\ FromBlock >= 1
    BY Numbers DEF TypeOK, BlocksFile
  <2>2. manifest.root.rewards = FromBlock
    BY DEF LoadManifest, Fitting
  <2>3. Stream = [b \in 1 .. FromBlock + file.n |-> BlockOf(b, file.per)]
    BY <2>1, <2>2, StreamIs
  <2>4. n \in Nat /\ n > FromBlock /\ n <= FromBlock + file.n /\ file.n > 0
    <3>1. Len(Stream) = FromBlock + file.n
      BY <2>1, <2>3
    <3> QED BY <2>1, <2>2, <3>1
  <2> DEFINE B == Stream[n]
  <2>5. B = BlockOf(n, file.per)
    BY <2>1, <2>3, <2>4
  <2>6. ~Overfull(n, file.per)
    BY <2>1, <2>4, SameShape DEF Fitting
  <2> HIDE DEF B
  <2>7. B.number = n /\ Replayed!Executed(B) = DOMAIN B.txs
    BY <2>1, <2>4, <2>5, BlockIs, AllExecuted
  <2>9. /\ n \in Nat /\ file.per \in Nat /\ B = BlockOf(n, file.per)
        /\ DOMAIN B.txs = 1 .. Size(n, file.per)
    <3>1. n \in Nat /\ file.per \in Nat /\ B = BlockOf(n, file.per)
      BY <2>1, <2>4, <2>5
    <3> QED BY <3>1, BlockIs
  <2>8. ASSUME NEW i \in Replayed!Executed(B)
        PROVE  Replayed!Acceptable(B.txs[i],
                   Replayed!SentBefore(n - 1, B.txs[i].from)
                     + Replayed!SentUpTo(B, i - 1, B.txs[i].from),
                   B.limit - Replayed!GasUpTo(B, i - 1))
    <3>1. /\ i \in 1 .. Size(n, file.per) /\ B.txs[i].from = Sender
          /\ B.txs[i].signed /\ B.txs[i].funded
          /\ B.txs[i].nonce = TxsBefore(n, file.per) + i - 1
      <4>1. i \in 1 .. Size(n, file.per)
        BY <2>7, <2>9
      <4> QED BY <2>9, <4>1, TxFits
    <3>2. Size(n, file.per) \in Nat /\ i \in Nat /\ i - 1 \in 0 .. Size(n, file.per)
      <4>1. Size(n, file.per) \in Nat
        BY <2>1, <2>4, ShapeIs
      <4> QED BY <3>1, <4>1
    <3>3. Replayed!SentUpTo(B, i - 1, Sender) = i - 1
      BY <2>1, <2>4, <2>5, <3>2, AllSentHere
    <3>4. Replayed!SentBefore(n - 1, Sender) = TxsBefore(n, file.per)
      <4>1. n - 1 \in 0 .. FromBlock + file.n /\ n - 1 + 1 = n
        BY <2>1, <2>4
      <4> QED BY <2>1, <2>2, <4>1, SentAlong
    <3>5. B.txs[i].gas <= B.limit - Replayed!GasUpTo(B, i - 1)
      BY <2>1, <2>4, <2>5, <2>6, <3>1, GasLeft
    <3>6. B.txs[i].nonce = TxsBefore(n, file.per) + (i - 1)
      <4>1. n - 1 \in Nat /\ n - 1 + 1 = n /\ i \in Nat
        BY <2>1, <2>4, <3>2
      <4>2. TxsBefore(n, file.per) \in Nat
        BY <2>1, <4>1, TxsNext
      <4> QED BY <3>1, <4>1, <4>2
    <3> QED BY <3>1, <3>3, <3>4, <3>5, <3>6, SameOperators DEF Acceptable
  <2> QED BY <2>7, <2>8 DEF Replayed!Executable, B
<1> QED BY <1>1, FittingInvariant, PTL

=============================================================================
