--------------------------- MODULE FixtureStream ---------------------------
(***************************************************************************)
(* A fixture as a pass sees it: what blocks.rlp decodes to, executed block *)
(* by block from the state the manifest names.                             *)
(***************************************************************************)
EXTENDS Fixture

\* The stream from the first rewarded block on: the blocks that have led to
\* the manifest's state, and those of the file.
Stream ==
    [b \in 1 .. manifest.root.rewards |-> BlockOf(b, file.per)] \o Decoded(Items(file))

Replayed == INSTANCE BlockReplay
    WITH Corpora <- {}, measured <- TRUE, ctxErr <- FALSE, applied <- 0, gas <- 0,
         summaries <- << >>, outcome <- "running",
         corpus <- [rootKnown |-> TRUE, chainID |-> 97, readable |-> TRUE, items |-> Stream]

\* Every whole block that is ever found in the file beside a valid manifest,
\* of the same run or not, is the successor of the block before and executes
\* from the manifest's state, no transaction being taken for the system's.
\* validate decodes blocks and never executes one (main.go:488-503).
StreamExecutes ==
    LoadManifest(manifest) /\ file # Missing =>
        \A n \in manifest.root.rewards + 1 .. Len(Stream) :
            /\ Stream[n].number = n
            /\ Replayed!Executed(Stream[n]) = DOMAIN Stream[n].txs
            /\ Replayed!Executable(n)

=============================================================================
