------------------------------- MODULE Chain -------------------------------
(***************************************************************************)
(* What a replayed block is made of, and the decisions the program takes   *)
(* about one transaction (internal/chain/apply_block.go, config.go).       *)
(*                                                                         *)
(* A corpus is what LoadManifest and OpenBlockIter offer to a pass: does   *)
(* the state database hold the manifest's root, which chain is it, does    *)
(* the block file open, and the items the RLP stream decodes to.           *)
(***************************************************************************)
EXTENDS Naturals, FiniteSets, SequencesExt

CONSTANTS
    Accounts,         \* senders and coinbases
    SystemContracts,  \* the addresses in systemContractAddresses
    OtherAddresses,   \* any other callee
    Create,           \* tx.To() of a contract creation: nil
    Malformed         \* a stream item that is not an RLP block

KnownChains == {56, 97}

TxFields ==
    [from: Accounts, to: SystemContracts \cup OtherAddresses \cup {Create},
     price: Nat,       \* tx.GasPrice()
     nonce: Nat,
     gas: Nat,         \* the gas limit the sender bought
     used: Nat,        \* the gas its execution takes
     ok: BOOLEAN,      \* receipt.Status, FALSE when reverted
     ops: Nat,         \* state operations its execution performs
     signed: BOOLEAN,  \* does types.Sender succeed?
     funded: BOOLEAN]  \* can the sender pay, and does gas cover the intrinsic gas?

\* The EVM stops at the gas limit.
Tx == {t \in TxFields : t.used <= t.gas}

Block == [number: Nat, coinbase: Accounts, limit: Nat, txs: Seq(Tx)]

Corpus == [rootKnown: BOOLEAN, chainID: Nat, readable: BOOLEAN,
           items: Seq(Block \cup {Malformed})]

-----------------------------------------------------------------------------

\* isSystemTx: Parlia's three conditions.  A creation has no callee, and a
\* transaction whose signature does not recover is left to ApplyTransaction.
IsSystemTx(tx, coinbase) ==
    /\ tx.to # Create
    /\ tx.to \in SystemContracts
    /\ tx.price = 0
    /\ tx.signed
    /\ tx.from = coinbase

\* core.ApplyTransaction's own conditions: it accepts a transaction with a
\* valid signature, the sender's next nonce, enough balance, and a gas limit
\* that fits in what the block's gas pool has left.
Acceptable(tx, nonce, pool) ==
    /\ tx.signed
    /\ tx.nonce = nonce
    /\ tx.funded
    /\ tx.gas <= pool

=============================================================================
