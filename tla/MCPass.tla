------------------------------- MODULE MCPass -------------------------------
(***************************************************************************)
(* Corpora for Pass: every stream of up to two blocks of up to two         *)
(* transactions from a palette that has one transaction of each kind the   *)
(* code tells apart, streams of three short blocks, streams that break off *)
(* at a malformed item, and manifests that do not fit.                     *)
(***************************************************************************)
EXTENDS Pass


MCAccounts == {"validator", "user"}
MCSystemContracts == {"0x1000"}
MCOtherAddresses == {"erc20"}

User(nonce) ==
    [from |-> "user", to |-> "erc20", price |-> 1, nonce |-> nonce, gas |-> 2,
     used |-> 1, ok |-> TRUE, ops |-> 1, signed |-> TRUE, funded |-> TRUE]
UserReverts == [User(0) EXCEPT !.ok = FALSE, !.used = 2]
UserDelegates == [User(0) EXCEPT !.to = "0x1000", !.price = 0]
\* A system transaction buys far more gas than a block has.
Deposit == [User(0) EXCEPT !.from = "validator", !.to = "0x1000", !.price = 0, !.gas = 60]
ValidatorPays(nonce) == [User(nonce) EXCEPT !.from = "validator"]
ValidatorCreates == [User(0) EXCEPT !.from = "validator", !.to = Create, !.price = 0]
Unsigned == [Deposit EXCEPT !.signed = FALSE]
Greedy == [User(0) EXCEPT !.gas = 5]

Palette == {User(0), User(1), UserReverts, UserDelegates, Deposit,
            ValidatorPays(0), ValidatorPays(1), ValidatorCreates, Unsigned, Greedy}

BlockOf(n, txs) == [number |-> n, coinbase |-> "validator", limit |-> 4, txs |-> txs]

UpTo(n, S) == UNION {[1 .. k -> S] : k \in 0 .. n}

Good(items) == [rootKnown |-> TRUE, chainID |-> 56, readable |-> TRUE, items |-> items]

OneBlock == {Good(<<BlockOf(7, a)>>) : a \in UpTo(2, Palette)}
TwoBlocks == {Good(<<BlockOf(7, a), BlockOf(8, b)>>) : a \in UpTo(2, Palette),
                                                       b \in UpTo(1, Palette)}
ThreeBlocks == {Good(<<BlockOf(7, a), BlockOf(8, b), BlockOf(9, c)>>) :
                  a \in UpTo(1, Palette), b \in UpTo(1, {User(0), User(1), Deposit}),
                  c \in UpTo(1, {User(1), ValidatorPays(1)})}
Broken == {Good(<<Malformed>>), Good(<<BlockOf(7, <<User(0)>>), Malformed>>)}
Mismatched ==
    LET c == Good(<<BlockOf(7, <<User(0)>>)>>) IN
    {[c EXCEPT !.rootKnown = FALSE], [c EXCEPT !.chainID = 1], [c EXCEPT !.readable = FALSE]}

Varied == OneBlock \cup TwoBlocks \cup ThreeBlocks \cup Broken \cup Mismatched

\* Two blocks that execute, for the questions about time, and about bytes.
TwoFrom(n) == {Good(<<BlockOf(n, <<User(0)>>), BlockOf(n + 1, <<User(1)>>)>>)}
Timed == TwoFrom(7)
Counted == TwoFrom(17)

MCCorpora == Varied \cup Timed \cup Counted

\* The clocks run over one corpus and bytes are read over another: what the
\* pass does depends on neither, nor they on each other.
MCNext ==
    /\ Next
    /\ corpus \in Timed \/ UNCHANGED time
    /\ corpus \in Counted \/ UNCHANGED dbRead
MCSpec == Init /\ [][MCNext]_vars /\ WF_vars(Step)
=============================================================================
