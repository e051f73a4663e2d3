-------------------------- MODULE PassReplayProofs --------------------------
(***************************************************************************)
(* Pass implements BlockReplay: whatever the corpus, whenever the user     *)
(* interrupts, and whatever the clocks and the database do meanwhile,      *)
(* every step of the pass is a step of the block-by-block replay or none.  *)
(* And Geth refuses a transaction the loop hands to it only for a reason   *)
(* the corpus, or a transaction the loop has skipped, gives it.            *)
(***************************************************************************)
EXTENDS PassProofs

-----------------------------------------------------------------------------
(* What the first transactions of a block use, do and send.                *)

\* The operators both modules have from Chain and Sums are the same.
LEMMA SameOperators ==
    /\ \A s : Promise!Total(s) = Total(s)
    /\ \A S : Promise!Cardinality(S) = Cardinality(S)
    /\ \A t, c : Promise!IsSystemTx(t, c) <=> IsSystemTx(t, c)
    /\ \A t, n, p : Promise!Acceptable(t, n, p) <=> Acceptable(t, n, p)
    /\ Promise!KnownChains = KnownChains
<1>1. \A s : Promise!Total(s) = Total(s)
  BY DEF Promise!Total, Total, Promise!FoldLeft, FoldLeft, Promise!MapThenFoldSet,
     MapThenFoldSet, Promise!Max, Max
<1>2. \A S : Promise!Cardinality(S) = Cardinality(S)
  BY DEF Promise!Cardinality, Cardinality
<1>3. \A t, c : Promise!IsSystemTx(t, c) <=> IsSystemTx(t, c)
  BY DEF Promise!IsSystemTx, IsSystemTx
<1>4. \A t, n, p : Promise!Acceptable(t, n, p) <=> Acceptable(t, n, p)
  BY DEF Promise!Acceptable, Acceptable
<1>5. Promise!KnownChains = KnownChains
  BY DEF Promise!KnownChains, KnownChains
<1> QED BY <1>1, <1>2, <1>3, <1>4, <1>5

LEMMA ExecutedType ==
    ASSUME NEW b \in Block
    PROVE  /\ b.txs \in Seq(Tx) /\ Len(b.txs) \in Nat /\ b.limit \in Nat
           /\ Promise!Executed(b) \subseteq 1 .. Len(b.txs)
           /\ \A i \in 1 .. Len(b.txs) :
                 b.txs[i].used \in Nat /\ b.txs[i].ops \in Nat /\ b.txs[i].from \in Accounts
<1>1. b.txs \in Seq(Tx) /\ b.limit \in Nat
  BY DEF Block
<1>2. \A t \in Tx : t.used \in Nat /\ t.ops \in Nat /\ t.from \in Accounts
  BY DEF Tx, TxFields
<1> QED BY <1>1, <1>2 DEF Promise!Executed

LEMMA NothingYet ==
    ASSUME NEW b \in Block
    PROVE  /\ Promise!GasUpTo(b, 0) = 0 /\ Promise!OpsUpTo(b, 0) = 0
           /\ {i \in Promise!Executed(b) : i <= 0} = {}
           /\ \A a \in Accounts : Promise!SentUpTo(b, 0, a) = 0
<1>1. \A i \in Promise!Executed(b) : ~(i <= 0)
  BY ExecutedType
<1>2. Promise!GasUpTo(b, 0) = 0
  <2>1. [i \in 1 .. 0 |-> IF i \in Promise!Executed(b) THEN b.txs[i].used ELSE 0] = << >>
    OBVIOUS
  <2> QED BY <2>1, TotalEmpty, SameOperators DEF Promise!GasUpTo
<1>3. Promise!OpsUpTo(b, 0) = 0
  <2>1. [i \in 1 .. 0 |-> IF i \in Promise!Executed(b) THEN b.txs[i].ops ELSE 0] = << >>
    OBVIOUS
  <2> QED BY <2>1, TotalEmpty, SameOperators DEF Promise!OpsUpTo
<1>4. ASSUME NEW a \in Accounts PROVE Promise!SentUpTo(b, 0, a) = 0
  <2>1. {i \in Promise!Executed(b) : i <= 0 /\ b.txs[i].from = a} = {}
    BY <1>1
  <2> QED BY <2>1, FS_EmptySet, SameOperators DEF Promise!SentUpTo
<1> QED BY <1>1, <1>2, <1>3, <1>4

LEMMA UpToNext ==
    ASSUME NEW b \in Block, NEW k \in Nat, k < Len(b.txs)
    PROVE  /\ Promise!GasUpTo(b, k + 1) = Promise!GasUpTo(b, k)
                 + (IF k + 1 \in Promise!Executed(b) THEN b.txs[k + 1].used ELSE 0)
           /\ Promise!OpsUpTo(b, k + 1) = Promise!OpsUpTo(b, k)
                 + (IF k + 1 \in Promise!Executed(b) THEN b.txs[k + 1].ops ELSE 0)
<1> DEFINE g == [i \in 1 .. (k + 1) |-> IF i \in Promise!Executed(b) THEN b.txs[i].used ELSE 0]
           o == [i \in 1 .. (k + 1) |-> IF i \in Promise!Executed(b) THEN b.txs[i].ops ELSE 0]
<1>1. \A i \in 1 .. (k + 1) : g[i] \in Int /\ o[i] \in Int
  BY ExecutedType
<1>2. /\ g = [i \in 1 .. (k + 1) |-> g[i]] /\ o = [i \in 1 .. (k + 1) |-> o[i]]
      /\ [i \in 1 .. k |-> IF i \in Promise!Executed(b) THEN b.txs[i].used ELSE 0]
           = [i \in 1 .. k |-> g[i]]
      /\ [i \in 1 .. k |-> IF i \in Promise!Executed(b) THEN b.txs[i].ops ELSE 0]
           = [i \in 1 .. k |-> o[i]]
  OBVIOUS
<1>3. /\ g[k + 1] = IF k + 1 \in Promise!Executed(b) THEN b.txs[k + 1].used ELSE 0
      /\ o[k + 1] = IF k + 1 \in Promise!Executed(b) THEN b.txs[k + 1].ops ELSE 0
  OBVIOUS
<1>4. /\ Promise!GasUpTo(b, k + 1) = Total(g) /\ Promise!OpsUpTo(b, k + 1) = Total(o)
      /\ Promise!GasUpTo(b, k) = Total([i \in 1 .. k |-> g[i]])
      /\ Promise!OpsUpTo(b, k) = Total([i \in 1 .. k |-> o[i]])
  BY <1>2, SameOperators DEF Promise!GasUpTo, Promise!OpsUpTo
<1> HIDE DEF g, o
<1>5. Total(g) = Total([i \in 1 .. k |-> g[i]]) + g[k + 1]
      /\ Total(o) = Total([i \in 1 .. k |-> o[i]]) + o[k + 1]
  BY <1>1, <1>2, TotalNext
<1> QED BY <1>3, <1>4, <1>5

\* How many of the places up to k are in both E and P.
UpTo(E, P, k) == Cardinality({i \in E : i <= k /\ i \in P})

LEMMA CountNext ==
    ASSUME NEW n \in Nat, NEW E \in SUBSET (1 .. n), NEW k \in Nat, NEW P
    PROVE  /\ UpTo(E, P, k) \in Nat
           /\ UpTo(E, P, k + 1)
                = UpTo(E, P, k) + (IF k + 1 \in E /\ k + 1 \in P THEN 1 ELSE 0)
<1> DEFINE C(m) == {i \in E : i <= m /\ i \in P}
<1>1. IsFiniteSet(C(k))
  <2>1. C(k) \subseteq 1 .. n
    OBVIOUS
  <2>2. IsFiniteSet(1 .. n)
    BY FS_Interval
  <2> QED BY <2>1, <2>2, FS_Subset
<1>2. \A i \in E : i <= k + 1 <=> (i <= k \/ i = k + 1)
  OBVIOUS
<1>3. k + 1 \notin C(k)
  OBVIOUS
<1>4. CASE k + 1 \in E /\ k + 1 \in P
  <2>1. C(k + 1) = C(k) \cup {k + 1}
    BY <1>2, <1>4
  <2> HIDE DEF C
  <2>2. Cardinality(C(k) \cup {k + 1}) = Cardinality(C(k)) + 1
    BY <1>1, <1>3, FS_AddElement
  <2>3. Cardinality(C(k)) \in Nat
    BY <1>1, FS_CardinalityType
  <2>4. Cardinality(C(k + 1)) = Cardinality(C(k)) + 1
    BY <2>1, <2>2
  <2> QED BY <1>4, <2>3, <2>4 DEF C, UpTo
<1>5. CASE ~(k + 1 \in E /\ k + 1 \in P)
  <2>1. C(k + 1) \subseteq C(k) /\ C(k) \subseteq C(k + 1)
    BY <1>2, <1>5
  <2> HIDE DEF C
  <2>2. C(k + 1) = C(k)
    BY <2>1
  <2>3. Cardinality(C(k)) \in Nat
    BY <1>1, FS_CardinalityType
  <2>4. Cardinality(C(k + 1)) = Cardinality(C(k)) + 0
    BY <2>2, <2>3
  <2> QED BY <1>5, <2>3, <2>4 DEF C, UpTo
<1> QED BY <1>4, <1>5
-----------------------------------------------------------------------------
(* One transaction, one block more.                                        *)

LEMMA SentNext ==
    ASSUME NEW b \in Block, NEW k \in Nat, NEW a \in Accounts
    PROVE  /\ Promise!SentUpTo(b, k, a) \in Nat
           /\ Promise!SentUpTo(b, k + 1, a) = Promise!SentUpTo(b, k, a)
                + (IF k + 1 \in Promise!Executed(b) /\ b.txs[k + 1].from = a THEN 1 ELSE 0)
<1> DEFINE E == Promise!Executed(b)
           P == {i \in 1 .. Len(b.txs) : b.txs[i].from = a}
<1>1. E \in SUBSET (1 .. Len(b.txs)) /\ Len(b.txs) \in Nat
  BY ExecutedType
<1>2. ASSUME NEW m \in Nat
      PROVE  Promise!SentUpTo(b, m, a) = UpTo(E, P, m)
  <2>1. {i \in E : i <= m /\ b.txs[i].from = a} = {i \in E : i <= m /\ i \in P}
    BY <1>1
  <2> QED BY <2>1, SameOperators DEF Promise!SentUpTo, UpTo
<1>3. k + 1 \in E => (k + 1 \in P <=> b.txs[k + 1].from = a)
  BY <1>1
<1> HIDE DEF E, P
<1>4. /\ UpTo(E, P, k) \in Nat
      /\ UpTo(E, P, k + 1) = UpTo(E, P, k) + (IF k + 1 \in E /\ k + 1 \in P THEN 1 ELSE 0)
  BY <1>1, CountNext
<1>5. k + 1 \in Nat
  OBVIOUS
<1> QED BY <1>2, <1>3, <1>4, <1>5 DEF E

\* The receipts of the first k transactions, and those that reverted.
ReceiptsUpTo(b, k) == Cardinality({i \in Promise!Executed(b) : i <= k})
RevertsUpTo(b, k) == Cardinality({i \in Promise!Executed(b) : i <= k /\ ~b.txs[i].ok})

LEMMA ReceiptsNext ==
    ASSUME NEW b \in Block, NEW k \in Nat
    PROVE  /\ ReceiptsUpTo(b, k) \in Nat /\ RevertsUpTo(b, k) \in Nat
           /\ ReceiptsUpTo(b, k + 1) = ReceiptsUpTo(b, k)
                + (IF k + 1 \in Promise!Executed(b) THEN 1 ELSE 0)
           /\ RevertsUpTo(b, k + 1) = RevertsUpTo(b, k)
                + (IF k + 1 \in Promise!Executed(b) /\ ~b.txs[k + 1].ok THEN 1 ELSE 0)
<1> DEFINE E == Promise!Executed(b)
           P == {i \in 1 .. Len(b.txs) : ~b.txs[i].ok}
<1>1. E \in SUBSET (1 .. Len(b.txs)) /\ Len(b.txs) \in Nat
  BY ExecutedType
<1>2. ASSUME NEW m \in Nat
      PROVE  ReceiptsUpTo(b, m) = UpTo(E, E, m) /\ RevertsUpTo(b, m) = UpTo(E, P, m)
  <2>1. /\ {i \in E : i <= m} = {i \in E : i <= m /\ i \in E}
        /\ {i \in E : i <= m /\ ~b.txs[i].ok} = {i \in E : i <= m /\ i \in P}
    BY <1>1
  <2> QED BY <2>1 DEF ReceiptsUpTo, RevertsUpTo, UpTo
<1>3. k + 1 \in E => (k + 1 \in P <=> ~b.txs[k + 1].ok)
  BY <1>1
<1>4. k + 1 \in Nat
  OBVIOUS
<1> HIDE DEF E, P
<1>5. /\ UpTo(E, P, k) \in Nat
      /\ UpTo(E, P, k + 1) = UpTo(E, P, k) + (IF k + 1 \in E /\ k + 1 \in P THEN 1 ELSE 0)
  BY <1>1, CountNext
<1>6. /\ UpTo(E, E, k) \in Nat
      /\ UpTo(E, E, k + 1) = UpTo(E, E, k) + (IF k + 1 \in E /\ k + 1 \in E THEN 1 ELSE 0)
  BY <1>1, CountNext
<1> QED BY <1>2, <1>3, <1>4, <1>5, <1>6 DEF E

FailedIn(r) == Cardinality({i \in DOMAIN r : ~r[i]})

LEMMA FailedAppend ==
    ASSUME NEW r \in Seq(BOOLEAN), NEW o \in BOOLEAN
    PROVE  /\ FailedIn(r) \in Nat
           /\ FailedIn(Append(r, o)) = FailedIn(r) + (IF o THEN 0 ELSE 1)
<1> DEFINE n == Len(r)
           s == Append(r, o)
           E == {i \in DOMAIN s : ~s[i]}
<1>1. n \in Nat /\ DOMAIN r = 1 .. n /\ DOMAIN s = 1 .. (n + 1) /\ s[n + 1] = o
      /\ \A i \in 1 .. n : s[i] = r[i]
  OBVIOUS
<1>2. E \in SUBSET (1 .. (n + 1)) /\ n + 1 \in Nat
  BY <1>1
<1>3. FailedIn(r) = UpTo(E, E, n)
  <2>1. {i \in DOMAIN r : ~r[i]} = {i \in E : i <= n /\ i \in E}
    BY <1>1
  <2> QED BY <2>1 DEF FailedIn, UpTo
<1>4. FailedIn(s) = UpTo(E, E, n + 1)
  <2>1. E = {i \in E : i <= n + 1 /\ i \in E}
    BY <1>1
  <2> QED BY <2>1 DEF FailedIn, UpTo
<1>5. n + 1 \in E <=> ~o
  BY <1>1
<1> HIDE DEF E, n
<1>6. /\ UpTo(E, E, n) \in Nat
      /\ UpTo(E, E, n + 1) = UpTo(E, E, n) + (IF n + 1 \in E /\ n + 1 \in E THEN 1 ELSE 0)
  <2>1. n \in Nat
    BY <1>1
  <2>2. n + 1 \in Nat /\ E \in SUBSET (1 .. (n + 1))
    BY <1>2
  <2> QED BY <2>1, <2>2, CountNext
<1> QED BY <1>3, <1>4, <1>5, <1>6

\* The blocks before this one, and this one.
LEMMA SentBeforeNext ==
    ASSUME IInv, NEW n \in Nat, n < Len(corpus.items),
           \A c \in 1 .. (n + 1) : corpus.items[c] # Malformed, NEW a \in Accounts
    PROVE  /\ Promise!SentBefore(n + 1, a) = Promise!SentBefore(n, a)
                + Promise!SentUpTo(corpus.items[n + 1], Len(corpus.items[n + 1].txs), a)
           /\ corpus.items[n + 1] \in Block
<1> DEFINE f == [c \in 1 .. (n + 1) |->
                    Promise!SentUpTo(corpus.items[c], Len(corpus.items[c].txs), a)]
<1>1. ASSUME NEW c \in 1 .. (n + 1) PROVE corpus.items[c] \in Block /\ f[c] \in Int
  <2>1. c \in 1 .. Len(corpus.items) /\ corpus.items \in Seq(Block \cup {Malformed})
    BY CorpusType DEF IInv
  <2>2. corpus.items[c] \in Block
    BY <2>1
  <2>3. Len(corpus.items[c].txs) \in Nat
    BY <2>2, ExecutedType
  <2>4. Promise!SentUpTo(corpus.items[c], Len(corpus.items[c].txs), a) \in Nat
    BY <2>2, <2>3, SentNext
  <2> QED BY <2>2, <2>4
<1>2. /\ f = [c \in 1 .. (n + 1) |-> f[c]]
      /\ [c \in 1 .. n |-> Promise!SentUpTo(corpus.items[c], Len(corpus.items[c].txs), a)]
           = [c \in 1 .. n |-> f[c]]
      /\ f[n + 1] = Promise!SentUpTo(corpus.items[n + 1], Len(corpus.items[n + 1].txs), a)
      /\ n + 1 \in 1 .. (n + 1)
  OBVIOUS
<1>3. Promise!SentBefore(n + 1, a) = Total(f)
      /\ Promise!SentBefore(n, a) = Total([c \in 1 .. n |-> f[c]])
  BY <1>2, SameOperators DEF Promise!SentBefore
<1> HIDE DEF f
<1>4. Total(f) = Total([c \in 1 .. n |-> f[c]]) + f[n + 1]
  BY <1>1, <1>2, TotalNext
<1> QED BY <1>1, <1>2, <1>3, <1>4

-----------------------------------------------------------------------------
(* The invariant: the pass is where the replay would be.                   *)

\* Transaction i of the block is acceptable where it stands.
Fits(i) ==
    LET a == blk.txs[i].from IN
    Acceptable(blk.txs[i],
               Promise!SentBefore(count - 1, a) + Promise!SentUpTo(blk, i - 1, a),
               blk.limit - Promise!GasUpTo(blk, i - 1))

\* The nonces are those of the blocks and transactions executed so far.
NoncesFollow ==
    \A a \in Accounts :
        /\ pc \in {"state", "config", "iter", "setup", "check", "next"} =>
              nonces[a] = Promise!SentBefore(count, a)
        /\ pc = "begin" => nonces[a] = Promise!SentBefore(count - 1, a)
        /\ pc \in {"txs", "commit", "record"} =>
              nonces[a] = Promise!SentBefore(count - 1, a) + Promise!SentUpTo(blk, txi, a)

\* Inside a block the pool and the counters are those of the transactions
\* executed so far, each of which was acceptable.
BlockFollows ==
    pc \in {"txs", "commit", "record"} =>
        /\ usedGas = Promise!GasUpTo(blk, txi)
        /\ pool = blk.limit - usedGas
        /\ measured => ops = Promise!OpsUpTo(blk, txi)
        /\ Len(receipts) = ReceiptsUpTo(blk, txi)
        /\ Reverted = RevertsUpTo(blk, txi)
        /\ \A i \in Promise!Executed(blk) : i <= txi => Fits(i)
        /\ pc # "txs" => txi = Len(blk.txs)

\* What has been opened and decoded was usable.
Opened ==
    /\ pc \notin {"state", "returned"} => corpus.rootKnown
    /\ pc \notin {"state", "config", "returned"} => corpus.chainID \in KnownChains
    /\ pc \notin {"state", "config", "iter", "returned"} => corpus.readable
    /\ \A c \in 1 .. count : corpus.items[c] # Malformed

Follows == Opened /\ NoncesFollow /\ BlockFollows

\* Before the first block nobody has sent anything.
LEMMA SentBeforeNone ==
    ASSUME NEW a PROVE Promise!SentBefore(0, a) = 0
<1>1. [c \in 1 .. 0 |-> Promise!SentUpTo(corpus.items[c], Len(corpus.items[c].txs), a)]
        = << >>
  OBVIOUS
<1> QED BY <1>1, TotalEmpty, SameOperators DEF Promise!SentBefore

\* Sums of counts are numbers, whatever a stream of whole blocks contains.
LEMMA SentBeforeType ==
    ASSUME IInv, Opened, NEW a \in Accounts
    PROVE  \A n \in 0 .. count : Promise!SentBefore(n, a) \in Nat
<1> DEFINE Bad == {n \in 0 .. count : Promise!SentBefore(n, a) \notin Nat}
<1>0. count \in Nat /\ Len(corpus.items) \in Nat /\ count <= Len(corpus.items)
  BY CorpusType DEF IInv, TypeOK
<1>1. SUFFICES ASSUME Bad # {} PROVE FALSE
  OBVIOUS
<1>2. PICK m \in Bad : \A k \in Bad : m <= k
  <2>1. Bad \subseteq Nat
    BY <1>0
  <2> QED BY <1>1, <2>1, LeastOfSet
<1>3. CASE m = 0
  BY <1>3, SentBeforeNone
<1>4. CASE m # 0
  <2> DEFINE n == m - 1
  <2>1. n \in Nat /\ n \in 0 .. count /\ n < Len(corpus.items) /\ m = n + 1 /\ n \notin Bad
    BY <1>0, <1>2, <1>4
  <2>2. \A c \in 1 .. (n + 1) : corpus.items[c] # Malformed
    BY <1>0, <2>1 DEF Opened
  <2>3. Promise!SentBefore(n, a) \in Nat
    BY <2>1
  <2> HIDE DEF n
  <2>4. /\ Promise!SentBefore(n + 1, a) = Promise!SentBefore(n, a)
             + Promise!SentUpTo(corpus.items[n + 1], Len(corpus.items[n + 1].txs), a)
        /\ corpus.items[n + 1] \in Block
    BY <2>1, <2>2, SentBeforeNext
  <2>5. Promise!SentUpTo(corpus.items[n + 1], Len(corpus.items[n + 1].txs), a) \in Nat
    BY <2>4, ExecutedType, SentNext
  <2>6. Promise!SentBefore(m, a) \in Nat
    BY <2>1, <2>3, <2>4, <2>5
  <2> QED BY <2>6
<1> QED BY <1>3, <1>4

LEMMA SentStays ==
    ASSUME corpus' = corpus, NEW n, NEW a
    PROVE  Promise!SentBefore(n, a)' = Promise!SentBefore(n, a)
BY DEF Promise!SentBefore

LEMMA FollowsInit == Init => Follows
<1> SUFFICES ASSUME Init PROVE Follows
  OBVIOUS
<1> QED BY SentBeforeNone DEF Init, Follows, Opened, NoncesFollow, BlockFollows

Outside == {"state", "config", "iter", "setup", "check", "next"}

\* Between blocks a step leaves the nonces and the blocks as they are.
LEMMA OutsideStep ==
    ASSUME Follows, pc \in Outside, pc' \in Outside \cup {"returned"}, Opened',
           UNCHANGED <<corpus, count, nonces>>
    PROVE  Follows'
<1>1. BlockFollows'
  BY DEF Outside, BlockFollows
<1>2. NoncesFollow'
  <2>1. ASSUME NEW a \in Accounts
        PROVE  nonces[a] = Promise!SentBefore(count, a)
               /\ Promise!SentBefore(count, a)' = Promise!SentBefore(count, a)
    BY SentStays DEF Follows, NoncesFollow, Outside
  <2> QED BY <2>1 DEF NoncesFollow, Outside
<1> QED BY <1>1, <1>2 DEF Follows

\* A step that changes none of what the invariant is about.
LEMMA AsideStep ==
    ASSUME Follows, UNCHANGED <<pc, corpus, measured, count, nonces, block>>
    PROVE  Follows'
<1> USE DEF block
<1>1. BlockFollows'
  <2>1. \A i : Fits(i)' <=> Fits(i)
    BY SentStays DEF Fits, blk
  <2> QED BY <2>1 DEF Follows, BlockFollows, Reverted, blk
<1>2. NoncesFollow'
  <2>1. \A n, a : Promise!SentBefore(n, a)' = Promise!SentBefore(n, a)
    BY SentStays
  <2> QED BY <2>1 DEF Follows, NoncesFollow, blk
<1> QED BY <1>1, <1>2 DEF Follows, Opened

LEMMA FollowsOpen ==
    ASSUME IInv, Follows,
           OpenState \/ ResolveConfig \/ OpenIter \/ Setup \/ CheckContext \/ Finish
    PROVE  Follows'
<1>1. pc \in Outside /\ pc' \in Outside \cup {"returned"} /\ UNCHANGED <<corpus, count, nonces>>
  BY DEF OpenState, ResolveConfig, OpenIter, Setup, CheckContext, Finish, ReturnError, Outside
<1>2. Opened'
  BY <1>1 DEF Follows, Opened, OpenState, ResolveConfig, OpenIter, Setup, CheckContext, Finish,
     ReturnError
<1> QED BY <1>1, <1>2, OutsideStep

LEMMA FollowsNextBlock == ASSUME IInv, Follows, NextBlock PROVE Follows'
<1>0. /\ count \in Nat /\ Len(corpus.items) \in Nat /\ count < Len(corpus.items) /\ pc = "next"
      /\ UNCHANGED <<corpus, nonces>>
  BY CorpusType DEF IInv, TypeOK, NextBlock, AtEOF
<1>1. CASE corpus.items[count + 1] = Malformed
  <2>1. pc' = "returned" /\ count' = count
    BY <1>1 DEF NextBlock, ReturnError
  <2>2. Opened'
    BY <1>0, <2>1 DEF Follows, Opened
  <2> QED BY <1>0, <2>1, <2>2, OutsideStep DEF Outside
<1>2. CASE corpus.items[count + 1] # Malformed
  <2>1. pc' = "begin" /\ count' = count + 1
    BY <1>2 DEF NextBlock
  <2>2. Opened'
    <3>1. \A c \in 1 .. count' : corpus'.items[c] # Malformed
      BY <1>0, <1>2, <2>1 DEF Follows, Opened
    <3> QED BY <1>0, <2>1, <3>1 DEF Follows, Opened
  <2>3. NoncesFollow'
    <3>1. count' - 1 = count
      BY <1>0, <2>1
    <3>3. ASSUME NEW a \in Accounts
          PROVE  nonces'[a] = (Promise!SentBefore(count - 1, a))'
      <4>1. nonces[a] = Promise!SentBefore(count, a)
        BY <1>0 DEF Follows, NoncesFollow
      <4>2. (Promise!SentBefore(count - 1, a))' = Promise!SentBefore(count, a)
        BY <1>0, <3>1 DEF Promise!SentBefore
      <4> QED BY <1>0, <4>1, <4>2
    <3> QED BY <2>1, <3>3 DEF NoncesFollow
  <2>4. BlockFollows'
    BY <2>1 DEF BlockFollows
  <2> QED BY <2>2, <2>3, <2>4 DEF Follows
<1> QED BY <1>1, <1>2

LEMMA FollowsBegin == ASSUME IInv, Follows, BeginBlock PROVE Follows'
<1>1. /\ pc = "begin" /\ pc' = "txs" /\ txi' = 0 /\ pool' = blk.limit
      /\ receipts' = << >> /\ usedGas' = 0 /\ ops' = 0
      /\ UNCHANGED <<corpus, count, nonces, measured>>
  BY DEF BeginBlock, GasPool, setup
<1>2. blk \in Block /\ blk' = blk /\ blk.limit \in Nat
  BY <1>1, BlkType DEF IInv, blk, Block
<1>3. Opened'
  BY <1>1 DEF Follows, Opened
<1>4. NoncesFollow'
  <2>1. ASSUME NEW a \in Accounts
        PROVE  nonces[a] = (Promise!SentBefore(count - 1, a) + Promise!SentUpTo(blk, txi, a))'
    <3>1. nonces[a] = Promise!SentBefore(count - 1, a)
      BY <1>1 DEF Follows, NoncesFollow
    <3>2. (Promise!SentBefore(count - 1, a))' = Promise!SentBefore(count - 1, a)
      BY <1>1 DEF Promise!SentBefore
    <3>3. Promise!SentUpTo(blk, 0, a) = 0
      BY <1>2, NothingYet
    <3>4. nonces[a] \in Nat
      BY DEF IInv, TypeOK
    <3> QED BY <1>1, <1>2, <3>1, <3>2, <3>3, <3>4
  <2> QED BY <1>1, <2>1 DEF NoncesFollow
<1>5. BlockFollows'
  <2>1. {i \in Promise!Executed(blk) : i <= 0} = {}
    BY <1>2, NothingYet
  <2>2. {i \in Promise!Executed(blk) : i <= 0 /\ ~blk.txs[i].ok} = {}
    BY <2>1
  <2>3. Len(receipts') = ReceiptsUpTo(blk, 0)
    BY <1>1, <2>1, FS_EmptySet DEF ReceiptsUpTo
  <2>4. Reverted' = RevertsUpTo(blk, 0)
    <3>1. {i \in DOMAIN receipts' : ~receipts'[i]} = {}
      BY <1>1
    <3> QED BY <3>1, <2>2 DEF Reverted, RevertsUpTo
  <2>5. /\ usedGas' = Promise!GasUpTo(blk, 0) /\ ops' = Promise!OpsUpTo(blk, 0)
        /\ pool' = blk.limit - usedGas'
    BY <1>1, <1>2, NothingYet
  <2> QED BY <1>1, <1>2, <2>1, <2>3, <2>4, <2>5 DEF BlockFollows
<1> QED BY <1>3, <1>4, <1>5 DEF Follows

\* Where the transaction at hand stands in its block.
LEMMA AtHand ==
    ASSUME IInv, pc = "txs", MoreTxs
    PROVE  /\ blk \in Block /\ txi \in Nat /\ txi < Len(blk.txs) /\ tx = blk.txs[txi + 1]
           /\ tx.from \in Accounts /\ tx.used \in Nat /\ tx.ops \in Nat /\ tx.ok \in BOOLEAN
           /\ (txi + 1 \in Promise!Executed(blk) <=> ~IsSystemTx(tx, blk.coinbase))
           /\ txi + 1 \in Nat /\ (txi + 1) - 1 = txi
<1>1. blk \in Block /\ blk.txs \in Seq(Tx) /\ Len(blk.txs) \in Nat /\ txi \in Nat
      /\ txi < Len(blk.txs) /\ tx = blk.txs[txi + 1]
  BY BlkType DEF IInv, TypeOK, MoreTxs, tx
<1>2. txi + 1 \in DOMAIN blk.txs
  BY <1>1
<1>3. txi + 1 \in Promise!Executed(blk) <=> ~IsSystemTx(tx, blk.coinbase)
  BY <1>1, <1>2, SameOperators DEF Promise!Executed
<1> QED BY <1>1, <1>3, TxType DEF IInv

\* What stands still while a transaction is handled.
LEMMA SameBlock ==
    ASSUME UNCHANGED <<corpus, count>>
    PROVE  /\ blk' = blk
           /\ \A a : (Promise!SentBefore(count - 1, a))' = Promise!SentBefore(count - 1, a)
           /\ \A i : Fits(i)' <=> Fits(i)
<1>1. blk' = blk
  BY DEF blk
<1>2. \A a : (Promise!SentBefore(count - 1, a))' = Promise!SentBefore(count - 1, a)
  BY DEF Promise!SentBefore
<1> QED BY <1>1, <1>2 DEF Fits

LEMMA FollowsSkip == ASSUME IInv, Follows, SkipTx PROVE Follows'
<1>1. /\ pc = "txs" /\ pc' = "txs" /\ MoreTxs /\ txi' = txi + 1 /\ IsSystemTx(tx, blk.coinbase)
      /\ UNCHANGED <<corpus, count, nonces, measured, pool, receipts, usedGas, ops>>
  BY DEF SkipTx, setup
<1>2. blk \in Block /\ txi \in Nat /\ txi < Len(blk.txs) /\ txi + 1 \notin Promise!Executed(blk)
  BY <1>1, AtHand
<1>3. blk' = blk
  BY <1>1, SameBlock
<1>4. Opened'
  BY <1>1 DEF Follows, Opened
<1>5. NoncesFollow'
  <2>1. ASSUME NEW a \in Accounts
        PROVE  nonces[a] = (Promise!SentBefore(count - 1, a) + Promise!SentUpTo(blk, txi, a))'
    <3>1. nonces[a] = Promise!SentBefore(count - 1, a) + Promise!SentUpTo(blk, txi, a)
      BY <1>1 DEF Follows, NoncesFollow
    <3>2. Promise!SentUpTo(blk, txi + 1, a) = Promise!SentUpTo(blk, txi, a)
      BY <1>2, SentNext
    <3>3. (Promise!SentBefore(count - 1, a))' = Promise!SentBefore(count - 1, a)
      BY <1>1, SameBlock
    <3> QED BY <1>1, <1>3, <3>1, <3>2, <3>3
  <2> QED BY <1>1, <2>1 DEF NoncesFollow
<1>6. BlockFollows'
  <2>1. /\ Promise!GasUpTo(blk, txi + 1) = Promise!GasUpTo(blk, txi) + 0
        /\ Promise!OpsUpTo(blk, txi + 1) = Promise!OpsUpTo(blk, txi) + 0
    BY <1>2, UpToNext
  <2>2. /\ ReceiptsUpTo(blk, txi + 1) = ReceiptsUpTo(blk, txi)
        /\ RevertsUpTo(blk, txi + 1) = RevertsUpTo(blk, txi)
    <3>1. /\ ReceiptsUpTo(blk, txi) \in Nat /\ RevertsUpTo(blk, txi) \in Nat
          /\ ReceiptsUpTo(blk, txi + 1) = ReceiptsUpTo(blk, txi) + 0
          /\ RevertsUpTo(blk, txi + 1) = RevertsUpTo(blk, txi) + 0
      BY <1>2, ReceiptsNext
    <3> QED BY <3>1
  <2>3. \A i \in Promise!Executed(blk) : i <= txi + 1 => i <= txi
    BY <1>2, ExecutedType
  <2>4. /\ usedGas = Promise!GasUpTo(blk, txi) /\ usedGas \in Nat /\ ops \in Nat
        /\ pool = blk.limit - usedGas
        /\ measured => ops = Promise!OpsUpTo(blk, txi)
        /\ Len(receipts) = ReceiptsUpTo(blk, txi) /\ Reverted = RevertsUpTo(blk, txi)
        /\ \A i \in Promise!Executed(blk) : i <= txi => Fits(i)
    BY <1>1 DEF Follows, BlockFollows, IInv, TypeOK
  <2>5. Reverted' = Reverted
    BY <1>1 DEF Reverted
  <2>6. \A i \in Promise!Executed(blk) : i <= txi + 1 => Fits(i)'
    BY <1>1, <2>3, <2>4, SameBlock
  <2> QED BY <1>1, <1>3, <2>1, <2>2, <2>4, <2>5, <2>6 DEF BlockFollows
<1> QED BY <1>4, <1>5, <1>6 DEF Follows

LEMMA FollowsApply == ASSUME IInv, Follows, ApplyTx PROVE Follows'
<1>1. /\ pc = "txs" /\ pc' = "txs" /\ MoreTxs /\ txi' = txi + 1
      /\ ~IsSystemTx(tx, blk.coinbase) /\ Acceptable(tx, nonces[tx.from], pool)
      /\ nonces' = [nonces EXCEPT ![tx.from] = @ + 1]
      /\ pool' = pool - tx.used /\ usedGas' = usedGas + tx.used
      /\ receipts' = Append(receipts, tx.ok) /\ ops' = ops + CountedOps(tx.ops)
      /\ UNCHANGED <<corpus, count, measured>>
  BY DEF ApplyTx, setup
<1>2. /\ blk \in Block /\ txi \in Nat /\ txi < Len(blk.txs) /\ tx = blk.txs[txi + 1]
      /\ txi + 1 \in Promise!Executed(blk) /\ txi + 1 \in Nat /\ (txi + 1) - 1 = txi
      /\ tx.from \in Accounts /\ tx.used \in Nat /\ tx.ops \in Nat /\ tx.ok \in BOOLEAN
  BY <1>1, AtHand
<1>3. blk' = blk
  BY <1>1, SameBlock
<1>4. Opened'
  BY <1>1 DEF Follows, Opened
<1>5. NoncesFollow'
  <2>1. ASSUME NEW a \in Accounts
        PROVE  nonces'[a] = (Promise!SentBefore(count - 1, a) + Promise!SentUpTo(blk, txi, a))'
    <3>1. nonces[a] = Promise!SentBefore(count - 1, a) + Promise!SentUpTo(blk, txi, a)
      BY <1>1 DEF Follows, NoncesFollow
    <3>2. /\ Promise!SentUpTo(blk, txi, a) \in Nat
          /\ Promise!SentUpTo(blk, txi + 1, a)
               = Promise!SentUpTo(blk, txi, a) + (IF tx.from = a THEN 1 ELSE 0)
      BY <1>2, SentNext
    <3>3. (Promise!SentBefore(count - 1, a))' = Promise!SentBefore(count - 1, a)
      BY <1>1, SameBlock
    <3>4. nonces \in [Accounts -> Nat]
      BY DEF IInv, TypeOK
    <3>5. nonces'[a] = nonces[a] + (IF tx.from = a THEN 1 ELSE 0)
      BY <1>1, <1>2, <3>4
    <3>6. Promise!SentBefore(count - 1, a) \in Nat
      <4>1. count - 1 \in 0 .. count
        BY <1>1 DEF IInv, TypeOK, Inside
      <4> QED BY <4>1, SentBeforeType DEF Follows
    <3> QED BY <1>1, <1>3, <3>1, <3>2, <3>3, <3>5, <3>6
  <2> QED BY <1>1, <2>1 DEF NoncesFollow
<1>6. BlockFollows'
  <2>1. /\ Promise!GasUpTo(blk, txi + 1) = Promise!GasUpTo(blk, txi) + tx.used
        /\ Promise!OpsUpTo(blk, txi + 1) = Promise!OpsUpTo(blk, txi) + tx.ops
    BY <1>2, UpToNext
  <2>2. /\ ReceiptsUpTo(blk, txi + 1) = ReceiptsUpTo(blk, txi) + 1
        /\ RevertsUpTo(blk, txi + 1) = RevertsUpTo(blk, txi) + (IF tx.ok THEN 0 ELSE 1)
    BY <1>2, ReceiptsNext
  <2>3. \A i \in Promise!Executed(blk) : i <= txi + 1 => (i <= txi \/ i = txi + 1)
    BY <1>2, ExecutedType
  <2>4. /\ usedGas = Promise!GasUpTo(blk, txi) /\ usedGas \in Nat
        /\ pool = blk.limit - usedGas /\ blk.limit \in Nat
        /\ measured => ops = Promise!OpsUpTo(blk, txi)
        /\ Len(receipts) = ReceiptsUpTo(blk, txi) /\ Reverted = RevertsUpTo(blk, txi)
        /\ \A i \in Promise!Executed(blk) : i <= txi => Fits(i)
    BY <1>1, <1>2, ExecutedType DEF Follows, BlockFollows, IInv, TypeOK
  <2>5. Reverted' = RevertsUpTo(blk, txi + 1)
    <3>1. Reverted = FailedIn(receipts) /\ Reverted' = FailedIn(receipts')
      BY DEF Reverted, FailedIn
    <3>2. receipts \in Seq(BOOLEAN)
      BY DEF IInv, TypeOK
    <3>3. FailedIn(receipts') = FailedIn(receipts) + (IF tx.ok THEN 0 ELSE 1)
      BY <1>1, <1>2, <3>2, FailedAppend
    <3> QED BY <2>2, <2>4, <3>1, <3>3
  <2>6. Len(receipts') = ReceiptsUpTo(blk, txi + 1)
    <3>1. receipts \in Seq(BOOLEAN)
      BY DEF IInv, TypeOK
    <3>2. Len(receipts') = Len(receipts) + 1
      BY <1>1, <1>2, <3>1
    <3> QED BY <2>2, <2>4, <3>2
  <2>7. Fits(txi + 1)
    <3>1. nonces[tx.from] = Promise!SentBefore(count - 1, tx.from)
                              + Promise!SentUpTo(blk, txi, tx.from)
      BY <1>1, <1>2 DEF Follows, NoncesFollow
    <3>2. pool = blk.limit - Promise!GasUpTo(blk, txi)
      BY <2>4
    <3> QED BY <1>1, <1>2, <3>1, <3>2 DEF Fits
  <2>8. \A i \in Promise!Executed(blk) : i <= txi + 1 => Fits(i)'
    BY <1>1, <2>3, <2>4, <2>7, SameBlock
  <2>9. /\ usedGas' = Promise!GasUpTo(blk, txi + 1) /\ pool' = blk.limit - usedGas'
        /\ measured => ops' = Promise!OpsUpTo(blk, txi + 1)
    <3>1. usedGas' = Promise!GasUpTo(blk, txi + 1)
      BY <1>1, <2>1, <2>4
    <3>2. pool' = blk.limit - usedGas'
      <4>1. pool' = pool - tx.used /\ usedGas' = usedGas + tx.used /\ tx.used \in Nat
        BY <1>1, <1>2
      <4>2. pool = blk.limit - usedGas /\ usedGas \in Nat /\ blk.limit \in Nat
        BY <2>4
      <4> QED BY <4>1, <4>2
    <3>3. measured => ops' = ops + tx.ops
      BY <1>1 DEF CountedOps
    <3> QED BY <2>1, <2>4, <3>1, <3>2, <3>3
  <2> QED BY <1>1, <1>3, <2>5, <2>6, <2>8, <2>9 DEF BlockFollows
<1> QED BY <1>4, <1>5, <1>6 DEF Follows

LEMMA FollowsReject == ASSUME IInv, Follows, RejectTx PROVE Follows'
<1>1. pc' = "returned" /\ UNCHANGED <<corpus, count>>
  BY DEF RejectTx, ReturnError
<1> QED BY <1>1 DEF Follows, Opened, NoncesFollow, BlockFollows

LEMMA FollowsEnd == ASSUME IInv, Follows, EndTxs \/ Commit PROVE Follows'
<1>1. /\ pc \in {"txs", "commit"} /\ pc' \in {"commit", "record"}
      /\ pc = "txs" => ~MoreTxs
      /\ UNCHANGED <<corpus, count, nonces, measured, block>>
  BY DEF EndTxs, Commit, setup
<1>2. UNCHANGED <<txi, pool, receipts, usedGas, ops>>
  BY <1>1 DEF block
<1>3. txi = Len(blk.txs)
  BY <1>1, BlkType DEF Follows, BlockFollows, IInv, CountersAgree, MoreTxs, TypeOK
<1>4. blk' = blk /\ \A i : Fits(i)' <=> Fits(i)
  BY <1>1, SameBlock
<1>5. Opened'
  BY <1>1 DEF Follows, Opened
<1>6. NoncesFollow'
  <2>1. \A a : (Promise!SentBefore(count - 1, a))' = Promise!SentBefore(count - 1, a)
    BY <1>1, SameBlock
  <2> QED BY <1>1, <1>2, <1>4, <2>1 DEF Follows, NoncesFollow
<1>7. BlockFollows'
  BY <1>1, <1>2, <1>3, <1>4 DEF Follows, BlockFollows, Reverted
<1> QED BY <1>5, <1>6, <1>7 DEF Follows

LEMMA FollowsRecord == ASSUME IInv, Follows, RecordBlock PROVE Follows'
<1>1. pc = "record" /\ pc' = "check" /\ UNCHANGED <<corpus, count, nonces, measured>>
  BY DEF RecordBlock, setup
<1>2. /\ count \in Nat /\ count - 1 \in Nat /\ count - 1 < Len(corpus.items)
      /\ (count - 1) + 1 = count /\ blk = corpus.items[count] /\ txi = Len(blk.txs)
  BY <1>1, CorpusType DEF IInv, TypeOK, Inside, blk, Follows, BlockFollows
<1>3. Opened'
  BY <1>1 DEF Follows, Opened
<1>4. NoncesFollow'
  <2>1. ASSUME NEW a \in Accounts PROVE nonces[a] = (Promise!SentBefore(count, a))'
    <3>1. nonces[a] = Promise!SentBefore(count - 1, a) + Promise!SentUpTo(blk, txi, a)
      BY <1>1 DEF Follows, NoncesFollow
    <3>2. \A c \in 1 .. ((count - 1) + 1) : corpus.items[c] # Malformed
      BY <1>2 DEF Follows, Opened
    <3>3. Promise!SentBefore((count - 1) + 1, a) = Promise!SentBefore(count - 1, a)
            + Promise!SentUpTo(corpus.items[(count - 1) + 1],
                               Len(corpus.items[(count - 1) + 1].txs), a)
      BY <1>2, <3>2, SentBeforeNext
    <3>4. (Promise!SentBefore(count, a))' = Promise!SentBefore(count, a)
      BY <1>1 DEF Promise!SentBefore
    <3> QED BY <1>2, <3>1, <3>3, <3>4
  <2> QED BY <1>1, <2>1 DEF NoncesFollow
<1>5. BlockFollows'
  BY <1>1 DEF BlockFollows
<1> QED BY <1>3, <1>4, <1>5 DEF Follows

LEMMA FollowsStep == ASSUME IInv, Follows, [Next]_vars PROVE Follows'
<1>1. CASE OpenState \/ ResolveConfig \/ OpenIter \/ Setup \/ CheckContext \/ Finish
  BY <1>1, FollowsOpen
<1>2. CASE NextBlock
  BY <1>2, FollowsNextBlock
<1>3. CASE BeginBlock
  BY <1>3, FollowsBegin
<1>4. CASE SkipTx
  BY <1>4, FollowsSkip
<1>5. CASE ApplyTx
  BY <1>5, FollowsApply
<1>6. CASE RejectTx
  BY <1>6, FollowsReject
<1>7. CASE EndTxs \/ Commit
  BY <1>7, FollowsEnd
<1>8. CASE RecordBlock
  BY <1>8, FollowsRecord
<1>9. CASE Signal \/ Elapse \/ StepWall \/ BackgroundRead \/ UNCHANGED vars
  <2>1. UNCHANGED <<pc, corpus, measured, count, nonces, block>>
    BY <1>9 DEF Signal, Elapse, StepWall, BackgroundRead, vars, setup
  <2> QED BY <2>1, AsideStep
<1> QED
  BY <1>1, <1>2, <1>3, <1>4, <1>5, <1>6, <1>7, <1>8, <1>9 DEF Next, Step, Returned

LEMMA FollowsInvariant == Spec => [](IInv /\ Follows)
<1>1. IInv /\ Follows /\ [Next]_vars => Follows'
  BY FollowsStep
<1> QED BY <1>1, FollowsInit, Invariance, PTL DEF Spec

-----------------------------------------------------------------------------
(* Every step is one of the replay's, or none.                             *)

LEMMA OutcomeIs ==
    ASSUME IInv
    PROVE  /\ pc # "returned" => Outcome = "running"
           /\ Outcome = "running" => pc # "returned"
BY DEF IInv, Inside, Outcome

\* A step of the pass the replay does not see.
LEMMA Unseen ==
    ASSUME UNCHANGED <<corpus, measured, ctxErr, totalGas, coll>>,
           Applied' = Applied, result'.err = result.err
    PROVE  UNCHANGED Promise!vars
<1>1. Outcome' = Outcome
  BY DEF Outcome
<1>2. Summaries' = Summaries
  BY DEF Summaries
<1> QED BY <1>1, <1>2 DEF Promise!vars

\* An error return other than the interrupt is the replay's failure.
LEMMA ErrorIsFail ==
    ASSUME IInv, pc # "returned", NEW e \in Errors \ {"context"}, ReturnError(e),
           UNCHANGED <<corpus, measured, ctxErr, totalGas, coll>>, Applied' = Applied,
           ~Promise!NextIsGood, ~(Promise!Usable /\ Applied = Len(corpus.items))
    PROVE  Promise!Fail
<1>1. result' = NoResult(e) /\ result'.err = e
  BY NoResultType DEF ReturnError
<1>2. Outcome' = "failed" /\ Outcome = "running"
  BY <1>1, OutcomeIs DEF Outcome, Errors
<1>3. Summaries' = Summaries
  BY DEF Summaries
<1> QED BY <1>2, <1>3 DEF Promise!Fail

\* Before the setup is done nothing is usable that is not yet known to be.
LEMMA OpenIsReplay ==
    ASSUME IInv, Follows, OpenState \/ ResolveConfig \/ OpenIter
    PROVE  [Promise!Next]_Promise!vars
<1>1. /\ pc \in {"state", "config", "iter"} /\ result.err = "pending"
      /\ UNCHANGED <<corpus, count, measured, ctxErr, totalGas, coll>>
  BY DEF OpenState, ResolveConfig, OpenIter, IInv, Inside, totals, setup
<1>2. CASE pc' = "returned"
  <2>1. PICK e \in {"state", "config", "iter"} : ReturnError(e)
    BY <1>2 DEF OpenState, ResolveConfig, OpenIter
  <2>2. ~Promise!Usable
    BY <1>1, <1>2, SameOperators DEF OpenState, ResolveConfig, OpenIter, Promise!Usable
  <2>3. result'.err = e
    BY <2>1, NoResultType DEF ReturnError, Errors
  <2>4. Applied' = Applied
    BY <1>1, <1>2, <2>3 DEF Applied, InBlock
  <2>5. ~Promise!NextIsGood
    BY <2>2 DEF Promise!NextIsGood
  <2>6. Promise!Fail
    BY <1>1, <2>1, <2>2, <2>4, <2>5, ErrorIsFail DEF Errors
  <2> QED BY <2>6 DEF Promise!Next, Promise!Step
<1>3. CASE pc' # "returned"
  <2>1. pc' \in {"config", "iter", "setup"} /\ UNCHANGED result
    BY <1>3 DEF OpenState, ResolveConfig, OpenIter, ReturnError
  <2>2. Applied' = Applied
    BY <1>1, <2>1 DEF Applied, InBlock
  <2> QED BY <1>1, <2>1, <2>2, Unseen
<1> QED BY <1>2, <1>3

LEMMA LoopIsReplay ==
    ASSUME IInv, Follows, CheckContext \/ NextBlock \/ Finish
    PROVE  [Promise!Next]_Promise!vars
<1>1. /\ pc \in {"check", "next"} /\ result.err = "pending"
      /\ UNCHANGED <<corpus, measured, ctxErr, totalGas, coll>>
      /\ count \in Nat /\ Len(corpus.items) \in Nat /\ count <= Len(corpus.items)
      /\ Promise!Usable
  <2>1. /\ pc \in {"check", "next"} /\ UNCHANGED <<corpus, measured, ctxErr, totalGas, coll>>
    BY DEF CheckContext, NextBlock, Finish, totals, setup
  <2>2. Promise!Usable
    BY <2>1, SameOperators DEF Follows, Opened, Promise!Usable
  <2> QED BY <2>1, <2>2, CorpusType DEF IInv, TypeOK, Inside
<1>2. Applied = count /\ Outcome = "running"
  BY <1>1, OutcomeIs DEF Applied, InBlock
<1>3. Summaries' = Summaries
  BY <1>1 DEF Summaries
<1>4. CASE CheckContext
  <2>1. CASE Interrupted
    <3>1. pc' = "returned" /\ count' = count /\ result' = NoResult("context")
      BY <1>4, <2>1 DEF CheckContext, ReturnError
    <3>2. result'.err = "context"
      BY <3>1, NoResultType DEF Errors
    <3>3. Applied' = count /\ Outcome' = "interrupted"
      BY <3>1, <3>2 DEF Applied, InBlock, Outcome
    <3>4. Promise!StopOnSignal
      BY <1>1, <1>2, <1>3, <2>1, <3>3 DEF Promise!StopOnSignal, Interrupted
    <3> QED BY <3>4 DEF Promise!Next, Promise!Step
  <2>2. CASE ~Interrupted
    <3>1. pc' = "next" /\ UNCHANGED <<count, result>>
      BY <1>4, <2>2 DEF CheckContext
    <3>2. Applied' = Applied
      BY <1>1, <3>1 DEF Applied, InBlock
    <3> QED BY <1>1, <3>1, <3>2, Unseen
  <2> QED BY <2>1, <2>2
<1>5. CASE NextBlock
  <2>0. pc = "next" /\ count # Len(corpus.items)
    BY <1>5 DEF NextBlock, AtEOF
  <2>1. CASE corpus.items[count + 1] = Malformed
    <3>1. ReturnError("read") /\ count' = count
      BY <1>5, <2>1 DEF NextBlock
    <3>2. pc' = "returned" /\ result'.err = "read"
      BY <3>1, NoResultType DEF ReturnError, Errors
    <3>3. Applied' = Applied
      BY <1>2, <3>1, <3>2 DEF Applied, InBlock
    <3>4. ~Promise!NextIsGood
      BY <1>2, <2>1 DEF Promise!NextIsGood
    <3>5. Promise!Fail
      BY <1>1, <1>2, <2>0, <3>1, <3>3, <3>4, ErrorIsFail DEF Errors
    <3> QED BY <3>5 DEF Promise!Next, Promise!Step
  <2>2. CASE corpus.items[count + 1] # Malformed
    <3>1. pc' = "begin" /\ count' = count + 1 /\ UNCHANGED result
      BY <1>5, <2>2 DEF NextBlock
    <3>2. Applied' = Applied
      BY <1>1, <1>2, <3>1 DEF Applied, InBlock
    <3> QED BY <1>1, <3>1, <3>2, Unseen
  <2> QED BY <2>1, <2>2
<1>6. CASE Finish
  <2>1. count = Len(corpus.items) /\ pc' = "returned" /\ count' = count /\ result'.err = "none"
    BY <1>6 DEF Finish, AtEOF
  <2>2. Applied' = count /\ Outcome' = "ok"
    BY <2>1 DEF Applied, InBlock, Outcome
  <2>3. Promise!Complete
    BY <1>1, <1>2, <1>3, <2>1, <2>2 DEF Promise!Complete
  <2> QED BY <2>3 DEF Promise!Next, Promise!Step
<1> QED BY <1>4, <1>5, <1>6

\* A rejected transaction is one that the replay cannot execute.
LEMMA RejectIsFail == ASSUME IInv, Follows, RejectTx PROVE Promise!Fail
<1>1. /\ pc = "txs" /\ MoreTxs /\ ~IsSystemTx(tx, blk.coinbase)
      /\ ~Acceptable(tx, nonces[tx.from], pool) /\ ReturnError("apply")
      /\ UNCHANGED <<corpus, count, measured, ctxErr, totalGas, coll>>
  BY DEF RejectTx, totals, setup
<1>2. /\ blk \in Block /\ tx = blk.txs[txi + 1] /\ txi + 1 \in Promise!Executed(blk)
      /\ (txi + 1) - 1 = txi /\ tx.from \in Accounts
  BY <1>1, AtHand
<1>3. /\ count \in Nat /\ Len(corpus.items) \in Nat /\ count <= Len(corpus.items) /\ count >= 1
      /\ result.err = "pending" /\ blk = corpus.items[count]
  BY <1>1, CorpusType DEF IInv, TypeOK, Inside, blk
<1>4. result'.err = "apply" /\ pc' = "returned"
  BY <1>1, NoResultType DEF ReturnError, Errors
<1>5. Applied = count - 1 /\ Applied' = count - 1
  BY <1>1, <1>3, <1>4 DEF Applied, InBlock
<1>6. ~Fits(txi + 1)
  <2>1. nonces[tx.from] = Promise!SentBefore(count - 1, tx.from)
                            + Promise!SentUpTo(blk, txi, tx.from)
    BY <1>1, <1>2 DEF Follows, NoncesFollow
  <2>2. pool = blk.limit - Promise!GasUpTo(blk, txi)
    BY <1>1 DEF Follows, BlockFollows
  <2> QED BY <1>1, <1>2, <2>1, <2>2 DEF Fits
<1>7. ~Promise!Executable(count)
  BY <1>2, <1>3, <1>6, SameOperators DEF Promise!Executable, Fits
<1>8. ~Promise!NextIsGood
  <2>1. Applied + 1 = count
    BY <1>3, <1>5
  <2> QED BY <1>7, <2>1 DEF Promise!NextIsGood
<1>9. Applied # Len(corpus.items)
  BY <1>3, <1>5
<1> QED BY <1>1, <1>5, <1>8, <1>9, ErrorIsFail DEF Errors

\* A recorded block is one that the replay applies, with the replay's summary.
LEMMA RecordIsApply == ASSUME IInv, Follows, RecordBlock PROVE Promise!Apply
<1>1. /\ pc = "record" /\ pc' = "check" /\ totalGas' = totalGas + usedGas
      /\ UNCHANGED <<corpus, count, measured, ctxErr, result>>
  BY DEF RecordBlock, setup
<1>2. /\ blk \in Block /\ blk.txs \in Seq(Tx) /\ Len(blk.txs) \in Nat /\ blk = corpus.items[count]
      /\ count \in Nat /\ count >= 1 /\ Len(corpus.items) \in Nat /\ count <= Len(corpus.items)
      /\ blk # Malformed /\ result.err = "pending" /\ txi = Len(blk.txs)
  <2>1. blk \in Block /\ blk.txs \in Seq(Tx) /\ Len(blk.txs) \in Nat /\ blk = corpus.items[count]
    BY <1>1, BlkType DEF IInv, blk
  <2>2. count \in Nat /\ Len(corpus.items) \in Nat /\ count <= Len(corpus.items)
    BY CorpusType DEF IInv, TypeOK
  <2>3. count >= 1 /\ blk # Malformed /\ result.err = "pending"
    BY <1>1 DEF IInv, Inside
  <2>4. txi = Len(blk.txs)
    BY <1>1 DEF Follows, BlockFollows
  <2> QED BY <2>1, <2>2, <2>3, <2>4
<1>3. Applied = count - 1 /\ Applied' = count /\ Applied + 1 = count
      /\ Outcome = "running" /\ Outcome' = "running"
  BY <1>1, <1>2 DEF Applied, InBlock, Outcome
<1>4. \A i \in Promise!Executed(blk) : i <= txi
  BY <1>2, ExecutedType
<1>5. Promise!NextIsGood
  <2>1. Promise!Usable
    BY <1>1, SameOperators DEF Follows, Opened, Promise!Usable
  <2>2. \A i \in Promise!Executed(blk) : Fits(i)
    BY <1>1, <1>4 DEF Follows, BlockFollows
  <2>3. Promise!Executable(count)
    BY <1>2, <2>2, SameOperators DEF Promise!Executable, Fits
  <2> QED BY <1>2, <1>3, <2>1, <2>3 DEF Promise!NextIsGood
<1>6. /\ usedGas = Promise!GasUpTo(blk, Len(blk.txs))
      /\ measured => ops = Promise!OpsUpTo(blk, Len(blk.txs))
      /\ Len(receipts) = Cardinality(Promise!Executed(blk))
      /\ Reverted = Cardinality({i \in Promise!Executed(blk) : ~blk.txs[i].ok})
  <2>1. {i \in Promise!Executed(blk) : i <= txi} = Promise!Executed(blk)
    BY <1>4
  <2>2. {i \in Promise!Executed(blk) : i <= txi /\ ~blk.txs[i].ok}
          = {i \in Promise!Executed(blk) : ~blk.txs[i].ok}
    BY <1>4
  <2> QED BY <1>1, <1>2, <2>1, <2>2 DEF Follows, BlockFollows, ReceiptsUpTo, RevertsUpTo
<1>7. TxCount = Len(receipts)
  <2>1. skipped + Len(receipts) = Len(blk.txs)
    BY <1>1, <1>2 DEF IInv, CountersAgree
  <2>2. skipped \in Nat /\ Len(receipts) \in Nat
    BY DEF IInv, TypeOK
  <2> QED BY <2>1, <2>2, <1>2 DEF TxCount
<1> DEFINE s == [number |-> blk.number, txs |-> TxCount, reverted |-> Reverted,
                 gas |-> usedGas, ops |-> ops]
<1>8. measured => Promise!Summary(count) = s
  BY <1>2, <1>6, <1>7, SameOperators DEF Promise!Summary
<1>9. Promise!Summary(Applied + 1).gas = usedGas
  BY <1>2, <1>3, <1>6 DEF Promise!Summary
<1>10. CASE ~measured
  <2>1. Summaries' = Summaries
    BY <1>10 DEF RecordBlock, Summaries
  <2> QED BY <1>1, <1>3, <1>5, <1>9, <1>10, <2>1 DEF Promise!Apply
<1>11. CASE measured
  <2> DEFINE r == [number |-> blk.number, txs |-> TxCount, reverted |-> Reverted,
                   gas |-> usedGas, ops |-> ops, exec |-> ExecNs, commit |-> TrieCommitNs,
                   bytes |-> dbRead - dbBefore]
  <2>1. coll' = Append(coll, r) /\ coll \in Seq(BlockRecord) /\ Len(coll) \in Nat
    BY <1>11 DEF RecordBlock, IInv, TypeOK
  <2>2. s = [number |-> r.number, txs |-> r.txs, reverted |-> r.reverted,
             gas |-> r.gas, ops |-> r.ops]
    OBVIOUS
  <2> HIDE DEF r, s
  <2>3. Summaries' = Append(Summaries, s)
    <3>1. DOMAIN coll' = 1 .. (Len(coll) + 1) /\ DOMAIN coll = 1 .. Len(coll)
      BY <2>1
    <3>2. coll'[Len(coll) + 1] = r /\ \A i \in 1 .. Len(coll) : coll'[i] = coll[i]
      BY <2>1
    <3> QED BY <2>1, <2>2, <3>1, <3>2 DEF Summaries
  <2> QED BY <1>1, <1>3, <1>5, <1>8, <1>9, <1>11, <2>3 DEF Promise!Apply
<1> QED BY <1>10, <1>11

LEMMA ReplayStep ==
    ASSUME IInv, Follows, [Next]_vars
    PROVE  [Promise!Next]_Promise!vars
<1>1. CASE OpenState \/ ResolveConfig \/ OpenIter
  BY <1>1, OpenIsReplay
<1>2. CASE CheckContext \/ NextBlock \/ Finish
  BY <1>2, LoopIsReplay
<1>3. CASE RejectTx
  BY <1>3, RejectIsFail DEF Promise!Next, Promise!Step
<1>4. CASE RecordBlock
  BY <1>4, RecordIsApply DEF Promise!Next, Promise!Step
<1>5. CASE Setup \/ BeginBlock \/ SkipTx \/ ApplyTx \/ EndTxs \/ Commit
  <2>1. /\ pc \in {"setup", "check"} \/ pc \in {"begin", "txs", "commit", "record"}
        /\ pc \in {"setup", "check"} => pc' \in {"setup", "check"}
        /\ pc \in {"begin", "txs", "commit", "record"}
             => pc' \in {"begin", "txs", "commit", "record"}
        /\ UNCHANGED <<corpus, count, measured, ctxErr, totalGas, coll, result>>
    BY <1>5 DEF Setup, BeginBlock, SkipTx, ApplyTx, EndTxs, Commit, totals, setup
  <2>2. Applied' = Applied
    BY <2>1 DEF Applied, InBlock
  <2> QED BY <2>1, <2>2, Unseen
<1>6. CASE Signal
  <2>1. /\ UNCHANGED <<pc, count, corpus, measured, totalGas, coll, result>>
        /\ ~ctxErr /\ ctxErr' = TRUE /\ pc # "returned"
    BY <1>6 DEF Signal, Running, totals, setup
  <2>2. Applied' = Applied /\ Outcome' = Outcome /\ Summaries' = Summaries
    BY <2>1 DEF Applied, InBlock, Outcome, Summaries
  <2>3. Promise!Signal
    BY <2>1, <2>2, OutcomeIs DEF Promise!Signal
  <2> QED BY <2>3 DEF Promise!Next
<1>7. CASE Elapse \/ StepWall \/ BackgroundRead \/ UNCHANGED vars
  <2>1. UNCHANGED <<pc, count, corpus, measured, ctxErr, totalGas, coll, result>>
    BY <1>7 DEF Elapse, StepWall, BackgroundRead, vars, totals, setup
  <2>2. Applied' = Applied
    BY <2>1 DEF Applied, InBlock
  <2> QED BY <2>1, <2>2, Unseen
<1> QED BY <1>1, <1>2, <1>3, <1>4, <1>5, <1>6, <1>7 DEF Next, Step, Returned

\* Whatever the corpus, the clocks, the database and the user do, the pass
\* applies whole blocks in stream order, totals and reports of each exactly
\* what its transactions determine, ends well only at the end of the stream
\* and fails only where the corpus is at fault (pass.go:84-135).
THEOREM PassIsReplay == Spec => Promise!Init /\ [][Promise!Next]_Promise!vars
<1>1. Init => Promise!Init
  BY DEF Init, Promise!Init, Pending, NoResult, Applied, InBlock, Outcome, Summaries
<1>2. IInv /\ Follows /\ [Next]_vars => [Promise!Next]_Promise!vars
  BY ReplayStep
<1> QED BY <1>1, <1>2, FollowsInvariant, PTL DEF Spec

-----------------------------------------------------------------------------
(* Why a healthy block can be rejected at all.                             *)

\* The places of a's transactions in block c, and the pairs of a block among
\* the first n and such a place.
FromIn(c, a) == {j \in DOMAIN corpus.items[c].txs : corpus.items[c].txs[j].from = a}
Column(c, J) == {<<c, j>> : j \in J}
FromUpTo(n, a) == UNION {Column(c, FromIn(c, a)) : c \in 1 .. n}

\* No transaction of a in block c is skipped.
AllExecute(c, a) ==
    \A j \in FromIn(c, a) : ~IsSystemTx(corpus.items[c].txs[j], corpus.items[c].coinbase)

LEMMA ColumnCount ==
    ASSUME NEW c, NEW J, IsFiniteSet(J)
    PROVE  IsFiniteSet(Column(c, J)) /\ Cardinality(Column(c, J)) = Cardinality(J)
<1> DEFINE f == [j \in J |-> <<c, j>>]
<1>1. f \in Bijection(J, Column(c, J))
  BY DEF Bijection, Injection, Surjection, IsInjective, Column
<1> QED BY <1>1, FS_Bijection DEF ExistsBijection

\* Two finite sets without a common element count together.
LEMMA DisjointCount ==
    ASSUME NEW S, NEW T, IsFiniteSet(S), IsFiniteSet(T), S \cap T = {}
    PROVE  /\ IsFiniteSet(S \cup T)
           /\ Cardinality(S \cup T) = Cardinality(S) + Cardinality(T)
<1>1. Cardinality(S \cap T) = 0
  BY FS_EmptySet
<1>2. Cardinality(S) \in Nat /\ Cardinality(T) \in Nat
  BY FS_CardinalityType
<1>3. /\ IsFiniteSet(S \cup T)
      /\ Cardinality(S \cup T) = Cardinality(S) + Cardinality(T) - Cardinality(S \cap T)
  BY FS_Union
<1> QED BY <1>1, <1>2, <1>3

LEMMA BlockAt ==
    ASSUME IInv, Opened, NEW c \in 1 .. count, NEW a
    PROVE  /\ corpus.items[c] \in Block
           /\ FromIn(c, a) \subseteq 1 .. Len(corpus.items[c].txs)
           /\ IsFiniteSet(FromIn(c, a))
<1>1. c \in 1 .. Len(corpus.items) /\ corpus.items \in Seq(Block \cup {Malformed})
  BY CorpusType DEF IInv, TypeOK
<1>2. corpus.items[c] \in Block
  BY <1>1 DEF Opened
<1>3. FromIn(c, a) \in SUBSET (1 .. Len(corpus.items[c].txs)) /\ Len(corpus.items[c].txs) \in Nat
  BY <1>2, ExecutedType DEF FromIn
<1>4. IsFiniteSet(1 .. Len(corpus.items[c].txs))
  BY <1>3, FS_Interval
<1> QED BY <1>2, <1>3, <1>4, FS_Subset

\* What a has sent in a block, as the replay counts it.
LEMMA AllSent ==
    ASSUME IInv, Opened, NEW c \in 1 .. count, NEW a, AllExecute(c, a)
    PROVE  Promise!SentUpTo(corpus.items[c], Len(corpus.items[c].txs), a)
             = Cardinality(FromIn(c, a))
<1> DEFINE b == corpus.items[c]
<1>1. b \in Block /\ FromIn(c, a) \subseteq 1 .. Len(b.txs)
  BY BlockAt
<1>2. Promise!Executed(b) \subseteq 1 .. Len(b.txs)
  BY <1>1, ExecutedType
<1>3. FromIn(c, a) \subseteq Promise!Executed(b)
  BY SameOperators DEF AllExecute, FromIn, Promise!Executed
<1>4. {i \in Promise!Executed(b) : i <= Len(b.txs) /\ b.txs[i].from = a} \subseteq FromIn(c, a)
  BY DEF FromIn, Promise!Executed
<1>5. FromIn(c, a) \subseteq {i \in Promise!Executed(b) : i <= Len(b.txs) /\ b.txs[i].from = a}
  BY <1>1, <1>3 DEF FromIn
<1>6. {i \in Promise!Executed(b) : i <= Len(b.txs) /\ b.txs[i].from = a} = FromIn(c, a)
  BY <1>4, <1>5
<1> QED BY <1>6, SameOperators DEF Promise!SentUpTo

\* A sender none of whose transactions is skipped has sent as many as it signed.
LEMMA AllSentUpTo ==
    ASSUME IInv, Opened, NEW a, NEW n \in 0 .. count, a \in Accounts,
           \A c \in 1 .. n : AllExecute(c, a)
    PROVE  /\ IsFiniteSet(FromUpTo(n, a))
           /\ Cardinality(FromUpTo(n, a)) = Promise!SentBefore(n, a)
<1> DEFINE Right(m) == /\ IsFiniteSet(FromUpTo(m, a))
                       /\ Cardinality(FromUpTo(m, a)) = Promise!SentBefore(m, a)
           Bad == {m \in 0 .. n : ~Right(m)}
<1>0. count \in Nat /\ n \in Nat /\ Len(corpus.items) \in Nat /\ count <= Len(corpus.items)
  BY CorpusType DEF IInv, TypeOK
<1>1. SUFFICES ASSUME Bad # {} PROVE FALSE
  BY <1>0
<1>2. PICK m \in Bad : \A k \in Bad : m <= k
  <2>1. Bad \subseteq Nat
    OBVIOUS
  <2> HIDE DEF Bad
  <2> QED BY <1>1, <2>1, LeastOfSet
<1>3. m # 0
  <2>1. FromUpTo(0, a) = {}
    BY DEF FromUpTo
  <2>2. Right(0)
    BY <2>1, FS_EmptySet, SentBeforeNone
  <2> QED BY <2>2
<1> DEFINE k == m - 1
<1>4. k \in Nat /\ k \in 0 .. n /\ k + 1 = m /\ k + 1 \in 1 .. n /\ k + 1 \in 1 .. count
      /\ k < Len(corpus.items) /\ k \notin Bad
  BY <1>0, <1>2, <1>3
<1>5. Right(k)
  BY <1>4
<1> HIDE DEF k
<1> DEFINE J == FromIn(k + 1, a)
<1>6. /\ corpus.items[k + 1] \in Block /\ IsFiniteSet(J)
      /\ Promise!SentUpTo(corpus.items[k + 1], Len(corpus.items[k + 1].txs), a) = Cardinality(J)
  BY <1>4, BlockAt, AllSent
<1>7. FromUpTo(k + 1, a) = FromUpTo(k, a) \cup Column(k + 1, J)
  <2>1. 1 .. (k + 1) = (1 .. k) \cup {k + 1}
    BY <1>4
  <2> QED BY <2>1 DEF FromUpTo
<1>8. FromUpTo(k, a) \cap Column(k + 1, J) = {}
  <2>1. \A c \in 1 .. k : c # k + 1
    BY <1>4
  <2> QED BY <2>1 DEF FromUpTo, Column
<1>9. IsFiniteSet(Column(k + 1, J)) /\ Cardinality(Column(k + 1, J)) = Cardinality(J)
  BY <1>6, ColumnCount
<1>10. Promise!SentBefore(k + 1, a) = Promise!SentBefore(k, a) + Cardinality(J)
  <2>1. \A c \in 1 .. (k + 1) : corpus.items[c] # Malformed
    BY <1>0, <1>4 DEF Opened
  <2>2. Promise!SentBefore(k + 1, a) = Promise!SentBefore(k, a)
          + Promise!SentUpTo(corpus.items[k + 1], Len(corpus.items[k + 1].txs), a)
    BY <1>4, <2>1, SentBeforeNext
  <2> QED BY <1>6, <2>2
<1> HIDE DEF J
<1>11. /\ IsFiniteSet(FromUpTo(k + 1, a))
       /\ Cardinality(FromUpTo(k + 1, a)) = Cardinality(FromUpTo(k, a)) + Cardinality(J)
  BY <1>5, <1>7, <1>8, <1>9, DisjointCount
<1>12. Right(k + 1)
  BY <1>5, <1>10, <1>11
<1> QED BY <1>2, <1>4, <1>12

\* A sender none of whose earlier transactions is skipped has a nonce for
\* each of them.
LEMMA NonceCounts ==
    ASSUME IInv, Follows, pc = "txs", MoreTxs,
           \A e \in EarlierOf(count, txi + 1) :
               ~IsSystemTx(corpus.items[e[1]].txs[e[2]], corpus.items[e[1]].coinbase)
    PROVE  nonces[tx.from] = Cardinality(EarlierOf(count, txi + 1))
<1> DEFINE a == tx.from
           now == {j \in FromIn(count, a) : j <= txi}
<1>1. /\ blk \in Block /\ blk = corpus.items[count] /\ txi \in Nat /\ txi < Len(blk.txs)
      /\ tx = blk.txs[txi + 1] /\ a \in Accounts /\ count \in Nat /\ count >= 1
  BY AtHand DEF blk, IInv, Inside, TypeOK
<1>2. EarlierOf(count, txi + 1) = FromUpTo(count - 1, a) \cup Column(count, now)
  <2>1. \A c \in 1 .. count - 1 :
          {k \in DOMAIN corpus.items[c].txs :
               /\ IsBefore(c, k, count, txi + 1)
               /\ corpus.items[c].txs[k].from = corpus.items[count].txs[txi + 1].from}
            = FromIn(c, a)
    BY <1>1 DEF IsBefore, FromIn
  <2>2. {k \in DOMAIN corpus.items[count].txs :
             /\ IsBefore(count, k, count, txi + 1)
             /\ corpus.items[count].txs[k].from = corpus.items[count].txs[txi + 1].from}
          = now
    <3>1. DOMAIN blk.txs = 1 .. Len(blk.txs)
      BY <1>1, ExecutedType
    <3>2. \A k \in 1 .. Len(blk.txs) : k < txi + 1 <=> k <= txi
      BY <1>1
    <3> QED BY <1>1, <3>1, <3>2 DEF IsBefore, FromIn
  <2>3. 1 .. count = (1 .. count - 1) \cup {count}
    BY <1>1
  <2> QED BY <2>1, <2>2, <2>3 DEF EarlierOf, FromUpTo, Column
<1>3. \A c \in 1 .. count - 1 : AllExecute(c, a)
  <2> SUFFICES ASSUME NEW c \in 1 .. count - 1, NEW j \in FromIn(c, a)
               PROVE  ~IsSystemTx(corpus.items[c].txs[j], corpus.items[c].coinbase)
    BY DEF AllExecute
  <2>1. <<c, j>> \in EarlierOf(count, txi + 1)
    BY <1>2 DEF FromUpTo, Column
  <2> QED BY <2>1
<1>4. \A j \in now : ~IsSystemTx(blk.txs[j], blk.coinbase)
  <2> SUFFICES ASSUME NEW j \in now PROVE ~IsSystemTx(blk.txs[j], blk.coinbase)
    OBVIOUS
  <2>1. <<count, j>> \in EarlierOf(count, txi + 1)
    BY <1>2 DEF Column
  <2> QED BY <1>1, <2>1
<1>5. /\ IsFiniteSet(FromUpTo(count - 1, a))
      /\ Cardinality(FromUpTo(count - 1, a)) = Promise!SentBefore(count - 1, a)
  <2>1. count - 1 \in 0 .. count
    BY <1>1
  <2> QED BY <1>1, <1>3, <2>1, AllSentUpTo DEF Follows
<1>6. IsFiniteSet(now) /\ Promise!SentUpTo(blk, txi, a) = Cardinality(now)
  <2>1. now \in SUBSET FromIn(count, a)
    OBVIOUS
  <2>2. IsFiniteSet(FromIn(count, a))
    BY <1>1, BlockAt DEF Follows
  <2>3. now = {i \in Promise!Executed(blk) : i <= txi /\ blk.txs[i].from = a}
    BY <1>1, <1>4, SameOperators DEF Promise!Executed, FromIn
  <2> HIDE DEF now
  <2> QED BY <2>1, <2>2, <2>3, FS_Subset, SameOperators DEF Promise!SentUpTo
<1>7. IsFiniteSet(Column(count, now)) /\ Cardinality(Column(count, now)) = Cardinality(now)
  BY <1>6, ColumnCount
<1>8. FromUpTo(count - 1, a) \cap Column(count, now) = {}
  <2>1. \A c \in 1 .. count - 1 : c # count
    BY <1>1
  <2> QED BY <2>1 DEF FromUpTo, Column
<1> HIDE DEF now
<1>9. Cardinality(FromUpTo(count - 1, a) \cup Column(count, now))
        = Promise!SentBefore(count - 1, a) + Promise!SentUpTo(blk, txi, a)
  <2> DEFINE S == FromUpTo(count - 1, a)
             T == Column(count, now)
  <2>1. IsFiniteSet(S) /\ IsFiniteSet(T) /\ S \cap T = {}
    BY <1>5, <1>7, <1>8
  <2>2. Cardinality(S) = Promise!SentBefore(count - 1, a)
        /\ Cardinality(T) = Promise!SentUpTo(blk, txi, a)
    BY <1>5, <1>6, <1>7
  <2> HIDE DEF S, T
  <2>3. Cardinality(S \cup T) = Cardinality(S) + Cardinality(T)
    BY <2>1, DisjointCount
  <2> QED BY <2>2, <2>3 DEF S, T
<1>10. nonces[a] = Promise!SentBefore(count - 1, a) + Promise!SentUpTo(blk, txi, a)
  BY <1>1 DEF Follows, NoncesFollow
<1> QED BY <1>2, <1>9, <1>10

\* What an ordinary transaction of a healthy chain buys fits in what the
\* ordinary ones before it have left of the pool.
LEMMA GasFits ==
    ASSUME IInv, Follows, Canonical, pc = "txs", MoreTxs, ~IsSystemTx(tx, blk.coinbase)
    PROVE  tx.gas <= pool
<1>1. /\ count \in DOMAIN corpus.items /\ blk = corpus.items[count] /\ blk.limit \in Nat
      /\ txi + 1 \in DOMAIN blk.txs /\ tx = blk.txs[txi + 1] /\ txi \in Nat /\ tx.gas \in Nat
  <2>1. blk \in Block /\ txi \in Nat /\ txi < Len(blk.txs) /\ tx = blk.txs[txi + 1]
    BY AtHand
  <2>2. blk.txs \in Seq(Tx) /\ Len(blk.txs) \in Nat /\ blk.limit \in Nat
    BY <2>1, ExecutedType
  <2>3. txi + 1 \in 1 .. Len(blk.txs)
    BY <2>1, <2>2
  <2>4. tx \in Tx
    BY <2>1, <2>2, <2>3
  <2>5. count \in 1 .. Len(corpus.items) /\ corpus.items \in Seq(Block \cup {Malformed})
    BY CorpusType DEF IInv, Inside, TypeOK
  <2>6. count \in DOMAIN corpus.items /\ blk = corpus.items[count]
    BY <2>5 DEF blk
  <2>7. tx.gas \in Nat
    BY <2>4 DEF Tx, TxFields
  <2> QED BY <2>1, <2>2, <2>3, <2>6, <2>7
<1>2. tx.gas + Promise!GasUpTo(blk, (txi + 1) - 1) <= blk.limit
  BY <1>1 DEF Canonical
<1>3. (txi + 1) - 1 = txi
  BY <1>1
<1>4. pool = blk.limit - Promise!GasUpTo(blk, txi) /\ Promise!GasUpTo(blk, txi) \in Nat
  BY DEF Follows, BlockFollows, IInv, TypeOK
<1> QED BY <1>1, <1>2, <1>3, <1>4

LEMMA RejectHasSkip ==
    ASSUME IInv, Follows, RejectTx, Canonical
    PROVE  \E e \in EarlierOf(count, txi + 1) :
               IsSystemTx(corpus.items[e[1]].txs[e[2]], corpus.items[e[1]].coinbase)
<1>1. SUFFICES ASSUME \A e \in EarlierOf(count, txi + 1) :
                 ~IsSystemTx(corpus.items[e[1]].txs[e[2]], corpus.items[e[1]].coinbase)
               PROVE  FALSE
  OBVIOUS
<1>2. /\ pc = "txs" /\ MoreTxs /\ ~IsSystemTx(tx, blk.coinbase)
      /\ ~Acceptable(tx, nonces[tx.from], pool)
  BY DEF RejectTx
<1>3. nonces[tx.from] = Cardinality(EarlierOf(count, txi + 1)) /\ tx.gas <= pool
  BY <1>1, <1>2, NonceCounts, GasFits
<1>4. tx.signed /\ tx.funded /\ tx.nonce = Cardinality(EarlierOf(count, txi + 1))
  <2>1. /\ count \in DOMAIN corpus.items /\ txi + 1 \in DOMAIN corpus.items[count].txs
        /\ tx = corpus.items[count].txs[txi + 1]
    <3>1. blk \in Block /\ txi \in Nat /\ txi < Len(blk.txs) /\ tx = blk.txs[txi + 1]
      BY <1>2, AtHand
    <3>2. blk.txs \in Seq(Tx) /\ Len(blk.txs) \in Nat
      BY <3>1, ExecutedType
    <3>3. count \in 1 .. Len(corpus.items) /\ corpus.items \in Seq(Block \cup {Malformed})
      BY <1>2, CorpusType DEF IInv, Inside, TypeOK
    <3> QED BY <3>1, <3>2, <3>3 DEF blk
  <2> QED BY <2>1 DEF Canonical
<1> QED BY <1>2, <1>3, <1>4 DEF Acceptable

\* On any healthy corpus of any length, whatever its system transactions buy, a
\* block is rejected only if an earlier transaction of the same sender was
\* skipped (apply_block.go:74-77).
THEOREM RejectOnlyAfterSkipCorrect == Spec => []RejectOnlyAfterSkip
<1>1. Init => RejectOnlyAfterSkip
  BY DEF Init, Pending, NoResult, RejectOnlyAfterSkip
<1>2. ASSUME IInv, Follows, RejectOnlyAfterSkip, [Next]_vars
      PROVE  RejectOnlyAfterSkip'
  <2>1. CASE RejectTx
    <3>1. UNCHANGED <<corpus, count, txi>>
      BY <2>1 DEF RejectTx, block
    <3>2. Canonical' <=> Canonical
      BY <3>1 DEF Canonical, EarlierOf
    <3>3. Canonical => \E e \in EarlierOf(count, txi + 1) :
            IsSystemTx(corpus.items[e[1]].txs[e[2]], corpus.items[e[1]].coinbase)
      BY <1>2, <2>1, RejectHasSkip
    <3>4. EarlierOf(count, txi + 1)' = EarlierOf(count, txi + 1)
      BY <3>1 DEF EarlierOf
    <3> QED BY <3>1, <3>2, <3>3, <3>4 DEF RejectOnlyAfterSkip
  <2>2. CASE UNCHANGED vars
    <3>1. UNCHANGED <<corpus, count, txi, result>>
      BY <2>2 DEF vars, block
    <3>2. Canonical' <=> Canonical
      BY <3>1 DEF Canonical, EarlierOf
    <3>3. EarlierOf(count, txi + 1)' = EarlierOf(count, txi + 1)
      BY <3>1 DEF EarlierOf
    <3> QED BY <1>2, <3>1, <3>2, <3>3 DEF RejectOnlyAfterSkip
  <2>3. CASE ~RejectTx /\ ~UNCHANGED vars
    <3>0. \A e \in {"state", "config", "iter", "context", "read"} : NoResult(e).err # "apply"
      BY DEF NoResult
    <3>1. CASE OpenState \/ ResolveConfig \/ OpenIter \/ CheckContext \/ NextBlock
      <4>1. /\ pc # "returned"
            /\ result' = result \/ \E e \in {"state", "config", "iter", "context", "read"} :
                                      result' = NoResult(e)
        BY <3>1 DEF OpenState, ResolveConfig, OpenIter, CheckContext, NextBlock, ReturnError
      <4>2. result'.err # "apply"
        BY <1>2, <3>0, <4>1 DEF IInv, Inside
      <4> QED BY <4>2 DEF RejectOnlyAfterSkip
    <3>2. CASE Finish
      <4>1. result'.err = "none"
        BY <3>2 DEF Finish
      <4> QED BY <4>1 DEF RejectOnlyAfterSkip
    <3>3. CASE \/ Setup \/ BeginBlock \/ SkipTx \/ ApplyTx \/ EndTxs \/ Commit \/ RecordBlock
               \/ Signal \/ Elapse \/ StepWall \/ BackgroundRead
      <4>1. pc # "returned" /\ result' = result
        BY <3>3 DEF Setup, BeginBlock, SkipTx, ApplyTx, EndTxs, Commit, RecordBlock, Signal,
           Elapse, StepWall, BackgroundRead, Running
      <4>2. result'.err # "apply"
        BY <1>2, <4>1 DEF IInv, Inside
      <4> QED BY <4>2 DEF RejectOnlyAfterSkip
    <3> QED BY <1>2, <2>3, <3>1, <3>2, <3>3 DEF Next, Step, Returned
  <2> QED BY <2>1, <2>2, <2>3
<1> QED BY <1>1, <1>2, FollowsInvariant, PTL DEF Spec

=============================================================================
