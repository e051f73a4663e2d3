-------------------------- MODULE DoublePassProofs --------------------------
(***************************************************************************)
(* What TLAPS proves of DoublePass: for any state directory, any number of *)
(* runs on the same work directories, and whatever fails or is killed, a   *)
(* pass starts on an exact image of the corpus, and so the two passes of a *)
(* run agree.  The one assumption is that neither chaindata/ nor ancient/, *)
(* which the databases write, is itself a symbolic link into the corpus:   *)
(* otherwise the first pass writes into what the second one copies.        *)
(***************************************************************************)
EXTENDS DoublePass, TLAPS

\* What may happen around the steps of RunDoublePass, also when a larger
\* program has them as some of its own: the context is cancelled, whether or
\* not a pass is under way, and a new process starts, whatever the last one did.
CtxDone ==
    /\ ctxErr' = TRUE
    /\ UNCHANGED <<pc, pass, skip, dirs, todo, source, locks, fresh, results, err,
                   verdict, runs>>

AnyNext == Step \/ CtxDone \/ Finalize \/ Crash \/ NewProcess

LEMMA NextIsAny == [Next]_dpvars => [AnyNext]_dpvars
BY DEF Next, AnyNext, Signal, CtxDone, Restart, LastRunOver

-----------------------------------------------------------------------------
(* Types.                                                                  *)

LEMMA TypeInit == Init => TypeOK
<1> SUFFICES ASSUME Init PROVE TypeOK
  OBVIOUS
<1>1. pc \in Steps /\ pass \in Passes /\ skip \in BOOLEAN
  BY DEF Init, Steps, Passes, FirstPass
<1>2. dirs \in [Passes -> [Entries \cup {Extra} -> Content]]
  BY DEF Init, Empty, Content
<1>3. results \in [Passes -> Gas] /\ err \in Errors
  BY DEF Init, NoResults, Gas, Errors
<1>4. runs \in 1 .. MaxRuns
  BY DoublePassAssumption DEF Init
<1>5. fresh \in BOOLEAN /\ ctxErr \in BOOLEAN /\ verdict \in Verdicts
  BY DEF Init
<1>6. todo \subseteq Entries /\ source \in {"good", "used"} /\ locks \subseteq Passes \cup {"corpus"}
  BY DEF Init
<1> QED BY <1>1, <1>2, <1>3, <1>4, <1>5, <1>6 DEF TypeOK

\* Setting one entry of a work directory keeps the directories well typed.
LEMMA PutType ==
    ASSUME TypeOK, NEW e \in Entries \cup {Extra}, NEW c \in Content, Put(e, c)
    PROVE  dirs' \in [Passes -> [Entries \cup {Extra} -> Content]]
BY DEF TypeOK, Put

\* So does a database that is opened.
LEMMA OpenType ==
    ASSUME TypeOK, OpenForWriting
    PROVE  /\ dirs' \in [Passes -> [Entries \cup {Extra} -> Content]]
           /\ source' \in {"good", "used"}
BY DEF TypeOK, OpenForWriting, dir, Content

LEMMA TypeStep == TypeOK /\ [AnyNext]_dpvars => TypeOK'
<1> SUFFICES ASSUME TypeOK, [AnyNext]_dpvars PROVE TypeOK'
  OBVIOUS
<1> USE DEF TypeOK, Steps, Errors, At, Return, Fails
<1>1. CASE RemoveEntry
  <2>1. PICK e \in DOMAIN dir : Put(e, "none")
    BY <1>1 DEF RemoveEntry
  <2>2. e \in Entries \cup {Extra}
    BY <2>1 DEF dir
  <2>3. dirs' \in [Passes -> [Entries \cup {Extra} -> Content]]
    BY <2>1, <2>2, PutType DEF Content
  <2> QED BY <1>1, <2>3 DEF RemoveEntry
<1>2. CASE RemoveDone \/ RemoveFails
  BY <1>2 DEF RemoveDone, RemoveFails
<1>3. CASE CopyStart
  <2>1. PICK f \in todo \cap Files : Put(f, "partial")
    BY <1>3 DEF CopyStart
  <2>2. dirs' \in [Passes -> [Entries \cup {Extra} -> Content]]
    BY <2>1, PutType DEF Content, Entries
  <2> QED BY <1>3, <2>2 DEF CopyStart
<1>4. CASE CopyEnd
  <2>1. PICK f \in todo \cap Files : Put(f, "good") /\ todo' = todo \ {f}
    BY <1>4 DEF CopyEnd
  <2>2. dirs' \in [Passes -> [Entries \cup {Extra} -> Content]]
    BY <2>1, PutType DEF Content, Entries
  <2> QED BY <1>4, <2>1, <2>2 DEF CopyEnd
<1>5. CASE CopyLink
  <2>1. PICK l \in todo \cap Links : Put(l, "link") /\ todo' = todo \ {l}
    BY <1>5 DEF CopyLink
  <2>2. dirs' \in [Passes -> [Entries \cup {Extra} -> Content]]
    BY <2>1, PutType DEF Content, Entries
  <2> QED BY <1>5, <2>1, <2>2 DEF CopyLink
<1>6. CASE LinkExists \/ CpEndsBadly \/ CopyFails \/ CopyDone
  BY <1>6 DEF LinkExists, CpEndsBadly, CopyFails, CopyDone, ToWalk
<1>7. CASE Open
  <2>1. dirs' \in [Passes -> [Entries \cup {Extra} -> Content]] /\ source' \in {"good", "used"}
    BY <1>7, OpenType DEF Open
  <2>2. fresh' \in BOOLEAN
    BY <1>7 DEF Open, Pristine
  <2> QED BY <1>7, <2>1, <2>2 DEF Open
<1>8. CASE OpenFails
  <2>1. CASE OpenForWriting
    BY <1>8, <2>1, OpenType DEF OpenFails
  <2>2. CASE UNCHANGED <<dirs, source>>
    BY <1>8, <2>2 DEF OpenFails
  <2> QED BY <1>8, <2>1, <2>2 DEF OpenFails
<1>15. CASE OpenTrie \/ EnterLoop
  BY <1>15 DEF OpenTrie, EnterLoop, Freezer
<1>9. CASE ReplayEnds
  <2>1. results' \in [Passes -> Gas]
    BY <1>9 DEF ReplayEnds, Yield, Gas
  <2> QED BY <1>9, <2>1 DEF ReplayEnds
<1>10. CASE ReplayFails \/ CloseWarmup \/ CloseMeasured
  BY <1>10 DEF ReplayFails, CloseWarmup, CloseMeasured
<1>11. CASE ToMeasured
  BY <1>11 DEF ToMeasured, Passes
<1>12. CASE CtxDone \/ Finalize \/ Crash
  <2>1. CASE CtxDone
    BY <2>1 DEF CtxDone
  <2>2. CASE Finalize
    BY <2>2 DEF Finalize
  <2>3. CASE Crash
    BY <2>3 DEF Crash
  <2> QED BY <1>12, <2>1, <2>2, <2>3
<1>13. CASE NewProcess
  <2>1. pc' \in Steps /\ pass' \in Passes /\ skip' \in BOOLEAN
    BY <1>13 DEF NewProcess, FirstPass, Passes
  <2>2. results' \in [Passes -> Gas] /\ err' \in Errors
    BY <1>13 DEF NewProcess, NoResults, Gas
  <2>3. runs' \in 1 .. MaxRuns
    BY <1>13, DoublePassAssumption DEF NewProcess
  <2>4. fresh' \in BOOLEAN /\ ctxErr' \in BOOLEAN /\ locks' \subseteq Passes \cup {"corpus"}
    BY <1>13 DEF NewProcess
  <2>5. UNCHANGED <<dirs, todo, source, verdict>>
    BY <1>13 DEF NewProcess
  <2> QED BY <2>1, <2>2, <2>3, <2>4, <2>5
<1>14. CASE UNCHANGED dpvars
  BY <1>14 DEF dpvars
<1> QED
  BY <1>1, <1>2, <1>3, <1>4, <1>5, <1>6, <1>7, <1>8, <1>9, <1>10, <1>11, <1>12, <1>13,
     <1>14, <1>15 DEF AnyNext, Step, Remove, Copy, Replay, Close

\* Every reachable state is well typed.
THEOREM TypeCorrect == Spec => []TypeOK
BY TypeInit, TypeStep, NextIsAny, PTL DEF Spec

-----------------------------------------------------------------------------
(* The copy.                                                               *)

\* Entries no longer to be copied are as in the corpus, and nothing but
\* entries of the corpus is there.
CopiedSoFar ==
    /\ \A f \in Files \ todo : dir[f] = "good"
    /\ \A l \in Links \ todo : dir[l] = "link"
    /\ dir[Extra] = "none"

\* What holds while a copy is made, after it, and of the corpus always.
CopyInv ==
    /\ source = "good"
    /\ pc \in {"cp", "walk"} => CopiedSoFar
    /\ pc = "open" => Pristine(pass)

\* Copying or linking one entry.
LEMMA CopiedOne ==
    ASSUME TypeOK, CopiedSoFar, pass' = pass,
           NEW e \in todo, NEW c \in Content, Put(e, c),
           todo' = todo \/ (todo' = todo \ {e} /\ c = IF e \in Files THEN "good" ELSE "link")
    PROVE  CopiedSoFar'
<1>1. e \in Entries /\ e # Extra
  BY DoublePassAssumption DEF TypeOK, Entries
<1>2. dir' = [dir EXCEPT ![e] = c]
  BY DEF Put, dir, TypeOK
<1>3. DOMAIN dir = Entries \cup {Extra}
  BY DEF dir, TypeOK
<1>4. \A d \in Entries \cup {Extra} : dir'[d] = IF d = e THEN c ELSE dir[d]
  BY <1>2, <1>3
<1> QED BY <1>1, <1>4, DoublePassAssumption DEF CopiedSoFar, Entries

LEMMA CopyStep ==
    ASSUME Stores \cap Links = {}
    PROVE  TypeOK /\ CopyInv /\ [AnyNext]_dpvars => CopyInv'
<1> SUFFICES ASSUME TypeOK, CopyInv, [AnyNext]_dpvars PROVE CopyInv'
  OBVIOUS
<1> USE DEF CopyInv, At, Return, Fails
<1>1. CASE RemoveEntry
  BY <1>1 DEF RemoveEntry
<1>2. CASE RemoveDone
  <2>1. CopiedSoFar'
    BY <1>2, DoublePassAssumption DEF RemoveDone, CopiedSoFar, Gone, Empty, dir, Entries
  <2> QED BY <1>2, <2>1 DEF RemoveDone
<1>3. CASE CopyStart
  <2>1. PICK f \in todo \cap Files : Put(f, "partial")
    BY <1>3 DEF CopyStart
  <2>2. CopiedSoFar'
    BY <1>3, <2>1, CopiedOne DEF CopyStart, Content
  <2> QED BY <1>3, <2>2 DEF CopyStart
<1>4. CASE CopyEnd
  <2>1. PICK f \in todo \cap Files : Put(f, "good") /\ todo' = todo \ {f}
    BY <1>4 DEF CopyEnd
  <2>2. CopiedSoFar'
    BY <1>4, <2>1, CopiedOne DEF CopyEnd, Content
  <2> QED BY <1>4, <2>2 DEF CopyEnd
<1>5. CASE CopyLink
  <2>1. PICK l \in todo \cap Links : Put(l, "link") /\ todo' = todo \ {l}
    BY <1>5 DEF CopyLink
  <2>2. l \notin Files
    BY <2>1, DoublePassAssumption
  <2>3. CopiedSoFar'
    BY <1>5, <2>1, <2>2, CopiedOne DEF CopyLink, Content
  <2> QED BY <1>5, <2>3 DEF CopyLink
<1>6. CASE CpEndsBadly
  <2>1. CopiedSoFar'
    BY <1>6, DoublePassAssumption DEF CpEndsBadly, CopiedSoFar, ToWalk, Entries, dir
  <2> QED BY <1>6, <2>1 DEF CpEndsBadly
<1>7. CASE CopyDone
  <2>1. Pristine(pass)'
    BY <1>7 DEF CopyDone, CopiedSoFar, Pristine, dir
  <2> QED BY <1>7, <2>1 DEF CopyDone
<1>8. CASE Open \/ OpenFails
  BY <1>8 DEF Open, OpenFails, OpenForWriting
<1>9. CASE RemoveFails \/ LinkExists \/ CopyFails
  BY <1>9 DEF RemoveFails, LinkExists, CopyFails
<1>10. CASE OpenTrie \/ EnterLoop \/ ReplayEnds \/ ReplayFails
  BY <1>10 DEF OpenTrie, EnterLoop, ReplayEnds, ReplayFails
<1>11. CASE Close
  BY <1>11 DEF Close, CloseWarmup, ToMeasured, CloseMeasured
<1>12. CASE CtxDone \/ Finalize
  BY <1>12 DEF CtxDone, Finalize, CopiedSoFar, Pristine, dir
<1>13. CASE Crash \/ NewProcess
  BY <1>13 DEF Crash, NewProcess
<1>14. CASE UNCHANGED dpvars
  BY <1>14 DEF dpvars, CopiedSoFar, Pristine, dir
<1> QED
  BY <1>1, <1>2, <1>3, <1>4, <1>5, <1>6, <1>7, <1>8, <1>9, <1>10, <1>11, <1>12, <1>13,
     <1>14 DEF AnyNext, Step, Remove, Copy, Replay

LEMMA CopyInvariant ==
    ASSUME Stores \cap Links = {}
    PROVE  Spec => [](TypeOK /\ CopyInv)
<1>1. Init => CopyInv
  BY DEF Init, CopyInv
<1>2. TypeOK /\ CopyInv /\ [AnyNext]_dpvars => CopyInv'
  BY CopyStep
<1> QED BY <1>1, <1>2, NextIsAny, TypeCorrect, PTL DEF Spec

\* However the copy was made and whatever was left behind, the database is
\* opened on an exact image of the corpus.
THEOREM PristineOpenCorrect ==
    ASSUME Stores \cap Links = {}
    PROVE  Spec => []PristineOpen
<1>1. CopyInv => PristineOpen
  BY DEF CopyInv, PristineOpen, At
<1> QED BY <1>1, CopyInvariant, PTL

-----------------------------------------------------------------------------
(* The results.                                                            *)

\* A database that is open was opened on an unspoilt copy, so a result is
\* what the corpus determines; and results come in order.
ResultInv ==
    /\ pc \in {"triedb", "loop", "blocks"} => fresh
    /\ \A p \in Passes : results[p] # "other"
    /\ results["measured"] # "none" => pass = "measured"
    /\ pass = "warmup" => ~skip
    /\ pass = "measured" /\ ~skip => results["warmup"] # "none"
    /\ pass = "warmup" /\ pc \in {"close", "clean"} => results["warmup"] # "none"
    /\ pass = "measured" /\ pc = "close" => results["measured"] # "none"
    /\ pass = "measured" => pc # "clean"
    /\ pc = "returned" /\ err = "none" => results["measured"] # "none"

LEMMA ResultStep == TypeOK /\ CopyInv /\ ResultInv /\ [AnyNext]_dpvars => ResultInv'
<1> SUFFICES ASSUME TypeOK, CopyInv, ResultInv, [AnyNext]_dpvars PROVE ResultInv'
  OBVIOUS
<1> USE DEF ResultInv, At, Return, Fails
<1>1. CASE Remove
  BY <1>1 DEF Remove, RemoveEntry, RemoveDone, RemoveFails
<1>2. CASE Copy
  BY <1>2 DEF Copy, CopyStart, CopyEnd, CopyLink, LinkExists, CpEndsBadly, CopyFails, CopyDone
<1>3. CASE Open
  BY <1>3 DEF Open, CopyInv
<1>4. CASE OpenFails \/ OpenTrie \/ EnterLoop \/ ReplayFails
  BY <1>4 DEF OpenFails, OpenTrie, EnterLoop, ReplayFails
<1>5. CASE ReplayEnds
  <2>1. fresh
    BY <1>5 DEF ReplayEnds
  <2>2. results' = [results EXCEPT ![pass] = "same"]
    BY <1>5, <2>1 DEF ReplayEnds, Yield
  <2>3. pass \in Passes /\ results \in [Passes -> Gas]
    BY DEF TypeOK
  <2> QED BY <1>5, <2>1, <2>2, <2>3 DEF ReplayEnds, Passes
<1>6. CASE CloseWarmup \/ CloseMeasured
  BY <1>6 DEF CloseWarmup, CloseMeasured
<1>7. CASE ToMeasured
  BY <1>7 DEF ToMeasured, TypeOK, Passes
<1>8. CASE CtxDone \/ Finalize \/ Crash
  BY <1>8 DEF CtxDone, Finalize, Crash, Running, Steps
<1>9. CASE NewProcess
  BY <1>9 DEF NewProcess, NoResults, FirstPass, Passes
<1>10. CASE UNCHANGED dpvars
  BY <1>10 DEF dpvars
<1> QED
  BY <1>1, <1>2, <1>3, <1>4, <1>5, <1>6, <1>7, <1>8, <1>9, <1>10
     DEF AnyNext, Step, Replay, Close

LEMMA ResultInvariant ==
    ASSUME Stores \cap Links = {}
    PROVE  Spec => []ResultInv
<1>1. Init => ResultInv
  BY DEF Init, ResultInv, NoResults, FirstPass, Passes
<1> QED BY <1>1, ResultStep, NextIsAny, CopyInvariant, PTL DEF Spec

\* A return without an error follows a measured pass on an unspoilt copy and,
\* unless it was to be skipped, such a warm-up pass.
LEMMA ResultsSame ==
    ASSUME TypeOK, ResultInv, pc = "returned", err = "none"
    PROVE  results["measured"] = "same" /\ (skip \/ results["warmup"] = "same")
<1>1. pass = "measured" /\ results["measured"] # "none"
  BY DEF ResultInv
<1> QED BY <1>1 DEF ResultInv, TypeOK, Gas, Passes

\* The warm-up and the measured pass of a run yield the same gas.
THEOREM PassesAgreeCorrect ==
    ASSUME Stores \cap Links = {}
    PROVE  Spec => []PassesAgree
<1>1. TypeOK /\ ResultInv => PassesAgree
  BY DEF TypeOK, ResultInv, PassesAgree, Gas
<1> QED BY <1>1, ResultInvariant, TypeCorrect, PTL

\* A measured result not labelled as skipped follows a complete warm-up.
THEOREM WarmIsWarmCorrect ==
    ASSUME Stores \cap Links = {}
    PROVE  Spec => []WarmIsWarm
<1>1. ResultInv => WarmIsWarm
  BY DEF ResultInv, WarmIsWarm
<1> QED BY <1>1, ResultInvariant, PTL

=============================================================================
