----------------------------- MODULE DoublePass -----------------------------
(***************************************************************************)
(* runner.RunDoublePass: for each of the two passes, remove the work       *)
(* directory, copy the corpus's state into it (cp, else a walk), open the  *)
(* database, replay, close.  Directories survive the process, so a run     *)
(* starts from whatever an earlier run left, a run that was killed at any  *)
(* point included.  A pass itself is what BlockReplay promises: over an    *)
(* unspoilt copy its outcome is a function of the corpus.                  *)
(*                                                                         *)
(* A work directory maps every entry of the state directory to what it     *)
(* holds; Extra stands for the files a database adds while it is open.     *)
(* The databases are what lies in Stores: opening one of them that is a    *)
(* link writes into the corpus.                                            *)
(***************************************************************************)
EXTENDS Naturals, FiniteSets

CONSTANTS
    Files,     \* regular files of the corpus's state directory
    Links,     \* symbolic links in it
    Stores,    \* the entries a database writes: chaindata/ and ancient/
    Ancient,   \* the one of them that holds the freezers
    Extra,     \* a file that only an opened database has
    Verdicts,  \* does the corpus replay to its end?
    IOErrors,  \* may a file operation fail?
    CpFails,   \* may cp fail, or be absent, or be killed with the group?
    MaxRuns    \* bound: processes started

ASSUME DoublePassAssumption ==
    /\ Stores \subseteq Files \cup Links
    /\ Ancient \in Stores
    /\ Files \cap Links = {}
    /\ Extra \notin Files \cup Links
    /\ Verdicts \subseteq BOOLEAN
    /\ IOErrors \in BOOLEAN /\ CpFails \in BOOLEAN
    /\ MaxRuns \in Nat \ {0}

VARIABLES
    pc,       \* where RunDoublePass is
    pass,     \* which of the two passes it is busy with
    skip,     \* DoublePassConfig.Skip
    dirs,     \* the two work directories
    todo,     \* entries the copy has still to produce
    source,   \* has the corpus's own data been left alone?
    locks,    \* freezers whose FLOCK this process holds
    fresh,    \* history: was the copy unspoilt when the database was opened?
    ctxErr,   \* ctx.Err() # nil
    results,  \* out.Warmup and out.Measured
    err,      \* the error returned
    verdict,  \* does this corpus replay to its end?
    runs      \* history: processes started so far

dpvars == <<pc, pass, skip, dirs, todo, source, locks, fresh, ctxErr, results,
            err, verdict, runs>>

Passes == {"warmup", "measured"}
Entries == Files \cup Links
Content == {"none", "partial", "good", "used", "link"}
Steps == {"remove", "cp", "walk", "open", "triedb", "loop", "blocks", "close", "clean"}
Gas == {"none", "same", "other"}   \* "same": the corpus's own total
Errors == {"none", "remove", "copy", "open", "lock", "context", "replay"}

TypeOK ==
    /\ pc \in Steps \cup {"returned", "down"}
    /\ pass \in Passes
    /\ skip \in BOOLEAN
    /\ dirs \in [Passes -> [Entries \cup {Extra} -> Content]]
    /\ todo \subseteq Entries
    /\ source \in {"good", "used"}
    /\ locks \subseteq Passes \cup {"corpus"}
    /\ fresh \in BOOLEAN /\ ctxErr \in BOOLEAN /\ verdict \in Verdicts
    /\ results \in [Passes -> Gas]
    /\ err \in Errors
    /\ runs \in 1 .. MaxRuns

Empty == [e \in Entries \cup {Extra} |-> "none"]

NoResults == [p \in Passes |-> "none"]

\* A slip: the warm-up is skipped whatever the flag says.
AlwaysMeasured(s) == "measured"

FirstPass(s) == IF s THEN "measured" ELSE "warmup"

Init ==
    /\ pc = "remove"
    /\ skip \in BOOLEAN
    /\ pass = FirstPass(skip)
    /\ locks = {} /\ fresh = FALSE /\ ctxErr = FALSE
    /\ results = NoResults /\ err = "none"
    /\ dirs = [p \in Passes |-> Empty]
    /\ todo = {}
    /\ source = "good"
    /\ verdict \in Verdicts
    /\ runs = 1

-----------------------------------------------------------------------------
(* Errors, and the work directory.                                         *)

At(step) == pc = step

\* Every error returns from RunDoublePass; a deferred db.Close runs first.
Return(e) == pc' = "returned" /\ err' = e

\* An error that the file system or the database may report at any call.
Fails(e) ==
    /\ IOErrors
    /\ Return(e)
    /\ UNCHANGED <<pass, skip, dirs, todo, source, locks, fresh, ctxErr, results,
                   verdict, runs>>

dir == dirs[pass]
Put(e, c) == dirs' = [dirs EXCEPT ![pass][e] = c]

Gone == dir = Empty

\* RemoveWorkdir: os.RemoveAll takes the entries away one by one, the link
\* and not its target, and is done when there is none.
RemoveEntry ==
    /\ At("remove") \/ At("clean")
    /\ \E e \in DOMAIN dir : dir[e] # "none" /\ Put(e, "none")
    /\ UNCHANGED <<pc, pass, skip, todo, source, locks, fresh, ctxErr, results, err,
                   verdict, runs>>

RemoveDone ==
    /\ At("remove")
    /\ Gone
    /\ pc' = "cp"
    /\ todo' = Entries
    /\ UNCHANGED <<pass, skip, dirs, source, locks, fresh, ctxErr, results, err,
                   verdict, runs>>

RemoveFails == At("remove") /\ Fails("remove")

-----------------------------------------------------------------------------
(* CopyState.                                                              *)

\* cp -a and walkCopy both copy a file by truncating it and filling it.
\* cp also replaces links; walkCopy's os.Symlink fails on an existing one.
CopyStart ==
    /\ At("cp") \/ At("walk")
    /\ \A e \in todo : dir[e] # "partial" \/ e \notin Files
    /\ \E f \in todo \cap Files : Put(f, "partial")
    /\ UNCHANGED <<pc, pass, skip, todo, source, locks, fresh, ctxErr, results, err,
                   verdict, runs>>

CopyEnd ==
    /\ At("cp") \/ At("walk")
    /\ \E f \in todo \cap Files :
          /\ dir[f] = "partial"
          /\ Put(f, "good")
          /\ todo' = todo \ {f}
    /\ UNCHANGED <<pc, pass, skip, source, locks, fresh, ctxErr, results, err,
                   verdict, runs>>

CopyLink ==
    /\ At("cp") \/ At("walk")
    /\ \E l \in todo \cap Links :
          /\ dir[l] = "none"
          /\ Put(l, "link")
          /\ todo' = todo \ {l}
    /\ UNCHANGED <<pc, pass, skip, source, locks, fresh, ctxErr, results, err,
                   verdict, runs>>

LinkExists ==
    /\ At("walk")
    /\ \E l \in todo \cap Links : dir[l] = "link"
    /\ Return("copy")
    /\ UNCHANGED <<pass, skip, dirs, todo, source, locks, fresh, ctxErr, results,
                   verdict, runs>>

\* Slips: the fall-back copies only what cp had not begun; it walks the
\* destination.
Untouched == {e \in Entries : dir[e] = "none"}
WalkDestination == DOMAIN dir

\* What the fall-back has to copy: everything.
ToWalk == Entries

CpEndsBadly ==
    /\ At("cp")
    /\ CpFails
    /\ pc' = "walk"
    /\ todo' = ToWalk
    /\ UNCHANGED <<pass, skip, dirs, source, locks, fresh, ctxErr, results, err,
                   verdict, runs>>

\* MkdirAll of the directory, or any call of the walk, reports an error.
CopyFails ==
    /\ At("walk") \/ (At("cp") /\ Gone)
    /\ Fails("copy")

CopyDone ==
    /\ At("cp") \/ At("walk")
    /\ todo = {}
    /\ pc' = "open"
    /\ UNCHANGED <<pass, skip, dirs, todo, source, locks, fresh, ctxErr, results, err,
                   verdict, runs>>

-----------------------------------------------------------------------------
(* Opening, replaying, closing.                                            *)

\* The directory is an image of the corpus and nothing else.
Pristine(d) ==
    /\ \A f \in Files : dirs[d][f] = "good"
    /\ \A l \in Links : dirs[d][l] = "link"
    /\ dirs[d][Extra] = "none"
    /\ source = "good"

\* Pebble and the freezer are opened for writing, each where its path leads:
\* through a link that is the corpus's own data.
OpenForWriting ==
    /\ dirs' = [dirs EXCEPT ![pass] =
                  [e \in DOMAIN dir |->
                      IF e \in (Stores \ Links) \cup {Extra} THEN "used" ELSE dir[e]]]
    /\ source' = IF Stores \cap Links # {} THEN "used" ELSE source

Open ==
    /\ At("open")
    /\ pc' = "triedb"
    /\ fresh' = Pristine(pass)
    /\ OpenForWriting
    /\ UNCHANGED <<pass, skip, todo, locks, ctxErr, results, err, verdict, runs>>

\* The freezer may fail to open after pebble has been opened.
OpenFails ==
    /\ At("open")
    /\ IOErrors
    /\ Return("open")
    /\ OpenForWriting \/ UNCHANGED <<dirs, source>>
    /\ UNCHANGED <<pass, skip, todo, locks, fresh, ctxErr, results, verdict, runs>>

\* RunPass creates a triedb, which locks the state freezer of the directory
\* it finds Ancient in, and never closes it.
Freezer == IF Ancient \in Links THEN "corpus" ELSE pass

OpenTrie ==
    /\ At("triedb")
    /\ IF Freezer \in locks
       THEN Return("lock") /\ UNCHANGED locks
       ELSE pc' = "loop" /\ locks' = locks \cup {Freezer} /\ UNCHANGED err
    /\ UNCHANGED <<pass, skip, dirs, todo, source, fresh, ctxErr, results, verdict, runs>>

\* A slip: the context is not looked at before the first block.
NeverInterrupted == FALSE

Interrupted == ctxErr

\* The first look at the context, before the first block.
EnterLoop ==
    /\ At("loop")
    /\ IF Interrupted THEN Return("context") ELSE pc' = "blocks" /\ UNCHANGED err
    /\ UNCHANGED <<pass, skip, dirs, todo, source, locks, fresh, ctxErr, results,
                   verdict, runs>>

\* A pass over an unspoilt copy yields what the corpus determines; over
\* anything else it may yield anything.
Yield == IF fresh THEN IF verdict THEN {"same"} ELSE {} ELSE {"same", "other"}

ReplayEnds ==
    /\ At("blocks")
    /\ \E g \in Yield : results' = [results EXCEPT ![pass] = g]
    /\ pc' = "close"
    /\ UNCHANGED <<pass, skip, dirs, todo, source, locks, fresh, ctxErr, err, verdict, runs>>

ReplayFails ==
    /\ At("blocks")
    /\ \/ ctxErr /\ Return("context")
       \/ ~(fresh /\ verdict) /\ Return("replay")
    /\ UNCHANGED <<pass, skip, dirs, todo, source, locks, fresh, ctxErr, results,
                   verdict, runs>>

\* After the warm-up db.Close and then a removal whose error is ignored;
\* after the measured pass the deferred db.Close, and the directory stays.
CloseWarmup ==
    /\ At("close")
    /\ pass = "warmup"
    /\ pc' = "clean"
    /\ UNCHANGED <<pass, skip, dirs, todo, source, locks, fresh, ctxErr, results, err,
                   verdict, runs>>

ToMeasured ==
    /\ At("clean")
    /\ dir = Empty \/ IOErrors
    /\ pass' = "measured"
    /\ pc' = "remove"
    /\ UNCHANGED <<skip, dirs, todo, source, locks, fresh, ctxErr, results, err,
                   verdict, runs>>

CloseMeasured ==
    /\ At("close")
    /\ pass = "measured"
    /\ Return("none")
    /\ UNCHANGED <<pass, skip, dirs, todo, source, locks, fresh, ctxErr, results,
                   verdict, runs>>

-----------------------------------------------------------------------------
(* The user, the kernel, and the next run.                                 *)

Running == pc \in Steps

Signal ==
    /\ Running
    /\ ~ctxErr
    /\ ctxErr' = TRUE
    /\ UNCHANGED <<pc, pass, skip, dirs, todo, source, locks, fresh, results, err,
                   verdict, runs>>

\* The process is killed: the files stay as it left them.
Crash ==
    /\ Running
    /\ pc' = "down"
    /\ UNCHANGED <<pass, skip, dirs, todo, source, locks, fresh, ctxErr, results, err,
                   verdict, runs>>

\* The garbage collector may close the files of a triedb that no pass uses
\* any more; nothing says when, or that it will.
Finalize ==
    /\ Running
    /\ pc \notin {"loop", "blocks"}
    /\ locks # {}
    /\ locks' = {}
    /\ UNCHANGED <<pc, pass, skip, dirs, todo, source, fresh, ctxErr, results, err,
                   verdict, runs>>

\* A new process on the same work directories.
NewProcess ==
    /\ runs < MaxRuns
    /\ runs' = runs + 1
    /\ pc' = "remove"
    /\ skip' \in BOOLEAN
    /\ pass' = FirstPass(skip')
    /\ locks' = {} /\ fresh' = FALSE /\ ctxErr' = FALSE
    /\ results' = NoResults /\ err' = "none"
    /\ UNCHANGED <<dirs, todo, source, verdict>>

Restart == ~Running /\ NewProcess

LastRunOver == ~Running /\ runs = MaxRuns /\ UNCHANGED dpvars

Remove == RemoveEntry \/ RemoveDone \/ RemoveFails
Copy == CopyStart \/ CopyEnd \/ CopyLink \/ LinkExists \/ CpEndsBadly \/ CopyFails \/ CopyDone
Replay == Open \/ OpenFails \/ OpenTrie \/ EnterLoop \/ ReplayEnds \/ ReplayFails
Close == CloseWarmup \/ ToMeasured \/ CloseMeasured

Step == Remove \/ Copy \/ Replay \/ Close

Next == Step \/ Signal \/ Finalize \/ Crash \/ Restart \/ LastRunOver

Spec == Init /\ [][Next]_dpvars /\ WF_dpvars(Step)

-----------------------------------------------------------------------------
(* Properties.                                                             *)

\* Whatever earlier runs left behind, and whether cp did the copy or died
\* half way and the walk did it, a database is opened only on an exact image
\* of the corpus's state (design.md:84: rewinding the state between passes
\* is what makes the runs comparable).
PristineOpen == At("open") => Pristine(pass)

\* Within a run the two passes execute the same work: their gas agrees.
PassesAgree ==
    \A p, q \in Passes : results[p] # "none" /\ results[q] # "none" => results[p] = results[q]

\* A measured result that is labelled warm has a whole warm-up pass of the
\* same process before it (warmup_state, replay.go:179).
WarmIsWarm == results["measured"] # "none" /\ ~skip => results["warmup"] # "none"

BeforeMeasuring ==
    Running /\ (pass = "warmup" \/ pc \notin {"blocks", "close"})

\* Once the user has interrupted, a measured pass that has not looked at the
\* context yet yields no result, also when the warm-up pass that was running
\* at that moment still came to its end (pass.go:91, double_pass.go:63-69).
InterruptWins ==
    \A k \in 1 .. MaxRuns :
        []((ctxErr /\ runs = k /\ BeforeMeasuring)
              => [](runs = k => results["measured"] = "none"))

\* open.go:17-22: no two triedbs of the process compete for a freezer's lock.
NoFreezerContention == err # "lock"

\* copy_state.go:15: when cp fails, the recursive copy takes over.  So with
\* a file system that reports no error a run never ends for want of a copy.
FallbackCopies == err # "copy"

=============================================================================
