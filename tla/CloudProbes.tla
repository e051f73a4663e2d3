---------------------------- MODULE CloudProbes ----------------------------
(***************************************************************************)
(* Cloud detection (internal/sysinfo/cloud.go): runCloudProbes starts one  *)
(* goroutine per provider and a closer, receives from a buffered channel,  *)
(* and returns the first answer that is not nil; returning, and the time   *)
(* out, and the command's own context, cancel the requests still under way.*)
(* A probe asks its questions in order; Detect gives up with nil when one  *)
(* it needs is not answered and leaves a field empty otherwise.            *)
(***************************************************************************)
EXTENDS Naturals, SequencesExt

CONSTANTS
    Probes,
    Questions,  \* what each probe asks, in order
    Needed      \* the questions without whose answer a probe returns nil

Fields == UNION {ToSet(Questions[p]) : p \in Probes}

ASSUME CloudAssumption ==
    /\ IsFiniteSet(Probes)
    /\ Questions \in [Probes -> Seq(STRING)]
    /\ \A p \in Probes : Questions[p] # << >>
    /\ \A p \in Probes : Needed \cap ToSet(Questions[p]) # {}
    /\ "pending" \notin Fields

VARIABLES
    main,      \* the caller: "spawn", "receive", "returned"
    spawned,   \* probes whose goroutine has been started
    closer,    \* "none", "waiting", "done"
    probe,     \* the goroutines: "new", "ask", "send", "sent", "exited"
    asked,     \* questions a probe has put
    info,      \* the answers it got; none is nil
    wg,        \* the WaitGroup
    results,   \* the channel
    closed,    \* is it closed?
    cancelled, \* is probeCtx done?
    found      \* what runCloudProbes returned

vars == <<main, spawned, closer, probe, asked, info, wg, results, closed, cancelled, found>>

Pending == {"pending"}
Nil == {}

TypeOK ==
    /\ main \in {"spawn", "receive", "returned"}
    /\ spawned \subseteq Probes
    /\ closer \in {"none", "waiting", "done"}
    /\ probe \in [Probes -> {"new", "ask", "send", "sent", "exited", "panic"}]
    /\ \A p \in Probes : asked[p] \in 0 .. Len(Questions[p])
    /\ info \in [Probes -> SUBSET Fields]
    /\ wg \in Nat
    /\ results \in Seq(SUBSET Fields)
    /\ closed \in BOOLEAN /\ cancelled \in BOOLEAN
    /\ found \in {Pending} \cup SUBSET Fields

Init ==
    /\ main = "spawn" /\ spawned = {} /\ closer = "none"
    /\ probe = [p \in Probes |-> "new"]
    /\ asked = [p \in Probes |-> 0]
    /\ info = [p \in Probes |-> Nil]
    /\ wg = 0
    /\ results = << >> /\ closed = FALSE
    /\ cancelled = FALSE
    /\ found = Pending

-----------------------------------------------------------------------------
(* The caller.                                                             *)

\* A slip: the goroutine is not counted.
NotAdded == wg

\* wg.Add(1)
Added == wg + 1

\* wg.Add(1) and go, probe by probe.
Spawn(p) ==
    /\ main = "spawn"
    /\ p \notin spawned
    /\ spawned' = spawned \cup {p}
    /\ wg' = Added
    /\ probe' = [probe EXCEPT ![p] = "ask"]
    /\ UNCHANGED <<main, closer, asked, info, results, closed, cancelled, found>>

\* A slip: the closer is started with the first probe.
SomeSpawned == spawned # {}

\* The loop over the probes is over.
AllSpawned == spawned = Probes

StartCloser ==
    /\ closer = "none"
    /\ AllSpawned
    /\ closer' = "waiting"
    /\ UNCHANGED <<main, spawned, probe, asked, info, wg, results, closed, cancelled, found>>

StartReceiving ==
    /\ main = "spawn"
    /\ spawned = Probes
    /\ closer # "none"
    /\ main' = "receive"
    /\ UNCHANGED <<spawned, closer, probe, asked, info, wg, results, closed, cancelled, found>>

\* A slip: the first answer is returned, nil or not.
AnyAnswer(r) == TRUE

Useful(r) == r # Nil

\* Returning runs the deferred cancel.
ReturnFound(r) ==
    /\ main' = "returned"
    /\ found' = r
    /\ cancelled' = TRUE

Receive ==
    /\ main = "receive"
    /\ results # << >>
    /\ results' = Tail(results)
    /\ IF Useful(Head(results)) THEN ReturnFound(Head(results))
                                ELSE UNCHANGED <<main, found, cancelled>>
    /\ UNCHANGED <<spawned, closer, probe, asked, info, wg, closed>>

ReceiveClosed ==
    /\ main = "receive"
    /\ results = << >>
    /\ closed
    /\ ReturnFound(Nil)
    /\ UNCHANGED <<spawned, closer, probe, asked, info, wg, results, closed>>

-----------------------------------------------------------------------------
(* A probe's goroutine.                                                    *)

\* What the program's three providers ask, one request after the other.
AwsQuestions == <<"token", "instance", "az", "region">>
AliyunQuestions == <<"instance", "az", "region">>
GcpQuestions == <<"instance", "az">>

Question(p) == Questions[p][asked[p] + 1]
LastQuestion(p) == asked[p] + 1 = Len(Questions[p])

NextStage(p) == [probe EXCEPT ![p] = IF LastQuestion(p) THEN "send" ELSE "ask"]

\* A request is answered; once the context is done none is.
Answered(p) ==
    /\ probe[p] = "ask"
    /\ ~cancelled
    /\ info' = [info EXCEPT ![p] = @ \cup {Question(p)}]
    /\ probe' = NextStage(p)
    /\ asked' = [asked EXCEPT ![p] = @ + 1]
    /\ UNCHANGED <<main, spawned, closer, wg, results, closed, cancelled, found>>

\* A slip: a missing instance type is one more empty field.
NeverGivesUp(p) == FALSE

GivesUp(p) == Question(p) \in Needed

\* It fails: refused, another status than 200, timed out, cancelled.
Unanswered(p) ==
    /\ probe[p] = "ask"
    /\ IF GivesUp(p)
       THEN info' = [info EXCEPT ![p] = Nil] /\ probe' = [probe EXCEPT ![p] = "send"]
       ELSE UNCHANGED info /\ probe' = NextStage(p)
    /\ asked' = [asked EXCEPT ![p] = @ + 1]
    /\ UNCHANGED <<main, spawned, closer, wg, results, closed, cancelled, found>>

\* A slip: an unbuffered channel.
NoBuffer == IF main = "receive" THEN 1 ELSE 0

\* make(chan ..., len(probes))
Capacity == Cardinality(Probes)

\* results <- p.Detect(probeCtx): blocks when the buffer is full, panics
\* when the channel is closed.
Send(p) ==
    /\ probe[p] = "send"
    /\ IF closed
       THEN probe' = [probe EXCEPT ![p] = "panic"] /\ UNCHANGED results
       ELSE /\ Len(results) < Capacity
            /\ results' = Append(results, info[p])
            /\ probe' = [probe EXCEPT ![p] = "sent"]
    /\ UNCHANGED <<main, spawned, closer, asked, info, wg, closed, cancelled, found>>

\* The deferred wg.Done().
Done(p) ==
    /\ probe[p] = "sent"
    /\ wg' = wg - 1
    /\ probe' = [probe EXCEPT ![p] = "exited"]
    /\ UNCHANGED <<main, spawned, closer, asked, info, results, closed, cancelled, found>>

\* wg.Wait(); close(results)
Close ==
    /\ closer = "waiting"
    /\ wg = 0
    /\ closed' = TRUE
    /\ closer' = "done"
    /\ UNCHANGED <<main, spawned, probe, asked, info, wg, results, cancelled, found>>

-----------------------------------------------------------------------------

\* The 500 ms are over, or the user has interrupted the command.
TimeOut ==
    /\ ~cancelled
    /\ cancelled' = TRUE
    /\ UNCHANGED <<main, spawned, closer, probe, asked, info, wg, results, closed, found>>

AllOver ==
    /\ main = "returned" /\ closer = "done"
    /\ \A p \in Probes : probe[p] = "exited"
    /\ UNCHANGED vars

Ask(p) == Answered(p) \/ Unanswered(p)
Caller == (\E p \in Probes : Spawn(p)) \/ StartCloser \/ StartReceiving \/ Receive \/ ReceiveClosed

Next ==
    \/ Caller \/ Close \/ TimeOut \/ AllOver
    \/ \E p \in Probes : Ask(p) \/ Send(p) \/ Done(p)

\* Every goroutine runs; a request ends one way or the other, because the
\* http client and the context both bound it.  Nothing is assumed of the
\* order in which the answers come.
Fairness ==
    /\ WF_vars(Caller) /\ WF_vars(Close)
    /\ \A p \in Probes : WF_vars(Ask(p)) /\ WF_vars(Send(p)) /\ WF_vars(Done(p))

Spec == Init /\ [][Next]_vars /\ Fairness

-----------------------------------------------------------------------------
(* Properties.                                                             *)

Answers == [p \in Probes |-> IF probe[p] \in {"new", "ask"} THEN Pending ELSE info[p]]

Promise == INSTANCE FirstAnswer WITH answer <- Answers, chosen <- found

\* The call returns what it promises whatever the order of the answers: some
\* probe's answer, nil only if every probe came back with nil, and always.
ImplementsFirstAnswer == Promise!Spec

\* No probe sends on the closed channel, which would bring the whole
\* command down after an hour of measuring (cloud.go:35-43).
NoSendOnClosed == \A p \in Probes : probe[p] # "panic"

\* Nothing is left behind: once the call is made every goroutine ends, also
\* those whose answer nobody receives any more.
NothingLeaks == <>[](closer = "done" /\ \A p \in Probes : probe[p] = "exited")

\* What is returned is usable: it names the instance type, and it lacks
\* another field only of a probe that got no answer to that question.
FoundIsUsable ==
    found \notin {Pending, Nil} =>
        \E p \in Probes : found = info[p] /\ Needed \cap ToSet(Questions[p]) \subseteq found

=============================================================================
