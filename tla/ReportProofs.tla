---------------------------- MODULE ReportProofs ----------------------------
(***************************************************************************)
(* What TLAPS proves of the cloud detection, alone and within the command, *)
(* for any providers and questions: no probe sends on the closed channel,  *)
(* and what is returned is usable; and of the figures, for any input: the  *)
(* percentiles are ranks, the disk totals true, the disks those that hold  *)
(* the paths, and every processor and core is counted once.                *)
(***************************************************************************)
EXTENDS Report, SumLemmas, FiniteSetTheorems, TLAPS

\* The goroutines the wait group has to wait for.
Running == {p \in Probes : probe[p] \in {"ask", "send", "sent"}}

\* The wait group counts them, and the closer waits for all of them.
Counted ==
    /\ asked \in [Probes -> Nat]
    /\ \A p \in Probes : probe[p] = "ask" => asked[p] < Len(Questions[p])
    /\ \A p \in Probes : probe[p] = "new" <=> p \notin spawned
    /\ \A p \in Probes : probe[p] = "new" => asked[p] = 0
    /\ wg = Cardinality(Running)
    /\ closer # "none" => spawned = Probes
    /\ closed <=> closer = "done"
    /\ closed => Running = {}
    /\ NoSendOnClosed

Complete(p) == Needed \cap ToSet(Questions[p]) \subseteq info[p]
HasSent(p) == probe[p] \in {"sent", "exited"}

\* A probe that has gone on has what it needs of the questions so far, and an
\* answer on its way is that of a probe which will not change it any more.
Heard ==
    /\ \A p \in Probes : probe[p] = "ask" =>
          \A i \in 1 .. asked[p] : Questions[p][i] \in Needed => Questions[p][i] \in info[p]
    /\ \A p \in Probes : probe[p] \in {"send", "sent", "exited"} => info[p] = Nil \/ Complete(p)
    /\ \A i \in 1 .. Len(results) :
          results[i] = Nil \/ \E p \in Probes : HasSent(p) /\ results[i] = info[p]
    /\ found \notin {Pending, Nil} => \E p \in Probes : HasSent(p) /\ found = info[p]

IInv == TypeOK /\ Counted /\ Heard

-----------------------------------------------------------------------------

LEMMA RunningFinite == IsFiniteSet(Running) /\ Cardinality(Running) \in Nat
<1>1. Running \subseteq Probes
  BY DEF Running
<1>2. IsFiniteSet(Running)
  BY <1>1, CloudAssumption, FS_Subset
<1> QED BY <1>2, FS_CardinalityType

\* The question put next is one of the probe's, and one of the fields.
LEMMA QuestionType ==
    ASSUME Counted, NEW p \in Probes, probe[p] = "ask"
    PROVE  /\ asked[p] + 1 \in 1 .. Len(Questions[p])
           /\ Question(p) \in ToSet(Questions[p])
           /\ Question(p) \in Fields
<1>1. Questions[p] \in Seq(STRING) /\ Len(Questions[p]) \in Nat
  BY CloudAssumption
<1>2. asked[p] + 1 \in DOMAIN Questions[p]
  BY <1>1 DEF Counted
<1>3. Question(p) \in ToSet(Questions[p])
  BY <1>2 DEF Question, ToSet
<1> QED BY <1>1, <1>2, <1>3 DEF Fields

LEMMA InitIInv == Init => IInv
<1> SUFFICES ASSUME Init PROVE IInv
  OBVIOUS
<1>1. TypeOK
  <2>1. \A p \in Probes : Len(Questions[p]) \in Nat
    BY CloudAssumption
  <2>2. results \in Seq(SUBSET Fields)
    BY DEF Init
  <2>3. probe \in [Probes -> {"new", "ask", "send", "sent", "exited", "panic"}]
    BY DEF Init
  <2>4. info \in [Probes -> SUBSET Fields]
    BY DEF Init, Nil
  <2>5. found \in {Pending} \cup SUBSET Fields
    BY DEF Init
  <2>6. \A p \in Probes : asked[p] \in 0 .. Len(Questions[p])
    <3>1. \A p \in Probes : asked[p] = 0
      BY DEF Init
    <3> QED BY <2>1, <3>1
  <2>7. /\ main = "spawn" /\ spawned = {} /\ closer = "none" /\ wg = 0
        /\ closed = FALSE /\ cancelled = FALSE
    BY DEF Init
  <2> QED BY <2>2, <2>3, <2>4, <2>5, <2>6, <2>7 DEF TypeOK
<1>2. Counted
  <2>1. Running = {}
    BY DEF Running, Init
  <2>2. wg = Cardinality(Running)
    BY <2>1, FS_EmptySet DEF Init
  <2> QED BY <2>1, <2>2 DEF Counted, Init, NoSendOnClosed
<1>3. Heard
  BY DEF Heard, Init, Pending, Nil
<1> QED BY <1>1, <1>2, <1>3 DEF IInv

-----------------------------------------------------------------------------
(* Types.                                                                  *)

LEMMA AskTyped ==
    ASSUME IInv, NEW p \in Probes, Ask(p)
    PROVE  TypeOK'
<1> USE DEF IInv
<1>1. CASE Answered(p)
  <2>1. Question(p) \in Fields
    BY <1>1, QuestionType DEF Answered
  <2>2. info' \in [Probes -> SUBSET Fields]
    BY <1>1, <2>1 DEF Answered, TypeOK
  <2>3. \A q \in Probes : asked'[q] \in 0 .. Len(Questions[q])
    BY <1>1, CloudAssumption, QuestionType DEF Answered, TypeOK, Counted
  <2> QED BY <1>1, <2>2, <2>3 DEF Answered, TypeOK, NextStage
<1>2. CASE Unanswered(p)
  <2>1. info' \in [Probes -> SUBSET Fields]
    BY <1>2 DEF Unanswered, TypeOK, Nil
  <2>2. \A q \in Probes : asked'[q] \in 0 .. Len(Questions[q])
    BY <1>2, CloudAssumption, QuestionType DEF Unanswered, TypeOK, Counted
  <2> QED BY <1>2, <2>1, <2>2 DEF Unanswered, TypeOK, NextStage
<1> QED BY <1>1, <1>2 DEF Ask

LEMMA AppendType ==
    ASSUME NEW S, NEW s \in Seq(S), NEW x \in S
    PROVE  Append(s, x) \in Seq(S)
OBVIOUS

LEMMA Typed == IInv /\ [Next]_vars => TypeOK'
<1> SUFFICES ASSUME IInv, [Next]_vars PROVE TypeOK'
  OBVIOUS
<1> USE DEF IInv, TypeOK
<1>1. ASSUME NEW p \in Probes, Spawn(p) PROVE TypeOK'
  BY <1>1 DEF Spawn, Added
<1>2. CASE StartCloser
  BY <1>2 DEF StartCloser
<1>3. CASE StartReceiving
  BY <1>3 DEF StartReceiving
<1>4. CASE Receive
  <2>1. Head(results) \in SUBSET Fields /\ Tail(results) \in Seq(SUBSET Fields)
    BY <1>4 DEF Receive
  <2> QED BY <1>4, <2>1 DEF Receive, ReturnFound
<1>5. CASE ReceiveClosed
  BY <1>5 DEF ReceiveClosed, ReturnFound, Nil
<1>6. CASE Close
  BY <1>6 DEF Close
<1>7. CASE TimeOut
  BY <1>7 DEF TimeOut
<1>8. ASSUME NEW p \in Probes, Ask(p) PROVE TypeOK'
  BY <1>8, AskTyped
<1>9. ASSUME NEW p \in Probes, Send(p) PROVE TypeOK'
  <2>1. results' \in Seq(SUBSET Fields)
    <3>1. results' = results \/ results' = Append(results, info[p])
      BY <1>9 DEF Send
    <3>2. results \in Seq(SUBSET Fields) /\ info[p] \in SUBSET Fields
      OBVIOUS
    <3>3. Append(results, info[p]) \in Seq(SUBSET Fields)
      BY <3>2, AppendType
    <3> QED BY <3>1, <3>2, <3>3
  <2>2. probe' \in [Probes -> {"new", "ask", "send", "sent", "exited", "panic"}]
    BY <1>9 DEF Send
  <2> QED BY <1>9, <2>1, <2>2 DEF Send
<1>10. ASSUME NEW p \in Probes, Done(p) PROVE TypeOK'
  <2>1. p \in Running
    BY <1>10 DEF Done, Running
  <2>2. Cardinality(Running) # 0
    BY <2>1, RunningFinite, FS_EmptySet
  <2>3. wg - 1 \in Nat
    BY <2>2, RunningFinite DEF Counted
  <2> QED BY <1>10, <2>3 DEF Done
<1>11. CASE UNCHANGED vars
  BY <1>11 DEF vars
<1> QED BY <1>1, <1>2, <1>3, <1>4, <1>5, <1>6, <1>7, <1>8, <1>9, <1>10, <1>11
        DEF Next, Caller, AllOver

-----------------------------------------------------------------------------
(* The wait group.                                                         *)

LEMMA AskCounted ==
    ASSUME IInv, NEW p \in Probes, Ask(p)
    PROVE  Counted'
<1> USE DEF IInv
<1>1. /\ probe[p] = "ask"
      /\ asked' = [asked EXCEPT ![p] = @ + 1]
      /\ probe' = [probe EXCEPT ![p] = "send"] \/ probe' = NextStage(p)
      /\ UNCHANGED <<main, spawned, closer, wg, results, closed, cancelled, found>>
  BY DEF Ask, Answered, Unanswered
<1>2. /\ probe' \in [Probes -> {"new", "ask", "send", "sent", "exited", "panic"}]
      /\ probe'[p] \in {"ask", "send"}
      /\ \A q \in Probes \ {p} : probe'[q] = probe[q]
      /\ probe'[p] = "ask" => ~LastQuestion(p)
  BY <1>1 DEF NextStage, TypeOK
<1>3. Running' = Running
  BY <1>1, <1>2 DEF Running
<1>4. \A q \in Probes : probe'[q] = "ask" => asked'[q] < Len(Questions[q])
  <2>1. Len(Questions[p]) \in Nat /\ asked[p] < Len(Questions[p])
    BY <1>1, CloudAssumption DEF Counted
  <2>2. asked'[p] = asked[p] + 1 /\ \A q \in Probes \ {p} : asked'[q] = asked[q]
    BY <1>1 DEF Counted
  <2>3. asked[p] \in Nat
    BY DEF Counted
  <2>4. probe'[p] = "ask" => asked'[p] < Len(Questions[p])
    BY <1>2, <2>1, <2>2, <2>3 DEF LastQuestion
  <2>5. \A q \in Probes \ {p} : probe'[q] = "ask" => asked'[q] < Len(Questions[q])
    BY <1>2, <2>2 DEF Counted
  <2> QED BY <2>4, <2>5
<1>5. asked' \in [Probes -> Nat]
  BY <1>1 DEF Counted
<1>6. \A q \in Probes : probe'[q] = "new" <=> probe[q] = "new"
  BY <1>1, <1>2
<1>7. \A q \in Probes : probe'[q] = "new" => asked'[q] = 0
  BY <1>1, <1>2, <1>6 DEF Counted
<1>8. NoSendOnClosed'
  BY <1>2 DEF Counted, NoSendOnClosed
<1>9. wg' = Cardinality(Running')
  BY <1>1, <1>3 DEF Counted
<1> QED BY <1>1, <1>3, <1>4, <1>5, <1>6, <1>7, <1>8, <1>9 DEF Counted

LEMMA CountedStep == IInv /\ [Next]_vars => Counted'
<1> SUFFICES ASSUME IInv, [Next]_vars PROVE Counted'
  OBVIOUS
<1> USE DEF IInv
<1>1. ASSUME NEW p \in Probes, Spawn(p) PROVE Counted'
  <2>1. p \notin Running /\ Running' = Running \cup {p}
    BY <1>1 DEF Spawn, Running, Counted, TypeOK
  <2>2. wg' = Cardinality(Running')
    BY <1>1, <2>1, RunningFinite, FS_AddElement DEF Spawn, Added, Counted
  <2>3. asked[p] = 0 /\ 0 < Len(Questions[p])
    BY <1>1, CloudAssumption DEF Spawn, Counted
  <2>4. \A q \in Probes : probe'[q] = "ask" => asked'[q] < Len(Questions[q])
    BY <1>1, <2>3 DEF Spawn, Counted, TypeOK
  <2>5. closer = "none" /\ ~closed
    BY <1>1 DEF Spawn, Counted
  <2> QED BY <1>1, <2>1, <2>2, <2>4, <2>5 DEF Spawn, Counted, NoSendOnClosed, TypeOK
<1>2. CASE StartCloser
  BY <1>2 DEF StartCloser, AllSpawned, Counted, Running, NoSendOnClosed
<1>3. CASE StartReceiving
  BY <1>3 DEF StartReceiving, Counted, Running, NoSendOnClosed
<1>4. CASE Receive
  BY <1>4 DEF Receive, Counted, Running, NoSendOnClosed
<1>5. CASE ReceiveClosed
  BY <1>5 DEF ReceiveClosed, Counted, Running, NoSendOnClosed
<1>6. CASE Close
  <2>1. Running = {} /\ Running' = Running
    BY <1>6, RunningFinite, FS_EmptySet DEF Close, Counted, Running
  <2> QED BY <1>6, <2>1 DEF Close, Counted, NoSendOnClosed
<1>7. CASE TimeOut
  BY <1>7 DEF TimeOut, Counted, Running, NoSendOnClosed
<1>8. ASSUME NEW p \in Probes, Ask(p) PROVE Counted'
  BY <1>8, AskCounted
<1>9. ASSUME NEW p \in Probes, Send(p) PROVE Counted'
  <2>1. p \in Running
    BY <1>9 DEF Send, Running
  <2>2. ~closed
    BY <2>1 DEF Counted
  <2>3. probe' = [probe EXCEPT ![p] = "sent"]
    BY <1>9, <2>2 DEF Send
  <2>4. Running' = Running
    BY <1>9, <2>3 DEF Send, Running, TypeOK
  <2> QED BY <1>9, <2>3, <2>4 DEF Send, Counted, NoSendOnClosed, TypeOK
<1>10. ASSUME NEW p \in Probes, Done(p) PROVE Counted'
  <2>1. p \in Running /\ Running' = Running \ {p}
    BY <1>10 DEF Done, Running, TypeOK
  <2>2. wg' = Cardinality(Running')
    BY <1>10, <2>1, RunningFinite, FS_RemoveElement DEF Done, Counted
  <2> QED BY <1>10, <2>1, <2>2 DEF Done, Counted, NoSendOnClosed, TypeOK
<1>11. CASE UNCHANGED vars
  BY <1>11 DEF vars, Counted, Running, NoSendOnClosed
<1> QED BY <1>1, <1>2, <1>3, <1>4, <1>5, <1>6, <1>7, <1>8, <1>9, <1>10, <1>11
        DEF Next, Caller, AllOver

-----------------------------------------------------------------------------
(* The answers.                                                            *)

LEMMA AskHeard ==
    ASSUME IInv, NEW p \in Probes, Ask(p)
    PROVE  Heard'
<1> USE DEF IInv
<1>1. /\ probe[p] = "ask" /\ asked' = [asked EXCEPT ![p] = @ + 1]
      /\ results' = results /\ found' = found
  BY DEF Ask, Answered, Unanswered
<1>2. /\ \A q \in Probes \ {p} : probe'[q] = probe[q] /\ info'[q] = info[q]
                                 /\ asked'[q] = asked[q]
      /\ asked'[p] = asked[p] + 1 /\ asked[p] \in Nat
      /\ probe'[p] = "ask" => ~LastQuestion(p) /\ ~(Unanswered(p) /\ GivesUp(p))
      /\ probe'[p] \in {"ask", "send"}
  BY <1>1 DEF Ask, Answered, Unanswered, NextStage, TypeOK, Counted
<1> DEFINE Covered == \A i \in 1 .. asked'[p] :
                        Questions[p][i] \in Needed => Questions[p][i] \in info'[p]
<1>3. (info'[p] = Nil /\ probe'[p] = "send") \/ Covered
  <2>1. CASE Answered(p)
    <3>1. info'[p] = info[p] \cup {Questions[p][asked[p] + 1]}
      BY <2>1 DEF Answered, Question, TypeOK
    <3> QED BY <1>1, <1>2, <3>1 DEF Heard
  <2>2. CASE Unanswered(p) /\ ~GivesUp(p)
    <3>1. info'[p] = info[p] /\ Questions[p][asked[p] + 1] \notin Needed
      BY <2>2 DEF Unanswered, GivesUp, Question
    <3> QED BY <1>1, <1>2, <3>1 DEF Heard
  <2>3. CASE Unanswered(p) /\ GivesUp(p)
    BY <2>3 DEF Unanswered, TypeOK
  <2> QED BY <2>1, <2>2, <2>3 DEF Ask
<1>4. probe'[p] = "send" => info'[p] = Nil \/ Needed \cap ToSet(Questions[p]) \subseteq info'[p]
  <2>1. SUFFICES ASSUME probe'[p] = "send", info'[p] # Nil
                 PROVE  Needed \cap ToSet(Questions[p]) \subseteq info'[p]
    OBVIOUS
  <2>2. Covered
    BY <1>3, <2>1
  <2>3. LastQuestion(p)
    <3>1. ~(Unanswered(p) /\ GivesUp(p))
      BY <2>1 DEF Unanswered, TypeOK
    <3> QED BY <3>1, <2>1 DEF Ask, Answered, Unanswered, NextStage, TypeOK
  <2>4. DOMAIN Questions[p] = 1 .. asked'[p]
    <3>1. Questions[p] \in Seq(STRING)
      BY CloudAssumption
    <3> QED BY <1>2, <2>3, <3>1 DEF LastQuestion
  <2> QED BY <2>2, <2>4 DEF ToSet
<1>5. \A q \in Probes : HasSent(q) => HasSent(q)' /\ info'[q] = info[q]
  BY <1>1, <1>2 DEF HasSent
<1>6. \A q \in Probes : probe'[q] = "ask" =>
         \A i \in 1 .. asked'[q] : Questions[q][i] \in Needed => Questions[q][i] \in info'[q]
  BY <1>2, <1>3 DEF Heard
<1>7. \A q \in Probes : probe'[q] \in {"send", "sent", "exited"} => info'[q] = Nil \/ Complete(q)'
  BY <1>2, <1>4 DEF Heard, Complete
<1>8. \A i \in 1 .. Len(results') :
        results'[i] = Nil \/ \E q \in Probes : HasSent(q)' /\ results'[i] = info'[q]
  BY <1>1, <1>5 DEF Heard
<1>9. found' \notin {Pending, Nil} => \E q \in Probes : HasSent(q)' /\ found' = info'[q]
  BY <1>1, <1>5 DEF Heard
<1> QED BY <1>6, <1>7, <1>8, <1>9 DEF Heard, Pending, Nil

LEMMA SendHeard ==
    ASSUME IInv, NEW p \in Probes, Send(p)
    PROVE  Heard'
<1> USE DEF IInv
<1>1. ~closed
  BY DEF Send, Counted, Running
<1>2. /\ probe[p] = "send" /\ probe' = [probe EXCEPT ![p] = "sent"]
      /\ results' = Append(results, info[p])
      /\ UNCHANGED <<asked, info, found>>
  BY <1>1 DEF Send
<1>3. /\ \A q \in Probes : HasSent(q) => HasSent(q)'
      /\ HasSent(p)'
  BY <1>2 DEF HasSent, TypeOK
<1>4. \A i \in 1 .. Len(results') :
        results'[i] = Nil \/ \E q \in Probes : HasSent(q)' /\ results'[i] = info'[q]
  <2> TAKE i \in 1 .. Len(results')
  <2>1. results \in Seq(SUBSET Fields) /\ info[p] \in SUBSET Fields
    BY DEF TypeOK
  <2>2. CASE i \in 1 .. Len(results)
    <3>1. results'[i] = results[i]
      BY <1>2, <2>1, <2>2
    <3> QED BY <1>2, <1>3, <2>2, <3>1 DEF Heard
  <2>3. CASE i = Len(results) + 1
    <3>1. results'[i] = info[p]
      BY <1>2, <2>1, <2>3
    <3> QED BY <1>2, <1>3, <3>1
  <2> QED BY <1>2, <2>1, <2>2, <2>3
<1> QED BY <1>2, <1>3, <1>4 DEF Heard, Complete, TypeOK

LEMMA HeardStep == IInv /\ [Next]_vars => Heard'
<1> SUFFICES ASSUME IInv, [Next]_vars PROVE Heard'
  OBVIOUS
<1> USE DEF IInv
<1>1. ASSUME NEW p \in Probes, Spawn(p) PROVE Heard'
  <2>1. asked[p] = 0 /\ probe[p] = "new"
    BY <1>1 DEF Spawn, Counted
  <2>2. /\ probe'[p] = "ask" /\ \A q \in Probes \ {p} : probe'[q] = probe[q]
        /\ asked' = asked /\ info' = info /\ results' = results /\ found' = found
    BY <1>1 DEF Spawn, TypeOK
  <2>3. \A q \in Probes : HasSent(q) => HasSent(q)'
    BY <2>1, <2>2 DEF HasSent
  <2>4. \A i \in 1 .. asked[p] : FALSE
    BY <2>1
  <2>5. \A q \in Probes : probe'[q] = "ask" =>
          \A i \in 1 .. asked'[q] : Questions[q][i] \in Needed => Questions[q][i] \in info'[q]
    BY <2>2, <2>4 DEF Heard
  <2>6. \A q \in Probes : probe'[q] \in {"send", "sent", "exited"} => info'[q] = Nil \/ Complete(q)'
    BY <2>2 DEF Heard, Complete
  <2>7. \A i \in 1 .. Len(results') :
          results'[i] = Nil \/ \E q \in Probes : HasSent(q)' /\ results'[i] = info'[q]
    BY <2>2, <2>3 DEF Heard
  <2>8. found' \notin {Pending, Nil} => \E q \in Probes : HasSent(q)' /\ found' = info'[q]
    BY <2>2, <2>3 DEF Heard
  <2> QED BY <2>5, <2>6, <2>7, <2>8 DEF Heard, Pending, Nil
<1>2. CASE StartCloser \/ StartReceiving \/ Close \/ TimeOut
  BY <1>2 DEF StartCloser, StartReceiving, Close, TimeOut, Heard, Complete, HasSent
<1>3. CASE Receive
  <2>1. /\ results \in Seq(SUBSET Fields) /\ results # << >>
        /\ results' = Tail(results)
        /\ UNCHANGED <<probe, asked, info>>
        /\ found' = found \/ found' = Head(results)
    BY <1>3 DEF Receive, ReturnFound, TypeOK
  <2>2. Head(results) = results[1] /\ 1 \in 1 .. Len(results)
    BY <2>1
  <2>3. \A i \in 1 .. Len(results') : i + 1 \in 1 .. Len(results) /\ results'[i] = results[i + 1]
    BY <2>1
  <2> QED BY <2>1, <2>2, <2>3 DEF Heard, Complete, HasSent
<1>4. CASE ReceiveClosed
  BY <1>4 DEF ReceiveClosed, ReturnFound, Heard, Complete, HasSent
<1>5. ASSUME NEW p \in Probes, Ask(p) PROVE Heard'
  BY <1>5, AskHeard
<1>6. ASSUME NEW p \in Probes, Send(p) PROVE Heard'
  BY <1>6, SendHeard
<1>7. ASSUME NEW p \in Probes, Done(p) PROVE Heard'
  BY <1>7 DEF Done, Heard, Complete, HasSent, TypeOK
<1>8. CASE UNCHANGED vars
  BY <1>8 DEF vars, Heard, Complete, HasSent
<1> QED BY <1>1, <1>2, <1>3, <1>4, <1>5, <1>6, <1>7, <1>8 DEF Next, Caller, AllOver

-----------------------------------------------------------------------------
(* The detection within the command.                                       *)

LEMMA ReportStep == [ReportNext]_allvars => [Next]_vars
BY DEF ReportNext, allvars, rvars, figures, Command, CollectCPU, CollectDisk, DetectCloud, CloudDetected,
       AggregateBlocks, Summarize, Goroutine, Closer, Cancel, Over, Next

LEMMA Invariance == ReportSpec => []IInv
<1>1. ReportInit => IInv
  BY InitIInv DEF ReportInit
<1>2. IInv /\ [ReportNext]_allvars => IInv'
  BY ReportStep, Typed, CountedStep, HeardStep DEF IInv
<1> QED BY <1>1, <1>2, PTL DEF ReportSpec

\* For any providers no probe sends on the closed channel, which would end the
\* command with a panic (cloud.go:35-43).
THEOREM NoSendOnClosedCorrect == ReportSpec => []NoSendOnClosed
<1>1. IInv => NoSendOnClosed
  BY DEF IInv, Counted
<1> QED BY <1>1, Invariance, PTL

\* For any questions, the answer that is returned is one probe's own and has
\* everything that probe needs (cloud.go:66-105, 120-144, 159-184).
THEOREM FoundIsUsableCorrect == ReportSpec => []FoundIsUsable
<1>1. IInv => FoundIsUsable
  BY DEF IInv, Heard, Complete, HasSent, FoundIsUsable
<1> QED BY <1>1, Invariance, PTL

-----------------------------------------------------------------------------
(* The promise of runCloudProbes.                                          *)

\* Until the call returns, no useful answer has been lost: it is in the
\* channel's buffer.
Delivered ==
    main # "returned" =>
        /\ found = Pending
        /\ \A p \in Probes : HasSent(p) /\ info[p] # Nil =>
              \E i \in 1 .. Len(results) : results[i] = info[p]

LEMMA DeliveredStep == IInv /\ Delivered /\ [Next]_vars => Delivered'
<1> SUFFICES ASSUME IInv, Delivered, [Next]_vars PROVE Delivered'
  OBVIOUS
<1> USE DEF IInv
<1>1. ASSUME NEW p \in Probes, Spawn(p) PROVE Delivered'
  BY <1>1 DEF Spawn, Delivered, HasSent, TypeOK
<1>2. CASE StartCloser \/ StartReceiving \/ Close \/ TimeOut
  BY <1>2 DEF StartCloser, StartReceiving, Close, TimeOut, Delivered, HasSent
<1>3. CASE Receive
  <2>1. /\ results \in Seq(SUBSET Fields) /\ results # << >>
        /\ results' = Tail(results)
        /\ UNCHANGED <<probe, info>>
        /\ main' # "returned" => Head(results) = Nil /\ found' = found
        /\ main = "receive"
    BY <1>3 DEF Receive, Useful, ReturnFound, TypeOK
  <2> SUFFICES ASSUME main' # "returned",
                      NEW p \in Probes, HasSent(p), info[p] # Nil
               PROVE  \E i \in 1 .. Len(results') : results'[i] = info[p]
    BY <2>1 DEF Delivered, HasSent
  <2>2. PICK i \in 1 .. Len(results) : results[i] = info[p]
    BY <2>1 DEF Delivered
  <2>3. i # 1
    BY <2>1, <2>2
  <2>4. i - 1 \in 1 .. Len(results') /\ results'[i - 1] = results[i]
    BY <2>1, <2>2, <2>3
  <2> QED BY <2>2, <2>4
<1>4. CASE ReceiveClosed
  BY <1>4 DEF ReceiveClosed, ReturnFound, Delivered
<1>5. ASSUME NEW p \in Probes, Ask(p) PROVE Delivered'
  <2>1. /\ probe[p] = "ask" /\ probe'[p] \in {"ask", "send"}
        /\ \A q \in Probes \ {p} : probe'[q] = probe[q] /\ info'[q] = info[q]
        /\ UNCHANGED <<main, results, found>>
    BY <1>5 DEF Ask, Answered, Unanswered, NextStage, TypeOK
  <2> QED BY <2>1 DEF Delivered, HasSent
<1>6. ASSUME NEW p \in Probes, Send(p) PROVE Delivered'
  <2>1. /\ results' = Append(results, info[p]) /\ results \in Seq(SUBSET Fields)
        /\ probe' = [probe EXCEPT ![p] = "sent"] /\ info[p] \in SUBSET Fields
        /\ UNCHANGED <<main, info, found>>
    BY <1>6 DEF Send, Counted, Running, TypeOK
  <2>2. \A i \in 1 .. Len(results) : i \in 1 .. Len(results') /\ results'[i] = results[i]
    BY <2>1
  <2>3. Len(results) + 1 \in 1 .. Len(results') /\ results'[Len(results) + 1] = info[p]
    BY <2>1
  <2>4. \A q \in Probes : HasSent(q)' => q = p \/ HasSent(q)
    BY <2>1 DEF HasSent, TypeOK
  <2> QED BY <2>1, <2>2, <2>3, <2>4 DEF Delivered
<1>7. ASSUME NEW p \in Probes, Done(p) PROVE Delivered'
  BY <1>7 DEF Done, Delivered, HasSent, TypeOK
<1>8. CASE UNCHANGED vars
  BY <1>8 DEF vars, Delivered, HasSent
<1> QED BY <1>1, <1>2, <1>3, <1>4, <1>5, <1>6, <1>7, <1>8 DEF Next, Caller, AllOver

\* No set of answers is mistaken for the mark of a probe still asking.
LEMMA PendingIsNone == \A S \in SUBSET Fields : S # Pending
BY CloudAssumption DEF Pending

LEMMA PromiseStep == IInv /\ Delivered /\ [Next]_vars => [Promise!Next]_Promise!vars
<1> SUFFICES ASSUME IInv, Delivered, [Next]_vars, UNCHANGED <<Answers, found>> => FALSE
             PROVE  Promise!Next
  BY DEF Promise!vars
<1> USE DEF IInv
<1>1. ASSUME NEW p \in Probes, Spawn(p) PROVE FALSE
  <2>1. probe[p] = "new"
    BY <1>1 DEF Spawn, Counted
  <2> QED BY <1>1, <2>1 DEF Spawn, Answers, TypeOK
<1>2. ASSUME StartCloser \/ StartReceiving \/ Close \/ TimeOut \/ UNCHANGED vars PROVE FALSE
  BY <1>2 DEF StartCloser, StartReceiving, Close, TimeOut, vars, Answers
<1>3. CASE Receive
  <2>1. /\ results \in Seq(SUBSET Fields) /\ results # << >>
        /\ UNCHANGED <<probe, info>>
        /\ main = "receive"
        /\ Head(results) = results[1] /\ 1 \in 1 .. Len(results)
    BY <1>3 DEF Receive, TypeOK
  <2>2. Answers' = Answers
    BY <2>1 DEF Answers
  <2>3. found' = Head(results) /\ Head(results) # Nil
    BY <1>3, <2>2 DEF Receive, Useful, ReturnFound
  <2>4. PICK q \in Probes : HasSent(q) /\ results[1] = info[q]
    BY <2>1, <2>3 DEF Heard
  <2>5. Answers[q] = info[q] /\ info[q] \in SUBSET Fields
    BY <2>4 DEF Answers, HasSent, TypeOK
  <2>6. Promise!Choose(q)
    BY <2>1, <2>2, <2>3, <2>4, <2>5, PendingIsNone
       DEF Delivered, Promise!Choose, Promise!Pending, Promise!Nothing, Pending, Nil
  <2> QED BY <2>6 DEF Promise!Next
<1>4. CASE ReceiveClosed
  <2>1. \A p \in Probes : HasSent(p)
    BY <1>4 DEF ReceiveClosed, Counted, Running, NoSendOnClosed, HasSent, TypeOK
  <2>2. \A p \in Probes : info[p] = Nil
    BY <1>4, <2>1 DEF ReceiveClosed, Delivered
  <2>3. \A p \in Probes : Answers[p] = Nil
    BY <2>1, <2>2 DEF Answers, HasSent
  <2>4. Promise!ChooseNothing
    BY <1>4, <2>3 DEF ReceiveClosed, ReturnFound, Delivered, Answers,
                      Promise!ChooseNothing, Promise!Pending, Promise!Nothing, Pending, Nil
  <2> QED BY <2>4 DEF Promise!Next
<1>5. ASSUME NEW p \in Probes, Ask(p) PROVE Promise!Next
  <2>1. /\ probe[p] = "ask" /\ probe'[p] \in {"ask", "send"}
        /\ \A q \in Probes \ {p} : probe'[q] = probe[q] /\ info'[q] = info[q]
        /\ found' = found
    BY <1>5 DEF Ask, Answered, Unanswered, NextStage, TypeOK
  <2>2. CASE probe'[p] = "ask"
    BY <2>1, <2>2 DEF Answers
  <2>3. CASE probe'[p] = "send"
    <3>1. Answers' = [Answers EXCEPT ![p] = info'[p]] /\ Answers[p] = Pending
      BY <2>1, <2>3 DEF Answers
    <3>2. info'[p] \in SUBSET Fields
      BY <1>5, AskTyped DEF TypeOK
    <3> QED BY <2>1, <3>1, <3>2 DEF Promise!Next, Promise!Answer, Promise!Pending, Pending
  <2> QED BY <2>1, <2>2, <2>3
<1>6. ASSUME NEW p \in Probes, Send(p) PROVE FALSE
  <2>1. probe[p] = "send" /\ probe' = [probe EXCEPT ![p] = "sent"] /\ UNCHANGED <<info, found>>
    BY <1>6 DEF Send, Counted, Running
  <2> QED BY <2>1 DEF Answers, TypeOK
<1>7. ASSUME NEW p \in Probes, Done(p) PROVE FALSE
  BY <1>7 DEF Done, Answers, TypeOK
<1> QED BY <1>1, <1>2, <1>3, <1>4, <1>5, <1>6, <1>7 DEF Next, Caller, AllOver

\* For any providers and any order of their answers, the call returns a useful
\* answer that a probe gave, nil only when every probe has answered nil, and
\* returns once (cloud.go:30-52): each step is one of FirstAnswer's or none.
THEOREM PromiseKept == ReportSpec => Promise!Init /\ [][Promise!Next]_Promise!vars
<1>1. ReportInit => Delivered
  BY DEF ReportInit, Init, Delivered, HasSent
<1>2. IInv /\ Delivered /\ [ReportNext]_allvars => Delivered'
  BY DeliveredStep, ReportStep
<1>3. ReportInit => Promise!Init
  BY DEF ReportInit, Init, Promise!Init, Answers, Promise!Pending, Pending
<1>4. IInv /\ Delivered /\ [ReportNext]_allvars => [Promise!Next]_Promise!vars
  BY PromiseStep, ReportStep
<1> QED BY <1>1, <1>2, <1>3, <1>4, Invariance, PTL DEF ReportSpec

-----------------------------------------------------------------------------
(* Figures.                                                                *)

\* The rank is a place in the column, and the least whose share of the column
\* is q percent (aggregator.go:23-31); so the clamps that follow do nothing.
LEMMA RankIsNearest ==
    ASSUME NEW n \in Nat \ {0}, NEW q \in 1 .. 100
    PROVE  /\ Rank(n, q) \in 1 .. n
           /\ q * n <= 100 * Rank(n, q)
           /\ 100 * (Rank(n, q) - 1) < q * n
<1>1. q * n \in Nat /\ 1 <= q * n /\ q * n <= 100 * n
  OBVIOUS
<1>2. \A m \in Nat : 1 <= m /\ m <= 100 * n =>
         LET r == (m + 99) \div 100 IN r \in 1 .. n /\ m <= 100 * r /\ 100 * (r - 1) < m
  OBVIOUS
<1> QED BY <1>1, <1>2 DEF Rank

\* What the figures rest on: the input does not change, and each figure is
\* set from it once.
Figured ==
    /\ input \in Inputs
    /\ stage \in {"cpu", "disk", "cloud", "blocks", "samples", "done"}
    /\ cores = IF stage = "cpu" THEN NoCores ELSE ParseCPUInfo(input.cpuinfo)
    /\ disks = IF stage \in {"cpu", "disk"} THEN {} ELSE CollectDisks(input.mounts, Interesting)
    /\ pct = IF stage \in {"samples", "done"} THEN [q \in Quantiles |-> Percentile(input.rows, q)]
             ELSE NoPct
    /\ summary = IF stage = "done" THEN SummarizeSamples(input.samples) ELSE NoSummary
    /\ total = IF stage = "done" THEN DiskDelta(input.samples) ELSE 0

LEMMA FiguredInvariant == ReportSpec => []Figured
<1>1. ReportInit => Figured
  BY DEF ReportInit, Figured
<1>2. Figured /\ [ReportNext]_allvars => Figured'
  BY DEF Figured, ReportNext, allvars, rvars, figures, Command, CollectCPU, CollectDisk, DetectCloud,
         CloudDetected, AggregateBlocks, Summarize, Goroutine, Closer, Cancel, Over, Interesting
<1> QED BY <1>1, <1>2, PTL DEF ReportSpec

\* For any growing list of readings: the disk total is exact when the first and
\* the last reading have succeeded, zero when the last has failed, and never a
\* wrapped difference (replay.go:219-232).
THEOREM DiskTotalsAreTrueCorrect == ReportSpec => []DiskTotalsAreTrue
<1>1. Figured => DiskTotalsAreTrue
  <2> SUFFICES ASSUME Figured, stage = "done", NEW s, s = input.samples, NEW n, n = Len(s)
               PROVE  /\ n < 2 => total = 0
                      /\ n >= 2 /\ s[n].readable /\ s[1].readable =>
                            total = s[n].bytes - s[1].bytes
                      /\ n >= 2 /\ ~s[n].readable => total = 0
                      /\ n >= 2 => total <= s[n].bytes
    BY DEF DiskTotalsAreTrue
  <2>1. /\ s \in Seq(ProcSample)
        /\ \A i, j \in DOMAIN s : i <= j => s[i].bytes <= s[j].bytes
    BY ReportAssumption DEF Figured, Input
  <2>2. n \in Nat /\ DOMAIN s = 1 .. n
    BY <2>1
  <2>3. n >= 2 => s[1] \in ProcSample /\ s[n] \in ProcSample /\ s[1].bytes <= s[n].bytes
    BY <2>1, <2>2
  <2>4. total = DiskDelta(s)
    BY DEF Figured
  <2>5. CASE n < 2
    BY <2>2, <2>4, <2>5 DEF DiskDelta
  <2>6. CASE ~ (n < 2)
    <3> DEFINE first == ReadSelfIO(s[1])
               last == ReadSelfIO(s[n])
    <3>1. total = IF last > first THEN last - first ELSE 0
      <4>1. Head(s) = s[1] /\ Last(s) = s[n]
        BY <2>1, <2>2, <2>6 DEF Last
      <4> QED BY <2>2, <2>4, <2>6, <4>1 DEF DiskDelta
    <3>2. /\ s[1].bytes \in Nat /\ s[n].bytes \in Nat /\ s[1].bytes <= s[n].bytes
          /\ s[1].readable \in BOOLEAN /\ s[n].readable \in BOOLEAN
      BY <2>2, <2>3, <2>6 DEF ProcSample
    <3>3. /\ first \in Nat /\ (s[1].readable => first = s[1].bytes)
          /\ last \in Nat /\ last <= s[n].bytes
          /\ (s[n].readable => last = s[n].bytes) /\ (~s[n].readable => last = 0)
      BY <3>2 DEF ReadSelfIO
    <3> HIDE DEF first, last
    <3> QED BY <2>2, <2>6, <3>1, <3>2, <3>3
  <2> QED BY <2>5, <2>6
<1> QED BY <1>1, FiguredInvariant, PTL

-----------------------------------------------------------------------------
(* Percentiles.                                                            *)

LEMMA PlacesFinite ==
    ASSUME NEW v \in Seq(Nat), NEW x
    PROVE  /\ IsFiniteSet(UpToValue(v, x)) /\ Cardinality(UpToValue(v, x)) \in Nat
           /\ IsFiniteSet(Smaller(v, x)) /\ Cardinality(Smaller(v, x)) \in Nat
<1>1. IsFiniteSet(1 .. Len(v)) /\ DOMAIN v = 1 .. Len(v)
  <2>1. Len(v) \in Int /\ 1 \in Int /\ DOMAIN v = 1 .. Len(v)
    OBVIOUS
  <2> QED BY <2>1, FS_Interval
<1>2. UpToValue(v, x) \subseteq 1 .. Len(v) /\ Smaller(v, x) \subseteq 1 .. Len(v)
  BY <1>1 DEF UpToValue, Smaller
<1> QED BY <1>1, <1>2, FS_Subset, FS_CardinalityType

\* A number below the bound m is at most the greatest number below m.
LEMMA NoneBetween ==
    ASSUME NEW m \in Nat, NEW x \in Nat, NEW y \in Nat, x < m,
           (IF y < m THEN y + 1 ELSE 0) <= x + 1
    PROVE  y < m <=> y <= x
OBVIOUS

\* Every place of a column has a value when the column is sorted.
LEMMA SortedIs ==
    ASSUME NEW v \in Seq(Nat), NEW r \in 1 .. Len(v)
    PROVE  /\ Sorted(v, r) \in ToSet(v)
           /\ Cardinality(Smaller(v, Sorted(v, r))) < r
           /\ r <= Cardinality(UpToValue(v, Sorted(v, r)))
<1> DEFINE n == Len(v)
           T == {x \in ToSet(v) : r <= Cardinality(UpToValue(v, x))}
<1>1. /\ n \in Nat /\ DOMAIN v = 1 .. n /\ n \in 1 .. n /\ r \in Nat /\ r >= 1 /\ r <= n
      /\ \A i \in 1 .. n : v[i] \in Nat
  OBVIOUS
<1>2. T # {}
  <2>1. PICK i \in 1 .. n : \A j \in 1 .. n : v[j] <= v[i]
    BY <1>1, Greatest
  <2>2. UpToValue(v, v[i]) = 1 .. n
    BY <1>1, <2>1 DEF UpToValue
  <2>3. Cardinality(1 .. n) = n
    <3>1. n \in Int /\ 1 \in Int /\ ~ (1 > n) /\ n - 1 + 1 = n
      BY <1>1
    <3> QED BY <3>1, FS_Interval
  <2>4. v[i] \in ToSet(v)
    BY <1>1 DEF ToSet
  <2> QED BY <1>1, <2>2, <2>3, <2>4
<1>3. T \subseteq Nat
  BY <1>1 DEF ToSet
<1>4. PICK m \in T : \A k \in T : m <= k
  <2> HIDE DEF T
  <2> QED BY <1>2, <1>3, LeastOfSet
<1>5. Cardinality(Smaller(v, m)) < r
  <2>1. CASE Smaller(v, m) = {}
    BY <1>1, <2>1, FS_EmptySet
  <2>2. CASE Smaller(v, m) # {}
    <3> DEFINE f == [i \in 1 .. n |-> IF v[i] < m THEN v[i] + 1 ELSE 0]
    <3>1. m \in Nat /\ \A i \in 1 .. n : f[i] \in Nat
      BY <1>1, <1>3
    <3>2. PICK i \in 1 .. n : \A j \in 1 .. n : f[j] <= f[i]
      <4> HIDE DEF f
      <4> QED BY <1>1, <3>1, Greatest
    <3>3. PICK j \in 1 .. n : v[j] < m
      BY <1>1, <2>2 DEF Smaller
    <3>4. v[i] < m
      <4>1. f[j] >= 1 /\ f[j] <= f[i]
        BY <1>1, <3>2, <3>3
      <4> QED BY <1>1, <4>1
    <3>5. \A k \in 1 .. n : v[k] < m <=> v[k] <= v[i]
      <4>1. ASSUME NEW k \in 1 .. n PROVE v[k] < m <=> v[k] <= v[i]
        <5>1. v[k] \in Nat /\ v[i] \in Nat
          BY <1>1
        <5>2. f[k] <= f[i]
          BY <3>2
        <5>3. f[i] = v[i] + 1
          BY <3>4
        <5>4. f[k] = IF v[k] < m THEN v[k] + 1 ELSE 0
          OBVIOUS
        <5>5. m \in Nat
          BY <3>1
        <5> HIDE DEF f
        <5> QED BY <3>4, <5>1, <5>2, <5>3, <5>4, <5>5, NoneBetween
      <4> QED BY <4>1
    <3>6. Smaller(v, m) = UpToValue(v, v[i])
      BY <1>1, <3>5 DEF Smaller, UpToValue
    <3>7. v[i] \in ToSet(v) /\ v[i] \notin T
      <4>1. v[i] \in ToSet(v) /\ v[i] \in Nat
        BY <1>1 DEF ToSet
      <4>2. ~ (m <= v[i])
        <5>1. m \in Nat
          BY <3>1
        <5> HIDE DEF f, T
        <5> QED BY <3>4, <4>1, <5>1
      <4> HIDE DEF T
      <4> QED BY <1>4, <4>1, <4>2
    <3>8. ~ (r <= Cardinality(UpToValue(v, v[i])))
      BY <3>7
    <3>9. Cardinality(UpToValue(v, v[i])) \in Nat
      BY <1>1, PlacesFinite
    <3> HIDE DEF f, T
    <3>10. Cardinality(UpToValue(v, v[i])) < r
      BY <1>1, <3>8, <3>9
    <3> QED BY <3>6, <3>10
  <2> QED BY <2>1, <2>2
<1>6. \E x \in ToSet(v) : Cardinality(Smaller(v, x)) < r /\ r <= Cardinality(UpToValue(v, x))
  BY <1>5
<1> QED BY <1>6 DEF Sorted

\* Of the values of a column, q percent are at most the one at the nearest
\* rank, and fewer are at most any smaller one.
LEMMA PercentileIs ==
    ASSUME NEW v \in Seq(Nat), v # << >>, NEW q \in 1 .. 100, NEW x, x = Percentile(v, q)
    PROVE  /\ x \in ToSet(v)
           /\ 100 * Below(v, x) >= q * Len(v)
           /\ \A y \in ToSet(v) : y < x => 100 * Below(v, y) < q * Len(v)
<1> DEFINE n == Len(v)
           r == Rank(n, q)
<1>1. n \in Nat \ {0}
  OBVIOUS
<1>2. q * n \in Nat
  BY <1>1
<1>3. r \in 1 .. n /\ q * n <= 100 * r /\ 100 * (r - 1) < q * n
  <2> HIDE DEF n
  <2> QED BY <1>1, RankIsNearest
<1>4. Clamp(q, 0, 100) = q
  BY DEF Clamp
<1>5. Clamp(r, 1, n) = r
  <2> HIDE DEF n, r
  <2> QED BY <1>1, <1>3 DEF Clamp
<1>6. x = Sorted(v, r)
  BY <1>4, <1>5 DEF Percentile
<1> DEFINE share == q * n
<1>7. r \in Nat /\ share \in Nat /\ share <= 100 * r /\ 100 * (r - 1) < share
  BY <1>1, <1>2, <1>3
<1>8. /\ x \in ToSet(v)
      /\ Cardinality(Smaller(v, x)) < r /\ r <= Cardinality(UpToValue(v, x))
  BY <1>3, <1>6, SortedIs
<1> HIDE DEF n, r, share
<1>9. 100 * Below(v, x) >= share
  <2>1. Below(v, x) = Cardinality(UpToValue(v, x))
    BY DEF Below, UpToValue
  <2> QED BY <1>7, <1>8, <2>1, PlacesFinite
<1>10. ASSUME NEW y \in ToSet(v), y < x PROVE 100 * Below(v, y) < share
  <2>1. x \in Nat /\ y \in Nat
    BY <1>8 DEF ToSet
  <2>2. UpToValue(v, y) \subseteq Smaller(v, x)
    BY <1>10, <2>1 DEF UpToValue, Smaller
  <2>3. Cardinality(UpToValue(v, y)) <= Cardinality(Smaller(v, x))
    BY <2>2, PlacesFinite, FS_Subset
  <2>4. Below(v, y) = Cardinality(UpToValue(v, y))
    BY DEF Below, UpToValue
  <2> DEFINE a == Cardinality(UpToValue(v, y))
             b == Cardinality(Smaller(v, x))
  <2>5. a \in Nat /\ b \in Nat /\ a <= b /\ b < r
    BY <1>8, <2>3, PlacesFinite
  <2> HIDE DEF a, b
  <2>6. 100 * a < share
    BY <1>7, <2>5
  <2> QED BY <2>4, <2>6 DEF a
<1> QED BY <1>8, <1>9, <1>10 DEF share, n

\* For any column of a report: each percentile is the smallest value that q
\* percent of the blocks do not exceed (aggregator.go:11-33).
THEOREM PercentilesAreRanksCorrect == ReportSpec => []PercentilesAreRanks
<1>1. Figured => PercentilesAreRanks
  <2> SUFFICES ASSUME Figured, stage \in {"samples", "done"}, NEW q \in Quantiles
               PROVE  IF input.rows = << >> THEN pct[q] = 0
                      ELSE /\ pct[q] \in ToSet(input.rows)
                           /\ 100 * Below(input.rows, pct[q]) >= q * Len(input.rows)
                           /\ \A x \in ToSet(input.rows) :
                                x < pct[q] => 100 * Below(input.rows, x) < q * Len(input.rows)
    BY DEF PercentilesAreRanks
  <2>1. pct[q] = Percentile(input.rows, q) /\ q \in 1 .. 100
    BY DEF Figured, Quantiles
  <2>2. input.rows \in Seq(Nat)
    BY ReportAssumption DEF Figured, Input
  <2>3. CASE input.rows = << >>
    BY <2>1, <2>3 DEF Percentile
  <2>4. CASE input.rows # << >>
    BY <2>1, <2>2, <2>4, PercentileIs
  <2> QED BY <2>3, <2>4
<1> QED BY <1>1, FiguredInvariant, PTL

-----------------------------------------------------------------------------
(* Disks.                                                                  *)

\* For an absolute path through no link the mounts that the program finds are
\* the devices listed above the place it leads to, in reach or not.
LEMMA MatchingIs ==
    ASSUME NEW p \in Path, p.abs, p.real = p.names, input.mounts \in Seq(Mount)
    PROVE  Matching(input.mounts, p) =
              {i \in DOMAIN input.mounts :
                  input.mounts[i].dev /\ IsPrefix(input.mounts[i].at, p.real)}
<1>1. \A t \in Seq(STRING) : IsPrefix(<< >>, t)
  <2> SUFFICES ASSUME NEW t \in Seq(STRING) PROVE IsPrefix(<< >>, t)
    OBVIOUS
  <2>1. Len(<< >>) = 0 /\ 0 <= Len(t) /\ SubSeq(<< >>, 1, 0) = SubSeq(t, 1, 0)
    OBVIOUS
  <2> QED BY <2>1 DEF IsPrefix
<1>2. p.real \in Seq(STRING)
  BY DEF Path
<1>3. \A i \in DOMAIN input.mounts :
         HasPathPrefix(p, input.mounts[i].at) <=> IsPrefix(input.mounts[i].at, p.real)
  BY <1>1, <1>2 DEF HasPathPrefix
<1> QED BY <1>3 DEF Matching, ParseMountinfo

\* Two mount points of one length above one place are one point.
LEMMA SamePoint ==
    ASSUME NEW s \in Seq(STRING), NEW t \in Seq(STRING), NEW u \in Seq(STRING),
           IsPrefix(s, u), IsPrefix(t, u), Len(s) = Len(t)
    PROVE  s = t
<1>1. SubSeq(s, 1, Len(s)) = SubSeq(u, 1, Len(s)) /\ SubSeq(t, 1, Len(t)) = SubSeq(u, 1, Len(t))
  BY DEF IsPrefix
<1>2. SubSeq(s, 1, Len(s)) = s /\ SubSeq(t, 1, Len(t)) = t
  OBVIOUS
<1> QED BY <1>1, <1>2

\* Of some mounts one is as deep as any.
LEMMA DeepestOfSome ==
    ASSUME NEW mounts \in Seq(Mount), NEW S \in SUBSET DOMAIN mounts, S # {}
    PROVE  \E i \in S : \A j \in S : Len(mounts[j].at) <= Len(mounts[i].at)
<1> DEFINE n == Len(mounts)
           depth(i) == Len(mounts[i].at)
           f == [i \in 1 .. n |-> IF i \in S THEN depth(i) + 1 ELSE 0]
<1>1. n \in Nat /\ DOMAIN mounts = 1 .. n /\ n \in 1 .. n
  OBVIOUS
<1>2. \A i \in S : depth(i) \in Nat
  <2> SUFFICES ASSUME NEW i \in S PROVE depth(i) \in Nat
    OBVIOUS
  <2>1. mounts[i] \in Mount
    BY <1>1
  <2>2. mounts[i].at \in Seq(STRING)
    BY <2>1 DEF Mount
  <2> QED BY <2>2
<1> HIDE DEF depth
<1>3. \A i \in 1 .. n : f[i] \in Nat
  BY <1>2
<1>4. PICK i \in 1 .. n : \A j \in 1 .. n : f[j] <= f[i]
  <2> HIDE DEF f
  <2> QED BY <1>1, <1>3, Greatest
<1>5. i \in S
  <2>1. PICK j \in S : TRUE
    OBVIOUS
  <2>2. f[j] = depth(j) + 1 /\ depth(j) \in Nat /\ f[j] <= f[i]
    BY <1>1, <1>2, <1>4
  <2>3. i \notin S => f[i] = 0
    BY <1>1
  <2> QED BY <2>2, <2>3
<1>6. ASSUME NEW j \in S PROVE depth(j) <= depth(i)
  <2>1. f[j] = depth(j) + 1 /\ f[i] = depth(i) + 1 /\ f[j] <= f[i]
    BY <1>1, <1>4, <1>5
  <2> QED BY <1>2, <1>5, <2>1
<1> QED BY <1>5, <1>6 DEF depth

\* A path above which something is in reach has a deepest mount.
LEMMA DeepestIs ==
    ASSUME NEW p, input.mounts \in Seq(Mount), Above(p) # {}
    PROVE  /\ Deepest(p) \in Above(p)
           /\ \A j \in Above(p) :
                 Len(input.mounts[j].at) <= Len(input.mounts[Deepest(p)].at)
<1>1. Above(p) \in SUBSET DOMAIN input.mounts
  BY DEF Above
<1>2. \E i \in Above(p) : \A j \in Above(p) : Len(input.mounts[j].at) <= Len(input.mounts[i].at)
  BY <1>1, DeepestOfSome
<1> QED BY <1>2 DEF Deepest

LEMMA HolderIsLongest ==
    ASSUME NEW p \in Path, p.abs, p.real = p.names, input \in Inputs,
           Above(p) # {}, Holder(p).dev, ~Shadowed(p)
    PROVE  /\ Matching(input.mounts, p) # {}
           /\ input.mounts[Longest(input.mounts, Matching(input.mounts, p))] = Holder(p)
<1> DEFINE n == Len(input.mounts)
           k == Deepest(p)
           depth(i) == Len(input.mounts[i].at)
           match == Matching(input.mounts, p)
           deepest == {i \in match : \A j \in match : depth(j) <= depth(i)}
<1>1. input.mounts \in Seq(Mount)
  BY ReportAssumption DEF Input
<1>2. n \in Nat /\ DOMAIN input.mounts = 1 .. n
  BY <1>1
<1>3. k \in Above(p) /\ \A j \in Above(p) : depth(j) <= depth(k)
  BY <1>1, DeepestIs
<1>4. match = {i \in DOMAIN input.mounts :
                 input.mounts[i].dev /\ IsPrefix(input.mounts[i].at, p.real)}
  BY <1>1, MatchingIs
<1>5. k \in match
  BY <1>3, <1>4 DEF Above, Holder
<1>6. \A i \in match : input.mounts[i].at \in Seq(STRING) /\ depth(i) \in Nat
  <2> SUFFICES ASSUME NEW i \in match
               PROVE  input.mounts[i].at \in Seq(STRING) /\ depth(i) \in Nat
    OBVIOUS
  <2>1. input.mounts[i] \in Mount
    BY <1>1, <1>4
  <2>2. input.mounts[i].at \in Seq(STRING)
    BY <2>1 DEF Mount
  <2> QED BY <2>2
<1>7. \A i \in match : i # k => depth(i) < depth(k)
  <2> SUFFICES ASSUME NEW i \in match, i # k PROVE depth(i) < depth(k)
    OBVIOUS
  <2>1. depth(i) \in Nat /\ depth(k) \in Nat
    BY <1>5, <1>6
  <2>2. CASE input.mounts[i].hidden
    <3>1. ~ (depth(k) <= depth(i))
      BY <1>4, <2>2 DEF Shadowed, Holder
    <3> HIDE DEF depth
    <3> QED BY <2>1, <3>1
  <2>3. CASE ~input.mounts[i].hidden
    <3>1. i \in Above(p)
      BY <1>4, <2>3 DEF Above
    <3>2. depth(i) <= depth(k)
      BY <1>3, <3>1
    <3>3. input.mounts[i].at # input.mounts[k].at
      BY <1>3, <1>4, <2>3, ReportAssumption DEF Above
    <3>4. depth(i) # depth(k)
      <4>1. /\ IsPrefix(input.mounts[i].at, p.real) /\ IsPrefix(input.mounts[k].at, p.real)
            /\ input.mounts[i].at \in Seq(STRING) /\ input.mounts[k].at \in Seq(STRING)
            /\ p.real \in Seq(STRING)
        BY <1>4, <1>5, <1>6 DEF Path
      <4> QED BY <3>3, <4>1, SamePoint
    <3> HIDE DEF depth
    <3> QED BY <2>1, <3>2, <3>4
  <2> QED BY <2>2, <2>3
<1> HIDE DEF match
<1>8. deepest = {k}
  <2> HIDE DEF depth
  <2>1. k \in deepest
    <3>1. ASSUME NEW j \in match PROVE depth(j) <= depth(k)
      BY <1>5, <1>6, <1>7
    <3> QED BY <1>5, <3>1
  <2>2. ASSUME NEW i \in deepest, i # k PROVE FALSE
    <3>1. depth(i) < depth(k) /\ depth(k) <= depth(i) /\ depth(i) \in Nat /\ depth(k) \in Nat
      BY <1>5, <1>6, <1>7, <2>2
    <3> QED BY <3>1
  <2> QED BY <2>1, <2>2
<1>9. Min({k}) = k
  <2>1. k \in 1 .. n
    BY <1>2, <1>3 DEF Above
  <2> HIDE DEF k
  <2> QED BY <2>1 DEF Min
<1>10. Longest(input.mounts, match) = Min(deepest)
  BY DEF Longest
<1> HIDE DEF deepest
<1> QED BY <1>5, <1>8, <1>9, <1>10 DEF Holder, match

\* For any mount table and any paths: the disk of an absolute path through no
\* link is the one the kernel would find, unless a device that is out of reach
\* is listed for the same point or below; and with only such paths no other
\* disk is reported (disk.go:71-93).
THEOREM DisksAreTheHoldersCorrect == ReportSpec => []DisksAreTheHolders
<1>1. Figured => DisksAreTheHolders
  <2> DEFINE plain(p) == /\ p.abs /\ p.real = p.names
                         /\ Above(p) # {} /\ Holder(p).dev /\ ~Shadowed(p)
             match(p) == Matching(input.mounts, p)
  <2> SUFFICES ASSUME Figured, stage \notin {"cpu", "disk"}
               PROVE  /\ \A p \in Interesting : plain(p) => Holder(p) \in disks
                      /\ (\A p \in Interesting : plain(p)) =>
                            disks = {Holder(p) : p \in Interesting}
    BY DEF DisksAreTheHolders
  <2>1. input \in Inputs /\ Interesting \subseteq Path
    BY ReportAssumption DEF Figured, Input, Interesting
  <2>2. disks = {input.mounts[Longest(input.mounts, match(p))] :
                    p \in {q \in Interesting : match(q) # {}}}
    BY DEF Figured, CollectDisks
  <2>3. \A p \in Interesting : plain(p) =>
           match(p) # {} /\ input.mounts[Longest(input.mounts, match(p))] = Holder(p)
    BY <2>1, HolderIsLongest
  <2> HIDE DEF plain, match
  <2> QED BY <2>2, <2>3
<1> QED BY <1>1, FiguredInvariant, PTL

-----------------------------------------------------------------------------
(* Processors.                                                             *)

LEMMA ProcsFinite ==
    ASSUME NEW lines \in Seq([key: STRING, value: STRING])
    PROVE  IsFiniteSet(Procs(lines)) /\ Cardinality(Procs(lines)) \in Nat
<1>1. Len(lines) \in Nat /\ DOMAIN lines = 1 .. Len(lines)
  OBVIOUS
<1>2. Procs(lines) \subseteq 1 .. Len(lines) + 1
  BY <1>1 DEF Procs, Flushes, Blanks
<1>3. IsFiniteSet(1 .. Len(lines) + 1)
  <2>1. 1 \in Int /\ Len(lines) + 1 \in Int
    BY <1>1
  <2> QED BY <2>1, FS_Interval
<1> QED BY <1>2, <1>3, FS_Subset, FS_CardinalityType

\* No more cores than processors.
LEMMA FewerCores ==
    ASSUME NEW lines \in Seq([key: STRING, value: STRING]), NEW c, c = ParseCPUInfo(lines)
    PROVE  c \in [logical: Nat, physical: Nat] /\ c.physical <= c.logical
<1> DEFINE Cores == {<<Current(lines, e, "physical id"), Current(lines, e, "core id")>> :
                        e \in Procs(lines)}
<1>1. IsFiniteSet(Cores) /\ Cardinality(Cores) <= Cardinality(Procs(lines))
  <2> DEFINE f == [e \in Procs(lines) |->
                     <<Current(lines, e, "physical id"), Current(lines, e, "core id")>>]
  <2>1. f \in Surjection(Procs(lines), Cores)
    BY DEF Surjection
  <2> HIDE DEF f, Cores
  <2> QED BY <2>1, ProcsFinite, FS_Surjection
<1>2. c = [logical |-> Cardinality(Procs(lines)), physical |-> Cardinality(Cores)]
  BY DEF ParseCPUInfo
<1> HIDE DEF Cores
<1> QED BY <1>1, <1>2, ProcsFinite, FS_CardinalityType

-----------------------------------------------------------------------------
(* Types.                                                                  *)

\* The mount that is chosen is one of those that match.
LEMMA LongestIn ==
    ASSUME NEW mounts \in Seq(Mount), NEW S \in SUBSET DOMAIN mounts, S # {}
    PROVE  Longest(mounts, S) \in S
<1> DEFINE deepest == {i \in S : \A j \in S : Len(mounts[j].at) <= Len(mounts[i].at)}
<1>1. PICK i \in deepest : TRUE
  BY DeepestOfSome
<1>2. deepest \subseteq Nat
  OBVIOUS
<1>3. Longest(mounts, S) = Min(deepest)
  BY DEF Longest
<1>4. deepest \subseteq S
  OBVIOUS
<1> HIDE DEF deepest
<1>5. PICK m \in deepest : \A k \in deepest : m <= k
  BY <1>1, <1>2, LeastOfSet
<1>6. Min(deepest) \in deepest
  BY <1>5 DEF Min
<1> QED BY <1>3, <1>4, <1>6

LEMMA GreatestValue ==
    ASSUME NEW n \in Nat, NEW f, \A i \in 1 .. n : f[i] \in Nat
    PROVE  Max({0} \cup {f[i] : i \in 1 .. n}) \in Nat
<1> DEFINE S == {0} \cup {f[i] : i \in 1 .. n}
<1>1. \E m \in S : \A y \in S : y <= m
  <2>1. CASE n = 0
    BY <2>1
  <2>2. CASE n # 0
    <3>1. n \in 1 .. n
      BY <2>2
    <3>2. PICK i \in 1 .. n : \A j \in 1 .. n : f[j] <= f[i]
      BY <3>1, Greatest
    <3>3. f[i] \in S /\ \A y \in S : y <= f[i]
      BY <3>2
    <3> QED BY <3>3
  <2> QED BY <2>1, <2>2
<1>2. Max(S) \in S
  <2> HIDE DEF S
  <2> QED BY <1>1 DEF Max
<1> QED BY <1>2

LEMMA SummaryType ==
    ASSUME NEW samples \in Seq(ProcSample)
    PROVE  SummarizeSamples(samples) \in [cpuSum: Nat, cpuMax: Nat, rssPeak: Nat]
<1> DEFINE n == Len(samples)
           cpu == [i \in 1 .. n |-> samples[i].cpu]
           rss == [i \in 1 .. n |-> samples[i].rss]
<1>1. n \in Nat /\ DOMAIN samples = 1 .. n
  OBVIOUS
<1>2. \A i \in 1 .. n : cpu[i] \in Nat /\ rss[i] \in Nat
  <2> SUFFICES ASSUME NEW i \in 1 .. n PROVE samples[i].cpu \in Nat /\ samples[i].rss \in Nat
    OBVIOUS
  <2>1. samples[i] \in ProcSample
    OBVIOUS
  <2> QED BY <2>1 DEF ProcSample
<1>3. /\ [i \in DOMAIN samples |-> samples[i].cpu] = [i \in 1 .. n |-> cpu[i]]
      /\ {s.cpu : s \in ToSet(samples)} = {cpu[i] : i \in 1 .. n}
      /\ {s.rss : s \in ToSet(samples)} = {rss[i] : i \in 1 .. n}
  BY <1>1 DEF ToSet
<1> HIDE DEF cpu, rss, n
<1>4. Total([i \in 1 .. n |-> cpu[i]]) \in Nat
  <2>1. n \in 0 .. n
    BY <1>1
  <2> QED BY <1>1, <1>2, <2>1, TotalNat
<1>5. /\ Max({0} \cup {cpu[i] : i \in 1 .. n}) \in Nat
      /\ Max({0} \cup {rss[i] : i \in 1 .. n}) \in Nat
  BY <1>1, <1>2, GreatestValue
<1> QED BY <1>3, <1>4, <1>5 DEF SummarizeSamples

\* For any input: the percentiles are values of their column, the disks are
\* mounts of the table, there are no more cores than processors, and no
\* figure is negative.
THEOREM ReportTypeCorrect == ReportSpec => []ReportTypeOK
<1>1. IInv /\ Figured => ReportTypeOK
  <2> SUFFICES ASSUME IInv, Figured PROVE ReportTypeOK
    OBVIOUS
  <2>1. input \in Input
    BY ReportAssumption DEF Figured
  <2>2. /\ input.rows \in Seq(Nat) /\ input.samples \in Seq(ProcSample)
        /\ input.mounts \in Seq(Mount)
        /\ input.cpuinfo \in Seq([key: STRING, value: STRING])
    BY <2>1 DEF Input
  <2>3. cores \in [logical: Nat, physical: Nat] /\ cores.physical <= cores.logical
    BY <2>2, FewerCores DEF Figured, NoCores
  <2>4. disks \subseteq ToSet(input.mounts)
    <3>1. ASSUME NEW p \in Interesting, Matching(input.mounts, p) # {}
          PROVE  input.mounts[Longest(input.mounts, Matching(input.mounts, p))]
                    \in ToSet(input.mounts)
      <4>1. Matching(input.mounts, p) \in SUBSET DOMAIN input.mounts
        BY DEF Matching, ParseMountinfo
      <4>2. Longest(input.mounts, Matching(input.mounts, p)) \in DOMAIN input.mounts
        BY <2>2, <3>1, <4>1, LongestIn
      <4> QED BY <4>2 DEF ToSet
    <3> QED BY <3>1 DEF Figured, CollectDisks
  <2>5. pct \in [Quantiles -> {0} \cup ToSet(input.rows)]
    <3>1. ASSUME NEW q \in Quantiles
          PROVE  Percentile(input.rows, q) \in {0} \cup ToSet(input.rows)
      <4>1. CASE input.rows = << >>
        BY <4>1 DEF Percentile
      <4>2. CASE input.rows # << >>
        <5>1. q \in 1 .. 100
          BY DEF Quantiles
        <5> QED BY <2>2, <4>2, <5>1, PercentileIs
      <4> QED BY <4>1, <4>2
    <3> QED BY <3>1 DEF Figured, NoPct
  <2>6. summary \in [cpuSum: Nat, cpuMax: Nat, rssPeak: Nat]
    <3>1. << >> \in Seq(ProcSample)
      OBVIOUS
    <3> QED BY <2>2, <3>1, SummaryType DEF Figured, NoSummary
  <2>7. total \in Nat
    <3>1. DiskDelta(input.samples) \in Nat
      <4>1. CASE Len(input.samples) < 2
        BY <4>1 DEF DiskDelta
      <4>2. CASE ~ (Len(input.samples) < 2)
        <5> DEFINE first == ReadSelfIO(Head(input.samples))
                   last == ReadSelfIO(Last(input.samples))
        <5>1. Head(input.samples) \in ProcSample /\ Last(input.samples) \in ProcSample
          BY <2>2, <4>2 DEF Last
        <5>2. first \in Nat /\ last \in Nat
          BY <5>1 DEF ReadSelfIO, ProcSample
        <5>3. DiskDelta(input.samples) = IF last > first THEN last - first ELSE 0
          BY <4>2 DEF DiskDelta
        <5> HIDE DEF first, last
        <5> QED BY <5>2, <5>3
      <4> QED BY <4>1, <4>2
    <3> QED BY <3>1 DEF Figured
  <2> QED BY <2>1, <2>3, <2>4, <2>5, <2>6, <2>7 DEF IInv, ReportTypeOK, Figured
<1> QED BY <1>1, Invariance, FiguredInvariant, PTL

-----------------------------------------------------------------------------
(* Cores.                                                                  *)

CpuLine == [key: STRING, value: STRING]

\* The flush that ends the stanza of line i.
IsEnd(lines, i, e) ==
    /\ e \in Flushes(lines) /\ i < e
    /\ \A d \in Flushes(lines) : i < d => e <= d

EndOf(lines, i) == CHOOSE e : IsEnd(lines, i, e)

LEMMA FlushesAre ==
    ASSUME NEW lines \in Seq(CpuLine)
    PROVE  /\ Len(lines) \in Nat /\ DOMAIN lines = 1 .. Len(lines)
           /\ \A e \in Flushes(lines) :
                 e \in Nat /\ e >= 1 /\ e <= Len(lines) + 1
           /\ Blanks(lines) \subseteq Flushes(lines)
           /\ \A e \in Flushes(lines) : e <= Len(lines) => e \in Blanks(lines)
<1>1. Len(lines) \in Nat /\ DOMAIN lines = 1 .. Len(lines)
  OBVIOUS
<1> QED BY <1>1 DEF Flushes, Blanks

LEMMA EndExists ==
    ASSUME NEW lines \in Seq(CpuLine), NEW i \in DOMAIN lines
    PROVE  IsEnd(lines, i, EndOf(lines, i))
<1> DEFINE T == {e \in Flushes(lines) : i < e}
<1>1. Len(lines) + 1 \in T /\ T \subseteq Nat
  <2>1. i <= Len(lines) /\ i \in Nat /\ Len(lines) \in Nat
    OBVIOUS
  <2> QED BY <2>1, FlushesAre DEF Flushes
<1>2. PICK e \in T : \A d \in T : e <= d
  <2> HIDE DEF T
  <2> QED BY <1>1, LeastOfSet
<1>3. IsEnd(lines, i, e)
  BY <1>2 DEF IsEnd
<1> QED BY <1>3 DEF EndOf

\* A line is in the stanza that its end ends, and in no other.
LEMMA InStanza ==
    ASSUME NEW lines \in Seq(CpuLine), NEW i \in DOMAIN lines, i \notin Blanks(lines),
           NEW e \in Flushes(lines)
    PROVE  i \in Stanza(lines, e) <=> IsEnd(lines, i, e)
<1>1. /\ Len(lines) \in Nat /\ DOMAIN lines = 1 .. Len(lines) /\ i \in Nat /\ i >= 1
      /\ e \in Nat /\ e >= 1 /\ e <= Len(lines) + 1
      /\ \A d \in Flushes(lines) : d \in Nat /\ (d <= Len(lines) => d \in Blanks(lines))
      /\ Blanks(lines) \subseteq Flushes(lines)
  BY FlushesAre
<1>2. ASSUME i \in Stanza(lines, e) PROVE IsEnd(lines, i, e)
  <2>1. i < e /\ i .. e - 1 \cap Blanks(lines) = {}
    BY <1>1, <1>2 DEF Stanza
  <2>2. ASSUME NEW d \in Flushes(lines), i < d, d < e PROVE FALSE
    <3>1. d \in i .. e - 1 /\ d \in Blanks(lines)
      BY <1>1, <2>2
    <3> QED BY <2>1, <3>1
  <2>3. \A d \in Flushes(lines) : i < d => e <= d
    BY <1>1, <2>2
  <2> QED BY <2>1, <2>3 DEF IsEnd
<1>3. ASSUME IsEnd(lines, i, e) PROVE i \in Stanza(lines, e)
  <2>1. i < e /\ \A d \in Flushes(lines) : i < d => e <= d
    BY <1>3 DEF IsEnd
  <2>2. ASSUME NEW b \in i .. e - 1, b \in Blanks(lines) PROVE FALSE
    <3>1. b \in Flushes(lines) /\ b # i /\ i < b /\ ~ (e <= b)
      BY <1>1, <2>2
    <3> QED BY <2>1, <3>1
  <2>3. i \in 1 .. e - 1
    BY <1>1, <2>1
  <2> QED BY <2>2, <2>3 DEF Stanza
<1> QED BY <1>2, <1>3

LEMMA OneEnd ==
    ASSUME NEW lines \in Seq(CpuLine), NEW i, NEW e, NEW d,
           IsEnd(lines, i, e), IsEnd(lines, i, d)
    PROVE  e = d
<1>1. e \in Nat /\ d \in Nat /\ e <= d /\ d <= e
  BY FlushesAre DEF IsEnd
<1> QED BY <1>1

\* Keys differ, so a processor's line is neither blank nor an id.
LEMMA ProcessorLine ==
    ASSUME input.cpuinfo \in Seq(CpuLine), NEW i \in Processors
    PROVE  /\ i \in DOMAIN input.cpuinfo /\ i \in Nat /\ i \notin Blanks(input.cpuinfo)
           /\ IsEnd(input.cpuinfo, i, EndOf(input.cpuinfo, i))
<1>1. i \in DOMAIN input.cpuinfo /\ i \notin Blanks(input.cpuinfo)
  BY DEF Processors, Blanks
<1> QED BY <1>1, EndExists

\* Well-formed processors have stanzas of their own.
LEMMA OwnStanza ==
    ASSUME input.cpuinfo \in Seq(CpuLine), NEW i \in Processors, NEW j \in Processors,
           WellFormed(i), NEW e, IsEnd(input.cpuinfo, i, e), IsEnd(input.cpuinfo, j, e)
    PROVE  j <= i
<1>1. i \in Nat /\ j \in Nat /\ e \in Nat /\ j < e
      /\ \A d \in Flushes(input.cpuinfo) : i < d => e <= d
  <2>1. i \in Nat /\ j \in Nat
    BY ProcessorLine
  <2>2. e \in Nat
    BY FlushesAre DEF IsEnd
  <2> QED BY <2>1, <2>2 DEF IsEnd
<1>2. SUFFICES ASSUME i < j PROVE FALSE
  BY <1>1
<1>3. Says(i, "blank") # {}
  <2>1. Says(i, "blank") # {} \/ \A k \in Processors : k <= i
    BY DEF WellFormed
  <2> QED BY <1>1, <1>2, <2>1
<1>4. PICK b \in Says(i, "blank") : TRUE
  BY <1>3
<1>5. /\ b \in Blanks(input.cpuinfo) /\ b >= i /\ b # i /\ b \in Nat
      /\ (i + 1) .. b \cap Processors = {}
  BY DEF Says, Described, Blanks, Processors
<1>6. b < j
  <2>1. j \notin (i + 1) .. b
    BY <1>5
  <2> QED BY <1>1, <1>2, <1>5, <2>1
<1>7. b \in Flushes(input.cpuinfo)
  BY <1>5 DEF Flushes
<1> QED BY <1>1, <1>5, <1>6, <1>7

\* Of a processor's lines those up to the end of its stanza are in the stanza.
LEMMA DescribedInStanza ==
    ASSUME input.cpuinfo \in Seq(CpuLine), NEW i \in Processors,
           NEW e, IsEnd(input.cpuinfo, i, e),
           NEW k \in Described(i), \A b \in Says(i, "blank") : k < b
    PROVE  k \in Stanza(input.cpuinfo, e)
<1>1. /\ i \in DOMAIN input.cpuinfo /\ i \in Nat /\ i >= 1
      /\ k \in DOMAIN input.cpuinfo /\ k \in Nat /\ k >= 1 /\ k >= i /\ k <= Len(input.cpuinfo)
      /\ e \in Nat /\ i < e
  <2>1. i \in DOMAIN input.cpuinfo /\ k \in DOMAIN input.cpuinfo /\ k >= i
    BY DEF Processors, Described
  <2>2. e \in Flushes(input.cpuinfo) /\ i < e
    BY DEF IsEnd
  <2> QED BY <2>1, <2>2, FlushesAre
<1>2. (i + 1) .. k \cap Processors = {}
  BY DEF Described
<1>3. e \in Flushes(input.cpuinfo) /\ (e <= Len(input.cpuinfo) => e \in Blanks(input.cpuinfo))
  BY FlushesAre DEF IsEnd
<1>4. ASSUME e <= k PROVE FALSE
  <2>1. e \in DOMAIN input.cpuinfo /\ input.cpuinfo[e].key = "blank"
    <3>1. e <= Len(input.cpuinfo)
      BY <1>1, <1>4, FlushesAre
    <3> QED BY <1>3, <3>1 DEF Blanks
  <2>2. (i + 1) .. e \cap Processors = {}
    <3>1. (i + 1) .. e \subseteq (i + 1) .. k
      BY <1>1, <1>4
    <3> QED BY <1>2, <3>1
  <2>3. e \in Described(i)
    BY <1>1, <2>1, <2>2 DEF Described
  <2>4. e \in Says(i, "blank")
    BY <2>1, <2>3 DEF Says
  <2>5. k < e
    BY <2>4
  <2> QED BY <1>1, <1>4, <2>5
<1>5. k < e
  BY <1>1, <1>4
<1>6. i .. e - 1 \cap Blanks(input.cpuinfo) = {}
  <2>1. i \notin Blanks(input.cpuinfo)
    BY ProcessorLine
  <2>2. i \in Stanza(input.cpuinfo, e)
    BY <1>1, <1>3, <2>1, InStanza
  <2> QED BY <2>2 DEF Stanza
<1>7. k .. e - 1 \subseteq i .. e - 1 /\ k \in 1 .. e - 1
  BY <1>1, <1>5
<1> QED BY <1>6, <1>7 DEF Stanza

\* And the lines of the stanza after a processor's are among its lines.
LEMMA StanzaDescribes ==
    ASSUME input.cpuinfo \in Seq(CpuLine), \A p \in Processors : WellFormed(p),
           NEW i \in Processors, NEW e, IsEnd(input.cpuinfo, i, e),
           NEW m \in Stanza(input.cpuinfo, e), i < m
    PROVE  m \in Described(i)
<1>1. /\ i \in Nat /\ i >= 1 /\ e \in Flushes(input.cpuinfo)
      /\ e \in Nat /\ e <= Len(input.cpuinfo) + 1
      /\ Len(input.cpuinfo) \in Nat /\ DOMAIN input.cpuinfo = 1 .. Len(input.cpuinfo)
  <2>1. i \in Nat /\ i \in DOMAIN input.cpuinfo /\ e \in Flushes(input.cpuinfo)
    BY ProcessorLine DEF IsEnd
  <2> QED BY <2>1, FlushesAre
<1>2. m \in 1 .. e - 1 /\ m .. e - 1 \cap Blanks(input.cpuinfo) = {}
  BY DEF Stanza
<1>3. m \in Nat /\ m < e /\ m >= 1 /\ m \in DOMAIN input.cpuinfo
  BY <1>1, <1>2
<1>4. i .. e - 1 \cap Blanks(input.cpuinfo) = {}
  <2>1. i \notin Blanks(input.cpuinfo) /\ i \in DOMAIN input.cpuinfo
    BY ProcessorLine
  <2>2. i \in Stanza(input.cpuinfo, e)
    BY <1>1, <2>1, InStanza
  <2> QED BY <2>2 DEF Stanza
<1>5. ASSUME NEW p \in (i + 1) .. m, p \in Processors PROVE FALSE
  <2>1. p \in Nat /\ i < p /\ p <= m
    BY <1>1, <1>3
  <2>2. p .. e - 1 \subseteq i .. e - 1 /\ p \in 1 .. e - 1
    BY <1>1, <1>3, <2>1
  <2>3. p \in Stanza(input.cpuinfo, e)
    BY <1>4, <2>2 DEF Stanza
  <2>4. p \in DOMAIN input.cpuinfo /\ p \notin Blanks(input.cpuinfo)
    BY <1>5, ProcessorLine
  <2>5. IsEnd(input.cpuinfo, p, e)
    BY <1>1, <2>3, <2>4, InStanza
  <2>6. p <= i
    BY <1>5, <2>5, OwnStanza
  <2> QED BY <1>1, <2>1, <2>6
<1>6. (i + 1) .. m \cap Processors = {}
  BY <1>5
<1>7. m >= i
  BY <1>1, <1>3
<1> QED BY <1>3, <1>6, <1>7 DEF Described

LEMMA GreatestIs ==
    ASSUME NEW G, NEW k \in G, G \subseteq Nat, \A m \in G : m <= k
    PROVE  Max(G) = k
<1>1. Max(G) \in G /\ \A y \in G : Max(G) >= y
  <2>1. \A y \in G : k >= y
    OBVIOUS
  <2> QED BY <2>1 DEF Max
<1>2. Max(G) \in Nat /\ k \in Nat /\ Max(G) <= k /\ Max(G) >= k
  BY <1>1
<1> QED BY <1>2

\* No line of the stanza under the key of line k comes after k.
LEMMA LastGiven ==
    ASSUME input.cpuinfo \in Seq(CpuLine), \A p \in Processors : WellFormed(p),
           NEW i \in Processors, NEW e, IsEnd(input.cpuinfo, i, e), NEW key,
           NEW k, k \in Described(i), Says(i, key) = {k},
           NEW m \in Stanza(input.cpuinfo, e), input.cpuinfo[m].key = key
    PROVE  m \in Nat /\ m <= k
<1>1. i \in Nat /\ k \in Nat /\ k >= i
  <2>1. i \in Nat
    BY ProcessorLine
  <2>2. k \in DOMAIN input.cpuinfo /\ k >= i
    BY DEF Described
  <2>3. k \in Nat
    BY <2>2, FlushesAre
  <2> QED BY <2>1, <2>2, <2>3
<1>2. m \in Nat
  <2>1. e \in Nat
    BY FlushesAre DEF IsEnd
  <2>2. m \in 1 .. e - 1
    BY DEF Stanza
  <2> QED BY <2>1, <2>2
<1>3. CASE i < m
  <2>1. m \in Described(i)
    BY <1>3, StanzaDescribes
  <2>2. m \in Says(i, key)
    BY <2>1 DEF Says
  <2>3. m = k
    BY <2>2
  <2> QED BY <1>2, <2>3
<1>4. CASE ~ (i < m)
  BY <1>1, <1>2, <1>4
<1> QED BY <1>3, <1>4

\* At the end of its stanza the program holds the ids of a processor.
LEMMA CurrentIs ==
    ASSUME input.cpuinfo \in Seq(CpuLine), \A p \in Processors : WellFormed(p),
           NEW i \in Processors, NEW e, IsEnd(input.cpuinfo, i, e),
           NEW key \in {"physical id", "core id"}
    PROVE  Current(input.cpuinfo, e, key) = Id(i, key)
<1> DEFINE given == {m \in Stanza(input.cpuinfo, e) : input.cpuinfo[m].key = key}
<1>1. PICK k \in Says(i, key) : Says(i, key) = {k} /\ \A b \in Says(i, "blank") : k < b
  BY DEF WellFormed
<1>2. k \in Described(i) /\ input.cpuinfo[k].key = key
  BY DEF Says
<1>3. k \in given
  BY <1>1, <1>2, DescribedInStanza
<1>4. ASSUME NEW m \in given PROVE m \in Nat /\ m <= k
  <2>1. m \in Stanza(input.cpuinfo, e) /\ input.cpuinfo[m].key = key
    OBVIOUS
  <2> HIDE DEF given
  <2> QED BY <1>1, <1>2, <2>1, LastGiven
<1>5. Max(given) = k
  <2> HIDE DEF given
  <2>1. given \subseteq Nat /\ \A m \in given : m <= k
    BY <1>4
  <2> QED BY <1>3, <2>1, GreatestIs
<1>6. Current(input.cpuinfo, e, key) = input.cpuinfo[k].value
  <2>1. Current(input.cpuinfo, e, key) =
            IF given = {} THEN "" ELSE input.cpuinfo[Max(given)].value
    BY DEF Current
  <2>2. given # {}
    BY <1>3
  <2> HIDE DEF given
  <2> QED BY <1>5, <2>1, <2>2
<1>7. Id(i, key) = input.cpuinfo[k].value
  BY <1>1 DEF Id
<1> QED BY <1>6, <1>7

\* For any cpuinfo whose processors are well-formed, in whatever order their
\* lines are: as many processors as it lists, as many cores as it names
\* (cpu.go:36-107).
THEOREM CoresCountedCorrect == ReportSpec => []CoresCounted
<1>1. Figured => CoresCounted
  <2> SUFFICES ASSUME Figured, stage # "cpu", \A i \in Processors : WellFormed(i)
               PROVE  /\ cores.logical = Cardinality(Processors)
                      /\ cores.physical =
                            Cardinality({<<Id(i, "physical id"), Id(i, "core id")>> :
                                            i \in Processors})
    BY DEF CoresCounted
  <2> DEFINE lines == input.cpuinfo
             f == [i \in Processors |-> EndOf(lines, i)]
  <2>1. lines \in Seq(CpuLine)
    BY ReportAssumption DEF Figured, Input, CpuLine
  <2>2. \A i \in Processors : IsEnd(lines, i, f[i]) /\ f[i] \in Procs(lines)
    <3> SUFFICES ASSUME NEW i \in Processors
                 PROVE  IsEnd(lines, i, f[i]) /\ f[i] \in Procs(lines)
      OBVIOUS
    <3>1. i \in DOMAIN lines /\ i \notin Blanks(lines) /\ IsEnd(lines, i, EndOf(lines, i))
      BY <2>1, ProcessorLine
    <3>2. EndOf(lines, i) \in Flushes(lines)
      BY <3>1 DEF IsEnd
    <3>3. i \in Stanza(lines, EndOf(lines, i))
      BY <2>1, <3>1, <3>2, InStanza
    <3>4. lines[i].key = "processor"
      BY DEF Processors
    <3> QED BY <3>1, <3>2, <3>3, <3>4 DEF Procs
  <2>3. \A e \in Procs(lines) : \E i \in Processors : f[i] = e
    <3> SUFFICES ASSUME NEW e \in Procs(lines) PROVE \E i \in Processors : f[i] = e
      OBVIOUS
    <3>1. PICK i \in Stanza(lines, e) : lines[i].key = "processor"
      BY DEF Procs
    <3>2. e \in Flushes(lines)
      BY DEF Procs
    <3>3. e \in Nat /\ e <= Len(lines) + 1 /\ Len(lines) \in Nat /\ DOMAIN lines = 1 .. Len(lines)
      BY <2>1, <3>2, FlushesAre
    <3>4. i \in Processors
      BY <3>1, <3>3 DEF Processors, Stanza
    <3>5. i \in DOMAIN lines /\ i \notin Blanks(lines)
      BY <2>1, <3>4, ProcessorLine
    <3>6. IsEnd(lines, i, e)
      BY <2>1, <3>2, <3>5, InStanza
    <3>7. f[i] = e
      BY <2>1, <2>2, <3>4, <3>6, OneEnd
    <3> QED BY <3>4, <3>7
  <2>4. \A i, j \in Processors : f[i] = f[j] => i = j
    <3> SUFFICES ASSUME NEW i \in Processors, NEW j \in Processors, f[i] = f[j] PROVE i = j
      OBVIOUS
    <3>1. j <= i /\ i <= j
      BY <2>1, <2>2, OwnStanza
    <3> QED BY <2>1, <3>1, ProcessorLine
  <2>5. f \in Bijection(Processors, Procs(lines))
    <3>1. f \in [Processors -> Procs(lines)]
      BY <2>2
    <3> HIDE DEF f
    <3> QED BY <2>3, <2>4, <3>1 DEF Bijection, Injection, Surjection, IsInjective
  <2>6. Cardinality(Procs(lines)) = Cardinality(Processors)
    <3>1. IsFiniteSet(Processors)
      <4>1. Len(lines) \in Int /\ 1 \in Int /\ Processors \subseteq 1 .. Len(lines)
        BY <2>1 DEF Processors
      <4> QED BY <4>1, FS_Interval, FS_Subset
    <3> QED BY <2>5, <3>1, FS_Bijection DEF ExistsBijection
  <2>7. {<<Current(lines, e, "physical id"), Current(lines, e, "core id")>> : e \in Procs(lines)}
        = {<<Id(i, "physical id"), Id(i, "core id")>> : i \in Processors}
    <3>1. \A i \in Processors : /\ Current(lines, f[i], "physical id") = Id(i, "physical id")
                                /\ Current(lines, f[i], "core id") = Id(i, "core id")
      BY <2>1, <2>2, CurrentIs
    <3> HIDE DEF f
    <3> QED BY <2>2, <2>3, <3>1
  <2> QED BY <2>6, <2>7 DEF Figured, ParseCPUInfo
<1> QED BY <1>1, FiguredInvariant, PTL

=============================================================================
