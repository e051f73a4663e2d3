---------------------------- MODULE FirstAnswer ----------------------------
(***************************************************************************)
(* What runCloudProbes promises its caller: every probe answers once, with *)
(* what it learned or with nothing; the call returns the answer of a probe *)
(* that learned something, or nothing when no probe did; it returns once.  *)
(* sysinfo.CloudProbes is shown to implement this.                         *)
(***************************************************************************)
CONSTANTS Probes, Fields

VARIABLES
    answer,  \* what each probe answered, Pending before it has
    chosen   \* what the call returned, Pending before it has

vars == <<answer, chosen>>

Pending == {"pending"}
Nothing == {}

Init ==
    /\ answer = [p \in Probes |-> Pending]
    /\ chosen = Pending

Answer(p) ==
    /\ answer[p] = Pending
    /\ \E fields \in SUBSET Fields : answer' = [answer EXCEPT ![p] = fields]
    /\ UNCHANGED chosen

Choose(p) ==
    /\ chosen = Pending
    /\ answer[p] \notin {Pending, Nothing}
    /\ chosen' = answer[p]
    /\ UNCHANGED answer

ChooseNothing ==
    /\ chosen = Pending
    /\ \A p \in Probes : answer[p] = Nothing
    /\ chosen' = Nothing
    /\ UNCHANGED answer

Next == ChooseNothing \/ \E p \in Probes : Answer(p) \/ Choose(p)

Spec ==
    /\ Init /\ [][Next]_vars
    /\ \A p \in Probes : WF_vars(Answer(p))
    /\ WF_vars(ChooseNothing \/ \E p \in Probes : Choose(p))
=============================================================================
