------------------------------ MODULE MCReport ------------------------------
(***************************************************************************)
(* Report with the program's own three providers (AWS needs a token before *)
(* the instance type, GCP asks for no region), and one input varied at a   *)
(* time: block columns, samples, mount tables with paths, cpuinfo files.   *)
(***************************************************************************)
EXTENDS Report

MCProbes == {"aws", "aliyun", "gcp"}
MCQuestions ==
    [aws |-> AwsQuestions, aliyun |-> AliyunQuestions, gcp |-> GcpQuestions]
MCNeeded == {"token", "instance"}

UpTo(n, S) == UNION {[1 .. k -> S] : k \in 0 .. n}

\* The working directory is /home.
Linked(names, real) == [abs |-> TRUE, names |-> names, real |-> real]
Abs(names) == Linked(names, names)
Rel(names) == [abs |-> FALSE, names |-> names, real |-> <<"home">> \o names]

Sample(b, r) == [cpu |-> b, rss |-> 4 - b, bytes |-> b, readable |-> r]
Dev(at, source) == [at |-> at, dev |-> TRUE, source |-> source, hidden |-> FALSE]
Tmpfs(at) == [at |-> at, dev |-> FALSE, source |-> "tmpfs", hidden |-> FALSE]
Hide(m) == [m EXCEPT !.hidden = TRUE]

Default ==
    [rows |-> <<2, 1>>, samples |-> <<Sample(1, TRUE), Sample(3, TRUE)>>,
     mounts |-> <<Dev(<< >>, "sda")>>,
     state |-> Abs(<<"data", "state">>), out |-> Rel(<<"results">>), work |-> Abs(<<"tmp">>),
     cpuinfo |-> << >>]

\* Short columns with ties, and lengths around the boundaries of 95 and 99 percent.
Columns == UpTo(4, 0 .. 2) \cup {[i \in 1 .. n |-> (i * 7) % n] : n \in {20, 21, 100, 101}}

SampleLists ==
    {s \in UpTo(3, {Sample(b, r) : b \in 0 .. 3, r \in BOOLEAN}) :
        \A i, j \in DOMAIN s : i <= j => s[i].bytes <= s[j].bytes}

MountPoints == {<< >>, <<"home">>, <<"data">>, <<"data", "state">>}
Mounts == {Dev(at, s) : at \in MountPoints, s \in {"sda"}} \cup {Tmpfs(at) : at \in MountPoints}
              \cup {Dev(<<"data">>, "nvme")}

\* What is hidden is hidden by a later mount, and a point shows one mount.
Tables ==
    {t \in UpTo(3, Mounts \cup {Hide(m) : m \in Mounts}) :
        \A i \in DOMAIN t :
            IF t[i].hidden
            THEN \E j \in DOMAIN t : j > i /\ ~t[j].hidden /\ IsPrefix(t[j].at, t[i].at)
            ELSE \A j \in DOMAIN t : t[j].at = t[i].at => j = i \/ t[j].hidden}
Outs == {Rel(<<"results">>), Abs(<<"home">>), Abs(<<"data", "results">>),
         Linked(<<"out">>, <<"data", "state">>)}

Cpu(f) == <<[key |-> "processor", value |-> "0"], [key |-> "core id", value |-> f[1]],
            [key |-> "physical id", value |-> f[2]]>>
Blank == [key |-> "blank", value |-> ""]
CpuFiles ==
    UNION {{FlattenSeq([i \in DOMAIN c |-> Append(Cpu(c[i]), Blank)]),
            FlattenSeq([i \in DOMAIN c |-> (IF i = 1 THEN << >> ELSE <<Blank>>) \o Cpu(c[i])])} :
              c \in UpTo(3, {"0", "1"} \X {"0", "1"})}
        \cup {<<[key |-> "processor", value |-> "0"], Blank, [key |-> "processor", value |-> "1"]>>}

MCInputs ==
    {Default}
    \cup {[Default EXCEPT !.rows = v] : v \in Columns}
    \cup {[Default EXCEPT !.samples = s] : s \in SampleLists}
    \cup {[Default EXCEPT !.mounts = t, !.out = o] : t \in Tables, o \in Outs}
    \cup {[Default EXCEPT !.cpuinfo = c] : c \in CpuFiles}

\* What the disk array misses, each for itself: the default flags on a machine
\* with a disk of its own for /home; a state directory that is a link to a disk;
\* a disk that covers another, on its mount point and above it; and a work
\* directory on a disk of its own.
MCMisplaced ==
    {[Default EXCEPT !.state = Rel(<<"testdata", "state">>),
                     !.mounts = <<Dev(<< >>, "sda"), Dev(<<"home">>, "nvme")>>],
     [Default EXCEPT !.state = Linked(<<"srv", "state">>, <<"data", "state">>),
                     !.mounts = <<Dev(<< >>, "sda"), Dev(<<"data">>, "nvme")>>],
     [Default EXCEPT !.mounts = <<Dev(<< >>, "sda"), Dev(<<"tmp">>, "nvme")>>]}
    \cup {[Default EXCEPT !.mounts = <<Dev(<< >>, "sda"), Hide(Dev(at, "sdb")),
                                      Dev(<<"data">>, "nvme")>>] :
             at \in {<<"data">>, <<"data", "state">>}}

\* The cloud is explored with the default input.  With the others no provider
\* answers and the goroutines run one after the other.
Order == [aws |-> 1, aliyun |-> 2, gcp |-> 3]
Quiet ==
    /\ info' = info
    /\ cancelled' = (main' = "returned")
    /\ \A p \in Probes : probe'[p] # probe[p] =>
          \A q \in Probes : Order[q] < Order[p] =>
              probe[q] # "new" /\ (probe[p] = "new" \/ probe[q] = "exited")
    /\ (\E p \in Probes : probe'[p] # probe[p] /\ probe[p] # "new") => main = "receive"

MCNext == ReportNext /\ (input = Default \/ Quiet)
MCSpec == ReportInit /\ [][MCNext]_allvars /\ Fairness /\ WF_allvars(Command)
=============================================================================
