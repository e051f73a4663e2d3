------------------------------- MODULE Loader -------------------------------
(***************************************************************************)
(* What the program accepts as a corpus directory (internal/corpus): the   *)
(* manifest's own consistency, and the little that Open asks of the rest.  *)
(* A directory is a record of what is under its three names.               *)
(***************************************************************************)
EXTENDS Chain

CONSTANTS
    Missing,  \* no such file
    Garbled,  \* a manifest that is not the JSON object of its schema
    Unset     \* a required string left empty

\* schema, generator and generated_at are non-empty strings or not; one
\* field, named, stands for the last two.
Validate(m) ==
    /\ m.schema = "1"
    /\ m.chainID # 0
    /\ m.from # 0 \/ m.to # 0
    /\ m.to > m.from
    /\ m.count = m.to - m.from
    /\ m.root # Unset
    /\ m.named
    /\ m.hash # Unset

\* LoadManifest: the file reads, parses without unknown fields, and is valid.
LoadManifest(file) ==
    /\ file \notin {Missing, Garbled}
    /\ Validate(file)

\* Open stats the block file and the state directory, no more.
Opens(dir) ==
    /\ LoadManifest(dir.manifest)
    /\ dir.blocks # Missing
    /\ dir.blocks # << >>
    /\ dir.state

\* The iterator to its end: Next counts each item that decodes; it returns
\* io.EOF after the last, or an error at the first that does not decode.
Decoded(items) ==
    LET bad == {i \in DOMAIN items : items[i] = Malformed} IN
    IF bad = {} THEN items ELSE SubSeq(items, 1, Min(bad) - 1)

Count(items) == Len(Decoded(items))
DecodesCleanly(items) == Count(items) = Len(items)

=============================================================================
