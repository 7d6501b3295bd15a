-------------------------- MODULE PublishedContent --------------------------
(***************************************************************************)
(* What the ingest pipeline promises the owner of a file, and the search   *)
(* that is answered from its chunks: the stored content of a file only     *)
(* ever moves to the same or a later index version, the file is offered as *)
(* READY only when it has content, and once it is purged it is gone for    *)
(* good.                                                                   *)
(***************************************************************************)
EXTENDS Naturals

CONSTANTS
  Files,
  MaxVersion

VARIABLES
  version,  \* the index version of a file's stored content, 0 when there is none
  ready,    \* the files offered as READY
  purged    \* the files deleted for good

vars == <<version, ready, purged>>

TypeOK ==
  /\ version \in [Files -> 0..MaxVersion]
  /\ ready \subseteq Files
  /\ purged \subseteq Files

Init ==
  /\ version = [f \in Files |-> 0]
  /\ ready = {}
  /\ purged = {}

\* Content of version v is stored and the file is offered.
Publish(f, v) ==
  /\ f \notin purged
  /\ v >= version[f]
  /\ version' = [version EXCEPT ![f] = v]
  /\ ready' = ready \cup {f}
  /\ UNCHANGED purged

\* Files are withdrawn (trashed, failed, being ingested again) and others that
\* have content are offered again (restored).
Offer(files) ==
  /\ \A f \in files : version[f] > 0 /\ f \notin purged
  /\ ready' = files
  /\ UNCHANGED <<version, purged>>

Purge(f) ==
  /\ f \notin purged
  /\ version' = [version EXCEPT ![f] = 0]
  /\ ready' = ready \ {f}
  /\ purged' = purged \cup {f}

Next ==
  \/ \E f \in Files : Purge(f) \/ \E v \in 1..MaxVersion : Publish(f, v)
  \/ \E files \in SUBSET Files : Offer(files)

Spec == Init /\ [][Next]_vars

=============================================================================
