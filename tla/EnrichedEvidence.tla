--------------------------- MODULE EnrichedEvidence ---------------------------
(***************************************************************************)
(* What enrichment promises about the evidence, without jobs, slots, locks, *)
(* staging or scratch tables: the derived keys of one enricher on one       *)
(* source are replaced in one step that touches nothing else, and a         *)
(* provenance row is only written when the events carry exactly what that   *)
(* enricher derives from them at that version (SourceEnrichment,            *)
(* db/postgres.py; finalize_enrichment_apply, db/clickhouse.py).  Nothing   *)
(* is promised about a source from the moment its delete is requested, but  *)
(* that the others do not notice (delete_source, api/routers/cases.py).     *)
(***************************************************************************)
EXTENDS Naturals

CONSTANTS Sources, Enrichers, Batches, MaxVersion, Resolves

VARIABLES
    part,      \* part[s][b][e]: the version that derived e's keys on batch b, or 0
    certified, \* certified[s][e]: the version the provenance row claims, or 0
    withdrawn  \* sources whose delete was requested, completed or not

evidence == <<part, certified, withdrawn>>

Init ==
    /\ part = [s \in Sources |-> [b \in Batches |-> [e \in Enrichers |-> 0]]]
    /\ certified = [s \in Sources |-> [e \in Enrichers |-> 0]]
    /\ withdrawn = {}

\* One partition swap: the keys of e on the events of s, and nothing else.
Enrich(s, e, v, rows) ==
    /\ part' = [part EXCEPT ![s] = [b \in DOMAIN @ |->
                   [@[b] EXCEPT ![e] = IF b \in rows THEN v ELSE 0]]]
    /\ UNCHANGED <<certified, withdrawn>>

\* One provenance row, truthful when it is written.
Certify(s, e, v) ==
    /\ \A b \in DOMAIN part[s] :
           part[s][b][e] = IF b \in Resolves[e][v] THEN v ELSE 0
    /\ certified' = [certified EXCEPT ![s][e] = v]
    /\ UNCHANGED <<part, withdrawn>>

\* The delete of a source is requested ...
Withdraw(s) ==
    /\ withdrawn' = withdrawn \cup {s}
    /\ UNCHANGED <<part, certified>>

\* ... and from then on the source may be emptied, resurrected by an apply that
\* was under way, emptied again: no other source is touched.
Disturb(s) ==
    /\ \A x \in Sources \ {s} : part'[x] = part[x] /\ certified'[x] = certified[x]
    /\ UNCHANGED withdrawn

Next ==
    \/ \E s \in Sources \ withdrawn, e \in Enrichers, v \in 1 .. MaxVersion :
           \/ \E rows \in SUBSET Batches : Enrich(s, e, v, rows)
           \/ Certify(s, e, v)
    \/ \E s \in Sources : Withdraw(s)
    \/ \E s \in withdrawn : Disturb(s)

Spec == Init /\ [][Next]_evidence
=============================================================================
