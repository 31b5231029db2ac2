----------------------------- MODULE MCEnrichment -----------------------------
\* Instances of Enrichment for TLC.
EXTENDS EnrichmentInvariant, TLC

\* Every timeline lists every source.
AllMembers == [t \in Timelines |-> Sources]

\* Every event resolves at every version.
ResolvesAll == [e \in Enrichers |-> [v \in 1 .. MaxVersion |-> Batches]]

\* The second data file no longer resolves one of the batches.
ResolvesLessLater ==
    [e \in Enrichers |-> [v \in 1 .. MaxVersion |->
        IF v = 1 THEN Batches ELSE Batches \ {CHOOSE b \in Batches : TRUE}]]

\* Failures and crashes together, or deletes, but not all three: the bound of
\* an instance that allows each.
DeletesAlone == withdrawn = {} \/ fails + crashes = 0

\* What a step or a property of enrich_recovery can still tell: no reader asks for
\* the field statistics, and the scratch tables of a job are only read between
\* the page loop and the swap.
RecoveryView ==
    <<version, sources, jobRows, staged, prov, part, memVars, bounds,
      [j \in Jobs |->
          IF \E w \in Workers : task[w].job = j /\ task[w].pc \in {"copy", "swap"}
          THEN <<rowsTbl[j], eventsTbl[j]>> ELSE <<>>]>>

Symmetry == Permutations(Jobs) \cup Permutations(Workers)

FullSymmetry == Symmetry \cup Permutations(Sources) \cup Permutations(Batches)
=============================================================================
