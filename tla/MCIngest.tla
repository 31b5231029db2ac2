------------------------------- MODULE MCIngest -------------------------------
\* Instances of Ingest for TLC.
EXTENDS Ingest, TLC

\* The same bytes every time.
SameBytes == [u \in Uploads |-> CHOOSE h \in Hashes : TRUE]

\* One upload goes to a case of its own, the others share one.
OneApart ==
    LET first == CHOOSE u \in Uploads : TRUE
        own   == CHOOSE c \in Cases : TRUE
        other == CHOOSE c \in Cases : c # own
    IN  [u \in Uploads |-> IF u = first THEN own ELSE other]
=============================================================================
