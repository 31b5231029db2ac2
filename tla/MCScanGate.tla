------------------------------ MODULE MCScanGate ------------------------------
\* Instances of ScanGate for TLC.
EXTENDS ScanGate, TLC

CONSTANTS a, b, c

\* A sweep beside two others.
Mix(k, l) == a :> "sweep" @@ b :> k @@ c :> l

SomeMixes == {Mix("chart", "chart"), Mix("sweep", "fill"), Mix("job", "rule"),
              Mix("export", "export"), Mix("chart", "export")}

\* Limits pinned, derived, guessed and unknown, with caches that fit and that
\* do not, a container limit that is none and a ratio that is not reported.
Unknown == [explicit |-> 0, percent |-> 50, local |-> 0, cgroup |-> 0, os |-> 0,
            ram |-> 90, pinned |-> 0, caches |-> 0]

SomeSettings ==
    {Unknown, [Unknown EXCEPT !.explicit = 10],
     [Unknown EXCEPT !.cgroup = 40, !.os = 60, !.caches = 12],
     [Unknown EXCEPT !.pinned = 50, !.os = 60, !.caches = 99],
     [Unknown EXCEPT !.os = 60, !.local = 30, !.caches = 12, !.ram = 0],
     [Unknown EXCEPT !.cgroup = 100, !.local = 30, !.caches = 12]}
=============================================================================
