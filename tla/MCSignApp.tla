----------------------------- MODULE MCSignApp -----------------------------
EXTENDS SignApp

CONSTANTS c1, c2

Range2(a, b) == [start |-> a, end |-> b]

\* One page of code and two of data.
Image(code, data, pages) ==
    [code |-> code, data |-> data,
     hash |-> [sections |-> [code |-> code, data |-> data], pages |-> pages]]

TheApp   == Image(Range2(1, 2), Range2(2, 4), <<c1, c2, c1>>)
\* Another app, that has the same contents in other sections.
OtherApp == Image(Range2(1, 3), Range2(5, 6), <<c1, c2, c1>>)
\* A manifest nobody signed, and one with the hash of another app.
Unsigned == Image(Range2(1, 2), Range2(2, 3), <<c2, c2>>)
Mixed    == [OtherApp EXCEPT !.code = Range2(1, 2)]

TheManifests == {TheApp, OtherApp, Unsigned, Mixed}
TheSigned == {TheApp, OtherApp}
TheContents == {c1, c2}
=============================================================================
