------------------------------ MODULE MCTagging ------------------------------
EXTENDS Tagging

CONSTANTS a, b, c

NoRedirects == [t \in Tags |-> NoTag]

Catalog(redirect, adds, removes) ==
    [tags |-> Tags, post |-> TRUE, on |-> {},
     redirect |-> redirect, adds |-> adds, removes |-> removes]

\* Redirections in a circle; a tag that one implication removes and another one
\* adds, at the end of a row once it is not removed any more, and in a cycle
\* when it redirects.
Circle  == Catalog([NoRedirects EXCEPT ![b] = c, ![c] = b], {<<a, b>>}, {})
Removal == Catalog(NoRedirects, {<<a, c>>, <<c, b>>}, {<<a, b>>})

MCCatalogs == {Circle, Removal}

\* An implied tag starts to redirect; an implication comes, goes and changes
\* its flag.
MCRedirects == {<<b, c>>}
MCImplies   == {<<a, b>>}
==============================================================================
