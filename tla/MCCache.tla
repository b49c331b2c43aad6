------------------------------ MODULE MCCache ------------------------------
EXTENDS Cache

\* Each call passes a handle, perhaps the same one, or lets load() find one.
AnyArguments == [l \in Loads |-> Given \cup {None}]

TwoLanguages == <<"en", "fr">>
=============================================================================
