---------------------------- MODULE MCLifecycle ----------------------------
EXTENDS Lifecycle

\* A persistent object is never cleaned up: its own references play no part.
OfStoppable == {k \in (Objects \ Persistent) \X Objects : k[1] # k[2]}
=============================================================================
