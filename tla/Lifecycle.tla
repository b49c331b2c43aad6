----------------------------- MODULE Lifecycle -----------------------------
(***************************************************************************)
(* stop() of src/lib/logger.js and src/lib/addons/model.js: 11 seconds     *)
(* after the call the object drops its attributes and stops every object   *)
(* it refers to, which do the same 11 seconds later.                       *)
(*                                                                         *)
(* The loop visits every own key of the object, `attributes` and           *)
(* `_stopping` among them: an object that has been cleaned up cannot be    *)
(* used any more, but it can be stopped again.  References form any graph, *)
(* cycles included, and the program adds to it while objects stop.         *)
(*                                                                         *)
(* An operator named X_Y is X with a fault: the properties are tested by   *)
(* putting it in X's place (PROJECT.json, "mutants").                      *)
(***************************************************************************)
EXTENDS Naturals, FiniteSets

CONSTANTS Objects,      \* the models that refer to one another
          Persistent,   \* those with isPersistent, database stubs for instance
          Keys,         \* which may be given a key that refers to which
          Loggers,      \* those whose stop() is logger.js's, not addons/model.js's
          MaxCalls,     \* how often the program stops one object (a bound of the model)
          MaxCount      \* `stops` counts up to here (a bound of the model)

ASSUME ObjectsAssumption ==
  /\ IsFiniteSet(Objects)
  /\ Persistent \subseteq Objects
  /\ Keys \subseteq {k \in Objects \X Objects : k[1] # k[2]}
  /\ Loggers \subseteq Objects
ASSUME BoundsAssumption == MaxCalls \in Nat /\ MaxCount \in Nat

VARIABLES
  refs,       \* the objects each object's keys refer to, each under one key
  made,       \* all the references it has ever been given
  attrs,      \* its attributes: "kept", "cleared" by clear(), or "gone" (null)
  stopping,   \* the objects with _stopping = 1
  timers,     \* the objects whose clean-up is due
  calls,      \* how often the program has stopped each object
  stops       \* how often each object's timer has been armed

vars == <<refs, made, attrs, stopping, timers, calls, stops>>

Init ==
  /\ refs = [o \in Objects |-> {}]
  /\ made = refs
  /\ attrs = [o \in Objects |-> "kept"]
  /\ stopping = {}
  /\ timers = {}
  /\ calls = [o \in Objects |-> 0]
  /\ stops = [o \in Objects |-> 0]

\* The program keeps one object in a key of another that is still in use.
Attach(p, c) ==
  /\ attrs[p] # "gone"
  /\ <<p, c>> \in Keys
  /\ refs' = [refs EXCEPT ![p] = @ \cup {c}]
  /\ made' = [made EXCEPT ![p] = @ \cup {c}]
  /\ UNCHANGED <<attrs, stopping, timers, calls, stops>>

Counted(armed) ==
  [o \in Objects |-> IF o \in armed /\ stops[o] < MaxCount THEN stops[o] + 1 ELSE stops[o]]

\* stop() ignores a persistent object and one that is stopping already.
MayStop(o) == o \notin stopping /\ o \notin Persistent

Stop(o) ==
  /\ calls[o] < MaxCalls
  /\ calls' = [calls EXCEPT ![o] = @ + 1]
  /\ LET armed == {x \in {o} : MayStop(x)} IN
       /\ stopping' = stopping \cup armed
       /\ timers' = timers \cup armed
       /\ stops' = Counted(armed)
  /\ UNCHANGED <<refs, made, attrs>>

\* The references the loop follows; it passes over the others.
Followed_Any(o) == refs[o] \ stopping
Followed_UpToPersistent(o) ==
  IF refs[o] \cap Persistent = {} THEN {c \in refs[o] : MayStop(c)} ELSE {}
Followed(o) == {c \in refs[o] : MayStop(c)}

\* this[key] = null for every key that was not passed over.
Remaining_All(o) == refs[o]
Remaining(o) == refs[o] \ Followed(o)

AttributesAfter_Children(o) ==
  [x \in Objects |-> IF x = o \/ x \in Followed(o) THEN "null" ELSE attrs[x]]

\* clear() empties attributes; after this.attributes = null there are none.
AttributesAfter(o) ==
  [x \in Objects |->
     IF x = o THEN "gone"
     ELSE IF x \in Followed(o) /\ o \in Loggers /\ attrs[x] = "kept" THEN "cleared"
     ELSE attrs[x]]

CleanUp(o) ==
  /\ o \in timers
  /\ refs' = [refs EXCEPT ![o] = Remaining(o)]
  /\ attrs' = AttributesAfter(o)
  /\ stopping' = (stopping \ {o}) \cup Followed(o)
  /\ timers' = (timers \ {o}) \cup Followed(o)
  /\ stops' = Counted(Followed(o))
  /\ UNCHANGED <<made, calls>>

Next ==
  \E o \in Objects :
    \/ Stop(o) \/ CleanUp(o)
    \/ \E c \in Objects : Attach(o, c)

Spec == Init /\ [][Next]_vars

\* The timers fire.  Nothing makes the program stop or attach anything.
FairSpec == Spec /\ \A o \in Objects : WF_vars(CleanUp(o))

-----------------------------------------------------------------------------
TypeOK ==
  /\ refs \in [Objects -> SUBSET Objects]
  /\ made \in [Objects -> SUBSET Objects]
  /\ attrs \in [Objects -> {"kept", "cleared", "gone"}]
  /\ stopping \subseteq Objects
  /\ timers \subseteq Objects
  /\ calls \in [Objects -> 0..MaxCalls]
  /\ stops \in [Objects -> 0..MaxCount]

Referrers(graph, o) == {p \in Objects : o \in graph[p]}

\* An object is stopped at most once for each call of the program and once for
\* each reference to it: a cascade through a cycle, whose objects become
\* stoppable again behind it, runs out of references.
StopsBounded ==
  \A o \in Objects : stops[o] <= calls[o] + Cardinality(Referrers(made, o))

\* Nothing an object ever referred to is left behind by its clean-up: it has
\* been cleaned up, is about to be, or is persistent.
NoneForgotten ==
  \A p \in Objects : attrs[p] = "gone" =>
    \A c \in made[p] : c \in Persistent \cup timers \/ attrs[c] = "gone"

\* A cascade never takes a persistent object from the owners that share it:
\* they keep their reference, and its attributes are never touched.
PersistentKept ==
  \A c \in Persistent :
    /\ Referrers(refs, c) = Referrers(made, c)
    /\ attrs[c] = "kept"

\* However the references run, and whatever the program stops, the clean-ups
\* come to an end.
CascadeEnds == <>[](timers = {})
=============================================================================
