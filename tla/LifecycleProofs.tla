-------------------------- MODULE LifecycleProofs --------------------------
(***************************************************************************)
(* Safety of Lifecycle for any finite set of objects and any graph of      *)
(* references the program builds.                                          *)
(***************************************************************************)
EXTENDS Lifecycle, FiniteSetTheorems, TLAPS

\* Counted is a count of the same kind, of which each armed object's has
\* grown by at most one.
LEMMA CountedStep ==
  ASSUME stops \in [Objects -> 0..MaxCount], NEW armed
  PROVE  /\ Counted(armed) \in [Objects -> 0..MaxCount]
         /\ \A o \in Objects : Counted(armed)[o] <= stops[o] + (IF o \in armed THEN 1 ELSE 0)
  BY BoundsAssumption DEF Counted

\* The objects begin within their types.
LEMMA TypeInit == Init => TypeOK
  BY BoundsAssumption DEF Init, TypeOK

\* Stopping, cleaning up and attaching keep the types.
LEMMA TypeStep == TypeOK /\ [Next]_vars => TypeOK'
<1> SUFFICES ASSUME TypeOK, [Next]_vars PROVE TypeOK'
  OBVIOUS
<1>1. CASE UNCHANGED vars
  BY <1>1 DEF vars, TypeOK
<1>2. ASSUME NEW o \in Objects, Stop(o) PROVE TypeOK'
  <2>1. stops' \in [Objects -> 0..MaxCount]
    BY <1>2, CountedStep DEF Stop, TypeOK
  <2>2. calls' \in [Objects -> 0..MaxCalls]
    BY <1>2, BoundsAssumption DEF Stop, TypeOK
  <2> QED
    BY <1>2, <2>1, <2>2 DEF Stop, TypeOK
<1>3. ASSUME NEW o \in Objects, CleanUp(o) PROVE TypeOK'
  <2>1. stops' \in [Objects -> 0..MaxCount]
    BY <1>3, CountedStep DEF CleanUp, TypeOK
  <2>2. Followed(o) \subseteq Objects /\ Remaining(o) \subseteq Objects
    BY DEF Followed, Remaining, TypeOK
  <2>3. attrs' \in [Objects -> {"kept", "cleared", "gone"}]
    BY <1>3 DEF CleanUp, AttributesAfter, TypeOK
  <2> QED
    BY <1>3, <2>1, <2>2, <2>3 DEF CleanUp, TypeOK
<1>4. ASSUME NEW p \in Objects, NEW c \in Objects, Attach(p, c) PROVE TypeOK'
  BY <1>4 DEF Attach, TypeOK
<1> QED
  BY <1>1, <1>2, <1>3, <1>4 DEF Next

\* Whatever objects stop() is called on, and however their clean-ups interleave
\* with new references, every variable stays within its type.
THEOREM LifecycleTypes == Spec => []TypeOK
  BY TypeInit, TypeStep, PTL DEF Spec

-----------------------------------------------------------------------------
(* The inductive invariant.                                                 *)

\* _stopping says that the timer is armed, and no persistent object's ever is.
Locked == stopping = timers /\ timers \cap Persistent = {}

\* Until its clean-up an object has all the references it was given.
Intact ==
  \A p \in Objects : /\ refs[p] \subseteq made[p]
                     /\ attrs[p] # "gone" => refs[p] = made[p]

\* What is left to be stopped by a reference has not been counted yet.
Budget ==
  \A o \in Objects :
    stops[o] + Cardinality(Referrers(refs, o))
      <= calls[o] + Cardinality(Referrers(made, o))

GraphInv == Locked /\ Intact /\ NoneForgotten /\ PersistentKept

\* At first there are no references, and nothing is stopping.
LEMMA GraphInit == Init => GraphInv
  BY ObjectsAssumption DEF Init, GraphInv, Locked, Intact, NoneForgotten, PersistentKept, Referrers

\* A clean-up removes itself from the referrers of what it follows.
LEMMA ReferrersAfterCleanUp ==
  ASSUME TypeOK, NEW o \in Objects, CleanUp(o), NEW x \in Objects
  PROVE  /\ x \in Followed(o) => /\ o \in Referrers(refs, x)
                                 /\ Referrers(refs', x) = Referrers(refs, x) \ {o}
         /\ x \notin Followed(o) => Referrers(refs', x) = Referrers(refs, x)
  BY DEF TypeOK, CleanUp, Remaining, Followed, Referrers

\* A new reference adds one referrer to each graph, and to one object only.
LEMMA ReferrersAfterAttach ==
  ASSUME TypeOK, Intact, NEW p \in Objects, NEW c \in Objects, Attach(p, c)
  PROVE  /\ Referrers(refs', c) = Referrers(refs, c) \cup {p}
         /\ Referrers(made', c) = Referrers(made, c) \cup {p}
         /\ p \in Referrers(refs, c) <=> p \in Referrers(made, c)
         /\ \A x \in Objects \ {c} : /\ Referrers(refs', x) = Referrers(refs, x)
                                     /\ Referrers(made', x) = Referrers(made, x)
<1>1. refs[p] = made[p]
  BY DEF Attach, Intact
<1>2. refs' = [refs EXCEPT ![p] = refs[p] \cup {c}] /\ made' = [made EXCEPT ![p] = made[p] \cup {c}]
  BY DEF Attach
<1> QED
  BY <1>1, <1>2 DEF TypeOK, Referrers

\* A clean-up forgets only references to objects whose timer it arms or which are
\* persistent, whatever the graph.
LEMMA GraphStep == TypeOK /\ GraphInv /\ [Next]_vars => GraphInv'
<1> SUFFICES ASSUME TypeOK, GraphInv, [Next]_vars PROVE GraphInv'
  OBVIOUS
<1>0. /\ Locked /\ Intact /\ NoneForgotten /\ PersistentKept
      /\ Persistent \subseteq Objects
  BY ObjectsAssumption DEF GraphInv
<1>1. CASE UNCHANGED vars
  BY <1>0, <1>1 DEF vars, GraphInv, Locked, Intact, NoneForgotten, PersistentKept, Referrers
<1>2. ASSUME NEW o \in Objects, Stop(o) PROVE GraphInv'
  <2>1. Locked'
    BY <1>0, <1>2 DEF Stop, Locked, MayStop
  <2>2. Intact' /\ PersistentKept'
    BY <1>0, <1>2 DEF Stop, Intact, PersistentKept, Referrers
  <2>3. NoneForgotten'
    BY <1>0, <1>2 DEF Stop, NoneForgotten
  <2> QED
    BY <2>1, <2>2, <2>3 DEF GraphInv
<1>3. ASSUME NEW o \in Objects, CleanUp(o) PROVE GraphInv'
  <2>0. Followed(o) \cap Persistent = {} /\ Followed(o) \subseteq refs[o] /\ o \notin Persistent
    BY <1>0, <1>3 DEF Followed, MayStop, CleanUp, Locked
  <2>1. Locked'
    BY <1>0, <1>3, <2>0 DEF CleanUp, Locked
  <2>2. \A x \in Objects : attrs'[x] = "gone" <=> x = o \/ attrs[x] = "gone"
    BY <1>3 DEF CleanUp, AttributesAfter, TypeOK
  <2>3. Intact'
    BY <1>0, <1>3, <2>2 DEF CleanUp, Intact, Remaining, TypeOK
  <2>4. PersistentKept'
    <3>1. \A c \in Persistent : attrs'[c] = "kept"
      BY <1>0, <1>3, <2>0 DEF CleanUp, AttributesAfter, PersistentKept, TypeOK
    <3>2. \A c \in Persistent : Referrers(refs', c) = Referrers(refs, c)
      BY <1>0, <1>3, <2>0, ReferrersAfterCleanUp
    <3>3. made' = made
      BY <1>3 DEF CleanUp
    <3> QED
      BY <1>0, <3>1, <3>2, <3>3 DEF PersistentKept, Referrers
  <2>5. NoneForgotten'
    <3> SUFFICES ASSUME NEW p \in Objects, attrs'[p] = "gone", NEW c \in made[p]
                 PROVE  c \in Persistent \cup timers' \/ attrs'[c] = "gone"
      BY <1>3 DEF NoneForgotten, CleanUp
    <3>0. c \in Objects
      BY DEF TypeOK
    <3>1. c \in Persistent \cup timers \/ attrs[c] = "gone" \/ c \in Followed(o)
      <4>1. CASE attrs[p] = "gone"
        BY <1>0, <4>1 DEF NoneForgotten
      <4>2. CASE attrs[p] # "gone"
        <5>1. p = o /\ c \in refs[o]
          BY <1>0, <2>2, <4>2 DEF Intact
        <5> QED
          BY <1>0, <5>1 DEF Followed, MayStop, Locked
      <4> QED
        BY <4>1, <4>2
    <3> QED
      BY <1>3, <2>2, <3>0, <3>1 DEF CleanUp
  <2> QED
    BY <2>1, <2>3, <2>4, <2>5 DEF GraphInv
<1>4. ASSUME NEW p \in Objects, NEW c \in Objects, Attach(p, c) PROVE GraphInv'
  <2>1. Locked'
    BY <1>0, <1>4 DEF Attach, Locked
  <2>2. Intact'
    BY <1>0, <1>4 DEF Attach, Intact, TypeOK
  <2>3. NoneForgotten'
    <3>1. attrs' = attrs /\ timers' = timers /\ attrs[p] # "gone"
      BY <1>4 DEF Attach
    <3>2. \A q \in Objects \ {p} : made'[q] = made[q]
      BY <1>4 DEF Attach, TypeOK
    <3> SUFFICES ASSUME NEW q \in Objects, attrs'[q] = "gone", NEW d \in made'[q]
                 PROVE  d \in Persistent \cup timers' \/ attrs'[d] = "gone"
      BY DEF NoneForgotten
    <3>3. attrs[q] = "gone" /\ d \in made[q]
      BY <3>1, <3>2
    <3> QED
      BY <1>0, <3>1, <3>3 DEF NoneForgotten
  <2>4. PersistentKept'
    <3>1. \A x \in Persistent : Referrers(refs', x) = Referrers(made', x)
      <4> SUFFICES ASSUME NEW x \in Persistent
                   PROVE  Referrers(refs', x) = Referrers(made', x)
        OBVIOUS
      <4>1. Referrers(refs, x) = Referrers(made, x) /\ x \in Objects
        BY <1>0 DEF PersistentKept
      <4>2. CASE x = c
        BY <1>0, <1>4, <4>1, <4>2, ReferrersAfterAttach
      <4>3. CASE x # c
        BY <1>0, <1>4, <4>1, <4>3, ReferrersAfterAttach
      <4> QED
        BY <4>2, <4>3
    <3>2. attrs' = attrs
      BY <1>4 DEF Attach
    <3> QED
      BY <1>0, <3>1, <3>2 DEF PersistentKept, Referrers
  <2> QED
    BY <2>1, <2>2, <2>3, <2>4 DEF GraphInv
<1> QED
  BY <1>1, <1>2, <1>3, <1>4 DEF Next

\* Nothing an object ever referred to is forgotten by the loop of its clean-up
\* (logger.js:388, addons/model.js:199): it is cleaned up too, or persistent.
THEOREM CleanUpForgetsNothing == Spec => []NoneForgotten
<1>1. GraphInv => NoneForgotten
  BY DEF GraphInv
<1> QED
  BY <1>1, GraphInit, GraphStep, LifecycleTypes, PTL DEF Spec

\* Objects with isPersistent, the stubs of mariadb.js for instance, stay with
\* their owners and keep their attributes, whatever is stopped around them.
THEOREM PersistentObjectsStay == Spec => []PersistentKept
<1>1. GraphInv => PersistentKept
  BY DEF GraphInv
<1> QED
  BY <1>1, GraphInit, GraphStep, LifecycleTypes, PTL DEF Spec

-----------------------------------------------------------------------------
(* The number of stops.                                                     *)

\* Both graphs give an object finitely many referrers, so that they can be counted.
LEMMA ReferrersFinite ==
  ASSUME NEW graph, NEW x
  PROVE  IsFiniteSet(Referrers(graph, x)) /\ Cardinality(Referrers(graph, x)) \in Nat
<1>1. Referrers(graph, x) \subseteq Objects
  BY DEF Referrers
<1> QED
  BY <1>1, ObjectsAssumption, FS_Subset, FS_CardinalityType

\* At first nothing has been stopped.
LEMMA BudgetInit == Init => Budget
  BY ReferrersFinite DEF Init, Budget

\* A stop through a reference uses that reference up; one by the program is a call.
LEMMA BudgetStep == TypeOK /\ GraphInv /\ Budget /\ [Next]_vars => Budget'
<1> SUFFICES ASSUME TypeOK, GraphInv, Budget, [Next]_vars, NEW x \in Objects
             PROVE  stops'[x] + Cardinality(Referrers(refs', x))
                      <= calls'[x] + Cardinality(Referrers(made', x))
  BY DEF Budget, Referrers
<1> DEFINE R(graph) == Cardinality(Referrers(graph, x))
<1>0. /\ R(refs) \in Nat /\ R(made) \in Nat
      /\ stops[x] \in Nat /\ calls[x] \in Nat /\ stops'[x] \in Nat
      /\ stops[x] + R(refs) <= calls[x] + R(made)
  <2>1. stops' \in [Objects -> 0..MaxCount]
    BY TypeStep DEF TypeOK
  <2> QED
    BY <2>1, ReferrersFinite, BoundsAssumption DEF TypeOK, Budget
<1>1. CASE UNCHANGED vars
  BY <1>0, <1>1 DEF vars
<1>2. ASSUME NEW o \in Objects, Stop(o)
      PROVE  stops'[x] + R(refs') <= calls'[x] + R(made')
  <2>1. refs' = refs /\ made' = made
    BY <1>2 DEF Stop
  <2>2. stops'[x] <= stops[x] + (IF x = o THEN 1 ELSE 0)
    <3> DEFINE armed == {y \in {o} : MayStop(y)}
    <3>1. stops' = Counted(armed)
      BY <1>2 DEF Stop
    <3>2. stops'[x] <= stops[x] + (IF x \in armed THEN 1 ELSE 0)
      BY <3>1, CountedStep DEF TypeOK
    <3>3. x \in armed => x = o
      OBVIOUS
    <3> QED
      BY <1>0, <3>2, <3>3
  <2>3. calls'[x] = calls[x] + (IF x = o THEN 1 ELSE 0)
    BY <1>2 DEF Stop, TypeOK
  <2> QED
    BY <1>0, <2>1, <2>2, <2>3
<1>3. ASSUME NEW o \in Objects, CleanUp(o)
      PROVE  stops'[x] + R(refs') <= calls'[x] + R(made')
  <2>1. made' = made /\ calls' = calls
    BY <1>3 DEF CleanUp
  <2>2. stops'[x] <= stops[x] + (IF x \in Followed(o) THEN 1 ELSE 0)
    BY <1>3, CountedStep DEF CleanUp, TypeOK
  <2>3. R(refs') = R(refs) - (IF x \in Followed(o) THEN 1 ELSE 0)
    <3>1. CASE x \in Followed(o)
      <4>1. o \in Referrers(refs, x) /\ Referrers(refs', x) = Referrers(refs, x) \ {o}
        BY <1>3, <3>1, ReferrersAfterCleanUp
      <4>2. IsFiniteSet(Referrers(refs, x))
        BY ReferrersFinite
      <4> QED
        BY <3>1, <4>1, <4>2, FS_RemoveElement
    <3>2. CASE x \notin Followed(o)
      <4>1. Referrers(refs', x) = Referrers(refs, x)
        BY <1>3, <3>2, ReferrersAfterCleanUp
      <4> QED
        BY <1>0, <3>2, <4>1
    <3> QED
      BY <3>1, <3>2
  <2> QED
    BY <1>0, <2>1, <2>2, <2>3
<1>4. ASSUME NEW p \in Objects, NEW c \in Objects, Attach(p, c)
      PROVE  stops'[x] + R(refs') <= calls'[x] + R(made')
  <2>1. stops' = stops /\ calls' = calls
    BY <1>4 DEF Attach
  <2>2. Intact
    BY DEF GraphInv
  <2>3. CASE x # c
    <3>1. Referrers(refs', x) = Referrers(refs, x) /\ Referrers(made', x) = Referrers(made, x)
      BY <1>4, <2>2, <2>3, ReferrersAfterAttach
    <3> QED
      BY <1>0, <2>1, <3>1
  <2>4. CASE x = c
    <3>1. /\ Referrers(refs', x) = Referrers(refs, x) \cup {p}
          /\ Referrers(made', x) = Referrers(made, x) \cup {p}
          /\ p \in Referrers(refs, x) <=> p \in Referrers(made, x)
      BY <1>4, <2>2, <2>4, ReferrersAfterAttach
    <3>2. CASE p \in Referrers(refs, x)
      <4>1. Referrers(refs', x) = Referrers(refs, x) /\ Referrers(made', x) = Referrers(made, x)
        BY <3>1, <3>2
      <4> QED
        BY <1>0, <2>1, <4>1
    <3>3. CASE p \notin Referrers(refs, x)
      <4>1. R(refs') = R(refs) + 1
        BY <3>1, <3>3, ReferrersFinite, FS_AddElement
      <4>2. R(made') = R(made) + 1
        BY <3>1, <3>3, ReferrersFinite, FS_AddElement
      <4> QED
        BY <1>0, <2>1, <4>1, <4>2
    <3> QED
      BY <3>2, <3>3
  <2> QED
    BY <2>3, <2>4
<1> QED
  BY <1>1, <1>2, <1>3, <1>4 DEF Next

\* A cascade of stop() stops an object at most once for each call and for each
\* reference to it, cycles included, although _stopping is reset behind it.
THEOREM CascadeIsBounded == Spec => []StopsBounded
<1>1. TypeOK /\ Budget => StopsBounded
  <2> SUFFICES ASSUME TypeOK, Budget, NEW o \in Objects
               PROVE  stops[o] <= calls[o] + Cardinality(Referrers(made, o))
    BY DEF StopsBounded
  <2>1. /\ Cardinality(Referrers(refs, o)) \in Nat /\ Cardinality(Referrers(made, o)) \in Nat
        /\ stops[o] \in Nat /\ calls[o] \in Nat
    BY ReferrersFinite, BoundsAssumption DEF TypeOK
  <2> QED
    BY <2>1 DEF Budget
<1> QED
  BY <1>1, BudgetInit, BudgetStep, GraphInit, GraphStep, LifecycleTypes, PTL DEF Spec
=============================================================================
