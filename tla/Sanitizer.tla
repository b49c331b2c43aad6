------------------------------ MODULE Sanitizer -----------------------------
(***************************************************************************)
(* What a model shows of itself: sanitize and cleanData of src/lib/        *)
(* logger.js and their older copies in addons/model.js.  cleanData copies  *)
(* the attributes, not the objects they hold, and strips the copy of       *)
(* system keys and of values that are paths of the system.                 *)
(*                                                                         *)
(* Objects and arrays live in a heap; an item that was deleted is "gone".  *)
(* sanitize() calls itself for what an item holds: each call under way     *)
(* stands at an item, and the innermost one goes on.  Nothing else runs    *)
(* before the outermost one has returned or thrown.                        *)
(*                                                                         *)
(* An operator named X_Y is X with a fault: the properties are tested by   *)
(* putting it in X's place (PROJECT.json, "mutants").                      *)
(***************************************************************************)
EXTENDS Naturals, Sequences

CONSTANTS InitialHeap,    \* the objects there are, and what they hold at first
          RuntimeDirSet,  \* whether DRUMEE_RUNTIME_DIR is in the environment
          MaxSets         \* how often the program writes an item

VARIABLES
  heap,      \* every object: whether it is an array, its items in order
  at,        \* the item at which the sanitize() of an object stands, or 0
  cleaned,   \* the last cleanData: by which class, and how it went
  sets       \* how often an item was written

sanitizerVars == <<heap, at, cleaned, sets>>

\* A path of the system, undefined, any other scalar.
Leaf == {"path", "undefined", "text"}
Id == {"attributes", "json", "object", "array"}
Item == [sysKey : BOOLEAN, value : Leaf \cup Id \cup {"gone"}]

\* What an item of an object may hold, so that none holds itself.
Holds(id) ==
  CASE id \in {"attributes", "json"} -> Leaf \cup {"object", "array"}
    [] id = "object" -> Leaf \cup {"array"}
    [] id = "array" -> Leaf

\* Attributes are an object, and so is their copy; the other two may be arrays.
ASSUME SanitizerAssumption ==
  /\ RuntimeDirSet \in BOOLEAN /\ MaxSets \in Nat
  /\ InitialHeap \in [Id -> [isArray : BOOLEAN, items : Seq(Item)]]
  /\ ~InitialHeap["attributes"].isArray /\ ~InitialHeap["json"].isArray
  /\ \A id \in Id : \A i \in DOMAIN InitialHeap[id].items :
       InitialHeap[id].items[i].value \in Holds(id)

SanitizerInit ==
  /\ heap = InitialHeap
  /\ at = [id \in Id |-> 0]
  /\ cleaned = [by |-> "logger", outcome |-> "none"]
  /\ sets = 0

-----------------------------------------------------------------------------
\* What SYS_VALUES matches.  In model.js it is made of the environment, and is
\* /^(\undefined)/ where the variable is not set.
SysValues_FromEnv(class) == IF RuntimeDirSet THEN {"path"} ELSE {"undefined"}
SysValues(class) ==
  IF class = "logger" THEN {"path"} ELSE IF RuntimeDirSet THEN {"path"} ELSE {"undefined"}

\* An array is matched as the string it joins to: it begins with its first
\* item, and with nothing for undefined.  Another object is "[object Object]".
Begin(h, v) ==
  IF v \notin Id THEN v
  ELSE IF h[v].isArray /\ h[v].items # <<>> /\ h[v].items[1].value # "undefined"
  THEN h[v].items[1].value
  ELSE "text"

\* An array may begin with an array, which holds no further one.
Matches_Scalars(h, v, sys) == v \in sys
Matches(h, v, sys) == Begin(h, Begin(h, v)) \in sys

Idle == \A id \in Id : at[id] = 0

\* cleanData(): sanitize(toJSON()).
Cleaning(class, json) ==
  /\ Idle
  /\ heap' = [heap EXCEPT !["json"] = heap["attributes"]]
  /\ at' = [at EXCEPT ![json] = 1]
  /\ cleaned' = [by |-> class, outcome |-> "none"]
  /\ UNCHANGED sets
cleanData_Uncopied == Cleaning("logger", "attributes")
cleanData == Cleaning("logger", "json")
modelCleanData == Cleaning("model", "json")

\* The call for id waits for none for what it holds.
Innermost(id) == at[id] # 0 /\ \A held \in Holds(id) \cap Id : at[held] = 0

Matched(id) == Matches(heap, heap[id].items[at[id]].value, SysValues(cleaned.by))

\* At the end of the items.
SanitizeReturns(id) ==
  /\ Innermost(id) /\ at[id] > Len(heap[id].items)
  /\ at' = [at EXCEPT ![id] = 0]
  /\ cleaned' = IF \A other \in Id \ {id} : at[other] = 0 THEN [cleaned EXCEPT !.outcome = "clean"]
                ELSE cleaned
  /\ UNCHANGED <<heap, sets>>

\* `delete item[k]` in the loop over an array names a k that is not there.
SanitizeThrows(id) ==
  /\ Innermost(id) /\ at[id] <= Len(heap[id].items)
  /\ heap[id].isArray /\ Matched(id)
  /\ at' = [other \in Id |-> 0]
  /\ cleaned' = [cleaned EXCEPT !.outcome = "threw"]
  /\ UNCHANGED <<heap, sets>>

SanitizeDeletes_Whole(id) ==
  /\ Innermost(id) /\ at[id] <= Len(heap[id].items)
  /\ ~heap[id].isArray /\ (heap[id].items[at[id]].sysKey \/ Matched(id))
  /\ heap' = [heap EXCEPT ![id].items =
                [i \in DOMAIN @ |-> [sysKey |-> @[i].sysKey, value |-> "gone"]]]
  /\ at' = [at EXCEPT ![id] = @ + 1]
  /\ UNCHANGED <<cleaned, sets>>
SanitizeDeletes(id) ==
  /\ Innermost(id) /\ at[id] <= Len(heap[id].items)
  /\ ~heap[id].isArray /\ (heap[id].items[at[id]].sysKey \/ Matched(id))
  /\ heap' = [heap EXCEPT ![id].items[at[id]].value = "gone"]
  /\ at' = [at EXCEPT ![id] = @ + 1]
  /\ UNCHANGED <<cleaned, sets>>

\* What stays, and is sanitized in turn if it is an object.
SanitizeKeeps(id) ==
  /\ Innermost(id) /\ at[id] <= Len(heap[id].items)
  /\ ~Matched(id) /\ (heap[id].items[at[id]].sysKey => heap[id].isArray)
  /\ at' = [other \in Id |-> IF other = id THEN at[id] + 1
                             ELSE IF other = heap[id].items[at[id]].value THEN 1
                             ELSE at[other]]
  /\ UNCHANGED <<heap, cleaned, sets>>

sanitize(id) ==
  SanitizeReturns(id) \/ SanitizeThrows(id) \/ SanitizeDeletes(id) \/ SanitizeKeeps(id)

\* The program writes an item.
SetItem(id, i, v) ==
  /\ Idle /\ sets < MaxSets /\ sets' = sets + 1
  /\ heap[id].items[i].value # v
  /\ heap' = [heap EXCEPT ![id].items[i].value = v]
  /\ cleaned' = [cleaned EXCEPT !.outcome = "none"]
  /\ UNCHANGED at

SanitizerNext ==
  \/ cleanData \/ modelCleanData
  \/ \E id \in Id : sanitize(id)
  \/ \E id \in {"attributes", "object", "array"} : \E i \in DOMAIN heap[id].items, v \in Holds(id) :
       SetItem(id, i, v)

SanitizerSpec == SanitizerInit /\ [][SanitizerNext]_sanitizerVars

-----------------------------------------------------------------------------
SanitizerTypeOK ==
  /\ heap \in [Id -> [isArray : BOOLEAN, items : Seq(Item)]]
  /\ at \in [Id -> Nat] /\ \A id \in Id : at[id] <= Len(heap[id].items) + 1
  /\ cleaned \in [by : {"logger", "model"}, outcome : {"none", "clean", "threw"}]
  /\ sets \in 0..MaxSets

ItemsOf(id) == {heap[id].items[i] : i \in DOMAIN heap[id].items}
HeldBy(ids) == ids \cup ({item.value : item \in UNION {ItemsOf(id) : id \in ids}} \cap Id)
InJson == HeldBy(HeldBy({"json"}))

\* What cleanData of a logger returned holds no system key and no system path,
\* at any depth, when it has not thrown: it throws rather than let one pass.
CleanIsClean ==
  cleaned = [by |-> "logger", outcome |-> "clean"] =>
    \A id \in InJson : \A item \in ItemsOf(id) :
      item.value # "path" /\ (item.sysKey /\ ~heap[id].isArray => item.value = "gone")

\* A system path, or an array that begins with one.
IsPath(v) ==
  v = "path" \/ (v \in Id /\ heap[v].isArray /\ heap[v].items # <<>> /\ heap[v].items[1].value = "path")

\* cleanData throws for an array only, one that holds a path behind its first
\* item (line 258): an array that begins with one is dropped whole.
ThrowsOnLaterPath ==
  cleaned = [by |-> "logger", outcome |-> "threw"] =>
    \E id \in InJson : /\ heap[id].isArray /\ ~IsPath(heap[id].items[1].value)
                       /\ \E i \in DOMAIN heap[id].items : IsPath(heap[id].items[i].value)

\* The model keeps its own attributes, whatever is stripped from the copy
\* (line 294).
OwnAttributesKept == \A item \in ItemsOf("attributes") : item.value # "gone"

\* Of the objects that the attributes hold, which are not copied, the model
\* loses for good what was stripped: system keys and values, and arrays that
\* begin with one (line 273).  A plain text under a key of its own name is never
\* among it.
OnlySecretsStripped ==
  [][\A id \in {"object", "array"} : \A i \in DOMAIN heap[id].items :
       LET item == heap[id].items[i] IN
       item.value = "text" /\ ~item.sysKey => heap'[id].items[i].value # "gone"]_sanitizerVars
=============================================================================
