------------------------------- MODULE Cache -------------------------------
(***************************************************************************)
(* src/lib/cache.js: the process-wide tables of file types, settings and   *)
(* messages, and load(), which fills them from two queries and the         *)
(* language files.  Several loads may overlap; they put their queries to   *)
(* handles (stubs of mariadb.js) they may share.                           *)
(*                                                                         *)
(* A table of the database is the version of its rows; what the cache      *)
(* holds of it is the version it was filled from, 0 before the first time. *)
(* Of the texts only matters which languages have any.                     *)
(*                                                                         *)
(* A query goes over the connection its handle holds, or over a new one    *)
(* when it holds none: calls that overlap the first connection have one    *)
(* each (mariadb.js:63-80).  One connection answers its queries in order,  *)
(* two in any order.  A refused connection ends the process, and with it   *)
(* what is modelled here; the handles have no pool.                        *)
(*                                                                         *)
(* An operator named X_Y is X with a fault: the properties are tested by   *)
(* putting it in X's place (PROJECT.json, "mutants").                      *)
(***************************************************************************)
EXTENDS Naturals, Sequences

CONSTANTS Loads,          \* calls of load(); each names the handle it may create
          Given,          \* handles the program passes as load's argument
          Yp,             \* the handle under 'yp' of setEnv, or None
          None,           \* JavaScript's null / undefined
          Arguments,      \* what each call may be given as `db`
          sys_languages,  \* the languages, in the order load() takes them
          MaxVersion,     \* how often the tables change (a bound of the model)
          QueriesFail,    \* a query may fail, a connection be lost
          MergeEarly      \* the program may call mergeLex before the first load

Languages == {sys_languages[i] : i \in DOMAIN sys_languages}
Handles == Given \cup Loads \cup ({Yp} \ {None})

\* A connection is named for the query it was made for, or for the handle the
\* program had connected before.
Conns == (Loads \X {"filecap", "sysconf"}) \cup (Handles \X {"before"})

ASSUME CacheAssumption ==
  /\ None \notin Given \cup Loads \cup Conns
  /\ Arguments \in [Loads -> SUBSET (Given \cup {None})]
  /\ MaxVersion \in Nat \ {0}
  /\ QueriesFail \in BOOLEAN
  /\ MergeEarly \in BOOLEAN

VARIABLES
  version,    \* of the rows in the database
  file,       \* what each language has under dataset/locale
  pc,         \* where each load stands
  arg,        \* the argument `db` of each load
  made,       \* per handle, the connections it ever began
  connection, \* per handle, its _connection if that is valid, or None
  up,         \* the connections that are established and not ended
  asked,      \* per connection, the queries waiting for it or sent over it
  answered,   \* per connection, the answers not read yet
  filecap, sysconf,   \* Filecap, Sysconf
  lexicon,    \* whether Lexicon has an entry for each language
  indexed     \* Lexicon has entries under the indices of `missing`

vars == <<version, file, pc, arg, made, connection, up, asked, answered,
          filecap, sysconf, lexicon, indexed>>
handleVars == <<made, connection, up, asked, answered>>
tables == <<filecap, sysconf>>
messages == <<lexicon, indexed>>
inputs == <<file, arg>>

Failed == 0    \* a query's answer: undefined rows, or else their version

Init ==
  /\ version = 1
  /\ file \in [Languages -> {"none", "good", "malformed"}]
  /\ pc = [l \in Loads |-> "idle"]
  /\ arg \in [Loads -> Given \cup {None}] /\ \A l \in Loads : arg[l] \in Arguments[l]
  /\ \E connected \in SUBSET (Handles \ Loads) :
       /\ connection = [h \in Handles |-> IF h \in connected THEN <<h, "before">> ELSE None]
       /\ made = [h \in Handles |-> {<<h, "before">>} \cap (connected \X {"before"})]
       /\ up = connected \X {"before"}
  /\ asked = [k \in Conns |-> <<>>]
  /\ answered = [k \in Conns |-> <<>>]
  /\ filecap = 0 /\ sysconf = 0
  /\ lexicon = [g \in Languages |-> FALSE]
  /\ indexed = FALSE

-----------------------------------------------------------------------------
(* The handles: mariadb.js                                                  *)

\* db || Env.get('yp') || new Db(...)
HandleOf_Own(l) == IF arg[l] # None THEN arg[l] ELSE l
HandleOf(l) == IF arg[l] # None THEN arg[l] ELSE IF Yp # None THEN Yp ELSE l

\* getConnection() finds the connection of the handle, or makes another.
Ask(l, query) ==
  LET h == HandleOf(l) IN
  \/ /\ connection[h] # None
     /\ asked' = [asked EXCEPT ![connection[h]] = Append(@, l)]
     /\ UNCHANGED made
  \/ /\ connection[h] = None
     /\ asked' = [asked EXCEPT ![<<l, query>>] = <<l>>]
     /\ made' = [made EXCEPT ![h] = @ \cup {<<l, query>>}]

\* The last connection to be established is the one the handle keeps.
Connected(h, k) ==
  /\ k \in made[h] \ up
  /\ asked[k] # <<>>
  /\ up' = up \cup {k}
  /\ connection' = [connection EXCEPT ![h] = k]
  /\ UNCHANGED <<version, inputs, pc, made, asked, answered, tables, messages>>

\* The next answer that arrives on the connection is l's.
Answer(l, k) == answered[k] # <<>> /\ Head(answered[k]).load = l

\* l reads its answer, and nothing else changes on the handle.
Read(k) == answered' = [answered EXCEPT ![k] = Tail(@)]

\* l reads its answer and ends its handle: the connection the handle holds
\* now, with what others still wait for on it, is forgotten.
ReadAndEnd(l, k) ==
  LET h == HandleOf(l)
      c == connection[h]
  IN /\ c # None
     /\ connection' = [connection EXCEPT ![h] = None]
     /\ up' = up \ {c}
     /\ asked' = [asked EXCEPT ![c] = <<>>]
     /\ answered' = [answered EXCEPT ![k] = Tail(@), ![c] = <<>>]
     /\ UNCHANGED made

-----------------------------------------------------------------------------
(* load()                                                                   *)

LexiconSize_Filecap == filecap > 0
LexiconSize == indexed \/ \E g \in Languages : lexicon[g]

Skip(l) ==
  /\ pc[l] = "idle"
  /\ LexiconSize
  /\ pc' = [pc EXCEPT ![l] = "skipped"]
  /\ UNCHANGED <<version, inputs, handleVars, tables, messages>>

\* With `force`, as without when the lexicon is empty, the load begins.
Load(l) ==
  /\ pc[l] = "idle"
  /\ pc' = [pc EXCEPT ![l] = "filecap"]
  /\ Ask(l, "filecap")
  /\ UNCHANGED <<version, inputs, connection, up, answered, tables, messages>>

FilecapLoaded_Ended(l, k) ==
  /\ pc[l] = "filecap"
  /\ Answer(l, k)
  /\ Head(answered[k]).rows # Failed
  /\ filecap' = Head(answered[k]).rows
  /\ pc' = [pc EXCEPT ![l] = "sysconf"]
  /\ asked' = [asked EXCEPT ![k] = <<>>]
  /\ answered' = [answered EXCEPT ![k] = <<>>]
  /\ UNCHANGED <<version, inputs, made, connection, up, sysconf, messages>>

FilecapLoaded(l, k) ==
  /\ pc[l] = "filecap"
  /\ Answer(l, k)
  /\ Head(answered[k]).rows # Failed
  /\ filecap' = Head(answered[k]).rows
  /\ pc' = [pc EXCEPT ![l] = "sysconf"]
  /\ Read(k)
  /\ Ask(l, "sysconf")
  /\ UNCHANGED <<version, inputs, connection, up, sysconf, messages>>

\* readFileSync throws on the first file that does not parse.
Malformed == {g \in Languages : file[g] = "malformed"}

\* The languages whose file is read: those before the first malformed one.
Readable ==
  {sys_languages[i] : i \in {i \in DOMAIN sys_languages :
     /\ file[sys_languages[i]] = "good"
     /\ \A j \in 1..i : sys_languages[j] \notin Malformed}}

\* load() gets to the languages without a file.
Missing == Malformed = {} /\ \E g \in Languages : file[g] = "none"

LexiconLoaded_Rebuilt ==
  /\ lexicon' = [g \in Readable |-> TRUE]
  /\ indexed' = (indexed \/ Missing)

\* Languages without a file are entered under their indices, where no lookup
\* finds them.
LexiconLoaded ==
  /\ lexicon' = [g \in Languages |-> lexicon[g] \/ g \in Readable]
  /\ indexed' = (indexed \/ Missing)

\* After the second answer everything happens at once: the handle is ended if
\* it was an argument and is valid, then the files are read.
SysconfLoaded(l, k) ==
  /\ pc[l] = "sysconf"
  /\ Answer(l, k)
  /\ Head(answered[k]).rows # Failed
  /\ sysconf' = Head(answered[k]).rows
  /\ IF arg[l] # None /\ connection[arg[l]] # None
       THEN ReadAndEnd(l, k)
       ELSE Read(k) /\ UNCHANGED <<made, connection, up, asked>>
  /\ LexiconLoaded
  /\ pc' = [pc EXCEPT ![l] = IF Malformed = {} THEN "done" ELSE "failed"]
  /\ UNCHANGED <<version, inputs, filecap>>

\* A failed query answers undefined, which cannot be iterated; _handleError has
\* ended the handle if it is valid, or not on a deadlock or with throwOnError.
QueryFailed(l, k) ==
  /\ pc[l] \in {"filecap", "sysconf"}
  /\ Answer(l, k)
  /\ Head(answered[k]).rows = Failed
  /\ pc' = [pc EXCEPT ![l] = "failed"]
  /\ \/ ReadAndEnd(l, k)
     \/ Read(k) /\ UNCHANGED <<made, connection, up, asked>>
  /\ UNCHANGED <<version, inputs, tables, messages>>

\* A language has an entry once the program has merged texts into it.
mergeLex(g) ==
  /\ MergeEarly \/ \E l \in Loads : pc[l] = "done"
  /\ lexicon' = [lexicon EXCEPT ![g] = TRUE]
  /\ UNCHANGED <<version, inputs, pc, handleVars, tables, indexed>>

-----------------------------------------------------------------------------
(* The database                                                             *)

Execute(k) ==
  /\ k \in up
  /\ asked[k] # <<>>
  /\ \E rows \in {version} \cup (IF QueriesFail THEN {Failed} ELSE {}) :
       answered' = [answered EXCEPT ![k] = Append(@, [load |-> Head(asked[k]), rows |-> rows])]
  /\ asked' = [asked EXCEPT ![k] = Tail(@)]
  /\ UNCHANGED <<version, inputs, pc, made, connection, up, tables, messages>>

\* The loads that wait for an answer over the connection.
Waiting(k) == {l \in Loads : \/ \E i \in DOMAIN asked[k] : asked[k][i] = l
                             \/ \E i \in DOMAIN answered[k] : answered[k][i].load = l}

\* A connection in use is lost: its queries are rejected, and the handle finds
\* it invalid.  (A loss nobody waits on ends the process: MariadbStub.)
Lost(k) ==
  /\ QueriesFail
  /\ k \in up
  /\ Waiting(k) # {}
  /\ pc' = [l \in Loads |-> IF l \in Waiting(k) THEN "failed" ELSE pc[l]]
  /\ up' = up \ {k}
  /\ connection' = [h \in Handles |-> IF connection[h] = k THEN None ELSE connection[h]]
  /\ asked' = [asked EXCEPT ![k] = <<>>]
  /\ answered' = [answered EXCEPT ![k] = <<>>]
  /\ UNCHANGED <<version, inputs, made, tables, messages>>

Change ==
  /\ version < MaxVersion
  /\ version' = version + 1
  /\ UNCHANGED <<inputs, pc, handleVars, tables, messages>>

\* The load reads the answer it waits for.
Answered(l) ==
  \E k \in Conns : FilecapLoaded(l, k) \/ SysconfLoaded(l, k) \/ QueryFailed(l, k)

\* The database accepts a connection or executes a query.
Serve == (\E h \in Handles : \E k \in made[h] : Connected(h, k)) \/ \E k \in Conns : Execute(k)

Next ==
  \/ \E l \in Loads : Skip(l) \/ Load(l) \/ Answered(l)
  \/ \E g \in Languages : mergeLex(g)
  \/ Serve
  \/ \E k \in Conns : Lost(k)
  \/ Change

Spec == Init /\ [][Next]_vars

\* The database answers, and the event loop runs what waits for an answer.
Fairness == WF_vars(Serve) /\ \A l \in Loads : WF_vars(Answered(l))

FairSpec == Spec /\ Fairness

-----------------------------------------------------------------------------
Row == [load : Loads, rows : 0..MaxVersion]

TypeOK ==
  /\ version \in 1..MaxVersion
  /\ file \in [Languages -> {"none", "good", "malformed"}]
  /\ pc \in [Loads -> {"idle", "filecap", "sysconf", "done", "skipped", "failed"}]
  /\ arg \in [Loads -> Given \cup {None}]
  /\ made \in [Handles -> SUBSET Conns]
  /\ connection \in [Handles -> Conns \cup {None}]
  /\ up \subseteq Conns
  /\ asked \in [Conns -> Seq(Loads)]
  /\ answered \in [Conns -> Seq(Row)]
  /\ filecap \in 0..MaxVersion
  /\ sysconf \in 0..MaxVersion
  /\ lexicon \in [Languages -> BOOLEAN]
  /\ indexed \in BOOLEAN

\* Whoever comes back from load() finds the tables filled and every language
\* that could be read entered, those included who were told "Cache already
\* loaded" (cache.js:174) while others were loading or after another load had
\* stumbled over a malformed file (cache.js:221).
LoadedIsFilled ==
  \A l \in Loads : pc[l] \in {"done", "skipped"} =>
    filecap > 0 /\ sysconf > 0 /\ \A g \in Readable : lexicon[g]

\* All calls of load() use the handle under 'yp', which has had one connection.
SharedConnection ==
  /\ Yp # None /\ \A l \in Loads : arg[l] = None
  /\ \A j, k \in made[Yp] : j = k

\* Loads that share the handle under 'yp' never replace newer rows by older
\* ones, however they overlap, as long as its first connection is its only one:
\* the later answer is the one that stays.
NeverBackwards == [][SharedConnection => filecap' >= filecap /\ sysconf' >= sysconf]_vars

\* No other load uses l's handle, and so none ends it.
Alone(l) == \A k \in Loads \ {l} : HandleOf(k) # HandleOf(l)

\* A load whose handle nobody else uses comes to an end, with the tables or
\* with an error, whatever other loads do with theirs.
EveryLoadSettles ==
  \A l \in Loads :
    Alone(l) /\ pc[l] \in {"filecap", "sysconf"} ~> pc[l] \in {"done", "failed"}
=============================================================================
