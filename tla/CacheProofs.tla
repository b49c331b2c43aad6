---------------------------- MODULE CacheProofs ----------------------------
(***************************************************************************)
(* Safety of Cache for any number of loads, languages and handles.         *)
(***************************************************************************)
EXTENDS Cache, TLAPS

\* A load's handle is one of the handles.
LEMMA HandleExists ==
  ASSUME TypeOK, NEW l \in Loads
  PROVE  HandleOf(l) \in Handles
  BY CacheAssumption DEF TypeOK, HandleOf, Handles

\* Queues stay queues when they are added to, read or forgotten.
LEMMA QueueTypes ==
  ASSUME TypeOK, NEW k \in Conns
  PROVE  /\ \A l \in Loads : [asked EXCEPT ![k] = Append(@, l)] \in [Conns -> Seq(Loads)]
         /\ \A l \in Loads : [asked EXCEPT ![k] = <<l>>] \in [Conns -> Seq(Loads)]
         /\ asked[k] # <<>> => [asked EXCEPT ![k] = Tail(@)] \in [Conns -> Seq(Loads)]
         /\ \A r \in Row : [answered EXCEPT ![k] = Append(@, r)] \in [Conns -> Seq(Row)]
         /\ answered[k] # <<>> => [answered EXCEPT ![k] = Tail(@)] \in [Conns -> Seq(Row)]
         /\ [asked EXCEPT ![k] = <<>>] \in [Conns -> Seq(Loads)]
         /\ [answered EXCEPT ![k] = <<>>] \in [Conns -> Seq(Row)]
<1>1. asked[k] \in Seq(Loads) /\ answered[k] \in Seq(Row)
  BY DEF TypeOK
<1>2. asked \in [Conns -> Seq(Loads)] /\ answered \in [Conns -> Seq(Row)]
  BY DEF TypeOK
<1>3. ASSUME NEW l \in Loads PROVE Append(asked[k], l) \in Seq(Loads)
  BY <1>1
<1>4. ASSUME NEW r \in Row PROVE Append(answered[k], r) \in Seq(Row)
  BY <1>1
<1>5. asked[k] # <<>> => Tail(asked[k]) \in Seq(Loads)
  BY <1>1
<1>6. answered[k] # <<>> => Tail(answered[k]) \in Seq(Row)
  BY <1>1
<1>7. <<>> \in Seq(Loads) /\ <<>> \in Seq(Row) /\ \A l \in Loads : <<l>> \in Seq(Loads)
  OBVIOUS
<1> QED
  BY <1>2, <1>3, <1>4, <1>5, <1>6, <1>7, Zenon

\* A query is put in one connection's queue, which may have been made for it.
LEMMA AskTypes ==
  ASSUME TypeOK, NEW l \in Loads, NEW q \in {"filecap", "sysconf"}, Ask(l, q)
  PROVE  asked' \in [Conns -> Seq(Loads)] /\ made' \in [Handles -> SUBSET Conns]
<1> DEFINE h == HandleOf(l)
<1>1. h \in Handles /\ made \in [Handles -> SUBSET Conns]
  BY HandleExists DEF TypeOK
<1>2. <<l, q>> \in Conns
  BY DEF Conns
<1>3. CASE connection[h] # None /\ asked' = [asked EXCEPT ![connection[h]] = Append(@, l)]
           /\ UNCHANGED made
  <2>1. connection[h] \in Conns
    BY <1>1, <1>3 DEF TypeOK
  <2> QED
    BY <1>1, <1>3, <2>1, QueueTypes
<1>4. CASE asked' = [asked EXCEPT ![<<l, q>>] = <<l>>]
           /\ made' = [made EXCEPT ![h] = @ \cup {<<l, q>>}]
  <2>1. asked' \in [Conns -> Seq(Loads)]
    BY <1>2, <1>4, QueueTypes
  <2>2. made' \in [Handles -> SUBSET Conns]
    BY <1>1, <1>2, <1>4
  <2> QED
    BY <2>1, <2>2
<1> QED
  BY <1>3, <1>4 DEF Ask

\* Reading an answer, and ending the handle with it, keeps the queues.
LEMMA ReadTypes ==
  ASSUME TypeOK, NEW l \in Loads, NEW k \in Conns, Answer(l, k),
         \/ ReadAndEnd(l, k)
         \/ Read(k) /\ UNCHANGED <<made, connection, up, asked>>
  PROVE  /\ made' \in [Handles -> SUBSET Conns]
         /\ connection' \in [Handles -> Conns \cup {None}]
         /\ up' \subseteq Conns
         /\ asked' \in [Conns -> Seq(Loads)]
         /\ answered' \in [Conns -> Seq(Row)]
<1>1. CASE Read(k) /\ UNCHANGED <<made, connection, up, asked>>
  BY <1>1, QueueTypes DEF Read, Answer, TypeOK
<1>2. CASE ReadAndEnd(l, k)
  <2> DEFINE c == connection[HandleOf(l)]
  <2>1. c \in Conns
    BY <1>2, HandleExists DEF ReadAndEnd, TypeOK
  <2>2. asked' \in [Conns -> Seq(Loads)]
    BY <1>2, <2>1, QueueTypes DEF ReadAndEnd
  <2>3. answered' \in [Conns -> Seq(Row)]
    <3> DEFINE a == [answered EXCEPT ![k] = Tail(@)]
    <3>1. a \in [Conns -> Seq(Row)]
      BY QueueTypes DEF Answer
    <3>2. answered' = [a EXCEPT ![c] = <<>>]
      BY <1>2 DEF ReadAndEnd
    <3>3. <<>> \in Seq(Row)
      OBVIOUS
    <3> HIDE DEF a, c
    <3> QED
      BY <2>1, <3>1, <3>2, <3>3, Zenon
  <2> QED
    BY <1>2, <2>2, <2>3 DEF ReadAndEnd, TypeOK
<1> QED
  BY <1>1, <1>2

\* The answer a load reads is a row of the right type.
LEMMA AnswerType ==
  ASSUME TypeOK, NEW l \in Loads, NEW k \in Conns, Answer(l, k)
  PROVE  Head(answered[k]) \in Row
  BY DEF TypeOK, Answer

\* The tables, queues and loads begin within their types.
LEMMA TypeInit == Init => TypeOK
<1> SUFFICES ASSUME Init PROVE TypeOK
  OBVIOUS
<1>1. asked \in [Conns -> Seq(Loads)] /\ answered \in [Conns -> Seq(Row)]
  <2>1. <<>> \in Seq(Loads) /\ <<>> \in Seq(Row)
    OBVIOUS
  <2> QED
    BY <2>1 DEF Init
<1>2. /\ made \in [Handles -> SUBSET Conns]
      /\ connection \in [Handles -> Conns \cup {None}]
      /\ up \subseteq Conns
  <2>1. PICK connected \in SUBSET (Handles \ Loads) :
          /\ connection = [h \in Handles |-> IF h \in connected THEN <<h, "before">> ELSE None]
          /\ made = [h \in Handles |-> {<<h, "before">>} \cap (connected \X {"before"})]
          /\ up = connected \X {"before"}
    BY DEF Init
  <2>2. \A h \in Handles : <<h, "before">> \in Conns
    BY DEF Conns
  <2>3. connected \X {"before"} \subseteq Conns
    BY DEF Conns
  <2> QED
    BY <2>1, <2>2, <2>3
<1>3. file \in [Languages -> {"none", "good", "malformed"}] /\ arg \in [Loads -> Given \cup {None}]
  BY DEF Init
<1>4. 1 \in 1..MaxVersion /\ 0 \in 0..MaxVersion
  BY CacheAssumption
<1>5. /\ version \in 1..MaxVersion /\ filecap \in 0..MaxVersion /\ sysconf \in 0..MaxVersion
      /\ indexed \in BOOLEAN
  BY <1>4 DEF Init
<1>6. /\ pc \in [Loads -> {"idle", "filecap", "sysconf", "done", "skipped", "failed"}]
      /\ lexicon \in [Languages -> BOOLEAN]
  BY DEF Init
<1> QED
  BY <1>1, <1>2, <1>3, <1>5, <1>6 DEF TypeOK

\* Every step of a load, of the program or of the database keeps the types.
LEMMA TypeStep == TypeOK /\ [Next]_vars => TypeOK'
<1> SUFFICES ASSUME TypeOK, [Next]_vars PROVE TypeOK'
  OBVIOUS
<1>1. CASE UNCHANGED vars
  BY <1>1 DEF vars, TypeOK
<1>2. ASSUME NEW l \in Loads, Skip(l) PROVE TypeOK'
  BY <1>2 DEF Skip, inputs, handleVars, tables, messages, TypeOK
<1>3. ASSUME NEW l \in Loads, Load(l) PROVE TypeOK'
  BY <1>3, AskTypes DEF Load, inputs, tables, messages, TypeOK
<1>4. ASSUME NEW l \in Loads, NEW k \in Conns, FilecapLoaded(l, k) PROVE TypeOK'
  <2>1. answered' \in [Conns -> Seq(Row)]
    BY <1>4, QueueTypes DEF FilecapLoaded, Read, Answer
  <2>2. asked' \in [Conns -> Seq(Loads)] /\ made' \in [Handles -> SUBSET Conns]
    BY <1>4, AskTypes DEF FilecapLoaded
  <2>3. filecap' \in 0..MaxVersion
    BY <1>4, AnswerType DEF FilecapLoaded, Row
  <2> QED
    BY <1>4, <2>1, <2>2, <2>3 DEF FilecapLoaded, inputs, messages, TypeOK
<1>5. ASSUME NEW l \in Loads, NEW k \in Conns, SysconfLoaded(l, k) PROVE TypeOK'
  <2>1. /\ made' \in [Handles -> SUBSET Conns]
        /\ connection' \in [Handles -> Conns \cup {None}]
        /\ up' \subseteq Conns
        /\ asked' \in [Conns -> Seq(Loads)]
        /\ answered' \in [Conns -> Seq(Row)]
    BY <1>5, ReadTypes DEF SysconfLoaded
  <2>2. sysconf' \in 0..MaxVersion
    BY <1>5, AnswerType DEF SysconfLoaded, Row
  <2>3. /\ lexicon' \in [Languages -> BOOLEAN]
        /\ indexed' \in BOOLEAN
    BY <1>5 DEF SysconfLoaded, LexiconLoaded, TypeOK
  <2>4. pc' \in [Loads -> {"idle", "filecap", "sysconf", "done", "skipped", "failed"}]
    BY <1>5 DEF SysconfLoaded, TypeOK
  <2> QED
    BY <1>5, <2>1, <2>2, <2>3, <2>4 DEF SysconfLoaded, inputs, TypeOK
<1>6. ASSUME NEW l \in Loads, NEW k \in Conns, QueryFailed(l, k) PROVE TypeOK'
  BY <1>6, ReadTypes DEF QueryFailed, inputs, tables, messages, TypeOK
<1>7. ASSUME NEW g \in Languages, mergeLex(g) PROVE TypeOK'
  BY <1>7 DEF mergeLex, inputs, handleVars, tables, TypeOK
<1>8. ASSUME NEW k \in Conns, Execute(k) PROVE TypeOK'
  <2>1. PICK rows \in {version} \cup (IF QueriesFail THEN {Failed} ELSE {}) :
          answered' = [answered EXCEPT ![k] = Append(@, [load |-> Head(asked[k]), rows |-> rows])]
    BY <1>8 DEF Execute
  <2>2. [load |-> Head(asked[k]), rows |-> rows] \in Row
    BY <1>8, CacheAssumption DEF Execute, Row, Failed, TypeOK
  <2>3. answered' \in [Conns -> Seq(Row)]
    BY <2>1, <2>2, QueueTypes
  <2>4. asked' \in [Conns -> Seq(Loads)]
    BY <1>8, QueueTypes DEF Execute
  <2> QED
    BY <1>8, <2>3, <2>4 DEF Execute, inputs, tables, messages, TypeOK
<1>9. CASE Change
  BY <1>9, CacheAssumption DEF Change, inputs, handleVars, tables, messages, TypeOK
<1>10. ASSUME NEW h \in Handles, NEW k \in made[h], Connected(h, k) PROVE TypeOK'
  <2>1. k \in Conns
    BY DEF TypeOK
  <2> QED
    BY <1>10, <2>1 DEF Connected, inputs, tables, messages, TypeOK
<1>11. ASSUME NEW k \in Conns, Lost(k) PROVE TypeOK'
  BY <1>11, QueueTypes DEF Lost, inputs, tables, messages, TypeOK
<1> QED
  BY <1>1, <1>2, <1>3, <1>4, <1>5, <1>6, <1>7, <1>8, <1>9, <1>10, <1>11 DEF Next, Answered, Serve

\* However loads, merges and changes of the tables interleave, every variable
\* stays within its type.
THEOREM CacheTypes == Spec => []TypeOK
  BY TypeInit, TypeStep, PTL DEF Spec

-----------------------------------------------------------------------------
(* LoadedIsFilled, for programs that merge nothing before a load is done.   *)

Filled == filecap > 0 /\ sysconf > 0 /\ \A g \in Readable : lexicon[g]

\* The lexicon, on which load() decides, is filled last.
FilledInv ==
  /\ LoadedIsFilled
  /\ LexiconSize => Filled
  /\ \A l \in Loads : pc[l] = "sysconf" => filecap > 0

\* At first nobody has come back from load(), and the lexicon is empty.
LEMMA FilledInit == Init => FilledInv
  BY DEF Init, FilledInv, LoadedIsFilled, LexiconSize

\* Only languages are read.
LEMMA ReadableLanguages == Readable \subseteq Languages
  BY DEF Readable, Languages

\* What can be read depends on the files alone.
LEMMA FilledStays ==
  ASSUME UNCHANGED <<file, filecap, sysconf, lexicon, indexed>>
  PROVE  (Filled' <=> Filled) /\ (LexiconSize' <=> LexiconSize)
  BY DEF Filled, Readable, Malformed, LexiconSize

\* A load fills the lexicon after the tables, up to the first malformed file, so
\* that a load that skips because of the lexicon leaves filled tables behind it.
LEMMA FilledStep ==
  ASSUME ~MergeEarly
  PROVE  TypeOK /\ FilledInv /\ [Next]_vars => FilledInv'
<1> SUFFICES ASSUME TypeOK, FilledInv, [Next]_vars PROVE FilledInv'
  OBVIOUS
<1>0. LoadedIsFilled <=> \A l \in Loads : pc[l] \in {"done", "skipped"} => Filled
  BY DEF LoadedIsFilled, Filled
<1>a. LoadedIsFilled' <=> \A l \in Loads : pc'[l] \in {"done", "skipped"} => Filled'
  BY DEF LoadedIsFilled, Filled
<1>b. ASSUME UNCHANGED <<file, filecap, sysconf, lexicon, indexed>>,
             \A l \in Loads : /\ pc'[l] \in {"done", "skipped"} =>
                                   pc[l] \in {"done", "skipped"} \/ LexiconSize
                              /\ pc'[l] = "sysconf" => pc[l] = "sysconf"
      PROVE  FilledInv'
  BY <1>0, <1>a, <1>b, FilledStays DEF FilledInv
<1>1. CASE UNCHANGED vars
  BY <1>1, <1>b DEF vars
<1>2. ASSUME NEW l \in Loads, Skip(l) PROVE FilledInv'
  BY <1>2, <1>b DEF Skip, inputs, tables, messages, TypeOK
<1>3. ASSUME NEW l \in Loads, Load(l) PROVE FilledInv'
  BY <1>3, <1>b DEF Load, inputs, tables, messages, TypeOK
<1>4. ASSUME NEW l \in Loads, NEW k \in Conns, FilecapLoaded(l, k) PROVE FilledInv'
  <2>1. filecap' > 0
    BY <1>4, AnswerType DEF FilecapLoaded, Row, Failed
  <2>2. UNCHANGED <<file, sysconf, lexicon, indexed>>
    BY <1>4 DEF FilecapLoaded, inputs, messages
  <2>3. Filled => Filled'
    BY <2>1, <2>2 DEF Filled, Readable, Malformed
  <2>4. LexiconSize' <=> LexiconSize
    BY <2>2 DEF LexiconSize
  <2>5. \A m \in Loads : pc'[m] \in {"done", "skipped"} => pc[m] \in {"done", "skipped"}
    BY <1>4 DEF FilecapLoaded, TypeOK
  <2> QED
    BY <1>0, <1>a, <2>1, <2>3, <2>4, <2>5 DEF FilledInv
<1>5. ASSUME NEW l \in Loads, NEW k \in Conns, SysconfLoaded(l, k) PROVE FilledInv'
  <2>1. sysconf' > 0
    BY <1>5, AnswerType DEF SysconfLoaded, Row, Failed
  <2>2. filecap' = filecap /\ filecap > 0
    BY <1>5 DEF SysconfLoaded, FilledInv
  <2>3. Readable' = Readable
    BY <1>5 DEF SysconfLoaded, inputs, Readable, Malformed
  <2>4. \A g \in Readable : lexicon'[g]
    BY <1>5, ReadableLanguages DEF SysconfLoaded, LexiconLoaded
  <2>5. Filled'
    BY <2>1, <2>2, <2>3, <2>4 DEF Filled
  <2> QED
    BY <1>a, <2>2, <2>5 DEF FilledInv
<1>6. ASSUME NEW l \in Loads, NEW k \in Conns, QueryFailed(l, k) PROVE FilledInv'
  BY <1>6, <1>b DEF QueryFailed, inputs, tables, messages, TypeOK
<1>7. ASSUME NEW g \in Languages, mergeLex(g) PROVE FilledInv'
  <2>1. Filled
    BY <1>0, <1>7 DEF mergeLex, FilledInv
  <2>2. UNCHANGED <<file, filecap, sysconf, pc>>
    BY <1>7 DEF mergeLex, inputs, tables
  <2>3. Readable' = Readable
    BY <2>2 DEF Readable, Malformed
  <2>4. \A f \in Readable : lexicon'[f]
    BY <1>7, <2>1, ReadableLanguages DEF mergeLex, TypeOK, Filled
  <2>5. Filled'
    BY <2>1, <2>2, <2>3, <2>4 DEF Filled
  <2> QED
    BY <1>a, <2>2, <2>5 DEF FilledInv
<1>8. ASSUME NEW k \in Conns, Execute(k) PROVE FilledInv'
  BY <1>8, <1>b DEF Execute, inputs, tables, messages
<1>9. CASE Change
  BY <1>9, <1>b DEF Change, inputs, tables, messages
<1>10. ASSUME NEW h \in Handles, NEW k \in made[h], Connected(h, k) PROVE FilledInv'
  BY <1>10, <1>b DEF Connected, inputs, tables, messages
<1>11. ASSUME NEW k \in Conns, Lost(k) PROVE FilledInv'
  BY <1>11, <1>b DEF Lost, inputs, tables, messages
<1> QED
  BY <1>1, <1>2, <1>3, <1>4, <1>5, <1>6, <1>7, <1>8, <1>9, <1>10, <1>11 DEF Next, Answered, Serve

\* Unless the program merges texts first, whoever returns from load() finds
\* the tables filled, and every language entered that could be read.
THEOREM LoadersFindTheTables ==
  ASSUME ~MergeEarly
  PROVE  Spec => []LoadedIsFilled
<1>1. FilledInv => LoadedIsFilled
  BY DEF FilledInv
<1>2. TypeOK /\ FilledInv /\ [Next]_vars => FilledInv'
  BY FilledStep
<1> QED
  BY <1>1, <1>2, FilledInit, CacheTypes, PTL DEF Spec

-----------------------------------------------------------------------------
(* NeverBackwards, for loads that share one connection.                     *)

\* The versions in the answers of a connection never fall, and begin at the
\* versions the cache holds.
Rising(s) ==
  /\ \A i \in DOMAIN s : s[i].rows # Failed =>
       filecap <= s[i].rows /\ sysconf <= s[i].rows /\ s[i].rows <= version
  /\ \A i, j \in DOMAIN s : i < j /\ s[i].rows # Failed /\ s[j].rows # Failed =>
       s[i].rows <= s[j].rows

\* Every query and answer goes over a connection of the handle under 'yp'.
Ordered ==
  /\ filecap <= version /\ sysconf <= version
  /\ \A k \in Conns : Rising(answered[k])
  /\ \A k \in Conns \ made[Yp] : asked[k] = <<>> /\ answered[k] = <<>>
  /\ connection[Yp] \in made[Yp] \cup {None}

OrderInv == SharedConnection => Ordered

\* At first the cache holds nothing and no answer is on its way.
LEMMA OrderInit == Init => OrderInv
<1> SUFFICES ASSUME Init, SharedConnection PROVE Ordered
  BY DEF OrderInv
<1>1. Yp \in Handles
  BY DEF SharedConnection, Handles
<1>2. connection[Yp] \in made[Yp] \cup {None}
  <2>1. PICK connected \in SUBSET (Handles \ Loads) :
          /\ connection = [h \in Handles |-> IF h \in connected THEN <<h, "before">> ELSE None]
          /\ made = [h \in Handles |-> {<<h, "before">>} \cap (connected \X {"before"})]
    BY DEF Init
  <2>2. Yp \in connected => <<Yp, "before">> \in connected \X {"before"}
    OBVIOUS
  <2> QED
    BY <1>1, <2>1, <2>2
<1>3. \A k \in Conns : asked[k] = <<>> /\ answered[k] = <<>>
  BY DEF Init
<1>4. DOMAIN <<>> = {}
  OBVIOUS
<1>5. \A k \in Conns : Rising(answered[k])
  BY <1>3, <1>4 DEF Rising
<1> QED
  BY <1>2, <1>3, <1>5 DEF Init, Ordered

\* All loads put their queries to the handle under 'yp'.
LEMMA OnlyYp ==
  ASSUME SharedConnection, NEW l \in Loads
  PROVE  HandleOf(l) = Yp /\ arg[l] = None
  BY DEF SharedConnection, HandleOf

\* What is read is as new as what the cache holds, and no newer than the rest.
LEMMA ReadRises ==
  ASSUME NEW s \in Seq(Row), s # <<>>, Rising(s), TypeOK, Head(s).rows # Failed
  PROVE  /\ filecap <= Head(s).rows /\ sysconf <= Head(s).rows /\ Head(s).rows <= version
         /\ Head(s).rows \in Nat
         /\ \A i \in DOMAIN Tail(s) : Tail(s)[i].rows # Failed =>
              Head(s).rows <= Tail(s)[i].rows
         /\ Rising(Tail(s))
<1>1. Len(s) \in Nat /\ 1 \in DOMAIN s /\ Head(s) = s[1] /\ s[1] \in Row
  OBVIOUS
<1>2. \A i \in DOMAIN Tail(s) : i + 1 \in DOMAIN s /\ Tail(s)[i] = s[i + 1] /\ 1 < i + 1
  OBVIOUS
<1>3. filecap <= Head(s).rows /\ sysconf <= Head(s).rows /\ Head(s).rows <= version
  BY <1>1 DEF Rising
<1>4. Head(s).rows \in Nat
  BY <1>1, CacheAssumption DEF Row
<1>5. \A i \in DOMAIN Tail(s) : Tail(s)[i].rows # Failed => Head(s).rows <= Tail(s)[i].rows
  BY <1>1, <1>2 DEF Rising
<1>6. Rising(Tail(s))
  <2>1. \A i, j \in DOMAIN Tail(s) : i < j => i + 1 < j + 1
    OBVIOUS
  <2> QED
    BY <1>2, <2>1 DEF Rising
<1> QED
  BY <1>3, <1>4, <1>5, <1>6

\* A query is put over a connection of the shared handle, which keeps its own.
LEMMA AskOrdered ==
  ASSUME TypeOK, SharedConnection, Ordered, NEW l \in Loads,
         NEW q \in {"filecap", "sysconf"}, Ask(l, q)
  PROVE  /\ made[Yp] \subseteq made'[Yp]
         /\ \A k \in Conns \ made'[Yp] : asked'[k] = <<>>
<1>1. HandleOf(l) = Yp /\ Yp \in Handles
  BY OnlyYp DEF SharedConnection, Handles
<1>2. /\ made \in [Handles -> SUBSET Conns] /\ asked \in [Conns -> Seq(Loads)]
      /\ \A k \in Conns \ made[Yp] : asked[k] = <<>>
      /\ connection[Yp] # None => connection[Yp] \in made[Yp]
  BY DEF TypeOK, Ordered
<1>3. CASE connection[Yp] # None /\ asked' = [asked EXCEPT ![connection[Yp]] = Append(@, l)]
           /\ UNCHANGED made
  BY <1>2, <1>3
<1>4. CASE asked' = [asked EXCEPT ![<<l, q>>] = <<l>>]
           /\ made' = [made EXCEPT ![Yp] = @ \cup {<<l, q>>}]
  BY <1>1, <1>2, <1>4
<1> QED
  BY <1>1, <1>3, <1>4 DEF Ask

\* One connection answers in order: an answer read is at least as new as what it
\* replaces and no newer than those behind it.
LEMMA OrderStep ==
  ASSUME SharedConnection, TypeOK, OrderInv, [Next]_vars
  PROVE  Ordered' /\ [filecap' >= filecap /\ sysconf' >= sysconf]_vars
<1> DEFINE Newer == filecap' >= filecap /\ sysconf' >= sysconf
<1>0. /\ Yp \in Handles
      /\ \A k \in Conns : answered[k] \in Seq(Row)
      /\ version \in Nat /\ filecap \in Nat /\ sysconf \in Nat
      /\ Ordered
  BY CacheAssumption DEF SharedConnection, Handles, TypeOK, OrderInv
<1>e. DOMAIN <<>> = {}
  OBVIOUS
<1>2. ASSUME UNCHANGED <<version, filecap, sysconf>>,
             made[Yp] \subseteq made'[Yp],
             connection'[Yp] \in made'[Yp] \cup {None},
             \A k \in Conns : answered'[k] = answered[k] \/ answered'[k] = <<>>,
             \A k \in Conns \ made'[Yp] : asked'[k] = <<>>
      PROVE  Ordered' /\ Newer
  <2>1. Newer
    BY <1>0, <1>2
  <2>2. ASSUME NEW k \in Conns PROVE Rising(answered[k])'
    <3>1. CASE answered'[k] = answered[k]
      BY <1>0, <1>2, <3>1 DEF Ordered, Rising
    <3>2. CASE answered'[k] = <<>>
      BY <1>e, <3>2 DEF Rising
    <3> QED
      BY <1>2, <3>1, <3>2
  <2> QED
    BY <1>0, <1>2, <2>1, <2>2 DEF Ordered
<1>1. CASE UNCHANGED vars
  BY <1>0, <1>1, <1>2 DEF vars, Ordered
<1>3. ASSUME NEW l \in Loads, Skip(l) PROVE Ordered' /\ Newer
  BY <1>0, <1>2, <1>3 DEF Skip, handleVars, tables, Ordered
<1>4. ASSUME NEW l \in Loads, Load(l) PROVE Ordered' /\ Newer
  <2>1. /\ made[Yp] \subseteq made'[Yp]
        /\ \A k \in Conns \ made'[Yp] : asked'[k] = <<>>
    BY <1>0, <1>4, AskOrdered DEF Load
  <2>2. UNCHANGED <<version, filecap, sysconf, connection, answered>>
    BY <1>4 DEF Load, tables
  <2> QED
    BY <1>0, <1>2, <2>1, <2>2 DEF Ordered
<1>5. ASSUME NEW l \in Loads, NEW k \in Conns,
             Answer(l, k), Head(answered[k]).rows # Failed,
             UNCHANGED <<version, connection>>, Read(k),
             made[Yp] \subseteq made'[Yp],
             \A j \in Conns \ made'[Yp] : asked'[j] = <<>>,
             \/ filecap' = Head(answered[k]).rows /\ sysconf' = sysconf
             \/ sysconf' = Head(answered[k]).rows /\ filecap' = filecap
      PROVE  Ordered' /\ Newer
  <2> DEFINE s == answered[k]
  <2>1. s # <<>> /\ Head(s).rows # Failed
    BY <1>5 DEF Answer
  <2>2. answered'[k] = Tail(s) /\ \A j \in Conns : j # k => answered'[j] = answered[j]
    BY <1>5 DEF Read, TypeOK
  <2>3. /\ filecap <= Head(s).rows /\ sysconf <= Head(s).rows /\ Head(s).rows <= version
        /\ Head(s).rows \in Nat
        /\ \A i \in DOMAIN Tail(s) : Tail(s)[i].rows # Failed =>
             Head(s).rows <= Tail(s)[i].rows
        /\ Rising(Tail(s))
    BY <1>0, <2>1, ReadRises DEF Ordered
  <2>4. Newer
    BY <1>0, <1>5, <2>1, <2>3
  <2>5. Rising(answered[k])'
    <3> DEFINE t == Tail(s)
    <3>1. /\ \A i \in DOMAIN t : t[i].rows # Failed =>
               filecap <= t[i].rows /\ sysconf <= t[i].rows /\ t[i].rows <= version
          /\ \A i, j \in DOMAIN t : i < j /\ t[i].rows # Failed /\ t[j].rows # Failed =>
               t[i].rows <= t[j].rows
          /\ \A i \in DOMAIN t : t[i].rows # Failed => Head(s).rows <= t[i].rows
      BY <2>3 DEF Rising
    <3>2. /\ filecap' = filecap \/ filecap' = Head(s).rows
          /\ sysconf' = sysconf \/ sysconf' = Head(s).rows
          /\ version' = version /\ answered'[k] = t
      BY <1>5, <2>2
    <3> HIDE DEF s, t
    <3> QED
      BY <3>1, <3>2 DEF Rising, Failed
  <2>6. k \in made[Yp]
    BY <1>0, <2>1 DEF Ordered
  <2>7. \A j \in Conns : j # k => answered[j] = <<>> /\ answered'[j] = <<>>
    BY <1>0, <2>2, <2>6 DEF SharedConnection, Ordered
  <2>8. \A j \in Conns : Rising(answered[j])'
    BY <1>e, <2>5, <2>7 DEF Rising
  <2>9. \A j \in Conns \ made'[Yp] : answered'[j] = <<>>
    BY <1>5, <2>6, <2>7
  <2>10. filecap' <= version' /\ sysconf' <= version'
    BY <1>0, <1>5, <2>3 DEF Ordered
  <2>11. connection'[Yp] \in made'[Yp] \cup {None}
    BY <1>0, <1>5 DEF Ordered
  <2> QED
    BY <1>5, <2>4, <2>8, <2>9, <2>10, <2>11 DEF Ordered
<1>6. ASSUME NEW l \in Loads, NEW k \in Conns, FilecapLoaded(l, k) PROVE Ordered' /\ Newer
  <2>1. /\ made[Yp] \subseteq made'[Yp]
        /\ \A j \in Conns \ made'[Yp] : asked'[j] = <<>>
    BY <1>0, <1>6, AskOrdered DEF FilecapLoaded
  <2> QED
    BY <1>5, <1>6, <2>1 DEF FilecapLoaded
<1>7. ASSUME NEW l \in Loads, NEW k \in Conns, SysconfLoaded(l, k) PROVE Ordered' /\ Newer
  <2>1. Read(k) /\ UNCHANGED <<made, connection, up, asked>>
    BY <1>7, OnlyYp DEF SysconfLoaded
  <2>2. \A j \in Conns \ made'[Yp] : asked'[j] = <<>>
    BY <1>0, <2>1 DEF Ordered
  <2> QED
    BY <1>5, <1>7, <2>1, <2>2 DEF SysconfLoaded
<1>8. ASSUME NEW l \in Loads, NEW k \in Conns, QueryFailed(l, k) PROVE Ordered' /\ Newer
  <2>0. UNCHANGED <<version, filecap, sysconf, made>> /\ Answer(l, k)
    BY <1>8 DEF QueryFailed, tables, ReadAndEnd
  <2>s. Head(answered[k]).rows = Failed /\ answered[k] \in Seq(Row) /\ answered[k] # <<>>
    BY <1>0, <1>8 DEF QueryFailed, Answer
  <2>t. Rising(Tail(answered[k]))
    <3> DEFINE s == answered[k]
    <3>1. \A i \in DOMAIN Tail(s) : i + 1 \in DOMAIN s /\ Tail(s)[i] = s[i + 1]
      BY <2>s
    <3>2. \A i, j \in DOMAIN Tail(s) : i < j => i + 1 < j + 1
      BY <2>s
    <3>3. Rising(s)
      BY <1>0 DEF Ordered
    <3> QED
      BY <3>1, <3>2, <3>3 DEF Rising
  <2>k. k \in made[Yp]
    BY <1>0, <2>s DEF Ordered
  <2>1. ASSUME NEW j \in Conns
        PROVE  answered'[j] \in {answered[j], Tail(answered[k]), <<>>} /\ (j \notin made[Yp] => answered'[j] = <<>>)
    <3>1. CASE Read(k)
      BY <1>0, <2>k, <3>1 DEF Read, TypeOK, Ordered
    <3>2. CASE ReadAndEnd(l, k)
      BY <1>0, <2>k, <3>2 DEF ReadAndEnd, TypeOK, Ordered
    <3> QED
      BY <1>8, <3>1, <3>2 DEF QueryFailed
  <2>2. ASSUME NEW j \in Conns PROVE Rising(answered[j])'
    <3>1. CASE answered'[j] = answered[j]
      BY <1>0, <2>0, <3>1 DEF Ordered, Rising
    <3>2. CASE answered'[j] = Tail(answered[k])
      BY <2>0, <2>t, <3>2 DEF Rising
    <3>3. CASE answered'[j] = <<>>
      BY <1>e, <3>3 DEF Rising
    <3> QED
      BY <2>1, <3>1, <3>2, <3>3
  <2>3. /\ \A j \in Conns \ made[Yp] : asked'[j] = <<>>
        /\ connection'[Yp] \in made[Yp] \cup {None}
    <3>1. CASE Read(k) /\ UNCHANGED <<made, connection, up, asked>>
      BY <1>0, <3>1 DEF Ordered
    <3>2. CASE ReadAndEnd(l, k)
      BY <1>0, <3>2, OnlyYp DEF ReadAndEnd, TypeOK, Ordered
    <3> QED
      BY <1>8, <3>1, <3>2 DEF QueryFailed
  <2> QED
    BY <1>0, <2>0, <2>1, <2>2, <2>3 DEF Ordered
<1>9. ASSUME NEW g \in Languages, mergeLex(g) PROVE Ordered' /\ Newer
  BY <1>0, <1>2, <1>9 DEF mergeLex, handleVars, tables, Ordered
<1>10. ASSUME NEW k \in Conns, Execute(k) PROVE Ordered' /\ Newer
  <2>0. UNCHANGED <<version, filecap, sysconf, made, connection>> /\ asked[k] # <<>>
    BY <1>10 DEF Execute, tables
  <2>k. k \in made[Yp]
    BY <1>0, <2>0 DEF Ordered
  <2>a. /\ \A j \in Conns : j # k => answered'[j] = answered[j]
        /\ \A j \in Conns : j # k => asked'[j] = asked[j]
    BY <1>10 DEF Execute, TypeOK
  <2> DEFINE s == answered[k]
  <2>1. PICK r : answered'[k] = Append(s, r) /\ r.rows \in {version, Failed}
    <3>1. PICK rows \in {version} \cup (IF QueriesFail THEN {Failed} ELSE {}) :
            answered' = [answered EXCEPT ![k] = Append(@, [load |-> Head(asked[k]), rows |-> rows])]
      BY <1>10 DEF Execute
    <3>2. answered'[k] = Append(s, [load |-> Head(asked[k]), rows |-> rows])
      BY <3>1 DEF TypeOK
    <3>3. rows \in {version, Failed}
      BY <3>1
    <3>4. [load |-> Head(asked[k]), rows |-> rows].rows = rows
      OBVIOUS
    <3> QED
      BY <3>2, <3>3, <3>4
  <2>2. /\ Len(s) \in Nat /\ DOMAIN s = 1..Len(s)
        /\ DOMAIN Append(s, r) = 1..(Len(s) + 1)
        /\ Append(s, r)[Len(s) + 1] = r
        /\ \A i \in 1..Len(s) : Append(s, r)[i] = s[i]
    BY <1>0
  <2>3. Rising(s) /\ filecap <= version /\ sysconf <= version
    BY <1>0 DEF Ordered
  <2>4. \A i \in 1..(Len(s) + 1) : i \in 1..Len(s) \/ i = Len(s) + 1
    BY <2>2
  <2>5. Rising(Append(s, r))
    <3> HIDE DEF s
    <3>1. ASSUME NEW i \in 1..(Len(s) + 1), Append(s, r)[i].rows # Failed
          PROVE  /\ filecap <= Append(s, r)[i].rows /\ sysconf <= Append(s, r)[i].rows
                 /\ Append(s, r)[i].rows <= version
      BY <1>0, <2>1, <2>2, <2>3, <2>4, <3>1 DEF Rising
    <3>2. ASSUME NEW i \in 1..(Len(s) + 1), NEW j \in 1..(Len(s) + 1), i < j,
                 Append(s, r)[i].rows # Failed, Append(s, r)[j].rows # Failed
          PROVE  Append(s, r)[i].rows <= Append(s, r)[j].rows
      <4>1. i \in 1..Len(s)
        BY <2>2, <3>2
      <4>2. CASE j \in 1..Len(s)
        BY <2>2, <2>3, <3>2, <4>1, <4>2 DEF Rising
      <4>3. CASE j = Len(s) + 1
        BY <2>1, <2>2, <2>3, <3>2, <4>1, <4>3 DEF Rising
      <4> QED
        BY <2>4, <4>2, <4>3
    <3> QED
      BY <2>2, <3>1, <3>2 DEF Rising
  <2>6. ASSUME NEW j \in Conns PROVE Rising(answered[j])'
    <3>1. CASE j = k
      BY <2>0, <2>1, <2>5, <3>1 DEF Rising
    <3>2. CASE j # k
      BY <1>0, <2>0, <2>a, <3>2 DEF Ordered, Rising
    <3> QED
      BY <3>1, <3>2
  <2>7. \A j \in Conns \ made'[Yp] : asked'[j] = <<>> /\ answered'[j] = <<>>
    BY <1>0, <2>0, <2>k, <2>a DEF Ordered
  <2> QED
    BY <1>0, <2>0, <2>6, <2>7 DEF Ordered
<1>11. CASE Change
  <2>1. UNCHANGED <<made, connection, asked, answered, filecap, sysconf>> /\ version' = version + 1
    BY <1>11 DEF Change, handleVars, tables
  <2>2. ASSUME NEW k \in Conns PROVE Rising(answered[k])'
    <3>1. \A i \in DOMAIN answered[k] : answered[k][i].rows \in Nat
      <4>1. \A i \in DOMAIN answered[k] : answered[k][i] \in Row
        BY <1>0
      <4>2. \A r \in Row : r.rows \in Nat
        BY CacheAssumption DEF Row
      <4> QED
        BY <4>1, <4>2
    <3>2. Rising(answered[k])
      BY <1>0 DEF Ordered
    <3> QED
      BY <1>0, <2>1, <3>1, <3>2 DEF Rising
  <2> QED
    BY <1>0, <2>1, <2>2 DEF Ordered
<1>12. ASSUME NEW h \in Handles, NEW k \in made[h], Connected(h, k) PROVE Ordered' /\ Newer
  <2>1. UNCHANGED <<version, filecap, sysconf, made, asked, answered>>
    BY <1>12 DEF Connected, tables
  <2>2. k \in made[Yp]
    BY <1>0, <1>12 DEF Connected, TypeOK, Ordered
  <2>3. connection'[Yp] \in made[Yp] \cup {None}
    BY <1>0, <1>12, <2>2 DEF Connected, TypeOK, Ordered
  <2> QED
    BY <1>0, <1>2, <2>1, <2>3 DEF Ordered
<1>13. ASSUME NEW k \in Conns, Lost(k) PROVE Ordered' /\ Newer
  <2>1. UNCHANGED <<version, filecap, sysconf, made>>
    BY <1>13 DEF Lost, tables
  <2>2. connection'[Yp] \in made[Yp] \cup {None}
    BY <1>0, <1>13 DEF Lost, Ordered
  <2>3. \A j \in Conns : /\ answered'[j] = answered[j] \/ answered'[j] = <<>>
                         /\ asked'[j] = asked[j] \/ asked'[j] = <<>>
    BY <1>13 DEF Lost, TypeOK
  <2> QED
    BY <1>0, <1>2, <2>1, <2>2, <2>3 DEF Ordered
<1> QED
  BY <1>1, <1>3, <1>4, <1>6, <1>7, <1>9, <1>8, <1>10, <1>11, <1>12, <1>13
  DEF Next, Answered, Serve, vars

\* Which handle a load was given is settled when it is called, and what a handle
\* has begun stays begun: a handle never has one connection again.
LEMMA ConnectionsStay ==
  TypeOK /\ [Next]_vars => (SharedConnection' => SharedConnection)
<1> SUFFICES ASSUME TypeOK, [Next]_vars, SharedConnection' PROVE SharedConnection
  OBVIOUS
<1>1. arg' = arg /\ Yp \in Handles
  BY DEF Next, vars, inputs, SharedConnection, Handles, Skip, Load, Answered, FilecapLoaded,
         SysconfLoaded, QueryFailed, mergeLex, Serve, Connected, Execute, Lost, Change
<1>2. ASSUME NEW l \in Loads, NEW q \in {"filecap", "sysconf"}, Ask(l, q)
      PROVE  made[Yp] \subseteq made'[Yp]
  <2>1. made \in [Handles -> SUBSET Conns] /\ HandleOf(l) \in Handles
    BY HandleExists DEF TypeOK
  <2>2. UNCHANGED made \/ made' = [made EXCEPT ![HandleOf(l)] = @ \cup {<<l, q>>}]
    BY <1>2 DEF Ask
  <2> QED
    BY <1>1, <2>1, <2>2
<1>3. made[Yp] \subseteq made'[Yp]
  <2>1. ASSUME NEW l \in Loads, Load(l) \/ \E k \in Conns : FilecapLoaded(l, k)
        PROVE  made[Yp] \subseteq made'[Yp]
    BY <1>2, <2>1 DEF Load, FilecapLoaded
  <2> QED
    BY <2>1 DEF Next, vars, handleVars, Skip, Answered, SysconfLoaded, QueryFailed, ReadAndEnd,
                mergeLex, Serve, Connected, Execute, Lost, Change
<1> QED
  BY <1>1, <1>3 DEF SharedConnection

\* Loads that share the handle under 'yp' never replace newer rows of filecap or
\* sys_conf by older ones, however many of them overlap, while the handle's
\* first connection is its only one.
THEOREM SharedLoadsGoForward == Spec => NeverBackwards
<1>1. TypeOK /\ OrderInv /\ [Next]_vars =>
        /\ OrderInv'
        /\ [SharedConnection => filecap' >= filecap /\ sysconf' >= sysconf]_vars
  <2> SUFFICES ASSUME TypeOK, OrderInv, [Next]_vars
               PROVE  /\ OrderInv'
                      /\ [SharedConnection => filecap' >= filecap /\ sysconf' >= sysconf]_vars
    OBVIOUS
  <2>1. CASE SharedConnection
    BY <2>1, OrderStep DEF OrderInv
  <2>2. CASE ~SharedConnection
    BY <2>2, ConnectionsStay DEF OrderInv
  <2> QED
    BY <2>1, <2>2
<1> QED
  BY <1>1, OrderInit, CacheTypes, PTL DEF Spec, NeverBackwards
=============================================================================
