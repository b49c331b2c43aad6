------------------------- MODULE ProcessStateProofs -------------------------
(***************************************************************************)
(* Proofs about what a process keeps: its settings (SysEnv), its texts     *)
(* (Texts), its Redis clients (RedisStore), its file records (FileInfo)    *)
(* and the options of its models (Payload).  Each part is proved by        *)
(* itself, for any files, languages, calls, rows and clients, and then     *)
(* with the others (ProcessStores).                                        *)
(***************************************************************************)
EXTENDS ProcessStores, TLAPS

-----------------------------------------------------------------------------
(* The settings.                                                            *)

\* What ties the settings to the files: a drumee.json that somebody uses is the
\* one require() keeps, a copy of the last load is what is in use, and the
\* constant is the only value that was given.
SettingsInv ==
  /\ SysEnvTypeOK
  /\ ReturnedIsComplete /\ CopiesAgree
  /\ \A m \in Importers :
       /\ copies[m].load <= loads
       /\ copies[m].load = loads => copies[m].of = configs
       /\ copies[m].of.drumee # "absent" =>
            required[copies[m].of.root] = copies[m].of.drumee
  /\ configs.drumee # "absent" => required[configs.root] = configs.drumee
  /\ consts.given \subseteq {consts.value}
  /\ consts.value \in {"undefined", "null"} => consts.given = {}

\* A machine without settings.
LEMMA InitSettingsInv == SysEnvInit => SettingsInv
<1> SUFFICES ASSUME SysEnvInit PROVE SettingsInv
  OBVIOUS
<1>1. NoFile \in Settings
  BY SysEnvAssumption DEF NoFile, Settings, Read
<1>2. SysEnvTypeOK
  BY <1>1, SysEnvAssumption DEF SysEnvInit, SysEnvTypeOK, Held, Read
<1> QED
  <2>1. ReturnedIsComplete /\ CopiesAgree
    BY DEF SysEnvInit, ReturnedIsComplete, CopiesAgree, NoFile
  <2>2. /\ configs.drumee = "absent" /\ loads = 1
        /\ \A m \in Importers : copies[m].load = 0 /\ copies[m].of.drumee = "absent"
    BY DEF SysEnvInit, NoFile
  <2>3. consts.given = {}
    BY DEF SysEnvInit
  <2> QED
    BY <1>2, <2>1, <2>2, <2>3 DEF SettingsInv

\* What require() answers is in its cache afterwards, and it never forgets.
LEMMA RequireKeeps ==
  ASSUME SysEnvTypeOK, NEW r \in Roots
  PROVE  LET read == Required(r)
             kept == Cached(required[r], read) IN
         /\ read \in Held /\ kept \in Read
         /\ required[r] # "absent" => kept = required[r]
         /\ read \notin {"absent", "broken"} => kept = read
  BY SysEnvAssumption DEF SysEnvTypeOK, Required, Cached, Held, Read, File

\* A load, of any root and with any outcome.
LEMMA LoadSettingsInv ==
  ASSUME SettingsInv, NEW r \in Roots, NEW index, LoadFrom(r, index, configs)
  PROVE  SettingsInv'
<1> DEFINE new == Paths(r)
           kept == Cached(required[r], new.drumee)
<1>1. SysEnvTypeOK
  BY DEF SettingsInv
<1>2. /\ new.drumee \in Held /\ kept \in Read
      /\ required[r] # "absent" => kept = required[r]
      /\ new.drumee \notin {"absent", "broken"} => kept = new.drumee
  BY <1>1, RequireKeeps DEF Paths
<1>3. /\ new = [root |-> r, drumee |-> new.drumee, exchange |-> new.exchange]
      /\ new.root = r /\ new.exchange \in Held
  BY <1>1 DEF Paths, SysEnvTypeOK, File
<1>4. /\ envRoot' = r /\ required' = [required EXCEPT ![r] = kept]
      /\ UNCHANGED <<disk, copies, dbConf, consts, edits>>
      /\ loads < MaxLoads
  BY DEF LoadFrom
<1>5. /\ required'[r] = kept
      /\ \A q \in Roots : required[q] # "absent" => required'[q] = required[q]
      /\ required' \in [Roots -> Read]
  BY <1>1, <1>2, <1>4 DEF SysEnvTypeOK
<1>6. CASE "broken" \in {new.drumee, new.exchange}
  <2>1. configs' = configs /\ returned' = FALSE /\ uiInfo' = uiInfo /\ loads' = loads
    BY <1>6 DEF LoadFrom
  <2>2. SysEnvTypeOK'
    BY <1>1, <1>4, <1>5, <2>1 DEF SysEnvTypeOK
  <2>3. \A m \in Importers : copies[m].of.root \in Roots /\ copies[m].of.drumee \in Read
    BY <1>1 DEF SysEnvTypeOK, Settings
  <2>4. configs.root \in Roots
    BY <1>1 DEF SysEnvTypeOK, Settings
  <2> QED
    BY <1>4, <1>5, <2>1, <2>2, <2>3, <2>4 DEF SettingsInv, ReturnedIsComplete, CopiesAgree
<1>7. CASE "broken" \notin {new.drumee, new.exchange}
  <2>1. /\ configs' = new /\ loads' = loads + 1
        /\ returned' = Returns(index)
        /\ uiInfo' = IF index = "broken" THEN uiInfo ELSE new
    BY <1>7 DEF LoadFrom
  <2>2. new \in Settings
    BY <1>2, <1>3, <1>7 DEF Settings, Held, Read
  <2>3. SysEnvTypeOK'
    <3>1. returned' \in BOOLEAN /\ uiInfo' \in Settings /\ configs' \in Settings
      BY <1>1, <2>1, <2>2 DEF SysEnvTypeOK, Returns
    <3>2. loads' \in 1..MaxLoads
      BY <1>1, <1>4, <2>1, SysEnvAssumption DEF SysEnvTypeOK
    <3>3. copies' \in [Importers -> [load : 0..MaxLoads, of : Settings]]
      BY <1>1, <1>4 DEF SysEnvTypeOK
    <3> QED
      BY <1>1, <1>4, <1>5, <3>1, <3>2, <3>3 DEF SysEnvTypeOK
  <2>4. \A m \in Importers : copies[m].load <= loads /\ copies[m].load \in Nat /\ loads \in Nat
    BY <1>1 DEF SettingsInv, SysEnvTypeOK
  <2>5. \A m \in Importers : copies[m].load < loads + 1
    BY <2>4
  <2>6. \A m \in Importers : copies[m].of.root \in Roots /\ copies[m].of.drumee \in Read
    BY <1>1 DEF SysEnvTypeOK, Settings
  <2>7. ReturnedIsComplete'
    BY <1>3, <1>4, <2>1 DEF ReturnedIsComplete, Returns
  <2>8. CopiesAgree'
    BY <1>4 DEF SettingsInv, CopiesAgree
  <2>9. \A m \in Importers :
          copies[m].of.drumee # "absent" => required'[copies[m].of.root] = copies[m].of.drumee
    BY <1>5, <2>6 DEF SettingsInv
  <2>10. new.drumee # "absent" => required'[new.root] = new.drumee
    BY <1>2, <1>3, <1>5, <1>7
  <2>11. \A m \in Importers : copies[m].load <= loads + 1 /\ copies[m].load # loads + 1
    BY <2>4, <2>5
  <2> HIDE DEF new
  <2> QED
    BY <1>4, <2>1, <2>3, <2>7, <2>8, <2>9, <2>10, <2>11 DEF SettingsInv
<1> QED
  BY <1>6, <1>7

\* Imports, constants and edits.
LEMMA OtherSettingsInv ==
  ASSUME SettingsInv,
         \/ \E m \in Importers : Import(m)
         \/ \E instance, shared \in {"absent", "empty", "full"} : ImportDbConf(instance, shared)
         \/ \E v \in {"null", "a", "b"} : getSysConst(v) \/ setSysConst(v)
         \/ \E r \in Roots, f \in File, e \in Held : Edit(r, f, e)
         \/ UNCHANGED sysEnvVars
  PROVE  SettingsInv'
<1> USE DEF SettingsInv
<1>1. ASSUME NEW m \in Importers, Import(m) PROVE SettingsInv'
  <2>1. /\ copies[m].load = 0
        /\ copies' = [copies EXCEPT ![m] = [load |-> loads, of |-> configs]]
        /\ UNCHANGED <<envRoot, disk, required, configs, uiInfo, returned, dbConf, consts, loads, edits>>
    BY <1>1 DEF Import, Keeps
  <2>2. /\ copies'[m] = [load |-> loads, of |-> configs]
        /\ \A n \in Importers \ {m} : copies'[n] = copies[n]
    BY <2>1 DEF SysEnvTypeOK
  <2>3. SysEnvTypeOK'
    BY <2>1 DEF SysEnvTypeOK
  <2>4. CopiesAgree'
    BY <2>2 DEF CopiesAgree
  <2>5. loads <= loads
    BY DEF SysEnvTypeOK
  <2> QED
    BY <2>1, <2>2, <2>3, <2>4, <2>5 DEF ReturnedIsComplete
<1>2. ASSUME NEW instance, NEW shared, ImportDbConf(instance, shared) PROVE SettingsInv'
  BY <1>2 DEF ImportDbConf, ChooseDb, SysEnvTypeOK, ReturnedIsComplete, CopiesAgree
<1>3. ASSUME NEW v \in {"null", "a", "b"}, getSysConst(v) \/ setSysConst(v) PROVE SettingsInv'
  <2>1. /\ UNCHANGED <<envRoot, disk, required, configs, uiInfo, returned, copies, dbConf, loads, edits>>
        /\ consts' \in [value : {"undefined", "null", "a", "b"}, given : SUBSET {"a", "b"}]
        /\ consts'.given \subseteq {consts'.value}
        /\ consts'.value \in {"undefined", "null"} => consts'.given = {}
    BY <1>3 DEF getSysConst, setSysConst, Given, ConstOnly, SysEnvTypeOK
  <2> QED
    BY <2>1 DEF SysEnvTypeOK, ReturnedIsComplete, CopiesAgree
<1>4. ASSUME NEW r \in Roots, NEW f \in File, NEW e \in Held, Edit(r, f, e) PROVE SettingsInv'
  <2>1. disk' \in [Roots -> [File -> Held]]
    BY <1>4 DEF Edit, SysEnvTypeOK
  <2>2. edits' \in 0..MaxEdits
    BY <1>4, SysEnvAssumption DEF Edit, SysEnvTypeOK
  <2> QED
    BY <1>4, <2>1, <2>2 DEF Edit, SysEnvTypeOK, ReturnedIsComplete, CopiesAgree
<1>5. CASE UNCHANGED sysEnvVars
  BY <1>5 DEF sysEnvVars, SysEnvTypeOK, ReturnedIsComplete, CopiesAgree
<1> QED
  BY <1>1, <1>2, <1>3, <1>4, <1>5

\* Every step.
LEMMA NextSettingsInv ==
  ASSUME SettingsInv, [SysEnvNext]_sysEnvVars
  PROVE  SettingsInv'
<1>1. ASSUME NEW chroot \in Roots, NEW exists \in BOOLEAN, NEW index, loadSysEnv(chroot, exists, index)
      PROVE  SettingsInv'
  <2>1. Root(chroot, exists) \in Roots
    BY DEF Root, SettingsInv, SysEnvTypeOK
  <2> QED
    BY <1>1, <2>1, LoadSettingsInv DEF loadSysEnv
<1> QED
  BY <1>1, OtherSettingsInv DEF SysEnvNext

\* What it is for.
LEMMA SettingsInvImplies == SettingsInv => SettingsAgree
<1> SUFFICES ASSUME SettingsInv PROVE OneEditionPerRoot /\ OneConstant
  BY DEF SettingsInv, SettingsAgree
<1>1. OneEditionPerRoot
  BY DEF SettingsInv, OneEditionPerRoot
<1>2. OneConstant
  BY DEF SettingsInv, OneConstant
<1> QED
  BY <1>1, <1>2

\* However files are edited, loads fail and modules are imported in between:
\* the settings in use are of one root and belong together, modules agree on
\* them, and a constant has one value.
THEOREM SettingsStayTogether == SysEnvSpec => []SettingsAgree
BY InitSettingsInv, NextSettingsInv, SettingsInvImplies, PTL DEF SysEnvSpec

-----------------------------------------------------------------------------
(* The texts.                                                               *)

\* Merged texts are in plain entries only, texts of a file in none of those; a
\* safe entry is that of a file, and what DefaultLexicon is an alias of is safe.
TextsInv ==
  /\ TextsTypeOK
  /\ \A l \in Languages, k \in Keys :
       IF lexicon[l].kind = "plain" THEN lexicon[l].text[k] # "file"
       ELSE lexicon[l].text[k] # "merged"
  /\ \A l \in Missing : lexicon[l].kind # "safe"
  /\ \A k \in Keys : default.text[k] # "merged"
  /\ aliased => lexicon[DefaultLanguage].kind = "safe"

\* The objects the code makes.
LEMMA ObjectsOf ==
  ASSUME NEW kind \in Kind, NEW keys
  PROVE  /\ Of(kind, keys, "file") \in Object
         /\ Of(kind, keys, "file").kind = kind
         /\ \A k \in Keys : Of(kind, keys, "file").text[k] # "merged"
         /\ \A k \in Keys : k \notin keys => Of(kind, keys, "file").text[k] = "none"
  BY DEF Of, Object, Text

\* What a merge makes of an object: a plain one, with texts of a file only if
\* the object was plain and had them.
LEMMA MergeMakesPlain ==
  ASSUME NEW object \in Object, NEW keys
  PROVE  /\ Merged(object, keys) \in Object
         /\ Merged(object, keys).kind = "plain"
         /\ (object.kind = "plain" => \A k \in Keys : object.text[k] # "file")
            => \A k \in Keys : Merged(object, keys).text[k] # "file"
<1> DEFINE s == Spread(object)
           text == [k \in Keys |-> IF k \in keys THEN "merged" ELSE s.text[k]]
<1>1. /\ s \in Object /\ s.kind = "plain"
      /\ (object.kind = "plain" => \A k \in Keys : object.text[k] # "file")
         => \A k \in Keys : s.text[k] # "file"
  <2>1. CASE object.kind = "plain"
    BY <2>1 DEF Spread
  <2>2. CASE object.kind # "plain"
    BY <2>2, ObjectsOf DEF Spread, Kind
  <2> QED
    BY <2>1, <2>2
<1>2. s = [kind |-> s.kind, text |-> s.text] /\ s.text \in [Keys -> Text]
  BY <1>1 DEF Object
<1> HIDE DEF s
<1>3. Merged(object, keys) = [s EXCEPT !.text = text]
  BY DEF Merged, s
<1>4. text \in [Keys -> Text]
  BY <1>2 DEF Text
<1> QED
  BY <1>1, <1>2, <1>3, <1>4 DEF Object, Kind

\* The default lexicon is never without an object, and has no merged text.
LEMMA DefaultIsUnmerged ==
  ASSUME TextsInv
  PROVE  /\ DefaultLexicon \in Object /\ DefaultLexicon.kind # "none"
         /\ \A k \in Keys : DefaultLexicon.text[k] # "merged"
<1>1. DefaultLanguage \in Languages
  BY TextsAssumption
<1> QED
  BY <1>1 DEF TextsInv, TextsTypeOK, DefaultLexicon

\* Loads, merges and writes.
LEMMA NextTextsInv ==
  ASSUME TextsInv, [TextsNext]_textsVars
  PROVE  TextsInv'
<1>0. DefaultLanguage \in Languages /\ DefaultLanguage \in Filed /\ Filed \subseteq Languages
  BY TextsAssumption
<1> USE DEF TextsInv, TextsTypeOK
<1>1. CASE loadTexts
  <2>1. /\ UNCHANGED default /\ aliased' = TRUE
        /\ \A l \in Languages :
             lexicon'[l] = IF l \in Filed THEN Of("safe", TextsOf[l], "file") ELSE lexicon[l]
    BY <1>1 DEF loadTexts
  <2>2. \A l \in Languages : lexicon'[l] \in Object
    BY <2>1, ObjectsOf DEF Kind
  <2>3. lexicon' \in [Languages -> Object]
    BY <1>1, <2>1, <2>2 DEF loadTexts
  <2>4. \A l \in Filed : lexicon'[l].kind = "safe" /\ \A k \in Keys : lexicon'[l].text[k] # "merged"
    BY <1>0, <2>1, ObjectsOf DEF Kind
  <2> QED
    BY <1>0, <2>1, <2>3, <2>4 DEF Missing
<1>2. ASSUME NEW lang \in Languages, NEW keys \in SUBSET Keys, mergeLex(lang, keys) PROVE TextsInv'
  <2>1. /\ lexicon' = [lexicon EXCEPT ![lang] = Merged(lexicon[lang], keys)]
        /\ default' = DefaultLexicon
        /\ aliased' = (aliased /\ lang # DefaultLanguage)
    BY <1>2 DEF mergeLex
  <2>2. lexicon[lang] \in Object
    OBVIOUS
  <2>3. /\ lexicon'[lang] \in Object /\ lexicon'[lang].kind = "plain"
        /\ \A k \in Keys : lexicon'[lang].text[k] # "file"
    BY <2>1, <2>2, MergeMakesPlain
  <2>4. \A l \in Languages : l # lang => lexicon'[l] = lexicon[l]
    BY <2>1
  <2>5. lexicon' \in [Languages -> Object]
    BY <2>1, <2>2, MergeMakesPlain
  <2>6. /\ default' \in Object /\ default'.kind # "none"
        /\ \A k \in Keys : default'.text[k] # "merged"
    BY <2>1, DefaultIsUnmerged
  <2>7. aliased' => aliased /\ lexicon'[DefaultLanguage] = lexicon[DefaultLanguage]
    BY <1>0, <2>1, <2>4
  <2>8. aliased' \in BOOLEAN
    BY <2>1
  <2>9. \A l \in Missing : lexicon'[l].kind # "safe"
    BY <2>3, <2>4 DEF Missing
  <2>10. \A l \in Languages, k \in Keys :
           IF lexicon'[l].kind = "plain" THEN lexicon'[l].text[k] # "file"
           ELSE lexicon'[l].text[k] # "merged"
    BY <2>3, <2>4
  <2> QED
    BY <2>5, <2>6, <2>7, <2>8, <2>9, <2>10
<1>3. ASSUME NEW lang \in Languages, NEW k \in Keys, NEW text \in {"none", "written"},
             WriteLex(lang, k, text)
      PROVE  TextsInv'
  <2>1. ASSUME NEW l \in Languages, lexicon' = [lexicon EXCEPT ![l].text[k] = text],
               UNCHANGED <<default, aliased>>
        PROVE  TextsInv'
    <3> DEFINE new == [lexicon[l] EXCEPT !.text = [lexicon[l].text EXCEPT ![k] = text]]
    <3>1. lexicon' = [lexicon EXCEPT ![l] = new]
      BY <2>1
    <3>2. lexicon[l] = [kind |-> lexicon[l].kind, text |-> lexicon[l].text]
          /\ lexicon[l].text \in [Keys -> Text] /\ lexicon[l].kind \in Kind
      BY DEF Object
    <3>3. /\ new \in Object /\ new.kind = lexicon[l].kind
          /\ \A j \in Keys : new.text[j] = IF j = k THEN text ELSE lexicon[l].text[j]
      BY <3>2 DEF Object, Text
    <3> HIDE DEF new
    <3>4. lexicon'[l] = new /\ \A m \in Languages : m # l => lexicon'[m] = lexicon[m]
      BY <3>1
    <3>5. lexicon' \in [Languages -> Object]
      BY <3>1, <3>3
    <3>6. \A m \in Languages : lexicon'[m].kind = lexicon[m].kind
      BY <3>3, <3>4
    <3>7. \A m \in Languages, j \in Keys :
            lexicon'[m].text[j] = lexicon[m].text[j] \/ lexicon'[m].text[j] \in {"none", "written"}
      BY <3>3, <3>4
    <3> QED
      BY <1>0, <2>1, <3>5, <3>6, <3>7 DEF Missing
  <2>2. ASSUME default' = [default EXCEPT !.text[k] = text], UNCHANGED <<lexicon, aliased>>
        PROVE  TextsInv'
    <3>1. default = [kind |-> default.kind, text |-> default.text]
          /\ default.text \in [Keys -> Text] /\ default.kind \in Kind
      BY DEF Object
    <3>2. /\ default' \in Object /\ default'.kind = default.kind
          /\ \A j \in Keys : default'.text[j] = IF j = k THEN text ELSE default.text[j]
      BY <2>2, <3>1 DEF Object, Text
    <3> QED
      BY <2>2, <3>2
  <2> QED
    BY <1>0, <1>3, <2>1, <2>2 DEF WriteLex
<1>4. CASE UNCHANGED textsVars
  BY <1>4 DEF textsVars
<1>5. ASSUME NEW read \in SUBSET Filed, loadTextsThrows(read) PROVE TextsInv'
  <2>1. /\ default' = DefaultLexicon
        /\ aliased' = (aliased /\ DefaultLanguage \notin read)
        /\ \A l \in Languages :
             lexicon'[l] = IF l \in read THEN Of("safe", TextsOf[l], "file") ELSE lexicon[l]
    BY <1>5 DEF loadTextsThrows
  <2>2. \A l \in Languages : lexicon'[l] \in Object
    BY <2>1, ObjectsOf DEF Kind
  <2>3. lexicon' \in [Languages -> Object]
    BY <1>5, <2>2 DEF loadTextsThrows
  <2>4. \A l \in read : lexicon'[l].kind = "safe" /\ \A k \in Keys : lexicon'[l].text[k] # "merged"
    BY <1>0, <2>1, ObjectsOf DEF Kind
  <2>5. \A l \in Languages \ read : lexicon'[l] = lexicon[l]
    BY <2>1
  <2>6. /\ default' \in Object /\ default'.kind # "none"
        /\ \A k \in Keys : default'.text[k] # "merged"
    BY <2>1, DefaultIsUnmerged
  <2> QED
    BY <1>0, <2>1, <2>3, <2>4, <2>5, <2>6 DEF Missing
<1> QED
  BY <1>1, <1>2, <1>3, <1>4, <1>5 DEF TextsNext

\* Before anything is loaded.
LEMMA InitTextsInv == TextsInit => TextsInv
<1> SUFFICES ASSUME TextsInit PROVE TextsInv
  OBVIOUS
<1>1. Of("none", {}, "file") \in Object /\ Of("plain", {}, "file") \in Object
  BY ObjectsOf DEF Kind
<1>2. \A k \in Keys : Of("none", {}, "file").text[k] # "merged" /\ Of("plain", {}, "file").text[k] # "merged"
  BY ObjectsOf DEF Kind
<1>3. Of("none", {}, "file").kind = "none" /\ Of("plain", {}, "file").kind = "plain"
  BY DEF Of
<1> QED
  BY <1>1, <1>2, <1>3 DEF TextsInit, TextsInv, TextsTypeOK, NoObject, Missing

\* What it is for.
LEMMA TextsInvImplies == TextsInv => TextsKeptApart
<1> SUFFICES ASSUME TextsInv PROVE TextsKeptApart
  OBVIOUS
<1>1. DefaultUnmerged
  BY DefaultIsUnmerged DEF DefaultUnmerged, complain
<1>2. MergeDropsFile
  BY DEF TextsInv, MergeDropsFile
<1>3. MissingSpeaksDefault
  <2> SUFFICES ASSUME NEW l \in Missing, NEW k \in Keys, lexicon[l].kind # "plain"
               PROVE  message(k, l) = complain(k)
    BY DEF MissingSpeaksDefault
  <2>1. lexicon[l] \in Object
    BY DEF TextsInv, TextsTypeOK, Missing
  <2>2. lexicon[l].kind = "none"
    BY <2>1 DEF TextsInv, Object, Kind
  <2> QED
    BY <2>2 DEF message, complain, Speaks
<1> QED
  BY <1>1, <1>2, <1>3 DEF TextsKeptApart

\* Whatever is loaded, merged and written, the texts that were merged stay apart
\* from those of the files and of the default language.
THEOREM MergedTextsStayApart == TextsSpec => []TextsKeptApart
BY InitTextsInv, NextTextsInv, TextsInvImplies, PTL DEF TextsSpec

-----------------------------------------------------------------------------
(* The connections of the Redis store.                                      *)

Store == [redisClient : InitCalls \cup {NoStore}, publisher : InitCalls \cup {NoStore},
          inited : BOOLEAN, subscribers : SUBSET SubscribeCalls]
Links == (InitCalls \X {"client", "publisher"}) \cup (SubscribeCalls \X {"subscriber"})
InitPc == {"idle", "client", "publisher", "done", "failed"}
SubPc == {"idle", "waiting", "done", "failed"}

\* The connections that the properties are about.
Pubs == [i \in InitCalls |-> link[<<i, "publisher">>]]
Subs == [g \in SubscribeCalls |-> link[<<g, "subscriber">>]]

\* What a call of init() does is known from where it stands: its publisher is
\* connected only once it is done, the store has a publisher as soon as one
\* call got that far, and when it is ready one call was.
LinksInv ==
  /\ link \in [Links -> Link] /\ store \in Store
  /\ initPc \in [InitCalls -> InitPc] /\ subPc \in [SubscribeCalls -> SubPc]
  /\ \A i \in InitCalls :
       /\ Pubs[i] = "ready" => initPc[i] = "done"
       /\ initPc[i] = "publisher" => store.publisher # NoStore
  /\ store.publisher # NoStore =>
       initPc[store.publisher] \in {"publisher", "failed"} \/ Pubs[store.publisher] = "ready"
  /\ store.inited => store.publisher # NoStore /\ \E i \in InitCalls : Pubs[i] = "ready"
  /\ \A g \in SubscribeCalls :
       g \in store.subscribers <=> subPc[g] = "done" /\ Subs[g] = "ready"

\* The fields of the store that a step of init() assigns, and those it keeps.
LEMMA StoreOfInit ==
  ASSUME NEW s \in Store, NEW i \in InitCalls
  PROVE  LET connected == [s EXCEPT !.redisClient = i, !.publisher = i]
             ready == [s EXCEPT !.inited = TRUE] IN
         /\ connected \in Store /\ ready \in Store
         /\ connected.publisher = i /\ connected.inited = s.inited
         /\ connected.subscribers = s.subscribers
         /\ ready.publisher = s.publisher /\ ready.inited /\ ready.subscribers = s.subscribers
  BY DEF Store

\* The same of getSubscribe().
LEMMA StoreOfSubscribe ==
  ASSUME NEW s \in Store, NEW g \in SubscribeCalls
  PROVE  LET subscribed == [s EXCEPT !.subscribers = @ \cup {g}] IN
         /\ subscribed \in Store
         /\ subscribed.publisher = s.publisher /\ subscribed.inited = s.inited
         /\ subscribed.subscribers = s.subscribers \cup {g}
  BY DEF Store

\* Connections are apart from each other.
LEMMA LinkAssigned ==
  ASSUME link \in [Links -> Link], NEW x \in Links, NEW state \in Link,
         link' = [link EXCEPT ![x] = state]
  PROVE  /\ link' \in [Links -> Link]
         /\ Pubs' = [i \in InitCalls |-> IF x = <<i, "publisher">> THEN state ELSE Pubs[i]]
         /\ Subs' = [g \in SubscribeCalls |-> IF x = <<g, "subscriber">> THEN state ELSE Subs[g]]
<1>1. \A i \in InitCalls : <<i, "publisher">> \in Links
  BY DEF Links
<1>2. \A g \in SubscribeCalls : <<g, "subscriber">> \in Links
  BY DEF Links
<1>3. \A y \in Links : link'[y] = IF x = y THEN state ELSE link[y]
  OBVIOUS
<1>4. Pubs' = [i \in InitCalls |-> IF x = <<i, "publisher">> THEN state ELSE Pubs[i]]
  BY <1>1, <1>3 DEF Pubs
<1>5. Subs' = [g \in SubscribeCalls |-> IF x = <<g, "subscriber">> THEN state ELSE Subs[g]]
  BY <1>2, <1>3 DEF Subs
<1> QED
  BY <1>4, <1>5

\* The assignment of a client.
LEMMA ClientAssigned ==
  ASSUME link \in [Links -> Link], NEW i \in InitCalls, NEW state \in Link,
         link' = [link EXCEPT ![<<i, "client">>] = state]
  PROVE  link' \in [Links -> Link] /\ Pubs' = Pubs /\ Subs' = Subs
<1>1. <<i, "client">> \in Links
  BY DEF Links
<1>2. \A j \in InitCalls : <<i, "client">> # <<j, "publisher">>
  OBVIOUS
<1>3. \A g \in SubscribeCalls : <<i, "client">> # <<g, "subscriber">>
  OBVIOUS
<1>4. /\ link' \in [Links -> Link]
      /\ Pubs' = [j \in InitCalls |-> IF <<i, "client">> = <<j, "publisher">> THEN state ELSE Pubs[j]]
      /\ Subs' = [g \in SubscribeCalls |-> IF <<i, "client">> = <<g, "subscriber">> THEN state ELSE Subs[g]]
  BY <1>1, LinkAssigned
<1> QED
  BY <1>2, <1>3, <1>4 DEF Pubs, Subs

\* Of a publisher.
LEMMA PublisherAssigned ==
  ASSUME link \in [Links -> Link], NEW i \in InitCalls, NEW state \in Link,
         link' = [link EXCEPT ![<<i, "publisher">>] = state]
  PROVE  link' \in [Links -> Link] /\ Pubs' = [Pubs EXCEPT ![i] = state] /\ Subs' = Subs
<1>1. <<i, "publisher">> \in Links
  BY DEF Links
<1>2. \A j \in InitCalls : <<i, "publisher">> = <<j, "publisher">> <=> i = j
  OBVIOUS
<1>3. \A g \in SubscribeCalls : <<i, "publisher">> # <<g, "subscriber">>
  OBVIOUS
<1>4. /\ link' \in [Links -> Link]
      /\ Pubs' = [j \in InitCalls |-> IF <<i, "publisher">> = <<j, "publisher">> THEN state ELSE Pubs[j]]
      /\ Subs' = [g \in SubscribeCalls |-> IF <<i, "publisher">> = <<g, "subscriber">> THEN state ELSE Subs[g]]
  BY <1>1, LinkAssigned
<1> QED
  BY <1>2, <1>3, <1>4 DEF Pubs, Subs

\* Of a subscriber.
LEMMA SubscriberAssigned ==
  ASSUME link \in [Links -> Link], NEW g \in SubscribeCalls, NEW state \in Link,
         link' = [link EXCEPT ![<<g, "subscriber">>] = state]
  PROVE  link' \in [Links -> Link] /\ Pubs' = Pubs /\ Subs' = [Subs EXCEPT ![g] = state]
<1>1. <<g, "subscriber">> \in Links
  BY DEF Links
<1>2. \A i \in InitCalls : <<g, "subscriber">> # <<i, "publisher">>
  OBVIOUS
<1>3. \A h \in SubscribeCalls : <<g, "subscriber">> = <<h, "subscriber">> <=> g = h
  OBVIOUS
<1>4. /\ link' \in [Links -> Link]
      /\ Pubs' = [i \in InitCalls |-> IF <<g, "subscriber">> = <<i, "publisher">> THEN state ELSE Pubs[i]]
      /\ Subs' = [h \in SubscribeCalls |-> IF <<g, "subscriber">> = <<h, "subscriber">> THEN state ELSE Subs[h]]
  BY <1>1, LinkAssigned
<1> QED
  BY <1>2, <1>3, <1>4 DEF Pubs, Subs

\* Their types.
LEMMA LinkTypes ==
  ASSUME link \in [Links -> Link]
  PROVE  Pubs \in [InitCalls -> Link] /\ Subs \in [SubscribeCalls -> Link]
<1>1. \A i \in InitCalls : <<i, "publisher">> \in Links
  BY DEF Links
<1>2. \A g \in SubscribeCalls : <<g, "subscriber">> \in Links
  BY DEF Links
<1> QED
  BY <1>1, <1>2 DEF Pubs, Subs

\* The steps of init().
LEMMA InitStepLinksInv ==
  ASSUME LinksInv, NEW i \in InitCalls, init(i) \/ InitStep(i)
  PROVE  LinksInv'
<1>0. /\ NoStore \notin InitCalls /\ Pubs \in [InitCalls -> Link]
      /\ link \in [Links -> Link] /\ store \in Store
  BY RedisAssumption, LinkTypes DEF LinksInv
<1>1. CASE init(i)
  <2>1. \/ link' = link
        \/ link' = [link EXCEPT ![<<i, "client">>] = "opening"]
    BY <1>1 DEF init
  <2>2. link' \in [Links -> Link] /\ Pubs' = Pubs /\ Subs' = Subs
    <3>1. CASE link' = link
      BY <1>0, <3>1 DEF Pubs, Subs
    <3>2. CASE link' = [link EXCEPT ![<<i, "client">>] = "opening"]
      BY <1>0, <3>2, ClientAssigned DEF Link
    <3> QED
      BY <2>1, <3>1, <3>2
  <2>3. /\ initPc[i] = "idle" /\ UNCHANGED <<store, subPc>>
        /\ initPc' = [initPc EXCEPT ![i] = "done"] \/ initPc' = [initPc EXCEPT ![i] = "client"]
    BY <1>1 DEF init
  <2>4. /\ initPc' \in [InitCalls -> InitPc]
        /\ initPc'[i] \in {"done", "client"}
        /\ \A j \in InitCalls \ {i} : initPc'[j] = initPc[j]
    BY <2>3 DEF LinksInv, InitPc
  <2> QED
    BY <1>0, <2>2, <2>3, <2>4 DEF LinksInv, Store
<1>2. CASE ClientConnected(i)
  <2> DEFINE mid == [link EXCEPT ![<<i, "client">>] = "ready"]
  <2>1. /\ initPc[i] = "client" /\ initPc' = [initPc EXCEPT ![i] = "publisher"]
        /\ link' = [link EXCEPT ![<<i, "client">>] = "ready", ![<<i, "publisher">>] = "opening"]
        /\ store' = [store EXCEPT !.redisClient = i, !.publisher = i] /\ subPc' = subPc
    BY <1>2 DEF ClientConnected
  <2>2. /\ store' \in Store /\ store'.publisher = i /\ store'.inited = store.inited
        /\ store'.subscribers = store.subscribers
    BY <1>0, <2>1, StoreOfInit
  <2>3. /\ link' \in [Links -> Link] /\ Pubs' = [Pubs EXCEPT ![i] = "opening"] /\ Subs' = Subs
    <3>1. \A j \in InitCalls : <<j, "publisher">> \in Links /\ <<j, "client">> \in Links
      BY DEF Links
    <3>2. \A g \in SubscribeCalls : <<g, "subscriber">> \in Links
      BY DEF Links
    <3>3. /\ link' \in [Links -> Link]
          /\ \A j \in InitCalls : link'[<<j, "publisher">>] = IF j = i THEN "opening" ELSE link[<<j, "publisher">>]
          /\ \A g \in SubscribeCalls : link'[<<g, "subscriber">>] = link[<<g, "subscriber">>]
      BY <1>0, <2>1, <3>1, <3>2 DEF Link
    <3> QED
      BY <3>3 DEF Pubs, Subs
  <2>4. /\ initPc' \in [InitCalls -> InitPc]
        /\ initPc'[i] = "publisher"
        /\ \A j \in InitCalls \ {i} : initPc'[j] = initPc[j]
    BY <2>1 DEF LinksInv, InitPc
  <2>5. Pubs[i] # "ready"
    BY <2>1 DEF LinksInv
  <2> QED
    BY <1>0, <2>1, <2>2, <2>3, <2>4, <2>5 DEF LinksInv
<1>3. CASE PublisherConnected(i)
  <2>1. /\ initPc[i] = "publisher" /\ initPc' = [initPc EXCEPT ![i] = "done"]
        /\ link' = [link EXCEPT ![<<i, "publisher">>] = "ready"]
        /\ store' = [store EXCEPT !.inited = TRUE] /\ subPc' = subPc
    BY <1>3 DEF PublisherConnected
  <2>2. /\ store' \in Store /\ store'.publisher = store.publisher
        /\ store'.subscribers = store.subscribers
    BY <1>0, <2>1, StoreOfInit
  <2>3. link' \in [Links -> Link] /\ Pubs' = [Pubs EXCEPT ![i] = "ready"] /\ Subs' = Subs
    BY <1>0, <2>1, PublisherAssigned DEF Link
  <2>4. /\ initPc' \in [InitCalls -> InitPc]
        /\ initPc'[i] = "done"
        /\ \A j \in InitCalls \ {i} : initPc'[j] = initPc[j]
    BY <2>1 DEF LinksInv, InitPc
  <2> QED
    BY <1>0, <2>1, <2>2, <2>3, <2>4 DEF LinksInv, Store
<1>4. CASE ConnectRejected(i)
  <2>1. /\ initPc[i] \in {"client", "publisher"} /\ initPc' = [initPc EXCEPT ![i] = "failed"]
        /\ link' = [link EXCEPT ![<<i, initPc[i]>>] = "failed"]
        /\ UNCHANGED <<store, subPc>>
    BY <1>4 DEF ConnectRejected
  <2>2. Pubs[i] # "ready"
    BY <2>1 DEF LinksInv
  <2>3. /\ link' \in [Links -> Link] /\ Subs' = Subs
        /\ Pubs' = Pubs \/ Pubs' = [Pubs EXCEPT ![i] = "failed"]
    <3>1. CASE link' = [link EXCEPT ![<<i, "client">>] = "failed"]
      BY <1>0, <3>1, ClientAssigned DEF Link
    <3>2. CASE link' = [link EXCEPT ![<<i, "publisher">>] = "failed"]
      BY <1>0, <3>2, PublisherAssigned DEF Link
    <3> QED
      BY <2>1, <3>1, <3>2
  <2>4. /\ initPc' \in [InitCalls -> InitPc]
        /\ initPc'[i] = "failed"
        /\ \A j \in InitCalls \ {i} : initPc'[j] = initPc[j]
    BY <2>1 DEF LinksInv, InitPc
  <2> QED
    BY <1>0, <2>1, <2>2, <2>3, <2>4 DEF LinksInv, Store
<1> QED
  BY <1>1, <1>2, <1>3, <1>4 DEF InitStep

\* Those of getSubscribe().
LEMMA SubscribeLinksInv ==
  ASSUME LinksInv, NEW g \in SubscribeCalls, getSubscribe(g) \/ SubscriberSettles(g)
  PROVE  LinksInv'
<1>0. /\ Subs \in [SubscribeCalls -> Link] /\ link \in [Links -> Link] /\ store \in Store
  BY LinkTypes DEF LinksInv
<1>1. ASSUME NEW pc \in SubPc, NEW state \in Link,
             subPc' = [subPc EXCEPT ![g] = pc],
             link' \in [Links -> Link], Pubs' = Pubs, Subs' = [Subs EXCEPT ![g] = state],
             initPc' = initPc,
             store'.publisher = store.publisher, store'.inited = store.inited, store' \in Store,
             store'.subscribers = IF pc = "done" /\ state = "ready" THEN store.subscribers \cup {g}
                                  ELSE store.subscribers,
             g \notin store.subscribers
      PROVE  LinksInv'
  <2>1. /\ subPc' \in [SubscribeCalls -> SubPc] /\ subPc'[g] = pc
        /\ \A h \in SubscribeCalls \ {g} : subPc'[h] = subPc[h]
    BY <1>1 DEF LinksInv
  <2>2. Subs'[g] = state /\ \A h \in SubscribeCalls \ {g} : Subs'[h] = Subs[h]
    BY <1>0, <1>1
  <2>3. \A h \in SubscribeCalls :
          h \in store'.subscribers <=> subPc'[h] = "done" /\ Subs'[h] = "ready"
    BY <1>1, <2>1, <2>2 DEF LinksInv
  <2> QED
    BY <1>1, <2>1, <2>3 DEF LinksInv
<1>2. CASE getSubscribe(g)
  <2>1. g \notin store.subscribers /\ UNCHANGED <<store, initPc>>
    BY <1>2 DEF getSubscribe, LinksInv
  <2>2. CASE store.redisClient = NoStore
    <3>1. subPc' = [subPc EXCEPT ![g] = "failed"] /\ link' = link
      BY <1>2, <2>2 DEF getSubscribe
    <3>2. Pubs' = Pubs /\ Subs' = Subs
      BY <3>1 DEF Pubs, Subs
    <3>3. subPc' \in [SubscribeCalls -> SubPc] /\ subPc'[g] = "failed"
          /\ \A h \in SubscribeCalls \ {g} : subPc'[h] = subPc[h]
      BY <3>1 DEF LinksInv, SubPc
    <3> QED
      BY <2>1, <3>1, <3>2, <3>3 DEF LinksInv
  <2>3. CASE store.redisClient # NoStore
    <3>1. /\ subPc' = [subPc EXCEPT ![g] = "waiting"]
          /\ link' = [link EXCEPT ![<<g, "subscriber">>] = "opening"]
      BY <1>2, <2>3 DEF getSubscribe
    <3>2. "waiting" \in SubPc /\ "opening" \in Link
      BY DEF SubPc, Link
    <3>3. link' \in [Links -> Link] /\ Pubs' = Pubs /\ Subs' = [Subs EXCEPT ![g] = "opening"]
      BY <1>0, <3>1, <3>2, SubscriberAssigned
    <3> QED
      BY <1>0, <1>1, <2>1, <3>1, <3>2, <3>3
  <2> QED
    BY <2>2, <2>3
<1>3. CASE SubscriberSettles(g)
  <2>1. g \notin store.subscribers /\ initPc' = initPc
    BY <1>3 DEF SubscriberSettles, LinksInv
  <2>0. {"done", "failed"} \subseteq SubPc /\ {"ready", "failed"} \subseteq Link
    BY DEF SubPc, Link
  <2>2. CASE /\ link' = [link EXCEPT ![<<g, "subscriber">>] = "ready"]
             /\ subPc' = [subPc EXCEPT ![g] = "done"]
             /\ store' = [store EXCEPT !.subscribers = @ \cup {g}]
    <3>1. link' \in [Links -> Link] /\ Pubs' = Pubs /\ Subs' = [Subs EXCEPT ![g] = "ready"]
      BY <1>0, <2>0, <2>2, SubscriberAssigned
    <3>2. /\ store' \in Store /\ store'.publisher = store.publisher /\ store'.inited = store.inited
          /\ store'.subscribers = store.subscribers \cup {g}
      BY <1>0, <2>2, StoreOfSubscribe
    <3> QED
      BY <1>1, <2>0, <2>1, <2>2, <3>1, <3>2
  <2>3. CASE /\ link' = [link EXCEPT ![<<g, "subscriber">>] = "failed"]
             /\ subPc' = [subPc EXCEPT ![g] = "failed"]
             /\ UNCHANGED store
    <3>1. link' \in [Links -> Link] /\ Pubs' = Pubs /\ Subs' = [Subs EXCEPT ![g] = "failed"]
      BY <1>0, <2>0, <2>3, SubscriberAssigned
    <3> QED
      BY <1>0, <1>1, <2>0, <2>1, <2>3, <3>1
  <2> QED
    BY <1>3, <2>2, <2>3 DEF SubscriberSettles
<1> QED
  BY <1>2, <1>3

\* At the start.
LEMMA InitLinksInv == RedisInit => LinksInv
<1> SUFFICES ASSUME RedisInit PROVE LinksInv
  OBVIOUS
<1>1. link = [x \in Links |-> "none"]
  BY DEF RedisInit, Links
<1>2. \A i \in InitCalls : <<i, "publisher">> \in Links
  BY DEF Links
<1>3. \A g \in SubscribeCalls : <<g, "subscriber">> \in Links
  BY DEF Links
<1>4. \A i \in InitCalls : Pubs[i] = "none"
  BY <1>1, <1>2 DEF Pubs
<1>5. \A g \in SubscribeCalls : Subs[g] = "none"
  BY <1>1, <1>3 DEF Subs
<1>6. link \in [Links -> Link]
  BY <1>1 DEF Link
<1>7. /\ store = [redisClient |-> NoStore, publisher |-> NoStore, inited |-> FALSE, subscribers |-> {}]
      /\ store \in Store
  BY DEF RedisInit, Store
<1> QED
  BY <1>4, <1>5, <1>6, <1>7 DEF RedisInit, LinksInv, InitPc, SubPc

\* Every step.
LEMMA NextLinksInv ==
  ASSUME LinksInv, [RedisNext]_redisVars
  PROVE  LinksInv'
<1>1. ASSUME UNCHANGED <<store, initPc, link, subPc>> PROVE LinksInv'
  <2>1. Pubs' = Pubs /\ Subs' = Subs
    BY <1>1 DEF Pubs, Subs
  <2> QED
    BY <1>1, <2>1 DEF LinksInv
<1>2. ASSUME NEW s \in SendCalls,
             SendStep(s) \/ \E p \in Payloads, form \in Form : sendData(s, p, form)
      PROVE  LinksInv'
  BY <1>1, <1>2 DEF SendStep, Publish, PublishRejected, SendReturns, sendData
<1>3. CASE UNCHANGED redisVars
  BY <1>1, <1>3 DEF redisVars
<1> QED
  BY <1>2, <1>3, InitStepLinksInv, SubscribeLinksInv DEF RedisNext, RedisProgress

\* What it is for.
LEMMA LinksInvImplies == LinksInv => LinksAreReady
<1> SUFFICES ASSUME LinksInv PROVE LinksAreReady
  OBVIOUS
<1>1. SubscribersConnected
  BY DEF LinksInv, SubscribersConnected, Subs
<1>2. ASSUME store.inited, ~Underway
      PROVE  \/ link[store.publisher, "publisher"] = "ready"
             \/ /\ initPc[store.publisher] = "failed"
                /\ \E i \in InitCalls \ {store.publisher} : link[i, "publisher"] = "ready"
  <2>1. \A i \in InitCalls : link[i, "publisher"] = Pubs[i]
    BY DEF Pubs
  <2>2. store.publisher \in InitCalls
    BY <1>2 DEF LinksInv, Store
  <2>3. \/ Pubs[store.publisher] = "ready"
        \/ /\ initPc[store.publisher] = "failed"
           /\ \E i \in InitCalls \ {store.publisher} : Pubs[i] = "ready"
    BY <1>2, <2>2 DEF LinksInv, Underway
  <2> QED
    BY <2>1, <2>2, <2>3
<1> QED
  BY <1>1, <1>2 DEF LinksAreReady, InitedIsUsable

\* Whatever calls overlap and whichever connections fail, a store that says it
\* is ready can send unless a later init() that failed took its publisher, and
\* the subscribers it remembers are connected.
THEOREM ReadyStoresHaveLinks == RedisSpec => []LinksAreReady
BY InitLinksInv, NextLinksInv, LinksInvImplies, PTL DEF RedisSpec

-----------------------------------------------------------------------------
(* What senders are told.                                                   *)

Sending == [pc : {"idle", "sending", "resolved", "rejected"}, form : Form, payload : Payloads,
            via : InitCalls \cup {NoStore}, left : SUBSET Places]
Message == [call : SendCalls, to : Places]

All(s) == Targets(sent[s].payload, sent[s].form)
Served(s) == All(s) \ sent[s].left

\* Why s may have been told a success without a message.
Excused(s) ==
  \/ sent[s].payload \in Unserialisable
  \/ sent[s].form = "list" /\ Eligible = {}
  \/ sent[s].form = "empty"
  \/ sent[s].form = "own" /\ dest[sent[s].payload] = "none"
  \/ sent[s].form = "own" /\ \E o \in SendCalls \ {s} :
       sent[o].payload = sent[s].payload /\ sent[o].pc # "idle" /\ sent[o].form # "live"

\* What was published for s, and that what is left of its list is behind it.
Told(s) ==
  /\ sent[s].left \subseteq All(s)
  /\ sent[s].pc = "idle" => SentTo(s) = {}
  /\ sent[s].pc = "sending" =>
       SentTo(s) = Served(s) /\ \A i \in SentTo(s), j \in sent[s].left : i < j
  /\ sent[s].pc = "resolved" => SentTo(s) = All(s) \/ (SentTo(s) = {} /\ Excused(s))
  /\ sent[s].pc = "rejected" =>
       SentTo(s) = Served(s) \/ \E to \in Following(s) : SentTo(s) = Served(s) \cup {to}

Ascending ==
  \A m, n \in DOMAIN channel :
    m < n /\ channel[m].call = channel[n].call => channel[m].to < channel[n].to

\* A payload only lost its destination to a call that was made.
SendsInv ==
  /\ sent \in [SendCalls -> Sending] /\ channel \in Seq(Message)
  /\ dest \in [Payloads -> {"own", "none", "deleted"}]
  /\ \A s \in SendCalls : Told(s)
  /\ Ascending
  /\ \A p \in Payloads : dest[p] = "deleted" =>
       \E o \in SendCalls : sent[o].payload = p /\ sent[o].pc # "idle" /\ sent[o].form # "live"

\* Places are numbers, and a call only has places of its list to serve.
LEMMA TargetPlaces ==
  /\ Places \subseteq Nat
  /\ \A p, form : Targets(p, form) \subseteq Places
BY RedisAssumption DEF Places, Targets, Eligible

\* One more message is one more of the call that sent it.
LEMMA OneMoreMessage ==
  ASSUME channel \in Seq(Message), NEW s \in SendCalls, NEW to \in Places, Published(s, to)
  PROVE  /\ channel' \in Seq(Message)
         /\ SentTo(s)' = SentTo(s) \cup {to}
         /\ \A o : o # s => SentTo(o)' = SentTo(o)
         /\ Ascending /\ (\A i \in SentTo(s) : i < to) => Ascending'
<1> DEFINE x == [call |-> s, to |-> to]
<1>1. x \in Message /\ x.call = s /\ x.to = to
  BY DEF Message
<1>2. channel' = Append(channel, x)
  BY DEF Published
<1> HIDE DEF x
<1>3. \A q \in Seq(Message) :
        /\ Append(q, x) \in Seq(Message)
        /\ Len(q) \in Nat /\ DOMAIN q = 1..Len(q) /\ DOMAIN Append(q, x) = 1..(Len(q) + 1)
        /\ Append(q, x)[Len(q) + 1] = x
        /\ \A i \in DOMAIN q : Append(q, x)[i] = q[i]
  BY <1>1
<1>4. /\ channel' \in Seq(Message)
      /\ Len(channel) \in Nat /\ DOMAIN channel = 1..Len(channel)
      /\ DOMAIN channel' = 1..(Len(channel) + 1)
      /\ channel'[Len(channel) + 1] = x
      /\ \A i \in DOMAIN channel : channel'[i] = channel[i]
  BY <1>2, <1>3
<1>5. SentTo(s)' = SentTo(s) \cup {to}
  BY <1>1, <1>4 DEF SentTo
<1>6. ASSUME NEW o, o # s PROVE SentTo(o)' = SentTo(o)
  BY <1>1, <1>4, <1>6 DEF SentTo
<1>7. ASSUME Ascending, \A i \in SentTo(s) : i < to PROVE Ascending'
  <2> SUFFICES ASSUME NEW m \in DOMAIN channel', NEW n \in DOMAIN channel', m < n,
                      channel'[m].call = channel'[n].call
               PROVE  channel'[m].to < channel'[n].to
    BY DEF Ascending
  <2>1. m \in DOMAIN channel
    BY <1>4
  <2>2. CASE n \in DOMAIN channel
    BY <1>4, <1>7, <2>1, <2>2 DEF Ascending
  <2>3. CASE n = Len(channel) + 1
    <3>1. channel[m].call = s
      BY <1>1, <1>4, <2>1, <2>3
    <3>2. channel[m].to \in SentTo(s)
      BY <2>1, <3>1 DEF SentTo
    <3> QED
      BY <1>1, <1>4, <1>7, <2>1, <2>3, <3>2
  <2> QED
    BY <1>4, <2>2, <2>3
<1> QED
  BY <1>4, <1>5, <1>6, <1>7

\* A step of one call leaves what the others were told.
LEMMA OthersTold ==
  ASSUME NEW s \in SendCalls, NEW o \in SendCalls \ {s}, Told(o), sent'[o] = sent[o],
         SentTo(o)' = SentTo(o), sent'[s].pc # "idle",
         sent[s].pc # "idle" =>
           sent'[s].payload = sent[s].payload /\ sent'[s].form = sent[s].form,
         sent[o].payload \in Payloads,
         \A p \in Payloads : dest[p] = "none" => dest'[p] = "none",
         \A q \in SendCalls \ {s} : sent'[q] = sent[q]
  PROVE  Told(o)'
<1>1. All(o)' = All(o) /\ Served(o)' = Served(o) /\ Following(o)' = Following(o)
  BY DEF All, Served, Following
<1>2. Excused(o) => Excused(o)'
  BY DEF Excused
<1> QED
  BY <1>1, <1>2 DEF Told

\* The start of a call.
LEMMA StartSendsInv ==
  ASSUME SendsInv, store.publisher \in InitCalls \cup {NoStore}, NEW s \in SendCalls,
         NEW p \in Payloads, NEW form \in Form, sendData(s, p, form)
  PROVE  SendsInv'
<1> DEFINE new == Started(p, form, Immediate(p, form))
<1>1. /\ sent[s].pc = "idle" /\ sent' = [sent EXCEPT ![s] = new] /\ channel' = channel
      /\ dest' = IF form # "live" /\ dest[p] = "own" THEN [dest EXCEPT ![p] = "deleted"] ELSE dest
  BY DEF sendData
<1>2. /\ new.form = form /\ new.payload = p
      /\ IF Immediate(p, form) THEN new.pc = "resolved" /\ new.left = {}
         ELSE new.pc \in {"rejected", "sending"} /\ new.left = Targets(p, form)
      /\ new.pc # "idle"
  BY DEF Started
<1>3. new \in Sending
  BY TargetPlaces DEF Started, Sending
<1> HIDE DEF new
<1>4. /\ sent'[s] = new /\ \A o \in SendCalls \ {s} : sent'[o] = sent[o]
      /\ sent' \in [SendCalls -> Sending]
  BY <1>1, <1>3 DEF SendsInv
<1>5. \A o : SentTo(o)' = SentTo(o)
  BY <1>1 DEF SentTo
<1>6. \A o \in SendCalls \ {s} : Told(o)'
  <2>1. \A q \in Payloads : dest[q] = "none" => dest'[q] = "none"
    BY <1>1 DEF SendsInv
  <2>2. \A o \in SendCalls : sent[o].payload \in Payloads
    BY DEF SendsInv, Sending
  <2> QED
    BY <1>1, <1>2, <1>4, <1>5, <2>1, <2>2, OthersTold DEF SendsInv
<1>d. /\ dest' \in [Payloads -> {"own", "none", "deleted"}]
      /\ \A q \in Payloads : dest'[q] = "deleted" =>
           \E o \in SendCalls : sent'[o].payload = q /\ sent'[o].pc # "idle" /\ sent'[o].form # "live"
  <2>1. ASSUME NEW q \in Payloads, dest[q] = "deleted"
        PROVE  \E o \in SendCalls : sent'[o].payload = q /\ sent'[o].pc # "idle" /\ sent'[o].form # "live"
    BY <1>1, <1>2, <1>4, <2>1 DEF SendsInv
  <2>2. form # "live" => sent'[s].payload = p /\ sent'[s].pc # "idle" /\ sent'[s].form # "live"
    BY <1>2, <1>4
  <2>3. \A q \in Payloads : dest'[q] = "deleted" => dest[q] = "deleted" \/ (q = p /\ form # "live")
    BY <1>1 DEF SendsInv
  <2> QED
    BY <1>1, <2>1, <2>2, <2>3 DEF SendsInv
<1>7. SentTo(s)' = {} /\ All(s)' = Targets(p, form)
  BY <1>1, <1>2, <1>4, <1>5 DEF SendsInv, Told, All
<1>8. CASE Immediate(p, form)
  <2>1. form = "own" /\ dest[p] = "deleted" =>
          \E o \in SendCalls \ {s} :
            sent'[o].payload = p /\ sent'[o].pc # "idle" /\ sent'[o].form # "live"
    BY <1>1, <1>4 DEF SendsInv
  <2>0. dest[p] \in {"own", "none", "deleted"} /\ (dest[p] = "none" => dest'[p] = "none")
    BY <1>1 DEF SendsInv
  <2>2. Destinations = <<>> => Eligible = {}
    <3>1. DOMAIN <<>> = {}
      OBVIOUS
    <3> QED
      BY <3>1 DEF Eligible
  <2>3. Excused(s)'
    BY <1>2, <1>4, <1>8, <2>0, <2>1, <2>2 DEF Excused, Immediate
  <2> QED
    <3>1. Told(s)'
      BY <1>2, <1>4, <1>7, <1>8, <2>3 DEF Told
    <3> QED
      BY <1>1, <1>4, <1>6, <1>d, <3>1 DEF SendsInv, Ascending
<1>9. CASE ~Immediate(p, form)
  <2>1. Served(s)' = {} /\ sent'[s].left = All(s)'
    BY <1>2, <1>4, <1>7, <1>9 DEF Served
  <2>2. Told(s)'
    BY <1>2, <1>4, <1>7, <1>9, <2>1 DEF Told
  <2> QED
    BY <1>1, <1>4, <1>6, <1>d, <2>2 DEF SendsInv, Ascending
<1> QED
  BY <1>8, <1>9

\* Its messages, one by one, and its end.
LEMMA StepSendsInv ==
  ASSUME SendsInv, NEW s \in SendCalls, SendStep(s)
  PROVE  SendsInv'
<1>1. /\ sent[s] \in Sending /\ sent[s].pc = "sending" /\ dest' = dest
      /\ Told(s) /\ sent[s].left \subseteq All(s)
  BY DEF SendsInv, SendStep, Publish, PublishRejected, SendReturns, Told
<1>2. /\ SentTo(s) = Served(s) /\ \A i \in SentTo(s), j \in sent[s].left : i < j
  BY <1>1 DEF Told
<1>3. Following(s) \subseteq sent[s].left /\ \A to \in Following(s) : \A j \in sent[s].left : to <= j
  BY DEF Following
<1>4. sent[s].left \subseteq Places /\ Places \subseteq Nat
  BY <1>1, TargetPlaces DEF Sending
<1>5. ASSUME NEW to \in Following(s), Published(s, to)
      PROVE  /\ channel' \in Seq(Message) /\ Ascending'
             /\ SentTo(s)' = SentTo(s) \cup {to}
             /\ \A o : o # s => SentTo(o)' = SentTo(o)
  BY <1>2, <1>3, <1>4, <1>5, OneMoreMessage DEF SendsInv
<1>6. ASSUME UNCHANGED channel
      PROVE  channel' \in Seq(Message) /\ Ascending' /\ \A o : SentTo(o)' = SentTo(o)
  BY <1>6 DEF SendsInv, Ascending, SentTo
<1>7. ASSUME NEW new \in Sending, sent' = [sent EXCEPT ![s] = new],
             new.payload = sent[s].payload, new.form = sent[s].form, new.pc # "idle",
             channel' \in Seq(Message), Ascending', \A o : o # s => SentTo(o)' = SentTo(o),
             Told(s)'
      PROVE  SendsInv'
  <2>1. /\ sent'[s] = new /\ \A o \in SendCalls \ {s} : sent'[o] = sent[o]
        /\ sent' \in [SendCalls -> Sending]
    BY <1>7 DEF SendsInv
  <2>2. \A o \in SendCalls \ {s} : Told(o)'
    <3>1. \A o \in SendCalls : sent[o].payload \in Payloads
      BY DEF SendsInv, Sending
    <3> QED
      BY <1>1, <1>7, <2>1, <3>1, OthersTold DEF SendsInv
  <2>3. \A q \in Payloads : dest'[q] = "deleted" =>
          \E o \in SendCalls : sent'[o].payload = q /\ sent'[o].pc # "idle" /\ sent'[o].form # "live"
    BY <1>1, <1>7, <2>1 DEF SendsInv
  <2> QED
    BY <1>1, <1>7, <2>1, <2>2, <2>3 DEF SendsInv
<1>8. ASSUME Publish(s) PROVE SendsInv'
  <2>1. PICK to \in Following(s) : /\ sent' = [sent EXCEPT ![s].left = @ \ {to}]
                                   /\ Published(s, to)
    BY <1>8 DEF Publish
  <2> DEFINE new == [sent[s] EXCEPT !.left = @ \ {to}]
  <2>2. /\ new \in Sending /\ new.payload = sent[s].payload /\ new.form = sent[s].form
        /\ new.pc = "sending" /\ new.left = sent[s].left \ {to}
    BY <1>1 DEF Sending
  <2>3. sent' = [sent EXCEPT ![s] = new]
    BY <2>1 DEF SendsInv
  <2> HIDE DEF new
  <2>4. sent'[s] = new /\ All(s)' = All(s)
    BY <2>2, <2>3 DEF SendsInv, All
  <2>5. Served(s)' = Served(s) \cup {to}
    BY <1>1, <1>3, <2>2, <2>4 DEF Served
  <2>6. \A i \in SentTo(s)', j \in new.left : i < j
    <3> SUFFICES ASSUME NEW i \in SentTo(s) \cup {to}, NEW j \in new.left PROVE i < j
      BY <1>5, <2>1
    <3>1. j \in sent[s].left /\ j # to
      BY <2>2
    <3>2. to <= j /\ to \in Nat /\ j \in Nat
      BY <1>3, <1>4, <3>1
    <3>3. i \in SentTo(s) => i < j
      BY <1>2, <3>1
    <3> QED
      BY <3>1, <3>2, <3>3
  <2>7. Told(s)'
    BY <1>1, <1>2, <1>5, <2>1, <2>2, <2>4, <2>5, <2>6 DEF Told
  <2> QED
    BY <1>5, <1>7, <2>1, <2>2, <2>3, <2>7
<1>9. ASSUME PublishRejected(s) PROVE SendsInv'
  <2> DEFINE new == [sent[s] EXCEPT !.pc = "rejected"]
  <2>1. /\ new \in Sending /\ new.payload = sent[s].payload /\ new.form = sent[s].form
        /\ new.pc = "rejected" /\ new.left = sent[s].left
    BY <1>1 DEF Sending
  <2>2. sent' = [sent EXCEPT ![s] = new]
    BY <1>9 DEF SendsInv, PublishRejected
  <2> HIDE DEF new
  <2>3. /\ sent'[s] = new /\ All(s)' = All(s) /\ Served(s)' = Served(s)
        /\ Following(s)' = Following(s)
    BY <2>1, <2>2 DEF SendsInv, All, Served, Following
  <2>4. ASSUME UNCHANGED channel PROVE SendsInv'
    <3>1. Told(s)'
      BY <1>1, <1>2, <1>6, <2>1, <2>3, <2>4 DEF Told
    <3> QED
      BY <1>6, <1>7, <2>1, <2>2, <2>4, <3>1
  <2>5. ASSUME NEW to \in Following(s), Published(s, to) PROVE SendsInv'
    <3>1. Told(s)'
      BY <1>1, <1>2, <1>5, <2>1, <2>3, <2>5 DEF Told
    <3> QED
      BY <1>5, <1>7, <2>1, <2>2, <2>5, <3>1
  <2> QED
    BY <1>9, <2>4, <2>5 DEF PublishRejected
<1>10. ASSUME SendReturns(s) PROVE SendsInv'
  <2> DEFINE new == [sent[s] EXCEPT !.pc = "resolved"]
  <2>1. /\ new \in Sending /\ new.payload = sent[s].payload /\ new.form = sent[s].form
        /\ new.pc = "resolved" /\ new.left = {} /\ sent[s].left = {}
    BY <1>1, <1>10 DEF Sending, SendReturns
  <2>2. sent' = [sent EXCEPT ![s] = new] /\ UNCHANGED channel
    BY <1>10 DEF SendsInv, SendReturns
  <2> HIDE DEF new
  <2>3. sent'[s] = new /\ All(s)' = All(s) /\ Served(s) = All(s)
    BY <2>1, <2>2 DEF SendsInv, All, Served
  <2>4. Told(s)'
    BY <1>2, <1>6, <2>1, <2>2, <2>3 DEF Told
  <2> QED
    BY <1>6, <1>7, <2>1, <2>2, <2>4
<1> QED
  BY <1>8, <1>9, <1>10 DEF SendStep

\* Before any call.
LEMMA InitSendsInv == RedisInit => SendsInv
<1> SUFFICES ASSUME RedisInit PROVE SendsInv
  OBVIOUS
<1>1. (CHOOSE p \in Payloads : TRUE) \in Payloads
  BY RedisAssumption
<1>2. NotSent \in Sending /\ NotSent.pc = "idle" /\ NotSent.left = {}
  BY <1>1 DEF NotSent, Sending, Form
<1>3. channel = <<>> /\ DOMAIN <<>> = {}
  BY DEF RedisInit
<1>4. \A s \in SendCalls : SentTo(s) = {}
  BY <1>3 DEF SentTo
<1>5. \A s \in SendCalls : Told(s)
  BY <1>2, <1>4 DEF RedisInit, Told
<1> QED
  BY <1>2, <1>3, <1>5 DEF RedisInit, SendsInv, Ascending

\* Every step keeps what senders are told true.
LEMMA NextSendsInv ==
  ASSUME LinksInv, SendsInv, [RedisNext]_redisVars
  PROVE  SendsInv'
<1>1. ASSUME UNCHANGED <<dest, sent, channel>> PROVE SendsInv'
  <2>1. ASSUME NEW s \in SendCalls PROVE Told(s)'
    <3>1. SentTo(s)' = SentTo(s) /\ All(s)' = All(s) /\ Served(s)' = Served(s)
          /\ Following(s)' = Following(s)
      BY <1>1 DEF SentTo, All, Served, Following
    <3>2. Excused(s) => Excused(s)'
      BY <1>1 DEF Excused
    <3> QED
      BY <1>1, <3>1, <3>2 DEF SendsInv, Told
  <2> QED
    BY <1>1, <2>1 DEF SendsInv, Ascending
<1>2. store.publisher \in InitCalls \cup {NoStore}
  BY DEF LinksInv, Store
<1>3. ASSUME NEW i \in InitCalls, init(i) \/ InitStep(i) PROVE SendsInv'
  BY <1>1, <1>3 DEF init, InitStep, ClientConnected, PublisherConnected, ConnectRejected
<1>4. ASSUME NEW g \in SubscribeCalls, getSubscribe(g) \/ SubscriberSettles(g) PROVE SendsInv'
  BY <1>1, <1>4 DEF getSubscribe, SubscriberSettles
<1>5. CASE UNCHANGED redisVars
  BY <1>1, <1>5 DEF redisVars
<1> QED
  BY <1>2, <1>3, <1>4, <1>5, StartSendsInv, StepSendsInv DEF RedisNext, RedisProgress

\* What it is for.
LEMMA SendsInvImplies == SendsInv => SendsAreTrue
<1> SUFFICES ASSUME SendsInv PROVE SendsAreTrue
  OBVIOUS
<1>1. ServedInOrder
  <2>1. \A s \in SendCalls :
          LET all == Targets(sent[s].payload, sent[s].form)
              served == all \ sent[s].left IN
            CASE sent[s].pc = "idle" -> SentTo(s) = {}
              [] sent[s].pc = "sending" -> SentTo(s) = served
              [] sent[s].pc = "resolved" -> SentTo(s) \in {{}, all}
              [] sent[s].pc = "rejected" ->
                   \/ SentTo(s) = served
                   \/ \E to \in Following(s) : SentTo(s) = served \cup {to}
    <3> SUFFICES ASSUME NEW s \in SendCalls
                 PROVE  CASE sent[s].pc = "idle" -> SentTo(s) = {}
                          [] sent[s].pc = "sending" -> SentTo(s) = Served(s)
                          [] sent[s].pc = "resolved" -> SentTo(s) \in {{}, All(s)}
                          [] sent[s].pc = "rejected" ->
                               \/ SentTo(s) = Served(s)
                               \/ \E to \in Following(s) : SentTo(s) = Served(s) \cup {to}
      BY DEF Served, All
    <3>1. Told(s) /\ sent[s].pc \in {"idle", "sending", "resolved", "rejected"}
      BY DEF SendsInv, Sending
    <3> QED
      BY <3>1 DEF Told
  <2> QED
    BY <2>1 DEF SendsInv, Ascending, ServedInOrder
<1>2. ASSUME NEW s \in SendCalls, sent[s].pc = "resolved", SentTo(s) = {} PROVE Excused(s)
  <2>1. Told(s) /\ sent[s].form \in Form
    BY DEF SendsInv, Sending
  <2>2. CASE All(s) = {}
    BY <2>2 DEF All, Targets, Excused
  <2> QED
    BY <1>2, <2>1, <2>2 DEF Told
<1>3. SilentOnlyWithCause
  BY <1>2 DEF SilentOnlyWithCause, Excused
<1> QED
  BY <1>1, <1>3 DEF SendsAreTrue

\* A call that returns has sent each message of its list once and in order, and
\* one that throws has sent the first ones; what is reported sent without a
\* message had nothing to send, or lost its destination to an earlier call.
THEOREM SendersAreTold == RedisSpec => []SendsAreTrue
<1>1. LinksInv /\ SendsInv /\ [RedisNext]_redisVars => (LinksInv /\ SendsInv)'
  BY NextLinksInv, NextSendsInv
<1> QED
  BY <1>1, InitLinksInv, InitSendsInv, SendsInvImplies, PTL DEF RedisSpec

-----------------------------------------------------------------------------
(* The records of files.                                                    *)

\* Where getFilecap finds the record of an extension, and the answer for one
\* whose record nobody writes into: no reload or lookup changes either.
KeyOf(e) == IF e \in Doubles \ DOMAIN Rows THEN LastOf[e] ELSE e
Answer(e, found) ==
  IF KeyOf(e) \in DOMAIN Rows THEN Completed(Rows[KeyOf(e)], found)
  ELSE [Completed(Unknown, found) EXCEPT !.mimetype = OrElse(@, found.mimetype),
                                         !.capability = OrElse(@, "---")]

\* The records of single extensions are those of the table, and so are the
\* answers given from them.
FilesInv ==
  /\ FileInfoTypeOK
  /\ SinglesStay /\ CategoryKept /\ AlwaysCategorised
  /\ \A l \in Lookups : Done(l) /\ KeyOf(lookup[l].extension) \in Singles =>
       lookup[l].info = Answer(lookup[l].extension, lookup[l].detected)

\* What detectFiletype tells.
LEMMA DetectedFields ==
  ASSUME NEW found \in Detected
  PROVE  /\ found.mimetype \in {"", "text/*", "video/mp4", "image/png"}
         /\ found.mimetype \in Mimetype
<1>1. CASE found \in [mimetype : {"text/*", "video/mp4", "image/png"}, is_text : BOOLEAN]
  <2>1. found.mimetype \in {"text/*", "video/mp4", "image/png"}
    BY <1>1
  <2> QED
    BY <2>1 DEF Mimetype
<1>2. CASE found = [mimetype |-> "", is_text |-> FALSE]
  <2>1. found.mimetype = ""
    BY <1>2
  <2> QED
    BY <2>1 DEF Mimetype
<1> QED
  BY <1>1, <1>2 DEF Detected

\* A record of the three fields is one of a file.
LEMMA RowOf ==
  ASSUME NEW m \in Mimetype, NEW c \in Capability, NEW g \in Category
  PROVE  LET r == [mimetype |-> m, capability |-> c, category |-> g] IN
         r \in Row /\ r.mimetype = m /\ r.category = g
  BY DEF Row

\* What getFileinfo makes of a record and of what it detected: a record with a
\* category, that keeps what it says of its category and its mimetype but for
\* the cases CategoryKept names.
LEMMA CompletedRow ==
  ASSUME NEW def \in Row, NEW found \in Detected
  PROVE  /\ Completed(def, found) \in Row
         /\ Completed(def, found).category \notin {Absent, ""}
         /\ \/ Completed(def, found).category = def.category
            \/ def.category \in {Absent, "", "video"}
         /\ \/ Completed(def, found).mimetype = def.mimetype
            \/ def.mimetype \in {Absent, ""}
            \/ Completed(def, found).mimetype = "aplication/octet-stream"
<1>1. found.mimetype \in {"", "text/*", "video/mp4", "image/png"}
  BY DetectedFields
<1>2. CategoryOf(found.mimetype) \in {"text", "video", "image"}
  BY DEF CategoryOf
<1>3. def.category \in Category /\ def.mimetype \in Mimetype /\ def.capability \in Capability
  BY DEF Row
<1>4. CASE found.mimetype = ""
  BY <1>3, <1>4 DEF Completed, OrElse, Row, Category, Mimetype, Capability, Absent
<1>5. CASE found.mimetype # "" /\ found.is_text
  <2> DEFINE mimetype == OrElse(def.mimetype, found.mimetype)
             category == OrElse(def.category, CategoryOf(found.mimetype))
             kept == IF mimetype # "application/x-script" /\ category = "video"
                     THEN CategoryOf(found.mimetype) ELSE category
  <2>1. Completed(def, found) =
          [mimetype |-> mimetype, capability |-> OrElse(def.capability, "---"), category |-> kept]
    BY <1>5 DEF Completed
  <2>2. mimetype \in Mimetype /\ (mimetype = def.mimetype \/ def.mimetype \in {Absent, ""})
    BY <1>1, <1>3 DEF OrElse, Mimetype, Absent
  <2>3. /\ category \in Category \ {Absent, ""}
        /\ category = def.category \/ def.category \in {Absent, ""}
    BY <1>2, <1>3 DEF OrElse, Category, Absent
  <2>4. OrElse(def.capability, "---") \in Capability
    BY <1>3 DEF OrElse, Capability, Absent
  <2> HIDE DEF mimetype, category
  <2>5. kept \in Category \ {Absent, ""} /\ (kept = category \/ category = "video")
    BY <1>2, <2>3 DEF Category, Absent
  <2>6. kept = def.category \/ def.category \in {Absent, "", "video"}
    BY <2>3, <2>5
  <2> HIDE DEF kept
  <2> DEFINE r == Completed(def, found)
  <2>7. /\ r = [mimetype |-> mimetype, capability |-> OrElse(def.capability, "---"), category |-> kept]
        /\ r.category = kept /\ r.mimetype = mimetype
    BY <2>1
  <2> HIDE DEF r
  <2>8. r \in Row
    BY <2>2, <2>4, <2>5, <2>7, RowOf
  <2>9. /\ r \in Row /\ r.category \notin {Absent, ""}
        /\ r.category = def.category \/ def.category \in {Absent, "", "video"}
        /\ \/ r.mimetype = def.mimetype \/ def.mimetype \in {Absent, ""}
           \/ r.mimetype = "aplication/octet-stream"
    BY <2>2, <2>5, <2>6, <2>7, <2>8
  <2> QED
    BY <2>9 DEF r
<1>6. CASE found.mimetype # "" /\ ~found.is_text
  <2> DEFINE category == OrElse(def.category, CategoryOf(found.mimetype))
  <2>1. Completed(def, found) = [def EXCEPT !.category = category]
    BY <1>6 DEF Completed
  <2>2. /\ category \in Category \ {Absent, ""}
        /\ category = def.category \/ def.category \in {Absent, ""}
    BY <1>2, <1>3 DEF OrElse, Category, Absent
  <2> HIDE DEF category
  <2>3. def = [mimetype |-> def.mimetype, capability |-> def.capability, category |-> def.category]
    BY DEF Row
  <2>4. Completed(def, found)
          = [mimetype |-> def.mimetype, capability |-> def.capability, category |-> category]
    BY <2>1, <2>3
  <2> DEFINE r == Completed(def, found)
  <2>7. r \in Row /\ r.category = category /\ r.mimetype = def.mimetype
    <3>1. r = [mimetype |-> def.mimetype, capability |-> def.capability, category |-> category]
      BY <2>4
    <3> HIDE DEF r
    <3> QED
      BY <1>3, <2>2, <3>1, RowOf
  <2> HIDE DEF r
  <2>8. /\ r \in Row /\ r.category \notin {Absent, ""}
        /\ r.category = def.category \/ def.category \in {Absent, "", "video"}
        /\ r.mimetype = def.mimetype
    BY <2>2, <2>7
  <2> QED
    BY <2>8 DEF r
<1> QED
  BY <1>1, <1>4, <1>5, <1>6

\* The result made of it.
LEMMA InfoRow ==
  ASSUME NEW def \in Row, NEW found \in Detected, def.category \notin {Absent, ""}
  PROVE  LET info == [def EXCEPT !.mimetype = OrElse(@, found.mimetype),
                                 !.capability = OrElse(@, "---")] IN
         info \in Row /\ info.category = def.category
<1>1. found.mimetype \in Mimetype
  BY DetectedFields
<1>2. OrElse(def.mimetype, found.mimetype) \in Mimetype
  BY <1>1 DEF OrElse, Row
<1>3. OrElse(def.capability, "---") \in Capability
  BY DEF OrElse, Row, Capability
<1> QED
  BY <1>2, <1>3 DEF Row

\* A lookup finds the record of a single extension as the table has it, and
\* writes into that of a double one only.
LEMMA RecordFound ==
  ASSUME FileInfoTypeOK, SinglesStay, NEW e \in Singles \cup Doubles
  PROVE  /\ Key(e) = KeyOf(e) /\ DOMAIN filecap = DOMAIN Rows
         /\ getFilecap(e) \in Row
         /\ Shared(e) => Key(e) = e /\ e \in Doubles \cap DOMAIN Rows /\ getFilecap(e) = filecap[e]
         /\ KeyOf(e) \in Singles =>
              getFilecap(e) = IF KeyOf(e) \in DOMAIN Rows THEN Rows[KeyOf(e)] ELSE Unknown
<1>1. DOMAIN filecap = DOMAIN Rows
  BY DEF FileInfoTypeOK
<1>2. Key(e) = KeyOf(e)
  BY <1>1 DEF Key, KeyOf
<1>3. Unknown \in Row
  BY DEF Unknown, Row, Category, Mimetype, Capability, Absent
<1>4. getFilecap(e) \in Row
  BY <1>1, <1>3 DEF getFilecap, Known, FileInfoTypeOK
<1>5. Shared(e) => Key(e) = e /\ e \in Doubles \cap DOMAIN Rows /\ getFilecap(e) = filecap[e]
  BY <1>1, FileInfoAssumption DEF Shared, Key, getFilecap, Known
<1>6. KeyOf(e) \in Singles =>
        getFilecap(e) = IF KeyOf(e) \in DOMAIN Rows THEN Rows[KeyOf(e)] ELSE Unknown
  BY <1>1, <1>2 DEF getFilecap, Known, SinglesStay
<1> QED
  BY <1>1, <1>2, <1>4, <1>5, <1>6

\* From the answer of detectFiletype to the result.
LEMMA DetectedFilesInv ==
  ASSUME FilesInv, NEW l \in Lookups, FileDetected(l)
  PROVE  FilesInv'
<1> DEFINE e == lookup[l].extension
           found == lookup[l].detected
           def == Completed(getFilecap(e), found)
           info == Info(e, def, found)
<1>1. /\ e \in Singles \cup Doubles /\ found \in Detected
      /\ FileInfoTypeOK /\ SinglesStay
  BY DEF FilesInv, FileInfoTypeOK
<1>2. /\ Key(e) = KeyOf(e) /\ DOMAIN filecap = DOMAIN Rows
      /\ getFilecap(e) \in Row
      /\ Shared(e) => Key(e) = e /\ e \in Doubles \cap DOMAIN Rows /\ getFilecap(e) = filecap[e]
      /\ KeyOf(e) \in Singles =>
           getFilecap(e) = IF KeyOf(e) \in DOMAIN Rows THEN Rows[KeyOf(e)] ELSE Unknown
  BY <1>1, RecordFound
<1>3. /\ def \in Row /\ def.category \notin {Absent, ""}
      /\ def.category = getFilecap(e).category \/ getFilecap(e).category \in {Absent, "", "video"}
      /\ \/ def.mimetype = getFilecap(e).mimetype
         \/ getFilecap(e).mimetype \in {Absent, ""}
         \/ def.mimetype = "aplication/octet-stream"
  BY <1>1, <1>2, CompletedRow
<1>4. info \in Row /\ info.category \notin {Absent, ""}
  BY <1>1, <1>3, InfoRow DEF Info
<1>5. KeyOf(e) \in Singles => info = Answer(e, found)
  BY <1>2 DEF Info, Answer, Known
<1>6. /\ lookup' = [lookup EXCEPT ![l].pc = "done", ![l].info = info]
      /\ filecap' = IF Shared(e) THEN [filecap EXCEPT ![Key(e)] = def] ELSE filecap
  BY DEF FileDetected
<1> HIDE DEF info, def
<1>7. /\ lookup'[l].pc = "done" /\ lookup'[l].info = info
      /\ lookup'[l].extension = e /\ lookup'[l].detected = found
      /\ \A k \in Lookups \ {l} : lookup'[k] = lookup[k]
      /\ lookup' \in [Lookups -> [pc : {"idle", "detecting", "done"}, extension : Singles \cup Doubles,
                                  detected : Detected, info : Row]]
  <2>1. lookup[l] = [pc |-> lookup[l].pc, extension |-> e, detected |-> found, info |-> lookup[l].info]
    BY DEF FilesInv, FileInfoTypeOK
  <2>2. lookup' = [lookup EXCEPT ![l] = [pc |-> "done", extension |-> e, detected |-> found, info |-> info]]
    <3>1. [[lookup[l] EXCEPT !.pc = "done"] EXCEPT !.info = info]
            = [pc |-> "done", extension |-> e, detected |-> found, info |-> info]
      <4> DEFINE p == lookup[l].pc
                 i == lookup[l].info
      <4>1. lookup[l] = [pc |-> p, extension |-> e, detected |-> found, info |-> i]
        BY <2>1
      <4> HIDE DEF p, i, e, found, info
      <4>2. \A r : r = [pc |-> p, extension |-> e, detected |-> found, info |-> i]
                 => [r EXCEPT !.pc = "done"]
                      = [pc |-> "done", extension |-> e, detected |-> found, info |-> i]
        OBVIOUS
      <4>3. [[pc |-> "done", extension |-> e, detected |-> found, info |-> i] EXCEPT !.info = info]
              = [pc |-> "done", extension |-> e, detected |-> found, info |-> info]
        OBVIOUS
      <4>4. [lookup[l] EXCEPT !.pc = "done"]
              = [pc |-> "done", extension |-> e, detected |-> found, info |-> i]
        BY <4>1, <4>2, Zenon
      <4> QED
        BY <4>3, <4>4, Zenon
    <3>2. lookup' = [lookup EXCEPT ![l] = [[lookup[l] EXCEPT !.pc = "done"] EXCEPT !.info = info]]
      BY <1>6 DEF FilesInv, FileInfoTypeOK
    <3> QED
      BY <3>1, <3>2
  <2> QED
    BY <1>1, <1>4, <2>2 DEF FilesInv, FileInfoTypeOK
<1>8. /\ filecap' \in [DOMAIN Rows -> Row]
      /\ \A k \in DOMAIN Rows : filecap'[k] = IF Shared(e) /\ k = e THEN def ELSE filecap[k]
  BY <1>2, <1>3, <1>6 DEF FilesInv, FileInfoTypeOK
<1>9. SinglesStay'
  BY <1>1, <1>2, <1>8, FileInfoAssumption DEF SinglesStay
<1>10. CategoryKept'
  <2> SUFFICES ASSUME NEW k \in Doubles \cap DOMAIN Rows
               PROVE  /\ \/ filecap'[k].category = Rows[k].category
                         \/ Rows[k].category \in {Absent, "", "video"}
                      /\ \/ filecap'[k].mimetype = Rows[k].mimetype
                         \/ Rows[k].mimetype \in {Absent, ""}
                         \/ filecap'[k].mimetype = "aplication/octet-stream"
    BY DEF CategoryKept
  <2>1. /\ \/ filecap[k].category = Rows[k].category
           \/ Rows[k].category \in {Absent, "", "video"}
        /\ \/ filecap[k].mimetype = Rows[k].mimetype
           \/ Rows[k].mimetype \in {Absent, ""}
           \/ filecap[k].mimetype = "aplication/octet-stream"
    BY DEF FilesInv, CategoryKept
  <2>2. CASE ~(Shared(e) /\ k = e)
    BY <1>8, <2>1, <2>2
  <2>3. CASE Shared(e) /\ k = e
    <3>1. filecap'[k] = def /\ getFilecap(e) = filecap[k]
      BY <1>2, <1>8, <2>3
    <3> QED
      BY <1>3, <2>1, <3>1 DEF Absent
  <2> QED
    BY <2>2, <2>3
<1>11. AlwaysCategorised'
  BY <1>4, <1>7 DEF FilesInv, AlwaysCategorised, Done
<1>12. FileInfoTypeOK'
  BY <1>7, <1>8 DEF FileInfoTypeOK
<1>13. \A k \in Lookups : Done(k)' /\ KeyOf(lookup'[k].extension) \in Singles =>
         lookup'[k].info = Answer(lookup'[k].extension, lookup'[k].detected)
  BY <1>5, <1>7 DEF FilesInv, Done
<1> QED
  BY <1>9, <1>10, <1>11, <1>12, <1>13 DEF FilesInv

\* At the start.
LEMMA InitFilesInv == FileInfoInit => FilesInv
<1> SUFFICES ASSUME FileInfoInit PROVE FilesInv
  OBVIOUS
<1>1. Unknown \in Row
  BY DEF Unknown, Row, Category, Mimetype, Capability, Absent
<1>2. (CHOOSE e \in Singles : TRUE) \in Singles
  BY FileInfoAssumption
<1>3. (CHOOSE d \in Detected : TRUE) \in Detected
  <2>1. [mimetype |-> "", is_text |-> FALSE] \in Detected
    BY DEF Detected
  <2> QED
    BY <2>1
<1>4. NoLookup \in [pc : {"idle", "detecting", "done"}, extension : Singles \cup Doubles,
                    detected : Detected, info : Row]
  BY <1>1, <1>2, <1>3 DEF NoLookup
<1>5. FileInfoTypeOK
  BY <1>4, FileInfoAssumption DEF FileInfoInit, FileInfoTypeOK
<1>6. \A l \in Lookups : ~Done(l)
  BY DEF FileInfoInit, Done, NoLookup
<1> QED
  BY <1>5, <1>6 DEF FileInfoInit, FilesInv, SinglesStay, CategoryKept, AlwaysCategorised

\* Every step.
LEMMA NextFilesInv ==
  ASSUME FilesInv, [FileInfoNext]_fileInfoVars
  PROVE  FilesInv'
<1>1. ASSUME NEW l \in Lookups, NEW e \in Singles \cup Doubles, NEW found \in Detected,
             getFileinfo(l, e, found)
      PROVE  FilesInv'
  <2>1. /\ filecap' = filecap
        /\ lookup' = [lookup EXCEPT ![l] = [pc |-> "detecting", extension |-> e, detected |-> found,
                                            info |-> Unknown]]
    BY <1>1 DEF getFileinfo
  <2>2. Unknown \in Row
    BY DEF Unknown, Row, Category, Mimetype, Capability, Absent
  <2>3. FileInfoTypeOK'
    BY <2>1, <2>2 DEF FilesInv, FileInfoTypeOK
  <2>4. lookup'[l].pc = "detecting" /\ \A k \in Lookups \ {l} : lookup'[k] = lookup[k]
    BY <2>1 DEF FilesInv, FileInfoTypeOK
  <2> QED
    BY <2>1, <2>3, <2>4 DEF FilesInv, SinglesStay, CategoryKept, AlwaysCategorised, Done
<1>2. CASE FilecapReloaded
  BY <1>2, FileInfoAssumption
     DEF FilecapReloaded, FilesInv, FileInfoTypeOK, SinglesStay, CategoryKept, AlwaysCategorised, Done
<1>3. CASE UNCHANGED fileInfoVars
  BY <1>3 DEF fileInfoVars, FilesInv, FileInfoTypeOK, SinglesStay, CategoryKept, AlwaysCategorised, Done
<1> QED
  BY <1>1, <1>2, <1>3, DetectedFilesInv DEF FileInfoNext

\* What it is for.
LEMMA FilesInvImplies == FilesInv => FilesKeptApart
<1> SUFFICES ASSUME FilesInv PROVE SameFileSameAnswer
  BY DEF FilesInv, FilesKeptApart
<1>1. \A l \in Lookups : Key(lookup[l].extension) = KeyOf(lookup[l].extension)
  BY RecordFound DEF FilesInv, FileInfoTypeOK
<1> QED
  BY <1>1 DEF FilesInv, SameFileSameAnswer

\* Lookups that share records of the cache do not tell of one file what they
\* found in another, and leave the table's columns as they are.
THEOREM FilesStayApart == FileInfoSpec => []FilesKeptApart
BY InitFilesInv, NextFilesInv, FilesInvImplies, PTL DEF FileInfoSpec

-----------------------------------------------------------------------------
(* What a model shows of itself.                                            *)

Sys == SysValues(cleaned.by)

\* Objects hold what they may, and only an object that is no array has lost an
\* item; attributes and their copy are no arrays.
HeapShaped(h) ==
  /\ h \in [Id -> [isArray : BOOLEAN, items : Seq(Item)]]
  /\ ~h["attributes"].isArray /\ ~h["json"].isArray
  /\ \A id \in Id : \A i \in DOMAIN h[id].items :
       /\ h[id].items[i].value \in Holds(id) \cup {"gone"}
       /\ h[id].isArray => h[id].items[i].value # "gone"

\* An item that sanitize may leave as it is.
TidyItem(h, sys, id, i) ==
  /\ ~Matches(h, h[id].items[i].value, sys)
  /\ h[id].items[i].sysKey /\ ~h[id].isArray => h[id].items[i].value = "gone"
Tidy(h, sys, id) == \A i \in DOMAIN h[id].items : TidyItem(h, sys, id, i)

\* A value from which nothing more is to be stripped, at any depth.
Whole(h, sys, v) ==
  v \in Id => /\ Tidy(h, sys, v)
              /\ \A i \in DOMAIN h[v].items :
                   h[v].items[i].value \in Id => Tidy(h, sys, h[v].items[i].value)

\* The call for an object was made at the item before the one that its caller
\* stands at, and every call comes from the one for the copy.
Called(caller, id) ==
  /\ at[caller] \in 2..(Len(heap[caller].items) + 1)
  /\ heap[caller].items[at[caller] - 1].value = id
Nested ==
  /\ at["attributes"] = 0
  /\ at["object"] # 0 => Called("json", "object")
  /\ at["array"] # 0 => IF at["object"] # 0 THEN Called("object", "array") ELSE Called("json", "array")

\* What a call has behind it, it leaves as it is, but for the object whose call
\* it waits for.
Behind(id) ==
  at[id] # 0 =>
    /\ ~Matches(heap, id, Sys)
    /\ \A i \in DOMAIN heap[id].items : i < at[id] =>
         LET v == heap[id].items[i].value IN
         /\ TidyItem(heap, Sys, id, i)
         /\ Whole(heap, Sys, v) \/ (i = at[id] - 1 /\ v \in Id /\ at[v] # 0)

SanitizerInv ==
  /\ SanitizerTypeOK /\ HeapShaped(heap) /\ OwnAttributesKept
  /\ Nested /\ \A id \in Id : Behind(id)
  /\ ~Idle => cleaned.outcome = "none"
  /\ CleanIsClean /\ ThrowsOnLaterPath

\* In g, the item k of the object id of h has another value.
Written(h, g, id, k, w) ==
  /\ g \in [Id -> [isArray : BOOLEAN, items : Seq(Item)]]
  /\ \A o \in Id \ {id} : g[o] = h[o]
  /\ g[id].isArray = h[id].isArray /\ DOMAIN g[id].items = DOMAIN h[id].items
  /\ Len(g[id].items) = Len(h[id].items)
  /\ \A i \in DOMAIN h[id].items \ {k} : g[id].items[i] = h[id].items[i]
  /\ g[id].items[k] = [sysKey |-> h[id].items[k].sysKey, value |-> w]

\* As said.
LEMMA ItemWritten ==
  ASSUME NEW h, HeapShaped(h), NEW id \in Id, NEW k \in DOMAIN h[id].items,
         NEW w \in Leaf \cup Id \cup {"gone"}, NEW g, g = [h EXCEPT ![id].items[k].value = w]
  PROVE  Written(h, g, id, k, w)
<1> DEFINE items == h[id].items
           new == [items EXCEPT ![k] = [sysKey |-> items[k].sysKey, value |-> w]]
           rec == [isArray |-> h[id].isArray, items |-> new]
<1>1. /\ items \in Seq(Item) /\ items[k] \in Item
      /\ h[id] = [isArray |-> h[id].isArray, items |-> items]
      /\ h[id].isArray \in BOOLEAN
  BY DEF HeapShaped
<1>2. new \in Seq(Item) /\ Len(new) = Len(items) /\ DOMAIN new = DOMAIN items
  <2>1. [sysKey |-> items[k].sysKey, value |-> w] \in Item
    BY <1>1 DEF Item
  <2> HIDE DEF items
  <2> QED
    BY <1>1, <2>1
<1>3. [items[k] EXCEPT !.value = w] = [sysKey |-> items[k].sysKey, value |-> w]
  BY <1>1 DEF Item
<1>4. g = [h EXCEPT ![id] = rec]
  <2>1. [h[id] EXCEPT !.items = new] = rec
    <3> DEFINE a == h[id].isArray
    <3>1. h[id] = [isArray |-> a, items |-> items]
      BY <1>1
    <3> HIDE DEF new, items, a
    <3>2. [[isArray |-> a, items |-> items] EXCEPT !.items = new] = [isArray |-> a, items |-> new]
      OBVIOUS
    <3>3. [h[id] EXCEPT !.items = new] = [isArray |-> a, items |-> new]
      BY <3>1, <3>2, Zenon
    <3> QED
      BY <3>3 DEF a
  <2>2. g = [h EXCEPT ![id] = [h[id] EXCEPT !.items = [items EXCEPT ![k] = [items[k] EXCEPT !.value = w]]]]
    BY DEF HeapShaped
  <2> QED
    BY <2>1, <2>2, <1>3
<1>5. rec \in [isArray : BOOLEAN, items : Seq(Item)]
  BY <1>1, <1>2
<1>6. \A i \in DOMAIN items : new[i] = IF i = k THEN [sysKey |-> items[k].sysKey, value |-> w] ELSE items[i]
  BY <1>1
<1> HIDE DEF new
<1>7. rec.isArray = h[id].isArray /\ rec.items = new
  OBVIOUS
<1> HIDE DEF rec
<1>8. /\ g \in [Id -> [isArray : BOOLEAN, items : Seq(Item)]]
      /\ g[id] = rec /\ \A o \in Id \ {id} : g[o] = h[o]
  <2>1. h \in [Id -> [isArray : BOOLEAN, items : Seq(Item)]]
    BY DEF HeapShaped
  <2> DEFINE Objects == [isArray : BOOLEAN, items : Seq(Item)]
  <2>2. h \in [Id -> Objects] /\ rec \in Objects
    BY <1>5, <2>1
  <2> HIDE DEF Objects
  <2>3. g \in [Id -> Objects] /\ g[id] = rec /\ \A o \in Id \ {id} : g[o] = h[o]
    BY <1>4, <2>2
  <2> QED
    BY <2>3 DEF Objects
<1>9. g[id].isArray = h[id].isArray /\ g[id].items = new
  BY <1>7, <1>8
<1>10. new[k] = [sysKey |-> items[k].sysKey, value |-> w] /\ \A i \in DOMAIN items \ {k} : new[i] = items[i]
  BY <1>6
<1>11. Len(g[id].items) = Len(items) /\ DOMAIN g[id].items = DOMAIN items
  BY <1>2, <1>9
<1>12. g[id].items[k] = [sysKey |-> items[k].sysKey, value |-> w]
  BY <1>9, <1>10
<1>13. \A i \in DOMAIN items \ {k} : g[id].items[i] = items[i]
  BY <1>9, <1>10
<1> QED
  BY <1>8, <1>9, <1>11, <1>12, <1>13, Zenon DEF Written

\* Nothing that is matched is an object or was deleted.
LEMMA SysPlain ==
  ASSUME NEW class \in {"logger", "model"}
  PROVE  SysValues(class) \in SUBSET {"path", "undefined"} /\ (class = "logger" => SysValues(class) = {"path"})
<1>1. SysValues(class) = IF class = "logger" \/ RuntimeDirSet THEN {"path"} ELSE {"undefined"}
  BY DEF SysValues
<1>2. {"path"} \in SUBSET {"path", "undefined"} /\ {"undefined"} \in SUBSET {"path", "undefined"}
  OBVIOUS
<1> QED
  BY <1>1, <1>2, Zenon

\* What is deleted of an object that is no array changes what no value matches,
\* and spoils nothing that was tidy.
Kept(h, g, sys) ==
  /\ \A v : Matches(g, v, sys) <=> Matches(h, v, sys)
  /\ \A o \in Id : DOMAIN g[o].items = DOMAIN h[o].items
  /\ \A o \in Id : \A i \in DOMAIN h[o].items :
       /\ TidyItem(h, sys, o, i) => TidyItem(g, sys, o, i)
       /\ g[o].items[i].value \in {h[o].items[i].value, "gone"}
  /\ \A v : Whole(h, sys, v) => Whole(g, sys, v)

\* As said.
LEMMA DeletionKeeps ==
  ASSUME NEW h, HeapShaped(h), NEW id \in Id, ~h[id].isArray, NEW k \in DOMAIN h[id].items,
         NEW g, g = [h EXCEPT ![id].items[k].value = "gone"],
         NEW sys \in SUBSET {"path", "undefined"}
  PROVE  HeapShaped(g) /\ Kept(h, g, sys) /\ TidyItem(g, sys, id, k)
<1>1. /\ g \in [Id -> [isArray : BOOLEAN, items : Seq(Item)]]
      /\ \A o \in Id \ {id} : g[o] = h[o]
      /\ ~g[id].isArray /\ DOMAIN g[id].items = DOMAIN h[id].items
      /\ \A i \in DOMAIN h[id].items \ {k} : g[id].items[i] = h[id].items[i]
      /\ g[id].items[k] = [sysKey |-> h[id].items[k].sysKey, value |-> "gone"]
  <2>1. Written(h, g, id, k, "gone")
    BY ItemWritten DEF Item
  <2> QED
    BY <2>1 DEF Written
<1>2. \A v : Begin(g, v) = Begin(h, v)
  <2> SUFFICES ASSUME NEW v PROVE Begin(g, v) = Begin(h, v)
    OBVIOUS
  <2>1. CASE v = id
    BY <1>1, <2>1 DEF Begin
  <2>2. CASE v # id
    BY <1>1, <2>2 DEF Begin
  <2> QED
    BY <2>1, <2>2
<1>3. \A v : Matches(g, v, sys) <=> Matches(h, v, sys)
  BY <1>2 DEF Matches
<1>4. ~Matches(g, "gone", sys)
  BY DEF Matches, Begin, Id
<1>5. TidyItem(g, sys, id, k)
  BY <1>1, <1>4 DEF TidyItem
<1>6. \A o \in Id : /\ DOMAIN g[o].items = DOMAIN h[o].items /\ g[o].isArray = h[o].isArray
                    /\ \A i \in DOMAIN h[o].items :
                         /\ g[o].items[i] = h[o].items[i] \/ (o = id /\ i = k)
                         /\ g[o].items[i].value \in {h[o].items[i].value, "gone"}
  <2> TAKE o \in Id
  <2>1. CASE o = id
    BY <1>1, <2>1 DEF HeapShaped
  <2>2. CASE o # id
    BY <1>1, <2>2
  <2> QED
    BY <2>1, <2>2
<1>7. \A o \in Id : \A i \in DOMAIN h[o].items : TidyItem(h, sys, o, i) => TidyItem(g, sys, o, i)
  BY <1>3, <1>5, <1>6 DEF TidyItem
<1>8. \A o \in Id : Tidy(h, sys, o) => Tidy(g, sys, o)
  BY <1>6, <1>7 DEF Tidy
<1>9. \A v : Whole(h, sys, v) => Whole(g, sys, v)
  <2> SUFFICES ASSUME NEW v \in Id, Whole(h, sys, v) PROVE Whole(g, sys, v)
    BY DEF Whole
  <2>1. Tidy(g, sys, v)
    BY <1>8 DEF Whole
  <2>2. ASSUME NEW i \in DOMAIN g[v].items, g[v].items[i].value \in Id
        PROVE  Tidy(g, sys, g[v].items[i].value)
    <3>1. i \in DOMAIN h[v].items /\ g[v].items[i].value = h[v].items[i].value
      BY <1>6, <2>2 DEF Id
    <3> QED
      BY <1>8, <2>2, <3>1 DEF Whole
  <2> QED
    BY <2>1, <2>2 DEF Whole
<1>10. HeapShaped(g)
  <2>1. ~g["attributes"].isArray /\ ~g["json"].isArray
    BY <1>6 DEF HeapShaped, Id
  <2>2. ASSUME NEW o \in Id, NEW i \in DOMAIN g[o].items
        PROVE  /\ g[o].items[i].value \in Holds(o) \cup {"gone"}
               /\ g[o].isArray => g[o].items[i].value # "gone"
    <3>1. i \in DOMAIN h[o].items
      BY <1>6, <2>2
    <3>2. h[o].items[i].value \in Holds(o) \cup {"gone"}
      BY <3>1 DEF HeapShaped
    <3>3. CASE o = id
      BY <1>1, <1>6, <3>1, <3>2, <3>3
    <3>4. CASE o # id
      BY <1>1, <3>1, <3>4 DEF HeapShaped
    <3> QED
      BY <3>3, <3>4
  <2> QED
    BY <1>1, <2>1, <2>2 DEF HeapShaped
<1> QED
  BY <1>3, <1>5, <1>6, <1>7, <1>9, <1>10 DEF Kept

\* Before the program has shown anything.
LEMMA InitSanitizerInv == SanitizerInit => SanitizerInv
<1> SUFFICES ASSUME SanitizerInit PROVE SanitizerInv
  OBVIOUS
<1>1. heap = InitialHeap /\ sets = 0 /\ cleaned = [by |-> "logger", outcome |-> "none"]
  BY DEF SanitizerInit
<1>2. \A id \in Id : at[id] = 0
  BY DEF SanitizerInit
<1>3. SanitizerTypeOK
  <2>1. \A id \in Id : Len(heap[id].items) \in Nat
    BY <1>1, SanitizerAssumption
  <2> QED
    BY <1>1, <1>2, <2>1, SanitizerAssumption DEF SanitizerInit, SanitizerTypeOK
<1>4. \A id \in Id : "gone" \notin Holds(id)
  BY DEF Id, Holds, Leaf
<1>5. HeapShaped(heap)
  BY <1>1, <1>4, SanitizerAssumption DEF HeapShaped
<1>6. OwnAttributesKept
  BY <1>1, <1>4, SanitizerAssumption DEF OwnAttributesKept, ItemsOf, Id
<1>7. Nested /\ Idle /\ \A id \in Id : Behind(id)
  BY <1>2 DEF Nested, Idle, Behind, Id
<1>8. CleanIsClean /\ ThrowsOnLaterPath
  BY <1>1 DEF CleanIsClean, ThrowsOnLaterPath
<1> QED
  BY <1>3, <1>5, <1>6, <1>7, <1>8 DEF SanitizerInv

\* cleanData makes its copy and begins at its first item.
LEMMA CleaningInv ==
  ASSUME SanitizerInv, NEW class \in {"logger", "model"}, Cleaning(class, "json")
  PROVE  SanitizerInv'
<1>1. /\ heap' = [heap EXCEPT !["json"] = heap["attributes"]]
      /\ at' = [at EXCEPT !["json"] = 1]
      /\ cleaned' = [by |-> class, outcome |-> "none"] /\ sets' = sets
      /\ \A id \in Id : at[id] = 0
  BY DEF Cleaning, Idle
<1>2. /\ HeapShaped(heap) /\ "json" \in Id /\ "attributes" \in Id
      /\ Holds("json") = Holds("attributes") /\ at \in [Id -> Nat] /\ sets \in 0..MaxSets
  BY DEF SanitizerInv, SanitizerTypeOK, Id, Holds
<1>3. /\ heap'["json"] = heap["attributes"]
      /\ \A id \in Id \ {"json"} : heap'[id] = heap[id]
      /\ heap' \in [Id -> [isArray : BOOLEAN, items : Seq(Item)]]
  BY <1>1, <1>2 DEF HeapShaped
<1>4. at' \in [Id -> Nat] /\ at'["json"] = 1 /\ \A id \in Id \ {"json"} : at'[id] = 0
  BY <1>1, <1>2
<1>5. HeapShaped(heap')
  <2>1. ASSUME NEW id \in Id, NEW i \in DOMAIN heap'[id].items
        PROVE  /\ heap'[id].items[i].value \in Holds(id) \cup {"gone"}
               /\ heap'[id].isArray => heap'[id].items[i].value # "gone"
    <3>1. CASE id = "json"
      BY <1>2, <1>3, <2>1, <3>1 DEF HeapShaped
    <3>2. CASE id # "json"
      BY <1>2, <1>3, <2>1, <3>2 DEF HeapShaped
    <3> QED
      BY <3>1, <3>2
  <2>2. ~heap'["attributes"].isArray /\ ~heap'["json"].isArray
    BY <1>2, <1>3 DEF HeapShaped
  <2> QED
    BY <1>3, <2>1, <2>2 DEF HeapShaped
<1>6. SanitizerTypeOK'
  <2>1. \A id \in Id : Len(heap'[id].items) \in Nat
    BY <1>3
  <2>2. \A id \in Id : at'[id] <= Len(heap'[id].items) + 1
    BY <1>4, <2>1
  <2> QED
    BY <1>1, <1>2, <1>3, <1>4, <2>2 DEF SanitizerTypeOK
<1>7. OwnAttributesKept'
  BY <1>2, <1>3 DEF SanitizerInv, OwnAttributesKept, ItemsOf
<1>8. Nested'
  BY <1>4 DEF Nested, Id
<1>9. \A id \in Id : Behind(id)'
  <2>1. Behind("json")'
    <3>1. ~Matches(heap', "json", Sys')
      <4>1. ~heap'["json"].isArray
        BY <1>5 DEF HeapShaped
      <4>2. "text" \notin Id /\ "text" \notin Sys'
        <5>1. Sys' = SysValues(class)
          BY <1>1 DEF Sys
        <5> QED
          BY <5>1, SysPlain DEF Id
      <4> QED
        BY <4>1, <4>2, <1>2 DEF Matches, Begin
    <3>2. \A i \in DOMAIN heap'["json"].items : ~(i < at'["json"])
      <4>1. \A q \in Seq(Item) : \A i \in DOMAIN q : i \in Nat /\ ~(i < 1)
        OBVIOUS
      <4>2. heap'["json"].items \in Seq(Item)
        BY <1>2, <1>3
      <4> QED
        BY <1>4, <4>1, <4>2
    <3> QED
      BY <3>1, <3>2 DEF Behind
  <2>2. \A id \in Id \ {"json"} : Behind(id)'
    BY <1>4 DEF Behind
  <2> QED
    BY <2>1, <2>2
<1>10. cleaned'.outcome = "none"
  BY <1>1
<1>11. CleanIsClean' /\ ThrowsOnLaterPath'
  BY <1>10 DEF CleanIsClean, ThrowsOnLaterPath
<1> QED
  BY <1>5, <1>6, <1>7, <1>8, <1>9, <1>10, <1>11 DEF SanitizerInv

\* A call that waits for none: it works on what was made for this, and leaves
\* nothing behind.
Working(id) ==
  /\ id \in {"json", "object", "array"} /\ cleaned.outcome = "none"
  /\ heap[id].items \in Seq(Item) /\ at \in [Id -> Nat] /\ at[id] \in 1..(Len(heap[id].items) + 1)
  /\ ~Matches(heap, id, Sys)
  /\ \A i \in DOMAIN heap[id].items :
       i < at[id] => TidyItem(heap, Sys, id, i) /\ Whole(heap, Sys, heap[id].items[i].value)
  /\ \A i \in DOMAIN heap[id].items :
       heap[id].items[i].value \in Id => at[heap[id].items[i].value] = 0

\* As said.
LEMMA InnermostWorks ==
  ASSUME SanitizerInv, NEW id \in Id, Innermost(id)
  PROVE  Working(id)
<1>1. id \in {"json", "object", "array"}
  BY DEF SanitizerInv, Nested, Innermost, Id
<1>2. cleaned.outcome = "none"
  BY DEF SanitizerInv, Idle, Innermost
<1>3. heap[id].items \in Seq(Item) /\ at \in [Id -> Nat] /\ at[id] \in 1..(Len(heap[id].items) + 1)
  <2>1. heap[id].items \in Seq(Item) /\ at \in [Id -> Nat] /\ at[id] <= Len(heap[id].items) + 1
    BY DEF SanitizerInv, SanitizerTypeOK
  <2>2. at[id] # 0
    BY DEF Innermost
  <2>3. Len(heap[id].items) \in Nat /\ at[id] \in Nat
    BY <2>1
  <2> QED
    BY <2>1, <2>2, <2>3
<1>4. \A i \in DOMAIN heap[id].items :
        heap[id].items[i].value \in Id => at[heap[id].items[i].value] = 0
  <2>1. \A i \in DOMAIN heap[id].items : heap[id].items[i].value \in Holds(id) \cup {"gone"}
    BY DEF SanitizerInv, HeapShaped
  <2>2. "gone" \notin Id
    BY DEF Id
  <2> QED
    BY <2>1, <2>2 DEF Innermost
<1>5. Behind(id) /\ at[id] # 0
  BY DEF SanitizerInv, Innermost
<1> QED
  BY <1>1, <1>2, <1>3, <1>4, <1>5 DEF Working, Behind

\* What a set of objects holds.
Among(v, ids) ==
  v \in ids \/ (v \in Id /\ \E id \in ids : \E i \in DOMAIN heap[id].items : heap[id].items[i].value = v)

\* As said.
LEMMA HeldMeans == ASSUME NEW ids PROVE \A v : v \in HeldBy(ids) <=> Among(v, ids)
BY DEF HeldBy, ItemsOf, Among

\* An object whose items are whole is tidy at every depth.
LEMMA TidyAllOver ==
  ASSUME NEW sys, Whole(heap, sys, "json"),
         \A i \in DOMAIN heap["json"].items : Whole(heap, sys, heap["json"].items[i].value)
  PROVE  \A id \in InJson : id \in Id /\ Tidy(heap, sys, id)
<1>1. \A v \in HeldBy({"json"}) : v \in Id /\ Whole(heap, sys, v)
  BY HeldMeans DEF Among, Id
<1>2. \A v \in InJson : v \in Id /\ Tidy(heap, sys, v)
  <2> SUFFICES ASSUME NEW v \in InJson PROVE v \in Id /\ Tidy(heap, sys, v)
    OBVIOUS
  <2>1. Among(v, HeldBy({"json"}))
    BY HeldMeans DEF InJson
  <2> QED
    BY <1>1, <2>1 DEF Among, Whole
<1> QED
  BY <1>2

\* At the end of its items, a call leaves its object whole.
LEMMA ReturnsInv ==
  ASSUME SanitizerInv, NEW id \in Id, SanitizeReturns(id)
  PROVE  SanitizerInv'
<1>1. /\ Innermost(id) /\ at[id] > Len(heap[id].items)
      /\ at' = [at EXCEPT ![id] = 0] /\ heap' = heap /\ sets' = sets
      /\ cleaned' = IF \A other \in Id \ {id} : at[other] = 0 THEN [cleaned EXCEPT !.outcome = "clean"]
                    ELSE cleaned
  BY DEF SanitizeReturns
<1>2. Working(id)
  BY <1>1, InnermostWorks
<1>3. /\ at' \in [Id -> Nat] /\ at'[id] = 0 /\ \A o \in Id \ {id} : at'[o] = at[o]
  <2>1. at \in [Id -> Nat] /\ 0 \in Nat
    BY <1>2 DEF Working
  <2> QED
    BY <1>1, <2>1
<1>4. Whole(heap, Sys, id)
  <2>1. \A i \in DOMAIN heap[id].items : i < at[id]
    <3>1. \A q \in Seq(Item) : Len(q) \in Nat /\ \A i \in DOMAIN q : i \in Nat /\ i <= Len(q)
      OBVIOUS
    <3> QED
      BY <1>1, <1>2, <3>1 DEF Working
  <2>2. \A i \in DOMAIN heap[id].items :
          TidyItem(heap, Sys, id, i) /\ Whole(heap, Sys, heap[id].items[i].value)
    BY <1>2, <2>1 DEF Working
  <2> QED
    BY <2>2, Zenon DEF Whole, Tidy
<1>5. cleaned'.by = cleaned.by /\ Sys' = Sys
  BY <1>1 DEF SanitizerInv, SanitizerTypeOK, Sys
<1>6. SanitizerTypeOK'
  <2>1. cleaned' \in [by : {"logger", "model"}, outcome : {"none", "clean", "threw"}]
    BY <1>1 DEF SanitizerInv, SanitizerTypeOK
  <2>2. \A o \in Id : Len(heap[o].items) \in Nat
    BY DEF SanitizerInv, SanitizerTypeOK
  <2>3. \A o \in Id : at'[o] <= Len(heap'[o].items) + 1
    BY <1>1, <1>3, <2>2 DEF SanitizerInv, SanitizerTypeOK
  <2> QED
    BY <1>1, <1>3, <2>1, <2>3 DEF SanitizerInv, SanitizerTypeOK
<1>7. HeapShaped(heap') /\ OwnAttributesKept'
  BY <1>1 DEF SanitizerInv, OwnAttributesKept, ItemsOf
<1>8. Nested'
  <2>1. id = "json" => at["object"] = 0 /\ at["array"] = 0
    BY <1>1 DEF Innermost, Holds, Id
  <2>2. id = "object" => at["array"] = 0
    BY <1>1 DEF Innermost, Holds, Id
  <2>3. \A caller, o \in Id : caller # id /\ Called(caller, o) => Called(caller, o)'
    BY <1>1, <1>3 DEF Called
  <2> QED
    BY <1>2, <1>3, <2>1, <2>2, <2>3 DEF SanitizerInv, Nested, Working, Id
<1>9. \A o \in Id : Behind(o)'
  <2> SUFFICES ASSUME NEW o \in Id, at'[o] # 0 PROVE Behind(o)'
    BY DEF Behind
  <2>1. o # id /\ at'[o] = at[o] /\ Behind(o)
    BY <1>3 DEF SanitizerInv
  <2>2. ~Matches(heap', o, Sys')
    BY <1>1, <1>5, <2>1 DEF Behind
  <2>3. ASSUME NEW i \in DOMAIN heap[o].items, i < at[o]
        PROVE  LET v == heap[o].items[i].value IN
               /\ TidyItem(heap, Sys, o, i)
               /\ Whole(heap, Sys, v) \/ (i = at[o] - 1 /\ v \in Id /\ at'[v] # 0)
    BY <1>3, <1>4, <2>1, <2>3 DEF Behind
  <2> QED
    BY <1>1, <1>5, <2>1, <2>2, <2>3 DEF Behind
<1>10. ~Idle' => cleaned'.outcome = "none"
  <2>1. ASSUME NEW o \in Id, at'[o] # 0 PROVE cleaned' = cleaned
    BY <1>1, <1>3, <2>1
  <2> QED
    BY <1>2, <2>1 DEF Idle, Working
<1>11. CleanIsClean'
  <2> SUFFICES ASSUME cleaned' = [by |-> "logger", outcome |-> "clean"]
               PROVE  CleanIsClean'
    BY DEF CleanIsClean
  <2>1. \A o \in Id \ {id} : at[o] = 0
    BY <1>1, <1>2 DEF Working
  <2>2. id = "json"
    <3>1. Called("json", "object") => at["json"] # 0
      BY <1>2 DEF Called, Working, Id
    <3>2. Called("json", "array") => at["json"] # 0
      BY <1>2 DEF Called, Working, Id
    <3>3. id \in {"json", "object", "array"} /\ at[id] # 0
      BY <1>1, <1>2 DEF Working, Innermost
    <3> QED
      BY <2>1, <3>1, <3>2, <3>3 DEF SanitizerInv, Nested, Id
  <2>3. Sys = {"path"}
    BY <1>5, SysPlain DEF SanitizerInv, SanitizerTypeOK, Sys
  <2>4. \A i \in DOMAIN heap["json"].items : Whole(heap, Sys, heap["json"].items[i].value)
    <3>1. \A q \in Seq(Item) : Len(q) \in Nat /\ \A i \in DOMAIN q : i \in Nat /\ i <= Len(q)
      OBVIOUS
    <3> QED
      BY <1>1, <1>2, <2>2, <3>1 DEF Working
  <2>5. \A v \in InJson : v \in Id /\ Tidy(heap, {"path"}, v)
    BY <1>4, <2>2, <2>3, <2>4, TidyAllOver
  <2>6. ~Matches(heap, "path", {"path"}) = FALSE
    BY DEF Matches, Begin, Id
  <2>7. \A v \in InJson : \A item \in ItemsOf(v) :
          item.value # "path" /\ (item.sysKey /\ ~heap[v].isArray => item.value = "gone")
    BY <2>5, <2>6 DEF Tidy, TidyItem, ItemsOf
  <2>8. InJson' = InJson /\ \A v \in Id : ItemsOf(v)' = ItemsOf(v)
    BY <1>1 DEF InJson, HeldBy, ItemsOf
  <2> QED
    BY <1>1, <2>5, <2>7, <2>8 DEF CleanIsClean
<1>12. ThrowsOnLaterPath'
  <2>1. cleaned'.outcome # "threw"
    BY <1>1, <1>2 DEF Working, SanitizerInv, SanitizerTypeOK
  <2> QED
    BY <2>1 DEF ThrowsOnLaterPath
<1> QED
  BY <1>6, <1>7, <1>8, <1>9, <1>10, <1>11, <1>12 DEF SanitizerInv

\* A call that throws stands behind the first item of an array.
LEMMA ThrowsInv ==
  ASSUME SanitizerInv, NEW id \in Id, SanitizeThrows(id)
  PROVE  SanitizerInv'
<1>1. /\ Innermost(id) /\ at[id] <= Len(heap[id].items) /\ heap[id].isArray /\ Matched(id)
      /\ at' = [other \in Id |-> 0] /\ heap' = heap /\ sets' = sets
      /\ cleaned' = [cleaned EXCEPT !.outcome = "threw"]
  BY DEF SanitizeThrows
<1>2. Working(id)
  BY <1>1, InnermostWorks
<1>3. at' \in [Id -> Nat] /\ \A o \in Id : at'[o] = 0
  BY <1>1
<1>4. cleaned'.by = cleaned.by /\ cleaned'.outcome = "threw" /\ Sys' = Sys
  BY <1>1 DEF SanitizerInv, SanitizerTypeOK, Sys
<1>5. SanitizerTypeOK'
  <2>1. cleaned' \in [by : {"logger", "model"}, outcome : {"none", "clean", "threw"}]
    BY <1>1 DEF SanitizerInv, SanitizerTypeOK
  <2>2. \A o \in Id : Len(heap[o].items) \in Nat
    BY DEF SanitizerInv, SanitizerTypeOK
  <2> QED
    BY <1>1, <1>3, <2>1, <2>2 DEF SanitizerInv, SanitizerTypeOK
<1>6. HeapShaped(heap') /\ OwnAttributesKept'
  BY <1>1 DEF SanitizerInv, OwnAttributesKept, ItemsOf
<1>7. Nested' /\ Idle' /\ \A o \in Id : Behind(o)'
  BY <1>3 DEF Nested, Idle, Behind, Id
<1>8. CleanIsClean'
  BY <1>4 DEF CleanIsClean
<1>9. ThrowsOnLaterPath'
  <2> SUFFICES ASSUME cleaned' = [by |-> "logger", outcome |-> "threw"]
               PROVE  ThrowsOnLaterPath'
    BY DEF ThrowsOnLaterPath
  <2>1. Sys = {"path"}
    BY <1>4, SysPlain DEF SanitizerInv, SanitizerTypeOK, Sys
  <2>2. id \in {"object", "array"}
    BY <1>1, <1>2 DEF SanitizerInv, HeapShaped, Working
  <2>3. id \in InJson
    <3>1. \A o \in {"json", "object"} : at[o] \in Nat /\ heap[o].items \in Seq(Item)
      BY <1>2 DEF Working, SanitizerInv, SanitizerTypeOK, Id
    <3>2. \A q \in Seq(Item) : \A n \in 2..(Len(q) + 1) : n - 1 \in DOMAIN q
      OBVIOUS
    <3>3. \A o \in {"json", "object"}, v \in Id : Called(o, v) => Among(v, {o})
      BY <3>1, <3>2 DEF Called, Among
    <3>4. Among(id, {"json"}) \/ (Among("object", {"json"}) /\ Among(id, {"object"}))
      BY <1>1, <2>2, <3>3 DEF SanitizerInv, Nested, Innermost, Id
    <3>5. \A v : Among(v, {"json"}) => v \in HeldBy({"json"})
      BY HeldMeans
    <3>6. "json" \in HeldBy({"json"})
      BY HeldMeans DEF Among
    <3>7. Among(id, HeldBy({"json"}))
      BY <3>4, <3>5, <3>6, Zenon DEF Among
    <3> QED
      BY <3>7, HeldMeans DEF InJson
  <2>4. ASSUME NEW v \in Leaf \cup {"array", "gone"}, Matches(heap, v, {"path"}) PROVE IsPath(v)
    <3>1. CASE v = "array"
      <4>1. heap["array"].items # <<>> => heap["array"].items[1].value \in Leaf \cup {"gone"}
        <5>1. \A q \in Seq(Item) : q # <<>> => 1 \in DOMAIN q
          OBVIOUS
        <5>2. heap["array"].items \in Seq(Item) /\ "array" \in Id
          BY DEF SanitizerInv, SanitizerTypeOK, Id
        <5>3. heap["array"].items # <<>> =>
                heap["array"].items[1].value \in Holds("array") \cup {"gone"}
          BY <5>1, <5>2 DEF SanitizerInv, HeapShaped
        <5> QED
          BY <5>3 DEF Holds
      <4>2. "array" \in Id /\ "text" \notin Id /\ "undefined" \notin Id /\ "path" # "text"
        BY DEF Id
      <4>3. Begin(heap, "array") \notin Id
        <5> DEFINE first == heap["array"].items[1].value
        <5>1. heap["array"].items # <<>> => first \notin Id
          BY <4>1 DEF Leaf, Id
        <5>2. Begin(heap, "array") \in {first, "text"} /\ (heap["array"].items = <<>> => Begin(heap, "array") = "text")
          BY <4>2 DEF Begin
        <5> HIDE DEF first
        <5> QED
          BY <4>2, <5>1, <5>2
      <4>4. Begin(heap, Begin(heap, "array")) = Begin(heap, "array")
        BY <4>3, Zenon DEF Begin
      <4>5. Begin(heap, "array") = "path"
        BY <2>4, <3>1, <4>4 DEF Matches
      <4>6. heap["array"].isArray /\ heap["array"].items # <<>> /\ heap["array"].items[1].value = "path"
        BY <4>2, <4>5, Zenon DEF Begin
      <4> QED
        BY <3>1, <4>2, <4>6 DEF IsPath
    <3>2. CASE v # "array"
      <4>1. v \notin Id
        BY <3>2 DEF Leaf, Id
      <4> QED
        BY <2>4, <4>1 DEF Matches, Begin, IsPath
    <3> QED
      BY <3>1, <3>2
  <2>5. at[id] \in DOMAIN heap[id].items /\ heap[id].items # <<>>
    <3>1. \A q \in Seq(Item) : \A n \in 1..(Len(q) + 1) : n <= Len(q) => n \in DOMAIN q /\ q # <<>>
      OBVIOUS
    <3> QED
      BY <1>1, <1>2, <3>1 DEF Working
  <2>6. ~IsPath(heap[id].items[1].value)
    <3> DEFINE first == heap[id].items[1].value
    <3>1. Begin(heap, id) = IF first # "undefined" THEN first ELSE "text"
      BY <1>1, <2>5 DEF Begin
    <3>2. Begin(heap, Begin(heap, id)) # "path"
      <4>1. ~Matches(heap, id, {"path"})
        BY <1>2, <2>1, Zenon DEF Working
      <4> QED
        BY <4>1 DEF Matches
    <3>3. IsPath(first) => Begin(heap, first) = "path" /\ first # "undefined"
      BY DEF IsPath, Begin, Id
    <3> HIDE DEF first
    <3>4. ~IsPath(first)
      BY <3>1, <3>2, <3>3
    <3> QED
      BY <3>4 DEF first
  <2>7. IsPath(heap[id].items[at[id]].value)
    <3>1. heap[id].items[at[id]].value \in Leaf \cup {"array", "gone"}
      <4>1. heap[id].items[at[id]].value \in Holds(id) \cup {"gone"}
        BY <2>5 DEF SanitizerInv, HeapShaped
      <4>2. Holds(id) \subseteq Leaf \cup {"array"}
        BY <2>2 DEF Holds
      <4> QED
        BY <4>1, <4>2
    <3>2. Matches(heap, heap[id].items[at[id]].value, {"path"})
      BY <1>1, <2>1 DEF Matched, Sys
    <3> QED
      BY <2>4, <3>1, <3>2
  <2>8. InJson' = InJson /\ \A v : IsPath(v)' <=> IsPath(v)
    BY <1>1 DEF InJson, HeldBy, ItemsOf, IsPath
  <2> QED
    BY <1>1, <2>3, <2>5, <2>6, <2>7, <2>8 DEF ThrowsOnLaterPath
<1> QED
  BY <1>5, <1>6, <1>7, <1>8, <1>9 DEF SanitizerInv

\* What is deleted leaves whole what was, and the model its attributes.
LEMMA DeletesInv ==
  ASSUME SanitizerInv, NEW id \in Id, SanitizeDeletes(id)
  PROVE  SanitizerInv'
<1> DEFINE k == at[id]
<1>1. /\ Innermost(id) /\ k <= Len(heap[id].items) /\ ~heap[id].isArray
      /\ heap' = [heap EXCEPT ![id].items[k].value = "gone"]
      /\ at' = [at EXCEPT ![id] = @ + 1] /\ cleaned' = cleaned /\ sets' = sets
  BY DEF SanitizeDeletes
<1>2. Working(id)
  BY <1>1, InnermostWorks
<1>3. k \in DOMAIN heap[id].items /\ k \in Nat /\ k # 0
  <2>1. \A q \in Seq(Item) : \A n \in 1..(Len(q) + 1) : n <= Len(q) => n \in DOMAIN q /\ n \in Nat /\ n # 0
    OBVIOUS
  <2> QED
    BY <1>1, <1>2, <2>1 DEF Working
<1>4. Sys \in SUBSET {"path", "undefined"} /\ Sys' = Sys /\ HeapShaped(heap)
  BY <1>1, SysPlain DEF SanitizerInv, SanitizerTypeOK, Sys
<1>5. Written(heap, heap', id, k, "gone")
  BY <1>1, <1>3, <1>4, ItemWritten
<1>6. HeapShaped(heap') /\ Kept(heap, heap', Sys) /\ TidyItem(heap', Sys, id, k)
  BY <1>1, <1>3, <1>4, DeletionKeeps, Zenon
<1>7. /\ at' \in [Id -> Nat] /\ at'[id] = k + 1 /\ \A o \in Id \ {id} : at'[o] = at[o]
  BY <1>1, <1>2 DEF Working
<1>8. SanitizerTypeOK'
  <2>1. \A o \in Id : Len(heap'[o].items) = Len(heap[o].items) /\ Len(heap[o].items) \in Nat
    <3> TAKE o \in Id
    <3>1. Len(heap[o].items) \in Nat
      BY DEF SanitizerInv, SanitizerTypeOK
    <3>2. CASE o = id
      BY <1>5, <3>1, <3>2 DEF Written
    <3>3. CASE o # id
      BY <1>5, <3>1, <3>3 DEF Written
    <3> QED
      BY <3>2, <3>3
  <2>2. \A o \in Id : at'[o] <= Len(heap'[o].items) + 1
    BY <1>1, <1>3, <1>7, <2>1 DEF SanitizerInv, SanitizerTypeOK
  <2> QED
    BY <1>1, <1>5, <1>7, <2>2 DEF SanitizerInv, SanitizerTypeOK, Written
<1>9. OwnAttributesKept'
  <2>1. heap'["attributes"] = heap["attributes"]
    BY <1>2, <1>5 DEF Written, Working, Id
  <2> QED
    BY <2>1 DEF SanitizerInv, OwnAttributesKept, ItemsOf
<1>10. Nested'
  <2>1. id = "json" => at["object"] = 0 /\ at["array"] = 0
    BY <1>1 DEF Innermost, Holds, Id
  <2>2. id = "object" => at["array"] = 0
    BY <1>1 DEF Innermost, Holds, Id
  <2>3. \A caller, o \in Id : caller # id /\ Called(caller, o) => Called(caller, o)'
    BY <1>5, <1>7 DEF Called, Written
  <2> QED
    BY <1>2, <1>3, <1>7, <2>1, <2>2, <2>3 DEF SanitizerInv, Nested, Working, Id
<1>11. \A o \in Id : Behind(o)'
  <2> SUFFICES ASSUME NEW o \in Id, at'[o] # 0 PROVE Behind(o)'
    BY DEF Behind
  <2>1. at[o] # 0 /\ Behind(o) /\ at[o] \in Nat
    BY <1>2, <1>3, <1>7 DEF SanitizerInv, Working
  <2>2. ~Matches(heap', o, Sys')
    BY <1>4, <1>6, <2>1 DEF Behind, Kept
  <2>3. ASSUME NEW i \in DOMAIN heap[o].items, i < at'[o]
        PROVE  /\ TidyItem(heap', Sys, o, i)
               /\ \/ Whole(heap', Sys, heap'[o].items[i].value)
                  \/ /\ i = at'[o] - 1 /\ heap'[o].items[i].value \in Id
                     /\ at'[heap'[o].items[i].value] # 0
    <3>1. CASE o = id /\ i = k
      <4>1. heap'[o].items[i].value = "gone"
        BY <1>5, <3>1 DEF Written
      <4> QED
        BY <1>6, <3>1, <4>1 DEF Whole, Id
    <3>2. CASE o = id /\ i # k
      <4>1. heap'[o].items[i] = heap[o].items[i] /\ i < at[o]
        <5>1. \A q \in Seq(Item) : \A n \in DOMAIN q : n \in Nat
          OBVIOUS
        <5>2. i \in Nat
          BY <1>2, <3>2, <5>1 DEF Working
        <5> QED
          BY <1>3, <1>5, <1>7, <2>3, <3>2, <5>2 DEF Written
      <4> QED
        BY <1>2, <1>6, <3>2, <4>1 DEF Working, Kept
    <3>3. CASE o # id
      <4>1. heap'[o] = heap[o] /\ at'[o] = at[o]
        BY <1>5, <1>7, <3>3 DEF Written
      <4>2. \A v \in Id : at[v] # 0 => at'[v] # 0
        BY <1>3, <1>7
      <4> QED
        BY <1>6, <2>1, <2>3, <4>1, <4>2 DEF Behind, Kept
    <3> QED
      BY <3>1, <3>2, <3>3
  <2>4. DOMAIN heap'[o].items = DOMAIN heap[o].items
    BY <1>6 DEF Kept
  <2> QED
    BY <1>4, <2>2, <2>3, <2>4 DEF Behind
<1>12. cleaned'.outcome = "none"
  BY <1>1, <1>2 DEF Working
<1>13. CleanIsClean' /\ ThrowsOnLaterPath'
  BY <1>12 DEF CleanIsClean, ThrowsOnLaterPath
<1> QED
  BY <1>6, <1>8, <1>9, <1>10, <1>11, <1>12, <1>13 DEF SanitizerInv

\* What stays is sanitized next, and nothing else is.
LEMMA KeepsInv ==
  ASSUME SanitizerInv, NEW id \in Id, SanitizeKeeps(id)
  PROVE  SanitizerInv'
<1> PICK k, v : k = at[id] /\ v = heap[id].items[k].value
  OBVIOUS
<1>1. /\ Innermost(id) /\ k <= Len(heap[id].items) /\ heap' = heap
      /\ ~Matches(heap, v, Sys) /\ (heap[id].items[k].sysKey => heap[id].isArray)
      /\ at' = [o \in Id |-> IF o = id THEN k + 1 ELSE IF o = v THEN 1 ELSE at[o]]
      /\ cleaned' = cleaned /\ sets' = sets
  BY DEF SanitizeKeeps, Matched, Sys
<1>2. Working(id)
  BY <1>1, InnermostWorks
<1>3. k \in DOMAIN heap[id].items /\ k \in Nat /\ k # 0
  <2>1. \A q \in Seq(Item) : \A n \in 1..(Len(q) + 1) : n <= Len(q) => n \in DOMAIN q /\ n \in Nat /\ n # 0
    OBVIOUS
  <2> QED
    BY <1>1, <1>2, <2>1 DEF Working
<1>4. v \in Holds(id) \cup {"gone"} /\ (v \in Id => at[v] = 0) /\ v # id
  <2>1. v \in Holds(id) \cup {"gone"}
    BY <1>3 DEF SanitizerInv, HeapShaped
  <2>2. id \notin Holds(id) \cup {"gone"}
    BY DEF Holds, Id, Leaf
  <2> QED
    BY <1>2, <1>3, <2>1, <2>2 DEF Working
<1>5. /\ at' \in [Id -> Nat] /\ at'[id] = k + 1 /\ (v \in Id => at'[v] = 1)
      /\ \A o \in Id \ {id, v} : at'[o] = at[o]
  BY <1>1, <1>2, <1>3, <1>4 DEF Working
<1>6. SanitizerTypeOK'
  <2>1. \A o \in Id : Len(heap[o].items) \in Nat
    BY DEF SanitizerInv, SanitizerTypeOK
  <2>2. \A o \in Id : at'[o] <= Len(heap'[o].items) + 1
    BY <1>1, <1>3, <1>5, <2>1 DEF SanitizerInv, SanitizerTypeOK
  <2> QED
    BY <1>1, <1>5, <2>2 DEF SanitizerInv, SanitizerTypeOK
<1>7. HeapShaped(heap') /\ OwnAttributesKept' /\ Sys' = Sys
  BY <1>1 DEF SanitizerInv, OwnAttributesKept, ItemsOf, Sys
<1>8. Nested'
  <2>1. id = "json" => at["object"] = 0 /\ at["array"] = 0
    BY <1>1 DEF Innermost, Holds, Id
  <2>2. id = "object" => at["array"] = 0
    BY <1>1 DEF Innermost, Holds, Id
  <2>3. \A caller, o \in Id : caller \notin {id, v} /\ Called(caller, o) => Called(caller, o)'
    BY <1>1, <1>5 DEF Called
  <2>4. Called(id, v)' /\ at'[id] # 0
    <3>1. at'[id] \in 2..(Len(heap[id].items) + 1) /\ at'[id] - 1 = k
      BY <1>1, <1>2, <1>3, <1>5 DEF Working
    <3> QED
      BY <1>1, <3>1 DEF Called
  <2>5. v \in Id => \/ id = "json" /\ v \in {"object", "array"}
                    \/ id = "object" /\ v = "array"
    BY <1>2, <1>4 DEF Working, Holds, Leaf, Id
  <2>6. \A o \in Id : at[o] # 0 => o # v
    BY <1>4
  <2>7. CASE v \notin Id
    BY <1>2, <1>3, <1>5, <2>1, <2>2, <2>3, <2>7 DEF SanitizerInv, Nested, Working, Id
  <2>8. CASE id = "json" /\ v \in {"object", "array"}
    BY <1>5, <2>1, <2>4, <2>8 DEF SanitizerInv, Nested, Id
  <2>9. CASE id = "object" /\ v = "array"
    <3>1. Called("json", "object")'
      <4>1. Called("json", "object")
        BY <1>3, <2>9 DEF SanitizerInv, Nested
      <4> QED
        BY <2>3, <2>9, <4>1 DEF Id
    <3> QED
      BY <1>5, <2>4, <2>9, <3>1 DEF SanitizerInv, Nested, Id
  <2> QED
    BY <2>5, <2>7, <2>8, <2>9
<1>9. ASSUME NEW o \in Id, at'[o] # 0 PROVE Behind(o)'
  <2>1. ~Matches(heap', o, Sys')
    BY <1>1, <1>2, <1>5, <1>7, <1>9 DEF SanitizerInv, Behind, Working
  <2>2. ASSUME NEW i \in DOMAIN heap[o].items, i < at'[o]
        PROVE  /\ TidyItem(heap, Sys, o, i)
               /\ \/ Whole(heap, Sys, heap[o].items[i].value)
                  \/ /\ i = at'[o] - 1 /\ heap[o].items[i].value \in Id
                     /\ at'[heap[o].items[i].value] # 0
    <3>0. i \in Nat /\ ~(i < 1)
      <4>1. \A q \in Seq(Item) : \A n \in DOMAIN q : n \in Nat /\ ~(n < 1)
        OBVIOUS
      <4> QED
        BY <4>1 DEF SanitizerInv, SanitizerTypeOK
    <3>1. CASE o = id /\ i = k
      <4>1. heap[o].items[i].value = v /\ i = at'[o] - 1
        <5>1. k \in Nat /\ at'[id] = k + 1
          BY <1>3, <1>5
        <5>2. at'[o] = k + 1 /\ heap[o].items[i].value = v
          BY <3>1, <5>1, Zenon
        <5> QED
          BY <3>1, <5>1, <5>2
      <4>2. TidyItem(heap, Sys, o, i)
        BY <1>1, <3>1, <4>1 DEF TidyItem
      <4>3. v \notin Id => Whole(heap, Sys, v)
        BY DEF Whole
      <4> QED
        BY <1>5, <4>1, <4>2, <4>3
    <3>2. CASE o = id /\ i # k
      <4>1. i < k
        <5>1. k \in Nat /\ at'[id] = k + 1
          BY <1>3, <1>5
        <5>2. i < k + 1 /\ i # k
          BY <2>2, <3>2, <5>1, Zenon
        <5>3. \A m, n \in Nat : m < n + 1 /\ m # n => m < n
          OBVIOUS
        <5> QED
          BY <3>0, <5>1, <5>2, <5>3, Zenon
      <4>2. i < at[id] /\ i \in DOMAIN heap[id].items
        BY <3>2, <4>1, Zenon
      <4> QED
        BY <1>2, <3>2, <4>2, Zenon DEF Working
    <3>3. CASE o = v
      <4>1. at'[o] = 1
        BY <1>5, <3>3, Zenon
      <4> QED
        BY <2>2, <3>0, <4>1, Zenon
    <3>4. CASE o \notin {id, v}
      <4>1. at'[o] = at[o] /\ Behind(o)
        BY <1>5, <3>4 DEF SanitizerInv
      <4>2. \A w \in Id : at[w] # 0 => at'[w] # 0
        BY <1>3, <1>5
      <4> QED
        BY <1>9, <2>2, <4>1, <4>2 DEF Behind
    <3> QED
      BY <3>1, <3>2, <3>3, <3>4
  <2> QED
    BY <1>1, <1>7, <2>1, <2>2, Zenon DEF Behind
<1>10. \A o \in Id : Behind(o)'
  <2> SUFFICES ASSUME NEW o \in Id PROVE Behind(o)'
    OBVIOUS
  <2>1. CASE at'[o] = 0
    BY <2>1 DEF Behind
  <2> QED
    BY <1>9, <2>1
<1>11. cleaned'.outcome = "none"
  BY <1>1, <1>2 DEF Working
<1>12. CleanIsClean' /\ ThrowsOnLaterPath'
  BY <1>11 DEF CleanIsClean, ThrowsOnLaterPath
<1> QED
  BY <1>6, <1>7, <1>8, <1>10, <1>11, <1>12 DEF SanitizerInv

\* The program writes what an object may hold, and never a deleted item.
LEMMA SetItemInv ==
  ASSUME SanitizerInv, NEW id \in {"attributes", "object", "array"}, NEW k \in DOMAIN heap[id].items,
         NEW v \in Holds(id), SetItem(id, k, v)
  PROVE  SanitizerInv'
<1>1. /\ Idle /\ sets < MaxSets /\ sets' = sets + 1 /\ at' = at
      /\ heap' = [heap EXCEPT ![id].items[k].value = v]
      /\ cleaned' = [cleaned EXCEPT !.outcome = "none"]
  BY DEF SetItem
<1>2. id \in Id /\ HeapShaped(heap) /\ \A o \in Id : at[o] = 0
  BY <1>1 DEF SanitizerInv, Id, Idle
<1>3. v \in Leaf \cup Id /\ v # "gone"
  BY DEF Holds, Leaf, Id
<1>4. Written(heap, heap', id, k, v)
  BY <1>1, <1>2, <1>3, ItemWritten
<1>5. \A o \in Id : /\ DOMAIN heap'[o].items = DOMAIN heap[o].items
                    /\ Len(heap'[o].items) = Len(heap[o].items)
                    /\ heap'[o].isArray = heap[o].isArray
                    /\ \A i \in DOMAIN heap[o].items :
                         IF o = id /\ i = k THEN heap'[o].items[i].value = v
                         ELSE heap'[o].items[i] = heap[o].items[i]
  <2> TAKE o \in Id
  <2>1. CASE o = id
    BY <1>4, <2>1 DEF Written
  <2>2. CASE o # id
    BY <1>4, <2>2 DEF Written
  <2> QED
    BY <2>1, <2>2
<1>6. HeapShaped(heap')
  <2>1. ~heap'["attributes"].isArray /\ ~heap'["json"].isArray
    BY <1>2, <1>5 DEF HeapShaped, Id
  <2>2. ASSUME NEW o \in Id, NEW i \in DOMAIN heap'[o].items
        PROVE  /\ heap'[o].items[i].value \in Holds(o) \cup {"gone"}
               /\ heap'[o].isArray => heap'[o].items[i].value # "gone"
    <3>1. CASE o = id /\ i = k
      BY <1>3, <1>5, <2>2, <3>1
    <3>2. CASE ~(o = id /\ i = k)
      <4>1. i \in DOMAIN heap[o].items /\ heap'[o].items[i] = heap[o].items[i]
        BY <1>5, <2>2, <3>2
      <4>2. heap'[o].isArray = heap[o].isArray
        BY <1>5
      <4>3. /\ heap[o].items[i].value \in Holds(o) \cup {"gone"}
            /\ heap[o].isArray => heap[o].items[i].value # "gone"
        BY <1>2, <4>1 DEF HeapShaped
      <4> QED
        BY <4>1, <4>2, <4>3
    <3> QED
      BY <3>1, <3>2
  <2> QED
    BY <1>4, <2>1, <2>2 DEF HeapShaped, Written
<1>7. SanitizerTypeOK'
  <2>1. cleaned' \in [by : {"logger", "model"}, outcome : {"none", "clean", "threw"}]
    BY <1>1 DEF SanitizerInv, SanitizerTypeOK
  <2>2. sets' \in 0..MaxSets
    BY <1>1, SanitizerAssumption DEF SanitizerInv, SanitizerTypeOK
  <2>3. at' \in [Id -> Nat] /\ \A o \in Id : at'[o] <= Len(heap'[o].items) + 1
    BY <1>1, <1>5 DEF SanitizerInv, SanitizerTypeOK
  <2> QED
    BY <1>4, <2>1, <2>2, <2>3 DEF SanitizerTypeOK, Written
<1>8. OwnAttributesKept'
  <2>1. \A i \in DOMAIN heap'["attributes"].items : heap'["attributes"].items[i].value # "gone"
    BY <1>3, <1>5 DEF SanitizerInv, OwnAttributesKept, ItemsOf, Id
  <2> QED
    BY <2>1 DEF OwnAttributesKept, ItemsOf
<1>9. Nested' /\ \A o \in Id : Behind(o)'
  BY <1>1, <1>2 DEF Nested, Behind, Id
<1>10. cleaned'.outcome = "none"
  BY <1>1 DEF SanitizerInv, SanitizerTypeOK
<1>11. CleanIsClean' /\ ThrowsOnLaterPath'
  BY <1>10 DEF CleanIsClean, ThrowsOnLaterPath
<1> QED
  BY <1>6, <1>7, <1>8, <1>9, <1>10, <1>11 DEF SanitizerInv

\* Every step: of a call under way, or of the program when there is none.
LEMMA NextSanitizerInv ==
  ASSUME SanitizerInv, [SanitizerNext]_sanitizerVars
  PROVE  SanitizerInv'
<1>1. CASE cleanData \/ modelCleanData
  BY <1>1, CleaningInv DEF cleanData, modelCleanData
<1>2. ASSUME NEW id \in Id, sanitize(id) PROVE SanitizerInv'
  BY <1>2, ReturnsInv, ThrowsInv, DeletesInv, KeepsInv DEF sanitize
<1>3. ASSUME NEW id \in {"attributes", "object", "array"}, NEW i \in DOMAIN heap[id].items,
             NEW v \in Holds(id), SetItem(id, i, v)
      PROVE  SanitizerInv'
  BY <1>3, SetItemInv
<1>4. CASE UNCHANGED sanitizerVars
  <2>1. heap' = heap /\ at' = at /\ cleaned' = cleaned /\ sets' = sets
    BY <1>4 DEF sanitizerVars
  <2>2. SanitizerTypeOK' /\ HeapShaped(heap') /\ OwnAttributesKept'
    BY <2>1 DEF SanitizerInv, SanitizerTypeOK, OwnAttributesKept, ItemsOf
  <2>3. Nested' /\ (~Idle' => cleaned'.outcome = "none")
    BY <2>1 DEF SanitizerInv, Nested, Called, Idle
  <2>4. \A id \in Id : Behind(id)'
    BY <2>1 DEF SanitizerInv, Behind, Sys
  <2>5. CleanIsClean' /\ ThrowsOnLaterPath'
    <3>1. InJson' = InJson /\ \A v : (IsPath(v)' <=> IsPath(v)) /\ ItemsOf(v)' = ItemsOf(v)
      BY <2>1 DEF InJson, HeldBy, ItemsOf, IsPath
    <3> QED
      BY <2>1, <3>1 DEF SanitizerInv, CleanIsClean, ThrowsOnLaterPath
  <2> QED
    BY <2>2, <2>3, <2>4, <2>5 DEF SanitizerInv
<1> QED
  BY <1>1, <1>2, <1>3, <1>4 DEF SanitizerNext

\* Whatever is deleted has a system key, or is matched as what begins with a
\* path, or with undefined in a model whose environment lacks the directory.
LEMMA DeletesSecrets ==
  ASSUME SanitizerInv, [SanitizerNext]_sanitizerVars,
         NEW o \in {"object", "array"}, NEW i \in DOMAIN heap[o].items,
         heap[o].items[i].value = "text", ~heap[o].items[i].sysKey
  PROVE  heap'[o].items[i].value # "gone"
<1>1. HeapShaped(heap) /\ o \in Id
  BY DEF SanitizerInv, Id
<1>2. CASE cleanData \/ modelCleanData
  BY <1>1, <1>2 DEF cleanData, modelCleanData, Cleaning, HeapShaped
<1>3. ASSUME NEW id \in Id, sanitize(id) PROVE heap'[o].items[i].value # "gone"
  <2>1. CASE heap' = heap
    BY <2>1
  <2>2. CASE SanitizeDeletes(id)
    <3>1. /\ Innermost(id) /\ at[id] <= Len(heap[id].items) /\ ~heap[id].isArray
          /\ heap[id].items[at[id]].sysKey \/ Matches(heap, heap[id].items[at[id]].value, Sys)
          /\ heap' = [heap EXCEPT ![id].items[at[id]].value = "gone"]
      BY <2>2 DEF SanitizeDeletes, Matched, Sys
    <3>2. at[id] \in DOMAIN heap[id].items
      <4>1. \A q \in Seq(Item) : \A n \in 1..(Len(q) + 1) : n <= Len(q) => n \in DOMAIN q
        OBVIOUS
      <4> QED
        BY <3>1, <4>1, InnermostWorks DEF Working
    <3>3. Written(heap, heap', id, at[id], "gone")
      BY <1>1, <3>1, <3>2, ItemWritten
    <3>4. ~Matches(heap, "text", Sys)
      BY SysPlain DEF Matches, Begin, Id, Sys, SanitizerInv, SanitizerTypeOK
    <3>5. ~(o = id /\ i = at[id])
      BY <3>1, <3>4
    <3> QED
      BY <1>1, <3>3, <3>5 DEF Written
  <2> QED
    BY <1>3, <2>1, <2>2 DEF sanitize, SanitizeReturns, SanitizeThrows, SanitizeKeeps
<1>4. ASSUME NEW id \in {"attributes", "object", "array"}, NEW k \in DOMAIN heap[id].items,
             NEW v \in Holds(id), SetItem(id, k, v)
      PROVE  heap'[o].items[i].value # "gone"
  <2>1. v \in Leaf \cup Id /\ v # "gone" /\ id \in Id
    BY DEF Holds, Leaf, Id
  <2>2. Written(heap, heap', id, k, v)
    BY <1>1, <1>4, <2>1, ItemWritten DEF SetItem
  <2>3. CASE o = id /\ i = k
    <3>1. heap'[o].items[i] = [sysKey |-> heap[o].items[i].sysKey, value |-> v]
      BY <2>2, <2>3 DEF Written
    <3> QED
      BY <2>1, <3>1
  <2>4. CASE ~(o = id /\ i = k)
    <3>1. heap'[o].items[i] = heap[o].items[i]
      BY <1>1, <2>2, <2>4 DEF Written
    <3> QED
      BY <3>1
  <2> QED
    BY <2>3, <2>4
<1>5. CASE UNCHANGED sanitizerVars
  BY <1>5 DEF sanitizerVars
<1> QED
  BY <1>2, <1>3, <1>4, <1>5 DEF SanitizerNext

\* A model shows no system key and no system path, at any depth, or throws,
\* which it does for an array that holds a path behind its first item; and it
\* has its own attributes afterwards.
THEOREM ModelsShowClean == SanitizerSpec => [](CleanIsClean /\ ThrowsOnLaterPath /\ OwnAttributesKept)
<1>1. SanitizerInv => CleanIsClean /\ ThrowsOnLaterPath /\ OwnAttributesKept
  BY DEF SanitizerInv
<1> QED
  BY <1>1, InitSanitizerInv, NextSanitizerInv, PTL DEF SanitizerSpec

\* Of the objects that a model shares with what it shows, it loses nothing but
\* what had a system key or began with a path of the system.
THEOREM SharedObjectsLoseSecrets == SanitizerSpec => OnlySecretsStripped
<1>1. ASSUME SanitizerInv, [SanitizerNext]_sanitizerVars
      PROVE  [\A id \in {"object", "array"} : \A i \in DOMAIN heap[id].items :
                LET item == heap[id].items[i] IN
                item.value = "text" /\ ~item.sysKey => heap'[id].items[i].value # "gone"]_sanitizerVars
  BY <1>1, DeletesSecrets
<1> QED
  BY <1>1, InitSanitizerInv, NextSanitizerInv, PTL DEF SanitizerSpec, OnlySecretsStripped

-----------------------------------------------------------------------------
(* The options of models.                                                   *)

Client == {"none"} \cup Clients

\* A sender that the last payload did not take from its own request was in the
\* options, so these were somebody's before.
PayloadInv == PayloadTypeOK /\ ForeignSenderOnReuse

\* Options that are passed for the first time name nobody.
LEMMA NextPayloadInv ==
  ASSUME PayloadInv, [PayloadNext]_payloadVars
  PROVE  PayloadInv'
<1> USE DEF PayloadInv, PayloadTypeOK, ForeignSenderOnReuse
<1>1. ASSUME NEW client \in Clients, NEW reused \in BOOLEAN, NEW socket \in BOOLEAN,
             Payload(client, reused, socket),
             changelog' = changelog \/ changelog' = client
      PROVE  PayloadInv'
  <2> DEFINE opt == IF reused THEN options ELSE NoOptions
             out == [opt EXCEPT !.sender = SenderIn(opt, client, socket)]
  <2>1. opt \in [sender : Client, service : Client]
    BY DEF NoOptions, Client
  <2>2. /\ out \in [sender : Client, service : Client]
        /\ out.sender \in {client, opt.sender}
    <3>1. SenderIn(opt, client, socket) \in {client, opt.sender}
      BY DEF SenderIn
    <3>2. opt = [sender |-> opt.sender, service |-> opt.service]
      BY <2>1
    <3> HIDE DEF opt
    <3> QED
      BY <2>1, <3>1, <3>2 DEF Client
  <2>3. ~reused => opt.sender = "none"
    BY DEF NoOptions
  <2>4. /\ options' = IF reused THEN out ELSE options
        /\ payloadOf' = [by |-> client, reused |-> reused, sender |-> out.sender,
                         service |-> IF out.service = "none" THEN client ELSE out.service]
    BY <1>1 DEF Payload
  <2> HIDE DEF opt, out
  <2> QED
    BY <1>1, <2>2, <2>3, <2>4 DEF Client
<1>2. ASSUME NEW client \in Clients, NameService(client) PROVE PayloadInv'
  BY <1>2 DEF NameService
<1>3. CASE UNCHANGED payloadVars
  BY <1>3 DEF payloadVars
<1> QED
  BY <1>1, <1>2, <1>3 DEF PayloadNext, payload, modelPayload

\* A payload names somebody else than its request's sender only if the caller
\* passed options that had been passed before.
THEOREM SendersAreForeignOnReuse == PayloadSpec => []ForeignSenderOnReuse
<1>1. PayloadInit => PayloadInv
  BY DEF PayloadInit, NoOptions, PayloadInv, PayloadTypeOK, ForeignSenderOnReuse
<1>2. PayloadInv => ForeignSenderOnReuse
  BY DEF PayloadInv
<1> QED
  BY <1>1, <1>2, NextPayloadInv, PTL DEF PayloadSpec

-----------------------------------------------------------------------------
(* All of them, in one process.                                             *)

StoresInv ==
  LinksInv /\ SendsInv /\ SettingsInv /\ FilesInv /\ TextsInv /\ SanitizerInv /\ PayloadInv

\* At the start of the process.
LEMMA InitStoresInv == StoresInit => StoresInv
<1>1. PayloadInit => PayloadInv
  BY DEF PayloadInit, NoOptions, PayloadInv, PayloadTypeOK, ForeignSenderOnReuse
<1> QED
  BY <1>1, InitLinksInv, InitSendsInv, InitSettingsInv, InitFilesInv, InitTextsInv,
     InitSanitizerInv DEF StoresInit, StoresInv

\* A step of one part is none of the others.
LEMMA NextStoresInv ==
  ASSUME StoresInv, [StoresNext]_storesVars
  PROVE  StoresInv'
<1>1. /\ [RedisNext]_redisVars /\ [SysEnvNext]_sysEnvVars /\ [FileInfoNext]_fileInfoVars
      /\ [TextsNext]_textsVars /\ [SanitizerNext]_sanitizerVars /\ [PayloadNext]_payloadVars
  BY DEF StoresNext, storesVars
<1> QED
  BY <1>1, NextLinksInv, NextSendsInv, NextSettingsInv, NextFilesInv, NextTextsInv,
     NextSanitizerInv, NextPayloadInv DEF StoresInv

\* Every part keeps to its types.
LEMMA StoresInvTypes == StoresInv => ProcessTypeOK
<1> SUFFICES ASSUME StoresInv PROVE ProcessTypeOK
  OBVIOUS
<1>1. RedisTypeOK
  BY DEF StoresInv, LinksInv, SendsInv, Store, Links, InitPc, SubPc, Sending, Message, RedisTypeOK
<1> QED
  BY <1>1 DEF StoresInv, SettingsInv, FilesInv, TextsInv, SanitizerInv, PayloadInv, ProcessTypeOK

\* Whatever a process keeps is of its type: no step of any part spoils it.
THEOREM ProcessTypes == StoresSpec => []ProcessTypeOK
BY InitStoresInv, NextStoresInv, StoresInvTypes, PTL DEF StoresSpec

\* A process whose parts each do what they do by themselves keeps all that they
\* promise: none of them reaches into another one's state.
THEOREM StoresKeepPromises ==
  StoresSpec => [](/\ LinksAreReady /\ SendsAreTrue /\ SettingsAgree
                   /\ FilesKeptApart /\ TextsKeptApart /\ ModelsShowTheirOwn)
<1>1. StoresInv => /\ LinksAreReady /\ SendsAreTrue /\ SettingsAgree
                   /\ FilesKeptApart /\ TextsKeptApart /\ ModelsShowTheirOwn
  BY LinksInvImplies, SendsInvImplies, SettingsInvImplies, FilesInvImplies, TextsInvImplies
     DEF StoresInv, SanitizerInv, PayloadInv, ModelsShowTheirOwn
<1> QED
  BY <1>1, InitStoresInv, NextStoresInv, PTL DEF StoresSpec

\* What a model shows, and to whom it says that it does, is its own and rid of
\* secrets, and it keeps its attributes, whatever else the process does.
THEOREM ModelsShowTheirOwnAlways == StoresSpec => []ModelsShowTheirOwn
<1>1. StoresInv => ModelsShowTheirOwn
  BY DEF StoresInv, SanitizerInv, PayloadInv, ModelsShowTheirOwn
<1> QED
  BY <1>1, InitStoresInv, NextStoresInv, PTL DEF StoresSpec

\* No part of the process strips an object that its models share of more than
\* secrets: the one that sanitizes does not, and no other reaches it.
THEOREM ProcessStripsSecrets == StoresSpec => OnlySecretsStripped
<1>1. ASSUME StoresInv, [StoresNext]_storesVars
      PROVE  [\A id \in {"object", "array"} : \A i \in DOMAIN heap[id].items :
                LET item == heap[id].items[i] IN
                item.value = "text" /\ ~item.sysKey => heap'[id].items[i].value # "gone"]_sanitizerVars
  <2>1. SanitizerInv /\ [SanitizerNext]_sanitizerVars
    BY <1>1 DEF StoresInv, StoresNext, storesVars
  <2> QED
    BY <2>1, DeletesSecrets
<1> QED
  BY <1>1, InitStoresInv, NextStoresInv, PTL DEF StoresSpec, OnlySecretsStripped
=============================================================================
