------------------------------ MODULE FileInfo ------------------------------
(***************************************************************************)
(* getFileinfo of src/lib/utils/index.js: what a file is, from its content *)
(* (detectFiletype, which waits for a module) and from its extension (the  *)
(* cache's getFilecap).  It writes what it finds out into the record it    *)
(* got, which is a copy for a single extension and the cached record       *)
(* itself for a double one, as `tar.gz`: calls that overlap, and calls     *)
(* that come later, share it.                                              *)
(*                                                                         *)
(* An operator named X_Y is X with a fault: the properties are tested by   *)
(* putting it in X's place (PROJECT.json, "mutants").                      *)
(***************************************************************************)
EXTENDS Naturals

CONSTANTS Lookups,     \* callers of getFileinfo, each with one call after another
          Singles,     \* extensions without a dot
          Doubles,     \* the double extensions
          LastOf,      \* the last part of a double extension
          Rows         \* the rows of the table filecap, by the extensions it knows

Absent == "null"
Column == {"category", "mimetype", "capability"}
Category == {Absent, "video", "image", "script", "text", "other"}
Mimetype == {Absent, "", "text/*", "video/mp4", "image/png", "application/x-script",
             "aplication/octet-stream"}
Capability == {Absent, "---", "rw-"}
Row == [category : Category, mimetype : Mimetype, capability : Capability]

ASSUME FileInfoAssumption ==
  /\ Singles # {} /\ Singles \cap Doubles = {}
  /\ LastOf \in [Doubles -> Singles]
  /\ Rows \in [DOMAIN Rows -> Row] /\ DOMAIN Rows \subseteq Singles \cup Doubles

VARIABLES
  filecap,  \* the cached records
  lookup    \* of every caller the last call: its file, what was found in it, its result

fileInfoVars == <<filecap, lookup>>

\* What detectFiletype makes of a buffer: of a type it knows, of text, of others.
Detected == [mimetype : {"text/*", "video/mp4", "image/png"}, is_text : BOOLEAN]
              \cup {[mimetype |-> "", is_text |-> FALSE]}
Unknown == [category |-> Absent, mimetype |-> Absent, capability |-> Absent]
NoLookup == [pc |-> "idle", extension |-> CHOOSE e \in Singles : TRUE, detected |-> CHOOSE d \in Detected : TRUE,
             info |-> Unknown]

FileInfoInit ==
  /\ filecap = Rows
  /\ lookup = [l \in Lookups |-> NoLookup]

-----------------------------------------------------------------------------
\* The key under which getFilecap finds a record.
Key(e) == IF e \in Doubles \ DOMAIN filecap THEN LastOf[e] ELSE e
Known(e) == Key(e) \in DOMAIN filecap
getFilecap(e) == IF Known(e) THEN filecap[Key(e)] ELSE Unknown

\* Whether it is the cached record itself that getFilecap returns.
Shared_Always(e) == Known(e)
Shared(e) == Key(e) \in Doubles

OrElse_Void(a, b) == IF a \in {Absent, ""} THEN "undefined" ELSE a
OrElse(a, b) == IF a \in {Absent, ""} THEN b ELSE a
CategoryOf(mimetype) ==
  CASE mimetype = "text/*" -> "text" [] mimetype = "video/mp4" -> "video" [] OTHER -> "image"

\* What getFileinfo writes into the record.
Completed_ByContent(def, found) ==
  [category |-> IF found.mimetype = "" THEN "other" ELSE CategoryOf(found.mimetype),
   mimetype |-> found.mimetype, capability |-> OrElse(def.capability, "---")]
Completed(def, found) ==
  CASE found.mimetype = "" ->
         [category |-> OrElse(def.category, "other"), capability |-> OrElse(def.capability, "---"),
          mimetype |-> "aplication/octet-stream"]
    [] found.mimetype # "" /\ found.is_text ->
         LET mimetype == OrElse(def.mimetype, found.mimetype)
             category == OrElse(def.category, CategoryOf(found.mimetype)) IN
         [mimetype |-> mimetype, capability |-> OrElse(def.capability, "---"),
          category |-> IF mimetype # "application/x-script" /\ category = "video"
                       THEN CategoryOf(found.mimetype) ELSE category]
    [] OTHER -> [def EXCEPT !.category = OrElse(def.category, CategoryOf(found.mimetype))]

\* The result: a column the record has not got is filled in, but one it has,
\* null included, wins.
Info_FromTable(e, def, found) ==
  IF Known(e) THEN filecap[Key(e)]
  ELSE [def EXCEPT !.mimetype = OrElse(@, found.mimetype), !.capability = OrElse(@, "---")]
Info(e, def, found) ==
  IF Known(e) THEN def
  ELSE [def EXCEPT !.mimetype = OrElse(@, found.mimetype), !.capability = OrElse(@, "---")]

getFileinfo(l, e, found) ==
  /\ lookup[l].pc # "detecting"
  /\ lookup' = [lookup EXCEPT ![l] = [pc |-> "detecting", extension |-> e, detected |-> found,
                                      info |-> Unknown]]
  /\ UNCHANGED filecap

\* From the answer of detectFiletype to the result nothing else runs.
FileDetected(l) ==
  LET e == lookup[l].extension
      def == Completed(getFilecap(e), lookup[l].detected) IN
  /\ lookup[l].pc = "detecting"
  /\ lookup' = [lookup EXCEPT ![l].pc = "done", ![l].info = Info(e, def, lookup[l].detected)]
  /\ filecap' = IF Shared(e) THEN [filecap EXCEPT ![Key(e)] = def] ELSE filecap

\* A reload of the cache puts new records in.
FilecapReloaded == filecap' = Rows /\ UNCHANGED lookup

FileInfoNext ==
  \/ \E l \in Lookups, e \in Singles \cup Doubles, found \in Detected : getFileinfo(l, e, found)
  \/ \E l \in Lookups : FileDetected(l)
  \/ FilecapReloaded

FileInfoSpec == FileInfoInit /\ [][FileInfoNext]_fileInfoVars

-----------------------------------------------------------------------------
FileInfoTypeOK ==
  /\ filecap \in [DOMAIN Rows -> Row]
  /\ lookup \in [Lookups -> [pc : {"idle", "detecting", "done"}, extension : Singles \cup Doubles,
                             detected : Detected, info : Row]]

\* A lookup leaves the cached record of a single extension as the database has
\* it, which the copy of line 118 is for.
SinglesStay == \A e \in Singles \cap DOMAIN Rows : filecap[e] = Rows[e]

Done(l) == lookup[l].pc = "done"

\* Two files of the same extension and the same content are told the same,
\* whatever was looked up before and between, unless the extension is a double
\* one the table knows (line 115).
SameFileSameAnswer ==
  \A l, k \in Lookups :
    /\ Done(l) /\ Done(k)
    /\ lookup[l].extension = lookup[k].extension /\ lookup[l].detected = lookup[k].detected
    /\ Key(lookup[l].extension) \in Singles
    => lookup[l].info = lookup[k].info

\* What the table says of the category of a double extension survives all
\* lookups, but that a text is never taken for a video (line 160); its
\* mimetype survives them but for that of a file without any type (line 151).
CategoryKept ==
  \A e \in Doubles \cap DOMAIN Rows :
    /\ \/ filecap[e].category = Rows[e].category
       \/ Rows[e].category \in {Absent, "", "video"}
    /\ \/ filecap[e].mimetype = Rows[e].mimetype
       \/ Rows[e].mimetype \in {Absent, ""}
       \/ filecap[e].mimetype = "aplication/octet-stream"

\* Every file gets a category, whatever columns of its row are null.
AlwaysCategorised == \A l \in Lookups : Done(l) => lookup[l].info.category \notin {Absent, ""}

\* Files: lookups that share the cached records of filecap do not tell of one
\* file what they found in another, and leave the table's columns as they are,
\* each but for a case that is named (cache.js 111-119, utils/index.js 128-185).
FilesKeptApart == SinglesStay /\ SameFileSameAnswer /\ CategoryKept /\ AlwaysCategorised
=============================================================================
