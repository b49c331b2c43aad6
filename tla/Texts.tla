------------------------------- MODULE Texts -------------------------------
(***************************************************************************)
(* The texts of src/lib/cache.js: load() puts one safe object per language *)
(* file into the lexicon, mergeLex replaces an entry by a plain object,    *)
(* lex() hands out the entry itself, or that of the default language, and  *)
(* its holder may write into it; message() and complain() look texts up.   *)
(*                                                                         *)
(* A safe object answers a key it has not got with the key.  It is a Proxy *)
(* over an empty object, and spreads as one: `{ ...lexicon }` has nothing  *)
(* of it.  A text is named for where it comes from.                        *)
(*                                                                         *)
(* The default language is among the languages and has a file, as shipped: *)
(* without one DefaultLexicon would become undefined, or what was merged   *)
(* into its entry (line 223).                                              *)
(*                                                                         *)
(* An operator named X_Y is X with a fault: the properties are tested by   *)
(* putting it in X's place (PROJECT.json, "mutants").                      *)
(***************************************************************************)
EXTENDS Naturals

CONSTANTS Languages,   \* sys_languages
          Filed,       \* those with a file
          DefaultLanguage,
          Keys,        \* of texts, all with the underscore that message() asks for
          TextsOf      \* the keys of every file

ASSUME TextsAssumption ==
  /\ DefaultLanguage \in Filed /\ Filed \subseteq Languages
  /\ TextsOf \in [Filed -> SUBSET Keys]

VARIABLES
  lexicon,     \* Lexicon: one object per language
  default,     \* the object DefaultLexicon, when it is not the lexicon's own
  aliased      \* whether it is the lexicon's object of the default language

textsVars == <<lexicon, default, aliased>>

Kind == {"none", "safe", "plain"}
Text == {"none", "file", "merged", "written"}
Object == [kind : Kind, text : [Keys -> Text]]
Of(kind, keys, text) == [kind |-> kind, text |-> [k \in Keys |-> IF k \in keys THEN text ELSE "none"]]
NoObject == Of("none", {}, "file")

TextsInit ==
  /\ lexicon = [l \in Languages |-> NoObject]
  /\ default = Of("plain", {}, "file")
  /\ aliased = FALSE

-----------------------------------------------------------------------------
DefaultLexicon == IF aliased THEN lexicon[DefaultLanguage] ELSE default

\* load(), with the rows of the tables already there.  The loop over the
\* languages without a file enters its objects under the indices "0", "1".
Missing == Languages \ Filed
loadTexts_ByName ==
  /\ lexicon' = [l \in Languages |-> IF l \in Filed THEN Of("safe", TextsOf[l], "file")
                                     ELSE Of("safe", {}, "file")]
  /\ aliased' = TRUE
  /\ UNCHANGED default
loadTexts ==
  /\ lexicon' = [l \in Languages |-> IF l \in Filed THEN Of("safe", TextsOf[l], "file")
                                     ELSE lexicon[l]]
  /\ aliased' = TRUE
  /\ UNCHANGED default

\* The loop over the files meets a malformed one (line 221): the languages
\* read so far have new objects, and DefaultLexicon is the object it was.
loadTextsThrows(read) ==
  /\ lexicon' = [l \in Languages |-> IF l \in read THEN Of("safe", TextsOf[l], "file")
                                     ELSE lexicon[l]]
  /\ default' = DefaultLexicon
  /\ aliased' = (aliased /\ DefaultLanguage \notin read)

\* { ...object, ...data }
Spread_SeesAll(object) == [object EXCEPT !.kind = "plain"]
Spread(object) == IF object.kind = "plain" THEN object ELSE Of("plain", {}, "file")
Merged(object, keys) ==
  [Spread(object) EXCEPT !.text = [k \in Keys |-> IF k \in keys THEN "merged" ELSE @[k]]]

\* The object that was the default stays it when its place is taken.
mergeLex_InPlace(lang, keys) ==
  /\ lexicon' = [lexicon EXCEPT ![lang] = Merged(@, keys)]
  /\ UNCHANGED <<default, aliased>>
mergeLex_Replaced(lang, keys) ==
  /\ lexicon' = [lexicon EXCEPT ![lang] = Merged(@, keys)]
  /\ default' = lexicon[lang]
  /\ aliased' = (aliased /\ lang # DefaultLanguage)
mergeLex(lang, keys) ==
  /\ lexicon' = [lexicon EXCEPT ![lang] = Merged(@, keys)]
  /\ default' = DefaultLexicon
  /\ aliased' = (aliased /\ lang # DefaultLanguage)

\* lex(lang): the object whose texts its caller reads and writes.
Speaks(lang) == IF lexicon[lang].kind = "none" THEN DefaultLexicon ELSE lexicon[lang]

\* Somebody writes a text into it, or deletes one: a safe object by its
\* methods, a plain one by itself.
WriteLex(lang, k, text) ==
  IF lexicon[lang].kind # "none"
  THEN lexicon' = [lexicon EXCEPT ![lang].text[k] = text] /\ UNCHANGED <<default, aliased>>
  ELSE IF aliased
  THEN lexicon' = [lexicon EXCEPT ![DefaultLanguage].text[k] = text] /\ UNCHANGED <<default, aliased>>
  ELSE default' = [default EXCEPT !.text[k] = text] /\ UNCHANGED <<lexicon, aliased>>

\* What message() and complain() say: a text, or "none" for the key itself.
message(key, lang) == Speaks(lang).text[key]
complain(key) == DefaultLexicon.text[key]

TextsNext ==
  \/ loadTexts
  \/ \E read \in SUBSET Filed : read # Filed /\ loadTextsThrows(read)
  \/ \E lang \in Languages, keys \in SUBSET Keys : mergeLex(lang, keys)
  \/ \E lang \in Languages, k \in Keys, text \in {"none", "written"} : WriteLex(lang, k, text)

TextsSpec == TextsInit /\ [][TextsNext]_textsVars

-----------------------------------------------------------------------------
TextsTypeOK ==
  /\ lexicon \in [Languages -> Object] /\ default \in Object /\ aliased \in BOOLEAN
  /\ default.kind # "none"

\* A merge never mixes with the texts of a file: the entry it makes has merged
\* and written texts only, because a Proxy over an empty object spreads to
\* nothing (line 243).
MergeDropsFile ==
  \A l \in Languages, k \in Keys : lexicon[l].kind = "plain" => lexicon[l].text[k] # "file"

\* A language without a file speaks the default language's texts, the very
\* ones complain() uses, until something is merged into it: the entry that
\* line 225 makes is empty, and never stands in the way of the default, since
\* the loop of line 224 enters it under another name.
MissingSpeaksDefault ==
  \A l \in Missing, k \in Keys : lexicon[l].kind # "plain" => message(k, l) = complain(k)

\* complain() and the languages without an entry never see a merged text: a
\* merge into the default language leaves DefaultLexicon the object it was, and
\* the two go on to differ until the next load (lines 223, 243).
DefaultUnmerged == \A k \in Keys : complain(k) # "merged"

\* Texts: whatever is loaded, merged and written, merged texts stay apart from
\* those of the files and of the default language (cache.js 205-254).
TextsKeptApart == MergeDropsFile /\ MissingSpeaksDefault /\ DefaultUnmerged
=============================================================================
