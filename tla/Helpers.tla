------------------------------- MODULE Helpers -------------------------------
(***************************************************************************)
(* The helpers without a state of their own, as functions of what they are *)
(* given: the statement mariadb.js builds, the rows addons/array.js makes  *)
(* of an answer, the bit masks of lex/, the level of a message in          *)
(* logger.js, the keys of subtleCrypto.js, String.format and template.js.  *)
(* A behaviour is one call of a helper, and its result.                    *)
(*                                                                         *)
(* An operator named X_Y is X with a fault: the properties are tested by   *)
(* putting it in X's place (PROJECT.json, "mutants").                      *)
(***************************************************************************)
EXTENDS Integers, Sequences, SequencesExt, FiniteSetsExt, Bitwise

CONSTANTS Arguments,    \* what a statement is given, by kind
          Answers,      \* answers of the driver
          MaxBits,      \* levels are below 2^MaxBits
          LineWidth,    \* of a PEM text: 64
          MaxKeyLength,
          Formats       \* texts and what replaces the placeholders in them

VARIABLES call, result
helperVars == <<call, result>>

-----------------------------------------------------------------------------
(* statement(args) of mariadb.js, behind the name.  An argument is a value, *)
(* or the object of an output parameter.                                    *)

\* The loop runs over the array from which it takes the output parameters: the
\* argument behind one moves to its place and is passed over, and whether the
\* list ends is judged by the length that is left.
RECURSIVE StatementFrom_Unsplit(_, _, _)
StatementFrom_Unsplit(args, i, sql) ==
  IF i > Len(args) THEN [sql |-> sql, bound |-> args]
  ELSE StatementFrom_Unsplit(args, i + 1,
         Append(Append(sql, IF args[i] = "output" THEN "@" ELSE "?"), ","))
RECURSIVE StatementFrom(_, _, _)
StatementFrom(args, i, sql) ==
  IF i > Len(args) THEN [sql |-> sql, bound |-> args]
  ELSE LET out == args[i] = "output"
           left == IF out THEN RemoveAt(args, i) ELSE args IN
       StatementFrom(left, i + 1, Append(Append(sql, IF out THEN "@" ELSE "?"),
                                         IF i < Len(left) THEN "," ELSE ")"))
statement(args) ==
  LET s == StatementFrom(args, 1, <<"(">>) IN
  IF s.bound = <<>> THEN [s EXCEPT !.sql = <<"(", ")">>] ELSE s

\* The statement that was meant.
RECURSIVE Listed(_)
Listed(args) ==
  IF args = <<>> THEN <<"(", ")">>
  ELSE <<"(">> \o FlattenSeq([i \in 1..Len(args) |->
         <<IF args[i] = "output" THEN "@" ELSE "?", IF i = Len(args) THEN ")" ELSE ",">>])
Meant(args) == [sql |-> Listed(args), bound |-> SelectSeq(args, LAMBDA a : a # "output")]

-----------------------------------------------------------------------------
(* get_rows() and results() of addons/array.js.  A value is an array, the   *)
(* ok packet of a statement, or a row, which may have a column `length` of  *)
(* value 1.                                                                 *)

Array(items) == [kind |-> "array", items |-> items]
Undefined == [kind |-> "undefined", items |-> <<>>]
Sets(a) == SelectSeq(a.items, LAMBDA x : x.kind # "ok")
LengthIs1(x) == x.kind = "row of length 1" \/ (x.kind = "array" /\ Len(x.items) = 1)
First(x) == IF x.kind = "array" THEN x.items[1] ELSE Undefined

\* typeof is never 'array': the first item of every set of one is taken.
RECURSIVE get_rows_OfFirstSet(_)
get_rows_OfFirstSet(a) ==
  IF Sets(a) # <<>> /\ Sets(a)[1].kind = "array" THEN get_rows_OfFirstSet(Sets(a)[1])
  ELSE IF Len(Sets(a)) = 1 THEN Sets(a)[1] ELSE Array(Sets(a))
RECURSIVE get_rows(_)
get_rows(a) ==
  IF Len(Sets(a)) = 1
  THEN IF Sets(a)[1].kind = "array" THEN get_rows(Sets(a)[1]) ELSE Sets(a)[1]
  ELSE Array([i \in DOMAIN Sets(a) |-> IF LengthIs1(Sets(a)[i]) THEN First(Sets(a)[i]) ELSE Sets(a)[i]])

\* A row has no item 0: of a set of one row nothing is left.  Nor has it
\* get_rows(): among the sets, one that passes for a set of one throws.
Thrown == [kind |-> "thrown", items |-> <<>>]
RowsAmongSets(a) == {i \in DOMAIN Sets(a) : Sets(a)[i].kind = "row of length 1"}
results_First(a) == IF Sets(a) = <<>> THEN Array(<<>>) ELSE Sets(a)[1]
results(a) ==
  IF RowsAmongSets(a) # {} THEN Thrown ELSE
  LET r == [i \in DOMAIN Sets(a) |->
              IF ~LengthIs1(Sets(a)[i]) THEN Sets(a)[i]
              ELSE LET rows == get_rows(Sets(a)[i]) IN
                   IF rows.kind = "array" /\ rows.items # <<>> THEN rows.items[1] ELSE Undefined] IN
  IF Len(r) = 1 THEN r[1] ELSE Array(r)

RECURSIVE RowsIn(_)
RowsIn(x) ==
  CASE x.kind = "array" -> FlattenSeq([i \in DOMAIN x.items |-> RowsIn(x.items[i])])
    [] x.kind \in {"row", "row of length 1"} -> <<x>>
    [] OTHER -> <<>>

-----------------------------------------------------------------------------
(* The bit masks of lex/permission.js, privilege.js and remit.js, in the    *)
(* order of their definitions, and the functions of lex/functions.js.       *)

permission ==
  <<<<"owner", 32>>, <<"admin", 16>>, <<"delete", 8>>, <<"write", 4>>, <<"chat", 6>>, <<"read", 2>>,
    <<"anonymous", 1>>, <<"anyone", 1>>, <<"modify", 8>>, <<"upload", 4>>, <<"view", 2>>,
    <<"download", 2>>, <<"guest", 1>>, <<"dom_owner", 32>>, <<"dom_admin", 16>>,
    <<"dom_admin_security", 8>>, <<"dom_admin_memeber", 4>>, <<"dom_admin_view", 2>>,
    <<"dom_member", 1>>>>
privilege_Typo ==
  <<<<"owner", 63>>, <<"admin", 31>>, <<"delete", 15>>, <<"write", 4>>, <<"read", 3>>,
    <<"anonymous", 1>>>>
privilege ==
  <<<<"owner", 63>>, <<"admin", 31>>, <<"delete", 15>>, <<"write", 7>>, <<"read", 3>>,
    <<"anonymous", 1>>, <<"anyone", 1>>, <<"modify", 15>>, <<"upload", 7>>, <<"view", 3>>,
    <<"download", 3>>, <<"guest", 1>>>>
remit ==
  <<<<"root", 127>>, <<"dom_owner", 63>>, <<"dom_admin", 31>>, <<"dom_admin_security", 15>>,
    <<"dom_admin_memeber", 7>>, <<"dom_admin_view", 3>>, <<"dom_member", 1>>, <<"owner", 31>>,
    <<"admin", 15>>, <<"delete", 7>>, <<"write", 3>>, <<"read", 1>>>>

value(name, def) ==
  LET at == SelectInSeq(def, LAMBDA d : d[1] = name) IN IF at = 0 THEN 0 ELSE def[at][2]
keys(val, def) == {d[1] : d \in {x \in ToSet(def) : x[2] = val}}
key_Last(val, def) == LET at == SelectLastInSeq(def, LAMBDA d : d[2] <= val) IN
                      IF at = 0 THEN "" ELSE def[at][1]
key(val, def) == LET at == SelectInSeq(def, LAMBDA d : d[2] = val) IN
                 IF at = 0 THEN "" ELSE def[at][1]

-----------------------------------------------------------------------------
(* say() of logger.js, whether it makes a message of level l.               *)

LEVEL == [ERROR |-> 0, WARN |-> 1, INFO |-> 2, NOTICE |-> 2, DEBUG |-> 3, VERBOSE |-> 4, SILLY |-> 5]
Threshold(l) == IF l \notin DOMAIN LEVEL \/ l = "ERROR" THEN 10 ELSE LEVEL[l]
say_ByModule(l, module, verbosity) == (IF module = 0 THEN verbosity ELSE module) >= Threshold(l)
say(l, module, verbosity) == (module | verbosity) >= Threshold(l)

-----------------------------------------------------------------------------
(* formatAsPem() and the import of what it made, from a file that may end   *)
(* with line feeds.  A character of the key is its number.                  *)

Header == [i \in 1..3 |-> 0 - i]
Footer == [i \in 1..2 |-> 0 - i]
LF == 0
RECURSIVE Lines_Overlapping(_)
Lines_Overlapping(str) ==
  IF str = <<>> THEN <<>>
  ELSE SubSeq(str, 1, Min({LineWidth, Len(str)})) \o <<LF>>
         \o Lines_Overlapping(SubSeq(str, LineWidth, Len(str)))
RECURSIVE Lines(_)
Lines(str) ==
  IF str = <<>> THEN <<>>
  ELSE SubSeq(str, 1, Min({LineWidth, Len(str)})) \o <<LF>>
         \o Lines(SubSeq(str, Min({LineWidth, Len(str)}) + 1, Len(str)))
formatAsPem(str) == Header \o <<LF>> \o Lines(str) \o Footer

\* substring() between the lengths of header and footer; atob() passes over
\* white space, and throws on a dash.
importKey(pem) ==
  LET text == SubSeq(pem, Len(Header) + 1, Len(pem) - Len(Footer) - 1) IN
  IF \E i \in DOMAIN text : text[i] < 0 THEN [threw |-> TRUE, key |-> <<>>]
  ELSE [threw |-> FALSE, key |-> SelectSeq(text, LAMBDA c : c # LF)]

-----------------------------------------------------------------------------
(* String.format.  The placeholders {0}, {1}, ... are their numbers, and    *)
(* other text is a number too high for one.  One after the other is         *)
(* replaced; in what replaces it, `$&` stands for the placeholder.          *)

Match == 100           \* `$&`; the other patterns of replace() are left out
UndefinedText == 101   \* 'undefined'
Replaced_First(str, i, by) ==
  LET at == SelectInSeq(str, LAMBDA c : c = i) IN
  IF at = 0 THEN str ELSE SubSeq(str, 1, at - 1) \o by \o SubSeq(str, at + 1, Len(str))
Replaced(str, i, by) ==
  LET text == [n \in DOMAIN by |-> IF by[n] = Match THEN i ELSE by[n]] IN
  FlattenSeq([n \in DOMAIN str |-> IF str[n] = i THEN text ELSE <<str[n]>>])

\* Without arguments the loop counts down, from 0 to -1.
format(str, args) ==
  IF args = <<>> THEN Replaced(Replaced(str, 0, <<UndefinedText>>), -1, <<UndefinedText>>)
  ELSE FoldLeft(LAMBDA s, i : Replaced(s, i - 1, args[i]), str, [i \in DOMAIN args |-> i])
Together(str, args) == FlattenSeq([n \in DOMAIN str |->
  IF str[n] \in 0..(Len(args) - 1) THEN args[str[n] + 1] ELSE <<str[n]>>])

-----------------------------------------------------------------------------
(* write() of template.js.  The output is emptied before the template is    *)
(* rendered; render() answers null or undefined when it cannot.             *)

render(tpl) == IF tpl = "good" THEN "rendered" ELSE "nothing"
write_InPlace(names, tpl) ==
  IF ~names THEN [out |-> "before", threw |-> TRUE]
  ELSE [out |-> IF render(tpl) = "nothing" THEN "before" ELSE "rendered", threw |-> FALSE]
write(names, tpl) ==
  IF ~names THEN [out |-> "before", threw |-> TRUE]
  ELSE [out |-> IF render(tpl) = "nothing" THEN "empty" ELSE "rendered",
        threw |-> render(tpl) = "nothing"]

-----------------------------------------------------------------------------
Masks == [permission |-> permission, privilege |-> privilege, remit |-> remit]
MaskLimit == 128   \* above every mask
Roles == {privilege[i][1] : i \in DOMAIN privilege}
KeyOfLength(n) == [i \in 1..n |-> i]
LineFeeds(n) == [i \in 1..n |-> LF]

HelpersInit == call = [of |-> "none"] /\ result = <<>>

Call ==
  /\ call.of = "none" /\ UNCHANGED result
  /\ \/ call' \in [of : {"statement"}, given : Arguments]
     \/ call' \in [of : {"get_rows", "results"}, given : Answers]
     \/ call' \in [of : {"key"}, masks : DOMAIN Masks, given : 0..MaskLimit]
     \/ call' \in [of : {"value"}, given : Roles, other : Roles]
     \/ call' \in [of : {"say"}, given : DOMAIN LEVEL \cup {"SYSLOG"}, module : 0..(2^MaxBits - 1),
                  verbosity : 0..(2^MaxBits - 1)]
     \/ call' \in [of : {"pem"}, given : 0..MaxKeyLength, trailing : 0..2]
     \/ call' \in [of : {"format"}, given : Formats]
     \/ call' \in [of : {"write"}, given : BOOLEAN, tpl : {"good", "bad", "missing"}]

ResultOf(c) ==
  CASE c.of = "statement" -> statement(c.given)
    [] c.of = "get_rows" -> get_rows(c.given)
    [] c.of = "results" -> results(c.given)
    [] c.of = "key" -> key(c.given, Masks[c.masks])
    [] c.of = "value" -> value(c.given, privilege)
    [] c.of = "say" -> say(c.given, c.module, c.verbosity)
    [] c.of = "pem" -> importKey(formatAsPem(KeyOfLength(c.given)) \o LineFeeds(c.trailing))
    [] c.of = "format" -> format(c.given.str, c.given.args)
    [] c.of = "write" -> write(c.given, c.tpl)

Return == call.of # "none" /\ result = <<>> /\ result' = <<ResultOf(call)>> /\ UNCHANGED call

HelpersNext == Call \/ Return

Returned(helper) == call.of = helper /\ result # <<>>

-----------------------------------------------------------------------------
\* The statement is the one its arguments call for, with a placeholder for
\* each and a value bound for each `?`, exactly if no argument is an output
\* parameter, or the last of several is (lines 188-211): after any other the
\* list skips an argument or closes in the middle.
StatementAsMeant ==
  Returned("statement") =>
    LET n == Len(call.given) IN
    (result[1] = Meant(call.given)) <=>
      (\A i \in 1..n : call.given[i] = "output" => i = n /\ n > 1)

\* get_rows() loses no row of an answer and keeps their order (lines 47-84),
\* if no row has a column `length` of 1, which passes for a set of one.
RowsKept ==
  Returned("get_rows") =>
    \/ RowsIn(result[1]) = RowsIn(call.given)
    \/ \E i \in DOMAIN RowsIn(call.given) : RowsIn(call.given)[i].kind = "row of length 1"

\* What get_rows() returns can be iterated over unless the answer is one set
\* of one row, or one row: then it is the row itself, which stops the loops of
\* the cache's load() (cache.js 188, 199) over a table with a single row.
SingleRowIsItself ==
  Returned("get_rows") =>
    (result[1].kind # "array" <=>
       /\ Len(Sets(call.given)) = 1
       /\ LET x == Sets(call.given)[1] IN
          x.kind = "array" => Len(Sets(x)) = 1 /\ Sets(x)[1].kind # "array")

\* results() throws exactly if there is a row among the sets that passes for a
\* set of one (line 29); else it loses the sets of one row, and no other row
\* (lines 20-37).
ResultsKeepLongSets ==
  Returned("results") =>
    IF RowsAmongSets(call.given) # {} THEN result[1] = Thrown
    ELSE RowsIn(result[1]) = RowsIn(Array(SelectSeq(Sets(call.given), LAMBDA x : ~LengthIs1(x))))

\* A role's privilege holds the bit of its own permission and everything that
\* a role of lower privilege holds: a check by mask and one by order agree.
PrivilegesNested ==
  Returned("value") =>
    /\ result[1] & value(call.given, permission) = value(call.given, permission)
    /\ value(call.other, privilege) <= result[1] =>
         result[1] & value(call.other, privilege) = value(call.other, privilege)

\* Back from a value to a name and to the value again, in each of the three
\* tables, aliases included; a value without a name has the empty one.
KeyRoundTrip ==
  Returned("key") =>
    IF keys(call.given, Masks[call.masks]) = {} THEN result[1] = ""
    ELSE value(result[1], Masks[call.masks]) = call.given

\* A message that the level of its module or the verbosity of the process asks
\* for is made, and none beyond their sum: the bits of the two are joined, so
\* that 1 and 2 together ask for what only 3 asks for (line 70).
SaidWhenAsked ==
  Returned("say") =>
    /\ call.module >= Threshold(call.given) \/ call.verbosity >= Threshold(call.given) => result[1]
    /\ result[1] => call.module + call.verbosity >= Threshold(call.given)

\* A key of any length survives formatAsPem and the import, with a line feed
\* at the end of the file or without; with two the cut falls into the footer
\* and the import throws (lines 55-58, 152-160).
PemRoundTrip ==
  Returned("pem") =>
    result[1] = IF call.trailing > 1 THEN [threw |-> TRUE, key |-> <<>>]
                ELSE [threw |-> FALSE, key |-> KeyOfLength(call.given)]

\* Every placeholder is replaced wherever it stands, as if all were at once,
\* unless a replacement holds a placeholder that is still to come, or `$&`.  A
\* format() of nothing leaves a text alone only if {0} and {-1} are not in it.
FormatTogether ==
  Returned("format") =>
    LET str == call.given.str
        args == call.given.args IN
    IF args = <<>> THEN result[1] = str <=> {0, -1} \cap ToSet(str) = {}
    ELSE \/ result[1] = Together(str, args)
         \/ \E i \in DOMAIN args : \E n \in DOMAIN args[i] :
              args[i][n] \in i..(Len(args) - 1) \cup {Match}

\* A write() that returns has written what was rendered, and one that throws
\* has left the output as it was or empty (lines 61-62).
WrittenOrThrown ==
  Returned("write") => IF result[1].threw THEN result[1].out # "rendered"
                       ELSE result[1].out = "rendered"

\* Answers of the database: no row is lost or moved on the way to the caller
\* but those of sets of one, only an answer of one row is not an array, and
\* only a row among the sets makes results() throw (addons/array.js 20-84).
AnswersKept == RowsKept /\ SingleRowIsItself /\ ResultsKeepLongSets

\* Each helper gives what its reference definition gives, on all inputs but
\* those that are named.
HelpersAsMeant ==
  /\ StatementAsMeant /\ PemRoundTrip /\ FormatTogether /\ WrittenOrThrown
  /\ SaidWhenAsked /\ PrivilegesNested /\ KeyRoundTrip
=============================================================================
