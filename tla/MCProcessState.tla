--------------------------- MODULE MCProcessState ---------------------------
EXTENDS ProcessState

\* Redis: a socket, one without an id, and another socket.
ThreeDestinations == <<[socket_id |-> TRUE], [socket_id |-> FALSE], [socket_id |-> TRUE]>>

\* Settings: what two contents of drumee.json give.
TwoEditions ==
  [e \in Editions |-> IF e = "e1" THEN {"endpoint_name"} ELSE {"public_domain", "export_dir"}]

\* Files: single extensions with null columns, a double one the table knows and
\* one, `x.mp4`, that it does not.
RowOf(category, mimetype, capability) ==
  [category |-> category, mimetype |-> mimetype, capability |-> capability]
FilecapRows ==
  [e \in {"gz", "mp4", "tar.gz"} |->
     CASE e = "gz" -> RowOf("null", "application/x-script", "rw-")
       [] e = "mp4" -> RowOf("video", "null", "null")
       [] e = "tar.gz" -> RowOf("script", "application/x-script", "null")]
LastParts == [e \in Doubles |-> IF e = "tar.gz" THEN "gz" ELSE "mp4"]

\* Texts: a full file and one that lacks a text.
TwoFiles == [l \in Filed |-> IF l = "en" THEN {"_a", "_b"} ELSE {"_a"}]

\* Sanitizer: an object in the attributes, and an array in the object.
Plain(v) == [sysKey |-> FALSE, value |-> v]
SecretKey == [sysKey |-> TRUE, value |-> "text"]
NestedHeap ==
  [attributes |-> [isArray |-> FALSE, items |-> <<Plain("object"), Plain("text"), SecretKey>>],
   json |-> [isArray |-> FALSE, items |-> <<>>],
   object |-> [isArray |-> FALSE, items |-> <<Plain("array"), SecretKey, Plain("text")>>],
   array |-> [isArray |-> TRUE, items |-> <<Plain("text"), Plain("text")>>]]

\* Helpers: lists of up to five arguments; answers of up to three sets of up to
\* two rows; texts of up to three pieces with up to two replacements.
UpTo(S, n) == UNION {[1..k -> S] : k \in 0..n}
ArgumentLists == UpTo({"value", "output"}, 5)
RowKinds == {[kind |-> k, items |-> <<>>] : k \in {"row", "row of length 1"}}
OkPacket == [kind |-> "ok", items |-> <<>>]
DriverAnswers ==
  {Array(answer) : answer \in UpTo({OkPacket} \cup RowKinds \cup {Array(rows) : rows \in UpTo(RowKinds, 2)}, 3)}
FormatInputs == [str : UpTo({-1, 0, 1, 2, 9}, 3), args : UpTo(UpTo({1, 9, Match}, 1), 2)]
=============================================================================
