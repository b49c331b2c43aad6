--------------------------- MODULE NetworkRequest ---------------------------
(***************************************************************************)
(* request() of src/lib/network.js: an HTTPS request whose body goes to a  *)
(* file or is returned, and a promise settled by whichever event of the    *)
(* request, of the response or of a timer comes first.                     *)
(*                                                                         *)
(* The write stream of the file is opened in the background, which empties *)
(* the file, and writes in the background what it is given.  All requests  *)
(* of the model write to one path.  A body is a number of chunks; a file   *)
(* says whose chunk stands at each place.                                  *)
(*                                                                         *)
(* An operator named X_Y is X with a fault: the properties are tested by   *)
(* putting it in X's place (PROJECT.json, "mutants").                      *)
(***************************************************************************)
EXTENDS Naturals, FiniteSets

CONSTANTS Requests, MaxChunks, Nobody

ASSUME NetworkAssumption == MaxChunks \in Nat /\ Nobody \notin Requests

VARIABLES
  req,        \* every request: its progress, its body, its result
  stream,     \* localStream of each: its state and what it has not written yet
  file,       \* opt.outfile: whether it exists, whose chunks it holds
  process     \* "running", or "crashed" by an uncaught error

networkVars == <<req, stream, file, process>>

Settled == {"resolved", "rejected"}
NoResult == [size |-> 0, md5Hash |-> 0]

NetworkInit ==
  /\ req = [r \in Requests |-> [pc |-> "idle", body |-> 0, read |-> 0, md5Hash |-> 0,
                                result |-> NoResult]]
  /\ stream = [r \in Requests |-> [state |-> "none", chunks |-> 0, written |-> 0, ended |-> FALSE]]
  /\ file = [exists |-> FALSE, data |-> [n \in 1..MaxChunks |-> Nobody]]
  /\ process = "running"

\* A file is as long as where its last chunk stands.
Size(f) == Cardinality({n \in 1..MaxChunks : \E last \in n..MaxChunks : f.data[last] # Nobody})

Dies == process' = "crashed" /\ UNCHANGED <<req, stream, file>>

\* The stream is created before the request is made; what throws until then,
\* JSON.stringify or mkdirSync, rejects.
Request(r) ==
  /\ process = "running"
  /\ req[r].pc = "idle"
  /\ \/ /\ req' = [req EXCEPT ![r].pc = "waiting"]
        /\ \E outfile \in BOOLEAN :
             stream' = [stream EXCEPT ![r].state = IF outfile THEN "opening" ELSE "none"]
     \/ req' = [req EXCEPT ![r].pc = "rejected"] /\ UNCHANGED stream
  /\ UNCHANGED <<file, process>>

-----------------------------------------------------------------------------
(* The write stream.  Nothing listens to its errors: open, write and close  *)
(* may each fail, and end the process.                                      *)

StreamOpens(r) ==
  /\ process = "running"
  /\ stream[r].state = "opening"
  /\ \/ /\ stream' = [stream EXCEPT ![r].state = "open"]
        /\ file' = [exists |-> TRUE, data |-> [n \in 1..MaxChunks |-> Nobody]]
        /\ UNCHANGED <<req, process>>
     \/ Dies

StreamWrites(r) ==
  /\ process = "running"
  /\ stream[r].state = "open"
  /\ stream[r].written < stream[r].chunks
  /\ \/ /\ stream' = [stream EXCEPT ![r].written = @ + 1]
        /\ file' = [file EXCEPT !.data[stream[r].written + 1] = r]
        /\ UNCHANGED <<req, process>>
     \/ Dies

StreamCloses(r) ==
  /\ process = "running"
  /\ stream[r].state = "open" /\ stream[r].ended
  /\ stream[r].written = stream[r].chunks
  /\ \/ /\ stream' = [stream EXCEPT ![r].state = "closed"]
        /\ UNCHANGED <<req, file, process>>
     \/ Dies

-----------------------------------------------------------------------------
(* The request and the response.                                            *)

\* Any other status rejects, and leaves the stream to itself.
Response(r) ==
  /\ process = "running"
  /\ req[r].pc = "waiting"
  /\ \/ \E n \in 0..MaxChunks : req' = [req EXCEPT ![r].pc = "reading", ![r].body = n]
     \/ req' = [req EXCEPT ![r].pc = "rejected"]
  /\ UNCHANGED <<stream, file, process>>

\* req.on('error')
Unreachable_Unheard(r) ==
  /\ process = "running"
  /\ req[r].pc = "waiting"
  /\ Dies
Unreachable(r) ==
  /\ process = "running"
  /\ req[r].pc = "waiting"
  /\ req' = [req EXCEPT ![r].pc = "rejected"]
  /\ UNCHANGED <<stream, file, process>>

\* n chunks are read, of which `hashed` are hashed and `kept` handed to a stream.
Take(r, n, hashed, kept) ==
  /\ req' = [req EXCEPT ![r].read = @ + n, ![r].md5Hash = @ + hashed]
  /\ stream' = [stream EXCEPT ![r].chunks = IF stream[r].state = "none" THEN 0 ELSE @ + kept]
  /\ UNCHANGED <<file, process>>

\* res.on("readable"): every chunk is hashed, and handed to the stream.
Reading(r) == process = "running" /\ req[r].pc = "reading"
Readable_HashedOnce(r) ==
  Reading(r) /\ \E n \in 1..(req[r].body - req[r].read) : Take(r, n, 1, n)
Readable_Unbuffered(r) ==
  Reading(r) /\ \E n \in 1..(req[r].body - req[r].read) :
    Take(r, n, n, IF stream[r].state = "open" THEN n ELSE 0)
Readable_Twice(r) ==
  Reading(r) /\ \E n \in 1..(req[r].body - req[r].read) : Take(r, n, n + n, n)
Readable(r) ==
  Reading(r) /\ \E n \in 1..(req[r].body - req[r].read) : Take(r, n, n, n)

\* The connection breaks: a reset is an error of the request, and rejects; to
\* what says that the response was cut off the code does not listen.
Broken(r) ==
  /\ Reading(r)
  /\ \E pc \in {"broken", "rejected"} : req' = [req EXCEPT ![r].pc = pc]
  /\ UNCHANGED <<stream, file, process>>

\* statSync of whatever is on the disk by now.
Resolve(r) ==
  req' = [req EXCEPT ![r].pc = "resolved",
                     ![r].result = [size |-> Size(file), md5Hash |-> req[r].md5Hash]]

\* A file that is not there is looked for once more, two seconds later.
Retry_Never(r) == req' = [req EXCEPT ![r].pc = "ended"]
Retry(r) == req' = [req EXCEPT ![r].pc = "later"]

\* res.on("end"): without a file the handler uses a name it does not know.
ResponseEnds(r) ==
  /\ Reading(r) /\ req[r].read = req[r].body
  /\ IF stream[r].state = "none" THEN Dies
     ELSE /\ stream' = [stream EXCEPT ![r].ended = TRUE]
          /\ IF file.exists THEN Resolve(r) ELSE Retry(r)
          /\ UNCHANGED <<file, process>>

\* Two seconds later.
Later(r) ==
  /\ process = "running"
  /\ req[r].pc = "later"
  /\ IF file.exists THEN Resolve(r) ELSE req' = [req EXCEPT ![r].pc = "rejected"]
  /\ UNCHANGED <<stream, file, process>>

-----------------------------------------------------------------------------
ResponseStep(r) == Response(r) \/ Unreachable(r) \/ Readable(r) \/ Broken(r) \/ ResponseEnds(r) \/ Later(r)
StreamStep(r) == StreamOpens(r) \/ StreamWrites(r) \/ StreamCloses(r)

NetworkNext == \E r \in Requests : Request(r) \/ ResponseStep(r) \/ StreamStep(r)

NetworkSpec == NetworkInit /\ [][NetworkNext]_networkVars

\* The peer answers or fails, the event loop reads what has arrived, timers
\* fire and files are opened and written.
NetworkFairness ==
  \A r \in Requests : WF_networkVars(ResponseStep(r)) /\ WF_networkVars(StreamStep(r))

-----------------------------------------------------------------------------
NetworkTypeOK ==
  /\ req \in [Requests -> [pc : {"idle", "waiting", "reading", "broken", "later"} \cup Settled,
                           body : 0..MaxChunks, read : 0..MaxChunks, md5Hash : 0..MaxChunks,
                           result : [size : 0..MaxChunks, md5Hash : 0..MaxChunks]]]
  /\ stream \in [Requests -> [state : {"none", "opening", "open", "closed"}, ended : BOOLEAN,
                              chunks : 0..MaxChunks, written : 0..MaxChunks]]
  /\ file \in [exists : BOOLEAN, data : [1..MaxChunks -> Requests \cup {Nobody}]]
  /\ process \in {"running", "crashed"}

\* The size in a result may be that of a file not written yet, or of another
\* request's; the md5Hash never is: it covers the whole body and nothing else
\* (lines 78-80, 99, 105), so it is what a caller must compare.
HashIsOfBody ==
  \A r \in Requests :
    /\ stream[r].state # "none" => stream[r].chunks = req[r].read
    /\ req[r].pc = "resolved" => req[r].result.md5Hash = req[r].body

\* No failure of the peer ends the process: only the file of some request does
\* that cannot be opened, written or closed (line 57: nobody listens), or the end
\* of a response that no file was given for (line 115).
CrashesAreLocal ==
  process = "crashed" => \E r \in Requests :
    \/ stream[r].state = "opening"
    \/ stream[r].state = "open" /\ (stream[r].written < stream[r].chunks \/ stream[r].ended)
    \/ stream[r].state = "none" /\ req[r].pc = "reading" /\ req[r].read = req[r].body

\* Every request settles, unless the response breaks off half-way (nothing
\* tells the caller) or the process is gone.
EveryRequestSettles ==
  \A r \in Requests :
    req[r].pc = "waiting" ~> (req[r].pc \in Settled \cup {"broken"} \/ process = "crashed")

\* The stream of a request that resolved goes on after the result was given:
\* its file is complete in the end, if no other request was made of the path.
FileCompletes ==
  \A r \in Requests :
    req[r].pc = "resolved" ~>
      \/ process = "crashed" \/ \E o \in Requests \ {r} : req[o].pc # "idle"
      \/ \A n \in 1..MaxChunks : file.data[n] = r <=> n <= req[r].body
=============================================================================
