------------------------------ MODULE Offline ------------------------------
(***************************************************************************)
(* src/lib/offline.js: the programs that run outside a server.  stop()     *)
(* ends their stub, whatever calls are in flight, and a second later the   *)
(* process exits, whatever has become of them.  The second is not          *)
(* measured: the timer may fire before or after any answer.                *)
(***************************************************************************)
EXTENDS MariadbStub

VARIABLE stopping   \* whether a timer of stop() is pending

offlineVars == <<vars, stopping>>

OfflineInit == Init /\ stopping = FALSE

\* `if (this.db) this.db.end()`: the stub may be another object's.
stop ==
  /\ stopping' = TRUE
  /\ \/ End
     \/ Idle /\ UNCHANGED vars

\* process.exit(status)
Exit ==
  /\ Quiet /\ stopping
  /\ proc' = "exited"
  /\ UNCHANGED <<stopping, stubVars, pc, mode, on, fault, reading, conn, db, durable>>

OfflineNext == (Next /\ UNCHANGED stopping) \/ stop \/ Exit

OfflineSpec == OfflineInit /\ [][OfflineNext]_offlineVars

-----------------------------------------------------------------------------
\* What a call wrote that its caller was told had failed is saved only if
\* another call used the connection at the time: its START TRANSACTION, or its
\* COMMIT, commits what both have written (mariadb.js 255, 270, and 109, where
\* throwOnError skips the ROLLBACK); or if, with a pool, the failure of a call
\* on another connection rolled this one's transaction back, so that the
\* statement ran outside any (127).  The end of the stub and the exit of the
\* process never do.
PartialOnlyByAnother ==
  \A c \in Calls :
    pc[c] \in {"swallowed", "rejected"} /\ c \in durable =>
      \E d \in Calls \ {c} :
        \/ on[d] = on[c] /\ pc[d] \notin {"idle", "connecting", "checking"}
        \/ Undid(d, on[c])
=============================================================================
