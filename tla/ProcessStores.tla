--------------------------- MODULE ProcessStores ---------------------------
(***************************************************************************)
(* What a process keeps for itself: its Redis clients, its settings, the   *)
(* records and texts of its cache, what its models show and the options    *)
(* they are sent with.  The parts share no state; a behaviour is one of a  *)
(* single part, chosen at first.                                           *)
(***************************************************************************)
EXTENDS RedisStore, SysEnv, FileInfo, Texts, Sanitizer, Payload

VARIABLE part   \* the one that runs

storesVars == <<part, redisVars, sysEnvVars, fileInfoVars, textsVars, sanitizerVars, payloadVars>>

\* The last is a part of ProcessState.
Part == {"redis", "settings", "files", "texts", "sanitizer", "payload", "helpers"}

StoresInit ==
  /\ part \in Part
  /\ RedisInit /\ SysEnvInit /\ FileInfoInit /\ TextsInit /\ SanitizerInit /\ PayloadInit

StoresNext ==
  /\ UNCHANGED part
  /\ part = "redis" \/ UNCHANGED redisVars
  /\ part = "settings" \/ UNCHANGED sysEnvVars
  /\ part = "files" \/ UNCHANGED fileInfoVars
  /\ part = "texts" \/ UNCHANGED textsVars
  /\ part = "sanitizer" \/ UNCHANGED sanitizerVars
  /\ part = "payload" \/ UNCHANGED payloadVars
  /\ \/ part = "redis" /\ RedisNext
     \/ part = "settings" /\ SysEnvNext
     \/ part = "files" /\ FileInfoNext
     \/ part = "texts" /\ TextsNext
     \/ part = "sanitizer" /\ SanitizerNext
     \/ part = "payload" /\ PayloadNext

StoresSpec == StoresInit /\ [][StoresNext]_storesVars

-----------------------------------------------------------------------------
\* The types of every part with a state that a step could spoil.
ProcessTypeOK ==
  /\ RedisTypeOK /\ SysEnvTypeOK /\ FileInfoTypeOK /\ TextsTypeOK /\ SanitizerTypeOK
  /\ PayloadTypeOK

\* Models: what a model shows is rid of secrets and names its own request's
\* sender, and showing it leaves the model its own attributes; each but for a
\* case that is named (logger.js 252-352).
ModelsShowTheirOwn == CleanIsClean /\ ThrowsOnLaterPath /\ OwnAttributesKept /\ ForeignSenderOnReuse
=============================================================================
