------------------------------- MODULE SysEnv -------------------------------
(***************************************************************************)
(* src/lib/sysEnv.js: the settings of the process.  loadSysEnv reads them  *)
(* from files under a root ("/etc", or a directory it is given), from the  *)
(* environment and from defaults; the modules that import it copy what     *)
(* they need once, configs.js among them, which picks the credentials of   *)
(* the database.                                                           *)
(*                                                                         *)
(* drumee.json is read by require(), which gives the same answer for ever  *)
(* once it has read the file; the others are read anew by each load.  A    *)
(* file that does not parse makes the load throw where it stands.          *)
(*                                                                         *)
(* An operator named X_Y is X with a fault: the properties are tested by   *)
(* putting it in X's place (PROJECT.json, "mutants").                      *)
(***************************************************************************)
EXTENDS Naturals, Sequences

CONSTANTS Roots,        \* directories with a tree of settings
          SystemRoot,   \* the one used until another is given
          Importers,    \* modules that keep what sysEnv() told them
          Editions,     \* contents a file may have
          Gives,        \* the settings drumee.json gives, by edition
          EnvVars,      \* settings the environment gives
          MaxLoads, MaxEdits

Setting == {"public_domain", "endpoint_name", "export_dir", "tmp_dir", "ui_home"}

ASSUME SysEnvAssumption ==
  /\ SystemRoot \in Roots
  /\ Gives \in [Editions -> SUBSET Setting]
  /\ EnvVars \subseteq Setting
  /\ Editions \cap {"absent", "broken"} = {}
  /\ MaxLoads \in Nat \ {0} /\ MaxEdits \in Nat

VARIABLES
  envRoot,     \* EXCHANGE, MY_CONF, sysEnvFile and credential_dir are under it
  disk,        \* what the files of every root hold
  required,    \* require.cache: what drumee.json of a root was read to be
  configs,     \* COFIGS: the root and the editions it was made of
  uiInfo,      \* UI_INFO: the settings by which it was found
  returned,    \* whether the last loadSysEnv returned or threw
  copies,      \* what the importers keep, and the number of loads before
  dbConf,      \* where configs.js found the credentials of the database
  consts,      \* CONST, of one name
  loads, edits \* how many changes of COFIGS and of the files there were

sysEnvVars ==
  <<envRoot, disk, required, configs, uiInfo, returned, copies, dbConf, consts, loads, edits>>

\* exchange.json stands for both files of conf.d.
File == {"drumee.json", "exchange.json"}
Held == Editions \cup {"absent", "broken"}
Read == Editions \cup {"absent"}
Settings == [root : Roots, drumee : Read, exchange : Read]
NoFile == [root |-> SystemRoot, drumee |-> "absent", exchange |-> "absent"]

\* The import loads the settings (line 233), here those of a fresh machine.
SysEnvInit ==
  /\ envRoot = SystemRoot
  /\ disk = [r \in Roots |-> [f \in File |-> "absent"]]
  /\ required = [r \in Roots |-> "absent"]
  /\ configs = NoFile /\ uiInfo = NoFile /\ returned = TRUE
  /\ copies = [m \in Importers |-> [load |-> 0, of |-> NoFile]]
  /\ dbConf = "undefined"
  /\ consts = [value |-> "undefined", given |-> {}]
  /\ loads = 1 /\ edits = 0

-----------------------------------------------------------------------------
\* Where a setting comes from, most important first; then its default, which
\* default/env.json holds or the code derives from drumee_root.
Precedence(s) ==
  CASE s = "public_domain" -> <<"drumee.json", "env">>
    [] s = "endpoint_name" -> <<"env", "drumee.json">>
    [] s = "export_dir" -> <<"exchange.json", "drumee.json">>
    [] s = "tmp_dir" -> <<"drumee.json", "env">>
    [] s = "ui_home" -> <<"env">>

Has(conf, source, s) ==
  CASE source = "env" -> s \in EnvVars
    [] source = "exchange.json" -> conf.exchange # "absent"
    [] source = "drumee.json" -> conf.drumee # "absent" /\ s \in Gives[conf.drumee]

SourceOf(conf, s) ==
  LET having == SelectSeq(Precedence(s), LAMBDA source : Has(conf, source, s)) IN
  IF having = <<>> THEN "default" ELSE Head(having)

\* What drumee.json is taken to be: nothing if it is not there now, else what
\* it was when it was first read.
Required_Reread(r) == disk[r]["drumee.json"]
Required(r) ==
  IF disk[r]["drumee.json"] = "absent" THEN "absent"
  ELSE IF required[r] # "absent" THEN required[r]
  ELSE disk[r]["drumee.json"]

Paths(r) == [root |-> r, drumee |-> Required(r), exchange |-> disk[r]["exchange.json"]]

\* What require() keeps; it does not keep a failure.
Cached_Failure(before, read) == IF read = "absent" THEN before ELSE read
Cached(before, read) == IF read \in {"absent", "broken"} THEN before ELSE read

\* An index.json that does not parse makes uiInfo() throw.
Returns_Always(index) == TRUE
Returns(index) == index # "broken"

\* loadSysEnv(chroot).  A root that is not there leaves the one before.
\* COFIGS is replaced when all of it is known, and UI_INFO after it.
LoadFrom(r, index, ifBroken) ==
  LET new == Paths(r) IN
  /\ loads < MaxLoads
  /\ envRoot' = r
  /\ required' = [required EXCEPT ![r] = Cached(@, new.drumee)]
  /\ IF "broken" \in {new.drumee, new.exchange}
     THEN configs' = ifBroken /\ returned' = FALSE /\ UNCHANGED <<uiInfo, loads>>
     ELSE /\ configs' = new
          /\ loads' = loads + 1
          /\ returned' = Returns(index)
          /\ uiInfo' = IF index = "broken" THEN uiInfo ELSE new
  /\ UNCHANGED <<disk, copies, dbConf, consts, edits>>

Root(chroot, exists) == IF exists THEN chroot ELSE envRoot
loadSysEnv_Piecemeal(chroot, exists, index) ==
  LoadFrom(Root(chroot, exists), index, [configs EXCEPT !.root = Root(chroot, exists)])
loadSysEnv(chroot, exists, index) == LoadFrom(Root(chroot, exists), index, configs)

\* A module is imported and keeps what sysEnv() tells it.
Keeps(m, settings) ==
  /\ copies[m].load = 0
  /\ copies' = [copies EXCEPT ![m] = [load |-> loads, of |-> settings]]
  /\ UNCHANGED <<envRoot, disk, required, configs, uiInfo, returned, dbConf, consts, loads, edits>>
Import(m) == Keeps(m, configs)

\* configs.js: db.json of the endpoint, else of the root, else the socket; an
\* empty file is as good as none.  The endpoint `main` has no directory.
ChooseDb(instance, shared) ==
  LET named == SourceOf(configs, "endpoint_name") # "default"
      first == IF named /\ instance # "absent" THEN instance ELSE shared IN
  IF first # "full" THEN "socket"
  ELSE IF named /\ instance # "absent" THEN "instance" ELSE "shared"
ImportDbConf(instance, shared) ==
  /\ dbConf = "undefined"
  /\ dbConf' = ChooseDb(instance, shared)
  /\ UNCHANGED <<envRoot, disk, required, configs, uiInfo, returned, copies, consts, loads, edits>>

\* getSysConst keeps the value a name has; null counts as none.  `given` are
\* the values it has returned since setSysConst was last called.
Given(value, before) == consts' = [value |-> value, given |-> before \cup ({value} \ {"null"})]
ConstOnly ==
  UNCHANGED <<envRoot, disk, required, configs, uiInfo, returned, copies, dbConf, loads, edits>>
getSysConst_Latest(v) == Given(v, consts.given) /\ ConstOnly
getSysConst(v) ==
  Given(IF consts.value \in {"undefined", "null"} THEN v ELSE consts.value, consts.given) /\ ConstOnly
setSysConst(v) == Given(v, {}) /\ ConstOnly

\* Somebody writes or removes a file.
Edit(r, f, e) ==
  /\ edits < MaxEdits /\ disk[r][f] # e
  /\ disk' = [disk EXCEPT ![r][f] = e] /\ edits' = edits + 1
  /\ UNCHANGED <<envRoot, required, configs, uiInfo, returned, copies, dbConf, consts, loads>>

SysEnvNext ==
  \/ \E chroot \in Roots, exists \in BOOLEAN, index \in {"there", "absent", "broken"} :
       loadSysEnv(chroot, exists, index)
  \/ \E m \in Importers : Import(m)
  \/ \E instance, shared \in {"absent", "empty", "full"} : ImportDbConf(instance, shared)
  \/ \E v \in {"null", "a", "b"} : getSysConst(v) \/ setSysConst(v)
  \/ \E r \in Roots, f \in File, e \in Held : Edit(r, f, e)

SysEnvSpec == SysEnvInit /\ [][SysEnvNext]_sysEnvVars

-----------------------------------------------------------------------------
SysEnvTypeOK ==
  /\ envRoot \in Roots
  /\ disk \in [Roots -> [File -> Held]]
  /\ required \in [Roots -> Read]
  /\ configs \in Settings /\ uiInfo \in Settings /\ returned \in BOOLEAN
  /\ copies \in [Importers -> [load : 0..MaxLoads, of : Settings]]
  /\ dbConf \in {"undefined", "instance", "shared", "socket"}
  /\ consts \in [value : {"undefined", "null", "a", "b"}, given : SUBSET {"a", "b"}]
  /\ loads \in 1..MaxLoads /\ edits \in 0..MaxEdits

\* When loadSysEnv returns, all the settings are those of the root it used and
\* the UI information was found by them; one that throws (a file that does not
\* parse, lines 26, 94, 217) may leave the UI information of older settings.
ReturnedIsComplete == returned => configs.root = envRoot /\ uiInfo = configs

\* Two modules that were imported with no successful load between them agree
\* on everything, the root included, though a load in between may have thrown
\* after it had moved the paths (lines 19-22, 122).
CopiesAgree ==
  \A m, n \in Importers :
    copies[m].load = copies[n].load => copies[m].of = copies[n].of

\* Whatever is edited and however often it is loaded again, nobody ever has
\* two editions of the drumee.json of one root: the first one read stays, or
\* the defaults when the file is gone (lines 25-27).
OneEditionPerRoot ==
  \A m \in Importers :
    LET kept == copies[m].of IN
    kept.root = configs.root /\ "absent" \notin {kept.drumee, configs.drumee}
      => kept.drumee = configs.drumee

\* Between two calls of setSysConst all that ask for a constant are given one
\* value, whichever defaults they came with and in whatever order they asked
\* (lines 191-198); null is not a value.
OneConstant == \A v, w \in consts.given : v = w

\* Settings: however files are edited, loads fail and modules are imported
\* between them, the settings in use belong together and the modules agree on
\* them (sysEnv.js 17-233).
SettingsAgree == ReturnedIsComplete /\ CopiesAgree /\ OneEditionPerRoot /\ OneConstant
=============================================================================
