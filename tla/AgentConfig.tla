---------------------------- MODULE AgentConfig ----------------------------
(***************************************************************************)
(* The operator agent's settings (cmd/horstoperator-agent): the .env file  *)
(* the Settings page edits, the environment and the flags the process was  *)
(* started with, the configuration it runs with, and the restart that is   *)
(* to apply a save (config.go, diagnostics.go, restart_*.go, main.go).     *)
(*                                                                         *)
(* A setting has a value of SettingValues, the empty value or none at all. *)
(* A save is written to a temporary file that is renamed over the .env;    *)
(* the process may die between any two of these steps, because a restart   *)
(* ends it while a request is being served.                                *)
(***************************************************************************)
EXTENDS Integers, FiniteSets

CONSTANTS
    Managed,        \* configFields: keys the Settings page owns
    Unmanaged,      \* other lines of the .env
    Secrets,        \* managed keys whose blank form field means "unchanged"
    SettingValues,  \* values a setting may take
    BadValues,      \* values validateConfig refuses
    Savers,         \* requests that may save at the same time
    MaxSaves,       \* bound on saves
    MaxRestarts     \* bound on restarts

Missing == "missing"       \* no such line, variable or flag
Blank == ""                \* a line without a value
DefaultOf == "default"     \* the default of main()'s flag

ASSUME AgentConfigConstants ==
    /\ Secrets \subseteq Managed /\ Managed \cap Unmanaged = {}
    /\ BadValues \subseteq SettingValues
    /\ Missing \notin SettingValues /\ Blank \notin SettingValues
    /\ {MaxSaves, MaxRestarts} \subseteq Nat

Keys == Managed \cup Unmanaged
Good == SettingValues \ BadValues
NoLines == [k \in Keys |-> Missing]

VARIABLES
    envFile,    \* the .env, as the lines it holds
    tmpFile,    \* the temporary file beside it
    environ,    \* the environment the process was started with
    args,       \* its command line
    running,    \* s.cfg: the configuration main() resolved
    save,       \* by saver, the save being served
    acked,      \* ghost: managed values the last acknowledged save left on disk
    agentUp,    \* the process runs
    saves, restarts

configVars == <<envFile, tmpFile, environ, args, running, save, acked, agentUp, saves, restarts>>

NoSave == [at |-> "none", lines |-> NoLines, keys |-> {}]
NoSaves == [r \in Savers |-> NoSave]

(***************************************************************************)
(* Reading the settings.                                                   *)
(***************************************************************************)
\* dotenv.Load: a line sets its key unless the environment already has it.
Load(env, file) == [k \in Keys |-> IF env[k] # Missing THEN env[k] ELSE file[k]]

\* envOr, envIntOr, envBoolOr, envFloatOr: a blank variable is as good as none.
envOr(env, k) == IF env[k] \in {Missing, Blank} THEN DefaultOf ELSE env[k]

\* main(): a flag that was given wins, otherwise the environment's value or the
\* default.  A secret has no flag.
Resolve(env, flags, file) ==
    [k \in Managed |-> IF k \notin Secrets /\ flags[k] # Missing THEN flags[k]
                       ELSE envOr(Load(env, file), k)]

\* effectiveConfig: what the saved file will make of a setting, and whether it
\* still waits for a restart.
Effective(k) == IF envFile[k] \in {Missing, Blank} THEN running[k] ELSE envFile[k]
PendingRestart(k) == Effective(k) # running[k]

(***************************************************************************)
(* POST /v1/config.                                                        *)
(***************************************************************************)
\* handleConfigPost: unknown keys are ignored, a blank secret is unchanged.
UpdatesOf(form) == {k \in Managed : form[k] # Missing /\ ~(k \in Secrets /\ form[k] = Blank)}

\* validateConfig
validateConfig(form) == \A k \in UpdatesOf(form) : form[k] \notin BadValues

\* upsertEnvFile: the lines with the updates put in, every other line kept.
upsertEnvFile(file, form) == [k \in Keys |-> IF k \in UpdatesOf(form) THEN form[k] ELSE file[k]]

\* The form is refused, or the file is read and its new lines are made up.
SaveBegin(r, form) ==
    /\ agentUp /\ save[r].at = "none" /\ saves < MaxSaves
    /\ saves' = saves + 1
    /\ validateConfig(form)
    /\ save' = [save EXCEPT ![r] = [at |-> "write", lines |-> upsertEnvFile(envFile, form),
                                    keys |-> UpdatesOf(form)]]
    /\ UNCHANGED <<envFile, tmpFile, environ, args, running, acked, agentUp, restarts>>

SaveRefused(form) ==
    /\ agentUp /\ saves < MaxSaves
    /\ ~validateConfig(form)
    /\ saves' = saves + 1
    /\ UNCHANGED <<envFile, tmpFile, environ, args, running, save, acked, agentUp, restarts>>

\* os.WriteFile(tmp).  Every save uses the same temporary name.
WriteTmp(r) ==
    /\ agentUp /\ save[r].at = "write"
    /\ \/ tmpFile' = save[r].lines /\ save' = [save EXCEPT ![r].at = "rename"]
       \/ tmpFile' = NoLines /\ save' = [save EXCEPT ![r] = NoSave]     \* disk full: 500
    /\ UNCHANGED <<envFile, environ, args, running, acked, agentUp, saves, restarts>>

\* os.Rename, and the answer; an error when another save took the file away.
RenameTmp(r) ==
    /\ agentUp /\ save[r].at = "rename"
    /\ save' = [save EXCEPT ![r] = NoSave]
    /\ IF tmpFile = NoLines THEN UNCHANGED <<envFile, tmpFile, acked>>
       ELSE /\ envFile' = tmpFile
            /\ tmpFile' = NoLines
            /\ acked' = [k \in Managed |-> IF k \in save[r].keys THEN save[r].lines[k] ELSE acked[k]]
    /\ UNCHANGED <<environ, args, running, agentUp, saves, restarts>>

(***************************************************************************)
(* POST /v1/restart, and the process that comes up.                        *)
(***************************************************************************)
\* The process ends, at whatever step the save is.
RestartAgent ==
    /\ agentUp /\ restarts < MaxRestarts
    /\ restarts' = restarts + 1
    /\ agentUp' = FALSE
    /\ save' = NoSaves
    /\ UNCHANGED <<envFile, tmpFile, environ, args, running, acked, saves>>

\* Mutant: the child inherits the environment as it is.
restartEnvironAll(env) == env

\* restartEnviron: the environment the child gets.  The parent's own Load has
\* put the .env's unmanaged values into it.
restartEnviron(env) == [k \in Keys |-> IF k \in Managed THEN Missing ELSE env[k]]

\* restartArgs: flags of managed keys are not passed on.
restartArgs(flags) == [k \in Keys |-> IF k \in Managed THEN Missing ELSE flags[k]]

\* restartAgent's child is a copy of the process, or on Windows the scheduled
\* task run anew: with the flags the task was made with, none of a managed key,
\* and the logon environment, which nothing strips and which is taken to hold
\* none either.
Children ==
    {[env |-> restartEnviron(environ), flags |-> restartArgs(args)],
     [env |-> NoLines, flags |-> NoLines]}

\* main() again, in the child.
AgentComesUp ==
    /\ ~agentUp
    /\ \E child \in Children :
         /\ environ' = Load(child.env, envFile)
         /\ args' = child.flags
         /\ running' = Resolve(child.env, child.flags, envFile)
    /\ agentUp' = TRUE
    /\ UNCHANGED <<envFile, tmpFile, save, acked, saves, restarts>>

ConfigInit ==
    /\ envFile \in {f \in [Keys -> Good \cup {Blank, Missing}] : \A k \in Unmanaged : f[k] \in Good}
    /\ \E env \in [Keys -> Good \cup {Missing}], flags \in [Keys -> Good \cup {Missing}] :
         /\ \A k \in Unmanaged : env[k] = Missing
         /\ \A k \in Unmanaged \cup Secrets : flags[k] = Missing
         /\ args = flags
         /\ environ = Load(env, envFile)
         /\ running = Resolve(env, flags, envFile)
    /\ tmpFile = NoLines /\ save = NoSaves
    /\ acked = [k \in Managed |-> envFile[k]]
    /\ agentUp = TRUE /\ saves = 0 /\ restarts = 0

Forms == [Managed -> SettingValues \cup {Blank, Missing}]

ConfigNext ==
    \/ \E r \in Savers, form \in Forms : SaveBegin(r, form)
    \/ \E form \in Forms : SaveRefused(form)
    \/ \E r \in Savers : WriteTmp(r)
    \/ \E r \in Savers : RenameTmp(r)
    \/ RestartAgent
    \/ AgentComesUp

ConfigSpec == ConfigInit /\ [][ConfigNext]_configVars

(***************************************************************************)
(* Properties.                                                             *)
(***************************************************************************)
\* ".env, which is the single source of truth: ... saving + restarting applies
\* them", "The write is atomic (temp file + rename)": whatever flags and
\* environment the agent was first started with, and at whatever step of
\* whatever save it was ended, a process that came up by restart runs with every
\* value the last acknowledged save left, and the diagnostics report nothing as
\* waiting for a restart.
RestartApplies ==
    [][ ~agentUp /\ agentUp' =>
          \A k \in Managed : acked[k] \in SettingValues =>
              running'[k] = acked[k] /\ ~PendingRestart(k)' ]_configVars
=============================================================================
