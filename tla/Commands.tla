------------------------------- MODULE Commands -------------------------------
(***************************************************************************)
(* The commands of mwsqlctl that make several calls and report in between: *)
(* the wizard (wizard.rs), `env add` with its credential and its check     *)
(* (main.rs), and `env test` with the two ways a probe is run and judged   *)
(* (probe.rs, control_client.rs; mwsqld/src/main.rs, lib.rs).              *)
(*                                                                         *)
(* One operator is followed step by step; everybody else's commands, and   *)
(* the ones that are a single call, are steps of ConfigEdits that happen   *)
(* at any time.  A call changes the configuration at once (Daemon and      *)
(* SealedStore look inside); over the control channel its answer may be    *)
(* lost.  What the operator types is chosen when it is used.  Left out:    *)
(* the wording, and the listings, which only print.                        *)
(***************************************************************************)
EXTENDS ConfigEdits, Sequences, SequencesExt, FiniteSets, FiniteSetsExt

CONSTANTS
    Modes,   \* "channel" and "direct": how the commands reach the config
    Tofu     \* whether probes accept the key of a bastion without a pin

ASSUME CommandsAssumption == Modes \subseteq {"channel", "direct"} /\ Tofu \in BOOLEAN

\* No token that is minted here comes with an import: 0 stands for them.
ASSUME ImportsAssumption ==
    \A f \in Fragments : \A e \in EnvsOf(f) : f.envs[e].client_auth.token = 0

VARIABLES
    mode,    \* how this behaviour's commands reach the config
    op,      \* the command under way
    shown,   \* history: the tokens an operator got to see
    lost,    \* history: the tokens of commands that ended in an error
    said     \* the probe that was just made and what the operator is told of it

cmdVars == <<cfg, minted, mode, op, shown, lost, said>>
history == <<shown, lost>>

Outcomes == {"ok", "failed", "unsupported"}
Verdicts == {"connected", "skipped", "failed"}

(* creds and bastions are the lists the wizard fetched, mine the tokens    *)
(* minted for it, token the one it has yet to show, changed what it        *)
(* returns.                                                                *)
Command ==
    [at : {"idle", "url", "check", "bastions", "credentials", "envs", "retry",
           "pinned", "validate", "menu", "finish"},
     env : EnvNames \union {Absent}, bastion : BastionNames \union {Absent},
     creds : SUBSET CredNames, bastions : SUBSET BastionNames,
     token : 0..MaxToken, mine : SUBSET (1..MaxToken), changed : BOOLEAN]

CommandsTypeOK ==
    /\ TypeOK
    /\ mode \in Modes
    /\ op \in Command
    /\ shown \subseteq 1..minted
    /\ lost \subseteq 1..minted
    /\ said.verdict \in Verdicts /\ \A i \in DOMAIN said.results : said.results[i] \in Outcomes

Idle == [at |-> "idle", env |-> Absent, bastion |-> Absent, creds |-> {}, bastions |-> {},
         token |-> 0, mine |-> {}, changed |-> FALSE]

Silent == [verdict |-> "skipped", results |-> <<>>]

CommandsInit ==
    /\ Init
    /\ mode \in Modes
    /\ op = Idle
    /\ shown = {}
    /\ lost = {}
    /\ said = Silent

-----------------------------------------------------------------------------
(* Calls.  The answer to a call over the channel may not arrive. *)

AnswerLost == mode = "channel"

(* The command ends with an error: a token it holds has not been shown. *)
Abort ==
    /\ op' = Idle
    /\ lost' = lost \union ({op.token} \ {0})
    /\ UNCHANGED shown

(* A command that is one call: all of them but env add, env test and the   *)
(* wizard.                                                                 *)
OneCall ==
    /\ Next
    /\ LET new == {minted'} \ {minted}
       IN  \/ shown' = shown \union new /\ UNCHANGED lost
           \/ AnswerLost /\ new # {} /\ lost' = lost \union new /\ UNCHANGED shown
    /\ UNCHANGED <<mode, op>>

-----------------------------------------------------------------------------
(* Probes. *)

(* What probing e comes to.  An env that is not configured is a failure,   *)
(* an engine without a probe is none.                                      *)
probe_one_env(e) ==
    LET env == cfg.envs[e]
    IN  IF env = Absent THEN {"failed"}
        ELSE IF env.engine = "mssql" THEN {"unsupported"}
        ELSE IF env.bastion # Absent /\ cfg.bastions[env.bastion].pinned = {} /\ ~Tofu
             THEN {"failed"}
        ELSE {"ok", "failed"}

(* test_envs: one result for each env, in the order of their names. *)
test_envs(results, envs) ==
    LET names == SetToSortSeq(envs, <)
    IN  /\ DOMAIN results = 1..Cardinality(envs)
        /\ \A i \in DOMAIN results : results[i] \in probe_one_env(names[i])

Has(results, outcome) == outcome \in Range(results)

(* Mutant: an env without a probe path fails the run. *)
exit_ok_strict(results) == \A i \in DOMAIN results : results[i] = "ok"

(* The exit status of `mwsqld test`. *)
exit_ok(results) == \A i \in DOMAIN results : results[i] # "failed"

(* probe::validate reads the status and the lines of `mwsqld test`. *)
validate_direct(results) ==
    IF results = <<>> THEN "skipped"
    ELSE IF ~exit_ok(results) THEN "failed"
    ELSE IF Has(results, "unsupported") /\ ~Has(results, "ok") THEN "skipped"
    ELSE "connected"

(* render_probe_results, and Backend::validate for one env. *)
render_probe_results(results) ==
    IF Has(results, "failed") THEN "failed"
    ELSE IF Has(results, "ok") THEN "connected" ELSE "skipped"

Judge(results) ==
    IF mode = "direct" THEN validate_direct(results) ELSE render_probe_results(results)

(* envs are probed and the operator is told. *)
Probe(envs, verdict) ==
    \E results \in UNION {[1..n -> Outcomes] : n \in 0..Cardinality(envs)} :
        /\ test_envs(results, envs)
        /\ verdict = Judge(results)
        /\ said' = [verdict |-> verdict, results |-> results]

(* No env is probed: there is no daemon binary, or no answer; or `mwsqld   *)
(* test` ends before its first probe, which reads as a failure.            *)
NotProbed(verdict) ==
    /\ verdict = "skipped" \/ (verdict = "failed" /\ mode = "direct")
    /\ said' = Silent

(* The operator reads what was printed. *)
Told ==
    /\ said # Silent
    /\ said' = Silent
    /\ UNCHANGED <<cfg, minted, mode, op, shown, lost>>

EnvTest(envs) ==
    /\ op.at = "idle"
    /\ \E verdict \in Verdicts : Probe(envs, verdict)
    /\ UNCHANGED <<cfg, minted, mode, op, shown, lost>>

-----------------------------------------------------------------------------
(* env add. *)

(* With --url the credential comes first, under the env's own name. *)
add_credential_for_url(e, pw) ==
    /\ op.at = "idle"
    /\ e \in CredNames
    /\ AddCred(e, pw)
    /\ op' = [op EXCEPT !.at = "url", !.env = e]
    /\ UNCHANGED <<mode, history>>

(* The token is printed at once, then the env is probed unless             *)
(* --no-validate was given.                                                *)
EnvAdd(e, b, c, policy, engine, asked, no_validate) ==
    /\ \/ op.at = "idle"
       \/ op.at = "url" /\ e = op.env /\ c = e
    /\ AddEnv(e, b, c, policy, engine, asked)
    /\ \/ /\ shown' = shown \union {minted'}
          /\ op' = IF no_validate THEN Idle ELSE [Idle EXCEPT !.at = "check", !.env = e]
          /\ UNCHANGED lost
       \/ /\ AnswerLost
          /\ lost' = lost \union {minted'}
          /\ op' = Idle
          /\ UNCHANGED shown
    /\ UNCHANGED mode

(* The credential stays when the env is refused. *)
EnvAddFails ==
    /\ op.at = "url"
    /\ Abort
    /\ UNCHANGED <<cfg, minted, mode>>

(* The env stays whatever comes of the check. *)
validate_after_add ==
    /\ op.at = "check"
    /\ \E verdict \in Verdicts : Probe({op.env}, verdict) \/ NotProbed(verdict)
    /\ op' = Idle
    /\ UNCHANGED <<cfg, minted, mode, shown, lost>>

-----------------------------------------------------------------------------
(* The wizard. *)

run_config ==
    /\ op.at = "idle"
    /\ op' = [op EXCEPT !.at = "bastions"]
    /\ UNCHANGED <<cfg, minted, mode, history>>

(* An add that is refused, or whose answer is lost, is printed and the     *)
(* loop goes on.                                                           *)
add_bastions_loop(b, h, pins) ==
    /\ op.at = "bastions"
    /\ Cardinality(pins) <= 1
    /\ AddBastion(b, h, pins)
    /\ op' = [op EXCEPT !.changed = TRUE] \/ (AnswerLost /\ UNCHANGED op)
    /\ UNCHANGED <<mode, history>>

BastionsDone ==
    /\ op.at = "bastions"
    /\ op' = [op EXCEPT !.at = "credentials"]
    /\ UNCHANGED <<cfg, minted, mode, history>>

add_credentials_loop(c, pw) ==
    /\ op.at = "credentials"
    /\ AddCred(c, pw)
    /\ op' = [op EXCEPT !.changed = TRUE] \/ (AnswerLost /\ UNCHANGED op)
    /\ UNCHANGED <<mode, history>>

(* The lists are fetched once. *)
CredentialsDone ==
    /\ op.at = "credentials"
    /\ op' = [op EXCEPT !.at = "envs",
                        !.creds = {c \in CredNames : cfg.credentials[c] # Absent},
                        !.bastions = {b \in BastionNames : cfg.bastions[b] # Absent}]
    /\ UNCHANGED <<cfg, minted, mode, history>>

(* prompt_env_input: the bastion and the credential come from the lists;   *)
(* after a pin was set the bastion is the one that was pinned.             *)
prompt_env_input(b, c) ==
    /\ b \in op.bastions \union {Absent}
    /\ c \in op.creds
    /\ op.at = "pinned" => b = op.bastion

(* What the loop keeps from one env to the next. *)
Onward(next) == [op EXCEPT !.at = next, !.env = Absent, !.bastion = Absent, !.token = 0]

add_envs_loop(e, b, c, policy, engine) ==
    /\ op.at \in {"envs", "retry", "pinned"}
    /\ prompt_env_input(b, c)
    /\ AddEnv(e, b, c, policy, engine, Absent)
    /\ \/ /\ op' = [op EXCEPT !.at = "validate", !.env = e, !.bastion = Absent,
                              !.token = minted', !.mine = @ \union {minted'}]
          /\ UNCHANGED lost
       \/ /\ AnswerLost
          /\ op' = [Onward("envs") EXCEPT !.mine = @ \union {minted'}]
          /\ lost' = lost \union {minted'}
    /\ UNCHANGED <<mode, shown>>

(* The env is refused. *)
AddRefused ==
    /\ op.at \in {"retry", "pinned"}
    /\ op' = Onward("envs")
    /\ UNCHANGED <<cfg, minted, mode, history>>

(* print_block, and added = true. *)
Keep ==
    /\ op' = [Onward("envs") EXCEPT !.changed = TRUE]
    /\ shown' = shown \union {op.token}

Validate ==
    /\ op.at = "validate"
    /\ \E verdict \in Verdicts :
          /\ Probe({op.env}, verdict) \/ NotProbed(verdict)
          /\ IF verdict = "failed"
             THEN op' = [op EXCEPT !.at = "menu"] /\ UNCHANGED shown
             ELSE Keep
    /\ UNCHANGED <<cfg, minted, mode, lost>>

KeepAnyway ==
    /\ op.at = "menu"
    /\ Keep
    /\ UNCHANGED <<cfg, minted, mode, lost>>

(* Mutant: retrying leaves the env that failed where it is. *)
RemoveAdded_not(next) ==
    /\ op.at = "menu"
    /\ op' = Onward(next)
    /\ UNCHANGED <<cfg, minted, mode, history>>

(* "edit & retry" and "discard": rm_env by name, whoever's env now has it. *)
RemoveAdded(next) ==
    /\ op.at = "menu"
    /\ RmEnv(op.env)
    /\ op' = Onward(next)
    /\ UNCHANGED <<mode, history>>

ensure_bastion_pinned(b, k) ==
    /\ op.at = "retry"
    /\ b \in op.bastions
    /\ cfg.bastions[b] # Absent
    /\ cfg.bastions[b].pinned = {}
    /\ SetFingerprint(b, k)
    /\ op' = [op EXCEPT !.at = "pinned", !.bastion = b]
    /\ UNCHANGED <<mode, history>>

EnvsDone ==
    /\ op.at = "envs"
    /\ op' = [op EXCEPT !.at = "finish", !.creds = {}, !.bastions = {}]
    /\ UNCHANGED <<cfg, minted, mode, history>>

Finish ==
    /\ op.at = "finish"
    /\ op' = Idle
    /\ UNCHANGED <<cfg, minted, mode, history>>

(* A prompt is interrupted, or a list, a removal or a pin fails. *)
Interrupted ==
    /\ op.at \notin {"idle", "url", "check", "finish"}
    /\ Abort
    /\ UNCHANGED <<cfg, minted, mode>>

-----------------------------------------------------------------------------
EnvSteps ==
    \E e \in EnvNames, b \in BastionNames \union {Absent}, c \in CredNames,
       policy \in Policies, engine \in Engines :
        \/ \E asked \in ListenPorts \union {Absent}, no_validate \in BOOLEAN :
              EnvAdd(e, b, c, policy, engine, asked, no_validate)
        \/ add_envs_loop(e, b, c, policy, engine)

Probes == EnvTest(EnvsOf(cfg)) \/ (\E e \in EnvNames : EnvTest({e}))
            \/ validate_after_add \/ Validate

Wizard ==
    \/ run_config \/ BastionsDone \/ CredentialsDone
    \/ \E b \in BastionNames, h \in Hosts, pins \in SUBSET Keys : add_bastions_loop(b, h, pins)
    \/ \E c \in CredNames, pw \in Passwords : add_credentials_loop(c, pw)
    \/ AddRefused \/ KeepAnyway
    \/ \E next \in {"retry", "envs"} : RemoveAdded(next)
    \/ \E b \in BastionNames, k \in Keys : ensure_bastion_pinned(b, k)
    \/ EnvsDone \/ Finish \/ Interrupted

Calls ==
    \/ OneCall
    \/ \E e \in EnvNames, pw \in Passwords : add_credential_for_url(e, pw)
    \/ EnvSteps
    \/ EnvAddFails
    \/ Wizard

(* The outcome of a probe is read before anything else happens. *)
CommandsNext ==
    \/ said = Silent /\ Probes
    \/ said = Silent /\ Calls /\ UNCHANGED said
    \/ Told

CommandsSpec == CommandsInit /\ [][CommandsNext]_cmdVars

-----------------------------------------------------------------------------
(* Properties. *)

TokenOf(e) == cfg.envs[e].client_auth.token

(* "The token is one-time -- always print it": whatever was probed, kept,  *)
(* retried or discarded and whoever else edits meanwhile, the token of     *)
(* every env that is configured was shown to an operator, is about to be,  *)
(* or belongs to a command that told its operator that it failed; and a    *)
(* wizard that ends without a change to report has left no env behind.     *)
(* (Token 0 stands for the tokens an import brings along.)                 *)
KeptIsShown ==
    \A e \in EnvsOf(cfg) :
        /\ TokenOf(e) \in {0, op.token} \union shown \union lost
        /\ (op.at = "finish" /\ TokenOf(e) \in op.mine \ lost) => op.changed

(* After a probe the operator is told of a failure exactly when an env     *)
(* that can be probed was not reached, and of a connection only when one   *)
(* was made, whether `mwsqld test` was run or the daemon was asked         *)
(* (validate, render_probe_results).                                       *)
VerdictIsTrue ==
    /\ said.verdict = "failed" <=> Has(said.results, "failed")
    /\ said.verdict = "connected" => Has(said.results, "ok")
=============================================================================
