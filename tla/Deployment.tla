------------------------------ MODULE Deployment ------------------------------
(***************************************************************************)
(* How a deployment comes to be, is configured and goes away: the commands *)
(* init, uninstall, wizard and the config edits of mwsqlctl (init.rs,      *)
(* uninstall.rs, service.rs, wizard.rs, main.rs, control_client.rs), the   *)
(* choice of state directory and key store (mw-core/src/state.rs,          *)
(* keyring.rs) and the service they register.                              *)
(*                                                                         *)
(* One command runs at a time, one step per thing it does to the machine,  *)
(* and it may fail or be killed before any of them; the service starts and *)
(* stops on its own.  A command is started by the operator or by root and  *)
(* is run again as root when it elevates itself.  The state directories    *)
(* are the system's, one the operator names, and the per-user ones of the  *)
(* operator and of root, in which an earlier version may have left a       *)
(* deployment.  A key is its number; a config is the number of the key it  *)
(* is sealed with.                                                         *)
(*                                                                         *)
(* Left out: macOS (there the commands only print what to do), names of    *)
(* services, what is edited (Daemon), how a save is made (SealedStore).    *)
(***************************************************************************)
EXTENDS Naturals, FiniteSets

CONSTANTS
    OSes,          \* "linux", "windows"
    MaxCommands,   \* bound on the commands that are run
    MaxKeys,       \* bound on the keys that are generated
    UserDirFlag,   \* --user may come with --state-dir
    None

ASSUME DeploymentAssumption ==
    /\ OSes \subseteq {"linux", "windows"}
    /\ MaxCommands \in Nat /\ MaxKeys \in Nat \ {0}
    /\ UserDirFlag \in BOOLEAN

Accounts == {"operator", "root"}
Dirs == {"system", "custom", "user", "rhome"}
Keys == 1..MaxKeys

VARIABLES
    os,         \* the platform
    files,      \* what each state directory holds, who owns the config, the ACL
    keychain,   \* the key in each account's OS keychain
    account,    \* the service account exists
    group,      \* the admin group exists
    unit,       \* the state directory the registered service is given
    daemon,     \* the state directory the running service serves
    proc,       \* the command under way
    commands,   \* commands run so far
    keys        \* keys generated so far

machine == <<account, group, unit, daemon>>
store   == <<files, keychain, keys>>
vars == <<os, files, keychain, account, group, unit, daemon, proc, commands, keys>>

(* acl: on Windows the install script has given the directory to the       *)
(* service account and to Administrators, and to nobody else.              *)
Dir == [config : Keys \cup {None}, key : Keys \cup {None}, audit : BOOLEAN,
        owner : {"operator", "root", "service"}, acl : BOOLEAN]

Target == [dir : Dirs, ks : {"os", "file"}]

ASSUME NoneAssumption == None \notin Keys /\ None \notin Dirs /\ None \notin Target

Ops == {"init", "uninstall", "edit", "wizard"}

(* The flags of a command: --state-dir, --user, --file-keystore (which     *)
(* changes nothing without --user), --offline and --purge-audit.           *)
Flags == {f \in [dir : {None, "system", "custom"}, user : BOOLEAN, file : BOOLEAN,
                 offline : BOOLEAN, purge : BOOLEAN] :
             /\ f.user => (f.dir = None \/ UserDirFlag)
             /\ f.file => f.user}

NoProc == [pc |-> "none"]

TypeOK ==
    /\ os \in OSes
    /\ files \in [Dirs -> Dir]
    /\ keychain \in [Accounts -> Keys \cup {None}]
    /\ account \in BOOLEAN /\ group \in BOOLEAN
    /\ unit \in Dirs \cup {None} /\ daemon \in Dirs \cup {None}
    /\ \/ proc = NoProc
       \/ /\ proc.op \in Ops /\ proc.as \in Accounts
          /\ proc.target \in Target \cup {None}
          /\ proc.confirmed \in Target \cup {None}
          /\ proc.wrote \in Dirs \cup {None}
          /\ proc.reused \subseteq {"config", "service"}
    /\ commands \in 0..MaxCommands /\ keys \in 0..MaxKeys

-----------------------------------------------------------------------------
(* Which deployment a command is about (state.rs). *)

default_user_state_dir(as) == IF as = "root" THEN "rhome" ELSE "user"

should_use_legacy_user_dir(as) ==
    files["system"].config = None /\ files[default_user_state_dir(as)].config # None

(* A flagless command stays with the per-user deployment of an earlier     *)
(* version, unless it installs the service.                                *)
Legacy(as) ==
    LET d == default_user_state_dir(as)
    IN [dir |-> d, ks |-> IF files[d].key # None THEN "file" ELSE "os"]

Named(f, as) ==
    [dir |-> IF f.dir # None THEN f.dir
             ELSE IF f.user THEN default_user_state_dir(as) ELSE "system",
     ks  |-> IF f.user /\ ~f.file THEN "os" ELSE "file"]

resolve_target(f, as, fallback) ==
    IF f.dir = None /\ ~f.user /\ fallback /\ should_use_legacy_user_dir(as)
    THEN Legacy(as) ELSE Named(f, as)

(* KeystoreChoice::load. *)
LoadKey(t, as) == IF t.ks = "os" THEN keychain[as] ELSE files[t.dir].key

(* An account reads and writes the files it owns, unless the ACL has       *)
(* locked it out, and root all of them.  The service is sure to read what  *)
(* was given to its account: by chown, on Windows by the ACL.              *)
Access(as, d) == as = "root" \/ (files[d].owner = as /\ ~files[d].acl)

Readable(d) == IF os = "windows" THEN files[d].acl ELSE files[d].owner = "service"

(* What the service needs to come up. *)
CanServe(d) ==
    files[d].config # None /\ files[d].key = files[d].config /\ Readable(d)

-----------------------------------------------------------------------------
(* Commands. *)

Run(op, as, f) ==
    /\ proc = NoProc
    /\ commands < MaxCommands
    /\ commands' = commands + 1
    /\ proc' = [pc |-> "parse", op |-> op, as |-> as, flags |-> f, target |-> None,
                confirmed |-> None, wrote |-> None, reused |-> {}]
    /\ UNCHANGED <<os, store, machine>>

At(op, pc) == proc # NoProc /\ proc.op = op /\ proc.pc = pc

Goto(pc) == proc' = IF pc = "done" THEN NoProc ELSE [proc EXCEPT !.pc = pc]

(* It goes on with something that was there before it. *)
Reuse(what, pc) ==
    proc' = IF pc = "done" THEN NoProc
            ELSE [proc EXCEPT !.pc = pc, !.reused = @ \cup {what}]

(* Only the command moves. *)
Quiet == UNCHANGED <<os, store, machine, commands>>

(* A step fails, the user declines, or the process is killed. *)
Fail == proc # NoProc /\ proc' = NoProc /\ Quiet

-----------------------------------------------------------------------------
(* init. *)

needs_service_elevation == proc.as = "operator"

(* The child gets the flags of its parent and resolves them again. *)
InitElevate ==
    /\ At("init", "parse")
    /\ ~proc.flags.user /\ needs_service_elevation
    /\ proc' = [proc EXCEPT !.as = "root"]
    /\ Quiet

InitResolve ==
    /\ At("init", "parse")
    /\ proc.flags.user \/ ~needs_service_elevation
    /\ LET t == resolve_target(proc.flags, proc.as, FALSE)
       IN proc' = [proc EXCEPT !.target = t,
                               !.pc = IF proc.flags.user \/ os = "windows"
                                      THEN "seed" ELSE "account"]
    /\ Quiet

ensure_service_user ==
    /\ At("init", "account")
    /\ account' = TRUE
    /\ Goto("group")
    /\ UNCHANGED <<os, store, group, unit, daemon, commands>>

ensure_admins_group ==
    /\ At("init", "group")
    /\ group' = TRUE
    /\ Goto("seed")
    /\ UNCHANGED <<os, store, account, unit, daemon, commands>>

(* Mutant: the files stay with root. *)
Seeded_unowned == IF proc.flags.user THEN "done" ELSE "unit"

Seeded == IF proc.flags.user THEN "done" ELSE IF os = "linux" THEN "chown" ELSE "unit"

(* seed_if_needed: a config that is there is reused as it is. *)
SeedReuse ==
    /\ At("init", "seed")
    /\ files[proc.target.dir].config # None
    /\ Reuse("config", Seeded)
    /\ Quiet

(* Mutant: a config is sealed and no key was stored. *)
SeedKey_skipped ==
    /\ At("init", "seed")
    /\ files[proc.target.dir].config = None
    /\ Goto("seal")
    /\ Quiet

(* state::init stores a new key and then seals an empty config with it. *)
SeedKey ==
    /\ At("init", "seed")
    /\ files[proc.target.dir].config = None
    /\ keys < MaxKeys
    /\ keys' = keys + 1
    /\ LET t == proc.target
       IN IF t.ks = "os"
          THEN /\ keychain' = [keychain EXCEPT ![proc.as] = keys']
               /\ files' = [files EXCEPT ![t.dir].audit = TRUE]
          ELSE /\ files' = [files EXCEPT ![t.dir].audit = TRUE, ![t.dir].key = keys']
               /\ UNCHANGED keychain
    /\ Goto("seal")
    /\ UNCHANGED <<os, machine, commands>>

SeedConfig ==
    /\ At("init", "seal")
    /\ files' = [files EXCEPT ![proc.target.dir].config = keys,
                              ![proc.target.dir].owner = proc.as]
    /\ Goto(Seeded)
    /\ UNCHANGED <<os, keychain, keys, machine, commands>>

chown_state_dir ==
    /\ At("init", "chown")
    /\ files' = [files EXCEPT ![proc.target.dir].owner = "service"]
    /\ Goto("unit")
    /\ UNCHANGED <<os, keychain, keys, machine, commands>>

(* install_and_enable_service writes the unit, or has the install script   *)
(* make the admin group and the Windows service.                           *)
install_service ==
    /\ At("init", "unit")
    /\ os = "linux" \/ unit = None
    /\ unit' = proc.target.dir
    /\ group' = (group \/ os = "windows")
    /\ Goto(IF os = "linux" THEN "start" ELSE "lock")
    /\ UNCHANGED <<os, store, account, daemon, commands>>

(* register_windows_service runs no script for a service that exists: it   *)
(* keeps its directory, and no ACL is set.                                 *)
ReuseService ==
    /\ At("init", "unit")
    /\ os = "windows" /\ unit # None
    /\ Reuse("service", "start")
    /\ Quiet

(* The rest of the script: icacls, taken to do what it is told. *)
LockDir ==
    /\ At("init", "lock")
    /\ files' = [files EXCEPT ![proc.target.dir].acl = TRUE]
    /\ Goto("start")
    /\ UNCHANGED <<os, keychain, keys, machine, commands>>

Started(d) == IF d # None /\ CanServe(d) THEN d ELSE None

enable_service ==
    /\ At("init", "start")
    /\ daemon' = IF daemon # None THEN daemon ELSE Started(unit)
    /\ Goto("configure")
    /\ UNCHANGED <<os, store, account, group, unit, commands>>

(* offer_configure: the wizard's edits, made by root in the file itself    *)
(* while the service runs.                                                 *)
Configure ==
    /\ At("init", "configure") \/ At("init", "changed")
    /\ files[proc.target.dir].config # None
    /\ LoadKey(proc.target, proc.as) = files[proc.target.dir].config
    /\ files' = [files EXCEPT ![proc.target.dir].owner = proc.as]
    /\ Goto("changed")
    /\ UNCHANGED <<os, keychain, keys, machine, commands>>

(* finalize_service_config: the files go back to the service account, and  *)
(* the service is restarted if something was changed.                      *)
Finalize ==
    /\ At("init", "configure") \/ At("init", "changed")
    /\ files' = IF os = "linux"
                THEN [files EXCEPT ![proc.target.dir].owner = "service"] ELSE files
    /\ Goto(IF proc.pc = "changed" THEN "restart" ELSE "done")
    /\ UNCHANGED <<os, keychain, keys, machine, commands>>

restart_service ==
    /\ At("init", "restart")
    /\ daemon' = Started(unit)
    /\ Goto("done")
    /\ UNCHANGED <<os, store, account, group, unit, commands>>

InitNext ==
    \/ InitElevate \/ InitResolve \/ ensure_service_user \/ ensure_admins_group
    \/ SeedReuse \/ SeedKey \/ SeedConfig \/ chown_state_dir \/ install_service
    \/ ReuseService \/ LockDir \/ enable_service \/ Configure \/ Finalize \/ restart_service

-----------------------------------------------------------------------------
(* uninstall. *)

(* A deployment whose key is in an OS keychain, or that is in a per-user   *)
(* directory, has no service.                                              *)
is_system_service(t) ==
    /\ ~proc.flags.user
    /\ t.ks = "file"
    /\ t.dir # default_user_state_dir(proc.as)

(* The operator is shown the target and agrees, or said --yes; the child   *)
(* is not asked again.                                                     *)
UninstallResolve ==
    /\ At("uninstall", "parse")
    /\ LET t == resolve_target(proc.flags, proc.as, TRUE)
       IN proc' = [proc EXCEPT !.target = t,
                               !.confirmed = IF @ = None THEN t ELSE @,
                               !.pc = IF ~is_system_service(t) THEN "remove"
                                      ELSE IF needs_service_elevation THEN "elevate"
                                      ELSE "stop"]
    /\ Quiet

(* Mutant: the flags as they were given, to be resolved again by root. *)
forwarded_args_again(f, t) == f

(* forwarded_args: the target that was confirmed, by name. *)
forwarded_args(f, t) ==
    [f EXCEPT !.dir = t.dir, !.file = (t.ks = "file"), !.user = FALSE]

UninstallElevate ==
    /\ At("uninstall", "elevate")
    /\ proc' = [proc EXCEPT !.pc = "parse", !.as = "root",
                            !.flags = forwarded_args(@, proc.target)]
    /\ Quiet

(* uninstall_service: whether the service did stop is not looked at. *)
uninstall_service ==
    /\ At("uninstall", "stop")
    /\ unit' = None
    /\ daemon' \in {None, daemon}
    /\ Goto("remove")
    /\ UNCHANGED <<os, store, account, group, commands>>

(* remove_state_dir takes the entries in the order in which the file       *)
(* system lists them, and leaves the audit log unless told otherwise; if   *)
(* there is none, the directory goes too, and its ACL.                     *)
Left(d) ==
    {n \in {"config", "key"} : files[d][n] # None}
        \cup (IF proc.flags.purge /\ files[d].audit THEN {"audit"} ELSE {})

remove_state_dir ==
    /\ At("uninstall", "remove")
    /\ LET d == proc.target.dir
       IN /\ Left(d) # {} => Access(proc.as, d)
          /\ IF Left(d) = {}
             THEN /\ Goto("forget")
                  /\ files' = [files EXCEPT ![d].acl = @ /\ files[d].audit]
             ELSE \E n \in Left(d) :
                     /\ files' = [files EXCEPT ![d][n] = IF n = "audit" THEN FALSE ELSE None]
                     /\ UNCHANGED proc
    /\ UNCHANGED <<os, keychain, keys, machine, commands>>

(* KeystoreChoice::delete. *)
DeleteKey ==
    /\ At("uninstall", "forget")
    /\ IF proc.target.ks = "os"
       THEN keychain' = [keychain EXCEPT ![proc.as] = None] /\ UNCHANGED files
       ELSE files' = [files EXCEPT ![proc.target.dir].key = None] /\ UNCHANGED keychain
    /\ Goto("done")
    /\ UNCHANGED <<os, keys, machine, commands>>

UninstallNext ==
    UninstallResolve \/ UninstallElevate \/ uninstall_service \/ remove_state_dir \/ DeleteKey

-----------------------------------------------------------------------------
(* Config edits: the commands of main.rs and the wizard's. *)

offline_privilege_ok(f, t, as) == ~f.offline \/ t.dir # "system" \/ as = "root"

(* Mutant: --state-dir does not keep an edit off the channel. *)
decide_mode_by_target(f, t) ==
    IF ~f.user /\ ~f.offline /\ t.dir = "system" THEN "channel" ELSE "direct"

decide_mode(f, t) ==
    IF ~f.user /\ ~f.offline /\ f.dir = None /\ t.dir = "system"
    THEN "channel" ELSE "direct"

Editing(pc) == At("edit", pc) \/ At("wizard", pc)

EditResolve ==
    /\ Editing("parse")
    /\ LET t == resolve_target(proc.flags, proc.as, TRUE)
       IN /\ offline_privilege_ok(proc.flags, t, proc.as)
          /\ proc' = [proc EXCEPT !.target = t,
                                  !.pc = IF decide_mode(proc.flags, t) = "channel"
                                         THEN "channel"
                                         ELSE IF proc.op = "wizard" THEN "load"
                                         ELSE "guard"]
    /\ Quiet

(* The daemon edits the config it serves; when none answers, the command   *)
(* fails.                                                                  *)
ChannelEdit ==
    /\ Editing("channel")
    /\ daemon # None
    /\ files[daemon].config # None
    /\ files' = [files EXCEPT ![daemon].owner = IF os = "linux" THEN "service" ELSE @]
    /\ proc' = [proc EXCEPT !.pc = "wrote", !.wrote = daemon]
    /\ UNCHANGED <<os, keychain, keys, machine, commands>>

(* direct_mutation_ok: not while a daemon answers, unless for --user.  The *)
(* wizard does not ask.                                                    *)
direct_mutation_ok(f) == f.user \/ daemon = None

Guard ==
    /\ Editing("guard")
    /\ direct_mutation_ok(proc.flags)
    /\ Goto("load")
    /\ Quiet

Load ==
    /\ Editing("load")
    /\ LET t == proc.target
       IN /\ files[t.dir].config # None
          /\ Access(proc.as, t.dir)
          /\ LoadKey(t, proc.as) = files[t.dir].config
    /\ Goto("save")
    /\ Quiet

(* A saved config is a new file and belongs to whoever saved it. *)
Save ==
    /\ Editing("save")
    /\ LET d == proc.target.dir
       IN /\ files[d].config # None
          /\ Access(proc.as, d)
          /\ files' = [files EXCEPT ![d].owner = proc.as]
          /\ proc' = [proc EXCEPT !.pc = "wrote", !.wrote = d]
    /\ UNCHANGED <<os, keychain, keys, machine, commands>>

(* The command ends; a wizard goes on to the next entry. *)
EditDone ==
    /\ Editing("wrote")
    /\ IF proc.op = "wizard"
       THEN Goto(IF decide_mode(proc.flags, proc.target) = "channel" THEN "channel" ELSE "load")
       ELSE Goto("done")
    /\ Quiet

EditNext ==
    EditResolve \/ ChannelEdit \/ Guard \/ Load \/ Save \/ EditDone

-----------------------------------------------------------------------------
(* The service manager and the daemon. *)

ServiceStarts ==
    /\ daemon = None /\ unit # None
    /\ CanServe(unit)
    /\ daemon' = unit
    /\ UNCHANGED <<os, store, account, group, unit, proc, commands>>

ServiceStops ==
    /\ daemon # None
    /\ daemon' = None
    /\ UNCHANGED <<os, store, account, group, unit, proc, commands>>

-----------------------------------------------------------------------------
Empty == [config |-> None, key |-> None, audit |-> FALSE, owner |-> "root", acl |-> FALSE]

(* A deployment of an earlier version: its key is in the keychain, or in   *)
(* the directory.                                                          *)
OldDeployment(as, ks) ==
    [config |-> 1, key |-> IF ks = "file" THEN 1 ELSE None, audit |-> TRUE, owner |-> as,
     acl |-> FALSE]

Init ==
    /\ os \in OSes
    /\ \E as \in Accounts \cup {None}, ks \in {"os", "file"} :
          /\ as = None => ks = "os"
          /\ files = [d \in Dirs |-> IF as # None /\ d = default_user_state_dir(as)
                                     THEN OldDeployment(as, ks) ELSE Empty]
          /\ keychain = [a \in Accounts |-> IF a = as /\ ks = "os" THEN 1 ELSE None]
          /\ keys = IF as = None THEN 0 ELSE 1
    /\ account = FALSE /\ group = FALSE
    /\ unit = None /\ daemon = None
    /\ proc = NoProc /\ commands = 0

(* Only uninstall has --purge-audit, only edits have --offline. *)
Start ==
    \E op \in Ops, as \in Accounts, f \in Flags :
        /\ f.purge => op = "uninstall"
        /\ f.offline => op = "edit"
        /\ Run(op, as, f)

Next == Start \/ InitNext \/ UninstallNext \/ EditNext \/ Fail \/ ServiceStarts \/ ServiceStops

Spec == Init /\ [][Next]_vars

-----------------------------------------------------------------------------
(* Properties. *)

(* forwarded_args' promise: what an uninstall removes, elevated or not and *)
(* whatever else has become of the machine, is the state directory and the *)
(* key the operator was shown.                                             *)
UninstallDeletesConfirmed ==
    [][/\ \A d \in Dirs :
            (\E n \in {"config", "key"} : files[d][n] # None /\ files'[d][n] = None)
                => proc.op = "uninstall" /\ proc.confirmed.dir = d
       /\ \A a \in Accounts :
            (keychain[a] # None /\ keychain'[a] = None)
                => proc.op = "uninstall" /\ proc.confirmed.ks = "os" /\ proc.as = a]_vars

(* When init has the service started, after however many attempts that     *)
(* failed half-way, the service can come up on the directory that was      *)
(* asked for: it is the one the service is given, the service can read it, *)
(* the config in it is sealed with the key in it, and the account and the  *)
(* group its unit names exist.  Two things init reuses without a look are  *)
(* excepted, each from what it bears on: a config that was there may be    *)
(* sealed with another key, and a Windows service that was there keeps its *)
(* directory and whatever ACL that has.                                    *)
StartedUnitIsReady ==
    At("init", "start") =>
        LET asked == IF proc.flags.dir # None THEN proc.flags.dir ELSE "system"
        IN /\ proc.target.dir = asked
           /\ files[asked].config # None
           /\ "config" \notin proc.reused => files[asked].key = files[asked].config
           /\ "service" \notin proc.reused => unit = asked /\ Readable(asked)
           /\ os = "linux" => "service" \notin proc.reused /\ account
           /\ group

(* The same without the exceptions, which does not hold: see the README.   *)
StartedUnitServes == At("init", "start") => unit = proc.target.dir /\ CanServe(unit)

(* decide_mode's promise: an edit that names its deployment, by            *)
(* --state-dir or --user, changes that one and no other, however many      *)
(* deployments there are and whichever the daemon serves.                  *)
EditLandsWhereNamed ==
    (proc # NoProc /\ proc.wrote # None) =>
        /\ proc.flags.dir # None => proc.wrote = proc.flags.dir
        /\ (proc.flags.user /\ proc.flags.dir = None)
              => proc.wrote = default_user_state_dir(proc.as)

(* "Never destroy the master key while the sealed config it protects still *)
(* exists."                                                                *)
KeyOutlivesConfig ==
    [][\A d \in Dirs :
          LET has(f, kc, k) == f[d].key = k \/ \E a \in Accounts : kc[a] = k
          IN (files'[d].config # None /\ has(files, keychain, files'[d].config))
                => has(files', keychain', files'[d].config)]_vars
=============================================================================
