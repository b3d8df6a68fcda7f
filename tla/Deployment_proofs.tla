-------------------------- MODULE Deployment_proofs --------------------------
(***************************************************************************)
(* Safety of init, uninstall and the edits, for any number of commands and *)
(* keys.                                                                   *)
(*                                                                         *)
(* The argument.  A command runs alone, so what one of its steps has       *)
(* established still holds at the next: the invariant says, for each kind  *)
(* of command and each of its steps, what the earlier steps left behind    *)
(* (InitAt, UninstallAt, EditAt).  The hard place is an uninstall that     *)
(* elevates itself: root resolves the flags again, and finds the target    *)
(* that was confirmed because forwarded_args named it.                     *)
(***************************************************************************)
EXTENDS Deployment, TLAPS

InitSteps      == {"parse", "account", "group", "seed", "seal", "chown", "unit", "lock",
                   "start", "configure", "changed", "restart"}
UninstallSteps == {"parse", "elevate", "stop", "remove", "forget"}
EditSteps      == {"parse", "channel", "guard", "load", "save", "wrote"}
Steps          == InitSteps \cup UninstallSteps \cup EditSteps

FlagType == [dir : {None, "system", "custom"}, user : BOOLEAN, file : BOOLEAN,
             offline : BOOLEAN, purge : BOOLEAN]

Proc == [pc : Steps, op : Ops, as : Accounts, flags : FlagType, target : Target \cup {None},
         confirmed : Target \cup {None}, wrote : Dirs \cup {None},
         reused : SUBSET {"config", "service"}]

Types ==
    /\ os \in OSes
    /\ files \in [Dirs -> Dir]
    /\ keychain \in [Accounts -> Keys \cup {None}]
    /\ account \in BOOLEAN /\ group \in BOOLEAN
    /\ unit \in Dirs \cup {None} /\ daemon \in Dirs \cup {None}
    /\ proc = NoProc \/ proc \in Proc
    /\ commands \in 0..MaxCommands /\ keys \in 0..MaxKeys

\* The steps of init that only the service's init takes.
ServiceSteps == {"account", "group", "chown", "unit", "lock", "start", "configure", "changed",
                 "restart"}

\* The steps at which no service can have been reused yet.
EarlySteps == {"parse", "account", "group", "seed", "seal", "chown", "unit", "lock"}

\* A config is there; the key it is sealed with too, unless init found it there.
HasConfig(x, reused) == x.config # None /\ ("config" \notin reused => x.key = x.config)

InitAt ==
    /\ proc.wrote = None /\ proc.pc \in InitSteps
    /\ proc.pc # "parse" => proc.target = Named(proc.flags, proc.as)
    /\ proc.pc \in ServiceSteps => ~proc.flags.user
    /\ proc.pc = "group" => account
    /\ (proc.pc \in {"seed", "seal", "chown", "unit", "start"} /\ ~proc.flags.user /\ os = "linux")
          => account /\ group
    /\ proc.pc \in EarlySteps => "service" \notin proc.reused
    /\ proc.pc = "seal" => /\ keys \in Keys
                           /\ ~proc.flags.user => files[proc.target.dir].key = keys
    /\ proc.pc \in {"chown", "unit", "lock", "start"} => HasConfig(files[proc.target.dir], proc.reused)
    /\ (proc.pc \in {"unit", "start"} /\ os = "linux")
          => files[proc.target.dir].owner = "service"
    /\ proc.pc = "lock" => os # "linux" /\ unit = proc.target.dir
    /\ proc.pc = "start" =>
          /\ unit # None
          /\ os = "linux" => "service" \notin proc.reused
          /\ "service" \notin proc.reused =>
                unit = proc.target.dir /\ (os # "linux" => files[proc.target.dir].acl)

\* The target was confirmed; root is told which one it was.
UninstallAt ==
    /\ proc.wrote = None /\ proc.pc \in UninstallSteps
    /\ proc.pc # "parse" => proc.target \in Target /\ proc.confirmed = proc.target
    /\ proc.pc = "elevate" => proc.target.ks = "file" /\ proc.target.dir \in {"system", "custom"}
    /\ proc.pc = "parse" /\ proc.confirmed # None =>
          /\ proc.confirmed.dir = proc.flags.dir /\ proc.flags.dir # None
          /\ proc.confirmed.ks = "file" /\ ~proc.flags.user

\* Where an edit may land: t is its directory.
Lands(f, as, t) ==
    /\ f.dir # None => t = f.dir
    /\ f.user /\ f.dir = None => t = default_user_state_dir(as)

EditAt ==
    /\ proc.pc \in EditSteps
    /\ proc.pc # "parse" =>
          proc.target \in Target /\ Lands(proc.flags, proc.as, proc.target.dir)
    /\ proc.pc = "channel" => ~proc.flags.user /\ proc.flags.dir = None
    /\ proc.wrote # None => Lands(proc.flags, proc.as, proc.wrote)

ProcInv ==
    proc # NoProc => /\ proc.op = "init" => InitAt
                     /\ proc.op = "uninstall" => UninstallAt
                     /\ proc.op \in {"edit", "wizard"} => EditAt

DeploymentInv == Types /\ ProcInv

\* A command that goes on to pc as it was, but for what it has reused.
Continues(p, q, pc) ==
    /\ q \in Proc /\ q # NoProc /\ q.pc = pc /\ q.op = p.op /\ q.as = p.as /\ q.flags = p.flags
    /\ q.target = p.target /\ q.confirmed = p.confirmed /\ q.wrote = p.wrote

-----------------------------------------------------------------------------
(* Facts about commands *)

\* A command under way is not the absence of one.
LEMMA ProcIsOne == \A p \in Proc : p # NoProc
  BY DEF Proc, NoProc, Steps, InitSteps, UninstallSteps, EditSteps

\* What resolve_target can come to.
LEMMA ResolveFacts ==
    ASSUME Types, NEW f \in FlagType, NEW as \in Accounts, NEW fallback \in BOOLEAN
    PROVE  LET t == resolve_target(f, as, fallback)
           IN  /\ t \in Target /\ t # None
               /\ Lands(f, as, t.dir)
               /\ t.dir \in {"system", "custom", default_user_state_dir(as)}
               /\ ~fallback => t = Named(f, as)
               /\ f.dir # None => t = Named(f, as)
<1>1. default_user_state_dir(as) \in Dirs
  BY DEF default_user_state_dir, Dirs
<1>2. /\ Named(f, as) \in Target /\ Lands(f, as, Named(f, as).dir)
      /\ Named(f, as).dir \in {"system", "custom", default_user_state_dir(as)}
  BY <1>1 DEF Named, Target, Dirs, FlagType, Lands
<1>3. /\ Legacy(as) \in Target /\ Legacy(as).dir = default_user_state_dir(as)
  BY <1>1 DEF Legacy, Target
<1>4. CASE f.dir = None /\ ~f.user /\ fallback /\ should_use_legacy_user_dir(as)
  <2>1. resolve_target(f, as, fallback) = Legacy(as)
    BY <1>4 DEF resolve_target
  <2> QED
    BY <1>3, <1>4, <2>1, NoneAssumption DEF Lands
<1>5. CASE ~(f.dir = None /\ ~f.user /\ fallback /\ should_use_legacy_user_dir(as))
  <2>1. resolve_target(f, as, fallback) = Named(f, as)
    BY <1>5 DEF resolve_target
  <2> QED
    BY <1>2, <2>1, NoneAssumption
<1> QED
  BY <1>4, <1>5

\* Going on to a step.
LEMMA GotoFacts ==
    ASSUME proc \in Proc, NEW pc \in Steps, Goto(pc)
    PROVE  Continues(proc, proc', pc) /\ proc'.reused = proc.reused
<1>1. proc' = [proc EXCEPT !.pc = pc]
  BY DEF Goto, Steps, InitSteps, UninstallSteps, EditSteps
<1>2. proc' \in Proc
  BY <1>1 DEF Proc
<1> QED
  BY <1>1, <1>2, ProcIsOne DEF Continues, Proc

\* Going on to a step with something that was there before.
LEMMA ReuseFacts ==
    ASSUME proc \in Proc, NEW pc \in Steps, NEW what \in {"config", "service"}, Reuse(what, pc)
    PROVE  Continues(proc, proc', pc) /\ proc'.reused = proc.reused \cup {what}
<1>1. proc' = [proc EXCEPT !.pc = pc, !.reused = proc.reused \cup {what}]
  BY DEF Reuse, Steps, InitSteps, UninstallSteps, EditSteps
<1>2. proc.reused \cup {what} \in SUBSET {"config", "service"}
  BY DEF Proc
<1>3. proc' \in Proc
  BY <1>1, <1>2 DEF Proc
<1> QED
  BY <1>1, <1>3, ProcIsOne DEF Continues, Proc

\* The kind of command that is at a step.
LEMMA AtFacts ==
    ASSUME DeploymentInv, NEW op \in Ops, NEW pc, At(op, pc)
    PROVE  /\ proc \in Proc /\ proc.op = op /\ proc.pc = pc
           /\ op = "init" => InitAt
           /\ op = "uninstall" => UninstallAt
           /\ op \in {"edit", "wizard"} => EditAt
  BY DEF DeploymentInv, Types, ProcInv, At

\* A command that ends leaves nothing to show.
LEMMA EndsFacts ==
    ASSUME Types', proc' = NoProc
    PROVE  DeploymentInv'
  BY DEF DeploymentInv, ProcInv

\* A step that changes the command alone.
LEMMA QuietTypes ==
    ASSUME Types, Quiet, proc' = NoProc \/ proc' \in Proc
    PROVE  Types'
  BY DEF Types, Quiet, store, machine

\* What a directory's entry is changed to.
LEMMA DirUpdates ==
    ASSUME NEW x \in Dir, NEW k \in Keys
    PROVE  /\ [x EXCEPT !.audit = TRUE] \in Dir
           /\ [x EXCEPT !.audit = TRUE, !.key = k] \in Dir
           /\ [x EXCEPT !.audit = TRUE, !.key = k].key = k
<1>1. [x EXCEPT !.audit = TRUE] \in Dir
  BY DEF Dir
<1>2. /\ [x EXCEPT !.audit = TRUE, !.key = k] \in Dir
      /\ [x EXCEPT !.audit = TRUE, !.key = k].key = k
  BY DEF Dir
<1> QED
  BY <1>1, <1>2

\* A directory's entry is changed.
LEMMA FileTypes ==
    ASSUME Types, NEW d \in Dirs, NEW x \in Dir, files' = [files EXCEPT ![d] = x],
           UNCHANGED <<os, keychain, keys, machine, commands>>,
           proc' = NoProc \/ proc' \in Proc
    PROVE  Types' /\ files'[d] = x /\ \A c \in Dirs \ {d} : files'[c] = files[c]
  BY DEF Types, machine

\* The owner of a directory is changed.
LEMMA OwnerFacts ==
    ASSUME Types, NEW d \in Dirs, NEW who \in {"operator", "root", "service"},
           files' = [files EXCEPT ![d].owner = who],
           UNCHANGED <<os, keychain, keys, machine, commands>>,
           proc' = NoProc \/ proc' \in Proc
    PROVE  /\ Types'
           /\ files'[d].owner = who /\ \A c \in Dirs \ {d} : files'[c] = files[c]
           /\ \A c \in Dirs : files'[c].config = files[c].config /\ files'[c].key = files[c].key
<1> DEFINE x == [files[d] EXCEPT !.owner = who]
<1>1. files' = [files EXCEPT ![d] = x]
  OBVIOUS
<1>2. x \in Dir /\ x.owner = who /\ x.config = files[d].config /\ x.key = files[d].key
  BY DEF Types, Dir
<1> HIDE DEF x
<1>3. Types' /\ files'[d] = x /\ \A c \in Dirs \ {d} : files'[c] = files[c]
  BY <1>1, <1>2, FileTypes
<1> QED
  BY <1>2, <1>3

\* The target of an init under way is a directory.
LEMMA InitTarget ==
    ASSUME DeploymentInv, NEW pc, At("init", pc), pc # "parse"
    PROVE  proc.target \in Target /\ proc.target.dir \in Dirs /\ proc.target = Named(proc.flags, proc.as)
<1>1. proc \in Proc /\ proc.target = Named(proc.flags, proc.as)
  BY AtFacts DEF Ops, InitAt
<1>2. proc.flags \in FlagType /\ proc.as \in Accounts
  BY <1>1 DEF Proc
<1>3. Named(proc.flags, proc.as) \in Target
  BY <1>2 DEF Named, Target, Dirs, FlagType, default_user_state_dir
<1> QED
  BY <1>1, <1>3 DEF Target

-----------------------------------------------------------------------------
(* init *)

\* The command is run again as root.
LEMMA InitElevateStep ==
    ASSUME DeploymentInv, InitElevate
    PROVE  DeploymentInv'
<1>1. /\ proc \in Proc /\ proc.op = "init" /\ proc.pc = "parse" /\ InitAt
      /\ proc' = [proc EXCEPT !.as = "root"] /\ Quiet
  BY AtFacts DEF InitElevate, Ops
<1>2. /\ proc' \in Proc /\ proc'.op = "init" /\ proc'.pc = "parse" /\ proc'.wrote = proc.wrote
      /\ proc'.reused = proc.reused
  BY <1>1 DEF Proc, Accounts
<1>3. Types'
  BY <1>1, <1>2, QuietTypes DEF DeploymentInv
<1>4. ProcInv'
  BY <1>1, <1>2 DEF ProcInv, InitAt, ServiceSteps, InitSteps, EarlySteps
<1> QED
  BY <1>3, <1>4 DEF DeploymentInv

\* The target is resolved.
LEMMA InitResolveStep ==
    ASSUME DeploymentInv, InitResolve
    PROVE  DeploymentInv'
<1> DEFINE t == resolve_target(proc.flags, proc.as, FALSE)
           pc == IF proc.flags.user \/ os = "windows" THEN "seed" ELSE "account"
<1>1. /\ proc \in Proc /\ proc.op = "init" /\ proc.pc = "parse" /\ InitAt
      /\ proc' = [proc EXCEPT !.target = t, !.pc = pc] /\ Quiet
  BY AtFacts DEF InitResolve, Ops
<1>2. proc.flags \in FlagType /\ proc.as \in Accounts
  BY <1>1 DEF Proc
<1>3. t \in Target /\ t = Named(proc.flags, proc.as)
  BY <1>2, ResolveFacts DEF DeploymentInv
<1>4. /\ pc \in {"seed", "account"}
      /\ pc = "account" => ~proc.flags.user
      /\ pc = "seed" => proc.flags.user \/ os = "windows"
  OBVIOUS
<1> HIDE DEF t, pc
<1>5. /\ proc' \in Proc /\ proc'.op = "init" /\ proc'.pc = pc /\ proc'.wrote = None
      /\ proc'.target = Named(proc'.flags, proc'.as) /\ proc'.flags = proc.flags
      /\ "service" \notin proc'.reused
  <2>1. pc \in Steps /\ proc.wrote = None /\ "service" \notin proc.reused
    BY <1>1, <1>4 DEF Steps, InitSteps, InitAt, EarlySteps
  <2>2. /\ proc' \in Proc /\ proc'.op = "init" /\ proc'.pc = pc /\ proc'.wrote = proc.wrote
        /\ proc'.target = t /\ proc'.flags = proc.flags /\ proc'.as = proc.as
        /\ proc'.reused = proc.reused
    BY <1>1, <1>3, <2>1 DEF Proc
  <2> QED
    BY <1>3, <2>1, <2>2
<1>6. Types'
  BY <1>1, <1>5, QuietTypes DEF DeploymentInv
<1>7. os' = os
  BY <1>1 DEF Quiet
<1>8. InitAt'
  BY <1>4, <1>5, <1>7 DEF InitAt, InitSteps, ServiceSteps, EarlySteps
<1> QED
  BY <1>5, <1>6, <1>8 DEF DeploymentInv, ProcInv

\* The service account and the admin group are made.
LEMMA AccountStep ==
    ASSUME DeploymentInv, ensure_service_user \/ ensure_admins_group
    PROVE  DeploymentInv'
<1> DEFINE pc == IF proc.pc = "account" THEN "group" ELSE "seed"
<1>1. /\ proc \in Proc /\ proc.op = "init" /\ proc.pc \in {"account", "group"} /\ InitAt
      /\ Goto(pc) /\ UNCHANGED <<os, store, unit, daemon, commands>>
      /\ proc.pc = "account" => account' = TRUE /\ group' = group
      /\ proc.pc = "group" => group' = TRUE /\ account' = account
  BY AtFacts DEF ensure_service_user, ensure_admins_group, Ops
<1>2. Continues(proc, proc', pc) /\ pc \in {"group", "seed"} /\ proc'.reused = proc.reused
  BY <1>1, GotoFacts DEF Steps, InitSteps
<1>3. Types'
  BY <1>1, <1>2 DEF DeploymentInv, Types, store, Continues
<1>4. ~proc.flags.user /\ proc.wrote = None /\ (proc.pc = "group" => account)
      /\ proc.target = Named(proc.flags, proc.as) /\ "service" \notin proc.reused
  BY <1>1 DEF InitAt, ServiceSteps, EarlySteps
<1>5. pc = "group" => account'
  BY <1>1
<1>6. pc = "seed" => account' /\ group'
  BY <1>1, <1>4
<1> HIDE DEF pc
<1>7. InitAt'
  BY <1>2, <1>4, <1>5, <1>6 DEF InitAt, InitSteps, ServiceSteps, EarlySteps, Continues
<1> QED
  BY <1>1, <1>2, <1>3, <1>7 DEF DeploymentInv, ProcInv, Continues

\* After the config is made: the next step, with a config in the target.
LEMMA SeededStep ==
    ASSUME DeploymentInv, At("init", "seal"), Types', Goto(Seeded),
           os' = os, account' = account, group' = group,
           files'[proc.target.dir].config # None,
           ~proc.flags.user => files'[proc.target.dir].key = files'[proc.target.dir].config
    PROVE  DeploymentInv'
<1>1. proc \in Proc /\ proc.op = "init" /\ proc.pc = "seal" /\ InitAt
  BY AtFacts DEF Ops
<1>2. CASE proc.flags.user
  BY <1>2, EndsFacts DEF Seeded, Goto
<1>3. CASE ~proc.flags.user
  <2>1. Seeded \in {"chown", "unit"} /\ (Seeded = "unit" => os # "linux")
    BY <1>3 DEF Seeded
  <2>2. /\ proc.wrote = None /\ proc.target = Named(proc.flags, proc.as)
        /\ os = "linux" => account /\ group
        /\ "service" \notin proc.reused
    BY <1>1, <1>3 DEF InitAt, EarlySteps
  <2>3. /\ Continues(proc, proc', Seeded) /\ "service" \notin proc'.reused
        /\ HasConfig(files'[proc.target.dir], proc'.reused)
    BY <1>1, <1>3, <2>1, <2>2, GotoFacts DEF Steps, InitSteps, HasConfig
  <2>4. InitAt'
    BY <1>3, <2>1, <2>2, <2>3 DEF InitAt, InitSteps, ServiceSteps, Continues
  <2> QED
    BY <1>1, <2>3, <2>4 DEF DeploymentInv, ProcInv, Continues
<1> QED
  BY <1>2, <1>3

\* A config that is there is reused.
LEMMA SeedReuseStep ==
    ASSUME DeploymentInv, SeedReuse
    PROVE  DeploymentInv'
<1>1. At("init", "seed") /\ Reuse("config", Seeded) /\ Quiet
  BY DEF SeedReuse
<1>2. proc \in Proc /\ Seeded \in {"done", "chown", "unit"}
  BY <1>1, AtFacts DEF Ops, Seeded
<1>3. /\ Seeded = "done" => proc' = NoProc
      /\ Seeded # "done" => Continues(proc, proc', Seeded) /\ "config" \in proc'.reused
  BY <1>1, <1>2, ReuseFacts DEF Reuse, Steps, InitSteps
<1>4. Types'
  BY <1>1, <1>2, <1>3, QuietTypes DEF DeploymentInv, Continues
<1>5. CASE Seeded = "done"
  BY <1>3, <1>4, <1>5, EndsFacts
<1>6. CASE Seeded # "done"
  <2>1. proc.op = "init" /\ InitAt /\ proc.pc = "seed" /\ ~proc.flags.user
    BY <1>1, <1>6, AtFacts DEF Ops, Seeded
  <2>2. "service" \notin proc'.reused
    BY <1>1, <1>2, <1>6, <2>1, ReuseFacts DEF InitAt, EarlySteps, Steps, InitSteps
  <2>3. /\ proc.wrote = None /\ proc.target = Named(proc.flags, proc.as)
        /\ os = "linux" => account /\ group
        /\ Seeded = "unit" => os # "linux"
    BY <2>1 DEF InitAt, Seeded
  <2>4. UNCHANGED <<os, account, group, files>> /\ files[proc.target.dir].config # None
    BY <1>1 DEF SeedReuse, Quiet, store, machine
  <2>5. HasConfig(files'[proc'.target.dir], proc'.reused)
    BY <1>3, <1>6, <2>4 DEF HasConfig, Continues
  <2>6. InitAt'
    BY <1>2, <1>3, <1>6, <2>1, <2>2, <2>3, <2>4, <2>5
       DEF InitAt, InitSteps, ServiceSteps, Continues
  <2> QED
    BY <1>3, <1>4, <1>6, <2>1, <2>6 DEF DeploymentInv, ProcInv, Continues
<1> QED
  BY <1>5, <1>6

\* A key is made and stored.
LEMMA SeedKeyStep ==
    ASSUME DeploymentInv, SeedKey
    PROVE  DeploymentInv'
<1> DEFINE t == proc.target
<1>1. /\ At("init", "seed") /\ Goto("seal") /\ keys' = keys + 1 /\ keys < MaxKeys
      /\ UNCHANGED <<os, machine, commands>>
  BY DEF SeedKey
<1>2. proc \in Proc /\ proc.op = "init" /\ InitAt /\ proc.as \in Accounts /\ proc.pc = "seed"
  BY <1>1, AtFacts DEF Ops, Proc
<1>3. Continues(proc, proc', "seal") /\ proc'.reused = proc.reused
  BY <1>1, <1>2, GotoFacts DEF Steps, InitSteps
<1>4. t.dir \in Dirs
  BY <1>1, InitTarget
<1>5. keys' \in 0..MaxKeys /\ keys' \in Keys
  BY <1>1, DeploymentAssumption DEF DeploymentInv, Types, Keys
<1>6. /\ files' \in [Dirs -> Dir] /\ keychain' \in [Accounts -> Keys \cup {None}]
      /\ t.ks # "os" => files'[t.dir].key = keys'
  <2> DEFINE x == [files[t.dir] EXCEPT !.audit = TRUE]
             y == [files[t.dir] EXCEPT !.audit = TRUE, !.key = keys']
  <2>1. x \in Dir /\ y \in Dir /\ y.key = keys'
    BY <1>4, <1>5, DirUpdates DEF DeploymentInv, Types
  <2>2. CASE t.ks = "os"
    <3>1. files' = [files EXCEPT ![t.dir] = x] /\ keychain' = [keychain EXCEPT ![proc.as] = keys']
      BY <2>2 DEF SeedKey
    <3> HIDE DEF x
    <3> QED
      BY <1>2, <1>4, <1>5, <2>1, <2>2, <3>1 DEF DeploymentInv, Types
  <2>3. CASE t.ks # "os"
    <3>1. files' = [files EXCEPT ![t.dir] = y] /\ keychain' = keychain
      BY <1>4, <2>3 DEF SeedKey, DeploymentInv, Types
    <3> HIDE DEF y
    <3> QED
      BY <1>4, <2>1, <3>1 DEF DeploymentInv, Types
  <2> QED
    BY <2>2, <2>3
<1>7. Types'
  BY <1>1, <1>3, <1>5, <1>6 DEF DeploymentInv, Types, machine, Continues
<1>8. ~proc.flags.user => t.ks # "os"
  BY <1>2 DEF InitAt, Named
<1>9. /\ proc.wrote = None /\ proc.target = Named(proc.flags, proc.as)
      /\ "service" \notin proc.reused
      /\ ~proc.flags.user /\ os = "linux" => account /\ group
  BY <1>2 DEF InitAt, EarlySteps
<1>10. InitAt'
  BY <1>1, <1>3, <1>5, <1>6, <1>8, <1>9 DEF InitAt, InitSteps, ServiceSteps, Continues, machine
<1> QED
  BY <1>2, <1>3, <1>7, <1>10 DEF DeploymentInv, ProcInv, Continues

\* A config is sealed with the key.
LEMMA SeedConfigStep ==
    ASSUME DeploymentInv, SeedConfig
    PROVE  DeploymentInv'
<1> DEFINE d == proc.target.dir
           x == [files[d] EXCEPT !.config = keys, !.owner = proc.as]
<1>1. At("init", "seal") /\ Goto(Seeded) /\ UNCHANGED <<os, keychain, keys, machine, commands>>
  BY DEF SeedConfig
<1>2. proc \in Proc /\ InitAt /\ proc.as \in Accounts /\ proc.pc = "seal"
  BY <1>1, AtFacts DEF Ops, Proc
<1>3. d \in Dirs /\ keys \in Keys /\ keys # None
  BY <1>1, <1>2, InitTarget, NoneAssumption DEF InitAt
<1>4. files' = [files EXCEPT ![d] = x]
  BY <1>3 DEF SeedConfig, DeploymentInv, Types
<1>5. x \in Dir /\ x.config = keys /\ x.key = files[d].key
  <2>1. files[d] \in Dir
    BY <1>3 DEF DeploymentInv, Types
  <2>2. keys \in Keys /\ proc.as \in Accounts
    BY <1>2, <1>3
  <2> QED
    BY <2>1, <2>2 DEF Dir, Accounts
<1>6. proc' = NoProc \/ proc' \in Proc
  BY <1>1, <1>2, GotoFacts DEF Seeded, Goto, Steps, InitSteps, Continues
<1> HIDE DEF x
<1>7. Types' /\ files'[d] = x
  BY <1>1, <1>3, <1>4, <1>5, <1>6, FileTypes DEF DeploymentInv
<1> QED
  BY <1>1, <1>2, <1>3, <1>5, <1>7, SeededStep DEF machine, InitAt

\* The files are given to the service account.
LEMMA ChownStep ==
    ASSUME DeploymentInv, chown_state_dir
    PROVE  DeploymentInv'
<1> DEFINE d == proc.target.dir
<1>1. /\ At("init", "chown") /\ Goto("unit") /\ UNCHANGED <<os, keychain, keys, machine, commands>>
      /\ files' = [files EXCEPT ![d].owner = "service"]
  BY DEF chown_state_dir
<1>2. proc \in Proc /\ proc.op = "init" /\ InitAt /\ proc.pc = "chown"
  BY <1>1, AtFacts DEF Ops
<1>3. Continues(proc, proc', "unit") /\ proc'.reused = proc.reused
  BY <1>1, <1>2, GotoFacts DEF Steps, InitSteps
<1>4. d \in Dirs
  BY <1>1, InitTarget
<1>5. Types' /\ files'[d].owner = "service" /\ files'[d].config = files[d].config
      /\ files'[d].key = files[d].key
  BY <1>1, <1>3, <1>4, OwnerFacts DEF DeploymentInv, Continues
<1>6. /\ proc.wrote = None /\ proc.target = Named(proc.flags, proc.as) /\ ~proc.flags.user
      /\ (os = "linux" => account /\ group) /\ HasConfig(files[d], proc.reused)
      /\ "service" \notin proc.reused
  BY <1>2 DEF InitAt, ServiceSteps, EarlySteps
<1>7. HasConfig(files'[d], proc'.reused)
  BY <1>3, <1>5, <1>6 DEF HasConfig
<1>8. InitAt'
  BY <1>1, <1>3, <1>5, <1>6, <1>7 DEF InitAt, InitSteps, ServiceSteps, Continues, machine
<1> QED
  BY <1>2, <1>3, <1>5, <1>8 DEF DeploymentInv, ProcInv, Continues

\* What init has left behind when it comes to the service.
LEMMA AtUnit ==
    ASSUME DeploymentInv, NEW pc \in {"unit", "lock"}, At("init", pc)
    PROVE  LET d == proc.target.dir
           IN  /\ proc \in Proc /\ proc.op = "init" /\ d \in Dirs /\ d # None
               /\ proc.wrote = None /\ proc.target = Named(proc.flags, proc.as)
               /\ ~proc.flags.user /\ HasConfig(files[d], proc.reused)
               /\ "service" \notin proc.reused
               /\ pc = "unit" /\ os = "linux" =>
                     account /\ group /\ files[d].owner = "service"
               /\ pc = "lock" => os # "linux" /\ unit = d
<1>1. proc \in Proc /\ proc.op = "init" /\ InitAt /\ proc.pc = pc
  BY AtFacts DEF Ops
<1>2. proc.target.dir \in Dirs /\ proc.target = Named(proc.flags, proc.as)
  BY InitTarget
<1> QED
  BY <1>1, <1>2, NoneAssumption DEF InitAt, ServiceSteps, EarlySteps

\* The service is registered.
LEMMA InstallStep ==
    ASSUME DeploymentInv, install_service
    PROVE  DeploymentInv'
<1> DEFINE d  == proc.target.dir
           pc == IF os = "linux" THEN "start" ELSE "lock"
<1>1. /\ At("init", "unit") /\ Goto(pc) /\ UNCHANGED <<os, store, account, daemon, commands>>
      /\ unit' = d /\ group' = (group \/ os = "windows")
  BY DEF install_service
<1>2. /\ pc \in {"start", "lock"} /\ (pc = "start" => os = "linux") /\ (pc = "lock" => os # "linux")
  OBVIOUS
<1>3. Continues(proc, proc', pc) /\ proc'.reused = proc.reused
  BY <1>1, <1>2, AtUnit, GotoFacts DEF Steps, InitSteps
<1> HIDE DEF pc
<1>4. Types'
  <2>1. group' \in BOOLEAN
    BY <1>1
  <2> QED
    BY <1>1, <1>3, <2>1, AtUnit DEF DeploymentInv, Types, store, Continues
<1>5. os = "linux" => group' = group
  BY <1>1 DEF DeploymentInv, Types
<1>6. InitAt'
  BY <1>1, <1>2, <1>3, <1>5, AtUnit DEF InitAt, InitSteps, ServiceSteps, Continues, store
<1> QED
  BY <1>1, <1>3, <1>4, <1>6, AtUnit DEF DeploymentInv, ProcInv, Continues

\* A Windows service that is there is left as it is.
LEMMA ReuseServiceStep ==
    ASSUME DeploymentInv, ReuseService
    PROVE  DeploymentInv'
<1>1. /\ At("init", "unit") /\ Reuse("service", "start") /\ Quiet
      /\ os = "windows" /\ unit # None
  BY DEF ReuseService
<1>2. Continues(proc, proc', "start") /\ proc'.reused = proc.reused \cup {"service"}
  BY <1>1, AtUnit, ReuseFacts DEF Steps, InitSteps
<1>3. Types'
  BY <1>1, <1>2, QuietTypes DEF DeploymentInv, Continues
<1>4. HasConfig(files'[proc'.target.dir], proc'.reused)
  BY <1>1, <1>2, AtUnit DEF HasConfig, Continues, Quiet, store
<1>5. "service" \in proc'.reused /\ os' # "linux" /\ unit' # None
  BY <1>1, <1>2 DEF Quiet, machine
<1>6. InitAt'
  BY <1>1, <1>2, <1>4, <1>5, AtUnit DEF InitAt, InitSteps, ServiceSteps, EarlySteps, Continues
<1> QED
  BY <1>1, <1>2, <1>3, <1>6, AtUnit DEF DeploymentInv, ProcInv, Continues

\* The install script gives the directory to the service.
LEMMA LockStep ==
    ASSUME DeploymentInv, LockDir
    PROVE  DeploymentInv'
<1> DEFINE d == proc.target.dir
           x == [files[d] EXCEPT !.acl = TRUE]
<1>1. /\ At("init", "lock") /\ Goto("start") /\ UNCHANGED <<os, keychain, keys, machine, commands>>
      /\ files' = [files EXCEPT ![d] = x]
  BY DEF LockDir
<1>2. Continues(proc, proc', "start") /\ proc'.reused = proc.reused
  BY <1>1, AtUnit, GotoFacts DEF Steps, InitSteps
<1>3. x \in Dir /\ x.acl /\ x.config = files[d].config /\ x.key = files[d].key
  BY <1>1, AtUnit DEF DeploymentInv, Types, Dir
<1> HIDE DEF x
<1>4. Types' /\ files'[d] = x
  BY <1>1, <1>2, <1>3, AtUnit, FileTypes DEF DeploymentInv, Continues
<1>5. HasConfig(files'[d], proc'.reused) /\ files'[d].acl
  BY <1>1, <1>2, <1>3, <1>4, AtUnit DEF HasConfig
<1>6. os' # "linux" /\ unit' = d /\ unit' # None /\ "service" \notin proc'.reused
  BY <1>1, <1>2, AtUnit DEF machine
<1>7. InitAt'
  BY <1>1, <1>2, <1>5, <1>6, AtUnit DEF InitAt, InitSteps, ServiceSteps, EarlySteps, Continues
<1> QED
  BY <1>1, <1>2, <1>4, <1>7, AtUnit DEF DeploymentInv, ProcInv, Continues

\* A service that is started serves a state directory.
LEMMA StartedFacts ==
    ASSUME NEW d \in Dirs \cup {None}
    PROVE  Started(d) \in Dirs \cup {None}
  BY DEF Started

\* The steps after the start promise nothing that a later step could break.
LEMMA LateStep ==
    ASSUME DeploymentInv, NEW pc \in {"start", "configure", "changed"}, At("init", pc),
           NEW next \in {"configure", "changed", "restart"}, Continues(proc, proc', next), Types'
    PROVE  DeploymentInv'
<1>1. proc \in Proc /\ proc.op = "init" /\ InitAt /\ proc.pc = pc
  BY AtFacts DEF Ops
<1>2. proc.wrote = None /\ proc.target = Named(proc.flags, proc.as) /\ ~proc.flags.user
  BY <1>1 DEF InitAt, ServiceSteps
<1>3. InitAt'
  BY <1>2 DEF InitAt, InitSteps, ServiceSteps, EarlySteps, Continues
<1> QED
  BY <1>1, <1>3 DEF DeploymentInv, ProcInv, Continues

\* The service is started.
LEMMA EnableStep ==
    ASSUME DeploymentInv, enable_service
    PROVE  DeploymentInv'
<1>1. At("init", "start") /\ Goto("configure") /\ UNCHANGED <<os, store, account, group, unit, commands>>
  BY DEF enable_service
<1>2. Continues(proc, proc', "configure")
  BY <1>1, AtFacts, GotoFacts DEF Ops, Steps, InitSteps
<1>3. daemon' \in Dirs \cup {None}
  BY StartedFacts DEF enable_service, DeploymentInv, Types
<1>4. Types'
  BY <1>1, <1>2, <1>3 DEF DeploymentInv, Types, store, Continues
<1> QED
  BY <1>1, <1>2, <1>4, LateStep

\* The wizard edits the config of the service that was installed.
LEMMA ConfigureStep ==
    ASSUME DeploymentInv, Configure
    PROVE  DeploymentInv'
<1>1. PICK pc \in {"configure", "changed"} : At("init", pc)
  BY DEF Configure
<1>2. proc \in Proc /\ proc.as \in {"operator", "root", "service"} /\ proc.target.dir \in Dirs
  BY <1>1, AtFacts, InitTarget DEF Ops, Proc, Accounts
<1>3. Continues(proc, proc', "changed")
  BY <1>2, GotoFacts DEF Configure, Steps, InitSteps
<1>4. Types'
  BY <1>2, <1>3, OwnerFacts DEF Configure, DeploymentInv, Continues
<1> QED
  BY <1>1, <1>3, <1>4, LateStep

\* The files go back to the service account.
LEMMA FinalizeStep ==
    ASSUME DeploymentInv, Finalize
    PROVE  DeploymentInv'
<1> DEFINE next == IF proc.pc = "changed" THEN "restart" ELSE "done"
<1>1. PICK pc \in {"configure", "changed"} : At("init", pc)
  BY DEF Finalize
<1>2. proc \in Proc /\ proc.target.dir \in Dirs /\ Goto(next)
      /\ UNCHANGED <<os, keychain, keys, machine, commands>>
  BY <1>1, AtFacts, InitTarget DEF Ops, Finalize
<1>3. next \in {"restart", "done"} /\ (next = "done" => proc' = NoProc)
  BY <1>2 DEF Goto
<1> HIDE DEF next
<1>4. next = "restart" => Continues(proc, proc', "restart")
  BY <1>2, GotoFacts DEF Steps, InitSteps
<1>5. proc' = NoProc \/ proc' \in Proc
  BY <1>3, <1>4 DEF Continues
<1>6. Types'
  <2>1. CASE os = "linux"
    BY <1>2, <1>5, <2>1, OwnerFacts DEF Finalize, DeploymentInv
  <2>2. CASE os # "linux"
    BY <1>2, <1>5, <2>2 DEF Finalize, DeploymentInv, Types, machine
  <2> QED
    BY <2>1, <2>2
<1> QED
  BY <1>1, <1>3, <1>4, <1>6, LateStep, EndsFacts

\* The service is restarted.
LEMMA RestartStep ==
    ASSUME DeploymentInv, restart_service
    PROVE  DeploymentInv'
<1>1. proc' = NoProc /\ UNCHANGED <<os, store, account, group, unit, commands>>
  BY DEF restart_service, Goto
<1>2. daemon' \in Dirs \cup {None}
  BY StartedFacts DEF restart_service, DeploymentInv, Types
<1>3. Types'
  BY <1>1, <1>2 DEF DeploymentInv, Types, store
<1> QED
  BY <1>1, <1>3, EndsFacts

-----------------------------------------------------------------------------
(* uninstall *)

\* The target is resolved: by the operator's command, who confirms it, or by
\* root's, which finds the one that was confirmed.
LEMMA UninstallResolveStep ==
    ASSUME DeploymentInv, UninstallResolve
    PROVE  DeploymentInv'
<1> DEFINE t == resolve_target(proc.flags, proc.as, TRUE)
           confirmed == IF proc.confirmed = None THEN t ELSE proc.confirmed
           pc == IF ~is_system_service(t) THEN "remove"
                 ELSE IF needs_service_elevation THEN "elevate" ELSE "stop"
<1>1. /\ proc \in Proc /\ proc.op = "uninstall" /\ proc.pc = "parse" /\ UninstallAt
      /\ proc' = [proc EXCEPT !.target = t, !.confirmed = confirmed, !.pc = pc] /\ Quiet
  BY AtFacts DEF UninstallResolve, Ops
<1>2. proc.flags \in FlagType /\ proc.as \in Accounts /\ proc.confirmed \in Target \cup {None}
  BY <1>1 DEF Proc
<1>3. /\ t \in Target /\ t # None
      /\ t.dir \in {"system", "custom", default_user_state_dir(proc.as)}
      /\ (proc.flags.dir # None => t = Named(proc.flags, proc.as))
  BY <1>2, ResolveFacts DEF DeploymentInv
<1>4. confirmed = t
  <2>1. CASE proc.confirmed # None
    <3>1. /\ proc.confirmed.dir = proc.flags.dir /\ proc.flags.dir # None
          /\ proc.confirmed.ks = "file" /\ ~proc.flags.user /\ proc.confirmed \in Target
      BY <1>1, <1>2, <2>1 DEF UninstallAt
    <3>2. t = [dir |-> proc.flags.dir, ks |-> "file"]
      BY <1>3, <3>1 DEF Named
    <3>3. proc.confirmed = [dir |-> proc.flags.dir, ks |-> "file"]
      BY <3>1 DEF Target
    <3> QED
      BY <2>1, <3>2, <3>3
  <2> QED
    BY <2>1
<1>5. /\ pc \in {"remove", "elevate", "stop"}
      /\ pc = "elevate" => t.ks = "file" /\ t.dir \in {"system", "custom"}
  <2>1. pc = "elevate" => is_system_service(t)
    OBVIOUS
  <2>2. pc \in {"remove", "elevate", "stop"}
    OBVIOUS
  <2> HIDE DEF t, pc
  <2> QED
    BY <1>3, <2>1, <2>2 DEF is_system_service
<1> HIDE DEF t, confirmed, pc
<1>6. /\ proc' \in Proc /\ proc'.op = "uninstall" /\ proc'.pc = pc /\ proc'.wrote = None
      /\ proc'.target = t /\ proc'.confirmed = t
  <2>1. pc \in Steps /\ proc.wrote = None
    BY <1>1, <1>5 DEF Steps, UninstallSteps, UninstallAt
  <2> QED
    BY <1>1, <1>3, <1>4, <2>1 DEF Proc
<1>7. Types'
  BY <1>1, <1>6, QuietTypes DEF DeploymentInv
<1>8. UninstallAt'
  BY <1>3, <1>5, <1>6 DEF UninstallAt, UninstallSteps
<1> QED
  BY <1>6, <1>7, <1>8 DEF DeploymentInv, ProcInv

\* The command is run again as root, with the target by name.
LEMMA UninstallElevateStep ==
    ASSUME DeploymentInv, UninstallElevate
    PROVE  DeploymentInv'
<1> DEFINE t == proc.target
           f == forwarded_args(proc.flags, t)
<1>1. /\ proc \in Proc /\ proc.op = "uninstall" /\ proc.pc = "elevate" /\ UninstallAt
      /\ proc' = [proc EXCEPT !.pc = "parse", !.as = "root", !.flags = f] /\ Quiet
  BY AtFacts DEF UninstallElevate, Ops
<1>2. /\ proc.confirmed = t /\ t.ks = "file" /\ t.dir \in {"system", "custom"} /\ proc.wrote = None
      /\ proc.flags \in FlagType /\ t \in Target
  BY <1>1 DEF UninstallAt, Proc
<1>3. f \in FlagType /\ f.dir = t.dir /\ ~f.user
  <2>1. [proc.flags EXCEPT !.dir = t.dir] \in FlagType
    BY <1>2 DEF FlagType
  <2> QED
    BY <1>2, <2>1 DEF forwarded_args, FlagType
<1> HIDE DEF t, f
<1>4. /\ proc' \in Proc /\ proc'.op = "uninstall" /\ proc'.pc = "parse" /\ proc'.wrote = None
      /\ proc'.confirmed = t /\ proc'.flags = f
  BY <1>1, <1>2, <1>3 DEF Proc, Accounts, Steps, InitSteps
<1>5. Types'
  BY <1>1, <1>4, QuietTypes DEF DeploymentInv
<1>6. f.dir # None
  BY <1>2, <1>3, NoneAssumption DEF Dirs
<1>7. UninstallAt'
  BY <1>2, <1>3, <1>4, <1>6 DEF UninstallAt, UninstallSteps
<1> QED
  BY <1>4, <1>5, <1>7 DEF DeploymentInv, ProcInv

\* The target of an uninstall that goes on is the one that was confirmed.
LEMMA UninstallOnward ==
    ASSUME DeploymentInv, NEW pc \in {"stop", "remove", "forget"}, At("uninstall", pc),
           NEW next \in {"remove", "forget"}, Continues(proc, proc', next), Types'
    PROVE  DeploymentInv'
<1>1. proc \in Proc /\ proc.op = "uninstall" /\ UninstallAt /\ proc.pc = pc
  BY AtFacts DEF Ops
<1>2. UninstallAt'
  BY <1>1 DEF UninstallAt, UninstallSteps, Continues
<1> QED
  BY <1>1, <1>2 DEF DeploymentInv, ProcInv, Continues

\* The service is stopped, or thought to be, and removed.
LEMMA UninstallServiceStep ==
    ASSUME DeploymentInv, uninstall_service
    PROVE  DeploymentInv'
<1>1. /\ At("uninstall", "stop") /\ Goto("remove") /\ unit' = None /\ daemon' \in {None, daemon}
      /\ UNCHANGED <<os, store, account, group, commands>>
  BY DEF uninstall_service
<1>2. Continues(proc, proc', "remove")
  BY <1>1, AtFacts, GotoFacts DEF Ops, Steps, UninstallSteps
<1>3. Types'
  BY <1>1, <1>2 DEF DeploymentInv, Types, store, Continues
<1> QED
  BY <1>1, <1>2, <1>3, UninstallOnward

\* The target of an uninstall past its first step.
LEMMA UninstallTarget ==
    ASSUME DeploymentInv, NEW pc, At("uninstall", pc), pc # "parse"
    PROVE  /\ proc \in Proc /\ proc.op = "uninstall" /\ proc.as \in Accounts
           /\ proc.confirmed = proc.target
           /\ proc.target \in Target /\ proc.target.dir \in Dirs
<1>1. proc \in Proc /\ proc.op = "uninstall" /\ UninstallAt /\ proc.pc = pc
  BY AtFacts DEF Ops
<1> QED
  BY <1>1 DEF UninstallAt, Target, Proc

\* What is left of a directory when one of its entries is removed.
LEMMA Removes ==
    ASSUME NEW x \in Dir, NEW n \in {"config", "key", "audit"}
    PROVE  [x EXCEPT ![n] = IF n = "audit" THEN FALSE ELSE None] \in Dir
<1>1. CASE n = "config"
  BY <1>1 DEF Dir
<1>2. CASE n = "key"
  BY <1>2 DEF Dir
<1>3. CASE n = "audit"
  BY <1>3 DEF Dir
<1> QED
  BY <1>1, <1>2, <1>3

\* remove_state_dir touches the target alone.
LEMMA RemoveFacts ==
    ASSUME DeploymentInv, remove_state_dir
    PROVE  /\ files' \in [Dirs -> Dir] /\ UNCHANGED <<os, keychain, keys, machine, commands>>
           /\ \A d \in Dirs \ {proc.target.dir} : files'[d] = files[d]
           /\ proc' = proc \/ Goto("forget")
<1> DEFINE d == proc.target.dir
<1>1. At("uninstall", "remove") /\ UNCHANGED <<os, keychain, keys, machine, commands>>
  BY DEF remove_state_dir
<1>2. d \in Dirs /\ files \in [Dirs -> Dir]
  BY <1>1, UninstallTarget DEF DeploymentInv, Types
<1>3. CASE Left(d) = {}
  <2> DEFINE x == [files[d] EXCEPT !.acl = files[d].acl /\ files[d].audit]
  <2>1. Goto("forget") /\ files' = [files EXCEPT ![d] = x]
    BY <1>2, <1>3 DEF remove_state_dir
  <2>2. files[d] \in Dir
    BY <1>2
  <2>3. (files[d].acl /\ files[d].audit) \in BOOLEAN
    OBVIOUS
  <2>4. x \in Dir
    BY <2>2, <2>3 DEF Dir
  <2> HIDE DEF x
  <2> QED
    BY <1>1, <1>2, <2>1, <2>4
<1>4. CASE Left(d) # {}
  <2>1. PICK n \in Left(d) :
            /\ files' = [files EXCEPT ![d][n] = IF n = "audit" THEN FALSE ELSE None]
            /\ proc' = proc
    BY <1>4 DEF remove_state_dir
  <2> DEFINE x == [files[d] EXCEPT ![n] = IF n = "audit" THEN FALSE ELSE None]
  <2>2. files' = [files EXCEPT ![d] = x]
    BY <2>1
  <2>3. n \in {"config", "key", "audit"}
    BY <2>1 DEF Left
  <2>4. x \in Dir
    BY <1>2, <2>3, Removes
  <2> HIDE DEF x
  <2> QED
    BY <1>1, <1>2, <2>1, <2>2, <2>4
<1> QED
  BY <1>3, <1>4

\* The state directory is emptied.
LEMMA RemoveStep ==
    ASSUME DeploymentInv, remove_state_dir
    PROVE  DeploymentInv'
<1>1. At("uninstall", "remove")
  BY DEF remove_state_dir
<1>2. proc \in Proc /\ proc.op = "uninstall" /\ UninstallAt /\ proc.pc = "remove"
  BY <1>1, AtFacts DEF Ops
<1>3. Continues(proc, proc', "remove") \/ Continues(proc, proc', "forget")
  <2>1. CASE proc' = proc
    BY <1>2, <2>1, ProcIsOne DEF Continues
  <2>2. CASE Goto("forget")
    BY <1>2, <2>2, GotoFacts DEF Steps, UninstallSteps
  <2> QED
    BY <2>1, <2>2, RemoveFacts
<1>4. Types'
  BY <1>3, RemoveFacts DEF DeploymentInv, Types, machine, Continues
<1> QED
  BY <1>1, <1>3, <1>4, UninstallOnward

\* DeleteKey touches the confirmed key alone.
LEMMA DeleteFacts ==
    ASSUME DeploymentInv, DeleteKey
    PROVE  /\ files' \in [Dirs -> Dir] /\ keychain' \in [Accounts -> Keys \cup {None}]
           /\ \A d \in Dirs \ {proc.target.dir} : files'[d] = files[d]
           /\ \A a \in Accounts \ {proc.as} : keychain'[a] = keychain[a]
           /\ proc.target.ks # "os" => keychain' = keychain
           /\ proc' = NoProc /\ UNCHANGED <<os, keys, machine, commands>>
<1> DEFINE d == proc.target.dir
<1>1. At("uninstall", "forget") /\ UNCHANGED <<os, keys, machine, commands>> /\ proc' = NoProc
  BY DEF DeleteKey, Goto
<1>2. d \in Dirs /\ files \in [Dirs -> Dir] /\ keychain \in [Accounts -> Keys \cup {None}]
      /\ proc.as \in Accounts
  BY <1>1, UninstallTarget DEF DeploymentInv, Types
<1>3. CASE proc.target.ks = "os"
  <2>1. keychain' = [keychain EXCEPT ![proc.as] = None] /\ files' = files
    BY <1>3 DEF DeleteKey
  <2> QED
    BY <1>1, <1>2, <1>3, <2>1
<1>4. CASE proc.target.ks # "os"
  <2> DEFINE x == [files[d] EXCEPT !.key = None]
  <2>1. files' = [files EXCEPT ![d] = x] /\ keychain' = keychain
    BY <1>4 DEF DeleteKey
  <2>2. x \in Dir
    BY <1>2 DEF Dir
  <2> HIDE DEF x
  <2> QED
    BY <1>1, <1>2, <1>4, <2>1, <2>2
<1> QED
  BY <1>3, <1>4

\* The key is deleted.
LEMMA DeleteStep ==
    ASSUME DeploymentInv, DeleteKey
    PROVE  DeploymentInv'
<1>1. Types'
  BY DeleteFacts DEF DeploymentInv, Types, machine
<1> QED
  BY <1>1, DeleteFacts, EndsFacts

-----------------------------------------------------------------------------
(* Edits *)

\* An edit at a step.
LEMMA EditingFacts ==
    ASSUME DeploymentInv, NEW pc, Editing(pc)
    PROVE  /\ proc \in Proc /\ proc.op \in {"edit", "wizard"} /\ proc.pc = pc /\ EditAt
           /\ pc # "parse" => proc.target \in Target /\ proc.target.dir \in Dirs
<1>1. proc \in Proc /\ proc.op \in {"edit", "wizard"} /\ proc.pc = pc /\ EditAt
  BY AtFacts DEF Editing, Ops
<1> QED
  BY <1>1 DEF EditAt, Target

\* What is sent over the channel names no deployment.
LEMMA ChannelIsUnnamed ==
    ASSUME NEW f \in FlagType, NEW t
    PROVE  decide_mode(f, t) = "channel" => ~f.user /\ f.dir = None
  BY DEF decide_mode

\* The target is resolved, and with it the way the edit is made.
LEMMA EditResolveStep ==
    ASSUME DeploymentInv, EditResolve
    PROVE  DeploymentInv'
<1> DEFINE t == resolve_target(proc.flags, proc.as, TRUE)
           pc == IF decide_mode(proc.flags, t) = "channel" THEN "channel"
                 ELSE IF proc.op = "wizard" THEN "load" ELSE "guard"
<1>1. /\ proc \in Proc /\ proc.op \in {"edit", "wizard"} /\ proc.pc = "parse" /\ EditAt
      /\ proc' = [proc EXCEPT !.target = t, !.pc = pc] /\ Quiet
  BY EditingFacts DEF EditResolve
<1>2. proc.flags \in FlagType /\ proc.as \in Accounts
  BY <1>1 DEF Proc
<1>3. t \in Target /\ Lands(proc.flags, proc.as, t.dir)
  BY <1>2, ResolveFacts DEF DeploymentInv
<1>4. /\ pc \in {"channel", "load", "guard"}
      /\ pc = "channel" => ~proc.flags.user /\ proc.flags.dir = None
  <2> HIDE DEF t
  <2> QED
    BY <1>2, ChannelIsUnnamed
<1> HIDE DEF t, pc
<1>5. /\ proc' \in Proc /\ proc'.op = proc.op /\ proc'.pc = pc /\ proc'.wrote = proc.wrote
      /\ proc'.target = t /\ proc'.flags = proc.flags /\ proc'.as = proc.as
  <2>1. pc \in Steps
    BY <1>4 DEF Steps, EditSteps
  <2> QED
    BY <1>1, <1>3, <2>1 DEF Proc
<1>6. Types'
  BY <1>1, <1>5, QuietTypes DEF DeploymentInv
<1>7. EditAt'
  BY <1>1, <1>3, <1>4, <1>5 DEF EditAt, EditSteps, Lands, default_user_state_dir
<1> QED
  BY <1>1, <1>5, <1>6, <1>7 DEF DeploymentInv, ProcInv

\* An edit goes on, and leaves its target and what it wrote as they were.
LEMMA EditOnward ==
    ASSUME DeploymentInv, NEW pc, Editing(pc), pc # "parse",
           NEW next \in {"channel", "load", "save"}, Continues(proc, proc', next), Types',
           next = "channel" => ~proc.flags.user /\ proc.flags.dir = None
    PROVE  DeploymentInv'
<1>1. proc \in Proc /\ proc.op \in {"edit", "wizard"} /\ proc.pc = pc /\ EditAt
  BY EditingFacts
<1>2. EditAt'
  BY <1>1 DEF EditAt, EditSteps, Continues, Lands, default_user_state_dir
<1> QED
  BY <1>1, <1>2 DEF DeploymentInv, ProcInv, Continues

\* An edit has written a directory where it may land.
LEMMA EditWrote ==
    ASSUME DeploymentInv, NEW pc, Editing(pc), pc # "parse", NEW d \in Dirs,
           Lands(proc.flags, proc.as, d),
           proc' = [proc EXCEPT !.pc = "wrote", !.wrote = d]
    PROVE  proc' \in Proc /\ ProcInv'
<1>1. proc \in Proc /\ proc.op \in {"edit", "wizard"} /\ proc.pc = pc /\ EditAt
  BY EditingFacts
<1>2. /\ proc' \in Proc /\ proc'.op = proc.op /\ proc'.pc = "wrote" /\ proc'.wrote = d
      /\ proc'.target = proc.target /\ proc'.flags = proc.flags /\ proc'.as = proc.as
  BY <1>1 DEF Proc, Steps, EditSteps
<1>3. EditAt'
  BY <1>1, <1>2 DEF EditAt, EditSteps, Lands, default_user_state_dir
<1> QED
  BY <1>1, <1>2, <1>3 DEF ProcInv

\* The daemon makes the edit.
LEMMA ChannelEditStep ==
    ASSUME DeploymentInv, ChannelEdit
    PROVE  DeploymentInv'
<1> DEFINE who == IF os = "linux" THEN "service" ELSE files[daemon].owner
<1>1. /\ Editing("channel") /\ daemon # None /\ UNCHANGED <<os, keychain, keys, machine, commands>>
      /\ proc' = [proc EXCEPT !.pc = "wrote", !.wrote = daemon]
      /\ files' = [files EXCEPT ![daemon].owner = who]
  BY DEF ChannelEdit
<1>2. daemon \in Dirs
  BY <1>1 DEF DeploymentInv, Types
<1>3. Lands(proc.flags, proc.as, daemon)
  BY <1>1, EditingFacts DEF EditAt, Lands
<1>4. proc' \in Proc /\ ProcInv'
  BY <1>1, <1>2, <1>3, EditWrote
<1>5. who \in {"operator", "root", "service"}
  BY <1>2 DEF DeploymentInv, Types, Dir
<1> HIDE DEF who
<1>6. Types'
  BY <1>1, <1>2, <1>4, <1>5, OwnerFacts DEF DeploymentInv
<1> QED
  BY <1>4, <1>6 DEF DeploymentInv

\* No daemon answers, and the config is loaded.
LEMMA GuardLoadStep ==
    ASSUME DeploymentInv, Guard \/ Load
    PROVE  DeploymentInv'
<1>1. PICK pc \in {"guard", "load"}, next \in {"load", "save"} : Editing(pc) /\ Goto(next) /\ Quiet
  BY DEF Guard, Load
<1>2. Continues(proc, proc', next)
  BY <1>1, EditingFacts, GotoFacts DEF Steps, EditSteps
<1>3. Types'
  BY <1>1, <1>2, QuietTypes DEF DeploymentInv, Continues
<1> QED
  BY <1>1, <1>2, <1>3, EditOnward

\* The config is saved.
LEMMA SaveStep ==
    ASSUME DeploymentInv, Save
    PROVE  DeploymentInv'
<1> DEFINE d == proc.target.dir
<1>1. /\ Editing("save") /\ UNCHANGED <<os, keychain, keys, machine, commands>>
      /\ proc' = [proc EXCEPT !.pc = "wrote", !.wrote = d]
      /\ files' = [files EXCEPT ![d].owner = proc.as]
  BY DEF Save
<1>2. d \in Dirs /\ proc \in Proc /\ Lands(proc.flags, proc.as, d)
  BY <1>1, EditingFacts DEF EditAt
<1>3. proc' \in Proc /\ ProcInv'
  BY <1>1, <1>2, EditWrote
<1>4. proc.as \in {"operator", "root", "service"}
  BY <1>2 DEF Proc, Accounts
<1>5. Types'
  BY <1>1, <1>2, <1>3, <1>4, OwnerFacts DEF DeploymentInv
<1> QED
  BY <1>3, <1>5 DEF DeploymentInv

\* The command ends, or the wizard goes on.
LEMMA EditDoneStep ==
    ASSUME DeploymentInv, EditDone
    PROVE  DeploymentInv'
<1> DEFINE next == IF decide_mode(proc.flags, proc.target) = "channel" THEN "channel" ELSE "load"
<1>1. Editing("wrote") /\ Quiet
  BY DEF EditDone
<1>2. proc \in Proc /\ proc.flags \in FlagType
  BY <1>1, EditingFacts DEF Proc
<1>3. CASE proc.op = "wizard"
  <2>1. Goto(next)
    BY <1>3 DEF EditDone
  <2>2. /\ next \in {"channel", "load"}
        /\ next = "channel" => ~proc.flags.user /\ proc.flags.dir = None
    BY <1>2, ChannelIsUnnamed
  <2> HIDE DEF next
  <2>3. Continues(proc, proc', next)
    BY <1>2, <2>1, <2>2, GotoFacts DEF Steps, EditSteps
  <2>4. Types'
    BY <1>1, <2>3, QuietTypes DEF DeploymentInv, Continues
  <2> QED
    BY <1>1, <2>2, <2>3, <2>4, EditOnward
<1>4. CASE proc.op # "wizard"
  <2>1. proc' = NoProc
    BY <1>4 DEF EditDone, Goto
  <2> QED
    BY <1>1, <2>1, QuietTypes, EndsFacts DEF DeploymentInv
<1> QED
  BY <1>3, <1>4

-----------------------------------------------------------------------------
(* The commands together *)

\* A command is started.
LEMMA StartStep ==
    ASSUME DeploymentInv, Start
    PROVE  DeploymentInv'
<1>1. PICK op \in Ops, as \in Accounts, f \in Flags : Run(op, as, f)
  BY DEF Start
<1>2. /\ proc' = [pc |-> "parse", op |-> op, as |-> as, flags |-> f, target |-> None,
                  confirmed |-> None, wrote |-> None, reused |-> {}]
      /\ commands < MaxCommands /\ commands' = commands + 1 /\ UNCHANGED <<os, store, machine>>
  BY <1>1 DEF Run
<1>3. f \in FlagType
  BY <1>1 DEF Flags, FlagType
<1>4. proc' \in Proc
  BY <1>1, <1>2, <1>3 DEF Proc, Steps, InitSteps
<1>5. commands' \in 0..MaxCommands
  BY <1>2, DeploymentAssumption DEF DeploymentInv, Types
<1>6. Types'
  BY <1>2, <1>4, <1>5 DEF DeploymentInv, Types, store, machine
<1>7. ProcInv'
  <2>1. /\ proc'.pc = "parse" /\ proc'.wrote = None /\ proc'.confirmed = None
        /\ proc'.reused = {}
    BY <1>2
  <2> QED
    BY <2>1 DEF ProcInv, InitAt, UninstallAt, EditAt, InitSteps, UninstallSteps, EditSteps,
                ServiceSteps
<1> QED
  BY <1>6, <1>7 DEF DeploymentInv

\* A command fails.
LEMMA FailStep ==
    ASSUME DeploymentInv, Fail
    PROVE  DeploymentInv'
  BY QuietTypes, EndsFacts DEF Fail, DeploymentInv

\* Nothing a command relies on is touched by the service's coming and going.
LEMMA ServiceStep ==
    ASSUME DeploymentInv, daemon' \in Dirs \cup {None},
           UNCHANGED <<os, store, account, group, unit, proc, commands>>
    PROVE  DeploymentInv'
<1>1. Types'
  BY DEF DeploymentInv, Types, store
<1>2. ProcInv'
  BY DEF DeploymentInv, ProcInv, InitAt, UninstallAt, EditAt, Lands, Named,
         default_user_state_dir, store
<1> QED
  BY <1>1, <1>2 DEF DeploymentInv

\* The machine as it is found: nothing, or an earlier version's deployment.
LEMMA InitHolds ==
    ASSUME Init
    PROVE  DeploymentInv
<1>1. 1 \in Keys /\ 0 \in 0..MaxKeys /\ 1 \in 0..MaxKeys /\ 0 \in 0..MaxCommands
  BY DeploymentAssumption DEF Keys
<1>2. PICK as \in Accounts \cup {None}, ks \in {"os", "file"} :
          /\ files = [d \in Dirs |-> IF as # None /\ d = default_user_state_dir(as)
                                     THEN OldDeployment(as, ks) ELSE Empty]
          /\ keychain = [a \in Accounts |-> IF a = as /\ ks = "os" THEN 1 ELSE None]
          /\ keys = IF as = None THEN 0 ELSE 1
  BY DEF Init
<1>3. Empty \in Dir /\ (as # None => OldDeployment(as, ks) \in Dir)
  <2>1. Empty \in Dir
    BY DEF Empty, Dir
  <2>2. as # None => OldDeployment(as, ks) \in Dir
    BY <1>1 DEF OldDeployment, Dir, Accounts
  <2> QED
    BY <2>1, <2>2
<1>4. files \in [Dirs -> Dir] /\ keychain \in [Accounts -> Keys \cup {None}] /\ keys \in 0..MaxKeys
  BY <1>1, <1>2, <1>3
<1> QED
  BY <1>1, <1>4 DEF Init, DeploymentInv, Types, ProcInv

\* Every step keeps the invariant.
LEMMA NextHolds ==
    ASSUME DeploymentInv, [Next]_vars
    PROVE  DeploymentInv'
<1>1. CASE Start
  BY <1>1, StartStep
<1>2. CASE InitNext
  BY <1>2, InitElevateStep, InitResolveStep, AccountStep, SeedReuseStep, SeedKeyStep,
     SeedConfigStep, ChownStep, InstallStep, ReuseServiceStep,
     LockStep, EnableStep, ConfigureStep, FinalizeStep, RestartStep
     DEF InitNext
<1>3. CASE UninstallNext
  BY <1>3, UninstallResolveStep, UninstallElevateStep, UninstallServiceStep, RemoveStep,
     DeleteStep DEF UninstallNext
<1>4. CASE EditNext
  BY <1>4, EditResolveStep, ChannelEditStep, GuardLoadStep, SaveStep, EditDoneStep DEF EditNext
<1>5. CASE Fail
  BY <1>5, FailStep
<1>6. CASE ServiceStarts \/ ServiceStops
  BY <1>6, ServiceStep DEF ServiceStarts, ServiceStops, DeploymentInv, Types
<1>7. CASE UNCHANGED vars
  <2>1. daemon' \in Dirs \cup {None}
    BY <1>7 DEF vars, DeploymentInv, Types
  <2> QED
    BY <1>7, <2>1, ServiceStep DEF vars, store
<1> QED
  BY <1>1, <1>2, <1>3, <1>4, <1>5, <1>6, <1>7 DEF Next

\* The inductive invariant holds throughout.
LEMMA InvHolds == Spec => []DeploymentInv
<1>1. Init => DeploymentInv
  BY InitHolds
<1>2. DeploymentInv /\ [Next]_vars => DeploymentInv'
  BY NextHolds
<1> QED
  BY <1>1, <1>2, PTL DEF Spec

\* Every variable keeps its type: the state directories, the keychains and the
\* command under way stay well formed whatever fails half-way.
THEOREM DeploymentTypes == Spec => []TypeOK
<1>1. DeploymentInv => TypeOK
  BY DEF DeploymentInv, Types, TypeOK, Proc
<1> QED
  BY <1>1, InvHolds, PTL

\* A registered service has its group: nothing takes the group away.
LEMMA GroupHolds == Spec => [](unit # None => group)
<1> DEFINE Grouped == unit # None => group
<1>1. Init => Grouped
  BY DEF Init
<1>2. DeploymentInv /\ Grouped /\ [Next]_vars => Grouped'
  <2> SUFFICES ASSUME DeploymentInv, Grouped, [Next]_vars
               PROVE  Grouped'
    OBVIOUS
  <2>1. CASE install_service
    <3>1. os = "linux" => group
      BY <2>1, AtUnit DEF install_service
    <3>2. os = "linux" \/ os = "windows"
      BY DeploymentAssumption DEF DeploymentInv, Types
    <3> QED
      BY <2>1, <3>1, <3>2 DEF install_service
  <2>2. CASE uninstall_service \/ ensure_admins_group
    BY <2>2 DEF uninstall_service, ensure_admins_group
  <2>3. unit' = unit /\ group' = group => Grouped'
    OBVIOUS
  <2>4. CASE InitNext /\ ~install_service /\ ~ensure_admins_group
    BY <2>3, <2>4 DEF InitNext, InitElevate, InitResolve, ensure_service_user, SeedReuse, SeedKey,
       SeedConfig, chown_state_dir, ReuseService, LockDir, enable_service, Configure, Finalize,
       restart_service, Quiet, machine
  <2>5. CASE (UninstallNext /\ ~uninstall_service) \/ EditNext
    BY <2>3, <2>5 DEF UninstallNext, UninstallResolve, UninstallElevate, remove_state_dir,
       DeleteKey, EditNext, EditResolve, ChannelEdit, Guard, Load, Save, EditDone, Quiet, machine
  <2>6. CASE Start \/ Fail \/ ServiceStarts \/ ServiceStops \/ UNCHANGED vars
    BY <2>3, <2>6 DEF Start, Run, Fail, ServiceStarts, ServiceStops, vars, Quiet, machine
  <2> QED
    BY <2>1, <2>2, <2>4, <2>5, <2>6 DEF Next
<1> QED
  BY <1>1, <1>2, InvHolds, PTL DEF Spec

\* init has the service started only when it can come up on the directory that
\* was asked for, with the key its config is sealed with and with the account
\* and the group its unit names; a config that was there and a Windows service
\* that was there are taken as they are.
THEOREM ServiceIsReady == Spec => []StartedUnitIsReady
<1>1. DeploymentInv /\ (unit # None => group) => StartedUnitIsReady
  <2> SUFFICES ASSUME DeploymentInv, unit # None => group, At("init", "start")
               PROVE  StartedUnitIsReady
    BY DEF StartedUnitIsReady
  <2> DEFINE asked == IF proc.flags.dir # None THEN proc.flags.dir ELSE "system"
  <2>1. proc.pc = "start" /\ InitAt
    BY AtFacts DEF Ops
  <2>2. os = "linux" \/ os = "windows"
    BY DeploymentAssumption DEF DeploymentInv, Types
  <2>3. proc.target.dir = asked
    BY <2>1 DEF InitAt, ServiceSteps, Named
  <2> HIDE DEF asked
  <2>4. files[asked].config # None /\ ("config" \notin proc.reused => files[asked].key = files[asked].config)
    BY <2>1, <2>3 DEF InitAt, HasConfig
  <2>5. "service" \notin proc.reused => unit = asked /\ Readable(asked)
    BY <2>1, <2>2, <2>3 DEF InitAt, Readable
  <2>6. os = "linux" => "service" \notin proc.reused /\ account
    BY <2>1 DEF InitAt, ServiceSteps
  <2>7. group
    BY <2>1 DEF InitAt
  <2> QED
    BY <2>3, <2>4, <2>5, <2>6, <2>7 DEF StartedUnitIsReady, asked
<1> QED
  BY <1>1, InvHolds, GroupHolds, PTL

\* An edit that names its deployment changes that one, whichever the daemon
\* serves: decide_mode sends none of them over the channel.
THEOREM EditsLand == Spec => []EditLandsWhereNamed
<1>1. DeploymentInv => EditLandsWhereNamed
  <2> SUFFICES ASSUME DeploymentInv, proc # NoProc, proc.wrote # None
               PROVE  Lands(proc.flags, proc.as, proc.wrote)
    BY DEF EditLandsWhereNamed, Lands
  <2>1. proc.op \in Ops
    BY DEF DeploymentInv, Types, Proc
  <2>2. proc.op \in {"edit", "wizard"} /\ EditAt
    BY <2>1 DEF DeploymentInv, ProcInv, InitAt, UninstallAt, Ops
  <2> QED
    BY <2>2 DEF EditAt
<1> QED
  BY <1>1, InvHolds, PTL

-----------------------------------------------------------------------------
(* What a step may take away *)

\* A step that takes no config and no key away.
KeepsFiles ==
    \A d \in Dirs : /\ files[d].config # None => files'[d].config # None
                    /\ files[d].key # None => files'[d].key # None

KeepsKeychain == \A a \in Accounts : keychain[a] # None => keychain'[a] # None

\* Giving a directory to someone takes nothing out of it.
LEMMA OwnerKeeps ==
    ASSUME Types, NEW d \in Dirs, NEW who, files' = [files EXCEPT ![d].owner = who]
    PROVE  KeepsFiles
<1> DEFINE x == [files[d] EXCEPT !.owner = who]
<1>1. files' = [files EXCEPT ![d] = x]
  OBVIOUS
<1>2. x.config = files[d].config /\ x.key = files[d].key
  BY DEF Types, Dir
<1> HIDE DEF x
<1> QED
  BY <1>1, <1>2 DEF KeepsFiles, Types

\* A new key replaces none by none.
LEMMA SeedKeyKeeps ==
    ASSUME DeploymentInv, SeedKey
    PROVE  KeepsFiles /\ KeepsKeychain
<1> DEFINE d == proc.target.dir
           x == [files[d] EXCEPT !.audit = TRUE]
           y == [files[d] EXCEPT !.audit = TRUE, !.key = keys']
<1>1. At("init", "seed") /\ keys' = keys + 1 /\ keys < MaxKeys
  BY DEF SeedKey
<1>2. keys' # None
  BY <1>1, DeploymentAssumption, NoneAssumption DEF DeploymentInv, Types, Keys
<1>3. /\ d \in Dirs /\ files \in [Dirs -> Dir] /\ files[d] \in Dir
      /\ keychain \in [Accounts -> Keys \cup {None}]
  BY <1>1, InitTarget DEF DeploymentInv, Types
<1>4. /\ x.config = files[d].config /\ x.key = files[d].key
      /\ y.config = files[d].config /\ y.key = keys'
  BY <1>3 DEF Dir
<1>5. CASE proc.target.ks = "os"
  <2>1. files' = [files EXCEPT ![d] = x] /\ keychain' = [keychain EXCEPT ![proc.as] = keys']
    BY <1>5 DEF SeedKey
  <2> HIDE DEF x
  <2> QED
    BY <1>2, <1>3, <1>4, <2>1 DEF KeepsFiles, KeepsKeychain
<1>6. CASE proc.target.ks # "os"
  <2>1. files' = [files EXCEPT ![d] = y] /\ keychain' = keychain
    BY <1>3, <1>6 DEF SeedKey
  <2> HIDE DEF y
  <2> QED
    BY <1>2, <1>3, <1>4, <2>1 DEF KeepsFiles, KeepsKeychain
<1> QED
  BY <1>5, <1>6

\* The config that is sealed is one.
LEMMA SeedConfigKeeps ==
    ASSUME DeploymentInv, SeedConfig
    PROVE  KeepsFiles /\ KeepsKeychain
<1> DEFINE d == proc.target.dir
           x == [files[d] EXCEPT !.config = keys, !.owner = proc.as]
<1>1. At("init", "seal") /\ keychain' = keychain
  BY DEF SeedConfig
<1>2. keys # None
  BY <1>1, AtFacts, NoneAssumption DEF Ops, InitAt
<1>3. d \in Dirs /\ files \in [Dirs -> Dir] /\ files[d] \in Dir
  BY <1>1, InitTarget DEF DeploymentInv, Types
<1>4. x.config = keys /\ x.key = files[d].key
  BY <1>3 DEF Dir
<1>5. files' = [files EXCEPT ![d] = x]
  BY <1>3 DEF SeedConfig
<1> HIDE DEF x
<1> QED
  BY <1>1, <1>2, <1>3, <1>4, <1>5 DEF KeepsFiles, KeepsKeychain

\* Nor does an ACL.
LEMMA AclKeeps ==
    ASSUME Types, NEW d \in Dirs, NEW b, files' = [files EXCEPT ![d].acl = b]
    PROVE  KeepsFiles
<1> DEFINE x == [files[d] EXCEPT !.acl = b]
<1>1. files' = [files EXCEPT ![d] = x]
  OBVIOUS
<1>2. x.config = files[d].config /\ x.key = files[d].key
  BY DEF Types, Dir
<1> HIDE DEF x
<1> QED
  BY <1>1, <1>2 DEF KeepsFiles, Types

\* Of init's steps none takes a config or a key away.
LEMMA InitKeeps ==
    ASSUME DeploymentInv, InitNext
    PROVE  KeepsFiles /\ KeepsKeychain
<1> USE DEF KeepsFiles, KeepsKeychain
<1>1. CASE SeedKey
  BY <1>1, SeedKeyKeeps
<1>2. CASE SeedConfig
  BY <1>2, SeedConfigKeeps
<1>3. CASE chown_state_dir \/ Configure \/ Finalize
  <2>1. PICK pc \in {"chown", "configure", "changed"} : At("init", pc)
    BY <1>3 DEF chown_state_dir, Configure, Finalize
  <2>2. proc.target.dir \in Dirs
    BY <2>1, InitTarget
  <2>3. keychain' = keychain
    BY <1>3 DEF chown_state_dir, Configure, Finalize
  <2>4. files' = files \/ \E who : files' = [files EXCEPT ![proc.target.dir].owner = who]
    BY <1>3 DEF chown_state_dir, Configure, Finalize
  <2> QED
    BY <2>2, <2>3, <2>4, OwnerKeeps DEF DeploymentInv
<1>4. CASE \/ InitElevate \/ InitResolve \/ SeedReuse
           \/ ensure_service_user \/ ensure_admins_group \/ install_service
           \/ enable_service \/ restart_service \/ ReuseService
  <2>1. files' = files /\ keychain' = keychain
    BY <1>4 DEF InitElevate, InitResolve, SeedReuse, Quiet, ensure_service_user,
       ensure_admins_group, install_service, enable_service, restart_service, ReuseService, store
  <2> QED
    BY <2>1
<1>5. CASE LockDir
  BY <1>5, AtUnit, AclKeeps DEF LockDir, DeploymentInv
<1> QED
  BY <1>1, <1>2, <1>3, <1>4, <1>5 DEF InitNext

\* Nor does an edit.
LEMMA EditKeeps ==
    ASSUME DeploymentInv, EditNext
    PROVE  KeepsFiles /\ KeepsKeychain
<1>1. CASE ChannelEdit
  <2>1. daemon \in Dirs /\ keychain' = keychain
        /\ \E who : files' = [files EXCEPT ![daemon].owner = who]
    BY <1>1 DEF ChannelEdit, DeploymentInv, Types
  <2> QED
    BY <2>1, OwnerKeeps DEF DeploymentInv, KeepsKeychain
<1>2. CASE Save
  <2>1. proc.target.dir \in Dirs /\ keychain' = keychain
        /\ files' = [files EXCEPT ![proc.target.dir].owner = proc.as]
    BY <1>2, EditingFacts DEF Save
  <2> QED
    BY <2>1, OwnerKeeps DEF DeploymentInv, KeepsKeychain
<1>3. CASE EditResolve \/ Guard \/ Load \/ EditDone
  BY <1>3 DEF EditResolve, Guard, Load, EditDone, Quiet, store, KeepsFiles, KeepsKeychain
<1> QED
  BY <1>1, <1>2, <1>3 DEF EditNext

\* What an uninstall takes away is its target.
LEMMA UninstallTakes ==
    ASSUME DeploymentInv, remove_state_dir \/ DeleteKey
    PROVE  /\ proc.op = "uninstall" /\ proc.confirmed = proc.target
           /\ \A d \in Dirs \ {proc.confirmed.dir} : files'[d] = files[d]
           /\ \A a \in Accounts : keychain'[a] # keychain[a]
                                     => proc.as = a /\ proc.confirmed.ks = "os"
<1>1. proc.op = "uninstall" /\ proc.confirmed = proc.target
  BY UninstallTarget DEF remove_state_dir, DeleteKey
<1>2. CASE remove_state_dir
  BY <1>1, <1>2, RemoveFacts
<1>3. CASE DeleteKey
  BY <1>1, <1>3, DeleteFacts
<1> QED
  BY <1>1, <1>2, <1>3

\* An uninstall removes the state directory and the key the operator was shown
\* and no other, across the elevation, and nothing else ever removes one.
THEOREM UninstallIsConfirmed == Spec => UninstallDeletesConfirmed
<1> DEFINE Confirmed ==
        /\ \A d \in Dirs :
             (\E n \in {"config", "key"} : files[d][n] # None /\ files'[d][n] = None)
                 => proc.op = "uninstall" /\ proc.confirmed.dir = d
        /\ \A a \in Accounts :
             (keychain[a] # None /\ keychain'[a] = None)
                 => proc.op = "uninstall" /\ proc.confirmed.ks = "os" /\ proc.as = a
<1>1. DeploymentInv /\ [Next]_vars => [Confirmed]_vars
  <2> SUFFICES ASSUME DeploymentInv, Next
               PROVE  Confirmed
    OBVIOUS
  <2>1. KeepsFiles /\ KeepsKeychain => Confirmed
    BY DEF KeepsFiles, KeepsKeychain
  <2>2. files' = files /\ keychain' = keychain => Confirmed
    OBVIOUS
  <2>3. CASE remove_state_dir \/ DeleteKey
    <3>1. /\ proc.op = "uninstall"
          /\ \A d \in Dirs \ {proc.confirmed.dir} : files'[d] = files[d]
          /\ \A a \in Accounts : keychain'[a] # keychain[a]
                                    => proc.as = a /\ proc.confirmed.ks = "os"
      BY <2>3, UninstallTakes
    <3> QED
      BY <3>1
  <2>4. CASE InitNext
    BY <2>1, <2>4, InitKeeps
  <2>5. CASE EditNext
    BY <2>1, <2>5, EditKeeps
  <2>6. CASE UninstallResolve \/ UninstallElevate \/ uninstall_service
    BY <2>2, <2>6 DEF UninstallResolve, UninstallElevate, uninstall_service, Quiet, store
  <2>7. CASE Start \/ Fail \/ ServiceStarts \/ ServiceStops
    BY <2>2, <2>7 DEF Start, Run, Fail, Quiet, ServiceStarts, ServiceStops, store
  <2> QED
    BY <2>3, <2>4, <2>5, <2>6, <2>7 DEF Next, UninstallNext
<1> QED
  BY <1>1, InvHolds, PTL DEF Spec, UninstallDeletesConfirmed
=============================================================================
