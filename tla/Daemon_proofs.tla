---------------------------- MODULE Daemon_proofs ----------------------------
(***************************************************************************)
(* Safety of the daemon for every value of the constants: any number of    *)
(* concurrent handlers and connections, with every fault switched on.      *)
(*                                                                         *)
(* The argument.  config_write makes the handlers take turns (LockHeld),   *)
(* so that what a handler reads of the sealed config when it persists is   *)
(* still so when it applies (TodoCurrent), and the table never has an env  *)
(* that the config does not, except while its removal is being applied     *)
(* (LiveKnown).  Tokens only grow: the token handed out last is at most    *)
(* the one on disk and the one being served (TokensOrdered).               *)
(***************************************************************************)
EXTENDS Daemon, Config_proofs

Holding(r) == job[r].pc \in {"reload", "apply"}

\* A handler is past its save exactly while it holds config_write.
LockHeld == \A r \in Handlers : Holding(r) <=> config_write = r

\* A daemon that is not up has no handler, no env, no connection and no loop.
DownIsEmpty ==
    status # "up" =>
        /\ config_write = Absent
        /\ \A r \in Handlers : job[r].pc = "idle"
        /\ \A e \in EnvNames : live[e] = Absent
        /\ \A c \in Conns : conn[c].st = "idle"
        /\ \A e \in EnvNames : stopping[e] = {}

\* The envs a handler still has to touch are in the sealed config, or are no
\* longer in it if the request removes them.
TodoCurrent ==
    \A r \in Handlers : Holding(r) =>
        IF job[r].op = "rm_env" THEN job[r].pc = "apply" /\ job[r].todo \intersect EnvsOf(disk) = {}
                                ELSE job[r].todo \subseteq EnvsOf(disk)

\* A served env is in the sealed config, or its removal is under way.
LiveKnown ==
    \A e \in EnvNames : live[e] # Absent =>
        \/ e \in EnvsOf(disk)
        \/ \E r \in Handlers : Holding(r) /\ job[r].op = "rm_env" /\ e \in job[r].todo

\* Handed out <= saved <= minted, and handed out <= served.
TokensOrdered ==
    \A e \in EnvNames :
        /\ granted[e] <= minted
        /\ e \in EnvsOf(disk) => /\ granted[e] <= disk.envs[e].client_auth.token
                                 /\ disk.envs[e].client_auth.token <= minted
        /\ live[e] # Absent => granted[e] <= live[e].client_auth.token

\* A connection that is not idle belongs to an env and has a runtime.
ConnBound ==
    \A c \in Conns :
        IF conn[c].st = "idle" THEN conn[c] = IdleConn
                               ELSE conn[c].env \in EnvNames /\ conn[c].rt \in Runtime

IndInv ==
    /\ TypeOK
    /\ validate(disk)
    /\ LockHeld
    /\ DownIsEmpty
    /\ TodoCurrent
    /\ LiveKnown
    /\ NoHandleReplaced
    /\ TokensOrdered
    /\ ConnBound
    /\ SessionTokenFresh

-----------------------------------------------------------------------------
(* Submitting a request *)

\* Everything the invariants need to know of a step that persists a change: it
\* is taken with config_write free, and it writes only fresh tokens.
SubmitEffect(r) ==
    /\ status = "up" /\ config_write = Absent
    /\ disk' \in Configs /\ validate(disk')
    /\ minted' \in 0..MaxToken /\ minted <= minted'
    /\ \A e \in EnvsOf(disk') :
          \/ /\ e \in EnvsOf(disk)
             /\ disk'.envs[e].client_auth.token = disk.envs[e].client_auth.token
          \/ disk'.envs[e].client_auth.token = minted' /\ minted < minted'
    /\ \E j \in Job :
          /\ job' = [job EXCEPT ![r] = j]
          /\ \/ /\ j.pc \in {"idle", "evict"}
                /\ config_write' = Absent
                /\ EnvsOf(disk') = EnvsOf(disk)
             \/ /\ j.pc \in {"reload", "apply"}
                /\ config_write' = r
                /\ IF j.op = "rm_env" THEN j.pc = "apply" /\ EnvsOf(disk') = EnvsOf(disk) \ j.todo
                   ELSE EnvsOf(disk) \subseteq EnvsOf(disk') /\ j.todo \subseteq EnvsOf(disk')
                /\ j.op \in {"add_env", "import"} => j.todo \intersect EnvsOf(disk) = {}
    /\ UNCHANGED <<status, live, slots, clientVars, historyVars>>

\* simple_mutation and add_bastion_req, for a transform that leaves the envs
\* alone.
LEMMA SimpleMutationEffect ==
    ASSUME TypeOK, NEW r \in Handlers, NEW op, NEW new \in Configs, new.envs = disk.envs,
           SimpleMutation(r, op, new)
    PROVE  SubmitEffect(r)
<1>1. job[r] \in Job /\ job[r].pc = "idle"
  BY DEF SimpleMutation, Enter, TypeOK
<1>2. job' = [job EXCEPT ![r] = job[r]]
  BY DEF SimpleMutation, daemonVars, TypeOK
<1>3. disk' = new /\ EnvsOf(disk') = EnvsOf(disk)
  BY DEF SimpleMutation, with_config, EnvsOf
<1>4. minted' = minted /\ minted \in 0..MaxToken /\ minted <= minted
  BY DaemonAssumption DEF SimpleMutation, TypeOK
<1>5. validate(disk')
  BY DEF SimpleMutation, with_config
<1> QED
  BY <1>1, <1>2, <1>3, <1>4, <1>5
     DEF SimpleMutation, SubmitEffect, Enter, daemonVars, EnvsOf

\* Persist, for a transform that adds the envs it is about to touch or finds
\* them in place.
LEMMA PersistEffect ==
    ASSUME TypeOK, NEW r \in Handlers, NEW op \in AllOps, NEW new \in Configs,
           NEW b \in BastionNames \union {Absent}, NEW todo,
           minted' \in 0..MaxToken, minted <= minted',
           Persist(r, op, new, b, todo), op # "rm_env",
           EnvsOf(disk) \subseteq EnvsOf(new), todo \subseteq EnvsOf(new),
           op \in {"add_env", "import"} => todo \intersect EnvsOf(disk) = {},
           \A e \in EnvsOf(new) :
               \/ /\ e \in EnvsOf(disk)
                  /\ new.envs[e].client_auth.token = disk.envs[e].client_auth.token
               \/ new.envs[e].client_auth.token = minted' /\ minted < minted'
    PROVE  SubmitEffect(r)
<1> DEFINE j == [pc |-> "reload", op |-> op, bastion |-> b, todo |-> todo]
<1>1. j \in Job /\ job' = [job EXCEPT ![r] = j] /\ config_write' = r
  BY DEF Persist, Proceed, Job, EnvsOf
<1>2. disk' = new /\ validate(disk')
  BY DEF Persist, with_config
<1> QED
  BY <1>1, <1>2 DEF Persist, SubmitEffect, Enter

\* Minting a token yields a fresh one.
LEMMA MintFresh ==
    ASSUME TypeOK, Mint
    PROVE  /\ minted' \in 0..MaxToken /\ minted' \in Nat
           /\ minted < minted' /\ minted <= minted'
  BY DaemonAssumption DEF Mint, TypeOK

\* Every request that persists a change has the effect described above.
LEMMA SubmitHasEffect ==
    ASSUME TypeOK, validate(disk), NEW r \in Handlers, Submit(r)
    PROVE  SubmitEffect(r)
<1> disk \in Configs /\ minted \in 0..MaxToken
  BY DEF TypeOK
<1>1. ASSUME NEW b \in BastionNames, AddBastion(r, b)
      PROVE  SubmitEffect(r)
  <2>1. PICK in \in BastionInputs :
              SimpleMutation(r, "add_bastion", add_bastion(disk, b, in.host, in.pinned))
    BY <1>1 DEF AddBastion
  <2>2. in.host \in Hosts /\ in.pinned \in SUBSET Keys
    BY DaemonAssumption DEF Bastion
  <2>3. add_bastion(disk, b, in.host, in.pinned) \in Configs
    BY <2>2, add_bastion_type
  <2>4. add_bastion(disk, b, in.host, in.pinned).envs = disk.envs
    BY DEF add_bastion, Configs
  <2> QED
    BY <2>1, <2>3, <2>4, SimpleMutationEffect
<1>2. ASSUME NEW c \in CredNames, AddCred(r, c)
      PROVE  SubmitEffect(r)
  <2>1. PICK pw \in Passwords : SimpleMutation(r, "add_cred", add_cred(disk, c, pw))
    BY <1>2 DEF AddCred
  <2>2. add_cred(disk, c, pw) \in Configs /\ add_cred(disk, c, pw).envs = disk.envs
    BY add_cred_type DEF add_cred, Configs
  <2> QED
    BY <2>1, <2>2, SimpleMutationEffect
<1>3. ASSUME NEW c \in CredNames, RmCred(r, c)
      PROVE  SubmitEffect(r)
  <2>1. rm_cred(disk, c) \in Configs /\ rm_cred(disk, c).envs = disk.envs
    BY rm_cred_type DEF rm_cred, Configs
  <2> QED
    BY <1>3, <2>1, SimpleMutationEffect DEF RmCred
<1>4. ASSUME NEW b \in BastionNames, RmBastion(r, b)
      PROVE  SubmitEffect(r)
  <2> DEFINE j == [pc |-> "evict", op |-> "rm_bastion", bastion |-> b, todo |-> {}]
  <2>1. j \in Job /\ job' = [job EXCEPT ![r] = j]
    BY <1>4 DEF RmBastion, Job, AllOps
  <2>2. disk' = rm_bastion(disk, b) /\ validate(disk')
    BY <1>4 DEF RmBastion, with_config
  <2>3. disk' \in Configs /\ disk'.envs = disk.envs
    BY <2>2, rm_bastion_type DEF rm_bastion, Configs
  <2>4. EnvsOf(disk') = EnvsOf(disk)
    BY <2>3 DEF EnvsOf
  <2>5. minted' = minted /\ minted <= minted
    BY <1>4, DaemonAssumption DEF RmBastion
  <2> QED
    BY <1>4, <2>1, <2>2, <2>3, <2>4, <2>5 DEF RmBastion, Enter, SubmitEffect
<1>5. ASSUME NEW b \in BastionNames, SetFingerprint(r, b)
      PROVE  SubmitEffect(r)
  <2>1. PICK k \in Keys :
              /\ set_fingerprint_ok(disk, b)
              /\ Persist(r, "set_fingerprint", set_fingerprint(disk, b, k), b,
                         UsersOfBastion(set_fingerprint(disk, b, k), b))
              /\ UNCHANGED minted
    BY <1>5 DEF SetFingerprint
  <2> DEFINE new == set_fingerprint(disk, b, k)
  <2>2. new \in Configs
    BY <2>1, set_fingerprint_type
  <2>3. new.envs = disk.envs
    BY DEF set_fingerprint, Configs
  <2>4. EnvsOf(new) = EnvsOf(disk)
    BY <2>3 DEF EnvsOf
  <2>5. UsersOfBastion(new, b) \subseteq EnvsOf(new) /\ EnvsOf(new) \subseteq EnvNames
    BY DEF UsersOfBastion, EnvsOf
  <2>6. minted' \in 0..MaxToken /\ minted <= minted'
    BY <2>1, DaemonAssumption
  <2>7. "set_fingerprint" \in AllOps
    BY DEF AllOps
  <2> HIDE DEF new
  <2> QED
    BY <2>1, <2>2, <2>3, <2>4, <2>5, <2>6, <2>7, PersistEffect DEF new
<1>6. ASSUME NEW c \in CredNames, RotateCred(r, c)
      PROVE  SubmitEffect(r)
  <2>1. PICK pw \in Passwords :
              /\ Persist(r, "rotate_cred", rotate_cred(disk, c, pw), Absent,
                         UsersOfCred(rotate_cred(disk, c, pw), c))
              /\ UNCHANGED minted
    BY <1>6 DEF RotateCred
  <2> DEFINE new == rotate_cred(disk, c, pw)
  <2>2. new \in Configs
    BY rotate_cred_type
  <2>3. new.envs = disk.envs
    BY DEF rotate_cred, Configs
  <2>4. EnvsOf(new) = EnvsOf(disk)
    BY <2>3 DEF EnvsOf
  <2>5. UsersOfCred(new, c) \subseteq EnvsOf(new) /\ EnvsOf(new) \subseteq EnvNames
    BY DEF UsersOfCred, EnvsOf
  <2>6. minted' \in 0..MaxToken /\ minted <= minted'
    BY <2>1, DaemonAssumption
  <2>7. "rotate_cred" \in AllOps
    BY DEF AllOps
  <2> HIDE DEF new
  <2> QED
    BY <2>1, <2>2, <2>3, <2>4, <2>5, <2>6, <2>7, PersistEffect DEF new
<1>7. ASSUME NEW e \in EnvNames, AddEnv(r, e)
      PROVE  SubmitEffect(r)
  <2>1. PICK in \in EnvInputs, p \in ListenPorts :
              /\ add_env_ok(disk, e, in.bastion, in.credential, in.engine)
              /\ Mint
              /\ Persist(r, "add_env",
                         add_env(disk, e, in.bastion, in.credential, in.policy,
                                 in.engine, p, minted'), Absent, {e})
    BY <1>7 DEF AddEnv
  <2> DEFINE new == add_env(disk, e, in.bastion, in.credential, in.policy,
                            in.engine, p, minted')
  <2>2. /\ in.bastion \in BastionNames \union {Absent} /\ in.credential \in CredNames
        /\ in.policy \in Policies /\ in.engine \in Engines
    BY DaemonAssumption DEF EnvInput
  <2>3. minted' \in 0..MaxToken /\ minted' \in Nat /\ minted < minted' /\ minted <= minted'
    BY <2>1, MintFresh
  <2>4. new \in Configs
    BY <2>2, <2>3, add_env_type
  <2>5. /\ EnvsOf(new) = EnvsOf(disk) \union {e}
        /\ new.envs[e].client_auth.token = minted'
        /\ \A f \in EnvNames \ {e} : new.envs[f] = disk.envs[f]
    BY <2>2, <2>3, add_env_envs
  <2>6. e \notin EnvsOf(disk) /\ EnvsOf(disk) \subseteq EnvNames
    BY <2>1 DEF add_env_ok, EnvsOf
  <2>7. "add_env" \in AllOps
    BY DEF AllOps
  <2> HIDE DEF new
  <2>8. \A f \in EnvsOf(new) :
            \/ /\ f \in EnvsOf(disk)
               /\ new.envs[f].client_auth.token = disk.envs[f].client_auth.token
            \/ new.envs[f].client_auth.token = minted' /\ minted < minted'
    BY <2>3, <2>5, <2>6
  <2>9. Persist(r, "add_env", new, Absent, {e})
    BY <2>1 DEF new
  <2>10. EnvsOf(disk) \subseteq EnvsOf(new) /\ {e} \subseteq EnvsOf(new)
    BY <2>5
  <2> QED
    BY <2>3, <2>4, <2>6, <2>7, <2>8, <2>9, <2>10, PersistEffect
<1>8. ASSUME NEW e \in EnvNames, Grant(r, e)
      PROVE  SubmitEffect(r)
  <2> DEFINE new == grant_env(disk, e, minted')
  <2>1. grant_env_ok(disk, e) /\ Persist(r, "grant", new, Absent, {e})
    BY <1>8 DEF Grant
  <2>2. minted' \in 0..MaxToken /\ minted' \in Nat /\ minted < minted' /\ minted <= minted'
    BY <1>8, MintFresh DEF Grant
  <2>3. new \in Configs
    BY <2>1, <2>2, grant_env_type
  <2>4. /\ EnvsOf(new) = EnvsOf(disk)
        /\ new.envs[e].client_auth.token = minted'
        /\ \A f \in EnvNames \ {e} : new.envs[f] = disk.envs[f]
    BY <2>1, <2>2, grant_env_envs
  <2>5. e \in EnvsOf(disk) /\ EnvsOf(disk) \subseteq EnvNames
    BY <2>1 DEF grant_env_ok, EnvsOf
  <2>6. "grant" \in AllOps
    BY DEF AllOps
  <2> HIDE DEF new
  <2>7. \A f \in EnvsOf(new) :
            \/ /\ f \in EnvsOf(disk)
               /\ new.envs[f].client_auth.token = disk.envs[f].client_auth.token
            \/ new.envs[f].client_auth.token = minted' /\ minted < minted'
    BY <2>2, <2>4, <2>5
  <2>8. EnvsOf(disk) \subseteq EnvsOf(new) /\ {e} \subseteq EnvsOf(new)
    BY <2>4, <2>5
  <2> QED
    BY <2>1, <2>2, <2>3, <2>6, <2>7, <2>8, PersistEffect
<1>9. ASSUME NEW e \in EnvNames, SetPolicy(r, e)
      PROVE  SubmitEffect(r)
  <2>1. PICK policy \in Policies :
              /\ set_policy_ok(disk, e)
              /\ Persist(r, "set_policy", set_policy(disk, e, policy), Absent, {e})
              /\ UNCHANGED minted
    BY <1>9 DEF SetPolicy
  <2> DEFINE new == set_policy(disk, e, policy)
  <2>2. new \in Configs
    BY <2>1, set_policy_type
  <2>3. /\ EnvsOf(new) = EnvsOf(disk)
        /\ \A f \in EnvsOf(disk) : new.envs[f].client_auth = disk.envs[f].client_auth
    BY <2>1, set_policy_envs
  <2>4. e \in EnvsOf(disk)
    BY <2>1 DEF set_policy_ok, EnvsOf
  <2>5. minted' \in 0..MaxToken /\ minted <= minted'
    BY <2>1, DaemonAssumption
  <2>6. "set_policy" \in AllOps
    BY DEF AllOps
  <2>7. Persist(r, "set_policy", new, Absent, {e})
    BY <2>1
  <2> HIDE DEF new
  <2>8. \A f \in EnvsOf(new) :
            \/ /\ f \in EnvsOf(disk)
               /\ new.envs[f].client_auth.token = disk.envs[f].client_auth.token
            \/ new.envs[f].client_auth.token = minted' /\ minted < minted'
    BY <2>3
  <2>9. EnvsOf(disk) \subseteq EnvsOf(new) /\ {e} \subseteq EnvsOf(new)
    BY <2>3, <2>4
  <2> QED
    BY <2>2, <2>5, <2>6, <2>7, <2>8, <2>9, PersistEffect
<1>10. ASSUME Import(r)
       PROVE  SubmitEffect(r)
  <2>1. PICK f \in Fragments :
              LET stamped == [f EXCEPT !.envs = [e \in EnvNames |->
                                IF f.envs[e] = Absent THEN Absent
                                ELSE [f.envs[e] EXCEPT !.client_auth.token = minted']]]
              IN /\ Mint
                 /\ merge_import_ok(disk, stamped)
                 /\ Persist(r, "import", merge_import(disk, stamped), Absent, EnvsOf(f))
    BY <1>10 DEF Import
  <2> DEFINE envs == [e \in EnvNames |->
                        IF f.envs[e] = Absent THEN Absent
                        ELSE [f.envs[e] EXCEPT !.client_auth.token = minted']]
             stamped == [f EXCEPT !.envs = envs]
             new == merge_import(disk, stamped)
  <2>2. Mint /\ merge_import_ok(disk, stamped) /\ Persist(r, "import", new, Absent, EnvsOf(f))
    BY <2>1
  <2>3. minted' \in 0..MaxToken /\ minted' \in Nat /\ minted < minted' /\ minted <= minted'
    BY <2>2, MintFresh
  <2>4. f \in Configs
    BY DaemonAssumption
  <2>5. \A e \in EnvNames : f.envs[e] # Absent =>
            /\ envs[e] \in Env
            /\ envs[e].client_auth.token = minted'
    BY <2>3, <2>4 DEF Configs, Env, ClientAuth
  <2>6. \A e \in EnvNames : envs[e] = Absent <=> f.envs[e] = Absent
    BY <2>5, AbsentAssumption
  <2>7. envs \in [EnvNames -> Env \union {Absent}]
    BY <2>5
  <2> HIDE DEF envs
  <2>8. stamped \in Configs /\ stamped.envs = envs
    BY <2>4, <2>7 DEF Configs
  <2> HIDE DEF stamped
  <2>9. EnvsOf(stamped) = EnvsOf(f) /\ EnvsOf(f) \subseteq EnvNames
    BY <2>6, <2>8 DEF EnvsOf
  <2>10. new \in Configs
    BY <2>8, merge_import_type
  <2>11. /\ EnvsOf(new) = EnvsOf(disk) \union EnvsOf(f)
         /\ EnvsOf(disk) \intersect EnvsOf(f) = {}
         /\ \A e \in EnvsOf(f) : new.envs[e] = envs[e]
         /\ \A e \in EnvsOf(disk) : new.envs[e] = disk.envs[e]
    BY <2>2, <2>8, <2>9, merge_import_envs
  <2>12. \A e \in EnvsOf(f) : new.envs[e].client_auth.token = minted'
    BY <2>5, <2>11 DEF EnvsOf
  <2>13. "import" \in AllOps
    BY DEF AllOps
  <2> HIDE DEF new
  <2> QED
    BY <2>2, <2>3, <2>9, <2>10, <2>11, <2>12, <2>13, PersistEffect
<1>11. ASSUME NEW e \in EnvNames, RmEnv(r, e)
       PROVE  SubmitEffect(r)
  <2> DEFINE j == [pc |-> "apply", op |-> "rm_env", bastion |-> Absent, todo |-> {e}]
  <2>1. j \in Job /\ job' = [job EXCEPT ![r] = j] /\ config_write' = r
    BY <1>11 DEF RmEnv, Proceed, Job, AllOps
  <2>2. disk' = rm_env(disk, e) /\ validate(disk')
    BY <1>11 DEF RmEnv, with_config
  <2>3. /\ disk' \in Configs
        /\ EnvsOf(disk') = EnvsOf(disk) \ {e}
        /\ \A f \in EnvNames \ {e} : disk'.envs[f] = disk.envs[f]
    BY <2>2, rm_env_type, rm_env_envs
  <2>4. minted' = minted /\ minted <= minted
    BY <1>11, DaemonAssumption DEF RmEnv
  <2>5. EnvsOf(disk) \subseteq EnvNames
    BY DEF EnvsOf
  <2> QED
    BY <1>11, <2>1, <2>2, <2>3, <2>4, <2>5 DEF RmEnv, Enter, SubmitEffect
<1> QED
  BY <1>1, <1>2, <1>3, <1>4, <1>5, <1>6, <1>7, <1>8, <1>9, <1>10, <1>11 DEF Submit

-----------------------------------------------------------------------------
(* Applying a request *)

SlotsType == [BastionNames -> Session \union {Absent}]

StoppingType == [EnvNames -> SUBSET Runtime]

Orphaned(e) == [c \in Conns |-> IF conn[c].env = e THEN [conn[c] EXCEPT !.owned = FALSE]
                                                   ELSE conn[c]]

\* Everything the invariants need to know of a step that applies a change to one
\* env e: x is what is served afterwards, g the newest token handed out.
ApplyEffect(r) ==
    \E e \in job[r].todo, x \in Runtime \union {Absent}, g \in Nat :
        /\ job[r].pc = "apply"
        /\ live' = [live EXCEPT ![e] = x]
        /\ granted' = [granted EXCEPT ![e] = g]
        /\ \/ g = granted[e]
           \/ job[r].op # "rm_env" /\ g = disk.envs[e].client_auth.token
        /\ x # Absent =>
              \/ job[r].op # "rm_env" /\ x.client_auth = disk.envs[e].client_auth
              \/ live[e] # Absent /\ x.client_auth = live[e].client_auth /\ g = granted[e]
        /\ job[r].op = "rm_env" => x = Absent
        /\ conn' = conn \/ conn' = Orphaned(e)
        /\ stopping' \in StoppingType
        /\ \/ Reply(r) /\ (job[r].op = "rm_env" => job[r].todo = {e})
           \/ /\ job' = [job EXCEPT ![r].pc = "apply", ![r].todo = job[r].todo \ {e}]
              /\ UNCHANGED config_write
        /\ slots' \in SlotsType
        /\ reported' \subseteq EnvNames /\ advice' \in BOOLEAN
        /\ UNCHANGED <<disk, minted, status>>

\* The aborted loops are a typed part of the state.
LEMMA StoppingTyped == ASSUME TypeOK PROVE stopping \in StoppingType
  BY DEF TypeOK, StoppingType

\* Aborting a loop leaves what its handle held to the loop.
LEMMA OrphanType ==
    ASSUME TypeOK, NEW e \in EnvNames, Orphan(e)
    PROVE  stopping' \in StoppingType /\ conn' = Orphaned(e)
<1>1. {live[e]} \ {Absent} \subseteq Runtime /\ stopping[e] \subseteq Runtime
  BY DEF TypeOK
<1>2. stopping' = [stopping EXCEPT ![e] = stopping[e] \union ({live[e]} \ {Absent})]
  BY DEF Orphan
<1>3. stopping' \in StoppingType
  BY <1>1, <1>2 DEF TypeOK, StoppingType
<1> QED
  BY <1>3 DEF Orphan, Orphaned

\* The tunnel that establish_backend ends up with is a session or none.
LEMMA TunnelsForType ==
    ASSUME TypeOK, NEW env \in Env, NEW tunnel \in TunnelsFor(env)
    PROVE  SlotsWith(env, tunnel) \in SlotsType /\ tunnel \in Session \union {Absent}
<1>1. slots \in SlotsType /\ env.bastion \in BastionNames \union {Absent}
  BY DEF TypeOK, Env, SlotsType
<1>2. CASE env.bastion = Absent
  BY <1>1, <1>2 DEF SlotsWith, TunnelsFor
<1>3. CASE env.bastion # Absent
  <2>1. tunnel \in Session \union {Absent}
    BY <1>1, <1>3 DEF TunnelsFor, get_or_open, Open, SlotsType
  <2> QED
    BY <1>1, <1>3, <2>1 DEF SlotsWith, SlotsType
<1> QED
  BY <1>2, <1>3

\* A build that errs leaves the sessions well-typed.
LEMMA BuildFailsType ==
    ASSUME TypeOK, NEW env \in Env, BuildFails(env)
    PROVE  slots' \in SlotsType
  BY TunnelsForType DEF BuildFails, TypeOK, SlotsType

\* A build that returns does so too, and its runtime has the credential and the
\* token of the sealed config.
LEMMA BuildSucceedsType ==
    ASSUME TypeOK, validate(disk), NEW e \in EnvsOf(disk), NEW tunnel,
           BuildSucceeds(disk.envs[e], tunnel)
    PROVE  /\ slots' \in SlotsType
           /\ build_env_runtime(disk.envs[e], tunnel) \in Runtime
           /\ build_env_runtime(disk.envs[e], tunnel).client_auth = disk.envs[e].client_auth
<1>1. disk.envs[e] \in Env
  BY DEF TypeOK, Configs, EnvsOf
<1>2. slots' \in SlotsType /\ tunnel \in Session \union {Absent}
  BY <1>1, TunnelsForType DEF BuildSucceeds
<1>3. disk.credentials[disk.envs[e].credential] \in Credential
  BY <1>1 DEF validate, RefsResolve, TypeOK, Configs, Env
<1> QED
  BY <1>1, <1>2, <1>3 DEF build_env_runtime, Runtime, Env, Credential

\* What publishing a freshly built runtime does.
LEMMA PublishType ==
    ASSUME TypeOK, validate(disk), NEW e \in EnvsOf(disk), NEW tunnel, Publish(e, tunnel)
    PROVE  /\ slots' \in SlotsType
           /\ reported' \subseteq EnvNames /\ advice' \in BOOLEAN
           /\ \E x \in Runtime : /\ live' = [live EXCEPT ![e] = x]
                                 /\ x.client_auth = disk.envs[e].client_auth
<1>1. slots' \in SlotsType
  BY BuildSucceedsType DEF Publish
<1>2. /\ build_env_runtime(disk.envs[e], tunnel) \in Runtime
      /\ build_env_runtime(disk.envs[e], tunnel).client_auth = disk.envs[e].client_auth
  BY BuildSucceedsType DEF Publish
<1>3. reported' \subseteq EnvNames /\ advice' \in BOOLEAN
  BY DEF Publish, TypeOK
<1> QED
  BY <1>1, <1>2, <1>3 DEF Publish

\* A failure report names an env and advises a restart.
LEMMA ReportFailureType ==
    ASSUME TypeOK, NEW e \in EnvNames, ReportFailure(e)
    PROVE  reported' \subseteq EnvNames /\ advice' \in BOOLEAN
  BY DEF TypeOK, ReportFailure

\* The loop either ends with its last env or goes on without the one it did.
LEMMA ContinueEffect ==
    ASSUME NEW r \in Handlers, NEW e \in job[r].todo, Continue(r, Rest(r, e))
    PROVE  \/ Reply(r) /\ job[r].todo = {e}
           \/ /\ job' = [job EXCEPT ![r].pc = "apply", ![r].todo = job[r].todo \ {e}]
              /\ UNCHANGED config_write
  BY DEF Continue, Rest

\* What a handler that holds the lock may rely on for the env it is at.
LEMMA WorkingFacts ==
    ASSUME TypeOK, TodoCurrent, NEW r \in Handlers, NEW e \in EnvNames, NEW op, Working(r, op, e)
    PROVE  /\ job[r].pc = "apply" /\ job[r].op = op /\ e \in job[r].todo
           /\ live[e] \in Runtime \union {Absent} /\ granted[e] \in Nat
           /\ live = [live EXCEPT ![e] = live[e]]
           /\ granted = [granted EXCEPT ![e] = granted[e]]
           /\ op # "rm_env" => /\ e \in EnvsOf(disk)
                               /\ disk.envs[e] \in Env
                               /\ disk.envs[e].client_auth \in ClientAuth
                               /\ disk.envs[e].client_auth.token \in Nat
<1>1. job[r].pc = "apply" /\ job[r].op = op /\ e \in job[r].todo
  BY DEF Working
<1>2. /\ live[e] \in Runtime \union {Absent} /\ granted[e] \in Nat
      /\ live = [live EXCEPT ![e] = live[e]]
      /\ granted = [granted EXCEPT ![e] = granted[e]]
  BY DEF TypeOK
<1>3. ASSUME op # "rm_env"
      PROVE  e \in EnvsOf(disk)
  BY <1>1, <1>3 DEF TodoCurrent, Holding
<1>4. e \in EnvsOf(disk) => /\ disk.envs[e] \in Env
                            /\ disk.envs[e].client_auth \in ClientAuth
                            /\ disk.envs[e].client_auth.token \in Nat
  BY DEF EnvsOf, TypeOK, Configs, Env, ClientAuth
<1> QED
  BY <1>1, <1>2, <1>3, <1>4

\* rm_env: the env leaves the table and its connections lose their owner.
LEMMA RmEnvApplyEffect ==
    ASSUME TypeOK, TodoCurrent, NEW r \in Handlers, NEW e \in EnvNames, RmEnvApply(r, e)
    PROVE  ApplyEffect(r)
<1>1. /\ job[r].pc = "apply" /\ job[r].op = "rm_env" /\ e \in job[r].todo
      /\ granted[e] \in Nat /\ granted = [granted EXCEPT ![e] = granted[e]]
  BY WorkingFacts DEF RmEnvApply
<1>2. /\ live' = [live EXCEPT ![e] = Absent] /\ conn' = Orphaned(e)
      /\ stopping' \in StoppingType
  BY OrphanType DEF RmEnvApply, apply_rm_env
<1>3. slots' \in SlotsType /\ reported' \subseteq EnvNames /\ advice' \in BOOLEAN
  BY DEF RmEnvApply, TypeOK, SlotsType
<1>4. UNCHANGED <<disk, minted, status, granted>>
  BY DEF RmEnvApply
<1>5. \/ Reply(r) /\ job[r].todo = {e}
      \/ /\ job' = [job EXCEPT ![r].pc = "apply", ![r].todo = job[r].todo \ {e}]
         /\ UNCHANGED config_write
  BY <1>1, ContinueEffect DEF RmEnvApply
<1> QED
  BY <1>1, <1>2, <1>3, <1>4, <1>5 DEF ApplyEffect

\* A rebuild that works publishes the sealed config's token.
LEMMA PublishEffect ==
    ASSUME TypeOK, validate(disk), TodoCurrent, NEW r \in Handlers, NEW e \in EnvNames,
           NEW op, op # "rm_env", Working(r, op, e), NEW tunnel, Publish(e, tunnel),
           Reply(r) \/ Continue(r, Rest(r, e)),
           \/ granted' = granted
           \/ granted' = [granted EXCEPT ![e] = disk.envs[e].client_auth.token],
           UNCHANGED <<disk, minted, status, conn, stopping>>
    PROVE  ApplyEffect(r)
<1>1. /\ job[r].pc = "apply" /\ job[r].op = op /\ e \in job[r].todo /\ e \in EnvsOf(disk)
      /\ granted[e] \in Nat /\ granted = [granted EXCEPT ![e] = granted[e]]
      /\ disk.envs[e].client_auth.token \in Nat
  BY WorkingFacts
<1>2. PICK x \in Runtime : /\ live' = [live EXCEPT ![e] = x]
                           /\ x.client_auth = disk.envs[e].client_auth
  BY <1>1, PublishType
<1>3. slots' \in SlotsType /\ reported' \subseteq EnvNames /\ advice' \in BOOLEAN
  BY <1>1, PublishType
<1>4. x # Absent
  BY NoneAssumption
<1>5. PICK g \in Nat : /\ granted' = [granted EXCEPT ![e] = g]
                       /\ g = granted[e] \/ g = disk.envs[e].client_auth.token
  BY <1>1
<1>6. \/ Reply(r)
      \/ /\ job' = [job EXCEPT ![r].pc = "apply", ![r].todo = job[r].todo \ {e}]
         /\ UNCHANGED config_write
  BY <1>1, ContinueEffect
<1> QED
  BY <1>1, <1>2, <1>3, <1>4, <1>5, <1>6, StoppingTyped DEF ApplyEffect

\* A step that serves env e as before.
LEMMA KeepEffect ==
    ASSUME TypeOK, TodoCurrent, NEW r \in Handlers, NEW e \in EnvNames,
           NEW op, op # "rm_env", Working(r, op, e),
           Reply(r) \/ Continue(r, Rest(r, e)),
           \/ granted' = granted
           \/ /\ live[e] = Absent
              /\ granted' = [granted EXCEPT ![e] = disk.envs[e].client_auth.token],
           slots' \in SlotsType, reported' \subseteq EnvNames, advice' \in BOOLEAN,
           UNCHANGED <<disk, minted, status, conn, stopping, live>>
    PROVE  ApplyEffect(r)
<1>1. /\ job[r].pc = "apply" /\ job[r].op = op /\ e \in job[r].todo
      /\ live[e] \in Runtime \union {Absent} /\ granted[e] \in Nat
      /\ live = [live EXCEPT ![e] = live[e]]
      /\ granted = [granted EXCEPT ![e] = granted[e]]
      /\ disk.envs[e].client_auth.token \in Nat
  BY WorkingFacts
<1>2. PICK g \in Nat :
         /\ granted' = [granted EXCEPT ![e] = g]
         /\ g = granted[e] \/ (live[e] = Absent /\ g = disk.envs[e].client_auth.token)
  BY <1>1
<1>3. \/ Reply(r)
      \/ /\ job' = [job EXCEPT ![r].pc = "apply", ![r].todo = job[r].todo \ {e}]
         /\ UNCHANGED config_write
  BY <1>1, ContinueEffect
<1> QED
  BY <1>1, <1>2, <1>3, StoppingTyped DEF ApplyEffect

\* set_fingerprint: rebuilt, taken offline, or not served in the first place.
LEMMA SetFingerprintApplyEffect ==
    ASSUME TypeOK, validate(disk), TodoCurrent, NEW r \in Handlers, NEW e \in EnvNames,
           SetFingerprintApply(r, e)
    PROVE  ApplyEffect(r)
<1>1. /\ Working(r, "set_fingerprint", e)
      /\ Continue(r, Rest(r, e))
      /\ UNCHANGED <<disk, minted, status, granted>>
  BY DEF SetFingerprintApply
<1>2. CASE live[e] = Absent /\ UNCHANGED <<live, slots, conn, stopping, reported, advice>>
  <2>1. slots' \in SlotsType /\ reported' \subseteq EnvNames /\ advice' \in BOOLEAN
    BY <1>2 DEF TypeOK, SlotsType
  <2> QED
    BY <1>1, <1>2, <2>1, KeepEffect
<1>3. CASE /\ \E tunnel \in Session \union {Absent} : Publish(e, tunnel)
           /\ UNCHANGED <<conn, stopping>>
  BY <1>1, <1>3, PublishEffect
<1>4. CASE BuildFails(disk.envs[e]) /\ apply_rm_env(e) /\ ReportFailure(e)
  <2>1. /\ job[r].pc = "apply" /\ job[r].op = "set_fingerprint" /\ e \in job[r].todo
        /\ granted[e] \in Nat /\ granted = [granted EXCEPT ![e] = granted[e]]
        /\ disk.envs[e] \in Env
    BY <1>1, WorkingFacts
  <2>2. /\ live' = [live EXCEPT ![e] = Absent] /\ conn' = Orphaned(e)
        /\ stopping' \in StoppingType
    BY <1>4, OrphanType DEF apply_rm_env
  <2>3. slots' \in SlotsType /\ reported' \subseteq EnvNames /\ advice' \in BOOLEAN
    BY <1>4, <2>1, BuildFailsType, ReportFailureType
  <2>4. \/ Reply(r)
        \/ /\ job' = [job EXCEPT ![r].pc = "apply", ![r].todo = job[r].todo \ {e}]
           /\ UNCHANGED config_write
    BY <1>1, <2>1, ContinueEffect
  <2> QED
    BY <1>1, <2>1, <2>2, <2>3, <2>4 DEF ApplyEffect
<1> QED
  BY <1>2, <1>3, <1>4 DEF SetFingerprintApply, clientVars

\* rotate_cred: rebuilt, or reported as the loop's last env.
LEMMA RotateCredApplyEffect ==
    ASSUME TypeOK, validate(disk), TodoCurrent, NEW r \in Handlers, NEW e \in EnvNames,
           RotateCredApply(r, e)
    PROVE  ApplyEffect(r)
<1>1. Working(r, "rotate_cred", e) /\ UNCHANGED <<disk, minted, status, conn, stopping, granted>>
  BY DEF RotateCredApply, clientVars
<1>2. e \in EnvsOf(disk) /\ disk.envs[e] \in Env
  BY <1>1, WorkingFacts
<1>3. CASE /\ \E tunnel \in Session \union {Absent} : Publish(e, tunnel)
           /\ Continue(r, Rest(r, e))
  BY <1>1, <1>3, PublishEffect
<1>4. CASE /\ \/ BuildFails(disk.envs[e])
              \/ \E tunnel \in Session \union {Absent} : BuildSucceeds(disk.envs[e], tunnel)
           /\ ReportFailure(e)
           /\ Reply(r)
           /\ UNCHANGED live
  <2>1. slots' \in SlotsType
    BY <1>2, <1>4, BuildFailsType, BuildSucceedsType
  <2> QED
    BY <1>1, <1>4, <2>1, ReportFailureType, KeepEffect
<1> QED
  BY <1>3, <1>4 DEF RotateCredApply

\* A failed apply_add_env leaves the table as it was.
LEMMA AddFailsType ==
    ASSUME TypeOK, validate(disk), NEW e \in EnvsOf(disk), AddFails(e)
    PROVE  /\ slots' \in SlotsType /\ reported' \subseteq EnvNames /\ advice' \in BOOLEAN
           /\ UNCHANGED live
<1>1. e \in EnvNames /\ disk.envs[e] \in Env
  BY DEF EnvsOf, TypeOK, Configs
<1> QED
  BY <1>1, BuildFailsType, BuildSucceedsType, ReportFailureType DEF AddFails

\* add_env: the token is handed out, with the env up or with nothing served.
LEMMA AddEnvApplyEffect ==
    ASSUME TypeOK, validate(disk), TodoCurrent, NoHandleReplaced,
           NEW r \in Handlers, NEW e \in EnvNames, AddEnvApply(r, e)
    PROVE  ApplyEffect(r)
<1>1. /\ Working(r, "add_env", e) /\ Reply(r)
      /\ granted' = [granted EXCEPT ![e] = disk.envs[e].client_auth.token]
      /\ UNCHANGED <<disk, minted, status, conn, stopping>>
  BY DEF AddEnvApply, clientVars
<1>2. e \in EnvsOf(disk) /\ live[e] = Absent
  BY <1>1, WorkingFacts DEF NoHandleReplaced
<1>3. CASE \E tunnel \in Session \union {Absent} : Publish(e, tunnel)
  BY <1>1, <1>3, PublishEffect
<1>4. CASE AddFails(e)
  BY <1>1, <1>2, <1>4, AddFailsType, KeepEffect
<1> QED
  BY <1>3, <1>4 DEF AddEnvApply

\* import: built and published, or reported as the loop's last env.
LEMMA ImportApplyEffect ==
    ASSUME TypeOK, validate(disk), TodoCurrent, NEW r \in Handlers, NEW e \in EnvNames,
           ImportApply(r, e)
    PROVE  ApplyEffect(r)
<1>1. Working(r, "import", e) /\ UNCHANGED <<disk, minted, status, conn, stopping, granted>>
  BY DEF ImportApply, clientVars
<1>2. e \in EnvsOf(disk)
  BY <1>1, WorkingFacts
<1>3. CASE /\ \E tunnel \in Session \union {Absent} : Publish(e, tunnel)
           /\ Continue(r, Rest(r, e))
  BY <1>1, <1>3, PublishEffect
<1>4. CASE AddFails(e) /\ Reply(r)
  BY <1>1, <1>2, <1>4, AddFailsType, KeepEffect
<1> QED
  BY <1>3, <1>4 DEF ImportApply

\* grant: the new token is served, or nothing is.
LEMMA GrantApplyEffect ==
    ASSUME TypeOK, TodoCurrent, NEW r \in Handlers, NEW e \in EnvNames, GrantApply(r, e)
    PROVE  ApplyEffect(r)
<1> DEFINE x == [live[e] EXCEPT !.client_auth = disk.envs[e].client_auth]
           g == disk.envs[e].client_auth.token
<1>1. /\ Working(r, "grant", e) /\ Reply(r) /\ SwapRuntime(e, x)
      /\ granted' = [granted EXCEPT ![e] = g]
      /\ UNCHANGED <<disk, minted, status, slots, conn, stopping>>
  BY DEF GrantApply, clientVars
<1>2. slots' \in SlotsType
  BY <1>1 DEF TypeOK, SlotsType
<1>3. /\ job[r].pc = "apply" /\ job[r].op = "grant" /\ e \in job[r].todo
      /\ live[e] \in Runtime \union {Absent} /\ g \in Nat
      /\ disk.envs[e].client_auth \in ClientAuth
  BY <1>1, WorkingFacts
<1>4. CASE live[e] # Absent /\ live' = [live EXCEPT ![e] = x] /\ UNCHANGED <<reported, advice>>
  <2>1. x \in Runtime /\ x.client_auth = disk.envs[e].client_auth
    BY <1>3, <1>4 DEF Runtime
  <2>2. x # Absent
    BY <2>1, NoneAssumption
  <2>3. reported' \subseteq EnvNames /\ advice' \in BOOLEAN
    BY <1>4 DEF TypeOK
  <2> HIDE DEF x
  <2> QED
    BY <1>1, <1>2, <1>3, <1>4, <2>1, <2>2, <2>3, StoppingTyped DEF ApplyEffect
<1>5. CASE live[e] = Absent /\ ReportFailure(e) /\ UNCHANGED live
  BY <1>1, <1>2, <1>5, ReportFailureType, KeepEffect
<1> QED
  BY <1>1, <1>4, <1>5 DEF SwapRuntime

\* set_policy: the served token stays.
LEMMA SetPolicyApplyEffect ==
    ASSUME TypeOK, TodoCurrent, NEW r \in Handlers, NEW e \in EnvNames, SetPolicyApply(r, e)
    PROVE  ApplyEffect(r)
<1> DEFINE x == [live[e] EXCEPT !.policy = disk.envs[e].policy]
<1>1. /\ Working(r, "set_policy", e) /\ Reply(r) /\ SwapRuntime(e, x)
      /\ UNCHANGED <<disk, minted, status, slots, conn, stopping, granted>>
  BY DEF SetPolicyApply, clientVars
<1>2. slots' \in SlotsType
  BY <1>1 DEF TypeOK, SlotsType
<1>3. /\ job[r].pc = "apply" /\ job[r].op = "set_policy" /\ e \in job[r].todo
      /\ live[e] \in Runtime \union {Absent} /\ disk.envs[e] \in Env
      /\ granted[e] \in Nat /\ granted = [granted EXCEPT ![e] = granted[e]]
  BY <1>1, WorkingFacts
<1>4. CASE live[e] # Absent /\ live' = [live EXCEPT ![e] = x] /\ UNCHANGED <<reported, advice>>
  <2>1. x \in Runtime /\ x.client_auth = live[e].client_auth
    BY <1>3, <1>4 DEF Runtime, Env
  <2>2. reported' \subseteq EnvNames /\ advice' \in BOOLEAN
    BY <1>4 DEF TypeOK
  <2>3. x # Absent
    BY <2>1, NoneAssumption
  <2> HIDE DEF x
  <2> QED
    BY <1>1, <1>2, <1>3, <1>4, <2>1, <2>2, <2>3, StoppingTyped DEF ApplyEffect
<1>5. CASE live[e] = Absent /\ ReportFailure(e) /\ UNCHANGED live
  BY <1>1, <1>2, <1>5, ReportFailureType, KeepEffect
<1> QED
  BY <1>1, <1>4, <1>5 DEF SwapRuntime

-----------------------------------------------------------------------------
(* The invariant is inductive *)

\* Persisting a change keeps the invariant: the lock was free, so nobody else
\* relies on the configuration that is replaced, and new tokens are fresh.
LEMMA SubmitKeeps ==
    ASSUME IndInv, NEW r \in Handlers, SubmitEffect(r)
    PROVE  IndInv'
<1>1. /\ TypeOK /\ LockHeld /\ DownIsEmpty /\ TodoCurrent /\ LiveKnown /\ NoHandleReplaced
      /\ TokensOrdered /\ ConnBound /\ SessionTokenFresh
  BY DEF IndInv
<1>2. PICK j \in Job :
          /\ job' = [job EXCEPT ![r] = j]
          /\ \/ /\ j.pc \in {"idle", "evict"}
                /\ config_write' = Absent
                /\ EnvsOf(disk') = EnvsOf(disk)
             \/ /\ j.pc \in {"reload", "apply"}
                /\ config_write' = r
                /\ IF j.op = "rm_env" THEN j.pc = "apply" /\ EnvsOf(disk') = EnvsOf(disk) \ j.todo
                   ELSE EnvsOf(disk) \subseteq EnvsOf(disk') /\ j.todo \subseteq EnvsOf(disk')
                /\ j.op \in {"add_env", "import"} => j.todo \intersect EnvsOf(disk) = {}
  BY DEF SubmitEffect
<1>3. UNCHANGED <<status, live, slots, conn, stopping, granted, reported, advice>>
  BY DEF SubmitEffect, clientVars, historyVars
<1>4. status = "up" /\ config_write = Absent
  BY DEF SubmitEffect
<1>5. \A q \in Handlers : ~Holding(q)
  BY <1>1, <1>4, NoneAssumption DEF LockHeld
<1>6. /\ job'[r] = j /\ \A q \in Handlers \ {r} : job'[q] = job[q]
  BY <1>1, <1>2 DEF TypeOK
<1>7. TypeOK'
  <2>1. disk' \in Configs /\ minted' \in 0..MaxToken
    BY DEF SubmitEffect
  <2>2. job' \in [Handlers -> Job] /\ config_write' \in Handlers \union {Absent}
    BY <1>1, <1>2 DEF TypeOK
  <2> QED
    BY <1>1, <1>3, <2>1, <2>2 DEF TypeOK
<1>8. validate(disk)'
  BY DEF SubmitEffect, validate
<1>9. LockHeld'
  BY <1>2, <1>5, <1>6, NoneAssumption DEF LockHeld, Holding
<1>10. DownIsEmpty'
  BY <1>3, <1>4 DEF DownIsEmpty
<1>11. TodoCurrent'
  <2>1. ASSUME NEW q \in Handlers, Holding(q)'
        PROVE  q = r
    BY <1>5, <1>6, <2>1 DEF Holding
  <2>2. Holding(r)' =>
          IF job'[r].op = "rm_env" THEN job'[r].pc = "apply" /\ job'[r].todo \intersect EnvsOf(disk') = {}
                                   ELSE job'[r].todo \subseteq EnvsOf(disk')
    BY <1>2, <1>6 DEF Holding
  <2> QED
    BY <2>1, <2>2 DEF TodoCurrent, EnvsOf
<1>12. \A e \in EnvNames : live[e] # Absent => e \in EnvsOf(disk)
  BY <1>1, <1>5 DEF LiveKnown
<1>13. LiveKnown'
  <2>1. ASSUME NEW e \in EnvNames, live'[e] # Absent, e \notin EnvsOf(disk')
        PROVE  job'[r].pc = "apply" /\ job'[r].op = "rm_env" /\ e \in job'[r].todo
    BY <1>2, <1>3, <1>6, <1>12, <2>1
  <2> QED
    BY <2>1 DEF LiveKnown, Holding, EnvsOf
<1>14. NoHandleReplaced'
  BY <1>2, <1>3, <1>5, <1>6, <1>12 DEF NoHandleReplaced, Holding
<1>15. TokensOrdered'
  <2>1. minted \in Nat /\ minted' \in Nat /\ minted <= minted'
    BY <1>1, DaemonAssumption DEF SubmitEffect, TypeOK
  <2>2. \A e \in EnvNames : granted[e] \in Nat
    BY <1>1 DEF TypeOK
  <2>3. \A e \in EnvsOf(disk) : disk.envs[e].client_auth.token \in Nat
    BY <1>1 DEF TypeOK, Configs, Env, ClientAuth, EnvsOf
  <2>4. \A e \in EnvNames : granted'[e] <= minted'
    BY <1>1, <1>3, <2>1, <2>2 DEF TokensOrdered
  <2>5. ASSUME NEW e \in EnvNames, e \in EnvsOf(disk')
        PROVE  /\ granted'[e] <= disk'.envs[e].client_auth.token
               /\ disk'.envs[e].client_auth.token <= minted'
    <3>1. CASE /\ e \in EnvsOf(disk)
               /\ disk'.envs[e].client_auth.token = disk.envs[e].client_auth.token
      BY <1>1, <1>3, <2>1, <2>2, <2>3, <3>1 DEF TokensOrdered
    <3>2. CASE disk'.envs[e].client_auth.token = minted'
      BY <2>1, <2>4, <3>2
    <3> QED
      BY <2>5, <3>1, <3>2 DEF SubmitEffect
  <2>6. \A e \in EnvNames : live'[e] # Absent => granted'[e] <= live'[e].client_auth.token
    BY <1>1, <1>3 DEF TokensOrdered
  <2> QED
    BY <2>4, <2>5, <2>6 DEF TokensOrdered, EnvsOf
<1>16. ConnBound' /\ SessionTokenFresh'
  BY <1>1, <1>3 DEF ConnBound, SessionTokenFresh
<1> QED
  BY <1>7, <1>8, <1>9, <1>10, <1>11, <1>13, <1>14, <1>15, <1>16 DEF IndInv

\* Applying a change to one env keeps the invariant.
LEMMA ApplyKeeps ==
    ASSUME IndInv, NEW r \in Handlers, ApplyEffect(r)
    PROVE  IndInv'
<1>1. /\ TypeOK /\ LockHeld /\ DownIsEmpty /\ TodoCurrent /\ LiveKnown /\ NoHandleReplaced
      /\ TokensOrdered /\ ConnBound /\ SessionTokenFresh
      /\ validate(disk)
  BY DEF IndInv
<1>2. PICK e \in job[r].todo, x \in Runtime \union {Absent}, g \in Nat :
        /\ job[r].pc = "apply"
        /\ live' = [live EXCEPT ![e] = x]
        /\ granted' = [granted EXCEPT ![e] = g]
        /\ \/ g = granted[e]
           \/ job[r].op # "rm_env" /\ g = disk.envs[e].client_auth.token
        /\ x # Absent =>
              \/ job[r].op # "rm_env" /\ x.client_auth = disk.envs[e].client_auth
              \/ live[e] # Absent /\ x.client_auth = live[e].client_auth /\ g = granted[e]
        /\ job[r].op = "rm_env" => x = Absent
        /\ conn' = conn \/ conn' = Orphaned(e)
        /\ stopping' \in StoppingType
        /\ \/ Reply(r) /\ (job[r].op = "rm_env" => job[r].todo = {e})
           \/ /\ job' = [job EXCEPT ![r].pc = "apply", ![r].todo = job[r].todo \ {e}]
              /\ UNCHANGED config_write
        /\ slots' \in SlotsType
        /\ reported' \subseteq EnvNames /\ advice' \in BOOLEAN
        /\ UNCHANGED <<disk, minted, status>>
  BY DEF ApplyEffect
<1>3. job[r] \in Job /\ e \in EnvNames /\ job[r].todo \subseteq EnvNames
  BY <1>1 DEF TypeOK, Job
<1>4. config_write = r /\ status = "up"
  BY <1>1, <1>2 DEF LockHeld, Holding, DownIsEmpty
<1>5. /\ live'[e] = x /\ \A f \in EnvNames \ {e} : live'[f] = live[f]
      /\ granted'[e] = g /\ \A f \in EnvNames \ {e} : granted'[f] = granted[f]
  BY <1>1, <1>2, <1>3 DEF TypeOK
<1>6. PICK k \in Job :
         /\ job' = [job EXCEPT ![r] = k]
         /\ \/ k.pc = "idle" /\ config_write' = Absent /\ (job[r].op = "rm_env" => job[r].todo = {e})
            \/ /\ k.pc = "apply" /\ k.op = job[r].op /\ k.todo = job[r].todo \ {e}
               /\ config_write' = config_write
  <2>1. CASE Reply(r) /\ (job[r].op = "rm_env" => job[r].todo = {e})
    <3>1. IdleJob \in Job /\ IdleJob.pc = "idle"
      BY DEF IdleJob, Job, AllOps
    <3> QED
      BY <2>1, <3>1 DEF Reply
  <2>2. CASE /\ job' = [job EXCEPT ![r].pc = "apply", ![r].todo = job[r].todo \ {e}]
             /\ UNCHANGED config_write
    <3> DEFINE k == [job[r] EXCEPT !.pc = "apply", !.todo = job[r].todo \ {e}]
    <3>1. k \in Job /\ k.pc = "apply" /\ k.op = job[r].op /\ k.todo = job[r].todo \ {e}
      BY <1>3 DEF Job
    <3>2. job' = [job EXCEPT ![r] = k]
      BY <2>2, <1>1 DEF TypeOK
    <3> HIDE DEF k
    <3> QED
      BY <2>2, <3>1, <3>2
  <2> QED
    BY <1>2, <2>1, <2>2
<1>7. job'[r] = k /\ \A q \in Handlers \ {r} : job'[q] = job[q]
  BY <1>1, <1>6 DEF TypeOK
<1>8. \A q \in Handlers \ {r} : ~Holding(q)
  BY <1>1, <1>4 DEF LockHeld
<1>9. \A c \in Conns : conn'[c] = conn[c] \/
                        (conn'[c] = [conn[c] EXCEPT !.owned = FALSE] /\ conn[c].env = e)
  BY <1>2 DEF Orphaned
<1>10. conn' \in [Conns -> Connection]
  <2>1. \A c \in Conns : conn[c] \in Connection
    BY <1>1 DEF TypeOK
  <2>2. Orphaned(e) \in [Conns -> Connection]
    BY <2>1 DEF Orphaned, Connection
  <2> QED
    BY <1>1, <1>2, <2>2 DEF TypeOK
<1>11. TypeOK'
  <2>1. live' \in [EnvNames -> Runtime \union {Absent}] /\ granted' \in [EnvNames -> Nat]
    BY <1>1, <1>2 DEF TypeOK
  <2>2. job' \in [Handlers -> Job] /\ config_write' \in Handlers \union {Absent}
    BY <1>1, <1>6 DEF TypeOK
  <2> QED
    BY <1>1, <1>2, <1>10, <2>1, <2>2 DEF TypeOK, SlotsType, StoppingType
<1>12. validate(disk)'
  BY <1>1, <1>2
<1>13. LockHeld'
  BY <1>4, <1>6, <1>7, <1>8, NoneAssumption DEF LockHeld, Holding
<1>14. DownIsEmpty'
  BY <1>2, <1>4 DEF DownIsEmpty
<1>15. EnvsOf(disk)' = EnvsOf(disk)
  BY <1>2
<1>16. TodoCurrent'
  BY <1>1, <1>2, <1>6, <1>7, <1>8, <1>15 DEF TodoCurrent, Holding
<1>17. job[r].op # "rm_env" => e \in EnvsOf(disk)
  BY <1>1, <1>2 DEF TodoCurrent, Holding
<1>18. LiveKnown'
  <2>1. ASSUME NEW f \in EnvNames, live'[f] # Absent, f \notin EnvsOf(disk)
        PROVE  Holding(r)' /\ job'[r].op = "rm_env" /\ f \in job'[r].todo
    <3>1. CASE f = e
      BY <1>2, <1>5, <1>17, <2>1, <3>1
    <3>2. CASE f # e
      <4>1. live[f] # Absent
        BY <1>5, <2>1, <3>2
      <4>2. job[r].op = "rm_env" /\ f \in job[r].todo
        BY <1>1, <1>8, <2>1, <4>1 DEF LiveKnown
      <4> QED
        BY <1>6, <1>7, <3>2, <4>2 DEF Holding
    <3> QED
      BY <3>1, <3>2
  <2> QED
    BY <1>15, <2>1 DEF LiveKnown
<1>19. NoHandleReplaced'
  <2>1. ASSUME NEW f \in EnvNames, job'[r].pc \in {"reload", "apply"},
               job'[r].op \in {"add_env", "import"}, f \in job'[r].todo
        PROVE  live'[f] = Absent
    BY <1>1, <1>2, <1>5, <1>6, <1>7, <2>1 DEF NoHandleReplaced
  <2> QED
    BY <1>7, <1>8, <2>1 DEF NoHandleReplaced, Holding
<1>20. TokensOrdered'
  <2>1. \A f \in EnvNames : granted[f] \in Nat
    BY <1>1 DEF TypeOK
  <2>2. \A f \in EnvsOf(disk) : disk.envs[f].client_auth.token \in Nat
    BY <1>1 DEF TypeOK, Configs, Env, ClientAuth, EnvsOf
  <2>3. g <= minted /\ (e \in EnvsOf(disk) => g <= disk.envs[e].client_auth.token)
    BY <1>1, <1>2, <1>3, <1>17, <2>2 DEF TokensOrdered
  <2>4. x # Absent => g <= x.client_auth.token
    BY <1>1, <1>2, <1>3, <1>17, <2>3 DEF TokensOrdered
  <2> QED
    BY <1>1, <1>2, <1>3, <1>5, <1>15, <2>3, <2>4 DEF TokensOrdered
<1>21. ConnBound' /\ SessionTokenFresh'
  <2> SUFFICES ASSUME NEW c \in Conns
               PROVE  /\ IF conn'[c].st = "idle" THEN conn'[c] = IdleConn
                          ELSE conn'[c].env \in EnvNames /\ conn'[c].rt \in Runtime
                      /\ conn'[c].st # "idle" /\ conn'[c].owned =>
                            conn'[c].rt.client_auth.token >= conn'[c].floor
    BY DEF ConnBound, SessionTokenFresh, IdleConn
  <2>1. conn[c] \in Connection
    BY <1>1 DEF TypeOK
  <2>2. CASE conn[c].env = e /\ conn'[c] = [conn[c] EXCEPT !.owned = FALSE]
    <3>1. /\ conn'[c].st = conn[c].st /\ conn'[c].env = conn[c].env
          /\ conn'[c].rt = conn[c].rt /\ ~conn'[c].owned
      BY <2>1, <2>2 DEF Connection
    <3>2. conn[c].st # "idle"
      BY <1>1, <1>3, <2>2, NoneAssumption DEF ConnBound, IdleConn
    <3> QED
      BY <1>1, <3>1, <3>2 DEF ConnBound
  <2>3. CASE conn'[c] = conn[c]
    BY <1>1, <2>3 DEF ConnBound, SessionTokenFresh
  <2> QED
    BY <1>9, <2>2, <2>3
<1> QED
  BY <1>11, <1>12, <1>13, <1>14, <1>16, <1>18, <1>19, <1>20, <1>21 DEF IndInv

\* A step of handler r that touches nothing but its job, the lock and the cached
\* sessions keeps the invariant, if it gives up the lock or keeps its envs.
LEMMA HandlerStepKeeps ==
    ASSUME IndInv, NEW r \in Handlers, NEW k \in Job, job' = [job EXCEPT ![r] = k],
           slots' \in SlotsType,
           \/ /\ k.pc = "idle"
              /\ config_write' = IF Holding(r) THEN Absent ELSE config_write
              /\ Holding(r) => job[r].op # "rm_env"
           \/ /\ Holding(r) /\ k.pc = "apply" /\ k.op = job[r].op /\ k.todo = job[r].todo
              /\ config_write' = config_write,
           UNCHANGED <<disk, minted, status, live, conn, stopping, historyVars>>
    PROVE  IndInv'
<1>1. /\ TypeOK /\ LockHeld /\ DownIsEmpty /\ TodoCurrent /\ LiveKnown /\ NoHandleReplaced
      /\ TokensOrdered /\ ConnBound /\ SessionTokenFresh
      /\ validate(disk)
  BY DEF IndInv
<1>2. job'[r] = k /\ \A q \in Handlers \ {r} : job'[q] = job[q]
  BY <1>1 DEF TypeOK
<1>3. TypeOK'
  <2>1. job' \in [Handlers -> Job] /\ config_write' \in Handlers \union {Absent}
    BY <1>1 DEF TypeOK
  <2> QED
    BY <1>1, <2>1 DEF TypeOK, historyVars, SlotsType
<1>4. validate(disk)'
  BY <1>1
<1>5. LockHeld'
  BY <1>1, <1>2, NoneAssumption DEF LockHeld, Holding
<1>6. DownIsEmpty'
  BY <1>1, <1>2 DEF DownIsEmpty, LockHeld, Holding
<1>7. TodoCurrent'
  BY <1>1, <1>2 DEF TodoCurrent, Holding, EnvsOf
<1>8. LiveKnown'
  <2>1. \A q \in Handlers : Holding(q) /\ job[q].op = "rm_env" =>
            /\ Holding(q)' /\ job'[q].op = "rm_env" /\ job'[q].todo = job[q].todo
    BY <1>2 DEF Holding
  <2>2. EnvsOf(disk)' = EnvsOf(disk)
    BY DEF EnvsOf
  <2> QED
    BY <1>1, <2>1, <2>2 DEF LiveKnown
<1>9. NoHandleReplaced'
  BY <1>1, <1>2 DEF NoHandleReplaced, Holding
<1>10. TokensOrdered'
  BY <1>1 DEF TokensOrdered, EnvsOf, historyVars
<1>11. ConnBound' /\ SessionTokenFresh'
  BY <1>1 DEF ConnBound, SessionTokenFresh
<1> QED
  BY <1>3, <1>4, <1>5, <1>6, <1>7, <1>8, <1>9, <1>10, <1>11 DEF IndInv

\* The handlers' own steps keep the invariant.
LEMMA FinishKeeps ==
    ASSUME IndInv, NEW r \in Handlers, Finish(r)
    PROVE  IndInv'
<1>1. TypeOK /\ validate(disk) /\ LockHeld /\ TodoCurrent /\ NoHandleReplaced
  BY DEF IndInv
<1>2. IdleJob \in Job /\ IdleJob.pc = "idle"
  BY DEF IdleJob, Job, AllOps
<1>3. job[r] \in Job
  BY <1>1 DEF TypeOK
<1>4. CASE RmBastionEvict(r)
  <2>1. slots' \in SlotsType
    BY <1>1, <1>4 DEF RmBastionEvict, TypeOK, SlotsType
  <2>2. ~Holding(r) /\ config_write' = config_write /\ job' = [job EXCEPT ![r] = IdleJob]
    BY <1>4 DEF RmBastionEvict, Holding
  <2>3. UNCHANGED <<disk, minted, status, live, conn, stopping, historyVars>>
    BY <1>4 DEF RmBastionEvict, clientVars
  <2> QED
    BY <1>2, <2>1, <2>2, <2>3, HandlerStepKeeps
<1>5. ASSUME EvictOnRepin(r)
      PROVE  slots' \in SlotsType
  BY <1>1, <1>5 DEF EvictOnRepin, TypeOK, SlotsType
<1>6. CASE Reload(r)
  <2>1. /\ Holding(r) /\ job[r].op # "rm_env" /\ slots' \in SlotsType
        /\ UNCHANGED <<disk, minted, status, live, conn, stopping, historyVars>>
    BY <1>1, <1>5, <1>6 DEF Reload, Holding, TodoCurrent, clientVars
  <2>2. CASE Reply(r)
    BY <1>2, <2>1, <2>2, HandlerStepKeeps DEF Reply
  <2>3. CASE /\ job' = [job EXCEPT ![r].pc = "apply", ![r].todo = job[r].todo]
             /\ UNCHANGED config_write
    <3> DEFINE k == [job[r] EXCEPT !.pc = "apply"]
    <3>1. k \in Job /\ k.pc = "apply" /\ k.op = job[r].op /\ k.todo = job[r].todo
      BY <1>3 DEF Job
    <3>2. job' = [job EXCEPT ![r] = k]
      BY <1>1, <1>3, <2>3 DEF TypeOK, Job
    <3> HIDE DEF k
    <3> QED
      BY <2>1, <2>3, <3>1, <3>2, HandlerStepKeeps
  <2> QED
    BY <1>6, <2>2, <2>3 DEF Reload, Continue
<1>7. CASE ReloadFails(r)
  <2>1. /\ Holding(r) /\ job[r].op # "rm_env" /\ slots' \in SlotsType /\ Reply(r)
        /\ UNCHANGED <<disk, minted, status, live, conn, stopping, historyVars>>
    BY <1>1, <1>5, <1>7 DEF ReloadFails, Holding, TodoCurrent, clientVars
  <2> QED
    BY <1>2, <2>1, HandlerStepKeeps DEF Reply
<1>8. CASE ApplyStep(r)
  <2>1. PICK e \in EnvNames :
          \/ SetFingerprintApply(r, e) \/ RotateCredApply(r, e) \/ AddEnvApply(r, e)
          \/ RmEnvApply(r, e) \/ GrantApply(r, e) \/ SetPolicyApply(r, e) \/ ImportApply(r, e)
    BY <1>8 DEF ApplyStep
  <2>2. ApplyEffect(r)
    BY <1>1, <2>1, SetFingerprintApplyEffect, RotateCredApplyEffect, AddEnvApplyEffect,
       RmEnvApplyEffect, GrantApplyEffect, SetPolicyApplyEffect, ImportApplyEffect
  <2> QED
    BY <2>2, ApplyKeeps
<1> QED
  BY <1>4, <1>6, <1>7, <1>8 DEF Finish

\* A daemon comes up with exactly the envs, and the tokens, of the sealed config.
LEMMA StartKeeps ==
    ASSUME IndInv, Start
    PROVE  IndInv'
<1>1. /\ TypeOK /\ LockHeld /\ DownIsEmpty /\ TokensOrdered /\ ConnBound /\ validate(disk)
  BY DEF IndInv
<1>2. PICK opened \in [BastionNames -> Session \union {Absent}] :
          /\ slots' = opened
          /\ live' = [e \in EnvNames |->
                IF e \notin Served THEN Absent
                ELSE [build_env_runtime(disk.envs[e],
                        IF disk.envs[e].bastion = Absent THEN Absent
                        ELSE opened[disk.envs[e].bastion])
                      EXCEPT !.idle = IF IdleOverride THEN "overridden" ELSE "configured"]]
  BY DEF Start
<1>3. /\ status # "up" /\ status' = "up" /\ reported' = {} /\ advice' = FALSE
      /\ UNCHANGED <<disk, minted, config_write, job, conn, stopping, granted>>
  BY DEF Start, clientVars
<1>4. /\ config_write = Absent
      /\ \A r \in Handlers : job[r].pc = "idle"
      /\ \A c \in Conns : conn[c].st = "idle"
  BY <1>1, <1>3 DEF DownIsEmpty
<1>5. ASSUME NEW e \in EnvNames
      PROVE  \/ live'[e] = Absent
             \/ /\ live'[e] \in Runtime /\ e \in EnvsOf(disk)
                /\ live'[e].client_auth = disk.envs[e].client_auth
  <2>1. CASE e \notin Served
    BY <1>2, <2>1
  <2>2. CASE e \in Served
    <3> DEFINE env == disk.envs[e]
               t == IF env.bastion = Absent THEN Absent ELSE opened[env.bastion]
               rt == build_env_runtime(env, t)
               i == IF IdleOverride THEN "overridden" ELSE "configured"
    <3>1. e \in EnvsOf(disk) /\ env \in Env
      BY <1>1, <2>2 DEF Served, EnvsOf, TypeOK, Configs
    <3>2. t \in Session \union {Absent} /\ i \in {"configured", "overridden"}
      BY <3>1 DEF Env
    <3>3. disk.credentials[env.credential] \in Credential
      BY <1>1, <3>1 DEF validate, RefsResolve, TypeOK, Configs, Env
    <3> HIDE DEF t, i
    <3>4. rt \in Runtime /\ rt.client_auth = env.client_auth
      BY <3>1, <3>2, <3>3 DEF build_env_runtime, Runtime, Env, Credential
    <3>5. live'[e] = [rt EXCEPT !.idle = i]
      BY <1>2, <2>2 DEF t, i
    <3> HIDE DEF rt, env
    <3>6. live'[e] \in Runtime /\ live'[e].client_auth = rt.client_auth
      BY <3>2, <3>4, <3>5 DEF Runtime
    <3> QED
      BY <3>1, <3>4, <3>6 DEF env
  <2> QED
    BY <2>1, <2>2
<1>6. TypeOK'
  <2>1. live' \in [EnvNames -> Runtime \union {Absent}]
    BY <1>2, <1>5
  <2> QED
    BY <1>1, <1>2, <1>3, <2>1 DEF TypeOK
<1>7. validate(disk)'
  BY <1>1, <1>3
<1>8. LockHeld' /\ DownIsEmpty' /\ TodoCurrent' /\ NoHandleReplaced'
  BY <1>3, <1>4, NoneAssumption DEF LockHeld, DownIsEmpty, TodoCurrent, NoHandleReplaced, Holding
<1>9. EnvsOf(disk)' = EnvsOf(disk)
  BY <1>3
<1>10. LiveKnown'
  BY <1>5, <1>9 DEF LiveKnown
<1>11. TokensOrdered'
  BY <1>1, <1>3, <1>5, <1>9 DEF TokensOrdered
<1>12. ConnBound' /\ SessionTokenFresh'
  BY <1>1, <1>3, <1>4 DEF ConnBound, SessionTokenFresh
<1> QED
  BY <1>6, <1>7, <1>8, <1>10, <1>11, <1>12 DEF IndInv

\* A stop empties everything but the sealed config and the tokens handed out.
LEMMA StopKeeps ==
    ASSUME IndInv, Stop
    PROVE  IndInv'
<1>1. TypeOK /\ TokensOrdered /\ validate(disk)
  BY DEF IndInv
<1>2. /\ status' = "down" /\ config_write' = Absent
      /\ job' = [r \in Handlers |-> IdleJob]
      /\ live' = [e \in EnvNames |-> Absent]
      /\ slots' = [b \in BastionNames |-> Absent]
      /\ conn' = [c \in Conns |-> IdleConn]
      /\ stopping' = [e \in EnvNames |-> {}]
      /\ UNCHANGED <<disk, minted, granted, reported, advice>>
  BY DEF Stop, historyVars
<1>3. /\ IdleJob \in Job /\ IdleJob.pc = "idle"
      /\ IdleConn \in Connection /\ IdleConn.st = "idle"
  BY DEF IdleJob, IdleConn, Job, Connection, AllOps
<1>4. TypeOK'
  BY <1>1, <1>2, <1>3 DEF TypeOK
<1>5. validate(disk)'
  BY <1>1, <1>2
<1>6. \A r \in Handlers : job'[r].pc = "idle"
  BY <1>2, <1>3
<1>7. \A c \in Conns : conn'[c].st = "idle" /\ conn'[c] = IdleConn
  BY <1>2, <1>3
<1>8. \A e \in EnvNames : live'[e] = Absent /\ stopping'[e] = {}
  BY <1>2
<1>9. LockHeld' /\ DownIsEmpty' /\ TodoCurrent' /\ NoHandleReplaced' /\ LiveKnown'
  BY <1>2, <1>6, <1>7, <1>8, NoneAssumption
     DEF LockHeld, DownIsEmpty, TodoCurrent, NoHandleReplaced, LiveKnown, Holding
<1>10. TokensOrdered'
  BY <1>1, <1>2, <1>8 DEF TokensOrdered, EnvsOf
<1>11. ConnBound' /\ SessionTokenFresh'
  BY <1>7 DEF ConnBound, SessionTokenFresh, IdleConn
<1> QED
  BY <1>4, <1>5, <1>9, <1>10, <1>11 DEF IndInv

\* A step of the connections that leaves the rest of the daemon alone keeps the
\* invariant if what each connection becomes is idle, or unchanged, or bound to
\* an env with a token no older than its floor unless it has lost its owner.
ConnStep(c) ==
    \/ conn'[c] = IdleConn
    \/ conn'[c] = conn[c]
    \/ /\ conn'[c].st # "idle" /\ conn'[c].env \in EnvNames /\ conn'[c].rt \in Runtime
       /\ conn'[c].owned => conn'[c].rt.client_auth.token >= conn'[c].floor
       /\ status = "up"

\* Such a step keeps the invariant.
LEMMA ConnStepKeeps ==
    ASSUME IndInv, conn' \in [Conns -> Connection], \A c \in Conns : ConnStep(c),
           stopping' \in StoppingType,
           \A e \in EnvNames : stopping'[e] = {} \/ stopping'[e] = stopping[e],
           UNCHANGED <<disk, minted, status, config_write, job, live, slots,
                       granted, reported, advice>>
    PROVE  IndInv'
<1>1. /\ TypeOK /\ LockHeld /\ DownIsEmpty /\ TodoCurrent /\ LiveKnown /\ NoHandleReplaced
      /\ TokensOrdered /\ ConnBound /\ SessionTokenFresh
      /\ validate(disk)
  BY DEF IndInv
<1>3. IdleConn.st = "idle"
  BY DEF IdleConn
<1>4. TypeOK'
  BY <1>1 DEF TypeOK, StoppingType
<1>5. validate(disk)' /\ EnvsOf(disk)' = EnvsOf(disk)
  BY <1>1
<1>6. LockHeld' /\ TodoCurrent' /\ LiveKnown' /\ NoHandleReplaced' /\ TokensOrdered'
  BY <1>1, <1>5 DEF LockHeld, TodoCurrent, LiveKnown, NoHandleReplaced, TokensOrdered, Holding
<1>7. DownIsEmpty'
  BY <1>1, <1>3 DEF DownIsEmpty, ConnStep
<1>8. ConnBound'
  BY <1>1, <1>3 DEF ConnBound, ConnStep
<1>9. SessionTokenFresh'
  BY <1>1, <1>3 DEF SessionTokenFresh, ConnStep
<1> QED
  BY <1>4, <1>5, <1>6, <1>7, <1>8, <1>9 DEF IndInv

\* The same for a step of one connection: k is what it becomes.
LEMMA OneConnStepKeeps ==
    ASSUME IndInv, NEW c \in Conns, NEW k \in Connection, conn' = [conn EXCEPT ![c] = k],
           \/ k = IdleConn
           \/ /\ k.st # "idle" /\ k.env \in EnvNames /\ k.rt \in Runtime
              /\ k.owned => k.rt.client_auth.token >= k.floor
              /\ status = "up",
           UNCHANGED <<disk, minted, status, config_write, job, live, slots, stopping,
                       granted, reported, advice>>
    PROVE  IndInv'
<1>1. TypeOK
  BY DEF IndInv
<1>2. conn' \in [Conns -> Connection] /\ stopping' \in StoppingType
  BY <1>1 DEF TypeOK, StoppingType
<1>3. conn'[c] = k /\ \A d \in Conns \ {c} : conn'[d] = conn[d]
  BY <1>1 DEF TypeOK
<1>4. \A d \in Conns : ConnStep(d)
  BY <1>3 DEF ConnStep
<1> QED
  BY <1>2, <1>4, ConnStepKeeps

\* Accepting, authenticating and closing a connection keep the invariant.
LEMMA ConnectionKeeps ==
    ASSUME IndInv, NEW c \in Conns,
           Authenticate(c) \/ Close(c) \/ \E e \in EnvNames : Accept(c, e)
    PROVE  IndInv'
<1>1. TypeOK /\ DownIsEmpty /\ TokensOrdered /\ ConnBound /\ SessionTokenFresh
  BY DEF IndInv
<1>2. conn[c] \in Connection
  BY <1>1 DEF TypeOK
<1>3. UNCHANGED <<disk, minted, status, config_write, job, live, slots, stopping,
                  granted, reported, advice>>
  BY DEF Authenticate, Close, Accept, daemonVars, clientVars, historyVars
<1>4. CASE Authenticate(c)
  <2> DEFINE k == [conn[c] EXCEPT !.st = "serving"]
  <2>1. /\ k \in Connection /\ k.st = "serving" /\ k.env = conn[c].env
        /\ k.rt = conn[c].rt /\ k.floor = conn[c].floor /\ k.owned = conn[c].owned
    BY <1>2 DEF Connection
  <2>2. conn' = [conn EXCEPT ![c] = k] /\ conn[c].st = "handshake"
    BY <1>4 DEF Authenticate
  <2>3. status = "up"
    BY <1>1, <2>2 DEF DownIsEmpty
  <2> HIDE DEF k
  <2>4. /\ k.env \in EnvNames /\ k.rt \in Runtime
        /\ k.owned => k.rt.client_auth.token >= k.floor
    BY <1>1, <2>1, <2>2 DEF ConnBound, SessionTokenFresh
  <2> QED
    BY <1>3, <2>1, <2>2, <2>3, <2>4, OneConnStepKeeps
<1>5. CASE Close(c)
  <2>1. IdleConn \in Connection
    BY DEF IdleConn, Connection
  <2> QED
    BY <1>3, <1>5, <2>1, OneConnStepKeeps DEF Close
<1>6. ASSUME NEW e \in EnvNames, live[e] # Absent, Snapshot(c, e, live[e], TRUE)
      PROVE  IndInv'
  <2> DEFINE k == [st |-> "handshake", env |-> e, rt |-> live[e], floor |-> granted[e],
                   owned |-> TRUE]
  <2>1. conn' = [conn EXCEPT ![c] = k]
    BY <1>6 DEF Snapshot
  <2>2. live[e] \in Runtime /\ granted[e] \in Nat
    BY <1>1, <1>6 DEF TypeOK
  <2>3. live[e].client_auth.token \in Nat /\ granted[e] <= live[e].client_auth.token
    BY <1>1, <1>6, <2>2 DEF TokensOrdered, Runtime, ClientAuth
  <2>4. k \in Connection /\ status = "up"
    BY <1>1, <1>6, <2>2 DEF Connection, DownIsEmpty
  <2>5. k.rt.client_auth.token >= k.floor
    BY <2>2, <2>3
  <2> QED
    BY <1>3, <2>1, <2>2, <2>4, <2>5, OneConnStepKeeps
<1>7. ASSUME NEW e \in EnvNames, NEW rt \in stopping[e], Snapshot(c, e, rt, FALSE)
      PROVE  IndInv'
  <2> DEFINE k == [st |-> "handshake", env |-> e, rt |-> rt, floor |-> granted[e],
                   owned |-> FALSE]
  <2>1. conn' = [conn EXCEPT ![c] = k]
    BY <1>7 DEF Snapshot
  <2>2. rt \in Runtime /\ granted[e] \in Nat /\ status = "up"
    BY <1>1, <1>7 DEF TypeOK, DownIsEmpty
  <2>3. k \in Connection
    BY <2>2 DEF Connection
  <2> QED
    BY <1>3, <2>1, <2>2, <2>3, OneConnStepKeeps
<1> QED
  BY <1>4, <1>5, <1>6, <1>7 DEF Accept

\* A loop that stops takes its sessions with it.
LEMMA LoopStopsKeeps ==
    ASSUME IndInv, NEW e \in EnvNames, LoopStops(e)
    PROVE  IndInv'
<1>1. TypeOK /\ DownIsEmpty /\ ConnBound
  BY DEF IndInv
<1>2. /\ stopping[e] # {} /\ stopping' = [stopping EXCEPT ![e] = {}]
      /\ UNCHANGED <<disk, minted, status, config_write, job, live, slots,
                     granted, reported, advice>>
  BY DEF LoopStops, daemonVars, clientVars, historyVars
<1>3. /\ stopping' \in StoppingType
      /\ \A f \in EnvNames : stopping'[f] = {} \/ stopping'[f] = stopping[f]
  BY <1>1, <1>2 DEF TypeOK, StoppingType
<1>4. status = "up"
  BY <1>1, <1>2 DEF DownIsEmpty
<1>5. ASSUME NEW c \in Conns
      PROVE  conn'[c] \in Connection /\ ConnStep(c)
  <2>1. conn[c] \in Connection
    BY <1>1 DEF TypeOK
  <2>2. CASE conn'[c] = conn[c]
    BY <2>1, <2>2 DEF ConnStep
  <2>3. CASE /\ conn[c].env = e /\ ~conn[c].owned
             /\ conn'[c] = [conn[c] EXCEPT !.st = "aborting"]
    <3>1. /\ conn'[c] \in Connection /\ conn'[c].st = "aborting"
          /\ conn'[c].env = conn[c].env /\ conn'[c].rt = conn[c].rt /\ ~conn'[c].owned
      BY <2>1, <2>3 DEF Connection
    <3>2. conn[c].st # "idle"
      BY <1>1, <2>3, NoneAssumption DEF ConnBound, IdleConn
    <3> QED
      BY <1>1, <1>4, <3>1, <3>2 DEF ConnBound, ConnStep
  <2> QED
    BY <2>2, <2>3 DEF LoopStops
<1>6. conn' \in [Conns -> Connection]
  BY <1>5 DEF LoopStops
<1> QED
  BY <1>2, <1>3, <1>5, <1>6, ConnStepKeeps

\* A refused start leaves the daemon down.
LEMMA StartFailsKeeps ==
    ASSUME IndInv, StartFails
    PROVE  IndInv'
<1>1. /\ status # "up" /\ status' = "failed"
      /\ UNCHANGED <<disk, minted, config_write, job, live, slots, conn, stopping,
                     granted, reported, advice>>
  BY DEF StartFails, clientVars, historyVars
<1> QED
  BY <1>1 DEF IndInv, TypeOK, validate, LockHeld, DownIsEmpty, TodoCurrent, LiveKnown,
              NoHandleReplaced, TokensOrdered, ConnBound, SessionTokenFresh,
              Holding, EnvsOf, RefsResolve, PortsUnique

-----------------------------------------------------------------------------
(* Theorems *)

\* The invariant holds of a daemon that was never started.
LEMMA InitIndInv == Init => IndInv
<1> SUFFICES ASSUME Init PROVE IndInv
  OBVIOUS
<1>1. disk \in Configs /\ validate(disk) /\ EnvsOf(disk) = {}
  BY DefaultConfigOK DEF Init, DefaultConfig, EnvsOf
<1>2. /\ IdleJob \in Job /\ IdleJob.pc = "idle"
      /\ IdleConn \in Connection /\ IdleConn.st = "idle"
  BY DEF IdleJob, IdleConn, Job, Connection, AllOps
<1>3. /\ \A r \in Handlers : job[r].pc = "idle"
      /\ \A c \in Conns : conn[c] = IdleConn /\ conn[c].st = "idle"
      /\ \A e \in EnvNames : live[e] = Absent /\ granted[e] = 0 /\ stopping[e] = {}
      /\ minted = 0
  BY <1>2 DEF Init
<1>4. TypeOK
  <2>1. /\ minted \in 0..MaxToken /\ config_write \in Handlers \union {Absent}
        /\ status \in {"down", "up", "failed"} /\ reported \subseteq EnvNames
    BY DaemonAssumption DEF Init
  <2>2. job \in [Handlers -> Job] /\ conn \in [Conns -> Connection]
    BY <1>2 DEF Init
  <2>3. /\ live \in [EnvNames -> Runtime \union {Absent}]
        /\ slots \in [BastionNames -> Session \union {Absent}]
        /\ granted \in [EnvNames -> Nat]
        /\ stopping \in [EnvNames -> SUBSET Runtime]
    BY DEF Init
  <2>4. advice \in BOOLEAN
    BY DEF Init
  <2> QED
    BY <1>1, <2>1, <2>2, <2>3, <2>4 DEF TypeOK
<1>5. LockHeld /\ DownIsEmpty /\ TodoCurrent /\ LiveKnown /\ NoHandleReplaced
  BY <1>3, NoneAssumption
     DEF Init, LockHeld, DownIsEmpty, TodoCurrent, LiveKnown, NoHandleReplaced, Holding
<1>6. TokensOrdered
  <2>1. 0 <= 0
    OBVIOUS
  <2>2. \A e \in EnvNames : e \notin EnvsOf(disk)
    BY <1>1
  <2> QED
    BY <1>3, <2>1, <2>2 DEF TokensOrdered
<1>7. ConnBound /\ SessionTokenFresh
  BY <1>3 DEF ConnBound, SessionTokenFresh
<1> QED
  BY <1>1, <1>4, <1>5, <1>6, <1>7 DEF IndInv

\* The invariant is inductive, for any number of handlers and connections and
\* with every fault.
LEMMA NextKeeps == IndInv /\ [Next]_vars => IndInv'
<1> SUFFICES ASSUME IndInv, [Next]_vars PROVE IndInv'
  OBVIOUS
<1>1. ASSUME NEW r \in Handlers, Submit(r) PROVE IndInv'
  BY <1>1, SubmitHasEffect, SubmitKeeps DEF IndInv
<1>2. ASSUME NEW r \in Handlers, Finish(r) PROVE IndInv'
  BY <1>2, FinishKeeps
<1>3. CASE Start \/ StartFails \/ Stop
  BY <1>3, StartKeeps, StartFailsKeeps, StopKeeps
<1>4. ASSUME NEW c \in Conns,
             Authenticate(c) \/ Close(c) \/ \E e \in EnvNames : Accept(c, e)
      PROVE  IndInv'
  BY <1>4, ConnectionKeeps
<1>6. ASSUME NEW e \in EnvNames, LoopStops(e) PROVE IndInv'
  BY <1>6, LoopStopsKeeps
<1>5. CASE UNCHANGED vars
  <2>1. UNCHANGED <<disk, minted, status, config_write, job, live, slots, conn, stopping,
                    granted, reported, advice>>
    BY <1>5 DEF vars, daemonVars, clientVars, historyVars
  <2>2. TypeOK' /\ validate(disk)' /\ EnvsOf(disk)' = EnvsOf(disk)
    BY <2>1 DEF IndInv, TypeOK
  <2>3. LockHeld' /\ DownIsEmpty' /\ TodoCurrent' /\ LiveKnown' /\ NoHandleReplaced' /\ TokensOrdered'
    BY <2>1, <2>2 DEF IndInv, LockHeld, DownIsEmpty, TodoCurrent, LiveKnown, NoHandleReplaced,
                      TokensOrdered, Holding
  <2>4. ConnBound' /\ SessionTokenFresh'
    BY <2>1 DEF IndInv, ConnBound, SessionTokenFresh
  <2> QED
    BY <2>2, <2>3, <2>4 DEF IndInv
<1> QED
  BY <1>1, <1>2, <1>3, <1>4, <1>5, <1>6 DEF Next

\* The daemon's state is always well-typed.
THEOREM DaemonTypeOK == Spec => []TypeOK
<1>1. IndInv => TypeOK
  BY DEF IndInv
<1> QED
  BY <1>1, InitIndInv, NextKeeps, PTL DEF Spec

\* A connection accepted after a reply handed a token out never authenticates
\* against an older one, whatever requests, failures and restarts intervene.
THEOREM TokensStayFresh == Spec => []SessionTokenFresh
<1>1. IndInv => SessionTokenFresh
  BY DEF IndInv
<1> QED
  BY <1>1, InitIndInv, NextKeeps, PTL DEF Spec

\* apply_add_env never overwrites the handle of an env that is being served,
\* however many handlers run.
THEOREM HandlesAreNeverReplaced == Spec => []NoHandleReplaced
<1>1. IndInv => NoHandleReplaced
  BY DEF IndInv
<1> QED
  BY <1>1, InitIndInv, NextKeeps, PTL DEF Spec

-----------------------------------------------------------------------------
(***************************************************************************)
(* The env table.  It and the bastion sessions agree with the sealed       *)
(* config: the persist-then-apply rule, and re-pinning, for any envs,      *)
(* bastions, credentials, handlers and connections.                        *)
(*                                                                         *)
(* The argument.  A save makes the config differ from the table only where *)
(* the request's own job will touch it (DiskStep), because a handler saves *)
(* with config_write free; an apply step makes the env it is at agree      *)
(* again or reports that it could not (TableApply).  So between the two    *)
(* the table may be behind, but only for the envs still on the holder's    *)
(* list (TableCurrent, TunnelsSound).  A rebuild takes its tunnel from the *)
(* session registry without a look at the pins, so the registry has to be  *)
(* right as well: every cached session fits its bastion's entry or has its *)
(* evict still to come (SlotsSound).                                       *)
(*                                                                         *)
(* Two hypotheses.  NoEvictRace: the evict of a bastion's removal runs     *)
(* after config_write is released, and beside another request it leaves    *)
(* the session of the removed bastion to its namesake (DaemonTunnelRace    *)
(* shows it).  ~StoreFaults: a config that cannot be read back after the   *)
(* save ends the request with nothing applied and no advice to restart.    *)
(***************************************************************************)

\* Some handler still has to touch env e for a request of kind op.
Pending(op, e) == \E r \in Handlers : Holding(r) /\ job[r].op = op /\ e \in job[r].todo

\* A removal of bastion b is saved and its evict is still to come.
Evicting(b) == \E r \in Handlers : job[r].pc = "evict" /\ job[r].bastion = b

\* A new pin of bastion b is saved and its evict is still to come.
Repinning(b) ==
    \E r \in Handlers : /\ job[r].pc = "reload" /\ job[r].op = "set_fingerprint"
                        /\ job[r].bastion = b

\* One handler at a time, or no removal of bastions: what keeps the unlocked
\* evict of a removal from falling between the steps of another request.
NoEvictRace == "rm_bastion" \notin Ops \/ \A r, q \in Handlers : r = q

\* A handler that is about to evict is alone, and its bastion is gone.
EvictAlone ==
    \A r \in Handlers : job[r].pc = "evict" =>
        /\ \A q \in Handlers : q = r
        /\ job[r].bastion \in BastionNames /\ disk.bastions[job[r].bastion] = Absent

Single(j) == j.op \in {"add_env", "grant", "set_policy", "rm_env"} =>
                \A e, f \in j.todo : e = f

\* The requests that name one env have one env to touch.
TodoSingle == \A r \in Handlers : Single(job[r])

\* A cached session goes to its bastion's host with a key its pins accept,
\* unless it is about to be evicted.
SlotsSound ==
    \A b \in BastionNames : slots[b] # Absent =>
        \/ Evicting(b)
        \/ /\ disk.bastions[b] # Absent /\ slots[b].host = disk.bastions[b].host
           /\ check_server_key(disk.bastions[b], slots[b].key) \/ Repinning(b)

\* So does the tunnel of a served env, unless its re-pin is being applied.
TunnelSound(e) ==
    LET b == disk.envs[e].bastion
    IN  IF b = Absent THEN live[e].tunnel = Absent
        ELSE /\ live[e].tunnel # Absent /\ live[e].tunnel.host = disk.bastions[b].host
             /\ \/ check_server_key(disk.bastions[b], live[e].tunnel.key)
                \/ Pending("set_fingerprint", e)

TunnelsSound == \A e \in EnvsOf(disk) : live[e] # Absent => TunnelSound(e)

PasswordOf(cfg, e) == cfg.credentials[cfg.envs[e].credential].password

\* Until a reply advises a restart, the table differs from the sealed config only
\* where the handler at work has yet to apply what it saved.
EnvCurrent(e) ==
    /\ e \notin Served => live[e] = Absent \/ Pending("rm_env", e)
    /\ e \in Served => live[e] # Absent \/ Pending("add_env", e) \/ Pending("import", e)
    /\ e \in EnvsOf(disk) /\ live[e] # Absent =>
          /\ live[e].policy = disk.envs[e].policy \/ Pending("set_policy", e)
          /\ live[e].client_auth = disk.envs[e].client_auth \/ Pending("grant", e)
          /\ live[e].password = PasswordOf(disk, e) \/ Pending("rotate_cred", e)

TableCurrent == status = "up" /\ ~advice => \A e \in EnvNames : EnvCurrent(e)

TableInv == EvictAlone /\ TodoSingle /\ SlotsSound /\ TunnelsSound /\ TableCurrent

-----------------------------------------------------------------------------
(* Persisting *)

\* What the save of a request with job j may do to bastion b.
BastionStep(old, new, j, b) ==
    \/ new.bastions[b] = old.bastions[b]
    \/ j.pc = "evict" /\ j.bastion = b /\ UsersOfBastion(old, b) = {}
    \/ /\ j.pc = "reload" /\ j.op = "set_fingerprint" /\ j.bastion = b
       /\ new.bastions[b] # Absent /\ new.bastions[b].host = old.bastions[b].host
       /\ UsersOfBastion(old, b) \subseteq j.todo

\* What it may do to env e: whatever it changes, e is on the job's list.
EnvKept(old, new, j, e) ==
    LET todo == j.pc = "reload" /\ e \in j.todo
    IN  /\ new.envs[e].bastion = old.envs[e].bastion
        /\ new.envs[e].engine = old.envs[e].engine
        /\ new.envs[e].policy = old.envs[e].policy \/ (todo /\ j.op = "set_policy")
        /\ new.envs[e].client_auth = old.envs[e].client_auth \/ (todo /\ j.op = "grant")
        /\ PasswordOf(new, e) = PasswordOf(old, e) \/ (todo /\ j.op = "rotate_cred")

EnvStep(old, new, j, e) ==
    /\ e \in EnvsOf(new) \ EnvsOf(old) =>
          j.pc = "reload" /\ j.op \in {"add_env", "import"} /\ e \in j.todo
    /\ e \in EnvsOf(old) \ EnvsOf(new) => j.pc = "apply" /\ j.op = "rm_env" /\ e \in j.todo
    /\ e \in EnvsOf(old) \intersect EnvsOf(new) => EnvKept(old, new, j, e)

DiskStep(old, new, j) ==
    /\ \A b \in BastionNames : old.bastions[b] # Absent => BastionStep(old, new, j, b)
    /\ \A e \in EnvNames : EnvStep(old, new, j, e)
    /\ j.pc = "evict" => /\ "rm_bastion" \in Ops /\ j.bastion \in BastionNames
                         /\ new.bastions[j.bastion] = Absent
    /\ Single(j)

\* A request of handler r is saved.
TableSubmit(r) ==
    \E j \in Job :
        /\ job' = [job EXCEPT ![r] = j]
        /\ DiskStep(disk, disk', j)
        /\ job[r].pc = "idle" /\ status = "up" /\ config_write = Absent
        /\ UNCHANGED <<status, live, slots, advice>>

\* Saving keeps the table's invariant: the lock was free, so the table was what
\* the old config says, and every difference is on the new job's list.
LEMMA TableSubmitKeeps ==
    ASSUME NoEvictRace, IndInv, TypeOK', validate(disk'), TableInv,
           NEW r \in Handlers, TableSubmit(r)
    PROVE  TableInv'
<1>1. /\ TypeOK /\ LockHeld /\ LiveKnown /\ validate(disk)
      /\ EvictAlone /\ TodoSingle /\ SlotsSound /\ TunnelsSound /\ TableCurrent
  BY DEF IndInv, TableInv
<1>2. PICK j \in Job :
        /\ job' = [job EXCEPT ![r] = j]
        /\ DiskStep(disk, disk', j)
        /\ job[r].pc = "idle" /\ status = "up" /\ config_write = Absent
        /\ UNCHANGED <<status, live, slots, advice>>
  BY DEF TableSubmit
<1>3. job'[r] = j /\ \A q \in Handlers \ {r} : job'[q] = job[q]
  BY <1>1, <1>2 DEF TypeOK
<1>4. \A q \in Handlers : ~Holding(q) /\ job[q].pc # "evict"
  BY <1>1, <1>2, NoneAssumption DEF LockHeld, EvictAlone
<1>5. \A op, e : ~Pending(op, e)
  BY <1>4 DEF Pending
<1>6. \A b \in BastionNames : ~Evicting(b) /\ ~Repinning(b)
  BY <1>4 DEF Evicting, Repinning, Holding
<1>7. \A e \in EnvNames : live[e] # Absent => e \in EnvsOf(disk)
  BY <1>1, <1>4 DEF LiveKnown
<1>8. ASSUME NEW op, NEW e, j.pc \in {"reload", "apply"}, j.op = op, e \in j.todo
      PROVE  Pending(op, e)'
  BY <1>3, <1>8 DEF Pending, Holding
<1>9. EvictAlone'
  <2>1. j.pc = "evict" => \A q \in Handlers : q = r
    BY <1>2 DEF DiskStep, NoEvictRace
  <2> QED
    BY <1>2, <1>3, <1>4, <2>1 DEF EvictAlone, DiskStep
<1>10. TodoSingle'
  <2>1. Single(j)
    BY <1>2 DEF DiskStep
  <2> QED
    BY <1>1, <1>3, <2>1 DEF TodoSingle, Single
<1>11. SlotsSound'
  <2> SUFFICES ASSUME NEW b \in BastionNames, slots[b] # Absent
               PROVE  \/ Evicting(b)'
                      \/ /\ disk'.bastions[b] # Absent /\ slots[b].host = disk'.bastions[b].host
                         /\ check_server_key(disk'.bastions[b], slots[b].key) \/ Repinning(b)'
    BY <1>2 DEF SlotsSound
  <2>1. /\ disk.bastions[b] # Absent /\ slots[b].host = disk.bastions[b].host
        /\ check_server_key(disk.bastions[b], slots[b].key)
    BY <1>1, <1>6 DEF SlotsSound
  <2>2. BastionStep(disk, disk', j, b)
    BY <1>2, <2>1 DEF DiskStep
  <2> QED
    BY <1>3, <2>1, <2>2 DEF BastionStep, Evicting, Repinning
<1>12. ASSUME NEW e \in EnvNames, live[e] # Absent, e \in EnvsOf(disk')
       PROVE  e \in EnvsOf(disk) /\ EnvKept(disk, disk', j, e)
  BY <1>2, <1>7, <1>12 DEF DiskStep, EnvStep
<1>13. TunnelsSound'
  <2> SUFFICES ASSUME NEW e \in EnvsOf(disk'), live[e] # Absent
               PROVE  TunnelSound(e)'
    BY <1>2 DEF TunnelsSound, EnvsOf
  <2>1. e \in EnvNames /\ e \in EnvsOf(disk) /\ EnvKept(disk, disk', j, e)
    BY <1>12 DEF EnvsOf
  <2>2. TunnelSound(e) /\ disk'.envs[e].bastion = disk.envs[e].bastion
    BY <1>1, <2>1 DEF TunnelsSound, EnvKept
  <2> DEFINE b == disk.envs[e].bastion
  <2>3. CASE b = Absent
    BY <1>2, <2>2, <2>3 DEF TunnelSound
  <2>4. CASE b # Absent
    <3>1. b \in BastionNames /\ disk.bastions[b] # Absent
      BY <1>1, <2>1, <2>4 DEF validate, RefsResolve, TypeOK, Configs, Env, EnvsOf
    <3>2. BastionStep(disk, disk', j, b)
      BY <1>2, <3>1 DEF DiskStep
    <3>3. /\ live[e].tunnel # Absent /\ live[e].tunnel.host = disk.bastions[b].host
          /\ check_server_key(disk.bastions[b], live[e].tunnel.key)
      BY <1>5, <2>2, <2>4 DEF TunnelSound
    <3>4. e \in UsersOfBastion(disk, b)
      BY <2>1 DEF UsersOfBastion
    <3>5. CASE disk'.bastions[b] = disk.bastions[b]
      BY <1>2, <2>2, <2>4, <3>3, <3>5 DEF TunnelSound
    <3>6. CASE /\ j.pc = "reload" /\ j.op = "set_fingerprint" /\ j.bastion = b
               /\ disk'.bastions[b] # Absent /\ disk'.bastions[b].host = disk.bastions[b].host
               /\ UsersOfBastion(disk, b) \subseteq j.todo
      <4>1. Pending("set_fingerprint", e)'
        BY <1>8, <3>4, <3>6
      <4> QED
        BY <1>2, <2>2, <2>4, <3>3, <3>6, <4>1 DEF TunnelSound
    <3> QED
      BY <3>2, <3>4, <3>5, <3>6 DEF BastionStep
  <2> QED
    BY <2>3, <2>4
<1>14. TableCurrent'
  <2> SUFFICES ASSUME ~advice, NEW e \in EnvNames
               PROVE  EnvCurrent(e)'
    BY <1>2 DEF TableCurrent
  <2>1. EnvCurrent(e) /\ EnvStep(disk, disk', j, e)
    BY <1>1, <1>2 DEF TableCurrent, DiskStep
  <2>2. (e \in Served)' <=> e \in EnvsOf(disk') /\ disk'.envs[e].engine # "mssql"
    BY DEF Served
  <2>3. e \in Served <=> live[e] # Absent
    BY <1>5, <2>1 DEF EnvCurrent
  <2>4. e \in Served <=> e \in EnvsOf(disk) /\ disk.envs[e].engine # "mssql"
    BY DEF Served
  <2>5. ASSUME (e \notin Served)', live[e] # Absent
        PROVE  Pending("rm_env", e)'
    BY <1>8, <2>1, <2>2, <2>3, <2>4, <2>5 DEF EnvStep, EnvKept
  <2>6. ASSUME (e \in Served)', live[e] = Absent
        PROVE  (Pending("add_env", e) \/ Pending("import", e))'
    BY <1>8, <2>1, <2>2, <2>3, <2>4, <2>6 DEF EnvStep, EnvKept
  <2>7. ASSUME e \in EnvsOf(disk'), live[e] # Absent
        PROVE  /\ live[e].policy = disk'.envs[e].policy \/ Pending("set_policy", e)'
               /\ live[e].client_auth = disk'.envs[e].client_auth \/ Pending("grant", e)'
               /\ live[e].password = PasswordOf(disk', e) \/ Pending("rotate_cred", e)'
    <3>1. e \in EnvsOf(disk) /\ EnvKept(disk, disk', j, e)
      BY <1>12, <2>7
    <3>2. /\ live[e].policy = disk.envs[e].policy
          /\ live[e].client_auth = disk.envs[e].client_auth
          /\ live[e].password = PasswordOf(disk, e)
      BY <1>5, <2>1, <2>7, <3>1 DEF EnvCurrent
    <3> QED
      BY <1>8, <3>1, <3>2 DEF EnvKept
  <2>8. UNCHANGED live
    BY <1>2
  <2> QED
    BY <2>5, <2>6, <2>7, <2>8 DEF EnvCurrent, EnvsOf, PasswordOf
<1> QED
  BY <1>9, <1>10, <1>11, <1>13, <1>14 DEF TableInv

\* A save that leaves the envs and what they refer to alone.
LEMMA QuietDiskStep ==
    ASSUME NEW old \in Configs, validate(old), NEW new \in Configs, NEW j \in Job,
           new.envs = old.envs,
           \A b \in BastionNames : old.bastions[b] # Absent => new.bastions[b] = old.bastions[b],
           \A e \in EnvsOf(old) : PasswordOf(new, e) = PasswordOf(old, e),
           j.pc # "evict", Single(j)
    PROVE  DiskStep(old, new, j)
<1>1. EnvsOf(new) = EnvsOf(old)
  BY DEF EnvsOf
<1> QED
  BY <1>1 DEF DiskStep, BastionStep, EnvStep, EnvKept

\* A request that only saves.
LEMMA SimpleMutationTable ==
    ASSUME TypeOK, NEW r \in Handlers, NEW op, NEW new, SimpleMutation(r, op, new),
           TodoSingle, DiskStep(disk, new, job[r])
    PROVE  TableSubmit(r)
<1>1. job[r] \in Job /\ job' = [job EXCEPT ![r] = job[r]]
  BY DEF SimpleMutation, daemonVars, TypeOK
<1> QED
  BY <1>1 DEF SimpleMutation, Enter, with_config, daemonVars, clientVars, historyVars, TableSubmit

\* A request that saves and goes on.
LEMMA PersistTable ==
    ASSUME TypeOK, NEW r \in Handlers, NEW op \in AllOps, NEW new,
           NEW b \in BastionNames \union {Absent}, NEW todo \in SUBSET EnvNames,
           Persist(r, op, new, b, todo),
           DiskStep(disk, new, [pc |-> "reload", op |-> op, bastion |-> b, todo |-> todo])
    PROVE  TableSubmit(r)
<1>1. [pc |-> "reload", op |-> op, bastion |-> b, todo |-> todo] \in Job
  BY DEF Job
<1> QED
  BY <1>1 DEF Persist, Proceed, Enter, with_config, historyVars, TableSubmit

\* What each request does to the sealed config, bastions first.
LEMMA BastionRequestsTable ==
    ASSUME IndInv, TableInv, NEW r \in Handlers, NEW b \in BastionNames,
           AddBastion(r, b) \/ RmBastion(r, b) \/ SetFingerprint(r, b)
    PROVE  TableSubmit(r)
<1>1. TypeOK /\ validate(disk) /\ TodoSingle /\ disk \in Configs
  BY DEF IndInv, TableInv, TypeOK
<1>2. CASE AddBastion(r, b)
  <2>1. PICK in \in BastionInputs :
          /\ add_bastion_ok(disk, b)
          /\ SimpleMutation(r, "add_bastion", add_bastion(disk, b, in.host, in.pinned))
    BY <1>2 DEF AddBastion
  <2> DEFINE new == add_bastion(disk, b, in.host, in.pinned)
  <2>2. new \in Configs
    BY <1>1, DaemonAssumption, add_bastion_type DEF Bastion
  <2>3. /\ new.envs = disk.envs /\ new.credentials = disk.credentials
        /\ \A c \in BastionNames \ {b} : new.bastions[c] = disk.bastions[c]
    BY <1>1 DEF add_bastion, Configs
  <2>4. job[r] \in Job /\ job[r].pc = "idle" /\ Single(job[r]) /\ disk.bastions[b] = Absent
    BY <1>1, <2>1 DEF TypeOK, SimpleMutation, Enter, TodoSingle, add_bastion_ok
  <2> HIDE DEF new
  <2>5. DiskStep(disk, new, job[r])
    BY <1>1, <2>2, <2>3, <2>4, QuietDiskStep DEF PasswordOf
  <2> QED
    BY <1>1, <2>1, <2>5, SimpleMutationTable DEF new
<1>3. CASE RmBastion(r, b)
  <2> DEFINE j == [pc |-> "evict", op |-> "rm_bastion", bastion |-> b, todo |-> {}]
  <2>1. j \in Job /\ job' = [job EXCEPT ![r] = j]
    BY <1>3 DEF RmBastion, Job, AllOps
  <2>2. /\ disk'.envs = disk.envs /\ disk'.credentials = disk.credentials
        /\ disk'.bastions[b] = Absent
        /\ \A c \in BastionNames \ {b} : disk'.bastions[c] = disk.bastions[c]
    BY <1>1, <1>3 DEF RmBastion, with_config, rm_bastion, Configs
  <2>3. "rm_bastion" \in Ops /\ UsersOfBastion(disk, b) = {}
    BY <1>3 DEF RmBastion, Enter, rm_bastion_ok
  <2>4. EnvsOf(disk') = EnvsOf(disk)
    BY <2>2 DEF EnvsOf
  <2>5. Single(j)
    BY DEF Single
  <2>6. \A e \in EnvNames : EnvStep(disk, disk', j, e)
    BY <2>2, <2>4 DEF EnvStep, EnvKept, PasswordOf
  <2>7. \A c \in BastionNames : BastionStep(disk, disk', j, c)
    BY <2>2, <2>3 DEF BastionStep
  <2>8. DiskStep(disk, disk', j)
    BY <2>2, <2>3, <2>5, <2>6, <2>7 DEF DiskStep
  <2> QED
    BY <1>3, <2>1, <2>8 DEF RmBastion, Enter, historyVars, TableSubmit
<1>4. CASE SetFingerprint(r, b)
  <2>1. PICK k \in Keys :
          /\ set_fingerprint_ok(disk, b)
          /\ Persist(r, "set_fingerprint", set_fingerprint(disk, b, k), b,
                     UsersOfBastion(set_fingerprint(disk, b, k), b))
    BY <1>4 DEF SetFingerprint
  <2> DEFINE new == set_fingerprint(disk, b, k)
             todo == UsersOfBastion(new, b)
             j == [pc |-> "reload", op |-> "set_fingerprint", bastion |-> b, todo |-> todo]
  <2>2. /\ new.envs = disk.envs /\ new.credentials = disk.credentials
        /\ new.bastions[b] = [host |-> disk.bastions[b].host, pinned |-> {k}]
        /\ \A c \in BastionNames \ {b} : new.bastions[c] = disk.bastions[c]
    BY <1>1 DEF set_fingerprint, Configs
  <2>3. new \in Configs
    BY <1>1, <2>1, set_fingerprint_type
  <2>4. new.bastions[b] \in Bastion
    BY <1>1, <2>1, <2>2 DEF set_fingerprint_ok, Configs, Bastion
  <2> HIDE DEF new
  <2>5. new.bastions[b] # Absent /\ new.bastions[b].host = disk.bastions[b].host
    BY <2>2, <2>4, AbsentAssumption
  <2>6. EnvsOf(new) = EnvsOf(disk) /\ todo = UsersOfBastion(disk, b) /\ todo \in SUBSET EnvNames
    BY <2>2 DEF EnvsOf, UsersOfBastion
  <2>7. Persist(r, "set_fingerprint", new, b, todo) /\ "set_fingerprint" \in AllOps
    BY <2>1 DEF AllOps, new
  <2> HIDE DEF todo
  <2>8. \A e \in EnvNames : EnvStep(disk, new, j, e)
    BY <2>2, <2>6 DEF EnvStep, EnvKept, PasswordOf
  <2>9. \A c \in BastionNames : BastionStep(disk, new, j, c)
    BY <2>2, <2>5, <2>6 DEF BastionStep
  <2>10. Single(j)
    BY DEF Single
  <2>11. DiskStep(disk, new, j)
    BY <2>8, <2>9, <2>10 DEF DiskStep
  <2> QED
    BY <1>1, <2>6, <2>7, <2>11, PersistTable
<1> QED
  BY <1>2, <1>3, <1>4

\* Requests on credentials.
LEMMA CredRequestsTable ==
    ASSUME IndInv, TableInv, NEW r \in Handlers, NEW c \in CredNames,
           AddCred(r, c) \/ RotateCred(r, c) \/ RmCred(r, c)
    PROVE  TableSubmit(r)
<1>1. TypeOK /\ validate(disk) /\ TodoSingle /\ disk \in Configs
  BY DEF IndInv, TableInv, TypeOK
<1>2. \A e \in EnvsOf(disk) : /\ disk.envs[e].credential \in CredNames
                              /\ disk.credentials[disk.envs[e].credential] # Absent
  BY <1>1 DEF validate, RefsResolve, EnvsOf, Configs, Env
<1>3. ASSUME NEW new \in Configs, NEW op, SimpleMutation(r, op, new),
             new.envs = disk.envs, new.bastions = disk.bastions,
             \A d \in CredNames \ {c} : new.credentials[d] = disk.credentials[d],
             \A e \in EnvsOf(disk) : disk.envs[e].credential # c
      PROVE  TableSubmit(r)
  <2>1. job[r] \in Job /\ job[r].pc = "idle" /\ Single(job[r])
    BY <1>1, <1>3 DEF TypeOK, SimpleMutation, Enter, TodoSingle
  <2>2. DiskStep(disk, new, job[r])
    BY <1>1, <1>2, <1>3, <2>1, QuietDiskStep DEF PasswordOf
  <2> QED
    BY <1>1, <1>3, <2>2, SimpleMutationTable
<1>4. CASE AddCred(r, c)
  <2>1. PICK pw \in Passwords : /\ add_cred_ok(disk, c)
                                /\ SimpleMutation(r, "add_cred", add_cred(disk, c, pw))
    BY <1>4 DEF AddCred
  <2> DEFINE new == add_cred(disk, c, pw)
  <2>2. new \in Configs
    BY <1>1, add_cred_type
  <2>3. /\ new.envs = disk.envs /\ new.bastions = disk.bastions
        /\ \A d \in CredNames \ {c} : new.credentials[d] = disk.credentials[d]
    BY <1>1 DEF add_cred, Configs
  <2>4. \A e \in EnvsOf(disk) : disk.envs[e].credential # c
    BY <1>2, <2>1 DEF add_cred_ok
  <2>5. SimpleMutation(r, "add_cred", new)
    BY <2>1
  <2> HIDE DEF new
  <2> QED
    BY <1>3, <2>2, <2>3, <2>4, <2>5
<1>5. CASE RmCred(r, c)
  <2> DEFINE new == rm_cred(disk, c)
  <2>1. SimpleMutation(r, "rm_cred", new) /\ UsersOfCred(disk, c) = {}
    BY <1>5 DEF RmCred, rm_cred_ok
  <2>2. new \in Configs
    BY <1>1, rm_cred_type
  <2>3. /\ new.envs = disk.envs /\ new.bastions = disk.bastions
        /\ \A d \in CredNames \ {c} : new.credentials[d] = disk.credentials[d]
    BY <1>1 DEF rm_cred, Configs
  <2>4. \A e \in EnvsOf(disk) : disk.envs[e].credential # c
    BY <2>1 DEF UsersOfCred
  <2> HIDE DEF new
  <2> QED
    BY <1>3, <2>1, <2>2, <2>3, <2>4
<1>6. CASE RotateCred(r, c)
  <2>1. PICK pw \in Passwords :
              Persist(r, "rotate_cred", rotate_cred(disk, c, pw), Absent,
                      UsersOfCred(rotate_cred(disk, c, pw), c))
    BY <1>6 DEF RotateCred
  <2> DEFINE new == rotate_cred(disk, c, pw)
             todo == UsersOfCred(new, c)
             j == [pc |-> "reload", op |-> "rotate_cred", bastion |-> Absent, todo |-> todo]
  <2>2. /\ new.envs = disk.envs /\ new.bastions = disk.bastions
        /\ \A d \in CredNames \ {c} : new.credentials[d] = disk.credentials[d]
    BY <1>1 DEF rotate_cred, Configs
  <2>3. EnvsOf(new) = EnvsOf(disk) /\ todo = UsersOfCred(disk, c) /\ todo \in SUBSET EnvNames
    BY <2>2 DEF EnvsOf, UsersOfCred
  <2>4. Persist(r, "rotate_cred", new, Absent, todo) /\ "rotate_cred" \in AllOps
    BY <2>1 DEF AllOps
  <2> HIDE DEF new, todo
  <2>5. \A e \in EnvsOf(disk) : e \in todo \/ PasswordOf(new, e) = PasswordOf(disk, e)
    BY <1>2, <2>2, <2>3 DEF UsersOfCred, PasswordOf
  <2>6. \A e \in EnvNames : EnvStep(disk, new, j, e)
    BY <2>2, <2>3, <2>5 DEF EnvStep, EnvKept
  <2>7. \A d \in BastionNames : BastionStep(disk, new, j, d)
    BY <2>2 DEF BastionStep
  <2>8. Single(j)
    BY DEF Single
  <2>9. DiskStep(disk, new, j)
    BY <2>6, <2>7, <2>8 DEF DiskStep
  <2> QED
    BY <1>1, <2>3, <2>4, <2>9, PersistTable
<1> QED
  BY <1>4, <1>5, <1>6

\* Requests on one env.
LEMMA EnvRequestsTable ==
    ASSUME IndInv, TableInv, NEW r \in Handlers, NEW e \in EnvNames,
           AddEnv(r, e) \/ RmEnv(r, e) \/ Grant(r, e) \/ SetPolicy(r, e)
    PROVE  TableSubmit(r)
<1>1. TypeOK /\ validate(disk) /\ TodoSingle /\ disk \in Configs
  BY DEF IndInv, TableInv, TypeOK
<1>2. ASSUME NEW new, NEW op \in {"add_env", "grant", "set_policy"},
             Persist(r, op, new, Absent, {e}),
             new.bastions = disk.bastions, new.credentials = disk.credentials,
             \A f \in EnvNames \ {e} : new.envs[f] = disk.envs[f],
             EnvStep(disk, new, [pc |-> "reload", op |-> op, bastion |-> Absent, todo |-> {e}], e)
      PROVE  TableSubmit(r)
  <2> DEFINE j == [pc |-> "reload", op |-> op, bastion |-> Absent, todo |-> {e}]
  <2>1. \A f \in EnvNames \ {e} : f \in EnvsOf(new) <=> f \in EnvsOf(disk)
    BY <1>2 DEF EnvsOf
  <2>2. \A f \in EnvNames : EnvStep(disk, new, j, f)
    BY <1>2, <2>1 DEF EnvStep, EnvKept, PasswordOf
  <2>3. \A b \in BastionNames : BastionStep(disk, new, j, b)
    BY <1>2 DEF BastionStep
  <2>4. Single(j) /\ op \in AllOps /\ {e} \in SUBSET EnvNames
    BY <1>2 DEF Single, AllOps
  <2>5. DiskStep(disk, new, j)
    BY <2>2, <2>3, <2>4 DEF DiskStep
  <2> QED
    BY <1>1, <1>2, <2>4, <2>5, PersistTable
<1>3. CASE AddEnv(r, e)
  <2>1. PICK in \in EnvInputs, p \in ListenPorts :
          /\ add_env_ok(disk, e, in.bastion, in.credential, in.engine)
          /\ Persist(r, "add_env", add_env(disk, e, in.bastion, in.credential, in.policy,
                                           in.engine, p, minted'), Absent, {e})
    BY <1>3 DEF AddEnv
  <2> DEFINE new == add_env(disk, e, in.bastion, in.credential, in.policy, in.engine, p, minted')
             j == [pc |-> "reload", op |-> "add_env", bastion |-> Absent, todo |-> {e}]
  <2>2. /\ new.bastions = disk.bastions /\ new.credentials = disk.credentials
        /\ \A f \in EnvNames \ {e} : new.envs[f] = disk.envs[f]
    BY <1>1 DEF add_env, Configs
  <2>3. e \notin EnvsOf(disk)
    BY <2>1 DEF add_env_ok, EnvsOf
  <2>4. EnvStep(disk, new, j, e)
    BY <2>3 DEF EnvStep
  <2>5. Persist(r, "add_env", new, Absent, {e})
    BY <2>1
  <2> HIDE DEF new
  <2> QED
    BY <1>2, <2>2, <2>4, <2>5
<1>4. CASE Grant(r, e)
  <2> DEFINE new == grant_env(disk, e, minted')
             env == [disk.envs[e] EXCEPT !.client_auth =
                                          client_auth_for(disk.envs[e].engine, minted')]
             j == [pc |-> "reload", op |-> "grant", bastion |-> Absent, todo |-> {e}]
  <2>1. Persist(r, "grant", new, Absent, {e}) /\ disk.envs[e] # Absent
    BY <1>4 DEF Grant, grant_env_ok
  <2>2. /\ new.bastions = disk.bastions /\ new.credentials = disk.credentials
        /\ \A f \in EnvNames \ {e} : new.envs[f] = disk.envs[f]
        /\ new.envs[e] = env
    BY <1>1 DEF grant_env, Configs
  <2>3. disk.envs[e] \in Env
    BY <1>1, <2>1 DEF Configs
  <2>4. /\ env.bastion = disk.envs[e].bastion /\ env.engine = disk.envs[e].engine
        /\ env.policy = disk.envs[e].policy /\ env.credential = disk.envs[e].credential
    BY <2>3 DEF Env
  <2> HIDE DEF env, new
  <2>5. EnvKept(disk, new, j, e)
    BY <2>2, <2>4 DEF EnvKept, PasswordOf
  <2>6. EnvStep(disk, new, j, e)
    <3>1. e \in EnvsOf(disk)
      BY <2>1 DEF EnvsOf
    <3>2. e \in EnvsOf(new)
      <4>1. minted' \in Nat
        BY <1>1, <1>4, MintFresh DEF Grant
      <4> QED
        BY <1>1, <1>4, <3>1, <4>1, grant_env_envs DEF Grant, new
    <3> QED
      BY <2>5, <3>1, <3>2 DEF EnvStep
  <2> QED
    BY <1>2, <2>1, <2>2, <2>6
<1>5. CASE SetPolicy(r, e)
  <2>1. PICK policy \in Policies :
          /\ set_policy_ok(disk, e)
          /\ Persist(r, "set_policy", set_policy(disk, e, policy), Absent, {e})
    BY <1>5 DEF SetPolicy
  <2> DEFINE new == set_policy(disk, e, policy)
             env == [disk.envs[e] EXCEPT !.policy = policy]
             j == [pc |-> "reload", op |-> "set_policy", bastion |-> Absent, todo |-> {e}]
  <2>2. /\ new.bastions = disk.bastions /\ new.credentials = disk.credentials
        /\ \A f \in EnvNames \ {e} : new.envs[f] = disk.envs[f]
        /\ new.envs[e] = env
    BY <1>1 DEF set_policy, Configs
  <2>3. disk.envs[e] \in Env /\ e \in EnvsOf(disk)
    BY <1>1, <2>1 DEF set_policy_ok, Configs, EnvsOf
  <2>4. /\ env.bastion = disk.envs[e].bastion /\ env.engine = disk.envs[e].engine
        /\ env.client_auth = disk.envs[e].client_auth
        /\ env.credential = disk.envs[e].credential
    BY <2>3 DEF Env
  <2>5. e \in EnvsOf(new)
    BY <1>1, <2>1, <2>3, set_policy_envs
  <2>6. Persist(r, "set_policy", new, Absent, {e})
    BY <2>1
  <2> HIDE DEF env, new
  <2>7. EnvKept(disk, new, j, e)
    BY <2>2, <2>4 DEF EnvKept, PasswordOf
  <2>8. EnvStep(disk, new, j, e)
    BY <2>3, <2>5, <2>7 DEF EnvStep
  <2> QED
    BY <1>2, <2>2, <2>6, <2>8
<1>6. CASE RmEnv(r, e)
  <2> DEFINE j == [pc |-> "apply", op |-> "rm_env", bastion |-> Absent, todo |-> {e}]
  <2>1. j \in Job /\ job' = [job EXCEPT ![r] = j]
    BY <1>6 DEF RmEnv, Proceed, Job, AllOps
  <2>2. /\ disk'.bastions = disk.bastions /\ disk'.credentials = disk.credentials
        /\ \A f \in EnvNames \ {e} : disk'.envs[f] = disk.envs[f]
        /\ disk'.envs[e] = Absent
    BY <1>1, <1>6 DEF RmEnv, with_config, rm_env, Configs
  <2>3. \A f \in EnvNames \ {e} : f \in EnvsOf(disk') <=> f \in EnvsOf(disk)
    BY <2>2 DEF EnvsOf
  <2>4. e \notin EnvsOf(disk')
    BY <2>2 DEF EnvsOf
  <2>5. \A f \in EnvNames : EnvStep(disk, disk', j, f)
    BY <2>2, <2>3, <2>4 DEF EnvStep, EnvKept, PasswordOf
  <2>6. \A b \in BastionNames : BastionStep(disk, disk', j, b)
    BY <2>2 DEF BastionStep
  <2>7. Single(j)
    BY DEF Single
  <2>8. DiskStep(disk, disk', j)
    BY <2>5, <2>6, <2>7 DEF DiskStep
  <2> QED
    BY <1>6, <2>1, <2>8 DEF RmEnv, Enter, historyVars, TableSubmit
<1> QED
  BY <1>3, <1>4, <1>5, <1>6

\* An import adds what is not there yet: no bastion, credential or env changes.
LEMMA ImportDiskStep ==
    ASSUME NEW old \in Configs, validate(old), NEW f \in Configs, merge_import_ok(old, f),
           NEW j \in Job, j.pc = "reload", j.op = "import", EnvsOf(f) \subseteq j.todo
    PROVE  DiskStep(old, merge_import(old, f), j)
<1> DEFINE new == merge_import(old, f)
<1>1. /\ \A b \in BastionNames : old.bastions[b] # Absent => new.bastions[b] = old.bastions[b]
      /\ \A c \in CredNames : old.credentials[c] # Absent =>
                                 new.credentials[c] = old.credentials[c]
  BY DEF merge_import, merge_import_ok, Disjoint, Overlay, Configs
<1>2. /\ EnvsOf(new) = EnvsOf(old) \union EnvsOf(f)
      /\ \A e \in EnvsOf(old) : new.envs[e] = old.envs[e]
  BY merge_import_envs
<1>3. \A e \in EnvsOf(old) : /\ old.envs[e].credential \in CredNames
                             /\ old.credentials[old.envs[e].credential] # Absent
  BY DEF validate, RefsResolve, EnvsOf, Configs, Env
<1> HIDE DEF new
<1>4. \A e \in EnvsOf(old) : PasswordOf(new, e) = PasswordOf(old, e)
  BY <1>1, <1>2, <1>3 DEF PasswordOf
<1>5. \A e \in EnvNames : EnvStep(old, new, j, e)
  BY <1>2, <1>4 DEF EnvStep, EnvKept
<1>6. Single(j)
  BY DEF Single
<1>7. DiskStep(old, new, j)
  BY <1>1, <1>5, <1>6 DEF DiskStep, BastionStep
<1> QED
  BY <1>7 DEF new

\* The fragment's envs are the import's list, whatever tokens are stamped on them.
LEMMA ImportTable ==
    ASSUME IndInv, TableInv, NEW r \in Handlers, Import(r)
    PROVE  TableSubmit(r)
<1>1. TypeOK /\ validate(disk) /\ TodoSingle /\ disk \in Configs
  BY DEF IndInv, TableInv, TypeOK
<1>2. PICK f \in Fragments :
         LET stamped == [f EXCEPT !.envs = [e \in EnvNames |->
                           IF f.envs[e] = Absent THEN Absent
                           ELSE [f.envs[e] EXCEPT !.client_auth.token = minted']]]
         IN  /\ Mint
             /\ merge_import_ok(disk, stamped)
             /\ Persist(r, "import", merge_import(disk, stamped), Absent, EnvsOf(f))
  BY DEF Import
<1> DEFINE envs == [e \in EnvNames |->
                      IF f.envs[e] = Absent THEN Absent
                      ELSE [f.envs[e] EXCEPT !.client_auth.token = minted']]
           stamped == [f EXCEPT !.envs = envs]
           j == [pc |-> "reload", op |-> "import", bastion |-> Absent, todo |-> EnvsOf(f)]
<1>3. /\ Mint /\ merge_import_ok(disk, stamped)
      /\ Persist(r, "import", merge_import(disk, stamped), Absent, EnvsOf(f))
  BY <1>2
<1>4. f \in Configs /\ minted' \in Nat
  BY <1>1, <1>3, DaemonAssumption, MintFresh
<1>5. \A e \in EnvNames : f.envs[e] # Absent => envs[e] \in Env
  BY <1>4 DEF Configs, Env, ClientAuth
<1>6. envs \in [EnvNames -> Env \union {Absent}]
  BY <1>5
<1>7. \A e \in EnvNames : f.envs[e] = Absent => envs[e] = Absent
  OBVIOUS
<1> HIDE DEF envs
<1>8. stamped \in Configs /\ stamped.envs = envs
  BY <1>4, <1>6 DEF Configs
<1> HIDE DEF stamped
<1>9. EnvsOf(stamped) \subseteq EnvsOf(f) /\ EnvsOf(f) \in SUBSET EnvNames
  BY <1>7, <1>8 DEF EnvsOf
<1>10. j \in Job /\ j.pc = "reload" /\ j.op = "import" /\ j.todo = EnvsOf(f)
  BY <1>9 DEF Job, AllOps
<1>11. DiskStep(disk, merge_import(disk, stamped), j)
  BY <1>1, <1>3, <1>8, <1>9, <1>10, ImportDiskStep
<1>12. "import" \in AllOps
  BY DEF AllOps
<1> QED
  BY <1>1, <1>3, <1>9, <1>11, <1>12, PersistTable

\* Every request does to the sealed config what its job goes on to apply.
LEMMA SubmitTable ==
    ASSUME IndInv, TableInv, NEW r \in Handlers, Submit(r)
    PROVE  TableSubmit(r)
  BY BastionRequestsTable, CredRequestsTable, EnvRequestsTable, ImportTable DEF Submit

-----------------------------------------------------------------------------
(* Applying *)

\* A runtime that build_env_runtime made of the sealed config.
Fresh(e, x) ==
    /\ disk.envs[e].engine # "mssql"
    /\ x.policy = disk.envs[e].policy
    /\ x.client_auth = disk.envs[e].client_auth
    /\ x.password = PasswordOf(disk, e)
    /\ x.tunnel \in TunnelsFor(disk.envs[e])

\* What an apply step of handler r may publish for env e in place of live[e].
Published(r, e, x) ==
    \/ job[r].op = "rm_env" /\ x = Absent
    \/ job[r].op = "set_fingerprint" /\ x = Absent /\ (live[e] = Absent \/ advice')
    \/ job[r].op \notin {"rm_env", "set_fingerprint"} /\ x = live[e] /\ advice'
    \/ job[r].op # "rm_env" /\ x # Absent /\ Fresh(e, x)
    \/ /\ job[r].op = "grant" /\ live[e] # Absent
       /\ x = [live[e] EXCEPT !.client_auth = disk.envs[e].client_auth]
    \/ /\ job[r].op = "set_policy" /\ live[e] # Absent
       /\ x = [live[e] EXCEPT !.policy = disk.envs[e].policy]

\* The cached sessions after a build for env e, whether or not it returned.
SlotsStep(e) ==
    \/ slots' = slots
    \/ \E t \in TunnelsFor(disk.envs[e]) : slots' = SlotsWith(disk.envs[e], t)

TableApply(r) ==
    \E e \in job[r].todo, x \in Runtime \union {Absent} :
        /\ job[r].pc = "apply"
        /\ live' = [live EXCEPT ![e] = x]
        /\ Published(r, e, x)
        /\ slots' = slots \/ (job[r].op # "rm_env" /\ SlotsStep(e))
        /\ advice => advice'
        /\ \/ Reply(r) /\ \/ job[r].todo = {e}
                          \/ advice' /\ job[r].op \notin {"rm_env", "set_fingerprint"}
           \/ /\ job' = [job EXCEPT ![r].pc = "apply", ![r].todo = job[r].todo \ {e}]
              /\ UNCHANGED config_write
        /\ UNCHANGED <<disk, status>>

\* A build that returns makes a runtime of the sealed config.
LEMMA BuildIsFresh ==
    ASSUME TypeOK, validate(disk), NEW e \in EnvsOf(disk), NEW t,
           BuildSucceeds(disk.envs[e], t)
    PROVE  /\ build_env_runtime(disk.envs[e], t) \in Runtime
           /\ build_env_runtime(disk.envs[e], t) # Absent
           /\ Fresh(e, build_env_runtime(disk.envs[e], t))
           /\ SlotsStep(e)
<1>1. build_env_runtime(disk.envs[e], t) \in Runtime
  BY BuildSucceedsType
<1>2. Fresh(e, build_env_runtime(disk.envs[e], t))
  BY DEF Fresh, build_env_runtime, BuildSucceeds, PasswordOf
<1>3. SlotsStep(e)
  BY DEF SlotsStep, BuildSucceeds
<1> QED
  BY <1>1, <1>2, <1>3, NoneAssumption

\* A build that errs may have opened the session all the same.
LEMMA BuildFailsSlots ==
    ASSUME NEW e \in EnvsOf(disk), BuildFails(disk.envs[e])
    PROVE  SlotsStep(e)
  BY DEF BuildFails, SlotsStep

\* A published runtime is fresh.
LEMMA PublishTable ==
    ASSUME TypeOK, validate(disk), NEW e \in EnvsOf(disk), NEW t, Publish(e, t)
    PROVE  /\ \E x \in Runtime : /\ x # Absent /\ Fresh(e, x)
                                 /\ live' = [live EXCEPT ![e] = x]
           /\ SlotsStep(e) /\ advice' = advice
  BY BuildIsFresh DEF Publish

\* A step that publishes what the sealed config says.
LEMMA PublishApply ==
    ASSUME TypeOK, validate(disk), TodoCurrent, TodoSingle,
           NEW r \in Handlers, NEW e \in EnvNames, NEW op, Working(r, op, e),
           op # "rm_env", NEW t, Publish(e, t),
           Continue(r, Rest(r, e)) \/ (Reply(r) /\ op = "add_env"),
           UNCHANGED <<disk, status>>
    PROVE  TableApply(r)
<1>1. job[r].pc = "apply" /\ job[r].op = op /\ e \in job[r].todo /\ e \in EnvsOf(disk)
  BY WorkingFacts
<1>2. PICK x \in Runtime : x # Absent /\ Fresh(e, x) /\ live' = [live EXCEPT ![e] = x]
  BY <1>1, PublishTable
<1>3. SlotsStep(e) /\ advice' = advice
  BY <1>1, PublishTable
<1>4. op = "add_env" => job[r].todo = {e}
  BY <1>1 DEF TodoSingle, Single
<1>5. \/ Reply(r) /\ job[r].todo = {e}
      \/ /\ job' = [job EXCEPT ![r].pc = "apply", ![r].todo = job[r].todo \ {e}]
         /\ UNCHANGED config_write
  BY <1>1, <1>4, ContinueEffect
<1> QED
  BY <1>1, <1>2, <1>3, <1>5 DEF TableApply, Published

\* A step that leaves env e as it is and says so in its reply.
LEMMA ReportApply ==
    ASSUME TypeOK, TodoCurrent, NEW r \in Handlers, NEW e \in EnvNames, NEW op,
           Working(r, op, e), op \notin {"rm_env", "set_fingerprint"},
           SlotsStep(e), ReportFailure(e), Reply(r), UNCHANGED <<disk, status, live>>
    PROVE  TableApply(r)
<1>1. /\ job[r].pc = "apply" /\ job[r].op = op /\ e \in job[r].todo
      /\ live[e] \in Runtime \union {Absent} /\ live = [live EXCEPT ![e] = live[e]]
  BY WorkingFacts
<1>2. advice'
  BY DEF ReportFailure
<1>3. Published(r, e, live[e]) /\ live' = [live EXCEPT ![e] = live[e]]
  BY <1>1, <1>2 DEF Published
<1> QED
  BY <1>1, <1>2, <1>3 DEF TableApply

\* Every apply step publishes what the sealed config says or reports that it did
\* not.
LEMMA ApplyTable ==
    ASSUME IndInv, TableInv, NEW r \in Handlers, ApplyStep(r)
    PROVE  TableApply(r)
<1>1. TypeOK /\ validate(disk) /\ TodoCurrent /\ TodoSingle
  BY DEF IndInv, TableInv
<1>2. PICK e \in EnvNames :
          \/ SetFingerprintApply(r, e) \/ RotateCredApply(r, e) \/ AddEnvApply(r, e)
          \/ RmEnvApply(r, e) \/ GrantApply(r, e) \/ SetPolicyApply(r, e) \/ ImportApply(r, e)
  BY DEF ApplyStep
<1>3. SlotsStep(e) \/ slots' # slots
  BY DEF SlotsStep
<1>4. ASSUME NEW op, Working(r, op, e)
      PROVE  /\ job[r].pc = "apply" /\ job[r].op = op /\ e \in job[r].todo
             /\ live[e] \in Runtime \union {Absent} /\ live = [live EXCEPT ![e] = live[e]]
             /\ op # "rm_env" => e \in EnvsOf(disk) /\ disk.envs[e] \in Env
  BY <1>1, <1>4, WorkingFacts
<1>5. CASE SetFingerprintApply(r, e)
  <2>1. /\ Working(r, "set_fingerprint", e) /\ Continue(r, Rest(r, e))
        /\ UNCHANGED <<disk, status>>
    BY <1>5 DEF SetFingerprintApply
  <2>2. /\ job[r].pc = "apply" /\ job[r].op = "set_fingerprint" /\ e \in job[r].todo
        /\ live = [live EXCEPT ![e] = live[e]] /\ e \in EnvsOf(disk)
    BY <1>4, <2>1
  <2>3. \/ Reply(r) /\ job[r].todo = {e}
        \/ /\ job' = [job EXCEPT ![r].pc = "apply", ![r].todo = job[r].todo \ {e}]
           /\ UNCHANGED config_write
    BY <2>1, <2>2, ContinueEffect
  <2>4. CASE live[e] = Absent /\ UNCHANGED <<live, slots, advice>>
    <3>1. live' = [live EXCEPT ![e] = Absent] /\ Published(r, e, Absent)
      BY <2>2, <2>4 DEF Published
    <3> QED
      BY <2>1, <2>2, <2>3, <2>4, <3>1 DEF TableApply
  <2>5. CASE \E t \in Session \union {Absent} : Publish(e, t)
    BY <1>1, <2>1, <2>5, PublishApply
  <2>6. CASE BuildFails(disk.envs[e]) /\ apply_rm_env(e) /\ ReportFailure(e)
    <3>1. advice' /\ live' = [live EXCEPT ![e] = Absent]
      BY <2>6 DEF ReportFailure, apply_rm_env
    <3>2. Published(r, e, Absent) /\ SlotsStep(e)
      BY <2>2, <2>6, <3>1, BuildFailsSlots DEF Published
    <3> QED
      BY <2>1, <2>2, <2>3, <3>1, <3>2 DEF TableApply
  <2> QED
    BY <1>5, <2>4, <2>5, <2>6 DEF SetFingerprintApply
<1>6. CASE RotateCredApply(r, e)
  <2>1. Working(r, "rotate_cred", e) /\ UNCHANGED <<disk, status>>
    BY <1>6 DEF RotateCredApply
  <2>2. e \in EnvsOf(disk)
    BY <1>4, <2>1
  <2>3. CASE /\ \E t \in Session \union {Absent} : Publish(e, t)
             /\ Continue(r, Rest(r, e))
    BY <1>1, <2>1, <2>3, PublishApply
  <2>4. CASE /\ \/ BuildFails(disk.envs[e])
                \/ \E t \in Session \union {Absent} : BuildSucceeds(disk.envs[e], t)
             /\ ReportFailure(e) /\ Reply(r) /\ UNCHANGED live
    <3>1. SlotsStep(e)
      BY <1>1, <2>2, <2>4, BuildFailsSlots, BuildIsFresh
    <3> QED
      BY <1>1, <2>1, <2>4, <3>1, ReportApply
  <2> QED
    BY <1>6, <2>3, <2>4 DEF RotateCredApply
<1>7. ASSUME NEW op \in {"add_env", "import"}, Working(r, op, e), AddFails(e), Reply(r),
             UNCHANGED <<disk, status>>
      PROVE  TableApply(r)
  <2>1. e \in EnvsOf(disk)
    BY <1>4, <1>7
  <2>2. SlotsStep(e) /\ ReportFailure(e) /\ UNCHANGED live
    BY <1>1, <1>7, <2>1, BuildFailsSlots, BuildIsFresh DEF AddFails
  <2> QED
    BY <1>1, <1>7, <2>2, ReportApply
<1>8. CASE AddEnvApply(r, e)
  <2>1. Working(r, "add_env", e) /\ Reply(r) /\ UNCHANGED <<disk, status>>
    BY <1>8 DEF AddEnvApply
  <2>2. CASE \E t \in Session \union {Absent} : Publish(e, t)
    BY <1>1, <2>1, <2>2, PublishApply
  <2> QED
    BY <1>7, <1>8, <2>1, <2>2 DEF AddEnvApply
<1>9. CASE ImportApply(r, e)
  <2>1. Working(r, "import", e) /\ UNCHANGED <<disk, status>>
    BY <1>9 DEF ImportApply
  <2>2. CASE /\ \E t \in Session \union {Absent} : Publish(e, t)
             /\ Continue(r, Rest(r, e))
    BY <1>1, <2>1, <2>2, PublishApply
  <2> QED
    BY <1>7, <1>9, <2>1, <2>2 DEF ImportApply
<1>10. CASE RmEnvApply(r, e)
  <2>1. /\ Working(r, "rm_env", e) /\ Continue(r, Rest(r, e))
        /\ live' = [live EXCEPT ![e] = Absent] /\ UNCHANGED <<disk, status, slots, advice>>
    BY <1>10 DEF RmEnvApply, apply_rm_env
  <2>2. job[r].pc = "apply" /\ job[r].op = "rm_env" /\ e \in job[r].todo
    BY <1>4, <2>1
  <2>3. \/ Reply(r) /\ job[r].todo = {e}
        \/ /\ job' = [job EXCEPT ![r].pc = "apply", ![r].todo = job[r].todo \ {e}]
           /\ UNCHANGED config_write
    BY <2>1, <2>2, ContinueEffect
  <2>4. Published(r, e, Absent)
    BY <2>2 DEF Published
  <2> QED
    BY <2>1, <2>2, <2>3, <2>4 DEF TableApply
<1>11. CASE GrantApply(r, e)
  <2> DEFINE x == [live[e] EXCEPT !.client_auth = disk.envs[e].client_auth]
  <2>1. /\ Working(r, "grant", e) /\ Reply(r) /\ SwapRuntime(e, x)
        /\ UNCHANGED <<disk, status, slots>>
    BY <1>11 DEF GrantApply
  <2>2. /\ job[r].pc = "apply" /\ job[r].op = "grant" /\ e \in job[r].todo
        /\ live[e] \in Runtime \union {Absent} /\ disk.envs[e] \in Env
    BY <1>4, <2>1
  <2>3. job[r].todo = {e}
    BY <1>1, <2>2 DEF TodoSingle, Single
  <2>4. CASE live[e] # Absent /\ live' = [live EXCEPT ![e] = x] /\ UNCHANGED advice
    <3>1. x \in Runtime
      BY <2>2, <2>4 DEF Runtime, Env
    <3>2. Published(r, e, x)
      BY <2>2, <2>4 DEF Published
    <3> HIDE DEF x
    <3> QED
      BY <2>1, <2>2, <2>3, <2>4, <3>1, <3>2 DEF TableApply
  <2>5. CASE ReportFailure(e) /\ UNCHANGED live
    BY <1>1, <1>3, <2>1, <2>5, ReportApply
  <2> QED
    BY <2>1, <2>4, <2>5 DEF SwapRuntime
<1>12. CASE SetPolicyApply(r, e)
  <2> DEFINE x == [live[e] EXCEPT !.policy = disk.envs[e].policy]
  <2>1. /\ Working(r, "set_policy", e) /\ Reply(r) /\ SwapRuntime(e, x)
        /\ UNCHANGED <<disk, status, slots>>
    BY <1>12 DEF SetPolicyApply
  <2>2. /\ job[r].pc = "apply" /\ job[r].op = "set_policy" /\ e \in job[r].todo
        /\ live[e] \in Runtime \union {Absent} /\ disk.envs[e] \in Env
    BY <1>4, <2>1
  <2>3. job[r].todo = {e}
    BY <1>1, <2>2 DEF TodoSingle, Single
  <2>4. CASE live[e] # Absent /\ live' = [live EXCEPT ![e] = x] /\ UNCHANGED advice
    <3>1. x \in Runtime
      BY <2>2, <2>4 DEF Runtime, Env
    <3>2. Published(r, e, x)
      BY <2>2, <2>4 DEF Published
    <3> HIDE DEF x
    <3> QED
      BY <2>1, <2>2, <2>3, <2>4, <3>1, <3>2 DEF TableApply
  <2>5. CASE ReportFailure(e) /\ UNCHANGED live
    BY <1>1, <1>3, <2>1, <2>5, ReportApply
  <2> QED
    BY <2>1, <2>4, <2>5 DEF SwapRuntime
<1> QED
  BY <1>2, <1>5, <1>6, <1>8, <1>9, <1>10, <1>11, <1>12

\* While a handler applies, a session that is returned or opened for an env's
\* bastion fits the bastion's entry.
LEMMA TunnelsFit ==
    ASSUME IndInv, TableInv, NEW r \in Handlers, job[r].pc = "apply",
           NEW e \in EnvsOf(disk), NEW t \in TunnelsFor(disk.envs[e])
    PROVE  LET b == disk.envs[e].bastion
           IN  IF b = Absent THEN t = Absent
               ELSE /\ b \in BastionNames /\ t # Absent /\ disk.bastions[b] # Absent
                    /\ t.host = disk.bastions[b].host
                    /\ check_server_key(disk.bastions[b], t.key)
<1>1. /\ TypeOK /\ LockHeld /\ validate(disk) /\ EvictAlone /\ SlotsSound
  BY DEF IndInv, TableInv
<1> DEFINE b == disk.envs[e].bastion
<1>2. CASE b = Absent
  BY <1>2 DEF TunnelsFor
<1>3. CASE b # Absent
  <2>1. b \in BastionNames /\ disk.bastions[b] # Absent
    BY <1>1, <1>3 DEF validate, RefsResolve, TypeOK, Configs, Env, EnvsOf
  <2>2. ~Evicting(b) /\ ~Repinning(b)
    BY <1>1 DEF Evicting, Repinning, EvictAlone, LockHeld, Holding
  <2>3. t \in get_or_open(b)
    BY <1>3 DEF TunnelsFor
  <2>4. CASE slots[b] # Absent
    BY <1>1, <1>3, <2>1, <2>2, <2>3, <2>4 DEF get_or_open, SlotsSound
  <2>5. CASE slots[b] = Absent
    <3>1. t \in Open(disk.bastions[b])
      BY <2>3, <2>5 DEF get_or_open
    <3>2. t \in Session /\ t.host = disk.bastions[b].host
          /\ check_server_key(disk.bastions[b], t.key)
      BY <3>1 DEF Open
    <3> QED
      BY <1>3, <2>1, <3>2, NoneAssumption
  <2> QED
    BY <2>4, <2>5
<1> QED
  BY <1>2, <1>3

\* Applying a change to one env keeps the table's invariant.
LEMMA TableApplyKeeps ==
    ASSUME IndInv, TableInv, NEW r \in Handlers, TableApply(r)
    PROVE  TableInv'
<1>1. /\ TypeOK /\ LockHeld /\ validate(disk) /\ TodoCurrent /\ LiveKnown
      /\ EvictAlone /\ TodoSingle /\ SlotsSound /\ TunnelsSound /\ TableCurrent
  BY DEF IndInv, TableInv
<1>2. PICK e \in job[r].todo, x \in Runtime \union {Absent} :
        /\ job[r].pc = "apply"
        /\ live' = [live EXCEPT ![e] = x]
        /\ Published(r, e, x)
        /\ slots' = slots \/ (job[r].op # "rm_env" /\ SlotsStep(e))
        /\ advice => advice'
        /\ \/ Reply(r) /\ \/ job[r].todo = {e}
                          \/ advice' /\ job[r].op \notin {"rm_env", "set_fingerprint"}
           \/ /\ job' = [job EXCEPT ![r].pc = "apply", ![r].todo = job[r].todo \ {e}]
              /\ UNCHANGED config_write
        /\ UNCHANGED <<disk, status>>
  BY DEF TableApply
<1>3. job[r] \in Job /\ e \in EnvNames /\ Holding(r) /\ config_write = r
  BY <1>1, <1>2 DEF TypeOK, Job, Holding, LockHeld
<1>4. \A q \in Handlers \ {r} : ~Holding(q) /\ job[q].pc # "evict"
  BY <1>1, <1>2, <1>3 DEF LockHeld, EvictAlone
<1>5. /\ live'[e] = x /\ \A f \in EnvNames \ {e} : live'[f] = live[f]
  BY <1>1, <1>2, <1>3 DEF TypeOK
<1>6. /\ job'[r].pc \in {"idle", "apply"} /\ Single(job'[r])
      /\ \/ job[r].todo = {e}
         \/ advice' /\ job[r].op \notin {"rm_env", "set_fingerprint"}
         \/ /\ job'[r].pc = "apply" /\ job'[r].op = job[r].op
            /\ job'[r].todo = job[r].todo \ {e}
  <2>1. CASE Reply(r) /\ \/ job[r].todo = {e}
                         \/ advice' /\ job[r].op \notin {"rm_env", "set_fingerprint"}
    <3>1. job'[r] = IdleJob
      BY <1>1, <2>1 DEF Reply, TypeOK
    <3>2. job'[r].pc = "idle" /\ job'[r].todo = {}
      BY <3>1 DEF IdleJob
    <3> QED
      BY <2>1, <3>2 DEF Single
  <2>2. CASE job' = [job EXCEPT ![r].pc = "apply", ![r].todo = job[r].todo \ {e}]
    <3>1. /\ job'[r].pc = "apply" /\ job'[r].op = job[r].op
          /\ job'[r].todo = job[r].todo \ {e}
      BY <1>1, <1>3, <2>2 DEF TypeOK, Job
    <3> QED
      BY <1>1, <3>1 DEF TodoSingle, Single
  <2> QED
    BY <1>2, <2>1, <2>2
<1>7. \A q \in Handlers \ {r} : job'[q] = job[q]
  BY <1>1, <1>2 DEF Reply, TypeOK
<1>8. \A op, f : Pending(op, f) <=> job[r].op = op /\ f \in job[r].todo
  BY <1>3, <1>4 DEF Pending
<1>9. ASSUME NEW op, NEW f \in EnvNames \ {e}, Pending(op, f),
             op \in {"rm_env", "set_fingerprint"} \/ ~advice'
      PROVE  Pending(op, f)'
  <2>1. job[r].op = op /\ f \in job[r].todo
    BY <1>8, <1>9
  <2>2. job'[r].pc = "apply" /\ job'[r].op = op /\ f \in job'[r].todo
    BY <1>6, <1>9, <2>1
  <2> QED
    BY <2>2 DEF Pending, Holding
<1>10. EvictAlone'
  BY <1>4, <1>6, <1>7 DEF EvictAlone
<1>11. TodoSingle'
  BY <1>1, <1>6, <1>7 DEF TodoSingle, Single
<1>12. \A b : ~Evicting(b) /\ ~Repinning(b)
  BY <1>2, <1>4 DEF Evicting, Repinning, Holding
<1>13. job[r].op # "rm_env" => e \in EnvsOf(disk)
  BY <1>1, <1>2, <1>3 DEF TodoCurrent
<1>14. SlotsSound'
  <2> SUFFICES ASSUME NEW b \in BastionNames, slots'[b] # Absent
               PROVE  /\ disk.bastions[b] # Absent /\ slots'[b].host = disk.bastions[b].host
                      /\ check_server_key(disk.bastions[b], slots'[b].key)
    BY <1>2 DEF SlotsSound
  <2>1. CASE slots'[b] = slots[b]
    BY <1>1, <1>12, <2>1 DEF SlotsSound
  <2>2. CASE slots'[b] # slots[b]
    <3>1. PICK t \in TunnelsFor(disk.envs[e]) : slots' = SlotsWith(disk.envs[e], t)
      BY <1>2, <2>2 DEF SlotsStep
    <3>2. e \in EnvsOf(disk)
      BY <1>2, <1>13, <2>2
    <3>3. b = disk.envs[e].bastion /\ slots'[b] = t /\ b # Absent
      BY <1>1, <2>2, <3>1, AbsentAssumption DEF SlotsWith, TypeOK
    <3> QED
      BY <1>2, <3>2, <3>3, TunnelsFit
  <2> QED
    BY <2>1, <2>2
<1>15. TunnelsSound'
  <2> SUFFICES ASSUME NEW f \in EnvsOf(disk), live'[f] # Absent
               PROVE  TunnelSound(f)'
    BY <1>2 DEF TunnelsSound, EnvsOf
  <2>0. f \in EnvNames
    BY DEF EnvsOf
  <2>1. CASE f # e
    <3>1. live'[f] = live[f] /\ TunnelSound(f)
      BY <1>1, <1>5, <2>0, <2>1 DEF TunnelsSound
    <3>2. Pending("set_fingerprint", f) => Pending("set_fingerprint", f)'
      BY <1>9, <2>0, <2>1
    <3> QED
      BY <1>2, <3>1, <3>2 DEF TunnelSound
  <2>2. CASE f = e
    <3>1. job[r].op # "rm_env"
      BY <1>1, <1>2, <1>3, <2>2 DEF TodoCurrent
    <3>2. CASE Fresh(e, x)
      <4>1. x.tunnel \in TunnelsFor(disk.envs[e])
        BY <3>2 DEF Fresh
      <4>2. e \in EnvsOf(disk) /\ live'[f] = x
        BY <1>5, <2>2
      <4> QED
        BY <1>2, <2>2, <4>1, <4>2, TunnelsFit DEF TunnelSound
    <3>3. CASE /\ job[r].op # "set_fingerprint" /\ live[e] # Absent
               /\ x.tunnel = live[e].tunnel
      <4>1. ~Pending("set_fingerprint", e) /\ TunnelSound(e) /\ live'[f].tunnel = live[e].tunnel
        BY <1>1, <1>5, <1>8, <2>2, <3>3 DEF TunnelsSound
      <4> QED
        BY <1>2, <2>2, <4>1 DEF TunnelSound
    <3>4. live[e] # Absent => live[e] \in Runtime
      BY <1>1, <1>3 DEF TypeOK
    <3>5. ASSUME live[e] # Absent
          PROVE  /\ [live[e] EXCEPT !.client_auth = disk.envs[e].client_auth].tunnel
                       = live[e].tunnel
                 /\ [live[e] EXCEPT !.policy = disk.envs[e].policy].tunnel = live[e].tunnel
      BY <3>4, <3>5 DEF Runtime
    <3>6. Fresh(e, x) \/ (/\ job[r].op # "set_fingerprint" /\ live[e] # Absent
                          /\ x.tunnel = live[e].tunnel)
      BY <1>2, <1>5, <2>2, <3>1, <3>5 DEF Published
    <3> QED
      BY <3>2, <3>3, <3>6
  <2> QED
    BY <2>1, <2>2
<1>16. TableCurrent'
  <2> SUFFICES ASSUME status = "up", ~advice', NEW f \in EnvNames
               PROVE  EnvCurrent(f)'
    BY <1>2 DEF TableCurrent
  <2>1. EnvCurrent(f)
    BY <1>1, <1>2 DEF TableCurrent
  <2>2. (f \in Served)' <=> f \in Served
    BY <1>2 DEF Served, EnvsOf
  <2>3. CASE f # e
    <3>1. live'[f] = live[f]
      BY <1>5, <2>3
    <3>2. \A op : Pending(op, f) => Pending(op, f)'
      BY <1>9, <2>3
    <3> QED
      BY <1>2, <2>1, <2>2, <3>1, <3>2 DEF EnvCurrent, PasswordOf, EnvsOf
  <2>4. CASE f = e
    <3>1. live'[f] = x
      BY <1>5, <2>4
    <3>2. f \in Served <=> f \in EnvsOf(disk) /\ disk.envs[f].engine # "mssql"
      BY DEF Served
    <3>3. CASE x = Absent
      <4>1. f \notin Served
        <5>1. CASE job[r].op = "rm_env"
          BY <1>1, <1>2, <1>3, <2>4, <3>2, <5>1 DEF TodoCurrent
        <5>2. CASE job[r].op = "set_fingerprint" /\ live[e] = Absent
          BY <1>8, <2>1, <2>4, <5>2 DEF EnvCurrent
        <5>3. live[e] # Absent => live[e] \in Runtime
          BY <1>1, <1>3 DEF TypeOK
        <5>4. live[e] # Absent /\ job[r].op # "rm_env" =>
                /\ [live[e] EXCEPT !.client_auth = disk.envs[e].client_auth] # Absent
                /\ [live[e] EXCEPT !.policy = disk.envs[e].policy] # Absent
          <6>1. job[r].op # "rm_env" => disk.envs[e] \in Env
            BY <1>1, <1>13 DEF TypeOK, Configs, EnvsOf
          <6>2. ASSUME live[e] # Absent, disk.envs[e] \in Env
                PROVE  /\ [live[e] EXCEPT !.client_auth = disk.envs[e].client_auth] \in Runtime
                       /\ [live[e] EXCEPT !.policy = disk.envs[e].policy] \in Runtime
            BY <5>3, <6>2 DEF Runtime, Env
          <6> QED
            BY <6>1, <6>2, NoneAssumption
        <5> QED
          BY <1>2, <3>3, <5>1, <5>2, <5>4 DEF Published
      <4> QED
        BY <1>2, <2>2, <3>1, <3>3, <4>1 DEF EnvCurrent
    <3>4. CASE x # Absent /\ Fresh(e, x) /\ job[r].op # "rm_env"
      <4>1. f \in Served
        BY <1>13, <2>4, <3>2, <3>4 DEF Fresh
      <4> QED
        BY <1>2, <2>2, <2>4, <3>1, <3>4, <4>1 DEF EnvCurrent, Fresh, PasswordOf
    <3>5. CASE /\ job[r].op = "grant" /\ live[e] # Absent
               /\ x = [live[e] EXCEPT !.client_auth = disk.envs[e].client_auth]
      <4>1. live[e] \in Runtime
        BY <1>1, <1>3, <3>5 DEF TypeOK
      <4>2. /\ x.client_auth = disk.envs[e].client_auth /\ x.policy = live[e].policy
            /\ x.password = live[e].password
        BY <3>5, <4>1 DEF Runtime
      <4>3. \A op : op # "grant" => ~Pending(op, e)
        BY <1>8, <3>5
      <4>4. /\ f \in Served /\ live[e].policy = disk.envs[e].policy
            /\ live[e].password = PasswordOf(disk, e)
        BY <1>13, <2>1, <2>4, <3>5, <4>3 DEF EnvCurrent
      <4>5. CASE x # Absent
        BY <1>2, <2>2, <2>4, <3>1, <4>2, <4>4, <4>5 DEF EnvCurrent, PasswordOf
      <4> QED
        BY <3>3, <4>5
    <3>6. CASE /\ job[r].op = "set_policy" /\ live[e] # Absent
               /\ x = [live[e] EXCEPT !.policy = disk.envs[e].policy]
      <4>1. live[e] \in Runtime
        BY <1>1, <1>3, <3>6 DEF TypeOK
      <4>2. /\ x.policy = disk.envs[e].policy /\ x.client_auth = live[e].client_auth
            /\ x.password = live[e].password
        BY <3>6, <4>1 DEF Runtime
      <4>3. \A op : op # "set_policy" => ~Pending(op, e)
        BY <1>8, <3>6
      <4>4. /\ f \in Served /\ live[e].client_auth = disk.envs[e].client_auth
            /\ live[e].password = PasswordOf(disk, e)
        BY <1>13, <2>1, <2>4, <3>6, <4>3 DEF EnvCurrent
      <4>5. CASE x # Absent
        BY <1>2, <2>2, <2>4, <3>1, <4>2, <4>4, <4>5 DEF EnvCurrent, PasswordOf
      <4> QED
        BY <3>3, <4>5
    <3> QED
      BY <1>2, <3>3, <3>4, <3>5, <3>6 DEF Published
  <2> QED
    BY <2>3, <2>4
<1> QED
  BY <1>10, <1>11, <1>14, <1>15, <1>16 DEF TableInv

-----------------------------------------------------------------------------
(* Evicting, starting and stopping *)

\* A step of handler r that touches nothing but its job and the cached sessions:
\* it evicts what it was to evict, and drops no env from its list.
LEMMA TableEvictKeeps ==
    ASSUME IndInv, TableInv, NEW r \in Handlers,
           NEW k \in Job, job' = [job EXCEPT ![r] = k],
           job[r].pc \in {"evict", "reload"}, k.pc \in {"idle", "apply"}, Single(k),
           \/ job[r].pc = "evict"
           \/ job[r].todo = {}
           \/ k.pc = "apply" /\ k.op = job[r].op /\ k.todo = job[r].todo,
           \A b \in BastionNames : slots'[b] = slots[b] \/ slots'[b] = Absent,
           \A b \in BastionNames :
               job[r].bastion = b /\ (job[r].pc = "evict" \/ job[r].op = "set_fingerprint")
                 => slots'[b] = Absent,
           UNCHANGED <<disk, status, live, advice>>
    PROVE  TableInv'
<1>1. /\ TypeOK /\ LockHeld /\ EvictAlone /\ TodoSingle /\ SlotsSound /\ TunnelsSound
      /\ TableCurrent
  BY DEF IndInv, TableInv
<1>2. job'[r] = k /\ \A q \in Handlers \ {r} : job'[q] = job[q]
  BY <1>1 DEF TypeOK
<1>3. \A op, e : Pending(op, e) => Pending(op, e)'
  <2> SUFFICES ASSUME NEW op, NEW e, NEW q \in Handlers, Holding(q), job[q].op = op,
                      e \in job[q].todo
               PROVE  Pending(op, e)'
    BY DEF Pending
  <2>1. Holding(q)' /\ job'[q].op = op /\ e \in job'[q].todo
    BY <1>2 DEF Holding
  <2> QED
    BY <2>1 DEF Pending
<1>4. EvictAlone'
  BY <1>1, <1>2 DEF EvictAlone
<1>5. TodoSingle'
  BY <1>1, <1>2 DEF TodoSingle, Single
<1>6. SlotsSound'
  <2> SUFFICES ASSUME NEW b \in BastionNames, slots'[b] # Absent
               PROVE  \/ Evicting(b)'
                      \/ /\ disk.bastions[b] # Absent /\ slots'[b].host = disk.bastions[b].host
                         /\ check_server_key(disk.bastions[b], slots'[b].key) \/ Repinning(b)'
    BY DEF SlotsSound
  <2>1. slots'[b] = slots[b]
    OBVIOUS
  <2>2. Evicting(b) => Evicting(b)'
    BY <1>2, <2>1 DEF Evicting
  <2>3. Repinning(b) => Repinning(b)'
    BY <1>2, <2>1 DEF Repinning
  <2> QED
    BY <1>1, <2>1, <2>2, <2>3 DEF SlotsSound
<1>7. TunnelsSound'
  BY <1>1, <1>3 DEF TunnelsSound, TunnelSound, EnvsOf
<1>8. TableCurrent'
  <2> SUFFICES ASSUME status = "up", ~advice, NEW e \in EnvNames
               PROVE  EnvCurrent(e)'
    BY DEF TableCurrent
  <2>1. EnvCurrent(e)
    BY <1>1 DEF TableCurrent
  <2> QED
    BY <1>3, <2>1 DEF EnvCurrent, Served, EnvsOf, PasswordOf
<1> QED
  BY <1>4, <1>5, <1>6, <1>7, <1>8 DEF TableInv

\* The handlers' own steps keep the table's invariant, as long as the sealed
\* config can be read back after a save.
LEMMA FinishTableKeeps ==
    ASSUME ~StoreFaults, IndInv, TableInv, NEW r \in Handlers, Finish(r)
    PROVE  TableInv'
<1>1. TypeOK /\ TodoSingle /\ job[r] \in Job
  BY DEF IndInv, TableInv, TypeOK
<1>2. IdleJob \in Job /\ IdleJob.pc = "idle" /\ Single(IdleJob)
  BY DEF IdleJob, Job, AllOps, Single
<1>3. CASE RmBastionEvict(r)
  <2>1. /\ job[r].pc = "evict" /\ job' = [job EXCEPT ![r] = IdleJob]
        /\ slots' = [slots EXCEPT ![job[r].bastion] = Absent]
        /\ UNCHANGED <<disk, status, live, advice>>
    BY <1>3 DEF RmBastionEvict, historyVars
  <2>2. /\ \A b \in BastionNames : slots'[b] = slots[b] \/ slots'[b] = Absent
        /\ \A b \in BastionNames : job[r].bastion = b => slots'[b] = Absent
    BY <1>1, <2>1 DEF TypeOK
  <2> QED
    BY <1>2, <2>1, <2>2, TableEvictKeeps
<1>4. CASE Reload(r)
  <2>1. /\ job[r].pc = "reload" /\ EvictOnRepin(r) /\ Continue(r, job[r].todo)
        /\ UNCHANGED <<disk, status, live, advice>>
    BY <1>4 DEF Reload, historyVars
  <2>2. /\ \A b \in BastionNames : slots'[b] = slots[b] \/ slots'[b] = Absent
        /\ \A b \in BastionNames :
              job[r].bastion = b /\ job[r].op = "set_fingerprint" => slots'[b] = Absent
    BY <1>1, <2>1 DEF EvictOnRepin, TypeOK
  <2>3. CASE job[r].todo = {} /\ job' = [job EXCEPT ![r] = IdleJob]
    BY <1>2, <2>1, <2>2, <2>3, TableEvictKeeps
  <2>4. CASE job' = [job EXCEPT ![r].pc = "apply", ![r].todo = job[r].todo]
    <3> DEFINE k == [job[r] EXCEPT !.pc = "apply"]
    <3>1. k \in Job /\ k.pc = "apply" /\ k.op = job[r].op /\ k.todo = job[r].todo
      BY <1>1 DEF Job
    <3>2. job' = [job EXCEPT ![r] = k]
      BY <1>1, <2>4 DEF TypeOK, Job
    <3> HIDE DEF k
    <3>3. Single(k)
      BY <1>1, <3>1 DEF TodoSingle, Single
    <3> QED
      BY <2>1, <2>2, <3>1, <3>2, <3>3, TableEvictKeeps
  <2> QED
    BY <2>1, <2>3, <2>4 DEF Continue, Reply
<1>5. CASE ApplyStep(r)
  BY <1>5, ApplyTable, TableApplyKeeps
<1>6. ~ReloadFails(r)
  BY DEF ReloadFails
<1> QED
  BY <1>3, <1>4, <1>5, <1>6 DEF Finish

\* bind builds every served env from the sealed config.
LEMMA StartTableKeeps ==
    ASSUME IndInv, TableInv, Start
    PROVE  TableInv'
<1>1. /\ TypeOK /\ DownIsEmpty /\ validate(disk) /\ TodoSingle
  BY DEF IndInv, TableInv
<1>2. PICK opened \in [BastionNames -> Session \union {Absent}] :
          /\ \A b \in BastionNames :
                IF b \in BastionsInUse THEN opened[b] \in Open(disk.bastions[b])
                                       ELSE opened[b] = Absent
          /\ slots' = opened
          /\ live' = [e \in EnvNames |->
                IF e \notin Served THEN Absent
                ELSE [build_env_runtime(disk.envs[e],
                        IF disk.envs[e].bastion = Absent THEN Absent
                        ELSE opened[disk.envs[e].bastion])
                      EXCEPT !.idle = IF IdleOverride THEN "overridden" ELSE "configured"]]
  BY DEF Start
<1>3. status # "up" /\ UNCHANGED <<disk, job>>
  BY DEF Start
<1>4. \A r \in Handlers : job[r].pc = "idle"
  BY <1>1, <1>3 DEF DownIsEmpty
<1>5. \A e \in EnvsOf(disk) : disk.envs[e].bastion # Absent =>
          disk.envs[e].bastion \in BastionNames /\ disk.bastions[disk.envs[e].bastion] # Absent
  BY <1>1 DEF validate, RefsResolve, TypeOK, Configs, Env, EnvsOf
<1>6. ASSUME NEW b \in BastionNames, b \in BastionsInUse
      PROVE  /\ disk.bastions[b] # Absent /\ opened[b] # Absent
             /\ opened[b].host = disk.bastions[b].host
             /\ check_server_key(disk.bastions[b], opened[b].key)
  <2>1. opened[b] \in Open(disk.bastions[b])
    BY <1>2, <1>6
  <2>2. disk.bastions[b] # Absent
    BY <1>5, <1>6 DEF BastionsInUse, Served
  <2> QED
    BY <2>1, <2>2, NoneAssumption DEF Open
<1>7. ASSUME NEW e \in Served
      PROVE  /\ live'[e] # Absent
             /\ live'[e].policy = disk.envs[e].policy
             /\ live'[e].client_auth = disk.envs[e].client_auth
             /\ live'[e].password = PasswordOf(disk, e)
             /\ live'[e].tunnel = IF disk.envs[e].bastion = Absent THEN Absent
                                  ELSE opened[disk.envs[e].bastion]
  <2> DEFINE env == disk.envs[e]
             t == IF env.bastion = Absent THEN Absent ELSE opened[env.bastion]
             rt == build_env_runtime(env, t)
             i == IF IdleOverride THEN "overridden" ELSE "configured"
  <2>1. e \in EnvNames /\ e \in EnvsOf(disk) /\ env \in Env
    BY <1>1 DEF Served, EnvsOf, TypeOK, Configs
  <2>2. t \in Session \union {Absent} /\ i \in {"configured", "overridden"}
    BY <1>2, <1>5, <2>1
  <2>3. disk.credentials[env.credential] \in Credential
    BY <1>1, <2>1 DEF validate, RefsResolve, TypeOK, Configs, Env
  <2>4. live'[e] = [rt EXCEPT !.idle = i]
    BY <1>2, <2>1, <1>7
  <2> HIDE DEF t, i
  <2>5. rt \in Runtime
    BY <2>1, <2>2, <2>3 DEF build_env_runtime, Runtime, Env, Credential
  <2>6. /\ rt.policy = env.policy /\ rt.client_auth = env.client_auth
        /\ rt.password = PasswordOf(disk, e) /\ rt.tunnel = t
    BY DEF build_env_runtime, PasswordOf
  <2> HIDE DEF rt, env
  <2>7. /\ live'[e] \in Runtime
        /\ live'[e].policy = rt.policy /\ live'[e].client_auth = rt.client_auth
        /\ live'[e].password = rt.password /\ live'[e].tunnel = rt.tunnel
    BY <2>2, <2>4, <2>5 DEF Runtime
  <2> QED
    BY <2>6, <2>7, NoneAssumption DEF env, t
<1>8. \A e \in EnvNames : e \notin Served => live'[e] = Absent
  BY <1>2
<1>9. EvictAlone' /\ TodoSingle'
  BY <1>1, <1>3, <1>4 DEF EvictAlone, TodoSingle, Single
<1>10. SlotsSound'
  BY <1>2, <1>3, <1>6 DEF SlotsSound
<1>11. TunnelsSound'
  <2> SUFFICES ASSUME NEW e \in EnvsOf(disk), live'[e] # Absent
               PROVE  TunnelSound(e)'
    BY <1>3 DEF TunnelsSound, EnvsOf
  <2>1. e \in Served
    BY <1>8 DEF EnvsOf
  <2>2. CASE disk.envs[e].bastion = Absent
    BY <1>3, <1>7, <2>1, <2>2 DEF TunnelSound
  <2>3. CASE disk.envs[e].bastion # Absent
    <3>1. disk.envs[e].bastion \in BastionNames /\ disk.envs[e].bastion \in BastionsInUse
      BY <1>5, <2>1, <2>3 DEF BastionsInUse
    <3> QED
      BY <1>3, <1>6, <1>7, <2>1, <2>3, <3>1 DEF TunnelSound
  <2> QED
    BY <2>2, <2>3
<1>12. TableCurrent'
  <2> SUFFICES ASSUME NEW e \in EnvNames PROVE EnvCurrent(e)'
    BY DEF TableCurrent
  <2>1. (e \in Served)' <=> e \in Served
    BY <1>3 DEF Served, EnvsOf
  <2> QED
    BY <1>3, <1>7, <1>8, <2>1 DEF EnvCurrent, PasswordOf, EnvsOf
<1> QED
  BY <1>9, <1>10, <1>11, <1>12 DEF TableInv

\* Nothing is left in the table, the registry or the handlers after a stop.
LEMMA StopTableKeeps ==
    ASSUME IndInv, TableInv, Stop
    PROVE  TableInv'
<1>1. \A r \in Handlers : job'[r].pc = "idle" /\ job'[r].todo = {}
  BY DEF Stop, IdleJob
<1>2. /\ status' = "down" /\ \A e \in EnvNames : live'[e] = Absent
      /\ \A b \in BastionNames : slots'[b] = Absent
  BY DEF Stop
<1> QED
  BY <1>1, <1>2 DEF TableInv, EvictAlone, TodoSingle, Single, SlotsSound, TunnelsSound,
                    TableCurrent, EnvsOf

\* A step that leaves the table, the registry, the handlers and the config alone.
LEMMA IdleTableKeeps ==
    ASSUME TableInv, UNCHANGED <<disk, job, live, slots, advice>>,
           status' = status \/ status' # "up"
    PROVE  TableInv'
<1>1. EvictAlone /\ TodoSingle /\ SlotsSound /\ TunnelsSound /\ TableCurrent
  BY DEF TableInv
<1>2. EvictAlone' /\ TodoSingle'
  BY <1>1 DEF EvictAlone, TodoSingle, Single
<1>3. /\ \A op, e : Pending(op, e)' <=> Pending(op, e)
      /\ \A b : (Evicting(b)' <=> Evicting(b)) /\ (Repinning(b)' <=> Repinning(b))
  BY DEF Pending, Evicting, Repinning, Holding
<1>4. SlotsSound'
  BY <1>1, <1>3 DEF SlotsSound
<1>5. TunnelsSound'
  BY <1>1, <1>3 DEF TunnelsSound, TunnelSound, EnvsOf
<1>6. TableCurrent'
  BY <1>1, <1>3 DEF TableCurrent, EnvCurrent, Served, EnvsOf, PasswordOf
<1> QED
  BY <1>2, <1>4, <1>5, <1>6 DEF TableInv

-----------------------------------------------------------------------------
(* Theorems *)

\* The table's invariant holds of a daemon that was never started.
LEMMA InitTableInv == Init => TableInv
<1> SUFFICES ASSUME Init PROVE TableInv
  OBVIOUS
<1>1. \A r \in Handlers : job[r].pc = "idle" /\ job[r].todo = {}
  BY DEF Init, IdleJob
<1>2. /\ status = "down" /\ \A e \in EnvNames : live[e] = Absent
      /\ \A b \in BastionNames : slots[b] = Absent
  BY DEF Init
<1> QED
  BY <1>1, <1>2 DEF TableInv, EvictAlone, TodoSingle, Single, SlotsSound, TunnelsSound,
                    TableCurrent, EnvsOf

\* Both invariants together are inductive.
LEMMA NextTableKeeps ==
    ASSUME NoEvictRace, ~StoreFaults
    PROVE  IndInv /\ TableInv /\ [Next]_vars => (IndInv /\ TableInv)'
<1> SUFFICES ASSUME IndInv, TableInv, [Next]_vars PROVE (IndInv /\ TableInv)'
  OBVIOUS
<1>1. IndInv'
  BY NextKeeps
<1>2. ASSUME NEW r \in Handlers, Submit(r) PROVE TableInv'
  <2>1. TypeOK' /\ validate(disk')
    BY <1>1 DEF IndInv
  <2> QED
    BY <1>2, <2>1, SubmitTable, TableSubmitKeeps
<1>3. ASSUME NEW r \in Handlers, Finish(r) PROVE TableInv'
  BY <1>3, FinishTableKeeps
<1>4. ASSUME Start \/ Stop PROVE TableInv'
  BY <1>4, StartTableKeeps, StopTableKeeps
<1>5. ASSUME StartFails PROVE TableInv'
  <2>1. status' # "up" /\ UNCHANGED <<disk, job, live, slots, advice>>
    BY <1>5 DEF StartFails, historyVars
  <2> QED
    BY <2>1, IdleTableKeeps
<1>6. ASSUME NEW c \in Conns,
             Authenticate(c) \/ Close(c) \/ \E e \in EnvNames : Accept(c, e)
      PROVE  TableInv'
  <2>1. status' = status /\ UNCHANGED <<disk, job, live, slots, advice>>
    BY <1>6 DEF Authenticate, Close, Accept, daemonVars, clientVars, historyVars
  <2> QED
    BY <2>1, IdleTableKeeps
<1>7. ASSUME UNCHANGED vars PROVE TableInv'
  <2>1. status' = status /\ UNCHANGED <<disk, job, live, slots, advice>>
    BY <1>7 DEF vars, daemonVars, clientVars, historyVars
  <2> QED
    BY <2>1, IdleTableKeeps
<1>9. ASSUME NEW e \in EnvNames, LoopStops(e) PROVE TableInv'
  <2>1. UNCHANGED <<disk, status, config_write, job, live, slots, reported, advice>>
    BY <1>9 DEF LoopStops, daemonVars, historyVars
  <2> QED
    BY <2>1, IdleTableKeeps
<1>8. TableInv'
  BY <1>2, <1>3, <1>4, <1>5, <1>6, <1>7, <1>9 DEF Next
<1> QED
  BY <1>1, <1>8

\* Between requests no handler has anything left to do.
LEMMA QuiescentNothingPending ==
    ASSUME IndInv, Quiescent
    PROVE  \A op, e : ~Pending(op, e)
  BY NoneAssumption DEF IndInv, LockHeld, Quiescent, Pending

\* Re-pinning fails closed for any number of envs, bastions, keys and handlers:
\* between requests no env is served over a tunnel whose host key the current
\* pins refuse.  It takes that the sealed config can be read back after a save,
\* and that no removal of a bastion runs beside another request.
THEOREM RepinningFailsClosed ==
    ASSUME NoEvictRace, ~StoreFaults
    PROVE  Spec => []RepinFailsClosed
<1>1. IndInv /\ TableInv => RepinFailsClosed
  <2> SUFFICES ASSUME IndInv, TableInv, Quiescent, NEW e \in EnvNames,
                      live[e] # Absent, live[e].tunnel # Absent
               PROVE  check_server_key(disk.bastions[disk.envs[e].bastion], live[e].tunnel.key)
    BY DEF RepinFailsClosed
  <2>1. \A op, f : ~Pending(op, f)
    BY QuiescentNothingPending
  <2>2. e \in EnvsOf(disk)
    BY <2>1 DEF IndInv, LiveKnown, Pending
  <2>3. TunnelSound(e)
    BY <2>2 DEF TableInv, TunnelsSound
  <2> QED
    BY <2>1, <2>3 DEF TunnelSound
<1> QED
  BY <1>1, InitIndInv, InitTableInv, NextTableKeeps, PTL DEF Spec

\* Disk and memory agree for any number of envs and handlers: between requests,
\* until a reply advises a restart, the table is what bind would build from the
\* sealed config, whatever requests came before.
THEOREM TableMatchesConfig ==
    ASSUME NoEvictRace, ~StoreFaults
    PROVE  Spec => []LiveMatchesConfig
<1>1. IndInv /\ TableInv => LiveMatchesConfig
  <2> SUFFICES ASSUME IndInv, TableInv, Quiescent, ~advice, NEW e \in EnvNames
               PROVE  Applied(e)
    BY DEF LiveMatchesConfig
  <2>1. \A op, f : ~Pending(op, f)
    BY QuiescentNothingPending
  <2>2. EnvCurrent(e)
    BY DEF TableInv, TableCurrent, Quiescent
  <2>3. CASE e \notin Served
    BY <2>1, <2>2, <2>3 DEF Applied, EnvCurrent
  <2>4. CASE e \in Served
    <3>1. e \in EnvsOf(disk) /\ live[e] # Absent
      BY <2>1, <2>2, <2>4 DEF EnvCurrent, Served
    <3>2. TunnelSound(e)
      BY <3>1 DEF TableInv, TunnelsSound
    <3> QED
      BY <2>1, <2>2, <2>4, <3>1, <3>2 DEF Applied, EnvCurrent, TunnelSound, PasswordOf
  <2> QED
    BY <2>3, <2>4
<1> QED
  BY <1>1, InitIndInv, InitTableInv, NextTableKeeps, PTL DEF Spec
=============================================================================
