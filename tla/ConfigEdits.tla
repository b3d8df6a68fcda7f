---------------------------- MODULE ConfigEdits ----------------------------
(***************************************************************************)
(* Every sequence of configuration edits, as mwsqlctl's direct mode and    *)
(* the daemon's handlers apply them, with the validation that save_config  *)
(* runs before it writes left OUT for all edits but import.  What the      *)
(* module asks is whether the transforms of mutate.rs keep a valid         *)
(* configuration valid by themselves.                                      *)
(***************************************************************************)
EXTENDS Config

CONSTANTS
    Fragments,  \* configurations an import may bring (not necessarily valid)
    MaxToken    \* bound on the number of tokens minted

ASSUME EditsAssumption ==
    /\ Fragments \subseteq Configs
    /\ MaxToken \in Nat

VARIABLES
    cfg,     \* the configuration
    minted   \* the number of client tokens minted so far

vars == <<cfg, minted>>

TypeOK == cfg \in Configs /\ minted \in 0..MaxToken

Init == cfg = DefaultConfig /\ minted = 0

AddBastion(b, h, pins) ==
    /\ add_bastion_ok(cfg, b)
    /\ cfg' = add_bastion(cfg, b, h, pins)
    /\ UNCHANGED minted

SetFingerprint(b, k) ==
    /\ set_fingerprint_ok(cfg, b)
    /\ cfg' = set_fingerprint(cfg, b, k)
    /\ UNCHANGED minted

RmBastion(b) ==
    /\ rm_bastion_ok(cfg, b)
    /\ cfg' = rm_bastion(cfg, b)
    /\ UNCHANGED minted

AddCred(c, pw) ==
    /\ add_cred_ok(cfg, c)
    /\ cfg' = add_cred(cfg, c, pw)
    /\ UNCHANGED minted

RotateCred(c, pw) ==
    /\ rotate_cred_ok(cfg, c)
    /\ cfg' = rotate_cred(cfg, c, pw)
    /\ UNCHANGED minted

RmCred(c) ==
    /\ rm_cred_ok(cfg, c)
    /\ cfg' = rm_cred(cfg, c)
    /\ UNCHANGED minted

AddEnv(e, b, c, policy, engine, asked) ==
    /\ add_env_ok(cfg, e, b, c, engine)
    /\ minted < MaxToken
    /\ minted' = minted + 1
    /\ \E p \in ListenPorts :
          /\ PortFor(cfg, asked, p)
          /\ cfg' = add_env(cfg, e, b, c, policy, engine, p, minted')

RmEnv(e) ==
    /\ rm_env_ok(cfg, e)
    /\ cfg' = rm_env(cfg, e)
    /\ UNCHANGED minted

Grant(e) ==
    /\ grant_env_ok(cfg, e)
    /\ minted < MaxToken
    /\ minted' = minted + 1
    /\ cfg' = grant_env(cfg, e, minted')

SetPolicy(e, policy) ==
    /\ set_policy_ok(cfg, e)
    /\ cfg' = set_policy(cfg, e, policy)
    /\ UNCHANGED minted

\* The only edit that relies on save_config's validation: the fragment comes
\* from outside and may be inconsistent in itself.
Import(f) ==
    /\ merge_import_ok(cfg, f)
    /\ validate(merge_import(cfg, f))
    /\ cfg' = merge_import(cfg, f)
    /\ UNCHANGED minted

Next ==
    \/ \E b \in BastionNames :
          \/ \E h \in Hosts, pins \in SUBSET Keys : AddBastion(b, h, pins)
          \/ \E k \in Keys : SetFingerprint(b, k)
          \/ RmBastion(b)
    \/ \E c \in CredNames :
          \/ \E pw \in Passwords : AddCred(c, pw) \/ RotateCred(c, pw)
          \/ RmCred(c)
    \/ \E e \in EnvNames :
          \/ \E b \in BastionNames \union {Absent}, c \in CredNames,
                policy \in Policies, engine \in Engines,
                asked \in ListenPorts \union {Absent} :
                AddEnv(e, b, c, policy, engine, asked)
          \/ RmEnv(e)
          \/ Grant(e)
          \/ \E policy \in Policies : SetPolicy(e, policy)
    \/ \E f \in Fragments : Import(f)

Spec == Init /\ [][Next]_vars

-----------------------------------------------------------------------------
(* Properties *)

\* No sequence of edits produces a configuration that Config::validate would
\* refuse: references always resolve, ports stay unique and every env keeps the
\* auth kind of its engine.  So save_config never rejects the result of a
\* transform (import aside) and load_config never refuses a saved one.
ConfigValid == validate(cfg)

=============================================================================
