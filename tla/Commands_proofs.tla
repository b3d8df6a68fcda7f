--------------------------- MODULE Commands_proofs ---------------------------
(***************************************************************************)
(* What mwsqlctl's commands with several calls promise their operator, for *)
(* any names, ports, fragments and number of tokens.                       *)
(*                                                                         *)
(* The argument follows the tokens.  Every token that is configured was    *)
(* minted here or came with an import, and the one a wizard still holds is *)
(* on no env but the one it just added (TokensInv): so when the wizard     *)
(* removes that env it may forget the token, whatever others edited in     *)
(* between.                                                                *)
(***************************************************************************)
EXTENDS Commands, Config_proofs, SequenceTheorems

-----------------------------------------------------------------------------
(***************************************************************************)
(* For any set of names, ports and fragments: every sequence of edits      *)
(* keeps the configuration well-typed and valid.  The two facts go         *)
(* together: a transform keeps a configuration valid only if it was valid, *)
(* and the lemmas on validity read the fields of a well-typed one.         *)
(***************************************************************************)

\* What an edit leaves behind.
Kept == cfg' \in Configs /\ validate(cfg') /\ minted' \in 0..MaxToken

\* One step of any edit keeps TypeOK and ConfigValid.
LEMMA EditKeepsConfig ==
    ASSUME TypeOK, ConfigValid, Next
    PROVE  Kept
<1> USE DEF TypeOK, ConfigValid
<1>1. ASSUME NEW b \in BastionNames, NEW h \in Hosts, NEW pins \in SUBSET Keys,
             AddBastion(b, h, pins)
      PROVE  Kept
  <2>1. [host |-> h, pinned |-> pins] \in Bastion
    BY DEF Bastion
  <2> QED
    BY <1>1, <2>1, add_bastion_type, bastion_set_valid DEF AddBastion, add_bastion, Kept
<1>2. ASSUME NEW b \in BastionNames, NEW k \in Keys, SetFingerprint(b, k)
      PROVE  Kept
  <2>1. [host |-> cfg.bastions[b].host, pinned |-> {k}] \in Bastion
    BY <1>2 DEF SetFingerprint, set_fingerprint_ok, Configs, Bastion
  <2>2. set_fingerprint(cfg, b, k) \in Configs
    BY <1>2, set_fingerprint_type DEF SetFingerprint
  <2>3. validate(set_fingerprint(cfg, b, k))
    BY <2>1, bastion_set_valid DEF set_fingerprint
  <2> QED
    BY <1>2, <2>2, <2>3 DEF SetFingerprint, Kept
<1>3. ASSUME NEW b \in BastionNames, RmBastion(b)
      PROVE  Kept
  BY <1>3, rm_bastion_type, rm_bastion_valid DEF RmBastion, Kept
<1>4. ASSUME NEW c \in CredNames, NEW pw \in Passwords, AddCred(c, pw)
      PROVE  Kept
  <2>1. [password |-> pw] \in Credential
    BY DEF Credential
  <2> QED
    BY <1>4, <2>1, add_cred_type, cred_set_valid DEF AddCred, add_cred, Kept
<1>5. ASSUME NEW c \in CredNames, NEW pw \in Passwords, RotateCred(c, pw)
      PROVE  Kept
  <2>1. [password |-> pw] \in Credential
    BY DEF Credential
  <2> QED
    BY <1>5, <2>1, rotate_cred_type, cred_set_valid DEF RotateCred, rotate_cred, Kept
<1>6. ASSUME NEW c \in CredNames, RmCred(c)
      PROVE  Kept
  BY <1>6, rm_cred_type, rm_cred_valid DEF RmCred, Kept
<1>7. ASSUME NEW e \in EnvNames, NEW b \in BastionNames \union {Absent}, NEW c \in CredNames,
             NEW policy \in Policies, NEW engine \in Engines,
             NEW asked \in ListenPorts \union {Absent},
             AddEnv(e, b, c, policy, engine, asked)
      PROVE  Kept
  <2>1. PICK p \in ListenPorts :
              /\ PortFor(cfg, asked, p)
              /\ cfg' = add_env(cfg, e, b, c, policy, engine, p, minted')
    BY <1>7 DEF AddEnv
  <2>2. minted' \in 0..MaxToken /\ minted' \in Nat
    BY <1>7, EditsAssumption DEF AddEnv
  <2>3. p \notin UsedPorts(cfg)
    BY <2>1, PortForFree
  <2>4. add_env_ok(cfg, e, b, c, engine)
    BY <1>7 DEF AddEnv
  <2> QED
    BY <2>1, <2>2, <2>3, <2>4, add_env_type, add_env_valid DEF Kept
<1>8. ASSUME NEW e \in EnvNames, RmEnv(e)
      PROVE  Kept
  BY <1>8, rm_env_type, rm_env_valid DEF RmEnv, Kept
<1>9. ASSUME NEW e \in EnvNames, Grant(e)
      PROVE  Kept
  <2>1. minted' \in 0..MaxToken /\ minted' \in Nat
    BY <1>9, EditsAssumption DEF Grant
  <2> QED
    BY <1>9, <2>1, grant_env_type, grant_env_valid DEF Grant, Kept
<1>10. ASSUME NEW e \in EnvNames, NEW policy \in Policies, SetPolicy(e, policy)
       PROVE  Kept
  BY <1>10, set_policy_type, set_policy_valid DEF SetPolicy, Kept
<1>11. ASSUME NEW f \in Fragments, Import(f)
       PROVE  Kept
  BY <1>11, merge_import_type, EditsAssumption DEF Import, Kept
<1> QED
  BY <1>1, <1>2, <1>3, <1>4, <1>5, <1>6, <1>7, <1>8, <1>9, <1>10, <1>11 DEF Next

\* Every sequence of edits of mutate.rs keeps the configuration well-typed and
\* acceptable to Config::validate.
THEOREM EditsAlwaysValid == Spec => [](TypeOK /\ ConfigValid)
<1>1. Init => TypeOK /\ ConfigValid
  BY DefaultConfigOK, EditsAssumption DEF Init, TypeOK, ConfigValid
<1>2. TypeOK /\ ConfigValid /\ [Next]_vars => (TypeOK /\ ConfigValid)'
  BY EditKeepsConfig DEF Kept, TypeOK, ConfigValid, vars
<1> QED
  BY <1>1, <1>2, PTL DEF Spec

-----------------------------------------------------------------------------
(* The commands *)

Token(c, e) == c.envs[e].client_auth.token

\* c is the configuration, m the number of tokens minted, o the command under
\* way, sh and lo the tokens shown and lost.
TokensInv(c, m, o, sh, lo) ==
    /\ m \in Nat /\ o.token \in Nat /\ o.token <= m
    /\ o.mine \subseteq 1..m /\ sh \subseteq 1..m /\ lo \subseteq 1..m
    /\ o.token # 0 <=> o.at \in {"validate", "menu"}
    /\ o.token # 0 => o.env \in EnvNames
    /\ \A e \in EnvsOf(c) :
          /\ Token(c, e) \in Nat /\ Token(c, e) <= m
          /\ Token(c, e) \in {0, o.token} \union sh \union lo
          /\ Token(c, e) = o.token /\ o.token # 0 => e = o.env
          /\ Token(c, e) \in o.mine \ lo => o.changed \/ Token(c, e) = o.token

CommandsInv ==
    /\ CommandsTypeOK
    /\ ConfigValid
    /\ TokensInv(cfg, minted, op, shown, lost)
    /\ VerdictIsTrue

\* What an edit does to the tokens: it mints at most one, and every env has
\* the token it had, the new one, or one that was imported.
TokensMove(c, m, d, n) ==
    /\ n = m \/ n = m + 1
    /\ \A e \in EnvsOf(d) : \/ Token(d, e) = 0
                            \/ e \in EnvsOf(c) /\ Token(d, e) = Token(c, e)
                            \/ n = m + 1 /\ Token(d, e) = n

-----------------------------------------------------------------------------
(* The tokens of an edit *)

\* An edit that leaves the envs alone moves no token.
LEMMA EnvsKeptMove ==
    ASSUME cfg'.envs = cfg.envs, minted' = minted
    PROVE  TokensMove(cfg, minted, cfg', minted')
  BY DEF TokensMove, EnvsOf, Token

\* Adding an env mints one token, for that env alone.
LEMMA AddEnvTokens ==
    ASSUME TypeOK, NEW e \in EnvNames, NEW b \in BastionNames \union {Absent}, NEW c \in CredNames,
           NEW policy \in Policies, NEW engine \in Engines,
           NEW asked \in ListenPorts \union {Absent},
           AddEnv(e, b, c, policy, engine, asked)
    PROVE  /\ minted' = minted + 1 /\ minted' \in 1..MaxToken
           /\ Token(cfg', e) = minted'
           /\ EnvsOf(cfg') = EnvsOf(cfg) \union {e} /\ e \notin EnvsOf(cfg)
           /\ \A f \in EnvsOf(cfg) : Token(cfg', f) = Token(cfg, f)
<1>1. PICK p \in ListenPorts : cfg' = add_env(cfg, e, b, c, policy, engine, p, minted')
  BY DEF AddEnv
<1>2. minted' = minted + 1 /\ minted' \in 1..MaxToken /\ minted' \in Nat
  BY EditsAssumption DEF AddEnv, TypeOK
<1>3. /\ EnvsOf(cfg') = EnvsOf(cfg) \union {e}
      /\ cfg'.envs[e].client_auth.token = minted'
      /\ \A f \in EnvNames \ {e} : cfg'.envs[f] = cfg.envs[f]
  BY <1>1, <1>2, add_env_envs DEF TypeOK
<1>4. e \notin EnvsOf(cfg)
  BY DEF AddEnv, add_env_ok, EnvsOf
<1> QED
  BY <1>2, <1>3, <1>4 DEF Token, EnvsOf

\* What any edit does to the tokens.
LEMMA EditTokens ==
    ASSUME TypeOK, Next
    PROVE  TokensMove(cfg, minted, cfg', minted')
<1>1. ASSUME NEW b \in BastionNames,
             \/ \E h \in Hosts, pins \in SUBSET Keys : AddBastion(b, h, pins)
             \/ \E k \in Keys : SetFingerprint(b, k)
             \/ RmBastion(b)
      PROVE  cfg'.envs = cfg.envs /\ minted' = minted
  BY <1>1 DEF AddBastion, SetFingerprint, RmBastion, add_bastion, set_fingerprint, rm_bastion,
              TypeOK, Configs
<1>2. ASSUME NEW c \in CredNames,
             \/ \E pw \in Passwords : AddCred(c, pw) \/ RotateCred(c, pw)
             \/ RmCred(c)
      PROVE  cfg'.envs = cfg.envs /\ minted' = minted
  BY <1>2 DEF AddCred, RotateCred, RmCred, add_cred, rotate_cred, rm_cred, TypeOK, Configs
<1>3. ASSUME NEW e \in EnvNames, NEW b \in BastionNames \union {Absent}, NEW c \in CredNames,
             NEW policy \in Policies, NEW engine \in Engines,
             NEW asked \in ListenPorts \union {Absent},
             AddEnv(e, b, c, policy, engine, asked)
      PROVE  TokensMove(cfg, minted, cfg', minted')
  BY <1>3, AddEnvTokens DEF TokensMove
<1>4. ASSUME NEW e \in EnvNames, RmEnv(e)
      PROVE  TokensMove(cfg, minted, cfg', minted')
  BY <1>4, rm_env_envs DEF RmEnv, TokensMove, Token, TypeOK, EnvsOf
<1>5. ASSUME NEW e \in EnvNames, Grant(e)
      PROVE  TokensMove(cfg, minted, cfg', minted')
  <2>1. minted' = minted + 1 /\ minted' \in Nat
    BY <1>5, EditsAssumption DEF Grant, TypeOK
  <2>2. /\ EnvsOf(cfg') = EnvsOf(cfg)
        /\ cfg'.envs[e].client_auth.token = minted'
        /\ \A f \in EnvNames \ {e} : cfg'.envs[f] = cfg.envs[f]
    BY <1>5, <2>1, grant_env_envs DEF Grant, TypeOK
  <2> QED
    BY <2>1, <2>2 DEF TokensMove, Token, EnvsOf
<1>6. ASSUME NEW e \in EnvNames, NEW policy \in Policies, SetPolicy(e, policy)
      PROVE  TokensMove(cfg, minted, cfg', minted')
  BY <1>6, set_policy_envs DEF SetPolicy, TokensMove, Token, TypeOK
<1>7. ASSUME NEW f \in Fragments, Import(f)
      PROVE  TokensMove(cfg, minted, cfg', minted')
  <2>1. /\ EnvsOf(cfg') = EnvsOf(cfg) \union EnvsOf(f)
        /\ \A e \in EnvsOf(f) : cfg'.envs[e] = f.envs[e]
        /\ \A e \in EnvsOf(cfg) : cfg'.envs[e] = cfg.envs[e]
        /\ minted' = minted
    BY <1>7, EditsAssumption, merge_import_envs DEF Import, TypeOK
  <2> QED
    BY <2>1, ImportsAssumption DEF TokensMove, Token
<1> QED
  BY <1>1, <1>2, <1>3, <1>4, <1>5, <1>6, <1>7, EnvsKeptMove DEF Next

-----------------------------------------------------------------------------
(* The tokens and the command under way *)

\* Any edit, whoever makes it, whose new token is shown or lost.
LEMMA EditRow ==
    ASSUME NEW c, NEW m, NEW o, NEW sh, NEW lo, TokensInv(c, m, o, sh, lo),
           NEW d, NEW n, TokensMove(c, m, d, n),
           NEW sk, sh \subseteq sk, sk \subseteq sh \union ({n} \ {m}),
           NEW lk, lo \subseteq lk, lk \subseteq lo \union ({n} \ {m}),
           n # m => n \in sk \union lk
    PROVE  TokensInv(d, n, o, sk, lk)
<1>1. /\ m \in Nat /\ n \in Nat /\ m <= n
      /\ o.token \in Nat /\ o.token <= m /\ o.mine \subseteq 1..m
      /\ sh \subseteq 1..m /\ lo \subseteq 1..m
  BY DEF TokensInv, TokensMove
<1>2. /\ o.token <= n /\ o.mine \subseteq 1..n /\ sk \subseteq 1..n /\ lk \subseteq 1..n
  BY <1>1 DEF TokensMove
<1>3. ASSUME NEW e \in EnvsOf(d)
      PROVE  /\ Token(d, e) \in Nat /\ Token(d, e) <= n
             /\ Token(d, e) \in {0, o.token} \union sk \union lk
             /\ Token(d, e) = o.token /\ o.token # 0 => e = o.env
             /\ Token(d, e) \in o.mine \ lk => o.changed \/ Token(d, e) = o.token
  <2>1. CASE Token(d, e) = 0
    BY <1>1, <2>1
  <2>2. CASE e \in EnvsOf(c) /\ Token(d, e) = Token(c, e)
    BY <1>1, <2>2 DEF TokensInv
  <2>3. CASE n = m + 1 /\ Token(d, e) = n
    BY <1>1, <2>3
  <2> QED
    BY <2>1, <2>2, <2>3 DEF TokensMove
<1> QED
  BY <1>1, <1>2, <1>3 DEF TokensInv

\* The command goes on without a token to show.
LEMMA SettleRow ==
    ASSUME NEW c, NEW m, NEW o, NEW sh, NEW lo, TokensInv(c, m, o, sh, lo),
           NEW p, p.token = 0, p.at \notin {"validate", "menu"},
           NEW sk, sh \subseteq sk, sk \subseteq sh \union ({o.token} \ {0}),
           NEW lk, lo \subseteq lk, lk \subseteq lo \union ({o.token} \ {0}),
           \A e \in EnvsOf(c) : Token(c, e) = o.token => Token(c, e) \in {0} \union sk \union lk,
           \/ p.mine = {}
           \/ p.mine \subseteq o.mine \union lk /\ p.changed
           \/ /\ p.mine \subseteq o.mine \union lk /\ (o.changed => p.changed)
              /\ \A e \in EnvsOf(c) : Token(c, e) = o.token => Token(c, e) = 0
    PROVE  TokensInv(c, m, p, sk, lk)
<1>1. /\ m \in Nat /\ o.token \in Nat /\ o.token <= m /\ o.mine \subseteq 1..m
      /\ sh \subseteq 1..m /\ lo \subseteq 1..m
  BY DEF TokensInv
<1>2. /\ sk \subseteq 1..m /\ lk \subseteq 1..m /\ p.mine \subseteq 1..m /\ p.token <= m
  <2>1. {o.token} \ {0} \subseteq 1..m
    BY <1>1
  <2>2. sk \subseteq 1..m /\ lk \subseteq 1..m
    BY <1>1, <2>1
  <2>3. p.mine \subseteq 1..m
    BY <1>1, <2>2
  <2> QED
    BY <1>1, <2>2, <2>3
<1>3. ASSUME NEW e \in EnvsOf(c)
      PROVE  /\ Token(c, e) \in Nat /\ Token(c, e) <= m
             /\ Token(c, e) \in {0, p.token} \union sk \union lk
             /\ Token(c, e) \in p.mine \ lk => p.changed \/ Token(c, e) = p.token
  <2>1. /\ Token(c, e) \in Nat /\ Token(c, e) <= m
        /\ Token(c, e) \in {0, o.token} \union sh \union lo
        /\ Token(c, e) \in o.mine \ lo => o.changed \/ Token(c, e) = o.token
    BY DEF TokensInv
  <2> QED
    BY <1>1, <2>1
<1> QED
  BY <1>1, <1>2, <1>3 DEF TokensInv

\* The command holds on to its token.
LEMMA HoldRow ==
    ASSUME NEW c, NEW m, NEW o, NEW sh, NEW lo, TokensInv(c, m, o, sh, lo),
           NEW p, p.token = o.token, p.env = o.env, p.mine = o.mine, p.changed = o.changed,
           p.at \in {"validate", "menu"}, o.at \in {"validate", "menu"}
    PROVE  TokensInv(c, m, p, sh, lo)
  BY DEF TokensInv

\* The wizard adds the env a, and holds its token.
LEMMA HeldRow ==
    ASSUME NEW c, NEW m, NEW o, NEW sh, NEW lo, TokensInv(c, m, o, sh, lo), o.token = 0,
           NEW d, NEW a, EnvsOf(d) = EnvsOf(c) \union {a}, Token(d, a) = m + 1,
           \A e \in EnvsOf(c) : Token(d, e) = Token(c, e),
           a \in EnvNames,
           NEW p, p.token = m + 1, p.env = a, p.mine = o.mine \union {m + 1},
           p.changed = o.changed, p.at = "validate"
    PROVE  TokensInv(d, m + 1, p, sh, lo)
<1>1. /\ m \in Nat /\ o.mine \subseteq 1..m /\ sh \subseteq 1..m /\ lo \subseteq 1..m
      /\ m + 1 \in Nat /\ m + 1 # 0
  BY DEF TokensInv
<1>2. /\ p.mine \subseteq 1..(m + 1) /\ sh \subseteq 1..(m + 1) /\ lo \subseteq 1..(m + 1)
  BY <1>1
<1>3. ASSUME NEW e \in EnvsOf(d)
      PROVE  /\ Token(d, e) \in Nat /\ Token(d, e) <= m + 1
             /\ Token(d, e) \in {0, p.token} \union sh \union lo
             /\ Token(d, e) = p.token /\ p.token # 0 => e = p.env
             /\ Token(d, e) \in p.mine \ lo => p.changed \/ Token(d, e) = p.token
  <2>1. CASE e = a
    BY <1>1, <2>1
  <2>2. CASE e \in EnvsOf(c)
    <3>1. /\ Token(d, e) \in Nat /\ Token(d, e) <= m
          /\ Token(d, e) \in {0} \union sh \union lo
          /\ Token(d, e) \in o.mine \ lo => o.changed \/ Token(d, e) = 0
      BY <2>2 DEF TokensInv
    <3> QED
      BY <1>1, <3>1
  <2> QED
    BY <2>1, <2>2
<1> QED
  BY <1>1, <1>2, <1>3 DEF TokensInv

-----------------------------------------------------------------------------
(* The steps *)

\* What is left to show of a step that is not a probe.
LEMMA CallKeeps ==
    ASSUME CommandsInv, TypeOK', ConfigValid', mode' = mode, said' = said, op' \in Command,
           TokensInv(cfg', minted', op', shown', lost')
    PROVE  CommandsInv'
<1>1. shown' \subseteq 1..minted' /\ lost' \subseteq 1..minted'
  BY DEF TokensInv
<1>2. CommandsTypeOK'
  BY <1>1 DEF CommandsInv, CommandsTypeOK
<1>3. VerdictIsTrue'
  BY DEF CommandsInv, VerdictIsTrue, Has
<1> QED
  BY <1>2, <1>3 DEF CommandsInv

\* The parts of the invariant.
LEMMA InvParts ==
    ASSUME CommandsInv
    PROVE  /\ TypeOK /\ ConfigValid /\ op \in Command
           /\ TokensInv(cfg, minted, op, shown, lost)
           /\ minted \in 0..MaxToken /\ MaxToken \in Nat
  BY EditsAssumption DEF CommandsInv, CommandsTypeOK, TypeOK

\* An edit that somebody makes: the command under way stays where it is.
LEMMA EditStep ==
    ASSUME CommandsInv, Next,
           shown \subseteq shown', shown' \subseteq shown \union ({minted'} \ {minted}),
           lost \subseteq lost', lost' \subseteq lost \union ({minted'} \ {minted}),
           minted' # minted => minted' \in shown' \union lost'
    PROVE  /\ TypeOK' /\ ConfigValid'
           /\ TokensInv(cfg', minted', op, shown', lost')
<1>1. TypeOK' /\ ConfigValid'
  BY InvParts, EditKeepsConfig DEF Kept, TypeOK, ConfigValid
<1>2. TokensMove(cfg, minted, cfg', minted')
  BY InvParts, EditTokens
<1>3. TokensInv(cfg', minted', op, shown', lost')
  BY <1>2, InvParts, EditRow
<1> QED
  BY <1>1, <1>3

\* Somebody's command that is a single call.
LEMMA OneCallStep ==
    ASSUME CommandsInv, OneCall, UNCHANGED said
    PROVE  CommandsInv'
<1>1. /\ Next /\ UNCHANGED <<mode, op>>
      /\ shown \subseteq shown' /\ shown' \subseteq shown \union ({minted'} \ {minted})
      /\ lost \subseteq lost' /\ lost' \subseteq lost \union ({minted'} \ {minted})
      /\ minted' # minted => minted' \in shown' \union lost'
  BY DEF OneCall
<1> QED
  BY <1>1, EditStep, InvParts, CallKeeps

\* Nothing is edited, and the command goes on without a token.
LEMMA OnwardStep ==
    ASSUME CommandsInv, UNCHANGED <<cfg, minted, mode, shown, lost, said>>,
           op' \in Command, op.token = 0, op'.token = 0, op'.at \notin {"validate", "menu"},
           op'.mine = {} \/ (op'.mine = op.mine /\ op'.changed = op.changed)
    PROVE  CommandsInv'
<1>1. TokensInv(cfg, minted, op', shown, lost)
  BY InvParts, SettleRow
<1>2. TypeOK' /\ ConfigValid'
  BY InvParts DEF TypeOK, ConfigValid
<1> QED
  BY <1>1, <1>2, CallKeeps

\* An edit without a token, after which the command goes on without one.
LEMMA EditOnwardStep ==
    ASSUME CommandsInv, Next, minted' = minted, UNCHANGED <<mode, shown, lost, said>>,
           op' \in Command, op.token = 0, op'.token = 0, op'.at \notin {"validate", "menu"},
           op'.mine = op.mine, op.changed => op'.changed
    PROVE  CommandsInv'
<1>1. TypeOK' /\ ConfigValid' /\ TokensInv(cfg', minted', op, shown', lost')
  BY EditStep
<1>2. TokensInv(cfg', minted', op', shown', lost')
  BY <1>1, SettleRow
<1> QED
  BY <1>1, <1>2, CallKeeps

\* An env is added and its token shown or lost at once; nothing is held.
LEMMA AddedStep ==
    ASSUME CommandsInv, Next, minted' # minted, UNCHANGED <<mode, said>>,
           \/ shown' = shown \union {minted'} /\ lost' = lost
           \/ lost' = lost \union {minted'} /\ shown' = shown,
           op' \in Command, op.token = 0, op'.token = 0, op'.at \notin {"validate", "menu"},
           \/ op'.mine = {}
           \/ /\ op'.mine = op.mine \union {minted'} /\ minted' \in lost'
              /\ op'.changed = op.changed
    PROVE  CommandsInv'
<1>1. TypeOK' /\ ConfigValid' /\ TokensInv(cfg', minted', op, shown', lost')
  BY EditStep
<1>2. TokensInv(cfg', minted', op', shown', lost')
  BY <1>1, SettleRow
<1> QED
  BY <1>1, <1>2, CallKeeps

\* The command ends with an error.
LEMMA AbortStep ==
    ASSUME CommandsInv, Abort, UNCHANGED <<cfg, minted, mode, said>>
    PROVE  CommandsInv'
<1>1. /\ op' = Idle /\ lost' = lost \union ({op.token} \ {0}) /\ shown' = shown
      /\ Idle.token = 0 /\ Idle.at = "idle" /\ Idle.mine = {}
  BY DEF Abort, Idle
<1>2. op' \in Command
  BY <1>1, InvParts DEF Idle, Command
<1>3. TokensInv(cfg, minted, op', shown', lost')
  BY <1>1, InvParts, SettleRow
<1>4. TypeOK' /\ ConfigValid'
  BY InvParts DEF TypeOK, ConfigValid
<1> QED
  BY <1>2, <1>3, <1>4, CallKeeps

\* A command that is not checking an env has no token to show.
LEMMA NoToken ==
    ASSUME CommandsInv, op.at \notin {"validate", "menu"}
    PROVE  op.token = 0
  BY InvParts DEF TokensInv

\* The command that nobody runs is one.
LEMMA IdleFacts ==
    ASSUME CommandsInv
    PROVE  Idle \in Command /\ Idle.token = 0 /\ Idle.at = "idle" /\ Idle.mine = {}
<1>1. 0 \in 0..MaxToken
  BY InvParts
<1> QED
  BY <1>1 DEF Idle, Command

\* So is the check after `env add`.
LEMMA CheckFacts ==
    ASSUME CommandsInv, NEW e \in EnvNames, NEW o, o = [Idle EXCEPT !.at = "check", !.env = e]
    PROVE  o \in Command /\ o.token = 0 /\ o.at = "check" /\ o.mine = {}
<1>1. Idle \in Command /\ Idle.token = 0 /\ Idle.mine = {}
  BY IdleFacts
<1> HIDE DEF Idle
<1> QED
  BY <1>1 DEF Command

\* What the wizard's loop keeps.
LEMMA OnwardFacts ==
    ASSUME CommandsInv, NEW next \in {"retry", "envs"}
    PROVE  /\ Onward(next) \in Command /\ Onward(next).at = next /\ Onward(next).token = 0
           /\ Onward(next).mine = op.mine /\ Onward(next).changed = op.changed
<1>1. 0 \in 0..MaxToken /\ op \in Command
  BY InvParts
<1> QED
  BY <1>1 DEF Onward, Command

\* The credential of `env add --url`.
LEMMA add_credential_for_url_step ==
    ASSUME CommandsInv, NEW e \in EnvNames, NEW pw \in Passwords,
           add_credential_for_url(e, pw), UNCHANGED said
    PROVE  CommandsInv'
<1>1. /\ op.at = "idle" /\ e \in CredNames /\ AddCred(e, pw) /\ op.token = 0
      /\ op' = [op EXCEPT !.at = "url", !.env = e]
      /\ UNCHANGED <<mode, shown, lost>>
  BY NoToken DEF add_credential_for_url, history
<1>2. Next /\ minted' = minted
  BY <1>1 DEF Next, AddCred
<1>3. /\ op' \in Command /\ op'.at = "url" /\ op'.token = op.token /\ op'.mine = op.mine
      /\ op'.changed = op.changed
  BY <1>1, InvParts DEF Command
<1> QED
  BY <1>1, <1>2, <1>3, EditOnwardStep

\* `env add`.
LEMMA EnvAddStep ==
    ASSUME CommandsInv, NEW e \in EnvNames, NEW b \in BastionNames \union {Absent},
           NEW c \in CredNames, NEW policy \in Policies, NEW engine \in Engines,
           NEW asked \in ListenPorts \union {Absent}, NEW no_validate \in BOOLEAN,
           EnvAdd(e, b, c, policy, engine, asked, no_validate), UNCHANGED said
    PROVE  CommandsInv'
<1>1. AddEnv(e, b, c, policy, engine, asked) /\ op.token = 0 /\ mode' = mode
  BY NoToken DEF EnvAdd
<1>2. Next /\ minted' # minted
  <2>1. Next
    BY <1>1 DEF Next
  <2>2. minted' = minted + 1 /\ minted \in 0..MaxToken
    BY <1>1, InvParts, AddEnvTokens
  <2> QED
    BY <2>1, <2>2
<1>3. op' \in {Idle, [Idle EXCEPT !.at = "check", !.env = e]}
  BY DEF EnvAdd
<1>4. op' \in Command /\ op'.token = 0 /\ op'.at \notin {"validate", "menu"} /\ op'.mine = {}
  BY <1>3, IdleFacts, CheckFacts
<1>5. \/ shown' = shown \union {minted'} /\ lost' = lost
      \/ lost' = lost \union {minted'} /\ shown' = shown
  BY DEF EnvAdd
<1> QED
  BY <1>1, <1>2, <1>4, <1>5, AddedStep

\* The wizard adds an env, and holds its token or loses the answer.
LEMMA add_envs_loop_step ==
    ASSUME CommandsInv, NEW e \in EnvNames, NEW b \in BastionNames \union {Absent},
           NEW c \in CredNames, NEW policy \in Policies, NEW engine \in Engines,
           add_envs_loop(e, b, c, policy, engine), UNCHANGED said
    PROVE  CommandsInv'
<1>1. /\ AddEnv(e, b, c, policy, engine, Absent) /\ op.token = 0 /\ UNCHANGED <<mode, shown>>
  BY NoToken DEF add_envs_loop
<1>2. /\ Next /\ minted' = minted + 1 /\ minted' \in 1..MaxToken /\ minted' # minted
      /\ Token(cfg', e) = minted'
      /\ EnvsOf(cfg') = EnvsOf(cfg) \union {e}
      /\ \A f \in EnvsOf(cfg) : Token(cfg', f) = Token(cfg, f)
  <2>1. Next
    BY <1>1 DEF Next
  <2>2. /\ minted' = minted + 1 /\ minted' \in 1..MaxToken
        /\ Token(cfg', e) = minted'
        /\ EnvsOf(cfg') = EnvsOf(cfg) \union {e}
        /\ \A f \in EnvsOf(cfg) : Token(cfg', f) = Token(cfg, f)
    BY <1>1, InvParts, AddEnvTokens
  <2>3. minted' # minted
    BY <2>2, InvParts
  <2> QED
    BY <2>1, <2>2, <2>3
<1>3. CASE /\ op' = [op EXCEPT !.at = "validate", !.env = e, !.bastion = Absent,
                               !.token = minted', !.mine = @ \union {minted'}]
           /\ lost' = lost
  <2>1. op.mine \union {minted'} \in SUBSET (1..MaxToken) /\ minted' \in 0..MaxToken
    BY <1>2, InvParts DEF Command
  <2>2. /\ op' \in Command /\ op'.at = "validate" /\ op'.env = e /\ op'.token = minted'
        /\ op'.mine = op.mine \union {minted'} /\ op'.changed = op.changed
    BY <1>3, <2>1, InvParts DEF Command
  <2>3. TokensInv(cfg', minted + 1, op', shown, lost)
    BY <1>1, <1>2, <2>2, InvParts, HeldRow
  <2>4. TypeOK' /\ ConfigValid'
    BY <1>2, InvParts, EditKeepsConfig DEF Kept, TypeOK, ConfigValid
  <2> QED
    BY <1>1, <1>2, <1>3, <2>2, <2>3, <2>4, CallKeeps
<1>4. CASE /\ op' = [Onward("envs") EXCEPT !.mine = @ \union {minted'}]
           /\ lost' = lost \union {minted'}
  <2>1. op.mine \union {minted'} \in SUBSET (1..MaxToken)
    BY <1>2, InvParts DEF Command
  <2>2. /\ op' \in Command /\ op'.at = "envs" /\ op'.token = 0
        /\ op'.mine = op.mine \union {minted'} /\ op'.changed = op.changed
    BY <1>4, <2>1, OnwardFacts DEF Command
  <2> QED
    BY <1>1, <1>2, <1>4, <2>2, AddedStep
<1> QED
  BY <1>3, <1>4 DEF add_envs_loop

\* The wizard's bastions and credentials.
LEMMA AddLoopStep ==
    ASSUME CommandsInv, Next, minted' = minted, op.at \in {"bastions", "credentials"},
           op' = [op EXCEPT !.changed = TRUE] \/ op' = op, UNCHANGED <<mode, shown, lost, said>>
    PROVE  CommandsInv'
<1>1. /\ op' \in Command /\ op'.at = op.at /\ op'.token = op.token /\ op'.mine = op.mine
      /\ op.changed => op'.changed
  BY InvParts DEF Command
<1> QED
  BY <1>1, NoToken, EditOnwardStep

\* The token of an env that is kept is printed.
LEMMA KeepRow ==
    ASSUME CommandsInv, Keep, op.at \in {"validate", "menu"}
    PROVE  op' \in Command /\ TokensInv(cfg, minted, op', shown', lost)
<1>1. /\ op' \in Command /\ op'.at = "envs" /\ op'.token = 0 /\ op'.mine = op.mine
      /\ op'.changed
  BY OnwardFacts DEF Keep, Command
<1>2. op.token # 0 /\ shown' = shown \union {op.token}
  BY InvParts DEF TokensInv, Keep
<1>3. TokensInv(cfg, minted, op', shown', lost)
  BY <1>1, <1>2, InvParts, SettleRow
<1> QED
  BY <1>1, <1>3

\* The operator keeps an env that was not reached.
LEMMA KeepAnywayStep ==
    ASSUME CommandsInv, KeepAnyway, UNCHANGED said
    PROVE  CommandsInv'
<1>1. op' \in Command /\ TokensInv(cfg, minted, op', shown', lost)
  BY KeepRow DEF KeepAnyway
<1>2. TypeOK' /\ ConfigValid'
  BY InvParts DEF KeepAnyway, TypeOK, ConfigValid
<1> QED
  BY <1>1, <1>2, CallKeeps DEF KeepAnyway

\* The env that was not reached is removed: no other env has its token.
LEMMA RemoveAddedStep ==
    ASSUME CommandsInv, NEW next \in {"retry", "envs"}, RemoveAdded(next), UNCHANGED said
    PROVE  CommandsInv'
<1>1. /\ op.at = "menu" /\ op' = Onward(next) /\ UNCHANGED <<mode, shown, lost>>
      /\ RmEnv(op.env) /\ minted' = minted /\ op \in Command
  BY InvParts DEF RemoveAdded, history, RmEnv
<1>2. /\ op' \in Command /\ op'.at = next /\ op'.token = 0 /\ op'.mine = op.mine
      /\ op'.changed = op.changed
  BY <1>1, OnwardFacts
<1>3. op.env \in EnvNames /\ op.env \notin EnvsOf(cfg')
  <2>1. op.env \in EnvNames
    BY <1>1, InvParts DEF TokensInv
  <2> QED
    BY <1>1, <2>1, InvParts, rm_env_envs DEF RmEnv, TypeOK
<1>4. Next
  BY <1>1, <1>3 DEF Next
<1>5. TypeOK' /\ ConfigValid' /\ TokensInv(cfg', minted', op, shown', lost')
  BY <1>1, <1>4, EditStep
<1>6. \A e \in EnvsOf(cfg') : Token(cfg', e) = op.token => Token(cfg', e) = 0
  BY <1>3, <1>5 DEF TokensInv
<1>7. TokensInv(cfg', minted', op', shown', lost')
  BY <1>2, <1>5, <1>6, SettleRow
<1> QED
  BY <1>1, <1>2, <1>5, <1>7, CallKeeps

\* A bastion is pinned before the env is tried again.
LEMMA ensure_bastion_pinned_step ==
    ASSUME CommandsInv, NEW b \in BastionNames, NEW k \in Keys, ensure_bastion_pinned(b, k),
           UNCHANGED said
    PROVE  CommandsInv'
<1>1. /\ op.at = "retry" /\ op.token = 0 /\ SetFingerprint(b, k)
      /\ op' = [op EXCEPT !.at = "pinned", !.bastion = b] /\ UNCHANGED <<mode, shown, lost>>
  BY NoToken DEF ensure_bastion_pinned, history
<1>2. Next /\ minted' = minted
  BY <1>1 DEF Next, SetFingerprint
<1>3. /\ op' \in Command /\ op'.at = "pinned" /\ op'.token = op.token /\ op'.mine = op.mine
      /\ op'.changed = op.changed
  BY <1>1, InvParts DEF Command
<1> QED
  BY <1>1, <1>2, <1>3, EditOnwardStep

\* The steps of the wizard that edit nothing.
LEMMA PromptStep ==
    ASSUME CommandsInv, UNCHANGED said,
           run_config \/ BastionsDone \/ CredentialsDone \/ AddRefused \/ EnvsDone \/ Finish
    PROVE  CommandsInv'
<1>1. /\ op.at \notin {"validate", "menu"} /\ op \in Command /\ op.token = 0
      /\ UNCHANGED <<cfg, minted, mode, shown, lost, said>>
  BY NoToken, InvParts DEF run_config, BastionsDone, CredentialsDone, AddRefused, EnvsDone, Finish,
                           history
<1>2. /\ op' \in Command /\ op'.token = 0 /\ op'.at \notin {"validate", "menu"}
      /\ op'.mine = {} \/ (op'.mine = op.mine /\ op'.changed = op.changed)
  <2>1. CASE run_config \/ BastionsDone
    BY <1>1, <2>1 DEF run_config, BastionsDone, Command
  <2>2. CASE CredentialsDone
    BY <1>1, <2>2 DEF CredentialsDone, Command
  <2>3. CASE AddRefused
    BY <1>1, <2>3 DEF AddRefused, Onward, Command
  <2>4. CASE EnvsDone
    BY <1>1, <2>4 DEF EnvsDone, Command
  <2>5. CASE Finish
    BY <2>5, IdleFacts DEF Finish
  <2> QED
    BY <2>1, <2>2, <2>3, <2>4, <2>5
<1> QED
  BY <1>1, <1>2, OnwardStep

-----------------------------------------------------------------------------
(* Probes *)

\* Both ways of judging a probe's results tell the operator the truth.
LEMMA JudgeIsTrue ==
    ASSUME mode \in {"channel", "direct"}, NEW D, NEW results \in [D -> Outcomes]
    PROVE  /\ Judge(results) = "failed" <=> Has(results, "failed")
           /\ Judge(results) = "connected" => Has(results, "ok")
<1>1. \A outcome : Has(results, outcome) <=> \E i \in D : results[i] = outcome
  BY DEF Has, Range
<1>2. exit_ok(results) <=> ~Has(results, "failed")
  BY <1>1 DEF exit_ok
<1>3. results = <<>> => ~Has(results, "failed")
  BY <1>1
<1>4. results # <<>> /\ ~Has(results, "failed") /\ ~Has(results, "unsupported")
         => Has(results, "ok")
  <2>1. ASSUME D = {}
        PROVE  results = <<>>
    <3>1. DOMAIN results = {} /\ DOMAIN <<>> = {}
      BY <2>1
    <3>2. results = [i \in {} |-> results[i]]
      BY <2>1
    <3> QED
      BY <3>1, <3>2
  <2> QED
    BY <1>1, <2>1 DEF Outcomes
<1>5. CASE mode = "direct"
  <2>1. Judge(results) = validate_direct(results)
    BY <1>5 DEF Judge
  <2>2. CASE results = <<>>
    BY <1>3, <2>1, <2>2 DEF validate_direct
  <2>3. CASE results # <<>> /\ ~exit_ok(results)
    BY <1>2, <2>1, <2>3 DEF validate_direct
  <2>4. CASE results # <<>> /\ exit_ok(results)
    <3>1. Judge(results) = IF Has(results, "unsupported") /\ ~Has(results, "ok")
                           THEN "skipped" ELSE "connected"
      BY <2>1, <2>4 DEF validate_direct
    <3> QED
      BY <1>2, <1>4, <2>4, <3>1
  <2> QED
    BY <2>2, <2>3, <2>4
<1>6. CASE mode = "channel"
  BY <1>6 DEF Judge, render_probe_results
<1> QED
  BY <1>5, <1>6

\* What a probe, or one that was not made, tells the operator.
LEMMA ProbeTells ==
    ASSUME mode \in {"channel", "direct"}, NEW verdict \in Verdicts, NEW envs,
           Probe(envs, verdict) \/ NotProbed(verdict)
    PROVE  /\ said'.verdict \in Verdicts
           /\ \A i \in DOMAIN said'.results : said'.results[i] \in Outcomes
           /\ said'.verdict = "failed" <=> Has(said'.results, "failed")
           /\ said'.verdict = "connected" => Has(said'.results, "ok")
<1>1. CASE Probe(envs, verdict)
  <2>1. PICK n \in 0..Cardinality(envs) : \E results \in [1..n -> Outcomes] :
           verdict = Judge(results) /\ said' = [verdict |-> verdict, results |-> results]
    BY <1>1 DEF Probe
  <2>2. PICK results \in [1..n -> Outcomes] :
           verdict = Judge(results) /\ said' = [verdict |-> verdict, results |-> results]
    BY <2>1
  <2>3. said'.verdict = Judge(results) /\ said'.results = results
    BY <2>2
  <2>4. said'.verdict \in Verdicts /\ \A i \in DOMAIN results : results[i] \in Outcomes
    BY <2>2
  <2>5. /\ Judge(results) = "failed" <=> Has(results, "failed")
        /\ Judge(results) = "connected" => Has(results, "ok")
    BY <2>2, JudgeIsTrue
  <2> QED
    BY <2>3, <2>4, <2>5
<1>2. CASE NotProbed(verdict)
  <2>1. said'.verdict = "skipped" /\ said'.results = <<>>
    BY <1>2 DEF NotProbed, Silent
  <2>2. ~Has(<<>>, "failed") /\ \A i \in DOMAIN <<>> : FALSE
    BY DEF Has, Range
  <2> QED
    BY <2>1, <2>2 DEF Verdicts
<1> QED
  BY <1>1, <1>2

\* What is left to show of a probe.
LEMMA ProbeKeeps ==
    ASSUME CommandsInv, UNCHANGED <<cfg, minted, mode, lost>>, op' \in Command,
           TokensInv(cfg, minted, op', shown', lost),
           NEW verdict \in Verdicts, NEW envs, Probe(envs, verdict) \/ NotProbed(verdict)
    PROVE  CommandsInv'
<1>1. mode \in {"channel", "direct"}
  BY CommandsAssumption DEF CommandsInv, CommandsTypeOK
<1>2. /\ said'.verdict \in Verdicts
      /\ \A i \in DOMAIN said'.results : said'.results[i] \in Outcomes
      /\ said'.verdict = "failed" <=> Has(said'.results, "failed")
      /\ said'.verdict = "connected" => Has(said'.results, "ok")
  BY <1>1, ProbeTells
<1>3. shown' \subseteq 1..minted' /\ lost' \subseteq 1..minted'
  BY DEF TokensInv
<1>4. TypeOK' /\ ConfigValid' /\ mode' \in Modes
  BY DEF CommandsInv, CommandsTypeOK, TypeOK, ConfigValid
<1>5. CommandsTypeOK'
  BY <1>2, <1>3, <1>4 DEF CommandsTypeOK
<1>6. VerdictIsTrue'
  BY <1>2 DEF VerdictIsTrue, Has
<1> QED
  BY <1>4, <1>5, <1>6 DEF CommandsInv

\* Every probe keeps the invariant.
LEMMA ProbesStep ==
    ASSUME CommandsInv, Probes
    PROVE  CommandsInv'
<1>1. ASSUME NEW envs, EnvTest(envs)
      PROVE  CommandsInv'
  <2>1. PICK verdict \in Verdicts : Probe(envs, verdict)
    BY <1>1 DEF EnvTest
  <2> QED
    BY <1>1, <2>1, InvParts, ProbeKeeps DEF EnvTest
<1>2. CASE validate_after_add
  <2>1. PICK verdict \in Verdicts : Probe({op.env}, verdict) \/ NotProbed(verdict)
    BY <1>2 DEF validate_after_add
  <2>2. /\ op.at = "check" /\ op' = Idle /\ op.token = 0
        /\ UNCHANGED <<cfg, minted, mode, shown, lost>>
    BY <1>2, NoToken DEF validate_after_add
  <2>3. op' \in Command /\ op'.token = 0 /\ op'.at = "idle" /\ op'.mine = {}
    BY <2>2, IdleFacts
  <2>4. TokensInv(cfg, minted, op', shown, lost)
    BY <2>2, <2>3, InvParts, SettleRow
  <2> QED
    BY <2>1, <2>2, <2>3, <2>4, ProbeKeeps
<1>3. CASE Validate
  <2>1. PICK verdict \in Verdicts :
          /\ Probe({op.env}, verdict) \/ NotProbed(verdict)
          /\ IF verdict = "failed"
             THEN op' = [op EXCEPT !.at = "menu"] /\ UNCHANGED shown
             ELSE Keep
    BY <1>3 DEF Validate
  <2>2. op.at = "validate" /\ UNCHANGED <<cfg, minted, mode, lost>>
    BY <1>3 DEF Validate
  <2>3. op' \in Command /\ TokensInv(cfg, minted, op', shown', lost)
    <3>1. CASE Keep
      BY <2>2, <3>1, KeepRow
    <3>2. CASE op' = [op EXCEPT !.at = "menu"] /\ UNCHANGED shown
      <4>1. /\ op' \in Command /\ op'.at = "menu" /\ op'.token = op.token /\ op'.env = op.env
            /\ op'.mine = op.mine /\ op'.changed = op.changed
        BY <3>2, InvParts DEF Command
      <4> QED
        BY <2>2, <3>2, <4>1, InvParts, HoldRow
    <3> QED
      BY <2>1, <3>1, <3>2
  <2> QED
    BY <2>1, <2>2, <2>3, ProbeKeeps
<1> QED
  BY <1>1, <1>2, <1>3 DEF Probes

-----------------------------------------------------------------------------
(* The theorems *)

\* Before any command is run.
LEMMA CommandsStart == CommandsInit => CommandsInv
<1> SUFFICES ASSUME CommandsInit
             PROVE  CommandsInv
  OBVIOUS
<1>1. TypeOK /\ ConfigValid
  BY DefaultConfigOK, EditsAssumption DEF CommandsInit, Init, TypeOK, ConfigValid
<1>2. EnvsOf(cfg) = {}
  BY DEF CommandsInit, Init, DefaultConfig, EnvsOf
<1>3. op \in Command /\ op.token = 0 /\ op.at = "idle" /\ op.mine = {}
  BY EditsAssumption DEF CommandsInit, Idle, Command
<1>4. TokensInv(cfg, minted, op, shown, lost)
  BY <1>2, <1>3 DEF CommandsInit, Init, TokensInv
<1>5. said.verdict = "skipped" /\ said.results = <<>>
  BY DEF CommandsInit, Silent
<1>6. VerdictIsTrue
  BY <1>5 DEF VerdictIsTrue, Has, Range
<1>7. CommandsTypeOK
  BY <1>1, <1>3, <1>5 DEF CommandsTypeOK, CommandsInit, Init, Verdicts
<1> QED
  BY <1>1, <1>4, <1>6, <1>7 DEF CommandsInv

\* Every call keeps the invariant.
LEMMA CallsStep ==
    ASSUME CommandsInv, Calls, UNCHANGED said
    PROVE  CommandsInv'
<1>1. ASSUME NEW e \in EnvNames, NEW pw \in Passwords, add_credential_for_url(e, pw)
      PROVE  CommandsInv'
  BY <1>1, add_credential_for_url_step
<1>2. CASE EnvSteps
  <2>1. PICK e \in EnvNames, b \in BastionNames \union {Absent}, c \in CredNames,
             policy \in Policies, engine \in Engines :
        \/ \E asked \in ListenPorts \union {Absent}, no_validate \in BOOLEAN :
              EnvAdd(e, b, c, policy, engine, asked, no_validate)
        \/ add_envs_loop(e, b, c, policy, engine)
    BY <1>2 DEF EnvSteps
  <2> QED
    BY <2>1, EnvAddStep, add_envs_loop_step
<1>3. CASE EnvAddFails \/ Interrupted
  BY <1>3, AbortStep DEF EnvAddFails, Interrupted
<1>4. ASSUME NEW b \in BastionNames, NEW h \in Hosts, NEW pins \in SUBSET Keys,
             add_bastions_loop(b, h, pins)
      PROVE  CommandsInv'
  <2>1. AddBastion(b, h, pins) /\ op.at = "bastions" /\ UNCHANGED <<mode, shown, lost>>
        /\ (op' = [op EXCEPT !.changed = TRUE] \/ op' = op)
    BY <1>4 DEF add_bastions_loop, history
  <2>2. Next /\ minted' = minted
    BY <2>1 DEF Next, AddBastion
  <2> QED
    BY <2>1, <2>2, AddLoopStep
<1>5. ASSUME NEW c \in CredNames, NEW pw \in Passwords, add_credentials_loop(c, pw)
      PROVE  CommandsInv'
  <2>1. AddCred(c, pw) /\ op.at = "credentials" /\ UNCHANGED <<mode, shown, lost>>
        /\ (op' = [op EXCEPT !.changed = TRUE] \/ op' = op)
    BY <1>5 DEF add_credentials_loop, history
  <2>2. Next /\ minted' = minted
    BY <2>1 DEF Next, AddCred
  <2> QED
    BY <2>1, <2>2, AddLoopStep
<1>6. CASE Wizard
  BY <1>3, <1>4, <1>5, <1>6, PromptStep, KeepAnywayStep, RemoveAddedStep,
     ensure_bastion_pinned_step DEF Wizard
<1> QED
  BY <1>1, <1>2, <1>3, <1>6, OneCallStep DEF Calls

\* Every step keeps the invariant.
LEMMA CommandsStep == CommandsInv /\ [CommandsNext]_cmdVars => CommandsInv'
<1> SUFFICES ASSUME CommandsInv, [CommandsNext]_cmdVars
             PROVE  CommandsInv'
  OBVIOUS
<1>1. CASE Told
  <2>1. /\ UNCHANGED <<cfg, minted, mode, op, shown, lost>>
        /\ NotProbed("skipped") /\ "skipped" \in Verdicts
    BY <1>1 DEF Told, NotProbed, Verdicts
  <2> QED
    BY <2>1, InvParts, ProbeKeeps
<1>2. CASE UNCHANGED cmdVars
  BY <1>2 DEF cmdVars, CommandsInv, CommandsTypeOK, TypeOK, ConfigValid, VerdictIsTrue, Has
<1> QED
  BY <1>1, <1>2, ProbesStep, CallsStep DEF CommandsNext

\* The invariant holds in every reachable state.
LEMMA CommandsSafe == CommandsSpec => []CommandsInv
  BY CommandsStart, CommandsStep, PTL DEF CommandsSpec

\* The commands' variables keep their types, and no token is shown or lost
\* that was not minted.
THEOREM CommandsTypes == CommandsSpec => []CommandsTypeOK
<1>1. CommandsInv => CommandsTypeOK
  BY DEF CommandsInv
<1> QED
  BY <1>1, CommandsSafe, PTL

\* No env stays configured whose token its operator was neither shown nor
\* told the failure of, and a wizard that leaves one reports a change
\* (print_block, run_config).
THEOREM KeptTokensAreShown == CommandsSpec => []KeptIsShown
<1>1. CommandsInv => KeptIsShown
  <2> SUFFICES ASSUME CommandsInv, NEW e \in EnvsOf(cfg)
               PROVE  /\ TokenOf(e) \in {0, op.token} \union shown \union lost
                      /\ (op.at = "finish" /\ TokenOf(e) \in op.mine \ lost) => op.changed
    BY DEF KeptIsShown
  <2>1. /\ TokenOf(e) \in {0, op.token} \union shown \union lost
        /\ TokenOf(e) \in op.mine \ lost => op.changed \/ TokenOf(e) = op.token
        /\ op.token # 0 <=> op.at \in {"validate", "menu"}
        /\ op.mine \subseteq 1..minted /\ minted \in Nat
    BY InvParts DEF TokensInv, Token, TokenOf
  <2>2. 0 \notin op.mine
    BY <2>1
  <2> QED
    BY <2>1, <2>2
<1> QED
  BY <1>1, CommandsSafe, PTL

\* The operator is told of a failure exactly when one was met, and of a
\* connection only when one was made (validate, render_probe_results).
THEOREM VerdictsAreTrue == CommandsSpec => []VerdictIsTrue
<1>1. CommandsInv => VerdictIsTrue
  BY DEF CommandsInv
<1> QED
  BY <1>1, CommandsSafe, PTL
=============================================================================
