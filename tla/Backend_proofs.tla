---------------------------- MODULE Backend_proofs ----------------------------
(***************************************************************************)
(* The pools and the reaper, for any number of envs, clients, pools and    *)
(* faults and any timeouts.                                                *)
(*                                                                         *)
(* The argument.  Nobody is cut off because a client holds its pool, and   *)
(* with it the SSH session under it: a rebuild or an evict only takes them *)
(* out of the table (StaysConnected).  A connection is closed in time      *)
(* because whenever the clock runs the next sweep is at most one cadence   *)
(* of each published pool it was planned for away (~woken => due <= ...; a *)
(* rebuild keeps this when it shortens no timeout), and what a sweep       *)
(* leaves has rested for less than its timeout, having rested no longer    *)
(* than it is unused (RestOK).  So rest + due stays below the deadline.    *)
(***************************************************************************)
EXTENDS Backend, WellFoundedInduction, TLAPS

-----------------------------------------------------------------------------
(* Induction *)

\* The least-number principle.
LEMMA Least ==
    ASSUME NEW T \in SUBSET Nat, T # {}
    PROVE  \E x \in T : \A y \in T : ~(y < x)
<1> DEFINE R == OpToRel(<, Nat)
<1>1. IsWellFoundedOn(R, Nat)
  BY NatLessThanWellFounded, Zenon
<1>2. \A x, y \in Nat : <<y, x>> \in R <=> y < x
  BY DEF OpToRel
<1> HIDE DEF R
<1>3. \E x \in T : \A y \in T : ~(<<y, x>> \in R)
  BY <1>1, WFMin
<1> QED
  BY <1>2, <1>3

\* Induction up to a number, for membership in a set.
LEMMA Upto ==
    ASSUME NEW n \in Nat, NEW G, 0 \in G, \A m \in 1..n : m - 1 \in G => m \in G
    PROVE  \A m \in 0..n : m \in G
<1> DEFINE T == {m \in 0..n : m \notin G}
<1> SUFFICES ASSUME T # {} PROVE FALSE
  OBVIOUS
<1>1. T \in SUBSET Nat
  OBVIOUS
<1> HIDE DEF T
<1>2. PICK m \in T : \A k \in T : ~(k < m)
  BY <1>1, Least
<1> USE DEF T
<1>3. m # 0 /\ m - 1 \notin T
  BY <1>2
<1> QED
  BY <1>2, <1>3

-----------------------------------------------------------------------------
(* The reaper's arithmetic *)

\* The smaller and the larger of two numbers.
LEMMA MinMax ==
    ASSUME NEW a \in Int, NEW b \in Int
    PROVE  /\ Min({a, b}) \in {a, b} /\ Min({a, b}) <= a /\ Min({a, b}) <= b
           /\ Max({a, b}) \in {a, b} /\ Max({a, b}) >= a /\ Max({a, b}) >= b
<1>1. \E x \in {a, b} : \A y \in {a, b} : x =< y
  OBVIOUS
<1>2. \E x \in {a, b} : \A y \in {a, b} : x >= y
  OBVIOUS
<1> QED
  BY <1>1, <1>2 DEF Min, Max

\* The smallest of a set of numbers.
LEMMA MinOf ==
    ASSUME NEW S \in SUBSET Nat, S # {}
    PROVE  Min(S) \in S /\ \A x \in S : Min(S) <= x
<1>1. \E x \in S : \A y \in S : x =< y
  <2>1. PICK x \in S : \A y \in S : ~(y < x)
    BY Least
  <2> QED
    BY <2>1
<1> QED
  BY <1>1 DEF Min

\* A cadence is between a second and the ceiling, and a longer timeout has no
\* shorter one.
LEMMA IntervalFacts ==
    /\ \A t \in Nat : reaper_interval(t) \in 2..(2 * Ceiling)
    /\ \A t, u \in Nat : t <= u => reaper_interval(t) <= reaper_interval(u)
<1>1. ASSUME NEW t \in Nat
      PROVE  /\ reaper_interval(t) \in 2..(2 * Ceiling)
             /\ reaper_interval(t) = IF t <= 2 THEN 2
                                     ELSE IF t <= 2 * Ceiling THEN t ELSE 2 * Ceiling
  <2> DEFINE C == 2 * Ceiling
             m == Min({t, C})
  <2>1. C \in Int /\ C >= 2
    BY BackendAssumption
  <2>2. reaper_interval(t) = Max({2, m})
    BY DEF reaper_interval
  <2> HIDE DEF C
  <2>3. m \in {t, C} /\ m <= t /\ m <= C
    BY <2>1, MinMax
  <2> HIDE DEF m
  <2>3a. m \in Int /\ 2 \in Int
    BY <2>1, <2>3
  <2>4. Max({2, m}) \in {2, m} /\ Max({2, m}) >= 2 /\ Max({2, m}) >= m
    BY <2>3a, MinMax, Zenon
  <2>5. /\ reaper_interval(t) \in 2..C
        /\ reaper_interval(t) = IF t <= 2 THEN 2 ELSE IF t <= C THEN t ELSE C
    BY <2>1, <2>2, <2>3, <2>4
  <2> QED
    BY <2>5 DEF C
<1>2. ASSUME NEW t \in Nat, NEW u \in Nat, t <= u
      PROVE  reaper_interval(t) <= reaper_interval(u)
  BY <1>1, <1>2, BackendAssumption
<1> QED
  BY <1>1, <1>2

\* The cadence fits every pool that is published.
LEMMA CadenceFacts ==
    ASSUME NEW cur \in [Envs -> Ids \cup {None}], NEW ps,
           \A e \in Envs : cur[e] # None => ps[cur[e]].timeout \in Nat
    PROVE  /\ current_reap_interval(cur, ps) \in 2..(2 * Ceiling)
           /\ \A e \in Envs : cur[e] # None /\ ps[cur[e]].timeout > 0
                 => current_reap_interval(cur, ps) <= reaper_interval(ps[cur[e]].timeout)
<1> DEFINE timeouts == {ps[cur[e]].timeout : e \in {f \in Envs : cur[f] # None}} \ {0}
<1>1. timeouts \in SUBSET Nat
  OBVIOUS
<1>2. \A e \in Envs : cur[e] # None /\ ps[cur[e]].timeout > 0 => ps[cur[e]].timeout \in timeouts
  OBVIOUS
<1>3. current_reap_interval(cur, ps)
        = IF timeouts = {} THEN 2 * Ceiling ELSE reaper_interval(Min(timeouts))
  BY DEF current_reap_interval
<1> HIDE DEF timeouts
<1>4. CASE timeouts = {}
  BY <1>2, <1>3, <1>4, BackendAssumption
<1>5. CASE timeouts # {}
  <2>1. Min(timeouts) \in timeouts /\ \A x \in timeouts : Min(timeouts) <= x
    BY <1>1, <1>5, MinOf
  <2>2. Min(timeouts) \in Nat
    BY <1>1, <2>1
  <2> QED
    BY <1>2, <1>3, <1>5, <2>1, <2>2, IntervalFacts
<1> QED
  BY <1>4, <1>5

-----------------------------------------------------------------------------
(* retain *)

Kept(s, t, f, n) ==
    IF n = 0 THEN <<>>
    ELSE IF should_retain(s[n].age, t) THEN Append(f[n - 1], s[n]) ELSE f[n - 1]

\* The recursion of retain has a solution, so that retain computes one.
LEMMA RetainDefined ==
    ASSUME NEW s \in Seq(Conn), NEW t
    PROVE  \E f : /\ \A n \in 0..Len(s) : f[n] = Kept(s, t, f, n)
                  /\ retain(s, t) = f[Len(s)]
<1> DEFINE Good(n) == \E f \in [0..n -> Seq(Conn)] : \A m \in 0..n : f[m] = Kept(s, t, f, m)
           G == {n \in Nat : Good(n)}
<1>1. Good(0)
  <2> DEFINE f == [m \in 0..0 |-> <<>>]
  <2>1. f \in [0..0 -> Seq(Conn)] /\ \A m \in 0..0 : f[m] = Kept(s, t, f, m)
    BY DEF Kept
  <2> QED
    BY <2>1
<1>2. ASSUME NEW n \in 1..Len(s), Good(n - 1) PROVE Good(n)
  <2>1. PICK f \in [0..(n - 1) -> Seq(Conn)] : \A m \in 0..(n - 1) : f[m] = Kept(s, t, f, m)
    BY <1>2
  <2> DEFINE x == Kept(s, t, f, n)
             g == [m \in 0..n |-> IF m = n THEN x ELSE f[m]]
  <2>2. x \in Seq(Conn)
    BY DEF Kept
  <2> HIDE DEF x
  <2>3. g \in [0..n -> Seq(Conn)] /\ g[n] = x /\ \A m \in 0..(n - 1) : g[m] = f[m]
    BY <2>2
  <2> HIDE DEF g
  <2>4. ASSUME NEW m \in 0..n PROVE g[m] = Kept(s, t, g, m)
    <3>1. Kept(s, t, g, m) = Kept(s, t, f, m)
      BY <2>3 DEF Kept
    <3>2. CASE m = n
      BY <2>3, <3>1, <3>2 DEF x
    <3>3. CASE m # n
      <4>1. m \in 0..(n - 1)
        BY <3>3
      <4> QED
        BY <2>1, <2>3, <3>1, <4>1
    <3> QED
      BY <3>2, <3>3
  <2> QED
    BY <2>3, <2>4
<1>3. Good(Len(s))
  <2> HIDE DEF Good
  <2>1. 0 \in G /\ \A m \in 1..Len(s) : m - 1 \in G => m \in G
    BY <1>1, <1>2
  <2>2. Len(s) \in Nat /\ Len(s) \in 0..Len(s)
    OBVIOUS
  <2>3. Len(s) \in G
    <3> HIDE DEF G
    <3> QED
      BY <2>1, <2>2, Upto, Zenon
  <2> QED
    BY <2>3
<1>4. \E f : f = [n \in 0..Len(s) |-> Kept(s, t, f, n)]
  BY <1>3
<1> DEFINE kept == CHOOSE f : f = [n \in 0..Len(s) |-> Kept(s, t, f, n)]
<1>5. kept = [n \in 0..Len(s) |-> Kept(s, t, kept, n)]
  BY <1>4, Zenon
<1>6. retain(s, t) = kept[Len(s)]
  BY DEF retain, Kept
<1> HIDE DEF kept
<1>7. \A n \in 0..Len(s) : kept[n] = Kept(s, t, kept, n)
  BY <1>5
<1> QED
  BY <1>6, <1>7

\* What retain returns: connections that were there, each to be retained.
LEMMA RetainFacts ==
    ASSUME NEW s \in Seq(Conn), NEW t
    PROVE  /\ retain(s, t) \in Seq(Conn)
           /\ \A i \in DOMAIN retain(s, t) :
                /\ should_retain(retain(s, t)[i].age, t)
                /\ \E j \in DOMAIN s : retain(s, t)[i] = s[j]
<1>1. PICK f : (\A n \in 0..Len(s) : f[n] = Kept(s, t, f, n)) /\ retain(s, t) = f[Len(s)]
  BY RetainDefined
<1> DEFINE OK(r) == /\ r \in Seq(Conn)
                    /\ \A i \in DOMAIN r : /\ should_retain(r[i].age, t)
                                           /\ \E j \in DOMAIN s : r[i] = s[j]
           G == {n \in 0..Len(s) : OK(f[n])}
<1>2. OK(<<>>)
  OBVIOUS
<1>3. ASSUME NEW r, OK(r), NEW n \in 1..Len(s), should_retain(s[n].age, t)
      PROVE  OK(Append(r, s[n]))
  <2>1. r \in Seq(Conn) /\ s[n] \in Conn /\ n \in DOMAIN s
    BY <1>3
  <2>2. Append(r, s[n]) \in Seq(Conn)
    BY <2>1
  <2>3. ASSUME NEW i \in DOMAIN Append(r, s[n])
        PROVE  /\ should_retain(Append(r, s[n])[i].age, t)
               /\ \E j \in DOMAIN s : Append(r, s[n])[i] = s[j]
    <3>1. CASE i = Len(r) + 1
      <4>1. Append(r, s[n])[i] = s[n]
        BY <2>1, <3>1
      <4> QED
        BY <1>3, <2>1, <4>1
    <3>2. CASE i # Len(r) + 1
      <4>1. i \in DOMAIN r /\ Append(r, s[n])[i] = r[i]
        BY <2>1, <2>3, <3>2
      <4> QED
        BY <1>3, <4>1
    <3> QED
      BY <3>1, <3>2
  <2> QED
    BY <2>2, <2>3
<1> HIDE DEF OK
<1>4. 0 \in G
  BY <1>1, <1>2 DEF Kept
<1>5. \A n \in 1..Len(s) : n - 1 \in G => n \in G
  <2> SUFFICES ASSUME NEW n \in 1..Len(s), OK(f[n - 1]) PROVE OK(f[n])
    OBVIOUS
  <2>1. f[n] = IF should_retain(s[n].age, t) THEN Append(f[n - 1], s[n]) ELSE f[n - 1]
    BY <1>1 DEF Kept
  <2> QED
    BY <1>3, <2>1
<1>6. Len(s) \in Nat /\ Len(s) \in 0..Len(s)
  OBVIOUS
<1>7. Len(s) \in G
  <2> HIDE DEF G
  <2> QED
    BY <1>4, <1>5, <1>6, Upto, Zenon
<1> QED
  BY <1>1, <1>7 DEF OK

-----------------------------------------------------------------------------
(* The invariant.  Its parts are operators of what they are about, so that *)
(* they can be stated of the pools before the ones nobody holds are gone.  *)

\* The sweep that comes next was planned with this pool in view.
Seen(x) == x.timeout > 0 /\ ~x.unseen

\* A connection has rested no longer than it is unused, or is due to be closed.
RestOK(k, t) == k.rest <= k.age \/ k.age >= 2 * t

\* It will be closed in time if the next sweep is d half-seconds away.
InTime(k, t, d) == k.rest + d < Deadline(t) \/ k.rest < 2 * t

PoolsOK(ps) ==
    /\ DOMAIN ps \subseteq Ids /\ ps \in [DOMAIN ps -> Pool]
    /\ \A p \in DOMAIN ps : \A i \in DOMAIN ps[p].idle : RestOK(ps[p].idle[i], ps[p].timeout)

TableOK(cur, ps) ==
    /\ cur \in [Envs -> Ids \cup {None}]
    /\ \A e \in Envs : cur[e] # None => cur[e] \in DOMAIN ps /\ ps[cur[e]].env = e

ClientsOK(cl, ps) ==
    /\ cl \in [Clients -> ClientStates]
    /\ \A c \in Clients : /\ cl[c].pool # None => cl[c].pool \in DOMAIN ps
                          /\ cl[c].at \in {"recycling", "busy"} => cl[c].conn.rest = 0

PoolInTime(x, d, w) ==
    /\ ~w => d <= reaper_interval(x.timeout)
    /\ \A i \in DOMAIN x.idle : InTime(x.idle[i], x.timeout, d)

ReaperOK(cur, ps, d, w) ==
    /\ d \in 0..(2 * Ceiling) /\ w \in BOOLEAN
    /\ \A e \in Envs : cur[e] # None /\ Seen(ps[cur[e]]) => PoolInTime(ps[cur[e]], d, w)

\* Until the reaper is there it has planned for nobody.
StartOK(rn, ps) == rn \in BOOLEAN /\ (~rn => \A p \in DOMAIN ps : ps[p].unseen)

SshOK(sl, up) == sl \in Ids \cup {None} /\ up \subseteq Ids

CountsOK(b, f) == b \in 0..MaxBuilds /\ f \in 0..MaxFaults

\* Pools and SSH sessions are numbered as they are built.
Fresh(ps, b) == \A p \in DOMAIN ps : p <= b

BackendInv ==
    /\ PoolsOK(pools) /\ TableOK(current, pools) /\ ClientsOK(client, pools)
    /\ ReaperOK(current, pools, due, woken) /\ SshOK(slot, ssh) /\ CountsOK(builds, faults)
    /\ Fresh(pools, builds) /\ StartOK(running, pools)

-----------------------------------------------------------------------------
(* Clients and connections *)

\* A client is gone, or has a pool; it has a connection when it uses one.
LEMMA ClientFacts ==
    ASSUME NEW x \in ClientStates
    PROVE  /\ x.at = "gone" <=> x = Gone
           /\ x # Gone => x.pool \in Ids
           /\ x = Gone => x.pool = None
           /\ x.at \in {"recycling", "busy"} => x.conn \in Conn
           /\ x.pool \in Ids \cup {None}
  BY DEF ClientStates, Gone

\* One client moves, and the others stay.
LEMMA ClientMoves ==
    ASSUME NEW cl, NEW ps, ClientsOK(cl, ps), NEW c \in Clients, NEW y \in ClientStates,
           y.pool # None => y.pool \in DOMAIN ps,
           y.at \in {"recycling", "busy"} => y.conn.rest = 0
    PROVE  ClientsOK([cl EXCEPT ![c] = y], ps)
  BY DEF ClientsOK

\* What is held are the published pools and those of the clients.
LEMMA HeldFacts ==
    ASSUME NEW cur, NEW cl, NEW ps, TableOK(cur, ps), ClientsOK(cl, ps)
    PROVE  /\ Held(cur, cl) \subseteq DOMAIN ps
           /\ \A e \in Envs : cur[e] # None => cur[e] \in Held(cur, cl)
           /\ \A c \in Clients : cl[c].pool # None => cl[c].pool \in Held(cur, cl)
  BY DEF Held, TableOK, ClientsOK

\* Dropping what nobody holds keeps the invariant.
LEMMA PublishKeeps ==
    ASSUME NEW cur, NEW cl, NEW ps, NEW sl, NEW up, Publish(cur, cl, ps, sl, up),
           PoolsOK(ps), TableOK(cur, ps), ClientsOK(cl, ps), SshOK(sl, up),
           ReaperOK(cur, ps, due', woken'), CountsOK(builds', faults'), Fresh(ps, builds'),
           StartOK(running', ps)
    PROVE  BackendInv'
<1> DEFINE held == Held(cur, cl)
<1>1. /\ held \subseteq DOMAIN ps
      /\ \A e \in Envs : cur[e] # None => cur[e] \in held
      /\ \A c \in Clients : cl[c].pool # None => cl[c].pool \in held
  BY HeldFacts
<1>2. /\ current' = cur /\ client' = cl /\ slot' = sl /\ pools' = [p \in held |-> ps[p]]
      /\ ssh' \subseteq up
  BY DEF Publish, Restrict
<1> HIDE DEF held
<1>3. DOMAIN pools' = held /\ \A p \in held : pools'[p] = ps[p]
  BY <1>2
<1>4. PoolsOK(pools')
  BY <1>1, <1>2, <1>3 DEF PoolsOK
<1>5. TableOK(cur, pools')
  BY <1>1, <1>3 DEF TableOK
<1>6. ClientsOK(cl, pools')
  BY <1>1, <1>3 DEF ClientsOK
<1>7. ReaperOK(cur, pools', due', woken')
  BY <1>1, <1>3 DEF ReaperOK
<1>8. SshOK(sl, ssh') /\ Fresh(pools', builds') /\ StartOK(running', pools')
  BY <1>1, <1>2, <1>3 DEF SshOK, Fresh, StartOK
<1> QED
  BY <1>2, <1>4, <1>5, <1>6, <1>7, <1>8 DEF BackendInv

\* The same pool but for its connections.
SamePool(x, y) ==
    x.env = y.env /\ x.via = y.via /\ x.timeout = y.timeout /\ x.unseen = y.unseen

\* A step of a client keeps the invariant if what it does to the pools and to
\* the client does.
LEMMA SessionKeeps ==
    ASSUME BackendInv, NEW cl, NEW ps, Session(cl, ps), faults' = faults,
           PoolsOK(ps), DOMAIN ps = DOMAIN pools, \A p \in DOMAIN ps : SamePool(ps[p], pools[p]),
           ClientsOK(cl, ps), ReaperOK(current, ps, due, woken)
    PROVE  BackendInv'
<1>1. Publish(current, cl, ps, slot, ssh) /\ UNCHANGED <<running, due, woken, builds>>
  BY DEF Session
<1>2. TableOK(current, ps) /\ StartOK(running', ps)
  BY <1>1 DEF BackendInv, TableOK, StartOK, SamePool
<1>3. ReaperOK(current, ps, due', woken') /\ CountsOK(builds', faults') /\ SshOK(slot, ssh)
      /\ Fresh(ps, builds')
  BY <1>1 DEF BackendInv, Fresh
<1> QED
  BY <1>1, <1>2, <1>3, PublishKeeps

SameAge(k, l) == k.rest = l.rest /\ k.age = l.age

\* The idle connections of one pool change: some are taken, some come back.
LEMMA PoolChanges ==
    ASSUME BackendInv, NEW p \in DOMAIN pools, NEW s \in Seq(Conn),
           \A i \in DOMAIN s : \/ s[i].rest = 0
                               \/ \E j \in DOMAIN pools[p].idle : SameAge(s[i], pools[p].idle[j])
    PROVE  LET ps == [pools EXCEPT ![p].idle = s]
           IN  /\ PoolsOK(ps) /\ DOMAIN ps = DOMAIN pools
               /\ \A q \in DOMAIN pools : SamePool(ps[q], pools[q])
               /\ ReaperOK(current, ps, due, woken)
<1> DEFINE x == [pools[p] EXCEPT !.idle = s]
           ps == [pools EXCEPT ![p] = x]
<1>1. pools \in [DOMAIN pools -> Pool] /\ pools[p] \in Pool /\ pools[p].timeout \in Nat
  BY DEF BackendInv, PoolsOK, Pool
<1>2. x \in Pool /\ x.idle = s /\ SamePool(x, pools[p])
  BY <1>1 DEF Pool, SamePool
<1> HIDE DEF x
<1>3. /\ DOMAIN ps = DOMAIN pools /\ ps[p] = x /\ ps \in [DOMAIN ps -> Pool]
      /\ \A q \in DOMAIN pools : q # p => ps[q] = pools[q]
  BY <1>1, <1>2
<1>4. \A q \in DOMAIN pools : SamePool(ps[q], pools[q])
  BY <1>2, <1>3 DEF SamePool
<1> HIDE DEF ps
<1>5. ASSUME NEW k \in Conn, NEW t \in Nat, k.rest = 0
      PROVE  RestOK(k, t) /\ (t > 0 => InTime(k, t, due))
  BY <1>5 DEF RestOK, InTime, Conn
<1>6. PoolsOK(ps)
  <2>1. \A i \in DOMAIN s : RestOK(s[i], pools[p].timeout)
    <3> SUFFICES ASSUME NEW i \in DOMAIN s PROVE RestOK(s[i], pools[p].timeout)
      OBVIOUS
    <3>1. s[i] \in Conn
      OBVIOUS
    <3>2. CASE s[i].rest = 0
      BY <1>1, <1>5, <3>1, <3>2
    <3>3. CASE \E j \in DOMAIN pools[p].idle : SameAge(s[i], pools[p].idle[j])
      BY <3>3 DEF BackendInv, PoolsOK, SameAge, RestOK
    <3> QED
      BY <3>2, <3>3
  <2> QED
    BY <1>2, <1>3, <2>1 DEF BackendInv, PoolsOK, SamePool
<1>7. ReaperOK(current, ps, due, woken)
  <2> SUFFICES ASSUME NEW e \in Envs, current[e] # None, Seen(ps[current[e]])
               PROVE  PoolInTime(ps[current[e]], due, woken)
    BY DEF BackendInv, ReaperOK
  <2>1. current[e] \in DOMAIN pools
    BY DEF BackendInv, TableOK
  <2>2. CASE current[e] # p
    BY <1>3, <2>1, <2>2 DEF BackendInv, ReaperOK
  <2>3. CASE current[e] = p
    <3>1. x.timeout = pools[p].timeout /\ x.timeout \in Nat /\ x.timeout > 0 /\ Seen(pools[p])
      BY <1>1, <1>2, <1>3, <2>3 DEF Seen, SamePool
    <3>2. PoolInTime(pools[p], due, woken)
      BY <2>3, <3>1 DEF BackendInv, ReaperOK
    <3>3. ASSUME NEW i \in DOMAIN s PROVE InTime(s[i], x.timeout, due)
      <4>1. s[i] \in Conn
        OBVIOUS
      <4>2. CASE s[i].rest = 0
        BY <1>5, <3>1, <4>1, <4>2
      <4>3. CASE \E j \in DOMAIN pools[p].idle : SameAge(s[i], pools[p].idle[j])
        BY <3>1, <3>2, <4>3 DEF PoolInTime, SameAge, InTime
      <4> QED
        BY <4>2, <4>3
    <3> QED
      BY <1>2, <1>3, <2>3, <3>1, <3>2, <3>3 DEF PoolInTime
  <2> QED
    BY <2>2, <2>3
<1> QED
  BY <1>3, <1>4, <1>6, <1>7 DEF ps, x

-----------------------------------------------------------------------------
(* The steps of a client *)

\* The pool of a client that is there.
LEMMA ClientPool ==
    ASSUME BackendInv, NEW c \in Clients, client[c].at # "gone"
    PROVE  /\ client[c] \in ClientStates /\ client[c] # Gone
           /\ client[c].pool \in DOMAIN pools /\ client[c].pool \in Ids /\ client[c].pool # None
           /\ PoolOf(c) \in Pool /\ PoolOf(c).idle \in Seq(Conn)
<1>1. client[c] \in ClientStates /\ client \in [Clients -> ClientStates]
  BY DEF BackendInv, ClientsOK
<1>2. client[c] # Gone /\ client[c].pool \in Ids
  BY <1>1, ClientFacts
<1>3. client[c].pool # None
  BY <1>2, BackendAssumption DEF Ids
<1>4. client[c].pool \in DOMAIN pools
  BY <1>3 DEF BackendInv, ClientsOK
<1>5. PoolOf(c) \in Pool
  BY <1>4 DEF BackendInv, PoolsOK, PoolOf
<1> QED
  BY <1>1, <1>2, <1>3, <1>4, <1>5 DEF Pool

\* A client that takes or gives back no connection.
LEMMA MoveKeeps ==
    ASSUME BackendInv, NEW c \in Clients, NEW y \in ClientStates,
           y.pool # None => y.pool \in DOMAIN pools,
           y.at \in {"recycling", "busy"} => y.conn.rest = 0,
           Session([client EXCEPT ![c] = y], pools), faults' = faults
    PROVE  BackendInv'
<1>1. ClientsOK([client EXCEPT ![c] = y], pools)
  BY ClientMoves DEF BackendInv
<1>2. \A p \in DOMAIN pools : SamePool(pools[p], pools[p])
  BY DEF SamePool
<1> QED
  BY <1>1, <1>2, SessionKeeps DEF BackendInv

\* Goto is a move of the client.
LEMMA GotoIs ==
    ASSUME BackendInv, NEW c \in Clients, NEW at, NEW k
    PROVE  Goto(c, at, k) = [client EXCEPT ![c] = [client[c] EXCEPT !.at = at, !.conn = k]]
<1>1. client \in [Clients -> ClientStates]
  BY DEF BackendInv, ClientsOK
<1> QED
  BY <1>1 DEF Goto

\* A client is accepted.
LEMMA AcceptStep ==
    ASSUME BackendInv, NEW c \in Clients, NEW e \in Envs, accept(c, e)
    PROVE  BackendInv'
<1> DEFINE y == [at |-> "ready", pool |-> current[e], conn |-> None]
<1>1. current[e] # None /\ Session([client EXCEPT ![c] = y], pools) /\ faults' = faults
  BY DEF accept
<1>2. current[e] \in DOMAIN pools /\ current[e] \in Ids
  BY <1>1 DEF BackendInv, TableOK
<1>3. y \in ClientStates /\ y.pool \in DOMAIN pools /\ y.at = "ready"
  BY <1>2 DEF ClientStates
<1> HIDE DEF y
<1> QED
  BY <1>1, <1>3, MoveKeeps

\* It goes where it has no connection.
LEMMA PlainStep ==
    ASSUME BackendInv, NEW c \in Clients, client[c].at # "gone",
           NEW at \in {"ready", "waiting", "creating"}, Session(Goto(c, at, None), pools),
           faults' = faults
    PROVE  BackendInv'
<1> DEFINE y == [client[c] EXCEPT !.at = at, !.conn = None]
<1>1. y = [client[c] EXCEPT !.at = at, !.conn = None]
  OBVIOUS
<1>2. Session([client EXCEPT ![c] = y], pools)
  BY GotoIs
<1> HIDE DEF y
<1>3. y \in ClientStates /\ y.pool \in DOMAIN pools /\ y.at = at
  <2>1. client[c] \in ClientStates /\ client[c] # Gone /\ client[c].pool \in DOMAIN pools
    BY ClientPool
  <2> QED
    BY <1>1, <2>1 DEF ClientStates
<1> QED
  BY <1>2, <1>3, MoveKeeps

\* It goes on with a connection.
LEMMA ConnStep ==
    ASSUME BackendInv, NEW c \in Clients, client[c].at # "gone",
           NEW k \in Conn, k.rest = 0, Session(Goto(c, "busy", k), pools), faults' = faults
    PROVE  BackendInv'
<1> DEFINE y == [client[c] EXCEPT !.at = "busy", !.conn = k]
<1>1. y = [client[c] EXCEPT !.at = "busy", !.conn = k]
  OBVIOUS
<1>2. Session([client EXCEPT ![c] = y], pools)
  BY GotoIs
<1> HIDE DEF y
<1>3. y \in ClientStates /\ y.pool \in DOMAIN pools /\ y.at = "busy" /\ y.conn = k
  <2>1. client[c] \in ClientStates /\ client[c] # Gone /\ client[c].pool \in DOMAIN pools
    BY ClientPool
  <2> QED
    BY <1>1, <2>1 DEF ClientStates
<1> QED
  BY <1>2, <1>3, MoveKeeps

\* It takes a connection out of its pool.
LEMMA TakeStep ==
    ASSUME BackendInv, NEW c \in Clients, client[c].at # "gone", Take(c), faults' = faults
    PROVE  BackendInv'
<1> DEFINE idle == PoolOf(c).idle
           p == client[c].pool
<1>1. CASE idle = <<>>
  BY <1>1, PlainStep DEF Take
<1>2. CASE idle # <<>>
  <2> DEFINE k == [Head(idle) EXCEPT !.age = 0, !.rest = 0]
             ps == [pools EXCEPT ![p].idle = Tail(idle)]
             y == [client[c] EXCEPT !.at = "recycling", !.conn = k]
  <2>1. idle \in Seq(Conn) /\ p \in DOMAIN pools /\ idle = pools[p].idle
    BY ClientPool DEF PoolOf
  <2>2. Head(idle) \in Conn /\ Tail(idle) \in Seq(Conn)
    BY <1>2, <2>1
  <2>3. k \in Conn /\ k.rest = 0
    BY <2>2 DEF Conn
  <2>4. \A i \in DOMAIN Tail(idle) :
            \E j \in DOMAIN pools[p].idle : SameAge(Tail(idle)[i], pools[p].idle[j])
    BY <1>2, <2>1 DEF SameAge
  <2>5. Session(Goto(c, "recycling", k), ps)
    BY <1>2 DEF Take
  <2>7. /\ PoolsOK(ps) /\ DOMAIN ps = DOMAIN pools
        /\ \A q \in DOMAIN pools : SamePool(ps[q], pools[q])
        /\ ReaperOK(current, ps, due, woken)
    BY <2>1, <2>2, <2>4, PoolChanges
  <2> HIDE DEF k, ps
  <2>6. y = [client[c] EXCEPT !.at = "recycling", !.conn = k] /\ Session([client EXCEPT ![c] = y], ps)
    BY <2>5, GotoIs
  <2> HIDE DEF y
  <2>8. y \in ClientStates /\ y.pool = p /\ y.conn = k
    <3>1. client[c] \in ClientStates /\ client[c] # Gone
      BY ClientPool
    <3> QED
      BY <2>3, <2>6, <3>1 DEF ClientStates
  <2>9. ClientsOK(client, ps)
    BY <2>7 DEF BackendInv, ClientsOK
  <2>10. ClientsOK([client EXCEPT ![c] = y], ps)
    BY <2>1, <2>3, <2>7, <2>8, <2>9, ClientMoves
  <2> QED
    BY <2>6, <2>7, <2>10, SessionKeeps
<1> QED
  BY <1>1, <1>2

\* It gives its connection back.
LEMMA ReturnStep ==
    ASSUME BackendInv, NEW c \in Clients, client[c].at = "busy", NEW y \in ClientStates,
           y.pool # None => y.pool = client[c].pool, y.at \notin {"recycling", "busy"},
           Return(c, [client EXCEPT ![c] = y]), faults' = faults
    PROVE  BackendInv'
<1> DEFINE p == client[c].pool
           k == client[c].conn
           s == Append(pools[p].idle, k)
           ps == [pools EXCEPT ![p].idle = s]
<1>1. /\ p \in DOMAIN pools /\ pools[p].idle \in Seq(Conn) /\ client[c] \in ClientStates
  BY ClientPool DEF PoolOf
<1>2. k \in Conn /\ k.rest = 0
  BY <1>1, ClientFacts DEF BackendInv, ClientsOK
<1>3. Session([client EXCEPT ![c] = y], ps)
  BY DEF Return
<1> HIDE DEF p, k
<1>4. /\ s \in Seq(Conn)
      /\ \A i \in DOMAIN s :
            s[i].rest = 0 \/ \E j \in DOMAIN pools[p].idle : SameAge(s[i], pools[p].idle[j])
  BY <1>1, <1>2 DEF SameAge
<1> HIDE DEF s
<1>5. /\ PoolsOK(ps) /\ DOMAIN ps = DOMAIN pools
      /\ \A q \in DOMAIN pools : SamePool(ps[q], pools[q])
      /\ ReaperOK(current, ps, due, woken)
  BY <1>1, <1>4, PoolChanges
<1> HIDE DEF ps
<1>6. ClientsOK(client, ps)
  BY <1>5 DEF BackendInv, ClientsOK
<1>7. ClientsOK([client EXCEPT ![c] = y], ps)
  BY <1>1, <1>5, <1>6, ClientMoves DEF p
<1> QED
  BY <1>3, <1>5, <1>7, SessionKeeps

\* Every step of a client keeps the invariant.
LEMMA ClientStep ==
    ASSUME BackendInv, NEW c \in Clients,
           (\E e \in Dials[c] : accept(c, e)) \/ Ask(c) \/ Checkout(c) \/ Done(c) \/ Leave(c)
    PROVE  BackendInv'
<1>1. client[c] \in ClientStates /\ Dials[c] \subseteq Envs
  BY BackendAssumption DEF BackendInv, ClientsOK
<1>2. client[c].at \in {"recycling", "busy"} => client[c].conn \in Conn /\ client[c].conn.rest = 0
  BY <1>1, ClientFacts DEF BackendInv, ClientsOK
<1>3. CASE \E e \in Dials[c] : accept(c, e)
  BY <1>1, <1>3, AcceptStep
<1>4. CASE Ask(c) \/ wait_timeout(c)
  BY <1>4, PlainStep DEF Ask, wait_timeout
<1>5. CASE GetPermit(c)
  BY <1>5, TakeStep DEF GetPermit
<1>6. CASE recycle(c)
  BY <1>2, <1>6, TakeStep, ConnStep DEF recycle
<1>7. CASE create(c)
  <2>1. CASE Reaches(PoolOf(c))
    <3> DEFINE k == [age |-> 0, rest |-> 0, up |-> TRUE]
    <3>1. k \in Conn /\ k.rest = 0 /\ Session(Goto(c, "busy", k), pools) /\ faults' = faults
      BY <1>7, <2>1 DEF create, Conn
    <3> HIDE DEF k
    <3> QED
      BY <1>7, <3>1, ConnStep DEF create
  <2>2. CASE ~Reaches(PoolOf(c))
    BY <1>7, <2>2, PlainStep DEF create
  <2> QED
    BY <2>1, <2>2
<1>8. CASE Done(c)
  <2> DEFINE y == [client[c] EXCEPT !.at = "ready", !.conn = None]
  <2>1. client[c].at = "busy" /\ Return(c, [client EXCEPT ![c] = y]) /\ faults' = faults
    BY <1>8, GotoIs DEF Done
  <2>2. y = [client[c] EXCEPT !.at = "ready", !.conn = None] /\ client[c] # Gone
    BY <2>1 DEF Gone
  <2> HIDE DEF y
  <2>3. y \in ClientStates /\ y.pool = client[c].pool /\ y.at = "ready"
    BY <1>1, <2>2 DEF ClientStates
  <2> QED
    BY <2>1, <2>3, ReturnStep
<1>9. CASE Leave(c)
  <2>1. Gone \in ClientStates /\ Gone.pool = None /\ Gone.at = "gone"
    BY DEF ClientStates, Gone
  <2>2. CASE client[c].at = "busy"
    BY <1>9, <2>1, <2>2, ReturnStep DEF Leave
  <2>3. CASE client[c].at # "busy"
    BY <1>9, <2>1, <2>3, MoveKeeps DEF Leave
  <2> QED
    BY <2>2, <2>3
<1> QED
  BY <1>3, <1>4, <1>5, <1>6, <1>7, <1>8, <1>9 DEF Checkout

-----------------------------------------------------------------------------
(* The env table *)

\* The reaper has planned for this timeout when it planned for the pool that is
\* replaced.
Covered(e, t) ==
    current[e] # None /\ Seen(pools[current[e]]) /\ pools[current[e]].timeout <= t

\* A new pool has a number nobody has, and no connection yet.
LEMMA PublishNewKeeps ==
    ASSUME BackendInv, NEW e \in Envs, NEW t \in Nat, NEW u \in BOOLEAN, PublishNew(e, t, u),
           due' = due, faults' = faults, running' = running, ~running => u,
           woken' = TRUE \/ (woken' = woken /\ (u \/ t = 0 \/ Covered(e, t)))
    PROVE  BackendInv'
<1> DEFINE b == builds + 1
           sl == IF e \in Tunnelled THEN get_or_open ELSE slot
           opened == IF sl # slot THEN {sl} ELSE {}
           x == build_env_runtime(e, sl, t, u)
           ps == [p \in DOMAIN pools \cup {b} |-> IF p = b THEN x ELSE pools[p]]
           cur == [current EXCEPT ![e] = b]
<1>1. builds < MaxBuilds /\ builds' = b /\ Publish(cur, client, ps, sl, ssh \cup opened)
  BY DEF PublishNew
<1>2. b \in Ids /\ b \in 0..MaxBuilds /\ b # None /\ builds < b /\ b \notin DOMAIN pools
  BY <1>1, BackendAssumption DEF BackendInv, CountsOK, Ids, Fresh, PoolsOK
<1>3. sl \in Ids \cup {None} /\ (sl # slot => sl \in Ids) /\ (e \in Tunnelled => sl \in Ids)
  BY <1>2 DEF get_or_open, BackendInv, SshOK
<1>4. x \in Pool /\ x.env = e /\ x.idle = <<>> /\ x.timeout = t /\ x.unseen = u
  <2> HIDE DEF sl
  <2> QED
    BY <1>3 DEF build_env_runtime, Pool
<1>5. SshOK(sl, ssh \cup opened)
  BY <1>3 DEF SshOK, BackendInv
<1> HIDE DEF b, sl, opened, x
<1>6. /\ DOMAIN ps = DOMAIN pools \cup {b} /\ ps[b] = x /\ ps \in [DOMAIN ps -> Pool]
      /\ \A p \in DOMAIN pools : ps[p] = pools[p]
  BY <1>2, <1>4 DEF BackendInv, PoolsOK
<1>7. /\ cur \in [Envs -> Ids \cup {None}] /\ cur[e] = b
      /\ \A f \in Envs : f # e => cur[f] = current[f]
  BY <1>2 DEF BackendInv, TableOK
<1> HIDE DEF ps, cur
<1>8. PoolsOK(ps)
  BY <1>2, <1>4, <1>6 DEF BackendInv, PoolsOK
<1>9. TableOK(cur, ps)
  BY <1>4, <1>6, <1>7 DEF BackendInv, TableOK
<1>10. ClientsOK(client, ps)
  BY <1>6 DEF BackendInv, ClientsOK
<1>11. ReaperOK(cur, ps, due', woken')
  <2>1. due' \in 0..(2 * Ceiling) /\ woken' \in BOOLEAN
    BY DEF BackendInv, ReaperOK
  <2>2. ASSUME NEW f \in Envs, cur[f] # None, Seen(ps[cur[f]])
        PROVE  PoolInTime(ps[cur[f]], due', woken')
    <3>1. CASE f = e
      <4>1. ps[cur[f]] = x /\ ~u /\ t > 0
        BY <1>4, <1>6, <1>7, <2>2, <3>1 DEF Seen
      <4>2. ~woken' => due' <= reaper_interval(t)
        <5> SUFFICES ASSUME ~woken' PROVE due' <= reaper_interval(t)
          OBVIOUS
        <5> DEFINE o == pools[current[e]].timeout
        <5>1. woken' = woken /\ Covered(e, t)
          BY <4>1
        <5>2. PoolInTime(pools[current[e]], due, woken) /\ current[e] \in DOMAIN pools
          BY <5>1 DEF BackendInv, ReaperOK, TableOK, Covered
        <5>3. due <= reaper_interval(o) /\ o \in Nat /\ o <= t
          BY <5>1, <5>2 DEF PoolInTime, Covered, BackendInv, PoolsOK, Pool
        <5> HIDE DEF o
        <5>4. /\ reaper_interval(o) <= reaper_interval(t)
              /\ reaper_interval(o) \in 2..(2 * Ceiling) /\ reaper_interval(t) \in 2..(2 * Ceiling)
          BY <5>3, IntervalFacts
        <5>5. due \in 0..(2 * Ceiling) /\ Ceiling \in Nat
          BY BackendAssumption DEF BackendInv, ReaperOK
        <5> QED
          BY <5>3, <5>4, <5>5
      <4> QED
        BY <1>4, <4>1, <4>2 DEF PoolInTime
    <3>2. CASE f # e
      <4>1. cur[f] = current[f] /\ current[f] \in DOMAIN pools /\ ps[cur[f]] = pools[current[f]]
        BY <1>6, <1>7, <2>2, <3>2 DEF BackendInv, TableOK
      <4>2. PoolInTime(pools[current[f]], due, woken)
        BY <2>2, <4>1 DEF BackendInv, ReaperOK
      <4> QED
        BY <4>1, <4>2 DEF PoolInTime
    <3> QED
      BY <3>1, <3>2
  <2> QED
    BY <2>1, <2>2 DEF ReaperOK
<1>12. CountsOK(builds', faults') /\ Fresh(ps, builds')
  BY <1>1, <1>2, <1>6 DEF BackendInv, CountsOK, Fresh, PoolsOK, Ids
<1>13. StartOK(running', ps)
  BY <1>4, <1>6 DEF BackendInv, StartOK
<1> QED
  BY <1>1, <1>5, <1>8, <1>9, <1>10, <1>11, <1>12, <1>13, PublishKeeps

\* An env is removed, and its clients with it.
LEMMA RemoveKeeps ==
    ASSUME BackendInv, NEW e \in Envs, apply_rm_env(e)
    PROVE  BackendInv'
<1> DEFINE cur == [current EXCEPT ![e] = None]
           cl == [c \in Clients |-> IF client[c] # Gone /\ pools[client[c].pool].env = e
                                    THEN Gone ELSE client[c]]
<1>1. Publish(cur, cl, pools, slot, ssh) /\ UNCHANGED <<running, due, woken, builds, faults>>
  BY DEF apply_rm_env
<1>2. Gone \in ClientStates /\ Gone.pool = None /\ Gone.at = "gone"
  BY DEF ClientStates, Gone
<1>3. cl \in [Clients -> ClientStates] /\ \A c \in Clients : cl[c] = Gone \/ cl[c] = client[c]
  BY <1>2 DEF BackendInv, ClientsOK
<1>4. /\ cur \in [Envs -> Ids \cup {None}]
      /\ \A f \in Envs : cur[f] = None \/ cur[f] = current[f]
  BY DEF BackendInv, TableOK
<1> HIDE DEF cur, cl
<1>5. ClientsOK(cl, pools)
  BY <1>2, <1>3 DEF BackendInv, ClientsOK
<1>6. TableOK(cur, pools) /\ ReaperOK(cur, pools, due', woken')
  BY <1>1, <1>4 DEF BackendInv, TableOK, ReaperOK
<1> QED
  BY <1>1, <1>5, <1>6, PublishKeeps DEF BackendInv

\* Every change of the env table and of the registry keeps the invariant.
LEMMA TableStep ==
    ASSUME BackendInv, Table
    PROVE  BackendInv'
<1>0. \A e \in Envs : IdleTimeout[e] \in Nat
  BY BackendAssumption
<1>1. ASSUME NEW e \in Envs, apply_add_env(e) PROVE BackendInv'
  BY <1>0, <1>1, PublishNewKeeps DEF apply_add_env
<1>1a. ASSUME NEW e \in Envs, apply_rebuild_backend(e) PROVE BackendInv'
  <2> DEFINE old == pools[current[e]]
             t == IdleTimeout[e]
             u == old.unseen \/ Shortens(old.timeout, t)
  <2>1. /\ running /\ current[e] # None /\ PublishNew(e, t, u)
        /\ UNCHANGED <<running, due, woken, faults>>
    BY <1>1a DEF apply_rebuild_backend
  <2>2. old \in Pool
    BY <2>1 DEF BackendInv, TableOK, PoolsOK
  <2>3. old.timeout \in Nat /\ old.unseen \in BOOLEAN
    BY <2>2 DEF Pool
  <2>4. u \in BOOLEAN
    BY <2>3 DEF Shortens
  <2>5. ~u /\ t # 0 => Covered(e, t)
    BY <1>0, <2>1, <2>3 DEF Covered, Seen, Shortens
  <2> HIDE DEF old, t, u
  <2>6. t \in Nat
    BY <1>0 DEF t
  <2> QED
    BY <2>1, <2>4, <2>5, <2>6, PublishNewKeeps
<1>2. CASE \E e \in Envs : apply_rm_env(e)
  BY <1>2, RemoveKeeps
<1>3. CASE evict
  <2>1. Publish(current, client, pools, None, ssh) /\ UNCHANGED <<running, due, woken, builds, faults>>
    BY <1>3 DEF evict
  <2>2. SshOK(None, ssh)
    BY DEF BackendInv, SshOK
  <2> QED
    BY <2>1, <2>2, PublishKeeps DEF BackendInv
<1> QED
  BY <1>1, <1>1a, <1>2, <1>3 DEF Table

\* An env that bind publishes.
LEMMA BindStep ==
    ASSUME BackendInv, NEW e \in Envs, bind_env(e)
    PROVE  BackendInv'
<1> DEFINE t == IF Override = None THEN IdleTimeout[e] ELSE Override
<1>1. t \in Nat
  BY BackendAssumption
<1>2. PublishNew(e, t, TRUE) /\ UNCHANGED <<running, due, woken, faults>>
  BY DEF bind_env
<1> HIDE DEF t
<1> QED
  BY <1>1, <1>2, PublishNewKeeps

-----------------------------------------------------------------------------
(* Failures *)

\* A failure is counted.
LEMMA FaultCounted ==
    ASSUME BackendInv, Fault, builds' = builds
    PROVE  CountsOK(builds', faults')
  BY BackendAssumption DEF BackendInv, CountsOK, Fault

\* An idle connection dies, and is as old as it was.
LEMMA IdleConnDiesStep ==
    ASSUME BackendInv, NEW p \in DOMAIN pools, NEW i \in DOMAIN pools[p].idle, IdleConnDies(p, i)
    PROVE  BackendInv'
<1> DEFINE idle == pools[p].idle
           k == [idle[i] EXCEPT !.up = FALSE]
           s == [idle EXCEPT ![i] = k]
           ps == [pools EXCEPT ![p].idle = s]
<1>1. /\ pools' = ps /\ Fault
      /\ UNCHANGED <<running, slot, ssh, current, client, due, woken, builds>>
  BY DEF IdleConnDies
<1>2. idle \in Seq(Conn) /\ idle[i] \in Conn
  BY DEF BackendInv, PoolsOK, Pool
<1>3. k \in Conn /\ SameAge(k, idle[i])
  BY <1>2 DEF Conn, SameAge
<1> HIDE DEF k
<1>4. s \in Seq(Conn) /\ DOMAIN s = DOMAIN idle /\ s[i] = k /\ \A j \in DOMAIN idle : j # i => s[j] = idle[j]
  BY <1>2, <1>3
<1> HIDE DEF s
<1>5. \A j \in DOMAIN s : \E h \in DOMAIN idle : SameAge(s[j], idle[h])
  BY <1>3, <1>4 DEF SameAge
<1>6. /\ PoolsOK(ps) /\ DOMAIN ps = DOMAIN pools
      /\ \A q \in DOMAIN pools : SamePool(ps[q], pools[q])
      /\ ReaperOK(current, ps, due, woken)
  BY <1>4, <1>5, PoolChanges
<1> HIDE DEF ps
<1>7. TableOK(current, ps) /\ ClientsOK(client, ps) /\ Fresh(ps, builds) /\ StartOK(running, ps)
  BY <1>6 DEF BackendInv, TableOK, ClientsOK, Fresh, StartOK, SamePool
<1>8. CountsOK(builds', faults')
  BY <1>1, FaultCounted
<1> QED
  BY <1>1, <1>6, <1>7, <1>8 DEF BackendInv

\* A connection in use dies.
LEMMA BusyConnDiesStep ==
    ASSUME BackendInv, NEW c \in Clients, BusyConnDies(c)
    PROVE  BackendInv'
<1> DEFINE k == [client[c].conn EXCEPT !.up = FALSE]
           y == [client[c] EXCEPT !.conn = k]
<1>1. /\ client[c].at = "busy" /\ client' = [client EXCEPT ![c] = y] /\ Fault
      /\ UNCHANGED <<running, slot, ssh, pools, current, due, woken, builds>>
  BY DEF BusyConnDies
<1>2. /\ client[c] \in ClientStates /\ client[c].conn \in Conn /\ client[c].conn.rest = 0
      /\ client[c].pool # None => client[c].pool \in DOMAIN pools
  BY <1>1, ClientFacts DEF BackendInv, ClientsOK
<1>3. k \in Conn /\ k.rest = 0
  BY <1>2 DEF Conn
<1> HIDE DEF k
<1>4. y \in ClientStates /\ y.pool = client[c].pool /\ y.conn = k /\ y.at = "busy"
  BY <1>1, <1>2, <1>3 DEF ClientStates, Gone
<1> HIDE DEF y
<1>5. ClientsOK(client', pools)
  BY <1>1, <1>2, <1>3, <1>4, ClientMoves DEF BackendInv
<1>6. CountsOK(builds', faults')
  BY <1>1, FaultCounted
<1> QED
  BY <1>1, <1>5, <1>6 DEF BackendInv

\* Every failure keeps the invariant.
LEMMA FailureStep ==
    ASSUME BackendInv, Failure
    PROVE  BackendInv'
<1>1. ASSUME NEW k \in ssh, SshDies(k) PROVE BackendInv'
  <2>1. /\ ssh' = ssh \ {k} /\ Fault
        /\ UNCHANGED <<running, slot, pools, current, client, due, woken, builds>>
    BY <1>1 DEF SshDies
  <2>2. SshOK(slot, ssh') /\ CountsOK(builds', faults')
    BY <2>1, FaultCounted DEF BackendInv, SshOK
  <2> QED
    BY <2>1, <2>2 DEF BackendInv
<1> QED
  BY <1>1, IdleConnDiesStep, BusyConnDiesStep DEF Failure

-----------------------------------------------------------------------------
(* The reaper *)

\* The published pools and the cadence they ask for.
LEMMA Planned ==
    ASSUME BackendInv
    PROVE  /\ current_reap_interval(current, pools) \in 2..(2 * Ceiling)
           /\ \A e \in Envs : current[e] # None =>
                 /\ current[e] \in DOMAIN pools /\ pools[current[e]] \in Pool
                 /\ pools[current[e]].timeout \in Nat
                 /\ pools[current[e]].timeout > 0 =>
                       current_reap_interval(current, pools)
                         <= reaper_interval(pools[current[e]].timeout)
<1>1. current \in [Envs -> Ids \cup {None}]
  BY DEF BackendInv, TableOK
<1>2. \A e \in Envs : current[e] # None =>
         /\ current[e] \in DOMAIN pools /\ pools[current[e]] \in Pool
         /\ pools[current[e]].timeout \in Nat
  BY DEF BackendInv, TableOK, PoolsOK, Pool
<1> QED
  BY <1>1, <1>2, CadenceFacts

\* What a sweep leaves has rested for less than its timeout.
LEMMA SweepStep ==
    ASSUME BackendInv, Sweep
    PROVE  BackendInv'
<1> DEFINE swept == {current[e] : e \in Envs} \ {None}
           R(p) == IF p \in swept THEN reap_idle(p) ELSE pools[p].idle
<1>1. /\ pools' = [p \in DOMAIN pools |->
                     IF p \in swept THEN [pools[p] EXCEPT !.idle = reap_idle(p), !.unseen = FALSE]
                     ELSE pools[p]]
      /\ due' = current_reap_interval(current, pools) /\ running
      /\ UNCHANGED <<running, slot, ssh, current, client, woken, builds, faults>>
  BY DEF Sweep
<1>2. ASSUME NEW p \in DOMAIN pools
      PROVE  /\ pools[p] \in Pool /\ pools[p].idle \in Seq(Conn) /\ pools[p].timeout \in Nat
             /\ reap_idle(p) \in Seq(Conn)
             /\ \A i \in DOMAIN reap_idle(p) :
                   /\ should_retain(reap_idle(p)[i].age, pools[p].timeout)
                   /\ \E j \in DOMAIN pools[p].idle : reap_idle(p)[i] = pools[p].idle[j]
  <2>1. pools[p] \in Pool /\ pools[p].idle \in Seq(Conn) /\ pools[p].timeout \in Nat
    BY DEF BackendInv, PoolsOK, Pool
  <2> QED
    BY <2>1, RetainFacts DEF reap_idle
<1>3. ASSUME NEW p \in DOMAIN pools
      PROVE  /\ pools'[p] \in Pool /\ pools'[p].env = pools[p].env /\ pools'[p].idle = R(p)
             /\ pools'[p].timeout = pools[p].timeout
  BY <1>1, <1>2 DEF Pool
<1>4. DOMAIN pools' = DOMAIN pools /\ pools' \in [DOMAIN pools -> Pool]
  BY <1>1, <1>3
<1>5. PoolsOK(pools')
  <2>1. ASSUME NEW p \in DOMAIN pools, NEW i \in DOMAIN R(p)
        PROVE  RestOK(R(p)[i], pools[p].timeout)
    BY <1>2, <2>1 DEF BackendInv, PoolsOK
  <2> HIDE DEF R
  <2> QED
    BY <1>3, <1>4, <2>1 DEF BackendInv, PoolsOK
<1>6. /\ TableOK(current, pools') /\ ClientsOK(client, pools') /\ Fresh(pools', builds)
      /\ StartOK(running', pools')
  BY <1>1, <1>3, <1>4 DEF BackendInv, TableOK, ClientsOK, Fresh, StartOK
<1>7. ReaperOK(current, pools', due', woken)
  <2>1. due' \in 0..(2 * Ceiling) /\ woken \in BOOLEAN
    <3>1. due' \in 2..(2 * Ceiling)
      BY <1>1, Planned
    <3> QED
      BY <3>1 DEF BackendInv, ReaperOK
  <2>2. ASSUME NEW e \in Envs, current[e] # None, Seen(pools'[current[e]])
        PROVE  PoolInTime(pools'[current[e]], due', woken)
    <3> DEFINE p == current[e]
               t == pools[p].timeout
    <3>1. p \in DOMAIN pools /\ p \in swept
      BY <2>2 DEF BackendInv, TableOK
    <3>2. pools'[p].idle = reap_idle(p) /\ pools'[p].timeout = t /\ t \in Nat /\ t > 0
      BY <1>2, <1>3, <2>2, <3>1 DEF Seen
    <3>3. due' <= reaper_interval(t)
      BY <1>1, <2>2, <3>2, Planned
    <3>4. ASSUME NEW i \in DOMAIN reap_idle(p) PROVE InTime(reap_idle(p)[i], t, due')
      <4> DEFINE k == reap_idle(p)[i]
      <4>1. /\ should_retain(k.age, t) /\ k \in Conn
            /\ \E j \in DOMAIN pools[p].idle : k = pools[p].idle[j]
        BY <1>2, <3>1
      <4>2. RestOK(k, t)
        BY <3>1, <4>1 DEF BackendInv, PoolsOK
      <4> HIDE DEF k, t
      <4>3. k.rest < 2 * t
        BY <3>2, <4>1, <4>2 DEF should_retain, RestOK, Conn
      <4> QED
        BY <4>3 DEF InTime, k
    <3> HIDE DEF t
    <3> QED
      BY <3>2, <3>3, <3>4 DEF PoolInTime
  <2> QED
    BY <2>1, <2>2 DEF ReaperOK
<1> QED
  BY <1>1, <1>5, <1>6, <1>7 DEF BackendInv

\* The reaper starts, and has planned for nobody's connections yet.
LEMMA RunStep ==
    ASSUME BackendInv, run
    PROVE  BackendInv'
<1>1. /\ ~running /\ running' = TRUE /\ due' = current_reap_interval(current, pools)
      /\ UNCHANGED <<slot, ssh, pools, current, client, woken, builds, faults>>
  BY DEF run
<1>2. due' \in 0..(2 * Ceiling)
  <2>1. due' \in 2..(2 * Ceiling)
    BY <1>1, Planned
  <2> QED
    BY <2>1
<1>3. \A e \in Envs : current[e] # None => ~Seen(pools[current[e]])
  BY <1>1 DEF BackendInv, StartOK, TableOK, Seen
<1>4. ReaperOK(current, pools, due', woken) /\ StartOK(running', pools)
  BY <1>1, <1>2, <1>3 DEF BackendInv, ReaperOK, StartOK
<1> QED
  BY <1>1, <1>4 DEF BackendInv

\* The next sweep is brought forward.
LEMMA WakeStep ==
    ASSUME BackendInv, Wake
    PROVE  BackendInv'
<1> DEFINE r == current_reap_interval(current, pools)
<1>1. /\ due' = Min({due, r}) /\ woken' = FALSE
      /\ UNCHANGED <<running, slot, ssh, pools, current, client, builds, faults>>
  BY DEF Wake, Retuned
<1>2. r \in 2..(2 * Ceiling)
  BY Planned
<1>3. \A e \in Envs : current[e] # None /\ pools[current[e]].timeout > 0 =>
         r <= reaper_interval(pools[current[e]].timeout)
  BY Planned
<1> HIDE DEF r
<1>4. due \in 0..(2 * Ceiling) /\ Ceiling \in Nat
  BY BackendAssumption DEF BackendInv, ReaperOK
<1>4a. due \in Int /\ r \in Int
  BY <1>2, <1>4
<1>5. due' \in {due, r} /\ due' <= due /\ due' <= r
  BY <1>1, <1>4a, MinMax, Zenon
<1>6. due' \in 0..(2 * Ceiling)
  BY <1>2, <1>4, <1>5
<1>7. ASSUME NEW e \in Envs, current[e] # None, Seen(pools[current[e]])
      PROVE  PoolInTime(pools[current[e]], due', woken')
  <2> DEFINE x == pools[current[e]]
  <2>1. x \in Pool /\ x.timeout \in Nat
    BY <1>7, Planned
  <2>2. PoolInTime(x, due, woken)
    BY <1>7 DEF BackendInv, ReaperOK
  <2>3. reaper_interval(x.timeout) \in 2..(2 * Ceiling)
    BY <2>1, IntervalFacts
  <2>4. r <= reaper_interval(x.timeout)
    BY <1>3, <1>7 DEF Seen
  <2> HIDE DEF x
  <2>5. due' <= reaper_interval(x.timeout)
    BY <1>2, <1>4, <1>5, <1>6, <2>3, <2>4
  <2>6. ASSUME NEW i \in DOMAIN x.idle PROVE InTime(x.idle[i], x.timeout, due')
    <3> DEFINE k == x.idle[i]
    <3>1. k \in Conn
      BY <2>1 DEF Pool
    <3>2. InTime(k, x.timeout, due)
      BY <2>2 DEF PoolInTime
    <3> HIDE DEF k
    <3> QED
      BY <1>4, <1>5, <1>6, <2>1, <2>3, <3>1, <3>2 DEF InTime, Deadline, Conn, k
  <2> QED
    BY <2>5, <2>6 DEF PoolInTime, x
<1>8. ReaperOK(current, pools, due', woken')
  BY <1>1, <1>6, <1>7 DEF ReaperOK
<1> QED
  BY <1>1, <1>8 DEF BackendInv

\* A connection half a second later.
LEMMA RestedFacts ==
    ASSUME NEW k \in Conn, NEW t \in Nat
    PROVE  /\ Older(k, t) \in Conn /\ Older(k, t).rest = k.rest /\ Older(k, t).up = k.up
           /\ Rested(k, t) \in Conn
           /\ RestOK(k, t) => RestOK(Rested(k, t), t)
           /\ Rested(k, t).rest <= k.rest + 1
<1> DEFINE T == 2 * t
           a == Min({k.age + 1, T})
           D == Deadline(t)
           r == IF t = 0 THEN 0 ELSE Min({k.rest + 1, D})
<1>0. reaper_interval(t) \in 2..(2 * Ceiling) /\ Ceiling \in Nat
  BY BackendAssumption, IntervalFacts
<1>1. T \in Nat /\ D \in Nat /\ k.age \in Nat /\ k.rest \in Nat /\ k.up \in BOOLEAN
  BY <1>0 DEF Deadline, Conn
<1>2. Older(k, t) = [k EXCEPT !.age = a] /\ Rested(k, t) = [Older(k, t) EXCEPT !.rest = r]
  <2>1. Older(k, t) = [k EXCEPT !.age = a]
    BY DEF Older
  <2>2. Older(k, t).rest = k.rest
    BY <2>1 DEF Conn
  <2> QED
    BY <2>1, <2>2 DEF Rested, Conn
<1> HIDE DEF T, D
<1>2a. k.age + 1 \in Int /\ k.rest + 1 \in Int /\ T \in Int /\ D \in Int
  BY <1>1
<1>3. a \in {k.age + 1, T} /\ a <= k.age + 1 /\ a <= T
  BY <1>2a, MinMax, Zenon
<1>4. t # 0 => r \in {k.rest + 1, D} /\ r <= k.rest + 1 /\ r <= D
  <2>1. t # 0 => r = Min({k.rest + 1, D})
    OBVIOUS
  <2>2. LET m == Min({k.rest + 1, D}) IN m \in {k.rest + 1, D} /\ m <= k.rest + 1 /\ m <= D
    BY <1>2a, MinMax, Zenon
  <2> QED
    BY <2>1, <2>2
<1>5. t = 0 => r = 0
  OBVIOUS
<1> HIDE DEF a, r
<1>6. a \in Nat /\ r \in Nat /\ r <= k.rest + 1
  BY <1>1, <1>3, <1>4, <1>5
<1>7. Older(k, t) \in Conn /\ Older(k, t).rest = k.rest /\ Older(k, t).up = k.up /\ Older(k, t).age = a
  BY <1>2, <1>6 DEF Conn
<1>8. Rested(k, t) \in Conn /\ Rested(k, t).rest = r /\ Rested(k, t).age = a
  BY <1>2, <1>6, <1>7 DEF Conn
<1>9. RestOK(k, t) => RestOK(Rested(k, t), t)
  <2>1. k.rest <= k.age \/ k.age >= T => r <= a \/ a >= T
    BY <1>1, <1>3, <1>6
  <2> QED
    BY <1>8, <2>1 DEF RestOK, T
<1> QED
  BY <1>6, <1>7, <1>8, <1>9

\* What half a second does to rest + due: r and d become r2 and d - 1.
LEMMA NearerByOne ==
    ASSUME NEW r \in Nat, NEW r2 \in Nat, r2 <= r + 1, NEW d \in Nat, d > 0,
           NEW I \in Nat, NEW T \in Nat, d <= I,
           r + d < T + I \/ r < T
    PROVE  r2 + (d - 1) < T + I
  OBVIOUS

\* The pools and the clients half a second later.
LEMMA PassFacts ==
    ASSUME BackendInv, Pass
    PROVE  /\ PoolsOK(pools') /\ TableOK(current, pools') /\ Fresh(pools', builds)
           /\ ClientsOK(client', pools') /\ StartOK(running, pools')
           /\ UNCHANGED <<running, slot, ssh, current, woken, builds, faults>>
           /\ \A p \in DOMAIN pools :
                 /\ SamePool(pools'[p], pools[p]) /\ pools[p] \in Pool
                 /\ DOMAIN pools'[p].idle = DOMAIN pools[p].idle
                 /\ \A i \in DOMAIN pools[p].idle :
                       pools'[p].idle[i] = Rested(pools[p].idle[i], pools[p].timeout)
<1> DEFINE R(p) == [i \in DOMAIN pools[p].idle |-> Rested(pools[p].idle[i], pools[p].timeout)]
<1>1. /\ pools' = [p \in DOMAIN pools |-> [pools[p] EXCEPT !.idle = R(p)]]
      /\ client' = [c \in Clients |->
                       IF client[c].at # "busy" THEN client[c]
                       ELSE [client[c] EXCEPT !.conn = Older(client[c].conn, PoolOf(c).timeout)]]
      /\ UNCHANGED <<running, slot, ssh, current, woken, builds, faults>>
  <2>1. \A p \in DOMAIN pools : pools[p] \in Pool
    BY DEF BackendInv, PoolsOK
  <2>2. \A c \in Clients : client[c] \in ClientStates
    BY DEF BackendInv, ClientsOK
  <2> QED
    BY <2>1, <2>2 DEF Pass
<1>2. ASSUME NEW p \in DOMAIN pools
      PROVE  /\ pools[p] \in Pool /\ pools[p].timeout \in Nat /\ pools[p].idle \in Seq(Conn)
             /\ R(p) \in Seq(Conn) /\ DOMAIN R(p) = DOMAIN pools[p].idle
             /\ \A i \in DOMAIN R(p) :
                   /\ pools[p].idle[i] \in Conn /\ RestOK(pools[p].idle[i], pools[p].timeout)
                   /\ R(p)[i] = Rested(pools[p].idle[i], pools[p].timeout)
  <2>1. pools[p] \in Pool /\ pools[p].timeout \in Nat /\ pools[p].idle \in Seq(Conn)
    BY DEF BackendInv, PoolsOK, Pool
  <2>1a. \A i \in DOMAIN pools[p].idle : pools[p].idle[i] \in Conn
    BY <2>1
  <2>2. \A i \in DOMAIN pools[p].idle : Rested(pools[p].idle[i], pools[p].timeout) \in Conn
    BY <2>1, <2>1a, RestedFacts, Zenon
  <2>3. DOMAIN R(p) = DOMAIN pools[p].idle /\ R(p) \in Seq(Conn)
    BY <2>1, <2>2
  <2> QED
    BY <2>1, <2>3 DEF BackendInv, PoolsOK
<1> HIDE DEF R
<1>3. ASSUME NEW p \in DOMAIN pools
      PROVE  pools'[p] \in Pool /\ SamePool(pools'[p], pools[p]) /\ pools'[p].idle = R(p)
  BY <1>1, <1>2 DEF Pool, SamePool
<1>4. DOMAIN pools' = DOMAIN pools /\ pools' \in [DOMAIN pools -> Pool]
  BY <1>1, <1>3
<1>5. PoolsOK(pools')
  <2>1. ASSUME NEW p \in DOMAIN pools, NEW i \in DOMAIN R(p)
        PROVE  RestOK(R(p)[i], pools[p].timeout)
    BY <1>2, <2>1, RestedFacts
  <2> QED
    BY <1>3, <1>4, <2>1 DEF BackendInv, PoolsOK, SamePool
<1>6. TableOK(current, pools') /\ Fresh(pools', builds) /\ StartOK(running, pools')
  BY <1>3, <1>4 DEF BackendInv, TableOK, Fresh, StartOK, SamePool
<1>7. ClientsOK(client', pools')
  <2>1. ASSUME NEW c \in Clients
        PROVE  /\ client'[c] \in ClientStates /\ client'[c].pool = client[c].pool
               /\ client'[c].at \in {"recycling", "busy"} => client'[c].conn.rest = 0
    <3>1. CASE client[c].at # "busy"
      BY <1>1, <3>1 DEF BackendInv, ClientsOK
    <3>2. CASE client[c].at = "busy"
      <4> DEFINE k == Older(client[c].conn, PoolOf(c).timeout)
      <4>1. client'[c] = [client[c] EXCEPT !.conn = k]
        BY <1>1, <3>2
      <4>2. PoolOf(c).timeout \in Nat /\ client[c] \in ClientStates /\ client[c] # Gone
        BY <3>2, ClientPool DEF Pool
      <4>3. client[c].conn \in Conn /\ client[c].conn.rest = 0
        BY <3>2, <4>2, ClientFacts DEF BackendInv, ClientsOK
      <4>4. k \in Conn /\ k.rest = 0
        BY <4>2, <4>3, RestedFacts
      <4> HIDE DEF k
      <4> QED
        BY <3>2, <4>1, <4>2, <4>4 DEF ClientStates
    <3> QED
      BY <3>1, <3>2
  <2>2. client' \in [Clients -> ClientStates]
    BY <1>1, <2>1
  <2> QED
    BY <1>4, <2>1, <2>2 DEF BackendInv, ClientsOK
<1> QED
  BY <1>1, <1>2, <1>3, <1>5, <1>6, <1>7

\* Half a second passes: the sweep comes as much nearer as the connections rest
\* longer.
LEMMA TickStep ==
    ASSUME BackendInv, Tick
    PROVE  BackendInv'
<1>1. due > 0 /\ ~woken /\ due' = due - 1 /\ Pass
  BY DEF Tick
<1>2. /\ PoolsOK(pools') /\ TableOK(current, pools') /\ Fresh(pools', builds)
      /\ ClientsOK(client', pools') /\ StartOK(running, pools')
      /\ UNCHANGED <<running, slot, ssh, current, woken, builds, faults>>
  BY <1>1, PassFacts
<1>3. due \in 0..(2 * Ceiling) /\ Ceiling \in Nat
  BY BackendAssumption DEF BackendInv, ReaperOK
<1>4. due' \in 0..(2 * Ceiling) /\ due \in Nat
  BY <1>1, <1>3
<1>5. ASSUME NEW e \in Envs, current[e] # None, Seen(pools'[current[e]])
      PROVE  PoolInTime(pools'[current[e]], due', woken)
  <2> DEFINE x == pools[current[e]]
             y == pools'[current[e]]
  <2>1. /\ SamePool(y, x) /\ x \in Pool /\ DOMAIN y.idle = DOMAIN x.idle
        /\ \A i \in DOMAIN x.idle : y.idle[i] = Rested(x.idle[i], x.timeout)
    BY <1>1, <1>5, PassFacts DEF BackendInv, TableOK
  <2>2. Seen(x)
    BY <1>5, <2>1 DEF SamePool, Seen
  <2>3. PoolInTime(x, due, woken)
    BY <1>5, <2>2 DEF BackendInv, ReaperOK
  <2> HIDE DEF x, y
  <2> DEFINE t == x.timeout
             I == reaper_interval(t)
  <2>4. t \in Nat /\ y.timeout = t
    BY <2>1 DEF Pool, SamePool
  <2>5. I \in 2..(2 * Ceiling) /\ due <= I
    BY <1>1, <2>3, <2>4, IntervalFacts DEF PoolInTime
  <2> HIDE DEF t
  <2>6. ASSUME NEW i \in DOMAIN x.idle PROVE InTime(y.idle[i], t, due')
    <3> DEFINE k == x.idle[i]
               l == y.idle[i]
    <3>1. k \in Conn /\ l = Rested(k, t)
      BY <2>1 DEF Pool, t
    <3>2. InTime(k, t, due)
      BY <2>3 DEF PoolInTime, t
    <3>3. l \in Conn /\ l.rest <= k.rest + 1
      BY <2>4, <3>1, RestedFacts
    <3>4. l.rest \in Nat /\ k.rest \in Nat
      BY <3>1, <3>3 DEF Conn
    <3> HIDE DEF k, l, I
    <3>5. 2 * t \in Nat /\ I \in Nat
      BY <1>3, <2>4, <2>5
    <3>6. k.rest + due < 2 * t + I \/ k.rest < 2 * t
      BY <3>2 DEF InTime, Deadline, I
    <3>7. l.rest + (due - 1) < 2 * t + I
      BY <1>1, <1>4, <2>5, <3>3, <3>4, <3>5, <3>6, NearerByOne
    <3> QED
      BY <1>1, <3>7 DEF InTime, Deadline, l, I
  <2>7. due' <= I
    <3> HIDE DEF I
    <3> QED
      BY <1>1, <1>3, <2>5
  <2> QED
    BY <2>1, <2>4, <2>6, <2>7 DEF PoolInTime, y
<1>6. ReaperOK(current, pools', due', woken)
  BY <1>4, <1>5 DEF BackendInv, ReaperOK
<1> QED
  BY <1>2, <1>6 DEF BackendInv

\* Time passes before the reaper is there.
LEMMA StartingStep ==
    ASSUME BackendInv, Starting
    PROVE  BackendInv'
<1>1. ~running /\ Pass /\ due' = due
  BY DEF Starting
<1>2. /\ PoolsOK(pools') /\ TableOK(current, pools') /\ Fresh(pools', builds)
      /\ ClientsOK(client', pools') /\ StartOK(running, pools')
      /\ UNCHANGED <<running, slot, ssh, current, woken, builds, faults>>
  BY <1>1, PassFacts
<1>3. \A e \in Envs : current[e] # None => ~Seen(pools'[current[e]])
  BY <1>1, <1>2 DEF StartOK, TableOK, Seen
<1>4. ReaperOK(current, pools', due', woken)
  BY <1>1, <1>3 DEF BackendInv, ReaperOK
<1> QED
  BY <1>2, <1>4 DEF BackendInv

-----------------------------------------------------------------------------
(* The theorems *)

\* A daemon that starts has no env, no client and no connection.
LEMMA InitHolds ==
    ASSUME Init
    PROVE  BackendInv
<1>1. DOMAIN pools = {} /\ pools \in [DOMAIN pools -> Pool]
  BY DEF Init
<1>2. current \in [Envs -> Ids \cup {None}] /\ \A e \in Envs : current[e] = None
  BY DEF Init
<1>3. Gone \in ClientStates /\ Gone.pool = None /\ Gone.at = "gone"
  BY DEF ClientStates, Gone
<1>4. client \in [Clients -> ClientStates] /\ \A c \in Clients : client[c] = Gone
  BY <1>3 DEF Init
<1>6. due \in 0..(2 * Ceiling) /\ woken \in BOOLEAN
  <2>1. due = 0 /\ woken = FALSE
    BY DEF Init
  <2>2. 0 \in 0..(2 * Ceiling)
    BY BackendAssumption
  <2> QED
    BY <2>1, <2>2
<1>7. CountsOK(builds, faults) /\ SshOK(slot, ssh)
  BY BackendAssumption DEF Init, CountsOK, SshOK
<1>8. PoolsOK(pools) /\ TableOK(current, pools) /\ Fresh(pools, builds) /\ StartOK(running, pools)
  BY <1>1, <1>2 DEF PoolsOK, TableOK, Fresh, StartOK, Init
<1>9. ClientsOK(client, pools) /\ ReaperOK(current, pools, due, woken)
  BY <1>2, <1>3, <1>4, <1>6 DEF ClientsOK, ReaperOK
<1> QED
  BY <1>7, <1>8, <1>9 DEF BackendInv

\* Every step keeps the invariant.
LEMMA NextHolds ==
    ASSUME BackendInv, [Next]_vars
    PROVE  BackendInv'
<1>1. CASE UNCHANGED vars
  BY <1>1 DEF vars, BackendInv
<1> QED
  BY <1>1, BindStep, RunStep, StartingStep, TableStep, ClientStep, FailureStep, SweepStep,
     WakeStep, TickStep DEF Next, Start

\* The inductive invariant holds throughout.
LEMMA InvHolds == Spec => []BackendInv
<1>1. Init => BackendInv
  BY InitHolds
<1>2. BackendInv /\ [Next]_vars => BackendInv'
  BY NextHolds
<1> QED
  BY <1>1, <1>2, PTL DEF Spec

\* Everything that is published or in use is still held: no client and no env
\* refers to a pool whose last reference is gone.
THEOREM BackendTypes == Spec => []TypeOK
<1>1. BackendInv => TypeOK
  <2> SUFFICES ASSUME BackendInv PROVE TypeOK
    OBVIOUS
  <2>1. \A c \in Clients : client[c].pool \in DOMAIN pools \cup {None}
    BY DEF BackendInv, ClientsOK
  <2>2. current \in [Envs -> DOMAIN pools \cup {None}]
    BY DEF BackendInv, TableOK
  <2>3. \A p \in DOMAIN pools : pools[p] \in Pool
    BY DEF BackendInv, PoolsOK
  <2> QED
    BY <2>1, <2>2, <2>3 DEF TypeOK, BackendInv, PoolsOK, ClientsOK, ReaperOK, SshOK, CountsOK, StartOK
<1> QED
  BY <1>1, InvHolds, PTL

\* However envs with shorter and longer timeouts come and go and whatever the
\* run's override is, an idle connection of a published pool that the reaper has
\* planned for is closed within its timeout and one cadence.
THEOREM IdleIsClosed == Spec => []IdleClosedInTime
<1>1. BackendInv => IdleClosedInTime
  <2> SUFFICES ASSUME BackendInv, NEW e \in Envs, current[e] # None,
                      pools[current[e]].timeout > 0, ~pools[current[e]].unseen,
                      NEW i \in DOMAIN pools[current[e]].idle
               PROVE  pools[current[e]].idle[i].rest < Deadline(pools[current[e]].timeout)
    BY DEF IdleClosedInTime
  <2> DEFINE t == pools[current[e]].timeout
             k == pools[current[e]].idle[i]
  <2>1. InTime(k, t, due)
    BY DEF BackendInv, ReaperOK, PoolInTime, Seen
  <2>2. k \in Conn /\ t \in Nat
    BY DEF BackendInv, TableOK, PoolsOK, Pool
  <2> HIDE DEF k, t
  <2>3. /\ k.rest \in Nat /\ reaper_interval(t) \in 2..(2 * Ceiling)
        /\ due \in 0..(2 * Ceiling) /\ Ceiling \in Nat
    BY <2>2, BackendAssumption, IntervalFacts DEF Conn, BackendInv, ReaperOK
  <2>4. k.rest < Deadline(t)
    BY <2>1, <2>2, <2>3 DEF InTime, Deadline
  <2> QED
    BY <2>4 DEF k, t
<1> QED
  BY <1>1, InvHolds, PTL

-----------------------------------------------------------------------------
(* No mid-session break *)

\* The idle connections of a pool are no part of where it leads.
LEMMA SameVia ==
    ASSUME BackendInv, NEW p, NEW s, NEW q \in DOMAIN pools
    PROVE  [pools EXCEPT ![p].idle = s][q].via = pools[q].via
<1>1. pools[q] \in Pool /\ pools \in [DOMAIN pools -> Pool]
  BY DEF BackendInv, PoolsOK
<1> QED
  BY <1>1 DEF Pool

\* Who holds a pool keeps it and the SSH session under it.
LEMMA StaysConnected ==
    ASSUME BackendInv, NEW c \in Clients, client[c].at = "busy", Works(c),
           NEW cur, NEW cl, NEW ps, NEW sl, NEW up, Publish(cur, cl, ps, sl, up),
           cl[c].pool = client[c].pool, cl[c].conn.up = client[c].conn.up,
           ps[client[c].pool].via = pools[client[c].pool].via, ssh \subseteq up
    PROVE  Works(c)'
<1> DEFINE p == client[c].pool
           held == Held(cur, cl)
<1>1. p # None
  BY ClientPool
<1>2. p \in held
  BY <1>1 DEF Held
<1>3. /\ client' = cl /\ pools' = [q \in held |-> ps[q]]
      /\ ssh' = up \cap ({sl} \cup {ps[q].via : q \in held})
  BY DEF Publish, Restrict
<1> HIDE DEF held
<1>4. pools'[p] = ps[p] /\ client'[c].pool = p /\ client'[c].conn.up
  BY <1>2, <1>3 DEF Works
<1>5. ps[p].via = None \/ ps[p].via \in ssh
  BY DEF Works, Reaches, PoolOf
<1>6. ps[p].via \in ssh => ps[p].via \in ssh'
  BY <1>2, <1>3
<1> QED
  BY <1>4, <1>5, <1>6 DEF Works, Reaches, PoolOf

\* Another client's step.
LEMMA OthersKeepConnected ==
    ASSUME BackendInv, NEW c \in Clients, client[c].at = "busy", Works(c),
           NEW d \in Clients, d # c,
           (\E e \in Dials[d] : accept(d, e)) \/ Ask(d) \/ Checkout(d) \/ Done(d) \/ Leave(d)
    PROVE  Works(c)'
<1>1. client[c].pool \in DOMAIN pools
  BY ClientPool
<1>2. client \in [Clients -> ClientStates]
  BY DEF BackendInv, ClientsOK
<1>3. ASSUME NEW cl, NEW ps, Session(cl, ps), cl[c] = client[c],
             ps[client[c].pool].via = pools[client[c].pool].via
      PROVE  Works(c)'
  BY <1>3, StaysConnected DEF Session
<1>4. ASSUME NEW y PROVE [client EXCEPT ![d] = y][c] = client[c]
  BY <1>2
<1>5. ASSUME NEW at, NEW k PROVE Goto(d, at, k)[c] = client[c]
  BY <1>2 DEF Goto
<1>6. ASSUME NEW to, NEW s, to[c] = client[c],
             Session(to, [pools EXCEPT ![client[d].pool].idle = s])
      PROVE  Works(c)'
  <2> DEFINE ps == [pools EXCEPT ![client[d].pool].idle = s]
  <2>1. ps[client[c].pool].via = pools[client[c].pool].via
    BY <1>1, SameVia
  <2>2. Session(to, ps)
    BY <1>6
  <2> HIDE DEF ps
  <2> QED
    BY <1>3, <1>6, <2>1, <2>2
<1>6a. Take(d) => Works(c)'
  <2> DEFINE s == Tail(PoolOf(d).idle)
             k == [Head(PoolOf(d).idle) EXCEPT !.age = 0, !.rest = 0]
  <2>1. ASSUME Take(d)
        PROVE  \/ Session(Goto(d, "creating", None), pools)
               \/ Session(Goto(d, "recycling", k), [pools EXCEPT ![client[d].pool].idle = s])
    BY <2>1 DEF Take
  <2> HIDE DEF s, k
  <2>2. Session(Goto(d, "creating", None), pools) => Works(c)'
    BY <1>3, <1>5
  <2>3. Session(Goto(d, "recycling", k), [pools EXCEPT ![client[d].pool].idle = s]) => Works(c)'
    BY <1>5, <1>6
  <2> QED
    BY <2>1, <2>2, <2>3
<1>7. ASSUME NEW to, to[c] = client[c], Return(d, to) PROVE Works(c)'
  <2> DEFINE s == Append(pools[client[d].pool].idle, client[d].conn)
  <2>1. Session(to, [pools EXCEPT ![client[d].pool].idle = s])
    BY <1>7 DEF Return
  <2> HIDE DEF s
  <2> QED
    BY <1>6, <1>7, <2>1
<1>8. CASE \E e \in Dials[d] : accept(d, e)
  BY <1>3, <1>4, <1>8 DEF accept
<1>9. CASE Ask(d) \/ wait_timeout(d)
  BY <1>3, <1>5, <1>9 DEF Ask, wait_timeout
<1>10. CASE GetPermit(d)
  BY <1>6a, <1>10 DEF GetPermit
<1>11. CASE recycle(d)
  BY <1>3, <1>5, <1>6a, <1>11 DEF recycle
<1>12. CASE create(d)
  BY <1>3, <1>5, <1>12 DEF create
<1>13. CASE Done(d)
  BY <1>5, <1>7, <1>13 DEF Done
<1>14. CASE Leave(d)
  BY <1>3, <1>4, <1>7, <1>14 DEF Leave
<1> QED
  BY <1>8, <1>9, <1>10, <1>11, <1>12, <1>13, <1>14 DEF Checkout

\* The client's own step: it is no longer busy.
LEMMA OwnStepEnds ==
    ASSUME BackendInv, NEW c \in Clients, client[c].at = "busy",
           (\E e \in Dials[c] : accept(c, e)) \/ Ask(c) \/ Checkout(c) \/ Done(c) \/ Leave(c)
    PROVE  client'[c].at # "busy"
<1>1. client[c] # Gone /\ client \in [Clients -> ClientStates] /\ client[c] \in ClientStates
  BY ClientPool DEF BackendInv, ClientsOK
<1>2. Done(c) \/ Leave(c)
  BY <1>1 DEF accept, Ask, Checkout, GetPermit, wait_timeout, recycle, create
<1>3. CASE Done(c)
  <2>1. client' = Goto(c, "ready", None)
    BY <1>3 DEF Done, Return, Session, Publish
  <2> QED
    BY <1>1, <2>1 DEF Goto, ClientStates
<1>4. CASE Leave(c)
  <2>1. client' = [client EXCEPT ![c] = Gone]
    BY <1>4 DEF Leave, Return, Session, Publish
  <2> QED
    BY <1>1, <2>1 DEF Gone
<1> QED
  BY <1>2, <1>3, <1>4

\* A rebuild, a removal or a new pin takes nothing from a client that stays.
LEMMA TableKeepsConnected ==
    ASSUME BackendInv, NEW c \in Clients, client[c].at = "busy", Works(c),
           Table \/ (\E e \in Envs : bind_env(e)), client'[c].at = "busy"
    PROVE  Works(c)'
<1>1. client[c].pool \in DOMAIN pools
  BY ClientPool
<1>2. ASSUME NEW e \in Envs, NEW t, NEW u, PublishNew(e, t, u) PROVE Works(c)'
  <2> DEFINE b == builds + 1
             sl == IF e \in Tunnelled THEN get_or_open ELSE slot
             opened == IF sl # slot THEN {sl} ELSE {}
             x == build_env_runtime(e, sl, t, u)
             ps == [p \in DOMAIN pools \cup {b} |-> IF p = b THEN x ELSE pools[p]]
             cur == [current EXCEPT ![e] = b]
  <2>1. Publish(cur, client, ps, sl, ssh \cup opened)
    BY <1>2 DEF PublishNew
  <2>2. client[c].pool # b
    BY <1>1 DEF BackendInv, Fresh, PoolsOK, Ids, CountsOK
  <2>3. ps[client[c].pool] = pools[client[c].pool]
    <3> HIDE DEF b, x
    <3> QED
      BY <1>1, <2>2
  <2> HIDE DEF cur, ps, sl, opened
  <2> QED
    BY <2>1, <2>3, StaysConnected
<1>3. ASSUME NEW e \in Envs, apply_rm_env(e) PROVE Works(c)'
  <2> DEFINE cur == [current EXCEPT ![e] = None]
             cl == [d \in Clients |-> IF client[d] # Gone /\ pools[client[d].pool].env = e
                                      THEN Gone ELSE client[d]]
  <2>1. Publish(cur, cl, pools, slot, ssh)
    BY <1>3 DEF apply_rm_env
  <2>2. cl[c].at = "busy"
    BY <2>1 DEF Publish
  <2>3. cl[c] = client[c]
    BY <2>2 DEF Gone
  <2> HIDE DEF cur, cl
  <2> QED
    BY <2>1, <2>3, StaysConnected
<1>4. CASE evict
  <2>1. Publish(current, client, pools, None, ssh)
    BY <1>4 DEF evict
  <2> QED
    BY <2>1, StaysConnected
<1> QED
  BY <1>2, <1>3, <1>4 DEF Table, bind_env, apply_add_env, apply_rebuild_backend

\* The reaper closes what is idle, and the clock changes no connection's state.
LEMMA ReaperKeepsConnected ==
    ASSUME BackendInv, NEW c \in Clients, client[c].at = "busy", Works(c),
           Sweep \/ Wake \/ Tick \/ Starting \/ run
    PROVE  Works(c)'
<1> DEFINE p == client[c].pool
<1>1. /\ p \in DOMAIN pools /\ pools[p] \in Pool /\ pools[p].timeout \in Nat
      /\ client[c] \in ClientStates /\ client[c].conn \in Conn /\ PoolOf(c) = pools[p]
  BY ClientPool, ClientFacts DEF PoolOf, Pool
<1>2. ssh' = ssh
  BY DEF Sweep, Wake, Tick, Starting, Pass, run
<1>3. pools'[p].via = pools[p].via
  <2>1. CASE Sweep
    BY <1>1, <2>1 DEF Sweep, Pool
  <2>2. CASE Pass
    BY <1>1, <2>2 DEF Pass, Pool
  <2>3. CASE Wake \/ run
    BY <2>3 DEF Wake, run
  <2> QED
    BY <2>1, <2>2, <2>3 DEF Tick, Starting
<1>4. client'[c].pool = p /\ client'[c].conn.up = client[c].conn.up
  <2>1. CASE Sweep \/ Wake \/ run
    BY <2>1 DEF Sweep, Wake, run
  <2>2. CASE Tick \/ Starting
    <3> DEFINE k == Older(client[c].conn, PoolOf(c).timeout)
    <3>1. client'[c] = [client[c] EXCEPT !.conn = k]
      BY <1>1, <2>2 DEF Tick, Starting, Pass
    <3>2. k \in Conn /\ k.up = client[c].conn.up
      BY <1>1, RestedFacts
    <3> HIDE DEF k
    <3> QED
      BY <1>1, <3>1, <3>2 DEF ClientStates, Gone
  <2> QED
    BY <2>1, <2>2
<1> QED
  BY <1>2, <1>3, <1>4 DEF Works, Reaches, PoolOf

\* A client that runs its statement on a working connection is never cut off by
\* what the daemon does: not by a rebuild, a re-pin, a sweep or another client.
THEOREM SessionsAreNotBroken == Spec => NoMidSessionBreak
<1>1. ASSUME BackendInv, [Next]_vars, NEW c \in Clients, client[c].at = "busy", Works(c),
             faults' = faults, client'[c].at = "busy"
      PROVE  Works(c)'
  <2>1. CASE UNCHANGED vars
    BY <1>1, <2>1 DEF vars, Works, Reaches, PoolOf
  <2>2. CASE Table \/ \E e \in Envs : bind_env(e)
    BY <1>1, <2>2, TableKeepsConnected
  <2>3. ASSUME NEW d \in Clients,
               (\E e \in Dials[d] : accept(d, e)) \/ Ask(d) \/ Checkout(d) \/ Done(d) \/ Leave(d)
        PROVE  Works(c)'
    BY <1>1, <2>3, OthersKeepConnected, OwnStepEnds
  <2>4. ~Failure
    <3>1. faults \in Nat
      BY <1>1, BackendAssumption DEF BackendInv, CountsOK
    <3>2. ~Fault
      BY <1>1, <3>1 DEF Fault
    <3> QED
      BY <3>2 DEF Failure, SshDies, IdleConnDies, BusyConnDies
  <2>5. CASE Sweep \/ Wake \/ Tick \/ Starting \/ run
    BY <1>1, <2>5, ReaperKeepsConnected
  <2> QED
    BY <1>1, <2>1, <2>2, <2>3, <2>4, <2>5 DEF Next, Start
<1> DEFINE Unbroken(c) == (client[c].at = "busy" /\ Works(c) /\ faults' = faults
                          /\ client'[c].at = "busy") => Works(c)'
<1>2. BackendInv /\ [Next]_vars => [\A c \in Clients : Unbroken(c)]_vars
  BY <1>1
<1> QED
  BY <1>2, InvHolds, PTL DEF Spec, NoMidSessionBreak
=============================================================================
