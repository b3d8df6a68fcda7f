------------------------------- MODULE Control -------------------------------
(***************************************************************************)
(* The control channel between mwsqlctl and the daemon: the accept loops   *)
(* and peer checks of mwsqld/src/control/{unix,windows,peercred}.rs, the   *)
(* connection handler of control/mod.rs, the reads of control/handlers.rs, *)
(* the frames of mw-core/src/control.rs and the client's side of           *)
(* mwsqlctl/src/control_client.rs.                                         *)
(*                                                                         *)
(* A step is one frame written or read, one reply, or one time-out.  A     *)
(* frame is small, and then the socket holds it, or large, and then its    *)
(* writer is blocked until the other side reads it or closes.  A reply can *)
(* also be too large to be sent at all (MAX_FRAME).  What a mutation does  *)
(* is Daemon's subject; here it takes one step and is answered.            *)
(*                                                                         *)
(* Clients are what connects: the CLI, the CLI's liveness probe, an older  *)
(* CLI, or something that stalls.  The READ_TIMEOUT of 5 s only fires when *)
(* the client has nothing more to send: a client writes its frames at      *)
(* once.                                                                   *)
(***************************************************************************)
EXTENDS Naturals, Sequences, FiniteSets, SequencesExt

CONSTANTS
    Clients,      \* connections
    Settings,     \* the platforms, and whether the admin group exists on them
    Profiles,     \* what the clients may be together: functions from clients
    MaxInflight,  \* MAX_INFLIGHT, the permits
    Backlog,      \* connections the system holds before they are accepted
    MaxTries,     \* attempts to open a busy pipe
    None          \* no client, no reply

ASSUME ControlAssumption ==
    /\ MaxInflight \in Nat \ {0}
    /\ Backlog \in Nat \ {0}
    /\ MaxTries \in Nat \ {0}
    /\ Settings \subseteq {"unix", "windows"} \X BOOLEAN
    /\ None \notin {"Denied", "Error", "Answer"} \cup {"Allow", "Deny"}

VARIABLES
    platform,  \* "unix" or "windows"
    group,     \* whether the admin group exists
    who,       \* client -> profile
    cl,        \* client -> its state, the frames it has sent, its attempts
    inbox,     \* client -> frames sent and not yet read
    srv,       \* client -> where its connection task is
    say,       \* client -> the reply its task is about to write
    out,       \* client -> the reply that was written
    queue,     \* connections made and not accepted yet
    loop,      \* the accept loop: "select", "await" (a permit) or "stopped"
    held,      \* the connection the loop awaits a permit for
    audit      \* the administrative events

vars == <<platform, group, who, cl, inbox, srv, say, out, queue, loop, held, audit>>
setting == <<platform, group, who>>
server == <<srv, say, out, queue, loop, held, audit>>

Reading == {"hello", "request", "drain"}
Running == Reading \union {"dispatch", "write"}

Replies == [kind : {"Denied", "Error", "Answer"}, size : {"small", "large", "oversize"}]

TypeOK ==
    /\ cl \in [Clients -> [st : {"out", "open", "blocked", "answered", "broken",
                                 "busy", "unreachable", "away"},
                           sent : 0..2, tries : 0..MaxTries]]
    /\ \A c \in Clients : Len(inbox[c]) <= 2
    /\ srv \in [Clients -> Running \union {"none", "done"}]
    /\ say \in [Clients -> Replies \union {[kind |-> None]}]
    /\ out \in [Clients -> Replies \union {[kind |-> None]}]
    /\ Len(queue) <= Backlog
    /\ loop \in {"select", "await", "stopped"}
    /\ held \in Clients \union {None}
    /\ audit \subseteq Clients \X {"Allow", "Deny", "Error"}

NoReply == [kind |-> None]

Init ==
    /\ \E s \in Settings : platform = s[1] /\ group = s[2]
    /\ who \in Profiles
    /\ cl = [c \in Clients |-> [st |-> "out", sent |-> 0, tries |-> 0]]
    /\ inbox = [c \in Clients |-> <<>>]
    /\ srv = [c \in Clients |-> "none"]
    /\ say = [c \in Clients |-> NoReply]
    /\ out = [c \in Clients |-> NoReply]
    /\ queue = <<>>
    /\ loop = "select"
    /\ held = None
    /\ audit = {}

-----------------------------------------------------------------------------
(* Who may drive the channel. *)

authorize_unix(p) == p.root \/ p.primary \/ p.member

authorize_windows(p) == (group /\ p.member) \/ p.root

(* Every fact that cannot be resolved denies: on Unix also a missing group *)
(* for root, on Windows a client that cannot be impersonated.              *)
resolve_peer(p) ==
    /\ p.known
    /\ IF platform = "unix" THEN group /\ authorize_unix(p) ELSE authorize_windows(p)

Authorized(c) == resolve_peer(who[c].peer)

-----------------------------------------------------------------------------
(* The client: exchange writes the Hello and the request and reads one     *)
(* response.                                                               *)

exchange(p) ==
    (IF p.hello = "none" THEN <<>> ELSE <<p.hello>>)
      \o (IF p.request = "none" THEN <<>> ELSE <<"request">>)

Script(c) == exchange(who[c])

SentAll(c) == cl[c].sent = Len(Script(c))

Become(c, st) == cl' = [cl EXCEPT ![c].st = st]

Connect(c) ==
    /\ cl[c].st = "out"
    /\ loop # "stopped"
    /\ Len(queue) < Backlog
    /\ Become(c, "open")
    /\ queue' = Append(queue, c)
    /\ srv' = [srv EXCEPT ![c] = "none"]
    /\ UNCHANGED <<setting, inbox, say, out, loop, held, audit>>

(* Mutant: the client never gives up. *)
PipeBusy_endless(c) ==
    /\ platform = "windows"
    /\ cl[c].st = "out"
    /\ loop # "stopped"
    /\ Len(queue) = Backlog
    /\ cl' = [cl EXCEPT ![c].tries = @ + 1]
    /\ UNCHANGED <<setting, inbox, server>>

(* call_windows tries again while every pipe instance is in use; a Unix    *)
(* connect waits.                                                          *)
PipeBusy(c) ==
    /\ platform = "windows"
    /\ cl[c].st = "out"
    /\ loop # "stopped"
    /\ Len(queue) = Backlog
    /\ cl' = [cl EXCEPT ![c].tries = @ + 1,
                        ![c].st = IF cl[c].tries + 1 = MaxTries THEN "busy" ELSE "out"]
    /\ UNCHANGED <<setting, inbox, server>>

Open(c) == srv[c] # "done"

Send(c) ==
    /\ cl[c].st = "open"
    /\ ~SentAll(c)
    /\ Open(c)
    /\ LET f == Script(c)[cl[c].sent + 1]
       IN  /\ inbox' = [inbox EXCEPT ![c] = Append(@, f)]
           /\ cl' = [cl EXCEPT ![c].sent = @ + 1,
                               ![c].st = IF f = "request" /\ who[c].big
                                         THEN "blocked" ELSE "open"]
    /\ UNCHANGED <<setting, server>>

(* A write into a connection that was closed, or a read of one that was    *)
(* closed without a reply.                                                 *)
Break(c) ==
    /\ \/ cl[c].st = "blocked" /\ ~Open(c)
       \/ cl[c].st = "open" /\ ~Open(c) /\ (~SentAll(c) \/ out[c] = NoReply)
    /\ Become(c, "broken")
    /\ UNCHANGED <<setting, inbox, server>>

(* finish: the client reads the reply and is done. *)
Receive(c) ==
    /\ cl[c].st = "open"
    /\ SentAll(c)
    /\ who[c].reads
    /\ out[c] # NoReply
    /\ Become(c, "answered")
    /\ UNCHANGED <<setting, inbox, server>>

(* A client that does not read, or the probe of is_reachable, which sends  *)
(* nothing, goes away.                                                     *)
GoAway(c) ==
    /\ cl[c].st = "open"
    /\ ~who[c].reads \/ Script(c) = <<>>
    /\ Become(c, "away")
    /\ UNCHANGED <<setting, inbox, server>>

-----------------------------------------------------------------------------
(* The accept loop: the connection is accepted first and then waits for a  *)
(* permit, and the loop with it.                                           *)

Inflight == {c \in Clients : srv[c] \in Running}

Accept ==
    /\ loop = "select"
    /\ queue # <<>>
    /\ loop' = "await"
    /\ held' = Head(queue)
    /\ queue' = Tail(queue)
    /\ UNCHANGED <<setting, cl, inbox, srv, say, out, audit>>

(* On Windows a connection is dropped when no pipe instance can be made to *)
(* take its place.                                                         *)
DropConnection ==
    /\ platform = "windows"
    /\ loop = "await"
    /\ srv' = [srv EXCEPT ![held] = "done"]
    /\ loop' = "select"
    /\ held' = None
    /\ UNCHANGED <<setting, cl, inbox, say, out, queue, audit>>

Permit ==
    /\ loop = "await"
    /\ Cardinality(Inflight) < MaxInflight
    /\ srv' = [srv EXCEPT ![held] = "hello"]
    /\ loop' = "select"
    /\ held' = None
    /\ UNCHANGED <<setting, cl, inbox, say, out, queue, audit>>

(* What a call comes to when nobody listens any more (CallError). *)
Afterwards(c) ==
    LET replied == cl[c].st = "open" /\ SentAll(c) /\ out[c] # NoReply
    IN  CASE cl[c].st = "out" -> "unreachable"
          [] replied -> IF who[c].reads THEN "answered" ELSE "away"
          [] cl[c].st \in {"open", "blocked"} /\ ~replied -> "broken"
          [] OTHER -> cl[c].st

(* Daemon::run ends the loop wherever it is; the connection tasks end with *)
(* the process, and every client finds out.                                *)
Shutdown ==
    /\ loop # "stopped"
    /\ loop' = "stopped"
    /\ held' = None
    /\ queue' = <<>>
    /\ srv' = [c \in Clients |-> "done"]
    /\ cl' = [c \in Clients |-> [cl[c] EXCEPT !.st = Afterwards(c)]]
    /\ UNCHANGED <<setting, inbox, say, out, audit>>

-----------------------------------------------------------------------------
(* handle_conn *)

(* A frame is read; a client that was blocked on it goes on. *)
read_request(c) ==
    /\ inbox[c] # <<>>
    /\ inbox' = [inbox EXCEPT ![c] = Tail(@)]
    /\ cl' = IF cl[c].st = "blocked" /\ Len(inbox[c]) = 1
             THEN [cl EXCEPT ![c].st = "open"] ELSE cl

(* Nothing more will come. *)
Stalled(c) ==
    /\ inbox[c] = <<>>
    /\ cl[c].st = "away" \/ SentAll(c)

Goto(c, pc) == srv' = [srv EXCEPT ![c] = pc]

Refusal(kind) == [kind |-> kind, size |-> "small"]

(* Mutant: the refusal is written at once. *)
Refuse_undrained(c, kind) ==
    /\ Goto(c, "write")
    /\ say' = [say EXCEPT ![c] = Refusal(kind)]

(* A refused client's request is read before the reply is written, so that *)
(* a client blocked on writing it gets to read the reply.                  *)
Refuse(c, kind) ==
    /\ Goto(c, "drain")
    /\ say' = [say EXCEPT ![c] = Refusal(kind)]

(* Mutant: a peer that is turned away leaves no event. *)
hello_ok_silent(c) ==
    /\ Head(inbox[c]) = "hello"
    /\ IF Authorized(c)
       THEN Goto(c, "request") /\ UNCHANGED say
       ELSE Refuse(c, "Denied")
    /\ UNCHANGED audit

hello_ok(c) ==
    /\ Head(inbox[c]) = "hello"
    /\ IF Authorized(c)
       THEN Goto(c, "request") /\ UNCHANGED <<say, audit>>
       ELSE Refuse(c, "Denied") /\ audit' = audit \union {<<c, "Deny">>}

hello_bad(c) ==
    /\ Head(inbox[c]) # "hello"
    /\ Refuse(c, "Error")
    /\ UNCHANGED audit

ReadHello(c) ==
    /\ srv[c] = "hello"
    /\ read_request(c)
    /\ hello_ok(c) \/ hello_bad(c)
    /\ UNCHANGED <<setting, out, queue, loop, held>>

ReadRequest(c) ==
    /\ srv[c] = "request"
    /\ read_request(c)
    /\ Goto(c, "dispatch")
    /\ UNCHANGED <<setting, say, out, queue, loop, held, audit>>

drain_pending_request(c) ==
    /\ srv[c] = "drain"
    /\ read_request(c)
    /\ Goto(c, "write")
    /\ UNCHANGED <<setting, say, out, queue, loop, held, audit>>

(* Mutant: only the drain is limited in time. *)
ReadTimeout_drain(c) ==
    /\ srv[c] = "drain"
    /\ Stalled(c)
    /\ Goto(c, "write")
    /\ UNCHANGED <<setting, cl, inbox, say, out, queue, loop, held, audit>>

(* The end of the stream, or READ_TIMEOUT. *)
ReadTimeout(c) ==
    /\ srv[c] \in Reading
    /\ Stalled(c)
    /\ Goto(c, IF srv[c] = "drain" THEN "write" ELSE "done")
    /\ UNCHANGED <<setting, cl, inbox, say, out, queue, loop, held, audit>>

(* How large an answer is: a listing may be large, an audit tail of any    *)
(* size.                                                                   *)
Sizes(request) ==
    CASE request = "list"       -> {"small", "large"}
      [] request = "audit_tail" -> {"small", "large", "oversize"}
      [] OTHER                  -> {"small"}

(* What a request is answered with, and the event that leaves.  An audit   *)
(* tail leaves none when it succeeds.  "mint" stands for add_env and       *)
(* grant: when the config was saved and the env could not be brought up,   *)
(* the token is handed out all the same and the event is an error          *)
(* (token_but_not_live).  set_policy is denied when read-write was not     *)
(* confirmed.  A second Hello is an error without an event.                *)
Outcome(request, kind, event) ==
    \/ kind = "Answer" /\ event = "Allow" /\ request \notin {"audit_tail", "hello"}
    \/ kind = "Answer" /\ event = None /\ request = "audit_tail"
    \/ kind = "Answer" /\ event = "Error" /\ request = "mint"
    \/ kind = "Denied" /\ event = "Deny" /\ request = "set_policy"
    \/ kind = "Error" /\ event = "Error" /\ request # "hello"
    \/ kind = "Error" /\ event = None /\ request = "hello"

dispatch(c) ==
    /\ srv[c] = "dispatch"
    /\ \E kind \in {"Answer", "Denied", "Error"}, event \in {"Allow", "Deny", "Error", None},
         size \in Sizes(who[c].request) :
          /\ Outcome(who[c].request, kind, event)
          /\ say' = [say EXCEPT ![c] = IF kind = "Answer" THEN [kind |-> kind, size |-> size]
                                       ELSE Refusal(kind)]
          /\ audit' = IF event = None THEN audit ELSE audit \union {<<c, event>>}
    /\ Goto(c, "write")
    /\ UNCHANGED <<setting, cl, inbox, out, queue, loop, held>>

(* No time limit: a large reply is written when the client reads it, or    *)
(* fails when the client has gone.                                         *)
write_response(c) ==
    /\ srv[c] = "write"
    /\ \/ say[c].size = "oversize" /\ UNCHANGED out
       \/ say[c].size = "small" /\ out' = [out EXCEPT ![c] = say[c]]
       \/ /\ say[c].size = "large"
          /\ cl[c].st = "away" \/ (cl[c].st = "open" /\ SentAll(c) /\ who[c].reads)
          /\ out' = [out EXCEPT ![c] = say[c]]
    /\ Goto(c, "done")
    /\ UNCHANGED <<setting, cl, inbox, say, queue, loop, held, audit>>

-----------------------------------------------------------------------------
ClientStep(c) ==
    Connect(c) \/ PipeBusy(c) \/ Send(c) \/ Break(c) \/ Receive(c)

handle_conn(c) ==
    \/ ReadHello(c)
    \/ ReadRequest(c)
    \/ drain_pending_request(c)
    \/ ReadTimeout(c)
    \/ dispatch(c)
    \/ write_response(c)

Next ==
    \/ \E c \in Clients : ClientStep(c) \/ GoAway(c) \/ handle_conn(c)
    \/ Accept \/ Permit \/ DropConnection \/ Shutdown

(* The runtime runs every task that can run, and clients make the calls    *)
(* they have begun.  Nothing makes a client that does not read go away,    *)
(* and nothing makes the service stop.                                     *)
Fairness ==
    /\ \A c \in Clients : WF_vars(ClientStep(c)) /\ WF_vars(handle_conn(c))
    /\ WF_vars(Accept)
    /\ WF_vars(Permit)

Spec == Init /\ [][Next]_vars
FairSpec == Spec /\ Fairness

-----------------------------------------------------------------------------
(* A client that a reply was written for reads it: it never fails on a     *)
(* broken pipe instead, however large its request is ("so a large-Request  *)
(* client reads the error instead of dying on a broken pipe", handle_conn).*)
ReplyNotMasked ==
    \A c \in Clients :
        cl[c].st \in {"blocked", "broken"} => srv[c] # "done" \/ out[c] = NoReply

HelloRead(c) ==
    /\ who[c].hello = "hello"
    /\ cl[c].sent > 0
    /\ "hello" \notin Range(inbox[c])
    /\ srv[c] # "none"

(* Every peer that got its Hello read is in the log if it was turned away, *)
(* also when it never sent a request, and nothing of such a peer is ever   *)
(* dispatched.  Every answer is in the log, but for a successful audit     *)
(* tail, and as allowed, but for a token of an env that did not come up,   *)
(* which is in it as an error; every refusal of a client that said Hello   *)
(* is in the log, but for that of a second Hello (handle_conn,             *)
(* handlers.rs).                                                           *)
AdminAudit ==
    \A c \in Clients :
        LET logged(events) == \E e \in events : <<c, e>> \in audit
        IN  /\ HelloRead(c) /\ ~Authorized(c) => logged({"Deny"})
            /\ srv[c] = "dispatch" \/ say[c].kind = "Answer" =>
                  HelloRead(c) /\ Authorized(c)
            /\ say[c].kind = "Answer" =>
                  \/ who[c].request = "audit_tail"
                  \/ logged({"Allow"})
                  \/ who[c].request = "mint" /\ logged({"Error"})
            /\ say[c].kind \in {"Denied", "Error"} /\ who[c].hello = "hello" =>
                  who[c].request = "hello" \/ logged({"Deny", "Error"})

Cooperative == {c \in Clients : \A w \in Profiles : Len(exchange(w[c])) = 2 /\ w[c].reads}

(* Whoever else holds connections open, a client that says Hello, sends a  *)
(* request and reads gets a reply, as long as fewer clients than there are *)
(* permits refuse to read a large one (inflight_limiter, READ_TIMEOUT).    *)
(* Excepted: the service stops, a pipe stays busy or is dropped, the       *)
(* answer is larger than a frame may be.                                   *)
CooperativeAnswered ==
    \A c \in Cooperative :
        cl[c].st = "open"
          ~> \/ cl[c].st = "answered"
             \/ loop = "stopped"
             \/ platform = "windows" /\ srv[c] = "done" /\ say[c] = NoReply
             \/ say[c] # NoReply /\ say[c].size = "oversize"
=============================================================================
