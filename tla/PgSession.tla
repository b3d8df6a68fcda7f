------------------------------ MODULE PgSession ------------------------------
(***************************************************************************)
(* One PostgreSQL client connection: handshake and serve of                *)
(* mw-net/src/engine/postgres/server.rs over the messages of proto.rs.     *)
(*                                                                         *)
(* Statements are the texts of Session; binding replaces the placeholders  *)
(* of a text by a parameter (InlineParams models how), which gives another *)
(* text.  The columns of a statement are those of its text, so a prepared  *)
(* statement is the text that was prepared.  An answer is the sequence of  *)
(* the type bytes of its messages.  Left out: the wording of errors, OIDs, *)
(* formats and cell values.                                                *)
(***************************************************************************)
EXTENDS Session

CONSTANTS
    Stmts,     \* names of prepared statements, the unnamed one among them
    Portals,   \* names of portals
    Params,    \* parameters of a Bind
    Inlined,   \* Inlined[<<t, p>>]: inline_params(t, p)
    Absent     \* no such entry

ASSUME PgAssumption ==
    Inlined \in [Texts \X Params -> Texts] /\ Absent \notin Texts

VARIABLES
    prepared,  \* statement name -> text
    portals,   \* portal name -> statement name and inlined text
    skip,      \* skip_until_sync
    failed     \* history: an extended message was refused since the last Sync

pgVars == <<prepared, portals, skip>>

Portal == [stmt : Stmts, sql : Texts]

Tags == {"N", "R", "Z", "E", "T", "D", "C", "1", "2", "3", "n", "t", "I"}

PgTypeOK ==
    /\ prepared \in [Stmts -> Texts \union {Absent}]
    /\ portals \in [Portals -> Portal \union {[stmt |-> Absent]}]
    /\ skip \in BOOLEAN
    /\ failed \in BOOLEAN

NoPortal == [stmt |-> Absent]

PgInit ==
    /\ prepared = [s \in Stmts |-> Absent]
    /\ portals = [p \in Portals |-> NoPortal]
    /\ skip = FALSE
    /\ failed = FALSE

-----------------------------------------------------------------------------
(* Startup and login. *)

Rows(n) == [i \in 1..n |-> "D"]

read_startup(kind) ==
    /\ pc = "startup"
    /\ \/ kind = "encryption" /\ reply' = <<"N">> /\ UNCHANGED <<pc, gate>>
       \/ kind = "params" /\ reply' = <<"R">> /\ pc' = "password" /\ UNCHANGED gate
       \/ kind \in {"cancel", "malformed"} /\ Hangup(<<>>)
    /\ UNCHANGED pgVars

(* Both checks are made whatever the first one says; the wrong kind of     *)
(* stored token fails the second.                                          *)
password(tag, user_ok, token_ok) ==
    /\ pc = "password"
    /\ IF tag = "p" /\ user_ok /\ token_ok /\ auth = "PgCleartext"
       THEN /\ pc' = "ready"
            /\ reply' = <<"R", "Z">>
            /\ UNCHANGED gate
       ELSE Hangup(<<"E">>)
    /\ UNCHANGED pgVars

-----------------------------------------------------------------------------
(* Running a text. *)

Unavailable(t) == t \notin Denied /\ UNCHANGED <<ran, audit>>

write_result_set[n \in 0..MaxRows] ==
    IF n = 0 THEN <<"n", "C">> ELSE <<"T">> \o Rows(n) \o <<"C">>

(* Deny and error events are emitted before the answer is written, the     *)
(* Allow event after it.  No event when the pool has no connection.        *)
pg_exec(t, ok, frames, after, gone) ==
    /\ Asks(t)
    /\ \/ /\ ~ok
          /\ Answer(<<"E">> \o after, gone)
          /\ Refused(t) \/ Unavailable(t) \/ Failed(t, Event(t, "Deny", "backend"))
       \/ \E n \in 0..MaxRows :
              ok /\ Answer(frames[n] \o after, gone) /\ Done(t, gone)

firewalled_exec(t, ok, gone) == pg_exec(t, ok, write_result_set, <<"Z">>, gone)

(* Mutant: Execute trusts the check that Parse made of the template. *)
exec_rows_only_trusting(t, ok, gone) ==
    /\ Asks(t)
    /\ ran' = Append(ran, t)
    /\ emit(Event(t, IF ok THEN "Allow" ELSE "Error", "none"))
    /\ Answer(IF ok THEN <<"D", "C">> ELSE <<"E">>, gone)

exec_rows_only(t, ok, gone) ==
    pg_exec(t, ok, [n \in 0..MaxRows |-> Rows(n) \o <<"C">>], <<>>, gone)

-----------------------------------------------------------------------------
(* The messages of serve.  Extended messages do nothing after an error     *)
(* until Sync; Query, Close and unknown messages are handled all the same. *)

Skipped == skip /\ reply' = <<>> /\ UNCHANGED <<pc, gate, pgVars>>

(* Mutant: skip_until_sync is not set. *)
Rejected_goes_on ==
    /\ Answer(<<"E">>, FALSE)
    /\ UNCHANGED <<prepared, portals, skip>>

Rejected ==
    /\ skip' = TRUE
    /\ Answer(<<"E">>, FALSE)
    /\ UNCHANGED <<prepared, portals>>

Query(t, gone) ==
    /\ Serving
    /\ \E ok \in BOOLEAN : firewalled_exec(t, ok, gone)
    /\ UNCHANGED pgVars

EmptyQuery ==
    /\ Serving
    /\ Answer(<<"I", "Z">>, FALSE)
    /\ UNCHANGED <<gate, pgVars>>

(* The text is put to the firewall first and only then to the backend,     *)
(* which may be unreachable or fail to parse it.                           *)
Parse(s, t) ==
    /\ Serving
    /\ \/ Skipped
       \/ ~skip /\ Asks(t) /\ Refused(t) /\ Rejected
       \/ ~skip /\ t \notin Denied /\ Rejected /\ UNCHANGED gate
       \/ /\ ~skip
          /\ t \notin Denied
          /\ prepared' = [prepared EXCEPT ![s] = t]
          /\ Answer(<<"1">>, FALSE)
          /\ UNCHANGED <<gate, portals, skip>>

(* A parameter that cannot be rendered, or an unknown statement, is an     *)
(* error; a body that is too short panics in read_i16.                     *)
Bind(p, s, v, wellformed) ==
    /\ Serving
    /\ UNCHANGED gate
    /\ \/ Skipped
       \/ ~skip /\ wellformed = "truncated" /\ Panic /\ UNCHANGED pgVars
       \/ /\ ~skip
          /\ \/ wellformed = "unrenderable"
             \/ wellformed = "ok" /\ prepared[s] = Absent
          /\ Rejected
       \/ /\ ~skip
          /\ wellformed = "ok"
          /\ prepared[s] # Absent
          /\ portals' = [portals EXCEPT ![p] =
                            [stmt |-> s, sql |-> Inlined[<<prepared[s], v>>]]]
          /\ Answer(<<"2">>, FALSE)
          /\ UNCHANGED <<prepared, skip>>

Columns(s) == IF s = Absent \/ prepared[s] = Absent THEN {"n"} ELSE {"n", "T"}

DescribeStatement(s) ==
    /\ Serving
    /\ UNCHANGED <<gate, pgVars>>
    /\ \/ Skipped
       \/ /\ ~skip
          /\ \E c \in Columns(s) :
                Answer(IF prepared[s] = Absent THEN <<c>> ELSE <<"t", c>>, FALSE)

(* A portal has no columns of its own: they are looked up under the name   *)
(* of its statement, as that name is defined now.                          *)
DescribePortal(p) ==
    /\ Serving
    /\ UNCHANGED <<gate, pgVars>>
    /\ Skipped \/ (~skip /\ \E c \in Columns(portals[p].stmt) : Answer(<<c>>, FALSE))

(* The inlined text is put to the firewall again. *)
Execute(p, gone) ==
    /\ Serving
    /\ \/ Skipped
       \/ ~skip /\ portals[p] = NoPortal /\ Rejected /\ UNCHANGED gate
       \/ /\ ~skip
          /\ portals[p] # NoPortal
          /\ \E ok \in BOOLEAN :
                /\ exec_rows_only(portals[p].sql, ok, gone)
                /\ skip' = IF gone THEN skip ELSE ~ok
          /\ UNCHANGED <<prepared, portals>>

CloseStatement(s) ==
    /\ Serving
    /\ prepared' = [prepared EXCEPT ![s] = Absent]
    /\ Answer(<<"3">>, FALSE)
    /\ UNCHANGED <<gate, portals, skip>>

ClosePortal(p) ==
    /\ Serving
    /\ portals' = [portals EXCEPT ![p] = NoPortal]
    /\ Answer(<<"3">>, FALSE)
    /\ UNCHANGED <<gate, prepared, skip>>

Flush ==
    /\ Serving
    /\ Answer(<<>>, FALSE)
    /\ UNCHANGED <<gate, pgVars>>

Sync ==
    /\ Serving
    /\ skip' = FALSE
    /\ Answer(<<"Z">>, FALSE)
    /\ UNCHANGED <<gate, prepared, portals>>

Unsupported ==
    /\ Serving
    /\ Answer(<<"E", "Z">>, FALSE)
    /\ UNCHANGED <<gate, pgVars>>

(* Terminate, the end of the stream, a length out of range, or a write     *)
(* that fails. *)
PgLeave ==
    /\ pc \in {"startup", "password", "ready"}
    /\ Hangup(<<>>)
    /\ UNCHANGED pgVars

-----------------------------------------------------------------------------
Extended ==
    \/ \E s \in Stmts, t \in Texts : Parse(s, t)
    \/ \E p \in Portals, s \in Stmts, v \in Params,
          w \in {"ok", "unrenderable", "truncated"} : Bind(p, s, v, w)
    \/ \E s \in Stmts : DescribeStatement(s)
    \/ \E p \in Portals : DescribePortal(p)
    \/ \E p \in Portals, gone \in BOOLEAN : Execute(p, gone)

PgNext ==
    \/ /\ Extended
       /\ failed' = (failed \/ "E" \in Range(reply'))
    \/ /\ Sync
       /\ failed' = FALSE
    \/ /\ \/ \E k \in {"encryption", "params", "cancel", "malformed"} : read_startup(k)
          \/ \E tag \in {"p", "other"}, user_ok, token_ok \in BOOLEAN :
                password(tag, user_ok, token_ok)
          \/ \E t \in Texts, gone \in BOOLEAN : Query(t, gone)
          \/ EmptyQuery
          \/ \E s \in Stmts : CloseStatement(s)
          \/ \E p \in Portals : ClosePortal(p)
          \/ Flush
          \/ Unsupported
          \/ PgLeave
       /\ UNCHANGED failed

(* The messages of a series, which Sync ends. *)
CloseOne == (\E s \in Stmts : CloseStatement(s)) \/ (\E p \in Portals : ClosePortal(p))

Series == Extended \/ CloseOne \/ Flush

(* After an error in a series of extended messages nothing more of the     *)
(* series is prepared, bound, described, run or logged until Sync ("sup-   *)
(* presses further work until the next Sync", serve).  One message is not  *)
(* suppressed: a Close is answered and acted on, and all it can do is to   *)
(* forget a statement or a portal.                                         *)
PipelineStops ==
    [][failed /\ Series =>
          /\ UNCHANGED <<pc, gate>>
          /\ \/ reply' = <<>> /\ UNCHANGED <<prepared, portals>>
             \/ /\ reply' = <<"3">>
                /\ \A s \in Stmts : prepared'[s] \in {prepared[s], Absent}
                /\ \A p \in Portals : portals'[p] \in {portals[p], NoPortal}
      ]_<<pc, reply, gate, pgVars>>

(* serve's comment without the exception for Close. *)
NothingUntilSync ==
    [][failed /\ Series => reply' = <<>> /\ UNCHANGED <<pc, gate, prepared, portals>>
      ]_<<pc, reply, gate, pgVars>>
=============================================================================
