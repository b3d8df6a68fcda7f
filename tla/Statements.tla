------------------------------ MODULE Statements ------------------------------
(***************************************************************************)
(* The two functions every statement goes through, as a machine that is    *)
(* given one input and computes one result: the firewall's verdict on a    *)
(* text under a policy, and the binding of parameters to a prepared text.  *)
(***************************************************************************)
EXTENDS Firewall, InlineParams

CONSTANTS
    ParsedTexts,    \* what the firewall is given
    Templates,      \* prepared texts, as symbols
    Values,         \* parameters
    Binds           \* the lists of parameters that are bound to templates

(* The statement an explain is about, or the statement itself. *)
Explained(s) == IF s.kind = "explain" THEN s.statement ELSE s

ASSUME ParamsAssumption ==
    /\ Templates \subseteq Seq(Symbols)
    /\ \A v \in Values : v \in Param /\ Formatted(v.int)
    /\ Binds \subseteq Seq(Values)

VARIABLES
    job,      \* the input and what is asked about it
    result    \* the result, once it is computed

jobVars == <<job, result>>

Pending == [done |-> FALSE]

JobInit ==
    /\ \/ job \in [ask : {"evaluate"}, text : ParsedTexts, policy : Custom]
       \/ job \in [ask : {"render"}, value : Values]
       \/ job \in [ask : {"bind"}, text : Templates, params : Binds]
    /\ result = Pending

Evaluate ==
    /\ job.ask = "evaluate"
    /\ result' = [done |-> TRUE, allow |-> evaluate(job.text, job.policy)]

Render ==
    /\ job.ask = "render"
    /\ result' = [done |-> TRUE, rendered |-> render_param(job.value)]

(* The first parameter that cannot be rendered fails the whole Bind. *)
BindParams ==
    /\ job.ask = "bind"
    /\ LET rendered == [i \in DOMAIN job.params |-> render_param(job.params[i])]
           texts    == [i \in DOMAIN rendered |-> rendered[i].text]
       IN  result' = IF \A i \in DOMAIN rendered : rendered[i].ok
                     THEN [done |-> TRUE, ok |-> TRUE, literals |-> texts,
                           sql |-> inline_params(job.text, texts)]
                     ELSE [done |-> TRUE, ok |-> FALSE]

JobNext ==
    /\ ~result.done
    /\ Evaluate \/ Render \/ BindParams
    /\ UNCHANGED job

JobSpec == JobInit /\ [][JobNext]_jobVars

-----------------------------------------------------------------------------
Evaluated == result.done /\ job.ask = "evaluate"

(* A text that is allowed under a policy stays allowed when the policy is  *)
(* widened (ReadOnly to ReadWrite to Custom), the rule about several       *)
(* statements in one text included (evaluate).                             *)
PolicyMonotone ==
    Evaluated /\ result.allow =>
        \A wider \in Custom :
            job.policy \subseteq wider => evaluate(job.text, wider)

(* Statements cannot shield each other: a text of several statements is    *)
(* allowed only if each one would be allowed alone under the same policy   *)
(* (evaluate, check_statement, scan_dangerous).                            *)
EachStandsAlone ==
    Evaluated /\ result.allow =>
        \A i \in DOMAIN job.text.stmts :
            evaluate([parsed |-> TRUE, stmts |-> <<job.text.stmts[i]>>], job.policy)

(* The parts of a body, and the parts of a query: what its body and its    *)
(* WITHs are made of at every level, what sits in the FROM or in an        *)
(* expression of a select included.                                        *)
Under(b) ==
    CASE b.node = "query"  -> {b.body}
      [] b.node = "setop"  -> {b.left, b.right}
      [] b.node = "select" -> {b} \union b.inner
      [] OTHER             -> {b}

PartsOf(q) ==
    LET Down(bodies) == UNION {Under(b) : b \in bodies}
    IN  Down(Down(Down({q.body} \union q.with)))

(* What an allowed text consists of, explained or not. *)
AllowedParts ==
    UNION {PartsOf(q) : q \in {r \in {Explained(job.text.stmts[i]) : i \in DOMAIN job.text.stmts} :
                                   r.kind = "query"}}

(* "INTO OUTFILE/DUMPFILE only ever hangs off a Select node, so the        *)
(* recursive Query/SetOperation/Select walk below is complete for it"      *)
(* (check_query): an allowed query, explained or not, has no INTO in any   *)
(* of the selects it is made of.  The walk does not enter a WITH, a FROM   *)
(* or an expression, so it is not.                                         *)
NoIntoAllowed ==
    Evaluated /\ result.allow =>
        \A part \in AllowedParts : part.node = "select" => ~part.into

(* An observation: a body that is an INSERT or an UPDATE, directly below a *)
(* WITH or inside one, makes the statement a query (scan_select_for_outfile *)
(* passes it), so that a policy without dml allows it.                     *)
WritesNeedDml ==
    Evaluated /\ result.allow /\ "dml" \notin job.policy =>
        \A part \in AllowedParts : part.node # "write"

(* An observation: "no dangerous function call may appear anywhere in any  *)
(* allowed statement" (evaluate), but a FROM may name one as a table.      *)
NoDangerousCall ==
    Evaluated /\ result.allow =>
        \A i \in DOMAIN job.text.stmts :
            LET q == Explained(job.text.stmts[i])
            IN  q.kind = "query" => (q.calls \union q.tables) \intersect dangerous_funcs = {}

(* A rendered parameter is closed, whatever it holds, and one operand,     *)
(* with one exception: NaN and Infinity that the client sends as text are  *)
(* emitted without quotes (render_param, is_safe_numeric).                 *)
RenderedIsOperand ==
    result.done /\ job.ask = "render" /\ result.rendered.ok =>
        /\ IsClosed(result.rendered.text)
        /\ IsBareWord(job.value) \/ IsOperand(result.rendered.text)

(* An observation: without the exception.  "A bare NaN/inf token is        *)
(* invalid" (fmt_float), but is_safe_numeric has render_scalar emit one.   *)
WordsAreQuoted ==
    result.done /\ job.ask = "render" /\ result.rendered.ok =>
        IsOperand(result.rendered.text)

(* Binding values does not change how PostgreSQL reads the rest of the     *)
(* text, up to the first place where a minus sign meets a negative value   *)
(* or a comment is nested in another (inline_params).                      *)
BindKeepsStructure ==
    result.done /\ job.ask = "bind" /\ result.ok =>
        KeepsStructure(job.text, result.literals)

(* An observation: without that limit.  Nothing in inline_params or in the *)
(* checks before it keeps a text away from those places.                   *)
BindKeepsAll ==
    result.done /\ job.ask = "bind" /\ result.ok =>
        \A i \in DOMAIN job.text : ReadAsBefore(job.text, result.literals, i)
=============================================================================
