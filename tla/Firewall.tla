------------------------------- MODULE Firewall -------------------------------
(***************************************************************************)
(* The statement firewall: evaluate and the functions it calls, of         *)
(* mw-core/src/policy.rs.                                                  *)
(*                                                                         *)
(* A text is what sqlparser (external) makes of it: whether it parsed and  *)
(* the statements it consists of.  A statement is a record with its kind   *)
(* and the functions that expressions anywhere in it call; a query has the *)
(* functions that its FROMs name as tables, the bodies of the queries of   *)
(* its WITHs and a body, a tree of selects, parenthesised queries and set  *)
(* operations; an explain holds a statement; a SET has its scope and its   *)
(* variables.  Kinds that check_statement treats alike are one kind.       *)
(***************************************************************************)
EXTENDS Naturals, Sequences

CONSTANTS
    Funcs,            \* names of functions
    dangerous_funcs,  \* the ones of the profile's denylist
    Vars,             \* names of session variables
    safe_set_vars     \* the ones of the profile's allowlist

ASSUME FirewallAssumption ==
    dangerous_funcs \subseteq Funcs /\ safe_set_vars \subseteq Vars

-----------------------------------------------------------------------------
(* Query bodies, two levels deep: SetExpr of sqlparser.  A select holds    *)
(* the selects of the queries in its FROM and in its expressions, here one *)
(* at most and not nested again.  A body may also be an INSERT or UPDATE.  *)

InnerSelect == [node : {"select"}, into : BOOLEAN, inner : {{}}]
Select == [node : {"select"}, into : BOOLEAN,
           inner : {{}} \union {{sel} : sel \in InnerSelect}]
WriteBody == [node : {"write"}]      \* INSERT, UPDATE
OtherBody == [node : {"other"}]      \* VALUES, TABLE
Leaves == Select \union WriteBody \union OtherBody
Nested(bodies) ==
    [node : {"query"}, body : bodies]
      \union [node : {"setop"}, left : bodies, right : bodies]
SetExpr == Leaves \union Nested(Leaves) \union Nested(Nested(Leaves))

(* Is there an INTO where the walk over the body looks for one?  It enters *)
(* no WITH, no FROM and no expression, and passes every other body.        *)
scan_select_for_outfile[b \in SetExpr] ==
    \/ b.node = "select" /\ b.into
    \/ b.node = "query"  /\ scan_select_for_outfile[b.body]
    \/ b.node = "setop"  /\ (scan_select_for_outfile[b.left]
                                \/ scan_select_for_outfile[b.right])

-----------------------------------------------------------------------------
Reads == {"show", "use", "set_names", "transaction"}
Gated == {"dml", "ddl", "admin"}
Simple == Reads \union Gated \union {"unlisted"}

(* policy: the kinds it allows besides the reads, out of Gated. *)
ReadOnly  == {}
ReadWrite == {"dml"}
Custom    == SUBSET Gated

check_query(s) == ~scan_select_for_outfile[s.body]

(* Global scope and variables of the user's own are refused by the look of *)
(* the whole name, the others by the last segment.                         *)
check_set(s) ==
    /\ ~s.local
    /\ \A v \in s.vars : v.scope \notin {"global", "user"} /\ v.key \in safe_set_vars

check_plain(s, policy) ==
    \/ s.kind = "query" /\ check_query(s)
    \/ s.kind = "set"   /\ check_set(s)
    \/ s.kind \in Reads
    \/ s.kind \in Gated /\ s.kind \in policy

(* An explained statement is checked as if it were run; the statement of   *)
(* an explain is one level deep here.                                      *)
check_statement(s, policy) ==
    IF s.kind = "explain" THEN check_plain(s.statement, policy)
                          ELSE check_plain(s, policy)

(* DangerVisitor: every expression of the statement is visited, those of   *)
(* the statement inside an explain too; a function that a FROM names as a  *)
(* table is not an expression.                                             *)
scan_dangerous(s) == s.calls \intersect dangerous_funcs = {}

(* Mutant: several statements for one policy, not for the ones above it. *)
evaluate_exact(text, policy) ==
    /\ text.parsed
    /\ text.stmts # <<>>
    /\ Len(text.stmts) > 1 => policy = {"dml", "ddl"}
    /\ \A i \in DOMAIN text.stmts : check_statement(text.stmts[i], policy)
    /\ \A i \in DOMAIN text.stmts : scan_dangerous(text.stmts[i])

(* Mutant: the functions of the first statement only. *)
evaluate_first(text, policy) ==
    /\ text.parsed
    /\ text.stmts # <<>>
    /\ Len(text.stmts) > 1 => {"dml", "ddl"} \subseteq policy
    /\ \A i \in DOMAIN text.stmts : check_statement(text.stmts[i], policy)
    /\ scan_dangerous(text.stmts[1])

evaluate(text, policy) ==
    /\ text.parsed
    /\ text.stmts # <<>>
    /\ Len(text.stmts) > 1 => {"dml", "ddl"} \subseteq policy
    /\ \A i \in DOMAIN text.stmts : check_statement(text.stmts[i], policy)
    /\ \A i \in DOMAIN text.stmts : scan_dangerous(text.stmts[i])
=============================================================================
