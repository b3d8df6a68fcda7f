----------------------------- MODULE InlineParams -----------------------------
(***************************************************************************)
(* How a Bind turns a prepared text and its parameters into the text that  *)
(* is run: render_param and inline_params of                               *)
(* mw-net/src/engine/postgres/server.rs.                                   *)
(*                                                                         *)
(* A text is a sequence of symbols: the ones that inline_params tells      *)
(* apart (quotes, a minus sign, comment brackets, dollar quotes,           *)
(* placeholders), the ones that a number consists of (a space, a digit or  *)
(* the word Infinity with the point or the plus sign next to it, the "e"   *)
(* of an exponent, the word NaN), and "x" for everything else.  A          *)
(* parameter has its type, its format, whether it is null, its payload     *)
(* read as text, its payload read as an integer, and how long the payload  *)
(* is.  Strings with backslash escapes (E'...') and identifiers that       *)
(* contain a dollar sign are not told apart from other text.               *)
(***************************************************************************)
EXTENDS Integers, Sequences, SequencesExt

CONSTANTS
    DollarTags,     \* the delimiters of dollar quotes, $tag$
    Placeholder     \* Placeholder[p]: the parameter that p, a $n, asks for

Blanks == {"sp", "nl"}

Marks == Blanks \union {"x", "9", "e", "nan", "inf", "'", "\"", "-", "/*", "*/", "NUL"}

Places == {"normal", "squote", "dquote", "line", "block"}

(* The symbols are different things, and a dollar quote is in no other     *)
(* state.                                                                  *)
ASSUME SymbolsAssumption ==
    /\ Placeholder \in [DOMAIN Placeholder -> Nat]
    /\ DOMAIN Placeholder \intersect (Marks \union DollarTags) = {}
    /\ DollarTags \intersect (Marks \union Places) = {}

Symbols == Marks \union DollarTags \union DOMAIN Placeholder

States == Places \union DollarTags

-----------------------------------------------------------------------------
(* The scanner: the state after c has been read in state st, if c is not   *)
(* the second sign of a "--", which opens a comment when both of its signs *)
(* are read in state normal.                                               *)

After(st, c) ==
    CASE st = "normal" /\ c = "'"          -> "squote"
      [] st = "normal" /\ c = "\""         -> "dquote"
      [] st = "normal" /\ c = "/*"         -> "block"
      [] st = "normal" /\ c \in DollarTags -> c
      [] st = "squote" /\ c = "'"          -> "normal"
      [] st = "dquote" /\ c = "\""         -> "normal"
      [] st = "line"   /\ c = "nl"         -> "normal"
      [] st = "block"  /\ c = "*/"         -> "normal"
      [] st \in DollarTags /\ c = st       -> "normal"
      [] OTHER                             -> st

(* Where the scanner is: its state, and whether it has just read the first *)
(* of two signs that open a comment.                                       *)
Reading == [st : States, dash : BOOLEAN]

Begin == [st |-> "normal", dash |-> FALSE]

Step(was, c) ==
    LET open == was.st = "normal" /\ was.dash /\ c = "-"
    IN  [st   |-> IF open THEN "line" ELSE After(was.st, c),
         dash |-> was.st = "normal" /\ c = "-" /\ ~open]

(* scan(s)[i] is the state in which s[i] is read. *)
scan(s) ==
    LET at[i \in 0..Len(s)] == IF i = 0 THEN Begin ELSE Step(at[i - 1], s[i])
    IN  [i \in 1..Len(s) |-> at[i - 1].st]

(* How PostgreSQL reads a text (external), by which the scanner is judged: *)
(* quotes and comments of two signs as above, but comments in brackets     *)
(* nest, depth deep.                                                       *)
Lexing == [st : States, dash : BOOLEAN, depth : Int]

LexBegin == [st |-> "normal", dash |-> FALSE, depth |-> 0]

LexStep(was, c) ==
    LET open  == was.st = "normal" /\ was.dash /\ c = "-"
        depth == IF was.st = "block"
                 THEN was.depth + (IF c = "/*" THEN 1 ELSE IF c = "*/" THEN -1 ELSE 0)
                 ELSE IF was.st = "normal" /\ c = "/*" THEN 1 ELSE 0
    IN  [st    |-> IF was.st = "block" THEN (IF depth = 0 THEN "normal" ELSE "block")
                   ELSE IF open THEN "line" ELSE After(was.st, c),
         dash  |-> was.st = "normal" /\ c = "-" /\ ~open,
         depth |-> depth]

(* lex(s)[i] is the state in which PostgreSQL reads s[i]. *)
lex(s) ==
    LET at[i \in 0..Len(s)] == IF i = 0 THEN LexBegin ELSE LexStep(at[i - 1], s[i])
    IN  [i \in 1..Len(s) |-> at[i - 1].st]

-----------------------------------------------------------------------------
(* Rendering. *)

Unrendered == [ok |-> FALSE, text |-> <<>>]
Rendered(text) == [ok |-> TRUE, text |-> text]

(* Mutant: quotes in the value are copied. *)
quote_lit_raw(s) == <<"'">> \o s \o <<"'">>

(* Only the quote itself is doubled. *)
quote_lit(s) ==
    <<"'">> \o FlattenSeq([i \in 1..Len(s) |->
                   IF s[i] = "'" THEN <<"'", "'">> ELSE <<s[i]>>]) \o <<"'">>

NumericOids == {"int", "float", "numeric"}

Oids == NumericOids \union {"bool", "reg", "text", "array"}

Param == [oid : Oids, elem : Oids \ {"array"}, n : Nat, fmt : {0, 1}, null : BOOLEAN,
          text : Seq(Symbols), int : Seq(Symbols), width : {"own", "int", "odd"}]

(* s[i] to s[j] are a sign or none, and digits. *)
Digits(s, i, j) ==
    \E k \in i..j : /\ k = i \/ (k = i + 1 /\ s[i] = "-")
                    /\ \A m \in k..j : s[m] = "9"

(* s[i] to s[j] are what trimming leaves of s. *)
Trimmed(s, i, j) == \A k \in DOMAIN s : k < i \/ j < k => s[k] \in Blanks

(* NaN, or Infinity with or without a sign. *)
IsWord(s) ==
    \E i, j \in DOMAIN s :
        /\ Trimmed(s, i, j)
        /\ \/ i = j /\ s[j] \in {"nan", "inf"}
           \/ i + 1 = j /\ s[i] = "-" /\ s[j] = "inf"

(* Digits with an exponent or without. *)
IsNumber(s) ==
    \E i, j \in DOMAIN s :
        /\ Trimmed(s, i, j)
        /\ \/ Digits(s, i, j)
           \/ \E k \in i..j : s[k] = "e" /\ Digits(s, i, k - 1) /\ Digits(s, k + 1, j)

(* The blanks are trimmed for the test and then copied with the rest. *)
is_safe_numeric(s) == IsWord(s) \/ IsNumber(s)

(* What the bytes of a number are formatted as: its digits or, by          *)
(* fmt_float, a word in quotes if it is a float and not finite.            *)
Formatted(t) ==
    IsNumber(t) \/ t \in {quote_lit(w) : w \in {<<"nan">>, <<"inf">>, <<"-", "inf">>}}

(* In binary format a value of a fixed-width type is read as its integer;  *)
(* a payload of another type or width is read as text unless it holds a    *)
(* NUL, and then as an integer if its width is one of theirs.              *)
render_scalar(v) ==
    LET word  == v.null \/ v.oid = "bool"
        own   == v.fmt = 1 /\ v.oid \in {"int", "float", "reg"} /\ v.width = "own"
        nul   == v.fmt = 1 /\ "NUL" \in Range(v.text)
        plain == v.fmt = 0 /\ v.oid \in NumericOids /\ is_safe_numeric(v.text)
    IN  CASE word -> Rendered(<<"x">>)
          [] ~word /\ (own \/ (nul /\ v.width # "odd")) -> Rendered(v.int)
          [] ~word /\ ~own /\ nul /\ v.width = "odd" -> Unrendered
          [] ~word /\ plain -> Rendered(v.text)
          [] OTHER -> Rendered(quote_lit(v.text))

(* decode_bin_array: a payload of an odd length is cut off somewhere; the  *)
(* others hold n elements, here equal ones, of the type it names.          *)
decode_bin_array(v) ==
    [ok    |-> v.width # "odd",
     elems |-> [i \in 1..v.n |-> [v EXCEPT !.oid = v.elem, !.width = "own"]]]

(* ARRAY[e,...] in binary format, if every element can be rendered; a      *)
(* quoted array literal with a cast in text format.                        *)
render_array(v) ==
    LET array == decode_bin_array(v)
        parts == [i \in DOMAIN array.elems |-> render_scalar(array.elems[i])]
    IN  CASE v.fmt = 1 ->
            IF array.ok /\ \A i \in DOMAIN parts : parts[i].ok
            THEN Rendered(<<"x">> \o FlattenSeq([i \in DOMAIN parts |->
                                                    parts[i].text \o <<"x">>]))
            ELSE Unrendered
          [] v.fmt = 0 /\ "NUL" \in Range(v.text) -> Unrendered
          [] OTHER -> Rendered(quote_lit(v.text) \o <<"x">>)

render_param(v) ==
    CASE v.null                      -> Rendered(<<"x">>)
      [] ~v.null /\ v.oid = "array"  -> render_array(v)
      [] OTHER                       -> render_scalar(v)

-----------------------------------------------------------------------------
(* inline_params: a placeholder read in state normal is replaced by its    *)
(* parameter if there is one, and copied if not.                           *)

(* Mutant: placeholders in quotes and comments are replaced too. *)
Replaced_anywhere(s, i, rendered) ==
    /\ i \in DOMAIN s
    /\ s[i] \in DOMAIN Placeholder
    /\ Placeholder[s[i]] \in DOMAIN rendered

Replaced(s, i, rendered) ==
    /\ scan(s)[i] = "normal"
    /\ s[i] \in DOMAIN Placeholder
    /\ Placeholder[s[i]] \in DOMAIN rendered

(* What each symbol of the text becomes. *)
Pieces(s, rendered) ==
    [i \in 1..Len(s) |->
        IF Replaced(s, i, rendered) THEN rendered[Placeholder[s[i]]] ELSE <<s[i]>>]

inline_params(s, rendered) == FlattenSeq(Pieces(s, rendered))

-----------------------------------------------------------------------------
(* What a text is to whatever stands around it: every quote in it closed,  *)
(* no comment, and outside of quotes nothing but words and numbers         *)
(* (quote_lit, is_safe_numeric).                                           *)
IsClosed(text) ==
    LET read == lex(text \o <<"x">>)
    IN  /\ read[Len(text) + 1] = "normal"
        /\ \A i \in DOMAIN text :
              /\ read[i] \in {"normal", "squote"}
              /\ read[i] = "normal" =>
                  text[i] \in Blanks \union {"x", "9", "e", "nan", "inf", "-", "'"}

(* One operand of an expression: closed, and NaN and Infinity in quotes,   *)
(* because "a bare NaN/inf token is invalid" (fmt_float).                  *)
IsOperand(text) ==
    /\ IsClosed(text)
    /\ \A i \in DOMAIN text :
          lex(text \o <<"x">>)[i] = "normal" => text[i] \notin {"nan", "inf"}

(* The values for which the code emits that token: text of a numeric type, *)
(* which is_safe_numeric lets through.                                     *)
IsBareWord(v) ==
    ~v.null /\ v.fmt = 0 /\ v.oid \in NumericOids /\ IsWord(v.text)

(* Where the piece of s[i] begins in the inlined text. *)
Offset(s, rendered, i) == Len(FlattenSeq(SubSeq(Pieces(s, rendered), 1, i - 1)))

(* s[i] is read in the inlined text as it is read in the prepared text. *)
ReadAsBefore(s, rendered, i) ==
    lex(inline_params(s, rendered))[Offset(s, rendered, i) + 1] = lex(s)[i]

(* Two places at which the code loses track of what PostgreSQL reads: a    *)
(* minus sign directly before a value that begins with one makes a comment *)
(* of the two, and a comment inside a comment ends, for the scanner, both. *)
Joins(s, rendered, i) ==
    /\ i > 1 /\ s[i - 1] = "-"
    /\ Replaced(s, i, rendered) /\ rendered[Placeholder[s[i]]][1] = "-"

Nests(s, i) == scan(s)[i] = "block" /\ s[i] = "/*"

(* Binding values does not change what the rest of the text means, up to   *)
(* and including the first of those places: each symbol of the prepared    *)
(* text is read in the inlined text as it was before, so no value closes a *)
(* quote, opens a comment or swallows what follows it (inline_params,      *)
(* quote_lit).                                                             *)
KeepsStructure(s, rendered) ==
    \A i \in 1..Len(s) :
        (\A j \in 1..(i - 1) : ~Joins(s, rendered, j) /\ ~Nests(s, j))
            => ReadAsBefore(s, rendered, i)
=============================================================================
