---- MODULE Formatter ----
(***************************************************************************)
(* marv-syntax/src/formatter.rs: from the tree of a function's contracts   *)
(* and body to text.  A text is the sequence of tokens the lexer makes of  *)
(* it, "nl" for a run of line ends; blanks and indentation are no tokens.  *)
(*                                                                         *)
(* A tree (ast.rs) is a record with a kind e.  Expressions: name, num (for *)
(* every literal), unit, field, call, index, slice, array, struct, coll (a *)
(* List, Set or Map literal, its initialisers in canonical order), try,    *)
(* cast, bin, un and quant.  Statements: let, var, assign, while and for.  *)
(* Tails: return, if, match, an expression or none; an arm of a match is a *)
(* block or an expression, what follows else a block, an if or none.  An   *)
(* optional part is otherwise a sequence of at most one.                   *)
(*                                                                         *)
(* The style "fmt" is the formatter's.  Two others are for comparison:     *)
(* "safe" adds to it the parentheses the grammar cannot do without, and    *)
(* "draft" is what an author may write, with no parentheses but those,     *)
(* trailing commas, and no commas between the arms of a match.             *)
(***************************************************************************)
EXTENDS Naturals, SequencesExt

\* precedence
Precedence(op) ==
    CASE op = "or" -> 1
      [] op = "and" -> 2
      [] op \in {"==", "!=", "<", "<=", ">", ">="} -> 3
      [] op \in {"+", "-"} -> 4
      [] op \in {"*", "/", "%"} -> 5

\* How tightly the outermost construct binds, by the grammar: quantifiers,
\* binary operators, prefix operators, casts, and what else is a postfix.
Prefix == 6
CastLevel == 7
Base == 8
Level(x) ==
    CASE x.e = "quant" -> 0
      [] x.e = "bin" -> Precedence(x.op)
      [] x.e = "un" -> Prefix
      [] x.e = "cast" -> CastLevel
      [] OTHER -> Base

\* Where at least the level min is asked for; and in a head, which a brace
\* follows, where a struct literal cannot stand bare.
Needed(x, min, head) == Level(x) < min \/ (head /\ x.e \in {"struct", "coll"})

\* The formatter's: it looks at the expression, never at where it stands.
Parenthesized(x) == x.e \in {"bin", "cast", "quant"}

InParentheses(x, style, min, head) ==
    CASE style = "fmt" -> Parenthesized(x)
      [] style = "safe" -> Parenthesized(x) \/ Needed(x, min, head)
      [] style = "draft" -> Needed(x, min, head)

\* Texts with commas between them, in a draft also after the last.
Listed(texts, style) ==
    LET joined == FoldLeft(LAMBDA all, t : IF all = <<>> THEN t ELSE all \o <<",">> \o t,
                           <<>>, texts)
    IN  IF style = "draft" /\ texts # <<>> THEN Append(joined, ",") ELSE joined

Dotted(path) == FoldLeft(LAMBDA all, x : all \o <<".", x>>, <<Head(path)>>, Tail(path))

\* format_type
RECURSIVE TypeText(_, _)
TypeText(ty, style) ==
    CASE ty.ty = "unit" -> <<"(", ")">>
      [] ty.ty = "named" -> Dotted(ty.path)
      [] ty.ty = "generic" ->
            Dotted(ty.path) \o <<"[">>
                \o Listed([i \in DOMAIN ty.args |-> TypeText(ty.args[i], style)], style)
                \o <<"]">>
      [] ty.ty = "slice" -> <<"[", "]">> \o TypeText(ty.of, style)
      [] ty.ty = "array" -> <<"[", ty.len, "]">> \o TypeText(ty.of, style)
      [] ty.ty = "ref" ->
            <<"&">> \o (IF ty.mut THEN <<"mut">> ELSE <<>>) \o TypeText(ty.of, style)
      [] ty.ty = "union" ->
            <<"!">> \o (IF ty.payload = <<>> THEN <<>> ELSE TypeText(ty.payload[1], style))
      [] ty.ty = "optional" -> <<"?">> \o TypeText(ty.of, style)

RECURSIVE Text(_, _, _, _)

Free(x, style) == Text(x, style, 0, FALSE)
Headed(x, style) == Text(x, style, 0, TRUE)

FreeItems(xs, style) == Listed([i \in DOMAIN xs |-> Free(xs[i], style)], style)

InitsText(inits, style) ==
    Listed([i \in DOMAIN inits |-> <<inits[i].x, ":">> \o Free(inits[i].value, style)], style)

\* format_expr, without the parentheses around it.
ExprText(x, style, head) ==
    LET part(y, level) == Text(y, style, level, head)
    IN  CASE x.e \in {"name", "num"} -> <<x.x>>
          [] x.e = "unit" -> <<"(", ")">>
          [] x.e = "field" -> part(x.of, Base) \o <<".", x.x>>
          [] x.e = "call" ->
                part(x.of, Base) \o <<"(">> \o FreeItems(x.args, style) \o <<")">>
          [] x.e = "index" -> part(x.of, Base) \o <<"[">> \o Free(x.at, style) \o <<"]">>
          [] x.e = "slice" ->
                part(x.of, Base) \o <<"[">> \o Free(x.lo, style) \o <<"..">>
                    \o Free(x.hi, style) \o <<"]">>
          [] x.e = "array" -> <<"[">> \o FreeItems(x.args, style) \o <<"]">>
          [] x.e \in {"struct", "coll"} ->
                <<x.x, "{">> \o InitsText(x.inits, style) \o <<"}">>
          [] x.e = "try" -> part(x.of, Base) \o <<"?">>
          [] x.e = "cast" -> part(x.of, CastLevel) \o <<"as">> \o TypeText(x.type, style)
          [] x.e = "bin" ->
                part(x.l, Precedence(x.op)) \o <<x.op>> \o part(x.r, Precedence(x.op) + 1)
          [] x.e = "un" -> x.op \o part(x.of, Prefix)
          [] x.e = "quant" ->
                <<x.op, x.x, "in">> \o part(x.lo, 1) \o <<"..">> \o part(x.hi, 1)
                    \o <<":">> \o part(x.body, 0)

\* requires, ensures and invariant clauses, each on a line of its own, and a
\* line end before the brace.
Clauses(word, xs, style) ==
    FlattenSeq([i \in DOMAIN xs |-> <<"nl", word>> \o Headed(xs[i], style)])
Break(text) == IF text = <<>> THEN <<>> ELSE <<"nl">>

\* format_stmt, format_while, format_for
StmtText(st, style) ==
    CASE st.e \in {"let", "var"} ->
            <<st.e, st.x>>
                \o (IF st.type = <<>> THEN <<>> ELSE <<":">> \o TypeText(st.type[1], style))
                \o <<"=">> \o Free(st.value, style)
      [] st.e = "assign" -> Free(st.lv, style) \o <<"=">> \o Free(st.value, style)
      [] st.e = "while" ->
            LET invariants == Clauses("invariant", st.invariants, style)
            IN  <<"while">> \o Headed(st.cond, style) \o invariants \o Break(invariants)
                    \o Free(st.body, style)
      [] st.e = "for" -> <<"for", st.x, "in">> \o Headed(st.iter, style) \o Free(st.body, style)

\* format_pattern
PatternText(pat, style) ==
    Dotted(pat.path)
        \o (IF pat.fields = <<>> THEN <<>>
            ELSE <<"(">> \o Listed([i \in DOMAIN pat.fields |-> <<pat.fields[i]>>], style)
                     \o <<")">>)

ArmText(arm, style) ==
    PatternText(arm.pat, style) \o <<"=>">> \o Free(arm.body, style)
        \o (IF style = "draft" THEN <<"nl">> ELSE <<",", "nl">>)

\* format_tail, format_if, format_match
TailText(tail, style) ==
    CASE tail.e = "none" -> <<>>
      [] tail.e = "return" ->
            <<"return">> \o (IF tail.xs = <<>> THEN <<>> ELSE Free(tail.xs[1], style))
      [] tail.e = "if" ->
            <<"if">> \o Headed(tail.cond, style) \o Free(tail.then, style)
                \o (IF tail.els.e = "none" THEN <<>> ELSE <<"else">> \o Free(tail.els, style))
      [] tail.e = "match" ->
            <<"match">> \o Headed(tail.of, style) \o <<"{", "nl">>
                \o FlattenSeq([i \in DOMAIN tail.arms |-> ArmText(tail.arms[i], style)])
                \o <<"}">>

\* format_block
BlockText(block, style) ==
    LET stmts == FlattenSeq([i \in DOMAIN block.stmts |->
                                Append(Free(block.stmts[i], style), "nl")])
        tail == Free(block.tail, style)
    IN  IF stmts \o tail = <<>>
        THEN <<"{", "}">>
        ELSE <<"{", "nl">> \o stmts \o tail \o Break(tail) \o <<"}">>

\* Where at least the level min is asked for, and in a head or not; a
\* parenthesis ends a head.
Text(x, style, min, head) ==
    CASE x.e = "block" -> BlockText(x, style)
      [] x.e \in {"let", "var", "assign", "while", "for"} -> StmtText(x, style)
      [] x.e \in {"none", "return", "if", "match"} -> TailText(x, style)
      [] OTHER ->
            LET within == InParentheses(x, style, min, head)
                text == ExprText(x, style, head /\ ~ within)
            IN  IF within THEN <<"(">> \o text \o <<")">> ELSE text

\* format_fn, from the contracts on.
FnText(f, style) ==
    LET clauses == Clauses("requires", f.requires, style) \o Clauses("ensures", f.ensures, style)
    IN  clauses \o Break(clauses) \o Free(f.body, style)
====
