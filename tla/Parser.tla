---- MODULE Parser ----
(***************************************************************************)
(* marv-syntax/src/parser.rs: the recursive-descent parser of types,       *)
(* expressions, statements, blocks and contracts, on the tokens and trees  *)
(* of Formatter.  ts is the whole text and p the position of the next      *)
(* token; ns is no_struct, set in a head, where a name before a brace is   *)
(* not a struct literal.                                                   *)
(***************************************************************************)
EXTENDS Formatter

CONSTANTS
    Names,      \* the identifiers
    Numbers     \* the literals

ASSUME NamesAndNumbers == Names \cap Numbers = {}

BinOps == {"or", "and", "==", "!=", "<", "<=", ">", ">=", "+", "-", "*", "/", "%"}

\* peek
At(ts, p) == IF p <= Len(ts) THEN ts[p] ELSE "eof"
IsName(ts, p) == At(ts, p) \in Names

\* PResult, with the position the parser has come to.
Got(x, p) == [ok |-> TRUE, x |-> x, p |-> p]
ParseError == [ok |-> FALSE]

\* The ? of the code: what comes next, unless this has failed.
Then(r, next(_, _)) == IF r.ok THEN next(r.x, r.p) ELSE ParseError

\* expect, after what has been parsed.
Expect(r, ts, token) ==
    IF r.ok /\ At(ts, r.p) = token THEN Got(r.x, r.p + 1) ELSE ParseError

\* skip_nl; the lexer has joined line ends that follow each other.
SkipNl(ts, p) == IF At(ts, p) = "nl" THEN p + 1 ELSE p

\* parse_path
RECURSIVE PathRest(_, _, _)
PathRest(ts, p, path) ==
    CASE At(ts, p) # "." -> Got(path, p)
      [] At(ts, p) = "." /\ IsName(ts, p + 1) -> PathRest(ts, p + 2, Append(path, ts[p + 1]))
      [] OTHER -> ParseError
ParsePath(ts, p) ==
    IF IsName(ts, p) THEN PathRest(ts, p + 1, <<ts[p]>>) ELSE ParseError
-----------------------------------------------------------------------------
Named(path, args) ==
    IF args = <<>> THEN [ty |-> "named", path |-> path]
    ELSE [ty |-> "generic", path |-> path, args |-> args]

\* !() is the same as a bare !.
Union(payload) ==
    [ty |-> "union", payload |-> IF payload = <<[ty |-> "unit"]>> THEN <<>> ELSE payload]

\* parse_type, parse_type_base; the arguments of a generic type up to the
\* bracket, the last one followed by a comma or not.
RECURSIVE ParseType(_, _), ParseTypeBase(_, _), ParseTypeArgs(_, _, _)
ParseType(ts, p) ==
    IF At(ts, p) # "&" THEN ParseTypeBase(ts, p)
    ELSE LET mut == At(ts, p + 1) = "mut"
         IN  Then(ParseTypeBase(ts, IF mut THEN p + 2 ELSE p + 1), LAMBDA of, q :
                  Got([ty |-> "ref", mut |-> mut, of |-> of], q))

ParseTypeBase(ts, p) ==
    CASE At(ts, p) = "!" ->
            IF At(ts, p + 1) \in Names \cup {"&", "!", "?", "(", "["}
            THEN Then(ParseTypeBase(ts, p + 1), LAMBDA of, q : Got(Union(<<of>>), q))
            ELSE Got(Union(<<>>), p + 1)
      [] At(ts, p) = "?" ->
            Then(ParseTypeBase(ts, p + 1), LAMBDA of, q :
                Got([ty |-> "optional", of |-> of], q))
      [] At(ts, p) = "(" -> Expect(Got([ty |-> "unit"], p + 1), ts, ")")
      [] At(ts, p) = "[" ->
            LET sized == At(ts, p + 1) \in Numbers
                close == Expect(Got(<<>>, IF sized THEN p + 2 ELSE p + 1), ts, "]")
            IN  Then(close, LAMBDA none, q : Then(ParseType(ts, q), LAMBDA of, r :
                    Got(IF sized THEN [ty |-> "array", len |-> ts[p + 1], of |-> of]
                        ELSE [ty |-> "slice", of |-> of], r)))
      [] IsName(ts, p) ->
            Then(ParsePath(ts, p), LAMBDA path, q :
                IF At(ts, q) # "[" THEN Got(Named(path, <<>>), q)
                ELSE Then(Expect(ParseTypeArgs(ts, q + 1, <<>>), ts, "]"), LAMBDA args, r :
                          Got(Named(path, args), r)))
      [] OTHER -> ParseError

ParseTypeArgs(ts, p, args) ==
    Then(ParseType(ts, p), LAMBDA ty, q :
        LET all == Append(args, ty)
        IN  IF At(ts, q) = "," /\ At(ts, q + 1) # "]"
            THEN ParseTypeArgs(ts, q + 1, all)
            ELSE Got(all, IF At(ts, q) = "," THEN q + 1 ELSE q))
-----------------------------------------------------------------------------
\* Mutant: the right operand may be of the same level.
SameLevel(op) == Precedence(op)

\* The right operand binds tighter: operators associate to the left.
RightLevel(op) == Precedence(op) + 1

\* The words and signs of a prefix operator at p.
PrefixAt(ts, p) ==
    CASE At(ts, p) \in {"not", "-"} -> <<ts[p]>>
      [] At(ts, p) = "&" -> IF At(ts, p + 1) = "mut" THEN <<"&", "mut">> ELSE <<"&">>
      [] OTHER -> <<>>

Values(inits, x) == SelectSeq(inits, LAMBDA init : init.x = x)

\* list_literal_from_fields, set_..., map_...: a List or Set of one items
\* array and at most one alloc, a Map of keys and values; anything else is a
\* struct literal.
StructOrColl(x, inits) ==
    LET arrays == IF x = "Map" THEN <<"keys", "values">> ELSE <<"items">>
        given == Values(inits, "alloc") \o FlattenSeq([i \in DOMAIN arrays |->
                                                          Values(inits, arrays[i])])
        isColl == /\ x \in {"List", "Set", "Map"}
                  /\ Len(given) = Len(inits)
                  /\ Len(Values(inits, "alloc")) <= 1
                  /\ \A i \in DOMAIN arrays :
                        /\ Len(Values(inits, arrays[i])) = 1
                        /\ Values(inits, arrays[i])[1].value.e = "array"
    IN  IF isColl THEN [e |-> "coll", x |-> x, inits |-> given]
        ELSE [e |-> "struct", x |-> x, inits |-> inits]

\* What is to be parsed: an expression; a binary expression of level min or
\* tighter; the rest of one after its left operand; a prefix expression; what
\* is applied to x; the items up to a closing token and the initialisers up
\* to a brace, after those there are; a block; the rest of one after the
\* statements there are; an if; the rest of a match after its arms.
Expr(ns) == [rule |-> "expr", ns |-> ns]
Bin(min, ns) == [rule |-> "bin", min |-> min, ns |-> ns]
BinAfter(l, min, ns) == [rule |-> "binAfter", l |-> l, min |-> min, ns |-> ns]
Unary(ns) == [rule |-> "unary", ns |-> ns]
Applied(x, ns) == [rule |-> "applied", x |-> x, ns |-> ns]
Items(items, close) == [rule |-> "items", items |-> items, close |-> close]
Inits(inits) == [rule |-> "inits", inits |-> inits]
ABlock == [rule |-> "block"]
After(stmts) == [rule |-> "stmts", stmts |-> stmts]
AnIf == [rule |-> "if"]
Arms(arms) == [rule |-> "arms", arms |-> arms]

RECURSIVE Parse(_, _, _)

\* parse_quant
ParseQuant(ns, ts, p) ==
    IF ~ IsName(ts, p + 1) \/ At(ts, p + 2) # "in" THEN ParseError
    ELSE Then(Expect(Parse(Bin(0, ns), ts, p + 3), ts, ".."), LAMBDA lo, q :
         Then(Expect(Parse(Bin(0, ns), ts, q), ts, ":"), LAMBDA hi, r :
         Then(Parse(Expr(ns), ts, r), LAMBDA body, end :
              Got([e |-> "quant", op |-> ts[p], x |-> ts[p + 1], lo |-> lo, hi |-> hi,
                   body |-> body], end))))

\* The loop of parse_bin.
ParseBinAfter(l, min, ns, ts, p) ==
    LET op == At(ts, p)
    IN  IF op \notin BinOps \/ Precedence(op) < min
        THEN Got(l, p)
        ELSE Then(Parse(Bin(RightLevel(op), ns), ts, p + 1), LAMBDA r, q :
                  Parse(BinAfter([e |-> "bin", op |-> op, l |-> l, r |-> r], min, ns), ts, q))

\* parse_primary, parse_struct_literal
ParsePrimary(ns, ts, p) ==
    CASE At(ts, p) \in Numbers -> Got([e |-> "num", x |-> ts[p]], p + 1)
      [] IsName(ts, p) ->
            IF ~ ns /\ At(ts, p + 1) = "{"
            THEN Then(Parse(Inits(<<>>), ts, SkipNl(ts, p + 2)), LAMBDA inits, q :
                      Got(StructOrColl(ts[p], inits), q))
            ELSE Got([e |-> "name", x |-> ts[p]], p + 1)
      [] At(ts, p) = "(" ->
            IF At(ts, p + 1) = ")" THEN Got([e |-> "unit"], p + 2)
            ELSE Expect(Parse(Expr(FALSE), ts, p + 1), ts, ")")
      [] At(ts, p) = "[" ->
            Then(Parse(Items(<<>>, "]"), ts, p + 1), LAMBDA args, q :
                 Got([e |-> "array", args |-> args], q))
      [] OTHER -> ParseError

\* parse_unary
ParseUnary(ns, ts, p) ==
    LET op == PrefixAt(ts, p)
    IN  IF op = <<>>
        THEN Then(ParsePrimary(ns, ts, p), LAMBDA x, q : Parse(Applied(x, ns), ts, q))
        ELSE Then(Parse(Unary(ns), ts, p + Len(op)), LAMBDA of, q :
                  Got([e |-> "un", op |-> op, of |-> of], q))

\* An index or a slice of x.
ParseIndex(x, ts, p) ==
    Then(Parse(Expr(FALSE), ts, p), LAMBDA lo, q :
        IF At(ts, q) # ".."
        THEN Expect(Got([e |-> "index", of |-> x, at |-> lo], q), ts, "]")
        ELSE Then(Parse(Expr(FALSE), ts, q + 1), LAMBDA hi, r :
                  Expect(Got([e |-> "slice", of |-> x, lo |-> lo, hi |-> hi], r), ts, "]")))

\* The loop of parse_postfix.
ParseApplied(x, ns, ts, p) ==
    LET next == CASE At(ts, p) = "." ->
                        IF IsName(ts, p + 1)
                        THEN Got([e |-> "field", of |-> x, x |-> ts[p + 1]], p + 2)
                        ELSE ParseError
                  [] At(ts, p) = "(" ->
                        Then(Parse(Items(<<>>, ")"), ts, p + 1), LAMBDA args, q :
                             Got([e |-> "call", of |-> x, args |-> args], q))
                  [] At(ts, p) = "[" -> ParseIndex(x, ts, p + 1)
                  [] At(ts, p) = "?" -> Got([e |-> "try", of |-> x], p + 1)
                  [] At(ts, p) = "as" ->
                        Then(ParseType(ts, p + 1), LAMBDA ty, q :
                             Got([e |-> "cast", of |-> x, type |-> ty], q))
    IN  IF At(ts, p) \in {".", "(", "[", "?", "as"}
        THEN Then(next, LAMBDA y, q : Parse(Applied(y, ns), ts, q))
        ELSE Got(x, p)

\* parse_args and the elements of an array, to the closing token.
ParseItems(items, close, ts, p) ==
    IF At(ts, p) = close THEN Got(items, p + 1)
    ELSE Then(Parse(Expr(FALSE), ts, p), LAMBDA x, q :
              IF At(ts, q) = "," THEN Parse(Items(Append(items, x), close), ts, q + 1)
              ELSE Expect(Got(Append(items, x), q), ts, close))

\* parse_field_init and the rest of a struct literal; it may span lines.
ParseInits(inits, ts, p) ==
    IF At(ts, p) = "}" THEN Got(inits, p + 1)
    ELSE IF ~ IsName(ts, p) \/ At(ts, p + 1) # ":" THEN ParseError
    ELSE Then(Parse(Expr(FALSE), ts, p + 2), LAMBDA value, q :
              LET all == Append(inits, [x |-> ts[p], value |-> value])
              IN  IF At(ts, q) = "," THEN Parse(Inits(all), ts, SkipNl(ts, q + 1))
                  ELSE Expect(Got(all, SkipNl(ts, q)), ts, "}"))
-----------------------------------------------------------------------------
ParseFree(ts, p) == Parse(Expr(FALSE), ts, p)

\* parse_expr_no_struct
ParseHead(ts, p) == Parse(Expr(TRUE), ts, p)

\* parse_contracts, and the invariants of a while: the clauses with one of
\* these words, each on a line of its own, and the line end after them.
RECURSIVE ParseClauses(_, _, _, _)
ParseClauses(ts, p, words, clauses) ==
    IF At(ts, SkipNl(ts, p)) \notin words
    THEN Got(clauses, IF clauses = <<>> THEN p ELSE SkipNl(ts, p))
    ELSE Then(ParseHead(ts, SkipNl(ts, p) + 1), LAMBDA x, q :
              ParseClauses(ts, q, words,
                           Append(clauses, [word |-> At(ts, SkipNl(ts, p)), x |-> x])))

Of(clauses, word) ==
    LET mine == SelectSeq(clauses, LAMBDA c : c.word = word)
    IN  [i \in DOMAIN mine |-> mine[i].x]

\* expr_to_lvalue
RECURSIVE IsLvalue(_)
IsLvalue(x) ==
    x.e = "name" \/ (x.e \in {"field", "index"} /\ IsLvalue(x.of))

\* parse_pattern, parse_field_pat
RECURSIVE ParseFieldPats(_, _, _)
ParseFieldPats(ts, p, fields) ==
    IF ~ IsName(ts, p) THEN ParseError
    ELSE LET all == Append(fields, ts[p])
         IN  IF At(ts, p + 1) = "," /\ At(ts, p + 2) # ")"
             THEN ParseFieldPats(ts, p + 2, all)
             ELSE Expect(Got(all, IF At(ts, p + 1) = "," THEN p + 2 ELSE p + 1), ts, ")")

ParsePattern(ts, p) ==
    IF At(ts, p) = "_" THEN Got([path |-> <<"_">>, fields |-> <<>>], p + 1)
    ELSE Then(ParsePath(ts, p), LAMBDA path, q :
              IF At(ts, q) # "(" THEN Got([path |-> path, fields |-> <<>>], q)
              ELSE Then(ParseFieldPats(ts, q + 1, <<>>), LAMBDA fields, r :
                        Got([path |-> path, fields |-> fields], r)))
-----------------------------------------------------------------------------
Block(stmts, tail) == [e |-> "block", stmts |-> stmts, tail |-> tail]
None == [e |-> "none"]

\* parse_let
ParseLet(ts, p) ==
    LET type == IF At(ts, p + 2) = ":"
                THEN Then(ParseType(ts, p + 3), LAMBDA ty, q : Got(<<ty>>, q))
                ELSE Got(<<>>, p + 2)
    IN  IF ~ IsName(ts, p + 1) THEN ParseError
        ELSE Then(Expect(type, ts, "="), LAMBDA ty, q :
             Then(ParseFree(ts, q), LAMBDA value, r :
                  Got([e |-> ts[p], x |-> ts[p + 1], type |-> ty, value |-> value], r)))

\* parse_while, parse_for
ParseLoop(ts, p) ==
    LET counted == At(ts, p) = "for"
        head == ParseHead(ts, IF counted THEN p + 3 ELSE p + 1)
    IN  IF counted /\ (~ IsName(ts, p + 1) \/ At(ts, p + 2) # "in") THEN ParseError
        ELSE Then(head, LAMBDA x, q :
             Then(IF counted THEN Got(<<>>, q)
                  ELSE ParseClauses(ts, q, {"invariant"}, <<>>), LAMBDA clauses, r :
             Then(Parse(ABlock, ts, r), LAMBDA body, end :
                  Got(IF counted THEN [e |-> "for", x |-> ts[p + 1], iter |-> x, body |-> body]
                      ELSE [e |-> "while", cond |-> x, invariants |-> Of(clauses, "invariant"),
                            body |-> body], end))))

\* A line that starts with an expression is an assignment if = follows it,
\* and the tail of the block if not.
ParseLine(stmts, ts, p) ==
    Then(ParseFree(ts, p), LAMBDA x, q :
        IF At(ts, q) # "="
        THEN Expect(Got(Block(stmts, x), SkipNl(ts, q)), ts, "}")
        ELSE Then(ParseFree(ts, q + 1), LAMBDA value, r :
            IF ~ IsLvalue(x) THEN ParseError
            ELSE Parse(After(Append(stmts, [e |-> "assign", lv |-> x, value |-> value])),
                           ts, SkipNl(ts, r))))

\* parse_return_tail, parse_match
ParseTail(ts, p) ==
    CASE At(ts, p) = "return" ->
            IF At(ts, p + 1) \in {"nl", "}"} THEN Got([e |-> "return", xs |-> <<>>], p + 1)
            ELSE Then(ParseFree(ts, p + 1), LAMBDA x, q :
                      Got([e |-> "return", xs |-> <<x>>], q))
      [] At(ts, p) = "if" -> Parse(AnIf, ts, p)
      [] At(ts, p) = "match" ->
            Then(Expect(ParseHead(ts, p + 1), ts, "{"), LAMBDA of, q :
            Then(Parse(Arms(<<>>), ts, SkipNl(ts, q)), LAMBDA arms, r :
                 Got([e |-> "match", of |-> of, arms |-> arms], r)))

\* The loop of parse_block: a binding or a loop is followed by more.
ParseStmts(stmts, ts, p) ==
    CASE At(ts, p) = "}" -> Got(Block(stmts, None), p + 1)
      [] At(ts, p) \in {"let", "var", "while", "for"} ->
            Then(IF At(ts, p) \in {"let", "var"} THEN ParseLet(ts, p) ELSE ParseLoop(ts, p),
                 LAMBDA st, q : Parse(After(Append(stmts, st)), ts, SkipNl(ts, q)))
      [] At(ts, p) \in {"return", "if", "match"} ->
            Then(ParseTail(ts, p), LAMBDA tail, q :
                 Expect(Got(Block(stmts, tail), SkipNl(ts, q)), ts, "}"))
      [] OTHER -> ParseLine(stmts, ts, p)

\* parse_if
ParseIf(ts, p) ==
    Then(ParseHead(ts, p + 1), LAMBDA cond, q :
    Then(Parse(ABlock, ts, q), LAMBDA then, r :
        LET els == CASE At(ts, r) # "else" -> Got(None, r)
                     [] At(ts, r) = "else" /\ At(ts, r + 1) = "if" -> Parse(AnIf, ts, r + 1)
                     [] OTHER -> Parse(ABlock, ts, r + 1)
        IN  Then(els, LAMBDA other, end :
                 Got([e |-> "if", cond |-> cond, then |-> then, els |-> other], end))))

\* parse_arm: the comma after an arm may be missing.
ParseArm(arms, ts, p) ==
    Then(Expect(ParsePattern(ts, p), ts, "=>"), LAMBDA pat, q :
    Then(IF At(ts, q) = "{" THEN Parse(ABlock, ts, q) ELSE ParseFree(ts, q), LAMBDA body, r :
        LET next == SkipNl(ts, r)
            after == IF At(ts, next) = "," THEN next + 1 ELSE next
        IN  Parse(Arms(Append(arms, [pat |-> pat, body |-> body])), ts, SkipNl(ts, after))))

\* parse_expr, parse_bin, parse_block and what they call.
Parse(what, ts, p) ==
    CASE what.rule = "expr" ->
            IF At(ts, p) \in {"forall", "exists"} THEN ParseQuant(what.ns, ts, p)
            ELSE Parse(Bin(0, what.ns), ts, p)
      [] what.rule = "bin" ->
            Then(Parse(Unary(what.ns), ts, p), LAMBDA l, q :
                 Parse(BinAfter(l, what.min, what.ns), ts, q))
      [] what.rule = "binAfter" -> ParseBinAfter(what.l, what.min, what.ns, ts, p)
      [] what.rule = "unary" -> ParseUnary(what.ns, ts, p)
      [] what.rule = "applied" -> ParseApplied(what.x, what.ns, ts, p)
      [] what.rule = "items" -> ParseItems(what.items, what.close, ts, p)
      [] what.rule = "inits" -> ParseInits(what.inits, ts, p)
      [] what.rule = "block" ->
            IF At(ts, p) = "{" THEN Parse(After(<<>>), ts, SkipNl(ts, p + 1)) ELSE ParseError
      [] what.rule = "stmts" -> ParseStmts(what.stmts, ts, p)
      [] what.rule = "if" -> ParseIf(ts, p)
      [] what.rule = "arms" ->
            IF At(ts, p) = "}" THEN Got(what.arms, p + 1) ELSE ParseArm(what.arms, ts, p)

\* parse_fn, from the contracts on; nothing may follow.
ParseFn(ts) ==
    Then(ParseClauses(ts, 1, {"requires", "ensures"}, <<>>), LAMBDA clauses, p :
    Then(Parse(ABlock, ts, p), LAMBDA body, q :
         IF q <= Len(ts) THEN ParseError
         ELSE Got([requires |-> Of(clauses, "requires"), ensures |-> Of(clauses, "ensures"),
                   body |-> body], q)))
====
