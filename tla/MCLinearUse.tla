---- MODULE MCLinearUse ----
(***************************************************************************)
(* Functions of one linear parameter: a let whose value is an atom, a call,*)
(* a match or a loop and whose body is a let, a match or less; every use   *)
(* of every variable, calls that yield a linear value, errors, and loops   *)
(* that return.                                                            *)
(***************************************************************************)
EXTENDS LinearUse

Atom(v) == [do |-> "atom", v |-> v]
App(args, ret) ==
    [do |-> "app", params |-> [i \in DOMAIN args |-> "Linear"],
     args |-> args, ret |-> ret]
LetIn(value, body) == [do |-> "let", value |-> value, body |-> body]
Test(v) == [do |-> "app", params |-> <<"Plain">>, args |-> <<v>>, ret |-> "Plain"]
MatchOf(a, b) == [do |-> "match", arms |-> <<a, b>>]
Error == [do |-> "raise"]
ReturnOf(v) == [do |-> "return", v |-> v]
Loop(init, cond, body) ==
    [do |-> "loop", init |-> init, cond |-> cond, body |-> body]

\* What can be said in one step with variables 1 to n.
Simple(n) ==
    {Atom(v) : v \in 0 .. n} \cup {App(<<v>>, "Plain") : v \in 1 .. n}
        \cup {App(<<n>>, "Linear"), App(<<>>, "Linear"), App(<<1, n>>, "Plain"), Error}

Matches(n) == {MatchOf(a, b) : a \in Simple(n), b \in Simple(n)}

\* Loops with n variables outside that carry a literal or variable n.
PlainLoops(n) ==
    {Loop(0, Atom(0), body) :
        body \in {Atom(0), App(<<n>>, "Plain"), MatchOf(Atom(0), ReturnOf(0)),
                  MatchOf(App(<<n>>, "Plain"), ReturnOf(0)),
                  MatchOf(Atom(0), ReturnOf(n)),
                  LetIn(App(<<>>, "Linear"), App(<<n + 2>>, "Plain")),
                  LetIn(App(<<>>, "Linear"),
                        MatchOf(App(<<n + 2>>, "Plain"), Error))}}
    \cup {Loop(n, Atom(0), body) : body \in {Atom(0), Atom(n), Atom(n + 1), App(<<1>>, "Plain")}}
    \cup {Loop(0, Test(n + 1), App(<<>>, "Plain")),
          Loop(0, LetIn(App(<<>>, "Linear"), App(<<n + 2>>, "Plain")), Atom(n + 1))}

Values(n) == Simple(n) \cup Matches(n) \cup PlainLoops(n)

Function(body, ret) == [body |-> body, ret |-> ret]

Tails == Simple(2) \cup Matches(2)
            \cup {LetIn(v, b) : v \in Simple(2) \cup PlainLoops(2), b \in Simple(3)}

MCBodies ==
    {Function(LetIn(value, body), ret) :
        value \in Values(1), body \in Tails, ret \in {"Plain", "Linear"}}

\* Loops that carry the parameter, consume it in their condition or begin to
\* carry a linear value.
LinearLoops ==
    {Loop(1, Atom(0), body) :
        body \in {Atom(2), MatchOf(Atom(2), LetIn(App(<<2>>, "Plain"), Atom(2))),
                  LetIn(App(<<2>>, "Plain"), App(<<>>, "Linear"))}}
    \cup {Loop(0, App(<<1>>, "Plain"), Atom(0)), Loop(0, Atom(0), App(<<>>, "Linear"))}
    \cup PlainLoops(1)

MCLoopBodies ==
    {Function(LetIn(loop, body), "Plain") : loop \in LinearLoops, body \in Simple(2)}

\* Terms with their parts of as many variables, and the parts of one more.
Kind(terms, what) == {t \in terms : t.do \in what}
Level(terms) ==
    LET found == terms \cup {t.value : t \in Kind(terms, {"let"})}
    IN  found \cup UNION {{t.arms[1], t.arms[2]} : t \in Kind(found, {"match"})}
Inner(terms) ==
    {t.body : t \in Kind(terms, {"let", "loop"})} \cup {t.cond : t \in Kind(terms, {"loop"})}

Level1 == Level({f.body : f \in MCBodies \cup MCLoopBodies})
Level2 == Level(Inner(Level1))
Level3 == Level(Inner(Level2))
Level4 == Level(Inner(Level3))
MCTerms == <<Level1, Level2, Level3, Level4>>

RECURSIVE MCSize(_)
MCSize(t) ==
    CASE t.do = "let" -> MCSize(t.value) + MCSize(t.body) + 1
      [] t.do = "match" -> MCSize(t.arms[1]) + MCSize(t.arms[2]) + 1
      [] t.do = "loop" -> MCSize(t.cond) + MCSize(t.body) + 1
      [] OTHER -> 0
====
