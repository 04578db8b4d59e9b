---- MODULE MCCheckedRun ----
(***************************************************************************)
(* Io narrows to Fs, Net stands alone.  Programs of three functions: main, *)
(* which holds Io and perhaps Net, a helper that takes a capability, and a *)
(* third that narrows or raises; recursive and not, pure and not, open and *)
(* closed, with the steps in an arm of an if and outside of one.           *)
(***************************************************************************)
EXTENDS CheckedRun

MCCaps == {"Io", "Fs", "Net"}
MCOps == [c \in MCCaps |-> IF c = "Io" THEN <<"Fs", Plain>> ELSE <<Plain>>]

PerformStep(k, op, arm) == [do |-> "perform", cap |-> k, op |-> op, arm |-> arm]
CallStep(g, args, arm) == [do |-> "call", fn |-> g, args |-> args, arm |-> arm]
RaiseStep(arm) == [do |-> "raise", error |-> "E", arm |-> arm]

Fn(params, types, body, result, ret, open, pure) ==
    [params |-> params, types |-> types, body |-> body, result |-> result,
     ret |-> ret, open |-> open, pure |-> pure]

\* main narrows Io, hands on the result, Net or a literal, and then uses a
\* capability itself or calls g.
Mains ==
    {Fn(params, <<"Fs", Plain, Plain>>,
        <<PerformStep(1, 1, FALSE), CallStep("f", <<arg>>, arm), last>>,
        0, Plain, open, FALSE) :
        params \in {<<"Io">>, <<"Io", "Net">>},
        arg \in {0, 2, 3},
        arm \in BOOLEAN,
        last \in {PerformStep(2, 1, FALSE), CallStep("g", <<1>>, TRUE)},
        open \in BOOLEAN}

\* f uses what it is given, passes it on, or calls itself.
Helpers ==
    {Fn(<<cap>>, <<Plain>>, <<step>>, 0, Plain, open, pure) :
        cap \in {"Fs", "Net"},
        step \in {PerformStep(1, 1, FALSE), CallStep("f", <<1>>, TRUE),
                  CallStep("g", <<1>>, FALSE)},
        open \in BOOLEAN,
        pure \in BOOLEAN}

\* g raises, uses what it is given, or calls back to f.
Leaves ==
    {Fn(<<cap>>, <<Plain>>, <<step>>, 0, Plain, open, pure) :
        cap \in {"Io", "Fs"},
        step \in {RaiseStep(TRUE), CallStep("f", <<1>>, TRUE),
                  PerformStep(1, 1, TRUE)},
        open \in BOOLEAN,
        pure \in BOOLEAN}

MCPrograms ==
    {[n \in {"main", "f", "g"} |->
        CASE n = "main" -> m [] n = "f" -> f [] n = "g" -> g] :
        m \in Mains, f \in Helpers, g \in Leaves}
====
