----------------------------- MODULE DecisionMC -----------------------------
(* Names, lines and rules for TLC.                                         *)
EXTENDS Decision

x == <<"x", "com">>
ax == <<"a", "x", "com">>
bax == <<"b", "a", "x", "com">>
xn == <<"x", "net">>
xuk == <<"x", "co", "uk">>
axuk == <<"a", "x", "co", "uk">>
Tokens == {"a", "b", "x", "com", "net", "co", "uk", "*", "com|net"}
Queried == {x, ax, bax, xn, xuk, axuk}
Choice == [g \in {"com|net"} |-> {"com", "net"}]

Line(form, subs, name, action) == [form |-> form, subs |-> subs, name |-> name, action |-> action]
Domain(subs, name) == Line("domain", subs, name, "none")
Exception(subs, name) == Line("exception", subs, name, "none")
To(subs, name, action) == Line("rewrite", subs, name, action)
Regex(name) == Line("regex", FALSE, name, "none")
Rule(type, prefix, include, name, values) ==
    [type |-> type, prefix |-> prefix, include |-> include, name |-> name, values |-> values]

Lines == {
    {Domain(TRUE, x), Domain(FALSE, x), Domain(FALSE, ax), Line("hosts", FALSE, x, "none"),
     Exception(TRUE, ax), Exception(FALSE, ax), Line("comment", FALSE, x, "none")},
    {To(TRUE, x, "A"), To(TRUE, ax, "NXDOMAIN"), To(FALSE, ax, "CNAME"), To(FALSE, bax, "AAAA"),
     Exception(FALSE, bax), Domain(TRUE, x)},
    {Domain(TRUE, <<Star, "com">>), Domain(FALSE, <<Star, "x", Star, "uk">>),
     Domain(TRUE, <<Star, "x", "co", "uk">>), Regex(<<"x", "com|net">>), Regex(ax),
     Exception(TRUE, x), Exception(FALSE, <<"a", Star, "uk">>)}}
Own == {Rule("ALLOW", "", TRUE, ax, {}), Rule("BLOCK", "||", FALSE, x, {}),
        Rule("REDIRECT", "||", FALSE, ax, {"A"}),
        Rule("REDIRECT", "", FALSE, bax, {"CNAME"}), Rule("ALLOW", "*.", TRUE, x, {})}
Hits == {{}, {[entry |-> <<"||", ax>>, bits |-> {<<"", x>>, <<"", ax>>}]}}

ThemesMC == {[lines |-> ls, rules |-> {}, chance |-> c] : ls \in Lines, c \in Hits}
            \cup {[lines |-> {Domain(TRUE, x), Exception(TRUE, ax)}, rules |-> Own, chance |-> {}]}
==============================================================================
