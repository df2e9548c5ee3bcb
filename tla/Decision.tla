------------------------------ MODULE Decision ------------------------------
(***************************************************************************)
(* From the lines of the filter lists to the decision of a query: how a    *)
(* line is classified and compiled, how the lists of a profile are merged, *)
(* how a name is decided, and what the list API says of a name.            *)
(*                                                                         *)
(*   lib/adguard/parser.ts          parseAdGuardLine, extractApexDomain    *)
(*   utils/sync/singleListSync.ts   the callback that compiles a rule      *)
(*   utils/sync/combine.ts          the merge of the lists                 *)
(*   lib/adguard/matcher.ts, utils/bloom.ts, lib/filtering.ts              *)
(*   pipeline/filter.ts             the decision                           *)
(*   api/profiles/lists.ts          the check of one list                  *)
(*                                                                         *)
(* A name is its sequence of labels, the top level last.  A pattern is one *)
(* of tokens: labels, Star (".*", here one or more labels) and the groups  *)
(* of a regular expression, which is written from ^ to $.                  *)
(***************************************************************************)
EXTENDS Naturals, Sequences, FiniteSets

CONSTANTS
    ListCount,      \* the lists of the profile, in the order of their rows
    Labels,         \* labels and tokens
    Names,          \* names that are queried
    Star,
    Groups,         \* tokens such as (com|net): the labels each stands for
    SecondLevels,   \* commonSecondLevels: co, com, net, ...
    CountryCodes,   \* labels of two letters
    None,
    MaxDomains,     \* MAX_LIST_DOMAINS
    MaxPatterns,    \* MAX_REGEX_RULES
    MaxLines,       \* bound: lines of all lists
    MaxRules,       \* bound: the user's own rules
    Themes          \* bound: the lines and rules a behaviour draws from

Lists == 1..ListCount
Forms == {"comment", "regex", "domain", "hosts", "exception", "rewrite"}
Tiers == {"local", "exception", "rewrite", "bloom", "pattern"}
Actions == {"A", "AAAA", "CNAME", "NXDOMAIN", "REFUSED"}

ASSUME BoundsAssumption ==
    /\ ListCount \in Nat /\ MaxDomains \in Nat /\ MaxPatterns \in Nat
    /\ MaxLines \in Nat /\ MaxRules \in Nat
Exceptions == [name : Seq(Labels), subs : BOOLEAN]
Rewrites == [name : Seq(Labels), subs : BOOLEAN, action : Actions]
Patterns == [name : Seq(Labels), subs : BOOLEAN, apex : Seq(Labels) \cup {None}]
Payloads ==
    [bloom : SUBSET ({"", "||"} \X Seq(Labels)), exceptions : SUBSET Exceptions,
     rewrites : SUBSET Rewrites, patterns : Seq(Patterns), count : Nat]

ASSUME NamesAssumption == Names \subseteq Seq(Labels) \ {<<>>}
ASSUME NoneAssumption ==
    /\ None \notin Seq(Labels) \cup Payloads \cup Exceptions \cup Rewrites \cup Patterns
    /\ None \notin [action : {"PASS", "BLOCK", "REDIRECT"}, tier : Tiers]
(* Neither a regular expression nor a line of a hosts file has a prefix;   *)
(* only regular expressions have groups.                                   *)
ASSUME LinesAssumption == \A t \in Themes : \A x \in t.lines :
    /\ x \in [form : Forms, subs : BOOLEAN, name : Seq(Labels), action : Actions \cup {"none"}]
    /\ x.form = "rewrite" <=> x.action \in Actions
    /\ x.form \in {"regex", "hosts"} => ~x.subs
    /\ x.form # "regex" => \A i \in DOMAIN x.name : x.name[i] \notin DOMAIN Groups

VARIABLES
    theme,          \* the lines and rules in use, and the entries that a Bloom
                    \* filter takes for members by chance, if it has certain others
    reading,        \* the list that is being fetched
    lines,          \* bound: the lines read
    payload,        \* what each list compiles to
    kept,           \* history: the lines of each list that were compiled
    rules,          \* the user's own rules, the newest first
    todo,           \* the lists combineAndPromote has yet to merge
    on, lost,       \* the lists it merges; history: those it could not load in full
    profile         \* the merged lists, or None

vars == <<theme, reading, lines, payload, kept, rules, todo, on, lost, profile>>

-----------------------------------------------------------------------------
(* Names and patterns.                                                     *)
Parents(d) == {SubSeq(d, i, Len(d)) : i \in 2..Len(d)}
Under(d, n) == d = n \/ n \in Parents(d)

Meets(token, label) == token = label \/ (token \in DOMAIN Groups /\ label \in Groups[token])
Agree(p, d) == Len(p) = Len(d) /\ \A i \in DOMAIN p : Meets(p[i], d[i])
Starred(p) == \E i \in DOMAIN p : p[i] = Star

(* f reads d from its first label to its last, each with a token of p that *)
(* meets it: the next token, or the same star once more.                   *)
Reads(f, p, d) ==
    /\ f[1] = 1 /\ f[Len(d)] = Len(p)
    /\ \A j \in DOMAIN d : p[f[j]] = Star \/ Meets(p[f[j]], d[j])
    /\ \A j \in 2..Len(d) : \/ f[j] = f[j - 1] + 1
                            \/ f[j] = f[j - 1] /\ p[f[j]] = Star

(* The whole of d fits the pattern.                                        *)
Fits(p, d) ==
    \/ Agree(p, d)
    \/ /\ Starred(p) /\ Len(d) >= Len(p)
       /\ \E f \in [DOMAIN d -> DOMAIN p] : Reads(f, p, d)

(* wildcardToRegex allows what stands under the pattern if subs.           *)
Matches(p, subs, d) == Fits(p, d) \/ (subs /\ \E e \in Parents(d) : Fits(p, e))

(* extractApexDomain: the last two labels, or three under co.uk and such.  *)
Apex(p) ==
    LET n == Len(p)
        size == IF n >= 3 /\ p[n - 1] \in SecondLevels /\ p[n] \in CountryCodes THEN 3 ELSE 2
        last == SubSeq(p, n + 1 - size, n)
    IN IF n < 2 \/ Starred(last) THEN None ELSE last

-----------------------------------------------------------------------------
(* A line of a list: [form, subs, name, action]; subs is the prefix "||".  *)
(* parseAdGuardLine: what a line is for.  An exception with a star is a    *)
(* pattern like any other.                                                 *)
Kind(x) ==
    CASE x.form = "comment" -> "none"
      [] x.form = "regex" \/ (x.form \in {"domain", "exception"} /\ Starred(x.name)) -> "pattern"
      [] x.form = "hosts" \/ (x.form = "domain" /\ ~Starred(x.name)) -> "domain"
      [] OTHER -> x.form

Nothing == [bloom |-> {}, exceptions |-> {}, rewrites |-> {}, patterns |-> <<>>, count |-> 0]
Takes(p, x) == /\ Kind(x) # "none" /\ p.count < MaxDomains
               /\ Kind(x) = "pattern" => Len(p.patterns) < MaxPatterns
Pattern(x) == [name |-> x.name, subs |-> x.subs, apex |-> Apex(x.name)]

(* The callback of syncGlobalList.  The rewrites are keyed by their name.  *)
Compile(p, x) ==
    LET q == [p EXCEPT !.count = @ + 1]
        entry == [name |-> x.name, subs |-> x.subs]
    IN IF ~Takes(p, x) THEN p
       ELSE CASE Kind(x) = "domain" ->
                   [q EXCEPT !.bloom = @ \cup {<<"", x.name>>}
                                         \cup (IF x.subs THEN {<<"||", x.name>>} ELSE {})]
              [] Kind(x) = "exception" -> [q EXCEPT !.exceptions = @ \cup {entry}]
              [] Kind(x) = "rewrite" ->
                   [q EXCEPT !.rewrites = {e \in @ : e.name # x.name}
                        \cup {[name |-> x.name, subs |-> x.subs, action |-> x.action]}]
              [] Kind(x) = "pattern" -> [q EXCEPT !.patterns = Append(@, Pattern(x))]

-----------------------------------------------------------------------------
(* Compiling and merging.                                                  *)
Init ==
    /\ theme \in Themes
    /\ reading = 1 /\ lines = 0
    /\ kept = [l \in Lists |-> {}] /\ payload = [l \in Lists |-> Nothing]
    /\ rules = <<>>
    /\ todo = {} /\ on = {} /\ lost = {} /\ profile = None

(* A download that breaks starts again: its lines are read a second time.  *)
ReadLine(x) ==
    /\ reading \in Lists /\ lines < MaxLines
    /\ lines' = lines + 1
    /\ payload' = [payload EXCEPT ![reading] = Compile(@, x)]
    /\ kept' = IF Takes(payload[reading], x) THEN [kept EXCEPT ![reading] = @ \cup {x}] ELSE kept
    /\ UNCHANGED <<theme, reading, rules, todo, on, lost, profile>>

ListRead ==
    /\ reading \in Lists
    /\ reading' = reading + 1
    /\ UNCHANGED <<theme, lines, payload, kept, rules, todo, on, lost, profile>>

(* The user adds a rule of their own, of a pattern that has none; before   *)
(* the lists, for no step on the lists depends on the rules.               *)
AddRule(r) ==
    /\ reading = 1 /\ lines = 0 /\ Len(rules) < MaxRules
    /\ \A i \in DOMAIN rules : <<rules[i].prefix, rules[i].name>> # <<r.prefix, r.name>>
    /\ rules' = <<r>> \o rules
    /\ UNCHANGED <<theme, reading, lines, payload, kept, todo, on, lost, profile>>

(* combineAndPromote: no list, one list as it is, or one after the other.  *)
Combine(ls) ==
    /\ reading \notin Lists /\ profile = None
    /\ on' = ls
    /\ IF Cardinality(ls) = 1
         THEN profile' = payload[CHOOSE l \in ls : TRUE] /\ todo' = {}
         ELSE profile' = Nothing /\ todo' = ls
    /\ UNCHANGED <<theme, reading, lines, payload, kept, rules, lost>>

(* A later rewrite of a name replaces an earlier one; patterns over the    *)
(* limit are left out.                                                     *)
Assigned(f, g) == {e \in f : ~\E h \in g : h.name = e.name} \cup g
Cut(s) == SubSeq(s, 1, IF Len(s) < MaxPatterns THEN Len(s) ELSE MaxPatterns)

(* Mutant: the exceptions seen are remembered by their domain alone.       *)
MergedByDomain(p, q) ==
    [p EXCEPT !.exceptions = @ \cup {e \in q.exceptions : ~\E f \in @ : f.name = e.name},
              !.rewrites = Assigned(@, q.rewrites), !.patterns = Cut(@ \o q.patterns)]
(* Mutant: the patterns of each list are limited, those of all are not.    *)
MergedUnlimited(p, q) ==
    [p EXCEPT !.exceptions = @ \cup q.exceptions,
              !.rewrites = Assigned(@, q.rewrites), !.patterns = @ \o q.patterns]

(* The rules and the filter of one more list.                              *)
MergedRules(p, q) ==
    [p EXCEPT !.exceptions = @ \cup q.exceptions,
              !.rewrites = Assigned(@, q.rewrites), !.patterns = Cut(@ \o q.patterns)]
MergedBloom(p, q) == [p EXCEPT !.bloom = @ \cup q.bloom]

(* A list whose filter or rules cannot be loaded is passed over, with what *)
(* was merged of it before.                                                *)
MergeList(l) ==
    /\ l \in todo /\ \A k \in todo : l <= k
    /\ todo' = todo \ {l}
    /\ \/ /\ profile' = MergedRules(MergedBloom(profile, payload[l]), payload[l])
          /\ UNCHANGED lost
       \/ /\ profile' \in {profile, MergedBloom(profile, payload[l])}
          /\ lost' = lost \cup {l}
    /\ UNCHANGED <<theme, reading, lines, payload, kept, rules, on>>

Merged == profile # None /\ todo = {}

(* The writes of the filter and of the rules: of a single list at once,    *)
(* of several one after the other.  When one fails, what it was to write   *)
(* stays as it was, here empty.                                            *)
SaveFails ==
    /\ Merged /\ on # {} /\ lost' = on
    /\ \/ profile' \in {Nothing, [Nothing EXCEPT !.bloom = profile.bloom]}
       \/ Cardinality(on) = 1 /\ profile' = [profile EXCEPT !.bloom = {}]
    /\ UNCHANGED <<theme, reading, lines, payload, kept, rules, todo, on>>

Next == \/ \E x \in theme.lines : ReadLine(x)
        \/ ListRead
        \/ \E r \in theme.rules : AddRule(r)
        \/ \E ls \in SUBSET Lists : Combine(ls)
        \/ \E l \in Lists : MergeList(l)
        \/ SaveFails
Spec == Init /\ [][Next]_vars

-----------------------------------------------------------------------------
(* The decision: [action, tier], or None where the default policy decides. *)
Decided(action, tier) == [action |-> action, tier |-> tier]

(* A rule of the user: [type, prefix, include, name, values].  isMatch: a  *)
(* pattern with a prefix and the flag is compared as it is written.        *)
IsMatch(r, d) == IF r.include THEN r.prefix = "" /\ Under(d, r.name)
                 ELSE IF r.prefix # "" THEN Under(d, r.name)
                 ELSE d = r.name
Matching(type, d) == {i \in DOMAIN rules : rules[i].type = type /\ IsMatch(rules[i], d)}
FindMatch(type, d) == LET I == Matching(type, d)
                      IN IF I = {} THEN None ELSE rules[CHOOSE i \in I : \A j \in I : i <= j]

(* The value of a redirection for a type of query: its own or the CNAME.   *)
HasValue(r, type) == type \in r.values \/ ("CNAME" \in r.values /\ type \in {"A", "AAAA"})

(* Mutant: the user's blacklist is looked at before the whitelist.         *)
LocalBlockFirst(d, type) ==
    IF Matching("BLOCK", d) # {} THEN Decided("BLOCK", "local")
    ELSE IF Matching("ALLOW", d) # {} THEN Decided("PASS", "local") ELSE None

Local(d, type) ==
    LET redirect == FindMatch("REDIRECT", d) IN
    IF Matching("ALLOW", d) # {} THEN Decided("PASS", "local")
    ELSE IF redirect # None /\ HasValue(redirect, type) THEN Decided("REDIRECT", "local")
    ELSE IF Matching("BLOCK", d) # {} THEN Decided("BLOCK", "local")
    ELSE None

(* Maps of names, looked up for the name itself and for each parent.       *)
Covering(entries, d) == {e \in entries : d = e.name \/ (e.subs /\ e.name \in Parents(d))}
Excepted(p, d) == Covering(p.exceptions, d) # {}

(* Mutant: the walk goes on past a parent that is found.                   *)
RewriteOfFarthest(p, d) ==
    LET C == Covering(p.rewrites, d)
    IN IF C = {} THEN None ELSE CHOOSE e \in C : \A f \in C : Len(e.name) <= Len(f.name)

Rewrite(p, d) ==
    LET C == Covering(p.rewrites, d)
    IN IF C = {} THEN None ELSE CHOOSE e \in C : \A f \in C : Len(e.name) >= Len(f.name)
RewriteTo(e, type) ==
    CASE e.action \in {"A", "AAAA"} /\ type \notin {e.action, "HTTPS", "SVCB"} ->
           Decided("BLOCK", "rewrite")
      [] e.action \in {"NXDOMAIN", "REFUSED"} -> Decided("BLOCK", "rewrite")
      [] OTHER -> Decided("REDIRECT", "rewrite")

(* Mutant: the parents are tested without the prefix.                      *)
HitAnyParent(p, d) == \E n \in {d} \cup Parents(d) : <<"", n>> \in p.bloom

(* No member tests negative; another entry may test positive by chance, if *)
(* the filter has the members whose bits it shares.                        *)
Chance(p, entry) == \E c \in theme.chance :
    c.entry = entry /\ c.bits # {} /\ c.bits \subseteq p.bloom
Test(p, entry) == entry \in p.bloom \/ Chance(p, entry)
Hit(p, d) == \/ Test(p, <<"", d>>) \/ Test(p, <<"||", d>>)
             \/ \E n \in Parents(d) : Test(p, <<"||", n>>)

(* Mutant: the index takes the last two labels everywhere.                 *)
PatternHitTwo(p, d) ==
    \E i \in DOMAIN p.patterns :
        LET x == p.patterns[i] IN
        /\ x.apex \in {None, IF Len(d) < 2 THEN None ELSE SubSeq(d, Len(d) - 1, Len(d))}
        /\ Matches(x.name, x.subs, d)

(* The patterns indexed under the name's apex, then those without an index.*)
PatternHit(p, d) ==
    \E i \in DOMAIN p.patterns :
        LET x == p.patterns[i] IN
        x.apex \in {None, Apex(d)} /\ Matches(x.name, x.subs, d)

External(p, d, type) ==
    IF Excepted(p, d) THEN Decided("PASS", "exception")
    ELSE IF Rewrite(p, d) # None THEN RewriteTo(Rewrite(p, d), type)
    ELSE IF Hit(p, d) THEN Decided("BLOCK", "bloom")
    ELSE IF PatternHit(p, d) THEN Decided("BLOCK", "pattern")
    ELSE None

Decide(d, type) == IF Local(d, type) # None THEN Local(d, type) ELSE External(profile, d, type)

(* GET .../lists/:id/check: what one list says of a name.  It has walks of *)
(* its own: find... of the matcher, over the name and its rests, and one   *)
(* for the filter; and another order.  Each returns what it found.  A list *)
(* that was never synchronised answers as an empty one does; that a saved  *)
(* filter cannot be read back is left out.                                 *)
Rest(d, i) == SubSeq(d, i, Len(d))
First(I) == CHOOSE i \in I : \A j \in I : i <= j

(* Mutant: the exceptions of the parents are forgotten.                    *)
FindExceptionOwn(p, d) ==
    LET E == {e \in p.exceptions : e.name = d}
    IN IF E = {} THEN None ELSE CHOOSE e \in E : TRUE

(* In the map of the exact ones, then in that of the others.               *)
FindException(p, d) ==
    LET exact == [name |-> d, subs |-> FALSE]
        I == {i \in DOMAIN d : [name |-> Rest(d, i), subs |-> TRUE] \in p.exceptions}
    IN IF exact \in p.exceptions THEN exact
       ELSE IF I = {} THEN None ELSE [name |-> Rest(d, First(I)), subs |-> TRUE]
FindRewrite(p, d) ==
    LET At(n, subs) == {e \in p.rewrites : e.name = n /\ e.subs = subs}
        I == {i \in DOMAIN d : At(Rest(d, i), TRUE) # {}}
    IN IF At(d, FALSE) # {} THEN CHOOSE e \in At(d, FALSE) : TRUE
       ELSE IF I = {} THEN None ELSE CHOOSE e \in At(Rest(d, First(I)), TRUE) : TRUE
FindInFilter(p, d) ==
    LET I == {i \in DOMAIN d : \/ i = 1 /\ Test(p, <<"", d>>)
                              \/ Test(p, <<"||", Rest(d, i)>>)}
    IN IF I = {} THEN None ELSE Rest(d, First(I))
FindPattern(p, d) ==
    LET In(apex) == {i \in DOMAIN p.patterns :
                        /\ p.patterns[i].apex = apex
                        /\ Matches(p.patterns[i].name, p.patterns[i].subs, d)}
        own == IF Apex(d) = None THEN {} ELSE In(Apex(d))
    IN IF own # {} THEN p.patterns[First(own)]
       ELSE IF In(None) # {} THEN p.patterns[First(In(None))] ELSE None

Answer(stage, entry) == [stage |-> stage, entry |-> entry]
Check(p, d) ==
    IF FindException(p, d) # None THEN Answer("exception", FindException(p, d))
    ELSE IF FindInFilter(p, d) # None THEN Answer("bloom", FindInFilter(p, d))
    ELSE IF FindPattern(p, d) # None THEN Answer("pattern", FindPattern(p, d))
    ELSE IF FindRewrite(p, d) # None THEN Answer("rewrite", FindRewrite(p, d))
    ELSE Answer("none", None)
Whitelisted(p, d) == Check(p, d).stage = "exception"
Blocked(p, d) == Check(p, d).stage \in {"bloom", "pattern", "rewrite"}

-----------------------------------------------------------------------------
Types == {"A", "TXT", "HTTPS"}
PayloadOK(p) ==
    /\ p \in Payloads
    /\ \A e, f \in p.rewrites : e.name = f.name => e = f
    /\ Len(p.patterns) <= MaxPatterns /\ p.count <= MaxDomains

(* Types; a name has one rewrite; the limits hold of each list and of the  *)
(* pool of a profile's patterns.                                           *)
TypeOK ==
    /\ theme \in Themes /\ reading \in 1..(ListCount + 1) /\ lines \in 0..MaxLines
    /\ DOMAIN payload = Lists /\ DOMAIN kept = Lists
    /\ \A l \in Lists : PayloadOK(payload[l]) /\ kept[l] \subseteq theme.lines
    /\ profile # None => PayloadOK(profile) /\ reading \notin Lists
    /\ profile = None => on = {}
    /\ lost \subseteq on /\ todo \subseteq on /\ on \subseteq Lists /\ lost \cap todo = {}

(* What a line says of a name, whatever it was compiled to.                *)
Says(x, d) == \/ d = x.name \/ (x.subs /\ x.name \in Parents(d))
              \/ x.form # "hosts" /\ Matches(x.name, x.subs, d)

From(ls) == UNION {kept[l] : l \in ls}
Excepts(x) == x.form = "exception" /\ ~Starred(x.name)
Blocks(x) == Kind(x) \in {"domain", "pattern"} /\ x.form # "exception"
Misread(x) == x.form = "exception" /\ Starred(x.name)
Settled(d) == External(profile, d, "A")

(* First the user's rules: what an ALLOW rule covers passes, what only a   *)
(* BLOCK rule covers does not, in whatever order they were added.  A rule  *)
(* with both a prefix and the flag covers nothing.  Where they are silent  *)
(* an exception of any list that was merged holds against every list.      *)
RuleSays(r, d) == ~(r.include /\ r.prefix # "")
                  /\ IF r.include \/ r.prefix # "" THEN Under(d, r.name) ELSE d = r.name
RulesFor(d) == {rules[i].type : i \in {j \in DOMAIN rules : RuleSays(rules[j], d)}}
Precedence ==
    Merged => \A d \in Names, t \in Types :
        /\ "ALLOW" \in RulesFor(d) => Decide(d, t).action = "PASS"
        /\ "BLOCK" \in RulesFor(d) /\ "ALLOW" \notin RulesFor(d)
             => Decide(d, t).action # "PASS" /\ Decide(d, t).tier = "local"
        /\ RulesFor(d) = {} /\ (\E x \in From(on \ lost) : Excepts(x) /\ Says(x, d))
             => Decide(d, t) = Decided("PASS", "exception")

(* Every name that a line of a merged list blocks is blocked or rewritten, *)
(* unless an exception covers it: neither the filter nor the index of the  *)
(* patterns loses a line.  Regular expressions with a group in their apex  *)
(* are indexed under what no name has for its apex; a full pool of         *)
(* patterns leaves patterns out.                                           *)
Legible(x) == Apex(x.name) # None =>
    \A i \in DOMAIN Apex(x.name) : Apex(x.name)[i] \notin DOMAIN Groups
BlocksHold ==
    Merged => \A x \in From(on \ lost), d \in Names :
        /\ Blocks(x) /\ Legible(x) /\ Says(x, d)
        /\ Kind(x) = "pattern" => Len(profile.patterns) < MaxPatterns
        => \/ Settled(d) # None /\ Settled(d).action # "PASS"
           \/ \E y \in From(on) : Excepts(y) /\ Says(y, d)

(* Nothing is blocked or rewritten that no line of a merged list names,    *)
(* but by a chance hit of the filter, or an exception with a star, which   *)
(* is compiled to a pattern that blocks.                                   *)
BlocksAreEarned ==
    Merged => \A d \in Names :
        Settled(d) # None /\ Settled(d).action # "PASS"
        => \/ \E x \in From(on) : /\ Blocks(x) \/ Misread(x) \/ x.form = "rewrite"
                                 /\ Says(x, d)
           \/ \E n \in {d} \cup Parents(d), t \in {"", "||"} : Chance(profile, <<t, n>>)

(* The rewrite that answers is the one of the nearest name, of those that  *)
(* no other line has replaced.  A star in the name of one is no wildcard.  *)
NearestRewrite ==
    Merged /\ lost = {} => \A d \in Names :
        \A x \in From(on) :
            /\ x.form = "rewrite" /\ ~Starred(x.name) /\ Says(x, d)
            /\ \A y \in From(on) : y.form = "rewrite" /\ y.name = x.name => y = x
            /\ ~Excepted(profile, d)
            => \E z \in From(on) :
                  /\ z.form = "rewrite" /\ Says(z, d) /\ Len(z.name) >= Len(x.name)
                  /\ \A t \in Types : External(profile, d, t) = RewriteTo(z, t)

(* What the checks of the merged lists say of a name is what a query gets. *)
(* One says "whitelisted" exactly if an exception answers.  What the lists *)
(* block or rewrite, one says "blocked" of, but for a chance hit that only *)
(* the merged filter has.  What one says "blocked" of, and none            *)
(* "whitelisted", is blocked or rewritten, unless its entry has been left  *)
(* out of a full pool, or a later list has a rewrite of the same name.     *)
(* The entry shown is of a line of that list that speaks of the name, or a *)
(* chance hit of its filter.                                               *)
Acts(d) == Settled(d) # None /\ Settled(d).action \in {"BLOCK", "REDIRECT"}
MixedHit(d) == \E n \in {d} \cup Parents(d), t \in {"", "||"} :
    Chance(profile, <<t, n>>) /\ \A l \in on : ~Test(payload[l], <<t, n>>)
LeftOut(l, a) ==
    \/ /\ a.stage = "pattern" /\ Len(profile.patterns) = MaxPatterns
       /\ \A i \in DOMAIN profile.patterns : profile.patterns[i] # a.entry
    \/ /\ a.stage = "rewrite"
       /\ \E k \in on : k > l /\ \E e \in payload[k].rewrites : e.name = a.entry.name
Shown(l, d, a) ==
    \/ \E x \in kept[l] :
          /\ Says(x, d)
          /\ IF Kind(x) = "domain" THEN a.stage = "bloom" /\ a.entry = x.name
             ELSE a.stage = Kind(x) /\ a.entry.name = x.name
    \/ a.stage = "bloom" /\ \E t \in {"", "||"} : Chance(payload[l], <<t, a.entry>>)
CheckAgrees ==
    Merged /\ lost = {} => \A d \in Names :
        /\ Settled(d) = Decided("PASS", "exception") <=> \E l \in on : Whitelisted(payload[l], d)
        /\ Acts(d) => (\E l \in on : Blocked(payload[l], d)) \/ MixedHit(d)
        /\ \A l \in on : LET a == Check(payload[l], d) IN
              /\ Blocked(payload[l], d) /\ ~LeftOut(l, a)
                 /\ (\A k \in on : ~Whitelisted(payload[k], d))
                 => Acts(d)
              /\ a.stage # "none" => Shown(l, d, a)
==============================================================================
