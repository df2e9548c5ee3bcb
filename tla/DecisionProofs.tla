--------------------------- MODULE DecisionProofs ---------------------------
(***************************************************************************)
(* Theorems about Decision, for any lists, lines, names and limits: the    *)
(* types and limits, that exceptions hold, that no block is lost or made   *)
(* up, which rewrite answers, and that the check of a list agrees with the *)
(* decision.  They rest on what a compiled list has of its lines (Has) and *)
(* what it is made of (Made), which compiling and merging preserve.        *)
(***************************************************************************)
EXTENDS Decision, SequenceTheorems, FiniteSetTheorems, WellFoundedInduction, TLAPS

IsLine(x) ==
    /\ x \in [form : Forms, subs : BOOLEAN, name : Seq(Labels), action : Actions \cup {"none"}]
    /\ x.form = "rewrite" <=> x.action \in Actions
    /\ x.form \in {"regex", "hosts"} => ~x.subs
    /\ x.form # "regex" => \A i \in DOMAIN x.name : x.name[i] \notin DOMAIN Groups

(* The kinds of the parser, without the order of its cases. *)
LEMMA Kinds ==
    ASSUME NEW x, IsLine(x)
    PROVE  /\ Kind(x) = "none" <=> x.form = "comment"
           /\ Kind(x) = "exception" <=> x.form = "exception" /\ ~Starred(x.name)
           /\ Kind(x) = "rewrite" <=> x.form = "rewrite"
           /\ Kind(x) = "domain" <=> x.form = "hosts" \/ (x.form = "domain" /\ ~Starred(x.name))
           /\ Kind(x) = "pattern" <=>
                x.form = "regex" \/ (x.form \in {"domain", "exception"} /\ Starred(x.name))
           /\ Kind(x) \in {"none", "exception", "rewrite", "domain", "pattern"}
<1>0. x.form \in Forms  BY DEF IsLine
<1>1. CASE x.form = "comment"  BY <1>1 DEF Kind
<1>2. CASE x.form = "regex"  BY <1>2 DEF Kind
<1>3. CASE x.form = "domain"
  <2>1. CASE Starred(x.name)  BY <1>3, <2>1 DEF Kind
  <2>2. CASE ~Starred(x.name)  BY <1>3, <2>2 DEF Kind
  <2> QED  BY <2>1, <2>2
<1>4. CASE x.form = "hosts"  BY <1>4 DEF Kind
<1>5. CASE x.form = "exception"  BY <1>5 DEF Kind
<1>6. CASE x.form = "rewrite"  BY <1>6 DEF Kind
<1> QED  BY <1>0, <1>1, <1>2, <1>3, <1>4, <1>5, <1>6 DEF Forms

-----------------------------------------------------------------------------
(* What is under the apex of a name or pattern is a sequence of labels. *)
LEMMA ApexTyped == ASSUME NEW p \in Seq(Labels) PROVE Apex(p) \in Seq(Labels) \cup {None}
<1> DEFINE n == Len(p)
           size == IF n >= 3 /\ p[n - 1] \in SecondLevels /\ p[n] \in CountryCodes THEN 3 ELSE 2
           last == SubSeq(p, n + 1 - size, n)
<1> n \in Nat /\ size \in {2, 3}  BY LenProperties
<1>1. CASE n < 2  BY <1>1 DEF Apex
<1>2. CASE n >= 2
  <2>1. size <= n  BY <1>2
  <2>2. \A i \in (n + 1 - size)..n : p[i] \in Labels  BY <2>1, ElementOfSeq
  <2>3. last \in Seq(Labels)  BY <2>1, <2>2, SubSeqProperties
  <2> HIDE DEF size
  <2> QED  BY <2>3 DEF Apex, size
<1> QED  BY <1>1, <1>2

(* A line compiles to typed entries. *)
LEMMA PatternTyped ==
    ASSUME NEW x, IsLine(x)
    PROVE  Pattern(x) \in Patterns
BY ApexTyped DEF Pattern, Patterns, IsLine

Blooms == SUBSET ({"", "||"} \X Seq(Labels))
ExceptionSets == SUBSET Exceptions
PatternLists == Seq(Patterns)

(* A payload is its five fields. *)
LEMMA Fields ==
    ASSUME NEW p \in Payloads
    PROVE  /\ p.bloom \in Blooms /\ p.exceptions \in ExceptionSets
           /\ p.rewrites \in SUBSET Rewrites /\ p.patterns \in PatternLists /\ p.count \in Nat
BY DEF Payloads, Blooms, ExceptionSets, PatternLists

(* The same of the updates that compiling and merging make. *)
LEMMA Updates ==
    ASSUME NEW p \in Payloads, NEW b \in Blooms, NEW e \in ExceptionSets,
           NEW r \in SUBSET Rewrites, NEW s \in PatternLists, NEW n \in Nat
    PROVE  /\ [p EXCEPT !.count = n] \in Payloads
           /\ [p EXCEPT !.bloom = b] \in Payloads
           /\ [p EXCEPT !.exceptions = e] \in Payloads
           /\ [p EXCEPT !.rewrites = r] \in Payloads
           /\ [p EXCEPT !.patterns = s] \in Payloads
           /\ [p EXCEPT !.exceptions = e, !.rewrites = r, !.patterns = s] \in Payloads
<1> HIDE DEF Blooms, ExceptionSets, PatternLists
<1>1. Payloads = [bloom : Blooms, exceptions : ExceptionSets, rewrites : SUBSET Rewrites,
                  patterns : PatternLists, count : Nat]
  BY DEF Payloads, Blooms, ExceptionSets, PatternLists
<1> DEFINE R == SUBSET Rewrites
<1>2. Payloads = [bloom : Blooms, exceptions : ExceptionSets, rewrites : R,
                  patterns : PatternLists, count : Nat] /\ r \in R
  BY <1>1
<1> HIDE DEF R
<1> QED  BY <1>2

(* Compiling one line keeps the types and the limits of a list. *)
LEMMA CompileTyped ==
    ASSUME NEW p, NEW x, IsLine(x), PayloadOK(p), Takes(p, x)
    PROVE  PayloadOK(Compile(p, x))
<1> DEFINE q == [p EXCEPT !.count = @ + 1]
<1>0. p \in Payloads /\ Kind(x) # "none" /\ p.count < MaxDomains  BY DEF PayloadOK, Takes
<1>t. /\ x.name \in Seq(Labels) /\ x.subs \in BOOLEAN
      /\ x.form = "rewrite" => x.action \in Actions
  BY DEF IsLine
<1>q. /\ q \in Payloads /\ q.count = p.count + 1 /\ q.count <= MaxDomains
      /\ q.bloom = p.bloom /\ q.exceptions = p.exceptions
      /\ q.rewrites = p.rewrites /\ q.patterns = p.patterns
  <2>1. p.count \in Nat /\ p.count + 1 \in Nat /\ p.count + 1 <= MaxDomains
    BY <1>0, Fields, BoundsAssumption
  <2>2. {} \in Blooms /\ {} \in ExceptionSets /\ {} \in SUBSET Rewrites /\ <<>> \in PatternLists
    BY DEF Blooms, ExceptionSets, PatternLists
  <2>3. q = [p EXCEPT !.count = p.count + 1] /\ q \in Payloads  BY <1>0, <2>1, <2>2, Updates
  <2> QED  BY <1>0, <2>1, <2>3 DEF Payloads
<1> HIDE DEF q
<1>f. /\ q.bloom \in Blooms /\ q.exceptions \in ExceptionSets /\ q.rewrites \in SUBSET Rewrites
      /\ q.patterns \in PatternLists /\ q.count \in Nat
  BY <1>q, Fields
<1>1. CASE Kind(x) = "domain"
  <2> DEFINE b == q.bloom \cup {<<"", x.name>>} \cup (IF x.subs THEN {<<"||", x.name>>} ELSE {})
             r == [q EXCEPT !.bloom = b]
  <2>1. Compile(p, x) = r  BY <1>1, <1>0 DEF Compile, q
  <2>a. \A t \in {"", "||"} : <<t, x.name>> \in {"", "||"} \X Seq(Labels)  BY <1>t
  <2>b. {<<"", x.name>>, <<"||", x.name>>} \in Blooms  BY <2>a DEF Blooms
  <2>2. b \in Blooms  BY <2>b, <1>f DEF Blooms
  <2>3. r \in Payloads  BY <2>2, <1>q, <1>f, Updates
  <2>4. r.rewrites = p.rewrites /\ r.patterns = p.patterns /\ r.count = q.count
    BY <1>q DEF Payloads
  <2> HIDE DEF r
  <2> QED  BY <2>1, <2>3, <2>4, <1>q DEF PayloadOK
<1>2. CASE Kind(x) = "exception"
  <2> DEFINE e == q.exceptions \cup {[name |-> x.name, subs |-> x.subs]}
             r == [q EXCEPT !.exceptions = e]
  <2>1. Compile(p, x) = r  BY <1>2, <1>0 DEF Compile, q
  <2>2. e \in ExceptionSets  BY <1>t, <1>f DEF ExceptionSets, Exceptions
  <2>3. r \in Payloads  BY <2>2, <1>q, <1>f, Updates
  <2>4. r.rewrites = p.rewrites /\ r.patterns = p.patterns /\ r.count = q.count
    BY <1>q DEF Payloads
  <2> HIDE DEF r
  <2> QED  BY <2>1, <2>3, <2>4, <1>q DEF PayloadOK
<1>3. CASE Kind(x) = "rewrite"
  <2> DEFINE e == [name |-> x.name, subs |-> x.subs, action |-> x.action]
             s == {f \in q.rewrites : f.name # x.name} \cup {e}
             r == [q EXCEPT !.rewrites = s]
  <2>1. Compile(p, x) = r  BY <1>3, <1>0 DEF Compile, q
  <2>2. e \in Rewrites  BY <1>3, <1>t, Kinds DEF Rewrites
  <2>3. s \in SUBSET Rewrites /\ \A f, g \in s : f.name = g.name => f = g
    BY <2>2, <1>f, <1>q DEF PayloadOK
  <2>4. r \in Payloads  BY <2>3, <1>q, <1>f, Updates
  <2>5. r.rewrites = s /\ r.patterns = p.patterns /\ r.count = q.count
    BY <1>q DEF Payloads
  <2> HIDE DEF r, s
  <2> QED  BY <2>1, <2>3, <2>4, <2>5, <1>q DEF PayloadOK
<1>4. CASE Kind(x) = "pattern"
  <2> DEFINE s == Append(q.patterns, Pattern(x))
             r == [q EXCEPT !.patterns = s]
  <2>1. Compile(p, x) = r  BY <1>4, <1>0 DEF Compile, q
  <2>2. s \in PatternLists /\ Len(s) = Len(q.patterns) + 1 /\ Len(q.patterns) \in Nat
    BY <1>f, PatternTyped DEF PatternLists
  <2>3. Len(s) <= MaxPatterns  BY <2>2, <1>4, <1>q, BoundsAssumption DEF Takes
  <2>4. r \in Payloads  BY <2>2, <1>q, <1>f, Updates
  <2>5. r.rewrites = p.rewrites /\ r.patterns = s /\ r.count = q.count
    BY <1>q DEF Payloads
  <2> HIDE DEF r, s
  <2> QED  BY <2>1, <2>3, <2>4, <2>5, <1>q DEF PayloadOK
<1> QED  BY <1>0, <1>1, <1>2, <1>3, <1>4, Kinds

-----------------------------------------------------------------------------
Entry(x) == [name |-> x.name, subs |-> x.subs]
RewriteEntry(x) == [name |-> x.name, subs |-> x.subs, action |-> x.action]
Listed(p, x) == \E i \in DOMAIN p.patterns : p.patterns[i] = Pattern(x)

(* Whatever the payload p has comes from a line of K. *)
MadeExceptions(p, K) == \A e \in p.exceptions : \E x \in K : Kind(x) = "exception" /\ e = Entry(x)
MadeBloom(p, K) == \A b \in p.bloom : \E x \in K :
    Kind(x) = "domain" /\ (b = <<"", x.name>> \/ (x.subs /\ b = <<"||", x.name>>))
MadeRewrites(p, K) == \A e \in p.rewrites : \E x \in K : Kind(x) = "rewrite" /\ e = RewriteEntry(x)
MadePatterns(p, K) == \A i \in DOMAIN p.patterns : \E x \in K :
    Kind(x) = "pattern" /\ p.patterns[i] = Pattern(x)
Made(p, K) == /\ MadeExceptions(p, K) /\ MadeBloom(p, K)
              /\ MadeRewrites(p, K) /\ MadePatterns(p, K)

(* The payload p has every line of K; of a name, one rewrite; of the       *)
(* patterns, all unless they are as many as it may have.                   *)
HasExceptions(p, K) == \A x \in K : Kind(x) = "exception" => Entry(x) \in p.exceptions
HasBloom(p, K) == \A x \in K : Kind(x) = "domain" =>
    <<"", x.name>> \in p.bloom /\ (x.subs => <<"||", x.name>> \in p.bloom)
HasRewrites(p, K) == \A x \in K : Kind(x) = "rewrite" => \E e \in p.rewrites : e.name = x.name
HasPatterns(p, K) == Len(p.patterns) < MaxPatterns =>
    \A x \in K : Kind(x) = "pattern" => Listed(p, x)
Has(p, K) == /\ HasExceptions(p, K) /\ HasBloom(p, K)
             /\ HasRewrites(p, K) /\ HasPatterns(p, K)

(* What compiling a line changes, field by field. *)
LEMMA CompileFields ==
    ASSUME NEW p \in Payloads, NEW x, IsLine(x), Takes(p, x)
    PROVE  LET r == Compile(p, x) IN
           /\ r.exceptions = IF Kind(x) = "exception" THEN p.exceptions \cup {Entry(x)}
                             ELSE p.exceptions
           /\ r.bloom = IF Kind(x) = "domain"
                        THEN p.bloom \cup {<<"", x.name>>}
                                     \cup (IF x.subs THEN {<<"||", x.name>>} ELSE {})
                        ELSE p.bloom
           /\ r.rewrites = IF Kind(x) = "rewrite"
                           THEN {f \in p.rewrites : f.name # x.name} \cup {RewriteEntry(x)}
                           ELSE p.rewrites
           /\ r.patterns = IF Kind(x) = "pattern" THEN Append(p.patterns, Pattern(x)) ELSE p.patterns
<1> DEFINE q == [p EXCEPT !.count = @ + 1]
<1>q. /\ q.bloom = p.bloom /\ q.exceptions = p.exceptions
      /\ q.rewrites = p.rewrites /\ q.patterns = p.patterns
      /\ DOMAIN q = {"bloom", "exceptions", "rewrites", "patterns", "count"}
  BY DEF Payloads
<1> HIDE DEF q
<1>1. CASE Kind(x) = "domain"
  <2> DEFINE b == q.bloom \cup {<<"", x.name>>} \cup (IF x.subs THEN {<<"||", x.name>>} ELSE {})
  <2>1. Compile(p, x) = [q EXCEPT !.bloom = b]  BY <1>1 DEF Compile, q
  <2> HIDE DEF b
  <2>2. b = p.bloom \cup {<<"", x.name>>} \cup (IF x.subs THEN {<<"||", x.name>>} ELSE {})
    BY <1>q DEF b
  <2> QED  BY <2>1, <2>2, <1>q, <1>1
<1>2. CASE Kind(x) = "exception"
  <2>1. Compile(p, x) = [q EXCEPT !.exceptions = q.exceptions \cup {Entry(x)}]
    BY <1>2 DEF Compile, q, Entry
  <2> QED  BY <2>1, <1>q, <1>2
<1>3. CASE Kind(x) = "rewrite"
  <2>1. Compile(p, x) = [q EXCEPT !.rewrites =
                            {f \in q.rewrites : f.name # x.name} \cup {RewriteEntry(x)}]
    BY <1>3 DEF Compile, q, RewriteEntry
  <2> QED  BY <2>1, <1>q, <1>3
<1>4. CASE Kind(x) = "pattern"
  <2>1. Compile(p, x) = [q EXCEPT !.patterns = Append(q.patterns, Pattern(x))]
    BY <1>4 DEF Compile, q
  <2> QED  BY <2>1, <1>q, <1>4
<1> QED  BY <1>1, <1>2, <1>3, <1>4, Kinds DEF Takes

(* A payload that has the lines of K and is made of them has, with one     *)
(* line more, that line too.                                               *)
LEMMA CompileKeeps ==
    ASSUME NEW p \in Payloads, NEW x, IsLine(x), Takes(p, x), NEW K, Made(p, K), Has(p, K)
    PROVE  Made(Compile(p, x), K \cup {x}) /\ Has(Compile(p, x), K \cup {x})
<1> DEFINE r == Compile(p, x)
           L == K \cup {x}
<1>c. /\ r.exceptions = IF Kind(x) = "exception" THEN p.exceptions \cup {Entry(x)}
                        ELSE p.exceptions
      /\ r.bloom = IF Kind(x) = "domain"
                   THEN p.bloom \cup {<<"", x.name>>}
                                \cup (IF x.subs THEN {<<"||", x.name>>} ELSE {})
                   ELSE p.bloom
      /\ r.rewrites = IF Kind(x) = "rewrite"
                      THEN {f \in p.rewrites : f.name # x.name} \cup {RewriteEntry(x)}
                      ELSE p.rewrites
      /\ r.patterns = IF Kind(x) = "pattern" THEN Append(p.patterns, Pattern(x)) ELSE p.patterns
  BY CompileFields
<1>p. /\ p.patterns \in PatternLists /\ Pattern(x) \in Patterns
  BY Fields, PatternTyped
<1> HIDE DEF r
<1>1. MadeExceptions(r, L)  BY <1>c DEF Made, MadeExceptions
<1>2. MadeBloom(r, L)  BY <1>c DEF Made, MadeBloom
<1>3. MadeRewrites(r, L)  BY <1>c DEF Made, MadeRewrites
<1>4. HasExceptions(r, L)  BY <1>c DEF Has, HasExceptions
<1>5. HasBloom(r, L)  BY <1>c DEF Has, HasBloom
<1>6. HasRewrites(r, L)
  <2>1. RewriteEntry(x).name = x.name  BY DEF RewriteEntry
  <2> QED  BY <2>1, <1>c DEF Has, HasRewrites
<1>7. CASE Kind(x) = "pattern"
  <2>1. /\ r.patterns = Append(p.patterns, Pattern(x))
        /\ Len(r.patterns) = Len(p.patterns) + 1 /\ Len(p.patterns) \in Nat
        /\ DOMAIN r.patterns = 1..(Len(p.patterns) + 1)
        /\ DOMAIN p.patterns = 1..Len(p.patterns)
        /\ \A i \in DOMAIN p.patterns : r.patterns[i] = p.patterns[i]
        /\ r.patterns[Len(p.patterns) + 1] = Pattern(x)
    BY <1>7, <1>c, <1>p DEF PatternLists
  <2>2. MadePatterns(r, L)  BY <2>1, <1>7 DEF Made, MadePatterns
  <2>3. Len(p.patterns) < MaxPatterns  BY <1>7 DEF Takes
  <2>4. \A y \in K : Kind(y) = "pattern" => Listed(r, y)
    BY <2>1, <2>3 DEF Has, HasPatterns, Listed
  <2>5. Listed(r, x)  BY <2>1 DEF Listed
  <2> QED  BY <2>2, <2>4, <2>5, <1>1, <1>2, <1>3, <1>4, <1>5, <1>6 DEF Made, Has, HasPatterns, r
<1>8. CASE Kind(x) # "pattern"
  <2>1. MadePatterns(r, L)  BY <1>c, <1>8 DEF Made, MadePatterns
  <2>2. HasPatterns(r, L)  BY <1>c, <1>8 DEF Has, HasPatterns, Listed
  <2> QED  BY <2>1, <2>2, <1>1, <1>2, <1>3, <1>4, <1>5, <1>6 DEF Made, Has, r
<1> QED  BY <1>7, <1>8

(* Patterns that are taken stay. *)
LEMMA CompileLists ==
    ASSUME NEW p \in Payloads, NEW x, IsLine(x), Takes(p, x), NEW K,
           \A y \in K : Kind(y) = "pattern" => Listed(p, y)
    PROVE  \A y \in K \cup {x} : Kind(y) = "pattern" => Listed(Compile(p, x), y)
<1> DEFINE r == Compile(p, x)
<1>1. r.patterns = IF Kind(x) = "pattern" THEN Append(p.patterns, Pattern(x)) ELSE p.patterns
  BY CompileFields
<1>2. p.patterns \in Seq(Patterns) /\ Pattern(x) \in Patterns
  BY Fields, PatternTyped DEF PatternLists
<1> HIDE DEF r
<1>3. CASE Kind(x) = "pattern"
  <2>1. /\ DOMAIN r.patterns = 1..(Len(p.patterns) + 1) /\ DOMAIN p.patterns = 1..Len(p.patterns)
        /\ Len(p.patterns) \in Nat /\ \A i \in DOMAIN p.patterns : r.patterns[i] = p.patterns[i]
        /\ r.patterns[Len(p.patterns) + 1] = Pattern(x)
    BY <1>1, <1>2, <1>3
  <2>2. \A y \in K : Kind(y) = "pattern" => Listed(r, y)  BY <2>1 DEF Listed
  <2>3. Listed(r, x)  BY <2>1 DEF Listed
  <2> QED  BY <2>2, <2>3 DEF r
<1>4. CASE Kind(x) # "pattern"  BY <1>1, <1>4 DEF Listed, r
<1> QED  BY <1>3, <1>4

-----------------------------------------------------------------------------
(* Cutting a list of patterns keeps what is left at its place. *)
LEMMA CutIs ==
    ASSUME NEW s \in PatternLists
    PROVE  /\ Cut(s) \in PatternLists /\ Len(Cut(s)) <= MaxPatterns /\ Len(Cut(s)) \in Nat
           /\ Len(Cut(s)) <= Len(s) /\ DOMAIN Cut(s) = 1..Len(Cut(s))
           /\ \A i \in DOMAIN Cut(s) : Cut(s)[i] = s[i]
           /\ Len(Cut(s)) < MaxPatterns => Len(Cut(s)) = Len(s)
<1> DEFINE T == Patterns
           n == IF Len(s) < MaxPatterns THEN Len(s) ELSE MaxPatterns
<1>1. s \in Seq(T) /\ PatternLists = Seq(T)  BY DEF PatternLists
<1> HIDE DEF T
<1>2. Len(s) \in Nat /\ n \in Nat /\ n <= Len(s) /\ n <= MaxPatterns /\ 1 \in Int /\ n \in Int
  BY <1>1, LenProperties, BoundsAssumption
<1>3. \A i \in 1..n : s[i] \in T  BY <1>1, <1>2, ElementOfSeq
<1>4. Cut(s) = SubSeq(s, 1, n)  BY DEF Cut
<1>m. n < MaxPatterns => n = Len(s)  BY <1>2, BoundsAssumption
<1> HIDE DEF n
<1>5. /\ Cut(s) \in Seq(T) /\ Len(Cut(s)) = n
      /\ \A i \in 1..n : Cut(s)[i] = s[1 + i - 1]
  BY <1>2, <1>3, <1>4, SubSeqProperties
<1>6. DOMAIN Cut(s) = 1..n  BY <1>5, LenProperties
<1> QED  BY <1>1, <1>2, <1>5, <1>6, <1>m

(* The merged filter and rules, field by field. *)
LEMMA MergedFields ==
    ASSUME NEW p \in Payloads, NEW q \in Payloads
    PROVE  LET b == MergedBloom(p, q)
               r == MergedRules(p, q)
           IN /\ b \in Payloads /\ b.bloom = p.bloom \cup q.bloom /\ b.exceptions = p.exceptions
              /\ b.rewrites = p.rewrites /\ b.patterns = p.patterns /\ b.count = p.count
              /\ r \in Payloads /\ r.bloom = p.bloom /\ r.exceptions = p.exceptions \cup q.exceptions
              /\ r.rewrites = Assigned(p.rewrites, q.rewrites)
              /\ r.patterns = Cut(p.patterns \o q.patterns) /\ r.count = p.count
<1> DEFINE b == p.bloom \cup q.bloom
           e == p.exceptions \cup q.exceptions
           w == Assigned(p.rewrites, q.rewrites)
           s == Cut(p.patterns \o q.patterns)
<1>1. b \in Blooms /\ e \in ExceptionSets  BY Fields DEF Blooms, ExceptionSets
<1>2. w \in SUBSET Rewrites  BY Fields DEF Assigned
<1>3. p.patterns \o q.patterns \in PatternLists  BY Fields, ConcatProperties DEF PatternLists
<1>4. s \in PatternLists  BY <1>3, CutIs
<1>5. p.count \in Nat  BY Fields
<1>6. MergedBloom(p, q) = [p EXCEPT !.bloom = b]  BY DEF MergedBloom
<1>7. MergedRules(p, q) = [p EXCEPT !.exceptions = e, !.rewrites = w, !.patterns = s]
  BY DEF MergedRules
<1> HIDE DEF b, e, w, s
<1>8. [p EXCEPT !.bloom = b] \in Payloads
      /\ [p EXCEPT !.exceptions = e, !.rewrites = w, !.patterns = s] \in Payloads
  BY <1>1, <1>2, <1>4, <1>5, Updates
<1>9. DOMAIN p = {"bloom", "exceptions", "rewrites", "patterns", "count"}  BY DEF Payloads
<1>10. MergedBloom(p, q) \in Payloads /\ MergedRules(p, q) \in Payloads
  BY <1>6, <1>7, <1>8
<1> QED  BY <1>6, <1>7, <1>9, <1>10 DEF b, e, w, s

(* Merging keeps the types and the limits. *)
LEMMA MergedTyped ==
    ASSUME NEW p, NEW q, PayloadOK(p), PayloadOK(q)
    PROVE  PayloadOK(MergedBloom(p, q)) /\ PayloadOK(MergedRules(p, q))
<1>1. p \in Payloads /\ q \in Payloads  BY DEF PayloadOK
<1>2. PayloadOK(MergedBloom(p, q))  BY <1>1, MergedFields DEF PayloadOK
<1>3. p.patterns \o q.patterns \in PatternLists
  BY <1>1, Fields, ConcatProperties DEF PatternLists
<1>4. Len(Cut(p.patterns \o q.patterns)) <= MaxPatterns  BY <1>3, CutIs
<1>5. \A e, f \in Assigned(p.rewrites, q.rewrites) : e.name = f.name => e = f
  BY DEF PayloadOK, Assigned
<1> QED  BY <1>1, <1>2, <1>4, <1>5, MergedFields DEF PayloadOK

(* What is made of lines stays made of lines when more is merged. *)
LEMMA MergedIsMade ==
    ASSUME NEW p \in Payloads, NEW q \in Payloads, NEW K, Made(p, K), Made(q, K)
    PROVE  Made(MergedBloom(p, q), K) /\ Made(MergedRules(p, q), K)
<1> DEFINE b == MergedBloom(p, q)
           r == MergedRules(p, q)
           c == p.patterns \o q.patterns
<1>b. /\ b.bloom = p.bloom \cup q.bloom /\ b.exceptions = p.exceptions
      /\ b.rewrites = p.rewrites /\ b.patterns = p.patterns
  BY MergedFields
<1>r. /\ r.bloom = p.bloom /\ r.exceptions = p.exceptions \cup q.exceptions
      /\ r.rewrites = Assigned(p.rewrites, q.rewrites) /\ r.patterns = Cut(c)
  BY MergedFields
<1> HIDE DEF b, r
<1>1. Made(b, K)
  <2>1. MadeExceptions(b, K)  BY <1>b DEF Made, MadeExceptions
  <2>2. MadeBloom(b, K)  BY <1>b DEF Made, MadeBloom
  <2>3. MadeRewrites(b, K) /\ MadePatterns(b, K)  BY <1>b DEF Made, MadeRewrites, MadePatterns
  <2> QED  BY <2>1, <2>2, <2>3 DEF Made
<1>2. MadeExceptions(r, K) /\ MadeBloom(r, K)
  BY <1>r DEF Made, MadeExceptions, MadeBloom
<1>3. MadeRewrites(r, K)  BY <1>r DEF Made, MadeRewrites, Assigned
<1>4. /\ p.patterns \in PatternLists /\ q.patterns \in PatternLists /\ c \in PatternLists
      /\ Len(c) = Len(p.patterns) + Len(q.patterns)
      /\ \A i \in 1..Len(c) : c[i] = IF i <= Len(p.patterns) THEN p.patterns[i]
                                     ELSE q.patterns[i - Len(p.patterns)]
      /\ Len(p.patterns) \in Nat /\ Len(q.patterns) \in Nat
      /\ DOMAIN p.patterns = 1..Len(p.patterns) /\ DOMAIN q.patterns = 1..Len(q.patterns)
  BY Fields, ConcatProperties, LenProperties DEF PatternLists
<1> HIDE DEF c
<1> DEFINE a == Len(p.patterns)
           d == Len(q.patterns)
<1>n. a \in Nat /\ d \in Nat /\ Len(c) = a + d  BY <1>4
<1>c. /\ DOMAIN p.patterns = 1..a /\ DOMAIN q.patterns = 1..d
      /\ \A i \in 1..(a + d) : c[i] = IF i <= a THEN p.patterns[i] ELSE q.patterns[i - a]
  BY <1>4
<1> HIDE DEF a, d
<1>5. ASSUME NEW i \in 1..Len(c)
      PROVE  \E x \in K : Kind(x) = "pattern" /\ c[i] = Pattern(x)
  <2>0. i \in 1..(a + d)  BY <1>n
  <2>1. CASE i <= a
    <3>1. i \in DOMAIN p.patterns /\ c[i] = p.patterns[i]  BY <2>0, <2>1, <1>n, <1>c
    <3> QED  BY <3>1 DEF Made, MadePatterns
  <2>2. CASE ~(i <= a)
    <3>1. i - a \in 1..d  BY <2>0, <2>2, <1>n
    <3>2. i - a \in DOMAIN q.patterns /\ c[i] = q.patterns[i - a]
      BY <3>1, <2>0, <2>2, <1>n, <1>c
    <3> QED  BY <3>2 DEF Made, MadePatterns
  <2> QED  BY <2>1, <2>2
<1>6. MadePatterns(r, K)
  <2>1. r.patterns = Cut(c)  BY <1>r DEF c
  <2>2. /\ Len(Cut(c)) <= Len(c) /\ Len(Cut(c)) \in Nat /\ DOMAIN Cut(c) = 1..Len(Cut(c))
        /\ \A i \in DOMAIN Cut(c) : Cut(c)[i] = c[i]
    BY <1>4, CutIs
  <2>3. Len(c) \in Nat  BY <1>n
  <2>4. DOMAIN Cut(c) \subseteq 1..Len(c)  BY <2>2, <2>3
  <2> QED  BY <2>1, <2>2, <2>4, <1>5 DEF MadePatterns
<1> QED  BY <1>1, <1>2, <1>3, <1>6 DEF Made, b, r

(* The lines that either has, both have merged. *)
LEMMA MergedHas ==
    ASSUME NEW p \in Payloads, NEW q \in Payloads, NEW K
    PROVE  /\ Has(p, K) => Has(MergedBloom(p, q), K) /\ Has(MergedRules(p, q), K)
           /\ Has(q, K) => Has(MergedRules(MergedBloom(p, q), q), K)
<1> DEFINE b == MergedBloom(p, q)
           r == MergedRules(p, q)
           m == MergedRules(b, q)
           c == p.patterns \o q.patterns
<1>b. /\ b \in Payloads /\ b.bloom = p.bloom \cup q.bloom /\ b.exceptions = p.exceptions
      /\ b.rewrites = p.rewrites /\ b.patterns = p.patterns
  BY MergedFields
<1>r. /\ r.bloom = p.bloom /\ r.exceptions = p.exceptions \cup q.exceptions
      /\ r.rewrites = Assigned(p.rewrites, q.rewrites) /\ r.patterns = Cut(c)
  BY MergedFields
<1>m. /\ m.bloom = p.bloom \cup q.bloom /\ m.exceptions = p.exceptions \cup q.exceptions
      /\ m.rewrites = Assigned(p.rewrites, q.rewrites) /\ m.patterns = Cut(c)
  <2> HIDE DEF b
  <2> QED  BY <1>b, MergedFields
<1>4. /\ p.patterns \in PatternLists /\ q.patterns \in PatternLists /\ c \in PatternLists
      /\ Len(c) = Len(p.patterns) + Len(q.patterns)
      /\ \A i \in 1..Len(c) : c[i] = IF i <= Len(p.patterns) THEN p.patterns[i]
                                     ELSE q.patterns[i - Len(p.patterns)]
      /\ Len(p.patterns) \in Nat /\ Len(q.patterns) \in Nat
      /\ DOMAIN p.patterns = 1..Len(p.patterns) /\ DOMAIN q.patterns = 1..Len(q.patterns)
  BY Fields, ConcatProperties, LenProperties DEF PatternLists
<1>5. /\ Len(Cut(c)) < MaxPatterns => Len(Cut(c)) = Len(c)
      /\ DOMAIN Cut(c) = 1..Len(Cut(c)) /\ \A i \in DOMAIN Cut(c) : Cut(c)[i] = c[i]
  BY <1>4, CutIs
<1> HIDE DEF b, r, m, c
<1>6. ASSUME Len(Cut(c)) < MaxPatterns
      PROVE  /\ Len(p.patterns) < MaxPatterns /\ Len(q.patterns) < MaxPatterns
             /\ \A i \in DOMAIN p.patterns : i \in DOMAIN Cut(c) /\ Cut(c)[i] = p.patterns[i]
             /\ \A i \in DOMAIN q.patterns : /\ i + Len(p.patterns) \in DOMAIN Cut(c)
                                             /\ Cut(c)[i + Len(p.patterns)] = q.patterns[i]
  <2> DEFINE a == Len(p.patterns)
             d == Len(q.patterns)
  <2>1. a \in Nat /\ d \in Nat /\ Len(Cut(c)) = a + d /\ Len(c) = a + d  BY <1>4, <1>5, <1>6
  <2>d. /\ DOMAIN p.patterns = 1..a /\ DOMAIN q.patterns = 1..d /\ DOMAIN Cut(c) = 1..(a + d)
        /\ \A i \in 1..(a + d) : Cut(c)[i] = IF i <= a THEN p.patterns[i] ELSE q.patterns[i - a]
    BY <2>1, <1>4, <1>5
  <2> HIDE DEF a, d
  <2>2. a < MaxPatterns /\ d < MaxPatterns  BY <2>1, <1>6, BoundsAssumption
  <2>3. \A i \in 1..a : i \in 1..(a + d) /\ Cut(c)[i] = p.patterns[i]  BY <2>1, <2>d
  <2>4. \A k \in 1..(a + d) : ~(k <= a) => Cut(c)[k] = q.patterns[k - a]  BY <2>d
  <2>5. ASSUME NEW i \in 1..d
        PROVE  i + a \in 1..(a + d) /\ Cut(c)[i + a] = q.patterns[i]
    <3>1. i + a \in 1..(a + d) /\ ~(i + a <= a)  BY <2>1
    <3>2. PICK k \in 1..(a + d) : k = i + a /\ ~(k <= a) /\ k - a = i  BY <3>1, <2>1
    <3>3. Cut(c)[k] = q.patterns[k - a]  BY <3>2, <2>4
    <3> QED  BY <3>1, <3>2, <3>3
  <2> QED  BY <2>2, <2>3, <2>5, <2>d DEF a, d
<1>7. ASSUME Has(p, K)
      PROVE  Has(b, K) /\ Has(r, K)
  <2>1. Has(b, K)
    BY <1>7, <1>b DEF Has, HasExceptions, HasBloom, HasRewrites, HasPatterns, Listed
  <2>2. HasExceptions(r, K) /\ HasBloom(r, K)  BY <1>7, <1>r DEF Has, HasExceptions, HasBloom
  <2>3. HasRewrites(r, K)  BY <1>7, <1>r DEF Has, HasRewrites, Assigned
  <2>4. HasPatterns(r, K)  BY <1>7, <1>r, <1>6 DEF Has, HasPatterns, Listed
  <2> QED  BY <2>1, <2>2, <2>3, <2>4 DEF Has
<1>8. ASSUME Has(q, K)
      PROVE  Has(m, K)
  <2>2. HasExceptions(m, K) /\ HasBloom(m, K)  BY <1>8, <1>m DEF Has, HasExceptions, HasBloom
  <2>3. HasRewrites(m, K)  BY <1>8, <1>m DEF Has, HasRewrites, Assigned
  <2>4. HasPatterns(m, K)
    <3>1. ASSUME Len(m.patterns) < MaxPatterns, NEW x \in K, Kind(x) = "pattern"
          PROVE  Listed(m, x)
      <4>1. PICK i \in DOMAIN q.patterns : q.patterns[i] = Pattern(x)
        BY <3>1, <1>8, <1>m, <1>6 DEF Has, HasPatterns, Listed
      <4> QED  BY <4>1, <3>1, <1>m, <1>6 DEF Listed
    <3> QED  BY <3>1 DEF HasPatterns
  <2> QED  BY <2>2, <2>3, <2>4 DEF Has
<1> QED  BY <1>7, <1>8 DEF b, r, m

(* Of more lines, a payload is made as well. *)
LEMMA MadeOfMore ==
    ASSUME NEW p, NEW K, NEW L, K \subseteq L, Made(p, K)
    PROVE  Made(p, L)
BY DEF Made, MadeExceptions, MadeBloom, MadeRewrites, MadePatterns

(* The empty payload is typed, and made of whatever lines. *)
LEMMA NothingOK == PayloadOK(Nothing) /\ (\A K : Made(Nothing, K)) /\ Has(Nothing, {})
<1>1. Nothing \in Payloads
  <2>1. {} \in Blooms /\ {} \in ExceptionSets /\ {} \in SUBSET Rewrites /\ <<>> \in PatternLists
    BY DEF Blooms, ExceptionSets, PatternLists
  <2>2. Payloads = [bloom : Blooms, exceptions : ExceptionSets, rewrites : SUBSET Rewrites,
                    patterns : PatternLists, count : Nat]
    BY DEF Payloads, Blooms, ExceptionSets, PatternLists
  <2> HIDE DEF Blooms, ExceptionSets, PatternLists
  <2>3. 0 \in Nat  OBVIOUS
  <2> QED  BY <2>1, <2>2, <2>3 DEF Nothing
<1>2. /\ Nothing.bloom = {} /\ Nothing.exceptions = {} /\ Nothing.rewrites = {}
      /\ Nothing.patterns = <<>> /\ Nothing.count = 0
  BY DEF Nothing
<1>3. Len(<<>>) = 0 /\ DOMAIN <<>> = {}  OBVIOUS
<1>4. PayloadOK(Nothing)  BY <1>1, <1>2, <1>3, BoundsAssumption DEF PayloadOK
<1>5. \A K : Made(Nothing, K)
  BY <1>2, <1>3 DEF Made, MadeExceptions, MadeBloom, MadeRewrites, MadePatterns
<1>6. Has(Nothing, {})  BY DEF Has, HasExceptions, HasBloom, HasRewrites, HasPatterns
<1> QED  BY <1>4, <1>5, <1>6
LEMMA NothingIs == /\ Nothing.bloom = {} /\ Nothing.exceptions = {} /\ Nothing.rewrites = {}
                   /\ Nothing.patterns = <<>> /\ Nothing.count = 0
BY DEF Nothing

-----------------------------------------------------------------------------
(* Each list has its lines and nothing else; so has the profile, of the    *)
(* lists that were merged in full.  Its rewrites are those of the lists;   *)
(* a later list's replaces one of the same name.                           *)
AllPatterns(p, K) == \A x \in K : Kind(x) = "pattern" => Listed(p, x)
Compiled == \A l \in Lists : /\ Made(payload[l], kept[l]) /\ Has(payload[l], kept[l])
                             /\ AllPatterns(payload[l], kept[l])
Pooled == profile # None =>
    Made(profile, From(on)) /\ \A l \in on \ (lost \cup todo) : Has(profile, kept[l])
Replaced(l, e, f) == \E k \in on \ todo : k > l /\ f \in payload[k].rewrites /\ f.name = e.name
Rewritten == profile # None =>
    /\ \A f \in profile.rewrites : \E k \in on \ todo : f \in payload[k].rewrites
    /\ \A l \in on \ (lost \cup todo) : \A e \in payload[l].rewrites :
          e \in profile.rewrites \/ \E f \in profile.rewrites : Replaced(l, e, f)
    /\ \A k \in on \ todo, m \in todo : k < m
Inv == TypeOK /\ Compiled /\ Pooled /\ Rewritten

(* Every line of a behaviour is one that the parser may meet. *)
LEMMA LinesOK == ASSUME theme \in Themes, NEW x \in theme.lines PROVE IsLine(x)
BY LinesAssumption DEF IsLine

(* A payload is not taken for the absence of one. *)
LEMMA PayloadIsSome == ASSUME NEW p, PayloadOK(p) PROVE p # None /\ p \in Payloads
BY NoneAssumption DEF PayloadOK

(* The first state. *)
LEMMA InitInv == Init => Inv
<1> SUFFICES ASSUME Init PROVE Inv
  OBVIOUS
<1>1. \A l \in Lists : payload[l] = Nothing /\ kept[l] = {}  BY DEF Init
<1>2. Compiled  BY <1>1, NothingOK DEF Compiled, AllPatterns
<1>3. Pooled /\ Rewritten  BY DEF Init, Pooled, Rewritten
<1>4. TypeOK
  <2>1. reading \in 1..(ListCount + 1) /\ lines \in 0..MaxLines  BY BoundsAssumption DEF Init
  <2>2. DOMAIN payload = Lists /\ DOMAIN kept = Lists  BY DEF Init
  <2>3. \A l \in Lists : PayloadOK(payload[l]) /\ kept[l] \subseteq theme.lines
    BY <1>1, NothingOK
  <2>4. profile = None /\ on = {} /\ todo = {} /\ lost = {} /\ theme \in Themes  BY DEF Init
  <2> QED  BY <2>1, <2>2, <2>3, <2>4 DEF TypeOK
<1> QED  BY <1>2, <1>3, <1>4 DEF Inv

(* Reading a line changes one list, and comes before the merge. *)
LEMMA ReadLineInv ==
    ASSUME Inv, NEW x \in theme.lines, ReadLine(x)
    PROVE  Inv'
<1>1. reading \in Lists /\ profile = None /\ on = {} /\ IsLine(x)
  BY LinesOK DEF Inv, TypeOK, ReadLine
<1>2. /\ payload' = [payload EXCEPT ![reading] = Compile(payload[reading], x)]
      /\ UNCHANGED <<theme, reading, rules, todo, on, lost, profile>> /\ lines' = lines + 1
      /\ lines < MaxLines
      /\ kept' = IF Takes(payload[reading], x) THEN [kept EXCEPT ![reading] = @ \cup {x}] ELSE kept
  BY DEF ReadLine
<1>3. /\ DOMAIN payload = Lists /\ DOMAIN kept = Lists
      /\ \A l \in Lists : PayloadOK(payload[l]) /\ kept[l] \subseteq theme.lines
      /\ \A l \in Lists : /\ Made(payload[l], kept[l]) /\ Has(payload[l], kept[l])
                         /\ AllPatterns(payload[l], kept[l])
  BY DEF Inv, TypeOK, Compiled
<1>4. \A l \in Lists : /\ PayloadOK(payload'[l]) /\ kept'[l] \subseteq theme.lines
                       /\ Made(payload'[l], kept'[l]) /\ Has(payload'[l], kept'[l])
                       /\ AllPatterns(payload'[l], kept'[l])
  <2>1. CASE Takes(payload[reading], x)
    <3> DEFINE r == Compile(payload[reading], x)
               K == kept[reading] \cup {x}
    <3>1. PayloadOK(r)  BY <1>1, <1>3, <2>1, CompileTyped
    <3>2. payload[reading] \in Payloads  BY <1>1, <1>3, PayloadIsSome
    <3>3. Made(r, K) /\ Has(r, K)  BY <1>1, <1>3, <2>1, <3>2, CompileKeeps
    <3>4. K \subseteq theme.lines  BY <1>1, <1>3
    <3>6. AllPatterns(r, K)
      <4>1. \A y \in kept[reading] : Kind(y) = "pattern" => Listed(payload[reading], y)
        BY <1>1, <1>3 DEF AllPatterns
      <4> QED  BY <4>1, <1>1, <2>1, <3>2, CompileLists DEF AllPatterns
    <3>5. payload' = [payload EXCEPT ![reading] = r] /\ kept' = [kept EXCEPT ![reading] = K]
      BY <1>2, <2>1
    <3> HIDE DEF r, K
    <3> QED  BY <3>1, <3>3, <3>4, <3>5, <3>6, <1>1, <1>3
  <2>2. CASE ~Takes(payload[reading], x)
    <3>1. Compile(payload[reading], x) = payload[reading]  BY <2>2 DEF Compile
    <3>2. payload' = [payload EXCEPT ![reading] = payload[reading]] /\ kept' = kept
      BY <3>1, <2>2, <1>2
    <3> QED  BY <3>2, <1>3
  <2> QED  BY <2>1, <2>2
<1>5. DOMAIN payload' = Lists /\ DOMAIN kept' = Lists  BY <1>2, <1>3
<1>6. Compiled'  BY <1>4 DEF Compiled
<1>7. Pooled' /\ Rewritten'  BY <1>1, <1>2 DEF Pooled, Rewritten
<1>8. TypeOK'
  <2>1. lines' \in 0..MaxLines  BY <1>2, BoundsAssumption DEF Inv, TypeOK
  <2> QED  BY <2>1, <1>1, <1>2, <1>4, <1>5 DEF Inv, TypeOK
<1> QED  BY <1>6, <1>7, <1>8 DEF Inv

(* Going on to the next list, and the rules of the user, change no list. *)
LEMMA ListReadInv == ASSUME Inv, ListRead PROVE Inv'
<1>1. reading \in Lists /\ profile = None /\ on = {}  BY DEF Inv, TypeOK, ListRead
<1>2. /\ UNCHANGED <<theme, lines, payload, kept, rules, todo, on, lost, profile>>
      /\ reading' = reading + 1
  BY DEF ListRead
<1>3. reading' \in 1..(ListCount + 1)  BY <1>1, <1>2, BoundsAssumption DEF Lists
<1>4. TypeOK'  BY <1>1, <1>2, <1>3 DEF Inv, TypeOK
<1>5. Compiled' /\ Pooled' /\ Rewritten'
  BY <1>1, <1>2 DEF Inv, Compiled, Pooled, Rewritten
<1> QED  BY <1>4, <1>5 DEF Inv

(* Nothing but the rules changes. *)
LEMMA SameListsInv ==
    ASSUME Inv, UNCHANGED <<theme, reading, lines, payload, kept, todo, on, lost, profile>>
    PROVE  Inv'
<1>1. TypeOK'  BY DEF Inv, TypeOK
<1>2. Compiled' /\ Rewritten'  BY DEF Inv, Compiled, Rewritten, Replaced
<1>3. From(on)' = From(on)  BY DEF From
<1>4. Pooled'  BY <1>3 DEF Inv, Pooled
<1> QED  BY <1>1, <1>2, <1>4 DEF Inv

(* The merge begins with one list as it is, or with nothing. *)
LEMMA CombineInv == ASSUME Inv, NEW ls \in SUBSET Lists, Combine(ls) PROVE Inv'
<1>1. /\ reading \notin Lists /\ profile = None /\ on' = ls
      /\ UNCHANGED <<theme, reading, lines, payload, kept, rules, lost>>
  BY DEF Combine
<1>2. on = {} /\ lost = {}  BY <1>1 DEF Inv, TypeOK
<1>3. /\ \A l \in Lists : PayloadOK(payload[l])
      /\ \A l \in Lists : Made(payload[l], kept[l]) /\ Has(payload[l], kept[l])
  BY DEF Inv, TypeOK, Compiled
<1>4. ASSUME PayloadOK(profile'), todo' \subseteq ls
      PROVE  TypeOK'
  <2>1. profile' # None  BY <1>4, PayloadIsSome
  <2> QED  BY <2>1, <1>1, <1>2, <1>4 DEF Inv, TypeOK
<1>5. Compiled'  BY <1>1 DEF Inv, Compiled
<1>6. CASE Cardinality(ls) = 1
  <2>0. profile' = payload[CHOOSE l \in ls : TRUE] /\ todo' = {}  BY <1>6 DEF Combine
  <2>f. IsFiniteSet(ls)
    <3>1. IsFiniteSet(Lists)  BY FS_Interval, BoundsAssumption DEF Lists
    <3> QED  BY <3>1, FS_Subset
  <2>1. PICK l : ls = {l}  BY <1>6, <2>f, FS_Singleton
  <2>2. profile' = payload[l] /\ l \in Lists  BY <2>0, <2>1
  <2>3. From(on)' = kept[l]  BY <1>1, <2>1 DEF From
  <2>4. PayloadOK(profile')  BY <2>2, <1>3
  <2>5. TypeOK'  BY <1>4, <2>4, <2>0
  <2>6. Pooled'  BY <2>1, <2>2, <2>3, <1>1, <1>3 DEF Pooled
  <2>7. Rewritten'
    <3>1. on' = {l} /\ todo' = {} /\ profile'.rewrites = payload[l].rewrites /\ payload' = payload
      BY <2>0, <2>1, <2>2, <1>1
    <3> QED  BY <3>1 DEF Rewritten
  <2> QED  BY <1>5, <2>5, <2>6, <2>7 DEF Inv
<1>7. CASE Cardinality(ls) # 1
  <2>0. profile' = Nothing /\ todo' = ls  BY <1>7 DEF Combine
  <2>1. TypeOK'  BY <1>4, <2>0, NothingOK
  <2>2. Pooled'
    <3>1. Made(profile', From(on)')  BY <2>0, NothingOK
    <3>2. (on \ (lost \cup todo))' = {}  BY <2>0, <1>1
    <3> QED  BY <3>1, <3>2 DEF Pooled
  <2>3. Rewritten'  BY <2>0, <1>1, NothingIs DEF Rewritten
  <2> QED  BY <1>5, <2>1, <2>2, <2>3 DEF Inv
<1> QED  BY <1>6, <1>7

(* The rewrites of one more list replace those of the lists before it. *)
LEMMA RewrittenNext == ASSUME Inv, NEW l \in Lists, MergeList(l) PROVE Rewritten'
<1> DEFINE q == payload[l]
           b == MergedBloom(profile, q)
           r == MergedRules(b, q)
<1>1. /\ l \in todo /\ todo' = todo \ {l} /\ \A m \in todo : l <= m
      /\ on' = on /\ payload' = payload
      /\ \/ profile' = r /\ lost' = lost
         \/ profile' \in {profile, b} /\ lost' = lost \cup {l}
  BY DEF MergeList
<1>2. /\ l \in on /\ profile # None /\ profile \in Payloads /\ q \in Payloads
      /\ todo \subseteq on /\ on \subseteq Nat /\ lost \cap todo = {}
  <2>1. Lists \subseteq Nat  BY DEF Lists
  <2> QED  BY <1>1, <2>1 DEF Inv, TypeOK, PayloadOK
<1>3. /\ \A f \in profile.rewrites : \E k \in on \ todo : f \in payload[k].rewrites
      /\ \A k \in on \ (lost \cup todo) : \A e \in payload[k].rewrites :
            e \in profile.rewrites \/ \E f \in profile.rewrites : Replaced(k, e, f)
      /\ \A k \in on \ todo, m \in todo : k < m
  BY <1>2 DEF Inv, Rewritten
<1>b. b \in Payloads /\ b.rewrites = profile.rewrites  BY <1>2, MergedFields
<1> HIDE DEF b
<1>r. r.rewrites = Assigned(profile.rewrites, q.rewrites)  BY <1>b, <1>2, MergedFields
<1> HIDE DEF r
<1>4. on \ todo' = (on \ todo) \cup {l}  BY <1>1, <1>2
<1>5. \A k \in on \ todo', m \in todo' : k < m
  <2>1. ASSUME NEW m \in todo' PROVE l < m
    <3>1. m \in Nat /\ l \in Nat /\ l <= m /\ l # m  BY <1>1, <1>2
    <3> QED  BY <3>1
  <2> QED  BY <2>1, <1>1, <1>3, <1>4
<1>k. \A k, e, f : Replaced(k, e, f) => Replaced(k, e, f)'  BY <1>1 DEF Replaced
<1>6. CASE profile' = r /\ lost' = lost
  <2>1. ASSUME NEW f \in profile'.rewrites
        PROVE  \E k \in on \ todo' : f \in payload[k].rewrites
    BY <1>3, <1>4, <1>6, <1>r DEF Assigned
  <2>2. ASSUME NEW k \in on \ (lost' \cup todo'), NEW e \in payload[k].rewrites
        PROVE  \/ e \in profile'.rewrites
               \/ \E f \in profile'.rewrites : Replaced(k, e, f)'
    <3>1. CASE k = l  BY <3>1, <1>6, <1>r DEF Assigned
    <3>2. CASE k # l
      <4>0. k \in on \ (lost \cup todo) /\ k < l  BY <3>2, <1>1, <1>2, <1>3, <1>6
      <4>1. ASSUME NEW f \in profile.rewrites, f.name = e.name, f = e \/ Replaced(k, e, f)
            PROVE  \/ e \in profile'.rewrites
                   \/ \E g \in profile'.rewrites : Replaced(k, e, g)'
        <5>1. CASE \E h \in q.rewrites : h.name = f.name
          <6>1. PICK h \in q.rewrites : h.name = e.name  BY <5>1, <4>1
          <6>2. h \in profile'.rewrites  BY <1>6, <1>r DEF Assigned
          <6>3. k \in Nat /\ l \in Nat /\ l > k  BY <4>0, <1>2
          <6>4. Replaced(k, e, h)'  BY <6>1, <6>3, <1>1, <1>4 DEF Replaced
          <6> QED  BY <6>2, <6>4
        <5>2. CASE ~\E h \in q.rewrites : h.name = f.name
          <6>1. f \in profile'.rewrites  BY <5>2, <1>6, <1>r DEF Assigned
          <6> QED  BY <6>1, <4>1, <1>k
        <5> QED  BY <5>1, <5>2
      <4>2. \E f \in profile.rewrites : f.name = e.name /\ (f = e \/ Replaced(k, e, f))
        BY <4>0, <1>3 DEF Replaced
      <4> QED  BY <4>1, <4>2
    <3> QED  BY <3>1, <3>2
  <2> QED  BY <2>1, <2>2, <1>1, <1>5 DEF Rewritten
<1>7. CASE profile' \in {profile, b} /\ lost' = lost \cup {l}
  <2>1. profile'.rewrites = profile.rewrites  BY <1>7, <1>b
  <2>2. on \ (lost' \cup todo') = on \ (lost \cup todo)  BY <1>1, <1>7
  <2>3. \A f \in profile'.rewrites : \E k \in on \ todo' : f \in payload[k].rewrites
    BY <2>1, <1>3, <1>4
  <2>4. \A k \in on \ (lost' \cup todo') : \A e \in payload[k].rewrites :
            e \in profile'.rewrites \/ \E f \in profile'.rewrites : Replaced(k, e, f)'
    BY <2>1, <2>2, <1>3, <1>k
  <2> QED  BY <2>3, <2>4, <1>1, <1>5 DEF Rewritten
<1> QED  BY <1>1, <1>6, <1>7

(* One more list is merged, in full or in part. *)
LEMMA MergeListInv == ASSUME Inv, NEW l \in Lists, MergeList(l) PROVE Inv'
<1> DEFINE q == payload[l]
           b == MergedBloom(profile, q)
           r == MergedRules(b, q)
           F == From(on)
<1>1. /\ l \in todo /\ todo' = todo \ {l}
      /\ UNCHANGED <<theme, reading, lines, payload, kept, rules, on>>
      /\ \/ profile' = r /\ lost' = lost
         \/ profile' \in {profile, b} /\ lost' = lost \cup {l}
  BY DEF MergeList
<1>2. /\ l \in on /\ profile # None /\ PayloadOK(profile) /\ PayloadOK(q) /\ reading \notin Lists
      /\ lost \subseteq on /\ todo \subseteq on /\ lost \cap todo = {}
  BY <1>1 DEF Inv, TypeOK
<1>3. /\ Made(profile, F) /\ Made(q, kept[l]) /\ Has(q, kept[l])
      /\ \A k \in on \ (lost \cup todo) : Has(profile, kept[k])
  BY <1>2 DEF Inv, Compiled, Pooled
<1>4. Made(q, F)
  <2>1. kept[l] \subseteq F  BY <1>2 DEF From
  <2> HIDE DEF F
  <2> QED  BY <2>1, <1>3, MadeOfMore
<1> HIDE DEF q, F
<1>p. profile \in Payloads /\ q \in Payloads  BY <1>2, PayloadIsSome
<1>b. PayloadOK(b) /\ Made(b, F) /\ b \in Payloads
  <2>1. PayloadOK(b)  BY <1>2, MergedTyped
  <2> QED  BY <2>1, <1>p, <1>3, <1>4, MergedIsMade, PayloadIsSome
<1>h. \A k \in on \ (lost \cup todo) : Has(b, kept[k])
  BY <1>3, <1>p, MergedHas
<1> HIDE DEF b
<1>r. PayloadOK(r) /\ Made(r, F)
  BY <1>b, <1>2, <1>p, <1>4, MergedTyped, MergedIsMade
<1>k. \A k \in on \ (lost \cup todo) : Has(r, kept[k])
  BY <1>h, <1>b, <1>p, MergedHas
<1>l. Has(r, kept[l])  BY <1>3, <1>p, MergedHas DEF b
<1> HIDE DEF r
<1>5. PayloadOK(profile') /\ Made(profile', F)
  BY <1>1, <1>2, <1>3, <1>b, <1>r
<1>6. TypeOK'
  <2>1. lost' \subseteq on /\ todo' \subseteq on /\ lost' \cap todo' = {}  BY <1>1, <1>2
  <2>2. profile' # None  BY <1>5, PayloadIsSome
  <2> QED  BY <2>1, <2>2, <1>1, <1>2, <1>5 DEF Inv, TypeOK
<1>7. Compiled'  BY <1>1 DEF Inv, Compiled
<1>8. Rewritten'  BY RewrittenNext
<1>9. Pooled'
  <2>1. From(on)' = F  BY <1>1 DEF From, F
  <2>2. \A k \in on \ (lost' \cup todo') : Has(profile', kept[k])
    BY <1>1, <1>2, <1>3, <1>h, <1>k, <1>l
  <2> QED  BY <2>1, <2>2, <1>1, <1>5 DEF Pooled
<1> QED  BY <1>6, <1>7, <1>8, <1>9 DEF Inv

(* What is not written stays empty, and no list counts as merged. *)
LEMMA SaveFailsInv == ASSUME Inv, SaveFails PROVE Inv'
<1>1. /\ profile # None /\ todo = {} /\ lost' = on
      /\ UNCHANGED <<theme, reading, lines, payload, kept, rules, todo, on>>
      /\ \/ profile' = Nothing \/ profile' = [Nothing EXCEPT !.bloom = profile.bloom]
         \/ profile' = [profile EXCEPT !.bloom = {}]
  BY DEF SaveFails, Merged
<1>2. PayloadOK(profile) /\ profile \in Payloads  BY <1>1, PayloadIsSome DEF Inv, TypeOK
<1>3. Nothing \in Payloads /\ PayloadOK(Nothing)  BY NothingOK DEF PayloadOK
<1>4. profile.bloom \in Blooms /\ {} \in Blooms
  <2>1. profile.bloom \in Blooms  BY <1>2, Fields
  <2> QED  BY <2>1 DEF Blooms
<1>f. /\ Nothing.exceptions \in ExceptionSets /\ Nothing.rewrites \in SUBSET Rewrites
      /\ Nothing.patterns \in PatternLists /\ Nothing.count \in Nat
      /\ profile.exceptions \in ExceptionSets /\ profile.rewrites \in SUBSET Rewrites
      /\ profile.patterns \in PatternLists /\ profile.count \in Nat
  BY <1>2, <1>3, Fields
<1>5. /\ [Nothing EXCEPT !.bloom = profile.bloom] \in Payloads
      /\ [profile EXCEPT !.bloom = {}] \in Payloads
  BY <1>2, <1>3, <1>4, <1>f, Updates
<1>6. \A p \in Payloads : \A b :
        /\ [p EXCEPT !.bloom = b].bloom = b
        /\ [p EXCEPT !.bloom = b].exceptions = p.exceptions
        /\ [p EXCEPT !.bloom = b].rewrites = p.rewrites
        /\ [p EXCEPT !.bloom = b].patterns = p.patterns
        /\ [p EXCEPT !.bloom = b].count = p.count
  BY DEF Payloads
<1>7. /\ profile' \in Payloads
      /\ profile'.bloom \in {{}, profile.bloom} /\ profile'.exceptions \in {{}, profile.exceptions}
      /\ profile'.rewrites \in {{}, profile.rewrites}
      /\ profile'.patterns \in {<<>>, profile.patterns} /\ profile'.count \in {0, profile.count}
  <2>1. CASE profile' = Nothing  BY <2>1, <1>3, NothingIs
  <2>2. CASE profile' = [Nothing EXCEPT !.bloom = profile.bloom]
    BY <2>2, <1>3, <1>5, <1>6, NothingIs
  <2>3. CASE profile' = [profile EXCEPT !.bloom = {}]  BY <2>3, <1>2, <1>5, <1>6
  <2> QED  BY <1>1, <2>1, <2>2, <2>3
<1>8. PayloadOK(profile')
  <2>1. Len(<<>>) = 0 /\ 0 <= MaxPatterns /\ 0 <= MaxDomains  BY BoundsAssumption
  <2> QED  BY <1>7, <1>2, <2>1 DEF PayloadOK
<1>9. TypeOK'
  <2>1. profile' # None  BY <1>8, PayloadIsSome
  <2> QED  BY <1>1, <1>8, <2>1 DEF Inv, TypeOK
<1>10. Compiled'  BY <1>1 DEF Inv, Compiled
<1>11. Pooled'
  <2>1. Made(profile, From(on))  BY <1>1 DEF Inv, Pooled
  <2>2. \A i \in DOMAIN profile'.patterns : i \in DOMAIN profile.patterns
                                           /\ profile'.patterns[i] = profile.patterns[i]
    BY <1>7
  <2> DEFINE F == From(on)
  <2>3. Made(profile', F)
    <3> HIDE DEF F
    <3>0. Made(profile, F)  BY <2>1 DEF F
    <3>1. MadeExceptions(profile', F) /\ MadeBloom(profile', F) /\ MadeRewrites(profile', F)
      BY <3>0, <1>7 DEF Made, MadeExceptions, MadeBloom, MadeRewrites
    <3>2. MadePatterns(profile', F)  BY <3>0, <2>2 DEF Made, MadePatterns
    <3> QED  BY <3>1, <3>2 DEF Made
  <2>4. From(on)' = From(on) /\ (on \ (lost \cup todo))' = {}  BY <1>1 DEF From
  <2> QED  BY <2>3, <2>4 DEF Pooled
<1>12. Rewritten'
  <2>1. (on \ (lost \cup todo))' = {} /\ todo' = {} /\ (on \ todo)' = on \ todo  BY <1>1
  <2>2. \A f \in profile'.rewrites : \E k \in on \ todo : f \in payload[k].rewrites
    BY <1>1, <1>7 DEF Inv, Rewritten
  <2> QED  BY <2>1, <2>2, <1>1 DEF Rewritten
<1> QED  BY <1>9, <1>10, <1>11, <1>12 DEF Inv

(* The invariant. *)
LEMMA Invariant == Spec => []Inv
<1>1. Inv /\ [Next]_vars => Inv'
  <2> SUFFICES ASSUME Inv, [Next]_vars PROVE Inv'
    OBVIOUS
  <2>1. ASSUME NEW x \in theme.lines, ReadLine(x) PROVE Inv'  BY <2>1, ReadLineInv
  <2>2. CASE ListRead  BY <2>2, ListReadInv
  <2>3. ASSUME NEW r \in theme.rules, AddRule(r) PROVE Inv'
    BY <2>3, SameListsInv DEF AddRule
  <2>4. ASSUME NEW ls \in SUBSET Lists, Combine(ls) PROVE Inv'  BY <2>4, CombineInv
  <2>5. ASSUME NEW l \in Lists, MergeList(l) PROVE Inv'  BY <2>5, MergeListInv
  <2>6. CASE SaveFails  BY <2>6, SaveFailsInv
  <2>7. CASE UNCHANGED vars  BY <2>7, SameListsInv DEF vars
  <2> QED  BY <2>1, <2>2, <2>3, <2>4, <2>5, <2>6, <2>7 DEF Next
<1> QED  BY <1>1, InitInv, PTL DEF Spec

(* Types, one rewrite for a name, and both limits, of each list and of the *)
(* profile's pool, through any number of lines and merges.                 *)
THEOREM TypeCorrect == Spec => []TypeOK
<1>1. Inv => TypeOK  BY DEF Inv
<1> QED  BY <1>1, Invariant, PTL

-----------------------------------------------------------------------------
(* Names and patterns.                                                     *)

(* The parents of a name are names, its own last labels. *)
LEMMA ParentsAre ==
    ASSUME NEW d \in Seq(Labels), NEW e \in Parents(d)
    PROVE  /\ e \in Seq(Labels) /\ Len(e) <= Len(d)
           /\ \A j \in Nat : j < Len(e) => e[Len(e) - j] = d[Len(d) - j]
<1> DEFINE n == Len(d)
<1>0. n \in Nat /\ \A k \in 1..n : d[k] \in Labels  BY LenProperties, ElementOfSeq
<1> HIDE DEF n
<1>1. PICK i \in 2..n : e = SubSeq(d, i, n)  BY DEF Parents, n
<1>2. i \in Int /\ n \in Int /\ i <= n /\ \A k \in i..n : d[k] \in Labels  BY <1>0, <1>1
<1>3. /\ e \in Seq(Labels) /\ Len(e) = n - i + 1
      /\ \A k \in 1..(n - i + 1) : e[k] = d[i + k - 1]
  BY <1>1, <1>2, SubSeqProperties
<1>4. Len(e) <= n  BY <1>1, <1>3, <1>0
<1>5. ASSUME NEW j \in Nat, j < Len(e) PROVE e[Len(e) - j] = d[n - j]
  <2>1. PICK k \in 1..(n - i + 1) : k = Len(e) - j  BY <1>3, <1>5, <1>0
  <2>2. i + k - 1 = n - j  BY <2>1, <1>3, <1>0
  <2> QED  BY <2>1, <2>2, <1>3
<1> QED  BY <1>3, <1>4, <1>5 DEF n

(* Without stars and groups, what a pattern fits is the pattern itself. *)
LEMMA PlainFits ==
    ASSUME NEW p \in Seq(Labels), NEW d \in Seq(Labels), ~Starred(p),
           \A i \in DOMAIN p : p[i] \notin DOMAIN Groups, Fits(p, d)
    PROVE  d = p
<1>1. Agree(p, d)  BY DEF Fits, Starred
<1>2. Len(p) = Len(d) /\ \A i \in 1..Len(p) : p[i] = d[i]
  BY <1>1, LenProperties DEF Agree, Meets
<1> QED  BY <1>2, SeqEqual

(* So a line without them says of a name no more than the rule for parents.*)
LEMMA PlainSays ==
    ASSUME NEW x, IsLine(x), ~Starred(x.name), x.form # "regex", NEW d \in Seq(Labels), Says(x, d)
    PROVE  d = x.name \/ (x.subs /\ x.name \in Parents(d))
<1>1. x.name \in Seq(Labels) /\ \A i \in DOMAIN x.name : x.name[i] \notin DOMAIN Groups
  BY DEF IsLine
<1>2. Fits(x.name, d) => d = x.name  BY <1>1, PlainFits
<1>3. \A e \in Parents(d) : Fits(x.name, e) => e = x.name  BY <1>1, PlainFits, ParentsAre
<1> QED  BY <1>2, <1>3 DEF Says, Matches

(* What a pattern fits is as long as it is, and ends as it does: up to a   *)
(* star, the last tokens each meet the label at their place.  An apex has  *)
(* three at most.                                                          *)
LEMMA FitsTail ==
    ASSUME NEW p \in Seq(Labels), NEW e \in Seq(Labels), Fits(p, e), NEW j \in 0..2, j < Len(p),
           \A i \in 0..j : p[Len(p) - i] # Star
    PROVE  Len(e) >= Len(p) /\ Meets(p[Len(p) - j], e[Len(e) - j])
<1> DEFINE n == Len(p)
           m == Len(e)
<1>0. n \in Nat /\ m \in Nat /\ DOMAIN p = 1..n /\ DOMAIN e = 1..m  BY LenProperties
<1>1. CASE Agree(p, e)
  <2>1. n = m /\ \A i \in 1..n : Meets(p[i], e[i])  BY <1>1, <1>0 DEF Agree
  <2> HIDE DEF n, m
  <2>2. n - j \in 1..n  BY <1>0 DEF n
  <2> QED  BY <2>1, <2>2, <1>0 DEF n, m
<1>2. ASSUME NEW f \in [DOMAIN e -> DOMAIN p], Reads(f, p, e), m >= n
      PROVE  Meets(p[n - j], e[m - j])
  <2>0. j < n /\ \A i \in 0..j : p[n - i] # Star  OBVIOUS
  <2>1. /\ f \in [1..m -> 1..n] /\ f[m] = n
        /\ \A i \in 1..m : p[f[i]] = Star \/ Meets(p[f[i]], e[i])
        /\ \A i \in 2..m : f[i] = f[i - 1] + 1 \/ (f[i] = f[i - 1] /\ p[f[i]] = Star)
    BY <1>0, <1>2 DEF Reads
  <2> HIDE DEF n, m
  <2>2. ASSUME NEW i \in 0..1, i < j, f[m - i] = n - i
        PROVE  f[m - (i + 1)] = n - (i + 1)
    <3>1. PICK k \in 2..m : k = m - i /\ k - 1 = m - (i + 1) /\ k - 1 \in 1..m
      BY <1>0, <1>2, <2>0, <2>2
    <3>2. p[f[k]] # Star  BY <3>1, <2>0, <2>2
    <3>3. f[k] = f[k - 1] + 1  BY <3>1, <3>2, <2>1
    <3>4. PICK g \in 1..n : g = f[k - 1]  BY <3>1, <2>1
    <3>5. g + 1 = n - i  BY <3>1, <3>3, <3>4, <2>2
    <3>6. g = n - (i + 1)  BY <3>5, <1>0
    <3> QED  BY <3>1, <3>4, <3>6
  <2>3. f[m - j] = n - j
    <3>1. f[m - 0] = n - 0  BY <2>1, <1>0
    <3>2. CASE j = 0  BY <3>1, <3>2
    <3>3. CASE j = 1  BY <3>1, <3>3, <2>2
    <3>4. CASE j = 2
      <4>1. f[m - 1] = n - 1  BY <3>1, <3>4, <2>2
      <4> QED  BY <4>1, <3>4, <2>2
    <3> QED  BY <3>2, <3>3, <3>4
  <2>4. m - j \in 1..m  BY <1>0, <1>2, <2>0
  <2> QED  BY <2>0, <2>1, <2>3, <2>4
<1> QED  BY <1>0, <1>1, <1>2 DEF Fits, Agree

(* What is said of the parents holds of the name, for it ends as they do. *)
LEMMA MatchesTail ==
    ASSUME NEW p \in Seq(Labels), NEW d \in Seq(Labels), NEW subs, Matches(p, subs, d),
           NEW j \in 0..2, j < Len(p), \A i \in 0..j : p[Len(p) - i] # Star
    PROVE  /\ Len(d) >= Len(p) /\ Meets(p[Len(p) - j], d[Len(d) - j])
           /\ ~subs => Fits(p, d)
<1>1. CASE Fits(p, d)  BY <1>1, FitsTail
<1>2. ASSUME subs, NEW e \in Parents(d), Fits(p, e)
      PROVE  Len(d) >= Len(p) /\ Meets(p[Len(p) - j], d[Len(d) - j])
  <2>1. /\ e \in Seq(Labels) /\ Len(e) <= Len(d)
        /\ \A i \in Nat : i < Len(e) => e[Len(e) - i] = d[Len(d) - i]
    BY <1>2, ParentsAre
  <2>2. Len(e) >= Len(p) /\ Meets(p[Len(p) - j], e[Len(e) - j])  BY <1>2, <2>1, FitsTail
  <2>3. Len(p) \in Nat /\ Len(e) \in Nat /\ Len(d) \in Nat  BY <2>1, LenProperties
  <2>4. j < Len(e)  BY <2>2, <2>3
  <2> QED  BY <2>1, <2>2, <2>3, <2>4
<1> QED  BY <1>1, <1>2 DEF Matches

Span(p) == IF Len(p) >= 3 /\ p[Len(p) - 1] \in SecondLevels /\ p[Len(p)] \in CountryCodes
           THEN 3 ELSE 2
End(p) == SubSeq(p, Len(p) + 1 - Span(p), Len(p))

(* The apex, token by token. *)
LEMMA ApexIs ==
    ASSUME NEW p \in Seq(Labels), Len(p) >= 2
    PROVE  /\ Span(p) \in {2, 3} /\ Span(p) <= Len(p)
           /\ Apex(p) = IF Starred(End(p)) THEN None ELSE End(p)
           /\ End(p) \in Seq(Labels) /\ Len(End(p)) = Span(p) /\ DOMAIN End(p) = 1..Span(p)
           /\ \A j \in 0..(Span(p) - 1) : End(p)[Span(p) - j] = p[Len(p) - j]
<1> DEFINE n == Len(p)
           s == Span(p)
           last == SubSeq(p, n + 1 - s, n)
<1>0. n \in Nat /\ n >= 2  BY LenProperties
<1>1. s \in {2, 3} /\ s <= n  BY <1>0 DEF Span
<1>2. Apex(p) = IF Starred(last) THEN None ELSE last  BY <1>0 DEF Apex, Span
<1>e. End(p) = last  BY DEF End
<1>3. /\ n + 1 - s \in Int /\ n \in Int /\ n + 1 - s <= n
      /\ \A k \in (n + 1 - s)..n : p[k] \in Labels
  <2>1. \A k \in 1..n : p[k] \in Labels  BY ElementOfSeq
  <2> HIDE DEF n, s
  <2> QED  BY <2>1, <1>0, <1>1
<1>4. /\ last \in Seq(Labels) /\ Len(last) = n - (n + 1 - s) + 1
      /\ \A k \in 1..(n - (n + 1 - s) + 1) : last[k] = p[(n + 1 - s) + k - 1]
  <2> HIDE DEF n, s
  <2> QED  BY <1>3, SubSeqProperties
<1> HIDE DEF last, n, s
<1>5. n - (n + 1 - s) + 1 = s /\ \A k \in 1..s : (n + 1 - s) + k - 1 = n - (s - k)
  BY <1>0, <1>1
<1>6. Len(last) = s /\ \A k \in 1..s : last[k] = p[n - (s - k)]  BY <1>4, <1>5
<1>7. ASSUME NEW j \in 0..(s - 1) PROVE last[s - j] = p[n - j]
  <2>1. s - j \in 1..s /\ s - (s - j) = j  BY <1>1
  <2> QED  BY <2>1, <1>6
<1>8. DOMAIN last = 1..s  BY <1>4, <1>6, LenProperties
<1> QED  BY <1>1, <1>2, <1>e, <1>4, <1>6, <1>7, <1>8 DEF n, s

(* A pattern of a line is indexed under the apex of every name it matches, *)
(* or under none.                                                          *)
LEMMA SameApex ==
    ASSUME NEW x, IsLine(x), Kind(x) = "pattern", Legible(x), NEW d \in Seq(Labels),
           Matches(x.name, x.subs, d), Apex(x.name) # None
    PROVE  Apex(d) = Apex(x.name)
<1> DEFINE p == x.name
           n == Len(p)
           m == Len(d)
           s == Span(p)
           z == Span(d)
           last == End(p)
           end == End(d)
<1>0. p \in Seq(Labels) /\ n \in Nat /\ m \in Nat /\ n >= 2  BY LenProperties DEF IsLine, Apex
<1>e. /\ n = Len(p) /\ m = Len(d)
      /\ s = IF n >= 3 /\ p[n - 1] \in SecondLevels /\ p[n] \in CountryCodes THEN 3 ELSE 2
      /\ z = IF m >= 3 /\ d[m - 1] \in SecondLevels /\ d[m] \in CountryCodes THEN 3 ELSE 2
  BY DEF Span
<1>k. ~x.subs \/ Starred(p)  BY Kinds DEF IsLine
<1>1. /\ s \in {2, 3} /\ s <= n /\ Apex(p) = IF Starred(last) THEN None ELSE last
      /\ last \in Seq(Labels) /\ Len(last) = s /\ DOMAIN last = 1..s
      /\ \A j \in 0..(s - 1) : last[s - j] = p[n - j]
  <2> HIDE DEF p
  <2> QED  BY <1>0, ApexIs
<1> HIDE DEF n, m, s, z, last, end
<1>2. ~Starred(last) /\ Apex(p) = last  BY <1>1
<1>3. ASSUME NEW j \in 0..(s - 1)
      PROVE  p[n - j] # Star /\ p[n - j] \notin DOMAIN Groups
  <2>1. s - j \in DOMAIN last  BY <1>1
  <2>2. last[s - j] # Star /\ last[s - j] \notin DOMAIN Groups
    BY <2>1, <1>2 DEF Starred, Legible
  <2> QED  BY <2>2, <1>1
<1>4. m >= n /\ (~x.subs => Fits(p, d)) /\ \A j \in 0..(s - 1) : p[n - j] = d[m - j]
  <2>1. ASSUME NEW j \in 0..(s - 1)
        PROVE  m >= n /\ (~x.subs => Fits(p, d)) /\ p[n - j] = d[m - j]
    <3>1. j \in 0..2 /\ j < n /\ \A i \in 0..j : i \in 0..(s - 1)  BY <1>0, <1>1
    <3>2. \A i \in 0..j : p[n - i] # Star  BY <3>1, <1>3
    <3>3. m >= n /\ Meets(p[n - j], d[m - j]) /\ (~x.subs => Fits(p, d))
      <4> DEFINE b == x.subs
      <4>1. Matches(p, b, d)  OBVIOUS
      <4> HIDE DEF p, b
      <4>2. n = Len(p) /\ m = Len(d)  BY <1>e
      <4>3. j < Len(p) /\ \A i \in 0..j : p[Len(p) - i] # Star  BY <4>2, <3>1, <3>2
      <4>4. /\ Len(d) >= Len(p) /\ Meets(p[Len(p) - j], d[Len(d) - j])
            /\ ~b => Fits(p, d)
        BY <4>1, <4>3, <3>1, <1>0, MatchesTail
      <4> QED  BY <4>2, <4>4 DEF b
    <3> QED  BY <3>3, <1>3 DEF Meets
  <2>2. 0 \in 0..(s - 1)  BY <1>1
  <2> QED  BY <2>1, <2>2
<1>5. m >= 3 => n >= 3 \/ (p[n] \notin CountryCodes \/ p[n - 1] \notin SecondLevels)
  <2> SUFFICES ASSUME m >= 3, n = 2 PROVE FALSE
    BY <1>0, <1>4
  <2>1. s = 2  BY <1>e
  <2>2. ~Starred(p)
    <3>1. \A i \in DOMAIN p : \E j \in 0..1 : i = n - j  BY <1>0, <1>e, LenProperties
    <3> QED  BY <3>1, <2>1, <1>3 DEF Starred
  <2>3. Agree(p, d)  BY <2>2, <1>4, <1>k DEF Fits, Starred
  <2> QED  BY <2>3, <1>e DEF Agree
<1>6. p[n] = d[m] /\ p[n - 1] = d[m - 1]
  <2>1. 0 \in 0..(s - 1) /\ 1 \in 0..(s - 1) /\ n - 0 = n /\ m - 0 = m  BY <1>0, <1>1
  <2> QED  BY <2>1, <1>4
<1>7. z = s
  <2>1. n >= 3 => m >= 3  BY <1>0, <1>4
  <2> QED  BY <2>1, <1>5, <1>6, <1>0, <1>e
<1>8. m >= 2  BY <1>0, <1>4
<1>9. /\ Apex(d) = IF Starred(end) THEN None ELSE end
      /\ end \in Seq(Labels) /\ Len(end) = z /\ DOMAIN end = 1..z
      /\ \A j \in 0..(z - 1) : end[z - j] = d[m - j]
  BY <1>0, <1>e, <1>8, ApexIs DEF z, end
<1>10. end = last
  <2>1. ASSUME NEW i \in 1..s PROVE end[i] = last[i]
    <3>1. s - i \in 0..(s - 1) /\ s - (s - i) = i  BY <1>1
    <3>2. end[s - (s - i)] = d[m - (s - i)] /\ last[s - (s - i)] = p[n - (s - i)]
      BY <3>1, <1>1, <1>7, <1>9
    <3>3. p[n - (s - i)] = d[m - (s - i)]  BY <3>1, <1>4
    <3> QED  BY <3>1, <3>2, <3>3
  <2> QED  BY <2>1, <1>1, <1>7, <1>9, SeqEqual
<1> QED  BY <1>2, <1>9, <1>10

-----------------------------------------------------------------------------
(* The decision.                                                           *)

(* No decision is the absence of one. *)
LEMMA DecidedIsSome ==
    ASSUME NEW a \in {"PASS", "BLOCK", "REDIRECT"}, NEW t \in Tiers
    PROVE  /\ Decided(a, t) # None /\ Decided(a, t).action = a /\ Decided(a, t).tier = t
BY NoneAssumption DEF Decided, Tiers

(* What a list that was merged in full has, the profile has. *)
LEMMA MergedLine ==
    ASSUME Inv, Merged, NEW x \in From(on \ lost)
    PROVE  /\ IsLine(x) /\ x \in From(on)
           /\ Kind(x) = "exception" => Entry(x) \in profile.exceptions
           /\ Kind(x) = "domain" =>
                <<"", x.name>> \in profile.bloom /\ (x.subs => <<"||", x.name>> \in profile.bloom)
           /\ Kind(x) = "rewrite" => \E e \in profile.rewrites : e.name = x.name
           /\ Kind(x) = "pattern" /\ Len(profile.patterns) < MaxPatterns => Listed(profile, x)
<1>1. PICK l \in on \ lost : x \in kept[l]  BY DEF From
<1>2. l \in on \ (lost \cup todo) /\ l \in Lists /\ kept[l] \subseteq theme.lines
      /\ theme \in Themes
  BY <1>1 DEF Merged, Inv, TypeOK
<1>3. Has(profile, kept[l])  BY <1>2 DEF Inv, Pooled, Merged
<1>4. IsLine(x)  BY <1>1, <1>2, LinesOK
<1>5. x \in From(on)  BY <1>1 DEF From
<1> QED  BY <1>1, <1>3, <1>4, <1>5 DEF Has, HasExceptions, HasBloom, HasRewrites, HasPatterns

(* Every line of the lists that are merged is one of a list. *)
LEMMA LinesOfAll == ASSUME Inv, NEW x \in From(on) PROVE IsLine(x)
<1>1. PICK l \in on : x \in kept[l]  BY DEF From
<1>2. l \in Lists /\ kept[l] \subseteq theme.lines /\ theme \in Themes  BY DEF Inv, TypeOK
<1> QED  BY <1>1, <1>2, LinesOK

(* What is excepted is covered by an exception of a line. *)
LEMMA ExceptedBy ==
    ASSUME Inv, Merged, NEW d, Excepted(profile, d)
    PROVE  \E y \in From(on) : Excepts(y) /\ Says(y, d)
<1>1. PICK e \in profile.exceptions : d = e.name \/ (e.subs /\ e.name \in Parents(d))
  BY DEF Excepted, Covering
<1>2. MadeExceptions(profile, From(on))  BY DEF Inv, Pooled, Merged, Made
<1>3. PICK y \in From(on) : Kind(y) = "exception" /\ e = Entry(y)
  BY <1>1, <1>2 DEF MadeExceptions
<1>4. Excepts(y)  BY <1>3, LinesOfAll, Kinds DEF Excepts
<1>5. Says(y, d)  BY <1>1, <1>3 DEF Says, Entry
<1> QED  BY <1>4, <1>5

(* A rewrite answers, or blocks; it never lets pass. *)
LEMMA RewriteActs ==
    ASSUME NEW e, NEW t
    PROVE  RewriteTo(e, t) # None /\ RewriteTo(e, t).action \in {"BLOCK", "REDIRECT"}
<1>1. RewriteTo(e, t) \in {Decided("BLOCK", "rewrite"), Decided("REDIRECT", "rewrite")}
  BY DEF RewriteTo
<1> QED  BY <1>1, DecidedIsSome DEF Tiers

(* A plain domain that a list blocks is found in the filter. *)
LEMMA DomainHits ==
    ASSUME Inv, Merged, NEW x \in From(on \ lost), Kind(x) = "domain", NEW d \in Names, Says(x, d)
    PROVE  Hit(profile, d)
<1>1. /\ IsLine(x) /\ <<"", x.name>> \in profile.bloom
      /\ x.subs => <<"||", x.name>> \in profile.bloom
  BY MergedLine
<1>2. d = x.name \/ (x.subs /\ x.name \in Parents(d))
  <2>1. CASE x.form = "hosts"  BY <2>1 DEF Says
  <2>2. CASE x.form = "domain" /\ ~Starred(x.name)
    BY <2>2, <1>1, PlainSays, NamesAssumption
  <2> QED  BY <2>1, <2>2, <1>1, Kinds
<1> QED  BY <1>1, <1>2 DEF Hit, Test

(* A pattern of a line is found under the apex of what it matches. *)
LEMMA PatternHits ==
    ASSUME Inv, Merged, NEW x \in From(on \ lost), Kind(x) = "pattern", Legible(x),
           Len(profile.patterns) < MaxPatterns, NEW d \in Names, Says(x, d)
    PROVE  PatternHit(profile, d)
<1>1. IsLine(x) /\ Listed(profile, x)  BY MergedLine
<1>2. x.name \in Seq(Labels) /\ d \in Seq(Labels)  BY <1>1, NamesAssumption DEF IsLine
<1>3. Matches(x.name, x.subs, d)
  <2>1. Fits(x.name, x.name)  BY DEF Fits, Agree, Meets
  <2> QED  BY <2>1 DEF Says, Matches
<1>4. PICK i \in DOMAIN profile.patterns : profile.patterns[i] = Pattern(x)
  BY <1>1 DEF Listed
<1>5. Apex(x.name) \in {None, Apex(d)}  BY <1>1, <1>2, <1>3, SameApex
<1> QED  BY <1>3, <1>4, <1>5 DEF PatternHit, Pattern

(* No line of a merged list is lost: what it names is blocked, rewritten,  *)
(* or excepted.                                                            *)
THEOREM BlocksAlwaysHold == Spec => []BlocksHold
<1>1. Inv => BlocksHold
  <2> SUFFICES ASSUME Inv, Merged, NEW x \in From(on \ lost), NEW d \in Names,
                      Blocks(x), Legible(x), Says(x, d),
                      Kind(x) = "pattern" => Len(profile.patterns) < MaxPatterns,
                      ~\E y \in From(on) : Excepts(y) /\ Says(y, d)
               PROVE  Settled(d) # None /\ Settled(d).action # "PASS"
    BY DEF BlocksHold
  <2>1. ~Excepted(profile, d)  BY ExceptedBy
  <2>2. Hit(profile, d) \/ PatternHit(profile, d)
    BY DomainHits, PatternHits DEF Blocks
  <2>3. \/ \E e : Settled(d) = RewriteTo(e, "A")
        \/ Settled(d) = Decided("BLOCK", "bloom") \/ Settled(d) = Decided("BLOCK", "pattern")
    BY <2>1, <2>2 DEF Settled, External
  <2> QED  BY <2>3, RewriteActs, DecidedIsSome DEF Tiers
<1> QED  BY <1>1, Invariant, PTL

(* Nothing is blocked or rewritten but what a line of the lists names, or  *)
(* what the filter takes for a member by chance.                           *)
THEOREM BlocksAlwaysEarned == Spec => []BlocksAreEarned
<1>1. Inv => BlocksAreEarned
  <2> SUFFICES ASSUME Inv, Merged, NEW d \in Names, Settled(d) # None, Settled(d).action # "PASS"
               PROVE  \/ \E x \in From(on) : /\ Blocks(x) \/ Misread(x) \/ x.form = "rewrite"
                                            /\ Says(x, d)
                      \/ \E n \in {d} \cup Parents(d), t \in {"", "||"} : Chance(profile, <<t, n>>)
    BY DEF BlocksAreEarned
  <2>m. /\ MadeRewrites(profile, From(on)) /\ MadeBloom(profile, From(on))
        /\ MadePatterns(profile, From(on))
    BY DEF Inv, Pooled, Merged, Made
  <2>0. Decided("PASS", "exception").action = "PASS"  BY DecidedIsSome DEF Tiers
  <2>1. Rewrite(profile, d) # None \/ Hit(profile, d) \/ PatternHit(profile, d)
    BY <2>0 DEF Settled, External
  <2>2. CASE Rewrite(profile, d) # None
    <3>1. PICK e \in Covering(profile.rewrites, d) : TRUE  BY <2>2 DEF Rewrite
    <3>2. PICK x \in From(on) : Kind(x) = "rewrite" /\ e = RewriteEntry(x)
      BY <3>1, <2>m DEF MadeRewrites, Covering
    <3>3. x.form = "rewrite"  BY <3>2, LinesOfAll, Kinds
    <3>4. Says(x, d)  BY <3>1, <3>2 DEF Covering, RewriteEntry, Says
    <3> QED  BY <3>3, <3>4
  <2>3. CASE Hit(profile, d)
    <3>1. PICK t \in {"", "||"}, n \in {d} \cup Parents(d) :
            Test(profile, <<t, n>>) /\ (t = "" => n = d)
      BY <2>3 DEF Hit
    <3>2. CASE Chance(profile, <<t, n>>)  BY <3>1, <3>2
    <3>3. CASE <<t, n>> \in profile.bloom
      <4>1. PICK x \in From(on) : /\ Kind(x) = "domain"
                                  /\ \/ <<t, n>> = <<"", x.name>>
                                     \/ x.subs /\ <<t, n>> = <<"||", x.name>>
        BY <3>3, <2>m DEF MadeBloom
      <4>2. n = x.name /\ (t = "" \/ x.subs)  BY <4>1
      <4>3. Says(x, d)  BY <4>2, <3>1 DEF Says
      <4>4. x.form # "exception"  BY <4>1, LinesOfAll, Kinds
      <4> QED  BY <4>1, <4>3, <4>4 DEF Blocks
    <3> QED  BY <3>1, <3>2, <3>3 DEF Test
  <2>4. CASE PatternHit(profile, d)
    <3>1. PICK i \in DOMAIN profile.patterns :
            Matches(profile.patterns[i].name, profile.patterns[i].subs, d)
      BY <2>4 DEF PatternHit
    <3>2. PICK x \in From(on) : Kind(x) = "pattern" /\ profile.patterns[i] = Pattern(x)
      BY <3>1, <2>m DEF MadePatterns
    <3>3. x.form # "hosts"  BY <3>2, LinesOfAll, Kinds
    <3>4. Says(x, d)  BY <3>1, <3>2, <3>3 DEF Pattern, Says
    <3>5. x.form = "exception" => Starred(x.name)  BY <3>2, LinesOfAll, Kinds
    <3> QED  BY <3>2, <3>4, <3>5 DEF Blocks, Misread
  <2> QED  BY <2>1, <2>2, <2>3, <2>4
<1> QED  BY <1>1, Invariant, PTL

(* Of the entries that cover a name, one has the longest name. *)
LEMMA Longest ==
    ASSUME NEW p \in Payloads, NEW d \in Seq(Labels), Covering(p.rewrites, d) # {}
    PROVE  \E e \in Covering(p.rewrites, d) : \A f \in Covering(p.rewrites, d) :
              Len(e.name) >= Len(f.name)
<1> DEFINE C == Covering(p.rewrites, d)
           T == {Len(d) - Len(e.name) : e \in C}
           R == OpToRel(<, Nat)
<1>1. \A e \in C : Len(e.name) \in Nat /\ Len(d) \in Nat /\ Len(e.name) <= Len(d)
  <2> SUFFICES ASSUME NEW e \in C PROVE Len(e.name) \in Nat /\ Len(d) \in Nat /\ Len(e.name) <= Len(d)
    OBVIOUS
  <2>1. e \in Rewrites /\ (d = e.name \/ e.name \in Parents(d))  BY Fields DEF Covering
  <2>2. e.name \in Seq(Labels)  BY <2>1 DEF Rewrites
  <2>3. Len(e.name) \in Nat /\ Len(d) \in Nat  BY <2>2, LenProperties
  <2>4. e.name \in Parents(d) => Len(e.name) <= Len(d)  BY ParentsAre
  <2> QED  BY <2>1, <2>3, <2>4
<1>2. T \subseteq Nat /\ T # {}
  <2>1. C # {}  OBVIOUS
  <2> HIDE DEF C
  <2>2. \A e \in C : Len(d) - Len(e.name) \in Nat  BY <1>1
  <2>3. PICK e : e \in C  BY <2>1
  <2>4. Len(d) - Len(e.name) \in T  BY <2>3
  <2> QED  BY <2>2, <2>4
<1>3. PICK t \in T : \A u \in T : <<u, t>> \notin R
  <2> HIDE DEF T
  <2> QED  BY <1>2, WFMin, NatLessThanWellFounded
<1>4. \A u \in Nat : t \in Nat /\ u < t => <<u, t>> \in R  BY DEF OpToRel
<1>5. PICK e \in C : t = Len(d) - Len(e.name)  BY <1>3
<1>6. ASSUME NEW f \in C PROVE Len(e.name) >= Len(f.name)
  <2> DEFINE u == Len(d) - Len(f.name)
  <2>1. u \in T /\ u \in Nat /\ t \in Nat  BY <1>2, <1>3
  <2>2. ~(u < t)
    <3> HIDE DEF u, T, R
    <3> QED  BY <2>1, <1>3, <1>4
  <2> QED  BY <2>1, <2>2, <1>1, <1>5
<1> QED  BY <1>6

(* The rewrite that answers is the one of the nearest name. *)
THEOREM NearestAnswers == Spec => []NearestRewrite
<1>1. Inv => NearestRewrite
  <2> SUFFICES ASSUME Inv, Merged, lost = {}, NEW d \in Names, NEW x \in From(on),
                      x.form = "rewrite", ~Starred(x.name), Says(x, d),
                      \A y \in From(on) : y.form = "rewrite" /\ y.name = x.name => y = x,
                      ~Excepted(profile, d)
               PROVE  \E z \in From(on) :
                         /\ z.form = "rewrite" /\ Says(z, d) /\ Len(z.name) >= Len(x.name)
                         /\ \A t \in Types : External(profile, d, t) = RewriteTo(z, t)
    BY DEF NearestRewrite
  <2> DEFINE C == Covering(profile.rewrites, d)
             r == Rewrite(profile, d)
  <2>m. MadeRewrites(profile, From(on)) /\ profile \in Payloads /\ d \in Seq(Labels)
    BY NamesAssumption DEF Inv, TypeOK, PayloadOK, Pooled, Merged, Made
  <2>1. IsLine(x) /\ \E e \in profile.rewrites : e.name = x.name
    <3>1. on = on \ lost  OBVIOUS
    <3>2. x \in From(on \ lost)  BY <3>1
    <3> QED  BY <3>2, MergedLine, Kinds
  <2>2. PICK e \in profile.rewrites : e.name = x.name  BY <2>1
  <2>3. PICK y \in From(on) : Kind(y) = "rewrite" /\ e = RewriteEntry(y)
    BY <2>2, <2>m DEF MadeRewrites
  <2>4. y = x  BY <2>2, <2>3, LinesOfAll, Kinds DEF RewriteEntry
  <2>5. d = x.name \/ (x.subs /\ x.name \in Parents(d))  BY <2>1, <2>m, PlainSays
  <2>6. e \in C  BY <2>3, <2>4, <2>5 DEF Covering, RewriteEntry
  <2>7. r \in C /\ \A f \in C : Len(r.name) >= Len(f.name)
    <3>1. \E g \in C : \A f \in C : Len(g.name) >= Len(f.name)  BY <2>6, <2>m, Longest
    <3>2. r = CHOOSE g \in C : \A f \in C : Len(g.name) >= Len(f.name)  BY <2>6 DEF Rewrite
    <3> HIDE DEF r, C
    <3> QED  BY <3>1, <3>2
  <2>8. r \in Rewrites /\ r # None  BY <2>7, <2>m, Fields, NoneAssumption DEF Covering
  <2>9. PICK z \in From(on) : Kind(z) = "rewrite" /\ r = RewriteEntry(z)
    <3>1. r \in profile.rewrites  BY <2>7 DEF Covering
    <3> QED  BY <3>1, <2>m DEF MadeRewrites
  <2>10. z.form = "rewrite"  BY <2>9, LinesOfAll, Kinds
  <2>11. Says(z, d)
    <3>1. d = r.name \/ (r.subs /\ r.name \in Parents(d))  BY <2>7 DEF Covering
    <3> QED  BY <3>1, <2>9 DEF RewriteEntry, Says
  <2>12. Len(z.name) >= Len(x.name)  BY <2>2, <2>6, <2>7, <2>9 DEF RewriteEntry
  <2>13. ASSUME NEW t \in Types PROVE External(profile, d, t) = RewriteTo(z, t)
    <3>1. External(profile, d, t) = RewriteTo(r, t)  BY <2>8 DEF External
    <3>2. r.action = z.action  BY <2>9 DEF RewriteEntry
    <3> QED  BY <3>1, <3>2 DEF RewriteTo
  <2> QED  BY <2>10, <2>11, <2>12, <2>13
<1> QED  BY <1>1, Invariant, PTL

-----------------------------------------------------------------------------
(* The check of one list.                                                  *)

(* The first of some positions is one of them. *)
LEMMA FirstIs == ASSUME NEW I, I \subseteq Nat, I # {} PROVE First(I) \in I
<1> DEFINE R == OpToRel(<, Nat)
<1>1. PICK t \in I : \A u \in I : <<u, t>> \notin R
  <2> HIDE DEF R
  <2> QED  BY WFMin, NatLessThanWellFounded DEF R
<1>2. ASSUME NEW u \in I PROVE t <= u
  <2>1. u < t => <<u, t>> \in R  BY DEF OpToRel
  <2> HIDE DEF R
  <2> QED  BY <2>1, <1>1
<1> QED  BY <1>2 DEF First

(* A name and its rests are the name and its parents. *)
LEMMA Rests ==
    ASSUME NEW d \in Seq(Labels) \ {<<>>}
    PROVE  /\ Rest(d, 1) = d /\ DOMAIN d \subseteq Nat /\ 1 \in DOMAIN d
           /\ \A i \in DOMAIN d : Rest(d, i) \in {d} \cup Parents(d) /\ Rest(d, i) \in Seq(Labels)
           /\ \A n \in {d} \cup Parents(d) : \E i \in DOMAIN d : Rest(d, i) = n
<1> DEFINE m == Len(d)
<1>1. m \in Nat /\ m >= 1 /\ DOMAIN d = 1..m /\ \A i \in 1..m : d[i] \in Labels
  BY LenProperties, ElementOfSeq, EmptySeq
<1> HIDE DEF m
<1>2. Rest(d, 1) = d
  <2>1. /\ SubSeq(d, 1, m) \in Seq(Labels) /\ Len(SubSeq(d, 1, m)) = m - 1 + 1
        /\ \A i \in 1..(m - 1 + 1) : SubSeq(d, 1, m)[i] = d[1 + i - 1]
    BY <1>1, SubSeqProperties
  <2>2. m - 1 + 1 = m /\ \A i \in 1..m : 1 + i - 1 = i  BY <1>1
  <2>3. SubSeq(d, 1, m) = d  BY <2>1, <2>2, SeqEqual DEF m
  <2> QED  BY <2>3 DEF Rest, m
<1>3. \A i \in 2..m : Rest(d, i) \in Parents(d)  BY DEF Rest, Parents, m
<1>4. \A i \in 1..m : i = 1 \/ i \in 2..m  BY <1>1
<1>5. \A n \in Parents(d) : \E i \in 2..m : Rest(d, i) = n  BY DEF Rest, Parents, m
<1>6. 2..m \subseteq 1..m  OBVIOUS
<1>7. \A n \in Parents(d) : n \in Seq(Labels)  BY ParentsAre
<1>8. 1 \in 1..m /\ 1..m \subseteq Nat  BY <1>1
<1> QED  BY <1>1, <1>2, <1>3, <1>4, <1>5, <1>6, <1>7, <1>8

(* Each walk finds an entry exactly if the decision's test finds one, and  *)
(* what it finds covers the name.                                          *)
LEMMA FindsException ==
    ASSUME NEW p \in Payloads, NEW d \in Seq(Labels) \ {<<>>}
    PROVE  /\ FindException(p, d) # None <=> Excepted(p, d)
           /\ FindException(p, d) # None => FindException(p, d) \in Covering(p.exceptions, d)
<1> DEFINE I == {i \in DOMAIN d : [name |-> Rest(d, i), subs |-> TRUE] \in p.exceptions}
           exact == [name |-> d, subs |-> FALSE]
           e == FindException(p, d)
<1>1. p.exceptions \subseteq Exceptions /\ None \notin p.exceptions
  BY Fields, NoneAssumption DEF ExceptionSets
<1>2. e = IF exact \in p.exceptions THEN exact
          ELSE IF I = {} THEN None ELSE [name |-> Rest(d, First(I)), subs |-> TRUE]
  BY DEF FindException
<1>3. I # {} => First(I) \in I
  <2>1. I \subseteq Nat  BY Rests
  <2> HIDE DEF I
  <2> QED  BY <2>1, FirstIs
<1> HIDE DEF e
<1>4. e # None => e \in Covering(p.exceptions, d)
  <2>1. CASE exact \in p.exceptions  BY <2>1, <1>2 DEF Covering
  <2>2. CASE exact \notin p.exceptions /\ I # {}
    <3>1. /\ e = [name |-> Rest(d, First(I)), subs |-> TRUE] /\ e \in p.exceptions
          /\ First(I) \in DOMAIN d
      BY <2>2, <1>2, <1>3
    <3>2. Rest(d, First(I)) \in {d} \cup Parents(d)  BY <3>1, Rests
    <3> QED  BY <3>1, <3>2 DEF Covering
  <2>3. CASE exact \notin p.exceptions /\ I = {}  BY <2>3, <1>2
  <2> QED  BY <2>1, <2>2, <2>3
<1>5. ASSUME NEW f \in Covering(p.exceptions, d) PROVE e # None
  <2>1. f \in p.exceptions /\ f \in Exceptions /\ (d = f.name \/ (f.subs /\ f.name \in Parents(d)))
    BY <1>1 DEF Covering
  <2>2. f = [name |-> f.name, subs |-> f.subs] /\ f.subs \in BOOLEAN  BY <2>1 DEF Exceptions
  <2>3. CASE ~f.subs
    <3>1. exact \in p.exceptions  BY <2>1, <2>2, <2>3
    <3> QED  BY <3>1, <1>1, <1>2
  <2>4. CASE f.subs = TRUE
    <3>1. PICK i \in DOMAIN d : Rest(d, i) = f.name  BY <2>1, Rests
    <3>2. i \in I  BY <3>1, <2>1, <2>2, <2>4
    <3>3. First(I) \in I  BY <3>2, <1>3
    <3>4. [name |-> Rest(d, First(I)), subs |-> TRUE] \in p.exceptions  BY <3>3
    <3> QED  BY <3>2, <3>4, <1>1, <1>2
  <2> QED  BY <2>2, <2>3, <2>4
<1> QED  BY <1>4, <1>5 DEF Excepted, e, Covering

LEMMA FindsRewrite ==
    ASSUME NEW p \in Payloads, NEW d \in Seq(Labels) \ {<<>>}
    PROVE  /\ FindRewrite(p, d) # None <=> Covering(p.rewrites, d) # {}
           /\ FindRewrite(p, d) # None => FindRewrite(p, d) \in Covering(p.rewrites, d)
<1> DEFINE At(n, subs) == {e \in p.rewrites : e.name = n /\ e.subs = subs}
           I == {i \in DOMAIN d : At(Rest(d, i), TRUE) # {}}
           e == FindRewrite(p, d)
<1>1. p.rewrites \subseteq Rewrites /\ None \notin p.rewrites  BY Fields, NoneAssumption
<1>2. e = IF At(d, FALSE) # {} THEN CHOOSE f \in At(d, FALSE) : TRUE
          ELSE IF I = {} THEN None ELSE CHOOSE f \in At(Rest(d, First(I)), TRUE) : TRUE
  BY DEF FindRewrite
<1>3. I # {} => First(I) \in I
  <2>1. I \subseteq Nat  BY Rests
  <2> HIDE DEF I
  <2> QED  BY <2>1, FirstIs
<1> HIDE DEF e
<1>4. CASE At(d, FALSE) # {}
  <2>1. e \in At(d, FALSE)  BY <1>2, <1>4
  <2> QED  BY <2>1, <1>1 DEF Covering, e
<1>5. CASE At(d, FALSE) = {} /\ I # {}
  <2>1. At(Rest(d, First(I)), TRUE) # {} /\ First(I) \in DOMAIN d  BY <1>3, <1>5
  <2>2. e \in At(Rest(d, First(I)), TRUE)  BY <2>1, <1>2, <1>5
  <2>3. Rest(d, First(I)) \in {d} \cup Parents(d)  BY <2>1, Rests
  <2> QED  BY <2>2, <2>3, <1>1 DEF Covering, e
<1>6. CASE At(d, FALSE) = {} /\ I = {}
  <2>1. e = None  BY <1>2, <1>6
  <2>2. ASSUME NEW f \in Covering(p.rewrites, d) PROVE FALSE
    <3>1. f \in p.rewrites /\ f.subs \in BOOLEAN /\ (d = f.name \/ (f.subs /\ f.name \in Parents(d)))
      BY <1>1 DEF Covering, Rewrites
    <3>2. CASE ~f.subs
      <4>1. f \in At(d, FALSE)  BY <3>1, <3>2
      <4> QED  BY <4>1, <1>6
    <3>3. CASE f.subs = TRUE
      <4>1. PICK i \in DOMAIN d : Rest(d, i) = f.name  BY <3>1, Rests
      <4>2. f \in At(Rest(d, i), TRUE)  BY <4>1, <3>1, <3>3
      <4> QED  BY <4>2, <1>6
    <3> QED  BY <3>1, <3>2, <3>3
  <2> QED  BY <2>1, <2>2 DEF e
<1> QED  BY <1>4, <1>5, <1>6

LEMMA FindsInFilter ==
    ASSUME NEW p, NEW d \in Seq(Labels) \ {<<>>}
    PROVE  LET n == FindInFilter(p, d) IN
           /\ n # None <=> Hit(p, d)
           /\ n # None => /\ n \in {d} \cup Parents(d)
                          /\ Test(p, <<"||", n>>) \/ (n = d /\ Test(p, <<"", d>>))
<1> DEFINE I == {i \in DOMAIN d : (i = 1 /\ Test(p, <<"", d>>)) \/ Test(p, <<"||", Rest(d, i)>>)}
           n == FindInFilter(p, d)
<1>1. n = IF I = {} THEN None ELSE Rest(d, First(I))  BY DEF FindInFilter
<1>3. I # {} => First(I) \in I
  <2>1. I \subseteq Nat  BY Rests
  <2> HIDE DEF I
  <2> QED  BY <2>1, FirstIs
<1>4. Hit(p, d) => I # {}
  <2>1. ASSUME NEW m \in {d} \cup Parents(d), Test(p, <<"||", m>>) PROVE I # {}
    <3>1. PICK i \in DOMAIN d : Rest(d, i) = m  BY Rests
    <3> QED  BY <3>1, <2>1
  <2>2. Test(p, <<"", d>>) => 1 \in I  BY Rests
  <2> QED  BY <2>1, <2>2 DEF Hit
<1>5. ASSUME I # {}
      PROVE  /\ n # None /\ n \in {d} \cup Parents(d) /\ Hit(p, d)
             /\ Test(p, <<"||", n>>) \/ (n = d /\ Test(p, <<"", d>>))
  <2>1. First(I) \in DOMAIN d /\ n = Rest(d, First(I))
        /\ ((First(I) = 1 /\ Test(p, <<"", d>>)) \/ Test(p, <<"||", Rest(d, First(I))>>))
    BY <1>1, <1>3, <1>5
  <2>2. n \in {d} \cup Parents(d) /\ n \in Seq(Labels) /\ Rest(d, 1) = d
    <3> DEFINE i == First(I)
    <3>1. i \in DOMAIN d /\ n = Rest(d, i)  BY <2>1
    <3> HIDE DEF i, n
    <3> QED  BY <3>1, Rests
  <2>3. n # None  BY <2>2, NoneAssumption
  <2> QED  BY <2>1, <2>2, <2>3 DEF Hit
<1> QED  BY <1>1, <1>4, <1>5

LEMMA FindsPattern ==
    ASSUME NEW p \in Payloads, NEW d
    PROVE  LET x == FindPattern(p, d) IN
           /\ x # None <=> PatternHit(p, d)
           /\ x # None => \E i \in DOMAIN p.patterns :
                 /\ x = p.patterns[i] /\ x.apex \in {None, Apex(d)} /\ Matches(x.name, x.subs, d)
<1> DEFINE In(apex) == {i \in DOMAIN p.patterns :
                           /\ p.patterns[i].apex = apex
                           /\ Matches(p.patterns[i].name, p.patterns[i].subs, d)}
           own == IF Apex(d) = None THEN {} ELSE In(Apex(d))
           x == FindPattern(p, d)
<1>1. x = IF own # {} THEN p.patterns[First(own)]
          ELSE IF In(None) # {} THEN p.patterns[First(In(None))] ELSE None
  BY DEF FindPattern
<1>2. DOMAIN p.patterns \subseteq Nat /\ \A i \in DOMAIN p.patterns : p.patterns[i] # None
  <2>1. p.patterns \in Seq(Patterns)  BY Fields DEF PatternLists
  <2>2. DOMAIN p.patterns = 1..Len(p.patterns) /\ \A i \in 1..Len(p.patterns) : p.patterns[i] \in Patterns
    BY <2>1, LenProperties, ElementOfSeq
  <2> QED  BY <2>2, NoneAssumption
<1>3. ASSUME NEW I, I \in {own, In(None)}, I # {}
      PROVE  First(I) \in I /\ I \subseteq In(Apex(d)) \cup In(None)
  <2>1. I \subseteq In(Apex(d)) \cup In(None)  BY <1>3
  <2>2. I \subseteq Nat  BY <2>1, <1>2
  <2> HIDE DEF own, In
  <2> QED  BY <2>1, <2>2, <1>3, FirstIs
<1>4. ASSUME NEW I, I \in {own, In(None)}, I # {}, x = p.patterns[First(I)]
      PROVE  /\ x # None /\ PatternHit(p, d)
             /\ \E i \in DOMAIN p.patterns :
                 /\ x = p.patterns[i] /\ x.apex \in {None, Apex(d)} /\ Matches(x.name, x.subs, d)
  <2>1. First(I) \in In(Apex(d)) \cup In(None)  BY <1>3, <1>4
  <2>2. PICK i : i = First(I) /\ i \in In(Apex(d)) \cup In(None)  BY <2>1
  <2> HIDE DEF x, own
  <2>3. /\ i \in DOMAIN p.patterns /\ x = p.patterns[i] /\ x.apex \in {None, Apex(d)}
        /\ Matches(x.name, x.subs, d)
    BY <2>2, <1>4
  <2> QED  BY <2>3, <1>2 DEF PatternHit
<1>5. ASSUME own = {}, In(None) = {} PROVE x = None /\ ~PatternHit(p, d)
  <2>1. In(Apex(d)) = {}  BY <1>5
  <2> QED  BY <2>1, <1>1, <1>5 DEF PatternHit
<1>6. own # {} => x = p.patterns[First(own)]  BY <1>1
<1>7. own = {} /\ In(None) # {} => x = p.patterns[First(In(None))]  BY <1>1
<1> HIDE DEF x, own, In
<1> QED  BY <1>4, <1>5, <1>6, <1>7 DEF x

(* What a check says, in terms of the tests of the decision. *)
LEMMA CheckIs ==
    ASSUME NEW p \in Payloads, NEW d \in Seq(Labels) \ {<<>>}
    PROVE  LET a == Check(p, d) IN
           /\ Whitelisted(p, d) <=> Excepted(p, d)
           /\ Blocked(p, d) <=> /\ ~Excepted(p, d)
                                /\ Hit(p, d) \/ PatternHit(p, d) \/ Covering(p.rewrites, d) # {}
           /\ a.stage \in {"none", "exception", "bloom", "pattern", "rewrite"}
           /\ a.stage = "exception" => a.entry \in Covering(p.exceptions, d)
           /\ a.stage = "rewrite" => a.entry \in Covering(p.rewrites, d)
           /\ a.stage = "pattern" => \E i \in DOMAIN p.patterns :
                 /\ a.entry = p.patterns[i] /\ a.entry.apex \in {None, Apex(d)}
                 /\ Matches(a.entry.name, a.entry.subs, d)
           /\ a.stage = "bloom" =>
                 /\ a.entry \in {d} \cup Parents(d)
                 /\ Test(p, <<"||", a.entry>>) \/ (a.entry = d /\ Test(p, <<"", d>>))
<1> DEFINE a == Check(p, d)
<1>w. Whitelisted(p, d) <=> a.stage = "exception"  BY DEF Whitelisted
<1>b. Blocked(p, d) <=> a.stage \in {"bloom", "pattern", "rewrite"}  BY DEF Blocked
<1>e. /\ FindException(p, d) # None <=> Excepted(p, d)
      /\ FindException(p, d) # None => FindException(p, d) \in Covering(p.exceptions, d)
  BY FindsException
<1>h. /\ FindInFilter(p, d) # None <=> Hit(p, d)
      /\ FindInFilter(p, d) # None =>
            /\ FindInFilter(p, d) \in {d} \cup Parents(d)
            /\ \/ Test(p, <<"||", FindInFilter(p, d)>>)
               \/ FindInFilter(p, d) = d /\ Test(p, <<"", d>>)
  BY FindsInFilter
<1>p. /\ FindPattern(p, d) # None <=> PatternHit(p, d)
      /\ FindPattern(p, d) # None => \E i \in DOMAIN p.patterns :
            /\ FindPattern(p, d) = p.patterns[i] /\ FindPattern(p, d).apex \in {None, Apex(d)}
            /\ Matches(FindPattern(p, d).name, FindPattern(p, d).subs, d)
  BY FindsPattern
<1>r. /\ FindRewrite(p, d) # None <=> Covering(p.rewrites, d) # {}
      /\ FindRewrite(p, d) # None => FindRewrite(p, d) \in Covering(p.rewrites, d)
  BY FindsRewrite
<1>1. CASE FindException(p, d) # None
  <2>1. a.stage = "exception" /\ a.entry = FindException(p, d)  BY <1>1 DEF Check, Answer
  <2> HIDE DEF a
  <2> QED  BY <2>1, <1>1, <1>w, <1>b, <1>e DEF a
<1>2. CASE FindException(p, d) = None /\ FindInFilter(p, d) # None
  <2>1. a.stage = "bloom" /\ a.entry = FindInFilter(p, d)  BY <1>2 DEF Check, Answer
  <2> HIDE DEF a
  <2> QED  BY <2>1, <1>2, <1>w, <1>b, <1>e, <1>h DEF a
<1>3. CASE FindException(p, d) = None /\ FindInFilter(p, d) = None /\ FindPattern(p, d) # None
  <2>1. a.stage = "pattern" /\ a.entry = FindPattern(p, d)  BY <1>3 DEF Check, Answer
  <2> HIDE DEF a
  <2> QED  BY <2>1, <1>3, <1>w, <1>b, <1>e, <1>p DEF a
<1>4. CASE /\ FindException(p, d) = None /\ FindInFilter(p, d) = None
           /\ FindPattern(p, d) = None /\ FindRewrite(p, d) # None
  <2>1. a.stage = "rewrite" /\ a.entry = FindRewrite(p, d)  BY <1>4 DEF Check, Answer
  <2> HIDE DEF a
  <2> QED  BY <2>1, <1>4, <1>w, <1>b, <1>e, <1>r DEF a
<1>5. CASE /\ FindException(p, d) = None /\ FindInFilter(p, d) = None
           /\ FindPattern(p, d) = None /\ FindRewrite(p, d) = None
  <2>1. a.stage = "none"  BY <1>5 DEF Check, Answer
  <2> HIDE DEF a
  <2> QED  BY <2>1, <1>5, <1>w, <1>b, <1>e, <1>h, <1>p, <1>r DEF a
<1> QED  BY <1>1, <1>2, <1>3, <1>4, <1>5

(* What a merged list has, the profile has, but for patterns over the      *)
(* limit and rewrites of a name that a later list has too.                 *)
LEMMA ProfileHas ==
    ASSUME Inv, Merged, lost = {}, NEW l \in on
    PROVE  /\ payload[l] \in Payloads /\ profile \in Payloads
           /\ payload[l].exceptions \subseteq profile.exceptions
           /\ payload[l].bloom \subseteq profile.bloom
           /\ \A i \in DOMAIN payload[l].patterns :
                 \/ \E j \in DOMAIN profile.patterns : profile.patterns[j] = payload[l].patterns[i]
                 \/ Len(profile.patterns) = MaxPatterns
           /\ \A e \in payload[l].rewrites :
                 \/ e \in profile.rewrites
                 \/ \E k \in on : k > l /\ \E f \in payload[k].rewrites : f.name = e.name
<1>1. /\ l \in Lists /\ l \in on \ (lost \cup todo) /\ profile # None
      /\ PayloadOK(payload[l]) /\ PayloadOK(profile)
  BY DEF Inv, TypeOK, Merged
<1>2. Made(payload[l], kept[l]) /\ Has(profile, kept[l])  BY <1>1 DEF Inv, Compiled, Pooled
<1>3. payload[l].exceptions \subseteq profile.exceptions
  BY <1>2 DEF Made, MadeExceptions, Has, HasExceptions
<1>4. payload[l].bloom \subseteq profile.bloom  BY <1>2 DEF Made, MadeBloom, Has, HasBloom
<1>5. Len(profile.patterns) \in Nat /\ Len(profile.patterns) <= MaxPatterns /\ MaxPatterns \in Nat
  <2>1. profile.patterns \in Seq(Patterns)  BY <1>1, Fields DEF PayloadOK, PatternLists
  <2> QED  BY <2>1, <1>1, LenProperties, BoundsAssumption DEF PayloadOK
<1>6. ASSUME NEW i \in DOMAIN payload[l].patterns, Len(profile.patterns) # MaxPatterns
      PROVE  \E j \in DOMAIN profile.patterns : profile.patterns[j] = payload[l].patterns[i]
  <2>1. Len(profile.patterns) < MaxPatterns  BY <1>5, <1>6
  <2>2. PICK x \in kept[l] : Kind(x) = "pattern" /\ payload[l].patterns[i] = Pattern(x)
    BY <1>2 DEF Made, MadePatterns
  <2>3. Listed(profile, x)  BY <2>1, <2>2, <1>2 DEF Has, HasPatterns
  <2> QED  BY <2>2, <2>3 DEF Listed
<1>7. ASSUME NEW e \in payload[l].rewrites, e \notin profile.rewrites
      PROVE  \E k \in on : k > l /\ \E f \in payload[k].rewrites : f.name = e.name
  BY <1>1, <1>7 DEF Inv, Rewritten, Replaced
<1> QED  BY <1>1, <1>3, <1>4, <1>6, <1>7 DEF PayloadOK

(* What the profile has, a merged list has. *)
LEMMA ListsHave ==
    ASSUME Inv, Merged
    PROVE  /\ \A e \in profile.exceptions : \E l \in on : e \in payload[l].exceptions
           /\ \A b \in profile.bloom : \E l \in on : b \in payload[l].bloom
           /\ \A e \in profile.rewrites : \E l \in on : e \in payload[l].rewrites
           /\ \A i \in DOMAIN profile.patterns : \E l \in on : \E j \in DOMAIN payload[l].patterns :
                 payload[l].patterns[j] = profile.patterns[i]
<1>1. Made(profile, From(on))  BY DEF Inv, Pooled, Merged
<1>2. \A x \in From(on) : \E l \in on : x \in kept[l]  BY DEF From
<1>3. \A l \in on : Has(payload[l], kept[l]) /\ AllPatterns(payload[l], kept[l])
  BY DEF Inv, Compiled, TypeOK
<1>4. ASSUME NEW e \in profile.exceptions PROVE \E l \in on : e \in payload[l].exceptions
  BY <1>1, <1>2, <1>3 DEF Made, MadeExceptions, Has, HasExceptions
<1>5. ASSUME NEW b \in profile.bloom PROVE \E l \in on : b \in payload[l].bloom
  <2>1. PICK x \in From(on) :
          Kind(x) = "domain" /\ (b = <<"", x.name>> \/ (x.subs /\ b = <<"||", x.name>>))
    BY <1>1 DEF Made, MadeBloom
  <2>2. PICK l \in on : x \in kept[l]  BY <1>2
  <2> QED  BY <2>1, <2>2, <1>3 DEF Has, HasBloom
<1>6. ASSUME NEW i \in DOMAIN profile.patterns
      PROVE  \E l \in on : \E j \in DOMAIN payload[l].patterns :
                payload[l].patterns[j] = profile.patterns[i]
  <2>1. PICK x \in From(on) : Kind(x) = "pattern" /\ profile.patterns[i] = Pattern(x)
    BY <1>1 DEF Made, MadePatterns
  <2>2. PICK l \in on : x \in kept[l]  BY <1>2
  <2> QED  BY <2>1, <2>2, <1>3 DEF AllPatterns, Listed
<1>7. \A e \in profile.rewrites : \E l \in on : e \in payload[l].rewrites
  BY DEF Inv, Rewritten, Merged
<1> QED  BY <1>4, <1>5, <1>6, <1>7

(* The decision of the lists, in terms of its tests. *)
LEMMA SettledIs ==
    ASSUME NEW d
    PROVE  /\ Settled(d) = Decided("PASS", "exception") <=> Excepted(profile, d)
           /\ Acts(d) <=> /\ ~Excepted(profile, d)
                          /\ \/ Rewrite(profile, d) # None
                             \/ Hit(profile, d) \/ PatternHit(profile, d)
<1>1. /\ Decided("PASS", "exception").action = "PASS" /\ Decided("PASS", "exception") # None
      /\ Decided("BLOCK", "bloom").action = "BLOCK" /\ Decided("BLOCK", "bloom") # None
      /\ Decided("BLOCK", "pattern").action = "BLOCK" /\ Decided("BLOCK", "pattern") # None
  BY DecidedIsSome DEF Tiers
<1>2. CASE Excepted(profile, d)
  <2>1. Settled(d) = Decided("PASS", "exception")  BY <1>2 DEF Settled, External
  <2> QED  BY <2>1, <1>1, <1>2 DEF Acts
<1>3. CASE ~Excepted(profile, d) /\ Rewrite(profile, d) # None
  <2>1. Settled(d) = RewriteTo(Rewrite(profile, d), "A")  BY <1>3 DEF Settled, External
  <2>2. Settled(d) # None /\ Settled(d).action \in {"BLOCK", "REDIRECT"}  BY <2>1, RewriteActs
  <2> QED  BY <2>2, <1>1, <1>3 DEF Acts
<1>4. CASE ~Excepted(profile, d) /\ Rewrite(profile, d) = None
  <2>1. Settled(d) = IF Hit(profile, d) THEN Decided("BLOCK", "bloom")
                     ELSE IF PatternHit(profile, d) THEN Decided("BLOCK", "pattern") ELSE None
    BY <1>4 DEF Settled, External
  <2> QED  BY <2>1, <1>1, <1>4 DEF Acts
<1> QED  BY <1>2, <1>3, <1>4

(* The nearest of the rewrites that cover a name, if one does, is one. *)
LEMMA RewriteIs ==
    ASSUME NEW p \in Payloads, NEW d \in Seq(Labels)
    PROVE  /\ Rewrite(p, d) # None <=> Covering(p.rewrites, d) # {}
           /\ Rewrite(p, d) # None => Rewrite(p, d) \in Covering(p.rewrites, d)
<1> DEFINE C == Covering(p.rewrites, d)
<1>1. CASE C = {}  BY <1>1 DEF Rewrite
<1>2. CASE C # {}
  <2>1. \E e \in C : \A f \in C : Len(e.name) >= Len(f.name)  BY <1>2, Longest
  <2>2. Rewrite(p, d) = CHOOSE e \in C : \A f \in C : Len(e.name) >= Len(f.name)
    BY <1>2 DEF Rewrite
  <2>3. C \subseteq p.rewrites /\ None \notin p.rewrites  BY Fields, NoneAssumption DEF Covering
  <2> HIDE DEF C
  <2>4. Rewrite(p, d) \in C  BY <2>1, <2>2
  <2> QED  BY <2>3, <2>4, <1>2 DEF C
<1> QED  BY <1>1, <1>2

(* What the check of a list shows is a line of it, or a chance hit. *)
LEMMA CheckShows ==
    ASSUME Inv, NEW l \in Lists, NEW d \in Names, Check(payload[l], d).stage # "none"
    PROVE  Shown(l, d, Check(payload[l], d))
<1> DEFINE p == payload[l]
           a == Check(p, d)
<1>1. /\ p \in Payloads /\ Made(p, kept[l]) /\ d \in Seq(Labels) \ {<<>>}
      /\ \A x \in kept[l] : IsLine(x)
  BY LinesOK, NamesAssumption DEF Inv, TypeOK, Compiled, PayloadOK
<1> HIDE DEF p
<1>2. /\ a.stage \in {"exception", "bloom", "pattern", "rewrite"}
      /\ a.stage = "exception" => a.entry \in Covering(p.exceptions, d)
      /\ a.stage = "rewrite" => a.entry \in Covering(p.rewrites, d)
      /\ a.stage = "pattern" => \E i \in DOMAIN p.patterns :
            a.entry = p.patterns[i] /\ Matches(a.entry.name, a.entry.subs, d)
      /\ a.stage = "bloom" =>
            /\ a.entry \in {d} \cup Parents(d)
            /\ Test(p, <<"||", a.entry>>) \/ (a.entry = d /\ Test(p, <<"", d>>))
  BY <1>1, CheckIs DEF p
<1>a. a = Check(payload[l], d)  BY DEF p
<1> HIDE DEF a
<1>3. CASE a.stage = "exception"
  <2>1. /\ a.entry \in p.exceptions
        /\ d = a.entry.name \/ (a.entry.subs /\ a.entry.name \in Parents(d))
    BY <1>2, <1>3 DEF Covering
  <2>2. PICK x \in kept[l] : Kind(x) = "exception" /\ a.entry = Entry(x)
    BY <2>1, <1>1 DEF Made, MadeExceptions
  <2>3. Says(x, d) /\ a.entry.name = x.name  BY <2>1, <2>2 DEF Says, Entry
  <2> QED  BY <2>2, <2>3, <1>3, <1>a DEF Shown
<1>4. CASE a.stage = "rewrite"
  <2>1. /\ a.entry \in p.rewrites
        /\ d = a.entry.name \/ (a.entry.subs /\ a.entry.name \in Parents(d))
    BY <1>2, <1>4 DEF Covering
  <2>2. PICK x \in kept[l] : Kind(x) = "rewrite" /\ a.entry = RewriteEntry(x)
    BY <2>1, <1>1 DEF Made, MadeRewrites
  <2>3. Says(x, d) /\ a.entry.name = x.name  BY <2>1, <2>2 DEF Says, RewriteEntry
  <2> QED  BY <2>2, <2>3, <1>4, <1>a DEF Shown
<1>5. CASE a.stage = "pattern"
  <2>1. PICK i \in DOMAIN p.patterns :
          a.entry = p.patterns[i] /\ Matches(a.entry.name, a.entry.subs, d)
    BY <1>2, <1>5
  <2>2. PICK x \in kept[l] : Kind(x) = "pattern" /\ p.patterns[i] = Pattern(x)
    BY <1>1 DEF Made, MadePatterns
  <2>3. a.entry.name = x.name /\ a.entry.subs = x.subs  BY <2>1, <2>2 DEF Pattern
  <2>4. x.form # "hosts"  BY <2>2, <1>1, Kinds
  <2>5. Says(x, d)  BY <2>1, <2>3, <2>4 DEF Says
  <2> QED  BY <2>2, <2>3, <2>5, <1>5, <1>a DEF Shown
<1>6. CASE a.stage = "bloom"
  <2>1. PICK t \in {"", "||"} : Test(p, <<t, a.entry>>) /\ (t = "" => a.entry = d)
    BY <1>2, <1>6
  <2>2. CASE Chance(p, <<t, a.entry>>)  BY <2>2, <1>6, <1>a DEF Shown, p
  <2>3. CASE <<t, a.entry>> \in p.bloom
    <3>1. PICK x \in kept[l] : /\ Kind(x) = "domain"
                               /\ \/ <<t, a.entry>> = <<"", x.name>>
                                  \/ x.subs /\ <<t, a.entry>> = <<"||", x.name>>
      BY <2>3, <1>1 DEF Made, MadeBloom
    <3>2. a.entry = x.name /\ (t = "" \/ x.subs)  BY <3>1
    <3>3. Says(x, d)  BY <3>2, <2>1, <1>2, <1>6 DEF Says
    <3> QED  BY <3>1, <3>2, <3>3, <1>6, <1>a DEF Shown
  <2> QED  BY <2>1, <2>2, <2>3 DEF Test
<1> QED  BY <1>2, <1>3, <1>4, <1>5, <1>6

(* The checks of the merged lists and the decision agree on every name,    *)
(* but for what the merge leaves out and chance hits of the merged filter. *)
THEOREM ChecksAgree == Spec => []CheckAgrees
<1>1. Inv => CheckAgrees
  <2> SUFFICES ASSUME Inv, Merged, lost = {}, NEW d \in Names
               PROVE  /\ Settled(d) = Decided("PASS", "exception")
                           <=> \E l \in on : Whitelisted(payload[l], d)
                      /\ Acts(d) => (\E l \in on : Blocked(payload[l], d)) \/ MixedHit(d)
                      /\ \A l \in on : LET a == Check(payload[l], d) IN
                            /\ Blocked(payload[l], d) /\ ~LeftOut(l, a)
                               /\ (\A k \in on : ~Whitelisted(payload[k], d))
                               => Acts(d)
                            /\ a.stage # "none" => Shown(l, d, a)
    BY DEF CheckAgrees
  <2>0. d \in Seq(Labels) \ {<<>>} /\ on \subseteq Lists  BY NamesAssumption DEF Inv, TypeOK
  <2>p. profile \in Payloads  BY DEF Inv, TypeOK, PayloadOK, Merged
  <2>c. \A l \in on : /\ payload[l] \in Payloads
                      /\ Whitelisted(payload[l], d) <=> Excepted(payload[l], d)
                      /\ Blocked(payload[l], d) <=>
                            /\ ~Excepted(payload[l], d)
                            /\ \/ Hit(payload[l], d) \/ PatternHit(payload[l], d)
                               \/ Covering(payload[l].rewrites, d) # {}
    BY <2>0, ProfileHas, CheckIs
  <2>1. Excepted(profile, d) <=> \E l \in on : Excepted(payload[l], d)
    BY ProfileHas, ListsHave DEF Excepted, Covering
  <2>2. Settled(d) = Decided("PASS", "exception") <=> \E l \in on : Whitelisted(payload[l], d)
    BY <2>1, <2>c, SettledIs
  <2>3. ASSUME Acts(d), ~MixedHit(d)
        PROVE  \E l \in on : Blocked(payload[l], d)
    <3>1. \A l \in on : ~Excepted(payload[l], d)  BY <2>1, <2>3, SettledIs
    <3>2. CASE Rewrite(profile, d) # None
      <4>1. PICK e \in profile.rewrites : d = e.name \/ (e.subs /\ e.name \in Parents(d))
        BY <3>2, <2>0, <2>p, RewriteIs DEF Covering
      <4>2. PICK l \in on : e \in payload[l].rewrites  BY ListsHave
      <4> QED  BY <4>1, <4>2, <3>1, <2>c DEF Covering
    <3>3. CASE Hit(profile, d)
      <4>1. PICK t \in {"", "||"}, n \in {d} \cup Parents(d) :
              Test(profile, <<t, n>>) /\ (t = "" => n = d)
        BY <3>3 DEF Hit
      <4>2. PICK l \in on : Test(payload[l], <<t, n>>)
        BY <4>1, <2>3, ListsHave DEF Test, MixedHit
      <4>3. Hit(payload[l], d)  BY <4>1, <4>2 DEF Hit
      <4> QED  BY <4>3, <3>1, <2>c
    <3>4. CASE PatternHit(profile, d)
      <4>1. PICK i \in DOMAIN profile.patterns :
              LET x == profile.patterns[i]
              IN x.apex \in {None, Apex(d)} /\ Matches(x.name, x.subs, d)
        BY <3>4 DEF PatternHit
      <4>2. PICK l \in on : \E j \in DOMAIN payload[l].patterns :
                payload[l].patterns[j] = profile.patterns[i]
        BY ListsHave
      <4>3. PatternHit(payload[l], d)  BY <4>1, <4>2 DEF PatternHit
      <4> QED  BY <4>3, <3>1, <2>c
    <3> QED  BY <3>2, <3>3, <3>4, <2>3, SettledIs
  <2>4. ASSUME NEW l \in on, Blocked(payload[l], d), ~LeftOut(l, Check(payload[l], d)),
               \A k \in on : ~Whitelisted(payload[k], d)
        PROVE  Acts(d)
    <3>1. ~Excepted(profile, d)  BY <2>1, <2>4, <2>c
    <3>2. /\ Check(payload[l], d).stage \in {"bloom", "pattern", "rewrite"}
          /\ payload[l] \in Payloads
      BY <2>4, <2>c DEF Blocked
    <3> DEFINE a == Check(payload[l], d)
    <3>3. CASE a.stage = "bloom"
      <4>1. PICK t \in {"", "||"} : /\ a.entry \in {d} \cup Parents(d)
                                    /\ Test(payload[l], <<t, a.entry>>) /\ (t = "" => a.entry = d)
        BY <3>2, <3>3, <2>0, CheckIs
      <4>2. payload[l].bloom \subseteq profile.bloom  BY ProfileHas
      <4> HIDE DEF a
      <4>3. Test(profile, <<t, a.entry>>)  BY <4>1, <4>2 DEF Test, Chance
      <4>4. Hit(profile, d)  BY <4>1, <4>3 DEF Hit
      <4> QED  BY <4>4, <3>1, SettledIs
    <3>4. CASE a.stage = "pattern"
      <4>1. PICK i \in DOMAIN payload[l].patterns :
              /\ a.entry = payload[l].patterns[i] /\ a.entry.apex \in {None, Apex(d)}
              /\ Matches(a.entry.name, a.entry.subs, d)
        BY <3>2, <3>4, <2>0, CheckIs
      <4>2. PICK j \in DOMAIN profile.patterns : profile.patterns[j] = a.entry
        BY <4>1, <3>4, <2>4, ProfileHas DEF LeftOut
      <4> HIDE DEF a
      <4>3. PatternHit(profile, d)  BY <4>1, <4>2 DEF PatternHit
      <4> QED  BY <4>3, <3>1, SettledIs
    <3>5. CASE a.stage = "rewrite"
      <4>1. a.entry \in Covering(payload[l].rewrites, d)  BY <3>2, <3>5, <2>0, CheckIs
      <4>2. a.entry \in profile.rewrites
        BY <4>1, <3>5, <2>4, ProfileHas DEF LeftOut, Covering
      <4> HIDE DEF a
      <4>3. a.entry \in Covering(profile.rewrites, d)  BY <4>1, <4>2 DEF Covering
      <4>4. Rewrite(profile, d) # None  BY <4>3, <2>0, <2>p, RewriteIs
      <4> QED  BY <4>4, <3>1, SettledIs
    <3> QED  BY <3>2, <3>3, <3>4, <3>5
  <2>5. ASSUME NEW l \in on, Check(payload[l], d).stage # "none"
        PROVE  Shown(l, d, Check(payload[l], d))
    BY <2>0, <2>5, CheckShows
  <2> QED  BY <2>2, <2>3, <2>4, <2>5
<1> QED  BY <1>1, Invariant, PTL

(* The user's rules go first: an ALLOW rule lets pass, a BLOCK rule does   *)
(* not; where they are silent an exception of a merged list lets pass,     *)
(* whichever of the lists blocks the name.                                 *)
THEOREM PrecedenceHolds == Spec => []Precedence
<1>1. Inv => Precedence
  <2> SUFFICES ASSUME Inv, Merged, NEW d \in Names, NEW t \in Types
               PROVE  /\ "ALLOW" \in RulesFor(d) => Decide(d, t).action = "PASS"
                      /\ "BLOCK" \in RulesFor(d) /\ "ALLOW" \notin RulesFor(d)
                           => Decide(d, t).action # "PASS" /\ Decide(d, t).tier = "local"
                      /\ RulesFor(d) = {}
                         /\ (\E x \in From(on \ lost) : Excepts(x) /\ Says(x, d))
                           => Decide(d, t) = Decided("PASS", "exception")
    BY DEF Precedence
  <2>1. \A r : IsMatch(r, d) <=> RuleSays(r, d)  BY DEF IsMatch, RuleSays
  <2>2. \A type : Matching(type, d) # {} <=> type \in RulesFor(d)
    BY <2>1 DEF Matching, RulesFor
  <2>3. /\ Decided("PASS", "local").action = "PASS" /\ Decided("PASS", "local") # None
        /\ Decided("BLOCK", "local").action = "BLOCK" /\ Decided("BLOCK", "local") # None
        /\ Decided("REDIRECT", "local").action = "REDIRECT" /\ Decided("REDIRECT", "local") # None
        /\ Decided("BLOCK", "local").tier = "local" /\ Decided("REDIRECT", "local").tier = "local"
    BY DecidedIsSome DEF Tiers
  <2>4. CASE "ALLOW" \in RulesFor(d)
    <3>1. Local(d, t) = Decided("PASS", "local")  BY <2>2, <2>4 DEF Local
    <3> QED  BY <3>1, <2>3, <2>4 DEF Decide
  <2>5. CASE "BLOCK" \in RulesFor(d) /\ "ALLOW" \notin RulesFor(d)
    <3>1. Local(d, t) \in {Decided("BLOCK", "local"), Decided("REDIRECT", "local")}
      BY <2>2, <2>5 DEF Local
    <3> QED  BY <3>1, <2>3, <2>5 DEF Decide
  <2>6. ASSUME RulesFor(d) = {}, NEW x \in From(on \ lost), Excepts(x), Says(x, d)
        PROVE  Decide(d, t) = Decided("PASS", "exception")
    <3>1. FindMatch("REDIRECT", d) = None  BY <2>2, <2>6 DEF FindMatch
    <3>2. Local(d, t) = None  BY <3>1, <2>2, <2>6 DEF Local
    <3>3. IsLine(x) /\ Kind(x) = "exception" /\ Entry(x) \in profile.exceptions
      BY <2>6, MergedLine, Kinds DEF Excepts
    <3>4. d = x.name \/ (x.subs /\ x.name \in Parents(d))
      BY <2>6, <3>3, PlainSays, NamesAssumption DEF Excepts
    <3>5. Entry(x) \in Covering(profile.exceptions, d)  BY <3>3, <3>4 DEF Covering, Entry
    <3>6. Excepted(profile, d)  BY <3>5 DEF Excepted
    <3> QED  BY <3>2, <3>6 DEF Decide, External
  <2> QED  BY <2>4, <2>5, <2>6
<1> QED  BY <1>1, Invariant, PTL
=============================================================================
