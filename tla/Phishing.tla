------------------------------- MODULE Phishing -------------------------------
(***************************************************************************)
(* The analysis of URLs (detection/phishing.py): the points for what a URL *)
(* shows, the edit distance that finds look-alikes of protected brands,    *)
(* and the verdict.  Verdicts are compared while the URL gains one sign    *)
(* after another and the operator protects one more brand.                 *)
(***************************************************************************)
EXTENDS Integers, Sequences, SequencesExt, FiniteSets

CONSTANTS
  Letters, Digits, (* what labels are made of                              *)
  Labels,          (* registrable labels                                   *)
  Brands,          (* words that may be protected                          *)
  KeywordCounts    (* how many alarm words a URL has                       *)

PhishingAssumption ==
  /\ Labels \cup Brands \subseteq Seq(Letters \cup Digits) \ {<<>>}
  /\ Letters \cap Digits = {} /\ 0 \in KeywordCounts /\ KeywordCounts \subseteq Nat

Bonus(condition, points) == IF condition THEN points ELSE 0
Capped(n, cap) == IF n > cap THEN cap ELSE n

(* MUTANT: the first column of the table is zero. *)
levenshtein_free_start(a, b) ==
  LET d[c \in (0 .. Len(a)) \X (0 .. Len(b))] ==
        LET i == c[1] j == c[2] IN
        IF i = 0 \/ j = 0 THEN j
        ELSE Min({d[<<i - 1, j>>] + 1, d[<<i, j - 1>>] + 1,
                  d[<<i - 1, j - 1>>] + Bonus(a[i] # b[j], 1)})
  IN  d[<<Len(a), Len(b)>>]
(* The code keeps two rows of the table. *)
levenshtein(a, b) ==
  LET d[c \in (0 .. Len(a)) \X (0 .. Len(b))] ==
        LET i == c[1] j == c[2] IN
        IF i = 0 \/ j = 0 THEN i + j
        ELSE Min({d[<<i - 1, j>>] + 1, d[<<i, j - 1>>] + 1,
                  d[<<i - 1, j - 1>>] + Bonus(a[i] # b[j], 1)})
  IN  d[<<Len(a), Len(b)>>]
Distance == [a \in Labels |-> [b \in Brands |-> levenshtein(a, b)]]

(* The brand stands in the word with no letter beside it. *)
brand_at_boundary(w, b) ==
  \E i \in 1 .. Len(w) - Len(b) + 1 : LET after == i + Len(b) IN
    /\ SubSeq(w, i, after - 1) = b
    /\ i > 1 => w[i - 1] \notin Letters
    /\ after <= Len(w) => w[after] \notin Letters
Named == [w \in Labels \cup Brands, b \in Brands |-> brand_at_boundary(w, b)]

Typosquat(u, brands) ==
  /\ u.label \notin brands /\ Len(u.label) >= 4
  /\ \E b \in brands : Distance[u.label][b] \in 1 .. 2
Impersonation(u, brands) ==
  /\ u.label \notin brands
  /\ \E b \in brands, w \in {u.label} \cup u.below : Named[w, b]
LookAlike(u) == 40 + Bonus(ToSet(u.label) \cap Digits # {}, 10)

(* MUTANT: a brand that is named hides that the label looks like one. *)
BrandPointsNamedFirst(u, brands) ==
  IF Impersonation(u, brands) THEN 30 ELSE Bonus(Typosquat(u, brands), LookAlike(u))
BrandPoints(u, brands) ==
  IF Typosquat(u, brands) THEN LookAlike(u) ELSE Bonus(Impersonation(u, brands), 30)

(* MUTANT: alarm words count without bound. *)
KeywordPointsUnbounded(u) == u.keywords * 5
KeywordPoints(u) == Capped(u.keywords * 5, 20)

(* The points of each kind of sign; structure counts for names only. *)
Points(u, brands) ==
  [address |-> Bonus(u.ip, 35),
   userinfo |-> Bonus(u.userinfo, 30),
   script |-> Bonus(u.script = "punycode", 30) + Bonus(u.script = "other", 25),
   brand |-> BrandPoints(u, brands),
   domain |-> Bonus(u.domain = "abused", 15) + Bonus(u.domain = "shortener", 12),
   structure |-> Bonus(~u.ip, Bonus(u.depth >= 3, 12) + Bonus(u.depth = 2, 6)
                              + Bonus(u.hyphens, 8) + Bonus(u.digits, 8)),
   length |-> Bonus(u.long, 6),
   keywords |-> KeywordPoints(u)]
Total(p) ==
  p.address + p.userinfo + p.script + p.brand + p.domain + p.structure + p.length + p.keywords

Verdict(score) ==
  [score |-> score,
   risk |-> IF score >= 60 THEN "high" ELSE IF score >= 30 THEN "suspicious" ELSE "low"]
analyze_url(u, brands) == Verdict(Capped(Total(Points(u, brands)), 100))

VARIABLES
  url,       (* what the analysis sees of the URL                          *)
  protected, (* _DEFAULT_BRANDS and PHISHING_PROTECTED_BRANDS              *)
  verdict

vars == <<url, protected, verdict>>

URLs ==
  [ip : BOOLEAN, label : Labels, below : SUBSET Brands, depth : 0 .. 3,
   userinfo : BOOLEAN, script : {"ascii", "other", "punycode"},
   domain : {"plain", "abused", "shortener"},
   hyphens : BOOLEAN, digits : BOOLEAN, long : BOOLEAN, keywords : KeywordCounts]

DigitsIn(label) == Len(SelectSeq(label, LAMBDA c : c \in Digits))
Plain(label) ==
  [ip |-> FALSE, label |-> label, below |-> {}, depth |-> 0, userinfo |-> FALSE,
   script |-> "ascii", domain |-> "plain", hyphens |-> FALSE,
   digits |-> DigitsIn(label) >= 4, long |-> FALSE, keywords |-> 0]
(* The numbers of an address are labels too, the third one the main label. *)
Address(label) == [Plain(label) EXCEPT !.ip = TRUE, !.depth = 2, !.digits = TRUE]

Init ==
  /\ \E label \in Labels :
       \/ url = Plain(label)
       \/ DigitsIn(label) = Len(label) /\ Len(label) <= 3 /\ url = Address(label)
  /\ protected = {}
  /\ verdict = analyze_url(url, protected)

(* The URLs that show one sign more, of a kind that any host or only a     *)
(* name can have.                                                          *)
MoreOfAny(u) ==
  {[u EXCEPT !.userinfo = TRUE]} \cup {[u EXCEPT !.keywords = n] : n \in KeywordCounts}
    \cup (IF u.script = "ascii" THEN {[u EXCEPT !.script = "other"]} ELSE {})
MoreOfAName(u) ==
  {[u EXCEPT !.hyphens = TRUE], [u EXCEPT !.digits = TRUE], [u EXCEPT !.long = TRUE],
   [u EXCEPT !.script = "punycode"], [u EXCEPT !.depth = Capped(@ + 1, 3)]}
    \cup {[u EXCEPT !.below = @ \cup {b}] : b \in {b \in Brands : Cardinality(u.below) < u.depth}}
    \cup (IF u.domain = "plain" THEN {[u EXCEPT !.domain = d] : d \in {"abused", "shortener"}}
                                ELSE {})
More(u) ==
  {v \in MoreOfAny(u) \cup (IF u.ip THEN {} ELSE MoreOfAName(u)) : v.keywords >= u.keywords}

Gain ==
  /\ url' \in More(url) /\ protected' = protected
  /\ verdict' = analyze_url(url', protected)

(* An operator protects one more brand, and the URL is analysed again.     *)
Protect(b) ==
  /\ b \notin protected
  /\ protected' = protected \cup {b} /\ url' = url
  /\ verdict' = analyze_url(url, protected')

Next == Gain \/ \E b \in Brands : Protect(b)

Spec == Init /\ [][Next]_vars

-----------------------------------------------------------------------------
TypeOK ==
  /\ url \in URLs /\ protected \subseteq Brands
  /\ verdict.score \in 0 .. 100 /\ verdict.risk \in {"low", "suspicious", "high"}

(* "'high' requires corroborating evidence" (phishing.py:13-15): signs of  *)
(* two kinds at least, however strong one of them is.                      *)
HighIsCorroborated ==
  LET p == Points(url, protected) IN
  verdict.risk = "high" => \E i, j \in DOMAIN p : i # j /\ p[i] > 0 /\ p[j] > 0

(* The words one edit from w, and those within n edits of it. *)
OneEdit(w) ==
  {RemoveAt(w, i) : i \in DOMAIN w}
    \cup {[w EXCEPT ![i] = c] : i \in DOMAIN w, c \in Letters \cup Digits}
    \cup {InsertAt(w, i, c) : i \in 1 .. Len(w) + 1, c \in Letters \cup Digits}
TwoEdits ==
  [b \in Brands |-> (UNION {OneEdit(w) : w \in OneEdit(b)}) \cup OneEdit(b)]

(* A label is taken for a look-alike exactly if one or two edits make a    *)
(* protected brand of it and it is none itself: what the table of          *)
(* _levenshtein computes is the distance in edits.                         *)
LookAlikesAreFound ==
  LET u == url IN
  (BrandPoints(u, protected) >= 40) <=>
    /\ Len(u.label) >= 4 /\ u.label \notin protected
    /\ \E b \in protected : u.label \in TwoEdits[b]

(* A URL that shows one sign more, or one more protected brand, is judged  *)
(* no milder, but for the brand's own domain: the branches of analyze_url  *)
(* that exclude each other go from the stronger sign to the weaker.        *)
MoreIsNoMilder ==
  [][url.label \notin protected' \ protected => verdict.score <= verdict'.score]_vars
=============================================================================
