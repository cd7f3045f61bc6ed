-------------------------- MODULE CorrelationProofs --------------------------
(***************************************************************************)
(* Proofs about Correlation, for any rows, windows, cadence and number of  *)
(* sweeps: an incident is reported once, no attack leaves the lookback     *)
(* unreported, the sliding windows find what their definitions say, and    *)
(* the demonstration beside them finds the damage it does.                 *)
(***************************************************************************)
EXTENDS MCDemo, FiniteSetTheorems, WellFoundedInduction, TLAPS

USE WindowAssumption DEF Times, Ids

-----------------------------------------------------------------------------
(* The first of some rows.                                                 *)

LEMMA LeastNatural ==
  ASSUME NEW S \in SUBSET Nat, S # {}
  PROVE  \E x \in S : \A y \in S : x <= y
<1> DEFINE Less == {ss \in Nat \X Nat : ss[1] < ss[2]}
<1>1. Less = OpToRel(<, Nat)
  BY Zenon DEF OpToRel
<1>2. PICK x \in S : \A y \in S : ~(<<y, x>> \in OpToRel(<, Nat))
  BY WFMin, NatLessThanWellFounded
<1>3. \A y \in S : ~(<<y, x>> \in Less)
  BY <1>1, <1>2, Zenon
<1>4. ASSUME NEW y \in S PROVE x <= y
  <2>1. x \in Nat /\ y \in Nat /\ <<y, x>> \in Nat \X Nat
    OBVIOUS
  <2>2. ~(y < x)
    BY <1>3, <2>1
  <2> QED BY <2>1, <2>2
<1> QED BY <1>4

(* Of any things with a timestamp and an id, one is preceded by none. *)
Stamped(S) == \A e \in S : e.ts \in Nat /\ e.id \in Nat

LEMMA SomeFirst ==
  ASSUME NEW S, S # {}, Stamped(S)
  PROVE  \E e \in S : \A f \in S : ~Precedes(f, e)
<1> DEFINE T == {e.ts : e \in S}
<1>1. T \in SUBSET Nat /\ T # {}
  BY DEF Stamped
<1>2. PICK t \in T : \A y \in T : t <= y
  BY <1>1, LeastNatural
<1> DEFINE U == {e \in S : e.ts = t}
           I == {e.id : e \in U}
<1>3. I \in SUBSET Nat /\ I # {}
  BY <1>2 DEF Stamped
<1>4. PICK i \in I : \A y \in I : i <= y
  BY <1>3, LeastNatural
<1>5. PICK e \in U : i = e.id
  BY <1>4
<1>6. ASSUME NEW f \in S PROVE ~Precedes(f, e)
  <2>1. e.ts = t /\ e \in S /\ t \in Nat /\ f.ts \in Nat /\ f.id \in Nat /\ e.id \in Nat
    BY <1>1, <1>5 DEF Stamped
  <2>2. t <= f.ts
    BY <1>2
  <2>3. f.ts = t => e.id <= f.id
    BY <1>4, <1>5
  <2> QED BY <2>1, <2>2, <2>3 DEF Precedes
<1> QED BY <1>5, <1>6

LEMMA EarliestIsFirst ==
  ASSUME NEW S, S # {}, Stamped(S)
  PROVE  Earliest(S) \in S /\ \A f \in S : ~Precedes(f, Earliest(S))
BY SomeFirst DEF Earliest

-----------------------------------------------------------------------------
(* What a rule finds in some rows.                                         *)

LEMMA RowFields ==
  ASSUME NEW E \in SUBSET Rows
  PROVE  /\ Stamped(E)
         /\ \A e \in E : e.id \in Ids /\ e.ts \in Times
         /\ EntitiesOf(E) \subseteq Named
<1>1. ASSUME NEW e \in E PROVE e.id \in Ids /\ e.ts \in Times /\ e.entity \in {x.entity : x \in Shapes}
  BY DEF Rows
<1> QED BY <1>1 DEF Stamped, EntitiesOf, Named

(* An incident is anchored at its first event, which is one of the rows.   *)
Anchored(c, rule, E) ==
  /\ c.key \in Keys /\ c.key[1] = rule
  /\ c.events \in (SUBSET Ids) \ {{}} /\ c.found \in E
  /\ \E e \in E : e.id = c.key[3] /\ e.id \in c.events
  /\ c = [key |-> c.key, events |-> c.events, found |-> c.found]

LEMMA CandidateAnchored ==
  ASSUME NEW E \in SUBSET Rows, NEW rule \in Rules, NEW S \in SUBSET E, NEW first \in S,
         NEW hit \in E, NEW extra \in SUBSET Named
  PROVE  /\ Anchored(Candidate(rule, first, hit, S, extra), rule, E)
         /\ Candidate(rule, first, hit, S, extra).key[3] = first.id
<1> DEFINE c == Candidate(rule, first, hit, S, extra)
           ids == {e.id : e \in S}
           names == EntitiesOf(S) \cup extra
<1>1. /\ c.key = <<rule, names, first.id>> /\ c.events = ids /\ c.found = hit
      /\ c = [key |-> c.key, events |-> c.events, found |-> c.found]
  BY DEF Candidate, dedupe_key
<1>2. names \subseteq Named
  BY RowFields
<1>3. ids \subseteq Ids /\ first.id \in ids
  BY RowFields
<1> HIDE DEF c, ids, names
<1>4. c.key \in Keys /\ c.key[1] = rule /\ c.key[3] = first.id
  BY <1>1, <1>2, <1>3 DEF Keys
<1>5. first \in E /\ first.id = c.key[3] /\ first.id \in c.events
  BY <1>1, <1>3, <1>4
<1>6. c.events \in (SUBSET Ids) \ {{}}
  BY <1>1, <1>3
<1>7. Anchored(c, rule, E)
  BY <1>1, <1>4, <1>5, <1>6 DEF Anchored
<1> QED BY <1>4, <1>7 DEF c

LEMMA BruteForceAnchored ==
  ASSUME NEW E \in SUBSET Rows, NEW c \in rule_brute_force(E)
  PROVE  Anchored(c, "brute_force_burst", E)
<1> DEFINE F(u) == FailuresOf(E, u)
           first(u) == Earliest(Bursts(F(u)))
           S(u) == Cluster(F(u), first(u), BruteForceWindow)
<1>1. PICK u : /\ Bursts(F(u)) # {}
               /\ c = Candidate("brute_force_burst", first(u), first(u), S(u), {})
  BY DEF rule_brute_force
<1>2. F(u) \in SUBSET E /\ Bursts(F(u)) \in SUBSET F(u)
  BY DEF FailuresOf, Failures, Bursts
<1>3. first(u) \in F(u)
  BY <1>1, <1>2, RowFields, EarliestIsFirst DEF Stamped
<1>4. first(u) \in S(u) /\ S(u) \in SUBSET E
  <2>1. first(u).ts \in Nat /\ first(u).id \in Nat
    BY <1>2, <1>3, RowFields
  <2> HIDE DEF F, first
  <2> QED BY <1>2, <1>3, <2>1 DEF Cluster, Precedes
<1> HIDE DEF S, first, F
<1> QED BY <1>1, <1>2, <1>3, <1>4, CandidateAnchored DEF Rules

LEMMA SprayAnchored ==
  ASSUME NEW E \in SUBSET Rows, NEW c \in rule_password_spray(E)
  PROVE  Anchored(c, "password_spray", E)
<1> DEFINE F == Failures(E)
           first == Earliest(Sprays(F))
           S == Cluster(F, first, SprayWindow)
<1>1. Sprays(F) # {} /\ c = Candidate("password_spray", first, first, S, {})
  BY DEF rule_password_spray
<1>2. F \in SUBSET E /\ Sprays(F) \in SUBSET F
  BY DEF Failures, Sprays
<1>3. first \in F
  BY <1>1, <1>2, RowFields, EarliestIsFirst DEF Stamped
<1>4. first \in S /\ S \in SUBSET E
  <2>1. first.ts \in Nat /\ first.id \in Nat
    BY <1>2, <1>3, RowFields
  <2> HIDE DEF F, first
  <2> QED BY <1>2, <1>3, <2>1 DEF Cluster, Precedes
<1> HIDE DEF S, first, F
<1> QED BY <1>1, <1>2, <1>3, <1>4, CandidateAnchored DEF Rules

LEMMA SuccessAnchored ==
  ASSUME NEW E \in SUBSET Rows, NEW c \in rule_auth_success_after_failures(E)
  PROVE  Anchored(c, "auth_success_after_failures", E)
<1> DEFINE P(s) == {f \in FailuresOf(E, s.entity) : Within(f, s, SuccessWindow)}
<1>1. PICK s \in E :
        /\ Cardinality(P(s)) >= SuccessThreshold
        /\ c = Candidate("auth_success_after_failures", Earliest(P(s)), s, P(s) \cup {s}, {})
  BY DEF rule_auth_success_after_failures
<1>2. P(s) \in SUBSET E
  BY DEF FailuresOf, Failures
<1>3. P(s) # {}
  <2>1. P(s) = {} => Cardinality(P(s)) = 0
    BY FS_EmptySet
  <2> HIDE DEF P
  <2> QED BY <1>1, <2>1
<1>4. Earliest(P(s)) \in P(s)
  BY <1>2, <1>3, RowFields, EarliestIsFirst DEF Stamped
<1> DEFINE S == P(s) \cup {s}
           first == Earliest(P(s))
<1>5. first \in S /\ S \in SUBSET E
  BY <1>2, <1>4
<1>6. c = Candidate("auth_success_after_failures", first, s, S, {})
  BY <1>1
<1> HIDE DEF S, first, P
<1> QED BY <1>5, <1>6, CandidateAnchored DEF Rules

LEMMA ReplayAnchored ==
  ASSUME NEW E \in SUBSET Rows
  PROVE  /\ \A c \in rule_replay_attack(E) : Anchored(c, "replay_attack", E)
         /\ \A e \in E : e.name = "REPLAY_ATTACK" =>
              \E c \in rule_replay_attack(E) : c.key[1] = "replay_attack" /\ c.key[3] = e.id
<1>1. ASSUME NEW e \in E
      PROVE  LET c == Candidate("replay_attack", e, e, {e}, {})
             IN  Anchored(c, "replay_attack", E) /\ c.key[1] = "replay_attack" /\ c.key[3] = e.id
  <2> DEFINE S == {e}
             c == Candidate("replay_attack", e, e, S, {})
  <2>1. S \in SUBSET E /\ e \in S
    OBVIOUS
  <2> HIDE DEF S
  <2>2. Anchored(c, "replay_attack", E) /\ c.key[3] = e.id
    <3> DEFINE rule == "replay_attack"
               extra == {}
    <3>1. rule \in Rules /\ extra \in SUBSET Named
      BY DEF Rules
    <3> HIDE DEF rule, extra
    <3>2. /\ Anchored(Candidate(rule, e, e, S, extra), rule, E)
          /\ Candidate(rule, e, e, S, extra).key[3] = e.id
      BY <2>1, <3>1, CandidateAnchored
    <3> QED BY <3>2 DEF rule, extra
  <2> HIDE DEF c
  <2>3. Anchored(c, "replay_attack", E) /\ c.key[1] = "replay_attack" /\ c.key[3] = e.id
    BY <2>2 DEF Anchored
  <2> QED BY <2>3 DEF c, S
<1> QED BY <1>1 DEF rule_replay_attack

(* A chain at each head of a link.                                         *)
LEMMA ChainsAnchored ==
  ASSUME NEW E \in SUBSET Rows, NEW rule \in Rules, NEW links \in SUBSET (E \X E)
  PROVE  /\ \A c \in Chains(rule, links) : Anchored(c, rule, E)
         /\ \A l \in links : \E c \in Chains(rule, links) : c.key[1] = rule /\ c.key[3] = l[1].id
<1> DEFINE S(h) == {h} \cup {l[2] : l \in {x \in links : x[1] = h}}
           C(h) == Candidate(rule, h, h, S(h), {})
<1>1. ASSUME NEW l \in links
      PROVE  LET h == l[1]
             IN Anchored(C(h), rule, E) /\ C(h).key[1] = rule /\ C(h).key[3] = h.id
  <2> DEFINE h == l[1]
  <2>1. h \in E /\ S(h) \in SUBSET E /\ h \in S(h)
    OBVIOUS
  <2> HIDE DEF S
  <2>2. Anchored(C(h), rule, E) /\ C(h).key[3] = h.id
    <3> DEFINE T == S(h)
               extra == {}
    <3>1. T \in SUBSET E /\ h \in T /\ extra \in SUBSET Named
      BY <2>1
    <3> HIDE DEF T, extra, h
    <3>2. /\ Anchored(Candidate(rule, h, h, T, extra), rule, E)
          /\ Candidate(rule, h, h, T, extra).key[3] = h.id
      BY <2>1, <3>1, CandidateAnchored
    <3> QED BY <3>2 DEF T, extra
  <2> HIDE DEF C
  <2> QED BY <2>2 DEF Anchored
<1>2. Chains(rule, links) = {C(h) : h \in {l[1] : l \in links}}
  BY DEF Chains
<1> HIDE DEF C, S
<1> QED BY <1>1, <1>2

LEMMA ChainRulesAnchored ==
  ASSUME NEW E \in SUBSET Rows
  PROVE  /\ \A c \in rule_recon_then_auth(E) : Anchored(c, "recon_then_auth", E)
         /\ \A c \in rule_network_then_fim(E) : Anchored(c, "network_then_fim", E)
         /\ \A n, f \in E :
              /\ n.category = "network" /\ n.critical /\ f.category = "fim"
              /\ Within(n, f, ChainWindow) /\ SameHost(n, f)
              => \E c \in rule_network_then_fim(E) :
                   c.key[1] = "network_then_fim" /\ c.key[3] = n.id
<1> DEFINE Recon == {e \in E : e.name \in {"syn_scan", "arp_spoofing", "icmp_sweep"}}
           Follows(r, a) == /\ a.name = "AUTH_FAILURE" /\ Within(r, a, ChainWindow)
                            /\ SameHost(r, a) /\ r.source # None /\ r.source = a.source
           L == {l \in Recon \X E : Follows(l[1], l[2])}
           Critical == {e \in E : e.category = "network" /\ e.critical}
           Tampers(n, f) == f.category = "fim" /\ Within(n, f, ChainWindow) /\ SameHost(n, f)
           M == {l \in Critical \X E : Tampers(l[1], l[2])}
<1>1. rule_recon_then_auth(E) = Chains("recon_then_auth", L)
  BY DEF rule_recon_then_auth
<1>2. rule_network_then_fim(E) = Chains("network_then_fim", M)
  BY DEF rule_network_then_fim
<1>3. L \in SUBSET (E \X E) /\ M \in SUBSET (E \X E)
  OBVIOUS
<1>4. ASSUME NEW n \in E, NEW f \in E, n.category = "network", n.critical, f.category = "fim",
             Within(n, f, ChainWindow), SameHost(n, f)
      PROVE  <<n, f>> \in M
  BY <1>4
<1> HIDE DEF L, M
<1>5. /\ \A c \in Chains("recon_then_auth", L) : Anchored(c, "recon_then_auth", E)
      /\ \A c \in Chains("network_then_fim", M) : Anchored(c, "network_then_fim", E)
  BY <1>3, ChainsAnchored DEF Rules
<1>6. \A l \in M : \E c \in Chains("network_then_fim", M) :
        c.key[1] = "network_then_fim" /\ c.key[3] = l[1].id
  <2> DEFINE rule == "network_then_fim"
  <2>1. rule \in Rules
    BY DEF Rules
  <2> HIDE DEF rule
  <2> DEFINE Headed(l) == \E c \in Chains(rule, M) : c.key[1] = rule /\ c.key[3] = l[1].id
  <2>2. \A l \in M : Headed(l)
    BY <1>3, <2>1, ChainsAnchored, ZenonT(30)
  <2> QED BY <2>2 DEF rule
<1>7. ASSUME NEW n \in E, NEW f \in E, n.category = "network", n.critical, f.category = "fim",
             Within(n, f, ChainWindow), SameHost(n, f)
      PROVE  \E c \in Chains("network_then_fim", M) :
               c.key[1] = "network_then_fim" /\ c.key[3] = n.id
  <2>1. <<n, f>> \in M
    BY <1>4, <1>7
  <2> QED BY <1>6, <2>1
<1> QED BY <1>1, <1>2, <1>5, <1>7

LEMMA IocAnchored ==
  ASSUME NEW E \in SUBSET Rows, NEW c \in rule_ioc_match(E)
  PROVE  Anchored(c, "ioc_match", E)
<1> DEFINE N(i) == {e \in E : i \in {e.entity, e.source}}
<1>1. PICK i \in Indicators \ {None} :
        /\ N(i) # {}
        /\ c = Candidate("ioc_match", Earliest(N(i)), Earliest(N(i)), N(i), {i})
  BY DEF rule_ioc_match
<1>2. N(i) \in SUBSET E
  OBVIOUS
<1>3. Earliest(N(i)) \in N(i)
  BY <1>1, <1>2, RowFields, EarliestIsFirst DEF Stamped
<1> DEFINE S == N(i)
           first == Earliest(S)
           extra == {i}
<1>4. S \in SUBSET E /\ first \in S /\ extra \in SUBSET Named
  BY <1>2, <1>3 DEF Named
<1>5. c = Candidate("ioc_match", first, first, S, extra)
  BY <1>1
<1> HIDE DEF S, first, extra, N
<1> QED BY <1>4, <1>5, CandidateAnchored DEF Rules

(* What any rule finds is anchored.                                        *)
LEMMA RulesAnchor ==
  ASSUME NEW E \in SUBSET Rows, NEW rule \in Rules, NEW c \in RunRule(rule, E)
  PROVE  Anchored(c, rule, E)
<1>1. /\ RunRule("brute_force_burst", E) = rule_brute_force(E)
      /\ RunRule("password_spray", E) = rule_password_spray(E)
      /\ RunRule("auth_success_after_failures", E) = rule_auth_success_after_failures(E)
      /\ RunRule("replay_attack", E) = rule_replay_attack(E)
      /\ RunRule("recon_then_auth", E) = rule_recon_then_auth(E)
      /\ RunRule("network_then_fim", E) = rule_network_then_fim(E)
      /\ RunRule("ioc_match", E) = rule_ioc_match(E)
  BY DEF RunRule
<1> QED
  BY <1>1, BruteForceAnchored, SprayAnchored, SuccessAnchored, ReplayAnchored,
     ChainRulesAnchored, IocAnchored DEF Rules

-----------------------------------------------------------------------------
(* The inductive invariant.                                                *)

Found == [key : Keys, events : (SUBSET Ids) \ {{}}, found : Rows]
Shaped == TypeOK /\ candidates \in [Sweepers -> SUBSET Found]

(* Rows are numbered as they are committed, and only old ones are removed. *)
RowsNumbered ==
  /\ IsFiniteSet(logged)
  /\ \A e \in logged : e.id <= Cardinality(logged) /\ e.ts <= now
  /\ \A e, f \in logged : e.id = f.id => e = f
  /\ \A e \in logged : e \in audit_events \/ e.ts < now - Retention

(* A key was inserted once, for a row that was there; what is not in the   *)
(* table any more is older than the retention.                             *)
IncidentsKept ==
  /\ \A i, j \in opened : i.key = j.key => i = j
  /\ \A i \in opened :
       /\ \E e \in logged : e.id = i.key[3] /\ e.id \in i.events /\ e.ts <= i.created
       /\ (\E k \in incidents : k.key = i.key) \/ i.created < now - Retention
  /\ \A k \in incidents : \E i \in opened : i.key = k.key /\ i.created = k.created

(* What a sweep is about to insert is of rows it read MaxPause ago or less. *)
AnchoredSince(c, t) == \E e \in logged : e.id = c.key[3] /\ e.id \in c.events /\ e.ts >= t
SweepsCurrent ==
  /\ \A s \in Sweepers :
       /\ loaded_at[s] <= now
       /\ pc[s] = "swept" => now <= loaded_at[s] + MaxPause
       /\ \A c \in candidates[s] :
            pc[s] = "swept" /\ AnchoredSince(c, loaded_at[s] - Lookback)
  /\ \A d \in Daemons : pc[d] = "idle" => now <= due[d]

(* A sweep that read the table at G: the rows E it saw, and that every     *)
(* rule that does not raise had its findings on E inserted.                *)
Reliable == Rules \ Fallible
Seen(E, G) ==
  /\ \A e \in E : e.ts >= G - Lookback
  /\ \A e \in logged : G - Lookback <= e.ts /\ e.ts < G - MaxLag => e \in E
Swept(G) ==
  \E E \in SUBSET logged :
    /\ Seen(E, G)
    /\ \A rule \in Reliable : \A c \in RunRule(rule, E) : \E i \in opened : i.key = c.key

(* There is such a sweep in every Gap up to g, and each daemon is at most  *)
(* its failed rounds and the current one past some such g.                 *)
DenseUpTo(g) ==
  \A x \in Nat : x < g => \E G \in Nat : x < G /\ G <= x + Gap /\ G <= now /\ Swept(G)
Rounds(k) == (k + 1) * (Interval + MaxPause)
Covered ==
  \A d \in Daemons :
    \E g \in Nat :
      /\ DenseUpTo(g)
      /\ pc[d] = "idle" => due[d] <= g + Rounds(skipped[d])
      /\ pc[d] = "swept" =>
           /\ loaded_at[d] <= g + Rounds(skipped[d])
           /\ \E E \in SUBSET logged :
                Seen(E, loaded_at[d]) /\ \A rule \in Reliable : RunRule(rule, E) \subseteq candidates[d]

Inv == Shaped /\ RowsNumbered /\ IncidentsKept /\ SweepsCurrent /\ Covered

-----------------------------------------------------------------------------
(* What a step keeps of the sweeps that went through.                      *)

LEMMA RoundsGrow ==
  /\ Gap \in Nat
  /\ \A k \in 0 .. MaxSkips :
       /\ Rounds(k) \in Nat /\ Rounds(k) <= Gap /\ Interval + MaxPause <= Rounds(k)
       /\ Rounds(k + 1) = Rounds(k) + Interval + MaxPause
<1> DEFINE I == Interval + MaxPause
<1>1. I \in Nat
  OBVIOUS
<1> HIDE DEF I
<1>2. ASSUME NEW k \in Nat
      PROVE  /\ (k + 1) * I \in Nat /\ I <= (k + 1) * I
             /\ (k + 1 + 1) * I = (k + 1) * I + I
  <2>1. k * I \in Nat /\ (k + 1) * I = k * I + I /\ (k + 1 + 1) * I = k * I + I + I
    BY <1>1
  <2> QED BY <1>1, <2>1
<1>3. ASSUME NEW k \in 0 .. MaxSkips PROVE (k + 1) * I <= (MaxSkips + 1) * I
  <2>1. PICK q \in Nat : MaxSkips = k + q
    <3>1. MaxSkips - k \in Nat /\ MaxSkips = k + (MaxSkips - k)
      OBVIOUS
    <3> QED BY <3>1
  <2>2. q * I \in Nat /\ (k + 1) * I \in Nat
    BY <1>1
  <2>3. (k + q + 1) * I = (k + 1) * I + q * I
    BY <1>1
  <2> QED BY <2>1, <2>2, <2>3
<1>4. Gap = (MaxSkips + 1) * I /\ \A k : Rounds(k) = (k + 1) * I
  BY DEF Gap, Rounds, I
<1>5. Gap \in Nat
  BY <1>2, <1>4
<1>6. ASSUME NEW k \in 0 .. MaxSkips
      PROVE  /\ Rounds(k) \in Nat /\ Rounds(k) <= Gap /\ I <= Rounds(k)
             /\ Rounds(k + 1) = Rounds(k) + I
  <2>1. k \in Nat
    OBVIOUS
  <2> QED BY <1>2, <1>3, <1>4, <2>1
<1>7. \A r \in Nat : r + I = r + Interval + MaxPause
  BY DEF I
<1> QED BY <1>5, <1>6, <1>7 DEF I

(* Steps that only add incidents, and rows of the last MaxLag ticks.       *)
Grows ==
  /\ logged \subseteq logged' /\ opened \subseteq opened'
  /\ \A e \in logged' \ logged : e.ts >= now - MaxLag /\ e.ts \in Nat
  /\ now' \in Nat /\ now <= now'

LEMMA SeenStays ==
  ASSUME Inv, Grows, NEW G \in Nat, G <= now, NEW E \in SUBSET logged, Seen(E, G)
  PROVE  Seen(E, G)'
<1>1. now \in Nat
  BY DEF Inv, Shaped, TypeOK
<1> QED BY <1>1 DEF Seen, Grows

LEMMA SweptStays ==
  ASSUME Inv, Grows, NEW G \in Nat, G <= now, Swept(G)
  PROVE  Swept(G)'
<1>1. PICK E \in SUBSET logged :
        /\ Seen(E, G)
        /\ \A rule \in Reliable : \A c \in RunRule(rule, E) : \E i \in opened : i.key = c.key
  BY DEF Swept
<1>2. Seen(E, G)' /\ E \in SUBSET logged'
  BY <1>1, SeenStays DEF Grows
<1>3. \A rule \in Reliable : \A c \in RunRule(rule, E) : \E i \in opened' : i.key = c.key
  BY <1>1 DEF Grows
<1> QED BY <1>2, <1>3 DEF Swept

LEMMA DenseStays ==
  ASSUME Inv, Grows, NEW g \in Nat, DenseUpTo(g)
  PROVE  DenseUpTo(g)'
<1> SUFFICES ASSUME NEW x \in Nat, x < g
             PROVE  \E G \in Nat : x < G /\ G <= x + Gap /\ G <= now' /\ Swept(G)'
  BY DEF DenseUpTo
<1>1. PICK G \in Nat : x < G /\ G <= x + Gap /\ G <= now /\ Swept(G)
  BY DEF DenseUpTo
<1>2. G <= now'
  BY <1>1 DEF Grows, Inv, Shaped, TypeOK
<1> QED BY <1>1, <1>2, SweptStays

(* A daemon whose sweep stands where it stood.                             *)
CoveredFor(d) ==
  \E g \in Nat :
    /\ DenseUpTo(g)
    /\ pc[d] = "idle" => due[d] <= g + Rounds(skipped[d])
    /\ pc[d] = "swept" =>
         /\ loaded_at[d] <= g + Rounds(skipped[d])
         /\ \E E \in SUBSET logged :
              Seen(E, loaded_at[d]) /\ \A rule \in Reliable : RunRule(rule, E) \subseteq candidates[d]

LEMMA CoveredStays ==
  ASSUME Inv, Grows, NEW d \in Daemons,
         pc'[d] = pc[d], due'[d] = due[d], skipped'[d] = skipped[d],
         loaded_at'[d] = loaded_at[d], candidates'[d] = candidates[d]
  PROVE  CoveredFor(d)'
<1>1. PICK g \in Nat :
        /\ DenseUpTo(g)
        /\ pc[d] = "idle" => due[d] <= g + Rounds(skipped[d])
        /\ pc[d] = "swept" =>
             /\ loaded_at[d] <= g + Rounds(skipped[d])
             /\ \E E \in SUBSET logged :
                  Seen(E, loaded_at[d]) /\ \A rule \in Reliable : RunRule(rule, E) \subseteq candidates[d]
  BY DEF Inv, Covered
<1>2. DenseUpTo(g)'
  BY <1>1, DenseStays
<1>3. ASSUME pc[d] = "swept"
      PROVE  \E E \in SUBSET logged' :
               Seen(E, loaded_at[d])' /\ \A rule \in Reliable : RunRule(rule, E) \subseteq candidates[d]
  <2>1. PICK E \in SUBSET logged :
          Seen(E, loaded_at[d]) /\ \A rule \in Reliable : RunRule(rule, E) \subseteq candidates[d]
    BY <1>1, <1>3
  <2>2. loaded_at[d] \in Nat /\ loaded_at[d] <= now
    BY DEF Inv, Shaped, TypeOK, SweepsCurrent, Sweepers
  <2> DEFINE G == loaded_at[d]
  <2>3. G' = G
    OBVIOUS
  <2>4. Seen(E, G)'
    <3>1. \A e \in E : e.ts >= G - Lookback
      BY <2>1 DEF Seen
    <3>2. \A e \in logged' : G - Lookback <= e.ts /\ e.ts < G - MaxLag => e \in E
      BY <2>1, <2>2 DEF Seen, Grows, Inv, Shaped, TypeOK
    <3> QED BY <2>3, <3>1, <3>2 DEF Seen
  <2> QED BY <2>1, <2>4 DEF Grows
<1> QED BY <1>1, <1>2, <1>3 DEF CoveredFor, Seen

-----------------------------------------------------------------------------
(* The steps.                                                              *)

LEMMA CoveredIfEach == (\A d \in Daemons : CoveredFor(d)') => Covered'
BY DEF Covered, CoveredFor

(* Steps that change no table and no sweep.                                *)
LEMMA TickStep ==
  ASSUME Inv, Tick
  PROVE  Inv'
<1>1. now' = now + 1 /\ now < MaxTime /\ UNCHANGED <<tables, sweeps>> /\ now \in Times
  BY DEF Tick, Inv, Shaped, TypeOK
<1>2. Shaped'
  BY <1>1 DEF Inv, Shaped, TypeOK, tables, sweeps
<1>3. RowsNumbered'
  <2>1. \A e \in logged : e.ts \in Times
    BY DEF Inv, Shaped, TypeOK, Rows
  <2> QED BY <1>1, <2>1 DEF Inv, RowsNumbered, tables
<1>4. IncidentsKept'
  <2>1. \A i \in opened : i.created \in Times
    BY DEF Inv, Shaped, TypeOK
  <2> QED BY <1>1, <2>1 DEF Inv, IncidentsKept, tables
<1>5. SweepsCurrent'
  <2>1. \A x \in Sweepers : loaded_at[x] \in Times
    BY DEF Inv, Shaped, TypeOK
  <2>2. \A d \in Daemons : due[d] \in Nat
    BY DEF Inv, Shaped, TypeOK, Sweepers
  <2>3. \A d \in Daemons : pc[d] = "idle" => now + 1 <= due[d]
    BY <1>1, <2>2 DEF Tick
  <2>4. \A x \in Sweepers : pc[x] = "swept" => now + 1 <= loaded_at[x] + MaxPause
    BY <1>1, <2>1 DEF Tick
  <2> QED BY <1>1, <2>1, <2>3, <2>4 DEF Inv, SweepsCurrent, AnchoredSince, tables, sweeps
<1>6. Covered'
  <2>1. Grows
    BY <1>1 DEF Grows, tables
  <2> QED BY <1>1, <2>1, CoveredStays, CoveredIfEach DEF sweeps
<1> QED BY <1>2, <1>3, <1>4, <1>5, <1>6 DEF Inv

(* A row is numbered after all the others.                                 *)
LEMMA LogStep ==
  ASSUME Inv, NEW shape \in Shapes, NEW lag \in 0 .. MaxLag, Log(shape, lag)
  PROVE  Inv'
<1> DEFINE n == Cardinality(logged)
           row == [id |-> n + 1, ts |-> now - lag, name |-> shape.name,
                   category |-> shape.category, critical |-> shape.critical,
                   entity |-> shape.entity, source |-> shape.source, host |-> shape.host]
<1>1. n \in Nat /\ n < MaxEvents /\ lag <= now /\ now \in Times
  BY FS_CardinalityType DEF Log, Inv, Shaped, TypeOK, RowsNumbered
<1>2. /\ audit_events' = audit_events \cup {row} /\ logged' = logged \cup {row}
      /\ UNCHANGED <<now, incidents, opened, sweeps>>
  BY DEF Log
<1> HIDE DEF n
<1>3. row \in Rows /\ row.id = n + 1 /\ row.ts = now - lag
  <2>1. n + 1 \in Ids /\ now - lag \in Times
    BY <1>1
  <2> QED BY <2>1, ShapesAssumption DEF Rows
<1> HIDE DEF row
<1>4. IsFiniteSet(logged') /\ Cardinality(logged') = n + 1
  <2>1. row \notin logged
    BY <1>1, <1>3 DEF Inv, RowsNumbered, n
  <2> QED BY <1>2, <2>1, FS_AddElement DEF Inv, RowsNumbered, n
<1>5. RowsNumbered'
  <2>1. \A e \in logged : e.id \in Nat /\ e.id <= n
    BY DEF Inv, Shaped, TypeOK, Rows, RowsNumbered, n
  <2>2. \A e \in logged' : e.id <= n + 1 /\ e.ts <= now
    BY <1>1, <1>2, <1>3, <2>1 DEF Inv, RowsNumbered
  <2>3. \A e, f \in logged' : e.id = f.id => e = f
    BY <1>1, <1>2, <1>3, <2>1 DEF Inv, RowsNumbered
  <2>4. \A e \in logged' : e \in audit_events' \/ e.ts < now - Retention
    BY <1>2 DEF Inv, RowsNumbered
  <2> QED BY <1>2, <1>4, <2>2, <2>3, <2>4 DEF RowsNumbered
<1>6. Shaped'
  <2>1. \A x \in Sweepers : candidates[x] \subseteq
          [key : Keys, events : (SUBSET Ids) \ {{}}, found : logged']
    BY <1>2 DEF Inv, Shaped, TypeOK
  <2>2. audit_events' \subseteq logged' /\ logged' \subseteq Rows
    BY <1>2, <1>3 DEF Inv, Shaped, TypeOK
  <2> QED BY <1>2, <2>1, <2>2 DEF Inv, Shaped, TypeOK, sweeps
<1>7. IncidentsKept'
  BY <1>2 DEF Inv, IncidentsKept
<1>8. SweepsCurrent'
  BY <1>2 DEF Inv, SweepsCurrent, AnchoredSince, sweeps
<1>9. Covered'
  <2>1. Grows
    BY <1>1, <1>2, <1>3 DEF Grows
  <2> QED BY <1>2, <2>1, CoveredStays, CoveredIfEach DEF sweeps
<1> QED BY <1>5, <1>6, <1>7, <1>8, <1>9 DEF Inv

(* A sweep reads: what it finds is of rows of the lookback, and those that *)
(* cannot be committed any more it has seen.                               *)
LEMMA LoadStep ==
  ASSUME Inv, NEW s \in Sweepers, NEW failing \in SUBSET Fallible, Load(s, failing)
  PROVE  Inv'
<1> DEFINE C == UNION {RunRule(rule, Recent) : rule \in Rules \ failing}
<1>1. /\ pc[s] = "idle" /\ (s \in Daemons => due[s] <= now)
      /\ candidates' = [candidates EXCEPT ![s] = C]
      /\ loaded_at' = [loaded_at EXCEPT ![s] = now]
      /\ pc' = [pc EXCEPT ![s] = "swept"]
      /\ UNCHANGED <<now, tables, due, skipped>>
  BY DEF Load
<1>2. now \in Times /\ Recent \in SUBSET logged /\ Recent \in SUBSET Rows
      /\ \A e \in Recent : e.ts >= now - Lookback
  BY DEF Inv, Shaped, TypeOK, Recent
<1>3. ASSUME NEW c \in C
      PROVE  /\ c \in [key : Keys, events : (SUBSET Ids) \ {{}}, found : logged]
             /\ c \in Found /\ AnchoredSince(c, now - Lookback)
  <2>1. PICK rule \in Rules : c \in RunRule(rule, Recent)
    OBVIOUS
  <2>2. Anchored(c, rule, Recent)
    BY <1>2, <2>1, RulesAnchor
  <2>3. /\ c.key \in Keys /\ c.events \in (SUBSET Ids) \ {{}} /\ c.found \in logged
        /\ c.found \in Rows /\ c = [key |-> c.key, events |-> c.events, found |-> c.found]
    BY <1>2, <2>2 DEF Anchored
  <2>4. AnchoredSince(c, now - Lookback)
    BY <1>2, <2>2 DEF Anchored, AnchoredSince
  <2> QED BY <2>3, <2>4 DEF Found
<1>4. ASSUME NEW d \in Daemons, d = s
      PROVE  CoveredFor(d)'
  <2>1. PICK g \in Nat : DenseUpTo(g) /\ due[d] <= g + Rounds(skipped[d])
    BY <1>1, <1>4 DEF Inv, Covered
  <2>2. now <= due[d]
    BY <1>1, <1>4 DEF Inv, SweepsCurrent
  <2>3. loaded_at'[d] = now /\ pc'[d] = "swept" /\ candidates'[d] = C /\ skipped'[d] = skipped[d]
    BY <1>1, <1>4 DEF Inv, Shaped, TypeOK
  <2>4. Rounds(skipped[d]) \in Nat /\ due[d] \in Nat
    BY <1>4, RoundsGrow DEF Inv, Shaped, TypeOK
  <2>5. loaded_at'[d] <= g + Rounds(skipped[d])
    BY <1>2, <2>1, <2>2, <2>3, <2>4
  <2>6. Seen(Recent, now)
    BY <1>2, RetentionAssumption DEF Seen, Recent, Inv, RowsNumbered, Shaped, TypeOK, Rows
  <2>7. \A rule \in Reliable : RunRule(rule, Recent) \subseteq C
    BY DEF Reliable
  <2>8. Grows
    BY <1>1, <1>2 DEF Grows, tables
  <2>9. DenseUpTo(g)'
    BY <2>1, <2>8, DenseStays
  <2> DEFINE E == Recent
             t == now
  <2>10. E \in SUBSET logged' /\ Seen(E, t) /\ t' = t /\ logged' = logged
    BY <1>1, <1>2, <2>6 DEF tables
  <2> HIDE DEF E, C
  <2>11. \E F \in SUBSET logged' :
           /\ \A e \in F : e.ts >= loaded_at'[d] - Lookback
           /\ \A e \in logged' : loaded_at'[d] - Lookback <= e.ts /\ e.ts < loaded_at'[d] - MaxLag
                                  => e \in F
           /\ \A rule \in Reliable : RunRule(rule, F) \subseteq candidates'[d]
    <3>1. \A rule \in Reliable : RunRule(rule, E) \subseteq C
      BY <2>7 DEF E
    <3> QED BY <2>3, <2>10, <3>1 DEF Seen
  <2>12. loaded_at'[d] <= g + Rounds(skipped'[d]) /\ pc'[d] # "idle"
    BY <2>3, <2>5
  <2> QED BY <2>9, <2>11, <2>12 DEF CoveredFor, Seen
<1> HIDE DEF C
<1>5. Shaped'
  <2>1. C \subseteq [key : Keys, events : (SUBSET Ids) \ {{}}, found : logged] /\ C \subseteq Found
    BY <1>3
  <2>2. \A x \in Sweepers :
          candidates'[x] \subseteq [key : Keys, events : (SUBSET Ids) \ {{}}, found : logged]
    BY <1>1, <2>1 DEF Inv, Shaped, TypeOK
  <2>3. candidates' \in [Sweepers -> SUBSET Found]
    BY <1>1, <2>1 DEF Inv, Shaped
  <2> QED BY <1>1, <1>2, <2>2, <2>3 DEF Inv, Shaped, TypeOK, tables
<1>6. RowsNumbered' /\ IncidentsKept'
  BY <1>1 DEF Inv, RowsNumbered, IncidentsKept, tables
<1>7. SweepsCurrent'
  <2> SUFFICES ASSUME NEW x \in Sweepers
               PROVE  /\ loaded_at'[x] <= now
                      /\ pc'[x] = "swept" => now <= loaded_at'[x] + MaxPause
                      /\ \A c \in candidates'[x] :
                           pc'[x] = "swept" /\ AnchoredSince(c, loaded_at'[x] - Lookback)
                      /\ pc'[x] = "idle" /\ x \in Daemons => now <= due[x]
    BY <1>1 DEF SweepsCurrent, AnchoredSince, tables, Sweepers
  <2>1. CASE x = s
    <3>1. loaded_at'[x] = now /\ pc'[x] = "swept" /\ candidates'[x] = C
      BY <1>1, <2>1 DEF Inv, Shaped, TypeOK
    <3> QED BY <1>2, <1>3, <3>1
  <2>2. CASE x # s
    <3>1. loaded_at'[x] = loaded_at[x] /\ pc'[x] = pc[x] /\ candidates'[x] = candidates[x]
      BY <1>1, <2>2 DEF Inv, Shaped, TypeOK
    <3> QED BY <3>1 DEF Inv, SweepsCurrent
  <2> QED BY <2>1, <2>2
<1>8. ASSUME NEW d \in Daemons, d # s PROVE CoveredFor(d)'
  <2>1. Grows
    BY <1>1, <1>2 DEF Grows, tables
  <2>2. /\ pc'[d] = pc[d] /\ due'[d] = due[d] /\ skipped'[d] = skipped[d]
        /\ loaded_at'[d] = loaded_at[d] /\ candidates'[d] = candidates[d]
    BY <1>1, <1>8 DEF Inv, Shaped, TypeOK, Sweepers
  <2> QED BY <2>1, <2>2, CoveredStays
<1> QED BY <1>4, <1>5, <1>6, <1>7, <1>8, CoveredIfEach DEF Inv

(* What a sweep inserts: one incident for each fresh key, of a candidate   *)
(* with that key.                                                          *)
LEMMA NewIncidents ==
  ASSUME Inv, NEW s \in Sweepers
  PROVE  /\ \A i \in New(s) :
              /\ i = [key |-> i.key, events |-> i.events, created |-> now]
              /\ \E c \in Fresh(s) : i.key = c.key /\ i.events = c.events
         /\ \A c \in Fresh(s) : \E i \in New(s) : i.key = c.key
         /\ \A i, j \in New(s) : i.key = j.key => i = j
<1> DEFINE First(k) == CHOOSE c \in Fresh(s) :
             c.key = k /\ \A d \in Fresh(s) : d.key = k => ~Precedes(d.found, c.found)
           Row(k) == [key |-> k, events |-> First(k).events, created |-> now]
           K == {c.key : c \in Fresh(s)}
<1>1. New(s) = {Row(k) : k \in K}
  BY DEF New
<1>2. ASSUME NEW k \in K PROVE First(k) \in Fresh(s) /\ First(k).key = k
  <2> DEFINE S == {c \in Fresh(s) : c.key = k}
             T == {c.found : c \in S}
  <2>1. T # {}
    OBVIOUS
  <2>2. Stamped(T)
    <3>1. \A c \in Fresh(s) : c.found \in logged
      BY DEF Fresh, Inv, Shaped, TypeOK
    <3>2. \A e \in logged : e.ts \in Nat /\ e.id \in Nat
      BY DEF Inv, Shaped, TypeOK, Rows
    <3> QED BY <3>1, <3>2 DEF Stamped
  <2>3. PICK t \in T : \A f \in T : ~Precedes(f, t)
    BY <2>1, <2>2, SomeFirst
  <2>4. PICK c \in S : t = c.found
    OBVIOUS
  <2>5. /\ c \in Fresh(s) /\ c.key = k
        /\ \A d \in Fresh(s) : d.key = k => ~Precedes(d.found, c.found)
    BY <2>3, <2>4
  <2> QED BY <2>5
<1> HIDE DEF First, K
<1>3. ASSUME NEW i \in New(s)
      PROVE  /\ i = [key |-> i.key, events |-> i.events, created |-> now]
             /\ \E c \in Fresh(s) : i.key = c.key /\ i.events = c.events
  <2>1. PICK k \in K : i = Row(k)
    BY <1>1
  <2> QED BY <1>2, <2>1
<1>4. ASSUME NEW c \in Fresh(s) PROVE \E i \in New(s) : i.key = c.key
  <2>1. c.key \in K
    BY DEF K
  <2>2. Row(c.key) \in New(s) /\ Row(c.key).key = c.key
    BY <1>1, <2>1
  <2> QED BY <2>2
<1>5. ASSUME NEW i \in New(s), NEW j \in New(s), i.key = j.key PROVE i = j
  <2>1. PICK k \in K : i = Row(k)
    BY <1>1
  <2>2. PICK l \in K : j = Row(l)
    BY <1>1
  <2>3. k = l
    BY <1>5, <2>1, <2>2
  <2> QED BY <2>1, <2>2, <2>3
<1> QED BY <1>3, <1>4, <1>5

(* A fresh key was never inserted: had its incident been purged, its first *)
(* row would be older than what the sweep read.                            *)
LEMMA FreshIsNew ==
  ASSUME Inv, NEW s \in Sweepers, NEW c \in Fresh(s), NEW i \in opened
  PROVE  i.key # c.key
<1> SUFFICES ASSUME i.key = c.key PROVE FALSE
  OBVIOUS
<1>1. c \in candidates[s] /\ \A k \in incidents : k.key # c.key
  BY DEF Fresh
<1>2. /\ pc[s] = "swept" /\ now <= loaded_at[s] + MaxPause
      /\ AnchoredSince(c, loaded_at[s] - Lookback)
  BY <1>1 DEF Inv, SweepsCurrent
<1>3. PICK e \in logged : e.id = c.key[3] /\ e.ts >= loaded_at[s] - Lookback
  BY <1>2 DEF AnchoredSince
<1>4. i.created < now - Retention
  BY <1>1 DEF Inv, IncidentsKept
<1>5. PICK f \in logged : f.id = i.key[3] /\ f.ts <= i.created
  BY DEF Inv, IncidentsKept
<1>6. e = f
  BY <1>3, <1>5 DEF Inv, RowsNumbered
<1>7. e.ts \in Nat /\ i.created \in Nat /\ now \in Nat /\ loaded_at[s] \in Nat
  BY DEF Inv, Shaped, TypeOK, Rows
<1> QED BY <1>2, <1>3, <1>4, <1>5, <1>6, <1>7, RetentionAssumption

(* A sweep that ends leaves the others as they were.                       *)
LEMMA RestStep ==
  ASSUME Inv, NEW s \in Sweepers, Rest(s), now' = now, Grows,
         NEW n \in 0 .. MaxSkips, skipped' = [skipped EXCEPT ![s] = n],
         pc[s] = "swept"
  PROVE  /\ pc' \in [Sweepers -> {"idle", "swept"}]
         /\ loaded_at' \in [Sweepers -> Times]
         /\ candidates' \in [Sweepers -> SUBSET Found]
         /\ \A x \in Sweepers : candidates'[x] \subseteq candidates[x]
         /\ due' \in [Sweepers -> 0 .. MaxTime + Interval]
         /\ skipped' \in [Sweepers -> 0 .. MaxSkips]
         /\ SweepsCurrent'
         /\ \A d \in Daemons : d # s => CoveredFor(d)'
         /\ pc'[s] = "idle" /\ skipped'[s] = n
         /\ s \in Daemons => due'[s] = now + Interval
<1>1. now \in Times
  BY DEF Inv, Shaped, TypeOK
<1>2. /\ pc' = [pc EXCEPT ![s] = "idle"] /\ candidates' = [candidates EXCEPT ![s] = {}]
      /\ due' = [due EXCEPT ![s] = IF s \in Daemons THEN now + Interval ELSE 0]
      /\ loaded_at' = [loaded_at EXCEPT ![s] = 0]
  BY DEF Rest
<1>3. /\ now + Interval \in 0 .. MaxTime + Interval /\ 0 \in 0 .. MaxTime + Interval
      /\ 0 \in Times /\ now + Interval >= now
  BY <1>1
<1>4. /\ pc'[s] = "idle" /\ skipped'[s] = n /\ candidates'[s] = {} /\ loaded_at'[s] = 0
      /\ (s \in Daemons => due'[s] = now + Interval)
  BY <1>2 DEF Inv, Shaped, TypeOK
<1>5. ASSUME NEW x \in Sweepers, x # s
      PROVE  /\ pc'[x] = pc[x] /\ due'[x] = due[x] /\ skipped'[x] = skipped[x]
             /\ loaded_at'[x] = loaded_at[x] /\ candidates'[x] = candidates[x]
  BY <1>2, <1>5 DEF Inv, Shaped, TypeOK
<1>6. SweepsCurrent'
  <2>1. ASSUME NEW x \in Sweepers
        PROVE  /\ loaded_at'[x] <= now
               /\ pc'[x] = "swept" => now <= loaded_at'[x] + MaxPause
               /\ \A c \in candidates'[x] :
                    pc'[x] = "swept" /\ AnchoredSince(c, loaded_at'[x] - Lookback)
               /\ pc'[x] = "idle" /\ x \in Daemons => now <= due'[x]
    <3>1. CASE x = s
      BY <1>1, <1>3, <1>4, <3>1
    <3>2. CASE x # s
      BY <1>5, <3>2 DEF Inv, SweepsCurrent
    <3> QED BY <3>1, <3>2
  <2> QED BY <2>1 DEF SweepsCurrent, AnchoredSince, Grows, Sweepers
<1>7. /\ pc' \in [Sweepers -> {"idle", "swept"}] /\ loaded_at' \in [Sweepers -> Times]
      /\ due' \in [Sweepers -> 0 .. MaxTime + Interval] /\ skipped' \in [Sweepers -> 0 .. MaxSkips]
  BY <1>2, <1>3 DEF Inv, Shaped, TypeOK
<1>8. candidates' \in [Sweepers -> SUBSET Found]
  BY <1>2 DEF Inv, Shaped
<1>9. \A x \in Sweepers : candidates'[x] \subseteq candidates[x]
  BY <1>4, <1>5
<1>10. \A d \in Daemons : d # s => CoveredFor(d)'
  BY <1>5, CoveredStays DEF Sweepers
<1> QED BY <1>4, <1>6, <1>7, <1>8, <1>9, <1>10

LEMMA SweepFailsStep ==
  ASSUME Inv, NEW s \in Sweepers, SweepFails(s)
  PROVE  Inv'
<1> DEFINE n == IF s \in Daemons THEN skipped[s] + 1 ELSE 0
<1>1. /\ pc[s] = "swept" /\ skipped[s] < MaxSkips /\ Rest(s) /\ UNCHANGED <<now, tables>>
      /\ skipped' = [skipped EXCEPT ![s] = n]
  BY DEF SweepFails
<1>2. n \in 0 .. MaxSkips /\ skipped[s] \in 0 .. MaxSkips /\ now \in Times
  BY <1>1 DEF Inv, Shaped, TypeOK
<1>3. Grows
  BY <1>1, <1>2 DEF Grows, tables
<1> HIDE DEF n
<1>4. /\ pc' \in [Sweepers -> {"idle", "swept"}] /\ loaded_at' \in [Sweepers -> Times]
      /\ candidates' \in [Sweepers -> SUBSET Found]
      /\ \A x \in Sweepers : candidates'[x] \subseteq candidates[x]
      /\ due' \in [Sweepers -> 0 .. MaxTime + Interval] /\ skipped' \in [Sweepers -> 0 .. MaxSkips]
      /\ SweepsCurrent' /\ (\A d \in Daemons : d # s => CoveredFor(d)')
      /\ pc'[s] = "idle" /\ skipped'[s] = n /\ (s \in Daemons => due'[s] = now + Interval)
  BY <1>1, <1>2, <1>3, RestStep
<1>5. Shaped'
  <2>1. \A x \in Sweepers :
          candidates'[x] \subseteq [key : Keys, events : (SUBSET Ids) \ {{}}, found : logged]
    BY <1>4 DEF Inv, Shaped, TypeOK
  <2> QED BY <1>1, <1>4, <2>1 DEF Inv, Shaped, TypeOK, tables
<1>6. RowsNumbered' /\ IncidentsKept'
  BY <1>1 DEF Inv, RowsNumbered, IncidentsKept, tables
<1>7. ASSUME s \in Daemons PROVE CoveredFor(s)'
  <2>1. PICK g \in Nat : DenseUpTo(g) /\ loaded_at[s] <= g + Rounds(skipped[s])
    BY <1>1, <1>7 DEF Inv, Covered
  <2>2. DenseUpTo(g)'
    BY <1>3, <2>1, DenseStays
  <2>3. now <= loaded_at[s] + MaxPause /\ loaded_at[s] \in Nat
    BY <1>1 DEF Inv, SweepsCurrent, Shaped, TypeOK
  <2>4. /\ Rounds(n) = Rounds(skipped[s]) + Interval + MaxPause /\ Rounds(skipped[s]) \in Nat
    BY <1>2, <1>7, RoundsGrow DEF n
  <2>5. due'[s] <= g + Rounds(n)
    BY <1>2, <1>4, <1>7, <2>1, <2>3, <2>4
  <2>6. due'[s] <= g + Rounds(skipped'[s]) /\ pc'[s] # "swept"
    BY <1>4, <2>5
  <2> QED BY <2>2, <2>6 DEF CoveredFor
<1>8. Covered'
  BY <1>4, <1>7, CoveredIfEach
<1> QED BY <1>4, <1>5, <1>6, <1>8 DEF Inv

LEMMA InsertStep ==
  ASSUME Inv, NEW s \in Sweepers, Insert(s)
  PROVE  Inv'
<1> DEFINE Opened == {[key |-> i.key, events |-> i.events, created |-> now, open |-> TRUE] : i \in New(s)}
<1>1. /\ pc[s] = "swept" /\ Rest(s) /\ UNCHANGED <<now, audit_events, logged>>
      /\ incidents' = incidents \cup Opened /\ opened' = opened \cup New(s)
      /\ skipped' = [skipped EXCEPT ![s] = 0]
  BY DEF Insert
<1>2. now \in Times /\ 0 \in 0 .. MaxSkips
  BY DEF Inv, Shaped, TypeOK
<1>3. Grows
  BY <1>1, <1>2 DEF Grows
<1>4. /\ pc' \in [Sweepers -> {"idle", "swept"}] /\ loaded_at' \in [Sweepers -> Times]
      /\ candidates' \in [Sweepers -> SUBSET Found]
      /\ \A x \in Sweepers : candidates'[x] \subseteq candidates[x]
      /\ due' \in [Sweepers -> 0 .. MaxTime + Interval] /\ skipped' \in [Sweepers -> 0 .. MaxSkips]
      /\ SweepsCurrent' /\ (\A d \in Daemons : d # s => CoveredFor(d)')
      /\ pc'[s] = "idle" /\ skipped'[s] = 0 /\ (s \in Daemons => due'[s] = now + Interval)
  BY <1>1, <1>2, <1>3, RestStep
<1>5. ASSUME NEW i \in New(s)
      PROVE  /\ i.key \in Keys /\ i.events \in SUBSET Ids /\ i.created = now
             /\ i = [key |-> i.key, events |-> i.events, created |-> now]
             /\ \E e \in logged : e.id = i.key[3] /\ e.id \in i.events /\ e.ts <= i.created
             /\ \A j \in opened : j.key # i.key
  <2>1. /\ i = [key |-> i.key, events |-> i.events, created |-> now]
        /\ \E c \in Fresh(s) : i.key = c.key /\ i.events = c.events
    BY NewIncidents
  <2>2. PICK c \in Fresh(s) : i.key = c.key /\ i.events = c.events
    BY <2>1
  <2>3. c \in candidates[s]
    BY DEF Fresh
  <2>4. c.key \in Keys /\ c.events \in SUBSET Ids
    BY <2>3 DEF Inv, Shaped, Found
  <2>5. PICK e \in logged : e.id = c.key[3] /\ e.id \in c.events
    BY <2>3 DEF Inv, SweepsCurrent, AnchoredSince
  <2>6. e.ts <= now
    BY DEF Inv, RowsNumbered
  <2>7. i.created = now
    BY <2>1
  <2> QED BY <2>1, <2>2, <2>4, <2>5, <2>6, <2>7, FreshIsNew
<1>6. ASSUME NEW k \in Opened
      PROVE  /\ k \in [key : Keys, events : SUBSET Ids, created : Times, open : BOOLEAN]
             /\ \E i \in New(s) : i.key = k.key /\ i.created = k.created
  <2>1. PICK i \in New(s) : k = [key |-> i.key, events |-> i.events, created |-> now, open |-> TRUE]
    BY <1>6
  <2> QED BY <1>2, <1>5, <2>1
<1>7. ASSUME NEW i \in New(s) PROVE \E k \in Opened : k.key = i.key
  <2>1. [key |-> i.key, events |-> i.events, created |-> now, open |-> TRUE] \in Opened
    OBVIOUS
  <2> QED BY <2>1
<1> HIDE DEF Opened
<1>8. Shaped'
  <2>1. \A x \in Sweepers :
          candidates'[x] \subseteq [key : Keys, events : (SUBSET Ids) \ {{}}, found : logged]
    BY <1>4 DEF Inv, Shaped, TypeOK
  <2>2. opened' \subseteq [key : Keys, events : SUBSET Ids, created : Times]
    BY <1>1, <1>2, <1>5 DEF Inv, Shaped, TypeOK
  <2>3. incidents' \subseteq [key : Keys, events : SUBSET Ids, created : Times, open : BOOLEAN]
    BY <1>1, <1>6 DEF Inv, Shaped, TypeOK
  <2> QED BY <1>1, <1>4, <2>1, <2>2, <2>3 DEF Inv, Shaped, TypeOK
<1>9. RowsNumbered'
  BY <1>1 DEF Inv, RowsNumbered
<1>10. IncidentsKept'
  <2>1. ASSUME NEW i \in opened', NEW j \in opened', i.key = j.key PROVE i = j
    <3>1. CASE i \in opened /\ j \in opened
      BY <2>1, <3>1 DEF Inv, IncidentsKept
    <3>2. CASE i \in New(s) /\ j \in New(s)
      BY <2>1, <3>2, NewIncidents
    <3> QED BY <1>1, <1>5, <2>1, <3>1, <3>2
  <2>2. ASSUME NEW i \in opened'
        PROVE  /\ \E e \in logged : e.id = i.key[3] /\ e.id \in i.events /\ e.ts <= i.created
               /\ (\E k \in incidents' : k.key = i.key) \/ i.created < now - Retention
    <3>1. CASE i \in opened
      BY <1>1, <3>1 DEF Inv, IncidentsKept
    <3>2. CASE i \in New(s)
      BY <1>1, <1>5, <1>7, <3>2
    <3> QED BY <1>1, <3>1, <3>2
  <2>3. ASSUME NEW k \in incidents' PROVE \E i \in opened' : i.key = k.key /\ i.created = k.created
    BY <1>1, <1>6 DEF Inv, IncidentsKept
  <2> QED BY <1>1, <2>1, <2>2, <2>3 DEF IncidentsKept
<1>11. ASSUME s \in Daemons PROVE CoveredFor(s)'
  <2>0. PICK G \in Nat : G = loaded_at[s]
    BY DEF Inv, Shaped, TypeOK
  <2>1. PICK g \in Nat :
          /\ DenseUpTo(g) /\ G <= g + Rounds(skipped[s])
          /\ \E E \in SUBSET logged :
               Seen(E, G) /\ \A rule \in Reliable : RunRule(rule, E) \subseteq candidates[s]
    BY <1>1, <1>11, <2>0 DEF Inv, Covered
  <2>2. DenseUpTo(g)'
    BY <1>3, <2>1, DenseStays
  <2>3. now <= G + MaxPause /\ G \in Nat /\ G <= now
    BY <1>1, <2>0 DEF Inv, SweepsCurrent, Shaped, TypeOK
  <2>4. /\ Rounds(skipped[s]) <= Gap /\ Rounds(skipped[s]) \in Nat /\ Gap \in Nat
        /\ Interval + MaxPause <= Rounds(0) /\ Rounds(0) \in Nat
    BY <1>2, RoundsGrow DEF Inv, Shaped, TypeOK
  <2>5. Swept(G)'
    <3>1. PICK E \in SUBSET logged :
            Seen(E, G) /\ \A rule \in Reliable : RunRule(rule, E) \subseteq candidates[s]
      BY <2>1
    <3>2. \A c \in candidates[s] : \E i \in opened' : i.key = c.key
      <4> TAKE c \in candidates[s]
      <4>1. CASE c \in Fresh(s)
        BY <1>1, <4>1, NewIncidents
      <4>2. CASE c \notin Fresh(s)
        <5>1. PICK k \in incidents : k.key = c.key
          BY <4>2 DEF Fresh
        <5> QED BY <1>1, <5>1 DEF Inv, IncidentsKept
      <4> QED BY <4>1, <4>2
    <3>3. \A e \in E : e.ts >= G - Lookback
      BY <3>1 DEF Seen
    <3>4. \A e \in logged' : G - Lookback <= e.ts /\ e.ts < G - MaxLag => e \in E
      BY <1>1, <3>1 DEF Seen
    <3>5. \E F \in SUBSET logged' :
            /\ \A e \in F : e.ts >= G - Lookback
            /\ \A e \in logged' : G - Lookback <= e.ts /\ e.ts < G - MaxLag => e \in F
            /\ \A rule \in Reliable : \A c \in RunRule(rule, F) : \E i \in opened' : i.key = c.key
      BY <1>1, <3>1, <3>2, <3>3, <3>4
    <3> QED BY <3>5 DEF Swept, Seen
  <2>6. PICK h \in Nat : h = IF G > g THEN G ELSE g
    BY <2>1, <2>3
  <2>7. DenseUpTo(h)'
    <3> SUFFICES ASSUME NEW x \in Nat, x < h
                 PROVE  \E K \in Nat : x < K /\ K <= x + Gap /\ K <= now' /\ Swept(K)'
      BY DEF DenseUpTo
    <3>1. CASE x < g
      BY <2>2, <3>1 DEF DenseUpTo
    <3>2. CASE ~(x < g)
      <4>1. x < G /\ G <= x + Gap /\ G <= now'
        BY <1>1, <2>1, <2>3, <2>4, <2>6, <3>2
      <4> QED BY <2>3, <2>5, <4>1
    <3> QED BY <3>1, <3>2
  <2>8. h \in Nat /\ G <= h
    BY <2>1, <2>3, <2>6
  <2>9. due'[s] <= h + Rounds(skipped'[s]) /\ pc'[s] # "swept"
    BY <1>2, <1>4, <1>11, <2>3, <2>4, <2>8
  <2> QED BY <2>7, <2>8, <2>9 DEF CoveredFor
<1>12. Covered'
  BY <1>4, <1>11, CoveredIfEach
<1> QED BY <1>4, <1>8, <1>9, <1>10, <1>12 DEF Inv

LEMMA CloseStep ==
  ASSUME Inv, NEW k \in incidents, Close(k)
  PROVE  Inv'
<1> DEFINE closed == [k EXCEPT !.open = FALSE]
<1>1. /\ incidents' = (incidents \ {k}) \cup {closed}
      /\ UNCHANGED <<now, audit_events, logged, opened, sweeps>>
  BY DEF Close
<1>2. /\ closed \in [key : Keys, events : SUBSET Ids, created : Times, open : BOOLEAN]
      /\ closed.key = k.key /\ closed.created = k.created
  BY DEF Inv, Shaped, TypeOK
<1> HIDE DEF closed
<1>3. Shaped' /\ RowsNumbered' /\ SweepsCurrent'
  BY <1>1, <1>2 DEF Inv, Shaped, TypeOK, RowsNumbered, SweepsCurrent, AnchoredSince, sweeps
<1>4. IncidentsKept'
  <2>1. \A i \in opened : (\E x \in incidents : x.key = i.key) =>
                           \E x \in incidents' : x.key = i.key
    BY <1>1, <1>2
  <2>2. \A x \in incidents' : \E i \in opened : i.key = x.key /\ i.created = x.created
    BY <1>1, <1>2 DEF Inv, IncidentsKept
  <2> QED BY <1>1, <2>1, <2>2 DEF Inv, IncidentsKept
<1>5. Covered'
  <2>1. Grows
    BY <1>1 DEF Grows, Inv, Shaped, TypeOK
  <2> QED BY <1>1, <2>1, CoveredStays, CoveredIfEach DEF sweeps
<1> QED BY <1>3, <1>4, <1>5 DEF Inv

LEMMA PurgeStep ==
  ASSUME Inv, NEW t \in 0 .. now, Purge(t)
  PROVE  Inv'
<1>1. /\ audit_events' = {e \in audit_events : ~(e.ts < t - Retention)}
      /\ incidents' = {i \in incidents : i.open \/ ~(i.created < t - Retention)}
      /\ UNCHANGED <<now, logged, opened, sweeps>>
  BY DEF Purge
<1>2. now \in Nat /\ t \in Nat /\ t <= now
  BY DEF Inv, Shaped, TypeOK
<1>3. Shaped' /\ SweepsCurrent'
  BY <1>1 DEF Inv, Shaped, TypeOK, SweepsCurrent, AnchoredSince, sweeps
<1>4. RowsNumbered'
  <2>1. \A e \in logged : e.ts \in Nat
    BY DEF Inv, Shaped, TypeOK, Rows
  <2>2. \A e \in logged : e \in audit_events' \/ e.ts < now - Retention
    BY <1>1, <1>2, <2>1 DEF Inv, RowsNumbered
  <2> QED BY <1>1, <2>2 DEF Inv, RowsNumbered
<1>5. IncidentsKept'
  <2>1. ASSUME NEW i \in opened
        PROVE  (\E x \in incidents' : x.key = i.key) \/ i.created < now - Retention
    <3> SUFFICES ASSUME NEW x \in incidents, x.key = i.key, x \notin incidents'
                 PROVE  i.created < now - Retention
      BY DEF Inv, IncidentsKept
    <3>1. PICK j \in opened : j.key = x.key /\ j.created = x.created
      BY DEF Inv, IncidentsKept
    <3>2. i = j
      BY <3>1 DEF Inv, IncidentsKept
    <3>3. x.created < t - Retention /\ x.created \in Nat
      BY <1>1 DEF Inv, Shaped, TypeOK
    <3> QED BY <1>2, <3>1, <3>2, <3>3
  <2> QED BY <1>1, <2>1 DEF Inv, IncidentsKept
<1>6. Covered'
  <2>1. Grows
    BY <1>1, <1>2 DEF Grows
  <2> QED BY <1>1, <2>1, CoveredStays, CoveredIfEach DEF sweeps
<1> QED BY <1>3, <1>4, <1>5, <1>6 DEF Inv

LEMMA StutterStep == Inv /\ UNCHANGED vars => Inv'
<1> SUFFICES ASSUME Inv, UNCHANGED vars PROVE Inv'
  OBVIOUS
<1>1. UNCHANGED <<now, audit_events, logged, incidents, opened, sweeps>>
  BY DEF vars, sweeps
<1>2. Shaped' /\ RowsNumbered' /\ IncidentsKept' /\ SweepsCurrent'
  BY <1>1 DEF Inv, Shaped, TypeOK, RowsNumbered, IncidentsKept, SweepsCurrent, AnchoredSince, sweeps
<1>3. Grows
  BY <1>1 DEF Grows, Inv, Shaped, TypeOK
<1>4. Covered'
  BY <1>1, <1>3, CoveredStays, CoveredIfEach DEF sweeps
<1> QED BY <1>2, <1>4 DEF Inv

LEMMA InitStep == Init => Inv
<1> SUFFICES ASSUME Init PROVE Inv
  OBVIOUS
<1>1. /\ 0 \in Times /\ 0 \in 0 .. MaxTime + Interval /\ 0 \in 0 .. MaxSkips
  OBVIOUS
<1>2. /\ \A s \in Sweepers : pc[s] = "idle" /\ loaded_at[s] = 0 /\ candidates[s] = {}
                           /\ due[s] = 0 /\ skipped[s] = 0
      /\ now = 0 /\ audit_events = {} /\ logged = {} /\ incidents = {} /\ opened = {}
  BY DEF Init
<1>3. Shaped
  <2>1. /\ pc \in [Sweepers -> {"idle", "swept"}] /\ loaded_at \in [Sweepers -> Times]
        /\ due \in [Sweepers -> 0 .. MaxTime + Interval] /\ skipped \in [Sweepers -> 0 .. MaxSkips]
    BY <1>1 DEF Init
  <2>2. candidates \in [Sweepers -> SUBSET Found]
    BY DEF Init
  <2> QED BY <1>1, <1>2, <2>1, <2>2 DEF Shaped, TypeOK
<1>4. RowsNumbered /\ IncidentsKept
  BY <1>2, FS_EmptySet DEF RowsNumbered, IncidentsKept
<1>5. SweepsCurrent
  BY <1>2 DEF SweepsCurrent, Sweepers
<1>6. Covered
  <2>1. DenseUpTo(0)
    BY DEF DenseUpTo
  <2>2. Rounds(0) \in Nat
    BY RoundsGrow
  <2>3. \A d \in Daemons : pc[d] = "idle" /\ due[d] <= 0 + Rounds(skipped[d])
    BY <1>2, <2>2 DEF Sweepers
  <2> QED BY <2>1, <2>3 DEF Covered
<1> QED BY <1>3, <1>4, <1>5, <1>6 DEF Inv

(* The invariant holds.                                                    *)
THEOREM InvHolds == Spec => []Inv
<1>1. Inv /\ [Next]_vars => Inv'
  <2> SUFFICES ASSUME Inv, [Next]_vars PROVE Inv'
    OBVIOUS
  <2>1. ASSUME NEW s \in Sweepers,
               (\E failing \in SUBSET Fallible : Load(s, failing)) \/ Insert(s) \/ SweepFails(s)
        PROVE  Inv'
    BY <2>1, LoadStep, InsertStep, SweepFailsStep
  <2> QED
    BY <2>1, TickStep, LogStep, CloseStep, PurgeStep, StutterStep DEF Next
<1> QED BY <1>1, InitStep, PTL DEF Spec

(* A dedupe key is inserted once ever.                                     *)
THEOREM IncidentsReportedOnce == Spec => []ReportedOnce
<1>1. Inv => ReportedOnce
  BY DEF Inv, Shaped, IncidentsKept, ReportedOnce
<1> QED BY <1>1, InvHolds, PTL

-----------------------------------------------------------------------------
(* No attack leaves the lookback unreported.                               *)

LEMMA SweepAfter ==
  ASSUME Inv, NEW x \in Nat, x + Gap + MaxPause < now
  PROVE  \E G \in Nat : x < G /\ G <= x + Gap /\ Swept(G)
<1>1. PICK d \in Daemons : TRUE
  BY DaemonAssumption
<1>2. PICK g \in Nat :
        /\ DenseUpTo(g)
        /\ pc[d] = "idle" => due[d] <= g + Rounds(skipped[d])
        /\ pc[d] = "swept" => loaded_at[d] <= g + Rounds(skipped[d])
  BY DEF Inv, Covered
<1>3. /\ now \in Nat /\ due[d] \in Nat /\ loaded_at[d] \in Nat
      /\ skipped[d] \in 0 .. MaxSkips /\ pc[d] \in {"idle", "swept"}
  BY DEF Inv, Shaped, TypeOK, Sweepers
<1>4. /\ pc[d] = "idle" => now <= due[d]
      /\ pc[d] = "swept" => now <= loaded_at[d] + MaxPause
  BY DEF Inv, SweepsCurrent, Sweepers
<1>5. Gap \in Nat /\ Rounds(skipped[d]) \in Nat /\ Rounds(skipped[d]) <= Gap
  BY <1>3, RoundsGrow
<1>6. now <= g + Gap + MaxPause
  BY <1>2, <1>3, <1>4, <1>5
<1>7. x < g
  BY <1>3, <1>5, <1>6
<1> QED BY <1>2, <1>7 DEF DenseUpTo

(* What a sweep saw, and found by a rule that does not raise, is reported. *)
LEMMA SweptIsReported ==
  ASSUME Inv, NEW rule \in Reliable, NEW E \in SUBSET logged, NEW c \in RunRule(rule, E),
         NEW id, c.key[1] = rule, c.key[3] = id,
         \A k \in RunRule(rule, E) : \E i \in opened : i.key = k.key
  PROVE  Reported(rule, id)
<1>1. PICK i \in opened : i.key = c.key
  OBVIOUS
<1>2. id \in i.events
  BY <1>1 DEF Inv, IncidentsKept
<1> QED BY <1>1, <1>2 DEF Reported

LEMMA AttackRules ==
  /\ {"replay_attack", "network_then_fim", "brute_force_burst"} \subseteq Reliable
  /\ \A E : /\ RunRule("replay_attack", E) = rule_replay_attack(E)
            /\ RunRule("network_then_fim", E) = rule_network_then_fim(E)
            /\ RunRule("brute_force_burst", E) = rule_brute_force(E)
BY DaemonAssumption DEF Reliable, Rules, RunRule

LEMMA RowsLogged ==
  ASSUME Inv
  PROVE  /\ logged \in SUBSET Rows /\ now \in Nat
         /\ \A e \in logged : e.ts \in Nat /\ e.id \in Nat
BY DEF Inv, Shaped, TypeOK, Rows

LEMMA ReplaysReported == Inv => NoReplayAgesOut
<1> SUFFICES ASSUME Inv, NEW e \in logged, e.name = "REPLAY_ATTACK", AgedOut(e)
             PROVE  Reported("replay_attack", e.id)
  BY DEF NoReplayAgesOut
<1>1. e.ts \in Nat /\ now \in Nat /\ Gap \in Nat /\ ChainWindow + MaxLag + Gap <= Lookback
  BY RowsLogged, RoundsGrow, CadenceAssumption DEF Gap
<1>2. PICK G \in Nat : e.ts + MaxLag < G /\ G <= e.ts + MaxLag + Gap /\ Swept(G)
  <2> DEFINE x == e.ts + MaxLag
  <2>1. x \in Nat /\ x + Gap + MaxPause < now
    BY <1>1 DEF AgedOut
  <2> HIDE DEF x
  <2>2. \E G \in Nat : x < G /\ G <= x + Gap /\ Swept(G)
    BY <2>1, SweepAfter
  <2> QED BY <2>2 DEF x
<1>3. PICK E \in SUBSET logged :
        /\ Seen(E, G)
        /\ \A rule \in Reliable : \A c \in RunRule(rule, E) : \E i \in opened : i.key = c.key
  BY <1>2 DEF Swept
<1>4. e \in E
  BY <1>1, <1>2, <1>3 DEF Seen
<1>5. PICK c \in rule_replay_attack(E) : c.key[1] = "replay_attack" /\ c.key[3] = e.id
  BY <1>4, RowsLogged, ReplayAnchored
<1> QED BY <1>3, <1>5, AttackRules, SweptIsReported

LEMMA IntrusionsReported == Inv => NoIntrusionAgesOut
<1> SUFFICES ASSUME Inv, NEW n \in logged, NEW f \in logged,
                    n.category = "network", n.critical, f.category = "fim",
                    SameHost(n, f), Within(n, f, ChainWindow), AgedOut(n)
             PROVE  Reported("network_then_fim", n.id)
  BY DEF NoIntrusionAgesOut
<1>1. /\ n.ts \in Nat /\ f.ts \in Nat /\ now \in Nat /\ Gap \in Nat
      /\ ChainWindow + MaxLag + Gap <= Lookback
  BY RowsLogged, RoundsGrow, CadenceAssumption DEF Gap
<1>2. PICK G \in Nat : /\ n.ts + ChainWindow + MaxLag < G
                       /\ G <= n.ts + ChainWindow + MaxLag + Gap /\ Swept(G)
  <2> DEFINE x == n.ts + ChainWindow + MaxLag
  <2>1. x \in Nat /\ x + Gap + MaxPause < now
    BY <1>1 DEF AgedOut
  <2> HIDE DEF x
  <2>2. \E G \in Nat : x < G /\ G <= x + Gap /\ Swept(G)
    BY <2>1, SweepAfter
  <2> QED BY <2>2 DEF x
<1>3. PICK E \in SUBSET logged :
        /\ Seen(E, G)
        /\ \A rule \in Reliable : \A c \in RunRule(rule, E) : \E i \in opened : i.key = c.key
  BY <1>2 DEF Swept
<1>4. n.ts <= f.ts /\ f.ts <= n.ts + ChainWindow
  BY <1>1 DEF Within
<1>5. n \in E /\ f \in E
  BY <1>1, <1>2, <1>3, <1>4 DEF Seen
<1>6. PICK c \in rule_network_then_fim(E) : c.key[1] = "network_then_fim" /\ c.key[3] = n.id
  BY <1>5, RowsLogged, ChainRulesAnchored
<1> QED BY <1>3, <1>6, AttackRules, SweptIsReported

(* The first burst of a user is what the rule reports of them.             *)
LEMMA BurstFound ==
  ASSUME NEW E \in SUBSET Rows, NEW u, Bursts(FailuresOf(E, u)) # {}
  PROVE  \E c \in rule_brute_force(E) :
           /\ c.key[1] = "brute_force_burst"
           /\ c.key[3] = Earliest(Bursts(FailuresOf(E, u))).id
<1> DEFINE F(user) == FailuresOf(E, user)
           first(user) == Earliest(Bursts(F(user)))
           Hit(user) == Candidate("brute_force_burst", first(user), first(user),
                                  Cluster(F(user), first(user), BruteForceWindow), {})
<1>1. u \in EntitiesOf(Failures(E))
  BY DEF EntitiesOf, Bursts, FailuresOf, Failures
<1>2. Hit(u) \in rule_brute_force(E)
  BY <1>1 DEF rule_brute_force
<1>3. Hit(u).key[1] = "brute_force_burst" /\ Hit(u).key[3] = first(u).id
  BY DEF Candidate, dedupe_key
<1> HIDE DEF Hit
<1> QED BY <1>2, <1>3

LEMMA BurstsReported == Inv => NoBurstAgesOut
<1> SUFFICES ASSUME Inv, NEW a \in logged, NEW u, u = a.entity,
                    a \in Bursts(FailuresOf(logged, u)), AgedOut(a)
             PROVE  \E e \in FailuresOf(logged, u) :
                      /\ Within(a, e, BruteForceWindow) \/ Within(e, a, BruteForceWindow)
                      /\ Reported("brute_force_burst", e.id)
  BY DEF NoBurstAgesOut
<1>1. /\ a.ts \in Nat /\ a.id \in Nat /\ now \in Nat /\ Gap \in Nat
      /\ Gap <= BruteForceWindow + 1 /\ BruteForceWindow + MaxLag + Gap <= Lookback
  BY RowsLogged, RoundsGrow, BurstAssumption
<1>2. PICK G \in Nat : a.ts + Lookback - Gap < G /\ G <= a.ts + Lookback /\ Swept(G)
  <2> DEFINE x == a.ts + Lookback - Gap
  <2>1. x \in Nat /\ x + Gap + MaxPause < now /\ x + Gap = a.ts + Lookback
    BY <1>1 DEF AgedOut
  <2> HIDE DEF x
  <2>2. \E G \in Nat : x < G /\ G <= x + Gap /\ Swept(G)
    BY <2>1, SweepAfter
  <2> QED BY <2>1, <2>2 DEF x
<1>3. PICK E \in SUBSET logged :
        /\ Seen(E, G)
        /\ \A rule \in Reliable : \A c \in RunRule(rule, E) : \E i \in opened : i.key = c.key
  BY <1>2 DEF Swept
<1> DEFINE L == FailuresOf(logged, u)
           F == FailuresOf(E, u)
<1>4. F \subseteq L /\ F \subseteq E /\ L \subseteq logged /\ L \cap E \subseteq F
  BY DEF FailuresOf, Failures
<1>5. a \in L /\ Cardinality(Cluster(L, a, BruteForceWindow)) >= BruteForceThreshold
  BY DEF Bursts
<1>6. ASSUME NEW e \in logged, a.ts <= e.ts, e.ts <= a.ts + BruteForceWindow PROVE e \in E
  <2>1. e.ts \in Nat
    BY RowsLogged
  <2>2. G - Lookback <= e.ts /\ e.ts < G - MaxLag
    BY <1>1, <1>2, <1>6, <2>1
  <2> QED BY <1>3, <2>2 DEF Seen
<1> HIDE DEF L, F
<1>7. Cluster(L, a, BruteForceWindow) = Cluster(F, a, BruteForceWindow)
  <2>1. ASSUME NEW e \in Cluster(L, a, BruteForceWindow) PROVE e \in E
    <3>1. e \in L /\ ~Precedes(e, a) /\ e.ts - a.ts <= BruteForceWindow
      BY DEF Cluster
    <3>2. e.ts \in Nat /\ e.id \in Nat /\ e \in logged
      BY <1>4, <3>1, RowsLogged
    <3>3. a.ts <= e.ts /\ e.ts <= a.ts + BruteForceWindow
      BY <1>1, <3>1, <3>2 DEF Precedes
    <3> QED BY <1>6, <3>2, <3>3
  <2> QED BY <1>4, <2>1 DEF Cluster
<1>8. a \in Bursts(F)
  <2>1. a \in E
    BY <1>1, <1>6
  <2> QED BY <1>4, <1>5, <1>7, <2>1 DEF Bursts
<1> DEFINE b == Earliest(Bursts(F))
<1>9. b \in F /\ ~Precedes(a, b)
  <2>1. Bursts(F) \subseteq F /\ Bursts(F) # {}
    BY <1>8 DEF Bursts
  <2>2. Stamped(Bursts(F))
    BY <1>4, <2>1, RowsLogged DEF Stamped
  <2> QED BY <1>8, <2>1, <2>2, EarliestIsFirst
<1>10. \E c \in rule_brute_force(E) : c.key[1] = "brute_force_burst" /\ c.key[3] = b.id
  BY <1>8, RowsLogged, BurstFound DEF F
<1> HIDE DEF b
<1>11. Reported("brute_force_burst", b.id)
  BY <1>3, <1>10, AttackRules, SweptIsReported
<1>12. Within(b, a, BruteForceWindow)
  <2>1. b.ts \in Nat /\ b.id \in Nat /\ b \in E
    BY <1>4, <1>9, RowsLogged
  <2>2. b.ts <= a.ts
    BY <1>1, <1>9, <2>1 DEF Precedes
  <2>3. b.ts >= G - Lookback
    BY <1>3, <2>1 DEF Seen
  <2> QED BY <1>1, <1>2, <2>1, <2>2, <2>3 DEF Within
<1> QED BY <1>4, <1>9, <1>11, <1>12 DEF L

(* A replay, a network attack followed by tampering and a burst of         *)
(* failures are reported before they leave the lookback, whichever sweeps  *)
(* fail or overlap, whatever other rules raise and whatever retention      *)
(* removes.                                                                *)
THEOREM AttacksAreReported == Spec => []NoAttackAgesOut
<1>1. Inv => NoAttackAgesOut
  BY ReplaysReported, IntrusionsReported, BurstsReported DEF NoAttackAgesOut
<1> QED BY <1>1, InvHolds, PTL

-----------------------------------------------------------------------------
(* The sliding windows: the first row of a stretch opens a cluster that    *)
(* holds the stretch, and a cluster fits the stretch from its first row.   *)

Stretch(F, t, window) == {e \in F : t <= e.ts /\ e.ts <= t + window}

LEMMA StretchOpens ==
  ASSUME NEW F \in SUBSET Rows, NEW window \in Nat, NEW t \in Nat,
         NEW e \in Stretch(F, t, window)
  PROVE  \E a \in Stretch(F, t, window) :
           /\ \A f \in Stretch(F, t, window) : ~Precedes(f, a)
           /\ Stretch(F, t, window) \subseteq Cluster(F, a, window)
<1> DEFINE S == Stretch(F, t, window)
<1>1. S \in SUBSET Rows /\ S # {} /\ \A f \in F : f.ts \in Nat
  BY RowFields DEF Stretch
<1>2. PICK a \in S : \A f \in S : ~Precedes(f, a)
  BY <1>1, RowFields, SomeFirst
<1>3. ASSUME NEW f \in S PROVE f \in Cluster(F, a, window)
  <2>1. /\ f \in F /\ a \in F /\ f.ts \in Nat /\ a.ts \in Nat
        /\ t <= a.ts /\ f.ts <= t + window
    BY <1>1, <1>2, <1>3 DEF Stretch
  <2>2. f.ts - a.ts <= window
    BY <2>1
  <2> QED BY <1>2, <2>1, <2>2 DEF Cluster
<1> QED BY <1>2, <1>3

LEMMA ClusterFits ==
  ASSUME NEW F \in SUBSET Rows, NEW window \in Nat, NEW a \in F
  PROVE  /\ Cluster(F, a, window) \subseteq Stretch(F, a.ts, window)
         /\ a \in Cluster(F, a, window)
<1>1. \A f \in F : f.ts \in Nat /\ f.id \in Nat
  BY RowFields
<1>2. ASSUME NEW f \in Cluster(F, a, window) PROVE f \in Stretch(F, a.ts, window)
  <2>1. f \in F /\ ~Precedes(f, a) /\ f.ts - a.ts <= window
    BY DEF Cluster
  <2>2. a.ts <= f.ts /\ f.ts <= a.ts + window
    BY <1>1, <2>1 DEF Precedes
  <2> QED BY <2>1, <2>2 DEF Stretch
<1>3. a \in Cluster(F, a, window)
  BY <1>1 DEF Cluster, Precedes
<1> QED BY <1>2, <1>3

(* Rows have as many ids as there are rows.                                *)
LEMMA IdsCount ==
  ASSUME NEW S, IsFiniteSet(S), \A e, f \in S : e.id = f.id => e = f
  PROVE  Cardinality({e.id : e \in S}) = Cardinality(S)
<1> DEFINE ids == {e.id : e \in S}
           h == [e \in S |-> e.id]
<1>1. h \in Bijection(S, ids)
  BY DEF Bijection, Injection, Surjection, IsInjective
<1> HIDE DEF h, ids
<1>2. Cardinality(S) = Cardinality(ids)
  BY <1>1, FS_Bijection DEF ExistsBijection
<1> QED BY <1>2 DEF ids

LEMMA MoreIsEnough ==
  ASSUME NEW S, NEW T, IsFiniteSet(T), S \subseteq T, NEW n \in Nat, Cardinality(S) >= n
  PROVE  Cardinality(T) >= n
<1>1. Cardinality(S) <= Cardinality(T) /\ Cardinality(S) \in Nat /\ Cardinality(T) \in Nat
  BY FS_Subset, FS_CardinalityType
<1> QED BY <1>1

LEMMA SomeIsOne ==
  ASSUME NEW S, NEW n \in Nat \ {0}, Cardinality(S) >= n
  PROVE  S # {}
<1>1. S = {} => Cardinality(S) = 0
  BY FS_EmptySet
<1> QED BY <1>1

LEMMA FailuresTyped ==
  ASSUME Inv
  PROVE  /\ Failures(audit_events) \in SUBSET Rows /\ IsFiniteSet(Failures(audit_events))
         /\ \A u : FailuresOf(audit_events, u) \in SUBSET Failures(audit_events)
         /\ \A e, f \in Failures(audit_events) : e.id = f.id => e = f
         /\ \A e \in Failures(audit_events) :
              e.entity # None /\ e.ts \in Times /\ e.id \in Nat
<1>1. /\ audit_events \in SUBSET Rows /\ audit_events \in SUBSET logged /\ IsFiniteSet(logged)
      /\ \A e, f \in logged : e.id = f.id => e = f
  BY DEF Inv, Shaped, TypeOK, RowsNumbered
<1>2. Failures(audit_events) \in SUBSET audit_events
  BY DEF Failures
<1>3. IsFiniteSet(Failures(audit_events))
  BY <1>1, <1>2, FS_Subset
<1>4. \A e \in audit_events : e.ts \in Times /\ e.id \in Nat
  BY <1>1, RowFields
<1> QED BY <1>1, <1>2, <1>3, <1>4 DEF Failures, FailuresOf

LEMMA BruteForceWindows == Inv => BruteForceIsExact
<1> SUFFICES ASSUME Inv, NEW user \in Named
             PROVE  LET F == FailuresOf(audit_events, user)
                        Span(t) == {e \in F : t <= e.ts /\ e.ts <= t + BruteForceWindow}
                        Starts == {t \in Times : Cardinality(Span(t)) >= BruteForceThreshold}
                        Hits == {c \in rule_brute_force(audit_events) : c.key[2] = {user}}
                    IN  /\ (Hits # {}) <=> (Starts # {})
                        /\ \A c \in Hits : \E t \in Times :
                             /\ Cardinality(c.events) >= BruteForceThreshold
                             /\ c.events \subseteq {e.id : e \in Span(t)}
                             /\ \A x \in Starts : x < t => Span(x) \subseteq Span(t)
  BY DEF BruteForceIsExact
<1> DEFINE F(u) == FailuresOf(audit_events, u)
           W == BruteForceWindow
           first(u) == Earliest(Bursts(F(u)))
           C(u) == Cluster(F(u), first(u), W)
           Hit(u) == Candidate("brute_force_burst", first(u), first(u), C(u), {})
           Span(t) == Stretch(F(user), t, W)
           Starts == {t \in Times : Cardinality(Span(t)) >= BruteForceThreshold}
           Hits == {c \in rule_brute_force(audit_events) : c.key[2] = {user}}
<1>1. \A u : /\ F(u) \in SUBSET Rows /\ IsFiniteSet(F(u))
             /\ \A e, f \in F(u) : e.id = f.id => e = f
             /\ \A e \in F(u) : e.entity = u /\ u # None /\ e.ts \in Times /\ e.id \in Nat
  <2>1. \A u : IsFiniteSet(F(u))
    BY FailuresTyped, FS_Subset
  <2> QED BY <2>1, FailuresTyped DEF FailuresOf
<1>2. rule_brute_force(audit_events) =
        {Hit(u) : u \in {x \in EntitiesOf(Failures(audit_events)) : Bursts(F(x)) # {}}}
  BY DEF rule_brute_force
<1>3. \A x : Bursts(F(x)) # {} => x \in EntitiesOf(Failures(audit_events))
  BY DEF EntitiesOf, Bursts, FailuresOf, Failures
<1> HIDE DEF F
<1>4. ASSUME NEW u, Bursts(F(u)) # {}
      PROVE  /\ first(u) \in Bursts(F(u)) /\ first(u) \in F(u)
             /\ \A b \in Bursts(F(u)) : ~Precedes(b, first(u))
  <2>1. Bursts(F(u)) \subseteq F(u)
    BY DEF Bursts
  <2>2. Stamped(Bursts(F(u)))
    BY <1>1, <2>1 DEF Stamped
  <2> QED BY <1>4, <2>1, <2>2, EarliestIsFirst
<1> HIDE DEF first
<1>5. ASSUME NEW u, Bursts(F(u)) # {}
      PROVE  Hit(u).key[2] = {u} /\ Hit(u).events = {e.id : e \in C(u)}
  <2>1. first(u) \in C(u) /\ C(u) \subseteq F(u)
    BY <1>1, <1>4, <1>5, ClusterFits DEF Cluster
  <2> HIDE DEF C
  <2>2. EntitiesOf(C(u)) \cup {} = {u}
    BY <1>1, <2>1 DEF EntitiesOf
  <2> QED BY <2>2 DEF Candidate, dedupe_key
<1> HIDE DEF Hit
<1>6. ASSUME NEW c \in Hits PROVE c = Hit(user) /\ Bursts(F(user)) # {}
  <2>1. PICK u : c = Hit(u) /\ Bursts(F(u)) # {}
    BY <1>2
  <2>2. u = user
    BY <1>5, <2>1
  <2> QED BY <2>1, <2>2
<1>7. Bursts(F(user)) # {} => Hit(user) \in Hits
  BY <1>2, <1>3, <1>5
<1>8. ASSUME NEW t \in Starts
      PROVE  \E a \in Bursts(F(user)) : a \in Span(t) /\ \A f \in Span(t) : ~Precedes(f, a)
  <2>1. PICK e \in Span(t) : TRUE
    BY <1>8, SomeIsOne
  <2>2. PICK a \in Span(t) : /\ \A f \in Span(t) : ~Precedes(f, a)
                             /\ Span(t) \subseteq Cluster(F(user), a, W)
    BY <1>1, StretchOpens
  <2>3. IsFiniteSet(Cluster(F(user), a, W))
    <3>1. Cluster(F(user), a, W) \subseteq F(user)
      BY DEF Cluster
    <3> QED BY <1>1, <3>1, FS_Subset
  <2>4. Cardinality(Cluster(F(user), a, W)) >= BruteForceThreshold
    BY <2>2, <2>3, MoreIsEnough
  <2>5. a \in Bursts(F(user))
    BY <2>4 DEF Bursts, Stretch
  <2> QED BY <2>2, <2>5
<1>9. ASSUME Bursts(F(user)) # {}
      PROVE  /\ first(user).ts \in Starts /\ C(user) \subseteq Span(first(user).ts)
             /\ Cardinality({e.id : e \in C(user)}) >= BruteForceThreshold
  <2>1. /\ first(user) \in F(user) /\ first(user).ts \in Times
        /\ Cardinality(C(user)) >= BruteForceThreshold
    BY <1>1, <1>4, <1>9 DEF Bursts
  <2>2. C(user) \subseteq Span(first(user).ts) /\ C(user) \subseteq F(user)
    BY <1>1, <2>1, ClusterFits DEF Cluster
  <2>3. IsFiniteSet(Span(first(user).ts)) /\ IsFiniteSet(C(user))
    <3>1. Span(first(user).ts) \subseteq F(user)
      BY DEF Stretch
    <3> QED BY <1>1, <2>2, <3>1, FS_Subset
  <2> HIDE DEF C, Span
  <2>4. Cardinality(Span(first(user).ts)) >= BruteForceThreshold
    BY <2>1, <2>2, <2>3, MoreIsEnough
  <2>5. Cardinality({e.id : e \in C(user)}) = Cardinality(C(user))
    BY <1>1, <2>2, <2>3, IdsCount
  <2> QED BY <2>1, <2>2, <2>4, <2>5
<1>10. (Hits # {}) <=> (Starts # {})
  BY <1>6, <1>7, <1>8, <1>9
<1>11. ASSUME NEW c \in Hits
       PROVE  \E t \in Times :
                /\ Cardinality(c.events) >= BruteForceThreshold
                /\ c.events \subseteq {e.id : e \in Span(t)}
                /\ \A x \in Starts : x < t => Span(x) \subseteq Span(t)
  <2>1. c = Hit(user) /\ Bursts(F(user)) # {}
    BY <1>6
  <2>2. PICK t \in Times : t = first(user).ts
    BY <1>9, <2>1
  <2>3. Cardinality(c.events) >= BruteForceThreshold /\ c.events \subseteq {e.id : e \in Span(t)}
    <3> DEFINE S == Span(t)
               B == C(user)
    <3>1. c.events = {e.id : e \in B} /\ B \subseteq S
      BY <1>5, <1>9, <2>1, <2>2
    <3>2. Cardinality({e.id : e \in B}) >= BruteForceThreshold
      BY <1>9, <2>1
    <3> HIDE DEF S, B
    <3>3. Cardinality(c.events) >= BruteForceThreshold /\ c.events \subseteq {e.id : e \in S}
      BY <3>1, <3>2
    <3> QED BY <3>3 DEF S
  <2>4. ASSUME NEW x \in Starts, x < t, NEW f \in Span(x) PROVE f \in Span(t)
    <3>1. PICK a \in Bursts(F(user)) : a \in Span(x) /\ \A g \in Span(x) : ~Precedes(g, a)
      BY <1>8
    <3>2. f \in F(user) /\ a \in F(user) /\ x \in Nat /\ f.ts <= x + W
      BY DEF Stretch, Bursts
    <3>3. f.ts \in Nat /\ a.ts \in Nat
      BY <1>1, <3>2
    <3>4. t <= a.ts
      BY <1>4, <2>1, <2>2, <3>1, <3>3 DEF Precedes
    <3>5. a.ts <= f.ts
      BY <3>1, <3>3 DEF Precedes
    <3>6. t <= f.ts /\ f.ts <= t + W
      BY <2>4, <3>2, <3>3, <3>4, <3>5
    <3> QED BY <3>2, <3>6 DEF Stretch
  <2> QED BY <2>3, <2>4
<1> HIDE DEF Hits, Starts
<1> QED BY <1>10, <1>11 DEF Hits, Starts, Stretch, F

LEMMA SprayWindows == Inv => SprayIsExact
<1> SUFFICES ASSUME Inv PROVE SprayIsExact
  OBVIOUS
<1> DEFINE F == Failures(audit_events)
           W == SprayWindow
           first == Earliest(Sprays(F))
           C == Cluster(F, first, W)
           Hit == Candidate("password_spray", first, first, C, {})
           Hits == rule_password_spray(audit_events)
           Span(t) == Stretch(F, t, W)
           Victims(t) == {e.entity : e \in Span(t)}
<1>1. /\ F \in SUBSET Rows /\ IsFiniteSet(F)
      /\ \A e \in F : e.entity # None /\ e.ts \in Times /\ e.id \in Nat
  BY FailuresTyped
<1>2. Hits = IF Sprays(F) = {} THEN {} ELSE {Hit}
  BY DEF rule_password_spray
<1> HIDE DEF F, Hits
<1>3. \A S \in SUBSET F : EntitiesOf(S) = {e.entity : e \in S} /\ IsFiniteSet(EntitiesOf(S))
  <2> SUFFICES ASSUME NEW S \in SUBSET F
               PROVE  EntitiesOf(S) = {e.entity : e \in S} /\ IsFiniteSet(EntitiesOf(S))
    OBVIOUS
  <2>1. EntitiesOf(S) = {e.entity : e \in S}
    BY <1>1 DEF EntitiesOf
  <2>2. IsFiniteSet(S)
    BY <1>1, FS_Subset
  <2> DEFINE T == {e.entity : e \in S}
             entity == [e \in S |-> e.entity]
  <2>3. entity \in Surjection(S, T)
    BY DEF Surjection
  <2>4. IsFiniteSet(T)
    <3> HIDE DEF T, entity
    <3> QED BY <2>2, <2>3, FS_Surjection
  <2> QED BY <2>1, <2>4
<1>4. ASSUME NEW t \in Nat, Cardinality(Victims(t)) >= SprayThreshold
      PROVE  \E a \in Sprays(F) : a \in Span(t) /\ \A f \in Span(t) : ~Precedes(f, a)
  <2>1. PICK e \in Span(t) : TRUE
    BY <1>4, SomeIsOne
  <2>2. PICK a \in Span(t) : /\ \A f \in Span(t) : ~Precedes(f, a)
                             /\ Span(t) \subseteq Cluster(F, a, W)
    BY <1>1, StretchOpens
  <2> DEFINE B == EntitiesOf(Cluster(F, a, W))
  <2>3. Cluster(F, a, W) \in SUBSET F
    BY DEF Cluster
  <2>4. IsFiniteSet(B) /\ Victims(t) \subseteq B
    BY <1>3, <2>2, <2>3
  <2>5. Cardinality(B) >= SprayThreshold
    BY <1>4, <2>4, MoreIsEnough
  <2>6. a \in Sprays(F)
    BY <2>5 DEF Sprays, Stretch
  <2> QED BY <2>2, <2>6
<1>5. ASSUME Sprays(F) # {}
      PROVE  /\ first \in F /\ Cardinality(EntitiesOf(C)) >= SprayThreshold
             /\ \A b \in Sprays(F) : ~Precedes(b, first)
             /\ C \subseteq Span(first.ts)
  <2>1. Sprays(F) \subseteq F
    BY DEF Sprays
  <2>2. Stamped(Sprays(F))
    BY <1>1, <2>1 DEF Stamped
  <2>3. first \in Sprays(F) /\ \A b \in Sprays(F) : ~Precedes(b, first)
    BY <1>5, <2>2, EarliestIsFirst
  <2> HIDE DEF first
  <2> QED BY <1>1, <2>1, <2>3, ClusterFits DEF Sprays
<1> HIDE DEF first
<1>6. ASSUME Sprays(F) # {}
      PROVE  Cardinality(Victims(first.ts)) >= SprayThreshold /\ C = Span(first.ts)
  <2>1. Span(first.ts) \in SUBSET F /\ C \in SUBSET F
    BY DEF Stretch, Cluster
  <2>2. /\ Victims(first.ts) = EntitiesOf(Span(first.ts)) /\ IsFiniteSet(Victims(first.ts))
        /\ EntitiesOf(C) \subseteq Victims(first.ts)
    <3> DEFINE S == Span(first.ts)
    <3>1. S \in SUBSET F /\ C \in SUBSET F /\ C \subseteq S
      BY <1>5, <1>6, <2>1
    <3> HIDE DEF S, C
    <3>2. /\ {e.entity : e \in S} = EntitiesOf(S) /\ IsFiniteSet(EntitiesOf(S))
          /\ EntitiesOf(C) = {e.entity : e \in C}
      BY <1>3, <3>1
    <3>3. EntitiesOf(C) \subseteq {e.entity : e \in S}
      BY <3>1, <3>2
    <3> QED BY <3>2, <3>3 DEF S
  <2>3. Cardinality(Victims(first.ts)) >= SprayThreshold
    BY <1>5, <1>6, <2>2, MoreIsEnough
  <2>4. first.ts \in Nat /\ first.id \in Nat
    BY <1>1, <1>5, <1>6
  <2>5. PICK a \in Sprays(F) : a \in Span(first.ts) /\ \A f \in Span(first.ts) : ~Precedes(f, a)
    BY <1>4, <2>3, <2>4
  <2>6. ASSUME NEW f \in Span(first.ts) PROVE f \in C
    <3>1. /\ f \in F /\ a \in F /\ first.ts <= f.ts /\ f.ts <= first.ts + W /\ first.ts <= a.ts
      BY <2>5 DEF Stretch
    <3>2. f.ts \in Nat /\ f.id \in Nat /\ a.ts \in Nat /\ a.id \in Nat
      BY <1>1, <3>1
    <3>3. ~Precedes(f, a) /\ ~Precedes(a, first)
      BY <1>5, <1>6, <2>5
    <3>4. ~Precedes(f, first) /\ f.ts - first.ts <= W
      BY <2>4, <3>1, <3>2, <3>3 DEF Precedes
    <3> QED BY <3>1, <3>4 DEF Cluster
  <2> QED BY <1>5, <1>6, <2>3, <2>6
<1> HIDE DEF C
<1>7. (Hits # {}) <=> \E t \in Times : Cardinality(Victims(t)) >= SprayThreshold
  <2>1. Sprays(F) # {} => first.ts \in Times
    BY <1>1, <1>5
  <2>2. Sprays(F) # {} => Cardinality(Victims(first.ts)) >= SprayThreshold
    BY <1>6
  <2>3. ASSUME NEW t \in Times, Cardinality(Victims(t)) >= SprayThreshold PROVE Sprays(F) # {}
    BY <1>4, <2>3
  <2> HIDE DEF Hit, Victims
  <2> QED BY <1>2, <2>1, <2>2, <2>3
<1>8. ASSUME NEW c \in Hits
      PROVE  \E t \in Times : c.key[2] = Victims(t) /\ c.events = {e.id : e \in Span(t)}
  <2>1. Sprays(F) # {} /\ c = Hit
    BY <1>2
  <2>2. first.ts \in Times /\ C = Span(first.ts) /\ C \in SUBSET F
    BY <1>1, <1>5, <1>6, <2>1 DEF C, Cluster
  <2>3. EntitiesOf(C) \cup {} = {e.entity : e \in C}
    BY <1>3, <2>2
  <2>4. c.key[2] = {e.entity : e \in C} /\ c.events = {e.id : e \in C}
    BY <2>1, <2>3 DEF Candidate, dedupe_key
  <2> QED BY <2>2, <2>4
<1> QED BY <1>7, <1>8 DEF SprayIsExact, Hits, F, Stretch

(* Both sliding windows find what their definitions say, in any rows.      *)
THEOREM SlidingWindowsAreExact == Spec => []WindowsAreExact
<1>1. Inv => WindowsAreExact
  BY BruteForceWindows, SprayWindows DEF WindowsAreExact
<1> QED BY <1>1, InvHolds, PTL
-----------------------------------------------------------------------------
(* The demonstration (module Demo).  A run that has set its baselines      *)
(* knows of the planted file only if an event of this run told of it, and  *)
(* what its check has not written yet is still pending.  Damage is settled *)
(* once it is told of, or lost to a refused read or a failed transaction.  *)
Kept == "credentials.txt"
Planted == "implant.bat"
Contents == {None, "original", "tampered", "planted"}
Settled(f, t) ==
  (\E e \in found : e.run = run /\ e.path = f /\ e.type = t) \/ <<f, t>> \in lost
Damage == Settled(Kept, "MODIFIED") /\ Settled(Planted, "CREATED")
Waits(f, t) == \E e \in pending["demo"] : e.path = f /\ e.type = t

DemoTypes ==
  /\ disk \in [D!Files -> Contents] /\ file_baselines \in [D!Files -> Contents]
  /\ pending \in [{"demo", "cron"} ->
       SUBSET [path : D!Files, type : {"CREATED", "DELETED", "MODIFIED"}, digest : Contents]]
  /\ checks \in [{"demo", "cron"} -> [at : {"idle", "compared", "listed"}, n : Nat]]
Prepared ==
  /\ step \in {"forget", "baseline", "count", "tamper"} =>
       disk[Kept] = "original" /\ disk[Planted] = None
  /\ step \in {"plant", "check", "checking"} => disk[Kept] = "tampered"
  /\ step \in {"check", "checking"} => disk[Planted] = "planted"
Baselined ==
  /\ step \in {"baseline", "count", "tamper", "plant", "check", "checking"} =>
       file_baselines[Planted] = None \/ Settled(Planted, "CREATED")
  /\ step \in {"count", "tamper", "plant", "check", "checking"} =>
       (file_baselines[Kept] = "original" \/ Settled(Kept, "MODIFIED")) /\ watched
Checking ==
  step = "checking" =>
    /\ \/ Settled(Kept, "MODIFIED")
       \/ checks["demo"].at = "compared" /\ Waits(Kept, "MODIFIED")
    /\ \/ Settled(Planted, "CREATED")
       \/ checks["demo"].at = "compared"
       \/ checks["demo"].at = "listed" /\ Waits(Planted, "CREATED")
Ended ==
  (step \in {"listed", "insert", "report"} \/ (step = "done" /\ summary # None)) => Damage
DemoInv == DemoTypes /\ Prepared /\ Baselined /\ Checking /\ Ended

LEMMA InitDemo == D!Init => DemoInv
  BY DemoAssumption DEF D!Init, D!Idle, D!Files, DemoInv, DemoTypes, Contents, Prepared, Baselined,
                        Checking, Ended

(* What was settled stays so.                                              *)
LEMMA SameTold ==
  ASSUME UNCHANGED <<found, lost, run>>, NEW f, NEW t
  PROVE  Settled(f, t)' <=> Settled(f, t)
  BY DEF Settled
LEMMA MoreTold ==
  ASSUME found \subseteq found', lost \subseteq lost', run' = run, NEW f, NEW t, Settled(f, t)
  PROVE  Settled(f, t)'
  BY DEF Settled

(* Steps that touch neither files nor checks nor events.                   *)
LEMMA Elsewhere ==
  ASSUME DemoInv, UNCHANGED <<disk, file_baselines, watched, found, lost, pending, checks, step, run, summary>>
  PROVE  DemoInv'
  BY DEF DemoInv, DemoTypes, Prepared, Baselined, Checking, Ended, Damage, Settled, Waits

LEMMA PersistDemo ==
  ASSUME DemoInv, NEW c \in {"demo", "cron"}, NEW e \in pending[c], D!Persist(c, e),
         UNCHANGED <<step, run, disk, summary>>
  PROVE  DemoInv'
<1>1. /\ pending' = [pending EXCEPT ![c] = @ \ {e}] /\ UNCHANGED <<watched, checks, lost>>
      /\ IF e.type = "CREATED" /\ file_baselines[e.path] # None
           THEN UNCHANGED <<file_baselines, found>>
           ELSE /\ found' = found \cup {[path |-> e.path, type |-> e.type, run |-> run,
                                         n |-> D!Cardinality(found) + 1]}
                /\ file_baselines' = IF e.type = "CREATED"
                                       THEN [file_baselines EXCEPT ![e.path] = e.digest]
                                       ELSE file_baselines
  BY DEF D!Persist
<1>2. /\ disk \in [D!Files -> Contents] /\ file_baselines \in [D!Files -> Contents]
      /\ pending \in [{"demo", "cron"} ->
           SUBSET [path : D!Files, type : {"CREATED", "DELETED", "MODIFIED"}, digest : Contents]]
      /\ checks \in [{"demo", "cron"} -> [at : {"idle", "compared", "listed"}, n : Nat]]
  BY DEF DemoInv, DemoTypes
<1>3. e \in [path : D!Files, type : {"CREATED", "DELETED", "MODIFIED"}, digest : Contents]
  BY <1>2
<1>4. found \subseteq found' /\ lost \subseteq lost' /\ run' = run
  BY <1>1
<1>5. DemoTypes'
  BY <1>1, <1>2, <1>3 DEF DemoTypes
<1>6. Prepared'
  BY DEF DemoInv, Prepared
<1>s. ASSUME ~(e.type = "CREATED" /\ file_baselines[e.path] # None) PROVE Settled(e.path, e.type)'
  <2>1. PICK d : d = [path |-> e.path, type |-> e.type, run |-> run, n |-> D!Cardinality(found) + 1]
    OBVIOUS
  <2>2. d \in found'
    BY <1>1, <1>s, <2>1
  <2>3. d.run = run' /\ d.path = e.path /\ d.type = e.type
    BY <2>1
  <2> QED
    BY <2>2, <2>3 DEF Settled
<1>7. e.type # "CREATED" => Settled(e.path, e.type)'
  BY <1>s
<1>8. e.type = "CREATED" /\ file_baselines[e.path] = None => Settled(e.path, "CREATED")'
  BY <1>s
<1>9. Baselined'
  <2>1. ASSUME step \in {"baseline", "count", "tamper", "plant", "check", "checking"}
        PROVE  (file_baselines[Planted] = None)' \/ Settled(Planted, "CREATED")'
    <3>1. file_baselines[Planted] = None \/ Settled(Planted, "CREATED")
      BY <2>1 DEF DemoInv, Baselined
    <3>2. CASE Settled(Planted, "CREATED")
      BY <1>4, <3>2, MoreTold
    <3>3. CASE file_baselines[Planted] = None
      <4>1. CASE e.path = Planted /\ e.type = "CREATED"
        BY <1>8, <3>3, <4>1
      <4>2. CASE ~(e.path = Planted /\ e.type = "CREATED")
        <5>1. file_baselines'[Planted] = file_baselines[Planted]
          BY <1>1, <1>2, <1>3, <4>2 DEF Planted, D!Files
        <5> QED
          BY <3>3, <5>1
      <4> QED
        BY <4>1, <4>2
    <3> QED
      BY <3>1, <3>2, <3>3
  <2>2. ASSUME step \in {"count", "tamper", "plant", "check", "checking"}
        PROVE  (file_baselines'[Kept] = "original" \/ Settled(Kept, "MODIFIED")') /\ watched'
    <3>1. (file_baselines[Kept] = "original" \/ Settled(Kept, "MODIFIED")) /\ watched
      BY <2>2 DEF DemoInv, Baselined
    <3>2. "original" # None
      BY DemoAssumption DEF D!DemoAssumption
    <3>3. file_baselines[Kept] = "original" => file_baselines'[Kept] = file_baselines[Kept]
      BY <1>1, <1>2, <1>3, <3>2 DEF Kept, D!Files
    <3>4. Settled(Kept, "MODIFIED") => Settled(Kept, "MODIFIED")'
      BY <1>4, MoreTold
    <3> QED
      BY <1>1, <3>1, <3>3, <3>4
  <2> QED
    BY <2>1, <2>2 DEF Baselined
<1>10. ASSUME NEW f, NEW t, Waits(f, t), t = "CREATED" => file_baselines[f] = None \/ Settled(f, t)
       PROVE  Waits(f, t)' \/ Settled(f, t)'
  <2>1. PICK d \in pending["demo"] : d.path = f /\ d.type = t
    BY <1>10 DEF Waits
  <2>2. CASE d = e /\ c = "demo"
    <3>1. t = "CREATED" /\ Settled(f, t) => Settled(f, t)'
      BY <1>4, MoreTold
    <3> QED
      BY <1>7, <1>8, <1>10, <2>1, <2>2, <3>1
  <2>3. CASE ~(d = e /\ c = "demo")
    <3>1. d \in pending'["demo"]
      BY <1>1, <1>2, <2>1, <2>3
    <3> QED
      BY <2>1, <3>1 DEF Waits
  <2> QED
    BY <2>2, <2>3
<1>11. Checking'
  <2> SUFFICES ASSUME step = "checking"
               PROVE  /\ \/ Settled(Kept, "MODIFIED")'
                         \/ checks["demo"].at = "compared" /\ Waits(Kept, "MODIFIED")'
                      /\ \/ Settled(Planted, "CREATED")'
                         \/ checks["demo"].at = "compared"
                         \/ checks["demo"].at = "listed" /\ Waits(Planted, "CREATED")'
    BY <1>1 DEF Checking
  <2>1. /\ \/ Settled(Kept, "MODIFIED")
           \/ checks["demo"].at = "compared" /\ Waits(Kept, "MODIFIED")
        /\ \/ Settled(Planted, "CREATED")
           \/ checks["demo"].at = "compared"
           \/ checks["demo"].at = "listed" /\ Waits(Planted, "CREATED")
    BY DEF DemoInv, Checking
  <2>2. file_baselines[Planted] = None \/ Settled(Planted, "CREATED")
    BY DEF DemoInv, Baselined
  <2>3. Settled(Kept, "MODIFIED") => Settled(Kept, "MODIFIED")'
    BY <1>4, MoreTold
  <2>4. Settled(Planted, "CREATED") => Settled(Planted, "CREATED")'
    BY <1>4, MoreTold
  <2>5. Waits(Kept, "MODIFIED") => Waits(Kept, "MODIFIED")' \/ Settled(Kept, "MODIFIED")'
    BY <1>10
  <2>6. Waits(Planted, "CREATED") => Waits(Planted, "CREATED")' \/ Settled(Planted, "CREATED")'
    BY <1>10, <2>2
  <2> QED
    BY <2>1, <2>3, <2>4, <2>5, <2>6
<1>12. Ended'
  <2>1. Damage => Damage'
    BY <1>4, MoreTold DEF Damage
  <2> QED
    BY <2>1 DEF DemoInv, Ended
<1> QED
  BY <1>5, <1>6, <1>9, <1>11, <1>12 DEF DemoInv

(* What the demonstration's check fails to store is lost. *)
LEMMA FailDemo ==
  ASSUME DemoInv, NEW c \in {"demo", "cron"}, NEW e \in pending[c], D!PersistFails(c, e),
         UNCHANGED <<step, run, disk, summary>>
  PROVE  DemoInv'
<1>1. /\ pending' = [pending EXCEPT ![c] = @ \ {e}]
      /\ UNCHANGED <<file_baselines, watched, found, checks>>
      /\ lost' = IF c = "demo" THEN lost \cup {<<e.path, e.type>>} ELSE lost
  BY DEF D!PersistFails
<1>2. pending \in [{"demo", "cron"} ->
        SUBSET [path : D!Files, type : {"CREATED", "DELETED", "MODIFIED"}, digest : Contents]]
  BY DEF DemoInv, DemoTypes
<1>3. \A f, t : Settled(f, t) => Settled(f, t)'
  BY <1>1, MoreTold
<1>4. DemoTypes' /\ Prepared'
  BY <1>1, <1>2 DEF DemoInv, DemoTypes, Prepared
<1>5. Baselined' /\ Ended'
  BY <1>1, <1>3 DEF DemoInv, Baselined, Ended, Damage
<1>6. ASSUME NEW f, NEW t, Waits(f, t) PROVE Waits(f, t)' \/ Settled(f, t)'
  <2>1. PICK d \in pending["demo"] : d.path = f /\ d.type = t
    BY <1>6 DEF Waits
  <2>2. CASE d = e /\ c = "demo"
    BY <1>1, <2>1, <2>2 DEF Settled
  <2>3. CASE ~(d = e /\ c = "demo")
    <3>1. d \in pending'["demo"]
      BY <1>1, <1>2, <2>1, <2>3
    <3> QED
      BY <2>1, <3>1 DEF Waits
  <2> QED
    BY <2>2, <2>3
<1>7. Checking'
  BY <1>1, <1>3, <1>6 DEF DemoInv, Checking
<1> QED
  BY <1>4, <1>5, <1>7 DEF DemoInv

(* The other steps of a check. *)
LEMMA ListDemo ==
  ASSUME DemoInv, NEW c \in {"demo", "cron"}, D!List(c) \/ D!Checked(c),
         UNCHANGED <<step, run, disk, summary>>
  PROVE  DemoInv'
<1>1. /\ disk \in [D!Files -> Contents] /\ file_baselines \in [D!Files -> Contents]
      /\ pending \in [{"demo", "cron"} ->
           SUBSET [path : D!Files, type : {"CREATED", "DELETED", "MODIFIED"}, digest : Contents]]
      /\ checks \in [{"demo", "cron"} -> [at : {"idle", "compared", "listed"}, n : Nat]]
  BY DEF DemoInv, DemoTypes
<1>2. UNCHANGED <<file_baselines, watched, found, lost>> /\ pending[c] = {}
  BY DEF D!List, D!Checked
<1>3. DemoTypes'
  <2>1. CASE D!List(c)
    <3>0. PICK refused \in D!Refusals :
            /\ checks' = [checks EXCEPT ![c].at = "listed"]
            /\ pending' = [pending EXCEPT ![c] =
                 {[path |-> f, digest |-> D!Digest(f, refused), type |-> "CREATED"] : f \in
                    {f \in D!Files : watched /\ disk[f] # None /\ file_baselines[f] = None}}]
      BY <2>1 DEF D!List
    <3>1. \A f \in D!Files :
            [path |-> f, digest |-> D!Digest(f, refused), type |-> "CREATED"] \in
              [path : D!Files, type : {"CREATED", "DELETED", "MODIFIED"}, digest : Contents]
      BY <1>1 DEF D!Digest, Contents
    <3> DEFINE Additions == {[path |-> f, digest |-> D!Digest(f, refused), type |-> "CREATED"] :
                         f \in {f \in D!Files : watched /\ disk[f] # None /\ file_baselines[f] = None}}
    <3>2. Additions \in SUBSET [path : D!Files, type : {"CREATED", "DELETED", "MODIFIED"}, digest : Contents]
      BY <3>1
    <3>3. pending' = [pending EXCEPT ![c] = Additions]
      BY <3>0
    <3> HIDE DEF Additions
    <3>4. pending' \in [{"demo", "cron"} ->
            SUBSET [path : D!Files, type : {"CREATED", "DELETED", "MODIFIED"}, digest : Contents]]
      BY <1>1, <3>2, <3>3
    <3>5. checks' \in [{"demo", "cron"} -> [at : {"idle", "compared", "listed"}, n : Nat]]
      BY <1>1, <3>0
    <3> QED
      BY <1>1, <1>2, <3>4, <3>5 DEF DemoTypes
  <2>2. CASE D!Checked(c)
    <3>1. checks' \in [{"demo", "cron"} -> [at : {"idle", "compared", "listed"}, n : Nat]]
      BY <1>1, <2>2 DEF D!Checked
    <3> QED
      BY <1>1, <1>2, <2>2, <3>1 DEF DemoTypes, D!Checked
  <2> QED
    BY <2>1, <2>2
<1>4. Prepared' /\ Baselined' /\ Ended'
  BY <1>2 DEF DemoInv, Prepared, Baselined, Ended, Damage, Settled
<1>5. Checking'
  <2> SUFFICES ASSUME step = "checking"
               PROVE  /\ \/ Settled(Kept, "MODIFIED")'
                         \/ checks'["demo"].at = "compared" /\ Waits(Kept, "MODIFIED")'
                      /\ \/ Settled(Planted, "CREATED")'
                         \/ checks'["demo"].at = "compared"
                         \/ checks'["demo"].at = "listed" /\ Waits(Planted, "CREATED")'
    BY DEF Checking
  <2>0. \A f, t : Settled(f, t)' <=> Settled(f, t)
    BY <1>2, SameTold
  <2>1. /\ \/ Settled(Kept, "MODIFIED")
           \/ checks["demo"].at = "compared" /\ Waits(Kept, "MODIFIED")
        /\ \/ Settled(Planted, "CREATED")
           \/ checks["demo"].at = "compared"
           \/ checks["demo"].at = "listed" /\ Waits(Planted, "CREATED")
    BY DEF DemoInv, Checking
  <2>2. CASE c = "cron"
    <3>1. pending'["demo"] = pending["demo"] /\ checks'["demo"].at = checks["demo"].at
      BY <1>1, <2>2 DEF D!List, D!Checked
    <3> QED
      BY <2>0, <2>1, <3>1 DEF Waits
  <2>3. CASE c = "demo"
    <3>1. \A f, t : ~Waits(f, t)
      BY <1>2, <2>3 DEF Waits
    <3>2. Settled(Kept, "MODIFIED")'
      BY <2>0, <2>1, <3>1
    <3>3. CASE D!List(c)
      <4>1. checks'["demo"].at = "listed"
        BY <1>1, <2>3, <3>3 DEF D!List
      <4>2. CASE file_baselines[Planted] = None
        <5>1. watched /\ disk[Planted] = "planted" /\ "planted" # None /\ Planted \in D!Files
          BY DemoAssumption DEF DemoInv, Baselined, Prepared, D!DemoAssumption, Planted, D!Files
        <5>2. PICK refused \in D!Refusals : pending'["demo"] =
                {[path |-> f, digest |-> D!Digest(f, refused), type |-> "CREATED"] :
                f \in {f \in D!Files : watched /\ disk[f] # None /\ file_baselines[f] = None}}
          BY <1>1, <2>3, <3>3 DEF D!List
        <5>3. [path |-> Planted, digest |-> D!Digest(Planted, refused), type |-> "CREATED"]
                \in pending'["demo"]
          BY <4>2, <5>1, <5>2
        <5>4. Waits(Planted, "CREATED")'
          BY <5>3 DEF Waits
        <5> QED
          BY <3>2, <4>1, <5>4
      <4>3. CASE file_baselines[Planted] # None
        <5>1. Settled(Planted, "CREATED")
          BY <4>3 DEF DemoInv, Baselined
        <5> QED
          BY <2>0, <3>2, <5>1
      <4> QED
        BY <4>2, <4>3
    <3>4. CASE D!Checked(c)
      <4>1. checks["demo"].at = "listed"
        BY <2>3, <3>4 DEF D!Checked
      <4>2. Settled(Planted, "CREATED")
        BY <2>1, <3>1, <4>1
      <4> QED
        BY <2>0, <3>2, <4>2
    <3> QED
      BY <3>3, <3>4
  <2> QED
    BY <2>2, <2>3
<1> QED
  BY <1>3, <1>4, <1>5 DEF DemoInv

LEMMA ProceedDemo ==
  ASSUME DemoInv, NEW c \in {"demo", "cron"}, D!Proceed(c), UNCHANGED <<step, run, disk, summary>>
  PROVE  DemoInv'
  BY PersistDemo, FailDemo, ListDemo DEF D!Proceed

(* A check of c compares. *)
LEMMA CompareDemo ==
  ASSUME DemoInv, NEW c \in {"demo", "cron"}, D!Compare(c), UNCHANGED <<run, disk, summary>>,
         \/ c = "cron" /\ UNCHANGED step
         \/ c = "demo" /\ step = "check" /\ step' = "checking"
  PROVE  DemoInv'
<1>1. /\ disk \in [D!Files -> Contents] /\ file_baselines \in [D!Files -> Contents]
      /\ pending \in [{"demo", "cron"} ->
           SUBSET [path : D!Files, type : {"CREATED", "DELETED", "MODIFIED"}, digest : Contents]]
      /\ checks \in [{"demo", "cron"} -> [at : {"idle", "compared", "listed"}, n : Nat]]
  BY DEF DemoInv, DemoTypes
<1>p. PICK refused \in D!Refusals :
        /\ pending' = [pending EXCEPT ![c] =
             {[path |-> f, digest |-> None,
               type |-> IF D!Digest(f, refused) = None THEN "DELETED" ELSE "MODIFIED"] :
                f \in {f \in D!Files : file_baselines[f] \notin {None, D!Digest(f, refused)}}}]
        /\ checks' = [checks EXCEPT ![c] = [at |-> "compared", n |-> @.n + 1]]
        /\ D!Refused(c, refused)
        /\ UNCHANGED <<file_baselines, watched, found>>
  BY DEF D!Compare
<1> DEFINE Event(f) == [path |-> f, digest |-> None,
                        type |-> IF D!Digest(f, refused) = None THEN "DELETED" ELSE "MODIFIED"]
           Additions == {Event(f) : f \in
                          {f \in D!Files : file_baselines[f] \notin {None, D!Digest(f, refused)}}}
<1>2. /\ pending' = [pending EXCEPT ![c] = Additions] /\ UNCHANGED <<file_baselines, watched, found>>
      /\ checks' = [checks EXCEPT ![c] = [at |-> "compared", n |-> @.n + 1]]
      /\ lost' = IF c = "demo" THEN lost \cup {<<f, "MODIFIED">> : f \in refused} ELSE lost
  BY <1>p DEF D!Refused
<1>s. \A f, t : Settled(f, t) => Settled(f, t)'
  BY <1>2, MoreTold
<1>3. Additions \in SUBSET [path : D!Files, type : {"CREATED", "DELETED", "MODIFIED"}, digest : Contents]
  BY DEF Contents
<1>4. /\ Event(Kept).path = Kept
      /\ Kept \notin refused /\ disk[Kept] # None => Event(Kept).type = "MODIFIED"
  BY DEF D!Digest
<1>5. Kept \notin refused /\ file_baselines[Kept] \notin {None, disk[Kept]} => Event(Kept) \in Additions
  BY DEF Kept, D!Files, D!Digest
<1> HIDE DEF Additions, Event
<1>6. DemoTypes'
  <2>1. pending' \in [{"demo", "cron"} ->
          SUBSET [path : D!Files, type : {"CREATED", "DELETED", "MODIFIED"}, digest : Contents]]
    BY <1>1, <1>2, <1>3
  <2>2. checks' \in [{"demo", "cron"} -> [at : {"idle", "compared", "listed"}, n : Nat]]
    BY <1>1, <1>2
  <2> QED
    BY <1>1, <1>2, <2>1, <2>2 DEF DemoTypes
<1>7. Prepared' /\ Baselined' /\ Ended'
  BY <1>2, <1>s DEF DemoInv, Prepared, Baselined, Ended, Damage
<1>8. Checking'
  <2>1. CASE c = "cron" /\ UNCHANGED step
    <3>1. pending'["demo"] = pending["demo"] /\ checks'["demo"].at = checks["demo"].at
      BY <1>1, <1>2, <2>1
    <3> QED
      BY <1>s, <2>1, <3>1 DEF DemoInv, Checking, Waits
  <2>2. CASE c = "demo" /\ step = "check" /\ step' = "checking"
    <3>1. checks'["demo"].at = "compared" /\ pending'["demo"] = Additions
      BY <1>1, <1>2, <2>2
    <3>2. /\ file_baselines[Kept] = "original" \/ Settled(Kept, "MODIFIED")
          /\ disk[Kept] = "tampered"
      BY <2>2 DEF DemoInv, Baselined, Prepared
    <3>3. "original" # None /\ "tampered" # None
      BY DemoAssumption DEF D!DemoAssumption
    <3>4. CASE Settled(Kept, "MODIFIED")
      BY <1>s, <3>1, <3>4 DEF Checking
    <3>5. CASE Kept \in refused
      <4>1. Settled(Kept, "MODIFIED")'
        BY <1>2, <2>2, <3>5 DEF Settled
      <4> QED
        BY <3>1, <4>1 DEF Checking
    <3>6. CASE Kept \notin refused /\ file_baselines[Kept] = "original"
      <4>1. /\ Event(Kept) \in pending'["demo"] /\ Event(Kept).path = Kept
            /\ Event(Kept).type = "MODIFIED"
        BY <1>4, <1>5, <3>1, <3>2, <3>3, <3>6
      <4>2. Waits(Kept, "MODIFIED")'
        BY <4>1 DEF Waits
      <4> QED
        BY <3>1, <4>2 DEF Checking
    <3> QED
      BY <3>2, <3>4, <3>5, <3>6
  <2> QED
    BY <2>1, <2>2
<1> QED
  BY <1>6, <1>7, <1>8 DEF DemoInv

(* The steps of run_demo, those of its check excepted. *)
LEMMA RunDemo ==
  ASSUME DemoInv,
         \/ D!Begin \/ D!Import \/ (\E f \in D!Files : D!Unlink(f)) \/ D!Copy \/ D!Forget
         \/ D!Baseline \/ D!Count \/ D!Tamper \/ D!Plant
  PROVE  DemoInv'
<1> USE DEF D!Goto, D!scratch, D!fim, D!Files, Kept, Planted
<1>t. /\ disk \in [D!Files -> Contents] /\ file_baselines \in [D!Files -> Contents]
  BY DEF DemoInv, DemoTypes
<1>n. "original" # None /\ "tampered" # None /\ "planted" # None
  BY DemoAssumption DEF D!DemoAssumption
<1>1. CASE D!Begin
  BY <1>1 DEF D!Begin, DemoInv, DemoTypes, Prepared, Baselined, Checking, Ended
<1>2. CASE D!Import
  BY <1>2 DEF D!Import, DemoInv, DemoTypes, Prepared, Baselined, Checking, Ended
<1>3. ASSUME NEW f \in D!Files, D!Unlink(f) PROVE DemoInv'
  <2>1. disk' \in [D!Files -> Contents]
    BY <1>3, <1>t DEF D!Unlink, Contents
  <2> QED
    BY <1>3, <2>1 DEF D!Unlink, DemoInv, DemoTypes, Prepared, Baselined, Checking, Ended
<1>4. CASE D!Copy
  <2>1. /\ disk' \in [D!Files -> Contents] /\ disk'[Kept] = "original" /\ disk'[Planted] = None
        /\ step' = "forget" /\ UNCHANGED <<file_baselines, pending, checks>>
    BY <1>4, <1>t DEF D!Copy, Contents
  <2> QED
    BY <2>1 DEF DemoInv, DemoTypes, Prepared, Baselined, Checking, Ended
<1>5. CASE D!Forget
  <2>1. /\ file_baselines' \in [D!Files -> Contents] /\ file_baselines'[Planted] = None
        /\ step = "forget" /\ step' = "baseline" /\ UNCHANGED <<disk, pending, checks>>
    BY <1>5 DEF D!Forget, Contents
  <2> QED
    BY <2>1 DEF DemoInv, DemoTypes, Prepared, Baselined, Checking, Ended
<1>6. CASE D!Baseline
  <2>1. /\ step = "baseline" /\ step' = "count" /\ watched'
        /\ UNCHANGED <<disk, pending, checks, found, run>>
    BY <1>6 DEF D!Baseline
  <2>r. PICK refused \in D!Refusals :
          /\ file_baselines' = [f \in D!Files |-> IF D!Digest(f, refused) = None
                                                   THEN file_baselines[f] ELSE disk[f]]
          /\ D!Refused("demo", refused)
    BY <1>6 DEF D!Baseline
  <2>l. lost' = lost \cup {<<f, "MODIFIED">> : f \in refused}
    BY <2>r DEF D!Refused
  <2>2. /\ disk[Kept] = "original" /\ disk[Planted] = None
        /\ file_baselines[Planted] = None \/ Settled(Planted, "CREATED")
    BY <2>1 DEF DemoInv, Prepared, Baselined
  <2>3. /\ file_baselines' \in [D!Files -> Contents]
        /\ Kept \notin refused => file_baselines'[Kept] = "original"
        /\ file_baselines'[Planted] = file_baselines[Planted]
    BY <1>n, <1>t, <2>r, <2>2 DEF D!Digest
  <2>4. Settled(Planted, "CREATED") => Settled(Planted, "CREATED")'
    BY <2>1, <2>l, MoreTold
  <2>5. Kept \in refused => Settled(Kept, "MODIFIED")'
    BY <2>l DEF Settled
  <2> QED
    BY <2>1, <2>2, <2>3, <2>4, <2>5 DEF DemoInv, DemoTypes, Prepared, Baselined, Checking, Ended
<1>7. CASE D!Count
  <2>1. UNCHANGED <<run, disk, file_baselines, watched, found, lost, pending, checks>>
        /\ step = "count" /\ step' = "tamper"
    BY <1>7 DEF D!Count
  <2>2. \A f, t : Settled(f, t)' <=> Settled(f, t)
    BY <2>1, SameTold
  <2> QED
    BY <2>1, <2>2 DEF DemoInv, DemoTypes, Prepared, Baselined, Checking, Ended
<1>8. CASE D!Tamper
  <2>1. /\ UNCHANGED <<run, file_baselines, watched, found, lost, pending, checks>>
        /\ step = "tamper" /\ step' = "plant"
        /\ disk' \in [D!Files -> Contents] /\ disk'[Kept] = "tampered"
    BY <1>8, <1>t DEF D!Tamper, Contents
  <2>2. \A f, t : Settled(f, t)' <=> Settled(f, t)
    BY <2>1, SameTold
  <2> QED
    BY <2>1, <2>2 DEF DemoInv, DemoTypes, Prepared, Baselined, Checking, Ended
<1>9. CASE D!Plant
  <2>0. step = "plant" /\ disk[Kept] = "tampered"
    BY <1>9 DEF D!Plant, DemoInv, Prepared
  <2>1. /\ UNCHANGED <<run, file_baselines, watched, found, lost, pending, checks>>
        /\ step' = "check" /\ disk' \in [D!Files -> Contents]
        /\ disk'[Kept] = "tampered" /\ disk'[Planted] = "planted"
    BY <1>9, <1>t, <2>0 DEF D!Plant, Contents
  <2>2. \A f, t : Settled(f, t)' <=> Settled(f, t)
    BY <2>1, SameTold
  <2> QED
    BY <2>0, <2>1, <2>2 DEF DemoInv, DemoTypes, Prepared, Baselined, Checking, Ended
<1> QED
  BY <1>1, <1>2, <1>3, <1>4, <1>5, <1>6, <1>7, <1>8, <1>9

LEMMA EndDemo ==
  ASSUME DemoInv, D!CountAgain \/ D!Sweep \/ D!NoSweep \/ D!Insert \/ D!Report \/ D!Kill
  PROVE  DemoInv'
<1> USE DEF D!Goto, D!scratch, D!fim
<1>1. CASE D!CountAgain
  <2>1. /\ UNCHANGED <<run, disk, file_baselines, watched, found, lost, pending, checks>>
        /\ step = "checking" /\ step' = "listed" /\ checks["demo"].at = "idle"
    BY <1>1 DEF D!CountAgain
  <2>2. Damage
    BY <2>1 DEF DemoInv, Checking, Damage
  <2>3. Damage'
    BY <2>1, <2>2 DEF Damage, Settled
  <2> QED
    BY <2>1, <2>3 DEF DemoInv, DemoTypes, Prepared, Baselined, Checking, Ended
<1>2. CASE D!Sweep \/ D!NoSweep \/ D!Insert \/ D!Report
  <2>1. /\ UNCHANGED <<run, disk, file_baselines, watched, found, lost, pending, checks>>
        /\ step \in {"listed", "insert", "report"} /\ step' \in {"insert", "report", "done"}
    BY <1>2 DEF D!Sweep, D!NoSweep, D!Insert, D!Report
  <2>2. Damage
    BY <2>1 DEF DemoInv, Ended
  <2>3. Damage'
    BY <2>1, <2>2 DEF Damage, Settled
  <2> QED
    BY <2>1, <2>3 DEF DemoInv, DemoTypes, Prepared, Baselined, Checking, Ended
<1>3. CASE D!Kill
  <2>1. /\ UNCHANGED <<disk, file_baselines>> /\ step' = "killed"
        /\ pending' = [pending EXCEPT !["demo"] = {}]
        /\ checks' = [checks EXCEPT !["demo"].at = "idle"]
    BY <1>3 DEF D!Kill
  <2>2. DemoTypes'
    BY <2>1 DEF DemoInv, DemoTypes
  <2> QED
    BY <2>1, <2>2 DEF DemoInv, Prepared, Baselined, Checking, Ended
<1> QED
  BY <1>1, <1>2, <1>3

LEMMA NextDemo == DemoInv /\ D!Next => DemoInv'
<1> SUFFICES ASSUME DemoInv, D!Next PROVE DemoInv'
  OBVIOUS
<1>1. CASE D!Check
  <2>1. UNCHANGED <<run, disk, summary>>
    BY <1>1 DEF D!Check
  <2>2. CASE D!Goto("check", "checking") /\ D!Compare("demo")
    BY <2>1, <2>2, CompareDemo DEF D!Goto
  <2>3. CASE D!Goto("checking", "checking") /\ D!Proceed("demo")
    <3>1. UNCHANGED step
      BY <2>3 DEF D!Goto
    <3> QED
      BY <2>1, <2>3, <3>1, ProceedDemo
  <2> QED
    BY <1>1, <2>2, <2>3 DEF D!Check
<1>2. CASE D!OtherCheck
  <2>1. UNCHANGED <<step, run, disk, summary>>
    BY <1>2 DEF D!OtherCheck
  <2>2. D!Compare("cron") \/ D!Proceed("cron")
    BY <1>2 DEF D!OtherCheck
  <2> QED
    BY <2>1, <2>2, CompareDemo, ProceedDemo
<1>3. CASE D!Correlator \/ D!Tick
  BY <1>3, Elsewhere DEF D!Correlator, D!Tick, D!scratch, D!fim
<1> QED
  BY <1>1, <1>2, <1>3, RunDemo, EndDemo DEF D!Next

(* The damage a run does is found: whatever other checks did meanwhile or  *)
(* failed to do, and whatever killed runs before it left behind, a run     *)
(* that ends has the change of the one file and the other, new one among   *)
(* the events of the integrity monitor, but for those its own baselining   *)
(* and check could not read or store (demo/attack_chain.py).               *)
THEOREM DamageIsTold == MCSpec => []D!DamageIsFound
<1>1. MCInit => DemoInv
  BY InitDemo DEF MCInit
<1>2. DemoInv /\ [MCNext]_<<part, vars, demo>> => DemoInv'
  <2> SUFFICES ASSUME DemoInv, [MCNext]_<<part, vars, demo>> PROVE DemoInv'
    OBVIOUS
  <2>1. CASE UNCHANGED demo
    BY <2>1, Elsewhere DEF demo
  <2>2. UNCHANGED demo \/ D!Next
    BY DEF MCNext, Correlated, Shown
  <2> QED
    BY <2>1, <2>2, NextDemo
<1>3. DemoInv => D!DamageIsFound
  BY DEF DemoInv, Ended, Damage, Settled, Kept, Planted, D!DamageIsFound, D!Damage
<1> QED
  BY <1>1, <1>2, <1>3, PTL DEF MCSpec
=============================================================================
