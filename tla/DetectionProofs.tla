--------------------------- MODULE DetectionProofs --------------------------
(***************************************************************************)
(* Proofs about the detection package, for every value of its constants:   *)
(* scores, for incidents of any size; the cached load of a watchlist; the  *)
(* way of an event through its audit row; the replay of files of any       *)
(* records; and the verdicts on URLs.                                      *)
(***************************************************************************)
EXTENDS MCDetection, FiniteSetTheorems, WellFoundedInduction, TLAPS

(* The context adds from 0 to 15. *)
LEMMA AmplifierBounds ==
  ASSUME NEW c \in Contexts
  PROVE  ContextAmplifier(c) \in 0 .. 15
<1>1. c.ports \in Nat /\ c.macs \in Nat
  BY CountsAssumption DEF Contexts
<1>2. c.ports \div 10 \in Nat
  BY <1>1
<1>3. Capped(c.ports \div 10, 10) \in 0 .. 10
  BY <1>2 DEF Capped
<1>4. Bonus(c.macs > 2, 5) \in 0 .. 5 /\ Bonus(c.exceeded, 10) \in 0 .. 10
  BY DEF Bonus
<1> QED
  BY <1>3, <1>4 DEF ContextAmplifier, Capped

(* No event's components exceed 100: what any event scores is their sum.   *)
LEMMA ExplainedBounds ==
  ASSUME NEW e \in Events
  PROVE  /\ Explained(e) \in 0 .. 100
         /\ risk_score(e) = Explained(e)
<1>1. SEVERITY_BASE[e.severity] \in 0 .. 75
  BY DEF SEVERITY_BASE, Severities, Events
<1>2. Bonus(e.name \in Attack, 5) \in 0 .. 5 /\ Bonus(e.name \in HighImpact, 5) \in 0 .. 5
  BY DEF Bonus
<1>3. ContextAmplifier(e.context) \in 0 .. 15
  BY AmplifierBounds DEF Events
<1>4. Explained(e) \in 0 .. 100
  BY <1>1, <1>2, <1>3 DEF Explained
<1> QED
  BY <1>4 DEF risk_score, Capped

(* What an incident scores: bounded, no less than its worst event, and     *)
(* monotone in all three arguments.                                        *)
LEMMA IncidentBounds ==
  ASSUME NEW w \in 0 .. 100, NEW n \in Nat, n >= 1, NEW c \in 1 .. n
  PROVE  incident_score(w, n, c) \in 0 .. 100 /\ w <= incident_score(w, n, c)
  BY DEF incident_score, Capped

LEMMA IncidentMonotone ==
  ASSUME NEW w \in 0 .. 100, NEW n \in Nat, n >= 1, NEW c \in 1 .. n,
         NEW v \in 0 .. 100, v >= w, NEW d \in {0, 1}
  PROVE  incident_score(w, n, c) <= incident_score(v, n + 1, c + d)
<1>1. CASE d = 0
  BY <1>1 DEF incident_score, Capped
<1>2. CASE d = 1
  BY <1>2 DEF incident_score, Capped
<1> QED
  BY <1>1, <1>2

-----------------------------------------------------------------------------
(* The inductive invariant: the score is that of the events there are. *)
IInv ==
  /\ TypeOK
  /\ risk_score(event) <= top
  /\ score = incident_score(top, size, spread)

LEMMA InitIInv == Init => IInv
<1> SUFFICES ASSUME NEW e \in Events, First(e)
             PROVE  IInv
  BY DEF Init
<1>1. risk_score(e) \in 0 .. 100
  BY ExplainedBounds
<1>2. incident_score(risk_score(e), 1, 1) \in 0 .. 100
  BY <1>1 DEF incident_score, Capped
<1> QED
  BY <1>1, <1>2 DEF First, IInv, TypeOK

LEMMA JoinIInv ==
  ASSUME IInv, NEW e \in Events, NEW new \in {0, 1}, Join(e, new)
  PROVE  IInv' /\ score <= score'
<1>1. risk_score(e) \in 0 .. 100 /\ top \in 0 .. 100 /\ size \in Nat /\ size >= 1 /\ spread \in 1 .. size
  BY ExplainedBounds DEF IInv, TypeOK
<1>2. /\ top' \in 0 .. 100 /\ top' >= top /\ risk_score(e) <= top'
      /\ event' = e /\ size' = size + 1 /\ spread' = spread + new
      /\ score' = incident_score(top', size', spread')
  BY <1>1 DEF Join
<1>3. size' \in Nat /\ size' >= 1 /\ spread' \in 1 .. size'
  BY <1>1, <1>2
<1>4. score' \in 0 .. 100
  BY <1>2, <1>3, IncidentBounds
<1>5. IInv'
  BY <1>2, <1>3, <1>4 DEF IInv, TypeOK, risk_score, Explained, ContextAmplifier
<1>6. score <= score'
  BY <1>1, <1>2, IncidentMonotone DEF IInv
<1> QED
  BY <1>5, <1>6

LEMMA NextIInv == IInv /\ [Next]_vars => IInv'
<1> SUFFICES ASSUME IInv, [Next]_vars
             PROVE  IInv'
  OBVIOUS
<1>1. CASE Next
  BY <1>1, JoinIInv DEF Next
<1>2. CASE UNCHANGED vars
  BY <1>2 DEF vars, IInv, TypeOK
<1> QED
  BY <1>1, <1>2

LEMMA Invariance == Spec => []IInv
  BY InitIInv, NextIInv, PTL DEF Spec

(* Scores are from 0 to 100, whatever an incident collects. *)
THEOREM TypeCorrect == Spec => []TypeOK
<1>1. IInv => TypeOK
  BY DEF IInv
<1> QED
  BY <1>1, Invariance, PTL

(* The total explain() shows is the sum of its components. *)
THEOREM TotalsAddUp == Spec => []ComponentsAddUp
<1>1. IInv => ComponentsAddUp
  BY ExplainedBounds DEF IInv, TypeOK, ComponentsAddUp
<1> QED
  BY <1>1, Invariance, PTL

(* An incident scores no less than any of its events. *)
THEOREM WorstBoundsScore == Spec => []AtLeastTheWorst
<1>1. ASSUME IInv PROVE AtLeastTheWorst
  <2>1. top \in 0 .. 100 /\ size \in Nat /\ size >= 1 /\ spread \in 1 .. size
    BY <1>1 DEF IInv, TypeOK
  <2>2. top <= score /\ score \in 0 .. 100
    BY <1>1, <2>1, IncidentBounds DEF IInv
  <2>3. risk_score(event) <= top /\ risk_score(event) \in 0 .. 100
    BY <1>1, ExplainedBounds DEF IInv, TypeOK
  <2> QED
    BY <2>1, <2>2, <2>3 DEF AtLeastTheWorst
<1> QED
  BY <1>1, Invariance, PTL

(* An event never lowers the score of the incident it joins. *)
THEOREM ScoreNeverLowered == Spec => NeverLowered
<1>1. ASSUME IInv, [Next]_vars PROVE [score <= score']_vars
  BY <1>1, JoinIInv DEF Next
<1> QED
  BY <1>1, Invariance, PTL DEF Spec, NeverLowered

(* The three together: corroborating events only raise an incident, and    *)
(* none of them hides another (CorroborationRaises of Scoring).            *)
THEOREM Corroboration == Spec => CorroborationRaises
BY TypeCorrect, WorstBoundsScore, ScoreNeverLowered, PTL DEF CorroborationRaises

-----------------------------------------------------------------------------
(* The watchlist and its cache (module ThreatIntel). *)

(* What is cached under the file's mtime is what the file says. *)
CacheCurrent ==
  ~hasty /\ cache # None /\ file # None /\ cache.mtime = file.mtime => cache.lines = file.lines
IntelInv == T!TypeOK /\ CacheCurrent /\ T!ReloadedUnlessHasty

LEMMA InitIntel == T!Init => IntelInv
<1> SUFFICES ASSUME T!Init PROVE IntelInv
  OBVIOUS
<1>1. file \in T!Files \cup {None}
  BY DetectionAssumption DEF T!Init, T!Files, T!Contents, T!Times, T!IntelAssumption
<1>2. 0 \in T!Times
  BY DetectionAssumption DEF T!Times, T!IntelAssumption
<1>3. T!TypeOK
  BY <1>1, <1>2 DEF T!Init, T!TypeOK
<1>4. CacheCurrent /\ T!ReloadedUnlessHasty
  BY DEF T!Init, CacheCurrent, T!ReloadedUnlessHasty
<1> QED
  BY <1>3, <1>4 DEF IntelInv

(* The file changes. *)
LEMMA BecomesIntel ==
  ASSUME IntelInv, NEW f \in T!Files \cup {None}, T!Becomes(f)
  PROVE  IntelInv'
<1>1. T!TypeOK'
  BY DEF IntelInv, T!TypeOK, T!Becomes
<1>2. ~hasty' /\ cache' # None /\ f # None => cache'.mtime # f.mtime
  BY DEF T!Becomes, T!Looked
<1> QED
  BY <1>1, <1>2 DEF IntelInv, CacheCurrent, T!ReloadedUnlessHasty, T!Becomes

LEMMA NextIntel == IntelInv /\ T!Next => IntelInv'
<1> SUFFICES ASSUME IntelInv, T!Next PROVE IntelInv'
  OBVIOUS
<1> USE DetectionAssumption DEF T!IntelAssumption, T!NoneAssumption
<1>1. CASE T!Tick
  BY <1>1 DEF T!Tick, IntelInv, T!TypeOK, T!Times, CacheCurrent, T!ReloadedUnlessHasty
<1>2. CASE T!Truncate \/ T!Remove
  <2>1. [mtime |-> ticks, lines |-> Empty] \in T!Files
    BY DEF IntelInv, T!TypeOK, T!Files, T!Contents
  <2> QED
    BY <1>2, <2>1, BecomesIntel DEF T!Truncate, T!Remove
<1>3. ASSUME NEW list \in Lists, T!Write(list) PROVE IntelInv'
  <2>1. [mtime |-> ticks, lines |-> list] \in T!Files
    BY DEF IntelInv, T!TypeOK, T!Files, T!Contents
  <2> QED
    BY <1>3, <2>1, BecomesIntel DEF T!Write
<1>4. ASSUME NEW list \in Lists, NEW t \in T!Times, T!Replace(list, t) PROVE IntelInv'
  <2>1. [mtime |-> t, lines |-> list] \in T!Files
    BY DEF T!Files, T!Contents
  <2> QED
    BY <1>4, <2>1, BecomesIntel DEF T!Replace
<1>5. CASE T!Load
  BY <1>5 DEF T!Load, IntelInv, T!TypeOK, CacheCurrent, T!ReloadedUnlessHasty
<1>6. CASE T!StatFails
  BY <1>6 DEF T!StatFails, T!Return, IntelInv, T!TypeOK, T!Contents, CacheCurrent,
     T!ReloadedUnlessHasty
<1>7. CASE T!StatHit
  BY <1>7 DEF T!StatHit, T!Return, T!Current, IntelInv, T!TypeOK, T!Files, CacheCurrent,
     T!ReloadedUnlessHasty
<1>8. CASE T!StatMiss
  BY <1>8 DEF T!StatMiss, IntelInv, T!TypeOK, T!Files, CacheCurrent, T!ReloadedUnlessHasty
<1>9. CASE T!Read
  <2>1. cache' \in T!Files /\ lines' = file.lines /\ lines' \in T!Contents
    BY <1>9 DEF T!Read, T!Return, IntelInv, T!TypeOK, T!Files
  <2> QED
    BY <1>9, <2>1 DEF T!Read, T!Return, IntelInv, T!TypeOK, CacheCurrent, T!ReloadedUnlessHasty
<1>10. CASE T!ReadFails
  BY <1>10 DEF T!ReadFails, T!Return, IntelInv, T!TypeOK, T!Contents, CacheCurrent,
     T!ReloadedUnlessHasty
<1> QED
  BY <1>1, <1>2, <1>3, <1>4, <1>5, <1>6, <1>7, <1>8, <1>9, <1>10 DEF T!Next

(* A load returns what the file says, whenever it is edited or replaced,   *)
(* unless an mtime came twice (load_watchlist of detection/intel.py).      *)
THEOREM LoadsAreCurrent == MCSpec => []ReloadedUnlessHasty
<1>1. MCInit => IntelInv
  BY InitIntel DEF MCInit
<1>2. ASSUME IntelInv, [MCNext]_<<part, vars, import, intel, phishing, normal>> PROVE IntelInv'
  <2>1. CASE UNCHANGED intel
    BY <1>2, <2>1 DEF intel, IntelInv, T!TypeOK, CacheCurrent, T!ReloadedUnlessHasty
  <2>2. UNCHANGED intel \/ T!Next
    BY <1>2 DEF MCNext, Scored, Imported, Loaded, Analysed, Normalised
  <2> QED
    BY <1>2, <2>1, <2>2, NextIntel
<1>3. IntelInv => ReloadedUnlessHasty
  BY DEF IntelInv, ReloadedUnlessHasty
<1> QED
  BY <1>1, <1>2, <1>3, PTL DEF MCSpec

-----------------------------------------------------------------------------
(* The rows that events become and what is found in them again (module     *)
(* Normalization).                                                         *)

(* What a row says of an event that was dispatched with context c. *)
LEMMA RowFields ==
  ASSUME NEW e, NEW c
  PROVE  /\ N!Row(e, c).module = N!Module(e) /\ N!Row(e, c).level = e.level
         /\ N!Row(e, c).context = c /\ N!Row(e, c).subject = e.entity
         /\ N!Row(e, c).detector = (IF e.category = "network" THEN e.name ELSE None)
         /\ N!Row(e, c).says =
              N!Phrases(e) \cup (IF N!Module(e) = "network_sensor" THEN {} ELSE Says[e.entity])
         /\ N!Row(e, c).type = e.name
  BY DEF N!Row

LEMMA EventFields ==
  ASSUME NEW category, NEW name, NEW level, NEW reason, NEW entity, NEW source
  PROVE  LET e == N!Event(category, name, level, reason, entity, source) IN
         /\ e.category = category /\ e.name = name /\ e.level = level
         /\ e.reason = reason /\ e.entity = entity /\ e.source = source
  BY DEF N!Event

(* In every row r the event e has its category, and with its context all   *)
(* that the normalizer gives the event itself but, it may be, its name.    *)
Told(e, r) ==
  LET n == N!from_audit_row(r)
      m == N!FromEvent(e)
  IN  /\ n.category = m.category
      /\ r.context # N!NoContext => [n EXCEPT !.name = m.name] = m
Whole(e, r) == N!from_audit_row(r).entity = e.entity
Named(e, r) == N!Seen(N!from_audit_row(r)).name = N!Seen(N!FromEvent(e)).name
FileNamed(e, r) == N!from_audit_row(r).name = N!FIM[e.name]

LEMMA ReadAlike ==
  ASSUME NEW e, NEW r, NEW category, NEW name, NEW name2, NEW entity, NEW entity2, NEW level,
         NEW source, NEW s, NEW f,
         N!from_audit_row(r) = N!Normalized(category, name2, entity2, level, s, f),
         N!FromEvent(e) = N!Normalized(category, name, entity, level, source, host),
         r.context # N!NoContext => s = source /\ f = host /\ entity2 = entity
  PROVE  /\ Told(e, r)
         /\ entity2 = e.entity => Whole(e, r)
         /\ (\A x \in N!ByName : name2 = x <=> name = x) => Named(e, r)
<1> DEFINE n == N!Normalized(category, name2, entity2, level, s, f)
           m == N!Normalized(category, name, entity, level, source, host)
<1>1. n.category = m.category /\ n.entity = entity2 /\ m.name = name /\ n.name = name2
  BY DEF N!Normalized
<1>2. r.context # N!NoContext => [n EXCEPT !.name = m.name] = m
  BY DEF N!Normalized
<1>3. (\A x \in N!ByName : name2 = x <=> name = x) => N!Seen(n).name = N!Seen(m).name
  <2>1. N!Seen(n).name = IF name2 \in N!ByName THEN name2 ELSE "other"
    BY DEF N!Normalized, N!Seen
  <2>2. N!Seen(m).name = IF name \in N!ByName THEN name ELSE "other"
    BY DEF N!Normalized, N!Seen
  <2> QED
    BY <2>1, <2>2
<1> QED
  BY <1>1, <1>2, <1>3 DEF Told, Whole, Named

LEMMA NoFields ==
  /\ N!NoContext.reason = None /\ N!NoContext.detector = None /\ N!NoContext.source = None
  /\ N!NoContext.type = None /\ N!NoContext.path = None /\ N!NoContext.host = None
  BY DEF N!NoContext

(* A username with none of the sentences names no event; one without a     *)
(* quote is found whole.                                                   *)
LEMMA AuthIsTold ==
  ASSUME NEW k \in N!AuthKinds, NEW u \in Users, NEW s,
         NEW e, e = N!Event("auth", k[1], k[2], k[3], u, s),
         NEW c \in {N!Context(e), N!NoContext}, NEW r, r = N!Row(e, c)
  PROVE  /\ Told(e, r)
         /\ u \in OneWord => Whole(e, r)
         /\ Says[u] \cap N!Sentences = {} /\ (c # N!NoContext \/ k[1] # "RATE_LIMITED") =>
              Named(e, r)
<1> DEFINE named == /\ Says[u] \cap N!Sentences = {}
                    /\ c # N!NoContext \/ k[1] # "RATE_LIMITED"
<1>1. /\ e.category = "auth" /\ e.name = k[1] /\ e.level = k[2] /\ e.reason = k[3]
      /\ e.entity = u /\ e.source = s
  BY EventFields
<1>2. /\ k[1] \in {"AUTH_FAILURE", "RATE_LIMITED", "REPLAY_ATTACK", "AUTH_SUCCESS",
                   "CRYPTO_ERROR", "SYSTEM_ERROR", "USER_REVOKED", "ROLE_CHANGED"}
      /\ k[3] = "RATE_LIMITED" <=> k[1] = "RATE_LIMITED"
  BY DEF N!AuthKinds
<1>3. /\ r.module = "auth_core" /\ r.level = k[2] /\ r.context = c /\ r.subject = u
      /\ r.says = N!Phrases(e) \cup Says[u]
  BY <1>1, RowFields DEF N!Module
<1>4. /\ N!Row(e, N!Context(e)).subject = u
      /\ N!Row(e, N!Context(e)).says = N!Phrases(e) \cup Says[u]
  BY <1>1, RowFields DEF N!Module
<1>5. "user" \in N!Phrases(e) \/ "User" \in N!Phrases(e)
  BY <1>1, <1>2 DEF N!Phrases, N!Detectors
<1>6. N!User(r) = Quoted[u] /\ N!User(N!Row(e, N!Context(e))) = Quoted[u]
  BY <1>3, <1>4, <1>5 DEF N!User
<1>7. named =>
        /\ "authenticated successfully" \in r.says <=> k[1] = "AUTH_SUCCESS"
        /\ "Replay attack" \in r.says <=> k[1] = "REPLAY_ATTACK"
        /\ "Authentication failed" \in r.says <=> k[1] = "AUTH_FAILURE"
        /\ "Rate limited" \notin r.says
  BY <1>1, <1>2, <1>3 DEF N!Phrases, N!Detectors, N!Sentences
<1>8. /\ c # N!NoContext => c.reason = k[3] /\ c.source = s /\ c.host = host
      /\ c = N!NoContext \/ c.reason = k[3]
  BY <1>1 DEF N!Context, N!NoContext
<1>9. c = N!NoContext => c.reason = None /\ None # "RATE_LIMITED"
  BY DetectionAssumption DEF N!NoContext, N!NoneAssumption
<1>10. named => \A x \in N!ByName : N!AuthName(r) = x <=> k[1] = x
  BY <1>2, <1>3, <1>7, <1>8, <1>9 DEF N!AuthName, N!ByName
<1>11. N!from_audit_row(r) =
         N!Normalized("auth", N!AuthName(r), Quoted[u], k[2], r.context.source, r.context.host)
  BY <1>3, <1>6 DEF N!from_audit_row, N!_classify_audit_row, N!HostOf
<1>12. N!FromEvent(e) = N!Normalized("auth", k[1], Quoted[u], k[2], s, host)
  BY <1>1, <1>6 DEF N!FromEvent
<1>13. u \in OneWord => Quoted[u] = e.entity
  BY <1>1, DetectionAssumption DEF N!NormalizationAssumption
<1> HIDE DEF named
<1>15. Told(e, r) /\ (u \in OneWord => Whole(e, r)) /\ (named => Named(e, r))
  BY <1>3, <1>8, <1>10, <1>11, <1>12, <1>13, ReadAlike
<1> QED
  BY <1>15 DEF named

LEMMA NetworkIsTold ==
  ASSUME NEW d \in N!Detectors, NEW l, NEW s \in Sources,
         NEW e, e = N!Event("network", d, l, None, s, s),
         NEW c \in {N!Context(e), N!NoContext}, NEW r, r = N!Row(e, c)
  PROVE  Told(e, r) /\ (c # N!NoContext \/ Dotted[s] = s => Whole(e, r)) /\ Named(e, r)
<1>1. /\ e.category = "network" /\ e.name = d /\ e.level = l
      /\ e.entity = s /\ e.source = s
  BY EventFields
<1>2. /\ r.module = "network_sensor" /\ r.level = l /\ r.context = c
      /\ r.subject = s /\ r.detector = d
  BY <1>1, RowFields DEF N!Module
<1>3. /\ c # N!NoContext => c.detector = d /\ c.source = s /\ c.host = host
      /\ c = N!NoContext => c.detector = None /\ c.source = None
  <2>1. /\ N!Context(e).detector = d /\ N!Context(e).source = s /\ N!Context(e).host = host
    BY <1>1 DEF N!Context, N!NoContext
  <2> QED
    BY <2>1, NoFields
<1>4. d # None /\ s # None
  BY DetectionAssumption DEF N!NoneAssumption, N!NormalizationAssumption, N!Detectors
<1>5. N!Or(c.detector, N!Or(r.detector, "network_event")) = d
  BY <1>2, <1>3, <1>4 DEF N!Or
<1> DEFINE found == N!Or(c.source, Dotted[r.subject])
<1>6. (c # N!NoContext => found = s) /\ (Dotted[s] = s => found = s)
  BY <1>2, <1>3, <1>4 DEF N!Or
<1>7. N!from_audit_row(r) =
         N!Normalized("network", d, found, l, r.context.source, r.context.host)
  BY <1>2, <1>5 DEF N!from_audit_row, N!_classify_audit_row, N!HostOf
<1>8. N!FromEvent(e) = N!Normalized("network", d, s, l, s, host)
  BY <1>1 DEF N!FromEvent
<1> HIDE DEF found
<1> QED
  BY <1>1, <1>2, <1>3, <1>6, <1>7, <1>8, ReadAlike

(* The names of file events are no names the rules look for. *)
LEMMA FileIsTold ==
  ASSUME NEW t \in {"MODIFIED", "DELETED", "CREATED"}, NEW l, NEW p \in Paths,
         NEW e, e = N!Event("fim", t, l, None, p, None),
         NEW c \in {N!Context(e), N!NoContext}, NEW r, r = N!Row(e, c)
  PROVE  /\ Told(e, r) /\ (c # N!NoContext \/ p \in OneWord => Whole(e, r)) /\ Named(e, r)
         /\ c # N!NoContext \/ Says[p] \cap {"deleted", "new file created"} = {} =>
              FileNamed(e, r)
<1>1. e.category = "fim" /\ e.name = t /\ e.level = l /\ e.entity = p /\ e.source = None
  BY EventFields
<1>2. /\ r.module = "fim_monitor" /\ r.level = l /\ r.context = c /\ r.subject = p
      /\ r.says = N!Phrases(e) \cup Says[p] /\ r.type = t
  BY <1>1, RowFields DEF N!Module
<1>3. N!Phrases(e) =
        CASE t = "MODIFIED" -> {"integrity breach", " in "}
          [] t = "DELETED" -> {"deleted", "file "}
          [] t = "CREATED" -> {"new file created"} \cup N!Markers
  BY <1>1 DEF N!Phrases, N!Detectors
<1>4. /\ c # N!NoContext => c.type = t /\ c.path = p /\ c.host = host /\ c.source = None
      /\ c = N!NoContext => c.type = None
  <2>1. /\ N!Context(e).type = t /\ N!Context(e).path = p /\ N!Context(e).host = host
        /\ N!Context(e).source = None
    BY <1>1 DEF N!Context, N!NoContext
  <2> QED
    BY <2>1, NoFields
<1>5. t # None /\ p # None
  BY DetectionAssumption DEF N!NoneAssumption, N!NormalizationAssumption
<1>6. c # N!NoContext \/ p \in OneWord => N!FimEntity(r) = p
  <2>1. CASE c # N!NoContext
    BY <1>2, <1>4, <1>5, <2>1 DEF N!FimEntity
  <2>2. CASE c = N!NoContext /\ p \in OneWord
    <3>1. Word[p][t][N!Own[t]] = p /\ Says[p] \cap N!Markers = {}
      BY <2>2, DetectionAssumption DEF N!NormalizationAssumption, N!Own
    <3>2. r.context.type = None
      BY <1>2, <1>4, <2>2
    <3>3. CASE t = "MODIFIED"
      <4>1. N!Own[t] = " in "
        BY <3>3 DEF N!Own
      <4>2. "directory: " \notin r.says /\ "file " \notin r.says /\ " in " \in r.says
        BY <1>2, <1>3, <3>1, <3>3 DEF N!Markers
      <4> QED
        BY <1>2, <1>5, <3>1, <3>2, <4>1, <4>2 DEF N!FimEntity, N!After, N!Or
    <3>4. CASE t = "DELETED"
      <4>1. N!Own[t] = "file "
        BY <3>4 DEF N!Own
      <4>2. "directory: " \notin r.says /\ "file " \in r.says
        BY <1>2, <1>3, <3>1, <3>4 DEF N!Markers
      <4> QED
        BY <1>2, <1>5, <3>1, <3>2, <4>1, <4>2 DEF N!FimEntity, N!After, N!Or
    <3>5. CASE t = "CREATED"
      <4>1. N!Own[t] = "directory: "
        BY <3>5 DEF N!Own
      <4>2. "directory: " \in r.says
        BY <1>2, <1>3, <3>5 DEF N!Markers
      <4> QED
        BY <1>2, <1>5, <3>1, <3>2, <4>1, <4>2 DEF N!FimEntity, N!After, N!Or
    <3> QED
      BY <3>3, <3>4, <3>5
  <2> QED
    BY <2>1, <2>2
<1>7. N!FimName(r) \in {"FIM_MODIFIED", "FIM_DELETED", "FIM_CREATED"}
  <2>1. CASE c # N!NoContext
    <3>1. N!FimName(r) = N!FIM[t]
      BY <1>2, <1>4, <1>5, <2>1 DEF N!FimName
    <3> QED
      BY <3>1 DEF N!FIM
  <2>2. CASE c = N!NoContext
    BY <1>2, <1>3, <1>4, <2>2 DEF N!FimName
  <2> QED
    BY <2>1, <2>2
<1>8. c # N!NoContext \/ Says[p] \cap {"deleted", "new file created"} = {} =>
        N!FimName(r) = N!FIM[t]
  <2>1. CASE c # N!NoContext
    BY <1>2, <1>4, <1>5, <2>1 DEF N!FimName
  <2>2. CASE c = N!NoContext /\ Says[p] \cap {"deleted", "new file created"} = {}
    <3>1. r.says = N!Phrases(e) \cup Says[p] /\ r.context.type = None
      BY <1>2, <1>4, <2>2
    <3>2. CASE t = "MODIFIED"
      <4>1. N!FIM[t] = "FIM_MODIFIED"
        BY <3>2 DEF N!FIM
      <4>2. r.says = {"integrity breach", " in "} \cup Says[p]
        BY <1>3, <3>1, <3>2
      <4>3. "new file created" \notin r.says /\ "deleted" \notin r.says /\ "integrity breach" \in r.says
        BY <2>2, <4>2
      <4> QED
        BY <3>1, <4>1, <4>3 DEF N!FimName
    <3>3. CASE t = "DELETED"
      <4>1. N!FIM[t] = "FIM_DELETED"
        BY <3>3 DEF N!FIM
      <4>2. r.says = {"deleted", "file "} \cup Says[p]
        BY <1>3, <3>1, <3>3
      <4>3. "new file created" \notin r.says /\ "deleted" \in r.says
        BY <2>2, <4>2
      <4> QED
        BY <3>1, <4>1, <4>3 DEF N!FimName
    <3>4. CASE t = "CREATED"
      <4>1. N!FIM[t] = "FIM_CREATED"
        BY <3>4 DEF N!FIM
      <4>2. "new file created" \in r.says
        BY <1>3, <3>1, <3>4
      <4> QED
        BY <3>1, <4>1, <4>2 DEF N!FimName
    <3> QED
      BY <3>2, <3>3, <3>4
  <2> QED
    BY <2>1, <2>2
<1>9. N!from_audit_row(r) =
        N!Normalized("fim", N!FimName(r), N!FimEntity(r), l, r.context.source, r.context.host)
  BY <1>2 DEF N!from_audit_row, N!_classify_audit_row, N!HostOf
<1>10. N!FromEvent(e) = N!Normalized("fim", N!FIM[t], p, l, None, host)
  BY <1>1 DEF N!FromEvent
<1>11. \A x \in N!ByName : N!FimName(r) = x <=> N!FIM[t] = x
  BY <1>7 DEF N!FIM, N!ByName
<1>12. Told(e, r) /\ (c # N!NoContext \/ p \in OneWord => Whole(e, r)) /\ Named(e, r)
  BY <1>1, <1>2, <1>4, <1>6, <1>9, <1>10, <1>11, ReadAlike
<1>13. N!from_audit_row(r).name = N!FimName(r)
  BY <1>9 DEF N!Normalized
<1> QED
  BY <1>1, <1>8, <1>12, <1>13 DEF FileNamed

LEMMA LineIsNoEvent ==
  ASSUME NEW e \in N!Lines, NEW r, r = N!Row(e, N!NoContext)
  PROVE  LET n == N!from_audit_row(r) IN n.name \notin N!ByName /\ ~ N!Chained(n)
<1>1. PICK m \in {"fim_monitor", "network_sensor", "detection_engine"}, l \in {"INFO", "ERROR"},
           p \in Paths \cup Sources : e = N!Event("line", m, l, None, p, None)
  BY DEF N!Lines
<1>2. e.category = "line" /\ e.name = m /\ e.entity = p
  BY <1>1, EventFields
<1>3. r.module = m /\ r.context = N!NoContext /\ r.detector = None
  BY <1>2, RowFields DEF N!Module
<1>4. /\ r.context.host = None /\ r.context.type = None /\ r.context.detector = None
  BY <1>3 DEF N!NoContext
<1>5. N!FimName(r) \notin N!ByName
  BY <1>4 DEF N!FimName, N!ByName
<1>6. N!_classify_audit_row(r)[2] \notin N!ByName
  BY <1>1, <1>3, <1>4, <1>5 DEF N!_classify_audit_row, N!Or, N!ByName
<1> QED
  BY <1>4, <1>6 DEF N!from_audit_row, N!Normalized, N!Chained, N!HostOf

(* A row is that of the event, with its context or without, or of the line. *)
RowInv ==
  \/ /\ dispatched \in N!Events
     /\ \E c \in {N!Context(dispatched), N!NoContext} : row = N!Row(dispatched, c)
  \/ dispatched \in N!Lines /\ row = N!Row(dispatched, N!NoContext)

LEMMA RowsAreSeen == RowInv => RulesSeeEvents
<1> SUFFICES ASSUME RowInv PROVE RulesSeeEvents
  OBVIOUS
<1>1. /\ dispatched \in N!Events => dispatched.category \in {"auth", "network", "fim"}
      /\ dispatched \in N!Lines => dispatched.category = "line"
  BY DEF N!Events, N!Lines, N!Event
<1>2. CASE dispatched \in N!Events
  <2>1. PICK c \in {N!Context(dispatched), N!NoContext} : row = N!Row(dispatched, c)
    BY <1>1, <1>2 DEF RowInv
  <2>2. row.context = c
    BY <2>1, RowFields
  <2>3. N!RowsTellTheEvent /\ N!FilesAreNamed
    <3>1. ASSUME NEW k \in N!AuthKinds, NEW u \in Users, NEW s \in Sources \cup {None},
                 dispatched = N!Event("auth", k[1], k[2], k[3], u, s)
          PROVE  N!RowsTellTheEvent /\ N!FilesAreNamed
      <4>1. /\ Told(dispatched, row)
            /\ u \in OneWord => Whole(dispatched, row)
            /\ Says[u] \cap N!Sentences = {} /\ (c # N!NoContext \/ k[1] # "RATE_LIMITED") =>
                 Named(dispatched, row)
        BY <2>1, <3>1, AuthIsTold
      <4>2. dispatched.category = "auth" /\ dispatched.entity = u /\ dispatched.name = k[1]
        BY <3>1, EventFields
      <4>3. N!FromEvent(dispatched).name = k[1]
        BY <4>2 DEF N!FromEvent, N!Normalized
      <4> QED
        BY <2>2, <4>1, <4>2, <4>3
        DEF Told, Whole, Named, N!RowsTellTheEvent, N!FilesAreNamed, N!HasContext, N!ReadWhole
    <3>2. ASSUME NEW d \in N!Detectors, NEW s \in Sources, NEW l,
                 dispatched = N!Event("network", d, l, None, s, s)
          PROVE  N!RowsTellTheEvent /\ N!FilesAreNamed
      <4>1. /\ Told(dispatched, row) /\ Named(dispatched, row)
            /\ c # N!NoContext \/ Dotted[s] = s => Whole(dispatched, row)
        BY <2>1, <3>2, NetworkIsTold
      <4>2. dispatched.category = "network" /\ dispatched.entity = s
        BY <3>2, EventFields
      <4> QED
        BY <2>2, <4>1, <4>2
        DEF Told, Whole, Named, N!RowsTellTheEvent, N!FilesAreNamed, N!HasContext, N!ReadWhole
    <3>3. ASSUME NEW t \in {"MODIFIED", "DELETED", "CREATED"}, NEW l \in {"WARNING", "CRITICAL"},
                 NEW p \in Paths, dispatched = N!Event("fim", t, l, None, p, None)
          PROVE  N!RowsTellTheEvent /\ N!FilesAreNamed
      <4>1. /\ Told(dispatched, row) /\ Named(dispatched, row)
            /\ c # N!NoContext \/ p \in OneWord => Whole(dispatched, row)
            /\ c # N!NoContext \/ Says[p] \cap {"deleted", "new file created"} = {} =>
                 FileNamed(dispatched, row)
        BY <2>1, <3>3, FileIsTold
      <4>2. dispatched.category = "fim" /\ dispatched.entity = p /\ dispatched.name = t
        BY <3>3, EventFields
      <4> QED
        BY <2>2, <4>1, <4>2
        DEF Told, Whole, Named, FileNamed, N!RowsTellTheEvent, N!FilesAreNamed, N!HasContext, N!ReadWhole
    <3> QED
      BY <1>2, <3>1, <3>2, <3>3 DEF N!Events
  <2>4. row.context.host \in {host, None}
    <3>1. dispatched.category \in {"auth", "network", "fim"}
      BY <1>1, <1>2
    <3>2. N!Context(dispatched).host = host
      BY <3>1 DEF N!Context, N!NoContext
    <3> QED
      BY <2>2, <3>2, NoFields
  <2> QED
    BY <1>1, <1>2, <2>3, <2>4
    DEF RulesSeeEvents, N!TypeOK, N!LinesAreNoEvents
<1>3. CASE dispatched \in N!Lines /\ row = N!Row(dispatched, N!NoContext)
  <2>1. row.context = N!NoContext
    BY <1>3, RowFields
  <2>2. row.context.host = None
    BY <2>1 DEF N!NoContext
  <2>3. N!LinesAreNoEvents
    BY <1>3, LineIsNoEvent DEF N!LinesAreNoEvents
  <2> QED
    BY <1>1, <1>3, <2>2, <2>3
    DEF RulesSeeEvents, N!TypeOK, N!RowsTellTheEvent, N!FilesAreNamed
<1> QED
  BY <1>2, <1>3 DEF RowInv

(* The rules see events, all of them and nothing else, in the rows, for    *)
(* every name, path and address: an event's row is read as the event, but  *)
(* for what RowsTellTheEvent and FilesAreNamed leave to names that have in *)
(* themselves what is looked for (from_audit_row, detection/normalize.py). *)
THEOREM EventsAreSeen == MCSpec => []RulesSeeEvents
<1>1. MCInit => RowInv
  <2>1. N!Init => RowInv
    BY DEF N!Init, RowInv
  <2> QED
    BY <2>1 DEF MCInit
<1>2. ASSUME RowInv, [MCNext]_<<part, vars, import, intel, phishing, normal>> PROVE RowInv'
  <2>1. CASE UNCHANGED normal
    BY <1>2, <2>1 DEF normal, RowInv
  <2>2. ASSUME NEW e \in N!Events, N!Dispatched(e) PROVE RowInv'
    BY <2>2 DEF N!Dispatched, RowInv
  <2>3. ASSUME NEW e \in N!Events \cup N!Lines, N!Logged(e) PROVE RowInv'
    BY <2>3 DEF N!Logged, RowInv
  <2>4. UNCHANGED normal \/ N!Next
    BY <1>2 DEF MCNext, Scored, Imported, Loaded, Analysed, Normalised
  <2> QED
    BY <2>1, <2>2, <2>3, <2>4 DEF N!Next
<1> QED
  BY <1>1, <1>2, RowsAreSeen, PTL DEF MCSpec

-----------------------------------------------------------------------------
(* The import of event records (module EventImport). *)

LEMMA Smallest ==
  ASSUME NEW S \in SUBSET Nat, S # {}
  PROVE  \E n \in S : \A m \in S : n <= m
<1>1. PICK n \in S : \A m \in S : ~ (<<m, n>> \in OpToRel(<, Nat))
  BY NatLessThanWellFounded, WFMin
<1>2. \A m \in S : ~ (m < n)
  BY <1>1 DEF OpToRel
<1> QED
  BY <1>2

(* Some of finitely many numbers is the largest. *)
LEMMA Largest ==
  ASSUME NEW n \in Nat, NEW R \in SUBSET (1 .. n), R # {}, NEW value, \A i \in R : value[i] \in Int
  PROVE  \E i \in R : \A j \in R : value[j] <= value[i]
<1> DEFINE Upto(k) == {i \in R : i <= k}
           HasOne(k) == \E i \in Upto(k) : \A j \in Upto(k) : value[j] <= value[i]
           Bad == {k \in 0 .. n : Upto(k) # {} /\ ~ HasOne(k)}
<1>0. \A i \in R : i \in Nat /\ 1 <= i /\ i <= n /\ value[i] \in Int
  OBVIOUS
<1>1. ASSUME Bad # {} PROVE FALSE
  <2>1. PICK k \in Bad : \A m \in Bad : k <= m
    <3> HIDE DEF Upto, HasOne
    <3>1. Bad \in SUBSET Nat
      OBVIOUS
    <3> HIDE DEF Bad
    <3> QED
      BY <1>1, <3>1, Smallest
  <2>2. k \in Nat /\ k <= n /\ Upto(k) # {} /\ ~ HasOne(k)
    BY <2>1
  <2>3. k # 0
    <3>1. PICK i \in Upto(k) : TRUE
      BY <2>2
    <3> QED
      BY <1>0, <2>2, <3>1
  <2>4. k - 1 \in 0 .. n /\ k - 1 \notin Bad
    BY <2>1, <2>2, <2>3
  <2>5. CASE Upto(k - 1) = {}
    <3>1. \A i \in Upto(k) : i = k
      BY <1>0, <2>2, <2>5
    <3>2. k \in Upto(k)
      BY <2>2, <3>1
    <3>3. value[k] <= value[k]
      BY <1>0, <3>2
    <3> QED
      BY <2>2, <3>1, <3>2, <3>3
  <2>6. CASE Upto(k - 1) # {}
    <3>1. PICK i \in Upto(k - 1) : \A j \in Upto(k - 1) : value[j] <= value[i]
      BY <2>4, <2>6
    <3>2. \A j \in Upto(k) : j \in Upto(k - 1) \/ j = k
      BY <2>2
    <3>3. i \in Upto(k) /\ value[i] \in Int
      BY <2>2, <3>1
    <3>4. CASE k \in R /\ value[i] <= value[k]
      <4>1. \A j \in Upto(k) : value[j] <= value[k]
        BY <3>1, <3>2, <3>3, <3>4
      <4> QED
        BY <2>2, <3>4, <4>1
    <3>5. CASE ~(k \in R /\ value[i] <= value[k])
      <4>1. \A j \in Upto(k) : value[j] <= value[i]
        BY <3>1, <3>2, <3>3, <3>5
      <4> QED
        BY <2>2, <3>3, <4>1
    <3> QED
      BY <3>4, <3>5
  <2> QED
    BY <2>5, <2>6
<1>2. Upto(n) = R
  BY <1>0
<1> QED
  BY <1>1, <1>2

LEMMA FileFacts ==
  ASSUME NEW f \in E!Files
  PROVE  /\ Len(f) \in Nat /\ DOMAIN f = 1 .. Len(f)
         /\ \A i \in 1 .. Len(f) : f[i].at \in Int /\ f[i] \in E!Records
         /\ f # <<>> <=> Len(f) # 0
         /\ E!Relative(f) \in SUBSET (1 .. Len(f))
<1>1. PICK n \in 0 .. MaxRecords : f \in [1 .. n -> E!Records]
  BY DEF E!Files
<1>2. \A r \in E!Records : r.at \in Int
  <2> SUFFICES ASSUME NEW r \in E!Records PROVE r.at \in Int
    OBVIOUS
  <2>1. CASE r \in [kind : {"timestamp"}, at : 0 .. MaxSeconds]
    BY <2>1, DetectionAssumption DEF E!ImportAssumption
  <2>2. CASE r \in [kind : {"offset_seconds"}, at : Offsets]
    BY <2>2, DetectionAssumption DEF E!ImportAssumption
  <2>3. CASE r \in [kind : {"no json", "no number"}, at : {0}]
    <3>1. r.at \in {0}
      BY <2>3
    <3> QED
      BY <3>1
  <2> QED
    BY <2>1, <2>2, <2>3 DEF E!Records
<1>3. n \in Nat
  BY DetectionAssumption DEF E!ImportAssumption
<1>4. f \in Seq(E!Records) /\ Len(f) = n /\ DOMAIN f = 1 .. n
  BY <1>1, <1>3
<1> QED
  BY <1>1, <1>2, <1>3, <1>4 DEF E!Relative

(* What resolve_timestamps does to the offsets of a file. *)
LEMMA OffsetsResolved ==
  ASSUME NEW f \in E!Files, NEW t \in Int, NEW r, r = E!resolve_timestamps(f, t)
  PROVE  /\ r \in Seq(Int) /\ DOMAIN r = 1 .. Len(f) /\ Len(r) = Len(f)
         /\ \A i \in 1 .. Len(f) : f[i].kind = "timestamp" => r[i] = f[i].at
         /\ \A i, j \in E!Relative(f) : r[i] - r[j] = f[i].at - f[j].at
         /\ \A i \in E!Relative(f) : r[i] <= t
         /\ E!Relative(f) # {} => \E i \in E!Relative(f) : r[i] = t
<1> DEFINE R == E!Relative(f)
           S == {f[i].at : i \in R}
           largest == IF R = {} THEN 0 ELSE E!Max(S)
<1>1. /\ Len(f) \in Nat /\ DOMAIN f = 1 .. Len(f) /\ R \in SUBSET (1 .. Len(f))
      /\ \A i \in 1 .. Len(f) : f[i].at \in Int
  BY FileFacts
<1>2. R # {} => \E i \in R : largest = f[i].at /\ \A j \in R : f[j].at <= largest
  <2> SUFFICES ASSUME R # {} PROVE \E i \in R : largest = f[i].at /\ \A j \in R : f[j].at <= largest
    OBVIOUS
  <2> DEFINE value == [i \in R |-> f[i].at]
  <2>1. \A i \in R : value[i] \in Int
    BY <1>1
  <2>2. \E i \in R : \A j \in R : value[j] <= value[i]
    <3> HIDE DEF R, value
    <3> QED
      BY <1>1, <2>1, Largest
  <2>3. PICK i \in R : \A j \in R : f[j].at <= f[i].at
    BY <2>2
  <2>4. \E x \in S : \A y \in S : x >= y
    BY <1>1, <2>3
  <2>5. E!Max(S) \in S /\ \A y \in S : E!Max(S) >= y
    <3> HIDE DEF S
    <3> QED
      BY <2>4 DEF E!Max
  <2>6. largest = E!Max(S)
    OBVIOUS
  <2> HIDE DEF largest
  <2> QED
    BY <1>1, <2>5, <2>6
<1>3. largest \in Int
  <2>1. CASE R = {}
    BY <2>1
  <2>2. CASE R # {}
    BY <1>1, <1>2, <2>2
  <2> QED
    BY <2>1, <2>2
<1>4. r = [i \in DOMAIN f |-> IF f[i].kind = "timestamp" THEN f[i].at ELSE t - largest + f[i].at]
  BY DEF E!resolve_timestamps
<1> HIDE DEF largest, S
<1>5. r \in [1 .. Len(f) -> Int]
  BY <1>1, <1>3, <1>4
<1>6. \A i \in R : f[i].kind = "offset_seconds" /\ i \in 1 .. Len(f)
  BY <1>1 DEF E!Relative
<1> HIDE DEF R
<1>7. \A i \in R : r[i] = t - largest + f[i].at
  BY <1>1, <1>4, <1>6
<1>8. r \in Seq(Int) /\ DOMAIN r = 1 .. Len(f) /\ Len(r) = Len(f)
  BY <1>1, <1>5
<1>9. \A i \in 1 .. Len(f) : f[i].kind = "timestamp" => r[i] = f[i].at
  BY <1>1, <1>4
<1>10. \A i, j \in R : r[i] - r[j] = f[i].at - f[j].at
  BY <1>1, <1>3, <1>6, <1>7
<1>11. \A i \in R : r[i] <= t
  BY <1>1, <1>2, <1>3, <1>6, <1>7
<1>12. R # {} => \E i \in R : r[i] = t
  BY <1>1, <1>2, <1>3, <1>6, <1>7
<1> QED
  BY <1>8, <1>9, <1>10, <1>11, <1>12 DEF R

-----------------------------------------------------------------------------
(* The inductive invariant of the import. *)

Entries == [from : Importers \cup {None}, n : Nat, timestamp : Int]
ImportTypes ==
  /\ time \in 0 .. MaxSeconds
  /\ rows \in Seq(Entries)
  /\ committed \in 0 .. Len(rows)
  /\ writing \in Importers \cup {None}
  /\ at \in [Importers -> {"start", "read", "insert", "done", "refused", "raised", "killed"}]
  /\ records \in [Importers -> E!Files]
  /\ resolved \in [Importers -> Seq(Int)]
  /\ base \in [Importers -> Nat \cup {None}]

(* What is inserted was validated and resolved as a whole. *)
Resolved(p) ==
  /\ at[p] \in {"read", "insert", "done"} => \A i \in DOMAIN records[p] : records[p][i].kind # "no json"
  /\ at[p] \in {"insert", "done"} =>
       /\ \A i \in DOMAIN records[p] : records[p][i].kind # "no number"
       /\ base[p] \in Nat
       /\ resolved[p] = E!resolve_timestamps(records[p], base[p])
  /\ DOMAIN resolved[p] \in {{}, DOMAIN records[p]}

(* The open transaction has the first records of one file. *)
OpenRows ==
  /\ writing = None <=> committed = Len(rows)
  /\ writing # None => at[writing] = "insert"
  /\ \A i \in committed + 1 .. Len(rows) :
       /\ rows[i].from = writing /\ rows[i].n = i - committed
       /\ i - committed <= Len(records[writing])
       /\ rows[i].timestamp = resolved[writing][i - committed]

(* The table has the file of p after its first s rows, and nowhere else. *)
Stands(p, s) ==
  /\ s + Len(records[p]) <= committed
  /\ \A i \in 1 .. committed :
       /\ rows[i].from = p <=> s < i /\ i <= s + Len(records[p])
       /\ rows[i].from = p => rows[i].n = i - s /\ rows[i].timestamp = resolved[p][i - s]
Committed(p) ==
  IF at[p] = "done" THEN \E s \in Nat : Stands(p, s)
                    ELSE \A i \in 1 .. committed : rows[i].from # p

ImportInv ==
  /\ ImportTypes /\ OpenRows
  /\ \A p \in Importers : Resolved(p) /\ Committed(p)

LEMMA ResolvedFacts ==
  ASSUME NEW p \in Importers, Resolved(p), at[p] \in {"insert", "done"}
  PROVE  /\ base[p] \in Int /\ resolved[p] = E!resolve_timestamps(records[p], base[p])
         /\ \A i \in DOMAIN records[p] : /\ records[p][i].kind # "no json"
                                      /\ records[p][i].kind # "no number"
<1>1. base[p] \in Nat /\ resolved[p] = E!resolve_timestamps(records[p], base[p])
  BY Zenon DEF Resolved
<1>2. \A i \in DOMAIN records[p] : records[p][i].kind # "no number"
  BY Zenon DEF Resolved
<1>3. at[p] \in {"read", "insert", "done"}
  OBVIOUS
<1>4. \A i \in DOMAIN records[p] : records[p][i].kind # "no json"
  BY <1>3, Zenon DEF Resolved
<1>5. base[p] \in Int
  BY <1>1
<1> QED
  BY <1>1, <1>2, <1>4, <1>5, Zenon

LEMMA InitImport == E!Init => ImportInv
<1> SUFFICES ASSUME E!Init PROVE ImportInv
  OBVIOUS
<1>1. ImportTypes
  BY DetectionAssumption DEF E!Init, ImportTypes, E!ImportAssumption
<1>2. OpenRows
  BY <1>1 DEF E!Init, OpenRows
<1>3. ASSUME NEW p \in Importers PROVE Resolved(p) /\ Committed(p)
  BY <1>3 DEF E!Init, Resolved, Committed
<1> QED
  BY <1>1, <1>2, <1>3 DEF ImportInv

(* Committed rows stay what they are. *)
LEMMA CommittedStays ==
  ASSUME NEW p \in Importers, Committed(p), committed' = committed, records' = records,
         \A i \in 1 .. committed : rows'[i] = rows[i],
         at'[p] = "done" <=> at[p] = "done", at[p] = "done" => resolved'[p] = resolved[p]
  PROVE  Committed(p)'
  BY DEF Committed, Stands

LEMMA ReadImport ==
  ASSUME ImportInv, NEW p \in Importers, E!read_jsonl(p)
  PROVE  ImportInv'
<1>1. at[p] = "start" /\ UNCHANGED <<time, rows, committed, writing, records, resolved, base>>
  BY DEF E!read_jsonl, E!store
<1>2. at' = [at EXCEPT ![p] = at'[p]] /\ at'[p] \in {"refused", "read"}
      /\ (at'[p] = "read" => \A i \in DOMAIN records[p] : records[p][i].kind # "no json")
  BY DEF E!read_jsonl, E!Goto, ImportInv, ImportTypes
<1>3. ImportTypes'
  BY <1>1, <1>2 DEF ImportInv, ImportTypes
<1>4. OpenRows'
  BY <1>1, <1>2 DEF ImportInv, ImportTypes, OpenRows
<1>5. ASSUME NEW q \in Importers PROVE Resolved(q)' /\ Committed(q)'
  <2>1. q # p => at'[q] = at[q]
    BY <1>2 DEF ImportInv, ImportTypes
  <2>2. Resolved(q)'
    BY <1>1, <1>2, <2>1 DEF ImportInv, Resolved
  <2>3. Committed(q)'
    BY <1>1, <1>2, <2>1, CommittedStays DEF ImportInv
  <2> QED
    BY <2>2, <2>3
<1> QED
  BY <1>3, <1>4, <1>5 DEF ImportInv

LEMMA ResolveImport ==
  ASSUME ImportInv, NEW p \in Importers, E!Resolve(p)
  PROVE  ImportInv'
<1>1. at[p] = "read" /\ UNCHANGED <<time, rows, committed, writing, records>>
  BY DEF E!Resolve, E!store
<1>2. CASE at' = [at EXCEPT ![p] = "raised"] /\ UNCHANGED <<resolved, base>>
  <2>1. ImportTypes'
    BY <1>1, <1>2 DEF ImportInv, ImportTypes
  <2>2. OpenRows'
    BY <1>1, <1>2 DEF ImportInv, ImportTypes, OpenRows
  <2>3. ASSUME NEW q \in Importers PROVE Resolved(q)' /\ Committed(q)'
    <3>1. at'[q] = (IF q = p THEN "raised" ELSE at[q])
      BY <1>2 DEF ImportInv, ImportTypes
    <3>2. Resolved(q)'
      <4>1. CASE q = p
        <5>1. Resolved(q) /\ at'[q] = "raised" /\ UNCHANGED <<records, resolved>>
          BY <1>1, <1>2, <3>1, <4>1 DEF ImportInv
        <5> QED
          BY <5>1 DEF Resolved
      <4>2. CASE q # p
        BY <1>1, <1>2, <3>1, <4>2 DEF ImportInv, Resolved
      <4> QED
        BY <4>1, <4>2
    <3>3. Committed(q)'
      BY <1>1, <1>2, <3>1, CommittedStays DEF ImportInv
    <3> QED
      BY <3>2, <3>3
  <2> QED
    BY <2>1, <2>2, <2>3 DEF ImportInv
<1>3. CASE /\ \A i \in DOMAIN records[p] : records[p][i].kind # "no number"
           /\ at' = [at EXCEPT ![p] = "insert"]
           /\ resolved' = [resolved EXCEPT ![p] = E!resolve_timestamps(records[p], time)]
           /\ base' = [base EXCEPT ![p] = time]
  <2>1. records[p] \in E!Files /\ time \in Int /\ time \in Nat
    BY DetectionAssumption DEF ImportInv, ImportTypes, E!ImportAssumption
  <2>2. /\ E!resolve_timestamps(records[p], time) \in Seq(Int)
        /\ DOMAIN E!resolve_timestamps(records[p], time) = DOMAIN records[p]
    BY <2>1, OffsetsResolved, FileFacts
  <2>3. ImportTypes'
    BY <1>1, <1>3, <2>1, <2>2 DEF ImportInv, ImportTypes
  <2>4. \A q \in Importers : /\ at'[q] = (IF q = p THEN "insert" ELSE at[q])
                             /\ q # p => resolved'[q] = resolved[q] /\ base'[q] = base[q]
    BY <1>3 DEF ImportInv, ImportTypes
  <2>5. resolved'[p] = E!resolve_timestamps(records[p], time) /\ base'[p] = time
    BY <1>3 DEF ImportInv, ImportTypes
  <2>6. OpenRows'
    <3>1. writing # p
      BY <1>1, DetectionAssumption DEF ImportInv, ImportTypes, OpenRows, E!NoneAssumption
    <3> QED
      BY <1>1, <2>4, <3>1 DEF ImportInv, ImportTypes, OpenRows
  <2>7. ASSUME NEW q \in Importers PROVE Resolved(q)' /\ Committed(q)'
    <3>1. CASE q = p
      <4>1. Resolved(q)'
        BY <1>1, <1>3, <2>1, <2>2, <2>5, <3>1 DEF ImportInv, Resolved
      <4>2. Committed(q)'
        BY <1>1, <2>4, <3>1, CommittedStays DEF ImportInv
      <4> QED
        BY <4>1, <4>2
    <3>2. CASE q # p
      <4>1. Resolved(q)'
        BY <1>1, <2>4, <3>2 DEF ImportInv, Resolved
      <4>2. Committed(q)'
        BY <1>1, <2>4, <3>2, CommittedStays DEF ImportInv
      <4> QED
        BY <4>1, <4>2
    <3> QED
      BY <3>1, <3>2
  <2> QED
    BY <2>3, <2>6, <2>7 DEF ImportInv
<1> QED
  BY <1>2, <1>3 DEF E!Resolve, E!Goto

LEMMA InsertImport ==
  ASSUME ImportInv, NEW p \in Importers, E!Insert(p)
  PROVE  ImportInv'
<1> DEFINE n == Len(rows) - committed + 1
           new == [from |-> p, n |-> n, timestamp |-> resolved[p][n]]
<1>1. /\ at[p] = "insert" /\ writing' = p /\ rows' = Append(rows, new)
      /\ writing = p \/ (writing = None /\ records[p] # <<>>)
      /\ writing = p => n <= Len(records[p])
      /\ UNCHANGED <<time, committed, at, records, resolved, base>>
  BY DEF E!Insert
<1>2. /\ rows \in Seq(Entries)
      /\ Len(rows) \in Nat /\ committed \in Nat /\ committed <= Len(rows) /\ p # None
      /\ records[p] \in E!Files
  BY DetectionAssumption DEF ImportInv, ImportTypes, E!NoneAssumption
<1>3. resolved[p] \in Seq(Int) /\ Len(resolved[p]) = Len(records[p]) /\ Len(records[p]) \in Nat
  <2>1. base[p] \in Int /\ resolved[p] = E!resolve_timestamps(records[p], base[p])
    <3>1. Resolved(p)
      BY DEF ImportInv
    <3> QED
      BY <1>1, <3>1, ResolvedFacts
  <2> QED
    BY <1>2, <2>1, OffsetsResolved, FileFacts
<1>4. n \in Nat /\ 1 <= n /\ n <= Len(records[p])
  <2>1. CASE writing = p
    BY <1>1, <1>2, <2>1
  <2>2. CASE writing = None /\ records[p] # <<>>
    BY <1>2, <1>3, <2>2, FileFacts DEF ImportInv, OpenRows
  <2> QED
    BY <1>1, <2>1, <2>2
<1>5. new \in Entries
  BY <1>2, <1>3, <1>4 DEF Entries
<1> HIDE DEF new
<1>6. /\ Len(rows') = Len(rows) + 1 /\ rows'[Len(rows) + 1] = new
      /\ \A i \in 1 .. Len(rows) : rows'[i] = rows[i]
      /\ rows' \in Seq(Entries)
  BY <1>1, <1>2, <1>5
<1>7. ImportTypes'
  BY <1>1, <1>2, <1>6 DEF ImportInv, ImportTypes
<1>8. OpenRows'
  <2>1. ASSUME NEW i \in committed + 1 .. Len(rows) + 1
        PROVE  /\ rows'[i].from = p /\ rows'[i].n = i - committed /\ i - committed <= Len(records[p])
               /\ rows'[i].timestamp = resolved[p][i - committed]
    <3>1. CASE i = Len(rows) + 1
      BY <1>2, <1>4, <1>6, <3>1 DEF new
    <3>2. CASE i # Len(rows) + 1
      <4>1. i \in committed + 1 .. Len(rows) /\ i \in 1 .. Len(rows)
        BY <1>2, <3>2
      <4>2. writing = p
        BY <1>1, <1>2, <4>1 DEF ImportInv, OpenRows
      <4> QED
        BY <1>6, <4>1, <4>2 DEF ImportInv, OpenRows
    <3> QED
      BY <3>1, <3>2
  <2> QED
    BY <1>1, <1>2, <1>6, <2>1 DEF OpenRows
<1>9. ASSUME NEW q \in Importers PROVE Resolved(q)' /\ Committed(q)'
  <2>1. ASSUME NEW i \in 1 .. committed PROVE rows'[i] = rows[i]
    <3>1. i \in 1 .. Len(rows)
      BY <1>2
    <3> QED
      BY <1>6, <3>1
  <2>2. Resolved(q)'
    BY <1>1 DEF ImportInv, Resolved
  <2>3. Committed(q)'
    BY <1>1, <2>1, CommittedStays DEF ImportInv
  <2> QED
    BY <2>2, <2>3
<1> QED
  BY <1>7, <1>8, <1>9 DEF ImportInv

LEMMA CommitImport ==
  ASSUME ImportInv, NEW p \in Importers, E!Commit(p)
  PROVE  ImportInv'
<1>1. /\ at[p] = "insert" /\ UNCHANGED <<time, rows, records, resolved, base>>
      /\ \A q \in Importers : at'[q] = (IF q = p THEN "done" ELSE at[q])
      /\ at' = [at EXCEPT ![p] = "done"]
  BY DEF E!Commit, E!Goto, ImportInv, ImportTypes
<1>2. /\ Len(rows) \in Nat /\ committed \in Nat /\ committed <= Len(rows) /\ p # None
      /\ records[p] \in E!Files /\ Len(records[p]) \in Nat /\ (records[p] = <<>> <=> Len(records[p]) = 0)
  BY DetectionAssumption, FileFacts DEF ImportInv, ImportTypes, E!NoneAssumption
<1>3. ImportTypes'
  BY <1>1, <1>2 DEF ImportInv, ImportTypes, E!Commit
<1>4. \A q \in Importers : Resolved(q)'
  BY <1>1 DEF ImportInv, Resolved
<1>5. \A i \in 1 .. committed : rows[i].from # p
  BY <1>1 DEF ImportInv, Committed
<1>6. CASE writing = p
  <2>1. committed' = Len(rows) /\ writing' = None
    BY <1>6 DEF E!Commit
  <2>2. Len(rows) = committed + Len(records[p])
    <3>1. committed # Len(rows)
      BY <1>2, <1>6 DEF ImportInv, OpenRows
    <3>2. Len(rows) - committed <= Len(records[p])
      BY <1>2, <1>6, <3>1 DEF ImportInv, OpenRows
    <3> QED
      BY <1>2, <3>1, <3>2 DEF E!Commit
  <2>3. OpenRows'
    BY <1>1, <1>2, <2>1 DEF OpenRows
  <2>4. \A i \in committed + 1 .. Len(rows) :
          rows[i].from = p /\ rows[i].n = i - committed /\ rows[i].timestamp = resolved[p][i - committed]
    BY <1>6 DEF ImportInv, OpenRows
  <2>5. Committed(p)'
    <3>1. PICK s \in Nat : s = committed
      BY <1>2
    <3>2. ASSUME NEW i \in 1 .. Len(rows)
          PROVE  /\ rows[i].from = p <=> s < i /\ i <= s + Len(records[p])
                 /\ rows[i].from = p => rows[i].n = i - s /\ rows[i].timestamp = resolved[p][i - s]
      <4>1. CASE i \in 1 .. committed
        <5>1. rows[i].from # p /\ i <= s
          BY <1>2, <1>5, <3>1, <4>1
        <5> QED
          BY <1>2, <3>1, <4>1, <5>1
      <4>2. CASE i \in committed + 1 .. Len(rows)
        BY <1>2, <2>2, <2>4, <3>1, <4>2
      <4> QED
        BY <1>2, <4>1, <4>2
    <3>3. Stands(p, s)'
      BY <1>1, <2>1, <2>2, <3>1, <3>2 DEF Stands
    <3> QED
      BY <1>1, <3>1, <3>3 DEF Committed
  <2>6. ASSUME NEW q \in Importers, q # p PROVE Committed(q)'
    <3>1. CASE at[q] = "done"
      <4>1. PICK s \in Nat : Stands(q, s)
        BY <2>6, <3>1 DEF ImportInv, Committed
      <4>2. Len(records[q]) \in Nat
        BY <2>6, FileFacts DEF ImportInv, ImportTypes
      <4>3. Stands(q, s)'
        BY <1>1, <1>2, <2>1, <2>2, <2>4, <2>6, <4>1, <4>2 DEF Stands
      <4> QED
        BY <1>1, <2>6, <3>1, <4>3 DEF Committed
    <3>2. CASE at[q] # "done"
      <4>1. \A i \in 1 .. Len(rows) : i \in 1 .. committed \/ i \in committed + 1 .. Len(rows)
        BY <1>2
      <4> QED
        BY <1>1, <2>1, <2>4, <2>6, <3>2, <4>1 DEF ImportInv, Committed
    <3> QED
      BY <3>1, <3>2
  <2> QED
    BY <1>3, <1>4, <2>3, <2>5, <2>6 DEF ImportInv
<1>7. CASE writing # p
  <2>1. records[p] = <<>> /\ UNCHANGED <<committed, writing>>
    BY <1>7 DEF E!Commit
  <2>2. OpenRows'
    BY <1>1, <1>7, <2>1 DEF ImportInv, ImportTypes, OpenRows
  <2>3. Committed(p)'
    <3>1. Stands(p, 0)'
      BY <1>1, <1>2, <1>5, <2>1 DEF Stands
    <3> QED
      BY <1>1, <3>1 DEF Committed
  <2>4. ASSUME NEW q \in Importers, q # p PROVE Committed(q)'
    BY <1>1, <2>1, <2>4, CommittedStays DEF ImportInv
  <2> QED
    BY <1>3, <1>4, <2>2, <2>3, <2>4 DEF ImportInv
<1> QED
  BY <1>6, <1>7

LEMMA FailsImport ==
  ASSUME ImportInv, NEW p \in Importers, E!Fails(p)
  PROVE  ImportInv'
<1>1. PICK l \in {"killed", "raised"} : at' = [at EXCEPT ![p] = l]
  BY DEF E!Fails, E!Goto
<1>2. /\ at[p] \in {"read", "insert"} /\ UNCHANGED <<time, committed, records, resolved, base>>
      /\ \A q \in Importers : at'[q] = (IF q = p THEN l ELSE at[q])
  BY <1>1 DEF E!Fails, ImportInv, ImportTypes
<1>3. /\ rows \in Seq(Entries)
      /\ Len(rows) \in Nat /\ committed \in Nat /\ committed <= Len(rows) /\ p # None
  BY DetectionAssumption DEF ImportInv, ImportTypes, E!NoneAssumption
<1>4. /\ rows' \in Seq(Entries)
      /\ committed <= Len(rows') /\ \A i \in 1 .. committed : rows'[i] = rows[i]
      /\ writing = p => writing' = None /\ Len(rows') = committed
      /\ writing # p => UNCHANGED <<rows, writing>>
  <2>1. CASE writing = p
    <3>1. rows' = SubSeq(rows, 1, committed) /\ writing' = None
      BY <2>1 DEF E!Fails
    <3>2. /\ rows' \in Seq(Entries)
          /\ Len(rows') = committed /\ \A i \in 1 .. committed : rows'[i] = rows[i]
      <4>1. \A i \in 1 .. committed : i \in 1 .. Len(rows)
        BY <1>3
      <4>2. rows' = [i \in 1 .. committed |-> rows[i]]
        BY <1>3, <3>1
      <4> QED
        BY <1>3, <4>1, <4>2
    <3> QED
      BY <1>3, <2>1, <3>1, <3>2
  <2>2. CASE writing # p
    <3>1. UNCHANGED <<rows, writing>>
      BY <2>2 DEF E!Fails
    <3> QED
      BY <1>3, <2>2, <3>1
  <2> QED
    BY <2>1, <2>2
<1>5. ImportTypes'
  BY <1>1, <1>2, <1>3, <1>4 DEF ImportInv, ImportTypes
<1>6. OpenRows'
  <2>1. CASE writing = p
    BY <1>2, <1>3, <1>4, <2>1 DEF OpenRows
  <2>2. CASE writing # p
    BY <1>2, <1>4, <2>2 DEF ImportInv, ImportTypes, OpenRows
  <2> QED
    BY <2>1, <2>2
<1>7. ASSUME NEW q \in Importers PROVE Resolved(q)' /\ Committed(q)'
  <2>1. CASE q = p
    <3>1. Resolved(q)'
      BY <1>2, <2>1 DEF ImportInv, Resolved
    <3>2. Committed(q)'
      BY <1>2, <1>4, <2>1, CommittedStays DEF ImportInv
    <3> QED
      BY <3>1, <3>2
  <2>2. CASE q # p
    <3>1. Resolved(q)'
      BY <1>2, <2>2 DEF ImportInv, Resolved
    <3>2. Committed(q)'
      BY <1>2, <1>4, <2>2, CommittedStays DEF ImportInv
    <3> QED
      BY <3>1, <3>2
  <2> QED
    BY <2>1, <2>2
<1> QED
  BY <1>5, <1>6, <1>7 DEF ImportInv

LEMMA LoggedImport ==
  ASSUME ImportInv, E!Logged
  PROVE  ImportInv'
<1> DEFINE new == [from |-> None, n |-> 1, timestamp |-> time]
<1>1. /\ writing = None /\ rows' = Append(rows, new) /\ committed' = committed + 1
      /\ UNCHANGED <<time, writing, at, records, resolved, base>>
  BY DEF E!Logged
<1>2. /\ rows \in Seq(Entries)
      /\ Len(rows) \in Nat /\ committed = Len(rows)
      /\ new \in Entries
      /\ None \notin Importers
  BY <1>1, DetectionAssumption
  DEF ImportInv, ImportTypes, OpenRows, Entries, E!NoneAssumption, E!ImportAssumption
<1>3. new.from = None
  OBVIOUS
<1> HIDE DEF new
<1>4. /\ Len(rows') = Len(rows) + 1 /\ rows'[Len(rows) + 1] = new
      /\ \A i \in 1 .. Len(rows) : rows'[i] = rows[i]
      /\ rows' \in Seq(Entries)
  BY <1>1, <1>2
<1>5. ImportTypes'
  BY <1>1, <1>2, <1>4 DEF ImportInv, ImportTypes
<1>6. OpenRows'
  BY <1>1, <1>2, <1>4 DEF OpenRows
<1>7. ASSUME NEW q \in Importers PROVE Resolved(q)' /\ Committed(q)'
  <2>1. Resolved(q)'
    BY <1>1 DEF ImportInv, Resolved
  <2>2. \A i \in 1 .. committed' : 
          \/ i \in 1 .. committed /\ rows'[i] = rows[i]
          \/ i = committed + 1 /\ rows'[i].from # q
    <3>1. ASSUME NEW i \in 1 .. committed + 1, i # committed + 1
          PROVE  i \in 1 .. committed /\ rows'[i] = rows[i]
      <4>1. i \in 1 .. Len(rows)
        BY <1>2, <3>1
      <4> QED
        BY <1>2, <1>4, <4>1
    <3>2. rows'[committed + 1].from # q
      BY <1>2, <1>3, <1>4
    <3> QED
      BY <1>1, <3>1, <3>2
  <2>3. Committed(q)'
    <3>1. CASE at[q] = "done"
      <4>1. PICK s \in Nat : Stands(q, s)
        BY <3>1 DEF ImportInv, Committed
      <4>2. Len(records[q]) \in Nat
        BY FileFacts DEF ImportInv, ImportTypes
      <4>3. ASSUME NEW i \in 1 .. committed'
            PROVE  /\ rows'[i].from = q <=> s < i /\ i <= s + Len(records[q])
                   /\ rows'[i].from = q => rows'[i].n = i - s /\ rows'[i].timestamp = resolved[q][i - s]
        <5>1. CASE i \in 1 .. committed /\ rows'[i] = rows[i]
          BY <4>1, <5>1 DEF Stands
        <5>2. CASE i = committed + 1 /\ rows'[i].from # q
          BY <1>2, <4>1, <4>2, <5>2 DEF Stands
        <5> QED
          BY <2>2, <5>1, <5>2
      <4>4. s + Len(records[q]) <= committed'
        BY <1>1, <1>2, <4>1, <4>2 DEF Stands
      <4>5. Stands(q, s)'
        BY <1>1, <4>3, <4>4 DEF Stands
      <4> QED
        BY <1>1, <3>1, <4>5 DEF Committed
    <3>2. CASE at[q] # "done"
      BY <1>1, <2>2, <3>2 DEF ImportInv, Committed
    <3> QED
      BY <3>1, <3>2
  <2> QED
    BY <2>1, <2>3
<1> QED
  BY <1>5, <1>6, <1>7 DEF ImportInv

LEMMA NextImport == ImportInv /\ E!Next => ImportInv'
<1> SUFFICES ASSUME ImportInv, E!Next PROVE ImportInv'
  OBVIOUS
<1>1. CASE E!Tick
  <2>1. ImportTypes'
    BY <1>1, DetectionAssumption DEF E!Tick, E!store, E!ImportAssumption, ImportInv, ImportTypes
  <2> QED
    BY <1>1, <2>1 DEF E!Tick, E!store, ImportInv, OpenRows, Resolved, Committed, Stands
<1> QED
  BY <1>1, LoggedImport, ReadImport, ResolveImport, InsertImport, CommitImport, FailsImport
  DEF E!Next

-----------------------------------------------------------------------------
(* What the invariant says of a file. *)

LEMMA FileIsWhole ==
  ASSUME ImportInv, NEW p \in Importers, at[p] = "done"
  PROVE  /\ E!Cardinality(E!RowsOf(p)) = Len(records[p])
         /\ \A i, j \in E!RowsOf(p) : rows[i].n - rows[j].n = i - j
         /\ E!RowsOf(p) \subseteq Nat
         /\ \A m \in 1 .. Len(records[p]) : \E i \in E!RowsOf(p) : rows[i].n = m
         /\ \A i \in E!RowsOf(p) : /\ rows[i].n \in 1 .. Len(records[p])
                                   /\ rows[i].timestamp = resolved[p][rows[i].n]
<1>1. PICK s \in Nat : Stands(p, s)
  BY DEF ImportInv, Committed
<1>2. Len(records[p]) \in Nat /\ committed \in Nat
  BY FileFacts DEF ImportInv, ImportTypes
<1>3. E!RowsOf(p) = s + 1 .. s + Len(records[p])
  BY <1>1, <1>2 DEF Stands, E!RowsOf
<1>4. \A i \in s + 1 .. s + Len(records[p]) :
        rows[i].n = i - s /\ rows[i].timestamp = resolved[p][i - s]
  BY <1>1, <1>2 DEF Stands
<1>5. E!Cardinality(E!RowsOf(p)) = Len(records[p])
  <2>1. Cardinality(s + 1 .. s + Len(records[p])) = Len(records[p])
    BY <1>2, FS_Interval
  <2> QED
    BY <1>3, <2>1 DEF E!Cardinality, Cardinality
<1>6. ASSUME NEW m \in 1 .. Len(records[p]) PROVE \E i \in E!RowsOf(p) : rows[i].n = m
  <2>1. s + m \in E!RowsOf(p) /\ rows[s + m].n = m
    BY <1>2, <1>3, <1>4
  <2> QED
    BY <2>1
<1> QED
  BY <1>2, <1>3, <1>4, <1>5, <1>6

LEMMA ImportsHold == ImportInv => ImportsAreWhole
<1> SUFFICES ASSUME ImportInv PROVE ImportsAreWhole
  OBVIOUS
<1>1. E!TypeOK
  <2>1. ASSUME NEW i \in DOMAIN rows
        PROVE  /\ rows[i].from \in Importers \cup {None} /\ rows[i].timestamp \in Int
               /\ i > committed => rows[i].from = writing
    <3>1. /\ rows \in Seq(Entries)
          /\ committed \in Nat /\ Len(rows) \in Nat
      BY DEF ImportInv, ImportTypes
    <3>2. i \in 1 .. Len(rows) /\ rows[i] \in Entries
      <4>1. i \in 1 .. Len(rows)
        BY <3>1
      <4> QED
        BY <3>1, <4>1
    <3>3. i > committed => i \in committed + 1 .. Len(rows)
      BY <3>1, <3>2
    <3> QED
      BY <3>2, <3>3 DEF ImportInv, OpenRows, Entries
  <2>2. ASSUME NEW p \in Importers
        PROVE  /\ at[p] \in {"start", "read", "insert", "done", "refused", "raised", "killed"}
               /\ DOMAIN resolved[p] \in {{}, DOMAIN records[p]}
               /\ writing = p => at[p] = "insert" /\ committed < Len(rows)
    <3>1. /\ p # None /\ committed \in Nat /\ Len(rows) \in Nat /\ committed <= Len(rows)
          /\ at[p] \in {"start", "read", "insert", "done", "refused", "raised", "killed"}
      BY DetectionAssumption DEF ImportInv, ImportTypes, E!NoneAssumption
    <3>2. DOMAIN resolved[p] \in {{}, DOMAIN records[p]}
      BY DEF ImportInv, Resolved
    <3>3. writing = p => at[p] = "insert" /\ committed # Len(rows)
      BY <3>1 DEF ImportInv, OpenRows
    <3> QED
      BY <3>1, <3>2, <3>3
  <2> QED
    BY <2>1, <2>2 DEF ImportInv, ImportTypes, E!TypeOK
<1>2. E!WholeOrNotAtAll
  <2>1. ASSUME NEW p \in Importers, at[p] # "done" PROVE E!RowsOf(p) = {}
    BY <2>1 DEF ImportInv, Committed, E!RowsOf
  <2> QED
    BY <2>1, FileIsWhole DEF E!WholeOrNotAtAll
<1>3. E!ScenarioEndsAtBase
  <2> SUFFICES ASSUME NEW p \in Importers, at[p] = "done"
               PROVE  LET f == records[p] IN
                      /\ E!Relative(f) # {} => \E i \in E!RowsOf(p) :
                           rows[i].n \in E!Relative(f) /\ rows[i].timestamp = base[p]
                      /\ \A i \in E!RowsOf(p) : LET r == rows[i] IN
                           IF r.n \notin E!Relative(f) THEN r.timestamp = f[r.n].at
                           ELSE /\ r.timestamp <= base[p]
                                /\ \A j \in E!RowsOf(p) : rows[j].n \in E!Relative(f) =>
                                     r.timestamp - rows[j].timestamp = f[r.n].at - f[rows[j].n].at
    BY DEF E!ScenarioEndsAtBase
  <2> DEFINE f == records[p]
  <2>1. /\ f \in E!Files /\ base[p] \in Int
        /\ resolved[p] = E!resolve_timestamps(f, base[p])
        /\ \A i \in DOMAIN f : f[i].kind # "no json" /\ f[i].kind # "no number"
    <3>1. Resolved(p) /\ f \in E!Files
      BY DEF ImportInv, ImportTypes
    <3> QED
      BY <3>1, ResolvedFacts
  <2>2. /\ DOMAIN f = 1 .. Len(f) /\ E!Relative(f) \in SUBSET (1 .. Len(f))
        /\ \A i \in 1 .. Len(f) : f[i] \in E!Records
    BY <2>1, FileFacts
  <2>3. /\ \A i \in 1 .. Len(f) : f[i].kind = "timestamp" => resolved[p][i] = f[i].at
        /\ \A i, j \in E!Relative(f) : resolved[p][i] - resolved[p][j] = f[i].at - f[j].at
        /\ \A i \in E!Relative(f) : resolved[p][i] <= base[p]
        /\ E!Relative(f) # {} => \E i \in E!Relative(f) : resolved[p][i] = base[p]
    <3>1. PICK g : g = f
      OBVIOUS
    <3>2. g \in E!Files /\ base[p] \in Int /\ resolved[p] = E!resolve_timestamps(g, base[p])
      BY <2>1, <3>1
    <3> QED
      BY <3>1, <3>2, OffsetsResolved
  <2>4. ASSUME NEW i \in 1 .. Len(f), i \notin E!Relative(f) PROVE f[i].kind = "timestamp"
    <3>1. f[i] \in E!Records /\ f[i].kind \notin {"no json", "no number", "offset_seconds"}
      BY <2>1, <2>2, <2>4 DEF E!Relative
    <3> QED
      BY <3>1 DEF E!Records
  <2>5. /\ \A m \in 1 .. Len(f) : \E i \in E!RowsOf(p) : rows[i].n = m
        /\ \A i \in E!RowsOf(p) : /\ rows[i].n \in 1 .. Len(f)
                                  /\ rows[i].timestamp = resolved[p][rows[i].n]
    BY FileIsWhole
  <2> HIDE DEF f
  <2>6. E!Relative(f) # {} => \E i \in E!RowsOf(p) :
          rows[i].n \in E!Relative(f) /\ rows[i].timestamp = base[p]
    <3> SUFFICES ASSUME E!Relative(f) # {}
                 PROVE  \E i \in E!RowsOf(p) :
                          rows[i].n \in E!Relative(f) /\ rows[i].timestamp = base[p]
      OBVIOUS
    <3>1. PICK m \in E!Relative(f) : resolved[p][m] = base[p]
      BY <2>3
    <3>2. PICK i \in E!RowsOf(p) : rows[i].n = m
      BY <2>2, <2>5, <3>1
    <3> QED
      BY <2>5, <3>1, <3>2
  <2>7. ASSUME NEW i \in E!RowsOf(p), rows[i].n \notin E!Relative(f)
        PROVE  rows[i].timestamp = f[rows[i].n].at
    BY <2>3, <2>4, <2>5, <2>7
  <2>8. ASSUME NEW i \in E!RowsOf(p), rows[i].n \in E!Relative(f)
        PROVE  /\ rows[i].timestamp <= base[p]
               /\ \A j \in E!RowsOf(p) : rows[j].n \in E!Relative(f) =>
                    rows[i].timestamp - rows[j].timestamp = f[rows[i].n].at - f[rows[j].n].at
    BY <2>3, <2>5, <2>8
  <2> QED
    BY <2>6, <2>7, <2>8 DEF f
<1> QED
  BY <1>1, <1>2, <1>3 DEF ImportsAreWhole

(* A file of events is in the table as a whole or not at all, its offsets  *)
(* end at the base time, for any number of importers and files of any      *)
(* length (insert_audit_records, resolve_timestamps of                     *)
(* detection/replay.py).                                                   *)
THEOREM FilesAreWhole == MCSpec => []ImportsAreWhole
<1>1. MCInit => ImportInv
  BY InitImport DEF MCInit
<1>2. ASSUME ImportInv, [MCNext]_<<part, vars, import, intel, phishing, normal>> PROVE ImportInv'
  <2>1. CASE UNCHANGED import
    BY <1>2, <2>1 DEF import, ImportInv, ImportTypes, OpenRows, Resolved, Committed, Stands
  <2>2. UNCHANGED import \/ E!Next
    BY <1>2 DEF MCNext, Scored, Imported, Loaded, Analysed, Normalised
  <2> QED
    BY <1>2, <2>1, <2>2, NextImport
<1> QED
  BY <1>1, <1>2, ImportsHold, PTL DEF MCSpec

-----------------------------------------------------------------------------
(* The analysis of URLs (module Phishing). *)

LEMMA BonusBounds ==
  ASSUME NEW c, NEW n \in Nat
  PROVE  P!Bonus(c, n) \in Nat /\ P!Bonus(c, n) <= n
  BY DEF P!Bonus

LEMMA BonusMonotone ==
  ASSUME NEW c, NEW d, c => d, NEW n \in Nat
  PROVE  P!Bonus(c, n) <= P!Bonus(d, n)
  BY DEF P!Bonus

LEMMA BonusMore ==
  ASSUME NEW c, NEW d \in {c, TRUE}, NEW n \in Nat
  PROVE  P!Bonus(c, n) <= P!Bonus(d, n)
<1>1. CASE d = c
  BY <1>1 DEF P!Bonus
<1>2. CASE d = TRUE
  BY <1>2 DEF P!Bonus
<1> QED
  BY <1>1, <1>2

LEMMA CapMonotone ==
  ASSUME NEW m \in Nat, NEW n \in Nat, m <= n, NEW cap \in Nat
  PROVE  /\ P!Capped(m, cap) \in 0 .. cap /\ P!Capped(m, cap) <= P!Capped(n, cap)
         /\ P!Capped(m, cap) >= m \/ P!Capped(m, cap) = cap
  BY DEF P!Capped

(* v shows what u shows, of every kind. *)
ShowsMore(u, v) ==
  /\ v.ip = u.ip /\ v.label = u.label /\ u.below \subseteq v.below /\ u.depth <= v.depth
  /\ v.userinfo \in {u.userinfo, TRUE}
  /\ v.script = u.script \/ u.script = "ascii" \/ v.script = "punycode"
  /\ v.domain = u.domain \/ u.domain = "plain"
  /\ v.hyphens \in {u.hyphens, TRUE}
  /\ v.digits \in {u.digits, TRUE}
  /\ v.long \in {u.long, TRUE}
  /\ u.keywords <= v.keywords

LEMMA URLFields ==
  ASSUME NEW u \in P!URLs
  PROVE  /\ u.depth \in 0 .. 3 /\ u.keywords \in Nat
         /\ u.script \in {"ascii", "other", "punycode"}
         /\ u.domain \in {"plain", "abused", "shortener"}
  BY DetectionAssumption DEF P!URLs, P!PhishingAssumption

LEMMA MoreShowsMore ==
  ASSUME NEW u \in P!URLs, NEW v \in P!More(u)
  PROVE  v \in P!URLs /\ ShowsMore(u, v)
<1>0. PICK yes \in BOOLEAN : yes = TRUE
  OBVIOUS
<1>1. v.keywords >= u.keywords
  BY DEF P!More
<1>2. u.depth \in 0 .. 3 /\ u.keywords \in Nat /\ u.ip \in BOOLEAN
  BY URLFields DEF P!URLs
<1>3. CASE v = [u EXCEPT !.userinfo = TRUE]
  <2>1. v = [u EXCEPT !.userinfo = yes]
    BY <1>0, <1>3
  <2>2. v \in P!URLs
    BY <2>1 DEF P!URLs
  <2>3. /\ v.userinfo = yes /\ v.ip = u.ip /\ v.label = u.label /\ v.below = u.below /\ v.depth = u.depth /\ v.script = u.script
        /\ v.domain = u.domain /\ v.hyphens = u.hyphens /\ v.digits = u.digits /\ v.long = u.long /\ v.keywords = u.keywords
    BY <2>1 DEF P!URLs
  <2> QED
    BY <1>0, <1>2, <2>2, <2>3 DEF ShowsMore
<1>4. ASSUME NEW n \in KeywordCounts, v = [u EXCEPT !.keywords = n] PROVE v \in P!URLs /\ ShowsMore(u, v)
  BY <1>1, <1>2, <1>4 DEF P!URLs, ShowsMore
<1>5. CASE u.script = "ascii" /\ v = [u EXCEPT !.script = "other"]
  BY <1>2, <1>5 DEF P!URLs, ShowsMore
<1>6. CASE v = [u EXCEPT !.hyphens = TRUE]
  <2>1. v = [u EXCEPT !.hyphens = yes]
    BY <1>0, <1>6
  <2>2. v \in P!URLs
    BY <2>1 DEF P!URLs
  <2>3. /\ v.hyphens = yes /\ v.ip = u.ip /\ v.label = u.label /\ v.below = u.below /\ v.depth = u.depth /\ v.userinfo = u.userinfo
        /\ v.script = u.script /\ v.domain = u.domain /\ v.digits = u.digits /\ v.long = u.long /\ v.keywords = u.keywords
    BY <2>1 DEF P!URLs
  <2> QED
    BY <1>0, <1>2, <2>2, <2>3 DEF ShowsMore
<1>7. CASE v = [u EXCEPT !.digits = TRUE]
  <2>1. v = [u EXCEPT !.digits = yes]
    BY <1>0, <1>7
  <2>2. v \in P!URLs
    BY <2>1 DEF P!URLs
  <2>3. /\ v.digits = yes /\ v.ip = u.ip /\ v.label = u.label /\ v.below = u.below /\ v.depth = u.depth /\ v.userinfo = u.userinfo
        /\ v.script = u.script /\ v.domain = u.domain /\ v.hyphens = u.hyphens /\ v.long = u.long /\ v.keywords = u.keywords
    BY <2>1 DEF P!URLs
  <2> QED
    BY <1>0, <1>2, <2>2, <2>3 DEF ShowsMore
<1>8. CASE v = [u EXCEPT !.long = TRUE]
  <2>1. v = [u EXCEPT !.long = yes]
    BY <1>0, <1>8
  <2>2. v \in P!URLs
    BY <2>1 DEF P!URLs
  <2>3. /\ v.long = yes /\ v.ip = u.ip /\ v.label = u.label /\ v.below = u.below /\ v.depth = u.depth /\ v.userinfo = u.userinfo
        /\ v.script = u.script /\ v.domain = u.domain /\ v.hyphens = u.hyphens /\ v.digits = u.digits /\ v.keywords = u.keywords
    BY <2>1 DEF P!URLs
  <2> QED
    BY <1>0, <1>2, <2>2, <2>3 DEF ShowsMore
<1>9. CASE v = [u EXCEPT !.script = "punycode"]
  BY <1>2, <1>9 DEF P!URLs, ShowsMore
<1>10. CASE v = [u EXCEPT !.depth = P!Capped(@ + 1, 3)]
  <2>1. P!Capped(u.depth + 1, 3) \in 0 .. 3 /\ u.depth <= P!Capped(u.depth + 1, 3)
    BY <1>2 DEF P!Capped
  <2> QED
    BY <1>2, <1>10, <2>1 DEF P!URLs, ShowsMore
<1>11. ASSUME NEW b \in Brands, v = [u EXCEPT !.below = @ \cup {b}] PROVE v \in P!URLs /\ ShowsMore(u, v)
  <2>1. u.below \cup {b} \in SUBSET Brands
    BY DEF P!URLs
  <2> QED
    BY <1>2, <1>11, <2>1 DEF P!URLs, ShowsMore
<1>12. ASSUME u.domain = "plain", NEW d \in {"abused", "shortener"}, v = [u EXCEPT !.domain = d]
       PROVE  v \in P!URLs /\ ShowsMore(u, v)
  BY <1>2, <1>12 DEF P!URLs, ShowsMore
<1> QED
  BY <1>3, <1>4, <1>5, <1>6, <1>7, <1>8, <1>9, <1>10, <1>11, <1>12
  DEF P!More, P!MoreOfAny, P!MoreOfAName

(* The points for the brand: more names or more brands never cost any, but *)
(* for the label's own.                                                    *)
LEMMA BrandMonotone ==
  ASSUME NEW u, NEW v, v.label = u.label, u.below \subseteq v.below,
         NEW B, NEW C, B \subseteq C, u.label \notin C \ B
  PROVE  /\ P!BrandPoints(u, B) \in 0 .. 50
         /\ P!BrandPoints(u, B) <= P!BrandPoints(v, C)
<1>1. P!LookAlike(v) = P!LookAlike(u) /\ P!LookAlike(u) \in 40 .. 50
  BY BonusBounds DEF P!LookAlike
<1>2. P!Typosquat(u, B) => P!Typosquat(v, C)
  BY DEF P!Typosquat
<1>3. P!Impersonation(u, B) => P!Impersonation(v, C)
  BY DEF P!Impersonation
<1>4. /\ P!Bonus(P!Impersonation(u, B), 30) \in 0 .. 30
      /\ P!Bonus(P!Impersonation(v, C), 30) \in 0 .. 30
      /\ P!Bonus(P!Impersonation(u, B), 30) <= P!Bonus(P!Impersonation(v, C), 30)
  BY <1>3 DEF P!Bonus
<1> QED
  BY <1>1, <1>2, <1>4 DEF P!BrandPoints

LEMMA PointsBounds ==
  ASSUME NEW u \in P!URLs, NEW B
  PROVE  LET p == P!Points(u, B) IN
         /\ p.address \in 0 .. 35 /\ p.userinfo \in 0 .. 30 /\ p.script \in 0 .. 30
         /\ p.brand \in 0 .. 50 /\ p.domain \in 0 .. 15 /\ p.structure \in 0 .. 28
         /\ p.length \in 0 .. 6 /\ p.keywords \in 0 .. 20
<1>1. P!Bonus(u.ip, 35) \in 0 .. 35 /\ P!Bonus(u.userinfo, 30) \in 0 .. 30 /\ P!Bonus(u.long, 6) \in 0 .. 6
  BY BonusBounds
<1>2. P!Bonus(u.script = "punycode", 30) + P!Bonus(u.script = "other", 25) \in 0 .. 30
  BY DEF P!Bonus
<1>3. P!Bonus(u.domain = "abused", 15) + P!Bonus(u.domain = "shortener", 12) \in 0 .. 15
  BY DEF P!Bonus
<1>4. P!BrandPoints(u, B) \in 0 .. 50
  BY BrandMonotone
<1>5. P!Bonus(~u.ip, P!Bonus(u.depth >= 3, 12) + P!Bonus(u.depth = 2, 6)
                       + P!Bonus(u.hyphens, 8) + P!Bonus(u.digits, 8)) \in 0 .. 28
  <2>1. P!Bonus(u.depth >= 3, 12) + P!Bonus(u.depth = 2, 6) \in 0 .. 12
    BY URLFields DEF P!Bonus
  <2>2. P!Bonus(u.hyphens, 8) \in 0 .. 8 /\ P!Bonus(u.digits, 8) \in 0 .. 8
    BY BonusBounds
  <2> DEFINE n == P!Bonus(u.depth >= 3, 12) + P!Bonus(u.depth = 2, 6)
                    + P!Bonus(u.hyphens, 8) + P!Bonus(u.digits, 8)
  <2>3. n \in 0 .. 28
    BY <2>1, <2>2
  <2> HIDE DEF n
  <2>4. P!Bonus(~u.ip, n) \in 0 .. 28
    BY <2>3, BonusBounds
  <2> QED
    BY <2>4 DEF n
<1>6. P!KeywordPoints(u) \in 0 .. 20
  <2>1. u.keywords * 5 \in Nat
    BY URLFields
  <2> QED
    BY <2>1 DEF P!KeywordPoints, P!Capped
<1> QED
  BY <1>1, <1>2, <1>3, <1>4, <1>5, <1>6 DEF P!Points

LEMMA PointsMonotone ==
  ASSUME NEW u \in P!URLs, NEW v \in P!URLs, ShowsMore(u, v),
         NEW B, NEW C, B \subseteq C, u.label \notin C \ B
  PROVE  LET p == P!Points(u, B)
             q == P!Points(v, C)
         IN  /\ p.address <= q.address /\ p.userinfo <= q.userinfo /\ p.script <= q.script
             /\ p.brand <= q.brand /\ p.domain <= q.domain /\ p.structure <= q.structure
             /\ p.length <= q.length /\ p.keywords <= q.keywords
<1>1. /\ P!Bonus(u.ip, 35) <= P!Bonus(v.ip, 35)
      /\ P!Bonus(u.userinfo, 30) <= P!Bonus(v.userinfo, 30)
      /\ P!Bonus(u.long, 6) <= P!Bonus(v.long, 6)
      /\ P!Bonus(u.hyphens, 8) <= P!Bonus(v.hyphens, 8)
      /\ P!Bonus(u.digits, 8) <= P!Bonus(v.digits, 8)
  BY BonusMore DEF ShowsMore
<1>2. P!Bonus(u.script = "punycode", 30) + P!Bonus(u.script = "other", 25)
        <= P!Bonus(v.script = "punycode", 30) + P!Bonus(v.script = "other", 25)
  BY DEF P!Bonus, ShowsMore
<1>3. P!Bonus(u.domain = "abused", 15) + P!Bonus(u.domain = "shortener", 12)
        <= P!Bonus(v.domain = "abused", 15) + P!Bonus(v.domain = "shortener", 12)
  BY DEF P!Bonus, ShowsMore
<1>4. P!BrandPoints(u, B) <= P!BrandPoints(v, C)
  BY BrandMonotone DEF ShowsMore
<1>5. P!Bonus(~u.ip, P!Bonus(u.depth >= 3, 12) + P!Bonus(u.depth = 2, 6)
                       + P!Bonus(u.hyphens, 8) + P!Bonus(u.digits, 8))
        <= P!Bonus(~v.ip, P!Bonus(v.depth >= 3, 12) + P!Bonus(v.depth = 2, 6)
                       + P!Bonus(v.hyphens, 8) + P!Bonus(v.digits, 8))
  <2>1. P!Bonus(u.depth >= 3, 12) + P!Bonus(u.depth = 2, 6)
          <= P!Bonus(v.depth >= 3, 12) + P!Bonus(v.depth = 2, 6)
    BY URLFields DEF P!Bonus, ShowsMore
  <2>2. /\ P!Bonus(u.hyphens, 8) \in Nat /\ P!Bonus(u.digits, 8) \in Nat
        /\ P!Bonus(v.hyphens, 8) \in Nat /\ P!Bonus(v.digits, 8) \in Nat
        /\ P!Bonus(u.depth >= 3, 12) \in Nat /\ P!Bonus(u.depth = 2, 6) \in Nat
        /\ P!Bonus(v.depth >= 3, 12) \in Nat /\ P!Bonus(v.depth = 2, 6) \in Nat
    BY BonusBounds
  <2> DEFINE m == P!Bonus(u.depth >= 3, 12) + P!Bonus(u.depth = 2, 6)
                    + P!Bonus(u.hyphens, 8) + P!Bonus(u.digits, 8)
             n == P!Bonus(v.depth >= 3, 12) + P!Bonus(v.depth = 2, 6)
                    + P!Bonus(v.hyphens, 8) + P!Bonus(v.digits, 8)
  <2>3. m \in Nat /\ n \in Nat /\ m <= n
    BY <1>1, <2>1, <2>2
  <2> HIDE DEF m, n
  <2>4. P!Bonus(~u.ip, m) <= P!Bonus(~v.ip, n)
    BY <2>3 DEF P!Bonus, ShowsMore
  <2> QED
    BY <2>4 DEF m, n
<1>6. P!KeywordPoints(u) <= P!KeywordPoints(v)
  <2>1. u.keywords * 5 \in Nat /\ v.keywords * 5 \in Nat /\ u.keywords * 5 <= v.keywords * 5
    BY URLFields DEF ShowsMore
  <2> QED
    BY <2>1, CapMonotone DEF P!KeywordPoints
<1> QED
  BY <1>1, <1>2, <1>3, <1>4, <1>5, <1>6 DEF P!Points

LEMMA ScoreMonotone ==
  ASSUME NEW u \in P!URLs, NEW v \in P!URLs, ShowsMore(u, v),
         NEW B, NEW C, B \subseteq C, u.label \notin C \ B
  PROVE  P!analyze_url(u, B).score <= P!analyze_url(v, C).score
<1> DEFINE p == P!Points(u, B)
           q == P!Points(v, C)
<1>1. /\ p.address \in Nat /\ p.userinfo \in Nat /\ p.script \in Nat /\ p.brand \in Nat
      /\ p.domain \in Nat /\ p.structure \in Nat /\ p.length \in Nat /\ p.keywords \in Nat
  BY PointsBounds
<1>2. /\ q.address \in Nat /\ q.userinfo \in Nat /\ q.script \in Nat /\ q.brand \in Nat
      /\ q.domain \in Nat /\ q.structure \in Nat /\ q.length \in Nat /\ q.keywords \in Nat
  BY PointsBounds
<1>3. /\ p.address <= q.address /\ p.userinfo <= q.userinfo /\ p.script <= q.script
      /\ p.brand <= q.brand /\ p.domain <= q.domain /\ p.structure <= q.structure
      /\ p.length <= q.length /\ p.keywords <= q.keywords
  BY PointsMonotone
<1> HIDE DEF p, q
<1>4. P!Total(p) \in Nat /\ P!Total(q) \in Nat /\ P!Total(p) <= P!Total(q)
  BY <1>1, <1>2, <1>3 DEF P!Total
<1>5. P!Capped(P!Total(p), 100) <= P!Capped(P!Total(q), 100)
  BY <1>4, CapMonotone
<1> QED
  BY <1>5 DEF P!analyze_url, P!Verdict, p, q

(* The verdict is that of the URL and the brands there are. *)
VerdictInv ==
  url \in P!URLs /\ protected \in SUBSET Brands /\ verdict = P!analyze_url(url, protected)

LEMMA InitVerdict == P!Init => VerdictInv
<1> SUFFICES ASSUME P!Init PROVE VerdictInv
  OBVIOUS
<1>1. 0 \in KeywordCounts
  BY DetectionAssumption DEF P!PhishingAssumption
<1>2. ASSUME NEW label \in Labels
      PROVE  P!Plain(label) \in P!URLs /\ P!Address(label) \in P!URLs
  <2>1. (P!DigitsIn(label) >= 4) \in BOOLEAN
    OBVIOUS
  <2>2. P!Plain(label) \in P!URLs
    BY <1>1, <2>1 DEF P!Plain, P!URLs
  <2>3. PICK yes \in BOOLEAN : yes = TRUE
    OBVIOUS
  <2>4. P!Address(label) = [P!Plain(label) EXCEPT !.ip = yes, !.depth = 2, !.digits = yes]
    BY <2>3 DEF P!Address
  <2>5. P!Address(label) =
          [ip |-> yes, label |-> label, below |-> {}, depth |-> 2, userinfo |-> FALSE,
           script |-> "ascii", domain |-> "plain", hyphens |-> FALSE, digits |-> yes,
           long |-> FALSE, keywords |-> 0]
    BY <2>4 DEF P!Plain
  <2>6. P!Address(label) \in P!URLs
    BY <1>1, <2>5 DEF P!URLs
  <2> QED
    BY <2>2, <2>6
<1> QED
  BY <1>2 DEF P!Init, VerdictInv

LEMMA NextVerdict ==
  ASSUME VerdictInv, P!Next
  PROVE  /\ VerdictInv'
         /\ url.label \notin protected' \ protected => verdict.score <= verdict'.score
<1>1. CASE P!Gain
  <2>1. url' \in P!URLs /\ ShowsMore(url, url')
    BY <1>1, MoreShowsMore DEF P!Gain, VerdictInv
  <2>2. verdict' = P!analyze_url(url', protected) /\ protected' = protected
    BY <1>1 DEF P!Gain
  <2>3. verdict.score <= verdict'.score
    BY <2>1, <2>2, ScoreMonotone DEF VerdictInv
  <2> QED
    BY <2>1, <2>2, <2>3 DEF VerdictInv
<1>2. ASSUME NEW b \in Brands, P!Protect(b)
      PROVE  /\ VerdictInv'
             /\ url.label \notin protected' \ protected => verdict.score <= verdict'.score
  <2>1. /\ protected' = protected \cup {b} /\ url' = url
        /\ verdict' = P!analyze_url(url, protected')
    BY <1>2 DEF P!Protect
  <2>2. url \in P!URLs /\ ShowsMore(url, url)
    BY URLFields DEF VerdictInv, ShowsMore
  <2>3. url.label \notin protected' \ protected => verdict.score <= verdict'.score
    BY <2>1, <2>2, ScoreMonotone DEF VerdictInv
  <2> QED
    BY <2>1, <2>3 DEF VerdictInv
<1> QED
  BY <1>1, <1>2 DEF P!Next

LEMMA VerdictStep ==
  ASSUME VerdictInv, [MCNext]_<<part, vars, import, intel, phishing, normal>>
  PROVE  /\ VerdictInv'
         /\ [url.label \notin protected' \ protected => verdict.score <= verdict'.score]_phishing
<1>1. CASE UNCHANGED phishing
  BY <1>1 DEF phishing, VerdictInv
<1>2. UNCHANGED phishing \/ P!Next
  BY DEF MCNext, Scored, Imported, Loaded, Analysed, Normalised
<1> QED
  BY <1>1, <1>2, NextVerdict

(* A URL that shows more, or one more protected brand, is judged no        *)
(* milder, for any labels and brands and any number of alarm words         *)
(* (analyze_url of detection/phishing.py).                                 *)
THEOREM MoreNeverHelps == MCSpec => MoreIsNoMilder
<1>1. MCInit => VerdictInv
  BY InitVerdict DEF MCInit
<1>3. ASSUME VerdictInv, [MCNext]_<<part, vars, import, intel, phishing, normal>>
      PROVE  [url.label \notin protected' \ protected => verdict.score <= verdict'.score]_(P!vars)
  BY <1>3, VerdictStep DEF P!vars, phishing
<1> QED
  BY <1>1, <1>3, VerdictStep, PTL DEF MCSpec, MoreIsNoMilder, P!MoreIsNoMilder

(* A verdict of high risk has signs of two kinds, whatever the URL. *)
LEMMA HighNeedsTwo == VerdictInv => P!HighIsCorroborated
<1> SUFFICES ASSUME VerdictInv PROVE P!HighIsCorroborated
  OBVIOUS
<1> DEFINE p == P!Points(url, protected)
<1>1. /\ p.address \in 0 .. 35 /\ p.userinfo \in 0 .. 30 /\ p.script \in 0 .. 30
      /\ p.brand \in 0 .. 50 /\ p.domain \in 0 .. 15 /\ p.structure \in 0 .. 28
      /\ p.length \in 0 .. 6 /\ p.keywords \in 0 .. 20
  BY PointsBounds DEF VerdictInv
<1>2. DOMAIN p = {"address", "userinfo", "script", "brand", "domain", "structure", "length", "keywords"}
  BY DEF P!Points
<1> HIDE DEF p
<1>3. P!Total(p) \in Nat
  <2>1. /\ p.address \in Nat /\ p.userinfo \in Nat /\ p.script \in Nat /\ p.brand \in Nat
        /\ p.domain \in Nat /\ p.structure \in Nat /\ p.length \in Nat /\ p.keywords \in Nat
    BY <1>1
  <2> QED
    BY <2>1 DEF P!Total
<1>4. SUFFICES ASSUME verdict.risk = "high", \A i, j \in DOMAIN p : i = j \/ ~(p[i] > 0) \/ ~(p[j] > 0)
               PROVE  FALSE
  BY DEF P!HighIsCorroborated, p
<1>5. P!Total(p) >= 60
  <2>1. verdict.risk = (IF P!Capped(P!Total(p), 100) >= 60 THEN "high"
                        ELSE IF P!Capped(P!Total(p), 100) >= 30 THEN "suspicious" ELSE "low")
    BY DEF VerdictInv, P!analyze_url, P!Verdict, p
  <2> QED
    BY <1>3, <1>4, <2>1 DEF P!Capped
<1>6. \A i, j \in DOMAIN p : i = j \/ ~(p[i] > 0) \/ ~(p[j] > 0)
  BY <1>4
<1>7. p.address > 0 => p.userinfo + p.script + p.brand + p.domain + p.structure + p.length + p.keywords = 0
  BY <1>1, <1>2, <1>6
<1> QED
  BY <1>1, <1>2, <1>5, <1>6, <1>7 DEF P!Total

LEMMA VerdictTypes == VerdictInv => P!TypeOK
<1> SUFFICES ASSUME VerdictInv PROVE P!TypeOK
  OBVIOUS
<1> DEFINE p == P!Points(url, protected)
<1>1. P!Total(p) \in Nat
  <2>1. /\ p.address \in 0 .. 35 /\ p.userinfo \in 0 .. 30 /\ p.script \in 0 .. 30
        /\ p.brand \in 0 .. 50 /\ p.domain \in 0 .. 15 /\ p.structure \in 0 .. 28
        /\ p.length \in 0 .. 6 /\ p.keywords \in 0 .. 20
    BY PointsBounds DEF VerdictInv
  <2> HIDE DEF p
  <2>2. /\ p.address \in Nat /\ p.userinfo \in Nat /\ p.script \in Nat /\ p.brand \in Nat
        /\ p.domain \in Nat /\ p.structure \in Nat /\ p.length \in Nat /\ p.keywords \in Nat
    BY <2>1
  <2> QED BY <2>2 DEF P!Total
<1>2. P!Capped(P!Total(p), 100) \in 0 .. 100
  <2>1. PICK n : n = P!Total(p)
    OBVIOUS
  <2>2. P!Capped(n, 100) \in 0 .. 100
    BY <1>1, <2>1 DEF P!Capped
  <2> QED BY <2>1, <2>2
<1>3. verdict = P!Verdict(P!Capped(P!Total(p), 100))
  BY DEF VerdictInv, P!analyze_url
<1> HIDE DEF p
<1>4. verdict.score \in 0 .. 100 /\ verdict.risk \in {"low", "suspicious", "high"}
  BY <1>2, <1>3 DEF P!Verdict
<1> QED BY <1>4 DEF VerdictInv, P!TypeOK

-----------------------------------------------------------------------------
(* The edit distance of module Phishing: the table of _levenshtein holds    *)
(* the distances of all beginnings of two words, an edit of a word takes    *)
(* it no more than one farther from any other, and words at a distance of   *)
(* one or two are that many edits apart.                                    *)
Cell(a, b, g, i, j) ==
  IF i = 0 \/ j = 0 THEN i + j
  ELSE P!Min({g[<<i - 1, j>>] + 1, g[<<i, j - 1>>] + 1, g[<<i - 1, j - 1>>] + P!Bonus(a[i] # b[j], 1)})
Fills(a, b, g) == g = [c \in (0 .. Len(a)) \X (0 .. Len(b)) |-> Cell(a, b, g, c[1], c[2])]
Table(a, b) == CHOOSE g : Fills(a, b, g)

LEMMA Opens ==
  ASSUME NEW a, NEW b
  PROVE  P!levenshtein(a, b) = Table(a, b)[<<Len(a), Len(b)>>]
  BY DEF P!levenshtein, Table, Fills, Cell

(* Every nonempty set of naturals has a least one. *)
LEMMA LeastOf ==
  ASSUME NEW X \in SUBSET Nat, NEW n \in X
  PROVE  \E x \in X : \A y \in X : x <= y
<1>1. PICK x \in X : \A y \in X : ~(<<y, x>> \in OpToRel(<, Nat))
  BY WFMin, NatLessThanWellFounded
<1>2. ASSUME NEW y \in X PROVE x <= y
  <2>1. x \in Nat /\ y \in Nat /\ ~(y < x)
    BY <1>1 DEF OpToRel
  <2> QED BY <2>1
<1> QED BY <1>2

(* The table up to the k-th diagonal. *)
Upto(a, b, g, k) ==
  \A i \in 0 .. Len(a), j \in 0 .. Len(b) : i + j <= k => g[<<i, j>>] = Cell(a, b, g, i, j)
Cells(a, b) == (0 .. Len(a)) \X (0 .. Len(b))
Grid(a, b, g) == g = [c \in Cells(a, b) |-> g[c]]

LEMMA CellSame ==
  ASSUME NEW a, NEW b, NEW g, NEW h, NEW i \in Nat, NEW j \in Nat,
         i >= 1 /\ j >= 1 => /\ g[<<i - 1, j>>] = h[<<i - 1, j>>] /\ g[<<i, j - 1>>] = h[<<i, j - 1>>]
                             /\ g[<<i - 1, j - 1>>] = h[<<i - 1, j - 1>>]
  PROVE  Cell(a, b, g, i, j) = Cell(a, b, h, i, j)
<1>1. CASE i = 0 \/ j = 0
  BY <1>1 DEF Cell
<1>2. CASE ~(i = 0 \/ j = 0)
  <2>1. i >= 1 /\ j >= 1
    BY <1>2
  <2> QED BY <1>2, <2>1, Zenon DEF Cell
<1> QED BY <1>1, <1>2

LEMMA NextDiagonal ==
  ASSUME NEW a, NEW b, Len(a) \in Nat, Len(b) \in Nat, NEW k \in Nat, NEW g, Grid(a, b, g),
         Upto(a, b, g, k)
  PROVE  \E h : Grid(a, b, h) /\ Upto(a, b, h, k + 1)
<1> DEFINE h == [c \in Cells(a, b) |->
                   IF c[1] + c[2] <= k THEN g[c] ELSE Cell(a, b, g, c[1], c[2])]
<1>1. \A i \in 0 .. Len(a), j \in 0 .. Len(b) :
        h[<<i, j>>] = IF i + j <= k THEN g[<<i, j>>] ELSE Cell(a, b, g, i, j)
  BY DEF Cells
<1>2. Grid(a, b, h)
  BY <1>1, Zenon DEF Grid
<1> HIDE DEF h
<1>3. ASSUME NEW i \in 0 .. Len(a), NEW j \in 0 .. Len(b), i + j <= k + 1
      PROVE  h[<<i, j>>] = Cell(a, b, h, i, j)
  <2>1. i >= 1 /\ j >= 1 =>
          /\ i - 1 \in 0 .. Len(a) /\ j - 1 \in 0 .. Len(b)
          /\ (i - 1) + j <= k /\ i + (j - 1) <= k /\ (i - 1) + (j - 1) <= k
    BY <1>3
  <2>2. i >= 1 /\ j >= 1 => /\ g[<<i - 1, j>>] = h[<<i - 1, j>>] /\ g[<<i, j - 1>>] = h[<<i, j - 1>>]
                             /\ g[<<i - 1, j - 1>>] = h[<<i - 1, j - 1>>]
    BY <1>1, <2>1, Zenon
  <2>3. i \in Nat /\ j \in Nat
    OBVIOUS
  <2>4. Cell(a, b, g, i, j) = Cell(a, b, h, i, j)
    BY <2>2, <2>3, CellSame
  <2>5. h[<<i, j>>] = Cell(a, b, g, i, j)
    BY <1>1, Zenon DEF Upto
  <2> QED BY <2>4, <2>5
<1> QED BY <1>2, <1>3, Zenon DEF Upto

LEMMA TableFills ==
  ASSUME NEW a, NEW b, Len(a) \in Nat, Len(b) \in Nat
  PROVE  Fills(a, b, Table(a, b))
<1> DEFINE Has(k) == \E g : Grid(a, b, g) /\ Upto(a, b, g, k)
           Bad == {k \in Nat : ~Has(k)}
<1>1. Has(0)
  <2> DEFINE g == [c \in Cells(a, b) |-> 0]
  <2>1. \A i \in 0 .. Len(a), j \in 0 .. Len(b) : g[<<i, j>>] = 0
    BY DEF Cells
  <2>2. Grid(a, b, g)
    BY <2>1, Zenon DEF Grid
  <2> HIDE DEF g
  <2>3. ASSUME NEW i \in 0 .. Len(a), NEW j \in 0 .. Len(b), i + j <= 0
        PROVE  g[<<i, j>>] = Cell(a, b, g, i, j)
    <3>1. i = 0 /\ j = 0 /\ i + j = 0
      BY <2>3
    <3> QED BY <2>1, <3>1, Zenon DEF Cell
  <2> QED BY <2>2, <2>3, Zenon DEF Upto
<1>2. \A k \in Nat : Has(k) => Has(k + 1)
  BY NextDiagonal
<1> HIDE DEF Has
<1>3. Bad = {}
  <2> SUFFICES ASSUME Bad # {} PROVE FALSE
    OBVIOUS
  <2>1. PICK n : n \in Bad
    OBVIOUS
  <2>2. Bad \in SUBSET Nat
    OBVIOUS
  <2>3. PICK x \in Bad : \A y \in Bad : x <= y
    <3> HIDE DEF Bad
    <3> QED BY <2>1, <2>2, LeastOf
  <2>4. x \in Nat /\ ~Has(x) /\ x # 0
    BY <1>1
  <2>5. x - 1 \in Nat /\ ~(x <= x - 1) /\ (x - 1) + 1 = x
    BY <2>4
  <2>6. Has(x - 1)
    <3>1. x - 1 \notin Bad
      <4> HIDE DEF Bad
      <4> QED BY <2>3, <2>5
    <3> QED BY <2>5, <3>1
  <2> QED BY <1>2, <2>4, <2>5, <2>6
<1>4. Has(Len(a) + Len(b))
  <2>1. Len(a) + Len(b) \in Nat
    OBVIOUS
  <2> QED BY <1>3, <2>1
<1>5. PICK g : Grid(a, b, g) /\ Upto(a, b, g, Len(a) + Len(b))
  BY <1>4 DEF Has
<1>6. \A i \in 0 .. Len(a), j \in 0 .. Len(b) : g[<<i, j>>] = Cell(a, b, g, i, j)
  <2>1. \A i \in 0 .. Len(a), j \in 0 .. Len(b) : i + j <= Len(a) + Len(b)
    OBVIOUS
  <2> QED BY <1>5, <2>1, Zenon DEF Upto
<1>7. Fills(a, b, g)
  <2>1. \A c \in Cells(a, b) : g[c] = Cell(a, b, g, c[1], c[2])
    <3>1. \A c \in Cells(a, b) : c[1] \in 0 .. Len(a) /\ c[2] \in 0 .. Len(b) /\ c = <<c[1], c[2]>>
      BY DEF Cells
    <3> QED BY <1>6, <3>1
  <2>2. g = [c \in Cells(a, b) |-> g[c]]
    BY <1>5 DEF Grid
  <2>3. [c \in Cells(a, b) |-> g[c]] = [c \in Cells(a, b) |-> Cell(a, b, g, c[1], c[2])]
    BY <2>1
  <2> QED BY <2>2, <2>3, Zenon DEF Cells, Fills
<1> QED BY <1>7, Zenon DEF Table

-----------------------------------------------------------------------------
(* The distance of the first i of a from the first j of b. *)
Words == Seq(Letters \cup Digits)
Dist(a, b, i, j) == Table(a, b)[<<i, j>>]
Diff(x, y) == P!Bonus(x # y, 1)

LEMMA DistCell ==
  ASSUME NEW a \in Words, NEW b \in Words, NEW i \in 0 .. Len(a), NEW j \in 0 .. Len(b)
  PROVE  Dist(a, b, i, j) = Cell(a, b, Table(a, b), i, j)
<1>1. Len(a) \in Nat /\ Len(b) \in Nat
  BY DEF Words
<1>2. PICK g : g = Table(a, b)
  OBVIOUS
<1>3. Fills(a, b, Table(a, b))
  BY <1>1, TableFills
<1>4. Fills(a, b, g)
  BY <1>2, <1>3
<1>5. g[<<i, j>>] = Cell(a, b, g, i, j)
  BY <1>4 DEF Fills
<1> QED BY <1>2, <1>5 DEF Dist

LEMMA DistEdge ==
  ASSUME NEW a \in Words, NEW b \in Words, NEW i \in 0 .. Len(a), NEW j \in 0 .. Len(b),
         i = 0 \/ j = 0
  PROVE  Dist(a, b, i, j) = i + j
<1>1. Dist(a, b, i, j) = Cell(a, b, Table(a, b), i, j)
  BY DistCell
<1> QED BY <1>1, Zenon DEF Cell

LEMMA DistInner ==
  ASSUME NEW a \in Words, NEW b \in Words, NEW i \in 0 .. Len(a), NEW j \in 0 .. Len(b),
         ~(i = 0 \/ j = 0),
         NEW u, u = Dist(a, b, i - 1, j) + 1, NEW v, v = Dist(a, b, i, j - 1) + 1,
         NEW w, w = Dist(a, b, i - 1, j - 1) + Diff(a[i], b[j])
  PROVE  Dist(a, b, i, j) = P!Min({u, v, w})
<1>1. Dist(a, b, i, j) = Cell(a, b, Table(a, b), i, j)
  BY DistCell
<1>2. u = Table(a, b)[<<i - 1, j>>] + 1 /\ v = Table(a, b)[<<i, j - 1>>] + 1
      /\ w = Table(a, b)[<<i - 1, j - 1>>] + P!Bonus(a[i] # b[j], 1)
  BY Zenon DEF Dist, Diff
<1> QED BY <1>1, <1>2, Zenon DEF Cell

LEMMA MinThree ==
  ASSUME NEW x \in Nat, NEW y \in Nat, NEW z \in Nat, NEW m, m = P!Min({x, y, z})
  PROVE  m \in {x, y, z} /\ m <= x /\ m <= y /\ m <= z
<1> DEFINE X == {x, y, z}
<1>1. X \in SUBSET Nat /\ x \in X /\ y \in X /\ z \in X
  OBVIOUS
<1> HIDE DEF X
<1>2. \E l \in X : \A k \in X : l <= k
  BY <1>1, LeastOf
<1>3. m = CHOOSE l \in X : \A k \in X : l <= k
  BY DEF X, P!Min
<1>4. m \in X /\ \A k \in X : m <= k
  BY <1>2, <1>3
<1> QED BY <1>1, <1>4 DEF X

LEMMA DistNat ==
  ASSUME NEW a \in Words, NEW b \in Words
  PROVE  \A i \in 0 .. Len(a), j \in 0 .. Len(b) : Dist(a, b, i, j) \in Nat
<1>0. Len(a) \in Nat /\ Len(b) \in Nat
  BY DEF Words
<1> DEFINE Fine(k) == \A i \in 0 .. Len(a), j \in 0 .. Len(b) : i + j = k => Dist(a, b, i, j) \in Nat
           Bad == {k \in Nat : ~Fine(k)}
<1>1. Bad = {}
  <2> SUFFICES ASSUME Bad # {} PROVE FALSE
    OBVIOUS
  <2>1. PICK x \in Bad : \A y \in Bad : x <= y
    <3>1. PICK n : n \in Bad
      OBVIOUS
    <3>2. Bad \in SUBSET Nat
      OBVIOUS
    <3> HIDE DEF Bad
    <3> QED BY <3>1, <3>2, LeastOf
  <2>2. x \in Nat
    OBVIOUS
  <2>3. PICK i \in 0 .. Len(a), j \in 0 .. Len(b) : i + j = x /\ Dist(a, b, i, j) \notin Nat
    OBVIOUS
  <2>4. \A k \in Nat : k < x => Fine(k)
    <3> SUFFICES ASSUME NEW k \in Nat, k < x PROVE Fine(k)
      OBVIOUS
    <3>1. k \notin Bad
      <4> HIDE DEF Bad
      <4> QED BY <2>1, <2>2
    <3> QED BY <3>1
  <2>5. CASE i = 0 \/ j = 0
    <3>1. Dist(a, b, i, j) = i + j
      <4> HIDE DEF Bad, Fine
      <4> QED BY <2>5, DistEdge
    <3> QED BY <1>0, <2>3, <3>1
  <2>6. CASE i >= 1 /\ j >= 1
    <3>1. /\ i - 1 \in 0 .. Len(a) /\ j - 1 \in 0 .. Len(b)
          /\ (i - 1) + j = x - 1 /\ i + (j - 1) = x - 1 /\ (i - 1) + (j - 1) = x - 2
          /\ x - 1 \in Nat /\ x - 2 \in Nat /\ x - 1 < x /\ x - 2 < x
          /\ ~(i = 0 \/ j = 0)
      BY <1>0, <2>2, <2>3, <2>6
    <3>2. Fine(x - 1) /\ Fine(x - 2)
      BY <2>4, <3>1
    <3>3. /\ Dist(a, b, i - 1, j) \in Nat /\ Dist(a, b, i, j - 1) \in Nat
          /\ Dist(a, b, i - 1, j - 1) \in Nat
      BY <3>1, <3>2
    <3>4. Diff(a[i], b[j]) \in Nat
      BY DEF Diff, P!Bonus
    <3>5. PICK u, v, w : /\ u = Dist(a, b, i - 1, j) + 1 /\ v = Dist(a, b, i, j - 1) + 1
                         /\ w = Dist(a, b, i - 1, j - 1) + Diff(a[i], b[j])
      OBVIOUS
    <3>6. u \in Nat /\ v \in Nat /\ w \in Nat
      <4>1. PICK k, l, m, n : /\ k = Dist(a, b, i - 1, j) /\ l = Dist(a, b, i, j - 1)
                              /\ m = Dist(a, b, i - 1, j - 1) /\ n = Diff(a[i], b[j])
        OBVIOUS
      <4>2. k \in Nat /\ l \in Nat /\ m \in Nat /\ n \in Nat
        BY <3>3, <3>4, <4>1
      <4>3. u = k + 1 /\ v = l + 1 /\ w = m + n
        BY <3>5, <4>1
      <4> QED BY <4>2, <4>3
    <3>7. Dist(a, b, i, j) = P!Min({u, v, w})
      <4>1. ~(i = 0 \/ j = 0)
        BY <3>1
      <4> HIDE DEF Bad, Fine
      <4> QED BY <3>5, <4>1, DistInner
    <3>8. Dist(a, b, i, j) \in {u, v, w}
      BY <3>6, <3>7, MinThree
    <3> QED BY <2>3, <3>6, <3>8
  <2> QED BY <2>5, <2>6
<1>2. ASSUME NEW i \in 0 .. Len(a), NEW j \in 0 .. Len(b) PROVE Dist(a, b, i, j) \in Nat
  <2>1. i + j \in Nat
    OBVIOUS
  <2>2. Fine(i + j)
    BY <1>1, <2>1
  <2> QED BY <2>2
<1> QED BY <1>2

(* What the table says of a cell and the cells before it. *)
Rules(a, b, i, j) ==
  /\ Dist(a, b, i, j) \in Nat /\ (i = 0 => Dist(a, b, i, j) = j)
  /\ i >= 1 => /\ Dist(a, b, i - 1, j) \in Nat
               /\ Dist(a, b, i, j) <= Dist(a, b, i - 1, j) + 1
  /\ j >= 1 => /\ Dist(a, b, i, j - 1) \in Nat
               /\ Dist(a, b, i, j) <= Dist(a, b, i, j - 1) + 1
  /\ i >= 1 /\ j >= 1 => /\ Dist(a, b, i - 1, j - 1) \in Nat
                         /\ Dist(a, b, i, j) <= Dist(a, b, i - 1, j - 1) + Diff(a[i], b[j])
  /\ \/ i = 0 /\ j = 0
     \/ i >= 1 /\ Dist(a, b, i, j) = Dist(a, b, i - 1, j) + 1
     \/ j >= 1 /\ Dist(a, b, i, j) = Dist(a, b, i, j - 1) + 1
     \/ i >= 1 /\ j >= 1 /\ Dist(a, b, i, j) = Dist(a, b, i - 1, j - 1) + Diff(a[i], b[j])

LEMMA DistRules ==
  ASSUME NEW a \in Words, NEW b \in Words, NEW i \in 0 .. Len(a), NEW j \in 0 .. Len(b)
  PROVE  Rules(a, b, i, j)
<1>0. Len(a) \in Nat /\ Len(b) \in Nat /\ i \in Nat /\ j \in Nat
  BY DEF Words
<1>1. Dist(a, b, i, j) \in Nat
  BY DistNat
<1>2. i >= 1 => i - 1 \in 0 .. Len(a) /\ Dist(a, b, i - 1, j) \in Nat
  <2>1. i >= 1 => i - 1 \in 0 .. Len(a)
    BY <1>0
  <2> QED BY <2>1, DistNat
<1>3. j >= 1 => j - 1 \in 0 .. Len(b) /\ Dist(a, b, i, j - 1) \in Nat
  <2>1. j >= 1 => j - 1 \in 0 .. Len(b)
    BY <1>0
  <2> QED BY <2>1, DistNat
<1>4. CASE i = 0 \/ j = 0
  <2>1. Dist(a, b, i, j) = i + j
    BY <1>4, DistEdge
  <2>2. i >= 1 => j = 0 /\ Dist(a, b, i - 1, j) = i - 1
    <3>1. i >= 1 => j = 0 /\ i - 1 \in 0 .. Len(a)
      BY <1>0, <1>4
    <3>2. i >= 1 => Dist(a, b, i - 1, j) = (i - 1) + j
      BY <3>1, DistEdge
    <3> QED BY <1>0, <3>1, <3>2
  <2>3. j >= 1 => i = 0 /\ Dist(a, b, i, j - 1) = j - 1
    <3>1. j >= 1 => i = 0 /\ j - 1 \in 0 .. Len(b)
      BY <1>0, <1>4
    <3>2. j >= 1 => Dist(a, b, i, j - 1) = i + (j - 1)
      BY <3>1, DistEdge
    <3> QED BY <1>0, <3>1, <3>2
  <2> QED BY <1>0, <1>1, <1>2, <1>3, <1>4, <2>1, <2>2, <2>3 DEF Rules
<1>5. CASE i >= 1 /\ j >= 1
  <2>0. i - 1 \in 0 .. Len(a) /\ j - 1 \in 0 .. Len(b) /\ ~(i = 0 \/ j = 0)
    BY <1>0, <1>5
  <2>1. Dist(a, b, i - 1, j - 1) \in Nat
    BY <2>0, DistNat
  <2>2. Diff(a[i], b[j]) \in Nat
    BY DEF Diff, P!Bonus
  <2>3. PICK u, v, w : /\ u = Dist(a, b, i - 1, j) + 1 /\ v = Dist(a, b, i, j - 1) + 1
                       /\ w = Dist(a, b, i - 1, j - 1) + Diff(a[i], b[j])
    OBVIOUS
  <2>4. u \in Nat /\ v \in Nat /\ w \in Nat
    <3>1. \A m, n \in Nat : m + n \in Nat
      OBVIOUS
    <3>2. u \in Nat
      BY <1>2, <1>5, <2>3, <3>1
    <3>3. v \in Nat
      BY <1>3, <1>5, <2>3, <3>1
    <3>4. w \in Nat
      BY <2>1, <2>2, <2>3, <3>1
    <3> QED BY <3>2, <3>3, <3>4
  <2>5. Dist(a, b, i, j) = P!Min({u, v, w})
    BY <2>0, <2>3, DistInner
  <2>6. /\ Dist(a, b, i, j) \in {u, v, w} /\ Dist(a, b, i, j) <= u
        /\ Dist(a, b, i, j) <= v /\ Dist(a, b, i, j) <= w
    BY <2>4, <2>5, MinThree
  <2> QED BY <1>1, <1>2, <1>3, <1>5, <2>0, <2>1, <2>3, <2>6 DEF Rules
<1> QED BY <1>0, <1>4, <1>5

(* Strong induction, for a property given as a set. *)
LEMMA StrongInduction ==
  ASSUME NEW X, \A n \in Nat : (\A k \in Nat : k < n => k \in X) => n \in X
  PROVE  \A n \in Nat : n \in X
<1> DEFINE Bad == {n \in Nat : n \notin X}
<1> SUFFICES ASSUME NEW n \in Nat, n \notin X PROVE FALSE
  OBVIOUS
<1>1. n \in Bad /\ Bad \in SUBSET Nat
  OBVIOUS
<1>2. PICK x \in Bad : \A y \in Bad : x <= y
  <2> HIDE DEF Bad
  <2> QED BY <1>1, LeastOf
<1>3. x \in Nat /\ x \notin X
  OBVIOUS
<1>4. \A k \in Nat : k < x => k \in X
  <2> SUFFICES ASSUME NEW k \in Nat, k < x, k \notin X PROVE FALSE
    OBVIOUS
  <2>1. k \in Bad
    OBVIOUS
  <2>2. x <= k
    <3> HIDE DEF Bad
    <3> QED BY <1>2, <2>1
  <2> QED BY <1>3, <2>2
<1> QED BY <1>3, <1>4

(* One letter less of a word is no more than one edit farther. *)
LEMMA StepBack ==
  ASSUME NEW a \in Words, NEW b \in Words, NEW i \in 1 .. Len(a)
  PROVE  \A j \in 0 .. Len(b) : Dist(a, b, i - 1, j) <= Dist(a, b, i, j) + 1
<1>0. Len(a) \in Nat /\ Len(b) \in Nat
  BY DEF Words
<1> DEFINE X == {j \in Nat : j <= Len(b) => Dist(a, b, i - 1, j) <= Dist(a, b, i, j) + 1}
<1>1. ASSUME NEW j \in Nat, \A k \in Nat : k < j => k \in X PROVE j \in X
  <2> SUFFICES ASSUME j <= Len(b) PROVE Dist(a, b, i - 1, j) <= Dist(a, b, i, j) + 1
    OBVIOUS
  <2>1. /\ i \in 0 .. Len(a) /\ i - 1 \in 0 .. Len(a) /\ j \in 0 .. Len(b) /\ i \in Nat /\ i >= 1
    BY <1>0
  <2>2. Rules(a, b, i, j) /\ Rules(a, b, i - 1, j)
    BY <2>1, DistRules
  <2>3. Dist(a, b, i, j) \in Nat /\ Dist(a, b, i - 1, j) \in Nat
    BY <2>2 DEF Rules
  <2>4. CASE Dist(a, b, i, j) = Dist(a, b, i - 1, j) + 1
    BY <2>3, <2>4
  <2>5. CASE j >= 1 /\ Dist(a, b, i, j) = Dist(a, b, i, j - 1) + 1
    <3>1. j - 1 \in X /\ j - 1 <= Len(b)
      BY <1>0, <1>1, <2>1, <2>5
    <3>2. Dist(a, b, i - 1, j - 1) <= Dist(a, b, i, j - 1) + 1
      BY <3>1
    <3>3. /\ Dist(a, b, i - 1, j - 1) \in Nat /\ Dist(a, b, i, j - 1) \in Nat
          /\ Dist(a, b, i - 1, j) <= Dist(a, b, i - 1, j - 1) + 1
      BY <2>2, <2>5 DEF Rules
    <3> QED BY <2>3, <2>5, <3>2, <3>3
  <2>6. CASE j >= 1 /\ Dist(a, b, i, j) = Dist(a, b, i - 1, j - 1) + Diff(a[i], b[j])
    <3>1. /\ Dist(a, b, i - 1, j - 1) \in Nat
          /\ Dist(a, b, i - 1, j) <= Dist(a, b, i - 1, j - 1) + 1
      BY <2>2, <2>6 DEF Rules
    <3>2. Diff(a[i], b[j]) \in Nat
      BY DEF Diff, P!Bonus
    <3> QED BY <2>3, <2>6, <3>1, <3>2
  <2> QED BY <2>1, <2>2, <2>4, <2>5, <2>6 DEF Rules
<1>2. \A j \in Nat : j \in X
  <2> HIDE DEF X
  <2> QED BY <1>1, StrongInduction
<1> QED BY <1>0, <1>2

(* The same letters behind two words leave them as far from b as they were. *)
LEMMA SameLetters ==
  ASSUME NEW x \in Words, NEW w \in Words, NEW b \in Words, NEW e \in Nat, NEW n \in Nat,
         NEW q \in Nat, NEW r \in Nat, q + n <= Len(x), r + n <= Len(w),
         \A t \in 1 .. n : x[q + t] = w[r + t],
         \A j \in 0 .. Len(b) : Dist(x, b, q, j) <= Dist(w, b, r, j) + e
  PROVE  \A t \in 0 .. n, j \in 0 .. Len(b) : Dist(x, b, q + t, j) <= Dist(w, b, r + t, j) + e
<1>0. Len(x) \in Nat /\ Len(w) \in Nat /\ Len(b) \in Nat
  BY DEF Words
<1> DEFINE X == {m \in Nat : \A t \in 0 .. n, j \in 0 .. Len(b) :
                   t + j = m => Dist(x, b, q + t, j) <= Dist(w, b, r + t, j) + e}
<1>1. ASSUME NEW m \in Nat, \A k \in Nat : k < m => k \in X PROVE m \in X
  <2> SUFFICES ASSUME NEW t \in 0 .. n, NEW j \in 0 .. Len(b), t + j = m
               PROVE  Dist(x, b, q + t, j) <= Dist(w, b, r + t, j) + e
    OBVIOUS
  <2>1. PICK i, l : i = q + t /\ l = r + t
    OBVIOUS
  <2> SUFFICES Dist(x, b, i, j) <= Dist(w, b, l, j) + e
    BY <2>1
  <2>2. i \in 0 .. Len(x) /\ l \in 0 .. Len(w) /\ i \in Nat /\ l \in Nat /\ t \in Nat /\ j \in Nat
    BY <1>0, <2>1
  <2>3. Rules(x, b, i, j) /\ Rules(w, b, l, j)
    BY <2>2, DistRules
  <2>4. Dist(x, b, i, j) \in Nat /\ Dist(w, b, l, j) \in Nat
    BY <2>3 DEF Rules
  <2>5. CASE t = 0
    <3>1. i = q /\ l = r
      BY <2>1, <2>5
    <3> QED BY <3>1
  <2>6. CASE t >= 1
    <3>1. /\ i >= 1 /\ l >= 1 /\ i - 1 = q + (t - 1) /\ l - 1 = r + (t - 1)
          /\ t - 1 \in 0 .. n /\ t \in 1 .. n
      BY <2>1, <2>2, <2>6
    <3>2. x[i] = w[l]
      BY <2>1, <3>1
    <3>3. CASE Dist(w, b, l, j) = Dist(w, b, l - 1, j) + 1
      <4>1. m - 1 \in X /\ (t - 1) + j = m - 1
        <5>1. m - 1 \in Nat /\ m - 1 < m /\ (t - 1) + j = m - 1
          BY <2>2, <2>6
        <5> HIDE DEF X
        <5> QED BY <1>1, <5>1
      <4>2. Dist(x, b, i - 1, j) <= Dist(w, b, l - 1, j) + e
        BY <3>1, <4>1
      <4>3. /\ Dist(x, b, i - 1, j) \in Nat /\ Dist(w, b, l - 1, j) \in Nat
            /\ Dist(x, b, i, j) <= Dist(x, b, i - 1, j) + 1
        BY <2>3, <3>1 DEF Rules
      <4> QED BY <2>4, <3>3, <4>2, <4>3
    <3>4. CASE j >= 1 /\ Dist(w, b, l, j) = Dist(w, b, l, j - 1) + 1
      <4>1. m - 1 \in X /\ t + (j - 1) = m - 1 /\ j - 1 \in 0 .. Len(b)
        <5>1. m - 1 \in Nat /\ m - 1 < m /\ t + (j - 1) = m - 1 /\ j - 1 \in 0 .. Len(b)
          BY <1>0, <2>2, <3>4
        <5> HIDE DEF X
        <5> QED BY <1>1, <5>1
      <4>2. Dist(x, b, i, j - 1) <= Dist(w, b, l, j - 1) + e
        BY <2>1, <4>1
      <4>3. /\ Dist(x, b, i, j - 1) \in Nat /\ Dist(w, b, l, j - 1) \in Nat
            /\ Dist(x, b, i, j) <= Dist(x, b, i, j - 1) + 1
        BY <2>3, <3>4 DEF Rules
      <4> QED BY <2>4, <3>4, <4>2, <4>3
    <3>5. CASE j >= 1 /\ Dist(w, b, l, j) = Dist(w, b, l - 1, j - 1) + Diff(w[l], b[j])
      <4>1. m - 2 \in X /\ (t - 1) + (j - 1) = m - 2 /\ j - 1 \in 0 .. Len(b)
        <5>1. m - 2 \in Nat /\ m - 2 < m /\ (t - 1) + (j - 1) = m - 2 /\ j - 1 \in 0 .. Len(b)
          BY <1>0, <2>2, <2>6, <3>5
        <5> HIDE DEF X
        <5> QED BY <1>1, <5>1
      <4>2. Dist(x, b, i - 1, j - 1) <= Dist(w, b, l - 1, j - 1) + e
        BY <3>1, <4>1
      <4>3. /\ Dist(x, b, i - 1, j - 1) \in Nat /\ Dist(w, b, l - 1, j - 1) \in Nat
            /\ Dist(x, b, i, j) <= Dist(x, b, i - 1, j - 1) + Diff(w[l], b[j])
        BY <2>3, <3>1, <3>2, <3>5 DEF Rules
      <4>4. Diff(w[l], b[j]) \in Nat
        BY DEF Diff, P!Bonus
      <4> QED BY <2>4, <3>5, <4>2, <4>3, <4>4
    <3> QED BY <2>3, <3>1, <3>3, <3>4, <3>5 DEF Rules
  <2> QED BY <2>2, <2>5, <2>6
<1>2. \A m \in Nat : m \in X
  <2> HIDE DEF X
  <2> QED BY <1>1, StrongInduction
<1>3. \A t \in 0 .. n, j \in 0 .. Len(b) : t + j \in X
  <2>1. \A t \in 0 .. n, j \in 0 .. Len(b) : t + j \in Nat
    OBVIOUS
  <2> HIDE DEF X
  <2> QED BY <1>2, <2>1
<1> QED BY <1>3

(* Another letter at p. *)
LEMMA OtherLetter ==
  ASSUME NEW x \in Words, NEW w \in Words, NEW b \in Words, NEW p \in Nat, p >= 1,
         p <= Len(x), p <= Len(w),
         \A j \in 0 .. Len(b) : Dist(x, b, p - 1, j) <= Dist(w, b, p - 1, j)
  PROVE  \A j \in 0 .. Len(b) : Dist(x, b, p, j) <= Dist(w, b, p, j) + 1
<1>0. Len(x) \in Nat /\ Len(w) \in Nat /\ Len(b) \in Nat
  BY DEF Words
<1> DEFINE X == {j \in Nat : j <= Len(b) => Dist(x, b, p, j) <= Dist(w, b, p, j) + 1}
<1>1. ASSUME NEW j \in Nat, \A k \in Nat : k < j => k \in X PROVE j \in X
  <2> SUFFICES ASSUME j <= Len(b) PROVE Dist(x, b, p, j) <= Dist(w, b, p, j) + 1
    OBVIOUS
  <2>1. p \in 0 .. Len(x) /\ p \in 0 .. Len(w) /\ j \in 0 .. Len(b)
    BY <1>0
  <2>2. Rules(x, b, p, j) /\ Rules(w, b, p, j)
    BY <2>1, DistRules
  <2>3. Dist(x, b, p, j) \in Nat /\ Dist(w, b, p, j) \in Nat
    BY <2>2 DEF Rules
  <2>4. CASE Dist(w, b, p, j) = Dist(w, b, p - 1, j) + 1
    <3>1. /\ Dist(x, b, p, j) <= Dist(x, b, p - 1, j) + 1
          /\ Dist(x, b, p - 1, j) \in Nat /\ Dist(w, b, p - 1, j) \in Nat
      BY <2>2 DEF Rules
    <3>2. Dist(x, b, p - 1, j) <= Dist(w, b, p - 1, j)
      BY <2>1
    <3> QED BY <2>3, <2>4, <3>1, <3>2
  <2>5. CASE j >= 1 /\ Dist(w, b, p, j) = Dist(w, b, p, j - 1) + 1
    <3>1. j - 1 \in X /\ j - 1 <= Len(b)
      BY <1>0, <1>1, <2>1, <2>5
    <3>2. Dist(x, b, p, j - 1) <= Dist(w, b, p, j - 1) + 1
      BY <3>1
    <3>3. /\ Dist(x, b, p, j - 1) \in Nat /\ Dist(w, b, p, j - 1) \in Nat
          /\ Dist(x, b, p, j) <= Dist(x, b, p, j - 1) + 1
      BY <2>2, <2>5 DEF Rules
    <3> QED BY <2>3, <2>5, <3>2, <3>3
  <2>6. CASE j >= 1 /\ Dist(w, b, p, j) = Dist(w, b, p - 1, j - 1) + Diff(w[p], b[j])
    <3>1. /\ Dist(x, b, p - 1, j - 1) \in Nat /\ Dist(w, b, p - 1, j - 1) \in Nat
          /\ Dist(x, b, p, j) <= Dist(x, b, p - 1, j - 1) + Diff(x[p], b[j])
      BY <2>2, <2>6 DEF Rules
    <3>2. Diff(x[p], b[j]) \in 0 .. 1 /\ Diff(w[p], b[j]) \in 0 .. 1
      BY DEF Diff, P!Bonus
    <3>3. Dist(x, b, p - 1, j - 1) <= Dist(w, b, p - 1, j - 1)
      <4>1. j - 1 \in 0 .. Len(b)
        BY <1>0, <2>1, <2>6
      <4> QED BY <4>1
    <3> QED BY <2>3, <2>6, <3>1, <3>2, <3>3
  <2> QED BY <2>1, <2>2, <2>4, <2>5, <2>6 DEF Rules
<1>2. \A j \in Nat : j \in X
  <2> HIDE DEF X
  <2> QED BY <1>1, StrongInduction
<1> QED BY <1>0, <1>2

(* One word is an edit of another: they agree before a place p, and again  *)
(* behind q and r, which leave out a letter of one of them or of both.     *)
Marks == Letters \cup Digits
Edited(x, w, p, q, r) ==
  /\ x \in Words /\ w \in Words /\ p \in Nat /\ p >= 1
  /\ \/ q = p - 1 /\ r = p
     \/ q = p /\ r = p - 1
     \/ q = p /\ r = p
  /\ q \in Nat /\ r \in Nat /\ q <= Len(x) /\ r <= Len(w) /\ Len(x) - q = Len(w) - r
  /\ \A k \in 1 .. p - 1 : x[k] = w[k]
  /\ \A t \in 1 .. Len(x) - q : x[q + t] = w[r + t]

(* u is w before i, v is w from k on; y is u and then v; y is w without    *)
(* the letter at p, with one more or with another.                         *)
CutAt(w, i, k, u, v) ==
  /\ u \in Words /\ Len(u) = i - 1 /\ \A n \in 1 .. i - 1 : u[n] = w[n]
  /\ v \in Words /\ Len(v) = Len(w) + 1 - k
  /\ \A t \in 1 .. Len(w) + 1 - k : v[t] = w[k + t - 1]
JoinOf(u, v, y) ==
  /\ y \in Words /\ Len(y) = Len(u) + Len(v) /\ Len(u) \in Nat /\ Len(v) \in Nat
  /\ \A k \in 1 .. Len(u) : y[k] = u[k]
  /\ \A t \in 1 .. Len(v) : y[Len(u) + t] = v[t]
Removed(y, w, p) ==
  /\ y \in Words /\ Len(y) = Len(w) - 1 /\ Len(w) \in Nat
  /\ \A k \in 1 .. p - 1 : y[k] = w[k]
  /\ \A t \in 1 .. Len(w) - p : y[p - 1 + t] = w[p + t]
Inserted(y, w, p, c) ==
  /\ y \in Words /\ Len(y) = Len(w) + 1 /\ Len(w) \in Nat /\ y[p] = c
  /\ \A k \in 1 .. p - 1 : y[k] = w[k]
  /\ \A t \in 1 .. Len(w) - (p - 1) : y[p + t] = w[p - 1 + t]
Changed(y, w, p, c) ==
  /\ y \in Words /\ Len(y) = Len(w) /\ Len(w) \in Nat /\ y[p] = c
  /\ \A k \in 1 .. Len(w) : k # p => y[k] = w[k]

LEMMA Parts ==
  ASSUME NEW w \in Words, NEW u, NEW v, NEW i \in 1 .. Len(w) + 1, NEW k \in 1 .. Len(w) + 1,
         u = SubSeq(w, 1, i - 1), v = SubSeq(w, k, Len(w))
  PROVE  CutAt(w, i, k, u, v)
<1>1. Len(w) \in Nat
  BY DEF Words
<1>2. u \in Words /\ Len(u) = i - 1 /\ \A n \in 1 .. i - 1 : u[n] = w[n]
  BY <1>1 DEF Words
<1>3. v \in Words /\ Len(v) = Len(w) + 1 - k
      /\ \A t \in 1 .. Len(w) + 1 - k : v[t] = w[k + t - 1]
  BY <1>1 DEF Words
<1> QED BY <1>2, <1>3 DEF CutAt

LEMMA Joined ==
  ASSUME NEW u \in Words, NEW v \in Words, NEW y, y = u \o v
  PROVE  JoinOf(u, v, y)
BY DEF Words, JoinOf

LEMMA RemovedLetter ==
  ASSUME NEW w \in Words, NEW p \in 1 .. Len(w), NEW y, y = P!RemoveAt(w, p)
  PROVE  Removed(y, w, p)
<1>0. Len(w) \in Nat
  BY DEF Words
<1>1. PICK u, v : u = SubSeq(w, 1, p - 1) /\ v = SubSeq(w, p + 1, Len(w))
  OBVIOUS
<1>2. y = u \o v
  BY <1>1 DEF P!RemoveAt
<1>3. p \in 1 .. Len(w) + 1 /\ p + 1 \in 1 .. Len(w) + 1
  BY <1>0
<1>4. /\ u \in Words /\ Len(u) = p - 1 /\ \A n \in 1 .. p - 1 : u[n] = w[n]
      /\ v \in Words /\ Len(v) = Len(w) + 1 - (p + 1)
      /\ \A t \in 1 .. Len(w) + 1 - (p + 1) : v[t] = w[p + 1 + t - 1]
  <2>1. CutAt(w, p, p + 1, u, v)
    BY <1>1, <1>3, Parts
  <2> QED BY <2>1 DEF CutAt
<1>5. /\ y \in Words /\ Len(y) = Len(u) + Len(v) /\ Len(u) \in Nat /\ Len(v) \in Nat
      /\ \A k \in 1 .. Len(u) : y[k] = u[k]
      /\ \A t \in 1 .. Len(v) : y[Len(u) + t] = v[t]
  <2>1. JoinOf(u, v, y)
    BY <1>2, <1>4, Joined
  <2> QED BY <2>1 DEF JoinOf
<1>6. ASSUME NEW t \in 1 .. Len(w) - p PROVE y[p - 1 + t] = w[p + t]
  <2>1. t \in 1 .. Len(v) /\ p + 1 + t - 1 = p + t /\ t \in 1 .. Len(w) + 1 - (p + 1)
    BY <1>0, <1>4
  <2>2. v[t] = w[p + t]
    BY <1>4, <2>1
  <2> QED BY <1>4, <1>5, <2>1, <2>2
<1> QED BY <1>0, <1>4, <1>5, <1>6 DEF Removed

LEMMA InsertedLetter ==
  ASSUME NEW w \in Words, NEW p \in 1 .. Len(w) + 1, NEW c \in Marks, NEW y, y = P!InsertAt(w, p, c)
  PROVE  Inserted(y, w, p, c)
<1>0. Len(w) \in Nat
  BY DEF Words
<1>1. PICK u, v : u = SubSeq(w, 1, p - 1) /\ v = SubSeq(w, p, Len(w))
  OBVIOUS
<1>2. y = (u \o <<c>>) \o v
  BY <1>1 DEF P!InsertAt
<1>3. /\ u \in Words /\ Len(u) = p - 1 /\ \A n \in 1 .. p - 1 : u[n] = w[n]
      /\ v \in Words /\ Len(v) = Len(w) + 1 - p
      /\ \A t \in 1 .. Len(w) + 1 - p : v[t] = w[p + t - 1]
  <2>1. CutAt(w, p, p, u, v)
    BY <1>1, Parts
  <2> QED BY <2>1 DEF CutAt
<1>4. PICK z : z = u \o <<c>>
  OBVIOUS
<1>5. z \in Words /\ Len(z) = p /\ z[p] = c /\ \A k \in 1 .. p - 1 : z[k] = w[k]
  <2>1. <<c>> \in Words /\ Len(<<c>>) = 1 /\ <<c>>[1] = c
    BY DEF Words, Marks
  <2>2. PICK s : s = <<c>>
    OBVIOUS
  <2>3. /\ z \in Words /\ Len(z) = Len(u) + Len(s)
        /\ \A k \in 1 .. Len(u) : z[k] = u[k]
        /\ \A t \in 1 .. Len(s) : z[Len(u) + t] = s[t]
    <3>1. s \in Words /\ z = u \o s
      BY <1>4, <2>1, <2>2
    <3>2. JoinOf(u, s, z)
      BY <1>3, <3>1, Joined
    <3> QED BY <3>2 DEF JoinOf
  <2>4. Len(s) = 1 /\ s[1] = c
    BY <2>1, <2>2
  <2>5. Len(z) = p /\ Len(u) + 1 = p /\ 1 \in 1 .. Len(s)
    BY <1>0, <1>3, <2>3, <2>4
  <2> QED BY <1>3, <2>3, <2>4, <2>5
<1>6. /\ y \in Words /\ Len(y) = Len(z) + Len(v) /\ Len(z) \in Nat /\ Len(v) \in Nat
      /\ \A k \in 1 .. Len(z) : y[k] = z[k]
      /\ \A t \in 1 .. Len(v) : y[Len(z) + t] = v[t]
  <2>1. y = z \o v
    BY <1>2, <1>4
  <2>2. JoinOf(z, v, y)
    BY <1>3, <1>5, <2>1, Joined
  <2> QED BY <2>2 DEF JoinOf
<1>7. ASSUME NEW t \in 1 .. Len(w) - (p - 1) PROVE y[p + t] = w[p - 1 + t]
  <2>1. t \in 1 .. Len(v) /\ p + t - 1 = p - 1 + t /\ t \in 1 .. Len(w) + 1 - p
    BY <1>0, <1>3
  <2>2. v[t] = w[p - 1 + t]
    BY <1>3, <2>1
  <2> QED BY <1>5, <1>6, <2>1, <2>2
<1>8. p \in 1 .. Len(z) /\ \A k \in 1 .. p - 1 : k \in 1 .. Len(z)
  BY <1>5
<1> QED BY <1>0, <1>3, <1>5, <1>6, <1>7, <1>8 DEF Inserted

LEMMA ChangedLetter ==
  ASSUME NEW w \in Words, NEW p \in 1 .. Len(w), NEW c \in Marks, NEW y, y = [w EXCEPT ![p] = c]
  PROVE  Changed(y, w, p, c)
BY DEF Words, Marks, Changed

LEMMA SameWord ==
  ASSUME NEW x \in Words, NEW y \in Words, Len(x) = Len(y), \A k \in 1 .. Len(x) : x[k] = y[k]
  PROVE  x = y
BY DEF Words

(* The words one edit from another are those OneEdit has. *)
LEMMA EditMakes ==
  ASSUME NEW w \in Words, NEW x, x \in P!OneEdit(w)
  PROVE  \E p, q, r : Edited(x, w, p, q, r)
<1>0. Len(w) \in Nat /\ DOMAIN w = 1 .. Len(w)
  BY DEF Words
<1>1. ASSUME NEW p \in 1 .. Len(w), x = P!RemoveAt(w, p) PROVE Edited(x, w, p, p - 1, p)
  <2>1. /\ x \in Words /\ Len(x) = Len(w) - 1
        /\ \A k \in 1 .. p - 1 : x[k] = w[k]
        /\ \A t \in 1 .. Len(w) - p : x[p - 1 + t] = w[p + t]
    <3>1. Removed(x, w, p)
      BY <1>1, RemovedLetter
    <3> QED BY <3>1 DEF Removed
  <2>2. Len(x) - (p - 1) = Len(w) - p /\ p \in Nat /\ p - 1 \in Nat /\ p - 1 <= Len(x) /\ p >= 1
        /\ p <= Len(w)
    BY <1>0, <2>1
  <2> QED BY <2>1, <2>2 DEF Edited
<1>2. ASSUME NEW p \in 1 .. Len(w) + 1, NEW c \in Marks, x = P!InsertAt(w, p, c)
      PROVE  Edited(x, w, p, p, p - 1)
  <2>1. /\ x \in Words /\ Len(x) = Len(w) + 1
        /\ \A k \in 1 .. p - 1 : x[k] = w[k]
        /\ \A t \in 1 .. Len(w) - (p - 1) : x[p + t] = w[p - 1 + t]
    <3>1. Inserted(x, w, p, c)
      BY <1>2, InsertedLetter
    <3> QED BY <3>1 DEF Inserted
  <2>2. Len(x) - p = Len(w) - (p - 1) /\ p \in Nat /\ p - 1 \in Nat /\ p <= Len(x) /\ p >= 1
        /\ p - 1 <= Len(w)
    BY <1>0, <2>1
  <2> QED BY <2>1, <2>2 DEF Edited
<1>3. ASSUME NEW p \in 1 .. Len(w), NEW c \in Marks, x = [w EXCEPT ![p] = c]
      PROVE  Edited(x, w, p, p, p)
  <2>1. /\ x \in Words /\ Len(x) = Len(w)
        /\ \A k \in 1 .. Len(w) : k # p => x[k] = w[k]
    <3>1. Changed(x, w, p, c)
      BY <1>3, ChangedLetter
    <3> QED BY <3>1 DEF Changed
  <2>2. Len(x) - p = Len(w) - p /\ p \in Nat /\ p <= Len(x) /\ p >= 1 /\ p <= Len(w)
        /\ (\A k \in 1 .. p - 1 : k \in 1 .. Len(w) /\ k # p)
        /\ (\A t \in 1 .. Len(x) - p : p + t \in 1 .. Len(w) /\ p + t # p)
    BY <1>0, <2>1
  <2> QED BY <2>1, <2>2 DEF Edited
<1> QED BY <1>0, <1>1, <1>2, <1>3 DEF P!OneEdit, Marks

LEMMA MadeByEdit ==
  ASSUME NEW x, NEW w, NEW p, NEW q, NEW r, Edited(x, w, p, q, r)
  PROVE  x \in P!OneEdit(w)
<1>0. /\ x \in Words /\ w \in Words /\ Len(x) \in Nat /\ Len(w) \in Nat
      /\ DOMAIN w = 1 .. Len(w) /\ p \in Nat /\ p >= 1
  BY DEF Edited, Words
<1>e. /\ \A k \in 1 .. p - 1 : x[k] = w[k]
      /\ \A t \in 1 .. Len(x) - q : x[q + t] = w[r + t]
      /\ q \in Nat /\ r \in Nat /\ q <= Len(x) /\ r <= Len(w) /\ Len(x) - q = Len(w) - r
  BY DEF Edited
<1>n. q \in Nat /\ r \in Nat /\ q <= Len(x) /\ r <= Len(w) /\ Len(x) - q = Len(w) - r
  BY DEF Edited
<1>m. \A k \in 1 .. Len(x) : x[k] \in Marks
  BY <1>0 DEF Words, Marks
<1>1. CASE q = p - 1 /\ r = p
  <2>1. p \in 1 .. Len(w)
    BY <1>0, <1>e, <1>1
  <2>2. PICK y : y = P!RemoveAt(w, p)
    OBVIOUS
  <2>3. /\ y \in Words /\ Len(y) = Len(w) - 1
        /\ \A k \in 1 .. p - 1 : y[k] = w[k]
        /\ \A t \in 1 .. Len(w) - p : y[p - 1 + t] = w[p + t]
    <3>1. Removed(y, w, p)
      BY <2>1, <2>2, <1>0, RemovedLetter
    <3> QED BY <3>1 DEF Removed
  <2>4. Len(x) = Len(y)
    <3>1. Len(y) = Len(w) - 1
      BY <2>3
    <3>2. Len(x) \in Nat /\ Len(w) \in Nat
      BY <1>0
    <3>3. Len(x) - (p - 1) = Len(w) - p /\ p \in Nat
      BY <1>0, <1>n, <1>1, Zenon
    <3> QED BY <3>1, <3>2, <3>3
  <2>5. ASSUME NEW k \in 1 .. Len(x) PROVE x[k] = y[k]
    <3>1. CASE k \in 1 .. p - 1
      BY <1>e, <2>3, <3>1
    <3>2. CASE k >= p
      <4>1. PICK t : t = k - (p - 1)
        OBVIOUS
      <4>2. t \in 1 .. Len(x) - q /\ t \in 1 .. Len(w) - p /\ p - 1 + t = k /\ q + t = k
        BY <1>0, <1>e, <1>1, <3>2, <4>1
      <4> QED BY <1>e, <1>1, <2>3, <4>2
    <3> QED BY <1>0, <3>1, <3>2
  <2>6. x = y
    <3>1. y \in Words
      BY <2>3
    <3> QED BY <1>0, <2>4, <2>5, <3>1, SameWord
  <2> QED BY <1>0, <2>1, <2>2, <2>6 DEF P!OneEdit
<1>2. CASE q = p /\ r = p - 1
  <2>1. p \in 1 .. Len(w) + 1 /\ p \in 1 .. Len(x) /\ x[p] \in Marks
    BY <1>0, <1>e, <1>m, <1>2
  <2>2. PICK y : y = P!InsertAt(w, p, x[p])
    OBVIOUS
  <2>3. /\ y \in Words /\ Len(y) = Len(w) + 1 /\ y[p] = x[p]
        /\ \A k \in 1 .. p - 1 : y[k] = w[k]
        /\ \A t \in 1 .. Len(w) - (p - 1) : y[p + t] = w[p - 1 + t]
    <3>1. Inserted(y, w, p, x[p])
      BY <2>1, <2>2, <1>0, InsertedLetter
    <3> QED BY <3>1 DEF Inserted
  <2>4. Len(x) = Len(y)
    <3>1. Len(y) = Len(w) + 1
      BY <2>3
    <3> QED BY <1>0, <1>n, <1>2, <3>1
  <2>5. ASSUME NEW k \in 1 .. Len(x) PROVE x[k] = y[k]
    <3>1. CASE k \in 1 .. p - 1
      BY <1>e, <2>3, <3>1
    <3>2. CASE k = p
      BY <2>3, <3>2
    <3>3. CASE k > p
      <4>1. PICK t : t = k - p
        OBVIOUS
      <4>2. t \in 1 .. Len(x) - q /\ t \in 1 .. Len(w) - (p - 1) /\ p + t = k /\ q + t = k
            /\ r + t = p - 1 + t
        BY <1>0, <1>e, <1>2, <3>3, <4>1
      <4> QED BY <1>e, <1>2, <2>3, <4>2
    <3> QED BY <1>0, <3>1, <3>2, <3>3
  <2>6. x = y
    <3>1. y \in Words
      BY <2>3
    <3> QED BY <1>0, <2>4, <2>5, <3>1, SameWord
  <2> QED BY <1>0, <2>1, <2>2, <2>6 DEF P!OneEdit, Marks
<1>3. CASE q = p /\ r = p
  <2>1. p \in 1 .. Len(w) /\ p \in 1 .. Len(x) /\ x[p] \in Marks
    BY <1>0, <1>e, <1>m, <1>3
  <2>2. PICK y : y = [w EXCEPT ![p] = x[p]]
    OBVIOUS
  <2>3. /\ y \in Words /\ Len(y) = Len(w) /\ y[p] = x[p]
        /\ \A k \in 1 .. Len(w) : k # p => y[k] = w[k]
    <3>1. Changed(y, w, p, x[p])
      BY <2>1, <2>2, <1>0, ChangedLetter
    <3> QED BY <3>1 DEF Changed
  <2>4. Len(x) = Len(y)
    <3>1. Len(y) = Len(w)
      BY <2>3
    <3> QED BY <1>0, <1>n, <1>3, <3>1
  <2>5. ASSUME NEW k \in 1 .. Len(x) PROVE x[k] = y[k]
    <3>0. k \in 1 .. Len(w)
      BY <2>3, <2>4
    <3>1. CASE k \in 1 .. p - 1
      BY <1>e, <2>3, <3>0, <3>1
    <3>2. CASE k = p
      BY <2>3, <3>2
    <3>3. CASE k > p
      <4>1. PICK t : t = k - p
        OBVIOUS
      <4>2. t \in 1 .. Len(x) - q /\ q + t = k /\ r + t = k /\ k # p
        BY <1>0, <1>e, <1>3, <3>3, <4>1
      <4> QED BY <1>e, <2>3, <3>0, <4>2
    <3> QED BY <1>0, <3>1, <3>2, <3>3
  <2>6. x = y
    <3>1. y \in Words
      BY <2>3
    <3> QED BY <1>0, <2>4, <2>5, <3>1, SameWord
  <2>7. x = [w EXCEPT ![p] = x[p]] /\ p \in DOMAIN w /\ x[p] \in Letters \cup Digits
    BY <1>0, <2>1, <2>2, <2>6, Zenon DEF Marks
  <2> DEFINE Put(i, c) == [w EXCEPT ![i] = c]
             Swapped == {Put(i, c) : i \in DOMAIN w, c \in Letters \cup Digits}
  <2>8. Swapped \subseteq P!OneEdit(w)
    BY DEF P!OneEdit
  <2>9. x = Put(p, x[p])
    BY <2>7
  <2>10. x \in Swapped
    <3> HIDE DEF Put
    <3> QED BY <2>7, <2>9
  <2> HIDE DEF Swapped
  <2> QED BY <2>8, <2>10
<1> QED BY <1>1, <1>2, <1>3 DEF Edited

(* An edit takes a word no more than one edit farther from another.        *)
Near(x, w, b, q, r, e) == \A j \in 0 .. Len(b) : Dist(x, b, q, j) <= Dist(w, b, r, j) + e
Alike(x, w, q, r, n) == \A t \in 1 .. n : x[q + t] = w[r + t]

LEMMA NearBehind ==
  ASSUME NEW x \in Words, NEW w \in Words, NEW b \in Words, NEW e \in Nat, NEW n \in Nat,
         NEW q \in Nat, NEW r \in Nat, q + n <= Len(x), r + n <= Len(w),
         Alike(x, w, q, r, n), Near(x, w, b, q, r, e)
  PROVE  Near(x, w, b, q + n, r + n, e)
<1>1. \A t \in 1 .. n : x[q + t] = w[r + t]
  BY DEF Alike
<1>2. \A j \in 0 .. Len(b) : Dist(x, b, q, j) <= Dist(w, b, r, j) + e
  BY DEF Near
<1>3. \A t \in 0 .. n, j \in 0 .. Len(b) : Dist(x, b, q + t, j) <= Dist(w, b, r + t, j) + e
  BY <1>1, <1>2, SameLetters
<1>4. n \in 0 .. n
  OBVIOUS
<1> QED BY <1>3, <1>4 DEF Near

LEMMA EditApart ==
  ASSUME NEW x, NEW w, NEW b \in Words, NEW p, NEW q, NEW r, Edited(x, w, p, q, r)
  PROVE  Dist(x, b, Len(x), Len(b)) <= Dist(w, b, Len(w), Len(b)) + 1
<1>0. /\ x \in Words /\ w \in Words /\ Len(x) \in Nat /\ Len(w) \in Nat /\ Len(b) \in Nat
      /\ p \in Nat /\ p >= 1 /\ q \in Nat /\ r \in Nat
  BY DEF Edited, Words
<1>1. /\ q <= Len(x) /\ r <= Len(w) /\ Len(x) - q = Len(w) - r
      /\ \/ q = p - 1 /\ r = p
         \/ q = p /\ r = p - 1
         \/ q = p /\ r = p
  BY DEF Edited
<1>2. Alike(x, w, 0, 0, p - 1)
  <2>1. \A k \in 1 .. p - 1 : x[k] = w[k] /\ 0 + k = k
    BY <1>0 DEF Edited
  <2> QED BY <2>1 DEF Alike
<1>3. Alike(x, w, q, r, Len(x) - q)
  BY DEF Edited, Alike
<1>4. p - 1 \in Nat /\ 0 + (p - 1) = p - 1 /\ 0 + (p - 1) <= Len(x) /\ 0 + (p - 1) <= Len(w)
  BY <1>0, <1>1
<1>5. Near(x, w, b, p - 1, p - 1, 0)
  <2>1. ASSUME NEW j \in 0 .. Len(b) PROVE Dist(x, b, 0, j) <= Dist(w, b, 0, j) + 0
    <3>1. 0 \in 0 .. Len(x) /\ 0 \in 0 .. Len(w)
      BY <1>0
    <3>2. Dist(x, b, 0, j) = 0 + j /\ Dist(w, b, 0, j) = 0 + j
      BY <1>0, <3>1, DistEdge
    <3> QED BY <3>2
  <2>2. Near(x, w, b, 0, 0, 0)
    BY <2>1 DEF Near
  <2>3. Near(x, w, b, 0 + (p - 1), 0 + (p - 1), 0)
    BY <1>0, <1>2, <1>4, <2>2, NearBehind
  <2> QED BY <1>4, <2>3
<1>6. Near(x, w, b, q, r, 1)
  <2> SUFFICES ASSUME NEW j \in 0 .. Len(b) PROVE Dist(x, b, q, j) <= Dist(w, b, r, j) + 1
    BY DEF Near
  <2>1. p - 1 \in 0 .. Len(x) /\ p - 1 \in 0 .. Len(w)
    BY <1>0, <1>4
  <2>2. /\ Dist(x, b, p - 1, j) \in Nat /\ Dist(w, b, p - 1, j) \in Nat
    BY <1>0, <2>1, DistNat
  <2>3. Dist(x, b, p - 1, j) <= Dist(w, b, p - 1, j)
    <3>1. Dist(x, b, p - 1, j) <= Dist(w, b, p - 1, j) + 0
      BY <1>5 DEF Near
    <3> QED BY <2>2, <3>1
  <2>4. CASE q = p - 1 /\ r = p
    <3>1. p \in 1 .. Len(w) /\ p \in 0 .. Len(w)
      BY <1>0, <1>1, <2>4
    <3>2. Dist(w, b, p - 1, j) <= Dist(w, b, p, j) + 1
      BY <1>0, <3>1, StepBack
    <3>3. Dist(w, b, p, j) \in Nat
      BY <1>0, <3>1, DistNat
    <3> QED BY <2>2, <2>3, <2>4, <3>2, <3>3
  <2>5. CASE q = p /\ r = p - 1
    <3>1. p \in 0 .. Len(x)
      BY <1>0, <1>1, <2>5
    <3>2. Rules(x, b, p, j)
      BY <1>0, <3>1, DistRules
    <3>3. Dist(x, b, p, j) \in Nat /\ Dist(x, b, p, j) <= Dist(x, b, p - 1, j) + 1
      BY <1>0, <3>2 DEF Rules
    <3> QED BY <2>2, <2>3, <2>5, <3>3
  <2>6. CASE q = p /\ r = p
    <3>1. p <= Len(x) /\ p <= Len(w)
      BY <1>1, <2>6
    <3>2. \A l \in 0 .. Len(b) : Dist(x, b, p - 1, l) <= Dist(w, b, p - 1, l)
      <4> SUFFICES ASSUME NEW l \in 0 .. Len(b)
                   PROVE  Dist(x, b, p - 1, l) <= Dist(w, b, p - 1, l)
        OBVIOUS
      <4>1. Dist(x, b, p - 1, l) \in Nat /\ Dist(w, b, p - 1, l) \in Nat
        BY <1>0, <2>1, DistNat
      <4>2. Dist(x, b, p - 1, l) <= Dist(w, b, p - 1, l) + 0
        BY <1>5 DEF Near
      <4> QED BY <4>1, <4>2
    <3>3. \A l \in 0 .. Len(b) : Dist(x, b, p, l) <= Dist(w, b, p, l) + 1
      BY <1>0, <3>1, <3>2, OtherLetter
    <3> QED BY <2>6, <3>3
  <2> QED BY <1>1, <2>4, <2>5, <2>6
<1>7. PICK n : n = Len(x) - q
  OBVIOUS
<1>8. n \in Nat /\ q + n = Len(x) /\ r + n = Len(w)
  BY <1>0, <1>1, <1>7
<1>9. Near(x, w, b, q + n, r + n, 1)
  <2>1. Alike(x, w, q, r, n) /\ q + n <= Len(x) /\ r + n <= Len(w)
    BY <1>0, <1>3, <1>7, <1>8
  <2> QED BY <1>0, <1>6, <1>8, <2>1, NearBehind
<1>10. Len(b) \in 0 .. Len(b)
  BY <1>0
<1> QED BY <1>8, <1>9, <1>10 DEF Near

(* A word is nowhere far from itself. *)
LEMMA NoneApart ==
  ASSUME NEW b \in Words
  PROVE  Dist(b, b, Len(b), Len(b)) = 0
<1>0. Len(b) \in Nat
  BY DEF Words
<1> DEFINE X == {n \in Nat : n <= Len(b) => Dist(b, b, n, n) = 0}
<1>1. ASSUME NEW n \in Nat, \A k \in Nat : k < n => k \in X PROVE n \in X
  <2> SUFFICES ASSUME n <= Len(b) PROVE Dist(b, b, n, n) = 0
    OBVIOUS
  <2>1. n \in 0 .. Len(b)
    BY <1>0
  <2>2. Rules(b, b, n, n)
    BY <2>1, DistRules
  <2>3. CASE n = 0
    BY <2>2, <2>3 DEF Rules
  <2>4. CASE n >= 1
    <3>1. n - 1 \in X /\ n - 1 <= Len(b)
      BY <1>0, <1>1, <2>1, <2>4
    <3>2. Dist(b, b, n - 1, n - 1) = 0
      BY <3>1
    <3>3. Diff(b[n], b[n]) = 0
      BY DEF Diff, P!Bonus
    <3>4. Dist(b, b, n, n) \in Nat /\ Dist(b, b, n, n) <= Dist(b, b, n - 1, n - 1) + Diff(b[n], b[n])
      BY <2>2, <2>4 DEF Rules
    <3> QED BY <3>2, <3>3, <3>4
  <2> QED BY <2>3, <2>4
<1>2. \A n \in Nat : n \in X
  <2> HIDE DEF X
  <2> QED BY <1>1, StrongInduction
<1> QED BY <1>0, <1>2

LEMMA OneEditApart ==
  ASSUME NEW b \in Words, NEW w \in Words, NEW x, x \in P!OneEdit(w)
  PROVE  /\ x \in Words /\ Dist(x, b, Len(x), Len(b)) \in Nat
         /\ Dist(w, b, Len(w), Len(b)) \in Nat
         /\ Dist(x, b, Len(x), Len(b)) <= Dist(w, b, Len(w), Len(b)) + 1
<1>1. PICK p, q, r : Edited(x, w, p, q, r)
  BY EditMakes
<1>2. x \in Words
  BY <1>1 DEF Edited
<1>3. Len(x) \in 0 .. Len(x) /\ Len(w) \in 0 .. Len(w) /\ Len(b) \in 0 .. Len(b)
  BY <1>2 DEF Words
<1>4. Dist(x, b, Len(x), Len(b)) \in Nat /\ Dist(w, b, Len(w), Len(b)) \in Nat
  BY <1>2, <1>3, DistNat
<1>5. Dist(x, b, Len(x), Len(b)) <= Dist(w, b, Len(w), Len(b)) + 1
  BY <1>1, EditApart
<1> QED BY <1>2, <1>4, <1>5

(* Words at a distance of up to two are as many edits apart.               *)
Ends(u, s, c) ==
  /\ u \in Words /\ s \in Words /\ Len(s) \in Nat /\ Len(u) = Len(s) + 1 /\ u[Len(u)] = c
  /\ \A k \in 1 .. Len(s) : u[k] = s[k]
Starts(u, a, i) ==
  /\ u \in Words /\ Len(u) = i /\ i \in Nat
  /\ \A k \in 1 .. i : u[k] = a[k]
One(u, v) == u = v \/ \E p, q, r : Edited(u, v, p, q, r)
Two(u, v) == \E z \in Words : One(u, z) /\ One(z, v)
Reached(d, u, v) == (d = 0 => u = v) /\ (d = 1 => One(u, v)) /\ (d = 2 => Two(u, v))

LEMMA EndsSame ==
  ASSUME NEW u, NEW v, NEW s, NEW c, Ends(u, s, c), Ends(v, s, c)
  PROVE  u = v
<1>1. u \in Words /\ v \in Words /\ Len(u) = Len(v) /\ Len(s) \in Nat /\ Len(u) = Len(s) + 1
  BY DEF Ends
<1>2. ASSUME NEW k \in 1 .. Len(u) PROVE u[k] = v[k]
  <2>1. k \in 1 .. Len(s) \/ k = Len(u)
    BY <1>1
  <2> QED BY <1>1, <2>1 DEF Ends
<1> QED BY <1>1, <1>2, SameWord

LEMMA EndsEdited ==
  ASSUME NEW u, NEW v, NEW s, NEW t, NEW c, Ends(u, s, c), Ends(v, t, c),
         NEW p, NEW q, NEW r, Edited(s, t, p, q, r)
  PROVE  Edited(u, v, p, q, r)
<1>1. /\ u \in Words /\ v \in Words /\ Len(s) \in Nat /\ Len(t) \in Nat
      /\ Len(u) = Len(s) + 1 /\ Len(v) = Len(t) + 1 /\ u[Len(u)] = c /\ v[Len(v)] = c
  BY DEF Ends
<1>2. /\ p \in Nat /\ p >= 1 /\ q \in Nat /\ r \in Nat /\ q <= Len(s) /\ r <= Len(t)
      /\ Len(s) - q = Len(t) - r
      /\ \/ q = p - 1 /\ r = p
         \/ q = p /\ r = p - 1
         \/ q = p /\ r = p
  BY DEF Edited
<1>3. q <= Len(u) /\ r <= Len(v) /\ Len(u) - q = Len(v) - r
  BY <1>1, <1>2
<1>4. ASSUME NEW k \in 1 .. p - 1 PROVE u[k] = v[k]
  <2>1. k \in 1 .. Len(s) /\ k \in 1 .. Len(t)
    BY <1>1, <1>2
  <2> QED BY <2>1 DEF Ends, Edited
<1>5. ASSUME NEW n \in 1 .. Len(u) - q PROVE u[q + n] = v[r + n]
  <2>1. CASE n \in 1 .. Len(s) - q
    <3>1. q + n \in 1 .. Len(s) /\ r + n \in 1 .. Len(t)
      BY <1>1, <1>2, <2>1
    <3>2. s[q + n] = t[r + n]
      BY <2>1 DEF Edited
    <3> QED BY <3>1, <3>2 DEF Ends
  <2>2. CASE n = Len(u) - q
    <3>1. q + n = Len(u) /\ r + n = Len(v)
      BY <1>1, <1>2, <1>3, <2>2
    <3> QED BY <1>1, <3>1
  <2> QED BY <1>1, <1>2, <2>1, <2>2
<1> QED BY <1>1, <1>2, <1>3, <1>4, <1>5 DEF Edited

LEMMA EndsOne ==
  ASSUME NEW u, NEW v, NEW s, NEW t, NEW c, Ends(u, s, c), Ends(v, t, c), One(s, t)
  PROVE  One(u, v)
<1>1. CASE s = t
  <2>1. u = v
    BY <1>1, EndsSame
  <2> QED BY <2>1 DEF One
<1>2. CASE \E p, q, r : Edited(s, t, p, q, r)
  <2>1. PICK p, q, r : Edited(s, t, p, q, r)
    BY <1>2
  <2>2. Edited(u, v, p, q, r)
    BY <2>1, EndsEdited
  <2> QED BY <2>2 DEF One
<1> QED BY <1>1, <1>2 DEF One

LEMMA EndsExist ==
  ASSUME NEW s \in Words, NEW c \in Marks
  PROVE  \E u : Ends(u, s, c)
<1>1. Ends(Append(s, c), s, c)
  BY DEF Words, Marks, Ends
<1> QED BY <1>1

LEMMA EndsTwo ==
  ASSUME NEW u, NEW v, NEW s, NEW t, NEW c \in Marks, Ends(u, s, c), Ends(v, t, c), Two(s, t)
  PROVE  Two(u, v)
<1>1. PICK z \in Words : One(s, z) /\ One(z, t)
  BY DEF Two
<1>2. PICK y : Ends(y, z, c)
  BY EndsExist
<1>3. One(u, y) /\ One(y, v)
  BY <1>1, <1>2, EndsOne
<1>4. y \in Words
  BY <1>2 DEF Ends
<1> QED BY <1>3, <1>4 DEF Two

(* A last letter more, a last letter less, another last letter. *)
LEMMA LastLetter ==
  ASSUME NEW u, NEW s, NEW c, Ends(u, s, c)
  PROVE  One(u, s) /\ One(s, u)
<1>1. u \in Words /\ s \in Words /\ Len(s) \in Nat /\ Len(u) = Len(s) + 1
      /\ \A k \in 1 .. Len(s) : u[k] = s[k]
  BY DEF Ends
<1>2. PICK n, m : n = Len(u) /\ m = Len(s)
  OBVIOUS
<1>3. n \in Nat /\ m \in Nat /\ n >= 1 /\ m = n - 1 /\ n - 1 <= Len(s)
      /\ Len(u) - n = 0 /\ Len(s) - m = 0 /\ m <= Len(s) /\ n <= Len(u)
  BY <1>1, <1>2
<1>4. Edited(u, s, n, n, m)
  <2>1. \A k \in 1 .. n - 1 : u[k] = s[k]
    BY <1>1, <1>2, <1>3
  <2>2. \A k \in 1 .. Len(u) - n : u[n + k] = s[m + k]
    BY <1>3
  <2> QED BY <1>1, <1>3, <2>1, <2>2 DEF Edited
<1>5. Edited(s, u, n, m, n)
  <2>1. \A k \in 1 .. n - 1 : s[k] = u[k]
    BY <1>1, <1>2, <1>3
  <2>2. \A k \in 1 .. Len(s) - m : s[m + k] = u[n + k]
    BY <1>3
  <2> QED BY <1>1, <1>3, <2>1, <2>2 DEF Edited
<1> QED BY <1>4, <1>5 DEF One

LEMMA OtherLast ==
  ASSUME NEW u, NEW v, NEW s, NEW c, NEW d, Ends(u, s, c), Ends(v, s, d)
  PROVE  One(u, v)
<1>1. /\ u \in Words /\ v \in Words /\ Len(s) \in Nat /\ Len(u) = Len(s) + 1
      /\ Len(v) = Len(s) + 1
      /\ \A k \in 1 .. Len(s) : u[k] = s[k] /\ v[k] = s[k]
  BY DEF Ends
<1>2. PICK n : n = Len(u)
  OBVIOUS
<1>3. n \in Nat /\ n >= 1 /\ Len(u) - n = 0 /\ Len(v) - n = 0 /\ n <= Len(u) /\ n <= Len(v)
      /\ n - 1 = Len(s)
  BY <1>1, <1>2
<1>4. Edited(u, v, n, n, n)
  <2>1. \A k \in 1 .. n - 1 : u[k] = v[k]
    BY <1>1, <1>3
  <2>2. \A k \in 1 .. Len(u) - n : u[n + k] = v[n + k]
    BY <1>3
  <2> QED BY <1>1, <1>3, <2>1, <2>2 DEF Edited
<1> QED BY <1>4 DEF One

(* The beginnings of a word. *)
LEMMA StartsExist ==
  ASSUME NEW a \in Words, NEW i \in 0 .. Len(a)
  PROVE  \E u : Starts(u, a, i)
<1>1. Len(a) \in Nat /\ i \in Nat
  BY DEF Words
<1>2. Starts(SubSeq(a, 1, i), a, i)
  BY <1>1 DEF Words, Starts
<1> QED BY <1>2

LEMMA StartsEnd ==
  ASSUME NEW a \in Words, NEW i \in 0 .. Len(a), i >= 1, NEW u, NEW s,
         Starts(u, a, i), Starts(s, a, i - 1)
  PROVE  Ends(u, s, a[i]) /\ a[i] \in Marks
<1>1. Len(a) \in Nat /\ i \in Nat /\ i \in 1 .. Len(a)
  BY DEF Words
<1>2. a[i] \in Marks
  BY <1>1 DEF Words, Marks
<1>3. /\ u \in Words /\ Len(u) = i /\ s \in Words /\ Len(s) = i - 1 /\ i - 1 \in Nat
      /\ \A k \in 1 .. i : u[k] = a[k]
      /\ \A k \in 1 .. i - 1 : s[k] = a[k]
  BY DEF Starts
<1>4. Len(u) = Len(s) + 1 /\ u[Len(u)] = a[i] /\ \A k \in 1 .. Len(s) : u[k] = s[k]
  BY <1>1, <1>3
<1> QED BY <1>2, <1>3, <1>4 DEF Ends

LEMMA StartsSame ==
  ASSUME NEW u, NEW v, NEW a, NEW i, Starts(u, a, i), Starts(v, a, i)
  PROVE  u = v
<1>1. u \in Words /\ v \in Words /\ Len(u) = Len(v) /\ \A k \in 1 .. Len(u) : u[k] = v[k]
  BY DEF Starts
<1> QED BY <1>1, SameWord

(* One step of the induction: the distance is one more than before. *)
LEMMA ReachedMore ==
  ASSUME NEW d \in Nat, NEW u \in Words, NEW y \in Words, NEW v \in Words, Reached(d, y, v), One(u, y)
  PROVE  Reached(d + 1, u, v)
<1>1. CASE d = 0
  BY <1>1 DEF Reached
<1>2. CASE d = 1
  BY <1>2 DEF Reached, Two
<1>3. CASE d > 1
  BY <1>3 DEF Reached
<1> QED BY <1>1, <1>2, <1>3

LEMMA ReachedFarther ==
  ASSUME NEW d \in Nat, NEW u \in Words, NEW y \in Words, NEW v \in Words, Reached(d, u, y), One(y, v)
  PROVE  Reached(d + 1, u, v)
<1>1. CASE d = 0
  BY <1>1 DEF Reached
<1>2. CASE d = 1
  BY <1>2 DEF Reached, Two
<1>3. CASE d > 1
  BY <1>3 DEF Reached
<1> QED BY <1>1, <1>2, <1>3

LEMMA EndsReached ==
  ASSUME NEW d \in Nat, NEW u, NEW v, NEW s, NEW t, NEW c \in Marks, Ends(u, s, c), Ends(v, t, c),
         Reached(d, s, t)
  PROVE  Reached(d, u, v)
<1>1. d = 0 => u = v
  BY EndsSame DEF Reached
<1>2. d = 1 => One(u, v)
  BY EndsOne DEF Reached
<1>3. d = 2 => Two(u, v)
  BY EndsTwo DEF Reached
<1> QED BY <1>1, <1>2, <1>3 DEF Reached

LEMMA DistReached ==
  ASSUME NEW a \in Words, NEW b \in Words
  PROVE  \A i \in 0 .. Len(a), j \in 0 .. Len(b) : \A u, v :
           Starts(u, a, i) /\ Starts(v, b, j) => Reached(Dist(a, b, i, j), u, v)
<1>0. Len(a) \in Nat /\ Len(b) \in Nat
  BY DEF Words
<1> DEFINE X == {m \in Nat : \A i \in 0 .. Len(a), j \in 0 .. Len(b) : \A u, v :
                   i + j = m /\ Starts(u, a, i) /\ Starts(v, b, j)
                     => Reached(Dist(a, b, i, j), u, v)}
<1>1. ASSUME NEW m \in Nat, \A k \in Nat : k < m => k \in X PROVE m \in X
  <2> SUFFICES ASSUME NEW i \in 0 .. Len(a), NEW j \in 0 .. Len(b), NEW u, NEW v,
                      i + j = m, Starts(u, a, i), Starts(v, b, j)
               PROVE  Reached(Dist(a, b, i, j), u, v)
    OBVIOUS
  <2>0. i \in Nat /\ j \in Nat /\ u \in Words /\ v \in Words
    BY <1>0 DEF Starts
  <2>1. Rules(a, b, i, j)
    BY DistRules
  <2>2. CASE i = 0 /\ j = 0
    <3>1. Len(u) = 0 /\ Len(v) = 0
      BY <2>2 DEF Starts
    <3>2. \A k \in 1 .. Len(u) : u[k] = v[k]
      BY <3>1
    <3>3. u = v
      BY <2>0, <3>1, <3>2, SameWord
    <3>4. Dist(a, b, i, j) = 0
      BY <2>1, <2>2 DEF Rules
    <3> QED BY <3>3, <3>4 DEF Reached
  <2>3. CASE i >= 1 /\ Dist(a, b, i, j) = Dist(a, b, i - 1, j) + 1
    <3>1. /\ i - 1 \in 0 .. Len(a) /\ m - 1 \in Nat /\ m - 1 < m /\ (i - 1) + j = m - 1
      BY <1>0, <2>0, <2>3
    <3>2. PICK s : Starts(s, a, i - 1)
      BY <3>1, StartsExist
    <3>3. Reached(Dist(a, b, i - 1, j), s, v)
      <4>1. m - 1 \in X
        <5> HIDE DEF X
        <5> QED BY <1>1, <3>1
      <4> QED BY <3>1, <3>2, <4>1
    <3>4. One(u, s) /\ s \in Words
      <4>1. Ends(u, s, a[i])
        BY <2>3, <3>2, StartsEnd
      <4>2. s \in Words
        BY <3>2 DEF Starts
      <4> QED BY <4>1, <4>2, LastLetter
    <3>5. Dist(a, b, i - 1, j) \in Nat
      BY <2>1, <2>3 DEF Rules
    <3>6. Reached(Dist(a, b, i - 1, j) + 1, u, v)
      <4> HIDE DEF X
      <4> QED BY <2>0, <3>3, <3>4, <3>5, ReachedMore
    <3> QED BY <2>3, <3>6
  <2>4. CASE j >= 1 /\ Dist(a, b, i, j) = Dist(a, b, i, j - 1) + 1
    <3>1. /\ j - 1 \in 0 .. Len(b) /\ m - 1 \in Nat /\ m - 1 < m /\ i + (j - 1) = m - 1
      BY <1>0, <2>0, <2>4
    <3>2. PICK t : Starts(t, b, j - 1)
      BY <3>1, StartsExist
    <3>3. Reached(Dist(a, b, i, j - 1), u, t)
      <4>1. m - 1 \in X
        <5> HIDE DEF X
        <5> QED BY <1>1, <3>1
      <4> QED BY <3>1, <3>2, <4>1
    <3>4. One(t, v) /\ t \in Words
      <4>1. Ends(v, t, b[j])
        BY <2>4, <3>2, StartsEnd
      <4>2. t \in Words
        BY <3>2 DEF Starts
      <4> QED BY <4>1, <4>2, LastLetter
    <3>5. Dist(a, b, i, j - 1) \in Nat
      BY <2>1, <2>4 DEF Rules
    <3>6. Reached(Dist(a, b, i, j - 1) + 1, u, v)
      <4> HIDE DEF X
      <4> QED BY <2>0, <3>3, <3>4, <3>5, ReachedFarther
    <3> QED BY <2>4, <3>6
  <2>5. CASE i >= 1 /\ j >= 1 /\ Dist(a, b, i, j) = Dist(a, b, i - 1, j - 1) + Diff(a[i], b[j])
    <3>1. /\ i - 1 \in 0 .. Len(a) /\ j - 1 \in 0 .. Len(b) /\ m - 2 \in Nat /\ m - 2 < m
          /\ (i - 1) + (j - 1) = m - 2
      BY <1>0, <2>0, <2>5
    <3>2. PICK s, t : Starts(s, a, i - 1) /\ Starts(t, b, j - 1)
      BY <3>1, StartsExist
    <3>3. Reached(Dist(a, b, i - 1, j - 1), s, t)
      <4>1. m - 2 \in X
        <5> HIDE DEF X
        <5> QED BY <1>1, <3>1
      <4> QED BY <3>1, <3>2, <4>1
    <3>4. Ends(u, s, a[i]) /\ Ends(v, t, b[j]) /\ a[i] \in Marks /\ b[j] \in Marks
      BY <2>5, <3>2, StartsEnd
    <3>5. s \in Words /\ t \in Words
      BY <3>2 DEF Starts
    <3>6. Dist(a, b, i - 1, j - 1) \in Nat
      BY <2>1, <2>5 DEF Rules
    <3>7. CASE a[i] = b[j]
      <4>1. Reached(Dist(a, b, i - 1, j - 1), u, v)
        <5> HIDE DEF X
        <5> QED BY <3>3, <3>4, <3>6, <3>7, EndsReached
      <4>2. Diff(a[i], b[j]) = 0
        BY <3>7 DEF Diff, P!Bonus
      <4> QED BY <2>5, <3>6, <4>1, <4>2
    <3>8. CASE a[i] # b[j]
      <4>1. PICK y : Ends(y, t, a[i])
        BY <3>4, <3>5, EndsExist
      <4>2. Reached(Dist(a, b, i - 1, j - 1), u, y)
        <5> HIDE DEF X
        <5> QED BY <3>3, <3>4, <3>6, <4>1, EndsReached
      <4>3. One(y, v) /\ y \in Words
        <5>1. One(y, v)
          BY <3>4, <4>1, OtherLast
        <5> QED BY <4>1, <5>1 DEF Ends
      <4>4. Diff(a[i], b[j]) = 1
        BY <3>8 DEF Diff, P!Bonus
      <4>5. Reached(Dist(a, b, i - 1, j - 1) + 1, u, v)
        <5> HIDE DEF X
        <5> QED BY <2>0, <3>6, <4>2, <4>3, ReachedFarther
      <4> QED BY <2>5, <4>4, <4>5
    <3> QED BY <3>7, <3>8
  <2> QED BY <2>1, <2>2, <2>3, <2>4, <2>5 DEF Rules
<1>2. \A m \in Nat : m \in X
  <2> HIDE DEF X
  <2> QED BY <1>1, StrongInduction
<1>3. \A i \in 0 .. Len(a), j \in 0 .. Len(b) : i + j \in X
  <2>1. \A i \in 0 .. Len(a), j \in 0 .. Len(b) : i + j \in Nat
    OBVIOUS
  <2> HIDE DEF X
  <2> QED BY <1>2, <2>1
<1> QED BY <1>3

(* A table of two words tells whether they are one or two edits apart. *)
LEMMA TableTells ==
  ASSUME NEW a \in Words, NEW b \in Brands, b \in Words, a # b
  PROVE  P!levenshtein(a, b) \in 1 .. 2 <=> a \in P!TwoEdits[b]
<1> DEFINE Nearby == (UNION {P!OneEdit(w) : w \in P!OneEdit(b)}) \cup P!OneEdit(b)
<1>1. P!TwoEdits[b] = Nearby
  BY DEF P!TwoEdits
<1>0. a \in Nearby <=> a \in P!OneEdit(b) \/ \E w \in P!OneEdit(b) : a \in P!OneEdit(w)
  <2> DEFINE S == {P!OneEdit(w) : w \in P!OneEdit(b)}
  <2>1. \A X : X \in S <=> \E w \in P!OneEdit(b) : X = P!OneEdit(w)
    BY Zenon
  <2>2. Nearby = (UNION S) \cup P!OneEdit(b)
    OBVIOUS
  <2> HIDE DEF S, Nearby
  <2>3. a \in Nearby <=> (\E X \in S : a \in X) \/ a \in P!OneEdit(b)
    <3>1. a \in Nearby <=> a \in UNION S \/ a \in P!OneEdit(b)
      BY <2>2, Zenon
    <3>2. a \in UNION S <=> \E X \in S : a \in X
      BY Zenon
    <3> QED BY <3>1, <3>2, Zenon
  <2>4. (\E X \in S : a \in X) <=> \E w \in P!OneEdit(b) : a \in P!OneEdit(w)
    BY <2>1, Zenon
  <2> QED BY <2>3, <2>4, Zenon
<1> HIDE DEF Nearby
<1>2. PICK d : d = Dist(a, b, Len(a), Len(b))
  OBVIOUS
<1>3. P!levenshtein(a, b) = d
  BY <1>2, Opens, Zenon DEF Dist
<1>4. Len(a) \in 0 .. Len(a) /\ Len(b) \in 0 .. Len(b) /\ Len(a) \in Nat /\ Len(b) \in Nat
  BY DEF Words
<1>5. Reached(d, a, b)
  <2>1. Starts(a, a, Len(a)) /\ Starts(b, b, Len(b))
    BY <1>4 DEF Starts
  <2> QED BY <1>2, <1>4, <2>1, DistReached
<1>6. d \in Nat
  BY <1>2, <1>4, DistNat
<1>7. ASSUME NEW u, NEW v, One(u, v) PROVE u = v \/ u \in P!OneEdit(v)
  BY <1>7, MadeByEdit DEF One
<1>8. ASSUME d \in 1 .. 2 PROVE a \in Nearby
  <2>1. CASE d = 1
    <3>1. One(a, b)
      BY <1>5, <2>1 DEF Reached
    <3> QED BY <1>0, <1>7, <3>1
  <2>2. CASE d = 2
    <3>1. PICK z \in Words : One(a, z) /\ One(z, b)
      BY <1>5, <2>2 DEF Reached, Two
    <3>2. a = z \/ a \in P!OneEdit(z)
      BY <1>7, <3>1
    <3>3. z = b \/ z \in P!OneEdit(b)
      BY <1>7, <3>1
    <3>4. CASE a = z
      BY <1>0, <3>3, <3>4
    <3>5. CASE z = b
      <4>1. a = b \/ a \in P!OneEdit(b)
        BY <3>2, <3>5
      <4> QED BY <1>0, <4>1
    <3> QED BY <1>0, <3>2, <3>3, <3>4, <3>5
  <2> QED BY <1>6, <1>8, <2>1, <2>2
<1>9. ASSUME a \in Nearby PROVE d \in 1 .. 2
  <2>1. d # 0
    BY <1>5 DEF Reached
  <2>2. Dist(b, b, Len(b), Len(b)) = 0
    BY NoneApart
  <2>3. CASE a \in P!OneEdit(b)
    <3>1. d <= 0 + 1
      BY <1>2, <2>2, <2>3, OneEditApart
    <3> QED BY <1>6, <2>1, <3>1
  <2>4. CASE \E w \in P!OneEdit(b) : a \in P!OneEdit(w)
    <3>1. PICK w \in P!OneEdit(b) : a \in P!OneEdit(w)
      BY <2>4
    <3>2. /\ w \in Words /\ Dist(w, b, Len(w), Len(b)) \in Nat
          /\ Dist(w, b, Len(w), Len(b)) <= 0 + 1
      BY <2>2, <3>1, OneEditApart
    <3>3. d <= Dist(w, b, Len(w), Len(b)) + 1
      BY <1>2, <3>1, <3>2, OneEditApart
    <3> QED BY <1>6, <2>1, <3>2, <3>3
  <2> QED BY <1>0, <1>9, <2>3, <2>4, Zenon
<1> QED BY <1>1, <1>3, <1>8, <1>9

(* Forty points for the brand are those of a look-alike. *)
LEMMA LookAlikesTell == VerdictInv => P!LookAlikesAreFound
<1> SUFFICES ASSUME VerdictInv PROVE P!LookAlikesAreFound
  OBVIOUS
<1>1. PICK a : a = url.label
  OBVIOUS
<1>2. a \in Labels /\ protected \in SUBSET Brands
  BY <1>1 DEF VerdictInv, P!URLs
<1>3. a \in Words /\ \A b \in Brands : b \in Words
  BY <1>2, DetectionAssumption DEF P!PhishingAssumption, Words
<1>4. P!BrandPoints(url, protected) >= 40 <=> P!Typosquat(url, protected)
  <2>1. P!LookAlike(url) >= 40
    BY DEF P!LookAlike, P!Bonus
  <2>2. ~(P!Bonus(P!Impersonation(url, protected), 30) >= 40)
    BY DEF P!Bonus
  <2> QED BY <2>1, <2>2 DEF P!BrandPoints
<1>5. ASSUME NEW b \in protected, a \notin protected
      PROVE  P!Distance[a][b] \in 1 .. 2 <=> a \in P!TwoEdits[b]
  <2>1. a # b /\ b \in Brands
    BY <1>2, <1>5
  <2>2. P!Distance[a][b] = P!levenshtein(a, b)
    BY <1>2, <2>1 DEF P!Distance
  <2> QED BY <1>3, <2>1, <2>2, TableTells
<1>6. P!Typosquat(url, protected) <=>
        /\ Len(a) >= 4 /\ a \notin protected
        /\ \E b \in protected : a \in P!TwoEdits[b]
  BY <1>1, <1>5 DEF P!Typosquat
<1> QED BY <1>1, <1>4, <1>6 DEF P!LookAlikesAreFound
-----------------------------------------------------------------------------
(* Whatever the labels and the brands, of any length and over any letters:  *)
(* a verdict of high risk rests on signs of two kinds ("'high' requires     *)
(* corroborating evidence", phishing.py), and a label counts as a           *)
(* look-alike exactly if one or two edits make a protected brand of it (the *)
(* table of _levenshtein, analyze_url of detection/phishing.py).            *)
THEOREM VerdictsHold == MCSpec => []VerdictsAreSound
<1>1. MCInit => VerdictInv
  BY InitVerdict DEF MCInit
<1>2. VerdictInv => VerdictsAreSound
  BY VerdictTypes, HighNeedsTwo, LookAlikesTell DEF VerdictsAreSound
<1> QED
  BY <1>1, <1>2, VerdictStep, PTL DEF MCSpec
==============================================================================
