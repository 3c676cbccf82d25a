------------------------- MODULE AgentSessionProofs -------------------------
(***************************************************************************)
(* Proofs about AgentSession and the functions of Protocol it rests on,    *)
(* for every set of documents, moments, versions and challenges and every  *)
(* digest function.                                                        *)
(***************************************************************************)
EXTENDS AgentSession, TLAPS

-----------------------------------------------------------------------------
(* The functions. *)

\* The moments are counted from 1970.
LEMMA TimesType == Half \in Nat /\ \A t \in Times : t \in Nat
<1>1. Half \in Nat /\ Times \subseteq 0..(Half - 301)
  BY LibraryAssumption
<1> QED
  BY <1>1

\* A difference that 64 bits can hold is the exact one.
LEMMA MinusExact ==
  ASSUME NEW a \in I64, NEW b \in I64, a >= 0, b >= 0, Half \in Nat
  PROVE  Minus(a, b) = a - b
  BY DEF Minus, I64

\* The end of a short-lived document of the Unix era that verifies at s is near.
LEMMA EndsSoon ==
  ASSUME Half \in Nat, NEW d \in Document, NEW s \in Nat,
         d.kind \in DOMAIN Span, d.from >= 0, Verified(d, s)
  PROVE  d.until \in Int /\ d.until <= s + Skew(d.kind) + Span[d.kind]
<1>1. /\ d.kind \in {"grant", "revocation", "compatibility"}
      /\ d.from \in I64 /\ d.until \in I64
  BY DEF Document, Span
<1>2. /\ Minus(d.until, d.from) <= Span[d.kind] /\ d.from <= s + Skew(d.kind)
      /\ s < d.until
  BY <1>1 DEF Verified, InTime
<1>3. Minus(d.until, d.from) = d.until - d.from
  BY <1>1, <1>2, MinusExact DEF I64
<1> QED
  BY <1>1, <1>2, <1>3 DEF Span, Skew, I64

\* A refusal that only names the version is one that a newer version lifts.
LEMMA OutcomeMatters ==
  ASSUME NEW b \in Bundles, NEW v \in Versions
  PROVE  Outcome(b, v) = "agent_update_required" <=>
           Outcome(b, v) # "ok" /\ \E w \in Versions : w > v /\ Outcome(b, w) = "ok"
<1> USE LibraryAssumption DEF Outcome, verify_launch_bundle
<1>1. ASSUME Outcome(b, v) = "agent_update_required"
      PROVE  \E w \in Versions : w > v /\ Outcome(b, w) = "ok"
  <2>1. Acceptable(b, now) /\ Bound(b, AgentKey, Build) /\ v < b.policy.minimum
    BY <1>1
  <2>2. b.policy.minimum \in Versions
    BY <2>1 DEF Acceptable
  <2> WITNESS b.policy.minimum \in Versions
  <2>3. v \in Nat /\ b.policy.minimum \in Nat
    BY <2>2
  <2>4. Outcome(b, b.policy.minimum) = "ok"
    BY <2>1, <2>3
  <2>5. b.policy.minimum > v
    BY <2>1, <2>3
  <2> QED
    BY <2>4, <2>5
<1>2. ASSUME NEW w \in Versions, w > v, Outcome(b, w) = "ok", Outcome(b, v) # "ok"
      PROVE  Outcome(b, v) = "agent_update_required"
  BY <1>2
<1> QED
  BY <1>1, <1>2

\* A product's rule is no stricter on a newer version.
LEMMA RuleMonotone ==
  ASSUME NEW r, NEW p \in Nat, NEW v \in Nat, NEW w \in Nat, v < w,
         r.minimum \in Nat, r.recommended \in Nat,
         r.minProtocol \in Nat, r.maxProtocol \in Nat
  PROVE  /\ Rule(r, v, p) \in {"supported", "deprecated"} =>
              Rule(r, w, p) \in {"supported", "deprecated"}
         /\ Rule(r, v, p) = "supported" => Rule(r, w, p) = "supported"
  BY DEF Rule

\* A rule never says that a version is revoked, unparsable or undecided.
LEMMA RuleSays ==
  ASSUME NEW r, NEW v, NEW p
  PROVE  Rule(r, v, p) \in {"update_required", "unknown", "deprecated", "supported"}
  BY DEF Rule

\* A newer version of a product is decided on as favourably.
LEMMA DecisionMonotone ==
  ASSUME NEW m \in Manifests, NEW product \in Products, NEW protocol \in Protocols,
         NEW v \in Versions, NEW w \in Versions, v < w,
         ~Revoked(m, product, w, now),
         Decision(m, product, v, protocol) \in {"supported", "deprecated"}
  PROVE  /\ Decision(m, product, w, protocol) \in {"supported", "deprecated"}
         /\ Decision(m, product, v, protocol) = "supported" =>
              Decision(m, product, w, protocol) = "supported"
<1>0. v \in Nat /\ w \in Nat /\ protocol \in Nat
  BY LibraryAssumption
<1>1. /\ ~(now < m.from \/ m.until <= now) /\ product \in DOMAIN m.rules
      /\ Decision(m, product, v, protocol) = Rule(m.rules[product], v, protocol)
  BY DEF Decision, evaluate_compatibility
<1>2. Decision(m, product, w, protocol) = Rule(m.rules[product], w, protocol)
  BY <1>0, <1>1 DEF Decision, evaluate_compatibility, Unparsable
<1> QED
  BY <1>0, <1>1, <1>2, RuleMonotone, LibraryAssumption

-----------------------------------------------------------------------------
(* The session. *)

\* Every report answers a challenge that was alive when it was signed, and not
\* the one that was answered just before.
AnswersLive ==
  \A i \in 1..Len(reports) :
    /\ Live(answered[i], reports[i].at)
    /\ i > 1 => answered[i] # answered[i - 1]

\* The session's state follows the reports it signed, and each report the
\* challenge it answers.
SessionInv ==
  /\ Len(reports) = Len(answered)
  /\ sequence = Len(reports)
  /\ previous = IF reports = <<>> THEN NoDigest ELSE Digest(reports[Len(reports)])
  /\ answered # <<>> => last = answered[Len(answered)]
  /\ AnswersLive

IInv == TypeOK /\ SessionInv

-----------------------------------------------------------------------------
(* Preservation of the invariant. *)

\* What create_report adds is a report of the declared form.
LEMMA SignedType ==
  ASSUME TypeOK, NEW c \in Challenges, sequence < MaxSequence
  PROVE  Signed(sequence + 1, c) \in Report /\ Digest(Signed(sequence + 1, c)) \in Digests
<1>1. Signed(sequence + 1, c) \in Report
  BY LibraryAssumption DEF TypeOK, Signed, Report
<1> QED
  BY <1>1, LibraryAssumption

\* A sequence with one more element.
LEMMA AppendKeeps ==
  ASSUME NEW S, NEW s \in Seq(S), NEW e \in S
  PROVE  /\ Len(Append(s, e)) = Len(s) + 1 /\ Append(s, e) # <<>>
         /\ SubSeq(Append(s, e), 1, Len(s)) = s
         /\ \A i \in 1..Len(s) : Append(s, e)[i] = s[i]
         /\ Append(s, e)[Len(s) + 1] = e
<1>1. Append(s, e) \in Seq(S) /\ Len(Append(s, e)) = Len(s) + 1
  OBVIOUS
<1>2. \A i \in 1..Len(s) : Append(s, e)[i] = s[i]
  OBVIOUS
<1>3. Append(s, e)[Len(s) + 1] = e
  OBVIOUS
<1>4. SubSeq(Append(s, e), 1, Len(s)) = s
  BY <1>1, <1>2
<1> QED
  BY <1>1, <1>2, <1>3, <1>4

\* What a successful call does to the history.
LEMMA ReportStep ==
  ASSUME TypeOK, NEW c \in Challenges, create_report(c)
  PROVE  /\ Len(reports') = Len(reports) + 1 /\ Len(answered') = Len(answered) + 1
         /\ reports' # <<>> /\ answered' # <<>>
         /\ SubSeq(reports', 1, Len(reports)) = reports
         /\ \A i \in 1..Len(reports) : reports'[i] = reports[i]
         /\ \A i \in 1..Len(answered) : answered'[i] = answered[i]
         /\ reports'[Len(reports) + 1] = Signed(sequence + 1, c)
         /\ answered'[Len(answered) + 1] = c
<1> DEFINE r == Signed(sequence + 1, c)
<1>1. /\ reports' = Append(reports, r) /\ answered' = Append(answered, c)
      /\ r \in Report
  BY SignedType DEF create_report
<1> HIDE DEF r
<1>2. reports \in Seq(Report) /\ answered \in Seq(Challenges)
  BY DEF TypeOK
<1>3. /\ Len(reports') = Len(reports) + 1 /\ reports' # <<>>
      /\ SubSeq(reports', 1, Len(reports)) = reports
      /\ \A i \in 1..Len(reports) : reports'[i] = reports[i]
      /\ reports'[Len(reports) + 1] = r
  BY ONLY <1>1, <1>2, AppendKeeps
<1>4. /\ Len(answered') = Len(answered) + 1 /\ answered' # <<>>
      /\ \A i \in 1..Len(answered) : answered'[i] = answered[i]
      /\ answered'[Len(answered) + 1] = c
  BY ONLY <1>1, <1>2, c \in Challenges, AppendKeeps
<1> QED
  BY <1>3, <1>4 DEF r

\* The types.
LEMMA TypeStep == TypeOK /\ [Next]_vars => TypeOK'
<1> SUFFICES ASSUME TypeOK, [Next]_vars PROVE TypeOK'
  OBVIOUS
<1>1. CASE Tick
  BY <1>1 DEF TypeOK, Tick, session
<1>2. CASE activate
  BY <1>2, LibraryAssumption DEF TypeOK, activate
<1>3. ASSUME NEW c \in Challenges, create_report(c) PROVE TypeOK'
  <2> DEFINE r == Signed(sequence + 1, c)
  <2>1. /\ UNCHANGED <<now, bundle>> /\ bundle # None /\ sequence < MaxSequence
        /\ sequence' = r.sequence /\ previous' = Digest(r) /\ last' = c
        /\ reports' = Append(reports, r) /\ answered' = Append(answered, c)
    BY <1>3 DEF create_report
  <2>2. r \in Report /\ Digest(r) \in Digests /\ r.sequence \in 0..MaxSequence
    BY <2>1, SignedType DEF Report
  <2> HIDE DEF r
  <2> QED
    BY <2>1, <2>2 DEF TypeOK
<1>4. CASE UNCHANGED vars
  BY <1>4 DEF TypeOK, vars, session
<1> QED
  BY <1>1, <1>2, <1>3, <1>4 DEF Next

\* A session begins with nothing signed, and each call moves its state and the
\* history together.
LEMMA SessionStep == TypeOK /\ SessionInv /\ [Next]_vars => SessionInv'
<1> SUFFICES ASSUME TypeOK, SessionInv, [Next]_vars PROVE SessionInv'
  OBVIOUS
<1>1. CASE Tick \/ UNCHANGED vars
  BY <1>1 DEF SessionInv, AnswersLive, Tick, vars, session
<1>2. CASE activate
  <2>1. UNCHANGED <<reports, answered>> /\ reports = <<>> /\ answered = <<>>
    BY <1>2 DEF activate, TypeOK, SessionInv
  <2> QED
    BY <1>2, <2>1 DEF activate, SessionInv, AnswersLive
<1>3. ASSUME NEW c \in Challenges, create_report(c) PROVE SessionInv'
  <2> DEFINE r == Signed(sequence + 1, c)
             n == Len(reports)
  <2>1. /\ c.session = SessionId /\ Live(c, now) /\ last # c
        /\ sequence' = r.sequence /\ previous' = Digest(r) /\ last' = c
    BY <1>3 DEF create_report
  <2>2. /\ r.sequence = n + 1 /\ r.nonce = c.nonce /\ r.at = now
    BY DEF Signed, SessionInv
  <2>3. n \in Nat /\ Len(answered) = n
    BY DEF TypeOK, SessionInv
  <2> HIDE DEF r
  <2>4. /\ Len(reports') = n + 1 /\ Len(answered') = n + 1
        /\ reports' # <<>>
        /\ \A i \in 1..n : reports'[i] = reports[i] /\ answered'[i] = answered[i]
        /\ reports'[n + 1] = r /\ answered'[n + 1] = c
    BY <1>3, <2>3, ReportStep DEF r
  <2>5. AnswersLive'
    <3> SUFFICES ASSUME NEW i \in 1..(n + 1)
                 PROVE  /\ Live(answered'[i], reports'[i].at)
                        /\ i > 1 => answered'[i] # answered'[i - 1]
      BY <2>4 DEF AnswersLive
    <3>1. CASE i \in 1..n
      <4>1. i > 1 => i - 1 \in 1..n
        BY <2>3, <3>1
      <4> QED
        BY <2>4, <3>1, <4>1 DEF SessionInv, AnswersLive
    <3>2. CASE i = n + 1
      <4>1. i > 1 => n \in 1..n /\ i - 1 = n /\ answered # <<>>
        BY <2>3, <3>2 DEF TypeOK
      <4>2. i > 1 => answered'[i - 1] = last
        BY <2>3, <2>4, <4>1 DEF SessionInv
      <4> QED
        BY <2>1, <2>2, <2>4, <3>2, <4>2
    <3> QED
      BY <2>3, <3>1, <3>2
  <2> QED
    BY <2>1, <2>2, <2>3, <2>4, <2>5 DEF SessionInv
<1> QED
  BY <1>1, <1>2, <1>3 DEF Next

-----------------------------------------------------------------------------
(* The theorems. *)

\* The inductive invariant holds throughout every session.
THEOREM LibraryInvariant == Spec => []IInv
<1>1. Init => IInv
  BY LibraryAssumption DEF Init, IInv, TypeOK, SessionInv, AnswersLive
<1>2. IInv /\ [Next]_vars => IInv'
  BY TypeStep, SessionStep DEF IInv
<1> QED
  BY <1>1, <1>2, PTL DEF Spec

\* The state of a session always has its declared types.
THEOREM TypeCorrect == Spec => []TypeOK
<1>1. IInv => TypeOK
  BY DEF IInv
<1> QED
  BY <1>1, LibraryInvariant, PTL

\* Whatever times its issuer wrote, a document of a short-lived kind that claims
\* to be of the Unix era and is accepted now is refused after its longest validity
\* and the tolerated skew, although the difference of two times may wrap around.
THEOREM ShortLivedHolds == Spec => []ShortLived
<1>1. IInv => ShortLived
  <2> SUFFICES ASSUME IInv, NEW d \in Documents, d.kind \in DOMAIN Span,
                      d.from >= 0, Verified(d, now),
                      NEW t \in Times, t >= now + Skew(d.kind) + Span[d.kind]
               PROVE  ~Verified(d, t)
    BY DEF ShortLived
  <2>1. now \in Nat /\ t \in Nat /\ d \in Document /\ Half \in Nat
    BY LibraryAssumption DEF IInv, TypeOK
  <2>2. d.until \in Int /\ d.until <= now + Skew(d.kind) + Span[d.kind]
    BY <2>1, EndsSoon
  <2>3. Skew(d.kind) \in Int /\ Span[d.kind] \in Int
    BY DEF Skew, Span
  <2>4. ~(t < d.until)
    BY <2>1, <2>2, <2>3
  <2> QED
    BY <2>4 DEF Verified, InTime
<1> QED
  BY <1>1, LibraryInvariant, PTL

\* The updater is started exactly for the bundles that an update makes
\* acceptable.
THEOREM UpdateHelpsHolds == Spec => []UpdateHelps
<1>1. UpdateHelps
  BY OutcomeMatters DEF UpdateHelps
<1> QED
  BY <1>1, PTL

\* A newer version that is not revoked is decided on as favourably.
THEOREM NewerIsNoWorseHolds == Spec => []NewerIsNoWorse
<1>1. NewerIsNoWorse
  BY DecisionMonotone DEF NewerIsNoWorse, allows_new_protected_session
<1> QED
  BY <1>1, PTL

\* A revocation that has taken effect is never outlived by its version.
THEOREM RevokedStaysRevokedHolds == Spec => RevokedStaysRevoked
<1>1. IInv /\ IInv' /\ [Next]_vars =>
        [\A m \in Manifests, product \in Products, protocol \in Protocols, v \in Versions :
           Revoked(m, product, v, now) =>
             ~allows_new_protected_session(Decision(m, product, v, protocol)')]_now
  <2> SUFFICES ASSUME IInv, IInv', [Next]_vars,
                      NEW m \in Manifests, NEW product \in Products,
                      NEW protocol \in Protocols, NEW v \in Versions,
                      Revoked(m, product, v, now)
               PROVE  ~allows_new_protected_session(Decision(m, product, v, protocol)')
    OBVIOUS
  <2>1. now \in Int /\ now' \in Int /\ now <= now'
    BY LibraryAssumption DEF IInv, TypeOK, Next, Tick, activate, create_report, vars
  <2>2. Revoked(m, product, v, now')
    BY <2>1, LibraryAssumption DEF Revoked, I64
  <2> QED
    BY <2>2 DEF allows_new_protected_session, Decision, evaluate_compatibility
<1> QED
  BY <1>1, LibraryInvariant, PTL DEF Spec, RevokedStaysRevoked

\* A challenge that is answered again was not answered just before, and is
\* younger than two minutes.
THEOREM RepeatIsBriefHolds == Spec => []RepeatIsBrief
<1>1. IInv => RepeatIsBrief
  <2> SUFFICES ASSUME IInv, NEW i \in 1..Len(answered), NEW j \in 1..Len(answered),
                      i < j, answered[i] = answered[j]
               PROVE  j > i + 1 /\ reports[j].at < reports[i].at + 120
    BY DEF RepeatIsBrief
  <2>1. /\ i \in 1..Len(reports) /\ j \in 1..Len(reports) /\ i \in Nat /\ j \in Nat
        /\ j > 1 /\ Len(answered) \in Nat
    BY DEF IInv, SessionInv, TypeOK
  <2>2. j # i + 1
    BY <2>1 DEF IInv, SessionInv, AnswersLive
  <2>3. /\ reports[j].at < answered[j].until
        /\ answered[i].until <= reports[i].at + 120
    BY <2>1 DEF IInv, SessionInv, AnswersLive, Live
  <2>4. reports[i] \in Report /\ reports[j] \in Report /\ answered[j] \in Challenges
    BY <2>1 DEF IInv, TypeOK
  <2>5. answered[j].until \in Int
    BY <2>4, LibraryAssumption DEF I64
  <2>6. reports[i].at \in Times /\ reports[j].at \in Times
    BY <2>4 DEF Report
  <2>7. reports[i].at \in Int /\ reports[j].at \in Int
    BY ONLY <2>6, TimesType
  <2> QED
    BY <2>1, <2>2, <2>3, <2>5, <2>7
<1> QED
  BY <1>1, LibraryInvariant, PTL

\* The library implements the abstract report chain.
THEOREM ReportsFormChainHolds == Spec => ReportsFormChain
<1>1. Init => Chain!Init
  BY DEF Init, Chain!Init
<1>2. IInv /\ [Next]_vars => [Chain!Issue]_reports
  <2> SUFFICES ASSUME IInv, [Next]_vars, reports' # reports
               PROVE  Chain!Issue
    OBVIOUS
  <2>1. PICK c \in Challenges : create_report(c)
    BY DEF Next, Tick, activate, vars
  <2>2. /\ Len(reports') = Len(reports) + 1
        /\ SubSeq(reports', 1, Len(reports)) = reports
        /\ reports'[Len(reports) + 1] = Signed(sequence + 1, c)
    BY <2>1, ReportStep DEF IInv
  <2>3. /\ Signed(sequence + 1, c).sequence = Len(reports) + 1
        /\ Signed(sequence + 1, c).previous =
             IF reports = <<>> THEN NoDigest ELSE Digest(reports[Len(reports)])
    BY DEF Signed, IInv, SessionInv
  <2> QED
    BY <2>2, <2>3 DEF Chain!Issue, Chain!Continues
<1> QED
  BY <1>1, <1>2, LibraryInvariant, PTL DEF Spec, ReportsFormChain, Chain!Spec
=============================================================================
