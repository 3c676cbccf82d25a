------------------------------ MODULE Protocol ------------------------------
(***************************************************************************)
(* The verification of signed documents, crates/certael-agent-protocol: a  *)
(* document's validity at a moment, the key ring, the launch bundle and    *)
(* its outcome, challenges, and the decision on the compatibility of an    *)
(* installed component.  Pure functions of their arguments and the time,   *)
(* which is in seconds, as now_unix() gives it.                            *)
(*                                                                         *)
(* Signatures, canonical encoding and the form of the fields are what they *)
(* amount to: a document is "sound" when its signature verifies under the  *)
(* key it names and "formed" when it decodes to itself and every field     *)
(* that is neither a time nor compared with another document is valid.     *)
(***************************************************************************)
EXTENDS Integers, FiniteSets

CONSTANTS
  Ring,    \* the verification keys of a trust store
  Half     \* times are i64: integers from -Half to Half - 1, where Half is 2^63

I64 == (-Half) .. (Half - 1)

\* The difference of two times, as a release build computes it: it wraps around.
Minus(a, b) ==
  LET d == a - b
  IN  IF d >= Half THEN d - 2 * Half ELSE IF d < -Half THEN d + 2 * Half ELSE d

Kinds == {"policy", "grant", "manifest", "registration", "branding",
          "revocation", "compatibility"}

\* The part that every signed document has: not_before_unix, issued_at_unix or
\* revoked_at_unix (a policy has none), and expires_at_unix.
Document == [kind : Kinds, formed : BOOLEAN, sound : BOOLEAN, key : STRING,
             from : I64, until : I64]

\* How far the clock of the issuer may be ahead.
Skew(kind) == IF kind = "compatibility" THEN 300 ELSE 30

\* The longest validity that is accepted, of the kinds that have one.
Span == [grant |-> 120, revocation |-> 300, compatibility |-> 32 * 24 * 60 * 60]

-----------------------------------------------------------------------------
(* One document. *)

\* VerificationKeyRing::new
ValidRing(keys) ==
  /\ keys # {}
  /\ \A k \in keys : k.from < k.until
  /\ \A k, l \in keys : k.id = l.id => k = l

\* VerificationKeyRing::resolve
Resolves(id, t) ==
  \E k \in Ring : k.id = id /\ ~k.revoked /\ k.from <= t /\ t < k.until

\* Mutant of InTime: a document may come from any time in the future.
InTimeUnissued(d, t) ==
  /\ t < d.until
  /\ d.kind \notin {"policy", "revocation"} => d.from < d.until
  /\ d.kind \in DOMAIN Span => Minus(d.until, d.from) <= Span[d.kind]

\* The times in validate_policy, validate_launch_grant, validate_build_manifest,
\* validate_game_registration, validate_compatibility_manifest,
\* verify_branding_manifest and verify_revocation.
InTime(d, t) ==
  /\ t < d.until
  /\ d.kind # "policy" => d.from <= t + Skew(d.kind)
  /\ d.kind \notin {"policy", "revocation"} => d.from < d.until
  /\ d.kind \in DOMAIN Span => Minus(d.until, d.from) <= Span[d.kind]

\* verify_policy, verify_launch_grant, ...
Verified(d, t) ==
  d.formed /\ InTime(d, t) /\ Resolves(d.key, t) /\ d.sound

-----------------------------------------------------------------------------
(* The launch bundle. *)

Unparsable == -1     \* a version that is not a semantic version

\* The numbers of a policy in validate_policy.
Timed(p) ==
  /\ p.heartbeat \in 5..300 /\ p.report \in 15..3600 /\ p.grace \in 0..300
  /\ p.heartbeat <= p.report

\* Binding of the grant to this Agent and to the other two documents.  "id"
\* stands for the digest of the signed document, "scope" for the tenant, the
\* game and the environment.
Bound(b, agentKey, build) ==
  /\ b.grant.agentKey = agentKey /\ b.grant.build = build
  /\ b.policy.scope = b.grant.scope
  /\ b.grant.policy = b.policy.id /\ b.grant.manifest = b.manifest.id
  /\ b.manifest.scope = b.grant.scope /\ b.manifest.build = b.grant.build

\* The envelopes, the three documents, and the two versions.
Acceptable(b, t) ==
  /\ b.formed
  /\ Verified(b.policy, t) /\ Timed(b.policy)
  /\ Verified(b.grant, t)
  /\ Verified(b.manifest, t)
  /\ b.policy.minimum # Unparsable

\* Mutant of verify_launch_bundle: the version is compared first.
VerifyVersionFirst(b, t, agentKey, build, version) ==
  IF ~Acceptable(b, t) THEN "rejected"
  ELSE IF version < b.policy.minimum THEN "agent_update_required"
  ELSE IF ~Bound(b, agentKey, build) THEN "rejected"
  ELSE "ok"

\* serve() answers every error but one alike; the version is compared last.
verify_launch_bundle(b, t, agentKey, build, version) ==
  IF ~Acceptable(b, t) \/ ~Bound(b, agentKey, build) THEN "rejected"
  ELSE IF version < b.policy.minimum THEN "agent_update_required"
  ELSE "ok"

-----------------------------------------------------------------------------
(* Challenges. *)

\* Mutant of Live: the challenge lives as long as its issuer wrote.
LiveLong(c, t) == c.formed /\ t < c.until

\* The nonce has a valid length, and the challenge dies within two minutes.
Live(c, t) == c.formed /\ t < c.until /\ c.until <= t + 120

-----------------------------------------------------------------------------
(* Compatibility of an installed component. *)

\* The rules and the revocations in validate_compatibility_manifest.  "rules"
\* is a function, so a product has one rule.
Ruled(m) ==
  /\ DOMAIN m.rules # {}
  /\ \A p \in DOMAIN m.rules :
       /\ m.rules[p].minimum <= m.rules[p].recommended
       /\ 0 < m.rules[p].minProtocol /\ m.rules[p].minProtocol <= m.rules[p].maxProtocol
  /\ \A r \in m.revocations :
       Minus(m.from, 86400) <= r.at /\ r.at <= m.until

\* verify_compatibility_manifest
VerifiedManifest(m, t) == Verified(m, t) /\ Ruled(m)

Revoked(m, product, version, t) ==
  \E r \in m.revocations :
    r.product = product /\ r.version = version /\ r.at <= t

\* Mutant of Rule: a version above the recommended one is deprecated.
RuleExact(rule, version, protocol) ==
  IF protocol < rule.minProtocol THEN "update_required"
  ELSE IF protocol > rule.maxProtocol THEN "unknown"
  ELSE IF version < rule.minimum THEN "update_required"
  ELSE IF version # rule.recommended THEN "deprecated"
  ELSE "supported"

\* What a product's rule says of a version.
Rule(rule, version, protocol) ==
  IF protocol < rule.minProtocol THEN "update_required"
  ELSE IF protocol > rule.maxProtocol THEN "unknown"
  ELSE IF version < rule.minimum THEN "update_required"
  ELSE IF version < rule.recommended THEN "deprecated"
  ELSE "supported"

\* Mutant of evaluate_compatibility: a rule goes before a revocation.
EvaluateRuleFirst(m, product, version, protocol, t) ==
  IF t < m.from \/ m.until <= t THEN "indeterminate"
  ELSE IF version = Unparsable THEN "unknown"
  ELSE IF product \in DOMAIN m.rules THEN Rule(m.rules[product], version, protocol)
  ELSE IF Revoked(m, product, version, t) THEN "revoked"
  ELSE "unknown"

\* What a verified manifest says of a version at a moment.
evaluate_compatibility(m, product, version, protocol, t) ==
  IF t < m.from \/ m.until <= t THEN "indeterminate"
  ELSE IF version = Unparsable THEN "unknown"
  ELSE IF Revoked(m, product, version, t) THEN "revoked"
  ELSE IF product \notin DOMAIN m.rules THEN "unknown"
  ELSE Rule(m.rules[product], version, protocol)

allows_new_protected_session(decision) == decision \in {"supported", "deprecated"}
=============================================================================
