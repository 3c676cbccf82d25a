--------------------------- MODULE MCAgentSession ---------------------------
(***************************************************************************)
(* Instances of AgentSession for TLC.  Times are seconds; the documents    *)
(* have their times on both sides of every bound that the code compares    *)
(* them with, seen from the moments of MCTimes.                            *)
(***************************************************************************)
EXTENDS AgentSession

MCDigest(r) == <<r.sequence, r.nonce, r.at>>
MCDigests ==
  {NoDigest} \cup ((0..MaxSequence) \X {c.nonce : c \in Challenges} \X Times)

\* A key that is valid throughout, one that expires, and one that is revoked.
MCRing ==
  {[id |-> "k", from |-> 0, until |-> 9999999, revoked |-> FALSE],
   [id |-> "old", from |-> 0, until |-> 1030, revoked |-> FALSE],
   [id |-> "gone", from |-> 0, until |-> 9999999, revoked |-> TRUE]}

MCTimes == {1000, 1029, 1030, 1120, 1150, 1330, 4000000}

Doc(kind, key, from, until) ==
  [kind |-> kind, formed |-> TRUE, sound |-> TRUE, key |-> key,
   from |-> from, until |-> until]

\* The latest beginning that is accepted at 1000, the one after it, and with
\* each the longest validity and one second more; and beginnings so early that
\* the validity is too long for 64 bits, or just is not.
MCDocuments ==
  {Doc(kind, key, from, from + length) :
     kind \in Kinds, key \in {"k", "old"}, from \in {900, 1000, 1030, 1031, 1300},
     length \in {0, 30, 120, 121, 300, 301, 2764800, 2764801}}
  \cup {Doc(kind, "k", from, 2000000) : kind \in Kinds, from \in {-Half, -Half + 2000000}}

Tenant(t) == [tenant |-> t, game |-> "game"]

Policy(id, scope, minimum, until) ==
  [kind |-> "policy", formed |-> TRUE, sound |-> TRUE, key |-> "k",
   from |-> 0, until |-> until, id |-> id, scope |-> scope, minimum |-> minimum,
   heartbeat |-> 15, report |-> 15, grace |-> 0]
Grant(scope, agentKey, build, policy, from) ==
  [kind |-> "grant", formed |-> TRUE, sound |-> TRUE, key |-> "k",
   from |-> from, until |-> from + 120, scope |-> scope, agentKey |-> agentKey,
   build |-> build, policy |-> policy, manifest |-> "m"]
Manifest(scope, build) ==
  [kind |-> "manifest", formed |-> TRUE, sound |-> TRUE, key |-> "k",
   from |-> 1000, until |-> 2000, id |-> "m", scope |-> scope, build |-> build]

Bundle(p, g, m) == [formed |-> TRUE, policy |-> p, grant |-> g, manifest |-> m]

\* A bundle for each minimum version, and bundles that differ from one of them
\* in one binding or one time.
MCBundles ==
  LET p(min) == Policy("p", Tenant("t"), min, 5000)
      g == Grant(Tenant("t"), "key", "build", "p", 1000)
      m == Manifest(Tenant("t"), "build")
  IN {Bundle(p(min), g, m) : min \in {Unparsable, 1, 2}}
     \cup {Bundle(p(2), Grant(Tenant("t"), "other key", "build", "p", 1000), m),
           Bundle(p(2), Grant(Tenant("t"), "key", "other build", "p", 1000), m),
           Bundle(p(2), Grant(Tenant("t"), "key", "build", "other p", 1000), m),
           Bundle(p(2), Grant(Tenant("other"), "key", "build", "p", 1000), m),
           Bundle(p(2), g, Manifest(Tenant("t"), "other build")),
           Bundle(p(2), Grant(Tenant("t"), "key", "build", "p", 1030), m),
           Bundle(Policy("p", Tenant("t"), 2, 1029), g, m)}

Compatibility(from, until, revocations, rules) ==
  [kind |-> "compatibility", formed |-> TRUE, sound |-> TRUE, key |-> "k",
   from |-> from, until |-> until, revocations |-> revocations, rules |-> rules]

ARule(min, rec) == [minimum |-> min, recommended |-> rec,
                    minProtocol |-> 1, maxProtocol |-> 2]
Revocation(product, version, at) ==
  [product |-> product, version |-> version, at |-> at]

MCManifests ==
  {Compatibility(from, until, revocations, rules) :
     from \in {900, 1029}, until \in {1120, 2000000},
     revocations \in SUBSET {Revocation("agent", 1, 1030), Revocation("agent", 2, 950)},
     rules \in {[p \in {"agent"} |-> ARule(1, 2)], [p \in {"other"} |-> ARule(2, 2)]}}

C(owner, nonce, until) ==
  [session |-> owner, nonce |-> nonce, formed |-> TRUE, until |-> until]

\* Two challenges with one nonce, one with another, and one of another session.
MCChallenges == {C("s", "n1", 1030), C("s", "n1", 1121), C("s", "n2", 1150),
                 C("other", "n2", 1150)}
=============================================================================
