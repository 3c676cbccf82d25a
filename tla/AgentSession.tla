---------------------------- MODULE AgentSession ----------------------------
(***************************************************************************)
(* The session library, crates/certael-agent-session, in a program that    *)
(* verifies documents with the functions of Protocol as time goes by: it   *)
(* activates one session and has it answer challenges, in any order and    *)
(* as often as it likes.                                                   *)
(*                                                                         *)
(* The documents at hand are constants: the program may be given any of    *)
(* them at any time.                                                       *)
(***************************************************************************)
EXTENDS Protocol, Sequences

CONSTANTS
  Times,         \* bound: the moments at which something happens
  Versions,      \* versions of the Agent
  Documents,     \* signed documents of every kind
  Bundles,       \* launch bundles
  Manifests,     \* compatibility manifests
  Products, Protocols,   \* installed products and their protocol versions
  Challenges,    \* challenges, each [session, nonce, formed, until]
  SessionId,     \* agent_session_id
  AgentKey,      \* public key of the session
  Build,         \* build ID of the game's executable
  MaxSequence,   \* largest sequence number (u64::MAX)
  Digests,       \* 32-byte digests
  Digest(_), NoDigest,   \* SHA-256 of a signed report; the zeros before the first
  None           \* no session, no challenge

\* A signed report: "at" is observed_at_unix.
Report == [sequence : 0..MaxSequence, nonce : {c.nonce : c \in Challenges},
           at : Times, previous : Digests]

ASSUME LibraryAssumption ==
  /\ ValidRing(Ring)
  /\ Half \in Nat
  /\ Times \subseteq 0..(Half - 301) /\ Times # {}
  /\ Versions \subseteq Nat
  /\ MaxSequence \in Nat
  /\ \A d \in Documents : d \in Document
  /\ \A b \in Bundles :
       /\ b.policy.minimum \in Versions \cup {Unparsable}
       /\ b.policy.until \in I64 /\ b.grant.until \in I64
  /\ \A m \in Manifests :
       /\ m.from \in I64 /\ m.until \in I64
       /\ \A r \in m.revocations : r.at \in I64
       /\ \A p \in DOMAIN m.rules :
            /\ m.rules[p].minimum \in Nat /\ m.rules[p].recommended \in Nat
            /\ m.rules[p].minProtocol \in Nat /\ m.rules[p].maxProtocol \in Nat
  /\ Protocols \subseteq Nat
  /\ \A c \in Challenges : c.until \in I64
  /\ NoDigest \in Digests
  /\ \A r \in Report : Digest(r) \in Digests

VARIABLES
  now,         \* the wall clock, which is not set back
  bundle,      \* the bundle of the activated session, or None
  sequence,    \* AgentSession.sequence
  previous,    \* previous_digest
  last,        \* last_challenge_digest
  reports,     \* history: the signed reports, oldest first
  answered     \* history: the challenge of each report

session == <<bundle, sequence, previous, last>>
vars == <<now, session, reports, answered>>

-----------------------------------------------------------------------------
(* Operations. *)

Tick ==
  /\ now' \in {t \in Times : t > now}
  /\ UNCHANGED <<session, reports, answered>>

\* activate, on a policy and a grant that were verified: it compares them with
\* each other and with its key, and looks at neither time nor version.
activate ==
  /\ bundle = None
  /\ \E b \in Bundles :
       /\ Verified(b.policy, now) /\ Timed(b.policy) /\ Verified(b.grant, now)
       /\ b.grant.agentKey = AgentKey
       /\ b.grant.scope.game = b.policy.scope.game
       /\ b.grant.policy = b.policy.id
       /\ bundle' = b
  /\ sequence' = 0 /\ previous' = NoDigest /\ last' = None
  /\ UNCHANGED <<now, reports, answered>>

Signed(n, c) == [sequence |-> n, nonce |-> c.nonce, at |-> now, previous |-> previous]

\* Mutant of create_report: the sequence is added to without a check.
CreateReportUnchecked(c) ==
  /\ bundle # None
  /\ c.session = SessionId /\ Live(c, now) /\ last # c
  /\ LET r == Signed(sequence + 1, c) IN
       /\ sequence' = r.sequence /\ previous' = Digest(r) /\ last' = c
       /\ reports' = Append(reports, r)
  /\ answered' = Append(answered, c)
  /\ UNCHANGED <<now, bundle>>

\* Mutant of create_report: the session moves on before the report is signed,
\* and signing fails.
CreateReportUnsigned(c) ==
  /\ bundle # None
  /\ c.session = SessionId /\ Live(c, now) /\ last # c
  /\ sequence < MaxSequence
  /\ LET r == Signed(sequence + 1, c) IN
       /\ sequence' = r.sequence /\ previous' = Digest(r) /\ last' = c
       /\ \/ reports' = Append(reports, r) /\ answered' = Append(answered, c)
          \/ UNCHANGED <<reports, answered>>
  /\ UNCHANGED <<now, bundle>>

\* create_report.  A challenge that is refused, a sequence that is exhausted and
\* observations that cannot be signed change nothing.
create_report(c) ==
  /\ bundle # None
  /\ c.session = SessionId /\ Live(c, now) /\ last # c
  /\ sequence < MaxSequence
  /\ LET r == Signed(sequence + 1, c) IN
       /\ sequence' = r.sequence /\ previous' = Digest(r) /\ last' = c
       /\ reports' = Append(reports, r)
  /\ answered' = Append(answered, c)
  /\ UNCHANGED <<now, bundle>>

-----------------------------------------------------------------------------
(* The specification. *)

Init ==
  /\ now \in Times
  /\ bundle = None
  /\ sequence = 0 /\ previous = NoDigest /\ last = None
  /\ reports = <<>> /\ answered = <<>>

Next == Tick \/ activate \/ \E c \in Challenges : create_report(c)

Spec == Init /\ [][Next]_vars

-----------------------------------------------------------------------------
(* Properties. *)

TypeOK ==
  /\ now \in Times
  /\ bundle \in Bundles \cup {None}
  /\ sequence \in 0..MaxSequence
  /\ previous \in Digests
  /\ last \in Challenges \cup {None}
  /\ reports \in Seq(Report)
  /\ answered \in Seq(Challenges)
  /\ bundle = None => reports = <<>>

\* A grant, a revocation or a compatibility manifest that verifies now no
\* longer does once the longest validity of its kind and the tolerated skew
\* have passed, whatever times its issuer wrote into it, if it claims to have
\* been issued in the Unix era.  The longest validity is not enforced on one
\* that claims to be so much older that the subtraction wraps around.
ShortLived ==
  \A d \in Documents :
    d.kind \in DOMAIN Span /\ d.from >= 0 /\ Verified(d, now) =>
      \A t \in Times : t >= now + Skew(d.kind) + Span[d.kind] => ~Verified(d, t)

Outcome(b, version) == verify_launch_bundle(b, now, AgentKey, Build, version)

\* serve() starts the updater when, and only when, a bundle is refused that a
\* newer Agent would accept as it is: an update is never started for a bundle
\* that no version accepts.
UpdateHelps ==
  \A b \in Bundles, v \in Versions :
    Outcome(b, v) = "agent_update_required" <=>
      Outcome(b, v) # "ok" /\ \E w \in Versions : w > v /\ Outcome(b, w) = "ok"

Decision(m, product, version, protocol) ==
  evaluate_compatibility(m, product, version, protocol, now)

\* Updating never costs a component its protected sessions: a version is
\* allowed when an older one is, unless it is itself revoked.
NewerIsNoWorse ==
  \A m \in Manifests, product \in Products, protocol \in Protocols, v, w \in Versions :
    (VerifiedManifest(m, now) /\ v < w /\ ~Revoked(m, product, w, now)
      /\ Decision(m, product, v, protocol) \in {"supported", "deprecated"})
    => /\ allows_new_protected_session(Decision(m, product, w, protocol))
       /\ Decision(m, product, v, protocol) = "supported" =>
            Decision(m, product, w, protocol) = "supported"

\* From the moment a version's revocation takes effect, no later moment allows
\* it a protected session, whatever rule there is for its product.
RevokedStaysRevoked ==
  [][\A m \in Manifests, product \in Products, protocol \in Protocols, v \in Versions :
       Revoked(m, product, v, now) =>
         ~allows_new_protected_session(Decision(m, product, v, protocol)')]_now

\* The library remembers only the challenge it answered last, so one can be
\* answered again; but never twice in a row, and only within the two minutes
\* that a challenge may live: an old challenge is never answered again.
RepeatIsBrief ==
  \A i, j \in 1..Len(answered) :
    i < j /\ answered[i] = answered[j] =>
      j > i + 1 /\ reports[j].at < reports[i].at + 120

Chain == INSTANCE IntegrityChain WITH issued <- reports

\* PROTOCOL.md: the server accepts an exact next sequence and the digest of the
\* previous report: what the library signs is such a chain, without a gap even
\* after a call that failed.
ReportsFormChain == Chain!Spec
=============================================================================
