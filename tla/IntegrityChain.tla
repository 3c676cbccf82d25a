--------------------------- MODULE IntegrityChain ---------------------------
(***************************************************************************)
(* The sequence of integrity reports of one session, as the server that    *)
(* verifies it sees it: reports are only added, numbered from 1, and each  *)
(* one names the digest of the one before it.                              *)
(***************************************************************************)
EXTENDS Integers, Sequences

CONSTANTS NoDigest,    \* the all-zero digest that the first report names
          Digest(_)    \* SHA-256 of an encoded signed report

VARIABLE issued        \* the reports, oldest first

Init == issued = <<>>

\* r continues the chain s.
Continues(s, r) ==
  /\ r.sequence = Len(s) + 1
  /\ r.previous = IF s = <<>> THEN NoDigest ELSE Digest(s[Len(s)])

Issue ==
  /\ Len(issued') = Len(issued) + 1
  /\ SubSeq(issued', 1, Len(issued)) = issued
  /\ Continues(issued, issued'[Len(issued) + 1])

Spec == Init /\ [][Issue]_issued
=============================================================================
