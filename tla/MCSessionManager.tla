-------------------------- MODULE MCSessionManager --------------------------
(* Model values and symmetry for checking SessionManager with TLC. *)
EXTENDS SessionManager, TLC

CONSTANTS s1, s2, s3, c1, c2, c3

TwoSessions == {s1, s2}
ThreeSessions == {s1, s2, s3}
OneClient == {c1}
TwoClients == {c1, c2}
ThreeClients == {c1, c2, c3}

\* Sessions and clients are compared only for equality, so permuting either
\* is sound for the safety runs.
Symmetry == Permutations(Session) \cup Permutations(Client)
=============================================================================
