----------------------------- MODULE MCReplMeta -----------------------------
(* ReplMeta on versions of four bits.                                      *)
EXTENDS ReplMeta

\* Versions about to pass half their range, and about to wrap around.
NearTheLimits == {Half - 2, ULONG_MAX - 1}

\* The value all servers start with, if any, is of server 1.  A behaviour that
\* starts so is kept as a whole.
FirstOfOne == \A m \in stamps : m.usnOriginating = 0 => m.uuidDsaOriginating = 1
=============================================================================
