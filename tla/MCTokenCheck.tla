----------------------------- MODULE MCTokenCheck -----------------------------
EXTENDS TokenCheck, TLC

CONSTANTS r1, r2, k1, u1, u2, junk

TwoRequests == {r1, r2}
RequestSymmetry == Permutations({r1, r2})
OneKey == {k1}
OneUri == {u1}
TwoUris == {u1, u2}

\* Bound of a run: after four ticks the keys are, and were, at u1 only.
OneUriLater == now > 4 => tenant.uri = u1 /\ keySet[u2] = NoKeySet /\ keyFetch[u2] = NoFetch

===============================================================================
