----------------------------- MODULE MCScanHost -----------------------------
(* ScanHost with eight plugins.                                            *)
EXTENDS ScanHost

CONSTANTS s1, s2, g, a, b, m, d, e

MCPlugins == {s1, s2, g, a, b, m, d, e}

\* Two port scanners, one of which needs a plugin of a later category; two
\* attacks on one port; one attack that needs another, one that
\* is to run alone; the wrap-up.
MCCategory ==
    [p \in MCPlugins |->
        CASE p \in {s1, s2} -> ACT_SCANNER
          [] p = g -> ACT_GATHER_INFO
          [] p \in {a, b} -> ACT_ATTACK
          [] p = m -> ACT_MIXED_ATTACK
          [] p = d -> ACT_DENIAL
          [] p = e -> ACT_END]

MCDeps == [p \in MCPlugins |-> IF p = s1 THEN {g} ELSE IF p = m THEN {a} ELSE {}]

MCExclusive == {{a, b}}

=============================================================================
