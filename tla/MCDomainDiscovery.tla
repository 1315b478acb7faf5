------------------------- MODULE MCDomainDiscovery -------------------------
(***************************************************************************)
(* Model values for checking DomainDiscovery: the own domain and another.  *)
(***************************************************************************)
EXTENDS DomainDiscovery

CONSTANTS own, other

MCDomains == {own, other}
MCValid == {other}

\* The loop over expectedMsgTimeMap, and the commands carried out one by one.
TimeoutLoop(expected, domains) ==
    LET rest(d) == IF expected[d] <= 0 THEN 0 ELSE expected[d]
        shorter(t, d) == IF t = 0 \/ rest(d) < t THEN rest(d) ELSE t
    IN  FoldLeft(shorter, 0, SetToSeq(domains))

CarriedOut(commands, domains) ==
    FoldLeft(LAMBDA s, c : IF c.kind = "Remove" THEN s \ {c.domain}
                           ELSE s \cup {c.domain}, domains, commands)

\* What the definitions without a loop say is what the loops compute.
ASSUME TimeoutIsLoop ==
    \A n \in 0..4 : \A expected \in [1..n -> -1..3] :
        Timeout(expected, 1..n) = TimeoutLoop(expected, 1..n)

ASSUME AppliedIsCarriedOut ==
    \A n \in 0..4 : \A domains \in SUBSET Domains :
        \A commands \in [1..n -> {Command(kind, d) :
                                   kind \in {"Add", "Remove"}, d \in Domains}] :
            Applied(commands, domains) = CarriedOut(commands, domains)
=============================================================================
