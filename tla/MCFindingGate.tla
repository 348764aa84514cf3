--------------------------- MODULE MCFindingGate ---------------------------
(* An instance of FindingGate for TLC. *)
EXTENDS FindingGate

CONSTANTS s1, s2, i1, i2, c1, c2, p1, p2

MCImageOf == [s \in Scans |-> IF s = s1 THEN i1 ELSE i2]

High == [cve |-> c1, pkg |-> p1, severity |-> "high"]
Low == [cve |-> c2, pkg |-> p1, severity |-> "low"]
Again == [cve |-> c1, pkg |-> p2, severity |-> "medium"]
MCVulns == {High, Low, Again}

Rule(cve, pkg, image) == [cve |-> cve, pkg |-> pkg, image |-> image]
OfCVE == Rule(c1, Any, Any)
OfPackage == Rule(Any, p1, i1)
MCExploited == {c1}
MCRules == {OfCVE, OfPackage}

Bounds(s, found, kevGate, rs, c, f) ==
    [scans |-> s, gate |-> s1, found |-> found, kev |-> kevGate, rules |-> rs,
     changes |-> c, faults |-> f]

MCScenes ==
    { Bounds({s1}, {High, Low}, TRUE, MCRules, 2, 0),       \* rules during the gate
      Bounds({s1}, {High, Low}, FALSE, {OfCVE}, 1, 1),
      Bounds({s1}, {High}, TRUE, {OfCVE}, 1, 1),
      Bounds({s1}, {Low, Again}, TRUE, {}, 0, 2),           \* failures
      Bounds({s1}, MCVulns, TRUE, {OfCVE}, 1, 0),           \* two pages
      Bounds({s1, s2}, {Again}, FALSE, {}, 3, 0),           \* the catalogue
      Bounds({s1, s2}, {Again}, FALSE, {}, 0, 1),
      Bounds({s1}, {Again}, TRUE, {}, 1, 1),                \* enriched twice
      Bounds({s1}, {}, TRUE, {}, 1, 1) }
=============================================================================
