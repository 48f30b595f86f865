------------------------- MODULE MCAnalysisPipeline -------------------------
(* Instances of AnalysisPipeline for TLC: which worker serves which queue. *)
EXTENDS AnalysisPipeline

CONSTANTS s1, s2, c1, c2, n1, g1, v1, v2, p1, p2, r1, r2

\* One worker process: every queue has one goroutine.
OneProcess ==
  [w \in {s1, c1, n1, g1, v1, p1} |->
     CASE w = s1 -> "source" [] w = c1 -> "change" [] w = n1 -> "recommendation"
       [] w = g1 -> "generation" [] w = v1 -> "validation" [] w = p1 -> "repair"]

\* Two processes: what the second one's idle goroutines would do, the first one's
\* do as well, so each instance doubles the queues its question is about.
TwoValidators ==
  [w \in {s1, c1, n1, g1, v1, v2, p1, p2} |->
     IF w = v2 THEN "validation" ELSE IF w = p2 THEN "repair" ELSE OneProcess[w]]

TwoFetchers ==
  [w \in {s1, s2, c1, c2, n1, g1, v1, p1} |->
     IF w = s2 THEN "source" ELSE IF w = c2 THEN "change" ELSE OneProcess[w]]
=============================================================================
