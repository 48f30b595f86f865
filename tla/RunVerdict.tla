----------------------------- MODULE RunVerdict -----------------------------
(***************************************************************************)
(* What one executed item of a test run is judged to be (execution.Processor *)
(* and Classify), and which answers of the model become an automation        *)
(* artifact or the repair of one (automation.Service, RepairProcessor).      *)
(* A behaviour judges one item, or repairs one artifact again and again; the  *)
(* data is abstracted to what decides the result.                            *)
(***************************************************************************)
EXTENDS Integers, FiniteSets

(* Executing one item: whether workspace and sandbox work, the baseline suite *)
(* and the generated test, each abstracted to the signals in its output: the  *)
(* phrases that Classify looks for.  "infra" is an environment that fails in  *)
(* phrases it knows; one that fails in others prints none of its own, and     *)
(* may well make a test print "assertion".                                   *)

Marker == {"infra", "build", "panic", "path", "assertion"}
Signals == [timedOut : BOOLEAN, zero : BOOLEAN, output : SUBSET Marker]

\* The first signal that matches decides.
Classify_AssertionFirst(s, approved, withPath) ==
    CASE s.timedOut -> "TIMED_OUT"
      [] ~s.timedOut /\ s.zero -> "PASSED"
      [] ~s.timedOut /\ ~s.zero /\ "assertion" \in s.output -> "PRODUCT_FAILED"
      [] OTHER -> "AUTOMATION_ERROR"
Classify(s, approved, withPath) ==
    IF s.timedOut THEN "TIMED_OUT"
    ELSE IF s.zero THEN "PASSED"
    ELSE IF "infra" \in s.output THEN "INFRA_ERROR"
    ELSE IF "build" \in s.output THEN "AUTOMATION_ERROR"
    ELSE IF {"panic", "path"} \subseteq s.output /\ withPath THEN "AUTOMATION_ERROR"
    ELSE IF approved /\ "assertion" \in s.output THEN "PRODUCT_FAILED"
    ELSE "AUTOMATION_ERROR"

\* How far an execution gets: no approved artifact, no workspace, no baseline
\* run, the artifact cannot be installed, its test cannot be run, or it ran.
Reach == {"no artifact", "no workspace", "no baseline", "not installed", "not run", "ran"}

BaselineVerdict(baseline) == Classify(baseline, TRUE, FALSE)
ExecuteOne_NoBaseline(reach, baseline, test) ==
    CASE reach = "no artifact" -> "BLOCKED"
      [] reach = "not installed" -> "AUTOMATION_ERROR"
      [] reach \in {"no workspace", "no baseline", "not run"} -> "INFRA_ERROR"
      [] OTHER -> Classify(test, TRUE, TRUE)
ExecuteOne(reach, baseline, test) ==
    IF reach = "no artifact" THEN "BLOCKED"
    ELSE IF reach \in {"no workspace", "no baseline"} THEN "INFRA_ERROR"
    ELSE IF BaselineVerdict(baseline) \in {"TIMED_OUT", "INFRA_ERROR"} THEN BaselineVerdict(baseline)
    ELSE IF BaselineVerdict(baseline) # "PASSED" THEN "BLOCKED"
    ELSE IF reach = "not installed" THEN "AUTOMATION_ERROR"
    ELSE IF reach = "not run" THEN "INFRA_ERROR"
    ELSE Classify(test, TRUE, TRUE)

-----------------------------------------------------------------------------
(* Answers.  File name and form are abstracted to their defects; assertions   *)
(* are the texts declared beside the code, and keep their words (a letter),    *)
(* their case and spacing; of the code only its hash is compared.             *)

Defect == {"json", "contract", "constraint", "place", "syntax", "package", "import", "no test"}
Text == [word : {"a", "b"}, upper : BOOLEAN]
Texts == [1..2 -> Text] \cup [1..1 -> Text]
Code == {"original", "mended", "checks nothing"}
Answer == [defects : {{}} \cup {{d} : d \in Defect}, assertions : Texts,
           file : {"same", "other"}, code : Code, cost : 0..1]

\* Case and spacing are normalised and the order is not looked at: a bag of words.
NormalizedAssertions(s) == [w \in {"a", "b"} |-> Cardinality({k \in DOMAIN s : s[k].word = w})]
SameSemanticAssertions_AsSets(s, t) == {s[k].word : k \in DOMAIN s} = {t[k].word : k \in DOMAIN t}
SameSemanticAssertions(s, t) == NormalizedAssertions(s) = NormalizedAssertions(t)

ParseAndValidate(answer) == answer.defects = {} /\ answer.assertions # << >>

\* Process of the repair worker for an artifact; a limit of 0 does not limit the
\* cost.
RepairOutcome(artifact, answer) ==
    IF \/ artifact.maxCost > 0 /\ answer.cost > artifact.maxCost
       \/ ~ParseAndValidate(answer)
       \/ answer.file # "same"
       \/ ~SameSemanticAssertions(artifact.assertions, answer.assertions)
       \/ answer.code = artifact.code
    THEN "UNREPAIRABLE"
    ELSE "WAITING_REVIEW"

-----------------------------------------------------------------------------
VARIABLE judged   \* what is executed or repaired, and its verdict

\* declared: the assertions the first artifact was approved with.
Executed == [reach : Reach, baseline : Signals, test : Signals, verdict : {"NOT_RUN"}]
Repaired == {[declared |-> a, assertions |-> a, code |-> "original", maxCost |-> c, verdict |-> "RUNNING"] :
               a \in [1..2 -> Text], c \in 0..1}
VerdictInit == judged \in Executed \cup Repaired

ProcessItem ==
    /\ judged.verdict = "NOT_RUN"
    /\ judged' = [judged EXCEPT !.verdict = ExecuteOne(judged.reach, judged.baseline, judged.test)]

\* An answer that passes becomes the artifact that a reviewer decides.
ProcessRepair ==
    /\ judged.verdict = "RUNNING"
    /\ \E answer \in Answer :
          judged' = IF RepairOutcome(judged, answer) = "WAITING_REVIEW"
                    THEN [judged EXCEPT !.verdict = "WAITING_REVIEW", !.assertions = answer.assertions,
                                        !.code = answer.code]
                    ELSE [judged EXCEPT !.verdict = "UNREPAIRABLE"]

\* Approved, the repaired artifact runs, and may fail to be repaired again.
RequestRepairAgain ==
    /\ judged.verdict = "WAITING_REVIEW"
    /\ judged' = [judged EXCEPT !.verdict = "RUNNING"]

VerdictNext == ProcessItem \/ ProcessRepair \/ RequestRepairAgain
VerdictSpec == VerdictInit /\ [][VerdictNext]_judged

-----------------------------------------------------------------------------
(* Properties. *)

\* A product failure is reported only for an approved artifact whose baseline
\* suite passed in a working sandbox, after a test that ran to its end, failed,
\* printed a phrase of a failed assertion, and none by which the environment or
\* the compiler is recognised.  That is what Classify can read: an environment
\* that fails in a phrase it does not know is reported as the product.
ProductFailureIsRead ==
    judged.verdict = "PRODUCT_FAILED" =>
        /\ judged.reach = "ran"
        /\ judged.baseline.zero /\ ~judged.baseline.timedOut
        /\ ~judged.test.timedOut /\ ~judged.test.zero
        /\ "assertion" \in judged.test.output /\ judged.test.output \cap {"infra", "build"} = {}

\* However often an artifact is repaired, it declares each assertion as often as
\* when it was first approved, however they are written or ordered.  Declared is
\* all they are: whether the repaired code still checks them is not looked at,
\* and a test that checks nothing reaches the reviewer as any other.
RepairsKeepDeclarations ==
    judged.verdict \in {"RUNNING", "WAITING_REVIEW", "UNREPAIRABLE"} =>
        LET before == judged.declared
            after == judged.assertions
        IN  /\ DOMAIN after = 1..2
            /\ \E p \in [1..2 -> 1..2] : p[1] # p[2] /\ \A k \in 1..2 : before[k].word = after[p[k]].word

\* What is printed and what is declared decide: no product failure is read from
\* other output, and no sequence of repairs changes what a test declares.
VerdictsFollowTexts == ProductFailureIsRead /\ RepairsKeepDeclarations
=============================================================================
