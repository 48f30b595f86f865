----------------------------- MODULE ParseQueue -----------------------------
(***************************************************************************)
(* The parse queue of document versions (document.PostgresRepository,        *)
(* Worker, Processor) for one version: every statement names one version.    *)
(* A worker reads and parses the stored file between its claim and           *)
(* SaveParsed; a second goroutine renews the lease and cancels the work when *)
(* it cannot.  A claim has no upper bound of attempts, only a failure has.   *)
(***************************************************************************)
EXTENDS Integers

CONSTANTS
    Parser,            \* worker goroutines
    MaxParseAttempts,  \* MaxAttempts of the worker
    ClaimBound         \* bound: claims of a version

ASSUME ParseAttemptsAssumption == MaxParseAttempts \in Nat \ {0}
ASSUME ClaimBoundAssumption == ClaimBound \in Nat

VARIABLES
    parse,     \* parse_status, attempt_count, lease_expires_at, the claim that wrote the blocks
    parser     \* what each worker holds: the attempt it claimed, 0 when idle

parseVars == <<parse, parser>>

ParseInit ==
    /\ parse = [status |-> "UPLOADED", attempt |-> 0, lease |-> "none", blocks |-> 0]
    /\ parser = [p \in Parser |-> 0]

ParseClaimable ==
    \/ parse.status = "UPLOADED" /\ parse.lease = "none"
    \/ parse.status = "PARSING" /\ parse.lease = "expired"

ParseClaim(p) ==
    /\ parser[p] = 0
    /\ ParseClaimable
    /\ parse.attempt < ClaimBound
    /\ parse' = [parse EXCEPT !.status = "PARSING", !.attempt = @ + 1, !.lease = "live"]
    /\ parser' = [parser EXCEPT ![p] = parse.attempt + 1]

ParseHeld_StatusOnly(p) == parse.status = "PARSING"
ParseHeld(p) == parse.status = "PARSING" /\ parse.attempt = parser[p]

ParseRenew(p) ==
    /\ parser[p] # 0
    /\ ParseHeld(p)
    /\ parse' = [parse EXCEPT !.lease = "live"]
    /\ UNCHANGED parser

ParseLeaseExpires ==
    /\ parse.lease = "live"
    /\ parse' = [parse EXCEPT !.lease = "expired"]
    /\ UNCHANGED parser

\* Blocks and status are one transaction: all or nothing of it.
SaveParsed(p) ==
    /\ parser[p] # 0
    /\ ParseHeld(p)
    /\ parse' = [parse EXCEPT !.status = "PARSED", !.lease = "none", !.blocks = parser[p]]
    /\ parser' = [parser EXCEPT ![p] = 0]

\* The parse, the renewal or SaveParsed failed.
ParseGoesOn == parse.attempt < MaxParseAttempts
ParseRetryOrFail(p) ==
    /\ parser[p] # 0
    /\ parse' = IF ParseHeld(p)
                THEN [parse EXCEPT !.status = IF ParseGoesOn THEN "UPLOADED" ELSE "FAILED",
                                   !.lease = "none"]
                ELSE parse
    /\ parser' = [parser EXCEPT ![p] = 0]

\* The process ends, or RetryOrFail could not be stored.
ParserDies(p) ==
    /\ parser[p] # 0
    /\ parser' = [parser EXCEPT ![p] = 0]
    /\ UNCHANGED parse

ParseNext ==
    \/ ParseLeaseExpires
    \/ \E p \in Parser : \/ ParseClaim(p) \/ ParseRenew(p) \/ SaveParsed(p)
                         \/ ParseRetryOrFail(p) \/ ParserDies(p)

ParseSpec == ParseInit /\ [][ParseNext]_parseVars

-----------------------------------------------------------------------------
ParseState == [UPLOADED |-> "waiting", PARSING |-> "working", PARSED |-> "done", FAILED |-> "failed"]
ParseTask == INSTANCE TaskLifecycle WITH
    state <- ParseState[parse.status], turn <- parse.attempt, outcome <- parse.blocks
=============================================================================
