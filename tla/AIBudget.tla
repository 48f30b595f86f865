------------------------------- MODULE AIBudget -------------------------------
(***************************************************************************)
(* The ledger that bounds what one document set may spend on a language     *)
(* model (backend/internal/aibudget/budget.go) and the callers that reserve *)
(* before a call and settle after it: requirement extraction, testcase      *)
(* generation, automation and its repair.  One reservation covers all the   *)
(* requests of a call: a model that fails for the moment is followed by the *)
(* next one, and each may be asked again without its schema (llm/gemini.go). *)
(*                                                                         *)
(* Reserve is the one transaction that is taken apart: it locks the row of  *)
(* document_sets, reads the sums of the ledger and inserts a row, while the *)
(* single statements that settle reservations take no lock on the set.      *)
(***************************************************************************)
EXTENDS Integers, FiniteSets, FiniteSetsExt

CONSTANTS
    Calls,       \* calls of the provider, each with a reservation of its own
    Estimates,   \* what a request may reserve: [Kind -> Nat]
    Bills,       \* what the provider may charge for a request it got
    MaxRequests, \* requests of one call: two for each model that is configured
    Default,     \* the budget of a new set
    Limits,      \* the budgets an operator may ask for; 0 keeps the one in force
    NoCall

Kind == {"tokens", "cost"}
Nothing == [d \in Kind |-> 0]

ASSUME AmountsAssumption ==
    /\ IsFiniteSet(Calls)
    /\ Estimates \subseteq [Kind -> Nat] /\ Bills \subseteq [Kind -> Nat]
    /\ Default \in [Kind -> Nat \ {0}] /\ Limits \subseteq [Kind -> Nat]
    /\ \A e \in Estimates : e["tokens"] > 0     \* reserved_tokens > 0
    /\ NoCall \notin Calls
    /\ MaxRequests \in Nat

VARIABLES
    setStatus, limit, \* document_sets: status and the two budgets
    locker,           \* the Reserve that holds the set's row lock
    state,            \* reservation status; "NONE": no row
    reserved, used,   \* amounts of the reservation
    expired,          \* expires_at <= NOW()
    pc,               \* where the caller is
    sum,              \* used and held amounts as Reserve read them
    asked,            \* how many requests the call has sent
    billed,           \* what the provider charges for them, whatever the caller hears
    usage             \* the charge of the last one; once answered, the usage reported

set == <<setStatus, limit>>
ledger == <<state, reserved, used, expired>>
sent == <<asked, billed, usage>>
budgetVars == <<set, locker, ledger, pc, sum, sent>>

Amount == [Kind -> Nat]

\* The ledger and the callers keep to their types; only a Reserve that is under
\* way holds the row lock.
BudgetTypeOK ==
    /\ setStatus \in {"ACTIVE", "ARCHIVED"} /\ limit \in [Kind -> Nat \ {0}]
    /\ locker \in Calls \cup {NoCall}
    /\ state \in [Calls -> {"NONE", "RESERVED", "COMPLETED", "RELEASED"}]
    /\ reserved \in [Calls -> Amount] /\ used \in [Calls -> Amount]
    /\ expired \in [Calls -> BOOLEAN]
    /\ pc \in [Calls -> {"new", "locked", "checked", "reserved", "sent",
                         "answered", "failed", "over"}]
    /\ sum \in [Calls -> Amount]
    /\ asked \in [Calls -> Nat] /\ billed \in [Calls -> Amount] /\ usage \in [Calls -> Amount]
    /\ \A c \in Calls : pc[c] \in {"locked", "checked"} => locker = c

BudgetInit ==
    /\ setStatus = "ACTIVE" /\ limit = Default
    /\ locker = NoCall
    /\ state = [c \in Calls |-> "NONE"]
    /\ reserved = [c \in Calls |-> Nothing]
    /\ used = [c \in Calls |-> Nothing]
    /\ expired = [c \in Calls |-> FALSE]
    /\ pc = [c \in Calls |-> "new"]
    /\ sum = [c \in Calls |-> Nothing]
    /\ asked = [c \in Calls |-> 0]
    /\ billed = [c \in Calls |-> Nothing] /\ usage = [c \in Calls |-> Nothing]

-----------------------------------------------------------------------------
(* Reserve.                                                                *)

Goto(c, l) == pc' = [pc EXCEPT ![c] = l]

\* What a row counts in the sums of Reserve: expiry does not free a hold.
Counted_Unexpired(c) == CASE state[c] = "RESERVED" /\ ~expired[c] -> reserved[c]
                          [] state[c] = "COMPLETED" -> used[c]
                          [] OTHER -> Nothing
Counted(c) == CASE state[c] = "RESERVED" -> reserved[c]
                [] state[c] = "COMPLETED" -> used[c]
                [] OTHER -> Nothing

\* A cost budget of zero would be none; CreateSet and UpdateLifecycle, which keeps
\* the old amount when asked for zero, never set one.
Fits(amount) ==
    /\ amount["tokens"] <= limit["tokens"]
    /\ limit["cost"] > 0 => amount["cost"] <= limit["cost"]

\* SELECT ... FOR UPDATE of the set; a set that is not active refuses.
Lockable_Always == TRUE
Lockable == locker = NoCall
LockSet(c) ==
    /\ pc[c] = "new"
    /\ Lockable
    /\ IF setStatus = "ACTIVE"
       THEN locker' = c /\ Goto(c, "locked")
       ELSE UNCHANGED locker /\ Goto(c, "over")
    /\ UNCHANGED <<set, ledger, sum, sent>>

\* The amounts of all calls together.
Total(amount) == [d \in Kind |-> MapThenSumSet(LAMBDA r : amount[r][d], Calls)]

\* One statement reads all four sums.
ReadSums(c) ==
    /\ pc[c] = "locked"
    /\ sum' = [sum EXCEPT ![c] = Total([r \in Calls |-> Counted(r)])]
    /\ Goto(c, "checked")
    /\ UNCHANGED <<set, locker, ledger, sent>>

Unlock(c) == locker' = IF locker = c THEN NoCall ELSE locker

\* The request fits, and the row is inserted and committed.
Insert(c, e) ==
    /\ pc[c] = "checked"
    /\ Fits([d \in Kind |-> sum[c][d] + e[d]])
    /\ state' = [state EXCEPT ![c] = "RESERVED"]
    /\ reserved' = [reserved EXCEPT ![c] = e]
    /\ Unlock(c)
    /\ Goto(c, "reserved")
    /\ UNCHANGED <<set, used, expired, sum, sent>>

\* ErrExceeded, a database error or a crash: the transaction is rolled back.
Refuse(c) ==
    /\ pc[c] \in {"locked", "checked"}
    /\ Unlock(c)
    /\ Goto(c, "over")
    /\ UNCHANGED <<set, ledger, sum, sent>>

-----------------------------------------------------------------------------
(* The call and its settlement.                                            *)

\* ErrDisabled: the request never leaves, and Release frees the hold.
ReleaseLocal(c) ==
    /\ pc[c] = "reserved"
    /\ state' = [state EXCEPT ![c] = IF @ = "RESERVED" THEN "RELEASED" ELSE @]
    /\ Goto(c, "over")
    /\ UNCHANGED <<set, locker, reserved, used, expired, sum, sent>>

\* Generate sends a request, which is charged or lost on the way; a next one if
\* the last was refused for its schema or failed in a way that may pass.
Dispatch(c, b) ==
    /\ pc[c] \in {"reserved", "sent"}
    /\ asked[c] < MaxRequests
    /\ asked' = [asked EXCEPT ![c] = @ + 1]
    /\ billed' = [billed EXCEPT ![c] = [d \in Kind |-> @[d] + b[d]]]
    /\ usage' = [usage EXCEPT ![c] = b]
    /\ Goto(c, "sent")
    /\ UNCHANGED <<set, locker, ledger, sum>>

\* A response whose usage is of its own request, or missing; or, without a next
\* request, a timeout, an HTTP error, a broken answer.
Answer(c) ==
    /\ pc[c] = "sent"
    /\ \/ Goto(c, "answered") /\ \E u \in {usage[c], Nothing} : usage' = [usage EXCEPT ![c] = u]
       \/ Goto(c, "failed") /\ UNCHANGED usage
    /\ UNCHANGED <<set, locker, ledger, sum, asked, billed>>

\* The row takes the usage of the response, not that of requests before it.
Finalize(c) ==
    /\ pc[c] = "answered"
    /\ state[c] = "RESERVED"
    /\ state' = [state EXCEPT ![c] = "COMPLETED"]
    /\ used' = [used EXCEPT ![c] = usage[c]]
    /\ Goto(c, "over")
    /\ UNCHANGED <<set, locker, reserved, expired, sum, sent>>

\* ResolveProviderError keeps the hold of every error but ErrDisabled.
Kept_NotBilled(c) == "RELEASED"
Kept(c) == state[c]
Uncertain(c) ==
    /\ pc[c] = "failed"
    /\ state' = [state EXCEPT ![c] = Kept(c)]
    /\ expired' = [expired EXCEPT ![c] = TRUE]
    /\ Goto(c, "over")
    /\ UNCHANGED <<set, locker, reserved, used, sum, sent>>

\* The caller is killed, or the statement that settles fails.
Dies(c) ==
    /\ pc[c] \in {"reserved", "sent", "answered", "failed"}
    /\ Goto(c, "over")
    /\ UNCHANGED <<set, locker, ledger, sum, sent>>

\* The TTL of two hours passes.
Expires(c) ==
    /\ state[c] = "RESERVED" /\ ~expired[c]
    /\ expired' = [expired EXCEPT ![c] = TRUE]
    /\ UNCHANGED <<set, locker, state, reserved, used, pc, sum, sent>>

\* UpdateLifecycle changes status and budgets under the row lock.
UpdateBudget(s, l) ==
    /\ locker = NoCall
    /\ setStatus' = s
    /\ limit' = [d \in Kind |-> IF l[d] = 0 THEN limit[d] ELSE l[d]]
    /\ UNCHANGED <<locker, ledger, pc, sum, sent>>

-----------------------------------------------------------------------------
Call(c) ==
    \/ LockSet(c) \/ ReadSums(c) \/ Refuse(c) \/ \E e \in Estimates : Insert(c, e)
    \/ ReleaseLocal(c) \/ \E b \in Bills : Dispatch(c, b)
    \/ Answer(c) \/ Finalize(c) \/ Uncertain(c) \/ Dies(c)

BudgetNext ==
    \/ \E c \in Calls : Call(c) \/ Expires(c)
    \/ \E s \in {"ACTIVE", "ARCHIVED"}, l \in Limits : UpdateBudget(s, l)

BudgetSpec == BudgetInit /\ [][BudgetNext]_budgetVars

-----------------------------------------------------------------------------
(* Properties.                                                             *)

\* What a row has certainly cost or may still cost within its reservation.
Exposure(c) ==
    CASE state[c] = "RESERVED" -> reserved[c]
      [] state[c] = "COMPLETED" -> [d \in Kind |-> Min({used[c][d], reserved[c][d]})]
      [] OTHER -> Nothing

\* Concurrent calls never reserve together more than the budget in force, even
\* when others are settled between the check and the insert: holds, also those
\* whose call is lost, and settled usage count until they are resolved.  (What
\* a provider charges beyond a reservation was not foreseeable.)
GrantsFitBudget ==
    [][\A c \in Calls : state[c] = "NONE" /\ state'[c] = "RESERVED" =>
          Fits(Total([r \in Calls |-> Exposure(r)]))']_budgetVars

\* No call that the provider charges gets its hold back before an answer: through
\* timeouts, further requests, crashes and expiry the hold stands until the usage
\* of a response is settled, which is never more than was charged.  The charge of
\* a call of one request, if its response tells it, is settled in full; that of
\* requests before the one that was answered is not (Finalize, Uncertain).
ChargesAreHeld ==
    \A c \in Calls : billed[c] # Nothing =>
        \/ state[c] = "RESERVED"
        \/ /\ state[c] = "COMPLETED"
           /\ \A d \in Kind : used[c][d] <= billed[c][d]
           /\ asked[c] = 1 => used[c] \in {billed[c], Nothing}
=============================================================================
