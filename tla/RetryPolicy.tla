----------------------------- MODULE RetryPolicy -----------------------------
(* retry_policy.py and scheduler.py: what to do about a classified failure,   *)
(* and which eligible challenge is tried next.  Both are pure functions; the  *)
(* controller supplies their arguments and applies their results.             *)
EXTENDS LexOrder

CONSTANTS
    MaxRetries,     \* RetryLimits.max_transient_retries
    MaxRepairs,     \* RetryLimits.max_repairs
    BaseDelay,      \* RetryLimits.base_delay_seconds
    MaxBackoff,     \* RetryLimits.max_backoff_seconds
    Policy,         \* SelectionPolicy: "coverage", "progress" or "benefit_cost"
    MaxBypasses     \* ControllerLimits.max_bypasses

ASSUME LimitsAssumption ==
    /\ MaxRetries \in Nat /\ MaxRepairs \in Nat
    /\ BaseDelay \in Nat \ {0} /\ MaxBackoff \in Nat /\ MaxBackoff >= BaseDelay
    /\ Policy \in {"coverage", "progress", "benefit_cost"}
    /\ MaxBypasses \in Nat \ {0}

-----------------------------------------------------------------------------
(* Failures. *)

Operation == {"read", "model", "tool", "instance_mutation", "submission"}

FailureKind ==
    {"authentication", "configuration", "transient", "rate_limit", "malformed_request",
     "tool_timeout", "tool_oom", "stale_instance", "wrong_candidate",
     "ambiguous_submission", "no_progress", "safety_refusal", "unknown"}

Subsystem == {"none", "model", "tools"}

Failure == [kind : FailureKind, operation : Operation, documented : BOOLEAN,
            adapterRetried : BOOLEAN, retryAfter : Nat, subsystem : Subsystem]

Classified(kind, operation) ==
    [kind |-> kind, operation |-> operation, documented |-> FALSE,
     adapterRetried |-> FALSE, retryAfter |-> 0,
     subsystem |-> IF kind \notin {"authentication", "configuration"} THEN "none"
                   ELSE IF operation = "model" THEN "model" ELSE "tools"]

RetryDelay(f, retries) ==
    AtLeast(AtMost(MaxBackoff, BaseDelay * 2^retries), f.retryAfter)

\* An effect that may have been applied goes to its owner before anything else
\* is considered; only a documented transient read or model call is retried.
OwnersDecision(f) ==
    IF f.kind = "safety_refusal" THEN "stop_operation"
    ELSE IF f.kind = "ambiguous_submission" THEN "reconcile"
    ELSE IF f.kind = "wrong_candidate" THEN "record_wrong"
    ELSE IF f.operation = "submission" THEN "reconcile"
    ELSE IF f.operation = "instance_mutation" THEN "requalify"
    ELSE IF f.kind \in {"authentication", "configuration"} THEN "block_subsystem"
    ELSE IF f.kind = "stale_instance" THEN "requalify"
    ELSE "none"

MayRetry(f, retries, remaining) ==
    /\ f.documented
    /\ f.operation \in {"read", "model"}
    /\ retries < MaxRetries
    /\ RetryDelay(f, retries) < remaining

LocalDecision(f, retries, repairs, remaining) ==
    IF remaining <= 0 \/ f.adapterRetried THEN "defer"
    ELSE CASE f.kind \in {"transient", "rate_limit"} ->
                  IF MayRetry(f, retries, remaining) THEN "retry" ELSE "defer"
           [] f.kind = "malformed_request" ->
                  IF repairs < MaxRepairs THEN "repair" ELSE "change_approach"
           [] f.kind \in {"tool_timeout", "tool_oom", "no_progress"} -> "change_approach"
           [] OTHER -> "defer"

RetryDecision(f, retries, repairs, remaining) ==
    IF OwnersDecision(f) # "none"
    THEN OwnersDecision(f)
    ELSE LocalDecision(f, retries, repairs, remaining)

-----------------------------------------------------------------------------
(* Ranking.  A record is [task, attempts, bypasses, progress]; a task carries *)
(* the position of its scope in the sort order, and its setup cost and ratio  *)
(* of points to cost, Unknown when the metadata does not tell.                *)

Unknown == -1

Task(Scope) == [scope : Scope, order : Nat, cost : Nat \cup {Unknown},
                benefit : Nat \cup {Unknown}, requires : SUBSET Subsystem]

KnownCost(task) == <<Flagged(task.cost = Unknown), AtLeast(task.cost, 0)>>

\* Variant: bypassed challenges do not age.
NeverAged(r) == FALSE

Aged(r) == r.bypasses >= MaxBypasses

KeyPrefix(r) ==
    <<Flagged(~Aged(r)), IF Aged(r) THEN -r.bypasses ELSE 0, Flagged(r.attempts # 0)>>

SelectionKey(r) ==
    KeyPrefix(r) \o
    (CASE Policy = "coverage" -> <<>>
       [] Policy = "progress" -> <<-r.progress>> \o KnownCost(r.task)
       [] Policy = "benefit_cost" ->
              <<Flagged(r.task.benefit = Unknown), -AtLeast(r.task.benefit, 0),
                -r.progress>> \o KnownCost(r.task))
    \o <<r.task.order>>

Foremost(records) ==
    {r \in records : \A q \in records \ {r} : Precedes(SelectionKey(r), SelectionKey(q))}

=============================================================================
