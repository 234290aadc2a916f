----------------------------- MODULE CliExecutor -----------------------------
(***************************************************************************)
(* One call of execute_with_decision_engine (cli_executor.py): obtain an   *)
(* envelope, from the in-process order builders or from a run of the CLI   *)
(* as a subprocess, interpret it, and return, retry, escalate or halt.     *)
(***************************************************************************)
EXTENDS DecisionEngine

CONSTANTS
  Modes,          \* ways to obtain the envelope: "inprocess", "subprocess"
  Operations,     \* what is executed: "order", "query"
  MaxAttempts     \* RetryPolicy.max_attempts

ASSUME PolicyAssumption == MaxAttempts \in Nat

VARIABLES
  mode, operation,
  state,          \* "call", "interpret" or "returned"
  envelope,       \* the last envelope obtained
  attempt,
  action,         \* the outcome returned to the caller
  escalations,    \* log_escalation calls of this invocation
  stopFile,       \* "absent", "written" or "failed"
  submitted       \* auxiliary: orders that reached the exchange

vars == <<mode, operation, state, envelope, attempt, action, escalations,
          stopFile, submitted>>

\* What may come back, with the number of orders the exchange executed.
Result(e, n) == [envelope |-> e, submitted |-> n]

Malformed == [wellFormed |-> FALSE, ok |-> FALSE, flags |-> decision_flags("")]

\* _synthetic_failure
SyntheticFailure(retryable) ==
  [wellFormed |-> TRUE, ok |-> FALSE,
   flags |-> [retryable |-> retryable, halt |-> ~ retryable, review |-> ~ retryable]]

RejectedCodes == {"STOP_TRADING", "LIVE_TRADING_BLOCKED", "INVALID_SIDE",
                  "INVALID_COUNT", "INVALID_PRICE_RANGE",
                  "PRICE_OUTSIDE_CONFIG_RANGE", "EXCEEDS_MAX_TRADE_DOLLARS",
                  "NO_POSITION", "BUY_DRY_RUN", "SELL_DRY_RUN"}
PlacedCodes == {"BUY_PLACED", "SELL_PLACED", "SELL_CLAMPED"}

\* The envelopes of buy_envelope and sell_envelope.  A failed command may have
\* failed before or after the exchange executed the order.
OrderResults ==
  {Result(Envelope(c), 0) : c \in RejectedCodes \cup {"COMMAND_FAILED"}}
    \cup {Result(Envelope(c), 1) : c \in PlacedCodes \cup {"COMMAND_FAILED"}}

\* The CLI's answers to status, markets and orderbook.
QueryResults ==
  {Result(Envelope(c), 0) :
     c \in TransientCodes \cup {"STATUS_OK", "MARKETS_OK", "ORDERBOOK_OK",
             "SERIES_RESOLUTION_FAILED", "CONFIG_ERROR", "COMMAND_FAILED"}}

\* execute_cli: the child's own answer, or what goes wrong around it.  A child
\* that is killed at the timeout, or dies mute, may have placed its order.
CliResults ==
  LET reached == IF operation = "order" THEN {0, 1} ELSE {0}
      answers == IF operation = "order"
                 THEN OrderResults \cup
                      {Result(Envelope(c), 0) :
                         c \in {"INVALID_TICKER", "SERIES_RESOLUTION_FAILED",
                                "SERIES_RESOLUTION_NETWORK_ERROR", "CONFIG_ERROR"}}
                 ELSE QueryResults
      timeoutOrMute == {Result(SyntheticFailure(TRUE), n) : n \in reached}
      garbled == {Result(SyntheticFailure(FALSE), n) : n \in reached}
      notAnEnvelope == {Result(Malformed, n) : n \in reached}
  IN  answers \cup timeoutOrMute \cup garbled \cup notAnEnvelope

\* envelope_fn(): an exception that escapes it becomes an envelope of its own.
FnResults == OrderResults \cup {Result(Envelope("ENVELOPE_FN_EXCEPTION"), 0)}

-----------------------------------------------------------------------------
Init ==
  /\ mode \in Modes
  /\ operation \in Operations
  /\ mode = "inprocess" => operation = "order"
  /\ state = "call"
  /\ envelope = Malformed
  /\ attempt = 0
  /\ action = "none"
  /\ escalations = 0
  /\ stopFile = "absent"
  /\ submitted = 0

Call ==
  /\ state = "call"
  /\ \E r \in (IF mode = "inprocess" THEN FnResults ELSE CliResults) :
       /\ envelope' = r.envelope
       /\ submitted' = submitted + r.submitted
  /\ state' = "interpret"
  /\ UNCHANGED <<mode, operation, attempt, action, escalations, stopFile>>

Chosen == interpret_cli_response(envelope, attempt, MaxAttempts)

\* Mutant: a query's failed attempts are not counted.
RetryUncounted ==
  /\ state = "interpret"
  /\ Chosen \in {"RETRY", "RETRY_AND_ESCALATE"}
  /\ escalations' = escalations + (IF Chosen = "RETRY" THEN 0 ELSE 1)
  /\ attempt' = attempt + (IF operation = "query" THEN 0 ELSE 1)
  /\ state' = "call"
  /\ UNCHANGED <<mode, operation, envelope, action, stopFile, submitted>>

\* RETRY and RETRY_AND_ESCALATE: sleep, then call again.
Retry ==
  /\ state = "interpret"
  /\ Chosen \in {"RETRY", "RETRY_AND_ESCALATE"}
  /\ escalations' = escalations + (IF Chosen = "RETRY" THEN 0 ELSE 1)
  /\ attempt' = attempt + 1
  /\ state' = "call"
  /\ UNCHANGED <<mode, operation, envelope, action, stopFile, submitted>>

\* CONTINUE and ESCALATE_TO_HUMAN return to the caller.
Return ==
  /\ state = "interpret"
  /\ Chosen \in {"CONTINUE", "ESCALATE_TO_HUMAN"}
  /\ action' = Chosen
  /\ escalations' = escalations + (IF Chosen = "CONTINUE" THEN 0 ELSE 1)
  /\ state' = "returned"
  /\ UNCHANGED <<mode, operation, envelope, attempt, stopFile, submitted>>

\* HALT_TRADING writes the STOP_TRADING file; an exception there is only logged.
Halt ==
  /\ state = "interpret"
  /\ Chosen = "HALT_TRADING"
  /\ action' = Chosen
  /\ escalations' = escalations + 1
  /\ stopFile' \in {"written", "failed"}
  /\ state' = "returned"
  /\ UNCHANGED <<mode, operation, envelope, attempt, submitted>>

Next == Call \/ Retry \/ Return \/ Halt

Spec == Init /\ [][Next]_vars /\ WF_vars(Next)

-----------------------------------------------------------------------------
(* Properties *)

\* Every variable has its type; escalations and attempts stay within the budget.
TypeOK ==
  /\ mode \in Modes
  /\ operation \in Operations
  /\ state \in {"call", "interpret", "returned"}
  /\ envelope \in [wellFormed : BOOLEAN, ok : BOOLEAN,
                   flags : [retryable : BOOLEAN, halt : BOOLEAN, review : BOOLEAN]]
  /\ attempt \in 0 .. MaxAttempts
  /\ action \in Actions \cup {"none"}
  /\ escalations \in 0 .. MaxAttempts + 1
  /\ stopFile \in {"absent", "written", "failed"}
  /\ submitted \in 0 .. MaxAttempts + 1

\* An in-process order, the path the bot takes, is never submitted twice.
InProcessOrderSubmittedOnce == mode = "inprocess" => submitted <= 1

\* A call that reports CONTINUE holds a well-formed envelope that says ok and asks
\* for no review, and wrote no STOP file; a call that returns anything else has
\* escalated at least once.
NoSilentFailure ==
  state = "returned" =>
    /\ action = "CONTINUE" => /\ envelope.wellFormed /\ envelope.ok
                              /\ ~ envelope.flags.review
                              /\ stopFile = "absent"
    /\ action # "CONTINUE" => escalations > 0

\* An in-process order that the exchange executed without its fill being
\* reported in the envelope stops the bot.
UnreportedFillHalts ==
  state = "returned" /\ mode = "inprocess" /\ submitted > 0 /\ ~ envelope.ok
    => action = "HALT_TRADING" /\ stopFile # "absent"

\* The call returns: whatever keeps failing, the retry budget runs out.
Returns == <>(state = "returned")

=============================================================================
