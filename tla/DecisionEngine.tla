---------------------------- MODULE DecisionEngine ----------------------------
(***************************************************************************)
(* The order path's control plane: DECISION_POLICY and the envelope        *)
(* builders (kalshi_agent_envelope.py), and the interpreter that turns an  *)
(* envelope into the one action to take (agent_decision_engine.py).        *)
(*                                                                         *)
(* An envelope is abstracted to what the interpreter looks at: whether its *)
(* shape and its three flags are as agreed, ok, and the flags.             *)
(***************************************************************************)
EXTENDS Naturals

\* Codes with no flag set.
CleanCodes == {"BUY_DRY_RUN", "BUY_PLACED", "SELL_DRY_RUN", "SELL_PLACED",
               "STATUS_OK", "MARKETS_OK", "ORDERBOOK_OK"}
\* Codes with retryable alone.
TransientCodes == {"ORDERBOOK_EMPTY", "ORDERBOOK_FETCH_ERROR",
                   "SERIES_RESOLUTION_NETWORK_ERROR"}
\* Codes with requires_human_review alone.
ReviewCodes == {"SELL_CLAMPED", "INVALID_SIDE", "INVALID_COUNT",
                "INVALID_PRICE_RANGE", "INVALID_TICKER",
                "PRICE_OUTSIDE_CONFIG_RANGE", "EXCEEDS_MAX_TRADE_DOLLARS",
                "NO_POSITION", "SERIES_RESOLUTION_FAILED",
                "ENVELOPE_FN_EXCEPTION"}
\* Codes with halt_trading and requires_human_review.
HaltCodes == {"STOP_TRADING", "LIVE_TRADING_BLOCKED", "CONFIG_ERROR",
              "COMMAND_FAILED"}

SuccessCodes == CleanCodes \cup {"ORDERBOOK_EMPTY", "SELL_CLAMPED"}

\* Mutant: a failed command may be retried.
flags_retry_failed(code) ==
  [retryable |-> code \in TransientCodes \cup {"COMMAND_FAILED"},
   halt |-> code \in HaltCodes \ {"COMMAND_FAILED"},
   review |-> code \notin CleanCodes \cup TransientCodes \cup {"COMMAND_FAILED"}]

\* Mutant: a failed command calls a human but does not halt.
flags_review_failed(code) ==
  [retryable |-> code \in TransientCodes,
   halt |-> code \in HaltCodes \ {"COMMAND_FAILED"},
   review |-> code \notin CleanCodes \cup TransientCodes]

\* decision_flags: what is not in the policy falls back to halt and review.
decision_flags(code) ==
  [retryable |-> code \in TransientCodes,
   halt |-> code \notin CleanCodes \cup TransientCodes \cup ReviewCodes,
   review |-> code \notin CleanCodes \cup TransientCodes]

\* success_envelope and failure_envelope.
Envelope(code) ==
  [wellFormed |-> TRUE, ok |-> code \in SuccessCodes, flags |-> decision_flags(code)]

Actions == {"CONTINUE", "RETRY", "HALT_TRADING", "ESCALATE_TO_HUMAN",
            "RETRY_AND_ESCALATE"}

\* Mutant: one attempt too many.
can_retry_once_more(retryable, attempt, maxAttempts) ==
  retryable /\ attempt <= maxAttempts

\* RetryPolicy.can_retry
can_retry(retryable, attempt, maxAttempts) == retryable /\ attempt < maxAttempts

\* Mutant: requires_human_review is not looked at.
interpret_without_review(envelope, attempt, maxAttempts) ==
  CASE ~ envelope.wellFormed \/ envelope.flags.halt -> "HALT_TRADING"
    [] envelope.wellFormed /\ ~ envelope.flags.halt /\ envelope.flags.retryable ->
         IF can_retry(TRUE, attempt, maxAttempts) THEN "RETRY" ELSE "ESCALATE_TO_HUMAN"
    [] OTHER -> IF envelope.ok THEN "CONTINUE" ELSE "ESCALATE_TO_HUMAN"

\* interpret_cli_response: the first rule that applies decides.
interpret_cli_response(envelope, attempt, maxAttempts) ==
  LET flags == envelope.flags
      retry == can_retry(flags.retryable, attempt, maxAttempts)
  IN  CASE ~ envelope.wellFormed -> "HALT_TRADING"
        [] envelope.wellFormed /\ flags.halt -> "HALT_TRADING"
        [] envelope.wellFormed /\ ~ flags.halt /\ flags.review ->
             IF retry THEN "RETRY_AND_ESCALATE" ELSE "ESCALATE_TO_HUMAN"
        [] envelope.wellFormed /\ ~ flags.halt /\ ~ flags.review /\ flags.retryable ->
             IF retry THEN "RETRY" ELSE "ESCALATE_TO_HUMAN"
        [] OTHER -> IF envelope.ok THEN "CONTINUE" ELSE "ESCALATE_TO_HUMAN"

\* What execute_with_decision_engine makes of an in-process order's code: none
\* of these codes is retryable, so the first attempt decides.
OrderAction(code) == interpret_cli_response(Envelope(code), 0, 3)
=============================================================================
