--------------------------- MODULE CliExecutorProofs ---------------------------
(***************************************************************************)
(* Proofs about CliExecutor, for every number of attempts the policy may   *)
(* allow and every choice of transports and operations.                    *)
(*                                                                         *)
(* All of them rest on one fact about the policy table: no code that an    *)
(* in-process order may come back with is retryable, and the one that may  *)
(* hide an executed order halts.                                           *)
(***************************************************************************)
EXTENDS CliExecutor, TLAPS

Flags == [retryable : BOOLEAN, halt : BOOLEAN, review : BOOLEAN]
Envelopes == [wellFormed : BOOLEAN, ok : BOOLEAN, flags : Flags]

-----------------------------------------------------------------------------
(* Envelopes *)

\* Every code has flags.
LEMMA CodeFlags ==
  ASSUME NEW code
  PROVE  decision_flags(code) \in Flags
<1>1. /\ (code \in TransientCodes) \in BOOLEAN
      /\ (code \notin CleanCodes \cup TransientCodes \cup ReviewCodes) \in BOOLEAN
      /\ (code \notin CleanCodes \cup TransientCodes) \in BOOLEAN
  OBVIOUS
<1> QED
  BY <1>1 DEF decision_flags, Flags

\* Every code has an envelope.
LEMMA CodeEnvelope ==
  ASSUME NEW code
  PROVE  /\ Envelope(code) \in Envelopes
         /\ Envelope(code).wellFormed
         /\ Envelope(code).ok = (code \in SuccessCodes)
         /\ Envelope(code).flags = decision_flags(code)
<1>1. (code \in SuccessCodes) \in BOOLEAN
  OBVIOUS
<1> QED
  BY <1>1, CodeFlags DEF Envelope, Envelopes

LEMMA OtherEnvelopes ==
  /\ Malformed \in Envelopes
  /\ SyntheticFailure(TRUE) \in Envelopes /\ SyntheticFailure(FALSE) \in Envelopes
BY CodeFlags DEF Malformed, SyntheticFailure, Envelopes, Flags

\* The codes of orders and what the policy says of them.
OrderCodes == RejectedCodes \cup PlacedCodes \cup {"COMMAND_FAILED", "ENVELOPE_FN_EXCEPTION"}

LEMMA OrderFlags ==
  ASSUME NEW code \in OrderCodes
  PROVE  /\ ~ decision_flags(code).retryable
         /\ code \in PlacedCodes => code \in SuccessCodes
         /\ code = "COMMAND_FAILED" => decision_flags(code).halt
BY DEF OrderCodes, RejectedCodes, PlacedCodes, decision_flags, SuccessCodes,
       CleanCodes, TransientCodes, ReviewCodes

\* An order's answer is never one to retry, and an order that was executed
\* without a word of its fill halts.
LEMMA InProcessAnswers ==
  ASSUME NEW r \in FnResults
  PROVE  /\ r.submitted \in {0, 1}
         /\ r.envelope \in Envelopes /\ r.envelope.wellFormed
         /\ ~ r.envelope.flags.retryable
         /\ r.submitted = 1 /\ ~ r.envelope.ok => r.envelope.flags.halt
<1>1. PICK code \in OrderCodes, n \in {0, 1} :
        /\ r = Result(Envelope(code), n)
        /\ n = 1 => code \in PlacedCodes \cup {"COMMAND_FAILED"}
  BY DEF FnResults, OrderResults, OrderCodes
<1>2. r.submitted = n /\ r.envelope = Envelope(code)
  BY <1>1 DEF Result
<1> QED
  BY <1>1, <1>2, CodeEnvelope, OrderFlags

\* Whatever comes back is an envelope or what stands for one.
LEMMA Answers ==
  ASSUME NEW r \in FnResults \cup CliResults
  PROVE  r.submitted \in {0, 1} /\ r.envelope \in Envelopes
<1>1. CASE r \in FnResults
  BY <1>1, InProcessAnswers
<1>2. CASE r \in CliResults
  <2>1. PICK e \in Envelopes, n \in {0, 1} : r = Result(e, n)
    BY <1>2, CodeEnvelope, OtherEnvelopes DEF CliResults, OrderResults, QueryResults
  <2> QED
    BY <2>1 DEF Result
<1> QED
  BY <1>1, <1>2

\* What each action says of the envelope that chose it.
LEMMA Interpreted ==
  ASSUME envelope \in Envelopes, attempt \in Nat
  PROVE  /\ Chosen \in Actions
         /\ Chosen \in {"RETRY", "RETRY_AND_ESCALATE"} =>
              envelope.flags.retryable /\ attempt < MaxAttempts
         /\ Chosen = "CONTINUE" => envelope.wellFormed /\ envelope.ok /\ ~ envelope.flags.review
         /\ envelope.flags.halt => Chosen = "HALT_TRADING"
<1> DEFINE e == envelope
           retry == e.flags.retryable /\ attempt < MaxAttempts
<1>0. e.wellFormed \in BOOLEAN /\ e.ok \in BOOLEAN /\ e.flags.halt \in BOOLEAN
      /\ e.flags.review \in BOOLEAN /\ e.flags.retryable \in BOOLEAN
  BY DEF Envelopes, Flags
<1>1. ~ e.wellFormed \/ e.flags.halt => Chosen = "HALT_TRADING"
  BY <1>0 DEF Chosen, interpret_cli_response, can_retry
<1>2. e.wellFormed /\ ~ e.flags.halt /\ e.flags.review =>
        Chosen = IF retry THEN "RETRY_AND_ESCALATE" ELSE "ESCALATE_TO_HUMAN"
  BY <1>0 DEF Chosen, interpret_cli_response, can_retry
<1>3. e.wellFormed /\ ~ e.flags.halt /\ ~ e.flags.review /\ e.flags.retryable =>
        Chosen = IF retry THEN "RETRY" ELSE "ESCALATE_TO_HUMAN"
  BY <1>0 DEF Chosen, interpret_cli_response, can_retry
<1>4. e.wellFormed /\ ~ e.flags.halt /\ ~ e.flags.review /\ ~ e.flags.retryable =>
        Chosen = IF e.ok THEN "CONTINUE" ELSE "ESCALATE_TO_HUMAN"
  BY <1>0 DEF Chosen, interpret_cli_response, can_retry
<1> QED
  BY <1>0, <1>1, <1>2, <1>3, <1>4 DEF Actions

-----------------------------------------------------------------------------
(* The invariant *)

\* Before the call returns nothing was written, and no more was sent or escalated
\* than there were attempts.
BudgetInv ==
  /\ state \in {"call", "interpret"} => escalations <= attempt /\ stopFile = "absent"
  /\ state = "call" => submitted <= attempt
  /\ state = "interpret" => submitted <= attempt + 1

\* An in-process order is not called twice, and a fill it does not report halts.
InProcessInv ==
  mode = "inprocess" =>
    /\ state = "call" => submitted = 0
    /\ state # "call" =>
         /\ submitted <= 1
         /\ ~ envelope.flags.retryable
         /\ submitted > 0 /\ ~ envelope.ok => envelope.flags.halt

ExecutorInv ==
  /\ TypeOK /\ BudgetInv /\ InProcessInv
  /\ NoSilentFailure /\ UnreportedFillHalts

LEMMA InitExecutor == Init => ExecutorInv
BY OtherEnvelopes, PolicyAssumption
DEF Init, ExecutorInv, TypeOK, BudgetInv, InProcessInv, NoSilentFailure, UnreportedFillHalts,
    Envelopes, Flags

LEMMA NextExecutor ==
  ASSUME ExecutorInv, [Next]_vars
  PROVE  ExecutorInv'
<1> USE PolicyAssumption DEF ExecutorInv
<1>t. envelope \in Envelopes /\ attempt \in Nat /\ submitted \in Nat /\ escalations \in Nat
  BY DEF TypeOK, Envelopes, Flags
<1>c. /\ Chosen \in Actions
      /\ Chosen \in {"RETRY", "RETRY_AND_ESCALATE"} =>
           envelope.flags.retryable /\ attempt < MaxAttempts
      /\ Chosen = "CONTINUE" => envelope.wellFormed /\ envelope.ok /\ ~ envelope.flags.review
      /\ envelope.flags.halt => Chosen = "HALT_TRADING"
  BY <1>t, Interpreted
<1>1. CASE Call
  <2>1. PICK r \in (IF mode = "inprocess" THEN FnResults ELSE CliResults) :
          envelope' = r.envelope /\ submitted' = submitted + r.submitted
    BY <1>1 DEF Call
  <2>2. /\ state = "call" /\ state' = "interpret"
        /\ UNCHANGED <<mode, operation, attempt, action, escalations, stopFile>>
    BY <1>1 DEF Call
  <2>3. r.submitted \in {0, 1} /\ envelope' \in Envelopes
    BY <2>1, Answers
  <2>4. mode = "inprocess" =>
          /\ ~ r.envelope.flags.retryable
          /\ r.submitted = 1 /\ ~ r.envelope.ok => r.envelope.flags.halt
    BY <2>1, InProcessAnswers
  <2>5. BudgetInv'
    BY <1>t, <2>1, <2>2, <2>3 DEF BudgetInv
  <2>6. TypeOK'
    BY <1>t, <2>1, <2>2, <2>3, <2>5 DEF TypeOK, BudgetInv, Envelopes, Flags
  <2>7. InProcessInv'
    BY <1>t, <2>1, <2>2, <2>3, <2>4 DEF InProcessInv
  <2> QED
    BY <2>2, <2>5, <2>6, <2>7 DEF NoSilentFailure, UnreportedFillHalts
<1>2. CASE Retry
  <2>1. /\ state = "interpret" /\ state' = "call" /\ attempt' = attempt + 1
        /\ Chosen \in {"RETRY", "RETRY_AND_ESCALATE"}
        /\ escalations' \in {escalations, escalations + 1}
        /\ UNCHANGED <<mode, operation, envelope, action, stopFile, submitted>>
    BY <1>t, <1>2 DEF Retry
  <2>2. envelope.flags.retryable /\ attempt < MaxAttempts
    BY <1>c, <2>1
  <2>3. mode # "inprocess"
    BY <2>1, <2>2 DEF InProcessInv
  <2>4. BudgetInv'
    BY <1>t, <2>1 DEF BudgetInv
  <2>5. TypeOK'
    BY <1>t, <2>1, <2>2, <2>4 DEF TypeOK, BudgetInv
  <2> QED
    BY <2>1, <2>3, <2>4, <2>5 DEF InProcessInv, NoSilentFailure, UnreportedFillHalts
<1>3. CASE Return
  <2>1. /\ state = "interpret" /\ state' = "returned" /\ action' = Chosen
        /\ Chosen \in {"CONTINUE", "ESCALATE_TO_HUMAN"}
        /\ escalations' = escalations + (IF Chosen = "CONTINUE" THEN 0 ELSE 1)
        /\ UNCHANGED <<mode, operation, envelope, attempt, stopFile, submitted>>
    BY <1>3 DEF Return
  <2>2. TypeOK'
    BY <1>t, <1>c, <2>1 DEF TypeOK, BudgetInv
  <2>3. InProcessInv'
    BY <2>1 DEF InProcessInv
  <2>4. NoSilentFailure'
    BY <1>t, <1>c, <2>1 DEF NoSilentFailure, BudgetInv
  <2>5. UnreportedFillHalts'
    BY <1>c, <2>1 DEF UnreportedFillHalts, InProcessInv
  <2> QED
    BY <2>1, <2>2, <2>3, <2>4, <2>5 DEF BudgetInv
<1>4. CASE Halt
  <2>1. /\ state = "interpret" /\ state' = "returned" /\ action' = "HALT_TRADING"
        /\ escalations' = escalations + 1
        /\ stopFile' \in {"written", "failed"}
        /\ UNCHANGED <<mode, operation, envelope, attempt, submitted>>
    BY <1>4 DEF Halt
  <2>2. TypeOK'
    BY <1>t, <2>1 DEF TypeOK, BudgetInv, Actions
  <2>3. InProcessInv'
    BY <2>1 DEF InProcessInv
  <2>4. NoSilentFailure'
    BY <1>t, <2>1 DEF NoSilentFailure
  <2>5. UnreportedFillHalts'
    BY <2>1 DEF UnreportedFillHalts
  <2> QED
    BY <2>1, <2>2, <2>3, <2>4, <2>5 DEF BudgetInv
<1>5. CASE UNCHANGED vars
  BY <1>5 DEF vars, TypeOK, BudgetInv, InProcessInv, NoSilentFailure, UnreportedFillHalts
<1> QED
  BY <1>1, <1>2, <1>3, <1>4, <1>5 DEF Next

LEMMA ExecutorAlways == Spec => []ExecutorInv
BY InitExecutor, NextExecutor, PTL DEF Spec

-----------------------------------------------------------------------------
\* The types of a call, and its budget: neither escalations nor submissions
\* outnumber the attempts of the policy, whatever their number.
THEOREM CallTypes == Spec => []TypeOK
<1>1. ExecutorInv => TypeOK
  BY DEF ExecutorInv
<1> QED
  BY <1>1, ExecutorAlways, PTL

\* cli_executor.py:182-237.  An in-process order is sent at most once, however
\* many attempts the policy allows.
THEOREM OrderSentOnce == Spec => []InProcessOrderSubmittedOnce
<1>1. ExecutorInv => InProcessOrderSubmittedOnce
  BY DEF ExecutorInv, InProcessInv, InProcessOrderSubmittedOnce, TypeOK
<1> QED
  BY <1>1, ExecutorAlways, PTL

\* agent_decision_engine.py:183-316.  A call that does not end well has been
\* escalated, and one that does had nothing to review.
THEOREM NothingFailsSilently == Spec => []NoSilentFailure
<1>1. ExecutorInv => NoSilentFailure
  BY DEF ExecutorInv
<1> QED
  BY <1>1, ExecutorAlways, PTL

\* kalshi_inprocess_orders.py:98-107.  A fill that no envelope reports stops the
\* bot.
THEOREM UnreportedFillsHalt == Spec => []UnreportedFillHalts
<1>1. ExecutorInv => UnreportedFillHalts
  BY DEF ExecutorInv
<1> QED
  BY <1>1, ExecutorAlways, PTL
=============================================================================
