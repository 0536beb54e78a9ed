----------------------------- MODULE AgentLoop ------------------------------
(***************************************************************************)
(* One run of the single Agent under its limits: the executor selects the  *)
(* messages that fit, checks the worst-case cost, and the Agent alternates *)
(* model rounds and tool calls under budgets of tokens, cost, rounds and   *)
(* calls.                                                                  *)
(*                                                                         *)
(* A size is what conservative_input_tokens counts, the bytes of a message *)
(* with its framing.  A request also carries the tool definitions and the  *)
(* tool calls of earlier rounds, which are not counted: up to Uncounted    *)
(* tokens.  What a request has used is what the provider reports, whatever *)
(* was sent and allowed.  Prices are per token, in one unit, and exact     *)
(* where the code computes with floats.                                    *)
(***************************************************************************)
EXTENDS Integers, Sequences, SequencesExt

CONSTANTS
  max_input_tokens, max_output_tokens, max_cost, max_model_rounds, max_tool_calls,
  input_price, output_price,
  SystemSize,     \* size of the system prompt
  Histories,      \* sizes of the stored messages of the conversation
  ResultSizes,    \* sizes a message of the Agent or of a tool may have
  Uncounted,      \* tokens of a tool request that the estimate leaves out
  Reports,        \* usage that the provider may report for a request
  Grain,          \* units of cost in the eighth decimal that round() keeps
  Tools,          \* definitions that the catalog and the allowlist offer
  ToolNames,      \* names that the model may ask for
  MaxCallsPerRound

ASSUME AgentLoopAssumption ==
  /\ {max_output_tokens, max_model_rounds} \subseteq Nat \ {0}
  /\ {max_input_tokens, max_cost, max_tool_calls, input_price, output_price} \subseteq Nat
  /\ {SystemSize, Uncounted, MaxCallsPerRound} \subseteq Nat
  /\ Reports \subseteq [input : Nat, output : Nat]
  /\ Grain \in Nat \ {0}
  /\ Tools \subseteq ToolNames
  /\ ResultSizes \subseteq Nat \ {0}
  /\ Histories \subseteq Seq(Nat \ {0}) \ {<<>>}

VARIABLES
  pc,
  stored,       \* sizes of the messages that load_run_messages returns
  gateway,      \* whether the run has a gateway and the provider takes tools
  context,      \* size of working_messages
  usage,        \* total_usage: input and output tokens
  rounds,       \* model rounds made
  pending,      \* tool calls of the current round not made yet
  invocations,  \* tools called through the gateway
  honest        \* history: no report exceeded what was sent and allowed

vars == <<pc, stored, gateway, context, usage, rounds, pending, invocations, honest>>

Usage == [input : Nat, output : Nat]

TypeOK ==
  /\ pc \in {"prepare", "graph", "round", "tools", "check", "answered", "failed"}
  /\ stored \in Histories
  /\ gateway \in BOOLEAN
  /\ context \in Nat
  /\ usage \in Usage
  /\ rounds \in 0..max_model_rounds
  /\ pending \in Seq(ToolNames)
  /\ invocations \in Seq(Tools)
  /\ honest \in BOOLEAN
  /\ pc # "tools" => pending = <<>>

Init ==
  /\ pc = "prepare"
  /\ stored \in Histories
  /\ gateway \in BOOLEAN
  /\ context = 0
  /\ usage = [input |-> 0, output |-> 0]
  /\ rounds = 0
  /\ pending = <<>>
  /\ invocations = <<>>
  /\ honest = TRUE

-----------------------------------------------------------------------------
(* Before the Agent starts *)

\* conservative_input_tokens of a list of messages.
Total(sizes) == FoldRight(+, sizes, 0)

\* The k latest messages.
Latest(sizes, k) == SubSeq(sizes, Len(sizes) - k + 1, Len(sizes))

\* Variant with a bug: a message that does not fit is left out, older ones are
\* still taken.
BoundedMessagesSkipping(sizes) ==
  LET take(size, acc) ==
        IF size <= acc.budget
          THEN [acc EXCEPT !.budget = @ - size, !.selected = <<size>> \o @]
          ELSE acc
  IN FoldRight(take, sizes,
       [budget |-> max_input_tokens - SystemSize, selected |-> <<>>]).selected

\* _bounded_messages: from the latest message back, as long as each fits into
\* what is left of the input limit.
Take(size, acc) ==
  IF acc.open /\ size <= acc.budget
    THEN [acc EXCEPT !.budget = @ - size, !.selected = <<size>> \o @]
    ELSE [acc EXCEPT !.open = FALSE]

BoundedMessages(sizes) ==
  FoldRight(Take, sizes,
    [budget |-> max_input_tokens - SystemSize, selected |-> <<>>, open |-> TRUE]).selected

\* _usage_cost
Cost(input, output) == input * input_price + output * output_price

\* _actual_cost of the executor: the cost, rounded half to even.
ActualCost(input, output) ==
  LET quotient == Cost(input, output) \div Grain
      rest == Cost(input, output) % Grain
  IN IF 2 * rest < Grain \/ (2 * rest = Grain /\ quotient % 2 = 0)
       THEN quotient * Grain
       ELSE (quotient + 1) * Grain

Fail ==
  /\ pc' = "failed"
  /\ UNCHANGED <<context, usage, rounds, pending, invocations, honest>>

\* The messages that fit and _check_preflight_cost.
Prepare ==
  /\ pc = "prepare"
  /\ LET messages == BoundedMessages(stored)
         estimated == SystemSize + Total(messages)
     IN IF messages = <<>> \/ Cost(estimated, max_output_tokens) > max_cost
          THEN Fail
          ELSE /\ pc' = IF gateway THEN "round" ELSE "graph"
               /\ context' = estimated
               /\ UNCHANGED <<usage, rounds, pending, invocations, honest>>
  /\ UNCHANGED <<stored, gateway>>

-----------------------------------------------------------------------------
(* SingleAgent.run *)

\* Without tools: one model request.
GraphModel ==
  /\ pc = "graph"
  /\ \E report \in Reports :
       /\ usage' = report
       /\ honest' = (report.input <= context /\ report.output <= max_output_tokens)
  /\ pc' = "check"
  /\ UNCHANGED <<stored, gateway, context, rounds, pending, invocations>>

\* Variant with a bug: the cost of earlier rounds is forgotten.
RoundOutputLimitForgetting ==
  LET remaining_output == max_output_tokens - usage.output
      remaining_cost == max_cost - Cost(context, 0)
  IN IF \/ context > max_input_tokens - usage.input
        \/ remaining_output <= 0
        \/ remaining_cost < 0
       THEN 0
       ELSE IF output_price = 0 THEN remaining_output
            ELSE Min({remaining_output, remaining_cost \div output_price})

\* _round_output_limit, 0 where it raises RunLimitError.  A float quotient may
\* fall short of an integer and lose one token: the round then does what it may
\* do anyway with a smaller report, or fails as if interrupted.
RoundOutputLimit ==
  LET remaining_output == max_output_tokens - usage.output
      remaining_cost == max_cost - Cost(usage.input, usage.output) - Cost(context, 0)
  IN IF \/ context > max_input_tokens - usage.input
        \/ remaining_output <= 0
        \/ remaining_cost < 0
       THEN 0
       ELSE IF output_price = 0 THEN remaining_output
            ELSE Min({remaining_output, remaining_cost \div output_price})

\* _check_actual_usage
WithinLimits(u) ==
  /\ u.input <= max_input_tokens
  /\ u.output <= max_output_tokens
  /\ Cost(u.input, u.output) <= max_cost

\* Variant with a bug: the calls of the round are not added before the test.
CallLimitExceededLate(calls) == Len(invocations) > max_tool_calls

CallLimitExceeded(calls) == Len(invocations) + Len(calls) > max_tool_calls

\* The model answers, or asks for tools within the limits.
Round ==
  /\ pc = "round"
  /\ IF rounds = max_model_rounds \/ RoundOutputLimit = 0
       THEN Fail
       ELSE \E report \in Reports, calls \in SeqOf(ToolNames, MaxCallsPerRound),
               size \in ResultSizes :
              LET total == [input |-> usage.input + report.input,
                            output |-> usage.output + report.output]
              IN /\ usage' = total
                 /\ rounds' = rounds + 1
                 /\ honest' = (honest /\ report.input <= context + Uncounted
                                      /\ report.output <= RoundOutputLimit)
                 /\ \/ ~WithinLimits(total) /\ pc' = "failed" /\ UNCHANGED <<context, pending>>
                    \/ /\ WithinLimits(total)
                       /\ calls = <<>>
                       /\ pc' = "check"
                       /\ UNCHANGED <<context, pending>>
                    \/ /\ WithinLimits(total)
                       /\ calls # <<>>
                       /\ IF CallLimitExceeded(calls)
                            THEN pc' = "failed" /\ UNCHANGED <<context, pending>>
                            ELSE /\ pc' = "tools"
                                 /\ pending' = calls
                                 /\ context' = context + size
                 /\ UNCHANGED invocations
  /\ UNCHANGED <<stored, gateway>>

\* Variant with a bug: the name is not looked up among the definitions.
CallAnyTool ==
  /\ pc = "tools"
  /\ \E size \in ResultSizes :
       /\ context' = context + size
       /\ invocations' = Append(invocations, Head(pending))
       /\ pending' = Tail(pending)
       /\ pc' = IF Len(pending) = 1 THEN "round" ELSE "tools"
  /\ UNCHANGED <<stored, gateway, usage, rounds, honest>>

\* A tool outside the catalog and the allowlist ends the run; a result, also an
\* error that the tool reports, goes into the conversation.
CallTool ==
  /\ pc = "tools"
  /\ IF Head(pending) \notin Tools
       THEN /\ pc' = "failed"
            /\ pending' = <<>>
            /\ UNCHANGED <<context, invocations>>
       ELSE \E size \in ResultSizes :
              /\ context' = context + size
              /\ invocations' = Append(invocations, Head(pending))
              /\ pending' = Tail(pending)
              /\ pc' = IF Len(pending) = 1 THEN "round" ELSE "tools"
  /\ UNCHANGED <<stored, gateway, usage, rounds, honest>>

\* Variant with a bug: the executor does not look at the output tokens.
AcceptedOutput(u) ==
  u.input <= max_input_tokens /\ ActualCost(u.input, u.output) <= max_cost

\* The executor compares the reported usage with the limits of the run.
Accepted(u) ==
  /\ u.input <= max_input_tokens
  /\ u.output <= max_output_tokens
  /\ ActualCost(u.input, u.output) <= max_cost

Check ==
  /\ pc = "check"
  /\ pc' = IF Accepted(usage) THEN "answered" ELSE "failed"
  /\ UNCHANGED <<stored, gateway, context, usage, rounds, pending, invocations, honest>>

\* A cancellation, the time limit, an error of the provider or of the gateway,
\* or a missing citation ends the run.
Interrupt ==
  /\ pc \notin {"answered", "failed"}
  /\ pc' = "failed"
  /\ pending' = <<>>
  /\ UNCHANGED <<stored, gateway, context, usage, rounds, invocations, honest>>

Done == pc \in {"answered", "failed"} /\ UNCHANGED vars

Next ==
  \/ Prepare
  \/ GraphModel
  \/ Round
  \/ CallTool
  \/ Check
  \/ Interrupt
  \/ Done

Spec == Init /\ [][Next]_vars

-----------------------------------------------------------------------------
(* Properties *)

\* What is selected is the longest run of latest messages that fits the input
\* limit together with the system prompt.
SelectionIsLongest ==
  LET Fitting == {k \in 0..Len(stored) :
                    k = 0 \/ SystemSize + Total(Latest(stored, k)) <= max_input_tokens}
  IN BoundedMessages(stored) = Latest(stored, Max(Fitting))

\* However rounds and tool calls alternate and whatever the provider reports, a
\* run exceeds its limits by at most one request: without its last report it is
\* within them.  With a provider that never reports more than it was sent and
\* allowed, the excess is what the estimate of one request leaves out
\* (_round_output_limit, _check_actual_usage, _check_preflight_cost).
OverrunBounded ==
  /\ \E last \in Reports \cup {[input |-> 0, output |-> 0]} :
       /\ usage.input - last.input <= max_input_tokens
       /\ usage.output - last.output <= max_output_tokens
       /\ Cost(usage.input - last.input, usage.output - last.output) <= max_cost
  /\ honest =>
       /\ usage.input <= max_input_tokens + Uncounted
       /\ usage.output <= max_output_tokens
       /\ Cost(usage.input, usage.output) <= max_cost + Cost(Uncounted, 0)

\* An overrun ends the run: no tool is called and no further round is made once
\* a limit is exceeded, and no answer is given for more than the limits, the
\* cost taken to the eighth decimal.
OverrunIsFatal ==
  /\ pc \in {"round", "tools", "answered"} =>
       usage.input <= max_input_tokens /\ usage.output <= max_output_tokens
  /\ pc \in {"round", "tools"} => Cost(usage.input, usage.output) <= max_cost
  /\ pc = "answered" => ActualCost(usage.input, usage.output) <= max_cost

\* The gateway is called at most max_tool_calls times, in every combination of
\* rounds.
CallsBounded == Len(invocations) + Len(pending) <= max_tool_calls
=============================================================================
