-------------------------- MODULE ObservationHistory --------------------------
(***************************************************************************)
(* The bounded prompt history of VlmReasonerNode.  The worker thread is    *)
(* its only user: every request it makes first calls                       *)
(* maybe_reset_observation_history_before_request, renders the retained    *)
(* answers into the prompt (or into native turns), and calls               *)
(* update_observation_history_after_response with the answer.              *)
(*                                                                         *)
(* Texts are abstracted to their sizes and to the number of the request    *)
(* that produced them: who remembers what, and for how long, is all that   *)
(* the retention and reset policies are about.                             *)
(***************************************************************************)
EXTENDS Integers, Sequences, FiniteSets

CONSTANTS
  MaxEntries,         \* observation_history_max_entries
  MaxChars,           \* observation_history_max_chars, 0 for no limit
  ResetPolicy,        \* observation_history_reset_policy
  ResetInterval,      \* observation_history_reset_interval_requests
  Structured,         \* instruction_delivery_mode = "structured"
  ContextInTemplate,  \* the active template mentions {context}
  TextSizes,          \* sizes of answers, 0 for an empty one
  PromptSizes         \* sizes of rendered prompts

\* What validate_parameters accepts.
ASSUME HistoryAssumption ==
  /\ MaxEntries \in Nat
  /\ MaxChars \in Nat
  /\ ResetPolicy \in {"never", "on_error", "every_n_requests"}
  /\ ResetInterval \in Nat
  /\ (ResetPolicy = "every_n_requests") <=> (ResetInterval > 0)
  /\ Structured \in BOOLEAN
  /\ ContextInTemplate \in BOOLEAN
  /\ TextSizes \subseteq Nat
  /\ PromptSizes \subseteq Nat

VARIABLES
  history,     \* observation_history_, oldest first
  sinceReset,  \* requests_since_observation_history_reset_
  open,        \* a prompt is rendered and its answer not yet recorded
  context,     \* numbers of the requests whose answers that prompt carries
  \* History variables: nothing in the code reads them.
  requests,    \* requests rendered so far; the number of the current one
  window,      \* every answer retained since the last reset, never trimmed
  lastFailure  \* number of the last request that failed, 0 for none

historyVars ==
  <<history, sinceReset, open, context, requests, window, lastFailure>>

-----------------------------------------------------------------------------
(* observation_history_size_chars: inline delivery repeats only the answer,  *)
(* structured delivery transmits the user's side of the turn as well.        *)
EntryChars(text, prompt) == IF Structured THEN text + prompt ELSE text

SizeChars(h) ==
  LET upTo[n \in 0..Len(h)] == IF n = 0 THEN 0 ELSE upTo[n - 1] + h[n].chars
  IN  upTo[Len(h)]

Fits(h) ==
  /\ Len(h) <= MaxEntries
  /\ MaxChars > 0 => SizeChars(h) <= MaxChars

PopFront(h, n) == SubSeq(h, n + 1, Len(h))

(* The two pop_front loops stop at the first suffix that fits both limits,   *)
(* or when nothing is left.                                                  *)
\* Mutant: an if where the code has a while.
TrimmedOnce(h) == IF Fits(h) THEN h ELSE Tail(h)

PopsEnough(h, n) == n = Len(h) \/ Fits(PopFront(h, n))

Trimmed(h) ==
  PopFront(h, CHOOSE n \in 0..Len(h) :
                PopsEnough(h, n) /\ \A m \in 0..(n - 1) : ~PopsEnough(h, m))

(* The prompt, or the request's native turns, carry the whole deque; inline  *)
(* delivery only does when the template has a place for it.                  *)
Rendered(h) ==
  IF Structured \/ ContextInTemplate
  THEN [i \in 1..Len(h) |-> h[i].req]
  ELSE << >>

\* Mutant: off by one at the interval.
ResetDueLate ==
  /\ history # << >>
  /\ ResetPolicy = "every_n_requests"
  /\ sinceReset > ResetInterval

ResetDue ==
  /\ history # << >>
  /\ ResetPolicy = "every_n_requests"
  /\ sinceReset >= ResetInterval

-----------------------------------------------------------------------------
HistoryInit ==
  /\ history = << >>
  /\ sinceReset = 0
  /\ open = FALSE
  /\ context = << >>
  /\ requests = 0
  /\ window = << >>
  /\ lastFailure = 0

(* maybe_reset_observation_history_before_request, then the prompt.  An      *)
(* empty deque returns before the counter is looked at.                      *)
BeginRequest ==
  /\ ~open
  /\ open' = TRUE
  /\ requests' = requests + 1
  /\ history' = IF ResetDue THEN << >> ELSE history
  /\ sinceReset' = IF ResetDue THEN 0 ELSE sinceReset
  /\ window' = IF ResetDue THEN << >> ELSE window
  /\ context' = Rendered(history')
  /\ UNCHANGED lastFailure

(* update_observation_history_after_response for an answer of the given      *)
(* size to a prompt of the given size.                                       *)
\* Mutant: only the counter is reset.
ForgetNothing ==
  /\ UNCHANGED <<history, window>>
  /\ sinceReset' = 0

ForgetOnError ==
  /\ history' = << >>
  /\ window' = << >>
  /\ sinceReset' = 0

Retain(text, prompt) ==
  LET entry == [req |-> requests, chars |-> EntryChars(text, prompt)]
  IN  /\ history' = Trimmed(Append(history, entry))
      /\ window' = Append(window, entry)
      /\ sinceReset' = sinceReset + 1

FinishRequest(ok, text, prompt) ==
  /\ open
  /\ open' = FALSE
  /\ lastFailure' = IF ok THEN lastFailure ELSE requests
  /\ \/ /\ ResetPolicy = "on_error" /\ ~ok
        /\ ForgetOnError
     \/ /\ ok /\ text > 0 /\ MaxEntries > 0
        /\ Retain(text, prompt)
     \/ /\ ResetPolicy = "on_error" => ok
        /\ ~ok \/ text = 0 \/ MaxEntries = 0
        /\ sinceReset' = sinceReset + 1
        /\ UNCHANGED <<history, window>>
  /\ UNCHANGED <<context, requests>>

-----------------------------------------------------------------------------
(* Popping one answer at a time as answers arrive keeps exactly what a       *)
(* single look at everything retained since the last reset would keep: its   *)
(* longest suffix within the entry and character limits.  In particular the  *)
(* prompt stays within both limits, and no answer is forgotten early, not    *)
(* even after one so long that it had to be forgotten at once.               *)
HistoryIsLongestSuffix ==
  LET suffixes == {PopFront(window, n) : n \in 0..Len(window)}
  IN  /\ history \in suffixes
      /\ Fits(history)
      /\ \A s \in suffixes : Fits(s) => Len(s) <= Len(history)

(* Under every_n_requests no prompt carries an answer that is N or more      *)
(* requests old, although the counter is neither checked nor cleared while   *)
(* the deque is empty and failures go on counting.                           *)
ContextIsFresh ==
  ResetPolicy = "every_n_requests" =>
    \A i \in 1..Len(context) : requests - context[i] < ResetInterval

(* Under on_error nothing said before a failed request survives it, and      *)
(* what survives in the other policies is in the order it was said.          *)
ErrorsIsolate ==
  /\ ResetPolicy = "on_error" =>
       \A i \in 1..Len(history) : history[i].req > lastFailure
  /\ \A i, j \in 1..Len(history) : i < j => history[i].req < history[j].req

(* What the node remembers is as long as the bounds allow and holds nothing  *)
(* that a failure was to end.                                                *)
HistoryIsExact == HistoryIsLongestSuffix /\ ErrorsIsolate
=============================================================================
