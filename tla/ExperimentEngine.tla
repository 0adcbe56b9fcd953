--------------------------- MODULE ExperimentEngine ---------------------------
(***************************************************************************)
(* run_experiment: the loop over the frames of one experiment, with or     *)
(* without the answers to earlier frames in the prompt.  Everything here   *)
(* is local to the thread of one run; an answer is its length.             *)
(***************************************************************************)
EXTENDS Integers, Sequences

CONSTANTS
  Experiments,  \* runs, by id
  Remembering,  \* those of strategy single_frame_observation_history
  Frames,       \* number of frames of each
  MaxEntries,   \* observation_history_max_entries
  MaxChars,     \* observation_history_max_chars
  Lengths       \* lengths of answers, 0 for an empty one

ASSUME EngineAssumption ==
  /\ Remembering \subseteq Experiments
  /\ Frames \in [Experiments -> Nat \ {0}]
  /\ MaxEntries \in Nat /\ MaxChars \in Nat
  /\ Lengths \subseteq Nat

VARIABLES
  done,    \* frames that have a result
  memory,  \* history
  said     \* history variable: every answer that was remembered

engineVars == <<done, memory, said>>

EngineInit ==
  /\ done = [r \in Experiments |-> 0]
  /\ memory = [r \in Experiments |-> << >>]
  /\ said = [r \in Experiments |-> << >>]

-----------------------------------------------------------------------------
LastN(h, n) == SubSeq(h, Len(h) - n + 1, Len(h))

(* Entries joined with "; ", from the latest one back.                       *)
BlockLength(h) ==
  LET joined[n \in 0..Len(h)] ==
        IF n = 0 THEN 0
        ELSE joined[n - 1] + h[Len(h) - n + 1] + (IF n = 1 THEN 0 ELSE 2)
  IN  joined[Len(h)]

NothingSelected == [selected |-> << >>, used |-> 0, full |-> FALSE]

(* One round of the loop of _truncate_history.                               *)
\* Mutant: the separator is not counted.
SelectUnseparated(entry, got) ==
  IF got.full \/ got.used + entry > MaxChars
  THEN [got EXCEPT !.full = TRUE]
  ELSE [got EXCEPT !.used = @ + entry, !.selected = <<entry>> \o @]

Select(entry, got) ==
  LET need == entry + (IF got.selected = << >> THEN 0 ELSE 2)
  IN  IF got.full \/ got.used + need > MaxChars
      THEN [got EXCEPT !.full = TRUE]
      ELSE [selected |-> <<entry>> \o got.selected, used |-> got.used + need, full |-> FALSE]

(* From the latest entry back, until one does not fit.                       *)
Truncated(h) ==
  LET after[n \in 0..Len(h)] ==
        IF n = 0 THEN NothingSelected ELSE Select(h[Len(h) - n + 1], after[n - 1])
  IN  IF MaxChars = 0 THEN << >> ELSE after[Len(h)].selected

(* The earlier answers in the prompt of the next frame.                      *)
PromptBlock(r) ==
  IF r \in Remembering /\ MaxEntries > 0 THEN Truncated(memory[r]) ELSE << >>

(* With no limit on the entries all of them are kept, and none is used.      *)
Latest(h) == IF MaxEntries > 0 /\ Len(h) > MaxEntries THEN LastN(h, MaxEntries) ELSE h

Remember(r, length) ==
  /\ memory' = [memory EXCEPT ![r] = Latest(Append(@, length))]
  /\ said' = [said EXCEPT ![r] = Append(@, length)]

(* One frame: its inference, and the history after it.                       *)
RunFrame(r, ok, length) ==
  /\ done[r] < Frames[r]
  /\ done' = [done EXCEPT ![r] = @ + 1]
  /\ IF r \in Remembering /\ ok /\ length > 0
     THEN Remember(r, length)
     ELSE UNCHANGED <<memory, said>>

(* run_experiment returns or raises: its locals go.                          *)
LeaveEngine(r) ==
  /\ memory' = [memory EXCEPT ![r] = << >>]
  /\ said' = [said EXCEPT ![r] = << >>]
  /\ UNCHANGED done

-----------------------------------------------------------------------------
(* Cutting the history once when an answer is added and once when a prompt   *)
(* is built leaves in the prompt what a single look at all the answers would *)
(* leave: the latest ones that fit both limits, as many as possible.         *)
PromptTellsTheLatest ==
  \A r \in Remembering :
    LET fitting == { n \in 0..Len(said[r]) :
                       n <= MaxEntries /\ BlockLength(LastN(said[r], n)) <= MaxChars }
    IN  \E n \in fitting : PromptBlock(r) = LastN(said[r], n) /\ \A m \in fitting : m <= n
=============================================================================
