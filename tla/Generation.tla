----------------------------- MODULE Generation -----------------------------
(***************************************************************************)
(* What the engine promises its caller, whatever it does inside: a request *)
(* that is submitted gets its tokens one at a time, stops at its last one  *)
(* and is never touched again.                                             *)
(***************************************************************************)
EXTENDS Config

VARIABLES
  outcome,   \* [Requests -> {"NEW", "ACTIVE", "FINISHED"}]
  length     \* [Requests -> length of the prompt and the tokens so far]

Init ==
  /\ outcome = [r \in Requests |-> "NEW"]
  /\ length = PromptLen

completion(r) == length[r] - PromptLen[r]

Submit(r) ==
  /\ outcome[r] = "NEW"
  /\ outcome' = [outcome EXCEPT ![r] = "ACTIVE"]
  /\ UNCHANGED length

Emit(r) ==
  /\ outcome[r] = "ACTIVE" /\ completion(r) + 1 < MaxTokens[r]
  /\ length' = [length EXCEPT ![r] = @ + 1]
  /\ UNCHANGED outcome

(* The last token: EOS where the request heeds it, or the MaxTokens-th.    *)
Finish(r) ==
  /\ outcome[r] = "ACTIVE" /\ completion(r) + 1 <= MaxTokens[r]
  /\ r \in IgnoreEos => completion(r) + 1 = MaxTokens[r]
  /\ length' = [length EXCEPT ![r] = @ + 1]
  /\ outcome' = [outcome EXCEPT ![r] = "FINISHED"]

Next == \E r \in Requests : Submit(r) \/ Emit(r) \/ Finish(r)

Spec == Init /\ [][Next]_<<outcome, length>>
=============================================================================
