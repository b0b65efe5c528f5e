---------------------------- MODULE ModelService ----------------------------
(***************************************************************************)
(* What a loaded model promises to the threads that call it, without its   *)
(* worker thread, its channel capacity and the execution gate: each model  *)
(* is a line of accepted calls, answered strictly from the front; a call   *)
(* that was accepted gets exactly one fate; closing puts a Stop marker     *)
(* behind everything accepted before it; and a worker that dies abandons   *)
(* every call it still owes, never silently.                               *)
(***************************************************************************)
EXTENDS Naturals, Sequences

CONSTANTS Models,       \* the loaded (or loading) models
          Calls,        \* inference calls and cache saves
          Withdrawable, \* the calls whose caller holds a PendingRun handle
          ModelOf,      \* the model a call addresses
          Stop          \* the marker a closing model leaves in its line

VARIABLES phase,     \* phase[m]: starting, serving, lost (worker died) or retired
          backlog,   \* backlog[m]: the accepted calls not yet decided, oldest first
          fate,      \* fate[c]: what became of call c
          withdrawn  \* calls cancelled by their caller, or past their deadline

serviceVars == <<phase, backlog, fate, withdrawn>>

Settled == {"ok", "native", "poisoned", "cancelled", "deadline", "abandoned"}

\* The outcomes a worker may decide for call c: only a withdrawn call can be
\* skipped.
Outcomes(c) ==
  {"ok", "native", "poisoned"}
    \cup (IF c \in withdrawn THEN {"cancelled", "deadline"} ELSE {})

Init ==
  /\ phase = [m \in Models |-> "starting"]
  /\ backlog = [m \in Models |-> <<>>]
  /\ fate = [c \in Calls |-> "new"]
  /\ withdrawn = {}

Start(m) ==
  /\ phase[m] = "starting"
  /\ \E p \in {"serving", "retired"} : phase' = [phase EXCEPT ![m] = p]
  /\ UNCHANGED <<backlog, fate, withdrawn>>

Accept(c) ==
  /\ fate[c] = "new"
  /\ phase[ModelOf[c]] \in {"serving", "lost"}
  /\ \A i \in 1..Len(backlog[ModelOf[c]]) : backlog[ModelOf[c]][i] # Stop
  /\ backlog' = [backlog EXCEPT ![ModelOf[c]] = Append(@, c)]
  /\ fate' = [fate EXCEPT ![c] = "pending"]
  /\ UNCHANGED <<phase, withdrawn>>

Refuse(c) ==
  /\ fate[c] = "new"
  /\ fate' = [fate EXCEPT ![c] = "refused"]
  /\ UNCHANGED <<phase, backlog, withdrawn>>

Withdraw(c) ==
  /\ c \in Withdrawable
  /\ withdrawn' = withdrawn \cup {c}
  /\ UNCHANGED <<phase, backlog, fate>>

\* Only the oldest undecided call is answered.
Serve(m) ==
  /\ phase[m] = "serving"
  /\ backlog[m] # <<>>
  /\ Head(backlog[m]) # Stop
  /\ \E o \in Outcomes(Head(backlog[m])) :
       fate' = [fate EXCEPT ![Head(backlog[m])] = o]
  /\ backlog' = [backlog EXCEPT ![m] = Tail(@)]
  /\ UNCHANGED <<phase, withdrawn>>

Close(m) ==
  /\ phase[m] \in {"serving", "lost"}
  /\ \A i \in 1..Len(backlog[m]) : backlog[m][i] # Stop
  /\ backlog' = [backlog EXCEPT ![m] = Append(@, Stop)]
  /\ UNCHANGED <<phase, fate, withdrawn>>

\* An orderly end: nothing but the Stop marker is left.
Retire(m) ==
  /\ phase[m] = "serving"
  /\ backlog[m] = <<Stop>>
  /\ phase' = [phase EXCEPT ![m] = "retired"]
  /\ backlog' = [backlog EXCEPT ![m] = <<>>]
  /\ UNCHANGED <<fate, withdrawn>>

\* The worker dies in the call it is serving ...
Lose(m) ==
  /\ phase[m] = "serving"
  /\ backlog[m] # <<>>
  /\ Head(backlog[m]) # Stop
  /\ phase' = [phase EXCEPT ![m] = "lost"]
  /\ fate' = [fate EXCEPT ![Head(backlog[m])] = "abandoned"]
  /\ backlog' = [backlog EXCEPT ![m] = Tail(@)]
  /\ UNCHANGED withdrawn

\* ... and every call behind it is told so.
Abandon(m) ==
  /\ phase[m] = "lost"
  /\ phase' = [phase EXCEPT ![m] = "retired"]
  /\ fate' = [c \in Calls |->
                IF \E i \in 1..Len(backlog[m]) : backlog[m][i] = c
                THEN "abandoned" ELSE fate[c]]
  /\ backlog' = [backlog EXCEPT ![m] = <<>>]
  /\ UNCHANGED withdrawn

Next ==
  \/ \E c \in Calls : Accept(c) \/ Refuse(c) \/ Withdraw(c)
  \/ \E m \in Models : Start(m) \/ Serve(m) \/ Close(m) \/ Retire(m)
                         \/ Lose(m) \/ Abandon(m)

Spec == Init /\ [][Next]_serviceVars
=============================================================================
