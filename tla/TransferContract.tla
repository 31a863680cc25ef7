-------------------------- MODULE TransferContract -------------------------
(***************************************************************************)
(* What a caller of importData or of exportData may rely on, without       *)
(* requests, jobs or polls: the call runs until it settles with one        *)
(* outcome, its work is done at most once and only after it was called -   *)
(* possibly after it settled with another outcome than success, since a    *)
(* failed answer does not stop the service - and success is only reported  *)
(* once the work is done.                                                  *)
(***************************************************************************)
CONSTANT Calls

VARIABLES state, done

contractVars == <<state, done>>

Outcome == {"success", "failure", "error", "rejected"}

ContractInit ==
  /\ state = [c \in Calls |-> "idle"]
  /\ done = [c \in Calls |-> FALSE]

Begin(c) ==
  /\ state[c] = "idle"
  /\ state' = [state EXCEPT ![c] = "running"]
  /\ UNCHANGED done

\* The service loads the data of an import, or writes the file of an export.
Finish(c) ==
  /\ state[c] \notin {"idle", "success"}
  /\ ~done[c]
  /\ done' = [done EXCEPT ![c] = TRUE]
  /\ UNCHANGED state

Settle(c) ==
  /\ state[c] = "running"
  /\ \E o \in Outcome :
       /\ o = "success" => done[c]
       /\ state' = [state EXCEPT ![c] = o]
  /\ UNCHANGED done

ContractNext == \E c \in Calls : Begin(c) \/ Finish(c) \/ Settle(c)

\* A call that runs settles; whether its work is ever done is not promised.
ContractSpec ==
  /\ ContractInit
  /\ [][ContractNext]_contractVars
  /\ \A c \in Calls : WF_contractVars(Settle(c))
=============================================================================
