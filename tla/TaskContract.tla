------------------------------ MODULE TaskContract ------------------------------
(***************************************************************************)
(* What the execution engine promises whoever calls create_execution_task:   *)
(* no row, queue, router, worker, lock or clock, only tasks, the effects     *)
(* their handlers commit, and the attempts they have left.                   *)
(*                                                                           *)
(* Delivery is at least once.  A task that was settled may be open again (a  *)
(* duplicate id, a scan that acts on what it read earlier), so an effect may *)
(* be repeated; but nothing runs that was not submitted, nothing is done     *)
(* without its effect, nothing fails with attempts left, and what is silent  *)
(* has no effect any more.                                                   *)
(***************************************************************************)
EXTENDS Integers

CONSTANTS
  Tasks,
  Outbound,     \* tasks that reach a system outside
  Handled,      \* tasks whose type has a handler
  Requeueable,  \* tasks an operator may put back or purge after they failed
  MaxTry        \* attempts a task gets

VARIABLES
  status,    \* "none", "open", "done", "failed" or "cancelled"
  left,      \* attempts each task has left
  performed, \* tasks whose handler has committed an effect
  silent     \* tasks that may have none from now on

vars == <<status, left, performed, silent>>

Submitted == {t \in Tasks : status[t] # "none"}

Init ==
  /\ status = [t \in Tasks |-> "none"]
  /\ left = [t \in Tasks |-> MaxTry]
  /\ performed = {}
  /\ silent = {}

Submit(t) ==
  /\ status[t] = "none"
  /\ status' = [status EXCEPT ![t] = "open"]
  /\ UNCHANGED <<left, performed, silent>>

Perform(t) ==
  /\ t \in (Submitted \cap Handled) \ silent
  /\ performed' = performed \cup {t}
  /\ UNCHANGED <<status, left, silent>>

Complete(t) ==
  /\ t \in Submitted \cap performed
  /\ status' = [status EXCEPT ![t] = "done"]
  /\ UNCHANGED <<left, performed, silent>>

FailAttempt(t) ==
  /\ t \in Submitted
  /\ status' = [status EXCEPT ![t] = IF left[t] > 1 THEN "open" ELSE "failed"]
  /\ left' = [left EXCEPT ![t] = IF left[t] > 1 THEN left[t] - 1 ELSE 0]
  /\ UNCHANGED <<performed, silent>>

FailUnhandled(t) ==
  /\ t \in Submitted \ Handled
  /\ status' = [status EXCEPT ![t] = "failed"]
  /\ UNCHANGED <<left, performed, silent>>

\* Tasks are offered to the workers; silent ones are cancelled instead.
Deliver(T) ==
  /\ T \subseteq Submitted
  /\ status' = [t \in Tasks |-> IF t \notin T THEN status[t]
                                ELSE IF t \in silent THEN "cancelled" ELSE "open"]
  /\ UNCHANGED <<left, performed, silent>>

\* Recovery and due retries open tasks again, whatever became of them meanwhile.
Reopen(T) ==
  /\ T \subseteq Submitted
  /\ status' = [t \in Tasks |-> IF t \in T THEN "open" ELSE status[t]]
  /\ UNCHANGED <<left, performed, silent>>

Requeue(t) ==
  /\ t \in Requeueable /\ status[t] = "failed"
  /\ status' = [status EXCEPT ![t] = "open"]
  /\ left' = [left EXCEPT ![t] = MaxTry]
  /\ UNCHANGED <<performed, silent>>

Purge(t) ==
  /\ t \in Requeueable /\ status[t] = "failed"
  /\ status' = [status EXCEPT ![t] = "cancelled"]
  /\ UNCHANGED <<left, performed, silent>>

Silence ==
  /\ silent' = Outbound
  /\ UNCHANGED <<status, left, performed>>

Next ==
  \/ \E t \in Tasks : \/ Submit(t) \/ Perform(t) \/ Complete(t) \/ FailAttempt(t)
                      \/ FailUnhandled(t) \/ Requeue(t) \/ Purge(t)
  \/ \E T \in SUBSET Tasks : Deliver(T) \/ Reopen(T)
  \/ Silence

Spec == Init /\ [][Next]_vars
================================================================================
