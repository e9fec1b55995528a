-------------------------- MODULE AtomicResolution --------------------------
(***************************************************************************)
(* What resolve_account promises its callers: the authority of an account, *)
(* read in one atomic step while the call runs, or a failure.  How the     *)
(* catalog changes meanwhile is left open.                                 *)
(***************************************************************************)
CONSTANTS Accounts, Names, Readers

VARIABLES
  world,   \* the authority of every account, as the catalog holds it
  call     \* what each caller knows of its call

Begin(r, n) ==
  /\ call[r].state \in {"idle", "done", "failed"}
  /\ call' = [call EXCEPT ![r] = [state |-> "pending", name |-> n]]
  /\ UNCHANGED world

(* The atomic read.  The answer is only delivered if the account had the   *)
(* name the caller asked for and was enabled at that moment.               *)
Take(r, a) ==
  /\ call[r].state = "pending"
  /\ call' = [call EXCEPT ![r] = [state |-> "taken", name |-> call[r].name,
                                  answer |-> world.accounts[a]]]
  /\ UNCHANGED world

Deliver(r) ==
  /\ call[r].state = "taken"
  /\ call[r].answer.row.name = call[r].name
  /\ call[r].answer.row.enabled
  /\ call' = [call EXCEPT ![r] = [state |-> "done", name |-> call[r].name,
                                  answer |-> call[r].answer]]
  /\ UNCHANGED world

Fail(r) ==
  /\ call[r].state \in {"pending", "taken"}
  /\ call' = [call EXCEPT ![r] = [state |-> "failed"]]
  /\ UNCHANGED world

Change == UNCHANGED call

Init == call = [r \in Readers |-> [state |-> "idle"]]

Next ==
  \/ Change
  \/ \E r \in Readers : \/ \E n \in Names : Begin(r, n)
                        \/ \E a \in Accounts : Take(r, a)
                        \/ Deliver(r)
                        \/ Fail(r)

Spec == Init /\ [][Next]_<<world, call>>
=============================================================================
