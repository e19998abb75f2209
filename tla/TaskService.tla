------------------------------ MODULE TaskService ------------------------------
(***************************************************************************)
(* What tangbase::ThreadPool promises to the threads that use it, without  *)
(* workers, mutex or condition variable: a closable first-in first-out     *)
(* service that answers every submission at once (accepted or refused),    *)
(* runs each accepted task exactly once, and lets its owner past Join only *)
(* when nothing accepted is left undone.                                   *)
(***************************************************************************)
EXTENDS Naturals, Sequences

CONSTANT Tasks       \* the callables ever handed to enqueue

VARIABLES
  future,            \* what the submitter of each task holds
  backlog,           \* accepted tasks that have not started, oldest first
  open,              \* new submissions are accepted
  joined             \* the owner has returned from join()

svars == <<future, backlog, open, joined>>

\* A future is ready once the packaged task has stored a value or an exception.
Ready == {"value", "exception"}

\* "none": never submitted; "nullopt": refused; "pending": accepted, not ready.
FutureStates == {"none", "nullopt", "pending"} \cup Ready

SInit ==
  /\ future = [t \in Tasks |-> "none"]
  /\ backlog = <<>>
  /\ open = TRUE
  /\ joined = FALSE

Accept(t) ==
  /\ open
  /\ future[t] = "none"
  /\ future' = [future EXCEPT ![t] = "pending"]
  /\ backlog' = Append(backlog, t)
  /\ UNCHANGED <<open, joined>>

Refuse(t) ==
  /\ ~open
  /\ future[t] = "none"
  /\ future' = [future EXCEPT ![t] = "nullopt"]
  /\ UNCHANGED <<backlog, open, joined>>

Start ==
  /\ backlog # <<>>
  /\ backlog' = Tail(backlog)
  /\ UNCHANGED <<future, open, joined>>

Complete(t, r) ==
  /\ future[t] = "pending"
  /\ \A i \in DOMAIN backlog : backlog[i] # t
  /\ future' = [future EXCEPT ![t] = r]
  /\ UNCHANGED <<backlog, open, joined>>

Close ==
  /\ open' = FALSE
  /\ UNCHANGED <<future, backlog, joined>>

Join ==
  /\ ~open
  /\ \A t \in Tasks : future[t] # "pending"
  /\ joined' = TRUE
  /\ UNCHANGED <<future, backlog, open>>

SNext ==
  \/ \E t \in Tasks : Accept(t) \/ Refuse(t)
  \/ Start
  \/ \E t \in Tasks, r \in Ready : Complete(t, r)
  \/ Close
  \/ Join

SSpec == SInit /\ [][SNext]_svars
================================================================================
