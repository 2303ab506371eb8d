-------------------------- MODULE SubmissionPromise --------------------------
(***************************************************************************)
(* What the agent promises the competition platform about flag             *)
(* submissions, abstracting from rows, attempts, crashes and catalogues:   *)
(* in each scope at most one submission may still take effect, and none is *)
(* sent once one of this agent's submissions was accepted there.           *)
(***************************************************************************)
CONSTANTS Scope, Candidate

VARIABLES
  outstanding,   \* <<scope, candidate>> pairs sent and not yet processed or lost
  accepted       \* scopes in which the platform accepted a submission

promiseVars == <<outstanding, accepted>>

PromiseInit ==
  /\ outstanding = {}
  /\ accepted = {}

Send(s, c) ==
  /\ s \notin accepted
  /\ \A p \in outstanding : p[1] # s
  /\ outstanding' = outstanding \cup {<<s, c>>}
  /\ UNCHANGED accepted

\* The platform processes a submission: it accepts it, or it does not.
Process(s, c) ==
  /\ <<s, c>> \in outstanding
  /\ outstanding' = outstanding \ {<<s, c>>}
  /\ accepted' \in {accepted, accepted \cup {s}}

PromiseNext ==
  \E s \in Scope, c \in Candidate : Send(s, c) \/ Process(s, c)

PromiseSpec == PromiseInit /\ [][PromiseNext]_promiseVars

=============================================================================
