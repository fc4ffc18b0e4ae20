---------------------------- MODULE MCUnattended ----------------------------
(***************************************************************************)
(* Two scenarios of what must come to its end with nobody looking: coin    *)
(* transactions that wait for each other's locks, processes that drain the *)
(* mail outbox.                                                            *)
(***************************************************************************)
EXTENDS WalletLocks, EmailAlerts

VARIABLE part
allVars == <<lockVars, alertVars, part>>

\* Users are numbered by the order of their ids.  Transfers both ways, one of
\* them tapped twice; a pool being settled while a backer claims and another
\* joins; a ticket tapped twice; a top-up.
MCTask ==
  <<[kind |-> "transfer", user |-> 1, to |-> 2, key |-> "a"],
    [kind |-> "transfer", user |-> 2, to |-> 1, key |-> "b"],
    [kind |-> "transfer", user |-> 2, to |-> 1, key |-> "b"],
    [kind |-> "settle", pool |-> "p", backers |-> {1, 2}],
    [kind |-> "claim", pool |-> "p", user |-> 2, key |-> "c"],
    [kind |-> "contribute", pool |-> "p", user |-> 1, key |-> "d"],
    [kind |-> "topup", user |-> 2, key |-> "e"],
    [kind |-> "ticket", user |-> 2, key |-> "f"],
    [kind |-> "ticket", user |-> 2, key |-> "f"]>>
MCJobs == DOMAIN MCTask

NothingRuns ==
  at = [j \in Jobs |-> 0] /\ over = [j \in Jobs |-> "committed"] /\ written = {}

Start == /\ AlertsInit
         /\ \/ part = "locks" /\ LocksInit
            \/ part = "mail" /\ NothingRuns

Step ==
  /\ UNCHANGED part
  /\ \/ part = "locks" /\ LocksNext /\ UNCHANGED alertVars
     \/ part = "mail" /\ AlertsNext /\ UNCHANGED lockVars

UnattendedSpec == Start /\ [][Step]_allVars /\ LocksFairness /\ AlertsFairness


=============================================================================
