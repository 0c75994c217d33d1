------------------------- MODULE SequentialDownloads -------------------------
(***************************************************************************)
(* What UserDownloadQueue promises, without its list, flags and statuses:  *)
(* each user has at most one running download and a line of waiting ones.  *)
(* A download joins the end of the line, or runs at once if nothing runs;  *)
(* when the running one is over the head of the line runs.  The one        *)
(* exception is a running download older than StaleTimeout, which the next *)
(* link of its user replaces, together with the line behind it.            *)
(***************************************************************************)
EXTENDS Naturals, Sequences

CONSTANTS Users, Links, Nobody, MaxWaiting, StaleTimeout

VARIABLES
  running,  \* per user: [link, since], or Nobody
  waiting,  \* per user: the line, first in first out
  now, epoch

vars == <<running, waiting, now, epoch>>

Init ==
  /\ running = [u \in Users |-> Nobody]
  /\ waiting = [u \in Users |-> <<>>]
  /\ now = 1
  /\ epoch = 0

Run(u, link) == running' = [running EXCEPT ![u] = [link |-> link, since |-> now]]

Overdue(u) == running[u] # Nobody /\ now - running[u].since > StaleTimeout

Start(u, link) ==
  /\ running[u] = Nobody
  /\ Run(u, link)
  /\ UNCHANGED <<waiting, now, epoch>>

Join(u, link) ==
  /\ running[u] # Nobody
  /\ ~Overdue(u)
  /\ Len(waiting[u]) < MaxWaiting
  /\ waiting' = [waiting EXCEPT ![u] = Append(@, link)]
  /\ UNCHANGED <<running, now, epoch>>

Replace(u, link) ==
  /\ Overdue(u)
  /\ Run(u, link)
  /\ waiting' = [waiting EXCEPT ![u] = <<>>]
  /\ UNCHANGED <<now, epoch>>

Finish(u) ==
  /\ running[u] # Nobody
  /\ IF waiting[u] = <<>>
     THEN running' = [running EXCEPT ![u] = Nobody] /\ UNCHANGED waiting
     ELSE Run(u, Head(waiting[u])) /\ waiting' = [waiting EXCEPT ![u] = Tail(@)]
  /\ UNCHANGED <<now, epoch>>

Tick ==
  /\ now' = now + 1
  /\ UNCHANGED <<running, waiting, epoch>>

Restart ==
  /\ epoch' = epoch + 1
  /\ running' = [u \in Users |-> Nobody]
  /\ waiting' = [u \in Users |-> <<>>]
  /\ UNCHANGED now

Next ==
  \/ \E u \in Users, link \in Links : Start(u, link) \/ Join(u, link) \/ Replace(u, link)
  \/ \E u \in Users : Finish(u)
  \/ Tick
  \/ Restart

Spec == Init /\ [][Next]_vars
=============================================================================
