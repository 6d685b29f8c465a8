----------------------------- MODULE UserMailbox -----------------------------
(***************************************************************************)
(* What the lazy synchronisation promises the application: a mailbox that  *)
(* keeps, per email, the latest user submitted.                            *)
(*                                                                         *)
(* There is at most one batch under way. A batch takes the whole queue;    *)
(* when it ends, a user that failed returns to the queue unless a newer    *)
(* one waits there. A version is only given up by a flush of the queue or  *)
(* by the abandonment of the batch. Tasks, locks, health and time do not   *)
(* appear: NodeBridge implements this specification.                       *)
(***************************************************************************)
EXTENDS Naturals

CONSTANTS Emails, Submissions       \* Submissions: bound of versions per email

VARIABLES queued,           \* the version that waits, per email
          sending,          \* the version under way
          latest,           \* the last version submitted
          acked,            \* the last version sent
          discarded         \* the last version given up

mailbox == <<queued, sending, latest, acked, discarded>>

None == [e \in Emails |-> 0]

\* The entries of u, and where u has none those of v; the later of each.
Over(u, v) == [e \in Emails |-> IF u[e] # 0 THEN u[e] ELSE v[e]]
Newest(u, v) == [e \in Emails |-> IF u[e] > v[e] THEN u[e] ELSE v[e]]

Init ==
    /\ queued = None
    /\ sending = None
    /\ latest = None
    /\ acked = None
    /\ discarded = None

Submit(S) ==
    /\ \A e \in S : latest[e] < Submissions
    /\ latest' = [e \in Emails |-> IF e \in S THEN latest[e] + 1 ELSE latest[e]]
    /\ queued' = [e \in Emails |-> IF e \in S THEN latest'[e] ELSE queued[e]]
    /\ UNCHANGED <<sending, acked, discarded>>

Take ==
    /\ sending = None
    /\ sending' = queued
    /\ queued' = None
    /\ UNCHANGED <<latest, acked, discarded>>

\* The batch ends, the users F failed. If none did, the next batch may start
\* in the same step.
Settle(F) ==
    LET sent == [e \in Emails |-> IF e \in F THEN 0 ELSE sending[e]]
        back == [e \in Emails |-> IF e \in F THEN sending[e] ELSE 0]
    IN  /\ acked' = Over(sent, acked)
        /\ \/ /\ queued' = Over(queued, back)
              /\ sending' = None
           \/ /\ F = {}
              /\ sending' = queued
              /\ queued' = None
        /\ UNCHANGED <<latest, discarded>>

Flush ==
    /\ queued' = None
    /\ discarded' = Newest(discarded, queued)
    /\ UNCHANGED <<sending, latest, acked>>

Abandon ==
    /\ sending' = None
    /\ discarded' = Newest(discarded, sending)
    /\ UNCHANGED <<queued, latest, acked>>

Next ==
    \/ \E S \in SUBSET Emails : Submit(S)
    \/ Take
    \/ \E F \in SUBSET Emails : Settle(F)
    \/ Flush
    \/ Abandon

Spec == Init /\ [][Next]_mailbox
=============================================================================
