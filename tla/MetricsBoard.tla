---------------------------- MODULE MetricsBoard ----------------------------
(***************************************************************************)
(* What the metrics worker promises (docs/source-metrics-v2.md): every     *)
(* five-minute bucket is counted in passes, a pass counts every log that   *)
(* was there when it began and none twice, a bucket is closed after three  *)
(* passes, and a log is deleted only when its bucket is closed.  One       *)
(* worker, no lease, no pages.                                             *)
(***************************************************************************)
EXTENDS Integers

CONSTANTS
    Logs,      \* log rows that can ever exist
    BucketOf,  \* the bucket each belongs to, by created_at
    Last,      \* buckets are numbered from 0 to Last - 1
    Passes     \* passes before a bucket is closed

VARIABLES
    there,     \* logs in the table
    counted,   \* how often each log is in the sums of its bucket
    since,     \* per bucket, the logs its current pass must count
    passes,    \* per bucket, the passes published
    closed     \* every bucket below is closed

boardVars == <<there, counted, since, passes, closed>>

Buckets == 0 .. Last - 1
LogsOf(b) == {l \in Logs : BucketOf[l] = b}

BoardInit ==
    /\ there = {}
    /\ counted = [l \in Logs |-> 0]
    /\ since = [b \in Buckets |-> {}]
    /\ passes = [b \in Buckets |-> 0]
    /\ closed = 0

\* A request's log is written, possibly long after its bucket is over.
Arrive(l) ==
    /\ there' = there \cup {l}
    /\ UNCHANGED <<counted, since, passes, closed>>

\* A pass over an open bucket begins, or begins again.
Begin(b) ==
    /\ closed <= b
    /\ since' = [since EXCEPT ![b] = LogsOf(b) \cap there]
    /\ UNCHANGED <<there, counted, passes, closed>>

\* A pass is published: it replaces what the last one counted.
Publish(b) ==
    /\ closed <= b
    /\ \E X \in SUBSET (LogsOf(b) \cap there) :
        /\ since[b] \subseteq X
        /\ counted' = [l \in Logs |-> IF BucketOf[l] # b THEN counted[l]
                                      ELSE IF l \in X THEN 1 ELSE 0]
    /\ passes' = [passes EXCEPT ![b] = @ + 1]
    /\ UNCHANGED <<there, since, closed>>

\* The administrator has an open bucket counted anew.
Reopen(b) ==
    /\ closed <= b
    /\ passes' = [passes EXCEPT ![b] = 0]
    /\ UNCHANGED <<there, counted, since, closed>>

Close(n) ==
    /\ closed < n
    /\ \A b \in closed .. n - 1 : passes[b] >= Passes
    /\ closed' = n
    /\ UNCHANGED <<there, counted, since, passes>>

\* Old logs are deleted, of closed buckets only.
Forget(L) ==
    /\ \A l \in L : BucketOf[l] < closed
    /\ there' = there \ L
    /\ UNCHANGED <<counted, since, passes, closed>>

BoardNext ==
    \/ \E l \in Logs : Arrive(l)
    \/ \E b \in Buckets : Begin(b) \/ Publish(b) \/ Reopen(b)
    \/ \E n \in 1 .. Last : Close(n)
    \/ \E L \in SUBSET there : Forget(L)

BoardSpec == BoardInit /\ [][BoardNext]_boardVars
=============================================================================
