------------------------------- MODULE MCCron -------------------------------
EXTENDS Cron

MCTraces == (Jobs \X (1..(MaxTime + 1))) \cup {UserTrace}

Every1 == [kind |-> "every", t |-> 1]
At2    == [kind |-> "at", t |-> 2]

MCSchedules == {Every1, At2}

\* What a periodic schedule promises: the first of its times after t, counted
\* from the deadline before, or from midnight for a calendar schedule.
FirstAfter(t, step, from) ==
  CHOOSE d \in (t + 1)..(t + step) : (d - from) % step = 0

\* NextDeadline computes that, however many deadlines were missed.
ASSUME DeadlinesAreNext ==
  \A step \in 1..4, previous \in 0..4 : \A t \in previous..9 :
    /\ NextDeadline([kind |-> "every", t |-> step], t, previous)
         = FirstAfter(t, step, previous)
    /\ NextDeadline([kind |-> "cron", t |-> step], t, previous)
         = FirstAfter(t, step, 0)
=============================================================================
