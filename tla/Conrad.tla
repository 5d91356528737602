-------------------------------- MODULE Conrad --------------------------------
(***************************************************************************)
(* The scheduler of the sigma library (conrad.js).  It runs jobs, bit by   *)
(* bit, in a loop that a timer repeats: jobs are added to jobs, go to      *)
(* waiting when they come after another job, else to running, and sorted   *)
(* lists the running ones by the time they have used.                      *)
(*                                                                         *)
(* The page has one thread, so that an event handler is one step; it may   *)
(* throw an exception half way.  The scheduler is a record, its operations *)
(* are operators on it, and what a job does is the constant operator Body  *)
(* that its user gives: Body(id, w) is [w |-> the world after, again |->   *)
(* what the job returns, threw |-> whether it ends in an exception].       *)
(***************************************************************************)
EXTENDS Integers, FiniteSets, SequencesExt, Lists

CONSTANT Body(_, _)

NoJob == "no job"

NewConrad == [jobs |-> <<>>, waiting |-> <<>>, running |-> {}, sorted |-> <<>>,
              isRunning |-> FALSE, timers |-> 0]

\* count: runs after which the job is over, 0 for one that ends itself
NewJob(id, after, count) == [id |-> id, after |-> after, count |-> count, done |-> 0, time |-> 0]

IdsOf(list) == {list[i].id : i \in DOMAIN list}

Other(list, id) == Kept(list, {j \in ToSet(list) : j.id # id})

HasJob(c, id) == id \in IdsOf(c.jobs) \cup c.running \cup IdsOf(c.waiting)

\* activateJob for each job of a list, which have used no time yet: they start as
\* if they had used as much as the last in the line
Activate(c, list) ==
    LET start == IF c.sorted = <<>> THEN 0 ELSE Last(c.sorted).time
    IN  [c EXCEPT !.running = @ \cup IdsOf(list),
                  !.sorted = @ \o [i \in DOMAIN list |-> [list[i] EXCEPT !.time = start]]]

\* Variant: the list by priority is left as it is
KillJobButSorted(c, id) ==
    [c EXCEPT !.jobs = Other(@, id), !.waiting = Other(@, id), !.running = @ \ {id}]

\* killJob: only a job that is somewhere can be killed
CanKill(c, id) == HasJob(c, id)
KillJob(c, id) ==
    [c EXCEPT !.jobs = Other(@, id), !.waiting = Other(@, id),
              !.running = @ \ {id}, !.sorted = Other(@, id)]

\* The beginning of the loop: the jobs added since the last one
TakeIn(c) ==
    LET free == {j \in ToSet(c.jobs) : j.after = NoJob}
        taken == Activate([c EXCEPT !.jobs = <<>>,
                                    !.waiting = @ \o Kept(c.jobs, ToSet(c.jobs) \ free)],
                          Kept(c.jobs, free))
    IN  [taken EXCEPT !.isRunning = taken.sorted # <<>>]

\* Only differences of the times matter: the least is made 0
Settle(list) ==
    IF list = <<>> THEN list
    ELSE LET least == CHOOSE t \in {list[i].time : i \in DOMAIN list} :
                        \A i \in DOMAIN list : t <= list[i].time
         IN  [i \in DOMAIN list |-> [list[i] EXCEPT !.time = @ - least]]

\* A job goes back before the first one that has used more time
Reinsert(list, job) ==
    LET later == {i \in DOMAIN list : list[i].time > job.time}
        before == IF later = {} THEN Len(list)
                                ELSE (CHOOSE i \in later : \A j \in later : i <= j) - 1
    IN  SubSeq(list, 1, before) \o <<job>> \o SubSeq(list, before + 1, Len(list))

\* The jobs that wait for a dead one are activated
Awake(c, id) ==
    LET ready == {j \in ToSet(c.waiting) : j.after = id}
    IN  Activate([c EXCEPT !.waiting = Kept(@, ToSet(@) \ ready)], Kept(c.waiting, ready))

Popped(c) == [c EXCEPT !.sorted = Tail(@)]

\* The first job has come back, after a time of cost: it ends or goes on
Returned(c, cost, again) ==
    LET job == Head(c.sorted)
        run == [job EXCEPT !.done = IF job.count = 0 THEN 0 ELSE @ + 1, !.time = @ + cost]
        dead == IF job.count > 0 THEN job.count <= run.done ELSE ~again
    IN  IF dead THEN Awake(KillJob(Popped(c), job.id), job.id)
                ELSE [c EXCEPT !.sorted = Settle(Reinsert(Tail(@), run))]

\* One job, which takes time cost; s is [c, w, threw]
ExecuteFirstJob(s, cost) ==
    IF s.threw \/ s.c.sorted = <<>> THEN s ELSE
    LET result == Body(Head(s.c.sorted).id, s.w)
    IN  [c |-> IF result.threw THEN Popped(s.c) ELSE Returned(s.c, cost, result.again),
         w |-> result.w, threw |-> result.threw]

\* The jobs of a loop, one for each cost in costs as far as its frame lasts
\* (the state before a job is bound in a set for TLC to evaluate it once)
Ran(c, w, costs) ==
    LET ran[n \in 0 .. Len(costs)] ==
            IF n = 0 THEN [c |-> TakeIn(c), w |-> w, threw |-> FALSE]
            ELSE CHOOSE t \in {ExecuteFirstJob(s, costs[n]) : s \in {ran[n - 1]}} : TRUE
    IN  ran[Len(costs)]

\* The loop sets its timer again when there was a job at its beginning.  An
\* exception leaves it at once.
Loop(c, w, costs) ==
    LET s == Ran(c, w, costs)
    IN  IF s.c.isRunning /\ ~s.threw THEN [s EXCEPT !.c.timers = @ + 1] ELSE s

\* addJob; the loop starts at once if it does not run
AddJob(c, w, job, costs) ==
    LET added == [c EXCEPT !.jobs = Append(@, job)]
    IN  IF c.isRunning THEN [c |-> added, w |-> w, threw |-> FALSE]
                       ELSE Loop(added, w, costs)
-----------------------------------------------------------------------------
(* A job is in one place; the line holds running jobs, each once, ordered by *)
(* the time they used.  In a scheduler where no job ever threw an exception  *)
(* it holds all of them, and just one timer is set as long as there are any. *)
SchedulerCoherent(c, threw) ==
    LET line == {c.sorted[i].id : i \in DOMAIN c.sorted}
    IN  /\ c.running \cap (IdsOf(c.jobs) \cup IdsOf(c.waiting)) = {}
        /\ IdsOf(c.jobs) \cap IdsOf(c.waiting) = {}
        /\ Cardinality(line) = Len(c.sorted)
        /\ line \subseteq c.running
        /\ \A i, j \in DOMAIN c.sorted : i < j => c.sorted[i].time <= c.sorted[j].time
        /\ ~threw => /\ line = c.running
                     /\ c.timers = IF c.isRunning THEN 1 ELSE 0
                     /\ c.jobs # <<>> \/ line # {} => c.isRunning
=============================================================================
