----------------------------- MODULE OfferBook ------------------------------
(***************************************************************************)
(* What dispatch promises about a job, without the rows of offers, the     *)
(* worker that expires them and the orders edited beside them: a job is in *)
(* one place at a time.  It is nowhere yet, in the queue, on offer to one  *)
(* rider, in one rider's hands, or closed.  From the queue it comes into   *)
(* hands only by an offer that is taken up in time, by whom it was made to *)
(* and as the only one open; from hands to hands only through the queue;   *)
(* and it is closed, for good, by the rider who had it.                    *)
(***************************************************************************)
CONSTANTS
    Job,
    Rider,
    None    \* no rider

VARIABLE page   \* page[j]: where job j is, the rider meant, is the offer late

Places == {"absent", "queue", "offered", "held", "closed"}

Entry(place, r, late) == [place |-> place, rider |-> r, late |-> late]
Absent == Entry("absent", None, FALSE)
Queued == Entry("queue", None, FALSE)

BookInit == page = [j \in Job |-> Absent]

Write(j, entry) == page' = [page EXCEPT ![j] = entry]

Is(j, place) == page[j].place = place

\* A job opens where its order is, with the rider the order names: in the queue
\* as a rule, but an order may have been sent out or closed without a job.
Enter(j) ==
    /\ page[j] = Absent
    /\ \E place \in Places \ {"absent", "offered"}, r \in Rider \cup {None} :
          Write(j, Entry(place, r, FALSE))

\* An offer replaces nothing, or one that is late.
Publish(j, r) ==
    /\ page[j] = Queued \/ (Is(j, "offered") /\ page[j].late)
    /\ Write(j, Entry("offered", r, FALSE))

Lapse(j) ==
    /\ Is(j, "offered") /\ ~page[j].late
    /\ Write(j, Entry("offered", page[j].rider, TRUE))

Decline(j) == Is(j, "offered") /\ Write(j, Queued)

\* Late offers are expired one by one or together.
Expire(group) ==
    /\ \A j \in group : Is(j, "offered") /\ page[j].late
    /\ page' = [j \in Job |-> IF j \in group THEN Queued ELSE page[j]]

TakeUp(j) ==
    /\ Is(j, "offered") /\ ~page[j].late
    /\ Write(j, Entry("held", page[j].rider, FALSE))

GiveBack(j) == Is(j, "held") /\ Write(j, Queued)

Close(j) ==
    /\ Is(j, "held")
    /\ Write(j, Entry("closed", page[j].rider, FALSE))

BookNext ==
    \/ \E group \in SUBSET Job : Expire(group)
    \/ \E j \in Job :
          \/ Enter(j) \/ Lapse(j) \/ Decline(j) \/ TakeUp(j) \/ GiveBack(j)
          \/ Close(j)
          \/ \E r \in Rider : Publish(j, r)

BookSpec == BookInit /\ [][BookNext]_page
=============================================================================
