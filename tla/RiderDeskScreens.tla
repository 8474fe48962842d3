-------------------------- MODULE RiderDeskScreens --------------------------
(***************************************************************************)
(* The rider's pages for availability, earnings, profile and support, as   *)
(* the calls they offer and the figures they show, on rows just loaded.    *)
(***************************************************************************)
EXTENDS RiderDesk, FiniteSetsExt

\* What GET riders/portal/availability answers: is there a break, and the
\* running shift, of several the one that starts first.
CurrentBreak == OnBreak

Covers(i, now) == shifts[i].start <= now /\ now <= shifts[i].end

currentShift(now) ==
    {i \in DOMAIN shifts :
        /\ Covers(i, now)
        /\ \A j \in DOMAIN shifts : Covers(j, now) => shifts[i].start <= shifts[j].start}

upcomingShifts(now) == {i \in DOMAIN shifts : shifts[i].start > now}

\* The one button for breaks.
BreakButton == IF CurrentBreak THEN "end" ELSE "start"

\* What GET riders/portal/earnings sums up.
signed(r) == IF r.type = "PENALTY" THEN -r.amount ELSE r.amount

BookedAs(stat) ==
    MapThenSumSet(LAMBDA i : signed(earnings[i]),
                  {i \in DOMAIN earnings : earnings[i].status = stat})

pendingPaise == BookedAs("PENDING")
paidPaise == BookedAs("PAID")

\* A line of the earnings page: its sign and the amount without one.
Line(r) == [minus |-> r.type = "PENALTY", paise |-> r.amount]

\* The profile page sends the bank fields that are not blank, and the profile
\* it gets back masks the account by its last four digits.
SentByPage(form) == form.account = form.ifsc

safeProfile == [bank |-> IF bank.last4 THEN bank.status ELSE None]

\* The support page shows the reply box of a ticket.
ReplyShown == ticket.status \notin {"RESOLVED", "CLOSED"}

-----------------------------------------------------------------------------
\* On rows just loaded the pages offer what the server takes and show what it
\* has: a reply where it takes one, the end of a break where there is one and
\* a start where only a delivery can refuse it, both bank fields or none, bank
\* details exactly when there are some to review; the two sums of the earnings
\* page add up to its lines; and of two running shifts one is hidden only for
\* the instant they touch, or where two requests at once booked them.
\* (admin-dashboard, rider pages, with riders/rider-portal.service.ts)
DeskPagesMatchServer ==
    /\ ticket # None => (ReplyShown <=> Receives("RIDER", ticket.status))
    /\ BreakButton = "end" <=> \E i \in DOMAIN breaks : Active(i)
    /\ \A form \in Form : SentByPage(form) => Accepted(form)
    /\ safeProfile.bank # None <=> bank.ciphertext
    /\ pendingPaise + paidPaise =
           MapThenSumSet(LAMBDA i : IF Line(earnings[i]).minus THEN -Line(earnings[i]).paise
                                    ELSE Line(earnings[i]).paise, DOMAIN earnings)
    /\ \A now \in Instant, i \in DOMAIN shifts :
           shifts[i].end > now =>
               \/ i \in currentShift(now) \cup upcomingShifts(now)
               \/ \E j \in currentShift(now) :
                      shifts[j].end = now \/ shifts[j].by # shifts[i].by
=============================================================================
