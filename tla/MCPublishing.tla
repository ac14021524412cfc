----------------------------- MODULE MCPublishing -----------------------------
(***************************************************************************)
(* Instances of Publishing in one state space, told apart by focus: one    *)
(* invocation and one click with two bookings and a person, or with one    *)
(* booking and two people; two clicks and one booking without the cron     *)
(* publisher; one of each beside an open page; or all the actors of the    *)
(* configuration.                                                          *)
(***************************************************************************)
EXTENDS Publishing, TLC
CONSTANTS d1, s1, s2, i1, r1, c1, c2, b1, b2, p1, p2, v1, Focus
VARIABLE focus

OneDraft == [j \in JobIds |-> d1]
Times == [j \in ScheduledJobs |-> IF j = s1 THEN 0 ELSE 1]

MCInit == Init /\ focus \in Focus
MCNext ==
  /\ Next
  /\ focus = "cron" => click'[c2] = click[c2] /\ visit'[p2] = visit[p2]
  /\ focus = "people" => click'[c2] = click[c2] /\ booking'[b2] = booking[b2]
  /\ focus = "clicks" => run' = run /\ booking'[b2] = booking[b2]
  /\ IF focus = "pages"
       THEN /\ click'[c2] = click[c2] /\ booking'[b2] = booking[b2]
            /\ visit'[p2] = visit[p2] /\ content' = content
       ELSE page' = page
  /\ UNCHANGED focus
MCSpec == MCInit /\ [][MCNext]_<<vars, focus>>
=============================================================================
