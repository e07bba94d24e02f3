--------------------------- MODULE PackageReviews ---------------------------
(***************************************************************************)
(* The review rules of a prepared package: how the reviews accepted for it *)
(* fold into lanes, one general and one task lane for every principal, and *)
(* what finish requires of them.  A principal is a human Actor or a bot's  *)
(* name; Nobody stands for a review that identifies neither.               *)
(***************************************************************************)
EXTENDS Sequences, Naturals

CONSTANTS Humans, Bots, Nobody

Principals == Humans \cup Bots

TaskObjections == {"task_request_changes", "task_defer"}
TaskActions == {"task_comment", "task_approve"} \cup TaskObjections
GeneralObjections == {"request_changes", "dismiss", "defer"}
GeneralActions == {"comment", "code_review_summary", "approve"} \cup GeneralObjections

NoReviews ==
  [general |-> [p \in Principals |-> [blocked |-> FALSE, summary |-> FALSE, approval |-> FALSE]],
   task |-> [p \in Principals |-> [blocked |-> FALSE, approval |-> FALSE]],
   invalid |-> FALSE]

TaskLane(lane, e) ==
  IF e.blocking \/ e.action \in TaskObjections THEN [blocked |-> TRUE, approval |-> FALSE]
  ELSE IF e.action = "task_approve" THEN [blocked |-> FALSE, approval |-> TRUE]
  ELSE lane

GeneralLane(lane, e) ==
  IF e.blocking \/ e.action \in GeneralObjections
  THEN [blocked |-> TRUE, summary |-> FALSE, approval |-> FALSE]
  ELSE CASE e.action = "code_review_summary" -> [lane EXCEPT !.blocked = FALSE, !.summary = TRUE]
         [] e.action = "approve" -> [lane EXCEPT !.blocked = FALSE, !.approval = e.by \in Humans]
         [] OTHER -> lane

FoldReview(reviews, e) ==
  CASE e.by = Nobody -> [reviews EXCEPT !.invalid = TRUE]
    [] e.by # Nobody /\ e.action \in TaskActions ->
         [reviews EXCEPT !.task[e.by] = TaskLane(@, e)]
    [] e.by # Nobody /\ e.action \in GeneralActions ->
         [reviews EXCEPT !.general[e.by] = GeneralLane(@, e)]
    [] OTHER -> [reviews EXCEPT !.invalid = TRUE]

\* The lanes before the first review and after each of them.
Folded(actions) ==
  LET folded[n \in 0 .. Len(actions)] ==
        IF n = 0 THEN NoReviews ELSE FoldReview(folded[n - 1], actions[n])
  IN  folded

FoldPackageReviews(actions) == Folded(actions)[Len(actions)]

HasObjection(actions) ==
  LET reviews == FoldPackageReviews(actions)
  IN  \/ reviews.invalid
      \/ \E p \in Principals : reviews.general[p].blocked \/ reviews.task[p].blocked

RequireComplete(actions, requireHuman) ==
  LET reviews == FoldPackageReviews(actions)
  IN  /\ ~HasObjection(actions)
      /\ \E p \in Principals : reviews.general[p].summary
      /\ \E p \in Principals : reviews.task[p].approval
      /\ requireHuman => \E p \in Principals : reviews.general[p].approval

-----------------------------------------------------------------------------
(* What the fold is to compute, said without folding: each decision counts *)
(* until the same principal takes the opposite one in the same lane.       *)
LaneOf(e) == IF e.action \in TaskActions THEN "task" ELSE "general"

WellFormed(e) == e.by \in Principals /\ e.action \in TaskActions \cup GeneralActions

Objects(e) == e.blocking \/ e.action \in TaskObjections \cup GeneralObjections

Settles(e) == ~Objects(e) /\ e.action \in {"task_approve", "approve", "code_review_summary"}

\* No review from position i on, by the author of review i and in its lane, satisfies Answer.
Unanswered(actions, i, Answer(_)) ==
  \A k \in i + 1 .. Len(actions) :
    ~(/\ actions[k].by = actions[i].by
      /\ LaneOf(actions[k]) = LaneOf(actions[i])
      /\ Answer(actions[k]))

\* A positive decision that its author has not objected to since.
Current(actions, action, authors) ==
  \E i \in DOMAIN actions :
    /\ actions[i].action = action /\ actions[i].by \in authors
    /\ ~Objects(actions[i]) /\ Unanswered(actions, i, Objects)

Standing(actions) ==
  \E i \in DOMAIN actions :
    \/ ~WellFormed(actions[i])
    \/ Objects(actions[i]) /\ Unanswered(actions, i, Settles)
=============================================================================
